--------------------------- MODULE WebSocketSession ---------------------------
(***************************************************************************)
(* A websocket connection that watches a query id, from                    *)
(* src/util/http/websocket/WebSocketSession.{h,cpp} and                    *)
(* UpdateFetcher.{h,cpp}.  Its two coroutines, waitForServerEvents and     *)
(* handleClientCommands, run on the strand of the distributor that the     *)
(* session acquired when it arrived.  The client and the network are       *)
(* external: a client may send commands, and may go away at any time.      *)
(***************************************************************************)
EXTENDS MessageSender

VARIABLES at,             \* where waitForServerEvents (and its caller) is
          watched,        \* queryId_
          fetcher,        \* distributor_ of updateFetcher_
          nextIndex,      \* nextIndex_ of updateFetcher_
          received,       \* the updates written to the client
          open,           \* ws_.is_open()
          reads,          \* handleClientCommands is reading
          cancelOnClose   \* cancelOnClose_
sessionVars == <<at, watched, fetcher, nextIndex, received, open, reads,
                 cancelOnClose>>

SessionInit ==
  /\ at = [s \in Session |-> "off"]
  /\ watched = [s \in Session |-> None]
  /\ fetcher = [s \in Session |-> None]
  /\ nextIndex = [s \in Session |-> 0]
  /\ received = [s \in Session |-> <<>>]
  /\ open = [s \in Session |-> FALSE]
  /\ reads = [s \in Session |-> FALSE]
  /\ cancelOnClose = [s \in Session |-> FALSE]

At == {"off", "accepts", "asks", "waits", "writes", "closes", "catches", "over"}

Step(s, to) == at' = [at EXCEPT ![s] = to]

(* The session and its UpdateFetcher are destroyed.                        *)
EndSession(s) ==
  /\ Step(s, "over")
  /\ refs' = [refs EXCEPT ![fetcher[s]] = @ \ {s}]
  /\ watched' = [watched EXCEPT ![s] = None]
  /\ fetcher' = [fetcher EXCEPT ![s] = None]
  /\ nextIndex' = [nextIndex EXCEPT ![s] = 0]
  /\ received' = [received EXCEPT ![s] = <<>>]
  /\ open' = [open EXCEPT ![s] = FALSE]
  /\ reads' = [reads EXCEPT ![s] = FALSE]
  /\ cancelOnClose' = [cancelOnClose EXCEPT ![s] = FALSE]

-----------------------------------------------------------------------------
(* handleSession up to async_accept: the UpdateFetcher acquires the        *)
(* distributor of the id, whether or not there is such a query.            *)
HandleSession(s, i) ==
  /\ at[s] = "off"
  /\ \E d \in Distributor :
       /\ CreateOrAcquireDistributor(i, s, FALSE, d)
       /\ fetcher' = [fetcher EXCEPT ![s] = d]
  /\ watched' = [watched EXCEPT ![s] = i]
  /\ Step(s, "accepts")
  /\ UNCHANGED <<strand, data, finished, waiting, senderVars, nextIndex,
                 received, open, reads, cancelOnClose>>

Accepted(s) ==
  /\ at[s] = "accepts"
  /\ open' = [open EXCEPT ![s] = TRUE]
  /\ reads' = [reads EXCEPT ![s] = TRUE]
  /\ Step(s, "asks")
  /\ UNCHANGED <<distributorVars, hubVars, senderVars, watched, fetcher,
                 nextIndex, received, cancelOnClose>>

AcceptFails(s) ==
  /\ at[s] = "accepts"
  /\ Step(s, "catches")
  /\ UNCHANGED <<distributorVars, hubVars, senderVars, watched, fetcher,
                 nextIndex, received, open, reads, cancelOnClose>>

-----------------------------------------------------------------------------
(* waitForEvent: the next piece of data is there and is written to the     *)
(* client.                                                                 *)
HasData(s) == nextIndex[s] < Len(data[fetcher[s]])

(* Mutant: the newest piece of data is sent instead of the next one.       *)
DeliverNewest(s) ==
  /\ HasData(s)
  /\ nextIndex' = [nextIndex EXCEPT ![s] = @ + 1]
  /\ LET all == data[fetcher[s]]
     IN  received' = [received EXCEPT ![s] = Append(@, all[Len(all)])]
  /\ Step(s, "writes")

Deliver(s) ==
  /\ HasData(s)
  /\ nextIndex' = [nextIndex EXCEPT ![s] = @ + 1]
  /\ received' = [received EXCEPT ![s] =
                    Append(@, data[fetcher[s]][nextIndex[s] + 1])]
  /\ Step(s, "writes")

(* waitForNextDataPiece returns a nullptr, and the server closes.          *)
NoMoreData(s) ==
  /\ ~ HasData(s)
  /\ Step(s, "closes")
  /\ UNCHANGED <<nextIndex, received>>

(* The session calls waitForNextDataPiece: it gets an answer at once or    *)
(* starts to wait on the timer.                                            *)
Ask(s) ==
  /\ at[s] = "asks"
  /\ \/ (Deliver(s) \/ (finished[fetcher[s]] /\ NoMoreData(s)))
        /\ UNCHANGED waiting
     \/ /\ ~ HasData(s) /\ ~ finished[fetcher[s]]
        /\ waiting' = [waiting EXCEPT ![fetcher[s]] = Append(@, s)]
        /\ Step(s, "waits")
        /\ UNCHANGED <<nextIndex, received>>
  /\ UNCHANGED <<refs, strand, data, finished, hubVars, senderVars, watched,
                 fetcher, open, reads, cancelOnClose>>

(* The timer was re-armed or the wait was cancelled: the session continues *)
(* on the strand after waitForUpdate.                                      *)
Resume(s) ==
  LET d == fetcher[s]
  IN  /\ at[s] = "waits"
      /\ strand[d] # <<>> /\ Head(strand[d]) = ResumeTask(s)
      /\ strand' = [strand EXCEPT ![d] = Tail(@)]
      /\ \/ open[s] /\ (Deliver(s) \/ NoMoreData(s))
         \/ ~ open[s] /\ Step(s, "catches") /\ UNCHANGED <<nextIndex, received>>
      /\ UNCHANGED <<refs, data, finished, waiting, hubVars, senderVars,
                     watched, fetcher, open, reads, cancelOnClose>>

Written(s) ==
  /\ at[s] = "writes"
  /\ Step(s, "asks")
  /\ UNCHANGED <<distributorVars, hubVars, senderVars, watched, fetcher,
                 nextIndex, received, open, reads, cancelOnClose>>

-----------------------------------------------------------------------------
(* tryToCancelQuery: whatever operation has the id now.                    *)
TryToCancelQuery(s) ==
  cancelled' = cancelled \union ({registry[watched[s]]} \ {None})

Listening(s) == reads[s] /\ open[s] /\ at[s] \in {"asks", "waits", "writes"}

(* handleClientCommands gets "cancel_on_close".                            *)
CancelOnCloseCommand(s) ==
  /\ Listening(s)
  /\ cancelOnClose' = [cancelOnClose EXCEPT ![s] = TRUE]
  /\ UNCHANGED <<distributorVars, hubVars, senderVars, at, watched, fetcher,
                 nextIndex, received, open, reads>>

(* It gets "cancel", and stops to read if it could cancel an operation.    *)
CancelCommand(s) ==
  /\ Listening(s)
  /\ TryToCancelQuery(s)
  /\ reads' = [reads EXCEPT ![s] = registry[watched[s]] = None]
  /\ UNCHANGED <<distributorVars, hubVars, registry, pc, queryId, distributor,
                 updates, at, watched, fetcher, nextIndex, received, open,
                 cancelOnClose>>

(* The connection is lost while the session is not waiting for an update:  *)
(* the read or the write throws.                                           *)
Disconnect(s) ==
  /\ at[s] \in {"asks", "writes", "closes"}
  /\ at[s] = "asks" => reads[s]
  /\ open' = [open EXCEPT ![s] = FALSE]
  /\ Step(s, "catches")
  /\ UNCHANGED <<distributorVars, hubVars, senderVars, watched, fetcher,
                 nextIndex, received, reads, cancelOnClose>>

(* The connection is lost while the session waits: the exception of the    *)
(* read cancels the wait on the timer, if it is not over already.          *)
DisconnectWaiting(s) ==
  LET d == fetcher[s]
  IN  /\ at[s] = "waits" /\ open[s] /\ reads[s]
      /\ open' = [open EXCEPT ![s] = FALSE]
      /\ \/ \E k \in 1 .. Len(waiting[d]) :
              /\ waiting[d][k] = s
              /\ waiting' = [waiting EXCEPT ![d] =
                               SubSeq(@, 1, k - 1) \o SubSeq(@, k + 1, Len(@))]
              /\ Post(d, ResumeTask(s))
         \/ /\ \A k \in 1 .. Len(waiting[d]) : waiting[d][k] # s
            /\ UNCHANGED <<strand, waiting>>
      /\ UNCHANGED <<refs, data, finished, hubVars, senderVars, at, watched,
                     fetcher, nextIndex, received, reads, cancelOnClose>>

(* async_close is done.  If handleClientCommands still reads, its read     *)
(* throws; otherwise both coroutines are over and the session ends.        *)
Closed(s) ==
  /\ at[s] = "closes"
  /\ IF reads[s]
     THEN /\ open' = [open EXCEPT ![s] = FALSE]
          /\ Step(s, "catches")
          /\ UNCHANGED <<refs, watched, fetcher, nextIndex, received, reads,
                         cancelOnClose>>
     ELSE EndSession(s)
  /\ UNCHANGED <<strand, data, finished, waiting, hubVars, senderVars>>

(* The catch clause of acceptAndWait, and the end of the session.          *)
Catch(s) ==
  /\ at[s] = "catches"
  /\ IF cancelOnClose[s] THEN TryToCancelQuery(s) ELSE UNCHANGED cancelled
  /\ EndSession(s)
  /\ UNCHANGED <<strand, data, finished, waiting, hubVars, registry, pc,
                 queryId, distributor, updates>>

(* What a session does on its own.                                         *)
SessionProgress(s) ==
  \/ Accepted(s) \/ AcceptFails(s) \/ Ask(s) \/ Resume(s) \/ Written(s)
  \/ Closed(s) \/ Catch(s)

Client(s) ==
  \/ \E i \in QueryIds : HandleSession(s, i)
  \/ CancelOnCloseCommand(s) \/ CancelCommand(s)
  \/ Disconnect(s) \/ DisconnectWaiting(s)
=============================================================================
