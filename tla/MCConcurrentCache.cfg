SPECIFICATION FairSpec
CONSTANTS
    a = a
    Key = {a}
    Size <- MCSize
    Thread = {t1, t2}
    Rip = {r1, r2}
    NoRip = NoRip
    NoKey = NoKey
    Outcomes = {"suitable", "unsuitable", "fails"}
    Limits = {0, 1}
    RoomRequests = {1}
INVARIANTS OwnRegistration NoOrphanedWaiter NoLeakedRegistration PinnedAfterCall
PROPERTIES EveryCallReturns
