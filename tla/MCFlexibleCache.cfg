SPECIFICATION Spec
CONSTANTS
    Key = {1, 2, 3, 4}
    Size <- MCSize
    Limits = {1, 2, 4}
    RoomRequests = {1, 2}
INVARIANTS Accounting LimitsRespected
PROPERTIES EvictionIsLRU
