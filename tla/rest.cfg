SPECIFICATION Spec
CONSTANTS
    Nil = Nil
    Null = Null
    NoSession = NoSession
    NoCall = NoCall
    Pending = Pending
    Deleted = Deleted
    Refused = Refused
    Failed = Failed
    c1 = c1
    c2 = c2
    c3 = c3
    s1 = s1
    s2 = s2
    v1 = v1
    v2 = v2
    vOld = vOld
    Names <- MCNames
    Values <- MCValues
    Clients = {c1, c2, c3}
    SessionIds = {s1, s2}
    IdsOf <- MCIdsOf
    NewBodies <- MCNewBodies
    UpdBodies <- MCUpdBodies
    Budget <- MCBudget
    MaxRestarts = 1
INVARIANT TypeOK
INVARIANT UpdatesKept
PROPERTY ImplementsStore
