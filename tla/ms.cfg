SPECIFICATION FairSpec
CONSTANTS
    REQUEST = REQUEST
    RESPONSE = RESPONSE
    RELEASE = RELEASE
    start = start
    count = count
    abort = abort
    Types <- MCTypes
    ZeroType = REQUEST
    OtherStem = OtherStem
    NotDecoded = NotDecoded
    Panics = Panics
    Instances = {i1, i2}
    Ids = {m1, m2}
    ValidNames = {start, count, abort}
    InvalidNames = {REQUEST, RESPONSE, RELEASE}
    NoName = NoName
    NoProvider = NoProvider
    NoFnc = NoFnc
    NoRequest = NoRequest
    Garbled = Garbled
    NoMessage = NoMessage
    NoTask = NoTask
    Programs <- MCPrograms
    Messages <- MCMessages
INVARIANTS
    TypeOK
    ReplyFitsCall
    HandledOnce
    NoTypeMisread
PROPERTY RequestIsAnswered
