SPECIFICATION Spec
CONSTANTS
    Names = {n1, n2}
    Values = {v1, v2}
    Nil = Nil
    SessionIds = {s1, s2}
    Places <- MCPlaces
    NoMap = NoMap
    NoLocal = NoLocal
    NoSession = NoSession
SYMMETRY Symmetries
INVARIANTS
    TypeOK
    StoresAgree
PROPERTY NewIsApart
