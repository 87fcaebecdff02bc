SPECIFICATION Spec
CONSTANTS
    None = None
    Requests = {r1, r2, r3}
    Msisdns = {m1}
INVARIANT TypeOK
INVARIANT StoredPromptIsAnswered
PROPERTY WaiterEnds
PROPERTY RequestIsAnswered
