SPECIFICATION Spec
CONSTANTS
    Nil = Nil
    Failed = Failed
    NoSession = NoSession
    NoRequest = NoRequest
    R = R
    R2 = R2
    A = A
    B = B
    P = P
    F = F
    S = S
    D = D
    G = G
    W = W
    X = X
    cMenu = cMenu
    cSeries = cSeries
    cSub = cSub
    cPrefix = cPrefix
    cRegex = cRegex
    cUnknown = cUnknown
    in1 = in1
    in2 = in2
    in3 = in3
    inOther = inOther
    v1 = v1
    InitItem = R
    Items <- MCItems
    Kind <- MCKind
    Names <- MCNames
    Values <- MCValues
    ParseInt <- MCParseInt
    ByCode <- MCByCode
    ByPrefix <- MCByPrefix
    ByRegex <- MCByRegex
    Options <- MCOptions
    ItemName <- MCItemName
    ItemValue <- MCItemValue
    FuncEffects <- MCFuncEffects
    Instances = {i1}
    Msisdns = {m1, m2}
    Codes = {cMenu, cSeries, cSub, cPrefix, cRegex}
    Inputs = {in1, in2, in3, inOther}
    AbortTexts = {v1}
    MaxRequests = 4
    MaxFaults = 0
INVARIANT InputReachesShownItem
INVARIANT PromptIsStored
INVARIANT IdleMeansNoSession
INVARIANT DryOnlyAfterPrompt
PROPERTY OnlyStartCreates
PROPERTY ImplementsDialogue
SYMMETRY MCSymmetry
