SPECIFICATION Spec
CONSTANTS
    Nil = Nil
    Failed = Failed
    NoSession = NoSession
    NoRequest = NoRequest
    pcm = pcm
    pcm_main_menu = pcm_main_menu
    pcm_block_menu = pcm_block_menu
    pcm_block_advert = pcm_block_advert
    enter_bnumber_prm = enter_bnumber_prm
    enter_bnumber_pcm = enter_bnumber_pcm
    enter_name = enter_name
    setUnblocked = setUnblocked
    setBlocked = setBlocked
    setAdverts = setAdverts
    setNoAdverts = setNoAdverts
    setPRM = setPRM
    setPCM = setPCM
    saveBlocked = saveBlocked
    saveAdverts = saveAdverts
    saveName = saveName
    loadName = loadName
    loadBalances = loadBalances
    pcm_deliver = pcm_deliver
    pcm_unblocked = pcm_unblocked
    pcm_blocked = pcm_blocked
    pcm_adverts_unblocked = pcm_adverts_unblocked
    pcm_adverts_blocked = pcm_adverts_blocked
    pcm_name_changed = pcm_name_changed
    display_name = display_name
    pcm_balances = pcm_balances
    code140 = code140
    code140Number = code140Number
    vTrue = vTrue
    vFalse = vFalse
    vPRM = vPRM
    vPCM = vPCM
    in1 = in1
    in2 = in2
    in3 = in3
    in4 = in4
    in5 = in5
    in6 = in6
    in7 = in7
    inText = inText
    Items <- PcmItems
    Kind <- PcmKind
    ByCode <- PcmByCode
    ByPrefix <- PcmByPrefix
    ByRegex <- PcmByRegex
    Options <- PcmOptions
    ItemName <- PcmItemName
    ItemValue <- PcmItemValue
    FuncEffects <- PcmFuncEffects
    Names <- MCNames
    Values <- MCValues
    ParseInt <- MCParseInt
    InitItem = pcm
    Instances = {i1}
    Msisdns = {m1}
    Codes = {code140, code140Number}
    Inputs = {in1, in2, in3, in4, in5, in6, in7, inText}
    AbortTexts = {inText}
    MaxRequests = 5
    MaxFaults = 0
INVARIANT PromptIsStored
INVARIANT ConfirmedOnlyIfSaved
