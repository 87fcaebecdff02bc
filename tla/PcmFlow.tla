-------------------------------- MODULE PcmFlow --------------------------------
(***************************************************************************)
(* The flow that nats-ussd serves: "please call me" (examples/pcm/pcm.go). *)
(* The operators named Pcm... are the values of the constants of UssdItems *)
(* for this flow.                                                          *)
(***************************************************************************)
EXTENDS UssdService

CONSTANTS
    pcm,                                                     \* router
    pcm_main_menu, pcm_block_menu, pcm_block_advert,         \* menus
    enter_bnumber_prm, enter_bnumber_pcm, enter_name,        \* prompts
    setUnblocked, setBlocked, setAdverts, setNoAdverts, setPRM, setPCM,
    saveBlocked, saveAdverts, saveName,                      \* profileSetItems()
    loadName, loadBalances,                                  \* profileGetItems()
    pcm_deliver,
    pcm_unblocked, pcm_blocked, pcm_adverts_unblocked, pcm_adverts_blocked,
    pcm_name_changed, display_name, pcm_balances,            \* finals
    code140, code140Number,                                  \* *140# and *140*<number>#
    vTrue, vFalse, vPRM, vPCM

PcmMenus == {pcm_main_menu, pcm_block_menu, pcm_block_advert}
PcmPrompts == {enter_bnumber_prm, enter_bnumber_pcm, enter_name}
PcmSets == {setUnblocked, setBlocked, setAdverts, setNoAdverts, setPRM, setPCM}
ProfileSet == {saveBlocked, saveAdverts, saveName}
ProfileGet == {loadName, loadBalances}

\* The texts that tell the user that a setting was changed.  Two of them have the
\* id "pcm_unblocked", the second is pcm_blocked here: final items are not looked up.
Confirmations ==
    {pcm_unblocked, pcm_blocked, pcm_adverts_unblocked, pcm_adverts_blocked, pcm_name_changed}

PcmItems ==
    {pcm, pcm_deliver, display_name, pcm_balances} \cup PcmMenus \cup PcmPrompts
       \cup PcmSets \cup ProfileSet \cup ProfileGet \cup Confirmations

\* profileSet.Exec() returns three values, so profileSet is no ItemSvcExec.
PcmKind ==
    [x \in PcmItems |->
        CASE x = pcm -> "router" [] x \in PcmMenus -> "menu" [] x \in PcmPrompts -> "prompt"
          [] x \in PcmSets -> "set" [] x \in ProfileGet \cup {pcm_deliver} -> "func"
          [] x \in ProfileSet -> "none" [] OTHER -> "final"]

PcmByCode == [r \in {pcm} |-> [c \in {code140} |-> <<pcm_main_menu>>]]
PcmByPrefix == [r \in {pcm} |-> {}]
PcmByRegex == [r \in {pcm} |-> <<[codes |-> {code140Number}, item |-> pcm_deliver]>>]

MainOptions ==
    << <<pcm_block_menu>>,
       <<setPRM, enter_bnumber_prm, pcm_deliver>>,
       <<setPCM, enter_bnumber_pcm, pcm_deliver>>,
       <<enter_name, saveName, pcm_name_changed>>,
       <<loadName, display_name>>,
       <<loadBalances, pcm_balances>>,
       <<pcm_block_advert>> >>

BlockOptions ==
    << <<setUnblocked, saveBlocked, pcm_unblocked>>, <<setBlocked, saveBlocked, pcm_blocked>> >>

AdvertOptions ==
    << <<setAdverts, saveAdverts, pcm_adverts_unblocked>>,
       <<setNoAdverts, saveAdverts, pcm_adverts_blocked>> >>

PcmOptions ==
    [m \in PcmMenus |->
        CASE m = pcm_main_menu -> MainOptions [] m = pcm_block_menu -> BlockOptions
          [] OTHER -> AdvertOptions]

PcmItemName ==
    [x \in PcmPrompts \cup PcmSets |->
        CASE x \in {setUnblocked, setBlocked} -> "pcm_blocked"
          [] x \in {setAdverts, setNoAdverts} -> "pcm_adverts"
          [] x \in {setPRM, setPCM} -> "type"
          [] x = enter_name -> "name"
          [] OTHER -> "bnumber"]

PcmItemValue ==
    [x \in PcmSets |->
        CASE x \in {setUnblocked, setNoAdverts} -> vFalse [] x \in {setBlocked, setAdverts} -> vTrue
          [] x = setPRM -> vPRM [] OTHER -> vPCM]

\* deliver is not implemented.  profileGet asks for the rows of the session's
\* "msisdn", a value that nats-ussd does not set, so it finds none, or fails.
PcmFuncEffects ==
    [x \in ProfileGet \cup {pcm_deliver} |->
        IF x = pcm_deliver THEN {Failed} ELSE {Failed, NoData}]

\* The service serves this flow.
ASSUME ShippedFlow ==
    /\ Items = PcmItems /\ InitItem = pcm /\ Kind = PcmKind
    /\ ByCode = PcmByCode /\ ByPrefix = PcmByPrefix /\ ByRegex = PcmByRegex
    /\ Options = PcmOptions /\ FuncEffects = PcmFuncEffects

\* Items of different types are different items.
ItemGroups ==
    <<{pcm}, PcmMenus, PcmPrompts, PcmSets, ProfileSet, ProfileGet, {pcm_deliver},
      {display_name, pcm_balances}, Confirmations>>

ASSUME ItemsAssumption ==
    \A j, k \in DOMAIN ItemGroups : j # k => ItemGroups[j] \cap ItemGroups[k] = {}

--------------------------------------------------------------------------------
\* A user is told that a setting was changed only after it was written to the
\* profile.  No item of the flow gets to write it (see PcmKind), so a user must
\* never be told: the error of proceed() has to come before the confirmation.
ConfirmedOnlyIfSaved ==
    \A q \in Ids : \A k \in DOMAIN replies[q] : replies[q][k].item \notin Confirmations

================================================================================
