------------------------------ MODULE PcmFlowProofs ------------------------------
(***************************************************************************)
(* Proofs about the shipped flow: it leads to an answer, and it confirms   *)
(* only what it has written.                                               *)
(***************************************************************************)
EXTENDS PcmFlow, UssdServiceProofs

\* The only item of no interface is one that saves a setting.
LEMMA PcmKinds ==
    /\ pcm \in PcmItems /\ PcmKind[pcm] = "router"
    /\ \A x \in PcmItems : /\ PcmKind[x] = "router" => x = pcm
                           /\ PcmKind[x] = "menu" <=> x \in PcmMenus
    /\ \A x \in PcmMenus \cup PcmPrompts \cup ProfileSet \cup Confirmations
                 \cup {display_name, pcm_balances, pcm_deliver} : x \in PcmItems
    /\ \A x \in ProfileSet : PcmKind[x] = "none"
    /\ \A x \in Confirmations \cup {display_name, pcm_balances} : PcmKind[x] = "final"
    /\ PcmKind[pcm_deliver] = "func"
BY ItemsAssumption DEF ItemGroups, PcmKind, PcmItems


\* Sequences of one, two and three items.
LEMMA ShortCloses ==
    ASSUME NEW Guarded, NEW x, NEW y, NEW z, Closes(z), x \notin Guarded, y \notin Guarded
    PROVE  /\ z \notin Guarded => Closed(<<z>>, Guarded) /\ Closed(<<y, z>>, Guarded)
           /\ z \notin Guarded \/ Kind[y] = "none" => Closed(<<x, y, z>>, Guarded)
<1>1. z \notin Guarded => Closed(<<z>>, Guarded)
  BY DEF Closed
<1>2. z \notin Guarded => Closed(<<y, z>>, Guarded)
  BY DEF Closed
<1>3. ASSUME z \notin Guarded \/ Kind[y] = "none"
      PROVE  Closed(<<x, y, z>>, Guarded)
  <2> DEFINE s == <<x, y, z>>
  <2>1. s # <<>> /\ Len(s) = 3 /\ s[3] = z /\ s[1] = x /\ s[2] = y /\ DOMAIN s = 1 .. 3
    OBVIOUS
  <2> HIDE DEF s
  <2>2. ASSUME NEW k \in DOMAIN s, s[k] \in Guarded
        PROVE  \E j \in 1 .. k - 1 : Kind[s[j]] = "none"
    <3>1. k = 3 /\ Kind[s[2]] = "none"
      BY <1>3, <2>1, <2>2
    <3> QED
      BY <3>1
  <2> QED
    BY <2>1, <2>2 DEF Closed, s
<1> QED
  BY <1>1, <1>2, <1>3

\* What belongs to another group of items is no confirmation.
LEMMA PcmUnguarded ==
    \A x \in {pcm_deliver, display_name, pcm_balances} \cup PcmMenus \cup PcmPrompts
                \cup PcmSets \cup ProfileSet \cup ProfileGet : x \notin Confirmations
BY ItemsAssumption DEF ItemGroups

LEMMA PcmCloses ==
    \A x \in {pcm_deliver, display_name, pcm_balances} \cup PcmMenus \cup PcmPrompts
                \cup Confirmations : Closes(x)
<1>1. Kind = PcmKind /\ FuncEffects = PcmFuncEffects
  BY ShippedFlow
<1>2. PcmFuncEffects[pcm_deliver] = {Failed}
  BY DEF PcmFuncEffects
<1>3. \A x \in PcmMenus \cup PcmPrompts \cup Confirmations \cup {display_name, pcm_balances} :
         Kind[x] \in {"menu", "prompt", "final"}
  BY <1>1, ItemsAssumption DEF ItemGroups, PcmKind, PcmItems
<1>4. Kind[pcm_deliver] = "func"
  BY <1>1, PcmKinds
<1> QED
  BY <1>1, <1>2, <1>3, <1>4 DEF Closes

\* The router gives the main menu or the delivery.
LEMMA PcmRouter ==
    ASSUME NEW code
    PROVE  RouterExec(pcm, code) \subseteq {<<pcm_main_menu>>, <<pcm_deliver>>}
<1>1. /\ DOMAIN ByCode[pcm] = {code140} /\ ByCode[pcm][code140] = <<pcm_main_menu>>
      /\ ByPrefix[pcm] = {}
      /\ DOMAIN ByRegex[pcm] = {1} /\ ByRegex[pcm][1].item = pcm_deliver
  BY ShippedFlow DEF PcmByCode, PcmByPrefix, PcmByRegex
<1> QED
  BY <1>1 DEF RouterExec

\* Each option of a menu.
LEMMA PcmMenuCloses ==
    ASSUME NEW m \in PcmMenus, NEW k \in 1 .. Len(PcmOptions[m])
    PROVE  Closed(PcmOptions[m][k], Confirmations)
<1>1. \A x \in ProfileSet : Kind[x] = "none"
  BY PcmKinds, ShippedFlow
<1>2. /\ \A x \in {saveBlocked, saveAdverts, saveName} : x \in ProfileSet
      /\ \A x \in Confirmations : Closes(x)
  BY PcmCloses DEF ProfileSet
<1>3. \A z \in {pcm_block_menu, pcm_block_advert, pcm_deliver, display_name, pcm_balances} :
         Closes(z) /\ z \notin Confirmations
  BY PcmCloses, PcmUnguarded DEF PcmMenus
<1>4. \A x \in {setPRM, setPCM, setUnblocked, setBlocked, setAdverts, setNoAdverts, enter_name,
                enter_bnumber_prm, enter_bnumber_pcm, loadName, loadBalances,
                saveBlocked, saveAdverts, saveName} : x \notin Confirmations
  BY PcmUnguarded DEF PcmSets, PcmPrompts, ProfileGet, ProfileSet
<1>5. PcmOptions[m] \in {MainOptions, BlockOptions, AdvertOptions}
  BY DEF PcmOptions
<1>6. \A z \in {pcm_block_menu, pcm_block_advert} : Closed(<<z>>, Confirmations)
  BY <1>3, <1>4, ShortCloses
<1>7. /\ Closed(<<loadName, display_name>>, Confirmations)
      /\ Closed(<<loadBalances, pcm_balances>>, Confirmations)
  BY <1>3, <1>4, ShortCloses
<1>8. /\ Closed(<<setPRM, enter_bnumber_prm, pcm_deliver>>, Confirmations)
      /\ Closed(<<setPCM, enter_bnumber_pcm, pcm_deliver>>, Confirmations)
  BY <1>3, <1>4, ShortCloses
<1>9. \A z \in Confirmations :
          /\ Closed(<<enter_name, saveName, z>>, Confirmations)
          /\ Closed(<<setUnblocked, saveBlocked, z>>, Confirmations)
          /\ Closed(<<setBlocked, saveBlocked, z>>, Confirmations)
          /\ Closed(<<setAdverts, saveAdverts, z>>, Confirmations)
          /\ Closed(<<setNoAdverts, saveAdverts, z>>, Confirmations)
  BY <1>1, <1>2, <1>4, ShortCloses
<1>10. {pcm_unblocked, pcm_blocked, pcm_adverts_unblocked, pcm_adverts_blocked,
        pcm_name_changed} = Confirmations
  BY DEF Confirmations
<1>11. \A j \in 1 .. Len(MainOptions) : Closed(MainOptions[j], Confirmations)
  <2>1. \A j \in 1 .. Len(MainOptions) : j \in {1, 2, 3, 4, 5, 6, 7}
    BY DEF MainOptions
  <2>2. /\ MainOptions[1] = <<pcm_block_menu>> /\ MainOptions[7] = <<pcm_block_advert>>
        /\ MainOptions[2] = <<setPRM, enter_bnumber_prm, pcm_deliver>>
        /\ MainOptions[3] = <<setPCM, enter_bnumber_pcm, pcm_deliver>>
    BY DEF MainOptions
  <2>3. /\ MainOptions[4] = <<enter_name, saveName, pcm_name_changed>>
        /\ MainOptions[5] = <<loadName, display_name>>
        /\ MainOptions[6] = <<loadBalances, pcm_balances>>
    BY DEF MainOptions
  <2>4. Closed(MainOptions[4], Confirmations)
    BY <1>9, <1>10, <2>3
  <2> QED
    BY <1>6, <1>7, <1>8, <2>1, <2>2, <2>3, <2>4
<1>12. \A j \in 1 .. Len(BlockOptions) : Closed(BlockOptions[j], Confirmations)
  <2>1. /\ \A j \in 1 .. Len(BlockOptions) : j \in {1, 2}
        /\ BlockOptions[1] = <<setUnblocked, saveBlocked, pcm_unblocked>>
        /\ BlockOptions[2] = <<setBlocked, saveBlocked, pcm_blocked>>
    BY DEF BlockOptions
  <2> QED
    BY <1>9, <1>10, <2>1
<1>13. \A j \in 1 .. Len(AdvertOptions) : Closed(AdvertOptions[j], Confirmations)
  <2>1. /\ \A j \in 1 .. Len(AdvertOptions) : j \in {1, 2}
        /\ AdvertOptions[1] = <<setAdverts, saveAdverts, pcm_adverts_unblocked>>
        /\ AdvertOptions[2] = <<setNoAdverts, saveAdverts, pcm_adverts_blocked>>
    BY DEF AdvertOptions
  <2> QED
    BY <1>9, <1>10, <2>1
<1> QED
  BY <1>5, <1>11, <1>12, <1>13

\* In the shipped flow every sequence leads to an answer or an error, and a
\* confirmation comes only behind an item that saves.
THEOREM PcmFlowCloses == FlowCloses(Confirmations)
<1>1. Items = PcmItems /\ Kind = PcmKind /\ Options = PcmOptions
  BY ShippedFlow
<1>2. Confirmations \subseteq OfKind("final")
  BY <1>1, PcmKinds DEF OfKind
<1>3. \A r \in OfKind("router") : r = pcm
  BY <1>1, PcmKinds DEF OfKind
<1>4. \A x \in OfKind("menu") : x \in PcmMenus
  BY <1>1, PcmKinds DEF OfKind
<1>5. \A code : \A items \in RouterExec(pcm, code) : Closed(items, Confirmations)
  <2>1. Closes(pcm_main_menu) /\ Closes(pcm_deliver)
    BY PcmCloses DEF PcmMenus
  <2>2. pcm_main_menu \notin Confirmations /\ pcm_deliver \notin Confirmations
    BY PcmUnguarded DEF PcmMenus
  <2>3. Closed(<<pcm_main_menu>>, Confirmations) /\ Closed(<<pcm_deliver>>, Confirmations)
    BY <2>1, <2>2, ShortCloses
  <2> QED
    BY <2>3, PcmRouter
<1>6. \A x \in PcmMenus : \A k \in 1 .. Len(PcmOptions[x]) :
         Closed(PcmOptions[x][k], Confirmations)
  BY PcmMenuCloses
<1> QED
  BY <1>1, <1>2, <1>3, <1>4, <1>5, <1>6 DEF FlowCloses

\* Nobody is told that a setting was changed: the loop fails at the item that would
\* write it, in any instance and whatever is dialled, typed or fails.
THEOREM SpecConfirmedOnlyIfSaved == Spec => []ConfirmedOnlyIfSaved
<1>1. Init => FlowInv(Confirmations)
  BY InitFlowInv
<1>2. ASSUME TInv, FlowInv(Confirmations), [Next]_vars
      PROVE  FlowInv(Confirmations)'
  BY <1>2, NextFlowInv, PcmFlowCloses
<1>3. FlowInv(Confirmations) => ConfirmedOnlyIfSaved
  BY DEF FlowInv, ConfirmedOnlyIfSaved
<1> QED
  BY <1>1, <1>2, <1>3, SpecTInv, PTL DEF Spec

\* The loop of the shipped flow runs out of items only behind a prompt, which is the
\* end of its two deliveries and of its change of name.
THEOREM SpecPcmDryOnlyAfterPrompt == Spec => []DryOnlyAfterPrompt
<1>1. Init => FlowInv(Confirmations)
  BY InitFlowInv
<1>2. ASSUME TInv, FlowInv(Confirmations), [Next]_vars
      PROVE  FlowInv(Confirmations)'
  BY <1>2, NextFlowInv, PcmFlowCloses
<1>3. FlowInv(Confirmations) => DryOnlyAfterPrompt
  BY DEF FlowInv, LoopCloses, DryOnlyAfterPrompt
<1> QED
  BY <1>1, <1>2, <1>3, SpecTInv, PTL DEF Spec

================================================================================
