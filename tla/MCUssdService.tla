---------------------------- MODULE MCUssdService ----------------------------
(***************************************************************************)
(* A small USSD service with an item of every kind, for TLC.               *)
(*                                                                         *)
(*   codes   cMenu -> S A    cSeries -> P F    cSub -> R2                  *)
(*           cPrefix -> G B or X (two prefixes match)                      *)
(*           cRegex -> W (two regular expressions match)                   *)
(*           any other code is unknown                                     *)
(*   A menu     1: D B    2: not implemented   3: F                        *)
(*   B menu     1: G F    2: R2                3: A                        *)
(*   R2 router  cSub -> B, any other code is unknown                       *)
(*   P prompts for the value x, S sets it, D deletes it, G is a function   *)
(*   that sets it or fails, W waits for a service, X has no interface.     *)
(***************************************************************************)
EXTENDS UssdRefinement, TLC

CONSTANTS
    R, R2, A, B, P, F, S, D, G, W, X,
    cMenu, cSeries, cSub, cPrefix, cRegex, cUnknown,
    in1, in2, in3, inOther, v1

MCItems == {R, R2, A, B, P, F, S, D, G, W, X}

MCKind ==
    [x \in MCItems |->
        CASE x \in {R, R2} -> "router" [] x \in {A, B} -> "menu" [] x = P -> "prompt"
          [] x = F -> "final" [] x \in {S, D} -> "set" [] x = G -> "func"
          [] x = W -> "wait" [] OTHER -> "none"]

MCNames == {"current_item_id", "init_request", "next_item_ids", "responder_key", "x"}

AllCodes == {cMenu, cSeries, cSub, cPrefix, cRegex, cUnknown}
AllInputs == {in1, in2, in3, inOther}

MCValues == MCItems \cup AllCodes \cup AllInputs \cup {v1} \cup (1 .. MaxRequests)

MCParseInt ==
    [t \in Inputs |-> CASE t = in1 -> 1 [] t = in2 -> 2 [] t = in3 -> 3 [] OTHER -> 0]

MCByCode ==
    [r \in {R, R2} |->
        [c \in Codes \cap (IF r = R THEN {cMenu, cSeries, cSub} ELSE {cSub}) |->
            CASE c = cMenu -> <<S, A>> [] c = cSeries -> <<P, F>>
              [] OTHER -> IF r = R THEN <<R2>> ELSE <<B>>]]

MCByPrefix ==
    [r \in {R, R2} |->
        IF r = R
        THEN {[codes |-> {cPrefix}, items |-> <<G, B>>], [codes |-> {cPrefix}, items |-> <<X>>]}
        ELSE {}]

MCByRegex ==
    [r \in {R, R2} |->
        IF r = R
        THEN <<[codes |-> {cRegex}, item |-> W], [codes |-> {cRegex, cMenu}, item |-> A]>>
        ELSE <<>>]

MCOptions ==
    [x \in {A, B} |->
        IF x = A THEN << <<D, B>>, <<>>, <<F>> >> ELSE << <<G, F>>, <<R2>>, <<A>> >>]

MCItemName == [x \in {P, S, D} |-> "x"]
MCItemValue == [x \in {S, D} |-> IF x = S THEN v1 ELSE Nil]
MCFuncEffects == [x \in {G} |-> {Failed, [NoData EXCEPT !["x"] = v1]}]

\* Subscribers differ in nothing but their msisdn.
MCSymmetry == Permutations(Msisdns)

==============================================================================
