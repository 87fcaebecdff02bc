--------------------------------- MODULE MCPcm ---------------------------------
(***************************************************************************)
(* The "please call me" flow for TLC: the seven options of its longest     *)
(* menu, and any other text.                                               *)
(***************************************************************************)
EXTENDS PcmFlow

CONSTANTS in1, in2, in3, in4, in5, in6, in7, inText

MCNames == Reserved \cup {"pcm_blocked", "pcm_adverts", "type", "bnumber", "name"}

MCValues == PcmItems \cup Codes \cup Inputs \cup {vTrue, vFalse, vPRM, vPCM} \cup Ids

MCParseInt ==
    [t \in Inputs |->
        CASE t = in1 -> 1 [] t = in2 -> 2 [] t = in3 -> 3 [] t = in4 -> 4 [] t = in5 -> 5
          [] t = in6 -> 6 [] t = in7 -> 7 [] OTHER -> 0]

================================================================================
