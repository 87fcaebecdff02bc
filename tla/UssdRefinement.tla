----------------------------- MODULE UssdRefinement -----------------------------
(***************************************************************************)
(* One instance of nats-ussd keeps what UssdDialogue promises, as long as  *)
(* no call fails: a request is served when its handler replies or can no   *)
(* longer do anything but fail, and the session that is yet to be synced   *)
(* or deleted counts as such.                                              *)
(***************************************************************************)
EXTENDS UssdService

Server == CHOOSE i \in Instances : TRUE

\* The handler has yet to find the answer to its request.
Undecided == pc[Server] \notin {"idle", "sync", "put", "end", "fail", "reply_error"}

Unserved ==
    {inbox[Server][k] : k \in DOMAIN inbox[Server]} \cup (IF Undecided THEN {req[Server]} ELSE {})

AskedBy(m) ==
    {[id |-> r.id, type |-> r.type, text |-> r.text] : r \in {r \in Unserved : r.msisdn = m}}

\* The error that is still to be replied counts as an answer.
AnswersTo(q) ==
    [k \in DOMAIN replies[q] |-> [type |-> replies[q][k].type, item |-> replies[q][k].item]]
    \o (IF pc[Server] \in {"fail", "reply_error"} /\ req[Server].id = q
        THEN <<[type |-> "ERROR", item |-> Nil]>> ELSE <<>>)

DialogueOf(d, item) == [code |-> IF item = Nil THEN Nil ELSE d["init_request"], item |-> item]

Dialogue(m) ==
    IF pc[Server] = "sync" /\ Msisdn(Server) = m
    THEN DialogueOf(sess[Server].data, Head(todo[Server]))
    ELSE IF (pc[Server] \in {"end", "fail"} /\ Msisdn(Server) = m) \/ store[m] = NoSession
    THEN DialogueOf(NoData, Nil)
    ELSE DialogueOf(store[m], store[m]["current_item_id"])

Abstract == INSTANCE UssdDialogue WITH
    dialogue <- [m \in Msisdns |-> Dialogue(m)],
    asked <- [m \in Msisdns |-> AskedBy(m)],
    answers <- [q \in Ids |-> AnswersTo(q)]

\* Every subscriber has the dialogue that the flow describes, with each request
\* served at once and in turn, although the reply is sent before the session is
\* synced or deleted, and subscribers share the instance.
ImplementsDialogue == Abstract!Spec

================================================================================
