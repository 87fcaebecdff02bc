------------------------------ MODULE UssdDialogue ------------------------------
(***************************************************************************)
(* What the session engine promises to a subscriber (ussd/user.go): there  *)
(* is at most one dialogue, which waits at one item of the service; the    *)
(* requests are served in order, each at one moment, and answered with     *)
(* what the flow gives for the item that the dialogue waits at.  No        *)
(* instance, session server or handler is to be seen.                      *)
(***************************************************************************)
EXTENDS UssdItems

CONSTANTS
    Msisdns,       \* subscribers
    AbortTexts,    \* the text of an ABORT, Nil for none
    MaxRequests    \* bound: requests sent in a behaviour

VARIABLES
    dialogue,   \* of each subscriber: the dialled code and the item that waits
    asked,      \* of each subscriber: the requests not yet served
    answers,    \* to each request
    nreq        \* requests sent so far

vars == <<dialogue, asked, answers, nreq>>

\* No item waits.
NoDialogue == [code |-> Nil, item |-> Nil]

Init ==
    /\ dialogue = [m \in Msisdns |-> NoDialogue]
    /\ asked = [m \in Msisdns |-> {}]
    /\ answers = [q \in 1 .. MaxRequests |-> <<>>]
    /\ nreq = 0

--------------------------------------------------------------------------------
\* How the execution of items may end: what is answered, and the item that waits.
Prompts(x) == [answer |-> <<[type |-> "RESPONSE", item |-> x]>>, waits |-> x]
Releases(x) == [answer |-> <<[type |-> "RELEASE", item |-> x]>>, waits |-> Nil]
Waits(x) == [answer |-> <<>>, waits |-> x]
Fails == [answer |-> <<[type |-> "ERROR", item |-> Nil]>>, waits |-> Nil]

\* Where the execution of the items may end: at the first of them, or without one.
EndsAt(items, code) ==
    IF items = <<>> THEN {Fails} ELSE
    LET x == Head(items)
    IN  CASE Kind[x] \in {"menu", "prompt"} -> {Prompts(x)}
          [] Kind[x] = "final" -> {Releases(x)}
          [] Kind[x] = "router" -> IF RouterExec(x, code) = {} THEN {Fails} ELSE {}
          [] Kind[x] = "set" -> {}
          [] Kind[x] = "func" -> IF Failed \in FuncEffects[x] THEN {Fails} ELSE {}
          [] Kind[x] = "wait" -> {Waits(x), Fails}
          [] Kind[x] = "none" -> {Fails}

\* The items to execute after the first of them.
NextItems(items, code) ==
    IF items = <<>> THEN {} ELSE
    LET x == Head(items)
    IN  CASE Kind[x] = "router" -> {n \o Tail(items) : n \in RouterExec(x, code)}
          [] Kind[x] = "set" -> {Tail(items)}
          [] Kind[x] = "func" -> {Tail(items) : e \in FuncEffects[x] \ {Failed}}
          [] OTHER -> {}

\* The outcomes of executing the items for a session that dialled the code.
Outcomes(items, code) ==
    LET after[q \in Seq(Items)] ==
            EndsAt(q, code) \cup UNION {after[n] : n \in NextItems(q, code)}
    IN  after[items]

--------------------------------------------------------------------------------
\* A subscriber may send anything at any time.
Ask(m) ==
    /\ nreq < MaxRequests
    /\ nreq' = nreq + 1
    /\ \E r \in [id : {nreq'}, type : {"START"}, text : Codes]
                \cup [id : {nreq'}, type : {"CONTINUE"}, text : Inputs]
                \cup [id : {nreq'}, type : {"ABORT"}, text : AbortTexts] :
          asked' = [asked EXCEPT ![m] = @ \cup {r}]
    /\ UNCHANGED <<dialogue, answers>>

Reply(r, answer) == answers' = [answers EXCEPT ![r.id] = @ \o answer]

\* The items are executed, and the request is answered if they say anything.
Proceed(m, r, items, code) ==
    \E o \in Outcomes(items, code) :
       /\ Reply(r, o.answer)
       /\ dialogue' = [dialogue EXCEPT ![m] =
             IF o.waits = Nil THEN NoDialogue ELSE [code |-> code, item |-> o.waits]]

Is(r, type) == r.type = type /\ r.text # Nil

\* The dialogue waits for the user.
Expected(m) == dialogue[m].item \in ItemUsrPrompt

\* The router that sessions start with finds the first items.
Start(m, r) == Is(r, "START") /\ Proceed(m, r, <<InitItem>>, r.text)

\* An input that the item refuses leaves the dialogue where it is.
Refuse(m, r) ==
    /\ Is(r, "CONTINUE") /\ Expected(m)
    /\ Refuses(dialogue[m].item, r.text)
    /\ Reply(r, Prompts(dialogue[m].item).answer)
    /\ UNCHANGED dialogue

\* The dialogue goes on with what the item makes of the input.
Input(m, r) ==
    /\ Is(r, "CONTINUE") /\ Expected(m)
    /\ ~Refuses(dialogue[m].item, r.text)
    /\ Proceed(m, r, ProcessNext(dialogue[m].item, r.text), dialogue[m].code)

\* A request without text, and an input that nothing waits for.
Reject(m, r) ==
    /\ r.text = Nil \/ (Is(r, "CONTINUE") /\ ~Expected(m))
    /\ Reply(r, Fails.answer)
    /\ UNCHANGED dialogue

Abort(m, r) ==
    /\ Is(r, "ABORT")
    /\ dialogue' = [dialogue EXCEPT ![m] = NoDialogue]
    /\ UNCHANGED answers

Oldest(m, r) == r \in asked[m] /\ \A s \in asked[m] : r.id <= s.id

\* A START ends the dialogue that there is, before its own answer is known.
Leave(m, r) ==
    /\ Oldest(m, r) /\ Is(r, "START")
    /\ dialogue' = [dialogue EXCEPT ![m] = NoDialogue]
    /\ UNCHANGED <<asked, answers, nreq>>

\* The subscriber's oldest request is served, in one of these ways.
Serve(m, r) ==
    /\ Oldest(m, r)
    /\ asked' = [asked EXCEPT ![m] = @ \ {r}]
    /\ Start(m, r) \/ Refuse(m, r) \/ Input(m, r) \/ Reject(m, r) \/ Abort(m, r)
    /\ UNCHANGED nreq

Next == \E m \in Msisdns : Ask(m) \/ \E r \in asked[m] : Leave(m, r) \/ Serve(m, r)

Spec == Init /\ [][Next]_vars

================================================================================
