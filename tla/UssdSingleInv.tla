----------------------------- MODULE UssdSingleInv -----------------------------
(***************************************************************************)
(* The inductive invariant behind the properties of UssdService that hold  *)
(* for one instance without faults.  It follows one subscriber m: what the *)
(* handler, the inbox, the session server and the phone say of m together. *)
(***************************************************************************)
EXTENDS UssdServiceInv, UssdRefinement

\* No router fails on a code that is dialled, and no ABORT comes without a text:
\* the two ways in which a dialogue is over and its session stays.
Tidy ==
    /\ \A c \in Codes : RouterExec(InitItem, c) # {}
    /\ Nil \notin AbortTexts

Works(i, m) == Active(i) /\ req[i].msisdn = m

\* The handler has what is to become of the session of m, and not yet the server.
Holds(i, m) == Works(i, m) /\ pc[i] # "put"

\* The places of the inbox with a request of m.
Queued(i, m) == {k \in DOMAIN inbox[i] : inbox[i][k].msisdn = m}

\* The dialogue of m waits at the prompt x, in the session server or as soon as
\* the handler has synced.
AtPrompt(i, m, x) ==
    /\ x \in ItemUsrPrompt
    /\ IF Holds(i, m)
       THEN pc[i] = "sync" /\ Head(todo[i]) = x
       ELSE store[m] # NoSession /\ store[m]["current_item_id"] = x

\* The session of m is deleted, or the handler is about to do it.
Over(i, m) == IF Holds(i, m) THEN pc[i] \in {"end", "abort"} ELSE store[m] = NoSession

\* An answer is the only request of m that is queued, or the first of them, and
\* the dialogue waits at the prompt it is for.
AnswersOK(i, m) ==
    \A k \in Queued(i, m) : inbox[i][k].type = "CONTINUE" =>
       /\ \A l \in Queued(i, m) : k <= l
       /\ AtPrompt(i, m, inbox[i][k].shown)

\* The request that the phone waits for is m's latest.
LatestOK(i, m) ==
    phone[m].state = "waiting" =>
       /\ phone[m].req <= nreq
       /\ Active(i) /\ req[i].id = phone[m].req => Works(i, m) /\ Queued(i, m) = {}
       /\ \A k \in DOMAIN inbox[i] : inbox[i][k].id = phone[m].req =>
             k \in Queued(i, m) /\ \A l \in Queued(i, m) : l <= k

PromptedOK(i, m) ==
    phone[m].state = "prompted" => Queued(i, m) = {} /\ AtPrompt(i, m, phone[m].shown)

\* What the phone is about to show is how things are.
RepliedOK(i, m) ==
    phone[m].state = "waiting" /\ replies[phone[m].req] # <<>> =>
       LET r == Head(replies[phone[m].req])
       IN  /\ Queued(i, m) = {}
           /\ r.type = "RESPONSE" => AtPrompt(i, m, r.item)
           /\ r.type # "RESPONSE" /\ Tidy => Over(i, m)

IdleOK(i, m) ==
    phone[m].state = "idle" /\ Tidy =>
       \/ Queued(i, m) = {} /\ Over(i, m)
       \/ \E k \in Queued(i, m) :
             inbox[i][k].type = "ABORT" /\ \A l \in Queued(i, m) : l <= k

SubscriberOK(i, m) ==
    /\ AnswersOK(i, m) /\ LatestOK(i, m) /\ PromptedOK(i, m)
    /\ RepliedOK(i, m) /\ IdleOK(i, m)

\* The requests that are sent without faults.
MailOK(r) ==
    /\ r.type # "unknown"
    /\ r.type = "START" => r.text \in Codes
    /\ r.type = "CONTINUE" => r.text \in Inputs
    /\ r.type = "ABORT" => r.text \in AbortTexts

\* What a handler has to do with the session server and the items.
WorkOK(i) ==
    LET d == store[req[i].msisdn]
    IN  /\ pc[i] = "new" => req[i].text \in Codes
        /\ pc[i] = "init" => Get(sess[i], "init_request") \in Codes
        /\ pc[i] \in {"init", "get", "process", "proceed", "sync", "end", "fail"} =>
              d # NoSession
        /\ pc[i] \in {"get", "process"} =>
              d["current_item_id"] = req[i].shown /\ req[i].shown \in ItemUsrPrompt
        /\ pc[i] = "process" => CurrentItem(i) = req[i].shown
        /\ pc[i] = "reply_error" /\ Tidy => d = NoSession
        /\ pc[i] \in {"new", "init"} => Registered \subseteq itemByID[i]

ItemsOK(i) == \A m \in Msisdns : store[m] # NoSession => Registered \subseteq itemByID[i]

\* The only PUT is the one whose answer the handler waits for, and what it is about
\* to store is what the server has.
PutOK(i) ==
    \A q \in Ids : puts[q] # NoSession =>
       /\ pc[i] = "put" /\ req[i].id = q
       /\ store[puts[q].msisdn] = puts[q].data /\ made[puts[q].msisdn] = puts[q].made

PutInv == \A i \in Instances : PutOK(i)

SingleInv ==
    \A i \in Instances :
       /\ WorkOK(i) /\ ItemsOK(i)
       /\ \A k \in DOMAIN inbox[i] : MailOK(inbox[i][k])
       /\ \A m \in Msisdns : SubscriberOK(i, m)

--------------------------------------------------------------------------------
(***************************************************************************)
(* What the refinement of UssdDialogue needs besides.                      *)
(***************************************************************************)

\* Requests are handled in the order in which they were sent.
OrderOK(i) ==
    /\ \A k, l \in DOMAIN inbox[i] : k < l => inbox[i][k].id < inbox[i][l].id
    /\ Active(i) => \A k \in DOMAIN inbox[i] : req[i].id < inbox[i][k].id

\* The rest of the items has no outcome that the whole does not have.
LeadsTo(items, from, code) == Abstract!Outcomes(items, code) \subseteq Abstract!Outcomes(from, code)

\* What a handler does is for its request, and its local copy has the dialled code
\* of the dialogue that the session server has until the next sync.
TaskOK(i) ==
    LET r == req[i]
        d == store[r.msisdn]
        s == sess[i]
        code == s.data["init_request"]
        x == d["current_item_id"]
    IN  /\ pc[i] \in {"new", "init"} => r.type = "START"
        /\ pc[i] \in {"get", "process"} => r.type = "CONTINUE"
        /\ pc[i] = "abort" => r.type = "ABORT"
        /\ pc[i] = "proceed" => r.type \in {"START", "CONTINUE"}
        /\ pc[i] \in {"new", "init", "get", "process", "proceed", "abort"} => r.text # Nil
        /\ pc[i] \in {"init", "process", "proceed", "sync"} => s.namesToSet["init_request"] = code
        /\ pc[i] = "init" \/ (pc[i] = "proceed" /\ r.type = "START") => code = r.text /\ x = Nil
        /\ pc[i] = "process" \/ (pc[i] = "proceed" /\ r.type = "CONTINUE") =>
              code = d["init_request"] /\ x \in ItemUsrPrompt
        /\ pc[i] = "proceed" /\ r.type = "START" => LeadsTo(todo[i], <<InitItem>>, code)
        /\ pc[i] = "proceed" /\ r.type = "CONTINUE" =>
              ~Refuses(x, r.text) /\ LeadsTo(todo[i], ProcessNext(x, r.text), code)

DialogueInv == \A i \in Instances : OrderOK(i) /\ TaskOK(i)

================================================================================
