------------------------------- MODULE RestUssd -------------------------------
(***************************************************************************)
(* The HTTP front end (rest-ussd/main.go).  Each request has a handler, an *)
(* unbuffered channel, and a goroutine that waits for what the engine's    *)
(* responder puts into the channel or for 15 seconds to pass.  The handler *)
(* calls the engine, which calls the responder before it returns, and then *)
(* waits for that goroutine.                                               *)
(*                                                                         *)
(* rest-ussd calls the engine by names (UserStart, UserContinue) that it   *)
(* no longer has; the engine is external here, with what ussd/user.go does:*)
(* it returns an error, responds once, or returns without a response (an   *)
(* item that waits for a service), and it syncs the session only after     *)
(* Respond() has returned.  Time is left out: the timer may fire whenever  *)
(* the goroutine waits.                                                    *)
(***************************************************************************)
EXTENDS Naturals

CONSTANTS
    Requests,    \* HTTP requests, each with a handler of its own
    Msisdns,
    None         \* no response, no session

ASSUME NoneAssumption == None \notin Requests \cup {"response", "timeout", "error"}

VARIABLES
    handler,     \* where the handler of a request is
    waiter,      \* where its goroutine is
    res,         \* the variable the goroutine sets
    answer,      \* what the HTTP client got
    msisdn,      \* the subscriber of the request
    store        \* the request whose prompt a subscriber's stored session is at

vars == <<handler, waiter, res, answer, msisdn, store>>

\* Types, and that exactly the answered requests have an answer.
TypeOK ==
    /\ handler \in [Requests -> {"idle", "engine", "prompting", "ending",
                                 "returned", "answered"}]
    /\ waiter \in [Requests -> {"none", "select", "done"}]
    /\ res \in [Requests -> {None, "response", "timeout"}]
    /\ answer \in [Requests -> {None, "response", "timeout", "error"}]
    /\ msisdn \in [Requests -> Msisdns \cup {None}]
    /\ store \in [Msisdns -> Requests \cup {None}]
    /\ \A r \in Requests : handler[r] = "answered" <=> answer[r] # None

Init ==
    /\ handler = [r \in Requests |-> "idle"]
    /\ waiter = [r \in Requests |-> "none"]
    /\ res = [r \in Requests |-> None]
    /\ answer = [r \in Requests |-> None]
    /\ msisdn = [r \in Requests |-> None]
    /\ store = [m \in Msisdns |-> None]

Goto(r, label) == handler' = [handler EXCEPT ![r] = label]

Answer(r, what) == Goto(r, "answered") /\ answer' = [answer EXCEPT ![r] = what]

\* handleUSSDBegin() and handleUSSDCont(), which differ in the call only: a body
\* that is not JSON is refused; else the goroutine is started and the engine called.
handleUSSD(r) ==
    /\ handler[r] = "idle"
    /\ \E m \in Msisdns : msisdn' = [msisdn EXCEPT ![r] = m]
    /\ \/ Answer(r, "error") /\ UNCHANGED waiter
       \/ /\ Goto(r, "engine")
          /\ waiter' = [waiter EXCEPT ![r] = "select"]
          /\ UNCHANGED answer
    /\ UNCHANGED <<res, store>>

\* The stored session of r's subscriber is at no prompt, or is left as it is.
NoPrompt(r) == store' = [store EXCEPT ![msisdn[r]] = None] \/ UNCHANGED store

\* The engine returns an error; the goroutine goes on waiting.
EngineFails(r) ==
    /\ handler[r] = "engine"
    /\ NoPrompt(r)
    /\ Answer(r, "error")
    /\ UNCHANGED <<waiter, res, msisdn>>

\* The engine calls Respond() with a prompt or a final text, or returns without.
\* At the start of a dialogue it has made a new session.
EngineResponds(r) ==
    /\ handler[r] = "engine"
    /\ \E label \in {"prompting", "ending", "returned"} : Goto(r, label)
    /\ NoPrompt(r)
    /\ UNCHANGED <<waiter, res, answer, msisdn>>

\* After Respond(), the engine syncs the session at its prompt or deletes it, and
\* returns.  The session stays as it is when the prompt repeats a refused input
\* or the call fails.
EngineReturns(r, label) ==
    /\ Goto(r, "returned")
    /\ \/ label = "prompting" /\ store' = [store EXCEPT ![msisdn[r]] = r]
       \/ label = "ending" /\ store' = [store EXCEPT ![msisdn[r]] = None]
       \/ UNCHANGED store

\* Mutant: a response that nobody waits for is dropped.
RespondOrDrop(r) ==
    /\ handler[r] \in {"prompting", "ending"}
    /\ IF waiter[r] = "select"
       THEN res' = [res EXCEPT ![r] = "response"] /\ waiter' = [waiter EXCEPT ![r] = "done"]
       ELSE UNCHANGED <<res, waiter>>
    /\ EngineReturns(r, handler[r])
    /\ UNCHANGED <<answer, msisdn>>

\* responder.Respond(): the channel is unbuffered, so that the send waits for the
\* goroutine to receive.
Respond(r) ==
    /\ handler[r] \in {"prompting", "ending"}
    /\ waiter[r] = "select"
    /\ res' = [res EXCEPT ![r] = "response"]
    /\ waiter' = [waiter EXCEPT ![r] = "done"]
    /\ EngineReturns(r, handler[r])
    /\ UNCHANGED <<answer, msisdn>>

\* Mutant: the goroutine times out only while the handler is waiting for it.
TimeoutWhenReturned(r) ==
    /\ waiter[r] = "select" /\ handler[r] = "returned"
    /\ res' = [res EXCEPT ![r] = "timeout"]
    /\ waiter' = [waiter EXCEPT ![r] = "done"]
    /\ UNCHANGED <<handler, answer, msisdn, store>>

\* Mutant: the goroutine ends by its timer without saying so.
TimeoutSilent(r) ==
    /\ waiter[r] = "select"
    /\ waiter' = [waiter EXCEPT ![r] = "done"]
    /\ UNCHANGED <<handler, res, answer, msisdn, store>>

Timeout(r) ==
    /\ waiter[r] = "select"
    /\ res' = [res EXCEPT ![r] = "timeout"]
    /\ waiter' = [waiter EXCEPT ![r] = "done"]
    /\ UNCHANGED <<handler, answer, msisdn, store>>

\* Mutant: the handler does not wait for the goroutine.
AnswerAtOnce(r) ==
    /\ handler[r] = "returned"
    /\ Answer(r, res[r])
    /\ UNCHANGED <<waiter, res, msisdn, store>>

\* wg.Wait(), and the answer to the HTTP client.
WaitAndAnswer(r) ==
    /\ handler[r] = "returned" /\ waiter[r] = "done"
    /\ Answer(r, res[r])
    /\ UNCHANGED <<waiter, res, msisdn, store>>

Step(r) == EngineFails(r) \/ EngineResponds(r) \/ Respond(r) \/ WaitAndAnswer(r)

\* Every request has been answered, or stays without an answer (see
\* RequestIsAnswered).
Quiet ==
    /\ \A r \in Requests :
          /\ waiter[r] # "select"
          /\ handler[r] = "answered" \/ handler[r] \in {"prompting", "ending"}
    /\ UNCHANGED vars

Next == (\E r \in Requests : handleUSSD(r) \/ Step(r) \/ Timeout(r)) \/ Quiet

\* Handlers and goroutines run, the engine's calls return, and the timer fires.
Fairness == \A r \in Requests : WF_vars(Step(r)) /\ WF_vars(Timeout(r))

Spec == Init /\ [][Next]_vars /\ Fairness

--------------------------------------------------------------------------------
\* A subscriber's session is stored at a prompt only if the HTTP client gets that
\* prompt, and not the timeout: the engine syncs after Respond() has returned, and
\* Respond() returns only when the response is taken.
StoredPromptIsAnswered ==
    \A m \in Msisdns :
       store[m] # None =>
          /\ res[store[m]] = "response"
          /\ handler[store[m]] = "answered" => answer[store[m]] = "response"

\* The goroutine of a request ends, whatever the engine does.
WaiterEnds == \A r \in Requests : waiter[r] = "select" ~> waiter[r] = "done"

\* A request is eventually answered, unless the 15 seconds pass before the engine
\* responds: nobody receives a later response.
RequestIsAnswered ==
    \A r \in Requests :
       handler[r] = "engine" ~> handler[r] = "answered" \/ res[r] = "timeout"

================================================================================
