---------------------------- MODULE RestUssdProofs ----------------------------
(***************************************************************************)
(* The safety properties of RestUssd, for any number of requests and of    *)
(* subscribers.                                                            *)
(***************************************************************************)
EXTENDS RestUssd, TLAPS

\* The goroutine has ended exactly when it has set the variable that the handler
\* reads, and it is started by the handler.
Waits ==
    \A r \in Requests :
        /\ waiter[r] = "done" <=> res[r] # None
        /\ handler[r] = "idle" => waiter[r] = "none"

\* A stored session is at the prompt of a request that was responded to in time,
\* whose engine call has returned, and whose answer is or will be that response.
Prompts ==
    \A m \in Msisdns :
        store[m] # None =>
            /\ res[store[m]] = "response"
            /\ handler[store[m]] \in {"returned", "answered"}
            /\ handler[store[m]] = "answered" => answer[store[m]] = "response"

IInv == TypeOK /\ Waits /\ Prompts

LEMMA InitIInv == Init => IInv
BY NoneAssumption DEF Init, IInv, TypeOK, Waits, Prompts

\* The request whose prompt is stored stays responded to: its handler has returned
\* from the engine and its goroutine has ended, so that it can only answer.
LEMMA StepIInv ==
    ASSUME IInv, NEW r \in Requests,
           handleUSSD(r) \/ Step(r) \/ Timeout(r)
    PROVE  IInv'
<1> USE NoneAssumption DEF IInv
<1>1. CASE handleUSSD(r)
  BY <1>1 DEF handleUSSD, Answer, Goto, TypeOK, Waits, Prompts
<1>2. CASE EngineFails(r)
  BY <1>2 DEF EngineFails, NoPrompt, Answer, Goto, TypeOK, Waits, Prompts
<1>3. CASE EngineResponds(r)
  BY <1>3 DEF EngineResponds, NoPrompt, Goto, TypeOK, Waits, Prompts
<1>4. CASE Respond(r)
  BY <1>4 DEF Respond, EngineReturns, Goto, TypeOK, Waits, Prompts
<1>5. CASE WaitAndAnswer(r)
  BY <1>5 DEF WaitAndAnswer, Answer, Goto, TypeOK, Waits, Prompts
<1>6. CASE Timeout(r)
  BY <1>6 DEF Timeout, TypeOK, Waits, Prompts
<1> QED
  BY <1>1, <1>2, <1>3, <1>4, <1>5, <1>6 DEF Step

LEMMA NextIInv == IInv /\ [Next]_vars => IInv'
<1> SUFFICES ASSUME IInv, [Next]_vars
             PROVE  IInv'
  OBVIOUS
<1>1. CASE UNCHANGED vars
  BY <1>1 DEF IInv, TypeOK, Waits, Prompts, vars
<1>2. CASE Quiet
  BY <1>1, <1>2 DEF Quiet
<1>3. CASE \E r \in Requests : handleUSSD(r) \/ Step(r) \/ Timeout(r)
  BY <1>3, StepIInv
<1> QED
  BY <1>1, <1>2, <1>3 DEF Next

LEMMA SpecIInv == Spec => []IInv
BY InitIInv, NextIInv, PTL DEF Spec

--------------------------------------------------------------------------------
\* Type correctness, and that exactly the answered requests have an answer: no
\* handler answers with a variable that its goroutine has not set.
THEOREM SpecTypeOK == Spec => []TypeOK
<1>1. IInv => TypeOK
  BY DEF IInv
<1> QED
  BY <1>1, SpecIInv, PTL

\* No session is stored at a prompt that the HTTP client did not get, whatever the
\* engine does, and however late it responds.
THEOREM SpecStoredPromptIsAnswered == Spec => []StoredPromptIsAnswered
<1>1. IInv => StoredPromptIsAnswered
  BY DEF IInv, Prompts, StoredPromptIsAnswered
<1> QED
  BY <1>1, SpecIInv, PTL

================================================================================
