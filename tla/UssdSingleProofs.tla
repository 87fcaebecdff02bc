--------------------------- MODULE UssdSingleProofs ----------------------------
(***************************************************************************)
(* Proofs that an instance that is alone, without faults, keeps a user's   *)
(* screen, what the user types and the session server together, for any    *)
(* flow of items and any number of subscribers and requests; and that it   *)
(* implements UssdDialogue: an answer is what the user's input asks for.   *)
(***************************************************************************)
EXTENDS UssdSingleInv, UssdServiceProofs

\* There is one instance, and nothing fails.
Alone(the) == Instances = {the} /\ MaxFaults = 0

LEMMA NoFaults ==
    ASSUME NEW i, Alone(i), TInv, NEW kind
    PROVE  ~Fault(kind)
BY DEF TInv, RestOK, FaultsOK, Fault, Alone

\* All but what the server holds of the PUTs that are under way.
seen == <<store, made, inbox, handler, itemByID, replies, user, faults>>

\* A PUT that ends stores what the server has.
LEMMA UpdStoresUnseen ==
    ASSUME NEW the, Alone(the), TInv, PutInv, NEW q \in Ids, UpdStores(q)
    PROVE  UNCHANGED seen
<1>1. /\ store[puts[q].msisdn] = puts[q].data /\ made[puts[q].msisdn] = puts[q].made
  BY DEF PutInv, PutOK, UpdStores, Alone
<1> QED
  BY <1>1 DEF UpdStores, seen, TInv, StoreOK

\* The steps there are without faults.
LEMMA AloneSteps ==
    ASSUME NEW the, Alone(the), TInv, PutInv, [Next]_vars
    PROVE  \/ HandlerStep(the)
           \/ \E m \in Msisdns : Dial(m) \/ Answer(m) \/ HangUp(m) \/ Display(m)
           \/ UNCHANGED seen
<1>1. \A kind : ~Fault(kind)
  BY NoFaults
<1>2. UNCHANGED vars => UNCHANGED seen
  BY DEF vars, updates, seen
<1> QED
  BY <1>1, <1>2, UpdStoresUnseen
     DEF Next, Crash, ItemPanics, AnswerUnknown, ServerRestart, Quiet, Alone

\* A step of the handler leaves the PUTs alone, but for the lookup of its own; and
\* it waits for the answer of that one before it goes on.
LEMMA HandlerPut ==
    ASSUME NEW i, Alone(i), TInv, PutInv, HandlerStep(i)
    PROVE  PutInv'
<1>1. HandlersOK /\ StoreOK /\ i \in Instances /\ PutOK(i) /\ \A kind : ~Fault(kind)
  BY NoFaults DEF TInv, PutInv, Alone
<1>2. \A q \in Ids : puts[q] # NoSession => pc[i] = "put" /\ req[i].id = q
  BY <1>1 DEF PutOK
<1>3. CASE pc[i] = "put"
  <2>1. SyncReturns(i)
    BY <1>3 DEF HandlerStep, HandleRequest, ReplyError, StartNew, StartInit, InputGet,
       InputNotExpected, InputRefused, InputAccepted, ProceedUser, ProceedRouter, ProceedSet,
       ProceedFunc, ProceedWait, ProceedLost, At, SyncSession, EndSession, FailSession, UserAbort
  <2>2. \A q \in Ids : puts[q] = NoSession
    BY <1>1, <1>2, <2>1 DEF SyncReturns
  <2> QED
    BY <2>1, <2>2 DEF SyncReturns, updates, PutInv, PutOK
<1>4. CASE pc[i] # "put" /\ SyncSession(i)
  <2>1. \A q \in Ids : puts[q] = NoSession
    BY <1>2, <1>4
  <2>2. CASE UNCHANGED puts
    BY <2>1, <2>2 DEF PutInv, PutOK
  <2>3. CASE /\ UpdFinds(i, Set(sess[i], "current_item_id", Head(todo[i])))
             /\ Goto(i, "put") /\ UNCHANGED req
    <3>1. PICK e \in Data : Found(i, e)
      BY <1>1, <1>4, <2>3, UpdFindsFacts DEF SyncSession
    <3>2. Msisdn(i) \in Msisdns /\ req[i].id \in Ids /\ pc'[i] = "put" /\ made' = made
      BY <1>1, <1>4, <2>3, ActiveRequest DEF SyncSession, Goto, HandlersOK
    <3>3. /\ store'[Msisdn(i)] = e
          /\ puts'[req[i].id] = [msisdn |-> Msisdn(i), made |-> made[Msisdn(i)], data |-> e]
          /\ \A q \in Ids \ {req[i].id} : puts'[q] = NoSession
      BY <1>1, <2>1, <3>1, <3>2 DEF Found, StoreOK
    <3>4. PutOK(i)'
      BY <2>3, <3>2, <3>3 DEF PutOK
    <3> QED
      BY <3>4 DEF PutInv, Alone
  <2> QED
    BY <1>4, <2>2, <2>3 DEF SyncSession
<1>5. CASE pc[i] # "put" /\ ~SyncSession(i)
  <2>1. \A q \in Ids : puts[q] = NoSession
    BY <1>2, <1>5
  <2>2. UNCHANGED puts
    BY <1>1, <1>5 DEF HandlerStep, HandleRequest, ReplyError, StartNew, StartInit, InputGet,
       InputNotExpected, InputRefused, InputAccepted, ProceedUser, ProceedRouter, ProceedSet,
       ProceedFunc, ProceedWait, ProceedLost, SyncReturns, EndSession, FailSession, UserAbort,
       updates
  <2> QED
    BY <2>1, <2>2 DEF PutInv, PutOK
<1> QED
  BY <1>3, <1>4, <1>5

\* The server has no PUT to store but the one that the handler waits for, which
\* changes nothing any more.
THEOREM SpecPutInv ==
    ASSUME NEW the, Alone(the)
    PROVE  Spec => []PutInv
<1>1. Init => PutInv
  BY DEF Init, PutInv, PutOK
<1>2. ASSUME TInv, PutInv, [Next]_vars
      PROVE  PutInv'
  <2>1. CASE HandlerStep(the)
    BY <1>2, <2>1, HandlerPut
  <2>2. ASSUME NEW m \in Msisdns, Dial(m) \/ Answer(m) \/ HangUp(m) \/ Display(m)
        PROVE  UNCHANGED <<store, updates, pc, req>>
    BY <1>2, <2>2, PhonesKeepHandlers
  <2>3. CASE UNCHANGED vars
    BY <1>2, <2>3 DEF vars, updates, handler, PutInv, PutOK
  <2>4. ASSUME NEW q \in Ids, UpdStores(q)
        PROVE  PutInv'
    <3>1. UNCHANGED seen /\ \A p \in Ids : puts'[p] = puts[p] \/ puts'[p] = NoSession
      BY <1>2, <2>4, UpdStoresUnseen DEF UpdStores, TInv, StoreOK
    <3> QED
      BY <1>2, <3>1 DEF seen, handler, PutInv, PutOK
  <2>5. \A kind : ~Fault(kind)
    BY <1>2, NoFaults DEF Alone
  <2>6. CASE UNCHANGED <<store, updates, pc, req>>
    BY <1>2, <2>6 DEF updates, PutInv, PutOK
  <2> QED
    BY <1>2, <2>1, <2>2, <2>3, <2>4, <2>5, <2>6
       DEF Next, Crash, ItemPanics, AnswerUnknown, ServerRestart, Quiet, Alone
<1> QED
  BY <1>1, <1>2, SpecTInv, PTL DEF Spec

\* One instance waits for a sync before it does anything else, so no sync that comes
\* late brings back a session that was deleted: the server has a session it did not
\* have only by the POST of a START request of that subscriber.
THEOREM SpecOnlyStartCreates ==
    ASSUME NEW the, Alone(the)
    PROVE  Spec => OnlyStartCreates
<1> DEFINE Allowed == \A m \in Msisdns :
              store[m] = NoSession /\ store'[m] # NoSession =>
                 \E i \in Instances : pc[i] = "new" /\ req[i].msisdn = m
<1>1. ASSUME TInv, PutInv, [Next]_vars
      PROVE  [Allowed]_vars
  <2>1. CASE HandlerStep(the)
    <3>1. the \in Instances /\ StoreOK
      BY <1>1 DEF Alone, TInv
    <3>2. CASE UNCHANGED store
      BY <3>2
    <3>3. CASE pc[the] = "new" /\ handleNewSession(the, UssdData(req[the]))
      BY <3>1, <3>3 DEF handleNewSession, Store, Msisdn, StoreOK
    <3>4. CASE handleDelSession(the)
      BY <3>1, <3>4 DEF handleDelSession, Store, StoreOK
    <3>5. CASE UpdFinds(the, Set(sess[the], "current_item_id", Head(todo[the])))
      BY <3>1, <3>5 DEF UpdFinds, Store, StoreOK
    <3> QED
      BY <1>1, <2>1, <3>1, <3>2, <3>3, <3>4, <3>5, StoreSteps
  <2>2. ASSUME NEW m \in Msisdns, Dial(m) \/ Answer(m) \/ HangUp(m) \/ Display(m)
        PROVE  UNCHANGED store
    BY <1>1, <2>2, PhonesKeepHandlers
  <2>3. CASE UNCHANGED seen
    BY <2>3 DEF seen
  <2> QED
    BY <1>1, <2>1, <2>2, <2>3, AloneSteps
<1> QED
  BY <1>1, SpecTInv, SpecPutInv, PTL DEF Spec, OnlyStartCreates

\* The places of a subscriber's requests are places of the inbox.
LEMMA QueuedFacts ==
    ASSUME TInv, NEW i \in Instances, NEW m, NEW k \in Queued(i, m)
    PROVE  /\ k \in Nat \ {0} /\ k \in DOMAIN inbox[i]
           /\ inbox[i][k] \in Request /\ inbox[i][k].msisdn = m
<1>1. inbox[i] \in Seq(Request) /\ k \in DOMAIN inbox[i] /\ inbox[i][k].msisdn = m
  BY DEF TInv, RestOK, Queued
<1>2. k \in 1 .. Len(inbox[i]) /\ Len(inbox[i]) \in Nat
  BY <1>1
<1>3. inbox[i][k] \in Request
  BY <1>1
<1> QED
  BY <1>1, <1>2, <1>3

--------------------------------------------------------------------------------
(***************************************************************************)
(* The steps of the handler but its first, as a subscriber sees them.      *)
(***************************************************************************)

\* A handler works on its request, for a subscriber m or for another one.
OwnStep(i) ==
    /\ Active(i) /\ UNCHANGED <<inbox, phone, nreq>>
    /\ pc'[i] # "idle" => req'[i] = req[i]
    /\ \A n \in Msisdns \ {Msisdn(i)} : store'[n] = store[n]

\* Before it is about to store or delete a session, the handler's subscriber is
\* at no prompt and the dialogue is not over.  With that step they are.
LEMMA OwnView ==
    ASSUME NEW i \in Instances, OwnStep(i), NEW m, m = Msisdn(i), NEW x,
           pc[i] = "sync" =>
              /\ pc'[i] = "put" /\ store'[m] # NoSession
              /\ store'[m]["current_item_id"] = Head(todo[i]),
           pc[i] = "put" => pc'[i] = "idle" /\ store'[m] = store[m],
           pc[i] \in {"end", "abort"} => pc'[i] = "idle" /\ store'[m] = NoSession
    PROVE  /\ AtPrompt(i, m, x) => AtPrompt(i, m, x)'
           /\ Over(i, m) => Over(i, m)'
<1>1. Works(i, m)
  BY DEF OwnStep, Works, Msisdn
<1>2. pc'[i] = "idle" => ~Works(i, m)'
  BY DEF Works, Active
<1> QED
  BY <1>1, <1>2 DEF AtPrompt, Over, Holds

LEMMA OthersView ==
    ASSUME NEW i \in Instances, OwnStep(i), NEW m \in Msisdns \ {Msisdn(i)}, NEW x
    PROVE  /\ AtPrompt(i, m, x) <=> AtPrompt(i, m, x)'
           /\ Over(i, m) <=> Over(i, m)'
<1>1. ~Works(i, m)
  BY DEF Works, Msisdn
<1>2. ~Works(i, m)'
  BY DEF Works, Msisdn, OwnStep, Active
<1>3. store'[m] = store[m]
  BY DEF OwnStep
<1> QED
  BY <1>1, <1>2, <1>3 DEF AtPrompt, Over, Holds

\* What a step of the handler keeps of a subscriber, if it keeps where the
\* dialogue is and what the phone waits for.
LEMMA KeepsSubscriber ==
    ASSUME NEW i \in Instances, OwnStep(i), NEW m \in Msisdns, SubscriberOK(i, m),
           \A x : AtPrompt(i, m, x) => AtPrompt(i, m, x)',
           Over(i, m) => Over(i, m)',
           phone[m].state = "waiting" => replies'[phone[m].req] = replies[phone[m].req]
    PROVE  SubscriberOK(i, m)'
<1>1. Queued(i, m)' = Queued(i, m) /\ inbox' = inbox /\ phone' = phone /\ nreq' = nreq
  BY DEF Queued, OwnStep
<1>2. AnswersOK(i, m)'
  BY <1>1 DEF SubscriberOK, AnswersOK
<1>3. LatestOK(i, m)'
  BY <1>1 DEF SubscriberOK, LatestOK, OwnStep, Active, Works
<1>4. PromptedOK(i, m)'
  BY <1>1 DEF SubscriberOK, PromptedOK
<1>5. RepliedOK(i, m)'
  BY <1>1 DEF SubscriberOK, RepliedOK
<1>6. IdleOK(i, m)'
  BY <1>1 DEF SubscriberOK, IdleOK
<1> QED
  BY <1>2, <1>3, <1>4, <1>5, <1>6 DEF SubscriberOK

\* The request that the phone of another subscriber waits for is not the handler's.
LEMMA OthersReplies ==
    ASSUME TInv, NEW i \in Instances, OwnStep(i), NEW m \in Msisdns, m # Msisdn(i),
           SubscriberOK(i, m), phone[m].state = "waiting"
    PROVE  phone[m].req \in Ids /\ phone[m].req # req[i].id
BY DEF TInv, RestOK, PhonesOK, SubscriberOK, LatestOK, Works, Msisdn, OwnStep

\* A step that answers nothing.
LEMMA SilentSubscriber ==
    ASSUME TInv, NEW i \in Instances, OwnStep(i), UNCHANGED replies,
           pc[i] = "sync" =>
              /\ pc'[i] = "put" /\ store'[Msisdn(i)] # NoSession
              /\ store'[Msisdn(i)]["current_item_id"] = Head(todo[i]),
           pc[i] = "put" => pc'[i] = "idle" /\ store'[Msisdn(i)] = store[Msisdn(i)],
           pc[i] \in {"end", "abort"} => pc'[i] = "idle" /\ store'[Msisdn(i)] = NoSession,
           NEW m \in Msisdns, SubscriberOK(i, m)
    PROVE  SubscriberOK(i, m)'
<1>1. CASE m = Msisdn(i)
  BY <1>1, OwnView, KeepsSubscriber
<1>2. CASE m # Msisdn(i)
  BY <1>2, OthersView, KeepsSubscriber
<1> QED
  BY <1>1, <1>2

\* A step that answers the handler's request, with the prompt that the dialogue
\* is at from then on, or with another text when it is over.
LEMMA AnswerSubscriber ==
    ASSUME TInv, RInv, NEW i \in Instances, OwnStep(i), NEW type, NEW item,
           Answers(i, type, item),
           NEW m \in Msisdns, SubscriberOK(i, m),
           m = Msisdn(i) /\ type = "RESPONSE" => AtPrompt(i, m, item)',
           m = Msisdn(i) /\ type # "RESPONSE" /\ Tidy => Over(i, m)'
    PROVE  SubscriberOK(i, m)'
<1>1. pc[i] \in {"reply_error", "process", "proceed"}
  BY DEF Answers
<1>2. /\ replies'[req[i].id] = Append(replies[req[i].id],
                 [type |-> type, item |-> item, msisdn |-> Msisdn(i)])
      /\ \A q \in Ids \ {req[i].id} : replies'[q] = replies[q]
  BY RespondFacts
<1>3. CASE m # Msisdn(i)
  <2>1. phone[m].state = "waiting" => replies'[phone[m].req] = replies[phone[m].req]
    BY <1>2, <1>3, OthersReplies
  <2> QED
    BY <1>3, <2>1, OthersView, KeepsSubscriber
<1>4. CASE m = Msisdn(i)
  <2>1. \A x : ~AtPrompt(i, m, x)
    BY <1>1, <1>4 DEF AtPrompt, Holds, Works, Active, Msisdn
  <2>2. ~Over(i, m)
    BY <1>1, <1>4 DEF Over, Holds, Works, Active, Msisdn
  <2>3. Queued(i, m)' = Queued(i, m) /\ inbox' = inbox /\ phone' = phone /\ nreq' = nreq
    BY DEF Queued, OwnStep
  <2>4. AnswersOK(i, m)'
    BY <2>1, <2>3 DEF SubscriberOK, AnswersOK
  <2>5. LatestOK(i, m)'
    BY <2>3 DEF SubscriberOK, LatestOK, OwnStep, Active, Works
  <2>6. PromptedOK(i, m)'
    BY <2>1, <2>3 DEF SubscriberOK, PromptedOK
  <2>7. IdleOK(i, m)'
    BY <2>2, <2>3 DEF SubscriberOK, IdleOK
  <2>8. RepliedOK(i, m)'
    <3> SUFFICES ASSUME phone[m].state = "waiting", replies'[phone[m].req] # <<>>,
                        NEW r, r = Head(replies'[phone[m].req])
                 PROVE  /\ Queued(i, m) = {}
                        /\ r.type = "RESPONSE" => AtPrompt(i, m, r.item)'
                        /\ r.type # "RESPONSE" /\ Tidy => Over(i, m)'
      BY <2>3 DEF RepliedOK
    <3>1. phone[m].req \in Ids
      BY DEF TInv, RestOK, PhonesOK
    <3>2. CASE phone[m].req = req[i].id
      <4>1. Queued(i, m) = {}
        BY <3>2 DEF SubscriberOK, LatestOK, OwnStep
      <4>2. replies[req[i].id] = <<>>
        BY <1>1 DEF RInv, Unanswered
      <4>3. r.type = type /\ r.item = item
        BY <1>2, <3>2, <4>2
      <4> QED
        BY <1>4, <4>1, <4>3
    <3>3. CASE phone[m].req # req[i].id
      <4>1. replies'[phone[m].req] = replies[phone[m].req]
        BY <1>2, <3>1, <3>3
      <4> QED
        BY <2>1, <2>2, <4>1 DEF SubscriberOK, RepliedOK
    <3> QED
      BY <3>2, <3>3
  <2> QED
    BY <2>4, <2>5, <2>6, <2>7, <2>8 DEF SubscriberOK
<1> QED
  BY <1>3, <1>4

--------------------------------------------------------------------------------
(***************************************************************************)
(* handleRequest(), as a subscriber sees it.                               *)
(***************************************************************************)

\* The head of the inbox goes, and the rest moves up.
LEMMA TailFacts ==
    ASSUME NEW S, NEW s \in Seq(S), s # <<>>, NEW t, t = Tail(s)
    PROVE  /\ \A k \in DOMAIN t : k \in Nat \ {0} /\ k + 1 \in DOMAIN s /\ t[k] = s[k + 1]
           /\ \A k \in DOMAIN s : k \in Nat /\ (k > 1 => k - 1 \in DOMAIN t)
           /\ 1 \in DOMAIN s /\ s[1] = Head(s)
OBVIOUS

\* A request goes from the head of the inbox into the handler.
LEMMA TakenFacts ==
    ASSUME TInv, NEW i \in Instances, HandleRequest(i), NEW r, r = Head(inbox[i])
    PROVE  /\ r \in Request /\ pc[i] = "idle"
           /\ req'[i] = r /\ pc'[i] = Dispatch(r)
           /\ pc'[i] \in {"new", "get", "abort", "reply_error"}
           /\ inbox'[i] = Tail(inbox[i])
           /\ 1 \in Queued(i, r.msisdn) /\ inbox[i][1] = r
           /\ \A m : \A k \in Queued(i, m)' : k \in Nat \ {0} /\ k + 1 \in Queued(i, m)
           /\ \A m : \A k \in Queued(i, m) :
                 k \in Nat /\ (k > 1 => k - 1 \in Queued(i, m)') /\ (k = 1 => m = r.msisdn)
           /\ \A k \in DOMAIN inbox'[i] :
                 k \in Nat \ {0} /\ k + 1 \in DOMAIN inbox[i] /\ inbox'[i][k] = inbox[i][k + 1]
           /\ UNCHANGED <<store, phone, replies, nreq>>
<1>1. inbox \in [Instances -> Seq(Request)] /\ inbox[i] \in Seq(Request) /\ inbox[i] # <<>>
  BY DEF TInv, RestOK, HandleRequest
<1>2. r \in Request
  BY <1>1, HeadTailType
<1>3. /\ pc[i] = "idle" /\ req'[i] = r /\ pc'[i] = Dispatch(r)
      /\ inbox'[i] = Tail(inbox[i])
      /\ UNCHANGED <<store, phone, replies, nreq>>
  BY <1>1 DEF HandleRequest, TInv, HandlersOK, Goto, user
<1>4. Dispatch(r) \in {"new", "get", "abort", "reply_error"}
  BY DEF Dispatch
<1>5. /\ \A k \in DOMAIN inbox'[i] :
            k \in Nat \ {0} /\ k + 1 \in DOMAIN inbox[i] /\ inbox'[i][k] = inbox[i][k + 1]
      /\ \A k \in DOMAIN inbox[i] : k \in Nat /\ (k > 1 => k - 1 \in DOMAIN inbox'[i])
      /\ 1 \in DOMAIN inbox[i] /\ inbox[i][1] = r
  BY <1>1, <1>3, TailFacts
<1>6. \A m : \A k \in Queued(i, m)' : k \in Nat \ {0} /\ k + 1 \in Queued(i, m)
  BY <1>5 DEF Queued
<1>7. \A m : \A k \in Queued(i, m) :
         k \in Nat /\ (k > 1 => k - 1 \in Queued(i, m)') /\ (k = 1 => m = r.msisdn)
  <2> SUFFICES ASSUME NEW m, NEW k \in Queued(i, m)
               PROVE  k \in Nat /\ (k > 1 => k - 1 \in Queued(i, m)') /\ (k = 1 => m = r.msisdn)
    OBVIOUS
  <2>1. k \in DOMAIN inbox[i] /\ inbox[i][k].msisdn = m
    BY DEF Queued
  <2>2. ASSUME k > 1
        PROVE  k - 1 \in Queued(i, m)'
    <3>1. k \in Nat /\ k - 1 \in DOMAIN inbox'[i] /\ (k - 1) + 1 = k
      BY <1>5, <2>1, <2>2
    <3> QED
      BY <1>5, <2>1, <3>1 DEF Queued
  <2> QED
    BY <1>5, <2>1, <2>2
<1>8. 1 \in Queued(i, r.msisdn)
  BY <1>5 DEF Queued
<1> QED
  BY <1>2, <1>3, <1>4, <1>5, <1>6, <1>7, <1>8

LEMMA TakenSubscriber ==
    ASSUME TInv, RInv, NEW i \in Instances, HandleRequest(i),
           \A k \in DOMAIN inbox[i] : MailOK(inbox[i][k]),
           NEW m \in Msisdns, SubscriberOK(i, m)
    PROVE  SubscriberOK(i, m)'
<1>1. PICK r : r = Head(inbox[i])
  OBVIOUS
<1>2. /\ r \in Request /\ pc[i] = "idle"
      /\ req'[i] = r /\ pc'[i] = Dispatch(r) /\ pc'[i] \in {"new", "get", "abort", "reply_error"}
      /\ 1 \in Queued(i, r.msisdn) /\ inbox[i][1] = r
      /\ \A k \in Queued(i, m)' : k \in Nat \ {0} /\ k + 1 \in Queued(i, m)
      /\ \A k \in Queued(i, m) :
            k \in Nat /\ (k > 1 => k - 1 \in Queued(i, m)') /\ (k = 1 => m = r.msisdn)
      /\ \A k \in DOMAIN inbox'[i] :
            k \in Nat \ {0} /\ k + 1 \in DOMAIN inbox[i] /\ inbox'[i][k] = inbox[i][k + 1]
      /\ UNCHANGED <<store, phone, replies, nreq>>
  BY <1>1, TakenFacts
<1>3. \A k \in Queued(i, m)' : k \in DOMAIN inbox'[i]
  BY DEF Queued
<1>4. ~Works(i, m)
  BY <1>2 DEF Works, Active
<1>5. Works(i, m)' <=> m = r.msisdn
  BY <1>2 DEF Works, Active
<1>6. m # r.msisdn => \A x : AtPrompt(i, m, x) <=> AtPrompt(i, m, x)'
  BY <1>2, <1>4, <1>5 DEF AtPrompt, Holds
<1>7. m # r.msisdn => (Over(i, m) <=> Over(i, m)')
  BY <1>2, <1>4, <1>5 DEF Over, Holds
<1>8. AnswersOK(i, m)'
  <2> SUFFICES ASSUME NEW k \in Queued(i, m)', inbox'[i][k].type = "CONTINUE"
               PROVE  /\ \A l \in Queued(i, m)' : k <= l
                      /\ \A x : x = inbox'[i][k].shown => AtPrompt(i, m, x)'
    BY DEF AnswersOK
  <2>1. k + 1 \in Queued(i, m) /\ inbox[i][k + 1] = inbox'[i][k]
    BY <1>2, <1>3
  <2>2. /\ \A l \in Queued(i, m) : k + 1 <= l
        /\ \A x : x = inbox'[i][k].shown => AtPrompt(i, m, x)
    BY <2>1 DEF SubscriberOK, AnswersOK
  <2>3. m # r.msisdn
    BY <1>2, <2>2
  <2>4. \A l \in Queued(i, m)' : k <= l
    BY <1>2, <2>2
  <2> QED
    BY <1>6, <2>2, <2>3, <2>4
<1>9. LatestOK(i, m)'
  <2> SUFFICES ASSUME phone[m].state = "waiting"
               PROVE  /\ phone[m].req <= nreq
                      /\ Active(i)' /\ req'[i].id = phone[m].req =>
                            Works(i, m)' /\ Queued(i, m)' = {}
                      /\ \A k \in DOMAIN inbox'[i] : inbox'[i][k].id = phone[m].req =>
                            k \in Queued(i, m)' /\ \A l \in Queued(i, m)' : l <= k
    BY <1>2 DEF LatestOK
  <2>1. /\ phone[m].req <= nreq
        /\ \A k \in DOMAIN inbox[i] : inbox[i][k].id = phone[m].req =>
              k \in Queued(i, m) /\ \A l \in Queued(i, m) : l <= k
    BY DEF SubscriberOK, LatestOK
  <2>2. ASSUME req'[i].id = phone[m].req
        PROVE  Works(i, m)' /\ Queued(i, m)' = {}
    <3>1. 1 \in DOMAIN inbox[i] /\ inbox[i][1].id = phone[m].req
      BY <1>2, <2>2 DEF Queued
    <3>2. 1 \in Queued(i, m) /\ \A l \in Queued(i, m) : l <= 1
      BY <2>1, <3>1
    <3> QED
      BY <1>2, <1>5, <3>2
  <2>3. ASSUME NEW k \in DOMAIN inbox'[i], inbox'[i][k].id = phone[m].req
        PROVE  k \in Queued(i, m)' /\ \A l \in Queued(i, m)' : l <= k
    <3>1. k \in Nat \ {0} /\ k + 1 \in DOMAIN inbox[i] /\ inbox[i][k + 1].id = phone[m].req
      BY <1>2, <2>3
    <3>2. k + 1 \in Queued(i, m) /\ \A l \in Queued(i, m) : l <= k + 1
      BY <2>1, <3>1
    <3>3. (k + 1) - 1 \in Queued(i, m)' /\ (k + 1) - 1 = k
      BY <1>2, <3>1, <3>2
    <3> QED
      BY <1>2, <3>1, <3>2, <3>3
  <2> QED
    BY <2>1, <2>2, <2>3
<1>10. Queued(i, m) = {} => Queued(i, m)' = {} /\ m # r.msisdn
  BY <1>2
<1>11. PromptedOK(i, m)'
  BY <1>2, <1>6, <1>10 DEF SubscriberOK, PromptedOK
<1>12. RepliedOK(i, m)'
  BY <1>2, <1>6, <1>7, <1>10 DEF SubscriberOK, RepliedOK
<1>13. IdleOK(i, m)'
  <2> SUFFICES ASSUME phone[m].state = "idle", Tidy
               PROVE  \/ Queued(i, m)' = {} /\ Over(i, m)'
                      \/ \E k \in Queued(i, m)' :
                            inbox'[i][k].type = "ABORT" /\ \A l \in Queued(i, m)' : l <= k
    BY <1>2 DEF IdleOK
  <2>1. CASE Queued(i, m) = {} /\ Over(i, m)
    BY <1>7, <1>10, <2>1
  <2>2. ASSUME NEW k \in Queued(i, m), inbox[i][k].type = "ABORT",
               \A l \in Queued(i, m) : l <= k
        PROVE  \/ Queued(i, m)' = {} /\ Over(i, m)'
               \/ \E n \in Queued(i, m)' :
                     inbox'[i][n].type = "ABORT" /\ \A l \in Queued(i, m)' : l <= n
    <3>1. CASE k = 1
      <4>1. m = r.msisdn /\ r.type = "ABORT" /\ MailOK(r)
        BY <1>2, <2>2, <3>1 DEF Queued
      <4>2. pc'[i] = "abort"
        BY <1>2, <4>1 DEF MailOK, Tidy, Dispatch
      <4>3. Queued(i, m)' = {}
        BY <1>2, <2>2, <3>1
      <4> QED
        BY <1>5, <4>1, <4>2, <4>3 DEF Over, Holds
    <3>2. CASE k # 1
      <4>1. k \in Nat /\ k > 1
        BY <1>2, <3>2, QueuedFacts
      <4>2. k - 1 \in Queued(i, m)' /\ k - 1 \in DOMAIN inbox'[i] /\ (k - 1) + 1 = k
        BY <1>2, <1>3, <4>1
      <4>3. inbox'[i][k - 1].type = "ABORT"
        BY <1>2, <2>2, <4>2
      <4>4. \A l \in Queued(i, m)' : l <= k - 1
        BY <1>2, <2>2, <4>1
      <4> QED
        BY <4>2, <4>3, <4>4
    <3> QED
      BY <3>1, <3>2
  <2> QED
    BY <2>1, <2>2 DEF SubscriberOK, IdleOK
<1> QED
  BY <1>8, <1>9, <1>11, <1>12, <1>13 DEF SubscriberOK

--------------------------------------------------------------------------------
(***************************************************************************)
(* The phones.                                                             *)
(***************************************************************************)

\* The handler and the server are as they are, so every dialogue is.
LEMMA SameView ==
    ASSUME UNCHANGED <<store, pc, req, todo>>, NEW i, NEW m
    PROVE  /\ Works(i, m)' = Works(i, m)
           /\ \A x : AtPrompt(i, m, x)' <=> AtPrompt(i, m, x)
           /\ Over(i, m)' <=> Over(i, m)
<1>1. Works(i, m)' = Works(i, m)
  BY DEF Works, Active
<1> QED
  BY <1>1 DEF AtPrompt, Over, Holds

\* The phone of m sends the request r to instance i, and waits or is idle.
Sends(i, m, r) ==
    /\ r \in Request /\ r.id = nreq + 1 /\ r.msisdn = m /\ r.shown = phone[m].shown
    /\ MailOK(r) /\ nreq < MaxRequests
    /\ inbox' = [inbox EXCEPT ![i] = Append(@, r)]
    /\ nreq' = nreq + 1
    /\ \/ Await(m) /\ r.type = "START"
       \/ Await(m) /\ r.type = "CONTINUE" /\ phone[m].state = "prompted"
       \/ phone' = [phone EXCEPT ![m] = NoPhone] /\ r.type = "ABORT"
    /\ UNCHANGED <<store, pc, req, sess, todo, itemByID, replies>>

LEMMA SendsSteps ==
    ASSUME NEW i, Alone(i), TInv, NEW m \in Msisdns, Dial(m) \/ Answer(m) \/ HangUp(m)
    PROVE  \E r : Sends(i, m, r)
<1>1. \A kind : ~Fault(kind)
  BY NoFaults
<1>2. ASSUME NEW type \in {"START", "CONTINUE", "ABORT"}, NEW text \in Values \cup {Nil},
             Send(m, type, text)
      PROVE  \E r \in Request :
                /\ r.id = nreq + 1 /\ r.msisdn = m /\ r.shown = phone[m].shown
                /\ r.type = type /\ r.text = text
                /\ inbox' = [inbox EXCEPT ![i] = Append(@, r)]
                /\ nreq < MaxRequests /\ nreq' = nreq + 1
                /\ UNCHANGED <<store, pc, req, sess, todo, itemByID, replies>>
  <2> DEFINE r == [id |-> nreq + 1, type |-> type, msisdn |-> m, text |-> text,
                   shown |-> phone[m].shown]
  <2>1. nreq < MaxRequests /\ nreq' = nreq + 1 /\ Deliver(m, type, text)
    BY <1>1, <1>2 DEF Send
  <2>2. nreq + 1 \in Ids
    BY <2>1, ServiceAssumption DEF TInv, RestOK, Ids
  <2>3. phone[m].shown \in Items \cup {Nil}
    BY DEF TInv, RestOK, PhonesOK, Phone
  <2>4. r \in Request
    BY <2>2, <2>3 DEF Request
  <2>5. inbox' = [inbox EXCEPT ![i] = Append(@, r)]
    BY <2>1 DEF Deliver, Alone
  <2>6. UNCHANGED <<store, pc, req, sess, todo, itemByID, replies>>
    BY <1>2 DEF Send, handler
  <2> QED
    BY <2>1, <2>4, <2>5, <2>6
<1>3. CASE Dial(m)
  <2>1. PICK text \in Codes : Send(m, "START", text)
    BY <1>3 DEF Dial
  <2>2. text \in Values \cup {Nil}
    BY FlowAssumption
  <2> QED
    BY <1>2, <1>3, <2>1, <2>2 DEF Sends, MailOK, Dial
<1>4. CASE Answer(m)
  <2>1. PICK text \in Inputs : Send(m, "CONTINUE", text)
    BY <1>4 DEF Answer
  <2>2. text \in Values \cup {Nil}
    BY FlowAssumption
  <2> QED
    BY <1>2, <1>4, <2>1, <2>2 DEF Sends, MailOK, Answer
<1>5. CASE HangUp(m)
  <2>1. PICK text \in AbortTexts : Send(m, "ABORT", text)
    BY <1>5 DEF HangUp
  <2>2. text \in Values \cup {Nil}
    BY ServiceAssumption
  <2> QED
    BY <1>2, <1>5, <2>1, <2>2 DEF Sends, MailOK, HangUp
<1> QED
  BY <1>3, <1>4, <1>5

\* The request is the last of the inbox.
LEMMA AppendFacts ==
    ASSUME NEW S, NEW s \in Seq(S), NEW r \in S, NEW t, t = Append(s, r)
    PROVE  /\ DOMAIN t = DOMAIN s \cup {Len(s) + 1}
           /\ Len(s) + 1 \notin DOMAIN s /\ t[Len(s) + 1] = r
           /\ \A k \in DOMAIN s : k <= Len(s) + 1 /\ t[k] = s[k]
OBVIOUS

LEMMA SentFacts ==
    ASSUME TInv, NEW i \in Instances, NEW n, NEW r, Sends(i, n, r)
    PROVE  \E last \in Nat :
              /\ DOMAIN inbox'[i] = DOMAIN inbox[i] \cup {last}
              /\ last \notin DOMAIN inbox[i] /\ inbox'[i][last] = r
              /\ \A k \in DOMAIN inbox[i] : k <= last /\ inbox'[i][k] = inbox[i][k]
              /\ \A m : Queued(i, m)' = Queued(i, m) \cup (IF m = n THEN {last} ELSE {})
<1>1. inbox \in [Instances -> Seq(Request)] /\ inbox[i] \in Seq(Request) /\ r \in Request
  BY DEF TInv, RestOK, Sends
<1>2. inbox'[i] = Append(inbox[i], r)
  BY <1>1 DEF Sends
<1>3. PICK last \in Nat :
         /\ DOMAIN inbox'[i] = DOMAIN inbox[i] \cup {last}
         /\ last \notin DOMAIN inbox[i] /\ inbox'[i][last] = r
         /\ \A k \in DOMAIN inbox[i] : k <= last /\ inbox'[i][k] = inbox[i][k]
  <2>1. Len(inbox[i]) + 1 \in Nat
    BY <1>1
  <2> QED
    BY <1>1, <1>2, <2>1, AppendFacts
<1>4. r.msisdn = n
  BY DEF Sends
<1>5. \A m : Queued(i, m)' = Queued(i, m) \cup (IF m = n THEN {last} ELSE {})
  BY <1>3, <1>4 DEF Queued
<1> QED
  BY <1>3, <1>5

LEMMA SentSubscriber ==
    ASSUME TInv, RInv, NEW i \in Instances, NEW n \in Msisdns, NEW r, Sends(i, n, r),
           NEW m \in Msisdns, SubscriberOK(i, m)
    PROVE  SubscriberOK(i, m)'
<1>1. PICK last \in Nat :
         /\ DOMAIN inbox'[i] = DOMAIN inbox[i] \cup {last}
         /\ last \notin DOMAIN inbox[i] /\ inbox'[i][last] = r
         /\ \A k \in DOMAIN inbox[i] : k <= last /\ inbox'[i][k] = inbox[i][k]
         /\ Queued(i, m)' = Queued(i, m) \cup (IF m = n THEN {last} ELSE {})
  BY SentFacts
<1>2. /\ Works(i, m)' = Works(i, m)
      /\ \A x : AtPrompt(i, m, x)' <=> AtPrompt(i, m, x)
      /\ Over(i, m)' <=> Over(i, m)
      /\ pc' = pc /\ req' = req
  BY SameView DEF Sends
<1>3. /\ nreq \in Nat /\ nreq' = nreq + 1 /\ replies' = replies /\ r.id = nreq + 1
      /\ r.shown = phone[n].shown
  BY ServiceAssumption DEF TInv, RestOK, Sends
<1>4. \A k \in Queued(i, m) : k \in DOMAIN inbox[i]
  BY DEF Queued
<1>5. \A k \in DOMAIN inbox[i] : inbox[i][k].id \in Nat /\ inbox[i][k].id <= nreq
  BY InboxFacts DEF RInv, Unanswered, Ids
<1>6. Active(i) => req[i].id \in Nat /\ req[i].id <= nreq
  BY ActiveRequest DEF TInv, RInv, Unanswered, Active, Ids
<1>7. phone \in [Msisdns -> Phone] /\ phone[m].req \in Nat
  BY DEF TInv, RestOK, PhonesOK, Phone, Ids
<1>8. CASE m # n
  <2>1. Queued(i, m)' = Queued(i, m) /\ phone'[m] = phone[m]
    BY <1>1, <1>7, <1>8 DEF Sends, Await
  <2>2. AnswersOK(i, m)'
    BY <1>1, <1>2, <1>4, <2>1 DEF SubscriberOK, AnswersOK
  <2>3. LatestOK(i, m)'
    BY <1>1, <1>2, <1>3, <1>7, <2>1 DEF SubscriberOK, LatestOK, Active
  <2>4. PromptedOK(i, m)'
    BY <1>2, <2>1 DEF SubscriberOK, PromptedOK
  <2>5. RepliedOK(i, m)'
    BY <1>2, <1>3, <2>1 DEF SubscriberOK, RepliedOK
  <2>6. IdleOK(i, m)'
    BY <1>1, <1>2, <1>4, <2>1 DEF SubscriberOK, IdleOK
  <2> QED
    BY <2>2, <2>3, <2>4, <2>5, <2>6 DEF SubscriberOK
<1>9. CASE m = n
  <2>1. Queued(i, m)' = Queued(i, m) \cup {last}
    BY <1>1, <1>9
  <2>2. \/ phone'[m].state = "waiting" /\ phone'[m].req = nreq + 1
        \/ phone'[m].state = "idle" /\ r.type = "ABORT"
    BY <1>7, <1>9 DEF Sends, Await, NoPhone
  <2>3. AnswersOK(i, m)'
    <3> SUFFICES ASSUME NEW k \in Queued(i, m)', inbox'[i][k].type = "CONTINUE"
                 PROVE  /\ \A l \in Queued(i, m)' : k <= l
                        /\ \A x : x = inbox'[i][k].shown => AtPrompt(i, m, x)
      BY <1>2 DEF AnswersOK
    <3>1. CASE k = last
      <4>1. phone[m].state = "prompted" /\ inbox'[i][k].shown = phone[m].shown
        BY <1>1, <1>3, <1>9, <3>1 DEF Sends
      <4>2. Queued(i, m) = {} /\ AtPrompt(i, m, phone[m].shown)
        BY <4>1 DEF SubscriberOK, PromptedOK
      <4> QED
        BY <2>1, <3>1, <4>1, <4>2
    <3>2. CASE k # last
      <4>1. k \in Queued(i, m) /\ inbox'[i][k] = inbox[i][k] /\ k <= last
        BY <1>1, <1>4, <2>1, <3>2
      <4> QED
        BY <2>1, <4>1 DEF SubscriberOK, AnswersOK
    <3> QED
      BY <3>1, <3>2
  <2>4. LatestOK(i, m)'
    <3> SUFFICES ASSUME phone'[m].req = nreq + 1
                 PROVE  /\ ~(Active(i) /\ req[i].id = nreq + 1)
                        /\ \A k \in DOMAIN inbox'[i] : inbox'[i][k].id = nreq + 1 =>
                              k \in Queued(i, m)' /\ \A l \in Queued(i, m)' : l <= k
      BY <1>2, <1>3, <2>2 DEF LatestOK, Active
    <3>1. ~(Active(i) /\ req[i].id = nreq + 1)
      BY <1>3, <1>6
    <3>2. ASSUME NEW k \in DOMAIN inbox'[i], inbox'[i][k].id = nreq + 1
          PROVE  k = last
      BY <1>1, <1>3, <1>5, <3>2
    <3> QED
      BY <1>1, <1>4, <2>1, <3>1, <3>2
  <2>5. PromptedOK(i, m)'
    BY <2>2 DEF PromptedOK
  <2>6. RepliedOK(i, m)'
    <3>1. replies[nreq + 1] = <<>>
      BY <1>3, ServiceAssumption DEF RInv, Unanswered, Ids, Sends
    <3> QED
      BY <1>3, <2>2, <3>1 DEF RepliedOK
  <2>7. IdleOK(i, m)'
    BY <1>1, <1>4, <2>1, <2>2 DEF IdleOK
  <2> QED
    BY <2>3, <2>4, <2>5, <2>6, <2>7 DEF SubscriberOK
<1> QED
  BY <1>8, <1>9

\* What a phone shows is how the dialogue is.
LEMMA DisplaySubscriber ==
    ASSUME TInv, NEW i \in Instances, NEW n \in Msisdns, Display(n),
           NEW m \in Msisdns, SubscriberOK(i, m)
    PROVE  SubscriberOK(i, m)'
<1>1. /\ Works(i, m)' = Works(i, m)
      /\ \A x : AtPrompt(i, m, x)' <=> AtPrompt(i, m, x)
      /\ Over(i, m)' <=> Over(i, m)
  BY SameView DEF Display, handler
<1>2. Queued(i, m)' = Queued(i, m) /\ UNCHANGED <<inbox, pc, req, replies, nreq>>
  BY DEF Display, handler, Queued
<1>3. phone \in [Msisdns -> Phone]
  BY DEF TInv, RestOK, PhonesOK
<1>4. AnswersOK(i, m)'
  BY <1>1, <1>2 DEF SubscriberOK, AnswersOK
<1>5. CASE m # n
  <2>1. phone'[m] = phone[m]
    BY <1>3, <1>5 DEF Display
  <2> QED
    BY <1>1, <1>2, <1>4, <2>1 DEF SubscriberOK, LatestOK, PromptedOK, RepliedOK, IdleOK, Active
<1>6. CASE m = n
  <2> DEFINE r == Head(replies[phone[m].req])
  <2>1. /\ Queued(i, m) = {}
        /\ r.type = "RESPONSE" => AtPrompt(i, m, r.item)
        /\ r.type # "RESPONSE" /\ Tidy => Over(i, m)
    BY <1>6 DEF SubscriberOK, RepliedOK, Display
  <2>2. phone'[m] = IF r.type = "RESPONSE"
                    THEN [state |-> "prompted", req |-> phone[m].req, shown |-> r.item]
                    ELSE NoPhone
    BY <1>3, <1>6 DEF Display
  <2> HIDE DEF r
  <2>3. CASE r.type = "RESPONSE"
    <3>1. phone'[m].state = "prompted" /\ phone'[m].shown = r.item
      BY <2>2, <2>3
    <3> QED
      BY <1>1, <1>2, <1>4, <2>1, <2>3, <3>1
         DEF SubscriberOK, LatestOK, PromptedOK, RepliedOK, IdleOK
  <2>4. CASE r.type # "RESPONSE"
    <3>1. phone'[m].state = "idle"
      BY <2>2, <2>4 DEF NoPhone
    <3> QED
      BY <1>1, <1>2, <1>4, <2>1, <2>4, <3>1
         DEF SubscriberOK, LatestOK, PromptedOK, RepliedOK, IdleOK
  <2> QED
    BY <2>3, <2>4
<1> QED
  BY <1>5, <1>6

--------------------------------------------------------------------------------
(***************************************************************************)
(* The steps of the handler keep WorkOK.                                   *)
(***************************************************************************)

\* handleRequest() has what Start() and UserInput() need.
LEMMA TakenWork ==
    ASSUME TInv, NEW i \in Instances, HandleRequest(i), ItemsOK(i),
           \A k \in DOMAIN inbox[i] : MailOK(inbox[i][k]),
           \A m \in Msisdns : SubscriberOK(i, m)
    PROVE  WorkOK(i)'
<1>1. PICK r : r = Head(inbox[i])
  OBVIOUS
<1>2. /\ r \in Request /\ pc[i] = "idle" /\ req'[i] = r
      /\ pc'[i] = Dispatch(r) /\ pc'[i] \in {"new", "get", "abort", "reply_error"}
      /\ 1 \in Queued(i, r.msisdn) /\ inbox[i][1] = r
      /\ store' = store
  BY <1>1, TakenFacts
<1>3. MailOK(r) /\ r.msisdn \in Msisdns /\ r.type \in {"START", "CONTINUE", "ABORT", "unknown"}
  BY <1>2, QueuedFacts DEF Request
<1>4. r.text = Nil \/ r.type = "unknown" => ~Tidy
  BY <1>3, FlowAssumption, NilAssumption DEF MailOK, Tidy
<1>5. CASE pc'[i] = "new"
  <2>1. r.text \in Codes
    BY <1>2, <1>3, <1>5 DEF Dispatch, MailOK
  <2>2. Registered \subseteq itemByID'[i]
    BY <1>1, <1>2, <1>5 DEF HandleRequest, RegisterItems, TInv, RestOK
  <2> QED
    BY <1>2, <1>5, <2>1, <2>2 DEF WorkOK
<1>6. CASE pc'[i] = "get"
  <2>1. r.type = "CONTINUE"
    BY <1>2, <1>3, <1>6 DEF Dispatch
  <2>2. AtPrompt(i, r.msisdn, r.shown)
    BY <1>2, <1>3, <2>1 DEF SubscriberOK, AnswersOK
  <2>3. /\ r.shown \in ItemUsrPrompt /\ store[r.msisdn] # NoSession
        /\ store[r.msisdn]["current_item_id"] = r.shown
    BY <1>2, <2>2 DEF AtPrompt, Holds, Works, Active
  <2> QED
    BY <1>2, <1>6, <2>3 DEF WorkOK
<1>7. CASE pc'[i] = "abort"
  BY <1>7 DEF WorkOK
<1>8. CASE pc'[i] = "reply_error"
  <2>1. ~Tidy
    BY <1>2, <1>3, <1>4, <1>8 DEF Dispatch
  <2> QED
    BY <1>8, <2>1 DEF WorkOK, Tidy
<1> QED
  BY <1>2, <1>5, <1>6, <1>7, <1>8

\* What is known of the rest of the steps of a handler.
Forward(i) ==
    /\ OwnStep(i) /\ WorkOK(i)'
    /\ Registered \subseteq itemByID[i] => Registered \subseteq itemByID'[i]
    /\ \A m \in Msisdns : store'[m] # NoSession => store[m] # NoSession \/ pc[i] = "new"

\* A step that answers nothing, and the calls it makes to the server.
Silent(i) ==
    /\ Forward(i) /\ UNCHANGED replies
    /\ pc[i] = "sync" =>
          /\ pc'[i] = "put" /\ store'[Msisdn(i)] # NoSession
          /\ store'[Msisdn(i)]["current_item_id"] = Head(todo[i])
    /\ pc[i] = "put" => pc'[i] = "idle" /\ store'[Msisdn(i)] = store[Msisdn(i)]
    /\ pc[i] \in {"end", "abort"} => pc'[i] = "idle" /\ store'[Msisdn(i)] = NoSession

\* A step that shows the user the prompt the dialogue is at, or that it is over.
Answering(i) ==
    /\ Forward(i)
    /\ \E type, item :
          /\ Answers(i, type, item)
          /\ \A m \in Msisdns : m = Msisdn(i) =>
                /\ type = "RESPONSE" => AtPrompt(i, m, item)'
                /\ type # "RESPONSE" /\ Tidy => Over(i, m)'

LEMMA FinishFacts ==
    ASSUME TInv, NEW i \in Instances, Finish(i)
    PROVE  pc'[i] = "idle" /\ WorkOK(i)'
BY DEF TInv, HandlersOK, Finish, Drop, Goto, WorkOK

LEMMA StartForward ==
    ASSUME NEW i \in Instances, Alone(i), TInv, WorkOK(i), StartNew(i) \/ StartInit(i)
    PROVE  Silent(i)
<1>1. HandlersOK /\ StoreOK /\ pc[i] \in {"new", "init"} /\ Active(i) /\ \A kind : ~Fault(kind)
  BY NoFaults DEF TInv, StartNew, StartInit, Active
<1>2. req[i] \in Request /\ Msisdn(i) \in Msisdns /\ sess[i] \in Session
  BY <1>1, ActiveRequest DEF HandlersOK
<1>3. CASE StartNew(i)
  <2> DEFINE d == UssdData(req[i])
             s == Set(NewSession(d), "init_request", req[i].text)
  <2>1. /\ pc[i] = "new" /\ store' = [store EXCEPT ![Msisdn(i)] = d]
        /\ sess' = [sess EXCEPT ![i] = s]
        /\ pc' = [pc EXCEPT ![i] = "init"]
        /\ UNCHANGED <<req, todo, inbox, itemByID, replies, phone, nreq>>
    BY <1>1, <1>3 DEF StartNew, SessionsNew, SessionsNewFails, handleNewSession, Store, Goto,
       user
  <2>2. d \in Data /\ d # NoSession
    BY <1>2, UssdDataFacts, ServiceAssumption
  <2>3. req[i].text \in Codes /\ req[i].text \in Values /\ req[i].text # Nil
    BY <2>1, FlowAssumption, NilAssumption DEF WorkOK
  <2>4. Get(s, "init_request") = req[i].text
    BY <2>2, <2>3, NewSessionFacts, SetValue, ReservedNames DEF Get
  <2> HIDE DEF d, s
  <2>5. /\ pc'[i] = "init" /\ sess'[i] = s /\ req'[i] = req[i]
        /\ store'[Msisdn(i)] = d /\ \A m \in Msisdns \ {Msisdn(i)} : store'[m] = store[m]
    BY <1>1, <1>2, <2>1 DEF HandlersOK, StoreOK
  <2>6. WorkOK(i)'
    BY <2>1, <2>2, <2>3, <2>4, <2>5 DEF WorkOK, Msisdn, Get
  <2> QED
    BY <1>1, <2>1, <2>5, <2>6 DEF Silent, Forward, OwnStep
<1>4. CASE StartInit(i)
  <2>1. /\ pc[i] = "init" /\ UNCHANGED <<store, inbox, itemByID, replies, phone, nreq, req>>
        /\ \/ RouterExec(InitItem, Get(sess[i], "init_request")) = {} /\ pc'[i] = "reply_error"
           \/ pc'[i] = "proceed"
    BY <1>1, <1>4 DEF StartInit, Fail, BeginProceed, Goto, user, HandlersOK
  <2>2. Get(sess[i], "init_request") \in Codes /\ store[req[i].msisdn] # NoSession
    BY <2>1 DEF WorkOK
  <2>3. pc'[i] = "reply_error" => ~Tidy
    BY <2>1, <2>2 DEF Tidy
  <2>4. WorkOK(i)'
    BY <2>1, <2>2, <2>3 DEF WorkOK, Tidy
  <2> QED
    BY <1>1, <2>1, <2>4 DEF Silent, Forward, OwnStep
<1> QED
  BY <1>3, <1>4

\* UserInput() finds the session, at the item that was shown.
LEMMA InputForward ==
    ASSUME NEW i \in Instances, Alone(i), TInv, WorkOK(i), ItemsOK(i),
           InputGet(i) \/ InputNotExpected(i) \/ InputAccepted(i)
    PROVE  Silent(i)
<1>1. HandlersOK /\ StoreOK /\ pc[i] \in {"get", "process"} /\ Active(i) /\ \A kind : ~Fault(kind)
  BY NoFaults DEF TInv, InputGet, InputNotExpected, InputAccepted, Active
<1>2. req[i] \in Request /\ Msisdn(i) \in Msisdns /\ sess[i] \in Session
  BY <1>1, ActiveRequest DEF HandlersOK
<1> DEFINE d == store[Msisdn(i)]
<1>3. /\ d # NoSession /\ d \in Data
      /\ d["current_item_id"] = req[i].shown /\ req[i].shown \in ItemUsrPrompt
      /\ Registered \subseteq itemByID[i]
  BY <1>1, <1>2 DEF WorkOK, Msisdn, StoreOK, ItemsOK
<1>4. CASE InputGet(i)
  <2> DEFINE s == SetAll(NewSession(d), UssdData(req[i]))
  <2>1. /\ pc[i] = "get" /\ sess' = [sess EXCEPT ![i] = s]
        /\ pc' = [pc EXCEPT ![i] = "process"]
        /\ UNCHANGED <<store, req, inbox, itemByID, replies, phone, nreq>>
    BY <1>1, <1>3, <1>4 DEF InputGet, SessionsGetFails, handleGetSession, Goto, user
  <2>2. Get(s, "current_item_id") = req[i].shown
    <3>1. UssdData(req[i]) \in Data /\ UssdData(req[i])["current_item_id"] = Nil
      BY <1>2, UssdDataFacts, ReservedNames
    <3>2. NewSession(d) \in Session /\ NewSession(d).data = d
      BY <1>3, NewSessionFacts
    <3> QED
      BY <1>3, <3>1, <3>2, SetAllFacts, ReservedNames DEF Get
  <2> HIDE DEF s
  <2>3. pc'[i] = "process" /\ sess'[i] = s /\ req'[i] = req[i]
    BY <1>1, <2>1 DEF HandlersOK
  <2>4. WorkOK(i)'
    BY <1>3, <2>1, <2>2, <2>3 DEF WorkOK, Msisdn, CurrentItem
  <2> QED
    BY <1>1, <2>1, <2>3, <2>4 DEF Silent, Forward, OwnStep
<1>5. CASE InputNotExpected(i)
  <2>1. CurrentItem(i) = req[i].shown
    BY <1>5 DEF InputNotExpected, WorkOK
  <2> QED
    BY <1>3, <1>5, <2>1 DEF InputNotExpected, Registered
<1>6. CASE InputAccepted(i)
  <2>1. /\ pc[i] = "process" /\ pc'[i] = "proceed"
        /\ UNCHANGED <<store, req, inbox, itemByID, replies, phone, nreq>>
    BY <1>1, <1>6 DEF InputAccepted, BeginProceed, Goto, user, HandlersOK
  <2>2. WorkOK(i)'
    BY <1>3, <2>1 DEF WorkOK, Msisdn
  <2> QED
    BY <1>1, <2>1, <2>2 DEF Silent, Forward, OwnStep
<1> QED
  BY <1>4, <1>5, <1>6

LEMMA ProceedForward ==
    ASSUME NEW i \in Instances, TInv, WorkOK(i),
           \/ ProceedRouter(i) \/ ProceedSet(i) \/ ProceedFunc(i)
           \/ ProceedWait(i) \/ ProceedLost(i)
    PROVE  Silent(i)
<1>1. HandlersOK
  BY DEF TInv
<1>2. /\ pc[i] = "proceed" /\ pc'[i] \in {"proceed", "sync", "fail"}
      /\ UNCHANGED <<store, req, inbox, itemByID, replies, phone, nreq>>
  BY <1>1 DEF ProceedRouter, ProceedSet, ProceedFunc, ProceedWait, ProceedLost, At, Goto, user,
     HandlersOK
<1>3. WorkOK(i)'
  BY <1>2 DEF WorkOK
<1> QED
  BY <1>2, <1>3 DEF Silent, Forward, OwnStep, Active

\* The steps that store or delete the session.
LEMMA CallForward ==
    ASSUME NEW i \in Instances, Alone(i), TInv, WorkOK(i),
           SyncSession(i) \/ SyncReturns(i) \/ EndSession(i) \/ FailSession(i) \/ UserAbort(i)
    PROVE  Silent(i)
<1>1. /\ HandlersOK /\ StoreOK /\ pc[i] \in {"sync", "put", "end", "fail", "abort"}
      /\ Active(i) /\ \A kind : ~Fault(kind)
  BY NoFaults DEF TInv, SyncSession, SyncReturns, EndSession, FailSession, UserAbort, Active
<1>2. req[i] \in Request /\ Msisdn(i) \in Msisdns
  BY <1>1, ActiveRequest DEF HandlersOK
<1>3. UNCHANGED <<inbox, itemByID, replies, phone, nreq>>
  BY DEF SyncSession, SyncReturns, EndSession, FailSession, UserAbort, user
<1>4. CASE SyncSession(i)
  <2>1. /\ pc[i] = "sync" /\ store[Msisdn(i)] # NoSession
        /\ UpdFinds(i, Set(sess[i], "current_item_id", Head(todo[i])))
        /\ Goto(i, "put") /\ UNCHANGED req
    BY <1>1, <1>4 DEF SyncSession, WorkOK, Msisdn
  <2>2. PICK e \in Data : Found(i, e)
    BY <1>1, <2>1, UpdFindsFacts
  <2>3. /\ e # NoSession /\ e["current_item_id"] = Head(todo[i])
        /\ store' = [store EXCEPT ![Msisdn(i)] = e]
    BY <2>2, ServiceAssumption DEF Found
  <2>4. store'[Msisdn(i)] = e /\ \A m \in Msisdns \ {Msisdn(i)} : store'[m] = store[m]
    BY <1>1, <1>2, <2>3 DEF StoreOK
  <2>5. pc'[i] = "put" /\ WorkOK(i)'
    BY <1>1, <2>1 DEF HandlersOK, Goto, WorkOK
  <2> QED
    BY <1>1, <1>3, <2>1, <2>3, <2>4, <2>5 DEF Silent, Forward, OwnStep
<1>7. CASE SyncReturns(i)
  <2>1. pc[i] = "put" /\ UNCHANGED store /\ pc'[i] = "idle" /\ WorkOK(i)'
    BY <1>7, FinishFacts DEF SyncReturns
  <2> QED
    BY <1>1, <1>3, <2>1 DEF Silent, Forward, OwnStep
<1>5. CASE EndSession(i) \/ UserAbort(i)
  <2>1. store' = [store EXCEPT ![Msisdn(i)] = NoSession] /\ pc[i] \in {"end", "abort"}
    BY <1>1, <1>5 DEF EndSession, UserAbort, SessionsDel, handleDelSession, Store
  <2>2. /\ store'[Msisdn(i)] = NoSession
        /\ \A m \in Msisdns \ {Msisdn(i)} : store'[m] = store[m]
    BY <1>1, <1>2, <2>1 DEF StoreOK
  <2>3. pc'[i] = "idle" /\ WorkOK(i)'
    BY <1>5, FinishFacts DEF EndSession, UserAbort
  <2> QED
    BY <1>1, <1>3, <2>1, <2>2, <2>3 DEF Silent, Forward, OwnStep
<1>6. CASE FailSession(i)
  <2>1. /\ pc[i] = "fail" /\ store' = [store EXCEPT ![Msisdn(i)] = NoSession]
        /\ pc' = [pc EXCEPT ![i] = "reply_error"] /\ UNCHANGED req
    BY <1>1, <1>6 DEF FailSession, Fail, SessionsDel, handleDelSession, Store, Goto
  <2>2. /\ store'[Msisdn(i)] = NoSession /\ pc'[i] = "reply_error"
        /\ \A m \in Msisdns \ {Msisdn(i)} : store'[m] = store[m]
    BY <1>1, <1>2, <2>1 DEF StoreOK, HandlersOK
  <2>3. WorkOK(i)'
    BY <2>1, <2>2 DEF WorkOK, Msisdn
  <2> QED
    BY <1>1, <1>3, <2>1, <2>2, <2>3 DEF Silent, Forward, OwnStep
<1> QED
  BY <1>4, <1>5, <1>6, <1>7

\* The steps that answer, each with the truth.
LEMMA AnswerForward ==
    ASSUME NEW i \in Instances, TInv, WorkOK(i),
           ReplyError(i) \/ InputRefused(i) \/ ProceedUser(i)
    PROVE  Answering(i)
<1>1. HandlersOK
  BY DEF TInv
<1>2. UNCHANGED <<store, inbox, itemByID, phone, nreq>>
  BY DEF ReplyError, InputRefused, ProceedUser, user
<1>3. CASE ReplyError(i)
  <2>1. pc[i] = "reply_error" /\ pc'[i] = "idle" /\ WorkOK(i)'
    BY <1>3, FinishFacts DEF ReplyError
  <2>2. Answers(i, "ERROR", Nil)
    BY <1>3, <2>1 DEF ReplyError, Answers
  <2>3. Tidy => store'[Msisdn(i)] = NoSession
    BY <1>2, <2>1 DEF WorkOK, Msisdn
  <2>4. \A m \in Msisdns : m = Msisdn(i) /\ Tidy => Over(i, m)'
    BY <2>1, <2>3 DEF Over, Holds, Works, Active
  <2> QED
    BY <1>2, <2>1, <2>2, <2>4 DEF Answering, Forward, OwnStep, Active
<1>4. CASE InputRefused(i)
  <2>1. pc[i] = "process" /\ pc'[i] = "idle" /\ WorkOK(i)'
    BY <1>4, FinishFacts DEF InputRefused
  <2>2. PICK item : item = CurrentItem(i)
    OBVIOUS
  <2>3. Answers(i, "RESPONSE", item)
    BY <1>4, <2>1, <2>2 DEF InputRefused, Answers, ItemUsrPrompt, OfKind
  <2>4. /\ item \in ItemUsrPrompt /\ store'[Msisdn(i)] # NoSession
        /\ store'[Msisdn(i)]["current_item_id"] = item
    BY <1>2, <2>1, <2>2 DEF WorkOK, Msisdn
  <2>5. \A m \in Msisdns : m = Msisdn(i) => AtPrompt(i, m, item)'
    BY <2>1, <2>4 DEF AtPrompt, Holds, Works, Active
  <2> QED
    BY <1>2, <2>1, <2>3, <2>5 DEF Answering, Forward, OwnStep, Active
<1>5. CASE ProceedUser(i)
  <2>1. PICK item : item = Head(todo[i])
    OBVIOUS
  <2>2. /\ pc[i] = "proceed" /\ item \in Items /\ todo' = todo /\ req' = req
        /\ Get(sess[i], "responder_key") = req[i].id /\ req[i].msisdn = Msisdn(i)
    BY <1>1, <1>5, <2>1, AtFacts DEF ProceedUser, Msisdn
  <2>3. pc'[i] \in {"sync", "end"}
    BY <1>1, <1>5 DEF ProceedUser, Goto, HandlersOK
  <2>4. WorkOK(i)'
    BY <1>2, <2>2, <2>3 DEF WorkOK
  <2>5. Forward(i)
    BY <1>2, <2>2, <2>3, <2>4 DEF Forward, OwnStep, Active
  <2>6. CASE At(i, {"menu", "prompt"})
    <3>1. pc'[i] = "sync" /\ Answers(i, "RESPONSE", item) /\ Kind[item] \in {"menu", "prompt"}
      BY <1>1, <1>5, <2>1, <2>2, <2>6 DEF ProceedUser, At, Answers, Goto, HandlersOK
    <3>2. \A m \in Msisdns : m = Msisdn(i) => AtPrompt(i, m, item)'
      BY <2>1, <2>2, <3>1 DEF AtPrompt, Holds, Works, Active, ItemUsrPrompt, OfKind
    <3> QED
      BY <2>5, <3>1, <3>2 DEF Answering
  <2>7. CASE At(i, {"final"})
    <3>1. pc'[i] = "end" /\ Answers(i, "RELEASE", item)
      BY <1>1, <1>5, <2>1, <2>2, <2>7 DEF ProceedUser, At, Answers, Goto, HandlersOK
    <3>2. \A m \in Msisdns : m = Msisdn(i) => Over(i, m)'
      BY <2>2, <3>1 DEF Over, Holds, Works, Active
    <3> QED
      BY <2>5, <3>1, <3>2 DEF Answering
  <2> QED
    BY <1>5, <2>6, <2>7 DEF ProceedUser
<1> QED
  BY <1>3, <1>4, <1>5

--------------------------------------------------------------------------------
(***************************************************************************)
(* SingleInv is inductive, with the invariants of UssdServiceProofs.       *)
(***************************************************************************)

LEMMA SingleInit ==
    ASSUME NEW i, Alone(i), Init
    PROVE  SingleInv
<1>1. /\ pc[i] = "idle" /\ inbox[i] = <<>> /\ i \in Instances
      /\ \A m \in Msisdns : phone[m] = NoPhone /\ store[m] = NoSession
  BY DEF Init, Alone
<1>2. WorkOK(i) /\ ItemsOK(i)
  BY <1>1 DEF WorkOK, ItemsOK
<1>3. DOMAIN inbox[i] = {}
  BY <1>1
<1>4. ASSUME NEW m \in Msisdns
      PROVE  SubscriberOK(i, m)
  <2>1. Queued(i, m) = {} /\ Over(i, m) /\ phone[m].state = "idle"
    BY <1>1, <1>3 DEF Queued, Over, Holds, Works, Active, NoPhone
  <2> QED
    BY <2>1 DEF SubscriberOK, AnswersOK, LatestOK, PromptedOK, RepliedOK, IdleOK
<1> QED
  BY <1>2, <1>3, <1>4 DEF SingleInv, Alone

\* A step of the handler.
LEMMA HandlerSingle ==
    ASSUME NEW i, Alone(i), TInv, RInv, SingleInv, HandlerStep(i)
    PROVE  SingleInv'
<1>1. /\ i \in Instances /\ WorkOK(i) /\ ItemsOK(i)
      /\ \A k \in DOMAIN inbox[i] : MailOK(inbox[i][k])
      /\ \A m \in Msisdns : SubscriberOK(i, m)
  BY DEF SingleInv, Alone
<1>2. CASE HandleRequest(i)
  <2>1. WorkOK(i)' /\ \A m \in Msisdns : SubscriberOK(i, m)'
    BY <1>1, <1>2, TakenWork, TakenSubscriber
  <2>2. ItemsOK(i)'
    <3>1. itemByID[i] \subseteq itemByID'[i] /\ store' = store
      BY <1>1, <1>2 DEF HandleRequest, RegisterItems, TInv, RestOK
    <3> QED
      BY <1>1, <3>1 DEF ItemsOK
  <2>3. \A k \in DOMAIN inbox'[i] : MailOK(inbox'[i][k])
    BY <1>1, <1>2, TakenFacts
  <2> QED
    BY <2>1, <2>2, <2>3 DEF SingleInv, Alone, MailOK
<1>3. ASSUME Forward(i)
      PROVE  ItemsOK(i)' /\ WorkOK(i)' /\ \A k \in DOMAIN inbox'[i] : MailOK(inbox'[i][k])
  BY <1>1, <1>3 DEF Forward, OwnStep, ItemsOK, WorkOK
<1>4. CASE Silent(i)
  <2>1. \A m \in Msisdns : SubscriberOK(i, m)'
    BY <1>1, <1>4, SilentSubscriber DEF Silent, Forward
  <2> QED
    BY <1>3, <1>4, <2>1 DEF SingleInv, Alone, MailOK, Silent
<1>5. CASE Answering(i)
  <2>1. \A m \in Msisdns : SubscriberOK(i, m)'
    BY <1>1, <1>5, AnswerSubscriber DEF Answering, Forward
  <2> QED
    BY <1>3, <1>5, <2>1 DEF SingleInv, Alone, MailOK, Answering
<1> QED
  BY <1>1, <1>2, <1>4, <1>5, StartForward, InputForward, ProceedForward, CallForward,
     AnswerForward DEF HandlerStep

LEMMA PhoneSingle ==
    ASSUME NEW i, Alone(i), TInv, RInv, SingleInv, NEW n \in Msisdns,
           Dial(n) \/ Answer(n) \/ HangUp(n) \/ Display(n)
    PROVE  SingleInv'
<1>1. /\ i \in Instances /\ WorkOK(i) /\ ItemsOK(i)
      /\ \A k \in DOMAIN inbox[i] : MailOK(inbox[i][k])
      /\ \A m \in Msisdns : SubscriberOK(i, m)
  BY DEF SingleInv, Alone
<1>2. UNCHANGED <<store, pc, req, sess, todo, itemByID>>
  BY SendsSteps DEF Sends, Display, handler
<1>3. WorkOK(i)' /\ ItemsOK(i)'
  BY <1>1, <1>2 DEF WorkOK, ItemsOK, CurrentItem
<1>4. CASE Display(n)
  <2>1. \A m \in Msisdns : SubscriberOK(i, m)'
    BY <1>1, <1>4, DisplaySubscriber
  <2>2. inbox' = inbox
    BY <1>4 DEF Display
  <2> QED
    BY <1>1, <1>3, <2>1, <2>2 DEF SingleInv, Alone, MailOK
<1>5. ASSUME NEW r, Sends(i, n, r)
      PROVE  SingleInv'
  <2>1. \A m \in Msisdns : SubscriberOK(i, m)'
    BY <1>1, <1>5, SentSubscriber
  <2>2. \A k \in DOMAIN inbox'[i] : MailOK(inbox'[i][k])
    BY <1>1, <1>5, SentFacts DEF Sends
  <2> QED
    BY <1>3, <2>1, <2>2 DEF SingleInv, Alone, MailOK
<1> QED
  BY <1>4, <1>5, SendsSteps

LEMMA StutterSingle ==
    ASSUME SingleInv, UNCHANGED seen
    PROVE  SingleInv'
<1>1. UNCHANGED <<store, inbox, pc, req, sess, todo, itemByID, replies, phone, nreq>>
  BY DEF seen, handler, user
<1>2. ASSUME NEW i \in Instances, NEW m \in Msisdns
      PROVE  SubscriberOK(i, m)'
  <2>1. /\ Works(i, m)' = Works(i, m)
        /\ \A x : AtPrompt(i, m, x)' <=> AtPrompt(i, m, x)
        /\ Over(i, m)' <=> Over(i, m)
    BY <1>1, SameView
  <2>2. Queued(i, m)' = Queued(i, m)
    BY <1>1 DEF Queued
  <2> QED
    BY <1>1, <2>1, <2>2
       DEF SingleInv, SubscriberOK, AnswersOK, LatestOK, PromptedOK, RepliedOK, IdleOK, Active
<1> QED
  BY <1>1, <1>2 DEF SingleInv, WorkOK, ItemsOK, CurrentItem, MailOK

\* The invariant of an instance that is alone.
THEOREM SpecSingleInv ==
    ASSUME NEW the, Alone(the)
    PROVE  Spec => []SingleInv
<1>1. Init => SingleInv
  BY SingleInit
<1>2. ASSUME TInv, RInv, PutInv, SingleInv, [Next]_vars
      PROVE  SingleInv'
  BY <1>2, AloneSteps, HandlerSingle, PhoneSingle, StutterSingle
<1> QED
  BY <1>1, <1>2, SpecTInv, SpecRInv, SpecPutInv, PTL DEF Spec

\* A subscriber nothing is on its way for has nothing queued, and no handler.
LEMMA NothingInFlight ==
    ASSUME TInv, NEW i \in Instances, NEW m \in Msisdns, ~InFlight(m)
    PROVE  Queued(i, m) = {} /\ ~Works(i, m)
<1>1. Active(i) => req[i] \in Request
  BY DEF TInv, HandlersOK, HandlerOK
<1> QED
  BY <1>1, RequestAssumption DEF InFlight, Queued, Works

\* An instance that is alone gives what a user types to the item that was on the
\* user's screen, however fast users dial, answer, hang up and dial again.
THEOREM SpecInputReachesShownItem ==
    ASSUME NEW the, Alone(the)
    PROVE  Spec => []InputReachesShownItem
<1>1. SingleInv => InputReachesShownItem
  BY DEF SingleInv, WorkOK, InputReachesShownItem
<1> QED
  BY <1>1, SpecSingleInv, PTL

\* The prompt that a user looks at is the current item of the user's session,
\* when nothing of the user is on its way to an instance that is alone.
THEOREM SpecPromptIsStored ==
    ASSUME NEW the, Alone(the)
    PROVE  Spec => []PromptIsStored
<1>1. ASSUME TInv, SingleInv
      PROVE  PromptIsStored
  <2> SUFFICES ASSUME NEW m \in Msisdns, phone[m].state = "prompted", ~InFlight(m)
               PROVE  store[m] # NoSession /\ store[m]["current_item_id"] = phone[m].shown
    BY DEF PromptIsStored
  <2>1. the \in Instances /\ SubscriberOK(the, m)
    BY <1>1 DEF SingleInv, Alone
  <2>2. AtPrompt(the, m, phone[m].shown)
    BY <2>1 DEF SubscriberOK, PromptedOK
  <2> QED
    BY <1>1, <2>1, <2>2, NothingInFlight DEF AtPrompt, Holds
<1> QED
  BY <1>1, SpecTInv, SpecSingleInv, PTL

\* A user whose dialogue is over leaves no session behind, if every code that is
\* dialled is known and no ABORT comes without a text.
THEOREM SpecIdleMeansNoSession ==
    ASSUME NEW the, Alone(the), Tidy
    PROVE  Spec => []IdleMeansNoSession
<1>1. ASSUME TInv, SingleInv
      PROVE  IdleMeansNoSession
  <2> SUFFICES ASSUME NEW m \in Msisdns, phone[m].state = "idle", ~InFlight(m)
               PROVE  store[m] = NoSession
    BY DEF IdleMeansNoSession
  <2>1. the \in Instances /\ SubscriberOK(the, m)
    BY <1>1 DEF SingleInv, Alone
  <2>2. Queued(the, m) = {} /\ ~Works(the, m)
    BY <1>1, <2>1, NothingInFlight
  <2> QED
    BY <2>1, <2>2 DEF SubscriberOK, IdleOK, Over, Holds
<1> QED
  BY <1>1, SpecTInv, SpecSingleInv, PTL

--------------------------------------------------------------------------------
(***************************************************************************)
(* The outcomes of executing items: Outcomes is a recursive function on   *)
(* sequences of items, which is defined because the least family of sets   *)
(* that is closed under its equation is a solution of it.                  *)
(***************************************************************************)

\* The outcomes of executing the items are those of the first of them, and of what
\* there is to execute then: the least sets that are closed in this way are
\* reached exactly, so that there are such sets, and Outcomes gives such sets.
LEMMA OutcomesStep ==
    ASSUME NEW code, NEW items \in Seq(Items),
           \A q \in Seq(Items) : Abstract!NextItems(q, code) \subseteq Seq(Items)
    PROVE  Abstract!Outcomes(items, code) =
              Abstract!EndsAt(items, code) \cup
              UNION {Abstract!Outcomes(n, code) : n \in Abstract!NextItems(items, code)}
<1> DEFINE Q == Seq(Items)
           E(q) == Abstract!EndsAt(q, code)
           N(q) == Abstract!NextItems(q, code)
           All == UNION {E(q) : q \in Q}
           Step(f) == [q \in Q |-> E(q) \cup UNION {f[n] : n \in N(q)}]
           Closes0(f) == \A q \in Q : E(q) \cup UNION {f[n] : n \in N(q)} \subseteq f[q]
           L == [Q -> SUBSET All]
           least == [q \in Q |-> {o \in All : \A f \in L : Closes0(f) => o \in f[q]}]
<1>1. \A q \in Q : N(q) \subseteq Q /\ E(q) \subseteq All
  OBVIOUS
<1> HIDE DEF Q, E, N, All
<1>2. least \in L
  OBVIOUS
<1>3. ASSUME NEW q \in Q, NEW o \in E(q) \cup UNION {least[n] : n \in N(q)}
      PROVE  o \in least[q]
  <2>1. o \in All
    BY <1>1, <1>2, <1>3
  <2>2. ASSUME NEW f \in L, Closes0(f)
        PROVE  o \in f[q]
    <3>1. CASE o \in E(q)
      BY <2>2, <3>1
    <3>2. ASSUME NEW n \in N(q), o \in least[n]
          PROVE  o \in f[q]
      <4>1. n \in Q
        BY <1>1, <3>2
      <4>2. o \in f[n]
        BY <2>2, <3>2, <4>1
      <4> QED
        BY <2>2, <3>2, <4>2
    <3> QED
      BY <1>3, <3>1, <3>2
  <2> QED
    BY <2>1, <2>2
<1> DEFINE g == Step(least)
<1>4. g \in L
  BY <1>1, <1>2
<1>5. \A q \in Q : g[q] \subseteq least[q]
  BY <1>3
<1>6. Closes0(g)
  <2> SUFFICES ASSUME NEW q \in Q, NEW o \in E(q) \cup UNION {g[n] : n \in N(q)}
               PROVE  o \in g[q]
    OBVIOUS
  <2>1. ASSUME NEW n \in N(q), o \in g[n]
        PROVE  o \in UNION {least[k] : k \in N(q)}
    <3>1. o \in least[n]
      BY <1>1, <1>5, <2>1
    <3> QED
      BY <3>1
  <2> QED
    BY <2>1
<1>7. \A q \in Q : least[q] \subseteq g[q]
  BY <1>4, <1>6
<1>8. least = Step(least)
  <2>1. \A q \in Q : least[q] = g[q]
    BY <1>5, <1>7
  <2>2. least = [q \in Q |-> least[q]] /\ g = [q \in Q |-> g[q]]
    OBVIOUS
  <2> HIDE DEF least, g
  <2> QED
    BY <2>1, <2>2 DEF g
<1> HIDE DEF least, g, L
<1> DEFINE after == CHOOSE f : f = Step(f)
<1>9. after = Step(after)
  BY <1>8
<1>10. \A q : Abstract!Outcomes(q, code) = after[q]
  BY DEF Abstract!Outcomes, Q, E, N
<1> HIDE DEF after
<1>11. items \in Q
  BY DEF Q
<1>12. after[items] = E(items) \cup UNION {after[n] : n \in N(items)}
  BY <1>9, <1>11
<1> QED
  BY <1>10, <1>12 DEF E, N

\* What comes next are items too.
LEMMA NextItemsType ==
    ASSUME NEW code, NEW q \in Seq(Items)
    PROVE  Abstract!NextItems(q, code) \subseteq Seq(Items)
<1>1. CASE q = <<>>
  BY <1>1 DEF Abstract!NextItems
<1>2. CASE q # <<>>
  <2>1. Head(q) \in Items /\ Tail(q) \in Seq(Items)
    BY <1>2, HeadTailType
  <2>2. CASE Kind[Head(q)] = "router"
    <3>1. Abstract!NextItems(q, code) = {n \o Tail(q) : n \in RouterExec(Head(q), code)}
      BY <1>2, <2>2 DEF Abstract!NextItems, Abstract!RouterExec, RouterExec
    <3>2. RouterExec(Head(q), code) \subseteq Seq(Items)
      BY <2>1, <2>2, RouterExecType DEF OfKind
    <3> QED
      BY <2>1, <3>1, <3>2, ConcatType
  <2>3. CASE Kind[Head(q)] # "router"
    BY <1>2, <2>1, <2>3 DEF Abstract!NextItems
  <2> QED
    BY <2>2, <2>3
<1> QED
  BY <1>1, <1>2

\* Where the items may end is an outcome, and so is where the next may end.
LEMMA OutcomesFacts ==
    ASSUME NEW code, NEW items \in Seq(Items)
    PROVE  /\ Abstract!EndsAt(items, code) \subseteq Abstract!Outcomes(items, code)
           /\ \A n \in Abstract!NextItems(items, code) : LeadsTo(n, items, code)
<1>1. Abstract!Outcomes(items, code) =
         Abstract!EndsAt(items, code) \cup
         UNION {Abstract!Outcomes(n, code) : n \in Abstract!NextItems(items, code)}
  BY OutcomesStep, NextItemsType
<1> QED
  BY <1>1 DEF LeadsTo

--------------------------------------------------------------------------------
(***************************************************************************)
(* DialogueInv is inductive, with SingleInv.                               *)
(***************************************************************************)

\* Without a request in the handler, or when it only has to end, there is no task.
LEMMA NoTask ==
    ASSUME NEW i \in Instances, pc'[i] \in {"idle", "put", "end", "fail", "reply_error"}
    PROVE  TaskOK(i)'
BY DEF TaskOK

\* The handler has taken its request from the inbox, or a new one is sent.
LEMMA TakenOrder ==
    ASSUME TInv, NEW i \in Instances, OrderOK(i), HandleRequest(i)
    PROVE  OrderOK(i)'
<1>1. PICK r : r = Head(inbox[i])
  OBVIOUS
<1>2. /\ req'[i] = inbox[i][1] /\ 1 \in DOMAIN inbox[i]
      /\ \A k \in DOMAIN inbox'[i] :
            k \in Nat \ {0} /\ k + 1 \in DOMAIN inbox[i] /\ inbox'[i][k] = inbox[i][k + 1]
  BY <1>1, TakenFacts DEF Queued
<1>3. \A k, l \in DOMAIN inbox[i] : k < l => inbox[i][k].id < inbox[i][l].id
  BY DEF OrderOK
<1>4. ASSUME NEW k \in DOMAIN inbox'[i], NEW l \in DOMAIN inbox'[i], k < l
      PROVE  inbox'[i][k].id < inbox'[i][l].id
  <2>1. k + 1 < l + 1 /\ k + 1 \in DOMAIN inbox[i] /\ l + 1 \in DOMAIN inbox[i]
    BY <1>2, <1>4
  <2> QED
    BY <1>2, <1>3, <2>1
<1>5. ASSUME NEW k \in DOMAIN inbox'[i]
      PROVE  req'[i].id < inbox'[i][k].id
  <2>1. 1 < k + 1 /\ k + 1 \in DOMAIN inbox[i]
    BY <1>2
  <2> QED
    BY <1>2, <1>3, <2>1
<1> QED
  BY <1>4, <1>5 DEF OrderOK

\* A new request is the youngest of all.
LEMMA SentOrder ==
    ASSUME TInv, RInv, NEW i \in Instances, OrderOK(i), NEW m, NEW r, Sends(i, m, r)
    PROVE  OrderOK(i)'
<1>1. PICK last \in Nat :
         /\ DOMAIN inbox'[i] = DOMAIN inbox[i] \cup {last}
         /\ last \notin DOMAIN inbox[i] /\ inbox'[i][last] = r
         /\ \A k \in DOMAIN inbox[i] : k <= last /\ inbox'[i][k] = inbox[i][k]
  BY SentFacts
<1>2. r.id = nreq + 1 /\ nreq \in Nat /\ UNCHANGED <<pc, req>>
  BY DEF Sends, TInv, RestOK
<1>3. \A k \in DOMAIN inbox[i] : inbox[i][k].id <= nreq /\ inbox[i][k].id \in Nat
  BY InboxFacts DEF RInv, Unanswered, Ids
<1>4. Active(i) => req[i].id <= nreq /\ req[i].id \in Nat
  BY DEF RInv, Unanswered, TInv, HandlersOK, HandlerOK, Request, Ids
<1>5. ASSUME NEW k \in DOMAIN inbox'[i], NEW l \in DOMAIN inbox'[i], k < l
      PROVE  inbox'[i][k].id < inbox'[i][l].id
  <2>1. DOMAIN inbox[i] \subseteq Nat
    BY InboxFacts DEF TInv, RestOK
  <2>2. k \in DOMAIN inbox[i]
    BY <1>1, <1>5, <2>1
  <2>3. CASE l = last
    BY <1>1, <1>2, <1>3, <2>2, <2>3
  <2>4. CASE l \in DOMAIN inbox[i]
    BY <1>1, <1>5, <2>2, <2>4 DEF OrderOK
  <2> QED
    BY <1>1, <2>3, <2>4
<1>6. ASSUME Active(i), NEW k \in DOMAIN inbox'[i]
      PROVE  req[i].id < inbox'[i][k].id
  BY <1>1, <1>2, <1>3, <1>4, <1>6 DEF OrderOK
<1> QED
  BY <1>2, <1>5, <1>6 DEF OrderOK, Active

\* handleRequest() dispatches on the type of the request, which has a text.
LEMMA TakenTask ==
    ASSUME TInv, NEW i \in Instances, HandleRequest(i)
    PROVE  TaskOK(i)'
<1>1. PICK r : r = Head(inbox[i])
  OBVIOUS
<1>2. /\ req'[i] = r /\ pc'[i] = Dispatch(r)
      /\ pc'[i] \in {"new", "get", "abort", "reply_error"}
  BY <1>1, TakenFacts
<1>3. /\ pc'[i] = "new" => r.type = "START" /\ r.text # Nil
      /\ pc'[i] = "get" => r.type = "CONTINUE" /\ r.text # Nil
      /\ pc'[i] = "abort" => r.type = "ABORT" /\ r.text # Nil
  BY <1>2 DEF Dispatch
<1> QED
  BY <1>2, <1>3 DEF TaskOK

\* Start() has the dialled code in a session without an item.
LEMMA StartNewTask ==
    ASSUME NEW i \in Instances, Alone(i), TInv, TaskOK(i), StartNew(i)
    PROVE  TaskOK(i)'
<1>1. HandlersOK /\ StoreOK /\ pc[i] = "new" /\ \A kind : ~Fault(kind)
  BY NoFaults DEF TInv, StartNew
<1>2. req[i] \in Request /\ Msisdn(i) \in Msisdns /\ req[i].text \in Values \cup {Nil}
  BY <1>1, ActiveRequest
<1> DEFINE d == UssdData(req[i])
           s == Set(NewSession(d), "init_request", req[i].text)
<1>3. /\ store' = [store EXCEPT ![Msisdn(i)] = d]
      /\ sess' = [sess EXCEPT ![i] = s]
      /\ pc' = [pc EXCEPT ![i] = "init"] /\ req' = req
  BY <1>1 DEF StartNew, SessionsNew, SessionsNewFails, handleNewSession, Store, Goto
<1>4. req[i].type = "START" /\ req[i].text # Nil
  BY <1>1 DEF TaskOK
<1>5. d \in Data /\ d["current_item_id"] = Nil
  BY <1>2, UssdDataFacts, ReservedNames
<1>6. s.data["init_request"] = req[i].text /\ s.namesToSet["init_request"] = req[i].text
  BY <1>2, <1>4, <1>5, NewSessionFacts, SetValue, ReservedNames
<1> HIDE DEF d, s
<1>7. pc'[i] = "init" /\ sess'[i] = s /\ req'[i] = req[i] /\ store'[Msisdn(i)] = d
  BY <1>1, <1>2, <1>3 DEF HandlersOK, StoreOK
<1> QED
  BY <1>4, <1>5, <1>6, <1>7 DEF TaskOK, Msisdn

\* The session and the items that proceed() begins with.
LEMMA BeginFacts ==
    ASSUME TInv, NEW i \in Instances, pc[i] # "idle", NEW s \in Session, SessOK(s),
           NEW nextItems \in Seq(Items), BeginProceed(i, s, nextItems)
    PROVE  /\ pc'[i] = "proceed" /\ req' = req /\ todo'[i] = nextItems
           /\ sess'[i].data["init_request"] = s.data["init_request"]
           /\ sess'[i].namesToSet["init_request"] = s.namesToSet["init_request"]
<1> DEFINE t == Set(s, "responder_key", req[i].id)
<1>1. req[i].id \in Values /\ HandlersOK
  BY ActiveRequest DEF TInv
<1>2. /\ t.data["next_item_ids"] = s.data["next_item_ids"]
      /\ t.data["init_request"] = s.data["init_request"]
      /\ t.namesToSet["init_request"] = s.namesToSet["init_request"]
  BY <1>1, SetValue, ReservedNames
<1> HIDE DEF t
<1>3. LoadNextItems(t) = <<>>
  BY <1>2 DEF LoadNextItems, Get, SessOK
<1>4. /\ sess' = [sess EXCEPT ![i] = t] /\ todo' = [todo EXCEPT ![i] = nextItems \o <<>>]
      /\ pc' = [pc EXCEPT ![i] = "proceed"] /\ req' = req
  BY <1>3 DEF BeginProceed, Goto, t
<1>5. sess'[i] = t /\ todo'[i] = nextItems /\ pc'[i] = "proceed"
  BY <1>1, <1>4 DEF HandlersOK
<1> QED
  BY <1>2, <1>4, <1>5

\* The init item's items are what executing the init item leads to.
LEMMA StartInitTask ==
    ASSUME TInv, NEW i \in Instances, TaskOK(i), StartInit(i)
    PROVE  TaskOK(i)'
<1>1. HandlersOK /\ HandlerOK(i) /\ pc[i] = "init" /\ sess[i] \in Session /\ store' = store
  BY DEF TInv, HandlersOK, StartInit
<1> DEFINE code == sess[i].data["init_request"]
<1>2. CASE Fail(i)
  <2>1. pc'[i] = "reply_error"
    BY <1>1, <1>2 DEF Fail, Goto, HandlersOK
  <2> QED
    BY <2>1, NoTask
<1>3. CASE \E nextItems \in RouterExec(InitItem, code) : BeginProceed(i, sess[i], nextItems)
  <2>1. PICK nextItems \in RouterExec(InitItem, code) : BeginProceed(i, sess[i], nextItems)
    BY <1>3
  <2>2. InitItem \in OfKind("router") /\ InitItem \in Items /\ Kind[InitItem] = "router"
    BY FlowAssumption DEF OfKind
  <2>3. nextItems \in Seq(Items)
    BY <2>1, <2>2, RouterExecType
  <2>4. /\ pc'[i] = "proceed" /\ req' = req /\ todo'[i] = nextItems
        /\ sess'[i].data["init_request"] = code
        /\ sess'[i].namesToSet["init_request"] = sess[i].namesToSet["init_request"]
    BY <1>1, <2>1, <2>3, BeginFacts DEF HandlerOK
  <2>5. LeadsTo(nextItems, <<InitItem>>, code)
    <3>1. <<InitItem>> \in Seq(Items)
      BY <2>2
    <3>2. nextItems \o Tail(<<InitItem>>) = nextItems
      BY <2>3
    <3>3. <<InitItem>> # <<>> /\ Head(<<InitItem>>) = InitItem
      OBVIOUS
    <3>4. Abstract!RouterExec(InitItem, code) = RouterExec(InitItem, code)
      BY DEF Abstract!RouterExec, RouterExec
    <3>5. nextItems \in Abstract!NextItems(<<InitItem>>, code)
      BY <2>1, <2>2, <3>2, <3>3, <3>4 DEF Abstract!NextItems
    <3> QED
      BY <3>1, <3>5, OutcomesFacts
  <2>6. /\ req[i].type = "START" /\ req[i].text # Nil
        /\ sess[i].namesToSet["init_request"] = code /\ code = req[i].text
        /\ store[req[i].msisdn]["current_item_id"] = Nil
    BY <1>1 DEF TaskOK
  <2> HIDE DEF code
  <2> QED
    BY <1>1, <2>4, <2>5, <2>6 DEF TaskOK
<1> QED
  BY <1>2, <1>3 DEF StartInit, Get

\* UserInput() has the code and the item of the session that the server has.
LEMMA InputGetTask ==
    ASSUME NEW i \in Instances, Alone(i), TInv, WorkOK(i), TaskOK(i), InputGet(i)
    PROVE  TaskOK(i)'
<1>1. HandlersOK /\ StoreOK /\ pc[i] = "get" /\ \A kind : ~Fault(kind)
  BY NoFaults DEF TInv, InputGet
<1>2. req[i] \in Request /\ Msisdn(i) \in Msisdns
  BY <1>1, ActiveRequest
<1> DEFINE d == store[Msisdn(i)]
           s == SetAll(NewSession(d), UssdData(req[i]))
<1>3. d # NoSession /\ d \in Data /\ d["current_item_id"] \in ItemUsrPrompt
  BY <1>1, <1>2 DEF WorkOK, Msisdn, StoreOK
<1>4. /\ sess' = [sess EXCEPT ![i] = s] /\ pc' = [pc EXCEPT ![i] = "process"]
      /\ UNCHANGED <<store, req>>
  BY <1>1, <1>3 DEF InputGet, SessionsGetFails, handleGetSession, Goto
<1>5. s.data["init_request"] = d["init_request"] /\ s.namesToSet["init_request"] = d["init_request"]
  <2>1. UssdData(req[i]) \in Data /\ UssdData(req[i])["init_request"] = Nil
    BY <1>2, UssdDataFacts, ReservedNames
  <2>2. NewSession(d) \in Session /\ NewSession(d).data = d /\ NewSession(d).namesToSet = d
    BY <1>3, NewSessionFacts
  <2> QED
    BY <2>1, <2>2, SetAllFacts, ReservedNames
<1>6. req[i].type = "CONTINUE" /\ req[i].text # Nil
  BY <1>1 DEF TaskOK
<1> HIDE DEF s
<1>7. pc'[i] = "process" /\ sess'[i] = s
  BY <1>1, <1>4 DEF HandlersOK
<1> QED
  BY <1>3, <1>4, <1>5, <1>6, <1>7 DEF TaskOK, Msisdn

\* The items that the input leads to are what there is to execute.
LEMMA InputAcceptedTask ==
    ASSUME TInv, NEW i \in Instances, WorkOK(i), TaskOK(i), InputAccepted(i)
    PROVE  TaskOK(i)'
<1>1. HandlersOK /\ HandlerOK(i) /\ pc[i] = "process" /\ sess[i] \in Session /\ store' = store
  BY DEF TInv, HandlersOK, InputAccepted
<1> DEFINE x == CurrentItem(i)
           s == ProcessSession(sess[i], x, req[i].text)
           nextItems == ProcessNext(x, req[i].text)
<1>2. /\ x \in ItemUsrPrompt /\ x \in Items /\ ~Refuses(x, req[i].text)
      /\ x = store[req[i].msisdn]["current_item_id"]
      /\ BeginProceed(i, s, nextItems)
  BY <1>1 DEF InputAccepted, ItemUsrPrompt, OfKind, WorkOK
<1>3. req[i].text \in Values \cup {Nil}
  BY <1>1, ActiveRequest
<1>4. s \in Session /\ SameReserved(s, sess[i])
  <2>1. CASE Kind[x] = "prompt"
    <3>1. ItemName[x] \in Names \ Reserved
      BY <1>2, <2>1, FlowAssumption DEF OfKind
    <3> QED
      BY <1>1, <1>3, <2>1, <3>1, SetItemFacts DEF ProcessSession
  <2>2. CASE Kind[x] # "prompt"
    BY <1>1, <2>2 DEF ProcessSession, SameReserved
  <2> QED
    BY <2>1, <2>2
<1>5. /\ SessOK(s)
      /\ s.data["init_request"] = sess[i].data["init_request"]
      /\ s.namesToSet["init_request"] = sess[i].namesToSet["init_request"]
  BY <1>1, <1>4 DEF SameReserved, Reserved, HandlerOK, SessOK
<1>6. nextItems \in Seq(Items)
  BY <1>2, ProcessNextType
<1> HIDE DEF s
<1>7. /\ pc'[i] = "proceed" /\ req' = req /\ todo'[i] = nextItems
      /\ sess'[i].data["init_request"] = s.data["init_request"]
      /\ sess'[i].namesToSet["init_request"] = s.namesToSet["init_request"]
  BY <1>1, <1>2, <1>4, <1>5, <1>6, BeginFacts
<1>8. \A code : LeadsTo(nextItems, nextItems, code)
  BY DEF LeadsTo
<1>9. /\ req[i].type = "CONTINUE" /\ req[i].text # Nil
      /\ sess[i].namesToSet["init_request"] = sess[i].data["init_request"]
      /\ sess[i].data["init_request"] = store[req[i].msisdn]["init_request"]
  BY <1>1 DEF TaskOK
<1> QED
  BY <1>1, <1>2, <1>5, <1>7, <1>8, <1>9 DEF TaskOK

\* The loop goes on with items that the ones before lead to.
LEMMA LoopTask ==
    ASSUME TInv, NEW i \in Instances, TaskOK(i), NEW kinds, At(i, kinds),
           NEW s \in Session, SameReserved(s, sess[i]), sess' = [sess EXCEPT ![i] = s],
           NEW nextItems \in Seq(Items), Continue(i, nextItems), UNCHANGED <<pc, req, store>>,
           \A code : code = sess[i].data["init_request"] =>
              nextItems \o Tail(todo[i]) \in Abstract!NextItems(todo[i], code)
    PROVE  TaskOK(i)'
<1> DEFINE code == sess[i].data["init_request"]
           rest == nextItems \o Tail(todo[i])
<1>1. HandlersOK /\ pc[i] = "proceed" /\ todo[i] \in Seq(Items)
  BY DEF TInv, HandlersOK, At
<1>2. LeadsTo(rest, todo[i], code)
  BY <1>1, OutcomesFacts
<1>3. todo'[i] = rest /\ sess'[i] = s
  BY <1>1 DEF Continue, HandlersOK
<1>4. /\ s.data["init_request"] = code
      /\ s.namesToSet["init_request"] = sess[i].namesToSet["init_request"]
  BY DEF SameReserved, Reserved
<1> HIDE DEF rest
<1>5. ASSUME NEW from, LeadsTo(todo[i], from, code)
      PROVE  LeadsTo(rest, from, code)
  BY <1>2, <1>5 DEF LeadsTo
<1> QED
  BY <1>1, <1>3, <1>4, <1>5 DEF TaskOK

\* Each step of the loop keeps the handler at its request's work.
LEMMA ProceedTask ==
    ASSUME TInv, NEW i \in Instances, TaskOK(i),
           \/ ProceedUser(i) \/ ProceedRouter(i) \/ ProceedSet(i) \/ ProceedFunc(i)
           \/ ProceedWait(i) \/ ProceedLost(i)
    PROVE  TaskOK(i)'
<1>1. HandlersOK /\ pc[i] = "proceed" /\ sess[i] \in Session /\ store' = store /\ req' = req
  BY DEF TInv, HandlersOK, At, ProceedUser, ProceedRouter, ProceedSet, ProceedFunc, ProceedWait,
     ProceedLost
<1>2. CASE pc'[i] \in {"end", "fail"}
  BY <1>2, NoTask
<1>3. CASE pc'[i] = "sync" /\ sess' = sess
  <2>1. sess[i].namesToSet["init_request"] = sess[i].data["init_request"]
    BY <1>1 DEF TaskOK
  <2> QED
    BY <1>3, <2>1 DEF TaskOK
<1> DEFINE x == Head(todo[i])
<1>4. ASSUME NEW kinds, At(i, kinds)
      PROVE  /\ todo[i] # <<>> /\ x \in Items /\ Kind[x] \in kinds /\ Tail(todo[i]) \in Seq(Items)
             /\ <<>> \o Tail(todo[i]) = Tail(todo[i])
  BY <1>1, <1>4, AtFacts
<1>5. CASE \E nextItems \in RouterExec(x, Get(sess[i], "init_request")) :
              At(i, {"router"}) /\ Continue(i, nextItems) /\ UNCHANGED <<pc, sess>>
  <2>1. PICK nextItems \in RouterExec(x, Get(sess[i], "init_request")) :
           At(i, {"router"}) /\ Continue(i, nextItems) /\ UNCHANGED <<pc, sess>>
    BY <1>5
  <2>2. /\ x \in OfKind("router") /\ Kind[x] = "router" /\ todo[i] # <<>>
        /\ nextItems \in Seq(Items)
    BY <1>4, <2>1, RouterExecType DEF OfKind
  <2>3. /\ SameReserved(sess[i], sess[i]) /\ sess' = [sess EXCEPT ![i] = sess[i]]
    BY <1>1, <2>1 DEF SameReserved, HandlersOK
  <2>4. \A code : Abstract!RouterExec(x, code) = RouterExec(x, code)
    BY DEF Abstract!RouterExec, RouterExec
  <2>5. \A code : code = sess[i].data["init_request"] =>
           nextItems \o Tail(todo[i]) \in Abstract!NextItems(todo[i], code)
    BY <2>1, <2>2, <2>4 DEF Abstract!NextItems, Get
  <2> QED
    BY <1>1, <2>1, <2>2, <2>3, <2>5, LoopTask
<1>6. CASE ProceedSet(i)
  <2> DEFINE s == Set(sess[i], ItemName[x], ItemValue[x])
  <2>1. At(i, {"set"}) /\ Continue(i, <<>>) /\ sess' = [sess EXCEPT ![i] = s] /\ pc' = pc
    BY <1>6 DEF ProceedSet
  <2>2. /\ x \in OfKind("set") /\ Kind[x] = "set" /\ todo[i] # <<>>
        /\ <<>> \o Tail(todo[i]) = Tail(todo[i])
    BY <1>4, <2>1 DEF OfKind
  <2>3. s \in Session /\ SameReserved(s, sess[i])
    BY <1>1, <2>2, SetItemFacts, FlowAssumption
  <2>4. \A code : <<>> \o Tail(todo[i]) \in Abstract!NextItems(todo[i], code)
    BY <2>2 DEF Abstract!NextItems
  <2> HIDE DEF s
  <2>5. <<>> \in Seq(Items)
    OBVIOUS
  <2> QED
    BY <1>1, <2>1, <2>3, <2>4, <2>5, LoopTask
<1>7. CASE \E e \in FuncEffects[x] \ {Failed} :
              /\ At(i, {"func"}) /\ Continue(i, <<>>) /\ pc' = pc
              /\ sess' = [sess EXCEPT ![i] = SetAll(@, e)]
  <2>1. PICK e \in FuncEffects[x] \ {Failed} :
           /\ At(i, {"func"}) /\ Continue(i, <<>>) /\ pc' = pc
           /\ sess' = [sess EXCEPT ![i] = SetAll(sess[i], e)]
    BY <1>7
  <2> DEFINE s == SetAll(sess[i], e)
  <2>2. /\ x \in OfKind("func") /\ Kind[x] = "func" /\ todo[i] # <<>>
        /\ <<>> \o Tail(todo[i]) = Tail(todo[i])
    BY <1>4, <2>1 DEF OfKind
  <2>3. e \in Data /\ \A n \in Reserved : e[n] = Nil /\ n \in Names
    BY <2>2, FlowAssumption
  <2>4. s \in Session /\ SameReserved(s, sess[i])
    BY <1>1, <2>3, SetAllFacts DEF SameReserved
  <2>5. \A code : <<>> \o Tail(todo[i]) \in Abstract!NextItems(todo[i], code)
    BY <2>1, <2>2 DEF Abstract!NextItems
  <2>6. sess' = [sess EXCEPT ![i] = s] /\ <<>> \in Seq(Items)
    BY <2>1
  <2> HIDE DEF s
  <2> QED
    BY <1>1, <2>1, <2>4, <2>5, <2>6, LoopTask
<1>8. CASE ProceedUser(i) \/ ProceedWait(i) \/ ProceedLost(i)
  <2>1. pc'[i] \in {"sync", "end", "fail"} /\ sess' = sess
    BY <1>1, <1>8 DEF ProceedUser, ProceedWait, ProceedLost, Goto, HandlersOK
  <2> QED
    BY <1>2, <1>3, <2>1
<1>9. CASE ProceedRouter(i)
  <2>1. Goto(i, "fail") => pc'[i] = "fail"
    BY <1>1 DEF Goto, HandlersOK
  <2> QED
    BY <1>2, <1>5, <1>9, <2>1 DEF ProceedRouter
<1>10. CASE ProceedFunc(i)
  <2>1. Goto(i, "fail") => pc'[i] = "fail"
    BY <1>1 DEF Goto, HandlersOK
  <2> QED
    BY <1>2, <1>7, <1>10, <2>1 DEF ProceedFunc
<1> QED
  BY <1>6, <1>8, <1>9, <1>10

\* The other steps of the handler leave no task.
LEMMA LastTask ==
    ASSUME TInv, NEW i \in Instances,
           \/ ReplyError(i) \/ InputNotExpected(i) \/ InputRefused(i)
           \/ SyncSession(i) \/ SyncReturns(i) \/ EndSession(i) \/ FailSession(i)
           \/ UserAbort(i)
    PROVE  TaskOK(i)'
<1>1. HandlersOK
  BY DEF TInv
<1>2. pc'[i] \in {"idle", "put", "reply_error"}
  BY <1>1 DEF ReplyError, InputNotExpected, InputRefused, SyncSession, SyncReturns, EndSession,
     FailSession, UserAbort, Finish, Drop, Fail, Goto, HandlersOK
<1> QED
  BY <1>2, NoTask

\* Every step of the handler but the first is for the request it has, and answers
\* it or leaves the replies alone.
LEMMA HandlerForward ==
    ASSUME NEW i, Alone(i), TInv, SingleInv, HandlerStep(i), ~HandleRequest(i)
    PROVE  OwnStep(i)
<1>1. i \in Instances /\ WorkOK(i) /\ ItemsOK(i)
  BY DEF SingleInv, Alone
<1> QED
  BY <1>1, StartForward, InputForward, ProceedForward, CallForward, AnswerForward
     DEF HandlerStep, Silent, Answering, Forward

\* The handler's steps keep the order of the requests and the handler's work.
LEMMA HandlerDialogue ==
    ASSUME NEW i, Alone(i), TInv, SingleInv, DialogueInv, HandlerStep(i)
    PROVE  DialogueInv'
<1>1. i \in Instances /\ WorkOK(i) /\ OrderOK(i) /\ TaskOK(i)
  BY DEF SingleInv, DialogueInv, Alone
<1>2. TaskOK(i)'
  BY <1>1, TakenTask, StartNewTask, StartInitTask, InputGetTask, InputAcceptedTask,
     ProceedTask, LastTask DEF HandlerStep
<1>3. OrderOK(i)'
  <2>1. CASE HandleRequest(i)
    BY <1>1, <2>1, TakenOrder
  <2>2. CASE ~HandleRequest(i)
    BY <1>1, <2>2, HandlerForward DEF OwnStep, OrderOK, Active
  <2> QED
    BY <2>1, <2>2
<1> QED
  BY <1>2, <1>3 DEF DialogueInv, Alone

\* A step that leaves the handler and its session alone.
LEMMA SameTask ==
    ASSUME NEW i, TaskOK(i), UNCHANGED <<store, pc, req, sess, todo>>
    PROVE  TaskOK(i)'
BY DEF TaskOK

\* The steps of the gateway and of NATS do so too.
LEMMA OutsideDialogue ==
    ASSUME NEW i, Alone(i), TInv, RInv, DialogueInv,
           UNCHANGED seen \/ \E m \in Msisdns : Dial(m) \/ Answer(m) \/ HangUp(m) \/ Display(m)
    PROVE  DialogueInv'
<1>1. i \in Instances /\ OrderOK(i) /\ TaskOK(i)
  BY DEF DialogueInv, Alone
<1>2. ASSUME UNCHANGED <<store, inbox, pc, req, sess, todo>>
      PROVE  DialogueInv'
  BY <1>1, <1>2, SameTask DEF DialogueInv, OrderOK, Active, Alone
<1>3. ASSUME NEW m \in Msisdns, NEW r, Sends(i, m, r)
      PROVE  DialogueInv'
  <2>1. OrderOK(i)'
    BY <1>1, <1>3, SentOrder
  <2>2. TaskOK(i)'
    BY <1>1, <1>3, SameTask DEF Sends
  <2> QED
    BY <2>1, <2>2 DEF DialogueInv, Alone
<1> QED
  BY <1>2, <1>3, SendsSteps DEF seen, handler, Display

\* What the handler does is what the dialogue of its subscriber asks for.
THEOREM SpecDialogueInv ==
    ASSUME NEW the, Alone(the)
    PROVE  Spec => []DialogueInv
<1>1. Init => DialogueInv
  <2> SUFFICES ASSUME Init, NEW i \in Instances
               PROVE  OrderOK(i) /\ TaskOK(i)
    BY DEF DialogueInv
  <2>1. pc[i] = "idle" /\ inbox[i] = <<>>
    BY DEF Init
  <2>2. DOMAIN inbox[i] = {}
    BY <2>1
  <2> QED
    BY <2>1, <2>2 DEF OrderOK, TaskOK, Active
<1>2. ASSUME TInv, RInv, PutInv, SingleInv, DialogueInv, [Next]_vars
      PROVE  DialogueInv'
  BY <1>2, AloneSteps, HandlerDialogue, OutsideDialogue
<1> QED
  BY <1>1, <1>2, SpecTInv, SpecRInv, SpecPutInv, SpecSingleInv, PTL DEF Spec

--------------------------------------------------------------------------------
(***************************************************************************)
(* UssdDialogue, as the state of UssdService has it.                       *)
(***************************************************************************)

\* The instance that is alone is the one that the mapping is about.
LEMMA AloneServer ==
    ASSUME NEW the, Alone(the)
    PROVE  Server = the /\ the \in Instances
BY DEF Server, Alone

\* The request as the subscriber made it.
Said(r) == [id |-> r.id, type |-> r.type, text |-> r.text]

\* The two instances of UssdItems have the same flow.
LEMMA SameFlow ==
    /\ \A x, input : Abstract!Refuses(x, input) <=> Refuses(x, input)
    /\ \A x, input : Abstract!ProcessNext(x, input) = ProcessNext(x, input)
    /\ \A x, code : Abstract!RouterExec(x, code) = RouterExec(x, code)
    /\ Abstract!ItemUsrPrompt = ItemUsrPrompt
BY DEF Abstract!Refuses, Refuses, Abstract!Chosen, Chosen, Abstract!ProcessNext, ProcessNext,
   Abstract!RouterExec, RouterExec, Abstract!ItemUsrPrompt, ItemUsrPrompt, Abstract!OfKind, OfKind

\* Requests that are not served differ in their ids.
LEMMA UnservedFacts ==
    ASSUME TInv, NEW i \in Instances, Server = i, OrderOK(i)
    PROVE  /\ Unserved \subseteq Request
           /\ \A r, s \in Unserved : r.id = s.id => r = s
           /\ Undecided => req[i] \in Unserved /\ \A s \in Unserved : req[i].id <= s.id
           /\ pc[i] = "idle" /\ inbox[i] # <<>> =>
                 /\ Head(inbox[i]) \in Unserved
                 /\ \A s \in Unserved : Head(inbox[i]).id <= s.id
<1>1. inbox[i] \in Seq(Request) /\ \A k \in DOMAIN inbox[i] : inbox[i][k] \in Request /\ k \in Nat
  BY InboxFacts DEF TInv, RestOK
<1>2. Undecided => Active(i) /\ req[i] \in Request
  BY DEF Undecided, Active, TInv, HandlersOK, HandlerOK
<1>3. \A r \in Request : r.id \in Nat
  BY DEF Request, Ids
<1>4. \A r \in Unserved : (\E k \in DOMAIN inbox[i] : r = inbox[i][k]) \/ (Undecided /\ r = req[i])
  BY DEF Unserved
<1>5. /\ \A k, l \in DOMAIN inbox[i] : k < l => inbox[i][k].id < inbox[i][l].id
      /\ Undecided => \A k \in DOMAIN inbox[i] : req[i].id < inbox[i][k].id
  BY <1>2 DEF OrderOK
<1>6. Unserved \subseteq Request
  BY <1>1, <1>2, <1>4
<1>7. ASSUME NEW r \in Unserved, NEW s \in Unserved, r.id = s.id
      PROVE  r = s
  <2>1. ASSUME NEW k \in DOMAIN inbox[i], NEW l \in DOMAIN inbox[i],
               inbox[i][k].id = inbox[i][l].id
        PROVE  k = l
    <3>1. k \in Nat /\ l \in Nat /\ inbox[i][k].id \in Nat /\ inbox[i][l].id \in Nat
      BY <1>1, <1>3
    <3> QED
      BY <1>5, <2>1, <3>1
  <2>2. ASSUME Undecided, NEW k \in DOMAIN inbox[i]
        PROVE  inbox[i][k].id # req[i].id
    <3>1. inbox[i][k].id \in Nat /\ req[i].id \in Nat
      BY <1>1, <1>2, <1>3, <2>2
    <3> QED
      BY <1>5, <2>2, <3>1
  <2> QED
    BY <1>4, <1>7, <2>1, <2>2
<1>8. Undecided => req[i] \in Unserved /\ \A s \in Unserved : req[i].id <= s.id
  <2> SUFFICES ASSUME Undecided
               PROVE  req[i] \in Unserved /\ \A s \in Unserved : req[i].id <= s.id
    OBVIOUS
  <2>1. ASSUME NEW s \in Unserved
        PROVE  req[i].id <= s.id
    <3>1. s.id \in Nat /\ req[i].id \in Nat
      BY <1>2, <1>3, <1>6
    <3> QED
      BY <1>4, <1>5, <3>1
  <2> QED
    BY <2>1 DEF Unserved
<1>9. ASSUME pc[i] = "idle", inbox[i] # <<>>
      PROVE  /\ Head(inbox[i]) \in Unserved
             /\ \A s \in Unserved : Head(inbox[i]).id <= s.id
  <2>1. 1 \in DOMAIN inbox[i] /\ Head(inbox[i]) = inbox[i][1] /\ \A k \in DOMAIN inbox[i] : 1 <= k
    BY <1>1, <1>9
  <2>2. Head(inbox[i]) \in Unserved
    BY <2>1 DEF Unserved
  <2>3. ASSUME NEW s \in Unserved
        PROVE  inbox[i][1].id <= s.id
    <3>1. PICK k \in DOMAIN inbox[i] : s = inbox[i][k]
      BY <1>4, <1>9 DEF Undecided
    <3>2. inbox[i][1].id \in Nat /\ s.id \in Nat /\ k \in Nat
      BY <1>1, <1>3, <2>1, <3>1
    <3> QED
      BY <1>5, <2>1, <3>1, <3>2
  <2> QED
    BY <2>1, <2>2, <2>3
<1> QED
  BY <1>6, <1>7, <1>8, <1>9

\* What is served is the subscriber's oldest request, and is asked no more.
LEMMA AskedFacts ==
    ASSUME TInv, NEW i \in Instances, Server = i, OrderOK(i),
           NEW r \in Unserved, \A s \in Unserved : r.id <= s.id
    PROVE  /\ Abstract!Oldest(r.msisdn, Said(r)) /\ r.msisdn \in Msisdns
           /\ Said(r) \in AskedBy(r.msisdn)
           /\ Unserved' = Unserved \ {r} =>
                 \A m \in Msisdns :
                    AskedBy(m)' = IF m = r.msisdn THEN AskedBy(m) \ {Said(r)} ELSE AskedBy(m)
<1>1. /\ Unserved \subseteq Request /\ r \in Request /\ r.msisdn \in Msisdns
      /\ \A p, s \in Unserved : p.id = s.id => p = s
  BY UnservedFacts DEF Request
<1>2. \A m : AskedBy(m) = {Said(s) : s \in {s \in Unserved : s.msisdn = m}}
  BY DEF AskedBy, Said
<1>3. \A m : AskedBy(m)' = {Said(s) : s \in {s \in Unserved' : s.msisdn = m}}
  BY DEF AskedBy, Said
<1>4. Said(r) \in AskedBy(r.msisdn)
  BY <1>2
<1>5. \A q \in AskedBy(r.msisdn) : Said(r).id <= q.id
  BY <1>2 DEF Said
<1>6. Abstract!Oldest(r.msisdn, Said(r))
  BY <1>1, <1>4, <1>5 DEF Abstract!Oldest
<1>7. \A s \in Unserved : Said(s) = Said(r) => s = r
  BY <1>1 DEF Said
<1>8. ASSUME Unserved' = Unserved \ {r}, NEW m \in Msisdns
      PROVE  AskedBy(m)' = IF m = r.msisdn THEN AskedBy(m) \ {Said(r)} ELSE AskedBy(m)
  <2>1. CASE m = r.msisdn
    <3>1. ASSUME NEW q
          PROVE  q \in AskedBy(m)' <=> q \in AskedBy(m) \ {Said(r)}
      BY <1>2, <1>3, <1>7, <1>8, <2>1
    <3> QED
      BY <2>1, <3>1
  <2>2. CASE m # r.msisdn
    <3>1. ASSUME NEW q
          PROVE  q \in AskedBy(m)' <=> q \in AskedBy(m)
      BY <1>2, <1>3, <1>8, <2>2
    <3> QED
      BY <2>2, <3>1
  <2> QED
    BY <2>1, <2>2
<1> QED
  BY <1>1, <1>4, <1>6, <1>8

\* Nothing of the step is to be seen.
LEMMA Unseen ==
    ASSUME Unserved' = Unserved, nreq' = nreq,
           \A q \in Ids : AnswersTo(q)' = AnswersTo(q),
           \A m \in Msisdns : Dialogue(m)' = Dialogue(m)
    PROVE  UNCHANGED Abstract!vars
<1>1. \A m \in Msisdns : AskedBy(m)' = AskedBy(m)
  BY DEF AskedBy
<1> QED
  BY <1>1 DEF Abstract!vars

\* The subscriber's oldest request is served, with an answer.
Serves(r, answer) ==
    /\ r \in Unserved /\ \A s \in Unserved : r.id <= s.id
    /\ Unserved' = Unserved \ {r} /\ nreq' = nreq
    /\ AnswersTo(r.id)' = AnswersTo(r.id) \o answer
    /\ \A q \in Ids \ {r.id} : AnswersTo(q)' = AnswersTo(q)
    /\ \A n \in Msisdns \ {r.msisdn} : Dialogue(n)' = Dialogue(n)

\* A step that serves a request: it was the oldest, and its answers are as said.
LEMMA ServesFacts ==
    ASSUME TInv, NEW i \in Instances, Server = i, OrderOK(i), NEW r, NEW answer,
           Serves(r, answer)
    PROVE  /\ r \in Request /\ r.msisdn \in Msisdns
           /\ Said(r) \in AskedBy(r.msisdn)
           /\ Abstract!Oldest(r.msisdn, Said(r))
           /\ [m \in Msisdns |-> AskedBy(m)]' =
                 [[m \in Msisdns |-> AskedBy(m)] EXCEPT ![r.msisdn] = @ \ {Said(r)}]
           /\ Abstract!Reply(Said(r), answer)
           /\ [m \in Msisdns |-> Dialogue(m)]' =
                 [[m \in Msisdns |-> Dialogue(m)] EXCEPT ![r.msisdn] = Dialogue(r.msisdn)']
<1>1. /\ r \in Request /\ r.msisdn \in Msisdns /\ r.id \in Ids
      /\ Said(r) \in AskedBy(r.msisdn) /\ Abstract!Oldest(r.msisdn, Said(r))
      /\ \A m \in Msisdns :
            AskedBy(m)' = IF m = r.msisdn THEN AskedBy(m) \ {Said(r)} ELSE AskedBy(m)
  BY UnservedFacts, AskedFacts DEF Serves, Request
<1>2. [m \in Msisdns |-> AskedBy(m)]' =
         [[m \in Msisdns |-> AskedBy(m)] EXCEPT ![r.msisdn] = @ \ {Said(r)}]
  BY <1>1
<1>3. Abstract!Reply(Said(r), answer)
  BY <1>1 DEF Abstract!Reply, Serves, Said
<1>4. [m \in Msisdns |-> Dialogue(m)]' =
         [[m \in Msisdns |-> Dialogue(m)] EXCEPT ![r.msisdn] = Dialogue(r.msisdn)']
  BY DEF Serves
<1> QED
  BY <1>1, <1>2, <1>3, <1>4

\* The ways in which a request is served.
LEMMA ServedWays ==
    ASSUME TInv, NEW i \in Instances, Server = i, OrderOK(i), NEW r, NEW answer,
           Serves(r, answer),
           \/ Abstract!Start(r.msisdn, Said(r)) \/ Abstract!Refuse(r.msisdn, Said(r))
           \/ Abstract!Input(r.msisdn, Said(r)) \/ Abstract!Reject(r.msisdn, Said(r))
           \/ Abstract!Abort(r.msisdn, Said(r))
    PROVE  Abstract!Next
<1>1. Abstract!Serve(r.msisdn, Said(r)) /\ r.msisdn \in Msisdns
  BY ServesFacts DEF Abstract!Serve, Serves
<1>2. Said(r) \in [m \in Msisdns |-> AskedBy(m)][r.msisdn]
  BY ServesFacts
<1> QED
  BY <1>1, <1>2 DEF Abstract!Next

\* The outcome is what becomes of the dialogue, and what is answered.
Becomes(m, code, waits) ==
    Dialogue(m)' = IF waits = Nil THEN Abstract!NoDialogue ELSE [code |-> code, item |-> waits]

\* Serving a request with an outcome of the items is a step of the dialogue.
LEMMA ProceedServes ==
    ASSUME TInv, NEW i \in Instances, Server = i, OrderOK(i), NEW r, NEW code, NEW items,
           NEW o \in Abstract!Outcomes(items, code), Serves(r, o.answer),
           Becomes(r.msisdn, code, o.waits)
    PROVE  Abstract!Proceed(r.msisdn, Said(r), items, code)
BY ServesFacts DEF Abstract!Proceed, Becomes

ERR == <<[type |-> "ERROR", item |-> Nil]>>

\* The dialogue of a subscriber, by where the handler is.
LEMMA DialogueFacts ==
    ASSUME NEW i, Server = i, NEW m
    PROVE  /\ pc[i] = "sync" /\ Msisdn(i) = m =>
                 Dialogue(m) = DialogueOf(sess[i].data, Head(todo[i]))
           /\ pc[i] \in {"end", "fail"} /\ Msisdn(i) = m => Dialogue(m) = Abstract!NoDialogue
           /\ Msisdn(i) # m \/ pc[i] \notin {"sync", "end", "fail"} =>
                 Dialogue(m) = IF store[m] = NoSession THEN Abstract!NoDialogue
                               ELSE DialogueOf(store[m], store[m]["current_item_id"])
<1>1. DialogueOf(NoData, Nil) = Abstract!NoDialogue
  BY DEF DialogueOf, Abstract!NoDialogue
<1> QED
  BY <1>1 DEF Dialogue

\* The same of the next state.
LEMMA DialogueFactsNext ==
    ASSUME NEW i, Server = i, NEW m
    PROVE  /\ pc'[i] = "sync" /\ req'[i].msisdn = m =>
                 Dialogue(m)' = DialogueOf(sess'[i].data, Head(todo'[i]))
           /\ pc'[i] \in {"end", "fail"} /\ req'[i].msisdn = m => Dialogue(m)' = Abstract!NoDialogue
           /\ req'[i].msisdn # m \/ pc'[i] \notin {"sync", "end", "fail"} =>
                 Dialogue(m)' = IF store'[m] = NoSession THEN Abstract!NoDialogue
                                ELSE DialogueOf(store'[m], store'[m]["current_item_id"])
<1>1. DialogueOf(NoData, Nil) = Abstract!NoDialogue
  BY DEF DialogueOf, Abstract!NoDialogue
<1> QED
  BY <1>1 DEF Dialogue, Msisdn

\* A session without a current item is no dialogue.
LEMMA DialogueOfFacts ==
    ASSUME NEW d, NEW x
    PROVE  /\ x = Nil => DialogueOf(d, x) = Abstract!NoDialogue
           /\ x # Nil => DialogueOf(d, x) = [code |-> d["init_request"], item |-> x]
BY DEF DialogueOf, Abstract!NoDialogue

\* The handler does nothing to the dialogues of other subscribers.
LEMMA OthersDialogues ==
    ASSUME NEW i, Server = i, OwnStep(i), NEW n \in Msisdns \ {Msisdn(i)}
    PROVE  Dialogue(n)' = Dialogue(n)
<1>1. Dialogue(n) = IF store[n] = NoSession THEN Abstract!NoDialogue
                    ELSE DialogueOf(store[n], store[n]["current_item_id"])
  BY DialogueFacts
<1>2. pc'[i] = "idle" \/ req'[i].msisdn # n
  BY DEF OwnStep, Msisdn
<1>3. Dialogue(n)' = IF store'[n] = NoSession THEN Abstract!NoDialogue
                     ELSE DialogueOf(store'[n], store'[n]["current_item_id"])
  BY <1>2, DialogueFactsNext
<1>4. store'[n] = store[n]
  BY DEF OwnStep
<1> QED
  BY <1>1, <1>3, <1>4

\* What was answered to a request, by what was replied.
LEMMA ToldFacts ==
    ASSUME NEW s, NEW t,
           t = [k \in DOMAIN s |-> [type |-> s[k].type, item |-> s[k].item]]
    PROVE  /\ s = <<>> => t = <<>>
           /\ \A r : s = <<r>> => t = <<[type |-> r.type, item |-> r.item]>>
<1>1. ASSUME s = <<>>
      PROVE  t = <<>>
  BY <1>1
<1>2. ASSUME NEW r, s = <<r>>
      PROVE  t = <<[type |-> r.type, item |-> r.item]>>
  BY <1>2
<1> QED
  BY <1>1, <1>2

\* Answers of one reply at most, put together.
LEMMA AppendNothing ==
    /\ <<>> \o <<>> = <<>> /\ <<>> \o ERR = ERR
    /\ \A x : <<x>> \o <<>> = <<x>> /\ <<>> \o <<x>> = <<x>>
BY DEF ERR

\* The handler of request q has an error to reply.
Failing(i, q) == pc[i] \in {"fail", "reply_error"} /\ req[i].id = q

\* The answers to a request that has had one reply at most.
LEMMA AnswersFacts ==
    ASSUME NEW i, Server = i, NEW q
    PROVE  /\ replies[q] = <<>> /\ Failing(i, q) => AnswersTo(q) = ERR
           /\ replies[q] = <<>> /\ ~Failing(i, q) => AnswersTo(q) = <<>>
           /\ \A r : replies[q] = <<r>> /\ ~Failing(i, q) =>
                 AnswersTo(q) = <<[type |-> r.type, item |-> r.item]>>
<1> DEFINE told == [k \in DOMAIN replies[q] |->
                      [type |-> replies[q][k].type, item |-> replies[q][k].item]]
<1>1. AnswersTo(q) = told \o (IF Failing(i, q) THEN ERR ELSE <<>>)
  BY DEF AnswersTo, Failing, ERR
<1>2. /\ replies[q] = <<>> => told = <<>>
      /\ \A r : replies[q] = <<r>> => told = <<[type |-> r.type, item |-> r.item]>>
  BY ToldFacts
<1> HIDE DEF told
<1> QED
  BY <1>1, <1>2, AppendNothing

\* The same of the next state.
LEMMA AnswersFactsNext ==
    ASSUME NEW i, Server = i, NEW q
    PROVE  /\ replies'[q] = <<>> /\ Failing(i, q)' => AnswersTo(q)' = ERR
           /\ replies'[q] = <<>> /\ ~Failing(i, q)' => AnswersTo(q)' = <<>>
           /\ \A r : replies'[q] = <<r>> /\ ~Failing(i, q)' =>
                 AnswersTo(q)' = <<[type |-> r.type, item |-> r.item]>>
<1> DEFINE told == [k \in DOMAIN replies'[q] |->
                      [type |-> replies'[q][k].type, item |-> replies'[q][k].item]]
<1>1. AnswersTo(q)' = told \o (IF Failing(i, q)' THEN ERR ELSE <<>>)
  BY DEF AnswersTo, Failing, ERR
<1>2. /\ replies'[q] = <<>> => told = <<>>
      /\ \A r : replies'[q] = <<r>> => told = <<[type |-> r.type, item |-> r.item]>>
  BY ToldFacts
<1> HIDE DEF told
<1> QED
  BY <1>1, <1>2, AppendNothing

\* A request whose replies are as they were, of which the handler has not learnt.
LEMMA SameAnswers ==
    ASSUME NEW i, Server = i, NEW q, replies'[q] = replies[q], Failing(i, q)' <=> Failing(i, q)
    PROVE  AnswersTo(q)' = AnswersTo(q)
BY DEF AnswersTo, Failing

Settled == {"idle", "sync", "put", "end", "fail", "reply_error"}

\* The handler's request is served when its outcome is settled, not sooner.
LEMMA OwnUnserved ==
    ASSUME TInv, NEW i \in Instances, Server = i, OrderOK(i), OwnStep(i)
    PROVE  /\ pc[i] \in Settled /\ pc'[i] \in Settled => Unserved' = Unserved
           /\ pc[i] \notin Settled /\ pc'[i] \notin Settled => Unserved' = Unserved
           /\ pc[i] \notin Settled /\ pc'[i] \in Settled =>
                 req[i] \in Unserved /\ Unserved' = Unserved \ {req[i]}
<1>1. /\ Undecided <=> pc[i] \notin Settled
      /\ Undecided' <=> pc'[i] \notin Settled
      /\ inbox' = inbox
  BY DEF Undecided, Settled, OwnStep
<1> DEFINE mail == {inbox[i][k] : k \in DOMAIN inbox[i]}
<1>2. /\ Unserved = mail \cup (IF Undecided THEN {req[i]} ELSE {})
      /\ Unserved' = mail \cup (IF Undecided' THEN {req'[i]} ELSE {})
  BY <1>1 DEF Unserved
<1>3. pc'[i] \notin Settled => req'[i] = req[i]
  BY DEF OwnStep, Settled
<1>4. req[i] \notin mail
  <2>1. \A k \in DOMAIN inbox[i] : req[i].id < inbox[i][k].id
    BY DEF OrderOK, OwnStep
  <2>2. req[i].id \in Nat
    BY ActiveRequest DEF TInv, OwnStep, Active, Ids
  <2> QED
    BY <2>1, <2>2
<1> HIDE DEF mail
<1> QED
  BY <1>1, <1>2, <1>3, <1>4

\* The handler comes to the end of what it can do for its request.
LEMMA Decides ==
    ASSUME TInv, RInv, NEW i \in Instances, Server = i, OrderOK(i), OwnStep(i),
           pc[i] \notin Settled, pc'[i] \in Settled, NEW r, r = req[i], NEW answer,
           \/ \E type, item : /\ Answers(i, type, item)
                              /\ answer = <<[type |-> type, item |-> item]>>
           \/ UNCHANGED replies /\ pc'[i] \in {"fail", "reply_error"} /\ answer = ERR
           \/ UNCHANGED replies /\ pc'[i] \notin {"fail", "reply_error"} /\ answer = <<>>
    PROVE  Serves(r, answer)
<1>1. /\ r \in Unserved /\ Unserved' = Unserved \ {r}
      /\ \A s \in Unserved : r.id <= s.id
  BY OwnUnserved, UnservedFacts DEF Undecided, Settled
<1>2. nreq' = nreq /\ (pc'[i] # "idle" => req'[i] = r)
  BY DEF OwnStep
<1>3. replies[r.id] = <<>>
  BY DEF RInv, Unanswered, Settled
<1>4. AnswersTo(r.id) = <<>>
  BY <1>3, AnswersFacts DEF Settled, Failing
<1>5. AnswersTo(r.id)' = answer /\ <<>> \o answer = answer
  <2>1. ASSUME NEW type, NEW item, Answers(i, type, item),
               answer = <<[type |-> type, item |-> item]>>
        PROVE  AnswersTo(r.id)' = answer
    <3>1. PICK a : a = [type |-> type, item |-> item, msisdn |-> Msisdn(i)]
      OBVIOUS
    <3>2. replies'[r.id] = Append(<<>>, a)
      BY <1>3, <2>1, <3>1, RespondFacts
    <3>3. replies'[r.id] = <<a>>
      BY <3>2
    <3>4. ~Failing(i, r.id)'
      BY <2>1 DEF Answers, Failing
    <3>5. AnswersTo(r.id)' = <<[type |-> a.type, item |-> a.item]>>
      BY <3>3, <3>4, AnswersFactsNext
    <3> QED
      BY <2>1, <3>1, <3>5
  <2>2. ASSUME UNCHANGED replies, pc'[i] \in {"fail", "reply_error"}
        PROVE  AnswersTo(r.id)' = ERR
    <3>1. Failing(i, r.id)' /\ replies'[r.id] = <<>>
      BY <1>2, <1>3, <2>2 DEF Failing
    <3> QED
      BY <3>1, AnswersFactsNext
  <2>3. ASSUME UNCHANGED replies, pc'[i] \notin {"fail", "reply_error"}
        PROVE  AnswersTo(r.id)' = <<>>
    <3>1. ~Failing(i, r.id)' /\ replies'[r.id] = <<>>
      BY <1>3, <2>3 DEF Failing
    <3> QED
      BY <3>1, AnswersFactsNext
  <2> QED
    BY <2>1, <2>2, <2>3, AppendNothing
<1>6. ASSUME NEW q \in Ids \ {r.id}
      PROVE  AnswersTo(q)' = AnswersTo(q)
  <2>1. replies'[q] = replies[q]
    BY <1>6, RespondFacts
  <2>2. ~Failing(i, q) /\ ~Failing(i, q)'
    BY <1>2, <1>6 DEF Failing
  <2> QED
    BY <2>1, <2>2, SameAnswers
<1>7. \A n \in Msisdns \ {r.msisdn} : Dialogue(n)' = Dialogue(n)
  BY OthersDialogues DEF Msisdn
<1> QED
  BY <1>1, <1>2, <1>4, <1>5, <1>6, <1>7 DEF Serves

\* The handler goes on with its request, or has dealt with it before.
LEMMA GoesOnUnseen ==
    ASSUME TInv, NEW i \in Instances, Server = i, OrderOK(i), OwnStep(i), UNCHANGED replies,
           \/ pc[i] \notin Settled /\ pc'[i] \notin Settled
           \/ pc[i] \in {"put", "end"} /\ pc'[i] = "idle"
           \/ pc[i] = "sync" /\ pc'[i] = "put"
           \/ pc[i] = "fail" /\ pc'[i] = "reply_error",
           NEW m, m = Msisdn(i), Dialogue(m)' = Dialogue(m)
    PROVE  UNCHANGED Abstract!vars
<1>1. Unserved' = Unserved /\ nreq' = nreq
  BY OwnUnserved DEF Settled, OwnStep
<1>2. pc'[i] # "idle" => req'[i] = req[i]
  BY DEF OwnStep
<1>3. ASSUME NEW q \in Ids
      PROVE  AnswersTo(q)' = AnswersTo(q)
  <2>1. Failing(i, q)' <=> Failing(i, q)
    BY <1>2 DEF Failing, Settled
  <2> QED
    BY <2>1, SameAnswers
<1>4. \A n \in Msisdns : Dialogue(n)' = Dialogue(n)
  BY OthersDialogues
<1> QED
  BY <1>1, <1>3, <1>4, Unseen

--------------------------------------------------------------------------------
(***************************************************************************)
(* The steps of the handler, as steps of the dialogue or unseen.           *)
(***************************************************************************)

\* No item is Nil.
LEMMA ItemsNotNil ==
    ASSUME NEW x \in Items
    PROVE  x # Nil
BY FlowAssumption, NilAssumption

\* The dialogue that the session server has, when the handler has yet to change it.
LEMMA OldDialogue ==
    ASSUME NEW i, Server = i, pc[i] \notin {"sync", "end", "fail"}, NEW m, NEW x \in Items,
           store[m] # NoSession, store[m]["current_item_id"] = x
    PROVE  Dialogue(m) = [code |-> store[m]["init_request"], item |-> x]
BY DialogueFacts, DialogueOfFacts, ItemsNotNil

\* How the execution of the items ends is an outcome of the request.
LEMMA ProceedEnds ==
    ASSUME TInv, RInv, NEW i \in Instances, Server = i, OrderOK(i), WorkOK(i), TaskOK(i),
           OwnStep(i), pc[i] = "proceed", pc'[i] \in {"sync", "end", "fail"},
           NEW r, r = req[i], NEW code, code = sess[i].data["init_request"],
           NEW o \in Abstract!EndsAt(todo[i], code), NEW answer, answer = o.answer,
           \/ \E type, item : /\ Answers(i, type, item)
                              /\ answer = <<[type |-> type, item |-> item]>>
           \/ UNCHANGED replies /\ pc'[i] = "fail" /\ answer = ERR
           \/ UNCHANGED replies /\ pc'[i] = "sync" /\ answer = <<>>,
           Becomes(r.msisdn, code, o.waits)
    PROVE  Abstract!Next
<1>1. Serves(r, answer)
  BY Decides DEF Settled
<1>2. /\ r.msisdn \in Msisdns /\ todo[i] \in Seq(Items) /\ store[r.msisdn] # NoSession
      /\ o \in Abstract!Outcomes(todo[i], code)
  BY ActiveRequest, OutcomesFacts DEF TInv, HandlersOK, Msisdn, WorkOK
<1>3. r.text # Nil /\ r.type \in {"START", "CONTINUE"}
  BY DEF TaskOK
<1>4. Said(r).type = r.type /\ Said(r).text = r.text
  BY DEF Said
<1>5. CASE r.type = "START"
  <2>1. LeadsTo(todo[i], <<InitItem>>, code) /\ code = r.text
    BY <1>5 DEF TaskOK
  <2>2. Abstract!Proceed(r.msisdn, Said(r), <<InitItem>>, code)
    BY <1>1, <1>2, <2>1, ProceedServes DEF LeadsTo
  <2>3. Abstract!Start(r.msisdn, Said(r))
    BY <1>3, <1>4, <1>5, <2>1, <2>2 DEF Abstract!Start, Abstract!Is
  <2> QED
    BY <1>1, <2>3, ServedWays
<1>6. CASE r.type = "CONTINUE"
  <2>1. PICK x : x = store[r.msisdn]["current_item_id"]
    OBVIOUS
  <2>2. /\ x \in ItemUsrPrompt /\ code = store[r.msisdn]["init_request"]
        /\ ~Refuses(x, r.text) /\ LeadsTo(todo[i], ProcessNext(x, r.text), code)
    BY <1>6, <2>1 DEF TaskOK
  <2>3. Dialogue(r.msisdn) = [code |-> code, item |-> x]
    BY <1>2, <2>1, <2>2, OldDialogue DEF ItemUsrPrompt, OfKind
  <2>4. Abstract!Proceed(r.msisdn, Said(r), ProcessNext(x, r.text), code)
    BY <1>1, <1>2, <2>2, ProceedServes DEF LeadsTo
  <2>5. Abstract!Input(r.msisdn, Said(r))
    BY <1>2, <1>3, <1>4, <1>6, <2>2, <2>3, <2>4, SameFlow
       DEF Abstract!Input, Abstract!Is, Abstract!Expected
  <2> QED
    BY <1>1, <2>5, ServedWays
<1> QED
  BY <1>3, <1>5, <1>6

\* The execution of the items fails: the session is over before it is deleted.
LEMMA ProceedFails ==
    ASSUME TInv, RInv, NEW i \in Instances, Server = i, OrderOK(i), WorkOK(i), TaskOK(i),
           OwnStep(i), pc[i] = "proceed", pc'[i] = "fail", UNCHANGED replies,
           \A code : code = sess[i].data["init_request"] =>
              Abstract!Fails \in Abstract!EndsAt(todo[i], code)
    PROVE  Abstract!Next
<1>1. PICK r : r = req[i]
  OBVIOUS
<1>2. PICK code : code = sess[i].data["init_request"]
  OBVIOUS
<1>3. Abstract!Fails.answer = ERR /\ Abstract!Fails.waits = Nil
  BY DEF Abstract!Fails, ERR
<1>4. Dialogue(r.msisdn)' = Abstract!NoDialogue
  BY <1>1, DialogueFactsNext DEF OwnStep
<1>5. Becomes(r.msisdn, code, Nil)
  BY <1>4 DEF Becomes
<1> QED
  BY <1>1, <1>2, <1>3, <1>5, ProceedEnds

\* A screen that is shown is the dialogue's step, and it is the step's outcome.
LEMMA ProceedUserNext ==
    ASSUME TInv, RInv, NEW i \in Instances, Server = i, OrderOK(i), WorkOK(i), TaskOK(i),
           OwnStep(i), ProceedUser(i)
    PROVE  Abstract!Next
<1>1. HandlersOK
  BY DEF TInv
<1>2. PICK r : r = req[i]
  OBVIOUS
<1>3. PICK code : code = sess[i].data["init_request"]
  OBVIOUS
<1>4. PICK x : x = Head(todo[i])
  OBVIOUS
<1>5. /\ pc[i] = "proceed" /\ todo[i] # <<>> /\ x \in Items /\ x # Nil
      /\ UNCHANGED <<req, sess, todo>>
      /\ Get(sess[i], "responder_key") = req[i].id
  BY <1>1, <1>4, AtFacts, ItemsNotNil DEF ProceedUser
<1>6. CASE At(i, {"menu", "prompt"})
  <2>1. pc'[i] = "sync" /\ Answers(i, "RESPONSE", x) /\ Kind[x] \in {"menu", "prompt"}
    BY <1>1, <1>4, <1>5, <1>6 DEF ProceedUser, At, Answers, Goto, HandlersOK
  <2>2. PICK o : o = Abstract!Prompts(x)
    OBVIOUS
  <2>3. /\ o \in Abstract!EndsAt(todo[i], code) /\ o.waits = x
        /\ o.answer = <<[type |-> "RESPONSE", item |-> x]>>
    BY <1>4, <1>5, <2>1, <2>2 DEF Abstract!EndsAt, Abstract!Prompts
  <2>4. Dialogue(r.msisdn)' = [code |-> code, item |-> x]
    BY <1>2, <1>3, <1>4, <1>5, <2>1, DialogueFactsNext, DialogueOfFacts
  <2>5. Becomes(r.msisdn, code, o.waits)
    BY <1>5, <2>3, <2>4 DEF Becomes
  <2> QED
    BY <1>2, <1>3, <1>5, <2>1, <2>3, <2>5, ProceedEnds
<1>7. CASE At(i, {"final"})
  <2>1. pc'[i] = "end" /\ Answers(i, "RELEASE", x) /\ Kind[x] = "final"
    BY <1>1, <1>4, <1>5, <1>7 DEF ProceedUser, At, Answers, Goto, HandlersOK
  <2>2. PICK o : o = Abstract!Releases(x)
    OBVIOUS
  <2>3. /\ o \in Abstract!EndsAt(todo[i], code) /\ o.waits = Nil
        /\ o.answer = <<[type |-> "RELEASE", item |-> x]>>
    BY <1>4, <1>5, <2>1, <2>2 DEF Abstract!EndsAt, Abstract!Releases
  <2>4. Dialogue(r.msisdn)' = Abstract!NoDialogue
    BY <1>2, <1>5, <2>1, DialogueFactsNext
  <2>5. Becomes(r.msisdn, code, o.waits)
    BY <2>3, <2>4 DEF Becomes
  <2> QED
    BY <1>2, <1>3, <1>5, <2>1, <2>3, <2>5, ProceedEnds
<1> QED
  BY <1>6, <1>7 DEF ProceedUser

\* An item that waits is the dialogue's step, whether its request fails or not.
LEMMA ProceedWaitNext ==
    ASSUME TInv, RInv, NEW i \in Instances, Server = i, OrderOK(i), WorkOK(i), TaskOK(i),
           OwnStep(i), ProceedWait(i)
    PROVE  Abstract!Next
<1>1. HandlersOK
  BY DEF TInv
<1>2. PICK r : r = req[i]
  OBVIOUS
<1>3. PICK code : code = sess[i].data["init_request"]
  OBVIOUS
<1>4. PICK x : x = Head(todo[i])
  OBVIOUS
<1>5. /\ pc[i] = "proceed" /\ todo[i] # <<>> /\ x \in Items /\ x # Nil /\ Kind[x] = "wait"
      /\ UNCHANGED <<req, sess, todo, replies>> /\ pc'[i] \in {"sync", "fail"}
  BY <1>1, <1>4, AtFacts, ItemsNotNil DEF ProceedWait, Goto, HandlersOK
<1>6. \A c : Abstract!EndsAt(todo[i], c) = {Abstract!Waits(x), Abstract!Fails}
  BY <1>4, <1>5 DEF Abstract!EndsAt
<1>7. CASE pc'[i] = "sync"
  <2>1. PICK o : o = Abstract!Waits(x)
    OBVIOUS
  <2>2. o \in Abstract!EndsAt(todo[i], code) /\ o.waits = x /\ o.answer = <<>>
    BY <1>6, <2>1 DEF Abstract!Waits
  <2>3. Dialogue(r.msisdn)' = [code |-> code, item |-> x]
    BY <1>2, <1>3, <1>4, <1>5, <1>7, DialogueFactsNext, DialogueOfFacts
  <2>4. Becomes(r.msisdn, code, o.waits)
    BY <1>5, <2>2, <2>3 DEF Becomes
  <2> QED
    BY <1>2, <1>3, <1>5, <1>7, <2>2, <2>4, ProceedEnds
<1>8. CASE pc'[i] = "fail"
  BY <1>5, <1>6, <1>8, ProceedFails
<1> QED
  BY <1>5, <1>7, <1>8

\* The handler goes on from one step that the dialogue does not show to the next.
LEMMA WorksUnseen ==
    ASSUME TInv, NEW i \in Instances, Server = i, OrderOK(i), OwnStep(i),
           pc[i] \notin Settled, pc'[i] \notin Settled, UNCHANGED <<store, replies>>
    PROVE  UNCHANGED Abstract!vars
<1>1. PICK m : m = Msisdn(i)
  OBVIOUS
<1>2. Dialogue(m)' = Dialogue(m)
  BY DialogueFacts, DialogueFactsNext DEF Settled
<1> QED
  BY <1>1, <1>2, GoesOnUnseen

\* An item without a screen is unseen, unless it fails, which is the dialogue's step.
LEMMA ProceedOnNext ==
    ASSUME TInv, RInv, NEW i \in Instances, Server = i, OrderOK(i), WorkOK(i), TaskOK(i),
           OwnStep(i), ProceedRouter(i) \/ ProceedSet(i) \/ ProceedFunc(i) \/ ProceedLost(i)
    PROVE  Abstract!Next \/ UNCHANGED Abstract!vars
<1>1. /\ HandlersOK /\ pc[i] = "proceed" /\ pc'[i] \in {"proceed", "fail"}
      /\ UNCHANGED <<store, replies>>
  BY DEF TInv, HandlersOK, ProceedRouter, ProceedSet, ProceedFunc, ProceedLost, At, Goto
<1>2. CASE pc'[i] = "proceed"
  BY <1>1, <1>2, WorksUnseen DEF Settled
<1>3. CASE pc'[i] = "fail"
  <2> SUFFICES ASSUME NEW code, code = sess[i].data["init_request"]
               PROVE  Abstract!Fails \in Abstract!EndsAt(todo[i], code)
    BY <1>1, <1>3, ProceedFails
  <2>1. CASE ProceedRouter(i)
    <3>1. /\ todo[i] # <<>> /\ Kind[Head(todo[i])] = "router"
          /\ RouterExec(Head(todo[i]), code) = {}
      BY <1>1, <1>3, <2>1 DEF ProceedRouter, At, Get
    <3> QED
      BY <3>1, SameFlow DEF Abstract!EndsAt
  <2>2. CASE ProceedFunc(i)
    <3>1. /\ todo[i] # <<>> /\ Kind[Head(todo[i])] = "func"
          /\ Failed \in FuncEffects[Head(todo[i])]
      BY <1>1, <1>3, <2>2 DEF ProceedFunc, At
    <3> QED
      BY <3>1 DEF Abstract!EndsAt
  <2>3. CASE ProceedLost(i)
    <3>1. todo[i] = <<>> \/ Kind[Head(todo[i])] = "none"
      BY <2>3 DEF ProceedLost, At
    <3> QED
      BY <3>1 DEF Abstract!EndsAt
  <2>4. CASE ProceedSet(i)
    BY <1>1, <1>3, <2>4 DEF ProceedSet
  <2> QED
    BY <2>1, <2>2, <2>3, <2>4
<1> QED
  BY <1>1, <1>2, <1>3

\* A START leaves the dialogue that there was.
LEMMA StartNewNext ==
    ASSUME NEW i \in Instances, Alone(i), Server = i, TInv, RInv, OrderOK(i), TaskOK(i),
           OwnStep(i), StartNew(i)
    PROVE  Abstract!Next
<1>1. HandlersOK /\ StoreOK /\ pc[i] = "new" /\ \A kind : ~Fault(kind)
  BY NoFaults DEF TInv, StartNew
<1>2. PICK r : r = req[i]
  OBVIOUS
<1>3. /\ r \in Request /\ r.msisdn \in Msisdns /\ r.msisdn = Msisdn(i)
      /\ UssdData(r) \in Data /\ UssdData(r) # NoSession
      /\ UssdData(r)["current_item_id"] = Nil
  BY <1>1, <1>2, ActiveRequest, UssdDataFacts, ReservedNames, ServiceAssumption DEF Msisdn
<1>4. /\ store'[r.msisdn] = UssdData(r) /\ pc'[i] = "init" /\ UNCHANGED replies
  BY <1>1, <1>2, <1>3 DEF StartNew, SessionsNew, SessionsNewFails, handleNewSession, Store, Goto,
     HandlersOK, StoreOK
<1>5. Dialogue(r.msisdn)' = Abstract!NoDialogue
  BY <1>3, <1>4, DialogueFactsNext, DialogueOfFacts
<1>6. \A n \in Msisdns \ {r.msisdn} : Dialogue(n)' = Dialogue(n)
  BY <1>3, OthersDialogues
<1>7. [m \in Msisdns |-> Dialogue(m)]' =
         [[m \in Msisdns |-> Dialogue(m)] EXCEPT ![r.msisdn] = Abstract!NoDialogue]
  BY <1>3, <1>5, <1>6
<1>8. /\ r \in Unserved /\ \A s \in Unserved : r.id <= s.id
      /\ Unserved' = Unserved /\ nreq' = nreq
  BY <1>1, <1>2, <1>4, OwnUnserved, UnservedFacts DEF Undecided, Settled, OwnStep
<1>9. ASSUME NEW q \in Ids
      PROVE  AnswersTo(q)' = AnswersTo(q)
  BY <1>1, <1>4, SameAnswers DEF Failing
<1>10. /\ UNCHANGED <<[q \in Ids |-> AnswersTo(q)], [m \in Msisdns |-> AskedBy(m)]>>
  BY <1>8, <1>9 DEF AskedBy
<1>11. Abstract!Oldest(r.msisdn, Said(r)) /\ Said(r) \in AskedBy(r.msisdn)
  BY <1>8, AskedFacts
<1>12. Abstract!Is(Said(r), "START")
  BY <1>1, <1>2 DEF TaskOK, Said, Abstract!Is
<1>13. Abstract!Leave(r.msisdn, Said(r))
  BY <1>7, <1>8, <1>10, <1>11, <1>12 DEF Abstract!Leave
<1> QED
  BY <1>3, <1>11, <1>13 DEF Abstract!Next

\* A code that no router knows is an error.
LEMMA StartInitNext ==
    ASSUME TInv, RInv, NEW i \in Instances, Server = i, OrderOK(i), WorkOK(i), TaskOK(i),
           OwnStep(i), StartInit(i)
    PROVE  Abstract!Next \/ UNCHANGED Abstract!vars
<1>1. /\ HandlersOK /\ pc[i] = "init" /\ UNCHANGED <<store, replies>>
      /\ \/ pc'[i] = "proceed"
         \/ /\ pc'[i] = "reply_error"
            /\ RouterExec(InitItem, sess[i].data["init_request"]) = {}
  BY DEF TInv, HandlersOK, StartInit, Fail, BeginProceed, Goto, Get
<1>2. CASE pc'[i] = "proceed"
  BY <1>1, <1>2, WorksUnseen DEF Settled
<1>3. CASE pc'[i] = "reply_error"
  <2>1. PICK r : r = req[i]
    OBVIOUS
  <2>2. /\ r.msisdn \in Msisdns /\ store[r.msisdn] # NoSession
        /\ store[r.msisdn]["current_item_id"] = Nil
        /\ r.type = "START" /\ r.text # Nil /\ RouterExec(InitItem, r.text) = {}
    BY <1>1, <1>3, <2>1, ActiveRequest DEF WorkOK, TaskOK, Msisdn
  <2>3. PICK o : o = Abstract!Fails
    OBVIOUS
  <2>4. o.answer = ERR /\ o.waits = Nil
    BY <2>3 DEF Abstract!Fails, ERR
  <2>5. Serves(r, o.answer)
    BY <1>1, <1>3, <2>1, <2>4, Decides DEF Settled
  <2>6. o \in Abstract!EndsAt(<<InitItem>>, r.text)
    <3>1. <<InitItem>> # <<>> /\ Head(<<InitItem>>) = InitItem /\ Kind[InitItem] = "router"
      BY FlowAssumption DEF OfKind
    <3> QED
      BY <2>2, <2>3, <3>1, SameFlow DEF Abstract!EndsAt
  <2>7. o \in Abstract!Outcomes(<<InitItem>>, r.text)
    <3>1. <<InitItem>> \in Seq(Items)
      BY FlowAssumption DEF OfKind
    <3> QED
      BY <2>6, <3>1, OutcomesFacts
  <2>8. Dialogue(r.msisdn)' = Abstract!NoDialogue
    BY <1>1, <1>3, <2>2, DialogueFactsNext, DialogueOfFacts
  <2>9. Becomes(r.msisdn, r.text, o.waits)
    BY <2>4, <2>8 DEF Becomes
  <2>10. Abstract!Start(r.msisdn, Said(r))
    BY <2>2, <2>5, <2>7, <2>9, ProceedServes DEF Abstract!Start, Abstract!Is, Said
  <2> QED
    BY <2>5, <2>10, ServedWays
<1> QED
  BY <1>1, <1>2, <1>3

\* A refused input is answered with the prompt that it was for.
LEMMA InputRefusedNext ==
    ASSUME TInv, RInv, NEW i \in Instances, Server = i, OrderOK(i), WorkOK(i), TaskOK(i),
           OwnStep(i), InputRefused(i)
    PROVE  Abstract!Next
<1>1. HandlersOK /\ pc[i] = "process" /\ store' = store /\ pc'[i] = "idle"
  BY DEF TInv, HandlersOK, InputRefused, Finish, Drop, Goto
<1>2. PICK r : r = req[i]
  OBVIOUS
<1>3. PICK x : x = CurrentItem(i)
  OBVIOUS
<1>4. /\ x \in ItemUsrPrompt /\ x \in Items /\ Refuses(x, r.text)
      /\ store[r.msisdn] # NoSession /\ store[r.msisdn]["current_item_id"] = x
      /\ r.type = "CONTINUE" /\ r.text # Nil
  BY <1>1, <1>2, <1>3 DEF InputRefused, WorkOK, TaskOK, ItemUsrPrompt, OfKind
<1>5. Answers(i, "RESPONSE", x)
  BY <1>1, <1>3, <1>4 DEF InputRefused, Answers
<1>6. PICK answer : answer = <<[type |-> "RESPONSE", item |-> x]>>
  OBVIOUS
<1>7. Serves(r, answer) /\ r.msisdn \in Msisdns
  BY <1>1, <1>2, <1>5, <1>6, Decides, ActiveRequest DEF Settled, Msisdn
<1>8. Dialogue(r.msisdn) = [code |-> store[r.msisdn]["init_request"], item |-> x]
  BY <1>1, <1>4, OldDialogue
<1>9. Dialogue(r.msisdn)' = Dialogue(r.msisdn)
  BY <1>1, DialogueFacts, DialogueFactsNext
<1>10. UNCHANGED [m \in Msisdns |-> Dialogue(m)]
  BY <1>7, <1>9 DEF Serves
<1>11. Abstract!Prompts(x).answer = answer
  BY <1>6 DEF Abstract!Prompts
<1>12. Abstract!Reply(Said(r), answer)
  BY <1>7, ServesFacts
<1>13. Abstract!Refuse(r.msisdn, Said(r))
  BY <1>4, <1>7, <1>8, <1>10, <1>11, <1>12, SameFlow
     DEF Abstract!Refuse, Abstract!Is, Abstract!Expected, Said
<1> QED
  BY <1>7, <1>13, ServedWays

\* The session is stored or deleted as the dialogue has it already, or is at last.
LEMMA CallNext ==
    ASSUME NEW i \in Instances, Alone(i), Server = i, TInv, RInv, OrderOK(i), WorkOK(i), TaskOK(i),
           OwnStep(i),
           \/ SyncSession(i) \/ SyncReturns(i) \/ EndSession(i) \/ FailSession(i)
           \/ UserAbort(i)
    PROVE  Abstract!Next \/ UNCHANGED Abstract!vars
<1>1. HandlersOK /\ StoreOK /\ UNCHANGED replies /\ \A kind : ~Fault(kind)
  BY NoFaults DEF TInv, SyncSession, SyncReturns, EndSession, FailSession, UserAbort
<1>2. PICK m : m = Msisdn(i)
  OBVIOUS
<1>3. m \in Msisdns /\ Msisdn(i) \in Msisdns
  BY <1>1, <1>2, ActiveRequest DEF OwnStep, Active
<1>4. CASE SyncSession(i)
  <2>1. /\ pc[i] = "sync" /\ pc'[i] = "put"
        /\ UpdFinds(i, Set(sess[i], "current_item_id", Head(todo[i])))
    BY <1>1, <1>4 DEF SyncSession, WorkOK, Msisdn, Goto, HandlersOK
  <2>2. PICK e \in Data : Found(i, e)
    BY <1>1, <2>1, UpdFindsFacts
  <2>3. store'[m] = e /\ e # NoSession
    BY <1>1, <1>2, <1>3, <2>2, ServiceAssumption DEF Found, StoreOK
  <2>4. /\ e["current_item_id"] = Head(todo[i])
        /\ e["init_request"] = sess[i].data["init_request"]
    BY <2>1, <2>2 DEF Found, TaskOK
  <2>5. Dialogue(m)' = DialogueOf(e, Head(todo[i]))
    BY <2>1, <2>3, <2>4, DialogueFactsNext
  <2>6. Dialogue(m) = DialogueOf(sess[i].data, Head(todo[i]))
    BY <1>2, <2>1, DialogueFacts
  <2>7. Dialogue(m)' = Dialogue(m)
    BY <2>4, <2>5, <2>6, DialogueOfFacts
  <2> QED
    BY <1>1, <1>2, <2>1, <2>7, GoesOnUnseen
<1>8. CASE SyncReturns(i)
  <2>1. pc[i] = "put" /\ pc'[i] = "idle" /\ store' = store
    BY <1>1, <1>8 DEF SyncReturns, Finish, Goto, HandlersOK
  <2>2. Dialogue(m)' = Dialogue(m)
    BY <2>1, DialogueFacts, DialogueFactsNext
  <2> QED
    BY <1>1, <1>2, <2>1, <2>2, GoesOnUnseen
<1>5. ASSUME EndSession(i) \/ FailSession(i) \/ UserAbort(i)
      PROVE  store'[m] = NoSession /\ (pc'[i] # "fail" => Dialogue(m)' = Abstract!NoDialogue)
  <2>1. store'[m] = NoSession
    BY <1>1, <1>2, <1>3, <1>5
       DEF EndSession, FailSession, UserAbort, SessionsDel, handleDelSession, Store, StoreOK
  <2>2. pc'[i] \in {"idle", "reply_error"}
    BY <1>1, <1>5 DEF EndSession, FailSession, UserAbort, Finish, Drop, Fail, Goto, HandlersOK
  <2> QED
    BY <2>1, <2>2, DialogueFactsNext
<1>6. CASE EndSession(i) \/ FailSession(i)
  <2>1. \/ pc[i] = "end" /\ pc'[i] = "idle"
        \/ pc[i] = "fail" /\ pc'[i] = "reply_error"
    BY <1>1, <1>6 DEF EndSession, FailSession, Finish, Drop, Fail, Goto, HandlersOK
  <2>2. Dialogue(m)' = Dialogue(m)
    BY <1>2, <1>5, <1>6, <2>1, DialogueFacts
  <2> QED
    BY <1>1, <1>2, <2>1, <2>2, GoesOnUnseen
<1>7. CASE UserAbort(i)
  <2>1. pc[i] = "abort" /\ pc'[i] = "idle"
    BY <1>1, <1>7 DEF UserAbort, Finish, Drop, Goto, HandlersOK
  <2>2. PICK r : r = req[i]
    OBVIOUS
  <2>3. Serves(r, <<>>) /\ r.msisdn = m
    BY <1>1, <1>2, <2>1, <2>2, Decides DEF Settled, Msisdn
  <2>4. Dialogue(r.msisdn)' = Abstract!NoDialogue
    BY <1>5, <1>7, <2>1, <2>3
  <2>5. UNCHANGED [q \in Ids |-> AnswersTo(q)]
    <3>1. ASSUME NEW q \in Ids
          PROVE  AnswersTo(q)' = AnswersTo(q)
      BY <1>1, <2>1, SameAnswers DEF Failing
    <3> QED
      BY <3>1
  <2>6. r.type = "ABORT" /\ r.text # Nil
    BY <2>1, <2>2 DEF TaskOK
  <2>7. Abstract!Abort(r.msisdn, Said(r))
    BY <2>3, <2>4, <2>5, <2>6, ServesFacts DEF Abstract!Abort, Abstract!Is, Said
  <2> QED
    BY <2>3, <2>7, ServedWays
<1> QED
  BY <1>4, <1>6, <1>7, <1>8

\* The error that is replied was the answer before.
LEMMA ReplyErrorNext ==
    ASSUME TInv, RInv, NEW i \in Instances, Server = i, OrderOK(i), OwnStep(i), ReplyError(i)
    PROVE  UNCHANGED Abstract!vars
<1>1. HandlersOK /\ pc[i] = "reply_error" /\ pc'[i] = "idle" /\ store' = store
  BY DEF TInv, HandlersOK, ReplyError, Finish, Drop, Goto
<1>2. Answers(i, "ERROR", Nil)
  BY <1>1 DEF ReplyError, Answers
<1>3. Unserved' = Unserved /\ nreq' = nreq
  BY <1>1, OwnUnserved DEF Settled, OwnStep
<1>4. PICK id : id = req[i].id
  OBVIOUS
<1>5. AnswersTo(id) = ERR
  <2>1. replies[id] = <<>> /\ Failing(i, id)
    BY <1>1, <1>4 DEF RInv, Unanswered, Failing
  <2> QED
    BY <2>1, AnswersFacts
<1>6. AnswersTo(id)' = ERR
  <2>1. PICK a : a = [type |-> "ERROR", item |-> Nil, msisdn |-> Msisdn(i)]
    OBVIOUS
  <2>2. replies'[id] = Append(<<>>, a)
    BY <1>1, <1>2, <1>4, <2>1, RespondFacts DEF RInv, Unanswered
  <2>3. replies'[id] = <<a>> /\ ~Failing(i, id)'
    BY <1>1, <2>2 DEF Failing
  <2>4. AnswersTo(id)' = <<[type |-> a.type, item |-> a.item]>>
    BY <2>3, AnswersFactsNext
  <2> QED
    BY <2>1, <2>4 DEF ERR
<1>7. ASSUME NEW q \in Ids, q # id
      PROVE  AnswersTo(q)' = AnswersTo(q)
  <2>1. replies'[q] = replies[q]
    BY <1>2, <1>4, <1>7, RespondFacts
  <2>2. ~Failing(i, q) /\ ~Failing(i, q)'
    BY <1>1, <1>4, <1>7 DEF Failing
  <2> QED
    BY <2>1, <2>2, SameAnswers
<1>8. \A q \in Ids : AnswersTo(q)' = AnswersTo(q)
  BY <1>5, <1>6, <1>7
<1>9. ASSUME NEW n \in Msisdns
      PROVE  Dialogue(n)' = Dialogue(n)
  BY <1>1, DialogueFacts, DialogueFactsNext
<1> QED
  BY <1>3, <1>8, <1>9, Unseen

\* A request without text is rejected as soon as it is taken, any other is not
\* served yet.
LEMMA HandleRequestNext ==
    ASSUME TInv, RInv, NEW i \in Instances, Server = i, OrderOK(i), HandleRequest(i),
           \A k \in DOMAIN inbox[i] : MailOK(inbox[i][k])
    PROVE  Abstract!Next \/ UNCHANGED Abstract!vars
<1>1. PICK r : r = Head(inbox[i])
  OBVIOUS
<1>2. /\ r \in Request /\ pc[i] = "idle" /\ inbox[i] # <<>> /\ inbox[i] \in Seq(Request)
      /\ req'[i] = r /\ pc'[i] = Dispatch(r) /\ pc'[i] \in {"new", "get", "abort", "reply_error"}
      /\ 1 \in DOMAIN inbox[i] /\ inbox[i][1] = r
      /\ inbox'[i] = Tail(inbox[i])
      /\ UNCHANGED <<store, phone, replies, nreq>>
  BY <1>1, TakenFacts DEF HandleRequest, Queued, TInv, RestOK
<1>3. /\ r \in Unserved /\ \A s \in Unserved : r.id <= s.id
      /\ \A p, s \in Unserved : p.id = s.id => p = s
  BY <1>1, <1>2, UnservedFacts
<1> DEFINE mail == {inbox[i][k] : k \in DOMAIN inbox[i]}
           rest == {inbox'[i][k] : k \in DOMAIN inbox'[i]}
<1>4. Unserved = mail /\ Unserved' = rest \cup (IF pc'[i] = "reply_error" THEN {} ELSE {r})
  BY <1>2 DEF Unserved, Undecided
<1>5. rest = mail \ {r}
  <2>1. /\ \A k \in DOMAIN inbox'[i] :
              k \in Nat \ {0} /\ k + 1 \in DOMAIN inbox[i] /\ inbox'[i][k] = inbox[i][k + 1]
        /\ \A k \in DOMAIN inbox[i] : k \in Nat /\ (k > 1 => k - 1 \in DOMAIN inbox'[i])
    BY <1>2, TailFacts
  <2>2. ASSUME NEW k \in DOMAIN inbox'[i]
        PROVE  inbox'[i][k] \in mail \ {r}
    <3>1. k + 1 \in DOMAIN inbox[i] /\ 1 < k + 1 /\ inbox'[i][k] = inbox[i][k + 1]
      BY <2>1
    <3>2. inbox[i][1].id < inbox[i][k + 1].id
      BY <1>2, <3>1 DEF OrderOK
    <3>3. r.id \in Nat
      BY <1>2 DEF Request, Ids
    <3>4. inbox[i][k + 1] # r
      BY <1>2, <3>2, <3>3
    <3> QED
      BY <3>1, <3>4
  <2>3. ASSUME NEW k \in DOMAIN inbox[i], inbox[i][k] # r
        PROVE  inbox[i][k] \in rest
    <3>1. k > 1
      BY <1>2, <2>1, <2>3
    <3>2. k - 1 \in DOMAIN inbox'[i] /\ (k - 1) + 1 = k
      BY <2>1, <3>1
    <3> QED
      BY <2>1, <3>2
  <2> QED
    BY <2>2, <2>3
<1> HIDE DEF mail, rest
<1>6. ASSUME NEW n
      PROVE  Dialogue(n)' = Dialogue(n)
  BY <1>2, DialogueFacts, DialogueFactsNext
<1>7. ASSUME NEW q \in Ids, pc'[i] # "reply_error" \/ q # r.id
      PROVE  AnswersTo(q)' = AnswersTo(q)
  BY <1>2, <1>7, SameAnswers DEF Failing
<1>8. CASE pc'[i] = "reply_error"
  <2>1. Unserved' = Unserved \ {r}
    BY <1>4, <1>5, <1>8
  <2>2. replies[r.id] = <<>>
    BY <1>2 DEF RInv, Unanswered
  <2>3. AnswersTo(r.id) = <<>> /\ AnswersTo(r.id)' = ERR
    BY <1>2, <1>8, <2>2, AnswersFacts, AnswersFactsNext DEF Failing
  <2>4. Serves(r, ERR)
    BY <1>2, <1>3, <1>6, <1>7, <2>1, <2>3, AppendNothing DEF Serves
  <2>5. r.text = Nil
    <3>1. MailOK(r) /\ r.type \in {"START", "CONTINUE", "ABORT", "unknown"}
      BY <1>2 DEF Request
    <3> QED
      BY <1>2, <1>8, <3>1 DEF Dispatch, MailOK
  <2>6. Abstract!Reply(Said(r), ERR)
    BY <2>4, ServesFacts
  <2>7. UNCHANGED [m \in Msisdns |-> Dialogue(m)]
    BY <1>6
  <2>8. Abstract!Reject(r.msisdn, Said(r))
    BY <2>5, <2>6, <2>7 DEF Abstract!Reject, Abstract!Fails, Said, ERR
  <2> QED
    BY <2>4, <2>8, ServedWays
<1>9. CASE pc'[i] # "reply_error"
  <2>1. Unserved' = Unserved
    BY <1>3, <1>4, <1>5, <1>9
  <2> QED
    BY <1>2, <1>6, <1>7, <1>9, <2>1, Unseen
<1> QED
  BY <1>8, <1>9

--------------------------------------------------------------------------------
(***************************************************************************)
(* One instance without faults implements UssdDialogue.                    *)
(***************************************************************************)

\* The subscriber sends a request that the dialogue is to serve.
LEMMA SendsNext ==
    ASSUME NEW i \in Instances, Alone(i), Server = i, TInv, NEW m \in Msisdns, NEW r,
           Sends(i, m, r)
    PROVE  Abstract!Next
<1>1. PICK last \in Nat :
         /\ DOMAIN inbox'[i] = DOMAIN inbox[i] \cup {last}
         /\ last \notin DOMAIN inbox[i] /\ inbox'[i][last] = r
         /\ \A k \in DOMAIN inbox[i] : k <= last /\ inbox'[i][k] = inbox[i][k]
  BY SentFacts
<1>2. UNCHANGED <<store, pc, req, sess, todo, replies>> /\ r.msisdn = m
  BY DEF Sends
<1>3. Unserved' = Unserved \cup {r}
  BY <1>1, <1>2 DEF Unserved, Undecided
<1>4. \A n : AskedBy(n)' = AskedBy(n) \cup (IF n = m THEN {Said(r)} ELSE {})
  <2> SUFFICES ASSUME NEW n
               PROVE  AskedBy(n)' = AskedBy(n) \cup (IF n = m THEN {Said(r)} ELSE {})
    OBVIOUS
  <2>1. /\ AskedBy(n) = {Said(s) : s \in {s \in Unserved : s.msisdn = n}}
        /\ AskedBy(n)' = {Said(s) : s \in {s \in Unserved' : s.msisdn = n}}
    BY DEF AskedBy, Said
  <2>2. ASSUME NEW q
        PROVE  q \in AskedBy(n)' <=> q \in AskedBy(n) \cup (IF n = m THEN {Said(r)} ELSE {})
    BY <1>2, <1>3, <2>1
  <2> QED
    BY <2>1, <2>2
<1>5. [n \in Msisdns |-> AskedBy(n)]' =
         [[n \in Msisdns |-> AskedBy(n)] EXCEPT ![m] = @ \cup {Said(r)}]
  BY <1>4
<1>6. UNCHANGED <<[n \in Msisdns |-> Dialogue(n)], [q \in Ids |-> AnswersTo(q)]>>
  BY <1>2 DEF Dialogue, AnswersTo, Msisdn
<1>7. Said(r) \in [id : {nreq'}, type : {"START"}, text : Codes]
                 \cup [id : {nreq'}, type : {"CONTINUE"}, text : Inputs]
                 \cup [id : {nreq'}, type : {"ABORT"}, text : AbortTexts]
  BY DEF Sends, Said, MailOK
<1>8. Abstract!Ask(m)
  BY <1>5, <1>6, <1>7 DEF Abstract!Ask, Sends
<1> QED
  BY <1>8 DEF Abstract!Next

\* The user's screen is no part of the dialogue.
LEMMA SameDialogue ==
    ASSUME UNCHANGED <<store, inbox, pc, req, sess, todo, replies, nreq>>
    PROVE  UNCHANGED Abstract!vars
<1>1. Unserved' = Unserved
  BY DEF Unserved, Undecided
<1>2. ASSUME NEW q \in Ids
      PROVE  AnswersTo(q)' = AnswersTo(q)
  BY DEF AnswersTo
<1>3. ASSUME NEW m \in Msisdns
      PROVE  Dialogue(m)' = Dialogue(m)
  BY DEF Dialogue, Msisdn
<1> QED
  BY <1>1, <1>2, <1>3, Unseen

\* Each step of the handler is one of the dialogue, or is not seen in it.
LEMMA HandlerNext ==
    ASSUME NEW i, Alone(i), TInv, RInv, SingleInv, DialogueInv, HandlerStep(i)
    PROVE  Abstract!Next \/ UNCHANGED Abstract!vars
<1>1. /\ i \in Instances /\ Server = i
      /\ WorkOK(i) /\ ItemsOK(i) /\ OrderOK(i) /\ TaskOK(i)
      /\ \A k \in DOMAIN inbox[i] : MailOK(inbox[i][k])
  BY AloneServer DEF SingleInv, DialogueInv
<1>2. CASE HandleRequest(i)
  BY <1>1, <1>2, HandleRequestNext
<1>3. CASE ~HandleRequest(i)
  <2>1. OwnStep(i)
    BY <1>3, HandlerForward
  <2>2. CASE InputGet(i) \/ InputNotExpected(i) \/ InputAccepted(i)
    <3>1. Silent(i) /\ pc[i] \in {"get", "process"} /\ store' = store
      BY <1>1, <2>2, InputForward DEF InputGet, InputNotExpected, InputAccepted
    <3>2. ~InputNotExpected(i)
      <4>1. pc[i] = "process" =>
               CurrentItem(i) \in ItemUsrPrompt /\ CurrentItem(i) \in itemByID[i]
        BY <1>1, ActiveRequest DEF WorkOK, ItemsOK, Registered, TInv, Msisdn
      <4> QED
        BY <4>1 DEF InputNotExpected
    <3>3. pc'[i] \in {"process", "proceed"}
      <4>1. pc[i] = "get" => handleGetSession(i) # NoSession
        BY <1>1 DEF WorkOK, handleGetSession, Msisdn
      <4>2. \A kind : ~Fault(kind)
        BY NoFaults
      <4> QED
        BY <1>1, <2>2, <3>2, <4>1, <4>2
           DEF InputGet, InputAccepted, SessionsGetFails, BeginProceed, Goto, TInv, HandlersOK
    <3> QED
      BY <1>1, <2>1, <3>1, <3>3, WorksUnseen DEF Settled, Silent
  <2> QED
    BY <1>1, <1>3, <2>1, <2>2, ReplyErrorNext, StartNewNext, StartInitNext, InputRefusedNext,
       ProceedUserNext, ProceedWaitNext, ProceedOnNext, CallNext DEF HandlerStep
<1> QED
  BY <1>2, <1>3

\* An instance that is alone keeps what UssdDialogue promises.
THEOREM SpecImplementsDialogue ==
    ASSUME NEW the, Alone(the)
    PROVE  Spec => ImplementsDialogue
<1>1. Server = the /\ the \in Instances
  BY AloneServer
<1>2. ASSUME Init
      PROVE  Abstract!Init
  <2>1. pc[the] = "idle" /\ inbox[the] = <<>> /\ nreq = 0
    BY <1>1, <1>2 DEF Init
  <2>2. DOMAIN inbox[the] = {}
    BY <2>1
  <2>3. Unserved = {}
    BY <1>1, <2>1, <2>2 DEF Unserved, Undecided
  <2>4. \A m : AskedBy(m) = {}
    BY <2>3 DEF AskedBy
  <2>5. \A q \in Ids : AnswersTo(q) = <<>>
    <3>1. \A q \in Ids : replies[q] = <<>> /\ ~Failing(the, q)
      BY <1>2, <2>1 DEF Init, Failing
    <3> QED
      BY <1>1, <3>1, AnswersFacts
  <2>6. \A m \in Msisdns : Dialogue(m) = Abstract!NoDialogue
    <3>1. \A m \in Msisdns : store[m] = NoSession
      BY <1>2 DEF Init
    <3> QED
      BY <1>1, <2>1, <3>1, DialogueFacts
  <2> QED
    BY <2>1, <2>4, <2>5, <2>6 DEF Abstract!Init, Ids
<1>3. ASSUME TInv, RInv, PutInv, SingleInv, DialogueInv, [Next]_vars
      PROVE  [Abstract!Next]_Abstract!vars
  <2>1. CASE HandlerStep(the)
    BY <1>3, <2>1, HandlerNext
  <2>2. ASSUME NEW m \in Msisdns, Dial(m) \/ Answer(m) \/ HangUp(m)
        PROVE  Abstract!Next
    BY <1>1, <1>3, <2>2, SendsSteps, SendsNext
  <2>3. ASSUME NEW m \in Msisdns, Display(m)
        PROVE  UNCHANGED Abstract!vars
    BY <2>3, SameDialogue DEF Display, handler
  <2>4. CASE UNCHANGED seen
    BY <2>4, SameDialogue DEF seen, handler, user
  <2> QED
    BY <1>3, <2>1, <2>2, <2>3, <2>4, AloneSteps
<1> QED
  BY <1>2, <1>3, SpecTInv, SpecRInv, SpecPutInv, SpecSingleInv, SpecDialogueInv, PTL
     DEF Spec, ImplementsDialogue, Abstract!Spec

================================================================================
