------------------------------ MODULE UssdService ------------------------------
(***************************************************************************)
(* The USSD service: instances of nats-ussd (nats-ussd/main.go) that serve *)
(* one NATS queue group, run the session engine of ussd/user.go, and keep  *)
(* the sessions in the rest-sessions server (rest-sessions/).              *)
(*                                                                         *)
(* NATS gives each request to one instance, whose subscription runs its    *)
(* callbacks one after the other; instances run concurrently.  A handler   *)
(* is a sequence of steps: one for each HTTP call to the session server,   *)
(* for each item executed and for each reply, so that the handlers of two  *)
(* instances interleave between them.  The session server takes a call in  *)
(* one step, but for a PUT: it keeps what it has looked up, and stores it  *)
(* later, without a lock.                                                  *)
(*                                                                         *)
(* The session id is "nats:" and the msisdn, so a subscriber has at most   *)
(* one session and is named by the msisdn.  A request is named by its      *)
(* reply address, a number.  The phone and the gateway that speak for a    *)
(* subscriber are outside of the repository.                               *)
(***************************************************************************)
EXTENDS UssdItems

CONSTANTS
    Instances,     \* running instances of nats-ussd
    Msisdns,       \* subscribers
    AbortTexts,    \* the text of an ABORT, Nil for none
    MaxRequests,   \* bound: requests sent in a behaviour
    MaxFaults,     \* bound: failed calls, lost requests and crashes
    NoSession,     \* the session server has no such session
    NoRequest      \* the instance is not handling a request

Ids == 1 .. MaxRequests

ASSUME ServiceAssumption ==
    /\ MaxRequests \in Nat /\ MaxFaults \in Nat
    /\ Ids \subseteq Values
    /\ AbortTexts \subseteq Values \cup {Nil}
    /\ NoSession \notin Data

VARIABLES
    store,      \* session server: the data of each subscriber's session
    made,       \* session server: the START whose POST made the data map in store, or 0
    puts,       \* session server: the PUT of each request, from lookup to store
    inbox,      \* requests NATS has given to an instance, oldest first
    pc,         \* where the handler of an instance is
    req,        \* the request an instance is handling
    sess,       \* its local copy of the session
    todo,       \* proceed(): the current item and the next items
    itemByID,   \* the items an instance has registered
    replies,    \* what was handed to NATS for each reply address, in order
    phone,      \* what each subscriber is looking at
    nreq,       \* requests sent so far
    faults      \* the kinds of the faults so far

handler == <<pc, req, sess, todo>>
user == <<phone, nreq>>
updates == <<made, puts>>
vars == <<store, updates, inbox, handler, itemByID, replies, user, faults>>

(***************************************************************************)
(* A request carries the item that was on the user's screen when it was    *)
(* sent ("shown"), and a reply the subscriber whose session it is about,   *)
(* for the properties only: no handler reads them.                         *)
(***************************************************************************)
Request ==
    [id : Ids, type : {"START", "CONTINUE", "ABORT", "unknown"}, msisdn : Msisdns,
     text : Values \cup {Nil}, shown : Items \cup {Nil}]

ASSUME RequestAssumption == NoRequest \notin Request

Reply == [type : {"RESPONSE", "RELEASE", "ERROR"}, item : Items \cup {Nil}, msisdn : Msisdns]

Phone == [state : {"idle", "waiting", "prompted"}, req : Ids \cup {0}, shown : Items \cup {Nil}]

\* The HTTP call, the item or the reply that the handler does next:
\*   new, init          Start(): POST the session, execute the init item
\*   get, process       UserInput(): GET the session, process the input
\*   proceed            proceed(): the loop over the items
\*   sync, end, fail    proceed(): the deferred PUT, or DELETE without or with err
\*   put                the PUT has found the session, the answer is awaited
\*   abort              UserAbort(): DELETE
\*   reply_error        handleRequest(): the deferred reply when err is set
PCs == {"idle", "new", "init", "get", "process", "proceed", "sync", "put", "end",
        "fail", "abort", "reply_error"}

\* What handleUpdSession() holds: a copy of the struct it looked up, whose data map
\* is that of the stored one as long as nobody deletes or replaces the session.
Update == [msisdn : Msisdns, made : Ids, data : Data]

NoPhone == [state |-> "idle", req |-> 0, shown |-> Nil]

Init ==
    /\ store = [m \in Msisdns |-> NoSession]
    /\ made = [m \in Msisdns |-> 0]
    /\ puts = [q \in Ids |-> NoSession]
    /\ inbox = [i \in Instances |-> <<>>]
    /\ pc = [i \in Instances |-> "idle"]
    /\ req = [i \in Instances |-> NoRequest]
    /\ sess = [i \in Instances |-> NewSession(NoData)]
    /\ todo = [i \in Instances |-> <<>>]
    /\ itemByID = [i \in Instances |-> {}]
    /\ replies = [q \in Ids |-> <<>>]
    /\ phone = [m \in Msisdns |-> NoPhone]
    /\ nreq = 0
    /\ faults = <<>>

--------------------------------------------------------------------------------
(***************************************************************************)
(* What the handlers do with their surroundings.                           *)
(***************************************************************************)

\* What may go wrong: a call to the session server, a request lost by NATS or of
\* an unknown type, a first START without the database, an instance or the
\* session server that stops and is started again.
FaultKinds == {"call", "lost", "type", "connect", "crash", "restart"}

FaultsOK == faults \in Seq(FaultKinds) /\ Len(faults) <= MaxFaults

Fault(kind) == Len(faults) < MaxFaults /\ faults' = Append(faults, kind)

Msisdn(i) == req[i].msisdn

\* The session server has d, or no session, for the subscriber of handler i.
Store(i, d) == store' = [store EXCEPT ![Msisdn(i)] = d]

Goto(i, label) == pc' = [pc EXCEPT ![i] = label]

\* The local copy of the session and the items are not used any more.
Drop(i) ==
    /\ sess' = [sess EXCEPT ![i] = NewSession(NoData)]
    /\ todo' = [todo EXCEPT ![i] = <<>>]

\* The handler returns, and what it kept in local variables is gone.
Finish(i) ==
    /\ Goto(i, "idle")
    /\ req' = [req EXCEPT ![i] = NoRequest]
    /\ Drop(i)

\* The err that handleRequest() returns with: its deferred function replies.
Fail(i) == Goto(i, "reply_error") /\ UNCHANGED <<req, sess, todo>>

\* Respond(): an error of Send() is only logged.
Respond(i, key, type, item) ==
    replies' = [replies EXCEPT ![key] =
                   Append(@, [type |-> type, item |-> item, msisdn |-> Msisdn(i)])]

(***************************************************************************)
(* The calls of the session client (Sessions...) and the server's handlers *)
(* (handle...Session).  A call that fails may have reached the server.     *)
(***************************************************************************)

\* POST: replaces the session that the server may have.
handleNewSession(i, initData) ==
    Store(i, initData) /\ made' = [made EXCEPT ![Msisdn(i)] = req[i].id]

SessionsNew(i, initData) == handleNewSession(i, initData) /\ UNCHANGED faults

SessionsNewFails(i, initData) ==
    Fault("call") /\ (handleNewSession(i, initData) \/ UNCHANGED <<store, made>>)

\* GET: 404 is an error to the client.
handleGetSession(i) == store[Msisdn(i)]

SessionsGetFails(i) == Fault("call") \/ (handleGetSession(i) = NoSession /\ UNCHANGED faults)

\* PUT: 404 if the session is gone.  Else the values are written to the map, which
\* every PUT that has looked up the same session shares.
UpdFinds(i, s) ==
    LET m == Msisdn(i)
        d == RestSync(store[m], s)
    IN  /\ store[m] # NoSession
        /\ Store(i, d)
        /\ puts' = [q \in Ids |->
              IF q = req[i].id THEN [msisdn |-> m, made |-> made[m], data |-> d]
              ELSE IF puts[q] # NoSession /\ puts[q].msisdn = m /\ puts[q].made = made[m]
              THEN [puts[q] EXCEPT !.data = d]
              ELSE puts[q]]

\* The end of the PUT: the session is stored, whatever was done to it since.  The
\* server goes on with a PUT that its client does not wait for any more.
UpdStores(q) ==
    /\ puts[q] # NoSession
    /\ store' = [store EXCEPT ![puts[q].msisdn] = puts[q].data]
    /\ made' = [made EXCEPT ![puts[q].msisdn] = puts[q].made]
    /\ puts' = [puts EXCEPT ![q] = NoSession]
    /\ UNCHANGED <<inbox, handler, itemByID, replies, user, faults>>

\* DELETE: the server answers the same whether there is a session or not, and
\* the callers only log an error.
handleDelSession(i) ==
    Store(i, NoSession) /\ made' = [made EXCEPT ![Msisdn(i)] = 0]

SessionsDel(i) ==
    \/ handleDelSession(i) /\ UNCHANGED faults
    \/ Fault("call") /\ UNCHANGED <<store, made>>

\* No code sets next_item_ids, so the lookup of its items never happens.
LoadNextItems(s) ==
    IF Get(s, "next_item_ids") = Nil THEN <<>> ELSE Get(s, "next_item_ids")

\* Mutant: the key is the subscriber, not the reply address.
UssdDataMsisdn(r) == [NoData EXCEPT !["responder_key"] = r.msisdn]

\* The values the request brings along: ussdData.
UssdData(r) == [NoData EXCEPT !["responder_key"] = r.id]

\* The end of Start() and of UserInput(), into the loop of proceed().
BeginProceed(i, s, nextItems) ==
    LET t == Set(s, "responder_key", req[i].id)
    IN  /\ sess' = [sess EXCEPT ![i] = t]
        /\ todo' = [todo EXCEPT ![i] = nextItems \o LoadNextItems(t)]
        /\ Goto(i, "proceed")
        /\ UNCHANGED req

--------------------------------------------------------------------------------
(***************************************************************************)
(* handleRequest().                                                        *)
(***************************************************************************)

\* A request without text is refused whatever its type, an ABORT too.
Dispatch(r) ==
    CASE r.text = Nil -> "reply_error"
      [] r.text # Nil /\ r.type = "START" -> "new"
      [] r.text # Nil /\ r.type = "CONTINUE" -> "get"
      [] r.text # Nil /\ r.type = "ABORT" -> "abort"
      [] OTHER -> "reply_error"

\* pcm.Item() defines the items of the service when it is first called.
RegisterItems(i) == itemByID' = [itemByID EXCEPT ![i] = @ \cup Registered]

\* pcm.Item() is an argument of Start(), and called nowhere else.
HandleRequest(i) ==
    /\ pc[i] = "idle" /\ inbox[i] # <<>>
    /\ LET r == Head(inbox[i])
       IN  /\ req' = [req EXCEPT ![i] = r]
           /\ inbox' = [inbox EXCEPT ![i] = Tail(@)]
           /\ Goto(i, Dispatch(r))
           /\ IF Dispatch(r) = "new" THEN RegisterItems(i) ELSE UNCHANGED itemByID
    /\ UNCHANGED <<store, updates, sess, todo, replies, user, faults>>

\* Mutant: an error is logged and not replied.
ReplyErrorSilent(i) ==
    /\ pc[i] = "reply_error"
    /\ Finish(i)
    /\ UNCHANGED <<store, updates, inbox, itemByID, replies, user, faults>>

ReplyError(i) ==
    /\ pc[i] = "reply_error"
    /\ Respond(i, req[i].id, "ERROR", Nil)
    /\ Finish(i)
    /\ UNCHANGED <<store, updates, inbox, itemByID, user, faults>>

--------------------------------------------------------------------------------
(***************************************************************************)
(* ussd.Start().                                                           *)
(***************************************************************************)

\* Mutant: the dialled code is not set in the session.
StartNewWithoutCode(i) ==
    /\ pc[i] = "new"
    /\ LET initData == UssdData(req[i])
       IN  \/ /\ SessionsNew(i, initData)
              /\ sess' = [sess EXCEPT ![i] = NewSession(initData)]
              /\ Goto(i, "init")
              /\ UNCHANGED <<req, todo>>
           \/ SessionsNewFails(i, initData) /\ Fail(i)
    /\ UNCHANGED <<puts, inbox, itemByID, replies, user>>

\* sessions.New(), then the dialled code is set in the local copy.
StartNew(i) ==
    /\ pc[i] = "new"
    /\ LET initData == UssdData(req[i])
       IN  \/ /\ SessionsNew(i, initData)
              /\ sess' = [sess EXCEPT ![i] =
                             Set(NewSession(initData), "init_request", req[i].text)]
              /\ Goto(i, "init")
              /\ UNCHANGED <<req, todo>>
           \/ SessionsNewFails(i, initData) /\ Fail(i)
    /\ UNCHANGED <<puts, inbox, itemByID, replies, user>>

\* initItem.Exec(): an error returns before proceed(), whose deferred function
\* would delete the session.
StartInit(i) ==
    /\ pc[i] = "init"
    /\ LET results == RouterExec(InitItem, Get(sess[i], "init_request"))
       IN  \/ results = {} /\ Fail(i)
           \/ \E nextItems \in results : BeginProceed(i, sess[i], nextItems)
    /\ UNCHANGED <<store, updates, inbox, itemByID, replies, user, faults>>

--------------------------------------------------------------------------------
(***************************************************************************)
(* ussd.UserInput().                                                       *)
(***************************************************************************)

\* sessions.Get(), then the request's data is set in the local copy.
InputGet(i) ==
    /\ pc[i] = "get"
    /\ \/ /\ handleGetSession(i) # NoSession
          /\ sess' = [sess EXCEPT ![i] =
                         SetAll(NewSession(handleGetSession(i)), UssdData(req[i]))]
          /\ Goto(i, "process")
          /\ UNCHANGED <<req, todo, faults>>
       \/ SessionsGetFails(i) /\ Fail(i)
    /\ UNCHANGED <<store, updates, inbox, itemByID, replies, user>>

CurrentItem(i) == Get(sess[i], "current_item_id")

\* The session's current item is not known here, or takes no input.
InputNotExpected(i) ==
    /\ pc[i] = "process"
    /\ CurrentItem(i) \notin itemByID[i] \/ CurrentItem(i) \notin ItemUsrPrompt
    /\ Fail(i)
    /\ UNCHANGED <<store, updates, inbox, itemByID, replies, user, faults>>

\* Mutant: the refusal is shown and also returned as an error.
InputRefusedTwice(i) ==
    /\ pc[i] = "process"
    /\ CurrentItem(i) \in itemByID[i] \cap ItemUsrPrompt
    /\ Refuses(CurrentItem(i), req[i].text)
    /\ Respond(i, req[i].id, "RESPONSE", CurrentItem(i))
    /\ Fail(i)
    /\ UNCHANGED <<store, updates, inbox, itemByID, user, faults>>

\* Mutant: a refused input ends the session like any other error.
InputRefusedEnds(i) ==
    /\ pc[i] = "process"
    /\ CurrentItem(i) \in itemByID[i] \cap ItemUsrPrompt
    /\ Refuses(CurrentItem(i), req[i].text)
    /\ Respond(i, req[i].id, "RESPONSE", CurrentItem(i))
    /\ handleDelSession(i)
    /\ Finish(i)
    /\ UNCHANGED <<puts, inbox, itemByID, user, faults>>

\* The item refuses the input: it is shown again, and nothing is stored.
InputRefused(i) ==
    /\ pc[i] = "process"
    /\ CurrentItem(i) \in itemByID[i] \cap ItemUsrPrompt
    /\ Refuses(CurrentItem(i), req[i].text)
    /\ Respond(i, req[i].id, "RESPONSE", CurrentItem(i))
    /\ Finish(i)
    /\ UNCHANGED <<store, updates, inbox, itemByID, user, faults>>

InputAccepted(i) ==
    /\ pc[i] = "process"
    /\ CurrentItem(i) \in itemByID[i] \cap ItemUsrPrompt
    /\ ~Refuses(CurrentItem(i), req[i].text)
    /\ BeginProceed(i, ProcessSession(sess[i], CurrentItem(i), req[i].text),
                       ProcessNext(CurrentItem(i), req[i].text))
    /\ UNCHANGED <<store, updates, inbox, itemByID, replies, user, faults>>

--------------------------------------------------------------------------------
(***************************************************************************)
(* proceed(): the loop executes the items until one of them talks to the   *)
(* user or waits, or returns an error; then the deferred function syncs or *)
(* deletes the session.  While an item is handled it is Head(todo).        *)
(***************************************************************************)

At(i, kinds) == pc[i] = "proceed" /\ todo[i] # <<>> /\ Kind[Head(todo[i])] \in kinds

\* Mutant: the items that an executed item returns replace the ones still queued.
ContinueReplaces(i, nextItems) ==
    todo' = [todo EXCEPT ![i] = nextItems]

\* The items that an executed item returns come before the ones still queued.
Continue(i, nextItems) == todo' = [todo EXCEPT ![i] = nextItems \o Tail(@)]

\* Mutant: a responder that is not found is not an error.
ProceedUserNoResponder(i) ==
    /\ \/ At(i, {"menu", "prompt"}) /\ Goto(i, "sync")
       \/ At(i, {"final"}) /\ Goto(i, "end")
    /\ UNCHANGED <<store, updates, inbox, req, sess, todo, itemByID, replies, user, faults>>

\* A final item leaves currentItem nil, any other waits for the user's input.
\* The reply goes out before the session is synced.
ProceedUser(i) ==
    /\ \/ /\ At(i, {"menu", "prompt"})
          /\ Respond(i, Get(sess[i], "responder_key"), "RESPONSE", Head(todo[i]))
          /\ Goto(i, "sync")
       \/ /\ At(i, {"final"})
          /\ Respond(i, Get(sess[i], "responder_key"), "RELEASE", Head(todo[i]))
          /\ Goto(i, "end")
    /\ UNCHANGED <<store, updates, inbox, req, sess, todo, itemByID, user, faults>>

\* Mutant: the error of Exec() is lost, and proceed() returns as if it waited.
ProceedRouterErrLost(i) ==
    /\ At(i, {"router"})
    /\ LET results == RouterExec(Head(todo[i]), Get(sess[i], "init_request"))
       IN  \/ results = {} /\ Goto(i, "sync") /\ UNCHANGED todo
           \/ \E nextItems \in results : Continue(i, nextItems) /\ UNCHANGED pc
    /\ UNCHANGED <<store, updates, inbox, req, sess, itemByID, replies, user, faults>>

ProceedRouter(i) ==
    /\ At(i, {"router"})
    /\ LET results == RouterExec(Head(todo[i]), Get(sess[i], "init_request"))
       IN  \/ results = {} /\ Goto(i, "fail") /\ UNCHANGED todo
           \/ \E nextItems \in results : Continue(i, nextItems) /\ UNCHANGED pc
    /\ UNCHANGED <<store, updates, inbox, req, sess, itemByID, replies, user, faults>>

ProceedSet(i) ==
    /\ At(i, {"set"})
    /\ LET x == Head(todo[i])
       IN  sess' = [sess EXCEPT ![i] = Set(@, ItemName[x], ItemValue[x])]
    /\ Continue(i, <<>>)
    /\ UNCHANGED <<store, updates, inbox, pc, req, itemByID, replies, user, faults>>

ProceedFunc(i) ==
    /\ At(i, {"func"})
    /\ \E e \in FuncEffects[Head(todo[i])] :
          \/ e = Failed /\ Goto(i, "fail") /\ UNCHANGED <<sess, todo>>
          \/ /\ e # Failed
             /\ sess' = [sess EXCEPT ![i] = SetAll(@, e)]
             /\ Continue(i, <<>>)
             /\ UNCHANGED pc
    /\ UNCHANGED <<store, updates, inbox, req, itemByID, replies, user, faults>>

\* Request() is sent, or fails.
ProceedWait(i) ==
    /\ At(i, {"wait"})
    /\ Goto(i, "sync") \/ Goto(i, "fail")
    /\ UNCHANGED <<store, updates, inbox, req, sess, todo, itemByID, replies, user, faults>>

\* Mutant: an item of no known interface is skipped.
ProceedLostSkips(i) ==
    /\ \/ At(i, {"none"}) /\ Continue(i, <<>>) /\ UNCHANGED pc
       \/ pc[i] = "proceed" /\ todo[i] = <<>> /\ Goto(i, "fail") /\ UNCHANGED todo
    /\ UNCHANGED <<store, updates, inbox, req, sess, itemByID, replies, user, faults>>

\* An item of no known interface, and a loop that runs out of items.
ProceedLost(i) ==
    /\ At(i, {"none"}) \/ (pc[i] = "proceed" /\ todo[i] = <<>>)
    /\ Goto(i, "fail")
    /\ UNCHANGED <<store, updates, inbox, req, sess, todo, itemByID, replies, user, faults>>

\* Mutant: the current item is not set before the sync.
SyncSessionWithoutItem(i) ==
    /\ pc[i] = "sync"
    /\ \/ UpdFinds(i, sess[i]) /\ Goto(i, "put") /\ Drop(i) /\ UNCHANGED <<req, faults>>
       \/ store[Msisdn(i)] = NoSession /\ Finish(i) /\ UNCHANGED <<store, puts, faults>>
       \/ Fault("call") /\ Finish(i) /\ UNCHANGED <<store, puts>>
    /\ UNCHANGED <<made, inbox, itemByID, replies, user>>

\* Session.Sync() drops the error of its client: the session is gone, or the call fails.
SyncSession(i) ==
    /\ pc[i] = "sync"
    /\ \/ /\ UpdFinds(i, Set(sess[i], "current_item_id", Head(todo[i])))
          /\ Goto(i, "put") /\ Drop(i)
          /\ UNCHANGED <<req, faults>>
       \/ store[Msisdn(i)] = NoSession /\ Finish(i) /\ UNCHANGED <<store, puts, faults>>
       \/ Fault("call") /\ Finish(i) /\ UNCHANGED <<store, puts>>
    /\ UNCHANGED <<made, inbox, itemByID, replies, user>>

\* Mutant: the client does not wait for the answer of the PUT.
SyncReturnsEarly(i) ==
    /\ pc[i] = "put"
    /\ Finish(i)
    /\ UNCHANGED <<store, updates, inbox, itemByID, replies, user, faults>>

\* The answer of the PUT arrives, or the call fails while the server is at it.
SyncReturns(i) ==
    /\ pc[i] = "put"
    /\ (puts[req[i].id] = NoSession /\ UNCHANGED faults) \/ Fault("call")
    /\ Finish(i)
    /\ UNCHANGED <<store, updates, inbox, itemByID, replies, user>>

EndSession(i) ==
    /\ pc[i] = "end"
    /\ SessionsDel(i)
    /\ Finish(i)
    /\ UNCHANGED <<puts, inbox, itemByID, replies, user>>

\* Mutant: proceed() returns an error and keeps the session.
FailSessionKeeps(i) ==
    /\ pc[i] = "fail"
    /\ Fail(i)
    /\ UNCHANGED <<store, updates, inbox, itemByID, replies, user, faults>>

FailSession(i) ==
    /\ pc[i] = "fail"
    /\ SessionsDel(i)
    /\ Fail(i)
    /\ UNCHANGED <<puts, inbox, itemByID, replies, user>>

--------------------------------------------------------------------------------
\* ussd.UserAbort(): always succeeds, and nothing is replied.
UserAbort(i) ==
    /\ pc[i] = "abort"
    /\ SessionsDel(i)
    /\ Finish(i)
    /\ UNCHANGED <<puts, inbox, itemByID, replies, user>>

\* The instance stops and is started again: its queued requests are lost.
Stop(i) ==
    /\ inbox' = [inbox EXCEPT ![i] = <<>>]
    /\ itemByID' = [itemByID EXCEPT ![i] = {}]
    /\ Finish(i)
    /\ UNCHANGED <<store, updates, replies, user>>

Crash(i) == Fault("crash") /\ Stop(i)

\* pcm.Item() connects to the database when it is first called, that is, for the
\* first START.  If that fails or takes too long it panics, in the middle of
\* handleRequest(), whose deferred function sees no err and replies nothing.
ItemPanics(i) ==
    /\ pc[i] = "idle" /\ inbox[i] # <<>>
    /\ Dispatch(Head(inbox[i])) = "new" /\ itemByID[i] = {}
    /\ Fault("connect")
    /\ Stop(i)

\* The session server stops and is started again: it keeps the sessions in memory.
ServerRestart ==
    /\ Fault("restart")
    /\ store' = [m \in Msisdns |-> NoSession]
    /\ made' = [m \in Msisdns |-> 0]
    /\ puts' = [q \in Ids |-> NoSession]
    /\ UNCHANGED <<inbox, handler, itemByID, replies, user>>

HandlerStep(i) ==
    \/ HandleRequest(i) \/ ReplyError(i)
    \/ StartNew(i) \/ StartInit(i)
    \/ InputGet(i) \/ InputNotExpected(i) \/ InputRefused(i) \/ InputAccepted(i)
    \/ ProceedUser(i) \/ ProceedRouter(i) \/ ProceedSet(i) \/ ProceedFunc(i)
    \/ ProceedWait(i) \/ ProceedLost(i)
    \/ SyncSession(i) \/ SyncReturns(i) \/ EndSession(i) \/ FailSession(i)
    \/ UserAbort(i)

--------------------------------------------------------------------------------
(***************************************************************************)
(* Phones and gateway (external).  The gateway gives every request a reply *)
(* address of its own, and shows the user the reply to the latest one.     *)
(***************************************************************************)

Deliver(m, type, text) ==
    LET r == [id |-> nreq + 1, type |-> type, msisdn |-> m, text |-> text,
              shown |-> phone[m].shown]
    IN  \E i \in Instances : inbox' = [inbox EXCEPT ![i] = Append(@, r)]

\* NATS gives the request to an instance, or loses it.
Send(m, type, text) ==
    /\ nreq < MaxRequests
    /\ nreq' = nreq + 1
    /\ \/ Deliver(m, type, text) /\ UNCHANGED faults
       \/ Fault("lost") /\ UNCHANGED inbox
    /\ UNCHANGED <<store, updates, handler, itemByID, replies>>

Await(m) == phone' = [phone EXCEPT ![m] = [state |-> "waiting", req |-> nreq + 1, shown |-> Nil]]

\* A subscriber may dial again at any time.
Dial(m) == \E code \in Codes : Send(m, "START", code) /\ Await(m)

Answer(m) ==
    /\ phone[m].state = "prompted"
    /\ \E input \in Inputs : Send(m, "CONTINUE", input)
    /\ Await(m)

HangUp(m) ==
    /\ phone[m].state # "idle"
    /\ \E text \in AbortTexts : Send(m, "ABORT", text)
    /\ phone' = [phone EXCEPT ![m] = NoPhone]

\* A gateway that names the type of an answer in another way is at fault.
AnswerUnknown(m) ==
    /\ phone[m].state = "prompted"
    /\ nreq < MaxRequests
    /\ nreq' = nreq + 1
    /\ Fault("type")
    /\ \E input \in Inputs : Deliver(m, "unknown", input)
    /\ Await(m)
    /\ UNCHANGED <<store, updates, handler, itemByID, replies>>

Display(m) ==
    /\ phone[m].state = "waiting" /\ replies[phone[m].req] # <<>>
    /\ LET r == Head(replies[phone[m].req])
       IN  phone' = [phone EXCEPT ![m] =
              IF r.type = "RESPONSE"
              THEN [state |-> "prompted", req |-> phone[m].req, shown |-> r.item]
              ELSE NoPhone]
    /\ UNCHANGED <<store, updates, inbox, handler, itemByID, replies, nreq, faults>>

\* Every request has been handled and no more will be sent.
Quiet ==
    /\ nreq = MaxRequests
    /\ \A i \in Instances : pc[i] = "idle" /\ inbox[i] = <<>>
    /\ \A q \in Ids : puts[q] = NoSession
    /\ UNCHANGED vars

--------------------------------------------------------------------------------
Next ==
    \/ \E i \in Instances : HandlerStep(i) \/ Crash(i) \/ ItemPanics(i)
    \/ \E m \in Msisdns : Dial(m) \/ Answer(m) \/ HangUp(m) \/ AnswerUnknown(m) \/ Display(m)
    \/ \E q \in Ids : UpdStores(q)
    \/ ServerRestart
    \/ Quiet

Spec == Init /\ [][Next]_vars

\* An instance that runs handles what it is given, and the gateway shows the
\* reply it has received.  The session server goes on with each PUT in a goroutine of
\* its own, which waits for nothing.  Nobody has to dial or to answer.
Fairness ==
    /\ \A i \in Instances : WF_vars(HandlerStep(i))
    /\ \A m \in Msisdns : WF_vars(Display(m))
    /\ \A q \in Ids : WF_vars(UpdStores(q))

FairSpec == Spec /\ Fairness

--------------------------------------------------------------------------------
(***************************************************************************)
(* Properties.                                                             *)
(***************************************************************************)

TypeOK ==
    /\ store \in [Msisdns -> Data \cup {NoSession}]
    /\ made \in [Msisdns -> Ids \cup {0}]
    /\ puts \in [Ids -> Update \cup {NoSession}]
    /\ inbox \in [Instances -> Seq(Request)]
    /\ pc \in [Instances -> PCs]
    /\ req \in [Instances -> Request \cup {NoRequest}]
    /\ sess \in [Instances -> Session]
    /\ todo \in [Instances -> Seq(Items)]
    /\ itemByID \in [Instances -> SUBSET Items]
    /\ replies \in [Ids -> Seq(Reply)]
    /\ phone \in [Msisdns -> Phone]
    /\ nreq \in 0 .. MaxRequests
    /\ FaultsOK

\* No request is answered twice: proceed() responds at most once before it
\* returns, and handleRequest() sends its error only if nothing was responded.
AtMostOneReply == \A q \in Ids : Len(replies[q]) <= 1

\* The session server never names an item as current that its subscriber was
\* not sent as a prompt, unless it is one that waits for a service.
StoreNeverAhead ==
    \A m \in Msisdns : \A x \in Items :
       store[m] # NoSession /\ store[m]["current_item_id"] = x =>
          \/ Kind[x] = "wait"
          \/ \E q \in Ids : \E k \in DOMAIN replies[q] :
                replies[q][k] = [type |-> "RESPONSE", item |-> x, msisdn |-> m]

\* A Router always finds the dialled code in the session it is executed for, in
\* whichever instance and after however many inputs: its type assertion on
\* init_request never panics.
RouterFindsCode ==
    \A i \in Instances : pc[i] \in {"init", "proceed"} => Get(sess[i], "init_request") # Nil

\* Only Start() creates a session: as long as no call fails, a single instance does
\* not delete a session while the server has a sync of it to store.  (Two instances
\* may, since the server has no lock: see the run rest_race.)
OnlyStartCreates ==
    [][\A m \in Msisdns :
          store[m] = NoSession /\ store'[m] # NoSession =>
             \E i \in Instances : pc[i] = "new" /\ req[i].msisdn = m]_vars

InFlight(m) ==
    \E i \in Instances :
       \/ req[i] # NoRequest /\ req[i].msisdn = m
       \/ \E k \in DOMAIN inbox[i] : inbox[i][k].msisdn = m

\* What a user types is processed by the item that was on the user's screen.
InputReachesShownItem ==
    \A i \in Instances : pc[i] = "process" => CurrentItem(i) = req[i].shown

\* While a user looks at a prompt and nothing is on its way for that user, the
\* session server has the session and has that prompt as its current item.
PromptIsStored ==
    \A m \in Msisdns :
       phone[m].state = "prompted" /\ ~InFlight(m) =>
          store[m] # NoSession /\ store[m]["current_item_id"] = phone[m].shown

\* When the dialogue of a user is over and nothing is on its way for that user,
\* the session server keeps no session of that user.
IdleMeansNoSession ==
    \A m \in Msisdns : phone[m].state = "idle" /\ ~InFlight(m) => store[m] = NoSession

\* proceed() never runs out of items before it has answered the user.
NeverRunsDry == \A i \in Instances : pc[i] = "proceed" => todo[i] # <<>>

\* proceed() runs out of items only behind a prompt: a menu, router, set or
\* function never loses what is queued behind it.
DryOnlyAfterPrompt ==
    \A i \in Instances :
       pc[i] = "proceed" /\ todo[i] = <<>> => CurrentItem(i) \in OfKind("prompt")

\* An instance that gets the answer to a prompt knows the prompt.
AnyInstanceContinues ==
    \A i \in Instances :
       pc[i] = "process" /\ CurrentItem(i) \in ItemUsrPrompt => CurrentItem(i) \in itemByID[i]

\* Whatever fails, no request was lost with the one who was to answer it.
NothingLost == \A k \in DOMAIN faults : faults[k] \notin {"lost", "connect", "crash"}

\* A user who waits is eventually shown a prompt, a final text or an error, also
\* when calls to the session server fail or the sessions are gone, as long as no
\* request is lost by NATS or with the instance that has it.
UserIsServed ==
    \A m \in Msisdns :
       phone[m].state = "waiting" ~> phone[m].state # "waiting" \/ ~NothingLost

================================================================================
