--------------------------- MODULE UssdServiceProofs ---------------------------
(***************************************************************************)
(* Proofs that the safety properties of UssdService hold for any flow of   *)
(* items, any number of instances, subscribers and requests, and any       *)
(* number of faults and crashes.                                           *)
(***************************************************************************)
EXTENDS UssdServiceInv, TLAPS

--------------------------------------------------------------------------------
(***************************************************************************)
(* The data of a session.                                                  *)
(***************************************************************************)

\* NewSession() makes a local session of any data.
LEMMA NewSessionFacts ==
    ASSUME NEW d \in Data
    PROVE  /\ NewSession(d) \in Session
           /\ NewSession(d).data = d
           /\ NewSession(d).namesToSet = d
           /\ NewSession(d).namesToDel = {}
BY DEF NewSession, Session

\* Data without a value, the local copy of a handler that has none.
LEMMA NoDataFacts ==
    NoData \in Data /\ \A n \in Names : NoData[n] = Nil
BY DEF NoData, Data

\* Set() keeps the shape of a session.
LEMMA SetType ==
    ASSUME NEW s \in Session, NEW n \in Names, NEW v \in Values \cup {Nil}
    PROVE  Set(s, n, v) \in Session
<1>1. CASE v = Nil
  BY <1>1 DEF Set, Del, Session, Data
<1>2. CASE v # Nil
  BY <1>2 DEF Set, Session, Data
<1> QED
  BY <1>1, <1>2

\* Set() of a value is seen by Get(), goes out with the next sync, and leaves
\* the other names alone; so does Set() of nil, for the other names.
LEMMA SetValue ==
    ASSUME NEW s \in Session, NEW n \in Names, NEW v \in Values \cup {Nil}
    PROVE  /\ v # Nil => /\ Set(s, n, v).data[n] = v
                         /\ Set(s, n, v).namesToSet[n] = v
                         /\ n \notin Set(s, n, v).namesToDel
           /\ \A p \in Names \ {n} :
                 /\ Set(s, n, v).data[p] = s.data[p]
                 /\ Set(s, n, v).namesToSet[p] = s.namesToSet[p]
                 /\ p \in Set(s, n, v).namesToDel <=> p \in s.namesToDel
<1>1. CASE v = Nil
  BY <1>1 DEF Set, Del, Session, Data
<1>2. CASE v # Nil
  BY <1>2 DEF Set, Session, Data
<1> QED
  BY <1>1, <1>2

\* Overlaying data with data gives data.
LEMMA OverlayType ==
    ASSUME NEW d \in Data, NEW e \in Data
    PROVE  Overlay(d, e) \in Data
BY DEF Overlay, Data

\* SetAll() keeps the shape of a session, sets the values it is given, and
\* leaves the other names alone.
LEMMA SetAllFacts ==
    ASSUME NEW s \in Session, NEW d \in Data
    PROVE  /\ SetAll(s, d) \in Session
           /\ \A n \in Names :
                 /\ d[n] # Nil => /\ SetAll(s, d).data[n] = d[n]
                                  /\ SetAll(s, d).namesToSet[n] = d[n]
                                  /\ n \notin SetAll(s, d).namesToDel
                 /\ d[n] = Nil => /\ SetAll(s, d).data[n] = s.data[n]
                                  /\ SetAll(s, d).namesToSet[n] = s.namesToSet[n]
                                  /\ n \in SetAll(s, d).namesToDel <=> n \in s.namesToDel
<1>1. s.data \in Data /\ s.namesToSet \in Data /\ s.namesToDel \in SUBSET Names
  BY DEF Session
<1>2. Overlay(s.data, d) \in Data /\ Overlay(s.namesToSet, d) \in Data
  BY <1>1, OverlayType
<1>3. SetAll(s, d) \in Session
  BY <1>1, <1>2 DEF SetAll, Session
<1>4. ASSUME NEW n \in Names
      PROVE  /\ Overlay(s.data, d)[n] = IF d[n] # Nil THEN d[n] ELSE s.data[n]
             /\ Overlay(s.namesToSet, d)[n] = IF d[n] # Nil THEN d[n] ELSE s.namesToSet[n]
  BY DEF Overlay
<1> QED
  BY <1>3, <1>4 DEF SetAll

\* What a PUT makes of the data of the session server.
LEMMA RestSyncFacts ==
    ASSUME NEW d \in Data, NEW s \in Session
    PROVE  /\ RestSync(d, s) \in Data
           /\ \A n \in Names \ s.namesToDel :
                 RestSync(d, s)[n] = IF s.namesToSet[n] # Nil THEN s.namesToSet[n] ELSE d[n]
           /\ \A n \in s.namesToDel : RestSync(d, s)[n] = Nil
<1>1. s.namesToSet \in Data /\ s.namesToDel \in SUBSET Names
  BY DEF Session
<1>2. Overlay(d, s.namesToSet) \in Data
  BY <1>1, OverlayType
<1>3. RestSync(d, s) \in Data
  BY <1>2 DEF RestSync, Data
<1> QED
  BY <1>1, <1>3 DEF RestSync, Overlay

--------------------------------------------------------------------------------
(***************************************************************************)
(* The items.                                                              *)
(***************************************************************************)

\* The names that ussd/user.go keeps for itself are names of session values.
LEMMA ReservedNames ==
    /\ "current_item_id" \in Names
    /\ "init_request" \in Names
    /\ "next_item_ids" \in Names
    /\ "responder_key" \in Names
BY FlowAssumption DEF Reserved

\* A router returns items.
LEMMA RouterExecType ==
    ASSUME NEW r \in OfKind("router"), NEW c
    PROVE  RouterExec(r, c) \subseteq Seq(Items)
<1>1. /\ \A d \in DOMAIN ByCode[r] : ByCode[r][d] \in Seq(Items)
      /\ \A p \in ByPrefix[r] : p.items \in Seq(Items)
      /\ \A k \in DOMAIN ByRegex[r] : ByRegex[r][k].item \in Items
  BY FlowAssumption
<1>2. \A k \in DOMAIN ByRegex[r] : <<ByRegex[r][k].item>> \in Seq(Items)
  BY <1>1
<1> QED
  BY <1>1, <1>2, Zenon DEF RouterExec

\* What a menu or a prompt returns for an input it accepts are items.
LEMMA ProcessNextType ==
    ASSUME NEW x \in ItemUsrPrompt, NEW input
    PROVE  ProcessNext(x, input) \in Seq(Items)
<1>1. x \in Items /\ Kind[x] \in {"menu", "prompt"}
  BY DEF ItemUsrPrompt, OfKind
<1>2. CASE Kind[x] = "prompt"
  BY <1>2 DEF ProcessNext
<1>3. CASE Kind[x] = "menu" /\ Chosen(x, input)
  <2>1. Options[x][ParseInt[input]] \in Seq(Items)
    BY <1>1, <1>3, FlowAssumption DEF Chosen, OfKind
  <2> QED
    BY <1>3, <2>1 DEF ProcessNext
<1>4. CASE Kind[x] = "menu" /\ ~Chosen(x, input)
  BY <1>1, <1>4 DEF ProcessNext
<1> QED
  BY <1>1, <1>2, <1>3, <1>4

\* Sequences of items are put together of sequences of items.
LEMMA ConcatType ==
    ASSUME NEW s \in Seq(Items), NEW t \in Seq(Items)
    PROVE  s \o t \in Seq(Items)
OBVIOUS

LEMMA HeadTailType ==
    ASSUME NEW S, NEW s \in Seq(S), s # <<>>
    PROVE  Head(s) \in S /\ Tail(s) \in Seq(S)
OBVIOUS

\* Two sessions that agree on the names that user.go keeps for itself.
SameReserved(s, t) ==
    \A p \in Reserved : /\ s.data[p] = t.data[p]
                        /\ s.namesToSet[p] = t.namesToSet[p]
                        /\ p \in s.namesToDel <=> p \in t.namesToDel

\* An item changes the session only under names that user.go does not use.
LEMMA SetItemFacts ==
    ASSUME NEW s \in Session, NEW n \in Names \ Reserved, NEW v \in Values \cup {Nil}
    PROVE  /\ Set(s, n, v) \in Session
           /\ SameReserved(Set(s, n, v), s)
<1>1. Reserved \subseteq Names \ {n}
  BY FlowAssumption
<1> QED
  BY <1>1, SetType, SetValue DEF SameReserved

--------------------------------------------------------------------------------
(***************************************************************************)
(* The first layer, TInv.  First the parts that actions share: what they   *)
(* keep true of the handlers, and of the session server.                   *)
(***************************************************************************)

\* A handler no step touches stays as it is.
LEMMA HandlerFrame ==
    ASSUME NEW j \in Instances, HandlerOK(j),
           pc'[j] = pc[j], req'[j] = req[j], sess'[j] = sess[j], todo'[j] = todo[j]
    PROVE  HandlerOK(j)'
BY DEF HandlerOK, Active, CurrentItem, SessOK, HasCode, Get

\* A step of handler i keeps HandlersOK if it leaves i in order.
LEMMA HandlerUpdate ==
    ASSUME HandlersOK, NEW i \in Instances,
           NEW l \in PCs, NEW r \in Request \cup {NoRequest},
           NEW s \in Session, NEW t \in Seq(Items),
           pc' = [pc EXCEPT ![i] = l], req' = [req EXCEPT ![i] = r],
           sess' = [sess EXCEPT ![i] = s], todo' = [todo EXCEPT ![i] = t],
           HandlerOK(i)'
    PROVE  HandlersOK'
<1> USE DEF HandlersOK
<1>1. /\ pc' \in [Instances -> PCs]
      /\ req' \in [Instances -> Request \cup {NoRequest}]
      /\ sess' \in [Instances -> Session]
      /\ todo' \in [Instances -> Seq(Items)]
  OBVIOUS
<1>2. ASSUME NEW j \in Instances, j # i
      PROVE  HandlerOK(j)'
  BY <1>2, HandlerFrame
<1> QED
  BY <1>1, <1>2

\* An instance without a request has nothing in its session.
LEMMA NoSessionFacts ==
    NewSession(NoData) \in Session /\ SessOK(NewSession(NoData))
BY NoDataFacts, NewSessionFacts, ReservedNames DEF SessOK

LEMMA FinishOK ==
    ASSUME HandlersOK, NEW i \in Instances, Finish(i)
    PROVE  HandlersOK'
<1>1. /\ pc'[i] = "idle" /\ sess'[i] = NewSession(NoData)
  BY DEF HandlersOK, Finish, Drop, Goto
<1>2. HandlerOK(i)'
  BY <1>1, NoSessionFacts DEF HandlerOK, Active
<1>3. /\ pc' = [pc EXCEPT ![i] = "idle"] /\ "idle" \in PCs
      /\ req' = [req EXCEPT ![i] = NoRequest]
      /\ sess' = [sess EXCEPT ![i] = NewSession(NoData)]
      /\ todo' = [todo EXCEPT ![i] = <<>>] /\ <<>> \in Seq(Items)
  BY DEF Finish, Drop, Goto, PCs
<1> QED
  BY <1>2, <1>3, NoSessionFacts, HandlerUpdate

\* A step that only moves handler i on to label l.
LEMMA GotoOK ==
    ASSUME HandlersOK, NEW i \in Instances, NEW l \in PCs, Goto(i, l),
           UNCHANGED <<req, sess, todo>>, HandlerOK(i)'
    PROVE  HandlersOK'
<1>1. /\ req' = [req EXCEPT ![i] = req[i]]
      /\ sess' = [sess EXCEPT ![i] = sess[i]]
      /\ todo' = [todo EXCEPT ![i] = todo[i]]
      /\ req[i] \in Request \cup {NoRequest} /\ sess[i] \in Session /\ todo[i] \in Seq(Items)
  BY DEF HandlersOK
<1> QED
  BY <1>1, HandlerUpdate DEF Goto

\* The labels at which nothing is asked of a handler but its request.
LEMMA GotoPlain ==
    ASSUME HandlersOK, NEW i \in Instances, pc[i] # "idle",
           NEW l \in {"end", "fail", "abort", "reply_error"}, Goto(i, l),
           UNCHANGED <<req, sess, todo>>
    PROVE  HandlersOK'
<1>1. pc'[i] = l /\ l \in PCs
  BY DEF HandlersOK, Goto, PCs
<1>2. HandlerOK(i) /\ Active(i)
  BY DEF HandlersOK, Active
<1>3. HandlerOK(i)'
  BY <1>1, <1>2 DEF HandlerOK, Active, SessOK
<1> QED
  BY <1>1, <1>3, GotoOK

LEMMA FailOK ==
    ASSUME HandlersOK, NEW i \in Instances, pc[i] # "idle", Fail(i)
    PROVE  HandlersOK'
BY GotoPlain DEF Fail

\* The handler that acts has a request, of a subscriber.
LEMMA ActiveRequest ==
    ASSUME HandlersOK, NEW i \in Instances, pc[i] # "idle"
    PROVE  /\ req[i] \in Request
           /\ Msisdn(i) \in Msisdns
           /\ req[i].id \in Ids
           /\ req[i].text \in Values \cup {Nil}
           /\ req[i].id # Nil /\ req[i].id \in Values
<1>1. req[i] \in Request
  BY DEF HandlersOK, HandlerOK, Active
<1> QED
  BY <1>1, ServiceAssumption, NilAssumption DEF Request, Msisdn

LEMMA UssdDataFacts ==
    ASSUME NEW r \in Request
    PROVE  /\ UssdData(r) \in Data
           /\ UssdData(r)["responder_key"] = r.id
           /\ \A n \in Names \ {"responder_key"} : UssdData(r)[n] = Nil
<1>1. r.id \in Values
  BY ServiceAssumption DEF Request
<1> QED
  BY <1>1, NoDataFacts, ReservedNames DEF UssdData, Data

\* The server stores data that is in order, or drops the session.
LEMMA StoreUpdate ==
    ASSUME HandlersOK, StoreOK, NEW i \in Instances, pc[i] # "idle",
           NEW d \in Data \cup {NoSession}, NEW q \in Ids \cup {0},
           d # NoSession => StoredOK(d) /\ q # 0,
           Store(i, d), made' = [made EXCEPT ![Msisdn(i)] = q], UNCHANGED puts
    PROVE  StoreOK'
<1>1. Msisdn(i) \in Msisdns
  BY ActiveRequest
<1> QED
  BY <1>1 DEF StoreOK, Store

LEMMA SessionsDelOK ==
    ASSUME HandlersOK, StoreOK, NEW i \in Instances, pc[i] # "idle", SessionsDel(i),
           UNCHANGED puts
    PROVE  StoreOK'
<1>1. CASE handleDelSession(i)
  BY <1>1, StoreUpdate DEF handleDelSession
<1>2. CASE UNCHANGED <<store, made>>
  BY <1>2 DEF StoreOK
<1> QED
  BY <1>1, <1>2 DEF SessionsDel

\* An instance stops, by itself or because pcm.Item() panics.
Halt(i) == (Fault("crash") \/ Fault("connect")) /\ Stop(i)

\* The kinds of steps there are.
LEMMA NextSteps ==
    ASSUME Next
    PROVE  \/ \E i \in Instances : HandlerStep(i) \/ Halt(i)
           \/ \E m \in Msisdns :
                 Dial(m) \/ Answer(m) \/ HangUp(m) \/ AnswerUnknown(m) \/ Display(m)
           \/ \E q \in Ids : UpdStores(q)
           \/ ServerRestart
           \/ UNCHANGED vars
BY DEF Next, Quiet, Crash, ItemPanics, Halt

LEMMA FaultType ==
    ASSUME RestOK,
           \/ Fault("call") \/ Fault("lost") \/ Fault("type") \/ Fault("connect")
           \/ Fault("crash") \/ Fault("restart") \/ UNCHANGED faults
    PROVE  FaultsOK'
<1>1. PICK kind \in FaultKinds : Fault(kind) \/ UNCHANGED faults
  BY DEF FaultKinds
<1>2. faults \in Seq(FaultKinds) /\ Len(faults) <= MaxFaults /\ MaxFaults \in Nat
  BY ServiceAssumption DEF RestOK, FaultsOK
<1> QED
  BY <1>1, <1>2 DEF Fault, FaultsOK

LEMMA RespondType ==
    ASSUME HandlersOK, RestOK, NEW i \in Instances, pc[i] # "idle",
           NEW key \in Ids, NEW type \in {"RESPONSE", "RELEASE", "ERROR"},
           NEW item \in Items \cup {Nil}, Respond(i, key, type, item)
    PROVE  replies' \in [Ids -> Seq(Reply)]
<1>1. [type |-> type, item |-> item, msisdn |-> Msisdn(i)] \in Reply
  BY ActiveRequest DEF Reply
<1> QED
  BY <1>1 DEF RestOK, Respond

\* Start() and UserInput() enter proceed() with a session that has the dialled
\* code and the reply address of the request.
LEMMA BeginProceedOK ==
    ASSUME HandlersOK, NEW i \in Instances, pc[i] # "idle",
           NEW s \in Session, SessOK(s), HasCode(s),
           NEW nextItems \in Seq(Items), BeginProceed(i, s, nextItems)
    PROVE  HandlersOK'
<1> DEFINE t == Set(s, "responder_key", req[i].id)
<1>1. /\ req[i] \in Request /\ req[i].id # Nil /\ req[i].id \in Values
  BY ActiveRequest
<1>2. t \in Session
  BY <1>1, SetType, ReservedNames
<1>3. t.data["responder_key"] = req[i].id
  BY <1>1, SetValue, ReservedNames
<1>4. \A p \in Names \ {"responder_key"} :
         /\ t.data[p] = s.data[p] /\ t.namesToSet[p] = s.namesToSet[p]
         /\ p \in t.namesToDel <=> p \in s.namesToDel
  BY <1>1, SetValue, ReservedNames
<1>5. SessOK(t) /\ HasCode(t)
  BY <1>4, ReservedNames DEF SessOK, HasCode
<1> HIDE DEF t
<1>6. LoadNextItems(t) = <<>>
  BY <1>5 DEF LoadNextItems, Get, SessOK
<1>7. nextItems \o LoadNextItems(t) \in Seq(Items)
  <2>1. LoadNextItems(t) \in Seq(Items)
    BY <1>6
  <2> QED
    BY <2>1, ConcatType
<1>8. /\ pc' = [pc EXCEPT ![i] = "proceed"] /\ "proceed" \in PCs
      /\ req' = [req EXCEPT ![i] = req[i]] /\ req[i] \in Request \cup {NoRequest}
      /\ sess' = [sess EXCEPT ![i] = t]
      /\ todo' = [todo EXCEPT ![i] = nextItems \o LoadNextItems(t)]
  BY <1>1 DEF BeginProceed, Goto, PCs, HandlersOK, t
<1>9. pc'[i] = "proceed" /\ req'[i] = req[i] /\ sess'[i] = t
  BY <1>8 DEF HandlersOK
<1>10. HandlerOK(i)'
  BY <1>1, <1>3, <1>5, <1>9 DEF HandlerOK, Active, Get
<1> QED
  BY <1>2, <1>7, <1>8, <1>10, HandlerUpdate

\* handleRequest() takes the oldest request of its instance.
LEMMA HandleRequestTInv ==
    ASSUME TInv, NEW i \in Instances, HandleRequest(i)
    PROVE  TInv'
<1> DEFINE r == Head(inbox[i])
<1>1. HandlersOK /\ StoreOK /\ RestOK
  BY DEF TInv
<1>2. inbox[i] \in Seq(Request) /\ inbox[i] # <<>>
  BY <1>1 DEF RestOK, HandleRequest
<1>3. r \in Request /\ Tail(inbox[i]) \in Seq(Request)
  BY <1>2, HeadTailType
<1>4. /\ Dispatch(r) \in {"reply_error", "new", "get", "abort"}
      /\ Dispatch(r) = "new" => r.text # Nil
  BY DEF Dispatch
<1> HIDE DEF r
<1>5. /\ pc' = [pc EXCEPT ![i] = Dispatch(r)] /\ Dispatch(r) \in PCs
      /\ req' = [req EXCEPT ![i] = r]
      /\ sess' = [sess EXCEPT ![i] = sess[i]] /\ sess[i] \in Session
      /\ todo' = [todo EXCEPT ![i] = todo[i]] /\ todo[i] \in Seq(Items)
  BY <1>1, <1>4 DEF HandleRequest, Goto, PCs, HandlersOK, r
<1>6. pc'[i] = Dispatch(r) /\ req'[i] = r /\ sess'[i] = sess[i]
  BY <1>1, <1>5 DEF HandlersOK
<1>7. SessOK(sess[i])
  BY <1>1 DEF HandlersOK, HandlerOK
<1>8. HandlerOK(i)'
  BY <1>3, <1>4, <1>6, <1>7 DEF HandlerOK, Active
<1>9. HandlersOK'
  BY <1>1, <1>3, <1>5, <1>8, HandlerUpdate
<1>10. StoreOK'
  BY <1>1 DEF HandleRequest, StoreOK, updates
<1>11. RestOK'
  <2>1. Registered \subseteq Items
    BY DEF Registered, ItemUsrPrompt, OfKind
  <2> QED
    BY <1>1, <1>3, <2>1 DEF FaultsOK, HandleRequest, RegisterItems, RestOK, PhonesOK, user
<1> QED
  BY <1>9, <1>10, <1>11 DEF TInv

LEMMA ReplyErrorTInv ==
    ASSUME TInv, NEW i \in Instances, ReplyError(i)
    PROVE  TInv'
<1>1. HandlersOK /\ StoreOK /\ RestOK /\ pc[i] # "idle"
  BY DEF TInv, ReplyError
<1>2. HandlersOK'
  BY <1>1, FinishOK DEF ReplyError
<1>3. StoreOK'
  BY <1>1 DEF ReplyError, StoreOK, updates
<1>4. replies' \in [Ids -> Seq(Reply)]
  BY <1>1, ActiveRequest, RespondType DEF ReplyError
<1>5. RestOK'
  BY <1>1, <1>4 DEF FaultsOK, ReplyError, RestOK, PhonesOK, user
<1> QED
  BY <1>2, <1>3, <1>5 DEF TInv

\* Start(): the new session has the dialled code as soon as the server has it.
LEMMA StartNewTInv ==
    ASSUME TInv, NEW i \in Instances, StartNew(i)
    PROVE  TInv'
<1> DEFINE d == UssdData(req[i])
           s == Set(NewSession(d), "init_request", req[i].text)
<1>1. HandlersOK /\ StoreOK /\ RestOK /\ pc[i] = "new"
  BY DEF TInv, StartNew
<1>2. /\ req[i] \in Request /\ req[i].text \in Values \cup {Nil} /\ req[i].text # Nil
  BY <1>1, ActiveRequest DEF HandlersOK, HandlerOK
<1>3. d \in Data /\ \A n \in Names \ {"responder_key"} : d[n] = Nil
  BY <1>2, UssdDataFacts
<1> HIDE DEF d
<1>4. StoredOK(d)
  BY <1>3, ReservedNames DEF StoredOK
<1>5. StoreOK'
  <2>1. UNCHANGED puts /\ req[i].id \in Ids /\ req[i].id # 0
    BY <1>2 DEF StartNew, Request, Ids
  <2>2. CASE handleNewSession(i, d)
    BY <1>1, <1>3, <1>4, <2>1, <2>2, StoreUpdate DEF handleNewSession
  <2>3. CASE UNCHANGED <<store, made>>
    BY <1>1, <2>1, <2>3 DEF StoreOK
  <2> QED
    BY <2>2, <2>3 DEF StartNew, SessionsNew, SessionsNewFails, d
<1>6. /\ NewSession(d) \in Session /\ NewSession(d).data = d
      /\ NewSession(d).namesToSet = d
  BY <1>3, NewSessionFacts
<1>7. s \in Session
  BY <1>2, <1>6, SetType, ReservedNames
<1>8. HasCode(s) /\ SessOK(s)
  <2>1. /\ s.data["init_request"] = req[i].text
        /\ s.namesToSet["init_request"] = req[i].text
        /\ "init_request" \notin s.namesToDel
    BY <1>2, <1>6, SetValue, ReservedNames
  <2>2. /\ s.data["next_item_ids"] = d["next_item_ids"]
        /\ s.namesToSet["next_item_ids"] = d["next_item_ids"]
    BY <1>2, <1>6, SetValue, ReservedNames
  <2> HIDE DEF s
  <2> QED
    BY <1>2, <1>3, <2>1, <2>2, ReservedNames DEF HasCode, SessOK
<1> HIDE DEF s
<1>9. HandlersOK'
  <2>1. CASE /\ sess' = [sess EXCEPT ![i] = s]
             /\ Goto(i, "init")
             /\ UNCHANGED <<req, todo, faults>>
    <3>1. /\ pc' = [pc EXCEPT ![i] = "init"] /\ "init" \in PCs
          /\ req' = [req EXCEPT ![i] = req[i]]
          /\ todo' = [todo EXCEPT ![i] = todo[i]] /\ todo[i] \in Seq(Items)
      BY <1>1, <2>1 DEF Goto, PCs, HandlersOK
    <3>2. pc'[i] = "init" /\ req'[i] = req[i] /\ sess'[i] = s
      BY <1>1, <2>1, <3>1 DEF HandlersOK
    <3>3. HandlerOK(i)'
      BY <1>2, <1>8, <3>2 DEF HandlerOK, Active
    <3> QED
      BY <1>1, <1>2, <1>7, <2>1, <3>1, <3>3, HandlerUpdate
  <2>2. CASE Fail(i)
    BY <1>1, <2>2, FailOK
  <2> QED
    BY <2>1, <2>2 DEF StartNew, SessionsNew, d, s
<1>10. RestOK'
  <2>1. FaultsOK'
    BY <1>1, FaultType DEF StartNew, SessionsNew, SessionsNewFails
  <2> QED
    BY <1>1, <2>1 DEF StartNew, RestOK, PhonesOK, user
<1> QED
  BY <1>5, <1>9, <1>10 DEF TInv

LEMMA StartInitTInv ==
    ASSUME TInv, NEW i \in Instances, StartInit(i)
    PROVE  TInv'
<1>1. HandlersOK /\ StoreOK /\ RestOK /\ pc[i] = "init"
  BY DEF TInv, StartInit
<1>2. sess[i] \in Session /\ SessOK(sess[i]) /\ HasCode(sess[i])
  BY <1>1 DEF HandlersOK, HandlerOK
<1>3. HandlersOK'
  <2>1. CASE Fail(i)
    BY <1>1, <2>1, FailOK
  <2>2. CASE \E nextItems \in RouterExec(InitItem, Get(sess[i], "init_request")) :
                BeginProceed(i, sess[i], nextItems)
    <3>1. PICK nextItems \in Seq(Items) : BeginProceed(i, sess[i], nextItems)
      BY <2>2, RouterExecType, FlowAssumption
    <3> QED
      BY <1>1, <1>2, <3>1, BeginProceedOK
  <2> QED
    BY <2>1, <2>2 DEF StartInit
<1>4. StoreOK' /\ RestOK'
  BY <1>1 DEF FaultsOK, StartInit, StoreOK, updates, RestOK, PhonesOK, user
<1> QED
  BY <1>3, <1>4 DEF TInv

\* UserInput(): what is known of the stored session is known of its copy.
LEMMA InputGetTInv ==
    ASSUME TInv, NEW i \in Instances, InputGet(i)
    PROVE  TInv'
<1> DEFINE d == store[Msisdn(i)]
           u == UssdData(req[i])
           s == SetAll(NewSession(d), u)
<1>1. HandlersOK /\ StoreOK /\ RestOK /\ pc[i] = "get"
  BY DEF TInv, InputGet
<1>2. req[i] \in Request /\ Msisdn(i) \in Msisdns
  BY <1>1, ActiveRequest
<1>3. u \in Data /\ \A n \in Names \ {"responder_key"} : u[n] = Nil
  BY <1>2, UssdDataFacts
<1>4. HandlersOK'
  <2>1. CASE /\ d # NoSession
             /\ sess' = [sess EXCEPT ![i] = s]
             /\ Goto(i, "process")
             /\ UNCHANGED <<req, todo, faults>>
    <3>1. d \in Data /\ StoredOK(d)
      BY <1>1, <1>2, <2>1 DEF StoreOK
    <3> HIDE DEF d, u
    <3>2. /\ NewSession(d) \in Session /\ NewSession(d).data = d
          /\ NewSession(d).namesToSet = d /\ NewSession(d).namesToDel = {}
      BY <3>1, NewSessionFacts
    <3>3. /\ s \in Session
          /\ \A n \in Names \ {"responder_key"} :
                s.data[n] = d[n] /\ s.namesToSet[n] = d[n] /\ n \notin s.namesToDel
      BY <1>3, <3>2, SetAllFacts
    <3> HIDE DEF s
    <3>4. SessOK(s) /\ (s.data["current_item_id"] # Nil => HasCode(s))
      BY <3>1, <3>3, ReservedNames DEF SessOK, HasCode, StoredOK
    <3>5. /\ pc' = [pc EXCEPT ![i] = "process"] /\ "process" \in PCs
          /\ req' = [req EXCEPT ![i] = req[i]]
          /\ todo' = [todo EXCEPT ![i] = todo[i]] /\ todo[i] \in Seq(Items)
      BY <1>1, <2>1 DEF Goto, PCs, HandlersOK
    <3>6. pc'[i] = "process" /\ req'[i] = req[i] /\ sess'[i] = s
      BY <1>1, <2>1, <3>5 DEF HandlersOK
    <3>7. HandlerOK(i)'
      BY <1>2, <3>4, <3>6 DEF HandlerOK, Active, CurrentItem, Get
    <3> QED
      BY <1>1, <1>2, <2>1, <3>3, <3>5, <3>7, HandlerUpdate
  <2>2. CASE Fail(i)
    BY <1>1, <2>2, FailOK
  <2> QED
    BY <2>1, <2>2 DEF InputGet, SessionsGetFails, handleGetSession
<1>5. StoreOK'
  BY <1>1 DEF InputGet, StoreOK, updates
<1>6. RestOK'
  <2>1. FaultsOK'
    BY <1>1, FaultType DEF InputGet, SessionsGetFails
  <2> QED
    BY <1>1, <2>1 DEF InputGet, RestOK, PhonesOK, user
<1> QED
  BY <1>4, <1>5, <1>6 DEF TInv

LEMMA InputNotExpectedTInv ==
    ASSUME TInv, NEW i \in Instances, InputNotExpected(i)
    PROVE  TInv'
<1>1. HandlersOK /\ StoreOK /\ RestOK /\ pc[i] = "process"
  BY DEF TInv, InputNotExpected
<1>2. HandlersOK'
  BY <1>1, FailOK DEF InputNotExpected
<1>3. StoreOK' /\ RestOK'
  BY <1>1 DEF FaultsOK, InputNotExpected, StoreOK, updates, RestOK, PhonesOK, user
<1> QED
  BY <1>2, <1>3 DEF TInv

LEMMA InputRefusedTInv ==
    ASSUME TInv, NEW i \in Instances, InputRefused(i)
    PROVE  TInv'
<1>1. HandlersOK /\ StoreOK /\ RestOK /\ pc[i] = "process"
  BY DEF TInv, InputRefused
<1>2. HandlersOK'
  BY <1>1, FinishOK DEF InputRefused
<1>3. StoreOK'
  BY <1>1 DEF InputRefused, StoreOK, updates
<1>4. CurrentItem(i) \in Items
  BY DEF InputRefused, ItemUsrPrompt, OfKind
<1>5. replies' \in [Ids -> Seq(Reply)]
  BY <1>1, <1>4, ActiveRequest, RespondType DEF InputRefused
<1>6. RestOK'
  BY <1>1, <1>5 DEF FaultsOK, InputRefused, RestOK, PhonesOK, user
<1> QED
  BY <1>2, <1>3, <1>6 DEF TInv

LEMMA InputAcceptedTInv ==
    ASSUME TInv, NEW i \in Instances, InputAccepted(i)
    PROVE  TInv'
<1> DEFINE x == CurrentItem(i)
           s == ProcessSession(sess[i], x, req[i].text)
           nextItems == ProcessNext(x, req[i].text)
<1>1. HandlersOK /\ StoreOK /\ RestOK /\ pc[i] = "process"
  BY DEF TInv, InputAccepted
<1>2. x \in ItemUsrPrompt /\ x \in Items /\ x # Nil
  BY FlowAssumption, NilAssumption DEF InputAccepted, ItemUsrPrompt, OfKind
<1>3. req[i].text \in Values \cup {Nil}
  BY <1>1, ActiveRequest
<1>4. sess[i] \in Session /\ SessOK(sess[i]) /\ HasCode(sess[i])
  BY <1>1, <1>2 DEF HandlersOK, HandlerOK
<1>5. nextItems \in Seq(Items)
  BY <1>2, ProcessNextType
<1>6. s \in Session /\ SessOK(s) /\ HasCode(s)
  <2>1. CASE Kind[x] = "prompt"
    <3>1. ItemName[x] \in Names \ Reserved
      BY <1>2, <2>1, FlowAssumption DEF OfKind
    <3>2. s = Set(sess[i], ItemName[x], req[i].text)
      BY <2>1 DEF ProcessSession
    <3> HIDE DEF s, x
    <3> QED
      BY <1>3, <1>4, <3>1, <3>2, SetItemFacts DEF SameReserved, Reserved, SessOK, HasCode
  <2>2. CASE Kind[x] # "prompt"
    BY <1>4, <2>2 DEF ProcessSession
  <2> QED
    BY <2>1, <2>2
<1>7. BeginProceed(i, s, nextItems)
  BY DEF InputAccepted
<1> HIDE DEF x, s, nextItems
<1>8. HandlersOK'
  BY <1>1, <1>5, <1>6, <1>7, BeginProceedOK
<1>9. StoreOK' /\ RestOK'
  BY <1>1 DEF FaultsOK, InputAccepted, StoreOK, updates, RestOK, PhonesOK, user
<1> QED
  BY <1>8, <1>9 DEF TInv

--------------------------------------------------------------------------------
\* Where proceed() is at an item, the item is one of the flow's.
LEMMA AtFacts ==
    ASSUME HandlersOK, NEW i \in Instances, NEW kinds, At(i, kinds)
    PROVE  /\ pc[i] = "proceed" /\ todo[i] # <<>>
           /\ Head(todo[i]) \in Items /\ Kind[Head(todo[i])] \in kinds
           /\ Tail(todo[i]) \in Seq(Items)
           /\ req[i] \in Request /\ sess[i] \in Session
           /\ SessOK(sess[i]) /\ HasCode(sess[i])
           /\ Get(sess[i], "responder_key") = req[i].id
<1>1. pc[i] = "proceed" /\ todo[i] # <<>> /\ Kind[Head(todo[i])] \in kinds
  BY DEF At
<1>2. todo[i] \in Seq(Items) /\ sess[i] \in Session /\ HandlerOK(i)
  BY DEF HandlersOK
<1>3. Head(todo[i]) \in Items /\ Tail(todo[i]) \in Seq(Items)
  BY <1>1, <1>2, HeadTailType
<1> QED
  BY <1>1, <1>2, <1>3 DEF HandlerOK, Active

\* The loop goes on with a changed session and the rest of the items.
LEMMA LoopOK ==
    ASSUME HandlersOK, NEW i \in Instances, NEW kinds, At(i, kinds),
           NEW s \in Session,
           SameReserved(s, sess[i]), sess' = [sess EXCEPT ![i] = s],
           NEW nextItems \in Seq(Items), Continue(i, nextItems),
           UNCHANGED <<pc, req>>
    PROVE  HandlersOK'
<1>1. /\ pc[i] = "proceed" /\ Tail(todo[i]) \in Seq(Items)
      /\ req[i] \in Request /\ SessOK(sess[i]) /\ HasCode(sess[i])
      /\ Get(sess[i], "responder_key") = req[i].id
  BY AtFacts
<1>2. SessOK(s) /\ HasCode(s) /\ Get(s, "responder_key") = req[i].id
  BY <1>1 DEF SameReserved, SessOK, HasCode, Get, Reserved
<1>3. /\ pc' = [pc EXCEPT ![i] = pc[i]] /\ pc[i] \in PCs
      /\ req' = [req EXCEPT ![i] = req[i]]
      /\ todo' = [todo EXCEPT ![i] = nextItems \o Tail(todo[i])]
  BY DEF HandlersOK, Continue
<1>4. nextItems \o Tail(todo[i]) \in Seq(Items)
  BY <1>1, ConcatType
<1>5. pc'[i] = "proceed" /\ req'[i] = req[i] /\ sess'[i] = s
  BY <1>1 DEF HandlersOK
<1>6. HandlerOK(i)'
  BY <1>1, <1>2, <1>5 DEF HandlerOK, Active
<1> QED
  BY <1>1, <1>3, <1>4, <1>6, HandlerUpdate

\* proceed() goes on to sync a session that has the dialled code.
LEMMA GotoSyncOK ==
    ASSUME HandlersOK, NEW i \in Instances, NEW kinds, At(i, kinds), Goto(i, "sync"),
           UNCHANGED <<req, sess, todo>>
    PROVE  HandlersOK'
<1>1. /\ pc[i] = "proceed" /\ todo[i] # <<>>
      /\ req[i] \in Request /\ SessOK(sess[i]) /\ HasCode(sess[i])
  BY AtFacts
<1>2. pc'[i] = "sync" /\ "sync" \in PCs
  BY DEF Goto, HandlersOK, PCs
<1>3. HandlerOK(i)'
  BY <1>1, <1>2 DEF HandlerOK, Active, SessOK, HasCode
<1> QED
  BY <1>2, <1>3, GotoOK

LEMMA ProceedUserTInv ==
    ASSUME TInv, NEW i \in Instances, ProceedUser(i)
    PROVE  TInv'
<1>1. HandlersOK /\ StoreOK /\ RestOK
  BY DEF TInv
<1>2. StoreOK'
  BY <1>1 DEF ProceedUser, StoreOK, updates
<1>3. CASE /\ At(i, {"menu", "prompt"})
           /\ Respond(i, Get(sess[i], "responder_key"), "RESPONSE", Head(todo[i]))
           /\ Goto(i, "sync")
  <2>1. HandlersOK'
    BY <1>1, <1>3, GotoSyncOK DEF ProceedUser
  <2>2. replies' \in [Ids -> Seq(Reply)]
    BY <1>1, <1>3, AtFacts, ActiveRequest, RespondType
  <2> QED
    BY <1>1, <1>2, <2>1, <2>2 DEF FaultsOK, TInv, RestOK, PhonesOK, ProceedUser, user
<1>4. CASE /\ At(i, {"final"})
           /\ Respond(i, Get(sess[i], "responder_key"), "RELEASE", Head(todo[i]))
           /\ Goto(i, "end")
  <2>1. HandlersOK'
    BY <1>1, <1>4, GotoPlain DEF ProceedUser, At
  <2>2. replies' \in [Ids -> Seq(Reply)]
    BY <1>1, <1>4, AtFacts, ActiveRequest, RespondType
  <2> QED
    BY <1>1, <1>2, <2>1, <2>2 DEF FaultsOK, TInv, RestOK, PhonesOK, ProceedUser, user
<1> QED
  BY <1>3, <1>4 DEF ProceedUser

LEMMA ProceedRouterTInv ==
    ASSUME TInv, NEW i \in Instances, ProceedRouter(i)
    PROVE  TInv'
<1>1. HandlersOK /\ StoreOK /\ RestOK /\ At(i, {"router"})
  BY DEF TInv, ProceedRouter
<1>2. Head(todo[i]) \in OfKind("router") /\ pc[i] # "idle"
  BY <1>1, AtFacts DEF OfKind
<1>3. HandlersOK'
  <2>1. CASE Goto(i, "fail") /\ UNCHANGED todo
    BY <1>1, <1>2, <2>1, GotoPlain DEF ProceedRouter
  <2>2. CASE \E nextItems \in RouterExec(Head(todo[i]), Get(sess[i], "init_request")) :
                Continue(i, nextItems) /\ UNCHANGED pc
    <3>1. PICK nextItems \in Seq(Items) : Continue(i, nextItems) /\ UNCHANGED pc
      BY <1>2, <2>2, RouterExecType
    <3>2. /\ sess' = [sess EXCEPT ![i] = sess[i]] /\ sess[i] \in Session /\ UNCHANGED req
          /\ SameReserved(sess[i], sess[i])
      BY <1>1 DEF ProceedRouter, HandlersOK, SameReserved
    <3> QED
      BY <1>1, <3>1, <3>2, LoopOK
  <2> QED
    BY <2>1, <2>2 DEF ProceedRouter
<1>4. StoreOK' /\ RestOK'
  BY <1>1 DEF FaultsOK, ProceedRouter, StoreOK, updates, RestOK, PhonesOK, user
<1> QED
  BY <1>3, <1>4 DEF TInv

LEMMA ProceedSetTInv ==
    ASSUME TInv, NEW i \in Instances, ProceedSet(i)
    PROVE  TInv'
<1> DEFINE x == Head(todo[i])
           s == Set(sess[i], ItemName[x], ItemValue[x])
<1>1. HandlersOK /\ StoreOK /\ RestOK /\ At(i, {"set"})
  BY DEF TInv, ProceedSet
<1>2. sess[i] \in Session /\ x \in OfKind("set")
  BY <1>1, AtFacts DEF OfKind
<1> HIDE DEF x
<1>3. ItemName[x] \in Names \ Reserved /\ ItemValue[x] \in Values \cup {Nil}
  BY <1>2, FlowAssumption
<1>4. s \in Session /\ SameReserved(s, sess[i])
  BY <1>2, <1>3, SetItemFacts
<1>5. /\ sess' = [sess EXCEPT ![i] = s] /\ Continue(i, <<>>) /\ UNCHANGED <<pc, req>>
      /\ <<>> \in Seq(Items)
  BY DEF ProceedSet, x
<1>6. HandlersOK'
  BY <1>1, <1>4, <1>5, LoopOK
<1>7. StoreOK' /\ RestOK'
  BY <1>1 DEF FaultsOK, ProceedSet, StoreOK, updates, RestOK, PhonesOK, user
<1> QED
  BY <1>6, <1>7 DEF TInv

LEMMA ProceedFuncTInv ==
    ASSUME TInv, NEW i \in Instances, ProceedFunc(i)
    PROVE  TInv'
<1>1. HandlersOK /\ StoreOK /\ RestOK /\ At(i, {"func"})
  BY DEF TInv, ProceedFunc
<1>2. sess[i] \in Session /\ Head(todo[i]) \in OfKind("func") /\ pc[i] # "idle"
  BY <1>1, AtFacts DEF OfKind
<1>3. PICK e \in FuncEffects[Head(todo[i])] :
         \/ e = Failed /\ Goto(i, "fail") /\ UNCHANGED <<sess, todo>>
         \/ /\ e # Failed
            /\ sess' = [sess EXCEPT ![i] = SetAll(sess[i], e)]
            /\ Continue(i, <<>>)
            /\ UNCHANGED pc
  BY Zenon DEF ProceedFunc
<1>4. UNCHANGED req /\ <<>> \in Seq(Items)
  BY DEF ProceedFunc
<1>5. HandlersOK'
  <2>1. CASE Goto(i, "fail") /\ UNCHANGED <<sess, todo>>
    BY <1>1, <1>2, <1>4, <2>1, GotoPlain
  <2>2. CASE /\ e # Failed
             /\ sess' = [sess EXCEPT ![i] = SetAll(sess[i], e)]
             /\ Continue(i, <<>>)
             /\ UNCHANGED pc
    <3>1. e \in Data /\ \A n \in Reserved : e[n] = Nil
      BY <1>2, <2>2, FlowAssumption
    <3>2. SetAll(sess[i], e) \in Session /\ SameReserved(SetAll(sess[i], e), sess[i])
      BY <1>2, <3>1, SetAllFacts, FlowAssumption DEF SameReserved
    <3> QED
      BY <1>1, <1>4, <2>2, <3>2, LoopOK
  <2> QED
    BY <1>3, <2>1, <2>2
<1>6. StoreOK' /\ RestOK'
  BY <1>1 DEF FaultsOK, ProceedFunc, StoreOK, updates, RestOK, PhonesOK, user
<1> QED
  BY <1>5, <1>6 DEF TInv

LEMMA ProceedWaitTInv ==
    ASSUME TInv, NEW i \in Instances, ProceedWait(i)
    PROVE  TInv'
<1>1. HandlersOK /\ StoreOK /\ RestOK /\ At(i, {"wait"}) /\ pc[i] # "idle"
  BY DEF TInv, ProceedWait, At
<1>2. HandlersOK'
  <2>1. CASE Goto(i, "sync")
    BY <1>1, <2>1, GotoSyncOK DEF ProceedWait
  <2>2. CASE Goto(i, "fail")
    BY <1>1, <2>2, GotoPlain DEF ProceedWait
  <2> QED
    BY <2>1, <2>2 DEF ProceedWait
<1>3. StoreOK' /\ RestOK'
  BY <1>1 DEF FaultsOK, ProceedWait, StoreOK, updates, RestOK, PhonesOK, user
<1> QED
  BY <1>2, <1>3 DEF TInv

LEMMA ProceedLostTInv ==
    ASSUME TInv, NEW i \in Instances, ProceedLost(i)
    PROVE  TInv'
<1>1. HandlersOK /\ StoreOK /\ RestOK /\ pc[i] # "idle"
  BY DEF TInv, ProceedLost, At
<1>2. HandlersOK'
  BY <1>1, GotoPlain DEF ProceedLost
<1>3. StoreOK' /\ RestOK'
  BY <1>1 DEF FaultsOK, ProceedLost, StoreOK, updates, RestOK, PhonesOK, user
<1> QED
  BY <1>2, <1>3 DEF TInv

--------------------------------------------------------------------------------
\* What a sync leaves at the server: the current item, and the code with it.
LEMMA SyncedFacts ==
    ASSUME HandlersOK, NEW i \in Instances, pc[i] = "sync", NEW d \in Data, StoredOK(d),
           NEW e, e = RestSync(d, Set(sess[i], "current_item_id", Head(todo[i])))
    PROVE  /\ e \in Data /\ StoredOK(e)
           /\ e["current_item_id"] = Head(todo[i]) /\ Head(todo[i]) \in Items
           /\ e["init_request"] = sess[i].namesToSet["init_request"]
<1> DEFINE s == Set(sess[i], "current_item_id", Head(todo[i]))
<1>1. todo[i] \in Seq(Items) /\ todo[i] # <<>> /\ sess[i] \in Session
  BY DEF HandlersOK, HandlerOK
<1>2. Head(todo[i]) \in Items /\ Head(todo[i]) \in Values /\ Head(todo[i]) # Nil
  BY <1>1, HeadTailType, FlowAssumption, NilAssumption
<1>3. SessOK(sess[i]) /\ HasCode(sess[i])
  BY DEF HandlersOK, HandlerOK
<1>4. s \in Session
  BY <1>1, <1>2, SetType, ReservedNames
<1>5. /\ s.namesToSet["current_item_id"] = Head(todo[i])
      /\ "current_item_id" \notin s.namesToDel
      /\ s.namesToSet["init_request"] = sess[i].namesToSet["init_request"]
      /\ "init_request" \in s.namesToDel <=> "init_request" \in sess[i].namesToDel
      /\ s.namesToSet["next_item_ids"] = sess[i].namesToSet["next_item_ids"]
  BY <1>1, <1>2, SetValue, ReservedNames
<1> HIDE DEF s
<1>6. /\ e \in Data
      /\ \A n \in Names \ s.namesToDel :
            e[n] = IF s.namesToSet[n] # Nil THEN s.namesToSet[n] ELSE d[n]
      /\ \A n \in s.namesToDel : e[n] = Nil
  BY <1>4, RestSyncFacts DEF s
<1>7. /\ e["current_item_id"] = Head(todo[i]) /\ e["init_request"] # Nil
      /\ e["init_request"] = sess[i].namesToSet["init_request"]
  BY <1>2, <1>3, <1>5, <1>6, ReservedNames DEF HasCode
<1>8. e["next_item_ids"] = Nil
  BY <1>3, <1>5, <1>6, ReservedNames DEF SessOK, StoredOK
<1> QED
  BY <1>2, <1>6, <1>7, <1>8 DEF StoredOK

\* The lookup of a PUT leaves d in the map that the session and every PUT that has
\* looked up the same session share.
Found(i, d) ==
    /\ StoredOK(d)
    /\ d["current_item_id"] = Head(todo[i])
    /\ d["init_request"] = sess[i].namesToSet["init_request"]
    /\ store[Msisdn(i)] # NoSession
    /\ store' = [store EXCEPT ![Msisdn(i)] = d]
    /\ puts'[req[i].id] = [msisdn |-> Msisdn(i), made |-> made[Msisdn(i)], data |-> d]
    /\ puts' \in [Ids -> Update \cup {NoSession}]
    /\ \A q \in Ids : q # req[i].id =>
          \/ puts'[q] = puts[q]
          \/ /\ puts[q] # NoSession /\ puts[q].msisdn = Msisdn(i)
             /\ puts[q].made = made[Msisdn(i)]
             /\ puts'[q] = [puts[q] EXCEPT !.data = d]

LEMMA UpdFindsFacts ==
    ASSUME HandlersOK, StoreOK, NEW i \in Instances, pc[i] = "sync",
           UpdFinds(i, Set(sess[i], "current_item_id", Head(todo[i])))
    PROVE  \E d \in Data : Found(i, d)
<1> DEFINE m == Msisdn(i)
           id == req[i].id
           e == RestSync(store[m], Set(sess[i], "current_item_id", Head(todo[i])))
<1>1. m \in Msisdns /\ id \in Ids
  BY ActiveRequest
<1>2. /\ store[m] # NoSession /\ store' = [store EXCEPT ![m] = e]
      /\ puts' = [q \in Ids |->
              IF q = id THEN [msisdn |-> m, made |-> made[m], data |-> e]
              ELSE IF puts[q] # NoSession /\ puts[q].msisdn = m /\ puts[q].made = made[m]
              THEN [puts[q] EXCEPT !.data = e]
              ELSE puts[q]]
  BY DEF UpdFinds, Store
<1>3. store[m] \in Data /\ StoredOK(store[m]) /\ made[m] \in Ids
  BY <1>1, <1>2 DEF StoreOK
<1>4. /\ e \in Data /\ StoredOK(e) /\ e["current_item_id"] = Head(todo[i])
      /\ e["init_request"] = sess[i].namesToSet["init_request"]
  BY <1>3, SyncedFacts
<1> HIDE DEF e, m, id
<1>5. puts' \in [Ids -> Update \cup {NoSession}]
  <2> SUFFICES ASSUME NEW q \in Ids
               PROVE  puts'[q] \in Update \cup {NoSession}
    BY <1>2
  <2>1. puts[q] \in Update \cup {NoSession}
    BY DEF StoreOK
  <2> QED
    BY <1>1, <1>2, <1>3, <1>4, <2>1 DEF Update
<1>6. /\ puts'[id] = [msisdn |-> m, made |-> made[m], data |-> e]
      /\ \A q \in Ids : q # id =>
            \/ puts'[q] = puts[q]
            \/ /\ puts[q] # NoSession /\ puts[q].msisdn = m /\ puts[q].made = made[m]
               /\ puts'[q] = [puts[q] EXCEPT !.data = e]
  BY <1>1, <1>2
<1> QED
  BY <1>2, <1>4, <1>5, <1>6 DEF Found, m, id

\* The local copy is not used any more once the PUT is under way.
LEMMA SyncSessionTInv ==
    ASSUME TInv, NEW i \in Instances, SyncSession(i)
    PROVE  TInv'
<1>1. HandlersOK /\ StoreOK /\ RestOK /\ pc[i] = "sync"
  BY DEF TInv, SyncSession
<1>2. HandlersOK'
  <2>1. CASE Finish(i)
    BY <1>1, <2>1, FinishOK
  <2>2. CASE Goto(i, "put") /\ Drop(i) /\ UNCHANGED req
    <3>1. /\ pc' = [pc EXCEPT ![i] = "put"] /\ "put" \in PCs
          /\ req' = [req EXCEPT ![i] = req[i]] /\ req[i] \in Request
          /\ sess' = [sess EXCEPT ![i] = NewSession(NoData)]
          /\ todo' = [todo EXCEPT ![i] = <<>>] /\ <<>> \in Seq(Items)
      BY <1>1, <2>2, ActiveRequest DEF Goto, Drop, PCs, HandlersOK
    <3>2. pc'[i] = "put" /\ req'[i] = req[i] /\ sess'[i] = NewSession(NoData)
      BY <1>1, <3>1 DEF HandlersOK
    <3>3. HandlerOK(i)'
      BY <3>1, <3>2, NoSessionFacts DEF HandlerOK, Active
    <3> QED
      BY <1>1, <3>1, <3>3, NoSessionFacts, HandlerUpdate
  <2> QED
    BY <2>1, <2>2 DEF SyncSession
<1>3. StoreOK'
  <2>1. CASE UpdFinds(i, Set(sess[i], "current_item_id", Head(todo[i])))
    <3>1. Msisdn(i) \in Msisdns /\ req[i].id \in Ids /\ UNCHANGED made
      BY <1>1, ActiveRequest DEF SyncSession
    <3>2. PICK d \in Data : Found(i, d)
      BY <1>1, <2>1, UpdFindsFacts
    <3>3. ASSUME NEW q \in Ids, puts'[q] # NoSession
          PROVE  StoredOK(puts'[q].data)
      BY <1>1, <3>2, <3>3 DEF Found, StoreOK, Update
    <3> QED
      BY <1>1, <3>1, <3>2, <3>3 DEF Found, StoreOK
  <2>2. CASE UNCHANGED <<store, puts>>
    BY <1>1, <2>2 DEF StoreOK, SyncSession
  <2> QED
    BY <2>1, <2>2 DEF SyncSession
<1>4. RestOK'
  <2>1. FaultsOK'
    BY <1>1, FaultType DEF SyncSession
  <2> QED
    BY <1>1, <2>1 DEF SyncSession, RestOK, PhonesOK, user
<1> QED
  BY <1>2, <1>3, <1>4 DEF TInv

LEMMA SyncReturnsTInv ==
    ASSUME TInv, NEW i \in Instances, SyncReturns(i)
    PROVE  TInv'
<1>1. HandlersOK /\ StoreOK /\ RestOK
  BY DEF TInv
<1>2. HandlersOK'
  BY <1>1, FinishOK DEF SyncReturns
<1>3. FaultsOK'
  BY <1>1, FaultType DEF SyncReturns
<1>4. StoreOK' /\ RestOK'
  BY <1>1, <1>3 DEF SyncReturns, StoreOK, updates, RestOK, PhonesOK, user
<1> QED
  BY <1>2, <1>4 DEF TInv

\* The server stores a session that it looked up earlier.
LEMMA UpdStoresTInv ==
    ASSUME TInv, NEW q \in Ids, UpdStores(q)
    PROVE  TInv'
<1>1. HandlersOK /\ StoreOK /\ RestOK
  BY DEF TInv
<1>2. HandlersOK'
  <2>1. \A j \in Instances : HandlerOK(j)'
    BY <1>1, HandlerFrame DEF UpdStores, HandlersOK, handler
  <2> QED
    BY <1>1, <2>1 DEF UpdStores, HandlersOK, handler
<1>3. StoreOK'
  <2>1. /\ puts[q] \in Update /\ puts[q].msisdn \in Msisdns /\ puts[q].made \in Ids
        /\ puts[q].made # 0 /\ puts[q].data \in Data /\ StoredOK(puts[q].data)
    BY <1>1 DEF UpdStores, StoreOK, Update, Ids
  <2> QED
    BY <1>1, <2>1 DEF UpdStores, StoreOK
<1>4. RestOK'
  BY <1>1 DEF UpdStores, RestOK, PhonesOK, user, FaultsOK
<1> QED
  BY <1>2, <1>3, <1>4 DEF TInv

\* The three handlers that delete the session.
LEMMA DeletingTInv ==
    ASSUME TInv, NEW i \in Instances, EndSession(i) \/ FailSession(i) \/ UserAbort(i)
    PROVE  TInv'
<1>1. HandlersOK /\ StoreOK /\ RestOK /\ pc[i] # "idle" /\ SessionsDel(i)
  BY DEF TInv, EndSession, FailSession, UserAbort
<1>2. HandlersOK'
  BY <1>1, FinishOK, FailOK DEF EndSession, FailSession, UserAbort
<1>3. StoreOK'
  BY <1>1, SessionsDelOK DEF EndSession, FailSession, UserAbort
<1>4. FaultsOK'
  BY <1>1, FaultType DEF SessionsDel
<1>5. RestOK'
  BY <1>1, <1>4 DEF EndSession, FailSession, UserAbort, RestOK, PhonesOK, user
<1> QED
  BY <1>2, <1>3, <1>5 DEF TInv

LEMMA HaltTInv ==
    ASSUME TInv, NEW i \in Instances, Halt(i)
    PROVE  TInv'
<1>1. HandlersOK /\ StoreOK /\ RestOK
  BY DEF TInv
<1>2. HandlersOK'
  BY <1>1, FinishOK DEF Halt, Stop
<1>3. StoreOK'
  BY <1>1 DEF Halt, Stop, StoreOK, updates
<1>4. RestOK'
  <2>1. FaultsOK'
    BY <1>1, FaultType DEF Halt, Stop
  <2>2. inbox' \in [Instances -> Seq(Request)] /\ itemByID' \in [Instances -> SUBSET Items]
    BY <1>1 DEF RestOK, Halt, Stop
  <2> QED
    BY <1>1, <2>1, <2>2 DEF Halt, Stop, RestOK, PhonesOK, user
<1> QED
  BY <1>2, <1>3, <1>4 DEF TInv

\* A step of a handler.
LEMMA HandlerStepTInv ==
    ASSUME TInv, NEW i \in Instances, HandlerStep(i)
    PROVE  TInv'
BY HandleRequestTInv, ReplyErrorTInv, StartNewTInv, StartInitTInv, InputGetTInv,
   InputNotExpectedTInv, InputRefusedTInv, InputAcceptedTInv, ProceedUserTInv,
   ProceedRouterTInv, ProceedSetTInv, ProceedFuncTInv, ProceedWaitTInv, ProceedLostTInv,
   SyncSessionTInv, SyncReturnsTInv, DeletingTInv
   DEF HandlerStep

--------------------------------------------------------------------------------
\* A new request gets the next reply address.
LEMMA DeliverFacts ==
    ASSUME RestOK, NEW m \in Msisdns, nreq < MaxRequests,
           NEW type \in {"START", "CONTINUE", "ABORT", "unknown"},
           NEW text \in Values \cup {Nil}, Deliver(m, type, text)
    PROVE  \E i \in Instances, r \in Request :
              r.id = nreq + 1 /\ inbox' = [inbox EXCEPT ![i] = Append(inbox[i], r)]
<1> DEFINE r == [id |-> nreq + 1, type |-> type, msisdn |-> m, text |-> text,
                 shown |-> phone[m].shown]
<1>1. nreq + 1 \in Ids
  BY ServiceAssumption DEF RestOK, Ids
<1>2. phone[m].shown \in Items \cup {Nil}
  BY DEF RestOK, PhonesOK, Phone
<1>3. r \in Request /\ r.id = nreq + 1
  BY <1>1, <1>2 DEF Request
<1>4. \E i \in Instances : inbox' = [inbox EXCEPT ![i] = Append(inbox[i], r)]
  BY DEF Deliver
<1> QED
  BY <1>3, <1>4

\* The phones send a request: one more in some inbox, or one lost.
Sending ==
    /\ nreq < MaxRequests
    /\ nreq' = nreq + 1
    /\ \/ \E i \in Instances, r \in Request :
             r.id = nreq + 1 /\ inbox' = [inbox EXCEPT ![i] = Append(inbox[i], r)]
       \/ UNCHANGED inbox
    /\ FaultsOK'
    /\ PhonesOK'
    /\ UNCHANGED <<store, updates, handler, itemByID, replies>>

LEMMA SendFacts ==
    ASSUME RestOK, NEW m \in Msisdns,
           NEW type \in {"START", "CONTINUE", "ABORT", "unknown"},
           NEW text \in Values \cup {Nil}, Send(m, type, text),
           PhonesOK'
    PROVE  Sending
<1>1. FaultsOK'
  BY FaultType DEF Send
<1>2. CASE Deliver(m, type, text)
  BY <1>1, <1>2, DeliverFacts DEF Send, Sending
<1>3. CASE UNCHANGED inbox
  BY <1>1, <1>3 DEF Send, Sending
<1> QED
  BY <1>2, <1>3 DEF Send

LEMMA PhoneType ==
    ASSUME RestOK, NEW m \in Msisdns
    PROVE  /\ nreq < MaxRequests /\ Await(m) => PhonesOK'
           /\ phone' = [phone EXCEPT ![m] = NoPhone] => PhonesOK'
<1>1. NoPhone \in Phone
  BY DEF NoPhone, Phone
<1>2. ASSUME nreq < MaxRequests
      PROVE  /\ [state |-> "waiting", req |-> nreq + 1, shown |-> Nil] \in Phone
             /\ nreq + 1 \in Ids
  BY <1>2, ServiceAssumption DEF RestOK, Phone, Ids
<1>3. ASSUME NEW p \in Phone, p.state = "waiting" => p.req \in Ids,
             phone' = [phone EXCEPT ![m] = p]
      PROVE  PhonesOK'
  BY <1>3 DEF RestOK, PhonesOK
<1>4. NoPhone.state # "waiting"
  BY DEF NoPhone
<1> QED
  BY <1>1, <1>2, <1>3, <1>4 DEF Await

\* Whatever a phone does but display a reply is to send a request.
LEMMA PhoneSends ==
    ASSUME RestOK, NEW m \in Msisdns, Dial(m) \/ Answer(m) \/ HangUp(m) \/ AnswerUnknown(m)
    PROVE  Sending
<1>1. CASE Dial(m)
  <2>1. PICK code \in Values \cup {Nil} : Send(m, "START", code) /\ Await(m)
    BY <1>1, FlowAssumption DEF Dial
  <2>2. PhonesOK'
    BY <2>1, PhoneType DEF Send
  <2> QED
    BY <2>1, <2>2, SendFacts
<1>2. CASE Answer(m)
  <2>1. PICK input \in Values \cup {Nil} : Send(m, "CONTINUE", input)
    BY <1>2, FlowAssumption DEF Answer
  <2>2. PhonesOK'
    BY <1>2, <2>1, PhoneType DEF Send, Answer
  <2> QED
    BY <2>1, <2>2, SendFacts
<1>3. CASE HangUp(m)
  <2>1. PICK text \in Values \cup {Nil} : Send(m, "ABORT", text)
    BY <1>3, ServiceAssumption DEF HangUp
  <2>2. PhonesOK'
    BY <1>3, PhoneType DEF HangUp
  <2> QED
    BY <2>1, <2>2, SendFacts
<1>4. CASE AnswerUnknown(m)
  <2>1. PICK input \in Values \cup {Nil} : Deliver(m, "unknown", input)
    BY <1>4, FlowAssumption DEF AnswerUnknown
  <2>2. PhonesOK'
    BY <1>4, PhoneType DEF AnswerUnknown
  <2>3. FaultsOK'
    BY <1>4, FaultType DEF AnswerUnknown
  <2> QED
    BY <1>4, <2>1, <2>2, <2>3, DeliverFacts DEF AnswerUnknown, Sending
<1> QED
  BY <1>1, <1>2, <1>3, <1>4

LEMMA SendingTInv ==
    ASSUME TInv, Sending
    PROVE  TInv'
<1>1. HandlersOK' /\ StoreOK'
  <2>1. \A j \in Instances : HandlerOK(j)'
    BY HandlerFrame DEF TInv, HandlersOK, Sending, handler
  <2> QED
    BY <2>1 DEF TInv, HandlersOK, StoreOK, Sending, handler, updates
<1>2. nreq' \in 0 .. MaxRequests
  <2>1. nreq \in 0 .. MaxRequests /\ MaxRequests \in Nat
    BY ServiceAssumption DEF TInv, RestOK
  <2> QED
    BY <2>1 DEF Sending
<1>3. inbox' \in [Instances -> Seq(Request)]
  <2>1. inbox \in [Instances -> Seq(Request)]
    BY DEF TInv, RestOK
  <2>2. ASSUME NEW i \in Instances, NEW r \in Request,
               inbox' = [inbox EXCEPT ![i] = Append(inbox[i], r)]
        PROVE  inbox' \in [Instances -> Seq(Request)]
    <3>1. Append(inbox[i], r) \in Seq(Request)
      BY <2>1
    <3> QED
      BY <2>1, <2>2, <3>1
  <2> QED
    BY <2>1, <2>2, Zenon DEF Sending
<1>4. RestOK'
  BY <1>2, <1>3 DEF TInv, RestOK, Sending
<1> QED
  BY <1>1, <1>4 DEF TInv

LEMMA DisplayTInv ==
    ASSUME TInv, NEW m \in Msisdns, Display(m)
    PROVE  TInv'
<1>1. HandlersOK /\ StoreOK /\ RestOK
  BY DEF TInv
<1>2. HandlersOK' /\ StoreOK'
  <2>1. \A j \in Instances : HandlerOK(j)'
    BY <1>1, HandlerFrame DEF HandlersOK, Display, handler
  <2> QED
    BY <1>1, <2>1 DEF HandlersOK, StoreOK, Display, handler, updates
<1>3. PhonesOK'
  <2> DEFINE q == phone[m].req
             r == Head(replies[q])
             p == IF r.type = "RESPONSE"
                  THEN [state |-> "prompted", req |-> q, shown |-> r.item]
                  ELSE NoPhone
  <2>1. phone[m] \in Phone
    BY <1>1 DEF RestOK, PhonesOK
  <2>2. q \in Ids /\ replies[q] # <<>>
    BY <1>1 DEF RestOK, PhonesOK, Display
  <2>3. r \in Reply
    BY <1>1, <2>2, HeadTailType DEF RestOK
  <2>4. p \in Phone /\ p.state # "waiting"
    BY <2>2, <2>3 DEF Reply, Phone, NoPhone
  <2>5. phone' = [phone EXCEPT ![m] = p]
    BY DEF Display
  <2> HIDE DEF p
  <2> QED
    BY <1>1, <2>4, <2>5 DEF RestOK, PhonesOK
<1>4. RestOK'
  BY <1>1, <1>3 DEF FaultsOK, RestOK, Display
<1> QED
  BY <1>2, <1>4 DEF TInv

\* The session server loses its sessions, and nothing else changes.
LEMMA ServerRestartTInv ==
    ASSUME TInv, ServerRestart
    PROVE  TInv'
<1>1. \A j \in Instances : HandlerOK(j)'
  BY HandlerFrame DEF ServerRestart, TInv, HandlersOK, handler
<1>2. HandlersOK'
  BY <1>1 DEF ServerRestart, TInv, HandlersOK, handler
<1>3. StoreOK'
  BY DEF ServerRestart, StoreOK, TInv
<1>4. FaultsOK'
  BY FaultType DEF ServerRestart, TInv, RestOK
<1>5. RestOK'
  BY <1>4 DEF ServerRestart, TInv, RestOK, PhonesOK, user
<1> QED
  BY <1>2, <1>3, <1>5 DEF TInv

\* A step that changes nothing.
LEMMA StutterTInv ==
    ASSUME TInv, UNCHANGED vars
    PROVE  TInv'
<1>1. \A j \in Instances : HandlerOK(j)'
  BY HandlerFrame DEF TInv, HandlersOK, vars, handler
<1> QED
  BY <1>1 DEF FaultsOK, TInv, HandlersOK, StoreOK, RestOK, PhonesOK, vars, handler, user, updates

LEMMA InitTInv ==
    ASSUME Init
    PROVE  TInv
<1>1. HandlersOK
  BY NoSessionFacts DEF Init, HandlersOK, HandlerOK, Active, PCs
<1>2. StoreOK
  BY DEF Init, StoreOK
<1>3. RestOK
  BY ServiceAssumption DEF FaultsOK, Init, RestOK, PhonesOK, Phone, NoPhone
<1> QED
  BY <1>1, <1>2, <1>3 DEF TInv

\* The first layer of the invariant holds in every reachable state.
THEOREM SpecTInv == Spec => []TInv
<1>1. ASSUME TInv, [Next]_vars
      PROVE  TInv'
  <2>1. ASSUME NEW i \in Instances, HandlerStep(i) \/ Halt(i)
        PROVE  TInv'
    BY <1>1, <2>1, HandlerStepTInv, HaltTInv
  <2>2. ASSUME NEW m \in Msisdns,
               Dial(m) \/ Answer(m) \/ HangUp(m) \/ AnswerUnknown(m) \/ Display(m)
        PROVE  TInv'
    BY <1>1, <2>2, PhoneSends, SendingTInv, DisplayTInv DEF TInv
  <2>3. CASE UNCHANGED vars
    BY <1>1, <2>3, StutterTInv
  <2>4. CASE ServerRestart
    BY <1>1, <2>4, ServerRestartTInv
  <2>5. ASSUME NEW q \in Ids, UpdStores(q)
        PROVE  TInv'
    BY <1>1, <2>5, UpdStoresTInv
  <2> QED
    BY <1>1, <2>1, <2>2, <2>3, <2>4, <2>5, NextSteps
<1> QED
  BY <1>1, InitTInv, PTL DEF Spec

\* Type correctness: every variable has its type in every reachable state, so
\* no reply is sent to an address that is not one of a request, and nothing but
\* items is ever queued.
THEOREM SpecTypeOK == Spec => []TypeOK
<1>1. TInv => TypeOK
  BY DEF TInv, HandlersOK, StoreOK, RestOK, PhonesOK, TypeOK
<1> QED
  BY <1>1, SpecTInv, PTL

\* A Router never panics on init_request (ussd/item-router.go): whatever other
\* handlers do to the session in between, a handler that executes items has the
\* dialled code.
THEOREM SpecRouterFindsCode == Spec => []RouterFindsCode
<1>1. TInv => RouterFindsCode
  BY DEF TInv, HandlersOK, HandlerOK, HasCode, RouterFindsCode, Get
<1> QED
  BY <1>1, SpecTInv, PTL

--------------------------------------------------------------------------------
(***************************************************************************)
(* The steps of a handler as the other layers see them.                    *)
(***************************************************************************)

\* The handlers that write to the session server, and what they can write.
LEMMA StoreSteps ==
    ASSUME TInv, NEW i \in Instances, HandlerStep(i) \/ Halt(i)
    PROVE  \/ UNCHANGED <<store, updates>>
           \/ pc[i] = "new" /\ handleNewSession(i, UssdData(req[i])) /\ UNCHANGED puts
           \/ pc[i] # "idle" /\ handleDelSession(i) /\ UNCHANGED puts
           \/ /\ pc[i] = "sync" /\ UNCHANGED made
              /\ UpdFinds(i, Set(sess[i], "current_item_id", Head(todo[i])))
<1> USE DEF updates
<1>1. CASE StartNew(i)
  BY <1>1 DEF StartNew, SessionsNew, SessionsNewFails
<1>2. CASE SyncSession(i)
  BY <1>2 DEF SyncSession
<1>3. CASE EndSession(i) \/ FailSession(i) \/ UserAbort(i)
  BY <1>3 DEF EndSession, FailSession, UserAbort, SessionsDel
<1>4. CASE \/ HandleRequest(i) \/ ReplyError(i) \/ StartInit(i) \/ InputGet(i)
           \/ InputNotExpected(i) \/ InputRefused(i) \/ InputAccepted(i)
           \/ ProceedUser(i) \/ ProceedRouter(i) \/ ProceedSet(i) \/ ProceedFunc(i)
           \/ ProceedWait(i) \/ ProceedLost(i) \/ SyncReturns(i) \/ Halt(i)
  BY <1>4 DEF HandleRequest, ReplyError, StartInit, InputGet, InputNotExpected,
     InputRefused, InputAccepted, ProceedUser, ProceedRouter, ProceedSet, ProceedFunc,
     ProceedWait, ProceedLost, SyncReturns, Halt, Stop
<1> QED
  BY <1>1, <1>2, <1>3, <1>4 DEF HandlerStep

\* Handler i answers its own request, and is not going to do so again.
Answers(i, type, item) ==
    /\ pc[i] \in {"reply_error", "process", "proceed"}
    /\ Respond(i, req[i].id, type, item)
    /\ type \in {"RESPONSE", "RELEASE", "ERROR"} /\ item \in Items \cup {Nil}
    /\ pc'[i] \in {"idle", "sync", "end"}

\* A handler that has answered, or that does not.
Done == {"idle", "sync", "put", "end"}

\* Handler i keeps its request or drops it.
KeepsRequest(i) ==
    /\ inbox' = inbox \/ inbox' = [inbox EXCEPT ![i] = <<>>]
    /\ pc'[i] # "idle" => req'[i] = req[i] /\ pc[i] # "idle"
    /\ pc'[i] \notin Done => pc[i] \notin Done

OthersKept(i) ==
    \A j \in Instances \ {i} : pc'[j] = pc[j] /\ req'[j] = req[j] /\ todo'[j] = todo[j]

\* Every step of a handler but the first takes no new request, and answers the
\* one it has or leaves the replies alone.
LEMMA HandlerSteps ==
    ASSUME TInv, NEW i \in Instances, HandlerStep(i) \/ Halt(i)
    PROVE  /\ OthersKept(i)
           /\ \/ HandleRequest(i)
              \/ /\ KeepsRequest(i)
                 /\ \/ UNCHANGED replies
                    \/ \E type, item : Answers(i, type, item)
<1> USE DEF OthersKept, KeepsRequest, Done
<1>1. HandlersOK
  BY DEF TInv
<1>2. CASE HandleRequest(i)
  BY <1>1, <1>2 DEF HandleRequest, HandlersOK, Goto
<1>3. CASE Halt(i)
  BY <1>1, <1>3 DEF Halt, Stop, Finish, Drop, HandlersOK, Goto
<1>4. CASE ReplyError(i)
  <2>1. Answers(i, "ERROR", Nil)
    BY <1>1, <1>4 DEF ReplyError, Answers, Finish, Drop, Goto, HandlersOK
  <2> QED
    BY <1>1, <1>4, <2>1 DEF ReplyError, Finish, Drop, HandlersOK, Goto
<1>5. CASE InputRefused(i)
  <2>1. Answers(i, "RESPONSE", CurrentItem(i))
    BY <1>1, <1>5 DEF InputRefused, Answers, Finish, Drop, Goto, HandlersOK, ItemUsrPrompt, OfKind
  <2> QED
    BY <1>1, <1>5, <2>1 DEF InputRefused, Finish, Drop, HandlersOK, Goto
<1>6. CASE ProceedUser(i)
  <2>1. Answers(i, "RESPONSE", Head(todo[i])) \/ Answers(i, "RELEASE", Head(todo[i]))
    <3>1. /\ pc[i] = "proceed" /\ Get(sess[i], "responder_key") = req[i].id
          /\ Head(todo[i]) \in Items
      BY <1>1, <1>6, AtFacts DEF ProceedUser
    <3> QED
      BY <1>1, <1>6, <3>1 DEF ProceedUser, Answers, Goto, HandlersOK
  <2>2. KeepsRequest(i) /\ OthersKept(i)
    BY <1>1, <1>6 DEF ProceedUser, At, HandlersOK, Goto
  <2> QED
    BY <2>1, <2>2
<1>7. CASE StartNew(i) \/ StartInit(i) \/ InputGet(i) \/ InputNotExpected(i) \/ InputAccepted(i)
  BY <1>1, <1>7 DEF StartNew, StartInit, InputGet, InputNotExpected, InputAccepted,
     BeginProceed, Fail, HandlersOK, Goto
<1>8. CASE \/ ProceedRouter(i) \/ ProceedSet(i) \/ ProceedFunc(i)
           \/ ProceedWait(i) \/ ProceedLost(i)
  BY <1>1, <1>8 DEF ProceedRouter, ProceedSet, ProceedFunc, ProceedWait, ProceedLost,
     At, Continue, HandlersOK, Goto
<1>9. CASE \/ SyncSession(i) \/ SyncReturns(i) \/ EndSession(i) \/ FailSession(i)
           \/ UserAbort(i)
  BY <1>1, <1>9 DEF SyncSession, SyncReturns, EndSession, FailSession, UserAbort, Finish,
     Drop, Fail,
     HandlersOK, Goto
<1> QED
  BY <1>2, <1>3, <1>4, <1>5, <1>6, <1>7, <1>8, <1>9 DEF HandlerStep

\* Replies are added at the end and never taken back.
RepliesKept ==
    \A q \in Ids : \A k \in DOMAIN replies[q] :
       k \in DOMAIN replies'[q] /\ replies'[q][k] = replies[q][k]

LEMMA RespondFacts ==
    ASSUME TInv, NEW i \in Instances, NEW type, NEW item, Answers(i, type, item)
    PROVE  /\ RepliesKept
           /\ replies'[req[i].id] = Append(replies[req[i].id],
                 [type |-> type, item |-> item, msisdn |-> Msisdn(i)])
           /\ \A q \in Ids \ {req[i].id} : replies'[q] = replies[q]
<1> DEFINE id == req[i].id
           r == [type |-> type, item |-> item, msisdn |-> Msisdn(i)]
<1>1. id \in Ids /\ Msisdn(i) \in Msisdns
  BY ActiveRequest DEF TInv, Answers
<1>2. r \in Reply
  BY <1>1 DEF Answers, Reply
<1>3. replies \in [Ids -> Seq(Reply)]
  BY DEF TInv, RestOK
<1>4. replies' = [replies EXCEPT ![id] = Append(replies[id], r)]
  BY DEF Answers, Respond
<1> HIDE DEF id, r
<1>5. /\ replies'[id] = Append(replies[id], r)
      /\ \A q \in Ids \ {id} : replies'[q] = replies[q]
  BY <1>1, <1>3, <1>4
<1>6. \A k \in DOMAIN replies[id] :
         k \in DOMAIN replies'[id] /\ replies'[id][k] = replies[id][k]
  BY <1>1, <1>2, <1>3, <1>5
<1>7. RepliesKept
  BY <1>5, <1>6 DEF RepliesKept
<1> QED
  BY <1>5, <1>7 DEF id, r

LEMMA HandlerRepliesKept ==
    ASSUME TInv, NEW i \in Instances, HandlerStep(i) \/ Halt(i)
    PROVE  RepliesKept
<1>1. CASE UNCHANGED replies
  BY <1>1 DEF RepliesKept
<1>2. CASE HandleRequest(i)
  BY <1>2 DEF HandleRequest, RepliesKept
<1> QED
  BY <1>1, <1>2, HandlerSteps, RespondFacts

--------------------------------------------------------------------------------
(***************************************************************************)
(* The second layer, SInv: proceed() responds before its deferred function *)
(* syncs, so what the server names as current has been sent.               *)
(***************************************************************************)

LEMMA ShownKept ==
    ASSUME RepliesKept, NEW m, NEW x, Shown(m, x)
    PROVE  Shown(m, x)'
BY DEF RepliesKept, Shown

\* A handler comes to its sync by responding with the current item, or by
\* waiting at it.
LEMMA SyncEntry ==
    ASSUME TInv, NEW i \in Instances, HandlerStep(i) \/ Halt(i), pc'[i] = "sync"
    PROVE  /\ req'[i] = req[i] /\ todo'[i] = todo[i]
           /\ \/ Answers(i, "RESPONSE", Head(todo[i]))
              \/ Kind[Head(todo[i])] = "wait"
<1>1. HandlersOK
  BY DEF TInv
<1>2. CASE HandleRequest(i)
  <2>1. pc'[i] = Dispatch(Head(inbox[i]))
    BY <1>1, <1>2 DEF HandleRequest, Goto, HandlersOK
  <2> QED
    BY <2>1 DEF Dispatch
<1>3. CASE ProceedUser(i)
  <2>1. At(i, {"menu", "prompt"})
    BY <1>1, <1>3 DEF ProceedUser, Goto, HandlersOK
  <2>2. /\ pc[i] = "proceed" /\ Get(sess[i], "responder_key") = req[i].id
        /\ Head(todo[i]) \in Items /\ Kind[Head(todo[i])] \in {"menu", "prompt"}
    BY <1>1, <2>1, AtFacts
  <2> QED
    BY <1>1, <1>3, <2>2 DEF ProceedUser, Answers, At, Goto, HandlersOK
<1>4. CASE ProceedWait(i)
  BY <1>1, <1>4 DEF ProceedWait, At
<1>5. CASE ReplyError(i) \/ InputRefused(i) \/ Halt(i) \/ SyncSession(i) \/ SyncReturns(i)
           \/ EndSession(i) \/ UserAbort(i) \/ FailSession(i)
  BY <1>1, <1>5 DEF ReplyError, InputRefused, Halt, Stop, SyncSession, SyncReturns, EndSession,
     UserAbort, FailSession, Fail, Finish, Drop, Goto, HandlersOK
<1>6. CASE StartNew(i) \/ StartInit(i) \/ InputGet(i) \/ InputNotExpected(i) \/ InputAccepted(i)
  BY <1>1, <1>6 DEF StartNew, StartInit, InputGet, InputNotExpected, InputAccepted,
     BeginProceed, Fail, Goto, HandlersOK
<1>7. CASE ProceedRouter(i) \/ ProceedSet(i) \/ ProceedFunc(i) \/ ProceedLost(i)
  BY <1>1, <1>7 DEF ProceedRouter, ProceedSet, ProceedFunc, ProceedLost, At, Goto, HandlersOK
<1> QED
  BY <1>2, <1>3, <1>4, <1>5, <1>6, <1>7 DEF HandlerStep

\* What is stored or about to be stored was shown before, and stays so.
LEMMA StoredKept ==
    ASSUME SInv, RepliesKept, SyncShown', UNCHANGED <<store, updates>>
    PROVE  SInv'
<1>1. StoreNeverAhead'
  <2> SUFFICES ASSUME NEW m \in Msisdns, NEW x \in Items,
                      store'[m] # NoSession, store'[m]["current_item_id"] = x
               PROVE  Shown(m, x)'
    BY DEF StoreNeverAhead, Shown
  <2>1. Shown(m, x)
    BY DEF SInv, StoreNeverAhead, Shown
  <2> QED
    BY <2>1, ShownKept
<1>2. PutsShown'
  BY DEF SInv, PutsShown, Shown, RepliesKept, updates
<1> QED
  BY <1>1, <1>2 DEF SInv

LEMMA HandlerSInv ==
    ASSUME TInv, SInv, NEW i \in Instances, HandlerStep(i) \/ Halt(i)
    PROVE  SInv'
<1>1. RepliesKept
  BY HandlerRepliesKept
<1>2. SyncShown'
  <2>1. ASSUME NEW j \in Instances, j # i, pc'[j] = "sync"
        PROVE  Shown(req[j].msisdn, Head(todo[j]))'
    <3>1. pc[j] = "sync" /\ req'[j] = req[j] /\ todo'[j] = todo[j]
      BY <2>1, HandlerSteps DEF OthersKept
    <3>2. Shown(req[j].msisdn, Head(todo[j]))
      BY <3>1 DEF SInv, SyncShown
    <3> QED
      BY <1>1, <3>1, <3>2 DEF RepliesKept, Shown
  <2>2. ASSUME pc'[i] = "sync"
        PROVE  Shown(req[i].msisdn, Head(todo[i]))'
    <3>1. req'[i] = req[i] /\ todo'[i] = todo[i]
      BY <2>2, SyncEntry
    <3>2. CASE Kind[Head(todo[i])] = "wait"
      BY <3>1, <3>2 DEF Shown
    <3>3. CASE Answers(i, "RESPONSE", Head(todo[i]))
      <4> DEFINE id == req[i].id
                 r == [type |-> "RESPONSE", item |-> Head(todo[i]), msisdn |-> req[i].msisdn]
                 n == Len(replies[id]) + 1
      <4>1. id \in Ids /\ req[i].msisdn \in Msisdns
        BY <3>3, ActiveRequest DEF TInv, Answers, Msisdn
      <4>2. replies[id] \in Seq(Reply) /\ r \in Reply
        BY <3>3, <4>1 DEF TInv, RestOK, Answers, Reply
      <4>3. replies'[id] = Append(replies[id], r)
        BY <3>3, RespondFacts DEF Msisdn
      <4>4. n \in DOMAIN replies'[id] /\ replies'[id][n] = r
        <5> HIDE DEF id, r
        <5> QED
          BY <4>2, <4>3
      <4> HIDE DEF id, n
      <4> QED
        BY <3>1, <4>1, <4>4 DEF Shown
    <3> QED
      BY <2>2, <3>2, <3>3, SyncEntry
  <2> QED
    BY <2>1, <2>2 DEF SyncShown
<1>3. CASE UNCHANGED <<store, updates>>
  BY <1>1, <1>2, <1>3, StoredKept
<1>4. CASE \/ pc[i] = "new" /\ handleNewSession(i, UssdData(req[i])) /\ UNCHANGED puts
           \/ pc[i] # "idle" /\ handleDelSession(i) /\ UNCHANGED puts
  <2>1. StoreNeverAhead'
    <3> SUFFICES ASSUME NEW m \in Msisdns, NEW x \in Items,
                        store'[m] # NoSession, store'[m]["current_item_id"] = x
                 PROVE  Shown(m, x)'
      BY DEF StoreNeverAhead, Shown
    <3>1. x # Nil /\ store \in [Msisdns -> Data \cup {NoSession}]
      BY FlowAssumption, NilAssumption DEF TInv, StoreOK
    <3>2. CASE store'[m] = store[m]
      <4>1. Shown(m, x)
        BY <3>2 DEF SInv, StoreNeverAhead, Shown
      <4> QED
        BY <1>1, <4>1, ShownKept
    <3>3. CASE store'[m] # store[m]
      <4>1. pc[i] = "new" /\ store'[m] = UssdData(req[i])
        BY <1>4, <3>1, <3>3 DEF Store, handleNewSession, handleDelSession
      <4>2. UssdData(req[i])["current_item_id"] = Nil
        BY <4>1, ActiveRequest, UssdDataFacts, ReservedNames DEF TInv
      <4> QED
        BY <3>1, <4>1, <4>2
    <3> QED
      BY <3>2, <3>3
  <2>2. PutsShown'
    BY <1>1, <1>4 DEF SInv, PutsShown, Shown, RepliesKept
  <2> QED
    BY <1>2, <2>1, <2>2 DEF SInv
<1>5. CASE pc[i] = "sync" /\ UpdFinds(i, Set(sess[i], "current_item_id", Head(todo[i])))
  <2>1. Msisdn(i) \in Msisdns /\ req[i].id \in Ids
    BY <1>5, ActiveRequest DEF TInv
  <2>2. PICK d \in Data : Found(i, d)
    BY <1>5, UpdFindsFacts DEF TInv
  <2>3. PICK m1 \in Msisdns : m1 = Msisdn(i)
    BY <2>1
  <2> DEFINE x1 == d["current_item_id"]
  <2>4. x1 = Head(todo[i])
    BY <2>2 DEF Found
  <2>5. Shown(m1, x1)'
    <3>1. Shown(m1, x1)
      BY <1>5, <2>3, <2>4 DEF SInv, SyncShown, Msisdn
    <3> QED
      BY <1>1, <3>1, ShownKept
  <2>6. StoreNeverAhead'
    <3> SUFFICES ASSUME NEW m \in Msisdns, NEW x \in Items,
                        store'[m] # NoSession, store'[m]["current_item_id"] = x
                 PROVE  Shown(m, x)'
      BY DEF StoreNeverAhead, Shown
    <3>1. CASE m = m1
      <4>1. x = x1
        BY <2>2, <2>3, <3>1 DEF Found, TInv, StoreOK
      <4> QED
        BY <2>5, <3>1, <4>1
    <3>2. CASE m # m1
      <4>1. Shown(m, x)
        BY <2>2, <2>3, <3>2 DEF Found, SInv, StoreNeverAhead, Shown
      <4> QED
        BY <1>1, <4>1, ShownKept
    <3> QED
      BY <3>1, <3>2
  <2>7. PutsShown'
    <3> SUFFICES ASSUME NEW q \in Ids, NEW x \in Items,
                        puts'[q] # NoSession, puts'[q].data["current_item_id"] = x
                 PROVE  Shown(puts[q].msisdn, x)'
      BY DEF PutsShown
    <3>1. PICK m \in Msisdns : m = puts'[q].msisdn
      BY <2>1, <2>2 DEF Found, TInv, StoreOK, Update
    <3>2. CASE puts'[q] = puts[q]
      <4>1. Shown(m, x)
        BY <3>1, <3>2 DEF SInv, PutsShown
      <4>2. Shown(m, x)'
        BY <1>1, <4>1, ShownKept
      <4> QED
        BY <3>1, <4>2 DEF Shown
    <3>3. CASE puts'[q] # puts[q]
      <4>1. m = m1 /\ x = x1
        BY <2>2, <2>3, <3>1, <3>3 DEF Found, TInv, StoreOK, Update
      <4> QED
        BY <2>5, <3>1, <4>1 DEF Shown
    <3> QED
      BY <3>2, <3>3
  <2> QED
    BY <1>2, <2>6, <2>7 DEF SInv
<1> QED
  BY <1>3, <1>4, <1>5, StoreSteps

\* Steps that change neither the server nor the handlers nor the replies.
LEMMA OutsideSInv ==
    ASSUME SInv, UNCHANGED <<store, updates, pc, req, todo, replies>>
    PROVE  SInv'
BY DEF SInv, SyncShown, StoreNeverAhead, PutsShown, Shown, updates

\* A server without sessions is at no prompt.
LEMMA ServerRestartSInv ==
    ASSUME SInv, ServerRestart
    PROVE  SInv'
BY DEF SInv, ServerRestart, SyncShown, StoreNeverAhead, PutsShown, Shown, handler

\* A PUT that ends stores what was shown.
LEMMA UpdStoresSInv ==
    ASSUME TInv, SInv, NEW q \in Ids, UpdStores(q)
    PROVE  SInv'
<1>1. UNCHANGED <<pc, req, todo, replies>>
  BY DEF UpdStores, handler
<1>2. /\ puts[q] # NoSession
      /\ \A m \in Msisdns : store'[m] = store[m] \/ (m = puts[q].msisdn /\ store'[m] = puts[q].data)
      /\ \A p \in Ids : puts'[p] = puts[p] \/ puts'[p] = NoSession
  BY DEF UpdStores, TInv, StoreOK
<1>3. StoreNeverAhead'
  <2> SUFFICES ASSUME NEW m \in Msisdns, NEW x \in Items,
                      store'[m] # NoSession, store'[m]["current_item_id"] = x
               PROVE  Shown(m, x)
    BY <1>1 DEF StoreNeverAhead, Shown
  <2>1. CASE store'[m] = store[m]
    BY <2>1 DEF SInv, StoreNeverAhead, Shown
  <2>2. CASE m = puts[q].msisdn /\ store'[m] = puts[q].data
    BY <1>2, <2>2 DEF SInv, PutsShown
  <2> QED
    BY <1>2, <2>1, <2>2
<1> QED
  BY <1>1, <1>2, <1>3 DEF SInv, SyncShown, PutsShown, Shown

\* A phone changes neither the server nor the handlers nor the replies.
LEMMA PhonesKeepHandlers ==
    ASSUME TInv, NEW m \in Msisdns,
           Dial(m) \/ Answer(m) \/ HangUp(m) \/ AnswerUnknown(m) \/ Display(m)
    PROVE  UNCHANGED <<store, updates, pc, req, todo, replies>>
BY PhoneSends DEF TInv, Sending, Display, handler

\* A session that the server has at an item other than a waiting one is at a
\* prompt that was sent to its subscriber, however requests, crashes and
\* failing calls interleave.
THEOREM SpecStoreNeverAhead == Spec => []StoreNeverAhead
<1>1. Init => SInv
  BY DEF Init, SInv, SyncShown, StoreNeverAhead, PutsShown
<1>2. ASSUME TInv, SInv, [Next]_vars
      PROVE  SInv'
  <2>1. ASSUME NEW i \in Instances, HandlerStep(i) \/ Halt(i)
        PROVE  SInv'
    BY <1>2, <2>1, HandlerSInv
  <2>2. ASSUME NEW m \in Msisdns,
               Dial(m) \/ Answer(m) \/ HangUp(m) \/ AnswerUnknown(m) \/ Display(m)
        PROVE  SInv'
    BY <1>2, <2>2, PhonesKeepHandlers, OutsideSInv
  <2>3. CASE UNCHANGED vars
    BY <1>2, <2>3, OutsideSInv DEF vars, handler
  <2>4. CASE ServerRestart
    BY <1>2, <2>4, ServerRestartSInv
  <2>5. ASSUME NEW q \in Ids, UpdStores(q)
        PROVE  SInv'
    BY <1>2, <2>5, UpdStoresSInv
  <2> QED
    BY <1>2, <2>1, <2>2, <2>3, <2>4, <2>5, NextSteps
<1>3. SInv => StoreNeverAhead
  BY DEF SInv
<1> QED
  BY <1>1, <1>2, <1>3, SpecTInv, PTL DEF Spec

--------------------------------------------------------------------------------
(***************************************************************************)
(* The third layer, RInv: a reply address belongs to one request, which is *)
(* with one instance, whose handler answers it at most once.               *)
(***************************************************************************)

\* The ids and texts in the inboxes are those of requests.
LEMMA InboxFacts ==
    ASSUME TInv, NEW i \in Instances, NEW k \in DOMAIN inbox[i]
    PROVE  inbox[i][k] \in Request /\ inbox[i][k].id \in Ids
<1>1. inbox[i] \in Seq(Request)
  BY DEF TInv, RestOK
<1>2. inbox[i][k] \in Request
  BY <1>1
<1> QED
  BY <1>2 DEF Request

\* A handler that keeps its request or drops it, without a reply.
LEMMA KeepsRInv ==
    ASSUME TInv, RInv, NEW i \in Instances, OthersKept(i), KeepsRequest(i), UNCHANGED nreq,
           \A q \in Ids : \/ replies'[q] = replies[q]
                          \/ /\ q = req[i].id /\ pc[i] \notin Done /\ pc'[i] \in Done
                             /\ Len(replies'[q]) <= 1
    PROVE  RInv'
<1>1. ASSUME NEW j \in Instances
      PROVE  /\ DOMAIN inbox'[j] \subseteq DOMAIN inbox[j]
             /\ \A k \in DOMAIN inbox'[j] : inbox'[j][k] = inbox[j][k]
  <2>1. inbox \in [Instances -> Seq(Request)]
    BY DEF TInv, RestOK
  <2>2. CASE inbox' = inbox
    BY <2>2
  <2>3. CASE inbox' = [inbox EXCEPT ![i] = <<>>]
    <3>1. inbox'[j] = (IF j = i THEN <<>> ELSE inbox[j])
      BY <2>1, <2>3
    <3>2. DOMAIN <<>> = {}
      OBVIOUS
    <3> QED
      BY <3>1, <3>2, Zenon
  <2> QED
    BY <2>2, <2>3 DEF KeepsRequest
<1>2. ASSUME NEW j \in Instances, pc'[j] # "idle"
      PROVE  pc[j] # "idle" /\ req'[j] = req[j]
  BY <1>2 DEF KeepsRequest, OthersKept
<1>3. ASSUME NEW j \in Instances, pc'[j] \notin Done
      PROVE  pc[j] \notin Done
  BY <1>3 DEF KeepsRequest, OthersKept
<1>4. ASSUME NEW j \in Instances, pc[j] # "idle"
      PROVE  req[j].id \in Ids
  BY <1>4, ActiveRequest DEF TInv
<1>5. Distinct'
  BY <1>1, <1>2 DEF RInv, Distinct, Active
<1>6. AtMostOneReply'
  BY DEF RInv, AtMostOneReply
<1>7. Unanswered'
  <2>1. ASSUME NEW j \in Instances, NEW k \in DOMAIN inbox'[j]
        PROVE  inbox'[j][k].id <= nreq' /\ replies'[inbox'[j][k].id] = <<>>
    <3> DEFINE q == inbox[j][k].id
    <3>1. k \in DOMAIN inbox[j] /\ inbox'[j][k].id = q
      BY <1>1, <2>1
    <3>2. q \in Ids /\ q <= nreq /\ replies[q] = <<>>
      BY <3>1, InboxFacts DEF RInv, Unanswered
    <3>3. pc[i] # "idle" => q # req[i].id
      BY <3>1 DEF RInv, Distinct, Active
    <3>4. replies'[q] = replies[q]
      BY <3>2, <3>3 DEF Done
    <3> QED
      BY <3>1, <3>2, <3>4
  <2>2. ASSUME NEW j \in Instances, pc'[j] # "idle"
        PROVE  req'[j].id <= nreq'
    BY <1>2, <2>2 DEF RInv, Unanswered, Active
  <2>3. ASSUME NEW j \in Instances, pc'[j] \notin Done
        PROVE  replies'[req'[j].id] = <<>>
    <3>1. /\ pc[j] \notin Done /\ pc[j] # "idle" /\ pc'[j] # "idle" /\ req'[j] = req[j]
          /\ replies[req[j].id] = <<>>
      BY <1>2, <1>3, <2>3 DEF Done, RInv, Unanswered
    <3>2. req[j].id \in Ids
      BY <1>4, <3>1
    <3>3. j # i /\ pc[i] # "idle" => req[j].id # req[i].id
      BY <3>1 DEF RInv, Distinct, Active
    <3>4. replies'[req[j].id] = replies[req[j].id]
      BY <2>3, <3>2, <3>3 DEF Done
    <3> QED
      BY <3>1, <3>4
  <2>4. ASSUME NEW q \in Ids, q > nreq'
        PROVE  replies'[q] = <<>>
    <3>1. replies[q] = <<>>
      BY <2>4 DEF RInv, Unanswered
    <3>2. pc[i] # "idle" => req[i].id <= nreq
      BY DEF RInv, Unanswered, Active
    <3>3. nreq \in Nat /\ q \in Nat
      BY DEF TInv, RestOK, Ids
    <3>4. q # req[i].id \/ pc[i] \in Done
      BY <2>4, <3>2, <3>3 DEF Done
    <3> QED
      BY <3>1, <3>4
  <2> QED
    BY <2>1, <2>2, <2>3, <2>4 DEF Unanswered, Active, Done
<1> QED
  BY <1>5, <1>6, <1>7 DEF RInv

\* The oldest request of an instance moves from its inbox to its handler.
LEMMA HandleRequestRInv ==
    ASSUME TInv, RInv, NEW i \in Instances, HandleRequest(i)
    PROVE  RInv'
<1>1. inbox \in [Instances -> Seq(Request)] /\ inbox[i] # <<>>
  BY DEF TInv, RestOK, HandleRequest
<1>2. /\ 1 \in DOMAIN inbox[i] /\ Head(inbox[i]) = inbox[i][1]
      /\ \A k \in DOMAIN Tail(inbox[i]) :
            k + 1 \in DOMAIN inbox[i] /\ k + 1 # 1 /\ Tail(inbox[i])[k] = inbox[i][k + 1]
  BY <1>1
<1>3. /\ inbox'[i] = Tail(inbox[i])
      /\ \A j \in Instances \ {i} : inbox'[j] = inbox[j]
      /\ pc'[i] # "idle" /\ pc[i] = "idle"
      /\ req'[i] = inbox[i][1]
      /\ \A j \in Instances \ {i} : pc'[j] = pc[j] /\ req'[j] = req[j]
      /\ UNCHANGED <<replies, nreq>>
  <2>1. Dispatch(Head(inbox[i])) # "idle"
    BY DEF Dispatch
  <2> QED
    BY <1>1, <1>2, <2>1 DEF HandleRequest, TInv, HandlersOK, Goto, user
\* Each request that is left in an inbox has a place in it before the step.
<1>4. ASSUME NEW j \in Instances, NEW k \in DOMAIN inbox'[j]
      PROVE  \E l \in DOMAIN inbox[j] :
                /\ inbox'[j][k] = inbox[j][l]
                /\ l = (IF j = i THEN k + 1 ELSE k)
                /\ j = i => l # 1
  <2>1. CASE j = i
    <3>1. k \in DOMAIN Tail(inbox[i]) /\ inbox'[j][k] = Tail(inbox[i])[k]
      BY <1>3, <1>4, <2>1
    <3>2. /\ k + 1 \in DOMAIN inbox[j] /\ k + 1 # 1
          /\ inbox'[j][k] = inbox[j][k + 1]
      BY <1>2, <2>1, <3>1
    <3> QED
      BY <2>1, <3>2, Zenon
  <2>2. CASE j # i
    <3>1. inbox'[j] = inbox[j] /\ k \in DOMAIN inbox[j]
      BY <1>3, <1>4, <2>2
    <3> QED
      BY <2>2, <3>1
  <2> QED
    BY <2>1, <2>2
<1>5. Distinct'
  <2>1. ASSUME NEW j \in Instances, NEW l \in Instances, j # l, pc'[j] # "idle", pc'[l] # "idle"
        PROVE  req'[j].id # req'[l].id
    BY <1>2, <1>3, <2>1 DEF RInv, Distinct, Active
  <2>2. ASSUME NEW j \in Instances, NEW l \in Instances, pc'[j] # "idle", NEW k \in DOMAIN inbox'[l]
        PROVE  inbox'[l][k].id # req'[j].id
    BY <1>2, <1>3, <1>4, <2>2 DEF RInv, Distinct, Active
  <2>3. ASSUME NEW j \in Instances, NEW l \in Instances,
               NEW k \in DOMAIN inbox'[j], NEW n \in DOMAIN inbox'[l],
               inbox'[j][k].id = inbox'[l][n].id
        PROVE  j = l /\ k = n
    <3>1. k \in Int /\ n \in Int
      BY <1>1, <1>3
    <3>2. PICK k1 \in DOMAIN inbox[j] :
             inbox'[j][k] = inbox[j][k1] /\ k1 = (IF j = i THEN k + 1 ELSE k)
      BY <1>4
    <3>3. PICK n1 \in DOMAIN inbox[l] :
             inbox'[l][n] = inbox[l][n1] /\ n1 = (IF l = i THEN n + 1 ELSE n)
      BY <1>4
    <3>4. j = l /\ k1 = n1
      BY <2>3, <3>2, <3>3 DEF RInv, Distinct
    <3> QED
      BY <3>1, <3>2, <3>3, <3>4
  <2> QED
    BY <2>1, <2>2, <2>3 DEF Distinct, Active
<1>6. Unanswered'
  <2>1. ASSUME NEW j \in Instances, NEW k \in DOMAIN inbox'[j]
        PROVE  inbox'[j][k].id <= nreq' /\ replies'[inbox'[j][k].id] = <<>>
    BY <1>3, <1>4 DEF RInv, Unanswered
  <2>2. ASSUME NEW j \in Instances, pc'[j] # "idle"
        PROVE  req'[j].id <= nreq'
    BY <1>2, <1>3, <2>2 DEF RInv, Unanswered, Active
  <2>3. ASSUME NEW j \in Instances, pc'[j] \notin {"idle", "sync", "put", "end"}
        PROVE  replies'[req'[j].id] = <<>>
    BY <1>2, <1>3, <2>3 DEF RInv, Unanswered
  <2> QED
    BY <1>3, <2>1, <2>2, <2>3 DEF RInv, Unanswered, Active
<1>7. AtMostOneReply'
  BY <1>3 DEF RInv, AtMostOneReply
<1> QED
  BY <1>5, <1>6, <1>7 DEF RInv

LEMMA HandlerRInv ==
    ASSUME TInv, RInv, NEW i \in Instances, HandlerStep(i) \/ Halt(i)
    PROVE  RInv'
<1>1. CASE HandleRequest(i)
  BY <1>1, HandleRequestRInv
<1>2. CASE ~HandleRequest(i)
  <2>1. OthersKept(i) /\ KeepsRequest(i)
    BY <1>2, HandlerSteps
  <2>2. UNCHANGED nreq
    BY <1>2 DEF HandlerStep, Halt, Stop, ReplyError, StartNew, StartInit, InputGet,
       InputNotExpected, InputRefused, InputAccepted, ProceedUser, ProceedRouter, ProceedSet,
       ProceedFunc, ProceedWait, ProceedLost, SyncSession, SyncReturns, EndSession,
       FailSession, UserAbort, user
  <2>3. CASE UNCHANGED replies
    BY <2>1, <2>2, <2>3, KeepsRInv
  <2>4. CASE \E type, item : Answers(i, type, item)
    <3>1. PICK type, item : Answers(i, type, item)
      BY <2>4
    <3>2. /\ pc[i] \notin Done /\ pc'[i] \in Done /\ req[i].id \in Ids /\ Msisdn(i) \in Msisdns
      BY <3>1, ActiveRequest DEF Answers, Done, TInv
    <3>3. replies[req[i].id] = <<>>
      BY <3>2 DEF Done, RInv, Unanswered
    <3>4. [type |-> type, item |-> item, msisdn |-> Msisdn(i)] \in Reply
      BY <3>1, <3>2 DEF Answers, Reply
    <3>5. Len(replies'[req[i].id]) <= 1
      BY <3>1, <3>3, <3>4, RespondFacts
    <3>6. \A q \in Ids \ {req[i].id} : replies'[q] = replies[q]
      BY <3>1, RespondFacts
    <3> QED
      BY <2>1, <2>2, <3>2, <3>5, <3>6, KeepsRInv
  <2> QED
    BY <1>2, <2>3, <2>4, HandlerSteps
<1> QED
  BY <1>1, <1>2

\* A new request has a reply address that no other has.
LEMMA SendingRInv ==
    ASSUME TInv, RInv, Sending
    PROVE  RInv'
<1>1. UNCHANGED <<pc, req, replies>> /\ nreq \in Nat /\ nreq' = nreq + 1 /\ nreq + 1 \in Ids
  <2>1. nreq \in 0 .. MaxRequests /\ MaxRequests \in Nat
    BY ServiceAssumption DEF TInv, RestOK
  <2> QED
    BY <2>1 DEF Sending, handler, Ids
<1>2. AtMostOneReply'
  BY <1>1 DEF RInv, AtMostOneReply
<1>3. ASSUME NEW j \in Instances, pc[j] # "idle"
      PROVE  req[j].id \in Nat /\ req[j].id <= nreq
  BY <1>3, ActiveRequest DEF TInv, RInv, Unanswered, Active, Ids
<1>4. ASSUME NEW j \in Instances, NEW k \in DOMAIN inbox[j]
      PROVE  inbox[j][k].id \in Nat /\ inbox[j][k].id <= nreq
  BY InboxFacts DEF RInv, Unanswered, Ids
<1>5. replies[nreq + 1] = <<>>
  BY <1>1 DEF RInv, Unanswered
<1>6. CASE UNCHANGED inbox
  <2>1. Distinct'
    BY <1>1, <1>6 DEF RInv, Distinct, Active
  <2>2. Unanswered'
    <3>1. ASSUME NEW j \in Instances, NEW k \in DOMAIN inbox'[j]
          PROVE  inbox'[j][k].id <= nreq' /\ replies'[inbox'[j][k].id] = <<>>
      BY <1>1, <1>4, <1>6 DEF RInv, Unanswered
    <3>2. \A j \in Instances : pc'[j] # "idle" => req'[j].id <= nreq'
      BY <1>1, <1>3
    <3>3. \A q \in Ids : q > nreq' => replies'[q] = <<>>
      BY <1>1 DEF RInv, Unanswered, Ids
    <3> QED
      BY <1>1, <3>1, <3>2, <3>3 DEF RInv, Unanswered, Active
  <2> QED
    BY <1>2, <2>1, <2>2 DEF RInv
<1>7. ASSUME NEW i \in Instances, NEW r \in Request, r.id = nreq + 1,
             inbox' = [inbox EXCEPT ![i] = Append(inbox[i], r)]
      PROVE  RInv'
  <2>1. inbox \in [Instances -> Seq(Request)]
    BY DEF TInv, RestOK
  <2>2. ASSUME NEW j \in Instances, NEW k \in DOMAIN inbox'[j]
        PROVE  \/ k \in DOMAIN inbox[j] /\ inbox'[j][k] = inbox[j][k]
               \/ j = i /\ k = Len(inbox[i]) + 1 /\ inbox'[j][k] = r
    BY <1>7, <2>1
  <2>3. Distinct'
    <3>1. ASSUME NEW j \in Instances, NEW l \in Instances, pc'[j] # "idle",
                 NEW k \in DOMAIN inbox'[l]
          PROVE  inbox'[l][k].id # req'[j].id
      BY <1>1, <1>3, <1>7, <2>2, <3>1 DEF RInv, Distinct, Active
    <3>2. ASSUME NEW j \in Instances, NEW l \in Instances,
                 NEW k \in DOMAIN inbox'[j], NEW n \in DOMAIN inbox'[l],
                 inbox'[j][k].id = inbox'[l][n].id
          PROVE  j = l /\ k = n
      BY <1>1, <1>4, <1>7, <2>2, <3>2 DEF RInv, Distinct
    <3> QED
      BY <1>1, <3>1, <3>2 DEF RInv, Distinct, Active
  <2>4. Unanswered'
    <3>1. ASSUME NEW j \in Instances, NEW k \in DOMAIN inbox'[j]
          PROVE  inbox'[j][k].id <= nreq' /\ replies'[inbox'[j][k].id] = <<>>
      BY <1>1, <1>4, <1>5, <1>7, <2>2 DEF RInv, Unanswered
    <3>2. \A j \in Instances : pc'[j] # "idle" => req'[j].id <= nreq'
      BY <1>1, <1>3
    <3>3. \A q \in Ids : q > nreq' => replies'[q] = <<>>
      BY <1>1 DEF RInv, Unanswered, Ids
    <3> QED
      BY <1>1, <3>1, <3>2, <3>3 DEF RInv, Unanswered, Active
  <2> QED
    BY <1>2, <2>3, <2>4 DEF RInv
<1> QED
  BY <1>6, <1>7, Zenon DEF Sending

LEMMA OutsideRInv ==
    ASSUME RInv, UNCHANGED <<inbox, pc, req, replies, nreq>>
    PROVE  RInv'
BY DEF RInv, Distinct, Unanswered, AtMostOneReply, Active

\* A reply address is answered once, and by the handler of its request.
THEOREM SpecRInv == Spec => []RInv
<1>1. Init => RInv
  BY ServiceAssumption DEF Init, RInv, Distinct, Unanswered, AtMostOneReply, Active
<1>2. ASSUME TInv, RInv, [Next]_vars
      PROVE  RInv'
  <2>1. ASSUME NEW i \in Instances, HandlerStep(i) \/ Halt(i)
        PROVE  RInv'
    BY <1>2, <2>1, HandlerRInv
  <2>2. ASSUME NEW m \in Msisdns, Dial(m) \/ Answer(m) \/ HangUp(m) \/ AnswerUnknown(m)
        PROVE  RInv'
    BY <1>2, <2>2, PhoneSends, SendingRInv DEF TInv
  <2>3. ASSUME NEW m \in Msisdns, Display(m)
        PROVE  RInv'
    BY <1>2, <2>3, OutsideRInv DEF Display, handler
  <2>4. CASE UNCHANGED vars
    BY <1>2, <2>4, OutsideRInv DEF vars, handler, user
  <2>5. CASE ServerRestart
    BY <1>2, <2>5, OutsideRInv DEF ServerRestart, handler, user
  <2>6. ASSUME NEW q \in Ids, UpdStores(q)
        PROVE  RInv'
    BY <1>2, <2>6, OutsideRInv DEF UpdStores, handler, user
  <2> QED
    BY <1>2, <2>1, <2>2, <2>3, <2>4, <2>5, <2>6, NextSteps
<1> QED
  BY <1>1, <1>2, SpecTInv, PTL DEF Spec

\* No request is answered twice, whatever instance it is given to, however the
\* handlers interleave, and when calls fail or instances crash.
THEOREM SpecAtMostOneReply == Spec => []AtMostOneReply
<1>1. RInv => AtMostOneReply
  BY DEF RInv
<1> QED
  BY <1>1, SpecRInv, PTL

--------------------------------------------------------------------------------
(***************************************************************************)
(* The fourth layer, FlowInv: the items in the loop lead to an answer.     *)
(***************************************************************************)

\* Sequences that close, one after the other.
LEMMA ConcatCloses ==
    ASSUME NEW s \in Seq(Items), NEW t \in Seq(Items), NEW Guarded,
           Closed(s, Guarded), t = <<>> \/ Closed(t, Guarded)
    PROVE  Closed(s \o t, Guarded)
<1>1. CASE t = <<>>
  BY <1>1
<1>2. CASE t # <<>>
  <2>1. /\ s \o t # <<>> /\ Len(s \o t) = Len(s) + Len(t)
        /\ (s \o t)[Len(s \o t)] = t[Len(t)]
    BY <1>2
  <2>2. ASSUME NEW k \in DOMAIN (s \o t), (s \o t)[k] \in Guarded
        PROVE  \E j \in 1 .. k - 1 : Kind[(s \o t)[j]] = "none"
    <3>1. k \in 1 .. Len(s) + Len(t)
      BY <2>1
    <3>2. CASE k <= Len(s)
      <4>1. k \in DOMAIN s /\ s[k] \in Guarded
        BY <2>2, <3>1, <3>2
      <4>2. PICK j \in 1 .. k - 1 : Kind[s[j]] = "none"
        BY <4>1 DEF Closed
      <4> QED
        BY <3>1, <3>2, <4>2
    <3>3. CASE k > Len(s)
      <4>1. k - Len(s) \in DOMAIN t /\ t[k - Len(s)] \in Guarded
        BY <2>2, <3>1, <3>3
      <4>2. PICK j \in 1 .. (k - Len(s)) - 1 : Kind[t[j]] = "none"
        BY <1>2, <4>1 DEF Closed
      <4>3. j + Len(s) \in 1 .. k - 1 /\ (s \o t)[j + Len(s)] = t[j]
        BY <3>1, <3>3, <4>2
      <4> QED
        BY <4>2, <4>3
    <3> QED
      BY <3>1, <3>2, <3>3
  <2> QED
    BY <1>2, <2>1, <2>2 DEF Closed
<1> QED
  BY <1>1, <1>2

\* The loop takes an item that has an interface from the front.
LEMMA TailCloses ==
    ASSUME NEW s \in Seq(Items), NEW Guarded, Closed(s, Guarded), Kind[Head(s)] # "none"
    PROVE  /\ Tail(s) = <<>> => Closes(Head(s))
           /\ Tail(s) # <<>> => Closed(Tail(s), Guarded)
<1>1. s # <<>> /\ Tail(s) \in Seq(Items) /\ Len(Tail(s)) = Len(s) - 1 /\ Len(s) \in Nat \ {0}
  BY HeadTailType DEF Closed
<1>2. \A k \in DOMAIN Tail(s) : k + 1 \in DOMAIN s /\ Tail(s)[k] = s[k + 1]
  BY <1>1
<1>3. Tail(s) = <<>> => s[Len(s)] = Head(s)
  <2>1. Tail(s) = <<>> => Len(s) = 1
    <3> DEFINE t == Tail(s)
    <3>1. t = <<>> => t \in Seq(Items) /\ Len(t) = Len(s) - 1 /\ Len(s) \in Nat
      BY <1>1
    <3> HIDE DEF t
    <3>2. t = <<>> => Len(s) = 1
      BY <3>1
    <3> QED
      BY <3>2 DEF t
  <2>2. Head(s) = s[1]
    BY <1>1
  <2> QED
    BY <2>1, <2>2
<1>4. Tail(s) # <<>> => Tail(s)[Len(Tail(s))] = s[Len(s)]
  <2> SUFFICES ASSUME Tail(s) # <<>>
               PROVE  Len(Tail(s)) \in DOMAIN Tail(s)
    BY <1>1, <1>2
  <2> QED
    BY <1>1
<1>5. ASSUME NEW k \in DOMAIN Tail(s), Tail(s)[k] \in Guarded
      PROVE  \E j \in 1 .. k - 1 : Kind[Tail(s)[j]] = "none"
  <2>1. PICK j \in 1 .. (k + 1) - 1 : Kind[s[j]] = "none"
    BY <1>2, <1>5 DEF Closed
  <2>2. k \in Nat /\ j # 1
    BY <1>1, <1>5, <2>1
  <2>3. j - 1 \in 1 .. k - 1 /\ j - 1 \in DOMAIN Tail(s) /\ Tail(s)[j - 1] = s[j]
    BY <1>1, <1>2, <1>5, <2>1, <2>2
  <2> QED
    BY <2>1, <2>3
<1> QED
  BY <1>1, <1>3, <1>4, <1>5 DEF Closed

\* The front of the loop is never guarded.
LEMMA HeadNotGuarded ==
    ASSUME NEW s \in Seq(Items), NEW Guarded, Closed(s, Guarded)
    PROVE  Head(s) \notin Guarded
<1>1. 1 \in DOMAIN s /\ Head(s) = s[1]
  BY DEF Closed
<1> QED
  BY <1>1 DEF Closed

\* What Process() returns.
LEMMA ProcessCloses ==
    ASSUME NEW Guarded, FlowCloses(Guarded), NEW x \in ItemUsrPrompt, NEW input,
           ~Refuses(x, input)
    PROVE  IF ProcessNext(x, input) = <<>> THEN x \in OfKind("prompt")
           ELSE Closed(ProcessNext(x, input), Guarded)
<1>1. x \in Items /\ Kind[x] \in {"menu", "prompt"}
  BY DEF ItemUsrPrompt, OfKind
<1>2. CASE Kind[x] = "prompt"
  BY <1>1, <1>2 DEF ProcessNext, OfKind
<1>3. CASE Kind[x] = "menu" /\ Chosen(x, input)
  <2>1. ProcessNext(x, input) = Options[x][ParseInt[input]]
    BY <1>3 DEF ProcessNext
  <2>2. Options[x][ParseInt[input]] # <<>>
    BY <1>3 DEF Refuses
  <2> QED
    BY <1>1, <1>3, <2>1, <2>2 DEF FlowCloses, Chosen, OfKind
<1>4. CASE Kind[x] = "menu" /\ ~Chosen(x, input)
  <2>1. ProcessNext(x, input) = <<x>>
    BY <1>4 DEF ProcessNext
  <2>2. x \notin Guarded
    BY <1>4 DEF FlowCloses, OfKind
  <2>3. Closed(<<x>>, Guarded)
    BY <1>4, <2>2 DEF Closed, Closes
  <2> QED
    BY <2>1, <2>3
<1> QED
  BY <1>1, <1>2, <1>3, <1>4

\* Start() and UserInput() enter the loop.
LEMMA EntersLoop ==
    ASSUME TInv, NEW i \in Instances, NEW Guarded, pc[i] # "idle", NEW s \in Session, SessOK(s),
           NEW nextItems \in Seq(Items), BeginProceed(i, s, nextItems),
           IF nextItems = <<>> THEN Get(s, "current_item_id") \in OfKind("prompt")
           ELSE Closed(nextItems, Guarded)
    PROVE  LoopCloses(i, Guarded)'
<1> DEFINE t == Set(s, "responder_key", req[i].id)
<1>1. req[i].id \in Values /\ HandlersOK
  BY ActiveRequest DEF TInv
<1>2. /\ t.data["current_item_id"] = s.data["current_item_id"]
      /\ t.data["next_item_ids"] = s.data["next_item_ids"]
  BY <1>1, SetValue, ReservedNames
<1> HIDE DEF t
<1>3. LoadNextItems(t) = <<>>
  BY <1>2 DEF LoadNextItems, Get, SessOK
<1>4. sess' = [sess EXCEPT ![i] = t] /\ todo' = [todo EXCEPT ![i] = nextItems \o <<>>]
  BY <1>3 DEF BeginProceed, t
<1>5. sess'[i] = t /\ todo'[i] = nextItems
  BY <1>1, <1>4 DEF HandlersOK
<1> QED
  BY <1>2, <1>5 DEF LoopCloses, CurrentItem, Get

\* An item was executed, and the loop goes on.
LEMMA GoesOn ==
    ASSUME TInv, NEW i \in Instances, NEW Guarded, LoopCloses(i, Guarded), NEW kinds,
           At(i, kinds), "none" \notin kinds, NEW nextItems \in Seq(Items),
           Continue(i, nextItems),
           IF nextItems = <<>> THEN ~Closes(Head(todo[i])) ELSE Closed(nextItems, Guarded)
    PROVE  LoopCloses(i, Guarded)'
<1>1. HandlersOK /\ todo[i] \in Seq(Items) /\ Closed(todo[i], Guarded)
  BY DEF TInv, HandlersOK, At, LoopCloses
<1>2. /\ Kind[Head(todo[i])] # "none" /\ Tail(todo[i]) \in Seq(Items)
      /\ todo'[i] = nextItems \o Tail(todo[i])
  BY <1>1, AtFacts DEF Continue, HandlersOK
<1>3. CASE nextItems = <<>>
  <2>1. todo'[i] = Tail(todo[i])
    BY <1>2, <1>3
  <2> QED
    BY <1>1, <1>2, <1>3, <2>1, TailCloses DEF LoopCloses
<1>4. CASE nextItems # <<>>
  <2> DEFINE t == Tail(todo[i])
  <2>1. t \in Seq(Items) /\ (t = <<>> \/ Closed(t, Guarded))
    BY <1>1, <1>2, TailCloses
  <2>2. Closed(nextItems, Guarded) /\ todo'[i] = nextItems \o t
    BY <1>2, <1>4
  <2> HIDE DEF t
  <2>3. Closed(nextItems \o t, Guarded)
    BY <2>1, <2>2, ConcatCloses
  <2>4. Closed(todo'[i], Guarded) /\ todo'[i] # <<>>
    BY <2>2, <2>3 DEF Closed
  <2> QED
    BY <2>4 DEF LoopCloses
<1> QED
  BY <1>3, <1>4

\* A step that does not bring handler i into the loop or on in it.
LEMMA LoopFrame ==
    ASSUME NEW i \in Instances, NEW Guarded, LoopCloses(i, Guarded),
           \/ pc'[i] # "proceed"
           \/ UNCHANGED <<pc[i], sess[i], todo[i]>>
    PROVE  LoopCloses(i, Guarded)'
BY DEF LoopCloses, CurrentItem

LEMMA HandlerLoopCloses ==
    ASSUME NEW Guarded, FlowCloses(Guarded), TInv, NEW i \in Instances,
           LoopCloses(i, Guarded), HandlerStep(i) \/ Halt(i)
    PROVE  LoopCloses(i, Guarded)'
<1>1. HandlersOK /\ HandlerOK(i) /\ sess[i] \in Session
  BY DEF TInv, HandlersOK
<1>2. CASE HandleRequest(i)
  BY <1>1, <1>2, LoopFrame DEF HandleRequest, Goto, Dispatch, HandlersOK
<1>3. CASE StartInit(i)
  <2>1. CASE Fail(i)
    BY <1>1, <2>1, LoopFrame DEF Fail, Goto, HandlersOK
  <2>2. CASE \E nextItems \in RouterExec(InitItem, Get(sess[i], "init_request")) :
                BeginProceed(i, sess[i], nextItems)
    <3> DEFINE code == Get(sess[i], "init_request")
    <3>1. pc[i] = "init" /\ code \in Values /\ SessOK(sess[i])
      BY <1>1, <1>3, ReservedNames DEF StartInit, HandlerOK, HasCode, Session, Data, Get
    <3> HIDE DEF code
    <3>2. PICK nextItems \in RouterExec(InitItem, code) : BeginProceed(i, sess[i], nextItems)
      BY <2>2 DEF code
    <3>3. nextItems \in Seq(Items) /\ Closed(nextItems, Guarded)
      BY <3>1, <3>2, RouterExecType, FlowAssumption DEF FlowCloses
    <3> QED
      BY <1>1, <3>1, <3>2, <3>3, EntersLoop DEF Closed
  <2> QED
    BY <1>3, <2>1, <2>2 DEF StartInit
<1>4. CASE InputAccepted(i)
  <2> DEFINE x == CurrentItem(i)
             s == ProcessSession(sess[i], x, req[i].text)
             nextItems == ProcessNext(x, req[i].text)
  <2>1. /\ pc[i] = "process" /\ x \in ItemUsrPrompt /\ ~Refuses(x, req[i].text)
        /\ x \in Items /\ SessOK(sess[i])
    BY <1>1, <1>4 DEF InputAccepted, ItemUsrPrompt, OfKind, HandlerOK
  <2>2. req[i].text \in Values \cup {Nil}
    BY <1>1, <2>1, ActiveRequest
  <2>3. nextItems \in Seq(Items)
    BY <2>1, ProcessNextType
  <2>4. IF nextItems = <<>> THEN x \in OfKind("prompt") ELSE Closed(nextItems, Guarded)
    BY <2>1, ProcessCloses
  <2>5. s \in Session /\ SameReserved(s, sess[i])
    <3>1. CASE Kind[x] = "prompt"
      <4>1. ItemName[x] \in Names \ Reserved
        BY <2>1, <3>1, FlowAssumption DEF OfKind
      <4>2. s = Set(sess[i], ItemName[x], req[i].text)
        BY <3>1 DEF ProcessSession
      <4> HIDE DEF s, x
      <4> QED
        BY <1>1, <2>2, <4>1, <4>2, SetItemFacts
    <3>2. CASE Kind[x] # "prompt"
      BY <1>1, <3>2 DEF ProcessSession, SameReserved
    <3> QED
      BY <3>1, <3>2
  <2>6. BeginProceed(i, s, nextItems)
    BY <1>4 DEF InputAccepted
  <2>7. SessOK(s) /\ Get(s, "current_item_id") = x
    BY <2>1, <2>5 DEF SameReserved, Reserved, SessOK, Get, CurrentItem
  <2> HIDE DEF x, s, nextItems
  <2> QED
    BY <2>1, <2>3, <2>4, <2>5, <2>6, <2>7, EntersLoop
<1>5. CASE ProceedRouter(i)
  <2>1. CASE Goto(i, "fail")
    BY <1>1, <2>1, LoopFrame DEF Goto, HandlersOK
  <2>2. CASE \E nextItems \in RouterExec(Head(todo[i]), Get(sess[i], "init_request")) :
                Continue(i, nextItems)
    <3> DEFINE x == Head(todo[i])
               code == Get(sess[i], "init_request")
    <3>1. x \in OfKind("router") /\ At(i, {"router"})
      BY <1>1, <1>5, AtFacts DEF ProceedRouter, OfKind
    <3>2. code \in Values
      BY <1>1, <3>1, AtFacts, ReservedNames DEF HasCode, Session, Data, Get
    <3> HIDE DEF x, code
    <3>3. PICK nextItems \in RouterExec(x, code) : Continue(i, nextItems)
      BY <2>2 DEF x, code
    <3>4. nextItems \in Seq(Items) /\ Closed(nextItems, Guarded)
      BY <3>1, <3>2, <3>3, RouterExecType DEF FlowCloses
    <3> QED
      BY <3>1, <3>3, <3>4, GoesOn DEF Closed
  <2> QED
    BY <1>5, <2>1, <2>2 DEF ProceedRouter
<1>6. CASE ProceedSet(i)
  <2>1. At(i, {"set"}) /\ Continue(i, <<>>)
    BY <1>6 DEF ProceedSet
  <2>2. ~Closes(Head(todo[i])) /\ <<>> \in Seq(Items)
    BY <2>1 DEF At, Closes
  <2> QED
    BY <2>1, <2>2, GoesOn
<1>7. CASE ProceedFunc(i)
  <2>1. At(i, {"func"})
    BY <1>7 DEF ProceedFunc
  <2>2. PICK e \in FuncEffects[Head(todo[i])] :
           \/ e = Failed /\ Goto(i, "fail")
           \/ e # Failed /\ Continue(i, <<>>)
    BY <1>7, Zenon DEF ProceedFunc
  <2>3. CASE Goto(i, "fail")
    BY <1>1, <2>3, LoopFrame DEF Goto, HandlersOK
  <2>4. CASE e # Failed /\ Continue(i, <<>>)
    <3>1. ~Closes(Head(todo[i])) /\ <<>> \in Seq(Items)
      BY <2>1, <2>4 DEF At, Closes
    <3> QED
      BY <2>1, <2>4, <3>1, GoesOn
  <2> QED
    BY <2>2, <2>3, <2>4
<1>8. CASE StartNew(i) \/ InputGet(i) \/ InputNotExpected(i) \/ InputRefused(i) \/ ReplyError(i)
  BY <1>1, <1>8, LoopFrame DEF StartNew, InputGet, InputNotExpected, InputRefused, ReplyError,
     Fail, Finish, Drop, Goto, HandlersOK
<1>9. CASE ProceedUser(i) \/ ProceedWait(i) \/ ProceedLost(i)
  BY <1>1, <1>9, LoopFrame DEF ProceedUser, ProceedWait, ProceedLost, Goto, HandlersOK
<1>10. CASE \/ SyncSession(i) \/ SyncReturns(i) \/ EndSession(i) \/ FailSession(i)
           \/ UserAbort(i) \/ Halt(i)
  BY <1>1, <1>10, LoopFrame DEF SyncSession, SyncReturns, EndSession, FailSession,
     UserAbort, Halt, Stop, Fail, Finish, Drop, Goto, HandlersOK
<1> QED
  BY <1>2, <1>3, <1>4, <1>5, <1>6, <1>7, <1>8, <1>9, <1>10 DEF HandlerStep

\* A handler leaves the sessions of the others alone.
LEMMA HandlerSess ==
    ASSUME TInv, NEW i \in Instances, HandlerStep(i) \/ Halt(i), NEW j \in Instances, j # i
    PROVE  UNCHANGED <<pc[j], sess[j], todo[j]>>
<1>1. HandlersOK
  BY DEF TInv
<1>2. CASE HandleRequest(i) \/ ReplyError(i) \/ StartNew(i) \/ StartInit(i) \/ InputGet(i)
           \/ InputNotExpected(i) \/ InputRefused(i) \/ InputAccepted(i)
  BY <1>1, <1>2 DEF HandleRequest, ReplyError, StartNew, StartInit, InputGet, InputNotExpected,
     InputRefused, InputAccepted, BeginProceed, Fail, Finish, Drop, Goto, HandlersOK
<1>3. CASE ProceedUser(i) \/ ProceedRouter(i) \/ ProceedSet(i) \/ ProceedFunc(i)
           \/ ProceedWait(i) \/ ProceedLost(i)
  BY <1>1, <1>3 DEF ProceedUser, ProceedRouter, ProceedSet, ProceedFunc, ProceedWait,
     ProceedLost, Continue, Goto, HandlersOK
<1>4. CASE \/ SyncSession(i) \/ SyncReturns(i) \/ EndSession(i) \/ FailSession(i)
           \/ UserAbort(i) \/ Halt(i)
  BY <1>1, <1>4 DEF SyncSession, SyncReturns, EndSession, FailSession, UserAbort, Halt,
     Stop, Finish, Drop, Fail,
     Goto, HandlersOK
<1> QED
  BY <1>2, <1>3, <1>4 DEF HandlerStep

\* What a handler replies with is no guarded item.
LEMMA RepliesUnguarded ==
    ASSUME NEW Guarded, FlowCloses(Guarded), TInv, NEW i \in Instances,
           LoopCloses(i, Guarded), HandlerStep(i) \/ Halt(i)
    PROVE  \/ UNCHANGED replies
           \/ \E type : \E item \in (Items \cup {Nil}) \ Guarded : Answers(i, type, item)
<1>1. HandlersOK /\ Nil \notin Guarded
  BY FlowAssumption, NilAssumption DEF TInv, FlowCloses, OfKind
<1>2. CASE HandleRequest(i) \/ Halt(i)
  BY <1>2 DEF HandleRequest, Halt, Stop
<1>3. CASE ReplyError(i)
  <2>1. Answers(i, "ERROR", Nil)
    BY <1>1, <1>3 DEF ReplyError, Answers, Finish, Drop, Goto, HandlersOK
  <2> QED
    BY <1>1, <2>1
<1>4. CASE InputRefused(i)
  <2>1. Answers(i, "RESPONSE", CurrentItem(i))
    BY <1>1, <1>4 DEF InputRefused, Answers, Finish, Drop, Goto, HandlersOK, ItemUsrPrompt, OfKind
  <2>2. CurrentItem(i) \in Items \ Guarded
    BY <1>4 DEF InputRefused, ItemUsrPrompt, OfKind, FlowCloses
  <2> QED
    BY <2>1, <2>2
<1>5. CASE ProceedUser(i)
  <2>1. pc[i] = "proceed" /\ todo[i] # <<>> /\ todo[i] \in Seq(Items)
        /\ Get(sess[i], "responder_key") = req[i].id /\ Head(todo[i]) \in Items
    BY <1>1, <1>5, AtFacts DEF ProceedUser, HandlersOK
  <2>2. Answers(i, "RESPONSE", Head(todo[i])) \/ Answers(i, "RELEASE", Head(todo[i]))
    BY <1>1, <1>5, <2>1 DEF ProceedUser, Answers, Goto, HandlersOK
  <2>3. Head(todo[i]) \notin Guarded
    BY <2>1, HeadNotGuarded DEF LoopCloses
  <2> QED
    BY <2>1, <2>2, <2>3
<1>6. CASE StartNew(i) \/ StartInit(i) \/ InputGet(i) \/ InputNotExpected(i) \/ InputAccepted(i)
  BY <1>6 DEF StartNew, StartInit, InputGet, InputNotExpected, InputAccepted
<1>7. CASE \/ ProceedRouter(i) \/ ProceedSet(i) \/ ProceedFunc(i)
           \/ ProceedWait(i) \/ ProceedLost(i)
  BY <1>7 DEF ProceedRouter, ProceedSet, ProceedFunc, ProceedWait, ProceedLost
<1>8. CASE \/ SyncSession(i) \/ SyncReturns(i) \/ EndSession(i) \/ FailSession(i)
           \/ UserAbort(i)
  BY <1>8 DEF SyncSession, SyncReturns, EndSession, FailSession, UserAbort
<1> QED
  BY <1>2, <1>3, <1>4, <1>5, <1>6, <1>7, <1>8 DEF HandlerStep

LEMMA HandlerFlowInv ==
    ASSUME NEW Guarded, FlowCloses(Guarded), TInv, NEW i \in Instances,
           FlowInv(Guarded), HandlerStep(i) \/ Halt(i)
    PROVE  FlowInv(Guarded)'
<1>1. ASSUME NEW j \in Instances
      PROVE  LoopCloses(j, Guarded)'
  <2>1. CASE j = i
    BY <2>1, HandlerLoopCloses DEF FlowInv
  <2>2. CASE j # i
    <3>1. UNCHANGED <<pc[j], sess[j], todo[j]>>
      BY <2>2, HandlerSess
    <3> QED
      BY <3>1, LoopFrame DEF FlowInv
  <2> QED
    BY <2>1, <2>2
<1>2. ASSUME NEW q \in Ids, NEW k \in DOMAIN replies'[q]
      PROVE  replies'[q][k].item \notin Guarded
  <2>1. CASE UNCHANGED replies
    BY <2>1 DEF FlowInv
  <2>2. ASSUME NEW type, NEW item \in (Items \cup {Nil}) \ Guarded, Answers(i, type, item)
        PROVE  replies'[q][k].item \notin Guarded
    <3> DEFINE r == [type |-> type, item |-> item, msisdn |-> Msisdn(i)]
    <3>1. /\ replies'[req[i].id] = Append(replies[req[i].id], r)
          /\ \A p \in Ids \ {req[i].id} : replies'[p] = replies[p]
      BY <2>2, RespondFacts
    <3>2. replies[q] \in Seq(Reply) /\ r.item = item
      BY DEF TInv, RestOK
    <3>3. \A l \in DOMAIN replies[q] : replies[q][l].item \notin Guarded
      BY DEF FlowInv
    <3> HIDE DEF r
    <3>4. replies'[q] = replies[q] \/ replies'[q] = Append(replies[q], r)
      BY <3>1
    <3>5. replies'[q][k] = r \/ (k \in DOMAIN replies[q] /\ replies'[q][k] = replies[q][k])
      BY <3>2, <3>4
    <3> QED
      BY <2>2, <3>2, <3>3, <3>5
  <2> QED
    BY <2>1, <2>2, RepliesUnguarded DEF FlowInv
<1> QED
  BY <1>1, <1>2 DEF FlowInv

LEMMA OutsideFlowInv ==
    ASSUME NEW Guarded, FlowInv(Guarded), UNCHANGED <<handler, replies>>
    PROVE  FlowInv(Guarded)'
BY DEF FlowInv, LoopCloses, CurrentItem, handler

LEMMA InitFlowInv ==
    ASSUME NEW Guarded, Init
    PROVE  FlowInv(Guarded)
BY DEF Init, FlowInv, LoopCloses

LEMMA NextFlowInv ==
    ASSUME NEW Guarded, FlowCloses(Guarded), TInv, FlowInv(Guarded), [Next]_vars
    PROVE  FlowInv(Guarded)'
<1>1. ASSUME NEW i \in Instances, HandlerStep(i) \/ Halt(i)
      PROVE  FlowInv(Guarded)'
  BY <1>1, HandlerFlowInv
<1>2. ASSUME NEW m \in Msisdns, Dial(m) \/ Answer(m) \/ HangUp(m) \/ AnswerUnknown(m)
      PROVE  FlowInv(Guarded)'
  BY <1>2, PhoneSends, OutsideFlowInv DEF TInv, Sending
<1>3. ASSUME NEW m \in Msisdns, Display(m)
      PROVE  FlowInv(Guarded)'
  BY <1>3, OutsideFlowInv DEF Display
<1>4. CASE UNCHANGED vars
  BY <1>4, OutsideFlowInv DEF vars
<1>5. CASE ServerRestart
  BY <1>5, OutsideFlowInv DEF ServerRestart
<1>6. ASSUME NEW q \in Ids, UpdStores(q)
      PROVE  FlowInv(Guarded)'
  BY <1>6, OutsideFlowInv DEF UpdStores
<1> QED
  BY <1>1, <1>2, <1>3, <1>4, <1>5, <1>6, NextSteps

\* In a flow whose items lead to an answer, the loop runs out of items only behind a
\* prompt, in any instance and whatever fails.
THEOREM SpecDryOnlyAfterPrompt ==
    ASSUME FlowCloses({})
    PROVE  Spec => []DryOnlyAfterPrompt
<1>1. Init => FlowInv({})
  BY InitFlowInv
<1>2. ASSUME TInv, FlowInv({}), [Next]_vars
      PROVE  FlowInv({})'
  BY <1>2, NextFlowInv
<1>3. FlowInv({}) => DryOnlyAfterPrompt
  BY DEF FlowInv, LoopCloses, DryOnlyAfterPrompt
<1> QED
  BY <1>1, <1>2, <1>3, SpecTInv, PTL DEF Spec

================================================================================
