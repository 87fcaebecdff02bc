--------------------------- MODULE RestSessionsProofs --------------------------
(***************************************************************************)
(* Proofs that the session server is type correct and, to the clients that *)
(* keep to sessions of their own, an atomic store (SessionStore), for any  *)
(* clients, sessions, bodies, calls and restarts.                          *)
(***************************************************************************)
EXTENDS RestSessions, TLAPS

(***************************************************************************)
(* The inductive invariant.                                                *)
(***************************************************************************)

\* The data at the place p of h.
Held(h, p) == IF p = 0 THEN NoData ELSE h[p]

\* What a client and its handler know, by where the handler is.
ClientOK(c) ==
    /\ ref[c] <= Len(heap)
    /\ pc[c] # "idle" => call[c] \in Calls /\ call[c].id \in IdsOf[c]
    /\ pc[c] = "idle" => call[c] = NoCall
    /\ pc[c] \in {"idle", "start"} => ref[c] = 0
    /\ pc[c] = "write" => call[c].op = "upd" /\ todo[c] \subseteq Named(call[c].body)
    /\ todo[c] # {} => pc[c] = "write"
    /\ result[c] = Pending <=> pc[c] # "done"

Types ==
    /\ heap \in Seq(Data)
    /\ sessions \in [SessionIds -> Nat \cup {NoSession}]
    /\ pc \in [Clients -> {"idle", "start", "write", "encode", "done"}]
    /\ call \in [Clients -> Calls \cup {NoCall}]
    /\ ref \in [Clients -> Nat]
    /\ todo \in [Clients -> SUBSET Names]
    /\ result \in [Clients -> Data \cup {NoSession, Pending, Deleted, Refused, Failed}]

HandlersOK ==
    /\ Types
    /\ \A id \in SessionIds : sessions[id] # NoSession => sessions[id] <= Len(heap)
    /\ \A c \in Clients : ClientOK(c)

\* A data map is of one session only: in the map of sessions, between that and a
\* handler, and between two handlers.
Apart ==
    /\ \A id, jd \in SessionIds :
          sessions[id] \notin {0, NoSession} /\ sessions[id] = sessions[jd] => id = jd
    /\ \A c \in Clients, id \in SessionIds :
          ref[c] # 0 /\ sessions[id] = ref[c] => call[c].id = id
    /\ \A c, d \in Clients : ref[c] # 0 /\ ref[c] = ref[d] => call[c].id = call[d].id

\* How far an update is whose session is nobody else's.
Halfway(c) ==
    LET b == call[c].body
        p == sessions[call[c].id]
        d == Held(heap, ref[c])
    IN  /\ p # NoSession
        /\ p = ref[c] \/ (p = 0 /\ \A n \in Names : b[n] = Nil => d[n] = Nil)
        /\ \A n \in Named(b) \ todo[c] : d[n] = After(NoData, b)[n]

Updates == \A c \in Alone : pc[c] = "write" => Halfway(c)

RestInv == HandlersOK /\ Apart /\ Updates

--------------------------------------------------------------------------------
(***************************************************************************)
(* Bodies, and the data maps.                                              *)
(***************************************************************************)

LEMMA AfterType ==
    ASSUME NEW d \in Data, NEW b \in Bodies
    PROVE  After(d, b) \in Data
BY DEF Data, Bodies, After

LEMMA NoDataType == NoData \in Data /\ NoBody \in Bodies /\ After(NoData, NoBody) = NoData
BY DEF Data, NoData, Bodies, NoBody, After

\* A value or a null that is written makes no difference to what comes of all.
LEMMA AfterWritten ==
    ASSUME NEW b \in Bodies, NEW n \in Named(b), NEW d \in Data, NEW e \in Data,
           \A x \in Names : e[x] = IF x = n THEN After(NoData, b)[n] ELSE d[x]
    PROVE  After(e, b) = After(d, b)
<1>1. \A x \in Names : After(e, b)[x] = After(d, b)[x]
  BY DEF After, Named
<1> QED
  BY <1>1 DEF After

\* When all is written, it has come of it what it should.
LEMMA AfterAll ==
    ASSUME NEW b \in Bodies, NEW d \in Data, \A n \in Named(b) : d[n] = After(NoData, b)[n]
    PROVE  After(d, b) = d
<1>1. \A x \in Names : After(d, b)[x] = d[x]
  BY DEF After, Named, Data
<1> QED
  BY <1>1 DEF After, Data

\* The values that a body does not mention are what is left of the old ones.
LEMMA AfterUnnamed ==
    ASSUME NEW b \in Bodies, NEW d \in Data, \A n \in Names : b[n] = Nil => d[n] = Nil
    PROVE  After(d, b) = After(NoData, b)
<1>1. \A x \in Names : After(d, b)[x] = After(NoData, b)[x]
  BY DEF After, NoData
<1> QED
  BY <1>1 DEF After

LEMMA HeldType ==
    ASSUME heap \in Seq(Data), NEW p \in Nat, p <= Len(heap)
    PROVE  Held(heap, p) \in Data
BY NoDataType DEF Held

\* A new map comes behind the others.
LEMMA HeapAppend ==
    ASSUME heap \in Seq(Data), NEW d \in Data, heap' = Append(heap, d),
           NEW p, p = Len(heap) + 1
    PROVE  /\ heap' \in Seq(Data) /\ Len(heap') = p /\ p \in Nat \ {0}
           /\ Held(heap', p) = d
           /\ \A q \in 0 .. Len(heap) : Held(heap', q) = Held(heap, q)
<1>1. /\ heap' \in Seq(Data) /\ Len(heap') = Len(heap) + 1 /\ Len(heap) \in Nat
      /\ heap'[Len(heap) + 1] = d
      /\ \A q \in 1 .. Len(heap) : heap'[q] = heap[q]
  OBVIOUS
<1> QED
  BY <1>1 DEF Held

\* One map is replaced.
LEMMA HeapUpdate ==
    ASSUME heap \in Seq(Data), NEW p \in 1 .. Len(heap), NEW e \in Data,
           heap' = [heap EXCEPT ![p] = e]
    PROVE  /\ heap' \in Seq(Data) /\ Len(heap') = Len(heap)
           /\ Held(heap', p) = e
           /\ \A q \in 0 .. Len(heap) : q # p => Held(heap', q) = Held(heap, q)
<1>1. /\ heap' \in Seq(Data) /\ Len(heap') = Len(heap)
      /\ heap'[p] = e /\ \A q \in 1 .. Len(heap) : q # p => heap'[q] = heap[q]
  OBVIOUS
<1> QED
  BY <1>1 DEF Held

--------------------------------------------------------------------------------
(***************************************************************************)
(* What the steps of a client and its handler have in common.              *)
(***************************************************************************)

OthersKept(c) ==
    \A d \in Clients \ {c} :
       /\ pc'[d] = pc[d] /\ call'[d] = call[d] /\ ref'[d] = ref[d]
       /\ todo'[d] = todo[d] /\ result'[d] = result[d]

\* Only the handler's own data map changes, and maps are added.
HeapKept(c) ==
    /\ Len(heap) <= Len(heap')
    /\ \A q \in 0 .. Len(heap) : q = 0 \/ q # ref[c] => Held(heap', q) = Held(heap, q)

\* The handler goes over to another map only if that is new or its session's, and
\* changes the session of its call only.
Moves(c) ==
    /\ \/ ref'[c] = 0
       \/ /\ pc[c] # "idle" /\ call'[c] = call[c]
          /\ ref'[c] \in {ref[c], sessions[call[c].id], Len(heap) + 1}
    /\ \A id \in SessionIds :
          \/ sessions'[id] = sessions[id]
          \/ /\ pc[c] # "idle" /\ id = call[c].id
             /\ sessions'[id] \in {NoSession, ref'[c]}
    /\ pc'[c] \in {"write", "encode"} => pc[c] # "idle" /\ call'[c] = call[c]

Step(c) == OthersKept(c) /\ HeapKept(c) /\ Moves(c) /\ HandlersOK'

\* Steps that leave the data maps and other handlers alone are in order if their
\* handler and the sessions are.
LEMMA StepFrame ==
    ASSUME HandlersOK, NEW c \in Clients, OthersKept(c), HeapKept(c), Moves(c),
           Types', ClientOK(c)',
           \A id \in SessionIds :
              sessions'[id] # sessions[id] => sessions'[id] \in {NoSession, ref'[c]}
    PROVE  Step(c)
<1>1. \A d \in Clients \ {c} : ClientOK(d)'
  BY DEF OthersKept, HeapKept, ClientOK, HandlersOK, Types
<1>2. ASSUME NEW id \in SessionIds, sessions'[id] # NoSession
      PROVE  sessions'[id] <= Len(heap')
  <2>1. Len(heap) \in Nat /\ Len(heap') \in Nat /\ Len(heap) <= Len(heap')
    BY DEF HeapKept, HandlersOK, Types
  <2>2. ref'[c] <= Len(heap')
    BY DEF ClientOK
  <2>3. CASE sessions'[id] = sessions[id]
    <3>1. sessions[id] \in Nat /\ sessions[id] <= Len(heap)
      BY <1>2, <2>3 DEF HandlersOK, Types
    <3> QED
      BY <2>1, <2>3, <3>1
  <2> QED
    BY <1>2, <2>2, <2>3
<1> QED
  BY <1>1, <1>2 DEF Step, HandlersOK

LEMMA HeapSame ==
    ASSUME HandlersOK, NEW c \in Clients, UNCHANGED heap
    PROVE  HeapKept(c)
BY DEF HeapKept, HandlersOK, Types, Held

LEMMA ArriveStep ==
    ASSUME HandlersOK, NEW c \in Clients, Arrive(c)
    PROVE  /\ Step(c)
           /\ pc[c] = "idle" /\ pc'[c] = "start" /\ result' = result
           /\ \E k \in Calls : k.id \in IdsOf[c] /\ call' = [call EXCEPT ![c] = k]
<1>1. PICK op \in Ops, id \in IdsOf[c] :
         \E b \in CASE op = "new" -> NewBodies[c] [] op = "upd" -> UpdBodies[c]
                     [] OTHER -> {NoBody} :
            call' = [call EXCEPT ![c] = [op |-> op, id |-> id, body |-> b]]
  BY Zenon DEF Arrive
<1>2. PICK S : S = CASE op = "new" -> NewBodies[c] [] op = "upd" -> UpdBodies[c]
                     [] OTHER -> {NoBody}
  OBVIOUS
<1>3. PICK b \in Bodies : call' = [call EXCEPT ![c] = [op |-> op, id |-> id, body |-> b]]
  <2>1. NewBodies[c] \subseteq Bodies /\ UpdBodies[c] \subseteq Bodies /\ {NoBody} \subseteq Bodies
    BY RestAssumption, NoDataType
  <2>2. S \in {NewBodies[c], UpdBodies[c], {NoBody}}
    BY <1>2
  <2>3. S \subseteq Bodies
    BY <2>1, <2>2
  <2>4. \E b \in S : call' = [call EXCEPT ![c] = [op |-> op, id |-> id, body |-> b]]
    BY <1>1, <1>2, Zenon
  <2> QED
    BY <2>3, <2>4
<1>4. PICK k \in Calls : call' = [call EXCEPT ![c] = k] /\ k.id \in IdsOf[c]
  <2>1. id \in SessionIds
    BY RestAssumption
  <2>2. PICK k : k = [op |-> op, id |-> id, body |-> b]
    OBVIOUS
  <2>3. k \in Calls /\ k.id \in IdsOf[c]
    BY <2>1, <2>2 DEF Calls
  <2> QED
    BY <1>3, <2>2, <2>3
<1>5. /\ pc[c] = "idle" /\ pc' = [pc EXCEPT ![c] = "start"]
      /\ UNCHANGED <<sessions, heap, ref, todo, result>>
  BY DEF Arrive, Goto
<1>6. pc'[c] = "start" /\ call'[c] = k /\ OthersKept(c) /\ Types'
  BY <1>4, <1>5 DEF OthersKept, Types, HandlersOK
<1>7. ClientOK(c)'
  BY <1>4, <1>5, <1>6 DEF ClientOK, HandlersOK
<1>8. Moves(c)
  BY <1>5, <1>6 DEF Moves, HandlersOK, ClientOK
<1> QED
  BY <1>4, <1>5, <1>6, <1>7, <1>8, HeapSame, StepFrame

LEMMA NewStep ==
    ASSUME HandlersOK, NEW c \in Clients, handleNewSession(c)
    PROVE  /\ Step(c)
           /\ pc[c] = "start" /\ call[c].op = "new" /\ pc'[c] = "encode"
           /\ call' = call
           /\ sessions'[call[c].id] = ref'[c] /\ ref'[c] # NoSession
           /\ Held(heap', ref'[c]) = After(NoData, call[c].body)
<1> DEFINE b == call[c].body
<1>0. PICK p : p = IF b = NoBody THEN 0 ELSE Len(heap) + 1
  OBVIOUS
<1>1. /\ pc[c] = "start" /\ call[c].op = "new"
      /\ heap' = IF p = 0 THEN heap ELSE Append(heap, After(NoData, b))
      /\ sessions' = [sessions EXCEPT ![call[c].id] = p]
      /\ ref' = [ref EXCEPT ![c] = p]
      /\ pc' = [pc EXCEPT ![c] = "encode"]
      /\ UNCHANGED <<call, todo, result>>
  BY <1>0 DEF handleNewSession, Goto, At
<1>2. call[c] \in Calls /\ b \in Bodies /\ call[c].id \in SessionIds /\ heap \in Seq(Data)
  BY <1>1 DEF HandlersOK, ClientOK, Types, Calls
<1>3. /\ heap' \in Seq(Data) /\ p \in Nat /\ p <= Len(heap') /\ Len(heap) <= Len(heap')
      /\ Held(heap', p) = After(NoData, b)
      /\ \A q \in 0 .. Len(heap) : Held(heap', q) = Held(heap, q)
  <2>1. CASE b = NoBody
    BY <1>0, <1>1, <1>2, <2>1, NoDataType DEF Held
  <2>2. CASE b # NoBody
    <3>1. PICK d \in Data : d = After(NoData, b)
      BY <1>2, AfterType, NoDataType
    <3>2. p = Len(heap) + 1 /\ p # 0 /\ heap' = Append(heap, d)
      BY <1>0, <1>1, <1>2, <2>2, <3>1
    <3> QED
      BY <1>2, <3>1, <3>2, HeapAppend
  <2> QED
    BY <2>1, <2>2
<1>4. p = 0 \/ p = Len(heap) + 1
  BY <1>0
<1>5. NoSession # p
  BY <1>3, RestAssumption
<1> HIDE DEF b
<1>6. /\ pc'[c] = "encode" /\ ref'[c] = p /\ sessions'[call[c].id] = p
      /\ \A id \in SessionIds \ {call[c].id} : sessions'[id] = sessions[id]
  BY <1>1, <1>2 DEF HandlersOK, Types
<1>7. OthersKept(c) /\ HeapKept(c) /\ Types'
  BY <1>1, <1>3 DEF OthersKept, HeapKept, Types, HandlersOK
<1>8. ClientOK(c)'
  BY <1>1, <1>3, <1>6 DEF HandlersOK, ClientOK
<1>9. Moves(c)
  BY <1>1, <1>4, <1>6 DEF Moves
<1> QED
  BY <1>1, <1>3, <1>5, <1>6, <1>7, <1>8, <1>9, StepFrame DEF b

LEMMA GetStep ==
    ASSUME HandlersOK, NEW c \in Clients, handleGetSession(c)
    PROVE  /\ Step(c)
           /\ pc[c] = "start" /\ call[c].op = "get" /\ UNCHANGED <<call, sessions, heap>>
           /\ \/ Current(c) = NoSession /\ pc'[c] = "done" /\ result'[c] = NoSession
              \/ Current(c) # NoSession /\ pc'[c] = "encode" /\ ref'[c] = Current(c)
<1>1. /\ pc[c] = "start" /\ call[c].op = "get" /\ UNCHANGED <<call, sessions, heap, todo>>
      /\ call[c] \in Calls /\ call[c].id \in SessionIds
  BY DEF handleGetSession, At, HandlersOK, ClientOK, Calls
<1>2. CASE /\ Current(c) = NoSession /\ UNCHANGED ref
           /\ result' = [result EXCEPT ![c] = NoSession] /\ pc' = [pc EXCEPT ![c] = "done"]
  <2>1. pc'[c] = "done" /\ result'[c] = NoSession /\ OthersKept(c) /\ Types'
    BY <1>1, <1>2 DEF OthersKept, Types, HandlersOK
  <2>2. ClientOK(c)' /\ Moves(c)
    BY <1>1, <1>2, <2>1, RestAssumption DEF ClientOK, HandlersOK, Moves
  <2> QED
    BY <1>1, <1>2, <2>1, <2>2, HeapSame, StepFrame
<1>3. CASE /\ Current(c) # NoSession /\ ref' = [ref EXCEPT ![c] = Current(c)]
           /\ pc' = [pc EXCEPT ![c] = "encode"] /\ UNCHANGED result
  <2>1. Current(c) \in Nat /\ Current(c) <= Len(heap)
    BY <1>1, <1>3 DEF Current, HandlersOK, Types
  <2>2. pc'[c] = "encode" /\ ref'[c] = Current(c) /\ OthersKept(c) /\ Types'
    BY <1>1, <1>3, <2>1 DEF OthersKept, Types, HandlersOK
  <2>3. ClientOK(c)' /\ Moves(c)
    BY <1>1, <1>3, <2>1, <2>2 DEF ClientOK, HandlersOK, Moves, Current
  <2> QED
    BY <1>1, <1>3, <2>2, <2>3, HeapSame, StepFrame
<1> QED
  BY <1>2, <1>3 DEF handleGetSession, Respond, Goto

\* A call whose body is refused.
LEMMA RefuseStep ==
    ASSUME HandlersOK, NEW c \in Clients, NewRefuses(c) \/ UpdRefuses(c)
    PROVE  /\ Step(c)
           /\ pc[c] = "start" /\ pc'[c] = "done" /\ UNCHANGED <<call, sessions, heap>>
           /\ \/ call[c].op = "badnew" /\ result'[c] = Refused
              \/ call[c].op = "badupd" /\ Current(c) # NoSession /\ result'[c] = Refused
              \/ call[c].op = "badupd" /\ Current(c) = NoSession /\ result'[c] = NoSession
<1>1. PICK r \in {NoSession, Refused} :
         /\ pc[c] = "start" /\ UNCHANGED <<call, sessions, heap, ref, todo>>
         /\ result' = [result EXCEPT ![c] = r] /\ pc' = [pc EXCEPT ![c] = "done"]
         /\ \/ call[c].op = "badnew" /\ r = Refused
            \/ call[c].op = "badupd" /\ Current(c) # NoSession /\ r = Refused
            \/ call[c].op = "badupd" /\ Current(c) = NoSession /\ r = NoSession
  BY DEF NewRefuses, UpdRefuses, At, Respond, Goto
<1>2. call[c] \in Calls /\ call[c].id \in SessionIds
  BY <1>1 DEF HandlersOK, ClientOK, Calls
<1>3. pc'[c] = "done" /\ result'[c] = r /\ OthersKept(c) /\ Types'
  BY <1>1 DEF OthersKept, Types, HandlersOK
<1>4. ClientOK(c)' /\ Moves(c)
  BY <1>1, <1>2, <1>3, RestAssumption DEF ClientOK, HandlersOK, Moves
<1> QED
  BY <1>1, <1>2, <1>3, <1>4, HeapSame, StepFrame

LEMMA LookupStep ==
    ASSUME HandlersOK, NEW c \in Clients, UpdLookup(c)
    PROVE  /\ Step(c)
           /\ pc[c] = "start" /\ call[c].op = "upd" /\ UNCHANGED <<call, sessions, heap>>
           /\ \/ Current(c) = NoSession /\ pc'[c] = "done" /\ result'[c] = NoSession
              \/ /\ Current(c) # NoSession /\ pc'[c] = "write" /\ ref'[c] = Current(c)
                 /\ todo'[c] = Named(call[c].body)
<1>1. /\ pc[c] = "start" /\ call[c].op = "upd" /\ UNCHANGED <<call, sessions, heap>>
      /\ call[c] \in Calls /\ call[c].id \in SessionIds
  BY DEF UpdLookup, At, HandlersOK, ClientOK, Calls
<1>2. CASE /\ Current(c) = NoSession /\ UNCHANGED <<ref, todo>>
           /\ result' = [result EXCEPT ![c] = NoSession] /\ pc' = [pc EXCEPT ![c] = "done"]
  <2>1. pc'[c] = "done" /\ result'[c] = NoSession /\ OthersKept(c) /\ Types'
    BY <1>1, <1>2 DEF OthersKept, Types, HandlersOK
  <2>2. ClientOK(c)' /\ Moves(c)
    BY <1>1, <1>2, <2>1, RestAssumption DEF ClientOK, HandlersOK, Moves
  <2> QED
    BY <1>1, <1>2, <2>1, <2>2, HeapSame, StepFrame
<1>3. CASE /\ Current(c) # NoSession /\ ref' = [ref EXCEPT ![c] = Current(c)]
           /\ todo' = [todo EXCEPT ![c] = Named(call[c].body)]
           /\ pc' = [pc EXCEPT ![c] = "write"] /\ UNCHANGED result
  <2>1. Current(c) \in Nat /\ Current(c) <= Len(heap) /\ Named(call[c].body) \in SUBSET Names
    BY <1>1, <1>3 DEF Current, HandlersOK, Types, Named
  <2>2. /\ pc'[c] = "write" /\ ref'[c] = Current(c) /\ todo'[c] = Named(call[c].body)
        /\ OthersKept(c) /\ Types'
    BY <1>1, <1>3, <2>1 DEF OthersKept, Types, HandlersOK
  <2>3. ClientOK(c)' /\ Moves(c)
    BY <1>1, <1>3, <2>1, <2>2 DEF ClientOK, HandlersOK, Moves, Current
  <2> QED
    BY <1>1, <1>3, <2>2, <2>3, HeapSame, StepFrame
<1> QED
  BY <1>2, <1>3 DEF UpdLookup, Respond, Goto

LEMMA WriteStep ==
    ASSUME HandlersOK, NEW c \in Clients, UpdWrite(c)
    PROVE  /\ Step(c)
           /\ pc[c] = "write" /\ UNCHANGED <<pc, call, sessions, result>>
           /\ call[c].body \in Bodies
           /\ ref'[c] = ref[c] \/ ref[c] = 0
           /\ \E n \in Named(call[c].body) :
                 /\ todo'[c] = todo[c] \ {n}
                 /\ \A x \in Names :
                       Held(heap', ref'[c])[x] = IF x = n THEN After(NoData, call[c].body)[n]
                                                 ELSE Held(heap, ref[c])[x]
<1> DEFINE b == call[c].body
<1>1. /\ pc[c] = "write" /\ UNCHANGED <<sessions, pc, call, result>>
      /\ call[c] \in Calls /\ b \in Bodies /\ call[c].id \in SessionIds
      /\ heap \in Seq(Data) /\ Len(heap) \in Nat /\ ref[c] \in 0 .. Len(heap)
      /\ todo[c] \subseteq Named(b)
  BY DEF UpdWrite, HandlersOK, ClientOK, Types, Calls
<1>2. PICK n \in todo[c] :
         /\ todo' = [todo EXCEPT ![c] = @ \ {n}]
         /\ \/ /\ ref[c] # 0
               /\ heap' = [heap EXCEPT ![ref[c]][n] = IF b[n] = Null THEN Nil ELSE b[n]]
               /\ UNCHANGED ref
            \/ /\ ref[c] = 0 /\ b[n] # Null
               /\ heap' = Append(heap, [NoData EXCEPT ![n] = b[n]])
               /\ ref' = [ref EXCEPT ![c] = Len(heap) + 1]
            \/ ref[c] = 0 /\ b[n] = Null /\ UNCHANGED <<heap, ref>>
  BY Zenon DEF UpdWrite
<1>3. n \in Named(b) /\ n \in Names /\ b[n] \in Values \cup {Null} /\ b[n] # Nil
  BY <1>1, <1>2 DEF Named, Bodies
<1>4. PICK v \in Values \cup {Nil} :
         v = After(NoData, b)[n] /\ v = IF b[n] = Null THEN Nil ELSE b[n]
  BY <1>3 DEF After
<1>5. PICK p : p = ref[c]
  OBVIOUS
<1>6. PICK q : q = ref'[c]
  OBVIOUS
<1> HIDE DEF b
<1>7. /\ heap' \in Seq(Data) /\ q \in Nat /\ q <= Len(heap') /\ Len(heap) <= Len(heap')
      /\ ref' = [ref EXCEPT ![c] = q]
      /\ q = p \/ (p = 0 /\ q = Len(heap) + 1)
      /\ \A x \in Names : Held(heap', q)[x] = IF x = n THEN v ELSE Held(heap, p)[x]
      /\ \A r \in 0 .. Len(heap) : r = 0 \/ r # p => Held(heap', r) = Held(heap, r)
  <2>0. /\ ref = [ref EXCEPT ![c] = ref[c]]
        /\ p \in 0 .. Len(heap) /\ Len(heap) \in Nat /\ heap \in Seq(Data)
    BY <1>1, <1>5 DEF HandlersOK, Types
  <2>1. CASE /\ p # 0 /\ UNCHANGED ref
             /\ heap' = [heap EXCEPT ![p][n] = v]
    <3>1. p \in 1 .. Len(heap)
      BY <1>1, <1>5, <2>1
    <3>2. PICK e \in Data : /\ e = [heap[p] EXCEPT ![n] = v]
                            /\ \A x \in Names : e[x] = IF x = n THEN v ELSE heap[p][x]
      <4>1. heap[p] \in Data
        BY <2>0, <3>1
      <4>2. PICK e : e = [heap[p] EXCEPT ![n] = v]
        OBVIOUS
      <4>3. e \in Data /\ \A x \in Names : e[x] = IF x = n THEN v ELSE heap[p][x]
        BY <1>3, <1>4, <4>1, <4>2 DEF Data
      <4> QED
        BY <4>2, <4>3
    <3>3. heap' = [heap EXCEPT ![p] = e]
      BY <2>1, <3>2
    <3>4. /\ heap' \in Seq(Data) /\ Len(heap') = Len(heap)
          /\ Held(heap', p) = e
          /\ \A r \in 0 .. Len(heap) : r # p => Held(heap', r) = Held(heap, r)
      BY <2>0, <3>1, <3>3, HeapUpdate
    <3>5. q = p /\ ref' = [ref EXCEPT ![c] = q]
      BY <1>5, <1>6, <2>0, <2>1
    <3>6. \A x \in Names : e[x] = IF x = n THEN v ELSE Held(heap, p)[x]
      BY <2>1, <3>2 DEF Held
    <3>7. heap' \in Seq(Data) /\ q \in Nat /\ q <= Len(heap') /\ Len(heap) <= Len(heap')
      BY <2>0, <3>4, <3>5
    <3>8. \A x \in Names : Held(heap', q)[x] = IF x = n THEN v ELSE Held(heap, p)[x]
      BY <3>4, <3>5, <3>6
    <3>9. \A r \in 0 .. Len(heap) : r = 0 \/ r # p => Held(heap', r) = Held(heap, r)
      BY <2>1, <3>4
    <3> QED
      BY <3>5, <3>7, <3>8, <3>9
  <2>2. CASE /\ p = 0 /\ b[n] # Null
             /\ heap' = Append(heap, [NoData EXCEPT ![n] = b[n]])
             /\ ref' = [ref EXCEPT ![c] = Len(heap) + 1]
    <3>1. PICK d \in Data : d = [NoData EXCEPT ![n] = b[n]]
      BY <1>3, <2>2, NoDataType DEF Data
    <3>2. q = Len(heap) + 1 /\ ref' = [ref EXCEPT ![c] = q]
      BY <1>6, <2>2 DEF HandlersOK, Types
    <3>3. /\ heap' \in Seq(Data) /\ Len(heap') = q /\ q \in Nat \ {0}
          /\ Held(heap', q) = d
          /\ \A r \in 0 .. Len(heap) : Held(heap', r) = Held(heap, r)
      BY <1>1, <2>2, <3>1, <3>2, HeapAppend
    <3>4. \A x \in Names : d[x] = IF x = n THEN v ELSE Held(heap, p)[x]
      BY <1>4, <2>2, <3>1 DEF Held, NoData
    <3>5. heap' \in Seq(Data) /\ q \in Nat /\ q <= Len(heap') /\ Len(heap) <= Len(heap')
      BY <2>0, <3>2, <3>3
    <3>6. \A x \in Names : Held(heap', q)[x] = IF x = n THEN v ELSE Held(heap, p)[x]
      BY <3>3, <3>4
    <3> QED
      BY <2>2, <3>2, <3>3, <3>5, <3>6
  <2>3. CASE p = 0 /\ b[n] = Null /\ UNCHANGED <<heap, ref>>
    <3>1. \A x \in Names : Held(heap', q)[x] = IF x = n THEN v ELSE Held(heap, p)[x]
      BY <1>4, <1>5, <1>6, <2>3 DEF Held, NoData
    <3>2. q = p /\ ref' = [ref EXCEPT ![c] = q]
      BY <1>5, <1>6, <2>0, <2>3
    <3>3. heap' \in Seq(Data) /\ q \in Nat /\ q <= Len(heap') /\ Len(heap) <= Len(heap')
      BY <2>0, <2>3, <3>2
    <3>4. \A r \in 0 .. Len(heap) : Held(heap', r) = Held(heap, r)
      BY <2>3
    <3> QED
      BY <3>1, <3>2, <3>3, <3>4
  <2> QED
    BY <1>2, <1>4, <1>5, <2>1, <2>2, <2>3
<1>8. ref'[c] = q /\ todo'[c] = todo[c] \ {n} /\ OthersKept(c) /\ HeapKept(c) /\ Types'
  BY <1>1, <1>2, <1>5, <1>7 DEF OthersKept, HeapKept, Types, HandlersOK
<1>9. ClientOK(c)'
  BY <1>1, <1>2, <1>7, <1>8 DEF HandlersOK, ClientOK, b
<1>10. Moves(c)
  BY <1>1, <1>5, <1>7, <1>8 DEF Moves
<1>11. Step(c)
  BY <1>1, <1>8, <1>9, <1>10, StepFrame
<1> QED
  BY <1>1, <1>3, <1>4, <1>5, <1>6, <1>7, <1>8, <1>11 DEF b

LEMMA StoreStep ==
    ASSUME HandlersOK, NEW c \in Clients, UpdStore(c)
    PROVE  /\ Step(c)
           /\ pc[c] = "write" /\ todo[c] = {} /\ pc'[c] = "encode"
           /\ UNCHANGED <<heap, call, ref>>
           /\ call[c].body \in Bodies
           /\ sessions'[call[c].id] = ref[c] /\ ref[c] # NoSession
<1>1. /\ pc[c] = "write" /\ todo[c] = {} /\ UNCHANGED <<heap, call, ref, todo, result>>
      /\ pc' = [pc EXCEPT ![c] = "encode"]
      /\ sessions' = [sessions EXCEPT ![call[c].id] = ref[c]]
      /\ call[c] \in Calls /\ call[c].id \in SessionIds /\ call[c].body \in Bodies
      /\ ref[c] \in Nat /\ ref[c] # NoSession
  BY RestAssumption DEF UpdStore, Goto, HandlersOK, ClientOK, Types, Calls
<1>2. /\ pc'[c] = "encode" /\ sessions'[call[c].id] = ref[c]
      /\ \A id \in SessionIds \ {call[c].id} : sessions'[id] = sessions[id]
      /\ OthersKept(c) /\ Types'
  BY <1>1 DEF OthersKept, Types, HandlersOK
<1>3. ClientOK(c)'
  BY <1>1, <1>2 DEF ClientOK, HandlersOK
<1>4. Moves(c)
  BY <1>1, <1>2 DEF Moves
<1> QED
  BY <1>1, <1>2, <1>3, <1>4, HeapSame, StepFrame

LEMMA DelStep ==
    ASSUME HandlersOK, NEW c \in Clients, handleDelSession(c)
    PROVE  /\ Step(c)
           /\ pc[c] = "start" /\ call[c].op = "del" /\ pc'[c] = "done"
           /\ UNCHANGED <<heap, call, ref>>
           /\ sessions'[call[c].id] = NoSession /\ result'[c] = Deleted
<1>1. /\ pc[c] = "start" /\ call[c].op = "del" /\ UNCHANGED <<heap, call, ref, todo>>
      /\ pc' = [pc EXCEPT ![c] = "done"]
      /\ result' = [result EXCEPT ![c] = Deleted]
      /\ sessions' = [sessions EXCEPT ![call[c].id] = NoSession]
      /\ call[c] \in Calls /\ call[c].id \in SessionIds
  BY DEF handleDelSession, At, Respond, Goto, HandlersOK, ClientOK, Types, Calls
<1>2. /\ pc'[c] = "done" /\ sessions'[call[c].id] = NoSession /\ result'[c] = Deleted
      /\ \A id \in SessionIds \ {call[c].id} : sessions'[id] = sessions[id]
      /\ OthersKept(c) /\ Types'
  BY <1>1 DEF OthersKept, Types, HandlersOK
<1>3. ClientOK(c)'
  BY <1>1, <1>2, RestAssumption DEF ClientOK, HandlersOK
<1>4. Moves(c)
  BY <1>1, <1>2 DEF Moves, HandlersOK, ClientOK
<1> QED
  BY <1>1, <1>2, <1>3, <1>4, HeapSame, StepFrame

LEMMA EncodeStep ==
    ASSUME HandlersOK, NEW c \in Clients, Encode(c)
    PROVE  /\ Step(c)
           /\ pc[c] = "encode" /\ pc'[c] = "done"
           /\ UNCHANGED <<heap, call, ref, sessions>>
           /\ result'[c] = Held(heap, ref[c])
<1>1. /\ pc[c] = "encode" /\ UNCHANGED <<heap, call, ref, todo, sessions>>
      /\ pc' = [pc EXCEPT ![c] = "done"]
      /\ result' = [result EXCEPT ![c] = Held(heap, ref[c])]
  BY DEF Encode, Respond, Goto, DataAt, Held
<1>0. Held(heap, ref[c]) \in Data
  BY HeldType DEF HandlersOK, ClientOK, Types
<1>2. pc'[c] = "done" /\ result'[c] = Held(heap, ref[c]) /\ OthersKept(c) /\ Types'
  BY <1>0, <1>1 DEF OthersKept, Types, HandlersOK
<1>3. ClientOK(c)'
  BY <1>0, <1>1, <1>2, RestAssumption DEF ClientOK, HandlersOK
<1>4. Moves(c)
  BY <1>1, <1>2 DEF Moves
<1> QED
  BY <1>1, <1>2, <1>3, <1>4, HeapSame, StepFrame

LEMMA ReturnStep ==
    ASSUME HandlersOK, NEW c \in Clients, Return(c)
    PROVE  /\ Step(c)
           /\ pc[c] = "done" /\ pc'[c] = "idle"
           /\ UNCHANGED <<heap, sessions>>
           /\ call' = [call EXCEPT ![c] = NoCall]
<1>1. /\ pc[c] = "done" /\ UNCHANGED <<heap, todo, sessions>>
      /\ pc' = [pc EXCEPT ![c] = "idle"]
      /\ call' = [call EXCEPT ![c] = NoCall]
      /\ ref' = [ref EXCEPT ![c] = 0]
      /\ result' = [result EXCEPT ![c] = Pending]
  BY DEF Return, Goto
<1>2. /\ pc'[c] = "idle" /\ result'[c] = Pending /\ ref'[c] = 0 /\ call'[c] = NoCall
      /\ OthersKept(c) /\ Types'
  BY <1>1 DEF OthersKept, Types, HandlersOK
<1>3. ClientOK(c)'
  BY <1>1, <1>2 DEF ClientOK, HandlersOK, Types
<1>4. Moves(c)
  BY <1>1, <1>2 DEF Moves
<1> QED
  BY <1>1, <1>2, <1>3, <1>4, HeapSame, StepFrame

--------------------------------------------------------------------------------
(***************************************************************************)
(* The data maps stay apart.                                               *)
(***************************************************************************)

\* The place that a handler goes over to is not another session's, nor another
\* handler's who has another session.
LEMMA PlaceOwn ==
    ASSUME HandlersOK, Apart, NEW c \in Clients, Step(c), ref'[c] # 0
    PROVE  /\ pc[c] # "idle" /\ call'[c] = call[c] /\ call[c].id \in SessionIds
           /\ \A id \in SessionIds : sessions[id] = ref'[c] => id = call[c].id
           /\ \A d \in Clients : ref[d] = ref'[c] => call[d].id = call[c].id
<1>1. /\ pc[c] # "idle" /\ call'[c] = call[c] /\ call[c].id \in SessionIds
      /\ ref'[c] \in {ref[c], sessions[call[c].id], Len(heap) + 1}
      /\ ref'[c] # NoSession
      /\ Len(heap) \in Nat
  BY RestAssumption DEF Step, Moves, HandlersOK, ClientOK, Types, Calls
<1>2. CASE ref'[c] = ref[c]
  BY <1>1, <1>2 DEF Apart
<1>3. CASE ref'[c] = sessions[call[c].id]
  BY <1>1, <1>3 DEF Apart
<1>4. CASE ref'[c] = Len(heap) + 1
  <2>1. ASSUME NEW id \in SessionIds, sessions[id] = ref'[c]
        PROVE  FALSE
    BY <1>1, <1>4, <2>1 DEF HandlersOK, Types
  <2>2. ASSUME NEW d \in Clients, ref[d] = ref'[c]
        PROVE  FALSE
    BY <1>1, <1>4, <2>2 DEF HandlersOK, Types, ClientOK
  <2> QED
    BY <1>1, <2>1, <2>2
<1> QED
  BY <1>1, <1>2, <1>3, <1>4

LEMMA ApartStep ==
    ASSUME HandlersOK, Apart, NEW c \in Clients, Step(c)
    PROVE  Apart'
<1>1. \A d \in Clients \ {c} : call'[d] = call[d] /\ ref'[d] = ref[d]
  BY DEF Step, OthersKept
<1>2. \A id \in SessionIds :
         \/ sessions'[id] = sessions[id]
         \/ id = call[c].id /\ sessions'[id] \in {NoSession, ref'[c]}
  BY DEF Step, Moves
<1>3. ASSUME NEW id \in SessionIds, NEW jd \in SessionIds,
             sessions'[id] \notin {0, NoSession}, sessions'[id] = sessions'[jd]
      PROVE  id = jd
  <2>1. CASE sessions'[id] = sessions[id] /\ sessions'[jd] = sessions[jd]
    BY <1>3, <2>1 DEF Apart
  <2>2. CASE sessions'[id] # sessions[id] /\ sessions'[jd] = sessions[jd]
    BY <1>2, <1>3, <2>2, PlaceOwn
  <2>3. CASE sessions'[id] = sessions[id] /\ sessions'[jd] # sessions[jd]
    <3>1. jd = call[c].id /\ sessions[id] = ref'[c] /\ ref'[c] # 0
      BY <1>2, <1>3, <2>3
    <3> QED
      BY <3>1, PlaceOwn
  <2>4. CASE sessions'[id] # sessions[id] /\ sessions'[jd] # sessions[jd]
    BY <1>2, <2>4
  <2> QED
    BY <2>1, <2>2, <2>3, <2>4
<1>4. ASSUME NEW d \in Clients, NEW id \in SessionIds, ref'[d] # 0, sessions'[id] = ref'[d]
      PROVE  call'[d].id = id
  <2>0. ref'[d] # NoSession
    BY RestAssumption DEF Step, HandlersOK, Types
  <2>1. CASE d = c
    BY <1>2, <1>4, <2>1, <2>0, PlaceOwn
  <2>2. CASE d # c /\ sessions'[id] = sessions[id]
    BY <1>1, <1>4, <2>2 DEF Apart
  <2>3. CASE d # c /\ sessions'[id] # sessions[id]
    BY <1>1, <1>2, <1>4, <2>0, <2>3, PlaceOwn
  <2> QED
    BY <2>1, <2>2, <2>3
<1>5. ASSUME NEW d \in Clients, NEW e \in Clients, ref'[d] # 0, ref'[d] = ref'[e]
      PROVE  call'[d].id = call'[e].id
  <2>1. CASE d # c /\ e # c
    BY <1>1, <1>5, <2>1 DEF Apart
  <2>2. CASE d = c /\ e # c
    BY <1>1, <1>5, <2>2, PlaceOwn
  <2>3. CASE d # c /\ e = c
    BY <1>1, <1>5, <2>3, PlaceOwn
  <2> QED
    BY <2>1, <2>2, <2>3
<1> QED
  BY <1>3, <1>4, <1>5 DEF Apart

\* A client that keeps to itself shares no session, and no data, with a handler.
LEMMA AloneKept ==
    ASSUME HandlersOK, Apart, NEW c \in Clients, Step(c), NEW o \in Alone, NEW id \in IdsOf[o],
           o = c => pc[c] = "idle" \/ call[c].id # id
    PROVE  /\ o \in Clients /\ id \in SessionIds
           /\ sessions'[id] = sessions[id]
           /\ sessions[id] # NoSession =>
                 Held(heap', sessions[id]) = Held(heap, sessions[id])
<1>1. o \in Clients /\ id \in SessionIds
  BY RestAssumption DEF Alone
<1>2. pc[c] # "idle" => call[c].id # id
  BY DEF Alone, HandlersOK, ClientOK
<1>3. sessions'[id] = sessions[id]
  BY <1>1, <1>2 DEF Step, Moves
<1>4. ASSUME sessions[id] # NoSession
      PROVE  Held(heap', sessions[id]) = Held(heap, sessions[id])
  <2>1. sessions[id] \in 0 .. Len(heap)
    BY <1>1, <1>4 DEF HandlersOK, Types
  <2>2. ASSUME sessions[id] # 0, sessions[id] = ref[c]
        PROVE  FALSE
    <3>1. ref[c] # 0 /\ pc[c] # "idle"
      BY <2>2 DEF HandlersOK, ClientOK
    <3>2. call[c].id = id
      BY <1>1, <2>2, <3>1 DEF Apart
    <3> QED
      BY <1>2, <3>1, <3>2
  <2> QED
    BY <2>1, <2>2 DEF Step, HeapKept
<1> QED
  BY <1>1, <1>3, <1>4

LEMMA RefKept ==
    ASSUME HandlersOK, Apart, NEW c \in Clients, Step(c), NEW d \in Alone \ {c}
    PROVE  Held(heap', ref[d]) = Held(heap, ref[d])
<1>1. d \in Clients /\ ref[d] \in 0 .. Len(heap)
  BY DEF Alone, HandlersOK, Types, ClientOK
<1>2. ASSUME ref[d] # 0, ref[d] = ref[c]
      PROVE  FALSE
  <2>1. /\ pc[c] # "idle" /\ call[c].id \in IdsOf[c]
        /\ pc[d] # "idle" /\ call[d].id \in IdsOf[d]
        /\ call[c].id = call[d].id
    BY <1>1, <1>2 DEF Apart, HandlersOK, ClientOK
  <2> QED
    BY <2>1 DEF Alone
<1> QED
  BY <1>1, <1>2 DEF Step, HeapKept

LEMMA OthersHalfway ==
    ASSUME HandlersOK, Apart, Updates, NEW c \in Clients, Step(c),
           NEW d \in Alone \ {c}, pc'[d] = "write"
    PROVE  Halfway(d)'
<1>1. /\ d \in Clients /\ pc[d] = "write" /\ Halfway(d)
      /\ call'[d] = call[d] /\ ref'[d] = ref[d] /\ todo'[d] = todo[d]
      /\ call[d].id \in IdsOf[d]
  BY DEF Alone, Updates, Step, OthersKept, HandlersOK, ClientOK
<1>2. sessions'[call[d].id] = sessions[call[d].id]
  BY <1>1, AloneKept
<1>3. Held(heap', ref[d]) = Held(heap, ref[d])
  BY RefKept
<1> QED
  BY <1>1, <1>2, <1>3 DEF Halfway

LEMMA WriteHalfway ==
    ASSUME HandlersOK, NEW c \in Clients, Halfway(c), UpdWrite(c)
    PROVE  Halfway(c)'
<1> DEFINE b == call[c].body
           d == Held(heap, ref[c])
           e == Held(heap', ref'[c])
<1>1. /\ UNCHANGED <<pc, call, sessions>> /\ b \in Bodies
      /\ ref'[c] = ref[c] \/ ref[c] = 0
  BY WriteStep
<1>2. PICK n \in Named(b) :
         /\ todo'[c] = todo[c] \ {n}
         /\ \A x \in Names : e[x] = IF x = n THEN After(NoData, b)[n] ELSE d[x]
  BY WriteStep
<1>3. /\ sessions[call[c].id] # NoSession
      /\ \/ sessions[call[c].id] = ref[c]
         \/ sessions[call[c].id] = 0 /\ \A x \in Names : b[x] = Nil => d[x] = Nil
      /\ \A x \in Named(b) \ todo[c] : d[x] = After(NoData, b)[x]
  BY DEF Halfway
<1>4. ref[c] = 0 => \A x \in Names : d[x] = Nil
  BY DEF Held, NoData
<1> HIDE DEF d, e, b
<1>5. Named(b) \subseteq Names /\ \A x \in Names : b[x] = Nil => x \notin Named(b)
  BY DEF Named
<1>6. \A x \in Named(b) \ todo'[c] : e[x] = After(NoData, b)[x]
  BY <1>2, <1>3, <1>5
<1>7. \/ sessions[call[c].id] = ref'[c]
      \/ sessions[call[c].id] = 0 /\ \A x \in Names : b[x] = Nil => e[x] = Nil
  BY <1>1, <1>2, <1>3, <1>4, <1>5
<1> QED
  BY <1>1, <1>3, <1>6, <1>7 DEF Halfway, b, e

LEMMA LookupHalfway ==
    ASSUME HandlersOK, NEW c \in Clients, UpdLookup(c), pc'[c] = "write"
    PROVE  Halfway(c)'
BY LookupStep DEF Halfway, Current

\* The steps of a client and its handler.
Operation(c) ==
    \/ Arrive(c) \/ handleNewSession(c) \/ handleGetSession(c)
    \/ UpdLookup(c) \/ UpdWrite(c) \/ UpdStore(c)
    \/ NewRefuses(c) \/ UpdRefuses(c)
    \/ handleDelSession(c) \/ Encode(c) \/ Return(c)

LEMMA OperationStep ==
    ASSUME HandlersOK, NEW c \in Clients, Operation(c)
    PROVE  Step(c) /\ (pc'[c] = "write" => UpdLookup(c) \/ UpdWrite(c))
<1>1. CASE Arrive(c) \/ handleNewSession(c) \/ handleGetSession(c)
  BY <1>1, ArriveStep, NewStep, GetStep
<1>2. CASE UpdLookup(c) \/ UpdWrite(c)
  BY <1>2, LookupStep, WriteStep
<1>3. CASE UpdStore(c) \/ handleDelSession(c) \/ Encode(c) \/ Return(c)
  BY <1>3, StoreStep, DelStep, EncodeStep, ReturnStep
<1>4. CASE NewRefuses(c) \/ UpdRefuses(c)
  BY <1>4, RefuseStep
<1> QED
  BY <1>1, <1>2, <1>3, <1>4 DEF Operation

LEMMA OperationInv ==
    ASSUME RestInv, NEW c \in Clients, Operation(c)
    PROVE  RestInv'
<1>1. HandlersOK /\ Apart /\ Updates /\ Step(c) /\ HandlersOK'
  BY OperationStep DEF RestInv, Step
<1>2. ASSUME NEW d \in Alone, pc'[d] = "write"
      PROVE  Halfway(d)'
  <2>1. CASE d # c
    BY <1>1, <1>2, <2>1, OthersHalfway
  <2>2. CASE d = c /\ UpdLookup(c)
    BY <1>1, <1>2, <2>2, LookupHalfway
  <2>3. CASE d = c /\ UpdWrite(c)
    <3>1. pc[c] = "write"
      BY <1>1, <2>3, WriteStep
    <3> QED
      BY <1>1, <2>3, <3>1, WriteHalfway DEF Updates
  <2> QED
    BY <1>1, <1>2, <2>1, <2>2, <2>3, OperationStep
<1> QED
  BY <1>1, <1>2, ApartStep DEF RestInv, Updates, Alone

LEMMA RestartInv ==
    ASSUME RestInv, Restart
    PROVE  RestInv'
<1>1. /\ sessions' = [id \in SessionIds |-> NoSession] /\ heap' = <<>> /\ call' = call
      /\ pc' = [c \in Clients |-> IF pc[c] = "idle" THEN "idle" ELSE "done"]
      /\ ref' = [c \in Clients |-> 0] /\ todo' = [c \in Clients |-> {}]
      /\ result' = [c \in Clients |-> IF pc[c] = "idle" THEN Pending ELSE Failed]
  BY DEF Restart
<1>2. Types'
  BY <1>1 DEF Types, RestInv, HandlersOK
<1>3. ASSUME NEW c \in Clients
      PROVE  ClientOK(c)'
  BY <1>1, RestAssumption DEF ClientOK, RestInv, HandlersOK
<1>4. HandlersOK'
  BY <1>1, <1>2, <1>3 DEF HandlersOK
<1>5. Apart'
  BY <1>1 DEF Apart
<1>6. Updates'
  BY <1>1 DEF Updates, Alone
<1> QED
  BY <1>4, <1>5, <1>6 DEF RestInv

\* The invariant holds of every reachable state.
LEMMA RestInvariant == Spec => []RestInv
<1>1. Init => RestInv
  <2> SUFFICES ASSUME Init
               PROVE  RestInv
    OBVIOUS
  <2>1. Types
    BY DEF Init, Types
  <2>2. HandlersOK
    BY <2>1 DEF Init, HandlersOK, ClientOK
  <2> QED
    BY <2>2 DEF Init, RestInv, Apart, Updates, Alone
<1>2. RestInv /\ [Next]_vars => RestInv'
  <2> SUFFICES ASSUME RestInv, [Next]_vars
               PROVE  RestInv'
    OBVIOUS
  <2>1. ASSUME NEW c \in Clients, Operation(c)
        PROVE  RestInv'
    BY <2>1, OperationInv
  <2>2. CASE UNCHANGED vars
    BY <2>2 DEF vars, handlers, bounds, RestInv, HandlersOK, Types, ClientOK, Apart,
                Updates, Halfway
  <2> QED
    BY <2>1, <2>2, RestartInv DEF Next, Quiet, Operation
<1> QED
  BY <1>1, <1>2, PTL DEF Spec

\* The server is type correct: its sessions and its handlers point into the heap
\* of data maps, whatever the clients call and whenever it is started again.
THEOREM SpecTypeOK == Spec => []TypeOK
<1>1. RestInv => TypeOK
  BY RestAssumption DEF RestInv, HandlersOK, Types, ClientOK, TypeOK
<1> QED
  BY <1>1, RestInvariant, PTL

--------------------------------------------------------------------------------
(***************************************************************************)
(* The store that the clients who keep to themselves see.                  *)
(***************************************************************************)

LEMMA UpdatingIs ==
    ASSUME HandlersOK, NEW o \in Alone, NEW id \in IdsOf[o]
    PROVE  Updating(id) = IF pc[o] = "write" /\ call[o].id = id THEN {o} ELSE {}
<1>1. \A c \in Clients : pc[c] = "write" /\ call[c].id = id => c = o
  BY DEF Alone, HandlersOK, ClientOK
<1> QED
  BY <1>1 DEF Updating, Alone

LEMMA ChooseOnly == \A o : (CHOOSE c \in {o} : TRUE) = o
<1>1. ASSUME NEW o
      PROVE  (CHOOSE c \in {o} : TRUE) \in {o}
  <2>1. \E c \in {o} : TRUE
    OBVIOUS
  <2> QED
    BY <2>1, Zenon
<1> QED
  BY <1>1

\* What a session looks like, by what its owner's handler is doing.
LEMMA StoredIs ==
    ASSUME HandlersOK, NEW o \in Alone, NEW id \in IdsOf[o]
    PROVE  /\ sessions[id] = NoSession => Stored(id) = NoSession
           /\ sessions[id] # NoSession /\ pc[o] = "write" /\ call[o].id = id =>
                 Stored(id) = After(Held(heap, sessions[id]), call[o].body)
           /\ sessions[id] # NoSession /\ (pc[o] # "write" \/ call[o].id # id) =>
                 Stored(id) = Held(heap, sessions[id])
BY UpdatingIs, ChooseOnly DEF Stored, DataAt, Held

LEMMA StoredIsNext ==
    ASSUME HandlersOK', NEW o \in Alone, NEW id \in IdsOf[o]
    PROVE  /\ sessions'[id] = NoSession => Stored(id)' = NoSession
           /\ sessions'[id] # NoSession /\ pc'[o] = "write" /\ call'[o].id = id =>
                 Stored(id)' = After(Held(heap', sessions'[id]), call'[o].body)
           /\ sessions'[id] # NoSession /\ (pc'[o] # "write" \/ call'[o].id # id) =>
                 Stored(id)' = Held(heap', sessions'[id])
<1>1. \A c \in Clients : pc'[c] = "write" /\ call'[c].id = id => c = o
  BY DEF Alone, HandlersOK, ClientOK
<1>2. Updating(id)' = IF pc'[o] = "write" /\ call'[o].id = id THEN {o} ELSE {}
  BY <1>1 DEF Updating, Alone
<1> QED
  BY <1>2, ChooseOnly DEF Stored, DataAt, Held

LEMMA StoredKept ==
    ASSUME HandlersOK, Apart, NEW c \in Clients, Step(c), NEW o \in Alone, NEW id \in IdsOf[o],
           o = c => pc[c] = "idle" \/ call[c].id # id
    PROVE  Stored(id)' = Stored(id)
<1>1. /\ sessions'[id] = sessions[id]
      /\ sessions[id] # NoSession => Held(heap', sessions[id]) = Held(heap, sessions[id])
  BY AloneKept
<1>2. CASE o # c
  <2>1. pc'[o] = pc[o] /\ call'[o] = call[o]
    BY <1>2 DEF Step, OthersKept, Alone
  <2> QED
    BY <1>1, <2>1, StoredIs, StoredIsNext DEF Step
<1>3. CASE o = c
  <2>1. /\ pc[o] # "write" \/ call[o].id # id
        /\ pc'[o] # "write" \/ call'[o].id # id
    BY <1>3 DEF Step, Moves
  <2> QED
    BY <1>1, <2>1, StoredIs, StoredIsNext DEF Step
<1> QED
  BY <1>2, <1>3

LEMMA AnsweredKept ==
    ASSUME HandlersOK, Apart, NEW c \in Clients, Step(c), NEW d \in Alone \ {c}
    PROVE  Answered(d)' = Answered(d)
<1>1. /\ d \in Clients /\ pc'[d] = pc[d] /\ call'[d] = call[d] /\ ref'[d] = ref[d]
      /\ result'[d] = result[d]
  BY DEF Alone, Step, OthersKept
<1> QED
  BY <1>1, RefKept DEF Answered, DataAt, Held

MappedStored == [id \in AloneIds |-> Stored(id)]
MappedCall == [c \in Alone |-> call[c]]
MappedAnswer == [c \in Alone |-> Answered(c)]

\* A step of a client that shares sessions is not seen.
LEMMA HiddenStep ==
    ASSUME HandlersOK, Apart, NEW c \in Clients \ Alone, Step(c)
    PROVE  UNCHANGED <<MappedStored, MappedCall, MappedAnswer>>
<1>1. \A id \in AloneIds : Stored(id)' = Stored(id)
  BY StoredKept DEF AloneIds
<1>2. \A d \in Alone : call'[d] = call[d] /\ Answered(d)' = Answered(d)
  BY AnsweredKept DEF Step, OthersKept, Alone
<1> QED
  BY <1>1, <1>2 DEF MappedStored, MappedCall, MappedAnswer, AloneIds, Alone

\* A step of a client that keeps to itself changes its session, and its answer.
LEMMA MappedStep ==
    ASSUME HandlersOK, Apart, NEW c \in Alone, Step(c), NEW i, i = call[c].id
    PROVE  /\ MappedCall' = [MappedCall EXCEPT ![c] = call'[c]]
           /\ MappedAnswer' = [MappedAnswer EXCEPT ![c] = Answered(c)']
           /\ pc[c] = "idle" => MappedStored' = MappedStored
           /\ pc[c] # "idle" =>
                 /\ i \in AloneIds /\ i \in IdsOf[c]
                 /\ MappedStored' = [MappedStored EXCEPT ![i] = Stored(i)']
<1>1. c \in Clients /\ (pc[c] # "idle" => i \in IdsOf[c] /\ i \in AloneIds)
  BY DEF Alone, AloneIds, HandlersOK, ClientOK
<1>2. \A d \in Alone \ {c} : call'[d] = call[d] /\ Answered(d)' = Answered(d)
  BY <1>1, AnsweredKept DEF Step, OthersKept, Alone
<1>3. \A id \in AloneIds : pc[c] = "idle" \/ id # i => Stored(id)' = Stored(id)
  BY <1>1, StoredKept DEF AloneIds
<1>4. AloneIds' = AloneIds /\ Alone' = Alone
  BY DEF AloneIds, Alone
<1>5. MappedCall' = [MappedCall EXCEPT ![c] = call'[c]]
  BY <1>2, <1>4 DEF MappedCall
<1>6. MappedAnswer' = [MappedAnswer EXCEPT ![c] = Answered(c)']
  BY <1>2, <1>4 DEF MappedAnswer
<1>7. pc[c] = "idle" => MappedStored' = MappedStored
  BY <1>3, <1>4 DEF MappedStored
<1>8. pc[c] # "idle" => MappedStored' = [MappedStored EXCEPT ![i] = Stored(i)']
  BY <1>3, <1>4 DEF MappedStored
<1> QED
  BY <1>1, <1>5, <1>6, <1>7, <1>8

--------------------------------------------------------------------------------
(***************************************************************************)
(* The steps of the store.                                                 *)
(***************************************************************************)

\* What it takes for a step to be the effect of a call.
LEMMA PerformIs ==
    ASSUME NEW c \in Alone, NEW i \in AloneIds, NEW d, NEW a,
           call[c].id = i, call[c] # NoCall, Answered(c) = Pending,
           MappedCall' = MappedCall,
           MappedStored' = [MappedStored EXCEPT ![i] = d],
           MappedAnswer' = [MappedAnswer EXCEPT ![c] = a],
           \/ call[c].op = "new" /\ d = After(NoData, call[c].body) /\ a = d
           \/ /\ call[c].op = "upd" /\ Stored(i) # NoSession
              /\ d = After(Stored(i), call[c].body) /\ a = d
           \/ /\ \/ call[c].op = "badnew"
                 \/ call[c].op = "badupd" /\ Stored(i) # NoSession
              /\ d = Stored(i) /\ a = Refused
           \/ /\ \/ call[c].op = "get"
                 \/ call[c].op \in {"upd", "badupd"} /\ Stored(i) = NoSession
              /\ d = Stored(i) /\ a = d
           \/ call[c].op = "del" /\ d = NoSession /\ a = Deleted
    PROVE  Store!Perform(c)
<1>1. MappedStored[i] = Stored(i) /\ MappedCall[c] = call[c] /\ MappedAnswer[c] = Answered(c)
  BY DEF MappedStored, MappedCall, MappedAnswer
<1>2. d = Stored(i) => MappedStored' = MappedStored
  BY DEF MappedStored
<1>3. Store!Perform(c) <=>
        /\ MappedCall[c] # NoCall /\ MappedAnswer[c] = Pending
        /\ LET e == MappedStored[MappedCall[c].id]
               op == MappedCall[c].op
           IN  \/ op = "new" /\ Store!Becomes(c, After(NoData, MappedCall[c].body))
               \/ op = "upd" /\ e # NoSession
                     /\ Store!Becomes(c, After(e, MappedCall[c].body))
               \/ /\ op = "badnew" \/ (op = "badupd" /\ e # NoSession)
                  /\ MappedAnswer' = [MappedAnswer EXCEPT ![c] = Refused]
                  /\ UNCHANGED MappedStored
               \/ /\ op = "get" \/ (op \in {"upd", "badupd"} /\ e = NoSession)
                  /\ MappedAnswer' = [MappedAnswer EXCEPT ![c] = e]
                  /\ UNCHANGED MappedStored
               \/ /\ op = "del"
                  /\ MappedStored' = [MappedStored EXCEPT ![MappedCall[c].id] = NoSession]
                  /\ MappedAnswer' = [MappedAnswer EXCEPT ![c] = Deleted]
        /\ UNCHANGED MappedCall
  <2>1. Store!NoData = NoData /\ \A e, b : Store!After(e, b) = After(e, b)
    BY DEF Store!NoData, NoData, Store!After, After
  <2> QED
    BY <2>1 DEF Store!Perform, MappedStored, MappedCall, MappedAnswer
<1>4. ASSUME NEW e
      PROVE  Store!Becomes(c, e) <=>
                /\ MappedStored' = [MappedStored EXCEPT ![MappedCall[c].id] = e]
                /\ MappedAnswer' = [MappedAnswer EXCEPT ![c] = e]
  BY DEF Store!Becomes, MappedStored, MappedCall, MappedAnswer
<1> QED
  BY <1>1, <1>2, <1>3, <1>4

\* A handler that has just its call has done nothing for it.
LEMMA Started ==
    ASSUME HandlersOK, NEW c \in Clients, pc[c] = "start"
    PROVE  call[c] # NoCall /\ Answered(c) = Pending
BY RestAssumption DEF Answered, HandlersOK, ClientOK

LEMMA NewPerforms ==
    ASSUME HandlersOK, Apart, NEW c \in Alone, handleNewSession(c)
    PROVE  Store!Perform(c)
<1>1. PICK i : i = call[c].id
  OBVIOUS
<1>2. c \in Clients
  BY DEF Alone
<1>3. /\ Step(c) /\ pc[c] = "start" /\ call[c].op = "new" /\ pc'[c] = "encode"
      /\ call' = call /\ sessions'[i] = ref'[c] /\ ref'[c] # NoSession
      /\ Held(heap', ref'[c]) = After(NoData, call[c].body)
  BY <1>1, <1>2, NewStep
<1>4. /\ i \in AloneIds /\ i \in IdsOf[c]
      /\ MappedStored' = [MappedStored EXCEPT ![i] = Stored(i)']
      /\ MappedAnswer' = [MappedAnswer EXCEPT ![c] = Answered(c)']
  BY <1>1, <1>2, <1>3, MappedStep
<1>5. Answered(c)' = After(NoData, call[c].body)
  BY <1>3 DEF Answered, DataAt, Held
<1>6. Stored(i)' = After(NoData, call[c].body)
  BY <1>3, <1>4, StoredIsNext DEF Step
<1>7. MappedCall' = MappedCall
  BY <1>3 DEF MappedCall
<1> QED
  BY <1>1, <1>2, <1>3, <1>4, <1>5, <1>6, <1>7, Started, PerformIs

\* A call that is answered with the session as it is.
LEMMA GetPerforms ==
    ASSUME HandlersOK, Apart, NEW c \in Alone, Step(c), pc[c] = "start",
           UNCHANGED <<call, sessions, heap>>,
           \/ Current(c) = NoSession /\ pc'[c] = "done" /\ result'[c] = NoSession
           \/ Current(c) # NoSession /\ pc'[c] = "encode" /\ ref'[c] = Current(c),
           call[c].op = "get" \/ (call[c].op = "upd" /\ Current(c) = NoSession)
    PROVE  Store!Perform(c)
<1>1. PICK i : i = call[c].id
  OBVIOUS
<1>2. c \in Clients
  BY DEF Alone
<1>3. /\ i \in AloneIds /\ i \in IdsOf[c]
      /\ MappedStored' = [MappedStored EXCEPT ![i] = Stored(i)']
      /\ MappedAnswer' = [MappedAnswer EXCEPT ![c] = Answered(c)']
  BY <1>1, <1>2, MappedStep
<1>4. pc'[c] # "write"
  OBVIOUS
<1>5. Stored(i) = IF sessions[i] = NoSession THEN NoSession ELSE Held(heap, sessions[i])
  BY <1>3, StoredIs
<1>6. Stored(i)' = Stored(i)
  BY <1>3, <1>4, <1>5, StoredIsNext DEF Step
<1>7. Answered(c)' = Stored(i)
  BY <1>1, <1>5 DEF Answered, DataAt, Held, Current
<1>8. MappedCall' = MappedCall
  BY DEF MappedCall
<1>9. Current(c) = NoSession => Stored(i) = NoSession
  BY <1>1, <1>5 DEF Current
<1> QED
  BY <1>1, <1>2, <1>3, <1>6, <1>7, <1>8, <1>9, Started, PerformIs

LEMMA RefusePerforms ==
    ASSUME HandlersOK, Apart, NEW c \in Alone, NewRefuses(c) \/ UpdRefuses(c)
    PROVE  Store!Perform(c)
<1>1. PICK i : i = call[c].id
  OBVIOUS
<1>2. /\ c \in Clients /\ Step(c)
      /\ pc[c] = "start" /\ pc'[c] = "done" /\ UNCHANGED <<call, sessions, heap>>
      /\ \/ call[c].op = "badnew" /\ result'[c] = Refused
         \/ call[c].op = "badupd" /\ Current(c) # NoSession /\ result'[c] = Refused
         \/ call[c].op = "badupd" /\ Current(c) = NoSession /\ result'[c] = NoSession
  BY RefuseStep DEF Alone
<1>3. /\ i \in AloneIds /\ i \in IdsOf[c]
      /\ MappedStored' = [MappedStored EXCEPT ![i] = Stored(i)']
      /\ MappedAnswer' = [MappedAnswer EXCEPT ![c] = Answered(c)']
  BY <1>1, <1>2, MappedStep
<1>4. Stored(i) = IF sessions[i] = NoSession THEN NoSession ELSE Held(heap, sessions[i])
  BY <1>2, <1>3, StoredIs
<1>5. Stored(i)' = Stored(i)
  BY <1>2, <1>3, <1>4, StoredIsNext DEF Step
<1>6. Answered(c)' = result'[c]
  BY <1>2 DEF Answered
<1>7. MappedCall' = MappedCall
  BY <1>2 DEF MappedCall
<1>8. Stored(i) = NoSession <=> Current(c) = NoSession
  <2>1. CASE Current(c) = NoSession
    BY <1>1, <1>4, <2>1 DEF Current
  <2>2. CASE Current(c) # NoSession
    <3>1. PICK p : p = sessions[i]
      OBVIOUS
    <3>2. p # NoSession /\ Stored(i) = Held(heap, p)
      BY <1>1, <1>4, <2>2, <3>1 DEF Current
    <3>3. p \in Nat /\ p <= Len(heap) /\ heap \in Seq(Data)
      BY <1>2, <1>3, <3>1, <3>2, RestAssumption DEF HandlersOK, Types, AloneIds, Alone
    <3>4. Held(heap, p) \in Data
      BY <3>3, HeldType
    <3> QED
      BY <2>2, <3>2, <3>4, RestAssumption
  <2> QED
    BY <2>1, <2>2
<1> QED
  BY <1>1, <1>2, <1>3, <1>5, <1>6, <1>7, <1>8, Started, PerformIs

LEMMA LookupPerforms ==
    ASSUME HandlersOK, Apart, NEW c \in Alone, UpdLookup(c)
    PROVE  Store!Perform(c)
<1>1. PICK i : i = call[c].id
  OBVIOUS
<1>2. /\ c \in Clients /\ Step(c)
      /\ pc[c] = "start" /\ call[c].op = "upd" /\ UNCHANGED <<call, sessions, heap>>
      /\ \/ Current(c) = NoSession /\ pc'[c] = "done" /\ result'[c] = NoSession
         \/ Current(c) # NoSession /\ pc'[c] = "write" /\ ref'[c] = Current(c)
  BY LookupStep DEF Alone
<1>3. CASE Current(c) = NoSession
  BY <1>2, <1>3, GetPerforms
<1>4. CASE Current(c) # NoSession
  <2>1. /\ i \in AloneIds /\ i \in IdsOf[c]
        /\ MappedStored' = [MappedStored EXCEPT ![i] = Stored(i)']
        /\ MappedAnswer' = [MappedAnswer EXCEPT ![c] = Answered(c)']
    BY <1>1, <1>2, MappedStep
  <2>2. PICK p : p = sessions[i]
    OBVIOUS
  <2>3. /\ p # NoSession /\ ref'[c] = p /\ sessions'[i] = p /\ pc'[c] = "write"
        /\ call'[c].id = i
    BY <1>1, <1>2, <1>4, <2>2 DEF Current
  <2>4. Stored(i) = Held(heap, p)
    BY <1>2, <2>1, <2>2, <2>3, StoredIs
  <2>5. Stored(i)' = After(Held(heap', p), call'[c].body)
    BY <1>2, <2>1, <2>3, StoredIsNext DEF Step
  <2>6. Answered(c)' = After(Held(heap', p), call'[c].body)
    BY <2>3 DEF Answered, DataAt, Held
  <2>7. Stored(i) # NoSession
    <3>1. p \in Nat /\ p <= Len(heap) /\ heap \in Seq(Data)
      BY <2>1, <2>2, <2>3, RestAssumption, <1>2 DEF HandlersOK, Types, Alone
    <3>2. Held(heap, p) \in Data
      BY <3>1, HeldType
    <3> QED
      BY <2>4, <3>2, RestAssumption
  <2>8. MappedCall' = MappedCall
    BY <1>2 DEF MappedCall
  <2> QED
    BY <1>1, <1>2, <2>1, <2>4, <2>5, <2>6, <2>7, <2>8, Started, PerformIs
<1> QED
  BY <1>3, <1>4

LEMMA DelPerforms ==
    ASSUME HandlersOK, Apart, NEW c \in Alone, handleDelSession(c)
    PROVE  Store!Perform(c)
<1>1. PICK i : i = call[c].id
  OBVIOUS
<1>2. /\ c \in Clients /\ Step(c)
      /\ pc[c] = "start" /\ call[c].op = "del" /\ pc'[c] = "done" /\ call' = call
      /\ sessions'[i] = NoSession /\ result'[c] = Deleted
  BY <1>1, DelStep DEF Alone
<1>3. /\ i \in AloneIds /\ i \in IdsOf[c]
      /\ MappedStored' = [MappedStored EXCEPT ![i] = Stored(i)']
      /\ MappedAnswer' = [MappedAnswer EXCEPT ![c] = Answered(c)']
  BY <1>1, <1>2, MappedStep
<1>4. Stored(i)' = NoSession
  BY <1>2, <1>3, StoredIsNext DEF Step
<1>5. Answered(c)' = Deleted
  BY <1>2 DEF Answered
<1>6. MappedCall' = MappedCall
  BY <1>2 DEF MappedCall
<1> QED
  BY <1>1, <1>2, <1>3, <1>4, <1>5, <1>6, Started, PerformIs

LEMMA ArriveRequests ==
    ASSUME HandlersOK, Apart, NEW c \in Alone, Arrive(c)
    PROVE  Store!Request(c)
<1>1. /\ c \in Clients /\ Step(c)
      /\ pc[c] = "idle" /\ pc'[c] = "start" /\ result' = result
  BY ArriveStep DEF Alone
<1>2. PICK k \in Calls : k.id \in IdsOf[c] /\ call' = [call EXCEPT ![c] = k]
  BY <1>1, ArriveStep
<1>3. /\ MappedCall' = [MappedCall EXCEPT ![c] = call'[c]]
      /\ MappedAnswer' = [MappedAnswer EXCEPT ![c] = Answered(c)']
      /\ MappedStored' = MappedStored
  BY <1>1, MappedStep
<1>4. call'[c] = k /\ call[c] = NoCall
  BY <1>1, <1>2 DEF HandlersOK, ClientOK, Types
<1>5. k \in Store!Calls
  BY <1>2 DEF Calls, Ops, Store!Calls, Store!Ops, AloneIds, Store!Bodies, Bodies
<1>6. MappedAnswer' = MappedAnswer
  <2>1. Answered(c)' = Pending /\ Answered(c) = Pending
    BY <1>1 DEF Answered
  <2> QED
    BY <1>3, <2>1 DEF MappedAnswer
<1> QED
  BY <1>3, <1>4, <1>5, <1>6 DEF Store!Request, MappedStored, MappedCall, MappedAnswer

LEMMA ReturnAnswers ==
    ASSUME HandlersOK, Apart, NEW c \in Alone, Return(c)
    PROVE  Store!Answer(c)
<1>1. PICK i : i = call[c].id
  OBVIOUS
<1>2. /\ c \in Clients /\ Step(c)
      /\ pc[c] = "done" /\ pc'[c] = "idle" /\ UNCHANGED <<heap, sessions>>
      /\ call' = [call EXCEPT ![c] = NoCall]
  BY ReturnStep DEF Alone
<1>3. /\ i \in AloneIds /\ i \in IdsOf[c]
      /\ MappedCall' = [MappedCall EXCEPT ![c] = call'[c]]
      /\ MappedStored' = [MappedStored EXCEPT ![i] = Stored(i)']
      /\ MappedAnswer' = [MappedAnswer EXCEPT ![c] = Answered(c)']
  BY <1>1, <1>2, MappedStep
<1>4. call'[c] = NoCall
  BY <1>2 DEF HandlersOK, Types
<1>5. Stored(i)' = Stored(i)
  BY <1>2, <1>3, StoredIs, StoredIsNext DEF Step
<1>6. MappedStored' = MappedStored
  BY <1>3, <1>5 DEF MappedStored
<1>7. Answered(c) # Pending /\ Answered(c)' = Pending
  BY <1>2 DEF Answered, HandlersOK, ClientOK
<1> QED
  BY <1>3, <1>4, <1>6, <1>7 DEF Store!Answer, MappedStored, MappedCall, MappedAnswer

\* The values that are left to write are in what the session looks like already.
LEMMA WriteUnseen ==
    ASSUME HandlersOK, Apart, NEW c \in Alone, Halfway(c), UpdWrite(c)
    PROVE  UNCHANGED <<MappedStored, MappedCall, MappedAnswer>>
<1>1. PICK i : i = call[c].id
  OBVIOUS
<1>2. PICK b : b = call[c].body
  OBVIOUS
<1>3. /\ c \in Clients /\ Step(c)
      /\ pc[c] = "write" /\ UNCHANGED <<pc, call, sessions, result>>
      /\ b \in Bodies
      /\ ref'[c] = ref[c] \/ ref[c] = 0
      /\ \E n \in Named(b) : \A x \in Names :
            Held(heap', ref'[c])[x] = IF x = n THEN After(NoData, b)[n]
                                      ELSE Held(heap, ref[c])[x]
  BY <1>2, WriteStep DEF Alone
<1>4. /\ i \in AloneIds /\ i \in IdsOf[c]
      /\ MappedCall' = [MappedCall EXCEPT ![c] = call'[c]]
      /\ MappedStored' = [MappedStored EXCEPT ![i] = Stored(i)']
      /\ MappedAnswer' = [MappedAnswer EXCEPT ![c] = Answered(c)']
  BY <1>1, <1>3, MappedStep
<1>5. Held(heap, ref[c]) \in Data /\ Held(heap', ref'[c]) \in Data
  <2>1. heap \in Seq(Data) /\ ref[c] \in 0 .. Len(heap)
    BY <1>3 DEF HandlersOK, Types, ClientOK
  <2>2. heap' \in Seq(Data) /\ ref'[c] \in 0 .. Len(heap')
    BY <1>3 DEF HandlersOK, Types, ClientOK, Step
  <2> QED
    BY <2>1, <2>2, NoDataType DEF Held
<1>6. After(Held(heap', ref'[c]), b) = After(Held(heap, ref[c]), b)
  BY <1>3, <1>5, AfterWritten
<1>7. Answered(c) = After(Held(heap, ref[c]), b) /\ Answered(c)' = After(Held(heap', ref'[c]), b)
  BY <1>2, <1>3 DEF Answered, DataAt, Held
<1>8. Stored(i)' = Stored(i)
  <2>1. PICK p : p = sessions[i]
    OBVIOUS
  <2>2. p # NoSession /\ (p = ref[c] \/ p = 0)
    BY <1>1, <2>1 DEF Halfway
  <2>3. Stored(i) = After(Held(heap, p), b)
    BY <1>1, <1>2, <1>3, <1>4, <2>1, <2>2, StoredIs
  <2>4. Stored(i)' = After(Held(heap', p), b)
    BY <1>1, <1>2, <1>3, <1>4, <2>1, <2>2, StoredIsNext DEF Step
  <2>5. CASE p = 0
    BY <2>3, <2>4, <2>5 DEF Held
  <2>6. CASE p = ref[c] /\ p # 0
    BY <1>3, <1>6, <2>3, <2>4, <2>6
  <2> QED
    BY <2>2, <2>5, <2>6
<1>9. MappedAnswer' = MappedAnswer /\ MappedStored' = MappedStored
  BY <1>4, <1>6, <1>7, <1>8 DEF MappedAnswer, MappedStored
<1>10. MappedCall' = MappedCall
  BY <1>3 DEF MappedCall
<1> QED
  BY <1>9, <1>10

\* So they are when the session is put back, complete.
LEMMA StoreUnseen ==
    ASSUME HandlersOK, Apart, NEW c \in Alone, Halfway(c), UpdStore(c)
    PROVE  UNCHANGED <<MappedStored, MappedCall, MappedAnswer>>
<1>1. PICK i : i = call[c].id
  OBVIOUS
<1>2. PICK b : b = call[c].body
  OBVIOUS
<1>3. PICK d : d = Held(heap, ref[c])
  OBVIOUS
<1>4. /\ c \in Clients /\ Step(c)
      /\ pc[c] = "write" /\ todo[c] = {} /\ pc'[c] = "encode"
      /\ UNCHANGED <<heap, call, ref>> /\ b \in Bodies
      /\ sessions'[i] = ref[c] /\ ref[c] # NoSession
  BY <1>1, <1>2, StoreStep DEF Alone
<1>5. /\ i \in AloneIds /\ i \in IdsOf[c]
      /\ MappedCall' = [MappedCall EXCEPT ![c] = call'[c]]
      /\ MappedStored' = [MappedStored EXCEPT ![i] = Stored(i)']
      /\ MappedAnswer' = [MappedAnswer EXCEPT ![c] = Answered(c)']
  BY <1>1, <1>4, MappedStep
<1>6. d \in Data
  <2>1. heap \in Seq(Data) /\ ref[c] \in 0 .. Len(heap)
    BY <1>4 DEF HandlersOK, Types, ClientOK
  <2> QED
    BY <1>3, <2>1, NoDataType DEF Held
<1>7. After(d, b) = d
  <2>1. \A n \in Named(b) : d[n] = After(NoData, b)[n]
    BY <1>2, <1>3, <1>4 DEF Halfway
  <2> QED
    BY <1>4, <1>6, <2>1, AfterAll
<1>8. Answered(c) = After(d, b) /\ Answered(c)' = d
  BY <1>2, <1>3, <1>4 DEF Answered, DataAt, Held
<1>9. Stored(i)' = d
  BY <1>1, <1>3, <1>4, <1>5, StoredIsNext DEF Step
<1>10. Stored(i) = d
  <2>1. PICK p : p = sessions[i]
    OBVIOUS
  <2>2. /\ p # NoSession
        /\ p = ref[c] \/ (p = 0 /\ \A n \in Names : b[n] = Nil => d[n] = Nil)
    BY <1>1, <1>2, <1>3, <2>1 DEF Halfway
  <2>3. Stored(i) = After(Held(heap, p), b)
    BY <1>1, <1>2, <1>4, <1>5, <2>1, <2>2, StoredIs
  <2>4. CASE p = ref[c]
    BY <1>3, <1>7, <2>3, <2>4
  <2>5. CASE p = 0 /\ \A n \in Names : b[n] = Nil => d[n] = Nil
    BY <1>4, <1>6, <1>7, <2>3, <2>5, AfterUnnamed DEF Held
  <2> QED
    BY <2>2, <2>4, <2>5
<1>11. MappedAnswer' = MappedAnswer /\ MappedStored' = MappedStored
  BY <1>5, <1>7, <1>8, <1>9, <1>10 DEF MappedAnswer, MappedStored
<1>12. MappedCall' = MappedCall
  BY <1>4 DEF MappedCall
<1> QED
  BY <1>11, <1>12

LEMMA EncodeUnseen ==
    ASSUME HandlersOK, Apart, NEW c \in Alone, Encode(c)
    PROVE  UNCHANGED <<MappedStored, MappedCall, MappedAnswer>>
<1>1. PICK i : i = call[c].id
  OBVIOUS
<1>2. /\ c \in Clients /\ Step(c)
      /\ pc[c] = "encode" /\ pc'[c] = "done" /\ UNCHANGED <<heap, call, ref, sessions>>
      /\ result'[c] = Held(heap, ref[c])
  BY EncodeStep DEF Alone
<1>3. /\ i \in AloneIds /\ i \in IdsOf[c]
      /\ MappedStored' = [MappedStored EXCEPT ![i] = Stored(i)']
      /\ MappedAnswer' = [MappedAnswer EXCEPT ![c] = Answered(c)']
  BY <1>1, <1>2, MappedStep
<1>4. Answered(c)' = Answered(c)
  BY <1>2 DEF Answered, DataAt, Held
<1>5. Stored(i)' = Stored(i)
  BY <1>2, <1>3, StoredIs, StoredIsNext DEF Step
<1>6. MappedAnswer' = MappedAnswer /\ MappedStored' = MappedStored
  BY <1>3, <1>4, <1>5 DEF MappedAnswer, MappedStored
<1>7. MappedCall' = MappedCall
  BY <1>2 DEF MappedCall
<1> QED
  BY <1>6, <1>7

LEMMA RestartRestarts ==
    ASSUME HandlersOK, HandlersOK', Restart
    PROVE  Store!Restart
<1>1. /\ sessions' = [id \in SessionIds |-> NoSession] /\ call' = call
      /\ pc' = [c \in Clients |-> IF pc[c] = "idle" THEN "idle" ELSE "done"]
      /\ result' = [c \in Clients |-> IF pc[c] = "idle" THEN Pending ELSE Failed]
  BY DEF Restart
<1>2. \A id \in AloneIds : Stored(id)' = NoSession
  <2>1. \A id \in AloneIds : sessions'[id] = NoSession
    BY <1>1, RestAssumption DEF AloneIds, Alone
  <2> QED
    BY <2>1, StoredIsNext DEF AloneIds
<1>3. ASSUME NEW c \in Alone
      PROVE  Answered(c)' = IF MappedCall[c] = NoCall THEN Pending ELSE Failed
  <2>1. c \in Clients /\ MappedCall[c] = call[c] /\ (pc[c] = "idle" <=> call[c] = NoCall)
    BY RestAssumption DEF Alone, MappedCall, HandlersOK, ClientOK
  <2> QED
    BY <1>1, <2>1 DEF Answered
<1>4. MappedStored' = [id \in AloneIds |-> NoSession]
  BY <1>2 DEF MappedStored, AloneIds, Alone
<1>5. MappedAnswer' = [c \in Alone |-> IF MappedCall[c] = NoCall THEN Pending ELSE Failed]
  BY <1>3 DEF MappedAnswer, Alone
<1>6. MappedCall' = MappedCall
  BY <1>1 DEF MappedCall, Alone
<1> QED
  BY <1>4, <1>5, <1>6 DEF Store!Restart, MappedStored, MappedCall, MappedAnswer

LEMMA OperationImplements ==
    ASSUME RestInv, NEW c \in Clients, Operation(c)
    PROVE  Store!StoreNext \/ UNCHANGED <<MappedStored, MappedCall, MappedAnswer>>
<1>1. HandlersOK /\ Apart /\ Updates /\ Step(c)
  BY OperationStep DEF RestInv
<1>2. CASE c \notin Alone
  BY <1>1, <1>2, HiddenStep
<1>3. CASE c \in Alone
  <2>1. CASE Arrive(c)
    BY <1>1, <1>3, <2>1, ArriveRequests DEF Store!StoreNext
  <2>2. CASE handleNewSession(c) \/ handleDelSession(c) \/ UpdLookup(c)
    BY <1>1, <1>3, <2>2, NewPerforms, DelPerforms, LookupPerforms DEF Store!StoreNext
  <2>3. CASE handleGetSession(c)
    BY <1>1, <1>3, <2>3, GetStep, GetPerforms DEF Store!StoreNext
  <2>7. CASE NewRefuses(c) \/ UpdRefuses(c)
    BY <1>1, <1>3, <2>7, RefusePerforms DEF Store!StoreNext
  <2>4. CASE UpdWrite(c) \/ UpdStore(c)
    <3>1. Halfway(c)
      BY <1>1, <1>3, <2>4, WriteStep, StoreStep DEF Updates
    <3> QED
      BY <1>1, <1>3, <2>4, <3>1, WriteUnseen, StoreUnseen
  <2>5. CASE Encode(c)
    BY <1>1, <1>3, <2>5, EncodeUnseen
  <2>6. CASE Return(c)
    BY <1>1, <1>3, <2>6, ReturnAnswers DEF Store!StoreNext
  <2> QED
    BY <2>1, <2>2, <2>3, <2>4, <2>5, <2>6, <2>7 DEF Operation
<1> QED
  BY <1>2, <1>3

\* To clients that keep to sessions of their own the server is an atomic store:
\* each call takes effect at one moment, although its handler writes piece by piece
\* into a map that other handlers use.
THEOREM SpecImplementsStore == Spec => ImplementsStore
<1>1. Init => Store!StoreInit
  <2> SUFFICES ASSUME Init
               PROVE  Store!StoreInit
    OBVIOUS
  <2>1. \A id \in AloneIds : Stored(id) = NoSession
    BY RestAssumption DEF Init, Stored, AloneIds, Alone
  <2>2. \A c \in Alone : call[c] = NoCall /\ Answered(c) = Pending
    BY DEF Init, Answered, Alone
  <2> QED
    BY <2>1, <2>2 DEF Store!StoreInit
<1>2. RestInv /\ RestInv' /\ [Next]_vars => [Store!StoreNext]_(Store!storeVars)
  <2> SUFFICES ASSUME RestInv, RestInv', [Next]_vars
               PROVE  Store!StoreNext \/ UNCHANGED <<MappedStored, MappedCall, MappedAnswer>>
    BY DEF Store!storeVars, MappedStored, MappedCall, MappedAnswer
  <2>1. ASSUME NEW c \in Clients, Operation(c)
        PROVE  Store!StoreNext \/ UNCHANGED <<MappedStored, MappedCall, MappedAnswer>>
    BY <2>1, OperationImplements
  <2>2. CASE Restart
    BY <2>2, RestartRestarts DEF RestInv, Store!StoreNext
  <2>3. CASE UNCHANGED vars
    <3>1. \A id \in AloneIds : Stored(id)' = Stored(id)
      BY <2>3 DEF vars, handlers, Stored, Updating, DataAt
    <3>2. \A c \in Alone : call'[c] = call[c] /\ Answered(c)' = Answered(c)
      BY <2>3 DEF vars, handlers, Answered, DataAt
    <3> QED
      BY <3>1, <3>2 DEF MappedStored, MappedCall, MappedAnswer, AloneIds, Alone
  <2> QED
    BY <2>1, <2>2, <2>3 DEF Next, Quiet, Operation
<1> QED
  BY <1>1, <1>2, RestInvariant, PTL DEF Spec, ImplementsStore, Store!StoreSpec

--------------------------------------------------------------------------------
(***************************************************************************)
(* Clients that share a session which is made once, with data, and not     *)
(* deleted lose none of their updates of names of their own.               *)
(***************************************************************************)
Shared(id) == \E c \in Clients \ Alone : id \in IdsOf[c]

MadeOnce ==
    /\ Budget \in [Clients -> [Kinds -> Nat]]
    /\ \A c \in Clients : \A id \in IdsOf[c] :
          Shared(id) => /\ Budget[c]["del"] = 0 /\ Budget[c]["new"] <= 1
                        /\ NoBody \notin NewBodies[c]
    /\ \A c, d \in Clients : \A id \in IdsOf[c] \cap IdsOf[d] :
          Shared(id) /\ Budget[c]["new"] > 0 /\ Budget[d]["new"] > 0 => c = d

\* A call that is about to be handled was paid for.
PaidOK(c) ==
    /\ \A k \in Kinds : budget[c][k] <= Budget[c][k]
    /\ pc[c] = "start" => budget[c][Paid(call[c].op)] < Budget[c][Paid(call[c].op)]
    /\ pc[c] # "idle" => /\ call[c].op = "new" => call[c].body \in NewBodies[c]
                         /\ call[c].op = "upd" => call[c].body \in UpdBodies[c]

\* A shared session that is there has data, and nobody is going to make it again.
OnceOK(id) ==
    sessions[id] # NoSession =>
       /\ sessions[id] # 0
       /\ \A c \in Clients : id \in IdsOf[c] =>
             budget[c]["new"] = 0 /\ ~(At(c, "start", "new") /\ call[c].id = id)

Written(c) ==
    \A n \in (OwnNames(c) \cap Named(call[c].body)) \ todo[c] :
       Held(heap, ref[c])[n] = After(NoData, call[c].body)[n]

\* What a handler of a PUT has written is there, and stays in the session's data.
KeptOK(c) ==
    pc[c] \in {"write", "encode"} /\ call[c].op = "upd" =>
       /\ Written(c)
       /\ pc[c] = "encode" => Current(c) = ref[c]
       /\ c \notin Alone => Current(c) = ref[c] /\ ref[c] # 0

KeptInv ==
    /\ budget \in [Clients -> [Kinds -> Nat]]
    /\ \A c \in Clients : PaidOK(c) /\ KeptOK(c)
    /\ \A id \in SessionIds : Shared(id) => OnceOK(id)

LEMMA SharedNotAlone ==
    ASSUME NEW c \in Clients, NEW id \in IdsOf[c], Shared(id)
    PROVE  c \notin Alone
BY DEF Shared, Alone

\* The steps of other clients take nothing from a budget.
LEMMA PaidStep ==
    ASSUME HandlersOK, MadeOnce, NEW c \in Clients, Operation(c),
           budget \in [Clients -> [Kinds -> Nat]], \A d \in Clients : PaidOK(d)
    PROVE  /\ budget' \in [Clients -> [Kinds -> Nat]]
           /\ \A d \in Clients : PaidOK(d)'
           /\ \A d \in Clients : budget'[d]["new"] <= budget[d]["new"]
<1>1. Step(c) /\ \A d \in Clients \ {c} : pc'[d] = pc[d] /\ call'[d] = call[d]
  BY OperationStep DEF Step, OthersKept
<1>2. CASE Arrive(c)
  <2>1. PICK op \in Ops, id \in IdsOf[c] :
           /\ Spend(c, Paid(op))
           /\ \E b \in CASE op = "new" -> NewBodies[c] [] op = "upd" -> UpdBodies[c]
                         [] OTHER -> {NoBody} :
                 call' = [call EXCEPT ![c] = [op |-> op, id |-> id, body |-> b]]
    BY <1>2 DEF Arrive, Ops
  <2>2. PICK b \in CASE op = "new" -> NewBodies[c] [] op = "upd" -> UpdBodies[c]
                     [] OTHER -> {NoBody} :
           call' = [call EXCEPT ![c] = [op |-> op, id |-> id, body |-> b]]
    BY <2>1
  <2>3. /\ op = "new" => b \in NewBodies[c]
        /\ op = "upd" => b \in UpdBodies[c]
    BY <2>2
  <2>4. /\ call'[c].op = op /\ call'[c].body = b
    BY <2>2 DEF HandlersOK, Types
  <2> DEFINE k == Paid(op)
  <2>5. /\ budget[c][k] > 0 /\ k \in Kinds
        /\ budget' = [budget EXCEPT ![c] = [budget[c] EXCEPT ![k] = budget[c][k] - 1]]
    BY <2>1 DEF Spend, Paid, Kinds
  <2> HIDE DEF k
  <2>6. /\ budget' \in [Clients -> [Kinds -> Nat]]
        /\ budget'[c][k] < budget[c][k]
        /\ \A d \in Clients, o \in Kinds : budget'[d][o] <= budget[d][o]
    BY <2>5
  <2>7. \A d \in Clients, o \in Kinds : budget'[d][o] \in Nat /\ budget[d][o] \in Nat
                                      /\ Budget[d][o] \in Nat
    BY <2>6 DEF MadeOnce
  <2>8. PaidOK(c)'
    BY <2>3, <2>4, <2>5, <2>6, <2>7 DEF PaidOK, k
  <2>9. \A d \in Clients \ {c} : PaidOK(d)'
    <3> SUFFICES ASSUME NEW d \in Clients \ {c}
                 PROVE  PaidOK(d)'
      OBVIOUS
    <3>1. budget'[d] = budget[d]
      BY <2>5
    <3> QED
      BY <1>1, <3>1 DEF PaidOK
  <2> QED
    BY <2>6, <2>8, <2>9 DEF Kinds
<1>3. CASE ~Arrive(c)
  <2>1. UNCHANGED budget
    BY <1>3 DEF Operation, handleNewSession, handleGetSession, UpdLookup, UpdWrite, UpdStore,
       NewRefuses, UpdRefuses, handleDelSession, Encode, Return, bounds
  <2>2. pc'[c] # "start" /\ (pc'[c] # "idle" => pc[c] # "idle" /\ call'[c] = call[c])
    BY <1>3, NewStep, GetStep, LookupStep, WriteStep, StoreStep, RefuseStep, DelStep,
       EncodeStep, ReturnStep DEF Operation
  <2> QED
    BY <1>1, <2>1, <2>2 DEF PaidOK, Kinds, Paid
<1> QED
  BY <1>2, <1>3

\* A shared session that is there stays, in the same place.
LEMMA SharedKept ==
    ASSUME RestInv, MadeOnce, KeptInv, NEW c \in Clients, Operation(c),
           NEW id \in SessionIds, Shared(id), sessions[id] # NoSession
    PROVE  sessions'[id] = sessions[id]
<1>1. HandlersOK /\ Step(c)
  BY OperationStep DEF RestInv
<1>2. CASE pc[c] = "idle" \/ call[c].id # id
  BY <1>1, <1>2 DEF Step, Moves
<1>3. CASE pc[c] # "idle" /\ call[c].id = id
  <2>1. id \in IdsOf[c] /\ OnceOK(id) /\ PaidOK(c) /\ KeptOK(c) /\ c \notin Alone
    <3>1. id \in IdsOf[c]
      BY <1>1, <1>3 DEF HandlersOK, ClientOK
    <3> QED
      BY <3>1, SharedNotAlone DEF KeptInv
  <2>2. CASE handleNewSession(c)
    BY <2>1, <2>2, <1>3 DEF handleNewSession, OnceOK
  <2>3. CASE handleDelSession(c)
    <3>1. /\ budget[c]["del"] < Budget[c]["del"] /\ Budget[c]["del"] = 0
          /\ budget[c]["del"] \in Nat
      BY <2>1, <2>3 DEF handleDelSession, At, PaidOK, MadeOnce, KeptInv, Kinds, Paid
    <3> QED
      BY <3>1
  <2>4. CASE UpdStore(c)
    <3>1. pc[c] = "write" /\ call[c].op = "upd" /\ sessions'[id] = ref[c]
      BY <1>1, <1>3, <2>4, StoreStep DEF HandlersOK, ClientOK
    <3> QED
      BY <1>3, <2>1, <3>1 DEF KeptOK, Current
  <2>5. CASE Arrive(c) \/ handleGetSession(c) \/ UpdLookup(c) \/ UpdWrite(c) \/ Encode(c)
             \/ Return(c) \/ NewRefuses(c) \/ UpdRefuses(c)
    BY <2>5 DEF Arrive, handleGetSession, UpdLookup, UpdWrite, Encode, Return,
       NewRefuses, UpdRefuses
  <2> QED
    BY <2>2, <2>3, <2>4, <2>5 DEF Operation
<1> QED
  BY <1>2, <1>3

LEMMA OnceStep ==
    ASSUME RestInv, MadeOnce, KeptInv, NEW c \in Clients, Operation(c),
           NEW id \in SessionIds, Shared(id)
    PROVE  OnceOK(id)'
<1>1. HandlersOK /\ Step(c) /\ HandlersOK'
  BY OperationStep DEF RestInv, Step
<1>2. \A d \in Clients : budget'[d]["new"] \in Nat /\ budget'[d]["new"] <= budget[d]["new"]
                         /\ budget[d]["new"] \in Nat
  BY <1>1, PaidStep DEF KeptInv, Kinds, Paid
<1>3. CASE sessions[id] # NoSession
  <2>1. sessions'[id] = sessions[id] /\ OnceOK(id)
    BY <1>3, SharedKept DEF KeptInv
  <2>2. ASSUME NEW d \in Clients, id \in IdsOf[d]
        PROVE  budget'[d]["new"] = 0 /\ ~(At(d, "start", "new")' /\ call'[d].id = id)
    <3>1. budget[d]["new"] = 0 /\ ~(At(d, "start", "new") /\ call[d].id = id)
      BY <1>3, <2>1, <2>2 DEF OnceOK
    <3>2. CASE d # c \/ ~Arrive(c)
      <4>1. At(d, "start", "new")' => At(d, "start", "new") /\ call'[d] = call[d]
        <5>1. CASE d # c
          BY <1>1, <5>1 DEF Step, OthersKept, At
        <5>2. CASE d = c /\ ~Arrive(c)
          BY <1>1, <5>2, NewStep, GetStep, LookupStep, WriteStep, StoreStep, RefuseStep,
             DelStep, EncodeStep, ReturnStep DEF Operation, At
        <5> QED
          BY <3>2, <5>1, <5>2
      <4> QED
        BY <1>2, <3>1, <4>1
    <3>3. CASE d = c /\ Arrive(c)
      <4>1. PICK op \in Ops, jd \in IdsOf[c] :
               /\ Spend(c, Paid(op))
               /\ \E b : call' = [call EXCEPT ![c] = [op |-> op, id |-> jd, body |-> b]]
        BY <3>3 DEF Arrive, Ops
      <4>2. op # "new"
        BY <3>1, <3>3, <4>1 DEF Spend, Paid, Kinds
      <4>3. call'[c].op = op
        BY <1>1, <4>1 DEF HandlersOK, Types
      <4> QED
        BY <1>2, <3>1, <3>3, <4>2, <4>3 DEF At
    <3> QED
      BY <3>2, <3>3
  <2> QED
    BY <1>3, <2>1, <2>2 DEF OnceOK
<1>4. CASE sessions[id] = NoSession /\ sessions'[id] # NoSession
  <2>1. pc[c] # "idle" /\ call[c].id = id
    BY <1>1, <1>4 DEF Step, Moves
  <2>2. id \in IdsOf[c] /\ c \notin Alone /\ PaidOK(c) /\ KeptOK(c)
    <3>1. id \in IdsOf[c]
      BY <1>1, <2>1 DEF HandlersOK, ClientOK
    <3> QED
      BY <3>1, SharedNotAlone DEF KeptInv
  <2>3. handleNewSession(c)
    <3>1. CASE UpdStore(c)
      <4>1. pc[c] = "write" /\ call[c].op = "upd" /\ ref[c] # NoSession
        BY <1>1, <3>1, StoreStep DEF HandlersOK, ClientOK
      <4> QED
        BY <1>4, <2>1, <2>2, <4>1 DEF KeptOK, Current
    <3>2. CASE handleDelSession(c)
      BY <1>1, <1>4, <2>1, <3>2, DelStep
    <3>3. CASE Arrive(c) \/ handleGetSession(c) \/ UpdLookup(c) \/ UpdWrite(c) \/ Encode(c)
               \/ Return(c) \/ NewRefuses(c) \/ UpdRefuses(c)
      BY <1>4, <3>3 DEF Arrive, handleGetSession, UpdLookup, UpdWrite, Encode, Return,
         NewRefuses, UpdRefuses
    <3> QED
      BY <3>1, <3>2, <3>3 DEF Operation
  <2>4. pc[c] = "start" /\ call[c].op = "new" /\ pc'[c] = "encode" /\ call' = call
    BY <1>1, <2>3, NewStep
  <2>5. sessions'[id] = Len(heap) + 1
    BY <1>1, <2>1, <2>2, <2>3, <2>4 DEF handleNewSession, PaidOK, MadeOnce, HandlersOK, Types
  <2>6. budget[c]["new"] < Budget[c]["new"] /\ Budget[c]["new"] = 1
    BY <1>2, <2>2, <2>4 DEF PaidOK, MadeOnce, Kinds, Paid
  <2>7. ASSUME NEW d \in Clients \ {c}, id \in IdsOf[d]
        PROVE  budget[d]["new"] = 0 /\ ~At(d, "start", "new")
    <3>1. Budget[d]["new"] = 0 /\ PaidOK(d)
      BY <2>2, <2>6, <2>7 DEF MadeOnce, Kinds, KeptInv
    <3> QED
      BY <1>2, <3>1 DEF PaidOK, At, Kinds, Paid
  <2>8. \A d \in Clients \ {c} : pc'[d] = pc[d] /\ call'[d] = call[d]
    BY <1>1 DEF Step, OthersKept
  <2>9. ASSUME NEW d \in Clients, id \in IdsOf[d]
        PROVE  budget'[d]["new"] = 0 /\ ~At(d, "start", "new")'
    <3>1. CASE d = c
      <4>1. budget'[c]["new"] <= budget[c]["new"] /\ budget[c]["new"] < 1
        BY <1>2, <2>6
      <4> QED
        BY <1>2, <2>4, <3>1, <4>1 DEF At
    <3>2. CASE d # c
      <4>1. budget'[d]["new"] <= 0
        BY <1>2, <2>7, <2>9, <3>2
      <4> QED
        BY <1>2, <2>7, <2>8, <2>9, <3>2, <4>1 DEF At
    <3> QED
      BY <3>1, <3>2
  <2>10. sessions'[id] # 0
    BY <1>1, <2>5 DEF HandlersOK, Types
  <2> QED
    BY <2>9, <2>10 DEF OnceOK
<1> QED
  BY <1>3, <1>4 DEF OnceOK

\* The handlers of other calls leave what was written.
LEMMA OthersKeptOK ==
    ASSUME RestInv, MadeOnce, KeptInv, NEW c \in Clients, Operation(c), NEW d \in Clients \ {c}
    PROVE  KeptOK(d)'
<1> SUFFICES ASSUME pc'[d] \in {"write", "encode"}, call'[d].op = "upd"
             PROVE  KeptOK(d)'
  BY DEF KeptOK
<1>1. HandlersOK /\ Apart /\ Step(c)
  BY OperationStep DEF RestInv
<1>2. pc'[d] = pc[d] /\ call'[d] = call[d] /\ ref'[d] = ref[d] /\ todo'[d] = todo[d]
  BY <1>1 DEF Step, OthersKept
<1>3. /\ KeptOK(d) /\ Written(d) /\ call[d].id \in IdsOf[d] /\ call[d].id \in SessionIds
      /\ ref[d] \in 0 .. Len(heap)
  BY <1>1, <1>2 DEF KeptInv, KeptOK, HandlersOK, ClientOK, Types, Calls
<1>4. CASE d \in Alone
  <2>1. Held(heap', ref[d]) = Held(heap, ref[d])
    BY <1>1, <1>4, RefKept
  <2>2. sessions'[call[d].id] = sessions[call[d].id]
    BY <1>1, <1>3, <1>4, AloneKept
  <2> QED
    BY <1>2, <1>3, <1>4, <2>1, <2>2 DEF KeptOK, Written, Current, OwnNames, Alone
<1>5. CASE d \notin Alone
  <2>1. /\ Shared(call[d].id) /\ Current(d) = ref[d] /\ ref[d] # 0
        /\ sessions[call[d].id] # NoSession
    BY <1>1, <1>2, <1>3, <1>5, RestAssumption DEF Shared, KeptOK, Current, HandlersOK, Types
  <2>2. sessions'[call[d].id] = sessions[call[d].id]
    BY <1>3, <2>1, SharedKept
  <2>3. Written(d)'
    <3>1. CASE ref[d] # ref[c] \/ UNCHANGED heap
      <4>1. Held(heap', ref[d]) = Held(heap, ref[d])
        BY <1>1, <1>3, <2>1, <3>1 DEF Step, HeapKept, Held
      <4> QED
        BY <1>2, <1>3, <4>1 DEF Written, OwnNames, Alone
    <3>2. CASE ref[d] = ref[c] /\ UpdWrite(c)
      <4>1. /\ pc[c] = "write" /\ call[c].op = "upd" /\ ref'[c] = ref[c]
            /\ call[c].id \in IdsOf[c] /\ call[c].id = call[d].id
        BY <1>1, <2>1, <3>2, WriteStep DEF HandlersOK, ClientOK, Apart
      <4>2. PICK n \in Named(call[c].body) :
               \A x \in Names : x # n => Held(heap', ref[d])[x] = Held(heap, ref[d])[x]
        BY <1>1, <3>2, <4>1, WriteStep
      <4>3. call[c].body \in UpdBodies[c]
        BY <4>1 DEF KeptInv, PaidOK
      <4>4. n \notin OwnNames(d)
        BY <1>3, <4>1, <4>2, <4>3 DEF OwnNames, Named
      <4> QED
        BY <1>2, <1>3, <4>2, <4>4 DEF Written, OwnNames
    <3>3. CASE ~UpdWrite(c) /\ ref[d] = ref[c]
      <4>1. pc[c] \notin {"idle", "start"}
        BY <1>1, <2>1, <3>3 DEF HandlersOK, ClientOK
      <4>2. UNCHANGED heap
        BY <1>1, <3>3, <4>1, ArriveStep, NewStep, GetStep, LookupStep, StoreStep, RefuseStep,
           DelStep, EncodeStep, ReturnStep DEF Operation
      <4> QED
        BY <3>1, <4>2
    <3> QED
      BY <3>1, <3>2, <3>3
  <2> QED
    BY <1>2, <1>3, <2>1, <2>2, <2>3 DEF KeptOK, Current
<1> QED
  BY <1>4, <1>5

\* A PUT's own steps.
LEMMA OwnKeptOK ==
    ASSUME RestInv, MadeOnce, KeptInv, NEW c \in Clients, Operation(c)
    PROVE  KeptOK(c)'
<1> SUFFICES ASSUME pc'[c] \in {"write", "encode"}, call'[c].op = "upd"
             PROVE  KeptOK(c)'
  BY DEF KeptOK
<1>1. HandlersOK /\ Updates
  BY DEF RestInv
<1>2. UpdLookup(c) \/ UpdWrite(c) \/ UpdStore(c)
  BY <1>1, ArriveStep, NewStep, GetStep, RefuseStep, DelStep, EncodeStep, ReturnStep
     DEF Operation
<1>3. CASE UpdLookup(c)
  <2>1. /\ UNCHANGED <<call, sessions, heap>> /\ Current(c) # NoSession /\ pc'[c] = "write"
        /\ ref'[c] = Current(c) /\ todo'[c] = Named(call[c].body) /\ pc[c] = "start"
    BY <1>1, <1>3, LookupStep
  <2>2. c \notin Alone => ref'[c] # 0
    <3> SUFFICES ASSUME c \notin Alone
                 PROVE  Current(c) # 0
      BY <2>1
    <3>1. Shared(call[c].id) /\ call[c].id \in SessionIds
      BY <1>1, <2>1 DEF Shared, HandlersOK, ClientOK, Calls
    <3> QED
      BY <2>1, <3>1 DEF KeptInv, OnceOK, Current
  <2> QED
    BY <2>1, <2>2 DEF KeptOK, Written, Current, Alone
<1>4. CASE UpdWrite(c)
  <2>1. /\ pc[c] = "write" /\ UNCHANGED <<pc, call, sessions>>
        /\ ref'[c] = ref[c] \/ ref[c] = 0
    BY <1>1, <1>4, WriteStep
  <2>2. PICK n \in Named(call[c].body) :
           /\ todo'[c] = todo[c] \ {n}
           /\ \A x \in Names :
                 Held(heap', ref'[c])[x] = IF x = n THEN After(NoData, call[c].body)[n]
                                           ELSE Held(heap, ref[c])[x]
    BY <1>1, <1>4, WriteStep
  <2>3. KeptOK(c) /\ Written(c)
    BY <2>1 DEF KeptInv, KeptOK
  <2>4. Written(c)'
    BY <2>1, <2>2, <2>3 DEF Written, OwnNames, Alone
  <2> QED
    BY <2>1, <2>3, <2>4 DEF KeptOK, Current, Alone
<1>5. CASE UpdStore(c)
  <2>1. /\ pc[c] = "write" /\ UNCHANGED <<heap, call, ref>> /\ sessions'[call[c].id] = ref[c]
        /\ UNCHANGED todo
    BY <1>1, <1>5, StoreStep DEF UpdStore
  <2>2. KeptOK(c) /\ Written(c)
    BY <2>1 DEF KeptInv, KeptOK
  <2> QED
    BY <2>1, <2>2 DEF KeptOK, Written, Current, OwnNames, Alone
<1> QED
  BY <1>2, <1>3, <1>4, <1>5

\* An update that is about to be answered is in the session, whatever the other
\* updates of the session did meanwhile to names of their own.
THEOREM SpecUpdatesKept ==
    ASSUME MadeOnce
    PROVE  Spec => []UpdatesKept
<1>1. Init => KeptInv
  <2> SUFFICES ASSUME Init
               PROVE  KeptInv
    OBVIOUS
  <2>1. \A c \in Clients : pc[c] = "idle"
    BY DEF Init
  <2>2. \A id \in SessionIds : sessions[id] = NoSession
    BY DEF Init
  <2>3. budget = Budget /\ \A c \in Clients, k \in Kinds : Budget[c][k] \in Nat
    BY DEF Init, MadeOnce
  <2> QED
    BY <2>1, <2>2, <2>3 DEF KeptInv, PaidOK, KeptOK, OnceOK, MadeOnce
<1>2. ASSUME RestInv, KeptInv, [Next]_vars
      PROVE  KeptInv'
  <2>1. ASSUME NEW c \in Clients, Operation(c)
        PROVE  KeptInv'
    <3>1. /\ budget' \in [Clients -> [Kinds -> Nat]]
          /\ \A d \in Clients : PaidOK(d)'
      BY <1>2, <2>1, PaidStep DEF RestInv, KeptInv
    <3>2. \A d \in Clients : KeptOK(d)'
      BY <1>2, <2>1, OthersKeptOK, OwnKeptOK
    <3>3. \A id \in SessionIds : Shared(id) => OnceOK(id)'
      BY <1>2, <2>1, OnceStep
    <3> QED
      BY <3>1, <3>2, <3>3 DEF KeptInv, Shared, Alone
  <2>2. CASE UNCHANGED vars
    BY <1>2, <2>2 DEF vars, handlers, bounds, KeptInv, PaidOK, KeptOK, OnceOK, Written, Current,
       At, Shared, Alone, OwnNames
  <2>3. CASE Restart
    <3>1. /\ \A c \in Clients : pc'[c] \in {"idle", "done"} /\ (pc[c] = "idle" => pc'[c] = "idle")
          /\ \A id \in SessionIds : sessions'[id] = NoSession
          /\ UNCHANGED <<call, budget>>
      BY <2>3 DEF Restart
    <3> QED
      BY <1>2, <3>1 DEF KeptInv, PaidOK, KeptOK, OnceOK, Shared, Alone
  <2> QED
    BY <1>2, <2>1, <2>2, <2>3 DEF Next, Quiet, Operation
<1>3. RestInv /\ KeptInv => UpdatesKept
  <2> SUFFICES ASSUME RestInv, KeptInv, NEW c \in Clients, At(c, "encode", "upd"),
                      NEW n \in OwnNames(c) \cap Named(call[c].body)
               PROVE  DataAt(Current(c))[n] = After(NoData, call[c].body)[n]
    BY DEF UpdatesKept
  <2>1. KeptOK(c) /\ todo[c] = {} /\ pc[c] = "encode" /\ call[c].op = "upd"
    BY DEF KeptInv, RestInv, HandlersOK, ClientOK, At
  <2>2. Held(heap, ref[c])[n] = After(NoData, call[c].body)[n] /\ Current(c) = ref[c]
    BY <2>1 DEF KeptOK, Written
  <2> QED
    BY <2>2 DEF DataAt, Held
<1> QED
  BY <1>1, <1>2, <1>3, RestInvariant, PTL DEF Spec

--------------------------------------------------------------------------------
\* The body that the client makes of a session's changes and what the server
\* makes of the body come to what UssdService takes a PUT to do: RestSync.
THEOREM PutIsRestSync ==
    ASSUME NEW d \in Data, NEW s \in Session
    PROVE  After(d, SyncBody(s)) = RestSync(d, s)
<1>1. s.namesToSet \in Data /\ s.namesToDel \in SUBSET Names
  BY DEF Session
<1>2. ASSUME NEW n \in Names
      PROVE  After(d, SyncBody(s))[n] = RestSync(d, s)[n]
  BY <1>1, <1>2, NilAssumption, NullAssumption DEF After, SyncBody, RestSync, Overlay, Data
<1> QED
  BY <1>2 DEF After, RestSync

================================================================================
