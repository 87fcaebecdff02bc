-------------------------- MODULE MemorySessionsProofs --------------------------
(***************************************************************************)
(* Proofs about the in-memory store and the local session that shares its  *)
(* maps, for any sessions, names, values and calls; and that the two       *)
(* stores make the same of a session that has been synced.                 *)
(***************************************************************************)
EXTENDS MemorySessions, FiniteSetTheorems, TLAPS

\* A session value is changed or marked for deletion, never both: what Set()
\* and Del() see to, and what the two ways to sync a session rely on.
Coherent(s) ==
    \A n \in Names : n \in s.namesToDel => s.namesToSet[n] = Nil

\* Two stored sessions do not share a map.
Apart ==
    \A id, jd \in SessionIds :
       id # jd /\ sessionByID[id] # NoMap => sessionByID[id] # sessionByID[jd]

\* The local session shares a map with its own stored session at most, and only
\* if Get() has handed it out.
Placed ==
    local # NoLocal =>
       /\ \A id \in SessionIds : sessionByID[id] \in {local.data, local.namesToSet} =>
             id = local.id /\ local.handed
       /\ local.handed => sessionByID[local.id] = local.data

\* What a Sync() begins with.
Base(id) == IF sessionByID[id] = NoMap THEN NoData ELSE Stored(id)

\* The stores differ only in what the next Sync() sets or deletes in both of
\* them, and not at all when nothing was changed since the last.
Follows ==
    local # NoLocal =>
       /\ Coherent(View)
       /\ ~excused[local.id] =>
             /\ rest[local.id] # NoSession
             /\ \A n \in Names \ local.namesToDel :
                   heap[local.namesToSet][n] = Nil => Base(local.id)[n] = rest[local.id][n]
             /\ ~local.unsynced => Stored(local.id) = rest[local.id]

MemInv == TypeOK /\ Apart /\ Placed /\ Follows /\ StoresAgree

--------------------------------------------------------------------------------
(***************************************************************************)
(* The local session.                                                      *)
(***************************************************************************)

LEMMA NoDataType ==
    NoData \in Data /\ \A n \in Names : NoData[n] = Nil
BY DEF NoData, Data

\* What Set() does to the value that it sets, and to the others.
LEMMA SetEffect ==
    ASSUME NEW s \in Session, NEW n \in Names, NEW v \in Values \cup {Nil}
    PROVE  /\ Set(s, n, v) \in Session
           /\ v = Nil => n \in Set(s, n, v).namesToDel /\ Set(s, n, v).namesToSet[n] = Nil
           /\ v # Nil => n \notin Set(s, n, v).namesToDel /\ Set(s, n, v).namesToSet[n] = v
           /\ \A p \in Names \ {n} :
                 /\ Set(s, n, v).data[p] = s.data[p]
                 /\ Set(s, n, v).namesToSet[p] = s.namesToSet[p]
                 /\ p \in Set(s, n, v).namesToDel <=> p \in s.namesToDel
           /\ s.data = s.namesToSet => Set(s, n, v).data = Set(s, n, v).namesToSet
<1>1. CASE v = Nil
  BY <1>1 DEF Set, Del, Session, Data
<1>2. CASE v # Nil
  BY <1>2 DEF Set, Session, Data
<1> QED
  BY <1>1, <1>2

\* NewSession(), Set(), Del() and the loops over Set() keep a session coherent.
THEOREM SessionCoherent ==
    /\ \A d \in Data : Coherent(NewSession(d))
    /\ \A s \in Session : Coherent(s) =>
          /\ \A n \in Names : Coherent(Del(s, n))
          /\ \A n \in Names, v \in Values \cup {Nil} : Coherent(Set(s, n, v))
          /\ \A d \in Data : Coherent(SetAll(s, d))
<1>1. \A d \in Data : Coherent(NewSession(d))
  BY DEF Coherent, NewSession
<1>2. ASSUME NEW s \in Session, Coherent(s), NEW n \in Names, NEW v \in Values \cup {Nil}
      PROVE  Coherent(Set(s, n, v))
  BY <1>2, SetEffect DEF Coherent
<1>3. ASSUME NEW s \in Session, Coherent(s), NEW n \in Names
      PROVE  Coherent(Del(s, n))
  BY <1>2, <1>3 DEF Set
<1>4. ASSUME NEW s \in Session, Coherent(s), NEW d \in Data
      PROVE  Coherent(SetAll(s, d))
  BY <1>4 DEF Coherent, SetAll, Overlay, Session
<1> QED
  BY <1>1, <1>2, <1>3, <1>4

\* The two implementations of ussd.Sessions sync a coherent session to the same
\* data, although one deletes before it sets and the other sets before it
\* deletes.
THEOREM SyncsAgree ==
    ASSUME NEW d \in Data, NEW s \in Session, Coherent(s)
    PROVE  RestSync(d, s) = MemorySync(d, s)
<1>1. s.namesToSet \in Data /\ s.namesToDel \in SUBSET Names
  BY DEF Session
<1>2. ASSUME NEW n \in Names
      PROVE  RestSync(d, s)[n] = MemorySync(d, s)[n]
  <2>1. CASE n \in s.namesToDel
    BY <1>1, <2>1 DEF RestSync, MemorySync, Overlay, Coherent
  <2>2. CASE n \notin s.namesToDel
    BY <1>1, <2>2 DEF RestSync, MemorySync, Overlay
  <2> QED
    BY <2>1, <2>2
<1>3. RestSync(d, s) = [n \in Names |-> RestSync(d, s)[n]]
  BY DEF RestSync
<1>4. MemorySync(d, s) = [n \in Names |-> MemorySync(d, s)[n]]
  BY DEF MemorySync, Overlay
<1> QED
  BY <1>2, <1>3, <1>4


\* They do so also from two states of the session that differ only in what the
\* changes set or delete.
LEMMA SyncsMeet ==
    ASSUME NEW d \in Data, NEW e \in Data, NEW s \in Session, Coherent(s),
           \A n \in Names \ s.namesToDel : s.namesToSet[n] = Nil => d[n] = e[n]
    PROVE  MemorySync(d, s) = RestSync(e, s)
<1>1. s.namesToSet \in Data /\ s.namesToDel \in SUBSET Names
  BY DEF Session
<1>2. ASSUME NEW n \in Names
      PROVE  MemorySync(d, s)[n] = RestSync(e, s)[n]
  <2>1. CASE n \in s.namesToDel
    BY <1>1, <2>1 DEF RestSync, MemorySync, Overlay, Coherent
  <2>2. CASE n \notin s.namesToDel
    BY <1>1, <2>2 DEF RestSync, MemorySync, Overlay
  <2> QED
    BY <2>1, <2>2
<1> QED
  BY <1>2 DEF RestSync, MemorySync, Overlay

\* Sync() in memory keeps the shape of data.
LEMMA MemorySyncType ==
    ASSUME NEW d \in Data, NEW s \in Session
    PROVE  MemorySync(d, s) \in Data
BY DEF MemorySync, Overlay, Session, Data

--------------------------------------------------------------------------------
(***************************************************************************)
(* Maps and their places.                                                  *)
(***************************************************************************)

\* The stored sessions and the local one never use so many maps that there is no
\* place for two more.
LEMMA FreePlace ==
    ASSUME TypeOK, NEW q
    PROVE  \E p \in Places : p \notin InUse \cup {q}
<1> DEFINE stored == {sessionByID[id] : id \in SessionIds}
           own == IF local = NoLocal THEN {} ELSE {local.data, local.namesToSet}
<1>1. /\ IsFiniteSet(SessionIds) /\ IsFiniteSet(Places)
      /\ Cardinality(SessionIds) \in Nat /\ Cardinality(Places) \in Nat
      /\ Cardinality(Places) >= Cardinality(SessionIds) + 4
  BY PlacesAssumption, FS_CardinalityType
<1>2. IsFiniteSet(stored) /\ Cardinality(stored) <= Cardinality(SessionIds)
  <2>1. sessionByID \in Surjection(SessionIds, stored)
    BY DEF TypeOK, Surjection
  <2> QED
    BY <1>1, <2>1, FS_Surjection
<1>3. \A S, x : IsFiniteSet(S) =>
         /\ IsFiniteSet(S \cup {x})
         /\ Cardinality(S) \in Nat /\ Cardinality(S \cup {x}) \in Nat
         /\ Cardinality(S \cup {x}) <= Cardinality(S) + 1
  <2> SUFFICES ASSUME NEW S, NEW x, IsFiniteSet(S)
               PROVE  /\ IsFiniteSet(S \cup {x})
                      /\ Cardinality(S) \in Nat /\ Cardinality(S \cup {x}) \in Nat
                      /\ Cardinality(S \cup {x}) <= Cardinality(S) + 1
    OBVIOUS
  <2>1. /\ IsFiniteSet(S \cup {x})
        /\ Cardinality(S \cup {x}) = IF x \in S THEN Cardinality(S) ELSE Cardinality(S) + 1
    BY FS_AddElement
  <2>2. Cardinality(S) \in Nat /\ Cardinality(S \cup {x}) \in Nat
    BY <2>1, FS_CardinalityType
  <2> QED
    BY <2>1, <2>2
<1>4. \E a, b : InUse \subseteq (stored \cup {a}) \cup {b}
  <2>1. CASE local = NoLocal
    BY <2>1 DEF InUse
  <2>2. CASE local # NoLocal
    <3>1. InUse \subseteq (stored \cup {local.data}) \cup {local.namesToSet}
      BY <2>2 DEF InUse
    <3> QED
      BY <3>1
  <2> QED
    BY <2>1, <2>2
<1>5. PICK a, b : InUse \subseteq (stored \cup {a}) \cup {b}
  BY <1>4
<1> DEFINE all == ((stored \cup {a}) \cup {b}) \cup {q}
<1> HIDE DEF stored, own
<1>6. /\ IsFiniteSet(all) /\ Cardinality(all) \in Nat
      /\ Cardinality(all) <= Cardinality(SessionIds) + 3
  <2>1. /\ IsFiniteSet(stored \cup {a}) /\ Cardinality(stored) \in Nat
        /\ Cardinality(stored \cup {a}) \in Nat
        /\ Cardinality(stored \cup {a}) <= Cardinality(stored) + 1
    BY <1>2, <1>3
  <2>2. /\ IsFiniteSet((stored \cup {a}) \cup {b})
        /\ Cardinality((stored \cup {a}) \cup {b}) \in Nat
        /\ Cardinality((stored \cup {a}) \cup {b}) <= Cardinality(stored \cup {a}) + 1
    BY <1>3, <2>1
  <2>3. /\ IsFiniteSet(all) /\ Cardinality(all) \in Nat
        /\ Cardinality(all) <= Cardinality((stored \cup {a}) \cup {b}) + 1
    BY <1>3, <2>2
  <2> HIDE DEF all
  <2> QED
    BY <1>1, <1>2, <2>1, <2>2, <2>3
<1>7. ~(Places \subseteq all)
  <2> SUFFICES ASSUME Places \subseteq all
               PROVE  FALSE
    OBVIOUS
  <2>1. Cardinality(Places) <= Cardinality(all)
    BY <1>6, FS_Subset
  <2> HIDE DEF all
  <2> QED
    BY <1>1, <1>6, <2>1
<1> QED
  BY <1>5, <1>7

\* A new map has a place of its own.
LEMMA MakeFacts ==
    ASSUME TypeOK, NEW q
    PROVE  /\ Make(InUse) \in Places /\ Make(InUse) \notin InUse
           /\ Make(InUse \cup {q}) \in Places /\ Make(InUse \cup {q}) \notin InUse
           /\ Make(InUse \cup {q}) # q
<1>1. \E p \in Places : p \notin InUse \cup {q}
  BY FreePlace
<1>2. Make(InUse) \in Places /\ Make(InUse) \notin InUse
  BY <1>1 DEF Make
<1>3. Make(InUse \cup {q}) \in Places /\ Make(InUse \cup {q}) \notin InUse \cup {q}
  BY <1>1 DEF Make
<1> QED
  BY <1>2, <1>3

\* The places that are in use.
LEMMA UseFacts ==
    /\ \A id \in SessionIds : sessionByID[id] \in InUse
    /\ local # NoLocal => local.data \in InUse /\ local.namesToSet \in InUse
BY DEF InUse

\* What is in use is not collected.
LEMMA CollectedFacts ==
    ASSUME NEW h \in [Places -> Data], Collected(h)
    PROVE  /\ heap' \in [Places -> Data]
           /\ \A p \in Places : p \in InUse' => heap'[p] = h[p]
BY NoDataType DEF Collected

\* The stored sessions whose places are kept and not written to stay as they are.
LEMMA StoredKept ==
    ASSUME TypeOK, NEW id \in SessionIds, sessionByID'[id] = sessionByID[id],
           NEW h \in [Places -> Data], Collected(h),
           sessionByID[id] # NoMap => h[sessionByID[id]] = heap[sessionByID[id]]
    PROVE  Stored(id)' = Stored(id)
<1>1. sessionByID'[id] \in InUse'
  BY DEF InUse
<1>2. CASE sessionByID[id] = NoMap
  BY <1>2 DEF Stored
<1>3. CASE sessionByID[id] # NoMap
  <2>1. sessionByID[id] \in Places
    BY <1>3 DEF TypeOK
  <2> QED
    BY <1>1, <1>3, <2>1, CollectedFacts DEF Stored
<1> QED
  BY <1>2, <1>3

\* The local session is a session, at places of its own.
LEMMA LocalType ==
    ASSUME TypeOK, local # NoLocal
    PROVE  /\ local \in Locals /\ local.id \in SessionIds
           /\ local.data \in Places /\ local.namesToSet \in Places
           /\ View \in Session
<1>1. local \in Locals
  BY DEF TypeOK
<1> QED
  BY <1>1 DEF TypeOK, Locals, View, Session

--------------------------------------------------------------------------------
(***************************************************************************)
(* The inductive invariant.                                                *)
(***************************************************************************)

\* No map is stored, and the store of rest-sessions is empty too.
LEMMA InitInv ==
    Init => MemInv
<1> SUFFICES ASSUME Init
             PROVE  MemInv
  OBVIOUS
<1>1. TypeOK
  BY NoDataType DEF Init, TypeOK
<1>2. Apart /\ Placed /\ Follows
  BY DEF Init, Apart, Placed, Follows
<1>3. StoresAgree
  BY DEF Init, StoresAgree, Stored
<1> QED
  BY <1>1, <1>2, <1>3 DEF MemInv

\* A session that New() has made, at places p and q that nobody used.
LEMMA MadeKeeps ==
    ASSUME MemInv, local = NoLocal, NEW id \in SessionIds, NEW d \in Data,
           NEW p \in Places, NEW q \in Places, p \notin InUse, q \notin InUse,
           local' = [id |-> id, data |-> p, namesToSet |-> q, namesToDel |-> {},
                     handed |-> FALSE, unsynced |-> TRUE],
           UNCHANGED sessionByID,
           Collected([heap EXCEPT ![p] = d, ![q] = d]),
           rest' = [rest EXCEPT ![id] = d],
           excused' = [excused EXCEPT ![id] = sessionByID[id] # NoMap]
    PROVE  MemInv' /\ \A jd \in SessionIds : Stored(jd)' = Stored(jd)
<1> DEFINE h == [heap EXCEPT ![p] = d, ![q] = d]
<1> USE DEF MemInv
<1>1. h \in [Places -> Data] /\ h[p] = d /\ h[q] = d
  BY DEF TypeOK
<1>3. local' \in Locals /\ local' # NoLocal
  <2>1. local' \in Locals
    BY DEF Locals
  <2> QED
    BY <2>1, PlacesAssumption
<1> DEFINE l == local'
<1>4. /\ l.id = id /\ l.data = p /\ l.namesToSet = q /\ l.namesToDel = {}
       /\ l.handed = FALSE /\ l.unsynced = TRUE
  OBVIOUS
<1>5. p \in InUse' /\ q \in InUse'
  BY <1>4, <1>3 DEF InUse
<1>6. heap' \in [Places -> Data] /\ heap'[p] = d /\ heap'[q] = d
  <2> HIDE DEF h
  <2> QED
    BY <1>1, <1>5, CollectedFacts DEF h
<1>7. ASSUME NEW jd \in SessionIds
      PROVE  Stored(jd)' = Stored(jd)
  <2>1. sessionByID[jd] # NoMap => h[sessionByID[jd]] = heap[sessionByID[jd]]
    BY UseFacts DEF TypeOK
  <2> HIDE DEF h
  <2> QED
    BY <1>1, <2>1, StoredKept DEF h
<1>8. TypeOK'
  BY <1>3, <1>6 DEF TypeOK
<1>9. Apart'
  BY DEF Apart
<1>10. Placed'
  BY <1>4, UseFacts DEF Placed
<1>11. Follows'
  <2>1. View' = [data |-> d, namesToSet |-> d, namesToDel |-> {}]
    BY <1>4, <1>6 DEF View
  <2>2. Coherent(View)'
    BY <2>1 DEF Coherent
  <2>3. rest'[id] = d /\ excused'[id] = (sessionByID[id] # NoMap) /\ d # NoSession
    BY PlacesAssumption DEF TypeOK
  <2>4. sessionByID[id] = NoMap => Base(id)' = NoData
    BY DEF Base
  <2> QED
    BY <1>4, <1>6, <2>2, <2>3, <2>4, NoDataType DEF Follows
<1>12. StoresAgree'
  <2> SUFFICES ASSUME NEW jd \in SessionIds, ~excused'[jd], jd # id
               PROVE  Stored(jd)' = rest'[jd]
    BY <1>4, <1>3 DEF StoresAgree
  <2>1. excused'[jd] = excused[jd] /\ rest'[jd] = rest[jd]
    BY DEF TypeOK
  <2> QED
    BY <1>7, <2>1 DEF StoresAgree
<1> QED
  BY <1>7, <1>8, <1>9, <1>10, <1>11, <1>12

\* A session with the data that the caller has.
LEMMA NewKeeps ==
    ASSUME MemInv, NEW id \in SessionIds, NEW d \in Data, New(id, d)
    PROVE  MemInv' /\ \A jd \in SessionIds : Stored(jd)' = Stored(jd)
<1> DEFINE p == Make(InUse)
<1>1. p \in Places /\ p \notin InUse
  BY MakeFacts DEF MemInv
<1> HIDE DEF p
<1>2. local' = [id |-> id, data |-> p, namesToSet |-> p, namesToDel |-> {},
                handed |-> FALSE, unsynced |-> TRUE]
  BY DEF New, Shared, p
<1>3. [heap EXCEPT ![p] = d] = [heap EXCEPT ![p] = d, ![p] = d]
  BY DEF MemInv, TypeOK
<1> QED
  BY <1>1, <1>2, <1>3, MadeKeeps DEF New, p

\* A session without data, with two maps.
LEMMA NewEmptyKeeps ==
    ASSUME MemInv, NEW id \in SessionIds, NewEmpty(id)
    PROVE  MemInv' /\ \A jd \in SessionIds : Stored(jd)' = Stored(jd)
<1> DEFINE p == Make(InUse)
           q == Make(InUse \cup {p})
<1>1. p \in Places /\ p \notin InUse
  BY MakeFacts DEF MemInv
<1>2. q \in Places /\ q \notin InUse
  BY MakeFacts DEF MemInv
<1> HIDE DEF p, q
<1>3. local' = [id |-> id, data |-> p, namesToSet |-> q, namesToDel |-> {},
                handed |-> FALSE, unsynced |-> TRUE]
  BY DEF NewEmpty, Shared, p, q
<1> QED
  BY <1>1, <1>2, <1>3, NoDataType, MadeKeeps DEF NewEmpty, p, q

\* The stored map is handed out while it is what rest-sessions has.
LEMMA GetSessionKeeps ==
    ASSUME MemInv, NEW id \in SessionIds, GetSession(id)
    PROVE  MemInv' /\ \A jd \in SessionIds : Stored(jd)' = Stored(jd)
<1> USE DEF MemInv
<1> DEFINE p == sessionByID[id]
<1>1. p \in Places /\ local = NoLocal
  BY DEF GetSession, TypeOK
<1>2. local' = [id |-> id, data |-> p, namesToSet |-> p, namesToDel |-> {},
                handed |-> TRUE, unsynced |-> FALSE]
  BY DEF GetSession, Shared
<1>3. local' \in Locals /\ local' # NoLocal
  <2>1. local' \in Locals
    BY <1>1, <1>2 DEF Locals
  <2> QED
    BY <2>1, PlacesAssumption
<1>4. UNCHANGED <<heap, sessionByID, rest, excused>>
  BY DEF GetSession
<1>5. \A jd \in SessionIds : Stored(jd)' = Stored(jd)
  BY <1>4 DEF Stored
<1>6. TypeOK'
  BY <1>3, <1>4 DEF TypeOK
<1>7. Apart'
  BY <1>4 DEF Apart
<1>8. Placed'
  BY <1>1, <1>2, <1>4, PlacesAssumption DEF Placed, Apart
<1>9. Follows'
  <2>1. Coherent(View)'
    BY <1>2 DEF Coherent, View
  <2>2. Stored(id) = heap[p] /\ Stored(id) \in Data
    BY <1>1, PlacesAssumption DEF Stored, TypeOK
  <2>3. ~excused[id] => rest[id] = heap[p]
    BY <1>1, <2>2 DEF StoresAgree
  <2>4. Base(id) = heap[p] /\ Base(id)' = Base(id)
    BY <1>1, <1>4, <2>2, PlacesAssumption DEF Base, Stored
  <2> QED
    BY <1>2, <1>4, <1>5, <2>1, <2>2, <2>3, <2>4, PlacesAssumption DEF Follows
<1>10. StoresAgree'
  BY <1>1, <1>4, <1>5 DEF StoresAgree
<1> QED
  BY <1>5, <1>6, <1>7, <1>8, <1>9, <1>10

\* A call in a session: a stored map changes with it only if handed out.
LEMMA SetNameKeeps ==
    ASSUME MemInv, NEW n \in Names, NEW v \in Values \cup {Nil}, SetName(n, v)
    PROVE  /\ MemInv' /\ local # NoLocal
           /\ \A jd \in SessionIds :
                 Stored(jd)' # Stored(jd) => jd = local.id /\ local.handed
<1> USE DEF MemInv
<1> DEFINE t == Set(View, n, v)
           id == local.id
<1>1. /\ local # NoLocal /\ local \in Locals /\ id \in SessionIds
      /\ local.data \in Places /\ local.namesToSet \in Places /\ View \in Session
  BY LocalType DEF SetName
<1>2. t \in Session /\ t.data \in Data /\ t.namesToSet \in Data /\ t.namesToDel \in SUBSET Names
  BY <1>1, SetEffect DEF Session
<1>3. /\ View.data = heap[local.data] /\ View.namesToSet = heap[local.namesToSet]
      /\ View.namesToDel = local.namesToDel
  BY DEF View
<1>4. local.data = local.namesToSet => t.data = t.namesToSet
  BY <1>1, <1>3, SetEffect
<1> HIDE DEF t
<1>5. /\ heap' = [heap EXCEPT ![local.data] = t.data, ![local.namesToSet] = t.namesToSet]
      /\ local' = [local EXCEPT !.namesToDel = t.namesToDel,
                                !.unsynced = local.unsynced \/ local.handed]
      /\ UNCHANGED <<sessionByID, rest, excused>>
  BY DEF SetName, Change, t
<1>6. /\ heap' \in [Places -> Data]
      /\ heap'[local.data] = t.data /\ heap'[local.namesToSet] = t.namesToSet
      /\ \A p \in Places : p \notin {local.data, local.namesToSet} => heap'[p] = heap[p]
  BY <1>1, <1>2, <1>4, <1>5 DEF TypeOK
<1>7. /\ local' \in Locals
      /\ local'.id = id /\ local'.data = local.data /\ local'.namesToSet = local.namesToSet
      /\ local'.namesToDel = t.namesToDel /\ local'.handed = local.handed
      /\ local'.unsynced = (local.unsynced \/ local.handed)
  BY <1>1, <1>2, <1>5 DEF Locals
<1>8. local' # NoLocal
  BY <1>7, PlacesAssumption
<1>9. ASSUME NEW jd \in SessionIds, jd # id
      PROVE  Stored(jd)' = Stored(jd)
  BY <1>1, <1>5, <1>6, <1>9 DEF Stored, Placed, TypeOK
<1>10. TypeOK'
  BY <1>5, <1>6, <1>7 DEF TypeOK
<1>11. Apart'
  BY <1>5 DEF Apart
<1>12. Placed'
  BY <1>1, <1>5, <1>7, <1>8 DEF Placed
<1>13. Follows'
  <2>1. Coherent(View)'
    <3>1. Coherent(t)
      BY <1>1, SessionCoherent DEF Follows, t
    <3>2. View'.namesToSet = t.namesToSet /\ View'.namesToDel = t.namesToDel
      BY <1>6, <1>7 DEF View
    <3> QED
      BY <3>1, <3>2 DEF Coherent
  <2>2. ASSUME NEW m \in Names, m # n
        PROVE  Base(id)'[m] = Base(id)[m]
    <3>1. t.data[m] = heap[local.data][m]
      BY <1>1, <1>3, <2>2, SetEffect DEF t
    <3>2. CASE sessionByID[id] = NoMap
      BY <3>2, <1>5 DEF Base
    <3>3. CASE sessionByID[id] # NoMap
      <4>1. /\ Base(id) = heap[sessionByID[id]] /\ Base(id)' = heap'[sessionByID[id]]
            /\ sessionByID[id] \in Places
        BY <3>3, <1>1, <1>5 DEF Base, Stored, TypeOK
      <4>2. CASE local.handed
        BY <4>1, <4>2, <3>1, <1>1, <1>6 DEF Placed
      <4>3. CASE ~local.handed
        BY <4>1, <4>3, <1>1, <1>6 DEF Placed
      <4> QED
        BY <4>2, <4>3
    <3> QED
      BY <3>2, <3>3
  <2>3. ASSUME ~excused[id], NEW m \in Names \ t.namesToDel, t.namesToSet[m] = Nil
        PROVE  Base(id)'[m] = rest[id][m]
    <3>1. m # n /\ m \notin local.namesToDel /\ heap[local.namesToSet][m] = Nil
      BY <1>1, <1>3, <2>3, SetEffect DEF t
    <3> QED
      BY <1>1, <2>2, <2>3, <3>1 DEF Follows
  <2>4. ASSUME ~excused[id], ~local'.unsynced
        PROVE  Stored(id)' = rest[id]
    <3>1. ~local.unsynced /\ ~local.handed
      BY <1>7, <2>4
    <3>2. Stored(id) = rest[id]
      BY <1>1, <2>4, <3>1 DEF Follows
    <3> QED
      BY <1>1, <1>5, <1>6, <3>1, <3>2 DEF Stored, Placed, TypeOK
  <2>5. ~excused[id] => rest[id] # NoSession
    BY <1>1 DEF Follows
  <2> QED
    BY <1>5, <1>6, <1>7, <2>1, <2>3, <2>4, <2>5 DEF Follows
<1>14. StoresAgree'
  BY <1>1, <1>5, <1>7, <1>8, <1>9 DEF StoresAgree
<1>15. ASSUME NEW jd \in SessionIds, jd = id, ~local.handed
       PROVE  Stored(jd)' = Stored(jd)
  BY <1>1, <1>5, <1>6, <1>15 DEF Stored, Placed, TypeOK
<1> QED
  BY <1>1, <1>9, <1>10, <1>11, <1>12, <1>13, <1>14, <1>15

\* What a Sync() stores, at the place p, which is new if the session is.
LEMMA SyncWithKeeps ==
    ASSUME MemInv, local # NoLocal, NEW p \in Places, NEW kept \in Places,
           kept \notin InUse, kept # p,
           \/ p = sessionByID[local.id]
           \/ p \notin InUse /\ sessionByID[local.id] = NoMap,
           SyncWith(p, kept, MemorySync(Base(local.id), View))
    PROVE  /\ MemInv' /\ local # NoLocal
           /\ local'.namesToSet # local.namesToSet
           /\ \A jd \in SessionIds \ {local.id} : Stored(jd)' = Stored(jd)
<1> USE DEF MemInv
<1> DEFINE id == local.id
           data == MemorySync(Base(id), View)
           h == [heap EXCEPT ![p] = data, ![kept] = NoData]
<1>1. /\ local \in Locals /\ id \in SessionIds
      /\ local.data \in Places /\ local.namesToSet \in Places /\ View \in Session
  BY LocalType
<1>2. Base(id) \in Data
  BY <1>1, NoDataType DEF Base, Stored, TypeOK
<1>3. data \in Data
  BY <1>1, <1>2, MemorySyncType
<1> HIDE DEF data
<1>4. /\ sessionByID' = [sessionByID EXCEPT ![id] = p]
      /\ local' = [local EXCEPT !.namesToSet = kept, !.namesToDel = {}, !.unsynced = FALSE]
      /\ Collected(h)
      /\ rest' = [rest EXCEPT ![id] = IF @ = NoSession THEN @ ELSE RestSync(@, View)]
      /\ excused' = excused
  BY DEF SyncWith, data
<1>5. h \in [Places -> Data] /\ h[p] = data /\ h[kept] = NoData
      /\ \A q \in Places : q \notin {p, kept} => h[q] = heap[q]
  BY <1>3, NoDataType DEF TypeOK
<1> HIDE DEF h
<1>6. /\ local' \in Locals
      /\ local'.id = id /\ local'.data = local.data /\ local'.namesToSet = kept
      /\ local'.namesToDel = {} /\ local'.handed = local.handed /\ local'.unsynced = FALSE
  BY <1>1, <1>4 DEF Locals
<1>7. local' # NoLocal
  BY <1>6, PlacesAssumption
<1>8. /\ sessionByID' \in [SessionIds -> Places \cup {NoMap}] /\ sessionByID'[id] = p
      /\ \A jd \in SessionIds \ {id} : sessionByID'[jd] = sessionByID[jd]
  BY <1>1, <1>4 DEF TypeOK
<1>9. p \in InUse' /\ kept \in InUse'
  BY <1>1, <1>6, <1>7, <1>8 DEF InUse
<1>10. heap' \in [Places -> Data] /\ heap'[p] = data /\ heap'[kept] = NoData
  BY <1>4, <1>5, <1>9, CollectedFacts
<1>11. ASSUME NEW jd \in SessionIds, jd # id
       PROVE  /\ sessionByID[jd] # kept
              /\ sessionByID[jd] # NoMap => sessionByID[jd] # p
  BY <1>1, <1>11, UseFacts DEF Apart
<1>12. ASSUME NEW jd \in SessionIds, jd # id
       PROVE  Stored(jd)' = Stored(jd)
  <2>1. sessionByID[jd] # NoMap => h[sessionByID[jd]] = heap[sessionByID[jd]]
    BY <1>5, <1>11, <1>12 DEF TypeOK
  <2> QED
    BY <1>4, <1>5, <1>8, <1>12, <2>1, StoredKept
<1>13. /\ rest' \in [SessionIds -> Data \cup {NoSession}]
       /\ rest[id] # NoSession => rest'[id] = RestSync(rest[id], View) /\ rest'[id] # NoSession
       /\ \A jd \in SessionIds \ {id} : rest'[jd] = rest[jd]
  <2>1. rest[id] # NoSession => RestSync(rest[id], View) \in Data
    BY <1>1 DEF RestSync, Overlay, Session, Data, TypeOK
  <2> QED
    BY <1>1, <1>4, <2>1, PlacesAssumption DEF TypeOK
<1>14. TypeOK'
  BY <1>4, <1>6, <1>8, <1>10, <1>13 DEF TypeOK
<1>15. Apart'
  BY <1>8, <1>11, PlacesAssumption DEF Apart
<1>16. Placed'
  <2>1. ASSUME NEW jd \in SessionIds, sessionByID'[jd] \in {local.data, kept}
        PROVE  jd = id /\ local.handed
    <3>1. jd = id
      BY <1>1, <1>8, <1>11, <2>1 DEF Placed
    <3>2. p = local.data
      BY <1>8, <2>1, <3>1
    <3> QED
      BY <1>1, <3>1, <3>2, UseFacts DEF Placed
  <2>2. local.handed => p = local.data
    BY <1>1, PlacesAssumption DEF Placed
  <2> QED
    BY <1>6, <1>8, <2>1, <2>2 DEF Placed
<1>17. Stored(id)' = data
  BY <1>1, <1>6, <1>8, <1>10, PlacesAssumption DEF Stored
<1>18. ~excused[id] => data = rest'[id] /\ rest'[id] # NoSession
  <2> SUFFICES ASSUME ~excused[id]
               PROVE  data = rest'[id] /\ rest'[id] # NoSession
    OBVIOUS
  <2>1. rest[id] # NoSession /\ rest[id] \in Data
    BY <1>1 DEF Follows, TypeOK
  <2>2. /\ Coherent(View)
        /\ \A n \in Names \ View.namesToDel :
              View.namesToSet[n] = Nil => Base(id)[n] = rest[id][n]
    BY <1>1 DEF Follows, View
  <2>3. data = RestSync(rest[id], View)
    BY <1>1, <1>2, <2>1, <2>2, SyncsMeet DEF data
  <2> QED
    BY <1>13, <2>1, <2>3
<1>19. Follows'
  <2>1. Coherent(View)'
    BY <1>6 DEF Coherent, View
  <2>2. Base(id)' = data
    BY <1>6, <1>8, <1>17, PlacesAssumption DEF Base
  <2> QED
    BY <1>4, <1>6, <1>17, <1>18, <2>1, <2>2 DEF Follows
<1>20. StoresAgree'
  BY <1>4, <1>6, <1>7, <1>12, <1>13 DEF StoresAgree
<1> QED
  BY <1>6, <1>12, <1>14, <1>15, <1>16, <1>19, <1>20, UseFacts

\* A sync of a session that is there, and of one that is not.
LEMMA SyncSessionKeeps ==
    ASSUME MemInv, SyncSession
    PROVE  /\ MemInv' /\ local # NoLocal
           /\ local'.namesToSet # local.namesToSet
           /\ \A jd \in SessionIds \ {local.id} : Stored(jd)' = Stored(jd)
<1>1. TypeOK /\ local # NoLocal /\ local.id \in SessionIds
  BY LocalType DEF MemInv, SyncSession
<1>2. CASE sessionByID[local.id] = NoMap
  <2> DEFINE p == Make(InUse)
             kept == Make(InUse \cup {p})
  <2>1. p \in Places /\ p \notin InUse
    BY <1>1, MakeFacts
  <2>2. kept \in Places /\ kept \notin InUse /\ kept # p
    BY <1>1, MakeFacts
  <2> HIDE DEF p, kept
  <2>3. SyncWith(p, kept, MemorySync(Base(local.id), View))
    BY <1>1, <1>2 DEF SyncSession, Base, p, kept
  <2> QED
    BY <1>1, <1>2, <2>1, <2>2, <2>3, SyncWithKeeps
<1>3. CASE sessionByID[local.id] # NoMap
  <2> DEFINE p == sessionByID[local.id]
             kept == Make(InUse)
  <2>1. p \in Places
    BY <1>1, <1>3 DEF TypeOK
  <2>2. kept \in Places /\ kept \notin InUse
    BY <1>1, MakeFacts
  <2>3. kept # p
    BY <1>1, <2>2, UseFacts
  <2>4. SyncWith(p, kept, MemorySync(Base(local.id), View))
    BY <1>1, <1>3 DEF SyncSession, Base
  <2> HIDE DEF p, kept
  <2> QED
    BY <1>1, <2>1, <2>2, <2>3, <2>4, SyncWithKeeps DEF p
<1> QED
  BY <1>2, <1>3

\* Both stores forget the session, with the handler that worked on it.
LEMMA DelSessionKeeps ==
    ASSUME MemInv, NEW id \in SessionIds, DelSession(id)
    PROVE  MemInv' /\ \A jd \in SessionIds : Stored(jd)' \in {Stored(jd), NoSession}
<1> USE DEF MemInv
<1>1. /\ local # NoLocal => local.id = id
      /\ local' = NoLocal /\ sessionByID'[id] = NoMap
      /\ \A jd \in SessionIds \ {id} : sessionByID'[jd] = sessionByID[jd]
      /\ sessionByID' \in [SessionIds -> Places \cup {NoMap}]
  BY DEF DelSession, TypeOK
<1>2. heap \in [Places -> Data] /\ Collected(heap)
  BY DEF DelSession, TypeOK
<1>3. ASSUME NEW jd \in SessionIds, jd # id
      PROVE  Stored(jd)' = Stored(jd)
  BY <1>1, <1>2, <1>3, StoredKept
<1>4. /\ rest' \in [SessionIds -> Data \cup {NoSession}] /\ rest'[id] = NoSession
      /\ excused' \in [SessionIds -> BOOLEAN]
      /\ \A jd \in SessionIds \ {id} : rest'[jd] = rest[jd] /\ excused'[jd] = excused[jd]
  BY DEF DelSession, TypeOK
<1>5. TypeOK'
  BY <1>1, <1>2, <1>4, CollectedFacts DEF TypeOK
<1>6. Apart'
  BY <1>1 DEF Apart
<1>7. Placed' /\ Follows'
  BY <1>1 DEF Placed, Follows
<1>8. Stored(id)' = NoSession
  BY <1>1 DEF Stored
<1>9. StoresAgree'
  BY <1>1, <1>3, <1>4, <1>8 DEF StoresAgree
<1> QED
  BY <1>3, <1>8, <1>5, <1>6, <1>7, <1>9

\* What the handler leaves behind differs only if it has not synced.
LEMMA LeaveKeeps ==
    ASSUME MemInv, Leave
    PROVE  MemInv' /\ \A jd \in SessionIds : Stored(jd)' = Stored(jd)
<1> USE DEF MemInv
<1> DEFINE id == local.id
<1>1. /\ local # NoLocal /\ local \in Locals /\ id \in SessionIds
      /\ local' = NoLocal /\ UNCHANGED <<sessionByID, rest>>
  BY LocalType DEF Leave
<1>2. heap \in [Places -> Data] /\ Collected(heap)
  BY DEF Leave, TypeOK
<1>3. ASSUME NEW jd \in SessionIds
      PROVE  Stored(jd)' = Stored(jd)
  BY <1>1, <1>2, StoredKept
<1>4. /\ excused' \in [SessionIds -> BOOLEAN]
      /\ excused'[id] = (excused[id] \/ local.unsynced)
      /\ \A jd \in SessionIds \ {id} : excused'[jd] = excused[jd]
  BY <1>1 DEF Leave, TypeOK, Locals
<1>5. TypeOK'
  BY <1>1, <1>2, <1>4, CollectedFacts DEF TypeOK
<1>6. Apart'
  BY <1>1 DEF Apart
<1>7. Placed' /\ Follows'
  BY <1>1 DEF Placed, Follows
<1>8. ~excused'[id] => Stored(id) = rest[id]
  BY <1>1, <1>4 DEF Follows
<1>9. ASSUME NEW jd \in SessionIds, ~excused'[jd]
      PROVE  Stored(jd)' = rest'[jd]
  <2>1. CASE jd = id
    BY <1>1, <1>3, <1>8, <1>9, <2>1
  <2>2. CASE jd # id
    BY <1>1, <1>3, <1>4, <1>9, <2>2 DEF StoresAgree
  <2> QED
    BY <2>1, <2>2
<1>10. StoresAgree'
  BY <1>9 DEF StoresAgree
<1> QED
  BY <1>3, <1>5, <1>6, <1>7, <1>10

\* Every step keeps the invariant, and the stored sessions apart.
LEMMA StepFacts ==
    ASSUME MemInv, [Next]_vars
    PROVE  /\ MemInv'
           /\ \A id \in SessionIds :
                 Stored(id)' # Stored(id) =>
                    \/ Stored(id)' = NoSession
                    \/ /\ local # NoLocal /\ local.id = id
                       /\ local.handed \/ local'.namesToSet # local.namesToSet
<1>1. ASSUME NEW id \in SessionIds, NEW d \in Data, New(id, d)
      PROVE  MemInv' /\ \A jd \in SessionIds : Stored(jd)' = Stored(jd)
  BY <1>1, NewKeeps
<1>2. ASSUME NEW id \in SessionIds, NewEmpty(id)
      PROVE  MemInv' /\ \A jd \in SessionIds : Stored(jd)' = Stored(jd)
  BY <1>2, NewEmptyKeeps
<1>3. ASSUME NEW id \in SessionIds, GetSession(id)
      PROVE  MemInv' /\ \A jd \in SessionIds : Stored(jd)' = Stored(jd)
  BY <1>3, GetSessionKeeps
<1>4. ASSUME NEW id \in SessionIds, DelSession(id)
      PROVE  MemInv' /\ \A jd \in SessionIds : Stored(jd)' \in {Stored(jd), NoSession}
  BY <1>4, DelSessionKeeps
<1>5. ASSUME NEW n \in Names, NEW v \in Values \cup {Nil}, SetName(n, v)
      PROVE  /\ MemInv' /\ local # NoLocal
             /\ \A jd \in SessionIds :
                   Stored(jd)' # Stored(jd) => jd = local.id /\ local.handed
  BY <1>5, SetNameKeeps
<1>6. CASE SyncSession
  BY <1>6, SyncSessionKeeps
<1>7. CASE Leave
  BY <1>7, LeaveKeeps
<1>8. CASE UNCHANGED vars
  <2>1. \A id \in SessionIds : Stored(id)' = Stored(id)
    BY <1>8 DEF vars, Stored
  <2>2. MemInv'
    BY <1>8, <2>1 DEF MemInv, TypeOK, Apart, Placed, Follows, StoresAgree, Coherent, View,
                      Base, Stored, vars
  <2> QED
    BY <2>1, <2>2
<1> QED
  BY <1>1, <1>2, <1>3, <1>4, <1>5, <1>6, <1>7, <1>8 DEF Next

\* The invariant holds in every state.
LEMMA SpecInv ==
    Spec => []MemInv
<1>1. MemInv /\ [Next]_vars => MemInv'
  BY StepFacts
<1> QED
  BY InitInv, <1>1, PTL DEF Spec

\* Every map has the shape of session data, and every handler and stored session
\* the place of one.
THEOREM SpecTypeOK ==
    Spec => []TypeOK
<1>1. MemInv => TypeOK
  BY DEF MemInv
<1> QED
  BY SpecInv, <1>1, PTL

\* Whatever the items call, in any order, the store in memory has for a session
\* that no handler works on what rest-sessions would have, but for the two
\* differences that sessions.go has by its code.
THEOREM SpecStoresAgree ==
    Spec => []StoresAgree
<1>1. MemInv => StoresAgree
  BY DEF MemInv
<1> QED
  BY SpecInv, <1>1, PTL

\* No call in a session that New() has made changes a stored one before the
\* Sync(), nor after it, when the store has a map of its own.
THEOREM SpecNewIsApart ==
    Spec => NewIsApart
<1>1. MemInv /\ [Next]_vars =>
         [\A id \in SessionIds :
             Stored(id)' # Stored(id) =>
                \/ Stored(id)' = NoSession
                \/ /\ local # NoLocal /\ local.id = id
                   /\ local.handed \/ local'.namesToSet # local.namesToSet]_vars
  BY StepFacts
<1> QED
  BY SpecInv, <1>1, PTL DEF Spec, NewIsApart

================================================================================
