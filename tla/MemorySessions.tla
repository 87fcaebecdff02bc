---------------------------- MODULE MemorySessions ----------------------------
(***************************************************************************)
(* The store that ussd/ has by default, inMemorySessions of sessions.go,   *)
(* with the local session of session.go that works on it.  A Go map is     *)
(* shared by all who hold it, so maps have places in a heap: Get() hands   *)
(* the stored map itself to the local session, which takes it for its data *)
(* and for its changes.  The programs that keep this store call the engine *)
(* from one goroutine, so there is one handler at a time; the items it     *)
(* executes have the session in their context and may call all of it.      *)
(***************************************************************************)
EXTENDS SessionData, FiniteSets, Naturals

CONSTANTS
    SessionIds,
    Places,      \* where a map can be
    NoMap,       \* the place of no map
    NoLocal,     \* no handler is working
    NoSession

\* "handed": the local session holds the stored map; "unsynced": it has changes
\* that only one of the two stores can have.
Locals == [id : SessionIds, data : Places, namesToSet : Places, namesToDel : SUBSET Names,
           handed : BOOLEAN, unsynced : BOOLEAN]

ASSUME PlacesAssumption ==
    /\ IsFiniteSet(SessionIds) /\ IsFiniteSet(Places) /\ NoMap \notin Places
    /\ Cardinality(Places) >= Cardinality(SessionIds) + 4
    /\ NoSession \notin Data /\ NoLocal \notin Locals

VARIABLES
    heap,         \* the maps
    sessionByID,  \* the place of the data of each stored session
    local,        \* the handler's local session
    rest,         \* what rest-sessions would store after the same calls
    excused       \* for the properties: the two stores have a reason to differ

vars == <<heap, sessionByID, local, rest, excused>>

TypeOK ==
    /\ heap \in [Places -> Data]
    /\ sessionByID \in [SessionIds -> Places \cup {NoMap}]
    /\ local \in Locals \cup {NoLocal}
    /\ rest \in [SessionIds -> Data \cup {NoSession}]
    /\ excused \in [SessionIds -> BOOLEAN]

Init ==
    /\ heap = [p \in Places |-> NoData]
    /\ sessionByID = [id \in SessionIds |-> NoMap]
    /\ local = NoLocal
    /\ rest = [id \in SessionIds |-> NoSession]
    /\ excused = [id \in SessionIds |-> FALSE]

InUse == {sessionByID[id] : id \in SessionIds} \cup
         (IF local = NoLocal THEN {} ELSE {local.data, local.namesToSet})

\* A place for a new map.
Make(used) == CHOOSE p \in Places : p \notin used

\* The heap h without the maps nobody holds any more.
Collected(h) == heap' = [p \in Places |-> IF p \in InUse' THEN h[p] ELSE NoData]

Stored(id) == IF sessionByID[id] = NoMap THEN NoSession ELSE heap[sessionByID[id]]

\* The local session with the values of its maps.
View == [data |-> heap[local.data], namesToSet |-> heap[local.namesToSet],
         namesToDel |-> local.namesToDel]

--------------------------------------------------------------------------------
\* NewSession() on a map at p of the store or of the caller.
Shared(id, p, handed) ==
    [id |-> id, data |-> p, namesToSet |-> p, namesToDel |-> {},
     handed |-> handed, unsynced |-> ~handed]

\* New() with the caller's map: the store is not touched, nor asked.
New(id, d) ==
    /\ local = NoLocal
    /\ local' = Shared(id, Make(InUse), FALSE)
    /\ UNCHANGED sessionByID
    /\ Collected([heap EXCEPT ![Make(InUse)] = d])
    /\ rest' = [rest EXCEPT ![id] = d]
    /\ excused' = [excused EXCEPT ![id] = sessionByID[id] # NoMap]

\* Mutant: NewSession() keeps the nil map.
NewEmptyNil(id) ==
    /\ local = NoLocal
    /\ local' = Shared(id, NoMap, FALSE)
    /\ UNCHANGED <<heap, sessionByID>>
    /\ rest' = [rest EXCEPT ![id] = NoData]
    /\ excused' = [excused EXCEPT ![id] = sessionByID[id] # NoMap]

\* New() with a nil map: NewSession() makes one for each of the two.
NewEmpty(id) ==
    LET p == Make(InUse)
        q == Make(InUse \cup {p})
    IN  /\ local = NoLocal
        /\ local' = [Shared(id, p, FALSE) EXCEPT !.namesToSet = q]
        /\ UNCHANGED sessionByID
        /\ Collected([heap EXCEPT ![p] = NoData, ![q] = NoData])
        /\ rest' = [rest EXCEPT ![id] = NoData]
        /\ excused' = [excused EXCEPT ![id] = sessionByID[id] # NoMap]

\* Get() of a session that is there; else it returns nil and nothing changes.
GetSession(id) ==
    /\ local = NoLocal
    /\ sessionByID[id] # NoMap
    /\ local' = Shared(id, sessionByID[id], TRUE)
    /\ UNCHANGED <<heap, sessionByID, rest, excused>>

\* The local session becomes s, by a call that changes its maps in place.
Change(s) ==
    /\ heap' = [heap EXCEPT ![local.data] = s.data, ![local.namesToSet] = s.namesToSet]
    /\ local' = [local EXCEPT !.namesToDel = s.namesToDel,
                              !.unsynced = local.unsynced \/ local.handed]
    /\ UNCHANGED <<sessionByID, rest, excused>>

\* Mutant: the name stays marked for deletion.
SetForgetsDel(n, v) ==
    /\ local # NoLocal
    /\ Change([Set(View, n, v) EXCEPT !.namesToDel = local.namesToDel])

\* Set() of a value, or of nil, which is Del().
SetName(n, v) ==
    /\ local # NoLocal
    /\ Change(Set(View, n, v))

\* Sync(): a session that the store does not have gets a map of its own there;
\* the local session gets a new, empty map for its changes.
SyncWith(p, kept, data) ==
    /\ sessionByID' = [sessionByID EXCEPT ![local.id] = p]
    /\ local' = [local EXCEPT !.namesToSet = kept, !.namesToDel = {}, !.unsynced = FALSE]
    /\ Collected([heap EXCEPT ![p] = data, ![kept] = NoData])
    /\ rest' = [rest EXCEPT ![local.id] =
                   IF @ = NoSession THEN @ ELSE RestSync(@, View)]
    /\ UNCHANGED excused

\* Mutant: a new session gets the map of the changes.
SyncKeepsMap ==
    /\ local # NoLocal
    /\ IF sessionByID[local.id] = NoMap
       THEN SyncWith(local.namesToSet, Make(InUse), heap[local.namesToSet])
       ELSE SyncWith(sessionByID[local.id], Make(InUse), MemorySync(Stored(local.id), View))

SyncSession ==
    /\ local # NoLocal
    /\ \/ /\ sessionByID[local.id] = NoMap
          /\ LET p == Make(InUse)
             IN  SyncWith(p, Make(InUse \cup {p}), MemorySync(NoData, View))
       \/ /\ sessionByID[local.id] # NoMap
          /\ SyncWith(sessionByID[local.id], Make(InUse), MemorySync(Stored(local.id), View))

\* Del(): of the session a handler works on, at its end, or by an abort.
DelSession(id) ==
    /\ local # NoLocal => local.id = id
    /\ sessionByID' = [sessionByID EXCEPT ![id] = NoMap]
    /\ local' = NoLocal
    /\ Collected(heap)
    /\ rest' = [rest EXCEPT ![id] = NoSession]
    /\ excused' = [excused EXCEPT ![id] = FALSE]

\* The handler returns: after a Sync(), or after an error or a refused input.
Leave ==
    /\ local # NoLocal
    /\ local' = NoLocal
    /\ excused' = [excused EXCEPT ![local.id] = @ \/ local.unsynced]
    /\ UNCHANGED <<sessionByID, rest>>
    /\ Collected(heap)

Next ==
    \/ \E id \in SessionIds :
          \/ \E d \in Data : New(id, d)
          \/ NewEmpty(id)
          \/ GetSession(id)
          \/ DelSession(id)
    \/ \E n \in Names, v \in Values \cup {Nil} : SetName(n, v)
    \/ SyncSession
    \/ Leave

Spec == Init /\ [][Next]_vars

--------------------------------------------------------------------------------
\* Whatever a program does with its sessions, in memory it finds what it would
\* find in the session server, but for the two differences of sessions.go: New()
\* does not replace a session (line 48), and changes of a session that Get() has
\* handed out are stored without a Sync() (line 64; New()'s are stored only by it).
StoresAgree ==
    \A id \in SessionIds :
        ~excused[id] /\ (local # NoLocal => local.id # id) => Stored(id) = rest[id]

\* A stored session changes by a call for it, or by a Set() in a session that
\* Get() has handed out, and never by one in a session that New() has made: the
\* maps of the two are apart even after a Sync().
NewIsApart ==
    [][\A id \in SessionIds :
          Stored(id)' # Stored(id) =>
             \/ Stored(id)' = NoSession
             \/ /\ local # NoLocal /\ local.id = id
                /\ local.handed \/ local'.namesToSet # local.namesToSet]_vars

================================================================================
