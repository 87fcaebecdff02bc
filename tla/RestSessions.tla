------------------------------ MODULE RestSessions ------------------------------
(***************************************************************************)
(* The session server (rest-sessions/main.go).  net/http runs each call in *)
(* a goroutine of its own, and the handlers use the map of sessions, and   *)
(* the map of a session's data, without a lock.  A session in the map is a *)
(* copy of a struct, but the copies share the data: "heap" holds the data  *)
(* maps, and a session is the place of its map there, 0 for a nil map.     *)
(*                                                                         *)
(* Go stops a program in which two goroutines use a map at once and one of *)
(* them writes, unless it does not notice and their operations come one    *)
(* after the other.  The first outcome is a Restart here, which may come   *)
(* at any time; the second is the interleaving of the handlers' steps.     *)
(***************************************************************************)
EXTENDS Integers, Sequences, SessionBody

CONSTANTS
    Clients, SessionIds, NoSession, NoCall, Pending, Deleted, Refused, Failed,
    IdsOf,        \* the sessions that each client calls for
    NewBodies,    \* the bodies of each client's POSTs
    UpdBodies,    \* the bodies of each client's PUTs
    Budget,       \* bound: calls of each kind that each client makes
    MaxRestarts   \* bound: restarts of the server

\* "badnew" and "badupd" are a POST and a PUT whose body names another id or a time.
Ops == {"new", "get", "upd", "del", "badnew", "badupd"}

Calls == [op : Ops, id : SessionIds, body : Bodies]

ASSUME RestAssumption ==
    /\ \A c \in Clients : /\ IdsOf[c] \subseteq SessionIds
                          /\ NewBodies[c] \cup UpdBodies[c] \subseteq Bodies
    /\ NoSession \notin Data /\ NoSession \notin Nat
    /\ NoCall \notin Calls
    /\ Pending \notin Data \cup {NoSession, Deleted, Refused, Failed}

VARIABLES
    sessions,   \* id -> the place of its data in heap, or NoSession
    heap,       \* the data maps
    pc,         \* where the handler of a client's call is
    call,       \* the call
    ref,        \* the handler's copy of the session
    todo,       \* handleUpdSession: names of the body not yet written
    result,     \* what was written to the HTTP response
    budget,     \* what is left of Budget
    restarts    \* restarts so far

handlers == <<pc, call, ref, todo, result>>
bounds == <<budget, restarts>>
vars == <<sessions, heap, handlers, bounds>>

DataAt(p) == IF p = 0 THEN NoData ELSE heap[p]

TypeOK ==
    /\ sessions \in [SessionIds -> (0 .. Len(heap)) \cup {NoSession}]
    /\ heap \in Seq(Data)
    /\ pc \in [Clients -> {"idle", "start", "write", "encode", "done"}]
    /\ ref \in [Clients -> 0 .. Len(heap)]
    /\ todo \in [Clients -> SUBSET Names]
    /\ \A c \in Clients :
          /\ call[c] = NoCall <=> pc[c] = "idle"
          /\ result[c] = Pending <=> pc[c] # "done"
          /\ todo[c] # {} => pc[c] = "write"

Init ==
    /\ sessions = [id \in SessionIds |-> NoSession]
    /\ heap = <<>>
    /\ pc = [c \in Clients |-> "idle"]
    /\ call = [c \in Clients |-> NoCall]
    /\ ref = [c \in Clients |-> 0]
    /\ todo = [c \in Clients |-> {}]
    /\ result = [c \in Clients |-> Pending]
    /\ budget = Budget
    /\ restarts = 0

\* The calls that change nothing share a budget.
Kinds == {"new", "get", "upd", "del"}

Paid(op) == IF op \in Kinds THEN op ELSE "get"

Spend(c, k) == budget[c][k] > 0 /\ budget' = [budget EXCEPT ![c][k] = @ - 1]

Goto(c, label) == pc' = [pc EXCEPT ![c] = label]

Current(c) == sessions[call[c].id]

At(c, label, op) == pc[c] = label /\ call[c].op = op

\* A client sends a request (external).
Arrive(c) ==
    /\ pc[c] = "idle"
    /\ \E op \in Ops, id \in IdsOf[c] :
          /\ Spend(c, Paid(op))
          /\ \E b \in CASE op = "new" -> NewBodies[c] [] op = "upd" -> UpdBodies[c]
                        [] OTHER -> {NoBody} :
                call' = [call EXCEPT ![c] = [op |-> op, id |-> id, body |-> b]]
    /\ Goto(c, "start")
    /\ UNCHANGED <<sessions, heap, ref, todo, result, restarts>>

Respond(c, r) ==
    /\ result' = [result EXCEPT ![c] = r]
    /\ Goto(c, "done")

\* Mutant: the nulls stay in the data.
NewKeepsNulls(c) ==
    /\ At(c, "start", "new")
    /\ heap' = Append(heap, call[c].body)
    /\ sessions' = [sessions EXCEPT ![call[c].id] = Len(heap) + 1]
    /\ ref' = [ref EXCEPT ![c] = Len(heap) + 1]
    /\ Goto(c, "encode")
    /\ UNCHANGED <<call, todo, result, bounds>>

\* The body is decoded, its nulls are deleted, and the session put in the map.
handleNewSession(c) ==
    /\ At(c, "start", "new")
    /\ LET b == call[c].body
           p == IF b = NoBody THEN 0 ELSE Len(heap) + 1
       IN  /\ heap' = IF p = 0 THEN heap
                      ELSE Append(heap, After(NoData, b))
           /\ sessions' = [sessions EXCEPT ![call[c].id] = p]
           /\ ref' = [ref EXCEPT ![c] = p]
    /\ Goto(c, "encode")
    /\ UNCHANGED <<call, todo, result, bounds>>

handleGetSession(c) ==
    /\ At(c, "start", "get")
    /\ \/ Current(c) = NoSession /\ Respond(c, NoSession) /\ UNCHANGED ref
       \/ /\ Current(c) # NoSession
          /\ ref' = [ref EXCEPT ![c] = Current(c)]
          /\ Goto(c, "encode")
          /\ UNCHANGED result
    /\ UNCHANGED <<sessions, heap, call, todo, bounds>>

\* Mutant: a session that is not found is made.
UpdLookupCreates(c) ==
    /\ At(c, "start", "upd")
    /\ ref' = [ref EXCEPT ![c] = IF Current(c) = NoSession THEN 0 ELSE Current(c)]
    /\ todo' = [todo EXCEPT ![c] = Named(call[c].body)]
    /\ Goto(c, "write")
    /\ UNCHANGED <<sessions, heap, call, result, bounds>>

\* Mutant: the handler works on a copy of the data.
UpdLookupCopies(c) ==
    /\ At(c, "start", "upd")
    /\ \/ Current(c) = NoSession /\ Respond(c, NoSession) /\ UNCHANGED <<heap, ref, todo>>
       \/ /\ Current(c) # NoSession
          /\ heap' = Append(heap, DataAt(Current(c)))
          /\ ref' = [ref EXCEPT ![c] = Len(heap) + 1]
          /\ todo' = [todo EXCEPT ![c] = Named(call[c].body)]
          /\ Goto(c, "write")
          /\ UNCHANGED result
    /\ UNCHANGED <<sessions, call, bounds>>

\* handleUpdSession(): the lookup, before the body is decoded.
UpdLookup(c) ==
    /\ At(c, "start", "upd")
    /\ \/ Current(c) = NoSession /\ Respond(c, NoSession) /\ UNCHANGED <<ref, todo>>
       \/ /\ Current(c) # NoSession
          /\ ref' = [ref EXCEPT ![c] = Current(c)]
          /\ todo' = [todo EXCEPT ![c] = Named(call[c].body)]
          /\ Goto(c, "write")
          /\ UNCHANGED result
    /\ UNCHANGED <<sessions, heap, call, bounds>>

\* The body names another id, or a time: the handler returns before it changes anything.
NewRefuses(c) ==
    /\ At(c, "start", "badnew")
    /\ Respond(c, Refused)
    /\ UNCHANGED <<sessions, heap, call, ref, todo, bounds>>

\* The body is looked at after the lookup.
UpdRefuses(c) ==
    /\ At(c, "start", "badupd")
    /\ Respond(c, IF Current(c) = NoSession THEN NoSession ELSE Refused)
    /\ UNCHANGED <<sessions, heap, call, ref, todo, bounds>>

\* One name of the body, in any order.  A value needs a map, a null does not.
UpdWrite(c) ==
    /\ pc[c] = "write"
    /\ \E n \in todo[c] :
          LET v == call[c].body[n]
          IN  /\ todo' = [todo EXCEPT ![c] = @ \ {n}]
              /\ \/ /\ ref[c] # 0
                    /\ heap' = [heap EXCEPT ![ref[c]][n] = IF v = Null THEN Nil ELSE v]
                    /\ UNCHANGED ref
                 \/ /\ ref[c] = 0 /\ v # Null
                    /\ heap' = Append(heap, [NoData EXCEPT ![n] = v])
                    /\ ref' = [ref EXCEPT ![c] = Len(heap) + 1]
                 \/ ref[c] = 0 /\ v = Null /\ UNCHANGED <<heap, ref>>
    /\ UNCHANGED <<sessions, pc, call, result, bounds>>

\* The session is put back in the map, whatever has become of it there.
UpdStore(c) ==
    /\ pc[c] = "write" /\ todo[c] = {}
    /\ sessions' = [sessions EXCEPT ![call[c].id] = ref[c]]
    /\ Goto(c, "encode")
    /\ UNCHANGED <<heap, call, ref, todo, result, bounds>>

handleDelSession(c) ==
    /\ At(c, "start", "del")
    /\ sessions' = [sessions EXCEPT ![call[c].id] = NoSession]
    /\ Respond(c, Deleted)
    /\ UNCHANGED <<heap, call, ref, todo, bounds>>

\* The handler's session is encoded with the data as it is by now.
Encode(c) ==
    /\ pc[c] = "encode"
    /\ Respond(c, DataAt(ref[c]))
    /\ UNCHANGED <<sessions, heap, call, ref, todo, bounds>>

\* The client has the answer (external).
Return(c) ==
    /\ pc[c] = "done"
    /\ Goto(c, "idle")
    /\ call' = [call EXCEPT ![c] = NoCall]
    /\ ref' = [ref EXCEPT ![c] = 0]
    /\ result' = [result EXCEPT ![c] = Pending]
    /\ UNCHANGED <<sessions, heap, todo, bounds>>

\* The server stops and is started again (external).
Restart ==
    /\ restarts < MaxRestarts
    /\ restarts' = restarts + 1
    /\ sessions' = [id \in SessionIds |-> NoSession]
    /\ heap' = <<>>
    /\ pc' = [c \in Clients |-> IF pc[c] = "idle" THEN "idle" ELSE "done"]
    /\ ref' = [c \in Clients |-> 0]
    /\ todo' = [c \in Clients |-> {}]
    /\ result' = [c \in Clients |-> IF pc[c] = "idle" THEN Pending ELSE Failed]
    /\ UNCHANGED <<call, budget>>

\* No call is in progress.
Quiet == (\A c \in Clients : pc[c] = "idle") /\ UNCHANGED vars

Next ==
    \/ \E c \in Clients :
          \/ Arrive(c) \/ handleNewSession(c) \/ handleGetSession(c)
          \/ UpdLookup(c) \/ UpdWrite(c) \/ UpdStore(c)
          \/ NewRefuses(c) \/ UpdRefuses(c)
          \/ handleDelSession(c) \/ Encode(c) \/ Return(c)
    \/ Restart \/ Quiet

Spec == Init /\ [][Next]_vars

--------------------------------------------------------------------------------
(***************************************************************************)
(* As a SessionStore, an update takes effect with its lookup: a session    *)
(* has the values that its handler has yet to write.                       *)
(***************************************************************************)
Updating(id) == {c \in Clients : pc[c] = "write" /\ call[c].id = id}

Stored(id) ==
    IF sessions[id] = NoSession THEN NoSession
    ELSE IF Updating(id) = {} THEN DataAt(sessions[id])
    ELSE After(DataAt(sessions[id]), call[CHOOSE c \in Updating(id) : TRUE].body)

Answered(c) ==
    CASE pc[c] \in {"idle", "start"} -> Pending
      [] pc[c] = "write" -> After(DataAt(ref[c]), call[c].body)
      [] pc[c] = "encode" -> DataAt(ref[c])
      [] OTHER -> result[c]

\* The clients that keep to sessions of their own.
Alone == {c \in Clients : \A d \in Clients \ {c} : IdsOf[c] \cap IdsOf[d] = {}}

AloneIds == UNION {IdsOf[c] : c \in Alone}

Store == INSTANCE SessionStore
            WITH Clients <- Alone,
                 SessionIds <- AloneIds,
                 stored <- [id \in AloneIds |-> Stored(id)],
                 call <- [c \in Alone |-> call[c]],
                 answer <- [c \in Alone |-> Answered(c)]

--------------------------------------------------------------------------------
\* To clients that keep to sessions of their own, the server is an atomic store,
\* although its handlers run side by side in one map and write piece by piece, and
\* whatever other clients do to sessions that they share.
ImplementsStore == Store!StoreSpec

\* The names that no other client of c's sessions updates.
OwnNames(c) ==
    {n \in Names :
        \A d \in Clients \ {c} :
           IdsOf[c] \cap IdsOf[d] = {} \/ \A b \in UpdBodies[d] : b[n] = Nil}

\* Two updates of one session at a time lose nothing of each other: when a PUT is
\* about to be answered, the session has its values.  (It may be a session that
\* was created once, with some data, and is not deleted.)
UpdatesKept ==
    \A c \in Clients :
       At(c, "encode", "upd") =>
          \A n \in OwnNames(c) \cap Named(call[c].body) :
             DataAt(Current(c))[n] = After(NoData, call[c].body)[n]

\* Only a POST makes a session: a PUT changes one that is there, or is answered
\* "session not found".
OnlyNewCreates ==
    [][\A id \in SessionIds :
          sessions[id] = NoSession /\ sessions'[id] # NoSession =>
             \E c \in Clients : At(c, "start", "new") /\ call[c].id = id]_vars

================================================================================
