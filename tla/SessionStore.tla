------------------------------ MODULE SessionStore ------------------------------
(***************************************************************************)
(* What a session server promises to its clients (ussd.Sessions): each     *)
(* call takes effect at one moment between its request and its answer, a   *)
(* POST makes a session or replaces it, a PUT changes one that is there.   *)
(* Sessions are in memory: a restart of the server loses them all, and     *)
(* fails the calls in progress.                                            *)
(***************************************************************************)
EXTENDS SessionBody

CONSTANTS
    Clients,     \* concurrent callers, each with one call at a time
    SessionIds,
    NoSession,   \* "session not found"
    NoCall,      \* the client is not calling
    Pending,     \* the call has not taken effect
    Deleted,     \* the answer to a DELETE
    Refused,     \* the answer to a bad request
    Failed       \* the call failed

\* "badnew" and "badupd" are a POST and a PUT whose body names another id or a time.
Ops == {"new", "get", "upd", "del", "badnew", "badupd"}

Calls == [op : Ops, id : SessionIds, body : Bodies]

VARIABLES
    stored,   \* the data of each session, or NoSession
    call,     \* what each client has asked for
    answer    \* what it will be answered, once its call has taken effect

storeVars == <<stored, call, answer>>

StoreInit ==
    /\ stored = [id \in SessionIds |-> NoSession]
    /\ call = [c \in Clients |-> NoCall]
    /\ answer = [c \in Clients |-> Pending]

Request(c) ==
    /\ call[c] = NoCall
    /\ \E k \in Calls : call' = [call EXCEPT ![c] = k]
    /\ UNCHANGED <<stored, answer>>

\* The session becomes d, and d is the answer.
Becomes(c, d) ==
    /\ stored' = [stored EXCEPT ![call[c].id] = d]
    /\ answer' = [answer EXCEPT ![c] = d]

Perform(c) ==
    /\ call[c] # NoCall /\ answer[c] = Pending
    /\ LET d == stored[call[c].id]
           op == call[c].op
       IN  \/ op = "new" /\ Becomes(c, After(NoData, call[c].body))
           \/ op = "upd" /\ d # NoSession /\ Becomes(c, After(d, call[c].body))
           \/ /\ op = "badnew" \/ (op = "badupd" /\ d # NoSession)
              /\ answer' = [answer EXCEPT ![c] = Refused]
              /\ UNCHANGED stored
           \/ /\ op = "get" \/ (op \in {"upd", "badupd"} /\ d = NoSession)
              /\ answer' = [answer EXCEPT ![c] = d]
              /\ UNCHANGED stored
           \/ /\ op = "del"
              /\ stored' = [stored EXCEPT ![call[c].id] = NoSession]
              /\ answer' = [answer EXCEPT ![c] = Deleted]
    /\ UNCHANGED call

Answer(c) ==
    /\ answer[c] # Pending
    /\ call' = [call EXCEPT ![c] = NoCall]
    /\ answer' = [answer EXCEPT ![c] = Pending]
    /\ UNCHANGED stored

Restart ==
    /\ stored' = [id \in SessionIds |-> NoSession]
    /\ answer' = [c \in Clients |-> IF call[c] = NoCall THEN Pending ELSE Failed]
    /\ UNCHANGED call

StoreNext == (\E c \in Clients : Request(c) \/ Perform(c) \/ Answer(c)) \/ Restart

StoreSpec == StoreInit /\ [][StoreNext]_storeVars

================================================================================
