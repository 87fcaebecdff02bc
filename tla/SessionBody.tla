------------------------------ MODULE SessionBody ------------------------------
(***************************************************************************)
(* The body of a call to the session server: a JSON object of values and   *)
(* nulls, here a function on Names that is Nil for a name not mentioned.   *)
(***************************************************************************)
EXTENDS SessionData

CONSTANT Null

ASSUME NullAssumption == Null \notin Values \cup {Nil}

Bodies == [Names -> Values \cup {Nil, Null}]

NoBody == [n \in Names |-> Nil]

Named(b) == {n \in Names : b[n] # Nil}

\* The session data d after the values and the nulls of b.
After(d, b) ==
    [n \in Names |-> IF b[n] = Nil THEN d[n] ELSE IF b[n] = Null THEN Nil ELSE b[n]]

\* What the client sends for the changes of a local session: a null for each
\* name to delete, over a value that it may have for it.
SyncBody(s) == [n \in Names |-> IF n \in s.namesToDel THEN Null ELSE s.namesToSet[n]]

================================================================================
