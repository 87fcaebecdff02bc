------------------------------ MODULE SessionData ------------------------------
(***************************************************************************)
(* The data of one USSD session (ussd/session.go): the local copy that a   *)
(* request handler works on, and what Sync() makes of the central copy in  *)
(* the two implementations of ussd.Sessions.  A Go map is a function on    *)
(* Names in which Nil stands for "no such key": Get() of an absent name    *)
(* returns nil and Set() of a nil value deletes the name, so the code      *)
(* cannot tell the two apart either.                                       *)
(***************************************************************************)

CONSTANTS
    Names,     \* names of session values
    Values,    \* what a session value may be
    Nil        \* Go's nil

ASSUME NilAssumption == Nil \notin Values

Data == [Names -> Values \cup {Nil}]

NoData == [n \in Names |-> Nil]

Session == [data : Data, namesToSet : Data, namesToDel : SUBSET Names]

\* NewSession() hands the caller's map to both data and namesToSet, so all of
\* the data counts as changed.  With a nil map it makes two empty ones.
NewSession(d) == [data |-> d, namesToSet |-> d, namesToDel |-> {}]

Get(s, n) == s.data[n]

Del(s, n) ==
    [data       |-> [s.data EXCEPT ![n] = Nil],
     namesToSet |-> [s.namesToSet EXCEPT ![n] = Nil],
     namesToDel |-> s.namesToDel \cup {n}]

Set(s, n, v) ==
    IF v = Nil
    THEN Del(s, n)
    ELSE [data       |-> [s.data EXCEPT ![n] = v],
          namesToSet |-> [s.namesToSet EXCEPT ![n] = v],
          namesToDel |-> s.namesToDel \ {n}]

\* The values of e written over those of d.
Overlay(d, e) == [n \in Names |-> IF e[n] # Nil THEN e[n] ELSE d[n]]

\* A loop of Set() over the (non-nil) values of the map d.
SetAll(s, d) ==
    [data       |-> Overlay(s.data, d),
     namesToSet |-> Overlay(s.namesToSet, d),
     namesToDel |-> s.namesToDel \ {n \in Names : d[n] # Nil}]

\* rest-sessions: the client writes a null over each deleted name of the body
\* of its PUT, and the server stores the values and deletes the nulls.
RestSync(d, s) ==
    [n \in Names |-> IF n \in s.namesToDel THEN Nil ELSE Overlay(d, s.namesToSet)[n]]

\* In memory: the deletions first, then the values.
MemorySync(d, s) ==
    Overlay([n \in Names |-> IF n \in s.namesToDel THEN Nil ELSE d[n]], s.namesToSet)

================================================================================
