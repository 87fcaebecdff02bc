----------------------------- MODULE MCRestSessions -----------------------------
(***************************************************************************)
(* Clients of the session server, for TLC: c1 and c2 share the session s1, *)
(* c3 has s2 to itself.                                                    *)
(***************************************************************************)
EXTENDS RestSessions

CONSTANTS c1, c2, c3, s1, s2, v1, v2, vOld

MCNames == {"n", "m"}
MCValues == {v1, v2, vOld}
MCIdsOf == [c \in Clients |-> IF c = c3 THEN {s2} ELSE {s1}]

Body(n, m) == [x \in Names |-> IF x = "n" THEN n ELSE m]

\* The shared session is made with data.
MCNewBodies ==
    [c \in Clients |-> IF c = c3 THEN {Body(Nil, Nil), Body(Null, vOld)} ELSE {Body(vOld, vOld)}]

\* c1 and c2 update one name each, c3 updates both.
MCUpdBodies ==
    [c \in Clients |->
        CASE c = c1 -> {Body(v1, Nil)}
          [] c = c2 -> {Body(Nil, v2), Body(Nil, Null)}
          [] OTHER -> {Body(v1, v2), Body(Null, v1), Body(Null, Nil)}]

\* What a client may call, and how many times.
Budgets(calls) ==
    [k \in Kinds |-> IF k \in DOMAIN calls THEN calls[k] ELSE 0]

\* The shared session is made once, and not deleted.
MCBudget ==
    [c \in Clients |->
        CASE c = c1 -> Budgets([new |-> 1, upd |-> 1])
          [] c = c2 -> Budgets([upd |-> 1])
          [] OTHER -> Budgets([new |-> 2, get |-> 1, upd |-> 1, del |-> 1])]

\* c1 deletes the session that c2 updates.
BudgetRace ==
    [c \in Clients |->
        CASE c = c1 -> Budgets([new |-> 1, del |-> 1])
          [] c = c2 -> Budgets([upd |-> 1])
          [] OTHER -> Budgets(<<>>)]

================================================================================
