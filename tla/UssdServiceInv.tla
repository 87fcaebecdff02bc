---------------------------- MODULE UssdServiceInv ----------------------------
(***************************************************************************)
(* The inductive invariant behind the safety properties of UssdService:    *)
(* what holds between the steps of the handlers, for any number of         *)
(* instances, faults and crashes.                                          *)
(***************************************************************************)
EXTENDS UssdService

Active(i) == pc[i] # "idle"

\* The values of a session no code queues items in, and that has the dialled
\* code as soon as it has a current item.
StoredOK(d) ==
    /\ d["next_item_ids"] = Nil
    /\ d["current_item_id"] # Nil => d["init_request"] # Nil

\* A local copy whose dialled code reaches the server with the next sync.
HasCode(s) ==
    /\ s.data["init_request"] # Nil
    /\ s.namesToSet["init_request"] # Nil
    /\ "init_request" \notin s.namesToDel

SessOK(s) ==
    /\ s.data["next_item_ids"] = Nil
    /\ s.namesToSet["next_item_ids"] = Nil

\* What is known of a handler, by how far it has come.
HandlerOK(i) ==
    /\ Active(i) => req[i] \in Request
    /\ SessOK(sess[i])
    /\ pc[i] = "new" => req[i].text # Nil
    /\ pc[i] \in {"init", "proceed", "sync"} => HasCode(sess[i])
    /\ pc[i] = "process" => (CurrentItem(i) # Nil => HasCode(sess[i]))
    /\ pc[i] = "proceed" => Get(sess[i], "responder_key") = req[i].id
    /\ pc[i] = "sync" => todo[i] # <<>>

\* The first layer: types, and the consistency of the handlers and sessions.
HandlersOK ==
    /\ pc \in [Instances -> PCs]
    /\ req \in [Instances -> Request \cup {NoRequest}]
    /\ sess \in [Instances -> Session]
    /\ todo \in [Instances -> Seq(Items)]
    /\ \A i \in Instances : HandlerOK(i)

\* What the server has, and what it is about to store.
StoreOK ==
    /\ store \in [Msisdns -> Data \cup {NoSession}]
    /\ made \in [Msisdns -> Ids \cup {0}]
    /\ puts \in [Ids -> Update \cup {NoSession}]
    /\ \A m \in Msisdns : store[m] # NoSession => StoredOK(store[m]) /\ made[m] # 0
    /\ \A q \in Ids : puts[q] # NoSession => StoredOK(puts[q].data)

PhonesOK ==
    /\ phone \in [Msisdns -> Phone]
    /\ \A m \in Msisdns : phone[m].state = "waiting" => phone[m].req \in Ids

RestOK ==
    /\ inbox \in [Instances -> Seq(Request)]
    /\ itemByID \in [Instances -> SUBSET Items]
    /\ replies \in [Ids -> Seq(Reply)]
    /\ PhonesOK
    /\ nreq \in 0 .. MaxRequests
    /\ FaultsOK

TInv == HandlersOK /\ StoreOK /\ RestOK

Shown(m, x) ==
    \/ Kind[x] = "wait"
    \/ \E q \in Ids : \E k \in DOMAIN replies[q] :
          replies[q][k] = [type |-> "RESPONSE", item |-> x, msisdn |-> m]

\* The item a handler is about to store was sent to the user before.
SyncShown ==
    \A i \in Instances : pc[i] = "sync" => Shown(req[i].msisdn, Head(todo[i]))

\* What is about to be stored was sent to the user before.
PutsShown ==
    \A q \in Ids : \A x \in Items :
       puts[q] # NoSession /\ puts[q].data["current_item_id"] = x => Shown(puts[q].msisdn, x)

\* No two requests on their way or in a handler have the same reply address.
Distinct ==
    /\ \A i, j \in Instances : i # j /\ Active(i) /\ Active(j) => req[i].id # req[j].id
    /\ \A i, j \in Instances : Active(i) =>
          \A k \in DOMAIN inbox[j] : inbox[j][k].id # req[i].id
    /\ \A i, j \in Instances : \A k \in DOMAIN inbox[i], l \in DOMAIN inbox[j] :
          inbox[i][k].id = inbox[j][l].id => i = j /\ k = l

\* Nothing was replied to a request that waits in an inbox, that its handler has
\* yet to answer, or that was not sent.
Unanswered ==
    /\ \A i \in Instances : \A k \in DOMAIN inbox[i] :
          inbox[i][k].id <= nreq /\ replies[inbox[i][k].id] = <<>>
    /\ \A i \in Instances : Active(i) => req[i].id <= nreq
    /\ \A i \in Instances : pc[i] \notin {"idle", "sync", "put", "end"} => replies[req[i].id] = <<>>
    /\ \A q \in Ids : q > nreq => replies[q] = <<>>

\* The second layer: what is stored was shown.
SInv == SyncShown /\ StoreNeverAhead /\ PutsShown

\* The third layer: a reply address is answered once.
RInv == Distinct /\ Unanswered /\ AtMostOneReply

IInv == TInv /\ SInv /\ RInv

--------------------------------------------------------------------------------
(***************************************************************************)
(* The fourth layer: what a well-formed flow guarantees about the loop.    *)
(* The items of Guarded are final and come only behind an item that has no *)
(* interface, where the loop fails before it gets to them.                 *)
(***************************************************************************)

\* An item that the loop can end at: it talks to the user, waits, fails, or, as
\* a router, returns items of its own.
Closes(x) == Kind[x] # "set" /\ (Kind[x] = "func" => FuncEffects[x] \subseteq {Failed})

Closed(items, Guarded) ==
    /\ items # <<>> /\ Closes(items[Len(items)])
    /\ \A k \in DOMAIN items :
          items[k] \in Guarded => \E j \in 1 .. k - 1 : Kind[items[j]] = "none"

FlowCloses(Guarded) ==
    /\ Guarded \subseteq OfKind("final")
    /\ \A r \in OfKind("router") : \A code \in Values :
          \A items \in RouterExec(r, code) : Closed(items, Guarded)
    /\ \A x \in OfKind("menu") : \A k \in 1 .. Len(Options[x]) :
          Options[x][k] # <<>> => Closed(Options[x][k], Guarded)

\* The loop has items that lead to an answer, or a prompt has taken the input.
LoopCloses(i, Guarded) ==
    pc[i] = "proceed" =>
       IF todo[i] = <<>> THEN CurrentItem(i) \in OfKind("prompt") ELSE Closed(todo[i], Guarded)

FlowInv(Guarded) ==
    /\ \A i \in Instances : LoopCloses(i, Guarded)
    /\ \A q \in Ids : \A k \in DOMAIN replies[q] : replies[q][k].item \notin Guarded

===============================================================================
