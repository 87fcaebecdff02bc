------------------------------- MODULE MsProofs -------------------------------
(***************************************************************************)
(* The safety properties of Ms, for any programs, messages and number of   *)
(* instances.                                                              *)
(***************************************************************************)
EXTENDS Ms, TLAPS

--------------------------------------------------------------------------------
(***************************************************************************)
(* The codec.                                                              *)
(***************************************************************************)

\* No word is decoded as a type, not even a type's own name as MarshalJSON() prints
\* it: Parse() looks for a word in lower case in a table of words in upper case.
THEOREM NoWordDecodes ==
    ASSUME NEW w \in Words
    PROVE  Unmarshal([kind |-> "word", word |-> w]) = NotDecoded
<1>1. ~ToLower(Shorter(w)).upper
  BY DEF ToLower, Shorter, Words
<1>2. \A v \in reqTypeValue : v.upper
  BY DEF reqTypeValue, Marshal
<1> QED
  BY <1>1, <1>2 DEF Unmarshal, Parse

\* So a request is decoded only if it has no type, and as the zero value.
LEMMA DecodedIsAbsent ==
    ASSUME NEW f \in TypeFields, Unmarshal(f) \in Types
    PROVE  f.kind = "absent" /\ Unmarshal(f) = ZeroType
<1>1. CASE f \in [kind : {"absent", "unquoted", "empty"}]
  BY <1>1, CodecAssumption DEF Unmarshal
<1>2. CASE f \in [kind : {"word"}, word : Words]
  <2>1. f = [kind |-> "word", word |-> f.word] /\ f.word \in Words
    BY <1>2
  <2> QED
    BY <2>1, NoWordDecodes, CodecAssumption
<1> QED
  BY <1>1, <1>2 DEF TypeFields

--------------------------------------------------------------------------------
(***************************************************************************)
(* The inductive invariant.                                                *)
(***************************************************************************)

InHand(i) == pc[i] \in {"handle", "oper", "reply", "panic"}

\* A handler has its local variables while it is at work.
Places ==
    \A i \in Instances :
        /\ InHand(i) => task[i] \in Tasks /\ inbox[i] \in Seq(Ids)
        /\ pc[i] \in {"declare", "idle"} => task[i] = NoTask
        /\ task[i] # NoTask => sent[task[i].id] # NoMessage

\* A message is in one place: in one inbox, once, or in one handler.
Distinct ==
    /\ \A i, j \in Instances :
          task[i] # NoTask /\ task[j] # NoTask /\ task[i].id = task[j].id => i = j
    /\ \A i, j \in Instances : \A k \in DOMAIN inbox[i] :
          task[j] # NoTask => inbox[i][k] # task[j].id
    /\ \A i, j \in Instances : \A k \in DOMAIN inbox[i], l \in DOMAIN inbox[j] :
          inbox[i][k] = inbox[j][l] => i = j /\ k = l

\* A message that no handler has had yet is neither answered nor called for.
Untouched ==
    /\ \A id \in Ids : sent[id] = NoMessage =>
          replies[id] = <<>> /\ calls[id] = <<>> /\ id \notin failed
    /\ \A i \in Instances : \A k \in DOMAIN inbox[i] :
          /\ sent[inbox[i][k]] # NoMessage
          /\ replies[inbox[i][k]] = <<>> /\ calls[inbox[i][k]] = <<>>
          /\ inbox[i][k] \notin failed

\* What the handler has done for its message, at each place.
Progress ==
    \A i \in Instances :
        /\ InHand(i) => replies[task[i].id] = <<>>
        /\ pc[i] = "handle" => calls[task[i].id] = <<>>
        /\ pc[i] = "oper" => calls[task[i].id] # <<>>
        /\ pc[i] \in {"handle", "oper"} =>
              ~task[i].err /\ ~task[i].res /\ task[i].id \notin failed
        /\ pc[i] = "reply" =>
              /\ task[i].err <=> calls[task[i].id] = <<>>
              /\ task[i].res => ~task[i].err /\ task[i].id \notin failed

\* An operation is called for a message without a type only.
Absent ==
    \A id \in Ids :
        calls[id] # <<>> => sent[id] \in MessageSet /\ sent[id].request.type.kind = "absent"

IInv ==
    /\ TypeOK /\ Places /\ Distinct /\ Untouched /\ Progress /\ Absent
    /\ ReplyFitsCall /\ HandledOnce

LEMMA InitIInv == Init => IInv
BY MsAssumption DEF Init, IInv, TypeOK, Places, Distinct, Untouched, Progress, Absent,
   ReplyFitsCall, HandledOnce, InHand

\* Where the programs are, before they serve.
LEMMA HandleIInv ==
    ASSUME IInv, NEW i \in Instances, Handle(i)
    PROVE  IInv'
<1> DEFINE o == program[declared[i] + 1]
      Call == [name : ValidNames \cup InvalidNames, fnc : Fncs \cup {NoFnc}]
<1>0. program \in Seq(Call) /\ declared[i] \in 0 .. Len(program) /\ declared[i] < Len(program)
  <2>1. program \in Programs /\ Programs \subseteq Seq(Call)
    BY MsAssumption DEF IInv, TypeOK
  <2>2. declared[i] \in 0 .. Len(program) /\ declared[i] < Len(program)
    BY DEF IInv, TypeOK, Handle
  <2> QED
    BY <2>1, <2>2
<1>1. o \in Call
  <2> HIDE DEF Call
  <2> QED
    BY <1>0
<1>2. TypeOK'
  <2>1. CASE Acceptable(i, o)
    <3>1. o.name \in ValidNames /\ o.fnc \in Operations
      BY <1>1, <2>1, MsAssumption DEF Acceptable, Fncs, Operations
    <3>2. /\ operByName' = [operByName EXCEPT ![i][o.name] = o.fnc]
          /\ declared' = [declared EXCEPT ![i] = @ + 1]
          /\ UNCHANGED <<pc, program, inbox, task, sent, replies, calls, failed>>
      BY <2>1 DEF Handle
    <3>3. declared' \in [Instances -> 0 .. Len(program')]
      <4> HIDE DEF Call
      <4>1. Len(program) \in Nat /\ declared[i] + 1 \in 0 .. Len(program)
        BY <1>0
      <4> QED
        BY <3>2, <4>1 DEF IInv, TypeOK
    <3>4. operByName[i] \in [ValidNames -> Operations \cup {NoFnc}]
      BY DEF IInv, TypeOK
    <3>5. [operByName[i] EXCEPT ![o.name] = o.fnc]
             \in [ValidNames -> Operations \cup {NoFnc}]
      BY <3>1, <3>4
    <3>6. operByName' \in
             [Instances -> [ValidNames -> Operations \cup {NoFnc}]]
      BY <3>2, <3>5 DEF IInv, TypeOK
    <3> QED
      BY <3>2, <3>3, <3>6 DEF IInv, TypeOK
  <2>2. CASE ~Acceptable(i, o)
    BY <2>2 DEF IInv, TypeOK, Handle, Go
  <2> QED
    BY <2>1, <2>2
<1>3. pc' \in {pc, [pc EXCEPT ![i] = "dead"]} /\ pc[i] = "declare"
  BY DEF Handle, Go
<1>4. UNCHANGED <<inbox, task, sent, replies, calls, failed>>
  BY DEF Handle
<1>5. Places' /\ Progress'
  BY <1>3, <1>4 DEF IInv, TypeOK, Places, Progress, InHand
<1>6. Distinct' /\ Untouched' /\ Absent' /\ HandledOnce'
  BY <1>4 DEF IInv, Distinct, Untouched, Absent, HandledOnce
<1>7. Fatal' = Fatal
  BY <1>3, <1>4 DEF IInv, TypeOK, Places, Fatal
<1>8. ReplyFitsCall'
  BY <1>4, <1>7 DEF IInv, ReplyFitsCall
<1> QED
  BY <1>2, <1>5, <1>6, <1>8 DEF IInv

LEMMA RunIInv ==
    ASSUME IInv, NEW i \in Instances, Run(i)
    PROVE  IInv'
<1>1. Fatal' = Fatal
  BY DEF Run, Go, IInv, TypeOK, Fatal
<1>2. TypeOK' /\ Places' /\ Progress'
  BY DEF Run, Go, IInv, TypeOK, Places, Progress, InHand
<1>3. Distinct' /\ Untouched' /\ Absent' /\ HandledOnce' /\ ReplyFitsCall'
  BY <1>1 DEF Run, IInv, Distinct, Untouched, Absent, HandledOnce, ReplyFitsCall
<1> QED
  BY <1>2, <1>3 DEF IInv

\* A message that is sent is new, and goes to the end of one inbox.
LEMMA PublishIInv ==
    ASSUME IInv, NEW id \in Ids, NEW m \in Messages, Publish(id, m)
    PROVE  IInv'
<1> PICK i \in Instances : inbox' = [inbox EXCEPT ![i] = Append(@, id)]
  BY DEF Publish, Subscribed
<1>1. /\ sent[id] = NoMessage /\ sent' = [sent EXCEPT ![id] = m] /\ m # NoMessage
      /\ UNCHANGED <<program, declared, operByName, pc, task, replies, calls, failed>>
  BY MsAssumption DEF Publish
<1>2. inbox \in [Instances -> Seq(Ids)] /\ sent \in [Ids -> Messages \cup {NoMessage}]
  BY DEF IInv, TypeOK
<1>3. \A j \in Instances : \A k \in DOMAIN inbox'[j] :
         \/ k \in DOMAIN inbox[j] /\ inbox'[j][k] = inbox[j][k]
         \/ j = i /\ k = Len(inbox[i]) + 1 /\ inbox'[j][k] = id
  BY <1>2
<1>4. \A j \in Instances : \A k \in DOMAIN inbox[j] : inbox[j][k] # id /\ inbox[j][k] \in Ids
  BY <1>1, <1>2 DEF IInv, Untouched
<1>5. \A j \in Instances : task[j] # NoTask => task[j].id # id /\ task[j].id \in Ids
  BY <1>1 DEF IInv, TypeOK, Places, Tasks
<1>6. TypeOK' /\ Places'
  BY <1>1, <1>2, <1>5 DEF IInv, TypeOK, Places, InHand
<1>7. Distinct'
  <2>1. ASSUME NEW j \in Instances, NEW l \in Instances, NEW k \in DOMAIN inbox'[j],
               task'[l] # NoTask
        PROVE  inbox'[j][k] # task'[l].id
    BY <2>1, <1>1, <1>3, <1>5 DEF IInv, Distinct
  <2>2. ASSUME NEW j \in Instances, NEW l \in Instances,
               NEW k \in DOMAIN inbox'[j], NEW n \in DOMAIN inbox'[l],
               inbox'[j][k] = inbox'[l][n]
        PROVE  j = l /\ k = n
    BY <2>2, <1>3, <1>4 DEF IInv, Distinct
  <2> QED
    BY <1>1, <2>1, <2>2 DEF IInv, Distinct
<1>8. Untouched'
  <2>1. replies[id] = <<>> /\ calls[id] = <<>> /\ id \notin failed
    BY <1>1 DEF IInv, Untouched
  <2>2. ASSUME NEW j \in Instances, NEW k \in DOMAIN inbox'[j]
        PROVE  /\ sent'[inbox'[j][k]] # NoMessage
               /\ replies'[inbox'[j][k]] = <<>> /\ calls'[inbox'[j][k]] = <<>>
               /\ inbox'[j][k] \notin failed'
    BY <1>1, <1>2, <1>3, <1>4, <2>1, <2>2 DEF IInv, Untouched
  <2> QED
    BY <1>1, <1>2, <2>2 DEF IInv, Untouched
<1>9. Progress' /\ HandledOnce'
  BY <1>1 DEF IInv, Progress, InHand, HandledOnce
<1>10. Absent'
  BY <1>1, <1>2 DEF IInv, Absent, Untouched
<1>11. ReplyFitsCall'
  BY <1>1 DEF IInv, ReplyFitsCall, Fatal
<1> QED
  BY <1>6, <1>7, <1>8, <1>9, <1>10, <1>11 DEF IInv

\* The callback takes the first message of the inbox.
LEMMA ReceiveIInv ==
    ASSUME IInv, NEW i \in Instances, Receive(i)
    PROVE  IInv'
<1> DEFINE id == Head(inbox[i])
<1>1. /\ pc[i] = "idle" /\ inbox[i] # <<>> /\ inbox[i] \in Seq(Ids)
      /\ inbox' = [inbox EXCEPT ![i] = Tail(@)]
      /\ task' = [task EXCEPT ![i] = [id |-> id, err |-> FALSE, res |-> FALSE]]
      /\ pc' = [pc EXCEPT ![i] = "handle"]
      /\ UNCHANGED <<program, declared, operByName, sent, replies, calls, failed>>
  BY DEF Receive, Go, IInv, TypeOK
<1>2. /\ inbox \in [Instances -> Seq(Ids)] /\ task \in [Instances -> Tasks \cup {NoTask}]
      /\ pc \in [Instances -> {"declare", "idle", "handle", "oper", "reply", "panic", "dead"}]
  BY DEF IInv, TypeOK
<1>3. id \in Ids /\ id = inbox[i][1] /\ 1 \in DOMAIN inbox[i]
  BY <1>1
<1>4. \A j \in Instances : \A k \in DOMAIN inbox'[j] :
         \/ j # i /\ k \in DOMAIN inbox[j] /\ inbox'[j][k] = inbox[j][k]
         \/ j = i /\ k + 1 \in DOMAIN inbox[j] /\ inbox'[j][k] = inbox[j][k + 1] /\ k \in Nat \ {0}
  BY <1>1, <1>2
<1>5. task'[i] = [id |-> id, err |-> FALSE, res |-> FALSE]
  BY <1>1, <1>2
<1>6. sent[id] # NoMessage /\ replies[id] = <<>> /\ calls[id] = <<>> /\ id \notin failed
  BY <1>3 DEF IInv, Untouched
<1>7. TypeOK'
  BY <1>1, <1>3 DEF IInv, TypeOK, Tasks
<1>8. Places'
  BY <1>1, <1>2, <1>3, <1>5, <1>6 DEF IInv, Places, InHand, Tasks
<1>9. Distinct'
  <2>1. ASSUME NEW j \in Instances, NEW l \in Instances, task'[j] # NoTask, task'[l] # NoTask,
               task'[j].id = task'[l].id
        PROVE  j = l
    BY <2>1, <1>1, <1>2, <1>3, <1>5 DEF IInv, Distinct
  <2>2. ASSUME NEW j \in Instances, NEW l \in Instances, NEW k \in DOMAIN inbox'[j],
               task'[l] # NoTask
        PROVE  inbox'[j][k] # task'[l].id
    <3>1. CASE l # i
      BY <3>1, <2>2, <1>1, <1>2, <1>4 DEF IInv, Distinct
    <3>2. CASE l = i
      <4>1. PICK n \in DOMAIN inbox[j] : inbox'[j][k] = inbox[j][n] /\ (j = i => n # 1)
        BY <1>4
      <4> QED
        BY <4>1, <3>2, <1>3, <1>5 DEF IInv, Distinct
    <3> QED
      BY <3>1, <3>2
  <2>3. ASSUME NEW j \in Instances, NEW l \in Instances,
               NEW k \in DOMAIN inbox'[j], NEW n \in DOMAIN inbox'[l],
               inbox'[j][k] = inbox'[l][n]
        PROVE  j = l /\ k = n
    <3>1. k \in Nat /\ n \in Nat
      BY <1>1, <1>2
    <3> QED
      BY <2>3, <3>1, <1>4 DEF IInv, Distinct
  <2> QED
    BY <2>1, <2>2, <2>3 DEF Distinct
<1>10. Untouched'
  BY <1>1, <1>4 DEF IInv, Untouched
<1>11. Progress'
  BY <1>1, <1>2, <1>5, <1>6 DEF IInv, Progress, InHand
<1>12. Fatal' = Fatal
  BY <1>1, <1>2 DEF Fatal
<1>13. Absent' /\ HandledOnce' /\ ReplyFitsCall'
  BY <1>1, <1>12 DEF IInv, Absent, HandledOnce, ReplyFitsCall
<1> QED
  BY <1>7, <1>8, <1>9, <1>10, <1>11, <1>13 DEF IInv

\* Another handler, and any inbox, has other messages than the handler of i.
LEMMA OtherMessages ==
    ASSUME IInv, NEW i \in Instances, InHand(i)
    PROVE  /\ \A j \in Instances \ {i} :
                 task[j] # NoTask => task[j].id \in Ids \ {task[i].id}
           /\ \A j \in Instances : \A k \in DOMAIN inbox[j] :
                 inbox[j][k] \in Ids \ {task[i].id}
<1>1. task[i] # NoTask
  BY MsAssumption DEF IInv, Places
<1>2. \A j \in Instances : task[j] # NoTask => task[j].id \in Ids
  BY DEF IInv, TypeOK, Tasks
<1>3. inbox \in [Instances -> Seq(Ids)]
  BY DEF IInv, TypeOK
<1> QED
  BY <1>1, <1>2, <1>3 DEF IInv, Distinct

\* A step that changes where a handler is, its err and res, and if its operation has
\* failed, and nothing else.
Moves(i, place) ==
    /\ InHand(i)
    /\ pc' = [pc EXCEPT ![i] = place]
    /\ \E err, res \in BOOLEAN :
          task' = [task EXCEPT ![i] = [id |-> task[i].id, err |-> err, res |-> res]]
    /\ failed' \in {failed, failed \cup {task[i].id}}
    /\ UNCHANGED <<program, declared, operByName, inbox, sent, replies, calls>>

LEMMA MovesIInv ==
    ASSUME IInv, NEW i \in Instances, NEW place \in {"reply", "panic"}, Moves(i, place),
           place = "reply" =>
              /\ task'[i].err <=> calls[task[i].id] = <<>>
              /\ task'[i].res => ~task'[i].err /\ task[i].id \notin failed'
    PROVE  IInv'
<1>1. PICK err \in BOOLEAN, res \in BOOLEAN :
         task' = [task EXCEPT ![i] = [id |-> task[i].id, err |-> err, res |-> res]]
  BY DEF Moves
<1>2. /\ InHand(i) /\ pc' = [pc EXCEPT ![i] = place]
      /\ failed' \in {failed, failed \cup {task[i].id}}
      /\ UNCHANGED <<program, declared, operByName, inbox, sent, replies, calls>>
  BY DEF Moves
<1>3. task[i] \in Tasks /\ task[i] # NoTask /\ task[i].id \in Ids
  BY <1>2, MsAssumption DEF IInv, Places, Tasks
<1>4. /\ inbox \in [Instances -> Seq(Ids)] /\ task \in [Instances -> Tasks \cup {NoTask}]
      /\ pc \in [Instances -> {"declare", "idle", "handle", "oper", "reply", "panic", "dead"}]
  BY DEF IInv, TypeOK
<1>5. /\ task'[i] = [id |-> task[i].id, err |-> err, res |-> res]
      /\ task'[i] \in Tasks /\ task'[i].id = task[i].id
      /\ \A j \in Instances \ {i} : task'[j] = task[j] /\ pc'[j] = pc[j]
      /\ pc'[i] = place
  BY <1>1, <1>2, <1>3, <1>4 DEF Tasks
<1>6. task'[i] # NoTask
  BY <1>5, MsAssumption
<1>7. TypeOK'
  BY <1>1, <1>2, <1>3 DEF IInv, TypeOK, Tasks
<1>8. Places'
  BY <1>2, <1>3, <1>4, <1>5 DEF IInv, Places, InHand
<1>9. Distinct'
  BY <1>2, <1>3, <1>5, <1>6 DEF IInv, Distinct
<1>14. /\ \A j \in Instances \ {i} :
             InHand(j) => task[j].id \in Ids \ {task[i].id}
       /\ \A j \in Instances : \A k \in DOMAIN inbox[j] :
             inbox[j][k] \in Ids \ {task[i].id}
       /\ sent[task[i].id] # NoMessage /\ replies[task[i].id] = <<>>
  <2>1. \A j \in Instances : InHand(j) => task[j] # NoTask
    BY MsAssumption DEF IInv, Places
  <2> QED
    BY <1>2, <1>3, <2>1, OtherMessages DEF IInv, Places, Progress
<1>10. Untouched'
  BY <1>2, <1>14 DEF IInv, Untouched
<1>11. Progress'
  <2>1. ASSUME NEW j \in Instances \ {i}, InHand(j)'
        PROVE  InHand(j) /\ (task[j].id \in failed' <=> task[j].id \in failed)
    BY <2>1, <1>2, <1>5, <1>14 DEF InHand
  <2> QED
    BY <1>2, <1>3, <1>5, <1>14, <2>1 DEF IInv, Progress, InHand
<1>12. Fatal' = Fatal
  <2>1. pc[i] # "dead" /\ pc'[i] # "dead"
    BY <1>2, <1>5 DEF InHand
  <2> QED
    BY <2>1, <1>5 DEF Fatal
<1>13. Absent' /\ HandledOnce'
  BY <1>2 DEF IInv, Absent, HandledOnce
<1>15. ReplyFitsCall'
  BY <1>2, <1>12, <1>14 DEF IInv, ReplyFitsCall
<1> QED
  BY <1>7, <1>8, <1>9, <1>10, <1>11, <1>13, <1>15 DEF IInv

\* The fields of a handler's variables.
LEMMA TaskFields ==
    ASSUME NEW r \in Tasks
    PROVE  /\ [r EXCEPT !.err = TRUE] = [id |-> r.id, err |-> TRUE, res |-> r.res]
           /\ \A res \in BOOLEAN :
                 [r EXCEPT !.res = res] = [id |-> r.id, err |-> r.err, res |-> res]
           /\ ~r.err => r.err = FALSE
<1>1. r = [id |-> r.id, err |-> r.err, res |-> r.res] /\ r.id \in Ids
  BY DEF Tasks
<1>2. r.err \in BOOLEAN /\ r.res \in BOOLEAN
  BY DEF Tasks
<1>3. ASSUME NEW err \in BOOLEAN
      PROVE  [r EXCEPT !.err = err] = [id |-> r.id, err |-> err, res |-> r.res]
  BY <1>1
<1>4. ASSUME NEW res \in BOOLEAN
      PROVE  [r EXCEPT !.res = res] = [id |-> r.id, err |-> r.err, res |-> res]
  BY <1>1
<1>5. ~r.err => r.err = FALSE
  BY <1>2
<1> QED
  BY <1>3, <1>4, <1>5

\* The ways out of handleRequest() before the operation, and the end of it.
LEMMA LeavesHandler ==
    ASSUME IInv, NEW i \in Instances,
           RefuseUnknown(i) \/ RefuseMissing(i) \/ RefuseInvalid(i) \/ Panic(i) \/ OperReturns(i)
    PROVE  IInv'
<1>0. InHand(i) =>
         /\ [task[i] EXCEPT !.err = TRUE] =
               [id |-> task[i].id, err |-> TRUE, res |-> task[i].res]
         /\ \A res \in BOOLEAN :
               [task[i] EXCEPT !.res = res] =
                  [id |-> task[i].id, err |-> task[i].err, res |-> res]
         /\ ~task[i].err => task[i].err = FALSE
  <2>1. InHand(i) => task[i] \in Tasks
    BY DEF IInv, Places
  <2> QED
    BY <2>1, TaskFields
<1>1. /\ task \in [Instances -> Tasks \cup {NoTask}]
      /\ InHand(i) => task[i] = [id |-> task[i].id, err |-> task[i].err, res |-> task[i].res]
                      /\ task[i].err \in BOOLEAN /\ task[i].res \in BOOLEAN
      /\ task = [task EXCEPT ![i] = task[i]]
  BY DEF IInv, TypeOK, Places, Tasks
<1>2. CASE pc[i] = "handle" /\ Returns(i, TRUE)
  <2>1. task' = [task EXCEPT ![i] = [id |-> task[i].id, err |-> TRUE, res |-> task[i].res]]
    <3>1. task' = [task EXCEPT ![i] = [task[i] EXCEPT !.err = TRUE]]
      BY <1>2 DEF Returns
    <3> QED
      BY <1>0, <1>2, <3>1 DEF InHand
  <2>2. Moves(i, "reply")
    BY <1>1, <1>2, <2>1 DEF Moves, Returns, Go, InHand
  <2>3. task'[i].err /\ ~task'[i].res /\ calls[task[i].id] = <<>>
    BY <1>1, <1>2, <2>1 DEF IInv, Progress, InHand
  <2> QED
    BY <2>2, <2>3, MovesIInv
<1>3. CASE Panic(i)
  <2>1. Moves(i, "panic")
    BY <1>1, <1>3 DEF Panic, Go, Moves, InHand
  <2> QED
    BY <2>1, MovesIInv
<1>4. CASE OperReturns(i)
  <2>1. /\ pc[i] = "oper" /\ ~task[i].err /\ calls[task[i].id] # <<>>
        /\ task[i].id \notin failed
    BY <1>4 DEF OperReturns, IInv, Progress
  <2>2. CASE Go(i, "panic") /\ UNCHANGED <<task, failed>>
    <3>1. Moves(i, "panic")
      BY <1>1, <1>4, <2>1, <2>2 DEF OperReturns, Go, Moves, InHand
    <3> QED
      BY <3>1, MovesIInv
  <2>3. CASE /\ Go(i, "reply")
             /\ \E err \in BOOLEAN :
                   /\ task' = [task EXCEPT ![i].res = ~err /\ Fnc(i).out = 2]
                   /\ failed' = IF err THEN failed \cup {task[i].id} ELSE failed
    <3>1. PICK res \in BOOLEAN :
             /\ task' = [task EXCEPT ![i].res = res]
             /\ failed' \in {failed, failed \cup {task[i].id}}
             /\ res => failed' = failed
      BY <2>3
    <3>2. task' = [task EXCEPT ![i] = [id |-> task[i].id, err |-> FALSE, res |-> res]]
      <4>1. task' = [task EXCEPT ![i] = [task[i] EXCEPT !.res = res]]
        BY <3>1
      <4> QED
        BY <1>0, <2>1, <4>1 DEF InHand
    <3>3. Moves(i, "reply")
      BY <1>4, <2>1, <2>3, <3>1, <3>2 DEF OperReturns, Go, Moves, InHand
    <3>4. ~task'[i].err /\ (task'[i].res => task[i].id \notin failed')
      BY <1>1, <2>1, <3>1, <3>2
    <3> QED
      BY <2>1, <3>3, <3>4, MovesIInv
  <2> QED
    BY <1>4, <2>2, <2>3 DEF OperReturns
<1> QED
  BY <1>2, <1>3, <1>4 DEF RefuseUnknown, RefuseMissing, RefuseInvalid

\* The operation is called for a message that has not been called for yet.
LEMMA CallOperIInv ==
    ASSUME IInv, NEW i \in Instances, CallOper(i)
    PROVE  IInv'
<1> DEFINE id == task[i].id
           t == Decoded(i)
<1>1. /\ pc[i] = "handle" /\ pc' = [pc EXCEPT ![i] = "oper"] /\ t \in Types
      /\ calls' = [calls EXCEPT ![id] = Append(@, t)]
      /\ UNCHANGED <<program, declared, operByName, inbox, task, sent, replies, failed>>
  BY DEF CallOper, Accepted, Go
<1>2. /\ task[i] \in Tasks /\ task[i] # NoTask /\ id \in Ids
      /\ calls[id] = <<>> /\ replies[id] = <<>> /\ ~task[i].err
  BY <1>1, MsAssumption DEF IInv, Places, Progress, InHand, Tasks
<1>3. calls \in [Ids -> Seq(Types)] /\ inbox \in [Instances -> Seq(Ids)]
  BY DEF IInv, TypeOK
<1>4. calls'[id] = <<t>> /\ \A q \in Ids \ {id} : calls'[q] = calls[q]
  BY <1>1, <1>2, <1>3
<1>5. sent[id] \in MessageSet /\ sent[id].request.type.kind = "absent"
  <2>1. sent[id] \in Messages /\ sent[id] # Garbled
    BY <1>2 DEF IInv, TypeOK, Places, CallOper, Accepted, HasRequest, Typed, IsKnown, HasProvider,
                IsRequest, Message
  <2>2. sent[id] \in MessageSet
    BY <2>1, MsAssumption
  <2>3. sent[id].request \in Requests
    BY <2>2 DEF MessageSet, CallOper, Accepted, HasRequest, Message
  <2> QED
    BY <1>1, <2>2, <2>3, DecodedIsAbsent DEF Requests, Decoded, Message
<1>6. TypeOK'
  BY <1>1, <1>2, <1>3 DEF IInv, TypeOK
<1>7. Places' /\ Distinct'
  BY <1>1 DEF IInv, TypeOK, Places, Distinct, InHand
<1>8. Untouched'
  <2>1. \A j \in Instances : \A k \in DOMAIN inbox[j] : inbox[j][k] \in Ids \ {id}
    BY <1>2, <1>3 DEF IInv, Distinct
  <2>2. sent[id] # NoMessage
    BY <1>2 DEF IInv, Places
  <2> QED
    BY <1>1, <1>4, <2>1, <2>2 DEF IInv, Untouched
<1>9. Progress'
  <2>1. ASSUME NEW j \in Instances \ {i}
        PROVE  pc'[j] = pc[j] /\ (InHand(j) => task[j].id \in Ids \ {id})
    BY <1>1, <1>2, MsAssumption DEF IInv, TypeOK, Places, Distinct, InHand, Tasks
  <2>2. pc'[i] = "oper"
    BY <1>1 DEF IInv, TypeOK
  <2> QED
    BY <1>1, <1>2, <1>4, <2>1, <2>2 DEF IInv, Progress, InHand
<1>10. Absent'
  BY <1>1, <1>4, <1>5 DEF IInv, Absent
<1>11. HandledOnce'
  BY <1>1, <1>2, <1>4 DEF IInv, HandledOnce
<1>12. Fatal' = Fatal
  BY <1>1 DEF IInv, TypeOK, Fatal
<1>13. ReplyFitsCall'
  BY <1>1, <1>2, <1>4, <1>12 DEF IInv, ReplyFitsCall
<1> QED
  BY <1>6, <1>7, <1>8, <1>9, <1>10, <1>11, <1>13 DEF IInv

\* What a deferred function publishes: one reply, or none.
LEMMA PublishedFacts ==
    ASSUME IInv, NEW i \in Instances, InHand(i), replies' \in {replies, Published(i)}
    PROVE  /\ task[i] \in Tasks /\ task[i] # NoTask /\ task[i].id \in Ids
           /\ replies' \in [Ids -> Seq(Replies)]
           /\ \A q \in Ids \ {task[i].id} : replies'[q] = replies[q]
           /\ Len(replies'[task[i].id]) <= 1
           /\ \A k \in DOMAIN replies'[task[i].id] :
                 /\ replies'[task[i].id][k].success <=> ~task[i].err
                 /\ replies'[task[i].id][k].response <=> task[i].res
<1>1. task[i] \in Tasks /\ task[i] # NoTask /\ task[i].id \in Ids /\ replies[task[i].id] = <<>>
  BY MsAssumption DEF IInv, Places, Progress, Tasks
<1>2. [success |-> ~task[i].err, response |-> task[i].res] \in Replies
  BY <1>1 DEF Tasks, Replies
<1>3. replies \in [Ids -> Seq(Replies)]
  BY DEF IInv, TypeOK
<1>4. CASE replies' = replies
  BY <1>1, <1>3, <1>4
<1>5. CASE replies' = [replies EXCEPT ![task[i].id] =
                          Append(@, [success |-> ~task[i].err, response |-> task[i].res])]
  <2> DEFINE r == [success |-> ~task[i].err, response |-> task[i].res]
  <2> HIDE DEF r
  <2>1. replies' = [replies EXCEPT ![task[i].id] = Append(@, r)] /\ r \in Replies
    BY <1>2, <1>5 DEF r
  <2>2. /\ replies' \in [Ids -> Seq(Replies)]
        /\ \A q \in Ids \ {task[i].id} : replies'[q] = replies[q]
        /\ replies'[task[i].id] = <<r>>
    BY <1>1, <1>3, <2>1
  <2>3. (r.success <=> ~task[i].err) /\ (r.response <=> task[i].res)
    BY DEF r
  <2>4. Len(<<r>>) = 1 /\ \A k \in DOMAIN <<r>> : <<r>>[k] = r
    OBVIOUS
  <2> QED
    BY <1>1, <2>2, <2>3, <2>4
<1> QED
  BY <1>4, <1>5 DEF Published

\* A reply tells what the handler has done.
LEMMA ReplyIInv ==
    ASSUME IInv, NEW i \in Instances, Reply(i)
    PROVE  IInv'
<1>1. /\ pc[i] = "reply" /\ InHand(i) /\ replies' = Published(i)
      /\ task' = [task EXCEPT ![i] = NoTask] /\ pc' = [pc EXCEPT ![i] = "idle"]
      /\ UNCHANGED <<program, declared, operByName, inbox, sent, calls, failed>>
  BY DEF Reply, Go, InHand
<1>0. /\ task[i] \in Tasks /\ task[i] # NoTask /\ task[i].id \in Ids
      /\ replies' \in [Ids -> Seq(Replies)]
      /\ \A q \in Ids \ {task[i].id} : replies'[q] = replies[q]
      /\ Len(replies'[task[i].id]) <= 1
      /\ \A k \in DOMAIN replies'[task[i].id] :
            /\ replies'[task[i].id][k].success <=> ~task[i].err
            /\ replies'[task[i].id][k].response <=> task[i].res
  BY <1>1, PublishedFacts
<1>13. /\ \A j \in Instances \ {i} : task[j] # NoTask => task[j].id \in Ids \ {task[i].id}
      /\ \A j \in Instances : \A k \in DOMAIN inbox[j] : inbox[j][k] \in Ids \ {task[i].id}
  BY <1>1, OtherMessages
<1>2. /\ inbox \in [Instances -> Seq(Ids)] /\ task \in [Instances -> Tasks \cup {NoTask}]
      /\ pc \in [Instances -> {"declare", "idle", "handle", "oper", "reply", "panic", "dead"}]
  BY DEF IInv, TypeOK
<1>3. /\ task'[i] = NoTask /\ pc'[i] = "idle"
      /\ \A j \in Instances \ {i} : task'[j] = task[j] /\ pc'[j] = pc[j]
  BY <1>1, <1>2
<1>4. TypeOK'
  BY <1>1, <1>2, <1>0 DEF IInv, TypeOK
<1>5. Places'
  BY <1>1, <1>3 DEF IInv, Places, InHand
<1>6. Distinct'
  BY <1>1, <1>3 DEF IInv, Distinct
<1>7. Untouched'
  <2>1. sent[task[i].id] # NoMessage
    BY <1>1, <1>0 DEF IInv, Places
  <2> QED
    BY <1>1, <2>1, <1>0, <1>13 DEF IInv, Untouched
<1>8. Progress'
  <2>1. ASSUME NEW j \in Instances, InHand(j)'
        PROVE  j # i /\ InHand(j) /\ task[j] # NoTask
    BY <1>3, <2>1, MsAssumption DEF InHand, IInv, Places
  <2>2. ASSUME NEW j \in Instances, InHand(j)'
        PROVE  replies'[task'[j].id] = <<>>
    BY <1>1, <1>3, <2>1, <2>2, <1>0, <1>13 DEF IInv, Progress
  <2> QED
    BY <1>1, <1>3, <2>1, <2>2 DEF IInv, Progress, InHand
<1>9. Absent'
  BY <1>1 DEF IInv, Absent
<1>10. HandledOnce'
  BY <1>1, <1>0 DEF IInv, HandledOnce
<1>11. Fatal' = Fatal
  BY <1>1, <1>3 DEF Fatal
<1>12. ReplyFitsCall'
  <2>1. /\ task[i].err <=> calls[task[i].id] = <<>>
        /\ task[i].res => ~task[i].err /\ task[i].id \notin failed
    BY <1>1 DEF IInv, Progress
  <2>2. \A k \in DOMAIN replies'[task[i].id] :
           /\ replies'[task[i].id][k].success <=> calls[task[i].id] # <<>>
           /\ replies'[task[i].id][k].response =>
                 replies'[task[i].id][k].success /\ task[i].id \notin failed
    BY <1>1, <2>1, <1>0
  <2> QED
    BY <1>1, <1>11, <1>0, <2>2 DEF IInv, ReplyFitsCall
<1> QED
  BY <1>4, <1>5, <1>6, <1>7, <1>8, <1>9, <1>10, <1>12 DEF IInv

\* A process that panics may send a reply, and takes its inbox with it.
LEMMA DieIInv ==
    ASSUME IInv, NEW i \in Instances, Die(i)
    PROVE  IInv'
<1>1. /\ pc[i] = "panic" /\ InHand(i) /\ replies' \in {replies, Published(i)}
      /\ inbox' = [inbox EXCEPT ![i] = <<>>] /\ pc' = [pc EXCEPT ![i] = "dead"]
      /\ UNCHANGED <<program, declared, operByName, task, sent, calls, failed>>
  BY DEF Die, Go, InHand
<1>0. /\ task[i] \in Tasks /\ task[i] # NoTask /\ task[i].id \in Ids
      /\ replies' \in [Ids -> Seq(Replies)]
      /\ \A q \in Ids \ {task[i].id} : replies'[q] = replies[q]
      /\ Len(replies'[task[i].id]) <= 1
      /\ \A k \in DOMAIN replies'[task[i].id] :
            /\ replies'[task[i].id][k].success <=> ~task[i].err
            /\ replies'[task[i].id][k].response <=> task[i].res
  BY <1>1, PublishedFacts
<1>13. /\ \A j \in Instances \ {i} : task[j] # NoTask => task[j].id \in Ids \ {task[i].id}
      /\ \A j \in Instances : \A k \in DOMAIN inbox[j] : inbox[j][k] \in Ids \ {task[i].id}
  BY <1>1, OtherMessages
<1>2. /\ inbox \in [Instances -> Seq(Ids)] /\ task \in [Instances -> Tasks \cup {NoTask}]
      /\ pc \in [Instances -> {"declare", "idle", "handle", "oper", "reply", "panic", "dead"}]
  BY DEF IInv, TypeOK
<1>3. /\ inbox'[i] = <<>> /\ pc'[i] = "dead"
      /\ \A j \in Instances \ {i} : inbox'[j] = inbox[j] /\ pc'[j] = pc[j]
  BY <1>1, <1>2
<1>4. TypeOK'
  BY <1>1, <1>2, <1>0 DEF IInv, TypeOK
<1>5. Places'
  BY <1>1, <1>3 DEF IInv, Places, InHand
<1>6. Distinct'
  BY <1>1, <1>3 DEF IInv, Distinct
<1>7. Untouched'
  <2>1. sent[task[i].id] # NoMessage
    BY <1>1, <1>0 DEF IInv, Places
  <2>2. \A j \in Instances : \A k \in DOMAIN inbox'[j] :
           j # i /\ k \in DOMAIN inbox[j] /\ inbox'[j][k] = inbox[j][k]
    BY <1>3
  <2>3. \A id \in Ids : sent'[id] = NoMessage =>
           replies'[id] = <<>> /\ calls'[id] = <<>> /\ id \notin failed'
    BY <1>0, <1>1, <2>1 DEF IInv, Untouched
  <2>4. ASSUME NEW j \in Instances, NEW k \in DOMAIN inbox'[j]
        PROVE  /\ sent'[inbox'[j][k]] # NoMessage
               /\ replies'[inbox'[j][k]] = <<>> /\ calls'[inbox'[j][k]] = <<>>
               /\ inbox'[j][k] \notin failed'
    <3>1. k \in DOMAIN inbox[j] /\ inbox'[j][k] = inbox[j][k]
      BY <2>2
    <3>2. inbox[j][k] \in Ids \ {task[i].id}
      BY <1>13, <3>1
    <3> QED
      BY <1>0, <1>1, <3>1, <3>2 DEF IInv, Untouched
  <2> QED
    BY <2>3, <2>4 DEF Untouched
<1>8. Progress'
  <2>1. ASSUME NEW j \in Instances, InHand(j)'
        PROVE  j # i /\ InHand(j) /\ task[j] # NoTask
    BY <1>3, <2>1, MsAssumption DEF InHand, IInv, Places
  <2>2. ASSUME NEW j \in Instances, InHand(j)'
        PROVE  replies'[task'[j].id] = <<>>
    BY <1>1, <1>3, <2>1, <2>2, <1>0, <1>13 DEF IInv, Progress
  <2> QED
    BY <1>1, <1>3, <2>1, <2>2 DEF IInv, Progress, InHand
<1>9. Absent'
  BY <1>1 DEF IInv, Absent
<1>10. HandledOnce'
  BY <1>1, <1>0 DEF IInv, HandledOnce
<1>11. Fatal \cup {task[i].id} \subseteq Fatal'
  BY <1>1, <1>3, <1>0 DEF Fatal
<1>12. ReplyFitsCall'
  BY <1>1, <1>0, <1>11 DEF IInv, ReplyFitsCall
<1> QED
  BY <1>4, <1>5, <1>6, <1>7, <1>8, <1>9, <1>10, <1>12 DEF IInv

LEMMA NextIInv == IInv /\ [Next]_vars => IInv'
<1> SUFFICES ASSUME IInv, [Next]_vars
             PROVE  IInv'
  OBVIOUS
<1>1. CASE UNCHANGED vars
  BY <1>1 DEF vars, IInv, TypeOK, Places, Distinct, Untouched, Progress, Absent, InHand,
     ReplyFitsCall, HandledOnce, Fatal
<1>2. CASE Quiet
  BY <1>1, <1>2 DEF Quiet
<1>3. ASSUME NEW id \in Ids, NEW m \in Messages, Publish(id, m)
      PROVE  IInv'
  BY <1>3, PublishIInv
<1>4. ASSUME NEW i \in Instances, Handle(i) \/ Run(i) \/ Serve(i)
      PROVE  IInv'
  BY <1>4, HandleIInv, RunIInv, ReceiveIInv, LeavesHandler, CallOperIInv, ReplyIInv, DieIInv
     DEF Serve, handleRequest
<1> QED
  BY <1>1, <1>2, <1>3, <1>4 DEF Next

LEMMA SpecIInv == Spec => []IInv
BY InitIInv, NextIInv, PTL DEF Spec

--------------------------------------------------------------------------------
(***************************************************************************)
(* The theorems.                                                           *)
(***************************************************************************)

\* Type correctness: no operation is registered under a name, or with arguments or
\* results, that Handle() refuses.
THEOREM SpecTypeOK == Spec => []TypeOK
<1>1. IInv => TypeOK
  BY DEF IInv
<1> QED
  BY <1>1, SpecIInv, PTL

\* No reply denies what was done or claims what was not, but for one of a panicking
\* process.
THEOREM SpecReplyFitsCall == Spec => []ReplyFitsCall
<1>1. IInv => ReplyFitsCall
  BY DEF IInv
<1> QED
  BY <1>1, SpecIInv, PTL

\* No message is handled twice.
THEOREM SpecHandledOnce == Spec => []HandledOnce
<1>1. IInv => HandledOnce
  BY DEF IInv
<1> QED
  BY <1>1, SpecIInv, PTL

\* No operation is called with a type that its message does not state.
THEOREM SpecNoTypeMisread == Spec => []NoTypeMisread
<1>1. IInv => NoTypeMisread
  BY DEF IInv, Absent, NoTypeMisread
<1> QED
  BY <1>1, SpecIInv, PTL

================================================================================
