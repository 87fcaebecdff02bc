---------------------------------- MODULE Ms ----------------------------------
(***************************************************************************)
(* The micro-service framework: a program declares operations (ms/service  *)
(* .go) and serves them over NATS (ms/nats/nats.go), with ussd.Request as  *)
(* the type of their requests.  Instances form a queue group: NATS gives a *)
(* message to one of them, and the callback of the one subscription is run *)
(* for one message after the other.  A panic stops the process; its        *)
(* deferred function still hands a reply to the NATS client, which may or  *)
(* may not have written it when the process ends.                          *)
(* No program waits for a reply of its own (replyChannels is never filled) *)
(* so that handleReply() discards what it gets; it is left out, as are the *)
(* echo of a request and the texts of errors.                              *)
(***************************************************************************)
EXTENDS UssdCodec, Naturals, Sequences

CONSTANTS
    Instances,
    Ids,          \* messages, each with a reply address of its own if it has one
    ValidNames,   \* names that operNameRegex matches
    InvalidNames,
    NoName,       \* provider.name is not "/<domain>/<oper>"
    NoProvider,   \* the header has no provider
    NoFnc,        \* nothing, or a value that is no function
    NoRequest,
    Garbled,      \* a message that is not JSON
    NoMessage,    \* not sent yet
    NoTask,
    Programs,     \* sequences of calls of Handle()
    Messages      \* what consumers send

\* ctx: what the function takes first, if anything, is a context.Context.
Fncs == [ctx : BOOLEAN, in : 0 .. 3, out : 0 .. 3]

\* The functions that Handle() accepts.
Operations == [ctx : BOOLEAN, in : 0 .. 2, out : 0 .. 2]

Requests == [type : TypeFields, complete : BOOLEAN]

MessageSet ==
    [result : BOOLEAN,     \* it has a result or a response
     provider : ValidNames \cup InvalidNames \cup {NoName, NoProvider},
     request : Requests \cup {NoRequest},
     replyAddress : BOOLEAN]

Tasks == [id : Ids, err : BOOLEAN, res : BOOLEAN]

ASSUME MsAssumption ==
    /\ Programs \subseteq Seq([name : ValidNames \cup InvalidNames, fnc : Fncs \cup {NoFnc}])
    /\ Messages \subseteq MessageSet \cup {Garbled}
    /\ Garbled \notin MessageSet /\ NoMessage \notin MessageSet \cup {Garbled}
    /\ NoFnc \notin Fncs /\ NoRequest \notin Requests /\ NoTask \notin Tasks
    /\ ValidNames \cap (InvalidNames \cup {NoName, NoProvider}) = {}

VARIABLES
    program,     \* the calls of Handle() that every instance makes
    declared,    \* how many of them an instance has made
    operByName,  \* the operations of each instance
    pc,          \* where each instance is
    inbox,       \* what NATS has given to it
    task,        \* the local variables of handleRequest()
    sent,        \* the messages, by id
    replies,     \* what was published to each reply address
    calls,       \* for the properties: the types that the operation was called with
    failed       \* for the properties: the messages whose operation returned an error

vars == <<program, declared, operByName, pc, inbox, task, sent, replies, calls, failed>>

Replies == [success : BOOLEAN, response : BOOLEAN]

TypeOK ==
    /\ program \in Programs
    /\ declared \in [Instances -> 0 .. Len(program)]
    /\ operByName \in [Instances -> [ValidNames -> Operations \cup {NoFnc}]]
    /\ pc \in [Instances -> {"declare", "idle", "handle", "oper", "reply", "panic", "dead"}]
    /\ inbox \in [Instances -> Seq(Ids)]
    /\ task \in [Instances -> Tasks \cup {NoTask}]
    /\ sent \in [Ids -> Messages \cup {NoMessage}]
    /\ replies \in [Ids -> Seq(Replies)]
    /\ calls \in [Ids -> Seq(Types)]
    /\ failed \subseteq Ids

Init ==
    /\ program \in Programs
    /\ declared = [i \in Instances |-> 0]
    /\ operByName = [i \in Instances |-> [n \in ValidNames |-> NoFnc]]
    /\ pc = [i \in Instances |-> "declare"]
    /\ inbox = [i \in Instances |-> <<>>]
    /\ task = [i \in Instances |-> NoTask]
    /\ sent = [id \in Ids |-> NoMessage]
    /\ replies = [id \in Ids |-> <<>>]
    /\ calls = [id \in Ids |-> <<>>]
    /\ failed = {}

Go(i, place) == pc' = [pc EXCEPT ![i] = place]

--------------------------------------------------------------------------------
\* Mutant: the arguments and results are not counted.
AcceptableUncounted(i, o) ==
    o.name \in ValidNames /\ operByName[i][o.name] = NoFnc /\ o.fnc # NoFnc

\* Handle() refuses, by a panic, a name that does not match, a name that is taken,
\* and what is not a function of at most 2 arguments and 2 results.  It does not look
\* at the types of them.
Acceptable(i, o) ==
    /\ o.name \in ValidNames
    /\ operByName[i][o.name] = NoFnc
    /\ o.fnc # NoFnc /\ o.fnc.in <= 2 /\ o.fnc.out <= 2

Handle(i) ==
    /\ pc[i] = "declare" /\ declared[i] < Len(program)
    /\ LET o == program[declared[i] + 1]
       IN  \/ /\ Acceptable(i, o)
              /\ operByName' = [operByName EXCEPT ![i][o.name] = o.fnc]
              /\ declared' = [declared EXCEPT ![i] = @ + 1]
              /\ UNCHANGED pc
           \/ /\ ~Acceptable(i, o)
              /\ Go(i, "dead")
              /\ UNCHANGED <<operByName, declared>>
    /\ UNCHANGED <<program, inbox, task, sent, replies, calls, failed>>

\* Run() subscribes.
Run(i) ==
    /\ pc[i] = "declare" /\ declared[i] = Len(program)
    /\ Go(i, "idle")
    /\ UNCHANGED <<program, declared, operByName, inbox, task, sent, replies, calls, failed>>

Subscribed == {i \in Instances : pc[i] \notin {"declare", "dead"}}

\* Mutant: every instance gets the message.
PublishToAll(id, m) ==
    /\ sent[id] = NoMessage /\ Subscribed # {}
    /\ sent' = [sent EXCEPT ![id] = m]
    /\ inbox' = [i \in Instances |->
                    IF i \in Subscribed THEN Append(inbox[i], id) ELSE inbox[i]]
    /\ UNCHANGED <<program, declared, operByName, pc, task, replies, calls, failed>>

\* A consumer sends a message, and one instance of the queue group gets it.
Publish(id, m) ==
    /\ sent[id] = NoMessage
    /\ sent' = [sent EXCEPT ![id] = m]
    /\ \E i \in Subscribed : inbox' = [inbox EXCEPT ![i] = Append(@, id)]
    /\ UNCHANGED <<program, declared, operByName, pc, task, replies, calls, failed>>

\* The callback of the subscription is called.
Receive(i) ==
    /\ pc[i] = "idle" /\ inbox[i] # <<>>
    /\ inbox' = [inbox EXCEPT ![i] = Tail(@)]
    /\ task' = [task EXCEPT ![i] = [id |-> Head(inbox[i]), err |-> FALSE, res |-> FALSE]]
    /\ Go(i, "handle")
    /\ UNCHANGED <<program, declared, operByName, sent, replies, calls, failed>>

--------------------------------------------------------------------------------
\* handleRequest().  Each predicate is what holds after one more of its checks.
Message(i) == sent[task[i].id]

IsRequest(i) == Message(i) # Garbled /\ ~Message(i).result

HasProvider(i) == IsRequest(i) /\ Message(i).provider # NoProvider

Fnc(i) == operByName[i][Message(i).provider]

IsKnown(i) ==
    HasProvider(i) /\ Message(i).provider \in ValidNames /\ Fnc(i) # NoFnc

Typed(i) == IsKnown(i) /\ Fnc(i).in = 2

HasRequest(i) == Typed(i) /\ Message(i).request # NoRequest

Decoded(i) == Unmarshal(Message(i).request.type)

Accepted(i) == HasRequest(i) /\ Decoded(i) \in Types /\ Message(i).request.complete

\* A return before the operation is called.
Returns(i, err) ==
    /\ task' = [task EXCEPT ![i].err = err]
    /\ Go(i, "reply")
    /\ UNCHANGED <<program, declared, operByName, inbox, sent, replies, calls, failed>>

RefuseUnknown(i) ==
    /\ pc[i] = "handle"
    /\ ~IsRequest(i) \/ (HasProvider(i) /\ ~IsKnown(i))
    /\ Returns(i, TRUE)

\* Mutant: the missing request is no error.
RefuseMissingSilent(i) ==
    /\ pc[i] = "handle"
    /\ Typed(i) /\ ~HasRequest(i)
    /\ Returns(i, FALSE)

RefuseMissing(i) ==
    /\ pc[i] = "handle"
    /\ Typed(i) /\ ~HasRequest(i)
    /\ Returns(i, TRUE)

\* The request is not decoded, or Validate() finds a field missing.
RefuseInvalid(i) ==
    /\ pc[i] = "handle"
    /\ HasRequest(i) /\ Decoded(i) # Panics
    /\ Decoded(i) = NotDecoded \/ ~Message(i).request.complete
    /\ Returns(i, TRUE)

\* The provider is a nil pointer; UnmarshalJSON() is out of range; the operation
\* has no type of request, so reqValuePtr is the zero reflect.Value, or a first
\* argument that a context is no value of.
Panic(i) ==
    /\ pc[i] = "handle"
    /\ \/ IsRequest(i) /\ ~HasProvider(i)
       \/ HasRequest(i) /\ Decoded(i) = Panics
       \/ Accepted(i) /\ ~Fnc(i).ctx
       \/ IsKnown(i) /\ ~Typed(i)
    /\ Go(i, "panic")
    /\ UNCHANGED <<program, declared, operByName, inbox, task, sent, replies, calls, failed>>

CallOper(i) ==
    /\ pc[i] = "handle"
    /\ Accepted(i) /\ Fnc(i).ctx
    /\ calls' = [calls EXCEPT ![task[i].id] = Append(@, Decoded(i))]
    /\ Go(i, "oper")
    /\ UNCHANGED <<program, declared, operByName, inbox, task, sent, replies, failed>>

\* The operation returns.  An error of it goes to a variable of the if statement
\* and not to the one that the deferred function looks at; without results
\* there is no last one.
OperReturns(i) ==
    /\ pc[i] = "oper"
    /\ \/ /\ Fnc(i).out = 0
          /\ Go(i, "panic")
          /\ UNCHANGED <<task, failed>>
       \/ /\ Fnc(i).out > 0
          /\ \E err \in BOOLEAN :
                /\ task' = [task EXCEPT ![i].res = ~err /\ Fnc(i).out = 2]
                /\ failed' = IF err THEN failed \cup {task[i].id} ELSE failed
          /\ Go(i, "reply")
    /\ UNCHANGED <<program, declared, operByName, inbox, sent, replies, calls>>

WantsReply(m) == m = Garbled \/ m.replyAddress

Published(i) ==
    IF WantsReply(Message(i))
    THEN [replies EXCEPT ![task[i].id] =
             Append(@, [success |-> ~task[i].err, response |-> task[i].res])]
    ELSE replies

\* Mutant: an error is logged and not replied.
ReplyIfOK(i) ==
    /\ pc[i] = "reply"
    /\ replies' = IF task[i].err THEN replies ELSE Published(i)
    /\ task' = [task EXCEPT ![i] = NoTask]
    /\ Go(i, "idle")
    /\ UNCHANGED <<program, declared, operByName, inbox, sent, calls, failed>>

\* The deferred function.
Reply(i) ==
    /\ pc[i] = "reply"
    /\ replies' = Published(i)
    /\ task' = [task EXCEPT ![i] = NoTask]
    /\ Go(i, "idle")
    /\ UNCHANGED <<program, declared, operByName, inbox, sent, calls, failed>>

\* The deferred function in a panic, and the end of the process.
Die(i) ==
    /\ pc[i] = "panic"
    /\ replies' \in {replies, Published(i)}
    /\ inbox' = [inbox EXCEPT ![i] = <<>>]
    /\ Go(i, "dead")
    /\ UNCHANGED <<program, declared, operByName, task, sent, calls, failed>>

handleRequest(i) ==
    RefuseUnknown(i) \/ RefuseMissing(i) \/ RefuseInvalid(i) \/ Panic(i) \/ CallOper(i)

Serve(i) == Receive(i) \/ handleRequest(i) \/ OperReturns(i) \/ Reply(i) \/ Die(i)

\* Nothing is left to do: every message is answered, or every process has ended.
Quiet ==
    /\ \A i \in Instances : pc[i] \in {"idle", "dead"} /\ inbox[i] = <<>>
    /\ (\A id \in Ids : sent[id] # NoMessage) \/ (\A i \in Instances : pc[i] = "dead")
    /\ UNCHANGED vars

Next ==
    \/ \E i \in Instances : Handle(i) \/ Run(i) \/ Serve(i)
    \/ \E id \in Ids, m \in Messages : Publish(id, m)
    \/ Quiet

\* Processes run, and operations return.
Fairness == \A i \in Instances : WF_vars(Serve(i))

Spec == Init /\ [][Next]_vars

FairSpec == Spec /\ Fairness

--------------------------------------------------------------------------------
\* The messages whose handling has ended a process.
Fatal == {task[i].id : i \in {j \in Instances : task[j] # NoTask /\ pc[j] = "dead"}}

\* A reply does not deny what was done, nor claim what was not: a success is for a
\* message whose operation was called, an error for one whose operation was not
\* called or failed, and a response is of an operation that returned it without an
\* error; but for the reply that a panicking process may still send.  (Which of the
\* two a failed operation gets is left open: it gets a success, by nats.go:186.)
ReplyFitsCall ==
    \A id \in Ids \ Fatal : \A k \in DOMAIN replies[id] :
        LET reply == replies[id][k]
        IN  /\ reply.success => calls[id] # <<>>
            /\ ~reply.success => calls[id] = <<>> \/ id \in failed
            /\ reply.response => reply.success /\ id \notin failed

\* A message is handled by one instance, which calls the operation and replies
\* once, whatever becomes of the others.
HandledOnce == \A id \in Ids : Len(calls[id]) <= 1 /\ Len(replies[id]) <= 1

\* An operation is never called with a type that the message does not state: a
\* type that cannot be read is refused, not taken for the zero value.
NoTypeMisread ==
    \A id \in Ids : \A k \in DOMAIN calls[id] :
        LET f == sent[id].request.type
        IN  f.kind = "absent" \/ f = [kind |-> "word", word |-> Marshal(calls[id][k])]

\* An instance that gets a message with a reply address replies to it, unless a
\* panic ends the process: each way out of handleRequest() is answered.
RequestIsAnswered ==
    \A i \in Instances, id \in Ids :
        (task[i] # NoTask /\ task[i].id = id /\ WantsReply(sent[id])) ~>
            (replies[id] # <<>> \/ pc[i] = "dead")

================================================================================
