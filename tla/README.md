# TLA+ models and proofs of the USSD service

A verification project for the USSD service in this repository: a session
engine (`ussd/`) that leads a mobile subscriber through menus and prompts, the
process that serves it over NATS (`nats-ussd/`), the HTTP server that keeps the
sessions (`rest-sessions/`) and the "please call me" service that runs on it
(`examples/pcm/`).

The repository is a snapshot of work in progress. It has no tests, and several
of its programs do not compile against the engine as it is (`rest-ussd`,
`console` and `examples/simple1` use an older interface of it, `nats-ussd/main.go:42`
holds a remark that is not Go, `ussd/service.go` uses names it does not declare).
The models follow the code that defines a behaviour, in the version of the
engine that is in `ussd/`; where a field was renamed on one side only
(`Text`/`Message` of a response) the two are taken to be the same. `file.go:n` is
a line of the source; a name without directory is in `ussd/`.

## 1. Inventory

| Part | State it keeps | Operations | Talks to |
|---|---|---|---|
| session data, `ussd/session.go` | local copy of a session: its values, the values to set and the names to delete with the next sync | `NewSession`, `Get`, `Set`, `Del`, `Sync` | a `Sessions` store |
| session stores, `ussd/sessions.go`, `rest-sessions/main.go`, `rest-sessions/client` | a map from session id to values; in memory, or in an HTTP server | `New`, `Get`, `Sync`, `Del` | - |
| items, `ussd/item*.go` | none per session; the registry `itemByID` of the process | `Exec` (router, set, func), `Render`/`Process` (menu, prompt), `Render` (final), `Request` (wait) | the local session |
| session engine, `ussd/user.go` | local variables of a call: the session, the current and the next items | `Start`, `UserInput`, `UserAbort`; `proceed`, `loadNextItems` | the store, the items, a responder |
| `nats-ussd/main.go` | none but the responder registry | `handleRequest`, `Respond` | NATS, the engine |
| micro-service framework, `ms/`, `ms/nats/` | the operations by name, subscriptions, pending replies | `Handle`, `GetOper`; `Run`, `Subscribe`, `handleRequest`, `Send` | NATS, operations |
| pcm, `examples/pcm` | a flow of items; the profile database | `Item` | the engine, SQL |
| `rest-ussd/main.go` | a channel per HTTP request | begin, continue, abort | the engine |
| `console/console.go` | two channels, two flags | a loop of dialogues | the engine |
| codec, `ussd/request.go`, `response.go` | - | parse and print the types | - |
| `ussd/service.go` | - | declares operations; unfinished handlers | `ms/` |
| `soscredit`, `simple1` | - | unfinished | - |

How they interact. The gateway publishes a request with a reply address. NATS
hands it to one instance of the queue group. The instance runs `handleRequest`
in the callback of its one subscription, so a request is handled to the end
before the next one; instances are processes and run concurrently. The handler
calls the engine, which reads or creates the session over HTTP, runs items on
its local copy, publishes a response to the reply address, and then syncs or
deletes the session over HTTP. No state of a dialogue stays in the instance but
the registry of items.

The framework in `ms/` is meant to take the place of `nats-ussd`: a program
declares operations, and `handleRequest` of `ms/nats` decodes a message, calls
the operation and replies in a deferred function. A program that sets no store
(`console`) keeps the in-memory store, whose maps the store and the local session
share.

What is hard here:

* *Interleaving of instances* between any two calls to the session server or to
  NATS, with a user who may dial again or hang up at any time, so that several
  requests of one subscriber are in different instances.
* *Order of effects*: the response goes out before the sync.
* *Failure*: a session call that fails with or without effect, errors that the
  caller drops, a lost request, a process that stops in the middle.
* *Paths*: several places may answer a request and several may end a session;
  each path of each handler has to do each of them once.
* *Long sequences*: what one input leaves in the session is read many inputs
  later, perhaps elsewhere.
* *Concurrency inside of the other parts*: the session server's maps without a
  lock, the channels of `rest-ussd` and of the console, the in-memory store that
  shares its map with the local session.

What makes each part correct: the engine and `nats-ussd` must answer a request
once, keep in the store the prompt the user looks at, give an input to that
prompt, end the session with the dialogue and never resurrect it, and serve a
user who waits. A store must make of a sync the same in both implementations.
The flow of pcm must execute what it declares, and confirm only what it saved.
`rest-ussd` and the console must never block a goroutine for ever. The
framework must call an operation at most once for a message, and only with what
the message says, and its reply must not mislead. The
`hazards` of `PROJECT.json` list these points at their lines.

## 2. Modules

| Module | Models |
|---|---|
| `SessionData` | the data of one session (`session.go`), and the two stores' versions of a sync |
| `UssdItems` | the kinds of items and what each does; the flow is a parameter |
| `UssdService` | instances, engine and session server, with phones and gateway as environment |
| `UssdDialogue`, `UssdRefinement` | what the engine promises to a subscriber (abstract), and how `UssdService` keeps it |
| `SessionBody`, `SessionStore` | the bodies of calls to the session server; what a store promises (abstract) |
| `RestSessions` | the session server with its handlers as goroutines, shown to implement `SessionStore` |
| `RestUssd` | the HTTP front end: handler, responder, channel and waiting goroutine |
| `Console` | the simulator: main loop, goroutines, channels |
| `MemorySessions` | the in-memory store and the local session, with the maps they share |
| `UssdCodec` | how the type of a request is read and printed |
| `Ms` | the micro-service framework on NATS, with `UssdCodec` for its requests |
| `PcmFlow` | the shipped flow as values of `UssdItems`' constants, with its own properties |
| `MCUssdService`, `MCPcm`, `MCRestSessions`, `MCMemorySessions`, `MCMs` | constants for TLC |
| `UssdServiceInv`, `UssdSingleInv` | the inductive invariants of `UssdService`: of any number of instances, and of one without faults |
| `UssdServiceProofs`, `UssdSingleProofs`, `RestSessionsProofs`, `MemorySessionsProofs`, `RestUssdProofs`, `ConsoleProofs`, `PcmFlowProofs`, `MsProofs` | theorems |

**SessionData.** A Go map is a function on `Names`, `Nil` standing for an absent
key; `Get` and `Set` cannot tell a nil value from an absent one either.
`NewSession` gives the caller's map to both `data` and `namesToSet`, as the code
does, so all of the data counts as changed. `RestSync` and `MemorySync` are what
`httpSessions.Sync` with the server's handler, and `inMemorySessions.Sync`, make
of the stored data.

**UssdItems.** `Kind` gives an item the Go interface that the type tests of
`proceed()` and `UserInput()` find; `none` is an item that has only an `ID()`.
A code or an input is a model value: `ByCode`, `ByPrefix`, `ByRegex` and
`ParseInt` say what the router's and the menu's conversions make of it. Several
prefixes may match, and Go takes any. A `func` item sets some of the values its
constant allows, or fails.

**UssdService.** One action per step of a handler; a step is the code from one
call that others can see (HTTP, NATS, an item) to the next. `pc[i]` is the call
the handler of instance `i` makes next.

| Action | Code |
|---|---|
| `HandleRequest` | `handleRequest` up to the switch; a START calls `pcm.Item()`, which registers the items |
| `ReplyError` | its deferred function, with `err` set |
| `StartNew`, `StartInit` | `Start` |
| `InputGet`, `InputNotExpected`, `InputRefused`, `InputAccepted` | `UserInput`: GET; unknown item or one without input; error of `Process`; next items |
| `ProceedUser/Router/Set/Func/Wait/Lost` | one round of the loop of `proceed` |
| `SyncSession`, `EndSession`, `FailSession` | the deferred function of `proceed`, its three cases |
| `SyncReturns` | the PUT of the first of them is answered, or fails late |
| `UpdStores` | the session server stores the session that a PUT has looked up |
| `UserAbort` | `UserAbort` |
| `Crash` | the process stops and is started again |
| `ItemPanics` | the first `pcm.Item()` of a process panics: the database is not reached (`pcm.go:27`) |
| `ServerRestart` | the session server does, and its sessions are gone |
| `Dial`, `Answer`, `HangUp`, `AnswerUnknown`, `Display` | phone and gateway, external |
| `Quiet` | nothing left to do within the bounds, so that TLC's deadlock check finds any other stop |

State: `store` is the session server's map, with `puts` for the PUTs it is at and `made`
for the START whose POST made a session's data map; `inbox` what NATS has given to each
instance; `req`, `sess`, `todo` the local variables of a handler (`todo` holds the
current item and the next ones); `itemByID` the registry of each process; `replies` what
was published to each reply address; `phone` what each user sees. `shown` of a request
and `msisdn` of a reply are there for the properties only. The session id is made of the
msisdn, so `store` is a function of it. The engine keeps `responder_id` beside
`responder_key`; there is one responder, so only the key is kept. The gateway is taken
to put the reply address it gives NATS into the header of the message too:
`handleRequest` sends errors to the one and the engine responds to the other.

A failed call: a POST may have had its effect; a GET is answered with an error; a
DELETE takes effect at once or not at all; a PUT may not reach the server, or fail
while the server is at it, which then goes on. A call that had its effect and then
failed is the same as a successful one, since the callers drop the error. `faults`
lists the faults that have happened, so that a property can tell what was lost
(`NothingLost`).

The session server takes a POST, a GET and a DELETE in one step here, and a PUT in two,
since it holds no lock between its lookup (`rest-sessions/main.go:106`) and its store
(`:137`): `UpdFinds` looks the session up and writes the values to its data map, and
`UpdStores` puts that session into the map of sessions, whatever other calls did in
between. So a sync may bring a deleted session back, or undo a START. The map that is
written is the one of the session that was found: two PUTs that found the same session
write to the same map (`made` tells which map it is), and one whose session was deleted
or replaced since writes to a map that only its own store brings back. The lookup and
the writes are one step: a map that is not in the map of sessions is seen by nobody, so
writes to it might as well have come while it last was, and a lookup may be taken to
happen when the writes do, or just before the map is gone. A GET or a PUT of the same
session in the middle of the writes is a data race of one Go map; `RestSessions` has the
writes value by value, and the stop of the server that Go makes of a race it notices
(`ServerRestart` here). `PutIsRestSync` (section 4) proves that the body which the
client makes of a session's changes, and what the server makes of the body, come to
`RestSync`.

**UssdDialogue and UssdRefinement.** `UssdDialogue` has no instance, session server or
handler: a subscriber has no dialogue, or one that waits at an item; a request is served
at one moment (`Start`, `Refuse`, `Input`, `Reject`, `Abort`). The requests that are not
yet served are a set, of which the oldest is next (`Oldest`). `Outcomes` says how the
execution of a sequence of items may end, with an answer and an item that waits, or
none: at its first item (`EndsAt`), or as any of the sequences that the first item leads
to (`NextItems`). Only a START takes two moments (`Leave`): the old session is replaced
before the first item is known. The refinement mapping serves a request when its handler
has replied, or has failed and can but reply an error; the item that is yet to be synced
counts as waiting, and a session that is yet to be deleted as gone. A session without a
current item, which `Start()` leaves behind when the router fails, is no dialogue.
`Outcomes` uses what `UssdItems` says of each item, and has the whole loop of
`proceed()` with its deferred function in one place, where `UssdService` has them step
by step.

**SessionStore and RestSessions.** `SessionStore` is the promise of `ussd.Sessions` as a
server can keep it: a call takes effect at one moment between request and answer, and a
restart loses all sessions and fails the calls in progress. `RestSessions` takes the
handlers of `rest-sessions/main.go` apart where they touch shared maps: the lookup of an
update (`UpdLookup`), each value it writes (`UpdWrite`, in any order, as Go ranges over
a map), the store (`UpdStore`) and the encoding of the answer (`Encode`). A session in
the map is a copied struct whose data map is shared, hence `heap` and `ref`, with 0 for
the nil map of a session that was created without data. Go's runtime stops a program
when it notices concurrent use of a map: that outcome is a `Restart`. A POST or a PUT
whose body names another session than the URL does, or a time, is answered with an error
and changes nothing (`NewRefuses`, `UpdRefuses`; `Refused` in `SessionStore`); the
client of this repository never sends one, other clients may. The refinement mapping
lets an update take effect at its lookup: the abstract data of a session are the data it
has with what its handler has yet to write.

**MemorySessions.** A Go map is shared by all who hold it, so maps have places
in `heap`; `sessionByID` and the local session refer to them, and a new map takes
a free place. `New` takes the caller's map for data and changes, or makes one for
each when there is none (`NewEmpty`); `Get` hands out the stored map; `Sync` gives
the local session a new map for its changes and makes one for a session that is
not stored. The programs that keep this store call the engine from one goroutine,
so a handler begins (`New`, `Get`) when no other works; what it does with its
session is left to the items, which have it in their context. An abort deletes
without a local session. `rest` is what the session server would have stored
after the same calls, and `excused` marks the sessions for which the code gives
the two a reason to differ.

**UssdCodec and Ms.** A type in a message is absent, unquoted, empty, or a word:
one of the names or another stem, in upper or lower case, with or without one
more letter. That is what `UnmarshalJSON` and `Parse` can tell apart, slices and
conversions included. `Ms` has one action per way through `handleRequest`: the
returns with an error (`RefuseUnknown`, `RefuseMissing`, `RefuseInvalid`), the panics
(`Panic`, and an operation without results in `OperReturns`), and the call
(`CallOper`); `Reply` and `Die` are its deferred function. An instance declares the
operations of `program` first (`Handle`, which panics for a bad one) and then
subscribes (`Run`). A panic ends the process with the messages NATS has given it; the
reply that the deferred function hands to the NATS client in a panic may or may
not leave the process. A function has its
numbers of arguments and results, and whether its first argument is a context:
`Handle()` does not look at that (`ms/service.go:31`), `Call()` panics. `calls` with the
type it records, and `failed`, the messages whose operation returned an error, are
for the properties.

**RestUssd.** One handler per request with its unbuffered channel. `Respond` is
the rendezvous of responder and goroutine; the engine syncs only after it. Begin
and continue differ in the engine call only and share `handleUSSD`. The engine is
external, since `rest-ussd` calls an interface that `ussd/` no longer has, with the
outcomes that `ussd/user.go` gives: error, response, or neither.

**Console.** `main` is where the main loop is, `printer[d]` where the goroutine of
dialogue `d` is, `resChan[d]` its channel, `lines` what the reader of the terminal
and the signal handler wait to send. A send and its receive on an unbuffered
channel are one step (`Receive`, `Respond`). `asked` is what the screen last asked
for; a line keeps it, so that `Calm` can tell an answer from text that was typed
too early. `SetEnded` sets `ended` and calls `wg.Done()`: main reads the first before
it waits for the second, so nothing comes between. The engine is external here too.

**PcmFlow.** The items of `pcm.go` by their ids, with `deliver` as the function
that always fails ("NYI"), `profileGet` as one that finds nothing or fails
(`nats-ussd` sets no `msisdn` in the session) and `profileSet` as an item without
interface, because its `Exec` has another signature. Two final items of `pcm.go` have
the same id (`pcm_unblocked`); they are two items here, since nothing looks up a final item.

## 3. Runs

| Run | Shows | Bounds |
|---|---|---|
| `cluster` | `TypeOK`, `AtMostOneReply`, `StoreNeverAhead`, `RouterFindsCode`, `UserIsServed` under `FairSpec` | 2 instances, 1 subscriber, 3 requests, 1 fault |
| `single` | `InputReachesShownItem`, `PromptIsStored`, `IdleMeansNoSession`, `DryOnlyAfterPrompt`, `OnlyStartCreates`, `ImplementsDialogue` (refinement) | 1 instance, 2 subscribers, 4 requests, no fault |
| `pcm` | `PromptIsStored`, `ConfirmedOnlyIfSaved` on the shipped flow | 1 instance, 1 subscriber, 5 requests, all menu options |
| `rest` | `TypeOK`, `UpdatesKept`, `ImplementsStore` (refinement) | 3 clients, 2 sessions, 3 POSTs, 3 PUTs, 1 DELETE, 1 GET or refused call, 1 restart |
| `memory` | `TypeOK`, `StoresAgree`, `NewIsApart` | 2 sessions, 2 names, 2 values, 6 places for maps; any number of calls |
| `ms` | `TypeOK`, `ReplyFitsCall`, `HandledOnce`, `NoTypeMisread`, `RequestIsAnswered` under `FairSpec` | 2 instances, 2 messages of 21 shapes, 7 programs |
| `rest_ussd` | `TypeOK`, `StoredPromptIsAnswered`, `WaiterEnds`, `RequestIsAnswered` | 3 requests, 1 subscriber |
| `console` | `TypeOK`, `OneDialogueSpeaks`, `CalmDialoguesReturn` under `FairSpec` | 2 dialogues, any number of inputs |
| `race` | violates `InputReachesShownItem` | 2 instances |
| `cold` | violates `AnyInstanceContinues` | 2 instances, 2 requests |
| `rest_race` | violates `OnlyNewCreates` | 2 clients, 1 session |
| `pcm_series` | violates `NeverRunsDry` on the shipped flow | 1 instance |

Run one with `tlc -config cluster.cfg MCUssdService` (`MCPcm` for the `pcm` runs,
`Console` for `console`, `RestUssd` for `rest_ussd`, `MCRestSessions` for `rest` and
`rest_race`, `MCMemorySessions` for `memory`, `MCMs` for `ms`).

The flow of `MCUssdService` is small and has an item of each kind, two menus
that lead to each other, a router reached from a menu, prefixes and regular
expressions that match the same code, an option without items, a set that
deletes, a function that fails and an item without interface. Subscribers do not
share state but the queue of an instance, so one subscriber is enough where
instances race and two are enough where they share an instance. Three requests
are the shortest dialogue in which two of them can race with a third that is
later than both (START, input, and a second START or an ABORT); in `single` the
two subscribers have four between them, in `pcm` five reach the end of each
option and begin again. More than one fault adds no new situation for the
properties of `cluster`, whose theorems hold for any number.

The subscribers of `single` are symmetric (`MCSymmetry`): a subscriber occurs in the
state, the actions and the properties by name only, all of these are invariants or speak
of single steps, and the one `CHOOSE` is of the instance. `single` has no faults, since
a lost request or a dropped sync breaks what it states; it has one instance because of
the runs `race` and `rest_race`, only codes that the router knows, and aborts with a
text, because of the two paths on which `IdleMeansNoSession` is known to fail (below).
In `cluster` nobody dials a code that leads to a waiting service, which never answers
(`README.md:9`: "ItemSvcWait not yet used"). `UserIsServed` is promised with every fault
but those that lose a request with the one who was to answer it: a lost message, a
stopped instance, a panic.

In `console` two dialogues suffice for one to disturb the next. The user is not
restricted: `CalmDialoguesReturn` has its condition in the formula.

In `rest` the clients `c1` and `c2` update the session `s1` at the same time, each the
names that are its own, and the handlers of `c3`, which has `s2` to itself, are in
progress with theirs at every pair of places; bodies have values, nulls, both, and
nothing. The calls that change nothing, a GET and the refused ones, share a budget
(`Kinds`, `Paid`): one of them at a time sees what there is to see. Clients that share a
session do not get an atomic store (`rest_race`); `UpdatesKept` says what is left to
them when the session is created once, with data. (A session that was created without
data has a nil map, and two first updates of it lose one of the two: with such a body
for `s1`, `UpdatesKept` fails.) `ImplementsStore` is about the others.

In `memory` the calls are not bounded: the state space is finite, since maps that
nobody holds are collected. A handler needs two maps at most and one more in
between, the stored sessions one each, so six places suffice for two sessions
(`PlacesAssumption`). Two sessions let a map of one stray into the other.

In `ms` two instances suffice for a message to reach both, or for one to end and the
other to go on; two messages for one to wait behind another in an inbox. The programs
have operations with and without a request, a response and results, names in upper case
(those of `service.go:26`), a name declared twice, functions that `Handle()` refuses,
and one whose first argument is no context, which it accepts. The messages state each
type as printed, in lower case, with a letter too many, and not at all.

**Fairness** (`cluster`): weak fairness of each instance's handler
steps (the process is scheduled, or started again, and its calls return: a failed one
with an error),
of each phone's `Display` (the gateway shows what it has received) and of `UpdStores` (a
goroutine of the session server that waits for nothing more). Nobody
has to dial, answer or hang up. `rest_ussd`: handlers and
goroutines run, the engine's calls return unless the responder blocks, and the
timer fires. `console`: goroutines run and the engine's calls return; nobody has to
type. That run does not check deadlock, since the simulator stops when it is told
to, and also when it hangs (below). `ms`: processes run and operations return;
nobody has to send.

### What the violations say

* `race`: `proceed()` responds (`user.go:160`) before its deferred function syncs
  (`user.go:112`). An answer that another instance gets in between is given to
  the item before. `README.md:46` says that any instance can handle the session.
* `rest_race`: a PUT looks its session up, and a DELETE comes before it stores it
  (`rest-sessions/main.go:106`, `:137`): the session is back. In `UssdService`, an
  abort in one instance and a sync in another are two such clients, and with two
  instances `OnlyStartCreates` is false of the service too (put into `cluster.cfg`, it
  is violated without a fault). It holds of one instance whose calls do not fail, which
  sends no DELETE before its PUT is answered: the run `single` and `SpecOnlyStartCreates`.
* `cold`: `pcm.Item()` is called only for a START (`nats-ussd/main.go:104`), so
  `UserInput()` finds nothing in `itemByID` (`user.go:66`) in an instance that has not
  had one, be it new or restarted, though `README.md:6` says that instances can
  "continue in another instance".
* `pcm_series`: the items behind a prompt are dropped when `proceed()` returns,
  because nothing stores `next_item_ids`; the next input ends in "should have
  ended with final response!" (`user.go:186`). It concerns three of the seven
  options of the main menu.

More disagreements are in the same models, and have no run of their own:

* `IdleMeansNoSession` fails in `single` with the code `cUnknown` among `Codes`:
  `Start()` returns before `proceed()` when the router fails, and the session it
  has created stays ("end the session on error", `user.go:97`).
* It fails as well with `Nil` among `AbortTexts`: `handleRequest()` refuses a request
  without text before it looks at the type (`nats-ussd/main.go:91`), an ABORT too,
  though `README.md:44` gives RELEASE no text.
* In `rest-ussd` a response that comes after the 15 seconds blocks `Respond()`
  (`rest-ussd/main.go:150`), its handler and the sync behind it for ever, and the
  client is not answered at all. `RequestIsAnswered` of `RestUssd` without `res =
  timeout` shows it.
* `ms/nats/nats.go:186` assigns the error of an operation to a variable of the `if`
  statement, so the reply of a failed operation says success. `ReplyFitsCall` is
  what a consumer can rely on all the same, with or without that slip: it leaves open
  which of the two a failed operation is answered with.
* `ms/service.go:41` lets an operation omit its request, and `nats.go:182` panics for
  one, and for a function whose first argument is no context; so it does for a message
  without a provider (`:133`) and for an operation without results (`:186`), which
  `Handle()` accepts. (`Panic`, `OperReturns`.)
* No type of a request can be decoded from JSON (`request.go:72`, `:60`): each of
  two slips alone refuses the words that `MarshalJSON` prints. The theorem
  `NoWordDecodes` states it; an operation is called only for messages without a type.
* `ussd.NewService()` declares `REQUEST`, `RESPONSE` and `RELEASE`, and `Handle()` panics
  for names in upper case (`service.go:28`, `ms/service.go:20`).
* `New()` of the in-memory store does not replace the session that the id has, and a
  sync adds to it, though `service.go:12` says that "starting new session will
  delete any old session". `StoresAgree` without `excused` shows it.
* The console hangs when `UserContinue` fails or a prompt is left with an empty
  line: the main loop waits for the goroutine of the dialogue (`console.go:213`),
  which waits for the channel to be closed, or for the main loop to take its
  empty line (`:172`). Input that is typed right after a final response makes the
  main loop close the channel a second time (`:203`), which is a panic.
  The first shows in `CalmDialoguesReturn` without its condition, the second in the
  invariant `main # "panic"`.
* An ABORT is never answered (`UserAbort` publishes nothing), while `README.md:46`
  says "In all cases, the request is handled and a response is sent". No user
  waits for it, so `UserIsServed` is not concerned.
* `profileSet` has none of the interfaces of an item (`pcm.go:176`), so that no
  setting of the shipped flow can be changed. `ConfirmedOnlyIfSaved` in the run
  `pcm` shows that the user is not told otherwise.

## 4. Proofs

`UssdServiceProofs`, each for every flow, any number of instances, subscribers,
requests and faults:

| Theorem | States |
|---|---|
| `SpecTypeOK` | `Spec => []TypeOK` |
| `SpecRouterFindsCode` | `Spec => []RouterFindsCode` |
| `SpecStoreNeverAhead` | `Spec => []StoreNeverAhead` |
| `SpecAtMostOneReply` | `Spec => []AtMostOneReply` |
| `SpecDryOnlyAfterPrompt` | `FlowCloses({}) => (Spec => []DryOnlyAfterPrompt)` |

The assumptions of `UssdServiceProofs` are `NilAssumption`, `FlowAssumption`,
`ServiceAssumption` and `RequestAssumption`: a flow whose items
lead to items of the flow, whose sets, prompts and functions leave the engine's
own four session values alone, a `Nil` and a `NoSession` that are no values, and a
`NoRequest` that is no request. TLC evaluates them in every run.

None of the invariants is inductive, so `UssdServiceInv` strengthens them, in
layers, each proved from the ones before:

1. `TInv`: types, and what a handler knows at each place. That the router finds
   the dialled code rests on a chain: a stored session that has a current item
   has the code (`StoredOK`), a handler that got such a session has the code
   among the values it will set (`HasCode`: `NewSession` counts all data as
   changed), no item touches the engine's values, and so the next sync stores
   the code with the current item again. A sync whose session was replaced in the
   meantime writes both into the new session, which is why the code must be in
   the *changes*, not only in the data. What the server has yet to store for a PUT is
   as good as what it has (`StoreOK`).
2. `SInv`: the item a handler is about to sync was sent to its subscriber
   (`SyncShown`), and so was that of a session the server has yet to store
   (`PutsShown`). It needs the response before the sync, the very order that
   `race` shows the price of.
3. `RInv`: reply addresses are distinct among the requests on their way and in
   handlers (`Distinct`), and a request whose handler may still answer was not
   answered yet (`Unanswered`).
4. `FlowInv(Guarded)`: the items in the loop end in one that answers, waits or fails,
   and one of `Guarded` is only behind an item without interface; when there are none
   left, a prompt has taken the input. It needs of the flow that each sequence a
   router or a menu gives is so (`FlowCloses`); the flows of the runs are.

Per layer there is one lemma for each action, or for a group of actions that
leave the layer's variables alone; the temporal theorem combines them.

`UssdSingleProofs`, for every flow and any number of subscribers and requests, under
the hypothesis `Alone(the)`: there is one instance, and there are no faults
(`race`, `rest_race` and `UssdService`'s faults show that neither can be dropped):

| Theorem | States |
|---|---|
| `SpecInputReachesShownItem` | `Spec => []InputReachesShownItem` |
| `SpecPromptIsStored` | `Spec => []PromptIsStored` |
| `SpecPutInv` | `Spec => []PutInv` |
| `SpecOnlyStartCreates` | `Spec => OnlyStartCreates` |
| `SpecIdleMeansNoSession` | `Tidy => (Spec => []IdleMeansNoSession)` |
| `SpecDialogueInv` | `Spec => []DialogueInv` |
| `SpecImplementsDialogue` | `Spec => ImplementsDialogue` |

`Tidy` excludes the two paths on which `IdleMeansNoSession` is known to fail: a code that no
router knows, and an ABORT without a text. The invariant `SingleInv` rests on
`TInv` and `RInv` and follows one subscriber while the handler serves another: the
dialogue is either at a prompt (`AtPrompt`) or over (`Over`), be it in the session
server or in the handler that has yet to sync or delete; and each of the places
where a request can be agrees with that. An answer in the inbox is the
subscriber's first request there and is for the prompt the dialogue is at
(`AnswersOK`); a user who waits waits for the latest request (`LatestOK`); a reply
that the phone has yet to show says how things are already (`RepliedOK`); a user
who has hung up has an ABORT behind all other requests (`IdleOK`). The step of a
handler from "responded" to "synced" is what keeps `AnswersOK`: the instance does not
take the answer before it has synced. A handler that waits for its PUT holds nothing
any more (`Holds`): by `PutInv`, what the server has yet to store is what it has, so
`UpdStores` changes nothing. That is `OnlyStartCreates` as well.

The refinement needs `DialogueInv` besides. `OrderOK`: the requests are in the inbox
in the order in which they were sent, and the handler's is older than all of them,
so that the one it serves is the `Oldest`. `TaskOK`: what the handler is at is for
its request, its local copy has the code that the dialogue was begun with, and every
outcome of the items still in its loop is one of the items that the request asked for
(`LeadsTo`). Each step of the loop keeps that by `OutcomesStep`, the equation of
the recursive function `Outcomes`. That there is a solution for `CHOOSE` to find, even
for a flow whose routers lead to each other for ever, is proved from the least family
of sets that is closed under the equation; a theorem on induction is not needed.
For such a flow the equation has other solutions too, and `Outcomes` may be any of them,
but the handler would never reply either. The proof then has one lemma for each action
(`...Next`): an action that replies, or after which the handler can but fail, is
a `Serve` of the dialogue; `StartNew`, which replaces a session, is its `Leave`; a
request sent is its `Ask`; all others leave what the mapping sees unchanged.

`RestSessionsProofs`, for any clients, sessions, names, values, bodies, calls and
restarts (`RestAssumption`: clients call for sessions, bodies are bodies, and the
model values are distinct):

| Theorem | States |
|---|---|
| `SpecTypeOK` | `Spec => []TypeOK` |
| `SpecImplementsStore` | `Spec => ImplementsStore` |
| `SpecUpdatesKept` | `MadeOnce => (Spec => []UpdatesKept)` |

(`PutIsRestSync`, beside them, is about the data alone: what the server makes of the
body of a PUT is what `RestSync` says.)

The second is the refinement of `SessionStore`. Its invariant: no data map is of two
sessions, neither in the map of sessions nor in two handlers (`Apart`), so a
handler's writes cannot reach the session of a client that keeps to itself
(`AloneKept`); and an update that is halfway has in its data what it has written,
and its session is still where it was looked up (`Halfway`). The subtle case is a
session created without data: the server's copy of the struct has a nil map, the
handler makes a new one, and the two agree only on what the body does not name
until `UpdStore`. Arrivals, lookups, creations, deletions and answers are steps of
the store, the writes, the store and the encoding are stutters, as are all steps
of clients that share sessions.

`MadeOnce` says in terms of `Budget` what the run `rest` has: a session that clients
share is made once, with data, and not deleted. Then it stays in its place once it
is there (`OnceOK`), an update that comes to its end stores what it looked up, and the
writes of another handler have other names (`KeptOK`).

`MemorySessionsProofs`, for any sessions, names, values and calls, with places enough
for their maps (`PlacesAssumption`):

| Theorem | States |
|---|---|
| `SpecTypeOK` | `Spec => []TypeOK` |
| `SpecStoresAgree` | `Spec => []StoresAgree` |
| `SpecNewIsApart` | `Spec => NewIsApart` |
| `SessionCoherent` | `NewSession`, `Set`, `Del` and `SetAll` keep a session `Coherent` |
| `SyncsAgree` | `Coherent(s) => RestSync(d, s) = MemorySync(d, s)` |

The first needs `FreePlace`: by their number, the stored sessions and the local one
leave a place for each new map. `StoresAgree` speaks of the sessions that no handler
works on, so the invariant `MemInv` has to say of the others what will make them
agree. Two sessions have no map in common, and the local session shares one with
its own stored session at most, and only if `Get()` has handed it out (`Apart`,
`Placed`): hence a `Set()` changes no other session, nor one that `New()` is about to
replace. A local session is coherent, that is, a name to delete is not also one to
set, and the two stores may differ only in what its changes set or delete
(`Follows`): hence they agree after the next sync, though the memory deletes first
and the session server last (`SyncsMeet`). `unsynced` tells when they may differ at
all, which is what the next handler finds if this one leaves without a sync.

`RestUssdProofs`, for any number of requests and subscribers (assumption
`NoneAssumption`: no request is called `None`):

| Theorem | States |
|---|---|
| `SpecTypeOK` | `Spec => []TypeOK` |
| `SpecStoredPromptIsAnswered` | `Spec => []StoredPromptIsAnswered` |

The invariant adds what a waiting goroutine and its handler know of each other
(`Waits`) and that a prompt in progress was handed over (`Prompts`).

`PcmFlowProofs`, for the shipped flow (`ShippedFlow`, `ItemsAssumption`), any number of
instances, subscribers, requests and faults: `PcmFlowCloses` shows
`FlowCloses(Confirmations)`, option by option, and `SpecConfirmedOnlyIfSaved` and
`SpecPcmDryOnlyAfterPrompt` follow from the fourth layer.

`ConsoleProofs`, for any number of dialogues and whatever is typed
(`ConsoleAssumption`):

| Theorem | States |
|---|---|
| `SpecTypeOK` | `Spec => []TypeOK` |
| `SpecOneDialogueSpeaks` | `Spec => []OneDialogueSpeaks` |

The invariant says of a dialogue that main has left (`Left`) that its goroutine is
done, or waits for ever for a response, on a channel that nobody closes: which of the
two, depends on whether main closed the channel before it left.

`MsProofs`, for any instances, programs and messages (`CodecAssumption`,
`MsAssumption`):

| Theorem | States |
|---|---|
| `NoWordDecodes` | `ASSUME NEW w \in Words PROVE Unmarshal([kind \|-> "word", word \|-> w]) = NotDecoded` |
| `SpecTypeOK` | `Spec => []TypeOK` |
| `SpecReplyFitsCall` | `Spec => []ReplyFitsCall` |
| `SpecHandledOnce` | `Spec => []HandledOnce` |
| `SpecNoTypeMisread` | `Spec => []NoTypeMisread` |

A message is in one place at a time (`Places`, `Distinct`): not sent, in one inbox
once, or in one task. One that was not received is untouched (`Untouched`); one
that is being handled has been called exactly from `oper` on, its `err` is set only by
a return before the call, and its `res` only after a call that did not fail
(`Progress`); an operation was only ever
called without a stated type (`Absent`, from `NoWordDecodes`).

Only model-checked: liveness (`UserIsServed`, `RequestIsAnswered`, `WaiterEnds`,
`CalmDialoguesReturn`), which is out of the reach of the proof system, as are `ENABLED`
and induction over data.

## 5. Not modelled, and what is left

Left to do, in this order:

1. `UssdDialogue` with failed calls and restarts, as what a subscriber can still rely
   on then.
2. The `ms` framework with the operations of `ussd/service.go`, when these exist.

Left out: the queries of the profile database (I/O; only that it cannot be reached is
modelled), logging, texts and rendering, configuration, TLS, the times of a session, the
handlers of `ussd/service.go` and the `soscredit` and `simple1` examples (unfinished, no
behaviour defined), the echo of a request and `handleReply` of `ms/nats` (nothing fills
`replyChannels`, so it discards what it gets), and the type of a response, whose code is
that of a request's. A session server that never answers a call is not modelled: a call
succeeds or fails. Which handler an HTTP request is routed to is left to the router
library (the abort of `rest-ussd` has the route of its begin, see `hazards`). Reading of
messages that are not JSON is the same as any other invalid request and is represented
by a request of unknown type.
