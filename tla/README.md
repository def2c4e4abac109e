# Liverail in TLA+

Liverail is a contract-first realtime framework in TypeScript. An application
declares commands, events, channels and policies once (`packages/contracts`);
a server runtime executes commands, keeps channel membership and emits events
(`packages/server`); a client runtime calls commands, subscribes to channels and
dispatches events (`packages/client`); both have a Socket.IO adapter. This
directory holds TLA+ models of the parts where things happen in an order that no
test fixes, TLC configurations that check them, and TLAPS proofs of what matters
most.

Short names of the files most of the models come from:

| Name | File |
| --- | --- |
| SR | `src/packages/server/src/runtime/index.ts` |
| SA | `src/packages/server/src/socket-io/index.ts` |
| CR | `src/packages/client/src/runtime/index.ts` |
| CT | `src/packages/client/src/socket-io/index.ts` |
| PO | `src/packages/contracts/src/policy/index.ts` |
| CH | `src/packages/contracts/src/channel/index.ts` |

`PROJECT.json` maps every definition of a model to the lines it translates.

## 1. Inventory

The program runs in single-threaded event loops, one per process. What
interleaves is asynchronous functions: between two `await`s a function runs
alone, at each `await` anything else may run. A step of a model is therefore what
a handler does between two awaits.

| Component | State it keeps | Operations | Talks to | What is hard | What makes it correct | Model |
| --- | --- | --- | --- | --- | --- | --- |
| Server channel membership (SR 1507–1723) | `channelMemberships` (channel to bucket, member to membership), `activeChannelInstances` | `joinChannel`, `leaveChannel`, `listChannelMembers`, `inspectRuntime` | policies, authorizer, lifecycle hooks (all awaited); event emission reads it | calls of one channel overlap at every check and hook; a failed `onJoin` is rolled back through a bucket captured before the await | no empty bucket and no lost channel; only admitted members; a leave or a rollback touches its own member; `onLeave` once per membership | `ServerChannels` |
| Server event emission (SR 1086–1277, 1491; deliverer SA 474) | none of its own; a call's report | `emitEvent`, `emitEventReport` | router, receive policies, deliverer (awaited), membership | members come and go and other emissions run while policies and deliveries are awaited; half-way failures | everybody in the audience is served or denied once; nothing without all policies; the report says what was received | `EventEmission` |
| Command pipeline (CR 606, 1377; CT 385; SA 495; SR 1395) | pending promise, timer, abort listener; a request on the wire; a running pipeline | `executeCommand` on both sides | all four files | timeout against late answer, abort, lost sessions, buffered requests, destroy; the two sides go on without each other | at most one run and one settlement; guarded handlers; nothing left behind; timed calls settle | `CommandCall`, `CommandErrors` |
| Contracts, schemas and errors of a command (registry, command, errors and schema of `packages/contracts`) | the two registries; none over time | `createContractRegistry`, lookup, `parseSchemaValue`, the normalization of errors in each layer | the command pipeline of both sides | user code throws anything anywhere; an input is normalized on both sides; four layers turn errors into codes | a handler sees valid input only; the code a caller gets is true of what the handler did | `CommandErrors` |
| Client channel subscriptions (CR 445–538, 692–879, 1012) | `channelSubscriptions`, `channelOperationChains` | `subscribeChannel`, `unsubscribeChannel`, resubscription, `destroy` | transport (awaited), connection receiver | chains of operations per key, reconnects that add to them, late answers, destroy in the middle | operations of a key are serialized; client and server agree at rest; subscriptions survive reconnects | `ClientSubscriptions` |
| Socket.IO server adapter (SA) | `contextBySocketId`, `socketHandlersBySocketId`, `joinedChannelsBySocketId`, Socket.IO rooms, `isDisposed` | connection middleware and handler, command, join and leave requests, disconnect cleanup, `dispose` | server runtime (awaited), Socket.IO | close or dispose in the middle of setup or of a request; overlapping requests; failing room joins; failing hooks in a cleanup | rooms, record and membership agree; a closed socket leaves nothing; who was connected is disconnected | `SocketIoAdapter`, `CommandCall` |
| Socket.IO client transport (CT) | the socket | send command, subscribe, unsubscribe, bind receivers, dispose | client runtime, Socket.IO | requests buffered while offline, acknowledgements lost with their session | as above | in `ClientSubscriptions`, `CommandCall`, `ClientConnection`, `ChannelAddressing` |
| Client event reception (CR 880–1010, 1197–1275) | `eventListeners`, `eventAppliers` | `onEvent`, `registerEventApplier`, their cleanups, dispatch | user callbacks, called synchronously | a callback or the error hook registers, cleans up, throws or destroys in the middle of the dispatch that called it | who stays is called, who was cleaned up is silent | `EventDispatch` |
| Client connection lifecycle (CR 547–558, 921–952, 1060–1190; CT 228–276) | `connectionState`, `shouldResubscribe`, listener sets | transport notifications, `onConnectionState`, `onSystemEvent`, `destroy` | user callbacks, called synchronously | a listener closes the socket or destroys the runtime, so that transitions nest; the flag that asks for resubscriptions outlives attempts and failures | listeners end up with the current state; no loss is forgotten; a destroyed runtime looks disconnected | `ClientConnection` |
| Policies (PO; SR 1951–2046) | none; the evaluations under way | `andPolicy`, `orPolicy`, `notPolicy`, evaluation | user evaluators (awaited) | early exits inside one another, reasons that are kept, overruled or inverted, throws, parts of another scope | the verdict is the Boolean value; nobody is asked in vain or out of scope; the reason is the first cause | `PolicyComposition` |
| Channel identifiers (CH; uses in SR, SA, CR, CT) | none; the keys in five maps | `createChannelInstance`, `stringifyChannelInstance`, room names, routes | subscriptions, memberships, rooms, audience | each side makes its own instance of what it gets, and normalizes what was normalized | all sides name one channel; an event finds its subscription | `ChannelAddressing` |
| Contexts, diagnostics, the typing of contracts | immutable | constructors | everything | nothing over time | | not modelled: freeze records, warn on the console, exist for the type checker |
| `example-app`, `scripts`, `docs` | | | | | | not modelled: demonstration, build and documentation |

The hazards of each component, at the line where they bite, are listed in
`PROJECT.json` with the properties aimed at them.

## 2. Modules

    ChannelRoster  <---- implemented by ----  ServerChannels  <-- extended by --  SocketIoAdapter
          ^                                         |                                   |
          | extended by                      MCServerChannels                   MCSocketIoAdapter
     EventEmission -- MCEventEmission                                         SocketIoAdapter_proofs
          ^
          | extended by
     EventEmission_proofs  -- extends -->  SequenceFacts

    CommandContract  <-- implemented by --  CommandCall  <-- extended by --  CommandErrors
                                                                                  |
                                                                        CommandErrors_proofs

    EventDispatch     <-- extended by --  EventDispatch_proofs     -- extends -->  SequenceFacts
    ClientConnection  <-- extended by --  ClientConnection_proofs  -- extends -->  SequenceFacts
          |
    MCClientConnection

    ClientSubscriptions  <-- extended by --  ClientSubscriptions_proofs

    ChannelAddressing  \
                        extended by --  Contracts_proofs  -- extends -->  SequenceFacts
    PolicyComposition  /

### ChannelRoster and ServerChannels

`ChannelRoster` says what the runtime promises about membership in three
actions: a fresh join enters, a member leaves alone, and — only where `MayEvict`
allows it — a whole channel is dropped. `ServerChannels` is the code. A JavaScript
`Map` that serves as a bucket is an object with an identity: `buckets` is indexed
by the join that created the object, `channelMemberships` says which object a
channel has now, and `captured[k]` is the reference that join `k` holds over its
await. This is the whole point of the module; a model with one set of members per
channel cannot express the rollback through a stale bucket.

| Model | Code |
| --- | --- |
| `JoinChannel`, `CheckAllows`, `CheckRefuses` | `joinChannel` up to a policy or the authorizer, and after it; a policy or authorizer counts as one of `JoinChecks[c]` |
| `StoreMembership` | the synchronous part after the last check, SR 1584–1605 |
| `OnJoinSucceeds`, `OnJoinFails` | the awaited hook and its `catch` with the rollback, SR 1605–1620 |
| `LeaveChannel`, `OnLeaveSettles` | `leaveChannel` up to its hook, and the hook |
| `RejectInvalidRequest` | missing options, unknown contract, invalid key |

Join and leave policies that the code evaluates one after the other are counted,
not named: which one denies makes no difference to the store.

### SocketIoAdapter

Extends `ServerChannels`: sockets are the members, and each runtime call a handler
awaits takes the steps of that module, so hooks and checks interleave with the
adapter's own awaits (`socket.join`, `socket.leave`, `onConnect`,
`onDisconnect`). `packet` is an inbound request with its stage, `cleanup` a run of
`cleanupSocketIoConnection`. External facts about Socket.IO: a closed socket is in
no room and joins none; its rooms are left when it closes; an event with no listener is
dropped. `CleanupLeave` runs the first leave as a step of its own, although the code reaches it in the turn of
the disconnect event; that only adds interleavings. `AdapterInit` is an adapter on a
fresh runtime. Setup awaits the context resolver ("building"), the connect policies
("authorizing") and `onConnect` ("notifying"). The application's resolver may return
`undefined` (`undefinedContexts`); the map then has an entry whose value the cleanup takes
for none (`HasContext`), a test of the value where the others test the entry. A malformed
request is answered and changes nothing (`RefuseRequest`). After `dispose()` the middleware is gone, so a new
connection is accepted by the namespace with nobody to serve it (`MiddlewareRemoved`).

`Faults` names what clients and operators may do at awkward moments. The history
variable `disturbed` collects the sockets and channels to which that happened; no
action reads it. The passing run allows all faults and asserts everything about
the undisturbed ones; what the faults do is described in section 5.

### ClientSubscriptions

`ops[key]` is the list of operations ever started on a key, with the promise
(`stage`) apart from the request (`wire`): that separation is what a timeout needs.
`channelOperationChains` holds the index of the operation to wait for. A
resubscription that failed is "announcing" while the error hook and the listeners of
`join_failed` run: it is still in the chain, and nothing runs in the client but what
they call. An operation settles in the step that runs its continuation and the `finally` of its
chain entry, which are microtasks of one turn. Buffers are flushed by a connect, and what a
broken session had under way is lost. The server is `SocketIoAdapter` seen from one socket
and shortened: a request takes effect in the step that answers it (`ServerGrants`,
`ServerDenies`). A denied join of a member keeps or removes the membership: a policy
refuses before the store is touched, while a failed hook rolls back, and a failed
`socket.join` leaves, the membership that the join has replaced (SR 1603–1611, SA 568–578).
Requests of one key that the server handles at once are answered in any order (`reorder`);
all but the last were given up or belong to a destroyed runtime, so that nobody sees their
answers and one order of their effects stands for their interleaving. `attached` is the server's side of connection
setup: `Miss` drops a request that arrives before `connectionHandler` registered its handlers. `Faults` and the history
variable `strayed` play the roles they play in the adapter.

### EventDispatch

One event name (names do not interact), any mixture of appliers and listeners.
A `Set` object is named by the registration that created it, so that a dispatch
can hold one that is no longer in the map. `UserCode` says when user code runs: between
events, inside the callback on the stack, or inside the error hook that is told of a
callback that threw, of a stray event or of an invalid payload (`running` is one of
`Entries` or one of `Reports`). An applier settles when its next state is stored;
`since` remembers what the properties compare the dispatch with. `Receive` may happen
after `Destroy`: a transport without an unbind function still calls the receiver. A
nested delivery (a callback that makes the transport deliver) is left out.

### EventEmission

Extends `ChannelRoster`: `ServerChannels` implements that roster, so what holds of
emission over the roster holds over the store. A route is for a channel, for one
member of a channel, for a socket, or one that the deliverer cannot use.
`RouterReturns` reads the roster once and fixes the plan in some order of each bucket
(a rejoin keeps its place in a JavaScript `Map`, an eviction does not; any order is
allowed): a channel route becomes one `MemberScoped` delivery per member. Then each
policy and each delivery is a step. The deliverer is the Socket.IO one: it emits to
the recipient's socket synchronously, with the channel that the client is to find its
subscription by (`TransportChannel`), and throws for a route it cannot serve.
`audience` and `allowed` are history.

### ClientConnection

`stack` holds the transitions under way: a listener may close the socket, whose
`disconnect` is notified before the call returns, or destroy the runtime, so that a
transition starts inside the loop of another. Each frame has the copied list it
still has to call, and what runs: a listener, or the error hook, which hears of a
listener that threw and, before anybody else, of a failed connection ("report").
`ReceiverRest` is the code of the receiver after `onConnectionEvent` returned, whatever
happened meanwhile. Whether the transport can be unbound is chosen once; `up` is the
transport's own state. `DestroyThrows` is a transport whose `unsubscribeChannel` throws
out of `destroy()`. That a subscription is stored or not is one flag, changed between
transitions; which operations lead to it is in `ClientSubscriptions`. `history` is what
the properties read: the state each connection listener was last told, and whether a
loss left a subscription owed.

### PolicyComposition

The policy to evaluate is chosen in `PolicyInit` from all compositions of depth two that
can be built (`Compositions`): `ScopesAgree` is what `resolveCompositionScope` checks of
the parts and of an override, and a mixed composition throws before there is a policy.
`stack` holds the evaluations that await one another, the innermost last, and `returned`
the result that an `await` is about to deliver. A leaf allows, refuses with a bare
`false`, denies with a reason (named by the path to the leaf) or throws. `Holds` gives the
Boolean meaning from the tree alone, without order and without early exit: a path is at
most two steps long, so the parts, the leaves and their values are written out by its
length (`PathsIn`, `PartAt`, `HoldsAt`), with no recursion. `Values` are the answers that
the leaves not asked might have given. `CausesAt` says which denials count against a part:
no `notPolicy` on the way, and a value of the others under which this leaf's consent would
have let the part allow. `Decide` is the runtime's use of a result.

### ChannelAddressing

Here a key schema is data: `Init` takes any function from keys to keys or
`Invalid`, so all schemas over three keys are checked, those that merge keys, reject
some, or change a key again when it is normalized twice. A key stands for the
instance, its id and its room, since name and serialized key tell them apart. The
client asks with its own instance; `Join` applies the schema again (the runtime),
`Leave` twice more (adapter and runtime), the cleanup once more to what was recorded;
`Route` takes a key as it is, as `createSocketIoChannelRoute` does. Handlers are one
step and nothing but a check fails in them: `SocketIoAdapter` models their
interleavings and failures, without the keys.

### CommandContract and CommandCall

`CommandContract` is the promise in three actions: the handler of a call runs at
most once, a call settles at most once, and resolves only after its handler ran.
`CommandCall` is the way there and back through CR, CT, SA and SR, with a promise,
a place of the request or answer (`wire`) and a place of the server's pipeline for
each call, each able to go on without the others. `Destroy` disconnects only a
socket the transport made itself; both cases are allowed. A call is timed,
abortable, both or neither.

### CommandErrors

`CommandCall` only tells answers from errors; this module gives each of its actions
the values and codes. `registry` is what `createContractRegistry` made of any two lists
that it accepts; `schema` is any function from inputs to inputs, to "invalid" or to a
realtime error it throws itself, and both sides run it: `Sent` is the client's result,
which the server parses again. `errorCode` is the code of the error on the wire, `seen`
the code the caller was rejected with ("TypeError" for the refusals that come as one).
User code may throw a realtime error with a code of its own, which every layer passes
on (`Normalized`); `threw` remembers whether that was before or after the handler
began, because then the code means what that code means by it. Every action names one
of `CommandCall` as a conjunct, so the layer refines it.

## 3. Runs

| Run | Config | Shows | States |
| --- | --- | --- | --- |
| `channels` | `MCServerChannels.cfg` | the store's invariants and its refinement of the roster | 1.7 M |
| `channels_rollback` | `MCServerChannelsRollback.cfg` | counterexample: a failed `onJoin` empties a channel others joined meanwhile | |
| `subscriptions` | `ClientSubscriptions.cfg` | serialization per key, nothing after destroy, agreement at rest; stored subscriptions become real on a connection that stays up | 789 k |
| `reconnect` | `ClientReconnect.cfg` | counterexample: an unanswered resubscription is dropped by its timeout | |
| `adapter` | `MCSocketIoAdapter.cfg` | rooms, records and membership agree; disconnect frees everything; who was connected, with a context other than `undefined`, is disconnected | 2.5 M |
| `adapter_close` | `AdapterGhostMember.cfg` | counterexample: a member that is gone for ever stays | |
| `events` | `EventDispatch.cfg` | re-entrant callbacks and hooks rob nobody of an event, cleaned-up ones stay silent | 3.9 M |
| `emission` | `MCEventEmission.cfg` | complete reports, no delivery without every policy, audience covered | 361 k |
| `command` | `CommandErrors.cfg` | at-most-once contract, guarded handlers on valid input, truthful codes; timed calls settle | 1.3 M |
| `connection` | `MCClientConnection.cfg` | nested transitions leave listeners current, losses remembered, a destroyed runtime disconnected | 6.0 M |
| `policies` | `PolicyComposition.cfg` | early exits are sound, spare what they can and ask no part of another scope; reasons are first causes | 132 k |
| `addressing` | `ChannelAddressing.cfg` | all sides name one channel under idempotent schemas, owed events arrive under any | 389 k |

Every run turns deadlock checking off: all these systems may stop, when the calls
are used up and everything has settled. Each passing property is also violated by a
mutant of the code, an operator commented `Mutant:` in the modules, which
`PROJECT.json` pairs with the definition it replaces.

### Bounds, and why they are enough

- `channels`: two members on two channels (one without checks, one with two) and
  four calls. A stale bucket needs a join that waits in its hook, a leave (or second
  rollback) that empties its bucket, and a join that makes the next one: three
  calls; the fourth is a bystander. The proofs cover every other instance.
- `adapter`: one socket, two channels, three requests, one check per channel. Two
  channels so that the cleanup loop goes on after a failing hook; three requests
  so that a request meets one in hand and one before it. Eight runtime calls is
  what three requests and a cleanup can use at most. Sockets meet only in the
  runtime store, which `channels` checks with two members; the same properties also
  held with two sockets, two channels and two requests (790 k states).
- `subscriptions`: keys have separate chains, so one key; three calls give a queue
  behind an operation in flight, three sessions a resubscription of a
  resubscription. The counterexample `reconnect` needs one call and
  two sessions.
- `events`: four registrations over two listener functions and two events: an
  applier, a victim before it, a victim after it, and a newcomer that gets a fresh
  bucket; the second event shows what the first left behind.
- `emission`: one emission of at most two routes (the same channel twice
  included) over two members with three joins and two policies. A second emission shares no state
  but the inboxes, in which entries carry their emission; the proofs are for any number.
- `command`: two calls, one timed and one abortable; two checks, so that a policy
  precedes the authorizer; two sessions: a call that spans a reconnect. Two values are
  enough for a schema that changes what it changed, lists of two contracts for a
  duplicate, and one code that user code throws for an error that is mistaken for one of
  the pipeline. The proofs cover every other instance, at any number of calls and codes.
- `connection`: two listener functions (interchangeable, hence the symmetry) and two
  registrations: one listener that acts and one that is called after it. Four
  notifications: a loss, a failed attempt, a connect, and a loss inside that connect.
- `policies`: depth two puts each composition inside each other one, with a part before
  and a part after the one that decides; two scopes are enough to disagree. The proofs
  cover every width and any scopes.
- `addressing`: three keys are enough for a schema that maps one key to another and
  that to a third; four calls are a subscribe and an unsubscribe twice; two events,
  so that one overtakes what the other met.

### Fairness

- `ClientSubscriptions!FairSpec`: weak fairness of `Attach` and of each operation's
  next step. Timers are on by default (15 s, CR 62–63), so an operation that waits
  is settled; promise continuations run; the server's handlers answer, because
  policies and hooks are assumed to return. Nothing forces a connect: the property
  is about a connection that stays up.
- `CommandErrors!FairErrorSpec`: weak fairness of `TimeoutRejects` alone, since
  `setTimeout` fires. Neither network nor server nor handler is trusted to do anything.

The other specifications state no fairness: they are about safety.

## 4. Proofs

`SocketIoAdapter_proofs` (with the facts about `ServerChannels`), `CommandErrors_proofs`
(with the facts about `CommandCall`), `EventDispatch_proofs`, `EventEmission_proofs`,
`ClientConnection_proofs`, `ClientSubscriptions_proofs` and `Contracts_proofs` (channel
addressing and policies, which share nothing) hold what TLAPS checks, for every value of the constants under the assumptions named in
the modules (`JoinChecks` are naturals, `None` is no call and no member, `Timed` and
`Abortable` are sets of calls, the command has a name, inputs are no codes, callbacks,
reports and `None` differ, `Members` is finite, `Invalid` is no key, "none" is a scope, a
composition may have a part, bounds are naturals).
`SequenceFacts` holds the lemmas on sequences they use: what `RemoveFirst`, `Append`,
`Tail`, `\o` and `FlattenSeq` do to the set of elements. Its `SmallestNat` takes the least
number from the library's theorem on well-founded relations, whose parameter is a
relation and no operator; with it, `FlattenExists` and `Flattened` argue about the
recursive function inside `FlattenSeq` by the shortest prefix that could go wrong.

**Membership.** `IInv` holds in every reachable state (`Invariance`), and from it
follow `TypeCorrect`, `ActiveChannels`, `Admission`, `Rollback`, `LeaveHooks` and
`Refinement`. None of these is inductive alone. The argument is about object
identity: `StoredByAdmittedJoin` — a call has stored something only when its
checks had passed, and remembers which; `BucketOfOneChannel` — a bucket serves the
channel of the join that created it, so a rollback through an old bucket cannot
reach another channel; `EntryIsStored` — an entry is the membership of a join that
stored it in that very bucket and was not rolled back; `CurrentBucket` — the
bucket in the map was made for its channel and is never empty, which is exactly
what the rollback has to keep when it works on a stale bucket and what makes "channel
listed" equal "channel has members". The refinement maps each step to `Enter`,
`Exit`, `Evict` or a stutter; `Evict` is needed only for `OnJoinFails`, which is the
finding `channels_rollback` seen from above.

**Adapter.** Every step of `SocketIoAdapter` is one of the runtime below it or leaves the
runtime alone (`StepBelow`), so `AdapterUsesRuntime` brings all results on membership
along, the refinement of the roster included. What room, record and membership have to do
with one another while requests are under way is `AdapterIInv`, on top of `IInv`. The three
agree for a socket and a channel without a request (`RecordsFollowRequests`); with one,
`HalfJoined` says how far it got, which takes the state of the runtime call that the
handler awaits, so `OwnsCall` has to tie the two: the call is of the handler's operation,
channel and socket, and no other handler's. Conversely an unsettled join has its handler
(`HasOwner`): if a runtime call could go on without one, a hook that settles would enter or
drop a membership that nobody records. `OneRequestInHand` is what the fault "overlap"
breaks. For a socket that closed, the memberships that are left are in the hands of its
cleanup, and `ConnectionLifecycle` says when there is one: a connection is ready exactly if
its handlers are registered or its cleanup began. `RoomsAgree`, `ClosedLeavesNothing` and
`DisconnectsMatchConnects` are what that leaves of a socket at rest. TLC checked
`AdapterIInv` on the instance of the run `adapter` and with two sockets before it was proved.

**Commands.** `IInv` adds to types `PlacesAgree` — nothing is in the server's
pipeline before the request was sent, an ack on the wire means the handler ran, the
pipeline's stage decides whether it has — and `ChecksInOrder` — the checks before
the awaited one allowed the call. From these follow `Guarded`, `NothingLeft` and
`Refinement`: since `Arrive` consumes a request that nothing sends twice, a handler
cannot start again, and since a resolution consumes an ack, it comes after a run.

**Codes.** `CommandErrors_proofs` rests on the layer below: `StepBelow` shows each of its
steps to be a step of `CommandCall` (`LayerRefinement`), so the invariant and the
refinement of `CommandCall` carry over (`ErrorGuarded`, `ErrorRefinement`).
`ErrorIInv` adds what relates a code to the pipeline: what was sent passed the client's
schema (`SentWasValid`), what is checked or runs passed the server's (`ArrivedWasValid`),
a refused call is done with on the server (`SeenIsFinal`), and the code on the wire is
already as true as the one that is seen (`WireIsTruthful`): truth has to be shown where
the code is made, since the caller learns it later, while the pipeline may have gone on.
The proof goes call by call (`Fine`): a step touches one call, and the schemas and
registries never change. `Truthful`, `ValidInput` and `ErrorTypeCorrect` follow.

**Dispatch.** `StayersCalled` and `CeasedSilent` are not inductive: the one says
something only when the dispatch is over, the other only while a callback runs. `IInv`
of `EventDispatch` relates what the maps hold to who is registered (`EntriesAreActive`,
`ActiveAreEntries`), since that is what an event captures, and says of the captured
entries that each had an owner when the event arrived (`TodoIsFresh`) and of each owner
who stays that its entry is settled, on the stack or still to come (`StayersAreAwaited`).
The hard step is `Cleanup` in the middle of a dispatch: it edits the captured `Set` of
listeners, and takes an entry from another registration only when the two share it.
`BucketsAreOwn` is what keeps an edit of one map from showing in the other. TLC checked
`IInv` on the instance of the run `events` before it was proved.

**Emission.** Emissions share nothing but the inboxes, so the invariant is about one
of them and its part of each inbox (`InPlan`, `AskedAllowed`, `PlanCovers`,
`PlanIsAsked`, `BoxesHold`) and `OnlyAllowedIsReceived` about all:
policies that allowed are on record before the deliverer emits, for the very index it
emits (`ContinueArrives`). `PlanCovers` is established once, when the router returns, by
`PlanFacts`: an order of a bucket names each of its members because an injection of
`1..n` into `n` members hits them all (`BucketFacts`). From then on the plan does not
change, and a report that has passed its end has passed every member
(`AudienceCovered`). `Received` is the invariant of a box: it holds, once each, in the
order of the plan and under its own channel, what an emission has emitted to that
member (`EmittedOf`: the delivered, and the one whose promise is pending). An arrival
leaves the other emissions' part of a box alone and adds the next index to its own
(`OneArrives`); when the deliverer throws, the pending one had no target, so the box is
what the list of the delivered says (`ReceptionIsDelivery`). The run has one emission;
the theorems have any number at once.

**Connection.** Transitions nest without bound, since a listener may start one, so the
invariant cannot speak of "the" transition: it says of each debt that some place on the
stack will pay it. `EverybodyIsTold` — a listener that has not heard of the present state
is on the list of a frame, or a frame has yet to copy its list. `OwedIsPending` — what a
loss made necessary is in `shouldResubscribe`, or the transition of that loss is still on
the stack and sets it when its listeners are done; and if the socket is up again, the
connect that will act on it is at the very bottom, which `ConnectedIsBelow` makes
possible: a socket connects between turns. `DestructionIsPending` — a destroyed runtime
is "disconnected" at once and unbound when the transition of `destroy()` is over;
`BoundUntilDestroyed` keeps these apart from a live one. Every step replaces, ends or
begins the innermost transition (`TopSteps`, `PopSteps`, `PushSteps`) and leaves the
frames below as they were. `ListenersCurrent`, `NothingForgotten` and `StaysDestroyed` are
the invariant where the stack is empty.

**Subscriptions.** Keys do not interact, so `Orderly` speaks of the operations of one key:
they are `InOrder`; a queued one waits for the one before it (`WaitsForPrevious`), so that
when its predecessor has settled all others have (`TurnHasCome`); undos come last and are
never awaited (`UndosAreDetached`); and the chain names the last operation as long as it
has not settled (`ChainIsLast`). The last is what the guarded deletion in the `finally`
keeps, and what makes it right to begin at once when there is no entry. Each step moves one
operation, adds one, adds an undo, or changes requests only, with a lemma for each;
`destroy()` forgets the chain while operations are under way, and no call follows it.

**Client and server.** `AgreementAtRest` speaks of the moments when nothing is under way;
`AgreementInv` says, for every moment and key, who is about to find out what.
`RequestsFit` says where a request can be, given the stage of its operation and the session.
`Reconciled` is the heart: a member without a subscription has a granted
subscribe on its way or an undo behind it, a subscription without membership has a granted
leave on its way or a resubscription in the chain, and an answer on its way to somebody who
awaits it tells what the server did. Two conditions make that inductive. A join that was
given up and is not answered yet (`Doomed`) makes a member stray whatever the answer, so
`Reconciled` is claimed of the others only, and `ServerGrantsHolds` shows that an answer in
order cannot overtake such a join. And a `destroy()` while a resubscription is
in flight is right only because its undo is sent behind it (`UndoFollows`). A lemma about
the operations of one key states what each step does to them (`BeginHolds` to `LossHolds`);
`OneKeyAgrees` carries it to the state. TLC checked `AgreementInv` on the instance of the run
`subscriptions`, on subsets of its faults and with two keys before it was proved.

**Addressing.** `AddressInv` has a part for every schema and a part for idempotent ones.
`PendingOnce` — a key has one call, and the call is on one wire once, as a request or as
an answer — and `OwedIsExpected` — what is owed is for a subscription that no call is
about to end — hold whatever the schema does, and with them an answer that overtakes an
event cannot take its subscription away (`OwedArrive`). Under an idempotent schema the
keys on the wires and in the maps are `Fixed`, so that the room the adapter leaves, the
membership the runtime gives up and the record the cleanup reads are those of the request
(`ServerIsOne`), and the client's map differs from the server's exactly where an answer
will make up for it (`ClientFollows`): at rest they are one (`OneChannel`). The steps
that handle a request share their argument (`HandleStep`), the calls share theirs.
`RefuseLeave` is the step that would break it, and cannot happen to a fixed key.
TLC checked `AddressInv` on the instance of the run `addressing` before it was proved.

**Policies.** The properties are about the end, or about the moment a leaf is called; what
an evaluation under way has to guarantee for them is `FrameIsRight`, `AskedSoFar` and
`ReturnedIsRight`, which with `AskedInOrder` make up `EvaluationInv`. A part is `Known` if
it has one value whatever the leaves say that were not asked. `FrameIsRight`: the parts a
composition has passed are known and did not decide it — all true for `andPolicy`, all
false for `orPolicy` — and `firstDeny` is the first reason against any of them.
`ReturnedIsRight`: the awaited part is known to have the value of the result, whose reason
is the first cause against that part. What a composition may conclude from its parts is
then a matter of its meaning, once per kind: `AndCauses` (the causes against an
`andPolicy` are those against the part that refused), `OrCauses` (against an `orPolicy`,
those against all its parts), `NotCauses` (there are none). These take values of the
leaves apart and put them together again: `Locality` — a part sees the leaves below it
only — `Joined`, which makes one value of the leaves out of one per part, and `Restored`,
which gives a leaf back the answer it gave. So that a later answer changes nothing that was
found (`FramesStay`), the leaves answer in their order (`Precedes`): the leaf that answers
lies below the awaited part of every evaluation under way, and below no part these have
passed. `EvaluatorsAskedRightly` is no conjunct of the invariant but follows from it: a
leaf that has not answered is `Open`, parts to its right are untouched
(`OpenUntouched`), parts passed have neutral values, hence each composition above it is
open as well, up to the policy (`OpenWay`). `TreeInduction` stands for induction over the
two levels. TLC checked `EvaluationInv` on the instance of the run `policies` before it
was proved. The theorems have any number of parts at each level; the depth is that of
`Policies`.

**Only model-checked**: liveness (`SubscriptionsBecomeReal`, `TimedCallsSettle`), which is
out of the prover's reach. All invariants, action properties and refinements of the passing
runs are proved. Policies deeper than two levels are in neither the run nor the proofs:
their meaning takes recursion over trees, and a proof about them induction.

## 5. Where code and documents disagree

Three runs end in a counterexample to what a test's description says; the findings
of `PROJECT.json` quote it.

1. `channels_rollback`: members vanish when an earlier join of the channel is rolled
   back through its old bucket (SR 1611).
2. `reconnect`: a resubscription that reaches the server before its handlers exist is
   dropped; after the timeout the subscription is gone (SA 373, CR 532).
3. `adapter_close`: a join in flight when its socket closes ends as a membership
   that nobody will remove (SA 598).

The faults that the passing runs exempt by `disturbed` and `strayed` lead to more
of the kind. Each is seen by checking the property without the exemption under
that one fault:

- `giveUp`: a subscribe that timed out is still granted; the server has a membership
  without subscription until the session ends (CR 1422).
- `reorder`: `destroy()` leaves a channel whose resubscription is in flight, the
  server may finish the join last (CR 1022).
- `verdict`: a resubscription denied for a member that is present leaves the
  membership. Together with `giveUp` and `reorder` the opposite happens: a subscribe that
  timed out while the server awaited its hook fails after the next subscribe of the key
  was granted, and its rollback takes that one's membership (SR 1611, SA 572). The client
  keeps a subscription that is none for as long as the connection stays up;
  `SubscriptionsBecomeReal` exempts the key.
- `leave`: a failing `onLeave` rejects the unsubscribe; the client keeps what the
  server has dropped, as it does when it gave up a leave that succeeds later.
  `SubscriptionsBecomeReal` exempts both.
- `closeMidSetup`: a socket that closes while `onConnect` is awaited gets its
  handlers afterwards; they stay in the map, and `onDisconnect` is never called (SA 367).
- `disposeMidway`: the same for connections that `dispose()` met during setup, and
  ghost members for requests in hand.
- `overlap`: a leave that is handled while a join of the same channel awaits its hook
  leaves first; the join then enters the room without a membership (SA 610).
- `rejoin`: a second join of a joined channel that fails in `onJoin` takes the
  first membership with it and leaves the socket in the room (SR 1611, SA 551).

What else the code does, and the conditions in the properties leave out:

- `destroy()` inside a callback does not stop the dispatch that called it: the copied
  appliers and the captured `Set` of listeners are walked to their end (CR 1264).
  `CeasedStaySilent` is about cleaned-up registrations only.
- One function registered twice as a listener is one entry of the `Set`: the first
  cleanup silences both registrations (CR 908). `StayersAreCalled` exempts them.
- A connection whose resolver returns `undefined` gets `onConnect` but never
  `onDisconnect`, without any fault: the context is stored, and found again by `has`
  (SA 263, 303), but the cleanup tests its value (SA 725, 738).
  `ConnectsAreDisconnected` exempts it. Contexts made from `injectContext` are objects.
- A transport whose `unsubscribeChannel` throws, instead of returning a rejected
  promise, aborts `destroy()` half-way (CR 1030): the runtime is destroyed by name, keeps
  its bindings, and a second `destroy()` is ignored. `DestroyedIsDisconnected` exempts it.
- After `dispose()` of the adapter the namespace accepts connections that nobody serves,
  because the middleware that would refuse them is removed too (SA 397, 969).
- The code `connection-denied` of a refused connection reaches the client inside a
  connect error, which `normalizeClientConnectionLifecycleError` turns into
  `internal-error` (SA 751, CR 1645).
- A first connection after a `connect_error` is announced as `reconnect_succeeded`
  (CR 1090), although `SystemEventPayloadMap` calls `connected` the successful first
  connection.
- A transport that cannot be unbound goes on moving the state of a destroyed runtime
  (CR 1054); `DestroyedIsDisconnected` asks for one that can.
- A key schema that changes a normalized key again (one that prepends a prefix, say)
  makes the client subscribe one channel and the server store another, and the
  cleanup of the adapter address a third, so that the membership outlives the socket
  (SA 601, 704). `AddressesAgree` is about the other schemas.
- A route made from a key that the schema changes has an empty audience (SA 441).
- An event emitted between a join and the receipt of its answer finds no subscription
  and is reported as a mismatch (CR 1213); `OwedEventsArrive` counts events from the
  answer on.

## 6. Limits

- Values are abstract: payloads, keys, schemas and error texts only count as valid or
  not, except where a module is about them (inputs and codes in `CommandErrors`, keys in
  `ChannelAddressing`). Two channel keys that normalize to one are one channel elsewhere.
- The client is modelled at the grain of event-loop turns, not of microtasks.
- Hooks and policies are assumed not to call back into the runtime call that awaits
  them; they may start other calls, which is what interleaving of calls means.
- Socket.IO is external: buffering while offline, loss of acknowledgements with the
  session, order within a session, rooms, and dropping events without listeners.
  Its optional connection state recovery and retries are off, as in the repository.
- Who observes a rejected promise is not modelled (the `void` at CR 494).
- An operation without timeout and signal whose answer is lost waits for ever; the
  liveness properties are about the others.

## 7. Plan

Order: what other components rest on first. Done: membership (1), client
subscriptions (2), the adapter on top of membership (3), event dispatch (4), event
emission (5), command pipeline (6), connection lifecycle (7), policies (8), channel
addressing (9), contracts, schemas and error codes of commands (10), and the proofs of
all safety properties that the runs check.

Next models: several sockets of one user in the adapter with the deliverer of
`EventEmission` on its rooms; the client's connection and subscription models
composed, so that operations settle inside transitions; an abstract specification of
event dispatch; events, channels and policies in the registries of `CommandErrors`.

Next proofs, after checking each inductive invariant: that the composed client model of
the line above implements the separate ones, so that `Serialized` and
`ListenersAreCurrent` carry over.
