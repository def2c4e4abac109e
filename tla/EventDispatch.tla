---------------------------- MODULE EventDispatch ----------------------------
(***************************************************************************)
(* How the client runtime hands one inbound event to user code             *)
(* (packages/client/src/runtime/index.ts: onEvent, registerEventApplier,   *)
(* destroy, createTransportEventReceiver).                                 *)
(*                                                                         *)
(* The dispatch is synchronous, but every callback it makes is user code   *)
(* that may register, clean up or destroy before it returns.  The maps     *)
(* eventAppliers and eventListeners are keyed by event name and the names  *)
(* do not interact: this module is about one name.                         *)
(***************************************************************************)
EXTENDS Naturals, SequencesExt

CONSTANTS
  Registrations,  \* calls of onEvent and registerEventApplier
  Listeners,      \* listener functions; one may be registered twice
  None,           \* no bucket, no callback
  MaxEvents       \* bound: inbound events of a behaviour

ASSUME MaxEventsAssumption == MaxEvents \in Nat

Kinds == {"applier", "listener"}

VARIABLES
  registered,   \* registration -> its kind and its entry, once it is made
  bucketOf,     \* kind -> the Set its map holds, named by the registration
                \*         that created it
  content,      \* Set -> its entries in insertion order
  isDestroyed,
  dispatch,     \* the event being dispatched
  running,      \* what is on the stack: the entry of a callback, or what
                \*         the error hook is being told
  events,       \* inbound events so far
  active,       \* registrations not cleaned up nor destroyed (history)
  since         \* what the properties compare a dispatch with (history)

registry == <<registered, bucketOf, content, isDestroyed, active>>
vars == <<registry, dispatch, running, events, since>>

\* Set.add takes an applier's fresh record, but the listener function itself.
Entries == Registrations \cup Listeners
EntryOf(r, kind, f) == IF kind = "applier" THEN r ELSE f
Registration == [kind : Kinds, entry : Entries]
Unused == [kind |-> "unused"]

Made == {r \in Registrations : registered[r] # Unused}

\* Two registrations that share an entry share its place in the Set.
Shared(r) ==
  \E q \in Made \ {r} : registered[q] = registered[r]

\* What the error hook is told: a callback's own realtime error, or the stage or
\* the code of the error that is made up.
Reports == {"own", "apply", "listener", "route", "invalid-event-payload"}

\* Callbacks, reports and None can be told apart.
ASSUME EntriesAssumption ==
  /\ Entries \cap Reports = {}
  /\ None \notin Entries \cup Reports

Idle == [phase |-> "idle", todo |-> <<>>, listeners |-> None]
Dispatch == [phase : {"idle", "appliers", "listeners"}, todo : Seq(Entries),
             listeners : Registrations \cup {None}]

TypeOK ==
  /\ registered \in [Registrations -> Registration \cup {Unused}]
  /\ bucketOf \in [Kinds -> Registrations \cup {None}]
  /\ content \in [Registrations -> Seq(Entries)]
  /\ isDestroyed \in BOOLEAN
  /\ dispatch \in Dispatch
  /\ running \in Entries \cup Reports \cup {None}
  /\ events \in 0..MaxEvents
  /\ active \in SUBSET Made
  /\ since \in [stayed : SUBSET Made, ceased : SUBSET Made, settled : SUBSET Entries]

Init ==
  /\ registered = [r \in Registrations |-> Unused]
  /\ bucketOf = [kind \in Kinds |-> None]
  /\ content = [r \in Registrations |-> <<>>]
  /\ isDestroyed = FALSE
  /\ dispatch = Idle
  /\ running = None
  /\ events = 0
  /\ active = {}
  /\ since = [stayed |-> {}, ceased |-> {}, settled |-> {}]

\* User code runs between events and inside a callback or the error hook.
UserCode == dispatch = Idle \/ running # None

ContentOf(kind) == IF bucketOf[kind] = None THEN <<>> ELSE content[bucketOf[kind]]

(***************************************************************************)
(* Calls of user code.                                                     *)
(***************************************************************************)

\* onEvent and registerEventApplier: the bucket is created when it is missing.
Register(r, kind, f) ==
  LET bucket == IF bucketOf[kind] = None THEN r ELSE bucketOf[kind]
      entry == EntryOf(r, kind, f)
  IN /\ UserCode
     /\ ~isDestroyed
     /\ registered[r] = Unused
     /\ registered' = [registered EXCEPT ![r] = [kind |-> kind, entry |-> entry]]
     /\ bucketOf' = [bucketOf EXCEPT ![kind] = bucket]
     /\ content' = [content EXCEPT ![bucket] =
                      IF Contains(@, entry) THEN @ ELSE Append(@, entry)]
     /\ active' = active \cup {r}
     /\ UNCHANGED <<isDestroyed, dispatch, running, events, since>>

\* Mutant: the whole bucket goes with its first entry.
DropBucket(kind, entry) ==
  /\ bucketOf' = [bucketOf EXCEPT ![kind] = None]
  /\ UNCHANGED content

\* Deletes an entry from the current bucket, and an emptied bucket from the map.
DropEntry(kind, entry) ==
  LET bucket == bucketOf[kind]
  IN IF bucket = None
     THEN UNCHANGED <<bucketOf, content>>
     ELSE /\ content' = [content EXCEPT ![bucket] = RemoveFirst(@, entry)]
          /\ bucketOf' = IF content'[bucket] = <<>>
                         THEN [bucketOf EXCEPT ![kind] = None]
                         ELSE bucketOf

\* The function a registration returned; it may be called again and again.
Cleanup(r) ==
  /\ UserCode
  /\ r \in Made
  /\ DropEntry(registered[r].kind, registered[r].entry)
  /\ active' = active \ {r}
  /\ since' = [since EXCEPT !.stayed = @ \ {r}]
  /\ UNCHANGED <<registered, isDestroyed, dispatch, running, events>>

\* Mutant: destroy() forgets the listeners.
DestroyKeepsListeners ==
  /\ UserCode
  /\ ~isDestroyed
  /\ isDestroyed' = TRUE
  /\ bucketOf' = [bucketOf EXCEPT !["applier"] = None]
  /\ active' = {}
  /\ since' = [since EXCEPT !.stayed = {}]
  /\ UNCHANGED <<registered, content, dispatch, running, events>>

\* destroy() clears the maps; the Set objects keep their entries.
Destroy ==
  /\ UserCode
  /\ ~isDestroyed
  /\ isDestroyed' = TRUE
  /\ bucketOf' = [kind \in Kinds |-> None]
  /\ active' = {}
  /\ since' = [since EXCEPT !.stayed = {}]
  /\ UNCHANGED <<registered, content, dispatch, running, events>>

(***************************************************************************)
(* createTransportEventReceiver.                                           *)
(***************************************************************************)

\* The transport hands over the next event.  One that cannot unbind its receiver
\* still does after destroy().
Arrives ==
  /\ dispatch = Idle
  /\ running = None
  /\ events < MaxEvents
  /\ events' = events + 1

\* Calls the error hook, which is user code as well.  Without a hook nothing is
\* called, which is the hook that does nothing; what a hook throws is swallowed.
Report(error) == running' = error

\* A known event with a valid payload, direct or of a subscribed channel.  Both
\* buckets are looked up now; the appliers are copied now, the listeners later.
Receive ==
  /\ Arrives
  /\ dispatch' = [phase |-> "appliers", todo |-> ContentOf("applier"),
                  listeners |-> bucketOf["listener"]]
  /\ since' = [stayed |-> active, ceased |-> Made \ active, settled |-> {}]
  /\ UNCHANGED <<registry, running>>

\* An event that is not of the registry is dropped without a word.
IgnoreUnknown ==
  /\ Arrives
  /\ UNCHANGED <<registry, dispatch, running, since>>

\* A known event of a channel that is not subscribed.
RefuseStray ==
  /\ Arrives
  /\ Report("route")
  /\ UNCHANGED <<registry, dispatch, since>>

\* A known event whose payload its schema rejects.
RefuseInvalid ==
  /\ Arrives
  /\ Report("invalid-event-payload")
  /\ UNCHANGED <<registry, dispatch, since>>

CallNext ==
  /\ running = None
  /\ dispatch.todo # <<>>
  /\ running' = Head(dispatch.todo)
  /\ dispatch' = [dispatch EXCEPT !.todo = Tail(@)]
  /\ UNCHANGED <<registry, events, since>>

\* What a throwing callback is reported as.
Thrown == {"own", IF dispatch.phase = "appliers" THEN "apply" ELSE "listener"}

\* The callback on the stack is done with.
Settles ==
  /\ running \in Entries
  /\ since' = [since EXCEPT !.settled = @ \cup {running}]

\* A listener returned, or an applier's next state is in its store.
CallbackReturns ==
  /\ Settles
  /\ running' = None
  /\ UNCHANGED <<registry, dispatch, events>>

\* Mutant: an error of a callback ends the dispatch.
ThrowEndsDispatch ==
  /\ Settles
  /\ \E error \in Thrown : Report(error)
  /\ dispatch' = Idle
  /\ UNCHANGED <<registry, events>>

\* A listener or an applier threw, or the store did: the error is reported, and
\* the loop goes on.
CallbackThrows ==
  /\ Settles
  /\ \E error \in Thrown : Report(error)
  /\ UNCHANGED <<registry, dispatch, events>>

\* The hook returned or threw.
ReportEnds ==
  /\ running \in Reports
  /\ running' = None
  /\ UNCHANGED <<registry, dispatch, events, since>>

\* After the appliers the captured bucket is copied, whatever became of it.
StartListeners ==
  /\ running = None
  /\ dispatch.phase = "appliers"
  /\ dispatch.todo = <<>>
  /\ dispatch' = IF dispatch.listeners = None THEN Idle
                 ELSE [dispatch EXCEPT !.phase = "listeners",
                                       !.todo = content[dispatch.listeners]]
  /\ UNCHANGED <<registry, running, events, since>>

\* Mutant: a dispatch that is over is not idle again.
EndDispatchDone ==
  /\ running = None
  /\ dispatch.phase = "listeners"
  /\ dispatch.todo = <<>>
  /\ dispatch' = [Idle EXCEPT !.phase = "done"]
  /\ UNCHANGED <<registry, running, events, since>>

EndDispatch ==
  /\ running = None
  /\ dispatch.phase = "listeners"
  /\ dispatch.todo = <<>>
  /\ dispatch' = Idle
  /\ UNCHANGED <<registry, running, events, since>>

Next ==
  \/ \E r \in Registrations, kind \in Kinds, f \in Listeners : Register(r, kind, f)
  \/ \E r \in Registrations : Cleanup(r)
  \/ Destroy
  \/ Receive
  \/ IgnoreUnknown
  \/ RefuseStray
  \/ RefuseInvalid
  \/ CallNext
  \/ CallbackReturns
  \/ CallbackThrows
  \/ ReportEnds
  \/ StartListeners
  \/ EndDispatch

Spec == Init /\ [][Next]_vars

(***************************************************************************)
(* Properties.                                                             *)
(***************************************************************************)

\* Nobody who stays misses an event: when a dispatch is over, every registration
\* that was active from the arrival of the event to the end has been called and
\* has returned or been reported, whatever the callbacks and the error hook called
\* before it registered, cleaned up or threw.
StayersAreCalled ==
  dispatch = Idle =>
    \A r \in since.stayed : ~Shared(r) => registered[r].entry \in since.settled

\* Cleanup is final: a callback that runs belongs to a registration that had not
\* been cleaned up or destroyed before the event arrived.
CeasedStaySilent ==
  running \in Entries => \E r \in Made \ since.ceased : registered[r].entry = running

(***************************************************************************)
(* The inductive invariant behind the theorems of EventDispatch_proofs.    *)
(***************************************************************************)

\* A Set holds nothing twice, and registrations of one kind; until it is created,
\* by the registration that names it, it is empty.
BucketsAreOwn ==
  /\ \A r \in Registrations : IsInjective(content[r])
  /\ \A r \in Registrations \ Made : content[r] = <<>>
  /\ \A kind \in Kinds : bucketOf[kind] # None =>
       bucketOf[kind] \in Made /\ registered[bucketOf[kind]].kind = kind
  /\ dispatch.listeners # None =>
       dispatch.listeners \in Made /\ registered[dispatch.listeners].kind = "listener"

\* The maps hold what is active and nothing else.
EntriesAreActive ==
  \A kind \in Kinds : \A x \in ToSet(ContentOf(kind)) :
    \E r \in active : registered[r] = [kind |-> kind, entry |-> x]
ActiveAreEntries ==
  \A r \in active :
    ~Shared(r) => registered[r].entry \in ToSet(ContentOf(registered[r].kind))

\* The listeners that the dispatch has yet to copy.
Captured ==
  IF dispatch.phase = "appliers" /\ dispatch.listeners # None
  THEN ToSet(content[dispatch.listeners]) ELSE {}

\* Whom the dispatch is going to call had not ceased when the event arrived.
TodoIsFresh ==
  \A x \in ToSet(dispatch.todo) \cup Captured :
    \E r \in Made \ since.ceased : registered[r].entry = x

\* Who stays was called, is on the stack, or will be called.
StayersAreAwaited ==
  \A r \in since.stayed : ~Shared(r) =>
    \/ registered[r].entry \in since.settled \cup {running} \cup ToSet(dispatch.todo)
    \/ registered[r].kind = "listener" /\ registered[r].entry \in Captured

\* Between events no callback is on the stack.
IdleIsIdle == dispatch.phase = "idle" => dispatch = Idle /\ running \notin Entries

IInv ==
  /\ TypeOK
  /\ BucketsAreOwn /\ EntriesAreActive /\ ActiveAreEntries
  /\ TodoIsFresh /\ StayersAreAwaited /\ IdleIsIdle
  /\ CeasedStaySilent
=============================================================================
