------------------------- MODULE EventDispatch_proofs -------------------------
(***************************************************************************)
(* Proofs about EventDispatch: IInv is inductive, and with it, for any     *)
(* registrations, listeners and number of events,                          *)
(*   TypeCorrect    the variables keep their types;                        *)
(*   StayersCalled  nobody who stays registered misses an event;           *)
(*   CeasedSilent   a cleanup is final for the events that follow it.      *)
(*                                                                         *)
(* The argument goes by sets: what the maps hold (InMaps) changes by one   *)
(* entry when user code registers or cleans up, and what a dispatch still  *)
(* has to call (todo and Captured) loses an entry only to the stack or to  *)
(* the cleanup of all who share it.                                        *)
(***************************************************************************)
EXTENDS EventDispatch, SequenceFacts

InMaps(kind) == ToSet(ContentOf(kind))

\* A registration that is made is a record of a kind and an entry.
LEMMA MadeHasEntry ==
  ASSUME TypeOK
  PROVE  /\ \A r \in Made : /\ registered[r] \in Registration
                            /\ registered[r].kind \in Kinds
                            /\ registered[r].entry \in Entries
         /\ \A r \in Registrations \ Made : registered[r] = Unused
BY DEF TypeOK, Made, Registration

\* Registrations of the same kind and entry share it.
LEMMA SharedIfSame ==
  ASSUME TypeOK, NEW r \in Made, NEW q \in Made \ {r},
         registered[q].kind = registered[r].kind,
         registered[q].entry = registered[r].entry
  PROVE  Shared(r)
<1>1. registered[q] = registered[r]
  BY MadeHasEntry DEF Registration
<1>2. QED
  BY <1>1 DEF Shared

\* The Sets of the two maps are different, so that a change of one is no change
\* of the other.
LEMMA BucketsDiffer ==
  ASSUME BucketsAreOwn, NEW kind \in Kinds, NEW other \in Kinds \ {kind},
         bucketOf[kind] # None
  PROVE  bucketOf[other] # bucketOf[kind]
BY DEF BucketsAreOwn

\* No dispatch is a value of the variable dispatch.
LEMMA IdleIsADispatch == Idle \in Dispatch
<1>1. <<>> \in Seq(Entries)
  OBVIOUS
<1>2. QED
  BY <1>1 DEF Idle, Dispatch

\* A new runtime: both maps are empty, nobody is registered.
LEMMA InitInv == Init => IInv
<1> SUFFICES ASSUME Init PROVE IInv
  OBVIOUS
<1>1. Made = {}
  BY DEF Init, Made
<1>2. \A kind \in Kinds : bucketOf[kind] = None
  BY DEF Init
<1>3. TypeOK
  <2>1. /\ registered \in [Registrations -> Registration \cup {Unused}]
        /\ bucketOf \in [Kinds -> Registrations \cup {None}]
        /\ isDestroyed \in BOOLEAN
        /\ running \in Entries \cup Reports \cup {None}
        /\ events \in 0..MaxEvents
        /\ active \in SUBSET Made
    <3>1. active \in SUBSET Made
      BY DEF Init
    <3>2. events \in 0..MaxEvents
      BY MaxEventsAssumption DEF Init
    <3>3. QED
      BY <3>1, <3>2 DEF Init
  <2>2. content \in [Registrations -> Seq(Entries)]
    <3>1. <<>> \in Seq(Entries)
      OBVIOUS
    <3>2. QED
      BY <3>1 DEF Init
  <2>3. dispatch \in Dispatch
    BY IdleIsADispatch DEF Init
  <2>4. since \in [stayed : SUBSET Made, ceased : SUBSET Made, settled : SUBSET Entries]
    BY DEF Init
  <2>5. QED
    BY <2>1, <2>2, <2>3, <2>4 DEF TypeOK
<1>4. BucketsAreOwn
  BY <1>1, <1>2 DEF Init, BucketsAreOwn, Idle, IsInjective
<1>5. EntriesAreActive /\ ActiveAreEntries
  BY <1>2, EmptyToSet DEF Init, EntriesAreActive, ActiveAreEntries, ContentOf
<1>6. TodoIsFresh /\ StayersAreAwaited
  BY EmptyToSet DEF Init, TodoIsFresh, StayersAreAwaited, Captured, Idle
<1>7. IdleIsIdle /\ CeasedStaySilent
  BY EntriesAssumption DEF Init, IdleIsIdle, CeasedStaySilent
<1>8. QED
  BY <1>3, <1>4, <1>5, <1>6, <1>7 DEF IInv

(***************************************************************************)
(* The steps of a dispatch, which leave the registry alone.                *)
(***************************************************************************)

\* Who is registered, and where, is the same after a step of the dispatch.
LEMMA RegistryKept ==
  ASSUME IInv, UNCHANGED registry
  PROVE  /\ Made' = Made
         /\ \A r : Shared(r)' <=> Shared(r)
         /\ EntriesAreActive' /\ ActiveAreEntries'
         /\ (/\ registered \in [Registrations -> Registration \cup {Unused}]
             /\ bucketOf \in [Kinds -> Registrations \cup {None}]
             /\ content \in [Registrations -> Seq(Entries)]
             /\ isDestroyed \in BOOLEAN
             /\ active \in SUBSET Made)'
         /\ dispatch'.listeners \in {dispatch.listeners, bucketOf["listener"], None}
            => BucketsAreOwn'
<1>1. /\ Made' = Made
      /\ \A r : Shared(r)' <=> Shared(r)
      /\ \A kind \in Kinds : ContentOf(kind)' = ContentOf(kind)
  BY DEF registry, Made, Shared, ContentOf
<1>2. EntriesAreActive' /\ ActiveAreEntries'
  <2>1. EntriesAreActive'
    BY <1>1 DEF IInv, registry, EntriesAreActive
  <2>2. \A r \in active : registered[r].kind \in Kinds
    BY MadeHasEntry DEF IInv, TypeOK
  <2>3. ActiveAreEntries'
    BY <1>1, <2>2 DEF IInv, registry, ActiveAreEntries
  <2>4. QED
    BY <2>1, <2>3
<1>3. (/\ registered \in [Registrations -> Registration \cup {Unused}]
       /\ bucketOf \in [Kinds -> Registrations \cup {None}]
       /\ content \in [Registrations -> Seq(Entries)]
       /\ isDestroyed \in BOOLEAN
       /\ active \in SUBSET Made)'
  BY <1>1 DEF IInv, TypeOK, registry
<1>4. ASSUME dispatch'.listeners \in {dispatch.listeners, bucketOf["listener"], None}
      PROVE  BucketsAreOwn'
  BY <1>1, <1>4 DEF IInv, BucketsAreOwn, registry, Kinds
<1>5. QED
  BY <1>1, <1>2, <1>3, <1>4

\* An event that is ignored or refused leaves no dispatch.
LEMMA RefusalInv ==
  ASSUME IInv, IgnoreUnknown \/ RefuseStray \/ RefuseInvalid
  PROVE  IInv'
<1>1. /\ UNCHANGED <<registry, dispatch, since>>
      /\ dispatch = Idle
      /\ events < MaxEvents
      /\ events' = events + 1
      /\ running = None
      /\ running' \in Reports \cup {None}
  BY DEF IgnoreUnknown, RefuseStray, RefuseInvalid, Arrives, Report, Reports
<1>2. running' \notin Entries
  BY <1>1, EntriesAssumption
<1>3. TypeOK'
  BY <1>1, RegistryKept, MaxEventsAssumption DEF IInv, TypeOK
<1>4. BucketsAreOwn' /\ EntriesAreActive' /\ ActiveAreEntries'
  BY <1>1, RegistryKept
<1>5. TodoIsFresh' /\ IdleIsIdle' /\ CeasedStaySilent'
  BY <1>1, <1>2, RegistryKept
  DEF IInv, TodoIsFresh, Captured, IdleIsIdle, CeasedStaySilent, registry
<1>6. StayersAreAwaited'
  <2>1. \A r \in since.stayed : registered[r].entry # running
    BY <1>1, MadeHasEntry, EntriesAssumption DEF IInv, TypeOK
  <2>2. QED
    BY <1>1, <2>1, RegistryKept DEF IInv, StayersAreAwaited, Captured, registry
<1>7. QED
  BY <1>3, <1>4, <1>5, <1>6 DEF IInv

\* The event that arrives finds in the maps what is active.
LEMMA ReceiveInv ==
  ASSUME IInv, Receive
  PROVE  IInv'
<1>1. /\ UNCHANGED <<registry, running>>
      /\ running = None
      /\ events < MaxEvents
      /\ events' = events + 1
      /\ dispatch' = [phase |-> "appliers", todo |-> ContentOf("applier"),
                      listeners |-> bucketOf["listener"]]
      /\ since' = [stayed |-> active, ceased |-> Made \ active, settled |-> {}]
  BY DEF Receive, Arrives
<1>2. TypeOK'
  <2>1. ContentOf("applier") \in Seq(Entries)
    <3>1. <<>> \in Seq(Entries)
      OBVIOUS
    <3>2. QED
      BY <3>1 DEF IInv, TypeOK, ContentOf, Kinds
  <2>2. dispatch' \in Dispatch
    BY <1>1, <2>1 DEF IInv, TypeOK, Dispatch, Kinds
  <2>3. since' \in [stayed : SUBSET Made, ceased : SUBSET Made, settled : SUBSET Entries]
    BY <1>1 DEF IInv, TypeOK
  <2>4. (/\ running \in Entries \cup Reports \cup {None}
         /\ events \in 0..MaxEvents)'
    BY <1>1, MaxEventsAssumption DEF IInv, TypeOK
  <2>5. QED
    BY <1>1, <2>2, <2>3, <2>4, RegistryKept DEF TypeOK, Dispatch
<1>3. BucketsAreOwn' /\ EntriesAreActive' /\ ActiveAreEntries'
  BY <1>1, RegistryKept
<1>4. /\ ToSet(dispatch.todo)' = InMaps("applier")
      /\ Captured' = InMaps("listener")
  BY <1>1, EmptyToSet DEF Captured, InMaps, ContentOf, registry
<1>5. TodoIsFresh'
  <2>1. ASSUME NEW kind \in Kinds, NEW x \in InMaps(kind)
        PROVE  \E r \in Made \ since'.ceased : registered[r].entry = x
    <3>1. PICK r \in active : registered[r] = [kind |-> kind, entry |-> x]
      BY DEF IInv, EntriesAreActive, InMaps
    <3>2. r \in Made \ since'.ceased /\ registered[r].entry = x
      BY <1>1, <3>1 DEF IInv, TypeOK
    <3>3. QED
      BY <3>2
  <2>2. QED
    BY <1>1, <1>4, <2>1, RegistryKept DEF TodoIsFresh, registry, Kinds
<1>6. StayersAreAwaited'
  <2>1. ASSUME NEW r \in active, ~Shared(r)
        PROVE  registered[r].entry \in InMaps(registered[r].kind)
    BY <2>1 DEF IInv, ActiveAreEntries, InMaps
  <2>2. \A r \in active : registered[r].kind \in Kinds
    BY MadeHasEntry DEF IInv, TypeOK
  <2>3. QED
    BY <1>1, <1>4, <2>1, <2>2, RegistryKept DEF StayersAreAwaited, registry, Kinds
<1>7. IdleIsIdle' /\ CeasedStaySilent'
  BY <1>1, EntriesAssumption DEF IdleIsIdle, CeasedStaySilent
<1>8. QED
  BY <1>2, <1>3, <1>5, <1>6, <1>7 DEF IInv

\* The next callback moves from what is to do to the stack.
LEMMA CallNextInv ==
  ASSUME IInv, CallNext
  PROVE  IInv'
<1>1. /\ UNCHANGED <<registry, events, since>>
      /\ running = None
      /\ dispatch.todo # <<>>
      /\ running' = Head(dispatch.todo)
      /\ dispatch' = [dispatch EXCEPT !.todo = Tail(@)]
  BY DEF CallNext
<1>2. /\ dispatch \in Dispatch
      /\ dispatch.todo \in Seq(Entries)
      /\ dispatch'.phase = dispatch.phase
      /\ dispatch'.listeners = dispatch.listeners
      /\ dispatch'.todo = Tail(dispatch.todo)
  BY <1>1 DEF IInv, TypeOK, Dispatch
<1>3. /\ Tail(dispatch.todo) \in Seq(Entries)
      /\ running' \in Entries
      /\ ToSet(dispatch.todo) = {running'} \cup ToSet(dispatch'.todo)
  BY <1>1, <1>2, HeadAndTail
<1>4. TypeOK'
  <2>1. dispatch' \in Dispatch
    BY <1>1, <1>2, <1>3 DEF Dispatch
  <2>2. QED
    BY <1>1, <1>3, <2>1, RegistryKept DEF IInv, TypeOK
<1>5. BucketsAreOwn' /\ EntriesAreActive' /\ ActiveAreEntries'
  BY <1>1, <1>2, RegistryKept
<1>6. Captured' = Captured
  BY <1>1, <1>2 DEF Captured, registry
<1>7. TodoIsFresh' /\ CeasedStaySilent'
  BY <1>1, <1>3, <1>6, RegistryKept
  DEF IInv, TodoIsFresh, CeasedStaySilent, registry
<1>8. StayersAreAwaited'
  <2>1. \A r \in since.stayed : registered[r].entry # running
    BY <1>1, MadeHasEntry, EntriesAssumption DEF IInv, TypeOK
  <2>2. QED
    BY <1>1, <1>3, <1>6, <2>1, RegistryKept DEF IInv, StayersAreAwaited, registry
<1>9. IdleIsIdle'
  <2>1. dispatch.phase # "idle"
    BY <1>1 DEF IInv, IdleIsIdle, Idle
  <2>2. QED
    BY <1>2, <2>1 DEF IdleIsIdle
<1>10. QED
  BY <1>4, <1>5, <1>7, <1>8, <1>9 DEF IInv

\* A callback that returned or was reported is settled; a report is over.
LEMMA StackInv ==
  ASSUME IInv, CallbackReturns \/ CallbackThrows \/ ReportEnds
  PROVE  IInv'
<1>1. /\ UNCHANGED <<registry, dispatch, events>>
      /\ running' \in Reports \cup {None}
      /\ running' \notin Entries
      /\ \/ running \in Reports /\ since' = since
         \/ running \in Entries /\ since' = [since EXCEPT !.settled = @ \cup {running}]
  BY EntriesAssumption
  DEF CallbackReturns, CallbackThrows, ReportEnds, Settles, Report, Thrown, Reports
<1>2. /\ since' \in [stayed : SUBSET Made, ceased : SUBSET Made, settled : SUBSET Entries]
      /\ since'.stayed = since.stayed
      /\ since'.ceased = since.ceased
      /\ since.settled \subseteq since'.settled
      /\ running \in Entries => running \in since'.settled
  BY <1>1, EntriesAssumption DEF IInv, TypeOK
<1>3. TypeOK'
  BY <1>1, <1>2, RegistryKept DEF IInv, TypeOK
<1>4. BucketsAreOwn' /\ EntriesAreActive' /\ ActiveAreEntries'
  BY <1>1, RegistryKept
<1>5. Captured' = Captured
  BY <1>1 DEF Captured, registry
<1>6. TodoIsFresh' /\ IdleIsIdle' /\ CeasedStaySilent'
  BY <1>1, <1>2, <1>5, RegistryKept
  DEF IInv, TodoIsFresh, IdleIsIdle, CeasedStaySilent, registry
<1>7. StayersAreAwaited'
  <2>1. \A r \in since.stayed : registered[r].entry \in Entries
    BY MadeHasEntry DEF IInv, TypeOK
  <2>2. QED
    BY <1>1, <1>2, <1>5, <2>1, RegistryKept DEF IInv, StayersAreAwaited, registry
<1>8. QED
  BY <1>3, <1>4, <1>6, <1>7 DEF IInv

\* The captured Set becomes what is to do; no captured Set, or nothing left to
\* do, ends the dispatch.
LEMMA PhaseInv ==
  ASSUME IInv, StartListeners \/ EndDispatch
  PROVE  IInv'
<1>1. /\ UNCHANGED <<registry, running, events, since>>
      /\ running = None
      /\ dispatch.todo = <<>>
  BY DEF StartListeners, EndDispatch
<1>2. /\ dispatch' \in Dispatch
      /\ dispatch'.listeners \in {dispatch.listeners, None}
      /\ dispatch'.phase # "appliers"
      /\ ToSet(dispatch'.todo) = Captured
      /\ dispatch'.phase = "idle" => dispatch' = Idle
  <2>1. CASE StartListeners /\ dispatch.listeners # None
    <3>1. dispatch' = [dispatch EXCEPT !.phase = "listeners",
                                       !.todo = content[dispatch.listeners]]
      BY <2>1 DEF StartListeners
    <3>2. dispatch \in Dispatch /\ content[dispatch.listeners] \in Seq(Entries)
      BY <2>1 DEF IInv, TypeOK, Dispatch
    <3>3. QED
      BY <2>1, <3>1, <3>2 DEF Dispatch, Captured, StartListeners
  <2>2. CASE EndDispatch \/ dispatch.listeners = None
    <3>1. dispatch' = Idle
      BY <2>2 DEF StartListeners, EndDispatch
    <3>2. Captured = {}
      BY <2>2 DEF EndDispatch, Captured, StartListeners
    <3>3. QED
      BY <3>1, <3>2, IdleIsADispatch, EmptyToSet DEF Idle
  <2>3. QED
    BY <2>1, <2>2
<1>3. Captured' = {}
  BY <1>2 DEF Captured
<1>4. TypeOK'
  BY <1>1, <1>2, RegistryKept DEF IInv, TypeOK
<1>5. BucketsAreOwn' /\ EntriesAreActive' /\ ActiveAreEntries'
  BY <1>1, <1>2, RegistryKept
<1>6. TodoIsFresh' /\ IdleIsIdle' /\ CeasedStaySilent'
  BY <1>1, <1>2, <1>3, EntriesAssumption, RegistryKept
  DEF IInv, TodoIsFresh, IdleIsIdle, CeasedStaySilent, registry
<1>7. StayersAreAwaited'
  BY <1>1, <1>2, <1>3, EmptyToSet, RegistryKept
  DEF IInv, StayersAreAwaited, registry
<1>8. QED
  BY <1>4, <1>5, <1>6, <1>7 DEF IInv

(***************************************************************************)
(* The calls of user code, between events or inside a callback.            *)
(***************************************************************************)

\* A registration adds its entry to its map, and to no other.
LEMMA RegisterInv ==
  ASSUME IInv, NEW r \in Registrations, NEW kind \in Kinds, NEW f \in Listeners,
         Register(r, kind, f)
  PROVE  IInv'
<1> DEFINE bucket == IF bucketOf[kind] = None THEN r ELSE bucketOf[kind]
           entry == EntryOf(r, kind, f)
<1>1. /\ UNCHANGED <<isDestroyed, dispatch, running, events, since>>
      /\ registered[r] = Unused
      /\ registered' = [registered EXCEPT ![r] = [kind |-> kind, entry |-> entry]]
      /\ bucketOf' = [bucketOf EXCEPT ![kind] = bucket]
      /\ content' = [content EXCEPT ![bucket] =
                       IF Contains(@, entry) THEN @ ELSE Append(@, entry)]
      /\ active' = active \cup {r}
  BY DEF Register
<1>2. /\ entry \in Entries
      /\ r # None
      /\ r \notin Made
  BY <1>1, EntriesAssumption DEF EntryOf, Entries, Made
<1>3. /\ registered' \in [Registrations -> Registration \cup {Unused}]
      /\ registered'[r] = [kind |-> kind, entry |-> entry]
      /\ \A q \in Registrations \ {r} : registered'[q] = registered[q]
  BY <1>1, <1>2 DEF IInv, TypeOK, Registration
<1>4. Made' = Made \cup {r}
  <2>1. registered'[r] # Unused
    <3>1. registered'[r].kind # Unused.kind
      BY <1>3 DEF Kinds, Unused
    <3>2. QED
      BY <3>1
  <2>2. QED
    BY <1>3, <2>1 DEF Made
<1>5. /\ bucket \in Registrations
      /\ bucket # None
      /\ bucket = r \/ (bucket \in Made /\ registered[bucket].kind = kind)
      /\ bucketOf[kind] = None => bucket = r
      /\ bucketOf[kind] # None => bucket = bucketOf[kind]
  BY <1>2 DEF IInv, TypeOK, BucketsAreOwn, Made
<1> HIDE DEF bucket, entry
<1>6. /\ content' \in [Registrations -> Seq(Entries)]
      /\ ToSet(content'[bucket]) = ToSet(content[bucket]) \cup {entry}
      /\ IsInjective(content[bucket]) => IsInjective(content'[bucket])
      /\ \A q \in Registrations \ {bucket} : content'[q] = content[q]
  <2>1. content \in [Registrations -> Seq(Entries)]
    BY DEF IInv, TypeOK
  <2>2. content'[bucket] = IF Contains(content[bucket], entry)
                           THEN content[bucket] ELSE Append(content[bucket], entry)
    BY <1>1, <1>5, <2>1
  <2>3. content[bucket] \in Seq(Entries)
    BY <1>5, <2>1
  <2>4. /\ content'[bucket] \in Seq(Entries)
        /\ ToSet(content'[bucket]) = ToSet(content[bucket]) \cup {entry}
        /\ IsInjective(content[bucket]) => IsInjective(content'[bucket])
    BY <1>2, <2>2, <2>3, Addition
  <2>5. QED
    BY <1>1, <1>5, <2>1, <2>4
<1>7. /\ bucketOf' \in [Kinds -> Registrations \cup {None}]
      /\ bucketOf'[kind] = bucket
      /\ \A other \in Kinds \ {kind} : bucketOf'[other] = bucketOf[other]
  BY <1>1, <1>5 DEF IInv, TypeOK
<1>8. TypeOK'
  <2>1. /\ active' \in SUBSET Made'
        /\ since' \in [stayed : SUBSET Made', ceased : SUBSET Made', settled : SUBSET Entries]
    BY <1>1, <1>4 DEF IInv, TypeOK
  <2>2. QED
    BY <1>1, <1>3, <1>6, <1>7, <2>1 DEF IInv, TypeOK
<1>9. BucketsAreOwn'
  <2>1. \A q \in Registrations : IsInjective(content'[q])
    BY <1>5, <1>6 DEF IInv, BucketsAreOwn
  <2>2. \A q \in Registrations \ Made' : content'[q] = <<>>
    BY <1>4, <1>5, <1>6 DEF IInv, BucketsAreOwn
  <2>3. \A other \in Kinds : bucketOf'[other] # None =>
          bucketOf'[other] \in Made' /\ registered'[bucketOf'[other]].kind = other
    <3>1. bucket \in Made' /\ registered'[bucket].kind = kind
      BY <1>2, <1>3, <1>4, <1>5 DEF Made
    <3>2. ASSUME NEW other \in Kinds \ {kind}, bucketOf[other] # None
          PROVE  bucketOf[other] \in Made /\ registered'[bucketOf[other]].kind = other
      BY <1>2, <1>3, <3>2 DEF IInv, BucketsAreOwn, Made
    <3>3. QED
      BY <1>4, <1>7, <3>1, <3>2
  <2>4. dispatch.listeners # None =>
          dispatch.listeners \in Made' /\ registered'[dispatch.listeners].kind = "listener"
    BY <1>2, <1>3, <1>4 DEF IInv, BucketsAreOwn, Made
  <2>5. QED
    BY <1>1, <2>1, <2>2, <2>3, <2>4 DEF BucketsAreOwn
<1>10. /\ InMaps(kind)' = InMaps(kind) \cup {entry}
       /\ \A other \in Kinds \ {kind} : InMaps(other)' = InMaps(other)
  <2>1. InMaps(kind)' = ToSet(content'[bucket])
    BY <1>5, <1>7 DEF InMaps, ContentOf
  <2>2. ToSet(content[bucket]) = InMaps(kind)
    BY <1>2, <1>5, EmptyToSet DEF IInv, BucketsAreOwn, InMaps, ContentOf
  <2>3. ASSUME NEW other \in Kinds \ {kind}
        PROVE  InMaps(other)' = InMaps(other)
    <3>1. CASE bucketOf[other] = None
      BY <1>7, <3>1 DEF InMaps, ContentOf
    <3>2. CASE bucketOf[other] # None
      <4>1. bucketOf[other] \in Registrations \ {bucket}
        BY <1>2, <1>5, <3>2 DEF IInv, TypeOK, BucketsAreOwn
      <4>2. QED
        BY <1>6, <1>7, <3>2, <4>1 DEF InMaps, ContentOf
    <3>3. QED
      BY <3>1, <3>2
  <2>4. QED
    BY <1>6, <2>1, <2>2, <2>3
<1>11. \A q \in Made : q # r /\ registered'[q] = registered[q]
  BY <1>2, <1>3 DEF Made
<1>12. \A q \in Made : Shared(q) => Shared(q)'
  BY <1>4, <1>11 DEF Shared
<1>13. EntriesAreActive'
  <2>1. ASSUME NEW other \in Kinds, NEW x \in InMaps(other)'
        PROVE  \E q \in active' : registered'[q] = [kind |-> other, entry |-> x]
    <3>1. CASE other = kind /\ x = entry
      BY <1>1, <1>3, <3>1
    <3>2. CASE x \in InMaps(other)
      <4>1. PICK q \in active : registered[q] = [kind |-> other, entry |-> x]
        BY <3>2 DEF IInv, EntriesAreActive, InMaps
      <4>2. QED
        BY <1>1, <1>11, <4>1 DEF IInv, TypeOK
    <3>3. QED
      BY <1>10, <2>1, <3>1, <3>2
  <2>2. QED
    BY <2>1 DEF EntriesAreActive, InMaps
<1>14. ActiveAreEntries'
  <2>1. ASSUME NEW q \in active', NEW other \in Kinds, ~Shared(q)',
               registered'[q].kind = other
        PROVE  registered'[q].entry \in InMaps(other)'
    <3>1. CASE q = r
      BY <1>3, <1>10, <2>1, <3>1
    <3>2. CASE q \in active
      <4>1. q \in Made /\ registered[q].kind = other /\ ~Shared(q)
        BY <1>11, <1>12, <2>1, <3>2 DEF IInv, TypeOK
      <4>2. registered[q].entry \in InMaps(other)
        BY <3>2, <4>1 DEF IInv, ActiveAreEntries, InMaps
      <4>3. QED
        BY <1>10, <1>11, <4>1, <4>2
    <3>3. QED
      BY <1>1, <3>1, <3>2
  <2>2. \A q \in active' : registered'[q].kind \in Kinds
    BY <1>1, <1>3, <1>11, MadeHasEntry DEF IInv, TypeOK
  <2>3. QED
    BY <2>1, <2>2 DEF ActiveAreEntries, InMaps, ContentOf
<1>15. /\ Captured \subseteq Captured'
       /\ Captured' \subseteq Captured \cup {entry}
  BY <1>1, <1>6 DEF IInv, TypeOK, Dispatch, Captured
<1>16. TodoIsFresh'
  <2>1. r \in Made' \ since'.ceased /\ registered'[r].entry = entry
    BY <1>1, <1>2, <1>3, <1>4 DEF IInv, TypeOK
  <2>2. ASSUME NEW x \in ToSet(dispatch.todo) \cup Captured
        PROVE  \E q \in Made' \ since'.ceased : registered'[q].entry = x
    <3>1. PICK q \in Made \ since.ceased : registered[q].entry = x
      BY DEF IInv, TodoIsFresh
    <3>2. QED
      BY <1>1, <1>4, <1>11, <3>1
  <2>3. QED
    BY <1>1, <1>15, <2>1, <2>2 DEF TodoIsFresh
<1>17. StayersAreAwaited'
  <2>1. since'.stayed \subseteq Made
    BY <1>1 DEF IInv, TypeOK
  <2>2. QED
    BY <1>1, <1>11, <1>12, <1>15, <2>1 DEF IInv, StayersAreAwaited
<1>18. IdleIsIdle' /\ CeasedStaySilent'
  <2>1. CeasedStaySilent'
    BY <1>1, <1>4, <1>11 DEF IInv, CeasedStaySilent
  <2>2. QED
    BY <1>1, <2>1 DEF IInv, IdleIsIdle
<1>19. QED
  BY <1>8, <1>9, <1>13, <1>14, <1>16, <1>17, <1>18 DEF IInv

\* A cleanup takes its entry out of its map, and out of no other.
LEMMA CleanupInv ==
  ASSUME IInv, NEW r \in Registrations, Cleanup(r)
  PROVE  IInv'
<1> SUFFICES ASSUME NEW kind, kind = registered[r].kind,
                    NEW entry, entry = registered[r].entry
             PROVE  IInv'
  OBVIOUS
<1> DEFINE bucket == bucketOf[kind]
<1>1. /\ UNCHANGED <<registered, isDestroyed, dispatch, running, events>>
      /\ r \in Made
      /\ DropEntry(kind, entry)
      /\ active' = active \ {r}
      /\ since' = [since EXCEPT !.stayed = @ \ {r}]
  BY DEF Cleanup
<1>2. /\ kind \in Kinds
      /\ bucket \in Registrations \cup {None}
  BY <1>1, MadeHasEntry DEF IInv, TypeOK
<1>3. /\ Made' = Made
      /\ \A q : Shared(q) => Shared(q)'
  BY <1>1 DEF Made, Shared
<1>4. \A q \in Made : registered[q].kind = kind /\ registered[q].entry = entry =>
        q = r \/ Shared(q)
  BY <1>1, SharedIfSame DEF IInv
<1>5. /\ since' \in [stayed : SUBSET Made, ceased : SUBSET Made, settled : SUBSET Entries]
      /\ since'.stayed = since.stayed \ {r}
      /\ since'.ceased = since.ceased
      /\ since'.settled = since.settled
  BY <1>1 DEF IInv, TypeOK
<1> HIDE DEF bucket
<1>6. /\ content' \in [Registrations -> Seq(Entries)]
      /\ \A q \in Registrations :
           /\ ToSet(content'[q]) \subseteq ToSet(content[q])
           /\ \A x \in ToSet(content[q]) : q # bucket \/ x # entry => x \in ToSet(content'[q])
           /\ IsInjective(content'[q])
           /\ content[q] = <<>> => content'[q] = <<>>
           /\ q # bucket => content'[q] = content[q]
      /\ bucket # None => entry \notin ToSet(content'[bucket])
  <2>1. content \in [Registrations -> Seq(Entries)]
    BY DEF IInv, TypeOK
  <2>2. \A q \in Registrations : IsInjective(content[q])
    BY DEF IInv, BucketsAreOwn
  <2>3. CASE bucket = None
    <3>1. UNCHANGED content
      BY <1>1, <2>3 DEF DropEntry, bucket
    <3>2. QED
      BY <2>1, <2>2, <2>3, <3>1
  <2>4. CASE bucket # None
    <3>1. /\ bucket \in Registrations
          /\ content' = [content EXCEPT ![bucket] = RemoveFirst(@, entry)]
      BY <1>1, <1>2, <2>4 DEF DropEntry, bucket
    <3>2. /\ content'[bucket] = RemoveFirst(content[bucket], entry)
          /\ \A q \in Registrations \ {bucket} : content'[q] = content[q]
      BY <2>1, <3>1
    <3>3. /\ content'[bucket] \in Seq(Entries)
          /\ ToSet(content'[bucket]) \subseteq ToSet(content[bucket])
          /\ \A x \in ToSet(content[bucket]) : x # entry => x \in ToSet(content'[bucket])
          /\ IsInjective(content'[bucket])
          /\ entry \notin ToSet(content'[bucket])
      BY <2>1, <2>2, <3>1, <3>2, Removal
    <3>4. content[bucket] = <<>> => content'[bucket] = <<>>
      <4>1. \A t \in Seq(Entries) : ToSet(t) = {} => t = <<>>
        <5>1. ASSUME NEW t \in Seq(Entries), t # <<>>
              PROVE  Head(t) \in ToSet(t)
          BY <5>1, HeadAndTail
        <5>2. QED
          BY <5>1
      <4>2. QED
        BY <3>3, <4>1, EmptyToSet
    <3>5. content' \in [Registrations -> Seq(Entries)]
      BY <2>1, <3>1, <3>3
    <3>6. QED
      BY <2>2, <3>2, <3>3, <3>4, <3>5
  <2>5. QED
    BY <2>3, <2>4
<1>7. /\ bucketOf' \in [Kinds -> Registrations \cup {None}]
      /\ \A other \in Kinds \ {kind} : bucketOf'[other] = bucketOf[other]
      /\ bucketOf'[kind] = bucket \/ (bucketOf'[kind] = None /\ content'[bucket] = <<>>)
  BY <1>1, <1>2 DEF IInv, TypeOK, DropEntry, bucket
<1>8. TypeOK'
  <2>1. active' \in SUBSET Made
    BY <1>1 DEF IInv, TypeOK
  <2>2. QED
    BY <1>1, <1>3, <1>5, <1>6, <1>7, <2>1 DEF IInv, TypeOK
<1>9. BucketsAreOwn'
  <2>1. \A other \in Kinds : bucketOf'[other] # None => bucketOf'[other] = bucketOf[other]
    BY <1>7 DEF bucket
  <2>2. \A q \in Registrations \ Made : content'[q] = <<>>
    BY <1>6 DEF IInv, BucketsAreOwn
  <2>3. QED
    BY <1>1, <1>3, <1>6, <2>1, <2>2 DEF IInv, BucketsAreOwn
<1>10. /\ InMaps(kind)' \subseteq InMaps(kind) \ {entry}
       /\ InMaps(kind) \ {entry} \subseteq InMaps(kind)'
       /\ \A other \in Kinds \ {kind} : InMaps(other)' = InMaps(other)
  <2>1. CASE bucket = None
    <3>1. InMaps(kind) = {} /\ InMaps(kind)' = {}
      BY <1>7, <2>1, EmptyToSet DEF InMaps, ContentOf, bucket
    <3>2. ASSUME NEW other \in Kinds \ {kind}
          PROVE  InMaps(other)' = InMaps(other)
      <4>1. bucketOf[other] # None => content'[bucketOf[other]] = content[bucketOf[other]]
        BY <1>6, <2>1 DEF IInv, TypeOK
      <4>2. QED
        BY <1>7, <4>1 DEF InMaps, ContentOf
    <3>3. QED
      BY <3>1, <3>2
  <2>2. CASE bucket # None
    <3>1. InMaps(kind) = ToSet(content[bucket])
      BY <2>2 DEF InMaps, ContentOf, bucket
    <3>2. InMaps(kind)' = ToSet(content'[bucket])
      BY <1>7, <2>2, EmptyToSet DEF InMaps, ContentOf
    <3>3. bucket \in Registrations
      BY <1>2, <2>2
    <3>4. ASSUME NEW other \in Kinds \ {kind}
          PROVE  InMaps(other)' = InMaps(other)
      <4>1. bucketOf[other] # bucket
        BY <1>2, <2>2, BucketsDiffer DEF IInv, bucket
      <4>2. bucketOf[other] # None => content'[bucketOf[other]] = content[bucketOf[other]]
        BY <1>6, <4>1 DEF IInv, TypeOK
      <4>3. QED
        BY <1>7, <4>2 DEF InMaps, ContentOf
    <3>5. QED
      BY <1>6, <2>2, <3>1, <3>2, <3>3, <3>4
  <2>3. QED
    BY <2>1, <2>2
<1>11. EntriesAreActive'
  <2>1. ASSUME NEW other \in Kinds, NEW x \in InMaps(other)'
        PROVE  \E q \in active' : registered'[q] = [kind |-> other, entry |-> x]
    <3>1. x \in InMaps(other) /\ (other # kind \/ x # entry)
      BY <1>10, <2>1
    <3>2. PICK q \in active : registered[q] = [kind |-> other, entry |-> x]
      BY <3>1 DEF IInv, EntriesAreActive, InMaps
    <3>3. q # r
      BY <3>1, <3>2
    <3>4. QED
      BY <1>1, <3>2, <3>3
  <2>2. QED
    BY <2>1 DEF EntriesAreActive, InMaps
<1>12. ActiveAreEntries'
  <2>1. ASSUME NEW q \in active', NEW other \in Kinds, ~Shared(q)',
               registered'[q].kind = other
        PROVE  registered'[q].entry \in InMaps(other)'
    <3>1. q \in active /\ q # r /\ q \in Made /\ ~Shared(q)
      BY <1>1, <1>3, <2>1 DEF IInv, TypeOK
    <3>2. registered[q].kind = other /\ registered[q].entry \in InMaps(other)
      BY <1>1, <2>1, <3>1 DEF IInv, ActiveAreEntries, InMaps
    <3>3. other # kind \/ registered[q].entry # entry
      BY <1>4, <3>1, <3>2
    <3>4. QED
      BY <1>1, <1>10, <3>2, <3>3
  <2>2. \A q \in active' : registered'[q].kind \in Kinds
    BY <1>1, MadeHasEntry DEF IInv, TypeOK
  <2>3. QED
    BY <2>1, <2>2 DEF ActiveAreEntries, InMaps, ContentOf
<1>13. Captured' \subseteq Captured
  BY <1>1, <1>6 DEF IInv, TypeOK, Dispatch, Captured
<1>14. TodoIsFresh' /\ IdleIsIdle' /\ CeasedStaySilent'
  BY <1>1, <1>3, <1>5, <1>13
  DEF IInv, TodoIsFresh, IdleIsIdle, CeasedStaySilent
<1>15. StayersAreAwaited'
  <2>1. ASSUME NEW q \in since'.stayed, ~Shared(q)'
        PROVE  /\ q \in since.stayed /\ ~Shared(q)
               /\ registered[q].kind # kind \/ registered[q].entry # entry
    BY <1>3, <1>4, <1>5, <2>1
  <2>2. ASSUME NEW x \in Captured, kind # "listener" \/ x # entry
        PROVE  x \in Captured'
    <3>1. /\ dispatch.phase = "appliers"
          /\ dispatch.listeners # None
          /\ dispatch.listeners \in Registrations
          /\ registered[dispatch.listeners].kind = "listener"
          /\ x \in ToSet(content[dispatch.listeners])
      BY DEF IInv, BucketsAreOwn, Captured, Made
    <3>2. dispatch.listeners # bucket \/ x # entry
      <4>1. bucket # None => registered[bucket].kind = kind
        BY <1>2 DEF IInv, BucketsAreOwn, bucket
      <4>2. QED
        BY <2>2, <3>1, <4>1
    <3>3. QED
      BY <1>1, <1>6, <3>1, <3>2 DEF Captured
  <2>3. QED
    BY <1>1, <1>5, <2>1, <2>2 DEF IInv, StayersAreAwaited
<1>16. QED
  BY <1>8, <1>9, <1>11, <1>12, <1>14, <1>15 DEF IInv

\* destroy() empties the maps; what is captured keeps its entries.
LEMMA DestroyInv ==
  ASSUME IInv, Destroy
  PROVE  IInv'
<1>1. /\ UNCHANGED <<registered, content, dispatch, running, events>>
      /\ isDestroyed' = TRUE
      /\ bucketOf' = [kind \in Kinds |-> None]
      /\ active' = {}
      /\ since' = [since EXCEPT !.stayed = {}]
  BY DEF Destroy
<1>2. /\ Made' = Made
      /\ Captured' = Captured
  BY <1>1 DEF Made, Captured
<1>3. /\ since' \in [stayed : SUBSET Made, ceased : SUBSET Made, settled : SUBSET Entries]
      /\ since'.stayed = {}
      /\ since'.ceased = since.ceased
  BY <1>1 DEF IInv, TypeOK
<1>4. TypeOK'
  BY <1>1, <1>2, <1>3 DEF IInv, TypeOK
<1>5. BucketsAreOwn'
  BY <1>1, <1>2 DEF IInv, BucketsAreOwn
<1>6. EntriesAreActive' /\ ActiveAreEntries'
  BY <1>1, EmptyToSet DEF EntriesAreActive, ActiveAreEntries, ContentOf
<1>7. TodoIsFresh' /\ IdleIsIdle' /\ CeasedStaySilent' /\ StayersAreAwaited'
  BY <1>1, <1>2, <1>3
  DEF IInv, TodoIsFresh, IdleIsIdle, CeasedStaySilent, StayersAreAwaited
<1>8. QED
  BY <1>4, <1>5, <1>6, <1>7 DEF IInv

\* A step of something else changes nothing here.
LEMMA StutterInv ==
  ASSUME IInv, UNCHANGED vars
  PROVE  IInv'
<1>1. UNCHANGED <<registry, dispatch, running, events, since>>
  BY DEF vars
<1>2. Captured' = Captured
  BY <1>1 DEF Captured, registry
<1>3. QED
  BY <1>1, <1>2, RegistryKept
  DEF IInv, TypeOK, TodoIsFresh, IdleIsIdle, CeasedStaySilent, StayersAreAwaited, registry

\* Every step keeps the invariant.
LEMMA NextInv ==
  ASSUME IInv, [Next]_vars
  PROVE  IInv'
BY RegisterInv, CleanupInv, DestroyInv, ReceiveInv, RefusalInv, CallNextInv, StackInv,
   PhaseInv, StutterInv DEF Next

\* The inductive invariant: user code and the dispatch keep the maps, what is
\* still to be called and the registrations in step.
THEOREM Inductive == Spec => []IInv
<1>1. QED
  BY InitInv, NextInv, PTL DEF Spec

\* Every variable keeps its type, whatever the callbacks do.
THEOREM TypeCorrect == Spec => []TypeOK
<1>1. IInv => TypeOK
  BY DEF IInv
<1>2. QED
  BY <1>1, Inductive, PTL

\* onEvent and registerEventApplier promise every inbound event: when a dispatch is
\* over, each registration that stayed from the arrival on, and shares its function
\* with no other, was called and returned or was reported.
THEOREM StayersCalled == Spec => []StayersAreCalled
<1>1. IInv => StayersAreCalled
  <2> SUFFICES ASSUME IInv, dispatch = Idle, NEW r \in since.stayed, ~Shared(r)
               PROVE  registered[r].entry \in since.settled
    BY DEF StayersAreCalled
  <2>1. /\ ToSet(dispatch.todo) = {}
        /\ Captured = {}
        /\ running \notin Entries
    BY EmptyToSet DEF IInv, IdleIsIdle, Idle, Captured
  <2>2. registered[r].entry \in Entries
    BY MadeHasEntry DEF IInv, TypeOK
  <2>3. QED
    BY <2>1, <2>2 DEF IInv, StayersAreAwaited
<1>2. QED
  BY <1>1, Inductive, PTL

\* The cleanup function and destroy() are final for the events that follow: a
\* callback on the stack belongs to a registration that had not ceased when the
\* event arrived.
THEOREM CeasedSilent == Spec => []CeasedStaySilent
<1>1. IInv => CeasedStaySilent
  BY DEF IInv
<1>2. QED
  BY <1>1, Inductive, PTL
===============================================================================
