-------------------------- MODULE EventEmission_proofs --------------------------
(***************************************************************************)
(* Proofs about EventEmission: EmissionIInv is inductive, and with it, for *)
(* any number of concurrent emissions over any channels and members, any   *)
(* policies and any number of routes,                                      *)
(*   TypeCorrect          the variables keep their types;                  *)
(*   DeliveriesAccounted  every delivery passed is in one list of the      *)
(*                        report;                                          *)
(*   OnlyAllowed          only what every policy allowed is received;      *)
(*   ReceptionIsDelivery  what is received is what the report says;        *)
(*   AudienceCovered      a report covers the audience of its routes.      *)
(*                                                                         *)
(* Emissions share nothing but the inboxes: a step rewrites one of them    *)
(* and may append one arrival (StepKeeps, ContinueArrives).                *)
(***************************************************************************)
EXTENDS EventEmission, SequenceFacts, FiniteSetTheorems

(***************************************************************************)
(* The plan.                                                               *)
(***************************************************************************)

\* A bucket is a sequence of its members, in some order.
LEMMA BucketFacts ==
  ASSUME NEW c \in Channels, NEW order \in BucketOrders
  PROVE  /\ order[c] \in Seq(Members)
         /\ ToSet(order[c]) = MembersOf(c)
<1> DEFINE S == MembersOf(c)
           n == Cardinality(S)
<1>1. S \in SUBSET Members /\ order[c] \in SetToSeqs(S)
  BY DEF MembersOf, BucketOrders
<1> HIDE DEF S
<1>2. IsFiniteSet(S) /\ n \in Nat
  BY <1>1, EmissionAssumption, FS_Subset, FS_CardinalityType
<1>3. order[c] \in [1..n -> S] /\ \A i, j \in 1..n : i # j => order[c][i] # order[c][j]
  BY <1>1 DEF SetToSeqs
<1>4. order[c] \in Injection(1..n, S)
  BY <1>3 DEF Injection, IsInjective
<1>5. Cardinality(1..n) = n
  BY <1>2, FS_Interval
<1>6. order[c] \in Surjection(1..n, S)
  BY <1>2, <1>4, <1>5, FS_Injection
<1>7. order[c] \in Seq(Members) /\ DOMAIN order[c] = 1..n
  BY <1>1, <1>2, <1>3
<1>8. \A m \in S : \E i \in 1..n : order[c][i] = m
  BY <1>6 DEF Surjection
<1>9. QED
  BY <1>3, <1>7, <1>8 DEF ToSet, S

\* A delivery is for this route, and leaves under its channel.
IsFor(delivery, route) ==
  /\ (IF delivery.recipient = None THEN delivery.route
      ELSE MemberScoped(delivery.route, None)) = route
  /\ TransportChannel(delivery.route) = TransportChannel(route)

\* What a route becomes.
LEMMA ExpandFacts ==
  ASSUME NEW route \in Route, NEW order \in BucketOrders
  PROVE  /\ ExpandRoute(route, order) \in Seq(Delivery)
         /\ \A d \in ToSet(ExpandRoute(route, order)) : IsFor(d, route)
         /\ Audience(route) # None =>
              \A m \in MembersOf(route.channel) :
                [route |-> MemberScoped(route, m), recipient |-> m]
                  \in ToSet(ExpandRoute(route, order))
<1>1. CASE Audience(route) = None
  <2>1. [route |-> route, recipient |-> None] \in Delivery
    BY DEF Delivery
  <2>2. ExpandRoute(route, order) = <<[route |-> route, recipient |-> None]>>
    BY <1>1 DEF ExpandRoute
  <2>3. IsFor([route |-> route, recipient |-> None], route)
    BY DEF IsFor
  <2>4. ToSet(ExpandRoute(route, order)) = {[route |-> route, recipient |-> None]}
    BY <2>2 DEF ToSet
  <2>5. ExpandRoute(route, order) \in Seq(Delivery)
    BY <2>1, <2>2
  <2>6. QED
    BY <1>1, <2>3, <2>4, <2>5
<1>2. CASE Audience(route) # None
  <2>1. route \in [target : {"channel"}, channel : Channels, member : Members \cup {None}]
    BY <1>2 DEF Audience, Route
  <2> DEFINE bucket == order[route.channel]
             D(m) == [route |-> MemberScoped(route, m), recipient |-> m]
  <2>2. bucket \in Seq(Members) /\ ToSet(bucket) = MembersOf(route.channel)
    BY <2>1, BucketFacts
  <2>3. \A m \in Members : D(m) \in Delivery
    BY <2>1 DEF Delivery, MemberScoped, Route
  <2>4. ExpandRoute(route, order) = [i \in DOMAIN bucket |-> D(bucket[i])]
    BY <1>2 DEF ExpandRoute
  <2>5. ASSUME NEW m \in Members
         PROVE  IsFor(D(m), route)
    <3>1. m # None /\ route.member = None
      BY <1>2, EmissionAssumption DEF Audience
    <3>2. MemberScoped(MemberScoped(route, m), None) = route
      BY <2>1, <3>1 DEF MemberScoped
    <3>3. TransportChannel(MemberScoped(route, m)) = TransportChannel(route)
      BY <2>1 DEF TransportChannel, MemberScoped
    <3>4. QED
      BY <3>1, <3>2, <3>3 DEF IsFor
  <2> HIDE DEF bucket, D
  <2>6. /\ Len(bucket) \in Nat /\ DOMAIN bucket = 1..Len(bucket)
        /\ \A i \in DOMAIN bucket : bucket[i] \in Members
    BY <2>2
  <2>7. ExpandRoute(route, order) \in [1..Len(bucket) -> Delivery]
    BY <2>3, <2>4, <2>6
  <2>8. ExpandRoute(route, order) \in Seq(Delivery)
    BY <2>6, <2>7
  <2>9. ASSUME NEW m \in MembersOf(route.channel)
        PROVE  D(m) \in ToSet(ExpandRoute(route, order))
    <3>1. PICK i \in DOMAIN bucket : bucket[i] = m
      BY <2>2 DEF ToSet
    <3>2. QED
      BY <2>4, <3>1 DEF ToSet
  <2>10. \A d \in ToSet(ExpandRoute(route, order)) : IsFor(d, route)
    BY <2>4, <2>6, <2>5 DEF ToSet
  <2>11. QED
    BY <2>8, <2>9, <2>10 DEF D
<1>3. QED
  BY <1>1, <1>2

\* The plan is a sequence of deliveries, with one for each member of a routed channel.
LEMMA PlanFacts ==
  ASSUME NEW routes \in Routes, NEW order \in BucketOrders
  PROVE  /\ routes \in Seq(Route)
         /\ Deliveries(routes, order) \in Seq(Delivery)
         /\ \A d \in ToSet(Deliveries(routes, order)) :
              \E route \in ToSet(routes) : IsFor(d, route)
         /\ \A route \in ToSet(routes) : Audience(route) # None =>
              \A m \in MembersOf(route.channel) :
                [route |-> MemberScoped(route, m), recipient |-> m]
                  \in ToSet(Deliveries(routes, order))
<1>1. PICK n \in 0..MaxRoutes : routes \in [1..n -> Route]
  BY DEF Routes
<1>2. routes \in Seq(Route) /\ n \in Nat /\ DOMAIN routes = 1..n
  BY <1>1, EmissionAssumption
<1> DEFINE parts == [i \in DOMAIN routes |-> ExpandRoute(routes[i], order)]
<1>3. \A i \in DOMAIN routes : parts[i] \in Seq(Delivery)
  BY <1>1, ExpandFacts
<1>4. parts \in Seq(Seq(Delivery)) /\ DOMAIN parts = DOMAIN routes
  <2>1. parts \in [1..n -> Seq(Delivery)]
    BY <1>2, <1>3
  <2> HIDE DEF parts
  <2>2. QED
    BY <1>2, <2>1
<1>5. Deliveries(routes, order) = FlattenSeq(parts)
  BY DEF Deliveries
<1>6. \A i \in DOMAIN routes : parts[i] = ExpandRoute(routes[i], order)
  OBVIOUS
<1> HIDE DEF parts
<1>7. /\ Deliveries(routes, order) \in Seq(Delivery)
      /\ ToSet(Deliveries(routes, order)) = UNION {ToSet(parts[i]) : i \in DOMAIN parts}
  BY <1>4, <1>5, Flattened
<1>8. ASSUME NEW route \in ToSet(routes), Audience(route) # None,
             NEW m \in MembersOf(route.channel)
      PROVE  [route |-> MemberScoped(route, m), recipient |-> m]
               \in ToSet(Deliveries(routes, order))
  <2>1. PICK i \in DOMAIN routes : routes[i] = route
    BY DEF ToSet
  <2>2. [route |-> MemberScoped(route, m), recipient |-> m] \in ToSet(parts[i])
    BY <1>1, <1>2, <1>6, <1>8, <2>1, ExpandFacts
  <2>3. QED
    BY <1>4, <1>7, <2>2
<1>9. ASSUME NEW d \in ToSet(Deliveries(routes, order))
      PROVE  \E route \in ToSet(routes) : IsFor(d, route)
  <2>1. PICK i \in DOMAIN routes : d \in ToSet(parts[i])
    BY <1>4, <1>7
  <2>2. routes[i] \in Route /\ routes[i] \in ToSet(routes)
    BY <1>1, <1>2 DEF ToSet
  <2>3. IsFor(d, routes[i])
    BY <1>6, <2>1, <2>2, ExpandFacts
  <2>4. QED
    BY <2>2, <2>3
<1>10. QED
  BY <1>2, <1>7, <1>8, <1>9

(***************************************************************************)
(* One emission.                                                           *)
(***************************************************************************)

\* What the type of an emission says.
LEMMA Unfolded ==
  ASSUME NEW em \in Emission
  PROVE  /\ em.plan \in Seq(Delivery) /\ Len(em.plan) \in Nat
         /\ em.routes \in Seq(Route) /\ em.index \in Nat /\ em.policy \in Nat
         /\ em.delivered \in Seq(Nat) /\ em.denied \in Seq(Nat)
BY DEF Emission

\* A list that grows by the delivery that was passed keeps both lists accounted.
LEMMA OneMore ==
  ASSUME NEW s \in Seq(Nat), NEW t \in Seq(Nat), NEW n \in Nat, Accounted(s, t, n)
  PROVE  Accounted(Append(s, n + 1), t, n + 1) /\ Accounted(t, Append(s, n + 1), n + 1)
<1> DEFINE r == Append(s, n + 1)
<1>1. /\ Len(s) \in Nat /\ DOMAIN s = 1..Len(s)
      /\ DOMAIN r = 1..(Len(s) + 1)
      /\ \A i \in 1..Len(s) : r[i] = s[i]
      /\ r[Len(s) + 1] = n + 1
  OBVIOUS
<1> HIDE DEF r
<1>2. ToSet(r) = ToSet(s) \cup {n + 1}
  BY <1>1 DEF ToSet
<1>3. n + 1 \notin 1..n /\ 1..(n + 1) = (1..n) \cup {n + 1}
  OBVIOUS
<1>4. Increasing(r)
  <2>1. \A i \in 1..Len(s) : s[i] \in 1..n
    BY <1>1 DEF Accounted, ToSet
  <2>2. \A i \in 1..Len(s) : s[i] < n + 1
    BY <2>1
  <2>3. Increasing(s)
    BY DEF Accounted
  <2>4. ASSUME NEW i \in DOMAIN r, NEW j \in DOMAIN r, i < j
        PROVE  r[i] < r[j]
    <3>1. i \in DOMAIN s /\ r[i] = s[i]
      BY <1>1, <2>4
    <3>2. CASE j = Len(s) + 1
      BY <1>1, <2>2, <3>1, <3>2
    <3>3. CASE j # Len(s) + 1
      <4>1. j \in DOMAIN s /\ r[j] = s[j]
        BY <1>1, <3>3
      <4>2. QED
        BY <2>3, <2>4, <3>1, <4>1 DEF Increasing
    <3>4. QED
      BY <3>2, <3>3
  <2>5. QED
    BY <2>4 DEF Increasing
<1>5. ToSet(s) \cup ToSet(t) = 1..n /\ ToSet(s) \cap ToSet(t) = {} /\ Increasing(t)
  BY DEF Accounted
<1>6. QED
  BY <1>2, <1>3, <1>4, <1>5 DEF Accounted, r

\* The loop arrives at a delivery, or at the end of the plan.
LEMMA AtFacts ==
  ASSUME NEW em \in Emission, NEW i \in 1..(Len(em.plan) + 1),
         Accounted(em.delivered, em.denied, i - 1), NEW e, NEW granted
  PROVE  /\ At(em, i) \in Emission
         /\ At(em, i).routes = em.routes /\ At(em, i).plan = em.plan
         /\ At(em, i).index = i /\ At(em, i).delivered = em.delivered
         /\ InPlan(At(em, i)) /\ AskedAllowed(e, At(em, i), granted)
<1>1. Len(em.plan) \in Nat /\ i \in Nat /\ ReceivePolicies \in Nat
  BY Unfolded, EmissionAssumption
<1>2. PICK stage \in {"reported", "delivering", "checking"} :
        /\ stage = IF i > Len(em.plan) THEN "reported"
                   ELSE IF ReceivePolicies = 0 THEN "delivering" ELSE "checking"
        /\ At(em, i) = [em EXCEPT !.index = i, !.policy = 1, !.stage = stage]
  BY DEF At
<1> DEFINE a == At(em, i)
<1>3. /\ a \in Emission /\ a.routes = em.routes /\ a.plan = em.plan
      /\ a.index = i /\ a.policy = 1 /\ a.stage = stage
      /\ a.delivered = em.delivered /\ a.denied = em.denied
  <2>1. stage \in {"idle", "routing", "checking", "delivering", "reported", "failed"}
    OBVIOUS
  <2>2. a = [em EXCEPT !.index = i, !.policy = 1, !.stage = stage]
    BY <1>2
  <2> HIDE DEF a
  <2>3. QED
    BY <1>1, <2>1, <2>2 DEF Emission
<1> HIDE DEF a
<1>4. InPlan(a)
  BY <1>1, <1>2, <1>3 DEF InPlan
<1>5. AskedAllowed(e, a, granted)
  BY <1>1, <1>2, <1>3 DEF AskedAllowed
<1>6. QED
  BY <1>3, <1>4, <1>5 DEF a
(***************************************************************************)
(* Steps.                                                                  *)
(***************************************************************************)

\* A delivery reaches a member's socket or none, under a channel or none.
LEMMA TargetFacts ==
  ASSUME NEW delivery \in Delivery
  PROVE  /\ DeliveryTarget(delivery) \in Members \cup {None}
         /\ TransportChannel(delivery.route) \in Channels \cup {None}
<1>1. delivery.route \in Route
  BY DEF Delivery
<1> DEFINE route == delivery.route
<1> HIDE DEF route
<1>2. /\ route.target = "unusable" \/ route.member \in Members \cup {None}
      /\ route.target = "channel" => route.channel \in Channels
  BY <1>1 DEF Route, route
<1>3. QED
  BY <1>2 DEF DeliveryTarget, TransportChannel, route

\* An arrival at a box: another emission's, which changes nothing for this one, or the
\* next one of its own.
LEMMA OneArrives ==
  ASSUME NEW e, NEW plan, NEW m, NEW emitted, NEW x \in Arrival, NEW box \in Seq(Arrival),
         Received(e, plan, emitted, m, box)
  PROVE  /\ x.emission # e => Received(e, plan, emitted, m, Append(box, x))
         /\ (/\ x.emission = e /\ DeliveryTarget(plan[x.index]) = m
             /\ x.channel = TransportChannel(plan[x.index].route)
             /\ \A i \in emitted : i < x.index)
              => Received(e, plan, emitted \cup {x.index}, m, Append(box, x))
<1> DEFINE after == Append(box, x)
           last == Len(box) + 1
<1>1. /\ Len(box) \in Nat /\ DOMAIN box = 1..Len(box)
      /\ DOMAIN after = (1..Len(box)) \cup {last} /\ last \notin 1..Len(box)
      /\ \A n \in 1..Len(box) : after[n] = box[n] /\ n < last /\ ~ (last < n)
      /\ ~ (last < last)
      /\ after[last] = x
  OBVIOUS
<1> HIDE DEF after, last
<1>2. /\ {box[n].index : n \in ArrivalsOf(e, box)} = {i \in emitted : DeliveryTarget(plan[i]) = m}
      /\ InOrder(box, ArrivalsOf(e, box))
      /\ \A n \in ArrivalsOf(e, box) :
           box[n].channel = TransportChannel(plan[box[n].index].route)
  BY DEF Received
<1>3. CASE x.emission # e
  <2>1. ArrivalsOf(e, after) = ArrivalsOf(e, box)
    BY <1>1, <1>3 DEF ArrivalsOf
  <2>2. \A n \in ArrivalsOf(e, box) : after[n] = box[n]
    BY <1>1 DEF ArrivalsOf
  <2>3. InOrder(after, ArrivalsOf(e, after))
    BY <1>2, <2>1, <2>2 DEF InOrder
  <2>4. {after[n].index : n \in ArrivalsOf(e, after)} = {box[n].index : n \in ArrivalsOf(e, box)}
    BY <2>1, <2>2
  <2>5. Received(e, plan, emitted, m, after)
    BY <1>2, <2>1, <2>2, <2>3, <2>4 DEF Received
  <2>6. QED
    BY <1>3, <2>5 DEF after
<1>4. ASSUME x.emission = e, DeliveryTarget(plan[x.index]) = m,
             x.channel = TransportChannel(plan[x.index].route),
             \A i \in emitted : i < x.index
      PROVE  Received(e, plan, emitted \cup {x.index}, m, after)
  <2>1. ArrivalsOf(e, after) = ArrivalsOf(e, box) \cup {last}
    BY <1>1, <1>4 DEF ArrivalsOf
  <2>2. \A n \in ArrivalsOf(e, box) : after[n] = box[n] /\ n < last /\ ~ (last < n)
    BY <1>1 DEF ArrivalsOf
  <2>3. \A n \in ArrivalsOf(e, box) : box[n].index \in emitted
    BY <1>2
  <2>4. \A n \in ArrivalsOf(e, box) : box[n].index < x.index
    BY <1>4, <2>3
  <2>5. InOrder(after, ArrivalsOf(e, after))
    BY <1>1, <1>2, <2>1, <2>2, <2>4 DEF InOrder
  <2>6. {after[n].index : n \in ArrivalsOf(e, after)}
          = {box[n].index : n \in ArrivalsOf(e, box)} \cup {x.index}
    BY <1>1, <2>1, <2>2
  <2>7. {i \in emitted \cup {x.index} : DeliveryTarget(plan[i]) = m}
          = {i \in emitted : DeliveryTarget(plan[i]) = m} \cup {x.index}
    BY <1>4
  <2>8. \A n \in ArrivalsOf(e, after) :
          after[n].channel = TransportChannel(plan[after[n].index].route)
    BY <1>1, <1>2, <1>4, <2>1, <2>2
  <2>9. QED
    BY <1>2, <2>5, <2>6, <2>7, <2>8 DEF Received
<1>5. QED
  BY <1>3, <1>4 DEF after

\* What is emitted to nobody's or another member's socket leaves a box as it was.
LEMMA NoneArrives ==
  ASSUME NEW e, NEW plan, NEW m, NEW emitted, NEW box, NEW i, DeliveryTarget(plan[i]) # m,
         Received(e, plan, emitted, m, box)
  PROVE  Received(e, plan, emitted \cup {i}, m, box)
<1>1. {j \in emitted \cup {i} : DeliveryTarget(plan[j]) = m}
        = {j \in emitted : DeliveryTarget(plan[j]) = m}
  OBVIOUS
<1>2. QED
  BY <1>1 DEF Received

\* The boxes after an emission goes on with em: its present delivery has reached its
\* target, if it delivers and there is one; other emissions' boxes hold what they held.
LEMMA ContinueHolds ==
  ASSUME EmissionIInv, NEW e \in Emissions, NEW em \in Emission, Continue(e, em), InPlan(em),
         EmittedOf(emission[e]) = ToSet(em.delivered),
         em.plan = emission[e].plan \/ ToSet(em.delivered) = {}
  PROVE  \A d \in Emissions : BoxesHold(d, emission'[d], inbox')
<1>1. /\ emission \in [Emissions -> Emission] /\ inbox \in [Members -> Seq(Arrival)]
      /\ emission' = [emission EXCEPT ![e] = em]
  BY DEF EmissionIInv, EmissionTypeOK, Continue
<1>2. emission'[e] = em /\ \A d \in Emissions : d # e => emission'[d] = emission[d]
  BY <1>1
<1>3. \A d \in Emissions, m \in Members :
        Received(d, emission[d].plan, EmittedOf(emission[d]), m, inbox[m])
  BY DEF EmissionIInv, BoxesHold
<1> DEFINE done == ToSet(em.delivered)
<1>4. ASSUME NEW m \in Members
      PROVE  Received(e, em.plan, done, m, inbox[m])
  <2>1. Received(e, emission[e].plan, done, m, inbox[m])
    BY <1>3
  <2>2. CASE em.plan = emission[e].plan
    BY <2>1, <2>2
  <2>3. CASE done = {}
    <3>1. ArrivalsOf(e, inbox[m]) = {}
      BY <2>1, <2>3 DEF Received
    <3>2. QED
      BY <2>3, <3>1 DEF Received, InOrder
  <2>4. QED
    BY <2>2, <2>3
<1> HIDE DEF done
<1>5. CASE em.stage # "delivering"
  <2>1. UNCHANGED inbox /\ EmittedOf(em) = done
    BY <1>5 DEF Continue, EmittedOf, done
  <2>2. ASSUME NEW d \in Emissions, NEW m \in Members
        PROVE  Received(d, emission'[d].plan, EmittedOf(emission'[d]), m, inbox'[m])
    BY <1>2, <1>3, <1>4, <2>1
  <2>3. QED
    BY <2>2 DEF BoxesHold
<1>6. CASE em.stage = "delivering"
  <2> DEFINE delivery == em.plan[em.index]
             target == DeliveryTarget(delivery)
             arrival == [emission |-> e, index |-> em.index,
                         channel |-> TransportChannel(delivery.route)]
  <2>1. em.index \in 1..Len(em.plan) /\ em.index \in Nat /\ Len(em.plan) \in Nat
        /\ em.plan \in Seq(Delivery)
    BY <1>6, Unfolded DEF InPlan
  <2>2. \A i \in done : i < em.index
    <3>1. Accounted(em.delivered, em.denied, em.index - 1)
      BY <2>1 DEF InPlan
    <3>2. \A i \in done : i \in 1..(em.index - 1)
      BY <3>1 DEF Accounted, done
    <3>3. QED
      BY <2>1, <3>2
  <2>3. delivery \in Delivery
    BY <2>1
  <2>4. EmittedOf(em) = done \cup {em.index}
    BY <1>6 DEF EmittedOf, done
  <2>5. inbox' = IF target = None THEN inbox
                 ELSE [inbox EXCEPT ![target] = Append(@, arrival)]
    BY <1>6 DEF Continue, EmitTo
  <2> HIDE DEF delivery
  <2>6. target \in Members \cup {None} /\ TransportChannel(delivery.route) \in Channels \cup {None}
    BY <2>3, TargetFacts
  <2>7. /\ arrival \in Arrival /\ arrival.emission = e /\ arrival.index = em.index
        /\ arrival.channel = TransportChannel(em.plan[arrival.index].route)
        /\ DeliveryTarget(em.plan[arrival.index]) = target
    BY <2>1, <2>6 DEF Arrival, delivery
  <2> HIDE DEF target, arrival
  <2>8. ASSUME NEW d \in Emissions, NEW m \in Members
        PROVE  Received(d, emission'[d].plan, EmittedOf(emission'[d]), m, inbox'[m])
    <3>1. inbox[m] \in Seq(Arrival)
      BY <1>1
    <3>2. CASE m = target
      <4>1. m # None
        BY EmissionAssumption
      <4>2. inbox'[m] = Append(inbox[m], arrival)
        BY <1>1, <2>5, <3>2, <4>1
      <4>3. CASE d = e
        <5>1. Received(e, em.plan, done \cup {arrival.index}, m, Append(inbox[m], arrival))
          <6>1. \A i \in done : i < arrival.index
            BY <2>2, <2>7
          <6>2. Received(e, em.plan, done, m, inbox[m])
            BY <1>4
          <6>3. DeliveryTarget(em.plan[arrival.index]) = m
            BY <2>7, <3>2
          <6>4. QED
            BY <2>7, <3>1, <6>1, <6>2, <6>3, OneArrives
        <5>2. QED
          BY <1>2, <2>4, <2>7, <4>2, <4>3, <5>1
      <4>4. CASE d # e
        <5>1. Received(d, emission[d].plan, EmittedOf(emission[d]), m, Append(inbox[m], arrival))
          <6>1. Received(d, emission[d].plan, EmittedOf(emission[d]), m, inbox[m])
            BY <1>3
          <6>2. arrival.emission # d
            BY <2>7, <4>4
          <6>3. QED
            BY <2>7, <3>1, <6>1, <6>2, OneArrives
        <5>2. QED
          BY <1>2, <4>2, <4>4, <5>1
      <4>5. QED
        BY <4>3, <4>4
    <3>3. CASE m # target
      <4>1. inbox'[m] = inbox[m]
        BY <1>1, <2>5, <2>6, <3>3
      <4>2. CASE d = e
        <5>1. Received(e, em.plan, done \cup {em.index}, m, inbox[m])
          <6>1. DeliveryTarget(em.plan[em.index]) # m
            BY <2>7, <3>3
          <6>2. Received(e, em.plan, done, m, inbox[m])
            BY <1>4
          <6>3. QED
            BY <6>1, <6>2, NoneArrives
        <5>2. QED
          BY <1>2, <2>4, <4>1, <4>2, <5>1
      <4>3. CASE d # e
        BY <1>2, <1>3, <4>1, <4>3
      <4>4. QED
        BY <4>2, <4>3
    <3>4. QED
      BY <3>2, <3>3
  <2>9. QED
    BY <2>8 DEF BoxesHold
<1>7. QED
  BY <1>5, <1>6

\* What an emission emits when it goes on was allowed.
LEMMA ContinueArrives ==
  ASSUME EmissionIInv, NEW e \in Emissions, NEW em \in Emission, Continue(e, em),
         InPlan(em), AskedAllowed(e, em, allowed'), allowed \subseteq allowed'
  PROVE  /\ emission' = [emission EXCEPT ![e] = em]
         /\ inbox' \in [Members -> Seq(Arrival)]
         /\ OnlyAllowedIsReceived'
<1>1. emission' = [emission EXCEPT ![e] = em]
  BY DEF Continue
<1>2. inbox \in [Members -> Seq(Arrival)] /\ OnlyAllowedIsReceived
  BY DEF EmissionIInv, EmissionTypeOK
<1>3. CASE UNCHANGED inbox
  BY <1>1, <1>2, <1>3 DEF OnlyAllowedIsReceived
<1>4. CASE inbox' # inbox
  <2>1. em.stage = "delivering" /\ EmitTo(e, em)
    BY <1>4 DEF Continue
  <2> DEFINE delivery == em.plan[em.index]
             target == DeliveryTarget(delivery)
             arrival == [emission |-> e, index |-> em.index,
                         channel |-> TransportChannel(delivery.route)]
  <2>2. delivery \in Delivery
    <3>1. em.index \in 1..Len(em.plan) /\ em.plan \in Seq(Delivery)
      BY <2>1, Unfolded DEF InPlan
    <3>2. QED
      BY <3>1
  <2>3. inbox' = [inbox EXCEPT ![target] = Append(@, arrival)] /\ target # None
    BY <1>4, <2>1 DEF EmitTo
  <2> HIDE DEF delivery
  <2>4. target \in Members /\ TransportChannel(delivery.route) \in Channels \cup {None}
    BY <2>2, <2>3, TargetFacts
  <2>5. arrival \in Arrival /\ arrival.emission = e /\ arrival.index = em.index
    BY <2>4, Unfolded DEF Arrival
  <2> HIDE DEF target, arrival
  <2>6. /\ inbox' \in [Members -> Seq(Arrival)]
        /\ inbox'[target] = Append(inbox[target], arrival)
        /\ \A m \in Members : m # target => inbox'[m] = inbox[m]
    BY <1>2, <2>3, <2>4, <2>5
  <2>7. ToSet(Append(inbox[target], arrival)) = ToSet(inbox[target]) \cup {arrival}
    <3>1. inbox[target] \in Seq(Arrival)
      BY <1>2, <2>4
    <3>2. QED
      BY <2>5, <3>1, Appended
  <2>8. ASSUME NEW m \in Members, NEW x \in ToSet(inbox'[m]),
               NEW policy \in 1..ReceivePolicies
        PROVE  <<x.emission, x.index, policy>> \in allowed'
    <3>1. CASE x \in ToSet(inbox[m])
      BY <1>2, <3>1 DEF OnlyAllowedIsReceived
    <3>2. CASE x \notin ToSet(inbox[m])
      <4>1. m = target /\ x = arrival
        BY <2>6, <2>7, <2>8, <3>2
      <4>2. QED
        BY <2>1, <2>5, <4>1 DEF AskedAllowed
    <3>3. QED
      BY <3>1, <3>2
  <2>9. QED
    BY <1>1, <2>6, <2>8 DEF OnlyAllowedIsReceived
<1>5. QED
  BY <1>3, <1>4

\* A step of one emission keeps the others as they are.
LEMMA StepKeeps ==
  ASSUME EmissionIInv, NEW e \in Emissions, NEW em \in Emission,
         emission' = [emission EXCEPT ![e] = em],
         InPlan(em), AskedAllowed(e, em, allowed'), PlanCovers(em, audience'[e]),
         allowed \subseteq allowed',
         allowed' \in SUBSET (Emissions \X Nat \X (1..ReceivePolicies)),
         audience' \in [Emissions -> [Channels -> SUBSET Members]],
         \A d \in Emissions : d # e => audience'[d] = audience[d],
         inbox' \in [Members -> Seq(Arrival)], OnlyAllowedIsReceived',
         PlanIsAsked(em), \A d \in Emissions : BoxesHold(d, emission'[d], inbox')
  PROVE  EmissionIInv'
<1>1. emission \in [Emissions -> Emission]
  BY DEF EmissionIInv, EmissionTypeOK
<1>2. /\ emission' \in [Emissions -> Emission]
      /\ emission'[e] = em
      /\ \A d \in Emissions : d # e => emission'[d] = emission[d]
  BY <1>1
<1>3. EmissionTypeOK'
  BY <1>2 DEF EmissionTypeOK
<1>4. ASSUME NEW d \in Emissions
      PROVE  /\ InPlan(emission'[d])
             /\ AskedAllowed(d, emission'[d], allowed')
             /\ PlanCovers(emission'[d], audience'[d])
             /\ PlanIsAsked(emission'[d])
             /\ BoxesHold(d, emission'[d], inbox')
  <2>1. CASE d = e
    BY <1>2, <2>1
  <2>2. CASE d # e
    <3>1. /\ InPlan(emission[d])
          /\ AskedAllowed(d, emission[d], allowed)
          /\ PlanCovers(emission[d], audience[d])
          /\ PlanIsAsked(emission[d])
      BY DEF EmissionIInv
    <3>2. AskedAllowed(d, emission[d], allowed')
      BY <3>1 DEF AskedAllowed
    <3>3. emission'[d] = emission[d] /\ audience'[d] = audience[d]
      BY <1>2, <2>2
    <3>4. QED
      BY <3>1, <3>2, <3>3
  <2>3. QED
    BY <2>1, <2>2
<1>5. QED
  BY <1>3, <1>4 DEF EmissionIInv

\* The start and the ends of a call.
LEMMA EndingSteps ==
  ASSUME EmissionIInv, NEW e \in Emissions,
         EmitEvent(e) \/ RefuseEvent(e) \/ RouterFails(e) \/ PolicyThrows(e) \/ DelivererFails(e)
  PROVE  EmissionIInv'
<1>1. emission[e] \in Emission
  BY DEF EmissionIInv, EmissionTypeOK
<1>2. PICK stage \in {"routing", "failed"} :
        /\ stage = "routing" => emission[e].stage = "idle"
        /\ emission' = [emission EXCEPT ![e] = [emission[e] EXCEPT !.stage = stage]]
  <2>1. emission \in [Emissions -> Emission]
    BY DEF EmissionIInv, EmissionTypeOK
  <2>2. CASE EmitEvent(e)
    BY <2>1, <2>2 DEF EmitEvent
  <2>3. CASE ~ EmitEvent(e)
    BY <2>1, <2>3 DEF RefuseEvent, RouterFails, PolicyThrows, DelivererFails, Failed
  <2>4. QED
    BY <2>2, <2>3
<1>3. UNCHANGED <<inbox, allowed, audience>>
  BY DEF EmitEvent, RefuseEvent, RouterFails, PolicyThrows, DelivererFails, Failed
<1> DEFINE em == [emission[e] EXCEPT !.stage = stage]
<1>4. /\ em \in Emission /\ em.stage = stage
      /\ em.index = emission[e].index /\ em.plan = emission[e].plan
      /\ em.routes = emission[e].routes /\ em.policy = emission[e].policy
      /\ em.delivered = emission[e].delivered /\ em.denied = emission[e].denied
  <2>1. stage \in {"idle", "routing", "checking", "delivering", "reported", "failed"}
    OBVIOUS
  <2>2. QED
    BY <1>1, <2>1 DEF Emission
<1> HIDE DEF em
<1>5. /\ InPlan(emission[e]) /\ PlanCovers(emission[e], audience[e])
      /\ PlanIsAsked(emission[e])
      /\ inbox \in [Members -> Seq(Arrival)] /\ OnlyAllowedIsReceived
      /\ allowed \in SUBSET (Emissions \X Nat \X (1..ReceivePolicies))
      /\ audience \in [Emissions -> [Channels -> SUBSET Members]]
  BY DEF EmissionIInv, EmissionTypeOK
<1>6. InPlan(em) /\ AskedAllowed(e, em, allowed') /\ PlanCovers(em, audience'[e])
  BY <1>2, <1>3, <1>4, <1>5 DEF InPlan, AskedAllowed, PlanCovers
<1>7. OnlyAllowedIsReceived'
  BY <1>3, <1>5 DEF OnlyAllowedIsReceived
<1>8. PlanIsAsked(em)
  BY <1>4, <1>5 DEF PlanIsAsked, Asked
<1>9. emission' = [emission EXCEPT ![e] = em]
  BY <1>2 DEF em
<1>10. ASSUME NEW d \in Emissions
       PROVE  BoxesHold(d, emission'[d], inbox')
  <2>1. BoxesHold(d, emission[d], inbox) /\ emission \in [Emissions -> Emission]
    BY DEF EmissionIInv, EmissionTypeOK
  <2>2. CASE d # e
    BY <1>3, <1>9, <2>1, <2>2
  <2>3. CASE d = e
    <3>1. EmittedOf(em) = ToSet(em.delivered)
      BY <1>2, <1>4 DEF EmittedOf
    <3>2. CASE emission[e].stage # "delivering"
      <4>1. EmittedOf(emission[e]) = EmittedOf(em)
        BY <1>4, <3>1, <3>2 DEF EmittedOf
      <4>2. QED
        BY <1>3, <1>4, <1>9, <2>1, <2>3, <4>1 DEF BoxesHold
    <3>3. CASE emission[e].stage = "delivering"
      <4>1. DeliveryTarget(em.plan[em.index]) = None
        BY <1>4, <3>3 DEF EmitEvent, RefuseEvent, RouterFails, PolicyThrows, DelivererFails
      <4>2. EmittedOf(emission[e]) = EmittedOf(em) \cup {em.index}
        BY <1>4, <3>1, <3>3 DEF EmittedOf
      <4>3. ASSUME NEW m \in Members
            PROVE  Received(e, em.plan, EmittedOf(em), m, inbox[m])
        <5>1. Received(e, em.plan, EmittedOf(em) \cup {em.index}, m, inbox[m])
          BY <1>4, <2>1, <2>3, <4>2 DEF BoxesHold
        <5>2. DeliveryTarget(em.plan[em.index]) # m
          BY <4>1, EmissionAssumption
        <5>3. {i \in EmittedOf(em) \cup {em.index} : DeliveryTarget(em.plan[i]) = m}
                = {i \in EmittedOf(em) : DeliveryTarget(em.plan[i]) = m}
          BY <5>2
        <5>4. QED
          BY <5>1, <5>3 DEF Received
      <4>4. emission'[d] = em /\ inbox' = inbox
        BY <1>3, <1>9, <2>1, <2>3
      <4>5. QED
        BY <2>3, <4>3, <4>4 DEF BoxesHold
    <3>4. QED
      BY <3>2, <3>3
  <2>4. QED
    BY <2>2, <2>3
<1>11. QED
  BY <1>3, <1>4, <1>5, <1>6, <1>7, <1>8, <1>9, <1>10, StepKeeps

\* The loop goes on with em, in the plan it has.
LEMMA LoopSteps ==
  ASSUME EmissionIInv, NEW e \in Emissions, NEW em \in Emission, Continue(e, em),
         emission[e].index > 0, em.plan = emission[e].plan, em.routes = emission[e].routes,
         InPlan(em), AskedAllowed(e, em, allowed'),
         EmittedOf(emission[e]) = ToSet(em.delivered),
         \A i \in ToSet(em.delivered) : DeliveryTarget(em.plan[i]) # None,
         allowed \subseteq allowed',
         allowed' \in SUBSET (Emissions \X Nat \X (1..ReceivePolicies)),
         UNCHANGED audience
  PROVE  EmissionIInv'
<1>1. /\ emission' = [emission EXCEPT ![e] = em]
      /\ inbox' \in [Members -> Seq(Arrival)]
      /\ OnlyAllowedIsReceived'
  BY ContinueArrives
<1>2. /\ PlanCovers(emission[e], audience[e])
      /\ audience \in [Emissions -> [Channels -> SUBSET Members]]
  BY DEF EmissionIInv, EmissionTypeOK
<1>3. PlanCovers(em, audience'[e])
  BY <1>2 DEF PlanCovers
<1>4. PlanIsAsked(em)
  <2>1. PlanIsAsked(emission[e])
    BY DEF EmissionIInv
  <2>2. QED
    BY <2>1 DEF PlanIsAsked, Asked
<1>5. \A d \in Emissions : BoxesHold(d, emission'[d], inbox')
  BY ContinueHolds
<1>6. QED
  BY <1>1, <1>2, <1>3, <1>4, <1>5, StepKeeps


\* The router returns: the plan covers the audience of this moment.
LEMMA RouterReturnsStep ==
  ASSUME EmissionIInv, NEW e \in Emissions, RouterReturns(e)
  PROVE  EmissionIInv'
<1>1. PICK routes \in Routes, order \in BucketOrders :
        Continue(e, At([emission[e] EXCEPT !.routes = routes,
                                           !.plan = Deliveries(routes, order)], 1))
  BY DEF RouterReturns
<1> DEFINE plan == Deliveries(routes, order)
           planned == [emission[e] EXCEPT !.routes = routes, !.plan = plan]
           em == At(planned, 1)
<1>2. emission[e] \in Emission /\ emission[e].stage = "routing" /\ InPlan(emission[e])
  BY DEF EmissionIInv, EmissionTypeOK, RouterReturns
<1>3. /\ routes \in Seq(Route) /\ plan \in Seq(Delivery)
      /\ \A d \in ToSet(plan) : \E route \in ToSet(routes) : IsFor(d, route)
      /\ \A route \in ToSet(routes) : Audience(route) # None =>
           \A m \in MembersOf(route.channel) :
             [route |-> MemberScoped(route, m), recipient |-> m] \in ToSet(plan)
  BY PlanFacts
<1> HIDE DEF plan
<1>4. /\ planned \in Emission
      /\ planned.routes = routes /\ planned.plan = plan
      /\ planned.delivered = emission[e].delivered /\ planned.denied = emission[e].denied
  BY <1>2, <1>3 DEF Emission
<1> HIDE DEF planned
<1>5. Accounted(planned.delivered, planned.denied, 0)
  <2>1. planned.delivered = <<>> /\ planned.denied = <<>>
    BY <1>2, <1>4 DEF InPlan
  <2>2. ToSet(<<>>) \cup ToSet(<<>>) = 1..0
    BY EmptyToSet
  <2>3. Increasing(<<>>)
    BY DEF Increasing
  <2>4. QED
    BY <2>1, <2>2, <2>3, EmptyToSet DEF Accounted
<1>6. 1 \in 1..(Len(planned.plan) + 1) /\ 1 - 1 = 0
  BY <1>4, Unfolded
<1>7. /\ em \in Emission
      /\ em.routes = planned.routes /\ em.plan = planned.plan
      /\ em.index = 1 /\ em.delivered = planned.delivered
      /\ InPlan(em) /\ AskedAllowed(e, em, allowed')
  BY <1>4, <1>5, <1>6, AtFacts
<1>8. Continue(e, em)
  BY <1>1 DEF planned, plan
<1> HIDE DEF em
<1>9. /\ UNCHANGED allowed
      /\ audience' = [audience EXCEPT ![e] = [c \in Channels |-> MembersOf(c)]]
  BY DEF RouterReturns
<1>10. /\ audience \in [Emissions -> [Channels -> SUBSET Members]]
       /\ allowed \in SUBSET (Emissions \X Nat \X (1..ReceivePolicies))
  BY DEF EmissionIInv, EmissionTypeOK
<1>11. /\ audience' \in [Emissions -> [Channels -> SUBSET Members]]
       /\ audience'[e] = [c \in Channels |-> MembersOf(c)]
       /\ \A d \in Emissions : d # e => audience'[d] = audience[d]
  <2>1. [c \in Channels |-> MembersOf(c)] \in [Channels -> SUBSET Members]
    BY DEF MembersOf
  <2>2. QED
    BY <1>9, <1>10, <2>1
<1>12. PlanCovers(em, audience'[e])
  <2>1. ASSUME NEW route \in ToSet(routes), Audience(route) # None,
               NEW m \in audience'[e][route.channel]
        PROVE  \E i \in 1..Len(plan) :
                 plan[i] = [route |-> MemberScoped(route, m), recipient |-> m]
    <3>1. route.channel \in Channels
      <4>1. route \in Route
        BY <1>3 DEF ToSet
      <4>2. QED
        BY <2>1, <4>1 DEF Route, Audience
    <3>2. m \in MembersOf(route.channel)
      BY <1>11, <3>1
    <3>3. [route |-> MemberScoped(route, m), recipient |-> m] \in ToSet(plan)
      BY <1>3, <2>1, <3>2
    <3>4. QED
      BY <1>3, <3>3 DEF ToSet
  <2>2. QED
    BY <1>4, <1>7, <2>1 DEF PlanCovers
<1>13. allowed \subseteq allowed'
  BY <1>9
<1>14. /\ emission' = [emission EXCEPT ![e] = em]
       /\ inbox' \in [Members -> Seq(Arrival)]
       /\ OnlyAllowedIsReceived'
  BY <1>7, <1>8, <1>13, ContinueArrives
<1>15. ToSet(em.delivered) = {} /\ EmittedOf(emission[e]) = {}
  <2>1. emission[e].delivered = <<>> /\ em.delivered = <<>>
    BY <1>2, <1>4, <1>7 DEF InPlan
  <2>2. QED
    BY <1>2, <2>1, EmptyToSet DEF EmittedOf
<1>16. PlanIsAsked(em)
  <2>1. ASSUME NEW i \in 1..Len(plan)
        PROVE  \E route \in ToSet(routes) : IsFor(plan[i], route)
    <3>1. plan[i] \in ToSet(plan)
      BY <1>3 DEF ToSet
    <3>2. QED
      BY <1>3, <3>1
  <2>2. QED
    BY <1>4, <1>7, <1>15, <2>1 DEF PlanIsAsked, Asked, IsFor
<1>17. \A d \in Emissions : BoxesHold(d, emission'[d], inbox')
  BY <1>7, <1>8, <1>15, ContinueHolds
<1>18. QED
  BY <1>7, <1>9, <1>10, <1>11, <1>12, <1>13, <1>14, <1>16, <1>17, StepKeeps

\* What is known of an emission in its loop.
LEMMA InLoop ==
  ASSUME EmissionIInv, NEW e \in Emissions,
         emission[e].stage \in {"checking", "delivering"}
  PROVE  LET em == emission[e]
         IN  /\ em \in Emission /\ em.index > 0
             /\ em.index \in Nat /\ em.index + 1 \in 1..(Len(em.plan) + 1)
             /\ em.delivered \in Seq(Nat) /\ em.denied \in Seq(Nat)
             /\ Accounted(em.delivered, em.denied, em.index - 1)
             /\ AskedAllowed(e, em, allowed)
             /\ \A i \in ToSet(em.delivered) : DeliveryTarget(em.plan[i]) # None
<1> DEFINE em == emission[e]
<1>1. /\ em \in Emission /\ InPlan(em) /\ AskedAllowed(e, em, allowed)
      /\ \A i \in ToSet(em.delivered) : DeliveryTarget(em.plan[i]) # None
  BY DEF PlanIsAsked, EmissionIInv, EmissionTypeOK
<1>2. em.stage \in {"checking", "delivering"}
  OBVIOUS
<1> HIDE DEF em
<1>3. /\ Len(em.plan) \in Nat /\ em.index \in Nat
      /\ em.delivered \in Seq(Nat) /\ em.denied \in Seq(Nat)
  BY <1>1, Unfolded
<1>4. em.index \in 1..Len(em.plan)
  BY <1>1, <1>2 DEF InPlan
<1>5. em.index # 0
  BY <1>3, <1>4
<1>6. Accounted(em.delivered, em.denied, em.index - 1)
  BY <1>1, <1>5 DEF InPlan
<1>7. em.index > 0 /\ em.index + 1 \in 1..(Len(em.plan) + 1)
  BY <1>3, <1>4
<1>8. QED
  BY <1>1, <1>3, <1>6, <1>7 DEF em

\* The loop passes a delivery: it is noted in one of the lists.
LEMMA PassingSteps ==
  ASSUME EmissionIInv, NEW e \in Emissions, PolicyDenies(e) \/ DelivererDelivers(e)
  PROVE  EmissionIInv'
<1>1. emission[e].stage \in {"checking", "delivering"}
  BY DEF PolicyDenies, DelivererDelivers
<1> DEFINE em == emission[e]
<1>2. /\ em \in Emission /\ em.index > 0
      /\ em.index \in Nat /\ em.index + 1 \in 1..(Len(em.plan) + 1)
      /\ em.delivered \in Seq(Nat) /\ em.denied \in Seq(Nat)
      /\ Accounted(em.delivered, em.denied, em.index - 1)
  BY <1>1, InLoop
<1>3. PICK noted \in {[em EXCEPT !.denied = Append(@, em.index)],
                      [em EXCEPT !.delivered = Append(@, em.index)]} :
        /\ Continue(e, At(noted, em.index + 1))
        /\ \/ /\ noted = [em EXCEPT !.denied = Append(@, em.index)]
              /\ em.stage = "checking"
           \/ /\ noted = [em EXCEPT !.delivered = Append(@, em.index)]
              /\ em.stage = "delivering" /\ DeliveryTarget(em.plan[em.index]) # None
  BY DEF PolicyDenies, DelivererDelivers
<1>4. \A i \in ToSet(em.delivered) : DeliveryTarget(em.plan[i]) # None
  BY <1>1, InLoop
<1>5. UNCHANGED <<allowed, audience>>
  BY DEF PolicyDenies, DelivererDelivers
<1> HIDE DEF em
<1>6. /\ noted \in Emission /\ noted.plan = em.plan /\ noted.routes = em.routes
      /\ \/ /\ noted.delivered = em.delivered /\ noted.denied = Append(em.denied, em.index)
            /\ em.stage = "checking"
         \/ /\ noted.delivered = Append(em.delivered, em.index) /\ noted.denied = em.denied
            /\ em.stage = "delivering" /\ DeliveryTarget(em.plan[em.index]) # None
  <2>1. Append(em.denied, em.index) \in Seq(Nat) /\ Append(em.delivered, em.index) \in Seq(Nat)
    BY <1>2
  <2>2. CASE noted = [em EXCEPT !.denied = Append(@, em.index)] /\ em.stage = "checking"
    BY <1>2, <2>1, <2>2 DEF Emission
  <2>3. CASE /\ noted = [em EXCEPT !.delivered = Append(@, em.index)]
             /\ em.stage = "delivering" /\ DeliveryTarget(em.plan[em.index]) # None
    BY <1>2, <2>1, <2>3 DEF Emission
  <2>4. QED
    BY <1>3, <2>2, <2>3
<1>7. Accounted(noted.delivered, noted.denied, (em.index + 1) - 1)
  <2>1. em.index - 1 \in Nat /\ em.index - 1 + 1 = em.index /\ (em.index + 1) - 1 = em.index
    BY <1>2
  <2>2. Accounted(em.denied, em.delivered, em.index - 1)
    BY <1>2 DEF Accounted
  <2>3. /\ Accounted(em.delivered, Append(em.denied, em.index), em.index)
        /\ Accounted(Append(em.delivered, em.index), em.denied, em.index)
    <3>1. ASSUME NEW n \in Nat, n = em.index - 1
          PROVE  /\ Accounted(em.delivered, Append(em.denied, n + 1), n + 1)
                 /\ Accounted(Append(em.delivered, n + 1), em.denied, n + 1)
      BY <1>2, <2>2, <3>1, OneMore
    <3>2. QED
      BY <2>1, <3>1
  <2>4. QED
    BY <1>6, <2>1, <2>3
<1>8. /\ EmittedOf(em) = ToSet(noted.delivered)
       /\ \A i \in ToSet(noted.delivered) : DeliveryTarget(noted.plan[i]) # None
  <2>1. ToSet(Append(em.delivered, em.index)) = ToSet(em.delivered) \cup {em.index}
    BY <1>2, Appended
  <2>2. QED
    BY <1>6, <1>4, <2>1 DEF EmittedOf
<1> DEFINE next == At(noted, em.index + 1)
<1>9. /\ next \in Emission /\ next.routes = em.routes /\ next.plan = em.plan
      /\ next.delivered = noted.delivered
      /\ InPlan(next) /\ AskedAllowed(e, next, allowed')
  BY <1>2, <1>6, <1>7, AtFacts
<1>10. Continue(e, next)
  BY <1>3
<1> HIDE DEF next
<1>11. allowed \in SUBSET (Emissions \X Nat \X (1..ReceivePolicies))
  BY DEF EmissionIInv, EmissionTypeOK
<1>12. /\ EmittedOf(em) = ToSet(next.delivered)
       /\ \A i \in ToSet(next.delivered) : DeliveryTarget(next.plan[i]) # None
  BY <1>6, <1>9, <1>8
<1>13. QED
  BY <1>2, <1>5, <1>9, <1>10, <1>11, <1>12, LoopSteps DEF em

\* A policy allows: the next one is asked, or the deliverer called.
LEMMA PolicyAllowsStep ==
  ASSUME EmissionIInv, NEW e \in Emissions, PolicyAllows(e)
  PROVE  EmissionIInv'
<1> DEFINE em == emission[e]
<1>1. em.stage = "checking"
  BY DEF PolicyAllows
<1>2. /\ em \in Emission /\ em.index > 0 /\ em.index \in Nat
      /\ AskedAllowed(e, em, allowed)
      /\ \A i \in ToSet(em.delivered) : DeliveryTarget(em.plan[i]) # None
  BY <1>1, InLoop
<1>3. /\ InPlan(em)
      /\ allowed \in SUBSET (Emissions \X Nat \X (1..ReceivePolicies))
  BY DEF EmissionIInv, EmissionTypeOK
<1>4. /\ allowed' = allowed \cup {<<e, em.index, em.policy>>}
      /\ Continue(e, IF em.policy < ReceivePolicies THEN [em EXCEPT !.policy = @ + 1]
                     ELSE [em EXCEPT !.stage = "delivering"])
      /\ UNCHANGED audience
  BY DEF PolicyAllows
<1> HIDE DEF em
<1>5. ReceivePolicies \in Nat /\ em.policy \in 1..ReceivePolicies
  BY <1>1, <1>3, EmissionAssumption DEF InPlan
<1>6. PICK next : next = IF em.policy < ReceivePolicies THEN [em EXCEPT !.policy = @ + 1]
                         ELSE [em EXCEPT !.stage = "delivering"]
  OBVIOUS
<1>7. /\ next \in Emission /\ next.routes = em.routes /\ next.plan = em.plan
      /\ next.index = em.index
      /\ next.delivered = em.delivered /\ next.denied = em.denied
      /\ \/ /\ em.policy < ReceivePolicies
            /\ next.stage = "checking" /\ next.policy = em.policy + 1
         \/ em.policy = ReceivePolicies /\ next.stage = "delivering"
  <2>1. CASE em.policy < ReceivePolicies
    <3>1. em.policy + 1 \in Nat
      BY <1>5
    <3>2. QED
      BY <1>1, <1>2, <1>6, <2>1, <3>1 DEF Emission
  <2>2. CASE ~ (em.policy < ReceivePolicies)
    <3>1. em.policy = ReceivePolicies
      BY <1>5, <2>2
    <3>2. QED
      BY <1>2, <1>6, <2>2, <3>1 DEF Emission
  <2>3. QED
    BY <2>1, <2>2
<1>8. InPlan(next)
  BY <1>1, <1>2, <1>3, <1>5, <1>7 DEF InPlan
<1>9. AskedAllowed(e, next, allowed')
  <2>1. \A policy \in 1..em.policy : <<e, em.index, policy>> \in allowed'
    <3> TAKE policy \in 1..em.policy
    <3>1. policy = em.policy \/ policy \in 1..(em.policy - 1)
      BY <1>5
    <3>2. QED
      BY <1>1, <1>2, <1>4, <3>1 DEF AskedAllowed
  <2>2. CASE next.stage = "checking"
    <3>1. next.policy - 1 = em.policy
      BY <1>5, <1>7, <2>2
    <3>2. QED
      BY <1>7, <2>1, <2>2, <3>1 DEF AskedAllowed
  <2>3. CASE next.stage = "delivering"
    BY <1>7, <2>1, <2>3 DEF AskedAllowed
  <2>4. QED
    BY <1>7, <2>2, <2>3
<1>10. /\ allowed \subseteq allowed'
       /\ allowed' \in SUBSET (Emissions \X Nat \X (1..ReceivePolicies))
  BY <1>2, <1>3, <1>4, <1>5
<1>11. Continue(e, next)
  BY <1>4, <1>6
<1>12. /\ EmittedOf(em) = ToSet(next.delivered)
       /\ \A i \in ToSet(next.delivered) : DeliveryTarget(next.plan[i]) # None
  BY <1>1, <1>2, <1>7 DEF EmittedOf
<1>13. QED
  BY <1>2, <1>4, <1>7, <1>8, <1>9, <1>10, <1>11, <1>12, LoopSteps DEF em

(***************************************************************************)
(* The theorems.                                                           *)
(***************************************************************************)

\* Nothing has been emitted at first.
LEMMA InitInv == EmissionInit => EmissionIInv
<1> SUFFICES ASSUME EmissionInit
             PROVE  EmissionIInv
  OBVIOUS
<1>1. /\ emission = [e \in Emissions |-> NoEmission]
      /\ inbox = [m \in Members |-> <<>>]
      /\ allowed = {}
      /\ audience = [e \in Emissions |-> [c \in Channels |-> {}]]
  BY DEF EmissionInit
<1>2. NoEmission \in Emission
  BY DEF NoEmission, Emission
<1>3. InPlan(NoEmission)
  BY DEF InPlan, NoEmission
<1>4. ASSUME NEW e \in Emissions
      PROVE  /\ AskedAllowed(e, NoEmission, allowed)
             /\ PlanCovers(NoEmission, audience[e])
  BY DEF AskedAllowed, PlanCovers, NoEmission
<1>5. EmissionTypeOK
  BY <1>1, <1>2 DEF EmissionTypeOK
<1>6. OnlyAllowedIsReceived
  BY <1>1, EmptyToSet DEF OnlyAllowedIsReceived
<1>7. \A e \in Emissions : emission[e] = NoEmission
  BY <1>1
<1>8. PlanIsAsked(NoEmission)
  BY EmptyToSet DEF PlanIsAsked, NoEmission
<1>9. ASSUME NEW e \in Emissions
      PROVE  BoxesHold(e, NoEmission, inbox)
  <2>1. EmittedOf(NoEmission) = {}
    BY EmptyToSet DEF EmittedOf, NoEmission
  <2>2. ASSUME NEW m \in Members
        PROVE  Received(e, NoEmission.plan, {}, m, inbox[m])
    <3>1. inbox[m] = <<>> /\ ArrivalsOf(e, <<>>) = {}
      BY <1>1 DEF ArrivalsOf
    <3>2. QED
      BY <3>1 DEF Received, InOrder
  <2>3. QED
    BY <2>1, <2>2 DEF BoxesHold
<1>10. QED
  BY <1>3, <1>4, <1>5, <1>6, <1>7, <1>8, <1>9 DEF EmissionIInv

\* Every step, those of the roster and stutters included, keeps the invariant.
LEMMA NextInv == EmissionIInv /\ [EmissionNext]_allVars => EmissionIInv'
<1> SUFFICES ASSUME EmissionIInv, [EmissionNext]_allVars
             PROVE  EmissionIInv'
  OBVIOUS
<1>1. ASSUME NEW e \in Emissions, Emit(e)
      PROVE  EmissionIInv'
  BY <1>1, EndingSteps, RouterReturnsStep, PassingSteps, PolicyAllowsStep DEF Emit
<1>2. CASE UNCHANGED emissionVars
  <2>1. UNCHANGED <<emission, inbox, allowed, audience>>
    BY <1>2 DEF emissionVars
  <2>2. EmissionTypeOK' /\ OnlyAllowedIsReceived'
    BY <2>1 DEF EmissionIInv, EmissionTypeOK, OnlyAllowedIsReceived
  <2>3. ASSUME NEW e \in Emissions
        PROVE  /\ InPlan(emission'[e])
               /\ AskedAllowed(e, emission'[e], allowed')
               /\ PlanCovers(emission'[e], audience'[e])
               /\ PlanIsAsked(emission'[e])
               /\ BoxesHold(e, emission'[e], inbox')
    BY <2>1 DEF EmissionIInv
  <2>4. QED
    BY <2>2, <2>3 DEF EmissionIInv
<1>3. QED
  BY <1>1, <1>2 DEF EmissionNext, allVars, emissionVars

\* What is known of every emission holds from the start and forever.
THEOREM Inductive == EmissionSpec => []EmissionIInv
BY InitInv, NextInv, PTL DEF EmissionSpec

\* The variables keep their types: a plan is a sequence of deliveries, and an arrival
\* names a channel or none.
THEOREM TypeCorrect == EmissionSpec => []EmissionTypeOK
<1>1. EmissionIInv => EmissionTypeOK
  BY DEF EmissionIInv
<1>2. QED
  BY <1>1, Inductive, PTL

\* The report has every delivery that was passed, in one list and in order, for any
\* number of routes, members and policies.
THEOREM DeliveriesAccounted == EmissionSpec => []EveryDeliveryAccounted
<1>1. ASSUME EmissionIInv
      PROVE  EveryDeliveryAccounted
  <2>1. ASSUME NEW e \in Emissions, emission[e].index > 0
        PROVE  Accounted(emission[e].delivered, emission[e].denied,
                         IF emission[e].stage = "reported" THEN Len(emission[e].plan)
                         ELSE emission[e].index - 1)
    <3> DEFINE em == emission[e]
    <3>1. em \in Emission /\ InPlan(em)
      BY <1>1 DEF EmissionIInv, EmissionTypeOK
    <3>2. em.index > 0
      BY <2>1
    <3> HIDE DEF em
    <3>3. Len(em.plan) \in Nat /\ em.index \in Nat
      BY <3>1, Unfolded
    <3>4. Accounted(em.delivered, em.denied, em.index - 1)
      BY <3>1, <3>2, <3>3 DEF InPlan
    <3>5. em.stage = "reported" => em.index - 1 = Len(em.plan)
      BY <3>1, <3>3 DEF InPlan
    <3>6. QED
      BY <3>4, <3>5 DEF em
  <2>2. QED
    BY <2>1 DEF EveryDeliveryAccounted
<1>2. QED
  BY <1>1, Inductive, PTL

\* Nothing reaches a socket without the consent of every receive policy, however many
\* emissions run at once.
THEOREM OnlyAllowed == EmissionSpec => []OnlyAllowedIsReceived
<1>1. EmissionIInv => OnlyAllowedIsReceived
  BY DEF EmissionIInv
<1>2. QED
  BY <1>1, Inductive, PTL

\* What a member receives from an emission is what its report lists as delivered to that
\* member, once, in order and under the channel the router named; also when the call
\* failed half-way, and whatever other emissions do to the same box.
THEOREM ReceptionIsDelivery == EmissionSpec => []ReceivedIsDelivered
<1>1. ASSUME EmissionIInv
      PROVE  ReceivedIsDelivered
  <2>1. ASSUME NEW e \in Emissions, NEW m \in Members,
               emission[e].stage \in {"reported", "failed"}
        PROVE  LET em == emission[e]
                   box == inbox[m]
                   got == ArrivalsOf(e, box)
               IN /\ {box[n].index : n \in got}
                       = {i \in ToSet(em.delivered) : em.plan[i].route.member = m}
                  /\ InOrder(box, got)
                  /\ \A n \in got : \E route \in ToSet(em.routes) :
                       /\ Asked(em, box[n].index) = route
                       /\ box[n].channel = TransportChannel(route)
    <3> DEFINE em == emission[e]
               box == inbox[m]
               got == ArrivalsOf(e, box)
    <3>1. /\ em \in Emission /\ InPlan(em) /\ PlanIsAsked(em)
          /\ Received(e, em.plan, EmittedOf(em), m, box)
      BY <1>1 DEF EmissionIInv, EmissionTypeOK, BoxesHold
    <3>2. EmittedOf(em) = ToSet(em.delivered)
      BY <2>1 DEF EmittedOf
    <3> HIDE DEF em, box
    <3>3. /\ {box[n].index : n \in got}
               = {i \in ToSet(em.delivered) : DeliveryTarget(em.plan[i]) = m}
          /\ InOrder(box, got)
          /\ \A n \in got : box[n].channel = TransportChannel(em.plan[box[n].index].route)
      BY <3>1, <3>2 DEF Received
    <3>4. \A i \in ToSet(em.delivered) : DeliveryTarget(em.plan[i]) = em.plan[i].route.member
      BY <3>1 DEF PlanIsAsked, DeliveryTarget
    <3>5. ToSet(em.delivered) \subseteq 1..Len(em.plan)
      <4>1. em.index \in Nat /\ Len(em.plan) \in Nat
        BY <3>1, Unfolded
      <4>2. CASE em.index = 0
        <5>1. ToSet(em.delivered) = {}
          BY <3>1, <4>2, EmptyToSet DEF InPlan
        <5>2. QED
          BY <5>1
      <4>3. CASE em.index # 0
        <5>1. ToSet(em.delivered) \subseteq 1..(em.index - 1)
          BY <3>1, <4>3 DEF InPlan, Accounted
        <5>2. em.index <= Len(em.plan) + 1
          BY <3>1 DEF InPlan
        <5>3. QED
          BY <4>1, <5>1, <5>2
      <4>4. QED
        BY <4>2, <4>3
    <3> HIDE DEF got
    <3>6. \A n \in got : box[n].index \in 1..Len(em.plan)
      BY <3>3, <3>5
    <3>7. \A n \in got : \E route \in ToSet(em.routes) :
            /\ Asked(em, box[n].index) = route
            /\ box[n].channel = TransportChannel(route)
      BY <3>1, <3>3, <3>6 DEF PlanIsAsked
    <3>8. QED
      BY <3>3, <3>4, <3>7 DEF em, box, got
  <2>2. QED
    BY <2>1 DEF ReceivedIsDelivered, TransportChannel
<1>2. QED
  BY <1>1, Inductive, PTL

\* A report covers the members that a routed channel had when the router returned,
\* whoever joins or leaves meanwhile.
THEOREM AudienceCovered == EmissionSpec => []AudienceIsCovered
<1>1. ASSUME EmissionIInv
      PROVE  AudienceIsCovered
  <2>1. ASSUME NEW e \in Emissions, emission[e].stage = "reported",
               NEW route \in ToSet(emission[e].routes), Audience(route) # None,
               NEW m \in audience[e][route.channel]
        PROVE  \E i \in ToSet(emission[e].delivered) \cup ToSet(emission[e].denied) :
                 emission[e].plan[i] = [route |-> MemberScoped(route, m), recipient |-> m]
    <3> DEFINE em == emission[e]
    <3>1. em \in Emission /\ InPlan(em) /\ PlanCovers(em, audience[e])
      BY <1>1 DEF EmissionIInv, EmissionTypeOK
    <3>2. em.stage = "reported" /\ route \in ToSet(em.routes)
      BY <2>1
    <3> HIDE DEF em
    <3>3. Len(em.plan) \in Nat /\ em.index = Len(em.plan) + 1
      BY <3>1, <3>2, Unfolded DEF InPlan
    <3>4. em.index > 0 /\ em.index # 0 /\ em.index - 1 = Len(em.plan)
      BY <3>3
    <3>5. ToSet(em.delivered) \cup ToSet(em.denied) = 1..Len(em.plan)
      BY <3>1, <3>4 DEF InPlan, Accounted
    <3>6. \E i \in 1..Len(em.plan) :
            em.plan[i] = [route |-> MemberScoped(route, m), recipient |-> m]
      BY <2>1, <3>1, <3>2, <3>4 DEF PlanCovers
    <3>7. QED
      BY <3>5, <3>6 DEF em
  <2>2. QED
    BY <2>1 DEF AudienceIsCovered
<1>2. QED
  BY <1>1, Inductive, PTL
================================================================================
