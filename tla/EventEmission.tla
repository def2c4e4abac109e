---------------------------- MODULE EventEmission ----------------------------
(***************************************************************************)
(* Server event emission (emitServerEventReport in                         *)
(* packages/server/src/runtime/index.ts) over the Socket.IO deliverer      *)
(* (packages/server/src/socket-io/index.ts): route, expand the channel     *)
(* audience, ask the receive policies, deliver, report.                    *)
(*                                                                         *)
(* Emissions of one event run concurrently: each awaits its router, every  *)
(* policy of every delivery, and every delivery, while members come and    *)
(* go.  Membership is the abstract roster, which ServerChannels.tla shows  *)
(* the membership store to implement.                                      *)
(***************************************************************************)
EXTENDS ChannelRoster, Naturals, SequencesExt

CONSTANTS
  Emissions,         \* calls of emitEvent and emitEventReport
  ReceivePolicies,   \* number of receive policies of the event
  MaxRoutes          \* bound: routes one router call returns

ASSUME EmissionAssumption ==
  /\ IsFiniteSet(Members) /\ None \notin Members
  /\ ReceivePolicies \in Nat
  /\ MaxRoutes \in Nat

VARIABLES
  emission,  \* emission -> how far its call got
  inbox,     \* member -> what was emitted to its socket
  allowed,   \* <<emission, index, policy>> that were allowed (history)
  audience   \* emission -> the roster its routes were expanded in (history)

emissionVars == <<emission, inbox, allowed, audience>>
allVars == <<vars, emissionVars>>

\* A route to a channel or to one member of it, to one socket, or one the deliverer
\* cannot use: an unknown target, or one that lacks its ids.
Route ==
  [target : {"channel"}, channel : Channels, member : Members \cup {None}]
    \cup [target : {"socket"}, member : Members] \cup {[target |-> "unusable"]}
Routes == UNION {[1..n -> Route] : n \in 0..MaxRoutes}

\* A delivery: its route, and the recipient whose context the policies get.
Delivery == [route : Route, recipient : Members \cup {None}]

\* What arrives at a socket: the delivery it was, and the channel id it names.
Arrival == [emission : Emissions, index : Nat, channel : Channels \cup {None}]

Emission ==
  [stage : {"idle", "routing", "checking", "delivering", "reported", "failed"},
   routes : Seq(Route), plan : Seq(Delivery), index : Nat, policy : Nat,
   delivered : Seq(Nat), denied : Seq(Nat)]
NoEmission ==
  [stage |-> "idle", routes |-> <<>>, plan |-> <<>>, index |-> 0, policy |-> 0,
   delivered |-> <<>>, denied |-> <<>>]

EmissionTypeOK ==
  /\ emission \in [Emissions -> Emission]
  /\ inbox \in [Members -> Seq(Arrival)]
  /\ allowed \in SUBSET (Emissions \X Nat \X (1..ReceivePolicies))
  /\ audience \in [Emissions -> [Channels -> SUBSET Members]]

EmissionInit ==
  /\ Init
  /\ emission = [e \in Emissions |-> NoEmission]
  /\ inbox = [m \in Members |-> <<>>]
  /\ allowed = {}
  /\ audience = [e \in Emissions |-> [c \in Channels |-> {}]]

MembersOf(c) == {m \in Members : roster[c][m] # None}

\* The orders the buckets of all channels may have.
BucketOrders ==
  {order \in [Channels -> UNION {SetToSeqs(MembersOf(c)) : c \in Channels}] :
     \A c \in Channels : order[c] \in SetToSeqs(MembersOf(c))}

(***************************************************************************)
(* createServerEventDeliveries, expandServerEventRoute.                    *)
(***************************************************************************)

\* readChannelAudienceRouteId: the channel whose members a route is for.
Audience(route) ==
  IF route.target = "channel" /\ route.member = None THEN route.channel ELSE None

MemberScoped(route, m) == [route EXCEPT !.member = m]

\* Mutant: a channel with a single member counts as empty.
ExpandPlural(route, order) ==
  IF Audience(route) = None THEN <<[route |-> route, recipient |-> None]>>
  ELSE LET bucket == order[route.channel]
       IN IF Len(bucket) = 1 THEN <<>>
          ELSE [i \in DOMAIN bucket |-> [route |-> MemberScoped(route, bucket[i]),
                                         recipient |-> bucket[i]]]

\* A route to a channel becomes one delivery per member, in the order of its
\* bucket; any other route is one delivery, to nobody the runtime knows.
ExpandRoute(route, order) ==
  IF Audience(route) = None THEN <<[route |-> route, recipient |-> None]>>
  ELSE LET bucket == order[route.channel]
       IN [i \in DOMAIN bucket |-> [route |-> MemberScoped(route, bucket[i]),
                                    recipient |-> bucket[i]]]

Deliveries(routes, order) ==
  FlattenSeq([i \in DOMAIN routes |-> ExpandRoute(routes[i], order)])

(***************************************************************************)
(* The loop over the deliveries.                                           *)
(***************************************************************************)

\* readSocketIoDeliveryTarget: the socket a delivery is emitted to; None when it
\* throws.
DeliveryTarget(delivery) ==
  IF delivery.route.target = "unusable" THEN None ELSE delivery.route.member

\* createSocketIoTransportEventRoute: the client learns the channel and no member.
TransportChannel(route) == IF route.target = "channel" THEN route.channel ELSE None

\* em, arrived at the delivery with this index: it asks the first policy, or
\* calls the deliverer when there is none, or reports after the last one.
At(em, i) ==
  [em EXCEPT !.index = i, !.policy = 1,
             !.stage = IF i > Len(em.plan) THEN "reported"
                       ELSE IF ReceivePolicies = 0 THEN "delivering" ELSE "checking"]

\* createSocketIoEventDeliverer: io.to(target).emit, when there is a target.
EmitTo(e, em) ==
  LET delivery == em.plan[em.index]
      target == DeliveryTarget(delivery)
      arrival == [emission |-> e, index |-> em.index,
                  channel |-> TransportChannel(delivery.route)]
  IN inbox' = IF target = None THEN inbox
              ELSE [inbox EXCEPT ![target] = Append(@, arrival)]

\* Mutant: a delivery is emitted before its policies were asked.
ContinueEagerly(e, em) ==
  /\ emission' = [emission EXCEPT ![e] = em]
  /\ IF em.stage = "checking" /\ em.policy = 1 THEN EmitTo(e, em) ELSE UNCHANGED inbox

\* A call of the deliverer emits at once.
Continue(e, em) ==
  /\ emission' = [emission EXCEPT ![e] = em]
  /\ IF em.stage = "delivering" THEN EmitTo(e, em) ELSE UNCHANGED inbox

\* Mutant: the call waits for nothing.
EmitEventUnrouted(e) ==
  /\ emission[e].stage = "idle"
  /\ emission' = [emission EXCEPT ![e].stage = "started"]
  /\ UNCHANGED <<vars, inbox, allowed, audience>>

\* emitServerEventReport up to its router.
EmitEvent(e) ==
  /\ emission[e].stage = "idle"
  /\ emission' = [emission EXCEPT ![e].stage = "routing"]
  /\ UNCHANGED <<vars, inbox, allowed, audience>>

Failed(e) ==
  /\ emission' = [emission EXCEPT ![e].stage = "failed"]
  /\ UNCHANGED <<vars, inbox, allowed, audience>>

\* Unknown event, no router, no deliverer or an invalid payload.
RefuseEvent(e) == emission[e].stage = "idle" /\ Failed(e)

\* The router rejects.
RouterFails(e) == emission[e].stage = "routing" /\ Failed(e)

\* A policy throws.  What was delivered before stays delivered.
PolicyThrows(e) == emission[e].stage = "checking" /\ Failed(e)

\* The router returns: its routes are expanded in the membership of this moment.
RouterReturns(e) ==
  /\ emission[e].stage = "routing"
  /\ \E routes \in Routes, order \in BucketOrders :
       Continue(e, At([emission[e] EXCEPT !.routes = routes,
                                          !.plan = Deliveries(routes, order)], 1))
  /\ audience' = [audience EXCEPT ![e] = [c \in Channels |-> MembersOf(c)]]
  /\ UNCHANGED <<vars, allowed>>

\* Mutant: one policy that allows is enough.
AnyPolicyAllows(e) ==
  LET em == emission[e]
  IN /\ em.stage = "checking"
     /\ allowed' = allowed \cup {<<e, em.index, em.policy>>}
     /\ Continue(e, [em EXCEPT !.stage = "delivering"])
     /\ UNCHANGED <<vars, audience>>

PolicyAllows(e) ==
  LET em == emission[e]
  IN /\ em.stage = "checking"
     /\ allowed' = allowed \cup {<<e, em.index, em.policy>>}
     /\ Continue(e, IF em.policy < ReceivePolicies THEN [em EXCEPT !.policy = @ + 1]
                    ELSE [em EXCEPT !.stage = "delivering"])
     /\ UNCHANGED <<vars, audience>>

\* Mutant: the loop falls through to the deliverer after a denial.
DenyFallsThrough(e) ==
  LET em == emission[e]
  IN /\ em.stage = "checking"
     /\ Continue(e, [em EXCEPT !.denied = Append(@, em.index), !.stage = "delivering"])
     /\ UNCHANGED <<vars, allowed, audience>>

\* The first policy that denies decides; the delivery goes to the report.
PolicyDenies(e) ==
  LET em == emission[e]
  IN /\ em.stage = "checking"
     /\ Continue(e, At([em EXCEPT !.denied = Append(@, em.index)], em.index + 1))
     /\ UNCHANGED <<vars, allowed, audience>>

\* The deliverer's promise is fulfilled.
DelivererDelivers(e) ==
  LET em == emission[e]
  IN /\ em.stage = "delivering"
     /\ DeliveryTarget(em.plan[em.index]) # None
     /\ Continue(e, At([em EXCEPT !.delivered = Append(@, em.index)], em.index + 1))
     /\ UNCHANGED <<vars, allowed, audience>>

\* The deliverer has thrown: the rest of the plan is given up.
DelivererFails(e) ==
  LET em == emission[e]
  IN /\ em.stage = "delivering"
     /\ DeliveryTarget(em.plan[em.index]) = None
     /\ Failed(e)

Emit(e) ==
  \/ EmitEvent(e) \/ RefuseEvent(e) \/ RouterReturns(e) \/ RouterFails(e)
  \/ PolicyAllows(e) \/ PolicyDenies(e) \/ PolicyThrows(e)
  \/ DelivererDelivers(e) \/ DelivererFails(e)

EmissionNext ==
  \/ Next /\ UNCHANGED emissionVars
  \/ \E e \in Emissions : Emit(e)

EmissionSpec == EmissionInit /\ [][EmissionNext]_allVars

(***************************************************************************)
(* Properties.                                                             *)
(***************************************************************************)

\* The two lists name what was passed, each in one of them, in order.
Increasing(s) == \A i, j \in DOMAIN s : i < j => s[i] < s[j]

Accounted(delivered, denied, passed) ==
  /\ ToSet(delivered) \cup ToSet(denied) = 1..passed
  /\ ToSet(delivered) \cap ToSet(denied) = {}
  /\ Increasing(delivered) /\ Increasing(denied)

\* Every delivery the loop has passed is in exactly one of the two lists of the
\* report, in the order of the plan, and none beyond it.
EveryDeliveryAccounted ==
  \A e \in Emissions :
    LET em == emission[e]
    IN em.index > 0 =>
         Accounted(em.delivered, em.denied,
                   IF em.stage = "reported" THEN Len(em.plan) ELSE em.index - 1)

\* What the router asked a delivery for: its route before the expansion.
Asked(em, i) ==
  IF em.plan[i].recipient = None THEN em.plan[i].route
  ELSE MemberScoped(em.plan[i].route, None)

\* The places of a socket's inbox that an emission's deliveries have; they were made
\* one after the other.
ArrivalsOf(e, box) == {n \in DOMAIN box : box[n].emission = e}
InOrder(box, places) == \A j, k \in places : j < k => box[j].index < box[k].index

\* What a member's socket got from an emission that settled is what its list of
\* delivered events says, once and in that order (the list is Increasing); also when
\* the call failed half-way and nobody got to see the list.  Each arrival names the
\* channel that the router named.
ReceivedIsDelivered ==
  \A e \in Emissions, m \in Members :
    LET em == emission[e]
        box == inbox[m]
        got == ArrivalsOf(e, box)
    IN em.stage \in {"reported", "failed"} =>
         /\ {box[n].index : n \in got}
              = {i \in ToSet(em.delivered) : em.plan[i].route.member = m}
         /\ InOrder(box, got)
         /\ \A n \in got : \E route \in ToSet(em.routes) :
              /\ Asked(em, box[n].index) = route
              /\ box[n].channel = IF route.target = "channel" THEN route.channel ELSE None

\* Nothing reaches a socket that some receive policy did not allow, for this
\* very delivery: not for another member, route or emission.
OnlyAllowedIsReceived ==
  \A m \in Members : \A x \in ToSet(inbox[m]) :
    \A policy \in 1..ReceivePolicies : <<x.emission, x.index, policy>> \in allowed

\* A report covers the audience: every member that a routed channel had when
\* the router returned was served or denied, whoever came or went meanwhile.
AudienceIsCovered ==
  \A e \in Emissions :
    emission[e].stage = "reported" =>
      \A route \in ToSet(emission[e].routes) :
        Audience(route) # None =>
          \A m \in audience[e][route.channel] :
            \E i \in ToSet(emission[e].delivered) \cup ToSet(emission[e].denied) :
              emission[e].plan[i] = [route |-> MemberScoped(route, m), recipient |-> m]

(***************************************************************************)
(* The inductive invariant behind the theorems of EventEmission_proofs:    *)
(* what is known of one emission em, whose policies that allowed are ok,   *)
(* over the audience it was expanded in.                                   *)
(***************************************************************************)

\* The place in the plan fits the stage; nothing is reported before the plan.
InPlan(em) ==
  /\ em.stage \in {"idle", "routing"} => em.index = 0
  /\ em.stage \in {"checking", "delivering"} => em.index \in 1..Len(em.plan)
  /\ em.index <= Len(em.plan) + 1
  /\ em.stage = "checking" => em.policy \in 1..ReceivePolicies
  /\ em.stage = "reported" => em.index = Len(em.plan) + 1
  /\ IF em.index = 0 THEN em.delivered = <<>> /\ em.denied = <<>>
     ELSE Accounted(em.delivered, em.denied, em.index - 1)

\* The policies of the present delivery that have been asked allowed it, all of them
\* where it is delivered.
AskedAllowed(e, em, granted) ==
  /\ em.stage = "checking" => \A policy \in 1..(em.policy - 1) : <<e, em.index, policy>> \in granted
  /\ em.stage = "delivering" =>
       \A policy \in 1..ReceivePolicies : <<e, em.index, policy>> \in granted

\* Each member of a routed channel has its delivery in the plan.
PlanCovers(em, members) ==
  em.index > 0 =>
    \A route \in ToSet(em.routes) : Audience(route) # None =>
      \A m \in members[route.channel] :
        \E i \in 1..Len(em.plan) :
          em.plan[i] = [route |-> MemberScoped(route, m), recipient |-> m]

\* A planned delivery is one that the router asked for, and leaves under its channel;
\* those on the list of the delivered had somebody to go to.
PlanIsAsked(em) ==
  /\ \A i \in 1..Len(em.plan) : \E route \in ToSet(em.routes) :
       /\ Asked(em, i) = route
       /\ TransportChannel(em.plan[i].route) = TransportChannel(route)
  /\ \A i \in ToSet(em.delivered) : DeliveryTarget(em.plan[i]) # None

\* The deliveries that were emitted: the delivered, and the one being delivered.
EmittedOf(em) ==
  ToSet(em.delivered) \cup {i \in {em.index} : em.stage = "delivering"}

\* The box of m holds what was emitted to m, once each, under the channel it has.
Received(e, plan, emitted, m, box) ==
  /\ {box[n].index : n \in ArrivalsOf(e, box)} = {i \in emitted : DeliveryTarget(plan[i]) = m}
  /\ InOrder(box, ArrivalsOf(e, box))
  /\ \A n \in ArrivalsOf(e, box) : box[n].channel = TransportChannel(plan[box[n].index].route)

BoxesHold(e, em, boxes) ==
  \A m \in Members : Received(e, em.plan, EmittedOf(em), m, boxes[m])

EmissionIInv ==
  /\ EmissionTypeOK
  /\ \A e \in Emissions : /\ InPlan(emission[e])
                          /\ AskedAllowed(e, emission[e], allowed)
                          /\ PlanCovers(emission[e], audience[e])
                          /\ PlanIsAsked(emission[e])
                          /\ BoxesHold(e, emission[e], inbox)
  /\ OnlyAllowedIsReceived

=============================================================================
