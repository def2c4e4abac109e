--------------------------- MODULE SocketIoAdapter ---------------------------
(***************************************************************************)
(* The Socket.IO server adapter (packages/server/src/socket-io/index.ts)   *)
(* on top of the server runtime's channel calls: connection middleware and *)
(* handler, join and leave requests, disconnect cleanup and dispose, with  *)
(* the runtime's connection hooks (runtime/index.ts).                      *)
(*                                                                         *)
(* The members of the runtime's channels are socket ids.  Every handler is *)
(* an async function: a step ends where it awaits, and the runtime call it *)
(* awaits takes the steps of ServerChannels.                               *)
(***************************************************************************)
EXTENDS ServerChannels

CONSTANTS
  Packets,  \* inbound join and leave requests
  Faults    \* what clients and operators do at awkward times:
            \*   "closeMidSetup"    a socket closes before its handlers exist
            \*   "closeMidRequest"  a socket closes while a request is handled
            \*   "disposeMidway"    dispose() while anything is under way
            \*   "overlap"          a request before the last one was answered
            \*   "rejoin"           a join of a channel already joined

ASSUME FaultsAssumption ==
  Faults \subseteq {"closeMidSetup", "closeMidRequest", "disposeMidway",
                    "overlap", "rejoin"}

VARIABLES
  setup,                     \* socket -> how far its connection got
  open,                      \* sockets whose transport is open
  contextBySocketId,         \* sockets that have a stored context
  undefinedContexts,         \* sockets whose context is the value undefined
  socketHandlersBySocketId,  \* sockets that have registered handlers
  joinedChannelsBySocketId,  \* socket -> channels to leave on disconnect
  rooms,                     \* channel -> sockets in its Socket.IO room
  packet,                    \* inbound request -> its handler
  cleanup,                   \* socket -> cleanupSocketIoConnection
  disconnects,               \* socket -> onDisconnect notifications
  isDisposed,
  disturbed                  \* sockets and channels on which a fault happened
                             \* (history, read by the properties alone)

sockets == <<setup, open, contextBySocketId, undefinedContexts,
             socketHandlersBySocketId>>
lifetime == <<isDisposed, disturbed>>
adapterVars == <<sockets, joinedChannelsBySocketId, rooms, packet, cleanup,
                 disconnects, lifetime>>
allVars == <<vars, adapterVars>>

Sockets == Members

\* A handler that leaves the room, awaits the runtime, undoes a join, is answered.
PacketStage == {"leavingRoom", "runtime", "rollback", "acked", "failed"}
Packet == [op : {"join", "leave"}, socket : Sockets, channel : Channels,
           stage : PacketStage, call : Calls \cup {None}]
NoPacket == [stage |-> "none"]
BadPacket == [stage |-> "refused"]

Cleanup == [stage : {"none", "leaving", "notifying", "done"},
            todo : SUBSET Channels, hadContext : BOOLEAN, call : Calls \cup {None}]
NoCleanup == [stage |-> "none", todo |-> {}, hadContext |-> FALSE, call |-> None]

AdapterTypeOK ==
  /\ setup \in [Sockets -> {"new", "building", "authorizing", "rejected", "notifying",
                             "ready", "unmanaged"}]
  /\ open \in SUBSET Sockets
  /\ contextBySocketId \in SUBSET Sockets
  /\ undefinedContexts \in SUBSET Sockets
  /\ socketHandlersBySocketId \in SUBSET Sockets
  /\ joinedChannelsBySocketId \in [Sockets -> SUBSET Channels]
  /\ rooms \in [Channels -> SUBSET Sockets]
  /\ packet \in [Packets -> Packet \cup {NoPacket, BadPacket}]
  /\ cleanup \in [Sockets -> Cleanup]
  /\ disconnects \in [Sockets -> Nat]
  /\ isDisposed \in BOOLEAN
  /\ disturbed \in SUBSET (Sockets \cup Channels)

AdapterInit ==
  /\ Init
  /\ setup = [s \in Sockets |-> "new"]
  /\ open = {}
  /\ contextBySocketId = {}
  /\ undefinedContexts = {}
  /\ socketHandlersBySocketId = {}
  /\ joinedChannelsBySocketId = [s \in Sockets |-> {}]
  /\ rooms = [c \in Channels |-> {}]
  /\ packet = [p \in Packets |-> NoPacket]
  /\ cleanup = [s \in Sockets |-> NoCleanup]
  /\ disconnects = [s \in Sockets |-> 0]
  /\ isDisposed = FALSE
  /\ disturbed = {}

\* The identity of the next runtime call.
NextCall == CHOOSE k \in Calls : pc[k] = "idle"
CanCall == \E k \in Calls : pc[k] = "idle"

InHand(p) == packet[p].stage \in {"leavingRoom", "runtime", "rollback"}
HasRequests(s) == \E p \in Packets : InHand(p) /\ packet[p].socket = s

\* The channels on which these sockets have requests in hand.
InHandChannels(S) ==
  {packet[p].channel : p \in {q \in Packets : InHand(q) /\ packet[q].socket \in S}}

(***************************************************************************)
(* Connection setup.                                                       *)
(***************************************************************************)

\* connectionMiddleware up to its first await, in the context resolver.
ConnectionMiddleware(s) ==
  /\ setup[s] = "new"
  /\ ~isDisposed
  /\ setup' = [setup EXCEPT ![s] = "building"]
  /\ open' = open \cup {s}
  /\ UNCHANGED <<contextBySocketId, undefinedContexts, socketHandlersBySocketId,
                 joinedChannelsBySocketId, rooms, packet, cleanup, disconnects, lifetime,
                 vars>>

\* After dispose() a connection that had passed earlier middleware is refused ...
RefusesDisposed(s) ==
  /\ setup[s] = "new"
  /\ isDisposed
  /\ setup' = [setup EXCEPT ![s] = "rejected"]
  /\ UNCHANGED <<open, contextBySocketId, undefinedContexts, socketHandlersBySocketId,
                 joinedChannelsBySocketId, rooms, packet, cleanup, disconnects, lifetime,
                 vars>>

\* ... and any other one is accepted by the namespace, whose middleware was taken
\* away, with nobody to serve it.
MiddlewareRemoved(s) ==
  /\ setup[s] = "new"
  /\ isDisposed
  /\ setup' = [setup EXCEPT ![s] = "unmanaged"]
  /\ open' = open \cup {s}
  /\ UNCHANGED <<contextBySocketId, undefinedContexts, socketHandlersBySocketId,
                 joinedChannelsBySocketId, rooms, packet, cleanup, disconnects, lifetime,
                 vars>>

\* buildSocketContext is fulfilled, by a resolver of the application with whatever it
\* returns, undefined too: the connect policies are asked next.
BuildSocketContext(s) ==
  /\ setup[s] = "building"
  /\ setup' = [setup EXCEPT ![s] = "authorizing"]
  /\ undefinedContexts' \in {undefinedContexts, undefinedContexts \cup {s}}
  /\ UNCHANGED <<open, contextBySocketId, socketHandlersBySocketId, joinedChannelsBySocketId,
                 rooms, packet, cleanup, disconnects, lifetime, vars>>

\* The connect policies allow: the context is stored, and unless the client is
\* gone connectionHandler takes it from there and starts notifying onConnect.
AuthorizeSucceeds(s) ==
  /\ setup[s] = "authorizing"
  /\ ~isDisposed
  /\ contextBySocketId' = contextBySocketId \cup {s}
  /\ setup' = [setup EXCEPT ![s] = IF s \in open THEN "notifying" ELSE "rejected"]
  /\ UNCHANGED <<open, undefinedContexts, socketHandlersBySocketId, joinedChannelsBySocketId,
                 rooms, packet, cleanup, disconnects, lifetime, vars>>

\* The connection is turned away with a connect error, or disconnected.
Reject(s) ==
  /\ setup' = [setup EXCEPT ![s] = "rejected"]
  /\ contextBySocketId' = contextBySocketId \ {s}
  /\ open' = open \ {s}
  /\ UNCHANGED <<undefinedContexts, socketHandlersBySocketId, joinedChannelsBySocketId,
                 rooms, packet, cleanup, disconnects, lifetime, vars>>

\* The context or a connect policy fails, or the adapter was disposed meanwhile.
AuthorizeFails(s) == setup[s] \in {"building", "authorizing"} /\ Reject(s)

\* The onConnect hook of the runtime, if there is one, is awaited.
NotifiesConnected(s) == setup[s] = "notifying"

\* onConnect returned: the handlers are registered, without another look at the
\* socket or at isDisposed.
RegisterHandlers(s) ==
  /\ NotifiesConnected(s)
  /\ setup' = [setup EXCEPT ![s] = "ready"]
  /\ socketHandlersBySocketId' = socketHandlersBySocketId \cup {s}
  /\ UNCHANGED <<open, contextBySocketId, undefinedContexts, joinedChannelsBySocketId,
                 rooms, packet, cleanup, disconnects, lifetime, vars>>

\* onConnect failed: the socket is disconnected.
OnConnectFails(s) == NotifiesConnected(s) /\ Reject(s)

(***************************************************************************)
(* Join and leave requests: handleSocketIoChannelRequest.                  *)
(***************************************************************************)

\* A client that sends a request before the last one on that channel was
\* answered, or joins a channel once more.
Overlaps(s, c) == c \in InHandChannels({s})
Rejoins(op, s, c) == op = "join" /\ c \in joinedChannelsBySocketId[s]

\* Mutant: operation and stage are swapped.
SwappedPacket(op, s, c, stage, k) ==
  [op |-> stage, socket |-> s, channel |-> c, stage |-> op, call |-> k]

NewPacket(op, s, c, stage, k) ==
  [op |-> op, socket |-> s, channel |-> c, stage |-> stage, call |-> k]

Hears(p, s) == packet[p] = NoPacket /\ s \in open \cap socketHandlersBySocketId

\* A request without a channel name, for an unknown channel or with an invalid key
\* is answered with an error; one that nobody could answer is dropped.
RefuseRequest(p, s) ==
  /\ Hears(p, s)
  /\ packet' = [packet EXCEPT ![p] = BadPacket]
  /\ UNCHANGED <<sockets, joinedChannelsBySocketId, rooms, cleanup, disconnects, lifetime, vars>>

Arrives(p, op, s, c) ==
  /\ Hears(p, s)
  /\ Overlaps(s, c) => "overlap" \in Faults
  /\ Rejoins(op, s, c) => "rejoin" \in Faults
  /\ disturbed' = IF Overlaps(s, c) \/ Rejoins(op, s, c)
                  THEN disturbed \cup {c} ELSE disturbed

\* A join request: the stored context is taken and the runtime asked to join.
JoinRequest(p, s, c) ==
  /\ Arrives(p, "join", s, c)
  /\ CanCall
  /\ JoinChannel(NextCall, c, s)
  /\ packet' = [packet EXCEPT ![p] = NewPacket("join", s, c, "runtime", NextCall)]
  /\ UNCHANGED <<sockets, joinedChannelsBySocketId, rooms, cleanup, disconnects, isDisposed>>

\* The runtime rejected the join.
JoinRejected(p) ==
  /\ packet[p].stage = "runtime"
  /\ pc[packet[p].call] \in {"refused", "rolledBack"}
  /\ packet' = [packet EXCEPT ![p].stage = "failed"]
  /\ UNCHANGED <<sockets, joinedChannelsBySocketId, rooms, cleanup, disconnects, lifetime, vars>>

\* The sockets of a room once s was told to join it; a closed socket joins none.
RoomWith(c, s) == rooms[c] \cup ({s} \cap open)

\* The map of a socket is created with its first channel and deleted with its last:
\* no map and an empty one are the same here.
RememberJoined(s, c) ==
  joinedChannelsBySocketId' = [joinedChannelsBySocketId EXCEPT ![s] = @ \cup {c}]
ForgetJoined(s, c) ==
  joinedChannelsBySocketId' = [joinedChannelsBySocketId EXCEPT ![s] = @ \ {c}]

\* socket.join succeeded: the channel is remembered and the request answered.
JoinRoomSucceeds(p) ==
  LET s == packet[p].socket
      c == packet[p].channel
  IN  /\ packet[p].stage = "runtime"
      /\ pc[packet[p].call] = "joined"
      /\ rooms' = [rooms EXCEPT ![c] = RoomWith(c, s)]
      /\ RememberJoined(s, c)
      /\ packet' = [packet EXCEPT ![p].stage = "acked"]
      /\ UNCHANGED <<sockets, cleanup, disconnects, lifetime, vars>>

\* Mutant: a failed socket.join leaves the runtime membership in place.
JoinRoomFailsOnly(p) ==
  /\ packet[p].stage = "runtime"
  /\ pc[packet[p].call] = "joined"
  /\ packet' = [packet EXCEPT ![p].stage = "failed"]
  /\ UNCHANGED <<sockets, joinedChannelsBySocketId, rooms, cleanup, disconnects, lifetime, vars>>

\* socket.join failed: the runtime membership is left again.
JoinRoomFails(p) ==
  /\ packet[p].stage = "runtime"
  /\ pc[packet[p].call] = "joined"
  /\ CanCall
  /\ LeaveChannel(NextCall, packet[p].channel, packet[p].socket)
  /\ packet' = [packet EXCEPT ![p].stage = "rollback", ![p].call = NextCall]
  /\ UNCHANGED <<sockets, joinedChannelsBySocketId, rooms, cleanup, disconnects, lifetime>>

\* That leave settled, well or not; the client gets the original error.
JoinRollbackEnds(p) ==
  /\ packet[p].stage = "rollback"
  /\ pc[packet[p].call] \in Settled
  /\ packet' = [packet EXCEPT ![p].stage = "failed"]
  /\ UNCHANGED <<sockets, joinedChannelsBySocketId, rooms, cleanup, disconnects, lifetime, vars>>

\* A leave request: the room is left first.
LeaveRequest(p, s, c) ==
  /\ Arrives(p, "leave", s, c)
  /\ packet' = [packet EXCEPT ![p] = NewPacket("leave", s, c, "leavingRoom", None)]
  /\ UNCHANGED <<sockets, joinedChannelsBySocketId, rooms, cleanup, disconnects, isDisposed, vars>>

LeaveRoomSucceeds(p) ==
  LET s == packet[p].socket
      c == packet[p].channel
  IN  /\ packet[p].stage = "leavingRoom"
      /\ CanCall
      /\ rooms' = [rooms EXCEPT ![c] = @ \ {s}]
      /\ LeaveChannel(NextCall, c, s)
      /\ packet' = [packet EXCEPT ![p].stage = "runtime", ![p].call = NextCall]
      /\ UNCHANGED <<sockets, joinedChannelsBySocketId, cleanup, disconnects, lifetime>>

LeaveRoomFails(p) ==
  /\ packet[p].stage = "leavingRoom"
  /\ packet' = [packet EXCEPT ![p].stage = "failed"]
  /\ UNCHANGED <<sockets, joinedChannelsBySocketId, rooms, cleanup, disconnects, lifetime, vars>>

\* The runtime left, or its onLeave hook failed after it left: the channel is
\* forgotten either way.
LeaveEnds(p) ==
  LET s == packet[p].socket
      k == packet[p].call
  IN  /\ packet[p].stage = "runtime"
      /\ pc[k] \in {"left", "absent", "leaveFailed"}
      /\ ForgetJoined(s, packet[p].channel)
      /\ packet' = [packet EXCEPT ![p].stage =
                      IF pc[k] = "leaveFailed" THEN "failed" ELSE "acked"]
      /\ UNCHANGED <<sockets, rooms, cleanup, disconnects, lifetime, vars>>

(***************************************************************************)
(* Disconnect cleanup and dispose.                                         *)
(***************************************************************************)

\* contextBySocketId.get(s) !== undefined: an entry may hold undefined.
HasContext(s) == s \in contextBySocketId /\ s \notin undefinedContexts

\* Mutant: the channels are read after they were deleted.
CleanupOfNothing(s) ==
  [stage |-> "leaving", todo |-> {},
   hadContext |-> HasContext(s), call |-> None]

\* Mutant: the context is read after it was deleted.
CleanupWithoutContext(s) ==
  [stage |-> "leaving", todo |-> joinedChannelsBySocketId[s],
   hadContext |-> FALSE, call |-> None]

\* cleanupSocketIoConnection begins: it takes the channels to leave and the
\* context.  Its first leaveChannel runs in the same turn of the event loop; here
\* it is CleanupLeave, which only adds interleavings.
CleanupOf(s) ==
  [stage |-> "leaving", todo |-> joinedChannelsBySocketId[s],
   hadContext |-> HasContext(s), call |-> None]

\* The rooms when these sockets are closed.
RoomsWithout(S) == [c \in Channels |-> rooms[c] \ S]

SettingUp(s) == setup[s] \in {"building", "authorizing", "notifying"}

\* The transport closes; a registered disconnect handler starts the cleanup.
Close(s) ==
  /\ s \in open
  /\ SettingUp(s) => "closeMidSetup" \in Faults
  /\ HasRequests(s) => "closeMidRequest" \in Faults
  /\ open' = open \ {s}
  /\ rooms' = RoomsWithout({s})
  /\ IF s \in socketHandlersBySocketId
     THEN /\ socketHandlersBySocketId' = socketHandlersBySocketId \ {s}
          /\ cleanup' = [cleanup EXCEPT ![s] = CleanupOf(s)]
          /\ joinedChannelsBySocketId' = [joinedChannelsBySocketId EXCEPT ![s] = {}]
     ELSE UNCHANGED <<socketHandlersBySocketId, cleanup, joinedChannelsBySocketId>>
  /\ disturbed' = disturbed \cup InHandChannels({s})
                            \cup {x \in {s} : SettingUp(x)}
  /\ UNCHANGED <<setup, contextBySocketId, undefinedContexts, packet, disconnects,
                 isDisposed, vars>>

\* dispose(): the middleware and the connection handler are removed; the handlers of
\* every connected socket are removed and its cleanup started, the sockets
\* disconnected, the maps cleared.
Dispose ==
  LET connected == {s \in open : setup[s] \in {"notifying", "ready"}}
      handled == connected \cap socketHandlersBySocketId
  IN  /\ ~isDisposed
      /\ \/ "disposeMidway" \in Faults
         \/ \A s \in Sockets : ~SettingUp(s) /\ ~HasRequests(s)
      /\ isDisposed' = TRUE
      /\ disturbed' = disturbed \cup InHandChannels(Sockets)
                                \cup {s \in connected : setup[s] = "notifying"}
      /\ open' = open \ connected
      /\ rooms' = RoomsWithout(connected)
      /\ socketHandlersBySocketId' = socketHandlersBySocketId \ handled
      /\ cleanup' = [s \in Sockets |-> IF s \in handled THEN CleanupOf(s) ELSE cleanup[s]]
      /\ contextBySocketId' = {}
      /\ joinedChannelsBySocketId' = [s \in Sockets |-> {}]
      /\ UNCHANGED <<setup, undefinedContexts, packet, disconnects, vars>>

\* The last leaveChannel of a cleanup settled, well or not.
CleanupMayGoOn(s) ==
  /\ cleanup[s].stage = "leaving"
  /\ cleanup[s].call # None => pc[cleanup[s].call] \in Settled

\* removeSocketIoChannelMemberships leaves the next channel.
CleanupLeave(s) ==
  /\ CleanupMayGoOn(s)
  /\ CanCall
  /\ \E c \in cleanup[s].todo :
       /\ LeaveChannel(NextCall, c, s)
       /\ cleanup' = [cleanup EXCEPT ![s].todo = @ \ {c}, ![s].call = NextCall]
  /\ UNCHANGED <<sockets, joinedChannelsBySocketId, rooms, packet, disconnects, lifetime>>

\* The onDisconnect hook of the runtime is called, if there was a context other than
\* undefined.
NotifyDisconnected(s) ==
  disconnects' = [disconnects EXCEPT ![s] = IF cleanup[s].hadContext THEN @ + 1 ELSE @]

\* All channels are left, well or not.
CleanupNotify(s) ==
  /\ CleanupMayGoOn(s)
  /\ cleanup[s].todo = {}
  /\ cleanup' = [cleanup EXCEPT ![s].stage = "notifying"]
  /\ NotifyDisconnected(s)
  /\ UNCHANGED <<sockets, joinedChannelsBySocketId, rooms, packet, lifetime, vars>>

\* onDisconnect settled, well or not: the context is dropped.
CleanupEnds(s) ==
  /\ cleanup[s].stage = "notifying"
  /\ cleanup' = [cleanup EXCEPT ![s].stage = "done"]
  /\ contextBySocketId' = contextBySocketId \ {s}
  /\ UNCHANGED <<setup, open, undefinedContexts, socketHandlersBySocketId,
                 joinedChannelsBySocketId, rooms, packet, disconnects, lifetime, vars>>

\* A step of a runtime call that a handler awaits.
RuntimeStep(k) ==
  /\ \/ CheckAllows(k)
     \/ CheckRefuses(k)
     \/ OnJoinSucceeds(k)
     \/ OnJoinFails(k)
     \/ OnLeaveSettles(k)
  /\ UNCHANGED adapterVars

AdapterNext ==
  \/ \E s \in Sockets :
       \/ ConnectionMiddleware(s) \/ RefusesDisposed(s) \/ MiddlewareRemoved(s)
       \/ BuildSocketContext(s)
       \/ AuthorizeSucceeds(s)
       \/ AuthorizeFails(s)
       \/ RegisterHandlers(s)
       \/ OnConnectFails(s)
       \/ Close(s)
       \/ CleanupLeave(s)
       \/ CleanupNotify(s)
       \/ CleanupEnds(s)
  \/ \E p \in Packets :
       \/ \E s \in Sockets : RefuseRequest(p, s)
       \/ \E s \in Sockets, c \in Channels : JoinRequest(p, s, c) \/ LeaveRequest(p, s, c)
       \/ JoinRejected(p)
       \/ JoinRoomSucceeds(p)
       \/ JoinRoomFails(p)
       \/ JoinRollbackEnds(p)
       \/ LeaveRoomSucceeds(p)
       \/ LeaveRoomFails(p)
       \/ LeaveEnds(p)
  \/ \E k \in Calls : RuntimeStep(k)
  \/ Dispose

AdapterSpec == AdapterInit /\ [][AdapterNext]_allVars

(***************************************************************************)
(* Safety.                                                                 *)
(***************************************************************************)

\* Nothing is under way for a socket.
AtRest(s) ==
  /\ ~SettingUp(s)
  /\ ~HasRequests(s)
  /\ cleanup[s].stage \in {"none", "done"}

\* What the adapter believes, the room of the channel, and the runtime's
\* membership agree for every open socket that is at rest, whichever of policy,
\* hook, room join or room leave failed on the way, and whatever other sockets do.
\* Only a request that overlapped another one, a repeated join, and a close or
\* dispose with a request in hand can part them, on that channel.
RoomsFollowMembership ==
  \A s \in Sockets \ disturbed, c \in Channels \ disturbed : s \in open /\ AtRest(s) =>
    /\ s \in rooms[c] <=> s \in ListChannelMembers(c)
    /\ s \in rooms[c] <=> c \in joinedChannelsBySocketId[s]

\* A closed socket leaves nothing behind once it is at rest: no membership, no
\* room, no entry in any map of the adapter.  Only a close during connection setup
\* or with a request in hand can leave something, of that socket or channel.
NothingLeftBehind ==
  \A s \in Sockets \ disturbed : s \notin open /\ AtRest(s) =>
    /\ \A c \in Channels \ disturbed : s \notin ListChannelMembers(c)
    /\ \A c \in Channels : s \notin rooms[c]
    /\ joinedChannelsBySocketId[s] \subseteq disturbed
    /\ s \notin contextBySocketId
    /\ s \notin socketHandlersBySocketId

\* onDisconnect is called at most once per connection, and only for connections
\* whose onConnect succeeded, also when dispose, close and cleanup race; and a
\* connection whose onConnect succeeded before it closed is announced, unless the
\* application's resolver gave it the context undefined: then it never is.
ConnectsAreDisconnected ==
  \A s \in Sockets :
    /\ disconnects[s] <= 1
    /\ disconnects[s] = 1 =>
         setup[s] = "ready" /\ s \notin open /\ s \notin undefinedContexts
    /\ setup[s] = "ready" /\ s \notin open /\ AtRest(s)
         /\ s \notin disturbed \cup undefinedContexts => disconnects[s] = 1

\* What the code is meant to give without exception: a socket that is gone is a
\* member of nothing.  Not so, see AdapterGhostMember.cfg.
DisconnectFreesMemberships ==
  \A s \in Sockets : s \notin open /\ AtRest(s) =>
    \A c \in Channels : s \notin ListChannelMembers(c)

(***************************************************************************)
(* Why: the inductive invariant, on top of that of the runtime.            *)
(***************************************************************************)

\* How far setup, transport, handlers, context and cleanup of a connection can be
\* apart: a connection is ready exactly if its handlers are registered or its cleanup
\* began, and only a fault during its setup leaves a closed one with either map.
ConnectionLifecycle ==
  \A s \in Sockets :
    /\ s \in open =>
         /\ setup[s] \notin {"new", "rejected"}
         /\ setup[s] \in {"notifying", "ready"} => ~isDisposed /\ s \in contextBySocketId
    /\ s \in socketHandlersBySocketId => setup[s] = "ready" /\ cleanup[s].stage = "none"
    /\ setup[s] = "ready" /\ cleanup[s].stage = "none" => s \in socketHandlersBySocketId
    /\ cleanup[s].stage # "none" =>
         /\ setup[s] = "ready" /\ s \notin open
         /\ cleanup[s].hadContext <=> s \notin undefinedContexts
    /\ s \notin open /\ (SettingUp(s) \/ s \in socketHandlersBySocketId) => s \in disturbed
    /\ s \in contextBySocketId =>
         /\ setup[s] \in {"notifying", "ready", "rejected"}
         /\ s \in open \/ s \in disturbed \/ cleanup[s].stage \in {"leaving", "notifying"}
    /\ disconnects[s] =
         IF cleanup[s].stage \in {"notifying", "done"} /\ cleanup[s].hadContext THEN 1 ELSE 0

\* A handler awaits a runtime call that it made, of its operation, channel and
\* socket; what it handles came from a socket whose handlers were registered.
OwnsCall(p) ==
  LET r == packet[p]
  IN  /\ setup[r.socket] = "ready"
      /\ r.socket \notin open => r.channel \in disturbed
      /\ r.stage = "leavingRoom" => r.op = "leave"
      /\ r.stage = "rollback" => r.op = "join"
      /\ r.stage # "leavingRoom" =>
           /\ r.call \in Calls
           /\ pc[r.call] # "idle"
           /\ request[r.call] = [op |-> IF r.stage = "runtime" THEN r.op ELSE "leave",
                                 channel |-> r.channel, member |-> r.socket]

RequestsOwnCalls == \A p \in Packets : InHand(p) => OwnsCall(p)

\* A runtime call was made for a socket whose handlers were registered, a join that
\* has not settled has its handler, and outcomes are those of the operation.
HasOwner(k) ==
  /\ request[k] \in Request
  /\ setup[request[k].member] = "ready"
  /\ pc[k] \in {"checking", "onJoin"} =>
       \E p \in Packets : packet[p].stage = "runtime" /\ packet[p].call = k
  /\ request[k].op = IF pc[k] \in {"onLeave", "left", "absent", "leaveFailed"}
                     THEN "leave" ELSE "join"

CallsHaveOwners == \A k \in Calls : pc[k] # "idle" => HasOwner(k)

\* Whoever is in a room or has a channel to leave had its handlers registered.
RoomsOfReadySockets ==
  \A s \in Sockets, c \in Channels :
    /\ s \in rooms[c] => s \in open /\ setup[s] = "ready"
    /\ c \in joinedChannelsBySocketId[s] => setup[s] = "ready"

\* Requests of one socket on one channel overlap only as a fault.
OneRequestInHand ==
  \A p, q \in Packets :
    InHand(p) /\ InHand(q) /\ packet[p].socket = packet[q].socket
      /\ packet[p].channel = packet[q].channel /\ packet[p].channel \notin disturbed => p = q

\* The three records of one socket in one channel say the same.
Agree(s, c) ==
  /\ s \in rooms[c] <=> Roster(c, s) # None
  /\ s \in rooms[c] <=> c \in joinedChannelsBySocketId[s]

Requested(s, c) == \E p \in Packets : InHand(p) /\ packet[p].socket = s /\ packet[p].channel = c

\* Where no fault happened, the records agree but for a request in hand, and what a
\* closed socket is still a member of, its cleanup has yet to leave.
RecordsFollowRequests ==
  \A s \in Sockets, c \in Channels \ disturbed :
    /\ s \in open /\ ~Requested(s, c) => Agree(s, c)
    /\ s \notin open =>
         /\ c \notin joinedChannelsBySocketId[s]
         /\ Roster(c, s) # None => cleanup[s].stage = "leaving" /\ c \in cleanup[s].todo

\* While a request is in hand, room and membership tell how far it got.
HalfJoined(p) ==
  LET r == packet[p]
      s == r.socket
      c == r.channel
  IN  /\ r.stage = "leavingRoom" => Agree(s, c)
      /\ r.stage # "leavingRoom" => s \notin rooms[c]
      /\ r.op = "join" => c \notin joinedChannelsBySocketId[s]
      /\ r.stage = "runtime" /\ pc[r.call] \in {"onJoin", "joined"} => Roster(c, s) = r.call
      /\ r.stage = "runtime" /\ pc[r.call] \notin {"onJoin", "joined"} => Roster(c, s) = None
      /\ r.stage = "rollback" => Roster(c, s) = None

RequestsInHand ==
  \A p \in Packets : InHand(p) /\ packet[p].channel \notin disturbed => HalfJoined(p)

RequestInv ==
  /\ RequestsOwnCalls
  /\ CallsHaveOwners
  /\ RoomsOfReadySockets
  /\ OneRequestInHand
  /\ RecordsFollowRequests
  /\ RequestsInHand

AdapterIInv ==
  /\ IInv
  /\ AdapterTypeOK
  /\ ConnectionLifecycle
  /\ RequestInv
=============================================================================
