------------------------------- MODULE WsRooms -------------------------------
(***************************************************************************)
(* The in-memory registry of websocket rooms and the broadcasts over it,   *)
(* for one channel and one workspace.                                      *)
(*                                                                         *)
(* Everything runs on one event loop, so a step here is what the code does *)
(* between two awaits.  A broadcast awaits every send; joins, leaves and   *)
(* other broadcasts run in between.  It keeps a reference to the set       *)
(* object it found in the registry, and the registry may meanwhile drop    *)
(* that object and create another under the same key: members[r][n] is the *)
(* n-th object of key r, and registry[r] the one the key maps to.          *)
(*                                                                         *)
(* A socket that has left and that nobody refers to any longer stands for  *)
(* the next connection.                                                    *)
(***************************************************************************)
EXTENDS Integers, FiniteSets

CONSTANTS
    Sockets, Users,
    Owner,          \* socket -> user
    Kind,           \* socket -> "channel" or "presence", the endpoint that serves it
    Handlers,       \* HTTP requests that broadcast
    Objects,        \* bound: set objects a key has at once
    MaxCasts        \* bound: frames are broadcast while fewer are in progress

Rooms == {"channel", "workspace"} \cup Users
Casters == Handlers \cup Sockets

ASSUME WsRoomsAssumption ==
    /\ Owner \in [Sockets -> Users] /\ Kind \in [Sockets -> {"channel", "presence"}]
    /\ Handlers \cap Sockets = {} /\ {"channel", "workspace"} \cap Users = {}
    /\ IsFiniteSet(Casters)
    /\ Objects \in Nat /\ Objects > Cardinality(Casters)
    /\ MaxCasts \in Nat

VARIABLES
    registry,   \* _ws_rooms: key -> its set object, 0 for no entry
    members,    \* key -> object -> sockets
    at,         \* socket -> "out" or "loop", inside the endpoint's receive loop
    link,       \* socket -> what its connection does with a frame
    cast,       \* caster -> its broadcast in progress
    pruned      \* history: key -> connections a broadcast gave up on

vars == <<registry, members, at, link, cast, pruned>>

Quiet == [phase |-> "quiet"]
Cast == [phase : {"sending", "done"}, room : Rooms, set : 1..Objects,
         left : SUBSET Sockets,     \* targets still to be sent to
         dead : SUBSET Sockets,
         steady : SUBSET Sockets]   \* history: targets that were up all along

TypeOK ==
    /\ registry \in [Rooms -> 0..Objects]
    /\ members \in [Rooms -> [1..Objects -> SUBSET Sockets]]
    /\ at \in [Sockets -> {"out", "loop"}]
    /\ link \in [Sockets -> {"up", "stalled", "down"}]
    /\ cast \in [Casters -> {Quiet} \cup Cast]
    /\ pruned \in [Rooms -> SUBSET Sockets]

Init ==
    /\ registry = [r \in Rooms |-> 0]
    /\ members = [r \in Rooms |-> [n \in 1..Objects |-> {}]]
    /\ at = [s \in Sockets |-> "out"]
    /\ link = [s \in Sockets |-> "down"]
    /\ cast = [c \in Casters |-> Quiet]
    /\ pruned = [r \in Rooms |-> {}]

-----------------------------------------------------------------------------
(* Rooms                                                                   *)

Room(r) == IF registry[r] = 0 THEN {} ELSE members[r][registry[r]]

Sending(c) == cast[c].phase = "sending"
Held(r) == {cast[c].set : c \in {d \in Casters : Sending(d) /\ cast[d].room = r}}

\* The object a join of r adds to: the key's own, or a new one nobody holds.
JoinedSet(r) ==
    IF registry[r] # 0 THEN registry[r] ELSE CHOOSE n \in 1..Objects : n \notin Held(r)

JoinedRooms(s) == {IF Kind[s] = "channel" THEN "channel" ELSE "workspace", Owner[s]}

Joined(r, s) == Room(r) \cup {s}
_ws_room_join(keys, s) ==
    /\ registry' = [r \in Rooms |-> IF r \in keys THEN JoinedSet(r) ELSE registry[r]]
    /\ members' = [r \in Rooms |->
           IF r \in keys THEN [members[r] EXCEPT ![JoinedSet(r)] = Joined(r, s)]
                         ELSE members[r]]

\* Mutant: the key goes with any member that leaves.
mut_LeaveDropsKey(keys, s) ==
    /\ registry' = [r \in Rooms |-> IF r \in keys THEN 0 ELSE registry[r]]
    /\ UNCHANGED members

\* The key goes with its last member, so an empty object is never registered.
_ws_room_leave(keys, s) ==
    /\ registry' = [r \in Rooms |-> IF r \in keys /\ Room(r) = {s} THEN 0 ELSE registry[r]]
    /\ members' = [r \in Rooms |->
           IF r \in keys /\ registry[r] # 0
           THEN [members[r] EXCEPT ![registry[r]] = @ \ {s}]
           ELSE members[r]]

-----------------------------------------------------------------------------
(* Broadcasts                                                              *)

\* The targets are those in the room now; an empty room or no target is no work.
StartCast(r, n, targets) ==
    IF targets = {} THEN Quiet
    ELSE [phase |-> "sending", room |-> r, set |-> n, left |-> targets,
          dead |-> {}, steady |-> {s \in targets : link[s] = "up"}]

_ws_broadcast(c, r, exclude) ==
    cast' = [cast EXCEPT ![c] = StartCast(r, registry[r], Room(r) \ exclude)]

\* Mutant: the failed peers are counted, not dropped.
mut_PruneNobody(b) ==
    /\ UNCHANGED <<registry, members>>
    /\ pruned' = [pruned EXCEPT ![b.room] = @ \cup {s \in b.dead : at[s] = "loop"}]

\* After the last send: drop the dead from the set object the broadcast began
\* with, and the key when that object is empty.
PruneDead(b) ==
    LET keep == members[b.room][b.set] \ b.dead
    IN  /\ members' = [members EXCEPT ![b.room][b.set] = keep]
        /\ registry' = [registry EXCEPT ![b.room] =
                            IF b.dead # {} /\ keep = {} THEN 0 ELSE @]
        /\ pruned' = [pruned EXCEPT ![b.room] = @ \cup {s \in b.dead : at[s] = "loop"}]

\* Mutant: the first failure leaves the loop.
mut_FirstFailureEnds(c, s, ok) ==
    LET b == [cast[c] EXCEPT !.left = @ \ {s}, !.dead = IF ok THEN @ ELSE @ \cup {s}]
    IN  /\ Sending(c) /\ s \in cast[c].left
        /\ IF ok /\ b.left # {}
           THEN /\ cast' = [cast EXCEPT ![c] = b]
                /\ UNCHANGED <<registry, members, pruned>>
           ELSE /\ cast' = [cast EXCEPT ![c] = [b EXCEPT !.phase = "done"]]
                /\ PruneDead(b)
        /\ UNCHANGED <<at, link>>

\* The outcome of the send to s; the last one ends the broadcast in the same step.
SendReturns(c, s, ok) ==
    LET b == [cast[c] EXCEPT !.left = @ \ {s},
                             !.dead = IF ok THEN @ ELSE @ \cup {s}]
    IN  /\ Sending(c) /\ s \in cast[c].left
        /\ IF b.left # {}
           THEN /\ cast' = [cast EXCEPT ![c] = b]
                /\ UNCHANGED <<registry, members, pruned>>
           ELSE /\ cast' = [cast EXCEPT ![c] = [b EXCEPT !.phase = "done"]]
                /\ PruneDead(b)
        /\ UNCHANGED <<at, link>>

Deliver(c, s) == link[s] = "up" /\ SendReturns(c, s, TRUE)

\* Mutant: no timeout.
mut_SendWaitsForStalled(c, s) == link[s] = "down" /\ SendReturns(c, s, FALSE)

\* A dead connection raises; a stalled one runs into the timeout.
SendFails(c, s) == link[s] # "up" /\ SendReturns(c, s, FALSE)

\* The broadcast returns to its caller.
Return(c) ==
    /\ cast[c].phase = "done"
    /\ cast' = [cast EXCEPT ![c] = Quiet]
    /\ UNCHANGED <<registry, members, at, link, pruned>>

-----------------------------------------------------------------------------
(* Endpoints and handlers                                                  *)

\* _presence_sockets: the user's presence sockets, joined and left together
\* with the rooms.
PresenceSockets(u) ==
    {s \in Sockets : Kind[s] = "presence" /\ Owner[s] = u /\ at[s] = "loop"}

Referred(s) ==
    \E c \in Casters : cast[c] # Quiet /\ s \in cast[c].left \cup cast[c].dead \cup cast[c].steady

\* The handshake is accepted: join both rooms; a user's first presence socket
\* announces the user to the workspace, itself included.
Connect(s) ==
    /\ at[s] = "out" /\ cast[s] = Quiet /\ ~Referred(s)
    /\ at' = [at EXCEPT ![s] = "loop"]
    /\ link' = [link EXCEPT ![s] = "up"]
    /\ _ws_room_join(JoinedRooms(s), s)
    /\ pruned' = [r \in Rooms |-> pruned[r] \ {s}]
    /\ IF Kind[s] = "presence" /\ PresenceSockets(Owner[s]) = {}
       THEN LET targets == Joined("workspace", s)
            IN  cast' = [cast EXCEPT ![s] =
                    [StartCast("workspace", JoinedSet("workspace"), targets)
                         EXCEPT !.steady = @ \cup {s}]]
       ELSE UNCHANGED cast

BelowCap == Cardinality({c \in Casters : cast[c] # Quiet}) < MaxCasts

\* A frame from the client: a typing frame goes to the others in the channel,
\* a presence frame to everyone in the workspace.
ClientFrame(s) ==
    /\ at[s] = "loop" /\ cast[s] = Quiet /\ BelowCap
    /\ IF Kind[s] = "channel" THEN _ws_broadcast(s, "channel", {s})
                              ELSE _ws_broadcast(s, "workspace", {})
    /\ UNCHANGED <<registry, members, at, link, pruned>>

\* Mutant: the finally clause forgets the user room.
mut_DisconnectKeepsUserRoom(s) ==
    /\ at[s] = "loop" /\ link[s] = "down" /\ cast[s] = Quiet
    /\ at' = [at EXCEPT ![s] = "out"]
    /\ _ws_room_leave(JoinedRooms(s) \ Users, s)
    /\ UNCHANGED <<cast, link, pruned>>

\* The endpoint notices the disconnect: leave both rooms; the user's last
\* presence socket announces the user's departure.
Disconnect(s) ==
    /\ at[s] = "loop" /\ link[s] = "down" /\ cast[s] = Quiet
    /\ at' = [at EXCEPT ![s] = "out"]
    /\ _ws_room_leave(JoinedRooms(s), s)
    /\ IF Kind[s] = "presence" /\ PresenceSockets(Owner[s]) = {s}
       THEN _ws_broadcast(s, "workspace", {s})
       ELSE UNCHANGED cast
    /\ UNCHANGED <<link, pruned>>

\* A message, reaction, notification or status request fans its frame out.
HandlerBroadcast(h, r) ==
    /\ cast[h] = Quiet /\ BelowCap
    /\ _ws_broadcast(h, r, {})
    /\ UNCHANGED <<registry, members, at, link, pruned>>

-----------------------------------------------------------------------------
(* The network: a connection stalls, recovers, and dies for good when the   *)
(* client closes it, TCP fails or the keepalive gives up.                   *)

LinkChanges(s, from, to) ==
    /\ at[s] = "loop" /\ link[s] \in from
    /\ link' = [link EXCEPT ![s] = to]
    /\ cast' = [c \in Casters |-> IF Sending(c) THEN [cast[c] EXCEPT !.steady = @ \ {s}]
                                                ELSE cast[c]]
    /\ UNCHANGED <<registry, members, at, pruned>>

Stall(s) == LinkChanges(s, {"up"}, "stalled")
Recover(s) == LinkChanges(s, {"stalled"}, "up")
GoDown(s) == LinkChanges(s, {"up", "stalled"}, "down")

-----------------------------------------------------------------------------
SendStep(c) == \E s \in Sockets : Deliver(c, s) \/ SendFails(c, s)

Next ==
    \/ \E c \in Casters : SendStep(c) \/ Return(c)
    \/ \E s \in Sockets : \/ Connect(s) \/ ClientFrame(s) \/ Disconnect(s)
                          \/ Stall(s) \/ Recover(s) \/ GoDown(s)
    \/ \E h \in Handlers, r \in Rooms : HandlerBroadcast(h, r)

Spec == Init /\ [][Next]_vars

\* A send returns within its timeout and a finished broadcast returns: the loop
\* runs what is ready.  An endpoint reads the disconnect after the frames that
\* came before it, which are finitely many.
Fairness ==
    /\ \A c \in Casters : WF_vars(SendStep(c)) /\ WF_vars(Return(c))
    /\ \A s \in Sockets : SF_vars(Disconnect(s))

FairSpec == Spec /\ Fairness

-----------------------------------------------------------------------------
(* Properties                                                              *)

\* No room retains a closed socket: whoever is in a registered room is still
\* inside its endpoint's loop (ws.py: "no room ever retains a closed socket").
NoRoomRetainsClosedSocket == \A r \in Rooms : \A s \in Room(r) : at[s] = "loop"

\* One peer never costs the others their frame: a broadcast that is over has
\* reached every target whose connection was fine throughout, however many of
\* the others raised or ran into the timeout.
SteadyTargetsGetTheFrame ==
    \A c \in Casters : cast[c].phase = "done" =>
        cast[c].left = {} /\ cast[c].steady \cap cast[c].dead = {}

\* A failed peer is paid for once: no broadcast that starts after another has
\* pruned a connection from a room sends to it in that room again.
PaidForOnce ==
    [][\A c \in Casters :
          cast[c] = Quiet /\ cast'[c] # Quiet
          => cast'[c].left \cap pruned[cast'[c].room] \subseteq
                 {s \in Sockets : at[s] = "out"}]_vars

\* Peers do not evict each other: a socket in its loop loses its place in a
\* registered room only in the step that ends a broadcast over that room which
\* had a dead target.
OnlyADeadPeerEvicts ==
    [][\A s \in Sockets, r \in Rooms :
          s \in Room(r) /\ s \notin Room(r)' /\ at'[s] = "loop"
          => \E c \in Casters : /\ Sending(c) /\ cast[c].room = r
                                /\ cast'[c].phase = "done" /\ cast'[c].dead # {}]_vars

\* Every broadcast ends, whatever its peers' connections do: the request that
\* makes it is never held by a wedged socket.
BroadcastsEnd == \A c \in Casters : Sending(c) ~> ~Sending(c)

\* A channel's room is every member socket of the channel (ws.py: "every
\* authenticated member socket of a channel"): a socket in its loop that no
\* broadcast has given up on is in both of its rooms.
UnprunedSocketsAreInTheirRooms ==
    \A s \in Sockets : at[s] = "loop" =>
        \A r \in JoinedRooms(s) : s \in Room(r) \cup pruned[r]
=============================================================================
