---------------------------- MODULE SocketsProofs ----------------------------
(***************************************************************************)
(* Theorems about the two ends of the WebSockets.  WsRooms, at the server, *)
(* for any sets of sockets, users and requests and any number of           *)
(* concurrent broadcasts; RealtimeSocket, the hook in the browser, for any *)
(* number of urls, changes of url and failures.  The two share no state:   *)
(* the theorems of each are about its own specification.                   *)
(***************************************************************************)
EXTENDS WsRooms, RealtimeSocket, FiniteSetTheorems, TLAPS

\* A room holds only sockets that are in their loop and joined that room.
RoomsHoldLiveSockets ==
    \A r \in Rooms : \A s \in Room(r) : at[s] = "loop" /\ r \in JoinedRooms(s)

\* A connection a broadcast deals with is in no set object of that key but the
\* one the broadcast began with: it joined before, and joins only once.
CastsKnowTheirSet ==
    \A c \in Casters, r \in Rooms : Sending(c) /\ cast[c].room = r =>
        \A s \in (cast[c].left \cup cast[c].dead) \cap Room(r) :
            at[s] = "loop" => registry[r] = cast[c].set

PrunedStayOut == \A r \in Rooms : pruned[r] \cap Room(r) = {}

\* The inductive invariant.
RoomInv == RoomsHoldLiveSockets /\ CastsKnowTheirSet /\ PrunedStayOut

-----------------------------------------------------------------------------
(* The type invariant.                                                     *)

\* There are more set objects than broadcasts, so one is always free.
LEMMA FreshSet ==
    ASSUME TypeOK, NEW r \in Rooms
    PROVE  JoinedSet(r) \in 1..Objects
<1> USE WsRoomsAssumption
<1>1. CASE registry[r] # 0
  BY <1>1 DEF JoinedSet, TypeOK
<1>2. CASE registry[r] = 0
  <2> DEFINE D == {d \in Casters : Sending(d) /\ cast[d].room = r}
             f == [d \in D |-> cast[d].set]
  <2>1. IsFiniteSet(D) /\ Cardinality(D) <= Cardinality(Casters)
    BY FS_Subset
  <2>2. f \in Surjection(D, Held(r))
    BY DEF Surjection, Held
  <2>3. IsFiniteSet(Held(r)) /\ Cardinality(Held(r)) <= Cardinality(D)
    <3> HIDE DEF f, D
    <3> QED BY <2>1, <2>2, FS_Surjection
  <2>4. /\ IsFiniteSet(1..Objects) /\ Cardinality(1..Objects) = Objects
    BY FS_Interval
  <2>5. Cardinality(Casters) \in Nat /\ Cardinality(D) \in Nat /\ Cardinality(Held(r)) \in Nat
    BY <2>1, <2>3, FS_CardinalityType
  <2>6. ~(1..Objects \subseteq Held(r))
    <3>1. SUFFICES ASSUME 1..Objects \subseteq Held(r) PROVE FALSE
      OBVIOUS
    <3>2. Objects <= Cardinality(Held(r))
      BY <2>3, <2>4, <3>1, FS_Subset
    <3> QED BY <2>1, <2>3, <2>5, <3>2
  <2>7. \E n \in 1..Objects : n \notin Held(r)
    BY <2>6
  <2> QED BY <1>2, <2>7 DEF JoinedSet
<1> QED BY <1>1, <1>2

\* A cast is well typed when its targets are sockets and, unless there are
\* none, its set object exists.
LEMMA StartCastType ==
    ASSUME NEW r \in Rooms, NEW n, NEW targets \in SUBSET Sockets,
           targets # {} => n \in 1..Objects
    PROVE  StartCast(r, n, targets) \in {Quiet} \cup Cast
BY DEF StartCast, Cast

LEMMA RoomType == TypeOK => \A r \in Rooms : Room(r) \in SUBSET Sockets
BY WsRoomsAssumption DEF TypeOK, Room

LEMMA RoomsHaveMembers ==
    ASSUME NEW s \in Sockets
    PROVE  JoinedRooms(s) \in SUBSET Rooms
BY WsRoomsAssumption DEF JoinedRooms, Rooms

LEMMA BroadcastType ==
    ASSUME TypeOK, NEW c \in Casters, NEW r \in Rooms, NEW x, _ws_broadcast(c, r, x)
    PROVE  cast' \in [Casters -> {Quiet} \cup Cast]
<1>1. Room(r) \ x \in SUBSET Sockets
  BY RoomType
<1>2. Room(r) \ x # {} => registry[r] \in 1..Objects
  BY WsRoomsAssumption DEF Room, TypeOK
<1>3. StartCast(r, registry[r], Room(r) \ x) \in {Quiet} \cup Cast
  BY <1>1, <1>2, StartCastType
<1> QED BY <1>3 DEF _ws_broadcast, TypeOK

LEMMA LeaveType ==
    ASSUME TypeOK, NEW K, NEW s \in Sockets, _ws_room_leave(K, s)
    PROVE  /\ registry' \in [Rooms -> 0..Objects]
           /\ members' \in [Rooms -> [1..Objects -> SUBSET Sockets]]
BY WsRoomsAssumption DEF TypeOK, _ws_room_leave

LEMMA JoinType ==
    ASSUME TypeOK, NEW K, NEW s \in Sockets, _ws_room_join(K, s)
    PROVE  /\ registry' \in [Rooms -> 0..Objects]
           /\ members' \in [Rooms -> [1..Objects -> SUBSET Sockets]]
<1>1. \A r \in Rooms : JoinedSet(r) \in 1..Objects
  BY FreshSet
<1>2. \A r \in Rooms : Joined(r, s) \in SUBSET Sockets
  BY RoomType DEF Joined
<1> QED BY <1>1, <1>2, WsRoomsAssumption DEF TypeOK, _ws_room_join

LEMMA SendType ==
    ASSUME TypeOK, NEW c \in Casters, NEW s \in Sockets, NEW ok, SendReturns(c, s, ok)
    PROVE  TypeOK'
<1> DEFINE b == [cast[c] EXCEPT !.left = @ \ {s}, !.dead = IF ok THEN @ ELSE @ \cup {s}]
<1>1. cast[c] \in Cast
  BY DEF SendReturns, Sending, TypeOK, Quiet
<1>2. b \in Cast /\ [b EXCEPT !.phase = "done"] \in Cast
  BY <1>1 DEF Cast
<1>3. CASE b.left # {}
  BY <1>2, <1>3 DEF SendReturns, TypeOK
<1>4. CASE b.left = {}
  <2>1. cast' = [cast EXCEPT ![c] = [b EXCEPT !.phase = "done"]] /\ PruneDead(b)
        /\ UNCHANGED <<at, link>>
    BY <1>4 DEF SendReturns
  <2>2. b.room \in Rooms /\ b.set \in 1..Objects /\ b.dead \in SUBSET Sockets
    BY <1>2 DEF Cast
  <2> HIDE DEF b
  <2>3. members' \in [Rooms -> [1..Objects -> SUBSET Sockets]]
    BY <2>1, <2>2 DEF PruneDead, TypeOK
  <2>4. registry' \in [Rooms -> 0..Objects]
    BY <2>1, <2>2, WsRoomsAssumption DEF PruneDead, TypeOK
  <2>5. pruned' \in [Rooms -> SUBSET Sockets]
    BY <2>1, <2>2 DEF PruneDead, TypeOK
  <2>6. cast' \in [Casters -> {Quiet} \cup Cast]
    BY <1>2, <2>1 DEF TypeOK
  <2> QED BY <2>1, <2>3, <2>4, <2>5, <2>6 DEF TypeOK
<1> QED BY <1>3, <1>4

LEMMA InitType == Init => TypeOK
BY WsRoomsAssumption DEF Init, TypeOK

LEMMA ConnectType ==
    ASSUME TypeOK, NEW s \in Sockets, Connect(s)
    PROVE  TypeOK'
<1>1. /\ registry' \in [Rooms -> 0..Objects]
      /\ members' \in [Rooms -> [1..Objects -> SUBSET Sockets]]
  BY JoinType DEF Connect
<1>2. at' \in [Sockets -> {"out", "loop"}] /\ link' \in [Sockets -> {"up", "stalled", "down"}]
      /\ pruned' \in [Rooms -> SUBSET Sockets]
  BY DEF Connect, TypeOK
<1>3. cast' \in [Casters -> {Quiet} \cup Cast]
  <2> DEFINE b == StartCast("workspace", JoinedSet("workspace"), Joined("workspace", s))
  <2>1. "workspace" \in Rooms
    BY DEF Rooms
  <2>2. Joined("workspace", s) \in SUBSET Sockets /\ Joined("workspace", s) # {}
    BY <2>1, RoomType DEF Joined
  <2>3. b \in Cast
    BY <2>1, <2>2, FreshSet DEF StartCast, Cast
  <2>4. [b EXCEPT !.steady = @ \cup {s}] \in Cast
    BY <2>3 DEF Cast
  <2> HIDE DEF b
  <2> QED BY <2>4 DEF Connect, TypeOK, b
<1> QED BY <1>1, <1>2, <1>3 DEF TypeOK

LEMMA NextType == TypeOK /\ [Next]_vars => TypeOK'
<1> SUFFICES ASSUME TypeOK, [Next]_vars PROVE TypeOK'
  OBVIOUS
<1>1. ASSUME NEW c \in Casters, NEW s \in Sockets, Deliver(c, s) \/ SendFails(c, s)
      PROVE  TypeOK'
  BY <1>1, SendType DEF Deliver, SendFails
<1>2. ASSUME NEW c \in Casters, Return(c)
      PROVE  TypeOK'
  BY <1>2 DEF Return, TypeOK
<1>3. ASSUME NEW s \in Sockets, Connect(s)
      PROVE  TypeOK'
  BY <1>3, ConnectType
<1>4. ASSUME NEW s \in Sockets, ClientFrame(s)
      PROVE  TypeOK'
  <2>1. s \in Casters /\ "channel" \in Rooms /\ "workspace" \in Rooms
    BY DEF Casters, Rooms
  <2>2. cast' \in [Casters -> {Quiet} \cup Cast]
    BY <1>4, <2>1, BroadcastType DEF ClientFrame
  <2> QED BY <1>4, <2>2 DEF ClientFrame, TypeOK
<1>5. ASSUME NEW s \in Sockets, Disconnect(s)
      PROVE  TypeOK'
  <2>1. s \in Casters /\ "workspace" \in Rooms
    BY DEF Casters, Rooms
  <2>2. cast' \in [Casters -> {Quiet} \cup Cast]
    BY <1>5, <2>1, BroadcastType DEF Disconnect, TypeOK
  <2>3. /\ registry' \in [Rooms -> 0..Objects]
        /\ members' \in [Rooms -> [1..Objects -> SUBSET Sockets]]
    BY <1>5, LeaveType DEF Disconnect
  <2> QED BY <1>5, <2>2, <2>3 DEF Disconnect, TypeOK
<1>6. ASSUME NEW s \in Sockets, Stall(s) \/ Recover(s) \/ GoDown(s)
      PROVE  TypeOK'
  <2>1. PICK from \in SUBSET {"up", "stalled"}, to \in {"up", "stalled", "down"} :
            LinkChanges(s, from, to)
    BY <1>6 DEF Stall, Recover, GoDown
  <2>2. ASSUME NEW c \in Casters, Sending(c)
        PROVE  [cast[c] EXCEPT !.steady = @ \ {s}] \in Cast
    <3>1. cast[c] \in Cast
      BY <2>2 DEF Sending, TypeOK, Quiet
    <3> QED BY <3>1 DEF Cast
  <2>3. cast' \in [Casters -> {Quiet} \cup Cast]
    BY <2>1, <2>2 DEF LinkChanges, TypeOK
  <2> QED BY <2>1, <2>3 DEF LinkChanges, TypeOK
<1>7. ASSUME NEW h \in Handlers, NEW r \in Rooms, HandlerBroadcast(h, r)
      PROVE  TypeOK'
  <2>1. h \in Casters
    BY DEF Casters
  <2>2. cast' \in [Casters -> {Quiet} \cup Cast]
    BY <1>7, <2>1, BroadcastType DEF HandlerBroadcast
  <2> QED BY <1>7, <2>2 DEF HandlerBroadcast, TypeOK
<1>8. CASE UNCHANGED vars
  BY <1>8 DEF vars, TypeOK
<1> QED BY <1>1, <1>2, <1>3, <1>4, <1>5, <1>6, <1>7, <1>8 DEF Next, SendStep

\* TypeOK holds in every reachable state.
THEOREM RoomsTyped == Spec => []TypeOK
<1>1. Init => TypeOK
  BY InitType
<1>2. TypeOK /\ [Next]_vars => TypeOK'
  BY NextType
<1> QED BY <1>1, <1>2, PTL DEF Spec

-----------------------------------------------------------------------------
(* How each step changes the rooms.                                        *)

LEMMA JoinRooms ==
    ASSUME TypeOK, NEW K, NEW s \in Sockets, _ws_room_join(K, s)
    PROVE  \A r \in Rooms :
              /\ Room(r)' = IF r \in K THEN Room(r) \cup {s} ELSE Room(r)
              /\ registry[r] # 0 => registry'[r] = registry[r]
<1> SUFFICES ASSUME NEW r \in Rooms
             PROVE  /\ Room(r)' = IF r \in K THEN Room(r) \cup {s} ELSE Room(r)
                    /\ registry[r] # 0 => registry'[r] = registry[r]
  OBVIOUS
<1>1. JoinedSet(r) \in 1..Objects
  BY FreshSet
<1>2. registry[r] # 0 => registry'[r] = registry[r]
  BY DEF _ws_room_join, JoinedSet
<1>3. CASE r \in K
  <2>1. registry'[r] = JoinedSet(r) /\ members'[r][JoinedSet(r)] = Joined(r, s)
    BY <1>1, <1>3 DEF _ws_room_join, TypeOK
  <2>2. Room(r)' = Joined(r, s)
    BY <1>1, <2>1 DEF Room
  <2> QED BY <1>2, <1>3, <2>2 DEF Joined
<1>4. CASE r \notin K
  BY <1>2, <1>4 DEF _ws_room_join, Room
<1> QED BY <1>3, <1>4

LEMMA LeaveRooms ==
    ASSUME TypeOK, NEW K, NEW s \in Sockets, _ws_room_leave(K, s)
    PROVE  \A r \in Rooms :
              /\ Room(r)' = IF r \in K THEN Room(r) \ {s} ELSE Room(r)
              /\ registry'[r] \in {0, registry[r]}
<1> SUFFICES ASSUME NEW r \in Rooms
             PROVE  /\ Room(r)' = IF r \in K THEN Room(r) \ {s} ELSE Room(r)
                    /\ registry'[r] \in {0, registry[r]}
  OBVIOUS
<1>1. registry'[r] = IF r \in K /\ Room(r) = {s} THEN 0 ELSE registry[r]
  BY DEF _ws_room_leave
<1>2. CASE registry[r] = 0
  BY <1>1, <1>2 DEF Room
<1>3. CASE registry[r] # 0
  <2>1. registry[r] \in 1..Objects
    BY <1>3, WsRoomsAssumption DEF TypeOK
  <2>2. CASE r \in K
    <3>1. members'[r][registry[r]] = members[r][registry[r]] \ {s}
      BY <1>3, <2>1, <2>2 DEF _ws_room_leave, TypeOK
    <3> QED BY <1>1, <1>3, <2>2, <3>1 DEF Room
  <2>3. CASE r \notin K
    BY <1>1, <1>3, <2>3 DEF Room, _ws_room_leave
  <2> QED BY <1>1, <2>2, <2>3
<1> QED BY <1>2, <1>3

\* Pruning takes the dead out of the set object it holds, whatever that is now.
LEMMA PruneRooms ==
    ASSUME TypeOK, NEW b \in Cast, PruneDead(b)
    PROVE  /\ \A r \in Rooms :
                 /\ Room(r)' \subseteq Room(r)
                 /\ registry'[r] \in {0, registry[r]}
                 /\ r # b.room \/ b.dead = {} => Room(r)' = Room(r)
           /\ registry[b.room] = b.set => Room(b.room)' \cap b.dead = {}
<1> DEFINE keep == members[b.room][b.set] \ b.dead
<1>1. b.room \in Rooms /\ b.set \in 1..Objects
  BY DEF Cast
<1>2. /\ \A r \in Rooms : registry'[r] \in {0, registry[r]}
      /\ \A r \in Rooms : r # b.room \/ b.dead = {} => registry'[r] = registry[r]
  BY <1>1 DEF PruneDead, TypeOK
<1>3. /\ \A r \in Rooms, n \in 1..Objects :
             members'[r][n] = IF r = b.room /\ n = b.set THEN keep ELSE members[r][n]
  BY <1>1 DEF PruneDead, TypeOK
<1>4. \A r \in Rooms : registry[r] # 0 => registry[r] \in 1..Objects
  BY WsRoomsAssumption DEF TypeOK
<1>5. ASSUME NEW r \in Rooms
      PROVE  Room(r)' \subseteq Room(r) /\ (r # b.room \/ b.dead = {} => Room(r)' = Room(r))
  <2>1. CASE registry'[r] = 0
    <3>1. Room(r)' = {}
      BY <2>1 DEF Room
    <3> QED BY <1>2, <2>1, <3>1 DEF Room
  <2>2. CASE registry'[r] # 0
    <3>1. registry'[r] = registry[r] /\ registry[r] \in 1..Objects
      BY <1>2, <1>4, <2>2
    <3>2. Room(r)' = members'[r][registry[r]] /\ Room(r) = members[r][registry[r]]
      BY <2>2, <3>1 DEF Room
    <3> QED BY <1>3, <3>1, <3>2
  <2> QED BY <2>1, <2>2
<1>6. ASSUME registry[b.room] = b.set
      PROVE  Room(b.room)' \cap b.dead = {}
  <2>1. members'[b.room][b.set] = keep
    BY <1>1, <1>3
  <2>2. registry'[b.room] \in {0, b.set}
    BY <1>1, <1>2, <1>6
  <2> QED BY <2>1, <2>2 DEF Room
<1> QED BY <1>1, <1>2, <1>5, <1>6

\* A broadcast starts with targets from the room, of the key's current object.
LEMMA CastStarts ==
    ASSUME TypeOK, NEW c \in Casters, NEW r \in Rooms, NEW x, _ws_broadcast(c, r, x)
    PROVE  /\ \A d \in Casters : d # c => cast'[d] = cast[d]
           /\ cast'[c] # Quiet => /\ cast'[c].room = r /\ cast'[c].set = registry[r]
                                  /\ cast'[c].left \subseteq Room(r) \ x
                                  /\ cast'[c].dead = {}
                                  /\ cast'[c].phase = "sending"
BY DEF _ws_broadcast, StartCast, TypeOK

-----------------------------------------------------------------------------
(* The inductive invariant.                                                *)

LEMMA InitInv == Init => RoomInv
BY DEF Init, RoomInv, RoomsHoldLiveSockets, CastsKnowTheirSet, PrunedStayOut,
       Room, Sending, Quiet

\* A broadcast's knowledge of its set object survives a step that leaves the
\* broadcast alone, puts nobody in a room and makes no entry.
LEMMA ShrinkKeepsCast ==
    ASSUME TypeOK, RoomInv, NEW c \in Casters, NEW r \in Rooms,
           cast'[c] = cast[c], Sending(c), cast[c].room = r,
           \A s \in Sockets : at'[s] = "loop" => at[s] = "loop",
           Room(r)' \subseteq Room(r), registry'[r] \in {0, registry[r]},
           NEW s \in (cast'[c].left \cup cast'[c].dead) \cap Room(r)',
           at'[s] = "loop"
    PROVE  registry'[r] = cast'[c].set
<1>1. cast[c] \in Cast
  BY DEF Sending, Quiet, TypeOK
<1>2. s \in Sockets /\ s \in (cast[c].left \cup cast[c].dead) \cap Room(r)
  BY <1>1 DEF Cast
<1>3. registry[r] = cast[c].set
  BY <1>2 DEF RoomInv, CastsKnowTheirSet
<1>4. registry'[r] # 0
  BY DEF Room
<1> QED BY <1>3, <1>4

LEMMA ConnectInv ==
    ASSUME TypeOK, TypeOK', RoomInv, NEW s \in Sockets, Connect(s)
    PROVE  RoomInv'
<1>1. /\ at'[s] = "loop" /\ \A t \in Sockets : t # s => at'[t] = at[t]
      /\ pruned' = [r \in Rooms |-> pruned[r] \ {s}]
  BY DEF Connect, TypeOK
<1>2. \A r \in Rooms :
         /\ Room(r)' = IF r \in JoinedRooms(s) THEN Room(r) \cup {s} ELSE Room(r)
         /\ registry[r] # 0 => registry'[r] = registry[r]
  BY JoinRooms DEF Connect
<1>3. \A r \in Rooms : Room(r) \subseteq Sockets /\ s \notin Room(r)
  BY RoomType DEF Connect, RoomInv, RoomsHoldLiveSockets
<1>4. RoomsHoldLiveSockets'
  BY <1>1, <1>2, <1>3 DEF RoomInv, RoomsHoldLiveSockets, JoinedRooms
<1>5. PrunedStayOut'
  BY <1>1, <1>2 DEF RoomInv, PrunedStayOut
<1>6. CastsKnowTheirSet'
  <2> SUFFICES ASSUME NEW c \in Casters, NEW r \in Rooms, Sending(c)', cast'[c].room = r,
                      NEW t \in (cast'[c].left \cup cast'[c].dead) \cap Room(r)',
                      at'[t] = "loop"
               PROVE  registry'[r] = cast'[c].set
    BY DEF CastsKnowTheirSet
  <2>1. cast'[c] \in Cast
    BY DEF TypeOK, Sending, Quiet
  <2>2. t \in Sockets
    BY <2>1 DEF Cast
  <2>3. CASE cast'[c] = cast[c]
    <3>1. Sending(c)
      BY <2>3 DEF Sending
    <3>2. t # s
      BY <2>3, <3>1 DEF Connect, Referred, Sending, Quiet
    <3>3. t \in Room(r) /\ at[t] = "loop"
      BY <1>1, <1>2, <2>2, <3>2
    <3>4. registry[r] = cast[c].set /\ registry[r] # 0
      BY <2>3, <3>1, <3>3 DEF RoomInv, CastsKnowTheirSet, Room
    <3> QED BY <1>2, <2>2, <2>3, <3>4
  <2>4. CASE cast'[c] # cast[c]
    <3>1. Kind[s] = "presence" /\ c = s
          /\ cast'[c] = [StartCast("workspace", JoinedSet("workspace"), Joined("workspace", s))
                             EXCEPT !.steady = @ \cup {s}]
      BY <2>4 DEF Connect, TypeOK
    <3>2. cast'[c].room = "workspace" /\ cast'[c].set = JoinedSet("workspace")
      BY <3>1 DEF StartCast, Joined
    <3>3. registry'["workspace"] = JoinedSet("workspace")
      BY <3>1 DEF Connect, _ws_room_join, JoinedRooms, Rooms
    <3> QED BY <3>2, <3>3
  <2> QED BY <2>3, <2>4
<1> QED BY <1>4, <1>5, <1>6 DEF RoomInv

LEMMA DisconnectInv ==
    ASSUME TypeOK, TypeOK', RoomInv, NEW s \in Sockets, Disconnect(s)
    PROVE  RoomInv'
<1>1. \A t \in Sockets : at'[t] = IF t = s THEN "out" ELSE at[t]
  BY DEF Disconnect, TypeOK
<1>2. \A r \in Rooms :
         /\ Room(r)' = IF r \in JoinedRooms(s) THEN Room(r) \ {s} ELSE Room(r)
         /\ registry'[r] \in {0, registry[r]}
  BY LeaveRooms DEF Disconnect
<1>3. \A r \in Rooms : Room(r) \subseteq Sockets
  BY RoomType
<1>4. RoomsHoldLiveSockets'
  BY <1>1, <1>2, <1>3 DEF RoomInv, RoomsHoldLiveSockets, JoinedRooms
<1>5. PrunedStayOut'
  BY <1>2 DEF Disconnect, RoomInv, PrunedStayOut
<1>6. CastsKnowTheirSet'
  <2> SUFFICES ASSUME NEW c \in Casters, NEW r \in Rooms, Sending(c)', cast'[c].room = r,
                      NEW t \in (cast'[c].left \cup cast'[c].dead) \cap Room(r)',
                      at'[t] = "loop"
               PROVE  registry'[r] = cast'[c].set
    BY DEF CastsKnowTheirSet
  <2>1. cast'[c] \in Cast
    BY DEF TypeOK, Sending, Quiet
  <2>2. t \in Sockets
    BY <2>1 DEF Cast
  <2>3. CASE cast'[c] = cast[c]
    <3>1. Sending(c)
      BY <2>3 DEF Sending
    <3> QED BY <1>1, <1>2, <2>3, <3>1, ShrinkKeepsCast
  <2>4. CASE cast'[c] # cast[c]
    <3>1. c = s /\ _ws_broadcast(s, "workspace", {s})
      <4>1. s \in Casters /\ "workspace" \in Rooms
        BY DEF Casters, Rooms
      <4>2. _ws_broadcast(s, "workspace", {s})
        BY <2>4 DEF Disconnect
      <4> QED BY <2>4, <4>1, <4>2, CastStarts
    <3>2. "workspace" \in Rooms
      BY DEF Rooms
    <3>3. r = "workspace" /\ cast'[c].set = registry[r]
      BY <3>1, <3>2, CastStarts DEF Sending, Quiet
    <3>4. registry'[r] # 0
      BY DEF Room
    <3> QED BY <1>2, <3>2, <3>3, <3>4
  <2> QED BY <2>3, <2>4
<1> QED BY <1>4, <1>5, <1>6 DEF RoomInv

LEMMA SendInv ==
    ASSUME TypeOK, TypeOK', RoomInv, NEW c \in Casters, NEW s \in Sockets, NEW ok,
           SendReturns(c, s, ok)
    PROVE  RoomInv'
<1> DEFINE b == [cast[c] EXCEPT !.left = @ \ {s}, !.dead = IF ok THEN @ ELSE @ \cup {s}]
<1>1. cast[c] \in Cast /\ Sending(c) /\ s \in cast[c].left /\ at' = at
  BY DEF SendReturns, Sending, TypeOK, Quiet
<1>2. /\ b \in Cast /\ b.room = cast[c].room /\ b.set = cast[c].set
      /\ b.left \cup b.dead \subseteq cast[c].left \cup cast[c].dead
  BY <1>1 DEF Cast
<1>3. \A d \in Casters : d # c => cast'[d] = cast[d]
  BY DEF SendReturns, TypeOK
<1>4. CASE b.left # {}
  <2>1. cast'[c] = b /\ UNCHANGED <<registry, members, pruned, at>>
    BY <1>1, <1>4 DEF SendReturns, TypeOK
  <2>2. \A r \in Rooms : Room(r)' = Room(r)
    BY <2>1 DEF Room
  <2> HIDE DEF b
  <2>3. CastsKnowTheirSet'
    BY <1>1, <1>2, <1>3, <2>1, <2>2 DEF RoomInv, CastsKnowTheirSet, Sending
  <2> QED BY <2>1, <2>2, <2>3 DEF RoomInv, RoomsHoldLiveSockets, PrunedStayOut, JoinedRooms
<1>5. CASE b.left = {}
  <2>0. PICK p \in Cast : p = b
    BY <1>2
  <2>1. cast'[c].phase = "done" /\ PruneDead(p)
    <3>1. cast'[c] = [b EXCEPT !.phase = "done"] /\ PruneDead(b)
      BY <1>5 DEF SendReturns, TypeOK
    <3> HIDE DEF b
    <3> QED BY <2>0, <3>1 DEF Cast
  <2>2. /\ p.room = cast[c].room /\ p.set = cast[c].set /\ p.room \in Rooms
        /\ p.dead \subseteq cast[c].left \cup cast[c].dead
    BY <1>2, <2>0 DEF Cast
  <2> HIDE DEF b
  <2>3. /\ \A r \in Rooms : /\ Room(r)' \subseteq Room(r)
                            /\ registry'[r] \in {0, registry[r]}
        /\ registry[p.room] = p.set => Room(p.room)' \cap p.dead = {}
    BY <2>0, <2>1, PruneRooms
  <2>4. CastsKnowTheirSet'
    <3> SUFFICES ASSUME NEW d \in Casters, NEW r \in Rooms, Sending(d)', cast'[d].room = r,
                        NEW t \in (cast'[d].left \cup cast'[d].dead) \cap Room(r)',
                        at'[t] = "loop"
                 PROVE  registry'[r] = cast'[d].set
      BY DEF CastsKnowTheirSet
    <3>1. d # c
      BY <2>1 DEF Sending
    <3>2. cast'[d] = cast[d] /\ Sending(d)
      BY <1>3, <3>1 DEF Sending
    <3> QED BY <1>1, <2>3, <3>2, ShrinkKeepsCast
  <2>5. PrunedStayOut'
    <3> SUFFICES ASSUME NEW r \in Rooms, NEW t \in pruned'[r], t \in Room(r)'
                 PROVE  FALSE
      BY DEF PrunedStayOut
    <3>1. t \in Room(r) /\ t \notin pruned[r]
      BY <2>3 DEF RoomInv, PrunedStayOut
    <3>2. r = p.room /\ t \in p.dead /\ at[t] = "loop"
      BY <2>1, <2>2, <3>1 DEF PruneDead, TypeOK
    <3>3. registry[r] = p.set
      BY <1>1, <2>2, <3>1, <3>2 DEF RoomInv, CastsKnowTheirSet
    <3> QED BY <2>3, <3>2, <3>3
  <2>6. RoomsHoldLiveSockets'
    BY <1>1, <2>3 DEF RoomInv, RoomsHoldLiveSockets, JoinedRooms
  <2> QED BY <2>4, <2>5, <2>6 DEF RoomInv
<1> QED BY <1>4, <1>5

\* The parts of RoomInv in a step that leaves rooms and sockets alone.
LEMMA RestInv ==
    ASSUME RoomInv, UNCHANGED <<registry, members, at, pruned>>, CastsKnowTheirSet'
    PROVE  RoomInv'
<1>1. \A r \in Rooms : Room(r)' = Room(r)
  BY DEF Room
<1> QED BY <1>1 DEF RoomInv, RoomsHoldLiveSockets, PrunedStayOut, JoinedRooms

LEMMA CastInv ==
    ASSUME TypeOK, RoomInv, NEW c \in Casters, NEW k \in Rooms, NEW x,
           _ws_broadcast(c, k, x), UNCHANGED <<registry, members, at, pruned>>
    PROVE  RoomInv'
<1>1. \A r \in Rooms : Room(r)' = Room(r)
  BY DEF Room
<1>2. CastsKnowTheirSet'
  <2> SUFFICES ASSUME NEW d \in Casters, NEW r \in Rooms, Sending(d)', cast'[d].room = r,
                      NEW t \in (cast'[d].left \cup cast'[d].dead) \cap Room(r)',
                      at'[t] = "loop"
               PROVE  registry'[r] = cast'[d].set
    BY DEF CastsKnowTheirSet
  <2>1. CASE d = c
    <3>1. cast'[c].room = k /\ cast'[c].set = registry[k]
      BY <2>1, CastStarts DEF Sending, Quiet
    <3> QED BY <2>1, <3>1
  <2>2. CASE d # c
    <3>1. cast'[d] = cast[d]
      BY <2>2, CastStarts
    <3> QED BY <1>1, <3>1 DEF RoomInv, CastsKnowTheirSet, Sending
  <2> QED BY <2>1, <2>2
<1> QED BY <1>2, RestInv

LEMMA NextInv == TypeOK /\ TypeOK' /\ RoomInv /\ [Next]_vars => RoomInv'
<1> SUFFICES ASSUME TypeOK, TypeOK', RoomInv, [Next]_vars PROVE RoomInv'
  OBVIOUS
<1>1. ASSUME NEW c \in Casters, NEW s \in Sockets, Deliver(c, s) \/ SendFails(c, s)
      PROVE  RoomInv'
  BY <1>1, SendInv DEF Deliver, SendFails
<1>2. ASSUME NEW c \in Casters, Return(c)
      PROVE  RoomInv'
  <2>1. \A d \in Casters : Sending(d)' => Sending(d) /\ cast'[d] = cast[d]
    BY <1>2 DEF Return, Sending, Quiet, TypeOK
  <2>2. UNCHANGED <<registry, members, at, pruned>> /\ \A r \in Rooms : Room(r)' = Room(r)
    BY <1>2 DEF Return, Room
  <2>3. CastsKnowTheirSet'
    BY <2>1, <2>2 DEF RoomInv, CastsKnowTheirSet
  <2> QED BY <2>2, <2>3, RestInv
<1>3. ASSUME NEW s \in Sockets, Connect(s)
      PROVE  RoomInv'
  BY <1>3, ConnectInv
<1>4. ASSUME NEW s \in Sockets, ClientFrame(s)
      PROVE  RoomInv'
  <2>1. s \in Casters /\ "channel" \in Rooms /\ "workspace" \in Rooms
    BY DEF Casters, Rooms
  <2> QED BY <1>4, <2>1, CastInv DEF ClientFrame
<1>5. ASSUME NEW s \in Sockets, Disconnect(s)
      PROVE  RoomInv'
  BY <1>5, DisconnectInv
<1>6. ASSUME NEW s \in Sockets, Stall(s) \/ Recover(s) \/ GoDown(s)
      PROVE  RoomInv'
  <2>1. PICK from \in SUBSET {"up", "stalled"}, to \in {"up", "stalled", "down"} :
            LinkChanges(s, from, to)
    BY <1>6 DEF Stall, Recover, GoDown
  <2>2. UNCHANGED <<registry, members, at, pruned>> /\ \A r \in Rooms : Room(r)' = Room(r)
    BY <2>1 DEF LinkChanges, Room
  <2>3. ASSUME NEW c \in Casters, Sending(c)'
        PROVE  /\ Sending(c) /\ cast'[c].room = cast[c].room /\ cast'[c].set = cast[c].set
               /\ cast'[c].left = cast[c].left /\ cast'[c].dead = cast[c].dead
    <3>1. Sending(c) => cast[c] \in Cast
      BY DEF Sending, Quiet, TypeOK
    <3>2. Sending(c)
      BY <2>1, <2>3 DEF LinkChanges, Sending
    <3> QED BY <2>1, <3>1, <3>2 DEF LinkChanges, Cast
  <2>4. CastsKnowTheirSet'
    BY <2>2, <2>3 DEF RoomInv, CastsKnowTheirSet
  <2> QED BY <2>2, <2>4, RestInv
<1>7. ASSUME NEW h \in Handlers, NEW r \in Rooms, HandlerBroadcast(h, r)
      PROVE  RoomInv'
  <2>1. h \in Casters
    BY DEF Casters
  <2> QED BY <1>7, <2>1, CastInv DEF HandlerBroadcast
<1>8. CASE UNCHANGED vars
  <2>1. UNCHANGED <<registry, members, at, pruned>> /\ \A r \in Rooms : Room(r)' = Room(r)
    BY <1>8 DEF vars, Room
  <2>2. CastsKnowTheirSet'
    BY <1>8, <2>1 DEF vars, RoomInv, CastsKnowTheirSet, Sending
  <2> QED BY <2>1, <2>2, RestInv
<1> QED BY <1>1, <1>2, <1>3, <1>4, <1>5, <1>6, <1>7, <1>8 DEF Next, SendStep

THEOREM RoomInvariant == Spec => [](TypeOK /\ RoomInv)
<1>1. Init => TypeOK /\ RoomInv
  BY InitType, InitInv
<1>2. TypeOK /\ RoomInv /\ [Next]_vars => (TypeOK /\ RoomInv)'
  BY NextType, NextInv
<1> QED BY <1>1, <1>2, PTL DEF Spec

\* No registered room ever holds a socket that has left its endpoint, whatever
\* broadcasts hold references to its set objects.
THEOREM RoomsHoldNoClosedSocket == Spec => []NoRoomRetainsClosedSocket
<1>1. RoomInv => NoRoomRetainsClosedSocket
  BY DEF RoomInv, RoomsHoldLiveSockets, NoRoomRetainsClosedSocket
<1> QED BY <1>1, RoomInvariant, PTL

-----------------------------------------------------------------------------
(* Action properties.                                                      *)

\* A connection pruned from a room is never sent to there again by a broadcast
\* that starts later.
THEOREM PrunedIsPaidFor == Spec => PaidForOnce
<1> DEFINE Paid == \A c \in Casters :
                      cast[c] = Quiet /\ cast'[c] # Quiet
                      => cast'[c].left \cap pruned[cast'[c].room] \subseteq
                             {s \in Sockets : at[s] = "out"}
<1>1. TypeOK /\ RoomInv /\ [Next]_vars => [Paid]_vars
  <2> SUFFICES ASSUME TypeOK, RoomInv, [Next]_vars, NEW c \in Casters,
                      cast[c] = Quiet, cast'[c] # Quiet
               PROVE  cast'[c].left \cap pruned[cast'[c].room] \subseteq
                          {s \in Sockets : at[s] = "out"}
    OBVIOUS
  <2>1. ASSUME NEW r \in Rooms, NEW d \in Casters, NEW x, _ws_broadcast(d, r, x)
        PROVE  cast'[c].left \cap pruned[cast'[c].room] \subseteq
                   {s \in Sockets : at[s] = "out"}
    <3>1. cast'[c].room = r /\ cast'[c].left \subseteq Room(r)
      BY <2>1, CastStarts
    <3> QED BY <3>1 DEF RoomInv, PrunedStayOut
  <2>2. ASSUME NEW s \in Sockets, Connect(s)
        PROVE  cast'[c].left \cap pruned[cast'[c].room] \subseteq
                   {t \in Sockets : at[t] = "out"}
    <3>1. cast'[c] = [StartCast("workspace", JoinedSet("workspace"), Joined("workspace", s))
                         EXCEPT !.steady = @ \cup {s}]
      BY <2>2 DEF Connect, TypeOK
    <3>2. cast'[c].room = "workspace" /\ cast'[c].left = Room("workspace") \cup {s}
      BY <3>1 DEF StartCast, Joined
    <3>3. "workspace" \in Rooms /\ at[s] = "out"
      BY <2>2 DEF Connect, Rooms
    <3> QED BY <3>2, <3>3 DEF RoomInv, PrunedStayOut
  <2>3. ASSUME NEW d \in Casters, NEW s \in Sockets, Deliver(d, s) \/ SendFails(d, s)
        PROVE  FALSE
    BY <2>3 DEF Deliver, SendFails, SendReturns, Sending, Quiet, TypeOK
  <2>4. ASSUME NEW d \in Casters, Return(d)
        PROVE  FALSE
    BY <2>4 DEF Return, Quiet, TypeOK
  <2>5. ASSUME NEW s \in Sockets, Stall(s) \/ Recover(s) \/ GoDown(s)
        PROVE  FALSE
    BY <2>5 DEF Stall, Recover, GoDown, LinkChanges, Sending, Quiet
  <2>6. ASSUME NEW s \in Sockets, ClientFrame(s)
        PROVE  \E r \in Rooms, x \in {{}, {s}} : s \in Casters /\ _ws_broadcast(s, r, x)
    BY <2>6 DEF ClientFrame, Casters, Rooms
  <2>7. ASSUME NEW s \in Sockets, Disconnect(s)
        PROVE  s \in Casters /\ "workspace" \in Rooms /\ _ws_broadcast(s, "workspace", {s})
    BY <2>7 DEF Disconnect, Casters, Rooms
  <2>8. ASSUME NEW h \in Handlers, NEW r \in Rooms, HandlerBroadcast(h, r)
        PROVE  h \in Casters /\ _ws_broadcast(h, r, {})
    BY <2>8 DEF HandlerBroadcast, Casters
  <2> QED BY <2>1, <2>2, <2>3, <2>4, <2>5, <2>6, <2>7, <2>8 DEF Next, SendStep, vars
<1> QED BY <1>1, RoomInvariant, PTL DEF Spec, PaidForOnce

\* A socket in its loop loses a registered room only at the end of a broadcast
\* over that room with a dead target.
THEOREM OnlyPruningEvicts == Spec => OnlyADeadPeerEvicts
<1> DEFINE Evicted == \A s \in Sockets, r \in Rooms :
          s \in Room(r) /\ s \notin Room(r)' /\ at'[s] = "loop"
          => \E c \in Casters : /\ Sending(c) /\ cast[c].room = r
                                /\ cast'[c].phase = "done" /\ cast'[c].dead # {}
<1>1. TypeOK /\ [Next]_vars => [Evicted]_vars
  <2> SUFFICES ASSUME TypeOK, [Next]_vars, NEW s \in Sockets, NEW r \in Rooms,
                      s \in Room(r), s \notin Room(r)', at'[s] = "loop"
               PROVE  \E c \in Casters : /\ Sending(c) /\ cast[c].room = r
                                         /\ cast'[c].phase = "done" /\ cast'[c].dead # {}
    OBVIOUS
  <2>1. ASSUME NEW c \in Casters, NEW t \in Sockets, NEW ok, SendReturns(c, t, ok)
        PROVE  /\ Sending(c) /\ cast[c].room = r
               /\ cast'[c].phase = "done" /\ cast'[c].dead # {}
    <3> DEFINE b == [cast[c] EXCEPT !.left = @ \ {t}, !.dead = IF ok THEN @ ELSE @ \cup {t}]
    <3>1. cast[c] \in Cast /\ Sending(c)
      BY <2>1 DEF SendReturns, Sending, TypeOK, Quiet
    <3>2. b \in Cast /\ b.room = cast[c].room
      BY <3>1 DEF Cast
    <3>3. b.left = {}
      BY <2>1 DEF SendReturns, Room
    <3>4. cast'[c] = [b EXCEPT !.phase = "done"] /\ PruneDead(b)
      BY <2>1, <3>3 DEF SendReturns, TypeOK
    <3>5. b.room = r /\ b.dead # {}
      <4> HIDE DEF b
      <4> QED BY <3>2, <3>4, PruneRooms
    <3>6. cast'[c].phase = "done" /\ cast'[c].dead = b.dead
      BY <3>2, <3>4 DEF Cast
    <3> QED BY <3>1, <3>2, <3>5, <3>6
  <2>2. ASSUME NEW t \in Sockets, Connect(t)
        PROVE  FALSE
    BY <2>2, JoinRooms DEF Connect
  <2>3. ASSUME NEW t \in Sockets, Disconnect(t)
        PROVE  FALSE
    <3>1. t # s
      BY <2>3 DEF Disconnect, TypeOK
    <3> QED BY <2>3, <3>1, LeaveRooms DEF Disconnect
  <2>4. ~UNCHANGED <<registry, members>>
    BY DEF Room
  <2>5. ASSUME NEW t \in Sockets, Stall(t) \/ Recover(t) \/ GoDown(t) \/ ClientFrame(t)
        PROVE  FALSE
    BY <2>4, <2>5 DEF Stall, Recover, GoDown, LinkChanges, ClientFrame
  <2>6. /\ \A c \in Casters : ~Return(c)
        /\ \A h \in Handlers, k \in Rooms : ~HandlerBroadcast(h, k)
        /\ ~UNCHANGED vars
    BY <2>4 DEF Return, HandlerBroadcast, vars
  <2> QED BY <2>1, <2>2, <2>3, <2>5, <2>6 DEF Next, SendStep, Deliver, SendFails
<1> QED BY <1>1, RoomInvariant, PTL DEF Spec, OnlyADeadPeerEvicts

-----------------------------------------------------------------------------
(* Steady targets.                                                         *)

\* While a broadcast runs, a steady target it has not reached is up; no steady
\* target has failed; and a broadcast that is done has nobody left.
CastKeepsSteady(b, links) ==
    /\ b.steady \cap b.dead = {}
    /\ b.phase = "sending" => \A s \in b.steady \cap b.left : links[s] = "up"
    /\ b.phase = "done" => b.left = {}

SteadyInv == \A c \in Casters : cast[c] # Quiet => CastKeepsSteady(cast[c], link)

LEMMA StartIsSteady ==
    ASSUME NEW r, NEW n, NEW targets, NEW links,
           StartCast(r, n, targets) # Quiet,
           \A s \in targets : link[s] = "up" => links[s] = "up"
    PROVE  CastKeepsSteady(StartCast(r, n, targets), links)
  BY DEF StartCast, CastKeepsSteady

\* One cast is replaced by a steady one, the others and the links stay.
LEMMA OneCastChanges ==
    ASSUME TypeOK, SteadyInv, NEW c \in Casters, NEW b,
           cast' = [cast EXCEPT ![c] = b], UNCHANGED link,
           b = Quiet \/ CastKeepsSteady(b, link)
    PROVE  SteadyInv'
  BY DEF SteadyInv, TypeOK

LEMMA BroadcastIsSteady ==
    ASSUME TypeOK, SteadyInv, NEW c \in Casters, NEW r \in Rooms, NEW x,
           _ws_broadcast(c, r, x), UNCHANGED link
    PROVE  SteadyInv'
<1> DEFINE b == StartCast(r, registry[r], Room(r) \ x)
<1>1. b = Quiet \/ CastKeepsSteady(b, link)
  BY StartIsSteady
<1> QED
  BY <1>1, OneCastChanges DEF _ws_broadcast

LEMMA SendIsSteady ==
    ASSUME TypeOK, SteadyInv, NEW c \in Casters, NEW s \in Sockets, NEW ok \in BOOLEAN,
           SendReturns(c, s, ok), ok \/ link[s] # "up"
    PROVE  SteadyInv'
<1> DEFINE b == [cast[c] EXCEPT !.left = @ \ {s}, !.dead = IF ok THEN @ ELSE @ \cup {s}]
           e == [b EXCEPT !.phase = "done"]
<1>1. cast[c] \in Cast /\ cast[c].phase = "sending" /\ s \in cast[c].left /\ cast[c] # Quiet
  BY DEF SendReturns, Sending, TypeOK, Quiet
<1>2. CastKeepsSteady(cast[c], link)
  BY <1>1 DEF SteadyInv
<1>3. s \in cast[c].steady => ok
  BY <1>1, <1>2 DEF CastKeepsSteady
<1>4. /\ b.steady = cast[c].steady /\ b.phase = "sending" /\ b.left = cast[c].left \ {s}
      /\ b.dead \subseteq cast[c].dead \cup {s} /\ (ok => b.dead = cast[c].dead)
      /\ e.steady = b.steady /\ e.phase = "done" /\ e.left = b.left /\ e.dead = b.dead
  BY <1>1 DEF Cast
<1>5. cast' = [cast EXCEPT ![c] = IF b.left # {} THEN b ELSE e] /\ UNCHANGED link
  BY DEF SendReturns
<1> HIDE DEF b, e
<1>6. b.steady \cap b.dead = {}
  BY <1>2, <1>3, <1>4 DEF CastKeepsSteady
<1>7. CastKeepsSteady(b, link)
  BY <1>1, <1>2, <1>4, <1>6 DEF CastKeepsSteady
<1>8. b.left = {} => CastKeepsSteady(e, link)
  BY <1>4, <1>6 DEF CastKeepsSteady
<1> QED
  BY <1>5, <1>7, <1>8, OneCastChanges

\* The first presence socket announces itself too, as a steady target.
LEMMA ConnectIsSteady ==
    ASSUME TypeOK, SteadyInv, NEW s \in Sockets, Connect(s)
    PROVE  SteadyInv'
<1>1. link' = [link EXCEPT ![s] = "up"] /\ s \in Casters
  BY DEF Connect, Casters
<1>2. ASSUME NEW c \in Casters, cast[c] # Quiet
      PROVE  CastKeepsSteady(cast[c], link')
  BY <1>1, <1>2 DEF SteadyInv, CastKeepsSteady, TypeOK
<1>3. CASE UNCHANGED cast
  BY <1>2, <1>3 DEF SteadyInv
<1>4. CASE cast' # cast
  <2> DEFINE b == StartCast("workspace", JoinedSet("workspace"), Joined("workspace", s))
             d == [b EXCEPT !.steady = @ \cup {s}]
  <2>1. cast' = [cast EXCEPT ![s] = d]
    BY <1>4 DEF Connect
  <2>2. /\ b.phase = "sending" /\ b.dead = {} /\ d.phase = "sending" /\ d.dead = {}
        /\ d.steady = b.steady \cup {s} /\ \A t \in b.steady : link[t] = "up"
    BY DEF StartCast, Joined
  <2>3. CastKeepsSteady(d, link')
    <3> HIDE DEF b, d
    <3>1. \A t \in d.steady : link'[t] = "up" \/ t \notin Sockets
      BY <1>1, <2>2 DEF TypeOK
    <3>2. b.steady \subseteq Sockets
      BY RoomType, WsRoomsAssumption DEF b, StartCast, Joined, Rooms
    <3>3. \A t \in d.steady : link'[t] = "up"
      BY <2>2, <3>1, <3>2
    <3> QED
      BY <2>2, <3>3 DEF CastKeepsSteady
  <2> HIDE DEF d
  <2> QED
    BY <1>1, <1>2, <2>1, <2>3 DEF SteadyInv, TypeOK
<1> QED
  BY <1>3, <1>4

LEMMA LinkIsSteady ==
    ASSUME TypeOK, SteadyInv, NEW s \in Sockets, NEW from, NEW to, LinkChanges(s, from, to)
    PROVE  SteadyInv'
<1> SUFFICES ASSUME NEW c \in Casters, cast'[c] # Quiet
             PROVE  CastKeepsSteady(cast'[c], link')
  BY DEF SteadyInv
<1>1. CASE Sending(c)
  <2>1. cast[c] \in Cast /\ cast[c] # Quiet
    BY <1>1 DEF Sending, Quiet, TypeOK
  <2>2. /\ cast'[c].steady = cast[c].steady \ {s} /\ cast'[c].dead = cast[c].dead
        /\ cast'[c].left = cast[c].left /\ cast'[c].phase = "sending"
    BY <1>1, <2>1 DEF LinkChanges, Cast, Sending
  <2>3. \A t \in cast'[c].steady : link'[t] = link[t]
    BY <2>2 DEF LinkChanges, TypeOK
  <2> QED
    BY <1>1, <2>1, <2>2, <2>3 DEF SteadyInv, CastKeepsSteady, Sending
<1>2. CASE ~Sending(c)
  BY <1>2 DEF LinkChanges, SteadyInv, CastKeepsSteady, Sending
<1> QED
  BY <1>1, <1>2

LEMMA NextIsSteady == TypeOK /\ SteadyInv /\ [Next]_vars => SteadyInv'
<1> SUFFICES ASSUME TypeOK, SteadyInv, [Next]_vars PROVE SteadyInv'
  OBVIOUS
<1>1. ASSUME NEW c \in Casters, NEW s \in Sockets, Deliver(c, s) \/ SendFails(c, s)
      PROVE  SteadyInv'
  BY <1>1, SendIsSteady DEF Deliver, SendFails
<1>2. ASSUME NEW c \in Casters, Return(c)
      PROVE  SteadyInv'
  BY <1>2, OneCastChanges DEF Return
<1>3. ASSUME NEW s \in Sockets, Connect(s)
      PROVE  SteadyInv'
  BY <1>3, ConnectIsSteady
<1>4. "channel" \in Rooms /\ "workspace" \in Rooms /\ Sockets \subseteq Casters
      /\ Handlers \subseteq Casters
  BY DEF Rooms, Casters
<1>5. ASSUME NEW s \in Sockets, ClientFrame(s)
      PROVE  SteadyInv'
  BY <1>4, <1>5, BroadcastIsSteady DEF ClientFrame
<1>6. ASSUME NEW s \in Sockets, Disconnect(s)
      PROVE  SteadyInv'
  <2>1. CASE UNCHANGED cast
    BY <1>6, <2>1 DEF Disconnect, SteadyInv
  <2>2. CASE _ws_broadcast(s, "workspace", {s})
    BY <1>4, <1>6, <2>2, BroadcastIsSteady DEF Disconnect
  <2> QED
    BY <1>6, <2>1, <2>2 DEF Disconnect
<1>7. ASSUME NEW s \in Sockets, Stall(s) \/ Recover(s) \/ GoDown(s)
      PROVE  SteadyInv'
  BY <1>7, LinkIsSteady DEF Stall, Recover, GoDown
<1>8. ASSUME NEW h \in Handlers, NEW r \in Rooms, HandlerBroadcast(h, r)
      PROVE  SteadyInv'
  BY <1>4, <1>8, BroadcastIsSteady DEF HandlerBroadcast
<1>9. CASE UNCHANGED vars
  BY <1>9 DEF vars, SteadyInv
<1> QED
  BY <1>1, <1>2, <1>3, <1>5, <1>6, <1>7, <1>8, <1>9 DEF Next, SendStep

\* A broadcast that is over has reached every target whose connection was fine
\* throughout, however many of the others failed or stalled.
THEOREM SteadyTargetsAreReached == Spec => []SteadyTargetsGetTheFrame
<1>1. Init => SteadyInv
  BY DEF Init, SteadyInv
<1>2. TypeOK /\ SteadyInv => SteadyTargetsGetTheFrame
  BY DEF SteadyInv, CastKeepsSteady, SteadyTargetsGetTheFrame, Quiet
<1> QED
  BY <1>1, <1>2, NextIsSteady, RoomsTyped, PTL DEF Spec

-----------------------------------------------------------------------------
(* The hook never has two live sockets.  The invariant behind it:          *)
(* everything that is not on its way out belongs to the run of the effect  *)
(* that is not cancelled, and a reconnection is due only when that run has *)
(* no socket.                                                              *)

\* The types, one socket to a run left out.
Typed ==
    /\ url \in Urls \cup {Null} /\ run \in Runs
    /\ sockets \subseteq Socket
    /\ ref \in Runs \cup {0}
    /\ timer \in Timer \cup {NoTimer}
    /\ delay \in MIN_DELAY..MAX_DELAY
    /\ status \in {"idle", "connecting", "open", "reconnecting"}
    /\ faults \in 0..MaxFaults

\* A run has one socket, and the next run has none yet.
OnePerRun ==
    /\ \A a, b \in sockets : a.run = b.run => a = b
    /\ \A s \in sockets : s.run <= run

\* Only the current run's socket is alive; it is the one the hook holds.
AliveIsCurrent ==
    /\ ref \in {0, run}
    /\ \A s \in sockets : s.run = run => s.url = url
    /\ \A s \in sockets : s.state # "closing" => s.run = run /\ ref = run

\* A reconnection is due for the current run, which has no socket.
TimerIsAlone ==
    timer # NoTimer =>
        timer.run = run /\ timer.url = url /\ \A s \in sockets : s.run # run

SocketInv == Typed /\ OnePerRun /\ AliveIsCurrent /\ TimerIsAlone

-----------------------------------------------------------------------------
LEMMA TimersHaveADelay == NoTimer \notin Timer
  BY DEF NoTimer, Timer, MIN_DELAY, MAX_DELAY

LEMMA SocketInvInit == HookInit => SocketInv
  BY RealtimeAssumption, TimersHaveADelay
  DEF HookInit, SocketInv, Typed, OnePerRun, AliveIsCurrent, TimerIsAlone, Runs, MIN_DELAY, MAX_DELAY

LEMMA ClosingKeepsRuns ==
    ASSUME Typed
    PROVE  /\ Closing \subseteq Socket
           /\ \A s \in Closing : \E o \in sockets :
                /\ s.run = o.run /\ s.url = o.url
                /\ s = IF o.run = ref THEN [o EXCEPT !.state = "closing"] ELSE o
  BY DEF Typed, Closing, Socket

\* What a timer that is set looks like.
LEMMA DueIs ==
    ASSUME NEW r \in Runs, NEW u \in Urls, NEW d \in MIN_DELAY..MAX_DELAY
    PROVE  Due(r, u, d) \in Timer /\ Due(r, u, d).run = r /\ Due(r, u, d).url = u
  BY DEF Due, Timer

LEMMA FaultsAreBounded == ASSUME Typed, Throws PROVE faults' \in 0..MaxFaults
  BY RealtimeAssumption DEF Typed, Throws

LEMMA ChangeKeepsInv ==
    ASSUME SocketInv, NEW u \in Urls \cup {Null}, UrlChanges(u)
    PROVE  SocketInv'
<1> USE DEF SocketInv, UrlChanges
<1>1. run' = run + 1 /\ run' \in Runs /\ url' = u
  BY RealtimeAssumption DEF Typed, Runs
<1>2. \A s \in Closing : s.run <= run /\ s.run # run' /\ s.state = "closing" /\ s.run \in Runs
  BY <1>1, ClosingKeepsRuns DEF Typed, OnePerRun, AliveIsCurrent, Socket, Runs
<1>3. \A a, b \in Closing : a.run = b.run => a = b
  BY ClosingKeepsRuns DEF Typed, OnePerRun, Socket
<1>4. ASSUME sockets' = Closing \cup {Connecting(run + 1, u)}, ref' = run', timer' = NoTimer,
             UNCHANGED faults, u # Null, delay' = MIN_DELAY, status' = "connecting"
      PROVE  SocketInv'
  <2>2. Connecting(run + 1, u) = [run |-> run', url |-> u, state |-> "connecting"]
    BY <1>1 DEF Connecting
  <2>3. Connecting(run + 1, u) \in Socket
    BY <2>2, <1>1, <1>4 DEF Socket
  <2>4. Typed'
    BY <1>1, <1>4, <2>3, ClosingKeepsRuns DEF Typed, MIN_DELAY, MAX_DELAY
  <2>5. OnePerRun'
    BY <1>1, <1>2, <1>3, <1>4, <2>2 DEF OnePerRun, Typed, Runs
  <2>6. AliveIsCurrent'
    BY <1>1, <1>2, <1>4, <2>2 DEF AliveIsCurrent
  <2> QED
    BY <1>1, <1>4, <2>4, <2>5, <2>6 DEF TimerIsAlone
<1>5. ASSUME sockets' = Closing, ref' = 0,
             delay' \in MIN_DELAY..MAX_DELAY, status' \in {"idle", "connecting"}, faults' \in 0..MaxFaults,
             timer' # NoTimer => timer' \in Timer /\ timer'.run = run' /\ timer'.url = u
      PROVE  SocketInv'
  <2>2. Typed'
    BY <1>1, <1>5, ClosingKeepsRuns DEF Typed
  <2>3. OnePerRun' /\ AliveIsCurrent'
    BY <1>1, <1>2, <1>3, <1>5 DEF OnePerRun, AliveIsCurrent, Typed, Runs
  <2>4. TimerIsAlone'
    BY <1>1, <1>2, <1>5 DEF TimerIsAlone
  <2> QED
    BY <2>2, <2>3, <2>4
<1>6. CASE u # Null /\ cookieWillReach(u)
  <2>1. /\ delay' = MIN_DELAY /\ status' = "connecting"
        /\ \/ /\ sockets' = Closing \cup {Connecting(run + 1, u)} /\ ref' = run + 1
              /\ timer' = NoTimer /\ UNCHANGED faults
           \/ /\ sockets' = Closing /\ ref' = 0 /\ Throws
              /\ timer' = Due(run + 1, u, MIN_DELAY)
    BY <1>6
  <2>2. MIN_DELAY \in MIN_DELAY..MAX_DELAY /\ u \in Urls
    BY <1>6 DEF MIN_DELAY, MAX_DELAY
  <2>3. CASE sockets' = Closing /\ ref' = 0 /\ Throws /\ timer' = Due(run + 1, u, MIN_DELAY)
    <3>1. timer' \in Timer /\ timer'.run = run' /\ timer'.url = u
      BY <1>1, <2>2, <2>3, DueIs
    <3>2. faults' \in 0..MaxFaults
      BY <2>3, FaultsAreBounded
    <3> QED
      BY <1>5, <2>1, <2>2, <2>3, <3>1, <3>2
  <2> QED
    BY <1>1, <1>4, <1>6, <2>1, <2>3
<1>7. CASE ~(u # Null /\ cookieWillReach(u))
  <2>1. /\ sockets' = Closing /\ ref' = 0 /\ timer' = NoTimer /\ status' = "idle"
        /\ delay' = IF u = Null THEN delay ELSE MIN_DELAY
        /\ UNCHANGED faults
    BY <1>7
  <2>2. delay' \in MIN_DELAY..MAX_DELAY /\ faults' \in 0..MaxFaults
    BY <2>1 DEF Typed, MIN_DELAY, MAX_DELAY
  <2>3. status' \in {"idle", "connecting"}
    BY <2>1
  <2>4. sockets' = Closing /\ ref' = 0
    BY <2>1
  <2>5. timer' = NoTimer
    BY <2>1
  <2> HIDE DEF UrlChanges, SocketInv
  <2> QED
    BY <1>5, <2>2, <2>3, <2>4, <2>5
<1> QED
  BY <1>6, <1>7

\* An open or a lost connection changes the state of one socket.
LEMMA OneChangesState ==
    ASSUME SocketInv, NEW s \in sockets, s.state # "closing",
           NEW st \in {"open", "closing"},
           sockets' = (sockets \ {s}) \cup {[s EXCEPT !.state = st]},
           UNCHANGED <<url, run, ref, timer>>
    PROVE  sockets' \subseteq Socket /\ OnePerRun' /\ AliveIsCurrent' /\ TimerIsAlone'
<1> USE DEF SocketInv
<1> DEFINE n == [s EXCEPT !.state = st]
<1>1. n \in Socket /\ n.run = s.run /\ n.url = s.url /\ n.state = st
  BY DEF Typed, Socket
<1> HIDE DEF n
<1>2. \A a \in sockets' : a = n \/ (a \in sockets /\ a # s)
  BY DEF n
<1>3. sockets' \subseteq Socket
  BY <1>1, <1>2 DEF Typed
<1>4. OnePerRun'
  BY <1>1, <1>2 DEF OnePerRun
<1>5. AliveIsCurrent'
  BY <1>1, <1>2 DEF AliveIsCurrent
<1>6. TimerIsAlone'
  BY <1>1, <1>2 DEF TimerIsAlone
<1> QED
  BY <1>3, <1>4, <1>5, <1>6

LEMMA ClosedKeepsInv ==
    ASSUME SocketInv, NEW s \in sockets, Closed(s)
    PROVE  SocketInv'
<1> USE DEF SocketInv, Closed, scheduleReconnect, cancelled
<1>1. s \in Socket /\ sockets' = sockets \ {s} /\ sockets' \subseteq Socket
  BY DEF Typed
<1>2. Typed'
  BY <1>1, DueIs DEF Typed, Socket
<1>3. OnePerRun' /\ AliveIsCurrent'
  BY <1>1 DEF OnePerRun, AliveIsCurrent
<1>4. CASE s.run = run
  <2>1. timer'.run = run /\ timer'.url = url /\ run' = run /\ url' = url
    BY <1>1, <1>4, DueIs DEF AliveIsCurrent, Typed, Socket
  <2>2. \A o \in sockets' : o.run # run
    BY <1>1, <1>4 DEF OnePerRun
  <2> QED
    BY <1>2, <1>3, <2>1, <2>2 DEF TimerIsAlone
<1>5. CASE s.run # run
  BY <1>1, <1>2, <1>3, <1>5 DEF TimerIsAlone
<1> QED
  BY <1>4, <1>5

LEMMA TimerKeepsInv ==
    ASSUME SocketInv, TimerFires
    PROVE  SocketInv'
<1> USE DEF SocketInv, TimerFires
<1> DEFINE n == Connecting(run, url)
<1>1. timer \in Timer /\ timer.run = run /\ timer.url = url /\ \A s \in sockets : s.run # run
  BY DEF Typed, TimerIsAlone
<1>2. \/ sockets' = sockets \cup {n} /\ ref' = run /\ timer' = NoTimer /\ UNCHANGED faults
      \/ Throws /\ timer' = Due(run, url, delay') /\ UNCHANGED <<sockets, ref>>
  BY <1>1 DEF connect, cancelled
<1>3. n \in Socket /\ n.run = run /\ n.url = url
  BY <1>1 DEF Connecting, Socket, Timer, Typed
<1> HIDE DEF n
<1>4. delay' \in MIN_DELAY..MAX_DELAY
  BY DEF Typed, MIN_DELAY, MAX_DELAY
<1>5. CASE sockets' = sockets \cup {n} /\ ref' = run /\ timer' = NoTimer /\ UNCHANGED faults
  <2>1. Typed'
    BY <1>3, <1>4, <1>5 DEF Typed
  <2>2. OnePerRun' /\ AliveIsCurrent'
    BY <1>1, <1>3, <1>5 DEF OnePerRun, AliveIsCurrent, Typed, Runs
  <2> QED
    BY <1>5, <2>1, <2>2 DEF TimerIsAlone
<1>6. CASE Throws /\ timer' = Due(run, url, delay') /\ UNCHANGED <<sockets, ref>>
  <2>1. url \in Urls /\ run \in Runs /\ run' = run /\ url' = url
    BY <1>1 DEF Timer
  <2>2. timer' \in Timer /\ timer'.run = run /\ timer'.url = url
    BY <1>4, <1>6, <2>1, DueIs
  <2>3. Typed'
    BY <1>4, <1>6, <2>2, FaultsAreBounded DEF Typed
  <2> QED
    BY <1>1, <1>6, <2>1, <2>2, <2>3 DEF OnePerRun, AliveIsCurrent, TimerIsAlone
<1> QED
  BY <1>2, <1>5, <1>6

LEMMA SocketInvNext == SocketInv /\ [HookNext]_hookVars => SocketInv'
<1> SUFFICES ASSUME SocketInv, [HookNext]_hookVars PROVE SocketInv'
  OBVIOUS
<1>1. ASSUME NEW u \in Urls \cup {Null}, UrlChanges(u) PROVE SocketInv'
  BY <1>1, ChangeKeepsInv
<1>2. ASSUME NEW s \in sockets, Opened(s) PROVE SocketInv'
  <2>1. s.state # "closing" /\ UNCHANGED <<url, run, ref, timer, faults>>
        /\ sockets' = (sockets \ {s}) \cup {[s EXCEPT !.state = "open"]}
    BY <1>2 DEF Opened
  <2>2. sockets' \subseteq Socket /\ OnePerRun' /\ AliveIsCurrent' /\ TimerIsAlone'
    BY <2>1, OneChangesState
  <2> QED
    BY <1>2, <2>1, <2>2 DEF SocketInv, Typed, Opened, MIN_DELAY, MAX_DELAY
<1>3. ASSUME NEW s \in sockets, Lost(s) PROVE SocketInv'
  <2>1. s.state # "closing" /\ UNCHANGED <<url, run, ref, timer, delay, status>>
        /\ sockets' = (sockets \ {s}) \cup {[s EXCEPT !.state = "closing"]}
    BY <1>3 DEF Lost
  <2>2. sockets' \subseteq Socket /\ OnePerRun' /\ AliveIsCurrent' /\ TimerIsAlone'
    BY <2>1, OneChangesState
  <2>3. faults' \in 0..MaxFaults
    BY <1>3, RealtimeAssumption DEF Lost, SocketInv, Typed
  <2> QED
    BY <2>1, <2>2, <2>3 DEF SocketInv, Typed
<1>4. ASSUME NEW s \in sockets, Closed(s) PROVE SocketInv'
  BY <1>4, ClosedKeepsInv
<1>5. CASE TimerFires
  BY <1>5, TimerKeepsInv
<1>6. CASE UNCHANGED hookVars
  BY <1>6 DEF hookVars, SocketInv, Typed, OnePerRun, AliveIsCurrent, TimerIsAlone
<1> QED
  BY <1>1, <1>2, <1>3, <1>4, <1>5, <1>6 DEF HookNext

LEMMA SocketInvHolds == HookSpec => []SocketInv
  BY SocketInvInit, SocketInvNext, PTL DEF HookSpec

-----------------------------------------------------------------------------
\* The hook's state stays well typed, with one socket to a run of its effect.
THEOREM SocketTyped == HookSpec => []HookTypeOK
<1>1. SocketInv => HookTypeOK
  BY DEF SocketInv, Typed, OnePerRun, HookTypeOK
<1> QED
  BY <1>1, SocketInvHolds, PTL

\* At most one socket of the hook is connecting or open; it is to the url asked
\* for, the next cleanup will close it, and no reconnection is due beside it.
THEOREM OneSocketAtATime == HookSpec => []OneLiveSocket
<1>1. SocketInv => OneLiveSocket
  <2> SUFFICES ASSUME SocketInv PROVE OneLiveSocket
    OBVIOUS
  <2> USE DEF SocketInv
  <2>1. \A s \in Live : s \in sockets /\ s.run = run /\ ref = run
    BY DEF Live, AliveIsCurrent
  <2>2. \A s, t \in Live : s = t
    BY <2>1 DEF OnePerRun
  <2>3. Cardinality(Live) <= 1
    <3>1. CASE Live = {}
      BY <3>1, FS_EmptySet
    <3>2. CASE Live # {}
      <4>1. PICK s \in Live : Live = {s}
        BY <3>2, <2>2
      <4>2. Cardinality({s}) = 1
        BY FS_Singleton
      <4> QED
        BY <4>1, <4>2
    <3> QED
      BY <3>1, <3>2
  <2>4. \A s \in Live : s.url = url /\ s.run = ref /\ timer = NoTimer
    BY <2>1 DEF AliveIsCurrent, TimerIsAlone
  <2> QED
    BY <2>3, <2>4 DEF OneLiveSocket, TimerIsAlone
<1> QED
  BY <1>1, SocketInvHolds, PTL
=============================================================================
