CONSTANTS
    u1 = u1
    u2 = u2
    s1 = s1
    s2 = s2
    Users = {u1, u2}
    Sockets = {s1, s2}
    Handlers = {h1}
    Owner <- OneOwner
    Kind <- MixedKind
    Objects = 4
    MaxCasts = 3
SPECIFICATION FairSpec
INVARIANT NoRoomRetainsClosedSocket
INVARIANT SteadyTargetsGetTheFrame
PROPERTY BroadcastsEnd
PROPERTY PaidForOnce
PROPERTY OnlyADeadPeerEvicts
