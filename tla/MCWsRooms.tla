------------------------------ MODULE MCWsRooms ------------------------------
(* Instances of WsRooms for TLC.                                             *)
EXTENDS WsRooms, TLC

CONSTANTS u1, u2, s1, s2

\* Two tabs of different users on the channel.
PairOwner == s1 :> u1 @@ s2 :> u2
PairKind == s1 :> "channel" @@ s2 :> "channel"

\* A tab on the channel and a dashboard tab of one user.
OneOwner == s1 :> u1 @@ s2 :> u1
MixedKind == s1 :> "channel" @@ s2 :> "presence"
=============================================================================
