------------------------------- MODULE MCChat -------------------------------
(***************************************************************************)
(* Two channels, two sends and two writes, but only one of these seconds   *)
(* in a behaviour that sends or reacts: two sends and one write to one     *)
(* list, one send while two channels are read, and so on; a reaction counts*)
(* as a second write.  A behaviour that searches only reads one channel,   *)
(* while others write to it.                                               *)
(***************************************************************************)
EXTENDS Chat, TLC

CONSTANTS c1, c2, plain, hit, s1, s2

Second(set) == IF Cardinality(set) > 1 THEN 1 ELSE 0
Read == {k \in Keys : cache[k] # NewKey}
Used == {s \in Sends : sends[s] # Unsent}

ReactingOrWriting == IF writes > 1 \/ reaction # NoReaction THEN 1 ELSE 0

Scope ==
    \/ /\ \A k \in Read : ~k.searching
       /\ Second(Read) + Second(Used) + ReactingOrWriting <= 1
    \/ /\ Used = {} /\ reaction = NoReaction
       /\ Cardinality({k.channel : k \in Read}) <= 1

\* What is posted is plain; only an edit makes it match the search.
PlainPosts ==
    /\ \A id \in Ids : rows[id] = Unborn /\ rows'[id] # Unborn => rows'[id].text = plain
    /\ \A s \in Sends : sends'[s] \notin {Unsent, Ended} => sends'[s].text = plain

MCSpec == Init /\ [][Next /\ Scope' /\ PlainPosts]_vars
MCSymmetry == Permutations(Channels) \cup Permutations(Sends)
=============================================================================
