--------------------------- MODULE MCDeviceMaster ---------------------------
(***************************************************************************)
(* DeviceMaster as TLC checks it.                                          *)
(***************************************************************************)
EXTENDS DeviceMaster, TLC

CONSTANTS p1, m1, m2, s1, s2

\* The publishers of topic 2 share it with one that always takes the first instance.
MCTopic == (p1 :> 2) @@ (m1 :> 2) @@ (m2 :> 2)

MCWanted == {<<1, 0>>, <<2, 1>>}

\* The publishers that look for an instance behave alike, and so do the subscribers.
MCSymmetry == Permutations({m1, m2}) \cup Permutations({s1, s2})
=============================================================================
