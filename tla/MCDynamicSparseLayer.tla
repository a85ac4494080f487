------------------------ MODULE MCDynamicSparseLayer ------------------------
(***************************************************************************)
(* DynamicSparseLayer as TLC checks it.                                    *)
(***************************************************************************)
EXTENDS DynamicSparseLayer, FiniteSets

CONSTANTS t1, t2

MCParams == 1..3

\* Each thread has a parameter of its own and they share one.
MCStores == (t1 :> {1, 2}) @@ (t2 :> {2, 3})

Symmetry == Permutations(Values) \cup Permutations(Addresses)
=============================================================================
