----------------------------- MODULE MCMRQueue -----------------------------
(* Instances of MRQueue for TLC.                                           *)
EXTENDS MRQueueRefinement, TLC, FiniteSets

CONSTANTS m1, m2, a1, a2, a3, b1

TwoOnOne == (a1 :> m1) @@ (a2 :> m1)
ThreeOnOne == (a1 :> m1) @@ (a2 :> m1) @@ (a3 :> m1)

OneOnEach == (a1 :> m1) @@ (b1 :> m2)

\* Replicas are alike, and so are the jobs when all are about the same merge
\* request.
ReplicaSymmetry == Permutations(Replicas)
FullSymmetry == Permutations(Replicas) \cup Permutations(Jobs)
=============================================================================
