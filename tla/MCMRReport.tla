----------------------------- MODULE MCMRReport -----------------------------
(* Instances of MRReport for TLC.                                          *)
EXTENDS MRReport, TLC

CONSTANTS r1, r2

\* The repository's own configuration looks at everything, the default one
\* not at the commits.
Lenient == ("repo" :> Parts) @@ ("default" :> {"details", "approvals"})

RunnerSymmetry == Permutations(Runners)
=============================================================================
