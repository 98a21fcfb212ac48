--------------------------- MODULE MCRunLifecycle ---------------------------
(* Instances of RunLifecycle for TLC.                                      *)
EXTENDS RunLifecycle, TLC

(* Runs, workers and requests are interchangeable; used by the runs that   *)
(* check safety only.                                                      *)
Symmetry == Permutations(Runs) \cup Permutations(Workers) \cup Permutations(Cancellers)
=============================================================================
