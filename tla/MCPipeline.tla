----------------------------- MODULE MCPipeline -----------------------------
(* Instances of Pipeline for TLC.                                          *)
EXTENDS Pipeline, TLC

(* Pipelines differ only in the configuration they read when they start.   *)
Symmetry == Permutations(Pipelines)
=============================================================================
