---------------------------- MODULE MCJobPipeline ---------------------------
(* Model-checking instances of JobPipeline.                                *)
EXTENDS JobPipeline, TLC

CONSTANTS r1, r2

ReplicaSymmetry == Permutations({r1, r2})
=============================================================================
