------------------------------ MODULE MCRouter ------------------------------
(* A model-checking instance of Router: a CPU worker that serves up to     *)
(* int4, of the same rank as a name the ranking does not have, and a GPU   *)
(* worker with a precision of its own, registered as fp32.                 *)
EXTENDS Router

MCSupports == [w \in Workers |-> {"classifier"}]
MCConfigured == [w \in Workers |-> IF w = 1 THEN "int4" ELSE "bf16"]
MCGPU == [w \in Workers |-> w = 2]
MCRequests == {[model |-> "classifier", precision |-> "int4", priority |-> "urgent"],
               [model |-> "classifier", precision |-> "int8", priority |-> "normal"],
               [model |-> "classifier", precision |-> "bf16", priority |-> "critical"]}
=============================================================================
