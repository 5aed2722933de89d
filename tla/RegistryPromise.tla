-------------------------- MODULE RegistryPromise ---------------------------
(***************************************************************************)
(* What the model registry promises: one version serves at a time, and     *)
(* each switch puts exactly the version it logs in its place, in one step. *)
(* Registering the serving version again takes it out of service.          *)
(***************************************************************************)
EXTENDS Sequences

CONSTANTS Versions, NoVersion

VARIABLES serving, log

Init ==
    /\ serving = NoVersion
    /\ log = <<>>

Switch(v, action) ==
    /\ serving' = v
    /\ log' = Append(log, [version |-> v, action |-> action])

Withdraw ==
    /\ serving # NoVersion
    /\ serving' = NoVersion
    /\ UNCHANGED log

Next ==
    \/ \E v \in Versions, action \in {"deploy", "rollback"} : Switch(v, action)
    \/ Withdraw

Spec == Init /\ [][Next]_<<serving, log>>
=============================================================================
