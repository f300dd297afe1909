------------------------------ MODULE TfmBoot ------------------------------
(***************************************************************************)
(* The TF-M port from reset to scheduling, as its SPM sees it: register by *)
(* register and device by device as in TfmIsolation, and yet no more than  *)
(* TfmPromise.                                                             *)
(***************************************************************************)
EXTENDS TfmIsolation

(* The processor goes on to its next instruction. *)
BootStep == (TargetStep /\ UNCHANGED isoVars) \/ IsoStep
BootSpec == IsoSpec /\ WF_tfmVars(BootStep)

Phase ==
    IF pc = "FAILED" THEN "stopped" ELSE IF pc = "RUN" THEN "up"
    ELSE IF pc \in {"BIND", "BIND_FAILED"} THEN "binding" ELSE "down"

(* The regions that the partition being bound has been given so far. *)
GivenSoFar ==
    IF pc \in {"BIND", "BIND_FAILED"} /\ part \in Partition /\ ~Privileged(part)
    THEN Cardinality({k \in 1..(idx - 1) : Assets(part)[k].named}) ELSE 0

Free == IF Phase \in {"binding", "up"} THEN build.slots - n_configured_regions + GivenSoFar ELSE 0

Promise == INSTANCE TfmPromise WITH
    phase <- Phase, bound <- DOMAIN boundary, free <- Free, unpriv <- nPRIV

-----------------------------------------------------------------------------
(* Properties *)

(* tfm_hal_bind_boundary() gives a partition every device it names or none  *)
(* that counts, and refuses it only for a device that is not listed, not on *)
(* granules, or one more than the MPU has regions for, those spent on       *)
(* partitions refused before included; a boot that nothing is wrong with    *)
(* reaches scheduling, every other one stops or does without; and privilege *)
(* is right although tfm_hal_boundary_need_switch() leaves switches out.    *)
KeepsPromise == Promise!PromiseSpec
=============================================================================
