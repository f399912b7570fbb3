---------------------------- MODULE MCContinuity ----------------------------
(* Two operations, the first of which may be repeated under its key and the *)
(* second asked about; two runs of run_operation.                           *)
EXTENDS Continuity, TLC

MCCapability == 1 :> "idempotent" @@ 2 :> "query"
MCRetention == 1 :> 5 @@ 2 :> 0

Symmetry == Permutations(Attempts)
=============================================================================
