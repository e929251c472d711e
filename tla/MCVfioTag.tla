----------------------------- MODULE MCVfioTag -----------------------------
(* Small instances of VfioTag for TLC. *)
EXTENDS VfioTag, TLC

CONSTANTS r1, r2, r3, gpu, switch

ThreeRuns == {r1, r2, r3}
TwoIds == {gpu, switch}
TwoGpus == gpu :> 2 @@ switch :> 1
============================================================================
