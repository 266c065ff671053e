-------------------------- MODULE MCSlaThresholds --------------------------
(* A timer due at 2 with thresholds at 1 and 2. *)
EXTENDS SlaThresholds, TLC

CONSTANTS tier1, tier2

Targets == (1 :> tier1) @@ (2 :> tier2)
=============================================================================
