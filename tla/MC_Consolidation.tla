-------------------------- MODULE MC_Consolidation ---------------------------
(* Consolidation with one request, whose records become two episodes.        *)
EXTENDS Consolidation, TLC

CONSTANTS worker, byHand, r1

MCBatch == r1 :> {1, 2}
=============================================================================
