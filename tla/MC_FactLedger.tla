--------------------------- MODULE MC_FactLedger ----------------------------
(* FactLedger on small instances.  The values of the slot are model values,
   compared only with one another. *)
EXTENDS FactLedger, TLC

Symmetry == Permutations(Objects)
=============================================================================
