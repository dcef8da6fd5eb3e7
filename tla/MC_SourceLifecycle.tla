------------------------- MODULE MC_SourceLifecycle -------------------------
(* SourceLifecycle on small instances.  The keys are model values,
   compared only with one another. *)
EXTENDS SourceLifecycle, TLC

Symmetry == Permutations(Keys)
=============================================================================
