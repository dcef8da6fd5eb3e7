------------------------ MODULE MC_DocumentImports --------------------------
(* DocumentImports with interchangeable processes, imports and callers.      *)
EXTENDS DocumentImports, TLC

Symmetry ==
  Permutations(Services) \cup Permutations(Imports) \cup Permutations(Callers)
=============================================================================
