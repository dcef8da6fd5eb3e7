------------------------- MODULE MC_WorkflowRunner --------------------------
(* WorkflowRunner on small instances: a step of each kind and one that
   the completion policy makes unnecessary. *)
EXTENDS WorkflowRunner

\* completion.when() holds once the first three steps have results.
FirstThree == {{1, 2, 3}}

\* completion.when() raises on the first result.
FirstOnly == {{1}}
=============================================================================
