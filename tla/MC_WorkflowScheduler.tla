------------------------ MODULE MC_WorkflowScheduler ------------------------
(* WorkflowScheduler on small graphs, their steps in declaration order. *)
EXTENDS WorkflowScheduler

\* A model step declared before the input it waits for, two model steps that
\* compete with it for two places, and an input that is due late.
Review == <<{2}, {}, {}, {}, {1, 3}>>

\* Three model steps side by side and an input that is due after two of them.
Siblings == <<{}, {}, {}, {1, 3}>>
=============================================================================
