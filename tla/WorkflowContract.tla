-------------------------- MODULE WorkflowContract --------------------------
(***************************************************************************)
(* What a workflow run promises to the application whose steps it calls,    *)
(* whatever dies, is cancelled or is run again: a step is called a bounded  *)
(* number of times, only after the steps it builds on have results, and     *)
(* never once its own result is kept; results are kept until the evidence   *)
(* behind the run is found invalid, which is final.  WorkflowRunner, the    *)
(* sequential runner, and WorkflowScheduler, the one that runs independent  *)
(* steps side by side, implement this module.                               *)
(***************************************************************************)
EXTENDS Naturals

CONSTANTS Steps,
          Given,      \* steps whose results are given and not computed
          Before,     \* the steps each step builds on
          Limit       \* how often each step may be called

VARIABLES calls,      \* how often each step was called
          kept,       \* the steps whose results are kept
          void        \* the run's sources were found invalid

contractVars == <<calls, kept, void>>

Init ==
  /\ calls = [s \in Steps |-> 0]
  /\ kept = {}
  /\ void = FALSE

Call(s) ==
  /\ ~void
  /\ s \notin kept /\ Before[s] \subseteq kept
  /\ calls[s] < Limit[s]
  /\ calls' = [calls EXCEPT ![s] = @ + 1]
  /\ UNCHANGED <<kept, void>>

Keep(s) ==
  /\ ~void
  /\ s \notin kept /\ Before[s] \subseteq kept
  /\ s \in Given \/ calls[s] > 0
  /\ kept' = kept \cup {s}
  /\ UNCHANGED <<calls, void>>

Invalidate ==
  /\ ~void
  /\ kept' = {} /\ void' = TRUE
  /\ UNCHANGED calls

Next == Invalidate \/ \E s \in Steps : Call(s) \/ Keep(s)

Spec == Init /\ [][Next]_contractVars
=============================================================================
