---------------------------- MODULE SourceLedger ----------------------------
(***************************************************************************)
(* What the memory engine promises about the life of a source, whatever    *)
(* the stores underneath do: a source is stored, may be withdrawn while    *)
(* its write is being undone, and once its removal has been recorded it    *)
(* only moves towards "forgotten".  SourceLifecycle, with its separate     *)
(* document, vector, blob and event stores, implements this module.        *)
(***************************************************************************)
EXTENDS Naturals

CONSTANT Ids          \* episode ids

VARIABLES status,     \* episode id -> what a reader of the stores can conclude
          erased      \* the space was deleted for good

ledgerVars == <<status, erased>>

Stages == {"none", "partial", "present", "retiring", "forgotten"}

\* The stages a single source may move to, one call at a time.
Follows(from) ==
  CASE from = "none"      -> {"partial"}
    [] from = "partial"   -> {"present", "none", "retiring"}
    [] from = "present"   -> {"none", "retiring"}
    [] from = "retiring"  -> {"forgotten"}
    [] from = "forgotten" -> {}

Init ==
  /\ status = [i \in Ids |-> "none"]
  /\ erased = FALSE

\* One source takes one step of its life; a deleted space accepts none.
Move(i) ==
  /\ ~erased
  /\ \E to \in Follows(status[i]) : status' = [status EXCEPT ![i] = to]
  /\ UNCHANGED erased

\* The whole space goes at once, in one transaction of the document store.
Erase ==
  /\ ~erased
  /\ erased' = TRUE
  /\ status' = [i \in Ids |-> "none"]

Next == Erase \/ \E i \in Ids : Move(i)

Spec == Init /\ [][Next]_ledgerVars
=============================================================================
