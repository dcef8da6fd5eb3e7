--------------------------- MODULE WorkflowRunner ---------------------------
(***************************************************************************)
(* One run of a sequential workflow, kept in a journal that several         *)
(* WorkflowRunner objects may open, each in its own process.  The journal   *)
(* row is saved before a step's callback is called and after it returned;   *)
(* the process may die, the task be cancelled or run out of time at every   *)
(* await, and the run is called again later.                                *)
(*                                                                          *)
(* The row says which steps have a result, not what the results are.        *)
(***************************************************************************)
EXTENDS Naturals

CONSTANTS Owners,      \* runner objects opened on the journal file
          Nobody,      \* the file lock is free
          StepCount,   \* len(steps)
          Idempotent,  \* steps declared idempotent
          Retryable,   \* steps declared retryable
          Retries,     \* max_retries
          AutoRetry,   \* automatic_retries
          VerifyEach,  \* verify_before_step
          FinishedAt,  \* result sets at which completion.when() holds
          BrokenAt     \* result sets at which completion.when() may raise

Steps == 1..StepCount

ASSUME RunnerAssumption ==
  /\ Nobody \notin Owners
  /\ StepCount \in Nat \ {0} /\ Retries \in Nat
  /\ Idempotent \subseteq Steps
  /\ Retryable \subseteq Idempotent
  /\ AutoRetry \in BOOLEAN /\ VerifyEach \in BOOLEAN
  /\ FinishedAt \subseteq SUBSET Steps
  /\ BrokenAt \subseteq SUBSET Steps
  /\ FinishedAt \cap BrokenAt = {}

VARIABLES journal,   \* the committed row: status, results, attempts, inflight
          state,     \* each runner's copy of the row, while it runs
          pc,        \* where each runner is
          lock,      \* the runner that holds the file lock
          leases,    \* each runner's checkpoint leases: step -> attempt, or 0
          receipts,  \* the journal's checkpoint rows: step -> attempt, or 0
          started    \* how often each step's callback was ever called

vars == <<journal, state, pc, lock, leases, receipts, started>>

-----------------------------------------------------------------------------
Statuses == {"absent", "created", "running", "failed", "cancelled", "deadline",
             "outcome_unknown", "retry_not_allowed", "verification_unavailable",
             "sources_invalid", "completed"}

VerifyPcs == {"verifyStart", "verifyStep", "verifyEnd", "verifyRead"}

\* Mutant of Awaiting: the source verifier is called outside the deadline.
AwaitingStep == {"step"}

Awaiting == VerifyPcs \cup {"step"}

Pcs == VerifyPcs \cup {"idle", "loop", "admit", "start", "step", "clear"}

NoSteps == [s \in Steps |-> 0]
Absent == [status |-> "absent", results |-> {}, attempts |-> NoSteps, inflight |-> 0]

\* The least step that has no result.
IsNext(row, s) == s \notin row.results /\ \A t \in 1..(s - 1) : t \in row.results

\* Some callback was called and its outcome is not recorded.
Uncertain(row) == \E s \in Steps : row.attempts[s] > 0 /\ s \notin row.results

Maximum(s) == IF s \in Retryable THEN 1 + Retries ELSE 1

Init ==
  /\ journal = Absent /\ lock = Nobody
  /\ state = [o \in Owners |-> Absent] /\ pc = [o \in Owners |-> "idle"]
  /\ leases = [o \in Owners |-> NoSteps]
  /\ receipts = NoSteps /\ started = NoSteps

-----------------------------------------------------------------------------
(* Control.                                                                 *)

Goto(o, label) == pc' = [pc EXCEPT ![o] = label]

Save(o, row) == journal' = row /\ state' = [state EXCEPT ![o] = row]

\* The finally of run and read_result: no lease, no copy, no lock.
Leave(o) ==
  /\ Goto(o, "idle")
  /\ state' = [state EXCEPT ![o] = Absent]
  /\ leases' = [leases EXCEPT ![o] = NoSteps]
  /\ lock' = Nobody

\* The row is saved a last time and the call raises.
End(o, status) ==
  /\ journal' = [state[o] EXCEPT !.status = status]
  /\ Leave(o)

-----------------------------------------------------------------------------
\* Mutant of Locked: a second runner does not notice the first.
LockedOut(o) == pc[o] = "idle"

\* flock(LOCK_EX | LOCK_NB): a busy journal refuses the call.
Locked(o) == pc[o] = "idle" /\ lock = Nobody

\* A row is created or read; an invalid one only loses its checkpoints.
Run(o) ==
  LET row == IF journal.status = "absent" THEN [Absent EXCEPT !.status = "created"]
             ELSE journal
  IN
  /\ Locked(o)
  /\ \/ /\ row.status # "sources_invalid"
        /\ lock' = o /\ Goto(o, "verifyStart") /\ Save(o, row)
        /\ UNCHANGED receipts
     \/ /\ row.status = "sources_invalid"
        /\ receipts' = NoSteps
        /\ UNCHANGED <<journal, state, pc, lock>>
  /\ UNCHANGED <<leases, started>>

\* read_result takes the row over only where no outcome is open.
ReadResult(o) ==
  /\ Locked(o)
  /\ journal.status \in {"completed", "verification_unavailable"}
  /\ journal.inflight = 0
  /\ \A s \in journal.results : 1..s \subseteq journal.results
  /\ lock' = o /\ Goto(o, "verifyRead")
  /\ state' = [state EXCEPT ![o] = journal]
  /\ UNCHANGED <<journal, leases, receipts, started>>

-----------------------------------------------------------------------------
(* The source verifier, before anything else and after everything.          *)

Invalid(o) ==
  /\ pc[o] \in VerifyPcs
  /\ Save(o, [state[o] EXCEPT !.status = "sources_invalid", !.results = {}])
  /\ leases' = [leases EXCEPT ![o] = NoSteps]
  /\ Goto(o, "clear")
  /\ UNCHANGED <<lock, receipts, started>>

Outage(o) ==
  /\ pc[o] \in VerifyPcs
  /\ End(o, "verification_unavailable")
  /\ UNCHANGED <<receipts, started>>

Verified(o) ==
  /\ \/ pc[o] = "verifyStart" /\ Goto(o, "loop")
     \/ pc[o] = "verifyStep" /\ Goto(o, "admit")
  /\ UNCHANGED <<journal, state, lock, leases, receipts, started>>

Completed(o) ==
  /\ pc[o] = "verifyEnd"
  /\ Save(o, [state[o] EXCEPT !.status = "completed", !.inflight = 0])
  /\ Goto(o, "clear")
  /\ UNCHANGED <<lock, leases, receipts, started>>

\* Mutant of Readable: an outage at a later step reads like one at the end.
ReadableAnyway(row) == row.results # {}

\* Partial results are the result only where the completion still holds.
Readable(row) == row.results = Steps \/ row.results \in FinishedAt

ReadVerified(o) ==
  /\ pc[o] = "verifyRead"
  /\ \/ /\ Readable(state[o])
        /\ Save(o, [state[o] EXCEPT !.status = "completed"])
        /\ Goto(o, "clear") /\ UNCHANGED <<lock, leases>>
     \/ ~Readable(state[o]) /\ Leave(o) /\ UNCHANGED journal
  /\ UNCHANGED <<receipts, started>>

\* A commit of its own, after the row's.
ClearCheckpoints(o) ==
  /\ pc[o] = "clear"
  /\ receipts' = NoSteps
  /\ Leave(o)
  /\ UNCHANGED <<journal, started>>

-----------------------------------------------------------------------------
(* The loop over the steps.                                                 *)

\* Nothing is left to run, or completion.when() holds; a later step that was tried
\* and has no result keeps the run open.
Settled(o) ==
  /\ pc[o] = "loop" /\ Readable(state[o])
  /\ IF Uncertain(state[o]) THEN End(o, "outcome_unknown")
     ELSE Goto(o, "verifyEnd") /\ UNCHANGED <<journal, state, lock, leases>>
  /\ UNCHANGED <<receipts, started>>

CompletionFails(o) ==
  /\ pc[o] = "loop" /\ state[o].results # Steps /\ state[o].results \in BrokenAt
  /\ End(o, "failed")
  /\ UNCHANGED <<receipts, started>>

Proceed(o) ==
  /\ pc[o] = "loop" /\ state[o].results # Steps
  /\ state[o].results \notin FinishedAt
  /\ Goto(o, IF VerifyEach THEN "verifyStep" ELSE "admit")
  /\ UNCHANGED <<journal, state, lock, leases, receipts, started>>

\* A step tried before is tried again only when it was declared safe to.
Refuse(o) ==
  /\ pc[o] = "admit"
  /\ \E s \in Steps \ Retryable :
       /\ IsNext(state[o], s) /\ state[o].attempts[s] > 0
       /\ End(o, IF s \in Idempotent THEN "retry_not_allowed" ELSE "outcome_unknown")
  /\ UNCHANGED <<receipts, started>>

\* retries_exhausted is raised and not saved.
Exhausted(o) ==
  /\ pc[o] = "admit"
  /\ \E s \in Retryable : IsNext(state[o], s) /\ state[o].attempts[s] >= Maximum(s)
  /\ Leave(o)
  /\ UNCHANGED <<journal, receipts, started>>

\* Mutant of Admissible: what earlier runs tried is not looked at.
AdmissibleAgain(row, s) == IsNext(row, s)

Admissible(row, s) ==
  /\ IsNext(row, s)
  /\ row.attempts[s] > 0 => s \in Retryable
  /\ row.attempts[s] < Maximum(s)

\* Mutant of Attempt: the attempt is counted only in memory.
AttemptUnsaved(o) ==
  /\ pc[o] = "admit"
  /\ \E s \in Steps :
       /\ Admissible(state[o], s)
       /\ state' = [state EXCEPT ![o] =
            [@ EXCEPT !.status = "running", !.inflight = s, !.attempts[s] = @ + 1]]
  /\ Goto(o, "start")
  /\ UNCHANGED <<journal, lock, leases, receipts, started>>

\* The attempt is on disk before the callback is called.
Attempt(o) ==
  /\ pc[o] = "admit"
  /\ \E s \in Steps :
       /\ Admissible(state[o], s)
       /\ Save(o, [state[o] EXCEPT !.status = "running", !.inflight = s,
                                   !.attempts[s] = @ + 1])
  /\ Goto(o, "start")
  /\ UNCHANGED <<lock, leases, receipts, started>>

StartStep(o) ==
  LET s == state[o].inflight IN
  /\ pc[o] = "start"
  /\ leases' = [leases EXCEPT ![o][s] = state[o].attempts[s]]
  /\ started' = [started EXCEPT ![s] = @ + 1]
  /\ Goto(o, "step")
  /\ UNCHANGED <<journal, state, lock, receipts>>

\* A callback, or what it left running, stores a checkpoint under its lease.
PutCheckpoint(o, s) ==
  /\ pc[o] # "idle" /\ leases[o][s] # 0
  /\ receipts' = [receipts EXCEPT ![s] = leases[o][s]]
  /\ UNCHANGED <<journal, state, pc, lock, leases, started>>

-----------------------------------------------------------------------------
(* How a step ends.                                                         *)

\* Mutant of Returned: the lease of the step that returned stays.
ReturnedLeased(o) == UNCHANGED leases

Returned(o) == leases' = [leases EXCEPT ![o][state[o].inflight] = 0]

\* Mutant of WithResult: the step that returned stays in flight.
WithResultOnly(row) == [row EXCEPT !.results = @ \cup {row.inflight}]

WithResult(row) ==
  [row EXCEPT !.status = "running", !.inflight = 0, !.results = @ \cup {row.inflight}]

StepReturns(o) ==
  /\ pc[o] = "step"
  /\ Save(o, WithResult(state[o]))
  /\ Returned(o)
  /\ Goto(o, "loop")
  /\ UNCHANGED <<lock, receipts, started>>

\* Only a retryable step is tried again at once.
StepRaises(o) ==
  LET s == state[o].inflight
      again == AutoRetry /\ s \in Retryable /\ state[o].attempts[s] < Maximum(s)
  IN
  /\ pc[o] = "step"
  /\ \/ /\ again
        /\ Save(o, [state[o] EXCEPT !.status = "failed"])
        /\ Returned(o) /\ Goto(o, "admit") /\ UNCHANGED lock
     \/ ~again /\ End(o, "failed")
  /\ UNCHANGED <<receipts, started>>

\* A result that is too large or no JSON is not tried again.
BadPayload(o) ==
  /\ pc[o] = "step" /\ End(o, "failed")
  /\ UNCHANGED <<receipts, started>>

-----------------------------------------------------------------------------
(* The environment.                                                         *)

\* Mutant of Stopped: the error's class is saved for the status.
StoppedNamed(row, status) == [row EXCEPT !.status = "TimeoutError"]

Stopped(row, status) == [row EXCEPT !.status = status]

\* CancelledError, or the deadline, at an await; read_result saves neither.
Interrupt(o, status) ==
  /\ pc[o] \in Awaiting
  /\ journal' = IF pc[o] = "verifyRead" THEN journal ELSE Stopped(state[o], status)
  /\ Leave(o)
  /\ UNCHANGED <<receipts, started>>

\* The process dies, or a write to the journal fails: nothing is saved.
Abandon(o) ==
  /\ pc[o] # "idle"
  /\ Leave(o)
  /\ UNCHANGED <<journal, receipts, started>>

-----------------------------------------------------------------------------
\* What a runner does between two awaits, and to leave.
Compute(o) ==
  \/ ClearCheckpoints(o)
  \/ Settled(o) \/ CompletionFails(o) \/ Proceed(o)
  \/ Refuse(o) \/ Exhausted(o) \/ Attempt(o) \/ StartStep(o)

OwnerStep(o) ==
  \/ Run(o) \/ ReadResult(o)
  \/ Invalid(o) \/ Outage(o) \/ Verified(o) \/ Completed(o) \/ ReadVerified(o)
  \/ Compute(o)
  \/ \E s \in Steps : PutCheckpoint(o, s)
  \/ StepReturns(o) \/ StepRaises(o) \/ BadPayload(o)
  \/ Interrupt(o, "cancelled") \/ Interrupt(o, "deadline")
  \/ Abandon(o)

Next == \E o \in Owners : OwnerStep(o)

Spec == Init /\ [][Next]_vars

\* A runner that need not wait computes; asyncio.wait_for fires the deadline.
Fairness ==
  \A o \in Owners : WF_vars(Compute(o)) /\ WF_vars(Interrupt(o, "deadline"))

FairSpec == Spec /\ Fairness

-----------------------------------------------------------------------------
(* Properties.                                                              *)

RowType == [status : Statuses, results : SUBSET Steps, attempts : [Steps -> Nat],
            inflight : 0..StepCount]

\* The journal holds a row of its schema, and every runner a copy of one.
TypeOK ==
  /\ journal \in RowType
  /\ state \in [Owners -> RowType]
  /\ pc \in [Owners -> Pcs]
  /\ lock \in Owners \cup {Nobody}
  /\ leases \in [Owners -> [Steps -> Nat]]
  /\ receipts \in [Steps -> Nat]
  /\ started \in [Steps -> Nat]

\* A step that is not retryable is called once and a retryable one at most
\* 1 + max_retries times, whatever dies, is cancelled or is run again, by
\* whichever of the runners (the attempt is saved before the call).
CallsAreBounded == \A s \in Steps : started[s] <= Maximum(s)

\* `inflight` names the one step whose outcome is open, also after a crash:
\* that is what read_result and a user deciding about a retry go by.
InflightIsUncertain ==
  journal.status # "sources_invalid" =>
    \A s \in Steps :
      journal.inflight = s <=> journal.attempts[s] > 0 /\ s \notin journal.results

\* A run that says "completed" has every result, or those the completion policy
\* asks for, and no call whose outcome is open.
CompletedIsWhole ==
  journal.status = "completed" =>
    /\ journal.results = Steps \/ journal.results \in FinishedAt
    /\ ~Uncertain(journal)

\* Checkpoints are written only by the attempt that is running now, never by a
\* callback that returned, failed or belongs to an earlier attempt or process.
CheckpointsAreCurrent ==
  [][\A s \in Steps : receipts'[s] \notin {0, receipts[s]} =>
       /\ journal.status = "running" /\ journal.inflight = s
       /\ receipts'[s] = journal.attempts[s]]_vars

\* No run holds the journal for ever: callbacks may hang, but the deadline covers
\* every await, the verifier's included, and retries are bounded.
RunsEnd == \A o \in Owners : pc[o] # "idle" ~> pc[o] = "idle"

-----------------------------------------------------------------------------
(* The promise to the application: see WorkflowContract.                    *)

Contract == INSTANCE WorkflowContract
  WITH Given <- {},
       Before <- [s \in Steps |-> 1..(s - 1)],
       Limit <- [s \in Steps |-> Maximum(s)],
       calls <- started,
       kept <- journal.results,
       void <- journal.status = "sources_invalid"

\* Calls and results, seen through the journal, keep the contract: a step is
\* called in order and within its bound, a saved result is reused and never
\* computed again, and "confirmed missing or changed evidence invalidates saved
\* outputs" for good.
KeepsContract == Contract!Spec
=============================================================================
