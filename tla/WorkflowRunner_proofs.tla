------------------------ MODULE WorkflowRunner_proofs ------------------------
(***************************************************************************)
(* For every number of steps, runners and retries, and every completion     *)
(* policy: a step is called within its bound, a completed run is whole, and *)
(* the runner keeps WorkflowContract.                                       *)
(***************************************************************************)
EXTENDS WorkflowRunner, TLAPS

-----------------------------------------------------------------------------
(* The inductive invariant.  The committed row is sound; a runner that runs  *)
(* holds the lock and an exact copy of the row; a lease is the current one.  *)

\* What holds of the row whose sources were not found invalid.
Ordered(row) ==
  \A s \in Steps :
    /\ row.inflight = s <=> row.attempts[s] > 0 /\ s \notin row.results
    /\ row.attempts[s] > 0 => \A t \in 1..(s - 1) : t \in row.results

Whole(row) ==
  /\ row.results = Steps \/ row.results \in FinishedAt
  /\ ~Uncertain(row)

Sound ==
  /\ journal.status = "absent" => journal = Absent
  /\ \A s \in Steps : started[s] <= journal.attempts[s]
                      /\ journal.attempts[s] <= Maximum(s)
  /\ journal.status # "sources_invalid" => Ordered(journal)
  /\ journal.status = "completed" => Whole(journal)

Runs(o) ==
  pc[o] # "idle" =>
    /\ lock = o /\ state[o] = journal
    /\ pc[o] # "clear" => journal.status \notin {"absent", "sources_invalid"}
    /\ pc[o] \in {"start", "step"} =>
         /\ journal.status = "running"
         /\ journal.inflight \in Steps /\ IsNext(journal, journal.inflight)
    /\ pc[o] = "start" => started[journal.inflight] < journal.attempts[journal.inflight]
    /\ pc[o] = "step" => started[journal.inflight] > 0
    /\ pc[o] = "verifyEnd" => Whole(journal)
    /\ pc[o] = "verifyRead" => journal.inflight = 0

Leased(o) ==
  \A s \in Steps : leases[o][s] # 0 =>
    pc[o] = "step" /\ s = journal.inflight /\ leases[o][s] = journal.attempts[s]

Inv == TypeOK /\ Sound /\ \A o \in Owners : Runs(o) /\ Leased(o)

-----------------------------------------------------------------------------
(* Lemmas.                                                                  *)

\* At most one step is next.
LEMMA NextIsUnique ==
  ASSUME NEW row, NEW s \in Steps, NEW t \in Steps, IsNext(row, s), IsNext(row, t)
  PROVE  s = t
  BY RunnerAssumption, SMT DEF IsNext, Steps

\* The bound of a step is a number.
LEMMA MaximumType ==
  ASSUME NEW s \in Steps
  PROVE  Maximum(s) \in Nat /\ Maximum(s) >= 1
  BY RunnerAssumption DEF Maximum

\* While one runner runs, or takes the lock, the others are idle and unchanged.
LEMMA OthersIdle ==
  ASSUME Inv, NEW o \in Owners, pc[o] # "idle" \/ lock = Nobody,
         NEW label, pc' = [pc EXCEPT ![o] = label],
         \A p \in Owners \ {o} : leases'[p] = leases[p]
  PROVE  \A p \in Owners \ {o} : Runs(p)' /\ Leased(p)'
  <1> SUFFICES ASSUME NEW p \in Owners \ {o} PROVE Runs(p)' /\ Leased(p)'
    OBVIOUS
  <1>1. pc[p] = "idle"
    BY RunnerAssumption DEF Inv, Runs
  <1>2. pc'[p] = "idle"
    BY <1>1 DEF Inv, TypeOK
  <1>3. leases'[p] = leases[p]
    OBVIOUS
  <1>4. \A s \in Steps : leases[p][s] = 0
    BY <1>1 DEF Inv, Leased
  <1> QED BY <1>2, <1>3, <1>4 DEF Runs, Leased

\* A runner that leaves over a sound row keeps the invariant.
LEMMA LeaveKeeps ==
  ASSUME Inv, NEW o \in Owners, pc[o] # "idle", Leave(o),
         journal' \in RowType, Sound',
         UNCHANGED started, receipts' \in [Steps -> Nat]
  PROVE  Inv'
  <1>1. TypeOK'
    <2>1. NoSteps \in [Steps -> Nat] /\ Absent \in RowType
      BY RunnerAssumption DEF NoSteps, Absent, RowType, Statuses
    <2> QED BY <2>1 DEF Inv, TypeOK, Leave, Goto, Pcs
  <1>2. pc' = [pc EXCEPT ![o] = "idle"] /\ leases' = [leases EXCEPT ![o] = NoSteps]
    BY DEF Leave, Goto
  <1>3. \A p \in Owners \ {o} : leases'[p] = leases[p]
    BY <1>2 DEF Inv, TypeOK
  <1>4. \A p \in Owners \ {o} : Runs(p)' /\ Leased(p)'
    BY <1>2, <1>3, OthersIdle
  <1>5. Runs(o)' /\ Leased(o)'
    <2>1. pc'[o] = "idle" /\ leases'[o] = NoSteps
      BY <1>2 DEF Inv, TypeOK
    <2> QED BY <2>1 DEF Runs, Leased, NoSteps
  <1> QED BY <1>1, <1>4, <1>5 DEF Inv

\* A row that ends a run on an error is as sound as the one it replaces.
LEMMA EndKeeps ==
  ASSUME Inv, NEW o \in Owners, pc[o] \notin {"idle", "clear"},
         NEW status \in Statuses \ {"absent", "completed", "sources_invalid"},
         End(o, status), UNCHANGED <<receipts, started>>
  PROVE  Inv'
  <1>1. state[o] = journal /\ journal.status # "sources_invalid"
    BY DEF Inv, Runs
  <1>2. journal' = [journal EXCEPT !.status = status] /\ Leave(o)
    BY <1>1 DEF End
  <1>3. journal' \in RowType
    BY <1>2 DEF Inv, TypeOK, RowType
  <1>4. Sound'
    BY <1>1, <1>2 DEF Inv, TypeOK, RowType, Sound, Ordered
  <1> QED BY <1>2, <1>3, <1>4, LeaveKeeps DEF Inv, TypeOK

\* A runner that moves on without touching the row.
LEMMA GotoKeeps ==
  ASSUME Inv, NEW o \in Owners, pc[o] \notin {"idle", "step", "clear"},
         NEW label \in {"loop", "admit", "verifyStep", "verifyEnd"}, Goto(o, label),
         label = "verifyEnd" => Whole(journal),
         UNCHANGED <<journal, state, lock, leases, receipts, started>>
  PROVE  Inv'
  <1>1. TypeOK' /\ Sound'
    BY DEF Inv, TypeOK, Goto, Pcs, VerifyPcs, Sound, Ordered, Whole, Uncertain
  <1>2. \A p \in Owners \ {o} : Runs(p)' /\ Leased(p)'
    BY OthersIdle DEF Goto
  <1>3. pc'[o] = label
    BY DEF Inv, TypeOK, Goto
  <1>4. Runs(o)'
    BY <1>3 DEF Inv, Runs, Whole, Uncertain
  <1>5. Leased(o)'
    BY DEF Inv, Leased
  <1> QED BY <1>1, <1>2, <1>4, <1>5 DEF Inv

-----------------------------------------------------------------------------
(* The actions that change the row or a lease, one lemma each.               *)

LEMMA InitHolds == Init => Inv
  <1> SUFFICES ASSUME Init PROVE Inv
    OBVIOUS
  <1>1. NoSteps \in [Steps -> Nat] /\ Absent \in RowType
    BY RunnerAssumption DEF NoSteps, Absent, RowType, Statuses
  <1>2. TypeOK
    BY <1>1 DEF Init, TypeOK, Pcs
  <1>3. Sound
    BY MaximumType DEF Init, Sound, Ordered, Absent, NoSteps, Steps
  <1>4. \A o \in Owners : Runs(o) /\ Leased(o)
    BY DEF Init, Runs, Leased, NoSteps
  <1> QED BY <1>2, <1>3, <1>4 DEF Inv

LEMMA RunKeeps ==
  ASSUME Inv, NEW o \in Owners, Run(o)
  PROVE  Inv'
  <1> DEFINE row == IF journal.status = "absent" THEN [Absent EXCEPT !.status = "created"]
                    ELSE journal
  <1>1. CASE row.status = "sources_invalid"
    <2>1. UNCHANGED <<journal, state, pc, lock, leases, started>> /\ receipts' = NoSteps
      BY <1>1 DEF Run
    <2>2. TypeOK'
      BY <2>1 DEF Inv, TypeOK, NoSteps
    <2> QED BY <2>1, <2>2 DEF Inv, Sound, Ordered, Whole, Uncertain, Runs, IsNext, Leased
  <1>2. CASE row.status # "sources_invalid"
    <2>1. /\ lock' = o /\ pc' = [pc EXCEPT ![o] = "verifyStart"]
          /\ journal' = row /\ state' = [state EXCEPT ![o] = row]
          /\ UNCHANGED <<receipts, leases, started>>
          /\ pc[o] = "idle" /\ lock = Nobody
      BY <1>2 DEF Run, Goto, Save, Locked
    <2>2. row \in RowType
      <3>1. [Absent EXCEPT !.status = "created"] \in RowType
        BY RunnerAssumption DEF RowType, Absent, NoSteps, Statuses
      <3> QED BY <3>1 DEF Inv, TypeOK
    <2>3. TypeOK'
      BY <2>1, <2>2 DEF Inv, TypeOK, Pcs, VerifyPcs
    <2>4. Sound'
      <3>1. CASE journal.status = "absent"
        <4>1. journal = Absent /\ journal' = [Absent EXCEPT !.status = "created"]
          BY <2>1, <3>1 DEF Inv, Sound
        <4> QED BY <2>1, <4>1 DEF Inv, Sound, Ordered, Absent, NoSteps
      <3>2. CASE journal.status # "absent"
        BY <2>1, <3>2 DEF Inv, Sound, Ordered, Whole, Uncertain
      <3> QED BY <3>1, <3>2
    <2>5. \A p \in Owners \ {o} : Runs(p)' /\ Leased(p)'
      BY <2>1, OthersIdle
    <2>6. row.status # "absent"
      BY DEF Absent
    <2>7. pc'[o] = "verifyStart" /\ state'[o] = journal'
      BY <2>1 DEF Inv, TypeOK
    <2>8. Runs(o)'
      BY <1>2, <2>1, <2>6, <2>7 DEF Runs
    <2>9. Leased(o)'
      BY <2>1 DEF Inv, Leased
    <2> QED BY <2>3, <2>4, <2>5, <2>8, <2>9 DEF Inv
  <1> QED BY <1>1, <1>2

LEMMA ReadResultKeeps ==
  ASSUME Inv, NEW o \in Owners, ReadResult(o)
  PROVE  Inv'
  <1>1. /\ lock' = o /\ pc' = [pc EXCEPT ![o] = "verifyRead"]
        /\ state' = [state EXCEPT ![o] = journal]
        /\ UNCHANGED <<journal, receipts, leases, started>>
        /\ pc[o] = "idle" /\ lock = Nobody
    BY DEF ReadResult, Goto, Locked
  <1>2. TypeOK' /\ Sound'
    BY <1>1 DEF Inv, TypeOK, Pcs, VerifyPcs, Sound, Ordered, Whole, Uncertain
  <1>3. \A p \in Owners \ {o} : Runs(p)' /\ Leased(p)'
    BY <1>1, OthersIdle
  <1>4. pc'[o] = "verifyRead" /\ state'[o] = journal'
    BY <1>1 DEF Inv, TypeOK
  <1>5. Runs(o)' /\ Leased(o)'
    BY <1>1, <1>4 DEF Inv, ReadResult, Runs, Leased
  <1> QED BY <1>2, <1>3, <1>5 DEF Inv

\* A row is saved and its runner goes on to clear the checkpoints.
LEMMA LastSaveKeeps ==
  ASSUME Inv, NEW o \in Owners, pc[o] \in VerifyPcs, NEW row \in RowType, Save(o, row),
         Goto(o, "clear"), UNCHANGED <<lock, receipts, started>>,
         leases' \in {leases, [leases EXCEPT ![o] = NoSteps]}, Sound'
  PROVE  Inv'
  <1>1. TypeOK'
    BY DEF Inv, TypeOK, Save, Goto, Pcs, NoSteps
  <1>2. \A p \in Owners \ {o} : Runs(p)' /\ Leased(p)'
    <2>1. pc[o] # "idle" /\ \A p \in Owners \ {o} : leases'[p] = leases[p]
      BY DEF VerifyPcs, Inv, TypeOK
    <2> QED BY <2>1, OthersIdle DEF Goto
  <1>3. pc'[o] = "clear" /\ state'[o] = journal' /\ lock' = o
    BY DEF Inv, TypeOK, Save, Goto, Runs, VerifyPcs
  <1>4. \A s \in Steps : leases'[o][s] = 0
    BY DEF Inv, Leased, TypeOK, VerifyPcs, NoSteps
  <1>5. Runs(o)' /\ Leased(o)'
    BY <1>3, <1>4 DEF Runs, Leased
  <1> QED BY <1>1, <1>2, <1>5 DEF Inv

LEMMA InvalidKeeps ==
  ASSUME Inv, NEW o \in Owners, Invalid(o)
  PROVE  Inv'
  <1> DEFINE row == [journal EXCEPT !.status = "sources_invalid", !.results = {}]
  <1>1. state[o] = journal
    BY DEF Invalid, VerifyPcs, Inv, Runs
  <1>2. row \in RowType /\ Save(o, row)
    BY <1>1 DEF Invalid, Inv, TypeOK, RowType, Statuses
  <1>3. Sound'
    BY <1>2 DEF Invalid, Save, Inv, Sound, TypeOK, RowType
  <1> QED BY <1>2, <1>3, LastSaveKeeps DEF Invalid

LEMMA CompletedKeeps ==
  ASSUME Inv, NEW o \in Owners, Completed(o)
  PROVE  Inv'
  <1> DEFINE row == [journal EXCEPT !.status = "completed", !.inflight = 0]
  <1>1. state[o] = journal /\ Whole(journal) /\ journal.status # "sources_invalid"
    BY DEF Completed, VerifyPcs, Inv, Runs
  <1>2. row \in RowType /\ Save(o, row)
    <2>1. 0 \in 0..StepCount /\ "completed" \in Statuses
      BY RunnerAssumption DEF Statuses
    <2>2. row \in RowType
      BY <2>1 DEF Inv, TypeOK, RowType
    <2> QED BY <1>1, <2>2 DEF Completed
  <1>3. \A s \in Steps : ~(journal.attempts[s] > 0 /\ s \notin journal.results) /\ s # 0
    BY <1>1 DEF Whole, Uncertain, Steps
  <1>4. Sound'
    BY <1>1, <1>2, <1>3 DEF Completed, Save, Inv, Sound, Ordered, Whole, Uncertain, TypeOK, RowType
  <1> QED BY <1>2, <1>4, LastSaveKeeps DEF Completed, VerifyPcs

LEMMA ReadVerifiedKeeps ==
  ASSUME Inv, NEW o \in Owners, ReadVerified(o)
  PROVE  Inv'
  <1> DEFINE row == [journal EXCEPT !.status = "completed"]
  <1>1. state[o] = journal /\ journal.status # "sources_invalid" /\ journal.inflight = 0
    BY DEF ReadVerified, Inv, Runs
  <1>2. CASE Readable(state[o])
    <2>1. row \in RowType /\ Save(o, row)
      BY <1>1, <1>2 DEF ReadVerified, Inv, TypeOK, RowType, Statuses
    <2>2. ~Uncertain(journal)
      BY <1>1 DEF Inv, Sound, Ordered, Uncertain, Steps
    <2>3. Sound'
      BY <1>1, <1>2, <2>1, <2>2
      DEF Save, Inv, Sound, Ordered, Whole, Uncertain, TypeOK, RowType, Readable, ReadVerified
    <2> QED BY <1>2, <2>1, <2>3, LastSaveKeeps DEF ReadVerified, VerifyPcs
  <1>3. CASE ~Readable(state[o])
    <2>1. Leave(o) /\ UNCHANGED <<journal, receipts, started>>
      BY <1>3 DEF ReadVerified
    <2>2. Sound'
      BY <2>1 DEF Inv, Sound, Ordered, Whole, Uncertain
    <2> QED BY <2>1, <2>2, LeaveKeeps DEF ReadVerified, Inv, TypeOK
  <1> QED BY <1>2, <1>3

\* Leaving without a word: the journal is as it was.
LEMMA QuietLeaveKeeps ==
  ASSUME Inv, NEW o \in Owners, pc[o] # "idle", Leave(o),
         UNCHANGED <<journal, started>>, receipts' \in {receipts, NoSteps}
  PROVE  Inv'
  <1>1. Sound'
    BY DEF Inv, Sound, Ordered, Whole, Uncertain
  <1>2. receipts' \in [Steps -> Nat] /\ journal' \in RowType
    BY DEF Inv, TypeOK, NoSteps
  <1> QED BY <1>1, <1>2, LeaveKeeps

LEMMA AttemptKeeps ==
  ASSUME Inv, NEW o \in Owners, Attempt(o)
  PROVE  Inv'
  <1>1. state[o] = journal /\ journal.status # "sources_invalid" /\ lock = o
    BY DEF Attempt, Inv, Runs
  <1>2. PICK s \in Steps :
          /\ Admissible(journal, s)
          /\ Save(o, [journal EXCEPT !.status = "running", !.inflight = s,
                                     !.attempts[s] = @ + 1])
    BY <1>1 DEF Attempt
  <1> DEFINE row == [journal EXCEPT !.status = "running", !.inflight = s,
                                    !.attempts[s] = @ + 1]
  <1>3. journal.attempts \in [Steps -> Nat] /\ row \in RowType
    <2>1. journal \in RowType /\ journal.attempts \in [Steps -> Nat]
      BY DEF Inv, TypeOK, RowType
    <2>2. [journal.attempts EXCEPT ![s] = @ + 1] \in [Steps -> Nat]
      BY <2>1
    <2>3. s \in 0..StepCount /\ "running" \in Statuses
      BY RunnerAssumption DEF Steps, Statuses
    <2> QED BY <2>1, <2>2, <2>3 DEF RowType
  <1>4. /\ row.status = "running" /\ row.inflight = s /\ row.results = journal.results
        /\ row.attempts = [journal.attempts EXCEPT ![s] = @ + 1]
    BY DEF Inv, TypeOK, RowType
  <1>5. TypeOK'
    BY <1>2, <1>3 DEF Attempt, Inv, TypeOK, Save, Goto, Pcs
  <1>6. IsNext(journal, s) /\ journal.attempts[s] < Maximum(s)
    BY <1>2 DEF Admissible
  <1>7. journal' = row /\ started' = started
    BY <1>2 DEF Save, Attempt
  <1>8. Ordered(row)
    <2>1. ASSUME NEW t \in Steps, t # s, journal.attempts[t] > 0, t \notin journal.results
          PROVE  FALSE
      <3>1. IsNext(journal, t)
        BY <1>1, <2>1 DEF Inv, Sound, Ordered, IsNext
      <3> QED BY <1>6, <2>1, <3>1, NextIsUnique
    <2>2. Ordered(journal)
      BY <1>1 DEF Inv, Sound
    <2> QED BY <1>3, <1>4, <1>6, <2>1, <2>2 DEF Ordered, IsNext
  <1>9. Sound'
    <2>1. \A t \in Steps : started[t] <= journal.attempts[t]
                           /\ journal.attempts[t] <= Maximum(t)
      BY DEF Inv, Sound
    <2>2. \A t \in Steps : started[t] <= row.attempts[t] /\ row.attempts[t] <= Maximum(t)
      BY <1>3, <1>4, <1>6, <2>1, MaximumType DEF Inv, TypeOK
    <2> QED BY <1>4, <1>7, <1>8, <2>2 DEF Sound
  <1>10. \A p \in Owners \ {o} : Runs(p)' /\ Leased(p)'
    BY OthersIdle DEF Attempt, Goto
  <1>11. pc'[o] = "start" /\ state'[o] = journal' /\ lock' = o
    BY <1>1, <1>2 DEF Inv, TypeOK, Save, Goto, Attempt
  <1>12. IsNext(row, s)
    BY <1>4, <1>6 DEF IsNext
  <1>13. started[s] < row.attempts[s]
    BY <1>3, <1>4 DEF Inv, Sound, TypeOK
  <1>14. Runs(o)'
    BY <1>4, <1>7, <1>11, <1>12, <1>13 DEF Runs
  <1>15. Leased(o)'
    BY DEF Inv, Leased, Attempt
  <1> QED BY <1>5, <1>9, <1>10, <1>14, <1>15 DEF Inv

LEMMA StartStepKeeps ==
  ASSUME Inv, NEW o \in Owners, StartStep(o)
  PROVE  Inv'
  <1> DEFINE s == journal.inflight
  <1>1. /\ state[o] = journal /\ lock = o /\ s \in Steps /\ IsNext(journal, s)
        /\ journal.status = "running" /\ started[s] < journal.attempts[s]
    BY DEF StartStep, Inv, Runs
  <1>2. /\ leases' = [leases EXCEPT ![o][s] = journal.attempts[s]]
        /\ started' = [started EXCEPT ![s] = @ + 1]
        /\ UNCHANGED <<journal, state, lock, receipts>>
    BY <1>1 DEF StartStep
  <1>3. journal.attempts \in [Steps -> Nat] /\ started \in [Steps -> Nat]
        /\ leases \in [Owners -> [Steps -> Nat]]
    BY DEF Inv, TypeOK, RowType
  <1>4. started' \in [Steps -> Nat] /\ leases' \in [Owners -> [Steps -> Nat]]
    BY <1>1, <1>2, <1>3
  <1>5. TypeOK'
    BY <1>2, <1>4 DEF Inv, TypeOK, StartStep, Goto, Pcs
  <1>6. \A t \in Steps : started'[t] <= journal.attempts[t]
    BY <1>1, <1>2, <1>3 DEF Inv, Sound
  <1>7. Sound'
    BY <1>2, <1>6 DEF Inv, Sound, Ordered, Whole, Uncertain
  <1>8. \A p \in Owners \ {o} : leases'[p] = leases[p]
    BY <1>2, <1>3
  <1>9. \A p \in Owners \ {o} : Runs(p)' /\ Leased(p)'
    BY <1>8, OthersIdle DEF StartStep, Goto
  <1>10. pc'[o] = "step" /\ started'[s] > 0
    BY <1>1, <1>2, <1>3 DEF Inv, TypeOK, StartStep, Goto
  <1>11. Runs(o)'
    BY <1>1, <1>2, <1>10 DEF Runs, IsNext
  <1>12. \A t \in Steps : leases'[o][t] # 0 => t = s /\ leases'[o][t] = journal.attempts[t]
    BY <1>1, <1>2, <1>3 DEF Inv, Leased, StartStep
  <1>13. Leased(o)'
    BY <1>2, <1>10, <1>12 DEF Leased
  <1> QED BY <1>5, <1>7, <1>9, <1>11, <1>13 DEF Inv

LEMMA PutCheckpointKeeps ==
  ASSUME Inv, NEW o \in Owners, NEW s \in Steps, PutCheckpoint(o, s)
  PROVE  Inv'
  <1>1. receipts' \in [Steps -> Nat]
    <2>1. leases[o][s] \in Nat /\ receipts \in [Steps -> Nat]
      BY DEF Inv, TypeOK
    <2> QED BY <2>1 DEF PutCheckpoint
  <1>2. UNCHANGED <<journal, state, pc, lock, leases, started>>
    BY DEF PutCheckpoint
  <1>3. TypeOK'
    BY <1>1, <1>2 DEF Inv, TypeOK
  <1>4. Sound'
    BY <1>2 DEF Inv, Sound, Ordered, Whole, Uncertain
  <1>5. \A p \in Owners : Runs(p)' /\ Leased(p)'
    BY <1>2 DEF Inv, Runs, Whole, Uncertain, IsNext, Leased
  <1> QED BY <1>3, <1>4, <1>5 DEF Inv

\* When a callback ends its lease goes with it.
LEMMA ReturnedRevokes ==
  ASSUME Inv, NEW o \in Owners, pc[o] = "step", Returned(o)
  PROVE  /\ leases' \in [Owners -> [Steps -> Nat]]
         /\ \A t \in Steps : leases'[o][t] = 0
         /\ \A p \in Owners \ {o} : leases'[p] = leases[p]
  <1>1. state[o] = journal /\ journal.inflight \in Steps
    BY DEF Inv, Runs
  <1>2. leases' = [leases EXCEPT ![o][journal.inflight] = 0]
    BY <1>1 DEF Returned
  <1> QED BY <1>1, <1>2 DEF Inv, TypeOK, Leased

LEMMA StepReturnsKeeps ==
  ASSUME Inv, NEW o \in Owners, StepReturns(o)
  PROVE  Inv'
  <1> DEFINE s == journal.inflight
             row == WithResult(journal)
  <1>1. /\ state[o] = journal /\ lock = o /\ s \in Steps /\ IsNext(journal, s)
        /\ journal.status = "running"
    BY DEF StepReturns, Inv, Runs
  <1>2. /\ Save(o, row) /\ Returned(o)
        /\ pc[o] = "step" /\ UNCHANGED <<lock, receipts, started>>
    BY <1>1 DEF StepReturns
  <1>3. /\ row.status = "running" /\ row.inflight = 0 /\ row.attempts = journal.attempts
        /\ row.results = journal.results \cup {s}
    BY DEF WithResult, Inv, TypeOK, RowType
  <1>4. row \in RowType
    <2>1. 0 \in 0..StepCount /\ "running" \in Statuses
      BY RunnerAssumption DEF Statuses
    <2> QED BY <1>1, <2>1 DEF WithResult, Inv, TypeOK, RowType
  <1>5. TypeOK'
    BY <1>2, <1>4, ReturnedRevokes DEF StepReturns, Inv, TypeOK, Save, Goto, Pcs
  <1>6. Ordered(row)
    BY <1>1, <1>3 DEF Inv, Sound, Ordered, IsNext, Steps
  <1>7. Sound'
    BY <1>2, <1>3, <1>6 DEF Inv, Sound, Save
  <1>8. \A p \in Owners \ {o} : Runs(p)' /\ Leased(p)'
    BY <1>2, ReturnedRevokes, OthersIdle DEF StepReturns, Goto
  <1>9. pc'[o] = "loop" /\ state'[o] = journal' /\ lock' = o /\ journal' = row
    BY <1>1, <1>2 DEF Inv, TypeOK, Save, Goto, StepReturns
  <1>10. Runs(o)' /\ Leased(o)'
    BY <1>2, <1>3, <1>9, ReturnedRevokes DEF Runs, Leased
  <1> QED BY <1>5, <1>7, <1>8, <1>10 DEF Inv

LEMMA StepRaisesKeeps ==
  ASSUME Inv, NEW o \in Owners, StepRaises(o)
  PROVE  Inv'
  <1> DEFINE row == [journal EXCEPT !.status = "failed"]
  <1>1. /\ state[o] = journal /\ lock = o /\ pc[o] = "step" /\ journal.status = "running"
    BY DEF StepRaises, Inv, Runs
  <1>2. CASE End(o, "failed")
    BY <1>1, <1>2, EndKeeps DEF StepRaises, Statuses
  <1>3. CASE Save(o, row) /\ Returned(o) /\ Goto(o, "admit") /\ UNCHANGED lock
    <2>1. row \in RowType
      BY DEF Inv, TypeOK, RowType, Statuses
    <2>2. TypeOK'
      BY <1>1, <1>3, <2>1, ReturnedRevokes DEF StepRaises, Inv, TypeOK, Save, Goto, Pcs
    <2>3. Sound'
      BY <1>1, <1>3 DEF StepRaises, Inv, Sound, Ordered, Save, TypeOK, RowType
    <2>4. \A p \in Owners \ {o} : Runs(p)' /\ Leased(p)'
      BY <1>1, <1>3, ReturnedRevokes, OthersIdle DEF Goto
    <2>5. pc'[o] = "admit" /\ state'[o] = journal' /\ lock' = o
      BY <1>1, <1>3 DEF Inv, TypeOK, Save, Goto
    <2>6. journal'.status = "failed"
      BY <1>3 DEF Save, Inv, TypeOK, RowType
    <2>7. Runs(o)' /\ Leased(o)'
      BY <1>1, <1>3, <2>5, <2>6, ReturnedRevokes DEF Runs, Leased
    <2> QED BY <2>2, <2>3, <2>4, <2>7 DEF Inv
  <1> QED BY <1>1, <1>2, <1>3 DEF StepRaises

LEMMA InterruptKeeps ==
  ASSUME Inv, NEW o \in Owners, NEW status \in {"cancelled", "deadline"},
         Interrupt(o, status)
  PROVE  Inv'
  <1>1. CASE pc[o] = "verifyRead"
    BY <1>1, QuietLeaveKeeps DEF Interrupt
  <1>2. CASE pc[o] # "verifyRead"
    <2>1. End(o, status) /\ pc[o] \notin {"idle", "clear"}
      BY <1>2 DEF Interrupt, End, Stopped, Awaiting, VerifyPcs
    <2> QED BY <2>1, EndKeeps DEF Interrupt, Statuses
  <1> QED BY <1>1, <1>2

LEMMA StepKeeps == Inv /\ [Next]_vars => Inv'
  <1> SUFFICES ASSUME Inv, [Next]_vars PROVE Inv'
    OBVIOUS
  <1>1. CASE UNCHANGED vars
    BY <1>1 DEF vars, Inv, TypeOK, Sound, Ordered, Whole, Uncertain, Runs, IsNext, Leased
  <1>2. ASSUME NEW o \in Owners, OwnerStep(o) PROVE Inv'
    <2>1. CASE Run(o)
      BY <2>1, RunKeeps
    <2>2. CASE ReadResult(o)
      BY <2>2, ReadResultKeeps
    <2>3. CASE Invalid(o)
      BY <2>3, InvalidKeeps
    <2>4. CASE Outage(o)
      BY <2>4, EndKeeps DEF Outage, VerifyPcs, Statuses
    <2>5. CASE Verified(o)
      BY <2>5, GotoKeeps DEF Verified
    <2>6. CASE Completed(o)
      BY <2>6, CompletedKeeps
    <2>7. CASE ReadVerified(o)
      BY <2>7, ReadVerifiedKeeps
    <2>8. CASE ClearCheckpoints(o)
      BY <2>8, QuietLeaveKeeps DEF ClearCheckpoints
    <2>9. CASE Settled(o)
      <3>1. state[o] = journal
        BY <2>9 DEF Settled, Inv, Runs
      <3>2. CASE Uncertain(journal)
        BY <2>9, <3>1, <3>2, EndKeeps DEF Settled, Statuses
      <3>3. CASE ~Uncertain(journal)
        BY <2>9, <3>1, <3>3, GotoKeeps DEF Settled, Readable, Whole
      <3> QED BY <3>2, <3>3
    <2>10. CASE CompletionFails(o)
      BY <2>10, EndKeeps DEF CompletionFails, Statuses
    <2>11. CASE Proceed(o)
      BY <2>11, GotoKeeps DEF Proceed
    <2>12. CASE Refuse(o)
      BY <2>12, EndKeeps DEF Refuse, Statuses
    <2>13. CASE Exhausted(o)
      BY <2>13, QuietLeaveKeeps DEF Exhausted
    <2>14. CASE Attempt(o)
      BY <2>14, AttemptKeeps
    <2>15. CASE StartStep(o)
      BY <2>15, StartStepKeeps
    <2>16. ASSUME NEW s \in Steps, PutCheckpoint(o, s) PROVE Inv'
      BY <2>16, PutCheckpointKeeps
    <2>17. CASE StepReturns(o)
      BY <2>17, StepReturnsKeeps
    <2>18. CASE StepRaises(o)
      BY <2>18, StepRaisesKeeps
    <2>19. CASE BadPayload(o)
      BY <2>19, EndKeeps DEF BadPayload, Statuses
    <2>20. CASE Interrupt(o, "cancelled") \/ Interrupt(o, "deadline")
      BY <2>20, InterruptKeeps
    <2>21. CASE Abandon(o)
      BY <2>21, QuietLeaveKeeps DEF Abandon
    <2> QED BY <1>2, <2>1, <2>2, <2>3, <2>4, <2>5, <2>6, <2>7, <2>8, <2>9, <2>10,
              <2>11, <2>12, <2>13, <2>14, <2>15, <2>16, <2>17, <2>18, <2>19, <2>20, <2>21
           DEF OwnerStep, Compute
  <1> QED BY <1>1, <1>2 DEF Next

-----------------------------------------------------------------------------
(* Theorems.                                                                *)

\* The invariant holds in every state of every run.
THEOREM Invariant == Spec => []Inv
  <1>1. Init => Inv
    BY InitHolds
  <1>2. Inv /\ [Next]_vars => Inv'
    BY StepKeeps
  <1> QED BY <1>1, <1>2, PTL DEF Spec

\* The journal and the runners' copies keep their types.
THEOREM TypeCorrect == Spec => []TypeOK
  <1>1. Inv => TypeOK
    BY DEF Inv
  <1> QED BY <1>1, Invariant, PTL

\* A step is called once, a retryable one at most 1 + max_retries times: over all
\* runs of all runners, since the journal counts an attempt before its call.
THEOREM BoundedCalls == Spec => []CallsAreBounded
  <1>1. Inv => CallsAreBounded
    <2> SUFFICES ASSUME Inv, NEW s \in Steps PROVE started[s] <= Maximum(s)
      BY DEF CallsAreBounded
    <2>1. started[s] \in Nat /\ journal.attempts[s] \in Nat
      BY DEF Inv, TypeOK, RowType
    <2> QED BY <2>1, MaximumType DEF Inv, Sound
  <1> QED BY <1>1, Invariant, PTL

\* `inflight` names the one step whose outcome is open.
THEOREM InflightCorrect == Spec => []InflightIsUncertain
  <1>1. Inv => InflightIsUncertain
    BY DEF Inv, Sound, Ordered, InflightIsUncertain
  <1> QED BY <1>1, Invariant, PTL

\* A run that says "completed" is whole, read_result's promotions included.
THEOREM CompletedWhole == Spec => []CompletedIsWhole
  <1>1. Inv => CompletedIsWhole
    BY DEF Inv, Sound, Whole, CompletedIsWhole
  <1> QED BY <1>1, Invariant, PTL

\* Where a checkpoint is written, the lease it goes by is that of the attempt that
\* runs now.
LEMMA CheckpointStep ==
  ASSUME Inv, [Next]_vars, NEW s \in Steps, receipts'[s] \notin {0, receipts[s]}
  PROVE  /\ journal.status = "running" /\ journal.inflight = s
         /\ receipts'[s] = journal.attempts[s]
  <1>1. receipts \in [Steps -> Nat] /\ receipts' # receipts /\ receipts' # NoSteps
    BY DEF Inv, TypeOK, NoSteps
  <1>2. PICK o \in Owners : OwnerStep(o)
    BY <1>1 DEF Next, vars
  <1>3. PICK t \in Steps : PutCheckpoint(o, t)
    <2>1. ~Run(o) /\ ~ReadResult(o) /\ ~Invalid(o) /\ ~Outage(o) /\ ~Verified(o)
          /\ ~Completed(o) /\ ~ReadVerified(o) /\ ~StepReturns(o) /\ ~StepRaises(o)
          /\ ~BadPayload(o) /\ ~Abandon(o)
      BY <1>1 DEF Run, ReadResult, Invalid, Outage, Verified, Completed, ReadVerified,
                  StepReturns, StepRaises, BadPayload, Abandon
    <2>2. ~Compute(o)
      BY <1>1 DEF Compute, ClearCheckpoints, Settled, CompletionFails, Proceed, Refuse,
                  Exhausted, Attempt, StartStep
    <2>3. ~Interrupt(o, "cancelled") /\ ~Interrupt(o, "deadline")
      BY <1>1 DEF Interrupt
    <2> QED BY <1>2, <2>1, <2>2, <2>3 DEF OwnerStep
  <1>4. t = s /\ leases[o][s] # 0 /\ receipts'[s] = leases[o][s]
    BY <1>1, <1>3 DEF PutCheckpoint
  <1>5. pc[o] = "step" /\ s = journal.inflight /\ leases[o][s] = journal.attempts[s]
    BY <1>4 DEF Inv, Leased
  <1> QED BY <1>4, <1>5 DEF Inv, Runs

\* No callback of an earlier attempt, or of one that ended, writes a checkpoint.
THEOREM CurrentCheckpoints == Spec => CheckpointsAreCurrent
  <1>1. Inv /\ [Next]_vars =>
          [\A s \in Steps : receipts'[s] \notin {0, receipts[s]} =>
             /\ journal.status = "running" /\ journal.inflight = s
             /\ receipts'[s] = journal.attempts[s]]_vars
    BY CheckpointStep
  <1> QED BY <1>1, Invariant, PTL DEF Spec, CheckpointsAreCurrent

-----------------------------------------------------------------------------
(* The runner keeps the contract.                                           *)

\* A step of the runner that neither calls, keeps nor invalidates is a stutter.
LEMMA ContractStep ==
  ASSUME Inv, [Next]_vars
  PROVE  [Contract!Next]_(Contract!contractVars)
  <1> USE DEF Contract!contractVars
  <1> SUFFICES ASSUME NEW o \in Owners, OwnerStep(o)
               PROVE  [Contract!Next]_(Contract!contractVars)
    BY DEF Next, vars
  <1>1. pc[o] # "idle" => state[o] = journal
    BY DEF Inv, Runs
  <1>2. pc[o] \notin {"idle", "clear"} => journal.status # "sources_invalid"
    BY DEF Inv, Runs
  <1>3. journal \in RowType
    BY DEF Inv, TypeOK
  <1> DEFINE Stutter == /\ started' = started /\ journal'.results = journal.results
                        /\ journal'.status = "sources_invalid" <=> journal.status = "sources_invalid"
  <1>4. ASSUME NEW status \in Statuses \ {"sources_invalid"}, End(o, status), started' = started,
               pc[o] \notin {"idle", "clear"}
        PROVE  Stutter
    BY <1>1, <1>2, <1>3, <1>4 DEF End, RowType
  <1>5. CASE Run(o)
    <2>1. CASE journal.status = "absent"
      <3>1. journal = Absent
        BY <2>1 DEF Inv, Sound
      <3>2. journal' = [Absent EXCEPT !.status = "created"] /\ started' = started
        BY <1>5, <2>1 DEF Run, Save, Absent
      <3> QED BY <2>1, <3>1, <3>2 DEF Absent
    <2>2. CASE journal.status # "absent"
      BY <1>5, <2>2 DEF Run, Save
    <2> QED BY <2>1, <2>2
  <1>6. CASE Invalid(o)
    <2>1. journal' = [journal EXCEPT !.status = "sources_invalid", !.results = {}]
          /\ started' = started /\ journal.status # "sources_invalid"
      BY <1>1, <1>2, <1>6 DEF Invalid, Save, VerifyPcs
    <2>2. Contract!Invalidate
      BY <1>3, <2>1 DEF Contract!Invalidate, RowType
    <2> QED BY <2>2 DEF Contract!Next
  <1>7. CASE StartStep(o)
    <2> DEFINE s == journal.inflight
    <2>1. /\ s \in Steps /\ IsNext(journal, s) /\ journal.status = "running"
          /\ started[s] < journal.attempts[s] /\ journal.attempts[s] <= Maximum(s)
      BY <1>7 DEF StartStep, Inv, Runs, Sound
    <2>2. started' = [started EXCEPT ![s] = @ + 1] /\ journal' = journal
      BY <1>1, <1>7 DEF StartStep
    <2>3. started[s] < Maximum(s)
      BY <2>1, MaximumType DEF Inv, TypeOK, RowType
    <2>4. Contract!Call(s)
      BY <2>1, <2>2, <2>3 DEF Contract!Call, IsNext
    <2> QED BY <2>1, <2>4 DEF Contract!Next
  <1>8. CASE StepReturns(o)
    <2> DEFINE s == journal.inflight
    <2>1. /\ s \in Steps /\ IsNext(journal, s) /\ journal.status = "running"
          /\ started[s] > 0
      BY <1>8 DEF StepReturns, Inv, Runs
    <2>2. journal' = WithResult(journal) /\ started' = started
      BY <1>1, <1>8 DEF StepReturns, Save
    <2>3. journal'.results = journal.results \cup {s} /\ journal'.status = "running"
      BY <1>3, <2>2 DEF WithResult, RowType
    <2>4. Contract!Keep(s)
      BY <2>1, <2>2, <2>3 DEF Contract!Keep, IsNext
    <2> QED BY <2>1, <2>4 DEF Contract!Next
  <1>9. CASE Outage(o)
    BY <1>4, <1>9 DEF Outage, VerifyPcs, Statuses
  <1>10. CASE Settled(o)
    BY <1>4, <1>10 DEF Settled, Statuses
  <1>11. CASE CompletionFails(o)
    BY <1>4, <1>11 DEF CompletionFails, Statuses
  <1>12. CASE Refuse(o)
    BY <1>4, <1>12 DEF Refuse, Statuses
  <1>13. CASE BadPayload(o)
    BY <1>4, <1>13 DEF BadPayload, Statuses
  <1>14. CASE Completed(o)
    BY <1>1, <1>2, <1>3, <1>14 DEF Completed, Save, RowType
  <1>15. CASE ReadVerified(o)
    BY <1>1, <1>2, <1>3, <1>15 DEF ReadVerified, Save, RowType
  <1>16. CASE Attempt(o)
    BY <1>1, <1>2, <1>3, <1>16 DEF Attempt, Save, RowType
  <1>17. CASE StepRaises(o)
    <2>1. CASE End(o, "failed")
      BY <1>4, <1>17, <2>1 DEF StepRaises, Statuses
    <2>2. CASE Save(o, [state[o] EXCEPT !.status = "failed"])
      BY <1>1, <1>2, <1>3, <1>17, <2>2 DEF StepRaises, Save, RowType
    <2> QED BY <1>17, <2>1, <2>2 DEF StepRaises
  <1>18. ASSUME NEW status \in {"cancelled", "deadline"}, Interrupt(o, status) PROVE Stutter
    <2>1. journal' \in {journal, [journal EXCEPT !.status = status]} /\ started' = started
          /\ journal.status # "sources_invalid"
      BY <1>1, <1>2, <1>18 DEF Interrupt, Stopped, Awaiting, VerifyPcs
    <2> QED BY <1>3, <2>1 DEF RowType
  <1>19. CASE UNCHANGED <<journal, started>>
    BY <1>19
  <1> QED BY <1>5, <1>6, <1>7, <1>8, <1>9, <1>10, <1>11, <1>12, <1>13, <1>14, <1>15, <1>16,
            <1>17, <1>18, <1>19
         DEF OwnerStep, Compute, ReadResult, Verified, ClearCheckpoints, Proceed,
             Exhausted, PutCheckpoint, Abandon

\* Every behaviour of the runners, seen through the journal, is one the contract
\* allows: calls in order and within bounds, results kept, invalidity final.
THEOREM ContractKept == Spec => KeepsContract
  <1>1. Init => Contract!Init
    BY DEF Init, Contract!Init, Absent, NoSteps
  <1>2. Inv /\ [Next]_vars => [Contract!Next]_(Contract!contractVars)
    BY ContractStep
  <1> QED BY <1>1, <1>2, Invariant, PTL DEF Spec, KeepsContract, Contract!Spec
=============================================================================
