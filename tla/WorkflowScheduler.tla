------------------------- MODULE WorkflowScheduler --------------------------
(***************************************************************************)
(* One run of a workflow with declared dependencies: independent model      *)
(* steps run side by side as asyncio tasks, input steps are polled, and one *)
(* coroutine admits, collects and, whatever ends it, drains.  It shares its *)
(* journal and its row format with WorkflowRunner; the file lock keeps      *)
(* every other runner out while it runs.                                    *)
(*                                                                          *)
(* A step of this module is what the coroutine does between two awaits, or  *)
(* up to its next write to the journal where the process may die.           *)
(***************************************************************************)
EXTENDS Naturals, FiniteSets

CONSTANTS StepCount,    \* len(steps), in declaration order
          Inputs,       \* the WorkflowInputSteps; the others call a model
          Deps,         \* dependencies: the steps each step builds on
          MaxParallel,  \* max_parallel
          WaitFor,      \* asyncio.wait_for, cancelled again while it waits for what it
                        \* cancelled: "waits" (Python 3.12+), "detaches" (3.10, 3.11)
          Faults        \* "journal": saves may raise; "crash": the process may die

Steps  == 1..StepCount
Models == Steps \ Inputs

\* _dependencies refuses anything else.
ASSUME SchedulerAssumption ==
  /\ StepCount \in Nat \ {0}
  /\ Inputs \subseteq Steps
  /\ Deps \in [Steps -> SUBSET Steps]
  /\ \A some \in (SUBSET Steps) \ {{}} : \E s \in some : Deps[s] \cap some = {}
  /\ MaxParallel \in Nat \ {0}
  /\ WaitFor \in {"waits", "detaches"}
  /\ Faults \subseteq {"journal", "crash"}

VARIABLES journal,   \* the committed row
          row,       \* the coroutine's copy of it
          pc,        \* where the coroutine is
          pass,      \* its place in the steps, the inputs it polled, what it got
          ending,    \* why it drains: it raised, or the CancelledError it owes
          task,      \* the asyncio task of each model step
          leases,    \* steps whose checkpoint lease is live
          receipts,  \* steps with checkpoints in the journal
          started,   \* how often each step's callback was ever called
          void       \* some verification said invalid, and that was saved

vars == <<journal, row, pc, pass, ending, task, leases, receipts, started, void>>

-----------------------------------------------------------------------------
Statuses == {"absent", "created", "running", "failed", "cancelled", "deadline",
             "outcome_unknown", "verification_unavailable", "sources_invalid",
             "awaiting_input", "completed"}

VerifyPcs == {"verifyStart", "verifyStep", "verifyPoll", "verifyAwait", "verifyEnd",
              "verifyRead"}

\* The finally; detached, run() left already and released the journal.
Draining == {"drain", "detached"}

\* Mutant of Awaiting: a poll is not under the deadline.
AwaitingNoPoll == VerifyPcs \cup {"wait"}

\* Where other tasks get a turn, and the deadline counts.
Awaiting == VerifyPcs \cup {"poll", "wait"}

\* No run holds the journal: the last one left, or its process died.
Resting == {"idle", "dead"}

Pcs == Awaiting \cup Draining \cup Resting \cup {"scan", "collect", "clear"}

Absent == [status |-> "absent", results |-> {}, attempts |-> {}, inflight |-> {},
           waiting |-> {}]

FirstPass == [at |-> 1, polled |-> {}, got |-> FALSE, grew |-> FALSE]

Active   == {s \in Models : task[s] # "none"}
Live     == {s \in Models : task[s] \in {"created", "running"}}
Returned == {s \in Models : task[s] = "returned"}
Ended    == Active \ Live

Least(S) == {s \in S : \A t \in S : s <= t}

\* Some callback may have been called and its outcome is not recorded.
Uncertain(r) == ~(r.attempts \subseteq r.results)

Init ==
  /\ journal = Absent /\ row = Absent
  /\ pc = "idle" /\ pass = FirstPass /\ ending = "raised"
  /\ task = [s \in Models |-> "none"]
  /\ leases = {} /\ receipts = {}
  /\ started = [s \in Steps |-> 0]
  /\ void = FALSE

-----------------------------------------------------------------------------
(* Control.                                                                 *)

\* _save commits the row, or raises into the drain with `memory` at hand.
Save(new, memory, label) ==
  \/ journal' = new /\ row' = new /\ pc' = label
  \/ "journal" \in Faults /\ row' = memory /\ pc' = "drain" /\ UNCHANGED journal

\* The status is put into the row, saved, and the run raises.
Fail(status) ==
  LET new == [row EXCEPT !.status = status] IN Save(new, new, "drain")

\* The top of the while loop.
NextPass(r) ==
  /\ pc' = IF r.results = Steps THEN "verifyEnd" ELSE "scan"
  /\ pass' = [pass EXCEPT !.at = 1, !.grew = FALSE]

Goto(label) == pc' = label /\ UNCHANGED <<journal, row>>

Forget == row' = Absent /\ pass' = FirstPass /\ ending' = "raised" /\ leases' = {}

\* publish: what is in flight is recomputed from the tasks at hand.
WithResult(r, s) ==
  [r EXCEPT !.results = @ \cup {s}, !.inflight = Active \ {s}, !.waiting = @ \ {s}]

-----------------------------------------------------------------------------
(* run and read_result.                                                     *)

Run ==
  LET r == IF journal.status = "absent" THEN [Absent EXCEPT !.status = "created"]
           ELSE journal
  IN
  /\ pc \in Resting
  /\ \/ /\ r.status # "sources_invalid"
        /\ journal' = r /\ row' = r /\ pc' = "verifyStart" /\ UNCHANGED receipts
     \/ /\ r.status = "sources_invalid"
        /\ receipts' = {} /\ UNCHANGED <<journal, row, pc>>
  /\ UNCHANGED <<pass, ending, task, leases, started, void>>

\* With dependencies there is no completion policy: every result is needed.
ReadResult ==
  /\ pc \in Resting
  /\ journal.status \in {"completed", "verification_unavailable"}
  /\ journal.inflight = {} /\ journal.results = Steps
  /\ row' = journal /\ pc' = "verifyRead"
  /\ UNCHANGED <<journal, pass, ending, task, leases, receipts, started, void>>

-----------------------------------------------------------------------------
(* The source verifier.                                                     *)

Invalid ==
  LET new == [row EXCEPT !.status = "sources_invalid", !.results = {}] IN
  /\ pc \in VerifyPcs
  /\ leases' = {}
  /\ Save(new, new, "clear")
  /\ void' = (void \/ journal'.status = "sources_invalid")
  /\ UNCHANGED <<pass, ending, task, receipts, started>>

Outage ==
  /\ pc \in VerifyPcs
  /\ Fail("verification_unavailable")
  /\ UNCHANGED <<pass, ending, task, leases, receipts, started, void>>

\* What an earlier run left open is never called again.
StartVerified ==
  /\ pc = "verifyStart"
  /\ IF Uncertain(row) THEN Fail("outcome_unknown") /\ UNCHANGED pass
     ELSE NextPass(row) /\ UNCHANGED <<journal, row>>
  /\ UNCHANGED <<ending, task, leases, receipts, started, void>>

EndVerified ==
  LET new == [row EXCEPT !.status = "completed", !.inflight = {}] IN
  /\ pc \in {"verifyEnd", "verifyRead"}
  /\ Save(new, new, "clear")
  /\ UNCHANGED <<pass, ending, task, leases, receipts, started, void>>

\* _clear_checkpoints is a commit of its own.
ClearCheckpoints ==
  /\ pc = "clear"
  /\ receipts' = {} \/ ("journal" \in Faults /\ UNCHANGED receipts)
  /\ Goto("drain")
  /\ UNCHANGED <<pass, ending, task, leases, started, void>>

-----------------------------------------------------------------------------
(* One pass over the steps, in declaration order.                           *)

\* The steps from here on that a task or a poll can be started for.
Turn ==
  {s \in pass.at..StepCount :
     /\ s \notin row.results \cup Active
     /\ Deps[s] \subseteq row.results
     /\ IF s \in Inputs THEN s \notin pass.polled ELSE Cardinality(Active) < MaxParallel}

Look ==
  /\ pc = "scan" /\ Ended = {}
  /\ \E s \in Least(Turn) : pass' = [pass EXCEPT !.at = s]
  /\ Goto("verifyStep")
  /\ UNCHANGED <<ending, task, leases, receipts, started, void>>

\* Mutant of Settle: an input that was consumed does not start another pass.
SettleOnce ==
  /\ pc = "scan" /\ (Turn = {} \/ Ended # {})
  /\ IF Active # {} THEN Goto("wait") /\ UNCHANGED <<pass, ending>>
     ELSE IF row.waiting # {} THEN Goto("verifyAwait") /\ UNCHANGED <<pass, ending>>
     ELSE Goto("drain") /\ ending' = "stuck" /\ UNCHANGED pass
  /\ UNCHANGED <<task, leases, receipts, started, void>>

\* The pass is over, or a task ended: wait for tasks, look again at what an input
\* unlocked, or wait for people.  Else the graph is stuck: invalid_dependencies.
Settle ==
  /\ pc = "scan" /\ (Turn = {} \/ Ended # {})
  /\ IF Active # {} THEN Goto("wait") /\ UNCHANGED <<pass, ending>>
     ELSE IF pass.grew THEN NextPass(row) /\ UNCHANGED <<journal, row, ending>>
     ELSE IF row.waiting # {} THEN Goto("verifyAwait") /\ UNCHANGED <<pass, ending>>
     ELSE Goto("drain") /\ ending' = "stuck" /\ UNCHANGED pass
  /\ UNCHANGED <<task, leases, receipts, started, void>>

\* While the verifier ran a task may have ended: that is looked at first.
Recheck ==
  /\ pc = "verifyStep"
  /\ \/ Ended # {} /\ Goto("wait")
     \/ Ended = {} /\ pass.at \in Inputs /\ Goto("poll")
  /\ UNCHANGED <<pass, ending, task, leases, receipts, started, void>>

\* The attempt is on disk before the task exists.
Admit ==
  LET s == pass.at
      new == [row EXCEPT !.status = "running", !.attempts = @ \cup {s},
                         !.inflight = Active \cup {s}]
  IN
  /\ pc = "verifyStep" /\ Ended = {} /\ s \in Models
  /\ Save(new, new, "scan")
  /\ leases' = leases \cup {s}
  /\ task' = IF pc' = "scan" THEN [task EXCEPT ![s] = "created"] ELSE task
  /\ pass' = [pass EXCEPT !.at = s + 1]
  /\ UNCHANGED <<ending, receipts, started, void>>

-----------------------------------------------------------------------------
(* poll_input.                                                              *)

\* The poll answers with a value or without one.
Poll ==
  /\ pc = "poll"
  /\ \E got \in BOOLEAN : pass' = [pass EXCEPT !.got = got]
  /\ Goto("verifyPoll")
  /\ UNCHANGED <<ending, task, leases, receipts, started, void>>

PollRaises ==
  /\ pc = "poll"
  /\ Fail("verification_unavailable") \/ Fail("failed")
  /\ UNCHANGED <<pass, ending, task, leases, receipts, started, void>>

\* Mutant of PollVerified: an input that is waited for counts as an attempt.
PollCounted ==
  LET s == pass.at
      new == IF pass.got THEN WithResult(row, s)
             ELSE [row EXCEPT !.waiting = @ \cup {s}, !.attempts = @ \cup {s}]
  IN
  /\ pc = "verifyPoll"
  /\ Save(new, row, "scan")
  /\ pass' = [pass EXCEPT !.at = s + 1, !.polled = @ \cup {s}, !.got = FALSE,
                          !.grew = @ \/ pass.got]
  /\ UNCHANGED <<ending, task, leases, receipts, started, void>>

\* Only after a second verification is the answer saved.
PollVerified ==
  LET s == pass.at
      new == IF pass.got THEN WithResult(row, s) ELSE [row EXCEPT !.waiting = @ \cup {s}]
  IN
  /\ pc = "verifyPoll"
  /\ Save(new, row, "scan")
  /\ pass' = [pass EXCEPT !.at = s + 1, !.polled = @ \cup {s}, !.got = FALSE,
                          !.grew = @ \/ pass.got]
  /\ UNCHANGED <<ending, task, leases, receipts, started, void>>

InputTooLarge ==
  /\ pc = "verifyPoll" /\ pass.got
  /\ Fail("failed")
  /\ UNCHANGED <<pass, ending, task, leases, receipts, started, void>>

AwaitInput ==
  LET new == [row EXCEPT !.status = "awaiting_input", !.inflight = {}] IN
  /\ pc = "verifyAwait"
  /\ Save(new, new, "drain")
  /\ UNCHANGED <<pass, ending, task, leases, receipts, started, void>>

-----------------------------------------------------------------------------
(* The tasks of the model steps.                                            *)

\* A task first runs when the coroutine awaits; a cancelled one never does.
TaskBegins(s) ==
  /\ task[s] = "created" /\ pc \in Awaiting
  /\ task' = [task EXCEPT ![s] = "running"]
  /\ started' = [started EXCEPT ![s] = @ + 1]
  /\ UNCHANGED <<journal, row, pc, pass, ending, leases, receipts, void>>

\* It returns a result, also when it was cancelled meanwhile, or it raises, is
\* cancelled or returns what does not fit the journal.
TaskEnds(s) ==
  /\ task[s] = "running" /\ pc \in Awaiting \cup Draining
  /\ \E how \in {"returned", "failed"} : task' = [task EXCEPT ![s] = how]
  /\ leases' = leases \ {s}
  /\ UNCHANGED <<journal, row, pc, pass, ending, receipts, started, void>>

\* Cancelled before it ran: its callback is never called, its lease stays.
TaskDropped(s) ==
  /\ task[s] = "created" /\ pc \in Draining
  /\ task' = [task EXCEPT ![s] = "failed"]
  /\ UNCHANGED <<journal, row, pc, pass, ending, leases, receipts, started, void>>

\* A callback, or what it left running, stores a checkpoint under its lease.
PutCheckpoint(s) ==
  /\ s \in leases /\ started[s] > 0 /\ pc \in Awaiting \cup Draining
  /\ receipts' = receipts \cup {s}
  /\ UNCHANGED <<journal, row, pc, pass, ending, task, leases, started, void>>

\* asyncio.wait returned: the results of every ended task, in plan order.
Collect ==
  /\ pc \in {"wait", "collect"}
  /\ \E s \in Least(Returned) :
       /\ Save(WithResult(row, s), row, "collect")
       /\ task' = IF pc' = "collect" THEN [task EXCEPT ![s] = "none"] ELSE task
  /\ UNCHANGED <<pass, ending, leases, receipts, started, void>>

\* Then one failure among them fails the run; else the next pass.
Collected ==
  /\ \/ pc = "wait" /\ Ended # {}
     \/ pc = "collect"
  /\ Returned = {}
  /\ IF Ended # {} THEN Fail("failed") /\ UNCHANGED pass
     ELSE NextPass(row) /\ UNCHANGED <<journal, row>>
  /\ UNCHANGED <<ending, task, leases, receipts, started, void>>

-----------------------------------------------------------------------------
(* The finally: cancel every task, wait for all of them whoever cancels the  *)
(* run again, save the results they still brought, and leave.               *)

\* Mutant of Drained: the tasks are cancelled and not waited for.
Cancelled == pc \in Draining

Drained == pc \in Draining /\ Live = {}

\* Mutant of MayPublish: results are saved whatever ended the run.
MayPublishAll == Drained

\* Mutant of MayPublish: a run that was cancelled saves no result any more.
MayPublishRaised ==
  Drained /\ row.status # "sources_invalid" /\ ending = "raised"

MayPublish == Drained /\ row.status # "sources_invalid"

\* A result that cannot be saved is given up; the first failure is what counts.
DrainPublish ==
  /\ MayPublish
  /\ \E s \in Least(Returned) :
       \/ /\ journal' = WithResult(row, s) /\ row' = journal'
          /\ task' = [task EXCEPT ![s] = "none"]
       \/ /\ "journal" \in Faults /\ task' = [task EXCEPT ![s] = "failed"]
          /\ UNCHANGED <<journal, row>>
  /\ leases' = {}
  /\ UNCHANGED <<pc, pass, ending, receipts, started, void>>

\* A CancelledError owed reaches run(), which saves the row under its status.
DrainEnd ==
  /\ Drained /\ (Returned = {} \/ ~MayPublish)
  /\ \/ /\ pc = "drain" /\ ending \in {"cancelled", "deadline"}
        /\ journal' = [row EXCEPT !.status = ending]
        /\ void' = (void \/ row.status = "sources_invalid")
     \/ /\ pc = "detached" \/ ending \in {"raised", "stuck"} \/ "journal" \in Faults
        /\ UNCHANGED <<journal, void>>
  /\ pc' = "idle" /\ Forget
  /\ task' = [s \in Models |-> IF s \in Live THEN task[s] ELSE "none"]
  /\ UNCHANGED <<receipts, started>>

-----------------------------------------------------------------------------
(* The environment.                                                         *)

\* The caller cancels, or the deadline passes; read_result saves neither.
Interrupt(status) ==
  /\ pc \in Awaiting
  /\ ending' = IF pc = "verifyRead" THEN "raised" ELSE status
  /\ Goto("drain")
  /\ UNCHANGED <<pass, task, leases, receipts, started, void>>

\* During the drain it is remembered, and a cancellation outlives a deadline.  A
\* wait_for that detaches lets run() save and leave while the drain goes on.
InterruptDrain(status) ==
  /\ pc = "drain" /\ Active # {}
  /\ IF WaitFor = "detaches" /\ status = "cancelled" /\ ending \in {"cancelled", "deadline"}
       THEN /\ row' = [row EXCEPT !.status = "cancelled"] /\ journal' = row'
            /\ pc' = "detached" /\ leases' = {} /\ UNCHANGED ending
       ELSE /\ ending # "cancelled" /\ ending' = status
            /\ UNCHANGED <<journal, row, pc, leases>>
  /\ UNCHANGED <<pass, task, receipts, started, void>>

Crash ==
  /\ "crash" \in Faults /\ pc \notin Resting
  /\ pc' = "dead" /\ Forget /\ task' = [s \in Models |-> "none"]
  /\ UNCHANGED <<journal, receipts, started, void>>

-----------------------------------------------------------------------------
\* What the coroutine does without waiting for anyone.
Compute ==
  \/ ClearCheckpoints \/ Look \/ Settle \/ Collect \/ Collected
  \/ DrainPublish \/ DrainEnd

Verdict ==
  \/ Invalid \/ Outage \/ StartVerified \/ EndVerified
  \/ Recheck \/ Admit \/ PollVerified \/ InputTooLarge \/ AwaitInput

TaskStep(s) == TaskBegins(s) \/ TaskEnds(s) \/ TaskDropped(s) \/ PutCheckpoint(s)

Next ==
  \/ Run \/ ReadResult
  \/ Verdict \/ Poll \/ PollRaises \/ Compute
  \/ \E s \in Models : TaskStep(s)
  \/ \E status \in {"cancelled", "deadline"} : Interrupt(status) \/ InterruptDrain(status)
  \/ Crash

Spec == Init /\ [][Next]_vars

\* The deadline fires at every await but the drain's, and a callback that was
\* cancelled ends ("callbacks must propagate cancellation").
Fairness ==
  /\ WF_vars(Compute) /\ WF_vars(Interrupt("deadline"))
  /\ \A s \in Models : WF_vars(pc \in Draining /\ (TaskEnds(s) \/ TaskDropped(s)))

FairSpec == Spec /\ Fairness

-----------------------------------------------------------------------------
(* Properties.                                                              *)

RowType == [status : Statuses, results : SUBSET Steps, attempts : SUBSET Models,
            inflight : SUBSET Models, waiting : SUBSET Inputs]

\* The journal and the coroutine hold rows of the schema, the tasks a state each.
TypeOK ==
  /\ journal \in RowType /\ row \in RowType
  /\ pc \in Pcs
  /\ pass \in [at : 1..(StepCount + 1), polled : SUBSET Inputs, got : BOOLEAN,
               grew : BOOLEAN]
  /\ ending \in {"raised", "stuck", "cancelled", "deadline"}
  /\ task \in [Models -> {"none", "created", "running", "returned", "failed"}]
  /\ leases \subseteq Models /\ receipts \subseteq Models
  /\ started \in [Steps -> Nat]
  /\ void \in BOOLEAN

\* A validated graph always leaves something to run, to poll or to wait for (the
\* scheduler never gives up with invalid_dependencies), and awaiting_input is
\* answered only when nothing but an input can move the run on: no call is open,
\* every input that is due was asked for, no model step is due ("once independent
\* work drains, the run reports awaiting_input").
AwaitingIsBlocked ==
  [][/\ ending' # "stuck"
     /\ pc = "verifyAwait" /\ journal'.status = "awaiting_input" =>
          /\ ~Uncertain(journal') /\ journal'.waiting # {}
          /\ journal'.waiting \cap journal'.results = {}
          /\ \A s \in Steps \ journal'.results :
               Deps[s] \subseteq journal'.results => s \in journal'.waiting]_vars

\* The journal is released, and so another run admitted, only after every task
\* of this one ended, whoever cancels it again meanwhile; and never more than
\* max_parallel callbacks run at a time.
WorkersAreOwned ==
  /\ pc \in Resting \cup {"detached"} => Live = {}
  /\ Cardinality(Live) <= MaxParallel

\* A result that was returned is saved, also when a sibling failed, the run was
\* cancelled or timed out: unless the sources are invalid or the process dies,
\* nothing is thrown away ("drain every ready result in plan order, even if a
\* sibling failed").
ReturnedIsKept ==
  [][\A s \in Models : task[s] = "returned" /\ task'[s] = "none" =>
       s \in journal'.results \/ row.status = "sources_invalid" \/ pc' = "dead"]_vars

\* Cancelled or out of time, every run ends: the verifier and the polls are under
\* the deadline and the drain only waits for tasks that were cancelled.
RunsEnd == pc \notin Resting ~> pc \in Resting

\* "FileNotFoundError and explicit false results invalidate the run": a row that
\* says sources_invalid never says anything else again.
InvalidIsFinal ==
  [][journal.status = "sources_invalid" => journal'.status = "sources_invalid"]_vars

-----------------------------------------------------------------------------
(* The promise to the application: see WorkflowContract.                    *)

Contract == INSTANCE WorkflowContract
  WITH Given <- Inputs, Before <- Deps, Limit <- [s \in Steps |-> 1],
       calls <- started, kept <- journal.results

\* However tasks, cancellations, crashes and later runs interleave: a model step
\* is called once, after everything it depends on, results are kept, and nothing
\* is called or kept again once the sources were found invalid.
KeepsContract == Contract!Spec
=============================================================================
