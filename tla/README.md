# ProjectScone in TLA+

This directory is the verification development of ProjectScone's memory package
(`src/packages/memory/src/scone_memory`, paths below are relative to it). It
models the parts of the program whose correctness depends on the order of steps
of several actors, on failures between steps and on what survives a crash; TLC
checks the models on small instances and TLAPS proves the safety results for every
value of the constants.

## The system

An application stores *sources* (texts, files, turns of a conversation) in a
*space* of the memory engine and later recalls from them. Around the engine run
services that import files and directories, agent workflows that read the
memory, and an HTTP API.

| Component | State it keeps | Operations | What is hard |
|---|---|---|---|
| Source lifecycle (`ingestion/batch.py`, `memory/retention.py`, `memory/engine.py`) | episodes, chunks, in-flight marks, tombstones, pending removals and revision in the document store; points in the vector index; attachment links in the blob store; the event log | `remember`, `remember_many`, `replace`, `forget`, `delete_space`, `recover`, `open` | four stores without a common transaction; every call may be refused, lose its answer, be cancelled or be cut by a crash; recovery resumes half-done work; callers interleave at every await |
| Workflow runner (`agents/workflow.py`) | one encrypted journal row for a run, its checkpoint rows, a file lock | `run`, `read_result`, `status`, `inspect_completed` | a step's callback has outside effects and must not be called twice; crash between saving the attempt, calling and saving the result; two processes; cancellation, deadline, retries, evidence that disappears |
| Workflow scheduler (`_execute_parallel` of the runner, for steps with declared dependencies) | the same row, plus the asyncio tasks of the running steps | admission, polls of inputs, collection, drain | state read before an await and used after it; several steps that end together, one of them failing; a second cancellation while the first one drains |
| Import service (`ingestion/import_service.py`, `import_store.py`) | a store of requests with a revision, an attempt count and an intent to cancel; an owner file lock and a workflow journal for each import; the process's asyncio tasks | `start`, `resume`, `cancel`, `result`, `aclose` | several processes change one request; the original is read between the check and the admission; cancel against finish; writes that fail between a record and the act it announces |
| Fact ledger (`memory/fact_placement.py`, `fact_review.py`) | facts with the days they hold on, restatements beside them, links, the decisions of people | assert, propose, approve, decline, reconsider, close, reopen | facts arrive in any order of their days and are cut, resumed and reopened long after; a placement is several writes |
| Consolidation (`ingestion/jobs.py`, `worker.py`, `distill.py`) | receipts of batches and their items; in memory the failures and the episodes that are done | submit by request id, cancel, passes of the worker and by hand, retry | passes side by side, each with a queue read before it awaits the model; read-modify-write of receipts from two processes; episodes that fail for ever |
| Directory runs (`ingestion/directory_service.py`, `directory_runs.py`) | run records, per-directory locks | start, resume, cancel | unfinished attempts of a dead owner |
| Agent runs (`agents/run_service.py`, `run_store.py`) | run requests, active tasks | start, resume, cancel, close | admission, drain |
| Interactive and hand-off workflows (`agents/*_workflow.py`, `input_store.py`) | requests for a person's answer | ask, respond, continue | answers racing continuation |
| Entities, deduplication (`entities/`, `deduplication/`) | none, reviews | project, review | computed from stored facts |
| Retrieval (`retrieval/`) | none | recall | ranking; numeric, no protocol |
| Realtime, pipeline, audio, telephony | sessions | turns | external services |
| Runtime, API, integrations, client | configuration | wiring | none of their own |

`PROJECT.json` lists every part with what is modelled of it, and the hazards,
each at its line.

## Modules

| Module | Models | Checked by |
|---|---|---|
| `SourceLedger` | what the engine promises about the life of one source | `LedgerSpec` of SourceLifecycle |
| `SourceLifecycle` | the operations on the four stores, one action per awaited call | `MC_SourceLifecycle`, three configurations |
| `SourceLifecycle_proofs` | `TypeOK` for every value of the constants | TLAPS |
| `SourceStores_proofs` | its other safety properties and the refinement, for callers that serialise whole calls, or at least commits | TLAPS |
| `WorkflowContract` | what a workflow promises to the application whose steps it calls | `KeepsContract` of WorkflowRunner and of WorkflowScheduler |
| `WorkflowRunner` | the sequential runner, its journal and file lock, several processes | `MC_WorkflowRunner`, one configuration |
| `WorkflowRunner_proofs` | its safety properties and the refinement, for every value of the constants | TLAPS |
| `WorkflowScheduler` | the scheduler of steps with dependencies, its tasks, its drain, and later runs over the same journal | `MC_WorkflowScheduler`, two configurations |
| `WorkflowScheduler_proofs` | its safety properties and the refinement, for every acyclic graph | TLAPS |
| `DocumentImports` | the service of background imports in several processes over one store | `MC_DocumentImports`, two configurations |
| `DocumentImports_proofs` | its safety properties, for every value of the constants | TLAPS |
| `FactTimeline` | what the ledger promises about one slot: a timeline | `FollowsTimeline` of FactLedger |
| `FactLedger` | placement, restatement, resumption and review of the facts of one slot | `MC_FactLedger`, three configurations |
| `FactLedger_proofs` | its safety properties but for the timeline's, and the shapes of its steps | TLAPS |
| `FactTimeline_proofs` | that its answers are what was last said, and the refinement | TLAPS |
| `Consolidation` | receipts of batches and the passes that read episodes into claims | `MC_Consolidation`, one configuration |
| `Consolidation_proofs` | its safety properties, for every value of the constants | TLAPS |

Each module stands for one component with what it calls. They meet where the
code does: DocumentImports begins and ends a run that WorkflowRunner describes,
WorkflowRunner and WorkflowScheduler implement one contract, and Consolidation
takes the episodes SourceLifecycle writes and forgets as single steps. In a module
an operator whose comment begins with "Mutant" is a plausible slip of the code beside
the definition it would replace; nothing uses it.

### SourceLifecycle

*State.* `rows`, `chunks`, `inflight`, `stones`, `intents`, `unbumped`,
`deleted` and the two counters are the document store; `vectors`, `links` and
`trail` are the vector index, the blob store and the event log. `op[a]` is what
task `a` holds between two awaits (the local variables of `write_batch`,
`_finish_forget`, ... and its place in them); `mode` says whether the engine is
serving, down after a crash, or inside `open()`.

*Actions.* One per awaited store call, in the order of the code: a write is
`Remember`, `Embedded`, then for each record `Mark`, `InsertEpisode`,
`InsertChunks`, `UpsertVectors`, `ClearMark`, and `BumpAfterWrite` and `Link` at
the end. When one of the calls between raises, `write_batch`'s handler runs:
`UndoEpisode`, `UndoVectors`, `UndoMark`. `Replace` and `Prepared` are the two
halves of `replace` around the embedder. A removal is `Revoke`, `RecordIntent`,
then the nine calls of `_finish_forget` from `CheckIntent` to `Acknowledge`, which
the recovery pass also runs. `DeleteSpace` to `PurgeEvents` is `delete_space`.
`Recover` to `Recovered` is the recovery pass.

*Faults.* `Refuse`: the call raises without effect. The second disjunct of
`Answer`: the call took effect and raises. `Cancel`: `CancelledError`, which no
handler of this code catches, between two calls. `Crash`: all tasks are gone and
the engine is down. Each configuration chooses kinds and a maximum number.

*Callers.* "The engine serializes source writes and recovery", says
`core/retirement.py:5`, but no lock in it does: it falls to the callers, as the
docstring of `recover` says of recovery (`memory/engine.py:343`) and that of `replace` of
commit phases. `Exclusion` is what they do: whole calls exclude each other
(`"call"`), only their commit phases do (`"commit"`), or nothing does.

*Ghosts.* `orphans` are the episodes whose insertion took effect and was never
answered, `unbumped` the arrivals and removals no revision bump followed.

*Abstraction.* A text is one chunk; a batch is a set of records with distinct
keys; the content hash and the dedup key are one key. `partial=True` is one batch
for each record and adds no behaviour. `expire` is a loop of `forget`.

### WorkflowRunner

*State.* `journal` is the committed row: the status, which steps have results,
the attempts of each and `inflight`. `state[o]` is runner `o`'s copy, `pc[o]` its
place, `lock` the file lock, `leases` and `receipts` the checkpoint leases in
memory and rows on disk. `started` counts the calls of each callback: it is the
outside world, and no crash takes it back.

*Actions.* `Run` and `ReadResult` take the lock; `Invalid`, `Outage`, `Verified`,
`Completed` and `ReadVerified` are the ends of the verifier at its four places;
`Settled` to `Exhausted` the decisions of the loop; `Attempt` saves the attempt,
`StartStep` calls the callback, `StepReturns`, `StepRaises` and `BadPayload` are
its ends. `Interrupt` is cancellation and the deadline at an await; `Abandon` is
the death of the process or a journal that cannot be written.

*Abstraction.* One run id with its one binding: a call with another binding
changes nothing. A result is there or not. A payload too large for the row
itself (`_save`) is not modelled. `status` and `inspect_completed` change
nothing.

### WorkflowScheduler

*State.* `journal` and `row` are the committed row and the coroutine's copy;
`pc`, `pass` and `ending` are where the coroutine of `_execute_parallel` is, its
place in the pass over the steps, and why it drains. `task[s]` is the asyncio
task of step `s`: created and not yet run, running, returned, failed. `leases`,
`receipts` and `started` are as in WorkflowRunner. `void` is a ghost: some
verification said invalid and that was saved; the contract needs it because the
row alone can lose that verdict (see the findings).

*Actions.* A step is what the coroutine does between two awaits, or up to its
next write to the journal. `Look` and `Recheck` are the two looks at a step
before and after its verification, `Admit` saves the attempt and creates the
task; `Poll` to `InputTooLarge` are `poll_input`; `Settle` decides at the end of
a pass between waiting for tasks, another pass, waiting for people, and giving
up; `Collect` and `Collected` take over what ended; `DrainPublish` and `DrainEnd`
are the `finally`. `TaskBegins`, `TaskEnds`, `TaskDropped` and `PutCheckpoint` are
the tasks' own steps, possible while the coroutine awaits. `Interrupt` is
cancellation or the deadline at an await, `InterruptDrain` the same during the
drain, where it is remembered and raised at the end. `Crash` may come anywhere.

*Abstraction.* The file lock admits one runner at a time, which WorkflowRunner
models; here runs follow one another. How asyncio's `wait_for` behaves when it is
cancelled twice depends on the Python version: `WaitFor` says which, and both
configurations have the newer one. What another owner of the journal would do beside a
detached drain is not modelled.

*Contract.* `Given` are the input steps, whose results people give; `Before` are
the dependencies, `Limit` is one call for each step.

### DocumentImports

*State.* `request` is the store: whether an import is registered, its revision,
its attempts and the intent to cancel it. `owner` is the process that holds the
file lock of an import, `journal` what its workflow journal says. `task` is
`_tasks` of each process; a task is created, running, stopping (cancelled while it
ran) or done (its `_finished` callback is due). `life` is the service; `call[c]` is
what caller `c` holds: its place and the request it read. `_admitting` is not a
variable: it counts the calls of `start` that are at or after the read of the
original.

*Actions.* A call starts after `_space` and runs without an interruption to its next
await, so in its process nothing steps in between (`Free`); but other processes
do between two of its accesses to the store or to a lock, and a step ends there.
`Start`, `Attached`, `Register` are `start`; `Resume` is `resume`; both go on with
`Claim` and `StartAttempt` (`_admit`). `Cancel`, `LockForCancel`, `RequestCancel` are
`cancel`, whose caller then waits at `"join"`. `TaskBegins` and `TaskEnds` are
`_execute`, `Finished` the callback, after which the callers that wait go on.
`Result` saves a verdict on the sources. `Close`, `Closed`, `Open` and `Crash` are
the life of a process; the operating system releases the locks of a dead one.

*Abstraction.* What a run does inside is WorkflowRunner; here it begins and ends.
An import has its one specification: a call with another changes nothing. Calls that
are refused before they change or lock anything take no step.

### FactLedger

*State.* `facts` are the rows of one slot (one subject and predicate): the object, the
days from and until which it holds, its status, the fact it names as its successor and
the reason of its end: a cut's, a person's, or a person's that reads like a cut's
(`alike`), for `truncate` tells them apart by their first word. `affirmations` are the
restatements kept beside a fact that already said the same, `now` is the day of the
last close by hand. `frayed` is a ghost: a reopening or a torn placement made two
facts hold.

*Actions.* On the embedded store no call of an operation suspends, so an operation
is one step. `Restate`, `AssertBounded`, `AssertResuming` are the three ends of
`assert_placed`, as `Covering`, `Restated`, `Successor` and `Resuming` (`place`)
choose: nothing new is held, the fact is placed between its neighbours, or the fact
it cuts had been stated again for a later day and resumes there. `Propose`,
`ApproveDuplicate`, `ApproveBounded`, `ApproveResuming`, `Decline`, `Reconsider`,
`CloseBounded`, `CloseResuming` and `Reopen` are the review. `TornResumption` is what
a crash leaves of a placement whose link insertion commits early (`LinkCommits`).

*Abstraction.* Days are numbers; confidence, quotes and origins do not decide where a
fact goes. What a claim rests on is another table: whether a restatement has links is
chosen where one would be inserted (`TornResumption`). Many-valued predicates hold
every object in a slot of its own. `exclude` and `include`, batches of reviews and the
graph of links are not modelled.

*Timeline.* `FactTimeline` says what was said of each day and until when; the ledger
is mapped to it by `ClaimOn`: a fact states its claim on its first day and on those of
its restatements, and has its end on the last of them. Every step of the ledger is
somebody telling a value from a day on, an end, an end taken back, or nothing.

### Consolidation

*State.* `stored` and `cited` are the episodes and those some claim names,
`job` and `items` the receipts (all in the SQLite file); `failures` and `done` are the
Distiller's memory; `pass[p]` is what `distill_pending` holds while it awaits the
model: the episode, the rest of the queue it read at its start, how many it sent;
`submission[c]` is the place of a call of `ingest_batch`, `console` the receipt that a
`cancel-job` of the command line, another process on the same file, has read.

*Actions.* `Submit`, `Land`, `Receipt` are `ingest_batch` around the embedder;
`Cancel` is `cancel_job` in the server, where nothing comes in between, `ConsoleReads`
and `ConsoleWrites` its two halves in another process. `Begin`, `Answer`, `Claim`,
`Fail`, `Finish` are `distill_pending` and `_attempt`: a pass skips what is parked,
takes the oldest episode, and for each claim awaits once. `TransportError` is an error
that is not the engine's own: it ends the reading without a count, and the pass goes
on to its report. `Report` is the end of a pass, where the event log takes the report;
`ReportFails` is that log refusing it, which ends the worker's loop (`"ended"`) and is
the answer of a pass by hand. `Retry` is `retry`, `Forget` and `Crash` what they say.

*Abstraction.* A model's answer is a number of claims or a refusal. Of what the worker
does after the reading, retention is `Forget`, an error of it that is no `SconeError` is
one with `ReportFails`, and the deriver is left out; so is the removal of the receipts of
a space by `delete_space`. A record told again after
it was forgotten is another episode and its batch is not followed.

## Runs

| Run | Question | Result |
|---|---|---|
| `SourceLifecycle_faults` | do refused calls, lost answers, cancelled tasks and crashes anywhere leave an incomplete source that no durable record points to? does `open` serve over unfinished work, a rolled back batch leave anything? is an acknowledged removal complete, a deleted space empty, are the stores together a `SourceLedger`? | holds |
| `SourceLifecycle_commit` | with two callers that serialise only commits, can `replace` bring back a forgotten source? does an engine with a backlog serve again after a crash? | no; yes |
| `SourceLifecycle_revived_space` | a write that outlives its space | finding |
| `WorkflowRunner` | two processes, a step of each kind, automatic retries and retries by a later run, a completion policy that may raise | holds |
| `WorkflowScheduler` | saves that raise, crashes, cancellation and deadline at every await and again in the drain: is a step called once and after its dependencies, is `awaiting_input` answered only when nothing else is due, does a callback outlive its run, is a returned result lost, does every run end? | holds |
| `WorkflowScheduler_overwritten` | is `sources_invalid` final? | finding |
| `DocumentImports` | two processes, two imports, writes that raise, crashes: do locks follow the work, is it within budget and capacity, does a cancellation hold in every process, does a stale control do anything? | holds |
| `DocumentImports_close` | is a caller that waits for a cancelled task answered, and does `aclose` end? | holds |
| `FactLedger` | told, approved, restated, closed and reopened in any order: does a day have one fact, is it what was last said of the day, do ends, successors and reasons agree, is every step one of the timeline? | holds |
| `FactLedger_reopened` | does a reopened fact hold alone? | finding |
| `FactLedger_torn` | is a placement written whole? | finding |
| `Consolidation` | the worker and a pass by hand side by side: do failures stay within the bound, does a receipt keep what it says, is every episode read, parked or forgotten in the end, as long as the worker lives? | holds |

*Bounds.* `SourceLifecycle_faults`: one caller and the recovery pass, two keys and up
to three episodes, so a key is written, forgotten and written again; batches of two,
so one record can fail after another succeeded; two faults of any kind, so a failure
hits the handling of another; a retirement limit of one against a backlog of two. Two
callers add no behaviour when whole calls exclude each other; so two concurrent
`remember`s of one source do not meet here (see below). The keys are interchangeable.
`SourceLifecycle_commit` has the two callers and liveness, so no symmetry, and one
key: what a replace races with is the same source. `WorkflowRunner`: a plain step, a
retryable one, an idempotent one that is not retryable, and one that the completion
policy makes unnecessary; the case without a policy is covered by the proofs alone;
two runners suffice because the lock lets one at a time touch the row. It needs no
bound: attempts are bounded by the code. `WorkflowScheduler`: the graph `Review`
declares a step before the input that unlocks it, has two independent steps that
compete with it for two places, a join and an input that is due late; `Siblings`, for
the finding, has three independent steps. A step is attempted once, so there is no
bound either. `DocumentImports`: two processes contend for the lock and the request of
an import; two imports contend for the one place of a process; of two callers one acts
between any two accesses of the other; two attempts, so that a request is read before
an attempt and used after it. Revisions are bounded by the attempts. Processes,
imports and callers are interchangeable; the run with liveness has one import and no
symmetry. `FactLedger`: four days, so that a fact is placed before, between and after
two others; three facts, so that a cut one has neighbours on both sides; two
restatements, of one fact or of two; one open proposal, which is approved after any of
the rest. A slot that frayed is not followed (`FollowFrayed`). It stops when its facts
are used up, so deadlock is not checked. `Consolidation`: two episodes and a limit of
one, so that one can starve the other; two attempts; two passes; two calls that submit
the same request; one event that happens rarely (a crash, an error outside the engine,
a refused report, a retry, a removal, a second submission under way, a read of the
console), enough for each of them against every interleaving of the rest.

*Fairness.* `SourceLifecycle_commit` assumes that `open()` is called again until it
serves and that a running pass keeps running; nothing is assumed of clients or faults,
whose number is bounded. `WorkflowRunner` assumes that a runner that is not waiting
computes and that `asyncio.wait_for` fires; callbacks and verifiers may hang (they
must propagate cancellation, as the class's docstring demands). `WorkflowScheduler`
assumes that the coroutine computes, that the deadline fires at every await outside
the drain, and that a cancelled callback ends, for the same reason.
`DocumentImports_close` assumes that a call does not wait between its awaits, that the
event loop serves its callbacks in order, so a due callback is not overtaken for ever,
and that a cancelled run ends; nothing of callers and of the runs themselves.
`Consolidation` assumes that the worker's loop goes on as long as it lives (once it
`"ended"` it takes no step before the process is started again), that a call of the
model answers or times out, and that the event log takes or refuses a report; nothing
of passes by hand, submissions or cancellations, and the answer may be a refusal every
time.

*Findings.* Four runs end in a violation, each of one property that quotes a
document, a comment or a test; `PROJECT.json` has the lines.

* `SourceLifecycle_revived_space`: a write that passed the check of its space before
  the embedder answered lands after `delete_space` and brings the space back.
* `WorkflowScheduler_overwritten`: `run()` saves its copy of the row under `cancelled`
  or `deadline` after the drain, also over `sources_invalid`.
* `FactLedger_reopened`: a fact closed by hand names no successor, so it is reopened
  whatever was told for a later day since, and two facts hold at once.
* `FactLedger_torn`: `insert_fact_link` of the SQLite store commits by itself, inside
  the transaction of a placement that resumes a claim with links.

### What the models do not hold

More claims are false in the models once their conditions are widened; the
configurations above stay inside the conditions under which they hold.

* `BatchWhole` speaks of a rollback that got past its deletions. Two refused
  calls, the second inside the rollback, leave half a batch, while
  `memory/engine.py:505` promises all or nothing whenever a store fails.
* An episode whose insert took effect unanswered is not among the `written` ones, so
  the handler leaves its row and clears its mark (`ingestion/batch.py:277`, `314`).
  `IncompleteIsCovered` and `OpenIsClean` exempt exactly these rows (`orphans`).
* Two writers of one source that nobody serialises (`Exclusion = "none"`):
  the second meets the unique index and its handler clears the mark of the first
  (`ingestion/batch.py:314`), so `OpenIsClean` fails. `core/retirement.py:5` says that
  the engine serialises source writes; nothing in it does, and no run is made of it.
* A deleted space may keep its vectors: `delete_space` erases the records and marks
  the deletion before it sweeps them (`memory/retention.py:380`), and a second
  call is answered with NotFound; `docs/http-and-deployment.md:34` gives another order.
* On Python 3.10 and 3.11 `asyncio.wait_for`, cancelled a second time, returns before
  what it wraps has ended. With `WaitFor = "detaches"` a callback may run on after the
  journal was released, against `WorkersAreOwned`. The package allows these versions
  (`pyproject.toml:10`), but no run has this value: the other properties of the
  configurations are about the newer `wait_for`.
* A `cancel-job` of the console reads a receipt and writes all of it back
  (`ingestion/jobs.py:137-146`): what the server marked as read, or counted, in between
  is undone, against "what has already been read stays read" of the same function.
  `ReceiptsOnlyGrow` exempts that one step by what it changes and shows that there is
  no other.
* `truncate` takes every reason that begins with "superseded " for its own
  (`memory/fact_placement.py:315`), and a person may give such a reason
  (`memory/fact_review.py:309`): the next cut overwrites it, against "A reason a person
  wrote is kept" of the same file (line 94). `PersonsReasonStays` exempts these reasons
  only when a cut names another fact in their place, and shows that all others stay.
* The event log is told of a pass outside every handler (`ingestion/worker.py:174`),
  and `expire` catches only the engine's own errors (158-161). Such an error leaves
  `run_once`, which promises "never raises, always records", and ends `_loop`, which
  waits for the next pass only; `start()` makes no other loop until `stop()` was
  called. That is against "a worker must not die on a transport hiccup" (136) and
  against the first line of `tests/ingestion/test_worker.py`. `RecordsSettle` exempts
  a worker that has ended and shows that nothing else keeps an episode from being
  read, parked or forgotten.
* A receipt need not ever say that its batch was read: a crash, or a claim that is
  refused, after the first claim of an episode leaves it cited and so no longer
  pending, and a receipt may be made after its episodes were read. `RecordsSettle`
  therefore speaks of episodes, not of receipts.
* Passes that run side by side may read an episode twice, and a queue read before a
  removal still sends the forgotten episode to the model; its claims are refused.

## Proofs

Every invariant, action property and refinement of the passing runs is a theorem
here, so it holds for every value of the constants that the assumptions allow. Two
results need a hypothesis on how the program is used, and state it.

`SourceLifecycle_proofs` proves `Spec => []TypeOK` from `ConstantsAssumption`: the
values that travel between the stores and the tasks' locals keep their types
through every handler, fault and recovery.

`SourceStores_proofs` builds on it. `IncompleteCovered`, `ForgottenErased`,
`DeletedEmpty`, `BatchesWhole`, `OpensClean` and the refinement `LedgerKept` are
proved for `Exclusion = "call"` (`WholeCalls`), the serialisation that
`core/retirement.py` claims and that callers have to provide; without it a second
writer can clear the mark of the first and a write can outlive its space (see above).
None is inductive. The strengthening `SourceInv` has, beside the types, three parts:

* `Alone`: at most one task is between two awaits;
* `StoresAgree`, what the stores say together whoever asks: ids are below the
  counters, a key names one row, chunk ids are not shared, the points of a stored
  source belong to its chunks, a pending removal lists every chunk and point of its
  source and none of another's (so the retry after a crash deletes what the first
  attempt would have), a tombstone stands for an erased source, and a tombstone
  without a pending removal was told to the readers' revision and to the trail;
* `TasksKnow`, what the one active task knows at each place in the code: a batch, that
  what it wrote is whole but for the episode in hand; its handler, that what it took
  back is gone; a removal, that what its earlier steps did still holds; the recovery
  pass, that no removal is pending and which chunks or vectors are missing.

TLC checked `SourceInv` with the constants of `SourceLifecycle_faults` before it was
proved. Steps on the stores have few shapes (`Notes`, `AddsEpisode`, `AddsChunk`,
`AddsPoints`, `Withdraws`, `DropsPoints`); each has one lemma on `StoresAgree`, and a
lemma for each action, with the faults that can befall it, adds what its task knows.
`OpensClean` reads off what the recovery pass knows when it ends. `LedgerKept` follows
the stage of each source: a step leaves all stages (`StagesStay`), moves one
(`StageMoves`), or ends the space (`StagesEnd`).

`ReplacesReviveNothing` needs less of the callers: that they serialise at least the
commit phases (`Exclusion # "none"`), and may prepare side by side. It rests on
`OneCommits`, at most one task commits, and on `AllSeen`: of the tombstones of its key
a replace that commits has seen each, or it stands for a source whose row it saw. The
seen sets are what the code compares before it commits; that nothing changes between
the comparison and the last write is what `OneCommits` is for.

`WorkflowRunner_proofs` proves from `RunnerAssumption` alone:

* `BoundedCalls`: a step is called at most `Maximum(s)` times;
* `InflightCorrect`: `inflight` is the step whose outcome is open;
* `CompletedWhole`: a completed row is whole;
* `CurrentCheckpoints`: only the attempt that is running now stores a checkpoint;
* `ContractKept`: `Spec => Contract!Spec`, the refinement.

None of these is inductive. The strengthening `Inv` says that a runner that
runs holds the lock and that its copy is the committed row (so the guards it
evaluates are about the journal); that calls are at most attempts and attempts
within their bound, strictly less calls than attempts between `Attempt` and
`StartStep`; that steps were tried in order, so that a step with an open outcome
is the next one (`NextIsUnique` then shows that an attempt never opens a second
outcome); and that a lease is the current one. Each action has a lemma; actions
that only end a run on an error share `EndKeeps`, those that only move on share
`GotoKeeps`. The refinement follows from `Inv`: `StartStep` is `Call`,
`StepReturns` is `Keep`, `Invalid` is `Invalidate`, everything else a stutter.

`WorkflowScheduler_proofs` proves from `SchedulerAssumption` (a validated graph, which
is acyclic) its types, `ReturnedKept`, `AwaitingBlocked`, `OwnedWorkers` and the
refinement `ContractKept`. The invariant:

* the coroutine's copy and the journal are the same until a save raises, and then the
  copy says exactly what could not be written (`Copied`); this is what lets a guard on
  the copy speak of the journal, and what the drain relies on;
* a callback is called after its attempt was saved, and what a run that goes on has
  attempted has a result or a task (`Attempted`), so no step is called twice;
* a step with a task is not done and its dependencies are (`Tasked`);
* after a verdict on the sources nothing goes on, though the verdict itself may be
  overwritten: what is left then is an attempt whose outcome will never be known
  (`Voided`);
* what a pass over the steps went by is not due, has a task, waits for its input, found
  no place or became due afterwards (`WentBy`). With acyclicity this gives
  `AwaitingBlocked`: a pass that starts nothing has found every step that is not done
  behind an input, so `awaiting_input` is not answered while a step could run.

`OwnedWorkers` and `ContractKept` are proved for `WaitFor = "waits"`, the
`asyncio.wait_for` of Python 3.12; with that of 3.10 and 3.11 the drain may leave a
callback behind, and neither holds.

`DocumentImports_proofs` proves from `ImportsAssumption` all safety properties
of the run `DocumentImports`, and that a start keeps the place it reserved
(`StartsArePlaced`). The strengthening has two parts:

* `Inv`: of the calls of one process at most one is between two awaits (`Alone`);
  a call between its lock and its write owns the import, and one that is about to
  record an attempt found no task of it (`Known`); the revision a call has read
  is at most the stored one, and if it is the stored one so is the attempt count.
  So a lock is never given away under a task, an attempt is counted against the
  request it was admitted for, and the task that a stored cancellation concerns
  can only be this process's own, which the same step stops. `CallStays` and
  `CallsStay` carry the calls that do not move; `HolderReturns` gives a lock back.
* `RoomInv`, on top of it: a call that is past the count has room for its task until
  it returns, since whoever else takes a place needs the process for itself. A start
  makes that room when it leaves the ones that read their original.

`FactLedger_proofs` proves from `LedgerAssumption` that the ledger keeps its types,
that no day has two facts until the slot frays (`HeldOnceUntilFrayed`), that a fact
that names a successor ends where that one begins (`SupersedingIsTrue`), and that a
person's reason outlives every later cut, but for one that reads like a cut's, which is
lost only to a cut that names another fact (`ReasonStays`). The inductive
invariant adds to them that no fact ends before it begins (`WellFormed`), that an
active fact names no successor (`ActiveIsUnnamed`), and `Ordered`: until the slot
frays, of two facts the one that begins first ends before the other begins, and of two
that begin on one day one is over at once. `Ordered` says more than that they do not
overlap: a new fact that is bounded by the first fact after its day, and cuts what
covers that day, fits in between only if all the others are already on one side of
it. `SupersededIsTrue` is carried along because an end and the fact it names only ever
change together.

`FactTimeline_proofs` proves that the ledger answers for a day what was last said of
it (`AnswersTold`) and that every step is one of the timeline (`LedgerFollows`), until
the slot frays. On top of the ledger's invariant `SlotInv` says what a mention is: a day
on which a fact begins was said something of (`BeginningsAreSaid`: a fact that ends on
the day it begins was ended by a person, or another fact of that day took its place),
and a restatement lies inside the fact it restates (`RepeatsAreInside`), for else a cut
would leave it behind as a mention of what no longer holds. `FactLedger_proofs` gives
each write of the ledger a shape (a bounded or resuming placement, told, approved or
left by a close; a restatement; a reopening; a step that leaves the ledger alone), and
each shape has one lemma that computes the answers after it from those before. The
least and the greatest day of a set come from the library's well-founded induction.
`LedgerAssumption` asks that the value for "no object" is no object and no claim: the
ledger has no such values, they only stand for an absent row and an empty answer.

`Consolidation_proofs` proves its three safety properties from
`ConsolidationAssumption`. A failure is counted when the model has answered, and
whether the episode was parked was seen when it was taken, so `AttemptsAreBounded` is
not inductive; the strengthening `Booked` counts for each episode the passes that hold
it and says that its failures and those passes together stay below
`MaxAttempts + Cardinality(Passes)`: a pass that takes the episode saw fewer than
`MaxAttempts` failures, and one that counts a failure leaves it.
`ReceiptsGrow` needs that a receipt that was not made says nothing (`Blank`): the
items are written only where there is a receipt, and a request gets one once.

Model-checked only: liveness (`Reopens`, `RunsEnd` of both workflow modules,
`CallsAreAnswered`, `RecordsSettle`), which is out of the prover's reach, and the four
violations of the findings, which are counterexamples.

## Not modelled

The other backends implement the same ports against external services. Retrieval,
chunking, parsing of formats, entities and deduplication compute: their difficulty
is numeric or textual, and they have no order of steps to get wrong. The HTTP API, the
runtime, the adapters and the client validate and delegate. The voice pipeline,
audio and telephony move frames between external services. `PROJECT.json` has the
reason for each part. A reader that is fenced by a space's revision is not modelled
either, so nothing is said of a source that becomes findable in the recovery pass,
which bumps no revision (`ingestion/batch.py:372`).

## Plan

1. *Write batches with two callers*: which parts of `StoresAgree` survive when only
   the commit phases exclude each other, beyond `ReplacesReviveNothing`.
2. *Directory runs* and their store.
3. *Agent run service*: admission, resume, drain; composed with WorkflowContract.
4. *Interactive workflow*: answers and continuations.
