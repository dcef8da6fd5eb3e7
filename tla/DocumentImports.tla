-------------------------- MODULE DocumentImports ---------------------------
(***************************************************************************)
(* The service that runs document imports in the background, in several     *)
(* processes over one directory: a store of requests with a revision each,  *)
(* one owner file lock and one workflow journal for each import, and in     *)
(* each process the asyncio tasks that execute imports.                     *)
(*                                                                          *)
(* A call runs without interruption from one await to the next, so no other *)
(* coroutine of its process steps in between; other processes may, between  *)
(* two of its accesses to the store or to a lock.  A step of this module    *)
(* goes up to the next await or the next such access.                       *)
(***************************************************************************)
EXTENDS Naturals, FiniteSets

CONSTANTS Services,     \* processes that each run one DocumentImportService
          Imports,      \* (space, import_id), each with its one specification
          None,         \* no service and no import: a free lock, an idle caller
          Callers,      \* concurrent callers of the services
          MaxActive,    \* max_active
          MaxAttempts,  \* max_attempts of the specifications
          Faults        \* "store": a write raises, done or not; "crash": a process dies

ASSUME ImportsAssumption ==
  /\ None \notin Services /\ None \notin Imports
  /\ IsFiniteSet(Imports) /\ IsFiniteSet(Callers)
  /\ MaxActive \in Nat \ {0} /\ MaxAttempts \in Nat \ {0}
  /\ Faults \subseteq {"store", "crash"}

VARIABLES request,   \* DocumentImportStore: the request of each import
          journal,   \* what the workflow journal of each import says; "open" is no row
                     \* yet or any status that a resume goes on from, "outage" that of a
                     \* run whose sources, complete or not, could not be verified
          owner,     \* the process that holds the owner lock of each import
          life,      \* whether each service is open, closing, or closed or dead ("down")
          task,      \* _tasks: the asyncio task of each import in each service
          call       \* what each caller is in the middle of

vars == <<request, journal, owner, life, task, call>>

-----------------------------------------------------------------------------
Absent == [registered |-> FALSE, revision |-> 0, attempt |-> 0, cancelled |-> FALSE]

Idle == [pc |-> "idle", op |-> "none", service |-> None, import |-> None,
         request |-> Absent]

\* "stopping" was cancelled while it ran; "done" waits for its _finished callback.
Live  == {"created", "running"}
Tasks(s) == {i \in Imports : task[s][i] # "none"}

\* Inside a call no other coroutine of the process runs.
SyncPcs == {"register", "claim", "attempt", "lock", "cancel"}
Free(s) == \A c \in Callers : call[c].pc \in SyncPcs => call[c].service # s

\* _admitting: starts that reserved a place and are not admitted yet.
Admitting(s) ==
  {c \in Callers : call[c].pc \in {"attachment", "register"} /\ call[c].service = s}

Full(s) == Cardinality(Tasks(s)) + Cardinality(Admitting(s)) >= MaxActive

Init ==
  /\ request = [i \in Imports |-> Absent]
  /\ journal = [i \in Imports |-> "open"]
  /\ owner = [i \in Imports |-> None]
  /\ life = [s \in Services |-> "open"]
  /\ task = [s \in Services |-> [i \in Imports |-> "none"]]
  /\ call = [c \in Callers |-> Idle]

-----------------------------------------------------------------------------
(* Control.                                                                 *)

Goto(c, pc) == call' = [call EXCEPT ![c].pc = pc]

Return(c) == call' = [call EXCEPT ![c] = Idle]

\* The request that was read is not used any more.
Join(c) == call' = [call EXCEPT ![c].pc = "join", ![c].request = Absent]

\* _available, after the space was looked up.
Begins(c, s) == call[c].pc = "idle" /\ life[s] = "open" /\ Free(s)

Begin(c, s, i, op, pc) ==
  call' = [call EXCEPT ![c] = [pc |-> pc, op |-> op, service |-> s, import |-> i,
                               request |-> request[i]]]

Release(i) == owner' = [owner EXCEPT ![i] = None]

\* Mutant of Cancelled: a task that has not begun is not stopped.
CancelledRunning(t) == IF t = "running" THEN "stopping" ELSE t

\* Cancelled before it first ran a task ends without a step.
Cancelled(t) == IF t = "running" THEN "stopping" ELSE IF t = "created" THEN "done" ELSE t

\* A write of the store: done, or it raises and may have been done all the same.
Written(i, new) == request' = [request EXCEPT ![i] = new]
Raises(i, new) == "store" \in Faults /\ (UNCHANGED request \/ Written(i, new))

-----------------------------------------------------------------------------
(* start.                                                                   *)

\* An import that is registered is only reported; a service that is full refuses.
Start(c, s, i) ==
  /\ Begins(c, s)
  /\ ~request[i].registered /\ ~Full(s)
  /\ Begin(c, s, i, "start", "attachment")
  /\ UNCHANGED <<request, journal, owner, life, task>>

\* The original was read, or is not there, or the guard refuses, or the service
\* closed meanwhile.
Attached(c) ==
  /\ call[c].pc = "attachment" /\ Free(call[c].service)
  /\ \/ life[call[c].service] = "open" /\ Goto(c, "register")
     \/ Return(c)
  /\ UNCHANGED <<request, journal, owner, life, task>>

\* Registered by another process or caller it may have run already.
Register(c) ==
  LET i == call[c].import
      found == request[i]
      new == [Absent EXCEPT !.registered = TRUE]
  IN
  /\ call[c].pc = "register"
  /\ \/ /\ found.registered
        /\ IF found.attempt > 0 \/ found.cancelled THEN Return(c)
           ELSE call' = [call EXCEPT ![c].pc = "claim", ![c].request = found]
        /\ UNCHANGED request
     \/ /\ ~found.registered /\ Written(i, new)
        /\ call' = [call EXCEPT ![c].pc = "claim", ![c].request = new]
     \/ ~found.registered /\ Raises(i, new) /\ Return(c)
  /\ UNCHANGED <<journal, owner, life, task>>

-----------------------------------------------------------------------------
(* resume, and _admit for both.                                             *)

\* A completed import is only read.  One whose sources are invalid is refused, unless
\* it counts as cancelled: a cancellation was asked for and no task of s has it.
Resume(c, s, i) ==
  /\ Begins(c, s)
  /\ request[i].registered /\ journal[i] # "completed"
  /\ journal[i] = "invalid" => request[i].cancelled /\ task[s][i] = "none"
  /\ Begin(c, s, i, "resume", "claim")
  /\ UNCHANGED <<request, journal, owner, life, task>>

\* Mutant of Admissible: places that starts reserved are not counted.
AdmissibleByTasks(c, s, i) ==
  /\ task[s][i] = "none" /\ Cardinality(Tasks(s)) < MaxActive
  /\ call[c].request.attempt < MaxAttempts
  /\ owner[i] = None

\* Mutant of Admissible: the owner lock is not looked at.
AdmissibleUnlocked(c, s, i) ==
  /\ task[s][i] = "none" /\ ~Full(s)
  /\ call[c].request.attempt < MaxAttempts

Admissible(c, s, i) ==
  /\ task[s][i] = "none" /\ ~Full(s)
  /\ call[c].request.attempt < MaxAttempts
  /\ owner[i] = None

Claim(c) ==
  LET s == call[c].service
      i == call[c].import
  IN
  /\ call[c].pc = "claim"
  /\ \/ Admissible(c, s, i) /\ owner' = [owner EXCEPT ![i] = s] /\ Goto(c, "attempt")
     \/ ~Admissible(c, s, i) /\ Return(c) /\ UNCHANGED owner
  /\ UNCHANGED <<request, journal, life, task>>

\* Mutant of MayStart: the revision is not compared.
MayStartAnyway(c) ==
  LET found == request[call[c].import] IN
  call[c].op = "resume" \/ (found.attempt = 0 /\ ~found.cancelled)

\* start_attempt: the revision is the one read, and an import that was tried or
\* cancelled is only run again by resume.
MayStart(c) ==
  LET found == request[call[c].import] IN
  /\ found.revision = call[c].request.revision
  /\ call[c].op = "resume" \/ (found.attempt = 0 /\ ~found.cancelled)

\* Mutant of Attempted: the revision is not raised.
AttemptedOnly(found) == [found EXCEPT !.attempt = @ + 1, !.cancelled = FALSE]

Attempted(found) ==
  [found EXCEPT !.revision = @ + 1, !.attempt = @ + 1, !.cancelled = FALSE]

\* The attempt is on disk before the task exists; whatever raises, the workflow
\* not opening included, gives the lock back.
StartAttempt(c) ==
  LET s == call[c].service
      i == call[c].import
  IN
  /\ call[c].pc = "attempt"
  /\ \/ /\ MayStart(c) /\ Written(i, Attempted(request[i]))
        /\ task' = [task EXCEPT ![s][i] = "created"]
        /\ UNCHANGED owner
     \/ /\ \/ UNCHANGED request
           \/ MayStart(c) /\ Raises(i, Attempted(request[i]))
        /\ Release(i) /\ UNCHANGED task
  /\ Return(c)
  /\ UNCHANGED <<journal, life>>

-----------------------------------------------------------------------------
(* cancel.                                                                  *)

Cancel(c, s, i) ==
  /\ Begins(c, s)
  /\ request[i].registered
  /\ Begin(c, s, i, "cancel", "lock")
  /\ UNCHANGED <<request, journal, owner, life, task>>

\* Mutant of LockForCancel: an import that no task here executes is not claimed.
LockNothing(c) ==
  LET i == call[c].import IN
  /\ call[c].pc = "lock"
  /\ IF journal[i] = "completed" THEN Return(c) ELSE Goto(c, "cancel")
  /\ UNCHANGED <<request, journal, owner, life, task>>

\* No one else may execute the import: this service does, or it takes the lock.
\* A completed import is only reported.
LockForCancel(c) ==
  LET s == call[c].service
      i == call[c].import
      mine == task[s][i] # "none"
  IN
  /\ call[c].pc = "lock"
  /\ IF journal[i] = "completed" \/ (~mine /\ owner[i] # None)
       THEN Return(c) /\ UNCHANGED owner
       ELSE /\ Goto(c, "cancel")
            /\ owner' = IF mine THEN owner ELSE [owner EXCEPT ![i] = s]
  /\ UNCHANGED <<request, journal, life, task>>

\* Mutant of StopTask: a task is stopped only when the intent was stored.
StopStored(c) == request'[call[c].import].cancelled

\* The task is cancelled also when the intent cannot be stored.
StopTask(c) == TRUE

\* Mutant of Current: whatever the revision is, the request is cancelled.
Registered(c) == request[call[c].import].registered

Current(c) == request[call[c].import].revision = call[c].request.revision

\* Mutant of GiveBack: the lock stays when the revision was stale.
GiveBackCurrent(c) == IF Current(c) THEN Release(call[c].import) ELSE UNCHANGED owner

GiveBack(c) == Release(call[c].import)

\* request_cancel.
StoreIntent(c) ==
  LET i == call[c].import
      new == [request[i] EXCEPT !.revision = @ + 1, !.cancelled = TRUE]
  IN
  IF Current(c) /\ ~request[i].cancelled
    THEN Written(i, new) \/ Raises(i, new)
    ELSE UNCHANGED request

\* Without a task here the caller gives the lock back; otherwise it stops the
\* task and waits for it, unless its revision is stale.
RequestCancel(c) ==
  LET s == call[c].service
      i == call[c].import
  IN
  /\ call[c].pc = "cancel"
  /\ StoreIntent(c)
  /\ \/ task[s][i] = "none" /\ GiveBack(c) /\ Return(c) /\ UNCHANGED task
     \/ /\ task[s][i] # "none" /\ ~Current(c)
        /\ Return(c) /\ UNCHANGED <<owner, task>>
     \/ /\ task[s][i] # "none" /\ Current(c)
        /\ task' = IF StopTask(c) THEN [task EXCEPT ![s][i] = Cancelled(@)] ELSE task
        /\ Join(c) /\ UNCHANGED owner
  /\ UNCHANGED <<journal, life>>

-----------------------------------------------------------------------------
(* _execute and _finished.                                                  *)

TaskBegins(s, i) ==
  /\ Free(s)
  /\ task[s][i] = "created"
  /\ task' = [task EXCEPT ![s][i] = "running"]
  /\ UNCHANGED <<request, journal, owner, life, call>>

\* The run ends, cancelled or not: see WorkflowRunner for what it does.
TaskEnds(s, i) ==
  /\ Free(s)
  /\ task[s][i] \in {"running", "stopping"}
  /\ task' = [task EXCEPT ![s][i] = "done"]
  /\ \E says \in {"open", "outage", "completed", "invalid"} :
       /\ journal[i] = "invalid" => says = "invalid"
       /\ journal' = [journal EXCEPT ![i] = says]
  /\ UNCHANGED <<request, owner, life, call>>

Joined(s, i) ==
  {c \in Callers : call[c].pc = "join" /\ call[c].service = s /\ call[c].import = i}

\* The done callback gives the lock back; then the callers that wait go on.
Finished(s, i) ==
  /\ Free(s)
  /\ task[s][i] = "done"
  /\ task' = [task EXCEPT ![s][i] = "none"]
  /\ Release(i)
  /\ call' = [c \in Callers |-> IF c \in Joined(s, i) THEN Idle ELSE call[c]]
  /\ UNCHANGED <<request, journal, life>>

\* result, and resume of a completed import: read_result verifies the evidence
\* under the journal's own lock and saves the verdict.
Result(s, i) ==
  /\ Free(s) /\ life[s] = "open"
  /\ request[i].registered
  /\ \A t \in Services : task[t][i] \notin {"running", "stopping"}
  /\ task[s][i] = "none"
  /\ journal[i] \in {"completed", "outage"}
  /\ \E says \in {"outage", "completed", "invalid"} :
       journal' = [journal EXCEPT ![i] = says]
  /\ UNCHANGED <<request, owner, life, task, call>>

-----------------------------------------------------------------------------
(* aclose, restarts and crashes.                                            *)

Close(s) ==
  /\ life[s] = "open" /\ Free(s)
  /\ life' = [life EXCEPT ![s] = "closing"]
  /\ task' = [task EXCEPT ![s] = [i \in Imports |-> Cancelled(@[i])]]
  /\ UNCHANGED <<request, journal, owner, call>>

\* Every task was joined.
Closed(s) ==
  /\ life[s] = "closing" /\ Free(s)
  /\ Tasks(s) = {}
  /\ life' = [life EXCEPT ![s] = "down"]
  /\ UNCHANGED <<request, journal, owner, task, call>>

\* A service on the same directory replays nothing.
Open(s) ==
  /\ life[s] = "down"
  /\ \A c \in Callers : call[c].service # s
  /\ life' = [life EXCEPT ![s] = "open"]
  /\ UNCHANGED <<request, journal, owner, task, call>>

Crash(s) ==
  /\ "crash" \in Faults /\ life[s] # "down"
  /\ life' = [life EXCEPT ![s] = "down"]
  /\ task' = [task EXCEPT ![s] = [i \in Imports |-> "none"]]
  /\ owner' = [i \in Imports |-> IF owner[i] = s THEN None ELSE owner[i]]
  /\ call' = [c \in Callers |->
                IF call[c].service = s THEN Idle ELSE call[c]]
  /\ UNCHANGED <<request, journal>>

-----------------------------------------------------------------------------
CallStep(c) ==
  \/ \E s \in Services, i \in Imports : Start(c, s, i) \/ Resume(c, s, i) \/ Cancel(c, s, i)
  \/ Attached(c) \/ Register(c) \/ Claim(c) \/ StartAttempt(c)
  \/ LockForCancel(c) \/ RequestCancel(c)

TaskStep(s, i) == TaskBegins(s, i) \/ TaskEnds(s, i) \/ Finished(s, i)

Next ==
  \/ \E c \in Callers : CallStep(c)
  \/ \E s \in Services, i \in Imports : TaskStep(s, i) \/ Result(s, i)
  \/ \E s \in Services : Close(s) \/ Closed(s) \/ Open(s) \/ Crash(s)

Spec == Init /\ [][Next]_vars

\* Inside a call the code does not wait.  Between calls the event loop serves its
\* callbacks in order; a run that was cancelled ends.
Fairness ==
  /\ \A c \in Callers :
       WF_vars(Register(c) \/ Claim(c) \/ StartAttempt(c)
               \/ LockForCancel(c) \/ RequestCancel(c))
  /\ \A s \in Services :
       /\ SF_vars(Closed(s))
       /\ \A i \in Imports :
            /\ SF_vars(task[s][i] = "stopping" /\ TaskEnds(s, i))
            /\ SF_vars(Finished(s, i))

FairSpec == Spec /\ Fairness

-----------------------------------------------------------------------------
(* Properties; the quotations are from docs/file-ingestion.md.              *)

RequestType == [registered : BOOLEAN, revision : Nat, attempt : Nat, cancelled : BOOLEAN]

CallType == [pc : SyncPcs \cup {"idle", "attachment", "join"},
             op : {"none", "start", "resume", "cancel"},
             service : Services \cup {None}, import : Imports \cup {None},
             request : RequestType]

\* The type invariant, with DocumentImportRequest.valid: a revision is never
\* below the number of attempts.
TypeOK ==
  /\ request \in [Imports -> RequestType]
  /\ journal \in [Imports -> {"open", "outage", "completed", "invalid"}]
  /\ owner \in [Imports -> Services \cup {None}]
  /\ life \in [Services -> {"open", "closing", "down"}]
  /\ task \in [Services -> [Imports -> Live \cup {"none", "stopping", "done"}]]
  /\ call \in [Callers -> CallType]
  /\ \A i \in Imports : request[i].attempt <= request[i].revision

\* An import is executed only by the process that holds its owner lock, so never
\* by two: "A per-job local file lock prevents simultaneous execution by another
\* process."
ExecutionIsOwned ==
  \A s \in Services, i \in Imports : task[s][i] # "none" => owner[i] = s

\* No lock leaks: a process holds one for a task or inside a call that is about
\* to use it, whichever of its steps was refused, stale or failed.
LockIsUsed ==
  \A i \in Imports :
    \/ owner[i] = None
    \/ task[owner[i]][i] # "none"
    \/ \E c \in Callers : /\ call[c].pc \in {"attempt", "cancel"}
                          /\ call[c].service = owner[i] /\ call[c].import = i

\* The owner locks follow the work: an import that is executed is locked by the
\* process that executes it, and none stays locked without a use, through every
\* interleaving, refusal, failed write and crash.
LocksFollowWork == ExecutionIsOwned /\ LockIsUsed

\* An import is admitted at most max_attempts times by all processes together,
\* attempts whose record was lost to the caller included: "within the saved
\* attempt budget (1-4 total admissions)."
BudgetIsKept == \A i \in Imports : request[i].attempt <= MaxAttempts

\* "Capacity is bounded per service, including pending original reads before
\* execution."
CapacityIsKept ==
  \A s \in Services : Cardinality(Tasks(s)) + Cardinality(Admitting(s)) <= MaxActive

\* An import whose stored intent is to be cancelled is executed nowhere: every
\* task of it was told to stop, in whichever process it runs.
CancelHolds ==
  \A s \in Services, i \in Imports : request[i].cancelled => task[s][i] \notin Live

\* A call goes by a request that was changed since it read it.
Stale(c) == request[call[c].import].revision # call[c].request.revision

\* "Cancellation stops owned work even if writing its intent fails": after a
\* cancel of the current revision no task of this service goes on.
CancelStops ==
  [][\A c \in Callers :
       RequestCancel(c) /\ ~Stale(c) =>
         task'[call[c].service][call[c].import] \notin Live]_vars

\* "stale controls cannot affect newer attempts": a cancel that was given another
\* revision stops nothing and stores nothing, and a start or resume that read
\* another one makes no attempt.
StaleControlsMiss ==
  [][\A c \in Callers :
       call[c].pc \in {"attempt", "cancel"} /\ Stale(c) /\ call'[c] # call[c]
         => /\ request'[call[c].import] = request[call[c].import]
            /\ \A s \in Services :
                 life'[s] = "down" \/ task'[s][call[c].import] = task[s][call[c].import]]_vars

\* A start that reserved its place before it read the original is not refused for
\* capacity afterwards, and finds no task of its import in this service.
StartsKeepTheirPlace ==
  [][\A c \in Callers :
       Claim(c) /\ call[c].op = "start" =>
         \/ call'[c].pc = "attempt"
         \/ owner[call[c].import] # None
         \/ task[call[c].service][call[c].import] # "none"]_vars

\* A caller that waits for the task it cancelled is answered, and "aclose cancels
\* and joins owned work", whatever else was under way.
CancelReturns ==
  \A c \in Callers : call[c].pc = "join" ~> call[c].pc = "idle"
CloseEnds == \A s \in Services : life[s] = "closing" ~> life[s] # "closing"
CallsAreAnswered == CancelReturns /\ CloseEnds
=============================================================================
