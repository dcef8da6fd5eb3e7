----------------------- MODULE WorkflowScheduler_proofs -----------------------
(***************************************************************************)
(* For every acyclic graph of steps, every limit on running steps and every *)
(* choice of faults: the scheduler keeps WorkflowContract, its callbacks     *)
(* do not outlive the run, no returned result is lost, and it waits for      *)
(* people only when nothing else is left to do.  That a run owns its         *)
(* callbacks depends on how asyncio.wait_for answers a second cancellation;  *)
(* where the proofs need it, they say so.                                    *)
(***************************************************************************)
EXTENDS WorkflowScheduler, FiniteSetTheorems, TLAPS

Waits == WaitFor = "waits"

-----------------------------------------------------------------------------
(* The inductive invariant.                                                 *)

\* The coroutine holds an exact copy of the committed row.
Main == Awaiting \cup {"scan", "collect"}

\* The sources were verified and the run goes on.
UnderWay == Main \ {"verifyStart", "verifyRead"}

\* A pass over the steps is under way.
Passing == {"scan", "verifyStep", "poll", "verifyPoll"}

IsInvalid(r) == r.status = "sources_invalid"

\* A run leaves no task, no lease and no debt behind.
AtRest ==
  pc \in Resting =>
    row = Absent /\ pass = FirstPass /\ ending = "raised" /\ leases = {} /\ Active = {}

\* The row is created by the first run, and stays.
Created ==
  /\ journal.status = "absent" => journal = Absent
  /\ pc \notin Resting => "absent" \notin {journal.status, row.status}

\* What run() starts with.
AtStart == pc \in {"verifyStart", "verifyRead"} => Active = {} /\ pass.polled = {}

\* The copy and the committed row: they are the same until a save raised, and
\* then the copy says what could not be saved.
Copied ==
  /\ pc \in Main \cup {"clear"} => row = journal
  /\ pc \in Main => ~IsInvalid(row)
  /\ pc \in Main \cup {"clear"} => ending = "raised"
  /\ pc \notin Resting =>
       /\ journal.attempts \subseteq row.attempts /\ Active \subseteq row.attempts
       /\ ~IsInvalid(row) => row.results = journal.results /\ ~IsInvalid(journal)

\* A callback is called after its attempt was saved, and what a run that goes on
\* has attempted has a result or a task.
Attempted ==
  /\ \A s \in Models : started[s] > 0 => s \in journal.attempts
  /\ pc \in UnderWay => row.attempts \subseteq row.results \cup Active

\* What is known of the steps that have a task.
Tasked ==
  /\ Cardinality(Active) <= MaxParallel
  /\ \A s \in Active :
       /\ task[s] = "created" => started[s] = 0
       /\ task[s] \in {"running", "returned"} => started[s] > 0
       /\ ~IsInvalid(row) /\ pc # "detached" =>
            s \notin row.results /\ Deps[s] \subseteq row.results

\* After a verdict on the sources was saved nothing goes on: either the row still
\* says it, or it names an attempt whose outcome will never be known.
Voided ==
  Waits =>
    /\ void =>
         /\ pc \notin UnderWay
         /\ journal.results = {} /\ (IsInvalid(journal) \/ journal.attempts # {})
         /\ IsInvalid(row) \/ Active = {}
    /\ IsInvalid(row) => row.results = {}
    /\ pc \in Draining /\ IsInvalid(row) /\ ending \in {"cancelled", "deadline"} =>
         row.attempts # {}

\* The inputs that are waited for, and those this run polled.
Waited ==
  /\ row.waiting \cap row.results = {} /\ journal.waiting \cap journal.results = {}
  /\ pc \in UnderWay => pass.polled \subseteq row.waiting \cup row.results

\* Step s could be called or polled now.
IsDue(s) == s \in Steps \ row.results /\ Deps[s] \subseteq row.results

\* What a pass went by and is still due has a task, waits for its input, found no
\* place, or became due after the pass went by.
WentBy ==
  pc \in Passing =>
    /\ pass.grew \/ row.results # Steps
    /\ \A s \in 1..(pass.at - 1) : IsDue(s) =>
         \/ pass.grew
         \/ s \in Models /\ Active # {}
         \/ s \in row.waiting

\* The step a pass is at was due when it was looked at and still is.
LookedAt ==
  /\ pc \in {"verifyStep", "poll", "verifyPoll"} =>
       /\ IsDue(pass.at) /\ pass.at \notin Active
       /\ pass.at \in Models => Cardinality(Active) < MaxParallel
  /\ pc \in {"poll", "verifyPoll"} => pass.at \in Inputs

Finishing ==
  /\ pc \in {"verifyEnd", "verifyRead"} => row.results = Steps
  /\ pc = "verifyAwait" =>
       /\ Active = {} /\ row.waiting # {}
       /\ \A s \in Steps : IsDue(s) => s \in row.waiting
  /\ ending # "stuck" /\ (Waits => pc # "detached")

Inv ==
  /\ TypeOK
  /\ AtRest /\ Created /\ AtStart /\ Copied /\ Attempted /\ Tasked /\ Voided /\ Waited
  /\ WentBy /\ LookedAt /\ Finishing

-----------------------------------------------------------------------------
(* Lemmas.                                                                  *)

USE DEF Waits, Main, UnderWay, Passing, Awaiting, VerifyPcs, Draining, Resting, IsInvalid

\* What depends on the tasks alone.
LEMMA SameTasks ==
  ASSUME task' = task
  PROVE  /\ Active' = Active /\ Live' = Live
         /\ Returned' = Returned /\ Ended' = Ended
BY DEF Active, Live, Returned, Ended

\* A row and the same with another status.
LEMMA Restated ==
  ASSUME NEW r \in RowType, NEW status \in Statuses
  PROVE  LET new == [r EXCEPT !.status = status] IN
         /\ new \in RowType /\ new.status = status /\ new.results = r.results
         /\ new.attempts = r.attempts /\ new.inflight = r.inflight
         /\ new.waiting = r.waiting
BY DEF RowType

\* A run ends under a status, which is saved or not, and drains.
LEMMA EndKeeps ==
  ASSUME Inv, pc \in Main, NEW new \in RowType,
         new.status \notin {"absent", "sources_invalid"}, new.results = row.results,
         new.attempts = row.attempts, new.waiting = row.waiting,
         row' = new, pc' = "drain", journal' = new \/ journal' = journal,
         UNCHANGED <<pass, ending, task, leases, receipts, started, void>>
  PROVE  Inv'
<1>1. /\ row \in RowType /\ journal \in RowType /\ row = journal
      /\ ~IsInvalid(row) /\ ending = "raised"
  BY DEF Inv, TypeOK, Copied
<1>2. Active' = Active
  BY SameTasks
<1>3. TypeOK'
  BY <1>1 DEF Inv, TypeOK, Pcs
<1>4. AtRest' /\ AtStart' /\ WentBy' /\ LookedAt'
  BY DEF AtRest, AtStart, WentBy, LookedAt
<1>5. Created' /\ Copied'
  BY <1>1, <1>2 DEF Inv, Created, Copied
<1>6. Attempted'
  BY <1>1, <1>2 DEF Inv, Attempted
<1>7. Tasked'
  BY <1>1, <1>2 DEF Inv, Tasked
<1>8. Voided'
  BY <1>1, <1>2 DEF Inv, Voided
<1>9. Waited' /\ Finishing'
  BY <1>1 DEF Inv, Waited, Finishing
<1> QED BY <1>3, <1>4, <1>5, <1>6, <1>7, <1>8, <1>9 DEF Inv

LEMMA FailKeeps ==
  ASSUME Inv, pc \in Main, NEW status \in Statuses \ {"absent", "sources_invalid"},
         Fail(status),
         UNCHANGED <<pass, ending, task, leases, receipts, started, void>>
  PROVE  Inv'
<1> DEFINE new == [row EXCEPT !.status = status]
<1>1. row' = new /\ pc' = "drain" /\ (journal' = new \/ journal' = journal)
  BY DEF Fail, Save
<1>2. row \in RowType
  BY DEF Inv, TypeOK
<1>3. /\ new \in RowType /\ new.status = status /\ new.results = row.results
      /\ new.attempts = row.attempts /\ new.waiting = row.waiting
  BY <1>2, Restated
<1> HIDE DEF new
<1> QED BY <1>1, <1>3, EndKeeps

LEMMA Places ==
  StepCount \in Nat /\ MaxParallel \in Nat \ {0} /\ 1 \in 1..(StepCount + 1)
BY SchedulerAssumption

LEMMA AbsentRow ==
  /\ Absent \in RowType /\ Absent.status = "absent"
  /\ Absent.results = {} /\ Absent.attempts = {} /\ Absent.waiting = {}
BY DEF Absent, RowType, Statuses

\* The tasks are finitely many, and those that go on are some of them.
LEMMA FiniteTasks ==
  ASSUME NEW S \in SUBSET Models
  PROVE  IsFiniteSet(S) /\ Cardinality(S) \in Nat
<1>1. IsFiniteSet(Steps)
  BY FS_Interval, SchedulerAssumption DEF Steps
<1>2. IsFiniteSet(S)
  BY <1>1, FS_Subset DEF Models
<1> QED BY <1>2, FS_CardinalityType

\* The next pass over the steps, from wherever it starts.
LEMMA NextPassKeeps ==
  ASSUME Inv, pc \in Main, (Waits => ~void), row.attempts \subseteq row.results \cup Active,
         pass.polled \subseteq row.waiting \cup row.results, NextPass(row),
         UNCHANGED <<journal, row, ending, task, leases, receipts, started, void>>
  PROVE  Inv'
<1>1. /\ pass' = [pass EXCEPT !.at = 1, !.grew = FALSE]
      /\ \/ pc' = "verifyEnd" /\ row.results = Steps
         \/ pc' = "scan" /\ row.results # Steps
  BY DEF NextPass
<1>2. pass \in [at : 1..(StepCount + 1), polled : SUBSET Inputs, got : BOOLEAN,
                grew : BOOLEAN]
  BY DEF Inv, TypeOK
<1>3. /\ pass' \in [at : 1..(StepCount + 1), polled : SUBSET Inputs, got : BOOLEAN,
                grew : BOOLEAN]
      /\ pass'.at = 1 /\ pass'.polled = pass.polled
  BY <1>1, <1>2, Places
<1>4. Active' = Active
  BY SameTasks
<1>5. TypeOK'
  BY <1>1, <1>3 DEF Inv, TypeOK, Pcs
<1>6. AtRest' /\ Created' /\ AtStart' /\ Copied' /\ LookedAt'
  BY <1>1, <1>4 DEF Inv, AtRest, Created, AtStart, Copied, LookedAt
<1>7. Attempted' /\ Tasked' /\ Voided'
  BY <1>1, <1>4 DEF Inv, Attempted, Tasked, Voided
<1>8. Waited' /\ Finishing'
  BY <1>1, <1>3 DEF Inv, Waited, Finishing
<1>9. WentBy'
  BY <1>1, <1>3 DEF WentBy
<1> QED BY <1>5, <1>6, <1>7, <1>8, <1>9 DEF Inv

LEMMA InitInv == Init => Inv
<1> SUFFICES ASSUME Init PROVE Inv
  OBVIOUS
<1>1. Active = {} /\ pc = "idle" /\ journal = Absent /\ row = Absent
  BY DEF Init, Active
<1>2. TypeOK
  <2>1. pass \in [at : 1..(StepCount + 1), polled : SUBSET Inputs, got : BOOLEAN,
                  grew : BOOLEAN]
    BY Places DEF Init, FirstPass
  <2> QED BY <2>1, AbsentRow DEF Init, TypeOK, Pcs
<1>3. Cardinality(Active) <= MaxParallel
  BY <1>1, FS_EmptySet, SchedulerAssumption
<1>4. Attempted /\ Tasked
  BY <1>1, <1>3 DEF Init, Attempted, Tasked, Models
<1>5. AtRest /\ Created /\ AtStart /\ Copied
  BY <1>1 DEF Init, AtRest, Created, AtStart, Copied
<1>6. Voided /\ Waited /\ WentBy /\ LookedAt /\ Finishing
  BY <1>1, AbsentRow DEF Init, Voided, Waited, WentBy, LookedAt, Finishing
<1> QED BY <1>2, <1>4, <1>5, <1>6 DEF Inv

LEMMA RunKeeps == Inv /\ Run => Inv'
<1> SUFFICES ASSUME Inv, Run PROVE Inv'
  OBVIOUS
<1> DEFINE r == IF journal.status = "absent" THEN [Absent EXCEPT !.status = "created"]
                ELSE journal
<1>1. /\ pc \in Resting /\ UNCHANGED <<pass, ending, task, leases, started, void>>
      /\ \/ /\ r.status # "sources_invalid"
            /\ journal' = r /\ row' = r /\ pc' = "verifyStart" /\ UNCHANGED receipts
         \/ receipts' = {} /\ UNCHANGED <<journal, row, pc>>
  BY DEF Run
<1>2. /\ journal \in RowType /\ Active = {} /\ ending = "raised" /\ pass = FirstPass
      /\ row = Absent
  BY <1>1 DEF Inv, TypeOK, AtRest
<1>3. /\ r \in RowType /\ r.status # "absent" /\ r.attempts = journal.attempts
      /\ r.results = journal.results /\ r.waiting = journal.waiting
      /\ IsInvalid(journal) => IsInvalid(r)
  <2>1. CASE journal.status = "absent"
    <3>1. journal = Absent
      BY <2>1 DEF Inv, Created
    <3>2. r = [Absent EXCEPT !.status = "created"]
      BY <2>1
    <3> HIDE DEF r
    <3>3. "created" \in Statuses /\ Absent \in RowType
      BY AbsentRow DEF Statuses
    <3>4. /\ r \in RowType /\ r.status = "created" /\ r.results = Absent.results
          /\ r.attempts = Absent.attempts /\ r.waiting = Absent.waiting
      BY ONLY <3>2, <3>3, Restated
    <3> QED BY <2>1, <3>1, <3>4
  <2> QED BY <2>1, <1>2
<1>4. Active' = {} /\ Active' = Active
  BY <1>1, <1>2, SameTasks
<1>5. CASE r.status # "sources_invalid" /\ journal' = r /\ row' = r /\ pc' = "verifyStart"
           /\ UNCHANGED receipts
  <2> HIDE DEF r
  <2>1. TypeOK'
    BY <1>1, <1>3, <1>5 DEF Inv, TypeOK, Pcs
  <2>2. AtRest' /\ Created' /\ WentBy' /\ LookedAt'
    BY <1>3, <1>5 DEF AtRest, Created, WentBy, LookedAt
  <2>3. AtStart' /\ Copied'
    BY <1>1, <1>2, <1>3, <1>4, <1>5 DEF AtStart, Copied, FirstPass
  <2>4. Attempted' /\ Tasked'
    BY <1>1, <1>3, <1>4, <1>5 DEF Inv, Attempted, Tasked
  <2>5. Voided'
    BY <1>1, <1>2, <1>3, <1>4, <1>5 DEF Inv, Voided
  <2>6. Waited' /\ Finishing'
    BY <1>1, <1>2, <1>3, <1>5 DEF Inv, Waited, Finishing
  <2> QED BY <2>1, <2>2, <2>3, <2>4, <2>5, <2>6 DEF Inv
<1>6. CASE receipts' = {} /\ UNCHANGED <<journal, row, pc>>
  <2>1. TypeOK'
    BY <1>1, <1>6 DEF Inv, TypeOK
  <2>2. AtRest' /\ Created' /\ WentBy' /\ LookedAt' /\ AtStart' /\ Copied'
    BY <1>1, <1>4, <1>6
    DEF Inv, AtRest, Created, WentBy, LookedAt, AtStart, Copied, IsDue
  <2>3. Attempted' /\ Tasked' /\ Voided' /\ Waited' /\ Finishing'
    BY <1>1, <1>4, <1>6
    DEF Inv, Attempted, Tasked, Voided, Waited, Finishing, IsDue
  <2> QED BY <2>1, <2>2, <2>3 DEF Inv
<1> QED BY <1>1, <1>5, <1>6

LEMMA ReadResultKeeps == Inv /\ ReadResult => Inv'
<1> SUFFICES ASSUME Inv, ReadResult PROVE Inv'
  OBVIOUS
<1>1. /\ pc \in Resting /\ row' = journal /\ pc' = "verifyRead"
      /\ journal.status \in {"completed", "verification_unavailable"}
      /\ journal.results = Steps
      /\ UNCHANGED <<journal, pass, ending, task, leases, receipts, started, void>>
  BY DEF ReadResult
<1>2. Active' = {} /\ Active = {} /\ ending = "raised" /\ pass = FirstPass
  BY <1>1, SameTasks DEF Inv, AtRest
<1>3. TypeOK'
  BY <1>1 DEF Inv, TypeOK, Pcs
<1>4. AtRest' /\ Created' /\ WentBy' /\ LookedAt' /\ AtStart' /\ Copied'
  BY <1>1, <1>2 DEF AtRest, Created, WentBy, LookedAt, AtStart, Copied, FirstPass
<1>5. Attempted' /\ Tasked'
  BY <1>1, <1>2 DEF Inv, Attempted, Tasked
<1>6. Voided' /\ Waited' /\ Finishing'
  BY <1>1, <1>2 DEF Inv, Voided, Waited, Finishing
<1> QED BY <1>3, <1>4, <1>5, <1>6 DEF Inv

LEMMA InvalidKeeps == Inv /\ Invalid => Inv'
<1> SUFFICES ASSUME Inv, Invalid PROVE Inv'
  OBVIOUS
<1> DEFINE new == [row EXCEPT !.status = "sources_invalid", !.results = {}]
<1>1. /\ pc \in VerifyPcs /\ leases' = {} /\ row' = new
      /\ \/ journal' = new /\ pc' = "clear"
         \/ journal' = journal /\ pc' = "drain"
      /\ void' = (void \/ journal'.status = "sources_invalid")
      /\ UNCHANGED <<pass, ending, task, receipts, started>>
  BY DEF Invalid, Save
<1>2. /\ row \in RowType /\ journal \in RowType /\ row = journal
      /\ ~IsInvalid(row) /\ ending = "raised"
  BY <1>1 DEF Inv, TypeOK, Copied
<1>3. /\ new \in RowType /\ new.status = "sources_invalid" /\ new.results = {}
      /\ new.attempts = row.attempts /\ new.waiting = row.waiting
  BY <1>2 DEF RowType, Statuses
<1> HIDE DEF new
<1>4. Active' = Active
  BY <1>1, SameTasks
<1>5. TypeOK'
  BY <1>1, <1>2, <1>3 DEF Inv, TypeOK, Pcs
<1>6. AtRest' /\ AtStart' /\ WentBy' /\ LookedAt'
  BY <1>1 DEF AtRest, AtStart, WentBy, LookedAt
<1>7. Created' /\ Copied'
  BY <1>1, <1>2, <1>3, <1>4 DEF Inv, Created, Copied
<1>8. Attempted' /\ Tasked'
  BY <1>1, <1>2, <1>3, <1>4 DEF Inv, Attempted, Tasked
<1>9. Voided'
  BY <1>1, <1>2, <1>3, <1>4 DEF Inv, Voided
<1>10. Waited' /\ Finishing'
  BY <1>1, <1>2, <1>3 DEF Inv, Waited, Finishing
<1> QED BY <1>5, <1>6, <1>7, <1>8, <1>9, <1>10 DEF Inv

LEMMA OutageKeeps == Inv /\ Outage => Inv'
BY FailKeeps DEF Outage, Statuses

\* A run that goes on has no verdict behind it.
LEMMA NotVoid ==
  ASSUME Inv, pc \in Main, ~Uncertain(row)
  PROVE  (Waits => ~void)
<1>1. row = journal /\ ~IsInvalid(row)
  BY DEF Inv, Copied
<1> QED BY <1>1 DEF Inv, Voided, Uncertain

LEMMA StartVerifiedKeeps == Inv /\ StartVerified => Inv'
<1> SUFFICES ASSUME Inv, StartVerified PROVE Inv'
  OBVIOUS
<1>1. CASE Uncertain(row)
  BY <1>1, FailKeeps DEF StartVerified, Statuses
<1>2. CASE ~Uncertain(row)
  <2>1. /\ pc = "verifyStart" /\ NextPass(row)
        /\ UNCHANGED <<journal, row, ending, task, leases, receipts, started, void>>
    BY <1>2 DEF StartVerified
  <2>2. row.attempts \subseteq row.results \cup Active
    BY <1>2 DEF Uncertain
  <2>3. (Waits => ~void)
    BY <1>2, <2>1, NotVoid
  <2>4. pass.polled \subseteq row.waiting \cup row.results
    BY <2>1 DEF Inv, AtStart
  <2> QED BY <2>1, <2>2, <2>3, <2>4, NextPassKeeps
<1> QED BY <1>1, <1>2

LEMMA EndVerifiedKeeps == Inv /\ EndVerified => Inv'
<1> SUFFICES ASSUME Inv, EndVerified PROVE Inv'
  OBVIOUS
<1> DEFINE new == [row EXCEPT !.status = "completed", !.inflight = {}]
<1>1. /\ pc \in {"verifyEnd", "verifyRead"} /\ row' = new
      /\ \/ journal' = new /\ pc' = "clear"
         \/ journal' = journal /\ pc' = "drain"
      /\ UNCHANGED <<pass, ending, task, leases, receipts, started, void>>
  BY DEF EndVerified, Save
<1>2. /\ row \in RowType /\ journal \in RowType /\ row = journal
      /\ ~IsInvalid(row) /\ ending = "raised"
  BY <1>1 DEF Inv, TypeOK, Copied
<1>3. /\ new \in RowType /\ new.status = "completed" /\ new.results = row.results
      /\ new.attempts = row.attempts /\ new.waiting = row.waiting
  BY <1>2 DEF RowType, Statuses
<1> HIDE DEF new
<1>4. Active' = Active
  BY <1>1, SameTasks
<1>5. TypeOK'
  BY <1>1, <1>2, <1>3 DEF Inv, TypeOK, Pcs
<1>6. AtRest' /\ AtStart' /\ WentBy' /\ LookedAt'
  BY <1>1 DEF AtRest, AtStart, WentBy, LookedAt
<1>7. Created' /\ Copied'
  BY <1>1, <1>2, <1>3, <1>4 DEF Inv, Created, Copied
<1>8. Attempted' /\ Tasked'
  BY <1>1, <1>2, <1>3, <1>4 DEF Inv, Attempted, Tasked
<1>9. Voided'
  BY <1>1, <1>2, <1>3, <1>4 DEF Inv, Voided
<1>10. Waited' /\ Finishing'
  BY <1>1, <1>2, <1>3 DEF Inv, Waited, Finishing
<1> QED BY <1>5, <1>6, <1>7, <1>8, <1>9, <1>10 DEF Inv

LEMMA ClearCheckpointsKeeps == Inv /\ ClearCheckpoints => Inv'
<1> SUFFICES ASSUME Inv, ClearCheckpoints PROVE Inv'
  OBVIOUS
<1>1. /\ pc = "clear" /\ pc' = "drain" /\ (receipts' = {} \/ receipts' = receipts)
      /\ UNCHANGED <<journal, row, pass, ending, task, leases, started, void>>
  BY DEF ClearCheckpoints, Goto
<1>2. Active' = Active /\ row = journal /\ ending = "raised"
  BY <1>1, SameTasks DEF Inv, Copied
<1>3. TypeOK'
  BY <1>1 DEF Inv, TypeOK, Pcs
<1>4. AtRest' /\ AtStart' /\ WentBy' /\ LookedAt' /\ Created' /\ Copied'
  BY <1>1, <1>2 DEF Inv, AtRest, AtStart, WentBy, LookedAt, Created, Copied
<1>5. Attempted' /\ Tasked' /\ Voided' /\ Waited' /\ Finishing'
  BY <1>1, <1>2 DEF Inv, Attempted, Tasked, Voided, Waited, Finishing
<1> QED BY <1>3, <1>4, <1>5 DEF Inv

\* A place where the run goes on and nothing but the place changes.
LEMMA GotoKeeps ==
  ASSUME Inv, pc \in UnderWay, NEW label \in UnderWay, Goto(label),
         UNCHANGED <<ending, task, leases, receipts, started, void>>,
         pass' \in [at : 1..(StepCount + 1), polled : SUBSET Inputs, got : BOOLEAN,
                    grew : BOOLEAN],
         pass'.polled = pass.polled, WentBy', LookedAt', Finishing'
  PROVE  Inv'
<1>1. /\ pc' = label /\ UNCHANGED <<journal, row>> /\ Active' = Active
  BY SameTasks DEF Goto
<1>2. TypeOK'
  BY <1>1 DEF Inv, TypeOK, Pcs
<1>3. AtRest' /\ AtStart' /\ Created'
  BY <1>1 DEF Inv, AtRest, AtStart, Created
<1>4. Copied' /\ Attempted'
  BY <1>1 DEF Inv, Copied, Attempted
<1>5. Tasked' /\ Voided' /\ Waited'
  BY <1>1 DEF Inv, Tasked, Voided, Waited
<1> QED BY <1>2, <1>3, <1>4, <1>5 DEF Inv

LEMMA Typed ==
  ASSUME Inv
  PROVE  /\ row \in RowType /\ journal \in RowType
         /\ pass \in [at : 1..(StepCount + 1), polled : SUBSET Inputs, got : BOOLEAN,
                      grew : BOOLEAN]
         /\ row.results \subseteq Steps /\ row.waiting \subseteq Inputs
         /\ row.attempts \subseteq Models /\ Active \subseteq Models
         /\ Inputs \subseteq Steps /\ Models \subseteq Steps /\ Steps = 1..StepCount
         /\ pass.at \in Nat /\ StepCount \in Nat
<1>1. StepCount \in Nat /\ Inputs \subseteq Steps /\ Steps = 1..StepCount
  BY SchedulerAssumption DEF SchedulerAssumption, Steps
<1>2. /\ row \in RowType /\ journal \in RowType
      /\ pass \in [at : 1..(StepCount + 1), polled : SUBSET Inputs, got : BOOLEAN,
                   grew : BOOLEAN]
  BY DEF Inv, TypeOK
<1>3. Models \subseteq Steps /\ Active \subseteq Models
  BY DEF Active, Models
<1>4. /\ row.results \subseteq Steps /\ row.waiting \subseteq Inputs
      /\ row.attempts \subseteq Models
  BY <1>2 DEF RowType
<1>5. pass.at \in Nat
  BY <1>1, <1>2
<1> QED
  BY <1>1, <1>2, <1>3, <1>4, <1>5

\* The least of a set of steps is one of them, and those before it are not.
LEMMA LeastOf ==
  ASSUME NEW S \in SUBSET Nat, NEW s \in Least(S)
  PROVE  s \in S /\ \A t \in Nat : t < s => t \notin S
BY DEF Least

\* A step that is due and not taken by the pass has a reason not to be.
LEMMA PassedBy ==
  ASSUME Inv, pc = "scan", NEW t \in pass.at..StepCount, t \notin Turn, IsDue(t)
  PROVE  (t \in Models /\ Active # {}) \/ t \in row.waiting
<1>1. t \in Active \/ (IF t \in Inputs THEN t \in pass.polled
                       ELSE ~(Cardinality(Active) < MaxParallel))
  BY DEF Turn, IsDue
<1>2. CASE t \in Active
  BY <1>2, Typed
<1>3. CASE t \in Inputs /\ t \in pass.polled
  BY <1>3 DEF Inv, Waited, IsDue
<1>4. CASE t \notin Inputs /\ ~(Cardinality(Active) < MaxParallel)
  <2>1. t \in Models
    BY <1>4 DEF IsDue, Models
  <2>2. Active # {}
    BY <1>4, FS_EmptySet, SchedulerAssumption
  <2> QED BY <2>1, <2>2
<1> QED BY <1>1, <1>2, <1>3, <1>4

LEMMA LookKeeps == Inv /\ Look => Inv'
<1> SUFFICES ASSUME Inv, Look PROVE Inv'
  OBVIOUS
<1>1. PICK s \in Least(Turn) : pass' = [pass EXCEPT !.at = s]
  BY DEF Look
<1>2. /\ pc = "scan" /\ Goto("verifyStep") /\ pc' = "verifyStep"
      /\ UNCHANGED <<journal, row, ending, task, leases, receipts, started, void>>
  BY DEF Look, Goto
<1>3. Turn \in SUBSET Nat /\ Turn \subseteq pass.at..StepCount
  BY Typed DEF Turn
<1>4. s \in Turn /\ \A t \in Nat : t < s => t \notin Turn
  BY <1>3, LeastOf
<1>5. s \in pass.at..StepCount /\ s \in 1..(StepCount + 1)
  BY <1>3, <1>4, Typed
<1>6. /\ pass' \in [at : 1..(StepCount + 1), polled : SUBSET Inputs, got : BOOLEAN,
                    grew : BOOLEAN]
      /\ pass'.at = s /\ pass'.polled = pass.polled /\ pass'.grew = pass.grew
  BY <1>1, <1>5, Typed
<1>7. Active' = Active
  BY <1>2, SameTasks
<1>8. WentBy'
  <2>1. pass.grew \/ row.results # Steps
    BY <1>2 DEF Inv, WentBy
  <2>2. ASSUME NEW t \in 1..(s - 1), IsDue(t), ~pass.grew
        PROVE  (t \in Models /\ Active # {}) \/ t \in row.waiting
    <3>1. CASE t \in 1..(pass.at - 1)
      BY <1>2, <2>2, <3>1 DEF Inv, WentBy
    <3>2. CASE t \notin 1..(pass.at - 1)
      <4>1. t \in pass.at..StepCount /\ t \notin Turn
        BY <1>4, <1>5, <2>2, <3>2, Typed
      <4> QED BY <1>2, <2>2, <4>1, PassedBy
    <3> QED BY <3>1, <3>2
  <2> QED BY <1>2, <1>6, <1>7, <2>1, <2>2 DEF WentBy, IsDue
<1>9. LookedAt'
  <2>1. /\ IsDue(s) /\ s \notin Active
        /\ s \in Models => Cardinality(Active) < MaxParallel
    BY <1>4, Typed DEF Turn, IsDue, Models
  <2> QED BY <1>2, <1>6, <1>7, <2>1 DEF LookedAt, IsDue
<1>10. Finishing'
  BY <1>2 DEF Inv, Finishing
<1> QED BY <1>2, <1>6, <1>8, <1>9, <1>10, GotoKeeps

\* Where a pass ends with no task and nothing new, every step that is due waits
\* for its input, and there is one.
LEMMA OnlyInputs ==
  ASSUME Inv, pc = "scan", Turn = {}, Active = {}, ~pass.grew
  PROVE  row.waiting # {} /\ \A s \in Steps : IsDue(s) => s \in row.waiting
<1>1. ASSUME NEW s \in Steps, IsDue(s) PROVE s \in row.waiting
  <2>1. CASE s \in 1..(pass.at - 1)
    BY <1>1, <2>1 DEF Inv, WentBy
  <2>2. CASE s \notin 1..(pass.at - 1)
    <3>1. s \in pass.at..StepCount
      BY <2>2, Typed
    <3> QED BY <1>1, <3>1, PassedBy
  <2> QED BY <2>1, <2>2
<1>2. row.results # Steps
  BY DEF Inv, WentBy
<1>3. PICK s \in Steps \ row.results : Deps[s] \cap (Steps \ row.results) = {}
  <2>1. Steps \ row.results \in (SUBSET Steps) \ {{}}
    BY <1>2, Typed
  <2> QED BY <2>1, SchedulerAssumption
<1>4. IsDue(s)
  BY <1>3, SchedulerAssumption DEF IsDue
<1> QED BY <1>1, <1>3, <1>4

LEMMA SettleKeeps == Inv /\ Settle => Inv' /\ ending' # "stuck"
<1> SUFFICES ASSUME Inv, Settle PROVE Inv'
  BY DEF Inv, Finishing
<1>1. /\ pc = "scan" /\ (Turn = {} \/ Ended # {}) /\ Ended \subseteq Active
      /\ UNCHANGED <<task, leases, receipts, started, void>>
  BY DEF Settle, Ended
<1>2. /\ Active' = Active
      /\ pass \in [at : 1..(StepCount + 1), polled : SUBSET Inputs, got : BOOLEAN,
                   grew : BOOLEAN]
  BY <1>1, SameTasks, Typed
<1>3. CASE Active # {}
  <2>1. Goto("wait") /\ pc' = "wait" /\ UNCHANGED <<pass, ending>>
    BY <1>3 DEF Settle, Goto
  <2>2. WentBy' /\ LookedAt' /\ Finishing'
    BY <2>1 DEF Inv, WentBy, LookedAt, Finishing
  <2> QED BY <1>1, <1>2, <2>1, <2>2, GotoKeeps
<1>4. CASE Active = {} /\ pass.grew
  <2>1. NextPass(row) /\ UNCHANGED <<journal, row, ending>>
    BY <1>4 DEF Settle
  <2>2. (Waits => ~void) /\ row.attempts \subseteq row.results \cup Active
    BY <1>1 DEF Inv, Voided, Attempted
  <2>3. pass.polled \subseteq row.waiting \cup row.results
    BY <1>1 DEF Inv, Waited
  <2> QED BY <1>1, <2>1, <2>2, <2>3, NextPassKeeps
<1>5. CASE Active = {} /\ ~pass.grew
  <2>1. row.waiting # {} /\ \A s \in Steps : IsDue(s) => s \in row.waiting
    BY <1>1, <1>5, OnlyInputs
  <2>2. Goto("verifyAwait") /\ pc' = "verifyAwait" /\ UNCHANGED <<row, pass, ending>>
    BY <1>5, <2>1 DEF Settle, Goto
  <2>3. WentBy' /\ LookedAt'
    BY <2>2 DEF WentBy, LookedAt
  <2>4. Finishing'
    BY <1>2, <1>5, <2>1, <2>2 DEF Inv, Finishing, IsDue
  <2> QED BY <1>1, <1>2, <2>2, <2>3, <2>4, GotoKeeps
<1> QED BY <1>3, <1>4, <1>5

LEMMA RecheckKeeps == Inv /\ Recheck => Inv'
<1> SUFFICES ASSUME Inv, Recheck PROVE Inv'
  OBVIOUS
<1>1. /\ pc = "verifyStep" /\ UNCHANGED <<journal, row>>
      /\ UNCHANGED <<pass, ending, task, leases, receipts, started, void>>
      /\ \/ Goto("wait") /\ pc' = "wait"
         \/ pass.at \in Inputs /\ Goto("poll") /\ pc' = "poll"
  BY DEF Recheck, Goto
<1>2. Active' = Active
  BY <1>1, SameTasks
<1>3. WentBy'
  BY <1>1, <1>2 DEF Inv, WentBy, IsDue
<1>4. LookedAt' /\ Finishing'
  BY <1>1, <1>2 DEF Inv, LookedAt, IsDue, Finishing
<1> QED BY <1>1, <1>3, <1>4, Typed, GotoKeeps

LEMMA PollKeeps == Inv /\ Poll => Inv'
<1> SUFFICES ASSUME Inv, Poll PROVE Inv'
  OBVIOUS
<1>1. PICK got \in BOOLEAN : pass' = [pass EXCEPT !.got = got]
  BY DEF Poll
<1>2. /\ pc = "poll" /\ Goto("verifyPoll") /\ pc' = "verifyPoll"
      /\ UNCHANGED <<journal, row, ending, task, leases, receipts, started, void>>
  BY DEF Poll, Goto
<1>3. /\ pass' \in [at : 1..(StepCount + 1), polled : SUBSET Inputs, got : BOOLEAN,
                    grew : BOOLEAN]
      /\ pass'.at = pass.at /\ pass'.polled = pass.polled /\ pass'.grew = pass.grew
  BY <1>1, Typed
<1>4. Active' = Active
  BY <1>2, SameTasks
<1>5. WentBy'
  BY <1>2, <1>3, <1>4 DEF Inv, WentBy, IsDue
<1>6. LookedAt' /\ Finishing'
  BY <1>2, <1>3, <1>4 DEF Inv, LookedAt, IsDue, Finishing
<1> QED BY <1>2, <1>3, <1>5, <1>6, GotoKeeps

LEMMA PollFailsKeeps == Inv /\ (PollRaises \/ InputTooLarge) => Inv'
<1>1. {"verification_unavailable", "failed"}
        \subseteq Statuses \ {"absent", "sources_invalid"}
  BY DEF Statuses
<1> QED BY <1>1, FailKeeps DEF PollRaises, InputTooLarge

\* A save that raised leaves everything but the place of the run.
LEMMA RaiseKeeps ==
  ASSUME Inv, pc \in UnderWay, pc' = "drain",
         UNCHANGED <<journal, row, ending, task, receipts, started, void>>,
         leases' \subseteq Models,
         pass' \in [at : 1..(StepCount + 1), polled : SUBSET Inputs, got : BOOLEAN,
                    grew : BOOLEAN]
  PROVE  Inv'
<1>1. Active' = Active /\ row = journal /\ ending = "raised"
  BY SameTasks DEF Inv, Copied
<1>2. TypeOK'
  BY DEF Inv, TypeOK, Pcs
<1>3. AtRest' /\ AtStart' /\ WentBy' /\ LookedAt' /\ Created' /\ Copied'
  BY <1>1 DEF Inv, AtRest, AtStart, WentBy, LookedAt, Created, Copied
<1>4. Attempted' /\ Tasked' /\ Voided' /\ Waited' /\ Finishing'
  BY <1>1 DEF Inv, Attempted, Tasked, Voided, Waited, Finishing
<1> QED BY <1>2, <1>3, <1>4 DEF Inv

LEMMA AdmitKeeps == Inv /\ Admit => Inv'
<1> SUFFICES ASSUME Inv, Admit PROVE Inv'
  OBVIOUS
<1> DEFINE s == pass.at
           new == [row EXCEPT !.status = "running", !.attempts = @ \cup {s},
                              !.inflight = Active \cup {s}]
<1>1. /\ pc = "verifyStep" /\ s \in Models /\ row' = new
      /\ \/ journal' = new /\ pc' = "scan" /\ task' = [task EXCEPT ![s] = "created"]
         \/ journal' = journal /\ pc' = "drain" /\ task' = task
      /\ leases' = leases \cup {s} /\ pass' = [pass EXCEPT !.at = s + 1]
      /\ UNCHANGED <<ending, receipts, started, void>>
  BY DEF Admit, Save
<1>2. /\ row \in RowType /\ row = journal /\ ~IsInvalid(row) /\ ending = "raised"
      /\ (Waits => ~void) /\ row.attempts \subseteq row.results \cup Active
  BY <1>1 DEF Inv, TypeOK, Copied, Voided, Attempted
<1>3. /\ IsDue(s) /\ s \notin Active /\ Cardinality(Active) < MaxParallel
  BY <1>1 DEF Inv, LookedAt
<1>4. /\ new \in RowType /\ new.status = "running" /\ new.results = row.results
      /\ new.attempts = row.attempts \cup {s} /\ new.waiting = row.waiting
  BY <1>1, <1>2, Typed DEF RowType, Statuses
<1> HIDE DEF new
<1>5. /\ pass' \in [at : 1..(StepCount + 1), polled : SUBSET Inputs, got : BOOLEAN,
                    grew : BOOLEAN]
      /\ pass'.at = s + 1 /\ pass'.polled = pass.polled /\ pass'.grew = pass.grew
  BY <1>1, Typed
<1>6. AtRest' /\ AtStart' /\ LookedAt' /\ Finishing' /\ Created'
  BY <1>1, <1>2, <1>4 DEF Inv, AtRest, AtStart, LookedAt, Finishing, Created
<1>7. CASE journal' = new /\ pc' = "scan" /\ task' = [task EXCEPT ![s] = "created"]
  <2>1. TypeOK'
    BY <1>1, <1>4, <1>5, <1>7 DEF Inv, TypeOK, Pcs
  <2>2. Active' = Active \cup {s}
    BY <1>1, <1>7 DEF Inv, TypeOK, Active
  <2>3. Copied'
    BY <1>1, <1>2, <1>4, <1>7, <2>2 DEF Inv, Copied
  <2>4. Attempted'
    BY <1>1, <1>2, <1>4, <1>7, <2>2 DEF Inv, Attempted
  <2>5. Tasked'
    <3>1. Cardinality(Active') <= MaxParallel
      <4>1. Cardinality(Active \cup {s}) = Cardinality(Active) + 1
        BY <1>3, Typed, FiniteTasks, FS_AddElement
      <4> QED BY <1>3, <2>2, <4>1, Places, Typed, FiniteTasks
    <3>2. started[s] = 0
      BY <1>1, <1>2, <1>3 DEF Inv, TypeOK, Attempted, IsDue, Models
    <3>3. \A t \in Active' : t # s => t \in Active /\ task'[t] = task[t]
      BY <1>7, <2>2, Typed DEF Inv, TypeOK
    <3>4. task'[s] = "created"
      BY <1>1, <1>7 DEF Inv, TypeOK
    <3>5. ASSUME NEW t \in Active', t # s
          PROVE  /\ task'[t] = "created" => started'[t] = 0
                 /\ task'[t] \in {"running", "returned"} => started'[t] > 0
                 /\ ~IsInvalid(row') => t \notin row'.results /\ Deps[t] \subseteq row'.results
      BY <1>1, <1>2, <1>4, <3>3, <3>5 DEF Inv, Tasked
    <3>6. /\ started'[s] = 0 /\ s \notin row'.results /\ Deps[s] \subseteq row'.results
      BY <1>1, <1>3, <1>4, <3>2 DEF IsDue
    <3> QED BY <3>1, <3>4, <3>5, <3>6 DEF Tasked
  <2>6. Voided' /\ Waited'
    BY <1>1, <1>2, <1>4, <1>5, <1>7 DEF Inv, Voided, Waited
  <2>7. WentBy'
    <3>1. /\ pass.grew \/ row.results # Steps
          /\ \A t \in 1..(s - 1) : IsDue(t) =>
               pass.grew \/ (t \in Models /\ Active # {}) \/ t \in row.waiting
      BY <1>1 DEF Inv, WentBy
    <3>2. ASSUME NEW t \in 1..(pass'.at - 1), IsDue(t)
          PROVE  pass.grew \/ (t \in Models /\ Active' # {}) \/ t \in row.waiting
      <4>1. t = s \/ t \in 1..(s - 1)
        BY <1>5, Typed
      <4> QED BY <1>1, <2>2, <3>1, <3>2, <4>1
    <3> QED BY <1>1, <1>4, <1>5, <3>1, <3>2 DEF WentBy, IsDue
  <2> QED BY <1>6, <2>1, <2>3, <2>4, <2>5, <2>6, <2>7 DEF Inv
<1>8. CASE journal' = journal /\ pc' = "drain" /\ task' = task
  <2>1. Active' = Active
    BY <1>8, SameTasks
  <2>2. TypeOK'
    BY <1>1, <1>4, <1>5, <1>8 DEF Inv, TypeOK, Pcs
  <2>3. Copied' /\ Attempted' /\ Tasked'
    BY <1>1, <1>2, <1>4, <1>8, <2>1 DEF Inv, Copied, Attempted, Tasked
  <2>4. Voided' /\ Waited' /\ WentBy'
    BY <1>1, <1>2, <1>4, <1>8, <2>1 DEF Inv, Voided, Waited, WentBy
  <2> QED BY <1>6, <2>2, <2>3, <2>4 DEF Inv
<1> QED BY <1>1, <1>7, <1>8

\* A row with one more result.
LEMMA OneMore ==
  ASSUME NEW r \in RowType, NEW s \in Steps
  PROVE  LET new == WithResult(r, s) IN
         /\ new \in RowType /\ new.status = r.status /\ new.results = r.results \cup {s}
         /\ new.attempts = r.attempts /\ new.waiting = r.waiting \ {s}
<1>1. Active \ {s} \in SUBSET Models
  BY DEF Active
<1> QED BY <1>1 DEF WithResult, RowType

LEMMA PollVerifiedKeeps == Inv /\ PollVerified => Inv'
<1> SUFFICES ASSUME Inv, PollVerified PROVE Inv'
  OBVIOUS
<1> DEFINE s == pass.at
           new == IF pass.got THEN WithResult(row, s)
                  ELSE [row EXCEPT !.waiting = @ \cup {s}]
<1>1. /\ pc = "verifyPoll"
      /\ \/ journal' = new /\ row' = new /\ pc' = "scan"
         \/ journal' = journal /\ row' = row /\ pc' = "drain"
      /\ pass' = [pass EXCEPT !.at = s + 1, !.polled = @ \cup {s}, !.got = FALSE,
                              !.grew = @ \/ pass.got]
      /\ UNCHANGED <<ending, task, leases, receipts, started, void>>
  BY DEF PollVerified, Save
<1>2. /\ row \in RowType /\ row = journal /\ ~IsInvalid(row) /\ ending = "raised"
      /\ (Waits => ~void) /\ row.attempts \subseteq row.results \cup Active
      /\ pass.polled \subseteq row.waiting \cup row.results
  BY <1>1 DEF Inv, TypeOK, Copied, Voided, Attempted, Waited
<1>3. IsDue(s) /\ s \in Inputs
  BY <1>1 DEF Inv, LookedAt
<1>4. /\ pass' \in [at : 1..(StepCount + 1), polled : SUBSET Inputs, got : BOOLEAN,
                    grew : BOOLEAN]
      /\ pass'.at = s + 1 /\ pass'.polled = pass.polled \cup {s}
      /\ pass'.grew = (pass.grew \/ pass.got)
  <2>1. s + 1 \in 1..(StepCount + 1) /\ pass.polled \cup {s} \in SUBSET Inputs
    BY <1>3, Typed
  <2> QED BY <1>1, <2>1, Typed
<1>5. /\ new \in RowType /\ new.status = row.status /\ new.attempts = row.attempts
      /\ \/ /\ pass.got /\ new.results = row.results \cup {s}
            /\ new.waiting = row.waiting \ {s}
         \/ /\ ~pass.got /\ new.results = row.results
            /\ new.waiting = row.waiting \cup {s}
  <2>1. CASE pass.got
    BY <1>2, <1>3, <2>1, OneMore, Typed
  <2>2. CASE ~pass.got
    BY <1>2, <1>3, <2>2 DEF RowType
  <2> QED BY <2>1, <2>2
<1> HIDE DEF new
<1>6. Active' = Active /\ \A t \in Active : t # s
  BY <1>1, <1>3, SameTasks DEF Active, Models
<1>7. CASE journal' = new /\ row' = new /\ pc' = "scan"
  <2>1. TypeOK'
    BY <1>1, <1>4, <1>5, <1>7 DEF Inv, TypeOK, Pcs
  <2>2. AtRest' /\ AtStart' /\ LookedAt' /\ Finishing' /\ Created'
    BY <1>1, <1>2, <1>5, <1>7
    DEF Inv, AtRest, AtStart, LookedAt, Finishing, Created
  <2>3. Copied' /\ Attempted'
    BY <1>1, <1>2, <1>5, <1>6, <1>7 DEF Inv, Copied, Attempted
  <2>4. Tasked'
    BY <1>1, <1>2, <1>5, <1>6, <1>7 DEF Inv, Tasked
  <2>5. Voided' /\ Waited'
    BY <1>1, <1>2, <1>3, <1>4, <1>5, <1>6, <1>7 DEF Inv, Voided, Waited, IsDue
  <2>6. WentBy'
    <3>1. CASE pass.got
      BY <1>4, <3>1 DEF WentBy
    <3>2. CASE ~pass.got
      <4>1. /\ pass.grew \/ row.results # Steps
            /\ \A t \in 1..(s - 1) : IsDue(t) =>
                 pass.grew \/ (t \in Models /\ Active # {}) \/ t \in row.waiting
        BY <1>1 DEF Inv, WentBy
      <4>2. ASSUME NEW t \in 1..(pass'.at - 1), IsDue(t)
            PROVE  pass.grew \/ (t \in Models /\ Active # {}) \/ t \in new.waiting
        <5>1. t = s \/ t \in 1..(s - 1)
          BY <1>4, Typed
        <5> QED BY <1>5, <3>2, <4>1, <4>2, <5>1
      <4> QED BY <1>4, <1>5, <1>6, <1>7, <3>2, <4>1, <4>2 DEF WentBy, IsDue
    <3> QED BY <3>1, <3>2
  <2> QED BY <2>1, <2>2, <2>3, <2>4, <2>5, <2>6 DEF Inv
<1>8. CASE journal' = journal /\ row' = row /\ pc' = "drain"
  <2>1. leases' \subseteq Models
    BY <1>1 DEF Inv, TypeOK
  <2> QED BY <1>1, <1>4, <1>8, <2>1, RaiseKeeps
<1> QED BY <1>1, <1>7, <1>8

LEMMA AwaitInputKeeps == Inv /\ AwaitInput => Inv'
<1> SUFFICES ASSUME Inv, AwaitInput PROVE Inv'
  OBVIOUS
<1> DEFINE new == [row EXCEPT !.status = "awaiting_input", !.inflight = {}]
<1>1. /\ pc = "verifyAwait" /\ row' = new /\ pc' = "drain"
      /\ journal' = new \/ journal' = journal
      /\ UNCHANGED <<pass, ending, task, leases, receipts, started, void>>
  BY DEF AwaitInput, Save
<1>2. /\ new \in RowType /\ new.status = "awaiting_input" /\ new.results = row.results
      /\ new.attempts = row.attempts /\ new.waiting = row.waiting
  BY Typed DEF RowType, Statuses
<1> HIDE DEF new
<1> QED BY <1>1, <1>2, EndKeeps

\* A task moves on and stays a task.
LEMMA TaskKeeps ==
  ASSUME Inv, NEW s \in Active, NEW to \in {"running", "returned", "failed"},
         task' = [task EXCEPT ![s] = to],
         UNCHANGED <<journal, row, pc, pass, ending, receipts, void>>,
         leases' \subseteq Models,
         \/ started' = started /\ (started[s] > 0 \/ to = "failed")
         \/ started' = [started EXCEPT ![s] = @ + 1]
            /\ to = "running" /\ s \in journal.attempts
  PROVE  Inv'
<1>1. /\ task \in [Models -> {"none", "created", "running", "returned", "failed"}]
      /\ s \in Models /\ s \in Steps /\ started \in [Steps -> Nat]
  BY DEF Inv, TypeOK, Active, Models
<1>2. Active' = Active /\ \A t \in Active : t # s => task'[t] = task[t]
  BY <1>1 DEF Active
<1>3. task'[s] = to /\ \A t \in Steps : t # s => started'[t] = started[t]
  BY <1>1
<1>4. started'[s] \in Nat /\ (to # "failed" => started'[s] > 0)
      /\ (started'[s] > 0 => s \in journal.attempts)
  BY <1>1 DEF Inv, Attempted
<1>5. TypeOK'
  <2>1. task' \in [Models -> {"none", "created", "running", "returned", "failed"}]
    BY <1>1
  <2>2. started' \in [Steps -> Nat]
    BY <1>1
  <2> QED BY <2>1, <2>2 DEF Inv, TypeOK
<1>6. AtRest' /\ Created' /\ AtStart' /\ Copied'
  BY <1>2 DEF Inv, AtRest, Created, AtStart, Copied
<1>7. Attempted'
  BY <1>2, <1>3, <1>4 DEF Inv, Attempted, Models
<1>8. Tasked'
  BY <1>1, <1>2, <1>3, <1>4, Typed DEF Inv, Tasked
<1>9. Voided' /\ Waited' /\ WentBy' /\ LookedAt' /\ Finishing'
  BY <1>2 DEF Inv, Voided, Waited, WentBy, LookedAt, Finishing, IsDue
<1> QED BY <1>5, <1>6, <1>7, <1>8, <1>9 DEF Inv

LEMMA TaskBeginsKeeps ==
  ASSUME Inv, NEW s \in Models, TaskBegins(s)
  PROVE  Inv'
<1>1. /\ task[s] = "created" /\ pc \in Awaiting
      /\ task' = [task EXCEPT ![s] = "running"]
      /\ started' = [started EXCEPT ![s] = @ + 1]
      /\ UNCHANGED <<journal, row, pc, pass, ending, leases, receipts, void>>
  BY DEF TaskBegins
<1>2. s \in Active
  BY <1>1 DEF Active
<1>3. s \in journal.attempts
  BY <1>1, <1>2 DEF Inv, Copied
<1>4. leases' \subseteq Models
  BY <1>1 DEF Inv, TypeOK
<1> QED BY <1>1, <1>2, <1>3, <1>4, TaskKeeps

LEMMA TaskEndsKeeps ==
  ASSUME Inv, NEW s \in Models, TaskEnds(s)
  PROVE  Inv'
<1>1. PICK how \in {"returned", "failed"} : task' = [task EXCEPT ![s] = how]
  BY DEF TaskEnds
<1>2. /\ task[s] = "running" /\ leases' = leases \ {s}
      /\ UNCHANGED <<journal, row, pc, pass, ending, receipts, started, void>>
  BY DEF TaskEnds
<1>3. s \in Active
  BY <1>2 DEF Active
<1>4. started[s] > 0 /\ leases' \subseteq Models
  BY <1>2, <1>3 DEF Inv, Tasked, TypeOK
<1> QED BY <1>1, <1>2, <1>3, <1>4, TaskKeeps

LEMMA TaskDroppedKeeps ==
  ASSUME Inv, NEW s \in Models, TaskDropped(s)
  PROVE  Inv'
<1>1. /\ task[s] = "created" /\ task' = [task EXCEPT ![s] = "failed"]
      /\ UNCHANGED <<journal, row, pc, pass, ending, leases, receipts, started, void>>
  BY DEF TaskDropped
<1>2. s \in Active /\ leases' \subseteq Models
  BY <1>1 DEF Active, Inv, TypeOK
<1> QED BY <1>1, <1>2, TaskKeeps

LEMMA SameBesideReceipts ==
  ASSUME Inv, UNCHANGED <<journal, row, pc, pass, ending, task, leases, started, void>>,
         receipts' \subseteq Models
  PROVE  Inv'
<1>1. Active' = Active
  BY SameTasks
<1>2. TypeOK' /\ AtRest' /\ Created' /\ AtStart' /\ Copied'
  BY <1>1 DEF Inv, TypeOK, AtRest, Created, AtStart, Copied
<1>3. Attempted' /\ Tasked' /\ Voided'
  BY <1>1 DEF Inv, Attempted, Tasked, Voided
<1>4. Waited' /\ WentBy' /\ LookedAt' /\ Finishing'
  BY <1>1 DEF Inv, Waited, WentBy, LookedAt, Finishing, IsDue
<1> QED BY <1>2, <1>3, <1>4 DEF Inv

\* One task gave its result, which the row records.
LEMMA ResultKeeps ==
  ASSUME Inv, NEW s \in Active, (Waits => ~void),
         \/ pc \in {"wait", "collect"} /\ pc' = "collect"
         \/ pc \in Draining /\ pc' = pc,
         ~IsInvalid(row),
         journal' = WithResult(row, s), row' = WithResult(row, s),
         task' = [task EXCEPT ![s] = "none"], leases' \subseteq Models,
         UNCHANGED <<pass, ending, receipts, started, void>>
  PROVE  Inv'
<1> DEFINE new == WithResult(row, s)
<1>1. /\ task \in [Models -> {"none", "created", "running", "returned", "failed"}]
      /\ s \in Models /\ s \in Steps /\ s \notin Inputs /\ row \in RowType
  BY DEF Inv, TypeOK, Active, Models
<1>2. /\ new \in RowType /\ new.status = row.status /\ new.results = row.results \cup {s}
      /\ new.attempts = row.attempts /\ new.waiting = row.waiting \ {s}
  BY <1>1, OneMore
<1> HIDE DEF new
<1>3. journal' = new /\ row' = new
  BY DEF new
<1>4. Active' = Active \ {s} /\ \A t \in Active' : task'[t] = task[t]
  BY <1>1 DEF Active
<1>5. TypeOK'
  BY <1>1, <1>2, <1>3 DEF Inv, TypeOK, Pcs
<1>6. AtRest' /\ Created' /\ AtStart'
  BY <1>2, <1>3 DEF Inv, AtRest, Created, AtStart
<1>7. Copied'
  BY <1>2, <1>3, <1>4 DEF Inv, Copied
<1>8. Attempted'
  BY <1>2, <1>3, <1>4 DEF Inv, Attempted, Copied
<1>9. Tasked'
  <2>1. Cardinality(Active') <= MaxParallel
    <3>1. Cardinality(Active \ {s}) <= Cardinality(Active)
      BY FiniteTasks, Typed, FS_Subset
    <3>2. Cardinality(Active \ {s}) \in Nat /\ Cardinality(Active) \in Nat
      BY FiniteTasks, Typed
    <3> QED BY <1>4, <3>1, <3>2, Places DEF Inv, Tasked
  <2> QED BY <1>2, <1>3, <1>4, <2>1 DEF Inv, Tasked
<1>10. Voided'
  BY <1>2, <1>3 DEF Inv, Voided
<1>11. Waited'
  BY <1>2, <1>3 DEF Inv, Waited
<1>12. WentBy' /\ LookedAt' /\ Finishing'
  BY DEF Inv, WentBy, LookedAt, Finishing
<1> QED BY <1>5, <1>6, <1>7, <1>8, <1>9, <1>10, <1>11, <1>12 DEF Inv

LEMMA CollectKeeps == Inv /\ Collect => Inv'
<1> SUFFICES ASSUME Inv, Collect PROVE Inv'
  OBVIOUS
<1>1. PICK s \in Least(Returned) :
        /\ Save(WithResult(row, s), row, "collect")
        /\ task' = IF pc' = "collect" THEN [task EXCEPT ![s] = "none"] ELSE task
  BY DEF Collect
<1>2. /\ pc \in {"wait", "collect"}
      /\ UNCHANGED <<pass, ending, leases, receipts, started, void>>
  BY DEF Collect
<1>3. s \in Active
  BY <1>1 DEF Least, Returned, Active
<1>4. (Waits => ~void) /\ ~IsInvalid(row) /\ leases' \subseteq Models
  BY <1>2 DEF Inv, Voided, Copied, TypeOK
<1>5. CASE journal' = WithResult(row, s) /\ row' = WithResult(row, s) /\ pc' = "collect"
  <2>1. task' = [task EXCEPT ![s] = "none"]
    BY <1>1, <1>5
  <2> QED BY <1>2, <1>3, <1>4, <1>5, <2>1, ResultKeeps
<1>6. CASE pc' = "drain" /\ row' = row /\ journal' = journal
  <2>1. task' = task
    BY <1>1, <1>6
  <2> QED BY <1>2, <1>4, <1>6, <2>1, RaiseKeeps, Typed
<1> QED BY <1>1, <1>5, <1>6 DEF Save

LEMMA CollectedKeeps == Inv /\ Collected => Inv'
<1> SUFFICES ASSUME Inv, Collected PROVE Inv'
  OBVIOUS
<1>1. CASE Ended # {}
  BY <1>1, FailKeeps DEF Collected, Statuses
<1>2. CASE Ended = {}
  <2>1. /\ pc \in {"wait", "collect"} /\ NextPass(row)
        /\ UNCHANGED <<journal, row, ending, task, leases, receipts, started, void>>
    BY <1>2 DEF Collected
  <2>2. /\ (Waits => ~void) /\ row.attempts \subseteq row.results \cup Active
        /\ pass.polled \subseteq row.waiting \cup row.results
    BY <2>1 DEF Inv, Voided, Attempted, Waited
  <2> QED BY <2>1, <2>2, NextPassKeeps
<1> QED BY <1>1, <1>2

LEMMA DrainPublishKeeps == Inv /\ DrainPublish => Inv'
<1> SUFFICES ASSUME Inv, DrainPublish PROVE Inv'
  OBVIOUS
<1>1. PICK s \in Least(Returned) :
        \/ /\ journal' = WithResult(row, s) /\ row' = journal'
           /\ task' = [task EXCEPT ![s] = "none"]
        \/ task' = [task EXCEPT ![s] = "failed"] /\ UNCHANGED <<journal, row>>
  BY DEF DrainPublish
<1>2. /\ pc \in Draining /\ ~IsInvalid(row) /\ leases' = {}
      /\ UNCHANGED <<pc, pass, ending, receipts, started, void>>
  BY DEF DrainPublish, MayPublish, Drained
<1>3. s \in Active
  BY <1>1 DEF Least, Returned, Active
<1>4. (Waits => ~void)
  BY <1>2, <1>3 DEF Inv, Voided
<1>5. CASE journal' = WithResult(row, s) /\ row' = journal'
           /\ task' = [task EXCEPT ![s] = "none"]
  BY <1>2, <1>3, <1>4, <1>5, ResultKeeps
<1>6. CASE task' = [task EXCEPT ![s] = "failed"] /\ UNCHANGED <<journal, row>>
  BY <1>2, <1>3, <1>6, TaskKeeps
<1> QED BY <1>1, <1>5, <1>6

\* A run that is over leaves what it committed, and nothing in memory.
LEMMA LeaveKeeps ==
  ASSUME Inv, pc \notin Resting, pc' \in Resting, Forget, Active' = {},
         task' \in [Models -> {"none", "created", "running", "returned", "failed"}],
         UNCHANGED <<receipts, started>>,
         \/ UNCHANGED <<journal, void>>
         \/ /\ pc \in Draining /\ ending \in {"cancelled", "deadline"}
            /\ journal' = [row EXCEPT !.status = ending]
            /\ void' = (void \/ row.status = "sources_invalid")
  PROVE  Inv'
<1>1. /\ row' = Absent /\ pass' = FirstPass /\ ending' = "raised" /\ leases' = {}
      /\ row \in RowType /\ journal \in RowType
  BY Typed DEF Forget
<1>2. \/ UNCHANGED <<journal, void>>
      \/ /\ pc \in Draining /\ ending \in {"cancelled", "deadline"}
         /\ void' = (void \/ row.status = "sources_invalid")
         /\ journal' \in RowType /\ journal'.status = ending
         /\ journal'.results = row.results /\ journal'.attempts = row.attempts
         /\ journal'.waiting = row.waiting
  <2>1. CASE ending \in {"cancelled", "deadline"}
    <3> DEFINE new == [row EXCEPT !.status = ending]
    <3>1. ending \in Statuses
      BY <2>1 DEF Statuses
    <3>2. /\ new \in RowType /\ new.status = ending /\ new.results = row.results
          /\ new.attempts = row.attempts /\ new.waiting = row.waiting
      BY <1>1, <3>1, Restated
    <3> HIDE DEF new
    <3>3. UNCHANGED <<journal, void>>
          \/ (/\ pc \in Draining /\ journal' = new
              /\ void' = (void \/ row.status = "sources_invalid"))
      BY DEF new
    <3> QED BY <2>1, <3>2, <3>3
  <2> QED BY <2>1
<1>3. FirstPass \in [at : 1..(StepCount + 1), polled : SUBSET Inputs, got : BOOLEAN,
                     grew : BOOLEAN]
  BY Places DEF FirstPass
<1>4. TypeOK'
  BY <1>1, <1>2, <1>3, AbsentRow DEF Inv, TypeOK, Pcs
<1>5. AtRest' /\ AtStart' /\ Copied' /\ WentBy' /\ LookedAt' /\ Finishing'
  BY <1>1 DEF AtRest, AtStart, Copied, WentBy, LookedAt, Finishing
<1>6. Created'
  BY <1>2 DEF Inv, Created
<1>7. Attempted'
  BY <1>2 DEF Inv, Attempted, Copied
<1>8. Tasked'
  BY FS_EmptySet, Places DEF Tasked
<1>9. Voided'
  <2>1. CASE UNCHANGED <<journal, void>>
    BY <1>1, <2>1, AbsentRow DEF Inv, Voided
  <2>2. CASE ~UNCHANGED <<journal, void>>
    <3>1. /\ pc \in Draining /\ ending \in {"cancelled", "deadline"}
          /\ void' = (void \/ IsInvalid(row))
          /\ journal'.results = row.results /\ journal'.attempts = row.attempts
      BY <1>2, <2>2
    <3>2. CASE IsInvalid(row)
      BY <1>1, <3>1, <3>2, AbsentRow DEF Inv, Voided
    <3>3. CASE ~IsInvalid(row)
      <4>1. /\ row.results = journal.results /\ ~IsInvalid(journal)
            /\ journal.attempts \subseteq row.attempts
        BY <3>1, <3>3 DEF Inv, Copied
      <4> QED BY <1>1, <3>1, <3>3, <4>1, AbsentRow DEF Inv, Voided
    <3> QED BY <3>2, <3>3
  <2> QED BY <2>1, <2>2
<1>10. Waited'
  BY <1>1, <1>2, AbsentRow DEF Inv, Waited
<1> QED BY <1>4, <1>5, <1>6, <1>7, <1>8, <1>9, <1>10 DEF Inv

LEMMA DrainEndKeeps == Inv /\ DrainEnd => Inv'
<1> SUFFICES ASSUME Inv, DrainEnd PROVE Inv'
  OBVIOUS
<1>1. /\ pc \in Draining /\ Live = {} /\ pc' = "idle" /\ Forget
      /\ task' = [s \in Models |-> IF s \in Live THEN task[s] ELSE "none"]
      /\ UNCHANGED <<receipts, started>>
      /\ \/ UNCHANGED <<journal, void>>
         \/ /\ ending \in {"cancelled", "deadline"}
            /\ journal' = [row EXCEPT !.status = ending]
            /\ void' = (void \/ row.status = "sources_invalid")
  BY DEF DrainEnd, Drained
<1>2. /\ Active' = {}
      /\ task' \in [Models -> {"none", "created", "running", "returned", "failed"}]
  BY <1>1 DEF Active
<1> QED BY <1>1, <1>2, LeaveKeeps

LEMMA CrashKeeps == Inv /\ Crash => Inv'
<1> SUFFICES ASSUME Inv, Crash PROVE Inv'
  OBVIOUS
<1>1. /\ pc \notin Resting /\ pc' = "dead" /\ Forget /\ task' = [s \in Models |-> "none"]
      /\ UNCHANGED <<journal, receipts, started, void>>
  BY DEF Crash
<1>2. /\ Active' = {}
      /\ task' \in [Models -> {"none", "created", "running", "returned", "failed"}]
  BY <1>1 DEF Active
<1> QED BY <1>1, <1>2, LeaveKeeps

LEMMA InterruptKeeps ==
  ASSUME Inv, NEW status \in {"cancelled", "deadline"}, Interrupt(status)
  PROVE  Inv'
<1>1. /\ pc \in Awaiting /\ pc' = "drain" /\ ending' \in {"raised", status}
      /\ UNCHANGED <<journal, row, pass, task, leases, receipts, started, void>>
  BY DEF Interrupt, Goto
<1>2. Active' = Active /\ ~IsInvalid(row)
  BY <1>1, SameTasks DEF Inv, Copied
<1>3. TypeOK' /\ AtRest' /\ Created' /\ AtStart' /\ WentBy' /\ LookedAt'
  BY <1>1 DEF Inv, TypeOK, Pcs, AtRest, Created, AtStart, WentBy, LookedAt
<1>4. Copied' /\ Attempted' /\ Tasked'
  BY <1>1, <1>2 DEF Inv, Copied, Attempted, Tasked
<1>5. Voided' /\ Waited' /\ Finishing'
  BY <1>1, <1>2 DEF Inv, Voided, Waited, Finishing
<1> QED BY <1>3, <1>4, <1>5 DEF Inv

LEMMA InterruptDrainKeeps ==
  ASSUME Inv, NEW status \in {"cancelled", "deadline"}, InterruptDrain(status)
  PROVE  Inv'
<1> DEFINE new == [row EXCEPT !.status = "cancelled"]
<1>1. /\ pc = "drain" /\ Active # {}
      /\ UNCHANGED <<pass, task, receipts, started, void>>
      /\ \/ /\ pc' = "drain" /\ ending' = status
            /\ UNCHANGED <<journal, row, leases>>
         \/ /\ ~Waits /\ row' = new /\ journal' = new /\ pc' = "detached"
            /\ leases' = {} /\ UNCHANGED ending
  BY DEF InterruptDrain
<1>2. Active' = Active /\ row.attempts # {}
  BY <1>1, SameTasks DEF Inv, Copied
<1>3. /\ new \in RowType /\ new.status = "cancelled" /\ new.results = row.results
      /\ new.attempts = row.attempts /\ new.waiting = row.waiting
  <2>1. row \in RowType /\ "cancelled" \in Statuses
    BY Typed DEF Statuses
  <2> QED BY <2>1, Restated
<1> HIDE DEF new
<1>4. AtRest' /\ AtStart' /\ WentBy' /\ LookedAt' /\ Finishing'
  BY <1>1 DEF Inv, AtRest, AtStart, WentBy, LookedAt, Finishing
<1>5. TypeOK' /\ Created'
  BY <1>1, <1>3 DEF Inv, TypeOK, Pcs, Created
<1>6. Copied' /\ Attempted'
  BY <1>1, <1>2, <1>3 DEF Inv, Copied, Attempted
<1>7. Tasked' /\ Waited'
  BY <1>1, <1>2, <1>3 DEF Inv, Tasked, Waited
<1>8. Voided'
  BY <1>1, <1>2, <1>3 DEF Inv, Voided
<1> QED BY <1>4, <1>5, <1>6, <1>7, <1>8 DEF Inv

LEMMA StutterKeeps == Inv /\ UNCHANGED vars => Inv'
<1> SUFFICES ASSUME Inv, UNCHANGED vars PROVE Inv'
  OBVIOUS
<1>1. receipts' \subseteq Models
  BY DEF Inv, TypeOK, vars
<1> QED BY <1>1, SameBesideReceipts DEF vars

\* Every action keeps the invariant.
LEMMA NextKeeps ==
  ASSUME Inv, [Next]_vars
  PROVE  Inv'
<1>1. CASE Run \/ ReadResult
  BY <1>1, RunKeeps, ReadResultKeeps
<1>2. CASE Verdict
  BY <1>2, InvalidKeeps, OutageKeeps, StartVerifiedKeeps, EndVerifiedKeeps, RecheckKeeps,
     AdmitKeeps, PollVerifiedKeeps, PollFailsKeeps, AwaitInputKeeps DEF Verdict
<1>3. CASE Poll \/ PollRaises
  BY <1>3, PollKeeps, PollFailsKeeps
<1>4. CASE Compute
  BY <1>4, ClearCheckpointsKeeps, LookKeeps, SettleKeeps, CollectKeeps, CollectedKeeps,
     DrainPublishKeeps, DrainEndKeeps DEF Compute
<1>5. ASSUME NEW s \in Models, TaskStep(s) PROVE Inv'
  <2>1. CASE PutCheckpoint(s)
    <3>1. receipts' \subseteq Models
      BY <2>1 DEF PutCheckpoint, Inv, TypeOK
    <3> QED BY <2>1, <3>1, SameBesideReceipts DEF PutCheckpoint
  <2> QED BY <1>5, <2>1, TaskBeginsKeeps, TaskEndsKeeps, TaskDroppedKeeps DEF TaskStep
<1>6. ASSUME NEW status \in {"cancelled", "deadline"},
             Interrupt(status) \/ InterruptDrain(status)
      PROVE  Inv'
  BY <1>6, InterruptKeeps, InterruptDrainKeeps
<1>7. CASE Crash
  BY <1>7, CrashKeeps
<1>8. CASE UNCHANGED vars
  BY <1>8, StutterKeeps
<1> QED BY <1>1, <1>2, <1>3, <1>4, <1>5, <1>6, <1>7, <1>8 DEF Next

\* Every state a run reaches satisfies the invariant.
LEMMA Invariance == Spec => []Inv
<1>1. Inv /\ [Next]_vars => Inv'
  BY NextKeeps
<1> QED BY <1>1, InitInv, PTL DEF Spec

-----------------------------------------------------------------------------
(* What follows from the invariant.                                         *)

\* The journal and the rows of every run fit their schema, and the run is always
\* somewhere in the code.
THEOREM TypeCorrect == Spec => []TypeOK
<1>1. Inv => TypeOK
  BY DEF Inv
<1> QED BY <1>1, Invariance, PTL

\* The journal is free for another run only when no task of this one goes on, and
\* max_parallel is respected: where asyncio.wait_for waits for what it cancelled.
THEOREM OwnedWorkers == Waits => (Spec => []WorkersAreOwned)
<1> SUFFICES ASSUME Waits PROVE Spec => []WorkersAreOwned
  OBVIOUS
<1>1. Inv => WorkersAreOwned
  <2> SUFFICES ASSUME Inv PROVE WorkersAreOwned
    OBVIOUS
  <2>1. Live \subseteq Active
    BY DEF Live, Active
  <2>2. pc \in Resting \cup {"detached"} => Live = {}
    BY <2>1 DEF Inv, AtRest, Finishing
  <2>3. Cardinality(Live) <= Cardinality(Active)
    BY <2>1, FiniteTasks, Typed, FS_Subset
  <2>4. Cardinality(Live) \in Nat /\ Cardinality(Active) \in Nat
    BY <2>1, FiniteTasks, Typed
  <2>5. Cardinality(Live) <= MaxParallel
    BY <2>3, <2>4, Places DEF Inv, Tasked
  <2> QED BY <2>2, <2>5 DEF WorkersAreOwned
<1> QED BY <1>1, Invariance, PTL

\* Where a task that returned is let go, its result is in the journal, the sources
\* were found invalid, or the process died.
LEMMA KeptStep ==
  ASSUME Inv, [Next]_vars, NEW s \in Models, task[s] = "returned", task'[s] = "none"
  PROVE  s \in journal'.results \/ row.status = "sources_invalid" \/ pc' = "dead"
<1>1. task \in [Models -> {"none", "created", "running", "returned", "failed"}]
      /\ row \in RowType /\ Models \subseteq Steps
  BY DEF Inv, TypeOK, Models
<1>2. task' # task /\ s \in Returned
  BY <1>1 DEF Returned
<1>3. CASE Admit
  <2>1. pass.at \notin Active
    BY <1>3 DEF Admit, Inv, LookedAt
  <2> QED BY <1>1, <1>3, <2>1 DEF Admit, Active
<1>4. CASE Collect
  <2>1. PICK t \in Least(Returned) :
          /\ Save(WithResult(row, t), row, "collect")
          /\ task' = IF pc' = "collect" THEN [task EXCEPT ![t] = "none"] ELSE task
    BY <1>4 DEF Collect
  <2>2. t = s /\ pc' = "collect"
    BY <1>1, <1>2, <2>1
  <2>3. journal' = WithResult(row, s)
    BY <2>1, <2>2 DEF Save
  <2> QED BY <1>1, <2>3, OneMore
<1>5. CASE DrainPublish
  <2>1. PICK t \in Least(Returned) :
          \/ /\ journal' = WithResult(row, t) /\ row' = journal'
             /\ task' = [task EXCEPT ![t] = "none"]
          \/ task' = [task EXCEPT ![t] = "failed"] /\ UNCHANGED <<journal, row>>
    BY <1>5 DEF DrainPublish
  <2>2. t = s /\ journal' = WithResult(row, s)
    BY <1>1, <2>1
  <2> QED BY <1>1, <2>2, OneMore
<1>6. CASE DrainEnd
  BY <1>2, <1>6 DEF DrainEnd, MayPublish, Drained
<1>7. CASE Crash
  BY <1>7 DEF Crash
<1>8. ASSUME NEW t \in Models, TaskStep(t) PROVE FALSE
  BY <1>1, <1>2, <1>8 DEF TaskStep, TaskBegins, TaskEnds, TaskDropped, PutCheckpoint
<1>9. ASSUME NEW status \in {"cancelled", "deadline"},
             Interrupt(status) \/ InterruptDrain(status)
      PROVE  FALSE
  BY <1>2, <1>9 DEF Interrupt, InterruptDrain
<1>10. CASE Verdict /\ ~Admit
  BY <1>2, <1>10
  DEF Verdict, Invalid, Outage, StartVerified, EndVerified, Recheck, PollVerified,
      InputTooLarge, AwaitInput
<1>11. CASE Run \/ ReadResult \/ Poll \/ PollRaises \/ UNCHANGED vars
  BY <1>2, <1>11 DEF Run, ReadResult, Poll, PollRaises, vars
<1>12. CASE ClearCheckpoints \/ Look \/ Settle \/ Collected
  BY <1>2, <1>12 DEF ClearCheckpoints, Look, Settle, Collected
<1> QED BY <1>3, <1>4, <1>5, <1>6, <1>7, <1>8, <1>9, <1>10, <1>11, <1>12 DEF Next, Compute

\* No returned result is lost to a sibling's failure, a cancellation or a deadline.
THEOREM ReturnedKept == Spec => ReturnedIsKept
<1>1. Inv /\ [Next]_vars =>
        [\A s \in Models : task[s] = "returned" /\ task'[s] = "none" =>
           s \in journal'.results \/ row.status = "sources_invalid" \/ pc' = "dead"]_vars
  BY KeptStep
<1> QED BY <1>1, Invariance, PTL DEF Spec, ReturnedIsKept

\* At verifyAwait nothing is committed but the answer, or what says something else.
LEMMA AwaitStep ==
  ASSUME Inv, [Next]_vars, pc = "verifyAwait", journal'.status = "awaiting_input"
  PROVE  /\ journal'.results = row.results /\ journal'.waiting = row.waiting
         /\ journal'.attempts = row.attempts
<1>1. row = journal /\ Active = {} /\ row \in RowType
  BY DEF Inv, Copied, Finishing, TypeOK
<1>2. CASE AwaitInput
  BY <1>1, <1>2 DEF AwaitInput, Save, RowType
<1>3. CASE Outage
  BY <1>1, <1>3 DEF Outage, Fail, Save, RowType
<1>4. CASE Invalid
  BY <1>1, <1>4 DEF Invalid, Save, RowType
<1>5. CASE Crash \/ UNCHANGED vars
  BY <1>1, <1>5 DEF Crash, vars
<1>6. ASSUME NEW status \in {"cancelled", "deadline"},
             Interrupt(status) \/ InterruptDrain(status)
      PROVE  journal' = journal
  BY <1>6 DEF Interrupt, InterruptDrain, Goto
<1>7. ASSUME NEW s \in Models, TaskStep(s)
      PROVE  journal' = journal
  BY <1>7 DEF TaskStep, TaskBegins, TaskEnds, TaskDropped, PutCheckpoint
<1>8. ~Run /\ ~ReadResult /\ ~Poll /\ ~PollRaises
  BY DEF Run, ReadResult, Poll, PollRaises
<1>9. ~Compute
  BY DEF Compute, ClearCheckpoints, Look, Settle, Collect, Collected, DrainPublish, DrainEnd,
         MayPublish, Drained
<1>10. Verdict => AwaitInput \/ Outage \/ Invalid
  BY DEF Verdict, StartVerified, EndVerified, Recheck, Admit, PollVerified, InputTooLarge
<1> QED BY <1>1, <1>2, <1>3, <1>4, <1>5, <1>6, <1>7, <1>8, <1>9, <1>10 DEF Next

\* A validated graph never leaves the scheduler stuck, and it answers awaiting_input
\* only when nothing but an input can move the run on.
THEOREM AwaitingBlocked == Spec => AwaitingIsBlocked
<1>1. ASSUME Inv, Inv', [Next]_vars
      PROVE  /\ ending' # "stuck"
             /\ pc = "verifyAwait" /\ journal'.status = "awaiting_input" =>
                  /\ ~Uncertain(journal') /\ journal'.waiting # {}
                  /\ journal'.waiting \cap journal'.results = {}
                  /\ \A s \in Steps \ journal'.results :
                       Deps[s] \subseteq journal'.results => s \in journal'.waiting
  <2>1. ending' # "stuck"
    BY <1>1 DEF Inv, Finishing
  <2>2. CASE pc = "verifyAwait" /\ journal'.status = "awaiting_input"
    <3>1. /\ journal'.results = row.results /\ journal'.waiting = row.waiting
          /\ journal'.attempts = row.attempts
      BY <1>1, <2>2, AwaitStep
    <3>2. /\ Active = {} /\ row.waiting # {} /\ row.waiting \cap row.results = {}
          /\ \A s \in Steps : IsDue(s) => s \in row.waiting
          /\ row.attempts \subseteq row.results \cup Active
      BY <1>1, <2>2 DEF Inv, Finishing, Waited, Attempted
    <3> QED BY <2>1, <3>1, <3>2 DEF IsDue, Uncertain
  <2> QED BY <2>1, <2>2
<1>2. Inv /\ Inv' /\ [Next]_vars =>
        [/\ ending' # "stuck"
         /\ pc = "verifyAwait" /\ journal'.status = "awaiting_input" =>
              /\ ~Uncertain(journal') /\ journal'.waiting # {}
              /\ journal'.waiting \cap journal'.results = {}
              /\ \A s \in Steps \ journal'.results :
                   Deps[s] \subseteq journal'.results => s \in journal'.waiting]_vars
  BY <1>1
<1> QED BY <1>2, Invariance, PTL DEF Spec, AwaitingIsBlocked

-----------------------------------------------------------------------------
(* The scheduler keeps the contract.                                        *)

\* Steps that the contract does not see: neither a call, a result nor a verdict.
Quiet == journal'.results = journal.results /\ UNCHANGED <<started, void>>

LEMMA QuietVerdict ==
  ASSUME Inv, Verdict, ~Invalid, ~PollVerified
  PROVE  Quiet
<1>1. /\ row \in RowType
      /\ UNCHANGED <<started, void>> /\ row = journal
  BY DEF Verdict, Inv, TypeOK, Copied, Outage, StartVerified, EndVerified, Recheck, Admit,
         InputTooLarge, AwaitInput
<1>2. ASSUME NEW status, Fail(status) PROVE Quiet
  BY <1>1, <1>2 DEF Fail, Save, RowType, Quiet
<1>3. CASE Outage \/ InputTooLarge
  BY <1>2, <1>3 DEF Outage, InputTooLarge
<1>4. CASE StartVerified
  BY <1>1, <1>2, <1>4 DEF StartVerified, Quiet
<1>5. CASE EndVerified
  BY <1>1, <1>5 DEF EndVerified, Save, RowType, Quiet
<1>6. CASE Recheck
  BY <1>1, <1>6 DEF Recheck, Goto, Quiet
<1>7. CASE Admit
  BY <1>1, <1>7 DEF Admit, Save, RowType, Quiet
<1>8. CASE AwaitInput
  BY <1>1, <1>8 DEF AwaitInput, Save, RowType, Quiet
<1> QED BY <1>3, <1>4, <1>5, <1>6, <1>7, <1>8 DEF Verdict

\* A verdict on the sources takes the results with it, once.
LEMMA InvalidStep ==
  ASSUME Waits, Inv, Invalid
  PROVE  Contract!Invalidate \/ Quiet
<1>1. /\ row \in RowType /\ row = journal /\ ~IsInvalid(journal)
      /\ started' = started
  BY DEF Invalid, Inv, TypeOK, Copied
<1>2. CASE journal' = [row EXCEPT !.status = "sources_invalid", !.results = {}]
  <2>1. journal'.results = {} /\ void' = TRUE
    BY <1>1, <1>2 DEF Invalid, RowType
  <2>2. CASE void
    BY <1>1, <2>1, <2>2 DEF Inv, Voided, Quiet
  <2>3. CASE ~void
    BY <1>1, <2>1, <2>3 DEF Contract!Invalidate
  <2> QED BY <2>2, <2>3
<1>3. CASE journal' = journal
  <2>1. void' = void
    BY <1>1, <1>3 DEF Invalid, Inv, TypeOK
  <2> QED BY <1>1, <1>3, <2>1 DEF Quiet
<1> QED BY <1>2, <1>3 DEF Invalid, Save

\* An input that was found, and is still due, is kept.
LEMMA PollStep ==
  ASSUME Waits, Inv, PollVerified
  PROVE  Quiet \/ \E s \in Steps : Contract!Keep(s)
<1> DEFINE s == pass.at
<1>1. /\ pc = "verifyPoll" /\ UNCHANGED <<started, void>> /\ row = journal
      /\ row \in RowType /\ ~void
  BY DEF PollVerified, Inv, TypeOK, Copied, Voided
<1>2. IsDue(s) /\ s \in Inputs /\ s \in Steps
  BY <1>1, Typed DEF Inv, LookedAt
<1>3. CASE journal' = WithResult(row, s)
  <2>1. journal'.results = journal.results \cup {s}
    BY <1>1, <1>2, <1>3, OneMore
  <2>2. Contract!Keep(s)
    BY <1>1, <1>2, <2>1 DEF Contract!Keep, IsDue
  <2> QED BY <1>2, <2>2
<1>4. CASE journal' = [row EXCEPT !.waiting = @ \cup {s}] \/ journal' = journal
  BY <1>1, <1>4 DEF Quiet, RowType
<1> QED BY <1>3, <1>4 DEF PollVerified, Save

\* A result that a task returned is kept.
LEMMA ResultStep ==
  ASSUME Waits, Inv, NEW s \in Returned, ~IsInvalid(row), pc \notin Resting,
         pc \in Main => pc \in UnderWay, journal' = WithResult(row, s),
         UNCHANGED <<started, void>>
  PROVE  Contract!Keep(s)
<1>1. /\ s \in Active /\ s \in Steps /\ task[s] = "returned" /\ row \in RowType
      /\ pc # "detached"
  BY Typed DEF Returned, Active, Models, Inv, Finishing
<1>2. /\ s \notin row.results /\ Deps[s] \subseteq row.results /\ started[s] > 0
  BY <1>1 DEF Inv, Tasked
<1>3. row.results = journal.results /\ ~void
  BY <1>1 DEF Inv, Copied, Voided
<1>4. journal'.results = journal.results \cup {s}
  BY <1>1, <1>3, OneMore
<1> QED BY <1>2, <1>3, <1>4 DEF Contract!Keep

LEMMA ComputeStep ==
  ASSUME Waits, Inv, Compute
  PROVE  Quiet \/ Contract!Invalidate \/ \E s \in Steps : Contract!Keep(s)
<1>1. Returned \subseteq Steps
  BY Typed DEF Returned
<1>2. CASE Collect
  <2>1. PICK s \in Least(Returned) : Save(WithResult(row, s), row, "collect")
    BY <1>2 DEF Collect
  <2>2. /\ pc \in {"wait", "collect"} /\ UNCHANGED <<started, void>>
        /\ s \in Returned /\ ~IsInvalid(row)
    BY <1>2 DEF Collect, Least, Inv, Copied
  <2>3. CASE journal' = WithResult(row, s)
    BY <1>1, <2>2, <2>3, ResultStep
  <2>4. CASE journal' = journal
    BY <2>2, <2>4 DEF Quiet
  <2> QED BY <2>1, <2>3, <2>4 DEF Save
<1>3. CASE DrainPublish
  <2>1. PICK s \in Least(Returned) : journal' = WithResult(row, s) \/ journal' = journal
    BY <1>3 DEF DrainPublish
  <2>2. /\ pc \in Draining /\ UNCHANGED <<started, void>>
        /\ s \in Returned /\ ~IsInvalid(row)
    BY <1>3 DEF DrainPublish, MayPublish, Drained, Least
  <2>3. CASE journal' = WithResult(row, s)
    BY <1>1, <2>2, <2>3, ResultStep
  <2>4. CASE journal' = journal
    BY <2>2, <2>4 DEF Quiet
  <2> QED BY <2>1, <2>3, <2>4
<1>4. CASE DrainEnd
  <2>1. /\ pc \in Draining /\ started' = started
        /\ \/ UNCHANGED <<journal, void>>
           \/ /\ journal' = [row EXCEPT !.status = ending]
              /\ void' = (void \/ row.status = "sources_invalid")
    BY <1>4 DEF DrainEnd, Drained
  <2>2. CASE UNCHANGED <<journal, void>>
    BY <2>1, <2>2 DEF Quiet
  <2>3. CASE /\ journal' = [row EXCEPT !.status = ending]
             /\ void' = (void \/ row.status = "sources_invalid")
    <3>1. journal'.results = row.results
      BY <2>3, Typed DEF RowType
    <3>2. CASE IsInvalid(row)
      <4>1. journal'.results = {} /\ void' = TRUE
        BY <2>3, <3>1, <3>2 DEF Inv, Voided
      <4>2. CASE void
        BY <2>1, <4>1, <4>2 DEF Inv, Voided, Quiet
      <4>3. CASE ~void
        BY <2>1, <4>1, <4>3 DEF Contract!Invalidate
      <4> QED BY <4>2, <4>3
    <3>3. CASE ~IsInvalid(row)
      <4>1. row.results = journal.results /\ void' = void
        BY <2>1, <2>3, <3>3 DEF Inv, Copied, TypeOK
      <4> QED BY <2>1, <3>1, <4>1 DEF Quiet
    <3> QED BY <3>2, <3>3
  <2> QED BY <2>1, <2>2, <2>3
<1>5. CASE Collected
  <2>1. /\ row \in RowType /\ row = journal /\ UNCHANGED <<started, void>>
        /\ Fail("failed") \/ UNCHANGED journal
    BY <1>5 DEF Collected, Inv, TypeOK, Copied
  <2> QED BY <2>1 DEF Fail, Save, RowType, Quiet
<1>6. CASE ClearCheckpoints \/ Look \/ Settle
  BY <1>6 DEF ClearCheckpoints, Look, Settle, Goto, Quiet
<1> QED BY <1>2, <1>3, <1>4, <1>5, <1>6 DEF Compute

\* A task begins with the first call of a step that everything is there for.
LEMMA BeginStep ==
  ASSUME Waits, Inv, NEW s \in Models, TaskBegins(s)
  PROVE  Contract!Call(s)
<1>1. /\ s \in Active /\ s \in Steps /\ task[s] = "created" /\ pc \in Awaiting
      /\ started' = [started EXCEPT ![s] = @ + 1] /\ UNCHANGED <<journal, void>>
  BY DEF TaskBegins, Active, Models
<1>2. row = journal /\ ~IsInvalid(row)
  BY <1>1 DEF Inv, Copied
<1>3. started[s] = 0 /\ s \notin journal.results /\ Deps[s] \subseteq journal.results
  BY <1>1, <1>2 DEF Inv, Tasked
<1>4. ~void
  BY <1>1 DEF Inv, Voided, AtStart
<1> QED BY <1>1, <1>3, <1>4 DEF Contract!Call

LEMMA ContractStep ==
  ASSUME Waits, Inv, [Next]_vars
  PROVE  [Contract!Next]_(Contract!contractVars)
<1>1. CASE Quiet
  BY <1>1 DEF Quiet, Contract!contractVars
<1>2. CASE Contract!Invalidate \/ \E s \in Steps : Contract!Call(s) \/ Contract!Keep(s)
  BY <1>2 DEF Contract!Next
<1>3. CASE Verdict
  BY <1>1, <1>2, <1>3, QuietVerdict, InvalidStep, PollStep
<1>4. CASE Compute
  BY <1>1, <1>2, <1>4, ComputeStep
<1>5. CASE Run
  <2>1. CASE journal.status = "absent"
    <3>1. journal = Absent
      BY <2>1 DEF Inv, Created
    <3>2. journal'.results = journal.results
      BY <1>5, <2>1, <3>1, AbsentRow DEF Run, RowType
    <3> QED BY <1>1, <1>5, <3>2 DEF Run, Quiet
  <2>2. CASE journal.status # "absent"
    BY <1>1, <1>5, <2>2 DEF Run, Quiet
  <2> QED BY <2>1, <2>2
<1>6. CASE Poll \/ PollRaises
  <2>1. /\ row \in RowType /\ row = journal /\ UNCHANGED <<started, void>>
        /\ Fail("verification_unavailable") \/ Fail("failed") \/ UNCHANGED journal
    BY <1>6 DEF Poll, PollRaises, Goto, Inv, TypeOK, Copied
  <2> QED BY <1>1, <2>1 DEF Fail, Save, RowType, Quiet
<1>7. ASSUME NEW s \in Models, TaskStep(s)
      PROVE  [Contract!Next]_(Contract!contractVars)
  <2>1. CASE TaskBegins(s)
    BY <1>2, <2>1, BeginStep DEF Models
  <2>2. CASE ~TaskBegins(s)
    BY <1>1, <1>7, <2>2 DEF TaskStep, TaskEnds, TaskDropped, PutCheckpoint, Quiet
  <2> QED BY <2>1, <2>2
<1>8. ASSUME NEW status \in {"cancelled", "deadline"},
             Interrupt(status) \/ InterruptDrain(status)
      PROVE  Quiet
  BY <1>8 DEF Interrupt, InterruptDrain, Goto, Quiet
<1>9. CASE ReadResult \/ Crash \/ UNCHANGED vars
  BY <1>1, <1>9 DEF ReadResult, Crash, vars, Quiet
<1> QED BY <1>1, <1>3, <1>4, <1>5, <1>6, <1>7, <1>8, <1>9 DEF Next

\* Every behaviour of the scheduler, seen through the journal, is one the contract
\* allows: a step is called once, after everything it builds on, its result is kept,
\* and a verdict against the sources is final.  A wait_for that detaches breaks it:
\* the status it saves replaces the verdict, and results are published after it.
THEOREM ContractKept == Waits => (Spec => KeepsContract)
<1> SUFFICES ASSUME Waits PROVE Spec => KeepsContract
  OBVIOUS
<1>1. Init => Contract!Init
  BY AbsentRow DEF Init, Contract!Init
<1>2. Inv /\ [Next]_vars => [Contract!Next]_(Contract!contractVars)
  BY ContractStep
<1> QED BY <1>1, <1>2, Invariance, PTL DEF Spec, KeepsContract, Contract!Spec
=============================================================================
