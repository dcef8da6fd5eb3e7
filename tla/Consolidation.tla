---------------------------- MODULE Consolidation ----------------------------
(***************************************************************************)
(* How stored episodes are read into claims: the receipts of the batches    *)
(* they came with, and the passes of one Distiller over the episodes that   *)
(* no claim cites.  The server's worker runs passes for ever and            *)
(* POST /v1/consolidate runs more beside it.  Receipts and claims are in    *)
(* the SQLite file, which the console of another process may change too;    *)
(* the failures that park an episode live in the server's memory only.      *)
(*                                                                          *)
(* A pass is interrupted where it awaits the model, and where it tells the  *)
(* event log a claim or its report, which may be a service.  Episodes are   *)
(* numbered in the order in which a pass takes them, oldest first.  A       *)
(* record told again after it was forgotten is another episode: its batch   *)
(* is not followed.                                                         *)
(***************************************************************************)
EXTENDS FiniteSets, Integers

CONSTANTS Episodes,
          Passes,       \* the coroutines that run passes
          Worker,       \* the one of ConsolidationWorker._loop
          Requests,     \* request ids
          Batch,        \* the episodes the records of a request become
          Clients,      \* the calls that submit batches
          MaxAttempts,  \* failures that park an episode
          Limit,        \* episodes one pass sends to the model
          MaxClaims,    \* bound: claims in one answer
          MaxFaults     \* bound: crashes, errors, retries, removals, requests
                        \* sent again, calls of the console

ASSUME ConsolidationAssumption ==
  /\ Episodes \subseteq Nat
  /\ IsFiniteSet(Passes) /\ Worker \in Passes
  /\ Batch \in [Requests -> SUBSET Episodes]
  /\ MaxAttempts \in Nat \ {0} /\ Limit \in Nat \ {0}
  /\ MaxClaims \in Nat /\ MaxFaults \in Nat

VARIABLES stored,     \* the episodes in the store
          forgotten,  \* those that were
          cited,      \* the episodes some claim names as its source
          job,        \* per request id: the receipt
          items,      \* per request id and episode: the item of the receipt
          console,    \* the receipts a cancellation in another process read
          failures,   \* Distiller._failures, 0 where there is no entry
          done,       \* Distiller._done
          pass,       \* the passes under way
          submission, \* what each client's call is about to do
          faults

receipts == <<job, items>>
memory == <<failures, done>>
vars == <<stored, forgotten, cited, receipts, console, memory, pass, submission, faults>>

Unread == [state |-> "searchable", attempts |-> 0]
Resting == [pc |-> "idle", at |-> 0, queue |-> {}, sent |-> 0, claims |-> 0]
Reporting == [Resting EXCEPT !.pc = "report"]
Ended == [Resting EXCEPT !.pc = "ended"]
NoCall == [pc |-> "idle"]

Init ==
  /\ stored = {} /\ forgotten = {} /\ cited = {}
  /\ job = [r \in Requests |-> "none"]
  /\ items = [r \in Requests |-> [e \in Batch[r] |-> Unread]]
  /\ console = {}
  /\ failures = [e \in Episodes |-> 0] /\ done = {}
  /\ pass = [p \in Passes |-> Resting]
  /\ submission = [c \in Clients |-> NoCall]
  /\ faults = 0

\* What happens rarely, within the bound.
Fault == faults < MaxFaults /\ faults' = faults + 1

\* An episode that was told without asking for a receipt.
Remember(e) ==
  /\ e \notin stored \cup forgotten
  /\ stored' = stored \cup {e}
  /\ UNCHANGED <<forgotten, cited, receipts, console, memory, pass, submission, faults>>

-----------------------------------------------------------------------------
(* Submitting a batch under a request id.                                   *)

UnderWay(r) == \E c \in Clients : submission[c].pc # "idle" /\ submission[c].request = r

\* A request that has a receipt is answered with it; another goes to the embedder,
\* even one that is sent again while it is under way.
Submit(c, r) ==
  /\ submission[c].pc = "idle"
  /\ job[r] = "none"
  /\ Batch[r] \cap forgotten = {}
  /\ submission' = [submission EXCEPT ![c] = [pc |-> "embed", request |-> r]]
  /\ IF UnderWay(r) THEN Fault ELSE UNCHANGED faults
  /\ UNCHANGED <<stored, forgotten, cited, receipts, console, memory, pass>>

\* remember_many, which is all or nothing; records that are stored are found again.
Land(c) ==
  /\ submission[c].pc = "embed"
  /\ Batch[submission[c].request] \cap forgotten = {}
  /\ stored' = stored \cup Batch[submission[c].request]
  /\ submission' = [submission EXCEPT ![c].pc = "receipt"]
  /\ UNCHANGED <<forgotten, cited, receipts, console, memory, pass, faults>>

\* Mutant of RequestTaken: the second receipt replaces the first.
RequestReplaced(r) == FALSE

\* The index over the request ids refuses a second receipt: the call raises.
RequestTaken(r) == job[r] # "none"

Receipt(c) ==
  /\ submission[c].pc = "receipt"
  /\ LET r == submission[c].request
     IN  IF RequestTaken(r) THEN UNCHANGED receipts
           ELSE /\ job' = [job EXCEPT ![r] = "open"]
                /\ items' = [items EXCEPT ![r] = [e \in Batch[r] |-> Unread]]
  /\ submission' = [submission EXCEPT ![c] = NoCall]
  /\ UNCHANGED <<stored, forgotten, cited, console, memory, pass, faults>>

-----------------------------------------------------------------------------
(* Cancelling a receipt.                                                    *)

\* The items as cancel_job writes them back: those read before stay as they are.
Abandoned(kept) ==
  [e \in DOMAIN kept |-> IF kept[e].state = "consolidated" THEN kept[e]
                         ELSE [kept[e] EXCEPT !.state = "cancelled"]]

\* In the server nothing comes between reading the receipt and writing it back.
Cancel(r) ==
  /\ job[r] = "open"
  /\ job' = [job EXCEPT ![r] = "cancelled"]
  /\ items' = [items EXCEPT ![r] = Abandoned(@)]
  /\ UNCHANGED <<stored, forgotten, cited, console, memory, pass, submission, faults>>

\* The console reads the receipt and writes it back, whatever it has become.
ConsoleReads(r) ==
  /\ Fault
  /\ console = {}
  /\ job[r] = "open"
  /\ console' = {[request |-> r, items |-> items[r]]}
  /\ UNCHANGED <<stored, forgotten, cited, receipts, memory, pass, submission>>

ConsoleWrites ==
  /\ \E copy \in console :
       /\ job' = [job EXCEPT ![copy.request] = "cancelled"]
       /\ items' = [items EXCEPT ![copy.request] = Abandoned(copy.items)]
  /\ console' = {}
  /\ UNCHANGED <<stored, forgotten, cited, memory, pass, submission, faults>>

-----------------------------------------------------------------------------
(* What a pass writes on the receipts: on the items of an episode in every   *)
(* receipt, but never on one that says the episode was read.                 *)

Marks(r, i, e) == i = e /\ job[r] # "none" /\ items[r][i].state # "consolidated"

MarkFailed(e) ==
  items' = [r \in Requests |-> [i \in Batch[r] |->
    IF Marks(r, i, e)
      THEN [state |-> "failed", attempts |-> items[r][i].attempts + 1]
      ELSE items[r][i]]]

MarkConsolidated(e) ==
  items' = [r \in Requests |-> [i \in Batch[r] |->
    IF Marks(r, i, e) THEN [items[r][i] EXCEPT !.state = "consolidated"]
                      ELSE items[r][i]]]

-----------------------------------------------------------------------------
(* One pass: distill_pending.                                               *)

Parked(e) == failures[e] >= MaxAttempts

Pending == stored \ (cited \cup done)

\* Mutants of Taken: one episode too many is sent, parked ones are sent too, or
\* they use up the limit.
TakenBeyond(queue, sent, parked) ==
  {e \in queue \ parked : sent <= Limit /\ \A i \in queue \ parked : e <= i}
TakenParked(queue, sent, parked) ==
  {e \in queue : sent < Limit /\ \A i \in queue : e <= i}
TakenCounted(queue, sent, parked) ==
  {e \in queue \ parked : /\ sent + Cardinality(queue \cap parked) < Limit
                         /\ \A i \in queue \ parked : e <= i}

\* The episode a pass sends next, if any, the oldest: parked ones are passed over
\* and do not use up the limit.
Taken(queue, sent, parked) ==
  {e \in queue \ parked : sent < Limit /\ \A i \in queue \ parked : e <= i}

\* A pass goes on from a queue, or comes to its report; `parked` is what is parked
\* by then.
Turn(p, queue, sent, parked) ==
  LET taken == Taken(queue, sent, parked) IN
  \/ taken = {} /\ pass' = [pass EXCEPT ![p] = Reporting]
  \/ \E e \in taken :
       pass' = [pass EXCEPT ![p] = [pc |-> "model", at |-> e,
         queue |-> {i \in queue : i > e}, sent |-> sent + 1, claims |-> 0]]

Begin(p) ==
  /\ pass[p].pc = "idle"
  /\ Turn(p, Pending, 0, {e \in Episodes : Parked(e)})
  /\ UNCHANGED <<stored, forgotten, cited, receipts, console, memory, submission, faults>>

\* The model answered with something readable: so many claims to write.
Answer(p, n) ==
  /\ pass[p].pc = "model"
  /\ pass' = [pass EXCEPT ![p].pc = "apply", ![p].claims = n]
  /\ UNCHANGED <<stored, forgotten, cited, receipts, console, memory, submission, faults>>

\* A claim with a quote of the episode; an episode that is gone refuses it.
Claim(p) ==
  /\ pass[p].pc = "apply" /\ pass[p].claims > 0
  /\ pass[p].at \in stored
  /\ cited' = cited \cup {pass[p].at}
  /\ pass' = [pass EXCEPT ![p].claims = @ - 1]
  /\ UNCHANGED <<stored, forgotten, receipts, console, memory, submission, faults>>

\* _attempt's error path: the model's answer, or a claim of it, was refused.
Refused(p) ==
  \/ pass[p].pc = "model"
  \/ pass[p].pc = "apply" /\ pass[p].claims > 0

CountFailure(e) == failures' = [failures EXCEPT ![e] = @ + 1]

Fail(p) ==
  /\ Refused(p)
  /\ CountFailure(pass[p].at)
  /\ MarkFailed(pass[p].at)
  /\ Turn(p, pass[p].queue, pass[p].sent,
          {e \in Episodes : failures'[e] >= MaxAttempts})
  /\ UNCHANGED <<stored, forgotten, cited, job, console, done, submission, faults>>

Finish(p) ==
  /\ pass[p].pc = "apply" /\ pass[p].claims = 0
  /\ MarkConsolidated(pass[p].at)
  /\ failures' = [failures EXCEPT ![pass[p].at] = 0]
  /\ done' = done \cup {pass[p].at}
  /\ Turn(p, pass[p].queue, pass[p].sent,
          {e \in Episodes : failures'[e] >= MaxAttempts})
  /\ UNCHANGED <<stored, forgotten, cited, job, console, submission, faults>>

\* An error that is not the engine's own ends the reading, and counts nowhere.
TransportError(p) ==
  /\ Fault
  /\ pass[p].pc \notin {"report", "ended"}
  /\ pass' = [pass EXCEPT ![p] = Reporting]
  /\ UNCHANGED <<stored, forgotten, cited, receipts, console, memory, submission>>

-----------------------------------------------------------------------------
(* The end of a pass: what is past its days is forgotten (Forget), and the   *)
(* event log takes the report.                                              *)

Report(p) ==
  /\ pass[p].pc = "report"
  /\ pass' = [pass EXCEPT ![p] = Resting]
  /\ UNCHANGED <<stored, forgotten, cited, receipts, console, memory, submission, faults>>

\* An error here leaves run_once.  A pass by hand is answered with it; in the
\* worker it ends the loop, and start() makes no other one beside it.
ReportFails(p) ==
  /\ Fault
  /\ pass[p].pc = "report"
  /\ pass' = [pass EXCEPT ![p] = IF p = Worker THEN Ended ELSE Resting]
  /\ UNCHANGED <<stored, forgotten, cited, receipts, console, memory, submission>>

-----------------------------------------------------------------------------
(* The environment.                                                         *)

\* retry, of some episodes or of the whole space; the durable counts stay.
Retry(asked) ==
  /\ Fault
  /\ \E e \in asked : failures[e] > 0
  /\ failures' = [e \in Episodes |-> IF e \in asked THEN 0 ELSE failures[e]]
  /\ UNCHANGED <<stored, forgotten, cited, receipts, console, done, pass, submission>>

Forget(e) ==
  /\ Fault
  /\ e \in stored
  /\ stored' = stored \ {e}
  /\ forgotten' = forgotten \cup {e}
  /\ UNCHANGED <<cited, receipts, console, memory, pass, submission>>

\* The server dies and comes back; its memory is empty, the console's process lives.
Crash ==
  /\ Fault
  /\ failures' = [e \in Episodes |-> 0] /\ done' = {}
  /\ pass' = [p \in Passes |-> Resting]
  /\ submission' = [c \in Clients |-> NoCall]
  /\ UNCHANGED <<stored, forgotten, cited, receipts, console>>

PassStep(p) ==
  \/ Begin(p) \/ Claim(p) \/ Fail(p) \/ Finish(p) \/ Report(p)
  \/ \E n \in 0..MaxClaims : Answer(p, n)

Next ==
  \/ \E c \in Clients : Land(c) \/ Receipt(c) \/ \E r \in Requests : Submit(c, r)
  \/ \E r \in Requests : Cancel(r) \/ ConsoleReads(r)
  \/ ConsoleWrites
  \/ \E p \in Passes : PassStep(p) \/ TransportError(p) \/ ReportFails(p)
  \/ \E asked \in SUBSET Episodes : Retry(asked)
  \/ \E e \in Episodes : Remember(e) \/ Forget(e)
  \/ Crash

Spec == Init /\ [][Next]_vars

\* The worker goes on as long as its loop does: the model answers or its call times
\* out, the event log takes the report or refuses it.  An ended loop takes no step.
FairSpec == Spec /\ WF_vars(PassStep(Worker))

-----------------------------------------------------------------------------
(* Properties.                                                              *)

ItemType == [state : {"searchable", "failed", "cancelled", "consolidated"}, attempts : Nat]

\* The state keeps its types, and a pass sends no more than its limit.
TypeOK ==
  /\ stored \subseteq Episodes /\ forgotten \subseteq Episodes \ stored
  /\ cited \subseteq Episodes
  /\ job \in [Requests -> {"none", "open", "cancelled"}]
  /\ items = [r \in Requests |-> items[r]]
  /\ \A r \in Requests : items[r] \in [Batch[r] -> ItemType]
  /\ \A copy \in console : copy.request \in Requests
                          /\ copy.items \in [Batch[copy.request] -> ItemType]
  /\ failures \in [Episodes -> Nat] /\ done \subseteq Episodes
  /\ pass \in [Passes -> [pc : {"idle", "model", "apply", "report", "ended"}, at : Episodes \cup {0},
                          queue : SUBSET Episodes, sent : 0..Limit, claims : 0..MaxClaims]]
  /\ \A p \in Passes : pass[p].pc \in {"model", "apply"} => pass[p].at \in Episodes
  /\ submission \in [Clients -> {NoCall} \cup
                        [pc : {"embed", "receipt"}, request : Requests]]
  /\ faults \in 0..MaxFaults

\* "At max_attempts it parks" (distill_pending): the count is looked at before the
\* model is awaited and goes up after it, so passes that run side by side may each
\* add one more failure, and no more than that, whatever finishes in between.
AttemptsAreBounded ==
  \A e \in Episodes : failures[e] < MaxAttempts + Cardinality(Passes)

\* "What has already been read stays read" (cancel_job), and an attempt that was
\* counted stays counted, whichever call is repeated or comes late: only a
\* cancellation that read the receipt in another process may set it back.
Falls(r, e) ==
  \/ items[r][e].state = "consolidated" /\ items'[r][e].state # "consolidated"
  \/ items'[r][e].attempts < items[r][e].attempts
ReceiptsOnlyGrow ==
  [][\A r \in Requests : \A e \in Batch[r] : Falls(r, e) =>
       /\ job'[r] = "cancelled"
       /\ \E copy \in console \ console' :
            copy.request = r /\ copy.items[e] # items[r][e]]_vars

\* Every stored episode is read, parked or forgotten in the end: those that keep
\* failing starve none that come after them, although a pass is limited ("a
\* poisoned record should not burn a model call every pass forever", retry).  Only
\* an error at the end of a pass may leave it unread, for it ends the worker.
Settled(e) == e \notin stored \/ e \in cited \cup done \/ Parked(e)
RecordsSettle ==
  \A e \in Episodes : e \in stored ~> Settled(e) \/ pass[Worker].pc = "ended"

=============================================================================
