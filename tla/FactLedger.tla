----------------------------- MODULE FactLedger -----------------------------
(***************************************************************************)
(* The ledger of one slot (one subject and predicate of a space) in the     *)
(* document store: facts with the days they hold on, the restatements kept  *)
(* beside them, and the decisions of people.  Facts are told in any order of *)
(* their days; each one is placed so that the slot stays a timeline.        *)
(*                                                                          *)
(* On the embedded store no call of an operation waits, so an operation is   *)
(* one step, or what a crash leaves of it.  What a fact rests on is another  *)
(* table: whether a restatement has links is said where a link is inserted.  *)
(***************************************************************************)
EXTENDS Naturals, FiniteSets

CONSTANTS Objects,       \* values of the slot
          NoObject,      \* the object of an id no fact has
          MaxTime,       \* bound: days
          MaxFacts,      \* bound: facts ever inserted
          MaxRepeats,    \* bound: restatements kept at one time
          MaxProposals,  \* bound: facts proposed or declined at one time
          FollowFrayed,  \* bound: whether a frayed slot is followed further
          LinkCommits    \* inserting a link commits the transaction around it

ASSUME LedgerAssumption ==
  /\ MaxTime \in Nat \ {0} /\ MaxFacts \in Nat
  /\ MaxRepeats \in Nat /\ MaxProposals \in Nat
  /\ FollowFrayed \in BOOLEAN /\ LinkCommits \in BOOLEAN
  /\ NoObject \notin Objects
  /\ NoObject \notin [object : Objects \cup {NoObject}, end : Nat]

Times   == 1..MaxTime
Never   == MaxTime + 1
FactIds == 1..MaxFacts

VARIABLES facts,         \* documents: facts by id
          used,          \* documents: the last id given
          affirmations,  \* documents: restatements, [fact, from]
          now,           \* the engine's clock when a fact was last closed
          frayed         \* ghost: a reopened or a torn fact overlaps another

vars == <<facts, used, affirmations, now, frayed>>

Fresh(o, t, status) == [object |-> o, from |-> t, until |-> Never, status |-> status,
                        by |-> 0, reason |-> "none"]

NoFact == Fresh(NoObject, 1, "none")

-----------------------------------------------------------------------------
(* Where a fact that starts on day t lies among those of its slot.          *)

Stored == 1..used
Ledger == {i \in Stored : facts[i].status \in {"active", "closed"}}

\* The day lies in [valid_from, valid_until).
Covers(i, t) == facts[i].from <= t /\ t < facts[i].until
Covering(t)  == {i \in Ledger : Covers(i, t)}

Lowest(S) == {i \in S : \A j \in S : i <= j}

Restated(o, t) == Lowest({i \in Covering(t) : facts[i].object = o})

Later(t) == {i \in Ledger : facts[i].from > t}

\* Mutant: the successor is the fact recorded first, not the one that starts first.
SuccessorById(t) == Lowest(Later(t))

Successor(t) ==
  Lowest({i \in Later(t) : \A j \in Later(t) : facts[i].from <= facts[j].from})

\* Restatements after day t and before the fact's own end, and the first one.
Inside(i, t) == {a \in affirmations : a.fact = i /\ t < a.from /\ a.from < facts[i].until}
IsFirst(a, i, t) == a \in Inside(i, t) /\ \A b \in Inside(i, t) : a.from <= b.from

\* The covering fact whose claim resumes once it is cut on day t.
Resuming(t) == Lowest({i \in Covering(t) : Inside(i, t) # {}})

-----------------------------------------------------------------------------
Init ==
  /\ facts = [i \in FactIds |-> NoFact] /\ used = 0
  /\ affirmations = {}
  /\ now = 1 /\ frayed = FALSE

-----------------------------------------------------------------------------
(* Writing a fact into the ledger.                                          *)

\* A fact and what ends it: a later fact, or nothing.
Bounded(f, end, by) ==
  [f EXCEPT !.status = IF by = 0 THEN "active" ELSE "closed",
            !.until = end, !.by = by,
            !.reason = IF by = 0 THEN "none" ELSE "superseded"]

\* The reasons a person gives: any text, so also one that reads like those a cut
\* writes ("alike"), which begin with "superseded ".
PersonsReasons == {"person", "alike"}

\* The reason a cut leaves: what begins like one of its own gives way as well.
CutFor(reason) == IF reason \in {"none", "superseded", "alike"} THEN "superseded" ELSE reason

\* Mutant: a fact that is cut keeps the status it had.
CutOpen(f, t, n) == [f EXCEPT !.until = t, !.by = n, !.reason = CutFor(@)]

\* Mutant: a fact keeps naming the one that superseded it first.
CutFirst(f, t, n) ==
  [f EXCEPT !.status = "closed", !.until = t, !.by = IF @ = 0 THEN n ELSE @,
            !.reason = CutFor(@)]

\* Mutant: the end a person gave stays.
CutUnended(f, t, n) ==
  [f EXCEPT !.status = "closed", !.until = IF @ = Never THEN t ELSE @, !.by = n,
            !.reason = CutFor(@)]

\* Mutant: the reason is always that of the cut.
CutReason(f, t, n) ==
  [f EXCEPT !.status = "closed", !.until = t, !.by = n, !.reason = "superseded"]

\* truncate: the fact ends where the new one starts.
Cut(f, t, n) ==
  [f EXCEPT !.status = "closed", !.until = t, !.by = n, !.reason = CutFor(@)]

\* The claim of the fact goes on from its restatement, to the same end.
Resumed(f, t) == [f EXCEPT !.from = t]

\* Mutant: the later restatements stay with the fact that was cut.
MovedFirst(i, t, r) == {a \in affirmations : ~IsFirst(a, i, t)}

\* The later restatements move to the resumed fact; the first is used up.
Moved(i, t, r) ==
  (affirmations \ Inside(i, t))
    \cup {[a EXCEPT !.fact = r] : a \in {b \in Inside(i, t) : ~IsFirst(b, i, t)}}

\* f gets id n, bounded by the next fact of the slot; what covers it is cut.
EnterBounded(f, n) ==
  /\ Resuming(f.from) = {}
  /\ \E by \in IF Later(f.from) = {} THEN {0} ELSE Successor(f.from) :
       LET end == IF by = 0 THEN Never ELSE facts[by].from
           cut == Covering(f.from)
       IN  facts' = [i \in FactIds |->
                       IF i = n THEN Bounded(f, end, by)
                       ELSE IF i \in cut THEN Cut(facts[i], f.from, n) ELSE facts[i]]
  /\ UNCHANGED affirmations

\* f gets id n and is bounded by fact r, as which the claim it cuts resumes.
EnterResuming(f, n, r) ==
  \E i \in Resuming(f.from), a \in affirmations :
    /\ IsFirst(a, i, f.from)
    /\ LET cut == Covering(f.from) IN
       facts' = [j \in FactIds |->
                   IF j = n THEN Bounded(f, a.from, r)
                   ELSE IF j = r THEN Resumed(facts[i], a.from)
                   ELSE IF j \in cut THEN Cut(facts[j], f.from, n) ELSE facts[j]]
    /\ affirmations' = Moved(i, f.from, r)

-----------------------------------------------------------------------------
(* assert_fact.                                                             *)

\* affirm: a later day than the fact's own, once.
Affirmed(i, t) ==
  /\ affirmations' =
       IF t <= facts[i].from \/ \E a \in affirmations : a.fact = i /\ a.from = t
         THEN affirmations
         ELSE affirmations \cup {[fact |-> i, from |-> t]}
  /\ Cardinality(affirmations') <= MaxRepeats

\* The claim holds on that day already: its fact is answered.
Restate(o, t) ==
  /\ \E i \in Restated(o, t) : Affirmed(i, t)
  /\ UNCHANGED <<facts, used, now, frayed>>

AssertBounded(o, t) ==
  LET n == used + 1 IN
  /\ n <= MaxFacts /\ Restated(o, t) = {}
  /\ EnterBounded(Fresh(o, t, "active"), n)
  /\ used' = n
  /\ UNCHANGED <<now, frayed>>

\* The resumed fact is inserted first.
AssertResuming(o, t) ==
  LET r == used + 1
      n == used + 2
  IN
  /\ n <= MaxFacts /\ Restated(o, t) = {}
  /\ EnterResuming(Fresh(o, t, "active"), n, r)
  /\ used' = n
  /\ UNCHANGED <<now, frayed>>

\* proposed=True: outside the ledger until a person approves it.
Propose(o, t) ==
  LET n == used + 1 IN
  /\ n <= MaxFacts
  /\ Cardinality({i \in Stored : facts[i].status \in {"proposed", "declined"}}) < MaxProposals
  /\ facts' = [facts EXCEPT ![n] = Fresh(o, t, "proposed")]
  /\ used' = n
  /\ UNCHANGED <<affirmations, now, frayed>>

AssertFact(o, t) ==
  \/ Restate(o, t) \/ AssertBounded(o, t) \/ AssertResuming(o, t) \/ Propose(o, t)

-----------------------------------------------------------------------------
(* Review: a proposal is settled, a verdict is taken back.                  *)

Proposed(n) == facts[n].status = "proposed"

\* The proposal restates what holds: its day is kept there.
ApproveDuplicate(n) ==
  /\ Proposed(n)
  /\ \E i \in Restated(facts[n].object, facts[n].from) : Affirmed(i, facts[n].from)
  /\ facts' = [facts EXCEPT ![n].status = "declined", ![n].reason = "duplicate"]
  /\ UNCHANGED <<used, now, frayed>>

ApproveBounded(n) ==
  /\ Proposed(n) /\ Restated(facts[n].object, facts[n].from) = {}
  /\ EnterBounded(facts[n], n)
  /\ UNCHANGED <<used, now, frayed>>

ApproveResuming(n) ==
  LET r == used + 1 IN
  /\ Proposed(n) /\ Restated(facts[n].object, facts[n].from) = {} /\ r <= MaxFacts
  /\ EnterResuming(facts[n], n, r)
  /\ used' = r
  /\ UNCHANGED <<now, frayed>>

\* What is declined is outside the ledger, where no cut reads the reason.
Decline(n) ==
  /\ Proposed(n)
  /\ facts' = [facts EXCEPT ![n].status = "declined", ![n].reason = "person"]
  /\ UNCHANGED <<used, affirmations, now, frayed>>

Reconsider(n) ==
  /\ facts[n].status = "declined"
  /\ facts' = [facts EXCEPT ![n].status = "proposed", ![n].reason = "none"]
  /\ UNCHANGED <<used, affirmations, now, frayed>>

-----------------------------------------------------------------------------
(* close_fact and reopen: a person ends a claim, or takes that back.        *)

\* Only what holds is closed, and not before it begins.  The clock goes on.
Closable(n, t) == facts[n].status = "active" /\ t >= now /\ t >= facts[n].from

Ended(f, t, why) == [f EXCEPT !.status = "closed", !.until = t, !.reason = why]

CloseBounded(n, t) ==
  /\ Closable(n, t) /\ Inside(n, t) = {}
  /\ \E why \in PersonsReasons : facts' = [facts EXCEPT ![n] = Ended(@, t, why)]
  /\ now' = t
  /\ UNCHANGED <<used, affirmations, frayed>>

\* What was restated for a day after the close resumes there.
CloseResuming(n, t) ==
  LET r == used + 1 IN
  /\ Closable(n, t) /\ r <= MaxFacts
  /\ \E a \in affirmations, why \in PersonsReasons :
       /\ IsFirst(a, n, t)
       /\ facts' = [facts EXCEPT ![n] = Ended(@, t, why), ![r] = Resumed(facts[n], a.from)]
       /\ affirmations' = Moved(n, t, r)
  /\ used' = r /\ now' = t
  /\ UNCHANGED frayed

\* Only a fact that names its successor is refused; one that was closed by
\* hand is opened again whatever was told since.
Reopen(n) ==
  /\ facts[n].status = "closed" /\ facts[n].by = 0
  /\ facts' = [facts EXCEPT ![n].status = "active", ![n].until = Never,
                            ![n].reason = "none"]
  /\ frayed' = (frayed \/ \E i \in Ledger \ {n} : facts[i].from >= facts[n].until)
  /\ UNCHANGED <<used, affirmations, now>>

-----------------------------------------------------------------------------
(* A placement that resumes a claim, cut after the resumed fact and its      *)
(* first link: insert_fact_link commits what the transaction held so far,    *)
(* and the rest is rolled back.                                             *)
TornResumption(n, t) ==
  LET r == used + 1 IN
  /\ LinkCommits /\ r <= MaxFacts
  /\ \/ n \in Resuming(t) /\ \E o \in Objects : Restated(o, t) = {}
     \/ Closable(n, t)
  /\ \E a \in affirmations :
       /\ IsFirst(a, n, t)
       /\ facts' = [facts EXCEPT ![r] = Resumed(facts[n], a.from)]
  /\ used' = r
  /\ frayed' = TRUE
  /\ UNCHANGED <<affirmations, now>>

-----------------------------------------------------------------------------
Review(n) ==
  \/ ApproveDuplicate(n) \/ ApproveBounded(n) \/ ApproveResuming(n)
  \/ Decline(n) \/ Reconsider(n) \/ Reopen(n)
  \/ \E t \in Times : CloseBounded(n, t) \/ CloseResuming(n, t)

Next ==
  /\ frayed => FollowFrayed
  /\ \/ \E o \in Objects, t \in Times : AssertFact(o, t)
     \/ \E n \in Stored : Review(n)
     \/ \E n \in Ledger, t \in Times : TornResumption(n, t)

Spec == Init /\ [][Next]_vars

-----------------------------------------------------------------------------
(* Properties.                                                              *)

FactType == [object : Objects \cup {NoObject}, from : Times, until : Times \cup {Never},
             status : {"none", "proposed", "declined", "active", "closed"},
             by : 0..MaxFacts, reason : {"none", "superseded", "duplicate"} \cup PersonsReasons]

\* The store holds facts and restatements as its schema says; of the facts of
\* the ledger those without an end are the active ones.
TypeOK ==
  /\ facts \in [FactIds -> FactType]
  /\ used \in 0..MaxFacts
  /\ \A i \in FactIds : facts[i].status = "none" <=> i > used
  /\ \A i \in Ledger : facts[i].status = "active" <=> facts[i].until = Never
  /\ affirmations \subseteq [fact : FactIds, from : Times]
  /\ now \in Times /\ frayed \in BOOLEAN

\* Two facts of the slot are never held on one day, in whatever order they were
\* told, approved, restated and closed (place, truncate, resumption) - until a
\* reopening or a torn placement makes them.
HeldOnce == \A t \in Times : \A i, j \in Covering(t) : i = j
NothingHeldTwice == ~frayed => HeldOnce

\* A fact that names what superseded it ends on the day that fact begins, and
\* both are facts of the ledger (truncate, resume).
SupersededIsTrue ==
  \A i \in Ledger : facts[i].by # 0 =>
    facts[i].by \in Ledger /\ facts[facts[i].by].from = facts[i].until

\* "A reason a person wrote is kept; only the bound moves" (assert_placed), as long
\* as the fact is closed and however often it is cut (truncate).  Only a reason that
\* reads like a cut's own is lost, and never but to a cut whose fact it then names.
PersonsReasonStays ==
  [][\A i \in Ledger :
       /\ facts[i].status = "closed" /\ facts[i].reason \in PersonsReasons
       /\ facts'[i].status = "closed"
       => \/ facts'[i].reason = facts[i].reason
          \/ /\ facts[i].reason = "alike" /\ facts'[i].reason = "superseded"
             /\ facts'[i].by \notin {0, facts[i].by}]_vars

-----------------------------------------------------------------------------
(* The ledger read as a timeline.                                           *)

\* A fact states its claim for its first day and for those of its restatements.
States(i, t) ==
  facts[i].from = t \/ \E a \in affirmations : a.fact = i /\ a.from = t

\* The end a person gave, on the last day the fact's claim was stated for.
EndOf(i, t) ==
  IF facts[i].by = 0 /\ Inside(i, t) = {} THEN facts[i].until ELSE Never

\* A day whose fact was closed on that very day is over, and still bounds.
ClaimOn(t) ==
  LET stating == {i \in Covering(t) : States(i, t)}
      over    == \E i \in Ledger : facts[i].from = t /\ facts[i].until = t /\ facts[i].by = 0
  IN  IF stating # {}
        THEN LET i == CHOOSE i \in stating : TRUE
             IN  [object |-> facts[i].object, end |-> EndOf(i, t)]
        ELSE IF over THEN [object |-> NoObject, end |-> t] ELSE NoObject

Timeline == INSTANCE FactTimeline WITH
  Unsaid <- NoObject, claims <- [t \in Times |-> ClaimOn(t)]

\* Whatever people tell, approve, restate, close and reopen, the ledger follows
\* the timeline: "the same history told in any order leaves the same partition".
FollowsTimeline == Timeline!Spec

\* What the ledger answers for a day is what was last said about it.
AnswersAreTold ==
  ~frayed => LET told == [u \in Times |-> ClaimOn(u)] IN
    \A t \in Times : {facts[i].object : i \in Covering(t)} = Timeline!ValueOn(told, t)

-----------------------------------------------------------------------------
(* What the documentation says, and a run refutes.                          *)

\* "Only a close somebody made by hand.  A claim another claim superseded is not
\* reopened behind that claim's back - both would hold at once" (reopen).
ReopenHoldsAlone == HeldOnce

\* "On SQLite and PostgreSQL, a placement's writes commit together or not at all":
\* no step that inserts a fact makes two facts hold at once.
PlacementIsWhole == [][used' # used /\ HeldOnce => HeldOnce']_vars
=============================================================================
