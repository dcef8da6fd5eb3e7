------------------------- MODULE FactLedger_proofs --------------------------
(***************************************************************************)
(* Proofs about FactLedger for every value of its constants: the ledger of   *)
(* a slot never holds two facts on one day before it frays, what a fact says *)
(* of its successor is true, and a person's reason goes only to a cut.       *)
(***************************************************************************)
EXTENDS FactLedger, TLAPS

USE DEF Times, Never, FactIds

\* An interval ends no earlier than it begins.
WellFormed == \A i \in Ledger : facts[i].from <= facts[i].until

\* What is active was superseded by nothing.
ActiveIsUnnamed == \A i \in Ledger : facts[i].status = "active" => facts[i].by = 0

\* Of two facts the one that begins first ends before the other begins; of two
\* that begin on one day one is over at once.
Apart(i, j) ==
  /\ facts[i].from < facts[j].from => facts[i].until <= facts[j].from
  /\ facts[i].from = facts[j].from =>
       facts[i].until = facts[i].from \/ facts[j].until = facts[j].from

Ordered == ~frayed => \A i, j \in Ledger : i # j => Apart(i, j)

\* The inductive invariant.
Inv ==
  /\ TypeOK /\ WellFormed /\ ActiveIsUnnamed /\ Ordered
  /\ SupersededIsTrue

-----------------------------------------------------------------------------
(* The records the operators build.                                         *)

\* What Bounded does to the fields of a fact.
LEMMA BoundedFact ==
  ASSUME NEW f \in FactType, NEW end \in Times \cup {Never}, NEW by \in 0..MaxFacts
  PROVE  /\ Bounded(f, end, by) \in FactType
         /\ Bounded(f, end, by).object = f.object
         /\ Bounded(f, end, by).from = f.from
         /\ Bounded(f, end, by).until = end
         /\ Bounded(f, end, by).by = by
         /\ Bounded(f, end, by).status = IF by = 0 THEN "active" ELSE "closed"
BY DEF Bounded, FactType

\* What Cut does to them; the reason becomes that of a cut only if it reads like one.
LEMMA CutFact ==
  ASSUME NEW f \in FactType, NEW t \in Times, NEW n \in FactIds
  PROVE  /\ Cut(f, t, n) \in FactType
         /\ Cut(f, t, n).object = f.object
         /\ Cut(f, t, n).from = f.from
         /\ Cut(f, t, n).until = t
         /\ Cut(f, t, n).by = n
         /\ Cut(f, t, n).status = "closed"
         /\ Cut(f, t, n).reason = CutFor(f.reason)
<1>1. /\ Cut(f, t, n).from = f.from /\ Cut(f, t, n).until = t
      /\ Cut(f, t, n).by = n /\ Cut(f, t, n).status = "closed"
      /\ Cut(f, t, n).object = f.object
  BY DEF Cut, FactType
<1>2. Cut(f, t, n).reason = CutFor(f.reason)
  BY DEF Cut, FactType
<1>3. Cut(f, t, n).reason \in {"none", "superseded", "duplicate"} \cup PersonsReasons
  BY <1>2 DEF FactType, CutFor
<1>4. /\ DOMAIN Cut(f, t, n) = DOMAIN f
      /\ Cut(f, t, n) = [x \in DOMAIN Cut(f, t, n) |-> Cut(f, t, n)[x]]
  BY DEF Cut, FactType
<1>5. Cut(f, t, n) \in FactType
  BY <1>1, <1>3, <1>4 DEF FactType
<1> QED BY <1>1, <1>2, <1>5

\* What Resumed and Ended do to them.
LEMMA ResumedFact ==
  ASSUME NEW f \in FactType, NEW t \in Times
  PROVE  /\ Resumed(f, t) \in FactType
         /\ Resumed(f, t).object = f.object
         /\ Resumed(f, t).from = t
         /\ Resumed(f, t).until = f.until
         /\ Resumed(f, t).by = f.by
         /\ Resumed(f, t).status = f.status
BY DEF Resumed, FactType

LEMMA EndedFact ==
  ASSUME NEW f \in FactType, NEW t \in Times, NEW why \in PersonsReasons
  PROVE  /\ Ended(f, t, why) \in FactType
         /\ Ended(f, t, why).object = f.object
         /\ Ended(f, t, why).from = f.from
         /\ Ended(f, t, why).until = t
         /\ Ended(f, t, why).by = f.by
         /\ Ended(f, t, why).status = "closed"
BY DEF Ended, FactType

\* A new fact has its type.
LEMMA FreshFact ==
  ASSUME LedgerAssumption, NEW o \in Objects, NEW t \in Times,
         NEW status \in {"none", "proposed", "declined", "active", "closed"}
  PROVE  /\ Fresh(o, t, status) \in FactType
         /\ Fresh(o, t, status).object = o
         /\ Fresh(o, t, status).from = t
         /\ Fresh(o, t, status).until = Never
         /\ Fresh(o, t, status).by = 0
         /\ Fresh(o, t, status).status = status
<1>1. 0 \in 0..MaxFacts
  BY DEF LedgerAssumption
<1> QED BY <1>1 DEF Fresh, FactType

\* Restatements stay restatements when they move and when one is added.
LEMMA MovedType ==
  ASSUME TypeOK, NEW i \in FactIds, NEW t \in Times, NEW r \in FactIds
  PROVE  Moved(i, t, r) \subseteq [fact : FactIds, from : Times]
BY DEF Moved, Inside, TypeOK

LEMMA AffirmedType ==
  ASSUME TypeOK, NEW i \in FactIds, NEW t \in Times, Affirmed(i, t)
  PROVE  affirmations' \subseteq [fact : FactIds, from : Times]
BY DEF Affirmed, TypeOK

\* The first restatement inside a fact lies inside it.
LEMMA FirstInside ==
  ASSUME TypeOK, NEW i, NEW t, NEW a, IsFirst(a, i, t)
  PROVE  /\ a \in affirmations /\ a.from \in Times
         /\ t < a.from /\ a.from < facts[i].until
BY DEF IsFirst, Inside, TypeOK

-----------------------------------------------------------------------------
(* A fact enters the ledger, bounded by the next one of its slot.           *)

\* Between two states the store may have one more fact than before, or two.
Grows(n) == used' \in used..MaxFacts /\ n \in 1..used'

\* What the placement leaves: f is fact n, and ends where the first of the later
\* facts begins; what covered its day ends there and names it.
EnteredBounded(f, n, by) ==
  LET t   == f.from
      end == IF by = 0 THEN Never ELSE facts[by].from
  IN
  /\ Later(t) = {} => by = 0
  /\ by # 0 => by \in Ledger /\ end \in Times
  /\ end \in Times \cup {Never} /\ t < end /\ \A j \in Later(t) : end <= facts[j].from
  /\ facts' \in [FactIds -> FactType] /\ Ledger' = Ledger \cup {n}
  /\ facts'[n].object = f.object /\ facts'[n].from = t /\ facts'[n].until = end
  /\ facts'[n].by = by /\ facts'[n].status = IF by = 0 THEN "active" ELSE "closed"
  /\ \A i \in Covering(t) :
       /\ facts'[i].object = facts[i].object /\ facts'[i].from = facts[i].from
       /\ facts'[i].until = t /\ facts'[i].by = n /\ facts'[i].status = "closed"
  /\ \A i \in FactIds : i # n /\ i \notin Covering(t) => facts'[i] = facts[i]

LEMMA EnterBoundedEnters ==
  ASSUME LedgerAssumption, Inv, NEW n \in FactIds, NEW f \in FactType,
         n \notin Ledger, EnterBounded(f, n),
         used' = used \/ (used' = used + 1 /\ n = used + 1), Grows(n)
  PROVE  \E by \in 0..MaxFacts : EnteredBounded(f, n, by)
<1> DEFINE t   == f.from
           cut == Covering(t)
<1>1. /\ t \in Times /\ facts \in [FactIds -> FactType] /\ used \in 0..MaxFacts
      /\ Ledger \subseteq FactIds /\ cut \subseteq Ledger
  BY DEF Inv, TypeOK, FactType, Ledger, Stored, Covering
<1>2. PICK by \in IF Later(t) = {} THEN {0} ELSE Successor(t) :
        LET end == IF by = 0 THEN Never ELSE facts[by].from
        IN  facts' = [i \in FactIds |->
                        IF i = n THEN Bounded(f, end, by)
                        ELSE IF i \in cut THEN Cut(facts[i], t, n) ELSE facts[i]]
  BY DEF EnterBounded
<1> DEFINE end == IF by = 0 THEN Never ELSE facts[by].from
<1>3. /\ Later(t) = {} => by = 0
      /\ by # 0 => by \in Ledger /\ facts[by].from > t /\ \A j \in Later(t) : end <= facts[j].from
      /\ Later(t) # {} => by # 0
  BY <1>1, <1>2 DEF Successor, Lowest, Later
<1>4. by \in 0..MaxFacts /\ end \in Times \cup {Never} /\ end > t /\ (by # 0 => end \in Times)
  BY <1>1, <1>3 DEF LedgerAssumption, FactType
<1>5. /\ facts' \in [FactIds -> FactType]
      /\ facts'[n].object = f.object
      /\ facts'[n].from = t /\ facts'[n].until = end /\ facts'[n].by = by
      /\ facts'[n].status = IF by = 0 THEN "active" ELSE "closed"
  <2>1. facts'[n] = Bounded(f, end, by)
    BY <1>2
  <2>2. ASSUME NEW i \in FactIds
        PROVE  facts'[i] \in FactType
    <3>1. facts[i] \in FactType
      BY <1>1
    <3>2. Cut(facts[i], t, n) \in FactType
      BY <1>1, <3>1, CutFact
    <3>3. Bounded(f, end, by) \in FactType
      BY <1>4, BoundedFact
    <3> QED BY <1>2, <3>1, <3>2, <3>3
  <2>3. facts' = [i \in FactIds |-> facts'[i]]
    BY <1>2
  <2>4. facts' \in [FactIds -> FactType]
    BY <2>2, <2>3
  <2>5. by \in 0..MaxFacts /\ end \in Times \cup {Never}
    BY <1>4
  <2>6. /\ Bounded(f, end, by).object = f.object
        /\ Bounded(f, end, by).from = f.from /\ Bounded(f, end, by).until = end
        /\ Bounded(f, end, by).by = by
        /\ Bounded(f, end, by).status = IF by = 0 THEN "active" ELSE "closed"
    <3> HIDE DEF end, t, cut
    <3> QED BY <2>5, BoundedFact
  <2> QED BY <2>1, <2>4, <2>6
<1>6. ASSUME NEW i \in cut, i # n
      PROVE  /\ facts'[i].object = facts[i].object
             /\ facts'[i].from = facts[i].from /\ facts'[i].until = t
             /\ facts'[i].by = n /\ facts'[i].status = "closed"
  <2>1. i \in FactIds /\ facts[i] \in FactType /\ facts'[i] = Cut(facts[i], t, n)
    BY <1>1, <1>2, <1>6
  <2>2. t \in Times
    BY <1>1
  <2> HIDE DEF t
  <2>3. /\ Cut(facts[i], t, n).object = facts[i].object
        /\ Cut(facts[i], t, n).from = facts[i].from /\ Cut(facts[i], t, n).until = t
        /\ Cut(facts[i], t, n).by = n /\ Cut(facts[i], t, n).status = "closed"
    BY <2>1, <2>2, CutFact
  <2> QED BY <2>1, <2>3
<1>7. \A i \in FactIds : i # n /\ i \notin cut => facts'[i] = facts[i]
  BY <1>2
<1>8. Ledger' = Ledger \cup {n}
  <2>1. /\ Stored \subseteq Stored' /\ n \in Stored'
        /\ \A i \in Stored' : i \in Stored \/ i = n
    BY <1>1 DEF Stored, Grows, LedgerAssumption
  <2>2. \A i \in Ledger : facts'[i].status \in {"active", "closed"}
    BY <1>1, <1>5, <1>6, <1>7 DEF Ledger
  <2>3. \A i \in FactIds : i # n /\ i \notin Ledger => facts'[i] = facts[i]
    BY <1>1, <1>7
  <2> QED BY <1>1, <1>5, <2>1, <2>2, <2>3 DEF Ledger, Stored, LedgerAssumption
<1>9. Later(t) # {} /\ by = 0 => FALSE
  BY <1>3
<1>10. \A i \in cut : i # n
  BY <1>1
<1>11. \A j \in Later(t) : end <= facts[j].from
  BY <1>3, <1>9
<1> HIDE DEF cut, end
<1>12. EnteredBounded(f, n, by)
  BY <1>3, <1>4, <1>5, <1>6, <1>7, <1>8, <1>10, <1>11 DEF EnteredBounded, cut, end
<1> QED BY <1>4, <1>12

LEMMA EnterBoundedKeeps ==
  ASSUME LedgerAssumption, Inv, NEW n \in FactIds, NEW f \in FactType,
         n \notin Ledger, EnterBounded(f, n),
         used' = used \/ (used' = used + 1 /\ n = used + 1),
         Grows(n), UNCHANGED <<now, frayed>>
  PROVE  Inv'
<1> DEFINE t   == f.from
           cut == Covering(t)
<1>1. /\ t \in Times /\ facts \in [FactIds -> FactType] /\ used \in 0..MaxFacts
      /\ Ledger \subseteq FactIds /\ cut \subseteq Ledger
  BY DEF Inv, TypeOK, FactType, Ledger, Stored, Covering
<1>2. PICK by \in 0..MaxFacts : EnteredBounded(f, n, by)
  BY EnterBoundedEnters
<1> DEFINE end == IF by = 0 THEN Never ELSE facts[by].from
<1>3. /\ by # 0 => by \in Ledger
      /\ \A j \in Later(t) : end <= facts[j].from
  BY <1>2 DEF EnteredBounded
<1>4. by \in 0..MaxFacts /\ end \in Times \cup {Never} /\ end > t /\ (by # 0 => end \in Times)
  BY <1>1, <1>2 DEF EnteredBounded, LedgerAssumption
<1>5. /\ facts' \in [FactIds -> FactType]
      /\ facts'[n].from = t /\ facts'[n].until = end /\ facts'[n].by = by
      /\ facts'[n].status = IF by = 0 THEN "active" ELSE "closed"
  BY <1>2 DEF EnteredBounded
<1>6. ASSUME NEW i \in cut
      PROVE  /\ facts'[i].from = facts[i].from /\ facts'[i].until = t
             /\ facts'[i].by = n /\ facts'[i].status = "closed"
  BY <1>2 DEF EnteredBounded
<1>7. \A i \in FactIds : i # n /\ i \notin cut => facts'[i] = facts[i]
  BY <1>2 DEF EnteredBounded
<1>8. Ledger' = Ledger \cup {n}
  BY <1>2 DEF EnteredBounded
<1>9. ASSUME NEW i \in Ledger
      PROVE  /\ facts'[i].from = facts[i].from
             /\ facts'[i].until = IF i \in cut THEN t ELSE facts[i].until
             /\ i \in FactIds /\ i # n
             /\ facts[i].from \in Nat /\ facts[i].until \in Nat
  <2>1. i \in FactIds /\ i # n /\ facts[i] \in FactType
    BY <1>1
  <2>2. facts[i].from \in Nat /\ facts[i].until \in Nat
    BY <2>1 DEF FactType, LedgerAssumption
  <2> QED BY <1>6, <1>7, <2>1, <2>2
<1>10. \A i \in Ledger : i \in cut <=> facts[i].from <= t /\ t < facts[i].until
  BY DEF Covering, Covers
<1> HIDE DEF t, cut, end
<1>11. TypeOK'
  <2>1. \A i \in FactIds : facts'[i].status = "none" <=> i > used'
    <3>1. \A i \in FactIds : i # n => (facts'[i].status = "none" <=> facts[i].status = "none")
      BY <1>1, <1>6, <1>7 DEF Ledger
    <3> QED BY <1>1, <1>5, <3>1 DEF Inv, TypeOK, Grows, LedgerAssumption
  <2>2. \A i \in Ledger' : facts'[i].status = "active" <=> facts'[i].until = Never
    <3>1. facts'[n].status = "active" <=> facts'[n].until = Never
      BY <1>4, <1>5 DEF LedgerAssumption, end
    <3>2. \A i \in Ledger : facts'[i].status = "active" <=> facts'[i].until = Never
      BY <1>1, <1>6, <1>7, <1>9 DEF Inv, TypeOK, LedgerAssumption
    <3> QED BY <1>8, <3>1, <3>2
  <2>3. used' \in 0..MaxFacts
    BY <1>1 DEF Grows
  <2> QED BY <1>5, <2>1, <2>2, <2>3 DEF EnterBounded, Inv, TypeOK
<1>12. WellFormed'
  BY SMTT(30), <1>1, <1>4, <1>5, <1>8, <1>9, <1>10 DEF WellFormed, Inv, LedgerAssumption
<1>13. ActiveIsUnnamed'
  BY <1>1, <1>5, <1>6, <1>7, <1>8 DEF ActiveIsUnnamed, Inv
<1>14. ASSUME ~frayed', NEW i \in Ledger', NEW j \in Ledger', i # j
       PROVE  Apart(i, j)'
  <2>1. CASE i # n /\ j # n
    <3>1. i \in Ledger /\ j \in Ledger /\ Apart(i, j)
      BY <1>8, <1>14, <2>1 DEF Inv, Ordered
    <3>2. ASSUME NEW k \in {i, j}
          PROVE  /\ facts[k].from \in Nat /\ facts[k].until \in Nat /\ facts'[k].from = facts[k].from
                 /\ \/ facts'[k].until = facts[k].until
                    \/ facts'[k].until = t /\ facts[k].from <= t /\ t < facts[k].until
      BY <1>9, <1>10, <3>1
    <3>3. t \in Nat
      BY <1>1 DEF LedgerAssumption
    <3>4. ASSUME NEW k \in {i, j} PROVE k \notin cut => ~(facts[k].from <= t /\ t < facts[k].until)
      BY <1>10, <3>1
    <3>5. ASSUME NEW k \in {i, j} PROVE k \in cut => facts'[k].until = t
      BY <1>9, <3>1
    <3> QED BY <3>1, <3>2, <3>3, <3>4, <3>5 DEF Apart
  <2>2. CASE i = n
    <3>1. j \in Ledger /\ (facts[j].from > t => j \in Later(t))
      BY <1>8, <1>14, <2>2 DEF Later
    <3>2. facts[j].from > t => end <= facts[j].from
      BY <1>3, <3>1
    <3> QED BY <1>1, <1>5, <1>9, <1>10, <2>2, <3>1, <3>2 DEF Apart, Inv, WellFormed
  <2>3. CASE j = n
    <3>1. i \in Ledger
      BY <1>8, <1>14, <2>3
    <3> QED BY <1>1, <1>5, <1>9, <1>10, <2>3, <3>1 DEF Apart, Inv, WellFormed
  <2> QED BY <2>1, <2>2, <2>3
<1>15. SupersededIsTrue'
  <2>1. by # 0 => by \in Ledger /\ facts'[by].from = facts'[n].until
    BY <1>3, <1>5, <1>9 DEF end
  <2>2. ASSUME NEW i \in Ledger, facts'[i].by # 0
        PROVE  facts'[i].by \in Ledger' /\ facts'[facts'[i].by].from = facts'[i].until
    <3>1. CASE i \in cut
      BY <1>5, <1>6, <1>8, <1>9, <3>1
    <3>2. CASE i \notin cut
      BY <1>7, <1>8, <1>9, <2>2, <3>2 DEF Inv, SupersededIsTrue
    <3> QED BY <3>1, <3>2
  <2> QED BY <1>5, <1>8, <2>1, <2>2 DEF SupersededIsTrue
<1> QED
  BY <1>11, <1>12, <1>13, <1>14, <1>15 DEF Inv, Ordered

-----------------------------------------------------------------------------
(* A fact enters the ledger and the claim it cuts resumes after it.         *)

\* What the placement leaves: f is fact n and ends where fact r begins, as which the
\* claim of fact k goes on from its first later restatement a.
EnteredResuming(f, n, r, k, a) ==
  LET t == f.from
      s == a.from
  IN
  /\ k \in Covering(t) /\ k \in Ledger /\ k \in FactIds /\ facts[k] \in FactType
  /\ IsFirst(a, k, t) /\ s \in Times /\ t < s /\ s < facts[k].until
  /\ n # r /\ r \notin Ledger /\ Ledger' = Ledger \cup {n, r}
  /\ facts' \in [FactIds -> FactType]
  /\ facts'[n].object = f.object /\ facts'[n].from = t /\ facts'[n].until = s
  /\ facts'[n].by = r /\ facts'[n].status = "closed"
  /\ facts'[r].object = facts[k].object /\ facts'[r].from = s
  /\ facts'[r].until = facts[k].until /\ facts'[r].by = facts[k].by
  /\ facts'[r].status = facts[k].status
  /\ \A i \in Covering(t) :
       /\ facts'[i].object = facts[i].object /\ facts'[i].from = facts[i].from
       /\ facts'[i].until = t /\ facts'[i].by = n /\ facts'[i].status = "closed"
  /\ \A i \in FactIds : i # n /\ i # r /\ i \notin Covering(t) => facts'[i] = facts[i]
  /\ affirmations' = Moved(k, t, r)

LEMMA EnterResumingEnters ==
  ASSUME LedgerAssumption, Inv, NEW n \in FactIds, NEW r \in FactIds, NEW f \in FactType,
         n \notin Ledger, r = used + 1, EnterResuming(f, n, r),
         \/ used' = used + 1 /\ n \in Stored
         \/ used' = used + 2 /\ n = used + 2,
         used' <= MaxFacts
  PROVE  \E k \in Ledger, a \in affirmations : EnteredResuming(f, n, r, k, a)
<1> DEFINE t   == f.from
           cut == Covering(t)
<1>1. /\ t \in Times /\ facts \in [FactIds -> FactType] /\ used \in 0..MaxFacts
      /\ Ledger \subseteq FactIds /\ cut \subseteq Ledger /\ r \notin Ledger /\ n # r
  <2>1. t \in Times /\ facts \in [FactIds -> FactType] /\ used \in 0..MaxFacts
    BY DEF Inv, TypeOK, FactType
  <2>2. Ledger \subseteq FactIds /\ cut \subseteq Ledger
    BY <2>1 DEF Ledger, Stored, Covering, LedgerAssumption
  <2>3. r \notin Stored /\ n # r
    BY <2>1 DEF Stored, LedgerAssumption
  <2> QED BY <2>1, <2>2, <2>3 DEF Ledger
<1>2. PICK k \in Resuming(t), a \in affirmations :
        /\ IsFirst(a, k, t)
        /\ facts' = [j \in FactIds |->
                       IF j = n THEN Bounded(f, a.from, r)
                       ELSE IF j = r THEN Resumed(facts[k], a.from)
                       ELSE IF j \in cut THEN Cut(facts[j], t, n) ELSE facts[j]]
        /\ affirmations' = Moved(k, t, r)
  BY DEF EnterResuming
<1> DEFINE s == a.from
<1>3. k \in cut /\ k \in Ledger /\ k \in FactIds /\ facts[k] \in FactType
  BY <1>1, <1>2 DEF Resuming, Lowest
<1>4. s \in Times /\ t < s /\ s < facts[k].until
  BY <1>2, FirstInside DEF Inv
<1> HIDE DEF t, cut, s
<1>5. /\ facts'[n] \in FactType /\ facts'[n].object = f.object
      /\ facts'[n].from = t /\ facts'[n].until = s
      /\ facts'[n].by = r /\ facts'[n].status = "closed"
  <2>1. facts'[n] = Bounded(f, s, r)
    BY <1>2 DEF s
  <2>2. r \in 0..MaxFacts /\ r # 0 /\ s \in Times \cup {Never}
    BY <1>1, <1>4 DEF LedgerAssumption
  <2>3. /\ Bounded(f, s, r) \in FactType /\ Bounded(f, s, r).object = f.object
        /\ Bounded(f, s, r).from = f.from
        /\ Bounded(f, s, r).until = s /\ Bounded(f, s, r).by = r
        /\ Bounded(f, s, r).status = "closed"
    <3>1. r \in 0..MaxFacts /\ s \in Times \cup {Never} /\ f \in FactType
      BY <2>2
    <3>2. /\ Bounded(f, s, r) \in FactType /\ Bounded(f, s, r).object = f.object
          /\ Bounded(f, s, r).from = f.from
          /\ Bounded(f, s, r).until = s /\ Bounded(f, s, r).by = r
          /\ Bounded(f, s, r).status = IF r = 0 THEN "active" ELSE "closed"
      BY ONLY <3>1, BoundedFact
    <3> QED BY <2>2, <3>2
  <2>4. t = f.from
    BY DEF t
  <2> QED BY <2>1, <2>3, <2>4
<1>6. /\ facts'[r] \in FactType /\ facts'[r].object = facts[k].object
      /\ facts'[r].from = s /\ facts'[r].until = facts[k].until
      /\ facts'[r].by = facts[k].by /\ facts'[r].status = facts[k].status
  <2>1. facts'[r] = Resumed(facts[k], s)
    BY <1>1, <1>2 DEF s
  <2>2. facts[k] \in FactType /\ s \in Times
    BY <1>3, <1>4
  <2>3. /\ Resumed(facts[k], s) \in FactType /\ Resumed(facts[k], s).object = facts[k].object
        /\ Resumed(facts[k], s).from = s /\ Resumed(facts[k], s).until = facts[k].until
        /\ Resumed(facts[k], s).by = facts[k].by
        /\ Resumed(facts[k], s).status = facts[k].status
    BY ONLY <2>2, ResumedFact
  <2> QED BY <2>1, <2>3
<1>7. ASSUME NEW i \in cut
      PROVE  /\ facts'[i] \in FactType /\ facts'[i].object = facts[i].object
             /\ facts'[i].from = facts[i].from /\ facts'[i].until = t
             /\ facts'[i].by = n /\ facts'[i].status = "closed"
  <2>1. i \in FactIds /\ facts[i] \in FactType /\ i # n /\ i # r
    BY <1>1
  <2>2. facts'[i] = Cut(facts[i], t, n)
    BY <1>2, <2>1
  <2>3. t \in Times
    BY <1>1
  <2>4. /\ Cut(facts[i], t, n) \in FactType /\ Cut(facts[i], t, n).object = facts[i].object
        /\ Cut(facts[i], t, n).from = facts[i].from /\ Cut(facts[i], t, n).until = t
        /\ Cut(facts[i], t, n).by = n /\ Cut(facts[i], t, n).status = "closed"
    BY ONLY <2>1, <2>3, n \in FactIds, CutFact
  <2> QED BY <2>2, <2>4
<1>8. \A i \in FactIds : i # n /\ i # r /\ i \notin cut => facts'[i] = facts[i]
  BY <1>2
<1>9. facts' \in [FactIds -> FactType]
  <2>1. \A i \in FactIds : facts'[i] \in FactType
    BY <1>1, <1>5, <1>6, <1>7, <1>8
  <2>2. facts' = [i \in FactIds |-> facts'[i]]
    BY <1>2
  <2> QED BY <2>1, <2>2
<1>10. Ledger' = Ledger \cup {n, r}
  <2>1. /\ Stored \subseteq Stored' /\ n \in Stored' /\ r \in Stored'
        /\ \A i \in Stored' : i \in Stored \/ i = n \/ i = r
    BY <1>1 DEF Stored, LedgerAssumption
  <2>2. \A i \in Ledger \cup {n, r} : facts'[i].status \in {"active", "closed"}
    BY <1>1, <1>3, <1>5, <1>6, <1>7, <1>8 DEF Ledger
  <2>3. \A i \in FactIds : i # n /\ i # r /\ i \notin Ledger => facts'[i] = facts[i]
    BY <1>1, <1>8
  <2> QED BY <1>1, <2>1, <2>2, <2>3 DEF Ledger, Stored, LedgerAssumption
<1>11. EnteredResuming(f, n, r, k, a)
  BY <1>1, <1>2, <1>3, <1>4, <1>5, <1>6, <1>7, <1>8, <1>9, <1>10
     DEF EnteredResuming, t, cut, s
<1> QED BY <1>3, <1>11

LEMMA EnterResumingKeeps ==
  ASSUME LedgerAssumption, Inv, NEW n \in FactIds, NEW r \in FactIds, NEW f \in FactType,
         n \notin Ledger, r = used + 1, EnterResuming(f, n, r),
         \/ used' = used + 1 /\ n \in Stored
         \/ used' = used + 2 /\ n = used + 2,
         used' <= MaxFacts, UNCHANGED <<now, frayed>>
  PROVE  Inv'
<1> DEFINE t   == f.from
           cut == Covering(t)
<1>1. /\ t \in Times /\ facts \in [FactIds -> FactType] /\ used \in 0..MaxFacts
      /\ Ledger \subseteq FactIds /\ cut \subseteq Ledger /\ r \notin Ledger /\ n # r
  <2>1. t \in Times /\ facts \in [FactIds -> FactType] /\ used \in 0..MaxFacts
    BY DEF Inv, TypeOK, FactType
  <2>2. Ledger \subseteq FactIds /\ cut \subseteq Ledger
    BY <2>1 DEF Ledger, Stored, Covering, LedgerAssumption
  <2>3. r \notin Stored /\ n # r
    BY <2>1 DEF Stored, LedgerAssumption
  <2> QED BY <2>1, <2>2, <2>3 DEF Ledger
<1>2. PICK k \in Ledger, a \in affirmations : EnteredResuming(f, n, r, k, a)
  BY EnterResumingEnters
<1> DEFINE s == a.from
<1>3. k \in cut /\ k \in Ledger /\ k \in FactIds /\ facts[k] \in FactType
  BY <1>2 DEF EnteredResuming
<1>4. s \in Times /\ t < s /\ s < facts[k].until
  BY <1>2 DEF EnteredResuming
<1>5. /\ facts'[n].from = t /\ facts'[n].until = s
      /\ facts'[n].by = r /\ facts'[n].status = "closed"
  BY <1>2 DEF EnteredResuming
<1>6. /\ facts'[r].from = s /\ facts'[r].until = facts[k].until
      /\ facts'[r].by = facts[k].by /\ facts'[r].status = facts[k].status
  BY <1>2 DEF EnteredResuming
<1>7. ASSUME NEW i \in cut
      PROVE  /\ facts'[i].from = facts[i].from /\ facts'[i].until = t
             /\ facts'[i].by = n /\ facts'[i].status = "closed"
  BY <1>2 DEF EnteredResuming
<1>8. \A i \in FactIds : i # n /\ i # r /\ i \notin cut => facts'[i] = facts[i]
  BY <1>2 DEF EnteredResuming
<1>9. facts' \in [FactIds -> FactType] /\ affirmations' = Moved(k, t, r)
  BY <1>2 DEF EnteredResuming
<1>10. Ledger' = Ledger \cup {n, r}
  BY <1>2 DEF EnteredResuming
<1> HIDE DEF t, cut, s
<1>11. ASSUME NEW i \in Ledger
       PROVE  /\ facts'[i].from = facts[i].from
              /\ facts'[i].until = IF i \in cut THEN t ELSE facts[i].until
              /\ i \in FactIds /\ i # n /\ i # r
              /\ facts[i].from \in Nat /\ facts[i].until \in Nat
              /\ facts[i].from <= facts[i].until
  <2>1. i \in FactIds /\ i # n /\ i # r /\ facts[i] \in FactType
    BY <1>1
  <2>2. facts[i].from \in Nat /\ facts[i].until \in Nat
    BY <2>1 DEF FactType, LedgerAssumption
  <2> QED BY <1>7, <1>8, <2>1, <2>2 DEF Inv, WellFormed
<1>12. \A i \in Ledger : i \in cut <=> facts[i].from <= t /\ t < facts[i].until
  BY DEF Covering, Covers, cut
<1>13. TypeOK'
  <2>1. \A i \in FactIds : facts'[i].status = "none" <=> i > used'
    <3>1. \A i \in FactIds : i # n /\ i # r =>
            (facts'[i].status = "none" <=> facts[i].status = "none")
      BY <1>1, <1>7, <1>8 DEF Ledger
    <3>2. facts'[n].status # "none" /\ facts'[r].status # "none"
      BY <1>3, <1>5, <1>6 DEF Ledger
    <3>3. \A i \in FactIds : i # n /\ i # r => (i > used' <=> i > used)
      BY <1>1 DEF LedgerAssumption, Stored
    <3>4. ~(n > used') /\ ~(r > used')
      BY <1>1 DEF LedgerAssumption, Stored
    <3> QED BY <3>1, <3>2, <3>3, <3>4 DEF Inv, TypeOK
  <2>2. \A i \in Ledger' : facts'[i].status = "active" <=> facts'[i].until = Never
    <3>1. facts'[n].status = "active" <=> facts'[n].until = Never
      BY <1>4, <1>5 DEF LedgerAssumption
    <3>2. facts'[r].status = "active" <=> facts'[r].until = Never
      BY <1>3, <1>6 DEF Inv, TypeOK
    <3>3. \A i \in Ledger : facts'[i].status = "active" <=> facts'[i].until = Never
      <4>1. \A i \in cut : facts'[i].status # "active" /\ facts'[i].until # Never
        BY <1>1, <1>7 DEF LedgerAssumption
      <4>2. \A i \in Ledger : i \notin cut => facts'[i] = facts[i]
        BY <1>8, <1>11
      <4> QED BY <4>1, <4>2 DEF Inv, TypeOK
    <3> QED BY <1>10, <3>1, <3>2, <3>3
  <2>3. used' \in 0..MaxFacts
    BY <1>1 DEF LedgerAssumption
  <2>4. affirmations' \subseteq [fact : FactIds, from : Times]
    BY <1>1, <1>3, <1>9, MovedType DEF Inv
  <2> QED BY <1>9, <2>1, <2>2, <2>3, <2>4 DEF Inv, TypeOK
<1>14. WellFormed'
  <2>1. facts'[n].from <= facts'[n].until /\ facts'[r].from <= facts'[r].until
    BY <1>1, <1>3, <1>4, <1>5, <1>6, <1>11
  <2>2. \A i \in Ledger : facts'[i].from <= facts'[i].until
    BY <1>1, <1>11, <1>12
  <2> QED BY <1>10, <2>1, <2>2 DEF WellFormed
<1>15. ActiveIsUnnamed'
  BY <1>1, <1>3, <1>5, <1>6, <1>7, <1>8, <1>10 DEF ActiveIsUnnamed, Inv
<1>16. ASSUME ~frayed', NEW i \in Ledger', NEW j \in Ledger', i # j
       PROVE  Apart(i, j)'
  <2>1. \A x, y \in Ledger : x # y => Apart(x, y)
    BY <1>16 DEF Inv, Ordered
  <2>2. \A x \in Ledger : facts[x].from > t => facts[k].until <= facts[x].from
    BY SMTT(30), <1>1, <1>3, <1>11, <1>12, <2>1 DEF Apart
  <2>3. \A x \in Ledger : ~(facts[x].from > t) => facts'[x].until <= t
    BY <1>1, <1>11, <1>12
  <2>4. t \in Nat /\ s \in Nat /\ facts[k].until \in Nat
    BY <1>1, <1>3, <1>4, <1>11
  <2>5. ASSUME NEW x \in Ledger, NEW y \in Ledger, x # y
        PROVE  Apart(x, y)'
    BY SMTT(30), <1>1, <1>11, <1>12, <2>1, <2>5 DEF Apart
  <2>6. ASSUME NEW x \in Ledger
        PROVE  Apart(x, n)' /\ Apart(n, x)'
    BY <1>4, <1>5, <1>11, <1>12, <2>2, <2>3, <2>4 DEF Apart
  <2>7. ASSUME NEW x \in Ledger
        PROVE  Apart(x, r)' /\ Apart(r, x)'
    BY <1>4, <1>6, <1>11, <1>12, <2>2, <2>3, <2>4 DEF Apart
  <2>8. Apart(n, r)' /\ Apart(r, n)'
    BY <1>4, <1>5, <1>6, <2>4 DEF Apart
  <2> QED BY <1>10, <1>16, <2>5, <2>6, <2>7, <2>8
<1>17. SupersededIsTrue'
  <2>1. ASSUME NEW i \in Ledger, facts'[i].by # 0
        PROVE  facts'[i].by \in Ledger' /\ facts'[facts'[i].by].from = facts'[i].until
    <3>1. CASE i \in cut
      BY <1>5, <1>7, <1>10, <3>1
    <3>2. CASE i \notin cut
      BY <1>8, <1>10, <1>11, <2>1, <3>2 DEF Inv, SupersededIsTrue
    <3> QED BY <3>1, <3>2
  <2>2. facts'[n].by \in Ledger' /\ facts'[facts'[n].by].from = facts'[n].until
    BY <1>5, <1>6, <1>10
  <2>3. facts'[r].by # 0 =>
          facts'[r].by \in Ledger' /\ facts'[facts'[r].by].from = facts'[r].until
    BY ZenonT(60), <1>3, <1>6, <1>10, <1>11 DEF Inv, SupersededIsTrue
  <2> QED BY <1>10, <2>1, <2>2, <2>3 DEF SupersededIsTrue
<1> QED
  BY <1>13, <1>14, <1>15, <1>16, <1>17 DEF Inv, Ordered

-----------------------------------------------------------------------------
(* Steps that leave the ledger alone.                                       *)

\* A fact outside the ledger stays outside.
LEMMA OutsideKeeps ==
  ASSUME LedgerAssumption, Inv, NEW n \in FactIds, n \notin Ledger,
         NEW g \in FactType, g.status \in {"proposed", "declined"},
         facts' = [facts EXCEPT ![n] = g],
         \/ used' = used /\ n \in Stored
         \/ used' = used + 1 /\ n = used + 1,
         affirmations' \subseteq [fact : FactIds, from : Times],
         UNCHANGED <<now, frayed>>
  PROVE  Inv'
<1>1. facts \in [FactIds -> FactType] /\ used \in 0..MaxFacts /\ used' \in 0..MaxFacts
  BY DEF Inv, TypeOK, LedgerAssumption, Stored
<1>2. facts' \in [FactIds -> FactType] /\ facts'[n] = g
      /\ \A i \in FactIds : i # n => facts'[i] = facts[i]
  BY <1>1
<1>3. Ledger' = Ledger
  BY <1>1, <1>2 DEF Ledger, Stored, LedgerAssumption, Inv, TypeOK
<1>4. \A i \in Ledger : i \in FactIds /\ i # n /\ facts'[i] = facts[i]
  BY <1>1, <1>2 DEF Ledger, Stored, LedgerAssumption
<1>5. TypeOK'
  <2>1. \A i \in FactIds : facts'[i].status = "none" <=> i > used'
    BY <1>1, <1>2 DEF Inv, TypeOK, Stored, LedgerAssumption
  <2> QED BY <1>1, <1>2, <1>3, <1>4, <2>1 DEF Inv, TypeOK
<1> QED
  BY <1>3, <1>4, <1>5
     DEF Inv, WellFormed, ActiveIsUnnamed, Ordered, Apart, SupersededIsTrue

LEMMA RestateKeeps ==
  ASSUME LedgerAssumption, Inv, NEW o \in Objects, NEW t \in Times,
         Restate(o, t)
  PROVE  Inv'
<1>1. PICK i \in Restated(o, t) : Affirmed(i, t)
  BY DEF Restate
<1>2. i \in FactIds
  BY <1>1 DEF Restated, Lowest, Covering, Ledger, Stored, Inv, TypeOK, LedgerAssumption
<1>3. affirmations' \subseteq [fact : FactIds, from : Times]
  BY <1>1, <1>2, AffirmedType DEF Inv
<1> QED
  BY <1>3 DEF Restate, Inv, TypeOK, WellFormed, ActiveIsUnnamed, Ordered, Apart,
              SupersededIsTrue, Ledger, Stored

LEMMA ProposeKeeps ==
  ASSUME LedgerAssumption, Inv, NEW o \in Objects, NEW t \in Times, Propose(o, t)
  PROVE  Inv'
<1>1. used + 1 \in FactIds /\ used + 1 \notin Ledger
  BY DEF Propose, Inv, TypeOK, Ledger, Stored, LedgerAssumption
<1>2. Fresh(o, t, "proposed") \in FactType /\ Fresh(o, t, "proposed").status = "proposed"
  BY FreshFact
<1>3. facts' = [facts EXCEPT ![used + 1] = Fresh(o, t, "proposed")]
      /\ used' = used + 1 /\ UNCHANGED <<affirmations, now, frayed>>
  BY DEF Propose
<1> QED BY <1>1, <1>2, <1>3, OutsideKeeps DEF Inv, TypeOK

\* A verdict on a fact outside the ledger.
LEMMA VerdictKeeps ==
  ASSUME LedgerAssumption, Inv, NEW n \in Stored, n \notin Ledger,
         NEW status \in {"proposed", "declined"},
         NEW reason \in {"none", "duplicate"} \cup PersonsReasons,
         facts' = [facts EXCEPT ![n].status = status, ![n].reason = reason],
         affirmations' \subseteq [fact : FactIds, from : Times],
         UNCHANGED <<used, now, frayed>>
  PROVE  Inv'
<1> DEFINE g == [facts[n] EXCEPT !.status = status, !.reason = reason]
<1>1. n \in FactIds /\ facts[n] \in FactType
  BY DEF Inv, TypeOK, Stored, LedgerAssumption
<1>2. g \in FactType /\ g.status = status
  BY <1>1 DEF FactType
<1>3. facts' = [facts EXCEPT ![n] = g]
  BY <1>1 DEF Inv, TypeOK
<1> HIDE DEF g
<1> QED BY <1>1, <1>2, <1>3, OutsideKeeps

LEMMA ApproveDuplicateKeeps ==
  ASSUME LedgerAssumption, Inv, NEW n \in Stored, ApproveDuplicate(n)
  PROVE  Inv'
<1>1. PICK i \in Restated(facts[n].object, facts[n].from) : Affirmed(i, facts[n].from)
  BY DEF ApproveDuplicate
<1>2. i \in FactIds /\ facts[n].from \in Times
  BY <1>1 DEF Restated, Lowest, Covering, Ledger, Stored, Inv, TypeOK, FactType,
              LedgerAssumption
<1>3. affirmations' \subseteq [fact : FactIds, from : Times]
  BY <1>1, <1>2, AffirmedType DEF Inv
<1>4. n \notin Ledger
  BY DEF ApproveDuplicate, Proposed, Ledger
<1> QED BY <1>3, <1>4, VerdictKeeps DEF ApproveDuplicate

LEMMA DeclineKeeps ==
  ASSUME LedgerAssumption, Inv, NEW n \in Stored, Decline(n)
  PROVE  Inv'
<1>1. n \notin Ledger /\ affirmations' = affirmations
  BY DEF Decline, Proposed, Ledger
<1> QED BY <1>1, VerdictKeeps DEF Decline, Inv, TypeOK, PersonsReasons

LEMMA ReconsiderKeeps ==
  ASSUME LedgerAssumption, Inv, NEW n \in Stored, Reconsider(n)
  PROVE  Inv'
<1>1. n \notin Ledger /\ affirmations' = affirmations
  BY DEF Reconsider, Ledger
<1> QED BY <1>1, VerdictKeeps DEF Reconsider, Inv, TypeOK

-----------------------------------------------------------------------------
(* Steps that place a fact.                                                 *)

LEMMA AssertBoundedKeeps ==
  ASSUME LedgerAssumption, Inv, NEW o \in Objects, NEW t \in Times, AssertBounded(o, t)
  PROVE  Inv'
<1>1. used + 1 \in FactIds /\ used + 1 \notin Ledger /\ used' = used + 1 /\ Grows(used + 1)
  BY DEF AssertBounded, Inv, TypeOK, Ledger, Stored, Grows, LedgerAssumption
<1>2. Fresh(o, t, "active") \in FactType
  BY FreshFact
<1>3. EnterBounded(Fresh(o, t, "active"), used + 1) /\ UNCHANGED <<now, frayed>>
  BY DEF AssertBounded
<1> QED BY <1>1, <1>2, <1>3, EnterBoundedKeeps

LEMMA AssertResumingKeeps ==
  ASSUME LedgerAssumption, Inv, NEW o \in Objects, NEW t \in Times, AssertResuming(o, t)
  PROVE  Inv'
<1>1. /\ used + 1 \in FactIds /\ used + 2 \in FactIds /\ used + 2 \notin Ledger
      /\ used' = used + 2 /\ used' <= MaxFacts
  BY DEF AssertResuming, Inv, TypeOK, Ledger, Stored, LedgerAssumption
<1>2. Fresh(o, t, "active") \in FactType
  BY FreshFact
<1>3. EnterResuming(Fresh(o, t, "active"), used + 2, used + 1) /\ UNCHANGED <<now, frayed>>
  BY DEF AssertResuming
<1> QED BY <1>1, <1>2, <1>3, EnterResumingKeeps

LEMMA ApproveBoundedKeeps ==
  ASSUME LedgerAssumption, Inv, NEW n \in Stored, ApproveBounded(n)
  PROVE  Inv'
<1>1. /\ n \in FactIds /\ n \notin Ledger /\ facts[n] \in FactType
      /\ used' = used /\ Grows(n)
  BY DEF ApproveBounded, Proposed, Inv, TypeOK, Ledger, Stored, Grows, LedgerAssumption
<1>2. EnterBounded(facts[n], n) /\ UNCHANGED <<now, frayed>>
  BY DEF ApproveBounded
<1> QED BY <1>1, <1>2, EnterBoundedKeeps

LEMMA ApproveResumingKeeps ==
  ASSUME LedgerAssumption, Inv, NEW n \in Stored, ApproveResuming(n)
  PROVE  Inv'
<1>1. /\ n \in FactIds /\ n \notin Ledger /\ facts[n] \in FactType
      /\ used + 1 \in FactIds /\ used' = used + 1 /\ used' <= MaxFacts
  BY DEF ApproveResuming, Proposed, Inv, TypeOK, Ledger, Stored, LedgerAssumption
<1>2. EnterResuming(facts[n], n, used + 1) /\ UNCHANGED <<now, frayed>>
  BY DEF ApproveResuming
<1> QED BY <1>1, <1>2, EnterResumingKeeps

-----------------------------------------------------------------------------
(* Steps that end a claim or open it again.                                 *)

\* What names a successor keeps its end and the name of it, and the successor
\* its first day.
LEMMA StillSuperseded ==
  ASSUME Inv, Ledger \subseteq Ledger',
         \A i \in Ledger : facts'[i].from = facts[i].from,
         NEW x, NEW i \in Ledger,
         facts'[x].by = facts[i].by, facts'[x].until = facts[i].until, facts'[x].by # 0
  PROVE  facts'[x].by \in Ledger' /\ facts'[facts'[x].by].from = facts'[x].until
BY DEF Inv, SupersededIsTrue

LEMMA CloseBoundedKeeps ==
  ASSUME LedgerAssumption, Inv, NEW n \in Stored, NEW t \in Times, CloseBounded(n, t)
  PROVE  Inv'
<1>1. /\ n \in FactIds /\ n \in Ledger /\ facts[n] \in FactType
      /\ facts \in [FactIds -> FactType] /\ Ledger \subseteq FactIds
      /\ facts[n].from <= t /\ facts[n].until = Never /\ facts[n].by = 0
  BY DEF CloseBounded, Closable, Inv, TypeOK, Ledger, Stored, ActiveIsUnnamed, LedgerAssumption
<1>2. /\ facts' \in [FactIds -> FactType]
      /\ facts'[n].from = facts[n].from /\ facts'[n].until = t /\ facts'[n].by = 0
      /\ facts'[n].status = "closed"
      /\ \A i \in FactIds : i # n => facts'[i] = facts[i]
  <2>1. PICK why \in PersonsReasons : facts' = [facts EXCEPT ![n] = Ended(facts[n], t, why)]
    BY DEF CloseBounded
  <2>2. facts'[n] = Ended(facts[n], t, why) /\ \A i \in FactIds : i # n => facts'[i] = facts[i]
    BY <1>1, <2>1
  <2>3. /\ Ended(facts[n], t, why) \in FactType /\ Ended(facts[n], t, why).from = facts[n].from
        /\ Ended(facts[n], t, why).until = t /\ Ended(facts[n], t, why).by = facts[n].by
        /\ Ended(facts[n], t, why).status = "closed"
    BY <1>1, EndedFact
  <2> QED BY <1>1, <2>1, <2>2, <2>3
<1>3. used' = used /\ Ledger' = Ledger
  BY <1>1, <1>2 DEF CloseBounded, Ledger, Stored
<1>4. \A i \in Ledger : facts[i].from \in Nat /\ facts[i].until \in Nat
                        /\ facts[i].from <= facts[i].until /\ facts[i].until <= Never
                        /\ facts[i].from < Never
  BY <1>1 DEF FactType, LedgerAssumption, Inv, WellFormed
<1>5. TypeOK'
  BY <1>1, <1>2, <1>3 DEF CloseBounded, Inv, TypeOK, LedgerAssumption, Ledger
<1>6. WellFormed' /\ ActiveIsUnnamed'
  BY <1>1, <1>2, <1>3 DEF Inv, WellFormed, ActiveIsUnnamed
<1>7. Ordered'
  <2>1. SUFFICES ASSUME ~frayed, NEW i \in Ledger, NEW j \in Ledger, i # j
                 PROVE  Apart(i, j)'
    BY <1>3 DEF CloseBounded, Ordered
  <2>2. Apart(i, j)
    BY <2>1 DEF Inv, Ordered
  <2>3. ASSUME NEW k \in {i, j}
        PROVE  /\ facts'[k].from = facts[k].from
               /\ IF k = n THEN facts'[k].until = t ELSE facts'[k].until = facts[k].until
               /\ facts[k].from \in Nat /\ facts[k].until \in Nat /\ facts[k].from < Never
    BY <1>1, <1>2, <1>4
  <2>4. facts[n].from <= t /\ t <= MaxTime /\ facts[n].until = Never /\ t \in Nat /\ MaxTime \in Nat
    BY <1>1 DEF LedgerAssumption
  <2> QED BY <2>1, <2>2, <2>3, <2>4 DEF Apart
<1>8. SupersededIsTrue'
  <2>1. \A i \in Ledger : facts'[i].from = facts[i].from /\ (i # n => facts'[i] = facts[i])
    BY <1>1, <1>2
  <2>2. ASSUME NEW i \in Ledger', facts'[i].by # 0
        PROVE  facts'[i].by \in Ledger' /\ facts'[facts'[i].by].from = facts'[i].until
    BY <1>2, <1>3, <2>1, <2>2, StillSuperseded
  <2> QED BY <2>2 DEF SupersededIsTrue
<1> QED BY <1>5, <1>6, <1>7, <1>8 DEF Inv

LEMMA CloseResumingKeeps ==
  ASSUME LedgerAssumption, Inv, NEW n \in Stored, NEW t \in Times, CloseResuming(n, t)
  PROVE  Inv'
<1> DEFINE r == used + 1
<1>1. /\ n \in FactIds /\ n \in Ledger /\ facts[n] \in FactType
      /\ facts \in [FactIds -> FactType] /\ Ledger \subseteq FactIds
      /\ facts[n].from <= t /\ facts[n].until = Never /\ facts[n].by = 0
      /\ facts[n].status = "active"
      /\ r \in FactIds /\ r \notin Ledger /\ n # r
  <2>1. /\ n \in FactIds /\ facts[n] \in FactType /\ facts \in [FactIds -> FactType]
        /\ Ledger \subseteq FactIds
    BY DEF Inv, TypeOK, Ledger, Stored, LedgerAssumption
  <2>2. facts[n].from <= t /\ facts[n].status = "active" /\ n \in Ledger
    BY <2>1 DEF CloseResuming, Closable, Ledger
  <2>3. facts[n].until = Never /\ facts[n].by = 0
    BY <2>2 DEF Inv, TypeOK, ActiveIsUnnamed
  <2>4. r \in FactIds /\ r \notin Ledger /\ n # r
    BY DEF CloseResuming, Inv, TypeOK, Ledger, Stored, LedgerAssumption
  <2> QED BY <2>1, <2>2, <2>3, <2>4
<1>2. PICK a \in affirmations, why \in PersonsReasons :
        /\ IsFirst(a, n, t)
        /\ facts' = [facts EXCEPT ![n] = Ended(@, t, why), ![r] = Resumed(facts[n], a.from)]
        /\ affirmations' = Moved(n, t, r)
  BY DEF CloseResuming
<1> DEFINE s == a.from
<1>3. s \in Times /\ t < s /\ used' = r /\ used \in 0..MaxFacts /\ now' = t /\ frayed' = frayed
  BY <1>2, FirstInside DEF CloseResuming, Inv, TypeOK
<1>4. /\ facts' \in [FactIds -> FactType]
      /\ facts'[n].from = facts[n].from /\ facts'[n].until = t /\ facts'[n].by = 0
      /\ facts'[n].status = "closed"
      /\ facts'[r].from = s /\ facts'[r].until = Never /\ facts'[r].by = 0
      /\ facts'[r].status = "active"
      /\ \A i \in FactIds : i # n /\ i # r => facts'[i] = facts[i]
  <2>1. facts' = [facts EXCEPT ![n] = Ended(facts[n], t, why), ![r] = Resumed(facts[n], s)]
    BY <1>2
  <2>2. /\ facts'[n] = Ended(facts[n], t, why) /\ facts'[r] = Resumed(facts[n], s)
        /\ \A i \in FactIds : i # n /\ i # r => facts'[i] = facts[i]
    BY <1>1, <2>1
  <2>3. /\ Ended(facts[n], t, why) \in FactType /\ Ended(facts[n], t, why).from = facts[n].from
        /\ Ended(facts[n], t, why).until = t /\ Ended(facts[n], t, why).by = facts[n].by
        /\ Ended(facts[n], t, why).status = "closed"
    BY <1>1, EndedFact
  <2>4. /\ Resumed(facts[n], s) \in FactType /\ Resumed(facts[n], s).from = s
        /\ Resumed(facts[n], s).until = facts[n].until
        /\ Resumed(facts[n], s).by = facts[n].by
        /\ Resumed(facts[n], s).status = facts[n].status
    BY ZenonT(60), <1>1, <1>3, ResumedFact
  <2> QED BY <1>1, <2>1, <2>2, <2>3, <2>4
<1> HIDE DEF s
<1>5. Ledger' = Ledger \cup {r}
  <2>1. /\ Stored' = Stored \cup {r} /\ Stored \subseteq FactIds /\ r \notin Stored
    BY <1>1, <1>3 DEF Stored, LedgerAssumption
  <2>2. \A i \in Ledger \cup {r} : facts'[i].status \in {"active", "closed"}
    BY <1>1, <1>4 DEF Ledger
  <2>3. \A i \in Stored : i \notin Ledger => facts'[i] = facts[i]
    BY <1>1, <1>4, <2>1
  <2> QED BY <1>1, <2>1, <2>2, <2>3 DEF Ledger
<1>6. \A i \in Ledger : facts[i].from \in Nat /\ facts[i].until \in Nat
                        /\ facts[i].from <= facts[i].until /\ facts[i].until <= Never
                        /\ facts[i].from < Never
  BY SMTT(30), <1>1 DEF FactType, LedgerAssumption, Inv, WellFormed
<1>7. TypeOK'
  <2>1. \A i \in FactIds : facts'[i].status = "none" <=> i > used'
    BY SMTT(30), <1>1, <1>3, <1>4 DEF Inv, TypeOK, LedgerAssumption
  <2>2. \A i \in Ledger' : facts'[i].status = "active" <=> facts'[i].until = Never
    BY <1>1, <1>4, <1>5 DEF Inv, TypeOK, LedgerAssumption
  <2>3. affirmations' \subseteq [fact : FactIds, from : Times]
    BY <1>1, <1>2, MovedType DEF Inv
  <2>4. used' \in 0..MaxFacts
    BY <1>1, <1>3 DEF LedgerAssumption
  <2> QED BY <1>3, <1>4, <2>1, <2>2, <2>3, <2>4 DEF Inv, TypeOK
<1>8. WellFormed' /\ ActiveIsUnnamed'
  BY <1>1, <1>3, <1>4, <1>5 DEF Inv, WellFormed, ActiveIsUnnamed, LedgerAssumption
<1>9. ASSUME ~frayed', NEW i \in Ledger', NEW j \in Ledger', i # j
      PROVE  Apart(i, j)'
  <2>1. \A x, y \in Ledger : x # y => Apart(x, y)
    BY <1>3, <1>9 DEF Inv, Ordered
  <2>2. ASSUME NEW x \in Ledger, x # n
        PROVE  x # r /\ facts[x].from <= facts[n].from /\ facts[x].until <= facts[n].from
    <3>1. Apart(x, n) /\ Apart(n, x) /\ x # r
      BY <1>1, <2>1, <2>2
    <3>2. /\ facts[n].until = Never /\ facts[n].from \in Nat /\ facts[n].from < Never
          /\ facts[x].from \in Nat /\ facts[x].until \in Nat /\ facts[x].from < Never
          /\ facts[x].from <= facts[x].until /\ Never \in Nat
      BY <1>1, <1>6, LedgerAssumption DEF LedgerAssumption
    <3> QED BY <3>1, <3>2 DEF Apart
  <2>3. facts[n].from \in Nat /\ t \in Nat /\ s \in Nat /\ s < Never
    BY <1>1, <1>3 DEF FactType, LedgerAssumption
  <2>4. \A x \in Ledger : x # n => facts'[x] = facts[x]
    BY <1>1, <1>4
  <2>5. ASSUME NEW k \in {n, r}, NEW x \in Ledger, x # n
        PROVE  Apart(k, x)' /\ Apart(x, k)'
    <3>1. /\ facts'[k].from = facts[n].from \/ facts'[k].from = s
          /\ facts[n].from <= t /\ t < s
      BY <1>1, <1>3, <1>4
    <3>2. /\ facts'[x] = facts[x] /\ facts[x].from \in Nat /\ facts[x].until \in Nat
          /\ facts[x].from <= facts[x].until
          /\ facts[x].from <= facts[n].from /\ facts[x].until <= facts[n].from
      BY <1>6, <2>2, <2>4, <2>5
    <3> QED BY ONLY <2>3, <3>1, <3>2 DEF Apart
  <2>6. CASE i = n \/ i = r
    <3>1. CASE j \in Ledger /\ j # n
      BY <2>6, <2>5, <3>1
    <3>2. CASE j = n \/ j = r
      BY <1>1, <1>3, <1>4, <1>9, <2>3, <2>6, <3>2 DEF Apart
    <3> QED BY <1>5, <3>1, <3>2
  <2>7. CASE i \in Ledger /\ i # n
    <3>1. CASE j = n \/ j = r
      BY <2>7, <2>5, <3>1
    <3>2. CASE j \in Ledger /\ j # n
      BY <1>9, <2>1, <2>4, <2>7, <3>2 DEF Apart
    <3> QED BY <1>5, <3>1, <3>2
  <2> QED BY <1>5, <2>6, <2>7
<1>10. SupersededIsTrue'
  <2>1. \A i \in Ledger : facts'[i].from = facts[i].from /\ (i # n => facts'[i] = facts[i])
    BY <1>1, <1>4
  <2>2. ASSUME NEW i \in Ledger', facts'[i].by # 0
        PROVE  facts'[i].by \in Ledger' /\ facts'[facts'[i].by].from = facts'[i].until
    BY <1>4, <1>5, <2>1, <2>2, StillSuperseded
  <2> QED BY <2>2 DEF SupersededIsTrue
<1> QED BY <1>7, <1>8, <1>9, <1>10 DEF Inv, Ordered

LEMMA ReopenKeeps ==
  ASSUME LedgerAssumption, Inv, NEW n \in Stored, Reopen(n)
  PROVE  Inv'
<1>1. /\ n \in FactIds /\ n \in Ledger /\ facts[n] \in FactType
      /\ facts \in [FactIds -> FactType] /\ Ledger \subseteq FactIds
      /\ facts[n].by = 0 /\ used' = used
  BY DEF Reopen, Inv, TypeOK, Ledger, Stored, LedgerAssumption
<1>2. /\ facts' \in [FactIds -> FactType]
      /\ facts'[n].from = facts[n].from /\ facts'[n].until = Never /\ facts'[n].by = 0
      /\ facts'[n].status = "active"
      /\ \A i \in FactIds : i # n => facts'[i] = facts[i]
  <2> DEFINE g == [facts[n] EXCEPT !.status = "active", !.until = Never, !.reason = "none"]
  <2>1. g \in FactType /\ g.from = facts[n].from /\ g.until = Never /\ g.by = 0
        /\ g.status = "active"
    BY <1>1 DEF FactType
  <2>2. facts' = [facts EXCEPT ![n] = g]
    BY <1>1 DEF Reopen
  <2> HIDE DEF g
  <2> QED BY <1>1, <2>1, <2>2
<1>3. Ledger' = Ledger
  <2>1. Stored' = Stored /\ Stored \subseteq FactIds
    BY <1>1 DEF Stored, Inv, TypeOK, LedgerAssumption
  <2>2. \A i \in Stored : i # n => facts'[i] = facts[i]
    BY <1>2, <2>1
  <2> QED BY <1>1, <1>2, <2>1, <2>2 DEF Ledger
<1>4. \A i \in Ledger : facts[i].from \in Nat /\ facts[i].until \in Nat
                        /\ facts[i].from <= facts[i].until /\ facts[i].from < Never
  BY <1>1 DEF FactType, LedgerAssumption, Inv, WellFormed
<1>5. TypeOK'
  <2>1. \A i \in FactIds : facts'[i].status = "none" <=> i > used'
    BY <1>1, <1>2 DEF Reopen, Inv, TypeOK
  <2>2. \A i \in Ledger' : facts'[i].status = "active" <=> facts'[i].until = Never
    BY <1>1, <1>2, <1>3 DEF Inv, TypeOK
  <2>3. frayed' \in BOOLEAN /\ now' = now /\ affirmations' = affirmations
    BY DEF Reopen, Inv, TypeOK
  <2> QED BY <1>1, <1>2, <2>1, <2>2, <2>3 DEF Inv, TypeOK
<1>6. WellFormed' /\ ActiveIsUnnamed'
  BY <1>1, <1>2, <1>3, <1>4 DEF Inv, WellFormed, ActiveIsUnnamed, LedgerAssumption
<1>7. Ordered'
  <2>1. ASSUME ~frayed'
        PROVE  ~frayed /\ \A i \in Ledger : i # n => ~(facts[i].from >= facts[n].until)
    BY <2>1 DEF Reopen
  <2>2. ASSUME ~frayed', NEW i \in Ledger, NEW j \in Ledger, i # j
        PROVE  Apart(i, j)'
    <3>1. Apart(i, j) /\ ~frayed
      BY <2>1, <2>2 DEF Inv, Ordered
    <3>2. ASSUME NEW x \in Ledger, x # n PROVE facts[x].from < facts[n].until
      <4>1. facts[x].from \in Nat /\ facts[n].until \in Nat
        BY <1>1, <1>4
      <4>2. ~(facts[x].from >= facts[n].until)
        BY <2>1, <2>2, <3>2
      <4> QED BY ONLY <4>1, <4>2
    <3>3. CASE i # n /\ j # n
      BY <1>1, <1>2, <3>1, <3>3 DEF Apart
    <3>4. CASE i = n
      BY <1>1, <1>2, <1>4, <2>2, <3>1, <3>2, <3>4 DEF Apart
    <3>5. CASE j = n
      BY <1>1, <1>2, <1>4, <2>2, <3>1, <3>2, <3>5 DEF Apart
    <3> QED BY <3>3, <3>4, <3>5
  <2> QED BY <1>3, <2>2 DEF Ordered
<1>8. SupersededIsTrue'
  <2>1. \A i \in Ledger : facts'[i].from = facts[i].from /\ (i # n => facts'[i] = facts[i])
    BY <1>1, <1>2
  <2>2. ASSUME NEW i \in Ledger', facts'[i].by # 0
        PROVE  facts'[i].by \in Ledger' /\ facts'[facts'[i].by].from = facts'[i].until
    BY <1>2, <1>3, <2>1, <2>2, StillSuperseded
  <2> QED BY <2>2 DEF SupersededIsTrue
<1> QED BY <1>5, <1>6, <1>7, <1>8 DEF Inv

LEMMA TornResumptionKeeps ==
  ASSUME LedgerAssumption, Inv, NEW n \in Ledger, NEW t \in Times, TornResumption(n, t)
  PROVE  Inv'
<1> DEFINE r == used + 1
<1>1. /\ n \in FactIds /\ facts[n] \in FactType /\ used \in 0..MaxFacts
      /\ facts \in [FactIds -> FactType] /\ Ledger \subseteq FactIds
      /\ r \in FactIds /\ r \notin Ledger /\ used' = r /\ frayed'
      /\ UNCHANGED <<affirmations, now>>
  BY DEF TornResumption, Inv, TypeOK, Ledger, Stored, LedgerAssumption
<1>2. PICK a \in affirmations :
        IsFirst(a, n, t) /\ facts' = [facts EXCEPT ![r] = Resumed(facts[n], a.from)]
  BY DEF TornResumption
<1>3. a.from \in Times /\ a.from < facts[n].until
  BY <1>2, FirstInside DEF Inv
<1>4. /\ facts' \in [FactIds -> FactType]
      /\ facts'[r].from = a.from /\ facts'[r].until = facts[n].until
      /\ facts'[r].by = facts[n].by /\ facts'[r].status = facts[n].status
      /\ \A i \in FactIds : i # r => facts'[i] = facts[i]
  BY <1>1, <1>2, <1>3, ResumedFact
<1>5. Ledger' = Ledger \cup {r}
  <2>1. /\ Stored' = Stored \cup {r} /\ Stored \subseteq FactIds /\ r \notin Stored
    BY <1>1 DEF Stored, LedgerAssumption
  <2>2. \A i \in Stored : facts'[i] = facts[i]
    BY <1>4, <2>1
  <2>3. facts'[r].status \in {"active", "closed"}
    BY <1>4 DEF Ledger
  <2> QED BY <2>1, <2>2, <2>3 DEF Ledger
<1>6. TypeOK'
  <2>1. ASSUME NEW i \in FactIds PROVE facts'[i].status = "none" <=> i > used'
    <3>1. facts[i].status = "none" <=> i > used
      BY DEF Inv, TypeOK
    <3>2. facts'[r].status # "none" /\ (i # r => facts'[i] = facts[i])
      BY <1>1, <1>4 DEF Ledger
    <3>3. i \in Nat /\ used \in Nat /\ used' = used + 1
      BY <1>1 DEF LedgerAssumption
    <3> QED BY <3>1, <3>2, <3>3
  <2>2. \A i \in Ledger' : facts'[i].status = "active" <=> facts'[i].until = Never
    BY <1>1, <1>4, <1>5 DEF Inv, TypeOK
  <2>3. used' \in 0..MaxFacts /\ frayed' \in BOOLEAN /\ UNCHANGED <<affirmations, now>>
    BY <1>1 DEF LedgerAssumption
  <2> QED BY <1>4, <2>1, <2>2, <2>3 DEF Inv, TypeOK
<1>7. WellFormed' /\ ActiveIsUnnamed' /\ SupersededIsTrue' /\ Ordered'
  <2>1. a.from <= facts[n].until
    BY SMTT(30), <1>1, <1>3 DEF FactType, LedgerAssumption
  <2>2. \A i \in Ledger : facts'[i] = facts[i]
    BY <1>1, <1>4
  <2>3. WellFormed' /\ ActiveIsUnnamed' /\ Ordered'
    BY <1>1, <1>4, <1>5, <2>1, <2>2 DEF Inv, WellFormed, ActiveIsUnnamed, Ordered
  <2>4. ASSUME NEW i \in Ledger', facts'[i].by # 0
        PROVE  facts'[i].by \in Ledger' /\ facts'[facts'[i].by].from = facts'[i].until
    BY <1>4, <1>5, <2>2, <2>4, StillSuperseded
  <2> QED BY <2>3, <2>4 DEF SupersededIsTrue
<1> QED BY <1>6, <1>7 DEF Inv

-----------------------------------------------------------------------------
(* The specification.                                                       *)

LEMMA InitInv == LedgerAssumption /\ Init => Inv
<1> SUFFICES ASSUME LedgerAssumption, Init PROVE Inv
  OBVIOUS
<1>1. NoFact \in FactType /\ NoFact.status = "none"
  BY DEF NoFact, Fresh, FactType, LedgerAssumption
<1>2. facts \in [FactIds -> FactType] /\ used = 0 /\ \A i \in FactIds : facts[i].status = "none"
  BY <1>1 DEF Init
<1>3. Stored = {} /\ Ledger = {}
  BY <1>2 DEF Stored, Ledger
<1>4. TypeOK
  <2>1. used \in 0..MaxFacts /\ 1 \in Times /\ \A i \in FactIds : i > used
    BY <1>2 DEF LedgerAssumption
  <2> QED BY <1>2, <1>3, <2>1 DEF Init, TypeOK
<1> QED
  BY <1>3, <1>4 DEF Inv, WellFormed, ActiveIsUnnamed, Ordered, SupersededIsTrue

LEMMA StutterKeeps == ASSUME Inv, UNCHANGED vars PROVE Inv'
BY DEF vars, Inv, TypeOK, WellFormed, ActiveIsUnnamed, Ordered, Apart, SupersededIsTrue,
       Ledger, Stored

LEMMA NextInv == LedgerAssumption /\ Inv /\ [Next]_vars => Inv'
<1> SUFFICES ASSUME LedgerAssumption, Inv, [Next]_vars PROVE Inv'
  OBVIOUS
<1>1. ASSUME NEW o \in Objects, NEW t \in Times, AssertFact(o, t)
      PROVE  Inv'
  BY <1>1, RestateKeeps, AssertBoundedKeeps, AssertResumingKeeps, ProposeKeeps DEF AssertFact
<1>2. ASSUME NEW n \in Stored, Review(n)
      PROVE  Inv'
  BY <1>2, ApproveDuplicateKeeps, ApproveBoundedKeeps, ApproveResumingKeeps, DeclineKeeps,
     ReconsiderKeeps, ReopenKeeps, CloseBoundedKeeps, CloseResumingKeeps DEF Review
<1>3. ASSUME NEW n \in Ledger, NEW t \in Times, TornResumption(n, t)
      PROVE  Inv'
  BY <1>3, TornResumptionKeeps
<1> QED BY <1>1, <1>2, <1>3, StutterKeeps DEF Next

LEMMA InvHolds == Spec => []Inv
<1>1. LedgerAssumption
  BY LedgerAssumption
<1> QED BY <1>1, InitInv, NextInv, PTL DEF Spec

\* The store keeps facts and restatements as its schema says.
THEOREM TypeCorrect == Spec => []TypeOK
<1>1. Inv => TypeOK
  BY DEF Inv
<1> QED BY <1>1, InvHolds, PTL

\* The order of the facts' days is an order of the facts: a day has one fact.
LEMMA OrderedHoldsOnce == Inv => NothingHeldTwice
<1> SUFFICES ASSUME Inv, ~frayed, NEW t \in Times, NEW i \in Covering(t), NEW j \in Covering(t)
             PROVE  i = j
  BY DEF NothingHeldTwice, HeldOnce
<1>1. /\ i \in Ledger /\ j \in Ledger /\ facts[i].from <= t /\ t < facts[i].until
      /\ facts[j].from <= t /\ t < facts[j].until
  BY DEF Covering, Covers
<1>2. i # j => Apart(i, j) /\ Apart(j, i)
  BY <1>1 DEF Inv, Ordered
<1>3. /\ facts[i].from \in Nat /\ facts[i].until \in Nat
      /\ facts[j].from \in Nat /\ facts[j].until \in Nat /\ t \in Nat
  BY SMTT(30), <1>1, LedgerAssumption DEF Inv, TypeOK, FactType, Ledger, Stored, LedgerAssumption
<1> QED BY <1>1, <1>2, <1>3 DEF Apart

\* Facts told, approved, restated and closed in any order never hold together
\* on one day, unless a reopening or a torn placement made them.
THEOREM HeldOnceUntilFrayed == Spec => []NothingHeldTwice
BY InvHolds, OrderedHoldsOnce, PTL

\* What a fact says of the fact that superseded it is true.
THEOREM SupersedingIsTrue == Spec => []SupersededIsTrue
<1>1. Inv => SupersededIsTrue
  BY DEF Inv
<1> QED BY <1>1, InvHolds, PTL

-----------------------------------------------------------------------------
(* What a step may not do to a person's reason.                             *)

\* The fact was closed by a person, and is closed.
ByPerson(i) == facts[i].status = "closed" /\ facts[i].reason \in PersonsReasons

ReasonKept(i) ==
  facts'[i].status = "closed" =>
    \/ facts'[i].reason = facts[i].reason
    \/ /\ facts[i].reason = "alike" /\ facts'[i].reason = "superseded"
       /\ facts'[i].by \notin {0, facts[i].by}

LEMMA EnteringKeepsReason ==
  ASSUME LedgerAssumption, Inv, NEW n \in FactIds, NEW f \in FactType, n \notin Ledger,
         EnterBounded(f, n) \/ EnterResuming(f, n, used + 1),
         NEW i \in Ledger, ByPerson(i)
  PROVE  ReasonKept(i)
<1>1. /\ i \in FactIds /\ facts[i] \in FactType /\ i # n /\ i # used + 1 /\ f.from \in Times
  <2>1. /\ i \in 1..used /\ used \in 0..MaxFacts /\ MaxFacts \in Nat
        /\ facts \in [FactIds -> FactType]
    BY DEF Inv, TypeOK, Ledger, Stored, LedgerAssumption
  <2>2. i \in FactIds /\ i # used + 1
    BY <2>1
  <2>3. f.from \in Times
    BY DEF FactType
  <2> QED BY <2>1, <2>2, <2>3
<1>2. facts'[i] = Cut(facts[i], f.from, n) \/ facts'[i] = facts[i]
  <2>1. CASE EnterBounded(f, n)
    BY <1>1, <2>1 DEF EnterBounded
  <2>2. CASE EnterResuming(f, n, used + 1)
    BY <1>1, <2>2 DEF EnterResuming
  <2> QED BY <2>1, <2>2
<1>3. /\ Cut(facts[i], f.from, n).by = n
      /\ Cut(facts[i], f.from, n).reason = CutFor(facts[i].reason)
  <2>1. facts[i] \in FactType /\ f.from \in Times /\ n \in FactIds
    BY <1>1
  <2> QED BY ONLY <2>1, CutFact
<1>4. n # 0 /\ n # facts[i].by
  <2>1. facts[i].by # 0 => facts[i].by \in Ledger
    BY DEF Inv, SupersededIsTrue
  <2> QED BY <2>1
<1>5. CASE facts[i].reason = "person"
  BY <1>2, <1>3, <1>5 DEF ReasonKept, CutFor
<1>6. CASE facts[i].reason = "alike"
  BY <1>2, <1>3, <1>4, <1>6 DEF ReasonKept, CutFor
<1> QED BY <1>5, <1>6 DEF ByPerson, PersonsReasons

\* No other step writes to it but the one that opens it again.
LEMMA ReviewKeepsReason ==
  ASSUME LedgerAssumption, Inv, NEW n \in Stored, Review(n), NEW i \in Ledger, ByPerson(i)
  PROVE  ReasonKept(i)
<1>1. /\ n \in FactIds /\ i \in FactIds /\ facts[n] \in FactType /\ i # used + 1
      /\ facts \in [FactIds -> FactType]
  BY DEF Inv, TypeOK, Ledger, Stored, LedgerAssumption
<1>2. CASE ApproveDuplicate(n) \/ Decline(n) \/ Reconsider(n)
  <2>1. i # n
    BY <1>2 DEF ApproveDuplicate, Decline, Reconsider, Proposed, Ledger
  <2>2. facts'[i] = facts[i]
    BY <1>1, <1>2, <2>1 DEF ApproveDuplicate, Decline, Reconsider
  <2> QED BY <2>2 DEF ReasonKept, ByPerson
<1>3. CASE ApproveBounded(n) \/ ApproveResuming(n)
  <2>1. n \notin Ledger /\ (EnterBounded(facts[n], n) \/ EnterResuming(facts[n], n, used + 1))
    BY <1>3 DEF ApproveBounded, ApproveResuming, Proposed, Ledger
  <2> QED BY <1>1, <2>1, EnteringKeepsReason
<1>4. CASE Reopen(n)
  <2>1. i # n => facts'[i] = facts[i]
    BY <1>1, <1>4 DEF Reopen
  <2>2. i = n => facts'[i].status = "active"
    BY <1>1, <1>4 DEF Reopen, FactType
  <2> QED BY <2>1, <2>2 DEF ReasonKept, ByPerson
<1>5. ASSUME NEW t \in Times, CloseBounded(n, t) \/ CloseResuming(n, t)
      PROVE  ReasonKept(i)
  <2>1. i # n
    BY <1>5 DEF CloseBounded, CloseResuming, Closable, ByPerson
  <2>2. facts'[i] = facts[i]
    BY <1>1, <1>5, <2>1 DEF CloseBounded, CloseResuming
  <2> QED BY <2>2 DEF ReasonKept, ByPerson
<1> QED BY <1>2, <1>3, <1>4, <1>5 DEF Review

\* The reason a person wrote outlives every later placement that moves the end
\* of the fact; one that reads like a cut's own is lost only to a cut, whose fact is
\* then named instead.
THEOREM ReasonStays == Spec => PersonsReasonStays
<1>1. ASSUME LedgerAssumption, Inv, [Next]_vars
      PROVE  [\A i \in Ledger :
                /\ facts[i].status = "closed" /\ facts[i].reason \in PersonsReasons
                /\ facts'[i].status = "closed"
                => \/ facts'[i].reason = facts[i].reason
                   \/ /\ facts[i].reason = "alike" /\ facts'[i].reason = "superseded"
                      /\ facts'[i].by \notin {0, facts[i].by}]_vars
  <2>1. CASE UNCHANGED vars
    BY <2>1
  <2>2. CASE Next
    <3> SUFFICES ASSUME NEW i \in Ledger, ByPerson(i)
                 PROVE  ReasonKept(i)
      BY DEF ByPerson, ReasonKept
    <3>1. /\ i \in FactIds /\ i # used + 1 /\ facts \in [FactIds -> FactType]
          /\ i # used + 2
      BY <1>1 DEF Inv, TypeOK, Ledger, Stored, LedgerAssumption
    <3>2. ASSUME NEW o \in Objects, NEW t \in Times, AssertFact(o, t)
          PROVE  ReasonKept(i)
      <4>1. CASE Restate(o, t)
        BY <4>1 DEF Restate, ReasonKept, ByPerson
      <4>2. CASE AssertBounded(o, t)
        <5>1. used + 1 \in FactIds /\ used + 1 \notin Ledger
          BY <1>1, <4>2 DEF AssertBounded, Inv, TypeOK, Ledger, Stored, LedgerAssumption
        <5> QED BY <1>1, <4>2, <5>1, FreshFact, EnteringKeepsReason DEF AssertBounded
      <4>3. CASE AssertResuming(o, t)
        <5>1. used + 2 \in FactIds /\ used + 2 \notin Ledger
          BY <1>1, <4>3 DEF AssertResuming, Inv, TypeOK, Ledger, Stored, LedgerAssumption
        <5> QED BY <1>1, <4>3, <5>1, FreshFact, EnteringKeepsReason DEF AssertResuming
      <4>4. CASE Propose(o, t)
        BY <3>1, <4>4 DEF Propose, ReasonKept, ByPerson
      <4> QED BY <3>2, <4>1, <4>2, <4>3, <4>4 DEF AssertFact
    <3>3. ASSUME NEW n \in Stored, Review(n)
          PROVE  ReasonKept(i)
      BY <1>1, <3>3, ReviewKeepsReason
    <3>4. ASSUME NEW n \in Ledger, NEW t \in Times, TornResumption(n, t)
          PROVE  ReasonKept(i)
      BY <3>1, <3>4 DEF TornResumption, ReasonKept, ByPerson
    <3> QED BY <2>2, <3>2, <3>3, <3>4 DEF Next
  <2> QED BY <1>1, <2>1, <2>2
<1>2. LedgerAssumption
  BY LedgerAssumption
<1> QED BY <1>1, <1>2, InvHolds, PTL DEF Spec, PersonsReasonStays
=============================================================================
