------------------------- MODULE FactTimeline_proofs -------------------------
(***************************************************************************)
(* The ledger of a slot read as a timeline, for every value of the           *)
(* constants: what it answers for a day is what was last said about it.      *)
(***************************************************************************)
EXTENDS FactLedger_proofs, WellFoundedInduction

USE DEF Times, Never, FactIds

-----------------------------------------------------------------------------
(* The least and the greatest of a set of days.                             *)

Below == OpToRel(<, Nat)

LEMMA LeastOf ==
  ASSUME NEW S \in SUBSET Nat, S # {}
  PROVE  \E m \in S : \A x \in S : m <= x
<1>1. IsWellFoundedOn(Below, Nat)
  BY NatLessThanWellFounded DEF Below
<1>2. \E m \in S : \A y \in S : ~(<<y, m>> \in Below)
  BY <1>1, WFMin
<1>3. \A y, m \in S : ~(<<y, m>> \in Below) => m <= y
  BY SMT DEF Below, OpToRel
<1> QED BY <1>2, <1>3

LEMMA GreatestOf ==
  ASSUME NEW n \in Nat, NEW S \in SUBSET (0..n), S # {}
  PROVE  \E m \in S : \A x \in S : x <= m
<1> DEFINE D == {d \in 0..n : \E x \in S : d + x = n}
<1>1. \A x \in S : \E d \in D : d + x = n
  <2> SUFFICES ASSUME NEW x \in S PROVE \E d \in 0..n : d + x = n
    OBVIOUS
  <2>1. n - x \in 0..n /\ (n - x) + x = n
    OBVIOUS
  <2> QED BY <2>1
<1>2. D \in SUBSET Nat /\ D # {}
  <2>1. PICK x \in S : TRUE
    OBVIOUS
  <2>2. \E d \in D : d + x = n
    BY <1>1, <2>1
  <2>3. D \subseteq Nat
    OBVIOUS
  <2> HIDE DEF D
  <2> QED BY <2>2, <2>3
<1>3. PICK d \in D : \A y \in D : d <= y
  <2> HIDE DEF D
  <2> QED BY <1>2, LeastOf
<1>4. PICK m \in S : d + m = n
  OBVIOUS
<1>5. ASSUME NEW x \in S PROVE x <= m
  <2>1. PICK y \in D : y + x = n
    BY <1>1
  <2>2. d <= y
    BY <1>3
  <2> QED BY <1>4, <2>1, <2>2
<1> QED BY <1>5

-----------------------------------------------------------------------------
(* What the timeline needs beside the invariant of the ledger.              *)

\* Fact i says something of the day it begins on: it holds then, or it was ended
\* that very day by a person.
Says(i) == facts[i].from < facts[i].until \/ facts[i].by = 0

\* A day on which a fact of the ledger begins was said something of.
BeginningsAreSaid ==
  \A i \in Ledger : \E j \in Ledger : facts[j].from = facts[i].from /\ Says(j)

\* A restatement is of a fact of the ledger, for a later day than the fact's own and,
\* where nothing superseded the fact, not for one after its end.
RepeatsAreInside ==
  \A a \in affirmations :
    /\ a.fact \in Ledger /\ facts[a.fact].from < a.from
    /\ facts[a.fact].by = 0 => a.from <= facts[a.fact].until

\* Every fact has an object.
FactsAreNamed == \A i \in Stored : facts[i].object \in Objects

SlotInv ==
  /\ FactsAreNamed
  /\ ~frayed => BeginningsAreSaid /\ RepeatsAreInside

\* The fields of the facts of the ledger are numbers.
LEMMA Fields ==
  ASSUME Inv
  PROVE  /\ Ledger \subseteq FactIds
         /\ \A i \in Ledger : /\ facts[i].from \in Times /\ facts[i].from \in Nat
                              /\ facts[i].until \in Times \cup {Never}
                              /\ facts[i].until \in Nat /\ facts[i].by \in Nat
                              /\ facts[i].from <= facts[i].until /\ facts[i].until <= Never
         /\ \A a \in affirmations : a.from \in Times /\ a.from \in Nat
<1>1. LedgerAssumption
  BY LedgerAssumption
<1>2. Ledger \subseteq FactIds /\ facts \in [FactIds -> FactType]
  <2>1. used \in 0..MaxFacts /\ facts \in [FactIds -> FactType]
    BY DEF Inv, TypeOK
  <2> QED BY <1>1, <2>1 DEF Ledger, Stored, LedgerAssumption
<1>3. ASSUME NEW i \in Ledger
      PROVE  /\ facts[i].from \in Times /\ facts[i].until \in Times \cup {Never}
             /\ facts[i].by \in 0..MaxFacts /\ facts[i].from <= facts[i].until
  <2>1. facts[i] \in FactType
    BY <1>2
  <2> QED BY <2>1 DEF FactType, Inv, WellFormed
<1>4. \A a \in affirmations : a.from \in Times
  BY DEF Inv, TypeOK
<1>5. \A x \in Times \cup {Never} : x \in Nat /\ x <= Never
  BY <1>1 DEF LedgerAssumption
<1>6. \A i \in Ledger : facts[i].by \in Nat
  BY <1>3
<1>7. Times \subseteq Nat
  OBVIOUS
<1> HIDE DEF Times, Never
<1> QED BY <1>2, <1>3, <1>4, <1>5, <1>6, <1>7

-----------------------------------------------------------------------------
(* Every step keeps it.                                                     *)

\* Placing a fact that the next one bounds.
LEMMA BoundedSlot ==
  ASSUME Inv, SlotInv, NEW n \in FactIds, NEW f \in FactType, f.object \in Objects,
         n \notin Ledger, NEW by, EnteredBounded(f, n, by), Stored' \subseteq Stored \cup {n},
         UNCHANGED <<affirmations, frayed>>
  PROVE  SlotInv'
<1> DEFINE t == f.from
<1>1. /\ Ledger' = Ledger \cup {n} /\ facts'[n].from = t /\ t < facts'[n].until
      /\ facts'[n].object = f.object /\ t \in Times
      /\ \A i \in Covering(t) :
           /\ facts'[i].object = facts[i].object /\ facts'[i].from = facts[i].from
           /\ facts'[i].until = t /\ facts'[i].by = n
      /\ \A i \in FactIds : i # n /\ i \notin Covering(t) => facts'[i] = facts[i]
  BY DEF EnteredBounded, FactType
<1>2. \A i \in Ledger : i \in FactIds /\ i # n /\ facts'[i].from = facts[i].from
  BY <1>1, Fields
<1>3. \A i \in Ledger : i \in Covering(t) => facts[i].from <= t
  BY DEF Covering, Covers
<1>4. FactsAreNamed'
  <2>1. Stored \subseteq FactIds
    BY LedgerAssumption DEF Inv, TypeOK, Stored, LedgerAssumption
  <2> QED BY <1>1, <2>1 DEF SlotInv, FactsAreNamed
<1> HIDE DEF t
<1>5. ASSUME ~frayed PROVE BeginningsAreSaid'
  <2> SUFFICES ASSUME NEW i \in Ledger'
               PROVE  \E j \in Ledger' : facts'[j].from = facts'[i].from /\ Says(j)'
    BY DEF BeginningsAreSaid
  <2>1. CASE facts'[i].from = t
    BY <1>1, <2>1 DEF Says
  <2>2. CASE facts'[i].from # t
    <3>1. i \in Ledger
      BY <1>1, <2>2
    <3>2. PICK j \in Ledger : facts[j].from = facts[i].from /\ Says(j)
      BY <1>5, <3>1 DEF SlotInv, BeginningsAreSaid
    <3>3. facts'[j].from = facts'[i].from
      BY <1>2, <3>1, <3>2
    <3>4. CASE j \in Covering(t)
      <4>1. facts'[j].from < facts'[j].until
        BY <1>1, <1>2, <1>3, <2>2, <3>2, <3>3, <3>4, Fields
      <4> QED BY <1>1, <3>3, <4>1 DEF Says
    <3>5. CASE j \notin Covering(t)
      <4>1. facts'[j] = facts[j]
        BY <1>1, <1>2, <3>5
      <4> QED BY <1>1, <3>2, <3>3, <4>1 DEF Says
    <3> QED BY <3>4, <3>5
  <2> QED BY <2>1, <2>2
<1>6. ASSUME ~frayed PROVE RepeatsAreInside'
  <2> SUFFICES ASSUME NEW a \in affirmations
               PROVE  /\ a.fact \in Ledger' /\ facts'[a.fact].from < a.from
                      /\ facts'[a.fact].by = 0 => a.from <= facts'[a.fact].until
    BY DEF RepeatsAreInside
  <2>1. /\ a.fact \in Ledger /\ facts[a.fact].from < a.from
        /\ facts[a.fact].by = 0 => a.from <= facts[a.fact].until
    BY <1>6 DEF SlotInv, RepeatsAreInside
  <2>2. a.fact \in Covering(t) => facts'[a.fact].by # 0
    BY <1>1
  <2> QED BY <1>1, <1>2, <2>1, <2>2
<1> QED BY <1>4, <1>5, <1>6 DEF SlotInv

\* A restatement after the first one comes later.
LEMMA LaterThanFirst ==
  ASSUME Inv, NEW i, NEW t, NEW a, IsFirst(a, i, t), NEW b \in Inside(i, t), ~IsFirst(b, i, t)
  PROVE  a.from < b.from
<1>1. PICK c \in Inside(i, t) : ~(b.from <= c.from)
  BY DEF IsFirst
<1>2. a.from <= c.from
  BY DEF IsFirst
<1>3. a.from \in Nat /\ b.from \in Nat /\ c.from \in Nat
  BY Fields DEF Inside, IsFirst
<1> QED BY <1>1, <1>2, <1>3

\* A restatement that moves is inside the fact as which its claim resumes.
LEMMA MovedInside ==
  ASSUME Inv, RepeatsAreInside, NEW i, NEW t, NEW r, NEW a, IsFirst(a, i, t),
         NEW b \in Moved(i, t, r)
  PROVE  \/ b \in affirmations /\ ~(b \in Inside(i, t))
         \/ b.fact = r /\ a.from < b.from /\ b.from < facts[i].until
<1>1. CASE b \in affirmations \ Inside(i, t)
  BY <1>1
<1>2. CASE \E c \in {c \in Inside(i, t) : ~IsFirst(c, i, t)} : b = [c EXCEPT !.fact = r]
  <2>1. PICK c \in Inside(i, t) : ~IsFirst(c, i, t) /\ b = [c EXCEPT !.fact = r]
    BY <1>2
  <2>2. c \in [fact : FactIds, from : Times]
    BY DEF Inside, Inv, TypeOK
  <2>3. b.fact = r /\ b.from = c.from
    BY <2>1, <2>2
  <2>4. a.from < c.from /\ c.from < facts[i].until
    BY <2>1, LaterThanFirst DEF Inside
  <2> QED BY <2>3, <2>4
<1> QED BY <1>1, <1>2 DEF Moved

\* Placing a fact after which the claim it cuts resumes.
LEMMA ResumingSlot ==
  ASSUME Inv, SlotInv, NEW n \in FactIds, NEW r \in FactIds, NEW f \in FactType,
         f.object \in Objects, n \notin Ledger, NEW k, NEW a, EnteredResuming(f, n, r, k, a),
         Stored' \subseteq Stored \cup {n, r}, frayed' = frayed
  PROVE  SlotInv'
<1> DEFINE t == f.from
           s == a.from
<1>1. /\ Ledger' = Ledger \cup {n, r} /\ n # r /\ r \notin Ledger
      /\ k \in Ledger /\ IsFirst(a, k, t) /\ t < s /\ s < facts[k].until
      /\ facts'[n].object = f.object /\ facts'[n].from = t /\ facts'[n].until = s
      /\ facts'[n].by = r
      /\ facts'[r].object = facts[k].object /\ facts'[r].from = s
      /\ facts'[r].until = facts[k].until
      /\ \A i \in Covering(t) :
           /\ facts'[i].object = facts[i].object /\ facts'[i].from = facts[i].from
           /\ facts'[i].until = t /\ facts'[i].by = n
      /\ \A i \in FactIds : i # n /\ i # r /\ i \notin Covering(t) => facts'[i] = facts[i]
      /\ affirmations' = Moved(k, t, r)
  BY DEF EnteredResuming
<1>2. \A i \in Ledger : i \in FactIds /\ i # n /\ i # r /\ facts'[i].from = facts[i].from
  BY <1>1, Fields
<1>3. \A i \in Ledger : i \in Covering(t) => facts[i].from <= t
  BY DEF Covering, Covers
<1>4. FactsAreNamed'
  <2>1. Stored \subseteq FactIds /\ Ledger \subseteq Stored
    BY LedgerAssumption DEF Inv, TypeOK, Ledger, Stored, LedgerAssumption
  <2>2. facts[k].object \in Objects
    BY <1>1, <2>1 DEF SlotInv, FactsAreNamed
  <2> QED BY <1>1, <2>1, <2>2 DEF SlotInv, FactsAreNamed
<1> HIDE DEF t, s
<1>5. ASSUME ~frayed PROVE BeginningsAreSaid'
  <2> SUFFICES ASSUME NEW i \in Ledger'
               PROVE  \E j \in Ledger' : facts'[j].from = facts'[i].from /\ Says(j)'
    BY DEF BeginningsAreSaid
  <2>1. CASE i = n \/ i = r \/ facts'[i].from = t
    BY <1>1, <2>1 DEF Says
  <2>2. CASE i # n /\ i # r /\ facts'[i].from # t
    <3>1. i \in Ledger
      BY <1>1, <2>2
    <3>2. PICK j \in Ledger : facts[j].from = facts[i].from /\ Says(j)
      BY <1>5, <3>1 DEF SlotInv, BeginningsAreSaid
    <3>3. facts'[j].from = facts'[i].from
      BY <1>2, <3>1, <3>2
    <3>4. CASE j \in Covering(t)
      <4>1. facts'[j].from < facts'[j].until
        <5>1. facts[j].from <= t /\ facts[j].from # t
          BY <1>2, <1>3, <2>2, <3>2, <3>3, <3>4
        <5>2. t \in Nat /\ facts[j].from \in Nat
          BY <1>1, <3>2, Fields DEF EnteredResuming, FactType, t
        <5> QED BY <1>1, <1>2, <3>4, <5>1, <5>2
      <4> QED BY <1>1, <3>3, <4>1 DEF Says
    <3>5. CASE j \notin Covering(t)
      <4>1. facts'[j] = facts[j]
        BY <1>1, <1>2, <3>5
      <4> QED BY <1>1, <3>2, <3>3, <4>1 DEF Says
    <3> QED BY <3>4, <3>5
  <2> QED BY <2>1, <2>2
<1>6. ASSUME ~frayed PROVE RepeatsAreInside'
  <2> SUFFICES ASSUME NEW b \in Moved(k, t, r)
               PROVE  /\ b.fact \in Ledger' /\ facts'[b.fact].from < b.from
                      /\ facts'[b.fact].by = 0 => b.from <= facts'[b.fact].until
    BY <1>1 DEF RepeatsAreInside
  <2>1. CASE b \in affirmations /\ ~(b \in Inside(k, t))
    <3>1. /\ b.fact \in Ledger /\ facts[b.fact].from < b.from
          /\ facts[b.fact].by = 0 => b.from <= facts[b.fact].until
      BY <1>6, <2>1 DEF SlotInv, RepeatsAreInside
    <3>2. b.fact \in Covering(t) => facts'[b.fact].by # 0
      BY <1>1
    <3> QED BY <1>1, <1>2, <3>1, <3>2
  <2>2. CASE b.fact = r /\ s < b.from /\ b.from < facts[k].until
    <3>1. b.from \in Nat /\ facts[k].until \in Nat
      <4>1. b \in [fact : FactIds, from : Times]
        BY <1>1, MovedType, Fields DEF Inv, EnteredResuming, FactType, t
      <4> QED BY <1>1, <4>1, Fields
    <3> QED BY <1>1, <2>2, <3>1
  <2> QED BY <1>1, <1>6, <2>1, <2>2, MovedInside DEF SlotInv, s
<1> QED BY <1>4, <1>5, <1>6 DEF SlotInv

\* What closing a fact leaves, where nothing was said for a later day.
ClosedBounded(n, t) ==
  /\ n \in Ledger /\ facts[n].from <= t /\ facts[n].until = Never /\ facts[n].by = 0
  /\ Inside(n, t) = {}
  /\ Ledger' = Ledger /\ Stored' = Stored
  /\ facts'[n].object = facts[n].object /\ facts'[n].from = facts[n].from
  /\ facts'[n].until = t /\ facts'[n].by = 0
  /\ \A i \in FactIds : i # n => facts'[i] = facts[i]
  /\ UNCHANGED <<affirmations, frayed>>

LEMMA CloseBoundedCloses ==
  ASSUME Inv, NEW n \in Stored, NEW t \in Times, CloseBounded(n, t)
  PROVE  ClosedBounded(n, t)
<1>1. /\ n \in FactIds /\ facts[n] \in FactType /\ facts \in [FactIds -> FactType]
      /\ Stored \subseteq FactIds
  BY LedgerAssumption DEF Inv, TypeOK, Stored, LedgerAssumption
<1>2. n \in Ledger /\ facts[n].from <= t /\ facts[n].until = Never /\ facts[n].by = 0
  BY <1>1 DEF CloseBounded, Closable, Inv, TypeOK, Ledger, ActiveIsUnnamed
<1>3. PICK why \in PersonsReasons :
        facts'[n] = Ended(facts[n], t, why) /\ \A i \in FactIds : i # n => facts'[i] = facts[i]
  BY <1>1 DEF CloseBounded
<1>4. /\ facts'[n].object = facts[n].object /\ facts'[n].from = facts[n].from
      /\ facts'[n].until = t /\ facts'[n].by = 0 /\ facts'[n].status = "closed"
  <2>1. /\ Ended(facts[n], t, why).object = facts[n].object
        /\ Ended(facts[n], t, why).from = facts[n].from /\ Ended(facts[n], t, why).until = t
        /\ Ended(facts[n], t, why).by = facts[n].by /\ Ended(facts[n], t, why).status = "closed"
    BY <1>1, EndedFact
  <2> QED BY <1>2, <1>3, <2>1
<1>5. Ledger' = Ledger /\ Stored' = Stored
  <2>1. Stored' = Stored
    BY DEF CloseBounded, Stored
  <2> QED BY <1>1, <1>2, <1>3, <1>4, <2>1 DEF Ledger
<1> QED BY <1>2, <1>3, <1>4, <1>5 DEF ClosedBounded, CloseBounded

LEMMA CloseBoundedSlot ==
  ASSUME Inv, SlotInv, NEW n \in FactIds, NEW t \in Times, ClosedBounded(n, t)
  PROVE  SlotInv'
<1>1. Ledger \subseteq FactIds /\ Stored \subseteq FactIds
  BY LedgerAssumption DEF Inv, TypeOK, Ledger, Stored, LedgerAssumption
<1>2. \A i \in Ledger : facts'[i].from = facts[i].from /\ (i # n => facts'[i] = facts[i])
  BY <1>1 DEF ClosedBounded
<1>3. FactsAreNamed'
  BY <1>1 DEF SlotInv, FactsAreNamed, ClosedBounded
<1>4. ASSUME ~frayed PROVE BeginningsAreSaid'
  <2> SUFFICES ASSUME NEW i \in Ledger
               PROVE  \E j \in Ledger : facts'[j].from = facts'[i].from /\ Says(j)'
    BY DEF BeginningsAreSaid, ClosedBounded
  <2>1. PICK j \in Ledger : facts[j].from = facts[i].from /\ Says(j)
    BY <1>4 DEF SlotInv, BeginningsAreSaid
  <2>2. Says(j)'
    BY <1>2, <2>1 DEF Says, ClosedBounded
  <2> QED BY <1>2, <2>1, <2>2
<1>5. ASSUME ~frayed PROVE RepeatsAreInside'
  <2> SUFFICES ASSUME NEW a \in affirmations
               PROVE  /\ a.fact \in Ledger /\ facts'[a.fact].from < a.from
                      /\ facts'[a.fact].by = 0 => a.from <= facts'[a.fact].until
    BY DEF RepeatsAreInside, ClosedBounded
  <2>1. /\ a.fact \in Ledger /\ facts[a.fact].from < a.from
        /\ facts[a.fact].by = 0 => a.from <= facts[a.fact].until
    BY <1>5 DEF SlotInv, RepeatsAreInside
  <2>2. CASE a.fact = n
    <3>1. ~(t < a.from /\ a.from < Never)
      BY <2>2 DEF ClosedBounded, Inside
    <3>2. a.from \in Times
      BY Fields
    <3> QED BY <1>2, <2>1, <2>2, <3>1, <3>2, LedgerAssumption DEF ClosedBounded, LedgerAssumption
  <2>3. CASE a.fact # n
    BY <1>2, <2>1, <2>3
  <2> QED BY <2>2, <2>3
<1> QED BY <1>3, <1>4, <1>5 DEF SlotInv, ClosedBounded

\* What closing a fact leaves, where its claim goes on from restatement a as fact r.
ClosedResuming(n, t, r, a) ==
  /\ n \in Ledger /\ facts[n].from <= t /\ facts[n].until = Never /\ facts[n].by = 0
  /\ IsFirst(a, n, t) /\ r \in FactIds \ Stored
  /\ Ledger' = Ledger \cup {r} /\ Stored' = Stored \cup {r}
  /\ facts'[n].object = facts[n].object /\ facts'[n].from = facts[n].from
  /\ facts'[n].until = t /\ facts'[n].by = 0
  /\ facts'[r].object = facts[n].object /\ facts'[r].from = a.from
  /\ facts'[r].until = Never /\ facts'[r].by = 0
  /\ \A i \in FactIds : i # n /\ i # r => facts'[i] = facts[i]
  /\ affirmations' = Moved(n, t, r) /\ frayed' = frayed

LEMMA CloseResumingCloses ==
  ASSUME Inv, NEW n \in Stored, NEW t \in Times, CloseResuming(n, t)
  PROVE  \E a \in affirmations : ClosedResuming(n, t, used + 1, a)
<1> DEFINE r == used + 1
<1>1. /\ n \in FactIds /\ facts[n] \in FactType /\ facts \in [FactIds -> FactType]
      /\ Stored \subseteq FactIds /\ used \in Nat
  BY LedgerAssumption DEF Inv, TypeOK, Stored, LedgerAssumption
<1>2. PICK a \in affirmations, why \in PersonsReasons :
        /\ IsFirst(a, n, t)
        /\ facts' = [facts EXCEPT ![n] = Ended(@, t, why), ![r] = Resumed(facts[n], a.from)]
        /\ affirmations' = Moved(n, t, r)
  BY DEF CloseResuming
<1>3. n \in Ledger /\ facts[n].from <= t /\ facts[n].until = Never /\ facts[n].by = 0
  <2>1. facts[n].from <= t /\ facts[n].status = "active" /\ n \in Ledger
    BY DEF CloseResuming, Closable, Ledger
  <2> QED BY <2>1 DEF Inv, TypeOK, ActiveIsUnnamed
<1>4. r \in FactIds \ Stored /\ n # r /\ used' = r /\ frayed' = frayed
  BY <1>1 DEF CloseResuming, Stored
<1>5. /\ facts'[n] = Ended(facts[n], t, why) /\ facts'[r] = Resumed(facts[n], a.from)
      /\ \A i \in FactIds : i # n /\ i # r => facts'[i] = facts[i]
  BY <1>1, <1>2, <1>4
<1>6. a.from \in Times
  BY <1>2, FirstInside DEF Inv
<1>7. /\ facts'[n].object = facts[n].object /\ facts'[n].from = facts[n].from
      /\ facts'[n].until = t /\ facts'[n].by = 0 /\ facts'[n].status = "closed"
  <2>1. /\ Ended(facts[n], t, why).object = facts[n].object
        /\ Ended(facts[n], t, why).from = facts[n].from /\ Ended(facts[n], t, why).until = t
        /\ Ended(facts[n], t, why).by = facts[n].by /\ Ended(facts[n], t, why).status = "closed"
    BY <1>1, EndedFact
  <2> QED BY <1>3, <1>5, <2>1
<1>8. /\ facts'[r].object = facts[n].object /\ facts'[r].from = a.from
      /\ facts'[r].until = Never /\ facts'[r].by = 0
      /\ facts'[r].status = facts[n].status
  <2>1. /\ Resumed(facts[n], a.from).object = facts[n].object
        /\ Resumed(facts[n], a.from).from = a.from
        /\ Resumed(facts[n], a.from).until = facts[n].until
        /\ Resumed(facts[n], a.from).by = facts[n].by
        /\ Resumed(facts[n], a.from).status = facts[n].status
    BY <1>1, <1>6, ResumedFact
  <2> QED BY <1>3, <1>5, <2>1
<1> HIDE DEF r
<1>9. Ledger' = Ledger \cup {r} /\ Stored' = Stored \cup {r}
  <2>1. Stored' = Stored \cup {r}
    BY <1>1, <1>4 DEF Stored, r
  <2>2. \A i \in Stored : i # n => facts'[i] = facts[i]
    BY <1>1, <1>4, <1>5
  <2>3. /\ facts'[n].status \in {"active", "closed"} /\ facts'[r].status \in {"active", "closed"}
        /\ n \in Stored
    BY <1>3, <1>7, <1>8 DEF Ledger
  <2> QED BY <1>3, <2>1, <2>2, <2>3 DEF Ledger
<1>10. ClosedResuming(n, t, r, a)
  BY <1>2, <1>3, <1>4, <1>5, <1>7, <1>8, <1>9 DEF ClosedResuming
<1> QED BY <1>10 DEF r

LEMMA CloseResumingSlot ==
  ASSUME Inv, SlotInv, NEW n \in FactIds, NEW t \in Times, NEW r, NEW a \in affirmations,
         ClosedResuming(n, t, r, a)
  PROVE  SlotInv'
<1>1. Ledger \subseteq Stored /\ Stored \subseteq FactIds /\ n # r
  BY LedgerAssumption DEF Inv, TypeOK, Ledger, Stored, LedgerAssumption, ClosedResuming
<1>2. \A i \in Ledger : /\ i # r /\ facts'[i].from = facts[i].from
                        /\ i # n => facts'[i] = facts[i]
  BY <1>1 DEF ClosedResuming
<1>3. FactsAreNamed'
  BY <1>1 DEF SlotInv, FactsAreNamed, ClosedResuming
<1>4. t < a.from /\ a.from < Never /\ a.from \in Nat
  BY Fields, LedgerAssumption DEF ClosedResuming, IsFirst, Inside, LedgerAssumption
<1>5. ASSUME ~frayed PROVE BeginningsAreSaid'
  <2> SUFFICES ASSUME NEW i \in Ledger'
               PROVE  \E j \in Ledger' : facts'[j].from = facts'[i].from /\ Says(j)'
    BY DEF BeginningsAreSaid
  <2>1. CASE i = r
    BY <1>4, <2>1 DEF Says, ClosedResuming
  <2>2. CASE i \in Ledger
    <3>1. PICK j \in Ledger : facts[j].from = facts[i].from /\ Says(j)
      BY <1>5, <2>2 DEF SlotInv, BeginningsAreSaid
    <3>2. Says(j)'
      BY <1>2, <3>1 DEF Says, ClosedResuming
    <3>3. j \in Ledger' /\ facts'[j].from = facts'[i].from
      BY <1>2, <2>2, <3>1 DEF ClosedResuming
    <3> QED BY <3>2, <3>3
  <2> QED BY <2>1, <2>2 DEF ClosedResuming
<1>6. ASSUME ~frayed PROVE RepeatsAreInside'
  <2> SUFFICES ASSUME NEW b \in Moved(n, t, r)
               PROVE  /\ b.fact \in Ledger' /\ facts'[b.fact].from < b.from
                      /\ facts'[b.fact].by = 0 => b.from <= facts'[b.fact].until
    BY DEF RepeatsAreInside, ClosedResuming
  <2>1. CASE b \in affirmations /\ ~(b \in Inside(n, t))
    <3>1. /\ b.fact \in Ledger /\ facts[b.fact].from < b.from
          /\ facts[b.fact].by = 0 => b.from <= facts[b.fact].until
      BY <1>6, <2>1 DEF SlotInv, RepeatsAreInside
    <3>2. CASE b.fact = n
      <4>1. ~(t < b.from /\ b.from < Never)
        BY <2>1, <3>2 DEF ClosedResuming, Inside
      <4>2. b.from \in Times
        BY <2>1, Fields
      <4>3. b.from <= t
        BY <4>1, <4>2, LedgerAssumption DEF LedgerAssumption
      <4> QED BY <1>2, <3>1, <3>2, <4>3 DEF ClosedResuming
    <3>3. CASE b.fact # n
      BY <1>2, <3>1, <3>3 DEF ClosedResuming
    <3> QED BY <3>2, <3>3
  <2>2. CASE b.fact = r /\ a.from < b.from /\ b.from < facts[n].until
    <3>1. b \in [fact : FactIds, from : Times]
      BY MovedType DEF Inv, ClosedResuming
    <3> QED BY <1>4, <2>2, <3>1, LedgerAssumption DEF ClosedResuming, LedgerAssumption
  <2> QED BY <1>6, <2>1, <2>2, MovedInside DEF SlotInv, ClosedResuming
<1> QED BY <1>3, <1>5, <1>6 DEF SlotInv, ClosedResuming

\* What opening a fact again leaves.
Reopened(n) ==
  /\ n \in Ledger /\ facts[n].by = 0 /\ facts[n].until # Never
  /\ Ledger' = Ledger /\ Stored' = Stored /\ affirmations' = affirmations
  /\ facts'[n].object = facts[n].object /\ facts'[n].from = facts[n].from
  /\ facts'[n].until = Never /\ facts'[n].by = 0
  /\ \A i \in FactIds : i # n => facts'[i] = facts[i]
  /\ frayed' = (frayed \/ \E i \in Ledger \ {n} : facts[i].from >= facts[n].until)

LEMMA ReopenReopens ==
  ASSUME Inv, NEW n \in Stored, Reopen(n)
  PROVE  Reopened(n)
<1>1. /\ n \in FactIds /\ facts[n] \in FactType /\ facts \in [FactIds -> FactType]
      /\ Stored \subseteq FactIds
  BY LedgerAssumption DEF Inv, TypeOK, Stored, LedgerAssumption
<1>2. n \in Ledger /\ facts[n].by = 0 /\ facts[n].until # Never
  BY DEF Reopen, Ledger, Inv, TypeOK
<1> DEFINE g == [facts[n] EXCEPT !.status = "active", !.until = Never, !.reason = "none"]
<1>3. /\ g.object = facts[n].object /\ g.from = facts[n].from /\ g.until = Never
      /\ g.by = facts[n].by /\ g.status = "active"
  BY <1>1 DEF FactType
<1>4. facts' = [facts EXCEPT ![n] = g]
  BY <1>1 DEF Reopen
<1> HIDE DEF g
<1>5. facts'[n] = g /\ \A i \in FactIds : i # n => facts'[i] = facts[i]
  BY <1>1, <1>4
<1>6. Ledger' = Ledger /\ Stored' = Stored
  <2>1. Stored' = Stored
    BY DEF Reopen, Stored
  <2> QED BY <1>1, <1>2, <1>3, <1>5, <2>1 DEF Ledger
<1> QED BY <1>2, <1>3, <1>5, <1>6 DEF Reopened, Reopen

LEMMA ReopenSlot ==
  ASSUME Inv, SlotInv, NEW n \in FactIds, Reopened(n)
  PROVE  SlotInv'
<1>1. Ledger \subseteq FactIds /\ Stored \subseteq FactIds
  BY LedgerAssumption DEF Inv, TypeOK, Ledger, Stored, LedgerAssumption
<1>2. \A i \in Ledger : facts'[i].from = facts[i].from /\ (i # n => facts'[i] = facts[i])
  BY <1>1 DEF Reopened
<1>3. FactsAreNamed'
  BY <1>1 DEF SlotInv, FactsAreNamed, Reopened
<1>4. ~frayed' => ~frayed
  BY DEF Reopened
<1>5. ASSUME ~frayed PROVE BeginningsAreSaid'
  <2> SUFFICES ASSUME NEW i \in Ledger
               PROVE  \E j \in Ledger : facts'[j].from = facts'[i].from /\ Says(j)'
    BY DEF BeginningsAreSaid, Reopened
  <2>1. PICK j \in Ledger : facts[j].from = facts[i].from /\ Says(j)
    BY <1>5 DEF SlotInv, BeginningsAreSaid
  <2>2. Says(j)'
    BY <1>2, <2>1 DEF Says, Reopened
  <2> QED BY <1>2, <2>1, <2>2
<1>6. ASSUME ~frayed PROVE RepeatsAreInside'
  <2> SUFFICES ASSUME NEW a \in affirmations
               PROVE  /\ a.fact \in Ledger /\ facts'[a.fact].from < a.from
                      /\ facts'[a.fact].by = 0 => a.from <= facts'[a.fact].until
    BY DEF RepeatsAreInside, Reopened
  <2>1. /\ a.fact \in Ledger /\ facts[a.fact].from < a.from
        /\ facts[a.fact].by = 0 => a.from <= facts[a.fact].until
    BY <1>6 DEF SlotInv, RepeatsAreInside
  <2>2. a.from \in Nat /\ a.from <= Never
    BY Fields, LedgerAssumption DEF LedgerAssumption
  <2> QED BY <1>2, <2>1, <2>2 DEF Reopened
<1> QED BY <1>3, <1>4, <1>5, <1>6 DEF SlotInv

\* Keeping a day beside the fact that holds on it.
LEMMA AffirmedSlot ==
  ASSUME Inv, SlotInv, NEW o, NEW t \in Times,
         NEW i \in Restated(o, t), Affirmed(i, t),
         Ledger' = Ledger, Stored' = Stored, frayed' = frayed,
         \A j \in Stored : facts'[j].object = facts[j].object,
         \A j \in Ledger : facts'[j] = facts[j]
  PROVE  SlotInv'
<1>1. i \in Ledger /\ facts[i].from <= t /\ t < facts[i].until
  BY DEF Restated, Lowest, Covering, Covers
<1>2. FactsAreNamed'
  BY DEF SlotInv, FactsAreNamed
<1>3. ~frayed => BeginningsAreSaid'
  BY DEF SlotInv, BeginningsAreSaid, Says
<1>4. ASSUME ~frayed PROVE RepeatsAreInside'
  <2>1. \A a \in affirmations : /\ a.fact \in Ledger /\ facts[a.fact].from < a.from
                                /\ facts[a.fact].by = 0 => a.from <= facts[a.fact].until
    BY <1>4 DEF SlotInv, RepeatsAreInside
  <2>2. \A a \in affirmations' : \/ a \in affirmations
                                 \/ a.fact = i /\ a.from = t /\ facts[i].from < t
    <3>1. facts[i].from \in Nat /\ t \in Nat
      BY <1>1, Fields
    <3> QED BY <3>1 DEF Affirmed
  <2>3. t <= facts[i].until
    BY <1>1, Fields
  <2> QED BY <1>1, <2>1, <2>2, <2>3 DEF RepeatsAreInside
<1> QED BY <1>2, <1>3, <1>4 DEF SlotInv

\* Steps that touch neither the ledger nor a restatement.
LEMMA SilentSlot ==
  ASSUME SlotInv, Ledger' = Ledger, UNCHANGED <<affirmations, frayed>>,
         \A j \in Stored' : facts'[j].object \in Objects,
         \A j \in Ledger : facts'[j] = facts[j]
  PROVE  SlotInv'
BY DEF SlotInv, FactsAreNamed, BeginningsAreSaid, RepeatsAreInside, Says

\* A verdict on a fact outside the ledger changes no fact's object, and no fact of
\* the ledger.
LEMMA VerdictLeaves ==
  ASSUME Inv, NEW n \in Stored, facts[n].status \in {"proposed", "declined"},
         NEW status \in {"proposed", "declined"}, NEW reason,
         facts' = [facts EXCEPT ![n].status = status, ![n].reason = reason], used' = used
  PROVE  /\ Ledger' = Ledger /\ Stored' = Stored
         /\ \A j \in Stored : facts'[j].object = facts[j].object
         /\ \A j \in Ledger : facts'[j] = facts[j]
<1>1. /\ facts \in [FactIds -> FactType] /\ Stored \subseteq FactIds /\ n \notin Ledger
      /\ Stored' = Stored /\ Ledger \subseteq Stored
  BY LedgerAssumption DEF Inv, TypeOK, Ledger, Stored, LedgerAssumption
<1> DEFINE g == [facts[n] EXCEPT !.status = status, !.reason = reason]
<1>2. facts' = [facts EXCEPT ![n] = g] /\ g.object = facts[n].object /\ g.status = status
  BY <1>1 DEF FactType
<1> HIDE DEF g
<1>3. facts'[n] = g /\ \A j \in FactIds : j # n => facts'[j] = facts[j]
  BY <1>1, <1>2
<1>4. \A j \in Ledger : facts'[j] = facts[j]
  BY <1>1, <1>3
<1>5. \A j \in Stored : facts'[j].object = facts[j].object
  BY <1>1, <1>2, <1>3
<1>6. Ledger' = Ledger
  <2>1. \A j \in Stored : facts'[j].status \in {"active", "closed"} <=> j \in Ledger
    BY <1>1, <1>2, <1>3 DEF Ledger
  <2> QED BY <1>1, <2>1 DEF Ledger
<1> QED BY <1>1, <1>4, <1>5, <1>6

\* What a step does to the ledger, whichever call it is a step of.
Affirms(o, t) ==
  /\ \E i \in Restated(o, t) : Affirmed(i, t)
  /\ Ledger' = Ledger /\ Stored' = Stored /\ frayed' = frayed
  /\ \A j \in Stored : facts'[j].object = facts[j].object
  /\ \A j \in Ledger : facts'[j] = facts[j]

PlacesBounded(f, n, by) ==
  /\ f.object \in Objects /\ n \notin Ledger
  /\ Restated(f.object, f.from) = {} /\ Resuming(f.from) = {}
  /\ EnteredBounded(f, n, by)
  /\ Stored' \subseteq Stored \cup {n} /\ UNCHANGED <<affirmations, frayed>>

PlacesResuming(f, n, r, k, a) ==
  /\ f.object \in Objects /\ n \notin Ledger
  /\ Restated(f.object, f.from) = {}
  /\ EnteredResuming(f, n, r, k, a)
  /\ Stored' \subseteq Stored \cup {n, r} /\ frayed' = frayed

LeavesLedger ==
  /\ Ledger' = Ledger /\ UNCHANGED <<affirmations, frayed>>
  /\ \A j \in Stored' : facts'[j].object \in Objects
  /\ \A j \in Ledger : facts'[j] = facts[j]

Moves ==
  \/ \E o \in Objects, t \in Times : Affirms(o, t)
  \/ \E f \in FactType, n \in FactIds, by \in 0..MaxFacts : PlacesBounded(f, n, by)
  \/ \E f \in FactType, n \in FactIds, r \in FactIds, k \in Ledger, a \in affirmations :
       PlacesResuming(f, n, r, k, a)
  \/ \E n \in FactIds, t \in Times : ClosedBounded(n, t)
  \/ \E n \in FactIds, t \in Times, r \in FactIds, a \in affirmations : ClosedResuming(n, t, r, a)
  \/ \E n \in FactIds : Reopened(n)
  \/ LeavesLedger

LEMMA AssertMoves ==
  ASSUME LedgerAssumption, Inv, SlotInv, NEW o \in Objects, NEW t \in Times, AssertFact(o, t)
  PROVE  Moves
<1>1. /\ used \in 0..MaxFacts /\ facts \in [FactIds -> FactType] /\ Stored \subseteq FactIds
      /\ used + 1 \notin Ledger /\ used + 2 \notin Ledger
  BY DEF Inv, TypeOK, Ledger, Stored, LedgerAssumption
<1>2. ASSUME Restate(o, t)
      PROVE  Moves
  <2>1. Affirms(o, t)
    BY <1>2 DEF Restate, Affirms, Ledger, Stored
  <2> QED BY <2>1 DEF Moves
<1>3. CASE AssertBounded(o, t)
  <2> DEFINE f == Fresh(o, t, "active")
             n == used + 1
  <2>1. f \in FactType /\ f.object = o /\ f.from = t
    BY FreshFact
  <2>2. /\ n \in FactIds /\ used' = n /\ Restated(o, t) = {} /\ EnterBounded(f, n)
        /\ frayed' = frayed
    BY <1>1, <1>3 DEF AssertBounded, LedgerAssumption
  <2>3. Grows(n) /\ Stored' \subseteq Stored \cup {n}
    BY <1>1, <2>2 DEF Grows, Stored, LedgerAssumption
  <2> HIDE DEF f
  <2>4. PICK by \in 0..MaxFacts : EnteredBounded(f, n, by)
    BY <1>1, <2>1, <2>2, <2>3, EnterBoundedEnters
  <2>5. Resuming(f.from) = {} /\ affirmations' = affirmations
    BY <2>2 DEF EnterBounded
  <2>6. PlacesBounded(f, n, by)
    BY <1>1, <2>1, <2>2, <2>3, <2>4, <2>5 DEF PlacesBounded
  <2> QED BY <2>1, <2>2, <2>6 DEF Moves
<1>4. CASE AssertResuming(o, t)
  <2> DEFINE f == Fresh(o, t, "active")
             r == used + 1
             n == used + 2
  <2>1. f \in FactType /\ f.object = o /\ f.from = t
    BY FreshFact
  <2>2. /\ n \in FactIds /\ r \in FactIds /\ used' = n /\ used' <= MaxFacts
        /\ Restated(o, t) = {} /\ EnterResuming(f, n, r) /\ frayed' = frayed
    BY <1>1, <1>4 DEF AssertResuming, LedgerAssumption
  <2>3. Stored' \subseteq Stored \cup {n, r}
    BY <1>1, <2>2 DEF Stored, LedgerAssumption
  <2> HIDE DEF f
  <2>4. PICK k \in Ledger, a \in affirmations : EnteredResuming(f, n, r, k, a)
    BY <1>1, <2>1, <2>2, EnterResumingEnters
  <2>5. PlacesResuming(f, n, r, k, a)
    BY <1>1, <2>1, <2>2, <2>3, <2>4 DEF PlacesResuming
  <2> QED BY <2>1, <2>2, <2>5 DEF Moves
<1>5. CASE Propose(o, t)
  <2> DEFINE f == Fresh(o, t, "proposed")
             n == used + 1
  <2>1. f.object = o /\ f.status = "proposed"
    BY FreshFact
  <2>2. n \in FactIds /\ facts' = [facts EXCEPT ![n] = f] /\ used' = n
    BY <1>1, <1>5 DEF Propose, LedgerAssumption
  <2> HIDE DEF f
  <2>3. facts'[n] = f /\ \A j \in FactIds : j # n => facts'[j] = facts[j]
    BY <1>1, <2>2
  <2>4. Stored' = Stored \cup {n} /\ n \notin Stored
    BY <1>1, <2>2 DEF Stored, LedgerAssumption
  <2>5. \A j \in Stored : facts'[j] = facts[j]
    BY <1>1, <2>3, <2>4
  <2>6. Ledger' = Ledger
    BY <2>1, <2>3, <2>4, <2>5 DEF Ledger
  <2>7. LeavesLedger
    BY <1>5, <2>1, <2>3, <2>4, <2>5, <2>6 DEF LeavesLedger, Propose, SlotInv, FactsAreNamed, Ledger
  <2> QED BY <2>7 DEF Moves
<1> QED BY <1>2, <1>3, <1>4, <1>5 DEF AssertFact

LEMMA ReviewMoves ==
  ASSUME LedgerAssumption, Inv, SlotInv, NEW n \in Stored, Review(n)
  PROVE  Moves
<1>1. /\ used \in 0..MaxFacts /\ facts[n] \in FactType /\ Stored \subseteq FactIds
      /\ n \in FactIds /\ facts[n].object \in Objects
      /\ facts[n].status \in {"proposed", "declined"} => n \notin Ledger
  BY DEF Inv, TypeOK, Ledger, Stored, LedgerAssumption, SlotInv, FactsAreNamed
<1>2. CASE ApproveDuplicate(n)
  <2>1. PICK i \in Restated(facts[n].object, facts[n].from) : Affirmed(i, facts[n].from)
    BY <1>2 DEF ApproveDuplicate
  <2>2. /\ Ledger' = Ledger /\ Stored' = Stored
        /\ \A j \in Stored : facts'[j].object = facts[j].object
        /\ \A j \in Ledger : facts'[j] = facts[j]
    BY <1>2, VerdictLeaves DEF ApproveDuplicate, Proposed
  <2>3. Affirms(facts[n].object, facts[n].from) /\ facts[n].from \in Times
    BY <1>1, <1>2, <2>1, <2>2 DEF Affirms, ApproveDuplicate, FactType
  <2> QED BY <1>1, <2>3 DEF Moves
<1>3. CASE ApproveBounded(n)
  <2>1. /\ used' = used /\ Restated(facts[n].object, facts[n].from) = {}
        /\ EnterBounded(facts[n], n) /\ frayed' = frayed /\ n \notin Ledger
    BY <1>1, <1>3 DEF ApproveBounded, Proposed
  <2>2. Grows(n) /\ Stored' \subseteq Stored \cup {n}
    BY <1>1, <2>1 DEF Grows, Stored, LedgerAssumption
  <2>3. PICK by \in 0..MaxFacts : EnteredBounded(facts[n], n, by)
    BY <1>1, <2>1, <2>2, EnterBoundedEnters
  <2>4. Resuming(facts[n].from) = {} /\ affirmations' = affirmations
    BY <2>1 DEF EnterBounded
  <2>5. PlacesBounded(facts[n], n, by)
    BY <1>1, <2>1, <2>2, <2>3, <2>4 DEF PlacesBounded
  <2> QED BY <1>1, <2>5 DEF Moves
<1>4. CASE ApproveResuming(n)
  <2> DEFINE r == used + 1
  <2>1. /\ r \in FactIds /\ used' = r /\ used' <= MaxFacts
        /\ Restated(facts[n].object, facts[n].from) = {}
        /\ EnterResuming(facts[n], n, r) /\ frayed' = frayed /\ n \notin Ledger
    BY <1>1, <1>4 DEF ApproveResuming, Proposed, LedgerAssumption
  <2>2. Stored' \subseteq Stored \cup {n, r}
    BY <1>1, <2>1 DEF Stored, LedgerAssumption
  <2>3. PICK k \in Ledger, a \in affirmations : EnteredResuming(facts[n], n, r, k, a)
    BY <1>1, <2>1, EnterResumingEnters
  <2>4. PlacesResuming(facts[n], n, r, k, a)
    BY <1>1, <2>1, <2>2, <2>3 DEF PlacesResuming
  <2> QED BY <1>1, <2>1, <2>4 DEF Moves
<1>5. CASE Decline(n) \/ Reconsider(n)
  <2>1. \E status \in {"proposed", "declined"}, reason \in {"none", "person"} :
          /\ facts' = [facts EXCEPT ![n].status = status, ![n].reason = reason]
          /\ used' = used /\ facts[n].status \in {"proposed", "declined"}
          /\ UNCHANGED <<affirmations, frayed>>
    BY <1>5 DEF Decline, Reconsider, Proposed
  <2>2. /\ Ledger' = Ledger /\ Stored' = Stored
        /\ \A j \in Stored : facts'[j].object = facts[j].object
        /\ \A j \in Ledger : facts'[j] = facts[j]
    BY <2>1, VerdictLeaves
  <2>3. LeavesLedger
    BY <2>1, <2>2 DEF LeavesLedger, SlotInv, FactsAreNamed
  <2> QED BY <2>3 DEF Moves
<1>6. CASE Reopen(n)
  BY <1>1, <1>6, ReopenReopens DEF Moves
<1>7. ASSUME NEW t \in Times, CloseBounded(n, t)
      PROVE  Moves
  BY <1>1, <1>7, CloseBoundedCloses DEF Moves
<1>8. ASSUME NEW t \in Times, CloseResuming(n, t)
      PROVE  Moves
  <2>1. PICK a \in affirmations : ClosedResuming(n, t, used + 1, a)
    BY <1>8, CloseResumingCloses
  <2>2. used + 1 \in FactIds
    BY <2>1 DEF ClosedResuming
  <2> QED BY <1>1, <2>1, <2>2 DEF Moves
<1> QED BY <1>2, <1>3, <1>4, <1>5, <1>6, <1>7, <1>8 DEF Review

\* A step is one of them, or is torn.
LEMMA NextMoves ==
  ASSUME LedgerAssumption, Inv, SlotInv, Next
  PROVE  Moves \/ \E n \in Ledger, t \in Times : TornResumption(n, t)
BY AssertMoves, ReviewMoves DEF Next

LEMMA MovesSlot ==
  ASSUME Inv, SlotInv, Moves
  PROVE  SlotInv'
<1>1. ASSUME NEW o \in Objects, NEW t \in Times, Affirms(o, t)
      PROVE  SlotInv'
  BY <1>1, AffirmedSlot DEF Affirms
<1>2. ASSUME NEW f \in FactType, NEW n \in FactIds, NEW by \in 0..MaxFacts,
             PlacesBounded(f, n, by)
      PROVE  SlotInv'
  BY <1>2, BoundedSlot DEF PlacesBounded
<1>3. ASSUME NEW f \in FactType, NEW n \in FactIds, NEW r \in FactIds, NEW k \in Ledger,
             NEW a \in affirmations, PlacesResuming(f, n, r, k, a)
      PROVE  SlotInv'
  BY <1>3, ResumingSlot DEF PlacesResuming
<1>4. ASSUME NEW n \in FactIds, NEW t \in Times, ClosedBounded(n, t)
      PROVE  SlotInv'
  BY <1>4, CloseBoundedSlot
<1>5. ASSUME NEW n \in FactIds, NEW t \in Times, NEW r \in FactIds, NEW a \in affirmations,
             ClosedResuming(n, t, r, a)
      PROVE  SlotInv'
  BY <1>5, CloseResumingSlot
<1>6. ASSUME NEW n \in FactIds, Reopened(n)
      PROVE  SlotInv'
  BY <1>6, ReopenSlot
<1>7. CASE LeavesLedger
  BY <1>7, SilentSlot DEF LeavesLedger
<1> QED BY <1>1, <1>2, <1>3, <1>4, <1>5, <1>6, <1>7 DEF Moves

LEMMA TornSlot ==
  ASSUME LedgerAssumption, Inv, SlotInv, NEW n \in Ledger, NEW t \in Times, TornResumption(n, t)
  PROVE  SlotInv'
<1> DEFINE r == used + 1
<1>1. /\ used \in Nat /\ facts \in [FactIds -> FactType] /\ Stored \subseteq FactIds
      /\ n \in Stored /\ r \in FactIds /\ used' = r /\ frayed'
  BY DEF Inv, TypeOK, Ledger, Stored, LedgerAssumption, TornResumption
<1>2. Stored' = Stored \cup {r} /\ r \notin Stored
  BY <1>1 DEF Stored
<1>3. PICK a \in affirmations :
        IsFirst(a, n, t) /\ facts' = [facts EXCEPT ![r] = Resumed(facts[n], a.from)]
  BY DEF TornResumption
<1>4. facts'[r].object = facts[n].object
  <2>1. facts[n] \in FactType /\ a.from \in Times
    BY <1>1, Fields
  <2>2. facts'[r] = Resumed(facts[n], a.from)
    BY <1>1, <1>3
  <2> QED BY <2>1, <2>2, ResumedFact
<1>5. \A j \in Stored : facts'[j] = facts[j]
  BY <1>1, <1>2, <1>3
<1> QED BY <1>1, <1>2, <1>4, <1>5 DEF SlotInv, FactsAreNamed

LEMMA SlotInvHolds == Spec => []SlotInv
<1>1. LedgerAssumption
  BY LedgerAssumption
<1>2. Init => SlotInv
  BY DEF Init, SlotInv, FactsAreNamed, BeginningsAreSaid, RepeatsAreInside, Ledger, Stored
<1>3. Inv /\ SlotInv /\ [Next]_vars => SlotInv'
  <2> SUFFICES ASSUME Inv, SlotInv, [Next]_vars PROVE SlotInv'
    OBVIOUS
  <2>1. CASE Next
    BY <1>1, <2>1, NextMoves, MovesSlot, TornSlot
  <2>2. CASE UNCHANGED vars
    BY <2>2 DEF vars, SlotInv, FactsAreNamed, BeginningsAreSaid, RepeatsAreInside, Says,
                Ledger, Stored
  <2> QED BY <2>1, <2>2
<1> QED BY <1>2, <1>3, InvHolds, PTL DEF Spec

-----------------------------------------------------------------------------
(* What was said of a day.                                                  *)

Stating(t) == {i \in Covering(t) : States(i, t)}

Over(t) == \E i \in Ledger : facts[i].from = t /\ facts[i].until = t /\ facts[i].by = 0

told == [t \in Times |-> ClaimOn(t)]

\* One fact holds on a day, and it lies between the others.
LEMMA OnlyOne ==
  Inv /\ ~frayed => \A t \in Times : \A i, j \in Covering(t) : i = j
BY OrderedHoldsOnce DEF NothingHeldTwice, HeldOnce

\* What a fact says of a day is what was said of it.
LEMMA ClaimOfFact ==
  Inv /\ ~frayed =>
    \A t \in Times : \A i \in Stating(t) :
      told[t] = [object |-> facts[i].object, end |-> EndOf(i, t)]
<1> SUFFICES ASSUME Inv, ~frayed, NEW t \in Times, NEW i \in Stating(t)
             PROVE  told[t] = [object |-> facts[i].object, end |-> EndOf(i, t)]
  OBVIOUS
<1>1. \A j \in Stating(t) : j = i
  BY OnlyOne DEF Stating
<1>2. (CHOOSE j \in Stating(t) : TRUE) = i
  BY <1>1
<1>3. ClaimOn(t) = [object |-> facts[i].object, end |-> EndOf(i, t)]
  BY <1>2 DEF ClaimOn, Stating
<1> QED BY <1>3 DEF told

LEMMA ClaimOfNone ==
  \A t \in Times : Stating(t) = {} =>
    told[t] = IF Over(t) THEN [object |-> NoObject, end |-> t] ELSE NoObject
BY DEF told, ClaimOn, Stating, Over

\* The slot is a timeline.
InOrder == Inv /\ SlotInv /\ ~frayed

Mentioned(t) == Stating(t) # {} \/ Over(t)

\* The days something was said of are those with a claim, and what they say is one.
LEMMA ClaimIsSaid ==
  ASSUME InOrder, NEW t \in Times
  PROVE  /\ told[t] # NoObject <=> Mentioned(t)
         /\ Mentioned(t) => /\ told[t] \in [object : Objects \cup {NoObject}, end : Nat]
                            /\ told[t] = [object |-> told[t].object, end |-> told[t].end]
<1>1. ASSUME NEW i \in Stating(t)
      PROVE  /\ told[t] \in [object : Objects \cup {NoObject}, end : Nat]
             /\ told[t] = [object |-> told[t].object, end |-> told[t].end]
  <2>1. told[t] = [object |-> facts[i].object, end |-> EndOf(i, t)]
    BY <1>1, ClaimOfFact DEF InOrder
  <2>2. i \in Ledger /\ i \in Stored
    BY DEF Stating, Covering, Ledger
  <2>3. facts[i].object \in Objects
    BY <2>2 DEF InOrder, SlotInv, FactsAreNamed
  <2>4. EndOf(i, t) \in Nat
    BY <2>2, Fields, LedgerAssumption DEF InOrder, EndOf, LedgerAssumption
  <2> QED BY <2>1, <2>3, <2>4
<1>2. CASE Stating(t) = {}
  <2>1. t \in Nat
    OBVIOUS
  <2>2. told[t] = IF Over(t) THEN [object |-> NoObject, end |-> t] ELSE NoObject
    BY <1>2, ClaimOfNone
  <2> QED BY <1>2, <2>1, <2>2, LedgerAssumption DEF Mentioned, LedgerAssumption
<1>3. CASE Stating(t) # {}
  BY <1>1, <1>3, LedgerAssumption DEF Mentioned, LedgerAssumption
<1> QED BY <1>2, <1>3

\* Every day a fact begins on was said something of.
LEMMA BeginningMentioned ==
  ASSUME InOrder, NEW i \in Ledger
  PROVE  Mentioned(facts[i].from)
<1>1. PICK j \in Ledger : facts[j].from = facts[i].from /\ Says(j)
  BY DEF InOrder, SlotInv, BeginningsAreSaid
<1>2. facts[j].from \in Nat /\ facts[j].until \in Nat /\ facts[j].from <= facts[j].until
  BY <1>1, Fields DEF InOrder
<1>3. CASE facts[j].from < facts[j].until
  BY <1>1, <1>2, <1>3 DEF Mentioned, Stating, States, Covering, Covers
<1>4. CASE ~(facts[j].from < facts[j].until)
  BY <1>1, <1>2, <1>4 DEF Mentioned, Over, Says
<1> QED BY <1>3, <1>4

\* On a day said something of since the fact began, the fact that holds said it.
LEMMA HolderStates ==
  ASSUME InOrder, NEW s \in Times, NEW i \in Covering(s), Mentioned(s)
  PROVE  Stating(s) = {i}
<1>1. i \in Ledger /\ facts[i].from <= s /\ s < facts[i].until
  BY DEF Covering, Covers
<1>2. \A j \in Covering(s) : j = i
  BY OnlyOne DEF InOrder
<1>3. CASE Stating(s) # {}
  BY <1>2, <1>3 DEF Stating
<1>4. CASE Over(s)
  <2>1. PICK j \in Ledger : facts[j].from = s /\ facts[j].until = s
    BY <1>4 DEF Over
  <2>2. facts[i].from < s => FALSE
    <3>1. i # j /\ facts[i].until \in Nat /\ s \in Nat
      BY <1>1, <2>1, Fields DEF InOrder
    <3>2. facts[i].from < facts[j].from => facts[i].until <= facts[j].from
      BY <1>1, <2>1, <3>1 DEF InOrder, Inv, Ordered, Apart
    <3> QED BY <1>1, <2>1, <3>1, <3>2
  <2>3. facts[i].from = s
    BY <1>1, <2>2, Fields DEF InOrder
  <2> QED BY <1>2, <2>3 DEF Stating, States
<1> QED BY <1>3, <1>4 DEF Mentioned

\* The last day up to t something was said of.
LastMention(t) == {s \in Times : s <= t /\ Mentioned(s)
                                 /\ \A u \in Times : s < u /\ u <= t => ~Mentioned(u)}

LEMMA LatestIsLast ==
  ASSUME InOrder, NEW t \in Times
  PROVE  Timeline!Latest(told, t) = LastMention(t)
BY ClaimIsSaid DEF Timeline!Latest, LastMention

\* While a fact holds, the last day something was said of is one it said.
LEMMA LastWhileHeld ==
  ASSUME InOrder, NEW t \in Times, NEW i \in Covering(t)
  PROVE  \E s \in Times : /\ LastMention(t) = {s} /\ i \in Covering(s)
                          /\ Stating(s) = {i}
<1>1. i \in Ledger /\ facts[i].from <= t /\ t < facts[i].until /\ t \in Nat
  BY DEF Covering, Covers
<1>2. facts[i].from \in Times /\ facts[i].from \in Nat /\ facts[i].until \in Nat
  BY <1>1, Fields DEF InOrder
<1> DEFINE S == {s \in Times : s <= t /\ Mentioned(s)}
<1>3. facts[i].from \in S /\ S \in SUBSET (0..t)
  BY <1>1, <1>2, BeginningMentioned
<1>4. PICK s \in S : \A u \in S : u <= s
  <2> HIDE DEF S
  <2> QED BY <1>1, <1>3, GreatestOf
<1>5. s \in Times /\ s <= t /\ Mentioned(s) /\ facts[i].from <= s
  BY <1>3, <1>4
<1>6. i \in Covering(s)
  BY <1>1, <1>2, <1>5 DEF Covering, Covers
<1>7. LastMention(t) = {s}
  <2>1. s \in LastMention(t)
    BY <1>4, <1>5 DEF LastMention
  <2>2. ASSUME NEW u \in LastMention(t) PROVE u = s
    BY <1>4, <1>5, <2>2 DEF LastMention
  <2> QED BY <2>1, <2>2
<1> QED BY <1>5, <1>6, <1>7, HolderStates

\* What a claim of a day says, and till when.
LEMMA ClaimEnd ==
  ASSUME InOrder, NEW s \in Times, NEW i, Stating(s) = {i}
  PROVE  /\ told[s].object = facts[i].object /\ told[s].end = EndOf(i, s)
         /\ told[s].end = facts[i].until \/ told[s].end = Never
<1>1. told[s] = [object |-> facts[i].object, end |-> EndOf(i, s)]
  <2>1. i \in Stating(s)
    OBVIOUS
  <2> QED BY <2>1, ClaimOfFact DEF InOrder
<1>2. EndOf(i, s) = facts[i].until \/ EndOf(i, s) = Never
  BY DEF EndOf
<1> QED BY <1>1, <1>2

\* While nothing holds, what was said last has ended.
LEMMA LastWhileFree ==
  ASSUME InOrder, NEW t \in Times, Covering(t) = {}, NEW s \in LastMention(t)
  PROVE  told[s].end <= t
<1>1. s \in Times /\ s \in Nat /\ t \in Nat /\ s <= t /\ Mentioned(s)
  BY DEF LastMention
<1>2. CASE Stating(s) = {}
  <2>1. told[s] = [object |-> NoObject, end |-> s]
    BY <1>1, <1>2, ClaimOfNone DEF Mentioned
  <2> QED BY <1>1, <2>1
<1>3. ASSUME NEW i \in Stating(s) PROVE told[s].end <= t
  <2>1. i \in Ledger /\ facts[i].from <= s /\ s < facts[i].until /\ facts[i].until <= t
    <3>1. i \in Ledger /\ facts[i].from <= s /\ s < facts[i].until
      BY DEF Stating, Covering, Covers
    <3>2. facts[i].from \in Nat /\ facts[i].until \in Nat /\ ~(i \in Covering(t))
      BY <3>1, Fields DEF InOrder
    <3> QED BY <1>1, <3>1, <3>2 DEF Covering, Covers
  <2>2. facts[i].from \in Nat /\ facts[i].until \in Nat
    BY <2>1, Fields DEF InOrder
  <2>3. ASSUME NEW u \in Times, s < u, u <= t PROVE ~Mentioned(u)
    BY <2>3 DEF LastMention
  <2>4. facts[i].by = 0
    <3>1. facts[i].by # 0 =>
            facts[i].by \in Ledger /\ facts[facts[i].by].from = facts[i].until
      BY <2>1 DEF InOrder, Inv, SupersededIsTrue
    <3>2. facts[i].by # 0 => Mentioned(facts[i].until) /\ facts[i].until \in Times
      BY <3>1, BeginningMentioned, Fields DEF InOrder
    <3> QED BY <2>1, <2>3, <3>2
  <2>5. Inside(i, s) = {}
    <3> SUFFICES ASSUME NEW a \in Inside(i, s) PROVE FALSE
      OBVIOUS
    <3>1. /\ a \in affirmations /\ a.fact = i /\ s < a.from /\ a.from < facts[i].until
          /\ a.from \in Times /\ a.from \in Nat
      BY Fields DEF Inside, InOrder
    <3>2. i \in Stating(a.from)
      BY <1>1, <2>1, <2>2, <3>1 DEF Stating, Covering, Covers, States
    <3> QED BY <1>1, <2>1, <2>2, <2>3, <3>1, <3>2 DEF Mentioned
  <2>6. told[s].end = facts[i].until
    <3>1. told[s] = [object |-> facts[i].object, end |-> EndOf(i, s)]
      BY <1>1, <1>3, ClaimOfFact DEF InOrder
    <3>2. EndOf(i, s) = facts[i].until
      BY <2>4, <2>5 DEF EndOf
    <3> QED BY <3>1, <3>2
  <2> QED BY <2>1, <2>6
<1> QED BY <1>2, <1>3

\* The last day up to t something was said of holds on t while its fact does.
LEMMA HoldingOfHeld ==
  ASSUME InOrder, NEW t \in Times, NEW i \in Covering(t)
  PROVE  \E s \in Times : /\ Timeline!Holding(told, t) = {s}
                          /\ s <= t /\ i \in Covering(s) /\ Stating(s) = {i}
<1>1. PICK s \in Times : LastMention(t) = {s} /\ i \in Covering(s) /\ Stating(s) = {i}
  BY LastWhileHeld
<1>2. t < facts[i].until /\ t < Never /\ s <= t
  BY <1>1, LedgerAssumption DEF LastMention, Covering, Covers, LedgerAssumption
<1>3. t < told[s].end
  BY <1>1, <1>2, ClaimEnd
<1>4. Timeline!Holding(told, t) = {s}
  BY <1>1, <1>3, LatestIsLast DEF Timeline!Holding
<1> QED BY <1>1, <1>2, <1>4

LEMMA HoldingOfFree ==
  ASSUME InOrder, NEW t \in Times, Covering(t) = {}
  PROVE  Timeline!Holding(told, t) = {}
<1>1. \A s \in LastMention(t) : told[s].end \in Nat /\ told[s].end <= t
  BY LastWhileFree, ClaimIsSaid DEF LastMention
<1> QED BY <1>1, LatestIsLast DEF Timeline!Holding

\* What the ledger answers for a day is what was last said about it, in whatever
\* order the facts of the slot were told, approved, restated and closed.
THEOREM AnswersTold == Spec => []AnswersAreTold
<1>1. Inv /\ SlotInv => AnswersAreTold
  <2> SUFFICES ASSUME InOrder, NEW t \in Times
               PROVE  {facts[i].object : i \in Covering(t)} = Timeline!ValueOn(told, t)
    BY DEF AnswersAreTold, InOrder, told
  <2>1. CASE Covering(t) = {}
    BY <2>1, HoldingOfFree DEF Timeline!ValueOn
  <2>2. ASSUME NEW i \in Covering(t)
        PROVE  {facts[j].object : j \in Covering(t)} = Timeline!ValueOn(told, t)
    <3>1. PICK s \in Times : Timeline!Holding(told, t) = {s} /\ Stating(s) = {i}
      BY HoldingOfHeld
    <3>2. Covering(t) = {i}
      BY OnlyOne DEF InOrder
    <3>3. told[s].object = facts[i].object
      BY <3>1, ClaimEnd
    <3> QED BY <3>1, <3>2, <3>3 DEF Timeline!ValueOn
  <2> QED BY <2>1, <2>2
<1> QED BY <1>1, InvHolds, SlotInvHolds, PTL

-----------------------------------------------------------------------------
(* The steps of the ledger are steps of the timeline.                       *)

\* What was said of a day, before a step and after it.
LEMMA ClaimsNow ==
  InOrder => \A u \in Times :
    /\ \A i \in Stating(u) : told[u] = [object |-> facts[i].object, end |-> EndOf(i, u)]
    /\ Stating(u) = {} => told[u] = IF Over(u) THEN [object |-> NoObject, end |-> u]
                                               ELSE NoObject
BY ClaimOfFact, ClaimOfNone DEF InOrder

LEMMA ClaimsThen ==
  (InOrder => \A u \in Times :
    /\ \A i \in Stating(u) : told[u] = [object |-> facts[i].object, end |-> EndOf(i, u)]
    /\ Stating(u) = {} => told[u] = IF Over(u) THEN [object |-> NoObject, end |-> u]
                                               ELSE NoObject)'
BY ClaimsNow, PTL

\* A day whose fact, and what ends it, stay as they are.
LEMMA SameDay ==
  ASSUME InOrder, InOrder', NEW u \in Times, Stating(u)' = Stating(u), Over(u)' <=> Over(u),
         \A i \in Stating(u) : facts'[i].object = facts[i].object /\ EndOf(i, u)' = EndOf(i, u)
  PROVE  told'[u] = told[u]
<1>1. CASE Stating(u) = {}
  BY <1>1, ClaimsNow, ClaimsThen
<1>2. ASSUME NEW i \in Stating(u) PROVE told'[u] = told[u]
  <2>1. told[u] = [object |-> facts[i].object, end |-> EndOf(i, u)]
    BY ClaimsNow
  <2>2. told'[u] = [object |-> facts'[i].object, end |-> EndOf(i, u)']
    BY ClaimsThen
  <2> QED BY <2>1, <2>2
<1> QED BY <1>1, <1>2

\* A fact that says something of a later day too is given no end before it.
LEMMA SaidAgain ==
  ASSUME InOrder, NEW u \in Times, NEW s \in Times, u < s, NEW i \in Stating(u), i \in Stating(s)
  PROVE  /\ \E a \in Inside(i, u) : a.from = s
         /\ EndOf(i, u) = Never
<1>1. /\ i \in Ledger /\ facts[i].from <= u /\ s < facts[i].until /\ facts[i].from # s
      /\ States(i, s)
  <2>1. i \in Ledger /\ facts[i].from <= u /\ s < facts[i].until /\ States(i, s)
    BY DEF Stating, Covering, Covers
  <2>2. facts[i].from \in Nat
    BY <2>1, Fields DEF InOrder
  <2> QED BY <2>1, <2>2
<1>2. PICK a \in affirmations : a.fact = i /\ a.from = s
  BY <1>1 DEF States
<1>3. a \in Inside(i, u)
  BY <1>1, <1>2 DEF Inside
<1> QED BY <1>2, <1>3 DEF EndOf

\* Between the last day something was said of and t, the fact that holds was not restated.
LEMMA NoneBetween ==
  ASSUME InOrder, NEW t \in Times, NEW i \in Covering(t), NEW s \in LastMention(t),
         NEW a \in affirmations, a.fact = i, s < a.from
  PROVE  t < a.from
<1>1. /\ i \in Ledger /\ facts[i].from <= t /\ t < facts[i].until
      /\ facts[i].from \in Nat /\ facts[i].until \in Nat /\ a.from \in Times
      /\ facts[i].from < a.from
  BY Fields DEF Covering, Covers, InOrder, SlotInv, RepeatsAreInside
<1>2. CASE a.from <= t
  <2>1. i \in Stating(a.from)
    BY <1>1, <1>2 DEF Stating, Covering, Covers, States
  <2> QED BY <1>1, <1>2, <2>1 DEF LastMention, Mentioned
<1> QED BY <1>1, <1>2

\* What of the fact that holds says something of a day before the last one is endless.
LEMMA EndlessBefore ==
  ASSUME InOrder, NEW t \in Times, NEW i \in Covering(t), NEW s \in LastMention(t),
         Stating(s) = {i}, NEW u \in Times, i \in Stating(u), u <= t, u # s
  PROVE  u < s /\ EndOf(i, u) = Never
<1>1. Mentioned(u) /\ s \in Times
  BY DEF Mentioned, LastMention
<1>2. u < s
  BY <1>1 DEF LastMention
<1>3. i \in Stating(s)
  OBVIOUS
<1> QED BY <1>1, <1>2, <1>3, SaidAgain

\* Telling what does not hold yet ends what does.
LEMMA TellsAnother ==
  ASSUME InOrder, InOrder', NEW o \in Objects, NEW t \in Times,
         \A i \in Covering(t) : facts[i].object # o,
         told'[t] = [object |-> o, end |-> Never],
         \A u \in Times \ {t} :
           told'[u] = IF u \in Timeline!Holding(told, t)
                        THEN [object |-> told[u].object, end |-> Never] ELSE told[u]
  PROVE  Timeline!Follows(told, told')
<1>1. \A s \in Timeline!Holding(told, t) : told[s].object # o
  <2> SUFFICES ASSUME NEW s \in Timeline!Holding(told, t) PROVE told[s].object # o
    OBVIOUS
  <2>1. Covering(t) # {}
    BY HoldingOfFree
  <2>2. PICK i \in Covering(t) : TRUE
    BY <2>1
  <2>3. PICK v \in Times : Timeline!Holding(told, t) = {v} /\ Stating(v) = {i}
    BY HoldingOfHeld
  <2> QED BY <2>3, ClaimEnd
<1>2. told' = [u \in Times |-> told'[u]]
  BY DEF told
<1>3. Timeline!Tell(told, o, t) =
        [u \in Times |-> IF u = t THEN [object |-> o, end |-> Never]
                         ELSE IF u \in Timeline!Holding(told, t)
                           THEN [object |-> told[u].object, end |-> Never] ELSE told[u]]
  BY <1>1 DEF Timeline!Tell, Timeline!Said
<1>4. told' = Timeline!Tell(told, o, t)
  BY <1>2, <1>3
<1>5. told'[t] # NoObject /\ told'[t].object = o
  <2>1. o \in Objects /\ Never \in Nat
    BY LedgerAssumption DEF LedgerAssumption
  <2>2. [object |-> o, end |-> Never] \in [object : Objects \cup {NoObject}, end : Nat]
    BY <2>1
  <2> QED BY <2>2, LedgerAssumption DEF LedgerAssumption
<1> QED BY <1>4, <1>5 DEF Timeline!Follows

\* A set of facts that has no first is empty.
LEMMA NoLowest ==
  ASSUME Inv, NEW S \in SUBSET Ledger, Lowest(S) = {}
  PROVE  S = {}
<1>1. S \in SUBSET Nat
  BY Fields
<1>2. S # {} => \E m \in S : \A x \in S : m <= x
  BY <1>1, LeastOf
<1> QED BY <1>2 DEF Lowest

\* No restatement is kept for a fact outside the ledger.
LEMMA RepeatsOfLedger == InOrder => \A a \in affirmations : a.fact \in Ledger
BY DEF InOrder, SlotInv, RepeatsAreInside

\* A fact that enters between others, where nothing resumes.
LEMMA BoundedFollows ==
  ASSUME InOrder, InOrder', NEW f \in FactType, NEW n \in FactIds, NEW by \in 0..MaxFacts,
         PlacesBounded(f, n, by)
  PROVE  Timeline!Follows(told, told')
<1> DEFINE t == f.from
           o == f.object
<1>1. /\ o \in Objects /\ t \in Times /\ t \in Nat /\ n \notin Ledger
      /\ affirmations' = affirmations /\ Ledger' = Ledger \cup {n}
      /\ facts'[n].object = o /\ facts'[n].from = t /\ t < facts'[n].until
      /\ facts'[n].by = 0 => facts'[n].until = Never
      /\ \A j \in Covering(t) :
           /\ facts'[j].object = facts[j].object /\ facts'[j].from = facts[j].from
           /\ facts'[j].until = t /\ facts'[j].by = n
      /\ \A j \in FactIds : j # n /\ j \notin Covering(t) => facts'[j] = facts[j]
  BY DEF PlacesBounded, EnteredBounded, FactType
<1>2. /\ \A j \in Covering(t) : facts[j].object # o
      /\ \A j \in Covering(t) : Inside(j, t) = {}
  <2>1. Covering(t) \subseteq Ledger /\ Inv
    BY DEF Covering, InOrder
  <2>2. {j \in Covering(t) : facts[j].object = o} = {}
    BY <2>1, NoLowest DEF PlacesBounded, Restated
  <2>3. {j \in Covering(t) : Inside(j, t) # {}} = {}
    BY <2>1, NoLowest DEF PlacesBounded, Resuming
  <2> QED BY <2>2, <2>3
<1> HIDE DEF t, o
<1>3. told'[t] = [object |-> o, end |-> Never]
  <2>1. n \in Stating(t)'
    BY <1>1 DEF Stating, Covering, Covers, States
  <2>2. EndOf(n, t)' = Never
    BY <1>1 DEF EndOf
  <2>3. told'[t] = [object |-> facts'[n].object, end |-> EndOf(n, t)']
    BY <1>1, <2>1, ClaimsThen
  <2> QED BY <1>1, <2>2, <2>3
<1>4. \A j \in Ledger : j \in FactIds /\ j # n /\ facts'[j].object = facts[j].object
                        /\ facts'[j].from = facts[j].from
  BY <1>1, Fields DEF InOrder
<1>5. ASSUME NEW u \in Times \ {t}
      PROVE  /\ Stating(u)' = Stating(u)
             /\ Over(u)' <=> Over(u)
  <2>1. \A j \in Ledger : States(j, u)' <=> States(j, u)
    BY <1>1, <1>4 DEF States
  <2>2. ~States(n, u)'
    BY <1>1, <1>5, RepeatsOfLedger DEF States
  <2>3. ASSUME NEW j \in Ledger, States(j, u)
        PROVE  Covers(j, u)' <=> Covers(j, u)
    <3>1. CASE j \notin Covering(t)
      BY <1>1, <1>4, <3>1 DEF Covers
    <3>2. CASE j \in Covering(t)
      <4>1. facts[j].from <= t /\ t < facts[j].until
        BY <3>2 DEF Covering, Covers
      <4>2. facts'[j].from = facts[j].from /\ facts'[j].until = t
        BY <1>1, <3>2
      <4>3. /\ facts[j].from \in Nat /\ facts[j].until \in Nat /\ u \in Nat
            /\ \A a \in affirmations : a.from \in Nat
        BY Fields DEF InOrder
      <4>4. t < u /\ u < facts[j].until => FALSE
        <5> SUFFICES ASSUME t < u, u < facts[j].until PROVE FALSE
          OBVIOUS
        <5>1. PICK a \in affirmations : a.fact = j /\ a.from = u
          BY <1>1, <2>3, <4>1, <4>3 DEF States
        <5> QED BY <1>2, <3>2, <5>1 DEF Inside
      <4> QED BY <1>1, <1>5, <4>1, <4>2, <4>3, <4>4 DEF Covers
    <3> QED BY <3>1, <3>2
  <2>4. Stating(u)' = Stating(u)
    BY <1>1, <2>1, <2>2, <2>3 DEF Stating, Covering
  <2>5. \A j \in Covering(t) : facts'[j].by # 0 /\ facts[j].from # facts[j].until
    <3>1. \A j \in Covering(t) : /\ j \in Ledger /\ facts[j].from <= t /\ t < facts[j].until
      BY DEF Covering, Covers
    <3> QED BY <1>1, <3>1, Fields DEF InOrder
  <2>6. Over(u)' <=> Over(u)
    BY <1>1, <1>4, <1>5, <2>5 DEF Over
  <2> QED BY <2>4, <2>6
<1>6. ASSUME NEW u \in Times \ {t}, u \notin Timeline!Holding(told, t)
      PROVE  told'[u] = told[u]
  <2> SUFFICES ASSUME NEW j \in Stating(u) PROVE EndOf(j, u)' = EndOf(j, u)
    BY <1>4, <1>5, SameDay DEF Stating, Covering
  <2>1. j \in Ledger
    BY DEF Stating, Covering
  <2>2. CASE j \notin Covering(t)
    <3>1. facts'[j] = facts[j]
      BY <1>1, <1>4, <2>1, <2>2
    <3> QED BY <1>1, <3>1 DEF EndOf, Inside
  <2>3. CASE j \in Covering(t)
    <3>1. EndOf(j, u)' = Never
      BY <1>1, <2>3 DEF EndOf
    <3>2. PICK s \in Times : Timeline!Holding(told, t) = {s} /\ Stating(s) = {j}
      BY SMTT(30), <1>1, <2>3, HoldingOfHeld
    <3>3. s \in LastMention(t)
      BY <1>1, <3>2, LatestIsLast DEF Timeline!Holding
    <3>4. u <= t
      <4>1. j \in Covering(u)' /\ facts'[j].until = t
        BY <1>1, <1>5, <2>3 DEF Stating
      <4> QED BY <1>1, <4>1 DEF Covering, Covers
    <3>5. EndOf(j, u) = Never
      BY <1>1, <1>6, <2>3, <3>2, <3>3, <3>4, EndlessBefore
    <3> QED BY <3>1, <3>5
  <2> QED BY <2>2, <2>3
<1>7. ASSUME NEW u \in Times \ {t}, u \in Timeline!Holding(told, t)
      PROVE  told'[u] = [object |-> told[u].object, end |-> Never]
  <2>1. Covering(t) # {}
    BY <1>1, <1>7, HoldingOfFree
  <2>2. PICK j \in Covering(t) : TRUE
    BY <2>1
  <2>3. Stating(u) = {j}
    <3>1. t \in Times /\ InOrder
      BY <1>1
    <3>2. \E v \in Times : Timeline!Holding(told, t) = {v} /\ Stating(v) = {j}
      BY ONLY <2>2, <3>1, HoldingOfHeld
    <3>3. PICK v \in Times : Timeline!Holding(told, t) = {v} /\ Stating(v) = {j}
      BY ONLY <3>2
    <3> QED BY ONLY <1>7, <3>3
  <2>4. told[u].object = facts[j].object
    BY <2>3, ClaimEnd
  <2>5. told'[u] = [object |-> facts'[j].object, end |-> EndOf(j, u)']
    BY <1>5, <2>3, ClaimsThen
  <2>6. EndOf(j, u)' = Never
    BY <1>1 DEF EndOf
  <2> QED BY <1>1, <2>4, <2>5, <2>6
<1> QED BY <1>1, <1>2, <1>3, <1>6, <1>7, TellsAnother

\* The fact was restated for the day.
Repeated(i, u) == \E a \in affirmations : a.fact = i /\ a.from = u

LEMMA RepeatsNow ==
  InOrder => \A i : \A u \in Times :
    /\ States(i, u) <=> facts[i].from = u \/ Repeated(i, u)
    /\ Inside(i, u) = {} <=> \A v \in Times : u < v /\ v < facts[i].until => ~Repeated(i, v)
    /\ Repeated(i, u) => i \in Ledger
<1> SUFFICES ASSUME InOrder, NEW i, NEW u \in Times
             PROVE  /\ States(i, u) <=> facts[i].from = u \/ Repeated(i, u)
                    /\ Inside(i, u) = {} <=>
                         \A v \in Times : u < v /\ v < facts[i].until => ~Repeated(i, v)
                    /\ Repeated(i, u) => i \in Ledger
  OBVIOUS
<1>1. \A a \in affirmations : a.from \in Times /\ a.fact \in Ledger
  BY Fields, RepeatsOfLedger DEF InOrder
<1> QED BY <1>1 DEF States, Inside, Repeated

LEMMA RepeatsThen ==
  (InOrder => \A i : \A u \in Times :
    /\ States(i, u) <=> facts[i].from = u \/ Repeated(i, u)
    /\ Inside(i, u) = {} <=> \A v \in Times : u < v /\ v < facts[i].until => ~Repeated(i, v)
    /\ Repeated(i, u) => i \in Ledger)'
BY RepeatsNow, PTL

LEMMA FieldsThen ==
  (Inv => /\ Ledger \subseteq FactIds
         /\ \A i \in Ledger : /\ facts[i].from \in Times /\ facts[i].from \in Nat
                              /\ facts[i].until \in Times \cup {Never}
                              /\ facts[i].until \in Nat /\ facts[i].by \in Nat
                              /\ facts[i].from <= facts[i].until /\ facts[i].until <= Never
         /\ \A a \in affirmations : a.from \in Times /\ a.from \in Nat)'
<1>1. Inv => /\ Ledger \subseteq FactIds
         /\ \A i \in Ledger : /\ facts[i].from \in Times /\ facts[i].from \in Nat
                              /\ facts[i].until \in Times \cup {Never}
                              /\ facts[i].until \in Nat /\ facts[i].by \in Nat
                              /\ facts[i].from <= facts[i].until /\ facts[i].until <= Never
         /\ \A a \in affirmations : a.from \in Times /\ a.from \in Nat
  BY Fields
<1> QED BY <1>1, PTL

\* The claim of fact k goes on from its first restatement after t as fact r: from then
\* on r was restated when k was.
ResumesAs(k, t, r, s) ==
  /\ s \in Times /\ t < s /\ s < facts[k].until /\ Repeated(k, s)
  /\ \A u \in Times : t < u /\ u < facts[k].until /\ Repeated(k, u) => s <= u
  /\ \A u \in Times :
       /\ \A j \in Ledger :
            Repeated(j, u)' <=> Repeated(j, u) /\ ~(j = k /\ t < u /\ u < facts[k].until)
       /\ Repeated(r, u)' <=> Repeated(k, u) /\ s < u /\ u < facts[k].until
       /\ \A j : j \notin Ledger /\ j # r => ~Repeated(j, u)'

LEMMA MovedResumes ==
  ASSUME InOrder, NEW k \in Ledger, NEW t \in Times, NEW r, r \notin Ledger, NEW a,
         IsFirst(a, k, t), affirmations' = Moved(k, t, r)
  PROVE  ResumesAs(k, t, r, a.from)
<1> DEFINE s == a.from
<1>1. /\ a \in affirmations /\ a.fact = k /\ s \in Times /\ t < s /\ s < facts[k].until
      /\ \A b \in Inside(k, t) : s <= b.from
  BY FirstInside DEF InOrder, Inv, IsFirst, Inside
<1>2. /\ \A b \in affirmations : b.from \in Nat /\ b.from \in Times /\ b.fact \in Ledger
      /\ affirmations \subseteq [fact : FactIds, from : Times]
  BY Fields, RepeatsOfLedger DEF InOrder, Inv, TypeOK
<1>3. \A b \in Inside(k, t) : ~IsFirst(b, k, t) <=> s < b.from
  <2> SUFFICES ASSUME NEW b \in Inside(k, t) PROVE ~IsFirst(b, k, t) <=> s < b.from
    OBVIOUS
  <2>1. b.from \in Nat /\ s \in Nat
    BY <1>1, <1>2 DEF Inside
  <2>2. a \in Inside(k, t)
    BY DEF IsFirst
  <2>3. s < b.from => ~IsFirst(b, k, t)
    BY <2>1, <2>2 DEF IsFirst
  <2> QED BY <2>3, LaterThanFirst DEF InOrder
<1>4. \A b \in Inside(k, t) : [b EXCEPT !.fact = r].fact = r /\ [b EXCEPT !.fact = r].from = b.from
  BY <1>2 DEF Inside
<1>5. ASSUME NEW u \in Times, NEW j, j # r
      PROVE  Repeated(j, u)' <=> \E b \in affirmations \ Inside(k, t) : b.fact = j /\ b.from = u
  BY <1>4, <1>5 DEF Repeated, Moved
<1>6. ASSUME NEW u \in Times
      PROVE  Repeated(r, u)' <=> \E b \in Inside(k, t) : s < b.from /\ b.from = u
  <2>1. \A b \in affirmations : b.fact # r
    BY <1>2
  <2>2. ASSUME Repeated(r, u)' PROVE \E b \in Inside(k, t) : s < b.from /\ b.from = u
    <3>1. PICK c \in affirmations' : c.fact = r /\ c.from = u
      BY <2>2 DEF Repeated
    <3>2. c \notin affirmations
      BY <2>1, <3>1
    <3>3. PICK b \in Inside(k, t) : ~IsFirst(b, k, t) /\ c = [b EXCEPT !.fact = r]
      BY <3>2 DEF Moved
    <3> QED BY <1>3, <1>4, <3>1, <3>3
  <2>3. ASSUME NEW b \in Inside(k, t), s < b.from, b.from = u PROVE Repeated(r, u)'
    <3>1. [b EXCEPT !.fact = r] \in affirmations'
      BY <1>3, <2>3 DEF Moved
    <3> QED BY <1>4, <2>3, <3>1 DEF Repeated
  <2> QED BY <2>2, <2>3
<1>7. \A u \in Times : Repeated(k, u) /\ t < u /\ u < facts[k].until
                         <=> \E b \in Inside(k, t) : b.from = u
  BY DEF Repeated, Inside
<1>8. Repeated(k, s) /\ \A u \in Times : t < u /\ u < facts[k].until /\ Repeated(k, u) => s <= u
  BY <1>1, <1>7 DEF Repeated
<1>9. ASSUME NEW u \in Times, NEW j \in Ledger
      PROVE  Repeated(j, u)' <=> Repeated(j, u) /\ ~(j = k /\ t < u /\ u < facts[k].until)
  <2>1. j # r
    OBVIOUS
  <2> QED BY <1>5, <2>1 DEF Repeated, Inside
<1>10. ASSUME NEW u \in Times
       PROVE  Repeated(r, u)' <=> Repeated(k, u) /\ s < u /\ u < facts[k].until
  <2>1. s < u => t < u
    BY <1>1
  <2>2. Repeated(r, u)' <=> s < u /\ \E b \in Inside(k, t) : b.from = u
    BY <1>6
  <2> QED BY <1>7, <2>1, <2>2
<1>11. ASSUME NEW u \in Times, NEW j, j \notin Ledger, j # r
       PROVE  ~Repeated(j, u)'
  BY <1>2, <1>5, <1>11
<1> HIDE DEF s
<1>12. ResumesAs(k, t, r, s)
  BY <1>1, <1>8, <1>9, <1>10, <1>11 DEF ResumesAs
<1> QED BY <1>12 DEF s

\* The days after one on which a claim is cut, to go on as fact r, say what they said.
LEMMA LaterDays ==
  ASSUME InOrder, InOrder', NEW t \in Times, NEW k \in Covering(t), NEW n, NEW r, NEW s,
         n \notin Ledger, r \notin Ledger, Ledger' = Ledger \cup {n, r}, ResumesAs(k, t, r, s),
         n # r => facts'[n].from = t,
         facts'[k].from = facts[k].from, facts'[k].until = t,
         facts'[r].object = facts[k].object, facts'[r].from = s,
         facts'[r].until = facts[k].until, facts'[r].by = facts[k].by,
         \A j \in Ledger : j # k => facts'[j] = facts[j],
         NEW u \in Times, t < u
  PROVE  told'[u] = told[u]
<1>1. /\ k \in Ledger /\ facts[k].from <= t /\ t < facts[k].until
      /\ facts[k].from \in Nat /\ facts[k].until \in Nat /\ t \in Nat /\ u \in Nat
      /\ s \in Times /\ t < s /\ s < facts[k].until
  BY Fields DEF Covering, Covers, InOrder, ResumesAs
<1>2. k \in Stating(u) <=> Repeated(k, u) /\ u < facts[k].until
  BY <1>1, RepeatsNow DEF Stating, Covering, Covers
<1>3. r \in Stating(u)' <=> (s = u \/ Repeated(r, u)') /\ s <= u /\ u < facts[k].until
  <2>1. States(r, u)' <=> s = u \/ Repeated(r, u)'
    BY RepeatsThen
  <2> QED BY <2>1 DEF Stating, Covering, Covers
<1>4. k \in Stating(u) <=> r \in Stating(u)'
  <2>1. Repeated(k, u) /\ u < facts[k].until => s <= u
    BY <1>1 DEF ResumesAs
  <2>2. Repeated(r, u)' <=> Repeated(k, u) /\ s < u /\ u < facts[k].until
    BY DEF ResumesAs
  <2>3. Repeated(k, s)
    BY DEF ResumesAs
  <2> QED BY <1>1, <1>2, <1>3, <2>1, <2>2, <2>3
<1>5. CASE k \in Stating(u)
  <2>1. told[u] = [object |-> facts[k].object, end |-> EndOf(k, u)]
    BY <1>5, ClaimsNow
  <2>2. told'[u] = [object |-> facts'[r].object, end |-> EndOf(r, u)']
    BY <1>4, <1>5, ClaimsThen
  <2>3. s <= u /\ s < facts[k].until
    BY <1>1, <1>3, <1>4, <1>5
  <2>4. Inside(r, u)' = {} <=>
          \A v \in Times : u < v /\ v < facts[k].until => ~Repeated(r, v)'
    BY RepeatsThen
  <2>5. Inside(k, u) = {} <=>
          \A v \in Times : u < v /\ v < facts[k].until => ~Repeated(k, v)
    BY RepeatsNow
  <2>6. \A v \in Times : u < v /\ v < facts[k].until => (Repeated(r, v)' <=> Repeated(k, v))
    BY <1>1, <2>3 DEF ResumesAs
  <2>7. EndOf(r, u)' = EndOf(k, u)
    BY <2>4, <2>5, <2>6 DEF EndOf
  <2> QED BY <2>1, <2>2, <2>7
<1>6. CASE k \notin Stating(u)
  <2>1. \A j \in Ledger : j # k => (j \in Stating(u)' <=> j \in Stating(u))
    <3> SUFFICES ASSUME NEW j \in Ledger, j # k
                 PROVE  j \in Stating(u)' <=> j \in Stating(u)
      OBVIOUS
    <3>1. States(j, u)' <=> States(j, u)
      BY RepeatsNow, RepeatsThen DEF ResumesAs
    <3> QED BY <3>1 DEF Stating, Covering, Covers
  <2>2. k \notin Stating(u)'
    BY <1>1 DEF Stating, Covering, Covers
  <2>3. n # r => n \notin Stating(u)'
    <3>1. n # r => ~Repeated(n, u)' /\ facts'[n].from # u
      BY <1>1 DEF ResumesAs
    <3> QED BY <3>1, RepeatsThen DEF Stating
  <2>4. Stating(u)' = Stating(u)
    <3>1. Stating(u) \subseteq Ledger /\ Stating(u)' \subseteq Ledger \cup {n, r}
      BY DEF Stating, Covering
    <3> QED BY <1>4, <1>6, <2>1, <2>2, <2>3, <3>1
  <2>5. Over(u)' <=> Over(u)
    <3>1. facts[k].from # u \/ facts[k].until # u
      BY <1>1
    <3>2. facts'[k].until # u /\ facts'[r].from # facts'[r].until /\ (n # r => facts'[n].from # u)
      BY <1>1
    <3> QED BY <3>1, <3>2 DEF Over
  <2>6. ASSUME NEW j \in Stating(u)
        PROVE  facts'[j].object = facts[j].object /\ EndOf(j, u)' = EndOf(j, u)
    <3>1. j \in Ledger /\ j # k /\ facts'[j] = facts[j]
      BY <1>6 DEF Stating, Covering
    <3>2. Inside(j, u)' = {} <=> Inside(j, u) = {}
      BY <3>1, RepeatsNow, RepeatsThen DEF ResumesAs
    <3> QED BY <3>1, <3>2 DEF EndOf
  <2> QED BY <2>4, <2>5, <2>6, SameDay
<1> QED BY <1>5, <1>6

\* The days before the one on which a claim is cut are said something of as before.
LEMMA EarlierDays ==
  ASSUME InOrder, InOrder', NEW t \in Times, NEW k \in Covering(t),
         Ledger \subseteq Ledger', \A j \in Ledger' \ Ledger : t <= facts'[j].from,
         facts'[k].object = facts[k].object,
         facts'[k].from = facts[k].from, facts'[k].until = t,
         \A j \in Ledger : j # k => facts'[j] = facts[j],
         \A v \in Times : \A j \in Ledger' :
           (j # k /\ j \in Ledger) \/ v <= t => (Repeated(j, v)' <=> Repeated(j, v)),
         NEW u \in Times, u < t
  PROVE  /\ Stating(u)' = Stating(u) /\ (Over(u)' <=> Over(u))
         /\ k \notin Stating(u) \/ EndOf(k, u)' = EndOf(k, u) => told'[u] = told[u]
<1>1. /\ k \in Ledger /\ facts[k].from <= t /\ t < facts[k].until
      /\ facts[k].from \in Nat /\ facts[k].until \in Nat /\ t \in Nat /\ u \in Nat
  BY Fields DEF Covering, Covers, InOrder
<1>2. \A j \in Ledger' : j \notin Ledger => facts'[j].from \in Nat /\ facts'[j].from > u
  BY <1>1, FieldsThen DEF InOrder
<1>3. \A j \in Ledger : States(j, u)' <=> States(j, u)
  <2> SUFFICES ASSUME NEW j \in Ledger PROVE States(j, u)' <=> States(j, u)
    OBVIOUS
  <2>1. facts'[j].from = facts[j].from
    OBVIOUS
  <2>2. Repeated(j, u)' <=> Repeated(j, u)
    BY <1>1
  <2> QED BY <2>1, <2>2, RepeatsNow, RepeatsThen
<1>4. \A j \in Ledger : Covers(j, u)' <=> Covers(j, u)
  BY <1>1 DEF Covers
<1>5. Stating(u)' = Stating(u)
  BY <1>2, <1>3, <1>4 DEF Stating, Covering, Covers
<1>6. Over(u)' <=> Over(u)
  <2>1. facts[k].from # u \/ facts[k].until # u
    BY <1>1
  <2>2. facts'[k].until # u
    BY <1>1
  <2>3. \A j \in Ledger' : j \notin Ledger => facts'[j].from # u
    BY <1>2
  <2> QED BY <2>1, <2>2, <2>3 DEF Over
<1>7. ASSUME NEW j \in Stating(u), j # k
      PROVE  facts'[j].object = facts[j].object /\ EndOf(j, u)' = EndOf(j, u)
  <2>1. j \in Ledger /\ j \in Ledger' /\ facts'[j] = facts[j]
    BY <1>7 DEF Stating, Covering
  <2>2. Inside(j, u)' = {} <=> Inside(j, u) = {}
    BY <1>7, <2>1, RepeatsNow, RepeatsThen
  <2> QED BY <2>1, <2>2 DEF EndOf
<1>8. ASSUME k \notin Stating(u) \/ EndOf(k, u)' = EndOf(k, u) PROVE told'[u] = told[u]
  BY <1>5, <1>6, <1>7, <1>8, SameDay
<1> QED BY <1>5, <1>6, <1>8

\* A fact that enters, and the claim it cuts goes on after it.
LEMMA ResumingFollows ==
  ASSUME InOrder, InOrder', NEW f \in FactType, NEW n \in FactIds, NEW r \in FactIds,
         NEW k \in Ledger, NEW a \in affirmations, PlacesResuming(f, n, r, k, a)
  PROVE  Timeline!Follows(told, told')
<1> DEFINE t == f.from
           o == f.object
           s == a.from
<1>1. /\ o \in Objects /\ t \in Times /\ t \in Nat /\ n \notin Ledger /\ r \notin Ledger /\ n # r
      /\ k \in Covering(t) /\ IsFirst(a, k, t) /\ s \in Times /\ t < s
      /\ affirmations' = Moved(k, t, r) /\ Ledger' = Ledger \cup {n, r}
      /\ facts'[n].object = o /\ facts'[n].from = t /\ facts'[n].until = s /\ facts'[n].by = r
      /\ facts'[r].object = facts[k].object /\ facts'[r].from = s
      /\ facts'[r].until = facts[k].until /\ facts'[r].by = facts[k].by
      /\ facts'[k].object = facts[k].object /\ facts'[k].from = facts[k].from
      /\ facts'[k].until = t /\ facts'[k].by = n
      /\ \A j \in FactIds : j # n /\ j # r /\ j \notin Covering(t) => facts'[j] = facts[j]
  BY DEF PlacesResuming, EnteredResuming, FactType
<1>2. Covering(t) = {k} /\ facts[k].object # o
  <2>1. Covering(t) \subseteq Ledger /\ Inv
    BY DEF Covering, InOrder
  <2>2. {j \in Covering(t) : facts[j].object = o} = {}
    BY <2>1, NoLowest DEF PlacesResuming, Restated
  <2>3. Covering(t) = {k}
    BY <1>1, OnlyOne DEF InOrder
  <2> QED BY <2>2, <2>3
<1> HIDE DEF t, o, s
<1>3. \A j \in Ledger : j # k => facts'[j] = facts[j]
  BY <1>1, <1>2, Fields DEF InOrder
<1>4. ResumesAs(k, t, r, s)
  BY <1>1, MovedResumes DEF s
<1>5. told'[t] = [object |-> o, end |-> Never]
  <2>1. n \in Stating(t)'
    BY <1>1 DEF Stating, Covering, Covers, States
  <2>2. EndOf(n, t)' = Never
    BY <1>1 DEF EndOf
  <2>3. told'[t] = [object |-> facts'[n].object, end |-> EndOf(n, t)']
    BY <1>1, <2>1, ClaimsThen
  <2> QED BY <1>1, <2>2, <2>3
<1>6. PICK h \in Times : Timeline!Holding(told, t) = {h} /\ h <= t /\ Stating(h) = {k}
  BY <1>1, HoldingOfHeld
<1>7. h \in LastMention(t)
  BY <1>1, <1>6, LatestIsLast DEF Timeline!Holding
<1>8. ASSUME NEW u \in Times, t < u
      PROVE  told'[u] = told[u] /\ u # h
  <2>1. told'[u] = told[u]
    BY <1>1, <1>3, <1>4, <1>8, LaterDays
  <2> QED BY <1>1, <1>6, <1>8, <2>1
<1>9. ASSUME NEW u \in Times, u < t
      PROVE  /\ Stating(u)' = Stating(u)
             /\ k \notin Stating(u) \/ EndOf(k, u)' = EndOf(k, u) => told'[u] = told[u]
  <2>1. \A v \in Times : \A j \in Ledger' :
           (j # k /\ j \in Ledger) \/ v <= t => (Repeated(j, v)' <=> Repeated(j, v))
    <3> SUFFICES ASSUME NEW v \in Times, NEW j \in Ledger', (j # k /\ j \in Ledger) \/ v <= t
                 PROVE  Repeated(j, v)' <=> Repeated(j, v)
      OBVIOUS
    <3>1. CASE j \in Ledger
      BY <1>1, <1>4, <3>1 DEF ResumesAs
    <3>2. CASE j = n \/ j = r
      <4>1. ~Repeated(j, v)
        BY <1>1, <3>2, RepeatsNow
      <4>2. v <= t => ~(s < v)
        BY <1>1
      <4>3. v <= t => ~Repeated(j, v)'
        BY <1>1, <1>4, <3>2, <4>2 DEF ResumesAs
      <4> QED BY <1>1, <3>2, <4>1, <4>3
    <3> QED BY <1>1, <3>1, <3>2
  <2>2. \A j \in Ledger' \ Ledger : t <= facts'[j].from
    BY <1>1
  <2> QED BY <1>1, <1>3, <1>9, <2>1, <2>2, EarlierDays
<1>10. \A u \in Times : EndOf(k, u)' = Never
  BY <1>1 DEF EndOf
<1>11. ASSUME NEW u \in Times \ {t}, u # h
       PROVE  told'[u] = told[u]
  <2>1. u < t => k \notin Stating(u) \/ EndOf(k, u) = Never
    BY <1>1, <1>6, <1>7, <1>11, EndlessBefore
  <2> QED BY <1>1, <1>8, <1>9, <1>10, <2>1
<1>12. ASSUME h # t
       PROVE  told'[h] = [object |-> told[h].object, end |-> Never]
  <2>1. h < t
    BY <1>1, <1>6, <1>12
  <2>2. told'[h] = [object |-> facts'[k].object, end |-> EndOf(k, h)']
    BY <1>6, <1>9, <2>1, ClaimsThen
  <2>3. told[h].object = facts[k].object
    BY <1>6, ClaimEnd
  <2> QED BY <1>1, <1>10, <2>2, <2>3
<1> QED BY <1>1, <1>2, <1>5, <1>6, <1>11, <1>12, TellsAnother

\* Saying again what holds on a day.
LEMMA AffirmsFollows ==
  ASSUME InOrder, InOrder', NEW o \in Objects, NEW t \in Times, Affirms(o, t)
  PROVE  told' = told \/ Timeline!Follows(told, told')
<1>1. PICK i \in Restated(o, t) : Affirmed(i, t)
  BY DEF Affirms
<1>2. /\ i \in Covering(t) /\ i \in Ledger /\ facts[i].object = o
      /\ facts[i].from <= t /\ t < facts[i].until
      /\ facts[i].from \in Nat /\ facts[i].until \in Nat /\ t \in Nat
  BY Fields DEF Restated, Lowest, Covering, Covers, InOrder
<1>3. /\ Ledger' = Ledger /\ \A j \in Ledger : facts'[j] = facts[j]
      /\ \A u : Over(u)' <=> Over(u)
  BY DEF Affirms, Over
<1>4. told' = [u \in Times |-> told'[u]] /\ told = [u \in Times |-> told[u]]
  BY DEF told
<1>5. ASSUME affirmations' = affirmations
      PROVE  told' = told
  <2>1. ASSUME NEW u \in Times PROVE told'[u] = told[u]
    <3>1. Stating(u)' = Stating(u)
      BY <1>3, <1>5 DEF Stating, Covering, Covers, States
    <3>2. \A j \in Stating(u) : facts'[j].object = facts[j].object /\ EndOf(j, u)' = EndOf(j, u)
      BY <1>3, <1>5 DEF Stating, Covering, EndOf, Inside
    <3> QED BY <1>3, <3>1, <3>2, SameDay
  <2> QED BY <1>4, <2>1
<1>6. ASSUME affirmations' # affirmations
      PROVE  Timeline!Follows(told, told')
  <2>1. facts[i].from < t /\ ~Repeated(i, t)
    BY <1>1, <1>2, <1>6 DEF Affirmed, Repeated
  <2>2. \A j : \A v \in Times : Repeated(j, v)' <=> Repeated(j, v) \/ (j = i /\ v = t)
    <3>1. affirmations' = affirmations \cup {[fact |-> i, from |-> t]}
      BY <1>1, <1>6 DEF Affirmed
    <3> DEFINE b == [fact |-> i, from |-> t]
    <3>2. b.fact = i /\ b.from = t
      OBVIOUS
    <3>3. affirmations' = affirmations \cup {b}
      BY <3>1
    <3> HIDE DEF b
    <3> QED BY <3>2, <3>3 DEF Repeated
  <2>3. PICK h \in Times : /\ Timeline!Holding(told, t) = {h} /\ h <= t
                           /\ Stating(h) = {i} /\ i \in Covering(h)
    BY <1>2, HoldingOfHeld
  <2>4. h \in LastMention(t) /\ h \in Nat
    BY <2>3, LatestIsLast DEF Timeline!Holding
  <2>5. i \notin Stating(t) /\ h # t
    <3>1. i \notin Stating(t)
      BY <2>1, RepeatsNow DEF Stating
    <3> QED BY <2>3, <3>1
  <2>6. Stating(t) = {}
    BY <1>2, <2>5, HolderStates DEF Mentioned
  <2>7. told[h] = [object |-> o, end |-> EndOf(i, h)]
    BY <1>2, <2>3, ClaimsNow
  <2>8. EndOf(i, h) = EndOf(i, t) /\ EndOf(i, t)' = EndOf(i, t)
    <3>1. \A v \in Times : h < v /\ Repeated(i, v) => t < v
      BY <1>2, <2>4, NoneBetween DEF Repeated
    <3>2. Inside(i, h) = {} <=> Inside(i, t) = {}
      BY <1>2, <2>3, <2>4, <3>1, RepeatsNow
    <3>3. Inside(i, t)' = {} <=> Inside(i, t) = {}
      BY <1>2, <1>3, <2>2, RepeatsNow, RepeatsThen
    <3> QED BY <1>2, <1>3, <3>2, <3>3 DEF EndOf
  <2>9. told'[t] = [object |-> o, end |-> EndOf(i, h)]
    <3>1. Repeated(i, t)'
      BY <2>2
    <3>2. i \in Stating(t)'
      BY <1>2, <1>3, <3>1, RepeatsThen DEF Stating, Covering, Covers
    <3>3. told'[t] = [object |-> facts'[i].object, end |-> EndOf(i, t)']
      BY <3>2, ClaimsThen
    <3> QED BY <1>2, <1>3, <2>8, <3>3
  <2>10. ASSUME NEW u \in Times \ {t}
         PROVE  Stating(u)' = Stating(u)
    <3>1. \A j \in Ledger : States(j, u)' <=> States(j, u)
      BY <1>3, <2>2, RepeatsNow, RepeatsThen
    <3> QED BY <1>3, <3>1 DEF Stating, Covering, Covers
  <2>11. told'[h] = [object |-> o, end |-> Never]
    <3>1. EndOf(i, h)' = Never
      <4>1. Repeated(i, t)' /\ h < t /\ t < facts'[i].until
        BY <1>2, <1>3, <2>2, <2>3, <2>4, <2>5
      <4>2. Inside(i, h)' # {}
        BY <4>1, RepeatsThen
      <4> QED BY <4>2 DEF EndOf
    <3>2. i \in Stating(h)'
      BY <2>3, <2>5, <2>10
    <3> QED BY <1>2, <1>3, <3>1, <3>2, ClaimsThen
  <2>12. ASSUME NEW u \in Times \ {t, h}
         PROVE  told'[u] = told[u]
    <3> SUFFICES ASSUME NEW j \in Stating(u) PROVE EndOf(j, u)' = EndOf(j, u)
      BY <1>3, <2>10, SameDay DEF Stating, Covering
    <3>1. j \in Ledger /\ facts'[j] = facts[j]
      BY <1>3 DEF Stating, Covering
    <3>2. CASE j = i /\ u < t
      <4>1. EndOf(i, u) = Never
        BY <1>2, <2>3, <2>4, <3>2, EndlessBefore
      <4>2. Inside(i, u)' # {}
        BY <1>2, <1>3, <2>2, <3>2, RepeatsThen
      <4> QED BY <3>2, <4>1, <4>2 DEF EndOf
    <3>3. CASE ~(j = i /\ u < t)
      <4>1. Inside(j, u)' = {} <=> Inside(j, u) = {}
        BY <2>2, <3>1, <3>3, RepeatsNow, RepeatsThen
      <4> QED BY <3>1, <4>1 DEF EndOf
    <3> QED BY <3>2, <3>3
  <2>13. Timeline!Tell(told, o, t) =
           [u \in Times |-> IF u = t THEN [object |-> o, end |-> EndOf(i, h)]
                            ELSE IF u = h THEN [object |-> o, end |-> Never] ELSE told[u]]
    <3>1. {x \in Timeline!Holding(told, t) : told[x].object = o} = {h}
      BY <2>3, <2>7
    <3>2. (CHOOSE x \in {h} : TRUE) = h
      OBVIOUS
    <3>3. told[h].object = o /\ told[h].end = EndOf(i, h)
      BY <2>7
    <3> QED BY <2>3, <3>1, <3>2, <3>3 DEF Timeline!Tell, Timeline!Said
  <2>14. told' = Timeline!Tell(told, o, t)
    BY <1>4, <2>9, <2>11, <2>12, <2>13
  <2>15. told'[t] # NoObject /\ told'[t].object = o
    <3>1. EndOf(i, h) \in Nat
      BY <1>2, LedgerAssumption DEF EndOf, LedgerAssumption
    <3>2. [object |-> o, end |-> EndOf(i, h)] \in [object : Objects \cup {NoObject}, end : Nat]
      BY <3>1
    <3> QED BY <2>9, <3>2, LedgerAssumption DEF LedgerAssumption
  <2> QED BY <2>14, <2>15 DEF Timeline!Follows
<1> QED BY <1>5, <1>6

\* No fact begins and ends on a day inside another.
LEMMA NotOver ==
  ASSUME InOrder, NEW t \in Times, NEW i \in Covering(t), facts[i].from < t
  PROVE  ~Over(t)
<1> SUFFICES ASSUME NEW j \in Ledger, facts[j].from = t, facts[j].until = t PROVE FALSE
  BY DEF Over
<1>1. i \in Ledger /\ t < facts[i].until /\ facts[i].from \in Nat /\ facts[i].until \in Nat
  BY Fields DEF Covering, Covers, InOrder
<1>2. i # j
  OBVIOUS
<1>3. facts[i].until <= facts[j].from
  BY <1>1, <1>2 DEF InOrder, Inv, Ordered, Apart
<1> QED BY <1>1, <1>3

\* A person ends a claim.
LEMMA ClosingFollows ==
  ASSUME InOrder, InOrder', NEW t \in Times, NEW n \in Covering(t),
         facts[n].by = 0, facts[n].until = Never,
         Ledger \subseteq Ledger', \A j \in Ledger' \ Ledger : t < facts'[j].from,
         facts'[n].object = facts[n].object, facts'[n].from = facts[n].from,
         facts'[n].until = t, facts'[n].by = 0,
         \A j \in Ledger : j # n => facts'[j] = facts[j],
         \A v \in Times : \A j \in Ledger' :
           (j # n /\ j \in Ledger) \/ v <= t => (Repeated(j, v)' <=> Repeated(j, v)),
         \A u \in Times : t < u => told'[u] = told[u]
  PROVE  Timeline!Follows(told, told')
<1>1. /\ n \in Ledger /\ facts[n].from <= t /\ t \in Nat
      /\ facts[n].from \in Nat /\ facts[n].from \in Times
  BY Fields DEF Covering, Covers, InOrder
<1>2. Covering(t) = {n}
  BY OnlyOne DEF InOrder
<1>3. \A j \in Ledger' : j \notin Ledger => facts'[j].from \in Nat /\ facts'[j].from > t
  BY <1>1, FieldsThen DEF InOrder
<1>4. Stating(t)' = {}
  <2> SUFFICES ASSUME NEW j \in Covering(t)' PROVE FALSE
    BY DEF Stating
  <2>1. j \in Ledger' /\ facts'[j].from <= t /\ t < facts'[j].until
    BY DEF Covering, Covers
  <2>2. j \in Ledger /\ j # n
    BY <1>1, <1>3, <2>1
  <2>3. j \in Covering(t)
    BY <2>1, <2>2 DEF Covering, Covers
  <2> QED BY <1>2, <2>2, <2>3
<1>5. \A u \in Times : u < t =>
        /\ Stating(u)' = Stating(u)
        /\ n \notin Stating(u) \/ EndOf(n, u)' = EndOf(n, u) => told'[u] = told[u]
  <2>1. \A j \in Ledger' \ Ledger : t <= facts'[j].from
    BY <1>1, <1>3
  <2> QED BY <2>1, EarlierDays
<1>6. told' = [u \in Times |-> told'[u]]
  BY DEF told
<1>7. CASE facts[n].from = t
  <2>1. told'[t] = [object |-> NoObject, end |-> t]
    <3>1. Over(t)'
      BY <1>1, <1>7 DEF Over
    <3> QED BY <1>4, <3>1, ClaimsThen
  <2>2. \A u \in Times : u # t => told'[u] = told[u]
    <3>1. \A u \in Times : u < t => n \notin Stating(u)
      BY <1>1, <1>7 DEF Stating, Covering, Covers
    <3> QED BY <1>1, <1>5, <3>1
  <2>3. Timeline!Holding(told, t) = {t}
    <3>1. Mentioned(t)
      BY <1>1, <1>7, BeginningMentioned
    <3>2. t \in LastMention(t)
      BY <1>1, <3>1 DEF LastMention
    <3>3. PICK h \in Times : Timeline!Holding(told, t) = {h} /\ Stating(h) = {n}
      BY HoldingOfHeld
    <3>4. h \in LastMention(t)
      BY <3>3, LatestIsLast DEF Timeline!Holding
    <3>5. facts[n].from <= h
      BY <3>3 DEF Stating, Covering, Covers
    <3>6. h <= t
      BY <3>4 DEF LastMention
    <3>7. h = t
      BY <1>1, <1>7, <3>5, <3>6
    <3> QED BY <3>3, <3>7
  <2>4. told' = Timeline!EndAt(told, t, t)
    BY <1>6, <2>1, <2>2 DEF Timeline!EndAt, Timeline!With, Timeline!Over, Timeline!Said
  <2> QED BY <2>3, <2>4 DEF Timeline!Follows, Timeline!Endings
<1>8. CASE facts[n].from < t
  <2> DEFINE p == t - 1
  <2>1. p \in Times /\ p \in Nat /\ p < t /\ n \in Covering(p)
    <3>1. p \in Times /\ p \in Nat /\ p < t /\ facts[n].from <= p
      BY <1>1, <1>8, LedgerAssumption DEF LedgerAssumption
    <3>2. p < Never
      BY <3>1, LedgerAssumption DEF LedgerAssumption
    <3> QED BY <1>1, <3>1, <3>2 DEF Covering, Covers
  <2>2. PICK h \in Times : LastMention(p) = {h} /\ Stating(h) = {n} /\ n \in Covering(h)
    BY <2>1, LastWhileHeld
  <2> HIDE DEF p
  <2>3. h \in LastMention(p) /\ h \in Nat /\ h <= p /\ h < t
    BY <2>1, <2>2 DEF LastMention
  <2>4. told'[t] = NoObject
    <3>1. ~Over(t)
      BY <1>8, NotOver
    <3>2. ~Over(t)'
      BY <1>1, <1>3, <1>8, <3>1 DEF Over
    <3> QED BY <1>4, <3>2, ClaimsThen
  <2>5. told'[h] = [object |-> told[h].object, end |-> t]
    <3>1. told'[h] = [object |-> facts'[n].object, end |-> EndOf(n, h)']
      BY <1>5, <2>2, <2>3, ClaimsThen
    <3>2. \A v \in Times : h < v /\ Repeated(n, v) => p < v
      BY <2>1, <2>3, NoneBetween DEF Repeated
    <3>3. \A v \in Times : h < v /\ v < t => ~Repeated(n, v)
      BY <1>1, <2>1, <3>2 DEF p
    <3>4. \A v \in Times : h < v /\ v < t => ~Repeated(n, v)'
      BY <1>1, <3>3
    <3>5. Inside(n, h)' = {}
      BY <3>4, RepeatsThen
    <3>6. EndOf(n, h)' = t
      BY <3>5 DEF EndOf
    <3>7. told[h].object = facts[n].object
      BY <2>2, ClaimEnd
    <3> QED BY <3>1, <3>6, <3>7
  <2>6. ASSUME NEW u \in Times, u # t, u # h
        PROVE  told'[u] = told[u]
    <3>1. CASE u < t /\ n \in Stating(u)
      <4>1. u <= p /\ u \in Nat
        BY <1>1, <2>1, <3>1 DEF p
      <4>2. u < h /\ EndOf(n, u) = Never
        BY <2>1, <2>2, <2>3, <2>6, <3>1, <4>1, EndlessBefore
      <4>3. Repeated(n, h)
        <5>1. facts[n].from <= u
          BY <3>1 DEF Stating, Covering, Covers
        <5>2. States(n, h)
          BY <2>2 DEF Stating
        <5> QED BY <1>1, <2>3, <4>1, <4>2, <5>1, <5>2, RepeatsNow
      <4>4. Inside(n, u)' # {}
        BY <1>1, <2>3, <4>2, <4>3, RepeatsThen
      <4>5. EndOf(n, u)' = Never
        BY <4>4 DEF EndOf
      <4> QED BY <1>5, <3>1, <4>2, <4>5
    <3>2. CASE u < t /\ n \notin Stating(u)
      BY <1>5, <3>2
    <3>3. CASE t < u
      BY <3>3
    <3> QED BY <1>1, <2>6, <3>1, <3>2, <3>3
  <2>7. CASE ~Mentioned(t)
    <3>1. LastMention(t) = {h}
      <4>1. \A u \in Times : u <= t /\ u # t => u <= p
        BY <1>1, <2>1 DEF p
      <4>2. Mentioned(h) /\ \A u \in Times : h < u /\ u <= p => ~Mentioned(u)
        BY <2>3 DEF LastMention
      <4>3. h \in LastMention(t)
        BY <1>1, <2>3, <2>7, <4>1, <4>2 DEF LastMention
      <4>4. ASSUME NEW u \in LastMention(t) PROVE u = h
        BY <1>1, <2>3, <4>3 DEF LastMention
      <4> QED BY <4>3, <4>4
    <3>2. Timeline!Holding(told, t) = {h}
      <4>1. PICK x \in Times : Timeline!Holding(told, t) = {x}
        BY HoldingOfHeld
      <4>2. x \in LastMention(t)
        BY <4>1, LatestIsLast DEF Timeline!Holding
      <4> QED BY <3>1, <4>1, <4>2
    <3>3. told[t] = NoObject
      BY <2>7, ClaimIsSaid
    <3>4. told' = Timeline!EndAt(told, h, t)
      BY <1>6, <2>3, <2>4, <2>5, <2>6, <3>3
         DEF Timeline!EndAt, Timeline!With, Timeline!Over, Timeline!Said
    <3> QED BY <3>2, <3>4 DEF Timeline!Follows, Timeline!Endings
  <2>8. CASE Mentioned(t)
    <3>1. Stating(t) = {n}
      BY <2>8, HolderStates
    <3>2. Timeline!Holding(told, t) = {t}
      <4>1. PICK x \in Times : Timeline!Holding(told, t) = {x}
        BY HoldingOfHeld
      <4>2. x \in LastMention(t)
        BY <4>1, LatestIsLast DEF Timeline!Holding
      <4>3. x = t
        BY <1>1, <2>8, <4>2 DEF LastMention
      <4> QED BY <4>1, <4>3
    <3>3. told[h] = told[t]
      <4>1. told[h] = [object |-> facts[n].object, end |-> EndOf(n, h)]
        BY <2>2, ClaimsNow
      <4>2. told[t] = [object |-> facts[n].object, end |-> EndOf(n, t)]
        BY <3>1, ClaimsNow
      <4>3. EndOf(n, h) = Never
        BY <2>2, <2>3, <3>1, SaidAgain
      <4>4. EndOf(n, t) = Never
        BY DEF EndOf
      <4> QED BY <4>1, <4>2, <4>3, <4>4
    <3>4. Timeline!Latest(told, t - 1) = {h}
      BY <2>1, <2>2, LatestIsLast DEF p
    <3>5. told' = Timeline!EndRepeated(told, h, t)
      BY <1>6, <2>3, <2>4, <2>5, <2>6
         DEF Timeline!EndRepeated, Timeline!With, Timeline!Said
    <3> QED BY <3>2, <3>3, <3>4, <3>5 DEF Timeline!Follows, Timeline!Endings
  <2> QED BY <2>7, <2>8
<1> QED BY <1>1, <1>7, <1>8

LEMMA CloseBoundedFollows ==
  ASSUME InOrder, InOrder', NEW n \in FactIds, NEW t \in Times, ClosedBounded(n, t)
  PROVE  Timeline!Follows(told, told')
<1>1. /\ n \in Ledger /\ facts[n].from <= t /\ facts[n].until = Never /\ facts[n].by = 0
      /\ Inside(n, t) = {} /\ Ledger' = Ledger /\ affirmations' = affirmations
      /\ facts'[n].object = facts[n].object /\ facts'[n].from = facts[n].from
      /\ facts'[n].until = t /\ facts'[n].by = 0 /\ facts[n].from \in Nat
      /\ \A j \in Ledger : j # n => facts'[j] = facts[j]
  BY Fields DEF ClosedBounded, InOrder
<1>2. n \in Covering(t) /\ \A u \in Times : u < Never
  BY <1>1, LedgerAssumption DEF Covering, Covers, LedgerAssumption
<1>3. \A j : \A v \in Times : Repeated(j, v)' <=> Repeated(j, v)
  BY <1>1 DEF Repeated
<1>4. ASSUME NEW u \in Times, t < u
      PROVE  told'[u] = told[u]
  <2>1. n \notin Stating(u) /\ n \notin Stating(u)'
    <3>1. ~Repeated(n, u)
      BY <1>1, <1>2, <1>4, RepeatsNow
    <3>2. facts[n].from # u /\ ~(u < facts'[n].until)
      BY <1>1, <1>4
    <3> QED BY <3>1, <3>2, RepeatsNow DEF Stating, Covering, Covers
  <2>2. ASSUME NEW j \in Ledger, j # n
        PROVE  j \in Stating(u)' <=> j \in Stating(u)
    BY <1>1, <1>3, <2>2, RepeatsNow, RepeatsThen DEF Stating, Covering, Covers
  <2>3. Stating(u)' = Stating(u)
    BY <1>1, <2>1, <2>2 DEF Stating, Covering
  <2>4. Over(u)' <=> Over(u)
    <3>1. facts[n].until # u /\ facts'[n].until # u
      BY <1>1, <1>2, <1>4
    <3> QED BY <1>1, <3>1 DEF Over
  <2>5. ASSUME NEW j \in Stating(u)
        PROVE  facts'[j].object = facts[j].object /\ EndOf(j, u)' = EndOf(j, u)
    <3>1. facts'[j] = facts[j]
      BY <1>1, <2>1 DEF Stating, Covering
    <3> QED BY <1>1, <3>1 DEF EndOf, Inside
  <2> QED BY <2>3, <2>4, <2>5, SameDay
<1> QED BY <1>1, <1>2, <1>3, <1>4, ClosingFollows

LEMMA CloseResumingFollows ==
  ASSUME InOrder, InOrder', NEW n \in FactIds, NEW t \in Times, NEW r \in FactIds,
         NEW a \in affirmations, ClosedResuming(n, t, r, a)
  PROVE  Timeline!Follows(told, told')
<1> DEFINE s == a.from
<1>1. /\ n \in Ledger /\ facts[n].from <= t /\ facts[n].until = Never /\ facts[n].by = 0
      /\ IsFirst(a, n, t) /\ r \notin Ledger /\ Ledger' = Ledger \cup {r}
      /\ affirmations' = Moved(n, t, r)
      /\ facts'[n].object = facts[n].object /\ facts'[n].from = facts[n].from
      /\ facts'[n].until = t /\ facts'[n].by = 0
      /\ facts'[r].object = facts[n].object /\ facts'[r].from = s
      /\ facts'[r].until = Never /\ facts'[r].by = 0
      /\ \A j \in Ledger : j # n => facts'[j] = facts[j]
  BY Fields DEF ClosedResuming, InOrder, Ledger
<1>2. n \in Covering(t) /\ t \in Nat
  BY <1>1, LedgerAssumption DEF Covering, Covers, LedgerAssumption
<1>3. ResumesAs(n, t, r, s)
  BY <1>1, MovedResumes
<1>4. s \in Times /\ t < s
  BY <1>3 DEF ResumesAs
<1> HIDE DEF s
<1>5. \A u \in Times : t < u => told'[u] = told[u]
  <2>1. Ledger' = Ledger \cup {r, r}
    BY <1>1
  <2> QED BY <1>1, <1>2, <1>3, <2>1, LaterDays
<1>6. ASSUME NEW v \in Times, NEW j \in Ledger', (j # n /\ j \in Ledger) \/ v <= t
      PROVE  Repeated(j, v)' <=> Repeated(j, v)
  <2>1. CASE j \in Ledger
    BY <1>2, <1>3, <1>6, <2>1 DEF ResumesAs
  <2>2. CASE j = r
    <3>1. ~Repeated(r, v)
      BY <1>1, RepeatsNow
    <3>2. ~(s < v)
      BY <1>1, <1>2, <1>4, <1>6, <2>2
    <3> QED BY <1>3, <2>2, <3>1, <3>2 DEF ResumesAs
  <2> QED BY <1>1, <2>1, <2>2
<1>7. \A j \in Ledger' \ Ledger : t < facts'[j].from
  BY <1>1, <1>4
<1> QED BY ZenonT(60), <1>1, <1>2, <1>5, <1>6, <1>7, ClosingFollows

\* An end that a person takes back.
LEMMA ReopenFollows ==
  ASSUME InOrder, InOrder', NEW n \in FactIds, Reopened(n)
  PROVE  Timeline!Follows(told, told')
<1>0. PICK e \in Times : e = facts[n].until
  BY Fields DEF Reopened, InOrder
<1>1. /\ n \in Ledger /\ facts[n].by = 0 /\ e # Never /\ Ledger' = Ledger
      /\ affirmations' = affirmations
      /\ facts'[n].object = facts[n].object /\ facts'[n].from = facts[n].from
      /\ facts'[n].until = Never /\ facts'[n].by = 0
      /\ \A j \in Ledger : j # n => facts'[j] = facts[j] /\ ~(facts[j].from >= e)
      /\ \A j \in Ledger : facts'[j].object = facts[j].object /\ facts'[j].from = facts[j].from
  BY <1>0, Fields DEF Reopened, InOrder
<1>2. /\ \A j \in Ledger : /\ facts[j].from \in Nat /\ facts[j].until \in Nat
                           /\ facts[j].from \in Times /\ facts[j].from <= facts[j].until
      /\ e \in Times /\ e \in Nat /\ e < Never
      /\ \A u \in Times : u \in Nat /\ u < Never
  BY <1>0, <1>1, Fields, LedgerAssumption DEF InOrder, LedgerAssumption
<1>3. told' = [u \in Times |-> told'[u]]
  BY DEF told
<1>4. ASSUME NEW u \in Times, e <= u
      PROVE  Stating(u) = {} /\ (Over(u) => u = e /\ facts[n].from = e)
  <2>1. ASSUME NEW j \in Covering(u) PROVE FALSE
    <3>1. j \in Ledger /\ facts[j].from <= u /\ u < facts[j].until
      BY DEF Covering, Covers
    <3>2. j # n
      BY <1>0, <1>2, <1>4, <3>1
    <3>3. facts[j].from < e
      <4>1. facts[j].from \in Nat /\ e \in Nat /\ ~(facts[j].from >= e)
        BY <1>1, <1>2, <3>1, <3>2
      <4> QED BY ONLY <4>1
    <3>4. Apart(n, j) /\ Apart(j, n)
      BY <1>1, <3>1, <3>2 DEF InOrder, Inv, Ordered
    <3> QED BY <1>0, <1>1, <1>2, <1>4, <3>1, <3>3, <3>4 DEF Apart
  <2>2. Over(u) => u = e /\ facts[n].from = e
    BY <1>0, <1>1, <1>2, <1>4 DEF Over
  <2> QED BY <2>1, <2>2 DEF Stating
<1>5. \A u \in Times : e <= u /\ told[u] # NoObject => u = e /\ facts[n].from = e
  BY <1>4, ClaimIsSaid DEF Mentioned
<1>6. \A j : \A v \in Times : Repeated(j, v)' <=> Repeated(j, v)
  BY <1>1 DEF Repeated
<1>7. \A j \in Ledger : \A u \in Times : States(j, u)' <=> States(j, u)
  BY <1>1, <1>6, RepeatsNow, RepeatsThen
<1>8. \A u \in Times : EndOf(n, u)' = Never
  BY <1>1 DEF EndOf
<1>9. ASSUME NEW u \in Times, n \in Stating(u)'
      PROVE  told'[u] = [object |-> facts[n].object, end |-> Never]
  BY <1>1, <1>8, <1>9, ClaimsThen
<1>10. ASSUME NEW u \in Times, n \notin Stating(u)', n \notin Stating(u), u # e
       PROVE  told'[u] = told[u]
  <2>1. Stating(u)' = Stating(u)
    <3>1. \A j \in Ledger : j # n => (j \in Stating(u)' <=> j \in Stating(u))
      BY <1>1, <1>7 DEF Stating, Covering, Covers
    <3> QED BY <1>1, <1>10, <3>1 DEF Stating, Covering
  <2>2. Over(u)' <=> Over(u)
    BY <1>0, <1>1, <1>2, <1>10 DEF Over
  <2>3. ASSUME NEW j \in Stating(u)
        PROVE  facts'[j].object = facts[j].object /\ EndOf(j, u)' = EndOf(j, u)
    <3>1. facts'[j] = facts[j]
      BY <1>1, <1>10 DEF Stating, Covering
    <3> QED BY <1>1, <3>1 DEF EndOf, Inside
  <2> QED BY <2>1, <2>2, <2>3, SameDay
<1>11. \A a \in affirmations : a.fact = n => facts[n].from < a.from /\ a.from <= e
  BY <1>0, <1>1 DEF InOrder, SlotInv, RepeatsAreInside
<1>12. \A u \in Times : Repeated(n, u) => facts[n].from < u /\ u <= e
  BY <1>11 DEF Repeated
<1>13. CASE facts[n].from = e
  <2>1. told[e] = [object |-> NoObject, end |-> e]
    <3>1. Over(e)
      BY <1>0, <1>1, <1>13 DEF Over
    <3> QED BY <1>2, <1>4, <3>1, ClaimsNow
  <2>2. told'[e] = [object |-> facts[n].object, end |-> Never]
    <3>1. n \in Stating(e)'
      BY <1>1, <1>2, <1>13 DEF Stating, Covering, Covers, States
    <3> QED BY <1>2, <1>9, <3>1
  <2>3. ASSUME NEW u \in Times, u # e PROVE told'[u] = told[u]
    <3>1. ~States(n, u) /\ ~States(n, u)'
      BY <1>1, <1>2, <1>7, <1>12, <1>13, <2>3, RepeatsNow
    <3> QED BY <1>10, <2>3, <3>1 DEF Stating
  <2>4. facts[n].object \in Objects
    BY <1>1 DEF InOrder, SlotInv, FactsAreNamed, Ledger
  <2>5. told' = Timeline!With(told, e, Timeline!Said(facts[n].object, Never))
    BY <1>2, <1>3, <2>2, <2>3 DEF Timeline!With, Timeline!Said
  <2>6. told[e] # NoObject /\ told[e].end = e
    BY <1>1, <1>2, <1>13, <2>1, BeginningMentioned, ClaimIsSaid
  <2>7. ~\E u \in Times : u >= e /\ u # e /\ told[u] # NoObject
    BY <1>2, <1>5
  <2>8. told' \in Timeline!Reopenings(told, e)
    BY <2>4, <2>5, <2>6, <2>7 DEF Timeline!Reopenings
  <2> QED BY <1>1, <1>2, <2>6, <2>8 DEF Timeline!Follows
<1>14. CASE facts[n].from # e
  <2> DEFINE p == e - 1
  <2>1. /\ facts[n].from < e /\ p \in Times /\ p \in Nat /\ p < e /\ n \in Covering(p)
    <3>1. facts[n].from < e /\ facts[n].from \in Times
      BY <1>0, <1>1, <1>2, <1>14
    <3>2. p \in Times /\ p \in Nat /\ p < e /\ facts[n].from <= p
      BY <1>2, <3>1, LedgerAssumption DEF LedgerAssumption
    <3> QED BY <1>0, <1>1, <3>1, <3>2 DEF Covering, Covers
  <2>2. \A u \in Times : u < e => u <= p
    BY <1>2
  <2>3. PICK h \in Times : LastMention(p) = {h} /\ Stating(h) = {n} /\ n \in Covering(h)
    BY <2>1, LastWhileHeld
  <2> HIDE DEF p
  <2>4. h \in LastMention(p) /\ h \in Nat /\ h <= p /\ h < e
    BY <2>1, <2>3 DEF LastMention
  <2>5. told[h] = [object |-> facts[n].object, end |-> e]
    <3>1. told[h] = [object |-> facts[n].object, end |-> EndOf(n, h)]
      BY <2>3, ClaimsNow
    <3>2. \A v \in Times : h < v /\ Repeated(n, v) => p < v
      BY <2>1, <2>4, NoneBetween DEF Repeated
    <3>3. Inside(n, h) = {}
      BY <1>0, <1>2, <2>2, <2>4, <2>1, <3>2, RepeatsNow
    <3> QED BY <1>0, <1>1, <3>1, <3>3 DEF EndOf
  <2>6. told'[h] = [object |-> facts[n].object, end |-> Never]
    <3>1. n \in Stating(h)'
      <4>1. States(n, h) /\ facts[n].from <= h
        BY <2>3 DEF Stating, Covering, Covers
      <4> QED BY <1>1, <1>2, <1>7, <4>1 DEF Stating, Covering, Covers
    <3> QED BY <1>9, <3>1
  <2>7. ASSUME NEW u \in Times, u # e, u # h
        PROVE  told'[u] = told[u]
    <3>1. CASE States(n, u)
      <4>1. facts[n].from <= u /\ u < e
        BY <1>1, <1>2, <1>12, <2>1, <2>7, <3>1, RepeatsNow
      <4>2. n \in Stating(u) /\ n \in Stating(u)'
        BY <1>0, <1>1, <1>2, <1>7, <3>1, <4>1 DEF Stating, Covering, Covers
      <4>3. EndOf(n, u) = Never
        BY <2>1, <2>2, <2>3, <2>4, <2>7, <4>1, <4>2, EndlessBefore
      <4>4. told[u] = [object |-> facts[n].object, end |-> Never]
        BY <4>2, <4>3, ClaimsNow
      <4> QED BY <1>9, <4>2, <4>4
    <3>2. CASE ~States(n, u)
      BY <1>1, <1>7, <1>10, <2>7, <3>2 DEF Stating
    <3> QED BY <3>1, <3>2
  <2>8. told[e] = NoObject
    BY <1>2, <1>5, <1>14
  <2>9. CASE Repeated(n, e)
    <3>1. told'[e] = [object |-> facts[n].object, end |-> Never]
      <4>1. States(n, e)'
        BY <1>2, <1>6, <2>9, RepeatsThen
      <4>2. n \in Stating(e)'
        BY <1>1, <1>2, <2>1, <4>1 DEF Stating, Covering, Covers
      <4> QED BY <1>2, <1>9, <4>2
    <3> DEFINE again == Timeline!Said(facts[n].object, Never)
    <3>2. again = [object |-> facts[n].object, end |-> Never]
      BY DEF Timeline!Said
    <3> HIDE DEF again
    <3>3. told' = Timeline!With(Timeline!With(told, h, again), e, again)
      BY <1>2, <1>3, <2>4, <2>6, <2>7, <3>1, <3>2 DEF Timeline!With
    <3>4. told' \in Timeline!Reopenings(told, h)
      <4>1. ~\E u \in Times : u >= e /\ u # h /\ told[u] # NoObject
        BY <1>2, <1>5, <1>14
      <4>2. told[h].end = e /\ told[h].object = facts[n].object /\ e # h
        BY <2>4, <2>5
      <4> QED BY <3>3, <4>1, <4>2 DEF Timeline!Reopenings, again
    <3>5. told[h] # NoObject /\ told[h].end # Never
      <4>1. Mentioned(h)
        BY <2>4 DEF LastMention
      <4> QED BY <1>1, <2>5, <4>1, ClaimIsSaid
    <3> QED BY <3>4, <3>5 DEF Timeline!Follows
  <2>10. CASE ~Repeated(n, e)
    <3>1. told'[e] = told[e]
      <4>1. n \notin Stating(e)'
        BY <1>1, <1>2, <1>6, <1>14, <2>10, RepeatsThen DEF Stating
      <4>2. Stating(e)' = Stating(e)
        <5>1. \A j \in Ledger : j # n => (j \in Stating(e)' <=> j \in Stating(e))
          BY <1>1, <1>2, <1>7 DEF Stating, Covering, Covers
        <5>2. Stating(e) = {}
          BY <1>2, <1>4
        <5> QED BY <1>1, <4>1, <5>1, <5>2 DEF Stating, Covering
      <4>3. Over(e)' <=> Over(e)
        BY <1>1, <1>2, <1>14 DEF Over
      <4> QED BY <1>2, <1>4, <4>2, <4>3, SameDay
    <3> DEFINE again == Timeline!Said(facts[n].object, Never)
    <3>2. again = [object |-> facts[n].object, end |-> Never]
      BY DEF Timeline!Said
    <3> HIDE DEF again
    <3>3. told' = Timeline!With(told, h, again)
      BY <1>2, <1>3, <2>4, <2>6, <2>7, <3>1, <3>2 DEF Timeline!With
    <3>4. told' \in Timeline!Reopenings(told, h)
      <4>1. ~\E u \in Times : u >= e /\ u # h /\ told[u] # NoObject
        BY <1>2, <1>5, <1>14
      <4>2. told[h].end = e /\ told[h].object = facts[n].object /\ e # h
        BY <2>4, <2>5
      <4> QED BY <3>3, <4>1, <4>2 DEF Timeline!Reopenings, again
    <3>5. told[h] # NoObject /\ told[h].end # Never
      <4>1. Mentioned(h)
        BY <2>4 DEF LastMention
      <4> QED BY <1>1, <2>5, <4>1, ClaimIsSaid
    <3> QED BY <3>4, <3>5 DEF Timeline!Follows
  <2> QED BY <2>9, <2>10
<1> QED BY <1>13, <1>14

\* What leaves the ledger alone says nothing.
LEMMA LeavesFollows ==
  ASSUME InOrder, InOrder', LeavesLedger
  PROVE  told' = told
<1>1. /\ Ledger' = Ledger /\ affirmations' = affirmations
      /\ \A j \in Ledger : facts'[j] = facts[j]
  BY DEF LeavesLedger
<1>2. ASSUME NEW u \in Times PROVE told'[u] = told[u]
  <2>1. Stating(u)' = Stating(u) /\ (Over(u)' <=> Over(u))
    BY <1>1 DEF Stating, Covering, Covers, States, Over
  <2>2. \A j \in Stating(u) : facts'[j].object = facts[j].object /\ EndOf(j, u)' = EndOf(j, u)
    BY <1>1 DEF Stating, Covering, EndOf, Inside
  <2> QED BY <2>1, <2>2, SameDay
<1> QED BY <1>2 DEF told

LEMMA MovesFollow ==
  ASSUME InOrder, InOrder', Moves
  PROVE  told' = told \/ Timeline!Follows(told, told')
<1>1. ASSUME NEW o \in Objects, NEW t \in Times, Affirms(o, t)
      PROVE  told' = told \/ Timeline!Follows(told, told')
  BY <1>1, AffirmsFollows
<1>2. ASSUME NEW f \in FactType, NEW n \in FactIds, NEW by \in 0..MaxFacts,
             PlacesBounded(f, n, by)
      PROVE  Timeline!Follows(told, told')
  BY <1>2, BoundedFollows
<1>3. ASSUME NEW f \in FactType, NEW n \in FactIds, NEW r \in FactIds, NEW k \in Ledger,
             NEW a \in affirmations, PlacesResuming(f, n, r, k, a)
      PROVE  Timeline!Follows(told, told')
  BY <1>3, ResumingFollows
<1>4. ASSUME NEW n \in FactIds, NEW t \in Times, ClosedBounded(n, t)
      PROVE  Timeline!Follows(told, told')
  BY <1>4, CloseBoundedFollows
<1>5. ASSUME NEW n \in FactIds, NEW t \in Times, NEW r \in FactIds, NEW a \in affirmations,
             ClosedResuming(n, t, r, a)
      PROVE  Timeline!Follows(told, told')
  BY <1>5, CloseResumingFollows
<1>6. ASSUME NEW n \in FactIds, Reopened(n)
      PROVE  Timeline!Follows(told, told')
  BY <1>6, ReopenFollows
<1>7. CASE LeavesLedger
  BY <1>7, LeavesFollows
<1> QED BY <1>1, <1>2, <1>3, <1>4, <1>5, <1>6, <1>7 DEF Moves

\* The ledger of a slot implements the timeline: whatever people tell, approve, restate,
\* close and reopen, what its facts and restatements say changes as the timeline does,
\* until a reopening or a torn placement frays it.
THEOREM LedgerFollows == Spec => FollowsTimeline
<1>1. LedgerAssumption
  BY LedgerAssumption
<1>2. Init => Timeline!Init
  <2> SUFFICES ASSUME Init PROVE Timeline!Init
    OBVIOUS
  <2>1. Ledger = {}
    BY DEF Init, Ledger, Stored
  <2>2. \A t \in Times : ClaimOn(t) = NoObject
    BY <2>1 DEF ClaimOn, Covering
  <2> QED BY <2>2 DEF Init, Timeline!Init
<1>3. Inv /\ SlotInv /\ Inv' /\ SlotInv' /\ [Next]_vars => [Timeline!Next]_(Timeline!timeline)
  <2> SUFFICES ASSUME Inv, SlotInv, Inv', SlotInv', [Next]_vars
               PROVE  Timeline!Next \/ UNCHANGED Timeline!timeline
    OBVIOUS
  <2>1. CASE Next
    <3>1. CASE frayed'
      BY <3>1 DEF Timeline!Next
    <3>2. CASE ~frayed'
      <4>1. Moves
        BY <1>1, <2>1, <3>2, NextMoves DEF TornResumption
      <4>2. frayed' = frayed /\ frayed \in BOOLEAN
        BY <3>2, <4>1 DEF Moves, Affirms, PlacesBounded, PlacesResuming, ClosedBounded,
           ClosedResuming, Reopened, LeavesLedger, Inv, TypeOK
      <4>3. InOrder /\ InOrder'
        BY <3>2, <4>2 DEF InOrder
      <4>4. told' = told \/ Timeline!Follows(told, told')
        BY <4>1, <4>3, MovesFollow
      <4>5. told = [t \in Times |-> ClaimOn(t)]
        BY DEF told
      <4> QED BY <4>2, <4>4, <4>5 DEF Timeline!Next, told
    <3> QED BY <3>1, <3>2
  <2>2. CASE UNCHANGED vars
    <3>1. \A t \in Times : ClaimOn(t)' = ClaimOn(t)
      BY <2>2 DEF vars, ClaimOn, Covering, Covers, Ledger, Stored, States, EndOf, Inside
    <3> QED BY <2>2, <3>1 DEF vars, Timeline!timeline
  <2> QED BY <2>1, <2>2
<1> QED BY <1>2, <1>3, InvHolds, SlotInvHolds, PTL DEF Spec, FollowsTimeline, Timeline!Spec
=============================================================================
