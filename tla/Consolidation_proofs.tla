------------------------ MODULE Consolidation_proofs -------------------------
(***************************************************************************)
(* Consolidation keeps its types, and the failures of an episode stay        *)
(* within the attempts allowed and one more for every other pass.  A pass   *)
(* looks at the count before it awaits the model and adds to it afterwards, *)
(* so the count alone is not inductive: Booked counts the passes that are   *)
(* at the episode, each of which may still add one.                         *)
(***************************************************************************)
EXTENDS Consolidation, FiniteSetTheorems, TLAPS

\* The passes that are at an episode.
At(e) == {p \in Passes : pass[p].pc \in {"model", "apply"} /\ pass[p].at = e}

Booked ==
  \A e \in Episodes :
    failures[e] + Cardinality(At(e)) < MaxAttempts + Cardinality(Passes)

IInv == TypeOK /\ Booked

PassType == [pc : {"idle", "model", "apply", "report", "ended"}, at : Episodes \cup {0},
             queue : SUBSET Episodes, sent : 0..Limit, claims : 0..MaxClaims]

\* The part of TypeOK about the passes.
PassOK ==
  /\ pass \in [Passes -> PassType]
  /\ \A p \in Passes : pass[p].pc \in {"model", "apply"} => pass[p].at \in Episodes

ItemsOK ==
  /\ items = [r \in Requests |-> items[r]]
  /\ \A r \in Requests : items[r] \in [Batch[r] -> ItemType]

-----------------------------------------------------------------------------
(* What the pieces of a pass do.                                            *)

\* A pass that goes on, or ends, keeps its types (Turn).
LEMMA TurnType ==
  ASSUME PassOK, NEW p \in Passes, NEW queue \in SUBSET Episodes, NEW sent \in 0..Limit,
         NEW parked, Turn(p, queue, sent, parked)
  PROVE  PassOK'
<1> USE ConsolidationAssumption
<1>1. Reporting \in PassType
  BY DEF Reporting, Resting, PassType
<1>2. CASE pass' = [pass EXCEPT ![p] = Reporting]
  BY <1>1, <1>2 DEF PassOK, Reporting, Resting
<1>3. ASSUME NEW e \in Taken(queue, sent, parked),
             pass' = [pass EXCEPT ![p] = [pc |-> "model", at |-> e,
               queue |-> {i \in queue : i > e}, sent |-> sent + 1, claims |-> 0]]
      PROVE  PassOK'
  <2>1. sent < Limit /\ e \in queue
    BY <1>3 DEF Taken
  <2> DEFINE new == [pc |-> "model", at |-> e, queue |-> {i \in queue : i > e},
                     sent |-> sent + 1, claims |-> 0]
  <2>2. sent + 1 \in 0..Limit /\ 0 \in 0..MaxClaims
    BY <2>1
  <2>3. e \in Episodes /\ {i \in queue : i > e} \in SUBSET Episodes
    BY <2>1
  <2>4. new \in PassType
    BY <2>2, <2>3 DEF PassType
  <2> QED
    BY <1>3, <2>3, <2>4 DEF PassOK
<1> QED
  BY <1>2, <1>3 DEF Turn

\* The passes at an episode once a pass went on or ended: it is at none it was at
\* before, and at a new one only if that is not parked.
LEMMA TurnAt ==
  ASSUME PassOK, NEW p \in Passes, NEW queue \in SUBSET Episodes, NEW sent, NEW parked,
         Turn(p, queue, sent, parked), NEW e \in Episodes
  PROVE  At(e)' \subseteq At(e) \ {p} \/ e \notin parked
<1>1. CASE pass' = [pass EXCEPT ![p] = Reporting]
  BY <1>1 DEF At, PassOK, Reporting, Resting
<1>2. ASSUME NEW t \in Taken(queue, sent, parked),
             pass' = [pass EXCEPT ![p] = [pc |-> "model", at |-> t,
               queue |-> {i \in queue : i > t}, sent |-> sent + 1, claims |-> 0]]
      PROVE  At(e)' \subseteq At(e) \ {p} \/ e \notin parked
  <2>1. t \notin parked
    BY DEF Taken
  <2>2. CASE t = e
    BY <2>1, <2>2
  <2>3. CASE t # e
    <3>1. pass'[p].at = t
      BY <1>2 DEF PassOK
    <3>2. \A q \in Passes \ {p} : pass'[q] = pass[q]
      BY <1>2 DEF PassOK
    <3> QED
      BY <2>3, <3>1, <3>2 DEF At
  <2> QED
    BY <2>2, <2>3
<1> QED
  BY <1>1, <1>2 DEF Turn

\* The passes at an episode are finitely many, and no more than there are.
LEMMA AtBounds ==
  ASSUME NEW S \in SUBSET Passes
  PROVE  IsFiniteSet(S) /\ Cardinality(S) \in Nat /\ Cardinality(S) <= Cardinality(Passes)
BY FS_Subset, FS_CardinalityType, ConsolidationAssumption

\* When a step of a pass ends its stay at an episode, and counts a failure there or
\* none, the episode's booking does not grow; a new stay is at one not parked.
LEMMA TurnBooked ==
  ASSUME TypeOK, Booked, NEW p \in Passes, NEW queue \in SUBSET Episodes, NEW sent,
         Turn(p, queue, sent, {e \in Episodes : failures'[e] >= MaxAttempts}),
         failures' \in [Episodes -> Nat],
         \A e \in Episodes : \/ failures'[e] <= failures[e]
                             \/ p \in At(e) /\ failures'[e] = failures[e] + 1
  PROVE  Booked'
<1> USE ConsolidationAssumption
<1>1. PassOK /\ failures \in [Episodes -> Nat]
  BY DEF TypeOK, PassOK, PassType
<1>2. SUFFICES ASSUME NEW e \in Episodes
               PROVE  failures'[e] + Cardinality(At(e)') < MaxAttempts + Cardinality(Passes)
  BY DEF Booked
<1> DEFINE parked == {i \in Episodes : failures'[i] >= MaxAttempts}
<1>3. At(e)' \subseteq At(e) \ {p} \/ e \notin parked
  BY <1>1, TurnAt
<1>4. /\ At(e)' \subseteq Passes /\ At(e) \subseteq Passes
  BY DEF At
<1>5. /\ Cardinality(At(e)') \in Nat /\ Cardinality(At(e)') <= Cardinality(Passes)
      /\ IsFiniteSet(At(e)) /\ Cardinality(At(e)) \in Nat
      /\ Cardinality(Passes) \in Nat
  BY <1>4, AtBounds, FS_CardinalityType
<1>6. CASE e \notin parked
  <2>1. failures'[e] < MaxAttempts /\ failures'[e] \in Nat
    BY <1>6
  <2> HIDE DEF parked
  <2> QED
    BY <1>5, <2>1
<1>7. CASE At(e)' \subseteq At(e) \ {p}
  <2>1. failures[e] + Cardinality(At(e)) < MaxAttempts + Cardinality(Passes)
    BY DEF Booked
  <2>2. Cardinality(At(e)') <= Cardinality(At(e))
    BY <1>5, <1>7, FS_Subset
  <2>3. failures[e] \in Nat /\ failures'[e] \in Nat
    BY <1>1
  <2>4. CASE failures'[e] <= failures[e]
    BY <1>5, <2>1, <2>2, <2>3, <2>4
  <2>5. CASE p \in At(e) /\ failures'[e] = failures[e] + 1
    <3>1. /\ IsFiniteSet(At(e) \ {p})
          /\ Cardinality(At(e) \ {p}) = Cardinality(At(e)) - 1
      BY <1>5, <2>5, FS_RemoveElement
    <3>2. Cardinality(At(e)') <= Cardinality(At(e) \ {p})
      BY <1>7, <3>1, FS_Subset
    <3> QED
      BY <1>5, <2>1, <2>3, <2>5, <3>1, <3>2
  <2> QED
    BY <2>4, <2>5
<1> QED
  BY <1>3, <1>6, <1>7

\* A step that leaves the failures and the passes' places alone, or ends stays and
\* takes failures back, keeps the bookings.
LEMMA StayBooked ==
  ASSUME TypeOK, Booked, failures' \in [Episodes -> Nat],
         \A e \in Episodes : failures'[e] <= failures[e] /\ At(e)' \subseteq At(e)
  PROVE  Booked'
<1>1. SUFFICES ASSUME NEW e \in Episodes
               PROVE  failures'[e] + Cardinality(At(e)') < MaxAttempts + Cardinality(Passes)
  BY DEF Booked
<1>2. IsFiniteSet(At(e)) /\ Cardinality(At(e)) \in Nat /\ Cardinality(Passes) \in Nat
  BY AtBounds, FS_CardinalityType, ConsolidationAssumption DEF At
<1>3. Cardinality(At(e)') \in Nat /\ Cardinality(At(e)') <= Cardinality(At(e))
  BY <1>2, FS_Subset, FS_CardinalityType
<1>4. failures[e] + Cardinality(At(e)) < MaxAttempts + Cardinality(Passes)
  BY DEF Booked
<1>5. failures[e] \in Nat /\ failures'[e] \in Nat /\ failures'[e] <= failures[e]
  BY DEF TypeOK
<1> QED
  BY <1>2, <1>3, <1>4, <1>5, ConsolidationAssumption

-----------------------------------------------------------------------------
(* What the receipts are written with.                                      *)

LEMMA MarksType ==
  ASSUME ItemsOK, NEW e \in Episodes, MarkFailed(e) \/ MarkConsolidated(e)
  PROVE  ItemsOK'
<1>1. SUFFICES ASSUME NEW r \in Requests, NEW i \in Batch[r] PROVE items'[r][i] \in ItemType
  <2>1. /\ items' = [r \in Requests |-> items'[r]]
        /\ \A r \in Requests : items'[r] = [i \in Batch[r] |-> items'[r][i]]
    BY DEF MarkFailed, MarkConsolidated
  <2> QED
    BY <1>1, <2>1 DEF ItemsOK
<1>2. items[r][i] \in ItemType
  BY DEF ItemsOK
<1>3. \/ items'[r][i] = items[r][i]
      \/ items'[r][i] = [state |-> "failed", attempts |-> items[r][i].attempts + 1]
      \/ items'[r][i] = [items[r][i] EXCEPT !.state = "consolidated"]
  BY DEF MarkFailed, MarkConsolidated
<1> QED
  BY <1>2, <1>3 DEF ItemType

LEMMA AbandonedType ==
  ASSUME NEW S, NEW kept \in [S -> ItemType]
  PROVE  Abandoned(kept) \in [S -> ItemType]
BY DEF Abandoned, ItemType

LEMMA UnreadType == Unread \in ItemType
BY DEF Unread, ItemType

-----------------------------------------------------------------------------
(* The inductive invariant.                                                 *)

LEMMA InitIInv == Init => IInv
<1> SUFFICES ASSUME Init PROVE IInv
  OBVIOUS
<1> USE ConsolidationAssumption
<1>1. TypeOK
  BY UnreadType DEF Init, TypeOK, Resting, NoCall
<1>2. \A e \in Episodes : At(e) = {}
  BY DEF Init, At, Resting
<1>3. Booked
  <2>1. Cardinality({}) = 0 /\ Cardinality(Passes) \in Nat
    BY FS_EmptySet, FS_CardinalityType
  <2>2. \A e \in Episodes : failures[e] = 0
    BY DEF Init
  <2>3. 0 < MaxAttempts /\ MaxAttempts \in Nat
    OBVIOUS
  <2>4. 0 + 0 < MaxAttempts + Cardinality(Passes)
    BY ONLY <2>1, <2>3
  <2> QED
    BY <1>2, <2>1, <2>2, <2>4 DEF Booked
<1> QED
  BY <1>1, <1>3 DEF IInv

\* The steps of submissions, receipts and the console.
LEMMA ReceiptSteps ==
  ASSUME TypeOK,
         \/ \E c \in Clients : Land(c) \/ Receipt(c) \/ \E r \in Requests : Submit(c, r)
         \/ \E r \in Requests : Cancel(r) \/ ConsoleReads(r)
         \/ ConsoleWrites
  PROVE  TypeOK' /\ UNCHANGED <<failures, pass>>
<1> USE ConsolidationAssumption
<1>1. ASSUME NEW c \in Clients, Land(c) PROVE TypeOK' /\ UNCHANGED <<failures, pass>>
  <2>1. submission[c] \in [pc : {"embed", "receipt"}, request : Requests]
    BY <1>1 DEF TypeOK, Land, NoCall
  <2>2. Batch[submission[c].request] \subseteq Episodes
    BY <2>1
  <2> QED
    BY <1>1, <2>1, <2>2 DEF TypeOK, Land, receipts, memory
<1>2. ASSUME NEW c \in Clients, Receipt(c) PROVE TypeOK' /\ UNCHANGED <<failures, pass>>
  <2>1. submission[c].request \in Requests
    BY <1>2 DEF TypeOK, Receipt, NoCall
  <2>2. submission' \in [Clients -> {NoCall} \cup [pc : {"embed", "receipt"}, request : Requests]]
    BY <1>2 DEF TypeOK, Receipt
  <2>3. /\ job' \in [Requests -> {"none", "open", "cancelled"}]
        /\ items' = [r \in Requests |-> items'[r]]
        /\ \A r \in Requests : items'[r] \in [Batch[r] -> ItemType]
    <3> DEFINE r == submission[c].request
    <3>1. \/ UNCHANGED <<job, items>>
          \/ /\ job' = [job EXCEPT ![r] = "open"]
             /\ items' = [items EXCEPT ![r] = [e \in Batch[r] |-> Unread]]
      BY <1>2 DEF Receipt, receipts
    <3>2. /\ job \in [Requests -> {"none", "open", "cancelled"}]
          /\ items = [q \in Requests |-> items[q]]
          /\ \A q \in Requests : items[q] \in [Batch[q] -> ItemType]
      BY DEF TypeOK
    <3>3. [e \in Batch[r] |-> Unread] \in [Batch[r] -> ItemType]
      BY UnreadType
    <3> HIDE DEF r
    <3> QED
      BY <2>1, <3>1, <3>2, <3>3 DEF r
  <2> QED
    BY <1>2, <2>2, <2>3 DEF TypeOK, Receipt, memory
<1>3. ASSUME NEW c \in Clients, NEW r \in Requests, Submit(c, r)
      PROVE  TypeOK' /\ UNCHANGED <<failures, pass>>
  BY <1>3 DEF TypeOK, Submit, Fault, receipts, memory
<1>4. ASSUME NEW r \in Requests, Cancel(r) PROVE TypeOK' /\ UNCHANGED <<failures, pass>>
  BY <1>4, AbandonedType DEF TypeOK, Cancel, memory
<1>5. ASSUME NEW r \in Requests, ConsoleReads(r) PROVE TypeOK' /\ UNCHANGED <<failures, pass>>
  BY <1>5 DEF TypeOK, ConsoleReads, Fault, receipts, memory
<1>6. ASSUME ConsoleWrites PROVE TypeOK' /\ UNCHANGED <<failures, pass>>
  <2>1. PICK copy \in console :
          /\ job' = [job EXCEPT ![copy.request] = "cancelled"]
          /\ items' = [items EXCEPT ![copy.request] = Abandoned(copy.items)]
    BY <1>6 DEF ConsoleWrites
  <2>2. /\ copy.request \in Requests
        /\ Abandoned(copy.items) \in [Batch[copy.request] -> ItemType]
    BY AbandonedType DEF TypeOK
  <2>3. console' = {} /\ UNCHANGED <<stored, forgotten, cited, failures, done, pass, submission, faults>>
    BY <1>6 DEF ConsoleWrites, memory
  <2> QED
    BY <2>1, <2>2, <2>3 DEF TypeOK
<1> QED
  BY <1>1, <1>2, <1>3, <1>4, <1>5, <1>6

\* The steps of a pass.
LEMMA PassSteps ==
  ASSUME IInv, NEW p \in Passes, PassStep(p)
  PROVE  IInv'
<1> USE ConsolidationAssumption
<1>1. /\ TypeOK /\ Booked /\ PassOK /\ ItemsOK
      /\ pass[p] \in PassType /\ pass[p].queue \in SUBSET Episodes
      /\ pass[p].sent \in 0..Limit
      /\ pass[p].pc \in {"model", "apply"} => pass[p].at \in Episodes
  BY DEF IInv, TypeOK, PassOK, ItemsOK, PassType
<1>2. CASE Begin(p)
  <2>1. Pending \in SUBSET Episodes /\ 0 \in 0..Limit
    BY <1>1 DEF Pending, TypeOK
  <2>2. Turn(p, Pending, 0, {e \in Episodes : failures'[e] >= MaxAttempts}) /\ failures' = failures
    BY <1>2 DEF Begin, Parked, memory
  <2>3. PassOK'
    BY <1>1, <2>1, <2>2, TurnType
  <2>4. TypeOK'
    BY <1>1, <1>2, <2>3 DEF TypeOK, Begin, receipts, memory, PassOK, PassType
  <2>5. Booked'
    <3>1. failures' \in [Episodes -> Nat] /\ \A e \in Episodes : failures'[e] <= failures[e]
      BY <1>1, <2>2 DEF TypeOK
    <3> QED
      BY <1>1, <2>1, <2>2, <3>1, TurnBooked
  <2> QED
    BY <2>4, <2>5 DEF IInv
<1>3. CASE Claim(p)
  <2>1. TypeOK'
    <3>1. PassOK'
      <4>1. pass' = [pass EXCEPT ![p] = [pass[p] EXCEPT !.claims = @ - 1]]
        BY <1>3 DEF Claim
      <4>2. pass[p].claims - 1 \in 0..MaxClaims
        BY <1>1, <1>3 DEF Claim, PassType
      <4>3. [pass[p] EXCEPT !.claims = @ - 1] \in PassType
        BY <1>1, <4>2 DEF PassType
      <4> QED
        BY <1>1, <4>1, <4>3 DEF PassOK, PassType
    <3>2. cited' \subseteq Episodes
      BY <1>1, <1>3 DEF Claim, TypeOK
    <3> QED
      BY <1>1, <1>3, <3>1, <3>2 DEF TypeOK, Claim, receipts, memory, PassOK, PassType
  <2>2. \A e \in Episodes : At(e)' = At(e)
    BY <1>1, <1>3 DEF Claim, At, PassOK, PassType
  <2>3. Booked'
    BY <1>1, <1>3, <2>2 DEF Claim, memory, Booked
  <2> QED
    BY <2>1, <2>3 DEF IInv
<1>4. ASSUME NEW n \in 0..MaxClaims, Answer(p, n) PROVE IInv'
  <2>1. TypeOK'
    BY <1>1, <1>4 DEF TypeOK, Answer, receipts, memory, PassType
  <2>2. \A e \in Episodes : At(e)' = At(e)
    BY <1>1, <1>4 DEF Answer, At, PassOK, PassType
  <2>3. Booked'
    BY <1>1, <1>4, <2>2 DEF Answer, memory, Booked
  <2> QED
    BY <2>1, <2>3 DEF IInv
<1>5. CASE Fail(p)
  <2>1. pass[p].pc \in {"model", "apply"} /\ pass[p].at \in Episodes
    BY <1>1, <1>5 DEF Fail, Refused
  <2>2. /\ failures' \in [Episodes -> Nat]
        /\ \A e \in Episodes : \/ failures'[e] <= failures[e]
                               \/ p \in At(e) /\ failures'[e] = failures[e] + 1
    <3>1. /\ failures \in [Episodes -> Nat] /\ p \in At(pass[p].at)
          /\ failures' = [failures EXCEPT ![pass[p].at] = failures[pass[p].at] + 1]
      BY <1>1, <1>5, <2>1 DEF Fail, CountFailure, TypeOK, At
    <3> DEFINE at == pass[p].at
    <3>2. /\ failures' = [failures EXCEPT ![at] = failures[at] + 1]
          /\ at \in Episodes /\ p \in At(at)
      BY <2>1, <3>1
    <3> HIDE DEF at
    <3> QED
      BY <3>1, <3>2
  <2>3. PassOK'
    BY <1>1, <1>5, TurnType DEF Fail
  <2>4. ItemsOK'
    BY <1>1, <1>5, <2>1, MarksType DEF Fail
  <2>5. TypeOK'
    BY <1>1, <1>5, <2>2, <2>3, <2>4 DEF TypeOK, Fail, PassOK, PassType, ItemsOK
  <2>6. Booked'
    BY <1>1, <1>5, <2>2, TurnBooked DEF Fail
  <2> QED
    BY <2>5, <2>6 DEF IInv
<1>6. CASE Finish(p)
  <2>1. pass[p].at \in Episodes
    BY <1>1, <1>6 DEF Finish
  <2>2. /\ failures' \in [Episodes -> Nat]
        /\ \A e \in Episodes : failures'[e] <= failures[e]
    BY <1>1, <1>6, <2>1 DEF Finish, TypeOK
  <2>3. PassOK'
    BY <1>1, <1>6, TurnType DEF Finish
  <2>4. ItemsOK'
    BY <1>1, <1>6, <2>1, MarksType DEF Finish
  <2>5. TypeOK'
    BY <1>1, <1>6, <2>1, <2>2, <2>3, <2>4 DEF TypeOK, Finish, PassOK, PassType, ItemsOK
  <2>6. Booked'
    BY <1>1, <1>6, <2>2, TurnBooked DEF Finish
  <2> QED
    BY <2>5, <2>6 DEF IInv
<1>7. CASE Report(p)
  <2>1. TypeOK'
    BY <1>1, <1>7 DEF TypeOK, Report, Resting, receipts, memory
  <2>2. failures' = failures /\ \A e \in Episodes : At(e)' \subseteq At(e)
    BY <1>1, <1>7 DEF Report, Resting, memory, At, PassOK
  <2>3. Booked'
    BY <1>1, <2>2, StayBooked DEF TypeOK
  <2> QED
    BY <2>1, <2>3 DEF IInv
<1> QED
  BY <1>2, <1>3, <1>4, <1>5, <1>6, <1>7 DEF PassStep

\* The steps that put an end to passes or take failures back.
LEMMA EnvironmentSteps ==
  ASSUME IInv,
         \/ \E p \in Passes : TransportError(p) \/ ReportFails(p)
         \/ \E asked \in SUBSET Episodes : Retry(asked)
         \/ \E e \in Episodes : Remember(e) \/ Forget(e)
         \/ Crash
  PROVE  IInv'
<1> USE ConsolidationAssumption
<1>1. TypeOK /\ Booked /\ PassOK /\ faults \in 0..MaxFaults
  BY DEF IInv, TypeOK, PassOK, PassType
<1>2. SUFFICES /\ TypeOK' /\ failures' \in [Episodes -> Nat]
               /\ \A e \in Episodes : failures'[e] <= failures[e] /\ At(e)' \subseteq At(e)
  BY <1>1, StayBooked DEF IInv
<1>3. ASSUME NEW p \in Passes, TransportError(p) \/ ReportFails(p)
      PROVE  /\ TypeOK' /\ failures' \in [Episodes -> Nat]
             /\ \A e \in Episodes : failures'[e] <= failures[e] /\ At(e)' \subseteq At(e)
  <2>1. /\ failures' = failures
        /\ \A q \in Passes : pass'[q] \in {pass[q], Resting, Reporting, Ended}
    BY <1>1, <1>3 DEF TransportError, ReportFails, memory, PassOK
  <2>2. \A e \in Episodes : At(e)' \subseteq At(e)
    BY <2>1 DEF At, Resting, Reporting, Ended
  <2>3. TypeOK'
    <3>1. CASE TransportError(p)
      BY <1>1, <3>1 DEF TypeOK, TransportError, Fault, receipts, memory, Resting, Reporting
    <3>2. CASE ReportFails(p)
      BY <1>1, <3>2 DEF TypeOK, ReportFails, Fault, receipts, memory, Resting, Ended
    <3> QED
      BY <1>3, <3>1, <3>2
  <2> QED
    BY <1>1, <2>1, <2>2, <2>3 DEF TypeOK
<1>4. ASSUME NEW asked \in SUBSET Episodes, Retry(asked)
      PROVE  /\ TypeOK' /\ failures' \in [Episodes -> Nat]
             /\ \A e \in Episodes : failures'[e] <= failures[e] /\ At(e)' \subseteq At(e)
  <2>1. failures' \in [Episodes -> Nat] /\ \A e \in Episodes : failures'[e] <= failures[e]
    BY <1>1, <1>4 DEF TypeOK, Retry
  <2>2. TypeOK'
    BY <1>1, <1>4, <2>1 DEF TypeOK, Retry, Fault, receipts
  <2> QED
    BY <1>4, <2>1, <2>2 DEF Retry, At
<1>5. ASSUME NEW e \in Episodes, Remember(e) \/ Forget(e)
      PROVE  /\ TypeOK' /\ failures' \in [Episodes -> Nat]
             /\ \A i \in Episodes : failures'[i] <= failures[i] /\ At(i)' \subseteq At(i)
  <2>1. failures' = failures /\ pass' = pass
    BY <1>5 DEF Remember, Forget, memory
  <2>2. TypeOK'
    <3>1. CASE Remember(e)
      BY <1>1, <3>1 DEF TypeOK, Remember, receipts, memory
    <3>2. CASE Forget(e)
      BY <1>1, <3>2 DEF TypeOK, Forget, Fault, receipts, memory
    <3> QED
      BY <1>5, <3>1, <3>2
  <2> QED
    BY <1>1, <2>1, <2>2 DEF TypeOK, At
<1>6. ASSUME Crash
      PROVE  /\ TypeOK' /\ failures' \in [Episodes -> Nat]
             /\ \A e \in Episodes : failures'[e] <= failures[e] /\ At(e)' \subseteq At(e)
  <2>1. failures' \in [Episodes -> Nat] /\ \A e \in Episodes : failures'[e] <= failures[e]
    <3>1. failures \in [Episodes -> Nat] /\ failures' = [e \in Episodes |-> 0]
      BY <1>1, <1>6 DEF TypeOK, Crash
    <3> QED
      BY <3>1
  <2>2. \A e \in Episodes : At(e)' \subseteq At(e)
    BY <1>6 DEF Crash, At, Resting
  <2>3. TypeOK'
    BY <1>1, <1>6, <2>1 DEF TypeOK, Crash, Fault, receipts, Resting
  <2> QED
    BY <2>1, <2>2, <2>3
<1> QED
  BY <1>3, <1>4, <1>5, <1>6

LEMMA NextIInv == IInv /\ [Next]_vars => IInv'
<1> SUFFICES ASSUME IInv, [Next]_vars PROVE IInv'
  OBVIOUS
<1>1. CASE UNCHANGED vars
  BY <1>1 DEF IInv, TypeOK, Booked, At, vars, receipts, memory
<1>2. ASSUME TypeOK', UNCHANGED <<failures, pass>> PROVE IInv'
  BY <1>2 DEF IInv, Booked, At
<1>3. CASE Next
  BY <1>2, <1>3, ReceiptSteps, PassSteps, EnvironmentSteps DEF Next, IInv
<1> QED
  BY <1>1, <1>3

\* The state keeps its types, for every set of episodes, passes and requests.
THEOREM TypeCorrect == Spec => []TypeOK
<1>1. IInv => TypeOK
  BY DEF IInv
<1> QED
  BY InitIInv, NextIInv, <1>1, PTL DEF Spec

\* However many passes run side by side, an episode fails at most once more for
\* each pass but one than it may be attempted before it is parked.
THEOREM BoundedAttempts == Spec => []AttemptsAreBounded
<1>1. IInv => AttemptsAreBounded
  <2> SUFFICES ASSUME IInv, NEW e \in Episodes
               PROVE  failures[e] < MaxAttempts + Cardinality(Passes)
    BY DEF AttemptsAreBounded
  <2>1. Cardinality(At(e)) \in Nat /\ Cardinality(Passes) \in Nat /\ failures[e] \in Nat
    BY AtBounds, FS_CardinalityType, ConsolidationAssumption DEF At, IInv, TypeOK
  <2>2. failures[e] + Cardinality(At(e)) < MaxAttempts + Cardinality(Passes)
    BY DEF IInv, Booked
  <2> QED
    BY <2>1, <2>2, ConsolidationAssumption
<1> QED
  BY InitIInv, NextIInv, <1>1, PTL DEF Spec

-----------------------------------------------------------------------------
(* Receipts.                                                                *)

\* A receipt that was not made yet says nothing of its records.
Blank == \A r \in Requests : job[r] = "none" => items[r] = [e \in Batch[r] |-> Unread]

\* What a step does to a receipt: it leaves it, makes it, marks an episode on it,
\* abandons it as it is, or as another process read it.
Written(r) ==
  \/ items'[r] = items[r] /\ job'[r] = job[r]
  \/ job[r] = "none" /\ items'[r] = [e \in Batch[r] |-> Unread] /\ job'[r] = "open"
  \/ job'[r] = job[r] /\ \E e \in Episodes : MarkFailed(e) \/ MarkConsolidated(e)
  \/ job[r] = "open" /\ items'[r] = Abandoned(items[r]) /\ job'[r] = "cancelled"
  \/ \E copy \in console \ console' :
       copy.request = r /\ items'[r] = Abandoned(copy.items) /\ job'[r] = "cancelled"

LEMMA StepsWrite ==
  ASSUME TypeOK, [Next]_vars, NEW r \in Requests
  PROVE  Written(r)
<1> DEFINE stays == items'[r] = items[r] /\ job'[r] = job[r]
<1>1. CASE UNCHANGED vars
  BY <1>1 DEF vars, receipts, Written
<1>2. ASSUME NEW c \in Clients, Land(c) \/ \E q \in Requests : Submit(c, q) PROVE Written(r)
  BY <1>2 DEF Land, Submit, receipts, Written
<1>3. ASSUME NEW c \in Clients, Receipt(c) PROVE Written(r)
  BY <1>3 DEF Receipt, RequestTaken, receipts, TypeOK, Written
<1>4. ASSUME NEW q \in Requests, Cancel(q) PROVE Written(r)
  BY <1>4 DEF Cancel, TypeOK, Written
<1>5. ASSUME NEW q \in Requests, ConsoleReads(q) PROVE Written(r)
  BY <1>5 DEF ConsoleReads, receipts, Written
<1>6. CASE ConsoleWrites
  <2>1. PICK copy \in console :
          /\ job' = [job EXCEPT ![copy.request] = "cancelled"]
          /\ items' = [items EXCEPT ![copy.request] = Abandoned(copy.items)]
    BY <1>6 DEF ConsoleWrites
  <2>2. copy \in console \ console'
    BY <1>6 DEF ConsoleWrites
  <2>3. CASE copy.request = r
    BY <2>1, <2>2, <2>3 DEF TypeOK, Written
  <2>4. CASE copy.request # r
    BY <2>1, <2>4 DEF TypeOK, Written
  <2> QED
    BY <2>3, <2>4
<1>7. ASSUME NEW p \in Passes,
             \/ Begin(p) \/ Claim(p) \/ \E n \in 0..MaxClaims : Answer(p, n)
             \/ TransportError(p) \/ Report(p) \/ ReportFails(p)
      PROVE  Written(r)
  BY <1>7 DEF Begin, Claim, Answer, TransportError, Report, ReportFails, receipts, Written
<1>8. ASSUME NEW p \in Passes, Fail(p) \/ Finish(p) PROVE Written(r)
  <2>1. pass[p].at \in Episodes
    BY <1>8 DEF Fail, Finish, Refused, TypeOK
  <2> QED
    BY <1>8, <2>1 DEF Fail, Finish, Written
<1>9. ASSUME \/ \E asked \in SUBSET Episodes : Retry(asked)
             \/ \E e \in Episodes : Remember(e) \/ Forget(e)
             \/ Crash
      PROVE  Written(r)
  BY <1>9 DEF Retry, Remember, Forget, Crash, receipts, Written
<1> QED
  BY <1>1, <1>2, <1>3, <1>4, <1>5, <1>6, <1>7, <1>8, <1>9 DEF Next, PassStep

LEMMA NextBlank == TypeOK /\ Blank /\ [Next]_vars => Blank'
<1> SUFFICES ASSUME TypeOK, Blank, [Next]_vars, NEW r \in Requests, job'[r] = "none"
             PROVE  items'[r] = [e \in Batch[r] |-> Unread]
  BY DEF Blank
<1>1. CASE items'[r] = items[r] /\ job'[r] = job[r]
  BY <1>1 DEF Blank
<1>2. CASE job'[r] = job[r] /\ \E e \in Episodes : MarkFailed(e) \/ MarkConsolidated(e)
  <2>1. items[r] = [e \in Batch[r] |-> Unread] /\ job[r] = "none"
    BY <1>2 DEF Blank
  <2>2. items'[r] = [i \in Batch[r] |-> items[r][i]]
    BY <1>2, <2>1 DEF MarkFailed, MarkConsolidated, Marks
  <2> QED
    BY <2>1, <2>2
<1> QED
  BY <1>1, <1>2, StepsWrite DEF Written

\* Neither a mark nor an abandonment takes anything back.
LEMMA WrittenGrows ==
  ASSUME TypeOK, Blank, NEW r \in Requests, NEW e \in Batch[r], Written(r), Falls(r, e)
  PROVE  /\ job'[r] = "cancelled"
         /\ \E copy \in console \ console' : copy.request = r /\ copy.items[e] # items[r][e]
<1>1. items[r][e] \in ItemType
  BY DEF TypeOK
<1>2. CASE items'[r] = items[r]
  BY <1>1, <1>2 DEF Falls, ItemType
<1>3. CASE job[r] = "none" /\ items'[r] = [i \in Batch[r] |-> Unread]
  BY <1>1, <1>3 DEF Falls, ItemType, Blank
<1>4. CASE \E i \in Episodes : MarkFailed(i) \/ MarkConsolidated(i)
  <2>1. \/ items'[r][e] = items[r][e]
        \/ /\ items[r][e].state # "consolidated"
           /\ \/ items'[r][e] = [state |-> "failed", attempts |-> items[r][e].attempts + 1]
              \/ items'[r][e] = [items[r][e] EXCEPT !.state = "consolidated"]
    BY <1>4 DEF MarkFailed, MarkConsolidated, Marks
  <2> QED
    BY <1>1, <2>1 DEF Falls, ItemType
<1>5. ASSUME NEW kept \in [Batch[r] -> ItemType], items'[r] = Abandoned(kept)
      PROVE  kept[e] # items[r][e]
  <2>1. \/ items'[r][e] = kept[e]
        \/ /\ kept[e].state # "consolidated"
           /\ items'[r][e] = [kept[e] EXCEPT !.state = "cancelled"]
    BY <1>5 DEF Abandoned
  <2> QED
    BY <1>1, <1>5, <2>1 DEF Falls, ItemType
<1>6. CASE items'[r] = Abandoned(items[r])
  BY <1>5, <1>6 DEF TypeOK
<1>7. ASSUME NEW copy \in console \ console', copy.request = r,
             items'[r] = Abandoned(copy.items)
      PROVE  copy.items[e] # items[r][e]
  BY <1>5, <1>7 DEF TypeOK
<1> QED
  BY <1>2, <1>3, <1>4, <1>6, <1>7 DEF Written

\* "What has already been read stays read", and counted attempts stay counted, but
\* for what another process writes back that it read before.
THEOREM ReceiptsGrow == Spec => ReceiptsOnlyGrow
<1>1. Init => Blank
  BY DEF Init, Blank
<1>2. TypeOK /\ Blank /\ [Next]_vars =>
        [\A r \in Requests : \A e \in Batch[r] : Falls(r, e) =>
           /\ job'[r] = "cancelled"
           /\ \E copy \in console \ console' :
                copy.request = r /\ copy.items[e] # items[r][e]]_vars
  BY StepsWrite, WrittenGrows
<1> QED
  BY <1>1, <1>2, NextBlank, TypeCorrect, PTL DEF Spec, ReceiptsOnlyGrow
=============================================================================
