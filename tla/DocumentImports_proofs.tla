----------------------- MODULE DocumentImports_proofs -----------------------
(***************************************************************************)
(* For every number of processes, imports, callers and attempts: an import  *)
(* is executed by the one process that holds its lock, within its budget,   *)
(* nowhere against a stored cancellation, and no lock leaks.                 *)
(***************************************************************************)
EXTENDS DocumentImports, FiniteSetTheorems, TLAPS

-----------------------------------------------------------------------------
(* The inductive invariant.  A call between its lock and its write owns the  *)
(* import, no other call of its process is under way, and the request it     *)
(* read is the stored one if the revision still is.                          *)

Unregistered == \A i \in Imports : ~request[i].registered => request[i] = Absent

Known(c) ==
  call[c].pc # "idle" =>
    LET s == call[c].service
        i == call[c].import
        read == call[c].request
    IN
    /\ s \in Services /\ i \in Imports
    /\ call[c].pc \notin {"attachment", "register"} => request[i].registered
    /\ call[c].pc \in {"attempt", "cancel"} => owner[i] = s
    /\ read.revision <= request[i].revision
    /\ read.revision = request[i].revision => read.attempt = request[i].attempt
    /\ call[c].pc = "attempt" => task[s][i] = "none" /\ read.attempt < MaxAttempts

Alone ==
  \A c, d \in Callers :
    call[c].pc \in SyncPcs /\ call[d].pc \in SyncPcs
      /\ call[c].service = call[d].service => c = d

Inv ==
  /\ TypeOK /\ ExecutionIsOwned /\ LockIsUsed /\ BudgetIsKept /\ CancelHolds
  /\ Unregistered /\ Alone
  /\ \A c \in Callers : Known(c)

-----------------------------------------------------------------------------
(* Types.                                                                   *)

LEMMA AbsentType == Absent \in RequestType /\ Absent.attempt = 0 /\ Absent.revision = 0
  BY DEF Absent, RequestType

LEMMA IdleType == Idle \in CallType
  BY AbsentType DEF Idle, CallType

\* What a call may put into the store.
LEMMA NewRequestType ==
  ASSUME NEW r \in RequestType
  PROVE  /\ Attempted(r) \in RequestType
         /\ Attempted(r).attempt = r.attempt + 1 /\ Attempted(r).revision = r.revision + 1
         /\ Attempted(r).cancelled = FALSE
         /\ Attempted(r).registered = r.registered
  <1>1. Attempted(r) \in RequestType
    <2>1. r.revision + 1 \in Nat /\ r.attempt + 1 \in Nat
      BY DEF RequestType
    <2>2. [r EXCEPT !.revision = r.revision + 1, !.attempt = r.attempt + 1,
                    !.cancelled = FALSE] \in RequestType
      BY <2>1 DEF RequestType
    <2> QED BY <2>2 DEF Attempted
  <1>2. Attempted(r).attempt = r.attempt + 1 /\ Attempted(r).revision = r.revision + 1
    BY DEF Attempted, RequestType
  <1>3. Attempted(r).cancelled = FALSE
    BY DEF Attempted, RequestType
  <1>4. Attempted(r).registered = r.registered
    BY DEF Attempted, RequestType
  <1> QED BY <1>1, <1>2, <1>3, <1>4

LEMMA GotoType ==
  ASSUME call \in [Callers -> CallType], NEW c \in Callers,
         NEW pc \in SyncPcs \cup {"idle", "attachment", "join"}, Goto(c, pc)
  PROVE  call' \in [Callers -> CallType]
  <1>1. [call[c] EXCEPT !.pc = pc] \in CallType
    BY DEF CallType
  <1> QED BY <1>1 DEF Goto

LEMMA ReturnType ==
  ASSUME call \in [Callers -> CallType], NEW c \in Callers, Return(c)
  PROVE  call' \in [Callers -> CallType]
  BY IdleType DEF Return

\* The calls that begin.
LEMMA BeginType ==
  ASSUME TypeOK, NEW c \in Callers, NEW s \in Services, NEW i \in Imports,
         NEW op \in {"start", "resume", "cancel"}, NEW pc \in {"attachment", "claim", "lock"},
         Begin(c, s, i, op, pc), UNCHANGED <<request, journal, owner, life, task>>
  PROVE  TypeOK'
  <1>1. [pc |-> pc, op |-> op, service |-> s, import |-> i, request |-> request[i]] \in CallType
    BY DEF TypeOK, CallType, SyncPcs
  <1>2. call' \in [Callers -> CallType]
    BY <1>1 DEF TypeOK, Begin
  <1> QED BY <1>2 DEF TypeOK

-----------------------------------------------------------------------------
(* What the calls hold.                                                     *)

\* A request is only ever raised to a new revision, or registered.
Later(i) ==
  /\ request[i].registered => request'[i].registered
  /\ \/ request'[i].revision > request[i].revision
     \/ request'[i].revision = request[i].revision /\ request'[i].attempt = request[i].attempt

LEMMA KnownStays ==
  ASSUME TypeOK, TypeOK', NEW d \in Callers, Known(d), call'[d] = call[d],
         \A i \in Imports : Later(i),
         call[d].pc \in {"attempt", "cancel"} =>
           owner'[call[d].import] = owner[call[d].import],
         call[d].pc = "attempt" =>
           task'[call[d].service][call[d].import] = task[call[d].service][call[d].import]
  PROVE  Known(d)'
  <1> SUFFICES ASSUME call[d].pc # "idle" PROVE Known(d)'
    BY DEF Known
  <1> DEFINE i == call[d].import
             read == call[d].request
  <1>1. /\ i \in Imports /\ call[d].service \in Services
        /\ read.revision <= request[i].revision
        /\ read.revision = request[i].revision => read.attempt = request[i].attempt
    BY DEF Known
  <1>2. /\ read.revision \in Nat /\ request[i].revision \in Nat /\ request'[i].revision \in Nat
    BY <1>1 DEF TypeOK, CallType, RequestType
  <1>3. Later(i)
    BY <1>1
  <1>4. /\ read.revision <= request'[i].revision
        /\ read.revision = request'[i].revision => read.attempt = request'[i].attempt
    BY <1>1, <1>2, <1>3 DEF Later
  <1> QED BY <1>1, <1>3, <1>4 DEF Known, Later

\* A step of one call.
LEMMA CallStays ==
  ASSUME Inv, TypeOK', NEW c \in Callers,
         \A d \in Callers \ {c} : call'[d] = call[d],
         Known(c)',
         call'[c].pc \in SyncPcs =>
           \A d \in Callers \ {c} : call[d].pc \in SyncPcs => call[d].service # call'[c].service,
         \A i \in Imports : Later(i),
         \A d \in Callers \ {c} :
           /\ call[d].pc \in {"attempt", "cancel"} =>
                owner'[call[d].import] = owner[call[d].import]
           /\ call[d].pc = "attempt" =>
                task'[call[d].service][call[d].import] = task[call[d].service][call[d].import]
  PROVE  Alone' /\ \A d \in Callers : Known(d)'
  <1>1. Alone'
    BY DEF Inv, Alone
  <1>2. ASSUME NEW d \in Callers \ {c} PROVE Known(d)'
    BY KnownStays DEF Inv
  <1> QED BY <1>1, <1>2

\* A step of a service: calls wait or are gone.
LEMMA CallsStay ==
  ASSUME Inv, TypeOK', UNCHANGED request,
         \A d \in Callers : \/ call'[d] = Idle
                            \/ /\ call'[d] = call[d]
                               /\ call[d].pc \in {"attempt", "cancel"} =>
                                    owner'[call[d].import] = owner[call[d].import]
                               /\ call[d].pc = "attempt" =>
                                    task'[call[d].service][call[d].import] = "none"
  PROVE  Unregistered' /\ BudgetIsKept' /\ Alone' /\ \A d \in Callers : Known(d)'
  <1>1. \A d \in Callers : call'[d] = Idle => call'[d].pc = "idle"
    BY DEF Idle
  <1>2. Alone'
    BY <1>1 DEF Inv, Alone, SyncPcs
  <1>3. \A i \in Imports : Later(i)
    BY DEF Later
  <1>4. ASSUME NEW d \in Callers PROVE Known(d)'
    <2>1. CASE call'[d] = Idle
      BY <2>1, <1>1 DEF Known
    <2>2. CASE call'[d] = call[d] /\ call'[d] # Idle
      <3>1. Known(d) /\ (call[d].pc = "attempt" =>
                            task[call[d].service][call[d].import] = "none")
        BY DEF Inv, Known
      <3> QED BY <2>2, <3>1, <1>3, KnownStays DEF Inv
    <2> QED BY <2>1, <2>2
  <1> QED BY <1>2, <1>4 DEF Inv, Unregistered, BudgetIsKept

\* What a step that touches neither tasks nor locks leaves alone.
LEMMA LocksStay ==
  ASSUME Inv, UNCHANGED <<owner, task>>, NEW c \in Callers,
         \A d \in Callers \ {c} : call'[d] = call[d],
         call[c].pc \notin {"attempt", "cancel"}
  PROVE  ExecutionIsOwned' /\ LockIsUsed'
  <1>1. ExecutionIsOwned'
    BY DEF Inv, ExecutionIsOwned
  <1>2. LockIsUsed'
    <2> SUFFICES ASSUME NEW i \in Imports, owner[i] # None, task[owner[i]][i] = "none"
                 PROVE  \E d \in Callers : /\ call'[d].pc \in {"attempt", "cancel"}
                                           /\ call'[d].service = owner[i] /\ call'[d].import = i
      BY DEF LockIsUsed
    <2>1. PICK d \in Callers : /\ call[d].pc \in {"attempt", "cancel"}
                               /\ call[d].service = owner[i] /\ call[d].import = i
      BY DEF Inv, LockIsUsed
    <2> QED BY <2>1
  <1> QED BY <1>1, <1>2

-----------------------------------------------------------------------------
(* Beginning a call, and start.                                             *)

\* While no call of s is under way another may go on there.
LEMMA FreeIsAlone ==
  ASSUME NEW s, Free(s)
  PROVE  \A d \in Callers : call[d].pc \in SyncPcs => call[d].service # s
  BY DEF Free

LEMMA BeginKeeps ==
  ASSUME Inv, NEW c \in Callers, NEW s \in Services, NEW i \in Imports,
         NEW op \in {"start", "resume", "cancel"}, NEW pc \in {"attachment", "claim", "lock"},
         Begins(c, s), Begin(c, s, i, op, pc), pc # "attachment" => request[i].registered,
         UNCHANGED <<request, journal, owner, life, task>>
  PROVE  Inv'
  <1>1. TypeOK'
    BY BeginType DEF Inv
  <1>2. /\ \A d \in Callers \ {c} : call'[d] = call[d]
        /\ call'[c] = [pc |-> pc, op |-> op, service |-> s, import |-> i, request |-> request[i]]
    BY DEF Begin, Inv, TypeOK
  <1>3. Known(c)'
    <2>1. request[i].revision \in Nat
      BY DEF Inv, TypeOK, RequestType
    <2> QED BY <1>2, <2>1 DEF Known
  <1>4. \A j \in Imports : Later(j)
    BY DEF Later
  <1>5. Alone' /\ \A d \in Callers : Known(d)'
    BY <1>1, <1>2, <1>3, <1>4, CallStays DEF Begins, Free
  <1>6. ExecutionIsOwned' /\ LockIsUsed'
    BY <1>2, LocksStay DEF Begins
  <1>7. BudgetIsKept' /\ CancelHolds' /\ Unregistered'
    BY DEF Inv, BudgetIsKept, CancelHolds, Unregistered
  <1> QED BY <1>1, <1>5, <1>6, <1>7 DEF Inv

\* A call that only goes on or returns.
LEMMA GotoKeeps ==
  ASSUME Inv, NEW c \in Callers,
         call'[c] = Idle \/ (Goto(c, "register") /\ Free(call[c].service)),
         \A d \in Callers \ {c} : call'[d] = call[d],
         call[c].pc \notin {"idle", "attempt", "cancel"},
         call' \in [Callers -> CallType],
         UNCHANGED <<request, journal, owner, life, task>>
  PROVE  Inv'
  <1>1. TypeOK'
    BY DEF Inv, TypeOK
  <1>2. \A i \in Imports : Later(i)
    BY DEF Later
  <1>3. Known(c)' /\ (call'[c].pc \in SyncPcs => call'[c].service = call[c].service
                                                  /\ Free(call[c].service))
    <2>1. CASE call'[c] = Idle
      BY <2>1 DEF Known, Idle, SyncPcs
    <2>2. CASE Goto(c, "register") /\ Free(call[c].service)
      <3>1. /\ call'[c].pc = "register" /\ call'[c].service = call[c].service
            /\ call'[c].import = call[c].import /\ call'[c].request = call[c].request
        BY <2>2 DEF Goto, Inv, TypeOK, CallType
      <3> QED BY <2>2, <3>1 DEF Inv, Known
    <2> QED BY <2>1, <2>2
  <1>4. Alone' /\ \A d \in Callers : Known(d)'
    BY <1>1, <1>2, <1>3, CallStays DEF Free
  <1>5. ExecutionIsOwned' /\ LockIsUsed'
    BY LocksStay
  <1>6. BudgetIsKept' /\ CancelHolds' /\ Unregistered'
    BY DEF Inv, BudgetIsKept, CancelHolds, Unregistered
  <1> QED BY <1>1, <1>4, <1>5, <1>6 DEF Inv

LEMMA AttachedKeeps ==
  ASSUME Inv, NEW c \in Callers, Attached(c)
  PROVE  Inv'
  <1>1. CASE Return(c)
    <2>1. call' \in [Callers -> CallType]
      BY <1>1, ReturnType DEF Inv, TypeOK
    <2>2. call'[c] = Idle /\ \A d \in Callers \ {c} : call'[d] = call[d]
      BY <1>1 DEF Return, Inv, TypeOK
    <2> QED BY <2>1, <2>2, GotoKeeps DEF Attached
  <1>2. CASE Goto(c, "register")
    <2>1. call' \in [Callers -> CallType]
      BY <1>2, GotoType DEF Inv, TypeOK, SyncPcs
    <2>2. \A d \in Callers \ {c} : call'[d] = call[d]
      BY <1>2 DEF Goto, Inv, TypeOK
    <2> QED BY <1>2, <2>1, <2>2, GotoKeeps DEF Attached
  <1> QED BY <1>1, <1>2 DEF Attached

\* A registration, done or not.
LEMMA RegisteredKeeps ==
  ASSUME Inv, NEW i \in Imports, ~request[i].registered, UNCHANGED task,
         Written(i, [Absent EXCEPT !.registered = TRUE])
  PROVE  /\ request' \in [Imports -> RequestType]
         /\ \A j \in Imports : request'[j].attempt <= request'[j].revision
         /\ request'[i].attempt = 0 /\ request'[i].revision = 0
         /\ request'[i].registered
         /\ \A j \in Imports : Later(j)
         /\ BudgetIsKept' /\ CancelHolds' /\ Unregistered'
  <1> DEFINE new == [Absent EXCEPT !.registered = TRUE]
  <1>1. /\ new \in RequestType /\ new.registered = TRUE /\ new.cancelled = FALSE
        /\ new.attempt = 0 /\ new.revision = 0
    BY DEF Absent, RequestType
  <1>2. request[i].attempt = 0 /\ request[i].revision = 0
    BY AbsentType DEF Inv, Unregistered
  <1>3. request' = [request EXCEPT ![i] = new]
    BY DEF Written
  <1> HIDE DEF new
  <1>4. request'[i] = new /\ \A j \in Imports \ {i} : request'[j] = request[j]
    BY <1>3 DEF Inv, TypeOK
  <1>5. request' \in [Imports -> RequestType]
    BY <1>1, <1>3 DEF Inv, TypeOK
  <1>6. \A j \in Imports : request'[j].attempt <= request'[j].revision
    BY <1>1, <1>4 DEF Inv, TypeOK
  <1>7. \A j \in Imports : Later(j)
    BY <1>1, <1>2, <1>4 DEF Later
  <1>8. BudgetIsKept'
    BY <1>1, <1>2, <1>4 DEF Inv, BudgetIsKept
  <1>9. CancelHolds'
    BY <1>1, <1>4 DEF Inv, CancelHolds
  <1>10. Unregistered'
    BY <1>1, <1>4 DEF Inv, Unregistered
  <1> QED BY <1>1, <1>4, <1>5, <1>6, <1>7, <1>8, <1>9, <1>10

LEMMA RegisterKeeps ==
  ASSUME Inv, NEW c \in Callers, Register(c)
  PROVE  Inv'
  <1> DEFINE i == call[c].import
             new == [Absent EXCEPT !.registered = TRUE]
  <1>1. /\ call[c].pc = "register" /\ call[c] \in CallType
        /\ i \in Imports /\ call[c].service \in Services
        /\ UNCHANGED <<journal, owner, life, task>>
    BY DEF Register, Inv, Known, TypeOK
  <1>2. CASE UNCHANGED request /\ Return(c)
    <2>1. call' \in [Callers -> CallType]
      BY <1>2, ReturnType DEF Inv, TypeOK
    <2>2. call'[c] = Idle /\ \A d \in Callers \ {c} : call'[d] = call[d]
      BY <1>2 DEF Return, Inv, TypeOK
    <2> QED BY <1>1, <1>2, <2>1, <2>2, GotoKeeps
  <1>3. ASSUME request'[i] \in RequestType,
               request' \in [Imports -> RequestType],
               \A j \in Imports : request'[j].attempt <= request'[j].revision,
               \A j \in Imports : Later(j),
               BudgetIsKept' /\ CancelHolds' /\ Unregistered',
               NEW read \in RequestType,
               read.revision = request'[i].revision, read.attempt = request'[i].attempt,
               request'[i].registered,
               \/ Return(c)
               \/ call' = [call EXCEPT ![c].pc = "claim", ![c].request = read]
        PROVE  Inv'
    <2>1. \A d \in Callers \ {c} : call'[d] = call[d]
      BY <1>3 DEF Inv, TypeOK, Return
    <2>2. /\ Known(c)' /\ call' \in [Callers -> CallType]
          /\ call'[c].pc \in SyncPcs => call'[c].service = call[c].service
      <3>1. CASE Return(c)
        <4>1. call'[c] = Idle
          BY <3>1 DEF Return, Inv, TypeOK
        <4> QED BY <3>1, <4>1, ReturnType DEF Known, Idle, SyncPcs, Inv, TypeOK
      <3>2. CASE call' = [call EXCEPT ![c].pc = "claim", ![c].request = read]
        <4> DEFINE next == [call[c] EXCEPT !.pc = "claim", !.request = read]
        <4>1. /\ next \in CallType
              /\ next.pc = "claim" /\ next.service = call[c].service
              /\ next.import = i /\ next.request = read
          BY <1>1, <1>3 DEF CallType, SyncPcs
        <4>2. call' = [call EXCEPT ![c] = next]
          BY <3>2
        <4> HIDE DEF next
        <4>3. call'[c] = next /\ call' \in [Callers -> CallType]
          BY <4>1, <4>2 DEF Inv, TypeOK
        <4>4. read.revision \in Nat
          BY DEF RequestType
        <4> QED BY <1>1, <1>3, <4>1, <4>3, <4>4 DEF Known
      <3> QED BY <1>3, <3>1, <3>2
    <2>3. TypeOK'
      BY <1>1, <1>3, <2>2 DEF Inv, TypeOK
    <2>4. \A d \in Callers \ {c} : call[d].pc \in SyncPcs => call[d].service # call[c].service
      BY <1>1 DEF Inv, Alone, SyncPcs
    <2>5. Alone' /\ \A d \in Callers : Known(d)'
      BY <1>1, <1>3, <2>1, <2>2, <2>3, <2>4, CallStays
    <2>6. ExecutionIsOwned' /\ LockIsUsed'
      BY <1>1, <2>1, LocksStay
    <2> QED BY <1>3, <2>3, <2>5, <2>6 DEF Inv
  <1>4. CASE /\ UNCHANGED request /\ request[i].registered
             /\ call' = [call EXCEPT ![c].pc = "claim", ![c].request = request[i]]
    <2>1. /\ request[i] \in RequestType /\ request' = request
          /\ \A j \in Imports : Later(j)
      BY <1>1, <1>4 DEF Inv, TypeOK, Later
    <2>2. BudgetIsKept' /\ CancelHolds' /\ Unregistered'
      BY <1>1, <1>4 DEF Inv, BudgetIsKept, CancelHolds, Unregistered
    <2> QED BY <1>3, <1>4, <2>1, <2>2 DEF Inv, TypeOK
  <1>5. CASE /\ ~request[i].registered /\ Written(i, new)
             /\ \/ Return(c)
                \/ call' = [call EXCEPT ![c].pc = "claim", ![c].request = new]
    <2>1. new \in RequestType /\ new.attempt = 0 /\ new.revision = 0
      BY DEF Absent, RequestType
    <2>2. /\ request' \in [Imports -> RequestType]
          /\ \A j \in Imports : request'[j].attempt <= request'[j].revision
          /\ request'[i].attempt = 0 /\ request'[i].revision = 0
          /\ request'[i].registered
          /\ \A j \in Imports : Later(j)
          /\ BudgetIsKept' /\ CancelHolds' /\ Unregistered'
      BY <1>1, <1>5, RegisteredKeeps
    <2> HIDE DEF new
    <2> QED BY <1>1, <1>3, <1>5, <2>1, <2>2
  <1> QED BY <1>2, <1>4, <1>5 DEF Register, Raises

-----------------------------------------------------------------------------
(* Taking the lock: for an attempt, and to cancel.                          *)

\* A call that ends without having held a lock.
LEMMA ReturnKeeps ==
  ASSUME Inv, NEW c \in Callers, call[c].pc \notin {"idle", "attempt", "cancel"}, Return(c),
         UNCHANGED <<request, journal, owner, life, task>>
  PROVE  Inv'
  <1>1. call' \in [Callers -> CallType]
    BY ReturnType DEF Inv, TypeOK
  <1>2. call'[c] = Idle /\ \A d \in Callers \ {c} : call'[d] = call[d]
    BY DEF Return, Inv, TypeOK
  <1> QED BY <1>1, <1>2, GotoKeeps

LEMMA TakeKeeps ==
  ASSUME Inv, NEW c \in Callers, NEW pc \in {"attempt", "cancel"},
         call[c].pc \in {"claim", "lock"}, Goto(c, pc),
         pc = "attempt" => /\ task[call[c].service][call[c].import] = "none"
                           /\ call[c].request.attempt < MaxAttempts,
         \/ owner' = owner /\ task[call[c].service][call[c].import] # "none"
         \/ /\ owner[call[c].import] = None
            /\ owner' = [owner EXCEPT ![call[c].import] = call[c].service],
         UNCHANGED <<request, journal, life, task>>
  PROVE  Inv'
  <1> DEFINE i == call[c].import
             s == call[c].service
  <1>1. /\ i \in Imports /\ s \in Services /\ s # None
        /\ call[c] \in CallType
    BY ImportsAssumption DEF Inv, Known, TypeOK
  <1>2. /\ owner'[i] = s
        /\ \A j \in Imports \ {i} : owner'[j] = owner[j]
        /\ owner' \in [Imports -> Services \cup {None}]
        /\ owner[i] \in {s, None}
    <2>1. owner \in [Imports -> Services \cup {None}]
      BY DEF Inv, TypeOK
    <2>2. CASE owner' = owner /\ task[s][i] # "none"
      BY <1>1, <2>1, <2>2 DEF Inv, ExecutionIsOwned
    <2>3. CASE owner[i] = None /\ owner' = [owner EXCEPT ![i] = s]
      BY <1>1, <2>1, <2>3
    <2> QED BY <2>2, <2>3
  <1>3. /\ call'[c].pc = pc /\ call'[c].service = s
        /\ call'[c].import = i /\ call'[c].request = call[c].request
        /\ \A d \in Callers \ {c} : call'[d] = call[d]
    BY DEF Goto, Inv, TypeOK, CallType
  <1>4. TypeOK'
    <2>1. call' \in [Callers -> CallType]
      BY GotoType DEF Inv, TypeOK, SyncPcs
    <2> QED BY <1>2, <2>1 DEF Inv, TypeOK
  <1>5. Known(c)'
    BY <1>1, <1>2, <1>3 DEF Inv, Known
  <1>6. \A j \in Imports : Later(j)
    BY DEF Later
  <1>7. \A d \in Callers \ {c} : call[d].pc \in SyncPcs => call[d].service # s
    BY DEF Inv, Alone, SyncPcs
  <1>8. ASSUME NEW d \in Callers \ {c}, call[d].pc \in {"attempt", "cancel"}
        PROVE  owner'[call[d].import] = owner[call[d].import]
    <2>1. /\ owner[call[d].import] = call[d].service /\ call[d].import \in Imports
          /\ call[d].service # None /\ call[d].service # s
      BY <1>7, <1>8, ImportsAssumption DEF Inv, Known, SyncPcs
    <2> QED BY <1>2, <2>1
  <1>9. Alone' /\ \A d \in Callers : Known(d)'
    <2>1. \A d \in Callers \ {c} : task'[call[d].service][call[d].import]
                                      = task[call[d].service][call[d].import]
      OBVIOUS
    <2> QED BY <1>3, <1>4, <1>5, <1>6, <1>7, <1>8, <2>1, CallStays
  <1>10. ExecutionIsOwned'
    BY <1>1, <1>2, ImportsAssumption DEF Inv, ExecutionIsOwned
  <1>11. LockIsUsed'
    <2> SUFFICES ASSUME NEW j \in Imports, owner'[j] # None, task[owner'[j]][j] = "none"
                 PROVE  \E d \in Callers : /\ call'[d].pc \in {"attempt", "cancel"}
                                           /\ call'[d].service = owner'[j] /\ call'[d].import = j
      BY DEF LockIsUsed
    <2>1. CASE j = i
      BY <1>2, <1>3, <2>1
    <2>2. CASE j # i
      <3>1. PICK d \in Callers : /\ call[d].pc \in {"attempt", "cancel"}
                                 /\ call[d].service = owner[j] /\ call[d].import = j
        BY <1>2, <2>2 DEF Inv, LockIsUsed
      <3> QED BY <1>2, <1>3, <2>2, <3>1
    <2> QED BY <2>1, <2>2
  <1>12. BudgetIsKept' /\ CancelHolds' /\ Unregistered'
    BY DEF Inv, BudgetIsKept, CancelHolds, Unregistered
  <1> QED BY <1>4, <1>9, <1>10, <1>11, <1>12 DEF Inv

LEMMA ClaimKeeps ==
  ASSUME Inv, NEW c \in Callers, Claim(c)
  PROVE  Inv'
  <1>1. call[c].pc = "claim" /\ UNCHANGED <<request, journal, life, task>>
    BY DEF Claim
  <1>2. CASE Return(c) /\ UNCHANGED owner
    BY <1>1, <1>2, ReturnKeeps
  <1>3. CASE /\ Admissible(c, call[c].service, call[c].import) /\ Goto(c, "attempt")
             /\ owner' = [owner EXCEPT ![call[c].import] = call[c].service]
    BY <1>1, <1>3, TakeKeeps DEF Admissible
  <1> QED BY <1>2, <1>3 DEF Claim

LEMMA LockForCancelKeeps ==
  ASSUME Inv, NEW c \in Callers, LockForCancel(c)
  PROVE  Inv'
  <1>1. call[c].pc = "lock" /\ UNCHANGED <<request, journal, life, task>>
    BY DEF LockForCancel
  <1>2. CASE Return(c) /\ UNCHANGED owner
    BY <1>1, <1>2, ReturnKeeps
  <1>3. CASE /\ Goto(c, "cancel")
             /\ \/ task[call[c].service][call[c].import] # "none" /\ owner' = owner
                \/ /\ owner[call[c].import] = None
                   /\ owner' = [owner EXCEPT ![call[c].import] = call[c].service]
    BY <1>1, <1>3, TakeKeeps
  <1> QED BY <1>2, <1>3 DEF LockForCancel

-----------------------------------------------------------------------------
(* Writing under the lock.                                                  *)

\* A request at a new revision.
LEMMA RaisedKeeps ==
  ASSUME Inv, NEW i \in Imports, NEW new \in RequestType, Written(i, new),
         new.registered, new.revision = request[i].revision + 1,
         new.attempt <= new.revision, new.attempt <= MaxAttempts
  PROVE  /\ request' \in [Imports -> RequestType]
         /\ request'[i] = new /\ \A j \in Imports \ {i} : request'[j] = request[j]
         /\ \A j \in Imports : request'[j].attempt <= request'[j].revision
         /\ \A j \in Imports : Later(j)
         /\ BudgetIsKept' /\ Unregistered'
  <1>1. /\ request'[i] = new /\ \A j \in Imports \ {i} : request'[j] = request[j]
        /\ request' \in [Imports -> RequestType]
    BY DEF Written, Inv, TypeOK
  <1>2. \A j \in Imports : Later(j)
    <2>1. request[i].revision \in Nat
      BY DEF Inv, TypeOK, RequestType
    <2> QED BY <1>1, <2>1 DEF Later
  <1>3. \A j \in Imports : request'[j].attempt <= request'[j].revision
    BY <1>1 DEF Inv, TypeOK
  <1>4. BudgetIsKept' /\ Unregistered'
    BY <1>1 DEF Inv, BudgetIsKept, Unregistered
  <1> QED BY <1>1, <1>2, <1>3, <1>4

LEMMA SameRequestKeeps ==
  ASSUME Inv, UNCHANGED request
  PROVE  /\ request' \in [Imports -> RequestType]
         /\ \A j \in Imports : request'[j].attempt <= request'[j].revision
         /\ \A j \in Imports : Later(j)
         /\ BudgetIsKept' /\ Unregistered'
  BY DEF Inv, TypeOK, Later, BudgetIsKept, Unregistered

\* A call that held the lock ends: no other call had it.
LEMMA HolderReturns ==
  ASSUME Inv, TypeOK', NEW c \in Callers, call[c].pc \in {"attempt", "cancel"},
         \A d \in Callers \ {c} : call'[d] = call[d],
         call'[c].pc \notin SyncPcs, Known(c)',
         \A i \in Imports : Later(i),
         \A j \in Imports \ {call[c].import} :
           /\ owner'[j] = owner[j]
           /\ \A s \in Services : task'[s][j] = task[s][j],
         owner'[call[c].import] # None =>
           /\ owner'[call[c].import] = call[c].service
           /\ task'[call[c].service][call[c].import] # "none"
  PROVE  Alone' /\ LockIsUsed' /\ \A d \in Callers : Known(d)'
  <1> DEFINE i == call[c].import
  <1>1. i \in Imports /\ owner[i] = call[c].service
    BY DEF Inv, Known
  <1>2. ASSUME NEW d \in Callers \ {c}, call[d].pc \in {"attempt", "cancel"}
        PROVE  /\ call[d].import # i /\ call[d].import \in Imports
               /\ call[d].service \in Services
    BY <1>1, <1>2 DEF Inv, Known, Alone, SyncPcs
  <1>3. Alone' /\ \A d \in Callers : Known(d)'
    BY <1>2, CallStays
  <1>4. LockIsUsed'
    <2> SUFFICES ASSUME NEW j \in Imports \ {i}, owner'[j] # None, task'[owner'[j]][j] = "none"
                 PROVE  \E d \in Callers : /\ call'[d].pc \in {"attempt", "cancel"}
                                           /\ call'[d].service = owner'[j] /\ call'[d].import = j
      BY DEF LockIsUsed
    <2>1. owner[j] \in Services /\ owner'[j] = owner[j] /\ task[owner[j]][j] = "none"
      BY DEF Inv, TypeOK
    <2>2. PICK d \in Callers : /\ call[d].pc \in {"attempt", "cancel"}
                               /\ call[d].service = owner[j] /\ call[d].import = j
      BY <2>1 DEF Inv, LockIsUsed
    <2> QED BY <2>1, <2>2
  <1> QED BY <1>3, <1>4

LEMMA StartAttemptKeeps ==
  ASSUME Inv, NEW c \in Callers, StartAttempt(c)
  PROVE  Inv'
  <1> DEFINE i == call[c].import
             s == call[c].service
             new == Attempted(request[i])
  <1>1. /\ call[c].pc = "attempt" /\ i \in Imports /\ s \in Services
        /\ owner[i] = s /\ task[s][i] = "none"
        /\ request[i].registered /\ request[i] \in RequestType
        /\ call[c].request.attempt < MaxAttempts
        /\ request[i].revision = call[c].request.revision =>
             request[i].attempt = call[c].request.attempt
        /\ UNCHANGED <<journal, life>> /\ Return(c)
    BY DEF StartAttempt, Inv, Known, TypeOK
  <1>2. /\ call'[c] = Idle /\ \A d \in Callers \ {c} : call'[d] = call[d]
        /\ call' \in [Callers -> CallType]
        /\ Known(c)' /\ call'[c].pc \notin SyncPcs
    BY <1>1, ReturnType DEF Return, Inv, TypeOK, Known, Idle, SyncPcs
  <1>3. ASSUME MayStart(c)
        PROVE  /\ new \in RequestType /\ new.registered /\ new.cancelled = FALSE
               /\ new.revision = request[i].revision + 1
               /\ new.attempt <= new.revision /\ new.attempt <= MaxAttempts
    <2>1. request[i].attempt < MaxAttempts
      BY <1>1, <1>3 DEF MayStart
    <2>2. /\ request[i].attempt <= request[i].revision
          /\ request[i].attempt \in Nat /\ request[i].revision \in Nat
      BY <1>1 DEF Inv, TypeOK, RequestType
    <2>3. /\ new \in RequestType /\ new.registered = request[i].registered
          /\ new.cancelled = FALSE
          /\ new.attempt = request[i].attempt + 1
          /\ new.revision = request[i].revision + 1
      BY <1>1, NewRequestType, Zenon
    <2> HIDE DEF new
    <2>4. new.attempt <= new.revision /\ new.attempt <= MaxAttempts
      BY <2>1, <2>2, <2>3, ImportsAssumption
    <2> QED BY <1>1, <2>3, <2>4
  <1> HIDE DEF new
  <1>4. CASE /\ MayStart(c) /\ Written(i, new)
             /\ task' = [task EXCEPT ![s][i] = "created"] /\ UNCHANGED owner
    <2>1. /\ task'[s][i] = "created"
          /\ \A j \in Imports, t \in Services : <<t, j>> # <<s, i>> => task'[t][j] = task[t][j]
          /\ task' \in [Services -> [Imports -> Live \cup {"none", "stopping", "done"}]]
      BY <1>1, <1>4 DEF Inv, TypeOK, Live
    <2>2. /\ request' \in [Imports -> RequestType]
          /\ request'[i] = new /\ \A j \in Imports \ {i} : request'[j] = request[j]
          /\ \A j \in Imports : request'[j].attempt <= request'[j].revision
          /\ \A j \in Imports : Later(j)
          /\ BudgetIsKept' /\ Unregistered'
      BY <1>1, <1>3, <1>4, RaisedKeeps
    <2>3. TypeOK'
      BY <1>1, <1>2, <1>4, <2>1, <2>2 DEF Inv, TypeOK
    <2>4. Alone' /\ LockIsUsed' /\ \A d \in Callers : Known(d)'
      BY <1>1, <1>2, <1>4, <2>1, <2>2, <2>3, HolderReturns
    <2>5. ExecutionIsOwned'
      BY <1>1, <1>4, <2>1 DEF Inv, ExecutionIsOwned
    <2>6. CancelHolds'
      BY <1>3, <1>4, <2>1, <2>2 DEF Inv, CancelHolds
    <2> QED BY <2>2, <2>3, <2>4, <2>5, <2>6 DEF Inv
  <1>5. CASE /\ UNCHANGED request \/ (MayStart(c) /\ Written(i, new))
             /\ Release(i) /\ UNCHANGED task
    <2>1. /\ owner'[i] = None /\ \A j \in Imports \ {i} : owner'[j] = owner[j]
          /\ owner' \in [Imports -> Services \cup {None}]
      BY <1>1, <1>5 DEF Release, Inv, TypeOK
    <2>2. /\ request' \in [Imports -> RequestType]
          /\ \A j \in Imports : request'[j].attempt <= request'[j].revision
          /\ \A j \in Imports : Later(j)
          /\ BudgetIsKept' /\ Unregistered'
          /\ \A j \in Imports : request'[j].cancelled => request[j].cancelled
      <3>1. CASE UNCHANGED request
        BY <3>1, SameRequestKeeps
      <3>2. CASE MayStart(c) /\ Written(i, new)
        <4>1. /\ request' \in [Imports -> RequestType]
              /\ request'[i] = new /\ \A j \in Imports \ {i} : request'[j] = request[j]
              /\ \A j \in Imports : request'[j].attempt <= request'[j].revision
              /\ \A j \in Imports : Later(j)
              /\ BudgetIsKept' /\ Unregistered'
          BY <1>1, <1>3, <3>2, RaisedKeeps
        <4>2. \A j \in Imports : request'[j].cancelled => request[j].cancelled
          BY <1>3, <3>2, <4>1
        <4> QED BY <4>1, <4>2
      <3> QED BY <1>5, <3>1, <3>2
    <2>3. TypeOK'
      BY <1>1, <1>2, <1>5, <2>1, <2>2 DEF Inv, TypeOK
    <2>4. Alone' /\ LockIsUsed' /\ \A d \in Callers : Known(d)'
      BY <1>1, <1>2, <1>5, <2>1, <2>2, <2>3, HolderReturns
    <2>5. ExecutionIsOwned'
      BY <1>1, <1>5, <2>1 DEF Inv, ExecutionIsOwned
    <2>6. CancelHolds'
      BY <1>5, <2>2 DEF Inv, CancelHolds
    <2> QED BY <2>2, <2>3, <2>4, <2>5, <2>6 DEF Inv
  <1> QED BY <1>4, <1>5 DEF StartAttempt, Raises, new

\* The intent to cancel, stored or not.
LEMMA StoreIntentKeeps ==
  ASSUME Inv, NEW c \in Callers, StoreIntent(c),
         call[c].import \in Imports, request[call[c].import].registered
  PROVE  /\ request' \in [Imports -> RequestType]
         /\ \A j \in Imports \ {call[c].import} : request'[j] = request[j]
         /\ ~Current(c) => request' = request
         /\ \A j \in Imports : request'[j].attempt <= request'[j].revision
         /\ \A j \in Imports : Later(j)
         /\ BudgetIsKept' /\ Unregistered'
  <1> DEFINE i == call[c].import
             new == [request[i] EXCEPT !.revision = @ + 1, !.cancelled = TRUE]
  <1>1. CASE UNCHANGED request
    BY <1>1, SameRequestKeeps
  <1>2. CASE Current(c) /\ Written(i, new)
    <2>1. /\ request[i] \in RequestType /\ request[i].revision \in Nat
          /\ request[i].attempt <= request[i].revision /\ request[i].attempt <= MaxAttempts
          /\ request[i].attempt \in Nat
      BY DEF Inv, TypeOK, RequestType, BudgetIsKept
    <2>2. new \in RequestType
      <3>1. request[i].revision + 1 \in Nat /\ TRUE \in BOOLEAN
        BY <2>1
      <3>2. [request[i] EXCEPT !.revision = request[i].revision + 1, !.cancelled = TRUE]
              \in RequestType
        BY <2>1, <3>1 DEF RequestType
      <3> QED BY <3>2
    <2>3. /\ new.registered = request[i].registered /\ new.attempt = request[i].attempt
          /\ new.revision = request[i].revision + 1
      BY <2>1 DEF RequestType
    <2> HIDE DEF new
    <2>4. new.attempt <= new.revision /\ new.attempt <= MaxAttempts
      BY <2>1, <2>3
    <2> QED BY <1>2, <2>2, <2>3, <2>4, RaisedKeeps
  <1> QED BY <1>1, <1>2 DEF StoreIntent, Raises

LEMMA RequestCancelKeeps ==
  ASSUME Inv, NEW c \in Callers, RequestCancel(c)
  PROVE  Inv'
  <1> DEFINE i == call[c].import
             s == call[c].service
  <1>1. /\ call[c].pc = "cancel" /\ i \in Imports /\ s \in Services
        /\ owner[i] = s /\ request[i].registered /\ call[c] \in CallType
        /\ UNCHANGED <<journal, life>> /\ StoreIntent(c)
    BY DEF RequestCancel, Inv, Known, TypeOK
  <1>2. /\ request' \in [Imports -> RequestType]
        /\ \A j \in Imports \ {i} : request'[j] = request[j]
        /\ ~Current(c) => request' = request
        /\ \A j \in Imports : request'[j].attempt <= request'[j].revision
        /\ \A j \in Imports : Later(j)
        /\ BudgetIsKept' /\ Unregistered'
    BY <1>1, StoreIntentKeeps
  <1>3. \A t \in Services \ {s} : task[t][i] = "none"
    BY <1>1 DEF Inv, ExecutionIsOwned
  <1>4. ASSUME Return(c)
        PROVE  /\ call'[c] = Idle /\ \A d \in Callers \ {c} : call'[d] = call[d]
               /\ call' \in [Callers -> CallType]
               /\ Known(c)' /\ call'[c].pc \notin SyncPcs
    BY <1>4, ReturnType DEF Return, Inv, TypeOK, Known, Idle, SyncPcs
  <1>5. CASE task[s][i] = "none" /\ Release(i) /\ Return(c) /\ UNCHANGED task
    <2>1. /\ owner'[i] = None /\ \A j \in Imports \ {i} : owner'[j] = owner[j]
          /\ owner' \in [Imports -> Services \cup {None}]
      BY <1>1, <1>5 DEF Release, Inv, TypeOK
    <2>2. TypeOK'
      BY <1>1, <1>2, <1>4, <1>5, <2>1 DEF Inv, TypeOK
    <2>3. Alone' /\ LockIsUsed' /\ \A d \in Callers : Known(d)'
      BY <1>1, <1>2, <1>4, <1>5, <2>1, <2>2, HolderReturns
    <2>4. ExecutionIsOwned'
      BY <1>1, <1>3, <1>5, <2>1 DEF Inv, ExecutionIsOwned
    <2>5. CancelHolds'
      BY <1>2, <1>3, <1>5 DEF Inv, CancelHolds, Live
    <2> QED BY <1>2, <2>2, <2>3, <2>4, <2>5 DEF Inv
  <1>6. CASE task[s][i] # "none" /\ ~Current(c) /\ Return(c) /\ UNCHANGED <<owner, task>>
    <2>1. TypeOK'
      BY <1>1, <1>2, <1>4, <1>6 DEF Inv, TypeOK
    <2>2. Alone' /\ LockIsUsed' /\ \A d \in Callers : Known(d)'
      BY <1>1, <1>2, <1>4, <1>6, <2>1, HolderReturns
    <2>3. ExecutionIsOwned' /\ CancelHolds'
      BY <1>2, <1>6 DEF Inv, ExecutionIsOwned, CancelHolds
    <2> QED BY <1>2, <2>1, <2>2, <2>3 DEF Inv
  <1>7. CASE /\ task[s][i] # "none" /\ Join(c) /\ UNCHANGED owner
             /\ task' = [task EXCEPT ![s][i] = Cancelled(@)]
    <2>1. Cancelled(task[s][i]) \in {"stopping", "done"}
      BY <1>1, <1>7 DEF Cancelled, Inv, TypeOK, Live
    <2>2. /\ task'[s][i] \in {"stopping", "done"}
          /\ \A j \in Imports, t \in Services : <<t, j>> # <<s, i>> => task'[t][j] = task[t][j]
          /\ task' \in [Services -> [Imports -> Live \cup {"none", "stopping", "done"}]]
      BY <1>1, <1>7, <2>1 DEF Inv, TypeOK
    <2>3. /\ call'[c].pc = "join" /\ call'[c].service = s /\ call'[c].import = i
          /\ call'[c].request = Absent
          /\ \A d \in Callers \ {c} : call'[d] = call[d]
          /\ call' \in [Callers -> CallType]
      <3> DEFINE next == [call[c] EXCEPT !.pc = "join", !.request = Absent]
      <3>1. /\ next \in CallType /\ next.pc = "join" /\ next.service = s
            /\ next.import = i /\ next.request = Absent
        BY <1>1, AbsentType DEF CallType
      <3>2. call' = [call EXCEPT ![c] = next]
        BY <1>7 DEF Join
      <3> HIDE DEF next
      <3> QED BY <3>1, <3>2 DEF Inv, TypeOK
    <2>4. TypeOK'
      BY <1>1, <1>2, <1>7, <2>2, <2>3 DEF Inv, TypeOK
    <2>5. Known(c)' /\ call'[c].pc \notin SyncPcs
      <3>1. /\ request'[i].revision \in Nat /\ request'[i].attempt \in Nat
            /\ request'[i].attempt <= request'[i].revision
            /\ request'[i].registered
        BY <1>1, <1>2 DEF RequestType, Later
      <3>2. Absent.revision <= request'[i].revision
            /\ (Absent.revision = request'[i].revision => Absent.attempt = request'[i].attempt)
        BY <3>1, AbsentType
      <3> QED BY <1>1, <2>3, <3>1, <3>2 DEF Known, SyncPcs
    <2>6. Alone' /\ LockIsUsed' /\ \A d \in Callers : Known(d)'
      BY <1>1, <1>2, <1>7, <2>2, <2>3, <2>4, <2>5, HolderReturns
    <2>7. ExecutionIsOwned'
      <3>1. \A t \in Services, j \in Imports : task[t][j] # "none" => owner[j] = t
        BY DEF Inv, ExecutionIsOwned
      <3>2. task[s][i] # "none" /\ owner' = owner
        BY <1>7
      <3>3. ASSUME NEW t \in Services, NEW j \in Imports, task'[t][j] # "none"
            PROVE  task[t][j] # "none"
        BY <2>2, <3>2, <3>3
      <3> QED BY <3>1, <3>2, <3>3 DEF ExecutionIsOwned
    <2>8. CancelHolds'
      BY <1>1, <1>2, <1>3, <2>2 DEF Inv, CancelHolds, Live
    <2> QED BY <1>2, <2>4, <2>6, <2>7, <2>8 DEF Inv
  <1> QED BY <1>5, <1>6, <1>7 DEF RequestCancel, GiveBack, StopTask

-----------------------------------------------------------------------------
(* The steps of the services.                                               *)

\* Tasks go on, or are stopped; none appears or goes.
LEMMA TasksKeep ==
  ASSUME Inv, UNCHANGED <<request, owner, call>>,
         journal' \in [Imports -> {"open", "outage", "completed", "invalid"}],
         life' \in [Services -> {"open", "closing", "down"}],
         task' \in [Services -> [Imports -> Live \cup {"none", "stopping", "done"}]],
         \A s \in Services, i \in Imports :
           /\ task[s][i] = "none" <=> task'[s][i] = "none"
           /\ task'[s][i] \in Live => task[s][i] \in Live
  PROVE  Inv'
  <1>1. TypeOK'
    BY DEF Inv, TypeOK
  <1>2. ASSUME NEW d \in Callers
        PROVE  /\ call'[d] = call[d]
               /\ call[d].pc \in {"attempt", "cancel"} =>
                    owner'[call[d].import] = owner[call[d].import]
               /\ call[d].pc = "attempt" => task'[call[d].service][call[d].import] = "none"
    BY DEF Inv, Known
  <1>3. Unregistered' /\ BudgetIsKept' /\ Alone' /\ \A d \in Callers : Known(d)'
    BY <1>1, <1>2, CallsStay
  <1>4. ExecutionIsOwned' /\ CancelHolds'
    BY DEF Inv, ExecutionIsOwned, CancelHolds
  <1>5. LockIsUsed'
    BY DEF Inv, LockIsUsed, TypeOK
  <1> QED BY <1>1, <1>3, <1>4, <1>5 DEF Inv

LEMMA TaskBeginsKeeps ==
  ASSUME Inv, NEW s \in Services, NEW i \in Imports, TaskBegins(s, i)
  PROVE  Inv'
  <1>1. /\ task'[s][i] = "running" /\ task[s][i] = "created"
        /\ \A t \in Services, j \in Imports : <<t, j>> # <<s, i>> => task'[t][j] = task[t][j]
        /\ task' \in [Services -> [Imports -> Live \cup {"none", "stopping", "done"}]]
    BY DEF TaskBegins, Inv, TypeOK, Live
  <1>2. \A t \in Services, j \in Imports :
          /\ task[t][j] = "none" <=> task'[t][j] = "none"
          /\ task'[t][j] \in Live => task[t][j] \in Live
    BY <1>1 DEF Live
  <1>3. UNCHANGED <<request, journal, owner, life, call>>
    BY DEF TaskBegins
  <1> QED BY <1>1, <1>2, <1>3, TasksKeep DEF Inv, TypeOK

LEMMA TaskEndsKeeps ==
  ASSUME Inv, NEW s \in Services, NEW i \in Imports, TaskEnds(s, i)
  PROVE  Inv'
  <1>1. /\ task'[s][i] = "done" /\ task[s][i] # "none"
        /\ \A t \in Services, j \in Imports : <<t, j>> # <<s, i>> => task'[t][j] = task[t][j]
        /\ task' \in [Services -> [Imports -> Live \cup {"none", "stopping", "done"}]]
    BY DEF TaskEnds, Inv, TypeOK, Live
  <1>2. \A t \in Services, j \in Imports :
          /\ task[t][j] = "none" <=> task'[t][j] = "none"
          /\ task'[t][j] \in Live => task[t][j] \in Live
    BY <1>1 DEF Live
  <1>3. /\ UNCHANGED <<request, owner, life, call>>
        /\ journal' \in [Imports -> {"open", "outage", "completed", "invalid"}]
    BY DEF TaskEnds, Inv, TypeOK
  <1> QED BY <1>1, <1>2, <1>3, TasksKeep DEF Inv, TypeOK

LEMMA ResultKeeps ==
  ASSUME Inv, NEW s \in Services, NEW i \in Imports, Result(s, i)
  PROVE  Inv'
  <1>1. /\ UNCHANGED <<request, owner, life, task, call>>
        /\ journal' \in [Imports -> {"open", "outage", "completed", "invalid"}]
    BY DEF Result, Inv, TypeOK
  <1> QED BY <1>1, TasksKeep DEF Inv, TypeOK

LEMMA CloseKeeps ==
  ASSUME Inv, NEW s \in Services, Close(s)
  PROVE  Inv'
  <1>1. /\ \A j \in Imports : task'[s][j] = Cancelled(task[s][j])
        /\ \A t \in Services \ {s} : task'[t] = task[t]
        /\ DOMAIN task' = Services
    BY DEF Close, Inv, TypeOK
  <1>2. \A j \in Imports :
          /\ Cancelled(task[s][j]) \in {"none", "stopping", "done"}
          /\ task[s][j] = "none" <=> Cancelled(task[s][j]) = "none"
    BY DEF Cancelled, Inv, TypeOK, Live
  <1>3. task' \in [Services -> [Imports -> Live \cup {"none", "stopping", "done"}]]
    <2>1. [i \in Imports |-> Cancelled(task[s][i])]
            \in [Imports -> Live \cup {"none", "stopping", "done"}]
      BY <1>2
    <2> QED BY <2>1 DEF Close, Inv, TypeOK
  <1>4. \A t \in Services, j \in Imports :
          /\ task[t][j] = "none" <=> task'[t][j] = "none"
          /\ task'[t][j] \in Live => task[t][j] \in Live
    BY <1>1, <1>2 DEF Live
  <1>5. /\ UNCHANGED <<request, journal, owner, call>>
        /\ life' \in [Services -> {"open", "closing", "down"}]
    BY DEF Close, Inv, TypeOK
  <1> QED BY <1>3, <1>4, <1>5, TasksKeep DEF Inv, TypeOK

LEMMA LifeKeeps ==
  ASSUME Inv, NEW s \in Services, Closed(s) \/ Open(s)
  PROVE  Inv'
  <1>1. /\ UNCHANGED <<request, journal, owner, task, call>>
        /\ life' \in [Services -> {"open", "closing", "down"}]
    BY DEF Closed, Open, Inv, TypeOK
  <1> QED BY <1>1, TasksKeep DEF Inv, TypeOK

LEMMA FinishedKeeps ==
  ASSUME Inv, NEW s \in Services, NEW i \in Imports, Finished(s, i)
  PROVE  Inv'
  <1>1. /\ owner[i] = s /\ task[s][i] # "none" /\ Free(s)
        /\ UNCHANGED <<request, journal, life>>
    BY DEF Finished, Inv, ExecutionIsOwned
  <1>2. /\ task'[s][i] = "none"
        /\ \A t \in Services, j \in Imports : <<t, j>> # <<s, i>> => task'[t][j] = task[t][j]
        /\ task' \in [Services -> [Imports -> Live \cup {"none", "stopping", "done"}]]
    BY DEF Finished, Inv, TypeOK, Live
  <1>3. /\ owner'[i] = None /\ \A j \in Imports \ {i} : owner'[j] = owner[j]
        /\ owner' \in [Imports -> Services \cup {None}]
    BY DEF Finished, Release, Inv, TypeOK
  <1>4. /\ \A d \in Callers : \/ call'[d] = Idle /\ call[d].pc = "join"
                              \/ call'[d] = call[d]
        /\ call' \in [Callers -> CallType]
    BY IdleType DEF Finished, Joined, Inv, TypeOK
  <1>5. TypeOK'
    BY <1>1, <1>2, <1>3, <1>4 DEF Inv, TypeOK
  <1>6. ASSUME NEW d \in Callers, call[d].pc \in {"attempt", "cancel"}
        PROVE  /\ call[d].import \in Imports /\ call[d].import # i
               /\ call[d].service \in Services
    BY <1>1, <1>6 DEF Inv, Known, Free, SyncPcs
  <1>7. ASSUME NEW d \in Callers
        PROVE  \/ call'[d] = Idle
               \/ /\ call'[d] = call[d]
                  /\ call[d].pc \in {"attempt", "cancel"} =>
                       owner'[call[d].import] = owner[call[d].import]
                  /\ call[d].pc = "attempt" =>
                       task'[call[d].service][call[d].import] = "none"
    <2>1. call[d].pc = "attempt" => task[call[d].service][call[d].import] = "none"
      BY DEF Inv, Known
    <2> QED BY <1>2, <1>3, <1>4, <1>6, <2>1
  <1>8. Unregistered' /\ BudgetIsKept' /\ Alone' /\ \A d \in Callers : Known(d)'
    BY <1>1, <1>5, <1>7, CallsStay
  <1>9. ExecutionIsOwned'
    BY <1>1, <1>2, <1>3 DEF Inv, ExecutionIsOwned
  <1>10. CancelHolds'
    BY <1>1, <1>2 DEF Inv, CancelHolds, Live
  <1>11. LockIsUsed'
    <2> SUFFICES ASSUME NEW j \in Imports \ {i}, owner'[j] # None, task'[owner'[j]][j] = "none"
                 PROVE  \E d \in Callers : /\ call'[d].pc \in {"attempt", "cancel"}
                                           /\ call'[d].service = owner'[j] /\ call'[d].import = j
      BY <1>3 DEF LockIsUsed
    <2>1. owner[j] \in Services /\ owner'[j] = owner[j] /\ task[owner[j]][j] = "none"
      BY <1>2, <1>3 DEF Inv, TypeOK
    <2>2. PICK d \in Callers : /\ call[d].pc \in {"attempt", "cancel"}
                               /\ call[d].service = owner[j] /\ call[d].import = j
      BY <2>1, <1>3 DEF Inv, LockIsUsed
    <2> QED BY <1>4, <2>1, <2>2
  <1> QED BY <1>5, <1>8, <1>9, <1>10, <1>11 DEF Inv

LEMMA CrashKeeps ==
  ASSUME Inv, NEW s \in Services, Crash(s)
  PROVE  Inv'
  <1>1. /\ \A j \in Imports : task'[s][j] = "none"
        /\ \A t \in Services \ {s} : task'[t] = task[t]
        /\ task' \in [Services -> [Imports -> Live \cup {"none", "stopping", "done"}]]
    BY DEF Crash, Inv, TypeOK
  <1>2. /\ \A j \in Imports : owner'[j] = IF owner[j] = s THEN None ELSE owner[j]
        /\ owner' \in [Imports -> Services \cup {None}]
    BY DEF Crash, Inv, TypeOK
  <1>3. /\ \A d \in Callers : call'[d] = IF call[d].service = s THEN Idle ELSE call[d]
        /\ call' \in [Callers -> CallType]
    BY IdleType DEF Crash, Inv, TypeOK
  <1>4. TypeOK' /\ UNCHANGED <<request, journal>>
    BY <1>1, <1>2, <1>3 DEF Crash, Inv, TypeOK
  <1>5. ASSUME NEW d \in Callers
        PROVE  \/ call'[d] = Idle
               \/ /\ call'[d] = call[d]
                  /\ call[d].pc \in {"attempt", "cancel"} =>
                       owner'[call[d].import] = owner[call[d].import]
                  /\ call[d].pc = "attempt" =>
                       task'[call[d].service][call[d].import] = "none"
    BY <1>1, <1>2, <1>3 DEF Inv, Known
  <1>6. Unregistered' /\ BudgetIsKept' /\ Alone' /\ \A d \in Callers : Known(d)'
    BY <1>4, <1>5, CallsStay
  <1>7. ExecutionIsOwned'
    BY <1>1, <1>2 DEF Inv, ExecutionIsOwned
  <1>8. CancelHolds'
    BY <1>1, <1>4 DEF Inv, CancelHolds, Live
  <1>9. LockIsUsed'
    <2> SUFFICES ASSUME NEW j \in Imports, owner'[j] # None, task'[owner'[j]][j] = "none"
                 PROVE  \E d \in Callers : /\ call'[d].pc \in {"attempt", "cancel"}
                                           /\ call'[d].service = owner'[j] /\ call'[d].import = j
      BY DEF LockIsUsed
    <2>1. owner[j] \in Services \ {s} /\ owner'[j] = owner[j] /\ task[owner[j]][j] = "none"
      BY <1>1, <1>2 DEF Inv, TypeOK
    <2>2. PICK d \in Callers : /\ call[d].pc \in {"attempt", "cancel"}
                               /\ call[d].service = owner[j] /\ call[d].import = j
      BY <2>1, ImportsAssumption DEF Inv, LockIsUsed
    <2> QED BY <1>3, <2>1, <2>2
  <1> QED BY <1>4, <1>6, <1>7, <1>8, <1>9 DEF Inv

-----------------------------------------------------------------------------
(* The theorems.                                                            *)

LEMMA InitInv == Init => Inv
  <1> SUFFICES ASSUME Init PROVE Inv
    OBVIOUS
  <1>1. TypeOK
    BY AbsentType, IdleType DEF Init, TypeOK
  <1>2. \A c \in Callers : call[c].pc = "idle"
    BY DEF Init, Idle
  <1>3. Alone /\ \A c \in Callers : Known(c)
    BY <1>2 DEF Alone, Known, SyncPcs
  <1>4. ExecutionIsOwned /\ LockIsUsed /\ CancelHolds /\ Unregistered
    BY DEF Init, ExecutionIsOwned, LockIsUsed, CancelHolds, Unregistered, Live
  <1>5. BudgetIsKept
    BY AbsentType, ImportsAssumption DEF Init, BudgetIsKept
  <1> QED BY <1>1, <1>3, <1>4, <1>5 DEF Inv

LEMMA NextInv == Inv /\ [Next]_vars => Inv'
  <1> SUFFICES ASSUME Inv, [Next]_vars PROVE Inv'
    OBVIOUS
  <1>1. CASE UNCHANGED vars
    BY <1>1, TasksKeep DEF vars, Inv, TypeOK
  <1>2. ASSUME NEW c \in Callers, NEW s \in Services, NEW i \in Imports,
               Start(c, s, i) \/ Resume(c, s, i) \/ Cancel(c, s, i)
        PROVE  Inv'
    <2>1. CASE Start(c, s, i)
      BY <2>1, BeginKeeps DEF Start
    <2>2. CASE Resume(c, s, i)
      BY <2>2, BeginKeeps DEF Resume
    <2>3. CASE Cancel(c, s, i)
      BY <2>3, BeginKeeps DEF Cancel
    <2> QED BY <1>2, <2>1, <2>2, <2>3
  <1>3. ASSUME NEW c \in Callers,
               \/ Attached(c) \/ Register(c) \/ Claim(c) \/ StartAttempt(c)
               \/ LockForCancel(c) \/ RequestCancel(c)
        PROVE  Inv'
    BY <1>3, AttachedKeeps, RegisterKeeps, ClaimKeeps, StartAttemptKeeps,
       LockForCancelKeeps, RequestCancelKeeps
  <1>4. ASSUME NEW s \in Services, NEW i \in Imports, TaskStep(s, i) \/ Result(s, i)
        PROVE  Inv'
    BY <1>4, TaskBeginsKeeps, TaskEndsKeeps, FinishedKeeps, ResultKeeps DEF TaskStep
  <1>5. ASSUME NEW s \in Services, Close(s) \/ Closed(s) \/ Open(s) \/ Crash(s)
        PROVE  Inv'
    BY <1>5, CloseKeeps, LifeKeeps, CrashKeeps
  <1> QED BY <1>1, <1>2, <1>3, <1>4, <1>5 DEF Next, CallStep

\* The invariant of the calls, the locks and the store holds in every state.
THEOREM Invariance == Spec => []Inv
  BY InitInv, NextInv, PTL DEF Spec

\* The state keeps its types, and a revision is never below the attempts.
THEOREM TypeCorrect == Spec => []TypeOK
  <1>1. Inv => TypeOK
    BY DEF Inv
  <1> QED BY <1>1, Invariance, PTL

\* An import is executed by the process that holds its lock, hence by one.
THEOREM OwnedExecution == Spec => []ExecutionIsOwned
  <1>1. Inv => ExecutionIsOwned
    BY DEF Inv
  <1> QED BY <1>1, Invariance, PTL

\* No lock stays behind, whatever failed or was refused.
THEOREM UsedLocks == Spec => []LockIsUsed
  <1>1. Inv => LockIsUsed
    BY DEF Inv
  <1> QED BY <1>1, Invariance, PTL

\* The owner locks follow the work, both ways.
THEOREM LocksFollow == Spec => []LocksFollowWork
  <1>1. ExecutionIsOwned /\ LockIsUsed => LocksFollowWork
    BY DEF LocksFollowWork
  <1> QED BY <1>1, OwnedExecution, UsedLocks, PTL

\* The processes together admit an import at most max_attempts times.
THEOREM KeptBudget == Spec => []BudgetIsKept
  <1>1. Inv => BudgetIsKept
    BY DEF Inv
  <1> QED BY <1>1, Invariance, PTL

\* Beside a stored cancellation no process goes on with the import.
THEOREM HeldCancel == Spec => []CancelHolds
  <1>1. Inv => CancelHolds
    BY DEF Inv
  <1> QED BY <1>1, Invariance, PTL

-----------------------------------------------------------------------------
(* What a step may not do.                                                  *)

\* Cancelling the current revision stops the task of the service.
THEOREM StoppedByCancel == Spec => CancelStops
  <1>1. ASSUME Inv, NEW c \in Callers, RequestCancel(c), ~Stale(c)
        PROVE  task'[call[c].service][call[c].import] \notin Live
    <2> DEFINE i == call[c].import
               s == call[c].service
    <2>1. s \in Services /\ i \in Imports /\ task[s][i] \in Live \cup {"none", "stopping", "done"}
      BY <1>1 DEF RequestCancel, Inv, Known, TypeOK
    <2>2. CASE task[s][i] = "none" /\ UNCHANGED task
      BY <2>2 DEF Live
    <2>3. CASE task' = [task EXCEPT ![s][i] = Cancelled(@)]
      <3>1. Cancelled(task[s][i]) \notin Live
        BY <2>1 DEF Cancelled, Live
      <3>2. task \in [Services -> [Imports -> Live \cup {"none", "stopping", "done"}]]
        BY <1>1 DEF Inv, TypeOK
      <3>3. task'[s][i] = Cancelled(task[s][i])
        BY <2>1, <2>3, <3>2
      <3> QED BY <3>1, <3>3
    <2> QED BY <1>1, <2>2, <2>3 DEF RequestCancel, Stale, Current, StopTask
  <1>2. Inv /\ [Next]_vars =>
          [\A c \in Callers : RequestCancel(c) /\ ~Stale(c) =>
             task'[call[c].service][call[c].import] \notin Live]_vars
    BY <1>1
  <1> QED BY <1>2, Invariance, PTL DEF Spec, CancelStops

\* A step that is not the call's own, nor the death of its process, leaves it alone
\* while it holds a lock.
LEMMA HolderIsLeft ==
  ASSUME Inv, [Next]_vars, NEW c \in Callers, call[c].pc \in {"attempt", "cancel"},
         call'[c] # call[c]
  PROVE  StartAttempt(c) \/ RequestCancel(c) \/ \E s \in Services : Crash(s)
  <1>1. ASSUME NEW d \in Callers, CallStep(d)
        PROVE  StartAttempt(c) \/ RequestCancel(c)
    <2>1. ASSUME d # c PROVE call'[c] = call[c]
      BY <1>1, <2>1 DEF CallStep, Start, Resume, Cancel, Begin, Attached, Register, Claim,
           StartAttempt, LockForCancel, RequestCancel, Goto, Return, Join, Inv, TypeOK
    <2>2. d = c
      BY <2>1
    <2> QED BY <1>1, <2>2 DEF CallStep, Start, Resume, Cancel, Begins, Attached, Register,
              Claim, LockForCancel
  <1>2. ASSUME NEW s \in Services, NEW i \in Imports, TaskStep(s, i) \/ Result(s, i)
        PROVE  call'[c] = call[c]
    BY <1>2 DEF TaskStep, TaskBegins, TaskEnds, Finished, Joined, Result
  <1>3. ASSUME NEW s \in Services, Close(s) \/ Closed(s) \/ Open(s)
        PROVE  call'[c] = call[c]
    BY <1>3 DEF Close, Closed, Open
  <1> QED BY <1>1, <1>2, <1>3 DEF Next, vars

\* Stale controls miss.
THEOREM StaleMisses == Spec => StaleControlsMiss
  <1>1. ASSUME Inv, [Next]_vars, NEW c \in Callers,
               call[c].pc \in {"attempt", "cancel"}, Stale(c), call'[c] # call[c]
        PROVE  /\ request'[call[c].import] = request[call[c].import]
               /\ \A s \in Services :
                    life'[s] = "down" \/ task'[s][call[c].import] = task[s][call[c].import]
    <2>1. CASE StartAttempt(c)
      BY <1>1, <2>1 DEF StartAttempt, MayStart, Stale
    <2>2. CASE RequestCancel(c)
      BY <1>1, <2>2 DEF RequestCancel, StoreIntent, Current, Stale
    <2>3. ASSUME NEW s \in Services, Crash(s)
          PROVE  /\ request' = request /\ life'[s] = "down"
                 /\ \A t \in Services \ {s} : task'[t] = task[t]
      BY <1>1, <2>3 DEF Crash, Inv, TypeOK
    <2> QED BY <1>1, <2>1, <2>2, <2>3, HolderIsLeft
  <1>2. Inv /\ [Next]_vars =>
          [\A c \in Callers :
             call[c].pc \in {"attempt", "cancel"} /\ Stale(c) /\ call'[c] # call[c]
               => /\ request'[call[c].import] = request[call[c].import]
                  /\ \A s \in Services :
                       life'[s] = "down" \/ task'[s][call[c].import] = task[s][call[c].import]]_vars
    BY <1>1
  <1> QED BY <1>2, Invariance, PTL DEF Spec, StaleControlsMiss

-----------------------------------------------------------------------------
(* Capacity.  A call that is past the count has room for its task until it   *)
(* returns: others of its process wait, and starts were counted before.      *)

HasRoom(c) == call[c].pc = "attempt" \/ (call[c].pc = "claim" /\ call[c].op = "start")

RoomInv ==
  /\ CapacityIsKept
  /\ \A c \in Callers, s \in Services : HasRoom(c) /\ call[c].service = s => ~Full(s)
  /\ \A c \in Callers :
       call[c].pc = "claim" /\ call[c].op = "start" => call[c].request.attempt = 0

LEMMA SetsAreFinite ==
  ASSUME NEW s
  PROVE  /\ IsFiniteSet(Tasks(s)) /\ IsFiniteSet(Admitting(s))
         /\ Cardinality(Tasks(s)) \in Nat /\ Cardinality(Admitting(s)) \in Nat
  <1>1. Tasks(s) \subseteq Imports /\ Admitting(s) \subseteq Callers
    BY DEF Tasks, Admitting
  <1> QED BY <1>1, ImportsAssumption, FS_Subset, FS_CardinalityType

LEMMA SmallerSet ==
  ASSUME NEW S, IsFiniteSet(S), NEW T, T \subseteq S
  PROVE  /\ Cardinality(T) \in Nat /\ Cardinality(T) <= Cardinality(S)
         /\ T # S => Cardinality(T) < Cardinality(S)
  <1>1. /\ IsFiniteSet(T) /\ Cardinality(T) <= Cardinality(S)
        /\ T # S => Cardinality(T) # Cardinality(S)
    BY FS_Subset
  <1>2. Cardinality(T) \in Nat /\ Cardinality(S) \in Nat
    BY <1>1, FS_CardinalityType
  <1> QED BY <1>1, <1>2

\* Sets that do not grow leave the room there was, and one that shrinks makes some.
LEMMA Shrinks ==
  ASSUME NEW s, Tasks(s)' \subseteq Tasks(s), Admitting(s)' \subseteq Admitting(s)
  PROVE  /\ Cardinality(Tasks(s)') + Cardinality(Admitting(s)')
              <= Cardinality(Tasks(s)) + Cardinality(Admitting(s))
         /\ Admitting(s)' # Admitting(s) =>
              Cardinality(Tasks(s)') + Cardinality(Admitting(s)')
                < Cardinality(Tasks(s)) + Cardinality(Admitting(s))
         /\ Cardinality(Tasks(s)') + Cardinality(Admitting(s)') \in Nat
  <1>1. /\ IsFiniteSet(Tasks(s)) /\ IsFiniteSet(Admitting(s))
        /\ Cardinality(Tasks(s)) \in Nat /\ Cardinality(Admitting(s)) \in Nat
    BY SetsAreFinite
  <1>2. /\ Cardinality(Tasks(s)') \in Nat /\ Cardinality(Tasks(s)') <= Cardinality(Tasks(s))
    BY <1>1, SmallerSet
  <1>3. /\ Cardinality(Admitting(s)') \in Nat
        /\ Cardinality(Admitting(s)') <= Cardinality(Admitting(s))
        /\ Admitting(s)' # Admitting(s) =>
             Cardinality(Admitting(s)') < Cardinality(Admitting(s))
    BY <1>1, SmallerSet
  <1> QED BY <1>1, <1>2, <1>3

\* A step that adds no task and starts no call.
LEMMA RoomStays ==
  ASSUME RoomInv,
         \A s \in Services :
           Tasks(s)' \subseteq Tasks(s) /\ Admitting(s)' \subseteq Admitting(s),
         \A c \in Callers, s \in Services : HasRoom(c)' /\ call'[c].service = s =>
           \/ HasRoom(c) /\ call[c].service = s
           \/ ~Full(s)
           \/ Admitting(s)' # Admitting(s),
         \A c \in Callers :
           call'[c].pc = "claim" /\ call'[c].op = "start" => call'[c].request.attempt = 0
  PROVE  RoomInv'
  <1>1. MaxActive \in Nat
    BY ImportsAssumption
  <1>2. ASSUME NEW s \in Services
        PROVE  /\ Cardinality(Tasks(s)') + Cardinality(Admitting(s)') <= MaxActive
               /\ ~Full(s) \/ Admitting(s)' # Admitting(s) => ~Full(s)'
    <2> DEFINE before == Cardinality(Tasks(s)) + Cardinality(Admitting(s))
               after == Cardinality(Tasks(s)') + Cardinality(Admitting(s)')
    <2>1. before \in Nat /\ before <= MaxActive
      BY SetsAreFinite DEF RoomInv, CapacityIsKept
    <2>2. /\ after \in Nat /\ after <= before
          /\ Admitting(s)' # Admitting(s) => after < before
      BY Shrinks
    <2>3. /\ Full(s) <=> before >= MaxActive
          /\ Full(s)' <=> after >= MaxActive
      BY DEF Full
    <2> HIDE DEF before, after
    <2>4. /\ after <= MaxActive
          /\ ~(before >= MaxActive) \/ Admitting(s)' # Admitting(s) => ~(after >= MaxActive)
      BY <1>1, <2>1, <2>2
    <2> QED BY <2>3, <2>4 DEF after
  <1>3. CapacityIsKept'
    BY <1>2 DEF CapacityIsKept
  <1>4. \A c \in Callers, s \in Services : HasRoom(c)' /\ call'[c].service = s => ~Full(s)'
    BY <1>2 DEF RoomInv
  <1> QED BY <1>3, <1>4 DEF RoomInv

\* A step that takes one place of a service that is not full.
LEMMA RoomIsTaken ==
  ASSUME RoomInv, NEW s \in Services, ~Full(s), NEW e,
         \/ Tasks(s)' \subseteq Tasks(s) \cup {e} /\ Admitting(s)' \subseteq Admitting(s)
         \/ Tasks(s)' \subseteq Tasks(s) /\ Admitting(s)' \subseteq Admitting(s) \cup {e},
         \A t \in Services \ {s} :
           Tasks(t)' \subseteq Tasks(t) /\ Admitting(t)' \subseteq Admitting(t),
         \A c \in Callers : HasRoom(c)' =>
           HasRoom(c) /\ call'[c].service = call[c].service /\ call[c].service # s,
         \A c \in Callers :
           call'[c].pc = "claim" /\ call'[c].op = "start" => call'[c].request.attempt = 0
  PROVE  RoomInv'
  <1>1. MaxActive \in Nat
    BY ImportsAssumption
  <1>2. Cardinality(Tasks(s)') + Cardinality(Admitting(s)') <= MaxActive
    <2>1. /\ IsFiniteSet(Tasks(s)) /\ IsFiniteSet(Admitting(s))
          /\ Cardinality(Tasks(s)) \in Nat /\ Cardinality(Admitting(s)) \in Nat
          /\ Cardinality(Tasks(s)) + Cardinality(Admitting(s)) < MaxActive
      BY <1>1, SetsAreFinite DEF Full
    <2>2. ASSUME NEW S, IsFiniteSet(S), Cardinality(S) \in Nat, NEW T, T \subseteq S \cup {e}
          PROVE  Cardinality(T) \in Nat /\ Cardinality(T) <= Cardinality(S) + 1
      <3>1. IsFiniteSet(S \cup {e}) /\ Cardinality(S \cup {e}) <= Cardinality(S) + 1
            /\ Cardinality(S \cup {e}) \in Nat
        <4>1. /\ IsFiniteSet(S \cup {e})
              /\ Cardinality(S \cup {e}) \in {Cardinality(S), Cardinality(S) + 1}
          BY <2>2, FS_AddElement
        <4> QED BY <2>2, <4>1
      <3>2. Cardinality(T) \in Nat /\ Cardinality(T) <= Cardinality(S \cup {e})
        BY <2>2, <3>1, SmallerSet
      <3> QED BY <2>2, <3>1, <3>2
    <2>3. CASE Tasks(s)' \subseteq Tasks(s) \cup {e} /\ Admitting(s)' \subseteq Admitting(s)
      <3>1. /\ Cardinality(Tasks(s)') \in Nat
            /\ Cardinality(Tasks(s)') <= Cardinality(Tasks(s)) + 1
        BY <2>1, <2>2, <2>3
      <3>2. /\ Cardinality(Admitting(s)') \in Nat
            /\ Cardinality(Admitting(s)') <= Cardinality(Admitting(s))
        BY <2>1, <2>3, SmallerSet
      <3> QED BY <1>1, <2>1, <3>1, <3>2
    <2>4. CASE Tasks(s)' \subseteq Tasks(s) /\ Admitting(s)' \subseteq Admitting(s) \cup {e}
      <3>1. /\ Cardinality(Admitting(s)') \in Nat
            /\ Cardinality(Admitting(s)') <= Cardinality(Admitting(s)) + 1
        BY <2>1, <2>2, <2>4
      <3>2. /\ Cardinality(Tasks(s)') \in Nat
            /\ Cardinality(Tasks(s)') <= Cardinality(Tasks(s))
        BY <2>1, <2>4, SmallerSet
      <3> QED BY <1>1, <2>1, <3>1, <3>2
    <2> QED BY <2>3, <2>4
  <1>3. ASSUME NEW t \in Services \ {s}
        PROVE  /\ Cardinality(Tasks(t)') + Cardinality(Admitting(t)') <= MaxActive
               /\ ~Full(t) => ~Full(t)'
    <2> DEFINE before == Cardinality(Tasks(t)) + Cardinality(Admitting(t))
               after == Cardinality(Tasks(t)') + Cardinality(Admitting(t)')
    <2>1. before \in Nat /\ before <= MaxActive
      BY SetsAreFinite DEF RoomInv, CapacityIsKept
    <2>2. after \in Nat /\ after <= before
      BY Shrinks
    <2>3. /\ Full(t) <=> before >= MaxActive
          /\ Full(t)' <=> after >= MaxActive
      BY DEF Full
    <2> HIDE DEF before, after
    <2>4. after <= MaxActive /\ (~(before >= MaxActive) => ~(after >= MaxActive))
      BY <1>1, <2>1, <2>2
    <2> QED BY <2>3, <2>4 DEF after
  <1>4. CapacityIsKept'
    BY <1>2, <1>3 DEF CapacityIsKept
  <1>5. \A c \in Callers, t \in Services : HasRoom(c)' /\ call'[c].service = t => ~Full(t)'
    BY <1>3 DEF RoomInv
  <1> QED BY <1>4, <1>5 DEF RoomInv

LEMMA InitRoom == Init => RoomInv
  <1> SUFFICES ASSUME Init PROVE RoomInv
    OBVIOUS
  <1>1. \A s \in Services : Tasks(s) = {} /\ Admitting(s) = {}
    BY DEF Init, Tasks, Admitting, Idle
  <1>2. CapacityIsKept
    BY <1>1, ImportsAssumption, FS_EmptySet DEF CapacityIsKept
  <1>3. \A c \in Callers : call[c].pc = "idle"
    BY DEF Init, Idle
  <1> QED BY <1>2, <1>3 DEF RoomInv, HasRoom

\* Steps of a service: tasks and calls only go.
LEMMA ServiceRoom ==
  ASSUME RoomInv,
         \A c \in Callers : call'[c] = call[c] \/ call'[c] = Idle,
         \A s \in Services, i \in Imports : task[s][i] = "none" => task'[s][i] = "none"
  PROVE  RoomInv'
  <1>1. \A c \in Callers : call'[c] = Idle => call'[c].pc = "idle"
    BY DEF Idle
  <1>2. \A s \in Services :
          Tasks(s)' \subseteq Tasks(s) /\ Admitting(s)' \subseteq Admitting(s)
    BY <1>1 DEF Tasks, Admitting
  <1>3. \A c \in Callers : HasRoom(c)' => HasRoom(c) /\ call'[c] = call[c]
    BY <1>1 DEF HasRoom
  <1>4. \A c \in Callers :
          call'[c].pc = "claim" /\ call'[c].op = "start" => call'[c].request.attempt = 0
    BY <1>1 DEF RoomInv
  <1> QED BY <1>2, <1>3, <1>4, RoomStays

\* Steps of a call that adds no task and was not started by them.
LEMMA CallRoom ==
  ASSUME RoomInv, UNCHANGED task, NEW c \in Callers,
         \A d \in Callers \ {c} : call'[d] = call[d],
         call'[c].pc \in {"attachment", "register"} =>
           call[c].pc \in {"attachment", "register"} /\ call'[c].service = call[c].service,
         HasRoom(c)' => \/ HasRoom(c) /\ call'[c].service = call[c].service
                        \/ ~Full(call'[c].service)
                        \/ /\ call[c].pc = "register"
                           /\ call'[c].service = call[c].service,
         call'[c].pc = "claim" /\ call'[c].op = "start" => call'[c].request.attempt = 0
  PROVE  RoomInv'
  <1>1. \A s \in Services :
          Tasks(s)' \subseteq Tasks(s) /\ Admitting(s)' \subseteq Admitting(s)
    BY DEF Tasks, Admitting
  <1>2. ASSUME NEW d \in Callers, NEW s \in Services, HasRoom(d)', call'[d].service = s
        PROVE  \/ HasRoom(d) /\ call[d].service = s
               \/ ~Full(s)
               \/ Admitting(s)' # Admitting(s)
    <2>1. CASE d # c
      BY <1>2, <2>1 DEF HasRoom
    <2>2. CASE d = c /\ call[c].pc = "register" /\ call[c].service = s
      <3>1. c \in Admitting(s) /\ c \notin Admitting(s)'
        BY <1>2, <2>2 DEF Admitting, HasRoom
      <3> QED BY <3>1
    <2> QED BY <1>2, <2>1, <2>2
  <1>3. \A d \in Callers :
          call'[d].pc = "claim" /\ call'[d].op = "start" => call'[d].request.attempt = 0
    BY DEF RoomInv
  <1> QED BY <1>1, <1>2, <1>3, RoomStays

LEMMA NextRoom ==
  ASSUME Inv, RoomInv, [Next]_vars
  PROVE  RoomInv'
  <1>1. CASE UNCHANGED vars
    BY <1>1, ServiceRoom DEF vars
  <1>2. ASSUME NEW s \in Services, NEW i \in Imports, TaskStep(s, i) \/ Result(s, i)
        PROVE  RoomInv'
    BY <1>2, ServiceRoom DEF TaskStep, TaskBegins, TaskEnds, Finished, Result, Inv, TypeOK
  <1>3. ASSUME NEW s \in Services, Close(s) \/ Closed(s) \/ Open(s) \/ Crash(s)
        PROVE  RoomInv'
    <2>1. Cancelled("none") = "none"
      BY DEF Cancelled
    <2> QED BY <1>3, <2>1, ServiceRoom DEF Close, Closed, Open, Crash, Inv, TypeOK
  <1>4. ASSUME NEW c \in Callers, NEW s \in Services, NEW i \in Imports, Start(c, s, i)
        PROVE  RoomInv'
    <2>1. /\ call[c].pc = "idle" /\ ~Full(s) /\ Free(s) /\ UNCHANGED task
          /\ \A d \in Callers \ {c} : call'[d] = call[d]
          /\ call'[c].pc = "attachment" /\ call'[c].service = s
      BY <1>4 DEF Start, Begins, Begin, Inv, TypeOK
    <2>2. /\ \A t \in Services : Tasks(t)' \subseteq Tasks(t)
          /\ Admitting(s)' \subseteq Admitting(s) \cup {c}
          /\ \A t \in Services \ {s} : Admitting(t)' \subseteq Admitting(t)
      BY <2>1 DEF Tasks, Admitting
    <2>3. \A d \in Callers : HasRoom(d)' =>
            HasRoom(d) /\ call'[d].service = call[d].service /\ call[d].service # s
      BY <2>1 DEF HasRoom, Free, SyncPcs
    <2>4. \A d \in Callers :
            call'[d].pc = "claim" /\ call'[d].op = "start" => call'[d].request.attempt = 0
      BY <2>1 DEF RoomInv
    <2> QED BY <2>1, <2>2, <2>3, <2>4, RoomIsTaken
  <1>5. ASSUME NEW c \in Callers, NEW s \in Services, NEW i \in Imports,
               Resume(c, s, i) \/ Cancel(c, s, i)
        PROVE  RoomInv'
    <2>1. /\ UNCHANGED task
          /\ \A d \in Callers \ {c} : call'[d] = call[d]
          /\ call'[c].pc \in {"claim", "lock"} /\ call'[c].op # "start"
      BY <1>5 DEF Resume, Cancel, Begins, Begin, Inv, TypeOK
    <2> QED BY <2>1, CallRoom DEF HasRoom
  <1>6. ASSUME NEW c \in Callers, Attached(c)
        PROVE  RoomInv'
    <2>1. /\ UNCHANGED task /\ call[c].pc = "attachment"
          /\ \A d \in Callers \ {c} : call'[d] = call[d]
          /\ \/ call'[c].pc = "register" /\ call'[c].service = call[c].service
             \/ call'[c].pc = "idle"
      BY <1>6 DEF Attached, Goto, Return, Idle, Inv, TypeOK, CallType
    <2> QED BY <2>1, CallRoom DEF HasRoom
  <1>7. ASSUME NEW c \in Callers, Register(c)
        PROVE  RoomInv'
    <2> DEFINE i == call[c].import
               new == [Absent EXCEPT !.registered = TRUE]
    <2>1. /\ UNCHANGED task /\ call[c].pc = "register" /\ call[c] \in CallType
          /\ \A d \in Callers \ {c} : call'[d] = call[d]
      BY <1>7 DEF Register, Return, Inv, TypeOK
    <2>2. CASE Return(c)
      <3>1. call'[c].pc = "idle"
        BY <2>2 DEF Return, Idle, Inv, TypeOK
      <3> QED BY <2>1, <3>1, CallRoom DEF HasRoom
    <2>3. ASSUME NEW read, read.attempt = 0,
                 call' = [call EXCEPT ![c].pc = "claim", ![c].request = read]
          PROVE  RoomInv'
      <3>1. /\ call'[c].pc = "claim" /\ call'[c].service = call[c].service
            /\ call'[c].request = read
        BY <2>1, <2>3 DEF CallType, Inv, TypeOK
      <3> QED BY <2>1, <2>3, <3>1, CallRoom
    <2>4. request[i].attempt \in Nat
      BY <2>1 DEF Inv, Known, TypeOK, RequestType
    <2>5. new.attempt = 0
      BY DEF Absent
    <2>6. ~(request[i].attempt > 0) => request[i].attempt = 0
      BY <2>4
    <2> HIDE DEF new
    <2> QED BY <1>7, <2>2, <2>3, <2>5, <2>6 DEF Register, new
  <1>8. ASSUME NEW c \in Callers, Claim(c)
        PROVE  RoomInv'
    <2>1. /\ UNCHANGED task /\ call[c].pc = "claim"
          /\ \A d \in Callers \ {c} : call'[d] = call[d]
          /\ \/ call'[c].pc = "idle"
             \/ /\ call'[c].pc = "attempt" /\ call'[c].service = call[c].service
                /\ ~Full(call[c].service)
      BY <1>8 DEF Claim, Admissible, Goto, Return, Idle, Inv, TypeOK, CallType
    <2> QED BY <2>1, CallRoom DEF HasRoom
  <1>9. ASSUME NEW c \in Callers, LockForCancel(c)
        PROVE  RoomInv'
    <2>1. /\ UNCHANGED task
          /\ \A d \in Callers \ {c} : call'[d] = call[d]
          /\ call'[c].pc \in {"idle", "cancel"}
      BY <1>9 DEF LockForCancel, Goto, Return, Idle, Inv, TypeOK, CallType
    <2> QED BY <2>1, CallRoom DEF HasRoom
  <1>10. ASSUME NEW c \in Callers, RequestCancel(c)
         PROVE  RoomInv'
    <2> DEFINE s == call[c].service
               i == call[c].import
    <2>1. /\ \A d \in Callers \ {c} : call'[d] = call[d]
          /\ call'[c].pc \in {"idle", "join"}
      BY <1>10 DEF RequestCancel, Join, Return, Idle, Inv, TypeOK, CallType
    <2>2. s \in Services /\ i \in Imports
      BY <1>10 DEF RequestCancel, Inv, Known
    <2>3. \A t \in Services, j \in Imports : task[t][j] = "none" => task'[t][j] = "none"
      BY <1>10, <2>2 DEF RequestCancel, StopTask, Inv, TypeOK
    <2>4. \A t \in Services :
            Tasks(t)' \subseteq Tasks(t) /\ Admitting(t)' \subseteq Admitting(t)
      BY <2>1, <2>3 DEF Tasks, Admitting
    <2>5. \A d \in Callers, t \in Services : HasRoom(d)' /\ call'[d].service = t =>
            HasRoom(d) /\ call[d].service = t
      BY <2>1 DEF HasRoom
    <2>6. \A d \in Callers :
            call'[d].pc = "claim" /\ call'[d].op = "start" => call'[d].request.attempt = 0
      BY <2>1 DEF RoomInv
    <2> QED BY <2>4, <2>5, <2>6, RoomStays
  <1>11. ASSUME NEW c \in Callers, StartAttempt(c)
         PROVE  RoomInv'
    <2>0. PICK s \in Services, i \in Imports : s = call[c].service /\ i = call[c].import
      BY <1>11 DEF StartAttempt, Inv, Known
    <2>1. /\ call[c].pc = "attempt" /\ ~Full(s)
          /\ \A d \in Callers \ {c} : call'[d] = call[d]
          /\ call'[c].pc = "idle"
      BY <1>11, <2>0 DEF StartAttempt, Return, Idle, Inv, Known, TypeOK, RoomInv, HasRoom
    <2>2. CASE UNCHANGED task
      BY <2>1, <2>2, CallRoom DEF HasRoom
    <2>3. CASE task' = [task EXCEPT ![s][i] = "created"]
      <3>1. \A t \in Services, j \in Imports : <<t, j>> # <<s, i>> => task'[t][j] = task[t][j]
        BY <2>1, <2>3 DEF Inv, TypeOK
      <3>2. /\ Tasks(s)' \subseteq Tasks(s) \cup {i}
            /\ \A t \in Services \ {s} : Tasks(t)' \subseteq Tasks(t)
            /\ \A t \in Services : Admitting(t)' \subseteq Admitting(t)
        BY <2>1, <3>1 DEF Tasks, Admitting
      <3>3. \A d \in Callers : HasRoom(d)' =>
              HasRoom(d) /\ call'[d].service = call[d].service /\ call[d].service # s
        BY <2>0, <2>1 DEF HasRoom, Inv, Alone, SyncPcs
      <3>4. \A d \in Callers :
              call'[d].pc = "claim" /\ call'[d].op = "start" => call'[d].request.attempt = 0
        BY <2>1 DEF RoomInv
      <3> QED BY <2>1, <3>2, <3>3, <3>4, RoomIsTaken
    <2> QED BY <1>11, <2>0, <2>2, <2>3 DEF StartAttempt
  <1> QED BY <1>1, <1>2, <1>3, <1>4, <1>5, <1>6, <1>7, <1>8, <1>9, <1>10, <1>11
          DEF Next, CallStep

\* The count of tasks and of reserved places is right in every state.
THEOREM RoomInvariance == Spec => [](Inv /\ RoomInv)
  <1>1. Init => Inv /\ RoomInv
    BY InitInv, InitRoom
  <1>2. (Inv /\ RoomInv) /\ [Next]_vars => (Inv /\ RoomInv)'
    BY NextInv, NextRoom
  <1> QED BY <1>1, <1>2, PTL DEF Spec

\* A service has at most max_active tasks and starts that read their original.
THEOREM KeptCapacity == Spec => []CapacityIsKept
  <1>1. RoomInv => CapacityIsKept
    BY DEF RoomInv
  <1> QED BY <1>1, RoomInvariance, PTL

\* A start that reserved its place gets it, unless the import runs or is locked.
THEOREM StartsArePlaced == Spec => StartsKeepTheirPlace
  <1>1. ASSUME Inv, RoomInv, NEW c \in Callers, Claim(c), call[c].op = "start"
        PROVE  \/ call'[c].pc = "attempt"
               \/ owner[call[c].import] # None
               \/ task[call[c].service][call[c].import] # "none"
    <2>1. call[c].pc = "claim" /\ call[c].service \in Services
      BY <1>1 DEF Claim, Inv, Known
    <2>2. ~Full(call[c].service) /\ call[c].request.attempt < MaxAttempts
      BY <1>1, <2>1, ImportsAssumption DEF RoomInv, HasRoom
    <2> QED BY <1>1, <2>2 DEF Claim, Admissible, Goto, Inv, TypeOK, CallType
  <1>2. Inv /\ RoomInv =>
          [\A c \in Callers :
             Claim(c) /\ call[c].op = "start" =>
               \/ call'[c].pc = "attempt"
               \/ owner[call[c].import] # None
               \/ task[call[c].service][call[c].import] # "none"]_vars
    BY <1>1
  <1> QED BY <1>2, RoomInvariance, PTL DEF Spec, StartsKeepTheirPlace

=============================================================================
