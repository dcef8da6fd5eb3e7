----------------------- MODULE SourceLifecycle_proofs -----------------------
(***************************************************************************)
(* Theorems about SourceLifecycle, for every value of its constants.        *)
(***************************************************************************)
EXTENDS SourceLifecycle, TLAPS

-----------------------------------------------------------------------------
(* Type correctness.  TypeOK is not inductive: a write step reads the key    *)
(* of the record in hand, and a retirement counts its budget down.  A held   *)
(* task has the record, or the budget, its step needs.                       *)

Holds(o) ==
  /\ o.pc \in WritePcs => o.cur \in Records
  /\ o.call = "replace" /\ o.pc \in ForgetPcs \cup {"prepare"} => o.cur \in Records
  /\ o.call = "recover" /\ o.pc \in ForgetPcs => o.budget > 0
  /\ o.pc \in RepairPcs => o.call = "recover"

Held == {o \in OpType : Holds(o)}

StoresTyped ==
  /\ rows \subseteq [id : Nat, key : Keys, text : Texts]
  /\ chunks \subseteq [chunk : Nat, id : Nat]
  /\ vectors \subseteq [chunk : Nat, id : Nat]
  /\ inflight \subseteq Keys
  /\ stones \subseteq [id : Nat, key : Keys]
  /\ intents \subseteq [id : Nat, key : Keys, gone : SUBSET Nat]
  /\ unbumped \subseteq Nat /\ links \subseteq Nat /\ trail \subseteq Nat
  /\ orphans \subseteq Nat
  /\ deleted \in BOOLEAN
  /\ nextId \in Nat /\ nextChunk \in Nat

TasksTyped ==
  /\ op \in [Actors -> Held]
  /\ mode \in {"serving", "down", "opening"}
  /\ faults \in Nat

LEMMA TypeParts == StoresTyped /\ TasksTyped => TypeOK
BY DEF TypeOK, StoresTyped, TasksTyped, Held

LEMMA SameStores == ASSUME StoresTyped, StoresUnchanged PROVE StoresTyped'
BY DEF StoresTyped, StoresUnchanged, documentVars, sideVars

\* The places a step moves to are places.
LEMMA PcNames ==
  /\ {"prepare", "bump", "link", "idle", "failed"} \subseteq Pcs
  /\ WritePcs \subseteq Pcs /\ UndoPcs \subseteq Pcs /\ ForgetPcs \subseteq Pcs
  /\ ErasePcs \subseteq Pcs /\ RepairPcs \subseteq Pcs
BY DEF Pcs, CommitPcs

LEMMA IdleType == Idle \in OpType /\ Holds(Idle) /\ Idle \in Held
<1>1. Idle \in OpType
  BY PcNames DEF Idle, OpType, Calls
<1>2. Holds(Idle)
  BY DEF Idle, Holds, WritePcs, ForgetPcs, RepairPcs
<1> QED
  BY <1>1, <1>2 DEF Held

\* A task that starts over with neither a record nor a budget to hold.
LEMMA FreshType ==
  ASSUME NEW p \in {"link", "revoke"}, NEW k \in {"remember", "replace", "forget"},
         NEW i \in Nat, k = "replace" => p = "link"
  PROVE  [Idle EXCEPT !.pc = p, !.call = k, !.target = i] \in Held
<1> DEFINE next == [Idle EXCEPT !.pc = p, !.call = k, !.target = i]
<1>1. next \in OpType
  BY IdleType, PcNames DEF OpType, Calls, ForgetPcs
<1>2. Holds(next)
  BY DEF Idle, Holds, WritePcs, ForgetPcs, RepairPcs
<1> QED
  BY <1>1, <1>2 DEF Held

LEMMA FailedType == ASSUME NEW o \in Held PROVE Failed(o) \in Held
<1>1. Failed(o) \in OpType
  BY PcNames, IdleType DEF Failed, Held, OpType
<1>2. Holds(Failed(o))
  BY DEF Failed, Idle, Holds, WritePcs, ForgetPcs, RepairPcs
<1> QED
  BY <1>1, <1>2 DEF Held

LEMMA RaisedType ==
  ASSUME TasksTyped, NEW a \in Actors PROVE Raised(a) \in Held
<1> op[a] \in Held /\ op[a] \in OpType /\ Holds(op[a])
  BY DEF TasksTyped, Held
<1>1. CASE a = Recovery
  BY <1>1, IdleType DEF Raised
<1>2. CASE a # Recovery /\ op[a].pc \in WritePcs
  <2> DEFINE pc == IF op[a].made = {} THEN "undoMarks" ELSE "undoRow"
  <2>1. pc \in Pcs /\ pc \in UndoPcs
    BY PcNames DEF UndoPcs
  <2>2. [op[a] EXCEPT !.undo = op[a].made, !.pc = pc] \in Held
    <3> DEFINE next == [op[a] EXCEPT !.undo = op[a].made, !.pc = pc]
    <3> HIDE DEF pc
    <3>1. next \in OpType
      BY <2>1 DEF OpType
    <3>2. Holds(next)
      BY <2>1 DEF Holds, OpType, UndoPcs, WritePcs, ForgetPcs, RepairPcs
    <3> QED
      BY <3>1, <3>2 DEF Held
  <2> QED
    BY <1>2, <2>2 DEF Raised
<1>3. CASE a # Recovery /\ op[a].pc \notin WritePcs
  BY <1>3, FailedType DEF Raised
<1> QED
  BY <1>1, <1>2, <1>3

LEMMA AnswerType ==
  ASSUME TasksTyped, NEW a \in Actors, NEW next \in Held, Answer(a, next)
  PROVE  TasksTyped'
BY RaisedType DEF Answer, Fault, Raise, TasksTyped

LEMMA GotoType ==
  ASSUME TasksTyped, NEW a \in Actors, NEW next \in Held, Goto(a, next)
  PROVE  TasksTyped'
BY DEF Goto, TasksTyped

LEMMA RaiseType ==
  ASSUME TasksTyped, NEW a \in Actors, Raise(a), faults' \in Nat
  PROVE  TasksTyped'
BY RaisedType DEF Raise, TasksTyped

\* The first step of a call, and the two looks around the embedder.
LEMMA BeginType ==
  ASSUME StoresTyped, TasksTyped, NEW c \in Clients,
         \/ \E b \in Batches, attach \in BOOLEAN : Remember(c, b, attach)
         \/ \E r \in Records, attach \in BOOLEAN : Replace(c, r, attach)
         \/ \E i \in 1..MaxSources : ForgetSource(c, i)
         \/ DeleteSpace(c) \/ Embedded(c) \/ Prepared(c) \/ Revoke(c)
  PROVE  StoresTyped' /\ TasksTyped'
<1> c \in Actors
  BY DEF Actors
<1> op[c] \in Held /\ op[c] \in OpType /\ Holds(op[c])
  BY DEF TasksTyped, Held
<1> USE DEF Records
<1>1. ASSUME NEW b \in Batches, NEW attach \in BOOLEAN, Remember(c, b, attach)
      PROVE  StoresTyped' /\ TasksTyped'
  <2> DEFINE fresh == {r \in b : RowsOf(r.key) = {}}
             names == {r.key : r \in fresh}
  <2>1. fresh \in SUBSET Records /\ names \in SUBSET Keys
    BY DEF Batches
  <2>2. [Idle EXCEPT !.pc = "prepare", !.call = "remember", !.todo = fresh,
                     !.attach = attach, !.keys = names] \in Held
    <3> DEFINE next == [Idle EXCEPT !.pc = "prepare", !.call = "remember",
                                    !.todo = fresh, !.attach = attach,
                                    !.keys = names]
    <3>1. next \in OpType
      BY <2>1, IdleType, PcNames, IdleType DEF OpType, Calls
    <3>2. Holds(next)
      BY <2>1, IdleType DEF Idle, Holds, WritePcs, ForgetPcs, RepairPcs
    <3> QED
      BY <3>1, <3>2 DEF Held
  <2>3. ASSUME NEW r \in b, NEW id \in EpisodeByHash(r.key)
        PROVE [Idle EXCEPT !.pc = "link", !.call = "remember", !.target = id] \in Held
    <3>1. id \in Nat
      BY DEF EpisodeByHash, RowsOf, StoresTyped
    <3> QED
      BY <3>1, FreshType
  <2>4. TasksTyped'
    BY <1>1, <2>2, <2>3, GotoType DEF Remember
  <2> QED
    BY <1>1, <2>4, SameStores DEF Remember
<1>2. ASSUME NEW r \in Records, NEW attach \in BOOLEAN, Replace(c, r, attach)
      PROVE  StoresTyped' /\ TasksTyped'
  <2>1. EpisodeByHash(r.key) \in SUBSET Nat
    BY DEF EpisodeByHash, RowsOf, StoresTyped
  <2>2. StoneByHash(r.key) \in SUBSET [id : Nat, key : Keys]
    BY DEF StoneByHash, StoresTyped
  <2>3. [Idle EXCEPT !.pc = "prepare", !.call = "replace", !.cur = r,
                     !.keys = {r.key}, !.attach = attach,
                     !.seenRows = EpisodeByHash(r.key),
                     !.seenStones = StoneByHash(r.key)] \in Held
    <3> DEFINE next == [Idle EXCEPT !.pc = "prepare", !.call = "replace",
                                    !.cur = r, !.keys = {r.key}, !.attach = attach,
                                    !.seenRows = EpisodeByHash(r.key),
                                    !.seenStones = StoneByHash(r.key)]
    <3>1. next \in OpType
      BY <2>1, <2>2, IdleType, PcNames, IdleType DEF OpType, Calls
    <3>2. Holds(next)
      BY <2>1, <2>2, IdleType DEF Idle, Holds, WritePcs, ForgetPcs, RepairPcs
    <3> QED
      BY <3>1, <3>2 DEF Held
  <2>4. ASSUME NEW id \in EpisodeByHash(r.key)
        PROVE [Idle EXCEPT !.pc = "link", !.call = "replace", !.target = id] \in Held
    BY <2>1, FreshType
  <2>5. TasksTyped'
    BY <1>2, <2>3, <2>4, GotoType DEF Replace
  <2> QED
    BY <1>2, <2>5, SameStores DEF Replace
<1>3. ASSUME NEW i \in 1..MaxSources, ForgetSource(c, i)
      PROVE  StoresTyped' /\ TasksTyped'
  <2>1. [Idle EXCEPT !.pc = "revoke", !.call = "forget", !.target = i] \in Held
    <3>1. i \in Nat
      OBVIOUS
    <3> QED
      BY <3>1, FreshType
  <2> QED
    BY <1>3, <2>1, GotoType, SameStores DEF ForgetSource
<1>4. CASE DeleteSpace(c)
  <2> DEFINE next == [Idle EXCEPT !.pc = "release", !.call = "delete"]
  <2>1. next \in OpType
    BY PcNames, IdleType DEF OpType, ErasePcs, Calls
  <2>2. Holds(next)
    BY DEF Idle, Holds, WritePcs, RepairPcs
  <2> QED
    BY <1>4, <2>1, <2>2, GotoType, SameStores DEF DeleteSpace, Held
<1>5. CASE Embedded(c)
  <2>1. ASSUME NEW r \in op[c].todo
        PROVE [op[c] EXCEPT !.pc = "mark", !.cur = r, !.todo = @ \ {r}] \in Held
    <3> DEFINE next == [op[c] EXCEPT !.pc = "mark", !.cur = r, !.todo = @ \ {r}]
    <3>1. next \in OpType
      BY PcNames DEF OpType, WritePcs
    <3>2. Holds(next)
      BY <1>5 DEF Embedded, Holds, OpType, WritePcs, ForgetPcs, RepairPcs
    <3> QED
      BY <3>1, <3>2 DEF Held
  <2> QED
    BY <1>5, <2>1, GotoType, SameStores DEF Embedded
<1>6. CASE Prepared(c)
  <2>1. [op[c] EXCEPT !.pc = "mark"] \in Held
    <3> DEFINE next == [op[c] EXCEPT !.pc = "mark"]
    <3>1. next \in OpType
      BY PcNames DEF OpType, WritePcs, ForgetPcs
    <3>2. Holds(next)
      BY <1>6 DEF Prepared, Holds, OpType, WritePcs, ForgetPcs, RepairPcs
    <3> QED
      BY <3>1, <3>2 DEF Held
  <2>2. ASSUME NEW id \in op[c].seenRows
        PROVE [op[c] EXCEPT !.pc = "revoke", !.target = id] \in Held
    <3> DEFINE next == [op[c] EXCEPT !.pc = "revoke", !.target = id]
    <3>1. next \in OpType
      BY PcNames DEF OpType, WritePcs, ForgetPcs
    <3>2. Holds(next)
      BY <1>6 DEF Prepared, Holds, OpType, WritePcs, ForgetPcs, RepairPcs
    <3> QED
      BY <3>1, <3>2 DEF Held
  <2> QED
    BY <1>6, <2>1, <2>2, FailedType, GotoType, SameStores DEF Prepared
<1>7. CASE Revoke(c)
  <2>1. [op[c] EXCEPT !.pc = "check"] \in Held
    <3> DEFINE next == [op[c] EXCEPT !.pc = "check"]
    <3>1. next \in OpType
      BY PcNames DEF OpType, ForgetPcs
    <3>2. Holds(next)
      BY <1>7 DEF Revoke, Holds, OpType, WritePcs, ForgetPcs, RepairPcs
    <3> QED
      BY <3>1, <3>2 DEF Held
  <2>2. ASSUME NEW r \in RowAt(op[c].target)
        PROVE [op[c] EXCEPT !.pc = "intent", !.keys = {r.key},
                            !.gone = ChunksOf(op[c].target)] \in Held
    <3>1. r.key \in Keys /\ ChunksOf(op[c].target) \in SUBSET Nat
      BY DEF RowAt, ChunksOf, StoresTyped
    <3> DEFINE next == [op[c] EXCEPT !.pc = "intent", !.keys = {r.key},
                                     !.gone = ChunksOf(op[c].target)]
    <3>2. next \in OpType
      BY <3>1, PcNames DEF OpType, ForgetPcs
    <3>3. Holds(next)
      BY <1>7, <3>1 DEF Revoke, Holds, OpType, WritePcs, ForgetPcs, RepairPcs
    <3> QED
      BY <3>2, <3>3 DEF Held
  <2> QED
    BY <1>7, <2>1, <2>2, FailedType, GotoType, SameStores DEF Revoke
<1> QED
  BY <1>1, <1>2, <1>3, <1>4, <1>5, <1>6, <1>7

\* write_batch, its handler, and the link that follows it.
LEMMA WriteType ==
  ASSUME StoresTyped, TasksTyped, NEW c \in Clients,
         \/ Mark(c) \/ InsertEpisode(c) \/ EpisodeConflict(c) \/ InsertChunks(c)
         \/ UpsertVectors(c) \/ ClearMark(c) \/ BumpAfterWrite(c) \/ Link(c)
  PROVE  StoresTyped' /\ TasksTyped'
<1> c \in Actors
  BY DEF Actors
<1> op[c] \in Held /\ op[c] \in OpType /\ Holds(op[c])
  BY DEF TasksTyped, Held
<1> op[c].cur \in Records \cup {NoRecord} /\ op[c].target \in Nat /\ op[c].gone \subseteq Nat
  BY DEF Held, Holds, OpType, WritePcs, ForgetPcs, RepairPcs
<1> nextId \in Nat /\ nextChunk \in Nat
  BY DEF StoresTyped
<1> USE DEF documentVars, sideVars
<1>1. CASE Mark(c)
  <2>1. [op[c] EXCEPT !.pc = "row"] \in Held
    <3> DEFINE next == [op[c] EXCEPT !.pc = "row"]
    <3>1. next \in OpType
      BY PcNames DEF OpType, WritePcs
    <3>2. Holds(next)
      BY <1>1 DEF Mark, Holds, OpType, WritePcs, ForgetPcs, RepairPcs
    <3> QED
      BY <3>1, <3>2 DEF Held
  <2>2. TasksTyped'
    BY <1>1, <2>1, AnswerType DEF Mark
  <2>3. op[c].cur.key \in Keys
    BY <1>1 DEF Mark, Held, Holds, WritePcs, Records, RepairPcs
  <2> QED
    BY <1>1, <2>2, <2>3 DEF Mark, StoresTyped
<1>2. CASE InsertEpisode(c)
  <2>1. [op[c] EXCEPT !.pc = "chunk", !.target = nextId, !.made = @ \cup {nextId}] \in Held
    <3> DEFINE next == [op[c] EXCEPT !.pc = "chunk", !.target = nextId,
                                     !.made = @ \cup {nextId}]
    <3>1. next \in OpType
      BY PcNames DEF OpType, WritePcs
    <3>2. Holds(next)
      BY <1>2 DEF InsertEpisode, Holds, OpType, WritePcs, ForgetPcs, RepairPcs
    <3> QED
      BY <3>1, <3>2 DEF Held
  <2>2. TasksTyped'
    <3>1. Answer(c, [op[c] EXCEPT !.pc = "chunk", !.target = nextId,
                                  !.made = @ \cup {nextId}])
      BY <1>2 DEF InsertEpisode, Answer, Goto
    <3> QED BY <2>1, <3>1, AnswerType
  <2>3. op[c].cur \in [key : Keys, text : Texts]
    BY <1>2 DEF InsertEpisode, Held, Holds, WritePcs, Records, RepairPcs
  <2>4. rows' \subseteq [id : Nat, key : Keys, text : Texts]
    BY <1>2, <2>3 DEF InsertEpisode, StoresTyped
  <2> QED
    BY <1>2, <2>2, <2>4 DEF InsertEpisode, StoresTyped
<1>3. CASE EpisodeConflict(c)
  <2>1. faults' \in Nat
    BY <1>3 DEF EpisodeConflict, TasksTyped
  <2> QED
    BY <1>3, <2>1, RaiseType, SameStores DEF EpisodeConflict
<1>4. CASE InsertChunks(c)
  <2>1. [op[c] EXCEPT !.pc = "vector", !.gone = {nextChunk}] \in Held
    <3> DEFINE next == [op[c] EXCEPT !.pc = "vector", !.gone = {nextChunk}]
    <3>1. next \in OpType
      BY PcNames DEF OpType, WritePcs
    <3>2. Holds(next)
      BY <1>4 DEF InsertChunks, Holds, OpType, WritePcs, ForgetPcs, RepairPcs
    <3> QED
      BY <3>1, <3>2 DEF Held
  <2>2. TasksTyped'
    BY <1>4, <2>1, AnswerType DEF InsertChunks
  <2> QED
    BY <1>4, <2>2 DEF InsertChunks, StoresTyped
<1>5. CASE UpsertVectors(c)
  <2>1. [op[c] EXCEPT !.pc = "clear", !.gone = {}] \in Held
    <3> DEFINE next == [op[c] EXCEPT !.pc = "clear", !.gone = {}]
    <3>1. next \in OpType
      BY PcNames DEF OpType, WritePcs
    <3>2. Holds(next)
      BY <1>5 DEF UpsertVectors, Holds, OpType, WritePcs, ForgetPcs, RepairPcs
    <3> QED
      BY <3>1, <3>2 DEF Held
  <2>2. TasksTyped'
    BY <1>5, <2>1, AnswerType DEF UpsertVectors
  <2>3. vectors' \subseteq [chunk : Nat, id : Nat]
    BY <1>5 DEF UpsertVectors, Upserted, StoresTyped
  <2> QED
    BY <1>5, <2>2, <2>3 DEF UpsertVectors, StoresTyped
<1>6. CASE ClearMark(c)
  <2>1. [op[c] EXCEPT !.pc = "bump"] \in Held
    <3> DEFINE next == [op[c] EXCEPT !.pc = "bump"]
    <3>1. next \in OpType
      BY PcNames DEF OpType
    <3>2. Holds(next)
      BY <1>6 DEF ClearMark, Holds, OpType, WritePcs, ForgetPcs, RepairPcs
    <3> QED
      BY <3>1, <3>2 DEF Held
  <2>2. ASSUME NEW r \in op[c].todo
        PROVE [op[c] EXCEPT !.pc = "mark", !.cur = r, !.todo = @ \ {r}] \in Held
    <3> DEFINE next == [op[c] EXCEPT !.pc = "mark", !.cur = r, !.todo = @ \ {r}]
    <3>1. next \in OpType
      BY PcNames DEF OpType, WritePcs
    <3>2. Holds(next)
      BY <1>6 DEF ClearMark, Holds, OpType, WritePcs, ForgetPcs, RepairPcs
    <3> QED
      BY <3>1, <3>2 DEF Held
  <2>3. TasksTyped'
    BY <1>6, <2>1, <2>2, AnswerType DEF ClearMark
  <2> QED
    BY <1>6, <2>3 DEF ClearMark, StoresTyped
<1>7. CASE BumpAfterWrite(c)
  <2>1. [op[c] EXCEPT !.pc = "link"] \in Held
    <3> DEFINE next == [op[c] EXCEPT !.pc = "link"]
    <3>1. next \in OpType
      BY PcNames DEF OpType
    <3>2. Holds(next)
      BY <1>7 DEF BumpAfterWrite, Holds, OpType, WritePcs, ForgetPcs, RepairPcs
    <3> QED
      BY <3>1, <3>2 DEF Held
  <2>2. TasksTyped'
    BY <1>7, <2>1, IdleType, AnswerType DEF BumpAfterWrite
  <2> QED
    BY <1>7, <2>2 DEF BumpAfterWrite, StoresTyped
<1>8. CASE Link(c)
  <2>1. TasksTyped'
    BY <1>8, IdleType, AnswerType DEF Link
  <2> QED
    BY <1>8, <2>1 DEF Link, StoresTyped
<1> QED
  BY <1>1, <1>2, <1>3, <1>4, <1>5, <1>6, <1>7, <1>8

LEMMA UndoType ==
  ASSUME StoresTyped, TasksTyped, NEW c \in Clients,
         UndoEpisode(c) \/ UndoVectors(c) \/ UndoMark(c)
  PROVE  StoresTyped' /\ TasksTyped'
<1> c \in Actors
  BY DEF Actors
<1> op[c] \in Held /\ op[c] \in OpType /\ Holds(op[c])
  BY DEF TasksTyped, Held
<1> USE DEF documentVars, sideVars
<1>1. CASE UndoEpisode(c)
  <2>1. ASSUME NEW id \in op[c].undo
        PROVE /\ id \in Nat
              /\ [op[c] EXCEPT !.pc = "undoVectors", !.gone = ChunksOf(id),
                               !.target = id] \in Held
    <3>1. id \in Nat /\ ChunksOf(id) \in SUBSET Nat
      BY DEF ChunksOf, StoresTyped, OpType
    <3> DEFINE next == [op[c] EXCEPT !.pc = "undoVectors", !.gone = ChunksOf(id),
                                     !.target = id]
    <3>2. next \in OpType
      BY <3>1, PcNames DEF OpType, UndoPcs
    <3>3. Holds(next)
      BY <1>1, <3>1 DEF UndoEpisode, Holds, OpType, WritePcs, UndoPcs, ForgetPcs, RepairPcs
    <3> QED
      BY <3>1, <3>2, <3>3 DEF Held
  <2>2. TasksTyped'
    BY <1>1, <2>1, AnswerType DEF UndoEpisode
  <2>3. unbumped' \subseteq Nat
    BY <1>1, <2>1 DEF UndoEpisode, StoresTyped
  <2> QED
    BY <1>1, <2>2, <2>3 DEF UndoEpisode, StoresTyped
<1>2. CASE UndoVectors(c)
  <2> DEFINE left == op[c].undo \ {op[c].target}
             pc == IF left = {} THEN "undoMarks" ELSE "undoRow"
  <2>1. left \in SUBSET Nat /\ pc \in Pcs /\ pc \in UndoPcs
    BY PcNames DEF OpType, UndoPcs
  <2>2. [op[c] EXCEPT !.gone = {}, !.undo = left, !.pc = pc] \in Held
    <3> DEFINE next == [op[c] EXCEPT !.gone = {}, !.undo = left, !.pc = pc]
    <3> HIDE DEF left, pc
    <3>1. next \in OpType
      BY <2>1 DEF OpType
    <3>2. Holds(next)
      BY <2>1 DEF Holds, OpType, UndoPcs, WritePcs, ForgetPcs, RepairPcs
    <3> QED
      BY <3>1, <3>2 DEF Held
  <2>3. TasksTyped'
    BY <1>2, <2>2, AnswerType DEF UndoVectors
  <2> QED
    BY <1>2, <2>3 DEF UndoVectors, StoresTyped
<1>3. CASE UndoMark(c)
  <2>1. ASSUME NEW k \in op[c].keys
        PROVE [op[c] EXCEPT !.keys = @ \ {k}] \in Held
    <3> DEFINE next == [op[c] EXCEPT !.keys = @ \ {k}]
    <3>1. next \in OpType
      BY PcNames DEF OpType
    <3>2. Holds(next)
      BY <1>3 DEF UndoMark, Holds, OpType, WritePcs, ForgetPcs, RepairPcs
    <3> QED
      BY <3>1, <3>2 DEF Held
  <2>2. TasksTyped'
    BY <1>3, <2>1, FailedType, AnswerType DEF UndoMark
  <2> QED
    BY <1>3, <2>2 DEF UndoMark, StoresTyped
<1> QED
  BY <1>1, <1>2, <1>3
\* _finish_forget and the intent before it.
LEMMA ForgetType ==
  ASSUME StoresTyped, TasksTyped, NEW a \in Actors,
         RecordIntent(a) \/ FinishForget(a)
  PROVE  StoresTyped' /\ TasksTyped'
<1> op[a] \in Held /\ op[a] \in OpType /\ Holds(op[a])
  BY DEF TasksTyped, Held
<1> op[a].target \in Nat /\ op[a].keys \subseteq Keys /\ op[a].gone \subseteq Nat
  BY DEF OpType
<1> USE DEF documentVars, sideVars, WritePcs, ForgetPcs
<1>1. CASE RecordIntent(a)
  <2>1. [op[a] EXCEPT !.pc = "check", !.gone = {}] \in Held
    <3> DEFINE next == [op[a] EXCEPT !.pc = "check", !.gone = {}]
    <3>1. next \in OpType
      BY PcNames DEF OpType, ForgetPcs
    <3>2. Holds(next)
      BY <1>1 DEF RecordIntent, Holds, OpType, WritePcs, ForgetPcs, RepairPcs
    <3> QED
      BY <3>1, <3>2 DEF Held
  <2>2. TasksTyped'
    BY <1>1, <2>1, AnswerType DEF RecordIntent
  <2>3. intents' \subseteq [id : Nat, key : Keys, gone : SUBSET Nat]
    BY <1>1 DEF RecordIntent, StoresTyped
  <2> QED
    BY <1>1, <2>2, <2>3 DEF RecordIntent, StoresTyped
<1>2. CASE CheckIntent(a)
  <2>1. ASSUME NEW p \in IntentAt(op[a].target)
        PROVE [op[a] EXCEPT !.pc = "rows", !.gone = p.gone, !.keys = {p.key}] \in Held
    <3>1. p.gone \in SUBSET Nat /\ p.key \in Keys
      BY DEF IntentAt, StoresTyped
    <3> DEFINE next == [op[a] EXCEPT !.pc = "rows", !.gone = p.gone,
                                     !.keys = {p.key}]
    <3>2. next \in OpType
      BY <3>1, PcNames DEF OpType, ForgetPcs
    <3>3. Holds(next)
      BY <1>2, <3>1 DEF CheckIntent, Holds, OpType, WritePcs, ForgetPcs, RepairPcs
    <3> QED
      BY <3>2, <3>3 DEF Held
  <2>2. TasksTyped'
    BY <1>2, <2>1, GotoType, RaiseType DEF CheckIntent, TasksTyped
  <2> QED
    BY <1>2, <2>2, SameStores DEF CheckIntent
<1>3. CASE DeleteRows(a)
  <2>1. [op[a] EXCEPT !.pc = "points"] \in Held
    <3> DEFINE next == [op[a] EXCEPT !.pc = "points"]
    <3>1. next \in OpType
      BY PcNames DEF OpType, ForgetPcs
    <3>2. Holds(next)
      BY <1>3 DEF DeleteRows, Holds, OpType, WritePcs, ForgetPcs, RepairPcs
    <3> QED
      BY <3>1, <3>2 DEF Held
  <2>2. TasksTyped'
    BY <1>3, <2>1, AnswerType DEF DeleteRows
  <2> QED
    BY <1>3, <2>2 DEF DeleteRows, StoresTyped
<1>4. CASE DeleteVectors(a)
  <2>1. [op[a] EXCEPT !.pc = "unlink"] \in Held
    <3> DEFINE next == [op[a] EXCEPT !.pc = "unlink"]
    <3>1. next \in OpType
      BY PcNames DEF OpType, ForgetPcs
    <3>2. Holds(next)
      BY <1>4 DEF DeleteVectors, Holds, OpType, WritePcs, ForgetPcs, RepairPcs
    <3> QED
      BY <3>1, <3>2 DEF Held
  <2>2. TasksTyped'
    BY <1>4, <2>1, AnswerType DEF DeleteVectors
  <2> QED
    BY <1>4, <2>2 DEF DeleteVectors, StoresTyped
<1>5. CASE Unlink(a)
  <2>1. [op[a] EXCEPT !.pc = "stone"] \in Held
    <3> DEFINE next == [op[a] EXCEPT !.pc = "stone"]
    <3>1. next \in OpType
      BY PcNames DEF OpType, ForgetPcs
    <3>2. Holds(next)
      BY <1>5 DEF Unlink, Holds, OpType, WritePcs, ForgetPcs, RepairPcs
    <3> QED
      BY <3>1, <3>2 DEF Held
  <2>2. TasksTyped'
    BY <1>5, <2>1, AnswerType DEF Unlink
  <2> QED
    BY <1>5, <2>2 DEF Unlink, StoresTyped
<1>6. CASE RecordStone(a)
  <2>1. [op[a] EXCEPT !.pc = "unmark"] \in Held
    <3> DEFINE next == [op[a] EXCEPT !.pc = "unmark"]
    <3>1. next \in OpType
      BY PcNames DEF OpType, ForgetPcs
    <3>2. Holds(next)
      BY <1>6 DEF RecordStone, Holds, OpType, WritePcs, ForgetPcs, RepairPcs
    <3> QED
      BY <3>1, <3>2 DEF Held
  <2>2. TasksTyped'
    BY <1>6, <2>1, AnswerType DEF RecordStone
  <2>3. stones' \subseteq [id : Nat, key : Keys]
    BY <1>6 DEF RecordStone, StoresTyped
  <2> QED
    BY <1>6, <2>2, <2>3 DEF RecordStone, StoresTyped
<1>7. CASE Unmark(a)
  <2>1. [op[a] EXCEPT !.pc = "announce"] \in Held
    <3> DEFINE next == [op[a] EXCEPT !.pc = "announce"]
    <3>1. next \in OpType
      BY PcNames DEF OpType, ForgetPcs
    <3>2. Holds(next)
      BY <1>7 DEF Unmark, Holds, OpType, WritePcs, ForgetPcs, RepairPcs
    <3> QED
      BY <3>1, <3>2 DEF Held
  <2>2. TasksTyped'
    BY <1>7, <2>1, AnswerType DEF Unmark
  <2> QED
    BY <1>7, <2>2 DEF Unmark, StoresTyped
<1>8. CASE BumpAfterForget(a)
  <2>1. [op[a] EXCEPT !.pc = "event"] \in Held
    <3> DEFINE next == [op[a] EXCEPT !.pc = "event"]
    <3>1. next \in OpType
      BY PcNames DEF OpType, ForgetPcs
    <3>2. Holds(next)
      BY <1>8 DEF BumpAfterForget, Holds, OpType, WritePcs, ForgetPcs, RepairPcs
    <3> QED
      BY <3>1, <3>2 DEF Held
  <2>2. TasksTyped'
    BY <1>8, <2>1, AnswerType DEF BumpAfterForget
  <2> QED
    BY <1>8, <2>2 DEF BumpAfterForget, StoresTyped
<1>9. CASE AppendEvent(a)
  <2>1. [op[a] EXCEPT !.pc = "ack"] \in Held
    <3> DEFINE next == [op[a] EXCEPT !.pc = "ack"]
    <3>1. next \in OpType
      BY PcNames DEF OpType, ForgetPcs
    <3>2. Holds(next)
      BY <1>9 DEF AppendEvent, Holds, OpType, WritePcs, ForgetPcs, RepairPcs
    <3> QED
      BY <3>1, <3>2 DEF Held
  <2>2. TasksTyped'
    BY <1>9, <2>1, AnswerType DEF AppendEvent
  <2> QED
    BY <1>9, <2>2 DEF AppendEvent, StoresTyped
<1>10. CASE Acknowledge(a)
  <2>1. Forgotten(op[a]) \in Held
    <3>1. CASE op[a].call = "replace"
      <4> DEFINE next == [op[a] EXCEPT !.pc = "mark", !.target = 0, !.gone = {}]
      <4>1. next \in OpType
        BY PcNames DEF OpType
      <4>2. Holds(next)
        BY <1>10, <3>1 DEF Acknowledge, Holds, OpType, RepairPcs
      <4>3. Forgotten(op[a]) = next
        BY <3>1 DEF Forgotten
      <4> QED
        BY <4>1, <4>2, <4>3 DEF Held
    <3>2. CASE op[a].call = "recover"
      <4>1. op[a].budget - 1 \in Nat
        BY <1>10, <3>2 DEF Acknowledge, Held, Holds, OpType, RepairPcs
      <4> QED
        <5> DEFINE next == [Idle EXCEPT !.pc = "retire", !.call = "recover",
                                        !.budget = op[a].budget - 1]
        <5>1. next \in OpType
          BY <4>1, PcNames, IdleType DEF OpType, RepairPcs, Calls
        <5>2. Holds(next)
          BY DEF Idle, Holds, RepairPcs
        <5>3. Forgotten(op[a]) = next
          BY <3>2 DEF Forgotten
        <5> QED
          BY <5>1, <5>2, <5>3 DEF Held
    <3>3. CASE op[a].call \notin {"replace", "recover"}
      BY <3>3, IdleType DEF Forgotten
    <3> QED
      BY <3>1, <3>2, <3>3
  <2>2. TasksTyped'
    BY <1>10, <2>1, AnswerType DEF Acknowledge
  <2> QED
    BY <1>10, <2>2 DEF Acknowledge, StoresTyped
<1> QED
  BY <1>1, <1>2, <1>3, <1>4, <1>5, <1>6, <1>7, <1>8, <1>9, <1>10 DEF FinishForget

LEMMA EraseType ==
  ASSUME StoresTyped, TasksTyped, NEW c \in Clients,
         ReleaseBlobs(c) \/ EraseDocuments(c) \/ SweepVectors(c) \/ PurgeEvents(c)
  PROVE  StoresTyped' /\ TasksTyped'
<1> c \in Actors
  BY DEF Actors
<1> op[c] \in Held /\ op[c] \in OpType /\ Holds(op[c])
  BY DEF TasksTyped, Held
<1> USE DEF documentVars, sideVars
<1>1. ASSUME NEW pc \in ErasePcs
      PROVE [op[c] EXCEPT !.pc = pc] \in Held
  <2> DEFINE next == [op[c] EXCEPT !.pc = pc]
  <2>1. next \in OpType
    BY PcNames DEF OpType
  <2>2. Holds(next)
    BY DEF Holds, OpType, ErasePcs, WritePcs, ForgetPcs, RepairPcs
  <2> QED
    BY <2>1, <2>2 DEF Held
<1>2. {"erase", "sweep", "purge"} \subseteq ErasePcs
  BY DEF ErasePcs
<1>3. CASE ReleaseBlobs(c)
  <2>1. TasksTyped'
    BY <1>1, <1>2, <1>3, AnswerType DEF ReleaseBlobs
  <2> QED
    BY <1>3, <2>1 DEF ReleaseBlobs, StoresTyped
<1>4. CASE EraseDocuments(c)
  <2>1. TasksTyped'
    BY <1>1, <1>2, <1>4, AnswerType DEF EraseDocuments
  <2> QED
    BY <1>4, <2>1 DEF EraseDocuments, StoresTyped
<1>5. CASE SweepVectors(c)
  <2>1. TasksTyped'
    BY <1>1, <1>2, <1>5, AnswerType DEF SweepVectors
  <2> QED
    BY <1>5, <2>1 DEF SweepVectors, StoresTyped
<1>6. CASE PurgeEvents(c)
  <2>1. TasksTyped'
    BY <1>6, IdleType, AnswerType DEF PurgeEvents
  <2> QED
    BY <1>6, <2>1 DEF PurgeEvents, StoresTyped
<1> QED
  BY <1>3, <1>4, <1>5, <1>6
\* The recovery pass.
LEMMA RecoveryType ==
  ASSUME StoresTyped, TasksTyped, RecoveryStep(Recovery)
  PROVE  StoresTyped' /\ TasksTyped'
<1> DEFINE a == Recovery
<1> a \in Actors
  BY DEF Actors
<1> op[a] \in Held /\ op[a] \in OpType /\ Holds(op[a])
  BY DEF TasksTyped, Held
<1> op[a].target \in Nat /\ op[a].gone \subseteq Nat
  BY DEF OpType
<1> nextChunk \in Nat
  BY DEF StoresTyped
<1> HIDE DEF a
<1> USE DEF documentVars, sideVars, WritePcs, ForgetPcs
<1>1. CASE Recover(a)
  <2> DEFINE next == [Idle EXCEPT !.pc = "retire", !.call = "recover",
                                  !.budget = RetireLimit]
  <2>1. next \in OpType
    BY PcNames, IdleType, ConstantsAssumption DEF OpType, RepairPcs, Calls
  <2>2. Holds(next)
    BY DEF Idle, Holds, RepairPcs
  <2>3. TasksTyped'
    BY <1>1, <2>1, <2>2 DEF Recover, TasksTyped, Held
  <2> QED
    BY <1>1, <2>3, SameStores DEF Recover
<1>2. CASE RetireNext(a)
  <2>1. ASSUME NEW p \in intents
        PROVE [op[a] EXCEPT !.pc = "check", !.target = p.id] \in Held
    <3>1. p.id \in Nat
      BY DEF StoresTyped
    <3> DEFINE next == [op[a] EXCEPT !.pc = "check", !.target = p.id]
    <3>2. next \in OpType
      BY <3>1, PcNames DEF OpType, ForgetPcs
    <3>3. Holds(next)
      BY <1>2, <3>1 DEF RetireNext, Holds, OpType, WritePcs, ForgetPcs, RepairPcs
    <3> QED
      BY <3>2, <3>3 DEF Held
  <2> QED
    BY <1>2, <2>1, GotoType, SameStores DEF RetireNext
<1>3. CASE Backlog(a)
  <2>1. TasksTyped'
    BY <1>3, IdleType DEF Backlog, TasksTyped
  <2> QED
    BY <1>3, <2>1, SameStores DEF Backlog
<1>4. CASE StartRepair(a)
  <2>1. [op[a] EXCEPT !.pc = "repair", !.marks = inflight] \in Held
    <3> DEFINE next == [op[a] EXCEPT !.pc = "repair", !.marks = inflight]
    <3>1. next \in OpType
      BY PcNames DEF StoresTyped, OpType, RepairPcs
    <3>2. Holds(next)
      BY <1>4 DEF StartRepair, Holds, OpType, WritePcs, ForgetPcs, RepairPcs
    <3> QED
      BY <3>1, <3>2 DEF Held
  <2> QED
    BY <1>4, <2>1, GotoType, SameStores DEF StartRepair
<1>5. CASE RepairMark(a)
  <2>1. op[a].call = "recover" /\ op[a].marks \subseteq Keys
    BY <1>5 DEF RepairMark, Held, Holds, OpType, RepairPcs
  <2>2. ASSUME NEW k \in op[a].marks
        PROVE [op[a] EXCEPT !.pc = "settle", !.keys = {k}] \in Held
    <3> DEFINE next == [op[a] EXCEPT !.pc = "settle", !.keys = {k}]
    <3>1. next \in OpType
      BY <2>1, PcNames DEF OpType, RepairPcs
    <3>2. Holds(next)
      BY <2>1 DEF Holds, OpType, RepairPcs
    <3> QED
      BY <3>1, <3>2 DEF Held
  <2>3. ASSUME NEW k \in op[a].marks, NEW id \in EpisodeByHash(k),
               NEW pc \in {"rechunk", "revector"}
        PROVE [op[a] EXCEPT !.target = id, !.gone = ChunksOf(id), !.keys = {k},
                            !.pc = pc] \in Held
    <3> DEFINE next == [op[a] EXCEPT !.target = id, !.gone = ChunksOf(id),
                                     !.keys = {k}, !.pc = pc]
    <3>1. id \in Nat /\ ChunksOf(id) \in SUBSET Nat
      BY DEF EpisodeByHash, RowsOf, ChunksOf, StoresTyped
    <3>2. next \in OpType
      <4>1. pc \in Pcs
        BY DEF Pcs, CommitPcs, RepairPcs
      <4> QED
        BY <2>1, <3>1, <4>1 DEF OpType
    <3>3. Holds(next)
      BY <2>1 DEF Holds, OpType, RepairPcs
    <3> QED
      BY <3>2, <3>3 DEF Held
  <2> QED
    BY <1>5, <2>2, <2>3, GotoType, SameStores DEF RepairMark
<1>6. CASE Rechunk(a)
  <2>1. [op[a] EXCEPT !.pc = "revector", !.gone = {nextChunk}] \in Held
    <3> DEFINE next == [op[a] EXCEPT !.pc = "revector", !.gone = {nextChunk}]
    <3>1. next \in OpType
      BY PcNames DEF OpType, RepairPcs
    <3>2. Holds(next)
      BY <1>6 DEF Rechunk, Holds, OpType, WritePcs, ForgetPcs, RepairPcs
    <3> QED
      BY <3>1, <3>2 DEF Held
  <2>2. TasksTyped'
    BY <1>6, <2>1, AnswerType DEF Rechunk
  <2> QED
    BY <1>6, <2>2 DEF Rechunk, StoresTyped
<1>7. CASE Revector(a)
  <2>1. [op[a] EXCEPT !.pc = "settle", !.gone = {}] \in Held
    <3> DEFINE next == [op[a] EXCEPT !.pc = "settle", !.gone = {}]
    <3>1. next \in OpType
      BY PcNames DEF OpType, RepairPcs
    <3>2. Holds(next)
      BY <1>7 DEF Revector, Holds, OpType, WritePcs, ForgetPcs, RepairPcs
    <3> QED
      BY <3>1, <3>2 DEF Held
  <2>2. TasksTyped'
    BY <1>7, <2>1, AnswerType DEF Revector
  <2>3. vectors' \subseteq [chunk : Nat, id : Nat]
    BY <1>7 DEF Revector, Upserted, StoresTyped
  <2> QED
    BY <1>7, <2>2, <2>3 DEF Revector, StoresTyped
<1>8. CASE SettleMark(a)
  <2>1. [op[a] EXCEPT !.pc = "repair", !.marks = @ \ op[a].keys,
                      !.keys = {}, !.target = 0] \in Held
    <3> DEFINE next == [op[a] EXCEPT !.pc = "repair", !.marks = @ \ op[a].keys,
                                     !.keys = {}, !.target = 0]
    <3>1. next \in OpType
      BY PcNames DEF OpType, RepairPcs
    <3>2. Holds(next)
      BY <1>8 DEF SettleMark, Holds, OpType, WritePcs, ForgetPcs, RepairPcs
    <3> QED
      BY <3>1, <3>2 DEF Held
  <2>2. TasksTyped'
    BY <1>8, <2>1, AnswerType DEF SettleMark
  <2> QED
    BY <1>8, <2>2 DEF SettleMark, StoresTyped
<1>9. CASE Recovered(a)
  <2>1. TasksTyped'
    BY <1>9, IdleType DEF Recovered, TasksTyped
  <2> QED
    BY <1>9, <2>1, SameStores DEF Recovered
<1> QED
  BY <1>1, <1>2, <1>3, <1>4, <1>5, <1>6, <1>7, <1>8, <1>9 DEF RecoveryStep, a

LEMMA FaultType ==
  ASSUME StoresTyped, TasksTyped,
         \/ \E a \in Actors : Refuse(a)
         \/ \E c \in Clients : Cancel(c)
         \/ Crash
  PROVE  StoresTyped' /\ TasksTyped'
<1>1. ASSUME NEW a \in Actors, Refuse(a) PROVE StoresTyped' /\ TasksTyped'
  <2>1. faults' \in Nat
    BY <1>1 DEF Refuse, Fault, TasksTyped
  <2> QED
    BY <1>1, <2>1, RaiseType, SameStores DEF Refuse
<1>2. ASSUME NEW c \in Clients, Cancel(c) PROVE StoresTyped' /\ TasksTyped'
  <2>1. op' \in [Actors -> Held]
    BY <1>2, IdleType DEF Cancel, TasksTyped
  <2>2. mode' = mode /\ faults' \in Nat
    BY <1>2 DEF Cancel, Fault, TasksTyped
  <2> QED
    BY <1>2, <2>1, <2>2, SameStores DEF Cancel, TasksTyped
<1>3. CASE Crash
  BY <1>3, IdleType, SameStores DEF Crash, Fault, TasksTyped
<1> QED
  BY <1>1, <1>2, <1>3

LEMMA InitType == Init => StoresTyped /\ TasksTyped
<1> SUFFICES ASSUME Init PROVE StoresTyped /\ TasksTyped
  OBVIOUS
<1>1. StoresTyped
  BY DEF Init, StoresTyped
<1>2. TasksTyped
  BY IdleType DEF Init, TasksTyped
<1> QED
  BY <1>1, <1>2

LEMMA StepType ==
  StoresTyped /\ TasksTyped /\ [Next]_vars => (StoresTyped /\ TasksTyped)'
<1> SUFFICES ASSUME StoresTyped, TasksTyped, [Next]_vars
             PROVE  StoresTyped' /\ TasksTyped'
  OBVIOUS
<1>1. ASSUME NEW c \in Clients, ClientStep(c) PROVE StoresTyped' /\ TasksTyped'
  <2>1. c \in Actors
    BY DEF Actors
  <2> QED
    BY <1>1, <2>1, BeginType, WriteType, UndoType, ForgetType, EraseType DEF ClientStep
<1>2. CASE UNCHANGED vars
  BY <1>2, SameStores DEF vars, StoresUnchanged, TasksTyped
<1> QED
  BY <1>1, <1>2, ForgetType, RecoveryType, FaultType DEF Next

\* Every store holds what its schema says and every task what its step needs,
\* however calls interleave and whatever faults occur.
THEOREM TypeCorrect == Spec => []TypeOK
<1>1. Spec => [](StoresTyped /\ TasksTyped)
  BY InitType, StepType, PTL DEF Spec
<1> QED
  BY <1>1, TypeParts, PTL
=============================================================================
