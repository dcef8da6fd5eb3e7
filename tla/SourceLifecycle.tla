-------------------------- MODULE SourceLifecycle ---------------------------
(***************************************************************************)
(* The life of a source in one memory space: remember_many, replace,       *)
(* forget, delete_space and recover, each a sequence of awaited calls on    *)
(* four stores (documents, vectors, blobs, events) that share no            *)
(* transaction.  A call may be refused, may take effect and lose its        *)
(* answer, the task may be cancelled between two calls, and the process may *)
(* crash; the next open() runs the recovery pass.                           *)
(*                                                                          *)
(* Every text is one chunk: what matters is whether a source's chunks and   *)
(* its vectors are there, not how many there are.                           *)
(***************************************************************************)
EXTENDS Naturals, FiniteSets

CONSTANTS Clients,       \* tasks calling the engine
          Recovery,      \* the task that runs recover()
          Keys,          \* content hashes, or dedup keys, of the space
          Texts,         \* contents a key can hold
          NoRecord,      \* "no record in hand"
          MaxSources,    \* bound: episodes ever inserted
          MaxBatch,      \* bound: records in one remember_many
          RetireLimit,   \* recover(retirement_limit=...)
          Exclusion,     \* how callers serialise source writes
          Faults,        \* which faults the environment produces
          MaxFaults      \* bound: faults in one behaviour

Records == [key : Keys, text : Texts]

ASSUME ConstantsAssumption ==
  /\ Recovery \notin Clients
  /\ NoRecord \notin Records
  /\ MaxSources \in Nat /\ MaxBatch \in Nat /\ MaxFaults \in Nat
  /\ RetireLimit \in Nat \ {0}
  /\ Exclusion \in {"call", "commit", "none"}
  /\ Faults \subseteq {"refuse", "lost", "cancel", "crash"}

VARIABLES rows,       \* documents: episodes, [id, key, text]
          chunks,     \* documents: chunks, [chunk, id]
          inflight,   \* documents: keys marked as being indexed
          stones,     \* documents: tombstones, [id, key]
          intents,    \* documents: pending retirements, [id, key, gone]
          unbumped,   \* ids whose arrival or removal no revision bump followed
          deleted,    \* documents: the space was erased
          vectors,    \* vector index: points, [chunk, id]
          links,      \* blob store: ids of episodes that carry an attachment
          trail,      \* event log: ids whose "forget" event was appended
          orphans,    \* ghost: ids of episodes whose insertion was never answered
          nextId,     \* documents: the episode id counter
          nextChunk,  \* documents: the chunk id counter
          op,         \* what each task is doing
          mode,       \* the engine: "serving", "down" or "opening"
          faults      \* faults so far

documentVars == <<rows, chunks, inflight, stones, intents, unbumped, deleted,
                  nextId, nextChunk>>
sideVars == <<vectors, links, trail, orphans>>
vars == <<documentVars, sideVars, op, mode, faults>>

Actors == Clients \cup {Recovery}

-----------------------------------------------------------------------------
(* What a task holds between two awaits.                                    *)

WritePcs  == {"mark", "row", "chunk", "vector", "clear"}
UndoPcs   == {"undoRow", "undoVectors", "undoMarks"}
ForgetPcs == {"revoke", "intent", "check", "rows", "points", "unlink", "stone",
              "unmark", "announce", "event", "ack"}
ErasePcs  == {"release", "erase", "sweep", "purge"}
RepairPcs == {"retire", "repair", "rechunk", "revector", "settle"}
CommitPcs == WritePcs \cup UndoPcs \cup ForgetPcs \cup ErasePcs \cup RepairPcs
               \cup {"bump", "link"}
Pcs == CommitPcs \cup {"idle", "failed", "prepare"}
Calls == {"none", "remember", "replace", "forget", "delete", "recover"}

Idle == [pc |-> "idle", call |-> "none", todo |-> {}, cur |-> NoRecord,
         keys |-> {}, marks |-> {}, made |-> {}, undo |-> {}, target |-> 0,
         gone |-> {}, attach |-> FALSE,
         seenRows |-> {}, seenStones |-> {}, budget |-> 0]

\* A call that raised.  `made` keeps the episodes its batch had inserted.
Failed(o) == [Idle EXCEPT !.pc = "failed", !.call = o.call, !.made = o.made]

Quiet(a) == op[a].pc \in {"idle", "failed"}

-----------------------------------------------------------------------------
(* Reads of the stores.                                                     *)

RowsOf(key)   == {r \in rows : r.key = key}
RowAt(id)     == {r \in rows : r.id = id}
ChunksOf(id)  == {c.chunk : c \in {x \in chunks : x.id = id}}
VectorsOf(id) == {v.chunk : v \in {x \in vectors : x.id = id}}
IntentAt(id)  == {p \in intents : p.id = id}

\* episode_by_hash, and tombstone_by_hash: the latest stone; {} for None.
EpisodeByHash(key) == {r.id : r \in RowsOf(key)}
StoneByHash(key) ==
  LET mine == {s \in stones : s.key = key}
  IN  {s \in mine : \A t \in mine : t.id <= s.id}

\* A source every lane can find: its row, its chunks, a vector for each.
Complete(id) == ChunksOf(id) # {} /\ ChunksOf(id) \subseteq VectorsOf(id)

-----------------------------------------------------------------------------
Init ==
  /\ rows = {} /\ chunks = {} /\ inflight = {} /\ stones = {} /\ intents = {}
  /\ unbumped = {} /\ deleted = FALSE /\ vectors = {} /\ links = {} /\ trail = {}
  /\ orphans = {}
  /\ nextId = 1 /\ nextChunk = 1
  /\ op = [a \in Actors |-> Idle]
  /\ mode = "serving" /\ faults = 0

-----------------------------------------------------------------------------
(* Control: how a task moves on, and how a call that raises unwinds.        *)

\* Callers serialise whole calls, only their commit phases, or nothing.
MayBegin(a)  == Exclusion = "call" => \A b \in Actors \ {a} : Quiet(b)
MayCommit(a) ==
  Exclusion = "commit" => \A b \in Actors \ {a} : op[b].pc \notin CommitPcs

\* Where an exception leaves the task: write_batch undoes its partial batch;
\* nothing else has a handler.
Raised(a) ==
  LET o == op[a] IN
  IF a = Recovery THEN Idle
  ELSE IF o.pc \in WritePcs
         THEN [o EXCEPT !.undo = o.made,
                        !.pc = IF o.made = {} THEN "undoMarks" ELSE "undoRow"]
         ELSE Failed(o)

\* open() that raises serves nothing.
Raise(a) ==
  /\ op' = [op EXCEPT ![a] = Raised(a)]
  /\ mode' = IF a = Recovery /\ mode = "opening" THEN "down" ELSE mode

Fault(kind) == kind \in Faults /\ faults < MaxFaults /\ faults' = faults + 1

\* A store call that took effect: its answer arrives, or is lost and raises.
Answer(a, next) ==
  \/ op' = [op EXCEPT ![a] = next] /\ UNCHANGED <<mode, faults>>
  \/ Fault("lost") /\ Raise(a)

\* A step that calls no store, or only reads.
Goto(a, next) == op' = [op EXCEPT ![a] = next] /\ UNCHANGED <<mode, faults>>

StoresUnchanged == UNCHANGED <<documentVars, sideVars>>

-----------------------------------------------------------------------------
(* remember and remember_many, and the write half of replace.               *)

Ready(c) == Quiet(c) /\ mode = "serving" /\ MayBegin(c)

\* Mutant of Begins: the deletion of the space is not looked up.
BeginsAnyway(c) == Ready(c)

\* Every call but forget first refuses a space that was deleted.
Begins(c) == Ready(c) /\ ~deleted

\* remember_many up to the embedder: records whose key is stored are answered
\* as duplicates, and a duplicate still links the attachments it brought.
Remember(c, batch, attach) ==
  LET fresh == {r \in batch : RowsOf(r.key) = {}} IN
  /\ Begins(c)
  /\ nextId + Cardinality(fresh) <= MaxSources + 1
  /\ attach => Cardinality(batch) = 1
  /\ \/ /\ fresh # {}
        /\ Goto(c, [Idle EXCEPT !.pc = "prepare", !.call = "remember",
                                !.todo = fresh, !.attach = attach,
                                !.keys = {r.key : r \in fresh}])
     \/ /\ fresh = {} /\ attach /\ MayCommit(c)
        /\ \E r \in batch : \E id \in EpisodeByHash(r.key) :
             Goto(c, [Idle EXCEPT !.pc = "link", !.call = "remember", !.target = id])
  /\ StoresUnchanged

\* The vectors exist; the first document write comes next.
Embedded(c) ==
  /\ op[c].pc = "prepare" /\ op[c].call = "remember" /\ MayCommit(c)
  /\ \E r \in op[c].todo :
       Goto(c, [op[c] EXCEPT !.pc = "mark", !.cur = r, !.todo = @ \ {r}])
  /\ StoresUnchanged

Mark(c) ==
  /\ op[c].pc = "mark"
  /\ inflight' = inflight \cup {op[c].cur.key}
  /\ Answer(c, [op[c] EXCEPT !.pc = "row"])
  /\ UNCHANGED <<rows, chunks, stones, intents, unbumped, deleted, nextId,
                 nextChunk, sideVars>>

\* The handler knows the episodes it was answered for; one whose insertion took
\* effect and was not answered stays, without its mark.
InsertEpisode(c) ==
  /\ op[c].pc = "row" /\ RowsOf(op[c].cur.key) = {}
  /\ rows' = rows \cup {[id |-> nextId, key |-> op[c].cur.key, text |-> op[c].cur.text]}
  /\ unbumped' = unbumped \cup {nextId}
  /\ nextId' = nextId + 1
  /\ \/ /\ Goto(c, [op[c] EXCEPT !.pc = "chunk", !.target = nextId,
                                   !.made = @ \cup {nextId}])
        /\ UNCHANGED orphans
     \/ Fault("lost") /\ Raise(c) /\ orphans' = orphans \cup {nextId}
  /\ UNCHANGED <<chunks, inflight, stones, intents, deleted, nextChunk, vectors, links, trail>>

\* UNIQUE (space, content_hash): a source stored since the duplicate check.
EpisodeConflict(c) ==
  /\ op[c].pc = "row" /\ RowsOf(op[c].cur.key) # {}
  /\ Raise(c) /\ UNCHANGED faults /\ StoresUnchanged

InsertChunks(c) ==
  /\ op[c].pc = "chunk"
  /\ chunks' = chunks \cup {[chunk |-> nextChunk, id |-> op[c].target]}
  /\ nextChunk' = nextChunk + 1
  /\ Answer(c, [op[c] EXCEPT !.pc = "vector", !.gone = {nextChunk}])
  /\ UNCHANGED <<rows, inflight, stones, intents, unbumped, deleted, nextId, sideVars>>

\* upsert replaces a point by chunk id.
Upserted(ids, id) ==
  {v \in vectors : v.chunk \notin ids} \cup {[chunk |-> c, id |-> id] : c \in ids}

UpsertVectors(c) ==
  /\ op[c].pc = "vector"
  /\ vectors' = Upserted(op[c].gone, op[c].target)
  /\ Answer(c, [op[c] EXCEPT !.pc = "clear", !.gone = {}])
  /\ UNCHANGED <<documentVars, links, trail, orphans>>

\* The mark goes last; then the next record of the batch, or the revision.
ClearMark(c) ==
  /\ op[c].pc = "clear"
  /\ inflight' = inflight \ {op[c].cur.key}
  /\ \/ /\ op[c].todo = {}
        /\ Answer(c, [op[c] EXCEPT !.pc = "bump"])
     \/ \E r \in op[c].todo :
          Answer(c, [op[c] EXCEPT !.pc = "mark", !.cur = r, !.todo = @ \ {r}])
  /\ UNCHANGED <<rows, chunks, stones, intents, unbumped, deleted, nextId,
                 nextChunk, sideVars>>

\* bump_revision is outside the try: raising here undoes nothing.
BumpAfterWrite(c) ==
  /\ op[c].pc = "bump"
  /\ unbumped' = {}
  /\ Answer(c, IF op[c].attach THEN [op[c] EXCEPT !.pc = "link"] ELSE Idle)
  /\ UNCHANGED <<rows, chunks, inflight, stones, intents, deleted, nextId,
                 nextChunk, sideVars>>

\* remember() links the attachments once the source is stored.
Link(c) ==
  /\ op[c].pc = "link"
  /\ links' = links \cup {op[c].target}
  /\ Answer(c, Idle)
  /\ UNCHANGED <<documentVars, vectors, trail, orphans>>

-----------------------------------------------------------------------------
(* The handler of write_batch: delete what was written, then every mark of   *)
(* the batch, whoever set it.                                                *)

UndoEpisode(c) ==
  /\ op[c].pc = "undoRow"
  /\ \E id \in op[c].undo :
       /\ \A i \in op[c].undo : id <= i
       /\ rows' = rows \ RowAt(id)
       /\ chunks' = {x \in chunks : x.id # id}
       /\ unbumped' = unbumped \cup {id}
       /\ Answer(c, [op[c] EXCEPT !.pc = "undoVectors", !.gone = ChunksOf(id),
                                  !.target = id])
  /\ UNCHANGED <<inflight, stones, intents, deleted, nextId, nextChunk, sideVars>>

\* Mutant of UndoVectors: only the rows of the batch are undone.
UndoRowsOnly(c) ==
  LET left == op[c].undo \ {op[c].target} IN
  /\ op[c].pc = "undoVectors"
  /\ Answer(c, [op[c] EXCEPT !.gone = {}, !.undo = left,
                  !.pc = IF left = {} THEN "undoMarks" ELSE "undoRow"])
  /\ StoresUnchanged

UndoVectors(c) ==
  LET left == op[c].undo \ {op[c].target} IN
  /\ op[c].pc = "undoVectors"
  /\ vectors' = {v \in vectors : v.chunk \notin op[c].gone}
  /\ Answer(c, [op[c] EXCEPT !.gone = {}, !.undo = left,
                  !.pc = IF left = {} THEN "undoMarks" ELSE "undoRow"])
  /\ UNCHANGED <<documentVars, links, trail, orphans>>

UndoMark(c) ==
  /\ op[c].pc = "undoMarks"
  /\ \E k \in op[c].keys :
       /\ inflight' = inflight \ {k}
       /\ Answer(c, IF op[c].keys = {k} THEN Failed(op[c])
                    ELSE [op[c] EXCEPT !.keys = @ \ {k}])
  /\ UNCHANGED <<rows, chunks, stones, intents, unbumped, deleted, nextId,
                 nextChunk, sideVars>>

-----------------------------------------------------------------------------
(* replace: prepare, check again, forget the source the key named, write.   *)
\* The same content under the key is a duplicate: only its attachments count.
Replace(c, r, attach) ==
  LET same == \E h \in RowsOf(r.key) : h.text = r.text IN
  /\ Begins(c)
  /\ nextId <= MaxSources
  /\ \/ /\ ~same
        /\ Goto(c, [Idle EXCEPT !.pc = "prepare", !.call = "replace", !.cur = r,
                                !.keys = {r.key}, !.attach = attach,
                                !.seenRows = EpisodeByHash(r.key),
                                !.seenStones = StoneByHash(r.key)])
     \/ /\ same /\ attach /\ MayCommit(c)
        /\ \E id \in EpisodeByHash(r.key) :
             Goto(c, [Idle EXCEPT !.pc = "link", !.call = "replace", !.target = id])
  /\ StoresUnchanged

\* Mutant of Unchanged: a source forgotten meanwhile is not noticed.
UnchangedRow(o) == ~deleted /\ EpisodeByHash(o.cur.key) = o.seenRows

\* After the embedder: the space lives, and the key's source and its latest
\* tombstone are the ones seen before it.
Unchanged(o) ==
  /\ ~deleted
  /\ EpisodeByHash(o.cur.key) = o.seenRows
  /\ StoneByHash(o.cur.key) = o.seenStones

Prepared(c) ==
  LET o == op[c] IN
  /\ o.pc = "prepare" /\ o.call = "replace" /\ MayCommit(c)
  /\ \/ /\ Unchanged(o) /\ o.seenRows = {}
        /\ Goto(c, [o EXCEPT !.pc = "mark"])
     \/ /\ Unchanged(o)
        /\ \E id \in o.seenRows : Goto(c, [o EXCEPT !.pc = "revoke", !.target = id])
     \/ ~Unchanged(o) /\ Goto(c, Failed(o))
  /\ StoresUnchanged

-----------------------------------------------------------------------------
(* forget: record the intent, then every deletion it stands for, in order.  *)

ForgetSource(c, id) ==
  /\ Ready(c) /\ MayCommit(c)
  /\ Goto(c, [Idle EXCEPT !.pc = "revoke", !.call = "forget", !.target = id])
  /\ StoresUnchanged

\* An intent already recorded is finished; a source being indexed is refused.
Revoke(c) ==
  LET o == op[c] IN
  /\ o.pc = "revoke"
  /\ \/ IntentAt(o.target) # {} /\ Goto(c, [o EXCEPT !.pc = "check"])
     \/ /\ IntentAt(o.target) = {}
        /\ \E r \in RowAt(o.target) :
             \/ r.key \in inflight /\ Goto(c, Failed(o))
             \/ /\ r.key \notin inflight
                /\ Goto(c, [o EXCEPT !.pc = "intent", !.keys = {r.key},
                                     !.gone = ChunksOf(o.target)])
     \/ /\ IntentAt(o.target) = {} /\ RowAt(o.target) = {}    \* Gone or NotFound
        /\ Goto(c, Failed(o))
  /\ StoresUnchanged

\* The first record for an id stands.
RecordIntent(c) ==
  LET o == op[c] IN
  /\ o.pc = "intent"
  /\ intents' = IF IntentAt(o.target) # {} THEN intents
                ELSE intents \cup {[id |-> o.target, key |-> k, gone |-> o.gone] : k \in o.keys}
  /\ Answer(c, [o EXCEPT !.pc = "check", !.gone = {}])
  /\ UNCHANGED <<rows, chunks, inflight, stones, unbumped, deleted, nextId,
                 nextChunk, sideVars>>

\* _finish_forget works from the recorded intent, in forget and in recovery.
\* The intent names another source, or the chunks moved since: refused.
Mismatch(p) ==
  \/ \E r \in RowAt(p.id) : r.key # p.key
  \/ \E s \in stones : s.id = p.id /\ s.key # p.key
  \/ ~(ChunksOf(p.id) \subseteq p.gone)

\* Mutant of CheckIntent: the chunks to clean are read again on every retry.
CheckIntentAgain(a) ==
  /\ op[a].pc = "check"
  /\ \E p \in IntentAt(op[a].target) :
       \/ ~Mismatch(p) /\ Goto(a, [op[a] EXCEPT !.pc = "rows", !.keys = {p.key},
                                                !.gone = ChunksOf(p.id)])
       \/ Mismatch(p) /\ Raise(a) /\ UNCHANGED faults
  /\ StoresUnchanged

CheckIntent(a) ==
  /\ op[a].pc = "check"
  /\ \E p \in IntentAt(op[a].target) :
       \/ ~Mismatch(p) /\ Goto(a, [op[a] EXCEPT !.pc = "rows", !.gone = p.gone,
                                                !.keys = {p.key}])
       \/ Mismatch(p) /\ Raise(a) /\ UNCHANGED faults
  /\ StoresUnchanged

DeleteRows(a) ==
  LET id == op[a].target IN
  /\ op[a].pc = "rows"
  /\ rows' = rows \ RowAt(id)
  /\ chunks' = {x \in chunks : x.id # id}
  /\ unbumped' = IF RowAt(id) = {} THEN unbumped ELSE unbumped \cup {id}
  /\ Answer(a, [op[a] EXCEPT !.pc = "points"])
  /\ UNCHANGED <<inflight, stones, intents, deleted, nextId, nextChunk, sideVars>>

DeleteVectors(a) ==
  /\ op[a].pc = "points"
  /\ vectors' = {v \in vectors : v.chunk \notin op[a].gone}
  /\ Answer(a, [op[a] EXCEPT !.pc = "unlink"])
  /\ UNCHANGED <<documentVars, links, trail, orphans>>

\* Mutant of Unlink: the tombstone is skipped.
UnlinkNoStone(a) ==
  /\ op[a].pc = "unlink"
  /\ links' = links \ {op[a].target}
  /\ Answer(a, [op[a] EXCEPT !.pc = "unmark"])
  /\ UNCHANGED <<documentVars, vectors, trail, orphans>>

Unlink(a) ==
  /\ op[a].pc = "unlink"
  /\ links' = links \ {op[a].target}
  /\ Answer(a, [op[a] EXCEPT !.pc = "stone"])
  /\ UNCHANGED <<documentVars, vectors, trail, orphans>>

\* record_tombstone keeps the first stone of an id.
RecordStone(a) ==
  /\ op[a].pc = "stone"
  /\ stones' = IF \E s \in stones : s.id = op[a].target THEN stones
               ELSE stones \cup {[id |-> op[a].target, key |-> k] : k \in op[a].keys}
  /\ Answer(a, [op[a] EXCEPT !.pc = "unmark"])
  /\ UNCHANGED <<rows, chunks, inflight, intents, unbumped, deleted, nextId,
                 nextChunk, sideVars>>

\* Mutant of Unmark: whoever holds the key now loses its mark.
UnmarkAlways(a) ==
  /\ op[a].pc = "unmark"
  /\ inflight' = inflight \ op[a].keys
  /\ Answer(a, [op[a] EXCEPT !.pc = "announce"])
  /\ UNCHANGED <<rows, chunks, stones, intents, unbumped, deleted, nextId,
                 nextChunk, sideVars>>

\* A newer source of the key keeps its own mark.
Unmark(a) ==
  /\ op[a].pc = "unmark"
  /\ inflight' = inflight \ {k \in op[a].keys : RowsOf(k) = {}}
  /\ Answer(a, [op[a] EXCEPT !.pc = "announce"])
  /\ UNCHANGED <<rows, chunks, stones, intents, unbumped, deleted, nextId,
                 nextChunk, sideVars>>

BumpAfterForget(a) ==
  /\ op[a].pc = "announce"
  /\ unbumped' = {}
  /\ Answer(a, [op[a] EXCEPT !.pc = "event"])
  /\ UNCHANGED <<rows, chunks, inflight, stones, intents, deleted, nextId,
                 nextChunk, sideVars>>

\* The event's dedup key is the source's id, so a retry appends nothing new.
AppendEvent(a) ==
  /\ op[a].pc = "event"
  /\ trail' = trail \cup {op[a].target}
  /\ Answer(a, [op[a] EXCEPT !.pc = "ack"])
  /\ UNCHANGED <<documentVars, vectors, links, orphans>>

\* Only now is the intent cleared; then what the caller came for goes on.
Forgotten(o) ==
  CASE o.call = "replace" -> [o EXCEPT !.pc = "mark", !.target = 0, !.gone = {}]
    [] o.call = "recover" -> [Idle EXCEPT !.pc = "retire", !.call = "recover",
                                          !.budget = o.budget - 1]
    [] OTHER -> Idle

\* Mutant of Acknowledge: the finished intent stays.
AcknowledgeNothing(a) ==
  /\ op[a].pc = "ack"
  /\ Answer(a, Forgotten(op[a]))
  /\ StoresUnchanged

Acknowledge(a) ==
  /\ op[a].pc = "ack"
  /\ intents' = intents \ IntentAt(op[a].target)
  /\ Answer(a, Forgotten(op[a]))
  /\ UNCHANGED <<rows, chunks, inflight, stones, unbumped, deleted, nextId,
                 nextChunk, sideVars>>

-----------------------------------------------------------------------------
(* delete_space: attachments, then every record of the space in one          *)
(* transaction that marks it deleted, then its vectors, then its events.     *)

DeleteSpace(c) ==
  /\ Begins(c) /\ MayCommit(c)
  /\ Goto(c, [Idle EXCEPT !.pc = "release", !.call = "delete"])
  /\ StoresUnchanged

ReleaseBlobs(c) ==
  /\ op[c].pc = "release"
  /\ links' = {}
  /\ Answer(c, [op[c] EXCEPT !.pc = "erase"])
  /\ UNCHANGED <<documentVars, vectors, trail, orphans>>

EraseDocuments(c) ==
  /\ op[c].pc = "erase"
  /\ rows' = {} /\ chunks' = {} /\ inflight' = {} /\ stones' = {}
  /\ intents' = {} /\ unbumped' = {} /\ deleted' = TRUE
  /\ Answer(c, [op[c] EXCEPT !.pc = "sweep"])
  /\ UNCHANGED <<nextId, nextChunk, sideVars>>

SweepVectors(c) ==
  /\ op[c].pc = "sweep"
  /\ vectors' = {}
  /\ Answer(c, [op[c] EXCEPT !.pc = "purge"])
  /\ UNCHANGED <<documentVars, links, trail, orphans>>

PurgeEvents(c) ==
  /\ op[c].pc = "purge"
  /\ trail' = {}
  /\ Answer(c, Idle)
  /\ UNCHANGED <<documentVars, vectors, links, orphans>>

-----------------------------------------------------------------------------
(* recover: at most RetireLimit pending removals, then, if none is left,     *)
(* every source a write left marked.  open() runs it before serving.         *)

Recover(a) ==
  /\ a = Recovery /\ Quiet(a) /\ mode \in {"down", "serving"}
  /\ MayBegin(a) /\ MayCommit(a)
  /\ op' = [op EXCEPT ![a] = [Idle EXCEPT !.pc = "retire", !.call = "recover",
                                          !.budget = RetireLimit]]
  /\ mode' = IF mode = "down" THEN "opening" ELSE mode
  /\ UNCHANGED faults /\ StoresUnchanged

\* Mutant of RetireNext: retirement_limit does not stop the pass.
RetireUnbounded(a) ==
  /\ op[a].pc = "retire"
  /\ \E p \in intents : /\ \A q \in intents : p.id <= q.id
                        /\ Goto(a, [op[a] EXCEPT !.pc = "check", !.target = p.id])
  /\ StoresUnchanged

\* The page of pending removals, lowest id first.
RetireNext(a) ==
  /\ op[a].pc = "retire" /\ op[a].budget > 0
  /\ \E p \in intents : /\ \A q \in intents : p.id <= q.id
                        /\ Goto(a, [op[a] EXCEPT !.pc = "check", !.target = p.id])
  /\ StoresUnchanged

\* Mutant of Backlog: open() serves although cleanup remains.
BacklogServes(a) ==
  /\ op[a].pc = "retire" /\ op[a].budget = 0 /\ intents # {}
  /\ op' = [op EXCEPT ![a] = Idle]
  /\ mode' = "serving"
  /\ UNCHANGED faults /\ StoresUnchanged

\* A backlog is reported and ingestion repair waits; open() refuses to serve.
Backlog(a) ==
  /\ op[a].pc = "retire" /\ op[a].budget = 0 /\ intents # {}
  /\ op' = [op EXCEPT ![a] = Idle]
  /\ mode' = IF mode = "opening" THEN "down" ELSE mode
  /\ UNCHANGED faults /\ StoresUnchanged

StartRepair(a) ==
  /\ op[a].pc = "retire" /\ intents = {}
  /\ Goto(a, [op[a] EXCEPT !.pc = "repair", !.marks = inflight])
  /\ StoresUnchanged

\* One mark: nothing landed, or the chunks or only the vectors are missing.
RepairMark(a) ==
  /\ op[a].pc = "repair"
  /\ \E k \in op[a].marks :
       \/ /\ EpisodeByHash(k) = {}
          /\ Goto(a, [op[a] EXCEPT !.pc = "settle", !.keys = {k}])
       \/ \E id \in EpisodeByHash(k) :
            Goto(a, [op[a] EXCEPT !.target = id, !.gone = ChunksOf(id), !.keys = {k},
                       !.pc = IF ChunksOf(id) = {} THEN "rechunk" ELSE "revector"])
  /\ StoresUnchanged

Rechunk(a) ==
  /\ op[a].pc = "rechunk"
  /\ chunks' = chunks \cup {[chunk |-> nextChunk, id |-> op[a].target]}
  /\ nextChunk' = nextChunk + 1
  /\ Answer(a, [op[a] EXCEPT !.pc = "revector", !.gone = {nextChunk}])
  /\ UNCHANGED <<rows, inflight, stones, intents, unbumped, deleted, nextId, sideVars>>

Revector(a) ==
  /\ op[a].pc = "revector"
  /\ vectors' = Upserted(op[a].gone, op[a].target)
  /\ Answer(a, [op[a] EXCEPT !.pc = "settle", !.gone = {}])
  /\ UNCHANGED <<documentVars, links, trail, orphans>>

SettleMark(a) ==
  /\ op[a].pc = "settle"
  /\ inflight' = inflight \ op[a].keys
  /\ Answer(a, [op[a] EXCEPT !.pc = "repair", !.marks = @ \ op[a].keys,
                             !.keys = {}, !.target = 0])
  /\ UNCHANGED <<rows, chunks, stones, intents, unbumped, deleted, nextId,
                 nextChunk, sideVars>>

\* Every mark of the snapshot is settled: the engine serves.
Recovered(a) ==
  /\ op[a].pc = "repair" /\ op[a].marks = {}
  /\ op' = [op EXCEPT ![a] = Idle]
  /\ mode' = "serving"
  /\ UNCHANGED faults /\ StoresUnchanged

-----------------------------------------------------------------------------
(* The environment.                                                         *)

\* A call raises and had no effect.
Refuse(a) ==
  /\ ~Quiet(a)
  /\ Fault("refuse") /\ Raise(a) /\ StoresUnchanged

\* CancelledError is not an Exception: no handler runs and the marks stay.
Cancel(c) ==
  /\ ~Quiet(c)
  /\ Fault("cancel") /\ op' = [op EXCEPT ![c] = Idle]
  /\ UNCHANGED mode /\ StoresUnchanged

Crash ==
  /\ mode # "down"
  /\ Fault("crash")
  /\ op' = [a \in Actors |-> Idle] /\ mode' = "down"
  /\ StoresUnchanged

-----------------------------------------------------------------------------
Batches == {b \in SUBSET Records : /\ b # {} /\ Cardinality(b) <= MaxBatch
                                   /\ \A r, s \in b : r.key = s.key => r = s}

ClientStep(c) ==
  \/ \E b \in Batches, attach \in BOOLEAN : Remember(c, b, attach)
  \/ \E r \in Records, attach \in BOOLEAN : Replace(c, r, attach)
  \/ \E i \in 1..MaxSources : ForgetSource(c, i)
  \/ DeleteSpace(c)
  \/ Embedded(c) \/ Prepared(c)
  \/ Mark(c) \/ InsertEpisode(c) \/ EpisodeConflict(c) \/ InsertChunks(c)
  \/ UpsertVectors(c) \/ ClearMark(c) \/ BumpAfterWrite(c) \/ Link(c)
  \/ UndoEpisode(c) \/ UndoVectors(c) \/ UndoMark(c)
  \/ Revoke(c) \/ RecordIntent(c)
  \/ ReleaseBlobs(c) \/ EraseDocuments(c) \/ SweepVectors(c) \/ PurgeEvents(c)

\* _finish_forget, in a client or in the recovery pass.
FinishForget(a) ==
  \/ CheckIntent(a) \/ DeleteRows(a) \/ DeleteVectors(a) \/ Unlink(a)
  \/ RecordStone(a) \/ Unmark(a) \/ BumpAfterForget(a) \/ AppendEvent(a)
  \/ Acknowledge(a)

RecoveryStep(a) ==
  \/ Recover(a) \/ RetireNext(a) \/ Backlog(a) \/ StartRepair(a)
  \/ RepairMark(a) \/ Rechunk(a) \/ Revector(a) \/ SettleMark(a) \/ Recovered(a)

Next ==
  \/ \E c \in Clients : ClientStep(c) \/ Cancel(c)
  \/ \E a \in Actors : FinishForget(a) \/ Refuse(a)
  \/ RecoveryStep(Recovery)
  \/ Crash

Spec == Init /\ [][Next]_vars

\* open() is called again until it serves, and a running pass keeps running.
Fairness == WF_vars(RecoveryStep(Recovery)) /\ WF_vars(FinishForget(Recovery))

FairSpec == Spec /\ Fairness

-----------------------------------------------------------------------------
(* Properties.                                                              *)

OpType == [pc : Pcs, call : Calls, todo : SUBSET Records,
           cur : Records \cup {NoRecord}, keys : SUBSET Keys, marks : SUBSET Keys,
           made : SUBSET Nat, undo : SUBSET Nat, target : Nat, gone : SUBSET Nat,
           attach : BOOLEAN, seenRows : SUBSET Nat,
           seenStones : SUBSET [id : Nat, key : Keys], budget : Nat]

\* Every store holds what its schema says, every task holds what its step needs.
TypeOK ==
  /\ rows \subseteq [id : Nat, key : Keys, text : Texts]
  /\ chunks \subseteq [chunk : Nat, id : Nat]
  /\ vectors \subseteq [chunk : Nat, id : Nat]
  /\ inflight \subseteq Keys
  /\ stones \subseteq [id : Nat, key : Keys]
  /\ intents \subseteq [id : Nat, key : Keys, gone : SUBSET Nat]
  /\ unbumped \subseteq Nat /\ links \subseteq Nat /\ trail \subseteq Nat
  /\ orphans \subseteq Nat
  /\ deleted \in BOOLEAN
  /\ nextId \in Nat /\ nextChunk \in Nat /\ faults \in Nat
  /\ op \in [Actors -> OpType]
  /\ mode \in {"serving", "down", "opening"}

\* A source that is stored but cannot be found by every lane is covered by a
\* durable record the recovery pass works from: its mark or its removal
\* (write_batch marks first and clears last; _finish_forget acknowledges last).
\* The one exception is an episode whose insertion was never answered.
IncompleteIsCovered ==
  \A r \in rows : Complete(r.id) \/ r.key \in inflight \/ IntentAt(r.id) # {}
                   \/ r.id \in orphans

\* Once the removal of a source is acknowledged nothing of it is left in any
\* store, its event is in the trail and readers fenced by the revision saw it
\* move, whatever was refused, lost, cancelled or repeated on the way (forget).
ForgottenIsErased ==
  \A s \in stones : IntentAt(s.id) = {} =>
    /\ RowAt(s.id) = {} /\ ChunksOf(s.id) = {} /\ VectorsOf(s.id) = {}
    /\ s.id \notin links \cup unbumped
    /\ s.id \in trail

\* A deleted space keeps no record and nothing re-creates one (delete_space,
\* living); its vectors and events may outlive a failure halfway.
DeletedStaysEmpty ==
  deleted => rows = {} /\ chunks = {} /\ stones = {} /\ intents = {}
             /\ inflight = {} /\ links = {}

\* open() returns an engine only over stores with nothing unfinished: every
\* source complete, no mark, no pending removal (open, recover); but for an
\* episode whose insertion was never answered.
OpenIsClean ==
  [][mode = "opening" /\ mode' = "serving" =>
       /\ intents' = {} /\ inflight' = {}
       /\ \A r \in rows' : Complete(r.id)' \/ r.id \in orphans']_vars

\* "A batch either lands whole or not at all": once the rollback of a remember that
\* raised got past its deletions none of the episodes it had inserted is left; one
\* that raised after the batch was written, at the revision or the attachments,
\* left all of them complete.
BatchWhole ==
  [][\A c \in Clients :
       op[c].call = "remember" /\ op[c].pc \in {"undoMarks", "bump", "link"}
         /\ op'[c].pc = "failed" =>
           \/ \A i \in op[c].made : RowAt(i) = {} /\ VectorsOf(i) = {}
           \/ \A i \in op[c].made : Complete(i)]_vars

\* A replace never recreates a source the user forgot while it was being
\* embedded: when its row is written, the latest tombstone of the key is the
\* one seen before preparation or that of the source it replaced itself.
ReplaceNeverRevives ==
  [][\A c \in Clients :
       op[c].call = "replace" /\ op[c].pc = "row" /\ nextId' # nextId =>
         \A s \in StoneByHash(op[c].cur.key) :
           s \in op[c].seenStones \/ s.id \in op[c].seenRows]_vars

\* After a crash the engine serves again: each open() retires at least one
\* pending removal, so a backlog cannot keep it closed for ever.
Reopens == mode = "down" ~> mode = "serving"

-----------------------------------------------------------------------------
(* The abstract life of each source, read off the stores.                   *)

Stage(id) ==
  IF IntentAt(id) # {} THEN "retiring"
  ELSE IF \E s \in stones : s.id = id THEN "forgotten"
  ELSE IF RowAt(id) = {} THEN "none"
  ELSE IF Complete(id) THEN "present" ELSE "partial"

Ledger == INSTANCE SourceLedger WITH Ids <- 1..MaxSources,
                                     status <- [i \in 1..MaxSources |-> Stage(i)],
                                     erased <- deleted

\* The stores, seen together, follow the promised life of a source.
LedgerSpec == Ledger!Spec
=============================================================================
