------------------------ MODULE SourceStores_proofs -------------------------
(***************************************************************************)
(* What the four stores of SourceLifecycle hold together, for callers that  *)
(* serialise whole calls: an incomplete source is covered, a removal leaves *)
(* nothing, a deleted space stays empty, a batch lands whole or not at all, *)
(* open() serves over finished work, and the stores follow SourceLedger.    *)
(* Last, for callers that serialise only the commit phases of their calls:  *)
(* a replace brings no forgotten source back.                               *)
(***************************************************************************)
EXTENDS SourceLifecycle_proofs

\* Source writes and recovery are serialised, as core/retirement.py says they are;
\* the engine has no lock, so its callers see to it.
WholeCalls == Exclusion = "call"

-----------------------------------------------------------------------------
(* The inductive invariant: at most one task is between two awaits, the     *)
(* stores agree with one another, and that task knows where it stands.      *)

Stored(i) == RowAt(i) # {}
Stoned(i) == \E s \in stones : s.id = i
Erased(i) == RowAt(i) = {} /\ ChunksOf(i) = {} /\ VectorsOf(i) = {}

Alone == \A a, b \in Actors : a = b \/ Quiet(a) \/ Quiet(b)

IdsAreIssued ==
  /\ \A x \in rows : x.id < nextId
  /\ \A x \in stones : x.id < nextId
  /\ \A x \in chunks : x.id < nextId /\ x.chunk < nextChunk
  /\ \A x \in vectors : x.id < nextId
  /\ \A p \in intents : p.id < nextId /\ \A g \in p.gone : g < nextChunk

KeysAreUnique == \A r, s \in rows : r.key = s.key \/ r.id = s.id => r = s

ChunksAreApart == \A x, y \in chunks : x.chunk = y.chunk => x.id = y.id

\* As long as a source is stored, each of its points is for one of its chunks.
PointsHaveChunks == \A r \in rows : VectorsOf(r.id) \subseteq ChunksOf(r.id)

\* Deleting the points listed in `gone` deletes all points of i, and of no
\* other source that is still there.
Lists(gone, i) ==
  VectorsOf(i) \subseteq gone /\ \A x \in chunks : x.chunk \in gone => x.id = i

IntentsList == \A p \in intents : Lists(p.gone, p.id)

StonesAreErased == \A s \in stones : Erased(s.id) /\ s.id \notin links

RemovalsAreTold ==
  \A s \in stones : IntentAt(s.id) = {} => s.id \notin unbumped /\ s.id \in trail

StoresAgree ==
  /\ IdsAreIssued /\ KeysAreUnique /\ ChunksAreApart /\ PointsHaveChunks
  /\ IntentsList /\ StonesAreErased /\ RemovalsAreTold
  /\ IncompleteIsCovered /\ DeletedStaysEmpty

\* Of the keys a task works on only these episodes are stored.
Claimed(o, ids) == \A r \in rows : r.key \in o.keys => r.id \in ids

Preparing(o) ==
  /\ ~deleted /\ o.made = {} /\ o.undo = {}
  /\ o.call = "remember" => Claimed(o, {})
  /\ o.call = "replace" => o.keys = {o.cur.key}

\* write_batch: its episodes are stored and, but for the one in hand, complete.
Writing(o) ==
  /\ ~deleted
  /\ \A i \in o.made : Stored(i) /\ IntentAt(i) = {}
  /\ \A i \in o.made : Complete(i) \/ (i = o.target /\ o.pc \in {"chunk", "vector"})
  /\ Claimed(o, o.made \cup orphans)
  /\ o.pc \in {"row", "chunk", "vector"} => o.cur.key \in inflight
  /\ o.pc \in {"chunk", "vector", "clear"} =>
       /\ o.target \in o.made
       /\ \A r \in rows : r.key = o.cur.key <=> r.id = o.target
  /\ o.pc = "chunk" => ChunksOf(o.target) = {}
  /\ o.pc = "vector" => o.gone # {} /\ ChunksOf(o.target) = o.gone

Written(o) ==
  /\ o.attach \/ o.pc = "link" => Stored(o.target)
  /\ \A i \in o.made : Complete(i)

\* Its handler: what it undid is erased, what is left to undo is stored.
Undoing(o) ==
  /\ ~deleted
  /\ Claimed(o, o.undo \cup orphans)
  /\ \A i \in o.made \ o.undo : Erased(i)
  /\ \A i \in o.undo : Stored(i) \/ (i = o.target /\ o.pc = "undoVectors")
  /\ o.pc = "undoVectors" =>
       /\ RowAt(o.target) = {} /\ ChunksOf(o.target) = {}
       /\ VectorsOf(o.target) \subseteq o.gone
       /\ \A x \in chunks : x.chunk \notin o.gone
  /\ o.pc = "undoMarks" => o.undo = {}

\* A removal: what its earlier steps did to the source still holds.
Forgetting(o) ==
  /\ o.made = {} /\ o.undo = {}
  /\ o.pc \in {"revoke", "intent", "check"} /\ o.call = "replace" => Stored(o.target)
  /\ o.pc = "intent" =>
       Stored(o.target) /\ o.keys # {} /\ o.gone = ChunksOf(o.target)
  /\ o.pc \notin {"revoke", "intent"} => IntentAt(o.target) # {}
  /\ o.pc \in {"rows", "points"} => Lists(o.gone, o.target)
  /\ o.pc \in {"rows", "points", "unlink", "stone"} => o.keys # {}
  /\ o.pc \notin {"revoke", "intent", "check"} /\ o.call = "replace" =>
       Claimed(o, {o.target})
  /\ o.pc \notin {"revoke", "intent", "check", "rows"} =>
       RowAt(o.target) = {} /\ ChunksOf(o.target) = {}
  /\ o.pc \in {"unlink", "stone", "unmark", "announce", "event", "ack"} =>
       VectorsOf(o.target) = {}
  /\ o.pc \in {"stone", "unmark", "announce", "event", "ack"} => o.target \notin links
  /\ o.pc \in {"unmark", "announce", "event", "ack"} => Stoned(o.target)
  /\ o.pc \in {"event", "ack"} => o.target \notin unbumped
  /\ o.pc = "ack" => o.target \in trail

Erasing(o) ==
  /\ o.pc \in {"sweep", "purge"} <=> deleted
  /\ o.pc = "erase" => links = {}

\* The recovery pass repairs only when no removal is pending.
Repairing(o) ==
  /\ o.made = {} /\ o.undo = {}
  /\ o.pc # "retire" => intents = {} /\ inflight \subseteq o.marks
  /\ o.pc \in {"rechunk", "revector"} => Stored(o.target) /\ Claimed(o, {o.target})
  /\ o.pc = "rechunk" => ChunksOf(o.target) = {}
  /\ o.pc = "revector" => o.gone # {} /\ ChunksOf(o.target) = o.gone
  /\ o.pc = "settle" => \A r \in rows : r.key \in o.keys => Complete(r.id)

Knows(o) ==
  /\ o.pc = "prepare" => Preparing(o)
  /\ o.pc \in WritePcs => Writing(o)
  /\ o.pc \in {"bump", "link"} => Written(o)
  /\ o.pc \in UndoPcs => Undoing(o)
  /\ o.pc \in ForgetPcs => Forgetting(o)
  /\ o.pc \in ErasePcs => Erasing(o)
  /\ o.pc \in RepairPcs => Repairing(o)

TasksKnow == \A a \in Actors : Knows(op[a])

SourceInv == StoresTyped /\ TasksTyped /\ Alone /\ StoresAgree /\ TasksKnow

-----------------------------------------------------------------------------
(* The task that steps: everybody else is quiet, and a quiet task claims    *)
(* nothing.                                                                 *)

LEMMA QuietKnows == ASSUME NEW o, o.pc \in {"idle", "failed"} PROVE Knows(o)'
BY DEF Knows, WritePcs, UndoPcs, ForgetPcs, ErasePcs, RepairPcs

LEMMA KnowsBy ==
  ASSUME NEW o
  PROVE  /\ o.pc = "prepare" /\ Preparing(o)' => Knows(o)'
         /\ o.pc \in WritePcs /\ Writing(o)' => Knows(o)'
         /\ o.pc \in {"bump", "link"} /\ Written(o)' => Knows(o)'
         /\ o.pc \in UndoPcs /\ Undoing(o)' => Knows(o)'
         /\ o.pc \in ForgetPcs /\ Forgetting(o)' => Knows(o)'
         /\ o.pc \in ErasePcs /\ Erasing(o)' => Knows(o)'
         /\ o.pc \in RepairPcs /\ Repairing(o)' => Knows(o)'
BY DEF Knows, WritePcs, UndoPcs, ForgetPcs, ErasePcs, RepairPcs

LEMMA TaskMoves ==
  ASSUME Alone, NEW a \in Actors, \A b \in Actors \ {a} : Quiet(b),
         NEW next, Knows(next)', TasksTyped, op' = [op EXCEPT ![a] = next]
  PROVE  Alone' /\ TasksKnow'
<1>1. \A b \in Actors : b # a => op'[b] = op[b] /\ op[b].pc \in {"idle", "failed"}
  BY DEF Alone, Quiet, TasksTyped
<1>2. \A b \in Actors : b # a => Quiet(b)'
  BY <1>1 DEF Quiet
<1>3. op'[a] = next
  BY DEF TasksTyped
<1>4. ASSUME NEW b \in Actors PROVE Knows(op[b])'
  <2>1. CASE b = a
    BY <1>3, <2>1
  <2>2. CASE b # a
    BY <1>1, <2>2, QuietKnows
  <2> QED
    BY <2>1, <2>2
<1>5. Alone'
  BY <1>2 DEF Alone
<1> QED
  BY <1>4, <1>5 DEF TasksKnow

\* A call that raises outside write_batch leaves its task quiet.
LEMMA RaiseMoves ==
  ASSUME Alone, NEW a \in Actors, \A b \in Actors \ {a} : Quiet(b), TasksTyped,
         a = Recovery \/ op[a].pc \notin WritePcs, Raise(a)
  PROVE  Alone' /\ TasksKnow'
<1>1. PICK next : next = Raised(a)
  OBVIOUS
<1>2. next.pc \in {"idle", "failed"}
  BY <1>1 DEF Raised, Failed, Idle
<1>3. op' = [op EXCEPT ![a] = next]
  BY <1>1 DEF Raise
<1>4. Knows(next)'
  BY <1>2, QuietKnows
<1> QED
  BY <1>3, <1>4, TaskMoves

LEMMA AnswerMoves ==
  ASSUME Alone, NEW a \in Actors, \A b \in Actors \ {a} : Quiet(b), TasksTyped,
         a = Recovery \/ op[a].pc \notin WritePcs,
         NEW next, Answer(a, next), Knows(next)'
  PROVE  Alone' /\ TasksKnow'
<1>1. CASE op' = [op EXCEPT ![a] = next]
  BY <1>1, TaskMoves
<1>2. CASE Raise(a)
  BY <1>2, RaiseMoves
<1> QED
  BY <1>1, <1>2 DEF Answer

\* A write that raises turns to its handler, with all it made to undo.
Unwinds(o) ==
  ~deleted /\ (\A i \in o.made : Stored(i)) /\ Claimed(o, o.made \cup orphans)

LEMMA RaisedUnwinds ==
  ASSUME NEW o \in OpType, NEW next, Unwinds(o)',
         next = [o EXCEPT !.undo = o.made,
                          !.pc = IF o.made = {} THEN "undoMarks" ELSE "undoRow"]
  PROVE  Knows(next)'
<1>1. /\ next.pc \in {"undoRow", "undoMarks"} /\ next.undo = o.made
      /\ next.made = o.made /\ next.keys = o.keys
      /\ next.pc = "undoMarks" => next.undo = {}
  BY DEF OpType
<1>2. Undoing(next)'
  BY <1>1 DEF Undoing, Unwinds, Claimed
<1> QED
  BY <1>1, <1>2, KnowsBy DEF UndoPcs

LEMMA WriteRaises ==
  ASSUME Alone, NEW a \in Actors, \A b \in Actors \ {a} : Quiet(b), TasksTyped,
         a # Recovery, op[a].pc \in WritePcs, NEW o, o = op[a], Unwinds(o)', Raise(a)
  PROVE  Alone' /\ TasksKnow'
<1>1. o \in OpType
  BY DEF TasksTyped, Held
<1>2. PICK next : next = Raised(a)
  OBVIOUS
<1>3. next = [o EXCEPT !.undo = o.made,
                       !.pc = IF o.made = {} THEN "undoMarks" ELSE "undoRow"]
  BY <1>2 DEF Raised
<1>4. Knows(next)'
  BY <1>1, <1>3, RaisedUnwinds
<1>5. op' = [op EXCEPT ![a] = next]
  BY <1>2 DEF Raise
<1> QED
  BY <1>4, <1>5, TaskMoves

LEMMA WriteMoves ==
  ASSUME Alone, NEW a \in Actors, \A b \in Actors \ {a} : Quiet(b), TasksTyped,
         a # Recovery, op[a].pc \in WritePcs, NEW o, o = op[a], Unwinds(o)',
         NEW next, Answer(a, next), Knows(next)'
  PROVE  Alone' /\ TasksKnow'
<1>1. CASE op' = [op EXCEPT ![a] = next]
  BY <1>1, TaskMoves
<1>2. CASE Raise(a)
  BY <1>2, WriteRaises
<1> QED
  BY <1>1, <1>2 DEF Answer

-----------------------------------------------------------------------------
(* The shapes of a step on the stores, and what each leaves.                *)

LEMMA AgreeStays == ASSUME StoresAgree, StoresUnchanged PROVE StoresAgree'
BY DEF StoresAgree, StoresUnchanged, documentVars, sideVars, IdsAreIssued,
       KeysAreUnique, ChunksAreApart, PointsHaveChunks, IntentsList, Lists,
       StonesAreErased, Erased, RemovalsAreTold, IncompleteIsCovered, Complete,
       DeletedStaysEmpty, RowAt, ChunksOf, VectorsOf, IntentAt

\* What a stored source has no part in.
LEMMA StoredIsFree ==
  ASSUME StoresAgree, NEW i, Stored(i)
  PROVE  ~Stoned(i) /\ ~deleted /\ VectorsOf(i) \subseteq ChunksOf(i) /\ i < nextId
<1>1. PICK r \in rows : r.id = i
  BY DEF Stored, RowAt
<1> QED
  BY <1>1 DEF StoresAgree, StonesAreErased, Erased, Stoned, Stored, DeletedStaysEmpty,
              PointsHaveChunks, IdsAreIssued

\* Notes: marks, revision, attachments, events; the sources stay as they are.
Notes ==
  /\ UNCHANGED <<rows, chunks, vectors, stones, intents, deleted, nextId, nextChunk>>
  /\ orphans' = orphans

NotesFit ==
  /\ \A r \in rows : r.key \in inflight \ inflight' =>
       Complete(r.id) \/ IntentAt(r.id) # {} \/ r.id \in orphans
  /\ \A s \in stones : s.id \notin links'
  /\ \A s \in stones : IntentAt(s.id) = {} => s.id \notin unbumped' /\ s.id \in trail'
  /\ deleted => inflight' = {} /\ links' = {}

LEMMA NotesAgree ==
  ASSUME StoresAgree, Notes, NotesFit
  PROVE  StoresAgree'
<1>1. /\ \A i : RowAt(i)' = RowAt(i) /\ ChunksOf(i)' = ChunksOf(i)
      /\ \A i : VectorsOf(i)' = VectorsOf(i) /\ IntentAt(i)' = IntentAt(i)
  BY DEF Notes, RowAt, ChunksOf, VectorsOf, IntentAt
<1>2. (IdsAreIssued /\ KeysAreUnique /\ ChunksAreApart)'
  BY DEF Notes, StoresAgree, IdsAreIssued, KeysAreUnique, ChunksAreApart
<1>3. (PointsHaveChunks /\ IntentsList)'
  BY <1>1 DEF Notes, StoresAgree, PointsHaveChunks, IntentsList, Lists
<1>4. (StonesAreErased /\ RemovalsAreTold)'
  BY <1>1 DEF Notes, NotesFit, StoresAgree, StonesAreErased, Erased, RemovalsAreTold
<1>5. (IncompleteIsCovered /\ DeletedStaysEmpty)'
  BY <1>1 DEF Notes, NotesFit, StoresAgree, IncompleteIsCovered, Complete, DeletedStaysEmpty
<1> QED
  BY <1>2, <1>3, <1>4, <1>5 DEF StoresAgree

\* A chunk arrives for a stored source that has none.
AddsChunk(i) ==
  /\ chunks' = chunks \cup {[chunk |-> nextChunk, id |-> i]}
  /\ nextChunk' = nextChunk + 1
  /\ UNCHANGED <<rows, inflight, stones, intents, unbumped, deleted, nextId, sideVars>>

LEMMA ChunkArrives ==
  ASSUME StoresTyped, StoresAgree, NEW i \in Nat, AddsChunk(i), Stored(i), ChunksOf(i) = {}
  PROVE  /\ StoresAgree'
         /\ ChunksOf(i)' = {nextChunk} /\ VectorsOf(i) = {}
         /\ \A j : j # i => ChunksOf(j)' = ChunksOf(j)
<1>1. ~Stoned(i) /\ ~deleted /\ VectorsOf(i) = {} /\ i < nextId
  BY StoredIsFree
<1>2. /\ \A j : RowAt(j)' = RowAt(j)
      /\ \A j : VectorsOf(j)' = VectorsOf(j) /\ IntentAt(j)' = IntentAt(j)
  BY DEF AddsChunk, sideVars, RowAt, VectorsOf, IntentAt
<1>3. ChunksOf(i)' = {nextChunk}
  <2>1. [chunk |-> nextChunk, id |-> i] \in chunks'
    BY DEF AddsChunk
  <2>2. nextChunk \in ChunksOf(i)'
    BY <2>1 DEF ChunksOf
  <2>3. \A x \in chunks' : x.id = i => x \notin chunks /\ x.chunk = nextChunk
    BY DEF AddsChunk, ChunksOf
  <2>4. ChunksOf(i)' \subseteq {nextChunk}
    BY <2>3 DEF ChunksOf
  <2> QED
    BY <2>2, <2>4
<1>4. \A j : j # i => ChunksOf(j)' = ChunksOf(j)
  BY DEF AddsChunk, ChunksOf
<1>5. IdsAreIssued'
  BY <1>1 DEF AddsChunk, sideVars, StoresAgree, IdsAreIssued, StoresTyped
<1>6. KeysAreUnique'
  BY DEF AddsChunk, StoresAgree, KeysAreUnique
<1>7. ChunksAreApart'
  BY DEF AddsChunk, StoresAgree, ChunksAreApart, IdsAreIssued, StoresTyped
<1>8. PointsHaveChunks'
  BY <1>1, <1>2, <1>3, <1>4 DEF AddsChunk, StoresAgree, PointsHaveChunks
<1>9. IntentsList'
  <2> SUFFICES ASSUME NEW p \in intents PROVE Lists(p.gone, p.id)'
    BY DEF AddsChunk, IntentsList
  <2>1. nextChunk \notin p.gone
    BY DEF StoresAgree, IdsAreIssued, StoresTyped
  <2> QED
    BY <1>2, <2>1 DEF AddsChunk, StoresAgree, IntentsList, Lists
<1>10. (StonesAreErased /\ RemovalsAreTold)'
  BY <1>1, <1>2, <1>4 DEF AddsChunk, sideVars, StoresAgree, StonesAreErased, Erased,
                          RemovalsAreTold, Stoned
<1>11. IncompleteIsCovered'
  <2> SUFFICES ASSUME NEW r \in rows
               PROVE  \/ Complete(r.id)' \/ r.key \in inflight \/ IntentAt(r.id) # {}
                      \/ r.id \in orphans
    BY <1>2 DEF AddsChunk, sideVars, IncompleteIsCovered
  <2>1. Complete(r.id) => r.id # i
    BY DEF Complete
  <2> QED
    BY <1>2, <1>4, <2>1 DEF StoresAgree, IncompleteIsCovered, Complete
<1>12. DeletedStaysEmpty'
  BY <1>1 DEF AddsChunk, DeletedStaysEmpty
<1> QED
  BY <1>1, <1>3, <1>4, <1>5, <1>6, <1>7, <1>8, <1>9, <1>10, <1>11, <1>12 DEF StoresAgree

\* A stored source gets a point for each of its chunks.
AddsPoints(i) ==
  /\ vectors' = Upserted(ChunksOf(i), i)
  /\ UNCHANGED <<documentVars, links, trail, orphans>>

LEMMA PointsArrive ==
  ASSUME StoresTyped, StoresAgree, NEW i \in Nat, AddsPoints(i), Stored(i),
         IntentAt(i) = {}, ChunksOf(i) # {}
  PROVE  /\ StoresAgree' /\ Complete(i)'
         /\ \A j : Complete(j) => Complete(j)'
         /\ \A j : j # i /\ Complete(j)' => Complete(j)
<1>1. ~Stoned(i) /\ ~deleted /\ VectorsOf(i) \subseteq ChunksOf(i) /\ i < nextId
  BY StoredIsFree
<1>2. /\ \A j : RowAt(j)' = RowAt(j)
      /\ \A j : ChunksOf(j)' = ChunksOf(j) /\ IntentAt(j)' = IntentAt(j)
  BY DEF AddsPoints, documentVars, RowAt, ChunksOf, IntentAt
<1>3. VectorsOf(i)' = ChunksOf(i)
  <2>1. ASSUME NEW n \in ChunksOf(i) PROVE n \in VectorsOf(i)'
    <3>1. [chunk |-> n, id |-> i] \in vectors'
      BY DEF AddsPoints, Upserted
    <3> QED
      BY <3>1 DEF VectorsOf
  <2>2. ASSUME NEW v \in vectors', v.id = i PROVE v.chunk \in ChunksOf(i)
    <3>1. CASE v \in vectors
      BY <1>1, <2>2, <3>1 DEF VectorsOf
    <3>2. CASE v \notin vectors
      BY <3>2 DEF AddsPoints, Upserted
    <3> QED
      BY <3>1, <3>2
  <2>3. VectorsOf(i)' \subseteq ChunksOf(i)
    BY <2>2 DEF VectorsOf
  <2> QED
    BY <2>1, <2>3
<1>4. ASSUME NEW j, j # i PROVE VectorsOf(j)' = VectorsOf(j) \ ChunksOf(i)
  BY <1>4 DEF AddsPoints, Upserted, VectorsOf
<1>5. ASSUME NEW j, j # i PROVE ChunksOf(j) \cap ChunksOf(i) = {}
  BY <1>5 DEF ChunksOf, StoresAgree, ChunksAreApart
<1>6. Complete(i)'
  BY <1>2, <1>3 DEF Complete
<1>7. ASSUME NEW j, j # i PROVE Complete(j)' <=> Complete(j)
  <2>1. VectorsOf(j)' = VectorsOf(j) \ ChunksOf(i) /\ ChunksOf(j) \cap ChunksOf(i) = {}
    BY <1>4, <1>5, <1>7
  <2> QED
    BY <1>2, <2>1 DEF Complete
<1>8. IdsAreIssued'
  <2>1. \A v \in vectors' : v \in vectors \/ v.id = i
    BY DEF AddsPoints, Upserted
  <2> QED
    BY <1>1, <2>1 DEF AddsPoints, documentVars, StoresAgree, IdsAreIssued
<1>9. (KeysAreUnique /\ ChunksAreApart)'
  BY DEF AddsPoints, documentVars, StoresAgree, KeysAreUnique, ChunksAreApart
<1>10. PointsHaveChunks'
  <2> SUFFICES ASSUME NEW r \in rows PROVE VectorsOf(r.id)' \subseteq ChunksOf(r.id)
    BY <1>2 DEF AddsPoints, documentVars, PointsHaveChunks
  <2> QED
    BY <1>3, <1>4 DEF StoresAgree, PointsHaveChunks
<1>11. IntentsList'
  <2> SUFFICES ASSUME NEW p \in intents PROVE Lists(p.gone, p.id)'
    BY DEF AddsPoints, documentVars, IntentsList
  <2>1. p.id # i
    BY DEF IntentAt
  <2>2. VectorsOf(p.id)' \subseteq VectorsOf(p.id)
    BY <1>4, <2>1
  <2> QED
    BY <2>2 DEF AddsPoints, documentVars, StoresAgree, IntentsList, Lists
<1>12. (StonesAreErased /\ RemovalsAreTold)'
  <2> SUFFICES ASSUME NEW s \in stones PROVE VectorsOf(s.id)' = {}
    BY <1>2 DEF AddsPoints, documentVars, StoresAgree, StonesAreErased, Erased,
                RemovalsAreTold
  <2> QED
    BY <1>1, <1>4 DEF Stoned, StoresAgree, StonesAreErased, Erased
<1>13. (IncompleteIsCovered /\ DeletedStaysEmpty)'
  <2> SUFFICES ASSUME NEW r \in rows, Complete(r.id) PROVE Complete(r.id)'
    BY <1>1, <1>2 DEF AddsPoints, documentVars, StoresAgree, IncompleteIsCovered,
                      DeletedStaysEmpty
  <2> QED
    BY <1>6, <1>7
<1>14. StoresAgree'
  BY <1>8, <1>9, <1>10, <1>11, <1>12, <1>13 DEF StoresAgree
<1> QED
  BY <1>6, <1>7, <1>14

\* A source's row and chunks go, in one transaction; the revision will say so.
Withdraws(i) ==
  /\ rows' = rows \ RowAt(i)
  /\ chunks' = {x \in chunks : x.id # i}
  /\ unbumped' = IF RowAt(i) = {} THEN unbumped ELSE unbumped \cup {i}
  /\ UNCHANGED <<inflight, stones, intents, deleted, nextId, nextChunk, sideVars>>

LEMMA SourceGoes ==
  ASSUME StoresTyped, StoresAgree, NEW i \in Nat, Withdraws(i)
  PROVE  /\ StoresAgree'
         /\ RowAt(i)' = {} /\ ChunksOf(i)' = {}
         /\ \A j : VectorsOf(j)' = VectorsOf(j) /\ IntentAt(j)' = IntentAt(j)
         /\ \A j : j # i => RowAt(j)' = RowAt(j) /\ ChunksOf(j)' = ChunksOf(j)
<1>1. RowAt(i)' = {} /\ ChunksOf(i)' = {}
  BY DEF Withdraws, RowAt, ChunksOf
<1>2. \A j : VectorsOf(j)' = VectorsOf(j) /\ IntentAt(j)' = IntentAt(j)
  BY DEF Withdraws, sideVars, VectorsOf, IntentAt
<1>3. \A j : j # i => RowAt(j)' = RowAt(j)
  BY DEF Withdraws, RowAt
<1>4. \A j : j # i => ChunksOf(j)' = ChunksOf(j)
  BY DEF Withdraws, ChunksOf
<1>5. rows' \subseteq rows /\ chunks' \subseteq chunks /\ (\A r \in rows' : r.id # i)
  BY DEF Withdraws, RowAt
<1>6. (IdsAreIssued /\ KeysAreUnique /\ ChunksAreApart)'
  BY <1>5 DEF Withdraws, sideVars, StoresAgree, IdsAreIssued, KeysAreUnique, ChunksAreApart
<1>7. PointsHaveChunks'
  BY <1>2, <1>4, <1>5 DEF StoresAgree, PointsHaveChunks
<1>8. IntentsList'
  BY <1>2, <1>5 DEF Withdraws, StoresAgree, IntentsList, Lists
<1>9. StonesAreErased'
  BY <1>1, <1>2, <1>3, <1>4 DEF Withdraws, sideVars, StoresAgree, StonesAreErased, Erased
<1>10. RemovalsAreTold'
  <2>1. Stored(i) => ~Stoned(i)
    BY StoredIsFree
  <2> QED
    BY <1>2, <2>1 DEF Withdraws, sideVars, StoresAgree, RemovalsAreTold, Stored, Stoned
<1>11. (IncompleteIsCovered /\ DeletedStaysEmpty)'
  BY <1>2, <1>4, <1>5 DEF Withdraws, sideVars, StoresAgree, IncompleteIsCovered,
                          Complete, DeletedStaysEmpty
<1>12. StoresAgree'
  BY <1>6, <1>7, <1>8, <1>9, <1>10, <1>11 DEF StoresAgree
<1> QED
  BY <1>1, <1>2, <1>3, <1>4, <1>12

\* Points go that belong to no chunk still there.
DropsPoints(gone) ==
  /\ vectors' = {v \in vectors : v.chunk \notin gone}
  /\ UNCHANGED <<documentVars, links, trail, orphans>>

LEMMA PointsGo ==
  ASSUME StoresAgree, NEW gone, DropsPoints(gone), \A x \in chunks : x.chunk \notin gone
  PROVE  /\ StoresAgree'
         /\ \A j : VectorsOf(j)' = VectorsOf(j) \ gone
         /\ \A j : Complete(j)' <=> Complete(j)
<1>1. \A j : VectorsOf(j)' = VectorsOf(j) \ gone
  BY DEF DropsPoints, VectorsOf
<1>2. \A j : RowAt(j)' = RowAt(j) /\ ChunksOf(j)' = ChunksOf(j) /\ IntentAt(j)' = IntentAt(j)
  BY DEF DropsPoints, documentVars, RowAt, ChunksOf, IntentAt
<1>3. \A j : ChunksOf(j) \cap gone = {}
  BY DEF ChunksOf
<1>4. \A j : Complete(j)' <=> Complete(j)
  BY <1>1, <1>2, <1>3 DEF Complete
<1>5. (IdsAreIssued /\ KeysAreUnique /\ ChunksAreApart)'
  BY DEF DropsPoints, documentVars, StoresAgree, IdsAreIssued, KeysAreUnique, ChunksAreApart
<1>6. (PointsHaveChunks /\ IntentsList)'
  BY <1>1, <1>2 DEF DropsPoints, documentVars, StoresAgree, PointsHaveChunks,
                    IntentsList, Lists
<1>7. (StonesAreErased /\ RemovalsAreTold)'
  BY <1>1, <1>2 DEF DropsPoints, documentVars, StoresAgree, StonesAreErased, Erased,
                    RemovalsAreTold
<1>8. (IncompleteIsCovered /\ DeletedStaysEmpty)'
  BY <1>2, <1>4 DEF DropsPoints, documentVars, StoresAgree, IncompleteIsCovered,
                    DeletedStaysEmpty
<1> QED
  BY <1>1, <1>4, <1>5, <1>6, <1>7, <1>8 DEF StoresAgree

\* Facts about sources survive a step that leaves what they read alone.
LEMMA SameSources ==
  ASSUME UNCHANGED <<rows, chunks, vectors, intents>>
  PROVE  /\ \A i : RowAt(i)' = RowAt(i) /\ ChunksOf(i)' = ChunksOf(i)
         /\ \A i : VectorsOf(i)' = VectorsOf(i) /\ IntentAt(i)' = IntentAt(i)
         /\ \A i : Stored(i)' <=> Stored(i)
         /\ \A i : Complete(i)' <=> Complete(i)
         /\ \A i : Erased(i)' <=> Erased(i)
BY DEF RowAt, ChunksOf, VectorsOf, IntentAt, Stored, Complete, Erased

-----------------------------------------------------------------------------
(* Every action.  First what holds wherever a task steps.                   *)

LEMMA InHand ==
  ASSUME SourceInv, NEW a \in Actors, ~Quiet(a)
  PROVE  /\ \A b \in Actors \ {a} : Quiet(b)
         /\ StoresTyped /\ TasksTyped /\ Alone /\ StoresAgree
         /\ op[a] \in OpType /\ Holds(op[a]) /\ Knows(op[a])
         /\ op[a].target \in Nat
<1>1. StoresTyped /\ TasksTyped /\ Alone /\ StoresAgree /\ TasksKnow
  BY DEF SourceInv
<1>2. \A b \in Actors \ {a} : Quiet(b)
  BY <1>1 DEF Alone
<1>3. op[a] \in OpType /\ Holds(op[a]) /\ Knows(op[a])
  BY <1>1 DEF TasksTyped, Held, TasksKnow
<1> QED
  BY <1>1, <1>2, <1>3 DEF OpType

LEMMA ClientInHand ==
  ASSUME SourceInv, NEW c \in Clients, op[c].pc \in CommitPcs \cup {"prepare"}
  PROVE  /\ c \in Actors /\ c # Recovery
         /\ \A b \in Actors \ {c} : Quiet(b)
         /\ StoresTyped /\ TasksTyped /\ Alone /\ StoresAgree
         /\ op[c] \in OpType /\ Holds(op[c]) /\ Knows(op[c])
         /\ op[c].target \in Nat
<1>1. c \in Actors /\ c # Recovery /\ ~Quiet(c)
  BY ConstantsAssumption DEF Actors, Quiet, CommitPcs, WritePcs, UndoPcs, ForgetPcs,
                             ErasePcs, RepairPcs
<1> QED
  BY <1>1, InHand

\* An episode arrives for a key that is marked and names no other.
AddsEpisode(r) ==
  /\ rows' = rows \cup {r}
  /\ unbumped' = unbumped \cup {nextId}
  /\ nextId' = nextId + 1
  /\ orphans' = orphans \/ orphans' = orphans \cup {nextId}
  /\ UNCHANGED <<chunks, inflight, stones, intents, deleted, nextChunk, vectors, links, trail>>

LEMMA EpisodeArrives ==
  ASSUME StoresTyped, StoresAgree, ~deleted,
         NEW r \in [id : Nat, key : Keys, text : Texts], r.id = nextId,
         RowsOf(r.key) = {}, r.key \in inflight, AddsEpisode(r)
  PROVE  /\ StoresAgree'
         /\ Stored(r.id)' /\ ChunksOf(r.id)' = {} /\ IntentAt(r.id)' = {}
         /\ \A j : Stored(j) => Stored(j)' /\ j # r.id
         /\ \A j : j # r.id => RowAt(j)' = RowAt(j)
         /\ \A j : IntentAt(j)' = IntentAt(j)
         /\ \A j : Complete(j)' <=> Complete(j)
         /\ \A x \in rows : x.id # nextId /\ x.key # r.key
         /\ RowAt(r.id) = {} /\ VectorsOf(r.id)' = {}
<1>1. nextId \in Nat /\ \A x \in rows : x.id # nextId /\ x.key # r.key
  BY DEF StoresTyped, StoresAgree, IdsAreIssued, RowsOf
<1>2. /\ \A j : ChunksOf(j)' = ChunksOf(j) /\ VectorsOf(j)' = VectorsOf(j)
      /\ \A j : IntentAt(j)' = IntentAt(j) /\ (Complete(j)' <=> Complete(j))
  BY DEF AddsEpisode, ChunksOf, VectorsOf, IntentAt, Complete
<1>3. ChunksOf(r.id) = {} /\ VectorsOf(r.id) = {} /\ IntentAt(r.id) = {}
  BY <1>1 DEF StoresTyped, StoresAgree, IdsAreIssued, ChunksOf, VectorsOf, IntentAt
<1>4. Stored(r.id)' /\ RowAt(r.id) = {}
  BY <1>1 DEF AddsEpisode, Stored, RowAt
<1>5. \A j : j # r.id => RowAt(j)' = RowAt(j)
  BY DEF AddsEpisode, RowAt
<1>6. \A j : Stored(j) => Stored(j)' /\ j # r.id
  BY <1>4, <1>5 DEF Stored
<1>7. IdsAreIssued'
  BY <1>1 DEF AddsEpisode, StoresTyped, StoresAgree, IdsAreIssued
<1>8. (KeysAreUnique /\ ChunksAreApart)'
  BY <1>1 DEF AddsEpisode, StoresAgree, KeysAreUnique, ChunksAreApart
<1>9. (PointsHaveChunks /\ IntentsList)'
  BY <1>2, <1>3 DEF AddsEpisode, StoresAgree, PointsHaveChunks, IntentsList, Lists
<1>10. \A s \in stones : s.id # nextId
  BY <1>1 DEF StoresTyped, StoresAgree, IdsAreIssued
<1>11. (StonesAreErased /\ RemovalsAreTold)'
  BY <1>2, <1>5, <1>10 DEF AddsEpisode, StoresAgree, StonesAreErased, Erased,
                           RemovalsAreTold
<1>12. (IncompleteIsCovered /\ DeletedStaysEmpty)'
  BY <1>2 DEF AddsEpisode, StoresAgree, IncompleteIsCovered, DeletedStaysEmpty
<1>13. StoresAgree'
  BY <1>7, <1>8, <1>9, <1>11, <1>12 DEF StoresAgree
<1> QED
  BY <1>1, <1>2, <1>3, <1>4, <1>5, <1>6, <1>13

\* What a writer knows survives when neither sources nor its own batch change.
LEMMA WritingStays ==
  ASSUME NEW o, NEW next, Writing(o), UNCHANGED <<rows, chunks, vectors, intents, deleted, orphans>>,
         next.made = o.made, next.keys = o.keys
  PROVE  /\ Unwinds(o)'
         /\ (/\ o.pc \notin {"chunk", "vector"} /\ next.pc \in {"mark", "row"}
             /\ next.pc = "row" => next.cur.key \in inflight')
              => Writing(next)'
<1>1. /\ \A i : (Stored(i)' <=> Stored(i)) /\ (Complete(i)' <=> Complete(i))
      /\ \A i : IntentAt(i)' = IntentAt(i)
  BY SameSources
<1>2. Unwinds(o)'
  BY <1>1 DEF Writing, Unwinds, Claimed
<1>3. ASSUME o.pc \notin {"chunk", "vector"}, next.pc \in {"mark", "row"},
             next.pc = "row" => next.cur.key \in inflight'
      PROVE  Writing(next)'
  BY <1>1, <1>3 DEF Writing, Claimed
<1> QED
  BY <1>2, <1>3

LEMMA MarkStep ==
  ASSUME SourceInv, NEW c \in Clients, Mark(c)
  PROVE  StoresAgree' /\ Alone' /\ TasksKnow'
<1> USE DEF WritePcs
<1>1. /\ op[c].pc = "mark" /\ inflight' = inflight \cup {op[c].cur.key}
      /\ UNCHANGED <<rows, chunks, stones, intents, unbumped, deleted, nextId,
                     nextChunk, vectors, links, trail, orphans>>
  BY DEF Mark, sideVars
<1>2. PICK o : o = op[c]
  OBVIOUS
<1>3. PICK next : next = [o EXCEPT !.pc = "row"]
  OBVIOUS
<1>4. /\ c \in Actors /\ c # Recovery /\ \A b \in Actors \ {c} : Quiet(b)
      /\ TasksTyped /\ Alone /\ StoresAgree /\ o \in OpType /\ Knows(o)
  BY <1>1, <1>2, ClientInHand DEF CommitPcs
<1>5. Writing(o)
  BY <1>1, <1>2, <1>4 DEF Knows
<1>6. /\ next.pc = "row" /\ next.made = o.made /\ next.keys = o.keys
      /\ next.cur = o.cur
  BY <1>3, <1>4 DEF OpType
<1>7. StoresAgree'
  <2>1. NotesFit
    BY <1>1, <1>4, <1>5 DEF NotesFit, StoresAgree, StonesAreErased, RemovalsAreTold, Writing
  <2> QED
    BY <1>1, <1>4, <2>1, NotesAgree DEF Notes
<1>8. Unwinds(o)' /\ Writing(next)'
  BY <1>1, <1>2, <1>5, <1>6, WritingStays
<1>9. Knows(next)'
  BY <1>6, <1>8, KnowsBy
<1>10. Answer(c, next)
  BY <1>2, <1>3 DEF Mark
<1> QED
  BY <1>1, <1>2, <1>4, <1>7, <1>8, <1>9, <1>10, WriteMoves

LEMMA InsertEpisodeStep ==
  ASSUME SourceInv, NEW c \in Clients, InsertEpisode(c)
  PROVE  StoresAgree' /\ Alone' /\ TasksKnow'
<1> USE DEF WritePcs
<1>1. PICK o : o = op[c]
  OBVIOUS
<1>2. PICK next : next = [o EXCEPT !.pc = "chunk", !.target = nextId,
                                   !.made = @ \cup {nextId}]
  OBVIOUS
<1>3. PICK r : r = [id |-> nextId, key |-> o.cur.key, text |-> o.cur.text]
  OBVIOUS
<1>4. /\ o.pc = "row" /\ RowsOf(o.cur.key) = {} /\ AddsEpisode(r)
      /\ \/ Goto(c, next) /\ orphans' = orphans
         \/ Raise(c) /\ orphans' = orphans \cup {nextId}
  BY <1>1, <1>2, <1>3 DEF InsertEpisode, AddsEpisode
<1>5. /\ c \in Actors /\ c # Recovery /\ \A b \in Actors \ {c} : Quiet(b)
      /\ TasksTyped /\ Alone /\ StoresAgree /\ StoresTyped /\ o \in OpType /\ Knows(o)
      /\ o.cur \in Records
  BY <1>1, <1>4, ClientInHand DEF CommitPcs, Holds
<1>6. Writing(o)
  BY <1>4, <1>5 DEF Knows
<1>7. r \in [id : Nat, key : Keys, text : Texts] /\ r.id = nextId /\ r.key = o.cur.key
  BY <1>3, <1>5 DEF Records, StoresTyped
<1>8. o.cur.key \in inflight /\ ~deleted
  BY <1>4, <1>6 DEF Writing
<1>9. /\ StoresAgree'
      /\ Stored(r.id)' /\ ChunksOf(r.id)' = {} /\ IntentAt(r.id)' = {}
      /\ \A j : Stored(j) => Stored(j)' /\ j # r.id
      /\ \A j : IntentAt(j)' = IntentAt(j)
      /\ \A j : Complete(j)' <=> Complete(j)
      /\ \A x \in rows : x.id # nextId /\ x.key # r.key
  BY <1>4, <1>5, <1>7, <1>8, EpisodeArrives
<1>10. /\ next.pc = "chunk" /\ next.target = r.id /\ next.made = o.made \cup {r.id}
       /\ next.keys = o.keys /\ next.cur = o.cur
  BY <1>2, <1>5, <1>7 DEF OpType
<1>11. /\ rows' = rows \cup {r} /\ inflight' = inflight /\ deleted' = deleted
       /\ orphans \subseteq orphans'
  BY <1>4 DEF AddsEpisode
<1>12. CASE Raise(c) /\ orphans' = orphans \cup {nextId}
  <2>1. Unwinds(o)'
    BY <1>6, <1>7, <1>8, <1>9, <1>11, <1>12 DEF Unwinds, Writing, Claimed
  <2> QED
    BY <1>1, <1>4, <1>5, <1>9, <1>12, <2>1, WriteRaises
<1>13. CASE Goto(c, next) /\ orphans' = orphans
  <2>1. \A i \in next.made : Stored(i)' /\ IntentAt(i)' = {}
    BY <1>6, <1>9, <1>10 DEF Writing
  <2>2. \A i \in next.made : Complete(i)' \/ i = next.target
    BY <1>4, <1>6, <1>9, <1>10 DEF Writing
  <2>3. Claimed(next, next.made \cup orphans)'
    BY <1>6, <1>7, <1>10, <1>11 DEF Writing, Claimed
  <2>4. \A x \in rows' : x.key = next.cur.key <=> x.id = next.target
    BY <1>7, <1>9, <1>10, <1>11
  <2>5. Writing(next)'
    BY <1>8, <1>9, <1>10, <1>11, <2>1, <2>2, <2>3, <2>4 DEF Writing
  <2>6. Knows(next)'
    BY <1>10, <2>5, KnowsBy
  <2> QED
    BY <1>5, <1>9, <1>13, <2>6, TaskMoves DEF Goto
<1> QED
  BY <1>4, <1>12, <1>13

LEMMA EpisodeConflictStep ==
  ASSUME SourceInv, NEW c \in Clients, EpisodeConflict(c)
  PROVE  StoresAgree' /\ Alone' /\ TasksKnow'
<1> USE DEF WritePcs
<1>1. op[c].pc = "row" /\ Raise(c) /\ StoresUnchanged
  BY DEF EpisodeConflict
<1>2. PICK o : o = op[c]
  OBVIOUS
<1>3. /\ c \in Actors /\ c # Recovery /\ \A b \in Actors \ {c} : Quiet(b)
      /\ TasksTyped /\ Alone /\ StoresAgree /\ Knows(o)
  BY <1>1, <1>2, ClientInHand DEF CommitPcs
<1>4. Writing(o)
  BY <1>1, <1>2, <1>3 DEF Knows
<1>5. Unwinds(o)'
  BY <1>1, <1>4, WritingStays DEF StoresUnchanged, documentVars, sideVars
<1> QED
  BY <1>1, <1>2, <1>3, <1>5, AgreeStays, WriteRaises

LEMMA InsertChunksStep ==
  ASSUME SourceInv, NEW c \in Clients, InsertChunks(c)
  PROVE  StoresAgree' /\ Alone' /\ TasksKnow'
<1> USE DEF WritePcs
<1>1. PICK o : o = op[c]
  OBVIOUS
<1>2. PICK n : n = nextChunk
  OBVIOUS
<1>3. PICK next : next = [o EXCEPT !.pc = "vector", !.gone = {n}]
  OBVIOUS
<1>4. o.pc = "chunk" /\ AddsChunk(o.target) /\ Answer(c, next)
  BY <1>1, <1>2, <1>3 DEF InsertChunks, AddsChunk
<1>5. /\ c \in Actors /\ c # Recovery /\ \A b \in Actors \ {c} : Quiet(b)
      /\ TasksTyped /\ Alone /\ StoresAgree /\ StoresTyped /\ o \in OpType /\ Knows(o)
      /\ o.target \in Nat
  BY <1>1, <1>4, ClientInHand DEF CommitPcs
<1>6. Writing(o)
  BY <1>4, <1>5 DEF Knows
<1>7. o.target \in o.made /\ Stored(o.target) /\ ChunksOf(o.target) = {} /\ ~deleted
  BY <1>4, <1>6 DEF Writing
<1>8. /\ StoresAgree' /\ ChunksOf(o.target)' = {n}
      /\ \A j : j # o.target => ChunksOf(j)' = ChunksOf(j)
  BY <1>2, <1>4, <1>5, <1>7, ChunkArrives
<1>9. /\ next.pc = "vector" /\ next.target = o.target /\ next.made = o.made
      /\ next.keys = o.keys /\ next.cur = o.cur /\ next.gone = {n}
  BY <1>3, <1>5 DEF OpType
<1>10. /\ rows' = rows /\ inflight' = inflight /\ deleted' = deleted /\ orphans' = orphans
       /\ intents' = intents /\ vectors' = vectors
  BY <1>4 DEF AddsChunk, sideVars
<1>11. \A i : (Stored(i)' <=> Stored(i)) /\ IntentAt(i)' = IntentAt(i)
  BY <1>10 DEF Stored, RowAt, IntentAt
<1>12. \A i : i # o.target /\ Complete(i) => Complete(i)'
  BY <1>8, <1>10 DEF Complete, VectorsOf
<1>13. Unwinds(o)'
  BY <1>6, <1>10, <1>11 DEF Unwinds, Writing, Claimed
<1>14. Writing(next)'
  <2>1. \A i \in next.made : Complete(i)' \/ i = next.target
    BY <1>6, <1>9, <1>12 DEF Writing
  <2>2. Claimed(next, next.made \cup orphans)'
    BY <1>6, <1>9, <1>10 DEF Writing, Claimed
  <2>3. /\ next.cur.key \in inflight' /\ next.target \in next.made
        /\ \A r \in rows' : r.key = next.cur.key <=> r.id = next.target
    BY <1>4, <1>6, <1>9, <1>10 DEF Writing
  <2>4. \A i \in next.made : Stored(i)' /\ IntentAt(i)' = {}
    BY <1>6, <1>9, <1>11 DEF Writing
  <2> QED
    BY <1>7, <1>8, <1>9, <1>10, <2>1, <2>2, <2>3, <2>4 DEF Writing
<1>15. Knows(next)'
  BY <1>9, <1>14, KnowsBy
<1> QED
  BY <1>1, <1>4, <1>5, <1>8, <1>13, <1>15, WriteMoves

LEMMA UpsertVectorsStep ==
  ASSUME SourceInv, NEW c \in Clients, UpsertVectors(c)
  PROVE  StoresAgree' /\ Alone' /\ TasksKnow'
<1> USE DEF WritePcs
<1>1. PICK o : o = op[c]
  OBVIOUS
<1>2. PICK next : next = [o EXCEPT !.pc = "clear", !.gone = {}]
  OBVIOUS
<1>3. /\ o.pc = "vector" /\ Answer(c, next) /\ vectors' = Upserted(o.gone, o.target)
      /\ UNCHANGED <<documentVars, links, trail, orphans>>
  BY <1>1, <1>2 DEF UpsertVectors
<1>4. /\ c \in Actors /\ c # Recovery /\ \A b \in Actors \ {c} : Quiet(b)
      /\ TasksTyped /\ Alone /\ StoresAgree /\ StoresTyped /\ o \in OpType /\ Knows(o)
      /\ o.target \in Nat
  BY <1>1, <1>3, ClientInHand DEF CommitPcs
<1>5. Writing(o)
  BY <1>3, <1>4 DEF Knows
<1>6. /\ o.target \in o.made /\ Stored(o.target) /\ IntentAt(o.target) = {}
      /\ o.gone = ChunksOf(o.target) /\ o.gone # {} /\ ~deleted
  BY <1>3, <1>5 DEF Writing
<1>7. AddsPoints(o.target)
  BY <1>3, <1>6 DEF AddsPoints
<1>8. /\ StoresAgree' /\ Complete(o.target)'
      /\ \A j : Complete(j) => Complete(j)'
  BY <1>4, <1>6, <1>7, PointsArrive
<1>9. /\ next.pc = "clear" /\ next.target = o.target /\ next.made = o.made
      /\ next.keys = o.keys /\ next.cur = o.cur
  BY <1>2, <1>4 DEF OpType
<1>10. /\ rows' = rows /\ inflight' = inflight /\ deleted' = deleted /\ orphans' = orphans
       /\ intents' = intents
  BY <1>3 DEF documentVars
<1>11. \A i : (Stored(i)' <=> Stored(i)) /\ IntentAt(i)' = IntentAt(i)
  BY <1>10 DEF Stored, RowAt, IntentAt
<1>12. Unwinds(o)'
  BY <1>5, <1>10, <1>11 DEF Unwinds, Writing, Claimed
<1>13. Writing(next)'
  <2>1. \A i \in next.made : Complete(i)' /\ Stored(i)' /\ IntentAt(i)' = {}
    BY <1>5, <1>8, <1>9, <1>11 DEF Writing
  <2>2. Claimed(next, next.made \cup orphans)'
    BY <1>5, <1>9, <1>10 DEF Writing, Claimed
  <2>3. /\ next.target \in next.made
        /\ \A r \in rows' : r.key = next.cur.key <=> r.id = next.target
    BY <1>3, <1>5, <1>9, <1>10 DEF Writing
  <2> QED
    BY <1>6, <1>9, <1>10, <2>1, <2>2, <2>3 DEF Writing
<1>14. Knows(next)'
  BY <1>9, <1>13, KnowsBy
<1> QED
  BY <1>1, <1>3, <1>4, <1>8, <1>12, <1>14, WriteMoves

LEMMA ClearMarkStep ==
  ASSUME SourceInv, NEW c \in Clients, ClearMark(c)
  PROVE  StoresAgree' /\ Alone' /\ TasksKnow'
<1> USE DEF WritePcs
<1>1. PICK o : o = op[c]
  OBVIOUS
<1>2. /\ o.pc = "clear" /\ inflight' = inflight \ {o.cur.key}
      /\ UNCHANGED <<rows, chunks, stones, intents, unbumped, deleted, nextId,
                     nextChunk, vectors, links, trail, orphans>>
  BY <1>1 DEF ClearMark, sideVars
<1>3. /\ c \in Actors /\ c # Recovery /\ \A b \in Actors \ {c} : Quiet(b)
      /\ TasksTyped /\ Alone /\ StoresAgree /\ o \in OpType /\ Knows(o)
  BY <1>1, <1>2, ClientInHand DEF CommitPcs
<1>4. Writing(o)
  BY <1>2, <1>3 DEF Knows
<1>5. /\ ~deleted /\ o.target \in o.made
      /\ \A i \in o.made : Stored(i) /\ Complete(i)
      /\ \A r \in rows : r.key = o.cur.key => r.id = o.target
  BY <1>2, <1>4 DEF Writing
<1>6. StoresAgree'
  <2>1. NotesFit
    BY <1>2, <1>3, <1>5 DEF NotesFit, StoresAgree, StonesAreErased, RemovalsAreTold
  <2> QED
    BY <1>2, <1>3, <2>1, NotesAgree DEF Notes
<1>7. ASSUME NEW next, next = [o EXCEPT !.pc = "bump"], Answer(c, next)
      PROVE  Alone' /\ TasksKnow'
  <2>1. next.pc = "bump" /\ next.made = o.made /\ next.keys = o.keys /\ next.target = o.target
    BY <1>3, <1>7 DEF OpType
  <2>2. Written(next)'
    BY <1>2, <1>5, <2>1, SameSources DEF Written
  <2>3. Knows(next)'
    BY <2>1, <2>2, KnowsBy
  <2>4. Unwinds(o)'
    BY <1>2, <1>4, <2>1, WritingStays
  <2> QED
    BY <1>1, <1>2, <1>3, <1>7, <2>3, <2>4, WriteMoves
<1>8. ASSUME NEW r \in o.todo, NEW next,
             next = [o EXCEPT !.pc = "mark", !.cur = r, !.todo = @ \ {r}], Answer(c, next)
      PROVE  Alone' /\ TasksKnow'
  <2>1. next.pc = "mark" /\ next.made = o.made /\ next.keys = o.keys
    BY <1>3, <1>8 DEF OpType
  <2>2. Unwinds(o)' /\ Writing(next)'
    BY <1>2, <1>4, <2>1, WritingStays
  <2>3. Knows(next)'
    BY <2>1, <2>2, KnowsBy
  <2> QED
    BY <1>1, <1>2, <1>3, <1>8, <2>2, <2>3, WriteMoves
<1> QED
  BY <1>1, <1>6, <1>7, <1>8 DEF ClearMark

LEMMA BumpAfterWriteStep ==
  ASSUME SourceInv, NEW c \in Clients, BumpAfterWrite(c)
  PROVE  StoresAgree' /\ Alone' /\ TasksKnow'
<1>1. PICK o : o = op[c]
  OBVIOUS
<1>2. /\ o.pc = "bump" /\ unbumped' = {}
      /\ UNCHANGED <<rows, chunks, inflight, stones, intents, deleted, nextId,
                     nextChunk, vectors, links, trail, orphans>>
  BY <1>1 DEF BumpAfterWrite, sideVars
<1>3. /\ c \in Actors /\ \A b \in Actors \ {c} : Quiet(b)
      /\ TasksTyped /\ Alone /\ StoresAgree /\ o \in OpType /\ Knows(o)
      /\ o.pc \notin WritePcs
  BY <1>1, <1>2, ClientInHand DEF CommitPcs, WritePcs
<1>4. Written(o)
  BY <1>2, <1>3 DEF Knows
<1>5. StoresAgree'
  <2>1. NotesFit
    BY <1>2, <1>3 DEF NotesFit, StoresAgree, StonesAreErased, RemovalsAreTold,
                      DeletedStaysEmpty
  <2> QED
    BY <1>2, <1>3, <2>1, NotesAgree DEF Notes
<1>6. PICK next : next = IF o.attach THEN [o EXCEPT !.pc = "link"] ELSE Idle
  OBVIOUS
<1>7. Knows(next)'
  <2>1. CASE o.attach
    <3>1. next.pc = "link" /\ next.made = o.made /\ next.target = o.target
      BY <1>3, <1>6, <2>1 DEF OpType
    <3>2. Written(next)'
      BY <1>2, <1>4, <2>1, <3>1, SameSources DEF Written
    <3> QED
      BY <3>1, <3>2, KnowsBy
  <2>2. CASE ~o.attach
    <3>1. next.pc = "idle"
      BY <1>6, <2>2 DEF Idle
    <3> QED
      BY <3>1, QuietKnows
  <2> QED
    BY <2>1, <2>2
<1>8. Answer(c, next)
  BY <1>1, <1>6 DEF BumpAfterWrite
<1> QED
  BY <1>1, <1>3, <1>5, <1>7, <1>8, AnswerMoves

\* A call that ends with this answer.
LEMMA EndMoves ==
  ASSUME Alone, NEW a \in Actors, \A b \in Actors \ {a} : Quiet(b), TasksTyped,
         op[a].pc \notin WritePcs, Answer(a, Idle)
  PROVE  Alone' /\ TasksKnow'
<1>1. PICK next : next = Idle
  OBVIOUS
<1>2. Knows(next)'
  BY <1>1, QuietKnows DEF Idle
<1> QED
  BY <1>1, <1>2, AnswerMoves

LEMMA LinkStep ==
  ASSUME SourceInv, NEW c \in Clients, Link(c)
  PROVE  StoresAgree' /\ Alone' /\ TasksKnow'
<1>1. PICK o : o = op[c]
  OBVIOUS
<1>2. /\ o.pc = "link" /\ links' = links \cup {o.target} /\ Answer(c, Idle)
      /\ UNCHANGED <<documentVars, vectors, trail, orphans>>
  BY <1>1 DEF Link
<1>3. /\ c \in Actors /\ \A b \in Actors \ {c} : Quiet(b)
      /\ TasksTyped /\ Alone /\ StoresAgree /\ Knows(o) /\ o.pc \notin WritePcs
  BY <1>1, <1>2, ClientInHand DEF CommitPcs, WritePcs
<1>4. ~Stoned(o.target) /\ ~deleted
  BY <1>2, <1>3, StoredIsFree DEF Knows, Written
<1>5. StoresAgree'
  <2>1. NotesFit
    BY <1>2, <1>3, <1>4 DEF NotesFit, StoresAgree, StonesAreErased, RemovalsAreTold,
                            Stoned, documentVars
  <2> QED
    BY <1>2, <1>3, <2>1, NotesAgree DEF Notes, documentVars
<1> QED
  BY <1>1, <1>2, <1>3, <1>5, EndMoves

LEMMA UndoEpisodeStep ==
  ASSUME SourceInv, NEW c \in Clients, UndoEpisode(c)
  PROVE  StoresAgree' /\ Alone' /\ TasksKnow'
<1>1. PICK o : o = op[c]
  OBVIOUS
<1>2. PICK id \in o.undo :
        /\ o.pc = "undoRow" /\ rows' = rows \ RowAt(id)
        /\ chunks' = {x \in chunks : x.id # id} /\ unbumped' = unbumped \cup {id}
        /\ Answer(c, [o EXCEPT !.pc = "undoVectors", !.gone = ChunksOf(id), !.target = id])
        /\ UNCHANGED <<inflight, stones, intents, deleted, nextId, nextChunk, sideVars>>
  BY <1>1 DEF UndoEpisode
<1>3. PICK gone : gone = ChunksOf(id)
  OBVIOUS
<1>4. PICK next : next = [o EXCEPT !.pc = "undoVectors", !.gone = gone, !.target = id]
  OBVIOUS
<1>5. /\ c \in Actors /\ \A b \in Actors \ {c} : Quiet(b)
      /\ TasksTyped /\ Alone /\ StoresAgree /\ StoresTyped /\ o \in OpType /\ Knows(o)
      /\ op[c].pc \notin WritePcs
  BY <1>1, <1>2, ClientInHand DEF CommitPcs, UndoPcs, WritePcs
<1>6. Undoing(o)
  BY <1>2, <1>5 DEF Knows, UndoPcs
<1>7. Stored(id) /\ id \in Nat /\ ~deleted
  BY <1>2, <1>5, <1>6 DEF Undoing, OpType
<1>8. Withdraws(id)
  BY <1>2, <1>7 DEF Withdraws, Stored
<1>9. /\ StoresAgree' /\ RowAt(id)' = {} /\ ChunksOf(id)' = {}
      /\ \A j : VectorsOf(j)' = VectorsOf(j) /\ IntentAt(j)' = IntentAt(j)
      /\ \A j : j # id => RowAt(j)' = RowAt(j) /\ ChunksOf(j)' = ChunksOf(j)
  BY <1>5, <1>7, <1>8, SourceGoes
<1>10. VectorsOf(id)' \subseteq gone
  BY <1>3, <1>5, <1>7, <1>9, StoredIsFree
<1>11. \A x \in chunks' : x.chunk \notin gone
  BY <1>2, <1>3, <1>5 DEF ChunksOf, StoresAgree, ChunksAreApart
<1>12. /\ next.pc = "undoVectors" /\ next.gone = gone /\ next.target = id
       /\ next.undo = o.undo /\ next.made = o.made /\ next.keys = o.keys
  BY <1>4, <1>5 DEF OpType
<1>13. Undoing(next)'
  <2>1. \A i \in next.made \ next.undo : Erased(i)'
    BY <1>2, <1>6, <1>9, <1>12 DEF Undoing, Erased
  <2>2. \A i \in next.undo : Stored(i)' \/ i = next.target
    BY <1>2, <1>6, <1>9, <1>12 DEF Undoing, Stored
  <2>3. Claimed(next, next.undo \cup orphans)'
    BY <1>2, <1>6, <1>12 DEF Undoing, Claimed, sideVars
  <2> QED
    BY <1>2, <1>7, <1>9, <1>10, <1>11, <1>12, <2>1, <2>2, <2>3 DEF Undoing
<1>14. Knows(next)'
  BY <1>12, <1>13, KnowsBy DEF UndoPcs
<1>15. Answer(c, next)
  BY <1>2, <1>3, <1>4
<1> QED
  BY <1>5, <1>9, <1>14, <1>15, AnswerMoves

LEMMA UndoVectorsStep ==
  ASSUME SourceInv, NEW c \in Clients, UndoVectors(c)
  PROVE  StoresAgree' /\ Alone' /\ TasksKnow'
<1>1. PICK o : o = op[c]
  OBVIOUS
<1>2. PICK left : left = o.undo \ {o.target}
  OBVIOUS
<1>3. PICK next : next = [o EXCEPT !.gone = {}, !.undo = left,
                                   !.pc = IF left = {} THEN "undoMarks" ELSE "undoRow"]
  OBVIOUS
<1>4. /\ o.pc = "undoVectors" /\ DropsPoints(o.gone) /\ Answer(c, next)
      /\ UNCHANGED <<documentVars, links, trail, orphans>>
  BY <1>1, <1>2, <1>3 DEF UndoVectors, DropsPoints
<1>5. /\ c \in Actors /\ \A b \in Actors \ {c} : Quiet(b)
      /\ TasksTyped /\ Alone /\ StoresAgree /\ o \in OpType /\ Knows(o)
      /\ op[c].pc \notin WritePcs
  BY <1>1, <1>4, ClientInHand DEF CommitPcs, UndoPcs, WritePcs
<1>6. Undoing(o)
  BY <1>4, <1>5 DEF Knows, UndoPcs
<1>7. /\ RowAt(o.target) = {} /\ ChunksOf(o.target) = {} /\ ~deleted
      /\ VectorsOf(o.target) \subseteq o.gone /\ \A x \in chunks : x.chunk \notin o.gone
  BY <1>4, <1>6 DEF Undoing
<1>8. StoresAgree' /\ \A j : VectorsOf(j)' = VectorsOf(j) \ o.gone
  BY <1>4, <1>5, <1>7, PointsGo
<1>9. \A j : RowAt(j)' = RowAt(j) /\ ChunksOf(j)' = ChunksOf(j)
  BY <1>4 DEF documentVars, RowAt, ChunksOf
<1>10. /\ next.pc \in {"undoRow", "undoMarks"} /\ (next.pc = "undoMarks" <=> left = {})
       /\ next.undo = left /\ next.made = o.made /\ next.keys = o.keys
  BY <1>3, <1>5 DEF OpType
<1>11. Undoing(next)'
  <2>1. \A i \in next.made \ next.undo : Erased(i)'
    BY <1>2, <1>6, <1>7, <1>8, <1>9, <1>10 DEF Undoing, Erased
  <2>2. \A i \in next.undo : Stored(i)'
    BY <1>2, <1>6, <1>9, <1>10 DEF Undoing, Stored
  <2>3. \A r \in rows : r.id # o.target
    BY <1>7 DEF RowAt
  <2>4. Claimed(next, next.undo \cup orphans)'
    BY <1>2, <1>4, <1>6, <1>10, <2>3 DEF Undoing, Claimed, documentVars
  <2> QED
    BY <1>4, <1>7, <1>10, <2>1, <2>2, <2>4 DEF Undoing, documentVars
<1>12. Knows(next)'
  BY <1>10, <1>11, KnowsBy DEF UndoPcs
<1> QED
  BY <1>4, <1>5, <1>8, <1>12, AnswerMoves

LEMMA UndoMarkStep ==
  ASSUME SourceInv, NEW c \in Clients, UndoMark(c)
  PROVE  StoresAgree' /\ Alone' /\ TasksKnow'
<1>1. PICK o : o = op[c]
  OBVIOUS
<1>2. PICK k \in o.keys :
        /\ o.pc = "undoMarks" /\ inflight' = inflight \ {k}
        /\ Answer(c, IF o.keys = {k} THEN Failed(o) ELSE [o EXCEPT !.keys = @ \ {k}])
        /\ UNCHANGED <<rows, chunks, stones, intents, unbumped, deleted, nextId,
                       nextChunk, sideVars>>
  BY <1>1 DEF UndoMark
<1>3. /\ c \in Actors /\ \A b \in Actors \ {c} : Quiet(b)
      /\ TasksTyped /\ Alone /\ StoresAgree /\ o \in OpType /\ Knows(o)
      /\ op[c].pc \notin WritePcs
  BY <1>1, <1>2, ClientInHand DEF CommitPcs, UndoPcs, WritePcs
<1>4. Undoing(o)
  BY <1>2, <1>3 DEF Knows, UndoPcs
<1>5. o.undo = {} /\ ~deleted /\ \A r \in rows : r.key = k => r.id \in orphans
  BY <1>2, <1>4 DEF Undoing, Claimed
<1>6. StoresAgree'
  <2>1. NotesFit
    BY <1>2, <1>3, <1>5 DEF NotesFit, StoresAgree, StonesAreErased, RemovalsAreTold, sideVars
  <2> QED
    BY <1>2, <1>3, <2>1, NotesAgree DEF Notes, sideVars
<1>7. PICK next : next = IF o.keys = {k} THEN Failed(o) ELSE [o EXCEPT !.keys = @ \ {k}]
  OBVIOUS
<1>8. Knows(next)'
  <2>1. CASE o.keys = {k}
    <3>1. next.pc = "failed"
      BY <1>7, <2>1 DEF Failed, Idle
    <3> QED
      BY <3>1, QuietKnows
  <2>2. CASE o.keys # {k}
    <3>1. /\ next.pc = "undoMarks" /\ next.undo = o.undo /\ next.made = o.made
          /\ next.keys = o.keys \ {k}
      BY <1>2, <1>3, <1>7, <2>2 DEF OpType
    <3>2. \A i : Erased(i)' <=> Erased(i)
      BY <1>2, SameSources DEF sideVars
    <3>3. Undoing(next)'
      BY <1>2, <1>4, <1>5, <3>1, <3>2 DEF Undoing, Claimed, sideVars
    <3> QED
      BY <3>1, <3>3, KnowsBy DEF UndoPcs
  <2> QED
    BY <2>1, <2>2
<1>9. Answer(c, next)
  BY <1>2, <1>7
<1> QED
  BY <1>3, <1>6, <1>8, <1>9, AnswerMoves

-----------------------------------------------------------------------------
(* A removal.                                                               *)

LEMMA ForgetInHand ==
  ASSUME SourceInv, NEW a \in Actors, op[a].pc \in ForgetPcs
  PROVE  /\ \A b \in Actors \ {a} : Quiet(b)
         /\ StoresTyped /\ TasksTyped /\ Alone /\ StoresAgree
         /\ op[a] \in OpType /\ Forgetting(op[a]) /\ op[a].target \in Nat
         /\ op[a].pc \notin WritePcs
         /\ IntentAt(op[a].target) # {} => ~deleted /\ op[a].target < nextId
<1>1. ~Quiet(a) /\ op[a].pc \notin WritePcs
  BY DEF Quiet, ForgetPcs, WritePcs
<1>2. /\ \A b \in Actors \ {a} : Quiet(b)
      /\ StoresTyped /\ TasksTyped /\ Alone /\ StoresAgree
      /\ op[a] \in OpType /\ Knows(op[a]) /\ op[a].target \in Nat
  BY <1>1, InHand
<1>3. IntentAt(op[a].target) # {} => ~deleted /\ op[a].target < nextId
  BY <1>2 DEF IntentAt, StoresAgree, IdsAreIssued, DeletedStaysEmpty
<1> QED
  BY <1>1, <1>2, <1>3 DEF Knows

LEMMA RevokeStep ==
  ASSUME SourceInv, NEW c \in Clients, Revoke(c)
  PROVE  StoresAgree' /\ Alone' /\ TasksKnow'
<1>1. PICK o : o = op[c]
  OBVIOUS
<1>2. o.pc = "revoke" /\ StoresUnchanged
  BY <1>1 DEF Revoke
<1>3. c \in Actors
  BY DEF Actors
<1>4. /\ \A b \in Actors \ {c} : Quiet(b)
      /\ TasksTyped /\ Alone /\ StoresAgree /\ o \in OpType /\ Forgetting(o)
  BY <1>1, <1>2, <1>3, ForgetInHand DEF ForgetPcs
<1>5. /\ \A i : ChunksOf(i)' = ChunksOf(i) /\ IntentAt(i)' = IntentAt(i)
      /\ \A i : Stored(i)' <=> Stored(i)
  BY <1>2, SameSources DEF StoresUnchanged, documentVars, sideVars
<1>6. StoresAgree'
  BY <1>2, <1>4, AgreeStays
<1>7. ASSUME NEW next, Knows(next)', Goto(c, next)
      PROVE  Alone' /\ TasksKnow'
  BY <1>3, <1>4, <1>7, TaskMoves DEF Goto
<1>8. CASE IntentAt(o.target) # {} /\ Goto(c, [o EXCEPT !.pc = "check"])
  <2>1. PICK next : next = [o EXCEPT !.pc = "check"]
    OBVIOUS
  <2>2. /\ next.pc = "check" /\ next.target = o.target /\ next.made = o.made
        /\ next.undo = o.undo /\ next.call = o.call
    BY <1>4, <2>1 DEF OpType
  <2>3. Forgetting(next)'
    BY <1>2, <1>4, <1>5, <1>8, <2>2 DEF Forgetting
  <2>4. Knows(next)'
    BY <2>2, <2>3, KnowsBy DEF ForgetPcs
  <2> QED
    BY <1>6, <1>7, <1>8, <2>1, <2>4
<1>9. ASSUME NEW r \in RowAt(o.target),
             Goto(c, [o EXCEPT !.pc = "intent", !.keys = {r.key}, !.gone = ChunksOf(o.target)])
      PROVE  Alone' /\ TasksKnow'
  <2>1. PICK gone : gone = ChunksOf(o.target)
    OBVIOUS
  <2>2. PICK next : next = [o EXCEPT !.pc = "intent", !.keys = {r.key}, !.gone = gone]
    OBVIOUS
  <2>3. /\ next.pc = "intent" /\ next.target = o.target /\ next.made = o.made
        /\ next.undo = o.undo /\ next.call = o.call /\ next.keys = {r.key}
        /\ next.gone = gone
    BY <1>4, <2>2 DEF OpType
  <2>4. Stored(o.target)
    BY <1>9 DEF Stored
  <2>5. Forgetting(next)'
    BY <1>4, <1>5, <2>1, <2>3, <2>4 DEF Forgetting
  <2>6. Knows(next)'
    BY <2>3, <2>5, KnowsBy DEF ForgetPcs
  <2> QED
    BY <1>7, <1>9, <2>1, <2>2, <2>6
<1>10. CASE Goto(c, Failed(o))
  <2>1. PICK next : next = Failed(o)
    OBVIOUS
  <2>2. next.pc = "failed"
    BY <2>1 DEF Failed, Idle
  <2>3. Knows(next)'
    BY <2>2, QuietKnows
  <2> QED
    BY <1>6, <1>7, <1>10, <2>1, <2>3
<1> QED
  BY <1>1, <1>6, <1>8, <1>9, <1>10 DEF Revoke

LEMMA RecordIntentStep ==
  ASSUME SourceInv, NEW c \in Clients, RecordIntent(c)
  PROVE  StoresAgree' /\ Alone' /\ TasksKnow'
<1>1. PICK o : o = op[c]
  OBVIOUS
<1>2. PICK next : next = [o EXCEPT !.pc = "check", !.gone = {}]
  OBVIOUS
<1>3. /\ o.pc = "intent" /\ Answer(c, next)
      /\ intents' = IF IntentAt(o.target) # {} THEN intents
                    ELSE intents \cup {[id |-> o.target, key |-> k, gone |-> o.gone] : k \in o.keys}
      /\ UNCHANGED <<rows, chunks, inflight, stones, unbumped, deleted, nextId,
                     nextChunk, vectors, links, trail, orphans>>
  BY <1>1, <1>2 DEF RecordIntent, sideVars
<1>4. c \in Actors
  BY DEF Actors
<1>5. /\ \A b \in Actors \ {c} : Quiet(b)
      /\ TasksTyped /\ Alone /\ StoresAgree /\ StoresTyped /\ o \in OpType /\ Forgetting(o)
      /\ op[c].pc \notin WritePcs
  BY <1>1, <1>3, <1>4, ForgetInHand DEF ForgetPcs
<1>6. Stored(o.target) /\ o.keys # {} /\ o.gone = ChunksOf(o.target)
  BY <1>3, <1>5 DEF Forgetting
<1>7. /\ ~Stoned(o.target) /\ ~deleted /\ VectorsOf(o.target) \subseteq o.gone
      /\ o.target < nextId
  BY <1>5, <1>6, StoredIsFree
<1>8. /\ \A i : RowAt(i)' = RowAt(i) /\ ChunksOf(i)' = ChunksOf(i)
      /\ \A i : VectorsOf(i)' = VectorsOf(i)
  BY <1>3 DEF RowAt, ChunksOf, VectorsOf
<1>9. \A p \in intents' : p \in intents \/ (p.id = o.target /\ p.gone = o.gone)
  BY <1>3
<1>10. intents \subseteq intents' /\ \A i : IntentAt(i) \subseteq IntentAt(i)'
  BY <1>3 DEF IntentAt
<1>11. IntentAt(o.target)' # {}
  <2>1. CASE IntentAt(o.target) # {}
    BY <1>10, <2>1
  <2>2. CASE IntentAt(o.target) = {}
    <3>1. PICK k \in o.keys : TRUE
      BY <1>6
    <3>2. [id |-> o.target, key |-> k, gone |-> o.gone] \in intents'
      BY <1>3, <2>2
    <3> QED
      BY <3>2 DEF IntentAt
  <2> QED
    BY <2>1, <2>2
<1>12. StoresAgree'
  <2>1. Lists(o.gone, o.target)
    BY <1>5, <1>6, <1>7 DEF Lists, ChunksOf, StoresAgree, ChunksAreApart
  <2>2. IntentsList'
    BY <1>3, <1>5, <1>8, <1>9, <2>1 DEF StoresAgree, IntentsList, Lists
  <2>3. \A g \in o.gone : g < nextChunk
    BY <1>5, <1>6 DEF ChunksOf, StoresAgree, IdsAreIssued
  <2>4. IdsAreIssued'
    BY <1>3, <1>5, <1>7, <1>9, <2>3 DEF StoresAgree, IdsAreIssued
  <2>5. (KeysAreUnique /\ ChunksAreApart /\ PointsHaveChunks)'
    BY <1>3, <1>5, <1>8 DEF StoresAgree, KeysAreUnique, ChunksAreApart, PointsHaveChunks
  <2>6. (StonesAreErased /\ RemovalsAreTold)'
    BY <1>3, <1>5, <1>8, <1>10 DEF StoresAgree, StonesAreErased, Erased, RemovalsAreTold
  <2>7. (IncompleteIsCovered /\ DeletedStaysEmpty)'
    BY <1>3, <1>5, <1>7, <1>8, <1>10 DEF StoresAgree, IncompleteIsCovered, Complete,
                                         DeletedStaysEmpty
  <2> QED
    BY <2>2, <2>4, <2>5, <2>6, <2>7 DEF StoresAgree
<1>13. /\ next.pc = "check" /\ next.target = o.target /\ next.made = o.made
       /\ next.undo = o.undo /\ next.call = o.call
  BY <1>2, <1>5 DEF OpType
<1>14. Forgetting(next)'
  BY <1>5, <1>6, <1>8, <1>11, <1>13 DEF Forgetting, Stored
<1>15. Knows(next)'
  BY <1>13, <1>14, KnowsBy DEF ForgetPcs
<1> QED
  BY <1>3, <1>4, <1>5, <1>12, <1>15, AnswerMoves

LEMMA CheckIntentStep ==
  ASSUME SourceInv, NEW a \in Actors, CheckIntent(a)
  PROVE  StoresAgree' /\ Alone' /\ TasksKnow'
<1>1. PICK o : o = op[a]
  OBVIOUS
<1>2. PICK p \in IntentAt(o.target) :
        \/ ~Mismatch(p) /\ Goto(a, [o EXCEPT !.pc = "rows", !.gone = p.gone, !.keys = {p.key}])
        \/ Mismatch(p) /\ Raise(a) /\ UNCHANGED faults
  BY <1>1 DEF CheckIntent
<1>3. o.pc = "check" /\ StoresUnchanged
  BY <1>1 DEF CheckIntent
<1>4. /\ \A b \in Actors \ {a} : Quiet(b)
      /\ TasksTyped /\ Alone /\ StoresAgree /\ o \in OpType /\ Forgetting(o)
      /\ op[a].pc \notin WritePcs
  BY <1>1, <1>3, ForgetInHand DEF ForgetPcs
<1>5. StoresAgree'
  BY <1>3, <1>4, AgreeStays
<1>6. CASE Raise(a)
  BY <1>4, <1>5, <1>6, RaiseMoves
<1>7. CASE ~Mismatch(p) /\ Goto(a, [o EXCEPT !.pc = "rows", !.gone = p.gone, !.keys = {p.key}])
  <2>1. PICK next : next = [o EXCEPT !.pc = "rows", !.gone = p.gone, !.keys = {p.key}]
    OBVIOUS
  <2>2. /\ next.pc = "rows" /\ next.target = o.target /\ next.made = o.made
        /\ next.undo = o.undo /\ next.call = o.call /\ next.keys = {p.key}
        /\ next.gone = p.gone
    BY <1>4, <2>1 DEF OpType
  <2>3. p.id = o.target /\ p \in intents
    BY DEF IntentAt
  <2>4. Lists(p.gone, o.target)
    BY <1>4, <2>3 DEF StoresAgree, IntentsList
  <2>5. o.call = "replace" => Claimed(next, {o.target})
    <3> SUFFICES ASSUME o.call = "replace", NEW r \in rows, r.key = p.key
                 PROVE  r.id = o.target
      BY <2>2 DEF Claimed
    <3>1. PICK h \in RowAt(o.target) : TRUE
      BY <1>3, <1>4 DEF Forgetting, Stored
    <3>2. h \in rows /\ h.id = o.target /\ h.key = p.key
      BY <1>7, <2>3 DEF RowAt, Mismatch
    <3> QED
      BY <1>4, <3>2 DEF StoresAgree, KeysAreUnique
  <2>6. UNCHANGED <<rows, chunks, vectors, intents>>
    BY <1>3 DEF StoresUnchanged, documentVars, sideVars
  <2>7. (\A i : IntentAt(i)' = IntentAt(i)) /\ Lists(p.gone, o.target)'
    BY <2>4, <2>6, SameSources DEF Lists
  <2>8. next.call = "replace" => Claimed(next, {next.target})'
    BY <2>2, <2>5, <2>6 DEF Claimed
  <2>9. Forgetting(next)'
    BY <1>3, <1>4, <2>2, <2>7, <2>8 DEF Forgetting
  <2>10. Knows(next)'
    BY <2>2, <2>9, KnowsBy DEF ForgetPcs
  <2> QED
    BY <1>4, <1>5, <1>7, <2>1, <2>10, TaskMoves DEF Goto
<1> QED
  BY <1>2, <1>6, <1>7

LEMMA DeleteRowsStep ==
  ASSUME SourceInv, NEW a \in Actors, DeleteRows(a)
  PROVE  StoresAgree' /\ Alone' /\ TasksKnow'
<1>1. PICK o : o = op[a]
  OBVIOUS
<1>2. PICK next : next = [o EXCEPT !.pc = "points"]
  OBVIOUS
<1>3. o.pc = "rows" /\ Withdraws(o.target) /\ Answer(a, next)
  BY <1>1, <1>2 DEF DeleteRows, Withdraws
<1>4. /\ \A b \in Actors \ {a} : Quiet(b)
      /\ o.target \in Nat
      /\ TasksTyped /\ Alone /\ StoresAgree /\ StoresTyped /\ o \in OpType /\ Forgetting(o)
      /\ op[a].pc \notin WritePcs
  BY <1>1, <1>3, ForgetInHand DEF ForgetPcs
<1>5. /\ StoresAgree' /\ RowAt(o.target)' = {} /\ ChunksOf(o.target)' = {}
      /\ \A j : VectorsOf(j)' = VectorsOf(j) /\ IntentAt(j)' = IntentAt(j)
  BY <1>3, <1>4, SourceGoes
<1>6. rows' \subseteq rows /\ chunks' \subseteq chunks
  BY <1>3 DEF Withdraws
<1>7. /\ next.pc = "points" /\ next.target = o.target /\ next.made = o.made
      /\ next.undo = o.undo /\ next.call = o.call /\ next.keys = o.keys
      /\ next.gone = o.gone
  BY <1>2, <1>4 DEF OpType
<1>8. Lists(next.gone, next.target)'
  BY <1>3, <1>4, <1>5, <1>6, <1>7 DEF Forgetting, Lists
<1>9. next.call = "replace" => Claimed(next, {next.target})'
  BY <1>3, <1>4, <1>6, <1>7 DEF Forgetting, Claimed
<1>10. Forgetting(next)'
  BY <1>3, <1>4, <1>5, <1>7, <1>8, <1>9 DEF Forgetting
<1>11. Knows(next)'
  BY <1>7, <1>10, KnowsBy DEF ForgetPcs
<1> QED
  BY <1>3, <1>4, <1>5, <1>11, AnswerMoves

LEMMA DeleteVectorsStep ==
  ASSUME SourceInv, NEW a \in Actors, DeleteVectors(a)
  PROVE  StoresAgree' /\ Alone' /\ TasksKnow'
<1>1. PICK o : o = op[a]
  OBVIOUS
<1>2. PICK next : next = [o EXCEPT !.pc = "unlink"]
  OBVIOUS
<1>3. o.pc = "points" /\ DropsPoints(o.gone) /\ Answer(a, next)
  BY <1>1, <1>2 DEF DeleteVectors, DropsPoints
<1>4. /\ \A b \in Actors \ {a} : Quiet(b)
      /\ TasksTyped /\ Alone /\ StoresAgree /\ o \in OpType /\ Forgetting(o)
      /\ op[a].pc \notin WritePcs
  BY <1>1, <1>3, ForgetInHand DEF ForgetPcs
<1>5. RowAt(o.target) = {} /\ ChunksOf(o.target) = {} /\ Lists(o.gone, o.target)
  BY <1>3, <1>4 DEF Forgetting
<1>6. \A x \in chunks : x.chunk \notin o.gone
  BY <1>5 DEF Lists, ChunksOf
<1>7. StoresAgree' /\ VectorsOf(o.target)' = {}
  BY <1>3, <1>4, <1>5, <1>6, PointsGo DEF Lists
<1>8. /\ \A j : RowAt(j)' = RowAt(j) /\ ChunksOf(j)' = ChunksOf(j)
      /\ \A j : IntentAt(j)' = IntentAt(j)
      /\ rows' = rows
  BY <1>3 DEF DropsPoints, documentVars, RowAt, ChunksOf, IntentAt
<1>9. /\ next.pc = "unlink" /\ next.target = o.target /\ next.made = o.made
      /\ next.undo = o.undo /\ next.call = o.call /\ next.keys = o.keys
  BY <1>2, <1>4 DEF OpType
<1>10. Forgetting(next)'
  BY <1>3, <1>4, <1>5, <1>7, <1>8, <1>9 DEF Forgetting, Claimed
<1>11. Knows(next)'
  BY <1>9, <1>10, KnowsBy DEF ForgetPcs
<1> QED
  BY <1>3, <1>4, <1>7, <1>11, AnswerMoves

\* What the later steps of a removal know survives a change of the notes, but
\* for what the note is about.
LEMMA ForgettingStays ==
  ASSUME NEW o, NEW next, Forgetting(o), UNCHANGED <<rows, chunks, vectors, intents>>,
         stones \subseteq stones',
         <<o.pc, next.pc>> \in {<<"unlink", "stone">>, <<"stone", "unmark">>,
                                <<"unmark", "announce">>, <<"announce", "event">>,
                                <<"event", "ack">>},
         next.target = o.target, next.made = o.made, next.undo = o.undo,
         next.call = o.call, next.keys = o.keys,
         o.pc = "unlink" => o.target \notin links',
         o.pc # "unlink" => links' = links,
         o.pc = "stone" => Stoned(o.target)',
         o.pc \in {"announce", "event"} => o.target \notin unbumped',
         o.pc = "event" => o.target \in trail'
  PROVE  Knows(next)'
<1>1. /\ \A i : RowAt(i)' = RowAt(i) /\ ChunksOf(i)' = ChunksOf(i)
      /\ \A i : VectorsOf(i)' = VectorsOf(i) /\ IntentAt(i)' = IntentAt(i)
  BY SameSources
<1>2. \A i : Stoned(i) => Stoned(i)'
  BY DEF Stoned
<1>3. Claimed(o, {o.target}) => Claimed(next, {next.target})'
  BY DEF Claimed
<1>4. next.pc \in {"stone", "unmark", "announce", "event", "ack"}
  OBVIOUS
<1>5. /\ next.made = {} /\ next.undo = {}
      /\ IntentAt(next.target)' # {} /\ RowAt(next.target)' = {}
      /\ ChunksOf(next.target)' = {} /\ VectorsOf(next.target)' = {}
      /\ next.call = "replace" => Claimed(next, {next.target})'
      /\ next.pc = "stone" => next.keys # {}
  BY <1>1, <1>3 DEF Forgetting
<1>6. next.target \notin links'
  BY DEF Forgetting
<1>7. next.pc # "stone" => Stoned(next.target)'
  BY <1>2 DEF Forgetting
<1>8. /\ next.pc \in {"event", "ack"} => next.target \notin unbumped'
      /\ next.pc = "ack" => next.target \in trail'
  OBVIOUS
<1>9. Forgetting(next)'
  BY <1>4, <1>5, <1>6, <1>7, <1>8 DEF Forgetting
<1> QED
  BY <1>4, <1>9, KnowsBy DEF ForgetPcs

LEMMA UnlinkStep ==
  ASSUME SourceInv, NEW a \in Actors, Unlink(a)
  PROVE  StoresAgree' /\ Alone' /\ TasksKnow'
<1>1. PICK o : o = op[a]
  OBVIOUS
<1>2. PICK next : next = [o EXCEPT !.pc = "stone"]
  OBVIOUS
<1>3. /\ o.pc = "unlink" /\ links' = links \ {o.target} /\ Answer(a, next)
      /\ UNCHANGED <<rows, chunks, inflight, stones, intents, unbumped, deleted,
                     nextId, nextChunk, vectors, trail, orphans>>
  BY <1>1, <1>2 DEF Unlink, documentVars
<1>4. /\ \A b \in Actors \ {a} : Quiet(b)
      /\ TasksTyped /\ Alone /\ StoresAgree /\ o \in OpType /\ Forgetting(o)
      /\ op[a].pc \notin WritePcs
  BY <1>1, <1>3, ForgetInHand DEF ForgetPcs
<1>5. StoresAgree'
  <2>1. NotesFit
    BY <1>3, <1>4 DEF NotesFit, StoresAgree, StonesAreErased, RemovalsAreTold,
                      DeletedStaysEmpty
  <2> QED
    BY <1>3, <1>4, <2>1, NotesAgree DEF Notes
<1>6. /\ next.pc = "stone" /\ next.target = o.target /\ next.made = o.made
      /\ next.undo = o.undo /\ next.call = o.call /\ next.keys = o.keys
  BY <1>2, <1>4 DEF OpType
<1>7. Knows(next)'
  BY <1>3, <1>4, <1>6, ForgettingStays
<1> QED
  BY <1>3, <1>4, <1>5, <1>7, AnswerMoves

LEMMA RecordStoneStep ==
  ASSUME SourceInv, NEW a \in Actors, RecordStone(a)
  PROVE  StoresAgree' /\ Alone' /\ TasksKnow'
<1>1. PICK o : o = op[a]
  OBVIOUS
<1>2. PICK next : next = [o EXCEPT !.pc = "unmark"]
  OBVIOUS
<1>3. /\ o.pc = "stone" /\ Answer(a, next)
      /\ stones' = IF \E s \in stones : s.id = o.target THEN stones
                   ELSE stones \cup {[id |-> o.target, key |-> k] : k \in o.keys}
      /\ UNCHANGED <<rows, chunks, inflight, intents, unbumped, deleted, nextId,
                     nextChunk, vectors, links, trail, orphans>>
  BY <1>1, <1>2 DEF RecordStone, sideVars
<1>4. /\ \A b \in Actors \ {a} : Quiet(b)
      /\ TasksTyped /\ Alone /\ StoresAgree /\ o \in OpType /\ Forgetting(o)
      /\ op[a].pc \notin WritePcs
      /\ IntentAt(o.target) # {} => ~deleted /\ o.target < nextId
  BY <1>1, <1>3, ForgetInHand DEF ForgetPcs
<1>5. /\ IntentAt(o.target) # {} /\ ~deleted /\ o.target < nextId /\ o.keys # {}
      /\ Erased(o.target) /\ o.target \notin links
  BY <1>3, <1>4 DEF Forgetting, Erased
<1>6. stones \subseteq stones' /\ \A s \in stones' : s \in stones \/ s.id = o.target
  BY <1>3
<1>7. Stoned(o.target)'
  <2>1. CASE Stoned(o.target)
    BY <1>6, <2>1 DEF Stoned
  <2>2. CASE ~Stoned(o.target)
    <3>1. PICK k \in o.keys : TRUE
      BY <1>5
    <3>2. [id |-> o.target, key |-> k] \in stones'
      BY <1>3, <2>2 DEF Stoned
    <3> QED
      BY <3>2 DEF Stoned
  <2> QED
    BY <2>1, <2>2
<1>8. StoresAgree'
  <2>1. (\A i : Erased(i)' <=> Erased(i)) /\ \A i : IntentAt(i)' = IntentAt(i)
    BY <1>3, SameSources
  <2>2. (StonesAreErased /\ RemovalsAreTold)'
    BY <1>3, <1>4, <1>5, <1>6, <2>1 DEF StoresAgree, StonesAreErased, RemovalsAreTold
  <2>3. IdsAreIssued'
    BY <1>3, <1>4, <1>5, <1>6 DEF StoresAgree, IdsAreIssued
  <2>4. (KeysAreUnique /\ ChunksAreApart /\ PointsHaveChunks /\ IntentsList)'
    BY <1>3, <1>4, SameSources DEF StoresAgree, KeysAreUnique, ChunksAreApart,
                                   PointsHaveChunks, IntentsList, Lists
  <2>5. (IncompleteIsCovered /\ DeletedStaysEmpty)'
    BY <1>3, <1>4, <1>5, SameSources DEF StoresAgree, IncompleteIsCovered, DeletedStaysEmpty
  <2> QED
    BY <2>2, <2>3, <2>4, <2>5 DEF StoresAgree
<1>9. /\ next.pc = "unmark" /\ next.target = o.target /\ next.made = o.made
      /\ next.undo = o.undo /\ next.call = o.call /\ next.keys = o.keys
  BY <1>2, <1>4 DEF OpType
<1>10. Knows(next)'
  BY <1>3, <1>4, <1>6, <1>7, <1>9, ForgettingStays
<1> QED
  BY <1>3, <1>4, <1>8, <1>10, AnswerMoves

LEMMA UnmarkStep ==
  ASSUME SourceInv, NEW a \in Actors, Unmark(a)
  PROVE  StoresAgree' /\ Alone' /\ TasksKnow'
<1>1. PICK o : o = op[a]
  OBVIOUS
<1>2. PICK next : next = [o EXCEPT !.pc = "announce"]
  OBVIOUS
<1>3. /\ o.pc = "unmark" /\ Answer(a, next)
      /\ inflight' = inflight \ {k \in o.keys : RowsOf(k) = {}}
      /\ UNCHANGED <<rows, chunks, vectors, stones, intents, deleted, nextId,
                     nextChunk, orphans, unbumped, links, trail>>
  BY <1>1, <1>2 DEF Unmark, documentVars, sideVars
<1>4. /\ \A b \in Actors \ {a} : Quiet(b)
      /\ TasksTyped /\ Alone /\ StoresAgree /\ o \in OpType /\ Forgetting(o)
      /\ op[a].pc \notin WritePcs
  BY <1>1, <1>3, ForgetInHand DEF ForgetPcs
<1>5. NotesFit
  <2>1. \A r \in rows : r.key \notin inflight \ inflight'
    BY <1>3 DEF RowsOf
  <2> QED
    BY <1>3, <1>4, <2>1 DEF NotesFit, StoresAgree, StonesAreErased, RemovalsAreTold,
                DeletedStaysEmpty
<1>6. StoresAgree'
  BY <1>3, <1>4, <1>5, NotesAgree DEF Notes
<1>7. /\ next.pc = "announce" /\ next.target = o.target /\ next.made = o.made
      /\ next.undo = o.undo /\ next.call = o.call /\ next.keys = o.keys
  BY <1>2, <1>4 DEF OpType
<1>8. /\ links' = links /\ stones \subseteq stones'
      /\ <<o.pc, next.pc>> \in {<<"unlink", "stone">>, <<"stone", "unmark">>,
                                <<"unmark", "announce">>, <<"announce", "event">>,
                                <<"event", "ack">>}
      /\ o.pc \in {"announce", "event"} => o.target \notin unbumped'
      /\ o.pc = "event" => o.target \in trail'
  BY <1>3, <1>4, <1>7 DEF Forgetting
<1>9. Knows(next)'
  BY <1>3, <1>4, <1>7, <1>8, ForgettingStays
<1> QED
  BY <1>3, <1>4, <1>6, <1>9, AnswerMoves

LEMMA BumpAfterForgetStep ==
  ASSUME SourceInv, NEW a \in Actors, BumpAfterForget(a)
  PROVE  StoresAgree' /\ Alone' /\ TasksKnow'
<1>1. PICK o : o = op[a]
  OBVIOUS
<1>2. PICK next : next = [o EXCEPT !.pc = "event"]
  OBVIOUS
<1>3. /\ o.pc = "announce" /\ Answer(a, next)
      /\ unbumped' = {}
      /\ UNCHANGED <<rows, chunks, vectors, stones, intents, deleted, nextId,
                     nextChunk, orphans, inflight, links, trail>>
  BY <1>1, <1>2 DEF BumpAfterForget, documentVars, sideVars
<1>4. /\ \A b \in Actors \ {a} : Quiet(b)
      /\ TasksTyped /\ Alone /\ StoresAgree /\ o \in OpType /\ Forgetting(o)
      /\ op[a].pc \notin WritePcs
  BY <1>1, <1>3, ForgetInHand DEF ForgetPcs
<1>5. NotesFit
  BY <1>3, <1>4 DEF NotesFit, StoresAgree, StonesAreErased, RemovalsAreTold,
                DeletedStaysEmpty
<1>6. StoresAgree'
  BY <1>3, <1>4, <1>5, NotesAgree DEF Notes
<1>7. /\ next.pc = "event" /\ next.target = o.target /\ next.made = o.made
      /\ next.undo = o.undo /\ next.call = o.call /\ next.keys = o.keys
  BY <1>2, <1>4 DEF OpType
<1>8. /\ links' = links /\ stones \subseteq stones'
      /\ <<o.pc, next.pc>> \in {<<"unlink", "stone">>, <<"stone", "unmark">>,
                                <<"unmark", "announce">>, <<"announce", "event">>,
                                <<"event", "ack">>}
      /\ o.pc \in {"announce", "event"} => o.target \notin unbumped'
      /\ o.pc = "event" => o.target \in trail'
  BY <1>3, <1>4, <1>7 DEF Forgetting
<1>9. Knows(next)'
  BY <1>3, <1>4, <1>7, <1>8, ForgettingStays
<1> QED
  BY <1>3, <1>4, <1>6, <1>9, AnswerMoves

LEMMA AppendEventStep ==
  ASSUME SourceInv, NEW a \in Actors, AppendEvent(a)
  PROVE  StoresAgree' /\ Alone' /\ TasksKnow'
<1>1. PICK o : o = op[a]
  OBVIOUS
<1>2. PICK next : next = [o EXCEPT !.pc = "ack"]
  OBVIOUS
<1>3. /\ o.pc = "event" /\ Answer(a, next)
      /\ trail' = trail \cup {o.target}
      /\ UNCHANGED <<rows, chunks, vectors, stones, intents, deleted, nextId,
                     nextChunk, orphans, inflight, unbumped, links>>
  BY <1>1, <1>2 DEF AppendEvent, documentVars, sideVars
<1>4. /\ \A b \in Actors \ {a} : Quiet(b)
      /\ TasksTyped /\ Alone /\ StoresAgree /\ o \in OpType /\ Forgetting(o)
      /\ op[a].pc \notin WritePcs
  BY <1>1, <1>3, ForgetInHand DEF ForgetPcs
<1>5. NotesFit
  BY <1>3, <1>4 DEF NotesFit, StoresAgree, StonesAreErased, RemovalsAreTold,
                DeletedStaysEmpty
<1>6. StoresAgree'
  BY <1>3, <1>4, <1>5, NotesAgree DEF Notes
<1>7. /\ next.pc = "ack" /\ next.target = o.target /\ next.made = o.made
      /\ next.undo = o.undo /\ next.call = o.call /\ next.keys = o.keys
  BY <1>2, <1>4 DEF OpType
<1>8. /\ links' = links /\ stones \subseteq stones'
      /\ <<o.pc, next.pc>> \in {<<"unlink", "stone">>, <<"stone", "unmark">>,
                                <<"unmark", "announce">>, <<"announce", "event">>,
                                <<"event", "ack">>}
      /\ o.pc \in {"announce", "event"} => o.target \notin unbumped'
      /\ o.pc = "event" => o.target \in trail'
  BY <1>3, <1>4, <1>7 DEF Forgetting
<1>9. Knows(next)'
  BY <1>3, <1>4, <1>7, <1>8, ForgettingStays
<1> QED
  BY <1>3, <1>4, <1>6, <1>9, AnswerMoves

LEMMA AcknowledgeStep ==
  ASSUME SourceInv, NEW a \in Actors, Acknowledge(a)
  PROVE  StoresAgree' /\ Alone' /\ TasksKnow'
<1>1. PICK o : o = op[a]
  OBVIOUS
<1>2. PICK next : next = Forgotten(o)
  OBVIOUS
<1>3. /\ o.pc = "ack" /\ Answer(a, next) /\ intents' = intents \ IntentAt(o.target)
      /\ UNCHANGED <<rows, chunks, inflight, stones, unbumped, deleted, nextId,
                     nextChunk, vectors, links, trail, orphans>>
  BY <1>1, <1>2 DEF Acknowledge, sideVars
<1>4. /\ \A b \in Actors \ {a} : Quiet(b)
      /\ TasksTyped /\ Alone /\ StoresAgree /\ o \in OpType /\ Forgetting(o)
      /\ op[a].pc \notin WritePcs
      /\ IntentAt(o.target) # {} => ~deleted
  BY <1>1, <1>3, ForgetInHand DEF ForgetPcs
<1>5. /\ o.made = {} /\ o.undo = {} /\ RowAt(o.target) = {} /\ IntentAt(o.target) # {}
      /\ o.target \notin unbumped /\ o.target \in trail /\ ~deleted
      /\ o.call = "replace" => Claimed(o, {o.target})
  BY <1>3, <1>4 DEF Forgetting
<1>6. /\ \A i : RowAt(i)' = RowAt(i) /\ ChunksOf(i)' = ChunksOf(i)
      /\ \A i : VectorsOf(i)' = VectorsOf(i)
  BY <1>3 DEF RowAt, ChunksOf, VectorsOf
<1>7. \A i : i # o.target => IntentAt(i)' = IntentAt(i)
  BY <1>3 DEF IntentAt
<1>8. StoresAgree'
  <2>1. (IdsAreIssued /\ KeysAreUnique /\ ChunksAreApart)'
    BY <1>3, <1>4 DEF StoresAgree, IdsAreIssued, KeysAreUnique, ChunksAreApart
  <2>2. (PointsHaveChunks /\ IntentsList)'
    BY <1>3, <1>4, <1>6 DEF StoresAgree, PointsHaveChunks, IntentsList, Lists
  <2>3. (StonesAreErased /\ RemovalsAreTold)'
    BY <1>3, <1>4, <1>5, <1>6, <1>7 DEF StoresAgree, StonesAreErased, Erased,
                                        RemovalsAreTold
  <2>4. \A r \in rows : r.id # o.target
    BY <1>5 DEF RowAt
  <2>5. (IncompleteIsCovered /\ DeletedStaysEmpty)'
    BY <1>3, <1>4, <1>5, <1>6, <1>7, <2>4 DEF StoresAgree, IncompleteIsCovered,
         Complete, DeletedStaysEmpty
  <2> QED
    BY <2>1, <2>2, <2>3, <2>5 DEF StoresAgree
<1>9. Knows(next)'
  <2>1. CASE o.call = "replace"
    <3>1. /\ next.pc = "mark" /\ next.made = {} /\ next.keys = o.keys
      BY <1>2, <1>4, <1>5, <2>1 DEF Forgotten, OpType
    <3>2. Claimed(o, {})
      BY <1>5, <2>1 DEF Claimed, RowAt
    <3>3. Writing(next)'
      BY <1>3, <1>5, <3>1, <3>2 DEF Writing, Claimed
    <3> QED
      BY <3>1, <3>3, KnowsBy DEF WritePcs
  <2>2. CASE o.call = "recover"
    <3>1. next.pc = "retire" /\ next.made = {} /\ next.undo = {}
      BY <1>2, <2>2 DEF Forgotten, Idle
    <3>2. Repairing(next)'
      BY <3>1 DEF Repairing
    <3> QED
      BY <3>1, <3>2, KnowsBy DEF RepairPcs
  <2>3. CASE o.call \notin {"replace", "recover"}
    <3>1. next.pc = "idle"
      BY <1>2, <2>3 DEF Forgotten, Idle
    <3> QED
      BY <3>1, QuietKnows
  <2> QED
    BY <2>1, <2>2, <2>3
<1> QED
  BY <1>3, <1>4, <1>8, <1>9, AnswerMoves

\* delete_space.
LEMMA ReleaseBlobsStep ==
  ASSUME SourceInv, NEW c \in Clients, ReleaseBlobs(c)
  PROVE  StoresAgree' /\ Alone' /\ TasksKnow'
<1>1. PICK o : o = op[c]
  OBVIOUS
<1>2. PICK next : next = [o EXCEPT !.pc = "erase"]
  OBVIOUS
<1>3. /\ o.pc = "release" /\ Answer(c, next) /\ links' = {}
      /\ UNCHANGED <<rows, chunks, inflight, stones, intents, unbumped, deleted,
                     nextId, nextChunk, vectors, trail, orphans>>
  BY <1>1, <1>2 DEF ReleaseBlobs, documentVars
<1>4. /\ c \in Actors /\ \A b \in Actors \ {c} : Quiet(b)
      /\ TasksTyped /\ Alone /\ StoresAgree /\ o \in OpType /\ Knows(o)
      /\ op[c].pc \notin WritePcs
  BY <1>1, <1>3, ClientInHand DEF CommitPcs, ErasePcs, WritePcs
<1>5. ~deleted
  BY <1>3, <1>4 DEF Knows, ErasePcs, Erasing
<1>6. NotesFit
  BY <1>3, <1>4, <1>5 DEF NotesFit, StoresAgree, RemovalsAreTold
<1>7. StoresAgree'
  BY <1>3, <1>4, <1>6, NotesAgree DEF Notes
<1>8. next.pc = "erase"
  BY <1>2, <1>4 DEF OpType
<1>9. Erasing(next)'
  BY <1>3, <1>5, <1>8 DEF Erasing
<1>10. Knows(next)'
  BY <1>8, <1>9, KnowsBy DEF ErasePcs
<1> QED
  BY <1>3, <1>4, <1>7, <1>10, AnswerMoves

LEMMA EraseDocumentsStep ==
  ASSUME SourceInv, NEW c \in Clients, EraseDocuments(c)
  PROVE  StoresAgree' /\ Alone' /\ TasksKnow'
<1>1. PICK o : o = op[c]
  OBVIOUS
<1>2. PICK next : next = [o EXCEPT !.pc = "sweep"]
  OBVIOUS
<1>3. /\ o.pc = "erase" /\ Answer(c, next)
      /\ rows' = {} /\ chunks' = {} /\ inflight' = {} /\ stones' = {}
      /\ intents' = {} /\ deleted' = TRUE
      /\ UNCHANGED <<nextId, nextChunk, vectors, links, trail, orphans>>
  BY <1>1, <1>2 DEF EraseDocuments, sideVars
<1>4. /\ c \in Actors /\ \A b \in Actors \ {c} : Quiet(b)
      /\ TasksTyped /\ Alone /\ StoresAgree /\ o \in OpType /\ Knows(o)
      /\ op[c].pc \notin WritePcs
  BY <1>1, <1>3, ClientInHand DEF CommitPcs, ErasePcs, WritePcs
<1>5. links = {}
  BY <1>3, <1>4 DEF Knows, ErasePcs, Erasing
<1>6. IdsAreIssued'
  BY <1>3, <1>4 DEF StoresAgree, IdsAreIssued
<1>7. (KeysAreUnique /\ ChunksAreApart /\ PointsHaveChunks /\ IntentsList)'
  BY <1>3 DEF KeysAreUnique, ChunksAreApart, PointsHaveChunks, IntentsList
<1>8. (StonesAreErased /\ RemovalsAreTold /\ IncompleteIsCovered /\ DeletedStaysEmpty)'
  BY <1>3, <1>5 DEF StonesAreErased, RemovalsAreTold, IncompleteIsCovered, DeletedStaysEmpty
<1>9. StoresAgree'
  BY <1>6, <1>7, <1>8 DEF StoresAgree
<1>10. next.pc = "sweep"
  BY <1>2, <1>4 DEF OpType
<1>11. Erasing(next)'
  BY <1>3, <1>10 DEF Erasing
<1>12. Knows(next)'
  BY <1>10, <1>11, KnowsBy DEF ErasePcs
<1> QED
  BY <1>3, <1>4, <1>9, <1>12, AnswerMoves

LEMMA SweepVectorsStep ==
  ASSUME SourceInv, NEW c \in Clients, SweepVectors(c)
  PROVE  StoresAgree' /\ Alone' /\ TasksKnow'
<1>1. PICK o : o = op[c]
  OBVIOUS
<1>2. PICK next : next = [o EXCEPT !.pc = "purge"]
  OBVIOUS
<1>3. /\ o.pc = "sweep" /\ Answer(c, next) /\ vectors' = {}
      /\ UNCHANGED <<rows, chunks, inflight, stones, intents, unbumped, deleted,
                     nextId, nextChunk, links, trail, orphans>>
  BY <1>1, <1>2 DEF SweepVectors, documentVars
<1>4. /\ c \in Actors /\ \A b \in Actors \ {c} : Quiet(b)
      /\ TasksTyped /\ Alone /\ StoresAgree /\ o \in OpType /\ Knows(o)
      /\ op[c].pc \notin WritePcs
  BY <1>1, <1>3, ClientInHand DEF CommitPcs, ErasePcs, WritePcs
<1>5. deleted /\ rows = {} /\ chunks = {} /\ stones = {} /\ intents = {}
  BY <1>3, <1>4 DEF Knows, ErasePcs, Erasing, StoresAgree, DeletedStaysEmpty
<1>6. (IdsAreIssued /\ DeletedStaysEmpty)'
  BY <1>3, <1>4 DEF StoresAgree, IdsAreIssued, DeletedStaysEmpty
<1>7. (KeysAreUnique /\ ChunksAreApart /\ PointsHaveChunks /\ IntentsList)'
  BY <1>3, <1>5 DEF KeysAreUnique, ChunksAreApart, PointsHaveChunks, IntentsList
<1>8. (StonesAreErased /\ RemovalsAreTold /\ IncompleteIsCovered)'
  BY <1>3, <1>5 DEF StonesAreErased, RemovalsAreTold, IncompleteIsCovered
<1>9. StoresAgree'
  BY <1>6, <1>7, <1>8 DEF StoresAgree
<1>10. next.pc = "purge"
  BY <1>2, <1>4 DEF OpType
<1>11. Erasing(next)'
  BY <1>3, <1>5, <1>10 DEF Erasing
<1>12. Knows(next)'
  BY <1>10, <1>11, KnowsBy DEF ErasePcs
<1> QED
  BY <1>3, <1>4, <1>9, <1>12, AnswerMoves

LEMMA PurgeEventsStep ==
  ASSUME SourceInv, NEW c \in Clients, PurgeEvents(c)
  PROVE  StoresAgree' /\ Alone' /\ TasksKnow'
<1>1. PICK o : o = op[c]
  OBVIOUS
<1>2. PICK next : next = Idle
  OBVIOUS
<1>3. /\ o.pc = "purge" /\ Answer(c, next) /\ trail' = {}
      /\ UNCHANGED <<rows, chunks, inflight, stones, intents, unbumped, deleted,
                     nextId, nextChunk, vectors, links, orphans>>
  BY <1>1, <1>2 DEF PurgeEvents, documentVars
<1>4. /\ c \in Actors /\ \A b \in Actors \ {c} : Quiet(b)
      /\ TasksTyped /\ Alone /\ StoresAgree /\ o \in OpType /\ Knows(o)
      /\ op[c].pc \notin WritePcs
  BY <1>1, <1>3, ClientInHand DEF CommitPcs, ErasePcs, WritePcs
<1>5. deleted /\ stones = {}
  BY <1>3, <1>4 DEF Knows, ErasePcs, Erasing, StoresAgree, DeletedStaysEmpty
<1>6. NotesFit
  BY <1>3, <1>4, <1>5 DEF NotesFit, StoresAgree, DeletedStaysEmpty
<1>7. StoresAgree'
  BY <1>3, <1>4, <1>6, NotesAgree DEF Notes
<1>8. next.pc = "idle"
  BY <1>2 DEF Idle
<1>9. Knows(next)'
  BY <1>8, QuietKnows
<1> QED
  BY <1>3, <1>4, <1>7, <1>9, AnswerMoves

-----------------------------------------------------------------------------
(* A call begins: by the discipline, no other is under way.                 *)

LEMMA Starts ==
  ASSUME SourceInv, WholeCalls, NEW a \in Actors, MayBegin(a), StoresUnchanged,
         NEW next, Knows(next)', op' = [op EXCEPT ![a] = next]
  PROVE  StoresAgree' /\ Alone' /\ TasksKnow'
<1>1. TasksTyped /\ Alone /\ StoresAgree
  BY DEF SourceInv
<1>2. \A b \in Actors \ {a} : Quiet(b)
  BY DEF MayBegin, WholeCalls
<1>3. StoresAgree'
  BY <1>1, AgreeStays
<1>4. Alone' /\ TasksKnow'
  BY <1>1, <1>2, TaskMoves
<1> QED
  BY <1>3, <1>4

\* A duplicate that brought attachments goes straight to linking them.
LEMMA LinksNext ==
  ASSUME NEW key, NEW id \in EpisodeByHash(key), UNCHANGED rows,
         NEW call, NEW next,
         next = [Idle EXCEPT !.pc = "link", !.call = call, !.target = id]
  PROVE  Knows(next)'
<1>1. next.pc = "link" /\ next.made = {} /\ next.target = id
  BY DEF Idle
<1>2. Stored(id)'
  BY DEF EpisodeByHash, RowsOf, Stored, RowAt
<1>3. Written(next)'
  BY <1>1, <1>2 DEF Written
<1> QED
  BY <1>1, <1>3, KnowsBy

LEMMA RememberStep ==
  ASSUME SourceInv, WholeCalls, NEW c \in Clients, NEW b \in Batches,
         NEW attach \in BOOLEAN, Remember(c, b, attach)
  PROVE  StoresAgree' /\ Alone' /\ TasksKnow'
<1>1. PICK fresh : fresh = {r \in b : RowsOf(r.key) = {}}
  OBVIOUS
<1>2. /\ MayBegin(c) /\ ~deleted /\ StoresUnchanged
      /\ \/ Goto(c, [Idle EXCEPT !.pc = "prepare", !.call = "remember",
                                 !.todo = fresh, !.attach = attach,
                                 !.keys = {r.key : r \in fresh}])
         \/ \E r \in b : \E id \in EpisodeByHash(r.key) :
              Goto(c, [Idle EXCEPT !.pc = "link", !.call = "remember", !.target = id])
  BY <1>1 DEF Remember, Begins, Ready
<1>3. c \in Actors
  BY DEF Actors
<1>4. rows' = rows /\ deleted' = deleted
  BY <1>2 DEF StoresUnchanged, documentVars
<1>5. CASE Goto(c, [Idle EXCEPT !.pc = "prepare", !.call = "remember",
                                !.todo = fresh, !.attach = attach,
                                !.keys = {r.key : r \in fresh}])
  <2>1. PICK keys : keys = {r.key : r \in fresh}
    OBVIOUS
  <2>2. PICK next : next = [Idle EXCEPT !.pc = "prepare", !.call = "remember",
                              !.todo = fresh, !.attach = attach, !.keys = keys]
    OBVIOUS
  <2>3. /\ next.pc = "prepare" /\ next.call = "remember" /\ next.keys = keys
        /\ next.made = {} /\ next.undo = {}
    BY <2>2 DEF Idle
  <2>4. \A r \in rows : r.key \notin keys
    BY <1>1, <2>1 DEF RowsOf
  <2>5. Preparing(next)'
    BY <1>2, <1>4, <2>3, <2>4 DEF Preparing, Claimed
  <2>6. Knows(next)'
    BY <2>3, <2>5, KnowsBy
  <2> QED
    BY <1>2, <1>3, <1>5, <2>1, <2>2, <2>6, Starts DEF Goto
<1>6. ASSUME NEW r \in b, NEW id \in EpisodeByHash(r.key),
             Goto(c, [Idle EXCEPT !.pc = "link", !.call = "remember", !.target = id])
      PROVE  StoresAgree' /\ Alone' /\ TasksKnow'
  <2>1. PICK next : next = [Idle EXCEPT !.pc = "link", !.call = "remember", !.target = id]
    OBVIOUS
  <2>2. Knows(next)'
    BY <1>4, <2>1, LinksNext
  <2> QED
    BY <1>2, <1>3, <1>6, <2>1, <2>2, Starts DEF Goto
<1> QED
  BY <1>2, <1>5, <1>6

LEMMA ReplaceStep ==
  ASSUME SourceInv, WholeCalls, NEW c \in Clients, NEW r \in Records,
         NEW attach \in BOOLEAN, Replace(c, r, attach)
  PROVE  StoresAgree' /\ Alone' /\ TasksKnow'
<1>1. PICK seen, stoned : seen = EpisodeByHash(r.key) /\ stoned = StoneByHash(r.key)
  OBVIOUS
<1>2. /\ MayBegin(c) /\ ~deleted /\ StoresUnchanged
      /\ \/ Goto(c, [Idle EXCEPT !.pc = "prepare", !.call = "replace", !.cur = r,
                                 !.keys = {r.key}, !.attach = attach,
                                 !.seenRows = seen, !.seenStones = stoned])
         \/ \E id \in EpisodeByHash(r.key) :
              Goto(c, [Idle EXCEPT !.pc = "link", !.call = "replace", !.target = id])
  BY <1>1 DEF Replace, Begins, Ready
<1>3. c \in Actors
  BY DEF Actors
<1>4. rows' = rows /\ deleted' = deleted
  BY <1>2 DEF StoresUnchanged, documentVars
<1>5. CASE Goto(c, [Idle EXCEPT !.pc = "prepare", !.call = "replace", !.cur = r,
                                !.keys = {r.key}, !.attach = attach,
                                !.seenRows = seen, !.seenStones = stoned])
  <2>1. PICK next : next = [Idle EXCEPT !.pc = "prepare", !.call = "replace", !.cur = r,
                              !.keys = {r.key}, !.attach = attach,
                              !.seenRows = seen, !.seenStones = stoned]
    OBVIOUS
  <2>2. /\ next.pc = "prepare" /\ next.call = "replace" /\ next.keys = {r.key}
        /\ next.cur = r /\ next.made = {} /\ next.undo = {}
    BY <2>1 DEF Idle
  <2>3. Preparing(next)'
    BY <1>2, <1>4, <2>2 DEF Preparing
  <2>4. Knows(next)'
    BY <2>2, <2>3, KnowsBy
  <2> QED
    BY <1>2, <1>3, <1>5, <2>1, <2>4, Starts DEF Goto
<1>6. ASSUME NEW id \in EpisodeByHash(r.key),
             Goto(c, [Idle EXCEPT !.pc = "link", !.call = "replace", !.target = id])
      PROVE  StoresAgree' /\ Alone' /\ TasksKnow'
  <2>1. PICK next : next = [Idle EXCEPT !.pc = "link", !.call = "replace", !.target = id]
    OBVIOUS
  <2>2. Knows(next)'
    BY <1>4, <2>1, LinksNext
  <2> QED
    BY <1>2, <1>3, <1>6, <2>1, <2>2, Starts DEF Goto
<1> QED
  BY <1>2, <1>5, <1>6

LEMMA ForgetSourceStep ==
  ASSUME SourceInv, WholeCalls, NEW c \in Clients, NEW i \in 1..MaxSources,
         ForgetSource(c, i)
  PROVE  StoresAgree' /\ Alone' /\ TasksKnow'
<1>1. PICK next : next = [Idle EXCEPT !.pc = "revoke", !.call = "forget", !.target = i]
  OBVIOUS
<1>2. c \in Actors /\ MayBegin(c) /\ StoresUnchanged /\ Goto(c, next)
  BY <1>1 DEF ForgetSource, Ready, Actors
<1>3. next.pc = "revoke" /\ next.call = "forget" /\ next.made = {} /\ next.undo = {}
  BY <1>1 DEF Idle
<1>4. Forgetting(next)'
  BY <1>3 DEF Forgetting
<1>5. Knows(next)'
  BY <1>3, <1>4, KnowsBy DEF ForgetPcs
<1> QED
  BY <1>2, <1>5, Starts DEF Goto

LEMMA DeleteSpaceStep ==
  ASSUME SourceInv, WholeCalls, NEW c \in Clients, DeleteSpace(c)
  PROVE  StoresAgree' /\ Alone' /\ TasksKnow'
<1>1. PICK next : next = [Idle EXCEPT !.pc = "release", !.call = "delete"]
  OBVIOUS
<1>2. c \in Actors /\ MayBegin(c) /\ StoresUnchanged /\ Goto(c, next) /\ ~deleted
  BY <1>1 DEF DeleteSpace, Begins, Ready, Actors
<1>3. next.pc = "release"
  BY <1>1 DEF Idle
<1>4. ~deleted'
  BY <1>2 DEF StoresUnchanged, documentVars
<1>5. Erasing(next)'
  BY <1>3, <1>4 DEF Erasing
<1>6. Knows(next)'
  BY <1>3, <1>5, KnowsBy DEF ErasePcs
<1> QED
  BY <1>2, <1>6, Starts DEF Goto

LEMMA RecoverStep ==
  ASSUME SourceInv, WholeCalls, Recover(Recovery)
  PROVE  StoresAgree' /\ Alone' /\ TasksKnow'
<1>1. PICK next : next = [Idle EXCEPT !.pc = "retire", !.call = "recover",
                                      !.budget = RetireLimit]
  OBVIOUS
<1>2. /\ Recovery \in Actors /\ MayBegin(Recovery) /\ StoresUnchanged
      /\ op' = [op EXCEPT ![Recovery] = next]
  BY <1>1 DEF Recover, Actors
<1>3. next.pc = "retire" /\ next.made = {} /\ next.undo = {}
  BY <1>1 DEF Idle
<1>4. Repairing(next)'
  BY <1>3 DEF Repairing
<1>5. Knows(next)'
  BY <1>3, <1>4, KnowsBy DEF RepairPcs
<1> QED
  BY <1>2, <1>5, Starts

(* The embedder answers: the first write, or the removal it replaces.        *)

LEMMA PreparedInHand ==
  ASSUME SourceInv, NEW c \in Clients, op[c].pc = "prepare", StoresUnchanged
  PROVE  /\ c \in Actors /\ op[c] \in OpType /\ Preparing(op[c]) /\ StoresAgree'
         /\ \A next : Knows(next)' /\ Goto(c, next) => Alone' /\ TasksKnow'
<1>1. /\ c \in Actors /\ \A b \in Actors \ {c} : Quiet(b)
      /\ TasksTyped /\ Alone /\ StoresAgree /\ op[c] \in OpType /\ Knows(op[c])
  BY ClientInHand
<1>2. ASSUME NEW next, Knows(next)', Goto(c, next) PROVE Alone' /\ TasksKnow'
  BY <1>1, <1>2, TaskMoves DEF Goto
<1>3. StoresAgree'
  BY <1>1, AgreeStays
<1> QED
  BY <1>1, <1>2, <1>3 DEF Knows

LEMMA EmbeddedStep ==
  ASSUME SourceInv, NEW c \in Clients, Embedded(c)
  PROVE  StoresAgree' /\ Alone' /\ TasksKnow'
<1>1. PICK o : o = op[c]
  OBVIOUS
<1>2. PICK r \in o.todo : Goto(c, [o EXCEPT !.pc = "mark", !.cur = r, !.todo = @ \ {r}])
  BY <1>1 DEF Embedded
<1>3. PICK next : next = [o EXCEPT !.pc = "mark", !.cur = r, !.todo = @ \ {r}]
  OBVIOUS
<1>4. o.pc = "prepare" /\ o.call = "remember" /\ StoresUnchanged
  BY <1>1 DEF Embedded
<1>5. /\ o \in OpType /\ Preparing(o) /\ StoresAgree'
      /\ Knows(next)' => Alone' /\ TasksKnow'
  BY <1>1, <1>2, <1>3, <1>4, PreparedInHand
<1>6. next.pc = "mark" /\ next.made = o.made /\ next.keys = o.keys
  BY <1>3, <1>5 DEF OpType
<1>7. rows' = rows /\ deleted' = deleted
  BY <1>4 DEF StoresUnchanged, documentVars
<1>8. Writing(next)'
  BY <1>4, <1>5, <1>6, <1>7 DEF Preparing, Writing, Claimed
<1>9. Knows(next)'
  BY <1>6, <1>8, KnowsBy DEF WritePcs
<1> QED
  BY <1>5, <1>9

LEMMA PreparedStep ==
  ASSUME SourceInv, NEW c \in Clients, Prepared(c)
  PROVE  StoresAgree' /\ Alone' /\ TasksKnow'
<1>1. PICK o : o = op[c]
  OBVIOUS
<1>2. o.pc = "prepare" /\ o.call = "replace" /\ StoresUnchanged
  BY <1>1 DEF Prepared
<1>3. /\ o \in OpType /\ Preparing(o) /\ StoresAgree'
      /\ \A next : Knows(next)' /\ Goto(c, next) => Alone' /\ TasksKnow'
  BY <1>1, <1>2, PreparedInHand
<1>4. rows' = rows /\ deleted' = deleted
  BY <1>2 DEF StoresUnchanged, documentVars
<1>5. CASE Unchanged(o) /\ o.seenRows = {} /\ Goto(c, [o EXCEPT !.pc = "mark"])
  <2>1. PICK next : next = [o EXCEPT !.pc = "mark"]
    OBVIOUS
  <2>2. next.pc = "mark" /\ next.made = o.made /\ next.keys = o.keys
    BY <1>3, <2>1 DEF OpType
  <2>3. \A r \in rows : r.key # o.cur.key
    BY <1>5 DEF Unchanged, EpisodeByHash, RowsOf
  <2>4. Writing(next)'
    BY <1>2, <1>3, <1>4, <2>2, <2>3 DEF Preparing, Writing, Claimed
  <2>5. Knows(next)'
    BY <2>2, <2>4, KnowsBy DEF WritePcs
  <2> QED
    BY <1>3, <1>5, <2>1, <2>5
<1>6. ASSUME Unchanged(o), NEW id \in o.seenRows,
             Goto(c, [o EXCEPT !.pc = "revoke", !.target = id])
      PROVE  Alone' /\ TasksKnow'
  <2>1. PICK next : next = [o EXCEPT !.pc = "revoke", !.target = id]
    OBVIOUS
  <2>2. /\ next.pc = "revoke" /\ next.made = o.made /\ next.undo = o.undo
        /\ next.target = id
    BY <1>3, <2>1 DEF OpType
  <2>3. Stored(id)'
    BY <1>4, <1>6 DEF Unchanged, EpisodeByHash, RowsOf, Stored, RowAt
  <2>4. Forgetting(next)'
    BY <1>3, <2>2, <2>3 DEF Preparing, Forgetting
  <2>5. Knows(next)'
    BY <2>2, <2>4, KnowsBy DEF ForgetPcs
  <2> QED
    BY <1>3, <1>6, <2>1, <2>5
<1>7. CASE Goto(c, Failed(o))
  <2>1. PICK next : next = Failed(o)
    OBVIOUS
  <2>2. next.pc = "failed"
    BY <2>1 DEF Failed, Idle
  <2>3. Knows(next)'
    BY <2>2, QuietKnows
  <2> QED
    BY <1>3, <1>7, <2>1, <2>3
<1> QED
  BY <1>1, <1>3, <1>5, <1>6, <1>7 DEF Prepared

-----------------------------------------------------------------------------
(* The recovery pass.                                                       *)

LEMMA RepairInHand ==
  ASSUME SourceInv, op[Recovery].pc \in RepairPcs
  PROVE  /\ Recovery \in Actors /\ \A b \in Actors \ {Recovery} : Quiet(b)
         /\ StoresTyped /\ TasksTyped /\ Alone /\ StoresAgree
         /\ op[Recovery] \in OpType /\ Repairing(op[Recovery])
         /\ op[Recovery].call = "recover" /\ op[Recovery].target \in Nat
<1>1. Recovery \in Actors /\ ~Quiet(Recovery)
  BY DEF Actors, Quiet, RepairPcs
<1>2. /\ \A b \in Actors \ {Recovery} : Quiet(b)
      /\ StoresTyped /\ TasksTyped /\ Alone /\ StoresAgree
      /\ op[Recovery] \in OpType /\ Holds(op[Recovery]) /\ Knows(op[Recovery])
      /\ op[Recovery].target \in Nat
  BY <1>1, InHand
<1> QED
  BY <1>1, <1>2 DEF Knows, Holds

LEMMA PassMoves ==
  ASSUME SourceInv, op[Recovery].pc \in RepairPcs,
         NEW next, Knows(next)', op' = [op EXCEPT ![Recovery] = next]
  PROVE  Alone' /\ TasksKnow'
BY RepairInHand, TaskMoves

LEMMA PassAnswers ==
  ASSUME SourceInv, op[Recovery].pc \in RepairPcs,
         NEW next, Knows(next)', Answer(Recovery, next)
  PROVE  Alone' /\ TasksKnow'
BY RepairInHand, AnswerMoves

LEMMA RetireNextStep ==
  ASSUME SourceInv, RetireNext(Recovery)
  PROVE  StoresAgree' /\ Alone' /\ TasksKnow'
<1>1. PICK o : o = op[Recovery]
  OBVIOUS
<1>2. PICK p \in intents : Goto(Recovery, [o EXCEPT !.pc = "check", !.target = p.id])
  BY <1>1 DEF RetireNext
<1>3. PICK next : next = [o EXCEPT !.pc = "check", !.target = p.id]
  OBVIOUS
<1>4. o.pc = "retire" /\ StoresUnchanged
  BY <1>1 DEF RetireNext
<1>5. StoresAgree /\ o \in OpType /\ Repairing(o) /\ o.call = "recover"
  BY <1>1, <1>4, RepairInHand DEF RepairPcs
<1>6. /\ next.pc = "check" /\ next.made = o.made /\ next.undo = o.undo
      /\ next.call = o.call /\ next.target = p.id
  BY <1>3, <1>5 DEF OpType
<1>7. IntentAt(p.id)' # {}
  BY <1>2, <1>4 DEF StoresUnchanged, documentVars, IntentAt
<1>8. Forgetting(next)'
  BY <1>5, <1>6, <1>7 DEF Repairing, Forgetting
<1>9. Knows(next)'
  BY <1>6, <1>8, KnowsBy DEF ForgetPcs
<1>10. Alone' /\ TasksKnow'
  BY <1>1, <1>2, <1>3, <1>4, <1>9, PassMoves DEF Goto, RepairPcs
<1> QED
  BY <1>4, <1>5, <1>10, AgreeStays

\* The pass is over: serving, or closed again because of a backlog.
LEMMA PassEnds ==
  ASSUME SourceInv, Backlog(Recovery) \/ Recovered(Recovery)
  PROVE  StoresAgree' /\ Alone' /\ TasksKnow'
<1>1. PICK next : next = Idle
  OBVIOUS
<1>2. /\ op[Recovery].pc \in RepairPcs /\ StoresUnchanged
      /\ op' = [op EXCEPT ![Recovery] = next]
  BY <1>1 DEF Backlog, Recovered, RepairPcs
<1>3. next.pc = "idle"
  BY <1>1 DEF Idle
<1>4. Knows(next)'
  BY <1>3, QuietKnows
<1>5. Alone' /\ TasksKnow'
  BY <1>2, <1>4, PassMoves
<1> QED
  BY <1>2, <1>5, AgreeStays DEF SourceInv

LEMMA StartRepairStep ==
  ASSUME SourceInv, StartRepair(Recovery)
  PROVE  StoresAgree' /\ Alone' /\ TasksKnow'
<1>1. PICK o, marks : o = op[Recovery] /\ marks = inflight
  OBVIOUS
<1>2. PICK next : next = [o EXCEPT !.pc = "repair", !.marks = marks]
  OBVIOUS
<1>3. o.pc = "retire" /\ intents = {} /\ StoresUnchanged /\ Goto(Recovery, next)
  BY <1>1, <1>2 DEF StartRepair
<1>4. StoresAgree /\ o \in OpType /\ Repairing(o)
  BY <1>1, <1>3, RepairInHand DEF RepairPcs
<1>5. next.pc = "repair" /\ next.made = o.made /\ next.undo = o.undo /\ next.marks = marks
  BY <1>2, <1>4 DEF OpType
<1>6. intents' = {} /\ inflight' = marks
  BY <1>1, <1>3 DEF StoresUnchanged, documentVars
<1>7. Repairing(next)'
  BY <1>4, <1>5, <1>6 DEF Repairing
<1>8. Knows(next)'
  BY <1>5, <1>7, KnowsBy DEF RepairPcs
<1>9. Alone' /\ TasksKnow'
  BY <1>1, <1>3, <1>8, PassMoves DEF Goto, RepairPcs
<1> QED
  BY <1>3, <1>4, <1>9, AgreeStays

LEMMA RepairMarkStep ==
  ASSUME SourceInv, RepairMark(Recovery)
  PROVE  StoresAgree' /\ Alone' /\ TasksKnow'
<1>1. PICK o : o = op[Recovery]
  OBVIOUS
<1>2. o.pc = "repair" /\ StoresUnchanged
  BY <1>1 DEF RepairMark
<1>3. StoresAgree /\ o \in OpType /\ Repairing(o)
  BY <1>1, <1>2, RepairInHand DEF RepairPcs
<1>4. StoresAgree'
  BY <1>2, <1>3, AgreeStays
<1>5. UNCHANGED <<rows, chunks, vectors, intents, inflight>>
  BY <1>2 DEF StoresUnchanged, documentVars, sideVars
<1>6. ASSUME NEW next, next.pc \in RepairPcs, Repairing(next)', Goto(Recovery, next)
      PROVE  Alone' /\ TasksKnow'
  <2>1. Knows(next)'
    BY <1>6, KnowsBy
  <2> QED
    BY <1>1, <1>2, <1>6, <2>1, PassMoves DEF Goto, RepairPcs
<1>7. PICK k \in o.marks :
        \/ /\ EpisodeByHash(k) = {}
           /\ Goto(Recovery, [o EXCEPT !.pc = "settle", !.keys = {k}])
        \/ \E id \in EpisodeByHash(k) :
             Goto(Recovery, [o EXCEPT !.target = id, !.gone = ChunksOf(id), !.keys = {k},
                       !.pc = IF ChunksOf(id) = {} THEN "rechunk" ELSE "revector"])
  BY <1>1 DEF RepairMark
<1>8. CASE /\ EpisodeByHash(k) = {}
           /\ Goto(Recovery, [o EXCEPT !.pc = "settle", !.keys = {k}])
  <2>1. PICK next : next = [o EXCEPT !.pc = "settle", !.keys = {k}]
    OBVIOUS
  <2>2. /\ next.pc = "settle" /\ next.keys = {k} /\ next.marks = o.marks
        /\ next.made = o.made /\ next.undo = o.undo
    BY <1>3, <2>1 DEF OpType
  <2>3. \A r \in rows : r.key # k
    BY <1>8 DEF EpisodeByHash, RowsOf
  <2>4. Repairing(next)'
    BY <1>2, <1>3, <1>5, <2>2, <2>3 DEF Repairing
  <2>5. next.pc \in RepairPcs /\ Goto(Recovery, next)
    BY <1>8, <2>1, <2>2 DEF RepairPcs
  <2> QED
    BY <1>4, <1>6, <2>4, <2>5
<1>9. ASSUME NEW id \in EpisodeByHash(k),
             Goto(Recovery, [o EXCEPT !.target = id, !.gone = ChunksOf(id), !.keys = {k},
                       !.pc = IF ChunksOf(id) = {} THEN "rechunk" ELSE "revector"])
      PROVE  Alone' /\ TasksKnow'
  <2>1. PICK here, pc : /\ here = ChunksOf(id)
                        /\ pc = IF ChunksOf(id) = {} THEN "rechunk" ELSE "revector"
    OBVIOUS
  <2>2. PICK next : next = [o EXCEPT !.target = id, !.gone = here, !.keys = {k}, !.pc = pc]
    OBVIOUS
  <2>3. /\ next.pc = pc /\ next.keys = {k} /\ next.marks = o.marks /\ next.gone = here
        /\ next.target = id /\ next.made = o.made /\ next.undo = o.undo
    BY <1>3, <2>2 DEF OpType
  <2>4. /\ \A i : ChunksOf(i)' = ChunksOf(i)
        /\ \A i : Stored(i)' <=> Stored(i)
    BY <1>5, SameSources
  <2>5. PICK h \in rows : h.key = k /\ h.id = id
    BY <1>9 DEF EpisodeByHash, RowsOf
  <2>6. Stored(id) /\ \A r \in rows : r.key = k => r.id = id
    BY <1>3, <2>5 DEF Stored, RowAt, StoresAgree, KeysAreUnique
  <2>7. pc \in {"rechunk", "revector"} /\ (pc = "rechunk" <=> here = {})
    BY <2>1
  <2>8. Claimed(next, {next.target})'
    BY <1>5, <2>3, <2>6 DEF Claimed
  <2>9. Repairing(next)'
    BY <1>2, <1>3, <1>5, <2>1, <2>3, <2>4, <2>6, <2>7, <2>8 DEF Repairing
  <2>10. next.pc \in RepairPcs
    BY <2>3, <2>7 DEF RepairPcs
  <2>11. Goto(Recovery, next)
    BY <1>9, <2>1, <2>2
  <2> QED
    BY <1>6, <2>9, <2>10, <2>11
<1> QED
  BY <1>4, <1>7, <1>8, <1>9

LEMMA RechunkStep ==
  ASSUME SourceInv, Rechunk(Recovery)
  PROVE  StoresAgree' /\ Alone' /\ TasksKnow'
<1>1. PICK o, new : o = op[Recovery] /\ new = nextChunk
  OBVIOUS
<1>2. PICK next : next = [o EXCEPT !.pc = "revector", !.gone = {new}]
  OBVIOUS
<1>3. o.pc = "rechunk" /\ AddsChunk(o.target) /\ Answer(Recovery, next)
  BY <1>1, <1>2 DEF Rechunk, AddsChunk
<1>4. /\ StoresTyped /\ StoresAgree /\ o \in OpType /\ Repairing(o) /\ o.target \in Nat
  BY <1>1, <1>3, RepairInHand DEF RepairPcs
<1>5. Stored(o.target) /\ ChunksOf(o.target) = {} /\ Claimed(o, {o.target})
  BY <1>3, <1>4 DEF Repairing
<1>6. StoresAgree' /\ ChunksOf(o.target)' = {new}
  BY <1>1, <1>3, <1>4, <1>5, ChunkArrives
<1>7. UNCHANGED <<rows, intents, inflight>>
  BY <1>3 DEF AddsChunk
<1>8. /\ next.pc = "revector" /\ next.keys = o.keys /\ next.marks = o.marks
      /\ next.gone = {new} /\ next.target = o.target /\ next.made = o.made
      /\ next.undo = o.undo
  BY <1>2, <1>4 DEF OpType
<1>9. Stored(next.target)' /\ Claimed(next, {next.target})'
  BY <1>5, <1>7, <1>8 DEF Stored, RowAt, Claimed
<1>10. Repairing(next)'
  BY <1>3, <1>4, <1>6, <1>7, <1>8, <1>9 DEF Repairing
<1>11. Knows(next)'
  BY <1>8, <1>10, KnowsBy DEF RepairPcs
<1>12. Alone' /\ TasksKnow'
  BY <1>1, <1>3, <1>11, PassAnswers DEF RepairPcs
<1> QED
  BY <1>6, <1>12

LEMMA RevectorStep ==
  ASSUME SourceInv, Revector(Recovery)
  PROVE  StoresAgree' /\ Alone' /\ TasksKnow'
<1>1. PICK o : o = op[Recovery]
  OBVIOUS
<1>2. PICK next : next = [o EXCEPT !.pc = "settle", !.gone = {}]
  OBVIOUS
<1>3. o.pc = "revector" /\ Answer(Recovery, next)
  BY <1>1, <1>2 DEF Revector
<1>4. StoresTyped /\ StoresAgree /\ o \in OpType /\ Repairing(o) /\ o.target \in Nat
  BY <1>1, <1>3, RepairInHand DEF RepairPcs
<1>5. /\ Stored(o.target) /\ ChunksOf(o.target) = o.gone /\ o.gone # {}
      /\ Claimed(o, {o.target}) /\ intents = {} /\ inflight \subseteq o.marks
  BY <1>3, <1>4 DEF Repairing
<1>6. AddsPoints(o.target)
  BY <1>1, <1>5 DEF Revector, AddsPoints
<1>7. StoresAgree' /\ Complete(o.target)'
  <2>1. IntentAt(o.target) = {}
    BY <1>5 DEF IntentAt
  <2> QED
    BY <1>4, <1>5, <1>6, <2>1, PointsArrive
<1>8. UNCHANGED <<rows, intents, inflight>>
  BY <1>6 DEF AddsPoints, documentVars
<1>9. /\ next.pc = "settle" /\ next.keys = o.keys /\ next.marks = o.marks
      /\ next.made = o.made /\ next.undo = o.undo
  BY <1>2, <1>4 DEF OpType
<1>10. \A r \in rows : r.key \in o.keys => r.id = o.target
  BY <1>5 DEF Claimed
<1>11. \A r \in rows' : r.key \in next.keys => Complete(r.id)'
  BY <1>7, <1>8, <1>9, <1>10
<1>12. Repairing(next)'
  BY <1>4, <1>5, <1>8, <1>9, <1>11 DEF Repairing
<1>13. Knows(next)'
  BY <1>9, <1>12, KnowsBy DEF RepairPcs
<1>14. Alone' /\ TasksKnow'
  BY <1>1, <1>3, <1>13, PassAnswers DEF RepairPcs
<1> QED
  BY <1>7, <1>14

LEMMA SettleMarkStep ==
  ASSUME SourceInv, SettleMark(Recovery)
  PROVE  StoresAgree' /\ Alone' /\ TasksKnow'
<1>1. PICK o : o = op[Recovery]
  OBVIOUS
<1>2. PICK next : next = [o EXCEPT !.pc = "repair", !.marks = @ \ o.keys, !.keys = {},
                                   !.target = 0]
  OBVIOUS
<1>3. /\ o.pc = "settle" /\ Answer(Recovery, next) /\ inflight' = inflight \ o.keys
      /\ UNCHANGED <<rows, chunks, vectors, stones, intents, deleted, nextId,
                     nextChunk, orphans, unbumped, links, trail>>
  BY <1>1, <1>2 DEF SettleMark, sideVars
<1>4. StoresAgree /\ o \in OpType /\ Repairing(o)
  BY <1>1, <1>3, RepairInHand DEF RepairPcs
<1>5. NotesFit
  BY <1>3, <1>4 DEF Repairing, NotesFit, StoresAgree, StonesAreErased, RemovalsAreTold,
                    DeletedStaysEmpty
<1>6. StoresAgree'
  BY <1>3, <1>4, <1>5, NotesAgree DEF Notes
<1>7. /\ next.pc = "repair" /\ next.marks = o.marks \ o.keys
      /\ next.made = o.made /\ next.undo = o.undo
  BY <1>2, <1>4 DEF OpType
<1>8. Repairing(next)'
  BY <1>3, <1>4, <1>7 DEF Repairing
<1>9. Knows(next)'
  BY <1>7, <1>8, KnowsBy DEF RepairPcs
<1>10. Alone' /\ TasksKnow'
  BY <1>1, <1>3, <1>9, PassAnswers DEF RepairPcs
<1> QED
  BY <1>6, <1>10

-----------------------------------------------------------------------------
(* The environment, and the invariant.                                      *)

LEMMA RefuseStep ==
  ASSUME SourceInv, NEW a \in Actors, Refuse(a)
  PROVE  StoresAgree' /\ Alone' /\ TasksKnow'
<1>1. ~Quiet(a) /\ Raise(a) /\ StoresUnchanged
  BY DEF Refuse
<1>2. /\ \A b \in Actors \ {a} : Quiet(b)
      /\ TasksTyped /\ Alone /\ StoresAgree /\ Knows(op[a])
  BY <1>1, InHand
<1>3. StoresAgree'
  BY <1>1, <1>2, AgreeStays
<1>4. CASE a = Recovery \/ op[a].pc \notin WritePcs
  BY <1>1, <1>2, <1>3, <1>4, RaiseMoves
<1>5. CASE a # Recovery /\ op[a].pc \in WritePcs
  <2>1. PICK o : o = op[a]
    OBVIOUS
  <2>2. Writing(o)
    BY <1>2, <1>5, <2>1 DEF Knows
  <2>3. Unwinds(o)'
    BY <1>1, <2>2, WritingStays DEF StoresUnchanged, documentVars, sideVars
  <2> QED
    BY <1>1, <1>2, <1>3, <1>5, <2>1, <2>3, WriteRaises
<1> QED
  BY <1>4, <1>5

LEMMA CancelStep ==
  ASSUME SourceInv, NEW c \in Clients, Cancel(c)
  PROVE  StoresAgree' /\ Alone' /\ TasksKnow'
<1>1. PICK next : next = Idle
  OBVIOUS
<1>2. c \in Actors /\ ~Quiet(c) /\ StoresUnchanged /\ op' = [op EXCEPT ![c] = next]
  BY <1>1 DEF Cancel, Actors
<1>3. /\ \A b \in Actors \ {c} : Quiet(b)
      /\ TasksTyped /\ Alone /\ StoresAgree
  BY <1>2, InHand
<1>4. next.pc = "idle"
  BY <1>1 DEF Idle
<1>5. Knows(next)'
  BY <1>4, QuietKnows
<1> QED
  BY <1>2, <1>3, <1>5, AgreeStays, TaskMoves

LEMMA CrashStep ==
  ASSUME SourceInv, Crash PROVE StoresAgree' /\ Alone' /\ TasksKnow'
<1>1. StoresAgree'
  BY AgreeStays DEF Crash, SourceInv
<1>2. \A a \in Actors : op'[a].pc = "idle"
  BY DEF Crash, Idle
<1>3. Alone'
  BY <1>2 DEF Alone, Quiet
<1>4. TasksKnow'
  BY <1>2, QuietKnows DEF TasksKnow
<1> QED
  BY <1>1, <1>3, <1>4

LEMMA InitHolds == Init => SourceInv
<1> SUFFICES ASSUME Init PROVE SourceInv
  OBVIOUS
<1>1. StoresTyped /\ TasksTyped
  BY InitType
<1>2. StoresAgree
  BY DEF Init, StoresAgree, IdsAreIssued, KeysAreUnique, ChunksAreApart,
         PointsHaveChunks, IntentsList, StonesAreErased, RemovalsAreTold,
         IncompleteIsCovered, DeletedStaysEmpty
<1>3. \A a \in Actors : op[a].pc = "idle"
  BY DEF Init, Idle
<1>4. Alone
  BY <1>3 DEF Alone, Quiet
<1>5. TasksKnow
  BY <1>3 DEF TasksKnow, Knows, WritePcs, UndoPcs, ForgetPcs, ErasePcs, RepairPcs
<1> QED
  BY <1>1, <1>2, <1>4, <1>5 DEF SourceInv

LEMMA ClientStepHolds ==
  ASSUME SourceInv, WholeCalls, NEW c \in Clients, ClientStep(c)
  PROVE  StoresAgree' /\ Alone' /\ TasksKnow'
<1>1. CASE \/ \E b \in Batches, attach \in BOOLEAN : Remember(c, b, attach)
           \/ \E r \in Records, attach \in BOOLEAN : Replace(c, r, attach)
           \/ \E i \in 1..MaxSources : ForgetSource(c, i)
           \/ DeleteSpace(c) \/ Embedded(c) \/ Prepared(c)
  BY <1>1, RememberStep, ReplaceStep, ForgetSourceStep, DeleteSpaceStep, EmbeddedStep,
     PreparedStep
<1>2. CASE \/ Mark(c) \/ InsertEpisode(c) \/ EpisodeConflict(c) \/ InsertChunks(c)
           \/ UpsertVectors(c) \/ ClearMark(c) \/ BumpAfterWrite(c) \/ Link(c)
  BY <1>2, MarkStep, InsertEpisodeStep, EpisodeConflictStep, InsertChunksStep,
     UpsertVectorsStep, ClearMarkStep, BumpAfterWriteStep, LinkStep
<1>3. CASE UndoEpisode(c) \/ UndoVectors(c) \/ UndoMark(c) \/ Revoke(c) \/ RecordIntent(c)
  BY <1>3, UndoEpisodeStep, UndoVectorsStep, UndoMarkStep, RevokeStep, RecordIntentStep
<1>4. CASE ReleaseBlobs(c) \/ EraseDocuments(c) \/ SweepVectors(c) \/ PurgeEvents(c)
  BY <1>4, ReleaseBlobsStep, EraseDocumentsStep, SweepVectorsStep, PurgeEventsStep
<1> QED
  BY <1>1, <1>2, <1>3, <1>4 DEF ClientStep

LEMMA SharedStepHolds ==
  ASSUME SourceInv, WholeCalls,
         (\E a \in Actors : FinishForget(a)) \/ RecoveryStep(Recovery)
  PROVE  StoresAgree' /\ Alone' /\ TasksKnow'
<1>1. ASSUME NEW a \in Actors, FinishForget(a) PROVE StoresAgree' /\ Alone' /\ TasksKnow'
  BY <1>1, CheckIntentStep, DeleteRowsStep, DeleteVectorsStep, UnlinkStep, RecordStoneStep,
     UnmarkStep, BumpAfterForgetStep, AppendEventStep, AcknowledgeStep DEF FinishForget
<1>2. CASE RecoveryStep(Recovery)
  BY <1>2, RecoverStep, RetireNextStep, PassEnds, StartRepairStep, RepairMarkStep,
     RechunkStep, RevectorStep, SettleMarkStep DEF RecoveryStep
<1> QED
  BY <1>1, <1>2

LEMMA StepHolds ==
  ASSUME SourceInv, WholeCalls, [Next]_vars PROVE SourceInv'
<1>1. StoresTyped' /\ TasksTyped'
  BY StepType DEF SourceInv
<1>2. StoresAgree' /\ Alone' /\ TasksKnow'
  <2>1. CASE UNCHANGED vars
    <3>1. UNCHANGED op /\ StoresUnchanged
      BY <2>1 DEF vars, StoresUnchanged
    <3>2. StoresAgree'
      BY <3>1, AgreeStays DEF SourceInv
    <3>3. Alone'
      BY <3>1 DEF SourceInv, Alone, Quiet
    <3>4. TasksKnow'
      <4>1. UNCHANGED <<rows, chunks, vectors, intents, inflight, stones, unbumped,
                        deleted, links, trail, orphans>>
        BY <3>1 DEF StoresUnchanged, documentVars, sideVars
      <4> SUFFICES ASSUME NEW a \in Actors PROVE Knows(op[a])'
        BY DEF TasksKnow
      <4>2. Knows(op[a])
        BY DEF SourceInv, TasksKnow
      <4>3. \A i : /\ RowAt(i)' = RowAt(i) /\ ChunksOf(i)' = ChunksOf(i)
                   /\ VectorsOf(i)' = VectorsOf(i) /\ IntentAt(i)' = IntentAt(i)
        BY <4>1, SameSources
      <4>4. PICK o : o = op[a] /\ o = op'[a]
        BY <3>1
      <4>5. /\ Preparing(o) => Preparing(o)'
            /\ Writing(o) => Writing(o)'
            /\ Written(o) => Written(o)'
        BY <4>1, <4>3 DEF Preparing, Writing, Written, Claimed, Stored, Complete
      <4>6. /\ Undoing(o) => Undoing(o)'
            /\ Erasing(o) => Erasing(o)'
            /\ Repairing(o) => Repairing(o)'
        BY <4>1, <4>3 DEF Undoing, Erasing, Repairing, Claimed, Stored, Complete, Erased
      <4>7. Forgetting(o) => Forgetting(o)'
        BY <4>1, <4>3 DEF Forgetting, Claimed, Stored, Stoned, Lists
      <4> QED
        BY <4>2, <4>4, <4>5, <4>6, <4>7 DEF Knows
    <3> QED
      BY <3>2, <3>3, <3>4
  <2>2. ASSUME NEW a \in Actors, Refuse(a) PROVE StoresAgree' /\ Alone' /\ TasksKnow'
    BY <2>2, RefuseStep
  <2>3. ASSUME NEW c \in Clients, ClientStep(c) \/ Cancel(c)
        PROVE  StoresAgree' /\ Alone' /\ TasksKnow'
    BY <2>3, ClientStepHolds, CancelStep
  <2> QED
    BY <2>1, <2>2, <2>3, SharedStepHolds, CrashStep DEF Next
<1> QED
  BY <1>1, <1>2 DEF SourceInv

LEMMA SourceInvariance == WholeCalls => (Spec => []SourceInv)
<1> SUFFICES ASSUME WholeCalls PROVE Spec => []SourceInv
  OBVIOUS
<1>1. SourceInv /\ [Next]_vars => SourceInv'
  BY StepHolds
<1> QED
  BY <1>1, InitHolds, PTL DEF Spec

-----------------------------------------------------------------------------
(* The theorems.                                                            *)

\* A source that is stored and cannot be found by every lane has its mark or a
\* pending removal to be finished from, for any number of callers, records and
\* faults: where callers serialise whole calls.
THEOREM IncompleteCovered == WholeCalls => (Spec => []IncompleteIsCovered)
<1> SUFFICES ASSUME WholeCalls PROVE Spec => []IncompleteIsCovered
  OBVIOUS
<1>1. SourceInv => IncompleteIsCovered
  BY DEF SourceInv, StoresAgree
<1> QED
  BY <1>1, SourceInvariance, PTL

\* Once a removal is acknowledged nothing of the source is left in any store, its
\* event is in the trail and the revision moved.
THEOREM ForgottenErased == WholeCalls => (Spec => []ForgottenIsErased)
<1> SUFFICES ASSUME WholeCalls PROVE Spec => []ForgottenIsErased
  OBVIOUS
<1>1. SourceInv => ForgottenIsErased
  BY DEF SourceInv, StoresAgree, StonesAreErased, RemovalsAreTold, Erased,
         ForgottenIsErased
<1> QED
  BY <1>1, SourceInvariance, PTL

\* A deleted space keeps no record, and no call brings one back.
THEOREM DeletedEmpty == WholeCalls => (Spec => []DeletedStaysEmpty)
<1> SUFFICES ASSUME WholeCalls PROVE Spec => []DeletedStaysEmpty
  OBVIOUS
<1>1. SourceInv => DeletedStaysEmpty
  BY DEF SourceInv, StoresAgree
<1> QED
  BY <1>1, SourceInvariance, PTL

\* A batch lands whole or not at all: when it is failed after its rollback none of
\* its episodes is left, when it is failed after its last write all are complete.
THEOREM BatchesWhole == WholeCalls => (Spec => BatchWhole)
<1> SUFFICES ASSUME WholeCalls PROVE Spec => BatchWhole
  OBVIOUS
<1>1. ASSUME SourceInv, NEW c \in Clients, op[c].pc \in {"undoMarks", "bump", "link"}
      PROVE  \/ \A i \in op[c].made : RowAt(i) = {} /\ VectorsOf(i) = {}
             \/ \A i \in op[c].made : Complete(i)
  <2>1. Knows(op[c])
    BY <1>1 DEF SourceInv, TasksKnow, Actors
  <2>2. CASE op[c].pc = "undoMarks"
    <3>1. op[c].undo = {} /\ \A i \in op[c].made \ op[c].undo : Erased(i)
      BY <2>1, <2>2 DEF Knows, UndoPcs, Undoing
    <3> QED
      BY <3>1 DEF Erased
  <2>3. CASE op[c].pc \in {"bump", "link"}
    BY <2>1, <2>3 DEF Knows, Written
  <2> QED
    BY <1>1, <2>2, <2>3
<1>2. SourceInv /\ [Next]_vars =>
        [\A c \in Clients :
           op[c].call = "remember" /\ op[c].pc \in {"undoMarks", "bump", "link"}
             /\ op'[c].pc = "failed" =>
               \/ \A i \in op[c].made : RowAt(i) = {} /\ VectorsOf(i) = {}
               \/ \A i \in op[c].made : Complete(i)]_vars
  BY <1>1
<1> QED
  BY <1>2, SourceInvariance, PTL DEF Spec, BatchWhole

\* A task that goes on or raises never opens the engine.
LEMMA NeverOpens ==
  ASSUME NEW a \in Actors,
         \/ \E next : Goto(a, next)
         \/ \E next : Answer(a, next)
         \/ Raise(a)
  PROVE  mode' \in {mode, "down"}
BY DEF Goto, Answer, Raise

\* Only the end of a recovery pass does.
LEMMA OnlyRecoveredOpens ==
  ASSUME [Next]_vars, mode = "opening", mode' = "serving"
  PROVE  Recovered(Recovery)
<1>1. ASSUME NEW c \in Clients, ClientStep(c) PROVE mode' \in {mode, "down"}
  <2>1. c \in Actors
    BY DEF Actors
  <2>2. CASE \/ \E b \in Batches, attach \in BOOLEAN : Remember(c, b, attach)
             \/ \E r \in Records, attach \in BOOLEAN : Replace(c, r, attach)
             \/ \E i \in 1..MaxSources : ForgetSource(c, i)
             \/ DeleteSpace(c) \/ Embedded(c) \/ Prepared(c) \/ Revoke(c)
    BY <2>2 DEF Remember, Replace, ForgetSource, DeleteSpace, Embedded, Prepared, Revoke,
                Goto
  <2>3. CASE \/ Mark(c) \/ InsertEpisode(c) \/ EpisodeConflict(c) \/ InsertChunks(c)
             \/ UpsertVectors(c) \/ ClearMark(c) \/ BumpAfterWrite(c) \/ Link(c)
    BY <2>1, <2>3, NeverOpens DEF Mark, InsertEpisode, EpisodeConflict, InsertChunks,
         UpsertVectors, ClearMark, BumpAfterWrite, Link
  <2>4. CASE UndoEpisode(c) \/ UndoVectors(c) \/ UndoMark(c) \/ RecordIntent(c)
    BY <2>1, <2>4, NeverOpens DEF UndoEpisode, UndoVectors, UndoMark, RecordIntent
  <2>5. CASE ReleaseBlobs(c) \/ EraseDocuments(c) \/ SweepVectors(c) \/ PurgeEvents(c)
    BY <2>1, <2>5, NeverOpens DEF ReleaseBlobs, EraseDocuments, SweepVectors, PurgeEvents
  <2> QED
    BY <1>1, <2>2, <2>3, <2>4, <2>5 DEF ClientStep
<1>2. ASSUME NEW a \in Actors, FinishForget(a) PROVE mode' \in {mode, "down"}
  BY <1>2, NeverOpens DEF FinishForget, CheckIntent, DeleteRows, DeleteVectors, Unlink,
     RecordStone, Unmark, BumpAfterForget, AppendEvent, Acknowledge
<1>3. CASE RecoveryStep(Recovery)
  <2>1. Recovery \in Actors
    BY DEF Actors
  <2>2. CASE Rechunk(Recovery) \/ Revector(Recovery) \/ SettleMark(Recovery)
    BY <2>1, <2>2, NeverOpens DEF Rechunk, Revector, SettleMark
  <2>3. CASE RetireNext(Recovery) \/ StartRepair(Recovery) \/ RepairMark(Recovery)
    BY <2>3 DEF RetireNext, StartRepair, RepairMark, Goto
  <2>4. CASE Recover(Recovery) \/ Backlog(Recovery)
    BY <2>4 DEF Recover, Backlog
  <2> QED
    BY <1>3, <2>2, <2>3, <2>4 DEF RecoveryStep
<1>4. ASSUME NEW c \in Clients, Cancel(c) PROVE mode' \in {mode, "down"}
  BY <1>4 DEF Cancel
<1>5. ASSUME NEW a \in Actors, Refuse(a) PROVE mode' \in {mode, "down"}
  BY <1>5, NeverOpens DEF Refuse
<1>6. ASSUME Crash \/ UNCHANGED vars PROVE mode' \in {mode, "down"}
  BY <1>6 DEF Crash, vars
<1> QED
  BY <1>1, <1>2, <1>3, <1>4, <1>5, <1>6 DEF Next

\* open() serves only when nothing is unfinished: no mark, no pending removal, and
\* every source complete but one whose insertion was never answered.
THEOREM OpensClean == WholeCalls => (Spec => OpenIsClean)
<1> SUFFICES ASSUME WholeCalls PROVE Spec => OpenIsClean
  OBVIOUS
<1>1. ASSUME SourceInv, SourceInv', [Next]_vars, mode = "opening", mode' = "serving"
      PROVE  /\ intents' = {} /\ inflight' = {}
             /\ \A r \in rows' : Complete(r.id)' \/ r.id \in orphans'
  <2>1. op[Recovery].pc = "repair" /\ op[Recovery].marks = {} /\ StoresUnchanged
    BY <1>1, OnlyRecoveredOpens DEF Recovered
  <2>2. intents = {} /\ inflight \subseteq op[Recovery].marks
    BY <1>1, <2>1, RepairInHand DEF RepairPcs, Repairing
  <2>3. intents' = {} /\ inflight' = {}
    BY <2>1, <2>2 DEF StoresUnchanged, documentVars
  <2>4. IncompleteIsCovered'
    BY <1>1 DEF SourceInv, StoresAgree
  <2>5. \A i : IntentAt(i)' = {}
    BY <2>3 DEF IntentAt
  <2>6. ASSUME NEW r \in rows' PROVE Complete(r.id)' \/ r.id \in orphans'
    BY <2>3, <2>4, <2>5 DEF IncompleteIsCovered
  <2> QED
    BY <2>3, <2>6
<1>2. SourceInv /\ SourceInv' /\ [Next]_vars =>
        [mode = "opening" /\ mode' = "serving" =>
           /\ intents' = {} /\ inflight' = {}
           /\ \A r \in rows' : Complete(r.id)' \/ r.id \in orphans']_vars
  BY <1>1
<1> QED
  BY <1>2, SourceInvariance, PTL DEF Spec, OpenIsClean

-----------------------------------------------------------------------------
(* The refinement: the stores, seen together, follow SourceLedger.           *)

\* Most steps leave every source at its stage ...
StagesStay == UNCHANGED deleted /\ \A i : Stage(i)' = Stage(i)

\* ... some move one of them ...
StageMoves(i) ==
  /\ ~deleted /\ UNCHANGED deleted
  /\ \A j : j # i => Stage(j)' = Stage(j)
  /\ Stage(i)' \in Ledger!Follows(Stage(i))

\* ... and one ends them all.
StagesEnd == ~deleted /\ deleted' /\ \A i : Stage(i)' = "none"

FollowsLedger == StagesStay \/ (\E i : StageMoves(i)) \/ StagesEnd

LEMMA LedgerMoves ==
  ASSUME deleted \in BOOLEAN, FollowsLedger PROVE [Ledger!Next]_(Ledger!ledgerVars)
<1> DEFINE now == [i \in 1..MaxSources |-> Stage(i)]
<1> DEFINE then == [i \in 1..MaxSources |-> Stage(i)']
<1> SUFFICES (then = now /\ deleted' = deleted) \/ Ledger!Next
  BY DEF Ledger!ledgerVars
<1>1. CASE StagesStay
  BY <1>1 DEF StagesStay
<1>2. ASSUME NEW i, StageMoves(i)
      PROVE  (then = now /\ deleted' = deleted) \/ Ledger!Next
  <2>1. CASE i \in 1..MaxSources
    <3>1. then = [now EXCEPT ![i] = Stage(i)'] /\ now[i] = Stage(i)
      BY <1>2, <2>1 DEF StageMoves
    <3>2. ~deleted /\ deleted' = deleted /\ Stage(i)' \in Ledger!Follows(now[i])
      BY <1>2, <3>1 DEF StageMoves
    <3>3. Ledger!Move(i)
      BY <3>1, <3>2 DEF Ledger!Move
    <3> QED
      BY <2>1, <3>3 DEF Ledger!Next
  <2>2. CASE i \notin 1..MaxSources
    BY <1>2, <2>2 DEF StageMoves
  <2> QED
    BY <2>1, <2>2
<1>3. CASE StagesEnd
  <2>1. then = [i \in 1..MaxSources |-> "none"]
    BY <1>3 DEF StagesEnd
  <2>2. ~deleted /\ deleted' = TRUE
    BY <1>3 DEF StagesEnd
  <2>3. Ledger!Erase
    BY <2>1, <2>2 DEF Ledger!Erase
  <2> QED
    BY <2>3 DEF Ledger!Next
<1> QED
  BY <1>1, <1>2, <1>3 DEF FollowsLedger

LEMMA LedgerStages ==
  /\ "partial" \in Ledger!Follows("none")
  /\ {"present", "none", "retiring"} \subseteq Ledger!Follows("partial")
  /\ {"none", "retiring"} \subseteq Ledger!Follows("present")
  /\ "forgotten" \in Ledger!Follows("retiring")
BY DEF Ledger!Follows

\* A source keeps its stage when what the stage is read off stays.
LEMMA SameStage ==
  ASSUME NEW i, IntentAt(i)' = {} <=> IntentAt(i) = {}, Stoned(i)' <=> Stoned(i),
         Stored(i)' <=> Stored(i), Stored(i) => (Complete(i)' <=> Complete(i))
  PROVE  Stage(i)' = Stage(i)
BY DEF Stage, Stoned, Stored

\* Notes, reads and the steps that only move a task.
Still == UNCHANGED <<rows, chunks, vectors, intents, stones, deleted>>

LEMMA StillStays == ASSUME Still PROVE StagesStay
<1>1. \A i : (Stoned(i)' <=> Stoned(i)) /\ IntentAt(i)' = IntentAt(i)
  BY DEF Still, Stoned, IntentAt
<1>2. \A i : (Stored(i)' <=> Stored(i)) /\ (Complete(i)' <=> Complete(i))
  BY DEF Still, Stored, RowAt, Complete, ChunksOf, VectorsOf
<1> QED
  BY <1>1, <1>2, SameStage DEF Still, StagesStay

LEMMA EpisodeStage ==
  ASSUME StoresTyped, StoresAgree, ~deleted,
         NEW r \in [id : Nat, key : Keys, text : Texts], r.id = nextId,
         RowsOf(r.key) = {}, r.key \in inflight, AddsEpisode(r)
  PROVE  StageMoves(r.id)
<1>1. /\ Stored(r.id)' /\ ChunksOf(r.id)' = {} /\ IntentAt(r.id)' = {}
      /\ \A j : j # r.id => RowAt(j)' = RowAt(j)
      /\ \A j : IntentAt(j)' = IntentAt(j) /\ (Complete(j)' <=> Complete(j))
      /\ RowAt(r.id) = {}
  BY EpisodeArrives
<1>2. \A j : Stoned(j)' <=> Stoned(j)
  BY DEF AddsEpisode, Stoned
<1>3. ASSUME NEW j, j # r.id PROVE Stage(j)' = Stage(j)
  BY <1>1, <1>2, <1>3, SameStage DEF Stored
<1>4. ~Stoned(r.id)
  BY DEF StoresTyped, StoresAgree, IdsAreIssued, Stoned
<1>5. Stage(r.id) = "none"
  BY <1>1, <1>4 DEF Stage, Stoned
<1>6. Stage(r.id)' = "partial"
  BY <1>1, <1>2, <1>4 DEF Stage, Stoned, Stored, Complete
<1> QED
  BY <1>3, <1>5, <1>6, LedgerStages DEF StageMoves, AddsEpisode

LEMMA ChunkStage ==
  ASSUME StoresTyped, StoresAgree, NEW i \in Nat, AddsChunk(i), Stored(i), ChunksOf(i) = {}
  PROVE  StagesStay
<1>1. /\ ChunksOf(i)' = {nextChunk} /\ VectorsOf(i) = {}
      /\ \A j : j # i => ChunksOf(j)' = ChunksOf(j)
  BY ChunkArrives
<1>2. \A j : (Stoned(j)' <=> Stoned(j)) /\ (Stored(j)' <=> Stored(j)) /\ IntentAt(j)' = IntentAt(j)
  BY DEF AddsChunk, Stoned, Stored, RowAt, IntentAt
<1>3. \A j : VectorsOf(j)' = VectorsOf(j)
  BY DEF AddsChunk, sideVars, VectorsOf
<1>4. \A j : Complete(j)' <=> Complete(j)
  BY <1>1, <1>3 DEF Complete
<1> QED
  BY <1>2, <1>4, SameStage DEF StagesStay, AddsChunk

LEMMA PointsStage ==
  ASSUME StoresTyped, StoresAgree, NEW i \in Nat, AddsPoints(i), Stored(i),
         IntentAt(i) = {}, ChunksOf(i) # {}
  PROVE  StagesStay \/ StageMoves(i)
<1>1. /\ Complete(i)' /\ \A j : Complete(j) => Complete(j)'
      /\ \A j : j # i /\ Complete(j)' => Complete(j)
  BY PointsArrive
<1>2. /\ \A j : (Stoned(j)' <=> Stoned(j)) /\ (Stored(j)' <=> Stored(j))
      /\ \A j : IntentAt(j)' = IntentAt(j)
      /\ deleted' = deleted
  BY DEF AddsPoints, documentVars, Stoned, Stored, RowAt, IntentAt
<1>3. ASSUME NEW j, j # i PROVE Stage(j)' = Stage(j)
  BY <1>1, <1>2, <1>3, SameStage
<1>4. ~Stoned(i) /\ ~deleted
  BY StoredIsFree
<1>5. Stage(i)' = "present"
  BY <1>1, <1>2, <1>4 DEF Stage, Stoned, Stored
<1>6. Stage(i) \in {"partial", "present"}
  BY <1>4 DEF Stage, Stoned, Stored
<1> QED
  BY <1>2, <1>3, <1>4, <1>5, <1>6, LedgerStages DEF StagesStay, StageMoves

\* A source that goes is at its end, unless its removal is already recorded.
LEMMA WithdrawnStage ==
  ASSUME StoresTyped, StoresAgree, NEW i \in Nat, Withdraws(i), ~deleted
  PROVE  StagesStay \/ StageMoves(i)
<1>1. /\ RowAt(i)' = {}
      /\ \A j : VectorsOf(j)' = VectorsOf(j) /\ IntentAt(j)' = IntentAt(j)
      /\ \A j : j # i => RowAt(j)' = RowAt(j) /\ ChunksOf(j)' = ChunksOf(j)
  BY SourceGoes
<1>2. deleted' = deleted /\ \A j : Stoned(j)' <=> Stoned(j)
  BY DEF Withdraws, Stoned
<1>3. ASSUME NEW j, j # i PROVE Stage(j)' = Stage(j)
  BY <1>1, <1>2, <1>3, SameStage DEF Stored, Complete
<1>4. CASE IntentAt(i) # {} \/ Stoned(i) \/ ~Stored(i)
  <2>1. Stage(i)' = Stage(i)
    BY <1>1, <1>2, <1>4 DEF Stage, Stoned, Stored
  <2> QED
    BY <1>2, <1>3, <2>1 DEF StagesStay
<1>5. CASE IntentAt(i) = {} /\ ~Stoned(i) /\ Stored(i)
  <2>1. Stage(i) \in {"partial", "present"} /\ Stage(i)' = "none"
    BY <1>1, <1>2, <1>5 DEF Stage, Stoned, Stored
  <2> QED
    BY <1>2, <1>3, <2>1, LedgerStages DEF StageMoves
<1> QED
  BY <1>4, <1>5

LEMMA PointsGoneStage ==
  ASSUME StoresAgree, NEW gone, DropsPoints(gone), \A x \in chunks : x.chunk \notin gone
  PROVE  StagesStay
<1>1. \A j : Complete(j)' <=> Complete(j)
  BY PointsGo
<1>2. \A j : (Stoned(j)' <=> Stoned(j)) /\ (Stored(j)' <=> Stored(j)) /\ IntentAt(j)' = IntentAt(j)
  BY DEF DropsPoints, documentVars, Stoned, Stored, RowAt, IntentAt
<1> QED
  BY <1>1, <1>2, SameStage DEF StagesStay, DropsPoints, documentVars

LEMMA WriteFollows ==
  ASSUME SourceInv, NEW c \in Clients,
         InsertEpisode(c) \/ InsertChunks(c) \/ UpsertVectors(c)
  PROVE  FollowsLedger
<1>1. PICK o : o = op[c]
  OBVIOUS
<1>2. o.pc \in {"row", "chunk", "vector"}
  BY <1>1 DEF InsertEpisode, InsertChunks, UpsertVectors
<1>3. /\ StoresTyped /\ StoresAgree /\ o \in OpType /\ Knows(o) /\ Holds(o) /\ o.target \in Nat
  BY <1>1, <1>2, ClientInHand DEF CommitPcs, WritePcs
<1>4. Writing(o) /\ o.cur \in Records
  BY <1>2, <1>3 DEF Knows, Holds, WritePcs
<1>5. CASE InsertEpisode(c)
  <2>1. PICK r : r = [id |-> nextId, key |-> o.cur.key, text |-> o.cur.text]
    OBVIOUS
  <2>2. o.pc = "row" /\ RowsOf(o.cur.key) = {} /\ AddsEpisode(r)
    BY <1>1, <1>5, <2>1 DEF InsertEpisode, AddsEpisode
  <2>3. r \in [id : Nat, key : Keys, text : Texts] /\ r.id = nextId /\ r.key = o.cur.key
    BY <1>3, <1>4, <2>1 DEF Records, StoresTyped
  <2>4. o.cur.key \in inflight /\ ~deleted
    BY <1>4, <2>2 DEF Writing
  <2>5. StageMoves(r.id)
    BY <1>3, <2>2, <2>3, <2>4, EpisodeStage
  <2> QED
    BY <2>5 DEF FollowsLedger
<1>6. CASE InsertChunks(c)
  <2>1. o.pc = "chunk" /\ AddsChunk(o.target)
    BY <1>1, <1>6 DEF InsertChunks, AddsChunk
  <2>2. Stored(o.target) /\ ChunksOf(o.target) = {}
    BY <1>4, <2>1 DEF Writing
  <2> QED
    BY <1>3, <2>1, <2>2, ChunkStage DEF FollowsLedger
<1>7. CASE UpsertVectors(c)
  <2>1. /\ o.pc = "vector" /\ vectors' = Upserted(o.gone, o.target)
        /\ UNCHANGED <<documentVars, links, trail, orphans>>
    BY <1>1, <1>7 DEF UpsertVectors
  <2>2. /\ Stored(o.target) /\ IntentAt(o.target) = {}
        /\ o.gone = ChunksOf(o.target) /\ o.gone # {}
    BY <1>4, <2>1 DEF Writing
  <2>3. AddsPoints(o.target)
    BY <2>1, <2>2 DEF AddsPoints
  <2> QED
    BY <1>3, <2>2, <2>3, PointsStage DEF FollowsLedger
<1> QED
  BY <1>5, <1>6, <1>7

LEMMA UndoFollows ==
  ASSUME SourceInv, NEW c \in Clients, UndoEpisode(c) \/ UndoVectors(c)
  PROVE  FollowsLedger
<1>1. PICK o : o = op[c]
  OBVIOUS
<1>2. o.pc \in {"undoRow", "undoVectors"}
  BY <1>1 DEF UndoEpisode, UndoVectors
<1>3. StoresTyped /\ StoresAgree /\ o \in OpType /\ Knows(o)
  BY <1>1, <1>2, ClientInHand DEF CommitPcs, UndoPcs
<1>4. Undoing(o)
  BY <1>2, <1>3 DEF Knows, UndoPcs
<1>5. CASE UndoEpisode(c)
  <2>1. PICK id \in o.undo :
          /\ o.pc = "undoRow" /\ rows' = rows \ RowAt(id)
          /\ chunks' = {x \in chunks : x.id # id} /\ unbumped' = unbumped \cup {id}
          /\ UNCHANGED <<inflight, stones, intents, deleted, nextId, nextChunk, sideVars>>
    BY <1>1, <1>5 DEF UndoEpisode
  <2>2. Stored(id) /\ id \in Nat /\ ~deleted
    BY <1>3, <1>4, <2>1 DEF Undoing, OpType
  <2>3. Withdraws(id)
    BY <2>1, <2>2 DEF Withdraws, Stored
  <2> QED
    BY <1>3, <2>2, <2>3, WithdrawnStage DEF FollowsLedger
<1>6. CASE UndoVectors(c)
  <2>1. o.pc = "undoVectors" /\ DropsPoints(o.gone)
    BY <1>1, <1>6 DEF UndoVectors, DropsPoints
  <2>2. \A x \in chunks : x.chunk \notin o.gone
    BY <1>4, <2>1 DEF Undoing
  <2> QED
    BY <1>3, <2>1, <2>2, PointsGoneStage DEF FollowsLedger
<1> QED
  BY <1>5, <1>6

LEMMA RecordIntentFollows ==
  ASSUME SourceInv, NEW c \in Clients, RecordIntent(c) PROVE FollowsLedger
<1>1. PICK o, i : o = op[c] /\ i = op[c].target
  OBVIOUS
<1>2. /\ o.pc = "intent"
      /\ intents' = IF IntentAt(i) # {} THEN intents
                    ELSE intents \cup {[id |-> i, key |-> k, gone |-> o.gone] : k \in o.keys}
      /\ UNCHANGED <<rows, chunks, stones, deleted, vectors>>
  BY <1>1 DEF RecordIntent, sideVars
<1>3. c \in Actors
  BY DEF Actors
<1>4. StoresAgree /\ Forgetting(o)
  BY <1>1, <1>2, <1>3, ForgetInHand DEF ForgetPcs
<1>5. Stored(i) /\ o.keys # {}
  BY <1>1, <1>2, <1>4 DEF Forgetting
<1>6. ~Stoned(i) /\ ~deleted
  BY <1>4, <1>5, StoredIsFree
<1>7. CASE IntentAt(i) # {}
  <2>1. Still
    BY <1>2, <1>7 DEF Still
  <2> QED
    BY <2>1, StillStays DEF FollowsLedger
<1>8. CASE IntentAt(i) = {}
  <2>1. \A j : /\ (Stoned(j)' <=> Stoned(j)) /\ (Stored(j)' <=> Stored(j))
               /\ Complete(j)' <=> Complete(j)
    BY <1>2 DEF Stoned, Stored, RowAt, Complete, ChunksOf, VectorsOf
  <2>2. \A j : j # i => IntentAt(j)' = IntentAt(j)
    BY <1>2 DEF IntentAt
  <2>3. IntentAt(i)' # {}
    <3>1. PICK k \in o.keys : TRUE
      BY <1>5
    <3>2. [id |-> i, key |-> k, gone |-> o.gone] \in intents'
      BY <1>2, <1>8
    <3> QED
      BY <3>2 DEF IntentAt
  <2>4. Stage(i) \in {"partial", "present"}
    BY <1>5, <1>6, <1>8 DEF Stage, Stoned, Stored
  <2>5. Stage(i)' = "retiring"
    BY <2>3 DEF Stage
  <2>6. \A j : j # i => Stage(j)' = Stage(j)
    BY <2>1, <2>2, SameStage
  <2>7. StageMoves(i)
    BY <1>2, <1>6, <2>4, <2>5, <2>6, LedgerStages DEF StageMoves
  <2> QED
    BY <2>7 DEF FollowsLedger
<1> QED
  BY <1>7, <1>8

LEMMA ForgetFollows ==
  ASSUME SourceInv, NEW a \in Actors, FinishForget(a) PROVE FollowsLedger
<1>1. PICK o, i : o = op[a] /\ i = op[a].target
  OBVIOUS
<1>2. o.pc \in ForgetPcs /\ o.pc \notin {"revoke", "intent"}
  BY <1>1 DEF FinishForget, CheckIntent, DeleteRows, DeleteVectors, Unlink, RecordStone,
              Unmark, BumpAfterForget, AppendEvent, Acknowledge, ForgetPcs
<1>3. /\ StoresTyped /\ StoresAgree /\ Forgetting(o) /\ i \in Nat
      /\ IntentAt(i) # {} => ~deleted
  BY <1>1, <1>2, ForgetInHand
<1>4. IntentAt(i) # {} /\ ~deleted
  BY <1>1, <1>2, <1>3 DEF Forgetting
<1>5. CASE \/ CheckIntent(a) \/ Unlink(a) \/ Unmark(a) \/ BumpAfterForget(a) \/ AppendEvent(a)
  <2>1. Still
    BY <1>5 DEF CheckIntent, Unlink, Unmark, BumpAfterForget, AppendEvent, Still,
                StoresUnchanged, documentVars, sideVars
  <2> QED
    BY <2>1, StillStays DEF FollowsLedger
<1>6. CASE DeleteRows(a)
  <2>1. Withdraws(i)
    BY <1>1, <1>6 DEF DeleteRows, Withdraws
  <2> QED
    BY <1>3, <1>4, <2>1, WithdrawnStage DEF FollowsLedger
<1>7. CASE DeleteVectors(a)
  <2>1. o.pc = "points" /\ DropsPoints(o.gone)
    BY <1>1, <1>7 DEF DeleteVectors, DropsPoints
  <2>2. ChunksOf(i) = {} /\ Lists(o.gone, i)
    BY <1>1, <1>3, <2>1 DEF Forgetting
  <2>3. \A x \in chunks : x.chunk \notin o.gone
    BY <2>2 DEF Lists, ChunksOf
  <2> QED
    BY <1>3, <2>1, <2>3, PointsGoneStage DEF FollowsLedger
<1>8. CASE RecordStone(a)
  <2>1. /\ UNCHANGED <<rows, chunks, vectors, intents, deleted>>
        /\ stones \subseteq stones' /\ \A s \in stones' : s \in stones \/ s.id = i
    BY <1>1, <1>8 DEF RecordStone, sideVars
  <2>2. \A j : IntentAt(j)' = IntentAt(j)
    BY <2>1 DEF IntentAt
  <2>3. \A j : (Stored(j)' <=> Stored(j)) /\ (Complete(j)' <=> Complete(j))
    BY <2>1 DEF Stored, RowAt, Complete, ChunksOf, VectorsOf
  <2>4. \A j : j # i => (Stoned(j)' <=> Stoned(j))
    BY <2>1 DEF Stoned
  <2>5. Stage(i)' = Stage(i)
    BY <1>4, <2>2 DEF Stage
  <2>6. \A j : j # i => Stage(j)' = Stage(j)
    BY <2>2, <2>3, <2>4, SameStage
  <2> QED
    BY <2>1, <2>5, <2>6 DEF FollowsLedger, StagesStay
<1>9. CASE Acknowledge(a)
  <2>1. /\ o.pc = "ack" /\ intents' = intents \ IntentAt(i)
        /\ UNCHANGED <<rows, chunks, vectors, stones, deleted>>
    BY <1>1, <1>9 DEF Acknowledge, sideVars
  <2>2. Stoned(i)
    BY <1>1, <1>3, <2>1 DEF Forgetting
  <2>3. \A j : /\ (Stoned(j)' <=> Stoned(j)) /\ (Stored(j)' <=> Stored(j))
               /\ Complete(j)' <=> Complete(j)
    BY <2>1 DEF Stoned, Stored, RowAt, Complete, ChunksOf, VectorsOf
  <2>4. IntentAt(i)' = {} /\ \A j : j # i => IntentAt(j)' = IntentAt(j)
    BY <2>1 DEF IntentAt
  <2>5. Stage(i) = "retiring" /\ Stage(i)' = "forgotten"
    BY <1>4, <2>2, <2>3, <2>4 DEF Stage, Stoned
  <2>6. \A j : j # i => Stage(j)' = Stage(j)
    BY <2>3, <2>4, SameStage
  <2>7. StageMoves(i)
    BY <1>4, <2>1, <2>5, <2>6, LedgerStages DEF StageMoves
  <2> QED
    BY <2>7 DEF FollowsLedger
<1> QED
  BY <1>5, <1>6, <1>7, <1>8, <1>9 DEF FinishForget

LEMMA EraseFollows ==
  ASSUME SourceInv, NEW c \in Clients,
         ReleaseBlobs(c) \/ EraseDocuments(c) \/ SweepVectors(c) \/ PurgeEvents(c)
  PROVE  FollowsLedger
<1>1. PICK o : o = op[c]
  OBVIOUS
<1>2. o.pc \in ErasePcs
  BY <1>1 DEF ReleaseBlobs, EraseDocuments, SweepVectors, PurgeEvents, ErasePcs
<1>3. StoresAgree /\ Erasing(o)
  BY <1>1, <1>2, ClientInHand DEF CommitPcs, Knows
<1>4. CASE ReleaseBlobs(c) \/ PurgeEvents(c)
  <2>1. Still
    BY <1>4 DEF ReleaseBlobs, PurgeEvents, Still, documentVars
  <2> QED
    BY <2>1, StillStays DEF FollowsLedger
<1>5. CASE EraseDocuments(c)
  <2>1. /\ o.pc = "erase" /\ rows' = {} /\ stones' = {} /\ intents' = {} /\ deleted' = TRUE
    BY <1>1, <1>5 DEF EraseDocuments
  <2>2. ~deleted
    BY <1>3, <2>1 DEF Erasing
  <2>3. \A i : Stage(i)' = "none"
    BY <2>1 DEF Stage, IntentAt, RowAt
  <2> QED
    BY <2>1, <2>2, <2>3 DEF FollowsLedger, StagesEnd
<1>6. CASE SweepVectors(c)
  <2>1. o.pc = "sweep" /\ UNCHANGED <<rows, chunks, stones, intents, deleted>>
    BY <1>1, <1>6 DEF SweepVectors, documentVars
  <2>2. rows = {} /\ rows' = {}
    BY <1>3, <2>1 DEF Erasing, StoresAgree, DeletedStaysEmpty
  <2>3. \A i : (Stoned(i)' <=> Stoned(i)) /\ IntentAt(i)' = IntentAt(i) /\ ~Stored(i) /\ ~Stored(i)'
    BY <2>1, <2>2 DEF Stoned, IntentAt, Stored, RowAt
  <2>4. \A i : Stage(i)' = Stage(i)
    BY <2>3, SameStage
  <2> QED
    BY <2>1, <2>4 DEF FollowsLedger, StagesStay
<1> QED
  BY <1>4, <1>5, <1>6

LEMMA RecoveryFollows ==
  ASSUME SourceInv, RecoveryStep(Recovery) PROVE FollowsLedger
<1>1. PICK o, i : o = op[Recovery] /\ i = op[Recovery].target
  OBVIOUS
<1>2. CASE \/ Recover(Recovery) \/ RetireNext(Recovery) \/ Backlog(Recovery)
           \/ StartRepair(Recovery) \/ RepairMark(Recovery) \/ SettleMark(Recovery)
           \/ Recovered(Recovery)
  <2>1. Still
    BY <1>2 DEF Recover, RetireNext, Backlog, StartRepair, RepairMark, SettleMark,
                Recovered, Still, StoresUnchanged, documentVars, sideVars
  <2> QED
    BY <2>1, StillStays DEF FollowsLedger
<1>3. CASE Rechunk(Recovery)
  <2>1. o.pc = "rechunk" /\ AddsChunk(i)
    BY <1>1, <1>3 DEF Rechunk, AddsChunk
  <2>2. StoresTyped /\ StoresAgree /\ Repairing(o) /\ i \in Nat
    BY <1>1, <2>1, RepairInHand DEF RepairPcs
  <2>3. Stored(i) /\ ChunksOf(i) = {}
    BY <1>1, <2>1, <2>2 DEF Repairing
  <2> QED
    BY <2>1, <2>2, <2>3, ChunkStage DEF FollowsLedger
<1>4. CASE Revector(Recovery)
  <2>1. /\ o.pc = "revector" /\ vectors' = Upserted(o.gone, i)
        /\ UNCHANGED <<documentVars, links, trail, orphans>>
    BY <1>1, <1>4 DEF Revector
  <2>2. StoresTyped /\ StoresAgree /\ Repairing(o) /\ i \in Nat
    BY <1>1, <2>1, RepairInHand DEF RepairPcs
  <2>3. Stored(i) /\ ChunksOf(i) = o.gone /\ o.gone # {} /\ intents = {}
    BY <1>1, <2>1, <2>2 DEF Repairing
  <2>4. IntentAt(i) = {} /\ AddsPoints(i)
    BY <2>1, <2>3 DEF IntentAt, AddsPoints
  <2> QED
    BY <2>2, <2>3, <2>4, PointsStage DEF FollowsLedger
<1> QED
  BY <1>2, <1>3, <1>4 DEF RecoveryStep

LEMMA ClientFollows ==
  ASSUME SourceInv, NEW c \in Clients, ClientStep(c) \/ Cancel(c) PROVE FollowsLedger
<1>1. CASE \/ \E b \in Batches, attach \in BOOLEAN : Remember(c, b, attach)
           \/ \E r \in Records, attach \in BOOLEAN : Replace(c, r, attach)
           \/ \E i \in 1..MaxSources : ForgetSource(c, i)
           \/ DeleteSpace(c) \/ Embedded(c) \/ Prepared(c) \/ Revoke(c) \/ Cancel(c)
  <2>1. Still
    BY <1>1 DEF Remember, Replace, ForgetSource, DeleteSpace, Embedded, Prepared, Revoke,
                Cancel, Still, StoresUnchanged, documentVars, sideVars
  <2> QED
    BY <2>1, StillStays DEF FollowsLedger
<1>2. CASE \/ Mark(c) \/ EpisodeConflict(c) \/ ClearMark(c) \/ BumpAfterWrite(c)
           \/ Link(c) \/ UndoMark(c)
  <2>1. Still
    BY <1>2 DEF Mark, EpisodeConflict, ClearMark, BumpAfterWrite, Link, UndoMark,
                Still, StoresUnchanged, documentVars, sideVars
  <2> QED
    BY <2>1, StillStays DEF FollowsLedger
<1>3. CASE \/ InsertEpisode(c) \/ InsertChunks(c) \/ UpsertVectors(c)
           \/ UndoEpisode(c) \/ UndoVectors(c) \/ RecordIntent(c)
  BY <1>3, WriteFollows, UndoFollows, RecordIntentFollows
<1>4. CASE ReleaseBlobs(c) \/ EraseDocuments(c) \/ SweepVectors(c) \/ PurgeEvents(c)
  BY <1>4, EraseFollows
<1> QED
  BY <1>1, <1>2, <1>3, <1>4 DEF ClientStep

\* The stores, written one call at a time by tasks that fail anywhere, are seen
\* together to take each source through the life SourceLedger promises.
THEOREM LedgerKept == WholeCalls => (Spec => LedgerSpec)
<1> SUFFICES ASSUME WholeCalls PROVE Spec => LedgerSpec
  OBVIOUS
<1>1. Init => Ledger!Init
  BY DEF Init, Ledger!Init, Stage, IntentAt, RowAt
<1>2. ASSUME SourceInv, [Next]_vars PROVE [Ledger!Next]_(Ledger!ledgerVars)
  <2>1. FollowsLedger
    <3>1. CASE (\E a \in Actors : Refuse(a)) \/ Crash \/ UNCHANGED vars
      <4>1. Still
        BY <3>1 DEF Refuse, Crash, vars, Still, StoresUnchanged, documentVars, sideVars
      <4> QED
        BY <4>1, StillStays DEF FollowsLedger
    <3> QED
      BY <1>2, <3>1, ClientFollows, ForgetFollows, RecoveryFollows DEF Next
  <2>2. deleted \in BOOLEAN
    BY <1>2 DEF SourceInv, StoresTyped
  <2> QED
    BY <2>1, <2>2, LedgerMoves
<1>3. SourceInv /\ [Next]_vars => [Ledger!Next]_(Ledger!ledgerVars)
  BY <1>2
<1> QED
  BY <1>1, <1>3, SourceInvariance, PTL DEF Spec, LedgerSpec, Ledger!Spec

-----------------------------------------------------------------------------
(* replace against a forget of the same key: for callers that serialise at   *)
(* least their commit phases.                                                *)

OneCommits ==
  \A a, b \in Actors : a = b \/ op[a].pc \notin CommitPcs \/ op[b].pc \notin CommitPcs

\* A step of one task; whoever turns to its commit phase found no other in it.
MovesOne(a) ==
  /\ \A b \in Actors \ {a} : op'[b] = op[b]
  /\ op'[a].pc \in CommitPcs => op[a].pc \in CommitPcs \/ MayCommit(a)

LEMMA OneStays ==
  ASSUME Exclusion = "commit", OneCommits, NEW a \in Actors, MovesOne(a)
  PROVE  OneCommits'
<1> SUFFICES ASSUME NEW x \in Actors, NEW y \in Actors, x # y,
                    op'[x].pc \in CommitPcs, op'[y].pc \in CommitPcs
             PROVE  FALSE
  BY DEF OneCommits
<1>1. CASE a \notin {x, y}
  BY <1>1 DEF OneCommits, MovesOne
<1>2. ASSUME NEW z \in Actors, z # a, op'[z].pc \in CommitPcs, op'[a].pc \in CommitPcs
      PROVE  FALSE
  <2>1. op[z].pc \in CommitPcs
    BY <1>2 DEF MovesOne
  <2>2. CASE op[a].pc \in CommitPcs
    BY <1>2, <2>1, <2>2 DEF OneCommits
  <2>3. CASE MayCommit(a)
    BY <1>2, <2>1, <2>3 DEF MayCommit
  <2> QED
    BY <1>2, <2>2, <2>3 DEF MovesOne
<1> QED
  BY <1>1, <1>2

LEMMA MovesOneBy ==
  ASSUME TasksTyped, NEW a \in Actors, op[a].pc \in CommitPcs \/ MayCommit(a),
         \/ \E next : Goto(a, next)
         \/ \E next : Answer(a, next)
         \/ Raise(a)
  PROVE  MovesOne(a)
BY DEF MovesOne, Goto, Answer, Raise, TasksTyped

LEMMA MovesOneTo ==
  ASSUME TasksTyped, NEW a \in Actors, NEW next, next.pc \notin CommitPcs,
         op' = [op EXCEPT ![a] = next]
  PROVE  MovesOne(a)
BY DEF MovesOne, TasksTyped

LEMMA OutsideCommit == \A p \in {"idle", "failed", "prepare"} : p \notin CommitPcs
BY DEF CommitPcs, WritePcs, UndoPcs, ForgetPcs, ErasePcs, RepairPcs

LEMMA ClientMovesOne ==
  ASSUME TasksTyped, NEW c \in Clients, ClientStep(c)
  PROVE  MovesOne(c)
<1>1. c \in Actors
  BY DEF Actors
<1>2. ASSUME NEW b \in Batches, NEW attach \in BOOLEAN, Remember(c, b, attach)
      PROVE  MovesOne(c)
  <2>1. CASE MayCommit(c)
    BY <1>1, <1>2, <2>1, MovesOneBy DEF Remember
  <2>2. CASE ~MayCommit(c)
    <3>1. PICK fresh : fresh = {r \in b : RowsOf(r.key) = {}}
      OBVIOUS
    <3>2. PICK keys : keys = {r.key : r \in fresh}
      OBVIOUS
    <3>3. PICK next : next = [Idle EXCEPT !.pc = "prepare", !.call = "remember",
                                !.todo = fresh, !.attach = attach, !.keys = keys]
      OBVIOUS
    <3>4. op' = [op EXCEPT ![c] = next]
      BY <1>2, <2>2, <3>1, <3>2, <3>3 DEF Remember, Goto
    <3>5. next.pc = "prepare"
      BY <3>3 DEF Idle
    <3> QED
      BY <1>1, <3>4, <3>5, MovesOneTo, OutsideCommit
  <2> QED
    BY <2>1, <2>2
<1>3. ASSUME NEW r \in Records, NEW attach \in BOOLEAN, Replace(c, r, attach)
      PROVE  MovesOne(c)
  <2>1. CASE MayCommit(c)
    BY <1>1, <1>3, <2>1, MovesOneBy DEF Replace
  <2>2. CASE ~MayCommit(c)
    <3>1. PICK seen, stoned : seen = EpisodeByHash(r.key) /\ stoned = StoneByHash(r.key)
      OBVIOUS
    <3>2. PICK next : next = [Idle EXCEPT !.pc = "prepare", !.call = "replace", !.cur = r,
                                !.keys = {r.key}, !.attach = attach,
                                !.seenRows = seen, !.seenStones = stoned]
      OBVIOUS
    <3>3. op' = [op EXCEPT ![c] = next]
      BY <1>3, <2>2, <3>1, <3>2 DEF Replace, Goto
    <3>4. next.pc = "prepare"
      BY <3>2 DEF Idle
    <3> QED
      BY <1>1, <3>3, <3>4, MovesOneTo, OutsideCommit
  <2> QED
    BY <2>1, <2>2
<1>4. CASE (\E i \in 1..MaxSources : ForgetSource(c, i)) \/ DeleteSpace(c)
  BY <1>1, <1>4, MovesOneBy DEF ForgetSource, DeleteSpace
<1>5. CASE Embedded(c) \/ Prepared(c)
  BY <1>1, <1>5, MovesOneBy DEF Embedded, Prepared
<1>6. CASE \/ Mark(c) \/ InsertEpisode(c) \/ EpisodeConflict(c) \/ InsertChunks(c)
           \/ UpsertVectors(c) \/ ClearMark(c) \/ BumpAfterWrite(c) \/ Link(c)
  <2>1. op[c].pc \in CommitPcs
    BY <1>6 DEF Mark, InsertEpisode, EpisodeConflict, InsertChunks, UpsertVectors,
                ClearMark, BumpAfterWrite, Link, CommitPcs, WritePcs
  <2> QED
    BY <1>1, <1>6, <2>1, MovesOneBy DEF Mark, InsertEpisode, EpisodeConflict, InsertChunks,
       UpsertVectors, ClearMark, BumpAfterWrite, Link
<1>7. CASE UndoEpisode(c) \/ UndoVectors(c) \/ UndoMark(c) \/ Revoke(c) \/ RecordIntent(c)
  <2>1. op[c].pc \in CommitPcs
    BY <1>7 DEF UndoEpisode, UndoVectors, UndoMark, Revoke, RecordIntent,
                CommitPcs, UndoPcs, ForgetPcs
  <2> QED
    BY <1>1, <1>7, <2>1, MovesOneBy DEF UndoEpisode, UndoVectors, UndoMark, Revoke,
       RecordIntent
<1>8. CASE ReleaseBlobs(c) \/ EraseDocuments(c) \/ SweepVectors(c) \/ PurgeEvents(c)
  <2>1. op[c].pc \in CommitPcs
    BY <1>8 DEF ReleaseBlobs, EraseDocuments, SweepVectors, PurgeEvents, CommitPcs, ErasePcs
  <2> QED
    BY <1>1, <1>8, <2>1, MovesOneBy DEF ReleaseBlobs, EraseDocuments, SweepVectors,
       PurgeEvents
<1> QED
  BY <1>2, <1>3, <1>4, <1>5, <1>6, <1>7, <1>8 DEF ClientStep

LEMMA ForgetMovesOne ==
  ASSUME TasksTyped, NEW a \in Actors, FinishForget(a)
  PROVE  MovesOne(a) /\ op[a].pc \in CommitPcs
<1>1. op[a].pc \in CommitPcs
  BY DEF FinishForget, CheckIntent, DeleteRows, DeleteVectors, Unlink, RecordStone, Unmark,
         BumpAfterForget, AppendEvent, Acknowledge, CommitPcs, ForgetPcs
<1>2. CASE CheckIntent(a)
  BY <1>1, <1>2, MovesOneBy DEF CheckIntent
<1>3. CASE DeleteRows(a) \/ DeleteVectors(a) \/ Unlink(a) \/ RecordStone(a)
  BY <1>1, <1>3, MovesOneBy DEF DeleteRows, DeleteVectors, Unlink, RecordStone
<1>4. CASE Unmark(a) \/ BumpAfterForget(a) \/ AppendEvent(a) \/ Acknowledge(a)
  BY <1>1, <1>4, MovesOneBy DEF Unmark, BumpAfterForget, AppendEvent, Acknowledge
<1> QED
  BY <1>1, <1>2, <1>3, <1>4 DEF FinishForget

LEMMA RecoveryMovesOne ==
  ASSUME TasksTyped, RecoveryStep(Recovery) PROVE MovesOne(Recovery)
<1>1. Recovery \in Actors
  BY DEF Actors
<1>2. CASE Recover(Recovery)
  <2>1. MayCommit(Recovery) /\ \A b \in Actors \ {Recovery} : op'[b] = op[b]
    BY <1>2 DEF Recover, TasksTyped
  <2> QED
    BY <2>1 DEF MovesOne
<1>3. CASE Backlog(Recovery) \/ Recovered(Recovery)
  <2>1. PICK next : next = Idle
    OBVIOUS
  <2>2. op' = [op EXCEPT ![Recovery] = next] /\ next.pc = "idle"
    BY <1>3, <2>1 DEF Backlog, Recovered, Idle
  <2> QED
    BY <1>1, <2>2, MovesOneTo, OutsideCommit
<1>4. CASE RetireNext(Recovery) \/ StartRepair(Recovery) \/ RepairMark(Recovery)
  <2>1. op[Recovery].pc \in CommitPcs
    BY <1>4 DEF RetireNext, StartRepair, RepairMark, CommitPcs, RepairPcs
  <2> QED
    BY <1>1, <1>4, <2>1, MovesOneBy DEF RetireNext, StartRepair, RepairMark
<1>5. CASE Rechunk(Recovery) \/ Revector(Recovery) \/ SettleMark(Recovery)
  <2>1. op[Recovery].pc \in CommitPcs
    BY <1>5 DEF Rechunk, Revector, SettleMark, CommitPcs, RepairPcs
  <2> QED
    BY <1>1, <1>5, <2>1, MovesOneBy DEF Rechunk, Revector, SettleMark
<1> QED
  BY <1>2, <1>3, <1>4, <1>5 DEF RecoveryStep

LEMMA OneCommitsAlways == Exclusion # "none" => (Spec => []OneCommits)
<1>1. CASE Exclusion = "commit"
  <2>1. Init => OneCommits
    <3> SUFFICES ASSUME Init PROVE OneCommits
      OBVIOUS
    <3>1. \A a \in Actors : op[a].pc = "idle"
      BY DEF Init, Idle
    <3> QED
      BY <3>1, OutsideCommit DEF OneCommits
  <2>2. ASSUME TasksTyped, OneCommits, [Next]_vars PROVE OneCommits'
    <3>1. ASSUME NEW c \in Clients, ClientStep(c) PROVE OneCommits'
      BY <1>1, <2>2, <3>1, ClientMovesOne, OneStays DEF Actors
    <3>2. ASSUME NEW a \in Actors, FinishForget(a) PROVE OneCommits'
      BY <1>1, <2>2, <3>2, ForgetMovesOne, OneStays
    <3>3. CASE RecoveryStep(Recovery)
      BY <1>1, <2>2, <3>3, RecoveryMovesOne, OneStays DEF Actors
    <3>4. ASSUME NEW c \in Clients, Cancel(c) PROVE OneCommits'
      <4>1. PICK next : next = Idle
        OBVIOUS
      <4>2. c \in Actors /\ op' = [op EXCEPT ![c] = next] /\ next.pc = "idle"
        BY <3>4, <4>1 DEF Cancel, Idle, Actors
      <4> QED
        BY <1>1, <2>2, <4>2, MovesOneTo, OneStays, OutsideCommit
    <3>5. ASSUME NEW a \in Actors, Refuse(a) PROVE OneCommits'
      <4>1. Raise(a) /\ ~Quiet(a) /\ op[a] \in OpType
        BY <2>2, <3>5 DEF Refuse, TasksTyped, Held
      <4>2. CASE op[a].pc \in CommitPcs
        BY <1>1, <2>2, <4>1, <4>2, MovesOneBy, OneStays
      <4>3. CASE op[a].pc \notin CommitPcs
        <5>1. PICK next : next = Raised(a)
          OBVIOUS
        <5>2. op' = [op EXCEPT ![a] = next]
          BY <4>1, <5>1 DEF Raise
        <5>3. op[a].pc \notin WritePcs
          BY <4>3 DEF CommitPcs
        <5>4. next.pc \in {"idle", "failed"}
          BY <5>1, <5>3 DEF Raised, Failed, Idle
        <5> QED
          BY <1>1, <2>2, <5>2, <5>4, MovesOneTo, OneStays, OutsideCommit
      <4> QED
        BY <4>2, <4>3
    <3>6. CASE Crash
      <4>1. \A a \in Actors : op'[a].pc = "idle"
        BY <3>6 DEF Crash, Idle
      <4> QED
        BY <4>1, OutsideCommit DEF OneCommits
    <3>7. CASE UNCHANGED vars
      BY <2>2, <3>7 DEF OneCommits, vars
    <3> QED
      BY <2>2, <3>1, <3>2, <3>3, <3>4, <3>5, <3>6, <3>7 DEF Next
  <2>3. StoresTyped /\ TasksTyped /\ OneCommits /\ [Next]_vars =>
          (StoresTyped /\ TasksTyped /\ OneCommits)'
    BY <2>2, StepType
  <2> QED
    BY <2>1, <2>3, InitType, PTL DEF Spec
<1>2. CASE Exclusion = "call"
  <2>1. SourceInv => OneCommits
    BY OutsideCommit DEF SourceInv, Alone, Quiet, OneCommits
  <2> QED
    BY <1>2, <2>1, SourceInvariance, PTL DEF WholeCalls
<1> QED
  BY <1>1, <1>2, ConstantsAssumption

\* Of the tombstones of the key a replace is after, the latest is one it saw, or
\* that of the source it replaces.
SeenBefore(o) ==
  o.call = "replace" =>
    /\ o.pc \in WritePcs \cup ForgetPcs \cup {"prepare"} => o.todo = {}
    /\ o.pc \in ForgetPcs => o.target \in o.seenRows
    /\ o.pc \in WritePcs \cup ForgetPcs =>
         \A s \in StoneByHash(o.cur.key) : s \in o.seenStones \/ s.id \in o.seenRows

AllSeen == \A a \in Actors : SeenBefore(op[a])

\* It is about a replace from its preparation to its last write.
Watches(p) == p \in WritePcs \cup ForgetPcs \cup {"prepare"}

LEMMA Unwatched ==
  ASSUME NEW o, o.call # "replace" \/ ~Watches(o.pc) PROVE SeenBefore(o)'
BY DEF SeenBefore, Watches

LEMMA WatchNames ==
  /\ \A p \in {"idle", "failed", "undoRow", "undoMarks", "undoVectors", "bump", "link",
               "release", "erase", "sweep", "purge"} : ~Watches(p)
  /\ \A p \in WritePcs \cup ForgetPcs : Watches(p)
BY DEF Watches, WritePcs, ForgetPcs

LEMMA SeenKeeps ==
  ASSUME NEW o, NEW next, SeenBefore(o), stones' = stones,
         o.pc \in WritePcs \cup ForgetPcs, next.call = o.call, next.cur = o.cur,
         next.todo = o.todo, next.seenRows = o.seenRows, next.seenStones = o.seenStones,
         next.pc \in ForgetPcs => o.pc \in ForgetPcs /\ next.target = o.target
  PROVE  SeenBefore(next)'
<1>1. \A k : StoneByHash(k)' = StoneByHash(k)
  BY DEF StoneByHash
<1> QED
  BY <1>1 DEF SeenBefore

LEMMA SeenMoves ==
  ASSUME TasksTyped, AllSeen, stones' = stones, NEW a \in Actors, NEW next,
         op' = [op EXCEPT ![a] = next], SeenBefore(next)'
  PROVE  AllSeen'
<1>1. \A k : StoneByHash(k)' = StoneByHash(k)
  BY DEF StoneByHash
<1>2. op'[a] = next /\ \A b \in Actors : b # a => op'[b] = op[b]
  BY DEF TasksTyped
<1> SUFFICES ASSUME NEW b \in Actors PROVE SeenBefore(op[b])'
  BY DEF AllSeen
<1>3. CASE b = a
  BY <1>2, <1>3
<1>4. CASE b # a
  <2>1. PICK o : o = op[b] /\ o = op'[b]
    BY <1>2, <1>4
  <2>2. SeenBefore(o)
    BY <2>1 DEF AllSeen
  <2>3. SeenBefore(o)'
    BY <1>1, <2>2 DEF SeenBefore
  <2> QED
    BY <2>1, <2>3
<1> QED
  BY <1>3, <1>4

\* A call that raises stops being watched.
LEMMA RaisedUnwatched ==
  ASSUME TasksTyped, NEW a \in Actors, NEW next, next = Raised(a) PROVE SeenBefore(next)'
<1>1. op[a] \in OpType
  BY DEF TasksTyped, Held
<1>2. CASE a # Recovery /\ op[a].pc \in WritePcs
  <2>1. PICK o : o = op[a]
    OBVIOUS
  <2>2. next = [o EXCEPT !.undo = o.made,
                         !.pc = IF o.made = {} THEN "undoMarks" ELSE "undoRow"]
    BY <1>2, <2>1 DEF Raised
  <2>3. next.pc \in {"undoRow", "undoMarks"}
    BY <1>1, <2>1, <2>2 DEF OpType
  <2> QED
    BY <2>3, Unwatched, WatchNames
<1>3. CASE ~(a # Recovery /\ op[a].pc \in WritePcs)
  <2>1. next.pc \in {"idle", "failed"}
    BY <1>3 DEF Raised, Failed, Idle
  <2> QED
    BY <2>1, Unwatched, WatchNames
<1> QED
  BY <1>2, <1>3

LEMMA SeenRaises ==
  ASSUME TasksTyped, AllSeen, stones' = stones, NEW a \in Actors, Raise(a) PROVE AllSeen'
<1>1. PICK next : next = Raised(a)
  OBVIOUS
<1>2. op' = [op EXCEPT ![a] = next]
  BY <1>1 DEF Raise
<1> QED
  BY <1>1, <1>2, RaisedUnwatched, SeenMoves

LEMMA SeenAnswers ==
  ASSUME TasksTyped, AllSeen, stones' = stones, NEW a \in Actors, NEW next,
         Answer(a, next) \/ Goto(a, next), SeenBefore(next)'
  PROVE  AllSeen'
BY SeenMoves, SeenRaises DEF Answer, Goto

\* A step within the watched part that keeps what the replace remembers.
LEMMA SeenGoesOn ==
  ASSUME TasksTyped, AllSeen, stones' = stones, NEW a \in Actors,
         op[a].pc \in WritePcs \cup ForgetPcs, NEW next, Answer(a, next) \/ Goto(a, next),
         next.call = op[a].call, next.cur = op[a].cur, next.todo = op[a].todo,
         next.seenRows = op[a].seenRows, next.seenStones = op[a].seenStones,
         next.pc \in ForgetPcs => op[a].pc \in ForgetPcs /\ next.target = op[a].target
  PROVE  AllSeen'
<1>1. PICK o : o = op[a]
  OBVIOUS
<1>2. SeenBefore(o)
  BY <1>1 DEF AllSeen
<1>3. SeenBefore(next)'
  BY <1>1, <1>2, SeenKeeps
<1> QED
  BY <1>3, SeenAnswers

LEMMA SeenEnds ==
  ASSUME TasksTyped, AllSeen, stones' = stones, NEW a \in Actors, NEW next,
         Answer(a, next) \/ Goto(a, next), next.call # "replace" \/ ~Watches(next.pc)
  PROVE  AllSeen'
BY SeenAnswers, Unwatched

LEMMA BeginsSeen ==
  ASSUME TasksTyped, AllSeen, NEW c \in Clients,
         \/ \E b \in Batches, attach \in BOOLEAN : Remember(c, b, attach)
         \/ \E r \in Records, attach \in BOOLEAN : Replace(c, r, attach)
         \/ \E i \in 1..MaxSources : ForgetSource(c, i)
         \/ DeleteSpace(c)
  PROVE  AllSeen'
<1>1. c \in Actors
  BY DEF Actors
<1>2. stones' = stones
  BY DEF Remember, Replace, ForgetSource, DeleteSpace, StoresUnchanged, documentVars
<1>3. ASSUME NEW next, Goto(c, next), next.call # "replace" \/ ~Watches(next.pc) PROVE AllSeen'
  BY <1>1, <1>2, <1>3, SeenEnds
<1>4. ASSUME NEW b \in Batches, NEW attach \in BOOLEAN, Remember(c, b, attach)
      PROVE  AllSeen'
  <2>1. PICK fresh : fresh = {r \in b : RowsOf(r.key) = {}}
    OBVIOUS
  <2>2. PICK keys : keys = {r.key : r \in fresh}
    OBVIOUS
  <2>3. \/ Goto(c, [Idle EXCEPT !.pc = "prepare", !.call = "remember", !.todo = fresh,
                                !.attach = attach, !.keys = keys])
        \/ \E r \in b : \E id \in EpisodeByHash(r.key) :
             Goto(c, [Idle EXCEPT !.pc = "link", !.call = "remember", !.target = id])
    BY <1>4, <2>1, <2>2 DEF Remember
  <2>4. CASE Goto(c, [Idle EXCEPT !.pc = "prepare", !.call = "remember", !.todo = fresh,
                                  !.attach = attach, !.keys = keys])
    <3>1. PICK next : next = [Idle EXCEPT !.pc = "prepare", !.call = "remember",
                                !.todo = fresh, !.attach = attach, !.keys = keys]
      OBVIOUS
    <3>2. next.call = "remember"
      BY <3>1 DEF Idle
    <3> QED
      BY <1>3, <2>4, <3>1, <3>2
  <2>5. ASSUME NEW id, Goto(c, [Idle EXCEPT !.pc = "link", !.call = "remember", !.target = id])
        PROVE  AllSeen'
    <3>1. PICK next : next = [Idle EXCEPT !.pc = "link", !.call = "remember", !.target = id]
      OBVIOUS
    <3>2. next.call = "remember"
      BY <3>1 DEF Idle
    <3> QED
      BY <1>3, <2>5, <3>1, <3>2
  <2> QED
    BY <2>3, <2>4, <2>5
<1>5. ASSUME NEW r \in Records, NEW attach \in BOOLEAN, Replace(c, r, attach)
      PROVE  AllSeen'
  <2>1. PICK seen, stoned : seen = EpisodeByHash(r.key) /\ stoned = StoneByHash(r.key)
    OBVIOUS
  <2>2. \/ Goto(c, [Idle EXCEPT !.pc = "prepare", !.call = "replace", !.cur = r,
                                !.keys = {r.key}, !.attach = attach,
                                !.seenRows = seen, !.seenStones = stoned])
        \/ \E id \in EpisodeByHash(r.key) :
             Goto(c, [Idle EXCEPT !.pc = "link", !.call = "replace", !.target = id])
    BY <1>5, <2>1 DEF Replace
  <2>3. CASE Goto(c, [Idle EXCEPT !.pc = "prepare", !.call = "replace", !.cur = r,
                                  !.keys = {r.key}, !.attach = attach,
                                  !.seenRows = seen, !.seenStones = stoned])
    <3>1. PICK next : next = [Idle EXCEPT !.pc = "prepare", !.call = "replace", !.cur = r,
                                !.keys = {r.key}, !.attach = attach,
                                !.seenRows = seen, !.seenStones = stoned]
      OBVIOUS
    <3>2. next.pc = "prepare" /\ next.todo = {}
      BY <3>1 DEF Idle
    <3>3. SeenBefore(next)'
      BY <3>2 DEF SeenBefore, WritePcs, ForgetPcs
    <3> QED
      BY <1>1, <1>2, <2>3, <3>1, <3>3, SeenAnswers
  <2>4. ASSUME NEW id, Goto(c, [Idle EXCEPT !.pc = "link", !.call = "replace", !.target = id])
        PROVE  AllSeen'
    <3>1. PICK next : next = [Idle EXCEPT !.pc = "link", !.call = "replace", !.target = id]
      OBVIOUS
    <3>2. next.pc = "link"
      BY <3>1 DEF Idle
    <3> QED
      BY <1>3, <2>4, <3>1, <3>2, WatchNames
  <2> QED
    BY <2>2, <2>3, <2>4
<1>6. ASSUME NEW i \in 1..MaxSources, ForgetSource(c, i) PROVE AllSeen'
  <2>1. PICK next : next = [Idle EXCEPT !.pc = "revoke", !.call = "forget", !.target = i]
    OBVIOUS
  <2>2. Goto(c, next) /\ next.call = "forget"
    BY <1>6, <2>1 DEF ForgetSource, Idle
  <2> QED
    BY <1>3, <2>2
<1>7. CASE DeleteSpace(c)
  <2>1. PICK next : next = [Idle EXCEPT !.pc = "release", !.call = "delete"]
    OBVIOUS
  <2>2. Goto(c, next) /\ next.call = "delete"
    BY <1>7, <2>1 DEF DeleteSpace, Idle
  <2> QED
    BY <1>3, <2>2
<1> QED
  BY <1>4, <1>5, <1>6, <1>7

LEMMA PreparedSeen ==
  ASSUME TasksTyped, AllSeen, NEW c \in Clients, Embedded(c) \/ Prepared(c) PROVE AllSeen'
<1>1. PICK o : o = op[c]
  OBVIOUS
<1>2. c \in Actors /\ o \in OpType /\ SeenBefore(o) /\ o.pc = "prepare" /\ stones' = stones
  BY <1>1 DEF Actors, TasksTyped, Held, AllSeen, Embedded, Prepared, StoresUnchanged,
              documentVars
<1>3. CASE Embedded(c)
  <2>1. PICK r \in o.todo : Goto(c, [o EXCEPT !.pc = "mark", !.cur = r, !.todo = @ \ {r}])
    BY <1>1, <1>3 DEF Embedded
  <2>2. PICK next : next = [o EXCEPT !.pc = "mark", !.cur = r, !.todo = @ \ {r}]
    OBVIOUS
  <2>3. next.call = "remember"
    BY <1>1, <1>2, <1>3, <2>2 DEF OpType, Embedded
  <2> QED
    BY <1>2, <2>1, <2>2, <2>3, SeenEnds
<1>4. ASSUME o.call = "replace", Unchanged(o), o.seenRows = {},
             Goto(c, [o EXCEPT !.pc = "mark"])
      PROVE  AllSeen'
  <2>1. PICK next : next = [o EXCEPT !.pc = "mark"]
    OBVIOUS
  <2>2. /\ next.pc = "mark" /\ next.call = o.call /\ next.cur = o.cur /\ next.todo = o.todo
        /\ next.seenRows = o.seenRows /\ next.seenStones = o.seenStones
    BY <1>2, <2>1 DEF OpType
  <2>3. StoneByHash(o.cur.key)' = o.seenStones
    BY <1>2, <1>4 DEF Unchanged, StoneByHash
  <2>4. SeenBefore(next)'
    BY <1>2, <1>4, <2>2, <2>3 DEF SeenBefore, ForgetPcs
  <2> QED
    BY <1>2, <1>4, <2>1, <2>4, SeenAnswers
<1>5. ASSUME o.call = "replace", Unchanged(o), NEW id \in o.seenRows,
             Goto(c, [o EXCEPT !.pc = "revoke", !.target = id])
      PROVE  AllSeen'
  <2>1. PICK next : next = [o EXCEPT !.pc = "revoke", !.target = id]
    OBVIOUS
  <2>2. /\ next.pc = "revoke" /\ next.call = o.call /\ next.cur = o.cur /\ next.todo = o.todo
        /\ next.seenRows = o.seenRows /\ next.seenStones = o.seenStones /\ next.target = id
    BY <1>2, <2>1 DEF OpType
  <2>3. StoneByHash(o.cur.key)' = o.seenStones
    BY <1>2, <1>5 DEF Unchanged, StoneByHash
  <2>4. SeenBefore(next)'
    BY <1>2, <1>5, <2>2, <2>3 DEF SeenBefore
  <2> QED
    BY <1>2, <1>5, <2>1, <2>4, SeenAnswers
<1>6. CASE Goto(c, Failed(o))
  <2>1. PICK next : next = Failed(o)
    OBVIOUS
  <2>2. next.pc = "failed"
    BY <2>1 DEF Failed, Idle
  <2> QED
    BY <1>2, <1>6, <2>1, <2>2, SeenEnds, WatchNames
<1> QED
  BY <1>1, <1>3, <1>4, <1>5, <1>6 DEF Prepared

LEMMA WriteSeen ==
  ASSUME TasksTyped, AllSeen, NEW c \in Clients,
         \/ Mark(c) \/ InsertEpisode(c) \/ EpisodeConflict(c) \/ InsertChunks(c)
         \/ UpsertVectors(c) \/ ClearMark(c) \/ BumpAfterWrite(c) \/ Link(c)
  PROVE  AllSeen'
<1>1. PICK o, i, n : o = op[c] /\ i = nextId /\ n = nextChunk
  OBVIOUS
<1>2. c \in Actors /\ o \in OpType /\ SeenBefore(o) /\ stones' = stones
  BY <1>1 DEF Actors, TasksTyped, Held, AllSeen, Mark, InsertEpisode, EpisodeConflict,
       InsertChunks, UpsertVectors, ClearMark, BumpAfterWrite, Link, StoresUnchanged,
       documentVars
\* A step to the next write of the same record.
<1>3. ASSUME o.pc \in WritePcs, NEW next, Answer(c, next) \/ Goto(c, next),
             next.pc \notin ForgetPcs, next.call = o.call, next.cur = o.cur,
             next.todo = o.todo, next.seenRows = o.seenRows, next.seenStones = o.seenStones
      PROVE  AllSeen'
  BY <1>1, <1>2, <1>3, SeenGoesOn
<1>4. CASE Mark(c)
  <2>1. PICK next : next = [o EXCEPT !.pc = "row"]
    OBVIOUS
  <2>2. o.pc = "mark" /\ Answer(c, next)
    BY <1>1, <1>4, <2>1 DEF Mark
  <2>3. /\ next.pc = "row" /\ next.call = o.call /\ next.cur = o.cur /\ next.todo = o.todo
        /\ next.seenRows = o.seenRows /\ next.seenStones = o.seenStones
    BY <1>2, <2>1 DEF OpType
  <2> QED
    BY <1>3, <2>2, <2>3 DEF WritePcs, ForgetPcs
<1>5. CASE InsertEpisode(c)
  <2>1. PICK next : next = [o EXCEPT !.pc = "chunk", !.target = i, !.made = @ \cup {i}]
    OBVIOUS
  <2>2. o.pc = "row" /\ (Goto(c, next) \/ Raise(c))
    BY <1>1, <1>5, <2>1 DEF InsertEpisode
  <2>3. /\ next.pc = "chunk" /\ next.call = o.call /\ next.cur = o.cur /\ next.todo = o.todo
        /\ next.seenRows = o.seenRows /\ next.seenStones = o.seenStones
    BY <1>2, <2>1 DEF OpType
  <2>4. CASE Goto(c, next)
    BY <1>3, <2>2, <2>3, <2>4 DEF WritePcs, ForgetPcs
  <2>5. CASE Raise(c)
    BY <1>2, <2>5, SeenRaises
  <2> QED
    BY <2>2, <2>4, <2>5
<1>6. CASE EpisodeConflict(c)
  BY <1>2, <1>6, SeenRaises DEF EpisodeConflict
<1>7. CASE InsertChunks(c)
  <2>1. PICK next : next = [o EXCEPT !.pc = "vector", !.gone = {n}]
    OBVIOUS
  <2>2. o.pc = "chunk" /\ Answer(c, next)
    BY <1>1, <1>7, <2>1 DEF InsertChunks
  <2>3. /\ next.pc = "vector" /\ next.call = o.call /\ next.cur = o.cur /\ next.todo = o.todo
        /\ next.seenRows = o.seenRows /\ next.seenStones = o.seenStones
    BY <1>2, <2>1 DEF OpType
  <2> QED
    BY <1>3, <2>2, <2>3 DEF WritePcs, ForgetPcs
<1>8. CASE UpsertVectors(c)
  <2>1. PICK next : next = [o EXCEPT !.pc = "clear", !.gone = {}]
    OBVIOUS
  <2>2. o.pc = "vector" /\ Answer(c, next)
    BY <1>1, <1>8, <2>1 DEF UpsertVectors
  <2>3. /\ next.pc = "clear" /\ next.call = o.call /\ next.cur = o.cur /\ next.todo = o.todo
        /\ next.seenRows = o.seenRows /\ next.seenStones = o.seenStones
    BY <1>2, <2>1 DEF OpType
  <2> QED
    BY <1>3, <2>2, <2>3 DEF WritePcs, ForgetPcs
<1>9. CASE ClearMark(c)
  <2>1. CASE Answer(c, [o EXCEPT !.pc = "bump"])
    <3>1. PICK next : next = [o EXCEPT !.pc = "bump"]
      OBVIOUS
    <3>2. next.pc = "bump"
      BY <1>2, <3>1 DEF OpType
    <3> QED
      BY <1>2, <2>1, <3>1, <3>2, SeenEnds, WatchNames
  <2>2. ASSUME NEW r \in o.todo,
               Answer(c, [o EXCEPT !.pc = "mark", !.cur = r, !.todo = @ \ {r}])
        PROVE  AllSeen'
    <3>1. PICK next : next = [o EXCEPT !.pc = "mark", !.cur = r, !.todo = @ \ {r}]
      OBVIOUS
    <3>2. next.call = o.call
      BY <1>2, <3>1 DEF OpType
    <3>3. o.pc = "clear"
      BY <1>1, <1>9 DEF ClearMark
    <3>4. o.call # "replace"
      BY <1>2, <2>2, <3>3 DEF SeenBefore, WritePcs
    <3> QED
      BY <1>2, <2>2, <3>1, <3>2, <3>4, SeenEnds
  <2> QED
    BY <1>1, <1>9, <2>1, <2>2 DEF ClearMark
<1>10. CASE BumpAfterWrite(c)
  <2>1. PICK next : next = IF o.attach THEN [o EXCEPT !.pc = "link"] ELSE Idle
    OBVIOUS
  <2>2. Answer(c, next)
    BY <1>1, <1>10, <2>1 DEF BumpAfterWrite
  <2>3. next.pc \in {"link", "idle"}
    BY <1>2, <2>1 DEF OpType, Idle
  <2> QED
    BY <1>2, <2>2, <2>3, SeenEnds, WatchNames
<1>11. CASE Link(c)
  <2>1. PICK next : next = Idle
    OBVIOUS
  <2>2. Answer(c, next) /\ next.pc = "idle"
    BY <1>11, <2>1 DEF Link, Idle
  <2> QED
    BY <1>2, <2>2, SeenEnds, WatchNames
<1> QED
  BY <1>4, <1>5, <1>6, <1>7, <1>8, <1>9, <1>10, <1>11

LEMMA UndoSeen ==
  ASSUME TasksTyped, AllSeen, NEW c \in Clients,
         UndoEpisode(c) \/ UndoVectors(c) \/ UndoMark(c)
  PROVE  AllSeen'
<1>1. PICK o : o = op[c]
  OBVIOUS
<1>2. c \in Actors /\ o \in OpType /\ stones' = stones
  BY <1>1 DEF Actors, TasksTyped, Held, UndoEpisode, UndoVectors, UndoMark, documentVars
<1>3. ASSUME NEW next, Answer(c, next),
             next.pc \in {"failed", "undoRow", "undoMarks", "undoVectors"}
      PROVE  AllSeen'
  BY <1>2, <1>3, SeenEnds, WatchNames
<1>4. CASE UndoEpisode(c)
  <2>1. PICK id \in o.undo :
          Answer(c, [o EXCEPT !.pc = "undoVectors", !.gone = ChunksOf(id), !.target = id])
    BY <1>1, <1>4 DEF UndoEpisode
  <2>2. PICK gone : gone = ChunksOf(id)
    OBVIOUS
  <2>3. PICK next : next = [o EXCEPT !.pc = "undoVectors", !.gone = gone, !.target = id]
    OBVIOUS
  <2>4. next.pc = "undoVectors"
    BY <1>2, <2>3 DEF OpType
  <2> QED
    BY <1>3, <2>1, <2>2, <2>3, <2>4
<1>5. CASE UndoVectors(c)
  <2>1. PICK left : left = o.undo \ {o.target}
    OBVIOUS
  <2>2. PICK next : next = [o EXCEPT !.gone = {}, !.undo = left,
                              !.pc = IF left = {} THEN "undoMarks" ELSE "undoRow"]
    OBVIOUS
  <2>3. Answer(c, next)
    BY <1>1, <1>5, <2>1, <2>2 DEF UndoVectors
  <2>4. next.pc \in {"undoMarks", "undoRow"}
    BY <1>2, <2>2 DEF OpType
  <2> QED
    BY <1>3, <2>3, <2>4
<1>6. CASE UndoMark(c)
  <2>1. PICK k \in o.keys : Answer(c, IF o.keys = {k} THEN Failed(o)
                                      ELSE [o EXCEPT !.keys = @ \ {k}])
    BY <1>1, <1>6 DEF UndoMark
  <2>2. PICK next : next = IF o.keys = {k} THEN Failed(o) ELSE [o EXCEPT !.keys = @ \ {k}]
    OBVIOUS
  <2>3. o.pc = "undoMarks"
    BY <1>1, <1>6 DEF UndoMark
  <2>4. next.pc \in {"failed", "undoMarks"}
    BY <1>2, <2>2, <2>3 DEF OpType, Failed, Idle
  <2> QED
    BY <1>3, <2>1, <2>2, <2>4
<1> QED
  BY <1>4, <1>5, <1>6

LEMMA IntentSeen ==
  ASSUME TasksTyped, AllSeen, NEW c \in Clients, Revoke(c) \/ RecordIntent(c) PROVE AllSeen'
<1>1. PICK o : o = op[c]
  OBVIOUS
<1>2. /\ c \in Actors /\ o \in OpType /\ stones' = stones /\ o.pc \in ForgetPcs
  BY <1>1 DEF Actors, TasksTyped, Held, Revoke, RecordIntent, StoresUnchanged,
              documentVars, ForgetPcs
<1>3. ASSUME NEW next, Answer(c, next) \/ Goto(c, next), next.call = o.call,
             next.cur = o.cur, next.todo = o.todo, next.seenRows = o.seenRows,
             next.seenStones = o.seenStones, next.target = o.target
      PROVE  AllSeen'
  BY <1>1, <1>2, <1>3, SeenGoesOn
<1>4. ASSUME Goto(c, [o EXCEPT !.pc = "check"]) PROVE AllSeen'
  <2>1. PICK next : next = [o EXCEPT !.pc = "check"]
    OBVIOUS
  <2>2. /\ next.call = o.call /\ next.cur = o.cur /\ next.todo = o.todo
        /\ next.seenRows = o.seenRows /\ next.seenStones = o.seenStones
        /\ next.target = o.target
    BY <1>2, <2>1 DEF OpType
  <2> QED
    BY <1>3, <1>4, <2>1, <2>2
<1>5. ASSUME NEW k, NEW gone, Goto(c, [o EXCEPT !.pc = "intent", !.keys = {k}, !.gone = gone])
      PROVE  AllSeen'
  <2>1. PICK next : next = [o EXCEPT !.pc = "intent", !.keys = {k}, !.gone = gone]
    OBVIOUS
  <2>2. /\ next.call = o.call /\ next.cur = o.cur /\ next.todo = o.todo
        /\ next.seenRows = o.seenRows /\ next.seenStones = o.seenStones
        /\ next.target = o.target
    BY <1>2, <2>1 DEF OpType
  <2> QED
    BY <1>3, <1>5, <2>1, <2>2
<1>6. ASSUME Goto(c, Failed(o)) PROVE AllSeen'
  <2>1. PICK next : next = Failed(o)
    OBVIOUS
  <2>2. next.pc = "failed"
    BY <2>1 DEF Failed, Idle
  <2> QED
    BY <1>2, <1>6, <2>1, <2>2, SeenEnds, WatchNames
<1>7. CASE Revoke(c)
  <2>1. PICK gone : gone = ChunksOf(o.target)
    OBVIOUS
  <2>2. \/ Goto(c, [o EXCEPT !.pc = "check"]) \/ Goto(c, Failed(o))
        \/ \E r \in RowAt(o.target) :
             Goto(c, [o EXCEPT !.pc = "intent", !.keys = {r.key}, !.gone = gone])
    BY <1>1, <1>7, <2>1 DEF Revoke
  <2> QED
    BY <1>4, <1>5, <1>6, <2>2
<1>8. CASE RecordIntent(c)
  <2>1. PICK next : next = [o EXCEPT !.pc = "check", !.gone = {}]
    OBVIOUS
  <2>2. Answer(c, next)
    BY <1>1, <1>8, <2>1 DEF RecordIntent
  <2>3. /\ next.call = o.call /\ next.cur = o.cur /\ next.todo = o.todo
        /\ next.seenRows = o.seenRows /\ next.seenStones = o.seenStones
        /\ next.target = o.target
    BY <1>2, <2>1 DEF OpType
  <2> QED
    BY <1>3, <2>2, <2>3
<1> QED
  BY <1>7, <1>8

\* No other replace is watched for its tombstones while one task commits.
LEMMA SeenAlone ==
  ASSUME TasksTyped, AllSeen, OneCommits, NEW a \in Actors, op[a].pc \in CommitPcs,
         NEW next, Answer(a, next), SeenBefore(next)'
  PROVE  AllSeen'
<1>1. ASSUME NEW to, op' = [op EXCEPT ![a] = to], SeenBefore(to)' PROVE AllSeen'
  <2>1. op'[a] = to /\ \A b \in Actors : b # a => op'[b] = op[b]
    BY <1>1 DEF TasksTyped
  <2> SUFFICES ASSUME NEW b \in Actors PROVE SeenBefore(op[b])'
    BY DEF AllSeen
  <2>2. CASE b = a
    BY <1>1, <2>1, <2>2
  <2>3. CASE b # a
    <3>1. PICK o : o = op[b] /\ o = op'[b]
      BY <2>1, <2>3
    <3>2. SeenBefore(o) /\ o.pc \notin WritePcs \cup ForgetPcs
      BY <2>3, <3>1 DEF AllSeen, OneCommits, CommitPcs
    <3>3. SeenBefore(o)'
      BY <3>2 DEF SeenBefore
    <3> QED
      BY <3>1, <3>3
  <2> QED
    BY <2>2, <2>3
<1>2. CASE op' = [op EXCEPT ![a] = next]
  BY <1>1, <1>2
<1>3. CASE Raise(a)
  <2>1. PICK to : to = Raised(a)
    OBVIOUS
  <2>2. op' = [op EXCEPT ![a] = to]
    BY <1>3, <2>1 DEF Raise
  <2> QED
    BY <1>1, <2>1, <2>2, RaisedUnwatched
<1> QED
  BY <1>2, <1>3 DEF Answer

LEMMA EraseSeen ==
  ASSUME TasksTyped, AllSeen, OneCommits, NEW c \in Clients,
         ReleaseBlobs(c) \/ EraseDocuments(c) \/ SweepVectors(c) \/ PurgeEvents(c)
  PROVE  AllSeen'
<1>1. PICK o : o = op[c]
  OBVIOUS
<1>2. c \in Actors /\ o \in OpType /\ op[c].pc \in CommitPcs
  BY <1>1 DEF Actors, TasksTyped, Held, ReleaseBlobs, EraseDocuments, SweepVectors,
              PurgeEvents, CommitPcs, ErasePcs
<1>3. ASSUME NEW p \in {"erase", "sweep", "purge"}, Answer(c, [o EXCEPT !.pc = p])
      PROVE  AllSeen'
  <2>1. PICK next : next = [o EXCEPT !.pc = p]
    OBVIOUS
  <2>2. next.pc = p
    BY <1>2, <2>1 DEF OpType
  <2>3. SeenBefore(next)'
    BY <2>2, Unwatched, WatchNames
  <2> QED
    BY <1>2, <1>3, <2>1, <2>3, SeenAlone
<1>4. ASSUME Answer(c, Idle) PROVE AllSeen'
  <2>1. PICK next : next = Idle
    OBVIOUS
  <2>2. next.pc = "idle"
    BY <2>1 DEF Idle
  <2>3. SeenBefore(next)'
    BY <2>2, Unwatched, WatchNames
  <2> QED
    BY <1>2, <1>4, <2>1, <2>3, SeenAlone
<1>5. \/ Answer(c, Idle)
      \/ \E p \in {"erase", "sweep", "purge"} : Answer(c, [o EXCEPT !.pc = p])
  BY <1>1 DEF ReleaseBlobs, EraseDocuments, SweepVectors, PurgeEvents
<1> QED
  BY <1>3, <1>4, <1>5

\* A replace records no tombstone but that of the source it replaces.
LEMMA StoneSeen ==
  ASSUME TasksTyped, AllSeen, OneCommits, NEW a \in Actors, RecordStone(a)
  PROVE  AllSeen'
<1>1. PICK o : o = op[a]
  OBVIOUS
<1>2. PICK next : next = [o EXCEPT !.pc = "unmark"]
  OBVIOUS
<1>3. /\ o.pc = "stone" /\ Answer(a, next)
      /\ stones' = IF \E s \in stones : s.id = o.target THEN stones
                   ELSE stones \cup {[id |-> o.target, key |-> k] : k \in o.keys}
  BY <1>1, <1>2 DEF RecordStone
<1>4. o \in OpType /\ SeenBefore(o) /\ op[a].pc \in CommitPcs
  BY <1>1, <1>3 DEF TasksTyped, Held, AllSeen, CommitPcs, ForgetPcs
<1>5. /\ next.pc = "unmark" /\ next.call = o.call /\ next.cur = o.cur /\ next.todo = o.todo
      /\ next.seenRows = o.seenRows /\ next.seenStones = o.seenStones
      /\ next.target = o.target
  BY <1>2, <1>4 DEF OpType
<1>6. stones \subseteq stones' /\ \A s \in stones' : s \in stones \/ s.id = o.target
  BY <1>3
<1>7. \A k : \A s \in StoneByHash(k)' : s \in StoneByHash(k) \/ s.id = o.target
  BY <1>6 DEF StoneByHash
<1>8. SeenBefore(next)'
  BY <1>3, <1>4, <1>5, <1>7 DEF SeenBefore, ForgetPcs
<1> QED
  BY <1>3, <1>4, <1>8, SeenAlone

LEMMA ForgetSeen ==
  ASSUME TasksTyped, AllSeen, OneCommits, NEW a \in Actors, FinishForget(a)
  PROVE  AllSeen'
<1>1. PICK o : o = op[a]
  OBVIOUS
<1>2. /\ o \in OpType /\ o.pc \in ForgetPcs
      /\ RecordStone(a) \/ stones' = stones
  BY <1>1 DEF TasksTyped, Held, FinishForget, CheckIntent, DeleteRows, DeleteVectors,
       Unlink, RecordStone, Unmark, BumpAfterForget, AppendEvent, Acknowledge,
       StoresUnchanged, documentVars, ForgetPcs
<1>3. ASSUME stones' = stones, NEW next, Answer(a, next) \/ Goto(a, next),
             next.call = o.call, next.cur = o.cur, next.todo = o.todo,
             next.seenRows = o.seenRows, next.seenStones = o.seenStones,
             next.pc \in ForgetPcs => next.target = o.target
      PROVE  AllSeen'
  BY <1>1, <1>2, <1>3, SeenGoesOn
<1>4. ASSUME stones' = stones, NEW p, Answer(a, [o EXCEPT !.pc = p]) PROVE AllSeen'
  <2>1. PICK next : next = [o EXCEPT !.pc = p]
    OBVIOUS
  <2>2. /\ next.call = o.call /\ next.cur = o.cur /\ next.todo = o.todo
        /\ next.seenRows = o.seenRows /\ next.seenStones = o.seenStones
        /\ next.target = o.target
    BY <1>2, <2>1 DEF OpType
  <2> QED
    BY <1>3, <1>4, <2>1, <2>2
<1>5. CASE CheckIntent(a)
  <2>1. stones' = stones
    BY <1>5 DEF CheckIntent, StoresUnchanged, documentVars
  <2>2. PICK p \in IntentAt(o.target) :
          \/ Goto(a, [o EXCEPT !.pc = "rows", !.gone = p.gone, !.keys = {p.key}])
          \/ Raise(a)
    BY <1>1, <1>5 DEF CheckIntent
  <2>3. CASE Goto(a, [o EXCEPT !.pc = "rows", !.gone = p.gone, !.keys = {p.key}])
    <3>1. PICK next : next = [o EXCEPT !.pc = "rows", !.gone = p.gone, !.keys = {p.key}]
      OBVIOUS
    <3>2. /\ next.call = o.call /\ next.cur = o.cur /\ next.todo = o.todo
          /\ next.seenRows = o.seenRows /\ next.seenStones = o.seenStones
          /\ next.target = o.target
      BY <1>2, <3>1 DEF OpType
    <3> QED
      BY <1>3, <2>1, <2>3, <3>1, <3>2
  <2>4. CASE Raise(a)
    BY <2>1, <2>4, SeenRaises
  <2> QED
    BY <2>2, <2>3, <2>4
<1>6. CASE \/ DeleteRows(a) \/ DeleteVectors(a) \/ Unlink(a) \/ Unmark(a)
           \/ BumpAfterForget(a) \/ AppendEvent(a)
  <2>1. stones' = stones /\ \E p : Answer(a, [o EXCEPT !.pc = p])
    BY <1>1, <1>6 DEF DeleteRows, DeleteVectors, Unlink, Unmark, BumpAfterForget,
                      AppendEvent, documentVars
  <2> QED
    BY <1>4, <2>1
<1>7. CASE Acknowledge(a)
  <2>1. PICK next : next = Forgotten(o)
    OBVIOUS
  <2>2. Answer(a, next) /\ stones' = stones
    BY <1>1, <1>7, <2>1 DEF Acknowledge
  <2>3. CASE o.call = "replace"
    <3>1. /\ next.call = o.call /\ next.cur = o.cur /\ next.todo = o.todo
          /\ next.seenRows = o.seenRows /\ next.seenStones = o.seenStones
          /\ next.pc = "mark"
      BY <1>2, <2>1, <2>3 DEF OpType, Forgotten
    <3> QED
      BY <1>3, <2>2, <3>1 DEF ForgetPcs
  <2>4. CASE o.call = "recover"
    <3>1. next.call = "recover"
      BY <2>1, <2>4 DEF Forgotten, Idle
    <3> QED
      BY <2>2, <3>1, SeenEnds
  <2>5. CASE o.call \notin {"replace", "recover"}
    <3>1. next.call = "none"
      BY <2>1, <2>5 DEF Forgotten, Idle
    <3> QED
      BY <2>2, <3>1, SeenEnds
  <2> QED
    BY <2>3, <2>4, <2>5
<1> QED
  BY <1>5, <1>6, <1>7, StoneSeen DEF FinishForget

\* The recovery pass replaces nothing.
LEMMA RecoverySeen ==
  ASSUME TasksTyped, AllSeen, RecoveryStep(Recovery) PROVE AllSeen'
<1>1. PICK o, n, m : o = op[Recovery] /\ n = nextChunk /\ m = inflight
  OBVIOUS
<1>2. /\ Recovery \in Actors /\ o \in OpType /\ stones' = stones
      /\ o.pc \in RepairPcs => o.call = "recover"
  BY <1>1 DEF Actors, TasksTyped, Held, Holds, RecoveryStep, Recover, RetireNext, Backlog,
       StartRepair, RepairMark, Rechunk, Revector, SettleMark, Recovered, StoresUnchanged,
       documentVars
<1>3. ASSUME NEW next, next.call # "replace",
             \/ op' = [op EXCEPT ![Recovery] = next]
             \/ Answer(Recovery, next)
      PROVE  AllSeen'
  <2>1. SeenBefore(next)'
    BY <1>3, Unwatched
  <2> QED
    BY <1>2, <1>3, <2>1, SeenMoves, SeenAnswers
<1>4. CASE Recover(Recovery)
  <2>1. PICK next : next = [Idle EXCEPT !.pc = "retire", !.call = "recover",
                                        !.budget = RetireLimit]
    OBVIOUS
  <2>2. op' = [op EXCEPT ![Recovery] = next] /\ next.call = "recover"
    BY <1>4, <2>1 DEF Recover, Idle
  <2> QED
    BY <1>3, <2>2
<1>5. CASE Backlog(Recovery) \/ Recovered(Recovery)
  <2>1. PICK next : next = Idle
    OBVIOUS
  <2>2. op' = [op EXCEPT ![Recovery] = next] /\ next.call = "none"
    BY <1>5, <2>1 DEF Backlog, Recovered, Idle
  <2> QED
    BY <1>3, <2>2
<1>6. CASE RetireNext(Recovery)
  <2>1. PICK i : Goto(Recovery, [o EXCEPT !.pc = "check", !.target = i]) /\ o.pc = "retire"
    BY <1>1, <1>6 DEF RetireNext
  <2>2. PICK next : next = [o EXCEPT !.pc = "check", !.target = i]
    OBVIOUS
  <2>3. next.call = "recover"
    BY <1>2, <2>1, <2>2 DEF OpType, RepairPcs
  <2> QED
    BY <1>3, <2>1, <2>2, <2>3 DEF Goto
<1>7. CASE StartRepair(Recovery)
  <2>1. PICK next : next = [o EXCEPT !.pc = "repair", !.marks = m]
    OBVIOUS
  <2>2. Goto(Recovery, next) /\ o.pc = "retire"
    BY <1>1, <1>7, <2>1 DEF StartRepair
  <2>3. next.call = "recover"
    BY <1>2, <2>1, <2>2 DEF OpType, RepairPcs
  <2> QED
    BY <1>3, <2>2, <2>3 DEF Goto
<1>8. CASE RepairMark(Recovery)
  <2>1. o.pc = "repair"
    BY <1>1, <1>8 DEF RepairMark
  <2>2. \/ \E k \in o.marks : Goto(Recovery, [o EXCEPT !.pc = "settle", !.keys = {k}])
        \/ \E k \in o.marks : \E id, gone, pc :
             Goto(Recovery, [o EXCEPT !.target = id, !.gone = gone, !.keys = {k}, !.pc = pc])
    BY <1>1, <1>8 DEF RepairMark
  <2>3. ASSUME NEW k, Goto(Recovery, [o EXCEPT !.pc = "settle", !.keys = {k}])
        PROVE  AllSeen'
    <3>1. PICK next : next = [o EXCEPT !.pc = "settle", !.keys = {k}]
      OBVIOUS
    <3>2. next.call = "recover"
      BY <1>2, <2>1, <3>1 DEF OpType, RepairPcs
    <3> QED
      BY <1>3, <2>3, <3>1, <3>2 DEF Goto
  <2>4. ASSUME NEW k, NEW id, NEW gone, NEW p,
               Goto(Recovery, [o EXCEPT !.target = id, !.gone = gone, !.keys = {k}, !.pc = p])
        PROVE  AllSeen'
    <3>1. PICK next : next = [o EXCEPT !.target = id, !.gone = gone, !.keys = {k}, !.pc = p]
      OBVIOUS
    <3>2. next.call = "recover"
      BY <1>2, <2>1, <3>1 DEF OpType, RepairPcs
    <3> QED
      BY <1>3, <2>4, <3>1, <3>2 DEF Goto
  <2> QED
    BY <2>2, <2>3, <2>4
<1>9. CASE Rechunk(Recovery)
  <2>1. PICK next : next = [o EXCEPT !.pc = "revector", !.gone = {n}]
    OBVIOUS
  <2>2. Answer(Recovery, next) /\ o.pc = "rechunk"
    BY <1>1, <1>9, <2>1 DEF Rechunk
  <2>3. next.call = "recover"
    BY <1>2, <2>1, <2>2 DEF OpType, RepairPcs
  <2> QED
    BY <1>3, <2>2, <2>3
<1>10. CASE Revector(Recovery)
  <2>1. PICK next : next = [o EXCEPT !.pc = "settle", !.gone = {}]
    OBVIOUS
  <2>2. Answer(Recovery, next) /\ o.pc = "revector"
    BY <1>1, <1>10, <2>1 DEF Revector
  <2>3. next.call = "recover"
    BY <1>2, <2>1, <2>2 DEF OpType, RepairPcs
  <2> QED
    BY <1>3, <2>2, <2>3
<1>11. CASE SettleMark(Recovery)
  <2>1. PICK next : next = [o EXCEPT !.pc = "repair", !.marks = @ \ o.keys, !.keys = {},
                                     !.target = 0]
    OBVIOUS
  <2>2. Answer(Recovery, next) /\ o.pc = "settle"
    BY <1>1, <1>11, <2>1 DEF SettleMark
  <2>3. next.call = "recover"
    BY <1>2, <2>1, <2>2 DEF OpType, RepairPcs
  <2> QED
    BY <1>3, <2>2, <2>3
<1> QED
  BY <1>4, <1>5, <1>6, <1>7, <1>8, <1>9, <1>10, <1>11 DEF RecoveryStep

LEMMA FaultSeen ==
  ASSUME TasksTyped, AllSeen,
         \/ \E a \in Actors : Refuse(a)
         \/ \E c \in Clients : Cancel(c)
         \/ Crash
         \/ UNCHANGED vars
  PROVE  AllSeen'
<1>1. ASSUME NEW a \in Actors, Refuse(a) PROVE AllSeen'
  BY <1>1, SeenRaises DEF Refuse, StoresUnchanged, documentVars
<1>2. ASSUME NEW c \in Clients, Cancel(c) PROVE AllSeen'
  <2>1. PICK next : next = Idle
    OBVIOUS
  <2>2. /\ c \in Actors /\ stones' = stones /\ op' = [op EXCEPT ![c] = next]
        /\ next.pc = "idle"
    BY <1>2, <2>1 DEF Cancel, Idle, Actors, StoresUnchanged, documentVars
  <2>3. SeenBefore(next)'
    BY <2>2, Unwatched, WatchNames
  <2> QED
    BY <2>2, <2>3, SeenMoves
<1>3. CASE Crash
  <2>1. \A a \in Actors : op'[a].call # "replace"
    BY <1>3 DEF Crash, Idle
  <2> QED
    BY <2>1 DEF AllSeen, SeenBefore
<1>4. CASE UNCHANGED vars
  <2>1. UNCHANGED <<stones, op>>
    BY <1>4 DEF vars, documentVars
  <2> QED
    BY <2>1 DEF AllSeen, SeenBefore, StoneByHash
<1> QED
  BY <1>1, <1>2, <1>3, <1>4

LEMMA StepSeen ==
  ASSUME TasksTyped, AllSeen, OneCommits, [Next]_vars PROVE AllSeen'
<1>1. ASSUME NEW c \in Clients, ClientStep(c) PROVE AllSeen'
  <2>1. CASE \/ \E b \in Batches, attach \in BOOLEAN : Remember(c, b, attach)
             \/ \E r \in Records, attach \in BOOLEAN : Replace(c, r, attach)
             \/ \E i \in 1..MaxSources : ForgetSource(c, i)
             \/ DeleteSpace(c)
    BY <2>1, BeginsSeen
  <2>2. CASE \/ Mark(c) \/ InsertEpisode(c) \/ EpisodeConflict(c) \/ InsertChunks(c)
             \/ UpsertVectors(c) \/ ClearMark(c) \/ BumpAfterWrite(c) \/ Link(c)
    BY <2>2, WriteSeen
  <2>3. CASE \/ Embedded(c) \/ Prepared(c) \/ Revoke(c) \/ RecordIntent(c)
             \/ UndoEpisode(c) \/ UndoVectors(c) \/ UndoMark(c)
    BY <2>3, PreparedSeen, IntentSeen, UndoSeen
  <2>4. CASE ReleaseBlobs(c) \/ EraseDocuments(c) \/ SweepVectors(c) \/ PurgeEvents(c)
    BY <2>4, EraseSeen
  <2> QED
    BY <1>1, <2>1, <2>2, <2>3, <2>4 DEF ClientStep
<1> QED
  BY <1>1, ForgetSeen, RecoverySeen, FaultSeen DEF Next

\* A replace never brings back a source that was forgotten while it was prepared:
\* when its row is written the key's latest tombstone is one it saw, or that of the
\* source it replaces; where callers serialise at least their commit phases.
THEOREM ReplacesReviveNothing == Exclusion # "none" => (Spec => ReplaceNeverRevives)
<1> SUFFICES ASSUME Exclusion # "none" PROVE Spec => ReplaceNeverRevives
  OBVIOUS
<1>1. Init => AllSeen
  BY DEF Init, Idle, AllSeen, SeenBefore
<1>2. TasksTyped /\ AllSeen /\ OneCommits /\ [Next]_vars => AllSeen'
  BY StepSeen
<1>3. AllSeen /\ [Next]_vars =>
        [\A c \in Clients :
           op[c].call = "replace" /\ op[c].pc = "row" /\ nextId' # nextId =>
             \A s \in StoneByHash(op[c].cur.key) :
               s \in op[c].seenStones \/ s.id \in op[c].seenRows]_vars
  BY DEF AllSeen, SeenBefore, Actors, WritePcs
<1>4. Spec => [](StoresTyped /\ TasksTyped)
  BY InitType, StepType, PTL DEF Spec
<1> QED
  BY <1>1, <1>2, <1>3, <1>4, OneCommitsAlways, PTL DEF Spec, ReplaceNeverRevives

=============================================================================
