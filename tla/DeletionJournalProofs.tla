------------------------ MODULE DeletionJournalProofs ------------------------
(* The deletion journal, for any set of segments, artifacts, sessions and batches   *)
(* and any number of failures, cancelled calls, crashes and losses of power: rows   *)
(* have files or a batch, the trash is journaled, the budget counts every file and  *)
(* a deleted session stays deleted; and pins are honoured unless a call is failed   *)
(* or dropped.                                                                      *)
EXTENDS DeletionJournal, SequenceTheorems, TLAPS

\* What the call under way, the queue of the removal worker and a file can be.
Tasks == [name : Names, arg : Objects \union Sessions \union {None},
          step : Steps, batch : Batches \union {None}]
Jobs == [cmd : {"stage", "finalize"}, batch : Batches, todo : SUBSET Objects]
Places == Batches \union {"absent", "live"}

\* The steps of remove_batch, and those before its metadata is removed.
InBatch == {"checkpoint", "stage", "metadata", "finalize", "forget"}
BeforeRows == {"checkpoint", "stage", "metadata"}

\* A command the worker holds is about a batch of the index, in the state
\* the command was sent for, and has only files of that batch left to do.
JobsAreJournaled == \A i \in DOMAIN work :
    /\ work[i].batch \in index.batches
    /\ index.batch[work[i].batch].state = IF work[i].cmd = "stage" THEN "prepared" ELSE "removed"
    /\ work[i].todo \subseteq index.batch[work[i].batch].objects

\* No batch is in two commands: an answer cannot be taken for another one.
JobsAreDistinct == \A i, j \in DOMAIN work : work[i].batch = work[j].batch => i = j

NoJobFor(b) == \A i \in DOMAIN work : work[i].batch # b

\* Between checkpoint and forget, remove_batch works on a batch the index
\* still holds, in the state its step needs.
TaskIsJournaled == task.step \in InBatch =>
    /\ task.batch \in index.batches
    /\ index.batch[task.batch].state = IF task.step \in BeforeRows THEN "prepared" ELSE "removed"
    /\ task.step \in {"checkpoint", "metadata", "forget"} => NoJobFor(task.batch)

\* A closed store has no work, and the replay of recovery sends one command
\* at a time, its own, while nobody else calls.
PhasesAreOrderly ==
    /\ mode = "down" => work = <<>> /\ task = Idle
    /\ mode = "up" => task.name # "resume"
    /\ mode = "resuming" => /\ task.name = "resume"
                            /\ task.step \in InBatch \union {"walk"}
                            /\ task.step \notin {"stage", "finalize"} => work = <<>>
                            /\ \A i \in DOMAIN work : work[i].batch = task.batch

\* append, pin and unpin are about a segment and delete_session about a session.
ArgsFit ==
    /\ task.name \in {"append", "pin", "unpin"} => task.arg \in Segments
    /\ task.name = "delete" => task.arg \in Sessions

\* The files a prepared batch of an index will move to .trash.
Claimed(d) == {o \in Objects : \E b \in d.batches : /\ o \in d.batch[b].objects
                                                    /\ d.batch[b].state = "prepared"}

\* The rows of the open segments and of the sealed ones have their files, or a
\* prepared batch claims them, as soon as recovery has rebuilt them; those of the
\* artifacts only once reconcile_artifacts has run, that is when the store is open.
RowsAreBacked ==
    /\ mode # "down" => \A s \in index.open \union index.sealed : place[s] = "live" \/ s \in Claimed(index)
    /\ mode = "up" => \A a \in index.artifacts : place[a] = "live" \/ a \in Claimed(index)

-----------------------------------------------------------------------------
\* What a flush, a seal, a pin or an unpin may do to an index: move rows from open
\* to sealed and change the links, while files, usage, tombstones and the journal stay.
Retouched(d, e) ==
    /\ e \in Index
    /\ e.batches = d.batches /\ e.batch = d.batch
    /\ e.open \union e.sealed = d.open \union d.sealed /\ e.artifacts = d.artifacts
    /\ e.usage = d.usage /\ e.tombstones = d.tombstones /\ e.catalog = d.catalog
    /\ e.pins \subseteq d.pins \union d.open \union d.sealed

LEMMA RetouchedSelf == ASSUME NEW d \in Index PROVE Retouched(d, d)
  BY DEF Retouched

LEMMA RetouchedTwice ==
    ASSUME NEW d, NEW e, NEW f, Retouched(d, e), Retouched(e, f)
    PROVE  Retouched(d, f)
  BY DEF Retouched

LEMMA SealingRetouches ==
    ASSUME NEW d \in Index, NEW S \in SUBSET Segments
    PROVE  Retouched(d, Sealing(d, S))
<1> DEFINE e == Sealing(d, S)
<1>1. /\ e.open = d.open \ S /\ e.sealed = d.sealed \union (d.open \intersect S)
      /\ e.artifacts = d.artifacts /\ e.pins = d.pins /\ e.usage = d.usage
      /\ e.tombstones = d.tombstones /\ e.catalog = d.catalog
      /\ e.batches = d.batches /\ e.batch = d.batch
      /\ e \in Index
  BY DEF Sealing, Index
<1>2. e.open \union e.sealed = d.open \union d.sealed BY <1>1 DEF Index
<1> QED BY <1>1, <1>2 DEF Retouched

LEMMA PinRowsRetouches ==
    ASSUME NEW d \in Index PROVE  Retouched(d, PinRows(d))
<1>1. CASE task.arg \in d.sealed
  <2> DEFINE e == PinRows(d)
  <2>1. /\ e.open = d.open /\ e.sealed = d.sealed
        /\ e.artifacts = d.artifacts /\ e.pins = d.pins \union {task.arg} /\ e.usage = d.usage
        /\ e.tombstones = d.tombstones /\ e.catalog = d.catalog
        /\ e.batches = d.batches /\ e.batch = d.batch
        /\ e \in Index
    BY <1>1 DEF PinRows, Index
  <2> QED BY <1>1, <2>1 DEF Retouched
<1>2. CASE task.arg \notin d.sealed BY <1>2, RetouchedSelf DEF PinRows
<1> QED BY <1>1, <1>2

LEMMA UnpinnedRetouches ==
    ASSUME NEW d \in Index PROVE  Retouched(d, Unpinned(d))
  BY DEF Unpinned, Index, Retouched

\* The parts of a batch no step changes while the batch is in the journal.
SameBatch(d, e, c) == /\ e.batch[c].objects = d.batch[c].objects
                      /\ e.batch[c].session = d.batch[c].session
                      /\ e.batch[c].kind = d.batch[c].kind

\* prepare_batch adds one batch and touches no other.
LEMMA PreparedIndex ==
    ASSUME NEW d \in Index, NEW b \in Batches, NEW kind \in {"eviction", "session"},
           NEW x \in Sessions \union {None}, NEW S \in SUBSET Objects
    PROVE  LET e == Prepared(d, b, kind, x, S) IN
           /\ e \in Index
           /\ e.open = d.open /\ e.sealed = d.sealed /\ e.artifacts = d.artifacts
           /\ e.pins = d.pins /\ e.usage = d.usage /\ e.tombstones = d.tombstones
           /\ e.catalog = d.catalog
           /\ e.batches = d.batches \union {b}
           /\ \A c \in Batches \ {b} : e.batch[c] = d.batch[c]
           /\ e.batch[b].objects = S /\ e.batch[b].kind = kind
           /\ e.batch[b].session = x /\ e.batch[b].state = "prepared"
<1> DEFINE r == [kind |-> kind, session |-> x, state |-> "prepared", objects |-> S]
           t == [d.batch EXCEPT ![b] = r]
<1>1. r \in Batch BY DEF Batch
<1>2. d.batch \in [Batches -> Batch] BY DEF Index
<1>3. t \in [Batches -> Batch] /\ t[b] = r /\ \A c \in Batches \ {b} : t[c] = d.batch[c]
  BY <1>1, <1>2
<1> HIDE DEF t
<1>4. Prepared(d, b, kind, x, S) = [d EXCEPT !.batches = @ \union {b}, !.batch = t]
  BY DEF Prepared, Index, t
<1>5. /\ t[b].objects = S /\ t[b].kind = kind /\ t[b].session = x /\ t[b].state = "prepared"
  BY <1>3
<1>6. d.batches \union {b} \in SUBSET Batches BY DEF Index
<1> HIDE DEF r
<1>7. Prepared(d, b, kind, x, S) \in Index BY <1>3, <1>4, <1>6 DEF Index
<1> QED BY <1>3, <1>4, <1>5, <1>7 DEF Index

\* remove_metadata deletes the rows and links of the batch and of its session.
LEMMA StrippedIndex ==
    ASSUME NEW d \in Index, NEW b \in Batches
    PROVE  LET e == Stripped(d, b)
               gone == d.batch[b].objects
               dead == IF d.batch[b].session = None THEN {} ELSE Of(d.batch[b].session)
           IN
           /\ e \in Index
           /\ e.open = d.open \ gone /\ e.sealed = d.sealed \ gone
           /\ e.artifacts = d.artifacts \ (gone \union dead)
           /\ e.pins = d.pins \ (gone \union dead)
           /\ e.usage = d.usage
           /\ e.tombstones = (d.tombstones \union
                 (IF d.batch[b].kind = "eviction" THEN gone \intersect (d.open \union d.sealed)
                  ELSE {})) \ dead
           /\ e.catalog = d.catalog \ {d.batch[b].session}
           /\ e.batches = d.batches
           /\ \A c \in Batches \ {b} : e.batch[c] = d.batch[c]
           /\ SameBatch(d, e, b)
           /\ e.batch[b].state = "removed"
<1> DEFINE gone == d.batch[b].objects
           dead == IF d.batch[b].session = None THEN {} ELSE Of(d.batch[b].session)
           buried == IF d.batch[b].kind = "eviction" THEN gone \intersect (d.open \union d.sealed)
                  ELSE {}
           t == [d.batch EXCEPT ![b].state = "removed"]
           e == Stripped(d, b)
<1>1. d.batch \in [Batches -> Batch] /\ d.batch[b] \in Batch BY DEF Index
<1>2. /\ t \in [Batches -> Batch] /\ \A c \in Batches \ {b} : t[c] = d.batch[c]
      /\ t[b].objects = d.batch[b].objects /\ t[b].session = d.batch[b].session
      /\ t[b].kind = d.batch[b].kind /\ t[b].state = "removed"
  BY <1>1 DEF Batch
<1>3. buried \subseteq Segments BY DEF Index
<1> HIDE DEF t
<1>4. e = [d EXCEPT !.open = @ \ gone, !.sealed = @ \ gone,
              !.artifacts = @ \ (gone \union dead), !.pins = @ \ (gone \union dead),
              !.tombstones = (@ \union buried) \ dead, !.catalog = @ \ {d.batch[b].session},
              !.batch = t]
  BY DEF Stripped, Index, t
<1> HIDE DEF gone, dead, buried
<1>5. /\ e.open = d.open \ gone /\ e.sealed = d.sealed \ gone
      /\ e.artifacts = d.artifacts \ (gone \union dead)
      /\ e.pins = d.pins \ (gone \union dead)
      /\ e.usage = d.usage
      /\ e.tombstones = (d.tombstones \union buried) \ dead
      /\ e.catalog = d.catalog \ {d.batch[b].session}
      /\ e.batches = d.batches /\ e.batch = t
      /\ e = [open |-> e.open, sealed |-> e.sealed, artifacts |-> e.artifacts, pins |-> e.pins,
              usage |-> e.usage, tombstones |-> e.tombstones, catalog |-> e.catalog,
              batches |-> e.batches, batch |-> e.batch]
  BY <1>4 DEF Index
<1> HIDE DEF e
<1>6. /\ e.open \in SUBSET Segments /\ e.sealed \in SUBSET Segments
      /\ e.artifacts \in SUBSET Artifacts /\ e.pins \in SUBSET Segments
  BY <1>5 DEF Index
<1>7. /\ e.usage \in SUBSET Objects /\ e.tombstones \in SUBSET Segments
      /\ e.catalog \in SUBSET Sessions /\ e.batches \in SUBSET Batches
  BY <1>3, <1>5 DEF Index
<1>8. e \in Index BY <1>2, <1>5, <1>6, <1>7 DEF Index
<1>9. e = Stripped(d, b) BY DEF e
<1> QED BY <1>2, <1>5, <1>8, <1>9 DEF SameBatch, gone, dead, buried

\* The index after the last transaction of a batch.
Forgotten(d, b) ==
    [d EXCEPT !.usage = @ \ (d.batch[b].objects \union
                             (IF d.batch[b].session = None THEN {} ELSE Of(d.batch[b].session))),
              !.batches = @ \ {b},
              !.batch[b] = NoBatch]

\* The last transaction drops the batch with the usage rows of its files.
LEMMA ForgottenIndex ==
    ASSUME NEW d \in Index, NEW b \in Batches
    PROVE  LET e == Forgotten(d, b) IN
           /\ e \in Index
           /\ e.open = d.open /\ e.sealed = d.sealed /\ e.artifacts = d.artifacts
           /\ e.pins = d.pins /\ e.tombstones = d.tombstones /\ e.catalog = d.catalog
           /\ e.usage = d.usage \ (d.batch[b].objects \union
                 (IF d.batch[b].session = None THEN {} ELSE Of(d.batch[b].session)))
           /\ e.batches = d.batches \ {b}
           /\ \A c \in Batches \ {b} : e.batch[c] = d.batch[c]
<1> DEFINE t == [d.batch EXCEPT ![b] = NoBatch]
           u == d.batch[b].objects \union
                 (IF d.batch[b].session = None THEN {} ELSE Of(d.batch[b].session))
<1>1. NoBatch \in Batch BY DEF Batch, NoBatch
<1>2. t \in [Batches -> Batch] /\ \A c \in Batches \ {b} : t[c] = d.batch[c] BY <1>1 DEF Index
<1> HIDE DEF t
<1>3. Forgotten(d, b) = [d EXCEPT !.usage = @ \ u, !.batches = @ \ {b}, !.batch = t]
  BY DEF Forgotten, Index, t
<1> HIDE DEF u
<1>4. Forgotten(d, b) \in Index BY <1>2, <1>3 DEF Index
<1> QED BY <1>2, <1>3, <1>4 DEF Index, u
-----------------------------------------------------------------------------
\* Every outcome of a flush, the failed ones included, only retouches the index.
LEMMA FlushRetouches ==
    ASSUME TypeOK,
           FlushAndPin \/ Unpin \/ (\E p \in BOOLEAN : Decide(p))
             \/ (\E T \in SUBSET Segments : FlushFails(T))
    PROVE  Retouched(index, index') /\ older' \subseteq older \union {index}
<1>1. index \in Index /\ writer \in SUBSET Segments /\ Flushed \in SUBSET Segments
  BY DEF TypeOK, Flushed
<1>2. CASE FlushAndPin
  <2>1. Retouched(index, Sealing(index, Flushed)) BY <1>1, SealingRetouches
  <2>2. Retouched(Sealing(index, Flushed), PinRows(Sealing(index, Flushed)))
    BY <2>1, PinRowsRetouches DEF Retouched
  <2> QED BY <1>2, <2>1, <2>2, RetouchedTwice DEF FlushAndPin, CommitAndCheckpoint
<1>3. CASE Unpin BY <1>1, <1>3, UnpinnedRetouches DEF Unpin, CommitAndCheckpoint
<1>4. CASE \E p \in BOOLEAN : Decide(p)
  BY <1>1, <1>4, SealingRetouches, RetouchedSelf DEF Decide, CommitAndCheckpoint, log
<1>5. ASSUME NEW T \in SUBSET Segments, FlushFails(T)
      PROVE  Retouched(index, index') /\ older' \subseteq older \union {index}
  <2>1. Retouched(index, Sealing(index, T)) BY <1>1, SealingRetouches
  <2>2. Retouched(index, PinRows(Sealing(index, T)))
    BY <2>1, PinRowsRetouches, RetouchedTwice DEF Retouched
  <2>3. Retouched(index, Unpinned(index)) /\ Retouched(index, index)
    BY <1>1, UnpinnedRetouches, RetouchedSelf
  <2> QED BY <1>5, <2>1, <2>2, <2>3 DEF FlushFails, Commit, log
<1> QED BY <1>2, <1>3, <1>4, <1>5

\* The helpers the actions are made of, with their types.
LEMMA GotoTyped ==
    ASSUME TypeOK, NEW s \in Steps, Goto(s)
    PROVE  /\ task' \in Tasks /\ task'.step = s
           /\ task'.name = task.name /\ task'.arg = task.arg /\ task'.batch = task.batch
  BY DEF Goto, TypeOK, Tasks

LEMMA EnterTyped ==
    ASSUME TypeOK, NEW s \in Steps, NEW b \in Batches \union {None},
           task' = [task EXCEPT !.step = s, !.batch = b]
    PROVE  /\ task' \in Tasks /\ task'.step = s /\ task'.batch = b
           /\ task'.name = task.name /\ task'.arg = task.arg
  BY DEF TypeOK, Tasks

LEMMA IdleTyped ==
    /\ Idle \in Tasks
    /\ Idle.name = "none" /\ Idle.step = "idle" /\ Idle.arg = None /\ Idle.batch = None
  BY DEF Idle, Tasks, Names, Steps

\* A call that gives up is over; the replay of recovery closes the store.
LEMMA GaveUp ==
    ASSUME TypeOK, GiveUp
    PROVE  /\ task' = Idle
           /\ mode' \in {"up", "down", "resuming"}
           /\ mode = "resuming" => mode' = "down" /\ work' = <<>>
           /\ mode # "resuming" => mode' = mode /\ work' = work
  BY DEF GiveUp, TypeOK

\* Sending appends one command whose files are those of the batch.
LEMMA SendTyped ==
    ASSUME TypeOK, NEW b \in Batches, NEW cmd \in {"stage", "finalize"}, Send(cmd, b)
    PROVE  /\ work' \in Seq(Jobs)
           /\ DOMAIN work' = DOMAIN work \union {Len(work) + 1}
           /\ Len(work) + 1 \notin DOMAIN work
           /\ \A i \in DOMAIN work : work'[i] = work[i]
           /\ work'[Len(work) + 1].cmd = cmd /\ work'[Len(work) + 1].batch = b
           /\ work'[Len(work) + 1].todo = index.batch[b].objects
<1> DEFINE j == [cmd |-> cmd, batch |-> b, todo |-> index.batch[b].objects]
<1>1. index.batch[b].objects \in SUBSET Objects BY DEF TypeOK, Index, Batch
<1>2. j \in Jobs BY <1>1 DEF Jobs
<1>3. work \in Seq(Jobs) BY DEF TypeOK, Jobs
<1>4. work' = Append(work, j) BY DEF Send
<1>5. /\ j.cmd = cmd /\ j.batch = b /\ j.todo = index.batch[b].objects OBVIOUS
<1> HIDE DEF j
<1>6. work' \in Seq(Jobs) /\ Len(work') = Len(work) + 1 /\ work'[Len(work) + 1] = j
      /\ \A i \in 1 .. Len(work) : work'[i] = work[i]
  BY <1>2, <1>3, <1>4
<1>7. DOMAIN work = 1 .. Len(work) /\ DOMAIN work' = 1 .. Len(work') /\ Len(work) \in Nat
  BY <1>3, <1>6
<1> QED BY <1>5, <1>6, <1>7

\* Staging or unlinking a file takes it off the first command only.
LEMMA HandledTyped ==
    ASSUME TypeOK, NEW o, work # <<>>, Handled(o)
    PROVE  /\ work' \in Seq(Jobs) /\ DOMAIN work' = DOMAIN work /\ 1 \in DOMAIN work
           /\ \A i \in DOMAIN work : /\ work'[i].cmd = work[i].cmd
                                     /\ work'[i].batch = work[i].batch
                                     /\ work'[i].todo = IF i = 1 THEN work[i].todo \ {o} ELSE work[i].todo
<1> DEFINE j == [work[1] EXCEPT !.todo = @ \ {o}]
<1>1. work \in Seq(Jobs) /\ 1 \in DOMAIN work BY DEF TypeOK, Jobs
<1>2. work[1] \in Jobs BY <1>1
<1>3. j \in Jobs /\ j.cmd = work[1].cmd /\ j.batch = work[1].batch /\ j.todo = work[1].todo \ {o}
  BY <1>2 DEF Jobs
<1>4. work' = [work EXCEPT ![1] = j] BY <1>1, <1>2 DEF Handled, Jobs
<1> HIDE DEF j
<1>5. work' \in Seq(Jobs) /\ DOMAIN work' = DOMAIN work BY <1>1, <1>3, <1>4
<1> QED BY <1>1, <1>3, <1>4, <1>5

\* An answered command leaves the queue and the others move up.
LEMMA TailTyped ==
    ASSUME TypeOK, work # <<>>, work' = Tail(work)
    PROVE  /\ work' \in Seq(Jobs) /\ 1 \in DOMAIN work
           /\ \A i \in DOMAIN work' : i + 1 \in DOMAIN work /\ i + 1 # 1 /\ i \in Nat /\ work'[i] = work[i + 1]
           /\ Len(work) = 1 => work' = <<>>
<1>1. work \in Seq(Jobs) /\ 1 \in DOMAIN work BY DEF TypeOK, Jobs
<1>2. work' \in Seq(Jobs) /\ Len(work') = Len(work) - 1
      /\ \A i \in 1 .. Len(work') : work'[i] = work[i + 1]
  BY <1>1
<1>3. DOMAIN work = 1 .. Len(work) /\ DOMAIN work' = 1 .. Len(work') /\ Len(work) \in Nat
  BY <1>1, <1>2
<1> QED BY <1>1, <1>2, <1>3

LEMMA SpendTyped ==
    ASSUME TypeOK, NEW kind \in {"failures", "cancels", "crashes", "losses"}, NEW max, Spend(kind, max)
    PROVE  /\ spent' \in [{"failures", "cancels", "crashes", "losses"} -> Nat]
           /\ \A k \in {"failures", "cancels", "crashes", "losses"} :
                 spent'[k] = IF k = kind THEN spent[k] + 1 ELSE spent[k]
  BY DEF Spend, TypeOK
-----------------------------------------------------------------------------
\* The type invariant in four parts, each disturbed by few actions.
LogTyped == index \in Index /\ older \subseteq Index
FilesTyped == place \in [Objects -> Places] /\ synced \in [Objects -> Places]
TaskTyped == task \in Tasks /\ work \in Seq(Jobs)
RestTyped ==
    /\ mode \in {"up", "down", "resuming"}
    /\ writer \subseteq Segments /\ fenced \subseteq Sessions
    /\ ended \subseteq Sessions /\ born \subseteq Objects
    /\ promises \in [pinned : SUBSET Segments, deleted : SUBSET Sessions]
    /\ requested \subseteq Sessions /\ unresumed \in BOOLEAN
    /\ spent \in [{"failures", "cancels", "crashes", "losses"} -> Nat]

LEMMA TypeParts == TypeOK <=> LogTyped /\ FilesTyped /\ TaskTyped /\ RestTyped
  BY DEF TypeOK, LogTyped, FilesTyped, TaskTyped, RestTyped, Places, Tasks, Jobs

\* prepare_batch picks a batch identity the journal does not hold.
LEMMA PrepareSteps ==
    ASSUME TypeOK, NEW kind \in {"eviction", "session"}, NEW x \in Sessions \union {None},
           NEW S \in SUBSET Objects, Prepare(kind, x, S)
    PROVE  \E b \in Free :
             /\ index' = Prepared(index, b, kind, x, S) /\ older' = older \union {index}
             /\ task' = [task EXCEPT !.step = "checkpoint", !.batch = b]
             /\ UNCHANGED <<mode, files, writer, fenced, work, ghosts, spent>>
  BY DEF Prepare, Commit

\* Reclaiming an artifact or a segment prepares an eviction of indexed files.
LEMMA ReclaimPrepares ==
    ASSUME TypeOK,
           \/ \E a \in Artifacts : ReclaimArtifact(a) \/ InvalidateArtifact(a)
           \/ \E s \in Segments : ReclaimSegment(s)
    PROVE  /\ At("walk")
           /\ \E S \in SUBSET (index.sealed \union index.artifacts) : Prepare("eviction", None, S)
           /\ mode = "up" \/ Doing("resume", "walk")
<1>1. ASSUME NEW a \in Artifacts, ReclaimArtifact(a) \/ InvalidateArtifact(a)
      PROVE  /\ At("walk") /\ Prepare("eviction", None, {a}) /\ a \in index.artifacts
             /\ mode = "up" \/ Doing("resume", "walk")
  BY <1>1 DEF ReclaimArtifact, InvalidateArtifact, At, Doing
<1>2. ASSUME NEW s \in Segments, ReclaimSegment(s)
      PROVE  /\ At("walk") /\ Prepare("eviction", None, {s} \union LinkedTo(s)) /\ mode = "up"
             /\ {s} \union LinkedTo(s) \subseteq index.sealed \union index.artifacts
  BY <1>2 DEF ReclaimSegment, LinkedTo
<1> QED BY <1>1, <1>2

LEMMA ForgetSteps ==
    ASSUME Forget
    PROVE  index' = Forgotten(index, task.batch) /\ older' = older \union {index}
  BY DEF Forget, Forgotten, Commit, Current

\* Recovery rebuilds the segment rows from the files and keeps the journal.
LEMMA RecoverIndex ==
    ASSUME TypeOK, Recover
    PROVE  /\ index' \in Index
           /\ index'.open = {} /\ index'.sealed = {s \in Segments : place[s] = "live"}
           /\ index'.artifacts \subseteq index.artifacts
           /\ index'.pins = index.pins \ ((index.open \union index.sealed) \ index'.sealed)
           /\ index'.usage = index'.sealed \union (index.usage \intersect index'.artifacts)
           /\ index'.tombstones = index.tombstones
           /\ index'.catalog = index.catalog \union {SessionOf[s] : s \in index'.sealed}
           /\ index'.batches = index.batches /\ index'.batch = index.batch
<1> DEFINE found == {s \in Segments : place[s] = "live"}
           lost == (index.open \union index.sealed) \ found
           kept == {a \in index.artifacts : Sources[a] \intersect lost = {}}
           homes == {SessionOf[s] : s \in found}
<1>1. index' = [index EXCEPT !.open = {}, !.sealed = found, !.artifacts = kept, !.pins = @ \ lost,
                            !.usage = found \union (@ \intersect kept),
                            !.catalog = @ \union homes]
  BY DEF Recover, Commit
<1>2. found \in SUBSET Segments /\ kept \in SUBSET index.artifacts /\ homes \in SUBSET Sessions
  BY JournalAssumption DEF Objects
<1>3. index \in Index BY DEF TypeOK
<1> HIDE DEF found, lost, kept, homes
<1>4. /\ index'.open = {} /\ index'.sealed = found /\ index'.artifacts = kept
      /\ index'.pins = index.pins \ lost
      /\ index'.usage = found \union (index.usage \intersect kept)
      /\ index'.tombstones = index.tombstones /\ index'.catalog = index.catalog \union homes
      /\ index'.batches = index.batches /\ index'.batch = index.batch
  BY <1>1, <1>3 DEF Index
<1>5. index' \in Index
  <2>1. index.pins \ lost \in SUBSET Segments /\ index.catalog \union homes \in SUBSET Sessions
        /\ kept \in SUBSET Artifacts
    BY <1>2, <1>3 DEF Index
  <2>2. found \union (index.usage \intersect kept) \in SUBSET Objects
    BY <1>2, <1>3 DEF Index, Objects
  <2> QED BY <1>1, <1>2, <1>3, <2>1, <2>2 DEF Index
<1> QED BY <1>2, <1>4, <1>5 DEF found, lost, kept, homes

\* The first frame of a segment gives it a row, a usage row and a catalog entry.
LEMMA AppendIndex ==
    ASSUME TypeOK, AppendFrame, task.arg \in Segments
    PROVE  /\ index' \in Index
           /\ index'.open = index.open \union {task.arg} /\ index'.sealed = index.sealed
           /\ index'.artifacts = index.artifacts /\ index'.pins = index.pins
           /\ index'.usage = index.usage \union {task.arg}
           /\ index'.tombstones = index.tombstones
           /\ index'.catalog = index.catalog \union {SessionOf[task.arg]}
           /\ index'.batches = index.batches /\ index'.batch = index.batch
<1>1. SessionOf[task.arg] \in Sessions BY JournalAssumption DEF Objects
<1>2. index \in Index BY DEF TypeOK
<1> DEFINE s == task.arg
           x == SessionOf[s]
<1>3. index' = [index EXCEPT !.open = @ \union {s}, !.usage = @ \union {s}, !.catalog = @ \union {x}]
  BY DEF AppendFrame, Commit
<1>4. s \in Segments /\ x \in Sessions BY <1>1
<1> HIDE DEF s, x
<1>5. /\ index'.open = index.open \union {s} /\ index'.sealed = index.sealed
      /\ index'.artifacts = index.artifacts /\ index'.pins = index.pins
      /\ index'.usage = index.usage \union {s} /\ index'.tombstones = index.tombstones
      /\ index'.catalog = index.catalog \union {x}
      /\ index'.batches = index.batches /\ index'.batch = index.batch
  BY <1>2, <1>3 DEF Index
<1>6. index' \in Index
  <2>1. index.open \union {s} \in SUBSET Segments /\ index.usage \union {s} \in SUBSET Objects
        /\ index.catalog \union {x} \in SUBSET Sessions
    BY <1>2, <1>4 DEF Index, Objects
  <2> QED BY <1>2, <1>3, <2>1 DEF Index
<1> QED BY <1>5, <1>6 DEF s, x

\* Publishing an artifact gives it a row and a usage row.
LEMMA PublishIndex ==
    ASSUME TypeOK, NEW a \in Artifacts, PublishArtifact(a)
    PROVE  /\ index' \in Index
           /\ index'.open = index.open /\ index'.sealed = index.sealed
           /\ index'.artifacts = index.artifacts \union {a} /\ index'.pins = index.pins
           /\ index'.usage = index.usage \union {a}
           /\ index'.tombstones = index.tombstones /\ index'.catalog = index.catalog
           /\ index'.batches = index.batches /\ index'.batch = index.batch
<1>1. index \in Index BY DEF TypeOK
<1>2. index' = [index EXCEPT !.artifacts = @ \union {a}, !.usage = @ \union {a}]
  BY DEF PublishArtifact, Commit
<1>3. index.artifacts \union {a} \in SUBSET Artifacts /\ index.usage \union {a} \in SUBSET Objects
  BY <1>1 DEF Index, Objects
<1> QED BY <1>1, <1>2, <1>3 DEF Index

\* reconcile_artifacts rewrites the usage of the artifacts from their rows.
LEMMA OpenIndex ==
    ASSUME TypeOK, OpenStore
    PROVE  /\ index' \in Index
           /\ index'.open = index.open /\ index'.sealed = index.sealed
           /\ index'.artifacts = index.artifacts /\ index'.pins = index.pins
           /\ index'.usage = (index.usage \ Artifacts) \union index.artifacts
           /\ index'.tombstones = index.tombstones /\ index'.catalog = index.catalog
           /\ index'.batches = index.batches /\ index'.batch = index.batch
<1>1. index \in Index BY DEF TypeOK
<1>2. index' = [index EXCEPT !.usage = (@ \ Artifacts) \union index.artifacts]
  BY DEF OpenStore, Commit
<1>3. (index.usage \ Artifacts) \union index.artifacts \in SUBSET Objects
  BY <1>1 DEF Index, Objects
<1> QED BY <1>1, <1>2, <1>3 DEF Index

\* delete_session prepares all that is indexed of its session after the flush.
LEMMA DeletePrepares ==
    ASSUME TypeOK, NEW b \in Batches, FlushAndPrepare(b), task.arg \in Sessions
    PROVE  \E d \in Index : \E S \in SUBSET (Of(task.arg) \intersect (d.sealed \union d.artifacts)) :
             /\ Retouched(index, d) /\ older' = {d}
             /\ S = Of(task.arg) \intersect (d.sealed \union d.artifacts)
             /\ S \in SUBSET Objects
             /\ index' = Prepared(d, b, "session", task.arg, S)
<1> DEFINE d == Sealing(index, Flushed)
           S == Of(task.arg) \intersect (d.sealed \union d.artifacts)
<1>1. index \in Index /\ Flushed \in SUBSET Segments BY DEF TypeOK, Flushed
<1>2. Retouched(index, d) BY <1>1, SealingRetouches
<1>3. d \in Index BY <1>2 DEF Retouched
<1>4. index' = Prepared(d, b, "session", task.arg, S) /\ older' = {d}
  BY DEF FlushAndPrepare
<1>5. S \in SUBSET Objects BY DEF Of
<1> QED BY <1>2, <1>3, <1>4, <1>5
-----------------------------------------------------------------------------
\* The actions of Next in groups with the same effect.
Flushes == \/ FlushAndPin \/ Unpin \/ (\E p \in BOOLEAN : Decide(p))
           \/ (\E T \in SUBSET Segments : FlushFails(T))

Reclaims == \/ \E a \in Artifacts : ReclaimArtifact(a) \/ InvalidateArtifact(a)
            \/ \E s \in Segments : ReclaimSegment(s)

Begins ==
    \/ \E s \in Segments : BeginAppend(s) \/ BeginPin(s) \/ BeginUnpin(s)
    \/ \E x \in Sessions : BeginDelete(x)
    \/ BeginEnforce

Ends == EnforceDone \/ DeleteDone

Fails == RemoveMetadataBlocked \/ StepFails

\* Every step belongs to one group.
LEMMA EachStep ==
    ASSUME [Next]_vars
    PROVE  \/ UNCHANGED vars
           \/ Begins \/ \E x \in Sessions : MarkDeleted(x)
           \/ \E a \in Artifacts : PublishArtifact(a)
           \/ Flushes \/ \E b \in Batches : FlushAndPrepare(b)
           \/ Reclaims \/ CheckpointJournal
           \/ RemoveMetadata \/ Fails \/ Forget \/ Cancel
           \/ AppendFrame \/ Ends
           \/ \E o \in Objects : StageObject(o)
           \/ \E o \in Objects : UnlinkObject(o)
           \/ SyncStaged \/ SyncFinalized \/ WorkerFails
           \/ Crash \/ PowerLoss \/ Recover
           \/ \E b \in Batches : Resume(b)
           \/ OpenStore
  BY DEF Next, Task, Worker, Calls, Faults, Begins, Flushes, Reclaims, Ends, Fails

\* The steps that touch the index or its unforced versions.
LEMMA LogSteps ==
    ASSUME [Next]_vars
    PROVE  \/ UNCHANGED log
           \/ Flushes \/ (\E b \in Batches : FlushAndPrepare(b))
           \/ Reclaims \/ CheckpointJournal \/ RemoveMetadata \/ Forget
           \/ AppendFrame \/ (\E a \in Artifacts : PublishArtifact(a))
           \/ PowerLoss \/ Recover \/ OpenStore
<1>1. Begins \/ (\E x \in Sessions : MarkDeleted(x)) \/ Ends => UNCHANGED log
  BY DEF Begins, Ends, Begin, BeginAppend, BeginPin, BeginUnpin, BeginDelete, BeginEnforce,
         MarkDeleted, EnforceDone, DeleteDone
<1>2. Fails \/ Cancel \/ Crash \/ (\E b \in Batches : Resume(b)) => UNCHANGED log
  BY DEF Fails, RemoveMetadataBlocked, StepFails, Cancel, Crash, Resume
<1>3. (\E o \in Objects : StageObject(o)) \/ (\E o \in Objects : UnlinkObject(o)) => UNCHANGED log
  BY DEF StageObject, UnlinkObject, WorkerUnchanged
<1>4. SyncStaged \/ SyncFinalized \/ WorkerFails => UNCHANGED log
  BY DEF SyncStaged, SyncFinalized, WorkerFails, Answer, WorkerUnchanged
<1> QED BY <1>1, <1>2, <1>3, <1>4, EachStep DEF vars

\* The steps that touch files.
LEMMA FileSteps ==
    ASSUME [Next]_vars
    PROVE  \/ UNCHANGED files
           \/ AppendFrame \/ (\E a \in Artifacts : PublishArtifact(a))
           \/ (\E o \in Objects : StageObject(o)) \/ (\E o \in Objects : UnlinkObject(o))
           \/ SyncStaged \/ SyncFinalized \/ PowerLoss \/ OpenStore
<1>1. Begins \/ (\E x \in Sessions : MarkDeleted(x)) \/ Ends => UNCHANGED files
  BY DEF Begins, Ends, Begin, BeginAppend, BeginPin, BeginUnpin, BeginDelete, BeginEnforce,
         MarkDeleted, EnforceDone, DeleteDone
<1>2. Fails \/ Cancel \/ Crash \/ (\E b \in Batches : Resume(b)) \/ Recover \/ WorkerFails => UNCHANGED files
  BY DEF Fails, RemoveMetadataBlocked, StepFails, Cancel, Crash, Resume, Recover, WorkerFails
<1>3. Flushes \/ (\E b \in Batches : FlushAndPrepare(b)) => UNCHANGED files
  BY DEF Flushes, FlushAndPin, Unpin, Decide, FlushFails, FlushAndPrepare
<1>4. Reclaims => UNCHANGED files
  BY DEF Reclaims, ReclaimArtifact, InvalidateArtifact, ReclaimSegment, Prepare
<1>5. CheckpointJournal \/ RemoveMetadata \/ Forget => UNCHANGED files
  BY DEF CheckpointJournal, RemoveMetadata, Forget
<1> QED BY <1>1, <1>2, <1>3, <1>4, <1>5, EachStep DEF vars

\* The type invariant, part by part.
LEMMA LogKept ==
    ASSUME TypeOK, ArgsFit, TaskIsJournaled, [Next]_vars
    PROVE  LogTyped'
<1>1. index \in Index /\ older \subseteq Index BY DEF TypeOK
<1>2. CASE UNCHANGED log BY <1>1, <1>2 DEF LogTyped, log
<1>3. CASE Flushes BY <1>1, <1>3, FlushRetouches DEF LogTyped, Retouched, Flushes
<1>4. CASE \E b \in Batches : FlushAndPrepare(b)
  <2>1. task.arg \in Sessions BY <1>4 DEF FlushAndPrepare, Doing, ArgsFit
  <2>2. PICK b \in Batches : FlushAndPrepare(b) BY <1>4
  <2>3. PICK d \in Index : older' = {d} /\ \E S \in SUBSET Objects : index' = Prepared(d, b, "session", task.arg, S)
    BY <2>1, <2>2, DeletePrepares
  <2> QED BY <2>1, <2>3, PreparedIndex DEF LogTyped
<1>5. CASE Reclaims
  <2>1. PICK S \in SUBSET (index.sealed \union index.artifacts) : Prepare("eviction", None, S)
    BY <1>5, ReclaimPrepares DEF Reclaims
  <2>2. S \in SUBSET Objects BY <1>1 DEF Index, Objects
  <2>3. PICK b \in Batches : index' = Prepared(index, b, "eviction", None, S) /\ older' = older \union {index}
    BY <2>1, <2>2, PrepareSteps DEF Free
  <2> QED BY <1>1, <2>2, <2>3, PreparedIndex DEF LogTyped
<1>6. CASE CheckpointJournal BY <1>1, <1>6 DEF CheckpointJournal, LogTyped
<1>7. CASE RemoveMetadata
  <2>1. task.batch \in Batches
    BY <1>1, <1>7 DEF RemoveMetadata, At, TaskIsJournaled, InBatch, Index
  <2>2. index' = Stripped(index, task.batch) /\ older' = older \union {index}
    BY <1>7 DEF RemoveMetadata, Commit
  <2> QED BY <1>1, <2>1, <2>2, StrippedIndex DEF LogTyped
<1>8. CASE Forget
  <2>1. task.batch \in Batches BY <1>1, <1>8 DEF Forget, At, TaskIsJournaled, InBatch, Index
  <2> QED BY <1>1, <1>8, <2>1, ForgetSteps, ForgottenIndex DEF LogTyped
<1>9. CASE AppendFrame
  BY <1>1, <1>9, AppendIndex DEF AppendFrame, WalkOver, Doing, ArgsFit, Commit, LogTyped
<1>10. CASE \E a \in Artifacts : PublishArtifact(a)
  BY <1>1, <1>10, PublishIndex DEF PublishArtifact, Commit, LogTyped
<1>11. CASE PowerLoss BY <1>1, <1>11 DEF PowerLoss, LogTyped
<1>12. CASE Recover BY <1>1, <1>12, RecoverIndex DEF Recover, Commit, LogTyped
<1>13. CASE OpenStore BY <1>1, <1>13, OpenIndex DEF OpenStore, Commit, LogTyped
<1> QED BY <1>2, <1>3, <1>4, <1>5, <1>6, <1>7, <1>8, <1>9, <1>10, <1>11, <1>12, <1>13, LogSteps

LEMMA FilesKept ==
    ASSUME TypeOK, ArgsFit, [Next]_vars
    PROVE  FilesTyped'
<1>1. place \in [Objects -> Places] /\ synced \in [Objects -> Places] BY DEF TypeOK, Places
<1>2. "live" \in Places /\ "absent" \in Places BY DEF Places
<1>3. CASE UNCHANGED files BY <1>1, <1>3 DEF FilesTyped, files
<1>4. CASE AppendFrame BY <1>1, <1>2, <1>4 DEF AppendFrame, FilesTyped
<1>5. CASE \E a \in Artifacts : PublishArtifact(a)
  BY <1>1, <1>2, <1>5 DEF PublishArtifact, FilesTyped
<1>6. CASE (\E o \in Objects : StageObject(o)) \/ (\E o \in Objects : UnlinkObject(o))
  <2>1. work # <<>> BY <1>6 DEF StageObject, UnlinkObject, Running
  <2>2. work \in Seq(Jobs) BY DEF TypeOK, Jobs
  <2>3. work[1] \in Jobs BY <2>1, <2>2
  <2>4. Job.batch \in Places BY <2>3 DEF Job, Jobs, Places
  <2>5. synced' = synced BY <1>6 DEF StageObject, UnlinkObject
  <2> QED BY <1>1, <1>2, <1>6, <2>4, <2>5 DEF StageObject, UnlinkObject, FilesTyped
<1>7. CASE SyncStaged \/ SyncFinalized
  BY <1>1, <1>2, <1>7 DEF SyncStaged, SyncFinalized, Answer, FilesTyped
<1>8. CASE PowerLoss BY <1>1, <1>8 DEF PowerLoss, FilesTyped
<1>9. CASE OpenStore BY <1>1, <1>2, <1>9 DEF OpenStore, FilesTyped
<1> QED BY <1>3, <1>4, <1>5, <1>6, <1>7, <1>8, <1>9, FileSteps
-----------------------------------------------------------------------------
\* What each group does to the call under way, the queue and the promises.
LEMMA BeginTask ==
    ASSUME TypeOK, Begins
    PROVE  /\ mode = "up" /\ task = Idle /\ work' = work /\ UNCHANGED <<mode, log, files, spent>>
           /\ UNCHANGED <<writer, fenced, ended, born, requested, unresumed>>
           /\ promises'.deleted = promises.deleted /\ promises'.pinned \subseteq promises.pinned
           /\ promises' \in [pinned : SUBSET Segments, deleted : SUBSET Sessions]
           /\ task' \in Tasks /\ task'.step \in {"decide", "flush"} /\ task'.name # "resume"
           /\ task'.name \in {"append", "pin", "unpin"} => task'.arg \in Segments
           /\ task'.name = "delete" => /\ task'.arg \in Sessions /\ task'.arg \in fenced
                                       /\ task'.step = "flush"
           /\ task'.name = "append" => task'.arg \notin born /\ SessionOf[task'.arg] \notin fenced \union ended
<1>1. ASSUME NEW n \in Names, NEW arg \in Segments \union Sessions \union {None}, NEW s \in {"decide", "flush"},
             n # "resume", n = "none" => FALSE,
             n \in {"append", "pin", "unpin"} => arg \in Segments,
             n = "delete" => arg \in Sessions /\ arg \in fenced /\ s = "flush",
             n = "append" => arg \notin born /\ SessionOf[arg] \notin fenced \union ended,
             Begin(n, arg, s)
      PROVE  /\ mode = "up" /\ task = Idle /\ work' = work
             /\ UNCHANGED <<mode, log, files, spent>>
             /\ UNCHANGED <<writer, fenced, ended, born, requested, unresumed>>
             /\ promises'.deleted = promises.deleted /\ promises'.pinned \subseteq promises.pinned
             /\ promises' \in [pinned : SUBSET Segments, deleted : SUBSET Sessions]
             /\ task' \in Tasks /\ task'.step = s /\ task'.name = n /\ task'.arg = arg
  <2>1. task' = [name |-> n, arg |-> arg, step |-> s, batch |-> None] BY <1>1 DEF Begin
  <2>2. s \in Steps BY DEF Steps
  <2>3. task' \in Tasks /\ task'.step = s /\ task'.name = n /\ task'.arg = arg
    BY <2>1, <2>2 DEF Tasks, Objects
  <2>4. promises' = promises \/ promises' = [promises EXCEPT !.pinned = @ \ {arg}]
    BY <1>1 DEF Begin
  <2>5. /\ promises'.deleted = promises.deleted /\ promises'.pinned \subseteq promises.pinned
        /\ promises' \in [pinned : SUBSET Segments, deleted : SUBSET Sessions]
    BY <2>4 DEF TypeOK
  <2> QED BY <1>1, <2>3, <2>5 DEF Begin
<1>2. ASSUME NEW s \in Segments, BeginAppend(s)
      PROVE  Begin("append", s, "decide") /\ s \notin born /\ SessionOf[s] \notin fenced \union ended
  BY <1>2 DEF BeginAppend
<1>3. {"append", "pin", "unpin", "delete", "enforce"} \subseteq Names BY DEF Names
<1>4. CASE \E s \in Segments : BeginAppend(s) BY <1>1, <1>2, <1>3, <1>4
<1>5. CASE \E s \in Segments : BeginPin(s) BY <1>1, <1>3, <1>5 DEF BeginPin
<1>6. CASE \E s \in Segments : BeginUnpin(s) BY <1>1, <1>3, <1>6 DEF BeginUnpin
<1>7. CASE \E x \in Sessions : BeginDelete(x) BY <1>1, <1>3, <1>7 DEF BeginDelete
<1>8. CASE BeginEnforce BY <1>1, <1>3, <1>8 DEF BeginEnforce
<1> QED BY <1>4, <1>5, <1>6, <1>7, <1>8 DEF Begins

\* A flush leaves the call idle, about to decide or at the walk.
LEMMA FlushTask ==
    ASSUME TypeOK, PhasesAreOrderly, Flushes
    PROVE  /\ mode = "up"
           /\ UNCHANGED <<mode, work, files, fenced, ended, born, requested, unresumed>>
           /\ promises'.deleted = promises.deleted
           /\ promises' \in [pinned : SUBSET Segments, deleted : SUBSET Sessions]
           /\ task.step \in {"flush", "decide"}
           /\ writer' \subseteq writer
           /\ \/ task' = Idle
              \/ /\ task' \in Tasks /\ task'.name = task.name /\ task'.arg = task.arg
                 /\ task'.step \in {"decide", "walk"}
<1>1. {"decide", "walk"} \subseteq Steps BY DEF Steps
<1>2. task.step \in {"flush", "decide"}
  BY DEF Flushes, FlushAndPin, Unpin, Decide, FlushFails, FlushStep, Doing, At
<1>3. mode = "up" BY <1>2, IdleTyped DEF PhasesAreOrderly, InBatch, TypeOK
<1>4. CASE FlushAndPin
  <2>1. index' \in Index BY <1>4, FlushRetouches DEF Retouched
  <2>2. promises' = [promises EXCEPT !.pinned = @ \union (index'.pins \intersect {task.arg})]
    BY <1>4 DEF FlushAndPin
  <2>3. index'.pins \intersect {task.arg} \subseteq Segments BY <2>1 DEF Index
  <2>4. /\ promises'.deleted = promises.deleted
        /\ promises' \in [pinned : SUBSET Segments, deleted : SUBSET Sessions]
    BY <2>2, <2>3 DEF TypeOK
  <2>5. \/ task' = Idle
        \/ /\ task' \in Tasks /\ task'.name = task.name /\ task'.arg = task.arg
           /\ task'.step \in {"decide", "walk"}
    BY <1>1, <1>4, GotoTyped DEF FlushAndPin
  <2>6. /\ UNCHANGED <<files, fenced, ended, born, requested, unresumed, mode, work>>
        /\ writer' \subseteq writer
    BY <1>4 DEF FlushAndPin
  <2> QED BY <1>2, <1>3, <2>4, <2>5, <2>6
<1>5. CASE Unpin BY <1>1, <1>2, <1>3, <1>5, GotoTyped DEF Unpin, ghosts, TypeOK
<1>6. CASE \E p \in BOOLEAN : Decide(p)
  BY <1>1, <1>2, <1>3, <1>6, GotoTyped DEF Decide, ghosts, TypeOK
<1>7. CASE \E T \in SUBSET Segments : FlushFails(T)
  BY <1>2, <1>3, <1>7, GaveUp DEF FlushFails, ghosts, TypeOK
<1> QED BY <1>4, <1>5, <1>6, <1>7 DEF Flushes

\* A reclaim starts an eviction, from the walk.
LEMMA ReclaimTask ==
    ASSUME TypeOK, Reclaims
    PROVE  /\ task.step = "walk"
           /\ mode = "up" \/ task.name = "resume"
           /\ UNCHANGED <<mode, files, writer, fenced, work, ghosts, spent>>
           /\ older' = older \union {index}
           /\ \E S \in SUBSET (index.sealed \union index.artifacts) : \E b \in Free :
                /\ S \in SUBSET Objects
                /\ index' = Prepared(index, b, "eviction", None, S)
                /\ task' \in Tasks /\ task'.step = "checkpoint" /\ task'.batch = b
                /\ task'.name = task.name /\ task'.arg = task.arg
<1>1. PICK S \in SUBSET (index.sealed \union index.artifacts) : Prepare("eviction", None, S)
  BY ReclaimPrepares DEF Reclaims
<1>2. S \in SUBSET Objects BY DEF TypeOK, Index, Objects
<1>3. PICK b \in Free :
             /\ index' = Prepared(index, b, "eviction", None, S) /\ older' = older \union {index}
             /\ task' = [task EXCEPT !.step = "checkpoint", !.batch = b]
             /\ UNCHANGED <<mode, files, writer, fenced, work, ghosts, spent>>
  BY <1>1, <1>2, PrepareSteps
<1>4. b \in Batches \union {None} /\ "checkpoint" \in Steps BY DEF Free, Steps
<1>5. /\ task' \in Tasks /\ task'.step = "checkpoint" /\ task'.batch = b
      /\ task'.name = task.name /\ task'.arg = task.arg
  BY <1>3, <1>4, EnterTyped
<1>6. task.step = "walk" /\ (mode = "up" \/ task.name = "resume")
  BY ReclaimPrepares DEF Reclaims, At, Doing
<1> QED BY <1>2, <1>3, <1>5, <1>6

\* A deletion starts its batch, from the flush.
LEMMA DeleteTask ==
    ASSUME TypeOK, NEW b \in Batches, FlushAndPrepare(b)
    PROVE  /\ task.name = "delete" /\ task.step = "flush" /\ b \in Free
           /\ task' \in Tasks /\ task'.step = "checkpoint" /\ task'.batch = b
           /\ task'.name = task.name /\ task'.arg = task.arg
           /\ writer' \subseteq writer
           /\ UNCHANGED <<mode, files, fenced, work, ghosts, spent>>
<1>1. "checkpoint" \in Steps /\ b \in Batches \union {None} BY DEF Steps
<1> QED BY <1>1, EnterTyped DEF FlushAndPrepare, Doing

\* After the batch is forgotten the call goes on deciding or walking.
LEMMA ForgetTask ==
    ASSUME TypeOK, Forget
    PROVE  /\ task.step = "forget"
           /\ task' \in Tasks /\ task'.batch = None
           /\ task'.name = task.name /\ task'.arg = task.arg
           /\ task'.step = IF task.name = "delete" /\ Current.kind = "session" THEN "decide" ELSE "walk"
           /\ UNCHANGED <<mode, files, writer, fenced, work, ghosts, spent>>
<1> DEFINE s == IF task.name = "delete" /\ Current.kind = "session" THEN "decide" ELSE "walk"
<1>1. s \in Steps /\ None \in Batches \union {None} BY DEF Steps
<1>2. task' = [task EXCEPT !.step = s, !.batch = None] BY DEF Forget, At, Doing, TypeOK
<1> HIDE DEF s
<1>3. /\ task' \in Tasks /\ task'.batch = None /\ task'.step = s
      /\ task'.name = task.name /\ task'.arg = task.arg
  BY <1>1, <1>2, EnterTyped
<1> QED BY <1>3 DEF s, Forget, At

\* A failed step ends the call, and closes the store during the replay.
LEMMA FailTask ==
    ASSUME TypeOK, PhasesAreOrderly, Fails
    PROVE  /\ UNCHANGED <<log, files, writer, fenced, ended, born, promises, requested>>
           /\ task' = Idle
           /\ \/ mode = "up" /\ UNCHANGED <<mode, work>>
              \/ mode = "resuming" /\ mode' = "down" /\ work' = <<>>
<1>1. task.step \in {"walk", "checkpoint", "metadata", "forget"}
  BY DEF Fails, RemoveMetadataBlocked, StepFails, At
<1>2. mode # "down" BY <1>1, IdleTyped DEF PhasesAreOrderly
<1>3. GiveUp /\ UNCHANGED <<log, files, writer, fenced, ended, born, promises, requested>>
  BY DEF Fails, RemoveMetadataBlocked, StepFails, ghosts
<1> QED BY <1>2, <1>3, GaveUp DEF TypeOK

\* An answer moves the call on only when it still waits for it.
LEMMA AnswerTask ==
    ASSUME TypeOK, NEW s \in Steps, work # <<>>, Answer(s)
    PROVE  /\ UNCHANGED <<mode, place, spent, log, writer, fenced, ghosts>>
           /\ work' = Tail(work)
           /\ Waiting => task' \in Tasks /\ task'.step = s /\ task'.batch = task.batch
                         /\ task'.name = task.name /\ task'.arg = task.arg
           /\ ~Waiting => task' = task
  BY GotoTyped DEF Answer, WorkerUnchanged

\* A failed command ends the call that waits for it; nobody else notices.
LEMMA FailedJob ==
    ASSUME TypeOK, PhasesAreOrderly, WorkerFails
    PROVE  /\ work # <<>> /\ UNCHANGED <<files, log, writer, fenced, ghosts>>
           /\ Waiting => task' = Idle
           /\ ~Waiting => task' = task
           /\ \/ mode = "resuming" /\ Waiting /\ mode' = "down" /\ work' = <<>>
              \/ ~(mode = "resuming" /\ Waiting) /\ mode' = mode /\ work' = Tail(work)
  BY DEF WorkerFails, WorkerUnchanged

\* The replay takes a batch up where its journal state says it was left.
LEMMA ResumeTask ==
    ASSUME TypeOK, NEW b \in Batches, Resume(b)
    PROVE  /\ task.name = "resume" /\ task.step = "walk" /\ b \in index.batches
           /\ UNCHANGED <<mode, log, files, writer, fenced, ghosts, spent>>
           /\ \E cmd \in {"stage", "finalize"} :
                /\ cmd = IF index.batch[b].state = "prepared" THEN "stage" ELSE "finalize"
                /\ Send(cmd, b)
                /\ task' \in Tasks /\ task'.step = cmd /\ task'.batch = b
                /\ task'.name = task.name /\ task'.arg = task.arg
<1> DEFINE cmd == IF index.batch[b].state = "prepared" THEN "stage" ELSE "finalize"
<1>1. cmd \in {"stage", "finalize"} /\ cmd \in Steps BY DEF Steps
<1>2. /\ task.name = "resume" /\ task.step = "walk" /\ b \in index.batches
      /\ UNCHANGED <<mode, log, files, writer, fenced, ghosts, spent>>
      /\ Send(cmd, b) /\ task' = [task EXCEPT !.step = cmd, !.batch = b]
  BY DEF Resume, Doing
<1> HIDE DEF cmd
<1>3. /\ task' \in Tasks /\ task'.step = cmd /\ task'.batch = b
      /\ task'.name = task.name /\ task'.arg = task.arg
  BY <1>1, <1>2, EnterTyped
<1> QED BY <1>1, <1>2, <1>3 DEF cmd

\* Once the entry is forced, no older version can come back, and staging is sent.
LEMMA CheckpointTask ==
    ASSUME TypeOK, TaskIsJournaled, CheckpointJournal
    PROVE  /\ task.step = "checkpoint" /\ task.batch \in Batches /\ Send("stage", task.batch)
           /\ older' = {} /\ UNCHANGED <<mode, index, files, writer, fenced, ghosts, spent>>
           /\ task' \in Tasks /\ task'.step = "stage" /\ task'.batch = task.batch
           /\ task'.name = task.name /\ task'.arg = task.arg
<1>1. task.batch \in Batches
  BY DEF CheckpointJournal, At, TaskIsJournaled, InBatch, TypeOK, Index
<1>2. "stage" \in Steps BY DEF Steps
<1> QED BY <1>1, <1>2, GotoTyped DEF CheckpointJournal, At

\* Once the rows are deleted, finalizing is sent.
LEMMA RemoveTask ==
    ASSUME TypeOK, TaskIsJournaled, RemoveMetadata
    PROVE  /\ task.step = "metadata" /\ task.batch \in Batches /\ Send("finalize", task.batch)
           /\ older' = older \union {index} /\ index' = Stripped(index, task.batch)
           /\ UNCHANGED <<mode, files, writer, fenced, ended, born, requested, unresumed, spent>>
           /\ task' \in Tasks /\ task'.step = "finalize" /\ task'.batch = task.batch
           /\ task'.name = task.name /\ task'.arg = task.arg
           /\ promises'.deleted = promises.deleted
           /\ promises' \in [pinned : SUBSET Segments, deleted : SUBSET Sessions]
<1>1. task.batch \in Batches
  BY DEF RemoveMetadata, At, TaskIsJournaled, InBatch, TypeOK, Index
<1>2. "finalize" \in Steps BY DEF Steps
<1>3. /\ promises'.deleted = promises.deleted
      /\ promises' \in [pinned : SUBSET Segments, deleted : SUBSET Sessions]
  BY DEF RemoveMetadata, TypeOK
<1> QED BY <1>1, <1>2, <1>3, GotoTyped DEF RemoveMetadata, At, Commit

\* A crash or a loss of power forgets the call, the queue and the fences.
LEMMA StopTask ==
    ASSUME TypeOK, Stop
    PROVE  /\ mode' = "down" /\ task' = Idle /\ work' = <<>> /\ work' \in Seq(Jobs)
           /\ writer' = {} /\ fenced' = {} /\ UNCHANGED <<born, promises, requested, unresumed>>
           /\ ended' = ended \union requested \union {SessionOf[o] : o \in born}
           /\ ended' \subseteq Sessions
<1>1. {SessionOf[o] : o \in born} \subseteq Sessions BY JournalAssumption DEF TypeOK
<1> QED BY <1>1 DEF Stop, TypeOK
-----------------------------------------------------------------------------
\* The state of the calls and of the queue: what it takes to follow a batch.
Control == /\ TypeOK /\ JobsAreJournaled /\ JobsAreDistinct
           /\ TaskIsJournaled /\ PhasesAreOrderly /\ ArgsFit

LEMMA TaskKept ==
    ASSUME Control, [Next]_vars
    PROVE  TaskTyped' /\ ArgsFit'
<1>1. TaskTyped BY TypeParts DEF Control
<1>2. SUFFICES task' \in Tasks /\ work' \in Seq(Jobs) /\ ArgsFit' BY DEF TaskTyped
<1>3. <<>> \in Seq(Jobs) OBVIOUS
<1>4. ASSUME task' = Idle PROVE task' \in Tasks /\ ArgsFit' BY <1>4, IdleTyped DEF ArgsFit
<1>5. ASSUME task'.name = task.name, task'.arg = task.arg PROVE ArgsFit'
  BY <1>5 DEF ArgsFit, Control
<1>6. CASE UNCHANGED <<task, work>> BY <1>1, <1>5, <1>6 DEF TaskTyped
<1>7. CASE Begins BY <1>1, <1>7, BeginTask DEF TaskTyped, Control, ArgsFit
<1>8. CASE (\E x \in Sessions : MarkDeleted(x)) \/ \E a \in Artifacts : PublishArtifact(a)
  BY <1>6, <1>8 DEF MarkDeleted, PublishArtifact
<1>9. CASE Flushes BY <1>1, <1>4, <1>5, <1>9, FlushTask DEF TaskTyped, Control
<1>10. CASE \E b \in Batches : FlushAndPrepare(b)
  BY <1>1, <1>5, <1>10, DeleteTask DEF TaskTyped, Control
<1>11. CASE Reclaims BY <1>1, <1>5, <1>11, ReclaimTask DEF TaskTyped, Control
<1>12. CASE CheckpointJournal BY <1>5, <1>12, CheckpointTask, SendTyped DEF Control
<1>13. CASE RemoveMetadata BY <1>5, <1>13, RemoveTask, SendTyped DEF Control
<1>14. CASE Fails BY <1>1, <1>3, <1>4, <1>14, FailTask DEF TaskTyped, Control
<1>15. CASE Forget BY <1>1, <1>5, <1>15, ForgetTask DEF TaskTyped, Control
<1>16. CASE Cancel BY <1>1, <1>4, <1>16 DEF Cancel, TaskTyped
<1>17. CASE AppendFrame \/ Ends
  BY <1>1, <1>4, <1>17 DEF AppendFrame, Ends, EnforceDone, DeleteDone, WalkOver, TaskTyped
<1>18. CASE (\E o \in Objects : StageObject(o)) \/ \E o \in Objects : UnlinkObject(o)
  BY <1>1, <1>5, <1>18, HandledTyped DEF StageObject, UnlinkObject, Running, TaskTyped, Control
<1>19. CASE SyncStaged \/ SyncFinalized
  <2>1. {"metadata", "forget"} \subseteq Steps BY DEF Steps
  <2>2. work # <<>> /\ (Answer("metadata") \/ Answer("forget"))
    BY <1>19 DEF SyncStaged, SyncFinalized, Running
  <2> QED BY <1>1, <1>5, <2>1, <2>2, AnswerTask, TailTyped DEF TaskTyped, Control
<1>20. CASE WorkerFails
  BY <1>1, <1>3, <1>4, <1>5, <1>20, FailedJob, TailTyped DEF TaskTyped, Control
<1>21. CASE Crash \/ PowerLoss BY <1>4, <1>21, StopTask DEF Crash, PowerLoss, Control
<1>22. CASE Recover
  <2>1. task' = [name |-> "resume", arg |-> None, step |-> "walk", batch |-> None] /\ work' = work
    BY <1>22 DEF Recover
  <2>2. "resume" \in Names /\ "walk" \in Steps BY DEF Names, Steps
  <2> QED BY <1>1, <2>1, <2>2 DEF Tasks, ArgsFit, TaskTyped
<1>23. CASE \E b \in Batches : Resume(b) BY <1>5, <1>23, ResumeTask, SendTyped DEF Control
<1>24. CASE OpenStore BY <1>1, <1>4, <1>24 DEF OpenStore, TaskTyped
<1>25. CASE UNCHANGED vars BY <1>6, <1>25 DEF vars
<1> QED BY <1>7, <1>8, <1>9, <1>10, <1>11, <1>12, <1>13, <1>14, <1>15, <1>16, <1>17, <1>18,
           <1>19, <1>20, <1>21, <1>22, <1>23, <1>24, <1>25, EachStep

\* During the replay the only command is the one recovery waits for.
LEMMA OnlyJob ==
    ASSUME Control, mode = "resuming", work # <<>>
    PROVE  Waiting /\ Tail(work) = <<>>
<1>1. work \in Seq(Jobs) /\ 1 \in DOMAIN work BY DEF Control, TypeOK, Jobs
<1>2. work[1].batch = task.batch /\ \A i \in DOMAIN work : i = 1
  BY <1>1 DEF Control, PhasesAreOrderly, JobsAreDistinct
<1>3. Len(work) \in Nat /\ DOMAIN work = 1 .. Len(work) BY <1>1
<1>4. Len(work) = 1
  <2>1. Len(work) \in DOMAIN work BY <1>1, <1>3
  <2> QED BY <1>2, <2>1
<1>5. Tail(work) = <<>>
  <2>1. Tail(work) \in Seq(Jobs) /\ Len(Tail(work)) = 0 BY <1>1, <1>4
  <2> QED BY <2>1, EmptySeq
<1>6. work[1] \in Jobs BY <1>1
<1>7. task.step \in {"stage", "finalize"} /\ work[1].cmd \in {"stage", "finalize"}
  BY <1>6 DEF Control, PhasesAreOrderly, Jobs
<1>8. work[1].cmd = task.step
  BY <1>1, <1>2, <1>7 DEF Control, JobsAreJournaled, TaskIsJournaled, InBatch, BeforeRows
<1> QED BY <1>2, <1>5, <1>8 DEF Waiting, Job

LEMMA PhasesKept ==
    ASSUME Control, [Next]_vars
    PROVE  PhasesAreOrderly'
<1>1. TypeOK /\ PhasesAreOrderly BY DEF Control
<1>2. Idle.name = "none" /\ Idle.step = "idle" BY IdleTyped
<1>3. CASE UNCHANGED <<mode, task, work>> BY <1>1, <1>3 DEF PhasesAreOrderly
<1>4. CASE Begins BY <1>4, <1>1, BeginTask DEF PhasesAreOrderly
<1>5. CASE (\E x \in Sessions : MarkDeleted(x)) \/ \E a \in Artifacts : PublishArtifact(a)
  BY <1>3, <1>5 DEF MarkDeleted, PublishArtifact
<1>6. CASE Flushes BY <1>1, <1>2, <1>6, FlushTask DEF PhasesAreOrderly
<1>7. CASE \E b \in Batches : FlushAndPrepare(b)
  BY <1>1, <1>2, <1>7, DeleteTask DEF PhasesAreOrderly
<1>8. CASE Reclaims
  <2>1. /\ UNCHANGED <<mode, work>> /\ task.step = "walk"
        /\ task'.name = task.name /\ task'.step = "checkpoint"
    BY <1>1, <1>8, ReclaimTask
  <2>2. mode # "down" BY <1>1, <1>2, <2>1 DEF PhasesAreOrderly
  <2>3. mode = "resuming" => work = <<>> BY <1>1, <2>1 DEF PhasesAreOrderly
  <2> QED BY <1>1, <2>1, <2>2, <2>3 DEF PhasesAreOrderly, InBatch
<1>9. CASE CheckpointJournal
  <2>1. /\ UNCHANGED mode /\ task'.name = task.name /\ task'.step = "stage"
        /\ task'.batch = task.batch /\ Send("stage", task.batch) /\ task.batch \in Batches
        /\ task.step = "checkpoint"
    BY <1>9, CheckpointTask DEF Control
  <2>2. mode = "resuming" => work = <<>> BY <1>1, <2>1 DEF PhasesAreOrderly
  <2>3. mode = "resuming" => \A i \in DOMAIN work' : work'[i].batch = task.batch
    BY <1>1, <2>1, <2>2, SendTyped
  <2>4. mode # "down" BY <1>1, <1>2, <2>1 DEF PhasesAreOrderly
  <2> QED BY <1>1, <2>1, <2>3, <2>4 DEF PhasesAreOrderly, InBatch
<1>10. CASE RemoveMetadata
  <2>1. /\ UNCHANGED mode /\ task'.name = task.name /\ task'.step = "finalize"
        /\ task'.batch = task.batch /\ Send("finalize", task.batch) /\ task.batch \in Batches
        /\ task.step = "metadata"
    BY <1>10, RemoveTask DEF Control
  <2>2. mode = "resuming" => work = <<>> BY <1>1, <2>1 DEF PhasesAreOrderly
  <2>3. mode = "resuming" => \A i \in DOMAIN work' : work'[i].batch = task.batch
    BY <1>1, <2>1, <2>2, SendTyped
  <2>4. mode # "down" BY <1>1, <1>2, <2>1 DEF PhasesAreOrderly
  <2> QED BY <1>1, <2>1, <2>3, <2>4 DEF PhasesAreOrderly, InBatch
<1>11. CASE Fails BY <1>1, <1>2, <1>11, FailTask DEF PhasesAreOrderly
<1>12. CASE Forget
  <2>1. /\ UNCHANGED <<mode, work>> /\ task.step = "forget"
        /\ task'.name = task.name
        /\ task.name = "resume" => task'.step = "walk"
    BY <1>1, <1>12, ForgetTask
  <2>2. mode # "down" BY <1>1, <1>2, <2>1 DEF PhasesAreOrderly
  <2>3. mode = "resuming" => work = <<>> BY <1>1, <2>1 DEF PhasesAreOrderly
  <2> QED BY <1>1, <2>1, <2>2, <2>3 DEF PhasesAreOrderly
<1>13. CASE Cancel BY <1>1, <1>2, <1>13 DEF Cancel, PhasesAreOrderly
<1>14. CASE AppendFrame \/ Ends
  BY <1>1, <1>2, <1>14 DEF AppendFrame, Ends, EnforceDone, DeleteDone, WalkOver, PhasesAreOrderly
<1>15. CASE (\E o \in Objects : StageObject(o)) \/ \E o \in Objects : UnlinkObject(o)
  <2>1. UNCHANGED <<mode, task>> /\ work # <<>> /\ \E o \in Objects : Handled(o)
    BY <1>15 DEF StageObject, UnlinkObject, Running
  <2>2. DOMAIN work' = DOMAIN work /\ \A i \in DOMAIN work : work'[i].batch = work[i].batch
    BY <1>1, <2>1, HandledTyped
  <2> QED BY <1>1, <2>1, <2>2 DEF PhasesAreOrderly
<1>16. CASE SyncStaged \/ SyncFinalized
  <2>1. {"metadata", "forget"} \subseteq Steps BY DEF Steps
  <2>2. work # <<>> /\ (Answer("metadata") \/ Answer("forget"))
    BY <1>16 DEF SyncStaged, SyncFinalized, Running
  <2>3. /\ mode' = mode /\ work' = Tail(work) /\ task'.name = task.name
        /\ Waiting => task'.step \in InBatch
    BY <1>1, <2>1, <2>2, AnswerTask DEF InBatch
  <2>4. mode # "down" BY <1>1, <2>2 DEF PhasesAreOrderly
  <2>5. mode = "resuming" => work' = <<>> /\ task'.step \in InBatch BY <2>2, <2>3, OnlyJob
  <2> QED BY <1>1, <2>3, <2>4, <2>5 DEF PhasesAreOrderly
<1>17. CASE WorkerFails
  <2>1. mode # "down" /\ work # <<>> BY <1>1, <1>17, FailedJob DEF PhasesAreOrderly
  <2>2. mode = "resuming" => mode' = "down" /\ work' = <<>> /\ task' = Idle
    BY <1>1, <1>17, <2>1, FailedJob, OnlyJob
  <2>3. mode = "up" => mode' = "up" /\ task' \in {task, Idle}
    BY <1>1, <1>17, FailedJob
  <2> QED BY <1>1, <1>2, <2>1, <2>2, <2>3 DEF PhasesAreOrderly, TypeOK
<1>18. CASE Crash \/ PowerLoss BY <1>1, <1>18, StopTask DEF Crash, PowerLoss, PhasesAreOrderly
<1>19. CASE Recover BY <1>1, <1>19 DEF Recover, PhasesAreOrderly
<1>20. CASE \E b \in Batches : Resume(b)
  <2>1. PICK b \in Batches : Resume(b) BY <1>20
  <2>2. PICK cmd \in {"stage", "finalize"} : Send(cmd, b) /\ task'.step = cmd /\ task'.batch = b
                                             /\ task'.name = task.name
    BY <1>1, <2>1, ResumeTask
  <2>3. mode = "resuming" /\ mode' = "resuming" /\ task.name = "resume" /\ work = <<>>
    BY <1>1, <1>2, <2>1, ResumeTask DEF PhasesAreOrderly, TypeOK
  <2>4. \A i \in DOMAIN work' : work'[i].batch = b BY <1>1, <2>2, <2>3, SendTyped
  <2> QED BY <2>2, <2>3, <2>4 DEF PhasesAreOrderly, InBatch
<1>21. CASE OpenStore BY <1>1, <1>2, <1>21 DEF OpenStore, PhasesAreOrderly
<1>22. CASE UNCHANGED vars BY <1>3, <1>22 DEF vars
<1> QED BY <1>4, <1>5, <1>6, <1>7, <1>8, <1>9, <1>10, <1>11, <1>12, <1>13, <1>14, <1>15,
           <1>16, <1>17, <1>18, <1>19, <1>20, <1>21, <1>22, EachStep

LEMMA RestKept ==
    ASSUME Control, [Next]_vars
    PROVE  RestTyped'
<1>1. RestTyped BY TypeParts DEF Control
<1>2. TypeOK /\ PhasesAreOrderly BY DEF Control
<1>3. CASE UNCHANGED <<mode, writer, fenced, ghosts, spent>> BY <1>1, <1>3 DEF RestTyped, ghosts
<1>4. CASE Begins BY <1>1, <1>2, <1>4, BeginTask DEF RestTyped
<1>5. CASE \E x \in Sessions : MarkDeleted(x) BY <1>1, <1>5 DEF MarkDeleted, RestTyped
<1>6. CASE \E a \in Artifacts : PublishArtifact(a)
  BY <1>1, <1>6 DEF PublishArtifact, RestTyped, Objects
<1>7. CASE Flushes
  <2>1. spent' = spent \/ \E T \in SUBSET Segments : FlushFails(T)
    BY <1>7 DEF Flushes, FlushAndPin, Unpin, Decide
  <2>2. spent' \in [{"failures", "cancels", "crashes", "losses"} -> Nat]
    BY <1>1, <1>2, <2>1, SpendTyped DEF FlushFails, RestTyped
  <2> QED BY <1>1, <1>2, <1>7, <2>2, FlushTask DEF RestTyped
<1>8. CASE \E b \in Batches : FlushAndPrepare(b)
  BY <1>1, <1>2, <1>8, DeleteTask DEF RestTyped, ghosts
<1>9. CASE Reclaims BY <1>2, <1>3, <1>9, ReclaimTask
<1>10. CASE CheckpointJournal BY <1>3, <1>10, CheckpointTask DEF Control
<1>11. CASE RemoveMetadata BY <1>1, <1>11, RemoveTask DEF Control, RestTyped
<1>12. CASE Fails
  <2>1. unresumed' \in BOOLEAN /\ spent' \in [{"failures", "cancels", "crashes", "losses"} -> Nat]
    BY <1>1, <1>2, <1>12, SpendTyped
       DEF Fails, RemoveMetadataBlocked, StepFails, RestTyped, ghosts
  <2> QED BY <1>1, <1>2, <1>12, <2>1, FailTask DEF RestTyped
<1>13. CASE Forget BY <1>2, <1>3, <1>13, ForgetTask
<1>14. CASE Cancel
  <2>1. spent' \in [{"failures", "cancels", "crashes", "losses"} -> Nat] /\ writer' \subseteq writer
    BY <1>2, <1>14, SpendTyped DEF Cancel
  <2> QED BY <1>1, <1>14, <2>1 DEF Cancel, RestTyped, ghosts
<1>15. CASE AppendFrame
  <2>1. task.arg \in Segments BY <1>15 DEF AppendFrame, WalkOver, Doing, Control, ArgsFit
  <2> QED BY <1>1, <1>15, <2>1 DEF AppendFrame, WalkOver, RestTyped, Objects
<1>16. CASE EnforceDone BY <1>1, <1>16 DEF EnforceDone, WalkOver, RestTyped, ghosts
<1>17. CASE DeleteDone
  <2>1. task.arg \in Sessions BY <1>17 DEF DeleteDone, WalkOver, Doing, Control, ArgsFit
  <2>2. promises' = [promises EXCEPT !.deleted = @ \union {task.arg}] BY <1>17 DEF DeleteDone
  <2>3. promises' \in [pinned : SUBSET Segments, deleted : SUBSET Sessions]
    BY <1>1, <2>1, <2>2 DEF RestTyped
  <2> QED BY <1>1, <1>17, <2>3 DEF DeleteDone, WalkOver, RestTyped
<1>18. CASE (\E o \in Objects : StageObject(o)) \/ \E o \in Objects : UnlinkObject(o)
  BY <1>3, <1>18 DEF StageObject, UnlinkObject, WorkerUnchanged
<1>19. CASE SyncStaged \/ SyncFinalized
  BY <1>3, <1>19 DEF SyncStaged, SyncFinalized, Answer, WorkerUnchanged
<1>20. CASE WorkerFails
  <2>1. spent' \in [{"failures", "cancels", "crashes", "losses"} -> Nat]
    BY <1>2, <1>20, SpendTyped DEF WorkerFails
  <2>2. mode' \in {"up", "down", "resuming"} /\ UNCHANGED <<writer, fenced, ghosts>>
    BY <1>1, <1>2, <1>20, FailedJob DEF RestTyped
  <2> QED BY <1>1, <2>1, <2>2 DEF RestTyped, ghosts
<1>21. CASE Crash \/ PowerLoss
  <2>1. spent' \in [{"failures", "cancels", "crashes", "losses"} -> Nat]
    BY <1>2, <1>21, SpendTyped DEF Crash, PowerLoss
  <2>2. Stop BY <1>21 DEF Crash, PowerLoss
  <2> QED BY <1>1, <1>2, <2>1, <2>2, StopTask DEF RestTyped
<1>22. CASE Recover BY <1>1, <1>22 DEF Recover, RestTyped, ghosts
<1>23. CASE \E b \in Batches : Resume(b) BY <1>2, <1>3, <1>23, ResumeTask
<1>24. CASE OpenStore BY <1>1, <1>24 DEF OpenStore, RestTyped, ghosts
<1>25. CASE UNCHANGED vars BY <1>3, <1>25 DEF vars
<1> QED BY <1>4, <1>5, <1>6, <1>7, <1>8, <1>9, <1>10, <1>11, <1>12, <1>13, <1>14, <1>15, <1>16,
           <1>17, <1>18, <1>19, <1>20, <1>21, <1>22, <1>23, <1>24, <1>25, EachStep DEF Ends
-----------------------------------------------------------------------------
\* The journal entries of the queued commands stay as they are.
JobsUndisturbed == \A i \in DOMAIN work :
    /\ work[i].batch \in index'.batches
    /\ index'.batch[work[i].batch].state = index.batch[work[i].batch].state
    /\ index'.batch[work[i].batch].objects = index.batch[work[i].batch].objects

\* The batches of commands and calls are journaled ones.
LEMMA JobBatches ==
    ASSUME Control, NEW i \in DOMAIN work
    PROVE  work[i].batch \in index.batches /\ work[i].batch \in Batches /\ work[i] \in Jobs
<1>1. work \in Seq(Jobs) BY DEF Control, TypeOK, Jobs
<1>2. work[i] \in Jobs BY <1>1
<1> QED BY <1>2 DEF Control, JobsAreJournaled, Jobs

LEMMA TaskBatch ==
    ASSUME Control, task.step \in InBatch
    PROVE  task.batch \in index.batches /\ task.batch \in Batches
  BY DEF Control, TaskIsJournaled, TypeOK, Index

\* No step but a stop changes the entry of a queued command: remove_metadata and
\* forget are for the batch of the call, which has no command then.
LEMMA JobsAreUndisturbed ==
    ASSUME Control, [Next]_vars
    PROVE  JobsUndisturbed \/ work' = <<>>
<1>1. TypeOK /\ index \in Index BY DEF Control, TypeOK
<1>2. CASE index'.batches = index.batches /\ index'.batch = index.batch
  BY <1>2 DEF JobsUndisturbed, Control, JobsAreJournaled
<1>3. ASSUME NEW b \in Batches, NEW e, index'.batches = index.batches \union {b},
             \A c \in Batches \ {b} : index'.batch[c] = index.batch[c], b \in Free
      PROVE  JobsUndisturbed
  BY <1>3, JobBatches DEF JobsUndisturbed, Free
<1>4. CASE UNCHANGED log BY <1>2, <1>4 DEF log
<1>5. CASE Flushes BY <1>1, <1>2, <1>5, FlushRetouches DEF Flushes, Retouched
<1>6. CASE \E b \in Batches : FlushAndPrepare(b)
  <2>1. PICK b \in Batches : FlushAndPrepare(b) BY <1>6
  <2>2. task.arg \in Sessions /\ b \in Free BY <1>1, <2>1, DeleteTask DEF Control, ArgsFit
  <2>3. PICK d \in Index, S \in SUBSET Objects : Retouched(index, d) /\ index' = Prepared(d, b, "session", task.arg, S)
    BY <1>1, <2>1, <2>2, DeletePrepares
  <2>4. /\ index'.batches = d.batches \union {b}
        /\ \A c \in Batches \ {b} : index'.batch[c] = d.batch[c]
    BY <2>2, <2>3, PreparedIndex
  <2> QED BY <1>3, <2>2, <2>3, <2>4 DEF Retouched
<1>7. CASE Reclaims
  <2>1. PICK b \in Free, S \in SUBSET Objects : index' = Prepared(index, b, "eviction", None, S)
    BY <1>1, <1>7, ReclaimTask
  <2>2. b \in Batches BY DEF Free
  <2>3. /\ index'.batches = index.batches \union {b}
        /\ \A c \in Batches \ {b} : index'.batch[c] = index.batch[c]
    BY <1>1, <2>1, <2>2, PreparedIndex
  <2> QED BY <1>3, <2>1, <2>2, <2>3
<1>8. CASE CheckpointJournal BY <1>2, <1>8 DEF CheckpointJournal
<1>9. CASE RemoveMetadata
  <2>1. task.step = "metadata" /\ task.batch \in Batches /\ index' = Stripped(index, task.batch)
    BY <1>9, RemoveTask DEF Control
  <2>2. /\ index'.batches = index.batches
        /\ \A c \in Batches \ {task.batch} : index'.batch[c] = index.batch[c]
    BY <1>1, <2>1, StrippedIndex
  <2>3. NoJobFor(task.batch) BY <2>1 DEF Control, TaskIsJournaled, InBatch
  <2> QED BY <2>2, <2>3, JobBatches DEF JobsUndisturbed, NoJobFor
<1>10. CASE Forget
  <2>1. task.step = "forget" BY <1>1, <1>10, ForgetTask
  <2>2. task.batch \in Batches /\ NoJobFor(task.batch)
    BY <2>1, TaskBatch DEF Control, TaskIsJournaled, InBatch
  <2>3. /\ index'.batches = index.batches \ {task.batch}
        /\ \A c \in Batches \ {task.batch} : index'.batch[c] = index.batch[c]
    BY <1>1, <1>10, <2>2, ForgetSteps, ForgottenIndex
  <2> QED BY <2>2, <2>3, JobBatches DEF JobsUndisturbed, NoJobFor
<1>11. CASE AppendFrame
  <2>1. task.arg \in Segments BY <1>11 DEF AppendFrame, WalkOver, Doing, Control, ArgsFit
  <2> QED BY <1>1, <1>2, <1>11, <2>1, AppendIndex
<1>12. CASE \E a \in Artifacts : PublishArtifact(a) BY <1>1, <1>2, <1>12, PublishIndex
<1>13. CASE PowerLoss BY <1>13 DEF PowerLoss, Stop
<1>14. CASE Recover BY <1>1, <1>2, <1>14, RecoverIndex
<1>15. CASE OpenStore BY <1>1, <1>2, <1>15, OpenIndex
<1> QED BY <1>4, <1>5, <1>6, <1>7, <1>8, <1>9, <1>10, <1>11, <1>12, <1>13, <1>14, <1>15, LogSteps

\* The queue grows by three steps, shrinks at its head, or is lost.
LEMMA WorkSteps ==
    ASSUME Control, [Next]_vars
    PROVE  \/ work' = work \/ work' = <<>>
           \/ work # <<>> /\ work' = Tail(work)
           \/ work # <<>> /\ \E o \in Objects : Handled(o) /\ (StageObject(o) \/ UnlinkObject(o))
           \/ CheckpointJournal \/ RemoveMetadata \/ \E b \in Batches : Resume(b)
<1>1. TypeOK /\ PhasesAreOrderly BY DEF Control
<1>2. Begins \/ Flushes \/ Reclaims \/ Forget \/ (\E b \in Batches : FlushAndPrepare(b)) => work' = work
  BY <1>1, BeginTask, FlushTask, ReclaimTask, ForgetTask, DeleteTask
<1>3. Fails => work' = work \/ work' = <<>> BY <1>1, FailTask
<1>4. Cancel \/ AppendFrame \/ Ends \/ (\E x \in Sessions : MarkDeleted(x))
        \/ (\E a \in Artifacts : PublishArtifact(a)) => work' = work
  BY DEF Cancel, AppendFrame, Ends, EnforceDone, DeleteDone, MarkDeleted, PublishArtifact
<1>5. Crash \/ PowerLoss => work' = <<>> BY DEF Crash, PowerLoss, Stop
<1>6. Recover \/ OpenStore => work' = work BY DEF Recover, OpenStore
<1>7. ASSUME NEW o \in Objects, StageObject(o) \/ UnlinkObject(o) PROVE work # <<>> /\ Handled(o)
  BY <1>7 DEF StageObject, UnlinkObject, Running
<1>8. SyncStaged \/ SyncFinalized => work # <<>> /\ work' = Tail(work)
  BY DEF SyncStaged, SyncFinalized, Running, Answer
<1>9. WorkerFails => work # <<>> /\ (work' = Tail(work) \/ work' = <<>>) BY DEF WorkerFails
<1> QED BY <1>2, <1>3, <1>4, <1>5, <1>6, <1>7, <1>8, <1>9, EachStep DEF vars

\* The commands stay journaled and distinct.
LEMMA JobsKept ==
    ASSUME Control, [Next]_vars
    PROVE  JobsAreJournaled' /\ JobsAreDistinct'
<1>1. TypeOK /\ index \in Index BY DEF Control, TypeOK
<1>2. JobsUndisturbed \/ work' = <<>> BY JobsAreUndisturbed
<1>3. DOMAIN <<>> = {} OBVIOUS
<1>4. CASE work' = <<>> BY <1>3, <1>4 DEF JobsAreJournaled, JobsAreDistinct
<1>5. ASSUME JobsUndisturbed, NEW f \in [DOMAIN work' -> DOMAIN work],
             \A i, j \in DOMAIN work' : f[i] = f[j] => i = j,
             \A i \in DOMAIN work' : /\ work'[i].batch = work[f[i]].batch
                                     /\ work'[i].cmd = work[f[i]].cmd
                                     /\ work'[i].todo \subseteq work[f[i]].todo
      PROVE  JobsAreJournaled' /\ JobsAreDistinct'
  <2>1. \A i \in DOMAIN work' : f[i] \in DOMAIN work BY <1>5
  <2>2. JobsAreJournaled' BY <1>5, <2>1 DEF JobsUndisturbed, Control, JobsAreJournaled
  <2>3. JobsAreDistinct' BY <1>5, <2>1 DEF Control, JobsAreDistinct
  <2> QED BY <2>2, <2>3
<1>6. CASE work' = work
  <2>1. [i \in DOMAIN work' |-> i] \in [DOMAIN work' -> DOMAIN work] BY <1>6
  <2> QED BY <1>2, <1>4, <1>5, <1>6, <2>1
<1>7. CASE work # <<>> /\ work' = Tail(work)
  <2>1. \A i \in DOMAIN work' : i + 1 \in DOMAIN work /\ i \in Nat /\ work'[i] = work[i + 1]
    BY <1>1, <1>7, TailTyped
  <2> DEFINE f == [i \in DOMAIN work' |-> i + 1]
  <2>2. f \in [DOMAIN work' -> DOMAIN work] BY <2>1
  <2>3. \A i \in DOMAIN work' : f[i] = i + 1 OBVIOUS
  <2>4. \A i, j \in DOMAIN work' : f[i] = f[j] => i = j BY <2>1, <2>3
  <2> HIDE DEF f
  <2>5. \A i \in DOMAIN work' : work'[i] = work[f[i]] BY <2>1, <2>3
  <2> QED BY <1>2, <1>4, <1>5, <2>2, <2>4, <2>5
<1>8. CASE work # <<>> /\ \E o \in Objects : Handled(o)
  <2>1. /\ DOMAIN work' = DOMAIN work
        /\ \A i \in DOMAIN work : /\ work'[i].cmd = work[i].cmd /\ work'[i].batch = work[i].batch
                                  /\ work'[i].todo \subseteq work[i].todo
    BY <1>1, <1>8, HandledTyped
  <2>2. [i \in DOMAIN work' |-> i] \in [DOMAIN work' -> DOMAIN work] BY <2>1
  <2> QED BY <1>2, <1>4, <1>5, <2>1, <2>2
<1>9. ASSUME JobsUndisturbed, NEW b \in Batches, NEW cmd \in {"stage", "finalize"}, Send(cmd, b),
             NoJobFor(b), b \in index'.batches,
             index'.batch[b].state = (IF cmd = "stage" THEN "prepared" ELSE "removed"),
             index'.batch[b].objects = index.batch[b].objects
      PROVE  JobsAreJournaled' /\ JobsAreDistinct'
  <2>1. /\ DOMAIN work' = DOMAIN work \union {Len(work) + 1} /\ Len(work) + 1 \notin DOMAIN work
        /\ \A i \in DOMAIN work : work'[i] = work[i]
        /\ work'[Len(work) + 1].cmd = cmd /\ work'[Len(work) + 1].batch = b
        /\ work'[Len(work) + 1].todo = index.batch[b].objects
    BY <1>1, <1>9, SendTyped
  <2>2. JobsAreJournaled' BY <1>9, <2>1 DEF JobsUndisturbed, Control, JobsAreJournaled
  <2>3. JobsAreDistinct' BY <1>9, <2>1 DEF Control, JobsAreDistinct, NoJobFor
  <2> QED BY <2>2, <2>3
<1>10. CASE CheckpointJournal
  <2>1. task.step = "checkpoint" /\ task.batch \in Batches /\ Send("stage", task.batch) /\ index' = index
    BY <1>10, CheckpointTask DEF Control
  <2>2. NoJobFor(task.batch) /\ task.batch \in index.batches /\ index.batch[task.batch].state = "prepared"
    BY <2>1 DEF Control, TaskIsJournaled, InBatch, BeforeRows
  <2> QED BY <1>2, <1>4, <1>9, <2>1, <2>2
<1>11. CASE RemoveMetadata
  <2>1. /\ task.step = "metadata" /\ task.batch \in Batches /\ Send("finalize", task.batch)
        /\ index' = Stripped(index, task.batch)
    BY <1>11, RemoveTask DEF Control
  <2>2. NoJobFor(task.batch) /\ task.batch \in index.batches
    BY <2>1 DEF Control, TaskIsJournaled, InBatch
  <2>3. /\ task.batch \in index'.batches /\ index'.batch[task.batch].state = "removed"
        /\ index'.batch[task.batch].objects = index.batch[task.batch].objects
    BY <1>1, <2>1, <2>2, StrippedIndex DEF SameBatch
  <2> QED BY <1>2, <1>4, <1>9, <2>1, <2>2, <2>3
<1>12. CASE \E b \in Batches : Resume(b)
  <2>1. PICK b \in Batches : Resume(b) BY <1>12
  <2>2. task.name = "resume" /\ task.step = "walk" /\ b \in index.batches /\ index' = index
    BY <1>1, <2>1, ResumeTask DEF log
  <2>3. PICK cmd \in {"stage", "finalize"} :
            cmd = (IF index.batch[b].state = "prepared" THEN "stage" ELSE "finalize") /\ Send(cmd, b)
    BY <1>1, <2>1, ResumeTask
  <2>4. work = <<>> BY <2>2, IdleTyped DEF Control, PhasesAreOrderly, TypeOK
  <2>5. NoJobFor(b) BY <1>3, <2>4 DEF NoJobFor
  <2>6. index.batch[b].state \in {"prepared", "removed"} BY <1>1 DEF Index, Batch
  <2> QED BY <1>2, <1>4, <1>9, <2>2, <2>3, <2>5, <2>6
<1> QED BY <1>4, <1>6, <1>7, <1>8, <1>10, <1>11, <1>12, WorkSteps

\* The batch of the call stays in the journal until the call forgets it.
LEMMA TaskJournalKept ==
    ASSUME Control, [Next]_vars
    PROVE  TaskIsJournaled'
<1>1. TypeOK /\ PhasesAreOrderly /\ index \in Index BY DEF Control, TypeOK
<1>2. Idle.step = "idle" BY IdleTyped
<1>3. ASSUME task'.step \notin InBatch PROVE TaskIsJournaled' BY <1>3 DEF TaskIsJournaled
<1>4. ASSUME task' = Idle PROVE TaskIsJournaled' BY <1>2, <1>3, <1>4 DEF InBatch
<1>5. CASE UNCHANGED <<task, index, work>>
  BY <1>5 DEF Control, TaskIsJournaled, NoJobFor
<1>6. ASSUME NEW d \in Index, NEW b \in Free, NEW kind \in {"eviction", "session"},
             NEW x \in Sessions \union {None}, NEW S \in SUBSET Objects,
             index' = Prepared(d, b, kind, x, S), d.batches = index.batches,
             work' = work, task'.step = "checkpoint", task'.batch = b
      PROVE  TaskIsJournaled'
  <2>1. b \in Batches /\ NoJobFor(b) BY DEF Free, NoJobFor
  <2>2. b \in index'.batches /\ index'.batch[b].state = "prepared"
    BY <1>6, <2>1, PreparedIndex
  <2> QED BY <1>6, <2>1, <2>2 DEF TaskIsJournaled, InBatch, BeforeRows, NoJobFor
<1>7. CASE Begins BY <1>1, <1>3, <1>7, BeginTask DEF InBatch
<1>8. CASE (\E x \in Sessions : MarkDeleted(x))
  BY <1>5, <1>8 DEF MarkDeleted, log
<1>9. CASE \E a \in Artifacts : PublishArtifact(a) BY <1>4, <1>9 DEF PublishArtifact
<1>10. CASE Flushes BY <1>1, <1>3, <1>4, <1>10, FlushTask DEF InBatch
<1>11. CASE \E b \in Batches : FlushAndPrepare(b)
  <2>1. PICK b \in Batches : FlushAndPrepare(b) BY <1>11
  <2>2. /\ task.arg \in Sessions /\ b \in Free /\ work' = work
        /\ task'.step = "checkpoint" /\ task'.batch = b
    BY <1>1, <2>1, DeleteTask DEF Control, ArgsFit
  <2>3. PICK d \in Index, S \in SUBSET Objects : Retouched(index, d) /\ index' = Prepared(d, b, "session", task.arg, S)
    BY <1>1, <2>1, <2>2, DeletePrepares
  <2> QED BY <1>6, <2>2, <2>3 DEF Retouched
<1>12. CASE Reclaims
  <2>1. PICK b \in Free, S \in SUBSET Objects :
            /\ index' = Prepared(index, b, "eviction", None, S) /\ work' = work
            /\ task'.step = "checkpoint" /\ task'.batch = b
    BY <1>1, <1>12, ReclaimTask
  <2> QED BY <1>1, <1>6, <2>1
<1>13. CASE CheckpointJournal
  <2>1. task.step = "checkpoint" /\ task'.step = "stage" /\ task'.batch = task.batch /\ index' = index
    BY <1>13, CheckpointTask DEF Control
  <2> QED BY <2>1 DEF Control, TaskIsJournaled, InBatch, BeforeRows
<1>14. CASE RemoveMetadata
  <2>1. /\ task.step = "metadata" /\ task.batch \in Batches
        /\ index' = Stripped(index, task.batch)
        /\ task'.step = "finalize" /\ task'.batch = task.batch
    BY <1>14, RemoveTask DEF Control
  <2>2. task.batch \in index'.batches /\ index'.batch[task.batch].state = "removed"
    BY <1>1, <2>1, StrippedIndex, TaskBatch DEF InBatch
  <2> QED BY <2>1, <2>2 DEF TaskIsJournaled, InBatch, BeforeRows
<1>15. CASE Fails BY <1>1, <1>4, <1>15, FailTask
<1>16. CASE Forget BY <1>1, <1>3, <1>16, ForgetTask DEF InBatch
<1>17. CASE Cancel BY <1>4, <1>17 DEF Cancel
<1>18. CASE AppendFrame \/ Ends
  BY <1>4, <1>18 DEF AppendFrame, Ends, EnforceDone, DeleteDone, WalkOver
<1>19. CASE (\E o \in Objects : StageObject(o)) \/ \E o \in Objects : UnlinkObject(o)
  <2>1. UNCHANGED <<task, index>> /\ work # <<>> /\ \E o \in Objects : Handled(o)
    BY <1>19 DEF StageObject, UnlinkObject, Running, WorkerUnchanged, log
  <2>2. DOMAIN work' = DOMAIN work /\ \A i \in DOMAIN work : work'[i].batch = work[i].batch
    BY <1>1, <2>1, HandledTyped
  <2> QED BY <2>1, <2>2 DEF Control, TaskIsJournaled, NoJobFor
<1>20. ASSUME work # <<>>, work' = Tail(work)
       PROVE  /\ \A b : NoJobFor(b) => NoJobFor(b)'
              /\ \A b : b = work[1].batch => NoJobFor(b)'
  <2>1. \A i \in DOMAIN work' : i + 1 \in DOMAIN work /\ i + 1 # 1 /\ work'[i] = work[i + 1]
    BY <1>1, <1>20, TailTyped
  <2>2. 1 \in DOMAIN work BY <1>1, <1>20, TailTyped
  <2>3. \A b : NoJobFor(b) => NoJobFor(b)' BY <2>1 DEF NoJobFor
  <2>4. \A b : b = work[1].batch => NoJobFor(b)'
    BY <2>1, <2>2 DEF NoJobFor, Control, JobsAreDistinct
  <2> QED BY <2>3, <2>4
<1>21. CASE SyncStaged \/ SyncFinalized
  <2>1. PICK s \in {"metadata", "forget"} :
            /\ work # <<>> /\ Answer(s)
            /\ work[1].cmd = (IF s = "metadata" THEN "stage" ELSE "finalize")
    BY <1>21 DEF SyncStaged, SyncFinalized, Running, Job
  <2>2. s \in Steps BY DEF Steps
  <2>3. work' = Tail(work) /\ index' = index BY <2>1 DEF Answer, WorkerUnchanged, log
  <2>4. CASE Waiting
    <3>1. task'.step = s /\ task'.batch = task.batch /\ task.batch = work[1].batch /\ task.step = work[1].cmd
      BY <1>1, <2>1, <2>2, <2>4, AnswerTask DEF Waiting, Job
    <3>2. \A b : b = task'.batch => NoJobFor(b)' BY <1>20, <2>1, <2>3, <3>1
    <3> QED BY <2>1, <2>3, <3>1, <3>2 DEF Control, TaskIsJournaled, InBatch, BeforeRows
  <2>5. CASE ~Waiting
    <3>1. task' = task BY <1>1, <2>1, <2>2, <2>5, AnswerTask
    <3> QED BY <1>20, <2>1, <2>3, <3>1 DEF Control, TaskIsJournaled
  <2> QED BY <2>4, <2>5
<1>22. CASE WorkerFails
  <2>1. index' = index /\ work # <<>> /\ (task' = Idle \/ (task' = task /\ work' = Tail(work)))
    BY <1>1, <1>22, FailedJob DEF log
  <2>2. CASE task' = task /\ work' = Tail(work)
    BY <1>20, <2>1, <2>2 DEF Control, TaskIsJournaled
  <2> QED BY <1>4, <2>1, <2>2
<1>23. CASE Crash \/ PowerLoss BY <1>4, <1>23 DEF Crash, PowerLoss, Stop
<1>24. CASE Recover BY <1>3, <1>24 DEF Recover, InBatch
<1>25. CASE \E b \in Batches : Resume(b)
  <2>1. PICK b \in Batches : Resume(b) BY <1>25
  <2>2. b \in index.batches /\ index' = index BY <1>1, <2>1, ResumeTask DEF log
  <2>3. task'.step = (IF index.batch[b].state = "prepared" THEN "stage" ELSE "finalize") /\ task'.batch = b
    BY <1>1, <2>1, ResumeTask
  <2>4. index.batch[b].state \in {"prepared", "removed"} BY <1>1 DEF Index, Batch
  <2> QED BY <2>2, <2>3, <2>4 DEF TaskIsJournaled, InBatch, BeforeRows
<1>26. CASE OpenStore BY <1>4, <1>26 DEF OpenStore
<1>27. CASE UNCHANGED vars BY <1>5, <1>27 DEF vars, log
<1> QED BY <1>7, <1>8, <1>9, <1>10, <1>11, <1>12, <1>13, <1>14, <1>15, <1>16, <1>17, <1>18, <1>19,
           <1>21, <1>22, <1>23, <1>24, <1>25, <1>26, <1>27, EachStep

\* Control is inductive on its own.
LEMMA ControlKept ==
    ASSUME Control, [Next]_vars
    PROVE  Control'
<1>1. LogTyped' /\ FilesTyped' BY LogKept, FilesKept DEF Control
<1>2. TypeOK'
  BY <1>1, TaskKept, RestKept, TypeParts DEF LogTyped, FilesTyped, TaskTyped, RestTyped, TypeOK,
     Places, Tasks, Jobs
<1> QED BY <1>2, TaskKept, JobsKept, TaskJournalKept, PhasesKept DEF Control

LEMMA ControlStarts ==
    ASSUME Init
    PROVE  Control
<1>1. DOMAIN <<>> = {} OBVIOUS
<1>2. index \in Index
  <2>1. NoBatch \in Batch BY DEF NoBatch, Batch
  <2> QED BY <2>1 DEF Init, Index
<1>3. task \in Tasks /\ task = Idle /\ work = <<>> BY IdleTyped DEF Init
<1>4. LogTyped /\ FilesTyped BY <1>2 DEF Init, LogTyped, FilesTyped, Places
<1>5. TaskTyped BY <1>3, EmptySeq DEF TaskTyped
<1>6. RestTyped
  <2>1. spent \in [{"failures", "cancels", "crashes", "losses"} -> Nat]
    BY DEF Init
  <2> QED BY <2>1 DEF Init, RestTyped
<1>7. TypeOK BY <1>4, <1>5, <1>6, TypeParts
<1>8. JobsAreJournaled /\ JobsAreDistinct BY <1>1, <1>3 DEF JobsAreJournaled, JobsAreDistinct
<1>9. TaskIsJournaled /\ PhasesAreOrderly /\ ArgsFit
  BY <1>3, IdleTyped DEF TaskIsJournaled, PhasesAreOrderly, ArgsFit, InBatch, Init
<1> QED BY <1>7, <1>8, <1>9 DEF Control
-----------------------------------------------------------------------------
\* The store opens by recovery and then by reconcile_artifacts.
LEMMA ModeSteps ==
    ASSUME Control, [Next]_vars
    PROVE  mode' = mode \/ mode' = "down" \/ Recover \/ OpenStore
<1>1. TypeOK /\ PhasesAreOrderly BY DEF Control
<1>2. Begins \/ Flushes \/ Reclaims \/ Forget \/ (\E b \in Batches : FlushAndPrepare(b)) => mode' = mode
  BY <1>1, BeginTask, FlushTask, ReclaimTask, ForgetTask, DeleteTask
<1>3. Fails \/ WorkerFails => mode' = mode \/ mode' = "down" BY <1>1, FailTask, FailedJob
<1>4. Cancel \/ AppendFrame \/ Ends \/ (\E x \in Sessions : MarkDeleted(x))
        \/ (\E a \in Artifacts : PublishArtifact(a)) => mode' = mode
  BY DEF Cancel, AppendFrame, Ends, EnforceDone, DeleteDone, WalkOver, MarkDeleted,
         PublishArtifact
<1>5. Crash \/ PowerLoss => mode' = "down" BY DEF Crash, PowerLoss, Stop
<1>6. (\E o \in Objects : StageObject(o) \/ UnlinkObject(o)) \/ SyncStaged \/ SyncFinalized => mode' = mode
  BY DEF StageObject, UnlinkObject, SyncStaged, SyncFinalized, Answer
<1>7. CheckpointJournal \/ RemoveMetadata \/ (\E b \in Batches : Resume(b)) => mode' = mode
  BY DEF CheckpointJournal, RemoveMetadata, Resume
<1> QED BY <1>2, <1>3, <1>4, <1>5, <1>6, <1>7, EachStep DEF vars

\* How the three transactions of a batch change what prepared batches claim.
LEMMA ClaimedPrepared ==
    ASSUME NEW d \in Index, NEW b \in Batches \ d.batches, NEW kind \in {"eviction", "session"},
           NEW x \in Sessions \union {None}, NEW S \in SUBSET Objects
    PROVE  Claimed(Prepared(d, b, kind, x, S)) = Claimed(d) \union S
<1> DEFINE e == Prepared(d, b, kind, x, S)
<1>1. /\ e.batches = d.batches \union {b} /\ \A c \in Batches \ {b} : e.batch[c] = d.batch[c]
      /\ e.batch[b].objects = S /\ e.batch[b].state = "prepared"
  BY PreparedIndex
<1>2. d.batches \subseteq Batches \ {b} BY DEF Index
<1> QED BY <1>1, <1>2 DEF Claimed

LEMMA ClaimedStripped ==
    ASSUME NEW d \in Index, NEW b \in Batches
    PROVE  /\ Claimed(d) \ d.batch[b].objects \subseteq Claimed(Stripped(d, b))
           /\ Claimed(Stripped(d, b)) \subseteq Claimed(d)
<1> DEFINE e == Stripped(d, b)
<1>1. /\ e.batches = d.batches /\ \A c \in Batches \ {b} : e.batch[c] = d.batch[c]
      /\ SameBatch(d, e, b) /\ e.batch[b].state = "removed"
  BY StrippedIndex
<1>2. d.batches \subseteq Batches BY DEF Index
<1> QED BY <1>1, <1>2 DEF Claimed, SameBatch

LEMMA ClaimedForgotten ==
    ASSUME NEW d \in Index, NEW b \in Batches, d.batch[b].state = "removed"
    PROVE  Claimed(Forgotten(d, b)) = Claimed(d)
<1> DEFINE e == Forgotten(d, b)
<1>1. e.batches = d.batches \ {b} /\ \A c \in Batches \ {b} : e.batch[c] = d.batch[c]
  BY ForgottenIndex
<1>2. d.batches \subseteq Batches BY DEF Index
<1> QED BY <1>1, <1>2 DEF Claimed

\* The command at work is about a journaled batch in the right state.
LEMMA JobIsOne ==
    ASSUME Control, work # <<>>
    PROVE  /\ 1 \in DOMAIN work /\ Job = work[1] /\ Job \in Jobs
           /\ Job.batch \in index.batches /\ Job.batch \in Batches
           /\ Job.batch \notin {None, "absent", "live"}
           /\ Job.todo \subseteq index.batch[Job.batch].objects
           /\ Job.cmd = "stage" => index.batch[Job.batch].state = "prepared"
           /\ Job.cmd = "finalize" => index.batch[Job.batch].state = "removed"
           /\ mode # "down"
<1>1. work \in Seq(Jobs) BY DEF Control, TypeOK, Jobs
<1>2. 1 \in DOMAIN work BY <1>1
<1>3. Job \in Jobs /\ Job = work[1] /\ Job.batch \in index.batches /\ Job.batch \in Batches
  BY <1>2, JobBatches DEF Job
<1>4. mode # "down" BY DEF Control, PhasesAreOrderly
<1> QED BY <1>2, <1>3, <1>4, JournalAssumption DEF Control, JobsAreJournaled

\* No row loses its file without a prepared batch that claims it.
LEMMA RowsKept ==
    ASSUME Control, RowsAreBacked, [Next]_vars
    PROVE  RowsAreBacked'
<1>1. TypeOK /\ index \in Index /\ PhasesAreOrderly BY DEF Control, TypeOK
<1>2. CASE mode' = "down" BY <1>2 DEF RowsAreBacked
<1>3. ASSUME mode' # "down", mode' = mode, place' = place,
             Claimed(index) \subseteq Claimed(index)',
             index'.open \union index'.sealed \subseteq index.open \union index.sealed,
             index'.artifacts \subseteq index.artifacts
      PROVE  RowsAreBacked'
  BY <1>3 DEF RowsAreBacked
<1>4. ASSUME NEW d \in Index, d.batches = index.batches, d.batch = index.batch
      PROVE  Claimed(d) = Claimed(index)
  BY <1>4 DEF Claimed
<1>5. CASE UNCHANGED <<index, place>> /\ mode' = mode BY <1>3, <1>5, <1>2
<1>6. CASE Begins BY <1>1, <1>5, <1>6, BeginTask DEF files, log
<1>7. CASE (\E x \in Sessions : MarkDeleted(x)) \/ Cancel \/ Ends
  BY <1>5, <1>7 DEF MarkDeleted, Cancel, Ends, EnforceDone, DeleteDone, WalkOver, files, log
<1>8. CASE \E a \in Artifacts : PublishArtifact(a)
  <2>1. PICK a \in Artifacts : PublishArtifact(a) BY <1>8
  <2>2. /\ index' \in Index /\ index'.open = index.open /\ index'.sealed = index.sealed
        /\ index'.artifacts = index.artifacts \union {a}
        /\ index'.batches = index.batches /\ index'.batch = index.batch
    BY <1>1, <2>1, PublishIndex
  <2>3. mode' = mode /\ a \in Objects /\ place' = [place EXCEPT ![a] = "live"]
    BY <2>1 DEF PublishArtifact, Objects
  <2>4. \A o \in Objects : place[o] = "live" => place'[o] = "live" BY <1>1, <2>3 DEF TypeOK
  <2>5. place'[a] = "live" BY <1>1, <2>3 DEF TypeOK
  <2>6. Claimed(index') = Claimed(index) BY <1>4, <2>2
  <2> QED BY <1>1, <2>2, <2>3, <2>4, <2>5, <2>6 DEF RowsAreBacked, Index, Objects
<1>9. CASE Flushes
  <2>1. Retouched(index, index') BY <1>1, <1>9, FlushRetouches DEF Flushes
  <2>2. mode' = mode /\ place' = place BY <1>1, <1>9, FlushTask DEF files
  <2>3. Claimed(index') = Claimed(index) BY <1>4, <2>1 DEF Retouched
  <2> QED BY <1>2, <1>3, <2>1, <2>2, <2>3 DEF Retouched
<1>10. CASE \E b \in Batches : FlushAndPrepare(b)
  <2>1. PICK b \in Batches : FlushAndPrepare(b) BY <1>10
  <2>2. task.arg \in Sessions /\ b \in Free /\ mode' = mode /\ place' = place
    BY <1>1, <2>1, DeleteTask DEF Control, ArgsFit, files
  <2>3. PICK d \in Index, S \in SUBSET Objects : Retouched(index, d) /\ index' = Prepared(d, b, "session", task.arg, S)
    BY <1>1, <2>1, <2>2, DeletePrepares
  <2>4. b \in Batches \ d.batches BY <2>2, <2>3 DEF Retouched, Free
  <2>5. Claimed(d) = Claimed(index) BY <1>4, <2>3 DEF Retouched
  <2>6. Claimed(index) \subseteq Claimed(index)' BY <2>2, <2>3, <2>4, <2>5, ClaimedPrepared
  <2>7. index'.open = d.open /\ index'.sealed = d.sealed /\ index'.artifacts = d.artifacts
    BY <2>2, <2>3, PreparedIndex
  <2> QED BY <1>2, <1>3, <2>2, <2>3, <2>6, <2>7 DEF Retouched
<1>11. CASE Reclaims
  <2>1. mode' = mode /\ place' = place BY <1>1, <1>11, ReclaimTask DEF files
  <2>2. PICK b \in Free, S \in SUBSET Objects : index' = Prepared(index, b, "eviction", None, S)
    BY <1>1, <1>11, ReclaimTask
  <2>3. b \in Batches \ index.batches BY DEF Free
  <2>4. Claimed(index) \subseteq Claimed(index)' BY <1>1, <2>2, <2>3, ClaimedPrepared
  <2>5. index'.open = index.open /\ index'.sealed = index.sealed /\ index'.artifacts = index.artifacts
    BY <1>1, <2>2, <2>3, PreparedIndex
  <2> QED BY <1>2, <1>3, <2>1, <2>4, <2>5
<1>12. CASE CheckpointJournal BY <1>5, <1>12 DEF CheckpointJournal, files
<1>13. CASE RemoveMetadata
  <2>1. task.batch \in Batches /\ index' = Stripped(index, task.batch) /\ mode' = mode /\ place' = place
    BY <1>13, RemoveTask DEF Control, files
  <2>2. /\ index'.open = index.open \ index.batch[task.batch].objects
        /\ index'.sealed = index.sealed \ index.batch[task.batch].objects
        /\ index'.artifacts \subseteq index.artifacts \ index.batch[task.batch].objects
    BY <1>1, <2>1, StrippedIndex
  <2>3. Claimed(index) \ index.batch[task.batch].objects \subseteq Claimed(index)'
    BY <1>1, <2>1, ClaimedStripped
  <2> QED BY <2>1, <2>2, <2>3 DEF RowsAreBacked
<1>14. CASE Fails BY <1>1, <1>2, <1>5, <1>14, FailTask DEF log, files
<1>15. CASE Forget
  <2>1. task.step = "forget" /\ mode' = mode /\ place' = place
    BY <1>1, <1>15, ForgetTask DEF files
  <2>2. task.batch \in Batches /\ index.batch[task.batch].state = "removed"
    BY <2>1, TaskBatch DEF Control, TaskIsJournaled, InBatch, BeforeRows
  <2>3. index' = Forgotten(index, task.batch) BY <1>15, ForgetSteps
  <2> QED BY <1>1, <1>2, <1>3, <2>1, <2>2, <2>3, ClaimedForgotten, ForgottenIndex
<1>16. CASE AppendFrame
  <2>1. task.arg \in Segments BY <1>16 DEF AppendFrame, WalkOver, Doing, Control, ArgsFit
  <2>2. /\ index' \in Index /\ index'.open = index.open \union {task.arg}
        /\ index'.sealed = index.sealed /\ index'.artifacts = index.artifacts
        /\ index'.batches = index.batches /\ index'.batch = index.batch
    BY <1>1, <1>16, <2>1, AppendIndex
  <2>3. mode' = mode /\ place' = [place EXCEPT ![task.arg] = "live"] /\ task.arg \in Objects
    BY <1>16, <2>1 DEF AppendFrame, WalkOver, Objects
  <2>4. \A o \in Objects : place[o] = "live" => place'[o] = "live" BY <1>1, <2>3 DEF TypeOK
  <2>5. place'[task.arg] = "live" BY <1>1, <2>3 DEF TypeOK
  <2>6. Claimed(index') = Claimed(index) BY <1>4, <2>2
  <2> QED BY <1>1, <2>2, <2>3, <2>4, <2>5, <2>6 DEF RowsAreBacked, Index, Objects
<1>17. CASE \E o \in Objects : StageObject(o)
  <2>1. PICK o \in Objects : StageObject(o) BY <1>17
  <2>2. /\ work # <<>> /\ Job.cmd = "stage" /\ o \in Job.todo /\ mode' = mode /\ index' = index
        /\ place' = [place EXCEPT ![o] = IF @ = "live" THEN Job.batch ELSE @]
    BY <2>1 DEF StageObject, Running, WorkerUnchanged, log
  <2>3. o \in Claimed(index) BY <2>2, JobIsOne DEF Claimed
  <2>4. \A p \in Objects \ {o} : place'[p] = place[p] BY <1>1, <2>2 DEF TypeOK
  <2> QED BY <1>1, <2>2, <2>3, <2>4 DEF RowsAreBacked, Index, Objects
<1>18. CASE \E o \in Objects : UnlinkObject(o)
  <2>1. PICK o \in Objects : UnlinkObject(o) BY <1>18
  <2>2. /\ work # <<>> /\ mode' = mode /\ index' = index
        /\ place' = [place EXCEPT ![o] = IF @ = Job.batch THEN "absent" ELSE @]
    BY <2>1 DEF UnlinkObject, Running, WorkerUnchanged, log
  <2>3. \A p \in Objects : place[p] = "live" => place'[p] = "live"
    BY <1>1, <2>2, JobIsOne DEF TypeOK
  <2> QED BY <1>1, <2>2, <2>3 DEF RowsAreBacked, Index, Objects
<1>19. CASE SyncStaged \/ SyncFinalized
  BY <1>5, <1>19 DEF SyncStaged, SyncFinalized, Answer, WorkerUnchanged, log
<1>20. CASE WorkerFails BY <1>1, <1>2, <1>5, <1>20, FailedJob DEF log, files
<1>21. CASE Crash \/ PowerLoss BY <1>2, <1>21 DEF Crash, PowerLoss, Stop
<1>22. CASE Recover
  <2>1. mode' = "resuming" /\ place' = place BY <1>22 DEF Recover, files
  <2>2. index'.open = {} /\ index'.sealed = {s \in Segments : place[s] = "live"}
    BY <1>1, <1>22, RecoverIndex
  <2> QED BY <2>1, <2>2 DEF RowsAreBacked
<1>23. CASE \E b \in Batches : Resume(b) BY <1>1, <1>5, <1>23, ResumeTask DEF log, files
<1>24. CASE OpenStore
  <2>1. /\ index.batches = {} /\ \A a \in index.artifacts : place[a] = "live"
        /\ place' = [o \in Objects |-> IF o \in Artifacts \ index.artifacts /\ place[o] = "live"
                                       THEN "absent" ELSE place[o]]
        /\ task.name = "resume"
    BY <1>24 DEF OpenStore, Doing
  <2>2. mode # "down" BY <1>1, <2>1, IdleTyped DEF PhasesAreOrderly
  <2>3. /\ index'.open = index.open /\ index'.sealed = index.sealed
        /\ index'.artifacts = index.artifacts
    BY <1>1, <1>24, OpenIndex
  <2>4. Claimed(index) = {} BY <2>1 DEF Claimed
  <2>5. \A s \in index.open \union index.sealed : place[s] = "live"
    BY <2>2, <2>4 DEF RowsAreBacked
  <2>6. \A o \in index.open \union index.sealed \union index.artifacts : place'[o] = place[o]
    BY <1>1, <2>1, JournalAssumption DEF Index, Objects
  <2> QED BY <2>1, <2>3, <2>5, <2>6 DEF RowsAreBacked
<1>25. CASE UNCHANGED vars BY <1>5, <1>25 DEF vars, log, files
<1> QED BY <1>6, <1>7, <1>8, <1>9, <1>10, <1>11, <1>12, <1>13, <1>14, <1>15, <1>16, <1>17, <1>18,
           <1>19,
           <1>20, <1>21, <1>22, <1>23, <1>24, <1>25, EachStep
-----------------------------------------------------------------------------
\* Power loss may leave any of the surviving versions of the index: the forced one
\* and those committed after it.
Surviving == older \union {index}
RowsOf(d) == d.open \union d.sealed \union d.artifacts
SameJournal(d, e) == e.batches = d.batches /\ e.batch = d.batch

\* The steps that add rows.
Grows == AppendFrame \/ (\E a \in Artifacts : PublishArtifact(a)) \/ Recover \/ OpenStore

\* What can survive a step: what could before, or the index after one transaction.
LEMMA NewSurvivors ==
    ASSUME Control, [Next]_vars, NEW d \in Surviving'
    PROVE  /\ d \in Index
           /\ \/ d \in Surviving /\ (d # index' \/ PowerLoss)
              \/ Retouched(index, d)
              \/ d = index' /\ Grows /\ SameJournal(index, d)
              \/ d = index' /\ RemoveMetadata
              \/ d = index' /\ Forget
              \/ d = index' /\ Reclaims
              \/ d = index' /\ \E b \in Batches : FlushAndPrepare(b)
<1>1. TypeOK /\ index \in Index BY DEF Control, TypeOK
<1>2. d \in Index BY ControlKept DEF Surviving, Control, TypeOK
<1>3. d = index' \/ d \in older' BY DEF Surviving
<1>4. CASE UNCHANGED log BY <1>1, <1>2, <1>4, RetouchedSelf DEF log, Surviving
<1>5. CASE Flushes BY <1>1, <1>2, <1>3, <1>5, FlushRetouches DEF Flushes, Surviving
<1>6. CASE \E b \in Batches : FlushAndPrepare(b)
  <2>1. PICK b \in Batches : FlushAndPrepare(b) BY <1>6
  <2>2. task.arg \in Sessions BY <1>1, <2>1, DeleteTask DEF Control, ArgsFit
  <2>3. \E f \in Index : Retouched(index, f) /\ older' = {f} BY <1>1, <2>1, <2>2, DeletePrepares
  <2> QED BY <1>2, <1>3, <1>6, <2>3
<1>7. CASE Reclaims BY <1>1, <1>2, <1>3, <1>7, ReclaimTask DEF Surviving
<1>8. CASE CheckpointJournal
  BY <1>1, <1>2, <1>3, <1>8, RetouchedSelf DEF CheckpointJournal, Surviving
<1>9. CASE RemoveMetadata BY <1>2, <1>3, <1>9, RemoveTask DEF Surviving, Control
<1>10. CASE Forget BY <1>2, <1>3, <1>10, ForgetSteps DEF Surviving
<1>11. CASE AppendFrame
  <2>1. task.arg \in Segments BY <1>11 DEF AppendFrame, WalkOver, Doing, Control, ArgsFit
  <2>2. SameJournal(index, index') BY <1>1, <1>11, <2>1, AppendIndex DEF SameJournal
  <2> QED BY <1>2, <1>3, <1>11, <2>2 DEF AppendFrame, Commit, Surviving, Grows
<1>12. CASE \E a \in Artifacts : PublishArtifact(a)
  <2>1. SameJournal(index, index') BY <1>1, <1>12, PublishIndex DEF SameJournal
  <2> QED BY <1>2, <1>3, <1>12, <2>1 DEF PublishArtifact, Commit, Surviving, Grows
<1>13. CASE PowerLoss BY <1>2, <1>3, <1>13 DEF PowerLoss, Surviving
<1>14. CASE Recover
  <2>1. SameJournal(index, index') BY <1>1, <1>14, RecoverIndex DEF SameJournal
  <2> QED BY <1>2, <1>3, <1>14, <2>1 DEF Recover, Commit, Surviving, Grows
<1>15. CASE OpenStore
  <2>1. SameJournal(index, index') BY <1>1, <1>15, OpenIndex DEF SameJournal
  <2> QED BY <1>2, <1>3, <1>15, <2>1 DEF OpenStore, Commit, Surviving, Grows
<1> QED BY <1>4, <1>5, <1>6, <1>7, <1>8, <1>9, <1>10, <1>11, <1>12, <1>13, <1>14, <1>15, LogSteps

\* A batch of a new survivor was in the journal, or has just been prepared.
Inherited(d, c) ==
    /\ c \in index.batches /\ SameBatch(index, d, c)
    /\ \/ d.batch[c].state = index.batch[c].state
       \/ /\ RemoveMetadata /\ d = index' /\ c = task.batch
          /\ d.batch[c].state = "removed"

\* A batch prepared by this step, with files that were indexed.
JustPrepared(d, c) ==
    /\ d = index' /\ c \in Free /\ d.batch[c].state = "prepared"
    /\ task'.step = "checkpoint" /\ task'.batch = c
    /\ d.batch[c].objects \subseteq RowsOf(index)
    /\ \/ Reclaims /\ d.batch[c].kind = "eviction" /\ d.batch[c].session = None
       \/ /\ FlushAndPrepare(c) /\ d.batch[c].kind = "session" /\ d.batch[c].session = task.arg
          /\ index.artifacts \intersect Of(task.arg) \subseteq d.batch[c].objects

\* A batch of a new survivor was in the journal, or has just been prepared.
LEMMA SurvivorJournals ==
    ASSUME Control, [Next]_vars, NEW d \in Surviving'
    PROVE  \/ d \in Surviving /\ (d # index' \/ PowerLoss)
           \/ \A c \in d.batches : Inherited(d, c) \/ JustPrepared(d, c)
<1>1. TypeOK /\ index \in Index BY DEF Control, TypeOK
<1>2. ASSUME SameJournal(index, d)
      PROVE  \A c \in d.batches : Inherited(d, c)
  BY <1>2 DEF SameJournal, Inherited, SameBatch
<1>3. CASE Retouched(index, d) BY <1>2, <1>3 DEF Retouched, SameJournal
<1>4. CASE d = index' /\ RemoveMetadata
  <2>1. task.batch \in Batches /\ d = Stripped(index, task.batch)
    BY <1>4, RemoveTask DEF Control
  <2>2. /\ d.batches = index.batches
        /\ \A c \in Batches \ {task.batch} : d.batch[c] = index.batch[c]
        /\ SameBatch(index, d, task.batch) /\ d.batch[task.batch].state = "removed"
    BY <1>1, <2>1, StrippedIndex
  <2>3. index.batches \subseteq Batches BY <1>1 DEF Index
  <2> QED BY <1>4, <2>2, <2>3 DEF Inherited, SameBatch
<1>5. CASE d = index' /\ Forget
  <2>1. task.batch \in Batches BY <1>1, <1>5, ForgetTask, TaskBatch DEF InBatch
  <2>2. /\ d.batches = index.batches \ {task.batch}
        /\ \A c \in Batches \ {task.batch} : d.batch[c] = index.batch[c]
    BY <1>1, <1>5, <2>1, ForgetSteps, ForgottenIndex
  <2>3. index.batches \subseteq Batches BY <1>1 DEF Index
  <2> QED BY <1>5, <2>2, <2>3 DEF Inherited, SameBatch
<1>6. CASE d = index' /\ Reclaims
  <2>1. PICK S \in SUBSET (index.sealed \union index.artifacts), b \in Free :
            /\ S \in SUBSET Objects /\ index' = Prepared(index, b, "eviction", None, S)
            /\ task'.step = "checkpoint" /\ task'.batch = b
    BY <1>1, <1>6, ReclaimTask
  <2>2. b \in Batches BY DEF Free
  <2>3. /\ d.batches = index.batches \union {b}
        /\ \A c \in Batches \ {b} : d.batch[c] = index.batch[c]
        /\ d.batch[b].objects = S /\ d.batch[b].kind = "eviction"
        /\ d.batch[b].session = None /\ d.batch[b].state = "prepared"
    BY <1>1, <1>6, <2>1, <2>2, PreparedIndex
  <2>4. index.batches \subseteq Batches \ {b} BY <1>1 DEF Index, Free
  <2>5. JustPrepared(d, b) BY <1>6, <2>1, <2>3 DEF JustPrepared, RowsOf
  <2> QED BY <2>3, <2>4, <2>5 DEF Inherited, SameBatch
<1>7. CASE d = index' /\ \E b \in Batches : FlushAndPrepare(b)
  <2>1. PICK b \in Batches : FlushAndPrepare(b) BY <1>7
  <2>2. task.arg \in Sessions /\ b \in Free /\ task'.step = "checkpoint" /\ task'.batch = b
    BY <1>1, <2>1, DeleteTask DEF Control, ArgsFit
  <2>3. PICK f \in Index, S \in SUBSET Objects :
            /\ Retouched(index, f) /\ index' = Prepared(f, b, "session", task.arg, S)
            /\ S = Of(task.arg) \intersect (f.sealed \union f.artifacts)
    BY <1>1, <2>1, <2>2, DeletePrepares
  <2>4. /\ d.batches = f.batches \union {b}
        /\ \A c \in Batches \ {b} : d.batch[c] = f.batch[c]
        /\ d.batch[b].objects = S /\ d.batch[b].kind = "session"
        /\ d.batch[b].session = task.arg /\ d.batch[b].state = "prepared"
    BY <1>7, <2>2, <2>3, PreparedIndex
  <2>5. index.batches \subseteq Batches \ {b} BY <1>1, <2>2 DEF Index, Free
  <2>6. JustPrepared(d, b)
    BY <1>7, <2>1, <2>2, <2>3, <2>4 DEF JustPrepared, RowsOf, Retouched
  <2> QED BY <2>3, <2>4, <2>5, <2>6 DEF Inherited, SameBatch, Retouched
<1> QED BY <1>2, <1>3, <1>4, <1>5, <1>6, <1>7, NewSurvivors
-----------------------------------------------------------------------------
\* A file that no loss of power can bring back to its live directory.
Gone(o) == place[o] # "live" /\ synced[o] # "live"

\* Only files that were created are in rows, in batches or on the disk, and a
\* segment identity is new when append creates its file.
BornFirst ==
    /\ \A d \in Surviving : /\ RowsOf(d) \subseteq born
                            /\ \A b \in d.batches : d.batch[b].objects \subseteq born
    /\ \A o \in Objects \ born : place[o] = "absent" /\ synced[o] = "absent"
    /\ task.name = "append" => task.arg \notin born

\* What one step can do to one file and to what power loss would leave of it.
Fates(o) ==
    \/ /\ o \in born' \ born /\ place'[o] = "live" /\ synced'[o] = "live"
       /\ \/ AppendFrame /\ o = task.arg
          \/ PublishArtifact(o) /\ o \in Artifacts
    \/ place'[o] = place[o] /\ synced'[o] = synced[o]
    \/ StageObject(o) /\ place[o] = "live" /\ place'[o] = Job.batch /\ synced'[o] = synced[o]
    \/ UnlinkObject(o) /\ place[o] = Job.batch /\ place'[o] = "absent" /\ synced'[o] = synced[o]
    \/ SyncStaged /\ place'[o] = place[o] /\ synced'[o] = place[o]
       /\ (place[o] \in {"live", Job.batch} \/ synced[o] = "live")
    \/ SyncFinalized /\ synced[o] = Job.batch /\ place'[o] = place[o] /\ synced'[o] = place[o]
    \/ PowerLoss /\ place'[o] \in {place[o], synced[o]} /\ synced'[o] = place'[o]
    \/ OpenStore /\ o \in Artifacts
       /\ (place'[o] = place[o] \/ (place[o] = "live" /\ place'[o] = "absent"))
       /\ (synced'[o] = place'[o] \/ (synced'[o] = synced[o] /\ synced[o] # "live"))

\* The steps do no more than that to any file.
LEMMA ObjectFates ==
    ASSUME Control, BornFirst, [Next]_vars, NEW o \in Objects
    PROVE  Fates(o)
<1>1. place \in [Objects -> Places] /\ synced \in [Objects -> Places]
  BY DEF Control, TypeOK, Places
<1>2. CASE UNCHANGED files BY <1>2 DEF files, Fates
<1>3. CASE AppendFrame
  <2>1. task.arg \in Segments /\ task.arg \notin born
    BY <1>3 DEF AppendFrame, WalkOver, Doing, Control, ArgsFit, BornFirst
  <2>2. /\ place' = [place EXCEPT ![task.arg] = "live"]
        /\ synced' = [synced EXCEPT ![task.arg] = "live"]
        /\ born' = born \union {task.arg}
    BY <1>3 DEF AppendFrame
  <2> QED BY <1>1, <1>3, <2>1, <2>2 DEF Fates
<1>4. CASE \E a \in Artifacts : PublishArtifact(a)
  <2>1. PICK a \in Artifacts : PublishArtifact(a) BY <1>4
  <2>2. /\ place' = [place EXCEPT ![a] = "live"] /\ synced' = [synced EXCEPT ![a] = "live"]
        /\ born' = born \union {a} /\ a \notin born
    BY <2>1 DEF PublishArtifact
  <2> QED BY <1>1, <2>1, <2>2 DEF Fates
<1>5. CASE \E p \in Objects : StageObject(p)
  <2>1. PICK p \in Objects : StageObject(p) BY <1>5
  <2>2. place' = [place EXCEPT ![p] = IF @ = "live" THEN Job.batch ELSE @] /\ synced' = synced
    BY <2>1 DEF StageObject
  <2> QED BY <1>1, <2>1, <2>2 DEF Fates
<1>6. CASE \E p \in Objects : UnlinkObject(p)
  <2>1. PICK p \in Objects : UnlinkObject(p) BY <1>6
  <2>2. place' = [place EXCEPT ![p] = IF @ = Job.batch THEN "absent" ELSE @] /\ synced' = synced
    BY <2>1 DEF UnlinkObject
  <2> QED BY <1>1, <2>1, <2>2 DEF Fates
<1>7. CASE SyncStaged BY <1>1, <1>7 DEF SyncStaged, Answer, Fates
<1>8. CASE SyncFinalized BY <1>1, <1>8 DEF SyncFinalized, Answer, Fates
<1>9. CASE PowerLoss BY <1>1, <1>9 DEF PowerLoss, Fates
<1>10. CASE OpenStore BY <1>1, <1>10 DEF OpenStore, Fates
<1> QED BY <1>2, <1>3, <1>4, <1>5, <1>6, <1>7, <1>8, <1>9, <1>10, FileSteps

\* A file that has left its live directory for good never comes back.
LEMMA GoneStays ==
    ASSUME Control, BornFirst, [Next]_vars, NEW o \in Objects, o \in born, Gone(o)
    PROVE  Gone(o)'
<1>1. Fates(o) BY ObjectFates
<1>2. StageObject(o) \/ UnlinkObject(o) \/ SyncStaged \/ SyncFinalized => work # <<>>
  BY DEF StageObject, UnlinkObject, SyncStaged, SyncFinalized, Running
<1> QED BY <1>1, <1>2, JobIsOne DEF Fates, Gone

\* Files are created by append and publish only.
LEMMA Births ==
    ASSUME Control, [Next]_vars
    PROVE  UNCHANGED born \/ AppendFrame \/ \E a \in Artifacts : PublishArtifact(a)
<1>1. Begins \/ Flushes \/ Reclaims \/ Forget \/ Fails => UNCHANGED born
  BY BeginTask, FlushTask, ReclaimTask, ForgetTask, FailTask DEF Control, ghosts
<1>2. (\E b \in Batches : FlushAndPrepare(b) \/ Resume(b)) => UNCHANGED born
  BY DeleteTask, ResumeTask DEF Control, ghosts
<1>3. (\E x \in Sessions : MarkDeleted(x)) \/ Cancel \/ Ends \/ CheckpointJournal \/ RemoveMetadata
        => UNCHANGED born
  BY DEF MarkDeleted, Cancel, Ends, EnforceDone, DeleteDone, CheckpointJournal, RemoveMetadata,
         ghosts
<1>4. (\E p \in Objects : StageObject(p) \/ UnlinkObject(p)) \/ SyncStaged \/ SyncFinalized
        \/ WorkerFails => UNCHANGED born
  BY DEF StageObject, UnlinkObject, SyncStaged, SyncFinalized, Answer, WorkerFails,
         WorkerUnchanged, ghosts
<1>5. Crash \/ PowerLoss \/ Recover \/ OpenStore => UNCHANGED born
  BY DEF Crash, PowerLoss, Stop, Recover, OpenStore, ghosts
<1> QED BY <1>1, <1>2, <1>3, <1>4, <1>5, EachStep DEF vars, ghosts

\* What was never created is not on the disk.
LEMMA UnbornStay ==
    ASSUME Control, BornFirst, [Next]_vars, NEW o \in Objects, o \notin born'
    PROVE  place'[o] = "absent" /\ synced'[o] = "absent"
<1>1. born \subseteq born' BY Births DEF AppendFrame, PublishArtifact
<1>2. Fates(o) BY ObjectFates
<1>3. place[o] = "absent" /\ synced[o] = "absent" BY <1>1 DEF BornFirst
<1>4. UnlinkObject(o) \/ SyncFinalized \/ SyncStaged => work # <<>>
  BY DEF UnlinkObject, SyncFinalized, SyncStaged, Running
<1> QED BY <1>1, <1>2, <1>3, <1>4, JobIsOne DEF Fates
-----------------------------------------------------------------------------
\* A call keeps its name and argument until it ends.
LEMMA TaskNames ==
    ASSUME Control, [Next]_vars
    PROVE  \/ task'.name = task.name /\ task'.arg = task.arg
           \/ task' = Idle
           \/ Begins
           \/ Recover /\ task'.name = "resume"
<1>1. TypeOK /\ PhasesAreOrderly BY DEF Control
<1>2. CASE Flushes \/ Reclaims \/ Forget \/ Fails
  BY <1>1, <1>2, FlushTask, ReclaimTask, ForgetTask, FailTask
<1>3. CASE \E b \in Batches : FlushAndPrepare(b) \/ Resume(b)
  BY <1>1, <1>3, DeleteTask, ResumeTask
<1>4. CASE CheckpointJournal \/ RemoveMetadata BY <1>4, CheckpointTask, RemoveTask DEF Control
<1>5. CASE (\E x \in Sessions : MarkDeleted(x)) \/ Cancel \/ Ends \/ AppendFrame
             \/ \E a \in Artifacts : PublishArtifact(a)
  BY <1>5
     DEF MarkDeleted, Cancel, Ends, EnforceDone, DeleteDone, WalkOver, AppendFrame,
         PublishArtifact
<1>6. CASE (\E o \in Objects : StageObject(o) \/ UnlinkObject(o)) \/ WorkerFails
  BY <1>1, <1>6, FailedJob DEF StageObject, UnlinkObject
<1>7. CASE SyncStaged \/ SyncFinalized
  <2>1. {"metadata", "forget"} \subseteq Steps BY DEF Steps
  <2> QED BY <1>1, <1>7, <2>1, AnswerTask DEF SyncStaged, SyncFinalized, Running
<1>8. CASE Crash \/ PowerLoss \/ Recover \/ OpenStore
  BY <1>8 DEF Crash, PowerLoss, Stop, Recover, OpenStore
<1> QED BY <1>2, <1>3, <1>4, <1>5, <1>6, <1>7, <1>8, EachStep DEF vars

\* Sessions are fenced one by one, a stop turns those asked for into ended ones,
\* and only a finished delete_session promises a deletion.
LEMMA Registers ==
    ASSUME Control, [Next]_vars
    PROVE  /\ born \subseteq born'
           /\ \/ UNCHANGED <<fenced, requested, ended>>
              \/ \E x \in Sessions :
                    /\ fenced' = fenced \union {x} /\ requested' = requested \union {x}
                    /\ UNCHANGED <<ended, task, mode, log, promises>>
              \/ /\ mode' = "down" /\ task' = Idle /\ requested' = requested /\ fenced' = {}
                 /\ ended \union requested \subseteq ended' /\ promises' = promises
           /\ \/ promises'.deleted = promises.deleted
              \/ DeleteDone /\ promises'.deleted = promises.deleted \union {task.arg}
<1>1. TypeOK /\ PhasesAreOrderly BY DEF Control
<1>2. CASE UNCHANGED <<fenced, ghosts>> BY <1>2 DEF ghosts
<1>3. CASE Begins BY <1>1, <1>3, BeginTask
<1>4. CASE Flushes BY <1>1, <1>4, FlushTask
<1>5. CASE Reclaims \/ Forget BY <1>1, <1>2, <1>5, ReclaimTask, ForgetTask
<1>6. CASE \E b \in Batches : FlushAndPrepare(b) \/ Resume(b)
  BY <1>1, <1>2, <1>6, DeleteTask, ResumeTask
<1>7. CASE CheckpointJournal BY <1>2, <1>7, CheckpointTask DEF Control
<1>8. CASE RemoveMetadata BY <1>8, RemoveTask DEF Control
<1>9. CASE Fails BY <1>1, <1>9, FailTask
<1>10. CASE \E x \in Sessions : MarkDeleted(x) BY <1>10 DEF MarkDeleted
<1>11. CASE Cancel \/ EnforceDone BY <1>2, <1>11 DEF Cancel, EnforceDone
<1>12. CASE DeleteDone
  <2>1. promises' = [promises EXCEPT !.deleted = @ \union {task.arg}] BY <1>12 DEF DeleteDone
  <2>2. promises'.deleted = promises.deleted \union {task.arg} BY <1>1, <2>1 DEF TypeOK
  <2> QED BY <1>12, <2>2 DEF DeleteDone
<1>13. CASE AppendFrame \/ \E a \in Artifacts : PublishArtifact(a)
  BY <1>13 DEF AppendFrame, PublishArtifact
<1>14. CASE (\E o \in Objects : StageObject(o) \/ UnlinkObject(o)) \/ SyncStaged \/ SyncFinalized \/ WorkerFails
  BY <1>2, <1>14
     DEF StageObject, UnlinkObject, SyncStaged, SyncFinalized, Answer, WorkerFails,
         WorkerUnchanged
<1>15. CASE Crash \/ PowerLoss BY <1>15 DEF Crash, PowerLoss, Stop
<1>16. CASE Recover \/ OpenStore BY <1>2, <1>16 DEF Recover, OpenStore
<1> QED BY <1>2, <1>3, <1>4, <1>5, <1>6, <1>7, <1>8, <1>9, <1>10, <1>11, <1>12, <1>13, <1>14,
           <1>15, <1>16,
           EachStep DEF vars, Ends

\* BornFirst is inductive under Control.
LEMMA BornKept ==
    ASSUME Control, BornFirst, [Next]_vars
    PROVE  BornFirst'
<1>1. TypeOK /\ index \in Index /\ index \in Surviving BY DEF Control, TypeOK, Surviving
<1>2. born \subseteq born' BY Registers
<1>3. RowsOf(index) \subseteq born /\ \A b \in index.batches : index.batch[b].objects \subseteq born
  BY <1>1 DEF BornFirst
<1>4. ASSUME NEW d \in Surviving' PROVE \A b \in d.batches : d.batch[b].objects \subseteq born'
  <2>1. CASE d \in Surviving BY <1>2, <2>1 DEF BornFirst
  <2>2. CASE \A c \in d.batches : Inherited(d, c) \/ JustPrepared(d, c)
    BY <1>2, <1>3, <2>2 DEF Inherited, SameBatch, JustPrepared
  <2> QED BY <2>1, <2>2, SurvivorJournals
<1>5. ASSUME NEW d \in Surviving' PROVE RowsOf(d) \subseteq born'
  <2>1. CASE d \in Surviving BY <1>2, <2>1 DEF BornFirst
  <2>2. CASE Retouched(index, d) BY <1>2, <1>3, <2>2 DEF Retouched, RowsOf
  <2>3. CASE d = index' /\ AppendFrame
    <3>1. task.arg \in Segments BY <2>3 DEF AppendFrame, WalkOver, Doing, Control, ArgsFit
    <3>2. RowsOf(d) = RowsOf(index) \union {task.arg} BY <1>1, <2>3, <3>1, AppendIndex DEF RowsOf
    <3> QED BY <1>2, <1>3, <2>3, <3>2 DEF AppendFrame
  <2>4. CASE d = index' /\ \E a \in Artifacts : PublishArtifact(a)
    <3>1. PICK a \in Artifacts : PublishArtifact(a) BY <2>4
    <3>2. RowsOf(d) = RowsOf(index) \union {a} BY <1>1, <2>4, <3>1, PublishIndex DEF RowsOf
    <3> QED BY <1>2, <1>3, <3>1, <3>2 DEF PublishArtifact
  <2>5. CASE d = index' /\ Recover
    <3>1. d.open = {} /\ d.sealed = {s \in Segments : place[s] = "live"} /\ d.artifacts \subseteq index.artifacts
      BY <1>1, <2>5, RecoverIndex
    <3>2. d.sealed \subseteq born BY <3>1 DEF BornFirst, Objects
    <3> QED BY <1>2, <1>3, <3>1, <3>2 DEF RowsOf
  <2>6. CASE d = index' /\ OpenStore BY <1>1, <1>2, <1>3, <2>6, OpenIndex DEF RowsOf
  <2>7. CASE d = index' /\ RemoveMetadata
    <3>1. task.batch \in Batches /\ d = Stripped(index, task.batch)
      BY <2>7, RemoveTask DEF Control
    <3>2. RowsOf(d) \subseteq RowsOf(index) BY <1>1, <3>1, StrippedIndex DEF RowsOf
    <3> QED BY <1>2, <1>3, <3>2
  <2>8. CASE d = index' /\ Forget
    <3>1. task.batch \in Batches BY <1>1, <2>8, ForgetTask, TaskBatch DEF InBatch
    <3>2. RowsOf(d) = RowsOf(index) BY <1>1, <2>8, <3>1, ForgetSteps, ForgottenIndex DEF RowsOf
    <3> QED BY <1>2, <1>3, <3>2
  <2>9. CASE d = index' /\ Reclaims
    <3>1. PICK b \in Free, S \in SUBSET Objects : index' = Prepared(index, b, "eviction", None, S)
      BY <1>1, <2>9, ReclaimTask
    <3>2. RowsOf(d) = RowsOf(index) BY <1>1, <2>9, <3>1, PreparedIndex DEF RowsOf, Free
    <3> QED BY <1>2, <1>3, <3>2
  <2>10. CASE d = index' /\ \E b \in Batches : FlushAndPrepare(b)
    <3>1. PICK b \in Batches : FlushAndPrepare(b) BY <2>10
    <3>2. task.arg \in Sessions BY <1>1, <3>1, DeleteTask DEF Control, ArgsFit
    <3>3. PICK f \in Index, S \in SUBSET Objects : Retouched(index, f) /\ index' = Prepared(f, b, "session", task.arg, S)
      BY <1>1, <3>1, <3>2, DeletePrepares
    <3>4. RowsOf(d) = RowsOf(f) BY <2>10, <3>2, <3>3, PreparedIndex DEF RowsOf
    <3>5. RowsOf(f) = RowsOf(index) BY <3>3 DEF Retouched, RowsOf
    <3> QED BY <1>2, <1>3, <3>4, <3>5
  <2> QED BY <2>1, <2>2, <2>3, <2>4, <2>5, <2>6, <2>7, <2>8, <2>9, <2>10, NewSurvivors DEF Grows
<1>6. \A o \in Objects \ born' : place'[o] = "absent" /\ synced'[o] = "absent" BY UnbornStay
<1>7. task'.name = "append" => task'.arg \notin born'
  <2>1. CASE Begins BY <1>1, <2>1, BeginTask
  <2>2. CASE task' = Idle BY <2>2, IdleTyped
  <2>3. CASE task'.name = task.name /\ task'.arg = task.arg /\ task' # Idle
    <3>1. born' = born \/ AppendFrame \/ \E a \in Artifacts : PublishArtifact(a)
      BY Births
    <3>2. ~AppendFrame /\ ~\E a \in Artifacts : PublishArtifact(a)
      BY <2>3 DEF AppendFrame, WalkOver, PublishArtifact
    <3> QED BY <2>3, <3>1, <3>2 DEF BornFirst
  <2> QED BY <2>1, <2>2, <2>3, TaskNames
<1> QED BY <1>4, <1>5, <1>6, <1>7 DEF BornFirst
-----------------------------------------------------------------------------
\* The entry of a file in a version of the journal.
Journaled(d, b, o) == b \in d.batches /\ o \in d.batch[b].objects
NoCrash == spent.crashes = 0

\* Crashes and losses of power are counted and never uncounted.
LEMMA Spending ==
    ASSUME Control, [Next]_vars
    PROVE  /\ spent'.crashes = 0 => spent.crashes = 0
           /\ spent'.losses = 0 => spent.losses = 0
           /\ Crash => spent'.crashes # 0
           /\ PowerLoss => spent'.losses # 0
<1>1. TypeOK /\ PhasesAreOrderly BY DEF Control
<1>2. spent.crashes \in Nat /\ spent.losses \in Nat BY <1>1 DEF TypeOK
<1>3. ASSUME NEW kind \in {"failures", "cancels", "crashes", "losses"}, NEW max, Spend(kind, max)
      PROVE  /\ spent'.crashes = 0 => spent.crashes = 0
             /\ spent'.losses = 0 => spent.losses = 0
             /\ kind = "crashes" => spent'.crashes # 0
             /\ kind = "losses" => spent'.losses # 0
  BY <1>1, <1>2, <1>3, SpendTyped
<1>4. CASE spent' = spent /\ ~Crash /\ ~PowerLoss BY <1>4
<1>5. Begins \/ Reclaims \/ Forget \/ (\E b \in Batches : FlushAndPrepare(b) \/ Resume(b)) => spent' = spent
  BY <1>1, BeginTask, ReclaimTask, ForgetTask, DeleteTask, ResumeTask
<1>6. CheckpointJournal \/ RemoveMetadata => spent' = spent
  BY DEF CheckpointJournal, RemoveMetadata
<1>7. (\E x \in Sessions : MarkDeleted(x)) \/ Ends \/ AppendFrame \/ (\E a \in Artifacts : PublishArtifact(a))
        => spent' = spent
  BY DEF MarkDeleted, Ends, EnforceDone, DeleteDone, AppendFrame, PublishArtifact
<1>8. (\E o \in Objects : StageObject(o) \/ UnlinkObject(o)) \/ SyncStaged \/ SyncFinalized => spent' = spent
  BY DEF StageObject, UnlinkObject, SyncStaged, SyncFinalized, Answer
<1>9. Recover \/ OpenStore => spent' = spent BY DEF Recover, OpenStore
<1>10. Flushes \/ Fails \/ Cancel \/ WorkerFails
         => spent' = spent \/ (\E k \in {"failures", "cancels"}, max \in {MaxFailures, MaxCancels} : Spend(k, max))
  BY DEF Flushes, FlushAndPin, Unpin, Decide, FlushFails, Fails, RemoveMetadataBlocked,
         StepFails, Cancel,
         WorkerFails
<1>11. Crash => Spend("crashes", MaxCrashes) BY DEF Crash
<1>12. PowerLoss => Spend("losses", MaxPowerLosses) BY DEF PowerLoss
<1>13. CASE Crash
  <2>1. spent'.losses = spent.losses BY <1>1, <1>11, <1>13, SpendTyped
  <2>2. ~PowerLoss \/ spent'.losses # 0 BY <1>3, <1>12
  <2> QED BY <1>3, <1>11, <1>13, <2>1, <2>2
<1>14. CASE PowerLoss
  <2>1. ~Crash \/ spent'.crashes # 0 BY <1>3, <1>11
  <2> QED BY <1>3, <1>12, <1>14, <2>1
<1>15. ASSUME ~Crash, ~PowerLoss
       PROVE  spent' = spent \/ (\E k \in {"failures", "cancels"}, max \in {MaxFailures, MaxCancels} : Spend(k, max))
  BY <1>5, <1>6, <1>7, <1>8, <1>9, <1>10, <1>15, EachStep DEF vars
<1> QED BY <1>3, <1>4, <1>13, <1>14, <1>15

\* Entries were forced unless both a crash and a loss of power occurred.
LEMMA Forcing ==
    ASSUME Control, [Next]_vars
    PROVE  /\ NoCrash' => NoCrash /\ ~Crash
           /\ EntriesWereForced' => EntriesWereForced
           /\ EntriesWereForced' /\ PowerLoss => NoCrash'
           /\ NoCrash => EntriesWereForced
  BY Spending DEF NoCrash, EntriesWereForced

\* A batch of the journal stays in it until it is forgotten.
LEMMA BatchesStay ==
    ASSUME Control, [Next]_vars, NEW d \in Surviving', NEW b \in index.batches
    PROVE  \/ d \in Surviving /\ (d # index' \/ PowerLoss)
           \/ b \in d.batches /\ Inherited(d, b)
           \/ Forget /\ b = task.batch /\ d = index'
<1>1. TypeOK /\ index \in Index BY DEF Control, TypeOK
<1>2. b \in Batches BY <1>1 DEF Index
<1>3. CASE Retouched(index, d) \/ SameJournal(index, d)
  BY <1>3 DEF Retouched, SameJournal, Inherited, SameBatch
<1>4. CASE d = index' /\ RemoveMetadata
  <2>1. task.batch \in Batches /\ d = Stripped(index, task.batch)
    BY <1>4, RemoveTask DEF Control
  <2>2. /\ d.batches = index.batches
        /\ \A c \in Batches \ {task.batch} : d.batch[c] = index.batch[c]
        /\ SameBatch(index, d, task.batch) /\ d.batch[task.batch].state = "removed"
    BY <1>1, <2>1, StrippedIndex
  <2> QED BY <1>2, <1>4, <2>2 DEF SameBatch, Inherited
<1>5. CASE d = index' /\ Forget
  <2>1. task.batch \in Batches BY <1>1, <1>5, ForgetTask, TaskBatch DEF InBatch
  <2> QED BY <1>1, <1>2, <1>5, <2>1, ForgetSteps, ForgottenIndex DEF Inherited, SameBatch
<1>6. CASE d = index' /\ Reclaims
  <2>1. PICK c \in Free, S \in SUBSET Objects : index' = Prepared(index, c, "eviction", None, S)
    BY <1>1, <1>6, ReclaimTask
  <2>2. c \in Batches /\ c # b BY DEF Free
  <2> QED BY <1>1, <1>2, <1>6, <2>1, <2>2, PreparedIndex DEF Inherited, SameBatch
<1>7. CASE d = index' /\ \E c \in Batches : FlushAndPrepare(c)
  <2>1. PICK c \in Batches : FlushAndPrepare(c) BY <1>7
  <2>2. task.arg \in Sessions /\ c \in Free BY <1>1, <2>1, DeleteTask DEF Control, ArgsFit
  <2>3. PICK f \in Index, S \in SUBSET Objects :
            Retouched(index, f) /\ index' = Prepared(f, c, "session", task.arg, S)
    BY <1>1, <2>1, <2>2, DeletePrepares
  <2>4. c # b BY <2>2 DEF Free
  <2> QED BY <1>2, <1>7, <2>2, <2>3, <2>4, PreparedIndex DEF Retouched, Inherited, SameBatch
<1> QED BY <1>3, <1>4, <1>5, <1>6, <1>7, NewSurvivors

\* So does each of its entries.
LEMMA JournalGrows ==
    ASSUME Control, [Next]_vars, NEW d \in Surviving', NEW b \in index.batches, NEW o,
           o \in index.batch[b].objects
    PROVE  \/ d \in Surviving /\ (d # index' \/ PowerLoss)
           \/ Journaled(d, b, o)
           \/ Forget /\ b = task.batch
  BY BatchesStay DEF Inherited, SameBatch, Journaled

\* An unforced version is an earlier one, or has the journal the index had.
LEMMA OlderSteps ==
    ASSUME Control, [Next]_vars, NEW d \in older'
    PROVE  d \in older \/ SameJournal(index, d)
<1>1. TypeOK /\ index \in Index BY DEF Control, TypeOK
<1>2. CASE older' \subseteq older \union {index} BY <1>2 DEF SameJournal
<1>3. CASE Flushes BY <1>1, <1>2, <1>3, FlushRetouches DEF Flushes
<1>4. CASE \E b \in Batches : FlushAndPrepare(b)
  <2>1. PICK b \in Batches : FlushAndPrepare(b) BY <1>4
  <2>2. task.arg \in Sessions BY <1>1, <2>1, DeleteTask DEF Control, ArgsFit
  <2>3. PICK f \in Index : Retouched(index, f) /\ older' = {f} BY <1>1, <2>1, <2>2, DeletePrepares
  <2> QED BY <2>3 DEF Retouched, SameJournal
<1>5. CASE Reclaims \/ RemoveMetadata \/ Forget
  BY <1>1, <1>2, <1>5, ReclaimTask, RemoveTask, ForgetSteps DEF Control
<1>6. CASE UNCHANGED log \/ CheckpointJournal \/ PowerLoss
  BY <1>2, <1>6 DEF log, CheckpointJournal, PowerLoss
<1>7. CASE AppendFrame \/ (\E a \in Artifacts : PublishArtifact(a)) \/ Recover \/ OpenStore
  BY <1>2, <1>7 DEF AppendFrame, PublishArtifact, Recover, OpenStore, Commit
<1> QED BY <1>3, <1>4, <1>5, <1>6, <1>7, LogSteps

\* Where a command of the next queue comes from.
SameJob(i, j) ==
    /\ work'[i].cmd = work[j].cmd /\ work'[i].batch = work[j].batch
    /\ work'[i].todo \subseteq work[j].todo
    /\ \A o \in work[j].todo \ work'[i].todo : j = 1 /\ (StageObject(o) \/ UnlinkObject(o))

SentJob(i) ==
    /\ work'[i].batch \in index.batches
    /\ work'[i].todo = index.batch[work'[i].batch].objects
    /\ \/ CheckpointJournal /\ work'[i].cmd = "stage" /\ work'[i].batch = task.batch
       \/ RemoveMetadata /\ work'[i].cmd = "finalize" /\ work'[i].batch = task.batch
       \/ Resume(work'[i].batch)

\* A command of the next queue was in the queue or has just been sent.
LEMMA JobSteps ==
    ASSUME Control, [Next]_vars, NEW i \in DOMAIN work'
    PROVE  ~PowerLoss /\ ((\E j \in DOMAIN work : SameJob(i, j)) \/ SentJob(i))
<1>1. TypeOK /\ PhasesAreOrderly BY DEF Control
<1>2. DOMAIN <<>> = {} OBVIOUS
<1>3. ~PowerLoss /\ work' # <<>> BY <1>2 DEF PowerLoss, Stop
<1>4. CASE work' = work BY <1>3, <1>4 DEF SameJob
<1>5. CASE work # <<>> /\ work' = Tail(work)
  <2>1. i + 1 \in DOMAIN work /\ work'[i] = work[i + 1] BY <1>1, <1>5, TailTyped
  <2> QED BY <1>3, <2>1 DEF SameJob
<1>6. CASE work # <<>> /\ \E o \in Objects : Handled(o) /\ (StageObject(o) \/ UnlinkObject(o))
  <2>1. PICK o \in Objects : Handled(o) /\ (StageObject(o) \/ UnlinkObject(o)) BY <1>6
  <2>2. /\ i \in DOMAIN work /\ work'[i].cmd = work[i].cmd /\ work'[i].batch = work[i].batch
        /\ work'[i].todo = IF i = 1 THEN work[i].todo \ {o} ELSE work[i].todo
    BY <1>1, <1>6, <2>1, HandledTyped
  <2>3. SameJob(i, i) BY <2>1, <2>2 DEF SameJob
  <2> QED BY <1>3, <2>2, <2>3
<1>7. ASSUME NEW b \in Batches, NEW cmd \in {"stage", "finalize"}, Send(cmd, b), b \in index.batches
      PROVE  \/ \E j \in DOMAIN work : SameJob(i, j)
             \/ /\ work'[i].batch \in index.batches /\ work'[i].batch = b /\ work'[i].cmd = cmd
                /\ work'[i].todo = index.batch[work'[i].batch].objects
  <2>1. /\ DOMAIN work' = DOMAIN work \union {Len(work) + 1}
        /\ \A j \in DOMAIN work : work'[j] = work[j]
        /\ work'[Len(work) + 1].cmd = cmd /\ work'[Len(work) + 1].batch = b
        /\ work'[Len(work) + 1].todo = index.batch[b].objects
    BY <1>1, <1>7, SendTyped
  <2>2. CASE i \in DOMAIN work BY <2>1, <2>2 DEF SameJob
  <2>3. CASE i = Len(work) + 1 BY <1>7, <2>1, <2>3
  <2> QED BY <2>1, <2>2, <2>3
<1>8. CASE CheckpointJournal
  <2>1. task.step = "checkpoint" /\ task.batch \in Batches /\ Send("stage", task.batch)
    BY <1>8, CheckpointTask DEF Control
  <2> QED BY <1>3, <1>7, <1>8, <2>1, TaskBatch DEF SentJob, InBatch
<1>9. CASE RemoveMetadata
  <2>1. task.step = "metadata" /\ task.batch \in Batches /\ Send("finalize", task.batch)
    BY <1>9, RemoveTask DEF Control
  <2> QED BY <1>3, <1>7, <1>9, <2>1, TaskBatch DEF SentJob, InBatch
<1>10. CASE \E b \in Batches : Resume(b)
  <2>1. PICK b \in Batches : Resume(b) BY <1>10
  <2>2. PICK cmd \in {"stage", "finalize"} : Send(cmd, b) /\ b \in index.batches
    BY <1>1, <2>1, ResumeTask
  <2> QED BY <1>3, <1>7, <2>1, <2>2 DEF SentJob
<1> QED BY <1>3, <1>4, <1>5, <1>6, <1>8, <1>9, <1>10, WorkSteps

\* By which step a call enters each step of remove_batch.
LEMMA TaskEntries ==
    ASSUME Control, [Next]_vars
    PROVE  \/ task'.step = task.step /\ task'.batch = task.batch /\ task'.name = task.name /\ task'.arg = task.arg
           \/ /\ task'.step \notin InBatch
              /\ \/ task' = Idle \/ Begins \/ Recover \/ Forget
                 \/ task.name \in {"pin", "unpin"} \/ task.step = "decide"
           \/ /\ task'.name = task.name /\ task'.arg = task.arg
              /\ \/ task'.step = "checkpoint" /\ (Reclaims \/ FlushAndPrepare(task'.batch))
                 \/ task'.step = "stage" /\ CheckpointJournal /\ task'.batch = task.batch
                 \/ task'.step = "metadata" /\ SyncStaged /\ Waiting /\ task'.batch = task.batch
                 \/ task'.step = "finalize" /\ RemoveMetadata /\ task'.batch = task.batch
                 \/ task'.step = "forget" /\ SyncFinalized /\ Waiting /\ task'.batch = task.batch
                 \/ task'.step \in {"stage", "finalize"} /\ Resume(task'.batch)
<1>1. TypeOK /\ PhasesAreOrderly BY DEF Control
<1>2. Idle.step \notin InBatch BY IdleTyped DEF InBatch
<1>3. CASE Begins \/ Flushes \/ Forget \/ Fails
  <2>1. Flushes => task' = Idle \/ task.name \in {"pin", "unpin"} \/ task.step = "decide"
    BY DEF Flushes, FlushAndPin, Unpin, Decide, FlushFails, GiveUp, Doing, At
  <2> QED BY <1>1, <1>2, <1>3, <2>1, BeginTask, FlushTask, ForgetTask, FailTask DEF InBatch
<1>4. CASE Reclaims BY <1>1, <1>4, ReclaimTask
<1>5. CASE \E b \in Batches : FlushAndPrepare(b) BY <1>1, <1>5, DeleteTask
<1>6. CASE CheckpointJournal \/ RemoveMetadata BY <1>6, CheckpointTask, RemoveTask DEF Control
<1>7. CASE Cancel \/ Ends \/ AppendFrame \/ OpenStore \/ Crash \/ PowerLoss
  BY <1>2, <1>7 DEF Cancel, Ends, EnforceDone, DeleteDone, AppendFrame, WalkOver, OpenStore,
     Crash, PowerLoss, Stop
<1>8. CASE (\E x \in Sessions : MarkDeleted(x)) \/ (\E a \in Artifacts : PublishArtifact(a))
            \/ \E o \in Objects : StageObject(o) \/ UnlinkObject(o)
  BY <1>8 DEF MarkDeleted, PublishArtifact, StageObject, UnlinkObject
<1>9. CASE Recover BY <1>9 DEF Recover, InBatch
<1>10. CASE SyncStaged \/ SyncFinalized
  <2>1. {"metadata", "forget"} \subseteq Steps BY DEF Steps
  <2> QED BY <1>1, <1>10, <2>1, AnswerTask DEF SyncStaged, SyncFinalized, Running
<1>11. CASE WorkerFails BY <1>1, <1>2, <1>11, FailedJob
<1>12. CASE \E b \in Batches : Resume(b) BY <1>1, <1>12, ResumeTask
<1> QED BY <1>3, <1>4, <1>5, <1>6, <1>7, <1>8, <1>9, <1>10, <1>11, <1>12, EachStep DEF vars

\* Only a crash or a loss of power closes an open store.
LEMMA ModeFalls ==
    ASSUME Control, [Next]_vars, mode = "up", mode' # "up"
    PROVE  Crash \/ PowerLoss
<1>1. TypeOK /\ PhasesAreOrderly BY DEF Control
<1>2. Begins \/ Flushes \/ Reclaims \/ Forget \/ Fails \/ WorkerFails
        \/ (\E b \in Batches : FlushAndPrepare(b) \/ Resume(b)) => mode' = mode
  BY <1>1, BeginTask, FlushTask, ReclaimTask, ForgetTask, FailTask, FailedJob, DeleteTask,
     ResumeTask
<1>3. CheckpointJournal \/ RemoveMetadata \/ Cancel \/ Ends \/ AppendFrame => mode' = mode
  BY DEF CheckpointJournal, RemoveMetadata, Cancel, Ends, EnforceDone, DeleteDone, WalkOver,
         AppendFrame
<1>4. (\E x \in Sessions : MarkDeleted(x)) \/ (\E a \in Artifacts : PublishArtifact(a))
        \/ (\E o \in Objects : StageObject(o) \/ UnlinkObject(o)) \/ SyncStaged \/ SyncFinalized => mode' = mode
  BY DEF MarkDeleted, PublishArtifact, StageObject, UnlinkObject, SyncStaged, SyncFinalized,
         Answer
<1>5. ~Recover /\ (OpenStore => mode' = "up") BY DEF Recover, OpenStore
<1> QED BY <1>2, <1>3, <1>4, <1>5, EachStep DEF vars
-----------------------------------------------------------------------------
\* Without a crash, a file in .trash, or one a loss of power would leave there, has
\* its entry in every version of the journal that could survive.
TrashIsJournaled == NoCrash => \A d \in Surviving : \A o \in Objects :
    /\ place[o] \in Batches => Journaled(d, place[o], o)
    /\ synced[o] \in Batches => Journaled(d, synced[o], o)

\* A file is staged after its entry was forced: what is left to stage is in every
\* version that could survive.
StagingWasForced == NoCrash => \A i \in DOMAIN work : work[i].cmd = "stage" =>
    \A d \in older : \A o \in work[i].todo : place[o] = "live" => Journaled(d, work[i].batch, o)

\* While recovery replays after losses of power only, no version that could survive
\* lacks an entry the replay acts on.
ReplaysWereForced == NoCrash /\ mode # "up" => \A d \in older : \A b \in index.batches :
    \A o \in index.batch[b].objects : place[o] = "live" => Journaled(d, b, o)

\* What is in .trash of a batch being finalized is still to be unlinked.
UnlinkingIsToDo == EntriesWereForced => \A i \in DOMAIN work : work[i].cmd = "finalize" =>
    \A o \in Objects : place[o] = work[i].batch => o \in work[i].todo

\* When the batch is forgotten nothing of it is left in .trash.
UnlinkingIsDone == task.step = "forget" => \A o \in Objects :
    /\ EntriesWereForced => place[o] # task.batch
    /\ NoCrash => synced[o] # task.batch

\* All of it together: none of these is inductive alone.
Trash == /\ StagedFilesAreJournaled /\ TrashIsJournaled /\ StagingWasForced /\ ReplaysWereForced
         /\ UnlinkingIsToDo /\ UnlinkingIsDone

\* A file in its live directory was there before, unless it is new or a loss of
\* power put it back.
LEMMA LiveBefore ==
    ASSUME Control, BornFirst, [Next]_vars, ~PowerLoss, NEW o \in Objects, o \in born, place'[o] = "live"
    PROVE  place[o] = "live"
<1>1. Fates(o) BY ObjectFates
<1>2. StageObject(o) => work # <<>> BY DEF StageObject, Running
<1> QED BY <1>1, <1>2, JobIsOne DEF Fates

\* A file of a batch was created.
LEMMA JournaledBorn ==
    ASSUME Control, BornFirst, NEW b \in index.batches, NEW o \in index.batch[b].objects
    PROVE  o \in Objects /\ o \in born
<1>1. index \in Surviving BY DEF Surviving
<1> QED BY <1>1 DEF BornFirst, Control, TypeOK

\* The parts of Trash are kept, one lemma each.
LEMMA TrashIsJournaledKept ==
    ASSUME Control, BornFirst, Trash, [Next]_vars
    PROVE  TrashIsJournaled'
<1>1. index \in Surviving BY DEF Surviving
<1> SUFFICES ASSUME NoCrash', NEW d \in Surviving', NEW o \in Objects
             PROVE  /\ place'[o] \in Batches => Journaled(d, place'[o], o)
                    /\ synced'[o] \in Batches => Journaled(d, synced'[o], o)
  BY DEF TrashIsJournaled, Journaled
<1>2. NoCrash BY Forcing
<1>3. ASSUME NEW v \in Batches, v = place[o] \/ v = synced[o] PROVE Journaled(d, v, o)
  <2>1. \A e \in Surviving : Journaled(e, v, o) BY <1>2, <1>3 DEF Trash, TrashIsJournaled
  <2>2. Forget => v # task.batch
    <3>1. Forget => task.step = "forget" BY ForgetTask DEF Control
    <3> QED BY <1>2, <1>3, <3>1, Forcing DEF Trash, UnlinkingIsDone
  <2> QED BY <1>1, <2>1, <2>2, JournalGrows DEF Journaled
<1>4. ASSUME StageObject(o), place[o] = "live" PROVE Journaled(d, Job.batch, o)
  <2>1. work # <<>> /\ Job.cmd = "stage" /\ o \in Job.todo /\ UNCHANGED log
    BY <1>4 DEF StageObject, Running, WorkerUnchanged
  <2>2. d \in older \/ d = index BY <2>1 DEF Surviving, log
  <2>3. CASE d = index BY <2>1, <2>3, JobIsOne DEF Journaled
  <2>4. CASE d \in older BY <1>2, <1>4, <2>1, <2>4, JobIsOne DEF Trash, StagingWasForced
  <2> QED BY <2>2, <2>3, <2>4
<1>5. {"live", "absent"} \intersect Batches = {} BY JournalAssumption
<1>6. StageObject(o) => Job.batch \in Batches
  <2>1. StageObject(o) => work # <<>> BY DEF StageObject, Running
  <2> QED BY <2>1, JobIsOne
<1> QED BY <1>3, <1>4, <1>5, <1>6, ObjectFates DEF Fates

LEMMA StagingWasForcedKept ==
    ASSUME Control, BornFirst, Trash, [Next]_vars
    PROVE  StagingWasForced'
<1> SUFFICES ASSUME NoCrash', NEW i \in DOMAIN work', work'[i].cmd = "stage", NEW d \in older',
                    NEW o \in work'[i].todo, place'[o] = "live"
             PROVE  Journaled(d, work'[i].batch, o)
  BY DEF StagingWasForced, Journaled
<1>1. TypeOK /\ NoCrash BY Forcing DEF Control
<1>2. ~PowerLoss /\ ((\E j \in DOMAIN work : SameJob(i, j)) \/ SentJob(i)) BY JobSteps
<1>3. d \in older \/ SameJournal(index, d) BY OlderSteps
<1>4. work'[i].batch \in index.batches /\ o \in index.batch[work'[i].batch].objects
  <2>1. CASE SentJob(i) BY <2>1 DEF SentJob
  <2>2. ASSUME NEW j \in DOMAIN work, SameJob(i, j)
        PROVE  work'[i].batch \in index.batches /\ o \in index.batch[work'[i].batch].objects
    BY <2>2 DEF SameJob, Control, JobsAreJournaled
  <2> QED BY <1>2, <2>1, <2>2
<1>5. place[o] = "live" BY <1>2, <1>4, JournaledBorn, LiveBefore
<1>6. CASE SameJournal(index, d) BY <1>4, <1>6 DEF SameJournal, Journaled
<1>7. CASE d \in older
  <2>1. ASSUME NEW j \in DOMAIN work, SameJob(i, j) PROVE Journaled(d, work'[i].batch, o)
    BY <1>1, <1>5, <1>7, <2>1 DEF SameJob, Trash, StagingWasForced
  <2>2. CASE SentJob(i)
    <3>1. ~CheckpointJournal BY CheckpointTask DEF Control
    <3>2. RemoveMetadata => work'[i].cmd = "finalize"
      <4>1. ~(RemoveMetadata /\ Resume(work'[i].batch))
        BY <1>1, <1>4, RemoveTask, ResumeTask DEF Control, TypeOK, Index
      <4> QED BY <2>2, <3>1, <4>1 DEF SentJob
    <3>3. Resume(work'[i].batch) BY <2>2, <3>1, <3>2 DEF SentJob
    <3>4. mode # "up" BY <3>3 DEF Resume, Doing, Control, PhasesAreOrderly
    <3> QED BY <1>1, <1>4, <1>5, <1>7, <3>4 DEF Trash, ReplaysWereForced
  <2> QED BY <1>2, <2>1, <2>2
<1> QED BY <1>3, <1>6, <1>7

LEMMA ReplaysWereForcedKept ==
    ASSUME Control, BornFirst, Trash, [Next]_vars
    PROVE  ReplaysWereForced'
<1> SUFFICES ASSUME NoCrash', mode' # "up", NEW d \in older', NEW b \in index'.batches,
                    NEW o \in index'.batch[b].objects, place'[o] = "live"
             PROVE  Journaled(d, b, o)
  BY DEF ReplaysWereForced, Journaled
<1>1. TypeOK /\ NoCrash /\ ~Crash BY Forcing DEF Control
<1>2. ~PowerLoss BY DEF PowerLoss
<1>3. mode # "up" BY <1>1, <1>2, ModeFalls
<1>4. Inherited(index', b) \/ JustPrepared(index', b)
  <2>1. index' \in Surviving' BY DEF Surviving
  <2> QED BY <1>2, <2>1, SurvivorJournals
<1>5. CASE Inherited(index', b)
  <2>1. b \in index.batches /\ o \in index.batch[b].objects BY <1>5 DEF Inherited, SameBatch
  <2>2. place[o] = "live" BY <1>2, <2>1, JournaledBorn, LiveBefore
  <2>3. CASE d \in older BY <1>1, <1>3, <2>1, <2>2, <2>3 DEF Trash, ReplaysWereForced
  <2>4. CASE SameJournal(index, d) BY <2>1, <2>4 DEF SameJournal, Journaled
  <2> QED BY <2>3, <2>4, OlderSteps
<1>6. CASE JustPrepared(index', b)
  <2>1. ~FlushAndPrepare(b)
    BY <1>3, IdleTyped DEF FlushAndPrepare, Doing, Control, PhasesAreOrderly, TypeOK
  <2>2. Reclaims BY <1>6, <2>1 DEF JustPrepared
  <2>3. PICK a \in Artifacts : InvalidateArtifact(a)
    BY <1>3, <2>2 DEF Reclaims, ReclaimArtifact, ReclaimSegment
  <2>4. place[a] # "live" /\ Prepare("eviction", None, {a}) BY <2>3 DEF InvalidateArtifact
  <2>5. {a} \in SUBSET Objects BY DEF Objects
  <2>6. PICK c \in Free : /\ index' = Prepared(index, c, "eviction", None, {a})
                          /\ task' = [task EXCEPT !.step = "checkpoint", !.batch = c]
                          /\ UNCHANGED files
    BY <1>1, <2>4, <2>5, PrepareSteps
  <2>7. c \in Batches /\ task'.batch = c BY <1>1, <2>6 DEF Free, TypeOK
  <2>8. index'.batch[c].objects = {a}
    <3>1. index \in Index BY <1>1 DEF TypeOK
    <3>2. Prepared(index, c, "eviction", None, {a}).batch[c].objects = {a}
      BY <2>5, <2>7, <3>1, PreparedIndex
    <3> QED BY <2>6, <3>2
  <2> QED BY <1>6, <2>4, <2>6, <2>7, <2>8 DEF JustPrepared, files
<1> QED BY <1>4, <1>5, <1>6

LEMMA UnlinkingIsToDoKept ==
    ASSUME Control, BornFirst, Trash, [Next]_vars
    PROVE  UnlinkingIsToDo'
<1> SUFFICES ASSUME EntriesWereForced', NEW i \in DOMAIN work', work'[i].cmd = "finalize",
                    NEW o \in Objects, place'[o] = work'[i].batch
             PROVE  o \in work'[i].todo
  BY DEF UnlinkingIsToDo
<1>1. TypeOK /\ EntriesWereForced BY Forcing DEF Control
<1>2. ~PowerLoss /\ ((\E j \in DOMAIN work : SameJob(i, j)) \/ SentJob(i)) BY JobSteps
<1>3. ASSUME NEW j \in DOMAIN work, SameJob(i, j) PROVE o \in work'[i].todo
  <2>1. /\ work[j].cmd = "finalize" /\ work[j].batch = place'[o]
        /\ work[j].batch \in Batches /\ work[j].batch \notin {"absent", "live"}
    BY <1>3, JobBatches, JournalAssumption DEF SameJob
  <2>2. StageObject(o) => place'[o] = place[o] /\ j # 1
    <3>1. StageObject(o) => work # <<>> /\ Job.cmd = "stage" /\ (place'[o] = place[o] \/ place'[o] = Job.batch)
      BY <1>1 DEF StageObject, Running, TypeOK
    <3>2. StageObject(o) => j # 1 BY <2>1, <3>1, JobIsOne
    <3>3. StageObject(o) => Job.batch # work[j].batch
      BY <3>1, <3>2, JobIsOne DEF Control, JobsAreDistinct
    <3> QED BY <2>1, <3>1, <3>2, <3>3
  <2>3. UnlinkObject(o) => j # 1
    <3>1. UnlinkObject(o) => place'[o] # work[1].batch \/ place'[o] = "absent"
      BY <1>1 DEF UnlinkObject, TypeOK, Job
    <3> QED BY <2>1, <3>1
  <2>4. place[o] = work[j].batch
    <3>1. Fates(o) BY ObjectFates
    <3> QED BY <1>2, <2>1, <2>2, <3>1 DEF Fates
  <2>5. o \in work[j].todo BY <1>1, <2>1, <2>4 DEF Trash, UnlinkingIsToDo
  <2>6. j # 1 \/ ~(StageObject(o) \/ UnlinkObject(o)) BY <2>2, <2>3
  <2> QED BY <1>3, <2>5, <2>6 DEF SameJob
<1>4. CASE SentJob(i)
  <2>1. place' = place
    BY <1>1, <1>4, RemoveTask, CheckpointTask DEF SentJob, Control, Resume, files
  <2>2. place[o] \in Batches BY <1>1, <1>4, <2>1 DEF SentJob, TypeOK, Index
  <2> QED BY <1>1, <1>4, <2>1, <2>2 DEF SentJob, Trash, StagedFilesAreJournaled
<1> QED BY <1>2, <1>3, <1>4

LEMMA UnlinkingIsDoneKept ==
    ASSUME Control, BornFirst, Trash, [Next]_vars
    PROVE  UnlinkingIsDone'
<1> SUFFICES ASSUME task'.step = "forget", NEW o \in Objects
             PROVE  /\ EntriesWereForced' => place'[o] # task'.batch
                    /\ NoCrash' => synced'[o] # task'.batch
  BY DEF UnlinkingIsDone
<1>1. TypeOK BY DEF Control
<1>2. Fates(o) BY ObjectFates
<1>3. CASE task.step = "forget" /\ task'.batch = task.batch
  <2>1. /\ task.batch \in Batches /\ NoJobFor(task.batch) /\ task.batch \notin {"absent", "live"}
    BY <1>3, TaskBatch, JournalAssumption DEF Control, TaskIsJournaled, InBatch
  <2>2. StageObject(o) => Job.batch # task.batch
    <3>1. StageObject(o) => work # <<>> BY DEF StageObject, Running
    <3> QED BY <2>1, <3>1, JobIsOne DEF NoJobFor
  <2>3. ~PowerLoss BY IdleTyped DEF PowerLoss, Stop
  <2>4. /\ EntriesWereForced' => place[o] # task.batch
        /\ NoCrash' => synced[o] # task.batch /\ place[o] # task.batch
    BY <1>3, Forcing DEF Trash, UnlinkingIsDone
  <2>5. ~OpenStore BY <1>3 DEF OpenStore, Doing
  <2> QED BY <1>2, <1>3, <2>1, <2>2, <2>3, <2>4, <2>5 DEF Fates
<1>4. CASE SyncFinalized /\ Waiting /\ task'.batch = task.batch
  <2>1. work # <<>> /\ Job.cmd = "finalize" /\ Job.todo = {} /\ task.batch = Job.batch /\ place' = place
    BY <1>4 DEF SyncFinalized, Running, Waiting, Answer
  <2>2. synced'[o] = IF synced[o] = Job.batch THEN place[o] ELSE synced[o]
    BY <1>4 DEF SyncFinalized
  <2>3. EntriesWereForced => place[o] # Job.batch
    BY <2>1, JobIsOne DEF Trash, UnlinkingIsToDo
  <2> QED BY <1>4, <2>1, <2>2, <2>3, Forcing
<1> QED BY <1>1, <1>3, <1>4, TaskEntries DEF InBatch

LEMMA StagedFilesKept ==
    ASSUME Control, BornFirst, Trash, [Next]_vars
    PROVE  StagedFilesAreJournaled'
<1> SUFFICES ASSUME EntriesWereForced', NEW o \in Objects, place'[o] \in Batches
             PROVE  Journaled(index', place'[o], o)
  BY DEF StagedFilesAreJournaled, Journaled
<1>1. index' \in Surviving' BY DEF Surviving
<1>2. CASE PowerLoss
  <2>1. NoCrash' BY <1>2, Forcing
  <2> QED BY <1>1, <2>1, TrashIsJournaledKept DEF TrashIsJournaled, Journaled
<1>3. CASE StageObject(o) /\ place'[o] = Job.batch
  <2>1. work # <<>> /\ o \in Job.todo /\ index' = index
    BY <1>3 DEF StageObject, Running, WorkerUnchanged, log
  <2> QED BY <1>3, <2>1, JobIsOne DEF Journaled
<1>4. CASE ~PowerLoss /\ place'[o] = place[o]
  <2>1. place[o] \in index.batches /\ o \in index.batch[place[o]].objects
    BY <1>4, Forcing DEF Trash, StagedFilesAreJournaled
  <2>2. ~(Forget /\ place[o] = task.batch)
    <3>1. Forget => task.step = "forget" BY ForgetTask DEF Control
    <3> QED BY <3>1, Forcing DEF Trash, UnlinkingIsDone
  <2> QED BY <1>1, <1>4, <2>1, <2>2, JournalGrows
<1>5. {"live", "absent"} \intersect Batches = {} BY JournalAssumption
<1> QED BY <1>2, <1>3, <1>4, <1>5, ObjectFates DEF Fates

LEMMA TrashKept ==
    ASSUME Control, BornFirst, Trash, [Next]_vars
    PROVE  Trash'
  BY TrashIsJournaledKept, StagingWasForcedKept, ReplaysWereForcedKept, UnlinkingIsToDoKept,
     UnlinkingIsDoneKept, StagedFilesKept DEF Trash
-----------------------------------------------------------------------------
\* A file of a batch that staging has done with is not in its live directory.
StagedFilesHaveMoved == \A i \in DOMAIN work : work[i].cmd = "stage" =>
    \A o \in index.batch[work[i].batch].objects \ work[i].todo : place[o] # "live"

\* When the rows are about to be deleted, no loss of power brings the files back.
StagingIsDone == task.step = "metadata" => \A o \in index.batch[task.batch].objects : Gone(o)

\* Nor after the rows are deleted, whatever version of the index survives.
RemovedFilesAreGone == \A d \in Surviving : \A b \in d.batches :
    d.batch[b].state = "removed" => \A o \in d.batch[b].objects : Gone(o)

\* A move a loss of power could take back is of a file that a prepared batch claims.
UnsyncedMovesAreClaimed == \A o \in Objects :
    place[o] # "live" /\ synced[o] = "live" => o \in Claimed(index)

\* Together: no file returns to its live directory after its row is deleted.
Removal == /\ StagedFilesHaveMoved /\ StagingIsDone
           /\ RemovedFilesAreGone /\ UnsyncedMovesAreClaimed

\* The batches of the next index, unless power is lost.
LEMMA IndexJournal ==
    ASSUME Control, [Next]_vars, ~PowerLoss, NEW c \in index'.batches
    PROVE  Inherited(index', c) \/ JustPrepared(index', c)
<1>1. index' \in Surviving' BY DEF Surviving
<1> QED BY <1>1, SurvivorJournals

\* The batch of a call between two steps of remove_batch is the same one.
LEMMA BatchKept ==
    ASSUME Control, [Next]_vars, task.step \in InBatch, task'.step \in InBatch, task'.batch = task.batch
    PROVE  ~PowerLoss /\ Inherited(index', task.batch)
<1>1. ~PowerLoss BY IdleTyped DEF PowerLoss, Stop, InBatch
<1>2. task.batch \in index'.batches BY ControlKept DEF Control, TaskIsJournaled
<1>3. task.batch \notin Free BY TaskBatch DEF Free
<1> QED BY <1>1, <1>2, <1>3, IndexJournal DEF JustPrepared

\* A file stays claimed until the metadata of its batch is removed.
LEMMA ClaimedSteps ==
    ASSUME Control, [Next]_vars, NEW d \in Surviving', NEW o \in Claimed(index)
    PROVE  \/ d \in Surviving /\ (d # index' \/ PowerLoss)
           \/ o \in Claimed(d)
           \/ RemoveMetadata /\ o \in index.batch[task.batch].objects
<1>1. PICK b \in index.batches : o \in index.batch[b].objects /\ index.batch[b].state = "prepared"
  BY DEF Claimed
<1>2. ~(Forget /\ b = task.batch)
  BY <1>1, ForgetTask DEF Control, TaskIsJournaled, InBatch, BeforeRows
<1>3. o \in Objects BY DEF Claimed
<1>4. CASE b \in d.batches /\ o \in d.batch[b].objects
  BY <1>1, <1>3, <1>4, SurvivorJournals DEF Inherited, JustPrepared, Claimed
<1> QED BY <1>1, <1>2, <1>4, JournalGrows DEF Journaled

\* The parts of Removal are kept, one lemma each.
LEMMA StagedFilesHaveMovedKept ==
    ASSUME Control, BornFirst, Removal, [Next]_vars
    PROVE  StagedFilesHaveMoved'
<1> SUFFICES ASSUME NEW i \in DOMAIN work', work'[i].cmd = "stage",
                    NEW o \in index'.batch[work'[i].batch].objects, o \notin work'[i].todo
             PROVE  place'[o] # "live"
  BY DEF StagedFilesHaveMoved
<1>1. TypeOK BY DEF Control
<1>2. ~PowerLoss /\ ((\E j \in DOMAIN work : SameJob(i, j)) \/ SentJob(i)) BY JobSteps
<1>3. ASSUME NEW j \in DOMAIN work, SameJob(i, j) PROVE place'[o] # "live"
  <2>1. JobsUndisturbed
    <3>1. DOMAIN <<>> = {} OBVIOUS
    <3> QED BY <3>1, JobsAreUndisturbed
  <2>2. o \in index.batch[work[j].batch].objects BY <1>3, <2>1 DEF JobsUndisturbed, SameJob
  <2>3. o \in Objects /\ o \in born BY <2>2, JobBatches, JournaledBorn
  <2>4. CASE o \notin work[j].todo
    <3>1. place[o] # "live" BY <1>3, <2>2, <2>4 DEF SameJob, Removal, StagedFilesHaveMoved
    <3> QED BY <1>2, <2>3, <3>1, LiveBefore
  <2>5. CASE o \in work[j].todo
    <3>1. j = 1 /\ (StageObject(o) \/ UnlinkObject(o)) BY <1>3, <2>5 DEF SameJob
    <3>2. Job.cmd = "stage" BY <1>3, <3>1 DEF SameJob, Job
    <3>3. StageObject(o) /\ work # <<>> BY <3>1, <3>2 DEF UnlinkObject, StageObject, Running
    <3> QED BY <1>1, <2>3, <3>3, JobIsOne DEF StageObject, TypeOK
  <2> QED BY <2>4, <2>5
<1>4. ~SentJob(i)
  <2>1. CASE CheckpointJournal \/ Resume(work'[i].batch)
    <3>1. index' = index BY <2>1 DEF CheckpointJournal, Resume, log
    <3> QED BY <3>1 DEF SentJob
  <2> QED BY <2>1 DEF SentJob
<1> QED BY <1>2, <1>3, <1>4

LEMMA StagingIsDoneKept ==
    ASSUME Control, BornFirst, Removal, [Next]_vars
    PROVE  StagingIsDone'
<1> SUFFICES ASSUME task'.step = "metadata", NEW o \in index'.batch[task'.batch].objects
             PROVE  Gone(o)'
  BY DEF StagingIsDone
<1>1. TypeOK BY DEF Control
<1>2. CASE task.step = "metadata" /\ task'.batch = task.batch
  <2>1. task.batch \in index.batches /\ o \in index.batch[task.batch].objects
    BY <1>2, BatchKept DEF Inherited, SameBatch, InBatch
  <2>2. Gone(o) BY <1>2, <2>1 DEF Removal, StagingIsDone
  <2> QED BY <2>1, <2>2, JournaledBorn, GoneStays
<1>3. CASE SyncStaged /\ Waiting /\ task'.batch = task.batch
  <2>1. work # <<>> /\ Job.cmd = "stage" /\ Job.todo = {} /\ task.batch = Job.batch /\ place' = place
        /\ index' = index
    BY <1>3 DEF SyncStaged, Running, Waiting, Answer, WorkerUnchanged, log
  <2>2. o \in index.batch[Job.batch].objects /\ o \in Objects
    BY <1>3, <2>1, JobIsOne, JournaledBorn
  <2>3. place[o] # "live" BY <2>1, <2>2, JobIsOne DEF Removal, StagedFilesHaveMoved
  <2>4. synced'[o] = IF place[o] \in {"live", Job.batch} \/ synced[o] = "live" THEN place[o] ELSE synced[o]
    BY <1>3, <2>2 DEF SyncStaged
  <2> QED BY <2>1, <2>3, <2>4 DEF Gone
<1> QED BY <1>1, <1>2, <1>3, TaskEntries DEF InBatch

LEMMA RemovedFilesAreGoneKept ==
    ASSUME Control, BornFirst, Removal, [Next]_vars
    PROVE  RemovedFilesAreGone'
<1> SUFFICES ASSUME NEW d \in Surviving', NEW b \in d.batches, d.batch[b].state = "removed",
                    NEW o \in d.batch[b].objects
             PROVE  Gone(o)'
  BY DEF RemovedFilesAreGone
<1>1. TypeOK /\ index \in Surviving BY DEF Control, Surviving
<1>2. \A e \in Surviving : \A c \in e.batches : \A p \in e.batch[c].objects : p \in Objects /\ p \in born
  BY <1>1 DEF BornFirst, TypeOK
<1>3. CASE d \in Surviving BY <1>2, <1>3, GoneStays DEF Removal, RemovedFilesAreGone
<1>4. CASE Inherited(d, b)
  <2>1. b \in index.batches /\ o \in index.batch[b].objects BY <1>4 DEF Inherited, SameBatch
  <2>2. CASE index.batch[b].state = "removed"
    BY <1>1, <1>2, <2>1, <2>2, GoneStays DEF Removal, RemovedFilesAreGone
  <2>3. CASE RemoveMetadata /\ b = task.batch
    <3>1. Gone(o) BY <2>1, <2>3 DEF RemoveMetadata, At, Removal, StagingIsDone
    <3> QED BY <1>1, <1>2, <2>1, <3>1, GoneStays
  <2> QED BY <1>4, <2>2, <2>3 DEF Inherited
<1> QED BY <1>3, <1>4, SurvivorJournals DEF JustPrepared

LEMMA UnsyncedMovesAreClaimedKept ==
    ASSUME Control, BornFirst, Removal, [Next]_vars
    PROVE  UnsyncedMovesAreClaimed'
<1> SUFFICES ASSUME NEW o \in Objects, place'[o] # "live", synced'[o] = "live"
             PROVE  o \in Claimed(index')
  BY DEF UnsyncedMovesAreClaimed, Claimed
<1>1. Fates(o) BY ObjectFates
<1>2. CASE o \in Claimed(index) /\ ~PowerLoss /\ synced[o] = "live"
  <2>1. ~(RemoveMetadata /\ o \in index.batch[task.batch].objects)
    BY <1>2 DEF RemoveMetadata, At, Removal, StagingIsDone, Gone
  <2>2. index' \in Surviving' BY DEF Surviving
  <2> QED BY <1>2, <2>1, <2>2, ClaimedSteps
<1>3. CASE StageObject(o)
  <2>1. work # <<>> /\ Job.cmd = "stage" /\ o \in Job.todo /\ index' = index
    BY <1>3 DEF StageObject, Running, WorkerUnchanged, log
  <2> QED BY <2>1, JobIsOne DEF Claimed
<1>4. CASE ~PowerLoss /\ synced'[o] = synced[o] /\ place[o] # "live"
  BY <1>2, <1>4 DEF Removal, UnsyncedMovesAreClaimed
<1>5. UnlinkObject(o) => work # <<>> BY DEF UnlinkObject, Running
<1>6. ~PowerLoss
  <2>1. PowerLoss => synced' = place' BY DEF PowerLoss
  <2> QED BY <2>1
<1> QED BY <1>1, <1>3, <1>4, <1>5, <1>6, JobIsOne DEF Fates
-----------------------------------------------------------------------------
\* A session batch is of a session whose deletion was asked for, and such a session
\* stays fenced until the store is closed, ended after it.
SessionsWereAsked ==
    /\ \A d \in Surviving : \A b \in d.batches :
           /\ d.batch[b].kind = "session" <=> d.batch[b].session # None
           /\ d.batch[b].session # None => d.batch[b].session \in requested
    /\ promises.deleted \subseteq requested
    /\ fenced \subseteq requested /\ requested \subseteq fenced \union ended

\* The session is fenced as long as its batch is in the journal of an open store, and
\* the batch of a running delete_session is of its own session.
DeletionsAreFenced ==
    /\ mode = "up" => \A b \in index.batches : index.batch[b].session \in fenced \union {None}
    /\ task.name = "delete" => task.arg \in fenced
    /\ task.name = "delete" /\ task.step \in InBatch /\ index.batch[task.batch].kind = "session"
        => index.batch[task.batch].session = task.arg

\* An append past its checks is for no session that ended, was deleted or has a batch.
AppendsAreToNewSessions == task.name = "append" =>
    /\ SessionOf[task.arg] \notin ended \union promises.deleted
    /\ \A d \in Surviving : \A b \in d.batches : d.batch[b].session # SessionOf[task.arg]

Asked == SessionsWereAsked /\ DeletionsAreFenced /\ AppendsAreToNewSessions

\* The batch a call starts has just been prepared.
LEMMA TakenBatch ==
    ASSUME Control, [Next]_vars, task'.step = "checkpoint", Reclaims \/ FlushAndPrepare(task'.batch)
    PROVE  JustPrepared(index', task'.batch)
<1>1. TypeOK BY DEF Control
<1>3. task'.batch \in index'.batches /\ task'.batch \in Batches
  BY ControlKept DEF Control, TaskIsJournaled, InBatch, TypeOK, Index
<1>4. task'.batch \in Free BY <1>1, <1>3, ReclaimTask, DeleteTask
<1>5. ~PowerLoss BY IdleTyped DEF PowerLoss, Stop
<1> QED BY <1>3, <1>4, <1>5, IndexJournal DEF Inherited, Free

\* The parts of Asked are kept, one lemma each.
LEMMA SessionsWereAskedKept ==
    ASSUME Control, Asked, [Next]_vars
    PROVE  SessionsWereAsked'
<1>1. index \in Surviving BY DEF Surviving
<1>2. requested \subseteq requested' BY Registers
<1>3. ASSUME NEW d \in Surviving', NEW b \in d.batches
      PROVE  /\ d.batch[b].kind = "session" <=> d.batch[b].session # None
             /\ d.batch[b].session # None => d.batch[b].session \in requested'
  <2>1. CASE d \in Surviving BY <1>2, <2>1 DEF Asked, SessionsWereAsked
  <2>2. CASE Inherited(d, b)
    BY <1>1, <1>2, <2>2 DEF Inherited, SameBatch, Asked, SessionsWereAsked
  <2>3. CASE JustPrepared(d, b)
    <3>1. FlushAndPrepare(b) => task.arg \in fenced /\ task.arg \in Sessions
      BY DEF FlushAndPrepare, Doing, Asked, DeletionsAreFenced, Control, ArgsFit
    <3>2. FlushAndPrepare(b) => task.arg \in requested /\ task.arg # None
      BY <3>1, JournalAssumption DEF Asked, SessionsWereAsked
    <3> QED BY <1>2, <2>3, <3>2 DEF JustPrepared
  <2> QED BY <2>1, <2>2, <2>3, SurvivorJournals
<1>4. promises'.deleted \subseteq requested'
  <2>1. DeleteDone => task.arg \in requested
    BY DEF DeleteDone, WalkOver, Doing, Asked, DeletionsAreFenced, SessionsWereAsked
  <2> QED BY <1>2, <2>1, Registers DEF Asked, SessionsWereAsked
<1>5. fenced' \subseteq requested' /\ requested' \subseteq fenced' \union ended'
  BY Registers DEF Asked, SessionsWereAsked
<1> QED BY <1>3, <1>4, <1>5 DEF SessionsWereAsked

LEMMA DeletionsAreFencedKept ==
    ASSUME Control, Asked, [Next]_vars
    PROVE  DeletionsAreFenced'
<1>1. TypeOK BY DEF Control
<1>2. fenced \subseteq fenced' \/ (mode' = "down" /\ task' = Idle) BY Registers
<1>3. ASSUME mode' = "up", NEW b \in index'.batches
      PROVE  index'.batch[b].session \in fenced' \union {None}
  <2>1. ~PowerLoss /\ fenced \subseteq fenced' BY <1>2, <1>3 DEF PowerLoss, Stop
  <2>2. CASE Inherited(index', b)
    <3>1. b \in index.batches BY <2>2 DEF Inherited
    <3>2. mode = "up"
      <4>1. ~Recover /\ ~OpenStore BY <1>3, <3>1 DEF Recover, OpenStore
      <4> QED BY <1>3, <4>1, ModeSteps
    <3> QED BY <2>1, <2>2, <3>1, <3>2 DEF Inherited, SameBatch, Asked, DeletionsAreFenced
  <2>3. CASE JustPrepared(index', b)
    <3>1. FlushAndPrepare(b) => task.arg \in fenced
      BY DEF FlushAndPrepare, Doing, Asked, DeletionsAreFenced
    <3> QED BY <2>1, <2>3, <3>1 DEF JustPrepared
  <2> QED BY <2>1, <2>2, <2>3, IndexJournal
<1>4. task'.name = "delete" => task'.arg \in fenced'
  <2>1. CASE Begins BY <1>1, <2>1, BeginTask
  <2> QED BY <1>2, <2>1, TaskNames, IdleTyped DEF Asked, DeletionsAreFenced
<1>5. ASSUME task'.name = "delete", task'.step \in InBatch, index'.batch[task'.batch].kind = "session"
      PROVE  index'.batch[task'.batch].session = task'.arg
  <2>1. CASE task.step \in InBatch /\ task'.batch = task.batch /\ task'.name = task.name /\ task'.arg = task.arg
    <3>1. SameBatch(index, index', task.batch) BY <1>5, <2>1, BatchKept DEF Inherited
    <3> QED BY <1>5, <2>1, <3>1 DEF SameBatch, Asked, DeletionsAreFenced
  <2>2. CASE /\ task'.step = "checkpoint" /\ task'.name = task.name /\ task'.arg = task.arg
             /\ Reclaims \/ FlushAndPrepare(task'.batch)
    BY <1>5, <2>2, TakenBatch DEF JustPrepared
  <2>3. ~Resume(task'.batch) \/ task'.name # task.name BY <1>5 DEF Resume, Doing
  <2>4. CheckpointJournal \/ (SyncStaged /\ Waiting) \/ RemoveMetadata \/ (SyncFinalized /\ Waiting)
          => task.step \in InBatch
    BY DEF CheckpointJournal, RemoveMetadata, At, SyncStaged, SyncFinalized, Running, Waiting,
           InBatch
  <2> QED BY <1>5, <2>1, <2>2, <2>3, <2>4, TaskEntries
<1> QED BY <1>3, <1>4, <1>5 DEF DeletionsAreFenced

LEMMA AppendsAreToNewSessionsKept ==
    ASSUME Control, Asked, [Next]_vars
    PROVE  AppendsAreToNewSessions'
<1>1. TypeOK BY DEF Control
<1> SUFFICES ASSUME task'.name = "append"
             PROVE  /\ SessionOf[task'.arg] \notin ended' \union promises'.deleted
                    /\ \A d \in Surviving' : \A b \in d.batches : d.batch[b].session # SessionOf[task'.arg]
  BY DEF AppendsAreToNewSessions
<1>2. CASE Begins
  <2>1. /\ UNCHANGED <<older, index, ended, fenced>> /\ promises'.deleted = promises.deleted
        /\ task'.arg \in Segments /\ SessionOf[task'.arg] \notin fenced \union ended
    BY <1>1, <1>2, BeginTask DEF log
  <2>2. SessionOf[task'.arg] # None /\ SessionOf[task'.arg] \notin requested
    BY <2>1, JournalAssumption DEF Objects, Asked, SessionsWereAsked
  <2> QED BY <2>1, <2>2 DEF Asked, SessionsWereAsked, Surviving
<1>3. CASE task'.name = task.name /\ task'.arg = task.arg
  <2>1. task.arg \in Segments /\ SessionOf[task.arg] # None
    BY <1>3, JournalAssumption DEF Control, ArgsFit, Objects
  <2>2. task' # Idle BY IdleTyped
  <2>3. ~DeleteDone BY <1>3 DEF DeleteDone, WalkOver, Doing
  <2>4. ended' = ended /\ promises'.deleted = promises.deleted BY <2>2, <2>3, Registers
  <2>5. ASSUME NEW d \in Surviving', NEW b \in d.batches PROVE d.batch[b].session # SessionOf[task.arg]
    <3>1. CASE d \in Surviving BY <1>3, <3>1 DEF Asked, AppendsAreToNewSessions
    <3>2. CASE Inherited(d, b)
      BY <1>3, <3>2 DEF Inherited, SameBatch, Asked, AppendsAreToNewSessions, Surviving
    <3>3. CASE JustPrepared(d, b)
      BY <1>3, <2>1, <3>3 DEF JustPrepared, FlushAndPrepare, Doing
    <3> QED BY <3>1, <3>2, <3>3, SurvivorJournals
  <2> QED BY <1>3, <2>4, <2>5 DEF Asked, AppendsAreToNewSessions
<1> QED BY <1>2, <1>3, TaskNames, IdleTyped
-----------------------------------------------------------------------------
\* How rows and usage rows come and go.
NewRow(o) == (AppendFrame /\ o = task.arg) \/ (o \in Artifacts /\ PublishArtifact(o))

OfCurrent(o) == o \in Current.objects \/ (Current.session # None /\ SessionOf[o] = Current.session)

RowRemoved(o) == /\ RemoveMetadata
                 /\ \/ o \in Current.objects
                    \/ o \in index.artifacts /\ Current.session # None /\ SessionOf[o] = Current.session

UsageDropped(o) == (Forget /\ OfCurrent(o)) \/ (OpenStore /\ o \notin RowsOf(index))

\* What a step but recovery may do to the rows of a version it leaves.
RowChanges(d) ==
    /\ \A o \in RowsOf(d) \ RowsOf(index) : d = index' /\ NewRow(o) /\ o \in d.usage
    /\ \A o \in RowsOf(index) \ RowsOf(d) : RowRemoved(o)
    /\ d.pins \union d.tombstones \subseteq index.pins \union index.tombstones \union RowsOf(index)
    /\ \A x \in d.catalog \ index.catalog : AppendFrame /\ x = SessionOf[task.arg]
    /\ d.usage \subseteq index.usage \union RowsOf(d)
    /\ \A o \in index.usage \ d.usage : UsageDropped(o)

\* A new survivor is an old one, the rebuilt index, or has these changes.
LEMMA SurvivorRows ==
    ASSUME Control, [Next]_vars, NEW d \in Surviving'
    PROVE  \/ d \in Surviving /\ (d # index' \/ PowerLoss)
           \/ d = index' /\ Recover
           \/ RowChanges(d)
<1>1. TypeOK /\ index \in Index BY DEF Control, TypeOK
<1>2. CASE Retouched(index, d)
  <2>1. RowsOf(d) = RowsOf(index) BY <1>2 DEF Retouched, RowsOf
  <2> QED BY <1>2, <2>1 DEF Retouched, RowChanges, RowsOf
<1>3. CASE d = index' /\ AppendFrame
  <2>1. task.arg \in Segments BY <1>3 DEF AppendFrame, WalkOver, Doing, Control, ArgsFit
  <2>2. /\ RowsOf(d) = RowsOf(index) \union {task.arg} /\ d.usage = index.usage \union {task.arg}
        /\ d.pins = index.pins /\ d.tombstones = index.tombstones
        /\ d.catalog = index.catalog \union {SessionOf[task.arg]}
    BY <1>1, <1>3, <2>1, AppendIndex DEF RowsOf
  <2> QED BY <1>3, <2>2 DEF RowChanges, NewRow
<1>4. CASE d = index' /\ \E a \in Artifacts : PublishArtifact(a)
  <2>1. PICK a \in Artifacts : PublishArtifact(a) BY <1>4
  <2>2. /\ RowsOf(d) = RowsOf(index) \union {a} /\ d.usage = index.usage \union {a}
        /\ d.pins = index.pins /\ d.tombstones = index.tombstones /\ d.catalog = index.catalog
    BY <1>1, <1>4, <2>1, PublishIndex DEF RowsOf
  <2> QED BY <1>4, <2>1, <2>2 DEF RowChanges, NewRow
<1>5. CASE d = index' /\ OpenStore
  <2>1. /\ RowsOf(d) = RowsOf(index) /\ d.usage = (index.usage \ Artifacts) \union index.artifacts
        /\ d.pins = index.pins /\ d.tombstones = index.tombstones /\ d.catalog = index.catalog
    BY <1>1, <1>5, OpenIndex DEF RowsOf
  <2>2. \A o \in index.usage \ d.usage : o \notin RowsOf(index)
    BY <1>1, <2>1, JournalAssumption DEF RowsOf, Index
  <2> QED BY <1>5, <2>1, <2>2 DEF RowChanges, UsageDropped, RowsOf
<1>6. CASE d = index' /\ RemoveMetadata
  <2> DEFINE gone == Current.objects
             dead == IF Current.session = None THEN {} ELSE Of(Current.session)
  <2>1. task.batch \in Batches /\ d = Stripped(index, task.batch)
    BY <1>6, RemoveTask DEF Control
  <2>2. /\ d.open = index.open \ gone /\ d.sealed = index.sealed \ gone
        /\ d.artifacts = index.artifacts \ (gone \union dead)
        /\ d.pins \subseteq index.pins /\ d.usage = index.usage
        /\ d.tombstones \subseteq index.tombstones \union index.open \union index.sealed
        /\ d.catalog \subseteq index.catalog
    BY <1>1, <2>1, StrippedIndex DEF Current
  <2>3. \A o \in dead : Current.session # None /\ SessionOf[o] = Current.session BY DEF Of
  <2> HIDE DEF gone, dead
  <2>4. /\ RowsOf(d) \subseteq RowsOf(index)
        /\ \A o \in RowsOf(index) \ RowsOf(d) : o \in gone \/ (o \in index.artifacts /\ o \in dead)
    BY <2>2 DEF RowsOf
  <2>5. \A o \in RowsOf(index) \ RowsOf(d) : RowRemoved(o)
    BY <1>6, <2>3, <2>4 DEF RowRemoved, gone
  <2> QED BY <2>2, <2>4, <2>5 DEF RowChanges, RowsOf
<1>7. CASE d = index' /\ Forget
  <2> DEFINE dropped == Current.objects \union
                          (IF Current.session = None THEN {} ELSE Of(Current.session))
  <2>1. task.batch \in Batches BY <1>1, <1>7, ForgetTask, TaskBatch DEF InBatch
  <2>2. /\ RowsOf(d) = RowsOf(index) /\ d.usage = index.usage \ dropped
        /\ d.pins = index.pins /\ d.tombstones = index.tombstones /\ d.catalog = index.catalog
    BY <1>1, <1>7, <2>1, ForgetSteps, ForgottenIndex DEF RowsOf, Current
  <2>3. \A o \in dropped : OfCurrent(o) BY DEF OfCurrent, Of
  <2> HIDE DEF dropped
  <2> QED BY <1>7, <2>2, <2>3 DEF RowChanges, UsageDropped
<1>8. CASE d = index' /\ Reclaims
  <2>1. PICK b \in Free, S \in SUBSET Objects : index' = Prepared(index, b, "eviction", None, S)
    BY <1>1, <1>8, ReclaimTask
  <2>2. /\ RowsOf(d) = RowsOf(index) /\ d.usage = index.usage
        /\ d.pins = index.pins /\ d.tombstones = index.tombstones /\ d.catalog = index.catalog
    BY <1>1, <1>8, <2>1, PreparedIndex DEF RowsOf, Free
  <2> QED BY <2>2 DEF RowChanges
<1>9. CASE d = index' /\ \E b \in Batches : FlushAndPrepare(b)
  <2>1. PICK b \in Batches : FlushAndPrepare(b) BY <1>9
  <2>2. task.arg \in Sessions BY <1>1, <2>1, DeleteTask DEF Control, ArgsFit
  <2>3. PICK f \in Index, S \in SUBSET Objects :
            Retouched(index, f) /\ index' = Prepared(f, b, "session", task.arg, S)
    BY <1>1, <2>1, <2>2, DeletePrepares
  <2>4. /\ RowsOf(d) = RowsOf(f) /\ d.usage = f.usage
        /\ d.pins = f.pins /\ d.tombstones = f.tombstones /\ d.catalog = f.catalog
    BY <1>9, <2>2, <2>3, PreparedIndex DEF RowsOf
  <2>5. RowsOf(f) = RowsOf(index) BY <2>3 DEF Retouched, RowsOf
  <2> QED BY <2>3, <2>4, <2>5 DEF RowChanges, Retouched, RowsOf
<1> QED BY <1>2, <1>3, <1>4, <1>5, <1>6, <1>7, <1>8, <1>9, NewSurvivors DEF Grows

\* The same of the index.
LEMMA IndexRows ==
    ASSUME Control, [Next]_vars, ~PowerLoss, ~Recover
    PROVE  RowChanges(index')
<1>1. index' \in Surviving' BY DEF Surviving
<1> QED BY <1>1, SurvivorRows

\* A file that is gone comes back only as a new row.
LEMMA GoneOrBorn ==
    ASSUME Control, BornFirst, [Next]_vars, NEW o \in Objects, Gone(o)
    PROVE  Gone(o)' \/ NewRow(o)
<1>1. CASE o \in born BY <1>1, GoneStays
<1>2. CASE o \notin born'
  <2>1. place'[o] = "absent" /\ synced'[o] = "absent" BY <1>2, UnbornStay
  <2> QED BY <2>1 DEF Gone
<1>3. CASE o \in born' \ born
  <2>1. AppendFrame => born' = born \union {task.arg} BY DEF AppendFrame
  <2>2. \A a \in Artifacts : PublishArtifact(a) => born' = born \union {a} BY DEF PublishArtifact
  <2> QED BY <1>3, <2>1, <2>2, Births DEF NewRow
<1> QED BY <1>1, <1>2, <1>3

\* A new row is made in an open store, for a session that is not fenced.
LEMMA NewRowLives ==
    ASSUME Control, [Next]_vars, NEW o, NewRow(o)
    PROVE  /\ mode = "up" /\ mode' = "up" /\ ~PowerLoss /\ ~Recover /\ o \in RowsOf(index')
           /\ o \in Objects
           /\ ~RemoveMetadata /\ ~Forget /\ ~OpenStore /\ UNCHANGED <<fenced, ended>>
           /\ task' = Idle
           /\ \/ AppendFrame /\ o = task.arg /\ task.name = "append" /\ o \in Segments
              \/ o \in Artifacts /\ PublishArtifact(o) /\ SessionOf[o] \notin fenced
<1>1. TypeOK BY DEF Control
<1>2. CASE AppendFrame /\ o = task.arg
  <2>1. /\ task.name = "append" /\ task.step = "walk" /\ mode = "up" /\ mode' = "up"
        /\ task.arg \in Segments
        /\ task' = Idle
    BY <1>2 DEF AppendFrame, WalkOver, Doing, Control, ArgsFit
  <2>2. o \in RowsOf(index') BY <1>1, <1>2, <2>1, AppendIndex DEF RowsOf
  <2> QED BY <1>2, <2>1, <2>2
        DEF AppendFrame, PowerLoss, Stop, Recover, RemoveMetadata, Forget, OpenStore, At, Doing,
               Objects
<1>3. CASE o \in Artifacts /\ PublishArtifact(o)
  <2>1. mode = "up" /\ mode' = "up" /\ task = Idle /\ SessionOf[o] \notin fenced /\ task' = Idle
    BY <1>3 DEF PublishArtifact
  <2>2. o \in RowsOf(index') BY <1>1, <1>3, PublishIndex DEF RowsOf
  <2> QED BY <1>3, <2>1, <2>2, IdleTyped
        DEF PublishArtifact, PowerLoss, Stop, Recover, RemoveMetadata, Forget, OpenStore, At,
               Doing, Objects
<1> QED BY <1>2, <1>3 DEF NewRow
-----------------------------------------------------------------------------
\* An index without a row, link, tombstone or catalog entry of a session.
Bare(d, x) == /\ Of(x) \intersect (RowsOf(d) \union d.pins \union d.tombstones) = {}
              /\ x \notin d.catalog

\* Every file in its live directory is in a row, or will not be after power loss.
FilesAreIndexed ==
    /\ mode # "down" => \A s \in Segments : place[s] = "live" => s \in RowsOf(index)
    /\ mode = "up" => \A o \in Objects : Gone(o) \/ o \in RowsOf(index)

\* In an open store the batch of a session covers its artifacts, and once it is
\* removed nothing of the session is indexed or in a live directory.
SessionBatchesCover == mode = "up" => \A b \in index.batches : index.batch[b].session # None =>
    /\ index.batch[b].state = "prepared" =>
         index.artifacts \intersect Of(index.batch[b].session) \subseteq index.batch[b].objects
    /\ index.batch[b].state = "removed" =>
         /\ Bare(index, index.batch[b].session)
         /\ \A o \in Of(index.batch[b].session) : Gone(o)

\* Before that, other batches may claim its segments, but a removed session batch
\* leaves no segment that recovery could index again.
DeadSegmentsAreClaimed == \A d \in Surviving : \A b \in d.batches :
    d.batch[b].state = "removed" /\ d.batch[b].session # None =>
        \A s \in Segments : SessionOf[s] = d.batch[b].session => Gone(s) \/ s \in Claimed(d)

\* Every row is counted as usage, or as pending in a prepared batch.
UsageCovers ==
    /\ mode # "down" => index.open \union index.sealed \subseteq index.usage \union Claimed(index)
    /\ mode = "up" => index.artifacts \subseteq index.usage \union Claimed(index)

\* Together: what the budget needs to count every file.
Counting == FilesAreIndexed /\ SessionBatchesCover /\ DeadSegmentsAreClaimed /\ UsageCovers

\* The invariant but for the deleted sessions.
Whole == Control /\ RowsAreBacked /\ BornFirst /\ Trash /\ Removal /\ Asked /\ Counting

LEMMA WholeParts ==
    ASSUME Whole
    PROVE  /\ Control /\ RowsAreBacked /\ BornFirst /\ Trash /\ Removal /\ Asked
           /\ TypeOK /\ index \in Index /\ index \in Surviving
           /\ FilesAreIndexed /\ SessionBatchesCover /\ DeadSegmentsAreClaimed /\ UsageCovers
  BY DEF Whole, Counting, Control, TypeOK, Surviving

\* An open store was open, unless it has just been opened.
LEMMA StaysUp ==
    ASSUME Control, [Next]_vars, mode' = "up", ~OpenStore
    PROVE  mode = "up" /\ ~PowerLoss /\ ~Recover
  BY ModeSteps DEF Recover, PowerLoss, Stop

\* A store that is not closed was not closed, unless recovery has just run.
LEMMA StaysOpen ==
    ASSUME Control, [Next]_vars, mode' # "down", ~Recover
    PROVE  mode # "down" /\ ~PowerLoss
<1>1. OpenStore => mode # "down"
  BY IdleTyped DEF OpenStore, Doing, Control, PhasesAreOrderly
<1> QED BY <1>1, ModeSteps DEF PowerLoss, Stop

\* The store opens when the journal is empty, and opening changes no row.
LEMMA OpeningIsQuiet ==
    ASSUME Control, [Next]_vars, OpenStore
    PROVE  /\ mode = "resuming" /\ mode' = "up" /\ index.batches = {} /\ index'.batches = {}
           /\ Claimed(index) = {} /\ ~PowerLoss /\ ~Recover /\ task' = Idle
           /\ RowsOf(index') = RowsOf(index) /\ index'.artifacts = index.artifacts
           /\ \A o \in Objects : \/ o \in Artifacts /\ o \notin index.artifacts /\ Gone(o)'
                                 \/ o \in Artifacts /\ o \in index.artifacts
                                 \/ o \in Segments /\ (Gone(o) <=> Gone(o)')
<1>1. TypeOK /\ index \in Index /\ PhasesAreOrderly BY DEF Control, TypeOK
<1>2. task.name = "resume" /\ mode' = "up" /\ index.batches = {} /\ task' = Idle
  BY DEF OpenStore, Doing
<1>3. mode = "resuming" BY <1>1, <1>2, IdleTyped DEF PhasesAreOrderly, TypeOK
<1>4. Claimed(index) = {} BY <1>2 DEF Claimed
<1>5. RowsOf(index') = RowsOf(index) /\ index'.artifacts = index.artifacts /\ index'.batches = {}
  BY <1>1, <1>2, OpenIndex DEF RowsOf
<1>6. ~PowerLoss /\ ~Recover BY <1>2, <1>3 DEF PowerLoss, Stop, Recover
<1>7. ASSUME NEW o \in Objects
      PROVE  \/ o \in Artifacts /\ o \notin index.artifacts /\ Gone(o)'
             \/ o \in Artifacts /\ o \in index.artifacts
             \/ o \in Segments /\ (Gone(o) <=> Gone(o)')
  <2>1. /\ place'[o] = IF o \in Artifacts \ index.artifacts /\ place[o] = "live" THEN "absent" ELSE place[o]
        /\ synced'[o] = IF o \in Artifacts /\ synced[o] = "live" THEN place'[o] ELSE synced[o]
    BY DEF OpenStore
  <2>2. o \in Artifacts \/ (o \in Segments /\ o \notin Artifacts) BY JournalAssumption DEF Objects
  <2> QED BY <2>1, <2>2 DEF Gone
<1> QED BY <1>2, <1>3, <1>4, <1>5, <1>6, <1>7

\* The parts of Counting are kept, with what new rows and removed sessions need.
LEMMA FilesAreIndexedKept ==
    ASSUME Whole, [Next]_vars
    PROVE  FilesAreIndexed'
<1>1. /\ Control /\ BornFirst /\ Removal /\ TypeOK /\ index \in Index /\ FilesAreIndexed
      /\ SessionBatchesCover
  BY WholeParts
<1>2. ASSUME NEW o \in RowsOf(index), RowChanges(index'), RemoveMetadata => mode = "up" \/ o \in Segments
      PROVE  o \in RowsOf(index') \/ Gone(o)
  <2>1. CASE RowRemoved(o)
    <3>1. task.step = "metadata" /\ Current = index.batch[task.batch] /\ task.batch \in index.batches
      BY <1>1, <2>1, TaskBatch DEF RowRemoved, RemoveMetadata, At, Current, InBatch
    <3>2. index.batch[task.batch].state = "prepared"
      BY <1>1, <3>1 DEF Control, TaskIsJournaled, InBatch, BeforeRows
    <3>3. o \in Current.objects => Gone(o) BY <1>1, <3>1 DEF Removal, StagingIsDone
    <3>4. o \in index.artifacts => o \notin Segments /\ o \in Objects
      BY <1>1, JournalAssumption DEF Index, Objects
    <3>5. o \in index.artifacts /\ Current.session # None /\ SessionOf[o] = Current.session /\ mode = "up"
            => o \in Current.objects
      BY <1>1, <3>1, <3>2, <3>4 DEF SessionBatchesCover, Of
    <3> QED BY <1>2, <2>1, <3>3, <3>4, <3>5 DEF RowRemoved
  <2> QED BY <1>2, <2>1 DEF RowChanges
<1>3. ASSUME mode' # "down", NEW s \in Segments, place'[s] = "live" PROVE s \in RowsOf(index')
  <2>1. s \in Objects BY DEF Objects
  <2>2. CASE Recover
    <3>1. place' = place BY <2>2 DEF Recover, files
    <3> QED BY <1>1, <1>3, <2>2, <3>1, RecoverIndex DEF RowsOf
  <2>3. CASE ~Recover
    <3>1. mode # "down" /\ ~PowerLoss /\ RowChanges(index')
      BY <1>1, <1>3, <2>3, StaysOpen, IndexRows
    <3>2. CASE NewRow(s) BY <1>1, <3>2, NewRowLives
    <3>3. CASE ~NewRow(s) /\ s \in born
      <4>1. place[s] = "live" BY <1>1, <1>3, <2>1, <3>1, <3>3, LiveBefore
      <4>2. s \in RowsOf(index) BY <1>1, <3>1, <4>1 DEF FilesAreIndexed
      <4> QED BY <1>2, <3>1, <4>1, <4>2 DEF Gone
    <3>4. CASE ~NewRow(s) /\ s \notin born
      <4>1. Gone(s) BY <1>1, <2>1, <3>4 DEF BornFirst, Gone
      <4> QED BY <1>1, <1>3, <2>1, <3>4, <4>1, GoneOrBorn DEF Gone
    <3> QED BY <3>2, <3>3, <3>4
  <2> QED BY <2>2, <2>3
<1>4. ASSUME mode' = "up", NEW o \in Objects, ~Gone(o)' PROVE o \in RowsOf(index')
  <2>1. CASE OpenStore
    <3>1. CASE o \in index.artifacts BY <1>1, <2>1, <3>1, OpeningIsQuiet DEF RowsOf
    <3>2. CASE o \in Segments /\ ~Gone(o)
      <4>1. o \notin Claimed(index) BY <1>1, <2>1, OpeningIsQuiet
      <4>2. place[o] = "live" BY <1>1, <3>2, <4>1 DEF Gone, Removal, UnsyncedMovesAreClaimed
      <4> QED BY <1>1, <2>1, <3>2, <4>2, OpeningIsQuiet DEF FilesAreIndexed
    <3> QED BY <1>1, <1>4, <2>1, <3>1, <3>2, OpeningIsQuiet
  <2>2. CASE ~OpenStore
    <3>1. mode = "up" /\ RowChanges(index') BY <1>1, <1>4, <2>2, StaysUp, IndexRows
    <3>2. CASE NewRow(o) BY <1>1, <3>2, NewRowLives
    <3>3. CASE ~NewRow(o)
      <4>1. ~Gone(o) BY <1>1, <1>4, <3>3, GoneOrBorn
      <4>2. o \in RowsOf(index) BY <1>1, <3>1, <4>1 DEF FilesAreIndexed
      <4> QED BY <1>2, <3>1, <4>1, <4>2
    <3> QED BY <3>2, <3>3
  <2> QED BY <2>1, <2>2
<1> QED BY <1>3, <1>4 DEF FilesAreIndexed, Gone, RowsOf

\* A new row is of a session without a batch.
LEMMA NewRowSession ==
    ASSUME Whole, NEW o, NewRow(o), [Next]_vars
    PROVE  /\ \A b \in index.batches : index.batch[b].session # SessionOf[o]
           /\ SessionOf[o] \in Sessions
           /\ o \in Segments => \A d \in Surviving : \A b \in d.batches : d.batch[b].session # SessionOf[o]
<1>1. Control /\ Asked /\ TypeOK /\ index \in Index /\ index \in Surviving BY WholeParts
<1>2. mode = "up" /\ o \in Objects BY <1>1, NewRowLives
<1>3. SessionOf[o] \in Sessions /\ SessionOf[o] # None BY <1>2, JournalAssumption
<1>4. CASE AppendFrame /\ o = task.arg /\ task.name = "append"
  BY <1>1, <1>3, <1>4 DEF Asked, AppendsAreToNewSessions
<1>5. CASE o \in Artifacts /\ SessionOf[o] \notin fenced
  <2>1. o \notin Segments BY <1>5, JournalAssumption
  <2> QED BY <1>1, <1>2, <1>3, <1>5, <2>1 DEF Asked, DeletionsAreFenced
<1> QED BY <1>1, <1>4, <1>5, NewRowLives

\* A bare session stays bare unless it gets a new row.
LEMMA BareKept ==
    ASSUME Whole, [Next]_vars, NEW x, Bare(index, x), NEW d, RowChanges(d), \A o \in Of(x) : ~NewRow(o)
    PROVE  Bare(d, x)
<1>1. Control /\ TypeOK BY WholeParts
<1>2. Of(x) \intersect RowsOf(d) = {} BY DEF RowChanges, Bare
<1>3. Of(x) \intersect (d.pins \union d.tombstones) = {} BY DEF RowChanges, Bare
<1>4. ~(AppendFrame /\ x = SessionOf[task.arg])
  <2>1. AppendFrame => task.arg \in Segments
    BY <1>1 DEF AppendFrame, WalkOver, Doing, Control, ArgsFit
  <2>2. AppendFrame /\ x = SessionOf[task.arg] => task.arg \in Of(x) BY <2>1 DEF Of, Objects
  <2> QED BY <2>2 DEF NewRow
<1> QED BY <1>2, <1>3, <1>4 DEF RowChanges, Bare

\* Removing the metadata of a session batch leaves its session bare.
LEMMA SessionRemoved ==
    ASSUME Whole, RemoveMetadata, Current.session # None
    PROVE  /\ Bare(index', Current.session)
           /\ mode = "up" => \A o \in Of(Current.session) : Gone(o)
           /\ mode # "down"
           /\ \A s \in Segments : SessionOf[s] = Current.session => Gone(s) \/ s \notin RowsOf(index)
<1> DEFINE x == Current.session
<1>1. /\ Control /\ Removal /\ TypeOK /\ index \in Index /\ FilesAreIndexed /\ SessionBatchesCover
  BY WholeParts
<1>2. /\ task.step = "metadata" /\ task.batch \in Batches /\ task.batch \in index.batches
      /\ Current = index.batch[task.batch] /\ index' = Stripped(index, task.batch)
      /\ index.batch[task.batch].state = "prepared" /\ ~Blocked(index, Current)
  BY <1>1, RemoveTask, TaskBatch
     DEF Control, TaskIsJournaled, InBatch, BeforeRows, Current, RemoveMetadata
<1>3. \A s \in (index.open \union index.sealed) : SessionOf[s] = x => s \in Current.objects
  BY <1>2 DEF Blocked
<1>4. Bare(index', x)
  <2>1. /\ index'.open = index.open \ Current.objects
        /\ index'.sealed = index.sealed \ Current.objects
        /\ index'.artifacts = index.artifacts \ (Current.objects \union Of(x))
        /\ index'.pins = index.pins \ (Current.objects \union Of(x))
        /\ Of(x) \intersect index'.tombstones = {}
        /\ index'.catalog = index.catalog \ {x}
    BY <1>1, <1>2, StrippedIndex
  <2>2. Of(x) \intersect RowsOf(index') = {} BY <1>3, <2>1 DEF RowsOf, Of
  <2> QED BY <2>1, <2>2 DEF Bare
<1>5. \A o \in Current.objects : Gone(o) BY <1>1, <1>2 DEF Removal, StagingIsDone
<1>6. mode = "up" => \A o \in Of(x) : Gone(o)
  <2>1. ASSUME mode = "up", NEW o \in Of(x), ~Gone(o) PROVE FALSE
    <3>1. o \in RowsOf(index) /\ o \notin Current.objects /\ SessionOf[o] = x
      BY <1>1, <1>5, <2>1 DEF FilesAreIndexed, Of
    <3>2. o \in index.artifacts BY <1>3, <3>1 DEF RowsOf
    <3> QED BY <1>1, <1>2, <2>1, <3>1, <3>2 DEF SessionBatchesCover
  <2> QED BY <2>1
<1>7. mode # "down" BY <1>1, <1>2, IdleTyped DEF Control, PhasesAreOrderly
<1>8. ASSUME NEW s \in Segments, SessionOf[s] = x, s \in RowsOf(index) PROVE Gone(s)
  <2>1. s \in index.open \union index.sealed BY <1>1, <1>8, JournalAssumption DEF RowsOf, Index
  <2> QED BY <1>3, <1>5, <1>8, <2>1
<1> QED BY <1>4, <1>6, <1>7, <1>8

\* The cover stays whole, also when an artifact is published or evicted.
LEMMA SessionBatchesCoverKept ==
    ASSUME Whole, [Next]_vars
    PROVE  SessionBatchesCover'
<1>1. /\ Control /\ BornFirst /\ Asked /\ TypeOK /\ index \in Index /\ SessionBatchesCover
  BY WholeParts
<1> SUFFICES ASSUME mode' = "up", NEW b \in index'.batches, index'.batch[b].session # None
             PROVE  /\ index'.batch[b].state = "prepared" =>
                         index'.artifacts \intersect Of(index'.batch[b].session) \subseteq index'.batch[b].objects
                    /\ index'.batch[b].state = "removed" =>
                         /\ Bare(index', index'.batch[b].session)
                         /\ \A o \in Of(index'.batch[b].session) : Gone(o)'
  BY DEF SessionBatchesCover, Bare, RowsOf, Of, Gone
<1> DEFINE x == index'.batch[b].session
<1>2. ~OpenStore BY <1>1, OpeningIsQuiet
<1>3. mode = "up" /\ ~PowerLoss /\ ~Recover /\ RowChanges(index')
  BY <1>1, <1>2, StaysUp, IndexRows
<1>4. index'.artifacts \subseteq Artifacts /\ \A o \in index'.artifacts : o \in RowsOf(index')
  <2>1. index' \in Index BY <1>1, ControlKept DEF Control, TypeOK
  <2> QED BY <2>1 DEF Index, RowsOf
<1>5. ASSUME NEW o \in index'.artifacts PROVE o \in index.artifacts \/ NewRow(o)
  <2>1. o \in RowsOf(index) \/ NewRow(o) BY <1>3, <1>4, <1>5 DEF RowChanges
  <2>2. o \in RowsOf(index) => o \in index.artifacts
    BY <1>1, <1>4, <1>5, JournalAssumption DEF RowsOf, Index
  <2> QED BY <2>1, <2>2
<1>6. CASE Inherited(index', b)
  <2>1. /\ b \in index.batches /\ x = index.batch[b].session
        /\ index'.batch[b].objects = index.batch[b].objects
    BY <1>6 DEF Inherited, SameBatch
  <2>2. \A o \in Of(x) : ~NewRow(o) BY <2>1, NewRowSession DEF Of
  <2>3. CASE index'.batch[b].state = "prepared"
    <3>1. index.batch[b].state = "prepared" BY <1>6, <2>3 DEF Inherited
    <3>2. index.artifacts \intersect Of(x) \subseteq index.batch[b].objects
      BY <1>1, <1>3, <2>1, <3>1 DEF SessionBatchesCover
    <3>3. index'.artifacts \intersect Of(x) \subseteq index'.batch[b].objects
      BY <1>5, <2>1, <2>2, <3>2
    <3> QED BY <2>3, <3>3
  <2>4. CASE index'.batch[b].state = "removed" /\ index.batch[b].state = "removed"
    <3>1. Bare(index, x) /\ \A o \in Of(x) : Gone(o)
      BY <1>1, <1>3, <2>1, <2>4 DEF SessionBatchesCover
    <3>2. Bare(index', x) BY <1>3, <2>2, <3>1, BareKept
    <3>3. \A o \in Of(x) : Gone(o)' BY <1>1, <2>2, <3>1, GoneOrBorn DEF Of
    <3> QED BY <2>4, <3>2, <3>3
  <2>5. CASE RemoveMetadata /\ b = task.batch /\ index'.batch[b].state = "removed"
    <3>1. Current.session = x BY <2>1, <2>5 DEF Current
    <3>2. Bare(index', x) /\ \A o \in Of(x) : Gone(o) BY <1>3, <2>5, <3>1, SessionRemoved
    <3>3. \A o \in Of(x) : Gone(o)' BY <1>1, <2>2, <3>2, GoneOrBorn DEF Of
    <3> QED BY <2>5, <3>2, <3>3
  <2>6. index.batch[b].state \in {"prepared", "removed"}
    BY <1>1, <2>1 DEF Index, Batch
  <2> QED BY <1>6, <2>3, <2>4, <2>5, <2>6 DEF Inherited
<1>7. CASE JustPrepared(index', b)
  <2>1. \A o : ~NewRow(o)
    <3>1. task'.step = "checkpoint" BY <1>7 DEF JustPrepared
    <3>2. task' # Idle BY <3>1, IdleTyped
    <3> QED BY <1>1, <3>2, NewRowLives
  <2>2. index.artifacts \intersect Of(x) \subseteq index'.batch[b].objects
    BY <1>7 DEF JustPrepared
  <2>3. index'.batch[b].state = "prepared" BY <1>7 DEF JustPrepared
  <2> QED BY <1>5, <2>1, <2>2, <2>3
<1> QED BY <1>1, <1>3, <1>6, <1>7, IndexJournal

\* No version that can survive brings back a segment of a removed session.
LEMMA DeadSegmentsAreClaimedKept ==
    ASSUME Whole, [Next]_vars
    PROVE  DeadSegmentsAreClaimed'
<1>1. /\ Control /\ BornFirst /\ Removal /\ TypeOK /\ index \in Index /\ index \in Surviving
      /\ FilesAreIndexed /\ DeadSegmentsAreClaimed
  BY WholeParts
<1> SUFFICES ASSUME NEW d \in Surviving', NEW b \in d.batches, d.batch[b].state = "removed",
                    d.batch[b].session # None, NEW s \in Segments, SessionOf[s] = d.batch[b].session
             PROVE  Gone(s)' \/ s \in Claimed(d)
  BY DEF DeadSegmentsAreClaimed, Gone, Claimed
<1>2. s \in Objects BY DEF Objects
<1>3. CASE d \in Surviving
  <2>1. ~NewRow(s) BY <1>2, <1>3, NewRowSession
  <2>2. Gone(s) \/ s \in Claimed(d) BY <1>1, <1>3 DEF DeadSegmentsAreClaimed
  <2> QED BY <1>1, <1>2, <2>1, <2>2, GoneOrBorn
<1>4. CASE Inherited(d, b) /\ ~(d \in Surviving /\ (d # index' \/ PowerLoss))
  <2>1. b \in index.batches /\ SessionOf[s] = index.batch[b].session
    BY <1>4 DEF Inherited, SameBatch
  <2>2. ~NewRow(s) BY <1>1, <2>1, NewRowSession
  <2>3. Gone(s) => Gone(s)' BY <1>1, <1>2, <2>2, GoneOrBorn
  <2>4. s \in Claimed(index) => s \in Claimed(d) \/ Gone(s)
    <3>1. RemoveMetadata /\ s \in index.batch[task.batch].objects => Gone(s)
      BY <1>1 DEF RemoveMetadata, At, Removal, StagingIsDone
    <3> QED BY <1>1, <1>4, <3>1, ClaimedSteps
  <2>5. CASE index.batch[b].state = "removed"
    BY <1>1, <1>4, <2>1, <2>3, <2>4, <2>5 DEF DeadSegmentsAreClaimed, Inherited, SameBatch
  <2>6. CASE RemoveMetadata /\ b = task.batch
    <3>1. Current.session = SessionOf[s] /\ Current.session # None
      BY <1>4, <2>1, <2>6 DEF Current, Inherited, SameBatch
    <3>2. mode # "down" /\ (Gone(s) \/ s \notin RowsOf(index)) BY <2>6, <3>1, SessionRemoved
    <3>3. place[s] = "live" => s \in RowsOf(index) BY <1>1, <3>2 DEF FilesAreIndexed
    <3>4. Gone(s) \/ s \in Claimed(index)
      BY <1>1, <1>2, <3>2, <3>3 DEF Gone, Removal, UnsyncedMovesAreClaimed
    <3> QED BY <2>3, <2>4, <3>4
  <2> QED BY <1>4, <2>5, <2>6 DEF Inherited
<1> QED BY <1>1, <1>3, <1>4, SurvivorJournals DEF JustPrepared

\* Rows and usage rows come and go together.
LEMMA UsageCoversKept ==
    ASSUME Whole, [Next]_vars
    PROVE  UsageCovers'
<1>1. /\ Control /\ BornFirst /\ Removal /\ TypeOK /\ index \in Index /\ index \in Surviving
      /\ RowsAreBacked
      /\ SessionBatchesCover /\ DeadSegmentsAreClaimed /\ UsageCovers
  BY WholeParts
<1>2. index' \in Index /\ index' \in Surviving'
  BY <1>1, ControlKept DEF Control, TypeOK, Surviving
<1>3. ASSUME NEW o \in RowsOf(index), RowChanges(index'), ~PowerLoss, o \in RowsOf(index'),
             o \in index.usage \union Claimed(index),
             mode = "up" \/ (mode # "down" /\ o \in Segments)
      PROVE  o \in index'.usage \union Claimed(index')
  <2>1. o \in Objects BY <1>1 DEF RowsOf, Index, Objects
  <2>2. o \in Claimed(index) => o \in Claimed(index')
    <3>1. ~(RemoveMetadata /\ o \in index.batch[task.batch].objects)
      <4>1. RemoveMetadata => task.batch \in Batches /\ index' = Stripped(index, task.batch)
        BY <1>1, RemoveTask DEF Control
      <4> QED BY <1>1, <1>3, <4>1, StrippedIndex DEF RowsOf
    <3> QED BY <1>1, <1>2, <1>3, <3>1, ClaimedSteps
  <2>3. Gone(o) => o \in Claimed(index)
    BY <1>1, <1>3, JournalAssumption DEF Gone, RowsAreBacked, RowsOf, Index
  <2>4. CASE Forget /\ OfCurrent(o)
    <3>1. task.step = "forget" /\ task.batch \in index.batches /\ Current = index.batch[task.batch]
      BY <1>1, <2>4, ForgetTask, TaskBatch DEF InBatch, Current
    <3>2. Current.state = "removed"
      BY <1>1, <3>1 DEF Control, TaskIsJournaled, InBatch, BeforeRows
    <3>3. o \in Current.objects => Gone(o) BY <1>1, <3>1, <3>2 DEF Removal, RemovedFilesAreGone
    <3>4. Current.session # None /\ SessionOf[o] = Current.session
            => mode # "up" /\ (Gone(o) \/ o \in Claimed(index))
      <4>1. SUFFICES ASSUME Current.session # None, SessionOf[o] = Current.session
                     PROVE  mode # "up" /\ (Gone(o) \/ o \in Claimed(index))
        OBVIOUS
      <4>2. mode # "up"
        BY <1>1, <1>3, <2>1, <3>1, <3>2, <4>1 DEF SessionBatchesCover, Bare, Of
      <4> QED BY <1>1, <1>3, <3>1, <3>2, <4>1, <4>2 DEF DeadSegmentsAreClaimed
    <3> QED BY <2>2, <2>3, <2>4, <3>3, <3>4 DEF OfCurrent
  <2>5. CASE ~(Forget /\ OfCurrent(o)) /\ o \in index.usage
    BY <1>3, <2>5 DEF RowChanges, UsageDropped
  <2> QED BY <1>3, <2>2, <2>4, <2>5
<1>4. ASSUME mode' # "down", NEW s \in index'.open \union index'.sealed
      PROVE  s \in index'.usage \union Claimed(index')
  <2>1. s \in Segments /\ s \in RowsOf(index') BY <1>2, <1>4 DEF Index, RowsOf
  <2>2. CASE Recover BY <1>1, <1>4, <2>2, RecoverIndex
  <2>3. CASE ~Recover
    <3>1. mode # "down" /\ ~PowerLoss /\ RowChanges(index')
      BY <1>1, <1>4, <2>3, StaysOpen, IndexRows
    <3>2. CASE s \notin RowsOf(index) BY <2>1, <3>1, <3>2 DEF RowChanges
    <3>3. CASE s \in RowsOf(index)
      <4>1. s \in index.usage \union Claimed(index)
        BY <1>1, <2>1, <3>1, <3>3, JournalAssumption DEF UsageCovers, RowsOf, Index
      <4> QED BY <1>3, <2>1, <3>1, <3>3, <4>1
    <3> QED BY <3>2, <3>3
  <2> QED BY <2>2, <2>3
<1>5. ASSUME mode' = "up", NEW a \in index'.artifacts PROVE a \in index'.usage \union Claimed(index')
  <2>1. a \in Artifacts /\ a \in RowsOf(index') BY <1>2, <1>5 DEF Index, RowsOf
  <2>2. CASE OpenStore BY <1>1, <1>5, <2>2, OpenIndex
  <2>3. CASE ~OpenStore
    <3>1. mode = "up" /\ ~PowerLoss /\ RowChanges(index') BY <1>1, <1>5, <2>3, StaysUp, IndexRows
    <3>2. CASE a \notin RowsOf(index) BY <2>1, <3>1, <3>2 DEF RowChanges
    <3>3. CASE a \in RowsOf(index)
      <4>1. a \in index.usage \union Claimed(index)
        BY <1>1, <2>1, <3>1, <3>3, JournalAssumption DEF UsageCovers, RowsOf, Index
      <4> QED BY <1>3, <2>1, <3>1, <3>3, <4>1
    <3> QED BY <3>2, <3>3
  <2> QED BY <2>2, <2>3
<1> QED BY <1>4, <1>5 DEF UsageCovers, Claimed

\* A file is in a row, hence in usage or pending; one in .trash is in a batch.
LEMMA CountedWhole ==
    ASSUME Whole
    PROVE  FilesAreCounted
<1>1. /\ Control /\ Trash /\ TypeOK /\ index \in Index /\ FilesAreIndexed /\ UsageCovers
  BY WholeParts
<1> SUFFICES ASSUME mode = "up", EntriesWereForced, NEW o \in Objects, place[o] # "absent"
             PROVE  o \in index.usage \/ Held(index, o)
  BY DEF FilesAreCounted
<1>2. CASE place[o] = "live"
  <2>1. o \in RowsOf(index) BY <1>1, <1>2 DEF FilesAreIndexed, Gone
  <2>2. o \in index.usage \/ o \in Claimed(index) BY <1>1, <2>1 DEF RowsOf, UsageCovers
  <2> QED BY <2>2 DEF Claimed, Held
<1>3. CASE place[o] \in Batches BY <1>1, <1>3 DEF Trash, StagedFilesAreJournaled, Held
<1> QED BY <1>1, <1>2, <1>3 DEF TypeOK
-----------------------------------------------------------------------------
\* A bare session without usage rows.
Clean(d, x) == Bare(d, x) /\ Of(x) \intersect d.usage = {}

\* A batch that will remove the session if it has not yet.
Pending(d, x) == \E b \in d.batches : /\ d.batch[b].session = x
                                      /\ d.batch[b].state = "removed" => Bare(d, x)

\* The call is at the batch of its session, not at an eviction after it.
OnSession == task.step \in InBatch /\ index.batch[task.batch].kind = "session"

\* delete_session has forced the entry of its session batch.
Settling(x) == /\ task.name = "delete" /\ task.arg = x /\ task.step # "flush"
               /\ ~(task.step = "checkpoint" /\ OnSession)

\* The session batch is forgotten, by a call that returned or is about to.
Over(x) == x \in promises.deleted \/ (Settling(x) /\ ~OnSession)

\* From the forced entry on, every version that can survive has removed the session
\* or holds a batch that will; from its end on, no file can come back, and the index
\* of an open store is clean.
DeletionsHold ==
    /\ \A x \in Sessions : x \in promises.deleted \/ Settling(x) =>
            \A d \in Surviving : Clean(d, x) \/ Pending(d, x)
    /\ \A x \in Sessions : Over(x) => \A o \in Of(x) : Gone(o)
    /\ mode = "up" => \A x \in Sessions : Over(x) => Clean(index, x)

\* A deletion settles when its entry is forced, and is over when it is forgotten.
LEMMA SettlingSteps ==
    ASSUME Control, [Next]_vars, NEW x, Settling(x)'
    PROVE  \/ Settling(x)
           \/ CheckpointJournal /\ OnSession /\ task.name = "delete" /\ task.arg = x
<1>1. TypeOK BY DEF Control
<1>2. /\ task'.name = "delete" /\ task'.arg = x /\ task'.step # "flush"
      /\ ~(task'.step = "checkpoint" /\ index'.batch[task'.batch].kind = "session")
  BY DEF Settling, OnSession, InBatch
<1>3. ~Begins /\ ~Recover /\ task' # Idle BY <1>1, <1>2, BeginTask, IdleTyped DEF Recover
<1>4. task.name = "delete" /\ task.arg = x BY <1>2, <1>3, TaskNames
<1>5. CASE task'.step = task.step /\ task'.batch = task.batch
  <2>1. task.step = "checkpoint" => SameBatch(index, index', task.batch)
    BY <1>5, BatchKept DEF InBatch, Inherited
  <2> QED BY <1>2, <1>4, <1>5, <2>1 DEF Settling, OnSession, SameBatch
<1>6. CASE task.step \notin {"flush", "checkpoint"} BY <1>4, <1>6 DEF Settling
<1>7. CASE task'.step \notin InBatch
  <2>1. task.step \notin {"flush", "checkpoint"}
    BY <1>1, <1>2, <1>3, <1>4, <1>7, TaskEntries, ForgetTask DEF InBatch
  <2> QED BY <1>6, <2>1
<1>8. CASE task'.step = "checkpoint" /\ (Reclaims \/ FlushAndPrepare(task'.batch))
  <2>1. JustPrepared(index', task'.batch) BY <1>8, TakenBatch
  <2>2. task.step = "walk" BY <1>1, <1>2, <2>1, ReclaimTask DEF JustPrepared
  <2> QED BY <1>6, <2>2
<1>9. CASE task'.step = "stage" /\ CheckpointJournal /\ task'.batch = task.batch
  BY <1>4, <1>9 DEF CheckpointJournal, At, Settling
<1>10. CASE RemoveMetadata \/ (SyncStaged /\ Waiting) \/ (SyncFinalized /\ Waiting)
  BY <1>6, <1>10 DEF RemoveMetadata, At, SyncStaged, SyncFinalized, Running, Waiting
<1>11. ~Resume(task'.batch) BY <1>4 DEF Resume, Doing
<1> QED BY <1>5, <1>7, <1>8, <1>9, <1>10, <1>11, TaskEntries

LEMMA OverSteps ==
    ASSUME Control, [Next]_vars, NEW x, Over(x)'
    PROVE  Over(x) \/ (Forget /\ OnSession /\ Settling(x))
<1>1. TypeOK BY DEF Control
<1>2. CASE x \in promises'.deleted
  <2>1. DeleteDone => task.name = "delete" /\ task.step = "walk"
    BY DEF DeleteDone, WalkOver, Doing
  <2> QED BY <1>2, <2>1, Registers DEF Over, Settling, OnSession, InBatch
<1>3. CASE Settling(x)' /\ ~OnSession'
  <2>1. task'.name = "delete" BY <1>3 DEF Settling
  <2>2. task' # Idle /\ ~Recover BY <2>1, IdleTyped DEF Recover
  <2>3. ASSUME OnSession, ~Forget PROVE FALSE
    <3>1. task.step \in InBatch BY <2>3 DEF OnSession
    <3>2. ~Begins /\ ~Reclaims /\ ~FlushAndPrepare(task'.batch) /\ ~Resume(task'.batch)
      BY <1>1, <3>1, BeginTask, IdleTyped, ReclaimTask DEF InBatch, FlushAndPrepare, Resume, Doing
    <3>3. task.name \notin {"pin", "unpin"} BY <2>1, <2>2, <3>2, TaskNames
    <3>4. task.step # "decide" BY <3>1 DEF InBatch
    <3>5. task'.step \in InBatch /\ task'.batch = task.batch
      BY <2>2, <2>3, <3>1, <3>2, <3>3, <3>4, TaskEntries DEF InBatch
    <3>6. SameBatch(index, index', task.batch) BY <3>1, <3>5, BatchKept DEF Inherited
    <3> QED BY <1>3, <2>3, <3>5, <3>6 DEF OnSession, SameBatch
  <2>4. Settling(x)
    <3>1. ~(CheckpointJournal /\ OnSession) BY <2>3 DEF CheckpointJournal, Forget, At
    <3> QED BY <1>3, <3>1, SettlingSteps
  <2> QED BY <2>3, <2>4 DEF Over
<1> QED BY <1>2, <1>3 DEF Over

\* Nothing is appended or published for a session whose deletion has settled.
LEMMA NoNewRowOfDeleted ==
    ASSUME Whole, DeletionsHold, [Next]_vars, NEW x \in Sessions, x \in promises.deleted \/ Settling(x),
           NEW o \in Of(x)
    PROVE  ~NewRow(o)
<1>1. Control /\ TypeOK /\ index \in Index /\ Asked BY WholeParts
<1>2. SUFFICES ASSUME NewRow(o) PROVE FALSE OBVIOUS
<1>3. mode = "up" /\ SessionOf[o] = x /\ o \in Objects BY <1>1, <1>2, NewRowLives DEF Of
<1>4. CASE AppendFrame /\ o = task.arg /\ task.name = "append"
  <2>1. x \notin promises.deleted
    BY <1>1, <1>3, <1>4 DEF Asked, AppendsAreToNewSessions
  <2> QED BY <1>4, <2>1 DEF Settling
<1>5. CASE o \in Artifacts /\ PublishArtifact(o)
  <2>1. task = Idle /\ Sources[o] \subseteq index.open \union index.sealed
    BY <1>5 DEF PublishArtifact
  <2>2. PICK s \in Sources[o] : SessionOf[s] = x /\ s \in Segments
    BY <1>3, <1>5, JournalAssumption
  <2>3. x \in promises.deleted BY <2>1, IdleTyped DEF Settling
  <2>4. Clean(index, x) BY <1>3, <2>3 DEF DeletionsHold, Over
  <2> QED BY <2>1, <2>2, <2>4 DEF Clean, Bare, RowsOf, Of, Objects
<1> QED BY <1>1, <1>2, <1>4, <1>5, NewRowLives

\* Clean is kept by every step that adds no row of the session.
LEMMA CleanKept ==
    ASSUME Whole, [Next]_vars, NEW x, Clean(index, x), NEW d, RowChanges(d), \A o \in Of(x) : ~NewRow(o)
    PROVE  Clean(d, x)
<1>1. Bare(d, x) BY BareKept DEF Clean
<1>2. Of(x) \intersect d.usage = {} BY <1>1 DEF Clean, RowChanges, Bare
<1> QED BY <1>1, <1>2 DEF Clean

\* Recovery finds no file of the session to index again.
LEMMA RecoveredBare ==
    ASSUME Whole, Recover, NEW x, \A o \in Of(x) : Gone(o)
    PROVE  /\ Bare(index, x) => Bare(index', x)
           /\ Clean(index, x) => Clean(index', x)
<1>1. TypeOK /\ index \in Index BY WholeParts
<1>2. Of(x) \intersect index'.sealed = {} BY <1>1, RecoverIndex DEF Gone
<1>3. /\ RowsOf(index') \subseteq index'.sealed \union RowsOf(index)
      /\ index'.pins \subseteq index.pins /\ index'.tombstones = index.tombstones
      /\ index'.usage \subseteq index'.sealed \union index.usage
  BY <1>1, RecoverIndex DEF RowsOf
<1>4. x \in index'.catalog => x \in index.catalog
  <2>1. \A s \in index'.sealed : s \in Segments /\ SessionOf[s] # x
    BY <1>1, <1>2, RecoverIndex DEF Of, Objects
  <2> QED BY <1>1, <2>1, RecoverIndex
<1> QED BY <1>2, <1>3, <1>4 DEF Bare, Clean

\* Forgetting the session batch leaves the index clean.
LEMMA ForgottenSession ==
    ASSUME Whole, [Next]_vars, Forget, Current.session # None
    PROVE  /\ task.step = "forget" /\ Current.state = "removed" /\ task.batch \in index.batches
           /\ Current = index.batch[task.batch]
           /\ Bare(index, Current.session) => Clean(index', Current.session)
           /\ mode = "up" => Bare(index, Current.session) /\ \A o \in Of(Current.session) : Gone(o)
<1>1. Control /\ TypeOK /\ index \in Index /\ SessionBatchesCover BY WholeParts
<1>2. task.step = "forget" /\ task.batch \in index.batches /\ Current = index.batch[task.batch]
      /\ task.batch \in Batches
  BY <1>1, ForgetTask, TaskBatch DEF InBatch, Current
<1>3. Current.state = "removed" BY <1>1, <1>2 DEF Control, TaskIsJournaled, InBatch, BeforeRows
<1>4. /\ RowsOf(index') = RowsOf(index) /\ index'.pins = index.pins
      /\ index'.tombstones = index.tombstones
      /\ index'.catalog = index.catalog
      /\ index'.usage = index.usage \ (Current.objects \union Of(Current.session))
  BY <1>1, <1>2, ForgetSteps, ForgottenIndex DEF RowsOf
<1>5. mode = "up" => Bare(index, Current.session) /\ \A o \in Of(Current.session) : Gone(o)
  BY <1>1, <1>2, <1>3 DEF SessionBatchesCover
<1> QED BY <1>2, <1>3, <1>4, <1>5 DEF Bare, Clean

\* A pending removal stays pending or is done.
LEMMA PendingKept ==
    ASSUME Whole, [Next]_vars, NEW x \in Sessions, Pending(index, x), NEW d \in Surviving', RowChanges(d),
           ~(d \in Surviving /\ (d # index' \/ PowerLoss)), \A o \in Of(x) : ~NewRow(o)
    PROVE  Clean(d, x) \/ Pending(d, x)
<1>1. Control /\ TypeOK /\ index \in Index BY WholeParts
<1>2. PICK b \in index.batches : /\ index.batch[b].session = x
                                 /\ index.batch[b].state = "removed" => Bare(index, x)
  BY DEF Pending
<1>3. x # None BY JournalAssumption
<1>4. CASE b \in d.batches /\ Inherited(d, b)
  <2>1. d.batch[b].session = x BY <1>2, <1>4 DEF Inherited, SameBatch
  <2>2. CASE d.batch[b].state = index.batch[b].state
    BY <1>2, <1>4, <2>1, <2>2, BareKept DEF Pending
  <2>3. CASE RemoveMetadata /\ d = index' /\ b = task.batch
    <3>1. Current.session = x BY <1>2, <2>3 DEF Current
    <3> QED BY <1>3, <1>4, <2>1, <2>3, <3>1, SessionRemoved DEF Pending
  <2> QED BY <1>4, <2>2, <2>3 DEF Inherited
<1>5. CASE Forget /\ b = task.batch /\ d = index'
  <2>1. Current.session = x BY <1>2, <1>5 DEF Current
  <2>2. Current.state = "removed" => Bare(index, x) BY <1>2, <1>5 DEF Current
  <2> QED BY <1>3, <1>5, <2>1, <2>2, ForgottenSession
<1> QED BY <1>1, <1>4, <1>5, BatchesStay

\* The deletions hold after every step.
LEMMA DeletionsHoldKept ==
    ASSUME Whole, DeletionsHold, [Next]_vars
    PROVE  DeletionsHold'
<1>1. Control /\ BornFirst /\ Asked /\ TypeOK /\ index \in Index /\ index \in Surviving
  BY WholeParts
<1>2. ASSUME NEW x \in Sessions, x \in promises'.deleted \/ Settling(x)', NEW d \in Surviving'
      PROVE  Clean(d, x) \/ Pending(d, x)
  <2>1. CASE x \in promises.deleted \/ Settling(x)
    <3>1. Clean(index, x) \/ Pending(index, x) BY <1>1, <2>1 DEF DeletionsHold
    <3>2. \A o \in Of(x) : ~NewRow(o) BY <2>1, NoNewRowOfDeleted
    <3>3. CASE d \in Surviving BY <2>1, <3>3 DEF DeletionsHold
    <3>4. CASE d = index' /\ Recover
      <4>1. ~Settling(x) BY <1>1, <3>4, IdleTyped DEF Recover, Settling, Control, PhasesAreOrderly
      <4>2. \A o \in Of(x) : Gone(o) BY <2>1, <4>1 DEF DeletionsHold, Over
      <4>3. SameJournal(index, d) BY <1>1, <3>4, RecoverIndex DEF SameJournal
      <4>4. /\ Bare(index, x) => Bare(d, x)
            /\ Clean(index, x) => Clean(d, x)
        BY <3>4, <4>2, RecoveredBare
      <4> QED BY <3>1, <4>3, <4>4 DEF Pending, SameJournal
    <3>5. CASE RowChanges(d) /\ ~(d \in Surviving /\ (d # index' \/ PowerLoss))
      BY <3>1, <3>2, <3>5, CleanKept, PendingKept
    <3> QED BY <1>1, <3>3, <3>4, <3>5, SurvivorRows
  <2>2. CASE CheckpointJournal /\ OnSession /\ task.name = "delete" /\ task.arg = x
    <3>1. task.step = "checkpoint" /\ older' = {} /\ index' = index
      BY <2>2 DEF CheckpointJournal, At
    <3>2. d = index BY <3>1 DEF Surviving
    <3>3. task.batch \in index.batches /\ index.batch[task.batch].session = x
      BY <1>1, <2>2, TaskBatch DEF OnSession, Asked, DeletionsAreFenced
    <3>4. index.batch[task.batch].state = "prepared"
      BY <1>1, <3>1 DEF Control, TaskIsJournaled, InBatch, BeforeRows
    <3> QED BY <3>2, <3>3, <3>4 DEF Pending
  <2>3. x \in promises'.deleted => x \in promises.deleted \/ Settling(x)
    <3>1. DeleteDone => task.name = "delete" /\ task.step = "walk"
      BY DEF DeleteDone, WalkOver, Doing
    <3> QED BY <1>1, <3>1, Registers DEF Settling
  <2> QED BY <1>1, <1>2, <2>1, <2>2, <2>3, SettlingSteps
<1>3. ASSUME NEW x \in Sessions, Over(x)'
      PROVE  /\ x \in promises.deleted \/ Settling(x)
             /\ \A o \in Of(x) : Gone(o)
             /\ mode = "up" => Clean(index, x) \/ (Forget /\ Clean(index', x))
  <2>1. CASE Over(x) BY <2>1 DEF Over, DeletionsHold
  <2>2. CASE Forget /\ OnSession /\ Settling(x)
    <3>1. task.step = "forget" /\ task.name = "delete" /\ task.arg = x
      BY <1>1, <2>2, ForgetTask DEF Settling
    <3>2. Current.session = x /\ x # None
      BY <2>2, <3>1, <1>1, JournalAssumption DEF OnSession, Asked, DeletionsAreFenced, Current
    <3>3. mode = "up"
      BY <1>1, <3>1, IdleTyped DEF Control, PhasesAreOrderly, TypeOK
    <3> QED BY <2>2, <3>2, <3>3, ForgottenSession
  <2> QED BY <1>1, <1>3, <2>1, <2>2, OverSteps
<1>4. ASSUME NEW x \in Sessions, Over(x)', NEW o \in Of(x) PROVE Gone(o)'
  <2>1. ~NewRow(o) /\ Gone(o) BY <1>3, <1>4, NoNewRowOfDeleted
  <2> QED BY <1>1, <2>1, GoneOrBorn DEF Of
<1>5. ASSUME mode' = "up", NEW x \in Sessions, Over(x)' PROVE Clean(index', x)
  <2>1. x \in promises.deleted \/ Settling(x) BY <1>3, <1>5
  <2>2. \A o \in Of(x) : ~NewRow(o) BY <2>1, NoNewRowOfDeleted
  <2>3. CASE OpenStore
    <3>1. ~Pending(index, x) /\ RowChanges(index')
      BY <1>1, <2>3, OpeningIsQuiet, IndexRows DEF Pending
    <3>2. Clean(index, x) BY <1>1, <2>1, <3>1 DEF DeletionsHold
    <3> QED BY <2>2, <3>1, <3>2, CleanKept
  <2>4. CASE ~OpenStore
    <3>1. mode = "up" /\ RowChanges(index') BY <1>1, <1>5, <2>4, StaysUp, IndexRows
    <3> QED BY <1>3, <1>5, <2>2, <3>1, CleanKept
  <2> QED BY <2>3, <2>4
<1>6. \A x \in Sessions : x \in promises'.deleted \/ Settling(x)' =>
         \A d \in Surviving' : Clean(d, x) \/ Pending(d, x)
  BY <1>2
<1>7. \A x \in Sessions : Over(x)' => \A o \in Of(x) : Gone(o)' BY <1>4
<1>8. mode' = "up" => \A x \in Sessions : Over(x)' => Clean(index', x) BY <1>5
<1> QED BY <1>6, <1>7, <1>8
     DEF DeletionsHold, Clean, Pending, Bare, RowsOf, Of, Gone, Settling, OnSession, Over,
            Surviving
-----------------------------------------------------------------------------
\* The inductive invariant of the deletion journal.
IInv == Whole /\ DeletionsHold

\* It holds in a new store.
LEMMA InvariantStarts ==
    ASSUME Init
    PROVE  IInv
<1>1. Control BY ControlStarts
<1>2. /\ mode = "up" /\ place = [o \in Objects |-> "absent"] /\ synced = place
      /\ task = Idle /\ work = <<>> /\ Surviving = {index}
      /\ RowsOf(index) = {} /\ index.pins = {} /\ index.usage = {} /\ index.tombstones = {}
      /\ index.catalog = {} /\ index.batches = {} /\ promises.deleted = {} /\ requested = {}
      /\ fenced = {} /\ older = {}
  BY DEF Init, Surviving, RowsOf
<1>3. task.name = "none" /\ task.step = "idle" BY <1>2, IdleTyped
<1>4. DOMAIN <<>> = {} OBVIOUS
<1>5. \A o \in Objects : Gone(o) /\ place[o] = "absent" /\ synced[o] = "absent" BY <1>2 DEF Gone
<1>6. RowsAreBacked BY <1>2 DEF RowsAreBacked, RowsOf
<1>7. BornFirst BY <1>2, <1>3, <1>5 DEF BornFirst
<1>8. "absent" \notin Batches BY JournalAssumption
<1>9. Trash
  <2>1. StagedFilesAreJournaled /\ TrashIsJournaled
    BY <1>5, <1>8 DEF StagedFilesAreJournaled, TrashIsJournaled
  <2>2. StagingWasForced /\ UnlinkingIsToDo BY <1>2, <1>4 DEF StagingWasForced, UnlinkingIsToDo
  <2>3. ReplaysWereForced /\ UnlinkingIsDone BY <1>2, <1>3 DEF ReplaysWereForced, UnlinkingIsDone
  <2> QED BY <2>1, <2>2, <2>3 DEF Trash
<1>10. Removal
  <2>1. StagedFilesHaveMoved BY <1>2, <1>4 DEF StagedFilesHaveMoved
  <2>2. StagingIsDone /\ RemovedFilesAreGone /\ UnsyncedMovesAreClaimed
    BY <1>2, <1>3, <1>5 DEF StagingIsDone, RemovedFilesAreGone, UnsyncedMovesAreClaimed, Gone
  <2> QED BY <2>1, <2>2 DEF Removal
<1>11. Asked
  BY <1>2, <1>3 DEF Asked, SessionsWereAsked, DeletionsAreFenced, AppendsAreToNewSessions
<1>12. Counting
  <2>1. FilesAreIndexed BY <1>2, <1>5 DEF FilesAreIndexed, Gone, Objects
  <2>2. SessionBatchesCover /\ DeadSegmentsAreClaimed
    BY <1>2 DEF SessionBatchesCover, DeadSegmentsAreClaimed
  <2>3. UsageCovers BY <1>2 DEF UsageCovers, RowsOf
  <2> QED BY <2>1, <2>2, <2>3 DEF Counting
<1>13. DeletionsHold
  <2>1. \A x : ~Over(x) /\ ~Settling(x) BY <1>2, <1>3 DEF Over, Settling
  <2> QED BY <1>2, <2>1 DEF DeletionsHold
<1> QED BY <1>1, <1>6, <1>7, <1>9, <1>10, <1>11, <1>12, <1>13 DEF IInv, Whole

\* Every step keeps it.
LEMMA InvariantKept ==
    ASSUME IInv, [Next]_vars
    PROVE  IInv'
<1>1. Whole /\ DeletionsHold BY DEF IInv
<1>2. /\ Control /\ RowsAreBacked /\ BornFirst /\ Trash /\ Removal /\ Asked
  BY <1>1, WholeParts
<1>3. Control' BY <1>2, ControlKept
<1>4. RowsAreBacked' BY <1>2, RowsKept
<1>5. BornFirst' BY <1>2, BornKept
<1>6. Trash' BY <1>2, TrashKept
<1>7. Removal'
  BY <1>2, StagedFilesHaveMovedKept, StagingIsDoneKept, RemovedFilesAreGoneKept,
     UnsyncedMovesAreClaimedKept
     DEF Removal
<1>8. Asked'
  BY <1>2, SessionsWereAskedKept, DeletionsAreFencedKept, AppendsAreToNewSessionsKept DEF Asked
<1>9. Counting'
  BY <1>1, FilesAreIndexedKept, SessionBatchesCoverKept, DeadSegmentsAreClaimedKept,
     UsageCoversKept
     DEF Counting
<1>10. DeletionsHold' BY <1>1, DeletionsHoldKept
<1> QED BY <1>3, <1>4, <1>5, <1>6, <1>7, <1>8, <1>9, <1>10 DEF IInv, Whole

\* So it always holds.
LEMMA Invariant == Spec => []IInv
  BY InvariantStarts, InvariantKept, PTL DEF Spec

(* The type of every variable of the deletion journal, after any sequence of calls, *)
(* failures, crashes and losses of power.                                           *)
THEOREM JournalStaysTyped == Spec => []TypeOK
<1>1. IInv => TypeOK BY DEF IInv, Whole, Control
<1> QED BY <1>1, Invariant, PTL

(* While the store is open, a row without its file is in a prepared batch, so the next *)
(* replay removes it (prepare_batch, the staging worker, remove_metadata, recovery).   *)
THEOREM NoRowPointsAtNothing == Spec => []RowsHaveFilesOrABatch
<1>1. ASSUME IInv PROVE RowsHaveFilesOrABatch
  <2>1. RowsAreBacked BY <1>1 DEF IInv, Whole
  <2> QED BY <2>1 DEF RowsAreBacked, RowsHaveFilesOrABatch, Rows, Claimed
<1> QED BY <1>1, Invariant, PTL

(* A file in .trash belongs to a batch the journal still holds, unless both a crash *)
(* and a loss of power occurred: it will be unlinked (stage, finalize, forget).     *)
THEOREM TrashStaysJournaled == Spec => []StagedFilesAreJournaled
<1>1. IInv => StagedFilesAreJournaled BY DEF IInv, Whole, Trash
<1> QED BY <1>1, Invariant, PTL

(* Under the same condition the budget counts every file on the disk, as usage or as *)
(* pending deletion (reconcile_artifacts, remove_metadata, the last transaction).    *)
THEOREM BudgetCountsEveryFile == Spec => []FilesAreCounted
<1>1. IInv => FilesAreCounted BY CountedWhole DEF IInv
<1> QED BY <1>1, Invariant, PTL

(* Once delete_session has returned Ok, no row, link, usage row or live file of the    *)
(* session exists while the store is open, whatever calls, crashes and losses of power *)
(* follow (mark_session_deleted, prepare_batch, replay, recovery of the segments).     *)
THEOREM DeletionIsForEver == Spec => []DeletedSessionsStayDeleted
<1>1. ASSUME IInv, mode = "up", NEW x \in promises.deleted
      PROVE  /\ Of(x) \intersect (Rows \union index.usage \union index.pins \union index.tombstones) = {}
             /\ x \notin index.catalog
             /\ \A o \in Of(x) : place[o] # "live"
  <2>1. Over(x) /\ x \in Sessions BY <1>1 DEF IInv, Over, Whole, Control, TypeOK
  <2>2. Clean(index, x) /\ \A o \in Of(x) : Gone(o) BY <1>1, <2>1 DEF IInv, DeletionsHold
  <2> QED BY <2>2 DEF Clean, Bare, RowsOf, Rows, Gone
<1>2. IInv => DeletedSessionsStayDeleted BY <1>1 DEF DeletedSessionsStayDeleted
<1> QED BY <1>2, Invariant, PTL
-----------------------------------------------------------------------------
\* A store whose calls are neither failed by the disk nor dropped by their callers. A
\* pin is not safe otherwise: a batch an eviction left behind may hold its segment.
Faultless == MaxFailures = 0 /\ MaxCancels = 0

\* A batch that is under way is the call's own, and neither an open segment nor an
\* artifact blocks it; an open segment is one the writer will flush.
NothingIsLeftBehind ==
    /\ mode = "up" => /\ index.open \subseteq writer
                      /\ index.batches \subseteq IF task.step \in InBatch THEN {task.batch} ELSE {}
                      /\ task.step \in BeforeRows => ~Blocked(index, Current)
    /\ mode = "resuming" => index.open = {}

\* A file in its live directory stays there when power is lost.
LiveIsForced == \A o \in Objects : place[o] = "live" => synced[o] = "live"

\* Only sealed segments are pinned, in every version that could survive.
PinsAreSealed == \A d \in Surviving : d.pins \subseteq d.sealed

\* unpin gives the promise up before it writes anything.
UnpinnedIsReleased ==
    task.name = "unpin" /\ task.step = "flush" => task.arg \notin promises.pinned

\* A pin that no loss of power takes back, of a segment no batch will remove.
Kept(s) ==
    /\ place[s] = "live" /\ synced[s] = "live"
    /\ \A d \in Surviving : s \in d.pins /\ \A b \in d.batches : s \notin d.batch[b].objects

PinsAreKept == \A s \in promises.pinned : SessionOf[s] \in requested \/ Kept(s)

\* The invariant of the pins, on top of IInv.
PinInv == /\ NothingIsLeftBehind /\ LiveIsForced /\ PinsAreSealed
          /\ UnpinnedIsReleased /\ PinsAreKept

\* The steps that a faultless store does not take.
LEMMA NoFaults ==
    ASSUME Faultless, TypeOK
    PROVE  ~StepFails /\ ~WorkerFails /\ ~Cancel /\ ~\E T \in SUBSET Segments : FlushFails(T)
<1>1. spent["failures"] \in Nat /\ spent["cancels"] \in Nat BY DEF TypeOK
<1>2. ~Spend("failures", MaxFailures) /\ ~Spend("cancels", MaxCancels)
  BY <1>1 DEF Spend, Faultless
<1> QED BY <1>2 DEF StepFails, WorkerFails, Cancel, FlushFails

\* What a step leaves in a live directory has been forced there.
LEMMA LiveIsForcedKept ==
    ASSUME Control, BornFirst, LiveIsForced, [Next]_vars
    PROVE  LiveIsForced'
<1>1. SUFFICES ASSUME NEW o \in Objects, place'[o] = "live" PROVE synced'[o] = "live"
  BY DEF LiveIsForced
<1>2. Fates(o) BY ObjectFates
<1>3. place[o] = "live" => synced[o] = "live" BY DEF LiveIsForced
<1>4. StageObject(o) => work # <<>> BY DEF StageObject, Running
<1> QED BY <1>1, <1>2, <1>3, <1>4, JobIsOne DEF Fates

\* What a flush of a faultless store does to open segments and pins.
LEMMA FlushPins ==
    ASSUME Faultless, TypeOK, Flushes
    PROVE  /\ \A d \in Surviving' : d \in Surviving \/ d = index'
           /\ writer' \subseteq writer
           /\ index'.open \subseteq index.open \ (writer \ writer')
           /\ index.sealed \subseteq index'.sealed
           /\ index'.pins \subseteq index.pins \union index'.sealed
           /\ \A s \in index.pins \ index'.pins : Unpin /\ s = task.arg
<1>1. index \in Index /\ writer \in SUBSET Segments /\ Flushed \subseteq writer
      /\ Flushed \in SUBSET Segments
  BY DEF TypeOK, Flushed
<1>2. ASSUME NEW S \in SUBSET Segments
      PROVE  /\ Sealing(index, S) \in Index
             /\ Sealing(index, S).open = index.open \ S
             /\ index.sealed \subseteq Sealing(index, S).sealed
             /\ Sealing(index, S).pins = index.pins
  BY <1>1 DEF Sealing, Index
<1>6. ASSUME NEW d \in Index
      PROVE  /\ PinRows(d).open = d.open /\ PinRows(d).sealed = d.sealed
             /\ PinRows(d).pins = IF task.arg \in d.sealed THEN d.pins \union {task.arg} ELSE d.pins
  BY DEF PinRows, Index
<1>3. CASE FlushAndPin
  <2>1. /\ index' = PinRows(Sealing(index, Flushed)) /\ older' = {}
        /\ writer' = writer \ Flushed
    BY <1>3 DEF FlushAndPin, CommitAndCheckpoint
  <2>2. /\ index'.open = index.open \ Flushed /\ index.sealed \subseteq index'.sealed
        /\ index.pins \subseteq index'.pins
        /\ index'.pins \subseteq index.pins \union index'.sealed
    <3> DEFINE f == Sealing(index, Flushed)
    <3>1. /\ f \in Index /\ f.open = index.open \ Flushed
          /\ index.sealed \subseteq f.sealed /\ f.pins = index.pins
      BY <1>1, <1>2
    <3>2. index' = PinRows(f) BY <2>1
    <3> HIDE DEF f
    <3> QED BY <1>6, <3>1, <3>2
  <2>3. writer \ writer' = Flushed BY <1>1, <2>1
  <2> QED BY <2>1, <2>2, <2>3 DEF Surviving
<1>4. CASE Unpin
  <2>1. index' = Unpinned(index) /\ older' = {} /\ writer' = writer
    BY <1>4 DEF Unpin, CommitAndCheckpoint
  <2>2. /\ Unpinned(index).open = index.open /\ Unpinned(index).sealed = index.sealed
        /\ Unpinned(index).pins = index.pins \ {task.arg}
    BY <1>1 DEF Unpinned, Index
  <2> QED BY <1>4, <2>1, <2>2 DEF Surviving
<1>5. CASE \E p \in BOOLEAN : Decide(p)
  <2>1. PICK p \in BOOLEAN : Decide(p) BY <1>5
  <2>2. CASE p
    <3>1. index' = Sealing(index, writer) /\ older' = {} /\ writer' = {}
      BY <2>1, <2>2 DEF Decide, CommitAndCheckpoint
    <3>2. /\ index'.open = index.open \ writer /\ index.sealed \subseteq index'.sealed
          /\ index'.pins = index.pins
      BY <1>1, <1>2, <3>1
    <3> QED BY <3>1, <3>2 DEF Surviving
  <2>3. CASE ~p
    <3>1. index' = index /\ older' = older /\ writer' = writer BY <2>1, <2>3 DEF Decide, log
    <3> QED BY <3>1 DEF Surviving
  <2> QED BY <2>2, <2>3
<1> QED BY <1>3, <1>4, <1>5, NoFaults DEF Flushes

\* The same of a deletion's flush.
LEMMA DeletePins ==
    ASSUME TypeOK, NEW b \in Batches, FlushAndPrepare(b), task.arg \in Sessions
    PROVE  /\ \A d \in Surviving' : d.pins = index.pins /\ index.sealed \subseteq d.sealed
           /\ writer' = writer \ Flushed /\ index'.open = index.open \ Flushed
           /\ index'.artifacts = index.artifacts
           /\ index'.batch[b].session = task.arg
           /\ index'.batch[b].objects = Of(task.arg) \intersect (index'.sealed \union index'.artifacts)
<1> DEFINE f == Sealing(index, Flushed)
           S == Of(task.arg) \intersect (f.sealed \union f.artifacts)
<1>1. index \in Index /\ Flushed \in SUBSET Segments BY DEF TypeOK, Flushed
<1>2. /\ f \in Index /\ f.open = index.open \ Flushed /\ index.sealed \subseteq f.sealed
      /\ f.pins = index.pins /\ f.artifacts = index.artifacts
  BY <1>1 DEF Sealing, Index
<1>3. index' = Prepared(f, b, "session", task.arg, S) /\ older' = {f} /\ writer' = writer \ Flushed
  BY DEF FlushAndPrepare
<1>4. S \in SUBSET Objects BY DEF Of
<1> HIDE DEF f, S
<1>5. /\ index'.open = f.open /\ index'.sealed = f.sealed /\ index'.artifacts = f.artifacts
      /\ index'.pins = f.pins /\ index'.batch[b].session = task.arg /\ index'.batch[b].objects = S
  BY <1>2, <1>3, <1>4, PreparedIndex
<1> QED BY <1>2, <1>3, <1>5 DEF Surviving, S

\* A pin is written by pin only, and lost to unpin, to the removal of its segment or
\* of its session, and to a recovery that does not find the segment.
PinChanges(d) ==
    /\ d.pins \subseteq d.sealed
    /\ \A s \in index.pins \ d.pins : \/ Unpin /\ s = task.arg
                                      \/ RemoveMetadata /\ OfCurrent(s)
                                      \/ Recover /\ place[s] # "live"

\* A new survivor is an old one, or has these changes.
LEMMA SurvivorPins ==
    ASSUME Faultless, Control, PinsAreSealed, [Next]_vars, NEW d \in Surviving'
    PROVE  d \in Surviving \/ PinChanges(d)
<1>1. TypeOK /\ index \in Index /\ index.pins \subseteq index.sealed /\ d \in Index
  BY NewSurvivors DEF Control, TypeOK, PinsAreSealed, Surviving
<1>2. d = index' \/ d \in older' BY DEF Surviving
<1>3. ASSUME d.pins = index.pins, index.sealed \subseteq d.sealed PROVE PinChanges(d)
  BY <1>1, <1>3 DEF PinChanges
<1>4. CASE UNCHANGED log \/ CheckpointJournal BY <1>2, <1>4 DEF log, CheckpointJournal, Surviving
<1>5. CASE Flushes BY <1>1, <1>5, FlushPins DEF PinChanges
<1>6. CASE \E b \in Batches : FlushAndPrepare(b)
  BY <1>1, <1>3, <1>6, DeletePins, DeleteTask DEF Control, ArgsFit
<1>7. CASE Reclaims
  <2>1. PICK S \in SUBSET (index.sealed \union index.artifacts), b \in Free :
            /\ S \in SUBSET Objects /\ index' = Prepared(index, b, "eviction", None, S)
            /\ older' = older \union {index}
    BY <1>1, <1>7, ReclaimTask
  <2>2. index'.pins = index.pins /\ index'.sealed = index.sealed
    BY <1>1, <2>1, PreparedIndex DEF Free
  <2> QED BY <1>2, <1>3, <2>1, <2>2 DEF Surviving
<1>8. CASE RemoveMetadata
  <2>1. /\ task.batch \in Batches /\ index' = Stripped(index, task.batch)
        /\ older' = older \union {index}
    BY <1>8, RemoveTask DEF Control
  <2>2. /\ index'.sealed = index.sealed \ Current.objects
        /\ index'.pins = index.pins \ (Current.objects \union
              IF Current.session = None THEN {} ELSE Of(Current.session))
    BY <1>1, <2>1, StrippedIndex DEF Current
  <2>3. PinChanges(index') BY <1>1, <1>8, <2>2 DEF PinChanges, OfCurrent, Of
  <2> QED BY <1>2, <2>1, <2>3 DEF Surviving
<1>9. CASE Forget
  <2>1. task.batch \in Batches BY <1>1, <1>9, ForgetTask, TaskBatch DEF InBatch
  <2>2. /\ index' = Forgotten(index, task.batch) /\ older' = older \union {index}
        /\ index'.pins = index.pins /\ index'.sealed = index.sealed
    BY <1>1, <1>9, <2>1, ForgetSteps, ForgottenIndex
  <2> QED BY <1>2, <1>3, <2>2 DEF Surviving
<1>10. CASE AppendFrame \/ (\E a \in Artifacts : PublishArtifact(a)) \/ OpenStore
  <2>1. AppendFrame => task.arg \in Segments
    BY DEF AppendFrame, WalkOver, Doing, Control, ArgsFit
  <2>2. index'.pins = index.pins /\ index'.sealed = index.sealed
    BY <1>1, <1>10, <2>1, AppendIndex, PublishIndex, OpenIndex
  <2>3. older' = older \union {index} BY <1>10 DEF AppendFrame, PublishArtifact, OpenStore, Commit
  <2> QED BY <1>2, <1>3, <2>2, <2>3 DEF Surviving
<1>11. CASE PowerLoss BY <1>2, <1>11 DEF PowerLoss, Surviving
<1>12. CASE Recover
  <2>1. older' = older \union {index} BY <1>12 DEF Recover, Commit
  <2>2. /\ index'.sealed = {s \in Segments : place[s] = "live"}
        /\ index'.pins = index.pins \ ((index.open \union index.sealed) \ index'.sealed)
    BY <1>1, <1>12, RecoverIndex
  <2>3. PinChanges(index') BY <1>1, <1>12, <2>2 DEF PinChanges, Index
  <2> QED BY <1>2, <2>1, <2>3 DEF Surviving
<1> QED BY <1>4, <1>5, <1>6, <1>7, <1>8, <1>9, <1>10, <1>11, <1>12, LogSteps

\* No batch that a step of the open store prepares can be blocked when its rows go.
LEMMA NewBatchIsFree ==
    ASSUME TypeOK, NEW b \in Batches, ArgsFit, task'.batch = b,
           Reclaims \/ FlushAndPrepare(b), mode = "up", index.open \subseteq writer
    PROVE  ~Blocked(index', Current')
<1> DEFINE S == Current'.objects
<1>1. /\ index \in Index /\ Current' = index'.batch[b]
      /\ \A a \in Artifacts : Sources[a] \subseteq Segments /\ a \notin Segments
  BY JournalAssumption DEF Current, TypeOK
<1>2. ASSUME NEW T \in SUBSET Objects, Prepare("eviction", None, T)
      PROVE  S = T /\ Current'.session = None /\ index'.artifacts = index.artifacts
  <2>1. "checkpoint" \in Steps BY DEF Steps
  <2>2. index' = Prepared(index, b, "eviction", None, T)
    <3>1. PICK c \in Free : /\ index' = Prepared(index, c, "eviction", None, T)
                            /\ task' = [task EXCEPT !.step = "checkpoint", !.batch = c]
      BY <1>2 DEF Prepare, Commit
    <3>2. task'.batch = c BY <2>1, <3>1, EnterTyped DEF Free
    <3> QED BY <3>1, <3>2
  <2> QED BY <1>1, <1>2, <2>2, PreparedIndex
<1>3. ASSUME NEW a \in Artifacts, ReclaimArtifact(a) \/ InvalidateArtifact(a)
      PROVE  ~Blocked(index', Current')
  <2>1. S = {a} /\ Current'.session = None
    BY <1>2, <1>3 DEF ReclaimArtifact, InvalidateArtifact, Objects
  <2>2. index'.artifacts \subseteq Artifacts
    BY <1>1, <1>2, <1>3 DEF ReclaimArtifact, InvalidateArtifact, Objects, Index
  <2> QED BY <1>1, <2>1, <2>2 DEF Blocked
<1>4. ASSUME NEW s \in Segments, ReclaimSegment(s)
      PROVE  ~Blocked(index', Current')
  <2>1. {s} \union LinkedTo(s) \subseteq Objects /\ index.artifacts \subseteq Artifacts
    BY <1>1 DEF LinkedTo, Index, Objects
  <2>2. /\ S = {s} \union LinkedTo(s) /\ Current'.session = None
        /\ index'.artifacts = index.artifacts
    BY <1>2, <1>4, <2>1 DEF ReclaimSegment
  <2>3. \A a \in index.artifacts \ S : Sources[a] \intersect S = {}
    BY <1>1, <2>1, <2>2 DEF LinkedTo
  <2> QED BY <2>2, <2>3 DEF Blocked
<1>5. CASE FlushAndPrepare(b)
  <2>1. task.name = "delete" /\ task.arg \in Sessions
    BY <1>5, DeleteTask DEF ArgsFit
  <2>2. /\ index'.open = index.open \ Flushed /\ index'.artifacts = index.artifacts
        /\ S = Of(task.arg) \intersect (index'.sealed \union index'.artifacts)
        /\ Current'.session = task.arg
    BY <1>1, <1>5, <2>1, DeletePins
  <2>3. Flushed = writer \intersect Of(task.arg) BY <2>1 DEF Flushed
  <2>4. index'.sealed \subseteq Segments /\ index.open \subseteq Segments
    <3>1. index' \in Index
      <4>1. PICK f \in Index, T \in SUBSET Objects : index' = Prepared(f, b, "session", task.arg, T)
        BY <1>5, <2>1, DeletePrepares
      <4> QED BY <2>1, <4>1, PreparedIndex
    <3> QED BY <1>1, <3>1 DEF Index
  <2>5. ASSUME NEW a \in index'.artifacts \ S
        PROVE  Sources[a] \intersect S = {}
    <3>1. a \in Artifacts /\ a \in Objects BY <1>1, <2>2, <2>5 DEF Index, Objects
    <3>2. SessionOf[a] # task.arg BY <2>2, <2>5, <3>1 DEF Of
    <3>3. \A s \in Sources[a] : SessionOf[s] = SessionOf[a] BY <3>1, JournalAssumption
    <3> QED BY <2>2, <3>2, <3>3 DEF Of
  <2>6. ASSUME NEW s \in (index'.open \union index'.sealed) \ S, SessionOf[s] = task.arg
        PROVE  FALSE
    <3>1. s \in Of(task.arg) BY <2>2, <2>4, <2>6 DEF Of, Objects
    <3> QED BY <2>2, <2>3, <2>6, <3>1
  <2> QED BY <2>2, <2>5, <2>6 DEF Blocked
<1> QED BY <1>3, <1>4, <1>5 DEF Reclaims

\* No such batch takes a pinned segment, but for that of a session that was asked for.
LEMMA NewBatchSparesPins ==
    ASSUME Control, Asked, [Next]_vars, PinsAreSealed, NEW b \in Batches, JustPrepared(index', b),
           NEW s \in Segments, s \in index.pins, SessionOf[s] \notin requested
    PROVE  s \notin index'.batch[b].objects
<1>1. TypeOK /\ index \in Index /\ s \in Objects /\ s \notin Artifacts
  BY JournalAssumption DEF Control, TypeOK, Objects
<1>2. task'.batch = b BY DEF JustPrepared
<1>3. ASSUME NEW T \in SUBSET Objects, Prepare("eviction", None, T)
      PROVE  index'.batch[b].objects = T
  <2>1. "checkpoint" \in Steps BY DEF Steps
  <2>2. PICK c \in Free : /\ index' = Prepared(index, c, "eviction", None, T)
                          /\ task' = [task EXCEPT !.step = "checkpoint", !.batch = c]
    BY <1>3 DEF Prepare, Commit
  <2>3. c = b BY <1>1, <1>2, <2>1, <2>2, EnterTyped DEF Free
  <2> QED BY <1>1, <2>2, <2>3, PreparedIndex
<1>4. ASSUME NEW a \in Artifacts, ReclaimArtifact(a) \/ InvalidateArtifact(a)
      PROVE  s \notin index'.batch[b].objects
  BY <1>1, <1>3, <1>4 DEF ReclaimArtifact, InvalidateArtifact, Objects
<1>5. ASSUME NEW t \in Segments, ReclaimSegment(t)
      PROVE  s \notin index'.batch[b].objects
  <2>1. {t} \union LinkedTo(t) \subseteq Objects /\ LinkedTo(t) \subseteq Artifacts
    BY <1>1 DEF LinkedTo, Index, Objects
  <2>2. index'.batch[b].objects = {t} \union LinkedTo(t) /\ t \notin index.pins
    BY <1>3, <1>5, <2>1 DEF ReclaimSegment
  <2> QED BY <1>1, <2>1, <2>2
<1>6. CASE FlushAndPrepare(b)
  <2>1. task.arg \in Sessions /\ task.arg \in requested
    BY <1>1, <1>6, DeleteTask DEF Control, ArgsFit, Asked, DeletionsAreFenced, SessionsWereAsked
  <2>2. index'.batch[b].objects \subseteq Of(task.arg) BY <1>1, <1>6, <2>1, DeletePins
  <2> QED BY <2>1, <2>2 DEF Of
<1> QED BY <1>4, <1>5, <1>6 DEF JustPrepared, Reclaims

\* How a call of the open store gets on with its batch: nothing but the end of the
\* batch, or a blocked removal of its rows, takes it off the call's hands.
LEMMA BatchSteps ==
    ASSUME Faultless, Control, [Next]_vars, mode = "up", mode' = "up", task.step \in InBatch
    PROVE  \/ Forget \/ RemoveMetadataBlocked
           \/ RemoveMetadata /\ task'.step = "finalize" /\ task'.batch = task.batch
           \/ /\ index' = index
              /\ task'.step \in InBatch /\ task'.batch = task.batch
              /\ task'.step \in BeforeRows => task.step \in BeforeRows
<1>1. TypeOK /\ PhasesAreOrderly BY DEF Control
<1>2. ~(\E b \in Batches : Resume(b)) /\ ~OpenStore /\ ~Recover /\ ~Crash /\ ~PowerLoss
  BY <1>1 DEF Resume, OpenStore, Recover, Crash, PowerLoss, Stop, Doing, PhasesAreOrderly
<1>3. ~Begins /\ ~(\E a \in Artifacts : PublishArtifact(a))
  BY <1>1, BeginTask, IdleTyped DEF PublishArtifact, InBatch
<1>4. ~Flushes /\ ~(\E b \in Batches : FlushAndPrepare(b)) /\ ~Reclaims /\ ~AppendFrame /\ ~Ends
  BY <1>1, FlushTask, DeleteTask, ReclaimTask
     DEF InBatch, AppendFrame, Ends, EnforceDone, DeleteDone, WalkOver, Doing
<1>5. ~StepFails /\ ~WorkerFails /\ ~Cancel BY <1>1, NoFaults
<1>6. CASE CheckpointJournal
  BY <1>1, <1>6, CheckpointTask DEF Control, CheckpointJournal, InBatch, BeforeRows
<1>7. CASE RemoveMetadata BY <1>7, RemoveTask DEF Control
<1>8. CASE SyncStaged
  <2>1. "metadata" \in Steps /\ work # <<>> /\ Job.cmd = "stage" BY <1>8 DEF Steps, SyncStaged, Running
  <2> QED BY <1>1, <1>8, <2>1, AnswerTask DEF SyncStaged, Waiting, InBatch, BeforeRows, log
<1>9. CASE SyncFinalized
  <2>1. "forget" \in Steps /\ work # <<>> BY <1>9 DEF Steps, SyncFinalized, Running
  <2> QED BY <1>1, <1>9, <2>1, AnswerTask DEF SyncFinalized, InBatch, BeforeRows, log
<1>10. CASE (\E o \in Objects : StageObject(o)) \/ (\E o \in Objects : UnlinkObject(o))
              \/ (\E x \in Sessions : MarkDeleted(x)) \/ UNCHANGED vars
  BY <1>10 DEF StageObject, UnlinkObject, MarkDeleted, WorkerUnchanged, log, vars
<1> QED BY <1>2, <1>3, <1>4, <1>5, <1>6, <1>7, <1>8, <1>9, <1>10, EachStep DEF Fails

\* What leaves the writer leaves the open rows with it, and a row that is opened
\* comes with an open segment of the writer.
LEMMA OpenSteps ==
    ASSUME Faultless, Control, [Next]_vars, mode' # "down", ~Recover
    PROVE  \/ /\ mode = "up"
              /\ index'.open = index.open \union {task.arg} /\ writer' = writer \union {task.arg}
           \/ /\ writer' \subseteq writer
              /\ index'.open \subseteq index.open \ (writer \ writer')
<1>1. TypeOK /\ PhasesAreOrderly /\ index \in Index BY DEF Control, TypeOK
<1>2. ASSUME writer' = writer, index'.open \subseteq index.open
      PROVE  writer' \subseteq writer /\ index'.open \subseteq index.open \ (writer \ writer')
  BY <1>2
<1>3. ~Crash /\ ~PowerLoss /\ ~WorkerFails /\ ~StepFails /\ ~Cancel
  BY <1>1, NoFaults DEF Crash, PowerLoss, Stop
<1>4. CASE Begins BY <1>1, <1>2, <1>4, BeginTask DEF log
<1>5. CASE Flushes BY <1>1, <1>5, FlushPins
<1>6. CASE \E b \in Batches : FlushAndPrepare(b)
  <2>1. PICK b \in Batches : FlushAndPrepare(b) BY <1>6
  <2>2. writer' = writer \ Flushed /\ index'.open = index.open \ Flushed
    BY <1>1, <2>1, DeletePins, DeleteTask DEF Control, ArgsFit
  <2> QED BY <2>2
<1>7. CASE Reclaims
  <2>1. PICK S \in SUBSET (index.sealed \union index.artifacts), b \in Free :
            S \in SUBSET Objects /\ index' = Prepared(index, b, "eviction", None, S)
    BY <1>1, <1>7, ReclaimTask
  <2>2. index'.open = index.open BY <1>1, <2>1, PreparedIndex DEF Free
  <2> QED BY <1>1, <1>2, <1>7, <2>2, ReclaimTask
<1>8. CASE CheckpointJournal BY <1>2, <1>8 DEF CheckpointJournal
<1>9. CASE RemoveMetadata
  <2>1. task.batch \in Batches /\ index' = Stripped(index, task.batch) /\ writer' = writer
    BY <1>9, RemoveTask DEF Control
  <2>2. index'.open \subseteq index.open BY <1>1, <2>1, StrippedIndex
  <2> QED BY <1>2, <2>1, <2>2
<1>10. CASE RemoveMetadataBlocked BY <1>2, <1>10 DEF RemoveMetadataBlocked, log
<1>11. CASE Forget
  <2>1. task.batch \in Batches /\ writer' = writer
    BY <1>1, <1>11, ForgetTask, TaskBatch DEF InBatch
  <2>2. index'.open = index.open BY <1>1, <1>11, <2>1, ForgetSteps, ForgottenIndex
  <2> QED BY <1>2, <2>1, <2>2
<1>12. CASE AppendFrame
  <2>1. task.arg \in Segments /\ mode = "up" /\ writer' = writer \union {task.arg}
    BY <1>12 DEF AppendFrame, WalkOver, Doing, Control, ArgsFit
  <2> QED BY <1>1, <1>12, <2>1, AppendIndex
<1>13. CASE (\E a \in Artifacts : PublishArtifact(a)) \/ OpenStore
  <2>1. index'.open = index.open BY <1>1, <1>13, PublishIndex, OpenIndex
  <2>2. writer' = writer BY <1>13 DEF PublishArtifact, OpenStore
  <2> QED BY <1>2, <2>1, <2>2
<1>14. CASE Ends \/ (\E x \in Sessions : MarkDeleted(x)) \/ (\E b \in Batches : Resume(b)) \/ UNCHANGED vars
  BY <1>2, <1>14 DEF Ends, EnforceDone, DeleteDone, MarkDeleted, Resume, log, vars
<1>15. CASE (\E o \in Objects : StageObject(o)) \/ (\E o \in Objects : UnlinkObject(o))
              \/ SyncStaged \/ SyncFinalized
  BY <1>2, <1>15 DEF StageObject, UnlinkObject, SyncStaged, SyncFinalized, Answer, WorkerUnchanged, log
<1> QED BY <1>3, <1>4, <1>5, <1>6, <1>7, <1>8, <1>9, <1>10, <1>11, <1>12, <1>13, <1>14, <1>15,
           EachStep DEF Fails

\* A faultless call ends with its batch, and a store that opens has replayed its journal.
LEMMA NothingIsLeftBehindKept ==
    ASSUME Faultless, Control, NothingIsLeftBehind, [Next]_vars
    PROVE  NothingIsLeftBehind'
<1>1. TypeOK /\ PhasesAreOrderly BY DEF Control
<1>2. CASE OpenStore
  <2>1. mode = "resuming" /\ index'.batches = {} /\ task' = Idle /\ mode' = "up" BY <1>2, OpeningIsQuiet
  <2>2. index'.open = {} BY <1>1, <1>2, <2>1, OpenIndex DEF NothingIsLeftBehind
  <2>3. task'.step \notin BeforeRows BY <2>1, IdleTyped DEF BeforeRows
  <2> QED BY <2>1, <2>2, <2>3 DEF NothingIsLeftBehind
<1>3. ASSUME mode' = "resuming"
      PROVE  index'.open = {}
  <2>1. CASE Recover BY <1>1, <2>1, RecoverIndex
  <2>2. CASE ~Recover
    <3>1. mode = "resuming" BY <1>3, <2>2, ModeSteps DEF OpenStore
    <3> QED BY <1>3, <2>2, <3>1, OpenSteps DEF NothingIsLeftBehind
  <2> QED BY <2>1, <2>2
<1>4. ASSUME mode' = "up", ~OpenStore
      PROVE  /\ index'.open \subseteq writer'
             /\ index'.batches \subseteq IF task'.step \in InBatch THEN {task'.batch} ELSE {}
             /\ task'.step \in BeforeRows => ~Blocked(index', Current')
  <2>1. mode = "up" /\ ~PowerLoss /\ ~Recover BY <1>4, StaysUp
  <2>2. index.open \subseteq writer /\ index'.open \subseteq writer'
    BY <1>4, <2>1, OpenSteps DEF NothingIsLeftBehind
  <2>3. ~RemoveMetadataBlocked
    BY <2>1 DEF RemoveMetadataBlocked, At, NothingIsLeftBehind, BeforeRows
  <2>4. ASSUME NEW b \in index'.batches
        PROVE  task'.step \in InBatch /\ task'.batch = b
    <3>1. CASE JustPrepared(index', b) BY <3>1 DEF JustPrepared, InBatch
    <3>2. CASE Inherited(index', b)
      <4>1. task.step \in InBatch /\ b = task.batch /\ b \in Batches
        BY <1>1, <2>1, <3>2 DEF Inherited, NothingIsLeftBehind, TypeOK, Index
      <4>2. ~Forget
        BY <1>1, <2>4, <4>1, ForgetSteps, ForgottenIndex DEF TypeOK
      <4> QED BY <1>4, <2>1, <2>3, <4>1, <4>2, BatchSteps DEF InBatch
    <3> QED BY <2>1, <2>4, <3>1, <3>2, IndexJournal
  <2>5. ASSUME task'.step \in BeforeRows, task.step \in InBatch
        PROVE  ~Blocked(index', Current')
    <3>1. ~Forget BY <1>1, <2>5, ForgetTask DEF BeforeRows
    <3>2. index' = index /\ task'.batch = task.batch /\ task.step \in BeforeRows
      BY <1>4, <2>1, <2>3, <2>5, <3>1, BatchSteps DEF BeforeRows
    <3>3. Current' = Current BY <3>2 DEF Current
    <3> QED BY <2>1, <3>2, <3>3 DEF NothingIsLeftBehind
  <2>6. ASSUME task'.step \in BeforeRows, task.step \notin InBatch
        PROVE  ~Blocked(index', Current')
    <3>1. SyncStaged /\ Waiting => task.step = "stage" BY DEF SyncStaged, Running, Waiting
    <3>2. ~\E b \in Batches : Resume(b)
      BY <1>1, <2>1 DEF Resume, Doing, PhasesAreOrderly
    <3>3. CheckpointJournal => task.step = "checkpoint" BY DEF CheckpointJournal, At
    <3>4. task'.batch \in Batches
      BY <2>6, ControlKept DEF Control, TaskIsJournaled, InBatch, BeforeRows, TypeOK, Index
    <3>5. Reclaims \/ FlushAndPrepare(task'.batch)
      BY <2>6, <3>1, <3>2, <3>3, <3>4, TaskEntries DEF InBatch, BeforeRows
    <3> QED BY <1>1, <2>1, <2>2, <3>4, <3>5, NewBatchIsFree DEF Control
  <2> QED BY <2>2, <2>4, <2>5, <2>6
<1> QED BY <1>2, <1>3, <1>4 DEF NothingIsLeftBehind

\* Only a pin that has flushed makes a promise.
LEMMA PromiseSteps ==
    ASSUME Control, [Next]_vars
    PROVE  \/ promises'.pinned \subseteq promises.pinned
           \/ /\ FlushAndPin
              /\ promises'.pinned = promises.pinned \union (index'.pins \intersect {task.arg})
<1>1. TypeOK /\ PhasesAreOrderly /\ promises \in [pinned : SUBSET Segments, deleted : SUBSET Sessions]
  BY DEF Control, TypeOK
<1>2. CASE UNCHANGED promises BY <1>2
<1>3. CASE Begins BY <1>1, <1>3, BeginTask
<1>4. CASE Flushes
  BY <1>1, <1>4 DEF Flushes, FlushAndPin, Unpin, Decide, FlushFails, ghosts
<1>5. CASE (\E b \in Batches : FlushAndPrepare(b) \/ Resume(b)) \/ Reclaims \/ Forget
  BY <1>1, <1>2, <1>5, DeleteTask, ResumeTask, ReclaimTask, ForgetTask DEF ghosts
<1>6. CASE RemoveMetadata
  <2>1. promises' = [promises EXCEPT !.pinned =
                        IF Current.session = None THEN @ ELSE @ \ Of(Current.session)]
    BY <1>6 DEF RemoveMetadata
  <2> QED BY <1>1, <2>1
<1>7. CASE DeleteDone BY <1>1, <1>7 DEF DeleteDone
<1>8. CASE CheckpointJournal \/ Fails \/ Cancel \/ AppendFrame \/ EnforceDone
             \/ (\E x \in Sessions : MarkDeleted(x)) \/ (\E a \in Artifacts : PublishArtifact(a))
  BY <1>2, <1>8
     DEF CheckpointJournal, Fails, RemoveMetadataBlocked, StepFails, Cancel, AppendFrame,
         EnforceDone, MarkDeleted, PublishArtifact, ghosts
<1>9. CASE (\E o \in Objects : StageObject(o) \/ UnlinkObject(o)) \/ SyncStaged \/ SyncFinalized
             \/ WorkerFails
  BY <1>2, <1>9
     DEF StageObject, UnlinkObject, SyncStaged, SyncFinalized, Answer, WorkerFails,
         WorkerUnchanged, ghosts
<1>10. CASE Crash \/ PowerLoss \/ Recover \/ OpenStore
  BY <1>2, <1>10 DEF Crash, PowerLoss, Stop, Recover, OpenStore, ghosts
<1> QED BY <1>2, <1>3, <1>4, <1>5, <1>6, <1>7, <1>8, <1>9, <1>10, EachStep DEF vars, ghosts, Ends

\* An unpin that has not written yet has just begun, and given its promise up, or has
\* not moved.
LEMMA UnpinSteps ==
    ASSUME Control, [Next]_vars, task'.name = "unpin", task'.step = "flush"
    PROVE  task' = task \/ task'.arg \notin promises'.pinned
<1>1. TypeOK /\ PhasesAreOrderly /\ promises \in [pinned : SUBSET Segments, deleted : SUBSET Sessions]
  BY DEF Control, TypeOK
<1>2. ~(task' = Idle) BY IdleTyped
<1>3. CASE Begins
  BY <1>1, <1>3
     DEF Begins, Begin, BeginAppend, BeginPin, BeginUnpin, BeginDelete, BeginEnforce
<1>4. CASE Flushes
  <2>1. task.name # "unpin" \/ ~FlushAndPin BY DEF FlushAndPin, Doing
  <2>2. task' \in Tasks /\ task'.name = task.name /\ task'.step \in {"decide", "walk"}
    BY <1>1, <1>2, <1>4, FlushTask
  <2> QED BY <2>2
<1>5. ~(\E b \in Batches : FlushAndPrepare(b) \/ Resume(b)) /\ ~Reclaims /\ ~Forget
  BY <1>1, DeleteTask, ResumeTask, ReclaimTask, ForgetTask
<1>6. ~RemoveMetadata /\ ~CheckpointJournal /\ ~Fails
  BY <1>1, <1>2, RemoveTask, CheckpointTask, FailTask DEF Control
<1>7. CASE Cancel \/ AppendFrame \/ Ends \/ (\E x \in Sessions : MarkDeleted(x))
             \/ (\E a \in Artifacts : PublishArtifact(a))
  BY <1>2, <1>7
     DEF Cancel, AppendFrame, Ends, EnforceDone, DeleteDone, WalkOver, MarkDeleted, PublishArtifact
<1>8. CASE (\E o \in Objects : StageObject(o) \/ UnlinkObject(o)) \/ WorkerFails
  BY <1>1, <1>2, <1>8, FailedJob DEF StageObject, UnlinkObject
<1>9. CASE SyncStaged \/ SyncFinalized
  <2>1. {"metadata", "forget"} \subseteq Steps BY DEF Steps
  <2> QED BY <1>1, <1>9, <2>1, AnswerTask DEF SyncStaged, SyncFinalized, Running
<1>10. ~Crash /\ ~PowerLoss /\ ~Recover /\ ~OpenStore
  BY <1>2 DEF Crash, PowerLoss, Stop, Recover, OpenStore
<1> QED BY <1>3, <1>4, <1>5, <1>6, <1>7, <1>8, <1>9, <1>10, EachStep DEF vars

\* No step promises a pin again while an unpin of it waits.
LEMMA UnpinnedIsReleasedKept ==
    ASSUME Control, UnpinnedIsReleased, [Next]_vars
    PROVE  UnpinnedIsReleased'
<1>1. SUFFICES ASSUME task'.name = "unpin", task'.step = "flush", task' = task
               PROVE  task'.arg \notin promises'.pinned
  BY UnpinSteps DEF UnpinnedIsReleased
<1>2. ~FlushAndPin BY <1>1 DEF FlushAndPin, Doing
<1> QED BY <1>1, <1>2, PromiseSteps DEF UnpinnedIsReleased

\* A pin that is kept is kept by every step, until it is given up or its session's
\* deletion is asked for.
LEMMA KeptStays ==
    ASSUME Faultless, IInv, PinInv, [Next]_vars, NEW s \in Segments, Kept(s),
           s \in promises.pinned, SessionOf[s] \notin requested
    PROVE  Kept(s)'
<1>1. /\ Control /\ BornFirst /\ Asked /\ index \in Surviving /\ TypeOK
      /\ PinsAreSealed /\ UnpinnedIsReleased
  BY WholeParts DEF IInv, PinInv
<1>2. s \in Objects /\ s \notin Artifacts /\ s \in index.pins BY <1>1, JournalAssumption DEF Objects, Kept
<1>3. \A b \in index.batches : s \notin index.batch[b].objects BY <1>1 DEF Kept
<1>4. place'[s] = "live" /\ synced'[s] = "live"
  <2>1. Fates(s) BY <1>1, <1>2, ObjectFates
  <2>2. StageObject(s) => work # <<>> /\ s \in Job.todo BY DEF StageObject, Running
  <2>3. UnlinkObject(s) \/ SyncStaged \/ SyncFinalized => work # <<>>
    BY DEF UnlinkObject, SyncStaged, SyncFinalized, Running
  <2>4. ~StageObject(s) BY <1>1, <1>3, <2>2, JobIsOne
  <2>5. place[s] = "live" /\ synced[s] = "live" BY DEF Kept
  <2> QED BY <1>1, <1>2, <2>1, <2>3, <2>4, <2>5, JobIsOne DEF Fates
<1>5. ASSUME NEW d \in Surviving' PROVE s \in d.pins
  <2>1. ~(Unpin /\ s = task.arg) BY <1>1 DEF Unpin, Doing, UnpinnedIsReleased
  <2>2. ~(RemoveMetadata /\ OfCurrent(s))
    <3>1. SUFFICES ASSUME RemoveMetadata, OfCurrent(s) PROVE FALSE OBVIOUS
    <3>2. task.batch \in index.batches
      BY <1>1, <3>1, RemoveTask DEF Control, TaskIsJournaled, InBatch
    <3>3. Current.session # None => Current.session \in requested
      BY <1>1, <3>2 DEF Current, Asked, SessionsWereAsked
    <3> QED BY <1>3, <3>1, <3>2, <3>3 DEF OfCurrent, Current
  <2>3. place[s] = "live" /\ (d \in Surviving => s \in d.pins) BY DEF Kept
  <2> QED BY <1>1, <1>2, <2>1, <2>2, <2>3, SurvivorPins DEF PinChanges
<1>6. ASSUME NEW d \in Surviving', NEW b \in d.batches PROVE s \notin d.batch[b].objects
  <2>1. CASE d \in Surviving BY <2>1 DEF Kept
  <2>2. CASE Inherited(d, b) BY <1>3, <2>2 DEF Inherited, SameBatch
  <2>3. CASE JustPrepared(d, b)
    <3>1. d = index' /\ b \in Batches BY <2>3 DEF JustPrepared, Free
    <3> QED BY <1>1, <1>2, <2>3, <3>1, NewBatchSparesPins
  <2> QED BY <1>1, <2>1, <2>2, <2>3, SurvivorJournals
<1> QED BY <1>4, <1>5, <1>6 DEF Kept

\* A pin that has just been promised is kept: no batch is under way, its rows have been
\* forced with the checkpoint of the flush, and its file was there.
LEMMA NewPinIsKept ==
    ASSUME Faultless, IInv, PinInv, [Next]_vars, FlushAndPin, NEW s \in Segments,
           s = task.arg, s \in index'.pins
    PROVE  Kept(s)'
<1>1. /\ Control /\ RowsAreBacked /\ TypeOK /\ PhasesAreOrderly
      /\ PinsAreSealed /\ NothingIsLeftBehind /\ LiveIsForced
  BY WholeParts DEF IInv, PinInv, Control
<1>2. Flushes BY DEF Flushes
<1>3. mode = "up" /\ UNCHANGED files BY <1>1, <1>2, FlushTask
<1>4. index.batches = {}
  BY <1>1, <1>3 DEF FlushAndPin, Doing, NothingIsLeftBehind, InBatch
<1>5. Retouched(index, index') BY <1>1, FlushRetouches
<1>6. s \in index.open \union index.sealed
  <2>1. index'.pins \subseteq index.pins \union index'.sealed BY <1>1, <1>2, FlushPins
  <2>2. index.pins \subseteq index.sealed BY <1>1 DEF PinsAreSealed, Surviving
  <2> QED BY <1>5, <2>1, <2>2 DEF Retouched
<1>7. Claimed(index) = {} BY <1>4 DEF Claimed
<1>8. place[s] = "live" BY <1>1, <1>3, <1>6, <1>7 DEF RowsAreBacked
<1>9. place'[s] = "live" /\ synced'[s] = "live" BY <1>1, <1>3, <1>8 DEF files, LiveIsForced, Objects
<1>10. Surviving' = {index'} BY DEF FlushAndPin, CommitAndCheckpoint, Surviving
<1>11. index'.batches = {} BY <1>4, <1>5 DEF Retouched
<1> QED BY <1>9, <1>10, <1>11 DEF Kept

\* The invariant of the pins holds in a new store.
LEMMA PinsStart ==
    ASSUME Init
    PROVE  PinInv
<1>1. /\ mode = "up" /\ task = Idle /\ promises.pinned = {} /\ Surviving = {index}
      /\ index.open = {} /\ index.batches = {} /\ index.pins = {}
      /\ place = [o \in Objects |-> "absent"]
  BY DEF Init, Surviving
<1>2. task.name = "none" /\ task.step = "idle" BY <1>1, IdleTyped
<1>3. NothingIsLeftBehind BY <1>1, <1>2 DEF NothingIsLeftBehind, BeforeRows
<1>4. LiveIsForced /\ PinsAreSealed BY <1>1 DEF LiveIsForced, PinsAreSealed
<1>5. UnpinnedIsReleased /\ PinsAreKept BY <1>1, <1>2 DEF UnpinnedIsReleased, PinsAreKept
<1> QED BY <1>3, <1>4, <1>5 DEF PinInv

\* Every step of a faultless store keeps it.
LEMMA PinsStay ==
    ASSUME Faultless, IInv, PinInv, [Next]_vars
    PROVE  PinInv'
<1>1. /\ Control /\ BornFirst /\ TypeOK
      /\ NothingIsLeftBehind /\ LiveIsForced /\ PinsAreSealed /\ UnpinnedIsReleased /\ PinsAreKept
  BY WholeParts DEF IInv, PinInv
<1>2. NothingIsLeftBehind' BY <1>1, NothingIsLeftBehindKept
<1>3. LiveIsForced' BY <1>1, LiveIsForcedKept
<1>4. PinsAreSealed' BY <1>1, SurvivorPins DEF PinsAreSealed, PinChanges
<1>5. UnpinnedIsReleased' BY <1>1, UnpinnedIsReleasedKept
<1>6. ASSUME NEW s \in promises'.pinned, SessionOf[s] \notin requested'
      PROVE  Kept(s)'
  <2>1. s \in Segments /\ SessionOf[s] \notin requested
    <3>1. TypeOK' BY <1>1, ControlKept DEF Control
    <3>2. requested \subseteq requested' BY <1>1, Registers
    <3> QED BY <1>6, <3>1, <3>2 DEF TypeOK
  <2>2. CASE s \in promises.pinned
    <3>1. Kept(s) BY <1>1, <2>1, <2>2 DEF PinsAreKept
    <3> QED BY <2>1, <2>2, <3>1, KeptStays
  <2>3. CASE s \notin promises.pinned
    <3>1. FlushAndPin /\ s = task.arg /\ s \in index'.pins BY <1>1, <1>6, <2>3, PromiseSteps
    <3> QED BY <2>1, <3>1, NewPinIsKept
  <2> QED BY <2>2, <2>3
<1>7. PinsAreKept' BY <1>6 DEF PinsAreKept
<1> QED BY <1>2, <1>3, <1>4, <1>5, <1>7 DEF PinInv

(* A segment that pin_range has promised to keep stays indexed and readable until it    *)
(* is unpinned or its session's deletion is asked for, whatever evictions, crashes and  *)
(* losses of power follow, in a store whose steps neither fail nor are dropped (the     *)
(* candidate query, the flush of pin, the replay and the recovery of the segments).     *)
THEOREM PinsAreHonoured ==
    ASSUME Faultless
    PROVE  Spec => []PinnedEvidenceSurvives
<1>1. Init => IInv /\ PinInv BY InvariantStarts, PinsStart
<1>2. IInv /\ PinInv /\ [Next]_vars => (IInv /\ PinInv)' BY InvariantKept, PinsStay
<1>3. IInv /\ PinInv => PinnedEvidenceSurvives
  BY WholeParts DEF IInv, PinInv, PinsAreKept, Kept, PinsAreSealed, PinnedEvidenceSurvives
<1> QED BY <1>1, <1>2, <1>3, PTL DEF Spec
=============================================================================
