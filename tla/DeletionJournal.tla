---------------------------- MODULE DeletionJournal ----------------------------
(* How the recording store removes evidence: eviction and session deletion,    *)
(* the journal of deletion batches in the SQLite index, the removal worker     *)
(* that moves files into .trash and unlinks them there, pins, and the replay   *)
(* of unfinished batches when the store is opened again.                       *)
(*                                                                             *)
(* One task at a time holds the mutation gate; dropping its future opens the   *)
(* gate while the worker still runs what it was sent, and a failed step leaves *)
(* its batch in the journal.  Which object a walk takes next and when it stops *)
(* is the retention policy's business, so a walk here takes any candidate the  *)
(* queries admit.  Segments stand for their frames and publication for one     *)
(* step; both have modules of their own.                                       *)
EXTENDS Naturals, Sequences

CONSTANTS
    Segments, Artifacts, Sessions,
    Batches,            \* batch ids; a forgotten batch's id stands for a fresh one
    SessionOf,          \* the session of a segment or artifact
    Sources,            \* the segments an artifact was made from
    MaxFailures,        \* failed I/O, transactions and checkpoints
    MaxCancels,         \* dropped task futures
    MaxCrashes,
    MaxPowerLosses,
    MaxMishaps,         \* all four kinds together
    None

Objects == Segments \union Artifacts

ASSUME JournalAssumption ==
    /\ Segments \intersect Artifacts = {}
    /\ SessionOf \in [Objects -> Sessions]
    /\ Sources \in [Artifacts -> SUBSET Segments]
    /\ \A a \in Artifacts : /\ Sources[a] # {}
                            /\ \A s \in Sources[a] : SessionOf[s] = SessionOf[a]
    /\ Batches \intersect {None, "absent", "live"} = {}
    /\ None \notin Objects \union Sessions

VARIABLES
    mode,       \* "up", "down" or "resuming"
    index,      \* the committed index
    older,      \* earlier index states power loss may fall back to
    place,      \* where each object's file is: "absent", "live" or a batch's directory
    synced,     \* where power loss would leave it
    writer,     \* open segments in the segment writer's hands
    fenced,     \* sessions marked deleted in memory
    task,       \* the holder of the mutation gate
    work,       \* the removal worker's command channel, its head in progress
    ended,      \* sessions recorded before the last stop; nobody records to them
    born,       \* objects ever created
    promises,   \* what callers were told: pins that hold, sessions deleted
    requested,  \* sessions whose deletion was asked for
    unresumed,  \* a replay failed on a constraint, not on a fault
    spent

files == <<place, synced>>
log == <<index, older>>
ghosts == <<ended, born, promises, requested, unresumed>>
vars == <<mode, log, files, writer, fenced, task, work, ghosts, spent>>

-----------------------------------------------------------------------------
(* Data *)

Batch == [kind : {"eviction", "session"}, session : Sessions \union {None},
          state : {"prepared", "removed"}, objects : SUBSET Objects]

NoBatch == [kind |-> "eviction", session |-> None, state |-> "removed", objects |-> {}]

Index == [open : SUBSET Segments, sealed : SUBSET Segments,
          artifacts : SUBSET Artifacts,
          pins : SUBSET Segments,           \* segments with a pin_segments row
          usage : SUBSET Objects,
          tombstones : SUBSET Segments,     \* segments in an evicted frame range
          catalog : SUBSET Sessions,
          batches : SUBSET Batches,
          batch : [Batches -> Batch]]

Names == {"none", "append", "enforce", "pin", "unpin", "delete", "resume"}

Steps == {"idle", "flush", "decide", "walk", "checkpoint", "stage", "metadata",
          "finalize", "forget"}

Idle == [name |-> "none", arg |-> None, step |-> "idle", batch |-> None]

Rows == index.open \union index.sealed \union index.artifacts
Of(x) == {o \in Objects : SessionOf[o] = x}
LinkedTo(s) == {a \in index.artifacts : s \in Sources[a]}
Journal == {index.batch[b] : b \in index.batches}
Current == index.batch[task.batch]
Free == {b \in Batches \ index.batches :
            /\ \A o \in Objects : place[o] # b /\ synced[o] # b
            /\ \A i \in DOMAIN work : work[i].batch # b}

Init ==
    /\ mode = "up"
    /\ index = [open |-> {}, sealed |-> {}, artifacts |-> {}, pins |-> {}, usage |-> {},
                tombstones |-> {}, catalog |-> {}, batches |-> {},
                batch |-> [b \in Batches |-> NoBatch]]
    /\ older = {}
    /\ place = [o \in Objects |-> "absent"]
    /\ synced = place
    /\ writer = {}
    /\ fenced = {}
    /\ task = Idle
    /\ work = <<>>
    /\ ended = {}
    /\ born = {}
    /\ promises = [pinned |-> {}, deleted |-> {}]
    /\ requested = {}
    /\ unresumed = FALSE
    /\ spent = [failures |-> 0, cancels |-> 0, crashes |-> 0, losses |-> 0]

Spend(kind, max) ==
    /\ spent[kind] < max
    /\ spent.failures + spent.cancels + spent.crashes + spent.losses < MaxMishaps
    /\ spent' = [spent EXCEPT ![kind] = @ + 1]

(* A committed transaction outlives the process at once and power loss only    *)
(* after a checkpoint.                                                         *)
Commit(next) ==
    /\ index' = next
    /\ older' = older \union {index}

CommitAndCheckpoint(next) ==
    /\ index' = next
    /\ older' = {}

At(step) == task.step = step
Goto(step) == task' = [task EXCEPT !.step = step]
Doing(name, step) == task.name = name /\ task.step = step

(* A failed task reports its error and lets the gate go; a failed replay fails *)
(* the open.                                                                   *)
GiveUp ==
    /\ task' = Idle
    /\ IF mode = "resuming"
       THEN mode' = "down" /\ work' = <<>>
       ELSE UNCHANGED <<mode, work>>

-----------------------------------------------------------------------------
(* Taking the gate *)

Begin(name, arg, step) ==
    /\ mode = "up"
    /\ task = Idle
    /\ task' = [name |-> name, arg |-> arg, step |-> step, batch |-> None]
    /\ promises' = IF name = "unpin" THEN [promises EXCEPT !.pinned = @ \ {arg}] ELSE promises
    /\ UNCHANGED <<mode, log, files, writer, fenced, work, ended, born, requested,
                   unresumed, spent>>

(* Fault: an append does not look at the deleted sessions.                     *)
BeginAppendUnfenced(s) ==
    /\ s \notin born
    /\ SessionOf[s] \notin ended
    /\ Begin("append", s, "decide")

(* append_frame of the frame that opens segment s.                             *)
BeginAppend(s) ==
    /\ s \notin born
    /\ SessionOf[s] \notin fenced \union ended
    /\ Begin("append", s, "decide")

BeginEnforce == Begin("enforce", None, "decide")

(* pin_range and pin_resolved_range of a range inside segment s.               *)
BeginPin(s) ==
    /\ s \in index.open \union index.sealed
    /\ SessionOf[s] \notin fenced
    /\ Begin("pin", s, "flush")

BeginUnpin(s) ==
    /\ s \in index.pins
    /\ Begin("unpin", s, "flush")

(* delete_session fences the session before it waits for the gate.             *)
MarkDeleted(x) ==
    /\ mode = "up"
    /\ x \notin fenced
    /\ fenced' = fenced \union {x}
    /\ requested' = requested \union {x}
    /\ UNCHANGED <<mode, log, files, writer, task, work, ended, born, promises, unresumed, spent>>

BeginDelete(x) ==
    /\ x \in fenced
    /\ Begin("delete", x, "flush")

(* publish_artifact, in one step: its sources are indexed and readable.        *)
PublishArtifact(a) ==
    /\ mode = "up"
    /\ task = Idle
    /\ a \notin born
    /\ SessionOf[a] \notin fenced
    /\ Sources[a] \subseteq index.open \union index.sealed
    /\ \A s \in Sources[a] : place[s] = "live"
    /\ Commit([index EXCEPT !.artifacts = @ \union {a}, !.usage = @ \union {a}])
    /\ place' = [place EXCEPT ![a] = "live"]
    /\ synced' = [synced EXCEPT ![a] = "live"]
    /\ born' = born \union {a}
    /\ UNCHANGED <<mode, writer, fenced, task, work, ended, promises, requested,
                   unresumed, spent>>

-----------------------------------------------------------------------------
(* Flushing before the task looks at sealed segments *)

Flushed == CASE task.name \in {"pin", "delete"} -> writer \intersect
                    (IF task.name = "pin" THEN Of(SessionOf[task.arg]) ELSE Of(task.arg))
             [] task.name = "unpin" -> {}
             [] OTHER -> writer

Sealing(d, S) == [d EXCEPT !.open = @ \ S, !.sealed = @ \union (d.open \intersect S)]

(* What follows the flush: the pin rows are written, a deletion collects the   *)
(* session's sealed segments and artifacts, an enforcement starts its walk.    *)
PinRows(d) == IF task.arg \in d.sealed THEN [d EXCEPT !.pins = @ \union {task.arg}] ELSE d

Unpinned(d) == [d EXCEPT !.pins = @ \ {task.arg}]

FlushStep ==
    \/ At("flush") /\ task.name \in {"pin", "unpin", "delete"}
    \/ At("decide")

Prepared(d, b, kind, x, objects) ==
    [d EXCEPT !.batches = @ \union {b},
              !.batch[b] = [kind |-> kind, session |-> x, state |-> "prepared",
                            objects |-> objects]]

FlushAndPin ==
    /\ Doing("pin", "flush")
    /\ CommitAndCheckpoint(PinRows(Sealing(index, Flushed)))
    /\ promises' = [promises EXCEPT !.pinned = @ \union (index'.pins \intersect {task.arg})]
    /\ IF task.arg \in index'.sealed THEN Goto("decide") ELSE task' = Idle
    /\ writer' = writer \ Flushed
    /\ UNCHANGED <<mode, files, fenced, work, ended, born, requested, unresumed, spent>>

Unpin ==
    /\ Doing("unpin", "flush")
    /\ CommitAndCheckpoint(Unpinned(index))
    /\ Goto("decide")
    /\ UNCHANGED <<mode, files, writer, fenced, work, ghosts, spent>>

(* session_segments takes sealed rows only.                                    *)
FlushAndPrepare(b) ==
    /\ Doing("delete", "flush")
    /\ b \in Free
    /\ LET flushed == Sealing(index, Flushed)
           objects == Of(task.arg) \intersect (flushed.sealed \union flushed.artifacts) IN
       /\ index' = Prepared(flushed, b, "session", task.arg, objects)
       /\ older' = {flushed}
    /\ task' = [task EXCEPT !.step = "checkpoint", !.batch = b]
    /\ writer' = writer \ Flushed
    /\ UNCHANGED <<mode, files, fenced, work, ghosts, spent>>

(* enforce_locked and ensure_append_capacity flush everything when they are    *)
(* over budget, and do not when they are not.                                  *)
Decide(pressed) ==
    /\ At("decide")
    /\ IF pressed
       THEN CommitAndCheckpoint(Sealing(index, writer)) /\ writer' = {}
       ELSE UNCHANGED <<log, writer>>
    /\ Goto("walk")
    /\ UNCHANGED <<mode, files, fenced, work, ghosts, spent>>

(* A flush that fails before its registration commits has taken some segments  *)
(* from the writer whose seals the index will not learn of while the store is  *)
(* open (see SegmentStore); what fails afterwards finds it committed.          *)
FlushFails(T) ==
    /\ FlushStep
    /\ T \subseteq Flushed
    /\ Spend("failures", MaxFailures)
    /\ writer' = writer \ T
    /\ \/ UNCHANGED log
       \/ /\ T = Flushed
          /\ \/ Commit(Sealing(index, T))
             \/ Doing("pin", "flush") /\ Commit(PinRows(Sealing(index, T)))
             \/ Doing("unpin", "flush") /\ Commit(Unpinned(index))
    /\ GiveUp
    /\ UNCHANGED <<files, fenced, ghosts>>

-----------------------------------------------------------------------------
(* remove_objects *)

Prepare(kind, x, objects) ==
    \E b \in Free :
        /\ Commit(Prepared(index, b, kind, x, objects))
        /\ task' = [task EXCEPT !.step = "checkpoint", !.batch = b]
        /\ UNCHANGED <<mode, files, writer, fenced, work, ghosts, spent>>

ReclaimArtifact(a) ==
    /\ At("walk") /\ mode = "up"
    /\ a \in index.artifacts
    /\ Prepare("eviction", None, {a})

(* Fault: the candidate query forgets the pins.                                *)
ReclaimSegmentThoughPinned(s) ==
    /\ At("walk") /\ mode = "up"
    /\ s \in index.sealed
    /\ Prepare("eviction", None, {s} \union LinkedTo(s))

ReclaimSegment(s) ==
    /\ At("walk") /\ mode = "up"
    /\ s \in index.sealed \ index.pins
    /\ Prepare("eviction", None, {s} \union LinkedTo(s))

Send(cmd, b) == work' = Append(work, [cmd |-> cmd, batch |-> b, todo |-> index.batch[b].objects])

(* Fault: files move while the journal entry may still be lost.                *)
CheckpointSkipped ==
    /\ At("checkpoint")
    /\ Send("stage", task.batch)
    /\ Goto("stage")
    /\ UNCHANGED <<mode, log, files, writer, fenced, ghosts, spent>>

(* The prepared journal is forced to disk before any file moves.               *)
CheckpointJournal ==
    /\ At("checkpoint")
    /\ older' = {}
    /\ Send("stage", task.batch)
    /\ Goto("stage")
    /\ UNCHANGED <<mode, index, files, writer, fenced, ghosts, spent>>

(* Foreign keys: an artifact outside the batch holds a frame of the batch, or  *)
(* a segment outside it holds the session's targets.                           *)
Blocked(d, batch) ==
    \/ \E a \in d.artifacts \ batch.objects : Sources[a] \intersect batch.objects # {}
    \/ /\ batch.session # None
       /\ \E s \in (d.open \union d.sealed) \ batch.objects : SessionOf[s] = batch.session

(* Fault: a segment's batch removes the segment and not the linked artifacts.  *)
StrippedOfSegments(d, b) ==
    LET gone == d.batch[b].objects \intersect Segments IN
    [d EXCEPT !.open = @ \ gone,
              !.sealed = @ \ gone,
              !.pins = @ \ gone,
              !.tombstones = @ \union gone,
              !.batch[b].state = "removed"]

(* Fault: only the artifacts of a batch lose their rows.                       *)
StrippedOfArtifacts(d, b) ==
    [d EXCEPT !.artifacts = @ \ d.batch[b].objects,
              !.batch[b].state = "removed"]

(* remove_deletion_metadata.                                                   *)
Stripped(d, b) ==
    LET batch == d.batch[b]
        gone == batch.objects
        dead == IF batch.session = None THEN {} ELSE Of(batch.session)
        buried == IF batch.kind = "eviction"
                  THEN gone \intersect (d.open \union d.sealed) ELSE {} IN
    [d EXCEPT !.open = @ \ gone,
              !.sealed = @ \ gone,
              !.artifacts = @ \ (gone \union dead),
              !.pins = @ \ (gone \union dead),
              !.tombstones = (@ \union buried) \ dead,
              !.catalog = @ \ {batch.session},
              !.batch[b].state = "removed"]

RemoveMetadata ==
    /\ At("metadata")
    /\ ~Blocked(index, Current)
    /\ Commit(Stripped(index, task.batch))
    /\ promises' = [promises EXCEPT !.pinned =
                        IF Current.session = None THEN @ ELSE @ \ Of(Current.session)]
    /\ Send("finalize", task.batch)
    /\ Goto("finalize")
    /\ UNCHANGED <<mode, files, writer, fenced, ended, born, requested, unresumed, spent>>

RemoveMetadataBlocked ==
    /\ At("metadata")
    /\ Blocked(index, Current)
    /\ unresumed' = (unresumed \/ mode = "resuming")
    /\ GiveUp
    /\ UNCHANGED <<log, files, writer, fenced, ended, born, promises, requested, spent>>

(* Fault: the usage rows go, the batch stays in the journal.                   *)
ForgetUsage ==
    /\ At("forget")
    /\ Commit([index EXCEPT !.usage = @ \ Current.objects])
    /\ task' = [task EXCEPT !.batch = None, !.step = "walk"]
    /\ UNCHANGED <<mode, files, writer, fenced, work, ghosts, spent>>

(* finalize_deletion, and back to the loop that asked for the removal.         *)
Forget ==
    /\ At("forget")
    /\ Commit([index EXCEPT !.usage = @ \ (Current.objects \union
                                  (IF Current.session = None THEN {} ELSE Of(Current.session))),
                            !.batches = @ \ {task.batch},
                            !.batch[task.batch] = NoBatch])
    /\ task' = [task EXCEPT !.batch = None,
                            !.step = IF Doing("delete", "forget") /\ Current.kind = "session"
                                     THEN "decide" ELSE "walk"]
    /\ UNCHANGED <<mode, files, writer, fenced, work, ghosts, spent>>

(* A transaction or the checkpoint of the journal fails.                       *)
StepFails ==
    /\ task.step \in {"walk", "checkpoint", "metadata", "forget"}
    /\ Spend("failures", MaxFailures)
    /\ GiveUp
    /\ UNCHANGED <<log, files, writer, fenced, ghosts>>

(* The task's future is dropped at an await: a flush is still carried out, but *)
(* nobody registers it.                                                        *)
Cancel ==
    /\ mode = "up"
    /\ FlushStep \/ task.step \in {"stage", "metadata", "finalize", "forget"}
    /\ Spend("cancels", MaxCancels)
    /\ writer' = IF FlushStep THEN writer \ Flushed ELSE writer
    /\ task' = Idle
    /\ UNCHANGED <<mode, log, files, fenced, work, ghosts>>

-----------------------------------------------------------------------------
(* The end of a walk, and of its task *)

WalkOver(name) == Doing(name, "walk") /\ mode = "up" /\ task' = Idle

AppendFrame ==
    /\ WalkOver("append")
    /\ LET s == task.arg IN
       /\ Commit([index EXCEPT !.open = @ \union {s}, !.usage = @ \union {s},
                               !.catalog = @ \union {SessionOf[s]}])
       /\ place' = [place EXCEPT ![s] = "live"]
       /\ synced' = [synced EXCEPT ![s] = "live"]
       /\ writer' = writer \union {s}
       /\ born' = born \union {s}
    /\ UNCHANGED <<mode, fenced, work, ended, promises, requested, unresumed, spent>>

EnforceDone ==
    /\ \/ WalkOver("enforce") \/ WalkOver("pin") \/ WalkOver("unpin")
    /\ UNCHANGED <<mode, log, files, writer, fenced, work, ghosts, spent>>

DeleteDone ==
    /\ WalkOver("delete")
    /\ promises' = [promises EXCEPT !.deleted = @ \union {task.arg}]
    /\ UNCHANGED <<mode, log, files, writer, fenced, work, ended, born, requested, unresumed, spent>>

-----------------------------------------------------------------------------
(* The removal worker *)

Job == work[1]
Running(cmd) == work # <<>> /\ Job.cmd = cmd
Waiting == task.step = Job.cmd /\ task.batch = Job.batch
WorkerUnchanged == UNCHANGED <<log, writer, fenced, ghosts>>

Handled(o) == work' = [work EXCEPT ![1].todo = @ \ {o}]

(* Artifacts come before the segments of a batch.                              *)
StageObject(o) ==
    /\ Running("stage")
    /\ o \in Job.todo
    /\ o \in Segments => Job.todo \intersect Artifacts = {}
    /\ place' = [place EXCEPT ![o] = IF @ = "live" THEN Job.batch ELSE @]
    /\ Handled(o)
    /\ WorkerUnchanged
    /\ UNCHANGED <<mode, synced, task, spent>>

(* Fault: a file that cannot be unlinked is passed over.                       *)
UnlinkPassedOver(o) ==
    /\ Running("finalize")
    /\ o \in Job.todo
    /\ Handled(o)
    /\ WorkerUnchanged
    /\ UNCHANGED <<mode, files, task, spent>>

UnlinkObject(o) ==
    /\ Running("finalize")
    /\ o \in Job.todo
    /\ place' = [place EXCEPT ![o] = IF @ = Job.batch THEN "absent" ELSE @]
    /\ Handled(o)
    /\ WorkerUnchanged
    /\ UNCHANGED <<mode, synced, task, spent>>

Answer(next) ==
    /\ work' = Tail(work)
    /\ IF Waiting THEN Goto(next) ELSE UNCHANGED task
    /\ WorkerUnchanged
    /\ UNCHANGED <<mode, place, spent>>

(* The live directories and the batch's own are synced, other batches' not.    *)
SyncStaged ==
    /\ Running("stage")
    /\ Job.todo = {}
    /\ synced' = [o \in Objects |->
                    IF place[o] \in {"live", Job.batch} \/ synced[o] = "live"
                    THEN place[o] ELSE synced[o]]
    /\ Answer("metadata")

SyncFinalized ==
    /\ Running("finalize")
    /\ Job.todo = {}
    /\ synced' = [o \in Objects |-> IF synced[o] = Job.batch THEN place[o] ELSE synced[o]]
    /\ Answer("forget")

WorkerFails ==
    /\ work # <<>>
    /\ Spend("failures", MaxFailures)
    /\ IF Waiting THEN task' = Idle ELSE UNCHANGED task
    /\ IF Waiting /\ mode = "resuming"
       THEN mode' = "down" /\ work' = <<>>
       ELSE mode' = mode /\ work' = Tail(work)
    /\ WorkerUnchanged
    /\ UNCHANGED files

-----------------------------------------------------------------------------
(* Stopping and opening again *)

Stop ==
    /\ mode # "down"
    /\ mode' = "down"
    /\ writer' = {}
    /\ fenced' = {}
    /\ task' = Idle
    /\ work' = <<>>
    /\ ended' = ended \union requested \union {SessionOf[o] : o \in born}
    /\ UNCHANGED <<born, promises, requested, unresumed>>

Crash ==
    /\ Stop
    /\ Spend("crashes", MaxCrashes)
    /\ UNCHANGED <<log, files>>

PowerLoss ==
    /\ Stop
    /\ Spend("losses", MaxPowerLosses)
    /\ index' \in older \union {index}
    /\ older' = {}
    /\ \E undone \in SUBSET Objects :
          place' = [o \in Objects |-> IF o \in undone THEN synced[o] ELSE place[o]]
    /\ synced' = place'

(* recover(): rows follow the segment files (SegmentStore has the details).    *)
Recover ==
    /\ mode = "down"
    /\ mode' = "resuming"
    /\ task' = [name |-> "resume", arg |-> None, step |-> "walk", batch |-> None]
    /\ LET found == {s \in Segments : place[s] = "live"}
           lost == (index.open \union index.sealed) \ found
           kept == {a \in index.artifacts : Sources[a] \intersect lost = {}} IN
       Commit([index EXCEPT !.open = {},
                            !.sealed = found,
                            !.artifacts = kept,
                            !.pins = @ \ lost,
                            !.usage = found \union (@ \intersect kept),
                            !.catalog = @ \union {SessionOf[s] : s \in found}])
    /\ UNCHANGED <<files, writer, fenced, work, ghosts, spent>>

(* resume_deletions: the journal in the order of its random ids.               *)
Resume(b) ==
    /\ Doing("resume", "walk")
    /\ b \in index.batches
    /\ LET cmd == IF index.batch[b].state = "prepared" THEN "stage" ELSE "finalize" IN
       /\ Send(cmd, b)
       /\ task' = [task EXCEPT !.step = cmd, !.batch = b]
    /\ UNCHANGED <<mode, log, files, writer, fenced, ghosts, spent>>

(* recover_artifacts: a row without its file goes through the journal too.     *)
InvalidateArtifact(a) ==
    /\ Doing("resume", "walk")
    /\ index.batches = {}
    /\ a \in index.artifacts
    /\ place[a] # "live"
    /\ Prepare("eviction", None, {a})

(* Files nobody indexes are removed, usage follows the rows, the store is up.  *)
OpenStore ==
    /\ Doing("resume", "walk")
    /\ index.batches = {}
    /\ \A a \in index.artifacts : place[a] = "live"
    /\ mode' = "up"
    /\ task' = Idle
    /\ LET swept == [o \in Objects |-> IF o \in Artifacts \ index.artifacts /\ place[o] = "live"
                                       THEN "absent" ELSE place[o]] IN
       /\ place' = swept
       /\ synced' = [o \in Objects |-> IF o \in Artifacts /\ synced[o] = "live"
                                       THEN swept[o] ELSE synced[o]]
    /\ Commit([index EXCEPT !.usage = (@ \ Artifacts) \union index.artifacts])
    /\ UNCHANGED <<writer, fenced, work, ghosts, spent>>

-----------------------------------------------------------------------------

Task ==
    \/ FlushAndPin \/ Unpin \/ CheckpointJournal
    \/ \E b \in Batches : FlushAndPrepare(b) \/ Resume(b)
    \/ \E pressed \in BOOLEAN : Decide(pressed)
    \/ \E a \in Artifacts : ReclaimArtifact(a) \/ InvalidateArtifact(a)
    \/ \E s \in Segments : ReclaimSegment(s)
    \/ RemoveMetadata \/ RemoveMetadataBlocked \/ Forget
    \/ AppendFrame \/ EnforceDone \/ DeleteDone \/ OpenStore

Worker ==
    \/ \E o \in Objects : StageObject(o) \/ UnlinkObject(o)
    \/ SyncStaged \/ SyncFinalized

Calls ==
    \/ \E s \in Segments : BeginAppend(s) \/ BeginPin(s) \/ BeginUnpin(s)
    \/ \E a \in Artifacts : PublishArtifact(a)
    \/ \E x \in Sessions : MarkDeleted(x) \/ BeginDelete(x)
    \/ BeginEnforce

Faults ==
    \/ \E T \in SUBSET Segments : FlushFails(T)
    \/ StepFails \/ Cancel \/ WorkerFails \/ Crash \/ PowerLoss

Next == Task \/ Worker \/ Calls \/ Recover \/ Faults

Spec == Init /\ [][Next]_vars

(* A task's future is polled until it ends, the worker thread runs its queue,  *)
(* and a store that is down is opened again.                                   *)
FairSpec == Spec /\ WF_vars(Task) /\ WF_vars(Worker) /\ WF_vars(Recover)

-----------------------------------------------------------------------------
(* Properties *)

(* The state stays in its domain.                                              *)
TypeOK ==
    /\ mode \in {"up", "down", "resuming"}
    /\ index \in Index
    /\ older \subseteq Index
    /\ place \in [Objects -> Batches \union {"absent", "live"}]
    /\ synced \in [Objects -> Batches \union {"absent", "live"}]
    /\ writer \subseteq Segments
    /\ fenced \subseteq Sessions
    /\ task \in [name : Names, arg : Objects \union Sessions \union {None},
                 step : Steps, batch : Batches \union {None}]
    /\ work \in Seq([cmd : {"stage", "finalize"}, batch : Batches, todo : SUBSET Objects])
    /\ ended \subseteq Sessions
    /\ born \subseteq Objects
    /\ promises \in [pinned : SUBSET Segments, deleted : SUBSET Sessions]
    /\ requested \subseteq Sessions
    /\ unresumed \in BOOLEAN
    /\ spent \in [{"failures", "cancels", "crashes", "losses"} -> Nat]

Held(d, o) == \E b \in d.batches : o \in d.batch[b].objects

(* While the store is open, an index row whose file has left its live          *)
(* directory is in a prepared batch, so the next replay removes it: no row     *)
(* points at nothing, whatever failed or was taken back by power loss before.  *)
RowsHaveFilesOrABatch ==
    mode = "up" => \A o \in Rows :
        place[o] = "live" \/ \E b \in index.batches : /\ o \in index.batch[b].objects
                                                    /\ index.batch[b].state = "prepared"

(* The replay after a crash checkpoints nothing before it stages: power loss   *)
(* can then take back the journal entry and leave the files where they went,   *)
(* which the two properties below except.                                      *)
EntriesWereForced == spent.crashes = 0 \/ spent.losses = 0

(* A file in .trash belongs to a batch the journal still holds, so it is       *)
(* unlinked some day; bytes nobody remembers would be there for ever.          *)
StagedFilesAreJournaled ==
    EntriesWereForced => \A o \in Objects : place[o] \in Batches =>
        /\ place[o] \in index.batches
        /\ o \in index.batch[place[o]].objects

(* The budget counts every file on the disk, in a usage row or as pending      *)
(* deletion.                                                                   *)
FilesAreCounted ==
    mode = "up" /\ EntriesWereForced => \A o \in Objects :
        place[o] # "absent" => o \in index.usage \/ Held(index, o)

(* Once delete_session has returned Ok no row, link, usage row or live file of *)
(* the session exists while the store is open, and no later call, crash, power *)
(* loss or replay brings one back.                                             *)
DeletedSessionsStayDeleted ==
    mode = "up" => \A x \in promises.deleted :
        /\ Of(x) \intersect (Rows \union index.usage \union index.pins
                              \union index.tombstones) = {}
        /\ x \notin index.catalog
        /\ \A o \in Of(x) : place[o] # "live"

(* A segment a successful pin protects stays indexed and readable until it is  *)
(* unpinned or its session's deletion is asked for.                            *)
PinnedEvidenceSurvives ==
    mode = "up" => \A s \in promises.pinned :
        SessionOf[s] \in requested \/ (s \in index.sealed /\ place[s] = "live")

(* Replaying the journal fails for want of a working disk only.                *)
ReplaySucceeds == ~unresumed

(* Every task lets the gate go and a store that is down comes up, once faults  *)
(* have stopped: no walk reclaims the same thing for ever, no command stays    *)
(* unanswered, no replay stays undone.                                         *)
StoreComesToRest == []<>(mode = "up" /\ task = Idle)
=============================================================================
