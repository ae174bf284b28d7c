------------------------------ MODULE SegmentStore ------------------------------
(* The path a frame takes to durable evidence: the recording store's caller,   *)
(* the segment writer's blocking worker, the segment files, the SQLite index,  *)
(* and the recovery pass that reconciles the last two after a stop.            *)
(*                                                                             *)
(* The caller holds the store's mutation gate for a whole call, so there is    *)
(* one call at a time, but its future can be dropped: the writer still runs    *)
(* what it was sent, and the next call queues behind it.  File contents and    *)
(* directory entries exist twice, as the running system sees them and as power *)
(* loss would leave them (kept, tailKept, dname); so does the index, whose     *)
(* write-ahead log is forced to disk only by a checkpoint (past).              *)
(*                                                                             *)
(* A segment is named after the frame it was opened for, which stands for the  *)
(* fresh UUID of create_open_file.                                             *)
EXTENDS Naturals, Sequences, FiniteSets

CONSTANTS
    Keys,               \* (session, target) pairs
    Sessions,           \* the sets of keys a flush may name
    MaxFrames,          \* frames ever offered
    MaxFaults,          \* I/O and transaction failures
    MaxCancels,         \* dropped caller futures
    MaxProcessCrashes,
    MaxPowerLosses,
    MaxDamage,          \* files damaged from outside while the store is down
    MaxDisasters,       \* power losses and damaged files together
    NoKey

ASSUME StoreAssumption ==
    /\ MaxFrames \in Nat
    /\ Sessions \subseteq SUBSET Keys
    /\ NoKey \notin Keys

Frames == 1 .. MaxFrames
Segs == Frames
NoSeg == 0
NoFrame == 0
NoAddress == [seg |-> NoSeg, pos |-> 0]
Addresses == [seg : Segs, pos : Nat] \union {NoAddress}

VARIABLES
    phase,      \* "up", "down", or the recovery phase "sealing" / "indexing"
    disk,       \* segment files
    open,       \* the worker's open_segments: key -> segment or NoSeg
    terminal,   \* the worker's latched terminal error
    work,       \* the command the worker executes and how far it is
    queue,      \* the worker's command channel
    caller,     \* the call that holds the mutation gate
    db,         \* the committed index
    past,       \* the index states power loss may fall back to
    pending,    \* recovery: segments still to reconcile
    repaired,   \* recovery: segments whose damaged tail this pass cut
    offered,    \* number of frames offered so far
    acked,      \* frames whose append returned Ok (power loss voids the unflushed)
    safe,       \* frames covered by a flush that returned Ok
    mine,       \* segments created since the store was opened
    spent       \* faults, cancellations, crashes and damage used up

index == <<db, past>>
ghosts == <<acked, safe>>
recovery == <<pending, repaired>>
vars == <<phase, disk, open, terminal, work, queue, caller, index, recovery,
          offered, ghosts, mine, spent>>

-----------------------------------------------------------------------------
(* Data *)

Tails == {"clean", "torn", "footer"}

File == [name : {"none", "open", "sealed", "corrupt"},
         dname : {"none", "open", "sealed", "corrupt"},
         key : Keys \union {NoKey},
         hdr : BOOLEAN,             \* the header decodes
         recs : Seq(Frames),        \* its complete records
         kept : Nat,                \* how many of them power loss keeps
         tail : Tails,
         tailKept : BOOLEAN]        \* power loss keeps the footer

NoFile == [name |-> "none", dname |-> "none", key |-> NoKey, hdr |-> FALSE,
           recs |-> <<>>, kept |-> 0, tail |-> "clean", tailKept |-> FALSE]

Command == [op : {"none", "append", "flush"}, frame : Frames \union {NoFrame},
            keys : SUBSET Keys, wanted : BOOLEAN]

NoCommand == [op |-> "none", frame |-> NoFrame, keys |-> {}, wanted |-> FALSE]

Index == [row : [Segs -> {"none", "open", "sealed"}], cnt : [Segs -> Nat],
          at : [Frames -> Addresses]]

IdleWork == [pc |-> "idle", cmd |-> NoCommand, seg |-> NoSeg,
             todo |-> {}, sealed |-> {}]

IdleCaller == [pc |-> "idle", op |-> "none", frame |-> NoFrame, keys |-> {},
               sealed |-> {}, at |-> NoAddress]

Address(s, n) == [seg |-> s, pos |-> n]
Indexed == {f \in Frames : db.at[f] # NoAddress}
RowsOf(s) == {f \in Frames : db.at[f].seg = s}
Holds(file, f) == \E n \in 1 .. Len(file.recs) : file.recs[n] = f
NoSpending == [faults |-> 0, cancels |-> 0, crashes |-> 0, losses |-> 0, damage |-> 0]

Init ==
    /\ phase = "up"
    /\ disk = [s \in Segs |-> NoFile]
    /\ open = [k \in Keys |-> NoSeg]
    /\ terminal = FALSE
    /\ work = IdleWork
    /\ queue = <<>>
    /\ caller = IdleCaller
    /\ db = [row |-> [s \in Segs |-> "none"], cnt |-> [s \in Segs |-> 0],
             at |-> [f \in Frames |-> NoAddress]]
    /\ past = {db}
    /\ pending = {}
    /\ repaired = {}
    /\ offered = 0
    /\ acked = {}
    /\ safe = {}
    /\ mine = {}
    /\ spent = NoSpending

-----------------------------------------------------------------------------
(* The caller *)

Spend(kind, max) ==
    /\ spent[kind] < max
    /\ spent' = [spent EXCEPT ![kind] = @ + 1]

Fault == Spend("faults", MaxFaults)

Disaster(kind, max) ==
    /\ spent.losses + spent.damage < MaxDisasters
    /\ Spend(kind, max)

(* A transaction commits; its WAL frames reach the disk only if a checkpoint   *)
(* happens to run (checkpoint_if_wal_exceeds, SQLite's own).                   *)
Commit(next) ==
    /\ db' = next
    /\ past' \in {past \union {next}, {next}}

Call(op, f, keys) ==
    /\ phase = "up"
    /\ caller.pc = "idle"
    /\ queue' = Append(queue, [op |-> op, frame |-> f, keys |-> keys, wanted |-> TRUE])
    /\ caller' = [IdleCaller EXCEPT !.pc = "waiting", !.op = op, !.frame = f, !.keys = keys]
    /\ UNCHANGED <<phase, disk, open, terminal, work, index, recovery, ghosts,
                   mine, spent>>

(* append_frame, up to the writer's answer.                                    *)
AppendFrame(k) ==
    /\ offered < MaxFrames
    /\ offered' = offered + 1
    /\ Call("append", offered + 1, {k})

(* flush_session for one session, flush_all for all keys.                      *)
FlushKeys(keys) ==
    /\ Call("flush", NoFrame, keys)
    /\ UNCHANGED offered

(* The caller's future is dropped: the gate opens, the command stays queued.   *)
Unwanted(cmd) == [cmd EXCEPT !.wanted = FALSE]

Cancel ==
    /\ caller.pc # "idle"
    /\ Spend("cancels", MaxCancels)
    /\ caller' = IdleCaller
    /\ queue' = [i \in DOMAIN queue |-> Unwanted(queue[i])]
    /\ work' = [work EXCEPT !.cmd = Unwanted(@)]
    /\ UNCHANGED <<phase, disk, open, terminal, index, recovery, offered, ghosts, mine>>

(* Rows for the segments a flush or a rotation sealed.                         *)
WithSealed(d, sealed) ==
    [row |-> [s \in Segs |-> IF s \in sealed THEN "sealed" ELSE d.row[s]],
     cnt |-> [s \in Segs |-> IF s \in sealed THEN Len(disk[s].recs) ELSE d.cnt[s]],
     at  |-> d.at]

(* index_frame_tx: the rotated segment, the active segment, the frame.         *)
WithFrame(d, sealed, f, at) ==
    LET before == WithSealed(d, sealed) IN
    [row |-> [before.row EXCEPT ![at.seg] = "open"],
     cnt |-> [before.cnt EXCEPT ![at.seg] = at.pos],
     at  |-> [d.at EXCEPT ![f] = at]]

CommitUnchanged == UNCHANGED <<phase, disk, open, terminal, work, queue, recovery,
                               offered, mine>>

CommitFrame ==
    /\ caller.pc = "commit"
    /\ caller.op = "append"
    /\ Commit(WithFrame(db, caller.sealed, caller.frame, caller.at))
    /\ acked' = acked \union {caller.frame}
    /\ caller' = IdleCaller
    /\ UNCHANGED <<safe, spent>>
    /\ CommitUnchanged

(* The transaction fails, or the accounting after it does.                     *)
CommitFrameFails ==
    /\ caller.pc = "commit"
    /\ caller.op = "append"
    /\ Fault
    /\ \/ UNCHANGED index
       \/ Commit(WithFrame(db, caller.sealed, caller.frame, caller.at))
    /\ caller' = IdleCaller
    /\ UNCHANGED ghosts
    /\ CommitUnchanged

(* Acknowledged frames of the flushed keys written since the store was opened. *)
Covered(keys) ==
    {f \in acked : \E s \in mine : disk[s].key \in keys /\ Holds(disk[s], f)}

(* register_segments in one transaction, then the WAL checkpoint a flush needs.*)
CommitFlush ==
    /\ caller.pc = "commit"
    /\ caller.op = "flush"
    /\ db' = WithSealed(db, caller.sealed)
    /\ past' = {db'}
    /\ safe' = safe \union Covered(caller.keys)
    /\ caller' = IdleCaller
    /\ UNCHANGED <<acked, spent>>
    /\ CommitUnchanged

(* The registration fails, or it commits and the checkpoint stays busy.        *)
CommitFlushFails ==
    /\ caller.pc = "commit"
    /\ caller.op = "flush"
    /\ Fault
    /\ \/ UNCHANGED index
       \/ Commit(WithSealed(db, caller.sealed))
    /\ caller' = IdleCaller
    /\ UNCHANGED ghosts
    /\ CommitUnchanged

-----------------------------------------------------------------------------
(* The segment writer's worker *)

(* Fault: a flush collects one key of the session and forgets the others.      *)
OneOpenOf(keys) == LET found == {k \in keys : open[k] # NoSeg}
                   IN  IF found = {} THEN {} ELSE {CHOOSE k \in found : TRUE}

OpenOf(keys) == {k \in keys : open[k] # NoSeg}

WorkerUnchanged == UNCHANGED <<phase, index, recovery, offered, ghosts>>

(* The answer reaches the caller unless its future is gone.                    *)
Answer(result) == caller' = IF work.cmd.wanted THEN result ELSE caller

Done(sealed, at) ==
    /\ Answer([caller EXCEPT !.pc = "commit", !.sealed = sealed, !.at = at])
    /\ work' = IdleWork

(* execute: an error is answered, and latched when it is WriterTerminal.       *)
Fails(latch) ==
    /\ Fault
    /\ Answer(IdleCaller)
    /\ work' = IdleWork
    /\ terminal' = (terminal \/ latch)
    /\ WorkerUnchanged

(* should_rotate: never an empty segment; how much time or how many bytes it   *)
(* takes is left open.                                                         *)
MayRotate(k) == open[k] # NoSeg /\ Len(disk[open[k]].recs) > 0

Take ==
    /\ phase = "up"
    /\ work.pc = "idle"
    /\ queue # <<>>
    /\ ~terminal
    /\ LET cmd == Head(queue) IN
       \E todo \in IF cmd.op = "append" THEN SUBSET {k \in cmd.keys : MayRotate(k)}
                                        ELSE {OpenOf(cmd.keys)} :
            work' = [pc |-> "next", cmd |-> cmd, seg |-> NoSeg, todo |-> todo, sealed |-> {}]
    /\ queue' = Tail(queue)
    /\ UNCHANGED <<disk, open, terminal, caller, mine, spent>>
    /\ WorkerUnchanged

Step(pc) == phase = "up" /\ work.pc = pc
To(pc) == work' = [work EXCEPT !.pc = pc]
StepUnchanged == UNCHANGED <<terminal, queue, caller, mine, spent>> /\ WorkerUnchanged

(* Fault: the latched error is noticed, the reply is not sent.                 *)
RefuseSilently ==
    /\ phase = "up"
    /\ work.pc = "idle"
    /\ queue # <<>>
    /\ terminal
    /\ queue' = Tail(queue)
    /\ UNCHANGED <<disk, open, terminal, caller, work, mine, spent>>
    /\ WorkerUnchanged

(* A latched error answers every later command.                                *)
Refuse ==
    /\ phase = "up"
    /\ work.pc = "idle"
    /\ queue # <<>>
    /\ terminal
    /\ caller' = IF Head(queue).wanted THEN IdleCaller ELSE caller
    /\ queue' = Tail(queue)
    /\ UNCHANGED <<disk, open, terminal, work, mine, spent>>
    /\ WorkerUnchanged

(* Fault: the key stays in open_segments while its file is sealed.             *)
StartSealKeepingKey(k) ==
    /\ Step("next")
    /\ k \in work.todo
    /\ work' = [work EXCEPT !.pc = "footer", !.seg = open[k], !.todo = @ \ {k}]
    /\ UNCHANGED <<disk, open>>
    /\ StepUnchanged

(* The key leaves open_segments before its file is sealed.                     *)
StartSeal(k) ==
    /\ Step("next")
    /\ k \in work.todo
    /\ open' = [open EXCEPT ![k] = NoSeg]
    /\ work' = [work EXCEPT !.pc = "footer", !.seg = open[k], !.todo = @ \ {k}]
    /\ UNCHANGED disk
    /\ StepUnchanged

(* seal_segment, step by step: the footer reaches the page cache, ...          *)
WriteFooter ==
    /\ Step("footer")
    /\ disk' = [disk EXCEPT ![work.seg].tail = "footer"]
    /\ To("sync")
    /\ UNCHANGED open
    /\ StepUnchanged

WriteFooterFails ==
    /\ Step("footer")
    /\ \E t \in Tails : disk' = [disk EXCEPT ![work.seg].tail = t]
    /\ UNCHANGED <<open, queue, mine>>
    /\ Fails(TRUE)

(* ... sync_data makes the records and the footer durable, ...                 *)
Synced(file) == [file EXCEPT !.kept = Len(file.recs), !.tailKept = TRUE]

(* Fault: the footer is flushed, the file never synced.                        *)
SyncSkipped ==
    /\ Step("sync")
    /\ To("rename")
    /\ UNCHANGED <<disk, open>>
    /\ StepUnchanged

SyncSealed ==
    /\ Step("sync")
    /\ disk' = [disk EXCEPT ![work.seg] = Synced(@)]
    /\ To("rename")
    /\ UNCHANGED open
    /\ StepUnchanged

SyncSealedFails ==
    /\ Step("sync")
    /\ UNCHANGED <<disk, open, queue, mine>>
    /\ Fails(TRUE)

(* ... the file takes its sealed name, ...                                     *)
RenameSealed ==
    /\ Step("rename")
    /\ disk' = [disk EXCEPT ![work.seg].name = "sealed"]
    /\ To("publish sealed")
    /\ UNCHANGED open
    /\ StepUnchanged

(* WriterUsable: the key is already gone, the registration is lost.            *)
RenameSealedFails ==
    /\ Step("rename")
    /\ UNCHANGED <<disk, open, queue, mine>>
    /\ Fails(FALSE)

(* ... and the directory sync makes the name durable.                          *)
PublishSealed ==
    /\ Step("publish sealed")
    /\ disk' = [disk EXCEPT ![work.seg].dname = "sealed"]
    /\ work' = [work EXCEPT !.pc = "next", !.sealed = @ \union {work.seg}, !.seg = NoSeg]
    /\ UNCHANGED open
    /\ StepUnchanged

(* Fault: a failed directory sync is logged and the registration returned.     *)
PublishSealedRegardless ==
    /\ Step("publish sealed")
    /\ work' = [work EXCEPT !.pc = "next", !.sealed = @ \union {work.seg}, !.seg = NoSeg]
    /\ UNCHANGED <<disk, open>>
    /\ StepUnchanged

PublishSealedFails ==
    /\ Step("publish sealed")
    /\ UNCHANGED <<disk, open, queue, mine>>
    /\ Fails(FALSE)

(* open_segment: create the file, write and sync its header, sync the name.    *)
Appending(k) == Step("next") /\ work.todo = {} /\ work.cmd.op = "append" /\ k \in work.cmd.keys

CreateOpen(k) ==
    /\ Appending(k)
    /\ open[k] = NoSeg
    /\ LET s == work.cmd.frame IN
       /\ disk[s].name = "none"
       /\ disk' = [disk EXCEPT ![s] = [NoFile EXCEPT !.name = "open", !.key = k]]
       /\ mine' = mine \union {s}
       /\ work' = [work EXCEPT !.pc = "header", !.seg = s]
    /\ UNCHANGED <<open, terminal, queue, caller, spent>>
    /\ WorkerUnchanged

CreateOpenFails(k) ==
    /\ Appending(k)
    /\ open[k] = NoSeg
    /\ UNCHANGED <<disk, open, queue, mine>>
    /\ Fails(TRUE)

WriteHeader ==
    /\ Step("header")
    /\ disk' = [disk EXCEPT ![work.seg].hdr = TRUE]
    /\ To("publish open")
    /\ UNCHANGED open
    /\ StepUnchanged

WriteHeaderFails ==
    /\ Step("header")
    /\ \E h \in BOOLEAN : disk' = [disk EXCEPT ![work.seg].hdr = h]
    /\ UNCHANGED <<open, queue, mine>>
    /\ Fails(TRUE)

PublishOpen(k) ==
    /\ Step("publish open")
    /\ k \in work.cmd.keys
    /\ disk' = [disk EXCEPT ![work.seg].dname = "open"]
    /\ open' = [open EXCEPT ![k] = work.seg]
    /\ work' = [work EXCEPT !.pc = "next", !.seg = NoSeg]
    /\ StepUnchanged

PublishOpenFails ==
    /\ Step("publish open")
    /\ UNCHANGED <<disk, open, queue, mine>>
    /\ Fails(TRUE)

(* OpenSegment::append: the record is complete in the page cache, not synced.  *)
WriteRecord(k) ==
    /\ Appending(k)
    /\ open[k] # NoSeg
    /\ LET s == open[k] IN
       /\ disk' = [disk EXCEPT ![s].recs = Append(@, work.cmd.frame)]
       /\ Done(work.sealed, Address(s, Len(disk[s].recs) + 1))
    /\ UNCHANGED <<open, terminal, queue, mine, spent>>
    /\ WorkerUnchanged

(* Nothing, part of the record, or (once the buffer is dropped) all of it is   *)
(* in the file.                                                                *)
WriteRecordFails(k) ==
    /\ Appending(k)
    /\ open[k] # NoSeg
    /\ LET s == open[k] IN
       \/ UNCHANGED disk
       \/ disk' = [disk EXCEPT ![s].tail = "torn"]
       \/ disk' = [disk EXCEPT ![s].recs = Append(@, work.cmd.frame)]
    /\ UNCHANGED <<open, queue, mine>>
    /\ Fails(TRUE)

(* flush_session, flush_all: every collected key is sealed.                    *)
FlushDone ==
    /\ Step("next")
    /\ work.todo = {}
    /\ work.cmd.op = "flush"
    /\ Done(work.sealed, NoAddress)
    /\ UNCHANGED <<disk, open, terminal, queue, mine, spent>>
    /\ WorkerUnchanged

-----------------------------------------------------------------------------
(* Stops *)

Volatile ==
    /\ phase' = "down"
    /\ open' = [k \in Keys |-> NoSeg]
    /\ terminal' = FALSE
    /\ work' = IdleWork
    /\ queue' = <<>>
    /\ caller' = IdleCaller
    /\ pending' = {}
    /\ repaired' = {}
    /\ mine' = {}
    /\ UNCHANGED offered

(* The file a write of the worker would go to.                                 *)
Writing == IF work.pc = "footer" THEN {work.seg}
           ELSE {open[k] : k \in {q \in Keys : Appending(q) /\ open[q] # NoSeg}}

(* The process ends: what was written stays, a write in progress is cut short. *)
ProcessCrash ==
    /\ Spend("crashes", MaxProcessCrashes)
    /\ \/ UNCHANGED disk
       \/ \E s \in Writing : disk' = [disk EXCEPT ![s].tail = "torn"]
    /\ UNCHANGED <<db, past, acked, safe>>
    /\ Volatile

(* What power loss may leave of a file: either directory entry, any number of  *)
(* records from the synced ones on, an unsynced tail in any state.             *)
LostTails(file, n) ==
    IF file.tailKept THEN {file.tail}
    ELSE IF n < Len(file.recs) THEN {"clean", "torn"}
    ELSE IF file.tail = "clean" THEN {"clean"}
    ELSE {"clean", "torn", file.tail}

Cut(file, name, h, n, t) ==
    [file EXCEPT !.name = name, !.dname = name, !.hdr = h,
                 !.recs = SubSeq(file.recs, 1, n), !.kept = n,
                 !.tail = t, !.tailKept = (t = "footer")]

Named(file, name) ==
    IF name = "none" THEN {NoFile}
    ELSE { Cut(file, name, h, n, t) :
           h \in {file.hdr, file.hdr /\ file.dname # "none"},
           n \in file.kept .. Len(file.recs), t \in Tails }

Survivors(file) ==
    {g \in Named(file, file.name) \union Named(file, file.dname) :
        g.name # "none" => g.tail \in LostTails(file, Len(g.recs))}

PowerLoss ==
    /\ Disaster("losses", MaxPowerLosses)
    /\ \E d \in [Segs -> UNION {Survivors(disk[s]) : s \in Segs}] :
            /\ \A s \in Segs : d[s] \in Survivors(disk[s])
            /\ disk' = d
    /\ \E d \in past : db' = d /\ past' = {d}
    /\ acked' = safe
    /\ UNCHANGED safe
    /\ Volatile

(* From outside, while the store is down: a file disappears, its header stops  *)
(* decoding, or a record and everything behind it does.                        *)
Damaged(file) ==
    {NoFile, [file EXCEPT !.hdr = FALSE]} \union
    {[file EXCEPT !.recs = SubSeq(file.recs, 1, n), !.kept = n, !.tail = "torn",
                  !.tailKept = TRUE] : n \in 0 .. Len(file.recs) - 1}

Damage(s) ==
    /\ phase = "down"
    /\ disk[s].name \in {"open", "sealed"}
    /\ disk[s].hdr
    /\ Disaster("damage", MaxDamage)
    /\ \E g \in Damaged(disk[s]) :
        LET gone == {f \in Frames : Holds(disk[s], f) /\ ~(g.hdr /\ Holds(g, f))} IN
        /\ disk' = [disk EXCEPT ![s] = g]
        /\ acked' = acked \ gone
        /\ safe' = safe \ gone
    /\ UNCHANGED <<phase, open, terminal, work, queue, caller, index, recovery,
                   offered, mine>>

-----------------------------------------------------------------------------
(* Recovery: recover(), before a writer exists *)

RecoveryUnchanged ==
    UNCHANGED <<open, terminal, work, queue, caller, offered, ghosts, mine, spent>>

Restart ==
    /\ phase = "down"
    /\ phase' = "sealing"
    /\ UNCHANGED <<disk, index, recovery>>
    /\ RecoveryUnchanged

(* The file recover() is working on: any open one, later any sealed one.       *)
Candidate(s) ==
    \/ phase = "sealing" /\ disk[s].name = "open"
    \/ phase = "indexing" /\ s \in pending /\ disk[s].name = "sealed"

Renamed(file, name) == [file EXCEPT !.name = name, !.dname = name]

(* The header does not decode: the file is set aside.                          *)
Quarantine(s) ==
    /\ Candidate(s)
    /\ ~disk[s].hdr
    /\ disk' = [disk EXCEPT ![s] = Renamed(@, "corrupt")]
    /\ UNCHANGED <<phase, index, recovery>>
    /\ RecoveryUnchanged

(* normalize_file: a file without an exact footer is cut behind its last       *)
(* complete record, given a footer and synced.  Only a damaged tail leaves a   *)
(* repair offset.                                                              *)
RepairFile(s) ==
    /\ Candidate(s)
    /\ disk[s].hdr
    /\ disk[s].tail # "footer"
    /\ disk' = [disk EXCEPT ![s] = [Synced(@) EXCEPT !.tail = "footer"]]
    /\ repaired' = IF disk[s].tail = "torn" THEN repaired \union {s} ELSE repaired
    /\ UNCHANGED <<phase, index, pending>>
    /\ RecoveryUnchanged

(* An exact footer is taken as it is; the rename and the directory sync publish*)
(* the file.                                                                   *)
PublishRepaired(s) ==
    /\ phase = "sealing"
    /\ disk[s].name = "open"
    /\ disk[s].hdr
    /\ disk[s].tail = "footer"
    /\ disk' = [disk EXCEPT ![s] = Renamed(@, "sealed")]
    /\ UNCHANGED <<phase, index, recovery>>
    /\ RecoveryUnchanged

(* Phase C: the union of the sealed files and the indexed segments.            *)
BeginIndexing ==
    /\ phase = "sealing"
    /\ \A s \in Segs : disk[s].name # "open"
    /\ phase' = "indexing"
    /\ pending' = {s \in Segs : disk[s].name = "sealed" \/ db.row[s] # "none"}
    /\ UNCHANGED <<disk, index, repaired>>
    /\ RecoveryUnchanged

Without(d, F) ==
    [row |-> d.row, cnt |-> d.cnt,
     at  |-> [f \in Frames |-> IF f \in F THEN NoAddress ELSE d.at[f]]]

(* remove_index_segment: the frame rows in one transaction, ...                *)
DropRowsOfLost(s) ==
    /\ phase = "indexing"
    /\ s \in pending
    /\ disk[s].name # "sealed"
    /\ RowsOf(s) # {}
    /\ Commit(Without(db, RowsOf(s)))
    /\ UNCHANGED <<phase, disk, recovery>>
    /\ RecoveryUnchanged

(* ... the segment row in the next.                                            *)
DropLostSegment(s) ==
    /\ phase = "indexing"
    /\ s \in pending
    /\ disk[s].name # "sealed"
    /\ RowsOf(s) = {}
    /\ Commit([row |-> [db.row EXCEPT ![s] = "none"],
               cnt |-> [db.cnt EXCEPT ![s] = 0], at |-> db.at])
    /\ pending' = pending \ {s}
    /\ UNCHANGED <<phase, disk, repaired>>
    /\ RecoveryUnchanged

(* Fault: a row at the end of the last complete record counts as valid.        *)
StalePastTheEnd(s) ==
    {f \in RowsOf(s) : ~(\/ db.at[f].pos = Len(disk[s].recs) + 1
                         \/ /\ db.at[f].pos \in 1 .. Len(disk[s].recs)
                            /\ disk[s].recs[db.at[f].pos] = f)}

(* reconcile_segment: rows that name no record of the file.                    *)
Stale(s) ==
    {f \in RowsOf(s) : ~(/\ db.at[f].pos \in 1 .. Len(disk[s].recs)
                         /\ disk[s].recs[db.at[f].pos] = f)}

Reconciling(s) ==
    /\ phase = "indexing"
    /\ s \in pending
    /\ disk[s].name = "sealed"
    /\ disk[s].hdr
    /\ disk[s].tail = "footer"

(* Behind a known repair offset only they go; otherwise every row of the       *)
(* segment does.                                                               *)
DropStaleRows(s) ==
    /\ Reconciling(s)
    /\ Stale(s) # {}
    /\ Commit(Without(db, IF s \in repaired THEN Stale(s) ELSE RowsOf(s)))
    /\ UNCHANGED <<phase, disk, recovery>>
    /\ RecoveryUnchanged

(* Records no row names yet.                                                   *)
Orphans(s) == {n \in 1 .. Len(disk[s].recs) : disk[s].recs[n] \notin Indexed}

WithOrphans(d, s) ==
    [row |-> [d.row EXCEPT ![s] = "sealed"],
     cnt |-> [d.cnt EXCEPT ![s] = Len(disk[s].recs)],
     at  |-> [f \in Frames |->
                IF \E n \in Orphans(s) : disk[s].recs[n] = f
                THEN Address(s, CHOOSE n \in Orphans(s) : disk[s].recs[n] = f)
                ELSE d.at[f]]]

(* Fault: a segment without orphan records is taken for an unchanged one.      *)
ReconcileOrphansOnly(s) ==
    /\ Reconciling(s)
    /\ Stale(s) = {}
    /\ IF Orphans(s) = {} THEN UNCHANGED index ELSE Commit(WithOrphans(db, s))
    /\ pending' = pending \ {s}
    /\ UNCHANGED <<phase, disk, repaired>>
    /\ RecoveryUnchanged

ReconcileSegment(s) ==
    /\ Reconciling(s)
    /\ Stale(s) = {}
    /\ IF WithOrphans(db, s) = db THEN UNCHANGED index
                                  ELSE Commit(WithOrphans(db, s))
    /\ pending' = pending \ {s}
    /\ UNCHANGED <<phase, disk, repaired>>
    /\ RecoveryUnchanged

(* The store opens on the recovered root with a new writer.                    *)
FinishRecovery ==
    /\ phase = "indexing"
    /\ pending = {}
    /\ phase' = "up"
    /\ repaired' = {}
    /\ UNCHANGED <<disk, index, pending>>
    /\ RecoveryUnchanged

-----------------------------------------------------------------------------
(* Specification *)

Worker ==
    \/ Take \/ Refuse \/ FlushDone
    \/ WriteFooter \/ WriteFooterFails \/ SyncSealed \/ SyncSealedFails
    \/ RenameSealed \/ RenameSealedFails \/ PublishSealed \/ PublishSealedFails
    \/ WriteHeader \/ WriteHeaderFails \/ PublishOpenFails
    \/ \E k \in Keys :
        \/ StartSeal(k) \/ CreateOpen(k) \/ CreateOpenFails(k) \/ PublishOpen(k)
        \/ WriteRecord(k) \/ WriteRecordFails(k)

Committer == CommitFrame \/ CommitFrameFails \/ CommitFlush \/ CommitFlushFails

Recovery ==
    \/ BeginIndexing \/ FinishRecovery
    \/ \E s \in Segs :
        \/ Quarantine(s) \/ RepairFile(s) \/ PublishRepaired(s)
        \/ DropRowsOfLost(s) \/ DropLostSegment(s)
        \/ DropStaleRows(s) \/ ReconcileSegment(s)

Environment ==
    \/ \E k \in Keys : AppendFrame(k)
    \/ \E keys \in Sessions \union {Keys} : FlushKeys(keys)
    \/ Cancel \/ ProcessCrash \/ PowerLoss \/ Restart
    \/ \E s \in Segs : Damage(s)

Next == Worker \/ Committer \/ Recovery \/ Environment

Spec == Init /\ [][Next]_vars

FairSpec == Spec /\ WF_vars(Worker) /\ WF_vars(Committer) /\ WF_vars(Recovery)

-----------------------------------------------------------------------------
(* Properties *)

FilesTyped == disk \in [Segs -> File]

WorkTyped ==
    /\ open \in [Keys -> Segs \union {NoSeg}]
    /\ terminal \in BOOLEAN
    /\ work \in [pc : {"idle", "next", "footer", "sync", "rename", "publish sealed",
                       "header", "publish open"},
                 cmd : Command, seg : Segs \union {NoSeg},
                 todo : SUBSET Keys, sealed : SUBSET Segs]
    /\ queue \in Seq(Command)

CallTyped ==
    /\ caller \in [pc : {"idle", "waiting", "commit"}, op : {"none", "append", "flush"},
                   frame : Frames \union {NoFrame}, keys : SUBSET Keys,
                   sealed : SUBSET Segs, at : Addresses]
    /\ offered \in 0 .. MaxFrames

IndexTyped == db \in Index /\ \A d \in past : d \in Index

RestTyped ==
    /\ phase \in {"up", "down", "sealing", "indexing"}
    /\ pending \subseteq Segs
    /\ repaired \subseteq Segs
    /\ acked \subseteq Frames
    /\ safe \subseteq Frames
    /\ mine \subseteq Segs

(* The types of the state: file, index and worker records have the fields the  *)
(* structs of writer.rs and the rows of the index give them, in every state    *)
(* power loss may fall back to as well.                                        *)
TypeOK == FilesTyped /\ WorkTyped /\ CallTyped /\ IndexTyped /\ RestTyped

(* While the store is open, every frame row of the index names a complete      *)
(* record of a published file: a row is committed only after the writer        *)
(* returned the address, and recovery removes the rows whose bytes are gone.   *)
Readable(f) ==
    LET s == db.at[f].seg IN
    /\ disk[s].name \in {"open", "sealed"}
    /\ db.at[f].pos \in 1 .. Len(disk[s].recs)
    /\ disk[s].recs[db.at[f].pos] = f

IndexedFramesAreReadable == phase = "up" => \A f \in Indexed : Readable(f)

(* A segment this run of the store wrote and the index calls sealed is         *)
(* complete under its sealed name, all of it would survive power loss, and the *)
(* index counts its records: seal_segment returns a registration only after    *)
(* the data sync, the rename and the directory sync.                           *)
RegisteredSealsAreDurable ==
    \A s \in mine : db.row[s] = "sealed" =>
        /\ disk[s].name = "sealed" /\ disk[s].dname = "sealed"
        /\ disk[s].tail = "footer" /\ disk[s].tailKept
        /\ disk[s].kept = Len(disk[s].recs)
        /\ db.cnt[s] = Len(disk[s].recs)

(* A segment the index calls sealed never gains or loses a record while the    *)
(* store is open, whatever calls were cancelled or failed before.              *)
SealedSegmentsNeverChange ==
    [][phase = "up" /\ phase' = "up" =>
        \A s \in Segs : db.row[s] = "sealed" =>
            disk'[s].recs = disk[s].recs /\ db'.row[s] = "sealed"]_vars

(* A second recovery pass would report nothing: no open file is left, every    *)
(* sealed file is exact, and files and rows describe each other.               *)
NothingToRecover ==
    \A s \in Segs :
        /\ disk[s].name # "open"
        /\ IF disk[s].name = "sealed"
           THEN /\ disk[s].hdr /\ disk[s].tail = "footer"
                /\ db.row[s] = "sealed" /\ db.cnt[s] = Len(disk[s].recs)
                /\ \A n \in 1 .. Len(disk[s].recs) :
                        db.at[disk[s].recs[n]] = Address(s, n)
                /\ Stale(s) = {}
           ELSE db.row[s] = "none" /\ RowsOf(s) = {}

RecoveryIsComplete == [][FinishRecovery => NothingToRecover']_vars

(* Every call that is not abandoned is answered, in spite of failures, of a    *)
(* latched writer and of abandoned commands queued before it.                  *)
CallsReturn == caller.pc # "idle" ~> caller.pc = "idle"

(* The abstract store this module implements.                                  *)
Log == INSTANCE EvidenceLog WITH
    running <- (phase = "up"),
    offered <- 1 .. offered,
    visible <- (IF phase = "up" THEN Indexed ELSE {}),
    promised <- acked,
    secured <- safe

KeepsItsPromises == Log!Spec
=============================================================================
