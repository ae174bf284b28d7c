-------------------------- MODULE SegmentStoreProofs --------------------------
(* Theorems about SegmentStore, for any number of keys, frames, failures and   *)
(* stops.                                                                      *)
EXTENDS SegmentStore, SequenceTheorems, TLAPS

-----------------------------------------------------------------------------
(* The inductive invariant.                                                    *)

\* Whoever waits for a command is the caller at the gate, and the command it
\* waits for is the last one the worker will execute.
Awaited(cmd) ==
    caller.pc = "waiting" /\ caller.op = cmd.op /\ caller.frame = cmd.frame

CallOrder ==
    /\ \A i \in 1 .. Len(queue) : queue[i].wanted => i = Len(queue) /\ Awaited(queue[i])
    /\ work.cmd.wanted => queue = <<>> /\ Awaited(work.cmd)

\* Outside "up" there is no writer and no call; an idle worker has no command.
StoppedIsIdle ==
    /\ phase # "up" => /\ work = IdleWork /\ queue = <<>> /\ caller = IdleCaller
                       /\ \A k \in Keys : open[k] = NoSeg
    /\ work.pc = "idle" => work.cmd = NoCommand

\* Commands that append name a frame.
AppendsHaveFrames ==
    /\ \A i \in 1 .. Len(queue) : queue[i].op = "append" => queue[i].frame \in Frames
    /\ work.cmd.op = "append" => work.cmd.frame \in Frames
    /\ caller.op = "append" => caller.frame \in Frames

Published(s) == s \in Segs /\ disk[s].name \in {"open", "sealed"}

Names(s, n, f) ==
    Published(s) /\ n \in 1 .. Len(disk[s].recs) /\ disk[s].recs[n] = f

\* The files the worker holds exist under one of their two names.
FilesInUse ==
    /\ \A k \in Keys : open[k] # NoSeg => Published(open[k])
    /\ work.pc \notin {"idle", "next"} => Published(work.seg)
    /\ \A k \in work.todo : k \in Keys /\ open[k] # NoSeg

\* An address the writer answered names the frame's record.
AnswersAreTrue ==
    caller.pc = "commit" /\ caller.op = "append" =>
        Names(caller.at.seg, caller.at.pos, caller.frame)

\* A frame row has its segment row, in every state the index may fall back to.
RowsHaveSegments ==
    \A d \in past \union {db} : \A f \in Frames :
        d.at[f] # NoAddress => d.row[d.at[f].seg] # "none"

\* The rows of every segment recovery is done with, and all rows once the store
\* is open, name records.
RowsAreTrue ==
    /\ phase = "up" => \A f \in Indexed : Names(db.at[f].seg, db.at[f].pos, f)
    /\ phase = "indexing" => \A f \in Indexed :
            db.at[f].seg \in pending \/ Names(db.at[f].seg, db.at[f].pos, f)

IInv ==
    /\ TypeOK
    /\ CallOrder
    /\ StoppedIsIdle
    /\ AppendsHaveFrames
    /\ FilesInUse
    /\ AnswersAreTrue
    /\ RowsHaveSegments
    /\ RowsAreTrue

LEMMA FilesTypedKept ==
    ASSUME FilesTyped, UNCHANGED disk PROVE FilesTyped'
BY DEF FilesTyped

LEMMA WorkTypedKept ==
    ASSUME WorkTyped, UNCHANGED <<open, terminal, work, queue>> PROVE WorkTyped'
BY DEF WorkTyped

LEMMA CallTypedKept ==
    ASSUME CallTyped, UNCHANGED <<caller, offered>> PROVE CallTyped'
BY DEF CallTyped

LEMMA IndexTypedKept ==
    ASSUME IndexTyped, UNCHANGED <<db, past>> PROVE IndexTyped'
BY DEF IndexTyped

LEMMA RestTypedKept ==
    ASSUME RestTyped, UNCHANGED <<phase, pending, repaired, acked, safe, mine>> PROVE RestTyped'
BY DEF RestTyped

LEMMA CallOrderKept ==
    ASSUME CallOrder, UNCHANGED <<queue, caller, work>> PROVE CallOrder'
BY DEF CallOrder, Awaited

LEMMA StoppedIsIdleKept ==
    ASSUME StoppedIsIdle, UNCHANGED <<phase, open, work, queue, caller>> PROVE StoppedIsIdle'
BY DEF StoppedIsIdle

LEMMA AppendsHaveFramesKept ==
    ASSUME AppendsHaveFrames, UNCHANGED <<queue, work, caller>> PROVE AppendsHaveFrames'
BY DEF AppendsHaveFrames

LEMMA FilesInUseKept ==
    ASSUME FilesInUse, UNCHANGED <<open, work, disk>> PROVE FilesInUse'
BY DEF FilesInUse, Published

LEMMA AnswersAreTrueKept ==
    ASSUME AnswersAreTrue, UNCHANGED <<caller, disk>> PROVE AnswersAreTrue'
BY DEF AnswersAreTrue, Names, Published

LEMMA RowsHaveSegmentsKept ==
    ASSUME RowsHaveSegments, UNCHANGED <<db, past>> PROVE RowsHaveSegments'
BY DEF RowsHaveSegments

LEMMA RowsAreTrueKept ==
    ASSUME RowsAreTrue, UNCHANGED <<phase, db, disk, pending>> PROVE RowsAreTrue'
BY DEF RowsAreTrue, Names, Published, Indexed

-----------------------------------------------------------------------------
(* Facts about the data.                                                       *)

LEMMA QueueHead ==
    ASSUME queue \in Seq(Command), queue # <<>>
    PROVE  /\ Head(queue) = queue[1] /\ Head(queue) \in Command
           /\ Tail(queue) \in Seq(Command)
           /\ Len(queue) \in Nat /\ Len(queue) >= 1
           /\ Len(Tail(queue)) \in Nat /\ Len(Tail(queue)) = Len(queue) - 1
           /\ \A i \in 1 .. Len(Tail(queue)) : Tail(queue)[i] = queue[i + 1]
OBVIOUS

\* What the index transactions write.
LEMMA WithSealedType ==
    ASSUME FilesTyped, NEW d \in Index, NEW sealed \in SUBSET Segs
    PROVE  /\ WithSealed(d, sealed) \in Index
           /\ WithSealed(d, sealed).at = d.at
           /\ \A s \in Segs : d.row[s] # "none" => WithSealed(d, sealed).row[s] # "none"
<1>1. \A s \in Segs : Len(disk[s].recs) \in Nat BY DEF FilesTyped, File, Tails
<1> QED BY <1>1 DEF WithSealed, Index

LEMMA WithFrameType ==
    ASSUME FilesTyped, NEW d \in Index, NEW sealed \in SUBSET Segs,
           NEW f \in Frames, NEW at \in Addresses, at.seg \in Segs, at.pos \in Nat
    PROVE  /\ WithFrame(d, sealed, f, at) \in Index
           /\ WithFrame(d, sealed, f, at).at = [d.at EXCEPT ![f] = at]
           /\ WithFrame(d, sealed, f, at).row[at.seg] # "none"
           /\ \A s \in Segs :
                d.row[s] # "none" => WithFrame(d, sealed, f, at).row[s] # "none"
<1>1. WithSealed(d, sealed) \in Index
      /\ \A s \in Segs : d.row[s] # "none" => WithSealed(d, sealed).row[s] # "none"
  BY WithSealedType
<1> QED BY <1>1 DEF WithFrame, Index

LEMMA WithoutType ==
    ASSUME NEW d \in Index, NEW F
    PROVE  /\ Without(d, F) \in Index
           /\ Without(d, F).row = d.row
           /\ \A f \in Frames : Without(d, F).at[f] = IF f \in F THEN NoAddress ELSE d.at[f]
BY DEF Without, Index, Addresses

LEMMA WithOrphansType ==
    ASSUME FilesTyped, NEW d \in Index, NEW s \in Segs
    PROVE  /\ WithOrphans(d, s) \in Index
           /\ \A r \in Segs : d.row[r] # "none" => WithOrphans(d, s).row[r] # "none"
           /\ WithOrphans(d, s).row[s] # "none"
           /\ \A f \in Frames :
                \/ WithOrphans(d, s).at[f] = d.at[f]
                \/ \E n \in Orphans(s) : /\ disk[s].recs[n] = f
                                         /\ WithOrphans(d, s).at[f] = Address(s, n)
<1>1. Len(disk[s].recs) \in Nat /\ Orphans(s) \subseteq Nat BY DEF FilesTyped, File, Tails, Orphans
<1> DEFINE N(f) == {n \in Orphans(s) : disk[s].recs[n] = f}
           pos(f) == CHOOSE n \in Orphans(s) : disk[s].recs[n] = f
<1>2. \A f \in Frames : (\E n \in Orphans(s) : disk[s].recs[n] = f)
                        => pos(f) \in Orphans(s) /\ disk[s].recs[pos(f)] = f
  OBVIOUS
<1> DEFINE at == [f \in Frames |-> IF \E n \in Orphans(s) : disk[s].recs[n] = f
                                   THEN Address(s, pos(f)) ELSE d.at[f]]
<1>3. WithOrphans(d, s) = [row |-> [d.row EXCEPT ![s] = "sealed"],
                           cnt |-> [d.cnt EXCEPT ![s] = Len(disk[s].recs)],
                           at |-> at]
  BY DEF WithOrphans
<1>4. \A f \in Frames : \/ at[f] = d.at[f]
                        \/ /\ pos(f) \in Orphans(s)
                           /\ disk[s].recs[pos(f)] = f
                           /\ at[f] = Address(s, pos(f))
  BY <1>2
<1> HIDE DEF pos
<1>5. \A n \in Orphans(s) : Address(s, n) \in Addresses BY <1>1 DEF Address, Addresses
<1>6. at \in [Frames -> Addresses] BY <1>4, <1>5 DEF Index
<1> HIDE DEF at
<1>7. WithOrphans(d, s) \in Index BY <1>1, <1>3, <1>6 DEF Index
<1> QED BY <1>3, <1>4, <1>7 DEF Index

\* Setting one field of a file record.
LEMMA FileSetters ==
    ASSUME NEW file \in File
    PROVE  /\ Len(file.recs) \in Nat
           /\ file.recs \in Seq(Frames)
           /\ \A t \in Tails :
                LET g == [file EXCEPT !.tail = t]
                IN  g \in File /\ g.recs = file.recs /\ g.name = file.name
           /\ \A n \in {"none", "open", "sealed", "corrupt"} :
                LET g == [file EXCEPT !.name = n]
                IN  g \in File /\ g.recs = file.recs /\ g.name = n
           /\ \A n \in {"none", "open", "sealed", "corrupt"} :
                LET g == [file EXCEPT !.dname = n]
                IN  g \in File /\ g.recs = file.recs /\ g.name = file.name
           /\ \A h \in BOOLEAN :
                LET g == [file EXCEPT !.hdr = h]
                IN  g \in File /\ g.recs = file.recs /\ g.name = file.name
<1>1. Len(file.recs) \in Nat /\ file.recs \in Seq(Frames) BY DEF File, Tails
<1> QED BY <1>1 DEF File, Tails

LEMMA SyncedType ==
    ASSUME NEW file \in File
    PROVE  /\ Synced(file) \in File
           /\ Synced(file).recs = file.recs
           /\ Synced(file).name = file.name
<1>1. Len(file.recs) \in Nat BY DEF File, Tails
<1> QED BY <1>1 DEF Synced, File, Tails

LEMMA RenamedType ==
    ASSUME NEW file \in File, NEW n \in {"open", "sealed", "corrupt"}
    PROVE  /\ Renamed(file, n) \in File
           /\ Renamed(file, n).recs = file.recs
           /\ Renamed(file, n).name = n
BY DEF Renamed, File, Tails

\* No published file disappears and no address goes out of use.
FilesGrow ==
    \A s \in Segs :
        /\ Published(s) => Published(s)'
        /\ \A n, f : Names(s, n, f) => Names(s, n, f)'

LEMMA SameFilesGrow == ASSUME UNCHANGED disk PROVE FilesGrow
BY DEF FilesGrow, Published, Names

LEMMA OneFileGrows ==
    ASSUME FilesTyped, NEW s \in Segs, NEW g \in File,
           disk' = [disk EXCEPT ![s] = g],
           Published(s) => /\ g.name \in {"open", "sealed"}
                           /\ \A n \in 1 .. Len(disk[s].recs) :
                                n \in 1 .. Len(g.recs) /\ g.recs[n] = disk[s].recs[n]
    PROVE  FilesTyped' /\ FilesGrow
<1>1. disk'[s] = g /\ \A r \in Segs : r # s => disk'[r] = disk[r] BY DEF FilesTyped
<1>2. FilesTyped' BY DEF FilesTyped
<1>3. ASSUME NEW r \in Segs
      PROVE  /\ Published(r) => Published(r)'
             /\ \A n, f : Names(r, n, f) => Names(r, n, f)'
  <2>1. CASE r = s BY <1>1, <2>1 DEF Published, Names
  <2>2. CASE r # s BY <1>1, <2>2 DEF Published, Names
  <2> QED BY <2>1, <2>2
<1> QED BY <1>2, <1>3 DEF FilesGrow

\* A record appended to a file.
Grown(file, g, f) ==
    /\ g.name = file.name
    /\ Len(g.recs) = Len(file.recs) + 1 /\ g.recs[Len(g.recs)] = f
    /\ \A n \in 1 .. Len(file.recs) : n \in 1 .. Len(g.recs) /\ g.recs[n] = file.recs[n]

LEMMA AppendGrows ==
    ASSUME NEW file \in File, NEW f \in Frames
    PROVE  \E g \in File : /\ g = [file EXCEPT !.recs = Append(file.recs, f)]
                           /\ Grown(file, g, f)
<1>1. file.recs \in Seq(Frames) BY DEF File
<1> DEFINE r == Append(file.recs, f)
<1>2. /\ r \in Seq(Frames) /\ Len(r) = Len(file.recs) + 1 /\ r[Len(r)] = f
      /\ \A n \in 1 .. Len(file.recs) : n \in 1 .. Len(r) /\ r[n] = file.recs[n]
  BY <1>1
<1> HIDE DEF r
<1> DEFINE g == [file EXCEPT !.recs = r]
<1>3. g \in File /\ g.recs = r /\ g.name = file.name BY <1>2 DEF File
<1>4. Grown(file, g, f) BY <1>2, <1>3 DEF Grown
<1>5. g = [file EXCEPT !.recs = Append(file.recs, f)] BY DEF r
<1> QED BY <1>3, <1>4, <1>5

LEMMA GrowingKeepsRows ==
    ASSUME FilesGrow, RowsAreTrue, UNCHANGED <<phase, db, pending>>
    PROVE  RowsAreTrue'
<1>1. \A f \in Indexed : Names(db.at[f].seg, db.at[f].pos, f)
                         => Names(db.at[f].seg, db.at[f].pos, f)'
  BY DEF FilesGrow, Names, Published
<1> QED BY <1>1 DEF RowsAreTrue, Indexed

LEMMA GrowingKeepsAnswers ==
    ASSUME FilesGrow, AnswersAreTrue, caller' \in {caller, IdleCaller}
    PROVE  AnswersAreTrue'
<1>1. CASE caller' = IdleCaller BY <1>1 DEF AnswersAreTrue, IdleCaller
<1>2. CASE caller' = caller
  <2> PICK s, n, f : s = caller.at.seg /\ n = caller.at.pos /\ f = caller.frame
    OBVIOUS
  <2>1. caller'.at.seg = s /\ caller'.at.pos = n /\ caller'.frame = f BY <1>2
  <2>2. Names(s, n, f) => Names(s, n, f)' BY DEF FilesGrow, Names, Published
  <2> QED BY <1>2, <2>1, <2>2 DEF AnswersAreTrue, Names, Published
<1> QED BY <1>1, <1>2

LEMMA GrowingKeepsUse ==
    ASSUME FilesGrow, FilesInUse, UNCHANGED open, work'.todo \subseteq work.todo,
           work'.pc \in {"idle", "next"} \/ (Published(work.seg) /\ work'.seg = work.seg)
    PROVE  FilesInUse'
<1>1. \A s : Published(s) => Published(s)' BY DEF FilesGrow, Published
<1>2. \A k \in Keys : open'[k] # NoSeg => Published(open[k]) /\ open'[k] = open[k]
  BY DEF FilesInUse
<1>3. ASSUME NEW s, Published(s) PROVE s \in Segs /\ disk'[s].name \in {"open", "sealed"}
  BY <1>1, <1>3 DEF Published
<1>4. \A k \in Keys : open'[k] # NoSeg =>
          open'[k] \in Segs /\ disk'[open'[k]].name \in {"open", "sealed"}
  <2> TAKE k \in Keys
  <2>1. PICK s : s = open[k] OBVIOUS
  <2> QED BY <1>2, <1>3, <2>1
<1>5. work'.pc \notin {"idle", "next"} =>
          work'.seg \in Segs /\ disk'[work'.seg].name \in {"open", "sealed"}
  <2>1. PICK s : s = work.seg OBVIOUS
  <2> QED BY <1>3, <2>1
<1>6. \A k \in work'.todo : k \in Keys /\ open'[k] # NoSeg BY DEF FilesInUse
<1> QED BY <1>4, <1>5, <1>6 DEF FilesInUse, Published

\* One file changes but keeps its records and stays published.
LEMMA SetterGrows ==
    ASSUME FilesTyped, NEW s \in Segs, NEW g \in File,
           disk' = [disk EXCEPT ![s] = g], g.recs = disk[s].recs,
           Published(s) => g.name \in {"open", "sealed"}
    PROVE  FilesTyped' /\ FilesGrow
BY OneFileGrows

\* One file changes that recovery is not done with.
LEMMA PendingFileChanges ==
    ASSUME FilesTyped, RowsAreTrue, NEW s \in Segs, NEW g \in File, Candidate(s),
           disk' = [disk EXCEPT ![s] = g], UNCHANGED <<phase, db, pending>>
    PROVE  FilesTyped' /\ RowsAreTrue'
<1>1. /\ phase # "up" /\ (phase = "indexing" => s \in pending)
  BY DEF Candidate
<1>2. \A r \in Segs : r # s => disk'[r] = disk[r] BY DEF FilesTyped
<1>3. FilesTyped' BY DEF FilesTyped
<1>4. ASSUME phase = "indexing", NEW f \in Indexed, db.at[f].seg \notin pending
      PROVE  Names(db.at[f].seg, db.at[f].pos, f)'
  <2>1. Names(db.at[f].seg, db.at[f].pos, f) BY <1>4 DEF RowsAreTrue
  <2> QED BY <1>1, <1>2, <1>4, <2>1 DEF Names, Published
<1> QED BY <1>1, <1>3, <1>4 DEF RowsAreTrue, Indexed

LEMMA IdleTypes ==
    /\ NoCommand \in Command
    /\ IdleWork \in [pc : {"idle", "next", "footer", "sync", "rename", "publish sealed",
                           "header", "publish open"},
                     cmd : Command, seg : Segs \union {NoSeg},
                     todo : SUBSET Keys, sealed : SUBSET Segs]
    /\ IdleCaller \in [pc : {"idle", "waiting", "commit"}, op : {"none", "append", "flush"},
                       frame : Frames \union {NoFrame}, keys : SUBSET Keys,
                       sealed : SUBSET Segs, at : Addresses]
BY DEF NoCommand, Command, IdleWork, IdleCaller, Addresses

LEMMA UnwantedAgain == Unwanted(NoCommand) = NoCommand
<1>1. \A c \in Command : ~c.wanted => Unwanted(c) = c BY DEF Command, Unwanted
<1> QED BY <1>1, IdleTypes DEF NoCommand

\* The worker answers and is idle again.
LEMMA AnswerKeepsOrder ==
    ASSUME WorkTyped, CallOrder, UNCHANGED queue, work' = IdleWork, NEW result,
           caller' = IF work.cmd.wanted THEN result ELSE caller
    PROVE  CallOrder'
<1>1. CASE work.cmd.wanted
  <2>1. queue' = <<>> BY <1>1 DEF CallOrder
  <2> QED BY <2>1 DEF CallOrder, IdleWork, NoCommand
<1>2. CASE ~work.cmd.wanted
  BY <1>2 DEF CallOrder, Awaited, IdleWork, NoCommand
<1> QED BY <1>1, <1>2

\* A failed step of the worker, whatever it left in the files.
LEMMA FailureKeeps ==
    ASSUME IInv, phase = "up", NEW latch \in BOOLEAN, Fails(latch),
           UNCHANGED <<open, queue, mine>>, FilesTyped', FilesGrow
    PROVE  IInv'
<1>1. /\ FilesTyped /\ WorkTyped /\ CallTyped /\ IndexTyped /\ RestTyped
      /\ CallOrder /\ StoppedIsIdle /\ AppendsHaveFrames /\ FilesInUse
      /\ AnswersAreTrue /\ RowsHaveSegments /\ RowsAreTrue
  BY DEF IInv, TypeOK
<1>2. /\ UNCHANGED <<phase, db, past, pending, repaired, offered, acked, safe, mine>>
      /\ work' = IdleWork
      /\ terminal' \in BOOLEAN
      /\ caller' = IF work.cmd.wanted THEN IdleCaller ELSE caller
  BY <1>1 DEF Fails, Answer, WorkerUnchanged, index, recovery, ghosts, WorkTyped
<1>3. WorkTyped' BY <1>1, <1>2, IdleTypes DEF WorkTyped
<1>4. CallTyped' BY <1>1, <1>2, IdleTypes DEF CallTyped
<1>5. CallOrder' BY <1>1, <1>2, AnswerKeepsOrder
<1>6. StoppedIsIdle' /\ AppendsHaveFrames'
  BY <1>1, <1>2 DEF StoppedIsIdle, AppendsHaveFrames, IdleWork, NoCommand, IdleCaller
<1>7. FilesInUse' BY <1>1, <1>2 DEF FilesInUse, FilesGrow, Published, IdleWork
<1>8. AnswersAreTrue' BY <1>1, <1>2, GrowingKeepsAnswers
<1>9. RowsAreTrue' BY <1>1, <1>2, GrowingKeepsRows
<1> QED BY <1>1, <1>2, <1>3, <1>4, <1>5, <1>6, <1>7, <1>8, <1>9,
       IndexTypedKept, RestTypedKept, RowsHaveSegmentsKept DEF IInv, TypeOK

\* A step of the worker that goes on with its command.
LEMMA StepKeeps ==
    ASSUME IInv, phase = "up", work.pc # "idle",
           UNCHANGED <<terminal, queue, caller>>, WorkerUnchanged,
           work'.pc # "idle", work'.cmd = work.cmd, mine' \subseteq Segs,
           WorkTyped', FilesTyped', FilesGrow, FilesInUse'
    PROVE  IInv'
<1>1. /\ FilesTyped /\ WorkTyped /\ CallTyped /\ IndexTyped /\ RestTyped
      /\ CallOrder /\ StoppedIsIdle /\ AppendsHaveFrames /\ FilesInUse
      /\ AnswersAreTrue /\ RowsHaveSegments /\ RowsAreTrue
  BY DEF IInv, TypeOK
<1>2. UNCHANGED <<phase, db, past, pending, repaired, offered, acked, safe, queue, caller>>
  BY DEF WorkerUnchanged, index, recovery, ghosts
<1>3. RestTyped' BY <1>1, <1>2 DEF RestTyped
<1>4. CallOrder' BY <1>1, <1>2 DEF CallOrder, Awaited
<1>5. StoppedIsIdle' /\ AppendsHaveFrames'
  BY <1>1, <1>2 DEF StoppedIsIdle, AppendsHaveFrames
<1>6. AnswersAreTrue' BY <1>1, <1>2, GrowingKeepsAnswers
<1>7. RowsAreTrue' BY <1>1, <1>2, GrowingKeepsRows
<1> QED BY <1>1, <1>2, <1>3, <1>4, <1>5, <1>6, <1>7, CallTypedKept,
       IndexTypedKept, RowsHaveSegmentsKept DEF IInv, TypeOK

\* The worker answers and is done.
LEMMA DoneKeeps ==
    ASSUME IInv, phase = "up", NEW sealed \in SUBSET Segs, NEW at \in Addresses,
           NEW f, f = work.cmd.frame, Done(sealed, at),
           UNCHANGED <<open, terminal, queue, mine>>, WorkerUnchanged,
           FilesTyped', FilesGrow,
           work.cmd.op = "append" => Names(at.seg, at.pos, f)'
    PROVE  IInv'
<1>1. /\ FilesTyped /\ WorkTyped /\ CallTyped /\ IndexTyped /\ RestTyped
      /\ CallOrder /\ StoppedIsIdle /\ AppendsHaveFrames /\ FilesInUse
      /\ AnswersAreTrue /\ RowsHaveSegments /\ RowsAreTrue
  BY DEF IInv, TypeOK
<1> DEFINE result == [caller EXCEPT !.pc = "commit", !.sealed = sealed, !.at = at]
<1>2. /\ UNCHANGED <<phase, db, past, pending, repaired, offered, acked, safe>>
      /\ UNCHANGED <<open, terminal, queue, mine>>
      /\ work' = IdleWork
      /\ caller' = IF work.cmd.wanted THEN result ELSE caller
  BY <1>1 DEF Done, Answer, WorkerUnchanged, index, recovery, ghosts
<1>3. WorkTyped' BY <1>1, <1>2, IdleTypes DEF WorkTyped
<1>4. /\ result.pc = "commit" /\ result.op = caller.op /\ result.frame = caller.frame
      /\ result.sealed = sealed /\ result.at = at
      /\ result \in [pc : {"idle", "waiting", "commit"}, op : {"none", "append", "flush"},
                     frame : Frames \union {NoFrame}, keys : SUBSET Keys,
                     sealed : SUBSET Segs, at : Addresses]
  BY <1>1 DEF CallTyped
<1> HIDE DEF result
<1>5. CallTyped' BY <1>1, <1>2, <1>4 DEF CallTyped
<1>6. CallOrder' BY <1>1, <1>2, AnswerKeepsOrder
<1>7. StoppedIsIdle' BY <1>1, <1>2 DEF StoppedIsIdle, IdleWork
<1>8. AppendsHaveFrames'
  BY <1>1, <1>2, <1>4 DEF AppendsHaveFrames, IdleWork, NoCommand
<1>9. FilesInUse' BY <1>1, <1>2, GrowingKeepsUse DEF IdleWork
<1>10. AnswersAreTrue'
  <2>1. CASE work.cmd.wanted
    <3>1. caller.op = work.cmd.op /\ caller.frame = f
      BY <1>1, <2>1 DEF CallOrder, Awaited
    <3>2. caller'.at = at /\ caller'.frame = f /\ caller'.op = work.cmd.op
      BY <1>2, <1>4, <2>1, <3>1
    <3> QED BY <3>2 DEF AnswersAreTrue, Names, Published
  <2>2. CASE ~work.cmd.wanted BY <1>1, <1>2, <2>2, GrowingKeepsAnswers
  <2> QED BY <2>1, <2>2
<1>11. RowsAreTrue' BY <1>1, <1>2, GrowingKeepsRows
<1> QED BY <1>1, <1>2, <1>3, <1>5, <1>6, <1>7, <1>8, <1>9, <1>10, <1>11,
       IndexTypedKept, RestTypedKept, RowsHaveSegmentsKept DEF IInv, TypeOK

\* A call enters the store and queues its command.
LEMMA CallKeeps ==
    ASSUME IInv, NEW op \in {"append", "flush"}, NEW f \in Frames \union {NoFrame},
           NEW keys \in SUBSET Keys, op = "append" => f \in Frames,
           Call(op, f, keys), offered' \in 0 .. MaxFrames
    PROVE  IInv'
<1>1. /\ FilesTyped /\ WorkTyped /\ CallTyped /\ IndexTyped /\ RestTyped
      /\ CallOrder /\ StoppedIsIdle /\ AppendsHaveFrames /\ FilesInUse
      /\ AnswersAreTrue /\ RowsHaveSegments /\ RowsAreTrue
  BY DEF IInv, TypeOK
<1> DEFINE cmd == [op |-> op, frame |-> f, keys |-> keys, wanted |-> TRUE]
           waiting == [IdleCaller EXCEPT !.pc = "waiting", !.op = op, !.frame = f,
                                         !.keys = keys]
<1>2. /\ phase = "up" /\ caller.pc = "idle"
      /\ queue' = Append(queue, cmd) /\ caller' = waiting
      /\ UNCHANGED <<phase, disk, open, terminal, work, db, past, pending, repaired,
                     acked, safe, mine>>
  BY DEF Call, index, recovery, ghosts
<1>3. cmd \in Command /\ cmd.op = op /\ cmd.frame = f BY DEF Command
<1>4. /\ waiting.pc = "waiting" /\ waiting.op = op /\ waiting.frame = f
      /\ waiting \in [pc : {"idle", "waiting", "commit"}, op : {"none", "append", "flush"},
                      frame : Frames \union {NoFrame}, keys : SUBSET Keys,
                      sealed : SUBSET Segs, at : Addresses]
  BY DEF IdleCaller, Addresses
<1> HIDE DEF cmd, waiting
<1>5. queue \in Seq(Command) BY <1>1 DEF WorkTyped
<1>6. /\ queue' \in Seq(Command) /\ Len(queue') = Len(queue) + 1
      /\ \A i \in 1 .. Len(queue') :
            \/ i \in 1 .. Len(queue) /\ queue'[i] = queue[i]
            \/ i = Len(queue') /\ queue'[i] = cmd
  BY <1>2, <1>3, <1>5
<1>7. WorkTyped' BY <1>1, <1>2, <1>6 DEF WorkTyped
<1>8. CallTyped' BY <1>1, <1>2, <1>4 DEF CallTyped
<1>9. CallOrder'
  <2>1. ~work'.cmd.wanted BY <1>1, <1>2 DEF CallOrder, Awaited
  <2>2. \A i \in 1 .. Len(queue) : ~queue[i].wanted
    BY <1>1, <1>2 DEF CallOrder, Awaited
  <2>3. \A i \in 1 .. Len(queue') :
            queue'[i].wanted => i = Len(queue') /\ queue'[i] = cmd
    BY <1>6, <2>2
  <2>4. caller'.pc = "waiting" /\ caller'.op = cmd.op /\ caller'.frame = cmd.frame
    BY <1>2, <1>3, <1>4
  <2> QED BY <2>1, <2>3, <2>4 DEF CallOrder, Awaited
<1>10. StoppedIsIdle' BY <1>1, <1>2 DEF StoppedIsIdle
<1>11. AppendsHaveFrames'
  <2>1. \A i \in 1 .. Len(queue') : queue'[i].op = "append" => queue'[i].frame \in Frames
    BY <1>1, <1>3, <1>6 DEF AppendsHaveFrames
  <2>2. caller'.op = "append" => caller'.frame \in Frames BY <1>2, <1>4
  <2> QED BY <1>1, <1>2, <2>1, <2>2 DEF AppendsHaveFrames
<1>12. AnswersAreTrue' BY <1>2, <1>4 DEF AnswersAreTrue
<1> QED BY <1>1, <1>2, <1>7, <1>8, <1>9, <1>10, <1>11, <1>12, FilesTypedKept,
       IndexTypedKept, RestTypedKept, FilesInUseKept, RowsHaveSegmentsKept,
       RowsAreTrueKept DEF IInv, TypeOK

\* The process ends.
LEMMA StopKeeps ==
    ASSUME IInv, Volatile, FilesTyped', IndexTyped', RowsHaveSegments',
           acked' \subseteq Frames, safe' \subseteq Frames
    PROVE  IInv'
<1>1. CallTyped /\ offered \in 0 .. MaxFrames BY DEF IInv, TypeOK, CallTyped
<1>2. WorkTyped' BY IdleTypes, EmptySeq DEF Volatile, WorkTyped
<1>3. CallTyped' BY <1>1, IdleTypes DEF Volatile, CallTyped
<1>4. RestTyped' BY DEF Volatile, RestTyped
<1>5. CallOrder' /\ AppendsHaveFrames'
  BY DEF Volatile, CallOrder, AppendsHaveFrames, IdleWork, IdleCaller, NoCommand
<1>6. StoppedIsIdle' BY DEF Volatile, StoppedIsIdle, IdleWork
<1>7. FilesInUse' /\ AnswersAreTrue'
  BY DEF Volatile, FilesInUse, AnswersAreTrue, IdleWork, IdleCaller
<1>8. RowsAreTrue' BY DEF Volatile, RowsAreTrue
<1> QED BY <1>2, <1>3, <1>4, <1>5, <1>6, <1>7, <1>8 DEF IInv, TypeOK

\* While the store is not open only the files and the index change.
LEMMA ClosedKeeps ==
    ASSUME IInv, phase # "up", phase' \in {"down", "sealing", "indexing"},
           UNCHANGED <<open, terminal, work, queue, caller, offered, mine>>,
           pending' \subseteq Segs, repaired' \subseteq Segs,
           acked' \subseteq Frames, safe' \subseteq Frames,
           FilesTyped', IndexTyped', RowsHaveSegments', RowsAreTrue'
    PROVE  IInv'
<1>1. WorkTyped /\ CallTyped /\ CallOrder /\ StoppedIsIdle /\ AppendsHaveFrames /\ RestTyped
  BY DEF IInv, TypeOK
<1>2. work = IdleWork /\ caller = IdleCaller /\ \A k \in Keys : open[k] = NoSeg
  BY <1>1 DEF StoppedIsIdle
<1>3. WorkTyped' /\ CallTyped' BY <1>1, WorkTypedKept, CallTypedKept
<1>4. RestTyped' BY <1>1 DEF RestTyped
<1>5. CallOrder' /\ AppendsHaveFrames' BY <1>1, CallOrderKept, AppendsHaveFramesKept
<1>6. StoppedIsIdle' BY <1>1 DEF StoppedIsIdle
<1>7. FilesInUse' /\ AnswersAreTrue'
  BY <1>2 DEF FilesInUse, AnswersAreTrue, IdleWork, IdleCaller
<1> QED BY <1>3, <1>4, <1>5, <1>6, <1>7 DEF IInv, TypeOK

\* A transaction that gives every frame row its segment row.
LEMMA CommitKeeps ==
    ASSUME IndexTyped, RowsHaveSegments, NEW d \in Index, Commit(d),
           \A f \in Frames : d.at[f] # NoAddress => d.row[d.at[f].seg] # "none"
    PROVE  IndexTyped' /\ RowsHaveSegments' /\ db' = d
<1>1. db' = d /\ past' \subseteq past \union {d} BY DEF Commit
<1>2. IndexTyped' BY <1>1 DEF IndexTyped
<1>3. RowsHaveSegments' BY <1>1 DEF RowsHaveSegments
<1> QED BY <1>1, <1>2, <1>3

LEMMA RemovalKeeps ==
    ASSUME IndexTyped, RowsHaveSegments, RowsAreTrue, NEW F, Commit(Without(db, F)),
           phase = "indexing", UNCHANGED <<phase, disk, pending>>
    PROVE  IndexTyped' /\ RowsHaveSegments' /\ RowsAreTrue'
<1>1. db \in Index BY DEF IndexTyped
<1>2. /\ Without(db, F) \in Index
      /\ Without(db, F).row = db.row
      /\ \A f \in Frames :
            Without(db, F).at[f] = IF f \in F THEN NoAddress ELSE db.at[f]
  BY <1>1, WithoutType
<1>3. \A f \in Frames : Without(db, F).at[f] # NoAddress =>
            Without(db, F).row[Without(db, F).at[f].seg] # "none"
  BY <1>2 DEF RowsHaveSegments
<1>4. IndexTyped' /\ RowsHaveSegments' /\ db' = Without(db, F)
  BY <1>2, <1>3, CommitKeeps
<1>5. \A f \in Frames : db'.at[f] # NoAddress => f \in Indexed /\ db'.at[f] = db.at[f]
  BY <1>2, <1>4 DEF Indexed
<1>6. RowsAreTrue' BY <1>5 DEF RowsAreTrue, Indexed, Names, Published
<1> QED BY <1>4, <1>6

\* What power loss and damage leave is a file.
LEMMA SurvivorsType == ASSUME NEW file \in File, NEW g \in Survivors(file) PROVE g \in File
<1>1. NoFile \in File BY DEF NoFile, File, Tails
<1>2. ASSUME NEW name \in {"none", "open", "sealed", "corrupt"}, g \in Named(file, name),
             name # "none"
      PROVE  g \in File
  <2> DEFINE H == {file.hdr, file.hdr /\ file.dname # "none"}
             N == file.kept .. Len(file.recs)
  <2>8. Named(file, name) = {Cut(file, name, h, n, t) : h \in H, n \in N, t \in Tails}
    BY <1>2 DEF Named
  <2> HIDE DEF H, N
  <2>1. PICK h \in H, n \in N, t \in Tails : g = Cut(file, name, h, n, t)
    BY <1>2, <2>8
  <2>2. file.kept \in Nat /\ Len(file.recs) \in Nat /\ file.recs \in Seq(Frames)
    BY DEF File, Tails
  <2>3. n \in Nat /\ n <= Len(file.recs) BY <2>1, <2>2 DEF N
  <2>4. \A i \in 1 .. n : file.recs[i] \in Frames BY <2>2, <2>3
  <2> DEFINE r == SubSeq(file.recs, 1, n)
  <2>5. r \in Seq(Frames) BY <2>3, <2>4, SubSeqProperties
  <2>6. g = [file EXCEPT !.name = name, !.dname = name, !.hdr = h, !.recs = r,
                         !.kept = n, !.tail = t, !.tailKept = (t = "footer")]
    BY <2>1 DEF Cut
  <2> HIDE DEF r
  <2>7. h \in BOOLEAN BY <2>1 DEF H, File, Tails
  <2> QED BY <2>1, <2>3, <2>5, <2>6, <2>7 DEF File, Tails
<1>3. file.name \in {"none", "open", "sealed", "corrupt"}
      /\ file.dname \in {"none", "open", "sealed", "corrupt"}
  BY DEF File, Tails
<1>4. g \in Named(file, file.name) \/ g \in Named(file, file.dname) BY DEF Survivors
<1>5. \A name : name = "none" => Named(file, name) = {NoFile} BY DEF Named
<1> QED BY <1>1, <1>2, <1>3, <1>4, <1>5

LEMMA DamagedType == ASSUME NEW file \in File, NEW g \in Damaged(file) PROVE g \in File
<1>1. NoFile \in File BY DEF NoFile, File, Tails
<1>2. [file EXCEPT !.hdr = FALSE] \in File BY DEF File, Tails
<1>3. ASSUME NEW n \in 0 .. Len(file.recs) - 1,
             g = [file EXCEPT !.recs = SubSeq(file.recs, 1, n), !.kept = n,
                              !.tail = "torn", !.tailKept = TRUE]
      PROVE  g \in File
  <2>1. Len(file.recs) \in Nat /\ file.recs \in Seq(Frames) BY DEF File, Tails
  <2>2. n \in Nat /\ n <= Len(file.recs) BY <2>1
  <2> DEFINE r == SubSeq(file.recs, 1, n)
  <2>3. \A i \in 1 .. n : file.recs[i] \in Frames BY <2>1, <2>2
  <2>5. r \in Seq(Frames) BY <2>2, <2>3, SubSeqProperties
  <2>4. g = [file EXCEPT !.recs = r, !.kept = n, !.tail = "torn", !.tailKept = TRUE]
    BY <1>3
  <2> HIDE DEF r
  <2> QED BY <2>2, <2>4, <2>5 DEF File, Tails
<1> QED BY <1>1, <1>2, <1>3 DEF Damaged

LEMMA AppendFrameKeeps ==
    ASSUME IInv, NEW k \in Keys, AppendFrame(k) PROVE IInv'
<1> USE DEF IdleCaller, IdleWork, NoCommand
<1>1. /\ FilesTyped /\ WorkTyped /\ CallTyped /\ IndexTyped /\ RestTyped
      /\ CallOrder /\ StoppedIsIdle /\ AppendsHaveFrames /\ FilesInUse
      /\ AnswersAreTrue /\ RowsHaveSegments /\ RowsAreTrue
  BY DEF IInv, TypeOK
<1>2. UNCHANGED <<phase, disk, open, terminal, work, db, past, pending,
      repaired, acked, safe, mine>>
  BY DEF AppendFrame, Call, index, recovery, ghosts
<1>3. offered + 1 \in Frames /\ offered' \in 0 .. MaxFrames
  BY <1>1, StoreAssumption DEF AppendFrame, CallTyped, Frames
<1>4. Call("append", offered + 1, {k}) BY DEF AppendFrame
<1> QED BY <1>3, <1>4, CallKeeps

LEMMA FlushKeysKeeps ==
    ASSUME IInv, NEW keys \in Sessions \union {Keys}, FlushKeys(keys) PROVE
           IInv'
<1> USE DEF IdleCaller, IdleWork, NoCommand
<1>1. /\ FilesTyped /\ WorkTyped /\ CallTyped /\ IndexTyped /\ RestTyped
      /\ CallOrder /\ StoppedIsIdle /\ AppendsHaveFrames /\ FilesInUse
      /\ AnswersAreTrue /\ RowsHaveSegments /\ RowsAreTrue
  BY DEF IInv, TypeOK
<1>2. UNCHANGED <<phase, disk, open, terminal, work, db, past, pending,
      repaired, offered, acked, safe, mine>>
  BY DEF FlushKeys, Call, index, recovery, ghosts
<1>3. keys \in SUBSET Keys BY StoreAssumption
<1>4. offered' \in 0 .. MaxFrames BY <1>1, <1>2 DEF FlushKeys, CallTyped
<1>5. Call("flush", NoFrame, keys) BY DEF FlushKeys
<1> QED BY <1>3, <1>4, <1>5, CallKeeps

LEMMA CancelKeeps ==
    ASSUME IInv, Cancel PROVE IInv'
<1> USE DEF IdleCaller, IdleWork, NoCommand
<1>1. /\ FilesTyped /\ WorkTyped /\ CallTyped /\ IndexTyped /\ RestTyped
      /\ CallOrder /\ StoppedIsIdle /\ AppendsHaveFrames /\ FilesInUse
      /\ AnswersAreTrue /\ RowsHaveSegments /\ RowsAreTrue
  BY DEF IInv, TypeOK
<1>2. UNCHANGED <<phase, disk, open, terminal, db, past, pending, repaired,
      offered, acked, safe, mine>>
  BY DEF Cancel, Unwanted, Spend, index, recovery, ghosts
<1>3. queue \in Seq(Command) /\ work.cmd \in Command BY <1>1 DEF WorkTyped
<1>4. \A cmd \in Command : /\ Unwanted(cmd) \in Command /\ ~Unwanted(cmd).wanted
                           /\ Unwanted(cmd).op = cmd.op /\ Unwanted(cmd).frame = cmd.frame
  BY DEF Unwanted, Command
<1>5. /\ caller' = IdleCaller
      /\ queue' = [i \in DOMAIN queue |-> Unwanted(queue[i])]
      /\ work' = [work EXCEPT !.cmd = Unwanted(work.cmd)]
  BY DEF Cancel
<1>6. DOMAIN queue = 1 .. Len(queue) /\ Len(queue) \in Nat BY <1>3
<1>7. \A i \in 1 .. Len(queue) : queue[i] \in Command BY <1>3
<1>8. queue' \in Seq(Command) /\ Len(queue') = Len(queue)
      /\ \A i \in 1 .. Len(queue) : queue'[i] = Unwanted(queue[i])
  <2>1. queue' = [i \in 1 .. Len(queue) |-> Unwanted(queue[i])] BY <1>5, <1>6
  <2>2. queue' \in [1 .. Len(queue) -> Command] BY <1>4, <1>7, <2>1
  <2>3. queue' \in Seq(Command) BY <1>6, <2>2, SeqDef
  <2>4. Len(queue') = Len(queue) BY <1>6, <2>2, <2>3, LenProperties
  <2> QED BY <2>1, <2>3, <2>4
<1>9. /\ work'.pc = work.pc /\ work'.seg = work.seg /\ work'.todo = work.todo
      /\ work'.sealed = work.sealed /\ work'.cmd = Unwanted(work.cmd)
  BY <1>1, <1>5 DEF WorkTyped
<1>10. WorkTyped' BY <1>1, <1>2, <1>3, <1>4, <1>5, <1>8 DEF WorkTyped
<1>11. CallTyped' BY <1>1, <1>2, <1>5, IdleTypes DEF CallTyped
<1>12. CallOrder' BY <1>3, <1>4, <1>7, <1>8, <1>9 DEF CallOrder
<1>13. StoppedIsIdle'
  <2>1. phase = "up" BY <1>1 DEF Cancel, StoppedIsIdle
  <2>2. Unwanted(NoCommand) = NoCommand BY UnwantedAgain, IdleTypes
  <2> QED BY <1>1, <1>2, <1>9, <2>1, <2>2 DEF StoppedIsIdle
<1>14. AppendsHaveFrames'
  BY <1>1, <1>3, <1>4, <1>5, <1>7, <1>8, <1>9 DEF AppendsHaveFrames
<1>15. FilesInUse' BY <1>1, <1>2, <1>9 DEF FilesInUse, Published
<1>16. AnswersAreTrue' BY <1>5 DEF AnswersAreTrue
<1> QED BY <1>1, <1>2, <1>10, <1>11, <1>12, <1>13, <1>14, <1>15, <1>16,
       FilesTypedKept, IndexTypedKept, RestTypedKept, RowsHaveSegmentsKept,
       RowsAreTrueKept DEF IInv, TypeOK

LEMMA CommitFrameKeeps ==
    ASSUME IInv, CommitFrame PROVE IInv'
<1> USE DEF IdleCaller, IdleWork, NoCommand
<1>1. /\ FilesTyped /\ WorkTyped /\ CallTyped /\ IndexTyped /\ RestTyped
      /\ CallOrder /\ StoppedIsIdle /\ AppendsHaveFrames /\ FilesInUse
      /\ AnswersAreTrue /\ RowsHaveSegments /\ RowsAreTrue
  BY DEF IInv, TypeOK
<1>2. UNCHANGED <<phase, disk, open, terminal, work, queue, pending, repaired,
      offered, safe, mine>>
  BY DEF CommitFrame, Commit, CommitUnchanged, index, recovery, ghosts
<1>3. caller.frame \in Frames /\ caller.sealed \in SUBSET Segs /\ caller.at \in Addresses
      /\ Names(caller.at.seg, caller.at.pos, caller.frame)
  BY <1>1 DEF CommitFrame, AppendsHaveFrames, CallTyped, AnswersAreTrue
<1>4. caller.at.seg \in Segs /\ caller.at.pos \in Nat
  BY <1>1, <1>3 DEF Names, Published
<1>5. phase = "up" BY <1>1 DEF CommitFrame, StoppedIsIdle
<1>6. db \in Index BY <1>1 DEF IndexTyped
<1> DEFINE new == WithFrame(db, caller.sealed, caller.frame, caller.at)
<1>15. /\ new \in Index
       /\ new.at = [db.at EXCEPT ![caller.frame] = caller.at]
       /\ new.row[caller.at.seg] # "none"
       /\ \A s \in Segs : db.row[s] # "none" => new.row[s] # "none"
  <2>1. PICK f \in Frames, at \in Addresses, sealed \in SUBSET Segs :
          f = caller.frame /\ at = caller.at /\ sealed = caller.sealed
    BY <1>3
  <2>2. at.seg \in Segs /\ at.pos \in Nat BY <1>4, <2>1
  <2> DEFINE w == WithFrame(db, sealed, f, at)
  <2>3. /\ w \in Index
        /\ w.at = [db.at EXCEPT ![f] = at]
        /\ w.row[at.seg] # "none"
        /\ \A s \in Segs : db.row[s] # "none" => w.row[s] # "none"
    BY <1>1, <1>6, <2>2, WithFrameType
  <2>4. w = new BY <2>1
  <2> HIDE DEF w, new
  <2> QED BY <2>1, <2>3, <2>4
<1>7. (db' = db /\ past' = past) \/ (db' = new /\ past' \subseteq past \union {new})
  BY DEF CommitFrame, Commit, index
<1> HIDE DEF new
<1>8. CallTyped' BY <1>1, <1>2 DEF CommitFrame, CallTyped, Addresses
<1>9. IndexTyped' BY <1>1, <1>15, <1>7 DEF IndexTyped
<1>10. RestTyped' BY <1>1, <1>2, <1>3 DEF CommitFrame, RestTyped, ghosts
<1>11. CallOrder' /\ StoppedIsIdle' /\ AppendsHaveFrames' /\ AnswersAreTrue'
  BY <1>1, <1>2 DEF CommitFrame, CallOrder, Awaited, StoppedIsIdle,
     AppendsHaveFrames, AnswersAreTrue
<1>12. \A f \in Frames : new.at[f] # NoAddress =>
         /\ new.row[new.at[f].seg] # "none"
         /\ Names(new.at[f].seg, new.at[f].pos, f)
  <2> TAKE f \in Frames
  <2>1. CASE f = caller.frame BY <1>1, <1>3, <1>15, <2>1 DEF IndexTyped, Index
  <2>2. CASE f # caller.frame
    <3>1. new.at[f] = db.at[f] BY <1>1, <1>15, <2>2 DEF IndexTyped, Index
    <3>2. db.at[f] # NoAddress => /\ db.row[db.at[f].seg] # "none"
                                  /\ Names(db.at[f].seg, db.at[f].pos, f)
      BY <1>1, <1>5 DEF RowsHaveSegments, RowsAreTrue, Indexed
    <3> QED BY <1>15, <3>1, <3>2 DEF Names, Published
  <2> QED BY <2>1, <2>2
<1>13. RowsHaveSegments' BY <1>1, <1>7, <1>12 DEF RowsHaveSegments
<1>14. RowsAreTrue'
  <2>1. CASE db' = db BY <1>1, <1>2, <2>1 DEF RowsAreTrue, Indexed, Names, Published
  <2>2. CASE db' = new BY <1>2, <1>5, <1>12, <2>2 DEF RowsAreTrue, Indexed, Names, Published
  <2> QED BY <1>7, <2>1, <2>2
<1> QED BY <1>1, <1>2, <1>8, <1>9, <1>10, <1>11, <1>13, <1>14, FilesTypedKept,
       WorkTypedKept, FilesInUseKept DEF IInv, TypeOK

LEMMA CommitFrameFailsKeeps ==
    ASSUME IInv, CommitFrameFails PROVE IInv'
<1> USE DEF IdleCaller, IdleWork, NoCommand
<1>1. /\ FilesTyped /\ WorkTyped /\ CallTyped /\ IndexTyped /\ RestTyped
      /\ CallOrder /\ StoppedIsIdle /\ AppendsHaveFrames /\ FilesInUse
      /\ AnswersAreTrue /\ RowsHaveSegments /\ RowsAreTrue
  BY DEF IInv, TypeOK
<1>2. UNCHANGED <<phase, disk, open, terminal, work, queue, pending, repaired,
      offered, acked, safe, mine>>
  BY DEF CommitFrameFails, Commit, Fault, Spend, CommitUnchanged, index,
     recovery, ghosts
<1>3. caller.frame \in Frames /\ caller.sealed \in SUBSET Segs /\ caller.at \in Addresses
      /\ Names(caller.at.seg, caller.at.pos, caller.frame)
  BY <1>1 DEF CommitFrameFails, AppendsHaveFrames, CallTyped, AnswersAreTrue
<1>4. caller.at.seg \in Segs /\ caller.at.pos \in Nat
  BY <1>1, <1>3 DEF Names, Published
<1>5. phase = "up" BY <1>1 DEF CommitFrameFails, StoppedIsIdle
<1>6. db \in Index BY <1>1 DEF IndexTyped
<1> DEFINE new == WithFrame(db, caller.sealed, caller.frame, caller.at)
<1>15. /\ new \in Index
       /\ new.at = [db.at EXCEPT ![caller.frame] = caller.at]
       /\ new.row[caller.at.seg] # "none"
       /\ \A s \in Segs : db.row[s] # "none" => new.row[s] # "none"
  <2>1. PICK f \in Frames, at \in Addresses, sealed \in SUBSET Segs :
          f = caller.frame /\ at = caller.at /\ sealed = caller.sealed
    BY <1>3
  <2>2. at.seg \in Segs /\ at.pos \in Nat BY <1>4, <2>1
  <2> DEFINE w == WithFrame(db, sealed, f, at)
  <2>3. /\ w \in Index
        /\ w.at = [db.at EXCEPT ![f] = at]
        /\ w.row[at.seg] # "none"
        /\ \A s \in Segs : db.row[s] # "none" => w.row[s] # "none"
    BY <1>1, <1>6, <2>2, WithFrameType
  <2>4. w = new BY <2>1
  <2> HIDE DEF w, new
  <2> QED BY <2>1, <2>3, <2>4
<1>7. (db' = db /\ past' = past) \/ (db' = new /\ past' \subseteq past \union {new})
  BY DEF CommitFrameFails, Commit, index
<1> HIDE DEF new
<1>8. CallTyped' BY <1>1, <1>2 DEF CommitFrameFails, CallTyped, Addresses
<1>9. IndexTyped' BY <1>1, <1>15, <1>7 DEF IndexTyped
<1>10. RestTyped' BY <1>1, <1>2, <1>3 DEF CommitFrameFails, RestTyped, ghosts
<1>11. CallOrder' /\ StoppedIsIdle' /\ AppendsHaveFrames' /\ AnswersAreTrue'
  BY <1>1, <1>2 DEF CommitFrameFails, CallOrder, Awaited, StoppedIsIdle,
     AppendsHaveFrames, AnswersAreTrue
<1>12. \A f \in Frames : new.at[f] # NoAddress =>
         /\ new.row[new.at[f].seg] # "none"
         /\ Names(new.at[f].seg, new.at[f].pos, f)
  <2> TAKE f \in Frames
  <2>1. CASE f = caller.frame BY <1>1, <1>3, <1>15, <2>1 DEF IndexTyped, Index
  <2>2. CASE f # caller.frame
    <3>1. new.at[f] = db.at[f] BY <1>1, <1>15, <2>2 DEF IndexTyped, Index
    <3>2. db.at[f] # NoAddress => /\ db.row[db.at[f].seg] # "none"
                                  /\ Names(db.at[f].seg, db.at[f].pos, f)
      BY <1>1, <1>5 DEF RowsHaveSegments, RowsAreTrue, Indexed
    <3> QED BY <1>15, <3>1, <3>2 DEF Names, Published
  <2> QED BY <2>1, <2>2
<1>13. RowsHaveSegments' BY <1>1, <1>7, <1>12 DEF RowsHaveSegments
<1>14. RowsAreTrue'
  <2>1. CASE db' = db BY <1>1, <1>2, <2>1 DEF RowsAreTrue, Indexed, Names, Published
  <2>2. CASE db' = new BY <1>2, <1>5, <1>12, <2>2 DEF RowsAreTrue, Indexed, Names, Published
  <2> QED BY <1>7, <2>1, <2>2
<1> QED BY <1>1, <1>2, <1>8, <1>9, <1>10, <1>11, <1>13, <1>14, FilesTypedKept,
       WorkTypedKept, FilesInUseKept DEF IInv, TypeOK

LEMMA CommitFlushKeeps ==
    ASSUME IInv, CommitFlush PROVE IInv'
<1> USE DEF IdleCaller, IdleWork, NoCommand
<1>1. /\ FilesTyped /\ WorkTyped /\ CallTyped /\ IndexTyped /\ RestTyped
      /\ CallOrder /\ StoppedIsIdle /\ AppendsHaveFrames /\ FilesInUse
      /\ AnswersAreTrue /\ RowsHaveSegments /\ RowsAreTrue
  BY DEF IInv, TypeOK
<1>2. UNCHANGED <<phase, disk, open, terminal, work, queue, pending, repaired,
      offered, acked, mine>>
  BY DEF CommitFlush, CommitUnchanged, index, recovery, ghosts
<1>3. /\ WithSealed(db, caller.sealed) \in Index
      /\ WithSealed(db, caller.sealed).at = db.at
      /\ \A s \in Segs : db.row[s] # "none" => db'.row[s] # "none"
      /\ db' = WithSealed(db, caller.sealed) /\ past' = {db'}
  BY <1>1, WithSealedType DEF CommitFlush, CallTyped, IndexTyped
<1>4. CallTyped' BY <1>1, <1>2 DEF CommitFlush, CallTyped, Addresses
<1>5. IndexTyped' BY <1>3 DEF IndexTyped, Index
<1>6. RestTyped' BY <1>1, <1>2 DEF CommitFlush, RestTyped, Covered
<1>7. CallOrder' /\ StoppedIsIdle' /\ AppendsHaveFrames' /\ AnswersAreTrue'
  BY <1>1, <1>2 DEF CommitFlush, CallOrder, Awaited, StoppedIsIdle,
     AppendsHaveFrames, AnswersAreTrue
<1>8. RowsHaveSegments'
  BY <1>1, <1>3, <1>5 DEF RowsHaveSegments, IndexTyped, Index, Addresses, NoAddress
<1>9. RowsAreTrue'
  BY <1>1, <1>2, <1>3 DEF RowsAreTrue, Indexed, Names, Published, NoAddress
<1> QED BY <1>1, <1>2, <1>4, <1>5, <1>6, <1>7, <1>8, <1>9, FilesTypedKept,
       WorkTypedKept, FilesInUseKept DEF IInv, TypeOK

LEMMA CommitFlushFailsKeeps ==
    ASSUME IInv, CommitFlushFails PROVE IInv'
<1> USE DEF IdleCaller, IdleWork, NoCommand
<1>1. /\ FilesTyped /\ WorkTyped /\ CallTyped /\ IndexTyped /\ RestTyped
      /\ CallOrder /\ StoppedIsIdle /\ AppendsHaveFrames /\ FilesInUse
      /\ AnswersAreTrue /\ RowsHaveSegments /\ RowsAreTrue
  BY DEF IInv, TypeOK
<1>2. UNCHANGED <<phase, disk, open, terminal, work, queue, pending, repaired,
      offered, acked, safe, mine>>
  BY DEF CommitFlushFails, Commit, Fault, Spend, CommitUnchanged, index,
     recovery, ghosts
<1> DEFINE new == WithSealed(db, caller.sealed)
<1>3. /\ new \in Index
      /\ new.at = db.at
      /\ \A s \in Segs : db.row[s] # "none" => new.row[s] # "none"
  BY <1>1, WithSealedType DEF CallTyped, IndexTyped
<1>4. (db' = db /\ past' = past) \/ (db' = new /\ past' \subseteq past \union {new})
  BY DEF CommitFlushFails, Commit, index
<1> HIDE DEF new
<1>5. CallTyped' BY <1>1, <1>2 DEF CommitFlushFails, CallTyped, Addresses
<1>6. IndexTyped' BY <1>1, <1>3, <1>4 DEF IndexTyped
<1>7. CallOrder' /\ StoppedIsIdle' /\ AppendsHaveFrames' /\ AnswersAreTrue'
  BY <1>1, <1>2 DEF CommitFlushFails, CallOrder, Awaited, StoppedIsIdle,
     AppendsHaveFrames, AnswersAreTrue
<1>8. \A f \in Frames : new.at[f] # NoAddress => new.row[new.at[f].seg] # "none"
  BY <1>1, <1>3 DEF RowsHaveSegments, IndexTyped, Index, Addresses, NoAddress
<1>9. RowsHaveSegments' BY <1>1, <1>4, <1>8 DEF RowsHaveSegments
<1>10. db'.at = db.at BY <1>3, <1>4
<1>11. RowsAreTrue' BY <1>1, <1>2, <1>10 DEF RowsAreTrue, Indexed, Names, Published
<1> QED BY <1>1, <1>2, <1>5, <1>6, <1>7, <1>9, <1>11, FilesTypedKept,
       WorkTypedKept, RestTypedKept, FilesInUseKept DEF IInv, TypeOK

LEMMA TakeKeeps ==
    ASSUME IInv, Take PROVE IInv'
<1> USE DEF IdleCaller, IdleWork, NoCommand
<1>1. /\ FilesTyped /\ WorkTyped /\ CallTyped /\ IndexTyped /\ RestTyped
      /\ CallOrder /\ StoppedIsIdle /\ AppendsHaveFrames /\ FilesInUse
      /\ AnswersAreTrue /\ RowsHaveSegments /\ RowsAreTrue
  BY DEF IInv, TypeOK
<1>2. UNCHANGED <<phase, disk, open, terminal, caller, db, past, pending,
      repaired, offered, acked, safe, mine>>
  BY DEF Take, WorkerUnchanged, index, recovery, ghosts
<1>3. /\ Head(queue) = queue[1] /\ Head(queue) \in Command
      /\ Tail(queue) \in Seq(Command)
      /\ Len(queue) \in Nat /\ Len(queue) >= 1
      /\ Len(Tail(queue)) \in Nat /\ Len(Tail(queue)) = Len(queue) - 1
      /\ \A i \in 1 .. Len(Tail(queue)) : Tail(queue)[i] = queue[i + 1]
  BY <1>1, QueueHead DEF Take, WorkTyped
<1>4. Head(queue).keys \subseteq Keys BY <1>3 DEF Command
<1>5. PICK todo \in SUBSET {k \in Head(queue).keys : open[k] # NoSeg} :
        work' = [pc |-> "next", cmd |-> Head(queue), seg |-> NoSeg,
                 todo |-> todo, sealed |-> {}]
  BY DEF Take, MayRotate, OpenOf
<1>6. queue' = Tail(queue) BY DEF Take
<1>7. WorkTyped' BY <1>1, <1>2, <1>3, <1>4, <1>5, <1>6 DEF WorkTyped
<1>8. CallOrder'
  <2>8. Len(queue') \in Nat /\ Len(queue) = Len(queue') + 1 BY <1>3, <1>6
  <2>1. \A i \in 1 .. Len(queue') :
          i \in Nat /\ queue'[i] = queue[i + 1] /\ i + 1 \in 1 .. Len(queue)
    BY <1>3, <1>6, <2>8
  <2>2. work'.cmd = queue[1] BY <1>3, <1>5
  <2>3. 1 \in 1 .. Len(queue) BY <1>3
  <2>4. queue[1].wanted => Len(queue) = 1 /\ Awaited(queue[1])
    BY <1>1, <2>3 DEF CallOrder
  <2>5. Len(queue') = 0 => queue' = <<>> BY <1>3, <1>6
  <2>6. work'.cmd.wanted => queue' = <<>> /\ Awaited(work'.cmd)
    BY <1>3, <1>6, <2>2, <2>4, <2>5
  <2>7. \A i \in 1 .. Len(queue') :
            queue'[i].wanted => i = Len(queue') /\ Awaited(queue'[i])
    <3> TAKE i \in 1 .. Len(queue')
    <3>1. /\ queue'[i] = queue[i + 1] /\ i + 1 \in 1 .. Len(queue)
          /\ Len(queue) = Len(queue') + 1
      BY <1>3, <1>6, <2>1
    <3>2. queue[i + 1].wanted => i + 1 = Len(queue) /\ Awaited(queue[i + 1])
      BY <1>1, <3>1 DEF CallOrder
    <3>3. i + 1 = Len(queue) => i = Len(queue') BY <2>1, <2>8
    <3> QED BY <3>1, <3>2, <3>3
  <2> QED BY <1>2, <2>6, <2>7 DEF CallOrder, Awaited
<1>9. StoppedIsIdle' BY <1>1, <1>2, <1>5 DEF Take, StoppedIsIdle
<1>10. AppendsHaveFrames'
  BY <1>1, <1>2, <1>3, <1>5, <1>6 DEF AppendsHaveFrames
<1>11. FilesInUse' BY <1>1, <1>2, <1>4, <1>5 DEF FilesInUse, Published
<1> QED BY <1>1, <1>2, <1>7, <1>8, <1>9, <1>10, <1>11, FilesTypedKept,
       CallTypedKept, IndexTypedKept, RestTypedKept, AnswersAreTrueKept,
       RowsHaveSegmentsKept, RowsAreTrueKept DEF IInv, TypeOK

LEMMA RefuseKeeps ==
    ASSUME IInv, Refuse PROVE IInv'
<1> USE DEF IdleCaller, IdleWork, NoCommand
<1>1. /\ FilesTyped /\ WorkTyped /\ CallTyped /\ IndexTyped /\ RestTyped
      /\ CallOrder /\ StoppedIsIdle /\ AppendsHaveFrames /\ FilesInUse
      /\ AnswersAreTrue /\ RowsHaveSegments /\ RowsAreTrue
  BY DEF IInv, TypeOK
<1>2. UNCHANGED <<phase, disk, open, terminal, work, db, past, pending,
      repaired, offered, acked, safe, mine>>
  BY DEF Refuse, WorkerUnchanged, index, recovery, ghosts
<1>3. /\ Head(queue) = queue[1] /\ Head(queue) \in Command
      /\ Tail(queue) \in Seq(Command)
      /\ Len(queue) \in Nat /\ Len(queue) >= 1
      /\ Len(Tail(queue)) \in Nat /\ Len(Tail(queue)) = Len(queue) - 1
      /\ \A i \in 1 .. Len(Tail(queue)) : Tail(queue)[i] = queue[i + 1]
  BY <1>1, QueueHead DEF Refuse, WorkTyped
<1>13. Len(queue') \in Nat /\ Len(queue) \in Nat /\ Len(queue) = Len(queue') + 1
  BY <1>3 DEF Refuse
<1>4. queue' = Tail(queue) /\ caller' = IF queue[1].wanted THEN IdleCaller ELSE caller
  BY <1>3 DEF Refuse
<1>5. \A i \in 1 .. Len(queue') :
        i \in Nat /\ queue'[i] = queue[i + 1] /\ i + 1 \in 1 .. Len(queue)
  BY <1>3, <1>4, <1>13
<1>6. WorkTyped' BY <1>1, <1>2, <1>3, <1>4 DEF WorkTyped
<1>7. CallTyped' BY <1>1, <1>2, <1>4, IdleTypes DEF CallTyped
<1>8. CallOrder'
  <2>1. work' = work /\ ~work.cmd.wanted /\ 1 \in 1 .. Len(queue)
    BY <1>1, <1>2, <1>3 DEF Refuse, StoppedIsIdle
  <2>2. CASE queue[1].wanted
    <3>1. Len(queue) = 1 BY <1>1, <2>1, <2>2 DEF CallOrder
    <3>4. PICK m \in Nat, n \in Nat : Len(queue') = m /\ Len(queue) = n
      BY <1>13
    <3>5. n = m + 1 /\ n = 1 BY <1>13, <3>1, <3>4
    <3>6. m = 0 BY <3>5
    <3>3. Len(queue') = 0 BY <3>4, <3>6
    <3>2. \A i \in 1 .. Len(queue') : FALSE BY <3>3
    <3> QED BY <2>1, <3>2 DEF CallOrder
  <2>3. CASE ~queue[1].wanted
    <3>1. caller' = caller BY <1>4, <2>3
    <3>2. \A i \in 1 .. Len(queue') :
              queue'[i].wanted => i = Len(queue') /\ Awaited(queue[i + 1])
      <4> TAKE i \in 1 .. Len(queue')
      <4>1. queue[i + 1].wanted => i + 1 = Len(queue) /\ Awaited(queue[i + 1])
        BY <1>1, <1>5 DEF CallOrder
      <4>2. i + 1 = Len(queue) => i = Len(queue') BY <1>5, <1>13
      <4> QED BY <1>5, <4>1, <4>2
    <3> QED BY <1>5, <2>1, <3>1, <3>2 DEF CallOrder, Awaited
  <2> QED BY <2>2, <2>3
<1>9. StoppedIsIdle' BY <1>1, <1>2 DEF Refuse, StoppedIsIdle
<1>10. AppendsHaveFrames' BY <1>1, <1>2, <1>4, <1>5 DEF AppendsHaveFrames
<1>11. AnswersAreTrue'
  BY <1>1, <1>2, <1>4, GrowingKeepsAnswers, SameFilesGrow
<1> QED BY <1>1, <1>2, <1>6, <1>7, <1>8, <1>9, <1>10, <1>11, FilesTypedKept,
       IndexTypedKept, RestTypedKept, FilesInUseKept, RowsHaveSegmentsKept,
       RowsAreTrueKept DEF IInv, TypeOK

LEMMA StartSealKeeps ==
    ASSUME IInv, NEW k \in Keys, StartSeal(k) PROVE IInv'
<1> USE DEF IdleCaller, IdleWork, NoCommand
<1>1. /\ FilesTyped /\ WorkTyped /\ CallTyped /\ IndexTyped /\ RestTyped
      /\ CallOrder /\ StoppedIsIdle /\ AppendsHaveFrames /\ FilesInUse
      /\ AnswersAreTrue /\ RowsHaveSegments /\ RowsAreTrue
  BY DEF IInv, TypeOK
<1>2. UNCHANGED <<phase, disk, terminal, queue, caller, db, past, pending,
      repaired, offered, acked, safe, mine>>
  BY DEF StartSeal, Step, To, StepUnchanged, WorkerUnchanged, index, recovery,
     ghosts
<1>3. WorkTyped'
  BY <1>1, <1>2 DEF StartSeal, Step, To, StepUnchanged, WorkerUnchanged, index,
     recovery, ghosts, WorkTyped, Command
<1>4. CallOrder'
  BY <1>1, <1>2 DEF StartSeal, Step, To, StepUnchanged, WorkerUnchanged, index,
     recovery, ghosts, CallOrder, Awaited, WorkTyped, Command
<1>5. StoppedIsIdle'
  BY <1>1, <1>2 DEF StartSeal, Step, To, StepUnchanged, WorkerUnchanged, index,
     recovery, ghosts, StoppedIsIdle, WorkTyped, Command
<1>6. AppendsHaveFrames'
  BY <1>1, <1>2 DEF StartSeal, Step, To, StepUnchanged, WorkerUnchanged, index,
     recovery, ghosts, AppendsHaveFrames, WorkTyped, Command
<1>7. FilesInUse'
  BY <1>1, <1>2 DEF StartSeal, Step, To, StepUnchanged, WorkerUnchanged, index,
     recovery, ghosts, FilesInUse, Published, WorkTyped, Command
<1>8. QED BY <1>1, <1>2, <1>3, <1>4, <1>5, <1>6, <1>7, FilesTypedKept,
       CallTypedKept, IndexTypedKept, RestTypedKept, AnswersAreTrueKept,
       RowsHaveSegmentsKept, RowsAreTrueKept DEF IInv, TypeOK

LEMMA WriteFooterKeeps ==
    ASSUME IInv, WriteFooter PROVE IInv'
<1> USE DEF IdleCaller, IdleWork, NoCommand
<1>1. /\ FilesTyped /\ WorkTyped /\ CallTyped /\ IndexTyped /\ RestTyped
      /\ CallOrder /\ StoppedIsIdle /\ AppendsHaveFrames /\ FilesInUse
      /\ AnswersAreTrue /\ RowsHaveSegments /\ RowsAreTrue
  BY DEF IInv, TypeOK
<1>2. UNCHANGED <<phase, open, terminal, queue, caller, db, past, pending,
      repaired, offered, acked, safe, mine>>
  BY DEF WriteFooter, Step, To, StepUnchanged, WorkerUnchanged, index,
     recovery, ghosts
<1>3. phase = "up" /\ work.seg \in Segs /\ Published(work.seg)
  BY <1>1 DEF WriteFooter, Step, FilesInUse, Published
<1> DEFINE g == [disk[work.seg] EXCEPT !.tail = "footer"]
<1>4. g \in File /\ g.recs = disk[work.seg].recs /\ g.name = disk[work.seg].name
  BY <1>1, <1>3, FileSetters DEF FilesTyped, Tails
<1>5. disk' = [disk EXCEPT ![work.seg] = g] BY DEF WriteFooter
<1> HIDE DEF g
<1>6. FilesTyped' /\ FilesGrow BY <1>1, <1>3, <1>4, <1>5, SetterGrows DEF Published
<1>7. WorkTyped' BY <1>1, <1>2, <1>3 DEF WriteFooter, Step, To, WorkTyped
<1>8. FilesInUse'
  BY <1>1, <1>2, <1>3, <1>6, GrowingKeepsUse DEF WriteFooter, Step, To, WorkTyped
<1>9. /\ work.pc # "idle" /\ work'.pc # "idle" /\ work'.cmd = work.cmd
      /\ mine' \subseteq Segs
      /\ UNCHANGED <<terminal, queue, caller>> /\ WorkerUnchanged
  BY <1>1, <1>2 DEF WriteFooter, Step, To, StepUnchanged, WorkTyped, RestTyped
<1> QED BY <1>3, <1>6, <1>7, <1>8, <1>9, StepKeeps

LEMMA WriteFooterFailsKeeps ==
    ASSUME IInv, WriteFooterFails PROVE IInv'
<1> USE DEF IdleCaller, IdleWork, NoCommand
<1>1. /\ FilesTyped /\ WorkTyped /\ CallTyped /\ IndexTyped /\ RestTyped
      /\ CallOrder /\ StoppedIsIdle /\ AppendsHaveFrames /\ FilesInUse
      /\ AnswersAreTrue /\ RowsHaveSegments /\ RowsAreTrue
  BY DEF IInv, TypeOK
<1>2. UNCHANGED <<phase, open, queue, db, past, pending, repaired, offered,
      acked, safe, mine>>
  BY DEF WriteFooterFails, Step, Fails, Fault, Spend, Answer, WorkerUnchanged,
     index, recovery, ghosts
<1>3. phase = "up" /\ work.seg \in Segs /\ Published(work.seg)
  BY <1>1 DEF WriteFooterFails, Step, FilesInUse, Published
<1>4. PICK t \in Tails : disk' = [disk EXCEPT ![work.seg].tail = t] BY DEF WriteFooterFails
<1> DEFINE g == [disk[work.seg] EXCEPT !.tail = t]
<1>5. g \in File /\ g.recs = disk[work.seg].recs /\ g.name = disk[work.seg].name
  BY <1>1, <1>3, FileSetters DEF FilesTyped
<1>6. disk' = [disk EXCEPT ![work.seg] = g] BY <1>4
<1> HIDE DEF g
<1>7. FilesTyped' /\ FilesGrow BY <1>1, <1>3, <1>5, <1>6, SetterGrows DEF Published
<1>8. Fails(TRUE) /\ UNCHANGED <<open, queue, mine>> BY DEF WriteFooterFails
<1> QED BY <1>3, <1>7, <1>8, FailureKeeps

LEMMA SyncSealedKeeps ==
    ASSUME IInv, SyncSealed PROVE IInv'
<1> USE DEF IdleCaller, IdleWork, NoCommand
<1>1. /\ FilesTyped /\ WorkTyped /\ CallTyped /\ IndexTyped /\ RestTyped
      /\ CallOrder /\ StoppedIsIdle /\ AppendsHaveFrames /\ FilesInUse
      /\ AnswersAreTrue /\ RowsHaveSegments /\ RowsAreTrue
  BY DEF IInv, TypeOK
<1>2. UNCHANGED <<phase, open, terminal, queue, caller, db, past, pending,
      repaired, offered, acked, safe, mine>>
  BY DEF SyncSealed, Synced, Step, To, StepUnchanged, WorkerUnchanged, index,
     recovery, ghosts
<1>3. phase = "up" /\ work.seg \in Segs /\ Published(work.seg)
  BY <1>1 DEF SyncSealed, Step, FilesInUse, Published
<1> DEFINE g == Synced(disk[work.seg])
<1>4. g \in File /\ g.recs = disk[work.seg].recs /\ g.name = disk[work.seg].name
  BY <1>1, <1>3, SyncedType DEF FilesTyped, Tails
<1>5. disk' = [disk EXCEPT ![work.seg] = g] BY DEF SyncSealed
<1> HIDE DEF g
<1>6. FilesTyped' /\ FilesGrow BY <1>1, <1>3, <1>4, <1>5, SetterGrows DEF Published
<1>7. WorkTyped' BY <1>1, <1>2, <1>3 DEF SyncSealed, Step, To, WorkTyped
<1>8. FilesInUse'
  BY <1>1, <1>2, <1>3, <1>6, GrowingKeepsUse DEF SyncSealed, Step, To, WorkTyped
<1>9. /\ work.pc # "idle" /\ work'.pc # "idle" /\ work'.cmd = work.cmd
      /\ mine' \subseteq Segs
      /\ UNCHANGED <<terminal, queue, caller>> /\ WorkerUnchanged
  BY <1>1, <1>2 DEF SyncSealed, Step, To, StepUnchanged, WorkTyped, RestTyped
<1> QED BY <1>3, <1>6, <1>7, <1>8, <1>9, StepKeeps

LEMMA SyncSealedFailsKeeps ==
    ASSUME IInv, SyncSealedFails PROVE IInv'
<1> USE DEF IdleCaller, IdleWork, NoCommand
<1>1. /\ FilesTyped /\ WorkTyped /\ CallTyped /\ IndexTyped /\ RestTyped
      /\ CallOrder /\ StoppedIsIdle /\ AppendsHaveFrames /\ FilesInUse
      /\ AnswersAreTrue /\ RowsHaveSegments /\ RowsAreTrue
  BY DEF IInv, TypeOK
<1>2. UNCHANGED <<phase, disk, open, queue, db, past, pending, repaired,
      offered, acked, safe, mine>>
  BY DEF SyncSealedFails, Step, Fails, Fault, Spend, Answer, WorkerUnchanged,
     index, recovery, ghosts
<1>3. UNCHANGED disk /\ phase = "up" BY DEF SyncSealedFails, Step
<1>4. FilesTyped' /\ FilesGrow BY <1>1, <1>3, FilesTypedKept, SameFilesGrow
<1>5. \E latch \in BOOLEAN : Fails(latch) BY DEF SyncSealedFails
<1>6. UNCHANGED <<open, queue, mine>> BY DEF SyncSealedFails
<1> QED BY <1>3, <1>4, <1>5, <1>6, FailureKeeps

LEMMA RenameSealedKeeps ==
    ASSUME IInv, RenameSealed PROVE IInv'
<1> USE DEF IdleCaller, IdleWork, NoCommand
<1>1. /\ FilesTyped /\ WorkTyped /\ CallTyped /\ IndexTyped /\ RestTyped
      /\ CallOrder /\ StoppedIsIdle /\ AppendsHaveFrames /\ FilesInUse
      /\ AnswersAreTrue /\ RowsHaveSegments /\ RowsAreTrue
  BY DEF IInv, TypeOK
<1>2. UNCHANGED <<phase, open, terminal, queue, caller, db, past, pending,
      repaired, offered, acked, safe, mine>>
  BY DEF RenameSealed, Step, To, StepUnchanged, WorkerUnchanged, index,
     recovery, ghosts
<1>3. phase = "up" /\ work.seg \in Segs /\ Published(work.seg)
  BY <1>1 DEF RenameSealed, Step, FilesInUse, Published
<1> DEFINE g == [disk[work.seg] EXCEPT !.name = "sealed"]
<1>4. g \in File /\ g.recs = disk[work.seg].recs /\ g.name = "sealed"
  BY <1>1, <1>3, FileSetters DEF FilesTyped, Tails
<1>5. disk' = [disk EXCEPT ![work.seg] = g] BY DEF RenameSealed
<1> HIDE DEF g
<1>6. FilesTyped' /\ FilesGrow BY <1>1, <1>3, <1>4, <1>5, SetterGrows DEF Published
<1>7. WorkTyped' BY <1>1, <1>2, <1>3 DEF RenameSealed, Step, To, WorkTyped
<1>8. FilesInUse'
  BY <1>1, <1>2, <1>3, <1>6, GrowingKeepsUse DEF RenameSealed, Step, To, WorkTyped
<1>9. /\ work.pc # "idle" /\ work'.pc # "idle" /\ work'.cmd = work.cmd
      /\ mine' \subseteq Segs
      /\ UNCHANGED <<terminal, queue, caller>> /\ WorkerUnchanged
  BY <1>1, <1>2 DEF RenameSealed, Step, To, StepUnchanged, WorkTyped, RestTyped
<1> QED BY <1>3, <1>6, <1>7, <1>8, <1>9, StepKeeps

LEMMA RenameSealedFailsKeeps ==
    ASSUME IInv, RenameSealedFails PROVE IInv'
<1> USE DEF IdleCaller, IdleWork, NoCommand
<1>1. /\ FilesTyped /\ WorkTyped /\ CallTyped /\ IndexTyped /\ RestTyped
      /\ CallOrder /\ StoppedIsIdle /\ AppendsHaveFrames /\ FilesInUse
      /\ AnswersAreTrue /\ RowsHaveSegments /\ RowsAreTrue
  BY DEF IInv, TypeOK
<1>2. UNCHANGED <<phase, disk, open, queue, db, past, pending, repaired,
      offered, acked, safe, mine>>
  BY DEF RenameSealedFails, Step, Fails, Fault, Spend, Answer, WorkerUnchanged,
     index, recovery, ghosts
<1>3. UNCHANGED disk /\ phase = "up" BY DEF RenameSealedFails, Step
<1>4. FilesTyped' /\ FilesGrow BY <1>1, <1>3, FilesTypedKept, SameFilesGrow
<1>5. \E latch \in BOOLEAN : Fails(latch) BY DEF RenameSealedFails
<1>6. UNCHANGED <<open, queue, mine>> BY DEF RenameSealedFails
<1> QED BY <1>3, <1>4, <1>5, <1>6, FailureKeeps

LEMMA PublishSealedKeeps ==
    ASSUME IInv, PublishSealed PROVE IInv'
<1> USE DEF IdleCaller, IdleWork, NoCommand
<1>1. /\ FilesTyped /\ WorkTyped /\ CallTyped /\ IndexTyped /\ RestTyped
      /\ CallOrder /\ StoppedIsIdle /\ AppendsHaveFrames /\ FilesInUse
      /\ AnswersAreTrue /\ RowsHaveSegments /\ RowsAreTrue
  BY DEF IInv, TypeOK
<1>2. UNCHANGED <<phase, open, terminal, queue, caller, db, past, pending,
      repaired, offered, acked, safe, mine>>
  BY DEF PublishSealed, Step, To, StepUnchanged, WorkerUnchanged, index,
     recovery, ghosts
<1>3. phase = "up" /\ work.seg \in Segs /\ Published(work.seg)
  BY <1>1 DEF PublishSealed, Step, FilesInUse, Published
<1> DEFINE g == [disk[work.seg] EXCEPT !.dname = "sealed"]
<1>4. g \in File /\ g.recs = disk[work.seg].recs /\ g.name = disk[work.seg].name
  BY <1>1, <1>3, FileSetters DEF FilesTyped, Tails
<1>5. disk' = [disk EXCEPT ![work.seg] = g] BY DEF PublishSealed
<1> HIDE DEF g
<1>6. FilesTyped' /\ FilesGrow BY <1>1, <1>3, <1>4, <1>5, SetterGrows DEF Published
<1>7. WorkTyped' BY <1>1, <1>2, <1>3 DEF PublishSealed, Step, To, WorkTyped
<1>8. FilesInUse'
  BY <1>1, <1>2, <1>3, <1>6, GrowingKeepsUse DEF PublishSealed, Step, To, WorkTyped
<1>9. /\ work.pc # "idle" /\ work'.pc # "idle" /\ work'.cmd = work.cmd
      /\ mine' \subseteq Segs
      /\ UNCHANGED <<terminal, queue, caller>> /\ WorkerUnchanged
  BY <1>1, <1>2 DEF PublishSealed, Step, To, StepUnchanged, WorkTyped, RestTyped
<1> QED BY <1>3, <1>6, <1>7, <1>8, <1>9, StepKeeps

LEMMA PublishSealedFailsKeeps ==
    ASSUME IInv, PublishSealedFails PROVE IInv'
<1> USE DEF IdleCaller, IdleWork, NoCommand
<1>1. /\ FilesTyped /\ WorkTyped /\ CallTyped /\ IndexTyped /\ RestTyped
      /\ CallOrder /\ StoppedIsIdle /\ AppendsHaveFrames /\ FilesInUse
      /\ AnswersAreTrue /\ RowsHaveSegments /\ RowsAreTrue
  BY DEF IInv, TypeOK
<1>2. UNCHANGED <<phase, disk, open, queue, db, past, pending, repaired,
      offered, acked, safe, mine>>
  BY DEF PublishSealedFails, Step, Fails, Fault, Spend, Answer,
     WorkerUnchanged, index, recovery, ghosts
<1>3. UNCHANGED disk /\ phase = "up" BY DEF PublishSealedFails, Step
<1>4. FilesTyped' /\ FilesGrow BY <1>1, <1>3, FilesTypedKept, SameFilesGrow
<1>5. \E latch \in BOOLEAN : Fails(latch) BY DEF PublishSealedFails
<1>6. UNCHANGED <<open, queue, mine>> BY DEF PublishSealedFails
<1> QED BY <1>3, <1>4, <1>5, <1>6, FailureKeeps

LEMMA CreateOpenKeeps ==
    ASSUME IInv, NEW k \in Keys, CreateOpen(k) PROVE IInv'
<1> USE DEF IdleCaller, IdleWork, NoCommand
<1>1. /\ FilesTyped /\ WorkTyped /\ CallTyped /\ IndexTyped /\ RestTyped
      /\ CallOrder /\ StoppedIsIdle /\ AppendsHaveFrames /\ FilesInUse
      /\ AnswersAreTrue /\ RowsHaveSegments /\ RowsAreTrue
  BY DEF IInv, TypeOK
<1>2. UNCHANGED <<phase, open, terminal, queue, caller, db, past, pending,
      repaired, offered, acked, safe>>
  BY DEF CreateOpen, Appending, Step, WorkerUnchanged, index, recovery, ghosts
<1>3. phase = "up" /\ work.cmd.frame \in Segs /\ work.todo = {}
  BY <1>1 DEF CreateOpen, Appending, Step, AppendsHaveFrames, Segs
<1>4. PICK s \in Segs : s = work.cmd.frame BY <1>3
<1> DEFINE g == [NoFile EXCEPT !.name = "open", !.key = k]
<1>5. g \in File /\ g.name = "open" BY EmptySeq DEF NoFile, File, Tails
<1>6. disk' = [disk EXCEPT ![s] = g] /\ ~Published(s)
  BY <1>4 DEF CreateOpen, Published
<1> HIDE DEF g
<1>7. FilesTyped' /\ FilesGrow BY <1>1, <1>5, <1>6, OneFileGrows
<1>8. disk'[s] = g BY <1>1, <1>6 DEF FilesTyped
<1>9. work' = [work EXCEPT !.pc = "header", !.seg = s] BY <1>4 DEF CreateOpen
<1>10. WorkTyped' BY <1>1, <1>2, <1>9 DEF CreateOpen, WorkTyped
<1>11. /\ work'.pc = "header" /\ work'.seg = s /\ work'.todo = {}
       /\ work'.cmd = work.cmd
  BY <1>1, <1>3, <1>9 DEF WorkTyped
<1>12. \A q \in Keys : open'[q] # NoSeg =>
          open'[q] \in Segs /\ disk'[open'[q]].name \in {"open", "sealed"}
  <2> SUFFICES ASSUME NEW q \in Keys, open'[q] # NoSeg
               PROVE  open'[q] \in Segs /\ disk'[open'[q]].name \in {"open", "sealed"}
    OBVIOUS
  <2>1. PICK r : r = open[q] OBVIOUS
  <2>2. open'[q] = r /\ Published(r) BY <1>1, <1>2, <2>1 DEF FilesInUse
  <2> QED BY <1>7, <2>2 DEF FilesGrow, Published
<1>13. FilesInUse' BY <1>5, <1>8, <1>11, <1>12 DEF FilesInUse, Published
<1>14. /\ work.pc # "idle" /\ mine' \subseteq Segs
       /\ UNCHANGED <<terminal, queue, caller>> /\ WorkerUnchanged
  BY <1>1, <1>3 DEF CreateOpen, Appending, Step, RestTyped
<1> QED BY <1>3, <1>7, <1>10, <1>11, <1>13, <1>14, StepKeeps

LEMMA CreateOpenFailsKeeps ==
    ASSUME IInv, NEW k \in Keys, CreateOpenFails(k) PROVE IInv'
<1> USE DEF IdleCaller, IdleWork, NoCommand
<1>1. /\ FilesTyped /\ WorkTyped /\ CallTyped /\ IndexTyped /\ RestTyped
      /\ CallOrder /\ StoppedIsIdle /\ AppendsHaveFrames /\ FilesInUse
      /\ AnswersAreTrue /\ RowsHaveSegments /\ RowsAreTrue
  BY DEF IInv, TypeOK
<1>2. UNCHANGED <<phase, disk, open, queue, db, past, pending, repaired,
      offered, acked, safe, mine>>
  BY DEF CreateOpenFails, Appending, Step, Fails, Fault, Spend, Answer,
     WorkerUnchanged, index, recovery, ghosts
<1>3. UNCHANGED disk /\ phase = "up" BY DEF CreateOpenFails, Appending, Step
<1>4. FilesTyped' /\ FilesGrow BY <1>1, <1>3, FilesTypedKept, SameFilesGrow
<1>5. \E latch \in BOOLEAN : Fails(latch) BY DEF CreateOpenFails
<1>6. UNCHANGED <<open, queue, mine>> BY DEF CreateOpenFails
<1> QED BY <1>3, <1>4, <1>5, <1>6, FailureKeeps

LEMMA WriteHeaderKeeps ==
    ASSUME IInv, WriteHeader PROVE IInv'
<1> USE DEF IdleCaller, IdleWork, NoCommand
<1>1. /\ FilesTyped /\ WorkTyped /\ CallTyped /\ IndexTyped /\ RestTyped
      /\ CallOrder /\ StoppedIsIdle /\ AppendsHaveFrames /\ FilesInUse
      /\ AnswersAreTrue /\ RowsHaveSegments /\ RowsAreTrue
  BY DEF IInv, TypeOK
<1>2. UNCHANGED <<phase, open, terminal, queue, caller, db, past, pending,
      repaired, offered, acked, safe, mine>>
  BY DEF WriteHeader, Step, To, StepUnchanged, WorkerUnchanged, index,
     recovery, ghosts
<1>3. phase = "up" /\ work.seg \in Segs /\ Published(work.seg)
  BY <1>1 DEF WriteHeader, Step, FilesInUse, Published
<1> DEFINE g == [disk[work.seg] EXCEPT !.hdr = TRUE]
<1>4. g \in File /\ g.recs = disk[work.seg].recs /\ g.name = disk[work.seg].name
  BY <1>1, <1>3, FileSetters DEF FilesTyped, Tails
<1>5. disk' = [disk EXCEPT ![work.seg] = g] BY DEF WriteHeader
<1> HIDE DEF g
<1>6. FilesTyped' /\ FilesGrow BY <1>1, <1>3, <1>4, <1>5, SetterGrows DEF Published
<1>7. WorkTyped' BY <1>1, <1>2, <1>3 DEF WriteHeader, Step, To, WorkTyped
<1>8. FilesInUse'
  BY <1>1, <1>2, <1>3, <1>6, GrowingKeepsUse DEF WriteHeader, Step, To, WorkTyped
<1>9. /\ work.pc # "idle" /\ work'.pc # "idle" /\ work'.cmd = work.cmd
      /\ mine' \subseteq Segs
      /\ UNCHANGED <<terminal, queue, caller>> /\ WorkerUnchanged
  BY <1>1, <1>2 DEF WriteHeader, Step, To, StepUnchanged, WorkTyped, RestTyped
<1> QED BY <1>3, <1>6, <1>7, <1>8, <1>9, StepKeeps

LEMMA WriteHeaderFailsKeeps ==
    ASSUME IInv, WriteHeaderFails PROVE IInv'
<1> USE DEF IdleCaller, IdleWork, NoCommand
<1>1. /\ FilesTyped /\ WorkTyped /\ CallTyped /\ IndexTyped /\ RestTyped
      /\ CallOrder /\ StoppedIsIdle /\ AppendsHaveFrames /\ FilesInUse
      /\ AnswersAreTrue /\ RowsHaveSegments /\ RowsAreTrue
  BY DEF IInv, TypeOK
<1>2. UNCHANGED <<phase, open, queue, db, past, pending, repaired, offered,
      acked, safe, mine>>
  BY DEF WriteHeaderFails, Step, Fails, Fault, Spend, Answer, WorkerUnchanged,
     index, recovery, ghosts
<1>3. phase = "up" /\ work.seg \in Segs /\ Published(work.seg)
  BY <1>1 DEF WriteHeaderFails, Step, FilesInUse, Published
<1>4. PICK h \in BOOLEAN : disk' = [disk EXCEPT ![work.seg].hdr = h] BY DEF WriteHeaderFails
<1> DEFINE g == [disk[work.seg] EXCEPT !.hdr = h]
<1>5. g \in File /\ g.recs = disk[work.seg].recs /\ g.name = disk[work.seg].name
  BY <1>1, <1>3, FileSetters DEF FilesTyped
<1>6. disk' = [disk EXCEPT ![work.seg] = g] BY <1>4
<1> HIDE DEF g
<1>7. FilesTyped' /\ FilesGrow BY <1>1, <1>3, <1>5, <1>6, SetterGrows DEF Published
<1>8. Fails(TRUE) /\ UNCHANGED <<open, queue, mine>> BY DEF WriteHeaderFails
<1> QED BY <1>3, <1>7, <1>8, FailureKeeps

LEMMA PublishOpenKeeps ==
    ASSUME IInv, NEW k \in Keys, PublishOpen(k) PROVE IInv'
<1> USE DEF IdleCaller, IdleWork, NoCommand
<1>1. /\ FilesTyped /\ WorkTyped /\ CallTyped /\ IndexTyped /\ RestTyped
      /\ CallOrder /\ StoppedIsIdle /\ AppendsHaveFrames /\ FilesInUse
      /\ AnswersAreTrue /\ RowsHaveSegments /\ RowsAreTrue
  BY DEF IInv, TypeOK
<1>2. UNCHANGED <<phase, terminal, queue, caller, db, past, pending, repaired,
      offered, acked, safe, mine>>
  BY DEF PublishOpen, Step, To, StepUnchanged, WorkerUnchanged, index,
     recovery, ghosts
<1>3. phase = "up" /\ work.seg \in Segs /\ Published(work.seg)
  BY <1>1 DEF PublishOpen, Step, FilesInUse, Published
<1> DEFINE g == [disk[work.seg] EXCEPT !.dname = "open"]
<1>4. g \in File /\ g.recs = disk[work.seg].recs /\ g.name = disk[work.seg].name
  BY <1>1, <1>3, FileSetters DEF FilesTyped, Tails
<1>5. disk' = [disk EXCEPT ![work.seg] = g] BY DEF PublishOpen
<1> HIDE DEF g
<1>6. FilesTyped' /\ FilesGrow BY <1>1, <1>3, <1>4, <1>5, SetterGrows DEF Published
<1>7. WorkTyped' BY <1>1, <1>2, <1>3 DEF PublishOpen, Step, To, WorkTyped
<1>10. k \in Keys BY <1>1 DEF PublishOpen
<1>11. PICK r \in Segs : r = work.seg BY <1>3
<1>12. Published(r)' BY <1>3, <1>6, <1>11 DEF FilesGrow, Published
<1>13. ASSUME NEW q \in Keys, open'[q] # NoSeg
       PROVE  open'[q] \in Segs /\ disk'[open'[q]].name \in {"open", "sealed"}
  <2>1. CASE q = k
    <3>1. open'[q] = r BY <1>1, <1>11, <2>1 DEF PublishOpen, WorkTyped
    <3> QED BY <1>12, <3>1 DEF Published
  <2>2. CASE q # k
    <3>1. open'[q] = open[q] BY <1>1, <2>2 DEF PublishOpen, WorkTyped
    <3>2. PICK s : s = open[q] OBVIOUS
    <3>3. Published(s) BY <1>1, <1>13, <3>1, <3>2 DEF FilesInUse
    <3> QED BY <1>6, <3>1, <3>2, <3>3 DEF FilesGrow, Published
  <2> QED BY <2>1, <2>2
<1>14. \A q \in work'.todo : q \in Keys /\ open'[q] # NoSeg
  <2>1. work'.todo = work.todo /\ open' = [open EXCEPT ![k] = work.seg]
    BY <1>1 DEF PublishOpen, WorkTyped
  <2>2. work.seg # NoSeg BY <1>3, StoreAssumption DEF Segs, Frames, NoSeg
  <2>3. \A q \in work.todo : q \in Keys /\ open[q] # NoSeg BY <1>1 DEF FilesInUse
  <2> QED BY <1>1, <2>1, <2>2, <2>3 DEF WorkTyped
<1>8. FilesInUse'
  BY <1>1, <1>13, <1>14 DEF PublishOpen, FilesInUse, Published, WorkTyped
<1>9. /\ work.pc # "idle" /\ work'.pc # "idle" /\ work'.cmd = work.cmd
      /\ mine' \subseteq Segs
      /\ UNCHANGED <<terminal, queue, caller>> /\ WorkerUnchanged
  BY <1>1, <1>2 DEF PublishOpen, Step, To, StepUnchanged, WorkTyped, RestTyped
<1> QED BY <1>3, <1>6, <1>7, <1>8, <1>9, StepKeeps

LEMMA PublishOpenFailsKeeps ==
    ASSUME IInv, PublishOpenFails PROVE IInv'
<1> USE DEF IdleCaller, IdleWork, NoCommand
<1>1. /\ FilesTyped /\ WorkTyped /\ CallTyped /\ IndexTyped /\ RestTyped
      /\ CallOrder /\ StoppedIsIdle /\ AppendsHaveFrames /\ FilesInUse
      /\ AnswersAreTrue /\ RowsHaveSegments /\ RowsAreTrue
  BY DEF IInv, TypeOK
<1>2. UNCHANGED <<phase, disk, open, queue, db, past, pending, repaired,
      offered, acked, safe, mine>>
  BY DEF PublishOpenFails, Step, Fails, Fault, Spend, Answer, WorkerUnchanged,
     index, recovery, ghosts
<1>3. UNCHANGED disk /\ phase = "up" BY DEF PublishOpenFails, Step
<1>4. FilesTyped' /\ FilesGrow BY <1>1, <1>3, FilesTypedKept, SameFilesGrow
<1>5. \E latch \in BOOLEAN : Fails(latch) BY DEF PublishOpenFails
<1>6. UNCHANGED <<open, queue, mine>> BY DEF PublishOpenFails
<1> QED BY <1>3, <1>4, <1>5, <1>6, FailureKeeps

LEMMA WriteRecordKeeps ==
    ASSUME IInv, NEW k \in Keys, WriteRecord(k) PROVE IInv'
<1> USE DEF IdleCaller, IdleWork, NoCommand
<1>1. /\ FilesTyped /\ WorkTyped /\ CallTyped /\ IndexTyped /\ RestTyped
      /\ CallOrder /\ StoppedIsIdle /\ AppendsHaveFrames /\ FilesInUse
      /\ AnswersAreTrue /\ RowsHaveSegments /\ RowsAreTrue
  BY DEF IInv, TypeOK
<1>2. UNCHANGED <<phase, open, terminal, queue, db, past, pending, repaired,
      offered, acked, safe, mine>>
  BY DEF WriteRecord, Appending, Step, Done, Answer, WorkerUnchanged, index,
     recovery, ghosts
<1>3. /\ phase = "up" /\ work.pc = "next" /\ work.cmd.op = "append"
      /\ work.cmd.frame \in Frames /\ open[k] # NoSeg /\ Published(open[k])
  BY <1>1 DEF WriteRecord, Appending, Step, AppendsHaveFrames, FilesInUse
<1>4. PICK s \in Segs, f \in Frames : s = open[k] /\ f = work.cmd.frame
  BY <1>3 DEF Published
<1>5. PICK g \in File : /\ g = [disk[s] EXCEPT !.recs = Append(disk[s].recs, f)]
                        /\ Grown(disk[s], g, f)
  BY <1>1, <1>4, AppendGrows DEF FilesTyped
<1>6. disk' = [disk EXCEPT ![s] = g] BY <1>4, <1>5 DEF WriteRecord
<1>7. FilesTyped' /\ FilesGrow
  BY <1>1, <1>3, <1>4, <1>5, <1>6, OneFileGrows DEF Published, Grown
<1>8. PICK n \in Nat : n = Len(disk[s].recs) + 1
  BY <1>1, <1>4 DEF FilesTyped, File
<1>9. Names(s, n, f)'
  <2>1. disk'[s] = g BY <1>1, <1>6 DEF FilesTyped
  <2> QED BY <1>3, <1>4, <1>5, <1>8, <2>1 DEF Grown, Names, Published
<1> DEFINE at == Address(s, n)
<1>10. at \in Addresses /\ at.seg = s /\ at.pos = n BY <1>4, <1>8 DEF Address, Addresses
<1>11. Done(work.sealed, at) BY <1>4, <1>8 DEF WriteRecord
<1> HIDE DEF at
<1>12. work.sealed \in SUBSET Segs BY <1>1 DEF WorkTyped
<1>13. Names(at.seg, at.pos, f)' BY <1>9, <1>10
<1>14. UNCHANGED <<open, terminal, queue, mine>> /\ WorkerUnchanged BY DEF WriteRecord
<1> QED BY <1>3, <1>4, <1>7, <1>10, <1>11, <1>12, <1>13, <1>14, DoneKeeps

LEMMA WriteRecordFailsKeeps ==
    ASSUME IInv, NEW k \in Keys, WriteRecordFails(k) PROVE IInv'
<1> USE DEF IdleCaller, IdleWork, NoCommand
<1>1. /\ FilesTyped /\ WorkTyped /\ CallTyped /\ IndexTyped /\ RestTyped
      /\ CallOrder /\ StoppedIsIdle /\ AppendsHaveFrames /\ FilesInUse
      /\ AnswersAreTrue /\ RowsHaveSegments /\ RowsAreTrue
  BY DEF IInv, TypeOK
<1>2. UNCHANGED <<phase, open, queue, db, past, pending, repaired, offered,
      acked, safe, mine>>
  BY DEF WriteRecordFails, Appending, Step, Fails, Fault, Spend, Answer,
     WorkerUnchanged, index, recovery, ghosts
<1>3. /\ phase = "up" /\ work.cmd.frame \in Frames
      /\ open[k] # NoSeg /\ Published(open[k])
  BY <1>1 DEF WriteRecordFails, Appending, Step, AppendsHaveFrames, FilesInUse
<1>4. PICK s \in Segs, f \in Frames : s = open[k] /\ f = work.cmd.frame
  BY <1>3 DEF Published
<1>5. FilesTyped' /\ FilesGrow
  <2>1. CASE UNCHANGED disk BY <1>1, <2>1, FilesTypedKept, SameFilesGrow
  <2>2. CASE disk' = [disk EXCEPT ![s].tail = "torn"]
    <3> DEFINE g == [disk[s] EXCEPT !.tail = "torn"]
    <3>1. g \in File /\ g.recs = disk[s].recs /\ g.name = disk[s].name
      BY <1>1, FileSetters DEF FilesTyped, Tails
    <3>2. disk' = [disk EXCEPT ![s] = g] BY <2>2
    <3> HIDE DEF g
    <3> QED BY <1>1, <3>1, <3>2, SetterGrows DEF Published
  <2>3. CASE disk' = [disk EXCEPT ![s].recs = Append(@, f)]
    <3>1. PICK g \in File : /\ g = [disk[s] EXCEPT !.recs = Append(disk[s].recs, f)]
                            /\ Grown(disk[s], g, f)
      BY <1>1, <1>4, AppendGrows DEF FilesTyped
    <3>2. disk' = [disk EXCEPT ![s] = g] BY <2>3, <3>1
    <3> QED BY <1>1, <3>1, <3>2, OneFileGrows DEF Published, Grown
  <2> QED BY <1>4, <2>1, <2>2, <2>3 DEF WriteRecordFails
<1>6. Fails(TRUE) /\ UNCHANGED <<open, queue, mine>> BY DEF WriteRecordFails
<1> QED BY <1>3, <1>5, <1>6, FailureKeeps

LEMMA FlushDoneKeeps ==
    ASSUME IInv, FlushDone PROVE IInv'
<1> USE DEF IdleCaller, IdleWork, NoCommand
<1>1. /\ FilesTyped /\ WorkTyped /\ CallTyped /\ IndexTyped /\ RestTyped
      /\ CallOrder /\ StoppedIsIdle /\ AppendsHaveFrames /\ FilesInUse
      /\ AnswersAreTrue /\ RowsHaveSegments /\ RowsAreTrue
  BY DEF IInv, TypeOK
<1>2. UNCHANGED <<phase, disk, open, terminal, queue, db, past, pending,
      repaired, offered, acked, safe, mine>>
  BY DEF FlushDone, Step, Done, Answer, WorkerUnchanged, index, recovery,
     ghosts
<1>3. phase = "up" /\ work.cmd.op = "flush" BY DEF FlushDone, Step
<1>4. FilesTyped' /\ FilesGrow
  BY <1>1, FilesTypedKept, SameFilesGrow DEF FlushDone
<1>5. PICK f : f = work.cmd.frame OBVIOUS
<1>6. NoAddress \in Addresses /\ work.sealed \in SUBSET Segs
  BY <1>1 DEF Addresses, WorkTyped
<1>7. /\ Done(work.sealed, NoAddress)
      /\ UNCHANGED <<open, terminal, queue, mine>> /\ WorkerUnchanged
  BY DEF FlushDone
<1> QED BY <1>3, <1>4, <1>5, <1>6, <1>7, DoneKeeps

LEMMA ProcessCrashKeeps ==
    ASSUME IInv, ProcessCrash PROVE IInv'
<1> USE DEF IdleCaller, IdleWork, NoCommand
<1>1. /\ FilesTyped /\ WorkTyped /\ CallTyped /\ IndexTyped /\ RestTyped
      /\ CallOrder /\ StoppedIsIdle /\ AppendsHaveFrames /\ FilesInUse
      /\ AnswersAreTrue /\ RowsHaveSegments /\ RowsAreTrue
  BY DEF IInv, TypeOK
<1>2. UNCHANGED <<db, past, offered, acked, safe>>
  BY DEF ProcessCrash, Spend, Volatile
<1>3. FilesTyped'
  <2>1. CASE UNCHANGED disk BY <1>1, <2>1, FilesTypedKept
  <2>2. CASE \E s \in Writing : disk' = [disk EXCEPT ![s].tail = "torn"]
    <3>1. PICK s \in Writing : disk' = [disk EXCEPT ![s].tail = "torn"] BY <2>2
    <3>2. s \in Segs
      <4>1. CASE work.pc = "footer" BY <1>1, <3>1, <4>1 DEF Writing, FilesInUse, Published
      <4>2. CASE work.pc # "footer"
        <5>1. PICK k \in Keys : s = open[k] /\ open[k] # NoSeg BY <3>1, <4>2 DEF Writing
        <5> QED BY <1>1, <5>1 DEF FilesInUse, Published
      <4> QED BY <4>1, <4>2
    <3>3. [disk[s] EXCEPT !.tail = "torn"] \in File
      BY <1>1, <3>2, FileSetters DEF FilesTyped, Tails
    <3> QED BY <1>1, <3>1, <3>2, <3>3 DEF FilesTyped
  <2> QED BY <2>1, <2>2 DEF ProcessCrash
<1>4. IndexTyped' /\ RowsHaveSegments'
  BY <1>1, IndexTypedKept, RowsHaveSegmentsKept DEF ProcessCrash
<1>5. Volatile /\ acked' \subseteq Frames /\ safe' \subseteq Frames
  BY <1>1 DEF ProcessCrash, RestTyped
<1> QED BY <1>3, <1>4, <1>5, StopKeeps

LEMMA PowerLossKeeps ==
    ASSUME IInv, PowerLoss PROVE IInv'
<1> USE DEF IdleCaller, IdleWork, NoCommand
<1>1. /\ FilesTyped /\ WorkTyped /\ CallTyped /\ IndexTyped /\ RestTyped
      /\ CallOrder /\ StoppedIsIdle /\ AppendsHaveFrames /\ FilesInUse
      /\ AnswersAreTrue /\ RowsHaveSegments /\ RowsAreTrue
  BY DEF IInv, TypeOK
<1>2. UNCHANGED <<offered, safe>>
  BY DEF PowerLoss, Disaster, Spend, Volatile
<1>3. \A s \in Segs : disk'[s] \in File
  BY <1>1, SurvivorsType DEF PowerLoss, FilesTyped
<1>4. PICK S : disk' \in [Segs -> S] BY DEF PowerLoss
<1>5. FilesTyped' BY <1>3, <1>4 DEF FilesTyped
<1>6. PICK d \in past : db' = d /\ past' = {d} BY DEF PowerLoss
<1>7. IndexTyped' BY <1>1, <1>6 DEF IndexTyped
<1>8. RowsHaveSegments' BY <1>1, <1>6 DEF RowsHaveSegments
<1>9. Volatile /\ acked' \subseteq Frames /\ safe' \subseteq Frames
  BY <1>1 DEF PowerLoss, RestTyped
<1> QED BY <1>5, <1>7, <1>8, <1>9, StopKeeps

LEMMA DamageKeeps ==
    ASSUME IInv, NEW s \in Segs, Damage(s) PROVE IInv'
<1> USE DEF IdleCaller, IdleWork, NoCommand
<1>1. /\ FilesTyped /\ WorkTyped /\ CallTyped /\ IndexTyped /\ RestTyped
      /\ CallOrder /\ StoppedIsIdle /\ AppendsHaveFrames /\ FilesInUse
      /\ AnswersAreTrue /\ RowsHaveSegments /\ RowsAreTrue
  BY DEF IInv, TypeOK
<1>2. UNCHANGED <<phase, open, terminal, work, queue, caller, db, past,
      pending, repaired, offered, mine>>
  BY DEF Damage, Disaster, Spend, index, recovery, ghosts
<1>3. phase = "down" /\ UNCHANGED <<phase, open, terminal, work, queue, caller, index,
                                    recovery, offered, mine>>
  BY DEF Damage
<1>4. PICK g \in Damaged(disk[s]) : disk' = [disk EXCEPT ![s] = g] BY DEF Damage
<1>5. FilesTyped' BY <1>1, <1>4, DamagedType DEF FilesTyped
<1>6. acked' \subseteq Frames /\ safe' \subseteq Frames BY <1>1 DEF Damage, RestTyped
<1>7. IndexTyped' /\ RowsHaveSegments'
  BY <1>1, <1>3, IndexTypedKept, RowsHaveSegmentsKept DEF index
<1>8. RowsAreTrue' BY <1>3 DEF RowsAreTrue
<1>9. pending' \subseteq Segs /\ repaired' \subseteq Segs
  BY <1>1, <1>3 DEF recovery, RestTyped
<1> QED BY <1>3, <1>5, <1>6, <1>7, <1>8, <1>9, ClosedKeeps

LEMMA RestartKeeps ==
    ASSUME IInv, Restart PROVE IInv'
<1> USE DEF IdleCaller, IdleWork, NoCommand
<1>1. /\ FilesTyped /\ WorkTyped /\ CallTyped /\ IndexTyped /\ RestTyped
      /\ CallOrder /\ StoppedIsIdle /\ AppendsHaveFrames /\ FilesInUse
      /\ AnswersAreTrue /\ RowsHaveSegments /\ RowsAreTrue
  BY DEF IInv, TypeOK
<1>2. UNCHANGED <<disk, open, terminal, work, queue, caller, db, past, pending,
      repaired, offered, acked, safe, mine>>
  BY DEF Restart, RecoveryUnchanged, index, recovery, ghosts
<1>3. RestTyped'
  BY <1>1, <1>2 DEF Restart, RecoveryUnchanged, index, recovery, ghosts,
     RestTyped
<1>4. StoppedIsIdle'
  BY <1>1, <1>2 DEF Restart, RecoveryUnchanged, index, recovery, ghosts,
     StoppedIsIdle
<1>5. RowsAreTrue'
  BY <1>1, <1>2 DEF Restart, RecoveryUnchanged, index, recovery, ghosts,
     RowsAreTrue, Names, Published, Indexed
<1>6. QED BY <1>1, <1>2, <1>3, <1>4, <1>5, FilesTypedKept, WorkTypedKept,
       CallTypedKept, IndexTypedKept, CallOrderKept, AppendsHaveFramesKept,
       FilesInUseKept, AnswersAreTrueKept, RowsHaveSegmentsKept DEF IInv,
       TypeOK

LEMMA QuarantineKeeps ==
    ASSUME IInv, NEW s \in Segs, Quarantine(s) PROVE IInv'
<1> USE DEF IdleCaller, IdleWork, NoCommand
<1>1. /\ FilesTyped /\ WorkTyped /\ CallTyped /\ IndexTyped /\ RestTyped
      /\ CallOrder /\ StoppedIsIdle /\ AppendsHaveFrames /\ FilesInUse
      /\ AnswersAreTrue /\ RowsHaveSegments /\ RowsAreTrue
  BY DEF IInv, TypeOK
<1>2. UNCHANGED <<phase, open, terminal, work, queue, caller, db, past,
      pending, repaired, offered, acked, safe, mine>>
  BY DEF Quarantine, Candidate, Renamed, RecoveryUnchanged, index, recovery,
     ghosts
<1> DEFINE g == Renamed(disk[s], "corrupt")
<1>3. g \in File BY <1>1, RenamedType DEF FilesTyped
<1>4. disk' = [disk EXCEPT ![s] = g] /\ Candidate(s) BY DEF Quarantine, Candidate
<1> HIDE DEF g
<1>5. FilesTyped' /\ RowsAreTrue' BY <1>1, <1>2, <1>3, <1>4, PendingFileChanges
<1>20. /\ phase # "up" /\ phase' \in {"down", "sealing", "indexing"}
       /\ UNCHANGED <<open, terminal, work, queue, caller, offered, mine>>
       /\ pending' \subseteq Segs /\ repaired' \subseteq Segs
       /\ acked' \subseteq Frames /\ safe' \subseteq Frames
  BY <1>1, <1>2 DEF Quarantine, Candidate, RecoveryUnchanged, recovery, ghosts, RestTyped
<1>21. IndexTyped' /\ RowsHaveSegments'
  BY <1>1, <1>2, IndexTypedKept, RowsHaveSegmentsKept
<1> QED BY <1>5, <1>20, <1>21, ClosedKeeps

LEMMA RepairFileKeeps ==
    ASSUME IInv, NEW s \in Segs, RepairFile(s) PROVE IInv'
<1> USE DEF IdleCaller, IdleWork, NoCommand
<1>1. /\ FilesTyped /\ WorkTyped /\ CallTyped /\ IndexTyped /\ RestTyped
      /\ CallOrder /\ StoppedIsIdle /\ AppendsHaveFrames /\ FilesInUse
      /\ AnswersAreTrue /\ RowsHaveSegments /\ RowsAreTrue
  BY DEF IInv, TypeOK
<1>2. UNCHANGED <<phase, open, terminal, work, queue, caller, db, past,
      pending, offered, acked, safe, mine>>
  BY DEF RepairFile, Candidate, Synced, RecoveryUnchanged, index, recovery,
     ghosts
<1> DEFINE g == [Synced(disk[s]) EXCEPT !.tail = "footer"]
<1>3. g \in File BY <1>1, SyncedType, FileSetters DEF FilesTyped, Tails
<1>4. disk' = [disk EXCEPT ![s] = g] /\ Candidate(s) BY DEF RepairFile, Candidate
<1> HIDE DEF g
<1>5. FilesTyped' /\ RowsAreTrue' BY <1>1, <1>2, <1>3, <1>4, PendingFileChanges
<1>20. /\ phase # "up" /\ phase' \in {"down", "sealing", "indexing"}
       /\ UNCHANGED <<open, terminal, work, queue, caller, offered, mine>>
       /\ pending' \subseteq Segs /\ repaired' \subseteq Segs
       /\ acked' \subseteq Frames /\ safe' \subseteq Frames
  BY <1>1, <1>2 DEF RepairFile, Candidate, RecoveryUnchanged, recovery, ghosts, RestTyped
<1>21. IndexTyped' /\ RowsHaveSegments'
  BY <1>1, <1>2, IndexTypedKept, RowsHaveSegmentsKept
<1> QED BY <1>5, <1>20, <1>21, ClosedKeeps

LEMMA PublishRepairedKeeps ==
    ASSUME IInv, NEW s \in Segs, PublishRepaired(s) PROVE IInv'
<1> USE DEF IdleCaller, IdleWork, NoCommand
<1>1. /\ FilesTyped /\ WorkTyped /\ CallTyped /\ IndexTyped /\ RestTyped
      /\ CallOrder /\ StoppedIsIdle /\ AppendsHaveFrames /\ FilesInUse
      /\ AnswersAreTrue /\ RowsHaveSegments /\ RowsAreTrue
  BY DEF IInv, TypeOK
<1>2. UNCHANGED <<phase, open, terminal, work, queue, caller, db, past,
      pending, repaired, offered, acked, safe, mine>>
  BY DEF PublishRepaired, Renamed, RecoveryUnchanged, index, recovery, ghosts
<1> DEFINE g == Renamed(disk[s], "sealed")
<1>3. g \in File BY <1>1, RenamedType DEF FilesTyped
<1>4. disk' = [disk EXCEPT ![s] = g] /\ Candidate(s) BY DEF PublishRepaired, Candidate
<1> HIDE DEF g
<1>5. FilesTyped' /\ RowsAreTrue' BY <1>1, <1>2, <1>3, <1>4, PendingFileChanges
<1>20. /\ phase # "up" /\ phase' \in {"down", "sealing", "indexing"}
       /\ UNCHANGED <<open, terminal, work, queue, caller, offered, mine>>
       /\ pending' \subseteq Segs /\ repaired' \subseteq Segs
       /\ acked' \subseteq Frames /\ safe' \subseteq Frames
  BY <1>1, <1>2 DEF PublishRepaired, Candidate, RecoveryUnchanged, recovery, ghosts, RestTyped
<1>21. IndexTyped' /\ RowsHaveSegments'
  BY <1>1, <1>2, IndexTypedKept, RowsHaveSegmentsKept
<1> QED BY <1>5, <1>20, <1>21, ClosedKeeps

LEMMA BeginIndexingKeeps ==
    ASSUME IInv, BeginIndexing PROVE IInv'
<1> USE DEF IdleCaller, IdleWork, NoCommand
<1>1. /\ FilesTyped /\ WorkTyped /\ CallTyped /\ IndexTyped /\ RestTyped
      /\ CallOrder /\ StoppedIsIdle /\ AppendsHaveFrames /\ FilesInUse
      /\ AnswersAreTrue /\ RowsHaveSegments /\ RowsAreTrue
  BY DEF IInv, TypeOK
<1>2. UNCHANGED <<disk, open, terminal, work, queue, caller, db, past,
      repaired, offered, acked, safe, mine>>
  BY DEF BeginIndexing, RecoveryUnchanged, index, recovery, ghosts
<1>3. RowsAreTrue'
  <2>1. ASSUME NEW f \in Indexed PROVE db.at[f].seg \in pending'
    <3>1. db.at[f].seg \in Segs
      BY <1>1 DEF Indexed, IndexTyped, Index, Addresses
    <3> QED BY <1>1, <3>1 DEF BeginIndexing, RowsHaveSegments, Indexed
  <2> QED BY <1>2, <2>1 DEF BeginIndexing, RowsAreTrue, Indexed
<1>4. FilesTyped' BY <1>1, <1>2, FilesTypedKept
<1>20. /\ phase # "up" /\ phase' \in {"down", "sealing", "indexing"}
       /\ UNCHANGED <<open, terminal, work, queue, caller, offered, mine>>
       /\ pending' \subseteq Segs /\ repaired' \subseteq Segs
       /\ acked' \subseteq Frames /\ safe' \subseteq Frames
  BY <1>1, <1>2 DEF BeginIndexing, RecoveryUnchanged, recovery, ghosts, RestTyped
<1>21. IndexTyped' /\ RowsHaveSegments'
  BY <1>1, <1>2, IndexTypedKept, RowsHaveSegmentsKept
<1> QED BY <1>3, <1>4, <1>20, <1>21, ClosedKeeps

LEMMA DropRowsOfLostKeeps ==
    ASSUME IInv, NEW s \in Segs, DropRowsOfLost(s) PROVE IInv'
<1> USE DEF IdleCaller, IdleWork, NoCommand
<1>1. /\ FilesTyped /\ WorkTyped /\ CallTyped /\ IndexTyped /\ RestTyped
      /\ CallOrder /\ StoppedIsIdle /\ AppendsHaveFrames /\ FilesInUse
      /\ AnswersAreTrue /\ RowsHaveSegments /\ RowsAreTrue
  BY DEF IInv, TypeOK
<1>2. UNCHANGED <<phase, disk, open, terminal, work, queue, caller, pending,
      repaired, offered, acked, safe, mine>>
  BY DEF DropRowsOfLost, Commit, RecoveryUnchanged, index, recovery, ghosts
<1>3. PICK F : F = RowsOf(s) OBVIOUS
<1>4. Commit(Without(db, F)) /\ phase = "indexing" BY <1>3 DEF DropRowsOfLost, Commit
<1>5. IndexTyped' /\ RowsHaveSegments' /\ RowsAreTrue'
  BY <1>1, <1>2, <1>4, RemovalKeeps
<1>6. FilesTyped' BY <1>1, <1>2, FilesTypedKept
<1>20. /\ phase # "up" /\ phase' \in {"down", "sealing", "indexing"}
       /\ UNCHANGED <<open, terminal, work, queue, caller, offered, mine>>
       /\ pending' \subseteq Segs /\ repaired' \subseteq Segs
       /\ acked' \subseteq Frames /\ safe' \subseteq Frames
  BY <1>1, <1>2 DEF DropRowsOfLost, Commit, RecoveryUnchanged, recovery, ghosts, RestTyped
<1> QED BY <1>5, <1>6, <1>20, ClosedKeeps

LEMMA DropLostSegmentKeeps ==
    ASSUME IInv, NEW s \in Segs, DropLostSegment(s) PROVE IInv'
<1> USE DEF IdleCaller, IdleWork, NoCommand
<1>1. /\ FilesTyped /\ WorkTyped /\ CallTyped /\ IndexTyped /\ RestTyped
      /\ CallOrder /\ StoppedIsIdle /\ AppendsHaveFrames /\ FilesInUse
      /\ AnswersAreTrue /\ RowsHaveSegments /\ RowsAreTrue
  BY DEF IInv, TypeOK
<1>2. UNCHANGED <<phase, disk, open, terminal, work, queue, caller, repaired,
      offered, acked, safe, mine>>
  BY DEF DropLostSegment, Commit, RecoveryUnchanged, index, recovery, ghosts
<1> DEFINE new == [row |-> [db.row EXCEPT ![s] = "none"],
                   cnt |-> [db.cnt EXCEPT ![s] = 0], at |-> db.at]
<1>3. Commit(new) /\ phase = "indexing" /\ pending' = pending \ {s} /\ RowsOf(s) = {}
  BY DEF DropLostSegment
<1>4. new \in Index /\ new.at = db.at /\ \A r \in Segs : r # s => new.row[r] = db.row[r]
  BY <1>1 DEF IndexTyped, Index
<1> HIDE DEF new
<1>5. \A f \in Frames : db.at[f] # NoAddress => db.at[f].seg \in Segs /\ db.at[f].seg # s
  BY <1>1, <1>3 DEF RowsOf, IndexTyped, Index, Addresses
<1>6. \A f \in Frames : new.at[f] # NoAddress => new.row[new.at[f].seg] # "none"
  BY <1>1, <1>4, <1>5 DEF RowsHaveSegments
<1>7. IndexTyped' /\ RowsHaveSegments' /\ db' = new
  BY <1>1, <1>3, <1>4, <1>6, CommitKeeps
<1>8. RowsAreTrue'
  BY <1>1, <1>2, <1>3, <1>4, <1>5, <1>7 DEF RowsAreTrue, Indexed, Names, Published
<1>9. FilesTyped' BY <1>1, <1>2, FilesTypedKept
<1>20. /\ phase # "up" /\ phase' \in {"down", "sealing", "indexing"}
       /\ UNCHANGED <<open, terminal, work, queue, caller, offered, mine>>
       /\ pending' \subseteq Segs /\ repaired' \subseteq Segs
       /\ acked' \subseteq Frames /\ safe' \subseteq Frames
  BY <1>1, <1>2 DEF DropLostSegment, RecoveryUnchanged, recovery, ghosts, RestTyped
<1> QED BY <1>7, <1>8, <1>9, <1>20, ClosedKeeps

LEMMA DropStaleRowsKeeps ==
    ASSUME IInv, NEW s \in Segs, DropStaleRows(s) PROVE IInv'
<1> USE DEF IdleCaller, IdleWork, NoCommand
<1>1. /\ FilesTyped /\ WorkTyped /\ CallTyped /\ IndexTyped /\ RestTyped
      /\ CallOrder /\ StoppedIsIdle /\ AppendsHaveFrames /\ FilesInUse
      /\ AnswersAreTrue /\ RowsHaveSegments /\ RowsAreTrue
  BY DEF IInv, TypeOK
<1>2. UNCHANGED <<phase, disk, open, terminal, work, queue, caller, pending,
      repaired, offered, acked, safe, mine>>
  BY DEF DropStaleRows, Reconciling, Commit, RecoveryUnchanged, index,
     recovery, ghosts
<1>3. PICK F : F = IF s \in repaired THEN Stale(s) ELSE RowsOf(s) OBVIOUS
<1>4. Commit(Without(db, F)) /\ phase = "indexing" BY <1>3 DEF DropStaleRows, Reconciling
<1>5. IndexTyped' /\ RowsHaveSegments' /\ RowsAreTrue'
  BY <1>1, <1>2, <1>4, RemovalKeeps
<1>6. FilesTyped' BY <1>1, <1>2, FilesTypedKept
<1>20. /\ phase # "up" /\ phase' \in {"down", "sealing", "indexing"}
       /\ UNCHANGED <<open, terminal, work, queue, caller, offered, mine>>
       /\ pending' \subseteq Segs /\ repaired' \subseteq Segs
       /\ acked' \subseteq Frames /\ safe' \subseteq Frames
  BY <1>1, <1>2 DEF DropStaleRows, Reconciling, RecoveryUnchanged, recovery, ghosts, RestTyped
<1> QED BY <1>5, <1>6, <1>20, ClosedKeeps

LEMMA ReconcileSegmentKeeps ==
    ASSUME IInv, NEW s \in Segs, ReconcileSegment(s) PROVE IInv'
<1> USE DEF IdleCaller, IdleWork, NoCommand
<1>1. /\ FilesTyped /\ WorkTyped /\ CallTyped /\ IndexTyped /\ RestTyped
      /\ CallOrder /\ StoppedIsIdle /\ AppendsHaveFrames /\ FilesInUse
      /\ AnswersAreTrue /\ RowsHaveSegments /\ RowsAreTrue
  BY DEF IInv, TypeOK
<1>2. UNCHANGED <<phase, disk, open, terminal, work, queue, caller, repaired,
      offered, acked, safe, mine>>
  BY DEF ReconcileSegment, Reconciling, Commit, RecoveryUnchanged, index,
     recovery, ghosts
<1>3. /\ phase = "indexing" /\ Stale(s) = {} /\ pending' = pending \ {s}
      /\ disk[s].name = "sealed"
  BY DEF ReconcileSegment, Reconciling
<1>4. PICK new \in Index :
      /\ new = WithOrphans(db, s)
      /\ \A r \in Segs : db.row[r] # "none" => new.row[r] # "none"
      /\ new.row[s] # "none"
      /\ \A f \in Frames : \/ new.at[f] = db.at[f]
                           \/ \E n \in Orphans(s) : /\ disk[s].recs[n] = f
                                                    /\ new.at[f] = Address(s, n)
  BY <1>1, WithOrphansType DEF IndexTyped
<1>5. (UNCHANGED index /\ new = db) \/ Commit(new) BY <1>4 DEF ReconcileSegment
<1>6. \A f \in Frames : new.at[f] # NoAddress => new.row[new.at[f].seg] # "none"
  <2> TAKE f \in Frames
  <2>1. CASE new.at[f] = db.at[f]
    BY <1>1, <1>4, <2>1 DEF RowsHaveSegments, IndexTyped, Index, Addresses
  <2>2. CASE new.at[f] # db.at[f]
    <3>1. PICK n \in Orphans(s) : new.at[f] = Address(s, n) BY <1>4, <2>2
    <3>2. new.at[f].seg = s BY <3>1 DEF Address
    <3> QED BY <1>4, <3>2
  <2> QED BY <2>1, <2>2
<1>7. IndexTyped' /\ RowsHaveSegments' /\ db' = new
  <2>1. CASE UNCHANGED index /\ new = db
    BY <1>1, <2>1, IndexTypedKept, RowsHaveSegmentsKept DEF index
  <2>2. CASE Commit(new) BY <1>1, <1>4, <1>6, <2>2, CommitKeeps
  <2> QED BY <1>5, <2>1, <2>2
<1>8. \A f \in Frames : new.at[f] # NoAddress =>
          \/ new.at[f].seg \in pending'
          \/ Names(new.at[f].seg, new.at[f].pos, f)
  <2> SUFFICES ASSUME NEW f \in Frames, new.at[f] # NoAddress
               PROVE  \/ new.at[f].seg \in pending'
                      \/ Names(new.at[f].seg, new.at[f].pos, f)
    OBVIOUS
  <2>1. CASE new.at[f] = db.at[f] /\ db.at[f].seg # s
    BY <1>1, <1>3, <2>1 DEF RowsAreTrue, Indexed
  <2>2. CASE new.at[f] = db.at[f] /\ db.at[f].seg = s
    BY <1>3, <2>2 DEF Stale, RowsOf, Names, Published
  <2>3. CASE new.at[f] # db.at[f]
    <3>1. PICK n \in Orphans(s) : disk[s].recs[n] = f /\ new.at[f] = Address(s, n)
      BY <1>4, <2>3
    <3>2. new.at[f].seg = s /\ new.at[f].pos = n BY <3>1 DEF Address
    <3> QED BY <1>3, <3>1, <3>2 DEF Orphans, Names, Published
  <2> QED BY <2>1, <2>2, <2>3
<1>9. RowsAreTrue'
  <2>1. phase' = phase /\ disk' = disk BY <1>2
  <2>2. \A f \in Frames : new.at[f] # NoAddress =>
          \/ new.at[f].seg \in pending'
          \/ Names(new.at[f].seg, new.at[f].pos, f)'
    BY <1>7, <1>8, <2>1 DEF Names, Published
  <2> QED BY <1>3, <1>7, <2>1, <2>2 DEF RowsAreTrue, Indexed, Names, Published
<1>10. FilesTyped' BY <1>1, <1>2, FilesTypedKept
<1>20. /\ phase # "up" /\ phase' \in {"down", "sealing", "indexing"}
       /\ UNCHANGED <<open, terminal, work, queue, caller, offered, mine>>
       /\ pending' \subseteq Segs /\ repaired' \subseteq Segs
       /\ acked' \subseteq Frames /\ safe' \subseteq Frames
  BY <1>1, <1>2 DEF ReconcileSegment, Reconciling, RecoveryUnchanged, recovery, ghosts, RestTyped
<1> QED BY <1>7, <1>9, <1>10, <1>20, ClosedKeeps

LEMMA FinishRecoveryKeeps ==
    ASSUME IInv, FinishRecovery PROVE IInv'
<1> USE DEF IdleCaller, IdleWork, NoCommand
<1>1. /\ FilesTyped /\ WorkTyped /\ CallTyped /\ IndexTyped /\ RestTyped
      /\ CallOrder /\ StoppedIsIdle /\ AppendsHaveFrames /\ FilesInUse
      /\ AnswersAreTrue /\ RowsHaveSegments /\ RowsAreTrue
  BY DEF IInv, TypeOK
<1>2. UNCHANGED <<disk, open, terminal, work, queue, caller, db, past, pending,
      offered, acked, safe, mine>>
  BY DEF FinishRecovery, RecoveryUnchanged, index, recovery, ghosts
<1>3. RestTyped'
  BY <1>1, <1>2 DEF FinishRecovery, RecoveryUnchanged, index, recovery, ghosts,
     RestTyped
<1>4. StoppedIsIdle'
  BY <1>1, <1>2 DEF FinishRecovery, RecoveryUnchanged, index, recovery, ghosts,
     StoppedIsIdle
<1>5. RowsAreTrue'
  BY <1>1, <1>2 DEF FinishRecovery, RecoveryUnchanged, index, recovery, ghosts,
     RowsAreTrue, Names, Published, Indexed
<1>6. QED BY <1>1, <1>2, <1>3, <1>4, <1>5, FilesTypedKept, WorkTypedKept,
       CallTypedKept, IndexTypedKept, CallOrderKept, AppendsHaveFramesKept,
       FilesInUseKept, AnswersAreTrueKept, RowsHaveSegmentsKept DEF IInv,
       TypeOK

-----------------------------------------------------------------------------
(* The theorems *)

LEMMA InitHolds == ASSUME Init PROVE IInv
<1>1. NoFile \in File BY EmptySeq DEF NoFile, File, Tails
<1>2. FilesTyped BY <1>1 DEF Init, FilesTyped
<1>3. WorkTyped BY IdleTypes, EmptySeq DEF Init, WorkTyped
<1>4. CallTyped
  <2>1. offered \in 0 .. MaxFrames BY StoreAssumption DEF Init
  <2> QED BY <2>1, IdleTypes DEF Init, CallTyped
<1>5. db \in Index
      /\ past = {db} /\ \A f \in Frames : db.at[f] = NoAddress
  BY DEF Init, Index, Addresses
<1>6. IndexTyped BY <1>5 DEF IndexTyped
<1>7. RestTyped BY DEF Init, RestTyped
<1>8. CallOrder /\ StoppedIsIdle /\ AppendsHaveFrames /\ FilesInUse /\ AnswersAreTrue
  BY DEF Init, CallOrder, StoppedIsIdle, AppendsHaveFrames, FilesInUse, AnswersAreTrue,
         IdleWork, IdleCaller, NoCommand
<1>9. RowsHaveSegments /\ RowsAreTrue
  BY <1>5 DEF Init, RowsHaveSegments, RowsAreTrue, Indexed
<1> QED BY <1>2, <1>3, <1>4, <1>6, <1>7, <1>8, <1>9 DEF IInv, TypeOK

LEMMA StutterKeeps == ASSUME IInv, UNCHANGED vars PROVE IInv'
<1>1. UNCHANGED <<phase, disk, open, terminal, work, queue, caller, db, past, pending,
                  repaired, offered, acked, safe, mine>>
  BY DEF vars, index, recovery, ghosts
<1> QED BY <1>1, FilesTypedKept, WorkTypedKept, CallTypedKept, IndexTypedKept,
       RestTypedKept, CallOrderKept, StoppedIsIdleKept, AppendsHaveFramesKept,
       FilesInUseKept, AnswersAreTrueKept, RowsHaveSegmentsKept, RowsAreTrueKept
       DEF IInv, TypeOK

LEMMA WorkerKeeps == ASSUME IInv, Worker PROVE IInv'
<1>1. CASE Take \/ Refuse \/ FlushDone
  BY <1>1, TakeKeeps, RefuseKeeps, FlushDoneKeeps
<1>2. CASE WriteFooter \/ WriteFooterFails \/ SyncSealed \/ SyncSealedFails
  BY <1>2, WriteFooterKeeps, WriteFooterFailsKeeps, SyncSealedKeeps, SyncSealedFailsKeeps
<1>3. CASE RenameSealed \/ RenameSealedFails \/ PublishSealed \/ PublishSealedFails
  BY <1>3, RenameSealedKeeps, RenameSealedFailsKeeps, PublishSealedKeeps,
     PublishSealedFailsKeeps
<1>4. CASE WriteHeader \/ WriteHeaderFails \/ PublishOpenFails
  BY <1>4, WriteHeaderKeeps, WriteHeaderFailsKeeps, PublishOpenFailsKeeps
<1>5. ASSUME NEW k \in Keys,
             \/ StartSeal(k) \/ CreateOpen(k) \/ CreateOpenFails(k) \/ PublishOpen(k)
             \/ WriteRecord(k) \/ WriteRecordFails(k)
      PROVE  IInv'
  BY <1>5, StartSealKeeps, CreateOpenKeeps, CreateOpenFailsKeeps, PublishOpenKeeps,
     WriteRecordKeeps, WriteRecordFailsKeeps
<1> QED BY <1>1, <1>2, <1>3, <1>4, <1>5 DEF Worker

LEMMA NextKeeps == ASSUME IInv, [Next]_vars PROVE IInv'
<1>1. CASE Worker BY <1>1, WorkerKeeps
<1>2. CASE Committer
  BY <1>2, CommitFrameKeeps, CommitFrameFailsKeeps, CommitFlushKeeps,
     CommitFlushFailsKeeps DEF Committer
<1>3. CASE Recovery
  <2>1. CASE BeginIndexing \/ FinishRecovery
    BY <2>1, BeginIndexingKeeps, FinishRecoveryKeeps
  <2>2. ASSUME NEW s \in Segs,
               \/ Quarantine(s) \/ RepairFile(s) \/ PublishRepaired(s)
               \/ DropRowsOfLost(s) \/ DropLostSegment(s)
               \/ DropStaleRows(s) \/ ReconcileSegment(s)
        PROVE  IInv'
    BY <2>2, QuarantineKeeps, RepairFileKeeps, PublishRepairedKeeps,
       DropRowsOfLostKeeps, DropLostSegmentKeeps, DropStaleRowsKeeps,
       ReconcileSegmentKeeps
  <2> QED BY <1>3, <2>1, <2>2 DEF Recovery
<1>4. CASE Environment
  <2>1. CASE \E k \in Keys : AppendFrame(k) BY <2>1, AppendFrameKeeps
  <2>2. CASE \E keys \in Sessions \union {Keys} : FlushKeys(keys)
    BY <2>2, FlushKeysKeeps
  <2>3. CASE Cancel \/ ProcessCrash \/ PowerLoss \/ Restart
    BY <2>3, CancelKeeps, ProcessCrashKeeps, PowerLossKeeps, RestartKeeps
  <2>4. CASE \E s \in Segs : Damage(s) BY <2>4, DamageKeeps
  <2> QED BY <1>4, <2>1, <2>2, <2>3, <2>4 DEF Environment
<1>5. CASE UNCHANGED vars BY <1>5, StutterKeeps
<1> QED BY <1>1, <1>2, <1>3, <1>4, <1>5 DEF Next

\* The invariant of the segment store holds in every state, however the caller,
\* the writer's worker, recovery and the stops interleave.
THEOREM InvariantHolds == Spec => []IInv
<1>1. Init => IInv BY InitHolds
<1>2. IInv /\ [Next]_vars => IInv' BY NextKeeps
<1> QED BY <1>1, <1>2, PTL DEF Spec

\* Every record of writer.rs and every row of the index has its type, in the
\* index states power loss may fall back to as well.
THEOREM TypeCorrect == Spec => []TypeOK
<1>1. IInv => TypeOK BY DEF IInv
<1> QED BY <1>1, InvariantHolds, PTL

\* While the store is open, every frame row the index has committed names a
\* complete record of a published file: a row is committed only after the writer
\* answered with the address (recording.rs append_frame), no step of the writer
\* takes a record away, and recovery (recovery.rs) drops the rows whose bytes a
\* stop took before it opens the store.
THEOREM RowsStayReadable == Spec => []IndexedFramesAreReadable
<1>1. IInv => IndexedFramesAreReadable
  BY DEF IInv, RowsAreTrue, IndexedFramesAreReadable, Readable, Names, Published, Indexed
<1> QED BY <1>1, InvariantHolds, PTL

-----------------------------------------------------------------------------
(* The second invariant: what the writer, the caller and recovery rely on for  *)
(* the promises the store makes.                                               *)

\* Frame f has no record in any file and no row in any state of the index that
\* power loss may leave.
Unrecorded(f) == \A s \in Segs : \A n \in 1 .. Len(disk[s].recs) : disk[s].recs[n] # f
Unindexed(f) == \A d \in past \union {db} : d.at[f] = NoAddress
Fresh(f) == Unrecorded(f) /\ Unindexed(f)

\* A frame nobody has written yet is nowhere, and the frame a caller is about to
\* commit has no row.
FramesAreFresh ==
    /\ \A i \in 1 .. Len(queue) : queue[i].op = "append" => Fresh(queue[i].frame)
    /\ work.cmd.op = "append" => Fresh(work.cmd.frame)
    /\ \A f \in Frames : f > offered => Fresh(f)
    /\ caller.pc = "commit" /\ caller.op = "append" => Unindexed(caller.frame)

\* The worker gets the frames in the order they were offered, each once.
FramesAreInOrder ==
    /\ \A i \in 1 .. Len(queue) : queue[i].op = "append" =>
          /\ queue[i].frame <= offered
          /\ work.cmd.op = "append" => work.cmd.frame < queue[i].frame
          /\ \A j \in 1 .. Len(queue) :
                i < j /\ queue[j].op = "append" => queue[i].frame < queue[j].frame
    /\ work.cmd.op = "append" => work.cmd.frame <= offered
    /\ caller.op = "append" => caller.frame <= offered

\* A frame has one record at most ...
OneCopy == \A r, s \in Segs : \A m \in 1 .. Len(disk[r].recs), n \in 1 .. Len(disk[s].recs) :
    disk[r].recs[m] = disk[s].recs[n] => r = s /\ m = n

\* ... and its row, if it has one, names that record.
RowsAgree == \A d \in past \union {db} : \A s \in Segs : \A n \in 1 .. Len(disk[s].recs) :
    d.at[disk[s].recs[n]] \in {NoAddress, Address(s, n)}

Origins == FramesAreFresh /\ FramesAreInOrder /\ OneCopy /\ RowsAgree

\* The caller that commits left the writer with nothing to do; a wanted command
\* is the waiting caller's; a latched writer executes nothing.
CommitsAlone ==
    /\ caller.pc = "commit" => queue = <<>> /\ work = IdleWork
    /\ work.cmd.wanted => caller.keys = work.cmd.keys
    /\ \A i \in 1 .. Len(queue) :
          /\ queue[i].wanted => caller.keys = queue[i].keys
          /\ queue[i].op = "append" => \E k \in Keys : queue[i].keys = {k}
    /\ work.cmd.op = "append" => \E k \in Keys : work.cmd.keys = {k}
    /\ work.pc # "idle" => ~terminal

\* A sealed file power loss cannot change.
Complete(file) ==
    /\ file.name = "sealed" /\ file.dname = "sealed" /\ file.hdr
    /\ file.tail = "footer" /\ file.tailKept /\ file.kept = Len(file.recs)

\* An open file whose header and name are durable.
InUse(file) == file.name = "open" /\ file.dname = "open" /\ file.hdr

\* How far the file the worker seals or opens has come at each of its steps.
Sealing(pc, file) ==
    /\ pc \in {"footer", "sync", "rename"} => InUse(file)
    /\ pc \in {"sync", "rename", "publish sealed"} => file.tail = "footer"
    /\ pc \in {"rename", "publish sealed"} => file.tailKept /\ file.kept = Len(file.recs)
    /\ pc = "publish sealed" => file.name = "sealed" /\ file.dname = "open" /\ file.hdr
    /\ pc \in {"header", "publish open"} => file.name = "open" /\ file.recs = <<>> /\ file.kept = 0
    /\ pc = "publish open" => file.hdr

\* The files the writer holds are its own, one for each key, and never the one
\* it is sealing or opening.
OpenFiles ==
    /\ phase # "up" => mine = {}
    /\ \A k \in Keys : open[k] # NoSeg =>
          open[k] \in mine /\ InUse(disk[open[k]]) /\ disk[open[k]].key = k
    /\ work.pc \notin {"idle", "next"} =>
          /\ work.seg \in mine /\ Sealing(work.pc, disk[work.seg])
          /\ \A k \in Keys : open[k] # work.seg
    /\ work.pc \in {"header", "publish open"} =>
          work.cmd.op = "append" /\ work.cmd.keys = {disk[work.seg].key}
            /\ open[disk[work.seg].key] = NoSeg
    /\ caller.pc = "commit" /\ caller.op = "append" =>
          caller.at.seg \in mine /\ InUse(disk[caller.at.seg])

\* What the writer reports as sealed, and what the index calls sealed, is.
SealsAreComplete ==
    /\ \A s \in work.sealed : s \in mine /\ Complete(disk[s])
    /\ caller.pc = "commit" => \A s \in caller.sealed : s \in mine /\ Complete(disk[s])
    /\ \A s \in mine : db.row[s] = "sealed" => Complete(disk[s]) /\ db.cnt[s] = Len(disk[s].recs)
    /\ phase = "up" => \A s \in Segs : db.row[s] = "sealed" => disk[s].name = "sealed"

\* All records of the file would survive power loss, under one name or the other.
Settled(file) ==
    /\ file.name \in {"open", "sealed"} /\ file.dname \in {"open", "sealed"} /\ file.hdr
    /\ file.kept = Len(file.recs)

\* While no error is latched, a file of this run is settled, held open or in the
\* worker's hands; so nothing of a flushed key is unsettled when its caller commits.
FlushesSettle ==
    /\ phase = "up" /\ ~terminal => \A s \in mine :
          \/ Settled(disk[s])
          \/ \E k \in Keys : open[k] = s
          \/ work.pc \notin {"idle", "next"} /\ work.seg = s
    /\ work.pc # "idle" /\ work.cmd.op = "flush" =>
          \A k \in work.cmd.keys : open[k] = NoSeg \/ k \in work.todo
    /\ caller.pc = "commit" /\ caller.op = "flush" =>
          \A s \in mine : disk[s].key \in caller.keys => Settled(disk[s])

Writes == CommitsAlone /\ OpenFiles /\ SealsAreComplete /\ FlushesSettle

\* Power loss would keep the file's first n records.
Lasting(file, n) ==
    /\ file.name \in {"open", "sealed"} /\ file.dname \in {"open", "sealed"} /\ file.hdr
    /\ n <= file.kept

\* A frame whose append returned has a record recovery will find; a frame a flush
\* covered has one that power loss keeps.
PromisesAreKept ==
    /\ \A f \in acked : \E s \in Segs : \E n \in 1 .. Len(disk[s].recs) :
          disk[s].recs[n] = f /\ Published(s) /\ disk[s].hdr
    /\ \A f \in safe : \E s \in Segs : \E n \in 1 .. Len(disk[s].recs) :
          disk[s].recs[n] = f /\ Lasting(disk[s], n)

\* What NothingToRecover says of one segment.
Exact(s) ==
    IF disk[s].name = "sealed"
    THEN /\ disk[s].hdr /\ disk[s].tail = "footer"
         /\ db.row[s] = "sealed" /\ db.cnt[s] = Len(disk[s].recs)
         /\ \A n \in 1 .. Len(disk[s].recs) : db.at[disk[s].recs[n]] = Address(s, n)
         /\ Stale(s) = {}
    ELSE db.row[s] = "none" /\ RowsOf(s) = {}

\* Recovery leaves every segment it is done with exact.
RecoveredIsExact ==
    phase = "indexing" => \A s \in Segs : disk[s].name # "open" /\ (s \in pending \/ Exact(s))

\* What a step keeps of a file: a sealed file's records, the readable records of
\* a published one, and the records power loss would keep.
Keeps(file, g) ==
    /\ file.name = "sealed" => g.recs = file.recs
    /\ \A n \in 1 .. Len(file.recs) :
        /\ file.name \in {"open", "sealed"} /\ file.hdr =>
              /\ g.name \in {"open", "sealed"} /\ g.hdr
              /\ n \in 1 .. Len(g.recs) /\ g.recs[n] = file.recs[n]
        /\ Lasting(file, n) => Lasting(g, n)

FilesKeep == \A s \in Segs : Keeps(disk[s], disk'[s])

\* A file loses records from its end, or none.
Prefix(file, g) ==
    Len(g.recs) <= Len(file.recs) /\ \A n \in 1 .. Len(g.recs) : g.recs[n] = file.recs[n]

RecordsShrink == \A s \in Segs : Prefix(disk[s], disk'[s])

\* A file with the same records, or with none.
LEMMA SameRecords ==
    ASSUME NEW file \in File, NEW g, g.recs = file.recs \/ g.recs = <<>> PROVE Prefix(file, g)
<1>1. Len(file.recs) \in Nat BY DEF File
<1>2. CASE g.recs = file.recs BY <1>1, <1>2 DEF Prefix
<1>3. CASE g.recs = <<>> BY <1>1, <1>3, EmptySeq DEF Prefix
<1> QED BY <1>2, <1>3

\* Every file keeps what it has.
LEMMA KeptItself == \A file : Keeps(file, file)
BY DEF Keeps

\* A step that changes one file, its records only to none.
LEMMA FileChangesKeep ==
    ASSUME FilesTyped, NEW s \in Segs, \A r \in Segs : r # s => disk'[r] = disk[r],
           disk'[s].recs \in {disk[s].recs, <<>>}, Keeps(disk[s], disk'[s])
    PROVE  FilesKeep /\ RecordsShrink
<1>1. FilesKeep BY KeptItself DEF FilesKeep
<1>2. \A r \in Segs : disk[r] \in File /\ disk'[r].recs \in {disk[r].recs, <<>>} BY DEF FilesTyped
<1>3. RecordsShrink BY <1>2, SameRecords DEF RecordsShrink
<1> QED BY <1>1, <1>3

\* Another file than s is as it was, and s keeps its key and its sealed name.
Only(s) ==
    /\ \A r \in Segs : r # s => disk'[r] = disk[r]
    /\ disk'[s].key = disk[s].key
    /\ disk[s].name = "sealed" => disk'[s].name = "sealed"

\* The parts of the two invariants the writer's steps use.
LEMMA WritesParts ==
    ASSUME IInv, Writes
    PROVE  /\ FilesTyped /\ WorkTyped /\ CallTyped /\ IndexTyped /\ RestTyped
           /\ CallOrder /\ StoppedIsIdle /\ AppendsHaveFrames /\ FilesInUse
           /\ CommitsAlone /\ OpenFiles /\ SealsAreComplete /\ FlushesSettle
BY DEF IInv, TypeOK, Writes

\* No file the worker still holds is complete.
LEMMA NotComplete ==
    ASSUME OpenFiles, WorkTyped
    PROVE  /\ \A k \in Keys : open[k] # NoSeg => disk[open[k]].name = "open"
           /\ work.pc \notin {"idle", "next"} => ~Complete(disk[work.seg])
<1>1. work.pc \in {"idle", "next", "footer", "sync", "rename", "publish sealed", "header",
                   "publish open"}
  BY DEF WorkTyped
<1>2. ASSUME work.pc \notin {"idle", "next"} PROVE ~Complete(disk[work.seg])
  <2>1. Sealing(work.pc, disk[work.seg]) BY <1>2 DEF OpenFiles
  <2> QED BY <1>1, <1>2, <2>1 DEF Sealing, InUse, Complete
<1> QED BY <1>2 DEF OpenFiles, InUse

\* Complete files stay as they are, and a sealed name stays.
SealedStay ==
    \A r \in Segs : /\ Complete(disk[r]) => disk'[r] = disk[r]
                    /\ disk[r].name = "sealed" => disk'[r].name = "sealed"

LEMMA OnlyOneChanges ==
    ASSUME NEW s \in Segs, ~Complete(disk[s]), Only(s) PROVE SealedStay
BY DEF Only, SealedStay

\* Sealed segments stay as they are when one file changes that is not complete.
LEMMA SealsStay ==
    ASSUME IInv, Writes, SealedStay,
           UNCHANGED <<phase, db, mine>>,
           caller' \in {caller, IdleCaller} \/ caller'.sealed = work.sealed,
           \A r \in work'.sealed : r \in work.sealed \/ (r \in mine /\ Complete(disk'[r]))
    PROVE  SealsAreComplete'
<1>1. SealsAreComplete /\ WorkTyped /\ CallTyped /\ RestTyped BY WritesParts
<1>2. \A r \in Segs : Complete(disk[r]) => disk'[r] = disk[r] BY DEF SealedStay
<1>3. \A r \in Segs : disk[r].name = "sealed" => disk'[r].name = "sealed" BY DEF SealedStay
<1>4. \A r \in work'.sealed : r \in mine' /\ Complete(disk'[r])
  BY <1>1, <1>2 DEF SealsAreComplete, WorkTyped
<1>5. caller'.pc = "commit" => \A r \in caller'.sealed : r \in mine' /\ Complete(disk'[r])
  <2>1. CASE caller' = caller BY <1>1, <1>2, <2>1 DEF SealsAreComplete, CallTyped
  <2>2. CASE caller' = IdleCaller BY <2>2 DEF IdleCaller
  <2>3. CASE caller'.sealed = work.sealed BY <1>1, <1>2, <2>3 DEF SealsAreComplete, WorkTyped
  <2> QED BY <2>1, <2>2, <2>3
<1>6. \A r \in mine' : db'.row[r] = "sealed" =>
        Complete(disk'[r]) /\ db'.cnt[r] = Len(disk'[r].recs)
  BY <1>1, <1>2 DEF SealsAreComplete, RestTyped
<1>7. phase' = "up" => \A r \in Segs : db'.row[r] = "sealed" => disk'[r].name = "sealed"
  BY <1>1, <1>3 DEF SealsAreComplete
<1> QED BY <1>4, <1>5, <1>6, <1>7 DEF SealsAreComplete

\* The worker goes on with the file it is about.
LEMMA WorkGoesOn ==
    ASSUME IInv, Writes, phase = "up", NEW s \in Segs, s = work.seg,
           work.pc \notin {"idle", "next"}, Only(s),
           UNCHANGED <<phase, open, terminal, queue, caller, db, mine>>,
           work'.cmd = work.cmd, work'.todo = work.todo,
           \/ /\ work'.pc \notin {"idle", "next"} /\ work'.seg = s
              /\ Sealing(work'.pc, disk'[s]) /\ work'.sealed = work.sealed
              /\ work'.pc \in {"header", "publish open"} => work.pc \in {"header", "publish open"}
           \/ /\ work'.pc = "next" /\ Complete(disk'[s])
              /\ work'.sealed = work.sealed \union {s}
    PROVE  Writes'
<1>1. /\ WorkTyped /\ FilesInUse /\ CommitsAlone /\ OpenFiles /\ FlushesSettle /\ RestTyped
  BY WritesParts
<1>2. work'.pc # "idle" OBVIOUS
<1>3. caller.pc # "commit"
  <2>1. IdleWork.pc = "idle" BY DEF IdleWork
  <2> QED BY <1>1, <2>1 DEF CommitsAlone
<1>4. CommitsAlone' BY <1>1, <1>2, <1>3 DEF CommitsAlone
<1>5. s \in mine /\ \A k \in Keys : open[k] # s BY <1>1 DEF OpenFiles
<1>6. SealsAreComplete' BY <1>1, <1>5, NotComplete, OnlyOneChanges, SealsStay
<1>7. \A k \in Keys : open[k] # NoSeg => disk'[open[k]] = disk[open[k]]
  BY <1>1, <1>5 DEF Only, FilesInUse, Published
<1>8. OpenFiles'
  <2>1. \A k \in Keys : open'[k] # NoSeg =>
          open'[k] \in mine' /\ InUse(disk'[open'[k]]) /\ disk'[open'[k]].key = k
    BY <1>1, <1>7 DEF OpenFiles
  <2>2. work'.pc \notin {"idle", "next"} =>
          /\ work'.seg \in mine' /\ Sealing(work'.pc, disk'[work'.seg])
          /\ \A k \in Keys : open'[k] # work'.seg
    BY <1>5
  <2>3. work'.pc \in {"header", "publish open"} =>
          work'.cmd.op = "append" /\ work'.cmd.keys = {disk'[work'.seg].key}
            /\ open'[disk'[work'.seg].key] = NoSeg
    BY <1>1 DEF OpenFiles, Only
  <2> QED BY <1>3, <2>1, <2>2, <2>3 DEF OpenFiles
<1>9. FlushesSettle'
  <2>1. Complete(disk'[s]) => Settled(disk'[s]) BY DEF Complete, Settled
  <2>3. \A r \in mine : r # s => disk'[r] = disk[r] BY <1>1 DEF Only, RestTyped
  <2> QED BY <1>1, <1>2, <1>3, <1>5, <2>1, <2>3 DEF FlushesSettle
<1> QED BY <1>4, <1>6, <1>8, <1>9 DEF Writes

-----------------------------------------------------------------------------
(* The worker's steps.                                                         *)

\* The footer is in the page cache.
LEMMA WriteFooterWrites ==
    ASSUME IInv, Writes, WriteFooter PROVE Writes' /\ FilesKeep /\ RecordsShrink
<1>1. FilesTyped /\ WorkTyped /\ FilesInUse /\ OpenFiles BY WritesParts
<1>2. /\ UNCHANGED <<phase, open, terminal, queue, caller, db, mine>>
      /\ phase = "up" /\ work.pc = "footer" /\ work'.pc = "sync" /\ work'.cmd = work.cmd
      /\ work'.todo = work.todo /\ work'.sealed = work.sealed /\ work'.seg = work.seg
  BY <1>1 DEF WriteFooter, Step, To, StepUnchanged, WorkerUnchanged, index, WorkTyped
<1>3. PICK s \in Segs : s = work.seg BY <1>1, <1>2 DEF FilesInUse, Published
<1>4. /\ disk'[s].name = disk[s].name /\ disk'[s].dname = disk[s].dname
      /\ disk'[s].key = disk[s].key /\ disk'[s].hdr = disk[s].hdr
      /\ disk'[s].recs = disk[s].recs /\ disk'[s].kept = disk[s].kept
      /\ disk'[s].tail = "footer" /\ disk'[s].tailKept = disk[s].tailKept
      /\ \A r \in Segs : r # s => disk'[r] = disk[r]
  BY <1>1, <1>3 DEF WriteFooter, Synced, FilesTyped, File, Tails
<1>5. Sealing("footer", disk[s]) BY <1>1, <1>2, <1>3 DEF OpenFiles
<1>6. Only(s) BY <1>4, <1>5 DEF Only, Sealing, InUse
<1>7. Sealing("sync", disk'[s]) BY <1>4, <1>5 DEF Sealing, InUse
<1>8. Writes' BY <1>2, <1>3, <1>6, <1>7, WorkGoesOn
<1>9. Keeps(disk[s], disk'[s])
  <2>1. disk[s] \in File BY <1>1 DEF FilesTyped
  <2>2. \A n \in 1 .. Len(disk[s].recs) : n <= Len(disk[s].recs) BY <2>1 DEF File
  <2> QED BY <1>4, <1>5, <2>2 DEF Keeps, Lasting, Sealing, InUse
<1> QED BY <1>1, <1>4, <1>8, <1>9, FileChangesKeep

\* The records and the footer are durable.
LEMMA SyncSealedWrites ==
    ASSUME IInv, Writes, SyncSealed PROVE Writes' /\ FilesKeep /\ RecordsShrink
<1>1. FilesTyped /\ WorkTyped /\ FilesInUse /\ OpenFiles BY WritesParts
<1>2. /\ UNCHANGED <<phase, open, terminal, queue, caller, db, mine>>
      /\ phase = "up" /\ work.pc = "sync" /\ work'.pc = "rename" /\ work'.cmd = work.cmd
      /\ work'.todo = work.todo /\ work'.sealed = work.sealed /\ work'.seg = work.seg
  BY <1>1 DEF SyncSealed, Step, To, StepUnchanged, WorkerUnchanged, index, WorkTyped
<1>3. PICK s \in Segs : s = work.seg BY <1>1, <1>2 DEF FilesInUse, Published
<1>4. /\ disk'[s].name = disk[s].name /\ disk'[s].dname = disk[s].dname
      /\ disk'[s].key = disk[s].key /\ disk'[s].hdr = disk[s].hdr
      /\ disk'[s].recs = disk[s].recs /\ disk'[s].kept = Len(disk[s].recs)
      /\ disk'[s].tail = disk[s].tail /\ disk'[s].tailKept = TRUE
      /\ \A r \in Segs : r # s => disk'[r] = disk[r]
  BY <1>1, <1>3 DEF SyncSealed, Synced, FilesTyped, File, Tails
<1>5. Sealing("sync", disk[s]) BY <1>1, <1>2, <1>3 DEF OpenFiles
<1>6. Only(s) BY <1>4, <1>5 DEF Only, Sealing, InUse
<1>7. Sealing("rename", disk'[s]) BY <1>4, <1>5 DEF Sealing, InUse
<1>8. Writes' BY <1>2, <1>3, <1>6, <1>7, WorkGoesOn
<1>9. Keeps(disk[s], disk'[s])
  <2>1. disk[s] \in File BY <1>1 DEF FilesTyped
  <2>2. \A n \in 1 .. Len(disk[s].recs) : n <= Len(disk[s].recs) BY <2>1 DEF File
  <2> QED BY <1>4, <1>5, <2>2 DEF Keeps, Lasting, Sealing, InUse
<1> QED BY <1>1, <1>4, <1>8, <1>9, FileChangesKeep

\* The file has its sealed name, not durable yet.
LEMMA RenameSealedWrites ==
    ASSUME IInv, Writes, RenameSealed PROVE Writes' /\ FilesKeep /\ RecordsShrink
<1>1. FilesTyped /\ WorkTyped /\ FilesInUse /\ OpenFiles BY WritesParts
<1>2. /\ UNCHANGED <<phase, open, terminal, queue, caller, db, mine>>
      /\ phase = "up" /\ work.pc = "rename" /\ work'.pc = "publish sealed" /\ work'.cmd = work.cmd
      /\ work'.todo = work.todo /\ work'.sealed = work.sealed /\ work'.seg = work.seg
  BY <1>1 DEF RenameSealed, Step, To, StepUnchanged, WorkerUnchanged, index, WorkTyped
<1>3. PICK s \in Segs : s = work.seg BY <1>1, <1>2 DEF FilesInUse, Published
<1>4. /\ disk'[s].name = "sealed" /\ disk'[s].dname = disk[s].dname
      /\ disk'[s].key = disk[s].key /\ disk'[s].hdr = disk[s].hdr
      /\ disk'[s].recs = disk[s].recs /\ disk'[s].kept = disk[s].kept
      /\ disk'[s].tail = disk[s].tail /\ disk'[s].tailKept = disk[s].tailKept
      /\ \A r \in Segs : r # s => disk'[r] = disk[r]
  BY <1>1, <1>3 DEF RenameSealed, Synced, FilesTyped, File, Tails
<1>5. Sealing("rename", disk[s]) BY <1>1, <1>2, <1>3 DEF OpenFiles
<1>6. Only(s) BY <1>4, <1>5 DEF Only, Sealing, InUse
<1>7. Sealing("publish sealed", disk'[s]) BY <1>4, <1>5 DEF Sealing, InUse
<1>8. Writes' BY <1>2, <1>3, <1>6, <1>7, WorkGoesOn
<1>9. Keeps(disk[s], disk'[s])
  <2>1. disk[s] \in File BY <1>1 DEF FilesTyped
  <2>2. \A n \in 1 .. Len(disk[s].recs) : n <= Len(disk[s].recs) BY <2>1 DEF File
  <2> QED BY <1>4, <1>5, <2>2 DEF Keeps, Lasting, Sealing, InUse
<1> QED BY <1>1, <1>4, <1>8, <1>9, FileChangesKeep

\* The sealed name is durable: the file is complete, the segment reported.
LEMMA PublishSealedWrites ==
    ASSUME IInv, Writes, PublishSealed PROVE Writes' /\ FilesKeep /\ RecordsShrink
<1>1. FilesTyped /\ WorkTyped /\ FilesInUse /\ OpenFiles BY WritesParts
<1>2. /\ UNCHANGED <<phase, open, terminal, queue, caller, db, mine>>
      /\ phase = "up" /\ work.pc = "publish sealed" /\ work'.pc = "next" /\ work'.cmd = work.cmd
      /\ work'.todo = work.todo /\ work'.sealed = work.sealed \union {work.seg} /\ work'.seg = NoSeg
  BY <1>1 DEF PublishSealed, Step, To, StepUnchanged, WorkerUnchanged, index, WorkTyped
<1>3. PICK s \in Segs : s = work.seg BY <1>1, <1>2 DEF FilesInUse, Published
<1>4. /\ disk'[s].name = disk[s].name /\ disk'[s].dname = "sealed"
      /\ disk'[s].key = disk[s].key /\ disk'[s].hdr = disk[s].hdr
      /\ disk'[s].recs = disk[s].recs /\ disk'[s].kept = disk[s].kept
      /\ disk'[s].tail = disk[s].tail /\ disk'[s].tailKept = disk[s].tailKept
      /\ \A r \in Segs : r # s => disk'[r] = disk[r]
  BY <1>1, <1>3 DEF PublishSealed, Synced, FilesTyped, File, Tails
<1>5. Sealing("publish sealed", disk[s]) BY <1>1, <1>2, <1>3 DEF OpenFiles
<1>6. Only(s) BY <1>4, <1>5 DEF Only, Sealing, InUse
<1>7. Complete(disk'[s]) BY <1>4, <1>5 DEF Complete, Sealing
<1>8. Writes' BY <1>2, <1>3, <1>6, <1>7, WorkGoesOn
<1>9. Keeps(disk[s], disk'[s])
  <2>1. disk[s] \in File BY <1>1 DEF FilesTyped
  <2>2. \A n \in 1 .. Len(disk[s].recs) : n <= Len(disk[s].recs) BY <2>1 DEF File
  <2> QED BY <1>4, <1>5, <2>2 DEF Keeps, Lasting, Sealing, InUse
<1> QED BY <1>1, <1>4, <1>8, <1>9, FileChangesKeep

\* The header is durable.
LEMMA WriteHeaderWrites ==
    ASSUME IInv, Writes, WriteHeader PROVE Writes' /\ FilesKeep /\ RecordsShrink
<1>1. FilesTyped /\ WorkTyped /\ FilesInUse /\ OpenFiles BY WritesParts
<1>2. /\ UNCHANGED <<phase, open, terminal, queue, caller, db, mine>>
      /\ phase = "up" /\ work.pc = "header" /\ work'.pc = "publish open" /\ work'.cmd = work.cmd
      /\ work'.todo = work.todo /\ work'.sealed = work.sealed /\ work'.seg = work.seg
  BY <1>1 DEF WriteHeader, Step, To, StepUnchanged, WorkerUnchanged, index, WorkTyped
<1>3. PICK s \in Segs : s = work.seg BY <1>1, <1>2 DEF FilesInUse, Published
<1>4. /\ disk'[s].name = disk[s].name /\ disk'[s].dname = disk[s].dname
      /\ disk'[s].key = disk[s].key /\ disk'[s].hdr = TRUE
      /\ disk'[s].recs = disk[s].recs /\ disk'[s].kept = disk[s].kept
      /\ disk'[s].tail = disk[s].tail /\ disk'[s].tailKept = disk[s].tailKept
      /\ \A r \in Segs : r # s => disk'[r] = disk[r]
  BY <1>1, <1>3 DEF WriteHeader, Synced, FilesTyped, File, Tails
<1>5. Sealing("header", disk[s]) BY <1>1, <1>2, <1>3 DEF OpenFiles
<1>6. Only(s) BY <1>4, <1>5 DEF Only, Sealing, InUse
<1>7. Sealing("publish open", disk'[s]) BY <1>4, <1>5 DEF Sealing, InUse
<1>8. Writes' BY <1>2, <1>3, <1>6, <1>7, WorkGoesOn
<1>9. Keeps(disk[s], disk'[s])
  <2>1. disk[s] \in File BY <1>1 DEF FilesTyped
  <2>2. \A n \in 1 .. Len(disk[s].recs) : n <= Len(disk[s].recs) BY <2>1 DEF File
  <2> QED BY <1>4, <1>5, <2>2 DEF Keeps, Lasting, Sealing, InUse
<1> QED BY <1>1, <1>4, <1>8, <1>9, FileChangesKeep

\* A failed step of the worker: it leaves its command, whatever it left in the file.
LEMMA FailureWrites ==
    ASSUME IInv, Writes, phase = "up", work.pc # "idle", NEW latch \in BOOLEAN, Fails(latch),
           UNCHANGED <<open, queue, mine>>,
           SealedStay,
           \A k \in Keys : open[k] # NoSeg => InUse(disk'[open[k]]) /\ disk'[open[k]].key = k,
           latch \/ (UNCHANGED disk /\ (work.pc # "next" => Settled(disk[work.seg])))
    PROVE  Writes'
<1>1. /\ WorkTyped /\ CallTyped /\ FilesInUse /\ CommitsAlone /\ OpenFiles /\ FlushesSettle
      /\ RestTyped /\ CallOrder
  BY WritesParts
<1>2. /\ UNCHANGED <<phase, db, mine, queue, open>> /\ work' = IdleWork
      /\ terminal' = (terminal \/ latch)
      /\ caller' = IF work.cmd.wanted THEN IdleCaller ELSE caller
  BY DEF Fails, Answer, WorkerUnchanged, index
<1>3. /\ IdleWork.pc = "idle" /\ IdleWork.cmd = NoCommand /\ IdleWork.sealed = {}
      /\ NoCommand.op = "none" /\ NoCommand.wanted = FALSE /\ IdleCaller.pc = "idle"
  BY DEF IdleWork, NoCommand, IdleCaller
<1>4. caller.pc # "commit" /\ caller'.pc # "commit" BY <1>1, <1>2, <1>3 DEF CommitsAlone
<1>5. \A i \in 1 .. Len(queue) : queue[i].wanted => ~work.cmd.wanted
  BY <1>1, EmptySeq DEF CallOrder
<1>6. CommitsAlone' BY <1>1, <1>2, <1>3, <1>4, <1>5 DEF CommitsAlone
<1>7. SealsAreComplete'
  <2>1. \A r \in work'.sealed : FALSE BY <1>2, <1>3
  <2> QED BY <1>2, <2>1, SealsStay
<1>8. OpenFiles'
  <2>1. \A k \in Keys : open[k] # NoSeg =>
          open[k] \in mine /\ InUse(disk'[open[k]]) /\ disk'[open[k]].key = k
    BY <1>1 DEF OpenFiles
  <2> QED BY <1>1, <1>2, <1>3, <1>4, <2>1 DEF OpenFiles
<1>9. FlushesSettle'
  <2>1. phase' = "up" /\ ~terminal' =>
          \A r \in mine : Settled(disk[r]) \/ \E k \in Keys : open[k] = r
    <3>1. CASE latch BY <1>2, <3>1
    <3>2. CASE ~latch BY <1>1, <1>2, <3>2 DEF FlushesSettle
    <3> QED BY <3>1, <3>2
  <2>2. phase' = "up" /\ ~terminal' => UNCHANGED disk BY <1>2
  <2> QED BY <1>2, <1>3, <1>4, <2>1, <2>2 DEF FlushesSettle
<1> QED BY <1>6, <1>7, <1>8, <1>9 DEF Writes

\* Steps that leave the files alone.
LEMMA NothingChanges ==
    ASSUME IInv, UNCHANGED disk PROVE FilesKeep /\ RecordsShrink /\ SealedStay
<1>1. \A r \in Segs : disk[r] \in File /\ disk'[r].recs = disk[r].recs
  BY DEF IInv, TypeOK, FilesTyped
<1>2. RecordsShrink BY <1>1, SameRecords DEF RecordsShrink
<1> QED BY <1>2, KeptItself DEF FilesKeep, SealedStay

\* A failed step that left the files alone: it latches, or the file is settled.
LEMMA QuietFailureWrites ==
    ASSUME IInv, Writes, phase = "up", work.pc # "idle", NEW latch \in BOOLEAN, Fails(latch),
           UNCHANGED <<disk, open, queue, mine>>,
           latch \/ work.pc \in {"rename", "publish sealed"}
    PROVE  Writes' /\ FilesKeep /\ RecordsShrink
<1>1. WorkTyped /\ OpenFiles BY WritesParts
<1>2. FilesKeep /\ RecordsShrink /\ SealedStay BY NothingChanges
<1>3. \A k \in Keys : open[k] # NoSeg => InUse(disk'[open[k]]) /\ disk'[open[k]].key = k
  BY <1>1 DEF OpenFiles
<1>4. latch \/ Settled(disk[work.seg])
  <2>1. ASSUME work.pc \in {"rename", "publish sealed"} PROVE Settled(disk[work.seg])
    <3>1. Sealing(work.pc, disk[work.seg]) BY <1>1, <2>1 DEF OpenFiles
    <3> QED BY <2>1, <3>1 DEF Sealing, InUse, Settled
  <2> QED BY <2>1
<1> QED BY <1>2, <1>3, <1>4, FailureWrites

\* Syncing, renaming, publishing and creating a file may fail.
LEMMA SyncSealedFailsWrites ==
    ASSUME IInv, Writes, SyncSealedFails PROVE Writes' /\ FilesKeep /\ RecordsShrink
<1>1. /\ phase = "up" /\ work.pc # "idle" /\ Fails(TRUE)
      /\ UNCHANGED <<disk, open, queue, mine>>
  BY DEF SyncSealedFails, Step
<1> QED BY <1>1, QuietFailureWrites

LEMMA RenameSealedFailsWrites ==
    ASSUME IInv, Writes, RenameSealedFails PROVE Writes' /\ FilesKeep /\ RecordsShrink
<1>1. /\ phase = "up" /\ work.pc # "idle" /\ Fails(FALSE)
      /\ UNCHANGED <<disk, open, queue, mine>>
  BY DEF RenameSealedFails, Step
<1> QED BY <1>1, QuietFailureWrites DEF RenameSealedFails, Step

LEMMA PublishSealedFailsWrites ==
    ASSUME IInv, Writes, PublishSealedFails PROVE Writes' /\ FilesKeep /\ RecordsShrink
<1>1. /\ phase = "up" /\ work.pc # "idle" /\ Fails(FALSE)
      /\ UNCHANGED <<disk, open, queue, mine>>
  BY DEF PublishSealedFails, Step
<1> QED BY <1>1, QuietFailureWrites DEF PublishSealedFails, Step

LEMMA PublishOpenFailsWrites ==
    ASSUME IInv, Writes, PublishOpenFails PROVE Writes' /\ FilesKeep /\ RecordsShrink
<1>1. /\ phase = "up" /\ work.pc # "idle" /\ Fails(TRUE)
      /\ UNCHANGED <<disk, open, queue, mine>>
  BY DEF PublishOpenFails, Step
<1> QED BY <1>1, QuietFailureWrites

LEMMA CreateOpenFailsWrites ==
    ASSUME IInv, Writes, NEW k \in Keys, CreateOpenFails(k)
    PROVE  Writes' /\ FilesKeep /\ RecordsShrink
<1>1. /\ phase = "up" /\ work.pc # "idle" /\ Fails(TRUE)
      /\ UNCHANGED <<disk, open, queue, mine>>
  BY DEF CreateOpenFails, Appending, Step
<1> QED BY <1>1, QuietFailureWrites

\* A failed write leaves something in the file the worker is about.
LEMMA FailedFileWrites ==
    ASSUME IInv, Writes, phase = "up", work.pc \notin {"idle", "next"}, Fails(TRUE),
           UNCHANGED <<open, queue, mine>>, NEW s \in Segs, s = work.seg, Only(s),
           disk'[s].recs = disk[s].recs, Keeps(disk[s], disk'[s])
    PROVE  Writes' /\ FilesKeep /\ RecordsShrink
<1>1. FilesTyped /\ WorkTyped /\ OpenFiles /\ FilesInUse BY WritesParts
<1>2. ~Complete(disk[s]) /\ \A k \in Keys : open[k] # s BY <1>1, NotComplete DEF OpenFiles
<1>3. \A k \in Keys : open[k] # NoSeg => InUse(disk'[open[k]]) /\ disk'[open[k]].key = k
  BY <1>1, <1>2 DEF OpenFiles, Only, FilesInUse, Published
<1>4. FilesKeep /\ RecordsShrink BY <1>1, FileChangesKeep DEF Only
<1> QED BY <1>2, <1>3, <1>4, OnlyOneChanges, FailureWrites

LEMMA WriteFooterFailsWrites ==
    ASSUME IInv, Writes, WriteFooterFails PROVE Writes' /\ FilesKeep /\ RecordsShrink
<1>1. FilesTyped /\ WorkTyped /\ FilesInUse /\ OpenFiles BY WritesParts
<1>2. /\ phase = "up" /\ work.pc = "footer" /\ Fails(TRUE)
      /\ UNCHANGED <<open, queue, mine>>
  BY DEF WriteFooterFails, Step
<1>3. PICK s \in Segs : s = work.seg BY <1>1, <1>2 DEF FilesInUse, Published
<1>4. PICK t \in Tails : disk' = [disk EXCEPT ![s].tail = t] BY <1>3 DEF WriteFooterFails
<1>5. /\ disk'[s].name = disk[s].name /\ disk'[s].dname = disk[s].dname
      /\ disk'[s].key = disk[s].key /\ disk'[s].hdr = disk[s].hdr
      /\ disk'[s].recs = disk[s].recs /\ disk'[s].kept = disk[s].kept
      /\ \A r \in Segs : r # s => disk'[r] = disk[r]
  BY <1>1, <1>4 DEF FilesTyped, File, Tails
<1>6. Only(s) /\ Keeps(disk[s], disk'[s]) BY <1>5 DEF Only, Keeps, Lasting
<1> QED BY <1>2, <1>3, <1>5, <1>6, FailedFileWrites

LEMMA WriteHeaderFailsWrites ==
    ASSUME IInv, Writes, WriteHeaderFails PROVE Writes' /\ FilesKeep /\ RecordsShrink
<1>1. FilesTyped /\ WorkTyped /\ FilesInUse /\ OpenFiles BY WritesParts
<1>2. /\ phase = "up" /\ work.pc = "header" /\ Fails(TRUE)
      /\ UNCHANGED <<open, queue, mine>>
  BY DEF WriteHeaderFails, Step
<1>3. PICK s \in Segs : s = work.seg BY <1>1, <1>2 DEF FilesInUse, Published
<1>4. PICK h \in BOOLEAN : disk' = [disk EXCEPT ![s].hdr = h] BY <1>3 DEF WriteHeaderFails
<1>5. /\ disk'[s].name = disk[s].name /\ disk'[s].key = disk[s].key
      /\ disk'[s].recs = disk[s].recs
      /\ \A r \in Segs : r # s => disk'[r] = disk[r]
  BY <1>1, <1>4 DEF FilesTyped, File, Tails
<1>6. disk[s].recs = <<>> BY <1>1, <1>2, <1>3 DEF OpenFiles, Sealing
<1>7. Only(s) /\ Keeps(disk[s], disk'[s]) BY <1>5, <1>6, EmptySeq DEF Only, Keeps
<1> QED BY <1>2, <1>3, <1>5, <1>7, FailedFileWrites

\* A failed write of a record.
LEMMA WriteRecordFailsWrites ==
    ASSUME IInv, Writes, NEW k \in Keys, WriteRecordFails(k) PROVE Writes' /\ FilesKeep
<1>1. FilesTyped /\ WorkTyped /\ FilesInUse /\ OpenFiles /\ AppendsHaveFrames BY WritesParts
<1>2. /\ phase = "up" /\ work.pc = "next" /\ Fails(TRUE) /\ open[k] # NoSeg
      /\ UNCHANGED <<open, queue, mine>> /\ work.cmd.frame \in Frames
  BY <1>1 DEF WriteRecordFails, Appending, Step, AppendsHaveFrames
<1>3. PICK s \in Segs : s = open[k] BY <1>1, <1>2 DEF FilesInUse, Published
<1>4. /\ disk'[s].name = disk[s].name /\ disk'[s].dname = disk[s].dname
      /\ disk'[s].key = disk[s].key /\ disk'[s].hdr = disk[s].hdr
      /\ disk'[s].recs \in {disk[s].recs, Append(disk[s].recs, work.cmd.frame)}
      /\ disk'[s].kept = disk[s].kept
      /\ \A r \in Segs : r # s => disk'[r] = disk[r]
  BY <1>1, <1>3 DEF WriteRecordFails, FilesTyped, File, Tails
<1>5. ~Complete(disk[s]) /\ disk[s].name = "open"
  BY <1>1, <1>2, <1>3 DEF OpenFiles, InUse, Complete
<1>6. Only(s) BY <1>4 DEF Only
<1>7. \A q \in Keys : open[q] # NoSeg => InUse(disk'[open[q]]) /\ disk'[open[q]].key = q
  <2> SUFFICES ASSUME NEW q \in Keys, NEW r, r = open[q], r # NoSeg
               PROVE  InUse(disk'[r]) /\ disk'[r].key = q
    OBVIOUS
  <2>1. r \in Segs /\ InUse(disk[r]) /\ disk[r].key = q
    BY <1>1 DEF OpenFiles, FilesInUse, Published
  <2> QED BY <1>4, <2>1 DEF InUse
<1>8. Keeps(disk[s], disk'[s])
  <2>1. disk[s].recs \in Seq(Frames) BY <1>1 DEF FilesTyped, File
  <2>2. \A n \in 1 .. Len(disk[s].recs) :
           n \in 1 .. Len(disk'[s].recs) /\ disk'[s].recs[n] = disk[s].recs[n]
    BY <1>2, <1>4, <2>1
  <2> QED BY <1>4, <1>5, <2>2 DEF Keeps, Lasting
<1>9. FilesKeep BY <1>4, <1>8, KeptItself DEF FilesKeep
<1> QED BY <1>2, <1>5, <1>6, <1>7, <1>9, OnlyOneChanges, FailureWrites

\* A key leaves open_segments and its file is sealed next.
LEMMA StartSealWrites ==
    ASSUME IInv, Writes, NEW k \in Keys, StartSeal(k) PROVE Writes' /\ FilesKeep /\ RecordsShrink
<1>1. /\ WorkTyped /\ FilesInUse /\ CommitsAlone /\ OpenFiles /\ SealsAreComplete
      /\ FlushesSettle /\ RestTyped
  BY WritesParts
<1>2. /\ UNCHANGED <<phase, disk, terminal, queue, caller, db, mine>>
      /\ phase = "up" /\ work.pc = "next" /\ work'.pc = "footer" /\ work'.cmd = work.cmd
      /\ work'.seg = open[k] /\ work'.todo = work.todo \ {k} /\ work'.sealed = work.sealed
      /\ open'[k] = NoSeg /\ \A q \in Keys : q # k => open'[q] = open[q]
      /\ open[k] # NoSeg /\ open[k] \in Segs
  BY <1>1 DEF StartSeal, Step, StepUnchanged, WorkerUnchanged, index, WorkTyped, FilesInUse,
              Published
<1>3. PICK s \in Segs : s = open[k] BY <1>2
<1>4. s \in mine /\ InUse(disk[s]) /\ disk[s].key = k BY <1>1, <1>2, <1>3 DEF OpenFiles
<1>5. \A q \in Keys : q # k /\ open[q] # NoSeg => open[q] # s
  BY <1>1, <1>4 DEF OpenFiles
<1>6. FilesKeep /\ RecordsShrink /\ SealedStay BY <1>2, NothingChanges
<1>7. CommitsAlone' BY <1>1, <1>2 DEF CommitsAlone, IdleWork
<1>8. SealsAreComplete' BY <1>2, <1>6, SealsStay
<1>9. OpenFiles'
  <2>1. Sealing("footer", disk[s]) BY <1>4 DEF Sealing
  <2>2. \A q \in Keys : open'[q] # s BY <1>2, <1>3, <1>5 DEF NoSeg, Segs, Frames
  <2>3. \A q \in Keys : open'[q] # NoSeg =>
          open'[q] \in mine' /\ InUse(disk'[open'[q]]) /\ disk'[open'[q]].key = q
    BY <1>1, <1>2 DEF OpenFiles
  <2>4. caller'.pc = "commit" /\ caller'.op = "append" =>
          caller'.at.seg \in mine' /\ InUse(disk'[caller'.at.seg])
    BY <1>1, <1>2 DEF OpenFiles
  <2> QED BY <1>1, <1>2, <1>3, <1>4, <2>1, <2>2, <2>3, <2>4 DEF OpenFiles
<1>10. FlushesSettle'
  <2>1. \A r \in mine : r # s => ((\E q \in Keys : open[q] = r) => \E q \in Keys : open'[q] = r)
    BY <1>2, <1>3
  <2>2. phase = "up" /\ ~terminal => \A r \in mine :
          Settled(disk[r]) \/ (\E q \in Keys : open'[q] = r) \/ r = s
    BY <1>1, <1>2, <2>1 DEF FlushesSettle
  <2>3. work'.cmd.op = "flush" => \A q \in work'.cmd.keys : open'[q] = NoSeg \/ q \in work'.todo
    BY <1>1, <1>2 DEF FlushesSettle, WorkTyped, Command
  <2> QED BY <1>1, <1>2, <1>3, <2>2, <2>3 DEF FlushesSettle
<1> QED BY <1>6, <1>7, <1>8, <1>9, <1>10 DEF Writes

\* The worker receives a command.
LEMMA TakeWrites ==
    ASSUME IInv, Writes, Take PROVE Writes' /\ FilesKeep /\ RecordsShrink
<1>1. /\ WorkTyped /\ FilesInUse /\ CommitsAlone /\ OpenFiles /\ SealsAreComplete
      /\ FlushesSettle /\ RestTyped
  BY WritesParts
<1>2. PICK cmd, todo :
      /\ cmd = Head(queue)
      /\ todo \in IF cmd.op = "append" THEN SUBSET {k \in cmd.keys : MayRotate(k)}
                                       ELSE {OpenOf(cmd.keys)}
      /\ work' = [pc |-> "next", cmd |-> cmd, seg |-> NoSeg, todo |-> todo, sealed |-> {}]
  BY DEF Take
<1>3. /\ UNCHANGED <<phase, disk, open, terminal, caller, db, mine>>
      /\ phase = "up" /\ work.pc = "idle" /\ queue # <<>> /\ ~terminal
      /\ queue' = Tail(queue)
  BY DEF Take, WorkerUnchanged, index
<1>4. /\ cmd = queue[1] /\ cmd \in Command /\ Len(queue) >= 1 /\ Len(queue) \in Nat
      /\ Len(queue') = Len(queue) - 1
      /\ \A i \in 1 .. Len(queue') : queue'[i] = queue[i + 1]
      /\ \A i \in 1 .. Len(queue') : i + 1 \in 1 .. Len(queue)
  <2>1. queue \in Seq(Command) BY <1>1 DEF WorkTyped
  <2> QED BY <1>2, <1>3, <2>1, QueueHead
<1>5. FilesKeep /\ RecordsShrink /\ SealedStay BY <1>3, NothingChanges
<1>6. caller.pc # "commit" BY <1>1, <1>3 DEF CommitsAlone
<1>7. CommitsAlone'
  <2>1. \A i \in 1 .. Len(queue') :
          /\ queue'[i].wanted => caller.keys = queue'[i].keys
          /\ queue'[i].op = "append" => \E k \in Keys : queue'[i].keys = {k}
    BY <1>1, <1>4 DEF CommitsAlone
  <2>2. /\ cmd.wanted => caller.keys = cmd.keys
        /\ cmd.op = "append" => \E k \in Keys : cmd.keys = {k}
    BY <1>1, <1>4 DEF CommitsAlone
  <2> QED BY <1>2, <1>3, <1>6, <2>1, <2>2 DEF CommitsAlone
<1>8. SealsAreComplete' BY <1>2, <1>3, <1>5, SealsStay
<1>9. OpenFiles' BY <1>1, <1>2, <1>3, <1>6 DEF OpenFiles
<1>10. FlushesSettle'
  <2>1. cmd.op = "flush" => \A k \in cmd.keys : open[k] = NoSeg \/ k \in todo
    BY <1>2 DEF OpenOf
  <2> QED BY <1>1, <1>2, <1>3, <1>6, <2>1 DEF FlushesSettle
<1> QED BY <1>5, <1>7, <1>8, <1>9, <1>10 DEF Writes

\* A latched worker answers with its error.
LEMMA RefuseWrites ==
    ASSUME IInv, Writes, Refuse PROVE Writes' /\ FilesKeep /\ RecordsShrink
<1>1. /\ WorkTyped /\ FilesInUse /\ CommitsAlone /\ OpenFiles /\ SealsAreComplete
      /\ FlushesSettle /\ RestTyped
  BY WritesParts
<1>2. /\ UNCHANGED <<phase, disk, open, terminal, work, db, mine>>
      /\ phase = "up" /\ work.pc = "idle" /\ queue # <<>> /\ terminal
      /\ queue' = Tail(queue)
      /\ caller' = IF Head(queue).wanted THEN IdleCaller ELSE caller
  BY DEF Refuse, WorkerUnchanged, index
<1>3. /\ Len(queue) >= 1 /\ Len(queue) \in Nat
      /\ Len(queue') = Len(queue) - 1
      /\ \A i \in 1 .. Len(queue') : queue'[i] = queue[i + 1]
      /\ \A i \in 1 .. Len(queue') : i + 1 \in 1 .. Len(queue)
      /\ Head(queue) = queue[1]
  <2>1. queue \in Seq(Command) BY <1>1 DEF WorkTyped
  <2> QED BY <1>2, <2>1, QueueHead
<1>4. FilesKeep /\ RecordsShrink /\ SealedStay BY <1>2, NothingChanges
<1>5. caller.pc # "commit" /\ caller'.pc # "commit"
  BY <1>1, <1>2 DEF CommitsAlone, IdleCaller
<1>6. CommitsAlone'
  <2>1. \A i \in 1 .. Len(queue') : queue'[i].wanted => caller'.keys = queue'[i].keys
    <3>1. \A i \in 1 .. Len(queue') : queue'[i].wanted => ~Head(queue).wanted
      BY <1>3, WritesParts DEF CallOrder
    <3> QED BY <1>1, <1>2, <1>3, <3>1 DEF CommitsAlone
  <2>2. \A i \in 1 .. Len(queue') :
          queue'[i].op = "append" => \E k \in Keys : queue'[i].keys = {k}
    BY <1>1, <1>3 DEF CommitsAlone
  <2>3. work.cmd.wanted = FALSE
    BY <1>2, WritesParts DEF StoppedIsIdle, NoCommand
  <2> QED BY <1>1, <1>2, <1>5, <2>1, <2>2, <2>3 DEF CommitsAlone
<1>7. SealsAreComplete' BY <1>2, <1>4, SealsStay
<1>8. OpenFiles' BY <1>1, <1>2, <1>5 DEF OpenFiles
<1>9. FlushesSettle' BY <1>1, <1>2, <1>5 DEF FlushesSettle
<1> QED BY <1>4, <1>6, <1>7, <1>8, <1>9 DEF Writes

\* The worker answers.
LEMMA DoneWrites ==
    ASSUME IInv, Writes, phase = "up", work.pc = "next", NEW at, Done(work.sealed, at),
           UNCHANGED <<open, terminal, queue, mine>>, WorkerUnchanged, SealedStay,
           \A k \in Keys : open[k] # NoSeg => InUse(disk'[open[k]]) /\ disk'[open[k]].key = k,
           work.cmd.op = "append" => at.seg \in mine /\ InUse(disk'[at.seg]),
           work.cmd.op = "flush" => work.todo = {} /\ UNCHANGED disk,
           \A r \in mine : Settled(disk[r]) => Settled(disk'[r]) \/ \E k \in Keys : open[k] = r
    PROVE  Writes'
<1>1. /\ WorkTyped /\ CallTyped /\ FilesInUse /\ CommitsAlone /\ OpenFiles /\ FlushesSettle
      /\ RestTyped /\ CallOrder
  BY WritesParts
<1>2. /\ UNCHANGED <<phase, db, mine, queue, open, terminal>> /\ work' = IdleWork
      /\ caller' = IF work.cmd.wanted
                   THEN [caller EXCEPT !.pc = "commit", !.sealed = work.sealed, !.at = at]
                   ELSE caller
  BY DEF Done, Answer, WorkerUnchanged, index
<1>3. /\ IdleWork.pc = "idle" /\ IdleWork.cmd = NoCommand /\ IdleWork.sealed = {}
      /\ NoCommand.op = "none" /\ NoCommand.wanted = FALSE
  BY DEF IdleWork, NoCommand
<1>4. caller.pc # "commit" BY <1>1, <1>3 DEF CommitsAlone
<1>5. \/ caller' = caller /\ ~work.cmd.wanted
      \/ /\ caller'.pc = "commit" /\ caller'.sealed = work.sealed /\ caller'.at = at
         /\ caller'.op = work.cmd.op /\ caller'.keys = work.cmd.keys
         /\ queue = <<>> /\ work.cmd.wanted
  <2>1. CASE work.cmd.wanted
    <3>1. /\ queue = <<>> /\ caller.op = work.cmd.op /\ caller.keys = work.cmd.keys
      BY <1>1, <2>1 DEF CallOrder, Awaited, CommitsAlone
    <3> QED BY <1>1, <1>2, <2>1, <3>1 DEF CallTyped
  <2> QED BY <1>2, <2>1
<1>6. CommitsAlone'
  <2>1. CASE caller' = caller /\ ~work.cmd.wanted BY <1>1, <1>2, <1>3, <1>4, <2>1 DEF CommitsAlone
  <2>2. CASE caller'.pc = "commit" /\ queue = <<>>
    BY <1>2, <1>3, <2>2, EmptySeq DEF CommitsAlone
  <2> QED BY <1>5, <2>1, <2>2
<1>7. SealsAreComplete'
  <2>1. \A r \in work'.sealed : FALSE BY <1>2, <1>3
  <2> QED BY <1>2, <1>5, <2>1, SealsStay
<1>8. OpenFiles'
  <2>1. \A k \in Keys : open[k] # NoSeg => open[k] \in mine BY <1>1 DEF OpenFiles
  <2>2. caller'.pc = "commit" /\ caller'.op = "append" =>
          caller'.at.seg \in mine /\ InUse(disk'[caller'.at.seg])
    BY <1>4, <1>5
  <2> QED BY <1>1, <1>2, <1>3, <2>1, <2>2 DEF OpenFiles
<1>9. FlushesSettle'
  <2>1. ~terminal /\ \A r \in mine : Settled(disk[r]) \/ \E k \in Keys : open[k] = r
    BY <1>1 DEF FlushesSettle, CommitsAlone
  <2>2. \A r \in mine : Settled(disk'[r]) \/ \E k \in Keys : open[k] = r
    BY <2>1
  <2>3. ASSUME caller'.pc = "commit", caller'.op = "flush", NEW r \in mine,
               disk'[r].key \in caller'.keys
        PROVE  Settled(disk'[r])
    <3>1. work.cmd.op = "flush" /\ caller'.keys = work.cmd.keys BY <1>4, <1>5, <2>3
    <3>2. \A k \in work.cmd.keys : open[k] = NoSeg BY <1>1, <3>1 DEF FlushesSettle
    <3>3. \A k \in Keys : open[k] = r => disk[r].key = k
      BY <1>1, <2>3 DEF OpenFiles, RestTyped, NoSeg, Segs, Frames
    <3>4. r # NoSeg BY <1>1 DEF RestTyped, NoSeg, Segs, Frames
    <3> QED BY <2>2, <2>3, <3>1, <3>2, <3>3, <3>4
  <2> QED BY <1>2, <1>3, <2>2, <2>3 DEF FlushesSettle
<1> QED BY <1>6, <1>7, <1>8, <1>9 DEF Writes

\* Every file of the flushed keys is settled by now.
LEMMA FlushDoneWrites ==
    ASSUME IInv, Writes, FlushDone PROVE Writes' /\ FilesKeep /\ RecordsShrink
<1>1. OpenFiles BY WritesParts
<1>2. /\ phase = "up" /\ work.pc = "next" /\ work.todo = {} /\ work.cmd.op = "flush"
      /\ Done(work.sealed, NoAddress) /\ UNCHANGED <<disk, open, terminal, queue, mine>>
      /\ WorkerUnchanged
  BY DEF FlushDone, Step
<1>3. \A k \in Keys : open[k] # NoSeg => InUse(disk'[open[k]]) /\ disk'[open[k]].key = k
  BY <1>1, <1>2 DEF OpenFiles
<1> QED BY <1>2, <1>3, NothingChanges, DoneWrites

\* A record is added behind those the file has.
LEMMA WriteRecordWrites ==
    ASSUME IInv, Writes, NEW k \in Keys, WriteRecord(k) PROVE Writes' /\ FilesKeep
<1>1. FilesTyped /\ WorkTyped /\ FilesInUse /\ OpenFiles /\ AppendsHaveFrames BY WritesParts
<1>2. /\ phase = "up" /\ work.pc = "next" /\ work.cmd.op = "append" /\ open[k] # NoSeg
      /\ work.cmd.frame \in Frames
      /\ UNCHANGED <<open, terminal, queue, mine>> /\ WorkerUnchanged
  BY <1>1 DEF WriteRecord, Appending, Step, AppendsHaveFrames
<1>3. PICK s \in Segs : s = open[k] BY <1>1, <1>2 DEF FilesInUse, Published
<1>4. /\ disk'[s].name = disk[s].name /\ disk'[s].dname = disk[s].dname
      /\ disk'[s].key = disk[s].key /\ disk'[s].hdr = disk[s].hdr
      /\ disk'[s].recs = Append(disk[s].recs, work.cmd.frame)
      /\ disk'[s].kept = disk[s].kept
      /\ \A r \in Segs : r # s => disk'[r] = disk[r]
  BY <1>1, <1>3 DEF WriteRecord, FilesTyped, File, Tails
<1>5. s \in mine /\ InUse(disk[s]) BY <1>1, <1>2, <1>3 DEF OpenFiles
<1>6. SealedStay BY <1>4, <1>5, OnlyOneChanges DEF Only, InUse, Complete
<1>7. \A q \in Keys : open[q] # NoSeg => InUse(disk'[open[q]]) /\ disk'[open[q]].key = q
  <2> SUFFICES ASSUME NEW q \in Keys, NEW r, r = open[q], r # NoSeg
               PROVE  InUse(disk'[r]) /\ disk'[r].key = q
    OBVIOUS
  <2>1. r \in Segs /\ InUse(disk[r]) /\ disk[r].key = q
    BY <1>1 DEF OpenFiles, FilesInUse, Published
  <2> QED BY <1>4, <2>1 DEF InUse
<1>8. Keeps(disk[s], disk'[s])
  <2>1. disk[s].recs \in Seq(Frames) BY <1>1 DEF FilesTyped, File
  <2>2. \A n \in 1 .. Len(disk[s].recs) :
           n \in 1 .. Len(disk'[s].recs) /\ disk'[s].recs[n] = disk[s].recs[n]
    BY <1>2, <1>4, <2>1
  <2> QED BY <1>4, <1>5, <2>2 DEF Keeps, Lasting, InUse
<1>9. FilesKeep BY <1>4, <1>8, KeptItself DEF FilesKeep
<1>10. PICK at : at = Address(s, Len(disk[s].recs) + 1) OBVIOUS
<1>11. Done(work.sealed, at) /\ at.seg = s BY <1>3, <1>10 DEF WriteRecord, Address
<1>12. \A r \in mine : Settled(disk[r]) => Settled(disk'[r]) \/ \E q \in Keys : open[q] = r
  BY <1>3, <1>4, WritesParts DEF RestTyped
<1>13. at.seg \in mine /\ InUse(disk'[at.seg]) BY <1>2, <1>3, <1>5, <1>7, <1>11
<1> QED BY <1>2, <1>6, <1>7, <1>9, <1>11, <1>12, <1>13, DoneWrites

\* A new file, of a frame that has none.
LEMMA CreateOpenWrites ==
    ASSUME IInv, Writes, NEW k \in Keys, CreateOpen(k) PROVE Writes' /\ FilesKeep /\ RecordsShrink
<1>1. /\ FilesTyped /\ WorkTyped /\ RestTyped /\ FilesInUse /\ OpenFiles /\ AppendsHaveFrames
      /\ CommitsAlone /\ SealsAreComplete /\ FlushesSettle
  BY WritesParts
<1>2. PICK s \in Segs : s = work.cmd.frame
  BY <1>1 DEF CreateOpen, Appending, AppendsHaveFrames, Segs
<1>3. /\ UNCHANGED <<phase, open, terminal, queue, caller, db>> /\ mine' = mine \union {s}
      /\ phase = "up" /\ work.pc = "next" /\ work.todo = {} /\ work.cmd.op = "append"
      /\ k \in work.cmd.keys /\ open[k] = NoSeg /\ disk[s].name = "none"
      /\ work'.pc = "header" /\ work'.seg = s /\ work'.cmd = work.cmd
      /\ work'.todo = work.todo /\ work'.sealed = work.sealed
  BY <1>1, <1>2 DEF CreateOpen, Appending, Step, WorkerUnchanged, index, WorkTyped
<1>4. /\ disk'[s].name = "open" /\ disk'[s].key = k /\ disk'[s].recs = <<>> /\ disk'[s].kept = 0
      /\ \A r \in Segs : r # s => disk'[r] = disk[r]
  BY <1>1, <1>2 DEF CreateOpen, FilesTyped, NoFile
<1>5. ~Complete(disk[s]) /\ ~Settled(disk[s]) /\ ~InUse(disk[s]) /\ ~Published(s)
  BY <1>3 DEF Complete, Settled, InUse, Published
<1>6. SealedStay BY <1>3, <1>4, <1>5 DEF SealedStay
<1>7. caller.pc # "commit"
  <2>1. IdleWork.pc = "idle" BY DEF IdleWork
  <2> QED BY <1>1, <1>3, <2>1 DEF CommitsAlone
<1>8. CommitsAlone' BY <1>1, <1>3, <1>7 DEF CommitsAlone
<1>9. SealsAreComplete'
  <2>2. db.row[s] # "sealed" BY <1>1, <1>3 DEF SealsAreComplete
  <2>3. \A r \in work'.sealed : r \in mine' /\ Complete(disk'[r])
    BY <1>1, <1>3, <1>6 DEF SealsAreComplete, SealedStay, WorkTyped
  <2>4. \A r \in mine' : db'.row[r] = "sealed" =>
          Complete(disk'[r]) /\ db'.cnt[r] = Len(disk'[r].recs)
    <3>1. \A r \in mine : r \in Segs BY <1>1 DEF RestTyped
    <3>2. \A r \in mine : db.row[r] = "sealed" => disk'[r] = disk[r]
      BY <1>1, <1>6, <3>1 DEF SealsAreComplete, SealedStay
    <3> QED BY <1>1, <1>3, <2>2, <3>2 DEF SealsAreComplete
  <2>5. \A r \in Segs : db'.row[r] = "sealed" => disk'[r].name = "sealed"
    BY <1>1, <1>3, <1>6 DEF SealsAreComplete, SealedStay
  <2> QED BY <1>3, <1>7, <2>3, <2>4, <2>5 DEF SealsAreComplete
<1>10. \A q \in Keys : open[q] # NoSeg => disk'[open[q]] = disk[open[q]] /\ open[q] # s
  BY <1>1, <1>4, <1>5 DEF OpenFiles, FilesInUse, Published
<1>11. OpenFiles'
  <2>1. Sealing("header", disk'[s]) BY <1>4 DEF Sealing
  <2>2. \A q \in Keys : open'[q] # NoSeg =>
          open'[q] \in mine' /\ InUse(disk'[open'[q]]) /\ disk'[open'[q]].key = q
    BY <1>1, <1>3, <1>10 DEF OpenFiles
  <2>3. \A q \in Keys : open'[q] # s BY <1>3, <1>10 DEF NoSeg, Segs, Frames
  <2>4. work'.cmd.keys = {k} BY <1>1, <1>3 DEF CommitsAlone
  <2> QED BY <1>1, <1>3, <1>4, <1>7, <2>1, <2>2, <2>3, <2>4 DEF OpenFiles
<1>12. FlushesSettle'
  <2>1. \A r \in mine : Settled(disk[r]) => disk'[r] = disk[r] BY <1>1, <1>4, <1>5 DEF RestTyped
  <2>2. ~terminal BY <1>1, <1>3 DEF CommitsAlone
  <2>3. \A r \in mine' : Settled(disk'[r]) \/ (\E q \in Keys : open[q] = r) \/ r = s
    BY <1>1, <1>3, <2>1, <2>2 DEF FlushesSettle
  <2> QED BY <1>1, <1>3, <1>7, <2>3 DEF FlushesSettle
<1>13. FilesKeep /\ RecordsShrink
  <2>1. Keeps(disk[s], disk'[s]) BY <1>3 DEF Keeps, Lasting
  <2> QED BY <1>1, <1>4, <2>1, FileChangesKeep
<1> QED BY <1>8, <1>9, <1>11, <1>12, <1>13 DEF Writes

\* The new file is the open segment of its key.
LEMMA PublishOpenWrites ==
    ASSUME IInv, Writes, NEW k \in Keys, PublishOpen(k) PROVE Writes' /\ FilesKeep /\ RecordsShrink
<1>1. /\ FilesTyped /\ WorkTyped /\ RestTyped /\ FilesInUse /\ OpenFiles
      /\ CommitsAlone /\ SealsAreComplete /\ FlushesSettle
  BY WritesParts
<1>2. /\ UNCHANGED <<phase, terminal, queue, caller, db, mine>>
      /\ phase = "up" /\ work.pc = "publish open" /\ k \in work.cmd.keys
      /\ work'.pc = "next" /\ work'.cmd = work.cmd
      /\ work'.todo = work.todo /\ work'.sealed = work.sealed
  BY <1>1 DEF PublishOpen, Step, StepUnchanged, WorkerUnchanged, index, WorkTyped
<1>3. PICK s \in Segs : s = work.seg BY <1>1, <1>2 DEF FilesInUse, Published
<1>4. /\ disk'[s].name = disk[s].name /\ disk'[s].dname = "open"
      /\ disk'[s].key = disk[s].key /\ disk'[s].hdr = disk[s].hdr
      /\ disk'[s].recs = disk[s].recs /\ disk'[s].kept = disk[s].kept
      /\ \A r \in Segs : r # s => disk'[r] = disk[r]
  BY <1>1, <1>3 DEF PublishOpen, FilesTyped, File, Tails
<1>5. open'[k] = s /\ \A q \in Keys : q # k => open'[q] = open[q]
  BY <1>1, <1>3 DEF PublishOpen, WorkTyped
<1>6. /\ s \in mine /\ Sealing("publish open", disk[s]) /\ work.cmd.op = "append"
      /\ disk[s].key = k /\ open[k] = NoSeg /\ \A q \in Keys : open[q] # s
  BY <1>1, <1>2, <1>3 DEF OpenFiles
<1>7. InUse(disk'[s]) BY <1>4, <1>6 DEF InUse, Sealing
<1>8. SealedStay BY <1>4, <1>6 DEF SealedStay, Sealing, Complete
<1>9. caller.pc # "commit"
  <2>1. IdleWork.pc = "idle" BY DEF IdleWork
  <2> QED BY <1>1, <1>2, <2>1 DEF CommitsAlone
<1>10. CommitsAlone' BY <1>1, <1>2, <1>9 DEF CommitsAlone
<1>11. SealsAreComplete' BY <1>2, <1>8, SealsStay
<1>12. OpenFiles'
  <2>1. \A q \in Keys : open'[q] # NoSeg =>
          open'[q] \in mine' /\ InUse(disk'[open'[q]]) /\ disk'[open'[q]].key = q
    <3> SUFFICES ASSUME NEW q \in Keys, NEW r, r = open'[q], r # NoSeg
                 PROVE  r \in mine /\ InUse(disk'[r]) /\ disk'[r].key = q
      BY <1>2
    <3>1. CASE q = k BY <1>4, <1>5, <1>6, <1>7, <3>1
    <3>2. CASE q # k
      <4>1. r = open[q] BY <1>5, <3>2
      <4>2. r \in Segs /\ r # s /\ r \in mine /\ InUse(disk[r]) /\ disk[r].key = q
        BY <1>1, <1>6, <4>1 DEF OpenFiles, FilesInUse, Published
      <4> QED BY <1>4, <4>2
    <3> QED BY <3>1, <3>2
  <2> QED BY <1>1, <1>2, <1>9, <2>1 DEF OpenFiles
<1>13. FlushesSettle'
  <2>1. \A r \in mine : r # s => disk'[r] = disk[r] BY <1>1, <1>4 DEF RestTyped
  <2>2. ~terminal BY <1>1, <1>2 DEF CommitsAlone
  <2>4. \A r \in mine : (\E q \in Keys : open[q] = r) => (\E q \in Keys : open'[q] = r)
    <3>1. \A r \in mine : r # NoSeg BY <1>1 DEF RestTyped, NoSeg, Segs, Frames
    <3>2. \A r \in mine, q \in Keys : open[q] = r => open'[q] = r BY <1>5, <1>6, <3>1
    <3> QED BY <3>2
  <2>5. \A r \in mine : Settled(disk'[r]) \/ (\E q \in Keys : open'[q] = r)
    BY <1>1, <1>2, <1>3, <1>5, <2>1, <2>2, <2>4 DEF FlushesSettle
  <2> QED BY <1>1, <1>2, <1>6, <1>9, <2>5 DEF FlushesSettle
<1>14. FilesKeep /\ RecordsShrink
  <2>1. Keeps(disk[s], disk'[s]) BY <1>4 DEF Keeps, Lasting
  <2> QED BY <1>1, <1>4, <2>1, FileChangesKeep
<1> QED BY <1>10, <1>11, <1>12, <1>13, <1>14 DEF Writes

-----------------------------------------------------------------------------
(* The caller, recovery and the stops.                                         *)

\* What the steps of a call do to the worker's commands.
LEMMA CancelDoes ==
    ASSUME WorkTyped, Cancel
    PROVE  /\ caller.pc # "idle" /\ caller' = IdleCaller
           /\ Len(queue') = Len(queue)
           /\ \A i \in 1 .. Len(queue) :
                /\ queue'[i].op = queue[i].op /\ queue'[i].frame = queue[i].frame
                /\ queue'[i].keys = queue[i].keys /\ ~queue'[i].wanted
           /\ work'.pc = work.pc /\ work'.seg = work.seg /\ work'.todo = work.todo
           /\ work'.sealed = work.sealed
           /\ work'.cmd.op = work.cmd.op /\ work'.cmd.frame = work.cmd.frame
           /\ work'.cmd.keys = work.cmd.keys /\ ~work'.cmd.wanted
           /\ UNCHANGED <<phase, disk, open, terminal, db, past, pending, repaired, offered,
                          acked, safe, mine>>
<1>1. queue \in Seq(Command) /\ work.cmd \in Command BY DEF WorkTyped
<1>2. \A cmd \in Command : /\ Unwanted(cmd) \in Command /\ ~Unwanted(cmd).wanted
                           /\ Unwanted(cmd).op = cmd.op /\ Unwanted(cmd).frame = cmd.frame
                           /\ Unwanted(cmd).keys = cmd.keys
  BY DEF Unwanted, Command
<1>3. /\ queue' = [i \in DOMAIN queue |-> Unwanted(queue[i])]
      /\ work' = [work EXCEPT !.cmd = Unwanted(work.cmd)]
      /\ caller.pc # "idle" /\ caller' = IdleCaller
      /\ UNCHANGED <<phase, disk, open, terminal, db, past, pending, repaired, offered, acked,
                     safe, mine>>
  BY DEF Cancel, index, recovery, ghosts
<1>4. DOMAIN queue = 1 .. Len(queue) /\ Len(queue) \in Nat BY <1>1
<1>5. \A i \in 1 .. Len(queue) : queue[i] \in Command BY <1>1
<1>6. queue' = [i \in 1 .. Len(queue) |-> Unwanted(queue[i])] BY <1>3, <1>4
<1>7. Len(queue') = Len(queue)
  <2>1. queue' \in [1 .. Len(queue) -> Command] BY <1>2, <1>5, <1>6
  <2>2. queue' \in Seq(Command) BY <1>4, <2>1, SeqDef
  <2> QED BY <1>4, <2>1, <2>2, LenProperties
<1>8. /\ work'.pc = work.pc /\ work'.seg = work.seg /\ work'.todo = work.todo
      /\ work'.sealed = work.sealed /\ work'.cmd = Unwanted(work.cmd)
  BY <1>3 DEF WorkTyped
<1> QED BY <1>1, <1>2, <1>3, <1>5, <1>6, <1>7, <1>8

\* A call sends its command and waits.
LEMMA CallDoes ==
    ASSUME WorkTyped, NEW op \in {"append", "flush"}, NEW f \in Frames \union {NoFrame},
           NEW keys \in SUBSET Keys, Call(op, f, keys)
    PROVE  /\ phase = "up" /\ caller.pc = "idle" /\ caller'.pc = "waiting" /\ caller'.op = op
           /\ caller'.frame = f /\ caller'.keys = keys /\ caller'.sealed = {}
           /\ Len(queue') = Len(queue) + 1 /\ Len(queue) \in Nat
           /\ \A i \in 1 .. Len(queue) : queue'[i] = queue[i]
           /\ queue'[Len(queue) + 1] = [op |-> op, frame |-> f, keys |-> keys, wanted |-> TRUE]
           /\ UNCHANGED <<phase, disk, open, terminal, work, db, past, pending, repaired, acked,
                          safe, mine>>
<1> DEFINE cmd == [op |-> op, frame |-> f, keys |-> keys, wanted |-> TRUE]
<1>1. cmd \in Command BY DEF Command
<1>2. queue \in Seq(Command) BY DEF WorkTyped
<1>3. /\ queue' = Append(queue, cmd) /\ phase = "up" /\ caller.pc = "idle"
      /\ UNCHANGED <<phase, disk, open, terminal, work, db, past, pending, repaired, acked, safe,
                     mine>>
  BY DEF Call, index, recovery, ghosts
<1>4. /\ caller'.pc = "waiting" /\ caller'.op = op
      /\ caller'.frame = f /\ caller'.keys = keys /\ caller'.sealed = {}
  BY DEF Call, IdleCaller
<1> HIDE DEF cmd
<1>5. /\ Len(queue') = Len(queue) + 1 /\ Len(queue) \in Nat
      /\ \A i \in 1 .. Len(queue) : queue'[i] = queue[i]
      /\ queue'[Len(queue) + 1] = cmd
  BY <1>1, <1>2, <1>3
<1> QED BY <1>3, <1>4, <1>5 DEF cmd

\* Nobody waits when a call begins.
LEMMA CallWrites ==
    ASSUME IInv, Writes, NEW op \in {"append", "flush"}, NEW f \in Frames \union {NoFrame},
           NEW keys \in SUBSET Keys, Call(op, f, keys),
           op = "append" => \E k \in Keys : keys = {k}
    PROVE  Writes' /\ FilesKeep /\ RecordsShrink
<1>1. WorkTyped /\ CommitsAlone /\ OpenFiles /\ FlushesSettle /\ CallOrder BY WritesParts
<1>2. /\ phase = "up" /\ caller.pc = "idle" /\ caller'.pc = "waiting" /\ caller'.op = op
      /\ caller'.keys = keys /\ caller'.sealed = {}
      /\ Len(queue') = Len(queue) + 1 /\ Len(queue) \in Nat
      /\ \A i \in 1 .. Len(queue) : queue'[i] = queue[i]
      /\ queue'[Len(queue) + 1] = [op |-> op, frame |-> f, keys |-> keys, wanted |-> TRUE]
      /\ UNCHANGED <<phase, disk, open, terminal, work, db, mine>>
  BY <1>1, CallDoes
<1>3. FilesKeep /\ RecordsShrink /\ SealedStay BY <1>2, NothingChanges
<1>4. CommitsAlone'
  <2>1. \A i \in 1 .. Len(queue) : ~queue[i].wanted BY <1>1, <1>2 DEF CallOrder, Awaited
  <2>2. ~work.cmd.wanted BY <1>1, <1>2 DEF CallOrder, Awaited
  <2>3. \A i \in 1 .. Len(queue') : i \in 1 .. Len(queue) \/ i = Len(queue) + 1 BY <1>2
  <2>4. \A i \in 1 .. Len(queue') : queue'[i].wanted => caller'.keys = queue'[i].keys
    BY <1>2, <2>1, <2>3
  <2>5. \A i \in 1 .. Len(queue') :
          queue'[i].op = "append" => \E k \in Keys : queue'[i].keys = {k}
    BY <1>1, <1>2, <2>3 DEF CommitsAlone
  <2> QED BY <1>1, <1>2, <2>2, <2>4, <2>5 DEF CommitsAlone
<1>5. SealsAreComplete'
  <2>1. \A r \in work'.sealed : r \in mine' /\ Complete(disk'[r])
    BY <1>2, WritesParts DEF SealsAreComplete
  <2> QED BY <1>2, <2>1, WritesParts DEF SealsAreComplete
<1>6. OpenFiles' BY <1>1, <1>2 DEF OpenFiles
<1>7. FlushesSettle' BY <1>1, <1>2 DEF FlushesSettle
<1> QED BY <1>3, <1>4, <1>5, <1>6, <1>7 DEF Writes

\* A caller that goes away is no longer answered.
LEMMA CancelWrites ==
    ASSUME IInv, Writes, Cancel PROVE Writes' /\ FilesKeep /\ RecordsShrink
<1>1. WorkTyped /\ CommitsAlone /\ OpenFiles /\ FlushesSettle /\ SealsAreComplete
  BY WritesParts
<1>2. /\ caller.pc # "idle" /\ caller' = IdleCaller /\ caller'.pc = "idle"
      /\ Len(queue') = Len(queue)
      /\ \A i \in 1 .. Len(queue) :
           /\ queue'[i].op = queue[i].op /\ queue'[i].keys = queue[i].keys /\ ~queue'[i].wanted
      /\ work'.pc = work.pc /\ work'.seg = work.seg /\ work'.todo = work.todo
      /\ work'.sealed = work.sealed
      /\ work'.cmd.op = work.cmd.op /\ work'.cmd.keys = work.cmd.keys /\ ~work'.cmd.wanted
      /\ UNCHANGED <<phase, disk, open, terminal, db, mine>>
  BY <1>1, CancelDoes DEF IdleCaller
<1>3. FilesKeep /\ RecordsShrink /\ SealedStay BY <1>2, NothingChanges
<1>4. CommitsAlone' BY <1>1, <1>2 DEF CommitsAlone
<1>5. SealsAreComplete' BY <1>1, <1>2 DEF SealsAreComplete
<1>6. OpenFiles' BY <1>1, <1>2 DEF OpenFiles
<1>7. FlushesSettle' BY <1>1, <1>2 DEF FlushesSettle
<1> QED BY <1>3, <1>4, <1>5, <1>6, <1>7 DEF Writes

\* The caller's transaction.
LEMMA CommitWrites ==
    ASSUME IInv, Writes, caller.pc = "commit", caller' = IdleCaller, CommitUnchanged,
           \/ db' = db
           \/ db' = WithSealed(db, caller.sealed)
           \/ caller.op = "append" /\ db' = WithFrame(db, caller.sealed, caller.frame, caller.at)
    PROVE  Writes' /\ FilesKeep /\ RecordsShrink
<1>1. /\ WorkTyped /\ CallTyped /\ IndexTyped /\ RestTyped /\ CommitsAlone /\ OpenFiles
      /\ FlushesSettle /\ SealsAreComplete
  BY WritesParts
<1>2. /\ caller'.pc = "idle"
      /\ UNCHANGED <<phase, disk, open, terminal, work, queue, mine>>
  BY DEF IdleCaller, CommitUnchanged
<1>3. FilesKeep /\ RecordsShrink BY <1>2, NothingChanges
<1>4. work.cmd.wanted = FALSE /\ queue = <<>>
  BY <1>1 DEF CommitsAlone, IdleWork, NoCommand
<1>5. CommitsAlone' BY <1>1, <1>2, <1>4, EmptySeq DEF CommitsAlone
<1>6. OpenFiles' BY <1>1, <1>2 DEF OpenFiles
<1>7. FlushesSettle' BY <1>1, <1>2 DEF FlushesSettle
<1>8. \A s \in Segs : db'.row[s] = "sealed" =>
        \/ s \in caller.sealed /\ db'.cnt[s] = Len(disk[s].recs)
        \/ db.row[s] = "sealed" /\ db'.cnt[s] = db.cnt[s]
  <2>1. CASE db' = db BY <2>1
  <2>2. CASE db' = WithSealed(db, caller.sealed) BY <2>2 DEF WithSealed
  <2>3. CASE caller.op = "append" /\ db' = WithFrame(db, caller.sealed, caller.frame, caller.at)
    <3>1. PICK b : b = WithSealed(db, caller.sealed) OBVIOUS
    <3>2. /\ \A s \in Segs : b.row[s] = "sealed" =>
               \/ s \in caller.sealed /\ b.cnt[s] = Len(disk[s].recs)
               \/ db.row[s] = "sealed" /\ b.cnt[s] = db.cnt[s]
          /\ DOMAIN b.row = Segs /\ DOMAIN b.cnt = Segs
          /\ b.row = [s \in Segs |-> b.row[s]] /\ b.cnt = [s \in Segs |-> b.cnt[s]]
      BY <3>1 DEF WithSealed
    <3>3. db'.row = [b.row EXCEPT ![caller.at.seg] = "open"]
          /\ db'.cnt = [b.cnt EXCEPT ![caller.at.seg] = caller.at.pos]
      BY <2>3, <3>1 DEF WithFrame
    <3> QED BY <3>2, <3>3
  <2> QED BY <2>1, <2>2, <2>3
<1>9. SealsAreComplete'
  <2>1. \A s \in caller.sealed : s \in mine /\ Complete(disk[s]) /\ disk[s].name = "sealed"
    BY <1>1 DEF SealsAreComplete, Complete
  <2>2. \A s \in mine : s \in Segs BY <1>1 DEF RestTyped
  <2>3. \A s \in mine' : db'.row[s] = "sealed" =>
          Complete(disk'[s]) /\ db'.cnt[s] = Len(disk'[s].recs)
    BY <1>1, <1>2, <1>8, <2>1, <2>2 DEF SealsAreComplete
  <2>4. phase' = "up" => \A s \in Segs : db'.row[s] = "sealed" => disk'[s].name = "sealed"
    BY <1>1, <1>2, <1>8, <2>1 DEF SealsAreComplete
  <2>5. \A s \in work'.sealed : s \in mine' /\ Complete(disk'[s])
    BY <1>1, <1>2 DEF SealsAreComplete
  <2> QED BY <1>2, <2>3, <2>4, <2>5 DEF SealsAreComplete
<1> QED BY <1>3, <1>5, <1>6, <1>7, <1>9 DEF Writes

\* While the store is not open, no writer holds a file.
LEMMA ClosedWrites ==
    ASSUME IInv', phase' # "up", mine' = {} PROVE Writes'
<1>1. /\ work' = IdleWork /\ queue' = <<>> /\ caller' = IdleCaller
      /\ \A k \in Keys : open'[k] = NoSeg
  BY DEF IInv, StoppedIsIdle
<1>2. /\ work'.pc = "idle" /\ work'.cmd.wanted = FALSE /\ work'.cmd.op = "none"
      /\ work'.sealed = {} /\ caller'.pc = "idle"
  BY <1>1 DEF IdleWork, NoCommand, IdleCaller
<1>3. CommitsAlone' BY <1>1, <1>2, EmptySeq DEF CommitsAlone
<1>4. OpenFiles' BY <1>1, <1>2 DEF OpenFiles
<1>5. SealsAreComplete' BY <1>2 DEF SealsAreComplete
<1>6. FlushesSettle' BY <1>2 DEF FlushesSettle
<1> QED BY <1>3, <1>4, <1>5, <1>6 DEF Writes

\* The store opens: recovery left every row the index calls sealed to a sealed file.
LEMMA FinishRecoveryWrites ==
    ASSUME IInv, Writes, FinishRecovery, RecoveredIsExact
    PROVE  Writes' /\ FilesKeep /\ RecordsShrink
<1>1. StoppedIsIdle /\ OpenFiles BY WritesParts
<1>2. /\ phase = "indexing" /\ pending = {} /\ phase' = "up"
      /\ UNCHANGED <<disk, open, work, queue, caller, db, mine>>
  BY DEF FinishRecovery, RecoveryUnchanged, index
<1>3. /\ work' = IdleWork /\ queue' = <<>> /\ caller' = IdleCaller
      /\ \A k \in Keys : open'[k] = NoSeg
  BY <1>1, <1>2 DEF StoppedIsIdle
<1>4. /\ work'.pc = "idle" /\ work'.cmd.wanted = FALSE /\ work'.cmd.op = "none"
      /\ work'.sealed = {} /\ caller'.pc = "idle" /\ mine' = {}
  BY <1>1, <1>2, <1>3 DEF IdleWork, NoCommand, IdleCaller, OpenFiles
<1>5. \A s \in Segs : db.row[s] = "sealed" => disk[s].name = "sealed"
  BY <1>2 DEF RecoveredIsExact, Exact
<1>6. CommitsAlone' BY <1>3, <1>4, EmptySeq DEF CommitsAlone
<1>7. OpenFiles' BY <1>3, <1>4 DEF OpenFiles
<1>8. SealsAreComplete' BY <1>2, <1>4, <1>5 DEF SealsAreComplete
<1>9. FlushesSettle' BY <1>4 DEF FlushesSettle
<1> QED BY <1>2, <1>6, <1>7, <1>8, <1>9, NothingChanges DEF Writes

\* Power loss keeps what was made durable.
LEMMA SurvivorKeeps ==
    ASSUME NEW file \in File, NEW g \in Survivors(file)
    PROVE  /\ Prefix(file, g)
           /\ \A n \in 1 .. Len(file.recs) :
                Lasting(file, n) => /\ Lasting(g, n) /\ n \in 1 .. Len(g.recs)
                                    /\ g.recs[n] = file.recs[n]
<1>1. ASSUME NEW name \in {"none", "open", "sealed", "corrupt"}, g \in Named(file, name),
             name # "none"
      PROVE  \E m \in file.kept .. Len(file.recs) :
                /\ g.name = name /\ g.dname = name /\ g.kept = m
                /\ g.hdr \in {file.hdr, file.hdr /\ file.dname # "none"}
                /\ g.recs = SubSeq(file.recs, 1, m)
  <2>1. PICK h \in {file.hdr, file.hdr /\ file.dname # "none"},
             m \in file.kept .. Len(file.recs), t \in Tails : g = Cut(file, name, h, m, t)
    BY <1>1 DEF Named
  <2> QED BY <2>1 DEF Cut, File
<1>2. file.kept \in Nat /\ Len(file.recs) \in Nat /\ file.recs \in Seq(Frames)
      /\ file.name \in {"none", "open", "sealed", "corrupt"}
      /\ file.dname \in {"none", "open", "sealed", "corrupt"}
  BY DEF File
<1>3. PICK name \in {file.name, file.dname} : g \in Named(file, name) BY DEF Survivors
<1>4. CASE name = "none"
  <2>1. g = NoFile BY <1>3, <1>4 DEF Named
  <2>2. Prefix(file, g) BY <2>1, SameRecords DEF NoFile
  <2>3. \A n \in 1 .. Len(file.recs) : ~Lasting(file, n) BY <1>3, <1>4 DEF Lasting
  <2> QED BY <2>2, <2>3
<1>5. CASE name # "none"
  <2>1. PICK m \in file.kept .. Len(file.recs) :
          /\ g.name = name /\ g.dname = name /\ g.kept = m
          /\ g.hdr \in {file.hdr, file.hdr /\ file.dname # "none"}
          /\ g.recs = SubSeq(file.recs, 1, m)
    BY <1>1, <1>2, <1>3, <1>5
  <2>2. m \in Nat /\ m <= Len(file.recs) /\ file.kept <= m BY <1>2
  <2>3. Len(g.recs) = m /\ \A n \in 1 .. m : g.recs[n] = file.recs[n]
    BY <1>2, <2>1, <2>2, SubSeqProperties
  <2>4. Prefix(file, g) BY <2>2, <2>3 DEF Prefix
  <2>5. ASSUME NEW n \in 1 .. Len(file.recs), Lasting(file, n)
        PROVE  Lasting(g, n) /\ n \in 1 .. Len(g.recs) /\ g.recs[n] = file.recs[n]
    <3>1. n <= m BY <1>2, <2>2, <2>5 DEF Lasting
    <3>2. g.hdr BY <2>1, <2>5 DEF Lasting
    <3> QED BY <1>2, <1>3, <2>1, <2>2, <2>3, <2>5, <3>1, <3>2 DEF Lasting
  <2> QED BY <2>4, <2>5
<1> QED BY <1>4, <1>5

\* Damage cuts records from the end, or the header.
LEMMA DamagedKeeps ==
    ASSUME NEW file \in File, NEW g \in Damaged(file)
    PROVE  /\ Prefix(file, g)
           /\ g.hdr => /\ g.name = file.name /\ g.dname = file.dname /\ g.kept = Len(g.recs)
                       /\ Len(g.recs) \in Nat
<1>1. Len(file.recs) \in Nat /\ file.recs \in Seq(Frames) BY DEF File
<1>2. CASE g = NoFile BY <1>2, SameRecords DEF NoFile
<1>3. CASE g = [file EXCEPT !.hdr = FALSE]
  <2>1. g.hdr = FALSE /\ g.recs = file.recs BY <1>3 DEF File
  <2> QED BY <2>1, SameRecords
<1>4. ASSUME NEW n \in 0 .. Len(file.recs) - 1,
             g = [file EXCEPT !.recs = SubSeq(file.recs, 1, n), !.kept = n,
                              !.tail = "torn", !.tailKept = TRUE]
      PROVE  /\ Prefix(file, g)
             /\ g.name = file.name /\ g.dname = file.dname /\ g.kept = Len(g.recs)
             /\ Len(g.recs) \in Nat
  <2>1. /\ g.name = file.name /\ g.dname = file.dname /\ g.kept = n
        /\ g.recs = SubSeq(file.recs, 1, n)
    BY <1>4 DEF File
  <2>2. Len(g.recs) = n /\ \A i \in 1 .. n : g.recs[i] = file.recs[i]
    BY <1>1, <2>1, SubSeqProperties
  <2> QED BY <1>1, <2>1, <2>2 DEF Prefix
<1> QED BY <1>2, <1>3, <1>4 DEF Damaged

\* A write cut short leaves the records before it.
LEMMA TornKeeps ==
    ASSUME FilesTyped, NEW s \in Segs, disk' = [disk EXCEPT ![s].tail = "torn"]
    PROVE  FilesKeep /\ RecordsShrink
<1>1. /\ disk'[s].name = disk[s].name /\ disk'[s].dname = disk[s].dname
      /\ disk'[s].hdr = disk[s].hdr /\ disk'[s].recs = disk[s].recs
      /\ disk'[s].kept = disk[s].kept
      /\ \A r \in Segs : r # s => disk'[r] = disk[r]
  BY DEF FilesTyped, File
<1>2. disk[s].recs \in Seq(Frames) BY DEF FilesTyped, File
<1>3. Keeps(disk[s], disk'[s]) BY <1>1, <1>2 DEF Keeps, Lasting
<1> QED BY <1>1, <1>3, FileChangesKeep

\* The end of the process takes nothing that was written.
LEMMA ProcessCrashFiles ==
    ASSUME IInv, ProcessCrash PROVE FilesKeep /\ RecordsShrink
<1>1. FilesTyped /\ FilesInUse BY DEF IInv, TypeOK
<1>2. CASE UNCHANGED disk BY <1>2, NothingChanges
<1>3. CASE \E s \in Writing : disk' = [disk EXCEPT ![s].tail = "torn"]
  <2>1. PICK s \in Writing : disk' = [disk EXCEPT ![s].tail = "torn"] BY <1>3
  <2>2. s \in Segs
    <3>1. CASE work.pc = "footer" BY <1>1, <2>1, <3>1 DEF Writing, FilesInUse, Published
    <3>2. CASE work.pc # "footer"
      <4>1. PICK k \in Keys : s = open[k] /\ open[k] # NoSeg BY <2>1, <3>2 DEF Writing
      <4> QED BY <1>1, <4>1 DEF FilesInUse, Published
    <3> QED BY <3>1, <3>2
  <2> QED BY <1>1, <2>1, <2>2, TornKeeps
<1> QED BY <1>2, <1>3 DEF ProcessCrash

\* Recovery sets aside only files that cannot be read.
LEMMA RecoveryFiles ==
    ASSUME IInv, NEW s \in Segs, Quarantine(s) \/ RepairFile(s) \/ PublishRepaired(s)
    PROVE  FilesKeep /\ RecordsShrink
<1>1. FilesTyped BY DEF IInv, TypeOK
<1>2. disk[s] \in File /\ disk[s].recs \in Seq(Frames) /\ Len(disk[s].recs) \in Nat
  BY <1>1 DEF FilesTyped, File
<1>3. CASE Quarantine(s)
  <2>1. /\ ~disk[s].hdr /\ disk'[s].recs = disk[s].recs
        /\ \A r \in Segs : r # s => disk'[r] = disk[r]
    BY <1>1, <1>3 DEF Quarantine, Renamed, FilesTyped, File
  <2>2. Keeps(disk[s], disk'[s]) BY <2>1 DEF Keeps, Lasting
  <2> QED BY <1>1, <2>1, <2>2, FileChangesKeep
<1>4. CASE RepairFile(s)
  <2>1. /\ disk'[s].name = disk[s].name /\ disk'[s].dname = disk[s].dname
        /\ disk'[s].hdr = disk[s].hdr /\ disk'[s].recs = disk[s].recs
        /\ disk'[s].kept = Len(disk[s].recs)
        /\ \A r \in Segs : r # s => disk'[r] = disk[r]
    BY <1>1, <1>4 DEF RepairFile, Synced, FilesTyped, File
  <2>2. Keeps(disk[s], disk'[s]) BY <1>2, <2>1 DEF Keeps, Lasting
  <2> QED BY <1>1, <2>1, <2>2, FileChangesKeep
<1>5. CASE PublishRepaired(s)
  <2>1. /\ disk'[s].name = "sealed" /\ disk'[s].dname = "sealed"
        /\ disk'[s].hdr = disk[s].hdr /\ disk'[s].recs = disk[s].recs
        /\ disk'[s].kept = disk[s].kept
        /\ \A r \in Segs : r # s => disk'[r] = disk[r]
    BY <1>1, <1>5 DEF PublishRepaired, Renamed, FilesTyped, File
  <2>2. Keeps(disk[s], disk'[s]) BY <1>2, <2>1 DEF Keeps, Lasting
  <2> QED BY <1>1, <2>1, <2>2, FileChangesKeep
<1> QED BY <1>3, <1>4, <1>5

\* The frames the store has promised to keep.
LEMMA FilesKeepPromises ==
    ASSUME PromisesAreKept, FilesKeep, acked' \subseteq acked, safe' \subseteq safe
    PROVE  PromisesAreKept'
<1>1. ASSUME NEW f \in acked'
      PROVE  \E s \in Segs : \E n \in 1 .. Len(disk'[s].recs) :
                disk'[s].recs[n] = f /\ Published(s)' /\ disk'[s].hdr
  <2>1. PICK s \in Segs, n \in Nat :
          n \in 1 .. Len(disk[s].recs) /\ disk[s].recs[n] = f /\ Published(s) /\ disk[s].hdr
    BY <1>1 DEF PromisesAreKept
  <2> QED BY <2>1 DEF FilesKeep, Keeps, Published
<1>2. ASSUME NEW f \in safe'
      PROVE  \E s \in Segs : \E n \in 1 .. Len(disk'[s].recs) :
                disk'[s].recs[n] = f /\ Lasting(disk'[s], n)
  <2>1. PICK s \in Segs, n \in Nat :
          n \in 1 .. Len(disk[s].recs) /\ disk[s].recs[n] = f /\ Lasting(disk[s], n)
    BY <1>2 DEF PromisesAreKept
  <2>2. disk[s].name \in {"open", "sealed"} /\ disk[s].hdr BY <2>1 DEF Lasting
  <2> QED BY <2>1, <2>2 DEF FilesKeep, Keeps
<1> QED BY <1>1, <1>2 DEF PromisesAreKept

\* An acknowledged frame has the record the writer answered.
LEMMA CommitFramePromises ==
    ASSUME IInv, Writes, PromisesAreKept, CommitFrame PROVE PromisesAreKept'
<1>1. AnswersAreTrue /\ OpenFiles BY DEF IInv, Writes
<1>2. /\ caller.pc = "commit" /\ caller.op = "append" /\ acked' = acked \union {caller.frame}
      /\ UNCHANGED <<disk, safe>>
  BY DEF CommitFrame, CommitUnchanged
<1>3. PICK s, n, f : s = caller.at.seg /\ n = caller.at.pos /\ f = caller.frame OBVIOUS
<1>4. Names(s, n, f) /\ disk[s].hdr BY <1>1, <1>2, <1>3 DEF AnswersAreTrue, OpenFiles, InUse
<1>5. \E r \in Segs : \E m \in 1 .. Len(disk[r].recs) :
        disk[r].recs[m] = f /\ Published(r) /\ disk[r].hdr
  BY <1>4 DEF Names, Published
<1> QED BY <1>2, <1>3, <1>5 DEF PromisesAreKept, Published

\* The frames a flush covers are in settled files.
LEMMA CommitFlushPromises ==
    ASSUME IInv, Writes, PromisesAreKept, CommitFlush PROVE PromisesAreKept'
<1>1. FlushesSettle /\ FilesTyped /\ RestTyped BY WritesParts
<1>2. /\ caller.pc = "commit" /\ caller.op = "flush" /\ safe' = safe \union Covered(caller.keys)
      /\ UNCHANGED <<disk, acked>>
  BY DEF CommitFlush, CommitUnchanged
<1>3. ASSUME NEW f \in Covered(caller.keys)
      PROVE  \E s \in Segs : \E n \in 1 .. Len(disk[s].recs) :
                disk[s].recs[n] = f /\ Lasting(disk[s], n)
  <2>1. PICK s \in mine : disk[s].key \in caller.keys /\ Holds(disk[s], f) BY <1>3 DEF Covered
  <2>2. s \in Segs /\ Settled(disk[s]) BY <1>1, <1>2, <2>1 DEF FlushesSettle, RestTyped
  <2>3. PICK n \in 1 .. Len(disk[s].recs) : disk[s].recs[n] = f BY <2>1 DEF Holds
  <2>4. Len(disk[s].recs) \in Nat BY <1>1, <2>2 DEF FilesTyped, File
  <2> QED BY <2>2, <2>3, <2>4 DEF Settled, Lasting
<1> QED BY <1>2, <1>3 DEF PromisesAreKept, Published

\* Power loss voids what no flush covered.
LEMMA PowerLossPromises ==
    ASSUME IInv, PromisesAreKept, PowerLoss PROVE PromisesAreKept' /\ RecordsShrink
<1>1. FilesTyped BY DEF IInv, TypeOK
<1>2. /\ \A s \in Segs : disk'[s] \in Survivors(disk[s])
      /\ acked' = safe /\ safe' = safe
  BY DEF PowerLoss
<1>3. RecordsShrink BY <1>1, <1>2, SurvivorKeeps DEF RecordsShrink, FilesTyped
<1>4. ASSUME NEW f \in safe
      PROVE  \E s \in Segs : \E n \in 1 .. Len(disk'[s].recs) :
                disk'[s].recs[n] = f /\ Lasting(disk'[s], n)
  <2>1. PICK s \in Segs, n \in Nat :
          n \in 1 .. Len(disk[s].recs) /\ disk[s].recs[n] = f /\ Lasting(disk[s], n)
    BY DEF PromisesAreKept
  <2>2. disk[s] \in File BY <1>1 DEF FilesTyped
  <2> QED BY <1>2, <2>1, <2>2, SurvivorKeeps
<1> QED BY <1>2, <1>3, <1>4 DEF PromisesAreKept, Lasting, Published

\* Damage voids what it destroys.
LEMMA DamagePromises ==
    ASSUME IInv, PromisesAreKept, NEW s \in Segs, Damage(s) PROVE PromisesAreKept' /\ RecordsShrink
<1>1. FilesTyped BY DEF IInv, TypeOK
<1>2. PICK g \in Damaged(disk[s]) :
        LET gone == {f \in Frames : Holds(disk[s], f) /\ ~(g.hdr /\ Holds(g, f))} IN
        /\ disk' = [disk EXCEPT ![s] = g]
        /\ acked' = acked \ gone
        /\ safe' = safe \ gone
  BY DEF Damage
<1>3. disk[s] \in File /\ disk'[s] = g /\ \A r \in Segs : r # s => disk'[r] = disk[r]
  BY <1>1, <1>2 DEF FilesTyped
<1>4. /\ Prefix(disk[s], g)
      /\ g.hdr => /\ g.name = disk[s].name /\ g.dname = disk[s].dname
                  /\ g.kept = Len(g.recs) /\ Len(g.recs) \in Nat
  BY <1>3, DamagedKeeps
<1>5. RecordsShrink
  <2>1. \A r \in Segs : disk[r] \in File BY <1>1 DEF FilesTyped
  <2> QED BY <1>3, <1>4, <2>1, SameRecords DEF RecordsShrink
<1>6. ASSUME NEW f \in Frames, f \in acked' \/ f \in safe', Holds(disk[s], f)
      PROVE  g.hdr /\ \E m \in 1 .. Len(g.recs) : g.recs[m] = f
  BY <1>2, <1>6 DEF Holds
<1>7. ASSUME NEW f \in acked'
      PROVE  \E r \in Segs : \E n \in 1 .. Len(disk'[r].recs) :
                disk'[r].recs[n] = f /\ Published(r)' /\ disk'[r].hdr
  <2>1. f \in acked /\ f \in Frames BY <1>2, <1>7 DEF IInv, TypeOK, RestTyped
  <2>2. PICK r \in Segs, n \in Nat :
          n \in 1 .. Len(disk[r].recs) /\ disk[r].recs[n] = f /\ Published(r) /\ disk[r].hdr
    BY <2>1 DEF PromisesAreKept
  <2>3. CASE r = s
    <3>1. g.hdr /\ \E m \in 1 .. Len(g.recs) : g.recs[m] = f
      BY <1>6, <1>7, <2>1, <2>2, <2>3 DEF Holds
    <3> QED BY <1>3, <1>4, <2>2, <2>3, <3>1 DEF Published
  <2>4. CASE r # s BY <1>3, <2>2, <2>4 DEF Published
  <2> QED BY <2>3, <2>4
<1>8. ASSUME NEW f \in safe'
      PROVE  \E r \in Segs : \E n \in 1 .. Len(disk'[r].recs) :
                disk'[r].recs[n] = f /\ Lasting(disk'[r], n)
  <2>1. f \in safe /\ f \in Frames BY <1>2, <1>8 DEF IInv, TypeOK, RestTyped
  <2>2. PICK r \in Segs, n \in Nat :
          n \in 1 .. Len(disk[r].recs) /\ disk[r].recs[n] = f /\ Lasting(disk[r], n)
    BY <2>1 DEF PromisesAreKept
  <2>3. CASE r = s
    <3>1. PICK m \in 1 .. Len(g.recs) : g.hdr /\ g.recs[m] = f
      BY <1>6, <1>8, <2>1, <2>2, <2>3 DEF Holds
    <3>2. Lasting(g, m) BY <1>4, <2>2, <2>3, <3>1 DEF Lasting
    <3> QED BY <1>3, <2>3, <3>1, <3>2
  <2>4. CASE r # s BY <1>3, <2>2, <2>4
  <2> QED BY <2>3, <2>4
<1> QED BY <1>5, <1>7, <1>8 DEF PromisesAreKept

-----------------------------------------------------------------------------
(* Where records and rows come from.                                           *)

\* The index states a step leaves hold addresses they held before, or of records.
IndexFollows ==
    \A d \in past' \union {db'} : \A f \in Frames :
        \/ d.at[f] = NoAddress
        \/ \E e \in past \union {db} : d.at[f] = e.at[f]
        \/ \E s \in Segs : \E n \in 1 .. Len(disk[s].recs) :
              disk[s].recs[n] = f /\ d.at[f] = Address(s, n)

LEMMA SameIndex == ASSUME UNCHANGED index PROVE IndexFollows
BY DEF IndexFollows, index

\* What is nowhere stays nowhere.
LEMMA FreshStays ==
    ASSUME FilesTyped, RecordsShrink, IndexFollows, NEW f \in Frames
    PROVE  /\ Unrecorded(f) => Unrecorded(f)'
           /\ Fresh(f) => Fresh(f)'
<1>1. ASSUME Unrecorded(f), NEW s \in Segs, NEW n \in 1 .. Len(disk'[s].recs)
      PROVE  disk'[s].recs[n] # f
  <2>1. Len(disk[s].recs) \in Nat BY DEF FilesTyped, File
  <2>2. Prefix(disk[s], disk'[s]) BY DEF RecordsShrink
  <2>3. n \in 1 .. Len(disk[s].recs) /\ disk'[s].recs[n] = disk[s].recs[n]
    BY <2>1, <2>2 DEF Prefix
  <2> QED BY <1>1, <2>3 DEF Unrecorded
<1>2. ASSUME Fresh(f), NEW d \in past' \union {db'} PROVE d.at[f] = NoAddress
  BY <1>2 DEF Fresh, Unrecorded, Unindexed, IndexFollows
<1> QED BY <1>1, <1>2 DEF Fresh, Unrecorded, Unindexed

\* No record and no row is added in a second place.
LEMMA RecordsStayUnique ==
    ASSUME FilesTyped, RecordsShrink, IndexFollows, OneCopy, RowsAgree
    PROVE  OneCopy' /\ RowsAgree'
<1>1. ASSUME NEW s \in Segs, NEW n \in 1 .. Len(disk'[s].recs)
      PROVE  n \in 1 .. Len(disk[s].recs) /\ disk'[s].recs[n] = disk[s].recs[n]
  <2>1. Len(disk[s].recs) \in Nat BY DEF FilesTyped, File
  <2>2. Prefix(disk[s], disk'[s]) BY DEF RecordsShrink
  <2> QED BY <2>1, <2>2 DEF Prefix
<1>2. OneCopy' BY <1>1 DEF OneCopy
<1>3. ASSUME NEW d \in past' \union {db'}, NEW s \in Segs, NEW n \in 1 .. Len(disk'[s].recs)
      PROVE  d.at[disk'[s].recs[n]] \in {NoAddress, Address(s, n)}
  <2>1. PICK f \in Frames : f = disk[s].recs[n]
    BY <1>1 DEF FilesTyped, File
  <2>2. n \in 1 .. Len(disk[s].recs) /\ disk'[s].recs[n] = f BY <1>1, <2>1
  <2>3. ASSUME NEW e \in past \union {db}, d.at[f] = e.at[f]
        PROVE  d.at[f] \in {NoAddress, Address(s, n)}
    BY <2>1, <2>2, <2>3 DEF RowsAgree
  <2>4. ASSUME NEW r \in Segs, NEW m \in 1 .. Len(disk[r].recs),
               disk[r].recs[m] = f, d.at[f] = Address(r, m)
        PROVE  d.at[f] = Address(s, n)
    BY <2>1, <2>2, <2>4 DEF OneCopy
  <2> QED BY <2>2, <2>3, <2>4 DEF IndexFollows
<1>4. RowsAgree' BY <1>3 DEF RowsAgree
<1> QED BY <1>2, <1>4

\* The commands that are still to run, and the caller's, after a step that adds none.
CommandsFollow ==
    /\ offered' = offered
    /\ \A i \in 1 .. Len(queue') : queue'[i].op = "append" =>
          \E j \in 1 .. Len(queue) : /\ queue[j].op = "append" /\ queue[j].frame = queue'[i].frame
    /\ \A i, j \in 1 .. Len(queue') :
          i < j /\ queue'[i].op = "append" /\ queue'[j].op = "append" =>
              queue'[i].frame < queue'[j].frame
    /\ work'.cmd.op = "append" =>
          /\ \/ work.cmd.op = "append" /\ work'.cmd.frame = work.cmd.frame
             \/ \E j \in 1 .. Len(queue) :
                   queue[j].op = "append" /\ queue[j].frame = work'.cmd.frame
          /\ \A i \in 1 .. Len(queue') :
                queue'[i].op = "append" => work'.cmd.frame < queue'[i].frame
    /\ caller'.op = "append" => caller.op = "append" /\ caller'.frame = caller.frame

\* Steps that add neither a command nor a record.
LEMMA OriginsKept ==
    ASSUME IInv, Origins, RecordsShrink, IndexFollows, CommandsFollow,
           caller'.pc = "commit" /\ caller'.op = "append" =>
              caller.pc = "commit" /\ UNCHANGED <<db, past>>
    PROVE  Origins'
<1>1. FilesTyped /\ WorkTyped /\ AppendsHaveFrames BY DEF IInv, TypeOK
<1>2. FramesAreFresh /\ FramesAreInOrder /\ OneCopy /\ RowsAgree BY DEF Origins
<1>3. \A f \in Frames : Fresh(f) => Fresh(f)' BY <1>1, FreshStays
<1>4. OneCopy' /\ RowsAgree' BY <1>1, <1>2, RecordsStayUnique
<1>5. FramesAreInOrder'
  BY <1>2 DEF FramesAreInOrder, CommandsFollow
<1>6. FramesAreFresh'
  <2>1. ASSUME NEW i \in 1 .. Len(queue'), queue'[i].op = "append", NEW f, f = queue'[i].frame
        PROVE  Fresh(f)'
    <3>1. PICK j \in 1 .. Len(queue) : queue[j].op = "append" /\ queue[j].frame = f
      BY <2>1 DEF CommandsFollow
    <3> QED BY <1>1, <1>2, <1>3, <3>1 DEF FramesAreFresh, AppendsHaveFrames
  <2>2. ASSUME work'.cmd.op = "append", NEW f, f = work'.cmd.frame PROVE Fresh(f)'
    <3>1. CASE work.cmd.op = "append" /\ f = work.cmd.frame
      BY <1>1, <1>2, <1>3, <3>1 DEF FramesAreFresh, AppendsHaveFrames
    <3>2. CASE \E j \in 1 .. Len(queue) : queue[j].op = "append" /\ queue[j].frame = f
      BY <1>1, <1>2, <1>3, <3>2 DEF FramesAreFresh, AppendsHaveFrames
    <3> QED BY <2>2, <3>1, <3>2 DEF CommandsFollow
  <2>3. \A f \in Frames : f > offered' => Fresh(f)'
    BY <1>2, <1>3 DEF FramesAreFresh, CommandsFollow
  <2>4. ASSUME caller'.pc = "commit", caller'.op = "append", NEW f, f = caller'.frame
        PROVE  Unindexed(f)'
    BY <1>2, <2>4 DEF FramesAreFresh, CommandsFollow, Unindexed
  <2> QED BY <2>1, <2>2, <2>3, <2>4 DEF FramesAreFresh, Fresh, Unrecorded, Unindexed
<1> QED BY <1>4, <1>5, <1>6 DEF Origins

\* The worker keeps or drops its command.
LEMMA SameCommands ==
    ASSUME Origins, UNCHANGED <<queue, offered>>, work'.cmd \in {work.cmd, NoCommand},
           \/ caller' \in {caller, IdleCaller}
           \/ caller'.op = caller.op /\ caller'.frame = caller.frame
    PROVE  CommandsFollow
<1>1. FramesAreInOrder BY DEF Origins
<1>2. NoCommand.op = "none" /\ IdleCaller.op = "none" BY DEF NoCommand, IdleCaller
<1> QED BY <1>1, <1>2 DEF CommandsFollow, FramesAreInOrder

\* The worker takes the next one.
LEMMA NextCommand ==
    ASSUME IInv, Origins, queue # <<>>, queue' = Tail(queue), UNCHANGED offered,
           work' = work \/ work'.cmd = Head(queue), work.cmd = NoCommand,
           caller' \in {caller, IdleCaller}
    PROVE  CommandsFollow
<1>1. FramesAreInOrder BY DEF Origins
<1>2. /\ Len(queue) >= 1 /\ Len(queue) \in Nat /\ Len(queue') = Len(queue) - 1
      /\ \A i \in 1 .. Len(queue') : queue'[i] = queue[i + 1] /\ i + 1 \in 1 .. Len(queue)
      /\ Head(queue) = queue[1]
  <2>1. queue \in Seq(Command) BY DEF IInv, TypeOK, WorkTyped
  <2> QED BY <2>1, QueueHead
<1>3. NoCommand.op = "none" /\ IdleCaller.op = "none" BY DEF NoCommand, IdleCaller
<1>4. \A i \in 1 .. Len(queue') : queue'[i].op = "append" =>
        \E j \in 1 .. Len(queue) : queue[j].op = "append" /\ queue[j].frame = queue'[i].frame
  BY <1>2
<1>5. \A i, j \in 1 .. Len(queue') :
          i < j /\ queue'[i].op = "append" /\ queue'[j].op = "append" =>
              queue'[i].frame < queue'[j].frame
  BY <1>1, <1>2 DEF FramesAreInOrder
<1>6. work'.cmd.op = "append" =>
        /\ \E j \in 1 .. Len(queue) : queue[j].op = "append" /\ queue[j].frame = work'.cmd.frame
        /\ \A i \in 1 .. Len(queue') :
              queue'[i].op = "append" => work'.cmd.frame < queue'[i].frame
  <2>1. CASE work' = work BY <1>3, <2>1
  <2>2. CASE work'.cmd = Head(queue)
    <3>1. 1 \in 1 .. Len(queue) /\ work'.cmd = queue[1] BY <1>2, <2>2
    <3>2. \A i \in 1 .. Len(queue') : 1 < i + 1 BY <1>2
    <3> QED BY <1>1, <1>2, <3>1, <3>2 DEF FramesAreInOrder
  <2> QED BY <2>1, <2>2
<1> QED BY <1>3, <1>4, <1>5, <1>6 DEF CommandsFollow

\* A stop takes them all.
LEMMA NoCommands ==
    ASSUME queue' = <<>>, UNCHANGED offered, work' = IdleWork, caller' = IdleCaller
    PROVE  CommandsFollow
BY EmptySeq DEF CommandsFollow, IdleWork, IdleCaller, NoCommand

\* A caller that goes away leaves its command.
LEMMA CancelCommands == ASSUME IInv, Origins, Cancel PROVE CommandsFollow
<1>1. FramesAreInOrder BY DEF Origins
<1>2. WorkTyped BY DEF IInv, TypeOK
<1>3. /\ caller'.op = "none" /\ Len(queue') = Len(queue)
      /\ \A i \in 1 .. Len(queue) :
           queue'[i].op = queue[i].op /\ queue'[i].frame = queue[i].frame
      /\ work'.cmd.op = work.cmd.op /\ work'.cmd.frame = work.cmd.frame
      /\ UNCHANGED offered
  BY <1>2, CancelDoes DEF IdleCaller
<1> QED BY <1>1, <1>3 DEF CommandsFollow, FramesAreInOrder

\* A flush names no frame.
LEMMA FlushKeysCommands ==
    ASSUME IInv, Origins, NEW keys \in SUBSET Keys, FlushKeys(keys) PROVE Origins'
<1>1. FramesAreInOrder BY DEF Origins
<1>2. WorkTyped BY DEF IInv, TypeOK
<1>3. /\ caller'.op = "flush" /\ Len(queue') = Len(queue) + 1 /\ Len(queue) \in Nat
      /\ \A i \in 1 .. Len(queue) : queue'[i] = queue[i]
      /\ queue'[Len(queue) + 1].op = "flush"
      /\ UNCHANGED <<disk, work, db, past, offered>>
  <2>1. Call("flush", NoFrame, keys) /\ UNCHANGED offered BY DEF FlushKeys
  <2>2. NoFrame \in Frames \union {NoFrame} OBVIOUS
  <2>3. /\ caller'.op = "flush" /\ Len(queue') = Len(queue) + 1 /\ Len(queue) \in Nat
        /\ \A i \in 1 .. Len(queue) : queue'[i] = queue[i]
        /\ queue'[Len(queue) + 1] = [op |-> "flush", frame |-> NoFrame, keys |-> keys,
                                     wanted |-> TRUE]
        /\ UNCHANGED <<disk, work, db, past>>
    BY <1>2, <2>1, <2>2, CallDoes
  <2> QED BY <2>1, <2>3
<1>4. \A i \in 1 .. Len(queue') : queue'[i].op = "append" =>
        i \in 1 .. Len(queue) /\ queue'[i] = queue[i]
  BY <1>3
<1>5. CommandsFollow BY <1>1, <1>3, <1>4 DEF CommandsFollow, FramesAreInOrder
<1> QED BY <1>3, <1>5, NothingChanges, SameIndex, OriginsKept DEF index

\* A new frame comes last.
LEMMA AppendFrameOrigins ==
    ASSUME IInv, Origins, NEW k \in Keys, AppendFrame(k) PROVE Origins'
<1>1. FramesAreFresh /\ FramesAreInOrder /\ OneCopy /\ RowsAgree BY DEF Origins
<1>2. WorkTyped /\ CallTyped BY DEF IInv, TypeOK
<1>3. offered \in Nat /\ offered' = offered + 1 /\ offered + 1 \in Frames
  BY <1>2, StoreAssumption DEF AppendFrame, CallTyped, Frames
<1>4. /\ caller'.pc = "waiting" /\ caller'.op = "append" /\ caller'.frame = offered + 1
      /\ Len(queue') = Len(queue) + 1 /\ Len(queue) \in Nat
      /\ \A i \in 1 .. Len(queue) : queue'[i] = queue[i]
      /\ queue'[Len(queue) + 1].frame = offered + 1
      /\ UNCHANGED <<disk, work, db, past>>
  <2>1. Call("append", offered + 1, {k}) BY DEF AppendFrame
  <2>2. offered + 1 \in Frames \union {NoFrame} /\ {k} \in SUBSET Keys BY <1>3
  <2>3. /\ caller'.pc = "waiting" /\ caller'.op = "append" /\ caller'.frame = offered + 1
        /\ Len(queue') = Len(queue) + 1 /\ Len(queue) \in Nat
        /\ \A i \in 1 .. Len(queue) : queue'[i] = queue[i]
        /\ queue'[Len(queue) + 1] = [op |-> "append", frame |-> offered + 1, keys |-> {k},
                                     wanted |-> TRUE]
        /\ UNCHANGED <<disk, work, db, past>>
    BY <1>2, <2>1, <2>2, CallDoes
  <2> QED BY <2>3
<1>5. \A i \in 1 .. Len(queue') :
        \/ i \in 1 .. Len(queue) /\ queue'[i] = queue[i]
        \/ i = Len(queue) + 1 /\ queue'[i].frame = offered + 1
  BY <1>4
<1>6. ASSUME NEW f, Fresh(f) PROVE Fresh(f)' BY <1>4, <1>6 DEF Fresh, Unrecorded, Unindexed
<1>7. Fresh(offered + 1) BY <1>1, <1>3 DEF FramesAreFresh
<1>8. FramesAreFresh'
  <2>1. ASSUME NEW i \in 1 .. Len(queue'), queue'[i].op = "append", NEW f, f = queue'[i].frame
        PROVE  Fresh(f)'
    <3>1. Fresh(f) BY <1>1, <1>5, <1>7, <2>1 DEF FramesAreFresh
    <3> QED BY <1>6, <3>1
  <2>2. ASSUME work'.cmd.op = "append", NEW f, f = work'.cmd.frame PROVE Fresh(f)'
    <3>1. Fresh(f) BY <1>1, <1>4, <2>2 DEF FramesAreFresh
    <3> QED BY <1>6, <3>1
  <2>3. ASSUME NEW f \in Frames, f > offered' PROVE Fresh(f)'
    <3>1. f > offered BY <1>3, <2>3 DEF Frames
    <3>2. Fresh(f) BY <1>1, <3>1 DEF FramesAreFresh
    <3> QED BY <1>6, <3>2
  <2> QED BY <1>4, <2>1, <2>2, <2>3 DEF FramesAreFresh, Fresh, Unrecorded, Unindexed
<1>9. FramesAreInOrder'
  <2>1. \A i \in 1 .. Len(queue) : queue[i].op = "append" => queue[i].frame \in Nat
    BY DEF IInv, AppendsHaveFrames, Frames
  <2>2. \A i \in 1 .. Len(queue') : queue'[i].op = "append" =>
          /\ queue'[i].frame <= offered + 1
          /\ work'.cmd.op = "append" => work'.cmd.frame < queue'[i].frame
    <3>1. work.cmd.op = "append" => work.cmd.frame \in Nat
      BY DEF IInv, AppendsHaveFrames, Frames
    <3> QED BY <1>1, <1>3, <1>4, <1>5, <2>1, <3>1 DEF FramesAreInOrder
  <2>3. \A i, j \in 1 .. Len(queue') :
          i < j /\ queue'[i].op = "append" /\ queue'[j].op = "append" =>
              queue'[i].frame < queue'[j].frame
    <3>1. \A i, j \in 1 .. Len(queue') : i < j => i \in 1 .. Len(queue) /\ queue'[i] = queue[i]
      BY <1>4
    <3> QED BY <1>1, <1>3, <1>5, <2>1, <3>1 DEF FramesAreInOrder
  <2>4. work'.cmd.op = "append" => work'.cmd.frame <= offered'
    <3>1. work.cmd.op = "append" => work.cmd.frame \in Nat
      BY DEF IInv, AppendsHaveFrames, Frames
    <3> QED BY <1>1, <1>3, <1>4, <3>1 DEF FramesAreInOrder
  <2> QED BY <1>3, <1>4, <2>2, <2>3, <2>4 DEF FramesAreInOrder
<1>10. OneCopy' /\ RowsAgree' BY <1>1, <1>4 DEF OneCopy, RowsAgree
<1> QED BY <1>8, <1>9, <1>10 DEF Origins

\* The one record of a frame, written by the worker that had its command.
LEMMA RecordAddedOrigins ==
    ASSUME IInv, Origins, NEW s \in Segs, NEW f \in Frames, f = work.cmd.frame,
           work.cmd.op = "append", disk'[s].recs = Append(disk[s].recs, f),
           \A r \in Segs : r # s => disk'[r] = disk[r],
           UNCHANGED <<queue, offered, db, past>>, work' = IdleWork,
           caller'.op = "append" => caller.op = "append" /\ caller'.frame = caller.frame,
           caller'.pc = "commit" /\ caller'.op = "append" => caller'.frame = f
    PROVE  Origins'
<1>1. FramesAreFresh /\ FramesAreInOrder /\ OneCopy /\ RowsAgree BY DEF Origins
<1>2. FilesTyped /\ AppendsHaveFrames BY DEF IInv, TypeOK
<1>3. Fresh(f) BY <1>1 DEF FramesAreFresh
<1>4. /\ Len(disk[s].recs) \in Nat /\ Len(disk'[s].recs) = Len(disk[s].recs) + 1
      /\ \A n \in 1 .. Len(disk[s].recs) : disk'[s].recs[n] = disk[s].recs[n]
      /\ disk'[s].recs[Len(disk[s].recs) + 1] = f
  <2>1. disk[s].recs \in Seq(Frames) BY <1>2 DEF FilesTyped, File
  <2> QED BY <2>1
<1>5. \A r \in Segs, n \in Nat : n \in 1 .. Len(disk'[r].recs) =>
        \/ n \in 1 .. Len(disk[r].recs) /\ disk'[r].recs[n] = disk[r].recs[n]
        \/ r = s /\ n = Len(disk[s].recs) + 1 /\ disk'[r].recs[n] = f
  <2> SUFFICES ASSUME NEW r \in Segs, NEW n \in Nat, n \in 1 .. Len(disk'[r].recs)
               PROVE  \/ n \in 1 .. Len(disk[r].recs) /\ disk'[r].recs[n] = disk[r].recs[n]
                      \/ r = s /\ n = Len(disk[s].recs) + 1 /\ disk'[r].recs[n] = f
    OBVIOUS
  <2>1. CASE r = s BY <1>4, <2>1
  <2>2. CASE r # s
    <3>1. disk'[r] = disk[r] BY <2>2
    <3> QED BY <3>1
  <2> QED BY <2>1, <2>2
<1>6. \A r \in Segs : Len(disk'[r].recs) \in Nat /\ Len(disk[r].recs) \in Nat
  BY <1>2, <1>4 DEF FilesTyped, File
<1>7. \A g \in Frames : g # f /\ Fresh(g) => Fresh(g)'
  BY <1>5, <1>6 DEF Fresh, Unrecorded, Unindexed
<1>8. work'.cmd.op = "none" BY DEF IdleWork, NoCommand
<1>9. FramesAreInOrder' BY <1>1, <1>8 DEF FramesAreInOrder
<1>10. f <= offered BY <1>1 DEF FramesAreInOrder
<1>11. FramesAreFresh'
  <2>1. ASSUME NEW i \in 1 .. Len(queue'), queue'[i].op = "append", NEW g, g = queue'[i].frame
        PROVE  Fresh(g)'
    <3>1. g \in Frames /\ f < g BY <1>1, <1>2, <2>1 DEF FramesAreInOrder, AppendsHaveFrames
    <3> QED BY <1>1, <1>7, <2>1, <3>1 DEF FramesAreFresh, Frames
  <2>2. ASSUME NEW g \in Frames, g > offered' PROVE Fresh(g)'
    <3>1. offered \in Nat BY DEF IInv, TypeOK, CallTyped
    <3>2. g # f /\ g > offered BY <1>10, <2>2, <3>1 DEF Frames
    <3> QED BY <1>1, <1>7, <3>2 DEF FramesAreFresh
  <2>3. ASSUME caller'.pc = "commit", caller'.op = "append", NEW g, g = caller'.frame
        PROVE  Unindexed(g)'
    BY <1>3, <2>3 DEF Fresh, Unindexed
  <2> QED BY <1>8, <2>1, <2>2, <2>3 DEF FramesAreFresh, Fresh, Unrecorded, Unindexed
<1>12. OneCopy'
  <2> SUFFICES ASSUME NEW r \in Segs, NEW q \in Segs,
                      NEW m \in 1 .. Len(disk'[r].recs), NEW n \in 1 .. Len(disk'[q].recs),
                      disk'[r].recs[m] = disk'[q].recs[n]
               PROVE  r = q /\ m = n
    BY DEF OneCopy
  <2>1. m \in Nat /\ n \in Nat BY <1>6
  <2> QED BY <1>1, <1>3, <1>5, <2>1 DEF OneCopy, Fresh, Unrecorded
<1>13. RowsAgree'
  <2> SUFFICES ASSUME NEW d \in past' \union {db'}, NEW r \in Segs,
                      NEW n \in 1 .. Len(disk'[r].recs)
               PROVE  d.at[disk'[r].recs[n]] \in {NoAddress, Address(r, n)}
    BY DEF RowsAgree
  <2>1. n \in Nat BY <1>6
  <2> QED BY <1>1, <1>3, <1>5, <2>1 DEF RowsAgree, Fresh, Unindexed
<1> QED BY <1>9, <1>11, <1>12, <1>13 DEF Origins

\* Steps that add no record, and no command or transaction either.
LEMMA QuietOrigins ==
    ASSUME IInv, Origins, RecordsShrink, UNCHANGED <<db, past, queue, offered>>,
           work'.cmd \in {work.cmd, NoCommand}, caller' \in {caller, IdleCaller}
    PROVE  Origins'
<1>1. IndexFollows BY SameIndex DEF index
<1>2. CommandsFollow BY SameCommands
<1>3. caller'.pc = "commit" => caller.pc = "commit" BY DEF IdleCaller
<1> QED BY <1>1, <1>2, <1>3, OriginsKept

\* A failed step drops its command.
LEMMA FailureOrigins ==
    ASSUME IInv, Origins, RecordsShrink, NEW latch, Fails(latch), UNCHANGED queue
    PROVE  Origins'
<1>1. UNCHANGED <<db, past, queue, offered>> BY DEF Fails, WorkerUnchanged, index
<1>2. work'.cmd = NoCommand BY DEF Fails, IdleWork
<1>3. caller' \in {caller, IdleCaller} BY DEF Fails, Answer
<1> QED BY <1>1, <1>2, <1>3, QuietOrigins

\* The steps that seal and open files, ...
LEMMA FileStepOrigins ==
    ASSUME IInv, Origins, Writes,
           \/ WriteFooter \/ SyncSealed \/ RenameSealed \/ PublishSealed \/ WriteHeader
           \/ \E k \in Keys : StartSeal(k) \/ PublishOpen(k) \/ CreateOpen(k)
    PROVE  Origins'
<1>1. RecordsShrink
  BY WriteFooterWrites, SyncSealedWrites, RenameSealedWrites, PublishSealedWrites,
     WriteHeaderWrites, StartSealWrites, PublishOpenWrites, CreateOpenWrites
<1>2. WorkTyped BY WritesParts
<1>3. work'.cmd = work.cmd /\ UNCHANGED <<db, past, queue, offered, caller>>
  <2> USE <1>2 DEF StepUnchanged, WorkerUnchanged, index, To, WorkTyped
  <2>1. CASE WriteFooter \/ SyncSealed \/ RenameSealed \/ WriteHeader
    BY <2>1 DEF WriteFooter, SyncSealed, RenameSealed, WriteHeader
  <2>2. CASE PublishSealed BY <2>2 DEF PublishSealed
  <2>3. CASE \E k \in Keys : StartSeal(k) BY <2>3 DEF StartSeal
  <2>4. CASE \E k \in Keys : PublishOpen(k) BY <2>4 DEF PublishOpen
  <2>5. CASE \E k \in Keys : CreateOpen(k) BY <2>5 DEF CreateOpen
  <2> QED BY <2>1, <2>2, <2>3, <2>4, <2>5
<1> QED BY <1>1, <1>3, QuietOrigins

\* ... and their failures.
LEMMA FileFailureOrigins ==
    ASSUME IInv, Origins, Writes,
           \/ WriteFooterFails \/ SyncSealedFails \/ RenameSealedFails \/ PublishSealedFails
           \/ WriteHeaderFails \/ PublishOpenFails
           \/ \E k \in Keys : CreateOpenFails(k)
    PROVE  Origins'
<1>1. RecordsShrink
  BY WriteFooterFailsWrites, SyncSealedFailsWrites, RenameSealedFailsWrites,
     PublishSealedFailsWrites, WriteHeaderFailsWrites, PublishOpenFailsWrites,
     CreateOpenFailsWrites
<1>2. UNCHANGED queue /\ \E latch \in BOOLEAN : Fails(latch)
  BY DEF WriteFooterFails, SyncSealedFails, RenameSealedFails, PublishSealedFails,
         WriteHeaderFails, PublishOpenFails, CreateOpenFails
<1> QED BY <1>1, <1>2, FailureOrigins

\* The worker goes on to the next command, or refuses it.
LEMMA TakeOrigins ==
    ASSUME IInv, Origins, Take \/ Refuse PROVE Origins'
<1>1. /\ queue # <<>> /\ queue' = Tail(queue) /\ work.pc = "idle"
      /\ UNCHANGED <<disk, offered, db, past>>
  BY DEF Take, Refuse, WorkerUnchanged, index
<1>2. work.cmd = NoCommand BY <1>1 DEF IInv, StoppedIsIdle
<1>3. (work' = work \/ work'.cmd = Head(queue)) /\ caller' \in {caller, IdleCaller}
  BY DEF Take, Refuse
<1>4. CommandsFollow BY <1>1, <1>2, <1>3, NextCommand
<1>5. caller'.pc = "commit" => caller.pc = "commit" BY <1>3 DEF IdleCaller
<1> QED BY <1>1, <1>4, <1>5, NothingChanges, SameIndex, OriginsKept DEF index

\* A flush is answered.
LEMMA FlushDoneOrigins ==
    ASSUME IInv, Origins, FlushDone PROVE Origins'
<1>1. CallTyped /\ CallOrder BY DEF IInv, TypeOK
<1>2. /\ work.cmd.op = "flush" /\ work' = IdleWork
      /\ UNCHANGED <<disk, queue, offered, db, past>>
      /\ caller' = IF work.cmd.wanted
                   THEN [caller EXCEPT !.pc = "commit", !.sealed = work.sealed, !.at = NoAddress]
                   ELSE caller
  BY DEF FlushDone, Done, Answer, WorkerUnchanged, index
<1>3. /\ caller'.op = caller.op /\ caller'.frame = caller.frame
      /\ caller' = caller \/ caller'.op # "append"
  BY <1>1, <1>2 DEF CallTyped, CallOrder, Awaited
<1>4. work'.cmd = NoCommand BY <1>2 DEF IdleWork
<1>5. CommandsFollow BY <1>2, <1>3, <1>4, SameCommands
<1> QED BY <1>2, <1>3, <1>5, NothingChanges, SameIndex, OriginsKept DEF index

\* The record of an append.
LEMMA WriteRecordOrigins ==
    ASSUME IInv, Origins, Writes, NEW k \in Keys, WriteRecord(k) PROVE Origins'
<1>1. /\ FilesTyped /\ WorkTyped /\ CallTyped /\ CallOrder /\ FilesInUse /\ AppendsHaveFrames
      /\ CommitsAlone
  BY WritesParts
<1>2. /\ work.pc = "next" /\ work.cmd.op = "append" /\ open[k] # NoSeg
      /\ work.cmd.frame \in Frames /\ work' = IdleWork
      /\ UNCHANGED <<queue, offered, db, past>>
  BY <1>1 DEF WriteRecord, Appending, Step, AppendsHaveFrames, Done, WorkerUnchanged, index
<1>3. PICK s \in Segs : s = open[k] BY <1>1, <1>2 DEF FilesInUse, Published
<1>4. PICK f \in Frames : f = work.cmd.frame BY <1>2
<1>5. /\ disk'[s].recs = Append(disk[s].recs, f)
      /\ \A r \in Segs : r # s => disk'[r] = disk[r]
  BY <1>1, <1>3, <1>4 DEF WriteRecord, FilesTyped, File, Tails
<1>6. caller.pc # "commit" BY <1>1, <1>2 DEF CommitsAlone, IdleWork
<1>7. PICK at : caller' = IF work.cmd.wanted
                          THEN [caller EXCEPT !.pc = "commit", !.sealed = work.sealed, !.at = at]
                          ELSE caller
  BY DEF WriteRecord, Done, Answer
<1>8. /\ caller'.op = caller.op /\ caller'.frame = caller.frame
      /\ caller'.pc = "commit" => caller'.frame = f
  BY <1>1, <1>4, <1>6, <1>7 DEF CallTyped, CallOrder, Awaited
<1> QED BY <1>2, <1>4, <1>5, <1>8, RecordAddedOrigins

\* A failed append may leave the whole record.
LEMMA WriteRecordFailsOrigins ==
    ASSUME IInv, Origins, Writes, NEW k \in Keys, WriteRecordFails(k) PROVE Origins'
<1>1. /\ FilesTyped /\ WorkTyped /\ FilesInUse /\ AppendsHaveFrames /\ CommitsAlone
  BY WritesParts
<1>2. /\ work.pc = "next" /\ work.cmd.op = "append" /\ open[k] # NoSeg
      /\ work.cmd.frame \in Frames /\ work' = IdleWork /\ Fails(TRUE)
      /\ UNCHANGED <<queue, offered, db, past>> /\ caller' \in {caller, IdleCaller}
  BY <1>1 DEF WriteRecordFails, Appending, Step, AppendsHaveFrames, Fails, Answer,
              WorkerUnchanged, index
<1>3. PICK s \in Segs : s = open[k] BY <1>1, <1>2 DEF FilesInUse, Published
<1>4. PICK f \in Frames : f = work.cmd.frame BY <1>2
<1>5. /\ disk'[s].recs \in {disk[s].recs, Append(disk[s].recs, f)}
      /\ \A r \in Segs : r # s => disk'[r] = disk[r]
  BY <1>1, <1>3, <1>4 DEF WriteRecordFails, FilesTyped, File, Tails
<1>6. CASE disk'[s].recs = disk[s].recs
  <2>1. \A r \in Segs : disk[r] \in File /\ disk'[r].recs = disk[r].recs
    BY <1>1, <1>5, <1>6 DEF FilesTyped
  <2>2. RecordsShrink BY <2>1, SameRecords DEF RecordsShrink
  <2> QED BY <1>2, <2>2, FailureOrigins
<1>7. CASE disk'[s].recs = Append(disk[s].recs, f)
  <2>1. caller.pc # "commit" BY <1>1, <1>2 DEF CommitsAlone, IdleWork
  <2>2. /\ caller'.pc # "commit"
        /\ caller'.op = "append" => caller.op = "append" /\ caller'.frame = caller.frame
    BY <1>2, <2>1 DEF IdleCaller
  <2> QED BY <1>2, <1>4, <1>5, <1>7, <2>2, RecordAddedOrigins
<1> QED BY <1>5, <1>6, <1>7

\* Transactions.
LEMMA NewIndexFollows ==
    ASSUME NEW new, UNCHANGED index \/ Commit(new) \/ (db' = new /\ past' = {db'}),
           \A f \in Frames :
                \/ new.at[f] = NoAddress
                \/ new.at[f] = db.at[f]
                \/ \E s \in Segs : \E n \in 1 .. Len(disk[s].recs) :
                      disk[s].recs[n] = f /\ new.at[f] = Address(s, n)
    PROVE  IndexFollows
<1>1. UNCHANGED index \/ (db' = new /\ past' \subseteq past \union {new}) BY DEF Commit
<1> QED BY <1>1, SameIndex DEF IndexFollows

\* The index changes, nothing else does.
LEMMA IndexOrigins ==
    ASSUME IInv, Origins, UNCHANGED <<disk, work, queue, offered>>, IndexFollows,
           caller' = IdleCaller
    PROVE  Origins'
<1>1. CommandsFollow BY SameCommands
<1>2. caller'.pc # "commit" BY DEF IdleCaller
<1> QED BY <1>1, <1>2, NothingChanges, OriginsKept

\* The row of a frame names the record the writer answered.
LEMMA CommitFrameOrigins ==
    ASSUME IInv, Origins, CommitFrame \/ CommitFrameFails PROVE Origins'
<1>1. FilesTyped /\ CallTyped /\ IndexTyped /\ AnswersAreTrue /\ AppendsHaveFrames
  BY DEF IInv, TypeOK
<1>2. /\ caller.pc = "commit" /\ caller.op = "append" /\ caller' = IdleCaller
      /\ UNCHANGED <<disk, work, queue, offered>>
      /\ \/ UNCHANGED index
         \/ Commit(WithFrame(db, caller.sealed, caller.frame, caller.at))
  BY DEF CommitFrame, CommitFrameFails, CommitUnchanged
<1>3. PICK s \in Segs, n \in Nat, f \in Frames :
        /\ s = caller.at.seg /\ n = caller.at.pos /\ f = caller.frame
        /\ n \in 1 .. Len(disk[s].recs) /\ disk[s].recs[n] = f
  <2>1. Names(caller.at.seg, caller.at.pos, caller.frame) BY <1>1, <1>2 DEF AnswersAreTrue
  <2>2. Len(disk[caller.at.seg].recs) \in Nat
    BY <1>1, <2>1 DEF Names, Published, FilesTyped, File
  <2> QED BY <1>1, <1>2, <2>1, <2>2 DEF Names, Published, AppendsHaveFrames
<1>4. caller.at = Address(s, n)
  <2>1. caller.at \in [seg : Segs, pos : Nat]
    BY <1>1, <1>3 DEF CallTyped, Addresses, NoAddress, NoSeg, Segs, Frames
  <2> QED BY <1>3, <2>1 DEF Address
<1>5. PICK new : new = WithFrame(db, caller.sealed, f, caller.at) OBVIOUS
<1>6. \A g \in Frames : new.at[g] = IF g = f THEN Address(s, n) ELSE db.at[g]
  <2>1. new.at = [db.at EXCEPT ![f] = caller.at] BY <1>5 DEF WithFrame
  <2>2. db.at \in [Frames -> Addresses] BY <1>1 DEF IndexTyped, Index
  <2> QED BY <1>4, <2>1, <2>2
<1>7. IndexFollows
  <2>1. UNCHANGED index \/ Commit(new) BY <1>2, <1>3, <1>5
  <2>2. \A g \in Frames :
          \/ new.at[g] = NoAddress
          \/ new.at[g] = db.at[g]
          \/ \E r \in Segs : \E m \in 1 .. Len(disk[r].recs) :
                disk[r].recs[m] = g /\ new.at[g] = Address(r, m)
    BY <1>3, <1>6
  <2> QED BY <2>1, <2>2, NewIndexFollows
<1> QED BY <1>2, <1>7, IndexOrigins

\* Registering segments leaves the frame rows alone.
LEMMA CommitFlushOrigins ==
    ASSUME IInv, Origins, CommitFlush \/ CommitFlushFails PROVE Origins'
<1>1. /\ caller' = IdleCaller /\ UNCHANGED <<disk, work, queue, offered>>
  BY DEF CommitFlush, CommitFlushFails, CommitUnchanged
<1>2. PICK new : new = WithSealed(db, caller.sealed) OBVIOUS
<1>3. UNCHANGED index \/ Commit(new) \/ (db' = new /\ past' = {db'})
  BY <1>2 DEF CommitFlush, CommitFlushFails
<1>4. new.at = db.at BY <1>2 DEF WithSealed
<1>5. IndexFollows BY <1>3, <1>4, NewIndexFollows
<1> QED BY <1>1, <1>5, IndexOrigins

\* Recovery removes rows, and adds those of records that have none.
LEMMA RecoveryOrigins ==
    ASSUME IInv, Origins, Recovery PROVE Origins'
<1>1. FilesTyped /\ IndexTyped /\ StoppedIsIdle BY DEF IInv, TypeOK
<1>2. UNCHANGED <<work, queue, caller, offered>>
  BY DEF Recovery, BeginIndexing, FinishRecovery, Quarantine, RepairFile, PublishRepaired,
         DropRowsOfLost, DropLostSegment, DropStaleRows, ReconcileSegment, RecoveryUnchanged
<1>3. CASE BeginIndexing \/ FinishRecovery
  <2>1. UNCHANGED <<disk, db, past>> BY <1>3 DEF BeginIndexing, FinishRecovery, index
  <2> QED BY <1>2, <2>1, NothingChanges, QuietOrigins
<1>4. ASSUME NEW s \in Segs, Quarantine(s) \/ RepairFile(s) \/ PublishRepaired(s)
      PROVE  Origins'
  <2>1. UNCHANGED <<db, past>> BY <1>4 DEF Quarantine, RepairFile, PublishRepaired, index
  <2> QED BY <1>2, <1>4, <2>1, RecoveryFiles, QuietOrigins
<1>5. ASSUME NEW s \in Segs, NEW F, Commit(Without(db, F)), UNCHANGED disk, phase = "indexing"
      PROVE  Origins'
  <2>1. PICK new : new = Without(db, F) OBVIOUS
  <2>2. \A f \in Frames : new.at[f] = NoAddress \/ new.at[f] = db.at[f]
    BY <1>1, <2>1, WithoutType DEF IndexTyped
  <2>3. IndexFollows BY <1>5, <2>1, <2>2, NewIndexFollows
  <2> QED BY <1>1, <1>2, <1>5, <2>3, IndexOrigins DEF StoppedIsIdle
<1>6. ASSUME NEW s \in Segs, DropRowsOfLost(s) \/ DropStaleRows(s) PROVE Origins'
  BY <1>5, <1>6 DEF DropRowsOfLost, DropStaleRows, Reconciling
<1>7. ASSUME NEW s \in Segs, DropLostSegment(s) PROVE Origins'
  <2>1. PICK new : /\ new = [row |-> [db.row EXCEPT ![s] = "none"],
                             cnt |-> [db.cnt EXCEPT ![s] = 0], at |-> db.at]
                   /\ Commit(new)
    BY <1>7 DEF DropLostSegment
  <2>2. UNCHANGED disk /\ phase = "indexing" /\ new.at = db.at BY <1>7, <2>1 DEF DropLostSegment
  <2>3. IndexFollows BY <2>1, <2>2, NewIndexFollows
  <2> QED BY <1>1, <1>2, <2>2, <2>3, IndexOrigins DEF StoppedIsIdle
<1>8. ASSUME NEW s \in Segs, ReconcileSegment(s) PROVE Origins'
  <2>1. PICK new : new = WithOrphans(db, s) OBVIOUS
  <2>2. UNCHANGED disk /\ phase = "indexing" /\ (UNCHANGED index \/ Commit(new))
    BY <1>8, <2>1 DEF ReconcileSegment, Reconciling
  <2>3. \A f \in Frames : \/ new.at[f] = db.at[f]
                          \/ \E n \in 1 .. Len(disk[s].recs) :
                                disk[s].recs[n] = f /\ new.at[f] = Address(s, n)
    BY <1>1, <2>1, WithOrphansType DEF IndexTyped, Orphans
  <2>4. IndexFollows BY <2>2, <2>3, NewIndexFollows
  <2> QED BY <1>1, <1>2, <2>2, <2>4, IndexOrigins DEF StoppedIsIdle
<1> QED BY <1>3, <1>4, <1>6, <1>7, <1>8 DEF Recovery

\* Power loss falls back to an index state that was committed.
LEMMA StopOrigins ==
    ASSUME IInv, Origins, PromisesAreKept, ProcessCrash \/ PowerLoss PROVE Origins'
<1>1. RecordsShrink BY ProcessCrashFiles, PowerLossPromises
<1>2. Volatile BY DEF ProcessCrash, PowerLoss
<1>3. CommandsFollow BY <1>2, NoCommands DEF Volatile
<1>4. caller'.pc # "commit" BY <1>2 DEF Volatile, IdleCaller
<1>5. IndexFollows
  <2>1. CASE ProcessCrash BY <2>1, SameIndex DEF ProcessCrash, index
  <2>2. CASE PowerLoss BY <2>2 DEF PowerLoss, IndexFollows
  <2> QED BY <2>1, <2>2
<1> QED BY <1>1, <1>3, <1>4, <1>5, OriginsKept

\* Every step.
LEMMA OriginsHold ==
    ASSUME IInv, Origins, Writes, PromisesAreKept, [Next]_vars PROVE Origins'
<1>1. CASE Worker
  BY <1>1, FileStepOrigins, FileFailureOrigins, TakeOrigins, FlushDoneOrigins,
     WriteRecordOrigins, WriteRecordFailsOrigins DEF Worker
<1>2. CASE Committer BY <1>2, CommitFrameOrigins, CommitFlushOrigins DEF Committer
<1>3. CASE Recovery BY <1>3, RecoveryOrigins
<1>4. CASE Environment
  <2>1. CASE \E k \in Keys : AppendFrame(k) BY <2>1, AppendFrameOrigins
  <2>2. ASSUME NEW keys \in Sessions \union {Keys}, FlushKeys(keys) PROVE Origins'
    BY <2>2, StoreAssumption, FlushKeysCommands
  <2>3. CASE Cancel
    <3>1. WorkTyped BY DEF IInv, TypeOK
    <3>2. caller'.pc # "commit" /\ UNCHANGED <<disk, db, past>>
      BY <2>3, <3>1, CancelDoes DEF IdleCaller
    <3> QED BY <2>3, <3>2, CancelCommands, NothingChanges, SameIndex, OriginsKept DEF index
  <2>4. CASE ProcessCrash \/ PowerLoss BY <2>4, StopOrigins
  <2>5. CASE Restart
    <3>1. UNCHANGED <<disk, db, past, work, queue, caller, offered>>
      BY <2>5 DEF Restart, RecoveryUnchanged, index
    <3> QED BY <3>1, NothingChanges, QuietOrigins
  <2>6. ASSUME NEW s \in Segs, Damage(s) PROVE Origins'
    <3>1. UNCHANGED <<db, past, work, queue, caller, offered>> BY <2>6 DEF Damage, index
    <3> QED BY <2>6, <3>1, DamagePromises, QuietOrigins
  <2> QED BY <1>4, <2>1, <2>2, <2>3, <2>4, <2>5, <2>6 DEF Environment
<1>5. CASE UNCHANGED vars
  <2>1. UNCHANGED <<disk, db, past, work, queue, caller, offered>> BY <1>5 DEF vars, index
  <2> QED BY <2>1, NothingChanges, QuietOrigins
<1> QED BY <1>1, <1>2, <1>3, <1>4, <1>5 DEF Next

-----------------------------------------------------------------------------
(* Every step keeps the second invariant.                                      *)

\* No step but power loss and damage takes a record from a file.
LEMMA WorkerWrites ==
    ASSUME IInv, Writes, Worker PROVE Writes' /\ FilesKeep
<1>1. CASE Take \/ Refuse \/ FlushDone BY <1>1, TakeWrites, RefuseWrites, FlushDoneWrites
<1>2. CASE WriteFooter \/ WriteFooterFails \/ SyncSealed \/ SyncSealedFails
  BY <1>2, WriteFooterWrites, WriteFooterFailsWrites, SyncSealedWrites, SyncSealedFailsWrites
<1>3. CASE RenameSealed \/ RenameSealedFails \/ PublishSealed \/ PublishSealedFails
  BY <1>3, RenameSealedWrites, RenameSealedFailsWrites, PublishSealedWrites,
     PublishSealedFailsWrites
<1>4. CASE WriteHeader \/ WriteHeaderFails \/ PublishOpenFails
  BY <1>4, WriteHeaderWrites, WriteHeaderFailsWrites, PublishOpenFailsWrites
<1>5. ASSUME NEW k \in Keys,
             \/ StartSeal(k) \/ CreateOpen(k) \/ CreateOpenFails(k) \/ PublishOpen(k)
             \/ WriteRecord(k) \/ WriteRecordFails(k)
      PROVE  Writes' /\ FilesKeep
  BY <1>5, StartSealWrites, CreateOpenWrites, CreateOpenFailsWrites, PublishOpenWrites,
     WriteRecordWrites, WriteRecordFailsWrites
<1> QED BY <1>1, <1>2, <1>3, <1>4, <1>5 DEF Worker

\* The transactions of the caller, ...
LEMMA CommitterWrites ==
    ASSUME IInv, Writes, Committer PROVE Writes' /\ FilesKeep
<1>1. CASE CommitFrame \/ CommitFrameFails
  <2>1. /\ caller.pc = "commit" /\ caller.op = "append" /\ caller' = IdleCaller
        /\ CommitUnchanged
        /\ db' = db \/ db' = WithFrame(db, caller.sealed, caller.frame, caller.at)
    BY <1>1 DEF CommitFrame, CommitFrameFails, Commit, index
  <2> QED BY <2>1, CommitWrites
<1>2. CASE CommitFlush \/ CommitFlushFails
  <2>1. /\ caller.pc = "commit" /\ caller' = IdleCaller /\ CommitUnchanged
        /\ db' = db \/ db' = WithSealed(db, caller.sealed)
    BY <1>2 DEF CommitFlush, CommitFlushFails, Commit, index
  <2> QED BY <2>1, CommitWrites
<1> QED BY <1>1, <1>2 DEF Committer

\* ... recovery, ...
LEMMA RecoveryWrites ==
    ASSUME IInv, IInv', Writes, RecoveredIsExact, Recovery PROVE Writes' /\ FilesKeep
<1>1. CASE FinishRecovery BY <1>1, FinishRecoveryWrites
<1>2. CASE ~FinishRecovery
  <2>1. phase # "up" /\ phase' # "up" /\ mine' = mine
    BY <1>2 DEF Recovery, BeginIndexing, Quarantine, RepairFile, PublishRepaired, Candidate,
                DropRowsOfLost, DropLostSegment, DropStaleRows, ReconcileSegment, Reconciling,
                RecoveryUnchanged
  <2>2. mine' = {} BY <2>1, WritesParts DEF OpenFiles
  <2>3. UNCHANGED disk \/ \E s \in Segs : Quarantine(s) \/ RepairFile(s) \/ PublishRepaired(s)
    BY <1>2 DEF Recovery, BeginIndexing, DropRowsOfLost, DropLostSegment, DropStaleRows,
                ReconcileSegment
  <2> QED BY <2>1, <2>2, <2>3, ClosedWrites, NothingChanges, RecoveryFiles
<1> QED BY <1>1, <1>2

\* ... new calls, ...
LEMMA CallsWrites ==
    ASSUME IInv, Writes,
           \/ \E k \in Keys : AppendFrame(k)
           \/ \E keys \in Sessions \union {Keys} : FlushKeys(keys)
    PROVE  Writes' /\ FilesKeep
<1>1. ASSUME NEW k \in Keys, AppendFrame(k) PROVE Writes' /\ FilesKeep
  <2>1. Call("append", offered + 1, {k}) BY <1>1 DEF AppendFrame
  <2>2. offered + 1 \in Frames \union {NoFrame}
    BY <1>1, StoreAssumption DEF AppendFrame, IInv, TypeOK, CallTyped, Frames
  <2>3. {k} \in SUBSET Keys /\ \E q \in Keys : {k} = {q} OBVIOUS
  <2> QED BY <2>1, <2>2, <2>3, CallWrites
<1>2. ASSUME NEW keys \in Sessions \union {Keys}, FlushKeys(keys) PROVE Writes' /\ FilesKeep
  <2>1. Call("flush", NoFrame, keys) BY <1>2 DEF FlushKeys
  <2>2. NoFrame \in Frames \union {NoFrame} /\ keys \in SUBSET Keys BY StoreAssumption
  <2> QED BY <2>1, <2>2, CallWrites
<1> QED BY <1>1, <1>2

\* ... stops, ...
LEMMA StoppedWrites ==
    ASSUME IInv, IInv', Writes, ProcessCrash \/ PowerLoss \/ Restart \/ \E s \in Segs : Damage(s)
    PROVE  Writes'
<1>1. phase' # "up" /\ mine' = {}
  <2>1. CASE ProcessCrash \/ PowerLoss BY <2>1 DEF ProcessCrash, PowerLoss, Volatile
  <2>2. CASE Restart BY <2>2, WritesParts DEF Restart, RecoveryUnchanged, OpenFiles
  <2>3. CASE \E s \in Segs : Damage(s) BY <2>3, WritesParts DEF Damage, OpenFiles
  <2> QED BY <2>1, <2>2, <2>3
<1> QED BY <1>1, ClosedWrites

\* ... and no step at all.
LEMMA StutterWrites == ASSUME IInv, Writes, UNCHANGED vars PROVE Writes' /\ FilesKeep
<1>1. UNCHANGED <<phase, disk, open, terminal, work, queue, caller, db, mine>>
  BY DEF vars, index
<1>2. CommitsAlone' BY <1>1, WritesParts DEF CommitsAlone
<1>3. OpenFiles' BY <1>1, WritesParts DEF OpenFiles
<1>4. SealsAreComplete' BY <1>1, WritesParts DEF SealsAreComplete
<1>5. FlushesSettle' BY <1>1, WritesParts DEF FlushesSettle
<1> QED BY <1>1, <1>2, <1>3, <1>4, <1>5, NothingChanges DEF Writes

\* All of them.
LEMMA WritesHold ==
    ASSUME IInv, IInv', Writes, RecoveredIsExact, [Next]_vars
    PROVE  /\ Writes'
           /\ PowerLoss \/ (\E s \in Segs : Damage(s)) \/ FilesKeep
<1>1. CASE Worker BY <1>1, WorkerWrites
<1>2. CASE Committer BY <1>2, CommitterWrites
<1>3. CASE Recovery BY <1>3, RecoveryWrites
<1>4. CASE Environment
  <2>1. CASE \/ \E k \in Keys : AppendFrame(k)
             \/ \E keys \in Sessions \union {Keys} : FlushKeys(keys)
    BY <2>1, CallsWrites
  <2>2. CASE Cancel BY <2>2, CancelWrites
  <2>3. CASE ProcessCrash BY <2>3, StoppedWrites, ProcessCrashFiles
  <2>4. CASE Restart
    <3>1. UNCHANGED disk BY <2>4 DEF Restart
    <3> QED BY <2>4, <3>1, StoppedWrites, NothingChanges
  <2>5. CASE PowerLoss \/ \E s \in Segs : Damage(s) BY <2>5, StoppedWrites
  <2> QED BY <1>4, <2>1, <2>2, <2>3, <2>4, <2>5 DEF Environment
<1>5. CASE UNCHANGED vars BY <1>5, StutterWrites
<1> QED BY <1>1, <1>2, <1>3, <1>4, <1>5 DEF Next

\* The steps that change what was promised.
LEMMA PromisesChange ==
    ASSUME [Next]_vars
    PROVE  \/ CommitFrame \/ CommitFlush \/ PowerLoss \/ \E s \in Segs : Damage(s)
           \/ UNCHANGED <<acked, safe>>
<1>1. CASE Worker
  BY <1>1 DEF Worker, Take, Refuse, FlushDone, WriteFooter, WriteFooterFails, SyncSealed,
              SyncSealedFails, RenameSealed, RenameSealedFails, PublishSealed,
              PublishSealedFails, WriteHeader, WriteHeaderFails, PublishOpenFails, StartSeal,
              CreateOpen, CreateOpenFails, PublishOpen, WriteRecord, WriteRecordFails, Fails,
              StepUnchanged, WorkerUnchanged, ghosts
<1>2. CASE Committer BY <1>2 DEF Committer, CommitFrameFails, CommitFlushFails, ghosts
<1>3. CASE Recovery
  BY <1>3 DEF Recovery, BeginIndexing, FinishRecovery, Quarantine, RepairFile, PublishRepaired,
              DropRowsOfLost, DropLostSegment, DropStaleRows, ReconcileSegment,
              RecoveryUnchanged, ghosts
<1>4. CASE Environment
  BY <1>4 DEF Environment, AppendFrame, FlushKeys, Call, Cancel, ProcessCrash, Restart,
              RecoveryUnchanged, ghosts
<1>5. CASE UNCHANGED vars BY <1>5 DEF vars, ghosts
<1> QED BY <1>1, <1>2, <1>3, <1>4, <1>5 DEF Next

\* The promises hold after every step.
LEMMA PromisesHold ==
    ASSUME IInv, IInv', Writes, RecoveredIsExact, PromisesAreKept, [Next]_vars
    PROVE  PromisesAreKept'
<1>1. CASE CommitFrame BY <1>1, CommitFramePromises
<1>2. CASE CommitFlush BY <1>2, CommitFlushPromises
<1>3. CASE PowerLoss BY <1>3, PowerLossPromises
<1>4. CASE \E s \in Segs : Damage(s) BY <1>4, DamagePromises
<1>5. CASE FilesKeep /\ UNCHANGED <<acked, safe>> BY <1>5, FilesKeepPromises
<1> QED BY <1>1, <1>2, <1>3, <1>4, <1>5, WritesHold, PromisesChange

\* Recovery takes one segment after the other.
LEMMA ExactStays ==
    ASSUME FilesTyped, NEW r \in Segs, Exact(r), disk'[r] = disk[r],
           db'.row[r] = db.row[r], db'.cnt[r] = db.cnt[r],
           \A f \in Frames : \/ db'.at[f] = db.at[f]
                             \/ db'.at[f].seg # r /\ db.at[f].seg # r
    PROVE  Exact(r)'
<1>1. \A n \in 1 .. Len(disk[r].recs) : disk[r].recs[n] \in Frames BY DEF FilesTyped, File
<1>3. RowsOf(r)' = RowsOf(r) BY DEF RowsOf
<1>4. Stale(r)' = Stale(r) BY <1>3 DEF Stale, RowsOf
<1>5. CASE disk[r].name = "sealed"
  <2>1. \A n \in 1 .. Len(disk[r].recs) : db'.at[disk[r].recs[n]] = Address(r, n)
    <3> SUFFICES ASSUME NEW n \in 1 .. Len(disk[r].recs)
                 PROVE  db'.at[disk[r].recs[n]] = Address(r, n)
      OBVIOUS
    <3>1. PICK f \in Frames : f = disk[r].recs[n] BY <1>1
    <3>2. db.at[f] = Address(r, n) BY <1>5, <3>1 DEF Exact
    <3>3. db.at[f].seg = r BY <3>2 DEF Address
    <3> QED BY <3>1, <3>2, <3>3
  <2> QED BY <1>4, <1>5, <2>1 DEF Exact
<1>6. CASE disk[r].name # "sealed" BY <1>3, <1>6 DEF Exact
<1> QED BY <1>5, <1>6

\* A segment with neither a file nor a row needs nothing.
LEMMA BeginIndexingExact ==
    ASSUME IInv, BeginIndexing PROVE RecoveredIsExact'
<1>1. RowsHaveSegments /\ IndexTyped BY DEF IInv, TypeOK
<1>2. /\ UNCHANGED <<disk, db>> /\ \A s \in Segs : disk[s].name # "open"
      /\ pending' = {s \in Segs : disk[s].name = "sealed" \/ db.row[s] # "none"}
  BY DEF BeginIndexing, index
<1>3. ASSUME NEW s \in Segs, s \notin pending' PROVE Exact(s)'
  <2>1. disk[s].name # "sealed" /\ db.row[s] = "none" BY <1>2, <1>3
  <2>2. \A f \in Frames : db.at[f].seg # s
    BY <1>1, <2>1 DEF RowsHaveSegments, NoAddress, NoSeg, Segs, Frames
  <2> QED BY <1>2, <2>1, <2>2 DEF Exact, RowsOf
<1> QED BY <1>2, <1>3 DEF RecoveredIsExact

\* A file is repaired or set aside while its segment is pending.
LEMMA RepairExact ==
    ASSUME IInv, RecoveredIsExact, NEW s \in Segs, Quarantine(s) \/ RepairFile(s)
    PROVE  RecoveredIsExact'
<1>1. FilesTyped BY DEF IInv, TypeOK
<1>2. /\ UNCHANGED <<phase, db, pending>>
      /\ phase = "indexing" => s \in pending
      /\ \A r \in Segs : r # s => disk'[r] = disk[r]
      /\ disk'[s].name \in {disk[s].name, "corrupt"}
  BY <1>1 DEF Quarantine, RepairFile, Candidate, Renamed, Synced, index, recovery, FilesTyped, File
<1> SUFFICES ASSUME phase = "indexing", NEW r \in Segs
             PROVE  disk'[r].name # "open" /\ (r \in pending' \/ Exact(r)')
  BY <1>2 DEF RecoveredIsExact
<1>3. disk[r].name # "open" /\ (r \in pending \/ Exact(r)) BY DEF RecoveredIsExact
<1>4. CASE r = s BY <1>2, <1>3, <1>4
<1>5. CASE r # s BY <1>1, <1>2, <1>3, <1>5, ExactStays
<1> QED BY <1>4, <1>5

\* Rows go while their segment is pending.
LEMMA RemovalExact ==
    ASSUME IInv, RecoveredIsExact, NEW s \in Segs, DropRowsOfLost(s) \/ DropStaleRows(s)
    PROVE  RecoveredIsExact'
<1>1. FilesTyped /\ IndexTyped BY DEF IInv, TypeOK
<1>2. PICK F \in SUBSET RowsOf(s) : Commit(Without(db, F))
  BY DEF DropRowsOfLost, DropStaleRows, Stale
<1>3. UNCHANGED <<phase, disk, pending>> /\ phase = "indexing" /\ s \in pending
  BY DEF DropRowsOfLost, DropStaleRows, Reconciling, recovery
<1>4. /\ db'.row = db.row /\ db'.cnt = db.cnt
      /\ \A f \in Frames : db'.at[f] = IF f \in F THEN NoAddress ELSE db.at[f]
  BY <1>2 DEF Commit, Without
<1> SUFFICES ASSUME NEW r \in Segs PROVE r \in pending' \/ Exact(r)'
  BY <1>3 DEF RecoveredIsExact
<1>5. r \in pending \/ Exact(r) BY <1>3 DEF RecoveredIsExact
<1>6. r # s =>
        \A f \in Frames : db'.at[f] = db.at[f] \/ (db'.at[f].seg # r /\ db.at[f].seg # r)
  BY <1>2, <1>4 DEF RowsOf, NoAddress, NoSeg, Segs, Frames
<1> QED BY <1>1, <1>3, <1>4, <1>5, <1>6, ExactStays

\* A segment without a file is done when its rows are gone.
LEMMA DropLostExact ==
    ASSUME IInv, RecoveredIsExact, NEW s \in Segs, DropLostSegment(s) PROVE RecoveredIsExact'
<1>1. FilesTyped /\ IndexTyped BY DEF IInv, TypeOK
<1>2. /\ UNCHANGED <<phase, disk>> /\ phase = "indexing" /\ pending' = pending \ {s}
      /\ disk[s].name # "sealed" /\ RowsOf(s) = {}
      /\ db' = [row |-> [db.row EXCEPT ![s] = "none"],
                cnt |-> [db.cnt EXCEPT ![s] = 0], at |-> db.at]
  BY DEF DropLostSegment, Commit
<1>3. /\ db'.at = db.at /\ db'.row[s] = "none"
      /\ \A r \in Segs : r # s => db'.row[r] = db.row[r] /\ db'.cnt[r] = db.cnt[r]
  BY <1>1, <1>2 DEF IndexTyped, Index
<1> SUFFICES ASSUME NEW r \in Segs PROVE r \in pending' \/ Exact(r)'
  BY <1>2 DEF RecoveredIsExact
<1>4. r \in pending \/ Exact(r) BY <1>2 DEF RecoveredIsExact
<1>5. CASE r = s BY <1>2, <1>3, <1>5 DEF Exact, RowsOf
<1>6. CASE r # s BY <1>1, <1>2, <1>3, <1>4, <1>6, ExactStays
<1> QED BY <1>5, <1>6

\* A segment with a file is done when every record has its row: a record without
\* one gets it, and a row that is there names the record, of which there is one.
LEMMA ReconcileExact ==
    ASSUME IInv, Origins, RecoveredIsExact, NEW s \in Segs, ReconcileSegment(s)
    PROVE  RecoveredIsExact'
<1>1. FilesTyped /\ IndexTyped BY DEF IInv, TypeOK
<1>2. /\ UNCHANGED <<phase, disk>> /\ phase = "indexing" /\ pending' = pending \ {s}
      /\ disk[s].name = "sealed" /\ disk[s].hdr /\ disk[s].tail = "footer" /\ Stale(s) = {}
      /\ db' = WithOrphans(db, s)
  BY DEF ReconcileSegment, Reconciling, Commit, index
<1>3. /\ db'.row[s] = "sealed" /\ db'.cnt[s] = Len(disk[s].recs)
      /\ \A r \in Segs : r # s => db'.row[r] = db.row[r] /\ db'.cnt[r] = db.cnt[r]
  BY <1>1, <1>2 DEF WithOrphans, IndexTyped, Index
<1>4. \A f \in Frames :
        \/ db'.at[f] = db.at[f] /\ \A n \in Orphans(s) : disk[s].recs[n] # f
        \/ \E n \in Orphans(s) : /\ disk[s].recs[n] = f /\ db'.at[f] = Address(s, n)
  <2> TAKE f \in Frames
  <2>1. CASE \E n \in Orphans(s) : disk[s].recs[n] = f
    <3>1. PICK m : m = CHOOSE n \in Orphans(s) : disk[s].recs[n] = f OBVIOUS
    <3>2. m \in Orphans(s) /\ disk[s].recs[m] = f BY <2>1, <3>1
    <3>3. db'.at[f] = Address(s, m) BY <1>2, <2>1, <3>1 DEF WithOrphans
    <3> QED BY <3>2, <3>3
  <2>2. CASE ~\E n \in Orphans(s) : disk[s].recs[n] = f BY <1>2, <2>2 DEF WithOrphans
  <2> QED BY <2>1, <2>2
<1>5. \A n \in Orphans(s) : n \in 1 .. Len(disk[s].recs) /\ db.at[disk[s].recs[n]] = NoAddress
  BY <1>1 DEF Orphans, Indexed, FilesTyped, File
<1> SUFFICES ASSUME NEW r \in Segs PROVE r \in pending' \/ Exact(r)'
  BY <1>2 DEF RecoveredIsExact
<1>6. r \in pending \/ Exact(r) BY <1>2 DEF RecoveredIsExact
<1>7. CASE r = s
  <2>1. \A n \in 1 .. Len(disk[s].recs) : db'.at[disk[s].recs[n]] = Address(s, n)
    <3> SUFFICES ASSUME NEW n \in 1 .. Len(disk[s].recs)
                 PROVE  db'.at[disk[s].recs[n]] = Address(s, n)
      OBVIOUS
    <3>1. PICK f \in Frames : f = disk[s].recs[n] BY <1>1 DEF FilesTyped, File
    <3>2. CASE \E m \in Orphans(s) : disk[s].recs[m] = f /\ db'.at[f] = Address(s, m)
      <4>1. PICK m \in Orphans(s) : disk[s].recs[m] = f /\ db'.at[f] = Address(s, m) BY <3>2
      <4>2. m = n BY <1>5, <3>1, <4>1 DEF Origins, OneCopy
      <4> QED BY <3>1, <4>1, <4>2
    <3>3. CASE db'.at[f] = db.at[f] /\ \A m \in Orphans(s) : disk[s].recs[m] # f
      <4>1. db.at[f] # NoAddress BY <3>1, <3>3 DEF Orphans, Indexed
      <4>2. db.at[f] \in {NoAddress, Address(s, n)} BY <3>1 DEF Origins, RowsAgree
      <4> QED BY <3>1, <3>3, <4>1, <4>2
    <3> QED BY <1>4, <3>2, <3>3
  <2>2. \A f \in Frames : db'.at[f].seg = s =>
          db'.at[f].pos \in 1 .. Len(disk[s].recs) /\ disk[s].recs[db'.at[f].pos] = f
    <3> SUFFICES ASSUME NEW f \in Frames, db'.at[f].seg = s
                 PROVE  db'.at[f].pos \in 1 .. Len(disk[s].recs)
                        /\ disk[s].recs[db'.at[f].pos] = f
      OBVIOUS
    <3>1. CASE db'.at[f] = db.at[f] BY <1>2, <3>1 DEF Stale, RowsOf
    <3>2. CASE \E n \in Orphans(s) : disk[s].recs[n] = f /\ db'.at[f] = Address(s, n)
      <4>1. PICK n \in Orphans(s) : disk[s].recs[n] = f /\ db'.at[f] = Address(s, n) BY <3>2
      <4>2. db'.at[f].pos = n BY <4>1 DEF Address
      <4> QED BY <1>5, <4>1, <4>2
    <3> QED BY <1>4, <3>1, <3>2
  <2>3. Stale(s)' = {} BY <1>2, <2>2 DEF Stale, RowsOf
  <2> QED BY <1>2, <1>3, <1>7, <2>1, <2>3 DEF Exact
<1>8. CASE r # s
  <2>1. \A f \in Frames : db'.at[f] = db.at[f] \/ (db'.at[f].seg # r /\ db.at[f].seg # r)
    <3> TAKE f \in Frames
    <3>1. CASE \E n \in Orphans(s) : disk[s].recs[n] = f /\ db'.at[f] = Address(s, n)
      <4>1. PICK n \in Orphans(s) : disk[s].recs[n] = f /\ db'.at[f] = Address(s, n) BY <3>1
      <4>2. db.at[f].seg = NoSeg /\ db'.at[f].seg = s BY <1>5, <4>1 DEF NoAddress, Address
      <4> QED BY <1>8, <4>2 DEF NoSeg, Segs, Frames
    <3> QED BY <1>4, <3>1
  <2> QED BY <1>1, <1>2, <1>3, <1>6, <1>8, <2>1, ExactStays
<1> QED BY <1>7, <1>8

\* Every step.
LEMMA RecoveredHolds ==
    ASSUME IInv, Origins, RecoveredIsExact, [Next]_vars PROVE RecoveredIsExact'
<1> SUFFICES ASSUME phase' = "indexing" PROVE RecoveredIsExact' BY DEF RecoveredIsExact
<1>1. CASE Recovery
  <2>1. CASE BeginIndexing BY <2>1, BeginIndexingExact
  <2>2. CASE FinishRecovery BY <2>2 DEF FinishRecovery
  <2>3. ASSUME NEW s \in Segs, PublishRepaired(s) PROVE RecoveredIsExact'
    BY <2>3 DEF PublishRepaired
  <2> QED BY <1>1, <2>1, <2>2, <2>3, RepairExact, RemovalExact, DropLostExact, ReconcileExact
          DEF Recovery
<1>2. CASE UNCHANGED vars
  <2>1. UNCHANGED <<phase, disk, db, pending>> BY <1>2 DEF vars, index, recovery
  <2> QED BY <2>1 DEF RecoveredIsExact, Exact, Stale, RowsOf
<1>3. CASE Worker
  <2>1. phase' = phase
    BY <1>3 DEF Worker, Take, Refuse, FlushDone, WriteFooter, WriteFooterFails, SyncSealed,
              SyncSealedFails, RenameSealed, RenameSealedFails, PublishSealed,
              PublishSealedFails, WriteHeader, WriteHeaderFails, PublishOpenFails, StartSeal,
              CreateOpen, CreateOpenFails, PublishOpen, WriteRecord, WriteRecordFails, Fails,
              StepUnchanged, WorkerUnchanged
  <2>2. phase = "up"
    BY <1>3 DEF Worker, Take, Refuse, FlushDone, WriteFooter, WriteFooterFails, SyncSealed,
              SyncSealedFails, RenameSealed, RenameSealedFails, PublishSealed,
              PublishSealedFails, WriteHeader, WriteHeaderFails, PublishOpenFails, StartSeal,
              CreateOpen, CreateOpenFails, PublishOpen, WriteRecord, WriteRecordFails, Step,
              Appending
  <2> QED BY <2>1, <2>2
<1>4. CASE Committer \/ Cancel
  <2>1. phase' = phase /\ caller.pc # "idle"
    BY <1>4 DEF Committer, CommitFrame, CommitFrameFails, CommitFlush, CommitFlushFails,
                CommitUnchanged, Cancel
  <2> QED BY <2>1 DEF IInv, StoppedIsIdle, IdleCaller
<1>5. CASE Environment /\ ~Cancel
  BY <1>5 DEF Environment, AppendFrame, FlushKeys, Call, ProcessCrash, PowerLoss, Volatile,
              Restart, Damage
<1> QED BY <1>1, <1>2, <1>3, <1>4, <1>5 DEF Next

-----------------------------------------------------------------------------
(* The theorems about durability.                                              *)

StoreInv == IInv /\ Origins /\ Writes /\ PromisesAreKept /\ RecoveredIsExact

\* A new store.
LEMMA StoreInit == ASSUME Init PROVE StoreInv
<1>1. IInv BY InitHolds
<1>2. /\ phase = "up" /\ disk = [s \in Segs |-> NoFile] /\ open = [k \in Keys |-> NoSeg]
      /\ work = IdleWork /\ queue = <<>> /\ caller = IdleCaller /\ mine = {}
      /\ acked = {} /\ safe = {} /\ past = {db}
      /\ \A f \in Frames : db.at[f] = NoAddress
      /\ \A s \in Segs : db.row[s] = "none"
  BY DEF Init
<1>3. /\ work.pc = "idle" /\ work.cmd.op = "none" /\ work.cmd.wanted = FALSE /\ work.sealed = {}
      /\ caller.pc = "idle" /\ caller.op = "none"
  BY <1>2 DEF IdleWork, IdleCaller, NoCommand
<1>4. Len(queue) = 0 BY <1>2, EmptySeq
<1>5. \A s \in Segs : Len(disk[s].recs) = 0 BY <1>2, EmptySeq DEF NoFile
<1>6. Origins
  <2>1. \A f \in Frames : Fresh(f) BY <1>2, <1>5 DEF Fresh, Unrecorded, Unindexed
  <2>2. FramesAreFresh BY <1>3, <1>4, <2>1 DEF FramesAreFresh
  <2>3. FramesAreInOrder BY <1>3, <1>4 DEF FramesAreInOrder
  <2>4. OneCopy /\ RowsAgree BY <1>5 DEF OneCopy, RowsAgree
  <2> QED BY <2>2, <2>3, <2>4 DEF Origins
<1>7. Writes
  <2>1. CommitsAlone BY <1>3, <1>4 DEF CommitsAlone
  <2>2. OpenFiles BY <1>2, <1>3 DEF OpenFiles
  <2>3. SealsAreComplete BY <1>2, <1>3 DEF SealsAreComplete
  <2>4. FlushesSettle BY <1>2, <1>3 DEF FlushesSettle
  <2> QED BY <2>1, <2>2, <2>3, <2>4 DEF Writes
<1>8. PromisesAreKept /\ RecoveredIsExact BY <1>2 DEF PromisesAreKept, RecoveredIsExact
<1> QED BY <1>1, <1>6, <1>7, <1>8 DEF StoreInv

\* Both invariants hold in every state: where records and rows come from, what the
\* writer seals and in which order, what was promised, and what recovery has done.
THEOREM StoreInvariantHolds == Spec => []StoreInv
<1>1. Init => StoreInv BY StoreInit
<1>2. StoreInv /\ [Next]_vars => StoreInv'
  BY NextKeeps, OriginsHold, WritesHold, PromisesHold, RecoveredHolds DEF StoreInv
<1> QED BY <1>1, <1>2, PTL DEF Spec

\* A segment of this run that the index calls sealed is complete under its sealed
\* name, would survive power loss whole, and the index counts its records: writer.rs
\* seal_segment answers with a registration only after sync_data, the rename and the
\* directory sync, and recording.rs registers nothing else.
THEOREM SealsStayDurable == Spec => []RegisteredSealsAreDurable
<1>1. StoreInv => RegisteredSealsAreDurable
  BY DEF StoreInv, Writes, SealsAreComplete, Complete, RegisteredSealsAreDurable
<1> QED BY <1>1, StoreInvariantHolds, PTL

\* Only a transaction of the caller changes the index of an open store.
LEMMA OnlyCommitsWrite ==
    ASSUME [Next]_vars, phase = "up", phase' = "up" PROVE Committer \/ UNCHANGED db
<1>1. CASE Worker
  BY <1>1 DEF Worker, Take, Refuse, FlushDone, WriteFooter, WriteFooterFails, SyncSealed,
              SyncSealedFails, RenameSealed, RenameSealedFails, PublishSealed,
              PublishSealedFails, WriteHeader, WriteHeaderFails, PublishOpenFails, StartSeal,
              CreateOpen, CreateOpenFails, PublishOpen, WriteRecord, WriteRecordFails, Fails,
              StepUnchanged, WorkerUnchanged, index
<1>2. CASE Recovery
  BY <1>2 DEF Recovery, BeginIndexing, FinishRecovery, Quarantine, RepairFile, PublishRepaired,
              DropRowsOfLost, DropLostSegment, DropStaleRows, ReconcileSegment, Reconciling,
              index
<1>3. CASE Environment
  BY <1>3 DEF Environment, AppendFrame, FlushKeys, Call, Cancel, ProcessCrash, PowerLoss,
              Volatile, Restart, Damage, index
<1>4. CASE UNCHANGED vars BY <1>4 DEF vars, index
<1> QED BY <1>1, <1>2, <1>3, <1>4 DEF Next

\* Every step of an open store leaves a sealed segment alone.
LEMMA SealedStaysSealed ==
    ASSUME StoreInv, StoreInv', [Next]_vars, phase = "up", phase' = "up",
           NEW s \in Segs, db.row[s] = "sealed"
    PROVE  disk'[s].recs = disk[s].recs /\ db'.row[s] = "sealed"
<1>1. /\ IInv /\ Writes /\ IndexTyped /\ SealsAreComplete /\ OpenFiles
      /\ CallTyped
  BY WritesParts DEF StoreInv
<1>2. disk[s].name = "sealed" BY <1>1 DEF SealsAreComplete
<1>3. ~PowerLoss /\ ~\E r \in Segs : Damage(r) BY DEF PowerLoss, Volatile, Damage
<1>4. FilesKeep BY <1>3, WritesHold DEF StoreInv
<1>5. disk'[s].recs = disk[s].recs BY <1>2, <1>4 DEF FilesKeep, Keeps
<1>6. CASE Committer
  <2>1. WithSealed(db, caller.sealed).row[s] = "sealed" BY DEF WithSealed
  <2>2. CASE db' \in {db, WithSealed(db, caller.sealed)} BY <1>5, <2>1, <2>2
  <2>3. CASE /\ caller.pc = "commit" /\ caller.op = "append"
             /\ db' = WithFrame(db, caller.sealed, caller.frame, caller.at)
    <3>1. caller.at.seg # s BY <1>1, <1>2, <2>3 DEF OpenFiles, InUse
    <3>2. PICK b : b = WithSealed(db, caller.sealed) OBVIOUS
    <3>3. db'.row = [b.row EXCEPT ![caller.at.seg] = "open"] BY <2>3, <3>2 DEF WithFrame
    <3>4. DOMAIN b.row = Segs BY <3>2 DEF WithSealed
    <3> QED BY <1>5, <2>1, <3>1, <3>2, <3>3, <3>4
  <2> QED BY <1>6, <2>2, <2>3 DEF Committer, CommitFrame, CommitFrameFails, CommitFlush,
                                  CommitFlushFails, Commit, index
<1> QED BY <1>5, <1>6, OnlyCommitsWrite

\* A segment the index calls sealed gains and loses no record while the store is
\* open, and stays sealed: writer.rs takes the key out of open_segments before it
\* seals the file, so no later append, cancelled or not, reaches it.
THEOREM SealedSegmentsStay == Spec => SealedSegmentsNeverChange
<1>1. StoreInv /\ StoreInv' /\ [Next]_vars =>
        [phase = "up" /\ phase' = "up" =>
            \A s \in Segs : db.row[s] = "sealed" =>
                disk'[s].recs = disk[s].recs /\ db'.row[s] = "sealed"]_vars
  BY SealedStaysSealed
<1> QED BY <1>1, StoreInvariantHolds, PTL DEF Spec, SealedSegmentsNeverChange

\* When recovery.rs recover() returns, files and rows describe each other exactly,
\* whatever crashes, losses of power and damage came before, also during recovery:
\* a second pass would find nothing to do.
THEOREM RecoveryFinishesTheJob == Spec => RecoveryIsComplete
<1>1. StoreInv /\ [Next]_vars => [FinishRecovery => NothingToRecover']_vars
  <2> SUFFICES ASSUME StoreInv, FinishRecovery PROVE NothingToRecover' OBVIOUS
  <2>1. /\ phase = "indexing" /\ pending = {} /\ UNCHANGED <<disk, db>> /\ RecoveredIsExact
    BY DEF StoreInv, FinishRecovery, index
  <2>2. \A s \in Segs : disk[s].name # "open" /\ Exact(s) BY <2>1 DEF RecoveredIsExact
  <2>3. NothingToRecover BY <2>2 DEF NothingToRecover, Exact
  <2> QED BY <2>1, <2>3 DEF NothingToRecover, Stale, RowsOf
<1> QED BY <1>1, StoreInvariantHolds, PTL DEF Spec, RecoveryIsComplete

-----------------------------------------------------------------------------
(* The store implements EvidenceLog.                                           *)

\* What a reader of the evidence gets.
Visible == IF phase = "up" THEN Indexed ELSE {}

\* A step EvidenceLog does not see, ...
LEMMA SameLog ==
    ASSUME phase' = "up" <=> phase = "up", UNCHANGED <<offered, acked, safe>>, Visible' = Visible
    PROVE  UNCHANGED Log!vars
<1>1. (phase' = "up") = (phase = "up") OBVIOUS
<1> QED BY <1>1 DEF Log!vars, Visible

\* ... such as the steps of the writer and of recovery.
LEMMA QuietLog ==
    ASSUME StoreInv,
           \/ Worker \/ CommitFlushFails
           \/ Recovery /\ ~FinishRecovery
           \/ \E keys \in Sessions \union {Keys} : FlushKeys(keys)
           \/ Cancel \/ Restart \/ UNCHANGED vars
    PROVE  UNCHANGED Log!vars
<1>1. CASE Worker
  <2>1. UNCHANGED <<phase, db, offered, acked, safe>>
    BY <1>1 DEF Worker, Take, Refuse, FlushDone, WriteFooter, WriteFooterFails, SyncSealed,
              SyncSealedFails, RenameSealed, RenameSealedFails, PublishSealed,
              PublishSealedFails, WriteHeader, WriteHeaderFails, PublishOpenFails, StartSeal,
              CreateOpen, CreateOpenFails, PublishOpen, WriteRecord, WriteRecordFails, Fails,
              StepUnchanged, WorkerUnchanged, index, ghosts
  <2> QED BY <2>1, SameLog DEF Visible, Indexed
<1>2. CASE CommitFlushFails
  <2>1. UNCHANGED <<phase, offered, acked, safe>> /\ db'.at = db.at
    BY <1>2 DEF CommitFlushFails, CommitUnchanged, Commit, WithSealed, index, ghosts
  <2> QED BY <2>1, SameLog DEF Visible, Indexed
<1>3. CASE Recovery /\ ~FinishRecovery
  <2>1. phase # "up" /\ phase' # "up" /\ UNCHANGED <<offered, acked, safe>>
    BY <1>3 DEF Recovery, BeginIndexing, Quarantine, RepairFile, PublishRepaired, Candidate,
                DropRowsOfLost, DropLostSegment, DropStaleRows, ReconcileSegment, Reconciling,
                RecoveryUnchanged, ghosts
  <2> QED BY <2>1, SameLog DEF Visible
<1>4. CASE (\E keys \in Sessions \union {Keys} : FlushKeys(keys)) \/ Cancel \/ UNCHANGED vars
  <2>1. UNCHANGED <<phase, db, offered, acked, safe>>
    BY <1>4 DEF FlushKeys, Call, Cancel, vars, index, ghosts
  <2> QED BY <2>1, SameLog DEF Visible, Indexed
<1>5. CASE Restart
  <2>1. phase # "up" /\ phase' # "up" /\ UNCHANGED <<offered, acked, safe>>
    BY <1>5 DEF Restart, RecoveryUnchanged, ghosts
  <2> QED BY <2>1, SameLog DEF Visible
<1> QED BY <1>1, <1>2, <1>3, <1>4, <1>5

\* append_frame begins.
LEMMA OfferLog ==
    ASSUME StoreInv, NEW k \in Keys, AppendFrame(k) PROVE Log!Next
<1>1. offered \in Nat /\ offered + 1 \in Frames
  BY StoreAssumption DEF StoreInv, IInv, TypeOK, CallTyped, AppendFrame, Frames
<1>2. phase = "up" /\ offered' = offered + 1 /\ UNCHANGED <<phase, db, acked, safe>>
  BY DEF AppendFrame, Call, index, ghosts
<1>3. 1 .. (offered + 1) = (1 .. offered) \union {offered + 1} /\ offered + 1 \notin 1 .. offered
  BY <1>1
<1>4. Log!Offer(offered + 1) BY <1>2, <1>3 DEF Log!Offer, Indexed
<1> QED BY <1>1, <1>4 DEF Log!Next

\* Its transaction commits: the frame had no row before.
LEMMA RecordLog ==
    ASSUME StoreInv, CommitFrame \/ CommitFrameFails PROVE Log!Next \/ UNCHANGED Log!vars
<1>1. CallTyped /\ IndexTyped /\ StoppedIsIdle /\ AppendsHaveFrames /\ AnswersAreTrue
  BY DEF StoreInv, IInv, TypeOK
<1>2. FramesAreFresh /\ FramesAreInOrder BY DEF StoreInv, Origins
<1>3. /\ caller.pc = "commit" /\ caller.op = "append"
      /\ UNCHANGED <<phase, offered, safe>>
      /\ acked' \in {acked, acked \union {caller.frame}}
      /\ \/ UNCHANGED <<db, acked>>
         \/ db' = WithFrame(db, caller.sealed, caller.frame, caller.at)
  BY DEF CommitFrame, CommitFrameFails, CommitUnchanged, Commit, index, ghosts
<1>4. phase = "up" BY <1>1, <1>3 DEF StoppedIsIdle, IdleCaller
<1>5. PICK f \in Frames : f = caller.frame BY <1>1, <1>3 DEF AppendsHaveFrames
<1>6. f \in (1 .. offered) \ Indexed
  <2>1. f <= offered /\ f \in Nat /\ f >= 1 /\ offered \in Nat
    BY <1>1, <1>2, <1>3, <1>5 DEF FramesAreInOrder, CallTyped, Frames
  <2>2. db.at[f] = NoAddress BY <1>2, <1>3, <1>5 DEF FramesAreFresh, Unindexed
  <2> QED BY <2>1, <2>2 DEF Indexed
<1>7. CASE UNCHANGED <<db, acked>> BY <1>3, <1>7, SameLog DEF Visible, Indexed
<1>8. CASE db' = WithFrame(db, caller.sealed, caller.frame, caller.at)
  <2>1. caller.at # NoAddress
    BY <1>1, <1>3 DEF AnswersAreTrue, Names, Published, NoAddress, NoSeg, Segs, Frames
  <2>2. \A g \in Frames : db'.at[g] = IF g = f THEN caller.at ELSE db.at[g]
    <3>1. db'.at = [db.at EXCEPT ![f] = caller.at] BY <1>5, <1>8 DEF WithFrame
    <3>2. db.at \in [Frames -> Addresses] BY <1>1 DEF IndexTyped, Index
    <3> QED BY <3>1, <3>2
  <2>3. Indexed' = Indexed \union {f} BY <2>1, <2>2 DEF Indexed
  <2>4. Log!Record(f) BY <1>3, <1>4, <1>5, <1>6, <2>3 DEF Log!Record
  <2> QED BY <2>4 DEF Log!Next
<1> QED BY <1>3, <1>7, <1>8

\* flush_session returns.
LEMMA SecureLog ==
    ASSUME StoreInv, CommitFlush PROVE Log!Next
<1>1. StoppedIsIdle /\ RestTyped BY DEF StoreInv, IInv, TypeOK
<1>2. /\ caller.pc = "commit" /\ UNCHANGED <<phase, offered, acked>>
      /\ db'.at = db.at /\ safe' = safe \union Covered(caller.keys)
  BY DEF CommitFlush, CommitUnchanged, WithSealed
<1>3. phase = "up" BY <1>1, <1>2 DEF StoppedIsIdle, IdleCaller
<1>4. PICK F : F = Covered(caller.keys) OBVIOUS
<1>5. F \subseteq acked /\ F \in SUBSET Frames BY <1>1, <1>4 DEF Covered, RestTyped
<1>6. Indexed' = Indexed BY <1>2 DEF Indexed
<1>7. Log!Secure(F) BY <1>2, <1>3, <1>4, <1>5, <1>6 DEF Log!Secure
<1> QED BY <1>5, <1>7 DEF Log!Next

\* A crash voids no promise, power loss voids those no flush covered.
LEMMA StopLog ==
    ASSUME ProcessCrash \/ PowerLoss PROVE Log!Next
<1>1. phase' # "up" /\ acked' \in {acked, safe} /\ UNCHANGED <<offered, safe>>
  BY DEF ProcessCrash, PowerLoss, Volatile
<1>2. Log!Stop BY <1>1 DEF Log!Stop
<1> QED BY <1>2 DEF Log!Next

\* Damage to a stopped store.
LEMMA LoseLog ==
    ASSUME NEW s \in Segs, Damage(s) PROVE Log!Next
<1>1. PICK F \in SUBSET Frames : acked' = acked \ F /\ safe' = safe \ F BY DEF Damage
<1>2. phase # "up" /\ UNCHANGED <<phase, offered>> BY DEF Damage
<1>3. Log!Lose(F) BY <1>1, <1>2 DEF Log!Lose
<1> QED BY <1>3 DEF Log!Next

\* Recovery brings back every promised frame and invents none.
LEMMA ResumeLog ==
    ASSUME StoreInv, FinishRecovery PROVE Log!Next
<1>1. /\ phase = "indexing" /\ pending = {} /\ phase' = "up"
      /\ UNCHANGED <<db, offered, acked, safe>>
  BY DEF FinishRecovery, RecoveryUnchanged, index, ghosts
<1>2. \A s \in Segs : disk[s].name # "open" /\ Exact(s)
  BY <1>1 DEF StoreInv, RecoveredIsExact
<1>3. acked \subseteq Indexed
  <2> SUFFICES ASSUME NEW f \in acked PROVE f \in Indexed OBVIOUS
  <2>1. PICK s \in Segs, n \in Nat :
          n \in 1 .. Len(disk[s].recs) /\ disk[s].recs[n] = f /\ Published(s) /\ disk[s].hdr
    BY DEF StoreInv, PromisesAreKept
  <2>2. disk[s].name = "sealed" BY <1>2, <2>1 DEF Published
  <2>3. db.at[f] = Address(s, n) BY <1>2, <2>1, <2>2 DEF Exact
  <2>4. db.at[f] # NoAddress BY <2>3 DEF Address, NoAddress, NoSeg, Segs, Frames
  <2>5. f \in Frames BY DEF StoreInv, IInv, TypeOK, RestTyped
  <2> QED BY <2>4, <2>5 DEF Indexed
<1>4. Indexed \subseteq 1 .. offered
  <2> SUFFICES ASSUME NEW f \in Indexed PROVE f \in 1 .. offered OBVIOUS
  <2>1. f \in Frames /\ db.at[f] # NoAddress BY DEF Indexed
  <2>2. ~(f > offered)
    BY <2>1 DEF StoreInv, Origins, FramesAreFresh, Fresh, Unindexed
  <2>3. offered \in Nat BY DEF StoreInv, IInv, TypeOK, CallTyped
  <2> QED BY <2>1, <2>2, <2>3 DEF Frames
<1>5. Indexed \in SUBSET Frames /\ Indexed' = Indexed BY <1>1 DEF Indexed
<1>6. PICK F \in SUBSET Frames : F = Indexed BY <1>5
<1>7. Log!Resume(F) BY <1>1, <1>3, <1>4, <1>5, <1>6 DEF Log!Resume
<1> QED BY <1>6, <1>7 DEF Log!Next

\* SegmentStore implements EvidenceLog: every step of the caller, the writer's
\* worker, recovery and the stops is a step of the abstract store or invisible to
\* it.  So a frame is readable only after it was offered, an acknowledged one is
\* back after every crash, a flushed one after every loss of power, and only damage
\* from outside takes either away.
THEOREM StoreKeepsItsPromises == Spec => KeepsItsPromises
<1>1. Init => Log!Init
  <2> SUFFICES ASSUME Init PROVE Log!Init OBVIOUS
  <2>1. phase = "up" /\ offered = 0 /\ acked = {} /\ safe = {} /\ Indexed = {}
    BY DEF Init, Indexed
  <2> QED BY <2>1 DEF Log!Init
<1>2. StoreInv /\ [Next]_vars => [Log!Next]_(Log!vars)
  <2> SUFFICES ASSUME StoreInv, [Next]_vars PROVE Log!Next \/ UNCHANGED Log!vars OBVIOUS
  <2>1. CASE Worker BY <2>1, QuietLog
  <2>2. CASE Committer BY <2>2, RecordLog, SecureLog, QuietLog DEF Committer
  <2>3. CASE Recovery BY <2>3, ResumeLog, QuietLog
  <2>4. CASE Environment
    BY <2>4, OfferLog, StopLog, LoseLog, QuietLog DEF Environment
  <2>5. CASE UNCHANGED vars BY <2>5, QuietLog
  <2> QED BY <2>1, <2>2, <2>3, <2>4, <2>5 DEF Next
<1> QED BY <1>1, <1>2, StoreInvariantHolds, PTL DEF Spec, KeepsItsPromises, Log!Spec
=============================================================================
