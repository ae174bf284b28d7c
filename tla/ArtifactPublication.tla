------------------------ MODULE ArtifactPublication ------------------------
(* Publication of derived artifacts beside everything that may take them    *)
(* away: readers, the eviction of artifacts and of their source segment,    *)
(* the deletion of the session, a crash and the recovery after it.          *)
(*                                                                          *)
(* A step is what is done under one hold of the mutation gate, or one step  *)
(* outside of it: the unlocked read of a snapshot, a step of the file       *)
(* worker. An artifact has the name of its publisher; all are derived from  *)
(* frames of one segment. Removing an object takes its file and its row at  *)
(* once: the batch with its steps and failures is DeletionJournal.          *)
EXTENDS Integers, FiniteSets

CONSTANTS
    Publishers,        \* calls of publish_artifact and publish_video_artifact
    Offers,            \* the possible assignments of kind and cache key to publishers
    MaxEvictions,      \* bound: objects evicted
    MaxMishaps,        \* bound: failing file steps and walks, artifacts damaged from outside
    MaxWithdrawals,    \* bound: publications cancelled by their request
    MaxRestarts,       \* bound: crashes
    MaxLooks           \* bound: reads of artifacts

ASSUME PublicationAssumption ==
    /\ IsFiniteSet(Publishers)
    /\ Offers \subseteq [Publishers -> [kind : {"image", "video"}, key : Nat]]
    /\ {MaxEvictions, MaxMishaps, MaxWithdrawals, MaxRestarts, MaxLooks} \subseteq Nat

VARIABLES
    offer,      \* kind and cache key of every publication
    pub,        \* per publisher: where it is, which round of source checks, the snapshot it reads
                \* (artifact and state of the source), what it read, whether that is its last
                \* read, whether its request is cancelled, how it ended
    rows,       \* artifact rows: none, staging, ready
    files,      \* artifact files: none, temp, final, damaged
    source,     \* the source segment: open, sealed, gone
    eraser,     \* delete_session: where it is, and the guards its drain is told of
    looker,     \* a reader of artifacts
    life        \* whether the store is open, and the bounds used up

publicationVars == <<offer, pub, rows, files, source, eraser, looker, life>>

Nobody == [pc |-> "new", round |-> 1, seen |-> {}, held |-> "none", read |-> "none",
           last |-> FALSE, stopped |-> FALSE, outcome |-> "none"]
NoEraser == [pc |-> "none", told |-> {}]
NoLook == [pc |-> "idle", seen |-> {}, held |-> "none", read |-> "none", outcome |-> "none"]

PublicationInit ==
    /\ offer \in Offers
    /\ pub = [p \in Publishers |-> Nobody]
    /\ rows = [p \in Publishers |-> "none"] /\ files = [p \in Publishers |-> "none"]
    /\ source \in {"open", "sealed"}
    /\ eraser = NoEraser
    /\ looker = NoLook
    /\ life = [up |-> TRUE, evictions |-> 0, mishaps |-> 0, withdrawals |-> 0, restarts |-> 0,
               looks |-> 0]

\* PublicationRegistry: a guard is held from begin to the end of the publication.
Guarded(p) == pub[p].pc \notin {"new", "over"}
Deleted == eraser.pc # "none"
Cancelled(p) == Deleted \/ pub[p].stopped

At(r, pc) == [r EXCEPT !.pc = pc]
Holding(r, pc, seen) == [r EXCEPT !.pc = pc, !.seen = seen]
Goes(p, pc) == pub' = [pub EXCEPT ![p] = At(@, pc)]
Ended(outcome) == [Nobody EXCEPT !.pc = "over", !.outcome = outcome]
Ends(p, outcome) == pub' = [pub EXCEPT ![p] = Ended(outcome)]

Mishap == life.up /\ life.mishaps < MaxMishaps /\ life' = [life EXCEPT !.mishaps = @ + 1]
------------------------------------------------------------------------------
(* Removal. What a walk of the policy takes is any candidate, or nothing:   *)
(* one artifact that is not the publisher's own, whatever its state, or the *)
(* sealed source with every artifact linked to it.                          *)

Rows == {a \in Publishers : rows[a] # "none"}
Dropping(f, gone) == [a \in Publishers |-> IF a \in gone THEN "none" ELSE f[a]]

\* The final file goes where the journal says; a temporary one is not in it.
Unfiled(gone) ==
    Dropping(files, {a \in gone : files[a] # "temp"})

NoLoss == [gone |-> {}, source |-> source]

\* Fault: a segment is removed without the artifacts made from it.
LossesUnlinked(kept) ==
    IF life.evictions >= MaxEvictions THEN {}
    ELSE {[gone |-> {a}, source |-> source] : a \in Rows \ kept}
         \union (IF source = "sealed" THEN {[gone |-> {}, source |-> "gone"]} ELSE {})

Losses(kept) ==
    IF life.evictions >= MaxEvictions THEN {}
    ELSE {[gone |-> {a}, source |-> source] : a \in Rows \ kept}
         \union (IF source = "sealed" THEN {[gone |-> Rows, source |-> "gone"]} ELSE {})

Loses(loss, own) ==
    /\ rows' = Dropping(rows, loss.gone \union own)
    /\ files' = Unfiled(loss.gone \union own)
    /\ source' = loss.source
    /\ life' = IF loss = NoLoss THEN life ELSE [life EXCEPT !.evictions = @ + 1]

\* An append's capacity check, an age-out.
Evict ==
    /\ life.up
    /\ \E loss \in Losses({}) : Loses(loss, {})
    /\ UNCHANGED <<offer, pub, eraser, looker>>

Seal ==
    /\ life.up /\ source = "open" /\ source' = "sealed"
    /\ UNCHANGED <<offer, pub, rows, files, eraser, looker, life>>
------------------------------------------------------------------------------
(* Reads: a snapshot of rows, the files without the gate, a second look at  *)
(* the rows. What is read is an artifact with its source frames, or frames  *)
(* alone. A file of an open segment is found under its sealed name too.     *)

WhatIsRead(seen) ==
    IF source = "gone" THEN "lost"
    ELSE IF \A a \in seen : files[a] = "final" THEN "good" ELSE "corrupt"

\* Fault: what was read is trusted whatever became of the rows.
RecheckTrusting(seen, held, read) == IF Deleted THEN "missing" ELSE read

\* Rows that changed meanwhile, be it that the segment was sealed, make the evidence not found.
Recheck(seen, held, read) ==
    IF Deleted \/ source # held \/ (\E a \in seen : rows[a] # "ready") THEN "missing" ELSE read

\* invalidate_artifact_snapshot.
Invalidated(seen, held) == {a \in seen : rows[a] = "ready" /\ source = held}

\* read_artifact and read_video_artifact with an artifact, the reads of a FrameSource without.
Look(seen) ==
    /\ life.up /\ life.looks < MaxLooks /\ looker.pc = "idle"
    /\ ~Deleted /\ source # "gone" /\ \A a \in seen : rows[a] = "ready"
    /\ looker' = [NoLook EXCEPT !.pc = "reading", !.seen = seen, !.held = source]
    /\ life' = [life EXCEPT !.looks = @ + 1]
    /\ UNCHANGED <<offer, pub, rows, files, source, eraser>>

LookReads ==
    /\ life.up /\ looker.pc = "reading"
    /\ looker' = [looker EXCEPT !.pc = "checking", !.read = WhatIsRead(looker.seen)]
    /\ UNCHANGED <<offer, pub, rows, files, source, eraser, life>>

LookAnswers ==
    /\ life.up /\ looker.pc = "checking"
    /\ LET answer == Recheck(looker.seen, looker.held, looker.read)
       IN  looker' = IF answer = "corrupt" THEN [looker EXCEPT !.pc = "invalidating"]
                     ELSE [NoLook EXCEPT !.outcome = answer]
    /\ UNCHANGED <<offer, pub, rows, files, source, eraser, life>>

LookInvalidates ==
    /\ life.up /\ looker.pc = "invalidating"
    /\ Loses(NoLoss, Invalidated(looker.seen, looker.held))
    /\ looker' = [NoLook EXCEPT !.outcome = "invalidated"]
    /\ UNCHANGED <<offer, pub, eraser>>
------------------------------------------------------------------------------
(* A publication up to its staging row.                                     *)

Begin(p) ==
    /\ life.up /\ pub[p].pc = "new"
    /\ IF Deleted THEN Ends(p, "refused") ELSE Goes(p, "locking")
    /\ UNCHANGED <<offer, rows, files, source, eraser, looker, life>>

OfKey(p) == {q \in Publishers : offer[q].key = offer[p].key}

\* CacheLocks: held to the end of the publication.
Lock(p) ==
    /\ life.up /\ pub[p].pc = "locking"
    /\ \A q \in OfKey(p) : pub[q].pc \in {"new", "locking", "over"}
    /\ Goes(p, "looking")
    /\ UNCHANGED <<offer, rows, files, source, eraser, looker, life>>

Snapshot(p, seen, last) ==
    pub' = [pub EXCEPT ![p] = [Holding(@, "reading", seen) EXCEPT !.held = source, !.last = last]]

\* lookup_artifact, lookup_video_artifact.
LookUp(p) ==
    /\ life.up /\ pub[p].pc = "looking"
    /\ LET ready == {a \in OfKey(p) : rows[a] = "ready"}
       IN  IF ready = {} THEN Goes(p, "checking") ELSE Snapshot(p, ready, FALSE)
    /\ UNCHANGED <<offer, rows, files, source, eraser, looker, life>>

\* The first half of validate_source_payloads. A video that fails it has a row to undo.
CheckSources(p) ==
    /\ life.up /\ pub[p].pc = "checking"
    /\ IF Deleted \/ source = "gone"
       THEN IF pub[p].round = 1 THEN Ends(p, "failed") ELSE Goes(p, "undoing")
       ELSE Snapshot(p, {}, FALSE)
    /\ UNCHANGED <<offer, rows, files, source, eraser, looker, life>>

ReadSnapshot(p) ==
    /\ life.up /\ pub[p].pc = "reading"
    /\ pub' = [pub EXCEPT ![p] = [@ EXCEPT !.pc = "rechecking", !.read = WhatIsRead(pub[p].seen)]]
    /\ UNCHANGED <<offer, rows, files, source, eraser, looker, life>>

\* The second look at an artifact of this key: the one the cache has, or the one just published.
RecheckArtifact(p) ==
    /\ life.up /\ pub[p].pc = "rechecking" /\ pub[p].seen # {}
    /\ LET answer == Recheck(pub[p].seen, pub[p].held, pub[p].read)
       IN  CASE answer = "good" -> Ends(p, "good")
             [] answer = "missing" /\ ~pub[p].last -> Goes(p, "checking")
             [] answer = "corrupt" /\ ~pub[p].last -> Goes(p, "invalidating")
             [] OTHER -> Ends(p, "failed")
    /\ UNCHANGED <<offer, rows, files, source, eraser, looker, life>>

InvalidateFound(p) ==
    /\ life.up /\ pub[p].pc = "invalidating"
    /\ Loses(NoLoss, Invalidated(pub[p].seen, pub[p].held))
    /\ Goes(p, "checking")
    /\ UNCHANGED <<offer, eraser, looker>>

\* The second look at the sources, before the row is staged and, for a video, before its file.
RecheckSources(p) ==
    /\ life.up /\ pub[p].pc = "rechecking" /\ pub[p].seen = {}
    /\ LET good == Recheck({}, pub[p].held, pub[p].read) = "good"
       IN  CASE good -> Goes(p, IF pub[p].round = 1 THEN "staging" ELSE "queued")
             [] ~good /\ pub[p].round = 1 -> Ends(p, "failed")
             [] OTHER -> Goes(p, "undoing")
    /\ UNCHANGED <<offer, rows, files, source, eraser, looker, life>>

\* A row of the key is there when the lookup missed it or a failed publication left it.
Stage(p) ==
    /\ life.up /\ pub[p].pc = "staging"
    /\ LET there == {a \in OfKey(p) : rows[a] # "none"}
           ready == {a \in there : rows[a] = "ready"}
       IN  CASE Deleted -> Ends(p, "failed") /\ UNCHANGED rows
             [] ~Deleted /\ ready # {} -> UNCHANGED rows
                  /\ pub' = [pub EXCEPT ![p] = Holding(@, "snapping", ready)]
             [] ~Deleted /\ ready = {} /\ there # {} -> UNCHANGED rows
                  /\ pub' = [pub EXCEPT ![p] = Holding(@, "clearing", there)]
             [] ~Deleted /\ there = {} /\ source = "gone" -> Ends(p, "failed") /\ UNCHANGED rows
             [] OTHER -> Goes(p, "reclaiming") /\ rows' = [rows EXCEPT ![p] = "staging"]
    /\ UNCHANGED <<offer, files, source, eraser, looker, life>>

SnapExisting(p) ==
    /\ life.up /\ pub[p].pc = "snapping"
    /\ Snapshot(p, pub[p].seen, TRUE)
    /\ UNCHANGED <<offer, rows, files, source, eraser, looker, life>>

\* A stale staging row is removed, and the caller told to try again.
ClearExisting(p) ==
    /\ life.up /\ pub[p].pc = "clearing"
    /\ Loses(NoLoss, pub[p].seen) /\ Ends(p, "retry")
    /\ UNCHANGED <<offer, eraser, looker>>
------------------------------------------------------------------------------
(* The capacity walk, the file, and the ready row.                          *)

IsVideo(p) == offer[p].kind = "video"

\* An image goes on over the budget, a video gives its row up; then it looks at its sources again.
Reclaim(p) ==
    /\ life.up /\ pub[p].pc = "reclaiming"
    /\ \E loss \in {NoLoss} \union Losses({p}) :
          IF ~IsVideo(p) THEN Loses(loss, {}) /\ Goes(p, "queued")
          ELSE \/ Loses(loss, {}) /\ pub' = [pub EXCEPT ![p] = [@ EXCEPT !.pc = "checking", !.round = 2]]
               \/ Loses(loss, {p}) /\ Ends(p, "failed")
    /\ UNCHANGED <<offer, eraser, looker>>

\* A walk that fails: the image path lets the error out, its staging row stays.
ReclaimFails(p) ==
    /\ pub[p].pc \in {"reclaiming", "finalizing"} /\ Mishap
    /\ IF IsVideo(p) THEN rows' = Dropping(rows, {p}) /\ files' = Unfiled({p})
       ELSE UNCHANGED <<rows, files>>
    /\ Ends(p, "failed")
    /\ UNCHANGED <<offer, source, eraser, looker>>

\* publish_file, on the file worker's thread: it looks for a cancellation before it begins,
\* after the synced write, after the rename and after the directory sync.
WriteTemp(p) ==
    /\ life.up /\ pub[p].pc = "queued"
    /\ IF Cancelled(p) THEN Goes(p, "undoing") /\ UNCHANGED files
       ELSE Goes(p, "temp") /\ files' = [files EXCEPT ![p] = "temp"]
    /\ UNCHANGED <<offer, rows, source, eraser, looker, life>>

Rename(p) ==
    /\ life.up /\ pub[p].pc = "temp"
    /\ IF Cancelled(p) THEN Goes(p, "undoing") /\ files' = [files EXCEPT ![p] = "none"]
       ELSE Goes(p, "renamed") /\ files' = [files EXCEPT ![p] = "final"]
    /\ UNCHANGED <<offer, rows, source, eraser, looker, life>>

\* Fault: a cancellation after the rename leaves the file where it is.
AfterRenameKeeping(p) ==
    /\ life.up /\ pub[p].pc \in {"renamed", "synced"}
    /\ IF Cancelled(p) THEN Ends(p, "failed")
       ELSE Goes(p, IF pub[p].pc = "renamed" THEN "synced" ELSE "finalizing")
    /\ UNCHANGED <<offer, rows, files, source, eraser, looker, life>>

AfterRename(p) ==
    /\ life.up /\ pub[p].pc \in {"renamed", "synced"}
    /\ IF Cancelled(p) THEN Goes(p, "undoing") /\ files' = [files EXCEPT ![p] = "none"]
       ELSE /\ Goes(p, IF pub[p].pc = "renamed" THEN "synced" ELSE "finalizing")
            /\ UNCHANGED files
    /\ UNCHANGED <<offer, rows, source, eraser, looker, life>>

\* A write, a rename or a directory sync fails: what it has done by then stays.
FileFails(p) ==
    /\ pub[p].pc \in {"queued", "temp", "renamed"} /\ ~Cancelled(p) /\ Mishap
    /\ files' \in {files} \union (IF pub[p].pc = "queued" THEN {[files EXCEPT ![p] = "temp"]} ELSE {})
    /\ Goes(p, "undoing")
    /\ UNCHANGED <<offer, rows, source, eraser, looker>>

\* invalidate_artifact_row after a failure.
Undo(p) ==
    /\ life.up /\ pub[p].pc = "undoing"
    /\ Loses(NoLoss, {p}) /\ Ends(p, "failed")
    /\ UNCHANGED <<offer, eraser, looker>>

\* The second capacity walk and finalize_artifact. Without a row there is nothing to finalize: a
\* video invalidates itself, an image lets the error out and leaves its file.
Finalize(p) ==
    /\ life.up /\ pub[p].pc = "finalizing"
    /\ \E loss \in {NoLoss} \union Losses({p}) :
          LET row == rows[p] = "staging" /\ p \notin loss.gone /\ loss.source # "gone"
          IN  \/ IsVideo(p) /\ Loses(loss, {p}) /\ Ends(p, "failed")
              \/ Cancelled(p) /\ Loses(loss, {p}) /\ Ends(p, "failed")
              \/ ~Cancelled(p) /\ ~row /\ ~IsVideo(p) /\ Loses(loss, {}) /\ Ends(p, "failed")
              \/ /\ ~Cancelled(p) /\ row
                 /\ rows' = [Dropping(rows, loss.gone) EXCEPT ![p] = "ready"]
                 /\ files' = Unfiled(loss.gone) /\ source' = loss.source
                 /\ life' = IF loss = NoLoss THEN life ELSE [life EXCEPT !.evictions = @ + 1]
                 /\ Goes(p, "publishing")
    /\ UNCHANGED <<offer, eraser, looker>>

SnapPublished(p) ==
    /\ life.up /\ pub[p].pc = "publishing"
    /\ IF rows[p] = "none" THEN Ends(p, "failed") ELSE Snapshot(p, {p}, TRUE)
    /\ UNCHANGED <<offer, rows, files, source, eraser, looker, life>>

Withdraw(p) ==
    /\ life.up /\ Guarded(p) /\ ~pub[p].stopped /\ life.withdrawals < MaxWithdrawals
    /\ pub' = [pub EXCEPT ![p] = [@ EXCEPT !.stopped = TRUE]]
    /\ life' = [life EXCEPT !.withdrawals = @ + 1]
    /\ UNCHANGED <<offer, rows, files, source, eraser, looker>>

\* A file is damaged from outside while the store is open.
DamageFile(a) ==
    /\ files[a] = "final" /\ rows[a] = "ready" /\ Mishap
    /\ files' = [files EXCEPT ![a] = "damaged"]
    /\ UNCHANGED <<offer, pub, rows, source, eraser, looker>>
------------------------------------------------------------------------------
(* delete_session. The drain asks to be told of guards before it looks for  *)
(* them, and waits; a guard that is dropped tells everyone who asked.       *)

Guards == {p \in Publishers : Guarded(p)}

MarkDeleted ==
    /\ life.up /\ eraser.pc = "none"
    /\ eraser' = [eraser EXCEPT !.pc = "draining"]
    /\ UNCHANGED <<offer, pub, rows, files, source, looker, life>>

Enable ==
    /\ life.up /\ eraser.pc = "draining"
    /\ eraser' = [pc |-> "looking", told |-> Guards]
    /\ UNCHANGED <<offer, pub, rows, files, source, looker, life>>

LookForGuards ==
    /\ life.up /\ eraser.pc = "looking"
    /\ eraser' = [eraser EXCEPT !.pc = IF Guards = {} THEN "erasing" ELSE "settling"]
    /\ UNCHANGED <<offer, pub, rows, files, source, looker, life>>

\* Fault: the drain asks to be told only once it has found a guard.
AwaitUnasked ==
    /\ life.up /\ eraser.pc = "settling"
    /\ eraser' = [pc |-> "asleep", told |-> Guards]
    /\ UNCHANGED <<offer, pub, rows, files, source, looker, life>>

Await ==
    /\ life.up /\ eraser.pc = "settling"
    /\ eraser' = [eraser EXCEPT !.pc = "asleep"]
    /\ UNCHANGED <<offer, pub, rows, files, source, looker, life>>

Wake ==
    /\ life.up /\ eraser.pc = "asleep" /\ eraser.told \ Guards # {}
    /\ eraser' = [eraser EXCEPT !.pc = "draining"]
    /\ UNCHANGED <<offer, pub, rows, files, source, looker, life>>

\* Under the gate: the open segment is flushed, and everything is removed as one batch.
Erase ==
    /\ life.up /\ eraser.pc = "erasing"
    /\ eraser' = [pc |-> "done", told |-> {}]
    /\ rows' = Dropping(rows, Rows) /\ files' = Unfiled(Rows) /\ source' = "gone"
    /\ UNCHANGED <<offer, pub, looker, life>>
------------------------------------------------------------------------------
(* A crash of the process, and artifacts/recovery.rs: the registry of       *)
(* deleted sessions is in memory.                                           *)

Crash ==
    /\ life.up /\ life.restarts < MaxRestarts
    /\ life' = [life EXCEPT !.up = FALSE, !.restarts = @ + 1]
    /\ pub' = [p \in Publishers |-> IF Guarded(p) THEN Ended("lost") ELSE pub[p]]
    /\ looker' = NoLook /\ eraser' = NoEraser
    /\ UNCHANGED <<offer, rows, files, source>>

\* A row stays, and is ready, with a valid file. Files that nothing names are removed.
Recover ==
    /\ ~life.up
    /\ life' = [life EXCEPT !.up = TRUE]
    /\ source' = IF source = "open" THEN "sealed" ELSE source
    /\ LET valid == {a \in Rows : files[a] = "final"}
       IN  /\ rows' = [a \in Publishers |-> IF a \in valid THEN "ready" ELSE "none"]
           /\ files' = [a \in Publishers |-> IF a \in valid THEN "final" ELSE "none"]
    /\ UNCHANGED <<offer, pub, eraser, looker>>
------------------------------------------------------------------------------
PublisherProceeds(p) ==
    \/ Lock(p) \/ LookUp(p) \/ CheckSources(p) \/ ReadSnapshot(p) \/ RecheckArtifact(p)
    \/ InvalidateFound(p) \/ RecheckSources(p) \/ Stage(p) \/ SnapExisting(p)
    \/ ClearExisting(p) \/ Reclaim(p) \/ WriteTemp(p) \/ Rename(p) \/ AfterRename(p)
    \/ Undo(p) \/ Finalize(p) \/ SnapPublished(p)

EraserProceeds == Enable \/ LookForGuards \/ Await \/ Wake \/ Erase

LookerProceeds == LookReads \/ LookAnswers \/ LookInvalidates

PublicationNext ==
    \/ \E p \in Publishers :
          \/ Begin(p) \/ PublisherProceeds(p) \/ ReclaimFails(p) \/ FileFails(p) \/ Withdraw(p)
          \/ DamageFile(p) \/ Look({p})
    \/ Look({}) \/ LookerProceeds
    \/ Evict \/ Seal
    \/ MarkDeleted \/ EraserProceeds
    \/ Crash \/ Recover

\* Tasks that can go on do, the file worker and a restart with them.
PublicationProceeds ==
    \/ \E p \in Publishers : PublisherProceeds(p)
    \/ EraserProceeds \/ LookerProceeds \/ Recover

PublicationSpec ==
    PublicationInit /\ [][PublicationNext]_publicationVars
    /\ WF_publicationVars(PublicationProceeds)
------------------------------------------------------------------------------
(* Properties *)

Places == {"new", "locking", "looking", "checking", "reading", "rechecking", "invalidating",
           "staging", "snapping", "clearing", "reclaiming", "queued", "temp", "renamed",
           "synced", "finalizing", "publishing", "undoing", "over"}

PubRecords ==
    [pc : Places, round : {1, 2}, seen : SUBSET Publishers,
     held : {"none", "open", "sealed", "gone"}, read : {"none", "lost", "good", "corrupt"},
     last : BOOLEAN, stopped : BOOLEAN,
     outcome : {"none", "refused", "failed", "retry", "good", "lost"}]

LookRecords ==
    [pc : {"idle", "reading", "checking", "invalidating"}, seen : SUBSET Publishers,
     held : {"none", "open", "sealed"}, read : {"none", "lost", "good", "corrupt"},
     outcome : {"none", "good", "lost", "missing", "invalidated"}]

StoreTyped ==
    /\ rows \in [Publishers -> {"none", "staging", "ready"}]
    /\ files \in [Publishers -> {"none", "temp", "final", "damaged"}]
    /\ source \in {"open", "sealed", "gone"}

LifeTyped ==
    life \in [up : BOOLEAN, evictions : Nat, mishaps : Nat, withdrawals : Nat, restarts : Nat,
              looks : Nat]

EraserTyped ==
    eraser \in [pc : {"none", "draining", "looking", "settling", "asleep", "erasing", "done"},
                told : SUBSET Publishers]

PublicationTypeOK ==
    /\ offer \in Offers /\ pub \in [Publishers -> PubRecords] /\ looker \in LookRecords
    /\ StoreTyped /\ LifeTyped /\ EraserTyped

\* finalize_artifact after the rename, evictions in between, crashes anywhere: a ready row of an
\* open store has its file, which only damage from outside changes, and its source frames.
ReadyArtifactsAreComplete ==
    life.up => \A a \in Publishers : rows[a] = "ready" => files[a] \in {"final", "damaged"}
                                                            /\ source # "gone"

\* The second look of read_artifact_snapshot and read_frame_snapshots: bytes are handed out only
\* while the session is not being deleted and the source and the artifacts they came from are
\* retained, whatever was evicted, invalidated or published again between the looks.
AnswersAreCurrent ==
    [][ /\ looker.outcome # "good" /\ looker'.outcome = "good"
          => /\ ~Deleted /\ source # "gone"
             /\ \A a \in looker.seen : rows[a] = "ready" /\ files[a] # "none"
        /\ \A p \in Publishers :
             pub[p].outcome # "good" /\ pub'[p].outcome = "good"
               => /\ ~Deleted /\ source # "gone"
                  /\ \A a \in pub[p].seen : rows[a] = "ready" /\ files[a] # "none"
      ]_publicationVars

\* delete_session waits for the guards, and publish_file undoes what a cancellation met: once the
\* session is erased no row comes back. A file is left by a failed step or, of an image, by the
\* eviction of the row under it.
DeletionIsFinal ==
    eraser.pc = "done" =>
      \A a \in Publishers :
        /\ rows[a] = "none"
        /\ files[a] # "none" => life.mishaps > 0 \/ (~IsVideo(a) /\ life.evictions > 0)

\* The same without the exception: "Deletion removes source frames, browser events, generated
\* artifacts, and indexes associated with the session" (docs/SPEC.md:698).
DeletionRemovesEveryFile ==
    eraser.pc = "done" => \A a \in Publishers : files[a] = "none"

\* Publications end, whatever fails, and with their guards gone the deletion that waits for them:
\* again and again nothing is being published or deleted.
PublicationsEnd == []<>(Guards = {} /\ eraser.pc \in {"none", "done"})
==============================================================================
