--------------------- MODULE ArtifactPublicationProofs ---------------------
(* Ready artifacts are complete, and what is answered is retained, for any  *)
(* publications, evictions, failures, withdrawals, crashes and reads.       *)
EXTENDS ArtifactPublication, TLAPS

\* No row outlives the source: they are removed in one batch.
RowsHaveSources == \A a \in Publishers : rows[a] # "none" => source # "gone"

ReadyHaveFiles ==
    \A a \in Publishers : rows[a] = "ready" => files[a] \in {"final", "damaged"}

\* A publication's own row is not there before it begins, and ready only at its end: no other
\* publication touches its file.
OwnRow(r, p) ==
    /\ r.pc = "new" => rows[p] = "none"
    /\ rows[p] = "ready" => r.pc \in {"publishing", "over"}
                            \/ (r.pc \in {"reading", "rechecking"} /\ r.last)

\* The last read is of an artifact.
LastRead(r) ==
    r.pc = "snapping" \/ (r.pc \in {"reading", "rechecking"} /\ r.last) => r.seen # {}

\* A renamed file stays where it is as long as its row does.
Written(r, p) ==
    r.pc \in {"renamed", "synced", "finalizing"} /\ rows[p] = "staging" => files[p] = "final"

Fits(r, p) == OwnRow(r, p) /\ LastRead(r) /\ Written(r, p)

StoreComplete == StoreTyped /\ RowsHaveSources /\ ReadyHaveFiles

RestTyped == offer \in Offers /\ looker \in LookRecords /\ LifeTyped /\ EraserTyped

PubFits ==
    /\ pub \in [Publishers -> PubRecords]
    /\ \A p \in Publishers : Fits(pub[p], p)

Complete == StoreComplete /\ RestTyped /\ PubFits
------------------------------------------------------------------------------
(* What the operations on a publisher's record do.                          *)

LEMMA AtFacts ==
    ASSUME NEW r \in PubRecords, NEW pc \in Places
    PROVE  /\ At(r, pc) \in PubRecords /\ At(r, pc).pc = pc
           /\ At(r, pc).seen = r.seen /\ At(r, pc).last = r.last
BY DEF At, PubRecords

LEMMA HoldingFacts ==
    ASSUME NEW r \in PubRecords, NEW pc \in Places, NEW seen \in SUBSET Publishers
    PROVE  /\ Holding(r, pc, seen) \in PubRecords /\ Holding(r, pc, seen).pc = pc
           /\ Holding(r, pc, seen).seen = seen /\ Holding(r, pc, seen).last = r.last
BY DEF Holding, PubRecords

LEMMA EndedFacts ==
    ASSUME NEW o \in {"none", "refused", "failed", "retry", "good", "lost"}
    PROVE  Ended(o) \in PubRecords /\ Ended(o).pc = "over"
BY DEF Ended, Nobody, PubRecords, Places
------------------------------------------------------------------------------
(* A step of one publisher beside rows and files that stay.                 *)

LEMMA PubSteps ==
    ASSUME PubFits, NEW p \in Publishers, NEW r \in PubRecords, pub' = [pub EXCEPT ![p] = r],
           UNCHANGED <<rows, files>>, Fits(r, p)
    PROVE  PubFits'
<1>1. pub' \in [Publishers -> PubRecords]
  BY DEF PubFits
<1>2. ASSUME NEW q \in Publishers PROVE Fits(pub[q], q)'
  <2>1. CASE q = p
    <3>1. pub'[q] = r BY <2>1 DEF PubFits
    <3> QED BY <2>1, <3>1 DEF Fits, OwnRow, LastRead, Written
  <2>2. CASE q # p
    <3>1. pub'[q] = pub[q] BY <2>2 DEF PubFits
    <3> QED BY <3>1 DEF PubFits, Fits, OwnRow, LastRead, Written
  <2> QED BY <2>1, <2>2
<1> QED BY <1>1, <1>2 DEF PubFits

\* Where a publisher is while its row is not yet ready.
Working == Places \ {"new", "reading", "rechecking", "publishing", "over"}

\* The places that ask nothing of the row but that it is not ready.
Plain == Working \ {"snapping", "renamed", "synced", "finalizing"}

LEMMA NotReady ==
    ASSUME PubFits, NEW p \in Publishers,
           \/ pub[p].pc \in Working \union {"new"}
           \/ pub[p].pc \in {"reading", "rechecking"} /\ ~pub[p].last
    PROVE  rows[p] # "ready"
BY DEF PubFits, Fits, OwnRow, Working, Places

LEMMA GoesOn ==
    ASSUME PubFits, NEW p \in Publishers, NEW x \in Plain, Goes(p, x), rows[p] # "ready",
           UNCHANGED <<rows, files>>
    PROVE  PubFits'
<1>1. x \in Places /\ pub[p] \in PubRecords BY DEF Plain, Working, PubFits
<1>2. At(pub[p], x) \in PubRecords /\ At(pub[p], x).pc = x BY <1>1, AtFacts
<1>3. Fits(At(pub[p], x), p)
  BY <1>2 DEF Fits, OwnRow, LastRead, Written, Plain, Working, Places
<1>4. pub' = [pub EXCEPT ![p] = At(pub[p], x)] BY DEF Goes
<1> QED BY <1>2, <1>3, <1>4, PubSteps

LEMMA EndsThere ==
    ASSUME PubFits, NEW p \in Publishers,
           NEW o \in {"none", "refused", "failed", "retry", "good", "lost"},
           Ends(p, o), UNCHANGED <<rows, files>>
    PROVE  PubFits'
<1>1. Ended(o) \in PubRecords /\ Ended(o).pc = "over" BY EndedFacts
<1>2. Fits(Ended(o), p) BY <1>1 DEF Fits, OwnRow, LastRead, Written
<1>3. pub' = [pub EXCEPT ![p] = Ended(o)] BY DEF Ends
<1> QED BY <1>1, <1>2, <1>3, PubSteps

LEMMA SnapshotIsTaken ==
    ASSUME PubFits, StoreTyped, NEW p \in Publishers, NEW seen \in SUBSET Publishers,
           NEW last \in BOOLEAN, Snapshot(p, seen, last), UNCHANGED <<rows, files>>,
           last => seen # {}, last \/ rows[p] # "ready"
    PROVE  PubFits'
<1> DEFINE h == Holding(pub[p], "reading", seen)
           r == [h EXCEPT !.held = source, !.last = last]
<1>1. h \in PubRecords /\ h.pc = "reading" /\ h.seen = seen
  <2>1. "reading" \in Places /\ pub[p] \in PubRecords BY DEF Places, PubFits
  <2> QED BY <2>1, HoldingFacts
<1>2. source \in {"none", "open", "sealed", "gone"} BY DEF StoreTyped
<1> HIDE DEF h
<1>3. r \in PubRecords /\ r.pc = h.pc /\ r.seen = h.seen /\ r.last = last
  BY <1>1, <1>2 DEF PubRecords
<1>4. pub' = [pub EXCEPT ![p] = r] BY DEF Snapshot, h
<1> HIDE DEF r
<1>5. Fits(r, p) BY <1>1, <1>3 DEF Fits, OwnRow, LastRead, Written
<1> QED BY <1>3, <1>4, <1>5, PubSteps
------------------------------------------------------------------------------
(* Steps that take rows away with their files, and steps on one's own file. *)

Shrinks ==
    /\ StoreTyped'
    /\ \A a \in Publishers : rows'[a] # "none" =>
          rows'[a] = rows[a] /\ files'[a] = files[a] /\ source' # "gone"

LEMMA StoreShrinks == ASSUME StoreComplete, Shrinks PROVE StoreComplete'
BY DEF StoreComplete, Shrinks, RowsHaveSources, ReadyHaveFiles

LEMMA StoreStays ==
    ASSUME StoreComplete, UNCHANGED <<rows, files, source>> PROVE StoreComplete'
BY DEF StoreComplete, StoreTyped, RowsHaveSources, ReadyHaveFiles

LEMMA PubStays ==
    ASSUME PubFits, StoreTyped, pub' = pub, Shrinks \/ UNCHANGED <<rows, files>>
    PROVE  PubFits'
BY DEF PubFits, StoreTyped, Shrinks, Fits, OwnRow, LastRead, Written

LEMMA PubStepsShrinking ==
    ASSUME PubFits, StoreTyped, Shrinks, NEW p \in Publishers, NEW r \in PubRecords,
           pub' = [pub EXCEPT ![p] = r], Fits(r, p)
    PROVE  PubFits'
<1>1. pub' \in [Publishers -> PubRecords]
  BY DEF PubFits
<1>2. ASSUME NEW q \in Publishers PROVE Fits(pub[q], q)'
  <2>1. CASE q = p
    <3>1. pub'[q] = r BY <2>1 DEF PubFits
    <3> QED BY <2>1, <3>1 DEF StoreTyped, Shrinks, Fits, OwnRow, LastRead, Written
  <2>2. CASE q # p
    <3>1. pub'[q] = pub[q] BY <2>2 DEF PubFits
    <3> QED BY <3>1 DEF PubFits, StoreTyped, Shrinks, Fits, OwnRow, LastRead, Written
  <2> QED BY <2>1, <2>2
<1> QED BY <1>1, <1>2 DEF PubFits

LEMMA LossesAreConsistent ==
    ASSUME NEW kept \in SUBSET Publishers, NEW loss \in {NoLoss} \union Losses(kept)
    PROVE  /\ loss.gone \in SUBSET Publishers
           /\ loss.source = source \/ (loss.source = "gone" /\ loss.gone = Rows)
BY DEF Losses, NoLoss, Rows

LEMMA LifeCounts ==
    ASSUME LifeTyped, NEW b \in BOOLEAN,
           life' = IF b THEN life ELSE [life EXCEPT !.evictions = @ + 1]
    PROVE  LifeTyped' /\ life'.up = life.up
BY DEF LifeTyped

LEMMA LosingShrinks ==
    ASSUME StoreComplete, NEW own \in SUBSET Publishers, NEW kept \in SUBSET Publishers,
           NEW loss \in {NoLoss} \union Losses(kept), Loses(loss, own)
    PROVE  Shrinks
<1>1. /\ loss.gone \in SUBSET Publishers
      /\ loss.source = source \/ (loss.source = "gone" /\ loss.gone = Rows)
  BY LossesAreConsistent
<1> DEFINE gone == loss.gone \union own
<1>2. rows' = Dropping(rows, gone) /\ source' = loss.source
  BY DEF Loses
<1>3. files' = Dropping(files, {a \in gone : files[a] # "temp"})
  BY DEF Loses, Unfiled
<1>4. StoreTyped'
  BY <1>1, <1>2, <1>3 DEF StoreComplete, StoreTyped, Dropping
<1>5. ASSUME NEW a \in Publishers, rows'[a] # "none"
      PROVE  rows'[a] = rows[a] /\ files'[a] = files[a] /\ source' # "gone"
  <2>1. a \notin gone /\ rows'[a] = rows[a]
    BY <1>2, <1>5 DEF Dropping
  <2>2. files'[a] = files[a]
    BY <1>3, <2>1 DEF Dropping
  <2>3. source' # "gone"
    BY <1>1, <1>2, <1>5, <2>1 DEF StoreComplete, RowsHaveSources, Rows
  <2> QED BY <2>1, <2>2, <2>3
<1> QED BY <1>4, <1>5 DEF Shrinks

LEMMA FileSteps ==
    ASSUME StoreComplete, PubFits, NEW p \in Publishers, NEW r \in PubRecords,
           NEW f \in {"none", "temp", "final"},
           pub' = [pub EXCEPT ![p] = r], files' = [files EXCEPT ![p] = f],
           UNCHANGED <<rows, source>>, rows[p] # "ready", r.pc \in Working,
           r.pc # "snapping", r.pc \in {"renamed", "synced", "finalizing"} => f = "final"
    PROVE  StoreComplete' /\ PubFits'
<1>1. StoreComplete'
  BY DEF StoreComplete, StoreTyped, RowsHaveSources, ReadyHaveFiles
<1>2. pub' \in [Publishers -> PubRecords]
  BY DEF PubFits
<1>3. ASSUME NEW q \in Publishers PROVE Fits(pub[q], q)'
  <2>1. CASE q = p
    <3>1. pub'[q] = r /\ files'[q] = f BY <2>1 DEF PubFits, StoreComplete, StoreTyped
    <3> QED BY <2>1, <3>1 DEF Fits, OwnRow, LastRead, Written, Working, Places
  <2>2. CASE q # p
    <3>1. pub'[q] = pub[q] /\ files'[q] = files[q]
      BY <2>2 DEF PubFits, StoreComplete, StoreTyped
    <3> QED BY <3>1 DEF PubFits, Fits, OwnRow, LastRead, Written
  <2> QED BY <2>1, <2>2
<1> QED BY <1>1, <1>2, <1>3 DEF PubFits
------------------------------------------------------------------------------
(* The steps of a publisher that change nothing but its record.             *)

Rest == <<offer, looker, life, eraser>>

LEMMA RestStays == ASSUME RestTyped, UNCHANGED Rest PROVE RestTyped'
BY DEF RestTyped, Rest, LifeTyped, EraserTyped

Quiet(p) ==
    \/ Begin(p) \/ Lock(p) \/ LookUp(p) \/ CheckSources(p) \/ ReadSnapshot(p)
    \/ RecheckArtifact(p) \/ RecheckSources(p) \/ SnapExisting(p) \/ SnapPublished(p)

LEMMA QuietSteps ==
    ASSUME Complete, NEW p \in Publishers, Quiet(p) PROVE Complete'
<1>1. StoreComplete'
  <2>1. UNCHANGED <<rows, files, source>>
    BY DEF Quiet, Begin, Lock, LookUp, CheckSources, ReadSnapshot, RecheckArtifact,
           RecheckSources, SnapExisting, SnapPublished
  <2> QED BY <2>1, StoreStays DEF Complete
<1>2. RestTyped'
  <2>1. UNCHANGED Rest
    BY DEF Rest, Quiet, Begin, Lock, LookUp, CheckSources, ReadSnapshot, RecheckArtifact,
           RecheckSources, SnapExisting, SnapPublished
  <2> QED BY <2>1, RestStays DEF Complete
<1>3. PubFits /\ StoreTyped /\ Fits(pub[p], p) /\ pub[p] \in PubRecords
  BY DEF Complete, StoreComplete, PubFits
<1>4. PubFits'
  <2>1. CASE Begin(p)
    <3>1. rows[p] # "ready" BY <1>3, <2>1, NotReady DEF Begin
    <3>2. "locking" \in Plain BY DEF Plain, Working, Places
    <3>3. CASE Ends(p, "refused") BY <1>3, <2>1, <3>3, EndsThere DEF Begin
    <3>4. CASE Goes(p, "locking") BY <1>3, <2>1, <3>1, <3>2, <3>4, GoesOn DEF Begin
    <3> QED BY <2>1, <3>3, <3>4 DEF Begin
  <2>2. CASE Lock(p)
    <3>1. rows[p] # "ready" BY <1>3, <2>2, NotReady DEF Lock, Working, Places
    <3>2. "looking" \in Plain BY DEF Plain, Working, Places
    <3> QED BY <1>3, <2>2, <3>1, <3>2, GoesOn DEF Lock
  <2>3. CASE LookUp(p)
    <3>1. rows[p] # "ready" BY <1>3, <2>3, NotReady DEF LookUp, Working, Places
    <3>2. "checking" \in Plain BY DEF Plain, Working, Places
    <3> DEFINE ready == {a \in OfKey(p) : rows[a] = "ready"}
    <3>3. ready \in SUBSET Publishers BY DEF OfKey
    <3>4. CASE Goes(p, "checking") BY <1>3, <2>3, <3>1, <3>2, <3>4, GoesOn DEF LookUp
    <3>5. CASE Snapshot(p, ready, FALSE)
      BY <1>3, <2>3, <3>1, <3>3, <3>5, SnapshotIsTaken DEF LookUp
    <3> QED BY <2>3, <3>4, <3>5 DEF LookUp
  <2>4. CASE CheckSources(p)
    <3>1. rows[p] # "ready" BY <1>3, <2>4, NotReady DEF CheckSources, Working, Places
    <3>2. "undoing" \in Plain BY DEF Plain, Working, Places
    <3>3. CASE Ends(p, "failed") BY <1>3, <2>4, <3>3, EndsThere DEF CheckSources
    <3>4. CASE Goes(p, "undoing") BY <1>3, <2>4, <3>1, <3>2, <3>4, GoesOn DEF CheckSources
    <3>5. CASE Snapshot(p, {}, FALSE)
      BY <1>3, <2>4, <3>1, <3>5, SnapshotIsTaken DEF CheckSources
    <3> QED BY <2>4, <3>3, <3>4, <3>5 DEF CheckSources
  <2>5. CASE ReadSnapshot(p)
    <3> DEFINE read == WhatIsRead(pub[p].seen)
               r == [pub[p] EXCEPT !.pc = "rechecking", !.read = read]
    <3>1. read \in {"lost", "good", "corrupt"} BY DEF WhatIsRead
    <3>2. "rechecking" \in Places BY DEF Places
    <3> HIDE DEF read
    <3>3. r \in PubRecords /\ r.pc = "rechecking" /\ r.seen = pub[p].seen /\ r.last = pub[p].last
      BY <1>3, <3>1, <3>2 DEF PubRecords
    <3>4. pub' = [pub EXCEPT ![p] = r] /\ pub[p].pc = "reading"
      BY <2>5 DEF ReadSnapshot, read
    <3> HIDE DEF r
    <3>5. Fits(r, p) BY <1>3, <3>3, <3>4 DEF Fits, OwnRow, LastRead, Written
    <3> QED BY <1>3, <2>5, <3>3, <3>4, <3>5, PubSteps DEF ReadSnapshot
  <2>6. CASE RecheckArtifact(p)
    <3> DEFINE answer == Recheck(pub[p].seen, pub[p].held, pub[p].read)
    <3>1. "checking" \in Plain /\ "invalidating" \in Plain BY DEF Plain, Working, Places
    <3> HIDE DEF answer
    <3>2. CASE Ends(p, "good") \/ Ends(p, "failed")
      BY <1>3, <2>6, <3>2, EndsThere DEF RecheckArtifact
    <3>3. CASE ~pub[p].last /\ (Goes(p, "checking") \/ Goes(p, "invalidating"))
      <4>1. rows[p] # "ready" BY <1>3, <2>6, <3>3, NotReady DEF RecheckArtifact
      <4> QED BY <1>3, <2>6, <3>1, <3>3, <4>1, GoesOn DEF RecheckArtifact
    <3>4. CASE answer = "good"
      BY <2>6, <3>2, <3>4 DEF RecheckArtifact, answer
    <3>5. CASE answer = "missing" /\ ~pub[p].last
      BY <2>6, <3>3, <3>5 DEF RecheckArtifact, answer
    <3>6. CASE answer = "corrupt" /\ ~pub[p].last
      BY <2>6, <3>3, <3>6 DEF RecheckArtifact, answer
    <3>7. CASE answer # "good" /\ ~(answer \in {"missing", "corrupt"} /\ ~pub[p].last)
      BY <2>6, <3>2, <3>7 DEF RecheckArtifact, answer
    <3> QED BY <3>4, <3>5, <3>6, <3>7
  <2>7. CASE RecheckSources(p)
    <3>1. ~pub[p].last BY <1>3, <2>7 DEF RecheckSources, Fits, LastRead, PubRecords
    <3>2. rows[p] # "ready" BY <1>3, <2>7, <3>1, NotReady DEF RecheckSources
    <3>3. {"staging", "queued", "undoing"} \subseteq Plain BY DEF Plain, Working, Places
    <3>4. CASE Ends(p, "failed") BY <1>3, <2>7, <3>4, EndsThere DEF RecheckSources
    <3>5. CASE \E x \in {"staging", "queued", "undoing"} : Goes(p, x)
      BY <1>3, <2>7, <3>2, <3>3, <3>5, GoesOn DEF RecheckSources
    <3> QED BY <2>7, <3>4, <3>5 DEF RecheckSources
  <2>8. CASE SnapExisting(p)
    BY <1>3, <2>8, SnapshotIsTaken DEF SnapExisting, Fits, LastRead, PubRecords
  <2>9. CASE SnapPublished(p)
    <3>1. CASE Ends(p, "failed") BY <1>3, <2>9, <3>1, EndsThere DEF SnapPublished
    <3>2. CASE Snapshot(p, {p}, TRUE) BY <1>3, <2>9, <3>2, SnapshotIsTaken DEF SnapPublished
    <3> QED BY <2>9, <3>1, <3>2 DEF SnapPublished
  <2> QED BY <2>1, <2>2, <2>3, <2>4, <2>5, <2>6, <2>7, <2>8, <2>9 DEF Quiet
<1> QED BY <1>1, <1>2, <1>4 DEF Complete
------------------------------------------------------------------------------
(* Steps that take rows away.                                               *)

\* Anything but the rows and the publishers: what is removed with or without a publisher.
LEMMA RemovalKeepsRest ==
    ASSUME RestTyped, NEW own \in SUBSET Publishers, NEW kept \in SUBSET Publishers,
           NEW loss \in {NoLoss} \union Losses(kept), Loses(loss, own),
           UNCHANGED <<offer, eraser>>, looker' \in LookRecords
    PROVE  RestTyped' /\ life'.up = life.up
<1>1. LifeTyped' /\ life'.up = life.up
  BY LifeCounts DEF Loses, RestTyped
<1> QED BY <1>1 DEF RestTyped, EraserTyped

LEMMA EvictSteps == ASSUME Complete, Evict PROVE Complete'
<1>1. PICK loss \in Losses({}) : Loses(loss, {})
  BY DEF Evict
<1>2. Shrinks BY <1>1, LosingShrinks DEF Complete
<1>3. StoreComplete' BY <1>2, StoreShrinks DEF Complete
<1>4. RestTyped' BY <1>1, RemovalKeepsRest DEF Evict, Complete, RestTyped
<1>5. PubFits' BY <1>2, PubStays DEF Evict, Complete, StoreComplete
<1> QED BY <1>3, <1>4, <1>5 DEF Complete

LEMMA LookInvalidatesSteps == ASSUME Complete, LookInvalidates PROVE Complete'
<1> DEFINE own == Invalidated(looker.seen, looker.held)
<1>1. own \in SUBSET Publishers
  BY DEF Invalidated, Complete, RestTyped, LookRecords
<1> HIDE DEF own
<1>2. Loses(NoLoss, own) BY DEF LookInvalidates, own
<1>3. Shrinks BY <1>1, <1>2, LosingShrinks DEF Complete
<1>4. StoreComplete' BY <1>3, StoreShrinks DEF Complete
<1>5. looker' \in LookRecords BY DEF LookInvalidates, NoLook, LookRecords
<1>6. RestTyped' BY <1>1, <1>2, <1>5, RemovalKeepsRest DEF LookInvalidates, Complete
<1>7. PubFits' BY <1>3, PubStays DEF LookInvalidates, Complete, StoreComplete
<1> QED BY <1>4, <1>6, <1>7 DEF Complete

\* A publisher removes rows, and perhaps its own, and goes on or ends.
LEMMA RemovesAndGoes ==
    ASSUME Complete, NEW p \in Publishers, NEW own \in SUBSET Publishers,
           NEW kept \in SUBSET Publishers, NEW loss \in {NoLoss} \union Losses(kept),
           Loses(loss, own), UNCHANGED <<offer, eraser, looker>>,
           NEW r \in PubRecords, pub' = [pub EXCEPT ![p] = r], Fits(r, p)
    PROVE  Complete'
<1>1. Shrinks BY LosingShrinks DEF Complete
<1>2. StoreComplete' BY <1>1, StoreShrinks DEF Complete
<1>3. RestTyped' BY RemovalKeepsRest DEF Complete, RestTyped
<1>4. PubFits' BY <1>1, PubStepsShrinking DEF Complete, StoreComplete
<1> QED BY <1>2, <1>3, <1>4 DEF Complete

LEMMA PlainFits ==
    ASSUME PubFits, NEW p \in Publishers, NEW x \in Plain, rows[p] # "ready"
    PROVE  At(pub[p], x) \in PubRecords /\ Fits(At(pub[p], x), p)
<1>1. x \in Places /\ pub[p] \in PubRecords BY DEF Plain, Working, PubFits
<1>2. At(pub[p], x) \in PubRecords /\ At(pub[p], x).pc = x BY <1>1, AtFacts
<1> QED BY <1>2 DEF Fits, OwnRow, LastRead, Written, Plain, Working, Places

LEMMA EndedFits ==
    ASSUME NEW p \in Publishers, NEW o \in {"none", "refused", "failed", "retry", "good", "lost"}
    PROVE  Ended(o) \in PubRecords /\ Fits(Ended(o), p)
<1>1. Ended(o) \in PubRecords /\ Ended(o).pc = "over" BY EndedFacts
<1> QED BY <1>1 DEF Fits, OwnRow, LastRead, Written

Removing(p) == InvalidateFound(p) \/ ClearExisting(p) \/ Undo(p) \/ Reclaim(p)

LEMMA RemovingSteps ==
    ASSUME Complete, NEW p \in Publishers, Removing(p) PROVE Complete'
<1>1. PubFits /\ pub[p] \in PubRecords BY DEF Complete, PubFits
<1>2. rows[p] # "ready"
  BY <1>1, NotReady
  DEF Removing, InvalidateFound, ClearExisting, Undo, Reclaim, Working, Places
<1>3. NoLoss \in {NoLoss} \union Losses({}) OBVIOUS
<1>4. CASE InvalidateFound(p)
  <2> DEFINE own == Invalidated(pub[p].seen, pub[p].held)
  <2>1. own \in SUBSET Publishers BY <1>1 DEF Invalidated, PubRecords
  <2> HIDE DEF own
  <2>2. Loses(NoLoss, own) /\ UNCHANGED <<offer, eraser, looker>>
        /\ pub' = [pub EXCEPT ![p] = At(pub[p], "checking")]
    BY <1>4 DEF InvalidateFound, own, Goes
  <2>3. At(pub[p], "checking") \in PubRecords /\ Fits(At(pub[p], "checking"), p)
    <3>1. "checking" \in Plain BY DEF Plain, Working, Places
    <3> QED BY <1>1, <1>2, <3>1, PlainFits
  <2> QED BY <1>3, <2>1, <2>2, <2>3, RemovesAndGoes
<1>5. CASE ClearExisting(p)
  <2>1. pub[p].seen \in SUBSET Publishers BY <1>1 DEF PubRecords
  <2>2. Ended("retry") \in PubRecords /\ Fits(Ended("retry"), p) BY EndedFits
  <2>3. Loses(NoLoss, pub[p].seen) /\ UNCHANGED <<offer, eraser, looker>>
        /\ pub' = [pub EXCEPT ![p] = Ended("retry")]
    BY <1>5 DEF ClearExisting, Ends
  <2> QED BY <1>3, <2>1, <2>2, <2>3, RemovesAndGoes
<1>6. CASE Undo(p)
  <2>1. Ended("failed") \in PubRecords /\ Fits(Ended("failed"), p) BY EndedFits
  <2>2. Loses(NoLoss, {p}) /\ UNCHANGED <<offer, eraser, looker>>
        /\ pub' = [pub EXCEPT ![p] = Ended("failed")]
    BY <1>6 DEF Undo, Ends
  <2> QED BY <1>3, <2>1, <2>2, RemovesAndGoes
<1>7. CASE Reclaim(p)
  <2>1. PICK loss \in {NoLoss} \union Losses({p}) :
          \/ Loses(loss, {}) /\ Goes(p, "queued")
          \/ Loses(loss, {})
             /\ pub' = [pub EXCEPT ![p] = [@ EXCEPT !.pc = "checking", !.round = 2]]
          \/ Loses(loss, {p}) /\ Ends(p, "failed")
    BY <1>7 DEF Reclaim
  <2>2. UNCHANGED <<offer, eraser, looker>> BY <1>7 DEF Reclaim
  <2>3. CASE Loses(loss, {}) /\ Goes(p, "queued")
    <3>1. "queued" \in Plain BY DEF Plain, Working, Places
    <3>2. At(pub[p], "queued") \in PubRecords /\ Fits(At(pub[p], "queued"), p)
      BY <1>1, <1>2, <3>1, PlainFits
    <3>3. pub' = [pub EXCEPT ![p] = At(pub[p], "queued")] BY <2>3 DEF Goes
    <3> QED BY <2>1, <2>2, <2>3, <3>2, <3>3, RemovesAndGoes
  <2>4. CASE Loses(loss, {})
             /\ pub' = [pub EXCEPT ![p] = [@ EXCEPT !.pc = "checking", !.round = 2]]
    <3> DEFINE r == [pub[p] EXCEPT !.pc = "checking", !.round = 2]
    <3>1. "checking" \in Places BY DEF Places
    <3>2. r \in PubRecords /\ r.pc = "checking" BY <1>1, <3>1 DEF PubRecords
    <3>3. pub' = [pub EXCEPT ![p] = r] BY <2>4
    <3> HIDE DEF r
    <3>4. Fits(r, p) BY <1>2, <3>2 DEF Fits, OwnRow, LastRead, Written
    <3> QED BY <2>1, <2>2, <2>4, <3>2, <3>3, <3>4, RemovesAndGoes
  <2>5. CASE Loses(loss, {p}) /\ Ends(p, "failed")
    <3>1. Ended("failed") \in PubRecords /\ Fits(Ended("failed"), p) BY EndedFits
    <3>2. pub' = [pub EXCEPT ![p] = Ended("failed")] BY <2>5 DEF Ends
    <3> QED BY <2>1, <2>2, <2>5, <3>1, <3>2, RemovesAndGoes
  <2> QED BY <2>1, <2>3, <2>4, <2>5
<1> QED BY <1>4, <1>5, <1>6, <1>7 DEF Removing
------------------------------------------------------------------------------
(* The row and the file of a publication.                                   *)

LEMMA MishapKeepsRest ==
    ASSUME RestTyped, Mishap, UNCHANGED <<offer, looker, eraser>> PROVE RestTyped'
<1>1. LifeTyped' BY DEF RestTyped, LifeTyped, Mishap
<1> QED BY <1>1 DEF RestTyped, EraserTyped

LEMMA StageSteps == ASSUME Complete, NEW p \in Publishers, Stage(p) PROVE Complete'
<1>1. PubFits /\ StoreTyped /\ pub[p] \in PubRecords BY DEF Complete, StoreComplete, PubFits
<1>2. rows[p] # "ready" BY <1>1, NotReady DEF Stage, Working, Places
<1>3. RestTyped'
  <2>1. UNCHANGED Rest BY DEF Stage, Rest
  <2> QED BY <2>1, RestStays DEF Complete
<1> DEFINE there == {a \in OfKey(p) : rows[a] # "none"}
           ready == {a \in there : rows[a] = "ready"}
<1>4. there \in SUBSET Publishers /\ ready \in SUBSET Publishers BY DEF OfKey
<1>5. \/ UNCHANGED rows /\ Ends(p, "failed")
      \/ UNCHANGED rows /\ ready # {} /\ pub' = [pub EXCEPT ![p] = Holding(@, "snapping", ready)]
      \/ UNCHANGED rows /\ pub' = [pub EXCEPT ![p] = Holding(@, "clearing", there)]
      \/ /\ rows' = [rows EXCEPT ![p] = "staging"] /\ source # "gone" /\ Goes(p, "reclaiming")
  BY <1>1 DEF Stage, StoreTyped
<1>6. UNCHANGED <<files, source>> BY DEF Stage
<1> HIDE DEF there, ready
<1>7. CASE UNCHANGED rows /\ Ends(p, "failed")
  <2>1. PubFits' BY <1>1, <1>6, <1>7, EndsThere
  <2>2. StoreComplete' BY <1>6, <1>7, StoreStays DEF Complete
  <2> QED BY <1>3, <2>1, <2>2 DEF Complete
<1>8. CASE UNCHANGED rows /\ ready # {}
           /\ pub' = [pub EXCEPT ![p] = Holding(@, "snapping", ready)]
  <2> DEFINE r == Holding(pub[p], "snapping", ready)
  <2>1. "snapping" \in Places BY DEF Places
  <2>2. r \in PubRecords /\ r.pc = "snapping" /\ r.seen = ready
    BY <1>1, <1>4, <2>1, HoldingFacts
  <2>3. pub' = [pub EXCEPT ![p] = r] BY <1>8
  <2> HIDE DEF r
  <2>4. Fits(r, p) BY <1>2, <1>8, <2>2 DEF Fits, OwnRow, LastRead, Written
  <2>5. PubFits' BY <1>1, <1>6, <1>8, <2>2, <2>3, <2>4, PubSteps
  <2>6. StoreComplete' BY <1>6, <1>8, StoreStays DEF Complete
  <2> QED BY <1>3, <2>5, <2>6 DEF Complete
<1>9. CASE UNCHANGED rows /\ pub' = [pub EXCEPT ![p] = Holding(@, "clearing", there)]
  <2> DEFINE r == Holding(pub[p], "clearing", there)
  <2>1. "clearing" \in Places BY DEF Places
  <2>2. r \in PubRecords /\ r.pc = "clearing" BY <1>1, <1>4, <2>1, HoldingFacts
  <2>3. pub' = [pub EXCEPT ![p] = r] BY <1>9
  <2> HIDE DEF r
  <2>4. Fits(r, p) BY <1>2, <2>2 DEF Fits, OwnRow, LastRead, Written
  <2>5. PubFits' BY <1>1, <1>6, <1>9, <2>2, <2>3, <2>4, PubSteps
  <2>6. StoreComplete' BY <1>6, <1>9, StoreStays DEF Complete
  <2> QED BY <1>3, <2>5, <2>6 DEF Complete
<1>10. CASE rows' = [rows EXCEPT ![p] = "staging"] /\ source # "gone" /\ Goes(p, "reclaiming")
  <2>1. StoreComplete'
    BY <1>6, <1>10 DEF Complete, StoreComplete, StoreTyped, RowsHaveSources, ReadyHaveFiles
  <2> DEFINE r == At(pub[p], "reclaiming")
  <2>2. "reclaiming" \in Places BY DEF Places
  <2>3. r \in PubRecords /\ r.pc = "reclaiming" BY <1>1, <2>2, AtFacts
  <2>4. pub' = [pub EXCEPT ![p] = r] BY <1>10 DEF Goes
  <2> HIDE DEF r
  <2>5. ASSUME NEW q \in Publishers PROVE Fits(pub[q], q)'
    <3>1. CASE q = p
      <4>1. pub'[q] = r /\ rows'[q] = "staging" BY <1>1, <1>10, <2>4, <3>1 DEF PubFits, StoreTyped
      <4> QED BY <2>3, <4>1 DEF Fits, OwnRow, LastRead, Written
    <3>2. CASE q # p
      <4>1. pub'[q] = pub[q] /\ rows'[q] = rows[q] /\ files'[q] = files[q]
        BY <1>1, <1>6, <1>10, <2>4, <3>2 DEF PubFits, StoreTyped
      <4> QED BY <1>1, <4>1 DEF PubFits, Fits, OwnRow, LastRead, Written
    <3> QED BY <3>1, <3>2
  <2>6. pub' \in [Publishers -> PubRecords] BY <1>1, <2>3, <2>4 DEF PubFits
  <2> QED BY <1>3, <2>1, <2>5, <2>6 DEF Complete, PubFits
<1> QED BY <1>5, <1>7, <1>8, <1>9, <1>10

\* The file worker's steps have in common what FileSteps asks for.
LEMMA FileGoes ==
    ASSUME Complete, NEW p \in Publishers, NEW x \in Working \ {"snapping"},
           NEW f \in {"none", "temp", "final"}, Goes(p, x), rows[p] # "ready",
           files' = [files EXCEPT ![p] = f], UNCHANGED <<rows, source>>,
           x \in {"renamed", "synced", "finalizing"} => f = "final", RestTyped'
    PROVE  Complete'
<1>1. x \in Places /\ pub[p] \in PubRecords BY DEF Complete, PubFits, Working
<1>2. At(pub[p], x) \in PubRecords /\ At(pub[p], x).pc = x BY <1>1, AtFacts
<1>3. pub' = [pub EXCEPT ![p] = At(pub[p], x)] BY DEF Goes
<1>4. StoreComplete' /\ PubFits' BY <1>2, <1>3, FileSteps DEF Complete
<1> QED BY <1>4 DEF Complete

Filing(p) == WriteTemp(p) \/ Rename(p) \/ AfterRename(p) \/ FileFails(p)

LEMMA FilingSteps == ASSUME Complete, NEW p \in Publishers, Filing(p) PROVE Complete'
<1>1. PubFits /\ StoreTyped /\ pub[p] \in PubRecords BY DEF Complete, StoreComplete, PubFits
<1>2. rows[p] # "ready"
  BY <1>1, NotReady DEF Filing, WriteTemp, Rename, AfterRename, FileFails, Working, Places
<1>3. UNCHANGED <<rows, source>>
  BY DEF Filing, WriteTemp, Rename, AfterRename, FileFails
<1>4. RestTyped'
  <2>1. CASE FileFails(p) BY <2>1, MishapKeepsRest DEF FileFails, Complete
  <2>2. CASE ~FileFails(p)
    <3>1. UNCHANGED Rest BY <2>2 DEF Filing, WriteTemp, Rename, AfterRename, Rest
    <3> QED BY <3>1, RestStays DEF Complete
  <2> QED BY <2>1, <2>2
<1>5. {"undoing", "temp", "renamed", "synced", "finalizing"} \subseteq Working \ {"snapping"}
  BY DEF Working, Places
<1>6. ASSUME Goes(p, "undoing"), UNCHANGED files PROVE Complete'
  <2>1. "undoing" \in Plain BY DEF Plain, Working, Places
  <2>2. PubFits' BY <1>1, <1>2, <1>3, <1>6, <2>1, GoesOn
  <2>3. StoreComplete' BY <1>3, <1>6, StoreStays DEF Complete
  <2> QED BY <1>4, <2>2, <2>3 DEF Complete
<1>7. ASSUME Goes(p, "undoing"), NEW f \in {"none", "temp"}, files' = [files EXCEPT ![p] = f]
      PROVE  Complete'
  BY <1>2, <1>3, <1>4, <1>5, <1>7, FileGoes
<1>8. CASE WriteTemp(p)
  <2>1. CASE Goes(p, "temp") /\ files' = [files EXCEPT ![p] = "temp"]
    BY <1>2, <1>3, <1>4, <1>5, <2>1, FileGoes
  <2> QED BY <1>6, <1>8, <2>1 DEF WriteTemp
<1>9. CASE Rename(p)
  <2>1. CASE Goes(p, "renamed") /\ files' = [files EXCEPT ![p] = "final"]
    BY <1>2, <1>3, <1>4, <1>5, <2>1, FileGoes
  <2> QED BY <1>7, <1>9, <2>1 DEF Rename
<1>10. CASE AfterRename(p)
  <2>1. CASE UNCHANGED files /\ (Goes(p, "synced") \/ Goes(p, "finalizing"))
    <3>1. PICK x \in {"synced", "finalizing"} : Goes(p, x) BY <2>1
    <3>2. x \in Places BY <3>1 DEF Places
    <3>3. At(pub[p], x) \in PubRecords /\ At(pub[p], x).pc = x BY <1>1, <3>2, AtFacts
    <3>4. pub[p].pc \in {"renamed", "synced"} /\ Fits(pub[p], p)
      BY <1>1, <1>10 DEF AfterRename, PubFits
    <3>5. Fits(At(pub[p], x), p)
      BY <1>2, <3>1, <3>3, <3>4 DEF Fits, OwnRow, LastRead, Written
    <3>6. pub' = [pub EXCEPT ![p] = At(pub[p], x)] BY <3>1 DEF Goes
    <3>7. PubFits' BY <1>1, <1>3, <2>1, <3>3, <3>5, <3>6, PubSteps
    <3>8. StoreComplete' BY <1>3, <2>1, StoreStays DEF Complete
    <3> QED BY <1>4, <3>7, <3>8 DEF Complete
  <2> QED BY <1>7, <1>10, <2>1 DEF AfterRename
<1>11. CASE FileFails(p)
  <2>1. Goes(p, "undoing") /\ (UNCHANGED files \/ files' = [files EXCEPT ![p] = "temp"])
    BY <1>11 DEF FileFails
  <2> QED BY <1>6, <1>7, <2>1
<1> QED BY <1>8, <1>9, <1>10, <1>11 DEF Filing

LEMMA DroppingShrinks ==
    ASSUME StoreComplete, NEW own \in SUBSET Publishers, rows' = Dropping(rows, own),
           files' = Unfiled(own), source' = source
    PROVE  Shrinks
<1>1. StoreTyped' BY DEF StoreComplete, StoreTyped, Dropping, Unfiled
<1>2. ASSUME NEW a \in Publishers, rows'[a] # "none"
      PROVE  rows'[a] = rows[a] /\ files'[a] = files[a] /\ source' # "gone"
  <2>1. a \notin own /\ rows'[a] = rows[a] BY <1>2 DEF Dropping
  <2>2. files'[a] = files[a] BY <2>1 DEF Unfiled, Dropping
  <2>3. source' # "gone" BY <1>2, <2>1 DEF StoreComplete, RowsHaveSources
  <2> QED BY <2>1, <2>2, <2>3
<1> QED BY <1>1, <1>2 DEF Shrinks

LEMMA ReclaimFailsSteps ==
    ASSUME Complete, NEW p \in Publishers, ReclaimFails(p) PROVE Complete'
<1>1. PubFits /\ StoreTyped BY DEF Complete, StoreComplete
<1>2. Ended("failed") \in PubRecords /\ Fits(Ended("failed"), p) BY EndedFits
<1>3. pub' = [pub EXCEPT ![p] = Ended("failed")] /\ UNCHANGED source
  BY DEF ReclaimFails, Ends
<1>4. RestTyped' BY MishapKeepsRest DEF ReclaimFails, Complete
<1>5. CASE rows' = Dropping(rows, {p}) /\ files' = Unfiled({p})
  <2>1. Shrinks BY <1>3, <1>5, DroppingShrinks DEF Complete
  <2>2. StoreComplete' BY <2>1, StoreShrinks DEF Complete
  <2>3. PubFits' BY <1>1, <1>2, <1>3, <2>1, PubStepsShrinking
  <2> QED BY <1>4, <2>2, <2>3 DEF Complete
<1>6. CASE UNCHANGED <<rows, files>>
  <2>1. StoreComplete' BY <1>3, <1>6, StoreStays DEF Complete
  <2>2. PubFits' BY <1>1, <1>2, <1>3, <1>6, PubSteps
  <2> QED BY <1>4, <2>1, <2>2 DEF Complete
<1> QED BY <1>5, <1>6 DEF ReclaimFails

LEMMA FinalizeSteps == ASSUME Complete, NEW p \in Publishers, Finalize(p) PROVE Complete'
<1>1. /\ PubFits /\ StoreComplete /\ StoreTyped /\ RestTyped
      /\ pub[p] \in PubRecords /\ Fits(pub[p], p)
  BY DEF Complete, StoreComplete, PubFits
<1>2. PICK loss \in {NoLoss} \union Losses({p}) :
        \/ \E own \in {{}, {p}} : Loses(loss, own) /\ Ends(p, "failed")
        \/ /\ rows[p] = "staging" /\ p \notin loss.gone /\ loss.source # "gone"
           /\ rows' = [Dropping(rows, loss.gone) EXCEPT ![p] = "ready"]
           /\ files' = Unfiled(loss.gone) /\ source' = loss.source
           /\ life' = IF loss = NoLoss THEN life ELSE [life EXCEPT !.evictions = @ + 1]
           /\ Goes(p, "publishing")
  BY DEF Finalize
<1>3. UNCHANGED <<offer, eraser, looker>> /\ pub[p].pc = "finalizing" BY DEF Finalize
<1>4. ASSUME NEW own \in {{}, {p}}, Loses(loss, own), Ends(p, "failed") PROVE Complete'
  <2>1. Ended("failed") \in PubRecords /\ Fits(Ended("failed"), p) BY EndedFits
  <2>2. pub' = [pub EXCEPT ![p] = Ended("failed")] BY <1>4 DEF Ends
  <2>3. own \in SUBSET Publishers BY <1>4
  <2> QED BY <1>2, <1>3, <1>4, <2>1, <2>2, <2>3, RemovesAndGoes
<1>5. ASSUME /\ rows[p] = "staging" /\ p \notin loss.gone /\ loss.source # "gone"
             /\ rows' = [Dropping(rows, loss.gone) EXCEPT ![p] = "ready"]
             /\ files' = Unfiled(loss.gone) /\ source' = loss.source
             /\ life' = IF loss = NoLoss THEN life ELSE [life EXCEPT !.evictions = @ + 1]
             /\ Goes(p, "publishing")
      PROVE  Complete'
  <2>1. loss.gone \in SUBSET Publishers /\ loss.source = source
    BY <1>2, <1>5, LossesAreConsistent
  <2>2. /\ rows' \in [Publishers -> {"none", "staging", "ready"}]
        /\ files' \in [Publishers -> {"none", "temp", "final", "damaged"}]
    BY <1>1, <1>5, <2>1 DEF StoreTyped, Dropping, Unfiled
  <2>3. rows'[p] = "ready" /\ files'[p] = "final"
    <3>1. files[p] = "final" BY <1>1, <1>3, <1>5 DEF Fits, Written
    <3> QED BY <1>5, <3>1 DEF Dropping, Unfiled
  <2>4. ASSUME NEW q \in Publishers, q # p, rows'[q] # "none"
        PROVE  rows'[q] = rows[q] /\ files'[q] = files[q]
    BY <1>5, <2>4 DEF Dropping, Unfiled
  <2>5. StoreComplete'
    <3>1. StoreTyped' BY <1>1, <1>5, <2>1, <2>2 DEF StoreTyped
    <3>2. RowsHaveSources' BY <1>5 DEF RowsHaveSources
    <3>3. ReadyHaveFiles'
      BY <1>1, <2>3, <2>4 DEF ReadyHaveFiles, StoreComplete
    <3> QED BY <3>1, <3>2, <3>3 DEF StoreComplete
  <2>6. RestTyped'
    <3>1. LifeTyped' BY <1>1, <1>5, LifeCounts DEF RestTyped
    <3> QED BY <1>1, <1>3, <3>1 DEF RestTyped, EraserTyped
  <2> DEFINE r == At(pub[p], "publishing")
  <2>7. "publishing" \in Places BY DEF Places
  <2>8. r \in PubRecords /\ r.pc = "publishing" BY <1>1, <2>7, AtFacts
  <2>9. pub' = [pub EXCEPT ![p] = r] BY <1>5 DEF Goes
  <2> HIDE DEF r
  <2>10. ASSUME NEW q \in Publishers PROVE Fits(pub[q], q)'
    <3>1. CASE q = p
      <4>1. pub'[q] = r BY <1>1, <2>9, <3>1 DEF PubFits
      <4> QED BY <2>3, <2>8, <3>1, <4>1 DEF Fits, OwnRow, LastRead, Written
    <3>2. CASE q # p
      <4>1. pub'[q] = pub[q] BY <1>1, <2>9, <3>2 DEF PubFits
      <4>2. rows'[q] = "none" \/ (rows'[q] = rows[q] /\ files'[q] = files[q]) BY <2>4, <3>2
      <4> QED BY <1>1, <4>1, <4>2 DEF PubFits, Fits, OwnRow, LastRead, Written
    <3> QED BY <3>1, <3>2
  <2>11. pub' \in [Publishers -> PubRecords] BY <1>1, <2>8, <2>9 DEF PubFits
  <2> QED BY <2>5, <2>6, <2>10, <2>11 DEF Complete, PubFits
<1> QED BY <1>2, <1>4, <1>5

LEMMA WithdrawSteps == ASSUME Complete, NEW p \in Publishers, Withdraw(p) PROVE Complete'
<1> DEFINE r == [pub[p] EXCEPT !.stopped = TRUE]
<1>1. PubFits /\ pub[p] \in PubRecords /\ Fits(pub[p], p) BY DEF Complete, PubFits
<1>2. r \in PubRecords /\ r.pc = pub[p].pc /\ r.seen = pub[p].seen /\ r.last = pub[p].last
  BY <1>1 DEF PubRecords
<1>3. pub' = [pub EXCEPT ![p] = r] /\ UNCHANGED <<rows, files, source>> BY DEF Withdraw
<1> HIDE DEF r
<1>4. Fits(r, p) BY <1>1, <1>2 DEF Fits, OwnRow, LastRead, Written
<1>5. PubFits' BY <1>1, <1>2, <1>3, <1>4, PubSteps
<1>6. StoreComplete' BY <1>3, StoreStays DEF Complete
<1>7. RestTyped'
  <2>1. LifeTyped' BY DEF Withdraw, Complete, RestTyped, LifeTyped
  <2> QED BY <2>1 DEF Withdraw, Complete, RestTyped, EraserTyped
<1> QED BY <1>5, <1>6, <1>7 DEF Complete

LEMMA DamageSteps == ASSUME Complete, NEW a \in Publishers, DamageFile(a) PROVE Complete'
<1>1. StoreComplete'
  BY DEF DamageFile, Complete, StoreComplete, StoreTyped, RowsHaveSources, ReadyHaveFiles
<1>2. RestTyped' BY MishapKeepsRest DEF DamageFile, Complete
<1>3. PubFits'
  BY DEF DamageFile, Complete, StoreComplete, StoreTyped, PubFits, Fits, OwnRow, LastRead,
         Written
<1> QED BY <1>1, <1>2, <1>3 DEF Complete
------------------------------------------------------------------------------
(* The reader, the eraser, a crash and the recovery.                        *)

LookingOn(seen) == Look(seen) \/ LookReads \/ LookAnswers

LEMMA LookSteps ==
    ASSUME Complete, NEW seen \in SUBSET Publishers, LookingOn(seen) PROVE Complete'
<1>1. UNCHANGED <<offer, pub, rows, files, source, eraser>>
  BY DEF LookingOn, Look, LookReads, LookAnswers
<1>2. StoreComplete' BY <1>1, StoreStays DEF Complete
<1>3. PubFits' BY <1>1, PubStays DEF Complete, StoreComplete
<1>4. LifeTyped'
  BY DEF LookingOn, Look, LookReads, LookAnswers, Complete, RestTyped, LifeTyped
<1>5. looker \in LookRecords BY DEF Complete, RestTyped
<1>6. looker' \in LookRecords
  <2>1. CASE Look(seen)
    <3>1. source \in {"open", "sealed"} BY <2>1 DEF Look, Complete, StoreComplete, StoreTyped
    <3> QED BY <2>1, <3>1 DEF Look, NoLook, LookRecords
  <2>2. CASE LookReads BY <1>5, <2>2 DEF LookReads, WhatIsRead, LookRecords
  <2>3. CASE LookAnswers
    <3> DEFINE answer == Recheck(looker.seen, looker.held, looker.read)
    <3>1. answer \in {"missing", "none", "lost", "good", "corrupt"}
      BY <1>5 DEF Recheck, LookRecords
    <3> HIDE DEF answer
    <3>2. looker' = IF answer = "corrupt" THEN [looker EXCEPT !.pc = "invalidating"]
                    ELSE [NoLook EXCEPT !.outcome = answer]
      BY <2>3 DEF LookAnswers, answer
    <3> QED BY <1>5, <3>1, <3>2 DEF NoLook, LookRecords
  <2> QED BY <2>1, <2>2, <2>3 DEF LookingOn
<1>7. RestTyped' BY <1>1, <1>4, <1>6 DEF Complete, RestTyped, EraserTyped
<1> QED BY <1>2, <1>3, <1>7 DEF Complete

LEMMA SealSteps == ASSUME Complete, Seal PROVE Complete'
<1>1. Shrinks BY DEF Seal, Complete, StoreComplete, StoreTyped, Shrinks
<1>2. StoreComplete' BY <1>1, StoreShrinks DEF Complete
<1>3. PubFits' BY <1>1, PubStays DEF Seal, Complete, StoreComplete
<1>4. UNCHANGED Rest BY DEF Seal, Rest
<1>5. RestTyped' BY <1>4, RestStays DEF Complete
<1> QED BY <1>2, <1>3, <1>5 DEF Complete

Erasing == MarkDeleted \/ EraserProceeds

LEMMA EraserSteps == ASSUME Complete, Erasing PROVE Complete'
<1>1. EraserTyped'
  BY DEF Erasing, EraserProceeds, MarkDeleted, Enable, LookForGuards, Await, Wake, Erase,
         Guards, Complete, RestTyped, EraserTyped
<1>2. UNCHANGED <<offer, pub, looker, life>>
  BY DEF Erasing, EraserProceeds, MarkDeleted, Enable, LookForGuards, Await, Wake, Erase
<1>3. RestTyped' BY <1>1, <1>2 DEF Complete, RestTyped, LifeTyped
<1>4. Shrinks \/ UNCHANGED <<rows, files, source>>
  <2>1. CASE Erase
    <3>1. StoreTyped' BY <2>1 DEF Erase, Complete, StoreComplete, StoreTyped, Dropping, Unfiled
    <3>2. \A a \in Publishers : rows'[a] = "none" BY <2>1 DEF Erase, Dropping, Rows
    <3> QED BY <3>1, <3>2 DEF Shrinks
  <2> QED BY <2>1 DEF Erasing, EraserProceeds, MarkDeleted, Enable, LookForGuards, Await, Wake
<1>5. StoreComplete' BY <1>4, StoreShrinks, StoreStays DEF Complete
<1>6. PubFits' BY <1>2, <1>4, PubStays DEF Complete, StoreComplete
<1> QED BY <1>3, <1>5, <1>6 DEF Complete

LEMMA CrashSteps == ASSUME Complete, Crash PROVE Complete' /\ ~life'.up
<1>1. StoreComplete' BY StoreStays DEF Crash, Complete
<1>2. LifeTyped' /\ ~life'.up
  <2> DEFINE n == life.restarts + 1
  <2>1. LifeTyped /\ n \in Nat BY DEF Complete, RestTyped, LifeTyped
  <2>2. life' = [life EXCEPT !.up = FALSE, !.restarts = n] BY DEF Crash
  <2> HIDE DEF n
  <2>3. life'.up = FALSE BY <2>1, <2>2 DEF LifeTyped
  <2>4. LifeTyped' BY <2>1, <2>2 DEF LifeTyped
  <2> QED BY <2>3, <2>4
<1>3. RestTyped'
  BY <1>2 DEF Crash, Complete, RestTyped, EraserTyped, NoLook, NoEraser, LookRecords
<1>4. Ended("lost") \in PubRecords /\ Ended("lost").pc = "over" BY EndedFacts
<1>5. pub' \in [Publishers -> PubRecords] BY <1>4 DEF Crash, Complete, PubFits
<1>6. ASSUME NEW q \in Publishers PROVE Fits(pub[q], q)'
  <2>1. pub'[q] = Ended("lost") \/ pub'[q] = pub[q] BY DEF Crash
  <2>2. UNCHANGED <<rows, files>> BY DEF Crash
  <2> QED BY <1>4, <2>1, <2>2 DEF Complete, PubFits, Fits, OwnRow, LastRead, Written
<1> QED BY <1>1, <1>2, <1>3, <1>5, <1>6 DEF Complete, PubFits

\* A crash ends every publication that was under way.
DownIsQuiet == ~life.up => \A p \in Publishers : pub[p].pc \in {"new", "over"}

LEMMA CrashQuiets == ASSUME Complete, Crash PROVE DownIsQuiet'
<1>1. Ended("lost").pc = "over" BY EndedFacts
<1>2. ASSUME NEW q \in Publishers PROVE pub'[q].pc \in {"new", "over"}
  <2>1. pub'[q] = IF Guarded(q) THEN Ended("lost") ELSE pub[q] BY DEF Crash
  <2>2. CASE Guarded(q) BY <1>1, <2>1, <2>2
  <2>3. CASE ~Guarded(q) BY <2>1, <2>3 DEF Guarded
  <2> QED BY <2>2, <2>3
<1> QED BY <1>2 DEF DownIsQuiet

LEMMA RecoverSteps == ASSUME Complete, DownIsQuiet, Recover PROVE Complete' /\ life'.up
<1>1. LifeTyped' /\ life'.up BY DEF Recover, Complete, RestTyped, LifeTyped
<1>2. RestTyped' BY <1>1 DEF Recover, Complete, RestTyped, EraserTyped
<1>3. ASSUME NEW a \in Publishers
      PROVE  /\ rows'[a] = "none" \/ (rows'[a] = "ready" /\ files'[a] = "final")
             /\ rows'[a] # "none" => rows[a] # "none"
  BY DEF Recover, Rows
<1>4. StoreComplete'
  <2>1. /\ rows' \in [Publishers -> {"none", "staging", "ready"}]
        /\ files' \in [Publishers -> {"none", "temp", "final", "damaged"}]
    BY DEF Recover
  <2>2. source' \in {"open", "sealed", "gone"} /\ (source # "gone" => source' # "gone")
    BY DEF Recover, Complete, StoreComplete, StoreTyped
  <2> QED BY <1>3, <2>1, <2>2 DEF Complete, StoreComplete, StoreTyped, RowsHaveSources,
                                 ReadyHaveFiles
<1>5. ASSUME NEW q \in Publishers PROVE Fits(pub[q], q)'
  <2>1. pub'[q] = pub[q] /\ pub[q].pc \in {"new", "over"} /\ Fits(pub[q], q)
    BY DEF Recover, DownIsQuiet, Complete, PubFits
  <2> QED BY <1>3, <2>1 DEF Fits, OwnRow, LastRead, Written
<1>6. pub' \in [Publishers -> PubRecords] BY DEF Recover, Complete, PubFits
<1> QED BY <1>1, <1>2, <1>4, <1>5, <1>6 DEF Complete, PubFits
------------------------------------------------------------------------------
(* Complete is inductive.                                                   *)

IsComplete == Complete /\ DownIsQuiet

LEMMA InitComplete == ASSUME PublicationInit PROVE IsComplete
<1>1. StoreComplete
  BY DEF PublicationInit, StoreComplete, StoreTyped, RowsHaveSources, ReadyHaveFiles
<1>2. RestTyped
  BY DEF PublicationInit, RestTyped, LifeTyped, EraserTyped, LookRecords, NoLook, NoEraser
<1>3. Nobody \in PubRecords /\ Nobody.pc = "new" BY DEF Nobody, PubRecords, Places
<1>4. \A p \in Publishers : pub[p] = Nobody /\ rows[p] = "none" BY DEF PublicationInit
<1>5. PubFits
  <2>1. pub \in [Publishers -> PubRecords] BY <1>3 DEF PublicationInit
  <2> QED BY <1>3, <1>4, <2>1 DEF PubFits, Fits, OwnRow, LastRead, Written
<1>6. DownIsQuiet BY DEF PublicationInit, DownIsQuiet
<1> QED BY <1>1, <1>2, <1>5, <1>6 DEF IsComplete, Complete

\* One action of the running store.
Runs ==
    \/ \E p \in Publishers :
          \/ Quiet(p) \/ Removing(p) \/ Stage(p) \/ Filing(p) \/ ReclaimFails(p)
          \/ Finalize(p) \/ Withdraw(p) \/ DamageFile(p) \/ LookingOn({p})
    \/ LookingOn({}) \/ LookInvalidates \/ Evict \/ Seal \/ Erasing

LEMMA NextRuns == PublicationNext <=> Runs \/ Crash \/ Recover
BY DEF PublicationNext, Runs, PublisherProceeds, Quiet, Removing, Filing, LookingOn,
       LookerProceeds, Erasing

\* The ways in which a step of the running store counts.
Counted ==
    /\ life.up
    /\ \/ UNCHANGED life
       \/ life' = [life EXCEPT !.evictions = @ + 1] \/ life' = [life EXCEPT !.mishaps = @ + 1]
       \/ life' = [life EXCEPT !.withdrawals = @ + 1] \/ life' = [life EXCEPT !.looks = @ + 1]

LEMMA RunsAreCounted == ASSUME Runs PROVE Counted
<1>1. ASSUME NEW p \in Publishers, Quiet(p) PROVE Counted
  BY <1>1 DEF Counted, Quiet, Begin, Lock, LookUp, CheckSources, ReadSnapshot,
              RecheckArtifact, RecheckSources, SnapExisting, SnapPublished
<1>2. ASSUME NEW p \in Publishers, Removing(p) PROVE Counted
  BY <1>2 DEF Counted, Removing, InvalidateFound, ClearExisting, Undo, Reclaim, Loses
<1>3. ASSUME NEW p \in Publishers, Stage(p) \/ Filing(p) PROVE Counted
  BY <1>3 DEF Counted, Stage, Filing, WriteTemp, Rename, AfterRename, FileFails, Mishap
<1>4. ASSUME NEW p \in Publishers, ReclaimFails(p) \/ Withdraw(p) \/ DamageFile(p)
      PROVE  Counted
  BY <1>4 DEF Counted, ReclaimFails, Withdraw, DamageFile, Mishap
<1>5. ASSUME NEW p \in Publishers, Finalize(p) PROVE Counted
  BY <1>5 DEF Counted, Finalize, Loses
<1>6. ASSUME NEW seen, LookingOn(seen) PROVE Counted
  BY <1>6 DEF Counted, LookingOn, Look, LookReads, LookAnswers
<1>7. CASE LookInvalidates \/ Evict
  BY <1>7 DEF Counted, LookInvalidates, Evict, Loses
<1>8. CASE Seal \/ Erasing
  BY <1>8 DEF Counted, Seal, Erasing, MarkDeleted, EraserProceeds, Enable, LookForGuards,
              Await, Wake, Erase
<1> QED BY <1>1, <1>2, <1>3, <1>4, <1>5, <1>6, <1>7, <1>8 DEF Runs

LEMMA RunningStaysUp == ASSUME Complete, Runs PROVE life'.up
BY RunsAreCounted DEF Counted, Complete, RestTyped, LifeTyped

LEMMA RunsSteps == ASSUME Complete, Runs PROVE Complete'
<1>1. ASSUME NEW p \in Publishers,
             \/ Quiet(p) \/ Removing(p) \/ Stage(p) \/ Filing(p) \/ ReclaimFails(p)
             \/ Finalize(p) \/ Withdraw(p) \/ DamageFile(p) \/ LookingOn({p})
      PROVE  Complete'
  BY <1>1, QuietSteps, RemovingSteps, StageSteps, FilingSteps, ReclaimFailsSteps,
     FinalizeSteps, WithdrawSteps, DamageSteps, LookSteps
<1>2. CASE LookingOn({}) \/ LookInvalidates \/ Evict \/ Seal \/ Erasing
  BY <1>2, LookSteps, LookInvalidatesSteps, EvictSteps, SealSteps, EraserSteps
<1> QED BY <1>1, <1>2 DEF Runs

LEMMA NextComplete ==
    ASSUME IsComplete, [PublicationNext]_publicationVars PROVE IsComplete'
<1>1. CASE Runs
  BY <1>1, RunsSteps, RunningStaysUp DEF IsComplete, DownIsQuiet
<1>2. CASE Crash BY <1>2, CrashSteps, CrashQuiets DEF IsComplete
<1>3. CASE Recover BY <1>3, RecoverSteps DEF IsComplete, DownIsQuiet
<1>4. CASE UNCHANGED publicationVars
  <2>1. UNCHANGED <<pub, rows, files, source>> /\ UNCHANGED Rest
    BY <1>4 DEF publicationVars, Rest
  <2>2. StoreComplete' BY <2>1, StoreStays DEF IsComplete, Complete
  <2>3. RestTyped' BY <2>1, RestStays DEF IsComplete, Complete
  <2>4. PubFits' BY <2>1, PubStays DEF IsComplete, Complete, StoreComplete
  <2>5. DownIsQuiet' BY <2>1 DEF IsComplete, DownIsQuiet, Rest
  <2> QED BY <2>2, <2>3, <2>4, <2>5 DEF IsComplete, Complete
<1> QED BY <1>1, <1>2, <1>3, <1>4, NextRuns

LEMMA AlwaysComplete == PublicationSpec => []IsComplete
<1>1. PublicationInit => IsComplete BY InitComplete
<1>2. IsComplete /\ [PublicationNext]_publicationVars => IsComplete' BY NextComplete
<1> QED BY <1>1, <1>2, PTL DEF PublicationSpec
------------------------------------------------------------------------------
\* The records of publishers, reader, eraser and store keep their types, in every step of the
\* publications of recording.rs and artifacts/files.rs.
THEOREM PublicationIsTyped == PublicationSpec => []PublicationTypeOK
<1>1. IsComplete => PublicationTypeOK
  BY DEF IsComplete, Complete, StoreComplete, RestTyped, PubFits, PublicationTypeOK
<1> QED BY <1>1, AlwaysComplete, PTL

\* finalize_artifact makes a row ready after its file was renamed into place and never over a
\* source or a row that went meanwhile: a ready row has its file and its source frames.
THEOREM ReadyStayComplete == PublicationSpec => []ReadyArtifactsAreComplete
<1>1. IsComplete => ReadyArtifactsAreComplete
  BY DEF IsComplete, Complete, StoreComplete, RowsHaveSources, ReadyHaveFiles,
         ReadyArtifactsAreComplete
<1> QED BY <1>1, AlwaysComplete, PTL

\* What an answer was checked against is still so when it is given.
LEMMA RecheckHolds ==
    ASSUME Complete, NEW seen \in SUBSET Publishers, NEW held, NEW read,
           Recheck(seen, held, read) = "good"
    PROVE  /\ ~Deleted /\ source = held
           /\ \A a \in seen : rows[a] = "ready" /\ files[a] # "none"
           /\ seen # {} => source # "gone"
BY DEF Recheck, Complete, StoreComplete, ReadyHaveFiles, RowsHaveSources

LookCurrent ==
    looker.outcome # "good" /\ looker'.outcome = "good"
      => /\ ~Deleted /\ source # "gone"
         /\ \A a \in looker.seen : rows[a] = "ready" /\ files[a] # "none"

PubCurrent(p) ==
    pub[p].outcome # "good" /\ pub'[p].outcome = "good"
      => /\ ~Deleted /\ source # "gone"
         /\ \A a \in pub[p].seen : rows[a] = "ready" /\ files[a] # "none"

LEMMA LookAnswersCurrently ==
    ASSUME Complete, [PublicationNext]_publicationVars PROVE LookCurrent
<1>1. CASE LookAnswers
  <2> DEFINE answer == Recheck(looker.seen, looker.held, looker.read)
  <2>1. CASE answer = "good"
    <3>1. looker.seen \in SUBSET Publishers /\ looker.held # "gone"
      BY DEF Complete, RestTyped, LookRecords
    <3> QED BY <2>1, <3>1, RecheckHolds DEF LookCurrent
  <2>2. CASE answer # "good"
    <3>1. looker' = IF answer = "corrupt" THEN [looker EXCEPT !.pc = "invalidating"]
                    ELSE [NoLook EXCEPT !.outcome = answer]
      BY <1>1 DEF LookAnswers
    <3>2. looker \in LookRecords BY DEF Complete, RestTyped
    <3> HIDE DEF answer
    <3>3. looker'.outcome \in {looker.outcome, answer}
      BY <3>1, <3>2 DEF NoLook, LookRecords
    <3> QED BY <2>2, <3>3 DEF LookCurrent
  <2> QED BY <2>1, <2>2
<1>2. CASE ~LookAnswers
  <2>1. looker \in LookRecords BY DEF Complete, RestTyped
  <2> DEFINE quiet == looker'.outcome \in {looker.outcome, "none", "invalidated"}
  <2> SUFFICES quiet BY DEF LookCurrent
  <2>2. CASE UNCHANGED looker BY <2>2
  <2>3. ASSUME NEW seen, Look(seen) PROVE quiet BY <2>3 DEF Look, NoLook
  <2>4. CASE LookReads BY <2>1, <2>4 DEF LookReads, LookRecords
  <2>5. CASE LookInvalidates BY <2>5 DEF LookInvalidates, NoLook
  <2>6. CASE Crash BY <2>6 DEF Crash, NoLook
  <2>7. CASE Recover \/ Evict \/ Seal \/ Erasing \/ UNCHANGED publicationVars
    BY <2>7 DEF Recover, Evict, Seal, Erasing, MarkDeleted, EraserProceeds, Enable,
                LookForGuards, Await, Wake, Erase, publicationVars
  <2>8. ASSUME NEW p \in Publishers,
               \/ Quiet(p) \/ Removing(p) \/ Stage(p) \/ Filing(p) \/ ReclaimFails(p)
               \/ Finalize(p) \/ Withdraw(p) \/ DamageFile(p)
        PROVE  quiet
    BY <2>8 DEF Quiet, Begin, Lock, LookUp, CheckSources, ReadSnapshot, RecheckArtifact,
                RecheckSources, SnapExisting, SnapPublished, Removing, InvalidateFound,
                ClearExisting, Undo, Reclaim, Stage, Filing, WriteTemp, Rename, AfterRename,
                FileFails, ReclaimFails, Finalize, Withdraw, DamageFile
  <2>9. ASSUME NEW seen, LookingOn(seen) PROVE quiet
    <3> HIDE DEF quiet
    <3> QED BY <1>2, <2>3, <2>4, <2>9 DEF LookingOn
  <2> HIDE DEF quiet
  <2> QED BY <2>5, <2>6, <2>7, <2>8, <2>9, NextRuns DEF Runs
<1> QED BY <1>1, <1>2

Unanswered == {"failed", "refused", "retry", "lost"}

\* A step that gives no publisher an answer.
Silent == \A q \in Publishers : pub'[q].outcome \in {pub[q].outcome} \union Unanswered

LEMMA SilentSteps ==
    ASSUME PubFits, NEW p \in Publishers
    PROVE  /\ \A x : Goes(p, x) => Silent
           /\ \A o \in {"failed", "refused", "retry"} : Ends(p, o) => Silent
           /\ \A seen, last : Snapshot(p, seen, last) => Silent
           /\ \A x, seen : pub' = [pub EXCEPT ![p] = Holding(@, x, seen)] => Silent
           /\ UNCHANGED pub => Silent
<1>1. pub \in [Publishers -> PubRecords] BY DEF PubFits
<1>2. \A x : At(pub[p], x).outcome = pub[p].outcome BY <1>1 DEF At, PubRecords
<1>3. \A x, seen : Holding(pub[p], x, seen).outcome = pub[p].outcome
  BY <1>1 DEF Holding, PubRecords
<1>4. \A o : Ended(o).outcome = o BY DEF Ended, Nobody
<1>5. ASSUME NEW seen, NEW last, Snapshot(p, seen, last) PROVE Silent
  <2> DEFINE h == Holding(pub[p], "reading", seen)
             r == [h EXCEPT !.held = source, !.last = last]
  <2>1. h.outcome = pub[p].outcome BY <1>3
  <2>2. r.outcome = h.outcome BY <1>1 DEF Holding, PubRecords
  <2>3. pub' = [pub EXCEPT ![p] = r] BY <1>5 DEF Snapshot
  <2> HIDE DEF r, h
  <2> QED BY <1>1, <2>1, <2>2, <2>3 DEF Silent
<1>6. ASSUME NEW x, Goes(p, x) PROVE Silent BY <1>1, <1>2, <1>6 DEF Goes, Silent
<1>7. ASSUME NEW o \in {"failed", "refused", "retry"}, Ends(p, o) PROVE Silent
  BY <1>1, <1>4, <1>7 DEF Ends, Silent, Unanswered
<1>8. ASSUME NEW x, NEW seen, pub' = [pub EXCEPT ![p] = Holding(@, x, seen)] PROVE Silent
  BY <1>1, <1>3, <1>8 DEF Silent
<1>9. UNCHANGED pub => Silent BY DEF Silent
<1> QED BY <1>5, <1>6, <1>7, <1>8, <1>9

LEMMA PubAnswersCurrently ==
    ASSUME Complete, [PublicationNext]_publicationVars, NEW q \in Publishers PROVE PubCurrent(q)
<1> DEFINE silent == pub'[q].outcome \in {pub[q].outcome} \union Unanswered
<1>1. PubFits /\ pub \in [Publishers -> PubRecords] BY DEF Complete, PubFits
<1>2. Silent => silent BY DEF Silent
<1>3. silent => PubCurrent(q) BY DEF PubCurrent, Unanswered
<1>4. ASSUME NEW p \in Publishers, RecheckArtifact(p) PROVE PubCurrent(q)
  <2> DEFINE answer == Recheck(pub[p].seen, pub[p].held, pub[p].read)
  <2>1. pub[p].seen \in SUBSET Publishers BY <1>1 DEF PubRecords
  <2>2. CASE answer = "good"
    <3>1. /\ ~Deleted /\ source # "gone"
          /\ \A a \in pub[p].seen : rows[a] = "ready" /\ files[a] # "none"
      BY <1>4, <2>1, <2>2, RecheckHolds DEF RecheckArtifact
    <3>2. Ends(p, "good") BY <1>4, <2>2 DEF RecheckArtifact
    <3>3. CASE q = p BY <3>1, <3>3 DEF PubCurrent
    <3>4. CASE q # p
      <4>1. pub'[q] = pub[q] BY <1>1, <3>2, <3>4 DEF Ends
      <4> QED BY <4>1 DEF PubCurrent
    <3> QED BY <3>3, <3>4
  <2>3. CASE answer # "good"
    <3>1. Goes(p, "checking") \/ Goes(p, "invalidating") \/ Ends(p, "failed")
      BY <1>4, <2>3 DEF RecheckArtifact
    <3>2. Silent BY <1>1, <3>1, SilentSteps
    <3> QED BY <1>2, <1>3, <3>2
  <2> QED BY <2>2, <2>3
<1>5. ASSUME NEW p \in Publishers, Quiet(p), ~RecheckArtifact(p) PROVE Silent
  <2>1. CASE ReadSnapshot(p)
    BY <1>1, <2>1 DEF ReadSnapshot, Silent, PubRecords
  <2>2. CASE Begin(p) \/ Lock(p) \/ LookUp(p) \/ CheckSources(p)
    BY <1>1, <2>2, SilentSteps DEF Begin, Lock, LookUp, CheckSources
  <2>3. CASE RecheckSources(p) \/ SnapExisting(p) \/ SnapPublished(p)
    BY <1>1, <2>3, SilentSteps DEF RecheckSources, SnapExisting, SnapPublished
  <2> QED BY <1>5, <2>1, <2>2, <2>3 DEF Quiet
<1>6. ASSUME NEW p \in Publishers, Removing(p) PROVE Silent
  <2>1. CASE Reclaim(p)
    <3>1. \/ \E x : Goes(p, x)
          \/ pub' = [pub EXCEPT ![p] = [@ EXCEPT !.pc = "checking", !.round = 2]]
          \/ Ends(p, "failed")
      BY <2>1 DEF Reclaim
    <3>2. CASE pub' = [pub EXCEPT ![p] = [@ EXCEPT !.pc = "checking", !.round = 2]]
      BY <1>1, <3>2 DEF Silent, PubRecords
    <3> QED BY <1>1, <3>1, <3>2, SilentSteps
  <2>2. CASE InvalidateFound(p) \/ ClearExisting(p) \/ Undo(p)
    BY <1>1, <2>2, SilentSteps DEF InvalidateFound, ClearExisting, Undo
  <2> QED BY <1>6, <2>1, <2>2 DEF Removing
<1>7. ASSUME NEW p \in Publishers, Stage(p) PROVE Silent
  <2>1. \/ Ends(p, "failed") \/ Goes(p, "reclaiming")
        \/ \E x, seen : pub' = [pub EXCEPT ![p] = Holding(@, x, seen)]
    BY <1>7 DEF Stage
  <2> QED BY <1>1, <2>1, SilentSteps
<1>8. ASSUME NEW p \in Publishers, Filing(p) \/ ReclaimFails(p) \/ Finalize(p) \/ DamageFile(p)
      PROVE  Silent
  <2>1. (\E x : Goes(p, x)) \/ Ends(p, "failed") \/ UNCHANGED pub
    BY <1>8 DEF Filing, WriteTemp, Rename, AfterRename, FileFails, ReclaimFails, Finalize,
                DamageFile
  <2> QED BY <1>1, <2>1, SilentSteps
<1>9. ASSUME NEW p \in Publishers, Withdraw(p) PROVE Silent
  BY <1>1, <1>9 DEF Withdraw, Silent, PubRecords
<1>10. ASSUME NEW seen, LookingOn(seen) PROVE silent
  BY <1>10 DEF LookingOn, Look, LookReads, LookAnswers
<1>11. CASE \/ LookInvalidates \/ Evict \/ Seal \/ Erasing \/ Recover
            \/ UNCHANGED publicationVars
  BY <1>3, <1>11 DEF LookInvalidates, Evict, Seal, Erasing, MarkDeleted, EraserProceeds, Enable,
                     LookForGuards, Await, Wake, Erase, Recover, publicationVars
<1>12. CASE Crash
  <2>1. pub'[q] = Ended("lost") \/ pub'[q] = pub[q] BY <1>12 DEF Crash
  <2>2. silent BY <2>1 DEF Ended, Nobody, Unanswered
  <2> QED BY <1>3, <2>2
<1>13. CASE Runs
  <2> HIDE DEF silent
  <2> QED BY <1>2, <1>3, <1>4, <1>5, <1>6, <1>7, <1>8, <1>9, <1>10, <1>11, <1>13 DEF Runs
<1> QED BY <1>11, <1>12, <1>13, NextRuns

\* The second look of read_artifact_snapshot and read_frame_snapshots: whatever was evicted,
\* invalidated, published again or deleted between the looks, what is answered is retained.
THEOREM AnswersStayCurrent == PublicationSpec => AnswersAreCurrent
<1>1. IsComplete /\ [PublicationNext]_publicationVars
        => LookCurrent /\ \A p \in Publishers : PubCurrent(p)
  BY LookAnswersCurrently, PubAnswersCurrently DEF IsComplete
<1>2. IsComplete /\ [PublicationNext]_publicationVars
        => [/\ looker.outcome # "good" /\ looker'.outcome = "good"
                 => /\ ~Deleted /\ source # "gone"
                    /\ \A a \in looker.seen : rows[a] = "ready" /\ files[a] # "none"
            /\ \A p \in Publishers :
                 pub[p].outcome # "good" /\ pub'[p].outcome = "good"
                   => /\ ~Deleted /\ source # "gone"
                      /\ \A a \in pub[p].seen : rows[a] = "ready" /\ files[a] # "none"
           ]_publicationVars
  BY <1>1 DEF LookCurrent, PubCurrent
<1> QED BY <1>2, AlwaysComplete, PTL DEF PublicationSpec, AnswersAreCurrent
------------------------------------------------------------------------------
(* The deletion of a session is final, for any publications, evictions,     *)
(* failures, withdrawals and crashes: what each publisher leaves behind is  *)
(* accounted for at every step, so that nothing is left of it at its end.   *)

\* Mutual exclusion by CacheLocks.
Locks(r) == r.pc \notin {"new", "locking", "over"}

Exclusive ==
    \A p, q \in Publishers :
      p # q /\ q \in OfKey(p) => ~(Locks(pub[p]) /\ Locks(pub[q]))

\* Why a file may be left without a row.
Excused(p) == life.mishaps > 0 \/ (~IsVideo(p) /\ life.evictions > 0)

\* Where a publisher is that has a row of its own, from the staging of it to its being ready.
Filed == {"reclaiming", "queued", "temp", "renamed", "synced", "finalizing"}

\* The row of an image is taken from its publisher by an eviction alone.
RowIsTaken(r, p) == ~IsVideo(p) /\ r.pc \in Filed /\ rows[p] = "none" => life.evictions > 0

\* A file is a ready artifact's, or its publisher's that is about to finish or remove it.
FileIsOwned(r, p) ==
    files[p] = "none"
      \/ (rows[p] = "ready" /\ files[p] # "temp")
      \/ r.pc \in {"temp", "renamed", "synced", "finalizing"}
      \/ (r.pc = "undoing" /\ files[p] # "temp")
      \/ Excused(p)

Traced(r, p) ==
    /\ ~IsVideo(p) => r.round = 1
    /\ r.pc = "clearing" => r.seen \subseteq OfKey(p)
    /\ r.pc \in {"renamed", "synced", "finalizing"} => files[p] # "temp"
    /\ RowIsTaken(r, p)
    /\ life.up => FileIsOwned(r, p)

\* Once the drain has found no guard there is none, and once all is erased there is no row.
EraserFits ==
    /\ ~life.up => eraser.pc = "none"
    /\ eraser.pc \in {"erasing", "done"} => \A p \in Publishers : ~Guarded(p)
    /\ eraser.pc = "done" => \A p \in Publishers : rows[p] = "none"

AllTraced == \A p \in Publishers : Traced(pub[p], p)

Final == Exclusive /\ AllTraced /\ EraserFits
------------------------------------------------------------------------------
(* What a step may do to a publisher it is not a step of.                   *)

\* Bounds are only used up.
LifeGrows ==
    /\ life.up /\ life'.up
    /\ life.evictions \in Nat /\ life'.evictions \in Nat /\ life'.evictions >= life.evictions
    /\ life.mishaps \in Nat /\ life'.mishaps \in Nat /\ life'.mishaps >= life.mishaps

\* Its row and its file stay, or the row goes and the file with it unless it is a temporary one.
\* A row that is not ready goes only with an eviction, or with the lock of its key held by others.
RowSpared(q) ==
    \/ rows'[q] = rows[q] /\ files'[q] = files[q]
    \/ /\ rows'[q] = "none"
       /\ files'[q] = IF files[q] = "temp" THEN "temp" ELSE "none"
       /\ Locks(pub[q]) /\ rows[q] = "staging" => life'.evictions > 0

LEMMA SparedStaysTraced ==
    ASSUME Complete, NEW q \in Publishers, Traced(pub[q], q), LifeGrows, RowSpared(q),
           UNCHANGED offer, pub'[q] = pub[q]
    PROVE  Traced(pub[q], q)'
<1> DEFINE r == pub[q]
<1>1. IsVideo(q)' = IsVideo(q) /\ OfKey(q)' = OfKey(q) BY DEF IsVideo, OfKey
<1>2. rows[q] = "ready" => files[q] # "temp" BY DEF Complete, StoreComplete, ReadyHaveFiles
<1>3. rows[q] \in {"none", "staging", "ready"} BY DEF Complete, StoreComplete, StoreTyped
<1>4. Excused(q) => Excused(q)' BY <1>1 DEF Excused, LifeGrows
<1>5. RowIsTaken(r, q)'
  <2>1. r.pc \in Filed => rows[q] # "ready"
    <3>1. Filed \subseteq Working BY DEF Filed, Working, Places
    <3> QED BY <3>1, NotReady DEF Complete
  <2>2. r.pc \in Filed => Locks(r) BY DEF Filed, Locks
  <2>3. RowIsTaken(r, q) BY DEF Traced
  <2> QED BY <1>1, <1>3, <2>1, <2>2, <2>3 DEF RowIsTaken, RowSpared, LifeGrows
<1>6. FileIsOwned(r, q)'
  <2>1. FileIsOwned(r, q) BY DEF Traced, LifeGrows
  <2> QED BY <1>2, <1>4, <2>1 DEF FileIsOwned, RowSpared
<1>7. r.pc \in {"renamed", "synced", "finalizing"} => files'[q] # "temp"
  BY DEF Traced, RowSpared
<1> QED BY <1>1, <1>5, <1>6, <1>7 DEF Traced

OnlyMoves(p) == \A q \in Publishers \ {p} : pub'[q] = pub[q]

\* The same for all but the one publisher whose step it is.
LEMMA OthersStayTraced ==
    ASSUME Complete, AllTraced, NEW p \in Publishers, LifeGrows, UNCHANGED offer, OnlyMoves(p),
           \A q \in Publishers \ {p} : RowSpared(q), Traced(pub[p], p)'
    PROVE  AllTraced'
<1>1. ASSUME NEW q \in Publishers \ {p} PROVE Traced(pub[q], q)'
  BY <1>1, SparedStaysTraced DEF AllTraced, OnlyMoves
<1> QED BY <1>1 DEF AllTraced

\* No publisher's step gives it a lock but Lock.
LEMMA StaysExclusive ==
    ASSUME Exclusive, UNCHANGED offer, \A q \in Publishers : Locks(pub'[q]) => Locks(pub[q])
    PROVE  Exclusive'
<1>1. \A p : OfKey(p)' = OfKey(p) BY DEF OfKey
<1>2. ASSUME NEW p \in Publishers, NEW q \in Publishers, p # q, q \in OfKey(p)'
      PROVE  ~(Locks(pub'[p]) /\ Locks(pub'[q]))
  BY <1>1, <1>2 DEF Exclusive
<1> QED BY <1>2 DEF Exclusive, Locks

LEMMA LockSteps ==
    ASSUME PubFits, Exclusive, NEW p \in Publishers, Lock(p) PROVE Exclusive'
<1>1. UNCHANGED offer /\ Goes(p, "looking") BY DEF Lock
<1>2. \A q \in Publishers \ {p} : pub'[q] = pub[q] BY <1>1 DEF PubFits, Goes
<1>3. \A q \in OfKey(p) : ~Locks(pub[q]) BY DEF Lock, Locks
<1>4. \A q : OfKey(q)' = OfKey(q) BY <1>1 DEF OfKey
<1>5. \A q \in Publishers : q \in OfKey(p) <=> p \in OfKey(q) BY DEF OfKey
<1>6. ASSUME NEW a \in Publishers, NEW b \in Publishers, a # b, b \in OfKey(a)
      PROVE  ~(Locks(pub'[a]) /\ Locks(pub'[b]))
  <2>1. CASE a = p BY <1>2, <1>3, <1>6, <2>1
  <2>2. CASE b = p BY <1>2, <1>3, <1>5, <1>6, <2>2
  <2>3. CASE a # p /\ b # p BY <1>2, <1>6, <2>3 DEF Exclusive
  <2> QED BY <2>1, <2>2, <2>3
<1> QED BY <1>4, <1>6 DEF Exclusive, Locks

\* The eraser's invariant in a step that is not its own.
LEMMA EraserStays ==
    ASSUME EraserFits, UNCHANGED eraser, LifeGrows,
           \A q \in Publishers : Guarded(q)' => Guarded(q) \/ ~Deleted,
           \A q \in Publishers : rows'[q] # "none" =>
              rows[q] # "none" \/ \E p \in Publishers : Guarded(p)
    PROVE  EraserFits'
BY DEF EraserFits, LifeGrows, Deleted

\* What a step of the publisher p has to show.
Proper(p) ==
    /\ OnlyMoves(p) /\ Traced(pub[p], p)'
    /\ \A q \in Publishers \ {p} : RowSpared(q)
    /\ Locks(pub'[p]) => Locks(pub[p])
    /\ Guarded(p)' => Guarded(p) \/ ~Deleted
    /\ rows'[p] # "none" => rows[p] # "none" \/ Guarded(p)

LEMMA ProperStaysFinal ==
    ASSUME Complete, Final, NEW p \in Publishers, LifeGrows, UNCHANGED <<offer, eraser>>,
           Proper(p)
    PROVE  Final'
<1>1. AllTraced' BY OthersStayTraced DEF Final, Proper
<1>2. Exclusive'
  <2>1. \A q \in Publishers : Locks(pub'[q]) => Locks(pub[q]) BY DEF Proper, OnlyMoves
  <2> QED BY <2>1, StaysExclusive DEF Final
<1>3. EraserFits'
  <2>1. \A q \in Publishers : Guarded(q)' => Guarded(q) \/ ~Deleted
    BY DEF Guarded, Proper, OnlyMoves
  <2>2. ASSUME NEW q \in Publishers, rows'[q] # "none", ~ \E a \in Publishers : Guarded(a)
        PROVE  rows[q] # "none"
    BY <2>2 DEF Proper, RowSpared
  <2> QED BY <2>1, <2>2, EraserStays DEF Final
<1> QED BY <1>1, <1>2, <1>3 DEF Final

\* Records before and after.
LEMMA PubAfter ==
    ASSUME PubFits, NEW p \in Publishers
    PROVE  /\ \A x : Goes(p, x) =>
                OnlyMoves(p) /\ pub'[p].pc = x /\ pub'[p].round = pub[p].round
           /\ \A o : Ends(p, o) => OnlyMoves(p) /\ pub'[p].pc = "over" /\ pub'[p].round = 1
           /\ \A seen, last : Snapshot(p, seen, last) =>
                OnlyMoves(p) /\ pub'[p].pc = "reading" /\ pub'[p].round = pub[p].round
<1>1. pub \in [Publishers -> PubRecords] BY DEF PubFits
<1>2. \A x : At(pub[p], x).pc = x /\ At(pub[p], x).round = pub[p].round
  BY <1>1 DEF At, PubRecords
<1>3. \A x, seen : /\ Holding(pub[p], x, seen).pc = x
                   /\ Holding(pub[p], x, seen).round = pub[p].round
  BY <1>1 DEF Holding, PubRecords
<1>4. \A o : Ended(o).pc = "over" /\ Ended(o).round = 1 BY DEF Ended, Nobody
<1>5. ASSUME NEW seen, NEW last, Snapshot(p, seen, last)
      PROVE  OnlyMoves(p) /\ pub'[p].pc = "reading" /\ pub'[p].round = pub[p].round
  <2> DEFINE h == Holding(pub[p], "reading", seen)
             r == [h EXCEPT !.held = source, !.last = last]
  <2>1. h.pc = "reading" /\ h.round = pub[p].round BY <1>3
  <2>2. r.pc = h.pc /\ r.round = h.round BY <1>1 DEF Holding, PubRecords
  <2>3. pub' = [pub EXCEPT ![p] = r] BY <1>5 DEF Snapshot
  <2> HIDE DEF r, h
  <2> QED BY <1>1, <2>1, <2>2, <2>3 DEF OnlyMoves
<1>6. ASSUME NEW x, Goes(p, x)
      PROVE  OnlyMoves(p) /\ pub'[p].pc = x /\ pub'[p].round = pub[p].round
  BY <1>1, <1>2, <1>6 DEF Goes, OnlyMoves
<1>7. ASSUME NEW o, Ends(p, o)
      PROVE  OnlyMoves(p) /\ pub'[p].pc = "over" /\ pub'[p].round = 1
  BY <1>1, <1>4, <1>7 DEF Ends, OnlyMoves
<1> QED BY <1>5, <1>6, <1>7

LEMMA HoldingAfter ==
    ASSUME PubFits, NEW p \in Publishers, NEW x, NEW seen,
           pub' = [pub EXCEPT ![p] = Holding(pub[p], x, seen)]
    PROVE  /\ OnlyMoves(p) /\ pub'[p].pc = x /\ pub'[p].round = pub[p].round
           /\ pub'[p].seen = seen
<1>1. pub \in [Publishers -> PubRecords] BY DEF PubFits
<1>2. /\ Holding(pub[p], x, seen).pc = x /\ Holding(pub[p], x, seen).round = pub[p].round
      /\ Holding(pub[p], x, seen).seen = seen
  BY <1>1 DEF Holding, PubRecords
<1> QED BY <1>1, <1>2 DEF OnlyMoves

LEMMA RunsGrow == ASSUME Complete, Runs PROVE LifeGrows
<1>1. LifeTyped BY DEF Complete, RestTyped
<1>2. Counted BY RunsAreCounted
<1> QED BY <1>1, <1>2 DEF Counted, LifeTyped, LifeGrows
------------------------------------------------------------------------------
(* The steps of a publisher that leave rows and files alone.                *)

\* No file is left without a row or an excuse.
Left(p) == files[p] = "none" \/ (rows[p] = "ready" /\ files[p] # "temp") \/ Excused(p)

HasFile == {"temp", "renamed", "synced", "finalizing", "undoing"}

LEMMA LeftBefore ==
    ASSUME AllTraced, NEW p \in Publishers, life.up, pub[p].pc \notin HasFile
    PROVE  Left(p)
BY DEF AllTraced, Traced, FileIsOwned, Left, HasFile

\* What is left to show of a publisher that comes to a place without a file.
LEMMA LeftAfter ==
    ASSUME NEW p \in Publishers, UNCHANGED offer, AllTraced, Left(p)',
           pub'[p].round \in {1, pub[p].round} \/ IsVideo(p),
           pub'[p].pc \notin {"renamed", "synced", "finalizing"},
           pub'[p].pc = "clearing" => pub'[p].seen \subseteq OfKey(p),
           ~IsVideo(p) /\ pub'[p].pc \in Filed /\ rows'[p] = "none" => life'.evictions > 0
    PROVE  Traced(pub[p], p)'
<1>1. IsVideo(p)' = IsVideo(p) /\ OfKey(p)' = OfKey(p) BY DEF IsVideo, OfKey
<1>2. ~IsVideo(p) => pub'[p].round = 1 BY DEF AllTraced, Traced
<1>3. RowIsTaken(pub[p], p)' BY <1>1 DEF RowIsTaken
<1>4. FileIsOwned(pub[p], p)' BY DEF Left, FileIsOwned
<1> QED BY <1>1, <1>2, <1>3, <1>4 DEF Traced

LEMMA ExcusesStay ==
    ASSUME LifeGrows, UNCHANGED offer, NEW p \in Publishers PROVE Excused(p) => Excused(p)'
BY DEF Excused, LifeGrows, IsVideo

LEMMA QuietStaysFinal ==
    ASSUME Complete, Final, NEW p \in Publishers, Quiet(p) PROVE Final'
<1>1. Runs BY DEF Runs
<1>2. LifeGrows BY <1>1, RunsGrow
<1>3. UNCHANGED <<offer, rows, files, eraser>>
  BY DEF Quiet, Begin, Lock, LookUp, CheckSources, ReadSnapshot, RecheckArtifact,
         RecheckSources, SnapExisting, SnapPublished
<1>4. PubFits /\ AllTraced /\ pub[p] \in PubRecords /\ pub \in [Publishers -> PubRecords]
  BY DEF Complete, Final, PubFits
<1>5. pub[p].pc \notin HasFile
  BY DEF Quiet, Begin, Lock, LookUp, CheckSources, ReadSnapshot, RecheckArtifact,
         RecheckSources, SnapExisting, SnapPublished, HasFile
<1>6. Left(p)' BY <1>2, <1>3, <1>4, <1>5, LeftBefore, ExcusesStay DEF Left, LifeGrows
<1>7. \A q \in Publishers : RowSpared(q) BY <1>3 DEF RowSpared
<1>8. /\ OnlyMoves(p) /\ pub'[p].round \in {1, pub[p].round}
      /\ pub'[p].pc \notin {"renamed", "synced", "finalizing", "clearing"}
      /\ pub'[p].pc \in Filed => pub[p].round # 1
      /\ Locks(pub'[p]) => Locks(pub[p]) \/ Lock(p)
      /\ Guarded(p)' => Guarded(p) \/ ~Deleted
  <2>1. CASE Begin(p)
    BY <1>4, <2>1, PubAfter DEF Begin, Locks, Guarded, Filed
  <2>2. CASE Lock(p)
    BY <1>4, <2>2, PubAfter DEF Lock, Guarded, Filed
  <2>3. CASE LookUp(p) \/ CheckSources(p)
    <3>1. \/ Goes(p, "checking") \/ Goes(p, "undoing") \/ Ends(p, "failed")
          \/ \E seen, last : Snapshot(p, seen, last)
      BY <2>3 DEF LookUp, CheckSources
    <3>2. pub[p].pc \in {"looking", "checking"} BY <2>3 DEF LookUp, CheckSources
    <3> QED BY <1>4, <3>1, <3>2, PubAfter DEF Locks, Guarded, Filed
  <2>4. CASE ReadSnapshot(p)
    <3>1. OnlyMoves(p) BY <1>4, <2>4 DEF ReadSnapshot, OnlyMoves
    <3>2. pub'[p].pc = "rechecking" /\ pub'[p].round = pub[p].round
      BY <1>4, <2>4 DEF ReadSnapshot, PubRecords
    <3> QED BY <2>4, <3>1, <3>2 DEF ReadSnapshot, Locks, Guarded, Filed
  <2>5. CASE RecheckArtifact(p)
    <3>1. Ends(p, "good") \/ Ends(p, "failed") \/ Goes(p, "checking") \/ Goes(p, "invalidating")
      BY <2>5 DEF RecheckArtifact
    <3> QED BY <1>4, <2>5, <3>1, PubAfter DEF RecheckArtifact, Locks, Guarded, Filed
  <2>6. CASE RecheckSources(p)
    <3>1. \/ Ends(p, "failed") \/ Goes(p, "undoing") \/ Goes(p, "staging")
          \/ Goes(p, "queued") /\ pub[p].round # 1
      BY <2>6 DEF RecheckSources
    <3> QED BY <1>4, <2>6, <3>1, PubAfter DEF RecheckSources, Locks, Guarded, Filed
  <2>7. CASE SnapExisting(p) \/ SnapPublished(p)
    BY <1>4, <2>7, PubAfter DEF SnapExisting, SnapPublished, Locks, Guarded, Filed
  <2> QED BY <2>1, <2>2, <2>3, <2>4, <2>5, <2>6, <2>7 DEF Quiet
<1>9. Traced(pub[p], p)'
  <2>1. ~IsVideo(p) => pub[p].round = 1 BY <1>4 DEF AllTraced, Traced
  <2> QED BY <1>3, <1>4, <1>6, <1>8, <2>1, LeftAfter
<1>10. AllTraced' BY <1>2, <1>3, <1>4, <1>7, <1>8, <1>9, OthersStayTraced
<1>11. Exclusive'
  <2>1. CASE Lock(p) BY <1>4, <2>1, LockSteps DEF Final
  <2>2. CASE ~Lock(p)
    <3>1. \A q \in Publishers : Locks(pub'[q]) => Locks(pub[q])
      BY <1>8, <2>2 DEF OnlyMoves
    <3> QED BY <1>3, <3>1, StaysExclusive DEF Final
  <2> QED BY <2>1, <2>2
<1>12. EraserFits'
  <2>1. \A q \in Publishers : Guarded(q)' => Guarded(q) \/ ~Deleted
    BY <1>8 DEF Guarded, OnlyMoves
  <2> QED BY <1>2, <1>3, <2>1, EraserStays DEF Final
<1> QED BY <1>10, <1>11, <1>12 DEF Final
------------------------------------------------------------------------------
(* The steps that take rows away.                                           *)

\* What is removed is the candidates of the walk, and rows of one's own choice.
LEMMA LosingSpares ==
    ASSUME StoreTyped, LifeTyped, NEW own \in SUBSET Publishers, NEW kept \in SUBSET Publishers,
           NEW loss \in {NoLoss} \union Losses(kept), Loses(loss, own), NEW q \in Publishers,
           q \in own /\ Locks(pub[q]) => rows[q] # "staging"
    PROVE  RowSpared(q)
<1>1. loss.gone \in SUBSET Publishers BY LossesAreConsistent
<1>2. rows'[q] = IF q \in loss.gone \union own THEN "none" ELSE rows[q]
  BY DEF Loses, Dropping
<1>3. files'[q] = IF q \in loss.gone \union own /\ files[q] # "temp" THEN "none" ELSE files[q]
  BY DEF Loses, Unfiled, Dropping
<1>4. q \in loss.gone => life'.evictions > 0
  <2>1. ASSUME q \in loss.gone PROVE loss # NoLoss BY <2>1 DEF NoLoss
  <2>2. loss # NoLoss => life' = [life EXCEPT !.evictions = @ + 1] BY DEF Loses
  <2> QED BY <2>1, <2>2 DEF LifeTyped
<1>5. files[q] = "temp" \/ files[q] # "temp" OBVIOUS
<1> QED BY <1>2, <1>3, <1>4 DEF RowSpared

\* The publisher's own file, when its row is taken or it gives it up.
LEMMA LosingLeaves ==
    ASSUME StoreTyped, LifeGrows, NEW p \in Publishers, NEW own \in SUBSET Publishers,
           NEW kept \in SUBSET Publishers, NEW loss \in {NoLoss} \union Losses(kept),
           Loses(loss, own), Left(p), rows[p] # "ready", UNCHANGED offer
    PROVE  Left(p)'
<1>1. files'[p] \in {files[p], "none"}
  BY DEF Loses, Unfiled, Dropping
<1>2. Excused(p) => Excused(p)' BY ExcusesStay
<1> QED BY <1>1, <1>2 DEF Left

LEMMA RemovingStaysFinal ==
    ASSUME Complete, Final, NEW p \in Publishers, Removing(p) PROVE Final'
<1>1. Runs BY DEF Runs
<1>2. LifeGrows BY <1>1, RunsGrow
<1>3. UNCHANGED <<offer, eraser>>
  BY DEF Removing, InvalidateFound, ClearExisting, Undo, Reclaim
<1>4. /\ PubFits /\ AllTraced /\ pub[p] \in PubRecords /\ StoreTyped /\ LifeTyped
      /\ Traced(pub[p], p) /\ Exclusive
  BY DEF Complete, Final, PubFits, StoreComplete, RestTyped, AllTraced
<1>5. rows[p] # "ready" /\ Locks(pub[p]) /\ Guarded(p)
  <2>1. pub[p].pc \in Working /\ Locks(pub[p]) /\ Guarded(p)
    BY DEF Removing, InvalidateFound, ClearExisting, Undo, Reclaim, Working, Places, Locks,
           Guarded
  <2> QED BY <1>4, <2>1, NotReady
<1>6. NoLoss \in {NoLoss} \union Losses({}) OBVIOUS
<1>7. ASSUME OnlyMoves(p), Traced(pub[p], p)', \A q \in Publishers \ {p} : RowSpared(q)
      PROVE  Final'
  BY <1>2, <1>3, <1>5, <1>7, ProperStaysFinal DEF Proper
<1>8. CASE InvalidateFound(p)
  <2> DEFINE own == Invalidated(pub[p].seen, pub[p].held)
  <2>1. own \in SUBSET Publishers /\ \A q \in own : rows[q] = "ready"
    BY <1>4 DEF Invalidated, PubRecords
  <2> HIDE DEF own
  <2>2. Loses(NoLoss, own) /\ Goes(p, "checking") /\ pub[p].pc = "invalidating"
    BY <1>8 DEF InvalidateFound, own
  <2>3. \A q \in Publishers : RowSpared(q) BY <1>4, <1>6, <2>1, <2>2, LosingSpares
  <2>4. Left(p)
    BY <1>2, <1>4, <2>2, LeftBefore DEF HasFile, LifeGrows
  <2>5. Left(p)' BY <1>2, <1>3, <1>4, <1>5, <1>6, <2>1, <2>2, <2>4, LosingLeaves
  <2>6. OnlyMoves(p) /\ pub'[p].pc = "checking" /\ pub'[p].round = pub[p].round
    BY <1>4, <2>2, PubAfter
  <2>7. Traced(pub[p], p)' BY <1>3, <1>4, <2>5, <2>6, LeftAfter DEF Filed
  <2> QED BY <1>7, <2>3, <2>6, <2>7
<1>9. CASE ClearExisting(p)
  <2> DEFINE own == pub[p].seen
  <2>1. own \in SUBSET Publishers BY <1>4 DEF PubRecords
  <2>2. Loses(NoLoss, own) /\ Ends(p, "retry") /\ pub[p].pc = "clearing"
    BY <1>9 DEF ClearExisting
  <2>3. own \subseteq OfKey(p) BY <1>4, <2>2 DEF Traced
  <2> HIDE DEF own
  <2>4. ASSUME NEW q \in Publishers \ {p}, q \in own PROVE ~Locks(pub[q])
    BY <1>4, <1>5, <2>3, <2>4 DEF Exclusive
  <2>5. \A q \in Publishers \ {p} : RowSpared(q)
    BY <1>4, <1>6, <2>1, <2>2, <2>4, LosingSpares
  <2>6. Left(p)
    BY <1>2, <1>4, <2>2, LeftBefore DEF HasFile, LifeGrows
  <2>7. Left(p)' BY <1>2, <1>3, <1>4, <1>5, <1>6, <2>1, <2>2, <2>6, LosingLeaves
  <2>8. OnlyMoves(p) /\ pub'[p].pc = "over" /\ pub'[p].round = 1 BY <1>4, <2>2, PubAfter
  <2>9. Traced(pub[p], p)' BY <1>3, <1>4, <2>7, <2>8, LeftAfter DEF Filed
  <2> QED BY <1>7, <2>5, <2>8, <2>9
<1>10. CASE Undo(p)
  <2>1. Loses(NoLoss, {p}) /\ Ends(p, "failed") /\ pub[p].pc = "undoing"
    BY <1>10 DEF Undo
  <2>2. \A q \in Publishers \ {p} : RowSpared(q) BY <1>4, <1>6, <2>1, LosingSpares
  <2>3. files[p] = "temp" => Excused(p)
    BY <1>2, <1>4, <1>5, <2>1 DEF Traced, FileIsOwned, LifeGrows
  <2>4. files'[p] = IF files[p] = "temp" THEN "temp" ELSE "none"
    BY <1>4, <2>1 DEF Loses, Unfiled, Dropping, StoreTyped
  <2>5. Left(p)' BY <1>2, <1>3, <2>3, <2>4, ExcusesStay DEF Left
  <2>6. OnlyMoves(p) /\ pub'[p].pc = "over" /\ pub'[p].round = 1 BY <1>4, <2>1, PubAfter
  <2>7. Traced(pub[p], p)' BY <1>3, <1>4, <2>5, <2>6, LeftAfter DEF Filed
  <2> QED BY <1>7, <2>2, <2>6, <2>7
<1>11. CASE Reclaim(p)
  <2>1. PICK loss \in {NoLoss} \union Losses({p}) :
          \/ Loses(loss, {}) /\ Goes(p, "queued")
          \/ Loses(loss, {}) /\ IsVideo(p)
             /\ pub' = [pub EXCEPT ![p] = [@ EXCEPT !.pc = "checking", !.round = 2]]
          \/ Loses(loss, {p}) /\ Ends(p, "failed")
    BY <1>11 DEF Reclaim
  <2>2. PICK own \in {{}, {p}} : Loses(loss, own) BY <2>1
  <2>3. \A q \in Publishers \ {p} : RowSpared(q)
    BY <1>4, <2>2, LosingSpares
  <2>4. pub[p].pc = "reclaiming" BY <1>11 DEF Reclaim
  <2>5. Left(p)' BY <1>2, <1>3, <1>4, <1>5, <2>2, <2>4, LeftBefore, LosingLeaves
                 DEF HasFile, LifeGrows
  <2>6. CASE Loses(loss, {}) /\ Goes(p, "queued")
    <3>1. OnlyMoves(p) /\ pub'[p].pc = "queued" /\ pub'[p].round = pub[p].round
      BY <1>4, <2>6, PubAfter
    <3>2. ~IsVideo(p) /\ rows'[p] = "none" => life'.evictions > 0
      <4>1. RowSpared(p) BY <1>4, <2>6, LosingSpares
      <4>2. rows[p] = "none" /\ ~IsVideo(p) => life.evictions > 0
        BY <1>4, <2>4 DEF Traced, RowIsTaken, Filed
      <4> QED BY <1>2, <1>4, <1>5, <4>1, <4>2 DEF RowSpared, LifeGrows, StoreTyped
    <3>3. Traced(pub[p], p)' BY <1>3, <1>4, <2>5, <3>1, <3>2, LeftAfter
    <3> QED BY <1>7, <2>3, <3>1, <3>3
  <2>7. CASE /\ Loses(loss, {}) /\ IsVideo(p)
             /\ pub' = [pub EXCEPT ![p] = [@ EXCEPT !.pc = "checking", !.round = 2]]
    <3>1. OnlyMoves(p) BY <1>4, <2>7 DEF OnlyMoves, PubFits
    <3>2. pub'[p].pc = "checking" BY <1>4, <2>7 DEF PubFits, PubRecords
    <3>3. Traced(pub[p], p)' BY <1>3, <1>4, <2>5, <2>7, <3>2, LeftAfter DEF Filed
    <3> QED BY <1>7, <2>3, <3>1, <3>3
  <2>8. CASE Loses(loss, {p}) /\ Ends(p, "failed")
    <3>1. OnlyMoves(p) /\ pub'[p].pc = "over" /\ pub'[p].round = 1 BY <1>4, <2>8, PubAfter
    <3>2. Traced(pub[p], p)' BY <1>3, <1>4, <2>5, <3>1, LeftAfter DEF Filed
    <3> QED BY <1>7, <2>3, <3>1, <3>2
  <2> QED BY <2>1, <2>6, <2>7, <2>8
<1> QED BY <1>8, <1>9, <1>10, <1>11 DEF Removing
------------------------------------------------------------------------------
(* The steps on a publisher's own row and file.                             *)

LEMMA StageStaysFinal == ASSUME Complete, Final, NEW p \in Publishers, Stage(p) PROVE Final'
<1>1. Runs BY DEF Runs
<1>2. LifeGrows BY <1>1, RunsGrow
<1>3. UNCHANGED <<offer, eraser, files>> /\ pub[p].pc = "staging" BY DEF Stage
<1>4. /\ PubFits /\ AllTraced /\ pub[p] \in PubRecords
      /\ rows \in [Publishers -> {"none", "staging", "ready"}]
  BY DEF Complete, Final, PubFits, StoreComplete, StoreTyped
<1>5. rows[p] # "ready" /\ Locks(pub[p]) /\ Guarded(p)
  <2>1. pub[p].pc \in Working /\ Locks(pub[p]) /\ Guarded(p)
    BY <1>3 DEF Working, Places, Locks, Guarded
  <2> QED BY <1>4, <2>1, NotReady
<1> DEFINE there == {a \in OfKey(p) : rows[a] # "none"}
           ready == {a \in there : rows[a] = "ready"}
<1>6. \/ UNCHANGED rows /\ Ends(p, "failed")
      \/ UNCHANGED rows /\ pub' = [pub EXCEPT ![p] = Holding(@, "snapping", ready)]
      \/ UNCHANGED rows /\ pub' = [pub EXCEPT ![p] = Holding(@, "clearing", there)]
      \/ rows' = [rows EXCEPT ![p] = "staging"] /\ Goes(p, "reclaiming")
  BY DEF Stage
<1>7. there \subseteq OfKey(p) OBVIOUS
<1> HIDE DEF there, ready
<1>8. \A q \in Publishers \ {p} : RowSpared(q) BY <1>3, <1>4, <1>6 DEF RowSpared
<1>9. Left(p)'
  <2>1. Left(p) BY <1>2, <1>3, <1>4, LeftBefore DEF HasFile, LifeGrows
  <2> QED BY <1>2, <1>3, <1>5, <2>1, ExcusesStay DEF Left
<1>10. /\ OnlyMoves(p) /\ pub'[p].round \in {1, pub[p].round}
       /\ pub'[p].pc \in {"over", "snapping", "clearing", "reclaiming"}
       /\ pub'[p].pc = "clearing" => pub'[p].seen = there
       /\ pub'[p].pc = "reclaiming" => rows'[p] = "staging"
  <2>1. CASE Ends(p, "failed") BY <1>4, <2>1, PubAfter
  <2>2. CASE pub' = [pub EXCEPT ![p] = Holding(@, "snapping", ready)]
    <3>1. OnlyMoves(p) /\ pub'[p].pc = "snapping" /\ pub'[p].round = pub[p].round
          /\ pub'[p].seen = ready
      BY <1>4, <2>2, HoldingAfter
    <3> QED BY <3>1
  <2>3. CASE pub' = [pub EXCEPT ![p] = Holding(@, "clearing", there)]
    <3>1. OnlyMoves(p) /\ pub'[p].pc = "clearing" /\ pub'[p].round = pub[p].round
          /\ pub'[p].seen = there
      BY <1>4, <2>3, HoldingAfter
    <3> QED BY <3>1
  <2>4. CASE rows' = [rows EXCEPT ![p] = "staging"] /\ Goes(p, "reclaiming")
    BY <1>4, <2>4, PubAfter
  <2> QED BY <1>6, <2>1, <2>2, <2>3, <2>4
<1>11. Traced(pub[p], p)' BY <1>3, <1>4, <1>7, <1>9, <1>10, LeftAfter DEF Filed
<1> QED BY <1>2, <1>3, <1>5, <1>8, <1>10, <1>11, ProperStaysFinal DEF Proper

LEMMA FilingStaysFinal == ASSUME Complete, Final, NEW p \in Publishers, Filing(p) PROVE Final'
<1>1. Runs BY DEF Runs
<1>2. LifeGrows BY <1>1, RunsGrow
<1>3. UNCHANGED <<offer, eraser, rows>>
  BY DEF Filing, WriteTemp, Rename, AfterRename, FileFails
<1>4. /\ PubFits /\ AllTraced /\ pub[p] \in PubRecords /\ Traced(pub[p], p)
      /\ files \in [Publishers -> {"none", "temp", "final", "damaged"}]
  BY DEF Complete, Final, PubFits, StoreComplete, StoreTyped, AllTraced
<1>5. pub[p].pc \in Filed \ {"reclaiming", "finalizing"}
  BY DEF Filing, WriteTemp, Rename, AfterRename, FileFails, Filed
<1>6. rows[p] # "ready" /\ Locks(pub[p]) /\ Guarded(p)
  <2>1. pub[p].pc \in Working /\ Locks(pub[p]) /\ Guarded(p)
    BY <1>5 DEF Filed, Working, Places, Locks, Guarded
  <2> QED BY <1>4, <2>1, NotReady
<1>7. \E x \in {"undoing", "temp", "renamed", "synced", "finalizing"} : Goes(p, x)
  BY DEF Filing, WriteTemp, Rename, AfterRename, FileFails
<1>8. /\ OnlyMoves(p) /\ pub'[p].round = pub[p].round
      /\ pub'[p].pc \in {"undoing", "temp", "renamed", "synced", "finalizing"}
  BY <1>4, <1>7, PubAfter
<1>9. \A q \in Publishers \ {p} : RowSpared(q)
  BY <1>3, <1>4 DEF RowSpared, Filing, WriteTemp, Rename, AfterRename, FileFails
<1>10. IsVideo(p)' = IsVideo(p) BY <1>3 DEF IsVideo
<1>11. RowIsTaken(pub[p], p)'
  BY <1>2, <1>3, <1>4, <1>5, <1>10 DEF RowIsTaken, Traced, LifeGrows
<1>12. /\ pub'[p].pc \in {"renamed", "synced", "finalizing"} => files'[p] # "temp"
       /\ pub'[p].pc = "undoing" => files'[p] # "temp" \/ Excused(p)'
  <2>1. CASE WriteTemp(p)
    <3>1. pub[p].pc \notin HasFile BY <2>1 DEF WriteTemp, HasFile
    <3>2. Left(p) BY <1>2, <1>4, <3>1, LeftBefore DEF LifeGrows
    <3>3. Excused(p) => Excused(p)' BY <1>2, <1>3, ExcusesStay
    <3>4. (Goes(p, "undoing") /\ UNCHANGED files) \/ Goes(p, "temp") BY <2>1 DEF WriteTemp
    <3>5. Goes(p, "temp") => pub'[p].pc = "temp" BY <1>4, PubAfter
    <3>6. Goes(p, "undoing") => pub'[p].pc = "undoing" BY <1>4, PubAfter
    <3> QED BY <1>6, <3>2, <3>3, <3>4, <3>5, <3>6 DEF Left
  <2>2. CASE Rename(p) BY <1>4, <2>2 DEF Rename
  <2>3. CASE AfterRename(p)
    <3>1. files[p] # "temp" BY <1>4, <2>3 DEF AfterRename, Traced
    <3> QED BY <1>4, <2>3, <3>1 DEF AfterRename
  <2>4. CASE FileFails(p)
    <3>1. Excused(p)'
      BY <1>2, <2>4 DEF FileFails, Mishap, Excused, LifeGrows, Complete, RestTyped, LifeTyped
    <3>2. Goes(p, "undoing") BY <2>4 DEF FileFails
    <3>3. pub'[p].pc = "undoing" BY <1>4, <3>2, PubAfter
    <3> QED BY <3>1, <3>3
  <2> QED BY <2>1, <2>2, <2>3, <2>4 DEF Filing
<1>13. FileIsOwned(pub[p], p)' BY <1>8, <1>12 DEF FileIsOwned
<1>14. Traced(pub[p], p)'
  BY <1>4, <1>8, <1>10, <1>11, <1>12, <1>13 DEF Traced
<1> QED BY <1>2, <1>3, <1>6, <1>8, <1>9, <1>14, ProperStaysFinal DEF Proper

\* A mishap excuses what it leaves.
LEMMA MishapExcuses ==
    ASSUME LifeTyped, Mishap PROVE life'.mishaps > 0
BY DEF LifeTyped, Mishap

LEMMA ReclaimFailsStaysFinal ==
    ASSUME Complete, Final, NEW p \in Publishers, ReclaimFails(p) PROVE Final'
<1>1. Runs BY DEF Runs
<1>2. LifeGrows BY <1>1, RunsGrow
<1>3. UNCHANGED <<offer, eraser>> /\ Ends(p, "failed") BY DEF ReclaimFails
<1>4. /\ PubFits /\ AllTraced /\ StoreTyped /\ LifeTyped
  BY DEF Complete, Final, StoreComplete, RestTyped
<1>5. Left(p)' BY <1>4, MishapExcuses DEF ReclaimFails, Left, Excused
<1>6. OnlyMoves(p) /\ pub'[p].pc = "over" /\ pub'[p].round = 1 BY <1>3, <1>4, PubAfter
<1>7. Traced(pub[p], p)' BY <1>3, <1>4, <1>5, <1>6, LeftAfter DEF Filed
<1>8. \A q \in Publishers \ {p} : RowSpared(q)
  BY DEF ReclaimFails, RowSpared, Dropping, Unfiled
<1>9. Locks(pub[p]) /\ Guarded(p) BY DEF ReclaimFails, Locks, Guarded
<1> QED BY <1>2, <1>3, <1>6, <1>7, <1>8, <1>9, ProperStaysFinal DEF Proper

LEMMA FinalizeStaysFinal ==
    ASSUME Complete, Final, NEW p \in Publishers, Finalize(p) PROVE Final'
<1>1. Runs BY DEF Runs
<1>2. LifeGrows BY <1>1, RunsGrow
<1>3. UNCHANGED <<offer, eraser>> /\ pub[p].pc = "finalizing" BY DEF Finalize
<1>4. /\ PubFits /\ AllTraced /\ pub[p] \in PubRecords /\ StoreTyped /\ LifeTyped
      /\ Traced(pub[p], p)
  BY DEF Complete, Final, PubFits, StoreComplete, RestTyped, AllTraced
<1>5. rows[p] # "ready" /\ Locks(pub[p]) /\ Guarded(p) /\ files[p] # "temp"
  <2>1. pub[p].pc \in Working /\ Locks(pub[p]) /\ Guarded(p) /\ files[p] # "temp"
    BY <1>3, <1>4 DEF Working, Places, Locks, Guarded, Traced
  <2> QED BY <1>4, <2>1, NotReady
<1>6. PICK loss \in {NoLoss} \union Losses({p}) :
        \/ Loses(loss, {p}) /\ Ends(p, "failed")
        \/ /\ ~(rows[p] = "staging" /\ p \notin loss.gone /\ loss.source # "gone")
           /\ ~IsVideo(p) /\ Loses(loss, {}) /\ Ends(p, "failed")
        \/ /\ rows[p] = "staging" /\ p \notin loss.gone
           /\ rows' = [Dropping(rows, loss.gone) EXCEPT ![p] = "ready"]
           /\ files' = Unfiled(loss.gone)
           /\ life' = IF loss = NoLoss THEN life ELSE [life EXCEPT !.evictions = @ + 1]
           /\ Goes(p, "publishing")
  BY DEF Finalize
<1>7. ASSUME OnlyMoves(p), Traced(pub[p], p)', \A q \in Publishers \ {p} : RowSpared(q)
      PROVE  Final'
  BY <1>2, <1>3, <1>5, <1>7, ProperStaysFinal DEF Proper
<1>8. CASE Loses(loss, {p}) /\ Ends(p, "failed")
  <2>1. \A q \in Publishers \ {p} : RowSpared(q) BY <1>4, <1>6, <1>8, LosingSpares
  <2>2. files'[p] = "none" BY <1>5, <1>8 DEF Loses, Unfiled, Dropping
  <2>3. OnlyMoves(p) /\ pub'[p].pc = "over" /\ pub'[p].round = 1 BY <1>4, <1>8, PubAfter
  <2>4. Traced(pub[p], p)' BY <1>3, <1>4, <2>2, <2>3, LeftAfter DEF Filed, Left
  <2> QED BY <1>7, <2>1, <2>3, <2>4
<1>9. CASE /\ ~(rows[p] = "staging" /\ p \notin loss.gone /\ loss.source # "gone")
           /\ ~IsVideo(p) /\ Loses(loss, {}) /\ Ends(p, "failed")
  <2>1. \A q \in Publishers \ {p} : RowSpared(q) BY <1>4, <1>6, <1>9, LosingSpares
  <2>2. life'.evictions > 0
    <3>1. CASE rows[p] = "none"
      BY <1>2, <1>3, <1>4, <1>9, <3>1 DEF Traced, RowIsTaken, Filed, LifeGrows
    <3>2. CASE rows[p] = "staging"
      <4>1. source # "gone" BY <3>2 DEF Complete, StoreComplete, RowsHaveSources
      <4>2. loss # NoLoss BY <1>9, <3>2, <4>1 DEF NoLoss
      <4>3. life' = [life EXCEPT !.evictions = @ + 1] BY <1>9, <4>2 DEF Loses
      <4> QED BY <1>4, <4>3 DEF LifeTyped
    <3> QED BY <1>4, <1>5, <3>1, <3>2 DEF StoreTyped
  <2>3. Left(p)' BY <1>3, <1>9, <2>2 DEF Left, Excused, IsVideo
  <2>4. OnlyMoves(p) /\ pub'[p].pc = "over" /\ pub'[p].round = 1 BY <1>4, <1>9, PubAfter
  <2>5. Traced(pub[p], p)' BY <1>3, <1>4, <2>3, <2>4, LeftAfter DEF Filed
  <2> QED BY <1>7, <2>1, <2>4, <2>5
<1>10. CASE /\ rows[p] = "staging" /\ p \notin loss.gone
            /\ rows' = [Dropping(rows, loss.gone) EXCEPT ![p] = "ready"]
            /\ files' = Unfiled(loss.gone)
            /\ life' = IF loss = NoLoss THEN life ELSE [life EXCEPT !.evictions = @ + 1]
            /\ Goes(p, "publishing")
  <2>1. loss.gone \in SUBSET Publishers BY <1>6, LossesAreConsistent
  <2>2. ASSUME NEW q \in Publishers \ {p} PROVE RowSpared(q)
    <3>1. rows'[q] = IF q \in loss.gone THEN "none" ELSE rows[q]
      BY <1>10 DEF Dropping
    <3>2. files'[q] = IF q \in loss.gone /\ files[q] # "temp" THEN "none" ELSE files[q]
      BY <1>10 DEF Unfiled, Dropping
    <3>3. q \in loss.gone => life'.evictions > 0
      <4>1. q \in loss.gone => loss # NoLoss BY DEF NoLoss
      <4>2. loss # NoLoss => life' = [life EXCEPT !.evictions = @ + 1] BY <1>10
      <4> QED BY <1>4, <4>1, <4>2 DEF LifeTyped
    <3> QED BY <3>1, <3>2, <3>3 DEF RowSpared
  <2>3. rows'[p] = "ready" /\ files'[p] = files[p]
    BY <1>4, <1>10 DEF Dropping, Unfiled, StoreTyped
  <2>4. Left(p)' BY <1>5, <2>3 DEF Left
  <2>5. OnlyMoves(p) /\ pub'[p].pc = "publishing" /\ pub'[p].round = pub[p].round
    BY <1>4, <1>10, PubAfter
  <2>6. Traced(pub[p], p)' BY <1>3, <1>4, <2>4, <2>5, LeftAfter DEF Filed
  <2> QED BY <1>7, <2>2, <2>5, <2>6
<1> QED BY <1>6, <1>8, <1>9, <1>10

LEMMA WithdrawStaysFinal ==
    ASSUME Complete, Final, NEW p \in Publishers, Withdraw(p) PROVE Final'
<1>1. Runs BY DEF Runs
<1>2. LifeGrows BY <1>1, RunsGrow
<1>3. UNCHANGED <<offer, eraser, rows, files>> /\ Guarded(p) BY DEF Withdraw
<1>4. PubFits /\ pub \in [Publishers -> PubRecords] /\ Traced(pub[p], p)
  BY DEF Complete, PubFits, Final, AllTraced
<1>5. OnlyMoves(p) BY <1>4 DEF Withdraw, OnlyMoves
<1>6. pub'[p].pc = pub[p].pc /\ pub'[p].round = pub[p].round /\ pub'[p].seen = pub[p].seen
  BY <1>4 DEF Withdraw, PubRecords
<1>7. IsVideo(p)' = IsVideo(p) /\ OfKey(p)' = OfKey(p) /\ (Excused(p) => Excused(p)')
  BY <1>2, <1>3, ExcusesStay DEF IsVideo, OfKey
<1>8. Traced(pub[p], p)'
  <2>1. FileIsOwned(pub[p], p) BY <1>2, <1>4 DEF Traced, LifeGrows
  <2>2. FileIsOwned(pub[p], p)' BY <1>3, <1>6, <1>7, <2>1 DEF FileIsOwned
  <2>3. RowIsTaken(pub[p], p)'
    BY <1>2, <1>3, <1>4, <1>6, <1>7 DEF Traced, RowIsTaken, LifeGrows
  <2> QED BY <1>3, <1>4, <1>6, <1>7, <2>2, <2>3 DEF Traced
<1>9. \A q \in Publishers \ {p} : RowSpared(q) BY <1>3 DEF RowSpared
<1> QED BY <1>2, <1>3, <1>5, <1>6, <1>8, <1>9, ProperStaysFinal DEF Proper, Locks, Guarded
------------------------------------------------------------------------------
(* The steps of everybody else.                                             *)

LEMMA SparedStaysFinal ==
    ASSUME Complete, Final, LifeGrows, UNCHANGED <<offer, pub, eraser>>,
           \A q \in Publishers : RowSpared(q)
    PROVE  Final'
<1>1. AllTraced' BY SparedStaysTraced DEF Final, AllTraced
<1>2. Exclusive' BY StaysExclusive DEF Final
<1>3. EraserFits'
  <2>1. \A q \in Publishers : Guarded(q)' => Guarded(q) BY DEF Guarded
  <2>2. \A q \in Publishers : rows'[q] # "none" => rows[q] # "none" BY DEF RowSpared
  <2> QED BY <2>1, <2>2, EraserStays DEF Final
<1> QED BY <1>1, <1>2, <1>3 DEF Final

LEMMA DamageStaysFinal ==
    ASSUME Complete, Final, NEW a \in Publishers, DamageFile(a) PROVE Final'
<1>1. Runs BY DEF Runs
<1>2. LifeGrows BY <1>1, RunsGrow
<1>3. UNCHANGED <<offer, pub, rows, eraser>> /\ rows[a] = "ready" BY DEF DamageFile
<1>4. \A q \in Publishers \ {a} : RowSpared(q) BY DEF DamageFile, RowSpared
<1>5. Traced(pub[a], a)'
  <2>1. files'[a] = "damaged" BY DEF DamageFile, Complete, StoreComplete, StoreTyped
  <2>2. IsVideo(a)' = IsVideo(a) /\ OfKey(a)' = OfKey(a) BY <1>3 DEF IsVideo, OfKey
  <2> QED BY <1>3, <2>1, <2>2
          DEF Final, AllTraced, Traced, RowIsTaken, FileIsOwned
<1>6. Proper(a) BY <1>3, <1>4, <1>5 DEF Proper, OnlyMoves, Guarded
<1> QED BY <1>2, <1>3, <1>6, ProperStaysFinal

LEMMA OutsideStaysFinal ==
    ASSUME Complete, Final, NEW seen \in SUBSET Publishers,
           Runs, LookingOn(seen) \/ LookInvalidates \/ Evict \/ Seal
    PROVE  Final'
<1>1. LifeGrows BY RunsGrow
<1>2. StoreTyped /\ LifeTyped /\ looker \in LookRecords
  BY DEF Complete, StoreComplete, RestTyped
<1>3. UNCHANGED <<offer, pub, eraser>>
  BY DEF LookingOn, Look, LookReads, LookAnswers, LookInvalidates, Evict, Seal
<1>4. \A q \in Publishers : RowSpared(q)
  <2>1. CASE LookingOn(seen) \/ Seal
    BY <2>1 DEF LookingOn, Look, LookReads, LookAnswers, Seal, RowSpared
  <2>2. CASE LookInvalidates
    <3> DEFINE own == Invalidated(looker.seen, looker.held)
    <3>1. own \in SUBSET Publishers /\ \A q \in own : rows[q] = "ready"
      BY <1>2 DEF Invalidated, LookRecords
    <3> HIDE DEF own
    <3>2. Loses(NoLoss, own) BY <2>2 DEF LookInvalidates, own
    <3>3. NoLoss \in {NoLoss} \union Losses({}) OBVIOUS
    <3> QED BY <1>2, <3>1, <3>2, <3>3, LosingSpares
  <2>3. CASE Evict
    <3>1. PICK loss \in Losses({}) : Loses(loss, {}) BY <2>3 DEF Evict
    <3> QED BY <1>2, <3>1, LosingSpares
  <2> QED BY <2>1, <2>2, <2>3
<1> QED BY <1>1, <1>3, <1>4, SparedStaysFinal

LEMMA ErasingStaysFinal == ASSUME Complete, Final, Erasing PROVE Final'
<1>1. Runs BY DEF Runs
<1>2. LifeGrows BY <1>1, RunsGrow
<1>3. UNCHANGED <<offer, pub>>
  BY DEF Erasing, EraserProceeds, MarkDeleted, Enable, LookForGuards, Await, Wake, Erase
<1>4. \A q \in Publishers : Guarded(q)' = Guarded(q) BY <1>3 DEF Guarded
<1>5. eraser \in [pc : {"none", "draining", "looking", "settling", "asleep", "erasing", "done"},
                  told : SUBSET Publishers]
  BY DEF Complete, RestTyped, EraserTyped
<1>6. \A q \in Publishers : RowSpared(q)
  <2>1. CASE Erase
    <3>1. \A q \in Publishers : ~Locks(pub[q])
      BY <2>1 DEF Erase, Final, EraserFits, Guarded, Locks
    <3> QED BY <2>1, <3>1 DEF Erase, RowSpared, Dropping, Unfiled, Rows
  <2> QED BY <2>1 DEF Erasing, EraserProceeds, MarkDeleted, Enable, LookForGuards, Await, Wake,
                      RowSpared
<1>7. AllTraced' BY <1>2, <1>3, <1>6, SparedStaysTraced DEF Final, AllTraced
<1>8. Exclusive' BY <1>3, StaysExclusive DEF Final
<1>9. EraserFits'
  <2>1. CASE Erase
    <3>1. eraser'.pc = "done" /\ \A q \in Publishers : ~Guarded(q) /\ rows'[q] = "none"
      BY <2>1 DEF Erase, Final, EraserFits, Dropping, Rows
    <3> QED BY <1>2, <1>4, <3>1 DEF EraserFits, LifeGrows
  <2>2. CASE LookForGuards
    <3>1. eraser'.pc \in {"erasing", "settling"} /\ (eraser'.pc = "erasing" => Guards = {})
      BY <1>5, <2>2 DEF LookForGuards
    <3> QED BY <1>2, <1>4, <3>1 DEF EraserFits, LifeGrows, Guards
  <2>3. CASE MarkDeleted \/ Enable \/ Await \/ Wake
    <3>1. eraser'.pc \in {"draining", "looking", "asleep"}
      BY <1>5, <2>3 DEF MarkDeleted, Enable, Await, Wake
    <3> QED BY <1>2, <3>1 DEF EraserFits, LifeGrows
  <2> QED BY <2>1, <2>2, <2>3 DEF Erasing, EraserProceeds
<1> QED BY <1>7, <1>8, <1>9 DEF Final

LEMMA CrashStaysFinal == ASSUME Complete, Final, Crash PROVE Final'
<1>1. ~life'.up BY CrashSteps
<1>2. \A q \in Publishers : pub'[q].pc \in {"new", "over"} BY <1>1, CrashQuiets DEF DownIsQuiet
<1>3. UNCHANGED <<offer, rows, files>> /\ eraser' = NoEraser BY DEF Crash
<1>4. \A q \in Publishers : IsVideo(q)' = IsVideo(q) BY <1>3 DEF IsVideo
<1>5. Exclusive' BY <1>2 DEF Exclusive, Locks
<1>6. EraserFits' BY <1>3 DEF EraserFits, NoEraser
<1>7. ASSUME NEW q \in Publishers PROVE Traced(pub[q], q)'
  <2>1. ~IsVideo(q) => pub'[q].round = 1
    <3>1. pub'[q] = Ended("lost") \/ pub'[q] = pub[q] BY DEF Crash
    <3>2. Ended("lost").round = 1 BY DEF Ended, Nobody
    <3> QED BY <3>1, <3>2 DEF Final, AllTraced, Traced
  <2> QED BY <1>1, <1>2, <1>4, <2>1 DEF Traced, RowIsTaken, Filed
<1> QED BY <1>5, <1>6, <1>7 DEF Final, AllTraced

LEMMA RecoverStaysFinal ==
    ASSUME Complete, DownIsQuiet, Final, Recover PROVE Final'
<1>1. \A q \in Publishers : pub[q].pc \in {"new", "over"} BY DEF DownIsQuiet, Recover
<1>2. UNCHANGED <<offer, pub, eraser>> BY DEF Recover
<1>3. \A q \in Publishers : IsVideo(q)' = IsVideo(q) BY <1>2 DEF IsVideo
<1>4. Exclusive' BY <1>1, <1>2 DEF Exclusive, Locks
<1>5. EraserFits' BY <1>2 DEF EraserFits, Final, Recover
<1>6. ASSUME NEW q \in Publishers PROVE Traced(pub[q], q)'
  <2>1. files'[q] = "none" \/ (rows'[q] = "ready" /\ files'[q] = "final") BY DEF Recover
  <2> QED BY <1>1, <1>2, <1>3, <2>1
          DEF Final, AllTraced, Traced, RowIsTaken, FileIsOwned, Filed
<1> QED BY <1>4, <1>5, <1>6 DEF Final, AllTraced
------------------------------------------------------------------------------
(* Final is inductive beside Complete.                                      *)

LEMMA InitFinal == ASSUME PublicationInit PROVE Final
<1>1. \A p \in Publishers : pub[p] = Nobody /\ rows[p] = "none" /\ files[p] = "none"
  BY DEF PublicationInit
<1>2. Nobody.pc = "new" /\ Nobody.round = 1 BY DEF Nobody
<1>3. eraser.pc = "none" BY DEF PublicationInit, NoEraser
<1>4. Exclusive BY <1>1, <1>2 DEF Exclusive, Locks
<1>5. EraserFits BY <1>3 DEF EraserFits
<1>6. AllTraced BY <1>1, <1>2 DEF AllTraced, Traced, RowIsTaken, FileIsOwned, Filed
<1> QED BY <1>4, <1>5, <1>6 DEF Final

LEMMA NextFinal ==
    ASSUME IsComplete, Final, [PublicationNext]_publicationVars PROVE Final'
<1>1. Complete /\ DownIsQuiet BY DEF IsComplete
<1>2. ASSUME NEW p \in Publishers,
             \/ Quiet(p) \/ Removing(p) \/ Stage(p) \/ Filing(p) \/ ReclaimFails(p)
             \/ Finalize(p) \/ Withdraw(p) \/ DamageFile(p)
      PROVE  Final'
  BY <1>1, <1>2, QuietStaysFinal, RemovingStaysFinal, StageStaysFinal, FilingStaysFinal,
     ReclaimFailsStaysFinal, FinalizeStaysFinal, WithdrawStaysFinal, DamageStaysFinal
<1>3. ASSUME NEW seen \in SUBSET Publishers, Runs,
             LookingOn(seen) \/ LookInvalidates \/ Evict \/ Seal
      PROVE  Final'
  BY <1>1, <1>3, OutsideStaysFinal
<1>4. CASE Runs
  <2>1. CASE \E p \in Publishers : LookingOn({p}) BY <1>3, <1>4, <2>1
  <2>2. CASE LookingOn({}) \/ LookInvalidates \/ Evict \/ Seal BY <1>3, <1>4, <2>2
  <2>3. CASE Erasing BY <1>1, <2>3, ErasingStaysFinal
  <2> QED BY <1>2, <1>4, <2>1, <2>2, <2>3 DEF Runs
<1>5. CASE Crash BY <1>1, <1>5, CrashStaysFinal
<1>6. CASE Recover BY <1>1, <1>6, RecoverStaysFinal
<1>7. CASE UNCHANGED publicationVars
  BY <1>7 DEF publicationVars, Final, Exclusive, AllTraced, Traced, RowIsTaken, FileIsOwned,
              EraserFits, Excused, IsVideo, OfKey, Guarded, Locks
<1> QED BY <1>4, <1>5, <1>6, <1>7, NextRuns

\* delete_session fences the session, waits for every guard, and removes all under the gate;
\* publish_file undoes what a cancellation met. Once the deletion is done no row comes back, and
\* a file is left only by a failed step or, of an image, by the eviction of the row under it.
THEOREM DeletionStaysFinal == PublicationSpec => []DeletionIsFinal
<1>1. PublicationInit => Final BY InitFinal
<1>2. IsComplete /\ Final /\ [PublicationNext]_publicationVars => Final' BY NextFinal
<1>3. Final => DeletionIsFinal
  <2> SUFFICES ASSUME Final, eraser.pc = "done", NEW a \in Publishers
               PROVE  /\ rows[a] = "none"
                      /\ files[a] # "none" => Excused(a)
    BY DEF DeletionIsFinal, Excused
  <2>1. rows[a] = "none" /\ pub[a].pc \in {"new", "over"} /\ life.up
    BY DEF Final, EraserFits, Guarded
  <2> QED BY <2>1 DEF Final, AllTraced, Traced, FileIsOwned
<1> QED BY <1>1, <1>2, <1>3, AlwaysComplete, PTL DEF PublicationSpec
==============================================================================
