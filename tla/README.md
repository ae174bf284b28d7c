# Krometrail: verification project

Krometrail is a local browser-recording daemon for coding agents. It captures screencast frames
and browser events over the Chrome DevTools Protocol, stores them under a disk budget and serves
temporal evidence to an agent over MCP. This directory holds TLA+ models of the parts whose
correctness depends on interleavings, failures and restarts, the TLC configurations that check
them, and TLAPS proofs of the central invariants.

1. Inventory of the system
2. Modules, and how they correspond to the code
3. Runs: what is checked, on which bounds
4. Fairness
5. Proofs
6. Disagreements between the code and its documentation
7. What is only model-checked, abstracted or not modelled
8. Plan

Paths below are relative to `src/crates/krometrail-store/src/` unless they start with `src/`.

## 1. Inventory of the system

One process per MCP client. Each process owns a directory (its *root*) under a shared `instances/`
directory, a recording store in it, at most a few browsers, and the MCP connection on stdio.

| component | state | operations | what makes it hard |
|---|---|---|---|
| instance ownership (`instance.rs`) | root directories, lock files, file locks of the kernel, the census's cached counts | create a root, lock it, enumerate peers, claim, reclaim, count | processes interleave at every system call; a process may end between any two |
| segment writer (`segments/`) | open segment per (session, target), a latched terminal error, a command channel | append, flush, with rotation and sealing | every step can fail; the caller may be gone; buffered bytes, file syncs and directory syncs have different durability |
| index (`index/`) | SQLite tables in WAL mode | one transaction per operation | a committed transaction is durable only after a checkpoint |
| recovery (`recovery.rs`, `index/reconcile.rs`) | segment files, rows | cut damaged tails, seal, quarantine, drop and insert rows | crashes again while it recovers |
| deletion and retention (`retention/`, `index/deletion.rs`, `index/retention.rs`) | deletion journal, `.trash`, pins, usage | budget cleanup, age-out, session deletion, pin, replay at open | a batch has five steps in two threads, and any of them can be the last |
| artifact publication and reads (`recording.rs`, `artifacts/`) | in-memory registry of running publications and deleted sessions, cache locks, rows, files | look up, stage, write, rename, finalize, withdraw, invalidate; snapshot of rows, unlocked read, second look | evidence moves, seals or vanishes during a read; cancellation, eviction and deletion at every await |
| browser-event store (`index/browser_events.rs`) | rows | append, query, evict | shares the budget with frames |
| capture pipeline (`src/crates/krometrail-cdp/src/capture/`) | queue, gap ledger, counters, stream state | frame in, persist, pause, suspend, stop, shutdown | reader and worker on different threads; a deadline over the whole drain |
| browser-event pipeline (`src/crates/krometrail-cdp/src/events/`) | queues, correlation of requests | normalise, persist, gaps | the same, with correlation across events |
| target reducer (`src/crates/krometrail-cdp/src/targets/`) | targets, attachment generations | apply transport and supervisor inputs | late events of an earlier generation |
| subscriber fan-out (`targets/supervisor.rs`) | bounded queues, lag ranges, terminal event | subscribe, publish, next | a slow receiver |
| session runtime (`src/crates/krometrail-cdp/src/session/`) | supervisor state, connection, partial attachments | commands, reconnect, shutdown | a stop that races a reconnect |
| page control (`src/crates/krometrail-cdp/src/control/`) | snapshot registry | navigate, interact, wait | references of an old document |
| launcher (`src/crates/krometrail-cdp/src/launcher/`) | profile lease, child process | start, discover, kill | the operating system |
| artifact service (`src/src/artifacts/`) | flights, semaphores | join, generate, cancel | joiners that come and go |
| range handles (`src/src/range_handles.rs`) | handle table | register, resolve | evidence evicted after the check |
| MCP server (`src/crates/krometrail-mcp/`) | running requests, stop deadline, writer stall latch | dispatch, cancel, stop | requests dropped between two effects |
| video, debug bundles, progressive service | request-scoped | plan, compose | a pipeline of the above |
| `temporal-vision`, `temporal-evaluation`, `krometrail-core` | none | pure functions | data, not control |

How they interact: the capture pipeline calls `append_frame` and `append_gap` of the store, which
sends to the segment writer and commits what it answers; `flush_session` is called when a session
stops, before a pin and before a deletion. After each append the store runs the budget loop, whose
share of the budget comes from the instance census, and which removes evidence through the deletion
journal and its removal worker. Readers and the artifact service see the same rows. At start the
process acquires its root, reclaims abandoned ones, opens the store (recovery, then the replay of the
journal) and only then serves requests.

What makes each modelled component correct:

- *instance ownership*: a live process's root is never claimed, unlinked or emptied by a peer, and
  every live peer is counted when the budget is divided;
- *segment writer, index and recovery*: a committed frame row always names a complete record; what
  the index calls sealed is durable and never changes; a flush that returned Ok survives power loss;
  recovery leaves nothing to recover;
- *deletion*: no row without its file or a batch that explains it, no file in `.trash` without a
  batch, no byte on the disk that the budget forgot, no return of a deleted session, no loss of a
  pinned segment, and the gate is always let go;
- *artifacts*: a ready artifact has its file and its source frames; what a read answers is retained when it
  is answered; a deleted session's publications leave nothing, and the deletion that waits for them ends;
- *capture*: every observed frame is stored, counted by a gap or counted as abandoned; a frame labelled
  with a certain geometry has the page's; streams that accept frames are admitted and counted; ordinals
  are never used twice; streams and effects end;
- *supervisor*: the map of sessions leads to the right targets, captures follow their bindings, the view of a quiet browser is the
  browser's, a lost connection is resolved;
- *subscribers*: every revision is delivered or reported as missed, and the end comes last;
- *artifact flights*: sharing work is invisible to the requests that share it, and each is answered.

## 2. Modules, and how they correspond to the code

### InstanceOwnership

`instance.rs`, as `open_storage_with_budget` (`src/src/app.rs`) calls it. One action per system call:
the exclusive `mkdir`, opening the lock file, `flock`, reading the directory names, pinning a
candidate's identity, opening and locking its lock file, comparing the identity again, removing one
recording-cache member, unlinking the lock file, `rmdir`. Variables are the file system (`dir`: the
identity a root's name leads to; `link`: the inode its lock file's name leads to; the members), the
descriptors each process holds (`fd`, `cfd`), the kernel's table of locks (`flock`) and each
process's position. Inodes are allocated lowest-first, which stands for any fresh number. `Stop` ends
a process anywhere; the kernel then drops its locks and nothing else. `Replace` is a directory that
another program removes and recreates.

The history variables `exposed` (roots enumerated by a peer before their owner locked them), `since`
and `basis` (who was running when a census began) serve the properties only; no action's effect on the
program's state depends on them.

### SegmentStore and EvidenceLog

`SegmentStore` has three actors. The *caller* holds the store's mutation gate (`append_frame`,
`flush_session`, `flush_all`); `Cancel` drops its future, after which the writer still carries out
what it was sent and the next call queues behind. The *worker* is the blocking thread of
`segments/writer.rs`: `Take`, then for every segment to seal `StartSeal`, `WriteFooter`,
`SyncSealed`, `RenameSealed`, `PublishSealed`, then for an append `CreateOpen`, `WriteHeader`,
`PublishOpen`, `WriteRecord`. Each has a `...Fails` action with the `WriterRecoverability` the code
gives that failure (a latched `terminal`, or a writer that goes on). The *recovery* pass of
`recovery.rs` has `Quarantine`, `RepairFile`, `PublishRepaired`, `DropRowsOfLost`,
`DropLostSegment`, `DropStaleRows`, `ReconcileSegment` and `FinishRecovery`, with a process crash or
a power loss possible between any two.

A file has a live and a durable half: records written and records kept, its name and the name a
power loss would show (`dname` follows at the directory sync), its tail and the kept tail. The index
likewise has `past`, the earlier states the write-ahead log may fall back to until a checkpoint
(`flush_session` and `flush_all` force one).

`EvidenceLog` is what the store promises in seven actions: a frame is offered, recorded, secured by a
flush; a stop may lose unsecured frames, never secured ones; after the restart everything recorded is
readable. `KeepsItsPromises` in `SegmentStore` is the refinement, with
*recorded* mapped to the frames of acknowledged appends and *secured* to the frames under a flush.

### DeletionJournal

The removal of evidence: `cleanup_to`, `enforce_age_out`, `delete_session`, `pin` and `unpin`, and the
replay `resume_deletions` in `open`. One *task* holds the gate and walks through the steps `flush`,
`decide`, `walk`, `checkpoint`, `stage`, `metadata`, `finalize`, `forget`; the removal *worker*
(`retention/removal.rs`) moves a batch's files to `.trash/<batch>` one at a time, syncs, and later
unlinks them one at a time. The file of an object is at one `place`; `synced` is where power loss
would leave it. `index` has the rows, the pins, the usage rows, the tombstones of evicted ranges and
the journal; `older` holds the states before the last checkpoint. `Cancel` drops the task's future
while the worker goes on; `StepFails` and `WorkerFails` leave the batch in the journal; `Crash` and
`PowerLoss` are followed by `Recover` (which, as in the code, runs before the replay and drops rows
whose file is not where it looks) and one `Resume` per unfinished batch.

### ArtifactPublication

Publishing an image or a video, and everything that may take it away: `publish_artifact` and
`publish_video_artifact` with the unlocked read of their sources and the second look, the capacity walks
before and after the file is written, the file worker of `artifacts/files.rs` (synced temporary file,
rename, directory sync, a look for a cancellation after each), `finalize_artifact`, and both ways out of a
failure; `read_artifact` and the reads of source frames; eviction of an artifact, or of the source segment
with all its artifacts; `delete_session` with the drain of `PublicationRegistry` (`artifacts/mod.rs`); a
crash and `artifacts/recovery.rs`. A step is what happens under one hold of the mutation gate, or one step
outside of it. `pub` has one record per publisher: its place, which round of source checks it is in, the
snapshot it reads. `offer` says who publishes what under which cache key: two publishers of one key meet in
the cache lock, in the row the first left, and in each other's invalidations. An artifact is named after its
publisher, and all are made from one segment, which is enough for everything but the choice between
segments. The batch by which objects are removed is one step here and `DeletionJournal` there.

### CaptureStream

One screencast stream (`src/crates/krometrail-cdp/src/capture/pipeline.rs`). The frame reader, the
visibility reader, the worker behind the bounded queue and the calls that start, suspend and stop the
stream interleave at every critical section of the state and control mutexes and at every await. A frame
is a unit of a counter. `rt` is `RuntimeState`; `gate` is the control block (accepting flag, sender,
fence); `store` is what the sink has durably. `Transition` and `StatusIsValid` are the state machine and
the constructor of `krometrail-core` that `status_from_state` expects to succeed. `stop_target` is one step
per critical section: the position of `stop` goes from `running` over `announcing`, `sending`, `joining`,
`counting`, `recounting`, `reading`, `declaring`, `closing` and `reporting` to `done`, and the worker, the
reader and the status calls run between any two. In particular the two calls of `abandon_queue`
(`pipeline.rs:1313` and `1319`) are steps of their own. Which adjacent sections of other tasks are one step
is listed at the head of the module. Three ghosts in `env` count frames that left without a trace by design
(their acknowledgement was under way when the reader was aborted, or when a newer attachment generation took
the ordinals), frames counted only by gaps an aborted worker had in hand (`lostGaps`), and frames whose
acceptance was recorded too late for `abandon_queue` (`late`).

### CaptureGeometry

The geometry authority of one stream: changes of the page, the reader of geometry events, the refreshes
and viewport overrides the supervisor runs, and a frame whose acknowledgement is under way. The page's
geometry is the number of changes it has been through, so that the older of two observations is known.
The readers of the several event types are one reader; `GeometryEventsClose` begins and finishes its
transition in one step; the startup before the event subscriptions exist is left out.

### CaptureAdmission

The coordinator around the streams: admission under `max_active_streams`, the startup tasks with their
abort and their failures, the registry, the ordinals that attachments of one target share, and the
supervisor's effects (start, restart, suspend, stop, end of the generation, shutdown). What happens
inside a stream is `CaptureStream`; when an effect is asked for is `TargetSupervisor`.

### TargetSupervisor

The target reducer (`targets/reducer.rs`), the application of its effects (`session/runtime.rs`) and
the reconnect transaction (`session/reconnect.rs`). `reduce` is a pure operator: a state and an input give
a state, effects in order, and whether every step was legal. `run` is the position of the supervisor
loop: idle, applying (every effect awaits the browser, and the reductions its answers cause are nested),
waiting for the next attempt, attempting (a draft state that is published or thrown away), ended. The
browser is external: pages, flat sessions, one queue per kind of event with a pump each, the loss of the
connection, commands that fail. `Starts` is the set of small browsers a behaviour may begin with; each
carries the bounds of its run.

### SubscriberFanout

`targets/supervisor.rs`: a publication visits the subscribers under the registry mutex, one `try_send`
after the other; a full queue extends the lag range, the terminal event goes to a slot of its own.
`next()` looks at the lag, the queue and the slot in separate critical sections, between which a
publication may run.

### ArtifactFlights

`src/src/artifacts/`: requests that look their outputs up, join or lead a flight for those that are
missing and wait, the flight's task with its groups, and the permits for requests, memory and blocking
jobs. Waiters leave at any time (cancellation, deadline, a dropped future); the last one cancels the
flight. An error is a group's (`GroupFails`: its outputs get it as their entry) or the whole flight's
(`FlightFails`: every waiter is answered with it). `late` is a ghost: who joined a flight that had been
cancelled before.

### The modules for TLC

`MCInstanceOwnership`, `MCSegmentStore`, `MCDeletionJournal`, `MCCapture`, `MCPublication` and
`MCSupervisor` define the symmetry sets, the structured constants and the starting browsers. Three modules
hold parts that share no state: `MCPipelines` (`SubscriberFanout`, `CaptureGeometry`, `CaptureAdmission`,
`ArtifactFlights`), `MCRecording` (`SegmentStore`, `ArtifactPublication`) and `MCStops`
(`DeletionJournal`, `CaptureStream`). There a behaviour picks its *subject* and the other parts stay where
they start, so one run asks the questions of all of them and the states are their sum, not their product.
`MCRecording` also limits the troubles of `ArtifactPublication` together (`MaxTroubles`,
`MaxSharedTroubles`), and `MCStops` the frames, visibility events and failures of a stream together.

Operators preceded by a comment that starts with `Fault:` are plausible bugs; they are used by no
specification and exist so that each property can be seen to fail when the definition after them is
replaced by them.

## 3. Runs: what is checked, on which bounds

| run | shows | bounds |
|---|---|---|
| `instance_ownership` | `UnexposedOwnerIsUndisturbed`, `UnexposedEvidenceSurvives`: a root that was locked before anyone enumerated it is never claimed, unlinked or emptied; `FreshCensusCountsEveryPeer`: a count taken without errors includes every such owner | two live processes and an abandoned root, 3 identities, 4 inodes, 2 stops, one foreign replacement, one count each, unreadable directories |
| `instance_race` | *violation*: a root enumerated between its creation and its lock is reclaimed under its owner | three processes, two stops |
| `segment_recovery` | `IndexedFramesAreReadable`, `RegisteredSealsAreDurable`, `SealedSegmentsNeverChange`, `RecoveryIsComplete`, and the refinement `KeepsItsPromises` | 2 frames in 2 sessions; one each of failure, dropped call and crash, and one power loss or one damaged file |
| `store_calls` | segments: `CallsReturn`, also when files were damaged from outside; publication: `ReadyArtifactsAreComplete`, `AnswersAreCurrent`, `DeletionIsFinal`, `PublicationsEnd` | 2 frames, one each of failure, dropped call, crash and damage; 2 publishers (two images or two videos of one key, an image and a video of two), one deletion, one each of eviction, mishap, withdrawal, crash and read, two of them together with one publisher and one with two |
| `publication_deleted` | *violation*: a file is left after the deletion of its session | two images, one eviction |
| `journal_replay` | `RowsHaveFilesOrABatch`, `StagedFilesAreJournaled`, `FilesAreCounted`, `DeletedSessionsStayDeleted` | 2 segments, an artifact of the first, 2 batches; one each of failure, dropped call, crash and power loss, any two of them together |
| `journal_and_stream` | journal: `PinnedEvidenceSurvives`, `StoreComesToRest`; capture stream: `EveryFrameIsAccountedFor`, `CompleteStopKeepsEveryFrame`, `AbandonedFramesAreCounted`, `ClosedStreamsEnd` | the same objects, one crash, one power loss, no failed step; queue and ledger of 2; 3 frames, or 2 with a visibility event or a failure, or 1 with both |
| `journal_blocked` | *violation*: a batch that can never be replayed | one failure, one crash |
| `capture_status` | *violation*: the stop of a stream that is paused for budget with frames queued meets a status its constructor refuses | queue and ledger of 2, 3 frames |
| `supervisor` | `SessionMapIsSound`, `SelectionIsUsable`, `CapturesMatchBindings`, `NoCaptureOnReleasedSession`, `QuietViewIsCurrent`, `CleanAttemptsSucceed`, `LostConnectionsAreResolved` | six starting browsers with two pages each, up to three page changes, one lost connection, one failing command, one operation; at most 3 known targets, 1 pending session, 1 reconnect attempt |
| `supervisor_restore` | *violation*: a target whose viewport could not be restored makes every reconnect attempt fail | one start |
| `pipelines` | fan-out: `EveryRevisionIsAccountedFor`, `GapsAreReportedNext`, `EndedIsDeliveredLast`, `StreamsEnd`; geometry: `CertainFramesAreCurrent`; admission: `AcceptingStreamsAreCounted`, `OrdinalsIncrease`, `EffectsEnd`; flights: `SharingIsInvisible`, `RequestsEnd` | 2 subscribers, queue of 1, 3 revisions (a 4th with one subscriber), one abandoned wait; 3 geometry changes, 1 override, 1 frame, 2 command slots; 2 targets, 1 admitted stream, 2 generations, 2 startups, 1 ordinal; 3 requests for 2 outputs, 2 active, 1 memory slot, 1 job, 2 interruptions, 1 failure |

Why the bounds are enough. *Instances*: reclamation involves an owner, a claimant and, for the lock's
orphaned inode, a second claimant; the third process of the configuration is the abandoned root, and
a process can stop inside a reclamation so that the next one finds it half done. *Segments*: a segment
holds at most what the worker appended, so two frames suffice for a rotation and a record behind a
torn one. The faults of one kind act on one file at a time, and the interesting combinations are a fault
followed by a stop, a stop followed by damage, and a stop during recovery, all of which fit one of each.
Damage from outside and power loss are not combined (`MaxDisasters`); that no combination and no number of
them makes a row unreadable is proved (section 5). *Deletion*: two batches are what one needs for a retry to overlap an
unfinished batch; one artifact linked to one of two segments gives both a linked and a free eviction
candidate; two troubles of any kinds meet, such as a step that fails and a power loss that takes its batch
back, and that more of them change nothing is proved (section 5). *Publication*: every race the code guards against has a publisher, one actor that takes something
away, and at most one more trouble (a failure that leaves a row or a file, or a crash); a second publisher
adds the cache lock and the row it finds. Beyond two troubles, safety is proved (section 5). *Capture*: three frames overfill a queue of two, so a frame can be with the reader, in the
queue and with the worker at once, and two gaps overfill nothing but merge with a third. *Supervisor*:
the starts are chosen so that each kind of trouble meets each phase (two pages and one of everything, one
page that changes three times, an emulated viewport that fails, a browser that takes no new connection);
failing viewports and lost connections are kept apart in the passing run because together they are the
violation of `supervisor_restore`. *Pipelines*: a queue of one is full after one revision, so two more make
a lag range that is extended; a transition can be begun, joined and ended while a frame waits for its
acknowledgement; two startups compete for one stream; two requests share one output while the third
wants that and another.

`MaxFailures`, `MaxCancels`, `MaxCrashes`, `MaxPowerLosses`, `MaxFaults`, `MaxProcessCrashes`,
`MaxDamage`, `MaxDisasters`, `MaxStops`, `MaxSwaps`, `MaxCounts`, `MaxFrames`, `StreamFrames`, `StreamFaults`,
`MaxVisibility`, `MaxEvictions`, `MaxMishaps`, `MaxWithdrawals`, `MaxRestarts`, `MaxLooks`, `MaxRevisions`,
`MaxGiveUps`, `MaxChanges`, `MaxOverrides`, `MaxShown`, `MaxGeneration`, `MaxStarts`, `MaxOrdinal`,
`MaxInterrupts` and the numbers of a supervisor start are the only bounds on counters. Segment and
artifact ids are created once each, as UUIDs are.

`CHECK_DEADLOCK FALSE` is set everywhere: an instance with no more frames, objects or faults to offer
has simply nothing left to do, as has a process that ended. That nothing that should go on waits forever
is what the liveness properties check.

Some properties say more than their names: `KeepsItsPromises` contains the durability of flushed frames;
`QuietViewIsCurrent` that reductions nested in the application of effects took place; `StoreComesToRest` that
tasks end and that reopening ends.

`FreshCensusCountsEveryPeer` is about counts: an instance whose first census fails assumes some company
(`AssumedLive`), which no property judges. `AbandonedFramesAreCounted` is about the ledger in memory; what
reaches the store is in section 6.

`StagedFilesAreJournaled` and `FilesAreCounted` except executions with both a process crash and a power loss
(`EntriesWereForced`). The reason is a gap in the code itself: `resume_deletions`
(`recording.rs:331`) stages a replayed batch without the checkpoint that `remove_batch` makes before
staging (`recording.rs:1128`); after a process crash the batch is visible but not durable, and a power
loss during the replay can forget the batch and keep the staged files. The files then stay in
`.trash`, where `open` never looks without a batch. `RowsHaveFilesOrABatch` and
`DeletedSessionsStayDeleted` have no such exception.

`PinnedEvidenceSurvives` is checked without failed steps: with one it does not hold, for the reason given in
section 6 (a pin of a segment that a half-failed batch still names).

## 4. Fairness

- `SegmentStore!FairSpec`: weak fairness of `Worker` (a blocking thread in a receive loop), of
  `Committer` (the caller after the worker's answer, a polled future; the action is disabled
  when the future was dropped) and of `Recovery` (straight-line startup code). Failures, cancellations,
  stops and new calls are not fair.
- `DeletionJournal!FairSpec`: weak fairness of `Task` (a polled future), `Worker` (a blocking thread)
  and `Recover` (startup code). Nothing forces a call to be made or a candidate to exist.
- `ArtifactPublication!PublicationSpec`: weak fairness of `PublicationProceeds`, the steps the runtime takes
  by itself: a publisher's, the file worker's, the drain's, a reader's, the recovery's. A publisher makes
  finitely many steps, and the cache lock is a FIFO mutex each publisher takes once, so no step need be fair
  on its own. Beginning a publication, withdrawing it, evicting, failing and deleting are not fair.
- `CaptureStream!StreamSpec`: weak fairness of what the worker does without waiting for budget or for a
  frame, and of the reader's step after its `try_send`. The browser need not send anything, and a stop
  need not be asked for.
- `TargetSupervisor!FairSpec`: the supervisor task runs while it has effects to apply, an attempt to make
  or an input to take: weak fairness of `Apply`, `Attempt` and the receipts, written out over their
  enabling conditions because TLC would otherwise evaluate `ENABLED` of the whole reducer.
- `SubscriberFanout`, `CaptureAdmission`, `ArtifactFlights`: weak fairness of the disjunction of the steps
  the runtime takes by itself (`FanoutProceeds`, `AdmissionProceeds`, `FlightsProceed`). Each of these
  steps brings its task nearer to its end, so fairness of the disjunction is enough. A browser need not
  answer a startup, and no property counts on a deadline.

None assumes that a step that can fail succeeds: the number of failures is bounded by a constant, and
a task that met one ends with an error.

## 5. Proofs

### InstanceOwnershipProofs

For any number of processes, identities, inodes and stops: `TypeCorrect`; `OwnerIsUndisturbed` (a root
that nobody enumerated before its owner locked it keeps its directory and its lock, and no peer gets past
the lock attempt on it); `EvidenceSurvives` (no step removes a member from such a root).
`UnexposedOwnerIsUndisturbed` is not inductive: that a peer's lock attempt fails follows only if the
peer's descriptor leads to the inode the owner has locked. `IInv` adds that no inode is shared between
roots while it is named or open (`InodesAreDistinct`), who has which descriptor at which point of a claim
(`ClaimsAreOpen`, `OpenedHasFile`), that a scan leaves out its own root (`NeverOwn`), and that nothing but
its owner has touched a root before anyone enumerated it (`UnexposedStart`, `NewIsUnexposed`).
`StepPreservesIInv` has one step per action, `ReplacePreservesIInv` covers the foreign replacement.

`CensusCountsEveryPeer` (`FreshCensusCountsEveryPeer`) has a second invariant on top, `CensusInv`. It compares
the count in progress with the peers in `Dealt(p)`: those that ran undisturbed when the census began, still do,
and are neither a name to pin, nor a candidate, nor the one being claimed. `TalliesCover` says the count is
larger than their number; it grows by one with each root the census finds live, and the only roots it passes
over without counting are those it could claim, which by the first invariant are nobody's who lives undisturbed
(`ClaimedAreNotQuiet`). At the end `Dealt(p)` is all of them, and as peers that have ended never come back the
proven count stays large enough (`ProvenCovers`). `RootDealtWith`, `ScanGoesOn` and `NoCensusStep` are the
lemmas on the three kinds of steps, `OthersStand` that a process does not count for another. TLC checked
`CensusInv` on the bounds of `instance_ownership`. The theorem assumes finitely many processes
(`ProcsAssumption`), for there to be a number of them.

### SegmentStoreProofs

For any number of keys, frames, failures, cancellations, stops and damaged files: `TypeCorrect`, and
`RowsStayReadable`: while the store is open, every committed frame row names a complete record of a
published file. The invariant `IInv` is the conjunction of

- `TypeOK`;
- `CallOrder`: what the caller waits for is what the queue or the worker has, or is void;
- `StoppedIsIdle`: a store that is not open has no call, no command and no open segment;
- `AppendsHaveFrames`: an append in the queue, at the worker or at the committer names an offered frame;
- `FilesInUse`: the file the worker writes, and the files in `open`, have a header and the names the
  writer's position requires;
- `AnswersAreTrue`: an answer that waits to be committed names a record that is in the file;
- `RowsHaveSegments`: a frame row's segment has a row;
- `RowsAreTrue`: every frame row of the current index *and of every state power loss may fall back to*
  is either readable or belongs to a segment that recovery will reconcile before it opens the store.

The last two carry the argument. While the store is open files only grow (`FilesGrow`: a record never
moves, a published file keeps its name), so rows stay true (`GrowingKeepsRows`) and answers stay true
until they are committed (`GrowingKeepsAnswers`). A stop may cut files and roll back the index, which
breaks readability and is allowed while the store is down; recovery drops a segment's false rows when
it reconciles it, and cannot finish before `pending` is empty. There is one lemma `<Action>Keeps` per
action, a few lemmas for the common ends of steps (`DoneKeeps`, `FailureKeeps`, `StepKeeps`,
`CallKeeps`), `InitHolds` and `NextKeeps`; `InvariantHolds` combines them.

`IInv` is about addresses and says nothing of who wrote a record, how far a file is on disk, or what was
promised. `StoreInv` adds:

- `Origins`: each frame is offered, queued and written once and in order (`FramesAreFresh`,
  `FramesAreInOrder`), so it has one record in all files (`OneCopy`), and any row of it in any state the index
  may fall back to names that record (`RowsAgree`);
- `Writes`: a caller that commits left the writer idle (`CommitsAlone`); the files the writer holds are its own,
  one per key, never the one it is sealing, and as far on disk as its position says (`OpenFiles`); what the
  writer reports as sealed and what the index calls sealed cannot change by power loss (`SealsAreComplete`);
  every file of this run is settled on disk, held open or in the worker's hands unless an error is latched
  (`FlushesSettle`);
- `PromisesAreKept`: an acknowledged frame has a readable record, a flushed one a record power loss keeps;
- `RecoveredIsExact`: while recovery indexes, a segment it is done with is described exactly by its rows.

From `StoreInvariantHolds` follow four properties that TLC checks on the small instance:

- `SealsStayDurable` (`RegisteredSealsAreDurable`) and `SealedSegmentsStay` (`SealedSegmentsNeverChange`): a
  sealed segment is never one the worker can write, because its key leaves `open_segments` before the footer
  is written and the committer acts only once the worker is idle;
- `RecoveryFinishesTheJob` (`RecoveryIsComplete`): `FinishRecovery` waits for `pending` to be empty, and then
  `RecoveredIsExact` is `NothingToRecover`; that a row of a foreign segment cannot claim a frame is `OneCopy`;
- `StoreKeepsItsPromises` (`KeepsItsPromises`): every step is a step of `EvidenceLog` or invisible to it.
  `AppendFrame` is *Offer* (`OfferLog`), `CommitFrame` and the failure that leaves the row are *Record*
  (`RecordLog`, by freshness of the frame's rows), `CommitFlush` is *Secure* (`SecureLog`), `ProcessCrash` and
  `PowerLoss` are *Stop* (`StopLog`), `Damage` is *Lose* (`LoseLog`), `FinishRecovery` is *Resume*
  (`ResumeLog`, where `PromisesAreKept` and `RecoveredIsExact` meet); the worker, recovery's other steps, a
  cancellation and the queueing of a flush stutter (`QuietLog`).

What a step keeps of a file is said once (`Keeps`, `FilesKeep`, `RecordsShrink`), so that the lemmas on power loss,
damage and quarantine speak only of what is lost. TLC checked the parts of `StoreInv` on the bounds of
`segment_recovery`, with two crashes and two losses of power, and with three frames of one key. No assumption beyond `StoreAssumption` is used.

### CapturePipelineProofs

Two parts that share no state, `CaptureGeometry` and `CaptureAdmission`.

*Geometry.* `CertainFramesStayCurrent`: for any number of changes, overrides, refreshes and joined transitions, a frame
whose geometry is called certain was acknowledged without the stream being told of a change in between,
and its geometry was observed after the change that began the last transition. `GeometryInv` adds to the
types that the page is ahead of what was told and observed (`ChangesInOrder`), that tokens in hand and in
requests are not newer than the authority's revision (`TokensAreOld`, `RequestsAreOld`), that an observation
which may still end the current transition is not older than the transition (`ObservedInTime`), that the
established geometry is not older than the last ended transition (`EstablishedInTime`), and that a fence
taken before an acknowledgement is still true as long as the revision has not moved (`FenceHolds`).
`GeometryStep` has one step per action; `BeginFacts`, `OldTokensStayOld` and `TakeFirst` are the lemmas on
the operators.

A fence that was read before a transition is joined or begins is never that of the transition's revision
(`NoFenceIsOfBegun`), and tokens in hand stay old (`TokensStayOld`).

*Admission.* For any number of targets, generations, startups and frames, and any cap on the streams:
`StreamsStayCounted` and `OrdinalsKeepIncreasing`. `AcceptingStreamsAreCounted` speaks of readers that accept
frames and of the cap; neither follows from itself. `Orderly` says who holds what in between: a startup has its
reservation from the admission to the registration and drops it in the same step in which its stream is
registered (`ReservationsAreHeld`, `AcceptingIsHeld`); a stream that is not its binding's own has neither a
startup nor an accepting reader (`OthersAreQuiet`), which is what makes a new admission after a stop safe; an
effect under way is about one stream, and once it drains the startup and the reader have ended
(`EffectsAreOrderly`); a shutdown has every registered stream before it (`ShutdownIsOrderly`), so none is left
when it ends. The cap itself (`StreamsAreFew`) is kept on top of `Orderly`, with the cardinality of a set that
grows by at most the admitted stream (`StepIsFew`). For the ordinals, `OrdinalsContinue` relates the fence of a
target to the last ordinal handed out: they agree until nobody can ask for another one.

### CaptureStreamProofs

For any capacity of the queue and of the ledger, any number of frames and visibility events and any number
of failures: `FramesAreAccountedFor`, `CompleteStopsKeepFrames`, `DeadlineStopsCountFrames` and the type
invariant, `StreamIsTyped`. The second and third follow a stop through all of its sections. What the third
excepts, it names: the frames of `lostGaps` and `late`.

The books need sums over a ledger that is appended to, merged and taken. So `Missing` is not a fold but the
cardinality of `Missed`, the set of the frames that gaps count, each named by its gap and its number in it. A
gap at the end adds frames (`AppendMisses`), a gap that grows adds frames (`GrowthMisses`), and the frames of
the other gaps of a ledger are, shifted by one, those of its tail (`HeadMisses`, a bijection); a merge of
the two oldest is two heads taken and one put back (`MakingRoomMisses`). `PushCounts` is what follows for
`Push`: whichever of its four branches is taken, the ledger misses exactly the new gap's frames more and
stays within its capacity. No induction over a sequence is needed.

`StreamInv` adds to the types where the tasks and the stop can be together (`StreamOrderly`), and:

- `QueueIsCounted`: the depth and the frames in flight are no less than what is queued and processed, but for
  one frame that is sent and not yet recorded. The inequality is the code's: a depth that was met at
  zero is not taken down, and is one too high when the acceptance is recorded at last.
- `FramesAreSomewhere`: while the worker runs, received frames are traced (with the reader, stored, in a gap, or known to
  have left), queued or with the worker. This is the property without the hypothesis on the poisoned mutex.
- `EndTakesOnlyQueued`: a worker that has ended took frames with it only if the depth, or a reader still to record its
  acceptance, counts them; a complete stop with an empty depth has lost none.
- `StopOrderly`, part of `StreamOrderly`: a worker is told to abort only by a stop that gives up or a start that
  failed, a stop that completes has seen its worker end, and nothing is found before the first count.
- `AbandonedAreTraced`: from the moment a stop gives up, what it has found, or what its next count is going to
  find (`Pending`), covers whatever the aborted worker goes on to drop, store or lose; a stored frame may be
  counted twice, and only the frames of `lostGaps` and `late` not at all. `Pending` is the counters until
  they are taken; a first count that found something hides the second. `AbandonedStayTraced` is what each
  step is reduced to: it traces as many frames more as it takes from the counters.
- `RejectedIsTraced`, for the frame that does not decode, whose gap is in the ledger and in the
  worker's hands; `StoredAreRecorded`, for a stored frame the worker has yet to record.

`ReaderKeepsBooks`, `WorkerKeepsBooks`, `WatcherKeepsBooks` and `OthersKeepBooks` have one case per action.
The proof made a property stronger than it was first stated: `EveryFrameIsAccountedFor` holds also
while the worker leaves its loop.
TLC checked `StreamInv` on the bounds of `journal_and_stream`. Assumptions: `CaptureAssumption`, and that
`NoFailure` is not one of the stages.

### ArtifactPublicationProofs

For any publishers with any kinds and cache keys, and any number of evictions, failures, withdrawals, reads
and crashes.

`PublicationIsTyped`, `ReadyStayComplete` and `AnswersStayCurrent` rest on `IsComplete`: no row outlives the
source (`RowsHaveSources`), a ready row has its file (`ReadyHaveFiles`), a publication's own row is absent
before it begins and ready only at its end (`OwnRow`), a renamed file is in place as long as its staging row
is (`Written`), the last read of a publication is of an artifact (`LastRead`), and a store that is down has no
publication under way (`DownIsQuiet`). `Written` is what makes `finalize_artifact` safe: between the rename and
the ready row an eviction may take both the row and the file, and then there is no row to finalize.
`AnswersStayCurrent` is an action property: `RecheckHolds` says what a second look establishes, and
`SilentSteps` that no other step answers anyone.

`DeletionStaysFinal` needs `Final` beside it, which follows every file to its end: a file is a ready
artifact's, or its publisher's that will finish or remove it, or excused by a failure or, for an image, by an
eviction (`FileIsOwned`); an image's row is taken from its publisher by evictions alone (`RowIsTaken`), because
whoever clears a stale row does it under the lock of its key (`Exclusive`, `Traced`); once the drain has found
no guard there is none (`EraserFits`), since a publication that begins after the fence is refused.
`ProperStaysFinal` says what a publisher's step must show, and `RowSpared` what it may do to the others.

### SharingProofs

Two components that share no state. *Flights*. For any requests and outputs, any limits of the scheduler, and any number of interruptions and failures:
`SharingStaysInvisible`. `FlightsInv` says that a request that waits has a flight that is there, counts it among its
waiters and makes exactly what it is missing (`WaitersAreServed`, `WaitsFor`); that a flight is named after a
request that will not lead another (`LeadersLeadOnce`), so that leading never overwrites a flight; that every
output of a flight's key is still to be looked up, to be generated, or has its entry, and a stored result has
them all (`Covers`); and that nobody waits for a cancelled flight but who joined it too late
(`CancelledAreLeft`). The steps fall into six kinds, each with a lemma: a task moves its flight on
(`TaskAdvances`, `Continues`), a request moves without touching a flight (`RequestStepMoves`, `MovesOn`), looks
at the result (`OutcomeIsFair`), leaves (`LeavingKeepsInv`), joins or leads (`JoinKeepsInv`), or is notified
(`NotifyKeepsInv`). That the first of a set of outputs is one of them (`FirstIsOne`) needs the least-number
principle, which is drawn from the well-foundedness of the naturals (`LeastExists`). TLC checked `FlightsInv` on
the bounds of `pipelines`.

*Session events*. For any number of subscribers, any capacity of the queue and any number of revisions:
`EveryRevisionStaysAccountedFor`, `GapsStayReportedNext` and the action property `EndedStaysLast`. `Traceable`
is stated per subscriber over a *view* of the registry (`View`: the revision, whether the subscriber still
awaits it, whether the end is announced), its own record and what it was told, so that a step of a reader is
argued about without the registry and a step of the publisher without the other subscribers. Its parts: who
subscribes and who is told of the end (`Enrolled`), nothing is newer than the revision (`Dated`), the queue and
the item in hand are in order and newer than what was delivered (`Sorted`), every revision since the
subscription is delivered, reported, queued, in hand, in the lag or still to come (`Accounted`), and a reader
that has no lag to take has passed nothing by (`GapsFirst`). One lemma per step says what it does to one
subscription (`TakesALag`, `IsSent`, `IsLagging`, ...), one per action that it keeps `Traceable`;
`AlikeFits` disposes of the subscribers a step does not concern.

### TargetSupervisorProofs

For any number of target keys, any limits, any pages at the start, and any number of navigations, lost
connections, failing commands and operations: `SupervisorIsTyped`, `SelectionStaysUsable` and
`SessionMapStaysSound`.

The reducer comes first. `Books` is what it keeps at each of its steps: a target, an entry of the map and a
session that waits name a session only with the page it was handed out for (`Homes`), a live target's
session is in the map (`Mapped`), and in a ready session the selection can be used (`Selects`). One lemma per
operator shows `Keeps`: `Books` stays, the phase stays, no reconnect begins. An input for several targets
handles one key after the other; `EveryTurnKeeps` and `TurnsExist` are the two facts about such a course
that are needed, drawn from the least-number principle, and `DestroysInOrder`, `DiscoversInOrder`,
`RestoresInOrder` and `RebindsInOrder` apply them. `ReduceIsLawful` collects all inputs.

What the reducer alone does not keep is in `IInv`, which is `World` (types of the browser's side; queued
events name sessions of their pages) and `Mind` (the same for the state, the draft of a reconnect, the
sessions it has attached, and the effects that are being applied). Two of its parts are there for the lost
connection. Clearing `target_key_by_session` in `reconnect` is sound only when no live target holds a session:
so `Sound` adds `Calm` in the phase Reconnecting, and `Mind` that this is the committed phase whenever an
attempt runs. And a nested reduction could leave that phase behind, were there one: so while the effects of a
lost connection are applied they are only those that cause none (`Quiet`).

TLC checked `IInv` on the bounds of `supervisor`. Assumption: `SupervisorAssumption`.

### DeletionJournalProofs

For any segments, artifacts, sessions and batches, and any number of failures, dropped calls, crashes and
losses of power: `JournalStaysTyped`, `NoRowPointsAtNothing`, `TrashStaysJournaled`, `BudgetCountsEveryFile`
and `DeletionIsForEver`. Power loss is the difficulty: the model keeps, in `older`, every committed version of
the index that is not yet forced, and in `synced` what would be left of a file. An invariant about the
current index alone is lost with the next power loss, so most parts of `IInv` speak of all of `Surviving`, the
versions that may come back, and of `Gone` files, those that no power loss returns to their directory. `IInv`
has eight groups:

- `Control`: types; the commands of the worker and the call under way are about batches the index holds,
  in the state the step expects, one command per batch; a replay is alone. Inductive on its own.
- `RowsAreBacked`: every row has its file or is in a prepared batch, once recovery has rebuilt the segments
  and, for artifacts, once the store is open.
- `BornFirst`: rows, batches and files are of objects that were created, and an append creates a new one.
- `Trash`: what is in `.trash`, or would be after power loss, is in the entry of every version that may come
  back. That holds because staging only starts when the entry is forced (`StagingWasForced`), which the
  replay does not do: hence the exception, here `NoCrash` and `EntriesWereForced`. And finalizing unlinks all
  before the entry goes (`UnlinkingIsToDo`, `UnlinkingIsDone`).
- `Removal`: a batch whose rows are deleted, in any version, has no file that could return
  (`StagingIsDone`, `RemovedFilesAreGone`); a move that is not yet forced is claimed by a prepared batch
  (`UnsyncedMovesAreClaimed`).
- `Asked`: session batches are of sessions whose deletion was asked for; these are fenced until the process
  ends, and no append past its checks is for one.
- `Counting`: a live file is in a row (`FilesAreIndexed`), a row is counted or claimed (`UsageCovers`),
  and a session batch covers all of its session (`SessionBatchesCover`, `DeadSegmentsAreClaimed`).
- `DeletionsHold`: from the moment the entry of a session batch is forced, each version that may come back
  has removed the session or holds a batch that will (`Clean`, `Pending`); from the end of the batch on, no file
  of the session can come back, and the open index is clean.

`NewSurvivors`, `ObjectFates`, `TaskEntries` and `JobSteps` say once what a step can do to a version, a file,
the call and the queue; the lemmas `...Kept`, one per conjunct, only look at those cases. That recovery
cannot revive a deleted session, although it indexes every segment file it finds, is `RecoveredBare`: no file is
found because none of the session's can be in its directory. `IInv` was also checked by TLC, on the bounds of
`journal_replay`.

`PinsAreHonoured` proves `PinnedEvidenceSurvives` of a store whose steps neither fail nor are dropped
(`Faultless`: `MaxFailures` and `MaxCancels` are 0), with any number of crashes and losses of power. The
hypothesis is the condition the property needs: a failed or dropped call leaves its batch in the
journal, a pin can still be taken on the segment the batch names, and the next replay removes it
(section 6). `PinInv`, on top of `IInv`, has five parts:

- `NothingIsLeftBehind`: in an open store a batch of the journal is the current call's, no artifact or open
  segment blocks the removal of its rows, and the open rows are the writer's. So a call always gets to the
  end of its batch (`BatchSteps`), and a pin finds the journal empty. That the removal is not blocked has to
  be in the invariant: a blocked one would leave its batch without any fault.
- `LiveIsForced`: a file in its live directory stays there when power is lost. So recovery finds the
  segment of a pin after a loss of power too.
- `PinsAreSealed`: every version that may come back pins sealed segments only.
- `UnpinnedIsReleased`: `unpin` gives the promise up before its transaction.
- `PinsAreKept`: the segment of a promise is live and forced, pinned in every version that may come back and
  in no batch of any of them.

Its steps are `KeptStays`, for a pin that was promised before (an eviction takes unpinned segments only, and the
batch of a session one of a session whose deletion was asked for), and `NewPinIsKept`, for the one the step
promises (its checkpoint leaves one version, `RowsAreBacked` gives the file). TLC checked `PinInv` on the
bounds of `journal_and_stream`, and with two sessions, two crashes and two losses of power.

Type invariants are proved for `InstanceOwnership`, `SegmentStore`, `ArtifactPublication`,
`CaptureStream`, `TargetSupervisor` and `DeletionJournal`, and not run.

Assumptions: the named `ASSUME`s of the modules, which only say that the constants are what their
comments call them.

## 6. Disagreements between the code and its documentation

Each has a run whose counterexample is the execution.

1. `instance_race`: the comment at `src/src/app.rs:465` says reclamation "can never race a live
   process". The root exists and is enumerable before its lock is taken, and the owner never checks that
   the file it locked is still the one its root names.
2. `journal_blocked`: a test (`recording.rs:3322`) asserts that a reopened store has no unfinished
   batch. A session deletion prepared while a segment of the session is stranded open refuses on a
   foreign key at every later open, and the store cannot be opened.
3. `capture_status`: `capture/pipeline.rs:440` expects that "runtime state maintains invariants". Stopping
   a stream that is paused for budget with frames queued drops the frames with the channel, reports
   complete, and panics in the status of the stopped stream.
4. `supervisor_restore`: `src/docs/ARCHITECTURE.md:266` says "a restore failure is target-local". A failed
   target keeps its session over a lost connection and makes every attempt of the reconnect fail.

5. `publication_deleted`: `src/docs/SPEC.md:698` says that deletion removes a session's generated artifacts.
   An eviction that takes an image's staging row while its file is written leaves the publisher without a row;
   the error of `finalize_artifact` is let out after the rename (`recording.rs:1753`), and the file, which no row
   names, stays when the session is deleted, until the next start. A video undoes itself. `DeletionIsFinal`
   is the same property with this and failed steps excepted, and is proved.

Noticed while modelling and not given a run.

*Store*: recovery registers orphan records of a file whose repair needed no write without syncing that
file (`recovery.rs:325`). A failed `rename` leaves the writer usable (`segments/writer.rs:609`), where
`src/docs/ARCHITECTURE.md:444` reads as if a sealing failure stopped it. A key leaves `open_segments`
before its segment is sealed, so after a failed rename, directory sync or registration the next flush
succeeds and has nothing to seal (`index/retention.rs:481` says the opposite). A pin looks at the rows
and not at the journal, so it protects nothing of a batch that failed half-way and is replayed
(`src/docs/SPEC.md:539`). `recover` runs before the replay and drops the rows from which an eviction's
tombstone would be made (`src/docs/SPEC.md:590`). A second deletion of a session after a failed one answers
Ok while the first batch still has a file (`src/docs/SPEC.md:698`). The replay without a checkpoint is
described in section 3.

*Artifacts*: `remove_objects` on a row that was evicted meanwhile subtracts its bytes a second time (a
`debug_assert` at `recording.rs:114`). The artifact-file queue has a capacity of 8 (`artifacts/files.rs:128`):
a read that finds it full takes a healthy artifact for an invalid one and deletes it. A failed write leaves
its temporary file until the next start. Sealing the source segment between a read's snapshot and its second
look answers that the evidence is not found (`recording.rs:471`).

*Capture*: a geometry change that is coalesced into a running refresh whose observation is older leaves
stale geometry called certain (`src/docs/VISUAL-EVIDENCE.md:389`); changes between the startup's
observation and the event subscriptions are lost; a refresh dropped by a full command channel leaves
uncertainty until the next event, a visibility event so dropped is lost. `stop_target` of a stream that
is not registered keeps its ordinals. `handoff` records a frame's acceptance after its `try_send`, outside the
control mutex (`capture/pipeline.rs:543-561`), and so may come after a stop has counted (`late`): with one
frame in flight and one sent, the first `abandon_queue` finds 1, the reader records the other, the second finds
1 again, and the greater of the two counts is 1 for two frames; recorded after the second count, the frame is
in no count, and leaves a depth with which the status of the stopped stream is refused. The gaps an aborted
worker had in hand are lost (`lostGaps`), as are those behind a failing append (`capture/pipeline.rs:1225`),
and the gap a stop declares is never appended to the store.

*Supervisor*: with 128 known targets, a closed target that is forgotten to make room keeps its capture
(`reducer.rs:1178`); an event of a page's creation delivered after the one that made it internal records an
internal page; an attach never reconciles the selection; a tab that visits an internal address is closed
and only a listing brings it back; a second attachment of an attached target is refused and its session
leaks; a target that failed over its viewport keeps its session, and when its page is discovered again the
end of that old session fails the new target, whose own session lives (`reducer.rs:536`); `ReconnectExhausted` does not flush the capture (`src/docs/SPEC.md:677`).

*Fan-out*: a lag recorded after the reader's look at it lets one later revision, even `Ended`, be
delivered before the gap (against the name of the test at `targets/supervisor.rs:312`).

*Flights*: a request that joins a flight whose last waiter has left gets its cancellation; a cancelled or
late blocking job runs on after its memory permit is dropped (`src/src/artifacts/scheduler.rs:174`); flights
that hold shared-mask permits while they wait for more memory can block each other until their deadline;
a panic of a flight's task leaves its waiters to theirs (`src/src/artifacts/service.rs:274`).

## 7. What is only model-checked, abstracted or not modelled

*Only model-checked*: liveness (`CallsReturn`, `PublicationsEnd`, `StoreComesToRest`, `ClosedStreamsEnd`,
`LostConnectionsAreResolved`, `StreamsEnd`, `EffectsEnd`, `RequestsEnd`), because the
proof system handles neither liveness under fairness nor `ENABLED`;
and of `TargetSupervisor` also `CapturesMatchBindings`, `NoCaptureOnReleasedSession`, `QuietViewIsCurrent` and
`CleanAttemptsSucceed`. The last two are not true for all constants: a limit of known targets below the
number of pages leaves pages unknown, and `CleanAttemptsSucceed` holds of the starts of `supervisor` and not of
`supervisor_restore`. What a recursive definition computes for every input
is out of reach too. The modules use no recursive operators.

*Abstracted*: bytes, checksums and SQL (a record is complete or torn; a transaction is one step). A segment
is named after the frame it was opened for, in place of a UUID. The writer's command queue has capacity 64 in
the code, which one gate holder with dropped predecessors does not fill on these bounds; it is unbounded
here. The segment size limit is a nondeterministic rotation. In `DeletionJournal` a walk takes any
candidate the queries admit, so it covers every policy order, age limit and grace period but says nothing
about which evidence goes first; publishing an artifact is one step there, and removing objects one step in
`ArtifactPublication`; an append that fails after writing is
left to `SegmentStore`. In `TargetSupervisor` events carry what the reducer decides on; titles, addresses
and openers are left out, and so are operations over a connection that is lost already, whose commands fail.

*Left out*: a live writer whose sealed file somebody else already published (`sealed_publication_is_complete`),
usage rows in `SegmentStore` (they are in `DeletionJournal`), the store dropped in an orderly way while a
worker drains, Windows branches, the cleanup of the pre-instance directory layout. In the program a process
always opens the store in a fresh root, so recovery of an existing root is the contract of the store crate
(`src/crates/krometrail-store/tests/recovery.rs`) and not yet a path of `app.rs`.

*Not modelled*: the components of `PROJECT.json` marked so, each with its reason; most of them are in the plan.

## 8. Plan

Done: `InstanceOwnership`, `SegmentStore` and `EvidenceLog`, `DeletionJournal`, `CaptureStream`,
`CaptureGeometry`, `CaptureAdmission`, `TargetSupervisor`, `SubscriberFanout`, `ArtifactFlights`,
`ArtifactPublication`.

Left, in order: the browser-event pipeline, range handles, MCP
requests, downloads.

Theorems left: `CapturesMatchBindings` and `NoCaptureOnReleasedSession` of `TargetSupervisor`, which need the order
of the effects of captures followed through the nested reductions and the draft.
