--------------------------- MODULE CaptureStream ---------------------------
(* One screencast stream of the capture pipeline: the frame reader, the     *)
(* visibility reader, the worker behind the bounded queue, the gap ledger,  *)
(* and the calls that stop or suspend the stream.                           *)
(*                                                                          *)
(* A step is a critical section of the state or control mutex, or an await. *)
(* The sections of stop_target are steps of their own. Elsewhere a task's   *)
(* adjacent sections without an await in between are one step when they     *)
(* touch different parts of the state, so that nobody who comes in between  *)
(* can tell: a gap and the counter or the state change that goes with it    *)
(* (dropped, complete_processing, Hide, PauseBudget, Suspend),              *)
(* begin_processing and take_gaps, persisted and complete_processing,       *)
(* record_ack and ActualFrame; the accepting flag and what follows it in    *)
(* close_acceptance and in fail; the last state change of fail and the      *)
(* sender it drops.                                                         *)
(*                                                                          *)
(* A frame is a unit of a counter: which frame it is makes no difference to *)
(* what happens to it.                                                      *)
EXTENDS Integers, Sequences, FiniteSets

CONSTANTS
    QueueCapacity,     \* capacity of the ingestion queue
    LedgerCapacity,    \* gaps the ledger keeps apart
    StreamFrames,      \* bound: frames the browser sends
    MaxVisibility,     \* bound: visibility events the browser sends
    StreamFaults,      \* bound: failed starts, acknowledgements, appends, closed event streams
    NoFailure          \* no stage has failed

ASSUME CaptureAssumption ==
    /\ QueueCapacity \in Nat \ {0}
    /\ LedgerCapacity \in Nat \ {0}
    /\ StreamFrames \in Nat /\ MaxVisibility \in Nat /\ StreamFaults \in Nat

VARIABLES
    rt,        \* RuntimeState, behind the state mutex
    gate,      \* the accepting flag, the sender, whether acceptance was closed, the ordinal fence
    queued,    \* frames in the channel
    reader,    \* the frame reader task
    watcher,   \* the visibility reader task
    worker,    \* the worker task, with the gaps it has taken and not yet appended
    stop,      \* the start of the stream, then its suspend_target or stop_target call, with
               \* what abandon_queue has found
    store,     \* what the sink has durably: frames, and missing frames named by gaps
    env        \* bounds used up; and three ghosts: frames that left without a trace, frames
               \* counted only by gaps an aborted worker had in hand, and frames whose acceptance
               \* was recorded too late for abandon_queue

streamVars == <<rt, gate, queued, reader, watcher, worker, stop, store, env>>

Stages == {"Acknowledgement", "FrameEventStream", "FrameEnvelope", "FrameDecode",
           "FramePersistence", "GapPersistence", "VisibilityEventStream"}

ASSUME FailureAssumption == NoFailure \notin Stages

Gap(reason, frames) == [reason |-> reason, frames |-> frames]

InReader == IF reader.pc \in {"acking", "acked", "dropping"} THEN 1 ELSE 0

\* The frames that gaps count, each named by its gap and its number in it.
Missed(gaps) == UNION {{i} \X (1..gaps[i].frames) : i \in DOMAIN gaps}

Missing(gaps) == Cardinality(Missed(gaps))
------------------------------------------------------------------------------
(* The state machine of a stream and the validity of its status.            *)

NextState(state, event) ==
    CASE state = "Starting" /\ event = "StartedVisible" -> "Capturing"
      [] state = "Capturing" /\ event = "Hide" -> "Hidden"
      [] state = "Hidden" /\ event \in {"Show", "ActualFrame"} -> "Capturing"
      [] state \in {"Capturing", "Hidden"} /\ event = "PauseBudget" -> "PausedBudget"
      [] state = "PausedBudget" /\ event = "ResumeBudgetVisible" -> "Capturing"
      [] state = "PausedBudget" /\ event = "ResumeBudgetHidden" -> "Hidden"
      [] state \in {"Starting", "Capturing", "PausedBudget", "Hidden"} /\ event = "Suspend"
            -> "Suspended"
      [] state \in {"Starting", "Capturing", "PausedBudget", "Hidden", "Suspended"}
            /\ event = "Stop" -> "Draining"
      [] state \notin {"Failed", "Stopped"} /\ event = "Failure" -> "Failed"
      [] state = "Draining" /\ event \in {"Drained", "Deadline"} -> "Stopped"
      [] OTHER -> state

\* TargetCaptureStatus::new refuses other states; status_from_state expects that it does not.
StatusIsValid(s) ==
    /\ s.depth <= QueueCapacity
    /\ s.state = "Stopped" => s.depth = 0
    /\ (s.state = "Failed") <=> (s.failure # NoFailure)

\* A status of an invalid state panics under the mutex and poisons it.
Checked(s) == [s EXCEPT !.poisoned = @ \/ ~StatusIsValid(s)]

Transition(s, event) ==
    LET seen == CASE event = "Hide" -> [s EXCEPT !.visible = FALSE]
                  [] event \in {"Show", "ActualFrame"} -> [s EXCEPT !.visible = TRUE]
                  [] OTHER -> s
        next == NextState(s.state, event)
    IN  IF next = s.state THEN seen ELSE Checked([seen EXCEPT !.state = next])
------------------------------------------------------------------------------
(* The bounded gap ledger.                                                  *)

\* Fault: a merged gap forgets what the older one counted.
MergeForgets(first, second) == [first EXCEPT !.frames = second.frames]

Merge(first, second) == [first EXCEPT !.frames = @ + second.frames]

Push(s, gap) ==
    LET gaps == s.gaps
        size == Len(gaps)
        saturation == gap.reason = "Saturated"
    IN  IF saturation /\ s.open /\ size > 0 /\ gaps[size].reason = "Saturated"
        THEN [s EXCEPT !.gaps[size] = Merge(@, gap)]
        ELSE [s EXCEPT !.open = saturation,
                       !.gaps = IF size < LedgerCapacity THEN Append(gaps, gap)
                                ELSE IF size = 1 THEN <<Merge(gaps[1], gap)>>
                                ELSE <<Merge(gaps[1], gaps[2])>> \o SubSeq(gaps, 3, size)
                                     \o <<gap>>]

Dropped(s, reason) == [Push(s, Gap(reason, 1)) EXCEPT !.dropped = @ + 1]

Emptied(s) == [s EXCEPT !.gaps = <<>>, !.open = FALSE]
------------------------------------------------------------------------------
StreamInit ==
    /\ rt = [state |-> "Starting", visible |-> TRUE, depth |-> 0, inFlight |-> 0,
             received |-> 0, accepted |-> 0, dropped |-> 0, persisted |-> 0,
             gaps |-> <<>>, open |-> FALSE, failure |-> NoFailure, poisoned |-> FALSE]
    /\ gate = [accepting |-> TRUE, sender |-> TRUE, closed |-> FALSE, fenced |-> FALSE]
    /\ queued = 0
    /\ reader = [pc |-> "waiting", why |-> NoFailure]
    /\ watcher = [pc |-> "waiting", why |-> NoFailure]
    /\ worker = [pc |-> "receiving", vec |-> <<>>, why |-> NoFailure, aborted |-> FALSE]
    /\ stop = [pc |-> "starting", complete |-> TRUE, abandoned |-> 0]
    /\ store = [frames |-> 0, missing |-> 0]
    /\ env = [visibility |-> 0, faults |-> 0, untraced |-> 0, lostGaps |-> 0,
              late |-> 0]

StreamFault == env.faults < StreamFaults /\ env' = [env EXCEPT !.faults = @ + 1]

\* fail(), first part: acceptance ends and the first failure is kept. The state follows in a
\* second critical section, FailureShows.
StageFails(stage) ==
    /\ gate' = [gate EXCEPT !.accepting = FALSE]
    /\ rt' = [rt EXCEPT !.failure = IF @ = NoFailure THEN stage ELSE @]

FailureShows ==
    /\ rt' = Transition(rt, "Failure")
    /\ gate' = [gate EXCEPT !.sender = FALSE]
------------------------------------------------------------------------------
(* Start, suspension and what they do to the tasks. The readers and the     *)
(* worker run before the screencast is started.                             *)

StartAnswered ==
    /\ stop.pc = "starting"
    /\ rt' = Transition(rt, "StartedVisible")
    /\ stop' = [stop EXCEPT !.pc = "running"]
    /\ UNCHANGED <<gate, queued, reader, watcher, worker, store, env>>

\* Fault: the sender is dropped, but a worker that waits for budget is not notified.
CloseQuietly == gate' = [gate EXCEPT !.accepting = FALSE, !.sender = FALSE]

\* close_acceptance and abort_readers. The worker's wait for budget is notified as well; the
\* readers end where they next await (ReadersAborted).
CloseAcceptance ==
    gate' = [gate EXCEPT !.accepting = FALSE, !.sender = FALSE, !.closed = TRUE]

\* StartupTasks::drop on a refused, failed or cancelled start: the runtime is never registered.
StartFails ==
    /\ stop.pc = "starting"
    /\ CloseAcceptance
    /\ worker' = [worker EXCEPT !.aborted = TRUE]
    /\ stop' = [stop EXCEPT !.pc = "unregistered"]
    /\ UNCHANGED <<rt, queued, reader, watcher, store, env>>

\* suspend_target: nobody joins the worker, which drains what was accepted.
Suspend ==
    /\ stop.pc = "running" /\ ~gate.closed
    /\ CloseAcceptance
    /\ stop' = [stop EXCEPT !.pc = "suspending"]
    /\ UNCHANGED <<rt, queued, reader, watcher, worker, store, env>>

SuspendShows ==
    /\ stop.pc = "suspending"
    /\ rt' = Push(Transition(rt, "Suspend"), Gap("Disconnected", 0))
    /\ stop' = [stop EXCEPT !.pc = "running"]
    /\ UNCHANGED <<gate, queued, reader, watcher, worker, store, env>>

\* An abort takes effect at an await; a frame whose acknowledgement was under way goes with
\* the task.
ReadersAborted ==
    /\ gate.closed /\ stop.pc # "announcing"
    /\ \/ /\ reader.pc \in {"waiting", "acking"}
          /\ reader' = [reader EXCEPT !.pc = "aborted"]
          /\ env' = [env EXCEPT !.untraced = @ + InReader]
          /\ UNCHANGED watcher
       \/ /\ watcher.pc = "waiting"
          /\ watcher' = [watcher EXCEPT !.pc = "aborted"]
          /\ UNCHANGED <<reader, env>>
    /\ UNCHANGED <<rt, gate, queued, worker, stop, store>>

\* A start of a newer attachment generation moves the ordinal fence; only a frame whose
\* acknowledgement is under way can tell.
FenceMoves ==
    /\ gate.closed /\ ~gate.fenced /\ reader.pc = "acking"
    /\ gate' = [gate EXCEPT !.fenced = TRUE]
    /\ UNCHANGED <<rt, queued, reader, watcher, worker, stop, store, env>>
------------------------------------------------------------------------------
(* The frame reader.                                                        *)

\* The loop condition is read before the next event is awaited.
ReaderLoops == [pc |-> IF gate.accepting THEN "waiting" ELSE "ended", why |-> NoFailure]

ReceiveFrame ==
    /\ reader.pc = "waiting" /\ rt.received < StreamFrames
    /\ rt' = [rt EXCEPT !.received = @ + 1]
    /\ reader' = [reader EXCEPT !.pc = "acking"]
    /\ UNCHANGED <<gate, queued, watcher, worker, stop, store, env>>

\* fail_acknowledgement: a bad token, a transport error or the acknowledgement's deadline.
AcknowledgementFails ==
    /\ reader.pc = "acking" /\ StreamFault
    /\ rt' = Push(rt, Gap("AcknowledgementFailed", 1))
    /\ reader' = [pc |-> "fails", why |-> "Acknowledgement"]
    /\ UNCHANGED <<gate, queued, watcher, worker, stop, store>>

\* record_ack, the ordinal and ActualFrame, without an await in between.
Acknowledged ==
    /\ reader.pc = "acking" /\ ~gate.fenced
    /\ rt' = Transition(rt, "ActualFrame")
    /\ reader' = [reader EXCEPT !.pc = "acked"]
    /\ UNCHANGED <<gate, queued, watcher, worker, stop, store, env>>

\* A newer attachment generation holds the ordinals: the frame is skipped without a gap.
AcknowledgedStale ==
    /\ reader.pc = "acking" /\ gate.fenced
    /\ reader' = ReaderLoops
    /\ env' = [env EXCEPT !.untraced = @ + 1]
    /\ UNCHANGED <<rt, gate, queued, watcher, worker, stop, store>>

RejectEnvelope ==
    /\ reader.pc = "acked" /\ StreamFault
    /\ rt' = Dropped(rt, "Rejected")
    /\ reader' = [pc |-> "fails", why |-> "FrameEnvelope"]
    /\ UNCHANGED <<gate, queued, watcher, worker, stop, store>>

ReceiverGone == worker.pc \in {"ended", "aborted"}

\* handoff, under the control mutex: try_send answers Ok, Full or Closed.
Handoff ==
    /\ reader.pc = "acked"
    /\ IF ~gate.sender \/ ~gate.accepting \/ ReceiverGone
       THEN reader' = [pc |-> "dropping", why |-> "CaptureStopped"] /\ UNCHANGED queued
       ELSE IF queued = QueueCapacity
       THEN reader' = [pc |-> "dropping", why |-> "Saturated"] /\ UNCHANGED queued
       ELSE reader' = [reader EXCEPT !.pc = "sent"] /\ queued' = queued + 1
    /\ UNCHANGED <<rt, gate, watcher, worker, stop, store, env>>

DropFrame ==
    /\ reader.pc = "dropping"
    /\ rt' = Dropped(rt, reader.why)
    /\ reader' = ReaderLoops
    /\ UNCHANGED <<gate, queued, watcher, worker, stop, store, env>>

\* abandon_queue has counted for the last time, or its first count hides what the second finds.
CountedAlready ==
    \/ stop.pc \in {"reading", "declaring", "closing", "reporting", "done"}
    \/ stop.pc = "recounting" /\ stop.abandoned > 0

\* The state mutex is taken only after try_send: the worker may have the frame already, and a
\* stop may have counted what it abandons.
RecordAccepted ==
    /\ reader.pc = "sent"
    /\ rt' = [rt EXCEPT !.depth = @ + 1, !.open = FALSE, !.accepted = @ + 1]
    /\ reader' = ReaderLoops
    /\ env' = [env EXCEPT !.late = IF CountedAlready THEN @ + 1 ELSE @]
    /\ UNCHANGED <<gate, queued, watcher, worker, stop, store>>

ReaderFails ==
    \/ /\ reader.pc = "waiting" /\ StreamFault
       /\ reader' = [pc |-> "fails", why |-> "FrameEventStream"]
       /\ UNCHANGED <<rt, gate, queued, watcher, worker, stop, store>>
    \/ /\ reader.pc = "fails" /\ StageFails(reader.why)
       /\ reader' = [reader EXCEPT !.pc = "failing"]
       /\ UNCHANGED <<queued, watcher, worker, stop, store, env>>
    \/ /\ reader.pc = "failing" /\ FailureShows
       /\ reader' = [reader EXCEPT !.pc = "ended"]
       /\ UNCHANGED <<queued, watcher, worker, stop, store, env>>
------------------------------------------------------------------------------
(* The visibility reader.                                                   *)

SeesVisibility ==
    /\ watcher.pc = "waiting" /\ env.visibility < MaxVisibility
    /\ env' = [env EXCEPT !.visibility = @ + 1]
    /\ watcher' = [watcher EXCEPT !.pc = IF gate.accepting THEN @ ELSE "ended"]
    /\ UNCHANGED <<gate, queued, reader, worker, stop, store>>

\* A gap is declared only when the state changed.
TargetHides ==
    /\ SeesVisibility
    /\ LET hidden == Transition(rt, "Hide")
       IN  rt' = IF hidden.state = rt.state THEN hidden ELSE Push(hidden, Gap("TargetHidden", 0))

TargetShows ==
    /\ SeesVisibility
    /\ rt' = Transition(rt, "Show")

WatcherFails ==
    \/ /\ watcher.pc = "waiting" /\ StreamFault
       /\ watcher' = [pc |-> "fails", why |-> "VisibilityEventStream"]
       /\ UNCHANGED <<rt, gate, queued, reader, worker, stop, store>>
    \/ /\ watcher.pc = "fails" /\ StageFails(watcher.why)
       /\ watcher' = [watcher EXCEPT !.pc = "failing"]
       /\ UNCHANGED <<queued, reader, worker, stop, store, env>>
    \/ /\ watcher.pc = "failing" /\ FailureShows
       /\ watcher' = [watcher EXCEPT !.pc = "ended"]
       /\ UNCHANGED <<queued, reader, worker, stop, store, env>>
------------------------------------------------------------------------------
(* The worker. Its pc names what it awaits or is about to do; with gaps in  *)
(* hand, "before", "resuming" and "final" are the three calls of            *)
(* persist_pending_gaps and "direct" is the gap of a frame that does not    *)
(* decode.                                                                  *)

\* recv answers before begin_processing takes the state mutex.
WorkerReceives ==
    /\ worker.pc = "receiving" /\ queued > 0
    /\ queued' = queued - 1
    /\ worker' = [worker EXCEPT !.pc = "taken"]
    /\ UNCHANGED <<rt, gate, reader, watcher, stop, store, env>>

TakesGaps(s, pc) ==
    /\ rt' = Emptied(s)
    /\ worker' = [worker EXCEPT !.pc = pc, !.vec = s.gaps]

BeginProcessing ==
    /\ worker.pc = "taken"
    /\ TakesGaps([rt EXCEPT !.depth = IF @ = 0 THEN 0 ELSE @ - 1, !.inFlight = @ + 1], "before")
    /\ UNCHANGED <<gate, queued, reader, watcher, stop, store, env>>

AppendGap ==
    /\ worker.vec # <<>>
    /\ store' = [store EXCEPT !.missing = @ + Head(worker.vec).frames]
    /\ worker' = [worker EXCEPT !.vec = Tail(@)]
    /\ UNCHANGED <<rt, gate, queued, reader, watcher, stop, env>>

\* The gaps behind the one that fails are lost.
AppendGapFails ==
    /\ worker.vec # <<>> /\ StreamFault
    /\ worker' = [worker EXCEPT !.vec = <<>>, !.why = "GapPersistence",
                      !.pc = IF @ = "final" THEN "failsLast" ELSE "fails"]
    /\ UNCHANGED <<rt, gate, queued, reader, watcher, stop, store>>

GapsAppended ==
    /\ worker.vec = <<>> /\ worker.pc \in {"before", "direct", "final"}
    /\ worker' = [worker EXCEPT
                     !.pc = CASE @ = "before" -> "appending" [] @ = "direct" -> "fails"
                              [] @ = "final" -> "ended",
                     !.why = IF worker.pc = "direct" THEN "FrameDecode" ELSE NoFailure]
    /\ queued' = IF worker.pc = "final" THEN 0 ELSE queued
    /\ UNCHANGED <<rt, gate, reader, watcher, stop, store, env>>

\* The rejected frame's gap is appended here and stays in the ledger as well.
RejectDecode ==
    /\ worker.pc = "appending" /\ StreamFault
    /\ rt' = Push([rt EXCEPT !.inFlight = IF @ = 0 THEN 0 ELSE @ - 1], Gap("Rejected", 1))
    /\ worker' = [worker EXCEPT !.pc = "direct", !.vec = <<Gap("Rejected", 1)>>]
    /\ UNCHANGED <<gate, queued, reader, watcher, stop, store>>

StoreFrame ==
    /\ worker.pc = "appending"
    /\ store' = [store EXCEPT !.frames = @ + 1]
    /\ worker' = [worker EXCEPT !.pc = "appended"]
    /\ UNCHANGED <<rt, gate, queued, reader, watcher, stop, env>>

\* record_persisted expects persisted <= accepted, under the state mutex.
RecordPersisted ==
    /\ worker.pc = "appended"
    /\ rt' = [rt EXCEPT !.persisted = @ + 1,
                        !.inFlight = IF @ = 0 THEN 0 ELSE @ - 1,
                        !.poisoned = rt.persisted = rt.accepted]
    /\ worker' = [worker EXCEPT !.pc = "receiving"]
    /\ UNCHANGED <<gate, queued, reader, watcher, stop, store, env>>

LosesFrame ==
    Push([rt EXCEPT !.inFlight = IF @ = 0 THEN 0 ELSE @ - 1], Gap("PersistenceRejected", 1))

AppendFrameFails ==
    /\ worker.pc = "appending" /\ StreamFault
    /\ rt' = LosesFrame
    /\ worker' = [worker EXCEPT !.pc = "fails", !.why = "FramePersistence"]
    /\ UNCHANGED <<gate, queued, reader, watcher, stop, store>>

BudgetExhausted ==
    /\ worker.pc = "appending" /\ StreamFault
    /\ rt' = Transition(LosesFrame, "PauseBudget")
    /\ worker' = [worker EXCEPT !.pc = IF gate.accepting THEN "paused" ELSE "leaving"]
    /\ UNCHANGED <<gate, queued, reader, watcher, stop, store>>

\* wait_until_recording_allowed: the budget is available again, or acceptance was closed.
BudgetAvailable ==
    /\ worker.pc = "paused"
    /\ TakesGaps(rt, "resuming")
    /\ UNCHANGED <<gate, queued, reader, watcher, stop, store, env>>

PauseInterrupted ==
    /\ worker.pc = "paused" /\ gate.closed
    /\ worker' = [worker EXCEPT !.pc = "leaving"]
    /\ UNCHANGED <<rt, gate, queued, reader, watcher, stop, store, env>>

\* The retention's wait answers with an error: the worker leaves a stream nobody has closed.
PauseFails ==
    /\ worker.pc = "paused" /\ StreamFault
    /\ worker' = [worker EXCEPT !.pc = "leaving"]
    /\ UNCHANGED <<rt, gate, queued, reader, watcher, stop, store>>

\* resume_budget_transition reads the visibility in one critical section, transition uses it
\* in the next.
ReadVisibility ==
    /\ worker.pc = "resuming" /\ worker.vec = <<>>
    /\ worker' = [worker EXCEPT !.pc = IF rt.visible THEN "resumeVisible" ELSE "resumeHidden"]
    /\ UNCHANGED <<rt, gate, queued, reader, watcher, stop, store, env>>

ResumeStream ==
    /\ worker.pc \in {"resumeVisible", "resumeHidden"}
    /\ rt' = Transition(rt, IF worker.pc = "resumeVisible" THEN "ResumeBudgetVisible"
                                                           ELSE "ResumeBudgetHidden")
    /\ worker' = [worker EXCEPT !.pc = "receiving"]
    /\ UNCHANGED <<gate, queued, reader, watcher, stop, store, env>>

StreamWorkerFails ==
    \/ /\ worker.pc \in {"fails", "failsLast"} /\ StageFails(worker.why)
       /\ worker' = [worker EXCEPT !.pc = IF @ = "fails" THEN "failing" ELSE "failingLast"]
       /\ UNCHANGED <<queued, reader, watcher, stop, store, env>>
    \/ /\ worker.pc \in {"failing", "failingLast"} /\ FailureShows
       /\ worker' = [worker EXCEPT !.pc = IF @ = "failing" THEN "leaving" ELSE "ended"]
       /\ queued' = IF worker.pc = "failing" THEN queued ELSE 0
       /\ UNCHANGED <<reader, watcher, stop, store, env>>

\* The loop ends with the last sender once the queue is empty, or by a break. What the ledger
\* holds then is appended; frames still queued after a break go with the channel.
LeaveLoop ==
    /\ \/ worker.pc = "receiving" /\ queued = 0 /\ ~gate.sender
       \/ worker.pc = "leaving"
    /\ TakesGaps(rt, "final")
    /\ UNCHANGED <<gate, queued, reader, watcher, stop, store, env>>

\* An abort takes effect at an await. An append under way has been handed to the writer thread
\* and may be carried out all the same; gaps the worker had in hand are lost.
WorkerAborted ==
    /\ worker.aborted
    /\ worker.pc \in {"receiving", "paused", "appending", "before", "direct", "resuming", "final"}
    /\ worker' = [worker EXCEPT !.pc = "aborted", !.vec = <<>>]
    /\ queued' = 0
    /\ \/ UNCHANGED store
       \/ /\ worker.pc = "appending"
          /\ store' = [store EXCEPT !.frames = @ + 1]
    /\ env' = [env EXCEPT !.lostGaps = Missing(worker.vec)]
    /\ UNCHANGED <<rt, gate, reader, watcher, stop>>
------------------------------------------------------------------------------
(* stop_target. The worker, the reader and the status calls run between any *)
(* two of its steps.                                                        *)

StopBegins ==
    /\ stop.pc = "running"
    /\ CloseAcceptance
    /\ stop' = [stop EXCEPT !.pc = "announcing"]
    /\ UNCHANGED <<rt, queued, reader, watcher, worker, store, env>>

StopAnnounced ==
    /\ stop.pc = "announcing"
    /\ rt' = Transition(rt, "Stop")
    /\ stop' = [stop EXCEPT !.pc = "sending"]
    /\ UNCHANGED <<gate, queued, reader, watcher, worker, store, env>>

\* The browser answers, refuses, or the deadline passes.
StopSent(answered) ==
    /\ stop.pc = "sending"
    /\ stop' = [stop EXCEPT !.pc = "joining", !.complete = answered]
    /\ UNCHANGED <<rt, gate, queued, reader, watcher, worker, store, env>>

\* Fault: the worker is taken to have ended when the browser has answered.
StopDoesNotJoin ==
    /\ stop.pc = "joining"
    /\ stop' = [stop EXCEPT !.pc = IF stop.complete THEN "closing" ELSE "recounting"]
    /\ UNCHANGED <<rt, gate, queued, reader, watcher, worker, store, env>>

StopJoins ==
    /\ stop.pc = "joining" /\ worker.pc = "ended"
    /\ stop' = [stop EXCEPT !.pc = IF stop.complete THEN "closing" ELSE "recounting"]
    /\ UNCHANGED <<rt, gate, queued, reader, watcher, worker, store, env>>

\* The select may see the deadline first even when the worker has ended by then.
StopDeadline ==
    /\ stop.pc = "joining"
    /\ worker' = [worker EXCEPT !.aborted = TRUE]
    /\ stop' = [stop EXCEPT !.pc = "counting", !.complete = FALSE]
    /\ UNCHANGED <<rt, gate, queued, reader, watcher, store, env>>

\* Fault: the frame in the worker's hands is not counted.
InQueue(s) == s.depth

InHand(s) == s.depth + s.inFlight

\* abandon_queue; the greater of two counts is kept.
AbandonQueue ==
    /\ rt' = [rt EXCEPT !.depth = 0, !.inFlight = 0]
    /\ stop' = [stop EXCEPT !.pc = IF @ = "counting" THEN "recounting" ELSE "reading",
                            !.abandoned = IF InHand(rt) > @ THEN InHand(rt) ELSE @]
    /\ UNCHANGED <<gate, queued, reader, watcher, worker, store, env>>

StopCounts == stop.pc = "counting" /\ AbandonQueue

StopRecounts == stop.pc = "recounting" /\ AbandonQueue

\* status() panics on an invalid state.
StopReads ==
    /\ stop.pc = "reading"
    /\ rt' = Checked(rt)
    /\ stop' = [stop EXCEPT !.pc = "declaring"]
    /\ UNCHANGED <<gate, queued, reader, watcher, worker, store, env>>

StopDeclares ==
    /\ stop.pc = "declaring"
    /\ rt' = Push(rt, Gap("CaptureStopped", stop.abandoned))
    /\ stop' = [stop EXCEPT !.pc = "closing"]
    /\ UNCHANGED <<gate, queued, reader, watcher, worker, store, env>>

StopEnds ==
    /\ stop.pc = "closing"
    /\ rt' = Transition(rt, IF stop.complete THEN "Drained" ELSE "Deadline")
    /\ stop' = [stop EXCEPT !.pc = "reporting"]
    /\ UNCHANGED <<gate, queued, reader, watcher, worker, store, env>>

\* The failure is read for the answer, and the stream leaves the registry.
StopReports ==
    /\ stop.pc = "reporting"
    /\ rt' = Checked(rt)
    /\ stop' = [stop EXCEPT !.pc = "done"]
    /\ UNCHANGED <<gate, queued, reader, watcher, worker, store, env>>

\* capture_statuses asks every registered stream.
StatusRead ==
    /\ stop.pc \notin {"starting", "unregistered", "done"}
    /\ ~StatusIsValid(rt)
    /\ rt' = Checked(rt)
    /\ UNCHANGED <<gate, queued, reader, watcher, worker, stop, store, env>>
------------------------------------------------------------------------------
ReaderStep ==
    \/ ReceiveFrame \/ AcknowledgementFails \/ Acknowledged \/ AcknowledgedStale
    \/ RejectEnvelope \/ Handoff \/ DropFrame \/ RecordAccepted \/ ReaderFails

WatcherStep == TargetHides \/ TargetShows \/ WatcherFails

\* What the worker does without waiting for the budget or for another frame.
WorkerProceeds ==
    \/ WorkerReceives \/ BeginProcessing \/ AppendGap \/ GapsAppended \/ StoreFrame
    \/ RecordPersisted \/ PauseInterrupted \/ ReadVisibility \/ ResumeStream \/ StreamWorkerFails
    \/ LeaveLoop \/ WorkerAborted

WorkerStep ==
    \/ WorkerProceeds \/ AppendGapFails \/ RejectDecode \/ AppendFrameFails
    \/ BudgetExhausted \/ BudgetAvailable \/ PauseFails

StopStep ==
    \/ StopBegins \/ StopAnnounced \/ \E answered \in BOOLEAN : StopSent(answered)
    \/ StopJoins \/ StopDeadline \/ StopCounts \/ StopRecounts \/ StopReads \/ StopDeclares
    \/ StopEnds \/ StopReports

\* A poisoned mutex panics every task that locks it.
StreamNext ==
    /\ ~rt.poisoned
    /\ \/ StartAnswered \/ StartFails \/ Suspend \/ SuspendShows \/ ReadersAborted \/ FenceMoves
       \/ StatusRead
       \/ ReaderStep \/ WatcherStep \/ WorkerStep \/ StopStep

\* The runtime polls a ready task, and the sink answers every append.
StreamFairness ==
    /\ WF_streamVars(~rt.poisoned /\ WorkerProceeds)
    /\ WF_streamVars(~rt.poisoned /\ (RecordAccepted \/ DropFrame \/ ReaderFails))

StreamSpec == StreamInit /\ [][StreamNext]_streamVars /\ StreamFairness
------------------------------------------------------------------------------
(* Properties.                                                              *)

StreamTypeOK ==
    /\ rt.state \in {"Starting", "Capturing", "PausedBudget", "Hidden", "Suspended",
                     "Draining", "Stopped", "Failed"}
    /\ rt.visible \in BOOLEAN /\ rt.open \in BOOLEAN /\ rt.poisoned \in BOOLEAN
    /\ rt.failure \in Stages \union {NoFailure}
    /\ {rt.depth, rt.inFlight, rt.received, rt.accepted, rt.dropped, rt.persisted} \subseteq Nat
    /\ Len(rt.gaps) <= LedgerCapacity
    /\ queued \in 0..QueueCapacity
    /\ gate \in [accepting : BOOLEAN, sender : BOOLEAN, closed : BOOLEAN, fenced : BOOLEAN]
    /\ store \in [frames : Nat, missing : Nat]

InWorker == IF worker.pc \in {"taken", "before", "appending"} THEN 1 ELSE 0
InStore == store.frames + store.missing
InGaps == Missing(rt.gaps) + Missing(worker.vec)

\* Where a frame can be.
Accounted == InReader + queued + InWorker + InStore + InGaps + env.untraced

\* No stage has failed, nor is a task about to say so.
Unfailed ==
    /\ rt.failure = NoFailure /\ worker.why = NoFailure /\ worker.pc # "direct"
    /\ ~rt.poisoned

\* While no stage has failed and the worker runs, also when it is leaving its loop, every
\* received frame is in exactly one place: with the reader, in the queue, with the worker,
\* stored, or counted by one gap in the ledger, in the worker's hands or in the store - however
\* gaps were merged meanwhile.
EveryFrameIsAccountedFor ==
    (Unfailed /\ ~worker.aborted /\ worker.pc # "ended") => rt.received = Accounted

\* A stop reported complete, on a stream that never failed, has left every frame it accepted
\* in the store and every frame it dropped in a gap: none went with the closed channel.
CompleteStopKeepsEveryFrame ==
    (Unfailed /\ stop.pc = "done" /\ stop.complete /\ reader.pc # "sent" /\ rt.depth = 0)
      => /\ rt.persisted = store.frames
         /\ rt.received = InReader + InStore + InGaps + env.untraced

\* A stop that is not complete leaves in the ledger a gap that counts at least the accepted
\* frames it loses, the one the worker may still hold included, whatever the worker and the
\* reader do between its steps. Two losses are outside the count, and the property says exactly
\* which: frames that only the gaps in an aborted worker's hands count (lostGaps), and the frame
\* whose acceptance the reader records after the last abandon_queue, or between two of them when
\* the first found something - the greater of the counts 1 and 1 is 1 for two frames (late).
\* The ledger is in memory: nobody appends this gap to the store.
AbandonedFramesAreCounted ==
    (Unfailed /\ stop.pc = "done" /\ ~stop.complete /\ reader.pc # "sent")
      => rt.received <= InReader + InStore + InGaps + env.untraced + env.lostGaps + env.late

\* A suspended or stopping stream's worker ends, also from its wait for budget, though nobody
\* joins it after a suspension: no task outlives its stream.
ClosedStreamsEnd == rt.state \in {"Suspended", "Draining"} ~> (ReceiverGone \/ rt.poisoned)

\* status_from_state expects that "runtime state maintains invariants", one of which is that a
\* stopped stream has an empty queue: the stop of a stream that never failed does not meet a
\* queue whose frames nobody stored or counted.
StopKeepsRuntimeInvariants ==
    (stop.pc \in {"reporting", "done"} /\ rt.poisoned /\ rt.failure = NoFailure
        /\ worker.why = NoFailure /\ reader.pc = "waiting")
      => rt.received <= InReader + InStore + InGaps + env.untraced
=============================================================================
