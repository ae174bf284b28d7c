-------------------------- MODULE CaptureAdmission --------------------------
(* The capture coordinator: which streams are admitted, the startup tasks   *)
(* that carry them from the admission to the registry, the ordinals they    *)
(* share, and the supervisor's effects that start, restart, suspend, stop   *)
(* and shut them down.                                                      *)
(*                                                                          *)
(* A stream is a target and its attachment generation. What happens inside  *)
(* of one is CaptureStream; when the reducer asks for which effect,         *)
(* TargetSupervisor. Here the effects of one target come in any order that  *)
(* a binding allows.                                                        *)
EXTENDS Integers, FiniteSets

CONSTANTS
    CaptureTargets,    \* page targets
    MaxStreams,        \* max_active_streams
    MaxGeneration,     \* bound: attachment generations of a target
    MaxStarts,         \* bound: startup tasks
    MaxOrdinal         \* bound: ordinals of a target

ASSUME AdmissionAssumption ==
    /\ IsFiniteSet(CaptureTargets) /\ MaxStreams \in Nat \ {0}
    /\ MaxGeneration \in Nat \ {0} /\ MaxStarts \in Nat /\ MaxOrdinal \in Nat

VARIABLES
    bind,       \* per target: attachment generation and capture binding
    boss,       \* the supervisor: the effect it carries out, on which stream, what is left of it
    task,       \* startup_tasks: where each one is, which are told to abort, how many were spawned
    streams,    \* registered streams by state, and pending_starts
    accepting,  \* runtimes whose readers accept frames, and those about to number one
    ordinals,   \* OrdinalRegistry; issued (ghost): the last one handed out per target
    failures    \* startup_failures by target, and the CaptureStartFailed inputs on their way

admissionVars == <<bind, boss, task, streams, accepting, ordinals, failures>>

StreamKeys == CaptureTargets \X (1 .. MaxGeneration)
TargetOf(k) == k[1]
GenerationOf(k) == k[2]
Current(t) == <<t, bind[t].generation>>

None == [generation |-> 0, last |-> 0]

AdmissionInit ==
    /\ bind = [t \in CaptureTargets |-> [generation |-> 1, state |-> "inactive"]]
    /\ boss = [doing |-> "nothing", then |-> "nothing", on |-> {}, left |-> {}, shut |-> FALSE]
    /\ task = [pc |-> [k \in StreamKeys |-> "none"], aborted |-> {}, spawned |-> 0]
    /\ streams = [state |-> [k \in StreamKeys |-> "absent"], pending |-> {}]
    /\ accepting = [open |-> {}, numbering |-> {}]
    /\ ordinals = [states |-> [t \in CaptureTargets |-> None],
                   issued |-> [t \in CaptureTargets |-> None]]
    /\ failures = [of |-> [t \in CaptureTargets |-> 0], told |-> {}]

Registered == {k \in StreamKeys : streams.state[k] # "absent"}
Active == {k \in StreamKeys : streams.state[k] \in {"Capturing", "Hidden", "Draining"}}
Started(k) == task.pc[k] \notin {"none", "over"}
Goes(k, pc) == task' = [task EXCEPT !.pc[k] = pc]
------------------------------------------------------------------------------
(* spawn_startup and the startup task.                                      *)

\* A failure of an earlier attempt is forgotten; an earlier task of this stream is over.
Spawn(k) ==
    /\ task.spawned < MaxStarts
    /\ task' = [task EXCEPT !.pc[k] = "observing", !.aborted = @ \ {k}, !.spawned = @ + 1]
    /\ failures' = [failures EXCEPT !.of[TargetOf(k)] = 0]

ObserveGeometry(k) ==
    /\ task.pc[k] = "observing"
    /\ Goes(k, "admitting")
    /\ UNCHANGED <<bind, boss, streams, accepting, ordinals, failures>>

\* Fault: streams that are being started are not counted.
AdmitByRegistry(k) ==
    /\ task.pc[k] = "admitting"
    /\ IF k \in Registered \union streams.pending \/ Cardinality(Active) >= MaxStreams
       THEN Goes(k, "failing") /\ UNCHANGED streams
       ELSE /\ Goes(k, "fencing")
            /\ streams' = [streams EXCEPT !.pending = @ \union {k}]
    /\ UNCHANGED <<bind, boss, accepting, ordinals, failures>>

\* Both locks are held: registered and reserved streams are counted, and this one reserved.
Admit(k) ==
    /\ task.pc[k] = "admitting"
    /\ IF \/ k \in Registered \union streams.pending
          \/ Cardinality(Active) + Cardinality(streams.pending) >= MaxStreams
       THEN Goes(k, "failing") /\ UNCHANGED streams
       ELSE /\ Goes(k, "fencing")
            /\ streams' = [streams EXCEPT !.pending = @ \union {k}]
    /\ UNCHANGED <<bind, boss, accepting, ordinals, failures>>

\* Fault: a new generation numbers its frames from one again.
InstallFromZero(states, k) ==
    [states EXCEPT ![TargetOf(k)] = [generation |-> GenerationOf(k), last |-> 0]]

\* begin_generation, on an accepted generation: the ordinals continue.
Install(states, k) == [states EXCEPT ![TargetOf(k)].generation = GenerationOf(k)]

\* begin_generation refuses a generation older than the fence.
BeginGeneration(k) ==
    /\ task.pc[k] = "fencing"
    /\ IF GenerationOf(k) < ordinals.states[TargetOf(k)].generation
       THEN /\ Goes(k, "failing")
            /\ streams' = [streams EXCEPT !.pending = @ \ {k}]
            /\ UNCHANGED ordinals
       ELSE /\ Goes(k, "subscribing")
            /\ ordinals' = [ordinals EXCEPT !.states = Install(@, k)]
            /\ UNCHANGED streams
    /\ UNCHANGED <<bind, boss, accepting, failures>>

\* The subscriptions are answered; the readers run before the screencast is started.
Subscribed(k) ==
    /\ task.pc[k] = "subscribing"
    /\ Goes(k, "starting")
    /\ accepting' = [accepting EXCEPT !.open = @ \union {k}]
    /\ UNCHANGED <<bind, boss, streams, ordinals, failures>>

\* The reservation becomes the registration under the registry lock.
Register(k) ==
    /\ task.pc[k] = "starting"
    /\ Goes(k, "retaining")
    /\ streams' = [state |-> [streams.state EXCEPT ![k] = "Capturing"],
                    pending |-> streams.pending \ {k}]
    /\ UNCHANGED <<bind, boss, accepting, ordinals, failures>>

\* Older streams of the target leave the registry, except those that still capture.
RetainStreams(k) ==
    /\ task.pc[k] = "retaining"
    /\ Goes(k, "over")
    /\ streams' = [streams EXCEPT !.state =
         [o \in StreamKeys |->
            IF TargetOf(o) = TargetOf(k) /\ GenerationOf(o) < GenerationOf(k)
                 /\ @[o] # "Capturing"
            THEN "absent" ELSE @[o]]]
    /\ UNCHANGED <<bind, boss, accepting, ordinals, failures>>

\* What the guards of a startup release, in StartupTasks and StreamAdmission, however it ends.
Release(k) ==
    /\ streams' = [streams EXCEPT !.pending = @ \ {k}]
    /\ accepting' = [accepting EXCEPT !.open = @ \ {k}]

\* An answer is an error, or the deadline of three seconds passes.
StartupBreaks(k) ==
    /\ task.pc[k] \in {"observing", "subscribing", "starting"}
    /\ Goes(k, "failing")
    /\ Release(k)
    /\ UNCHANGED <<bind, boss, ordinals, failures>>

\* An abort takes effect at an await.
StartupAborted(k) ==
    /\ k \in task.aborted /\ task.pc[k] \in {"observing", "subscribing", "starting"}
    /\ Goes(k, "over")
    /\ Release(k)
    /\ UNCHANGED <<bind, boss, ordinals, failures>>

StartupFailed(k) ==
    /\ task.pc[k] = "failing"
    /\ Goes(k, "over")
    /\ failures' = [of |-> [failures.of EXCEPT ![TargetOf(k)] = GenerationOf(k)],
                    told |-> failures.told \union {k}]
    /\ UNCHANGED <<bind, boss, streams, accepting, ordinals>>
------------------------------------------------------------------------------
(* A registered stream on its own, and its reader.                          *)

\* A stream paused for budget stands for a capturing one: the coordinator does not tell them
\* apart.
StreamMoves(k) ==
    /\ streams.state[k] \in {"Capturing", "Hidden"}
    /\ streams' = [streams EXCEPT !.state[k] = IF @ = "Hidden" THEN "Capturing" ELSE "Hidden"]
    /\ UNCHANGED <<bind, boss, task, accepting, ordinals, failures>>

StreamFails(k) ==
    /\ streams.state[k] \in {"Capturing", "Hidden", "Draining"}
    /\ streams' = [streams EXCEPT !.state[k] = "Failed"]
    /\ accepting' = [accepting EXCEPT !.open = @ \ {k}]
    /\ UNCHANGED <<bind, boss, task, ordinals, failures>>

\* A frame is acknowledged: nothing is awaited before it is numbered, so an abort comes too late.
Acknowledges(k) ==
    /\ k \in accepting.open
    /\ accepting' = [accepting EXCEPT !.numbering = @ \union {k}]
    /\ UNCHANGED <<bind, boss, task, streams, ordinals, failures>>

\* allocate: only the generation that holds the fence gets a number.
Allocate(k) ==
    /\ k \in accepting.numbering
    /\ accepting' = [accepting EXCEPT !.numbering = @ \ {k}]
    /\ LET held == ordinals.states[TargetOf(k)]
           next == [held EXCEPT !.last = @ + 1]
       IN  IF held.generation = GenerationOf(k)
           THEN /\ held.last < MaxOrdinal
                /\ ordinals' = [states |-> [ordinals.states EXCEPT ![TargetOf(k)] = next],
                                issued |-> [ordinals.issued EXCEPT ![TargetOf(k)] = next]]
           ELSE UNCHANGED ordinals
    /\ UNCHANGED <<bind, boss, task, streams, failures>>
------------------------------------------------------------------------------
(* The supervisor's effects, one at a time.                                 *)

Idle == boss.doing = "nothing" /\ ~boss.shut

StartCapture(t) ==
    /\ Idle /\ bind[t].state = "inactive" /\ ~Started(Current(t))
    /\ bind' = [bind EXCEPT ![t].state = "active"]
    /\ Spawn(Current(t))
    /\ UNCHANGED <<boss, streams, accepting, ordinals>>

\* CaptureStartFailed counts while the failure is still on record: the binding may be retried.
LearnFailure(k) ==
    /\ Idle /\ k \in failures.told
    /\ failures' = [failures EXCEPT !.told = @ \ {k}]
    /\ bind' = IF failures.of[TargetOf(k)] = GenerationOf(k) /\ k = Current(TargetOf(k))
                    /\ bind[TargetOf(k)].state = "active"
               THEN [bind EXCEPT ![TargetOf(k)].state = "inactive"] ELSE bind
    /\ UNCHANGED <<boss, task, streams, accepting, ordinals>>

\* Fault: a task is taken out of startup_tasks and awaited, but not aborted.
AbortForgotten(k) == UNCHANGED task

\* cancel_startup takes the task out of startup_tasks and aborts it.
Abort(k) == task' = [task EXCEPT !.aborted = IF Started(k) THEN @ \union {k} ELSE @]

\* suspend_target, stop_target and restart_capture_startup begin with cancel_startup.
BeginEffect(t, effect) ==
    /\ Idle /\ bind[t].state = "active"
    /\ effect = "restart" => Started(Current(t)) /\ task.spawned < MaxStarts
    /\ Abort(Current(t))
    /\ boss' = [boss EXCEPT !.doing = "cancelling", !.then = effect, !.on = {Current(t)}]
    /\ UNCHANGED <<bind, streams, accepting, ordinals, failures>>

Cancelled(k, effect) ==
    boss.doing = "cancelling" /\ boss.then = effect /\ k \in boss.on /\ ~Started(k)

\* The startup may have won the race: then the stream is registered and only refreshed.
Restarts(k) ==
    /\ Cancelled(k, "restart")
    /\ boss' = [boss EXCEPT !.doing = "nothing", !.on = {}]
    /\ IF k \in Registered THEN UNCHANGED <<task, failures>> ELSE Spawn(k)
    /\ UNCHANGED <<bind, streams, accepting, ordinals>>

Suspends(k) ==
    /\ Cancelled(k, "suspend")
    /\ boss' = [boss EXCEPT !.doing = "nothing", !.on = {}]
    /\ bind' = [bind EXCEPT ![TargetOf(k)].state = "suspended"]
    /\ streams' = [streams EXCEPT !.state[k] =
                      IF @ \in {"absent", "Failed"} THEN @ ELSE "Suspended"]
    /\ accepting' = [accepting EXCEPT !.open = @ \ {k}]
    /\ UNCHANGED <<task, ordinals, failures>>

\* The reconnected target has a newer attachment.
Reattach(t) ==
    /\ Idle /\ bind[t].state = "suspended" /\ bind[t].generation < MaxGeneration
    /\ bind' = [bind EXCEPT ![t] = [generation |-> @.generation + 1, state |-> "inactive"]]
    /\ UNCHANGED <<boss, task, streams, accepting, ordinals, failures>>

StopEffects == {"stopDetached", "stopClosed"}

\* pipeline::stop_target on a stream that is registered, until it awaits the browser's answer.
Drains(k) ==
    /\ accepting' = [accepting EXCEPT !.open = @ \ {k}]
    /\ streams' = [streams EXCEPT !.state[k] = IF @ = "Failed" THEN @ ELSE "Draining"]

\* A stream that is not registered is stopped already: its ordinals stay.
Stops(k) ==
    /\ \E effect \in StopEffects : Cancelled(k, effect)
    /\ failures' = [failures EXCEPT !.of[TargetOf(k)] = IF @ = GenerationOf(k) THEN 0 ELSE @]
    /\ bind' = [bind EXCEPT ![TargetOf(k)].state =
                  IF boss.then = "stopClosed" THEN "terminal" ELSE "suspended"]
    /\ IF k \in Registered
       THEN boss' = [boss EXCEPT !.doing = "draining"] /\ Drains(k)
       ELSE boss' = [boss EXCEPT !.doing = "nothing", !.on = {}] /\ UNCHANGED <<streams, accepting>>
    /\ UNCHANGED <<task, ordinals>>

\* end_generation spares a newer generation.
EndGeneration(k) ==
    IF ordinals.states[TargetOf(k)].generation <= GenerationOf(k)
    THEN ordinals' = [ordinals EXCEPT !.states[TargetOf(k)] = None]
    ELSE UNCHANGED ordinals

\* The worker is joined or its deadline has passed; the stream leaves the registry.
Stopped(k) ==
    /\ boss.doing = "draining" /\ k \in boss.on
    /\ streams' = [streams EXCEPT !.state[k] = "absent"]
    /\ IF boss.then = "stopClosed" THEN EndGeneration(k) ELSE UNCHANGED ordinals
    /\ boss' = [boss EXCEPT !.doing = IF boss.then = "shutdown" THEN "stopping" ELSE "nothing",
                            !.on = {}]
    /\ UNCHANGED <<bind, task, accepting, failures>>
------------------------------------------------------------------------------
(* shutdown: the startup tasks one after the other, then the streams that   *)
(* are registered by then.                                                  *)

BeginShutdown ==
    /\ Idle
    /\ boss' = [boss EXCEPT !.doing = "aborting", !.then = "shutdown"]
    /\ UNCHANGED <<bind, task, streams, accepting, ordinals, failures>>

AbortNext(k) ==
    /\ boss.doing = "aborting" /\ boss.on = {} /\ Started(k)
    /\ Abort(k)
    /\ boss' = [boss EXCEPT !.on = {k}]
    /\ UNCHANGED <<bind, streams, accepting, ordinals, failures>>

Awaited(k) ==
    /\ boss.doing = "aborting" /\ k \in boss.on /\ ~Started(k)
    /\ boss' = [boss EXCEPT !.on = {}]
    /\ UNCHANGED <<bind, task, streams, accepting, ordinals, failures>>

ListStreams ==
    /\ boss.doing = "aborting" /\ boss.on = {} /\ \A k \in StreamKeys : ~Started(k)
    /\ boss' = [boss EXCEPT !.doing = "stopping", !.left = Registered]
    /\ UNCHANGED <<bind, task, streams, accepting, ordinals, failures>>

StopNext(k) ==
    /\ boss.doing = "stopping" /\ k \in boss.left
    /\ Drains(k)
    /\ boss' = [boss EXCEPT !.doing = "draining", !.on = {k}, !.left = @ \ {k}]
    /\ UNCHANGED <<bind, task, ordinals, failures>>

\* The sink is flushed; ordinals and failures are cleared.
ShutdownEnds ==
    /\ boss.doing = "stopping" /\ boss.left = {}
    /\ boss' = [boss EXCEPT !.doing = "nothing", !.shut = TRUE]
    /\ ordinals' = [ordinals EXCEPT !.states = [t \in CaptureTargets |-> None]]
    /\ failures' = [failures EXCEPT !.of = [t \in CaptureTargets |-> 0]]
    /\ UNCHANGED <<bind, task, streams, accepting>>
------------------------------------------------------------------------------
\* What a startup task does without an answer of the browser.
StartupProceeds(k) ==
    Admit(k) \/ BeginGeneration(k) \/ RetainStreams(k) \/ StartupAborted(k) \/ StartupFailed(k)

StartupStep(k) ==
    StartupProceeds(k) \/ ObserveGeometry(k) \/ Subscribed(k) \/ Register(k) \/ StartupBreaks(k)

BossProceeds(k) ==
    Restarts(k) \/ Suspends(k) \/ Stops(k) \/ Stopped(k) \/ AbortNext(k) \/ Awaited(k) \/ StopNext(k)

AdmissionNext ==
    \/ \E k \in StreamKeys :
          StartupStep(k) \/ StreamMoves(k) \/ StreamFails(k) \/ Acknowledges(k) \/ Allocate(k)
            \/ LearnFailure(k) \/ BossProceeds(k)
    \/ \E t \in CaptureTargets : StartCapture(t) \/ Reattach(t)
    \/ \E t \in CaptureTargets, effect \in StopEffects \union {"suspend", "restart"} :
          BeginEffect(t, effect)
    \/ BeginShutdown \/ ListStreams \/ ShutdownEnds

\* The runtime polls a ready task, a stop has a deadline; the browser need not answer a startup.
\* (Each step is one of finitely many: that some are taken is enough.)
AdmissionProceeds ==
    ListStreams \/ ShutdownEnds \/ \E k \in StreamKeys : StartupProceeds(k) \/ BossProceeds(k)

AdmissionFairness == WF_admissionVars(AdmissionProceeds)

AdmissionSpec == AdmissionInit /\ [][AdmissionNext]_admissionVars /\ AdmissionFairness
------------------------------------------------------------------------------
(* Properties.                                                              *)

Capturing == {k \in Active : streams.state[k] # "Draining"}

\* However many startups race, are refused, cancelled or overtaken, every runtime that accepts
\* frames holds a reservation or is a capturing registered stream, and those are never more than
\* max_active_streams. (Streams that drain come on top: a shutdown drains suspended ones too.)
StreamsWithinTheCap ==
    /\ accepting.open \subseteq streams.pending \union Capturing
    /\ Cardinality(streams.pending \union Capturing) <= MaxStreams

\* The ordinals of a target increase over its attachment generations, and never go back to an
\* older generation, whatever reader is still numbering a frame: the index refuses a second
\* frame of the same ordinal.
OrdinalsIncrease ==
    [][\A t \in CaptureTargets :
          LET old == ordinals.issued[t]
              new == ordinals'.issued[t]
          IN  new # old => new.last > old.last /\ new.generation >= old.generation]_admissionVars

\* After a shutdown no stream accepts frames and no startup can make one that does.
NothingStartsAfterShutdown ==
    boss.shut => accepting.open = {} /\ Registered = {} /\ \A k \in StreamKeys : ~Started(k)

\* A startup that is refused, cancelled, aborted late or overtaken neither leaves a reader that
\* nobody counts nor one that nobody stops.
AcceptingStreamsAreCounted == StreamsWithinTheCap /\ NothingStartsAfterShutdown

\* An effect never waits for a browser that does not answer.
EffectsEnd == boss.doing # "nothing" ~> boss.doing = "nothing"
=============================================================================
