-------------------------- MODULE SubscriberFanout --------------------------
(* The fan-out of session events: SubscriberRegistry publishes revisions to *)
(* bounded queues, and each BoundedSessionEvents drains its own.            *)
(*                                                                          *)
(* A publication holds the registry mutex from its first to its last step,  *)
(* so publications and subscriptions are serial; the readers run between    *)
(* its steps. A subscriber's lag, last revision and terminal slot have a    *)
(* mutex each: every access is a step of its own.                           *)
EXTENDS Integers, SequencesExt, FiniteSetsExt

CONSTANTS
    Subscribers,       \* calls of subscribe
    Capacity,          \* capacity of a subscriber's queue
    MaxRevisions,      \* bound: publications
    MaxGiveUps         \* bound: next() futures that are dropped

ASSUME FanoutAssumption ==
    /\ IsFiniteSet(Subscribers) /\ Capacity \in Nat \ {0}
    /\ MaxRevisions \in Nat /\ MaxGiveUps \in Nat

VARIABLES
    registry,   \* revision, terminal flag, members; whom the publication under way still has to
                \* visit, what it does to them, and the subscriber it is busy with
    sub,        \* per subscriber: queue, lag, last revision, terminal slot, and its reader
    seen        \* per subscriber, what its reader was told (ghost), and the futures dropped

fanoutVars == <<registry, sub, seen>>

NoLag == <<0, 0>>
NoEnd == 0

FanoutInit ==
    /\ registry = [revision |-> 0, terminal |-> FALSE, members |-> {}, doing |-> "nothing",
                   todo |-> {}, busy |-> {}, closed |-> {}]
    /\ sub = [s \in Subscribers |-> [queue |-> <<>>, lag |-> NoLag, last |-> 0, end |-> NoEnd,
                                     sender |-> FALSE, pc |-> "absent", item |-> 0]]
    /\ seen = [told |-> [s \in Subscribers |-> [after |-> 0, delivered |-> {}, reported |-> {},
                                                ended |-> 0]],
               gaveUp |-> 0]

Free == registry.doing = "nothing"
Reading(s) == sub[s].pc \notin {"absent", "dropped"}
------------------------------------------------------------------------------
(* subscribe                                                                *)

\* Fault: a subscriber that comes after the end keeps its sender.
SubscribeAlways(s) ==
    /\ Free /\ sub[s].pc = "absent"
    /\ sub' = [sub EXCEPT ![s].last = registry.revision, ![s].pc = "idle", ![s].sender = TRUE]
    /\ registry' = [registry EXCEPT !.members = @ \union {s}]
    /\ seen' = [seen EXCEPT !.told[s].after = registry.revision]

Subscribe(s) ==
    /\ Free /\ sub[s].pc = "absent"
    /\ sub' = [sub EXCEPT ![s].last = registry.revision, ![s].pc = "idle",
                          ![s].sender = ~registry.terminal]
    /\ registry' = [registry EXCEPT !.members = IF registry.terminal THEN @ ELSE @ \union {s}]
    /\ seen' = [seen EXCEPT !.told[s].after = registry.revision]

\* The reader drops its stream: the channel closes, the registry still holds the sender.
Unsubscribe(s) ==
    /\ sub[s].pc \in {"idle", "receiving", "done"}
    /\ sub' = [sub EXCEPT ![s].pc = "dropped", ![s].queue = <<>>]
    /\ UNCHANGED <<registry, seen>>
------------------------------------------------------------------------------
(* publish                                                                  *)

Publishes(doing) ==
    /\ Free /\ ~registry.terminal /\ registry.revision < MaxRevisions
    /\ registry' = [registry EXCEPT !.revision = @ + 1, !.doing = doing, !.todo = registry.members]
    /\ UNCHANGED <<sub, seen>>

Publish == Publishes("sending")
PublishEnded == Publishes("storing")

\* try_send answers Ok, Full or Closed.
TrySend(s) ==
    /\ registry.doing = "sending" /\ registry.busy = {} /\ s \in registry.todo
    /\ \/ /\ sub[s].pc = "dropped"
          /\ registry' = [registry EXCEPT !.todo = @ \ {s}, !.closed = @ \union {s}]
          /\ UNCHANGED sub
       \/ /\ sub[s].pc # "dropped" /\ Len(sub[s].queue) < Capacity
          /\ sub' = [sub EXCEPT ![s].queue = Append(@, registry.revision)]
          /\ registry' = [registry EXCEPT !.doing = "marking", !.busy = {s}]
       \/ /\ sub[s].pc # "dropped" /\ Len(sub[s].queue) = Capacity
          /\ registry' = [registry EXCEPT !.doing = "lagging", !.busy = {s}]
          /\ UNCHANGED sub
    /\ UNCHANGED seen

Visited(s) == registry' = [registry EXCEPT !.doing = "sending", !.busy = {}, !.todo = @ \ {s}]

MarkSent(s) ==
    /\ registry.doing = "marking" /\ s \in registry.busy
    /\ sub' = [sub EXCEPT ![s].last = registry.revision]
    /\ Visited(s)
    /\ UNCHANGED seen

\* Fault: a lag that exists already is left as it is.
RecordLagOnce(s) ==
    /\ registry.doing = "lagging" /\ s \in registry.busy
    /\ sub' = [sub EXCEPT ![s].lag = IF @ = NoLag THEN <<sub[s].last + 1, registry.revision>>
                                                  ELSE @]
    /\ Visited(s)
    /\ UNCHANGED seen

\* Under the lag mutex: a lag is begun after the last revision, or extended to this one.
RecordLag(s) ==
    /\ registry.doing = "lagging" /\ s \in registry.busy
    /\ sub' = [sub EXCEPT ![s].lag = <<IF @ = NoLag THEN sub[s].last + 1 ELSE @[1],
                                       registry.revision>>]
    /\ Visited(s)
    /\ UNCHANGED seen

\* Ended is stored with every subscriber before the first sender is dropped.
StoreEnded(s) ==
    /\ registry.doing = "storing" /\ s \in registry.todo
    /\ sub' = [sub EXCEPT ![s].end = registry.revision]
    /\ registry' = [registry EXCEPT !.todo = @ \ {s}]
    /\ UNCHANGED seen

CloseRegistry ==
    /\ registry.doing = "storing" /\ registry.todo = {}
    /\ registry' = [registry EXCEPT !.terminal = TRUE, !.doing = "clearing",
                                    !.todo = registry.members]
    /\ UNCHANGED <<sub, seen>>

DropSender(s) ==
    /\ registry.doing = "clearing" /\ s \in registry.todo
    /\ sub' = [sub EXCEPT ![s].sender = FALSE]
    /\ registry' = [registry EXCEPT !.todo = @ \ {s}, !.members = @ \ {s}]
    /\ UNCHANGED seen

\* The mutex is released; subscribers found closed are removed.
Published ==
    /\ registry.doing \in {"sending", "clearing"} /\ registry.todo = {}
    /\ registry' = [registry EXCEPT !.doing = "nothing", !.members = @ \ registry.closed,
                                    !.closed = {}]
    /\ UNCHANGED <<sub, seen>>
------------------------------------------------------------------------------
(* next                                                                     *)

\* Fault: the queue is asked first, the lag only when it is empty.
TakeLagLast(s) ==
    /\ sub[s].pc = "idle"
    /\ IF sub[s].lag = NoLag \/ sub[s].queue # <<>>
       THEN sub' = [sub EXCEPT ![s].pc = "receiving"] /\ UNCHANGED seen
       ELSE /\ sub' = [sub EXCEPT ![s].lag = NoLag]
            /\ seen' = [seen EXCEPT !.told[s].reported = @ \union (sub[s].lag[1]..sub[s].lag[2])]
    /\ UNCHANGED registry

\* A lag is taken and returned as the error of this call.
TakeLag(s) ==
    /\ sub[s].pc = "idle"
    /\ IF sub[s].lag = NoLag
       THEN sub' = [sub EXCEPT ![s].pc = "receiving"] /\ UNCHANGED seen
       ELSE /\ sub' = [sub EXCEPT ![s].lag = NoLag]
            /\ seen' = [seen EXCEPT !.told[s].reported = @ \union (sub[s].lag[1]..sub[s].lag[2])]
    /\ UNCHANGED registry

Receive(s) ==
    /\ sub[s].pc = "receiving" /\ sub[s].queue # <<>>
    /\ sub' = [sub EXCEPT ![s].queue = Tail(@), ![s].pc = "received",
                          ![s].item = Head(sub[s].queue)]
    /\ UNCHANGED <<registry, seen>>

\* The revision may be older than the one the publisher has stored meanwhile.
MarkRead(s) ==
    /\ sub[s].pc = "received"
    /\ sub' = [sub EXCEPT ![s].last = sub[s].item, ![s].pc = "idle", ![s].item = 0]
    /\ seen' = [seen EXCEPT !.told[s].delivered = @ \union {sub[s].item}]
    /\ UNCHANGED registry

\* Fault: a closed channel is taken for the end of the stream, what it still holds for nothing.
TakeEndedEarly(s) ==
    /\ sub[s].pc = "receiving" /\ ~sub[s].sender
    /\ IF sub[s].end = NoEnd
       THEN sub' = [sub EXCEPT ![s].pc = "done"] /\ UNCHANGED seen
       ELSE /\ sub' = [sub EXCEPT ![s].end = NoEnd, ![s].last = sub[s].end, ![s].pc = "idle"]
            /\ seen' = [seen EXCEPT !.told[s].delivered = @ \union {sub[s].end},
                                    !.told[s].ended = @ + 1]
    /\ UNCHANGED registry

\* recv answers None: the last sender is gone and the queue is empty.
TakeEnded(s) ==
    /\ sub[s].pc = "receiving" /\ sub[s].queue = <<>> /\ ~sub[s].sender
    /\ IF sub[s].end = NoEnd
       THEN sub' = [sub EXCEPT ![s].pc = "done"] /\ UNCHANGED seen
       ELSE /\ sub' = [sub EXCEPT ![s].end = NoEnd, ![s].last = sub[s].end, ![s].pc = "idle"]
            /\ seen' = [seen EXCEPT !.told[s].delivered = @ \union {sub[s].end},
                                    !.told[s].ended = @ + 1]
    /\ UNCHANGED registry

\* The reader's future is dropped while it waits, as by a timeout around next().
GiveUpWaiting(s) ==
    /\ sub[s].pc = "receiving" /\ seen.gaveUp < MaxGiveUps
    /\ sub' = [sub EXCEPT ![s].pc = "idle"]
    /\ seen' = [seen EXCEPT !.gaveUp = @ + 1]
    /\ UNCHANGED registry
------------------------------------------------------------------------------
PublicationStep(s) ==
    TrySend(s) \/ MarkSent(s) \/ RecordLag(s) \/ StoreEnded(s) \/ DropSender(s)

ReaderCalls(s) == TakeLag(s) \/ Receive(s) \/ MarkRead(s) \/ TakeEnded(s)

FanoutNext ==
    \/ Publish \/ PublishEnded \/ CloseRegistry \/ Published
    \/ \E s \in Subscribers : Subscribe(s) \/ Unsubscribe(s) \/ PublicationStep(s)
                              \/ ReaderCalls(s) \/ GiveUpWaiting(s)

\* publish has no await, and a subscriber that keeps its stream calls next() until it ends. (Each
\* step is one of finitely many: that some are taken is enough.)
FanoutProceeds ==
    CloseRegistry \/ Published \/ \E s \in Subscribers : PublicationStep(s) \/ ReaderCalls(s)

FanoutFairness == WF_fanoutVars(FanoutProceeds)

FanoutSpec == FanoutInit /\ [][FanoutNext]_fanoutVars /\ FanoutFairness
------------------------------------------------------------------------------
(* Properties.                                                              *)

\* Where a revision published to s can be: the publisher has still to visit s or is about to
\* record its lag, it is queued or in the reader's hands, within a recorded lag, or s was told.
Traced(s) ==
    seen.told[s].delivered \union seen.told[s].reported \union ToSet(sub[s].queue)
      \union {sub[s].item, sub[s].end} \union (sub[s].lag[1] .. sub[s].lag[2])
      \union IF ~Free /\ (s \in registry.todo \/ s \in registry.busy) THEN {registry.revision} ELSE {}

\* No revision vanishes: whatever the publisher and the reader do between each other's steps,
\* each one since the subscription is on its way, delivered, or in a gap that will be reported.
EveryRevisionIsAccountedFor ==
    \A s \in Subscribers :
        Reading(s) => (seen.told[s].after + 1 .. registry.revision) \subseteq Traced(s)

\* A gap is reported at the latest by the second call after it: at most one later revision
\* slips past it, the one a call was waiting for while the gap was recorded.
GapsAreReportedNext ==
    \A s \in Subscribers :
        LET told == seen.told[s]
        IN  \A q \in (told.after + 1 .. registry.revision) \ (told.delivered \union told.reported) :
                Cardinality({r \in told.delivered : r > q}) <= 1

\* A full queue loses no end: Ended is the last that is delivered, and it is delivered once.
EndedIsDeliveredLast ==
    [][\A s \in Subscribers : seen.told[s].ended > 0 =>
          /\ seen'.told[s].delivered = seen.told[s].delivered
          /\ seen'.told[s].ended = seen.told[s].ended]_fanoutVars

\* Every stream that is kept ends after the session has: also one that subscribed too late, and
\* one that was full or was given up in the meantime.
StreamsEnd ==
    registry.terminal ~> \A s \in Subscribers : sub[s].pc \in {"absent", "done", "dropped"}
=============================================================================
