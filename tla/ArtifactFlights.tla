-------------------------- MODULE ArtifactFlights --------------------------
(* Artifact generation: requests that look their outputs up, join or lead a *)
(* flight for those that are missing and wait for it, and the flights that  *)
(* generate and publish under the scheduler's limits.                       *)
(*                                                                          *)
(* A group of a flight is one output. A flight has the name of the request  *)
(* that led it. Epochs, generators and the analysis that groups share are   *)
(* left out; so is the artifact store, but for what is published.           *)
EXTENDS Integers, FiniteSets

CONSTANTS
    Requests,          \* calls of generate
    Outputs,           \* cache keys, in the order of the slots
    Wanted,            \* [Requests -> SUBSET Outputs]
    MaxActive,         \* max_active_requests
    MemorySlots,       \* groups the combined memory limit has room for
    CpuSlots,          \* max_blocking_jobs
    MaxInterrupts,     \* bound: requests cancelled, dropped or past their deadline
    MaxFailures        \* bound: lookups, groups and flights that fail

ASSUME FlightsAssumption ==
    /\ Wanted \in [Requests -> (SUBSET Outputs) \ {{}}]
    /\ IsFiniteSet(Requests) /\ IsFiniteSet(Outputs) /\ Outputs \subseteq Nat
    /\ {MaxActive, MemorySlots, CpuSlots} \subseteq Nat \ {0}
    /\ MaxInterrupts \in Nat /\ MaxFailures \in Nat

VARIABLES
    request,    \* per request: where it is, outputs still to look up and missing, the flight it
                \* waits for, whether its notification has come, and how it ended
    flight,     \* per leader: key, waiters, cancelled, where its task is, outputs to look up and
                \* to generate, outputs with an entry in its result
    jobs,       \* blocking jobs that run, by flight
    published,  \* artifacts in the store
    used        \* bounds used up; late (ghost): who joined a flight that was cancelled already

flightVars == <<request, flight, jobs, published, used>>

NoFlight == [key |-> {}, waiters |-> {}, cancelled |-> FALSE, pc |-> "none", look |-> {},
             todo |-> {}, entries |-> {}, result |-> "none"]

FlightsInit ==
    /\ request = [r \in Requests |-> [pc |-> "queued", look |-> Wanted[r], missing |-> {},
                                      flight |-> {}, woken |-> FALSE, outcome |-> "none"]]
    /\ flight = [r \in Requests |-> NoFlight]
    /\ jobs = {}
    /\ published = {}
    /\ used = [interrupts |-> 0, failures |-> 0, late |-> {}]

\* Outputs are taken in the order of their slots.
FirstOf(outputs) == CHOOSE o \in outputs : \A p \in outputs : o <= p

Waiting(r) == request[r].pc \in {"registering", "checking", "parked"}
Holds(f) == flight[f].pc \in {"starting", "generating"}

Ends(r, outcome) ==
    request' = [request EXCEPT ![r] = [@ EXCEPT !.pc = "over", !.outcome = outcome, !.flight = {},
                                                !.look = {}, !.missing = {}, !.woken = FALSE]]

\* Fault: the work is cancelled when its leader leaves.
LeaveWithLeader(f, r) ==
    IF flight[f].pc = "gone" /\ flight[f].waiters = {r} THEN [flight EXCEPT ![f] = NoFlight]
    ELSE [flight EXCEPT ![f].waiters = @ \ {r}, ![f].cancelled = @ \/ r = f]

\* FlightWaiter::drop: the last waiter cancels the work, and the flight goes with the last who
\* holds it, waiter or task.
Leave(f, r) ==
    IF flight[f].pc = "gone" /\ flight[f].waiters = {r} THEN [flight EXCEPT ![f] = NoFlight]
    ELSE [flight EXCEPT ![f].waiters = @ \ {r}, ![f].cancelled = @ \/ flight[f].waiters = {r}]
------------------------------------------------------------------------------
(* A request.                                                               *)

AcquireRequest(r) ==
    /\ request[r].pc = "queued"
    /\ Cardinality({q \in Requests : request[q].pc = "looking" \/ Waiting(q)}) < MaxActive
    /\ request' = [request EXCEPT ![r].pc = "looking"]
    /\ UNCHANGED <<flight, jobs, published, used>>

LookUp(r) ==
    /\ request[r].pc = "looking" /\ request[r].look # {}
    /\ LET o == FirstOf(request[r].look)
       IN  request' = [request EXCEPT ![r].look = @ \ {o},
                          ![r].missing = IF o \in published THEN @ ELSE @ \union {o}]
    /\ UNCHANGED <<flight, jobs, published, used>>

AllHit(r) ==
    /\ request[r].pc = "looking" /\ request[r].look = {} /\ request[r].missing = {}
    /\ Ends(r, "answered")
    /\ UNCHANGED <<flight, jobs, published, used>>

\* A flight is held by its waiters and by its task; the registry has only a weak reference.
Alive(f) == flight[f].pc # "none"

SameKey(f, outputs) == flight[f].key = outputs

\* join, under the registry's mutex; the leader spawns the task without an await.
Join(r) ==
    /\ request[r].pc = "looking" /\ request[r].look = {} /\ request[r].missing # {}
    /\ LET same == {f \in Requests : Alive(f) /\ SameKey(f, request[r].missing)}
       IN  IF same # {}
           THEN \E f \in same :
                  /\ request' = [request EXCEPT ![r].pc = "registering", ![r].flight = {f}]
                  /\ flight' = [flight EXCEPT ![f].waiters = @ \union {r}]
                  /\ used' = IF flight[f].cancelled THEN [used EXCEPT !.late = @ \union {r}] ELSE used
           ELSE /\ request' = [request EXCEPT ![r].pc = "registering", ![r].flight = {r}]
                /\ flight' = [flight EXCEPT ![r] = [NoFlight EXCEPT
                                !.key = request[r].missing, !.waiters = {r},
                                !.look = request[r].missing, !.pc = "looking"]]
                /\ UNCHANGED used
    /\ UNCHANGED <<jobs, published>>

\* The notification is enabled before the result is looked at.
EnableNotified(r) ==
    /\ request[r].pc = "registering"
    /\ request' = [request EXCEPT ![r].pc = "checking", ![r].woken = FALSE]
    /\ UNCHANGED <<flight, jobs, published, used>>

OutcomeOf(r, f) ==
    CASE flight[f].result = "cancelled" -> "sharedCancel"
      [] flight[f].result = "failed" -> "failed"
      [] request[r].missing \subseteq flight[f].entries -> "answered"
      [] OTHER -> "omitted"

CheckResult(r) ==
    /\ request[r].pc = "checking"
    /\ \E f \in request[r].flight :
          IF flight[f].result # "none"
          THEN Ends(r, OutcomeOf(r, f)) /\ flight' = Leave(f, r)
          ELSE request' = [request EXCEPT ![r].pc = "parked"] /\ UNCHANGED flight
    /\ UNCHANGED <<jobs, published, used>>

Wake(r) ==
    /\ request[r].pc = "parked" /\ request[r].woken
    /\ request' = [request EXCEPT ![r].pc = "registering"]
    /\ UNCHANGED <<flight, jobs, published, used>>

\* The caller's cancellation or deadline, or the caller drops the future.
Interrupt(r) ==
    /\ request[r].pc \in {"queued", "looking", "parked"} /\ used.interrupts < MaxInterrupts
    /\ used' = [used EXCEPT !.interrupts = @ + 1]
    /\ Ends(r, "interrupted")
    /\ IF Waiting(r) THEN \E f \in request[r].flight : flight' = Leave(f, r) ELSE UNCHANGED flight
    /\ UNCHANGED <<jobs, published>>
------------------------------------------------------------------------------
(* run_flight.                                                              *)

Task(f, pc) == flight' = [flight EXCEPT ![f].pc = pc]

TaskEnds(f) ==
    IF flight[f].waiters = {} THEN flight' = [flight EXCEPT ![f] = NoFlight] ELSE Task(f, "gone")

FlightLooks(f) ==
    /\ flight[f].pc = "looking" /\ ~flight[f].cancelled
    /\ IF flight[f].look = {} THEN Task(f, "reserving")
       ELSE LET o == FirstOf(flight[f].look)
            IN  flight' = [flight EXCEPT ![f].look = @ \ {o},
                             ![f].entries = IF o \in published THEN @ \union {o} ELSE @,
                             ![f].todo = IF o \in published THEN @ ELSE @ \union {o}]
    /\ UNCHANGED <<request, jobs, published, used>>

\* A failed lookup, or a fatal error of a group (is_fatal, and any failed acquire_generator)
\* wherever it waits, generates or publishes, ends the flight with its error, for all that wait.
FlightFails(f) ==
    /\ \/ flight[f].pc = "looking" /\ flight[f].look # {}
       \/ flight[f].pc = "reserving" /\ flight[f].todo # {}
       \/ flight[f].pc \in {"starting", "generating", "publishing"}
    /\ used.failures < MaxFailures
    /\ used' = [used EXCEPT !.failures = @ + 1]
    /\ flight' = [flight EXCEPT ![f].pc = "notifying", ![f].result = "failed"]
    /\ UNCHANGED <<request, jobs, published>>

\* acquire_memory for the next group.
Reserve(f) ==
    /\ flight[f].pc = "reserving" /\ flight[f].todo # {} /\ ~flight[f].cancelled
    /\ Cardinality({g \in Requests : Holds(g)}) < MemorySlots
    /\ Task(f, "starting")
    /\ UNCHANGED <<request, jobs, published, used>>

\* run_blocking: a permit of the CPU goes into the job.
StartJob(f) ==
    /\ flight[f].pc = "starting" /\ ~flight[f].cancelled /\ f \notin jobs
    /\ Cardinality(jobs) < CpuSlots
    /\ jobs' = jobs \union {f}
    /\ Task(f, "generating")
    /\ UNCHANGED <<request, published, used>>

\* A job cannot be interrupted: it ends, and frees its CPU, though nobody waits for it.
JobEnds(f) ==
    /\ f \in jobs
    /\ jobs' = jobs \ {f}
    /\ IF flight[f].pc = "generating" THEN Task(f, "publishing") ELSE UNCHANGED flight
    /\ UNCHANGED <<request, published, used>>

\* An error that is not fatal, of a limit, a deadline, a generator or a publication: the outputs
\* of the group get it as their entry, and the next group follows.
GroupFails(f) ==
    /\ flight[f].pc \in {"reserving", "starting", "publishing"} /\ flight[f].todo # {}
    /\ used.failures < MaxFailures
    /\ used' = [used EXCEPT !.failures = @ + 1]
    /\ LET o == FirstOf(flight[f].todo)
       IN  flight' = [flight EXCEPT ![f].pc = "reserving", ![f].todo = @ \ {o},
                                    ![f].entries = @ \union {o}]
    /\ UNCHANGED <<request, jobs, published>>

\* publish_artifact asks for the cancellation itself; an artifact that exists is answered.
PublishArtifact(f) ==
    /\ flight[f].pc = "publishing" /\ ~flight[f].cancelled
    /\ LET o == FirstOf(flight[f].todo)
       IN  /\ published' = published \union {o}
           /\ flight' = [flight EXCEPT ![f].pc = "reserving", ![f].todo = @ \ {o},
                                       ![f].entries = @ \union {o}]
    /\ UNCHANGED <<request, jobs, used>>

\* A cancelled flight ends at its next check or await, with nothing but the error.
FlightCancelled(f) ==
    /\ flight[f].cancelled /\ flight[f].pc \in {"looking", "reserving", "starting", "generating", "publishing"}
    /\ flight[f].pc = "reserving" => flight[f].todo # {}
    /\ flight' = [flight EXCEPT ![f].pc = "notifying", ![f].result = "cancelled"]
    /\ UNCHANGED <<request, jobs, published, used>>

\* complete: the result is stored, then the waiters are notified.
StoreResult(f) ==
    /\ flight[f].pc = "reserving" /\ flight[f].todo = {}
    /\ flight' = [flight EXCEPT ![f].pc = "notifying", ![f].result = "entries"]
    /\ UNCHANGED <<request, jobs, published, used>>

\* Fault: one of the waiters is notified.
NotifyOne(f) ==
    /\ flight[f].pc = "notifying"
    /\ TaskEnds(f)
    /\ LET waiting == {r \in Requests : f \in request[r].flight
                                          /\ request[r].pc \in {"checking", "parked"}}
       IN  IF waiting = {} THEN UNCHANGED request
           ELSE \E r \in waiting : request' = [request EXCEPT ![r].woken = TRUE]
    /\ UNCHANGED <<jobs, published, used>>

\* notify_waiters reaches those that have enabled a notification.
Notify(f) ==
    /\ flight[f].pc = "notifying"
    /\ TaskEnds(f)
    /\ request' = [r \in Requests |->
                     IF f \in request[r].flight /\ request[r].pc \in {"checking", "parked"}
                     THEN [request[r] EXCEPT !.woken = TRUE] ELSE request[r]]
    /\ UNCHANGED <<jobs, published, used>>
------------------------------------------------------------------------------
RequestProceeds(r) ==
    AcquireRequest(r) \/ LookUp(r) \/ AllHit(r) \/ Join(r) \/ EnableNotified(r) \/ CheckResult(r) \/ Wake(r)

FlightProceeds(f) ==
    \/ FlightLooks(f) \/ Reserve(f) \/ StartJob(f) \/ JobEnds(f) \/ PublishArtifact(f)
    \/ FlightCancelled(f) \/ StoreResult(f) \/ Notify(f)

FlightsNext ==
    \E r \in Requests :
        RequestProceeds(r) \/ Interrupt(r) \/ FlightProceeds(r) \/ FlightFails(r) \/ GroupFails(r)

\* The runtime polls ready tasks, semaphores are fair, and blocking jobs end. No deadline is
\* counted on. (Each step is one of finitely many: that some are taken is enough.)
FlightsProceed == \E r \in Requests : RequestProceeds(r) \/ FlightProceeds(r)

FlightsFairness == WF_flightVars(FlightsProceed)

FlightsSpec == FlightsInit /\ [][FlightsNext]_flightVars /\ FlightsFairness
------------------------------------------------------------------------------
(* Properties.                                                              *)

\* While a request waits, nobody else's departure takes its work away. The exception is a
\* request that joined after the last waiter had left: the registry still hands out the flight.
OnlyLatecomersShareACancellation ==
    \A r \in Requests : request[r].outcome = "sharedCancel" => r \in used.late

\* The error "single-flight result omitted an output" is unreachable: the flight that a request
\* joined has an entry for each of its missing outputs, whichever groups failed.
NoOutputIsOmitted == \A r \in Requests : request[r].outcome # "omitted"

\* Sharing a flight costs a request nothing: it is answered for each of its outputs as if the
\* flight were its own.
SharingIsInvisible == OnlyLatecomersShareACancellation /\ NoOutputIsOmitted

\* Once requests are admitted every one of them ends, however joins, completions, notifications
\* and departures interleave, and without its deadline having to pass: no wake-up is lost and no
\* permit is kept.
RequestsEnd ==
    (\E r \in Requests : request[r].pc # "queued") ~> (\A r \in Requests : request[r].pc = "over")
=============================================================================
