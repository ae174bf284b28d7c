--------------------------- MODULE TargetSupervisor ---------------------------
(***************************************************************************)
(* The browser session's supervisor: targets/reducer.rs (one serialized    *)
(* state machine), the application of its effects in session/runtime.rs    *)
(* (every effect awaits the browser, and the reductions its answers cause  *)
(* are nested in the application), and the reconnect transaction of        *)
(* session/reconnect.rs.                                                   *)
(*                                                                         *)
(* The browser is external: its pages, its flat sessions, one event queue  *)
(* per kind of event (run_supervisor starts one pump task per kind, and    *)
(* the pumps write into one command channel), the loss of the connection,  *)
(* commands that fail. A page is its key; a page that is not recordable is *)
(* "internal". A session is its number; a session dies with its page, its  *)
(* connection or a detach. The capture coordinator is the set of contexts  *)
(* whose capture it was told to run.                                       *)
(*                                                                         *)
(* Abstracted: published events, openers, page sequences, titles and       *)
(* addresses, the release of pages that wait for a debugger, deadlines (a  *)
(* command either answers or fails), the commands inside restore_target    *)
(* and apply_viewport (one answer each), the hash order in which targets   *)
(* are visited (the order of their keys).                                  *)
(***************************************************************************)
EXTENDS Naturals, Sequences, FiniteSets, FiniteSetsExt, SequencesExt

CONSTANTS
    LastKey,        \* the browser's target keys are the numbers up to this one
    MaxKnown,       \* MAX_KNOWN_PAGE_TARGETS
    MaxPending,     \* MAX_PENDING_ATTACHED_SESSIONS
    Delays,         \* number of reconnect attempts
    Starts          \* the pages there are when a session starts, each with the bounds of its run:
                    \* page changes, lost connections, failing commands, operations, and the
                    \* kinds of command that may fail on a live session

Keys == 1 .. LastKey

Commands == {"connect", "attach", "domains", "probe", "viewport", "startup"}

ASSUME SupervisorAssumption ==
    /\ {LastKey, MaxKnown, MaxPending, Delays} \subseteq Nat \ {0}
    /\ Starts \subseteq [page : [Keys -> {"none", "open", "internal", "gone"}],
                          navigations : Nat, drops : Nat, faults : Nat, operations : Nat,
                          unreliable : SUBSET Commands]

VARIABLES
    sup,            \* SupervisorState
    run,            \* where run_supervisor is: its effect queue, the attempt and its draft
    page, shown,    \* the browser's pages, and whether each is visible
    sessions,       \* the flat sessions the browser has handed out
    link,           \* the connection: up or not, and its generation
    queue,          \* undelivered events by kind
    captures,       \* contexts whose capture the coordinator runs
    used            \* what is left of the bounds, visibility changes; sessions the supervisor detached and what went wrong (ghosts)

supVars == <<sup, run, page, shown, sessions, link, queue, captures, used>>

-----------------------------------------------------------------------------
(* The supervised state.                                                   *)

Terminal == {"Closed", "Failed"}

NoContext == [id |-> 0, gen |-> 0, att |-> 0, session |-> 0]

NoBinding == [kind |-> "Inactive", ctx |-> NoContext]

Unknown ==
    [lc |-> "absent", id |-> 0, session |-> 0, prior |-> "none", att |-> 0, seen |-> "Unknown",
     stamp |-> 0, binding |-> NoBinding, override |-> FALSE]

NewState ==
    [phase |-> "Connecting", gen |-> 1, targets |-> [k \in Keys |-> Unknown], owner |-> {},
     pending |-> <<>>, selected |-> 0, nextId |-> 1]

Known(t) == t.lc # "absent"

Alive(t) == Known(t) /\ t.lc \notin Terminal

\* Fault: a target that was never attached cannot fail.
CanMoveNoEarlyFailure(from, to) ==
    CASE from = "Discovered" -> to \in {"Attached", "Suspended", "Closed"}
      [] from = "Attached"   -> to \in {"Recording", "Hidden", "Suspended"} \cup Terminal
      [] from = "Recording"  -> to \in {"Hidden", "Suspended"} \cup Terminal
      [] from = "Hidden"     -> to \in {"Recording", "Suspended"} \cup Terminal
      [] from = "Suspended"  -> to \in {"Discovered", "Attached", "Recording", "Hidden"} \cup Terminal
      [] OTHER               -> FALSE

\* TargetLifecycle::transition.
CanMove(from, to) ==
    CASE from = "Discovered" -> to \in {"Attached", "Suspended"} \cup Terminal
      [] from = "Attached"   -> to \in {"Recording", "Hidden", "Suspended"} \cup Terminal
      [] from = "Recording"  -> to \in {"Hidden", "Suspended"} \cup Terminal
      [] from = "Hidden"     -> to \in {"Recording", "Suspended"} \cup Terminal
      [] from = "Suspended"  -> to \in {"Discovered", "Attached", "Recording", "Hidden"} \cup Terminal
      [] OTHER               -> FALSE

\* set_session_state.
CanEnter(from, to) ==
    \/ from = to
    \/ from = "Connecting" /\ to \in {"Ready", "Reconnecting", "Stopping", "Ended"}
    \/ from = "Ready" /\ to \in {"Reconnecting", "Stopping"}
    \/ from = "Reconnecting" /\ to \in {"Ready", "Stopping"}
    \/ from = "Stopping" /\ to = "Ended"

ContextOf(s, k) ==
    [id |-> s.targets[k].id, gen |-> s.gen, att |-> s.targets[k].att,
     session |-> s.targets[k].session]

Effect(op, k, s, ctx) == [op |-> op, key |-> k, session |-> s, ctx |-> ctx]

Detach(s) == Effect("Detach", 0, s, NoContext)

-----------------------------------------------------------------------------
(* The reducer. A reduction is a state, its effects in order, and whether  *)
(* every step of it was legal; reduce answers an error when one was not.   *)

Reduction(s) == [s |-> s, fx |-> <<>>, ok |-> TRUE]

Rejected(r) == [r EXCEPT !.ok = FALSE]

Emit(r, e) == [r EXCEPT !.fx = Append(@, e)]

\* The numbers of a set, each in its turn.
InOrder(Op(_, _), r, last, numbers) ==
    LET after[n \in 0 .. last] ==
            IF n = 0 THEN r
            ELSE IF n \in numbers THEN Op(after[n - 1], n) ELSE after[n - 1]
    IN  after[last]

ForKeys(Op(_, _), r, ks) == InOrder(Op, r, LastKey, ks)

\* A lifecycle transition that is not in the table rejects the reduction.
Move(r, k, to) ==
    IF CanMove(r.s.targets[k].lc, to) THEN [r EXCEPT !.s.targets[k].lc = to] ELSE Rejected(r)

Candidate(s, k) ==
    s.targets[k].session # 0 /\ s.targets[k].lc \notin Terminal \cup {"Suspended"}

ReconcileSelection(r) ==
    LET able == {k \in Keys : Candidate(r.s, k)}
    IN  IF r.s.selected \in able THEN r
        ELSE [r EXCEPT !.s.selected = IF able = {} THEN 0 ELSE Min(able)]

EnterPhase(r, next) ==
    IF CanEnter(r.s.phase, next) THEN [r EXCEPT !.s.phase = next] ELSE Rejected(r)

PendingOf(s, k) == {i \in DOMAIN s.pending : s.pending[i].key = k}

\* A key waits at most once, and so does a session.
DropPending(s, held) ==
    IF held = {} THEN s ELSE [s EXCEPT !.pending = RemoveAt(@, Min(held))]

\* attach on an unknown key: the session waits for a recordable target, the oldest
\* waiting ones beyond the limit are detached.
Pend(r, k, s) ==
    LET held == PendingOf(r.s, k)
        next == IF held = {} THEN Append(r.s.pending, [key |-> k, session |-> s])
                ELSE [r.s.pending EXCEPT ![Min(held)].session = s]
        over == IF Len(next) > MaxPending THEN Len(next) - MaxPending ELSE 0
    IN  [r EXCEPT !.s.pending = SubSeq(next, over + 1, Len(next)),
                  !.fx = @ \o (IF held = {} THEN <<>>
                              ELSE <<Detach(r.s.pending[Min(held)].session)>>)
                           \o [i \in 1..over |-> Detach(next[i].session)]]

AttachSession(r, k, s, probe) ==
    LET t    == r.s.targets[k]
        next == IF t.prior = "none" THEN "Attached" ELSE t.prior
        u    == [t EXCEPT !.session = s, !.att = @ + 1, !.prior = "none",
                          !.lc = IF next = "Discovered" THEN "Attached" ELSE next]
        s1   == [r.s EXCEPT !.targets[k] = u,
                            !.owner = {o \in @ : o[1] \notin {t.session, s}} \cup {<<s, k>>}]
    IN  CASE ~Known(t)                                         -> Pend(r, k, s)
          [] Known(t) /\ (t.lc \in Terminal \/ t.session = s) -> r
          [] Alive(t) /\ t.session # s /\ ~CanMove(t.lc, next) -> Rejected(r)
          [] OTHER ->
               [r EXCEPT !.s = s1,
                         !.fx = @ \o (IF t.session = 0 THEN <<>> ELSE <<Detach(t.session)>>)
                                  \o (IF t.override
                                      THEN <<Effect("RestoreViewport", k, s, ContextOf(s1, k))>>
                                      ELSE <<>>)
                                  \o (IF probe THEN <<Effect("RestoreDomains", k, s, NoContext)>>
                                      ELSE <<>>)]

AdoptPending(r, k) ==
    LET held == PendingOf(r.s, k)
        r1   == [r EXCEPT !.s = DropPending(@, held)]
    IN  IF held = {} THEN r ELSE AttachSession(r1, k, r.s.pending[Min(held)].session, TRUE)

\* prepare_page_target_slot and the insertion: closed and failed targets are forgotten
\* only when the limit is reached.
Insert(r, k, seen) ==
    LET live == {j \in Keys : Alive(r.s.targets[j])}
        keep == IF Cardinality({j \in Keys : Known(r.s.targets[j])}) >= MaxKnown THEN live
                ELSE Keys
        t    == [Unknown EXCEPT !.lc = "Discovered", !.id = r.s.nextId, !.seen = seen]
    IN  IF Cardinality(live) + 1 > MaxKnown THEN Rejected(r)
        ELSE [r EXCEPT !.s.targets = [j \in Keys |-> IF j = k THEN t
                                                     ELSE IF j \in keep THEN @[j] ELSE Unknown],
                       !.s.owner = {o \in @ : o[2] \in keep},
                       !.s.nextId = @ + 1]

Destroy(r, k) ==
    LET t == r.s.targets[k]
    IN  IF t.lc \in {"absent", "Closed"} THEN r
        ELSE ReconcileSelection(
               [(IF t.lc = "Failed" THEN r ELSE Move(r, k, "Closed")) EXCEPT
                         !.s.targets[k].session = 0,
                         !.s.owner = {o \in @ : o[1] # t.session},
                         !.fx = @ \o (IF t.session = 0 THEN <<>> ELSE <<Detach(t.session)>>)])

DestroyAll(r, ks) == ForKeys(Destroy, r, ks)

ReconcileOne(r, k, recordable, creation) ==
    LET t == r.s.targets[k]
        r1 == Insert(r, k, "Unknown")
    IN  CASE ~recordable                      -> Destroy(r, k)
          [] recordable /\ Alive(t)           -> AdoptPending(r, k)
          [] recordable /\ t.lc \in Terminal /\ ~creation -> r
          [] OTHER -> IF PendingOf(r.s, k) # {} THEN AdoptPending(r1, k)
                      ELSE Emit(r1, Effect("Attach", k, 0, NoContext))

Discover(r, k) == ReconcileOne(r, k, TRUE, TRUE)

DiscoverAll(r, ks) == ForKeys(Discover, r, ks)

ReconcileInitial(r, open) ==
    IF Cardinality(open) > MaxKnown THEN Rejected(r)
    ELSE DiscoverAll(DestroyAll(r, Keys \ open), open)

\* TargetAttachFailed: the target keeps its session.
AttachFailed(r, k) ==
    IF ~Alive(r.s.targets[k]) THEN r
    ELSE ReconcileSelection(Move(r, k, "Failed"))

\* Fault: a detached target may stay selected.
DetachedKeepsSelection(r, s) ==
    LET held == {i \in DOMAIN r.s.pending : r.s.pending[i].session = s}
        left == {o \in r.s.owner : o[1] # s}
        r1 == [r EXCEPT !.s = [DropPending(r.s, held) EXCEPT !.owner = left]]
        ks == {o[2] : o \in {p \in r.s.owner : p[1] = s}}
        k  == Min(ks)
    IN  IF ks = {} THEN r1
        ELSE IF Alive(r.s.targets[k])
             THEN [Move(r1, k, "Failed") EXCEPT !.s.targets[k].session = 0,
                                                !.s.targets[k].prior = "none"]
             ELSE [r1 EXCEPT !.s.targets[k].session = 0]

\* The map names the target, whichever session that target holds by now.
Detached(r, s) ==
    LET held == {i \in DOMAIN r.s.pending : r.s.pending[i].session = s}
        left == {o \in r.s.owner : o[1] # s}
        r1 == [r EXCEPT !.s = [DropPending(r.s, held) EXCEPT !.owner = left]]
        ks == {o[2] : o \in {p \in r.s.owner : p[1] = s}}
        k  == Min(ks)
    IN  IF ks = {} THEN r1
        ELSE IF Alive(r.s.targets[k])
             THEN ReconcileSelection([Move(r1, k, "Failed") EXCEPT
                      !.s.targets[k].session = 0, !.s.targets[k].prior = "none"])
             ELSE [r1 EXCEPT !.s.targets[k].session = 0]

DomainSetupFailed(r, k) ==
    LET t == r.s.targets[k]
    IN  IF ~Alive(t) THEN r
        ELSE ReconcileSelection(
               [Move(r, k, "Failed") EXCEPT
                         !.s.targets[k] = [@ EXCEPT !.session = 0, !.prior = "none",
                             !.binding = [kind |-> "Terminal", ctx |-> NoContext]],
                         !.s.owner = {o \in @ : o[1] # t.session},
                         !.fx = @ \o (IF t.session = 0 THEN <<>> ELSE <<Detach(t.session)>>)])

\* InitialVisibilityProbeFailed.
ProbeFailed(r, k) ==
    LET t == r.s.targets[k]
    IN  IF t.session # 0 /\ t.seen = "Unknown" /\ t.binding.kind = "Inactive"
        THEN [r EXCEPT !.s.targets[k].binding.kind = "Unavailable"] ELSE r

VisibilityChanged(r, k, seen, at) ==
    LET t  == r.s.targets[k]
        lc == CASE t.lc \in {"Attached", "Recording"} /\ seen = "Hidden" -> "Hidden"
                [] t.lc = "Hidden" /\ seen = "Visible"                   -> "Recording"
                [] OTHER                                                 -> t.lc
        u  == [t EXCEPT !.stamp = at,
                        !.binding.kind = IF @ = "Unavailable" THEN "Inactive" ELSE @]
    IN  CASE ~Alive(t) \/ at < t.stamp -> r
          [] Alive(t) /\ at >= t.stamp /\ t.seen = seen -> [r EXCEPT !.s.targets[k] = u]
          [] OTHER -> LET r1 == [r EXCEPT !.s.targets[k] = [u EXCEPT !.seen = seen]]
                      IN  IF lc = t.lc THEN r1 ELSE Move(r1, k, lc)

SelectTarget(r, k) ==
    IF Candidate(r.s, k) THEN [r EXCEPT !.s.selected = k] ELSE Rejected(r)

OverrideApplied(r, k) ==
    IF Candidate(r.s, k) THEN [r EXCEPT !.s.targets[k].override = TRUE] ELSE Rejected(r)

\* Fault: a suspended target keeps the session of the lost connection.
SuspendKeepsSession(t) ==
    IF ~Alive(t) \/ t.lc = "Suspended" THEN t
    ELSE [t EXCEPT !.lc = "Suspended", !.prior = t.lc]

Suspend(t) ==
    IF ~Alive(t) THEN t
    ELSE [t EXCEPT !.lc = "Suspended", !.session = 0,
                   !.prior = IF t.lc = "Suspended" THEN @ ELSE t.lc]

\* Every target that is not terminal may be suspended: the reduction cannot be rejected here.
SuspendAll(r) ==
    [EnterPhase(r, "Reconnecting") EXCEPT
        !.s.targets = [k \in Keys |-> Suspend(r.s.targets[k])], !.s.owner = {}, !.s.pending = <<>>]

\* Fault: without a live target there is nothing to reconnect for.
ConnectionLostWithTargets(r) ==
    IF r.s.phase \in {"Ended", "Stopping"} THEN r
    ELSE IF \E k \in Keys : Alive(r.s.targets[k])
         THEN Emit(SuspendAll(r), Effect("BeginReconnect", 0, 0, NoContext)) ELSE SuspendAll(r)

ConnectionLost(r) ==
    IF r.s.phase \in {"Ended", "Stopping"} THEN r
    ELSE Emit(SuspendAll(r), Effect("BeginReconnect", 0, 0, NoContext))

ReconcileRestored(r, k, s) ==
    LET r1 == IF Known(r.s.targets[k]) THEN [r EXCEPT !.s.targets[k].seen = "Unknown"]
              ELSE Insert(r, k, "Unknown")
    IN  AttachSession(r1, k, s, FALSE)

\* restored is the snapshot: a set of pairs of a key and its new session.
RestoreAll(r, restored) ==
    ForKeys(LAMBDA q, k : ReconcileRestored(q, k, (CHOOSE p \in restored : p[1] = k)[2]), r,
            {p[1] : p \in restored})

\* Fault: the map is cleared when the targets have their new sessions.
ReconnectedClearsLate(r, gen, restored) ==
    LET seen == {p[1] : p \in restored}
        r1   == DestroyAll([r EXCEPT !.s.gen = gen], Keys \ seen)
        r2   == [RestoreAll(r1, restored) EXCEPT !.s.owner = {}, !.s.pending = <<>>]
    IN  IF r.s.phase \in {"Stopping", "Ended"} \/ gen <= r.s.gen THEN r
        ELSE IF Cardinality(seen) > MaxKnown THEN Rejected(r)
        ELSE EnterPhase(ReconcileSelection(r2), "Ready")

\* Fault: targets that the snapshot does not show are left alone.
ReconnectedKeepsOthers(r, gen, restored) ==
    LET r2 == [r EXCEPT !.s.gen = gen, !.s.owner = {}, !.s.pending = <<>>]
    IN  IF r.s.phase \in {"Stopping", "Ended"} \/ gen <= r.s.gen THEN r
        ELSE EnterPhase(ReconcileSelection(RestoreAll(r2, restored)), "Ready")

Reconnected(r, gen, restored) ==
    LET seen == {p[1] : p \in restored}
        r1   == DestroyAll([r EXCEPT !.s.gen = gen], Keys \ seen)
        r2   == [r1 EXCEPT !.s.owner = {}, !.s.pending = <<>>]
    IN  IF r.s.phase \in {"Stopping", "Ended"} \/ gen <= r.s.gen THEN r
        ELSE IF Cardinality(seen) > MaxKnown THEN Rejected(r)
        ELSE EnterPhase(ReconcileSelection(RestoreAll(r2, restored)), "Ready")

BeginShutdown(r) ==
    IF r.s.phase \in {"Ended", "Stopping"} THEN r
    ELSE Emit(EnterPhase(r, "Stopping"), Effect("Shutdown", 0, 0, NoContext))

\* Fault: a teardown runs after what the reduction had queued.
TeardownLast(fx, e) == Append(fx, e)

\* queue_capture_teardown: before the detach of the same session, before the end.
Teardown(fx, e) ==
    LET after == {i \in DOMAIN fx :
                    \/ fx[i].op = "Detach" /\ fx[i].session = e.ctx.session
                    \/ fx[i].op \in {"Shutdown", "BeginReconnect"}}
    IN  IF after = {} THEN Append(fx, e) ELSE InsertAt(fx, Min(after), e)

Eligible(s, k) ==
    /\ s.phase = "Ready"
    /\ s.targets[k].seen = "Visible"
    /\ s.targets[k].lc \in {"Attached", "Recording"}
    /\ s.targets[k].session # 0

\* reconcile_capture_bindings, for one target.
Rebind(r, k) ==
    LET t     == r.s.targets[k]
        b     == t.binding
        now   == ContextOf(r.s, k)
        over  == t.lc \in Terminal
        ends  == over \/ r.s.phase = "Stopping"
        Bind(q, kind, ctx)  == [q EXCEPT !.s.targets[k].binding = [kind |-> kind, ctx |-> ctx]]
        Begin(q, op)        == Bind(Emit(q, Effect(op, k, 0, now)), "Active", now)
        End(op)             == [r EXCEPT !.fx = Teardown(@, Effect(op, k, 0, b.ctx))]
    IN  CASE ~Known(t) -> r
          [] Known(t) /\ b.kind = "Inactive" ->
               IF over THEN Bind(r, "Terminal", NoContext)
               ELSE IF Eligible(r.s, k) THEN Begin(r, "Start") ELSE r
          [] Known(t) /\ b.kind = "Active" ->
               CASE ends -> Bind(End("Stop"), "Terminal", NoContext)
                 [] ~ends /\ (r.s.phase = "Reconnecting" \/ t.session = 0) ->
                      Bind(End("Suspend"), "Suspended", b.ctx)
                 [] ~ends /\ r.s.phase # "Reconnecting" /\ t.session # 0 /\ now # b.ctx ->
                      IF Eligible(r.s, k) THEN Begin(End("Stop"), "Start")
                      ELSE Bind(End("Stop"), "Inactive", NoContext)
                 [] OTHER -> r
          [] Known(t) /\ b.kind = "Suspended" ->
               IF ends THEN Bind(End("Stop"), "Terminal", NoContext)
               ELSE IF Eligible(r.s, k) /\ t.att > b.ctx.att THEN Begin(r, "Resume") ELSE r
          [] Known(t) /\ b.kind = "Unavailable" ->
               IF ends THEN Bind(r, "Terminal", NoContext) ELSE r
          [] OTHER -> r

Unavailable == [kind |-> "Unavailable", ctx |-> NoContext]

RebindAll(r) == ForKeys(Rebind, r, Keys)

\* Fault: a failed startup of an earlier connection fails the current one.
StartFailedOfTarget(r, ctx) ==
    LET ks == {k \in Keys : Alive(r.s.targets[k]) /\ r.s.targets[k].id = ctx.id}
    IN  IF ks = {} THEN r ELSE [r EXCEPT !.s.targets[Min(ks)].binding = Unavailable]

\* CaptureStartFailed: only the current binding of the current connection.
StartFailed(r, ctx) ==
    LET ks == {k \in Keys : /\ Alive(r.s.targets[k])
                            /\ r.s.targets[k].binding = [kind |-> "Active", ctx |-> ctx]}
    IN  IF ctx.gen # r.s.gen \/ ks = {} THEN r
        ELSE [r EXCEPT !.s.targets[Min(ks)].binding = Unavailable]

InitialCompleted(r) ==
    IF \E k \in Keys : Alive(r.s.targets[k]) /\ r.s.targets[k].session = 0 THEN Rejected(r)
    ELSE EnterPhase(ReconcileSelection(r), "Ready")

-----------------------------------------------------------------------------
(* Inputs: a type, a key, a session, and what the event carries. gen is    *)
(* the generation a pump wraps its events in, 0 for an unwrapped input.    *)

Input(type, k) ==
    [type |-> type, key |-> k, session |-> 0, recordable |-> TRUE, gen |-> 0, open |-> {},
     seen |-> "Unknown", at |-> 0, ctx |-> NoContext, restored |-> {}]

Fenced ==
    {"InitialTargets", "TargetCreated", "TargetInfoChanged", "Attached", "TargetAttachFailed",
     "Detached", "TargetDestroyed", "VisibilityChanged", "CaptureVisibilityChanged",
     "SelectTarget", "ViewportOverrideApplied"}

Handle(r, i) ==
    CASE i.type = "InitialTargets"     -> ReconcileInitial(r, i.open)
      [] i.type = "InitialReconciliationCompleted" -> InitialCompleted(r)
      [] i.type = "TargetCreated"      -> ReconcileOne(r, i.key, i.recordable, TRUE)
      [] i.type = "TargetInfoChanged"  -> ReconcileOne(r, i.key, i.recordable, FALSE)
      [] i.type = "Attached"           -> AttachSession(r, i.key, i.session, TRUE)
      [] i.type = "TargetAttachFailed" -> AttachFailed(r, i.key)
      [] i.type = "CaptureStartFailed" -> StartFailed(r, i.ctx)
      [] i.type = "Detached"           -> Detached(r, i.session)
      [] i.type = "TargetDestroyed"    ->
           LET held == PendingOf(r.s, i.key)
               r1   == [r EXCEPT !.s = DropPending(@, held)]
           IN  Destroy(IF held = {} THEN r1 ELSE Emit(r1, Detach(r.s.pending[Min(held)].session)),
                       i.key)
      [] i.type = "VisibilityChanged"  -> VisibilityChanged(r, i.key, i.seen, i.at)
      [] i.type = "CaptureVisibilityChanged" ->
           LET ks == {k \in Keys : Known(r.s.targets[k]) /\ r.s.targets[k].id = i.ctx.id}
           IN  IF ks = {} THEN r ELSE VisibilityChanged(r, Min(ks), i.seen, i.at)
      [] i.type = "DomainSetupFailed"  -> DomainSetupFailed(r, i.key)
      [] i.type = "InitialVisibilityProbeFailed" -> ProbeFailed(r, i.key)
      [] i.type = "SelectTarget"       -> SelectTarget(r, i.key)
      [] i.type = "ViewportOverrideApplied" -> OverrideApplied(r, i.key)
      [] i.type = "ConnectionLost"     -> ConnectionLost(r)
      [] i.type = "Reconnected"        -> Reconnected(r, i.gen, i.restored)
      [] i.type \in {"ReconnectExhausted", "StopRequested", "BrowserProcessTerminated"} ->
           BeginShutdown(r)

Reduce(s, i) ==
    IF \/ i.type # "Reconnected" /\ i.gen # 0 /\ i.gen # s.gen
       \/ s.phase = "Reconnecting" /\ i.type \in Fenced
    THEN Reduction(s)
    ELSE RebindAll(Handle(Reduction(s), i))

-----------------------------------------------------------------------------
(* The browser.                                                            *)

Kinds == {"created", "info", "attached", "detached", "destroyed", "lost", "capture"}

Spend(c) == [used EXCEPT ![c] = @ - 1]

Disturbances(u) == u.navigations + u.switches + u.drops + u.faults

Live(s) == s \in DOMAIN sessions /\ sessions[s].live

Put(q, kind, i) ==
    IF link.up THEN [q EXCEPT ![kind] = Append(@, [i EXCEPT !.gen = link.gen])] ELSE q

\* The browser hands out a session of page k and announces it.
NewSession(k) == Append(sessions, [key |-> k, live |-> TRUE])

Announce(q, k) ==
    Put(q, "attached", [Input("Attached", k) EXCEPT !.session = Len(sessions) + 1])

Kill(dead) == [s \in DOMAIN sessions |-> [sessions[s] EXCEPT !.live = @ /\ s \notin dead]]

PutDetached(q, ss) ==
    InOrder(LAMBDA z, s : Put(z, "detached", [Input("Detached", 0) EXCEPT !.session = s]), q,
            Len(sessions), ss)

InfoInput(type, k, kind) == [Input(type, k) EXCEPT !.recordable = kind = "open"]

\* A page opens by itself; the browser may attach to it at once.
PageOpens(k, kind, auto) ==
    LET q == Put(queue, "created", InfoInput("TargetCreated", k, kind))
    IN  /\ page[k] = "none" /\ used.navigations > 0
        /\ auto => link.up
        /\ page' = [page EXCEPT ![k] = kind]
        /\ queue' = IF auto THEN Announce(q, k) ELSE q
        /\ sessions' = IF auto THEN NewSession(k) ELSE sessions
        /\ used' = Spend("navigations")
        /\ UNCHANGED <<sup, run, shown, link, captures>>

PageNavigates(k) ==
    LET to == IF page[k] = "open" THEN "internal" ELSE "open"
    IN  /\ page[k] \in {"open", "internal"} /\ used.navigations > 0
        /\ page' = [page EXCEPT ![k] = to]
        /\ queue' = Put(queue, "info", InfoInput("TargetInfoChanged", k, to))
        /\ used' = Spend("navigations")
        /\ UNCHANGED <<sup, run, shown, sessions, link, captures>>

OfPage(k) == {s \in DOMAIN sessions : sessions[s].key = k /\ sessions[s].live}

ClosesPage(k) ==
    /\ page[k] \in {"open", "internal"}
    /\ page' = [page EXCEPT ![k] = "gone"]
    /\ sessions' = Kill(OfPage(k))
    /\ queue' = Put(PutDetached(queue, OfPage(k)), "destroyed", Input("TargetDestroyed", k))

PageCloses(k) ==
    /\ used.navigations > 0
    /\ ClosesPage(k)
    /\ used' = Spend("navigations")
    /\ UNCHANGED <<sup, run, shown, link, captures>>

SessionDetaches(s) ==
    /\ Live(s) /\ used.faults > 0
    /\ sessions' = Kill({s})
    /\ queue' = PutDetached(queue, {s})
    /\ used' = Spend("faults")
    /\ UNCHANGED <<sup, run, page, shown, link, captures>>

\* Every pump and every frame stream reports the loss; one report stands for them.
ConnectionDrops ==
    /\ link.up /\ used.drops > 0
    /\ link' = [link EXCEPT !.up = FALSE]
    /\ sessions' = Kill(DOMAIN sessions)
    /\ queue' = Put(queue, "lost", Input("ConnectionLost", 0))
    /\ used' = Spend("drops")
    /\ UNCHANGED <<sup, run, page, shown, captures>>

Visibility(k) == IF shown[k] THEN "Visible" ELSE "Hidden"

\* A running screencast reports the change; its event is not wrapped in a generation.
VisibilitySwitches(k) ==
    LET to == IF shown[k] THEN "Hidden" ELSE "Visible"
        watching == {c \in captures : Live(c.session) /\ sessions[c.session].key = k}
        Report(c) == [Input("CaptureVisibilityChanged", 0) EXCEPT
                         !.seen = to, !.at = used.switches + 1,
                         !.ctx = [NoContext EXCEPT !.id = c.id]]
    IN  /\ page[k] \in {"open", "internal"} /\ used.navigations > 0
        /\ shown' = [shown EXCEPT ![k] = ~@]
        /\ queue' = [queue EXCEPT !.capture = @ \o [n \in 1 .. Cardinality(watching) |->
                                                       Report(SetToSeq(watching)[n])]]
        /\ used' = [Spend("navigations") EXCEPT !.switches = @ + 1]
        /\ UNCHANGED <<sup, run, page, sessions, link, captures>>

\* A capture's startup task gives up and reports its context.
StartupFails(c) ==
    /\ c \in captures /\ "startup" \in used.unreliable /\ used.faults > 0
    /\ captures' = captures \ {c}
    /\ queue' = [queue EXCEPT !.capture = Append(@, [Input("CaptureStartFailed", 0) EXCEPT !.ctx = c])]
    /\ used' = Spend("faults")
    /\ UNCHANGED <<sup, run, page, shown, sessions, link>>

\* A command of this kind may fail although its session lives; each failure uses one of the bound.
Failing(kind, works) ==
    \/ ~works /\ used' = used
    \/ works /\ kind \in used.unreliable /\ used.faults > 0 /\ used' = Spend("faults")

Answers(works) == works /\ used' = used

-----------------------------------------------------------------------------
(* Applying effects: apply_effects_with_deadline. A reduction that an      *)
(* answer causes starts from a state that was replaced by an empty one, so *)
(* that an error erases every target and ends the application. Only a      *)
(* reconnection restores a viewport: the RestoreViewport arm of the        *)
(* application is never reached.                                           *)

Rest == Tail(run.fx)

Top == Head(run.fx)

Applying(op) == run.pc = "applying" /\ run.fx # <<>> /\ Top.op = op

Nested(i, rest) ==
    LET r == Reduce(sup, i)
    IN  IF r.ok THEN sup' = r.s /\ run' = [run EXCEPT !.fx = rest \o r.fx]
        ELSE sup' = NewState /\ run' = [run EXCEPT !.fx = <<>>, !.erased = TRUE]

ApplyAttach ==
    /\ Applying("Attach")
    /\ LET k == Top.key
           works == link.up /\ page[k] \in {"open", "internal"}
       IN  \/ /\ Answers(works)
              /\ sessions' = NewSession(k) /\ queue' = Announce(queue, k)
              /\ Nested([Input("Attached", k) EXCEPT !.session = Len(sessions) + 1], Rest)
           \/ /\ Failing("attach", works)
              /\ Nested(Input("TargetAttachFailed", k), Rest)
              /\ UNCHANGED <<sessions, queue>>
    /\ UNCHANGED <<page, shown, link, captures>>

ApplyDetach ==
    /\ Applying("Detach")
    /\ LET s == Top.session
       IN  /\ sessions' = Kill({s})
           /\ queue' = IF Live(s) THEN PutDetached(queue, {s}) ELSE queue
           /\ used' = [used EXCEPT !.released = @ \cup {s}]
    /\ run' = [run EXCEPT !.fx = Rest]
    /\ UNCHANGED <<sup, page, shown, link, captures>>

ApplyRestoreDomains ==
    /\ Applying("RestoreDomains")
    /\ LET works == Known(sup.targets[Top.key]) /\ Live(Top.session)
       IN  \/ /\ Answers(works) /\ sup' = sup
              /\ run' = [run EXCEPT !.fx = <<[Top EXCEPT !.op = "Probe"]>> \o Rest]
           \/ Failing("domains", works) /\ Nested(Input("DomainSetupFailed", Top.key), Rest)
    /\ UNCHANGED <<page, shown, sessions, link, queue, captures>>

Seen(k) == [Input("VisibilityChanged", k) EXCEPT !.seen = Visibility(k), !.at = used.switches]

ApplyProbe ==
    /\ Applying("Probe")
    /\ LET works == Live(Top.session)
       IN  \/ Answers(works) /\ Nested(Seen(Top.key), Rest)
           \/ Failing("probe", works) /\ Nested(Input("InitialVisibilityProbeFailed", Top.key), Rest)
    /\ UNCHANGED <<page, shown, sessions, link, queue, captures>>

ApplyCapture ==
    /\ run.pc = "applying" /\ run.fx # <<>> /\ Top.op \in {"Start", "Resume", "Suspend", "Stop"}
    /\ captures' = IF Top.op \in {"Start", "Resume"} THEN captures \cup {Top.ctx}
                   ELSE captures \ {Top.ctx}
    /\ run' = [run EXCEPT !.fx = Rest]
    /\ UNCHANGED <<sup, page, shown, sessions, link, queue, used>>

\* BeginReconnect and Shutdown mark what follows the application.
ApplyMarker ==
    /\ run.pc = "applying" /\ run.fx # <<>> /\ Top.op \in {"BeginReconnect", "Shutdown"}
    /\ run' = [run EXCEPT !.fx = Rest]
    /\ UNCHANGED <<sup, page, shown, sessions, link, queue, captures, used>>

\* The reduction that is committed, and what comes after its effects.
Commit(r, then) ==
    /\ sup' = r.s
    /\ run' = [run EXCEPT !.pc = "applying", !.fx = r.fx, !.then =
                 IF \E n \in DOMAIN r.fx : r.fx[n].op = "BeginReconnect" THEN "reconnect"
                 ELSE IF \E n \in DOMAIN r.fx : r.fx[n].op = "Shutdown" THEN "end" ELSE then]

EffectsDone ==
    /\ run.pc = "applying" /\ run.fx = <<>>
    /\ LET r == Reduce(sup, Input("InitialReconciliationCompleted", 0))
           q == Reduce(sup, Input("SelectTarget", run.key))
           selecting == run.then = "select" /\ ~run.erased /\ Candidate(sup, run.key)
       IN  CASE run.then = "initial" ->
                  IF run.erased \/ ~r.ok THEN sup' = sup /\ run' = [run EXCEPT !.pc = "ended"]
                  ELSE Commit(r, "idle")
             [] selecting /\ q.ok -> Commit(q, "idle")
             [] run.then = "reconnect" ->
                  sup' = sup /\ run' = [run EXCEPT !.pc = "backoff", !.attempts = 0]
             [] run.then = "end" ->
                  sup' = [sup EXCEPT !.phase = "Ended"] /\ run' = [run EXCEPT !.pc = "ended"]
             [] OTHER -> sup' = sup /\ run' = [run EXCEPT !.pc = "idle"]
    /\ UNCHANGED <<page, shown, sessions, link, queue, captures, used>>

\* An input that reduces to an error leaves the state as it was.
Receive(kind) ==
    /\ run.pc = "idle" /\ queue[kind] # <<>>
    /\ LET r == Reduce(sup, Head(queue[kind]))
       IN  IF r.ok THEN Commit(r, "idle") ELSE UNCHANGED <<sup, run>>
    /\ queue' = [queue EXCEPT ![kind] = Tail(@)]
    /\ UNCHANGED <<page, shown, sessions, link, captures, used>>

-----------------------------------------------------------------------------
(* reconnect_loop_transactional: an attempt builds the new connection's    *)
(* state beside the committed one; only Publish replaces it.               *)

Attempting == run.pc \in {"attaching", "domains", "staging", "probing"}

Only(seq, kept) == InOrder(LAMBDA z, n : Append(z, seq[n]), <<>>, Len(seq), kept)

UpTo(events, gen) == Only(events, {n \in DOMAIN events : events[n].gen <= gen})

\* The attempt's connection and what its pumps never delivered are dropped with it.
GiveUp(u) ==
    /\ run' = [run EXCEPT !.pc = "backoff", !.attempts = @ + 1, !.fx = <<>>, !.staged = <<>>,
                          !.left = {}, !.restored = {}, !.draft = NewState,
                          !.blamed = @ \/ Disturbances(u) = run.before]
    /\ link' = [link EXCEPT !.up = FALSE]
    /\ sessions' = Kill(DOMAIN sessions)
    /\ queue' = [n \in Kinds |-> UpTo(queue[n], sup.gen)]

OpenPages == {k \in Keys : page[k] = "open"}

StartAttempt ==
    /\ run.pc = "backoff" /\ run.attempts < Delays
    /\ \/ /\ Failing("connect", TRUE)
          /\ run' = [run EXCEPT !.attempts = @ + 1]
          /\ link' = link
       \/ /\ Answers(Cardinality(OpenPages) <= MaxKnown)
          /\ run' = [run EXCEPT !.pc = "attaching", !.left = OpenPages,
                                !.before = Disturbances(used)]
          /\ link' = [up |-> TRUE, gen |-> sup.gen + 1]
    /\ UNCHANGED <<sup, page, shown, sessions, queue, captures>>

\* restore_targets: several attach at once, the first failure ends the attempt.
AttemptAttach(k) ==
    /\ run.pc = "attaching" /\ k \in run.left
    /\ LET works == link.up /\ page[k] \in {"open", "internal"}
       IN  \/ /\ Answers(works)
              /\ sessions' = NewSession(k) /\ queue' = Announce(queue, k) /\ link' = link
              /\ run' = [run EXCEPT !.left = @ \ {k},
                                    !.restored = @ \cup {<<k, Len(sessions) + 1>>}]
           \/ Failing("attach", works) /\ GiveUp(used')
    /\ UNCHANGED <<sup, page, shown, captures>>

WithSession(s) == {k \in Keys : s.targets[k].session # 0}

AttemptReduce ==
    /\ run.pc = "attaching" /\ run.left = {}
    /\ LET r == Reduce(sup, [Input("Reconnected", 0) EXCEPT !.gen = sup.gen + 1,
                                                           !.restored = run.restored])
       IN  IF r.ok
           THEN /\ run' = [run EXCEPT !.pc = "domains", !.draft = r.s, !.fx = r.fx,
                                      !.left = WithSession(r.s)]
                /\ UNCHANGED <<sessions, link, queue>>
           ELSE GiveUp(used)
    /\ UNCHANGED <<sup, page, shown, captures, used>>

\* restore_targets_for_reconnection, first loop: every target that holds a session.
AttemptDomains ==
    /\ run.pc = "domains"
    /\ IF run.left = {}
       THEN /\ run' = [run EXCEPT !.pc = "staging"]
            /\ UNCHANGED <<sessions, link, queue, used>>
       ELSE LET k == Min(run.left)
                works == Live(run.draft.targets[k].session)
            IN  \/ /\ Answers(works)
                   /\ run' = [run EXCEPT !.left = @ \ {k}] /\ UNCHANGED <<sessions, link, queue>>
                \/ Failing("domains", works) /\ GiveUp(used')
    /\ UNCHANGED <<sup, page, shown, captures>>

\* stage_reconnection_effects. TargetAttachFailed is never rejected: a target that has not ended
\* may fail from anywhere.
AttemptStage ==
    /\ run.pc = "staging" /\ run.fx # <<>>
    /\ LET works == IF Top.op = "Detach" THEN Live(Top.session) ELSE Live(Top.ctx.session)
           r == Reduce(run.draft, Input("TargetAttachFailed", Top.key))
           kept == Only(run.staged, {n \in DOMAIN run.staged :
                          ~(/\ run.staged[n].op \in {"Start", "Resume", "Suspend", "Stop"}
                            /\ run.staged[n].ctx.id = Top.ctx.id)})
       IN  CASE Top.op = "Detach" ->
                  IF works
                  THEN /\ run' = [run EXCEPT !.fx = Rest]
                       /\ sessions' = Kill({Top.session})
                       /\ queue' = PutDetached(queue, {Top.session})
                       /\ used' = [used EXCEPT !.released = @ \cup {Top.session}]
                       /\ link' = link
                  ELSE GiveUp(used) /\ used' = used
             [] Top.op = "RestoreViewport" ->
                  /\ UNCHANGED <<sessions, link, queue>>
                  /\ \/ Answers(works) /\ run' = [run EXCEPT !.fx = Rest]
                     \/ /\ Failing("viewport", works)
                        /\ run' = [run EXCEPT !.fx = Rest, !.draft = r.s, !.staged = kept \o r.fx,
                                              !.failed = @ \cup {Top.ctx.id}]
             [] Top.op \in {"Start", "Resume", "Suspend", "Stop"} ->
                  /\ run' = [run EXCEPT !.fx = Rest, !.staged =
                        IF Top.op \in {"Start", "Resume"} /\ Top.ctx.id \in run.failed THEN @
                        ELSE Append(@, Top)]
                  /\ UNCHANGED <<sessions, link, queue, used>>
             [] OTHER -> GiveUp(used) /\ used' = used
    /\ UNCHANGED <<sup, page, shown, captures>>

Staged ==
    /\ run.pc = "staging" /\ run.fx = <<>>
    /\ run' = [run EXCEPT !.pc = "probing",
                          !.left = {k \in WithSession(run.draft) :
                                       run.draft.targets[k].lc # "Failed"}]
    /\ UNCHANGED <<sup, page, shown, sessions, link, queue, captures, used>>

\* The optional observations, one bounded window for all of them. Neither input is ever rejected:
\* every change of visibility is a legal move of a target that has not ended.
AttemptProbe ==
    /\ run.pc = "probing" /\ run.left # {}
    /\ LET k == Min(run.left)
           works == Live(run.draft.targets[k].session)
           Take(i) == LET r == Reduce(run.draft, i)
                      IN  run' = [run EXCEPT !.left = @ \ {k}, !.draft = r.s,
                                             !.staged = @ \o r.fx]
       IN  \/ Answers(works) /\ Take(Seen(k))
           \/ Failing("probe", works) /\ Take(Input("InitialVisibilityProbeFailed", k))
    /\ UNCHANGED <<sup, page, shown, sessions, link, queue, captures>>

Publish ==
    /\ run.pc = "probing" /\ run.left = {}
    /\ sup' = run.draft
    /\ run' = [run EXCEPT !.pc = "applying", !.fx = run.staged, !.then = "idle", !.staged = <<>>,
                          !.draft = NewState, !.restored = {}, !.failed = {}]
    /\ UNCHANGED <<page, shown, sessions, link, queue, captures, used>>

Exhausted ==
    /\ run.pc = "backoff" /\ run.attempts = Delays
    /\ Commit(Reduce(sup, Input("ReconnectExhausted", 0)), "end")
    /\ UNCHANGED <<page, shown, sessions, link, queue, captures, used>>

\* While it reconnects, the supervisor takes every input and ignores it. The old pumps are
\* gone, so that an old input is drained before an attempt or left behind the attempt's end.
Drain(kind) ==
    /\ run.pc = "backoff"
    /\ queue[kind] # <<>> /\ Head(queue[kind]).gen <= sup.gen
    /\ queue' = [queue EXCEPT ![kind] = Tail(@)]
    /\ UNCHANGED <<sup, run, page, shown, sessions, link, captures, used>>

-----------------------------------------------------------------------------
(* Operations, one at a time between two inputs, and the end of a session. *)

\* An operation over a lost connection, whose commands fail, is left out.
Operating == run.pc = "idle" /\ link.up /\ used.operations > 0

\* A listing and a creation reduce a copy of the state; a rejected input changes nothing.
Operate(i, then, k) ==
    LET r == Reduce(sup, i)
    IN  IF r.ok THEN /\ sup' = r.s
                     /\ run' = [run EXCEPT !.pc = "applying", !.fx = r.fx, !.then = then, !.key = k]
        ELSE UNCHANGED <<sup, run>>

\* commit_supervisor_input: as in a nested reduction, an error leaves an empty state.
CommitInput(i) ==
    LET r == Reduce(sup, i)
    IN  IF r.ok THEN Commit(r, "idle")
        ELSE sup' = NewState /\ run' = [run EXCEPT !.erased = TRUE]

\* The inventory a listing fetches is reduced as one snapshot.
ListPages ==
    /\ Operating
    /\ Operate([Input("InitialTargets", 0) EXCEPT !.open = OpenPages], "idle", 0)
    /\ used' = Spend("operations")
    /\ UNCHANGED <<page, shown, sessions, link, queue, captures>>

CreatePage(k) ==
    /\ Operating /\ page[k] = "none"
    /\ page' = [page EXCEPT ![k] = "open"]
    /\ queue' = Put(queue, "created", InfoInput("TargetCreated", k, "open"))
    /\ Operate(Input("TargetCreated", k), "select", k)
    /\ used' = Spend("operations")
    /\ UNCHANGED <<shown, sessions, link, captures>>

ClosePage(k) ==
    /\ Operating /\ Candidate(sup, k)
    /\ ClosesPage(k)
    /\ CommitInput(Input("TargetDestroyed", k))
    /\ used' = Spend("operations")
    /\ UNCHANGED <<shown, link, captures>>

SelectPage(k) ==
    /\ Operating /\ Candidate(sup, k)
    /\ CommitInput(Input("SelectTarget", k))
    /\ used' = Spend("operations")
    /\ UNCHANGED <<page, shown, sessions, link, queue, captures>>

\* commit_observed_visibility, after a page operation observed its target.
ObservePage(k) ==
    /\ Operating /\ Candidate(sup, k) /\ Live(sup.targets[k].session)
    /\ CommitInput(Seen(k))
    /\ used' = Spend("operations")
    /\ UNCHANGED <<page, shown, sessions, link, queue, captures>>

\* The viewport is applied and committed, or neither it nor its rollback takes effect (which
\* uses one of the bound on failing commands) and the target is failed.
SetViewport(k) ==
    /\ Operating /\ "viewport" \in used.unreliable /\ Candidate(sup, k)
    /\ LET works == Live(sup.targets[k].session)
       IN  \/ /\ works /\ CommitInput(Input("ViewportOverrideApplied", k))
              /\ used' = Spend("operations")
           \/ /\ CommitInput(Input("TargetAttachFailed", k))
              /\ used.faults > 0
              /\ used' = [Spend("operations") EXCEPT !.faults = @ - 1]
    /\ UNCHANGED <<page, shown, sessions, link, queue, captures>>

\* A stop, a cancellation or the death of the browser; in a reconnect it interrupts the attempt.
EndSession(cause) ==
    /\ run.pc \in {"idle", "backoff"} \/ Attempting
    /\ used.operations > 0
    /\ LET r == Reduce(sup, Input(cause, 0))
       IN  /\ sup' = r.s
           /\ run' = [run EXCEPT !.pc = "applying", !.fx = r.fx, !.then = "end", !.left = {},
                                 !.staged = <<>>, !.restored = {}, !.draft = NewState]
    /\ IF Attempting
       THEN /\ link' = [link EXCEPT !.up = FALSE] /\ sessions' = Kill(DOMAIN sessions)
            /\ queue' = [n \in Kinds |-> UpTo(queue[n], sup.gen)]
       ELSE UNCHANGED <<link, sessions, queue>>
    /\ used' = Spend("operations")
    /\ UNCHANGED <<page, shown, captures>>

-----------------------------------------------------------------------------
Init ==
    /\ \E start \in Starts :
           /\ page = start.page
           /\ used = [navigations |-> start.navigations, drops |-> start.drops,
                      faults |-> start.faults, operations |-> start.operations,
                      unreliable |-> start.unreliable,
                      switches |-> 0, released |-> {}]
    /\ shown = [k \in Keys |-> TRUE]
    /\ LET open == {k \in Keys : page[k] = "open"}
           r == Reduce(NewState, [Input("InitialTargets", 0) EXCEPT !.open = open])
       IN  /\ Cardinality(open) <= MaxKnown
           /\ sup = r.s
           /\ run = [pc |-> "applying", fx |-> r.fx, then |-> "initial", key |-> 0,
                     attempts |-> 0, left |-> {}, restored |-> {}, draft |-> NewState,
                     staged |-> <<>>, failed |-> {}, before |-> 0, blamed |-> FALSE,
                     erased |-> FALSE]
    /\ sessions = <<>> /\ captures = {}
    /\ link = [up |-> TRUE, gen |-> 1]
    /\ queue = [n \in Kinds |-> <<>>]

Browser ==
    \/ \E k \in Keys : \/ \E kind \in {"open", "internal"}, auto \in BOOLEAN : PageOpens(k, kind, auto)
                       \/ PageNavigates(k) \/ PageCloses(k) \/ VisibilitySwitches(k)
    \/ \E s \in DOMAIN sessions : SessionDetaches(s)
    \/ \E c \in captures : StartupFails(c)
    \/ ConnectionDrops

Apply ==
    \/ ApplyAttach \/ ApplyDetach \/ ApplyRestoreDomains
    \/ ApplyProbe \/ ApplyCapture \/ ApplyMarker \/ EffectsDone

Attempt ==
    \/ StartAttempt \/ (\E k \in Keys : AttemptAttach(k)) \/ AttemptReduce \/ AttemptDomains
    \/ AttemptStage \/ Staged \/ AttemptProbe \/ Publish \/ Exhausted

Operation ==
    \/ ListPages
    \/ \E k \in Keys : CreatePage(k) \/ ClosePage(k) \/ SelectPage(k) \/ ObservePage(k)
                       \/ SetViewport(k)
    \/ \E cause \in {"StopRequested", "BrowserProcessTerminated"} : EndSession(cause)

Next ==
    \/ Browser \/ Apply \/ Attempt \/ Operation
    \/ \E kind \in Kinds : Receive(kind) \/ Drain(kind)

(* The supervisor task runs: while it has effects to apply, an attempt to   *)
(* make or an input to take it takes a step. These are the weak fairness   *)
(* conditions of Apply, of Attempt and of the receipts, written out over   *)
(* their enabling conditions.                                              *)
Undelivered(q) == FoldFunctionOnSet(LAMBDA events, n : Len(events) + n, 0, q, Kinds)

Fairness ==
    /\ \/ []<>(run.pc # "applying")
       \/ []<><<run.pc = "applying" /\ run' # run>>_supVars
    /\ \/ []<>~(run.pc = "backoff" \/ Attempting)
       \/ []<><<(run.pc = "backoff" \/ Attempting) /\ run' # run>>_supVars
    /\ \/ []<>(run.pc # "idle" \/ Undelivered(queue) = 0)
       \/ []<><<run.pc = "idle" /\ Undelivered(queue') < Undelivered(queue)>>_supVars

Spec == Init /\ [][Next]_supVars

FairSpec == Spec /\ Fairness

-----------------------------------------------------------------------------
(* Properties.                                                             *)

\* The session of a live target is in the map, or the end of that session would never reach
\* the target; and a session of the map leads to the page the browser handed it out for, or
\* its end would fail another page: attach, detach_failed, the loss of a connection and its
\* restoration keep two structures that several inputs edit in step.
SessionMapIsSound ==
    /\ \A k \in Keys : Alive(sup.targets[k]) /\ sup.targets[k].session # 0 =>
                           <<sup.targets[k].session, k>> \in sup.owner
    /\ \A o \in sup.owner : o[1] \in DOMAIN sessions /\ sessions[o[1]].key = o[2]

\* While the session is ready, the selected page is one an operation can use: no failure,
\* closure or reconnect leaves the selection on a dead target.
SelectionIsUsable ==
    sup.phase = "Ready" => sup.selected = 0 \/ Candidate(sup, sup.selected)

Settled == run.pc \in {"idle", "backoff", "ended"}

\* Between two inputs the coordinator runs exactly the captures that the bindings name, but
\* for those whose failed startup is still on its way to the supervisor.
CapturesMatchBindings ==
    LET active == {sup.targets[k].binding.ctx :
                     k \in {j \in Keys : sup.targets[j].binding.kind = "Active"}}
    IN  Settled =>
          /\ captures \subseteq active
          /\ \A c \in active \ captures : \E n \in DOMAIN queue.capture :
                /\ queue.capture[n].type = "CaptureStartFailed"
                /\ queue.capture[n].ctx = c

\* queue_capture_teardown: no capture still runs on a session the supervisor has detached.
NoCaptureOnReleasedSession == \A c \in captures : c.session \notin used.released

\* With nothing undelivered, the supervisor's view is the browser's: a page that is gone is
\* closed or failed, an open one is known, and a live target's session is a live session of
\* the current connection - in whatever order the pumps delivered the events, and although an
\* error of a reduction nested in an application of effects would erase every target.
QuietViewIsCurrent ==
    run.pc = "idle" /\ link.up /\ (\A n \in Kinds : queue[n] = <<>>) =>
        \A k \in Keys :
            /\ page[k] = "gone" => ~Alive(sup.targets[k])
            /\ page[k] = "open" => Known(sup.targets[k])
            /\ Alive(sup.targets[k]) => Live(sup.targets[k].session)

\* docs/ARCHITECTURE.md:266 "a restore failure is target-local": an attempt in which the
\* browser, its pages and the new connection did nothing wrong is not given up.
CleanAttemptsSucceed == ~run.blamed

\* A lost connection is noticed, and the reconnect ends: in a restored session or in its end.
LostConnectionsAreResolved ==
    ~link.up ~> link.up \/ sup.phase = "Ended" \/ run.pc = "ended"

===============================================================================
