-------------------------- MODULE CaptureGeometry --------------------------
(* The viewport that the frames of one capture stream are labelled with:    *)
(* the authority every stream keeps, the reader of geometry events, the     *)
(* refreshes and viewport overrides of the supervisor task, and a frame     *)
(* whose acknowledgement is under way.                                      *)
(*                                                                          *)
(* The page's geometry is the number of changes it has been through, so     *)
(* that the older of two observations is known.                             *)
EXTENDS Integers, Sequences

CONSTANTS
    CommandSlots,      \* capacity left in the supervisor's command channel
    MaxChanges,        \* bound: changes of the page's geometry
    MaxOverrides,      \* bound: viewport overrides asked for
    MaxShown           \* bound: frames received

ASSUME GeometryAssumption ==
    /\ CommandSlots \in Nat \ {0}
    /\ MaxChanges \in Nat /\ MaxOverrides \in Nat /\ MaxShown \in Nat

VARIABLES
    page,        \* the page's geometry, and how many of its changes the event reader was told
    authority,   \* GeometryAuthority; since (ghost) is the change its last transition began with
    teller,      \* the geometry reader: what it does, the token in hand, whether the stream accepts
    requests,    \* RefreshCaptureGeometry commands in the supervisor's channel
    sup,         \* the supervisor: the refresh or override it is in, and what it has observed
    frame        \* the frame reader: its fence, and the label of the last frame (frames counts)

geometryVars == <<page, authority, teller, requests, sup, frame>>

NoToken == 0

NoFence == [geometry |-> 0, revision |-> 0, uncertain |-> TRUE, told |-> 0]
NoLabel == [geometry |-> 0, uncertain |-> TRUE, before |-> 0, after |-> 0, since |-> 0]

GeometryInit ==
    /\ page = [now |-> 0, told |-> 0]
    /\ authority = [established |-> 0, revision |-> 1, token |-> NoToken, since |-> 0]
    /\ teller = [pc |-> "waiting", token |-> NoToken, accepting |-> TRUE]
    /\ requests = <<>>
    /\ sup = [pc |-> "idle", token |-> NoToken, observed |-> 0, overrides |-> 0]
    /\ frame = [pc |-> "waiting", fence |-> NoFence, label |-> NoLabel, frames |-> 0]
------------------------------------------------------------------------------
(* The authority, behind its mutex.                                         *)

\* begin_geometry_transition: a transition under way is joined, not begun again.
Begin(a, change) ==
    IF a.token # NoToken THEN a
    ELSE [established |-> a.established, revision |-> a.revision + 1, token |-> a.revision + 1,
          since |-> change]

\* Fault: a refresh ends whichever transition is under way.
FinishAny(a, token, observed) ==
    IF a.token = NoToken THEN a ELSE [a EXCEPT !.established = observed, !.token = NoToken]

\* finish_geometry_transition with a geometry.
Finish(a, token, observed) ==
    IF a.token = NoToken \/ a.token # token THEN a
    ELSE [a EXCEPT !.established = observed, !.token = NoToken]

\* geometry_after_ack.
Uncertain(fence, a) ==
    fence.uncertain \/ a.token # NoToken \/ a.revision # fence.revision
------------------------------------------------------------------------------
(* The page and its events. The protocol delivers them in order.            *)

PageChanges ==
    /\ page.now < MaxChanges
    /\ page' = [page EXCEPT !.now = @ + 1]
    /\ UNCHANGED <<authority, teller, requests, sup, frame>>

ReceiveGeometryEvent ==
    /\ teller.pc = "waiting" /\ page.told < page.now
    /\ page' = [page EXCEPT !.told = @ + 1]
    /\ authority' = Begin(authority, page.told + 1)
    /\ teller' = [teller EXCEPT !.pc = "requesting", !.token = authority'.token]
    /\ UNCHANGED <<requests, sup, frame>>

\* The loop condition is read again; a command that finds the channel full is not sent.
RequestRefresh ==
    /\ teller.pc = "requesting"
    /\ requests' = IF Len(requests) < CommandSlots THEN Append(requests, teller.token)
                                                   ELSE requests
    /\ teller' = [teller EXCEPT !.pc = IF teller.accepting THEN "waiting" ELSE "ended",
                                !.token = NoToken]
    /\ UNCHANGED <<page, authority, sup, frame>>

\* The event stream closes: a transition is begun, or joined, and ended without a geometry.
\* fail_at ends acceptance only afterwards.
GeometryEventsClose ==
    /\ teller.pc = "waiting"
    /\ authority' = [Begin(authority, page.told) EXCEPT !.token = NoToken]
    /\ teller' = [teller EXCEPT !.pc = "failing"]
    /\ UNCHANGED <<page, requests, sup, frame>>

GeometryReaderFails ==
    /\ teller.pc = "failing"
    /\ teller' = [teller EXCEPT !.pc = "ended", !.accepting = FALSE]
    /\ UNCHANGED <<page, authority, requests, sup, frame>>
------------------------------------------------------------------------------
(* The supervisor task, which does one thing at a time.                     *)

\* refresh_capture_geometry for the transition that was asked for.
TakeRefresh ==
    /\ sup.pc = "idle" /\ requests # <<>>
    /\ requests' = Tail(requests)
    /\ sup' = [sup EXCEPT !.pc = "observing", !.token = Head(requests)]
    /\ UNCHANGED <<page, authority, teller, frame>>

\* SetViewport begins a transition of its own, or joins one, before it changes the page.
BeginOverride ==
    /\ sup.pc = "idle" /\ teller.accepting /\ sup.overrides < MaxOverrides
    /\ authority' = Begin(authority, page.told)
    /\ sup' = [sup EXCEPT !.pc = "applying", !.token = authority'.token, !.overrides = @ + 1]
    /\ UNCHANGED <<page, teller, requests, frame>>

ApplyOverride ==
    /\ sup.pc = "applying" /\ page.now < MaxChanges
    /\ page' = [page EXCEPT !.now = @ + 1]
    /\ sup' = [sup EXCEPT !.pc = "observingOverride"]
    /\ UNCHANGED <<authority, teller, requests, frame>>

\* The override, its observation or its commit fails: the previous one is applied and observed.
RollBack ==
    /\ sup.pc \in {"applying", "observingOverride", "committingOverride"}
    /\ sup' = [sup EXCEPT !.pc = "restoring"]
    /\ UNCHANGED <<page, authority, teller, requests, frame>>

RestoreViewport ==
    /\ sup.pc = "restoring" /\ page.now < MaxChanges
    /\ page' = [page EXCEPT !.now = @ + 1]
    /\ sup' = [sup EXCEPT !.pc = "observingRestored"]
    /\ UNCHANGED <<authority, teller, requests, frame>>

\* Neither: the target fails, and its stream with it.
TargetFails ==
    /\ sup.pc \in {"restoring", "observingRestored"}
    /\ sup' = [sup EXCEPT !.pc = "idle", !.token = NoToken]
    /\ teller' = [teller EXCEPT !.accepting = FALSE]
    /\ UNCHANGED <<page, authority, requests, frame>>

\* A refresh that meets another viewport than the declared one applies that once, and retries.
ReplayOverride ==
    /\ sup.pc = "observing" /\ page.now < MaxChanges
    /\ page' = [page EXCEPT !.now = @ + 1]
    /\ sup' = [sup EXCEPT !.pc = "observingReplayed"]
    /\ UNCHANGED <<authority, teller, requests, frame>>

ObserveViewport ==
    /\ sup.pc \in {"observing", "observingReplayed", "observingRestored", "observingOverride"}
    /\ sup' = [sup EXCEPT !.observed = page.now,
                          !.pc = IF @ = "observingOverride" THEN "committingOverride"
                                                            ELSE "committing"]
    /\ UNCHANGED <<page, authority, teller, requests, frame>>

\* Every attempt of a refresh failed: the transition stays as it is.
GiveUpRefresh ==
    /\ sup.pc \in {"observing", "observingReplayed"}
    /\ sup' = [sup EXCEPT !.pc = "idle", !.token = NoToken]
    /\ UNCHANGED <<page, authority, teller, requests, frame>>

CommitGeometry ==
    /\ sup.pc \in {"committing", "committingOverride"}
    /\ authority' = Finish(authority, sup.token, sup.observed)
    /\ sup' = [sup EXCEPT !.pc = "idle", !.token = NoToken]
    /\ UNCHANGED <<page, teller, requests, frame>>
------------------------------------------------------------------------------
(* A frame: the fence is read before the acknowledgement, the authority     *)
(* again after it.                                                          *)

ReceiveLabelled ==
    /\ frame.pc = "waiting" /\ teller.accepting /\ frame.frames < MaxShown
    /\ frame' = [frame EXCEPT !.pc = "acking", !.frames = @ + 1,
                   !.fence = [geometry |-> authority.established,
                              revision |-> authority.revision,
                              uncertain |-> authority.token # NoToken,
                              told |-> page.told]]
    /\ UNCHANGED <<page, authority, teller, requests, sup>>

LabelFrame ==
    /\ frame.pc = "acking"
    /\ frame' = [frame EXCEPT !.pc = "waiting", !.fence = NoFence,
                   !.label = [geometry |-> frame.fence.geometry,
                              uncertain |-> Uncertain(frame.fence, authority),
                              before |-> frame.fence.told, after |-> page.told,
                              since |-> authority.since]]
    /\ UNCHANGED <<page, authority, teller, requests, sup>>
------------------------------------------------------------------------------
GeometryNext ==
    \/ PageChanges \/ ReceiveGeometryEvent \/ RequestRefresh
    \/ GeometryEventsClose \/ GeometryReaderFails
    \/ TakeRefresh \/ BeginOverride \/ ApplyOverride \/ RollBack \/ RestoreViewport
    \/ TargetFails \/ ReplayOverride \/ ObserveViewport \/ GiveUpRefresh \/ CommitGeometry
    \/ ReceiveLabelled \/ LabelFrame

GeometrySpec == GeometryInit /\ [][GeometryNext]_geometryVars
------------------------------------------------------------------------------
(* Properties.                                                              *)

\* A frame whose label is called certain was received and acknowledged without the stream being
\* told of a change in between - also of one whose transition was over by then.
CertainFramesSpanNoChange == ~frame.label.uncertain => frame.label.before = frame.label.after

\* A closed event stream ends a transition without a geometry, and then the stream: nothing is
\* said of what is labelled in between.
EventsOpen == teller.pc \notin {"failing", "ended"}

\* The geometry of such a frame was observed after the change that began the last transition: a
\* refresh that was asked for earlier, and answers in a later transition, does not end that one.
CertainFramesAreFresh ==
    EventsOpen => (~frame.label.uncertain => frame.label.geometry >= frame.label.since)

\* Whatever transitions were begun, joined and ended around a frame by its events, refreshes,
\* overrides and roll-backs, a label called certain is one to rely on.
CertainFramesAreCurrent == CertainFramesSpanNoChange /\ CertainFramesAreFresh
=============================================================================
