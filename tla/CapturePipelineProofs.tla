------------------------ MODULE CapturePipelineProofs ------------------------
(* Two parts of the capture pipeline that share no state: which geometry a  *)
(* frame is labelled with (CaptureGeometry), for any number of changes,     *)
(* overrides, frames and command slots; and which streams are admitted      *)
(* (CaptureAdmission), for any number of targets, attachment generations,   *)
(* startups and frames, and any cap.                                        *)
EXTENDS CaptureGeometry, CaptureAdmission, FiniteSetTheorems, TLAPS

------------------------------------------------------------------------------
(* CaptureGeometry: the label of a frame.                                   *)

Committing == sup.pc \in {"committing", "committingOverride"}

Authorities == [established : Nat, revision : Nat, token : Nat, since : Nat]

GeometryTypeOK ==
    /\ page \in [now : Nat, told : Nat]
    /\ authority \in Authorities
    /\ teller \in [pc : {"waiting", "requesting", "failing", "ended"}, token : Nat,
                   accepting : BOOLEAN]
    /\ requests \in Seq(Nat)
    /\ sup \in [pc : {"idle", "observing", "observingReplayed", "observingRestored",
                      "observingOverride", "applying", "restoring", "committing",
                      "committingOverride"},
                token : Nat, observed : Nat, overrides : Nat]
    /\ frame \in [pc : {"waiting", "acking"},
                  fence : [geometry : Nat, revision : Nat, uncertain : BOOLEAN, told : Nat],
                  label : [geometry : Nat, uncertain : BOOLEAN, before : Nat, after : Nat,
                           since : Nat],
                  frames : Nat]

\* A change is told after it has happened, and no transition began with one that is to come.
ChangesInOrder == authority.since <= page.told /\ page.told <= page.now

\* Whoever holds a token has that of a transition that has begun: a new one is nobody's yet.
TokensAreOld ==
    /\ authority.token <= authority.revision
    /\ teller.token <= authority.revision
    /\ sup.token <= authority.revision

RequestsAreOld == \A i \in 1 .. Len(requests) : requests[i] <= authority.revision

\* What the supervisor is about to commit to the transition under way was observed after that
\* transition had begun.
ObservedInTime ==
    (Committing /\ authority.token # NoToken /\ sup.token = authority.token)
      => authority.since <= sup.observed

\* Between transitions the established geometry is newer than the change that began the last.
EstablishedInTime ==
    (EventsOpen /\ authority.token = NoToken) => authority.since <= authority.established

\* A fence without doubt, as long as no transition has begun since it was read, is still what
\* the authority and the event reader would say.
FenceHolds ==
    (frame.pc = "acking" /\ ~frame.fence.uncertain)
      => /\ frame.fence.revision <= authority.revision
         /\ frame.fence.revision = authority.revision
              => /\ authority.token = NoToken
                 /\ frame.fence.told = page.told
                 /\ EventsOpen => authority.since <= frame.fence.geometry

GeometryInv ==
    /\ GeometryTypeOK /\ ChangesInOrder /\ TokensAreOld /\ RequestsAreOld
    /\ ObservedInTime /\ EstablishedInTime /\ FenceHolds
    /\ CertainFramesSpanNoChange /\ CertainFramesAreFresh
------------------------------------------------------------------------------
\* A transition under way is joined; otherwise one begins, with a later revision.
LEMMA BeginFacts ==
  ASSUME NEW a \in Authorities, NEW change \in Nat
  PROVE  Begin(a, change) \in Authorities /\ a.revision <= Begin(a, change).revision
<1>1. CASE a.token # NoToken
  BY <1>1 DEF Begin, Authorities
<1>2. CASE a.token = NoToken
  <2>1. a.revision + 1 \in Nat
    BY DEF Authorities
  <2>. QED BY <1>2, <2>1 DEF Begin, Authorities
<1>. QED BY <1>1, <1>2

\* A fence read before a transition that is joined or begins is not that of its revision.
LEMMA NoFenceIsOfBegun ==
  ASSUME GeometryInv, NEW change \in Nat, frame.pc = "acking", ~frame.fence.uncertain
  PROVE  /\ frame.fence.revision <= Begin(authority, change).revision
         /\ frame.fence.revision # Begin(authority, change).revision
<1>1. /\ frame.fence.revision \in Nat /\ frame.fence.revision <= authority.revision
      /\ authority.revision \in Nat
      /\ authority.token # NoToken => frame.fence.revision # authority.revision
  BY DEF GeometryInv, FenceHolds, GeometryTypeOK, Authorities
<1>2. CASE authority.token # NoToken BY <1>1, <1>2 DEF Begin
<1>3. CASE authority.token = NoToken
  <2>1. Begin(authority, change).revision = authority.revision + 1 BY <1>3 DEF Begin
  <2> QED BY <1>1, <2>1
<1> QED BY <1>2, <1>3

\* Whoever held a token still holds one that is no newer than the authority's revision.
LEMMA TokensStayOld ==
  ASSUME GeometryInv, NEW change \in Nat
  PROVE  LET begun == Begin(authority, change)
         IN  /\ begun.token <= begun.revision
             /\ teller.token <= begun.revision /\ sup.token <= begun.revision
             /\ begun.token \in Nat /\ begun.revision \in Nat
<1>1. /\ authority.token \in Nat /\ authority.revision \in Nat /\ authority \in Authorities
      /\ teller.token \in Nat /\ sup.token \in Nat
      /\ authority.token <= authority.revision
      /\ teller.token <= authority.revision /\ sup.token <= authority.revision
  BY DEF GeometryInv, TokensAreOld, GeometryTypeOK, Authorities
<1>2. CASE authority.token # NoToken BY <1>1, <1>2 DEF Begin
<1>3. CASE authority.token = NoToken
  <2>1. /\ Begin(authority, change).revision = authority.revision + 1
        /\ Begin(authority, change).token = authority.revision + 1
    BY <1>3 DEF Begin
  <2> QED BY <1>1, <2>1
<1> QED BY <1>2, <1>3

\* Tokens that are not newer than a revision are not newer than a later one.
LEMMA OldTokensStayOld ==
  ASSUME NEW s \in Seq(Nat), NEW a \in Nat, NEW b \in Nat, a <= b,
         \A i \in 1 .. Len(s) : s[i] <= a
  PROVE  \A i \in 1 .. Len(s) : s[i] <= b
<1> SUFFICES ASSUME NEW i \in 1 .. Len(s) PROVE s[i] <= b
  OBVIOUS
<1>1. s[i] \in Nat /\ s[i] <= a
  OBVIOUS
<1>. QED BY <1>1

\* Taking the first element off a sequence.
LEMMA TakeFirst ==
  ASSUME NEW s \in Seq(Nat), s # <<>>
  PROVE  /\ Tail(s) \in Seq(Nat) /\ Head(s) \in Nat
         /\ 1 \in 1 .. Len(s) /\ Head(s) = s[1]
         /\ \A i \in 1 .. Len(Tail(s)) : i + 1 \in 1 .. Len(s) /\ Tail(s)[i] = s[i + 1]
<1>1. Tail(s) \in Seq(Nat) /\ Len(s) \in Nat /\ Len(s) # 0 /\ Len(Tail(s)) = Len(s) - 1
  OBVIOUS
<1>2. ASSUME NEW i \in 1 .. Len(Tail(s))
      PROVE  i + 1 \in 1 .. Len(s) /\ Tail(s)[i] = s[i + 1]
  <2>1. i \in Nat /\ i >= 1 /\ i <= Len(s) - 1
    BY <1>1
  <2>. QED BY <1>1, <2>1
<1>3. 1 \in 1 .. Len(s) /\ Head(s) = s[1] /\ Head(s) \in Nat
  BY <1>1
<1>. QED BY <1>1, <1>2, <1>3

\* The invariant is inductive: a transition keeps its token to itself, so that what is committed
\* to it was observed after it had begun.
LEMMA GeometryStep == GeometryInv /\ [GeometryNext]_geometryVars => GeometryInv'
<1> SUFFICES ASSUME GeometryInv, [GeometryNext]_geometryVars
             PROVE  GeometryInv'
  OBVIOUS
<1>0. /\ GeometryTypeOK /\ ChangesInOrder /\ TokensAreOld /\ RequestsAreOld
      /\ ObservedInTime /\ EstablishedInTime /\ FenceHolds
      /\ CertainFramesSpanNoChange /\ CertainFramesAreFresh
  BY DEF GeometryInv
<1>1. CASE PageChanges
  <2>1. page.now + 1 \in Nat
    BY <1>0 DEF GeometryTypeOK
  <2>2. GeometryTypeOK'
    BY <1>0, <1>1, <2>1 DEF PageChanges, GeometryTypeOK, Authorities
  <2>3. ChangesInOrder'
    BY <1>0, <1>1 DEF PageChanges, GeometryTypeOK, Authorities, ChangesInOrder
  <2>4. FenceHolds'
    BY <1>0, <1>1 DEF PageChanges, GeometryTypeOK, Authorities, FenceHolds, EventsOpen
  <2>5. (TokensAreOld /\ RequestsAreOld /\ ObservedInTime /\ EstablishedInTime
       /\ CertainFramesSpanNoChange /\ CertainFramesAreFresh)'
    BY <1>0, <1>1 DEF PageChanges, TokensAreOld, RequestsAreOld, ObservedInTime,
       EstablishedInTime, CertainFramesSpanNoChange, CertainFramesAreFresh, Committing,
       EventsOpen
  <2>. QED BY <2>1, <2>2, <2>3, <2>4, <2>5 DEF GeometryInv
<1>2. CASE ReceiveGeometryEvent
  <2>1. authority \in Authorities /\ page.told + 1 \in Nat
    BY <1>0 DEF GeometryTypeOK
  <2>2. /\ Begin(authority, page.told + 1) \in Authorities
        /\ authority.revision <= Begin(authority, page.told + 1).revision
    BY <2>1, BeginFacts
  <2>3. /\ authority.revision \in Nat
        /\ authority'.revision \in Nat
        /\ authority.revision <= authority'.revision
    BY <1>0, <1>2, <2>1, <2>2 DEF ReceiveGeometryEvent, Authorities
  <2>4. requests' = requests /\ requests \in Seq(Nat)
    BY <1>0, <1>2 DEF ReceiveGeometryEvent, GeometryTypeOK
  <2>5. GeometryTypeOK'
    BY <1>0, <1>2, <2>1, <2>2 DEF ReceiveGeometryEvent, GeometryTypeOK, Authorities, NoToken
  <2>14. /\ authority.token # NoToken => authority' = authority
         /\ authority.token = NoToken => /\ authority'.established = authority.established
                                         /\ authority'.revision = authority.revision + 1
                                         /\ authority'.token = authority.revision + 1
                                         /\ authority'.since = page.told + 1
         /\ page'.now = page.now /\ page'.told = page.told + 1 /\ page.told < page.now
         /\ page.told \in Nat /\ page.now \in Nat /\ authority.token \in Nat
         /\ authority.since \in Nat
         /\ UNCHANGED <<sup, frame>>
    BY <1>0, <1>2 DEF ReceiveGeometryEvent, Begin, GeometryTypeOK, Authorities
  <2>6. ChangesInOrder' BY <1>0, <2>3, <2>14 DEF GeometryInv, ChangesInOrder
  <2>7. TokensAreOld'
    BY <1>0, <1>2, <2>1, TokensStayOld
       DEF ReceiveGeometryEvent, TokensAreOld, GeometryTypeOK
  <2>8. RequestsAreOld'
    BY <1>0, <2>3, <2>4, OldTokensStayOld DEF RequestsAreOld
  <2>9. ObservedInTime'
    <3>1. sup.token <= authority.revision /\ sup.token \in Nat
      BY <1>0 DEF TokensAreOld, GeometryTypeOK
    <3>2. authority.token = NoToken => authority'.token # sup.token BY <2>3, <2>14, <3>1
    <3> QED BY <1>0, <2>14, <3>2 DEF ObservedInTime, Committing
  <2>10. EstablishedInTime'
    BY <1>0, <1>2 DEF ReceiveGeometryEvent, GeometryTypeOK, Authorities, EstablishedInTime,
       EventsOpen, Begin, NoToken
  <2>11. FenceHolds'
    BY <1>2, <2>1, NoFenceIsOfBegun DEF ReceiveGeometryEvent, FenceHolds
  <2>12. CertainFramesAreFresh'
    BY <1>0, <1>2 DEF ReceiveGeometryEvent, GeometryTypeOK, Authorities, CertainFramesAreFresh,
       EventsOpen, Begin, NoToken
  <2>13. CertainFramesSpanNoChange'
    BY <1>0, <1>2 DEF ReceiveGeometryEvent, CertainFramesSpanNoChange
  <2>. QED BY <2>5, <2>6, <2>7, <2>8, <2>9, <2>10, <2>11, <2>12, <2>13 DEF GeometryInv
<1>3. CASE RequestRefresh
  <2>1. requests' \in Seq(Nat)
    BY <1>0, <1>3 DEF RequestRefresh, GeometryTypeOK
  <2>2. \A i \in 1 .. Len(requests') :
          \/ i \in 1 .. Len(requests) /\ requests'[i] = requests[i]
          \/ requests'[i] = teller.token
    BY <1>0, <1>3 DEF RequestRefresh, GeometryTypeOK
  <2>3. GeometryTypeOK'
    BY <1>0, <1>3, <2>1 DEF RequestRefresh, GeometryTypeOK, Authorities, NoToken
  <2>4. TokensAreOld'
    BY <1>0, <1>3 DEF RequestRefresh, GeometryTypeOK, Authorities, TokensAreOld, NoToken
  <2>5. RequestsAreOld'
    BY <1>0, <1>3, <2>2 DEF RequestRefresh, RequestsAreOld, TokensAreOld
  <2>6. EstablishedInTime'
    BY <1>0, <1>3 DEF RequestRefresh, GeometryTypeOK, Authorities, EstablishedInTime,
       EventsOpen, NoToken
  <2>7. FenceHolds'
    BY <1>0, <1>3 DEF RequestRefresh, GeometryTypeOK, Authorities, FenceHolds, EventsOpen,
       NoToken
  <2>8. CertainFramesAreFresh'
    BY <1>0, <1>3 DEF RequestRefresh, GeometryTypeOK, Authorities, CertainFramesAreFresh,
       EventsOpen, NoToken
  <2>9. (ChangesInOrder /\ ObservedInTime /\ CertainFramesSpanNoChange)'
    BY <1>0, <1>3 DEF RequestRefresh, ChangesInOrder, ObservedInTime, CertainFramesSpanNoChange,
       Committing
  <2>. QED BY <2>1, <2>2, <2>3, <2>4, <2>5, <2>6, <2>7, <2>8, <2>9 DEF GeometryInv
<1>4. CASE GeometryEventsClose
  <2>1. authority \in Authorities /\ page.told \in Nat
    BY <1>0 DEF GeometryTypeOK
  <2>2. /\ Begin(authority, page.told) \in Authorities
        /\ authority.revision <= Begin(authority, page.told).revision
    BY <2>1, BeginFacts
  <2>3. /\ authority.revision \in Nat
        /\ authority'.revision \in Nat
        /\ authority.revision <= authority'.revision
    BY <1>0, <1>4, <2>1, <2>2 DEF GeometryEventsClose, Authorities
  <2>4. requests' = requests /\ requests \in Seq(Nat)
    BY <1>0, <1>4 DEF GeometryEventsClose, GeometryTypeOK
  <2>5. GeometryTypeOK'
    BY <1>0, <1>4, <2>1, <2>2 DEF GeometryEventsClose, GeometryTypeOK, Authorities, NoToken
  <2>6. ChangesInOrder'
    BY <1>0, <1>4 DEF GeometryEventsClose, GeometryTypeOK, Authorities, ChangesInOrder, Begin,
       NoToken
  <2>7. TokensAreOld'
    <3>1. /\ authority'.revision = Begin(authority, page.told).revision
          /\ authority'.token = NoToken /\ teller'.token = teller.token /\ sup' = sup
      BY <1>0, <1>4, <2>2 DEF GeometryEventsClose, Authorities, GeometryTypeOK
    <3> QED BY <2>1, <2>3, <3>1, TokensStayOld DEF TokensAreOld, NoToken
  <2>8. RequestsAreOld'
    BY <1>0, <2>3, <2>4, OldTokensStayOld DEF RequestsAreOld
  <2>9. ObservedInTime'
    BY <1>0, <1>4 DEF GeometryEventsClose, GeometryTypeOK, Authorities, ObservedInTime,
       Committing, Begin, NoToken
  <2>10. EstablishedInTime'
    BY <1>0, <1>4 DEF GeometryEventsClose, GeometryTypeOK, Authorities, EstablishedInTime,
       EventsOpen, Begin, NoToken
  <2>11. FenceHolds'
    <3> SUFFICES ASSUME frame.pc = "acking", ~frame.fence.uncertain
                 PROVE  /\ frame.fence.revision <= authority'.revision
                        /\ frame.fence.revision # authority'.revision
      BY <1>4 DEF GeometryEventsClose, FenceHolds
    <3>1. authority'.revision = Begin(authority, page.told).revision
      BY <1>4, <2>2 DEF GeometryEventsClose, Authorities
    <3> QED BY <2>1, <3>1, NoFenceIsOfBegun
  <2>12. CertainFramesAreFresh'
    BY <1>0, <1>4 DEF GeometryEventsClose, GeometryTypeOK, Authorities, CertainFramesAreFresh,
       EventsOpen, Begin, NoToken
  <2>13. CertainFramesSpanNoChange'
    BY <1>0, <1>4 DEF GeometryEventsClose, CertainFramesSpanNoChange
  <2>. QED BY <2>5, <2>6, <2>7, <2>8, <2>9, <2>10, <2>11, <2>12, <2>13 DEF GeometryInv
<1>5. CASE GeometryReaderFails
  <2>1. GeometryTypeOK'
    BY <1>0, <1>5 DEF GeometryReaderFails, GeometryTypeOK, Authorities
  <2>2. TokensAreOld'
    BY <1>0, <1>5 DEF GeometryReaderFails, GeometryTypeOK, Authorities, TokensAreOld
  <2>3. EstablishedInTime'
    BY <1>0, <1>5 DEF GeometryReaderFails, GeometryTypeOK, Authorities, EstablishedInTime,
       EventsOpen
  <2>4. FenceHolds'
    BY <1>0, <1>5 DEF GeometryReaderFails, GeometryTypeOK, Authorities, FenceHolds, EventsOpen
  <2>5. CertainFramesAreFresh'
    BY <1>0, <1>5 DEF GeometryReaderFails, GeometryTypeOK, Authorities, CertainFramesAreFresh,
       EventsOpen
  <2>6. (ChangesInOrder /\ RequestsAreOld /\ ObservedInTime /\ CertainFramesSpanNoChange)'
    BY <1>0, <1>5 DEF GeometryReaderFails, ChangesInOrder, RequestsAreOld, ObservedInTime,
       CertainFramesSpanNoChange, Committing
  <2>. QED BY <2>1, <2>2, <2>3, <2>4, <2>5, <2>6 DEF GeometryInv
<1>6. CASE TakeRefresh
  <2>1. requests \in Seq(Nat) /\ requests # <<>>
    BY <1>0, <1>6 DEF TakeRefresh, GeometryTypeOK
  <2>2. /\ requests' \in Seq(Nat) /\ Head(requests) \in Nat
        /\ 1 \in 1 .. Len(requests) /\ Head(requests) = requests[1]
        /\ \A i \in 1 .. Len(requests') :
             i + 1 \in 1 .. Len(requests) /\ requests'[i] = requests[i + 1]
    BY <1>6, <2>1, TakeFirst DEF TakeRefresh
  <2>3. GeometryTypeOK'
    BY <1>0, <1>6, <2>2 DEF TakeRefresh, GeometryTypeOK, Authorities
  <2>4. TokensAreOld'
    BY <1>0, <1>6, <2>2 DEF TakeRefresh, TokensAreOld, RequestsAreOld, GeometryTypeOK
  <2>5. RequestsAreOld'
    BY <1>0, <1>6, <2>2 DEF TakeRefresh, RequestsAreOld
  <2>6. ObservedInTime'
    BY <1>0, <1>6 DEF TakeRefresh, GeometryTypeOK, Authorities, ObservedInTime, Committing
  <2>7. (ChangesInOrder /\ EstablishedInTime /\ FenceHolds /\ CertainFramesSpanNoChange
       /\ CertainFramesAreFresh)'
    BY <1>0, <1>6 DEF TakeRefresh, ChangesInOrder, EstablishedInTime, FenceHolds,
       CertainFramesSpanNoChange, CertainFramesAreFresh, EventsOpen
  <2>. QED BY <2>1, <2>2, <2>3, <2>4, <2>5, <2>6, <2>7 DEF GeometryInv
<1>7. CASE BeginOverride
  <2>1. authority \in Authorities /\ page.told \in Nat /\ sup.overrides + 1 \in Nat
    BY <1>0 DEF GeometryTypeOK
  <2>2. /\ Begin(authority, page.told) \in Authorities
        /\ authority.revision <= Begin(authority, page.told).revision
    BY <2>1, BeginFacts
  <2>3. /\ authority.revision \in Nat
        /\ authority'.revision \in Nat
        /\ authority.revision <= authority'.revision
    BY <1>0, <1>7, <2>1, <2>2 DEF BeginOverride, Authorities
  <2>4. requests' = requests /\ requests \in Seq(Nat)
    BY <1>0, <1>7 DEF BeginOverride, GeometryTypeOK
  <2>5. GeometryTypeOK'
    BY <1>0, <1>7, <2>1, <2>2 DEF BeginOverride, GeometryTypeOK, Authorities, NoToken
  <2>6. ChangesInOrder'
    BY <1>0, <1>7 DEF BeginOverride, GeometryTypeOK, Authorities, ChangesInOrder, Begin, NoToken
  <2>7. TokensAreOld'
    <3>1. /\ authority' = Begin(authority, page.told) /\ teller' = teller
          /\ sup'.token = authority'.token
      BY <1>0, <1>7 DEF BeginOverride, GeometryTypeOK
    <3> QED BY <2>1, <3>1, TokensStayOld DEF TokensAreOld
  <2>8. RequestsAreOld'
    BY <1>0, <2>3, <2>4, OldTokensStayOld DEF RequestsAreOld
  <2>9. ObservedInTime'
    BY <1>0, <1>7 DEF BeginOverride, ObservedInTime, Committing
  <2>10. EstablishedInTime'
    BY <1>0, <1>7 DEF BeginOverride, GeometryTypeOK, Authorities, EstablishedInTime, EventsOpen,
       Begin, NoToken
  <2>11. FenceHolds'
    <3> SUFFICES ASSUME frame.pc = "acking", ~frame.fence.uncertain
                 PROVE  /\ frame.fence.revision <= authority'.revision
                        /\ frame.fence.revision # authority'.revision
      BY <1>7 DEF BeginOverride, FenceHolds
    <3>1. authority'.revision = Begin(authority, page.told).revision
      BY <1>7, <2>2 DEF BeginOverride, Authorities
    <3> QED BY <2>1, <3>1, NoFenceIsOfBegun
  <2>12. (CertainFramesSpanNoChange /\ CertainFramesAreFresh)'
    BY <1>0, <1>7 DEF BeginOverride, CertainFramesSpanNoChange, CertainFramesAreFresh,
       EventsOpen
  <2>. QED BY <2>1, <2>2, <2>3, <2>4, <2>5, <2>6, <2>7, <2>8, <2>9, <2>10, <2>11,
              <2>12 DEF GeometryInv
<1>8. CASE ApplyOverride
  <2>1. page.now + 1 \in Nat
    BY <1>0 DEF GeometryTypeOK
  <2>2. GeometryTypeOK'
    BY <1>0, <1>8, <2>1 DEF ApplyOverride, GeometryTypeOK, Authorities
  <2>3. ChangesInOrder'
    BY <1>0, <1>8 DEF ApplyOverride, GeometryTypeOK, Authorities, ChangesInOrder
  <2>4. TokensAreOld'
    BY <1>0, <1>8 DEF ApplyOverride, GeometryTypeOK, Authorities, TokensAreOld
  <2>5. ObservedInTime'
    BY <1>0, <1>8 DEF ApplyOverride, GeometryTypeOK, Authorities, ObservedInTime, Committing
  <2>6. FenceHolds'
    BY <1>0, <1>8 DEF ApplyOverride, GeometryTypeOK, Authorities, FenceHolds, EventsOpen
  <2>7. (RequestsAreOld /\ EstablishedInTime /\ CertainFramesSpanNoChange
       /\ CertainFramesAreFresh)'
    BY <1>0, <1>8 DEF ApplyOverride, RequestsAreOld, EstablishedInTime,
       CertainFramesSpanNoChange, CertainFramesAreFresh, EventsOpen
  <2>. QED BY <2>1, <2>2, <2>3, <2>4, <2>5, <2>6, <2>7 DEF GeometryInv
<1>9. CASE RollBack
  <2>1. GeometryTypeOK'
    BY <1>0, <1>9 DEF RollBack, GeometryTypeOK, Authorities
  <2>2. TokensAreOld'
    BY <1>0, <1>9 DEF RollBack, GeometryTypeOK, Authorities, TokensAreOld
  <2>3. ObservedInTime'
    BY <1>0, <1>9 DEF RollBack, GeometryTypeOK, Authorities, ObservedInTime, Committing
  <2>4. (ChangesInOrder /\ RequestsAreOld /\ EstablishedInTime /\ FenceHolds
       /\ CertainFramesSpanNoChange /\ CertainFramesAreFresh)'
    BY <1>0, <1>9 DEF RollBack, ChangesInOrder, RequestsAreOld, EstablishedInTime, FenceHolds,
       CertainFramesSpanNoChange, CertainFramesAreFresh, EventsOpen
  <2>. QED BY <2>1, <2>2, <2>3, <2>4 DEF GeometryInv
<1>10. CASE RestoreViewport
  <2>1. page.now + 1 \in Nat
    BY <1>0 DEF GeometryTypeOK
  <2>2. GeometryTypeOK'
    BY <1>0, <1>10, <2>1 DEF RestoreViewport, GeometryTypeOK, Authorities
  <2>3. ChangesInOrder'
    BY <1>0, <1>10 DEF RestoreViewport, GeometryTypeOK, Authorities, ChangesInOrder
  <2>4. TokensAreOld'
    BY <1>0, <1>10 DEF RestoreViewport, GeometryTypeOK, Authorities, TokensAreOld
  <2>5. ObservedInTime'
    BY <1>0, <1>10 DEF RestoreViewport, GeometryTypeOK, Authorities, ObservedInTime, Committing
  <2>6. FenceHolds'
    BY <1>0, <1>10 DEF RestoreViewport, GeometryTypeOK, Authorities, FenceHolds, EventsOpen
  <2>7. (RequestsAreOld /\ EstablishedInTime /\ CertainFramesSpanNoChange
       /\ CertainFramesAreFresh)'
    BY <1>0, <1>10 DEF RestoreViewport, RequestsAreOld, EstablishedInTime,
       CertainFramesSpanNoChange, CertainFramesAreFresh, EventsOpen
  <2>. QED BY <2>1, <2>2, <2>3, <2>4, <2>5, <2>6, <2>7 DEF GeometryInv
<1>11. CASE TargetFails
  <2>1. GeometryTypeOK'
    BY <1>0, <1>11 DEF TargetFails, GeometryTypeOK, Authorities, NoToken
  <2>2. TokensAreOld'
    BY <1>0, <1>11 DEF TargetFails, GeometryTypeOK, Authorities, TokensAreOld, NoToken
  <2>3. ObservedInTime'
    BY <1>0, <1>11 DEF TargetFails, GeometryTypeOK, Authorities, ObservedInTime, Committing,
       NoToken
  <2>4. EstablishedInTime'
    BY <1>0, <1>11 DEF TargetFails, GeometryTypeOK, Authorities, EstablishedInTime, EventsOpen,
       NoToken
  <2>5. FenceHolds'
    BY <1>0, <1>11 DEF TargetFails, GeometryTypeOK, Authorities, FenceHolds, EventsOpen, NoToken
  <2>6. CertainFramesAreFresh'
    BY <1>0, <1>11 DEF TargetFails, GeometryTypeOK, Authorities, CertainFramesAreFresh,
       EventsOpen, NoToken
  <2>7. (ChangesInOrder /\ RequestsAreOld /\ CertainFramesSpanNoChange)'
    BY <1>0, <1>11 DEF TargetFails, ChangesInOrder, RequestsAreOld, CertainFramesSpanNoChange
  <2>. QED BY <2>1, <2>2, <2>3, <2>4, <2>5, <2>6, <2>7 DEF GeometryInv
<1>12. CASE ReplayOverride
  <2>1. page.now + 1 \in Nat
    BY <1>0 DEF GeometryTypeOK
  <2>2. GeometryTypeOK'
    BY <1>0, <1>12, <2>1 DEF ReplayOverride, GeometryTypeOK, Authorities
  <2>3. ChangesInOrder'
    BY <1>0, <1>12 DEF ReplayOverride, GeometryTypeOK, Authorities, ChangesInOrder
  <2>4. TokensAreOld'
    BY <1>0, <1>12 DEF ReplayOverride, GeometryTypeOK, Authorities, TokensAreOld
  <2>5. ObservedInTime'
    BY <1>0, <1>12 DEF ReplayOverride, GeometryTypeOK, Authorities, ObservedInTime, Committing
  <2>6. FenceHolds'
    BY <1>0, <1>12 DEF ReplayOverride, GeometryTypeOK, Authorities, FenceHolds, EventsOpen
  <2>7. (RequestsAreOld /\ EstablishedInTime /\ CertainFramesSpanNoChange
       /\ CertainFramesAreFresh)'
    BY <1>0, <1>12 DEF ReplayOverride, RequestsAreOld, EstablishedInTime,
       CertainFramesSpanNoChange, CertainFramesAreFresh, EventsOpen
  <2>. QED BY <2>1, <2>2, <2>3, <2>4, <2>5, <2>6, <2>7 DEF GeometryInv
<1>13. CASE ObserveViewport
  <2>1. GeometryTypeOK'
    BY <1>0, <1>13 DEF ObserveViewport, GeometryTypeOK, Authorities
  <2>2. TokensAreOld'
    BY <1>0, <1>13 DEF ObserveViewport, GeometryTypeOK, Authorities, TokensAreOld
  <2>3. ObservedInTime'
    BY <1>0, <1>13 DEF ObserveViewport, ObservedInTime, Committing, ChangesInOrder,
       GeometryTypeOK, Authorities
  <2>4. (ChangesInOrder /\ RequestsAreOld /\ EstablishedInTime /\ FenceHolds
       /\ CertainFramesSpanNoChange /\ CertainFramesAreFresh)'
    BY <1>0, <1>13 DEF ObserveViewport, ChangesInOrder, RequestsAreOld, EstablishedInTime,
       FenceHolds, CertainFramesSpanNoChange, CertainFramesAreFresh, EventsOpen
  <2>. QED BY <2>1, <2>2, <2>3, <2>4 DEF GeometryInv
<1>14. CASE GiveUpRefresh
  <2>1. GeometryTypeOK'
    BY <1>0, <1>14 DEF GiveUpRefresh, GeometryTypeOK, Authorities, NoToken
  <2>2. TokensAreOld'
    BY <1>0, <1>14 DEF GiveUpRefresh, GeometryTypeOK, Authorities, TokensAreOld, NoToken
  <2>3. ObservedInTime'
    BY <1>0, <1>14 DEF GiveUpRefresh, GeometryTypeOK, Authorities, ObservedInTime, Committing,
       NoToken
  <2>4. (ChangesInOrder /\ RequestsAreOld /\ EstablishedInTime /\ FenceHolds
       /\ CertainFramesSpanNoChange /\ CertainFramesAreFresh)'
    BY <1>0, <1>14 DEF GiveUpRefresh, ChangesInOrder, RequestsAreOld, EstablishedInTime,
       FenceHolds, CertainFramesSpanNoChange, CertainFramesAreFresh, EventsOpen
  <2>. QED BY <2>1, <2>2, <2>3, <2>4 DEF GeometryInv
<1>15. CASE CommitGeometry
  <2>1. GeometryTypeOK'
    BY <1>0, <1>15 DEF CommitGeometry, GeometryTypeOK, Authorities, Finish, NoToken
  <2>2. ChangesInOrder'
    BY <1>0, <1>15 DEF CommitGeometry, GeometryTypeOK, Authorities, ChangesInOrder, Finish,
       NoToken
  <2>3. TokensAreOld'
    BY <1>0, <1>15 DEF CommitGeometry, GeometryTypeOK, Authorities, TokensAreOld, Finish,
       NoToken
  <2>4. RequestsAreOld'
    BY <1>0, <1>15 DEF CommitGeometry, GeometryTypeOK, Authorities, RequestsAreOld, Finish,
       NoToken
  <2>5. ObservedInTime'
    BY <1>0, <1>15 DEF CommitGeometry, GeometryTypeOK, Authorities, ObservedInTime, Committing,
       Finish, NoToken
  <2>6. EstablishedInTime'
    BY <1>0, <1>15 DEF CommitGeometry, EstablishedInTime, ObservedInTime, Committing,
       EventsOpen, Finish, GeometryTypeOK, Authorities, NoToken
  <2>7. FenceHolds'
    BY <1>0, <1>15 DEF CommitGeometry, GeometryTypeOK, Authorities, FenceHolds, EventsOpen,
       Finish, NoToken
  <2>8. (CertainFramesSpanNoChange /\ CertainFramesAreFresh)'
    BY <1>0, <1>15 DEF CommitGeometry, CertainFramesSpanNoChange, CertainFramesAreFresh,
       EventsOpen
  <2>. QED BY <2>1, <2>2, <2>3, <2>4, <2>5, <2>6, <2>7, <2>8 DEF GeometryInv
<1>16. CASE ReceiveLabelled
  <2>1. frame.frames + 1 \in Nat /\ (authority.token # NoToken) \in BOOLEAN
    BY <1>0 DEF GeometryTypeOK
  <2>2. GeometryTypeOK'
    BY <1>0, <1>16, <2>1 DEF ReceiveLabelled, GeometryTypeOK, Authorities, NoToken
  <2>3. FenceHolds'
    BY <1>0, <1>16 DEF ReceiveLabelled, FenceHolds, EventsOpen, EstablishedInTime, NoToken,
       GeometryTypeOK, Authorities
  <2>4. CertainFramesSpanNoChange'
    BY <1>0, <1>16 DEF ReceiveLabelled, GeometryTypeOK, Authorities, CertainFramesSpanNoChange,
       NoToken
  <2>5. CertainFramesAreFresh'
    BY <1>0, <1>16 DEF ReceiveLabelled, GeometryTypeOK, Authorities, CertainFramesAreFresh,
       EventsOpen, NoToken
  <2>6. (ChangesInOrder /\ TokensAreOld /\ RequestsAreOld /\ ObservedInTime
       /\ EstablishedInTime)'
    BY <1>0, <1>16 DEF ReceiveLabelled, ChangesInOrder, TokensAreOld, RequestsAreOld,
       ObservedInTime, EstablishedInTime, Committing, EventsOpen
  <2>. QED BY <2>1, <2>2, <2>3, <2>4, <2>5, <2>6 DEF GeometryInv
<1>17. CASE LabelFrame
  <2>1. GeometryTypeOK'
    BY <1>0, <1>17 DEF LabelFrame, GeometryTypeOK, Authorities, Uncertain, NoFence
  <2>2. FenceHolds'
    BY <1>0, <1>17 DEF LabelFrame, GeometryTypeOK, Authorities, FenceHolds, EventsOpen,
       Uncertain, NoFence
  <2>3. CertainFramesSpanNoChange'
    BY <1>0, <1>17 DEF LabelFrame, GeometryTypeOK, Authorities, CertainFramesSpanNoChange,
       Uncertain, NoFence, FenceHolds
  <2>4. CertainFramesAreFresh'
    BY <1>0, <1>17 DEF LabelFrame, GeometryTypeOK, Authorities, CertainFramesAreFresh,
       EventsOpen, Uncertain, NoFence, FenceHolds
  <2>5. (ChangesInOrder /\ TokensAreOld /\ RequestsAreOld /\ ObservedInTime
       /\ EstablishedInTime)'
    BY <1>0, <1>17 DEF LabelFrame, ChangesInOrder, TokensAreOld, RequestsAreOld, ObservedInTime,
       EstablishedInTime, Committing, EventsOpen
  <2>. QED BY <2>1, <2>2, <2>3, <2>4, <2>5 DEF GeometryInv
<1>18. CASE UNCHANGED geometryVars
  BY <1>0, <1>18 DEF geometryVars, GeometryInv,
     GeometryTypeOK, ChangesInOrder, TokensAreOld, RequestsAreOld, ObservedInTime,
     EstablishedInTime, FenceHolds, CertainFramesSpanNoChange, CertainFramesAreFresh,
     Committing, EventsOpen
<1>. QED BY <1>1, <1>2, <1>3, <1>4, <1>5, <1>6, <1>7, <1>8, <1>9, <1>10, <1>11, <1>12, <1>13,
           <1>14, <1>15, <1>16, <1>17, <1>18 DEF GeometryNext

\* The invariant holds of every behaviour.
LEMMA GeometryInvariant == GeometrySpec => []GeometryInv
<1>1. GeometryInit => GeometryInv
  BY DEF GeometryInit, GeometryInv, GeometryTypeOK, Authorities, ChangesInOrder, TokensAreOld,
         RequestsAreOld, ObservedInTime, Committing, EstablishedInTime, EventsOpen, FenceHolds,
         CertainFramesSpanNoChange, CertainFramesAreFresh, NoFence, NoLabel, NoToken
<1>. QED BY <1>1, GeometryStep, PTL DEF GeometrySpec

\* A frame whose label is called certain was acknowledged without the stream being told of a
\* change in between, and its geometry was observed after the change that began the last
\* transition: no refresh, override or roll-back that answers late ends another's transition.
THEOREM CertainFramesStayCurrent == GeometrySpec => []CertainFramesAreCurrent
<1>1. GeometryInv => CertainFramesAreCurrent
  BY DEF GeometryInv, CertainFramesAreCurrent
<1>. QED BY <1>1, GeometryInvariant, PTL

------------------------------------------------------------------------------
(* CaptureAdmission: accepting streams are counted and ordinals increase.   *)

TaskStates == {"none", "observing", "admitting", "fencing", "subscribing", "starting",
               "retaining", "failing", "over"}
StreamStates == {"absent", "Capturing", "Hidden", "Draining", "Failed", "Suspended"}
Effects == StopEffects \union {"suspend", "restart"}

Bindings == [CaptureTargets -> [generation : 1 .. MaxGeneration,
                                state : {"inactive", "active", "suspended", "terminal"}]]
Bosses == [doing : {"nothing", "cancelling", "draining", "aborting", "stopping"},
           then : Effects \union {"nothing", "shutdown"},
           on : SUBSET StreamKeys, left : SUBSET StreamKeys, shut : BOOLEAN]
Tasks == [pc : [StreamKeys -> TaskStates], aborted : SUBSET StreamKeys, spawned : Nat]
StreamTables == [state : [StreamKeys -> StreamStates], pending : SUBSET StreamKeys]
Readers == [open : SUBSET StreamKeys, numbering : SUBSET StreamKeys]
Ordinals == [CaptureTargets -> [generation : 0 .. MaxGeneration, last : Nat]]
Fences == [states : Ordinals, issued : Ordinals]
FailureTables == [of : [CaptureTargets -> 0 .. MaxGeneration], told : SUBSET StreamKeys]

\* The state stays in its domain.
AdmissionTyped ==
    /\ bind \in Bindings /\ boss \in Bosses /\ task \in Tasks /\ streams \in StreamTables
    /\ accepting \in Readers /\ ordinals \in Fences /\ failures \in FailureTables

Reserving == {k \in StreamKeys : task.pc[k] \in {"fencing", "subscribing", "starting"}}

\* A startup holds its reservation from the admission to the registration, and its readers
\* accept frames only when they have subscribed.
ReservationsAreHeld ==
    /\ streams.pending = Reserving
    /\ \A k \in StreamKeys : task.pc[k] = "fencing" => k \notin accepting.open

AcceptingIsHeld == accepting.open \subseteq streams.pending \union Capturing

\* A stream that is not the binding's own, or whose binding has been given up, has neither a
\* startup nor an accepting reader.
Bound(k) ==
    /\ GenerationOf(k) = bind[TargetOf(k)].generation
    /\ bind[TargetOf(k)].state \in {"inactive", "active"}

OthersAreQuiet ==
    \A k \in StreamKeys : ~Bound(k) => ~Started(k) /\ k \notin accepting.open

\* What the supervisor is about.
EffectsAreOrderly ==
    /\ boss.doing \in {"cancelling", "draining"} => \A k, l \in boss.on : k = l
    /\ boss.doing = "cancelling" =>
          /\ boss.then \in Effects
          /\ \A k \in boss.on : /\ GenerationOf(k) = bind[TargetOf(k)].generation
                                /\ bind[TargetOf(k)].state = "active"
    /\ boss.doing = "draining" =>
          /\ boss.then \in StopEffects \union {"shutdown"}
          /\ \A k \in boss.on : ~Started(k) /\ k \notin accepting.open
          /\ boss.then = "stopClosed" => \A k \in boss.on : bind[TargetOf(k)].state = "terminal"
    /\ boss.doing \in {"aborting", "stopping"} => boss.then = "shutdown"
    /\ boss.doing = "stopping" => boss.on = {}

\* Once the startups have ended, a shutdown has every registered stream before it.
ShutdownIsOrderly ==
    /\ boss.doing \in {"stopping", "draining"} /\ boss.then = "shutdown" =>
          /\ \A k \in StreamKeys : ~Started(k)
          /\ Registered \subseteq boss.left \union boss.on
    /\ boss.shut => /\ boss.doing = "nothing" /\ Registered = {}
                    /\ \A k \in StreamKeys : ~Started(k)

\* The fence holds the last ordinal handed out, until nobody can ask for another one.
OrdinalsContinue ==
    \A t \in CaptureTargets :
        \/ /\ ordinals.issued[t].last = ordinals.states[t].last
           /\ ordinals.issued[t].generation <= ordinals.states[t].generation
        \/ /\ ordinals.states[t].generation = 0
           /\ boss.shut \/ bind[t].state = "terminal"

StreamsAreFew == Cardinality(streams.pending \union Capturing) <= MaxStreams

Orderly == AdmissionTyped /\ ReservationsAreHeld /\ AcceptingIsHeld /\ OthersAreQuiet
             /\ EffectsAreOrderly /\ ShutdownIsOrderly /\ OrdinalsContinue
-------------------------------------------------------------------------------
(* What the model's helpers give, and what its nested updates do.           *)
LEMMA KeyParts ==
    /\ \A k \in StreamKeys : /\ TargetOf(k) \in CaptureTargets
                             /\ GenerationOf(k) \in 1 .. MaxGeneration
    /\ \A k, l \in StreamKeys :
          TargetOf(k) = TargetOf(l) /\ GenerationOf(k) = GenerationOf(l) => k = l
  BY DEF StreamKeys, TargetOf, GenerationOf

LEMMA CurrentKey ==
    ASSUME AdmissionTyped, NEW t \in CaptureTargets
    PROVE  /\ Current(t) \in StreamKeys
           /\ TargetOf(Current(t)) = t /\ GenerationOf(Current(t)) = bind[t].generation
  BY DEF AdmissionTyped, Bindings, Current, StreamKeys, TargetOf, GenerationOf

LEMMA GoesTyped ==
    ASSUME AdmissionTyped, NEW k \in StreamKeys, NEW pc \in TaskStates, Goes(k, pc)
    PROVE  /\ task' \in Tasks
           /\ task'.pc = [task.pc EXCEPT ![k] = pc]
           /\ task'.aborted = task.aborted /\ task'.spawned = task.spawned
  BY DEF Goes, AdmissionTyped, Tasks

LEMMA SpawnTyped ==
    ASSUME AdmissionTyped, NEW k \in StreamKeys, Spawn(k)
    PROVE  /\ task' \in Tasks /\ failures' \in FailureTables
           /\ task'.pc = [task.pc EXCEPT ![k] = "observing"]
<1>1. TargetOf(k) \in CaptureTargets BY KeyParts
<1>2. /\ task'.pc = [task.pc EXCEPT ![k] = "observing"]
      /\ task'.aborted = task.aborted \ {k} /\ task'.spawned = task.spawned + 1
      /\ task' = [pc |-> task'.pc, aborted |-> task'.aborted, spawned |-> task'.spawned]
  BY DEF Spawn, AdmissionTyped, Tasks
<1>3. task'.pc \in [StreamKeys -> TaskStates] /\ task.spawned + 1 \in Nat
  BY <1>2 DEF AdmissionTyped, Tasks, TaskStates
<1>4. task' \in Tasks BY <1>2, <1>3 DEF AdmissionTyped, Tasks
<1>5. failures' \in FailureTables
  BY <1>1, AdmissionAssumption DEF Spawn, AdmissionTyped, FailureTables
<1> QED BY <1>2, <1>4, <1>5

LEMMA PendingKept ==
    ASSUME AdmissionTyped, NEW P \in SUBSET StreamKeys, streams' = [streams EXCEPT !.pending = P]
    PROVE  /\ streams' \in StreamTables
           /\ streams'.pending = P /\ streams'.state = streams.state
  BY DEF AdmissionTyped, StreamTables

LEMMA StateKept ==
    ASSUME AdmissionTyped, NEW k \in StreamKeys, NEW s \in StreamStates,
           streams' = [streams EXCEPT !.state[k] = s]
    PROVE  /\ streams' \in StreamTables
           /\ streams'.pending = streams.pending
           /\ streams'.state = [streams.state EXCEPT ![k] = s]
  BY DEF AdmissionTyped, StreamTables

LEMMA FenceTyped ==
    ASSUME AdmissionTyped, NEW t \in CaptureTargets,
           NEW o \in [generation : 0 .. MaxGeneration, last : Nat]
    PROVE  /\ [ordinals.states EXCEPT ![t] = o] \in Ordinals
           /\ [ordinals.issued EXCEPT ![t] = o] \in Ordinals
  BY DEF AdmissionTyped, Fences, Ordinals

LEMMA BindingMoves ==
    ASSUME AdmissionTyped, NEW t \in CaptureTargets,
           NEW s \in {"inactive", "active", "suspended", "terminal"},
           bind' = [bind EXCEPT ![t].state = s]
    PROVE  /\ bind' \in Bindings
           /\ \A u \in CaptureTargets : /\ bind'[u].generation = bind[u].generation
                                        /\ u # t => bind'[u].state = bind[u].state
           /\ bind'[t].state = s
  BY DEF AdmissionTyped, Bindings

\* The key the boss waits for is the one its target is bound to; its startup is over.
LEMMA CancelledKey ==
    ASSUME Orderly, NEW k \in StreamKeys, NEW effect, Cancelled(k, effect)
    PROVE  /\ effect = boss.then /\ effect \in Effects /\ ~boss.shut
           /\ \A l \in boss.on : l = k
           /\ TargetOf(k) \in CaptureTargets
           /\ GenerationOf(k) = bind[TargetOf(k)].generation
           /\ bind[TargetOf(k)].state = "active" /\ ~Started(k)
  BY KeyParts DEF Orderly, Cancelled, EffectsAreOrderly, ShutdownIsOrderly

\* A startup that has ended or is aborted leaves no reader behind it.
LEMMA ReleasedIsClosed ==
    ASSUME Orderly, NEW k \in StreamKeys, ~Started(k), k \notin Registered
    PROVE  k \notin accepting.open
  BY DEF Orderly, AcceptingIsHeld, ReservationsAreHeld, Reserving, Started, Registered,
         Capturing, Active

(* A startup, from the geometry of its page to its registered stream.       *)
LEMMA ObserveGeometryKeeps ==
    ASSUME Orderly, NEW k \in StreamKeys, ObserveGeometry(k)
    PROVE Orderly'
<1>1. AdmissionTyped /\ ReservationsAreHeld /\ AcceptingIsHeld
      /\ OthersAreQuiet /\ EffectsAreOrderly /\ ShutdownIsOrderly /\ OrdinalsContinue
  BY DEF Orderly
<1>2. AdmissionTyped'
  BY <1>1, AdmissionAssumption
     DEF ObserveGeometry, AdmissionTyped, Goes, Bindings, Bosses, Tasks, TaskStates
<1>3. ReservationsAreHeld'
  BY <1>1 DEF ObserveGeometry, ReservationsAreHeld, Goes, Reserving
<1>4. OthersAreQuiet'
  BY <1>1 DEF ObserveGeometry, OthersAreQuiet, Goes, Bound, Started
<1>5. EffectsAreOrderly'
  BY <1>1 DEF ObserveGeometry, EffectsAreOrderly, Goes, Started
<1>6. ShutdownIsOrderly'
  BY <1>1 DEF ObserveGeometry, ShutdownIsOrderly, Goes, Started
<1>7. AcceptingIsHeld' /\ OrdinalsContinue'
  BY <1>1 DEF ObserveGeometry, AcceptingIsHeld, OrdinalsContinue, Capturing, Active
<1> QED BY <1>2, <1>3, <1>4, <1>5, <1>6, <1>7 DEF Orderly

LEMMA AdmitKeeps ==
    ASSUME Orderly, NEW k \in StreamKeys, Admit(k)
    PROVE Orderly'
<1>1. AdmissionTyped /\ ReservationsAreHeld /\ AcceptingIsHeld
      /\ OthersAreQuiet /\ EffectsAreOrderly /\ ShutdownIsOrderly /\ OrdinalsContinue
  BY DEF Orderly
<1>2. \/ /\ task'.pc = [task.pc EXCEPT ![k] = "failing"]
         /\ UNCHANGED streams
      \/ /\ task'.pc = [task.pc EXCEPT ![k] = "fencing"]
         /\ streams'.pending = streams.pending \union {k} /\ streams'.state = streams.state
         /\ k \notin Registered
  BY <1>1, GoesTyped DEF Admit, TaskStates, AdmissionTyped, StreamTables
<1>3. AdmissionTyped'
  <2>1. task' \in Tasks BY <1>1, GoesTyped DEF Admit, TaskStates
  <2>2. streams' \in StreamTables BY <1>1 DEF Admit, AdmissionTyped, StreamTables
  <2> QED BY <1>1, <2>1, <2>2 DEF Admit, AdmissionTyped
<1>4. ReservationsAreHeld'
  <2>1. k \notin Registered => k \notin streams.pending \union accepting.open
    BY <1>1
       DEF Admit, AcceptingIsHeld, ReservationsAreHeld, Reserving, Registered, Capturing,
           Active
  <2>2. task.pc \in [StreamKeys -> TaskStates] /\ task.pc[k] = "admitting" /\ UNCHANGED accepting
    BY <1>1 DEF Admit, AdmissionTyped, Tasks
  <2> QED BY <1>1, <1>2, <2>1, <2>2 DEF ReservationsAreHeld, Reserving
<1>5. AcceptingIsHeld'
  BY <1>1, <1>2 DEF Admit, AcceptingIsHeld, Active, Capturing
<1>6. OthersAreQuiet'
  BY <1>1, <1>2 DEF Admit, OthersAreQuiet, Registered, Bound, Started, AdmissionTyped, Tasks
<1>7. EffectsAreOrderly'
  BY <1>1, <1>2
     DEF Admit, EffectsAreOrderly, Registered, Active, Goes, Started, AdmissionTyped,
         Bosses, Tasks
<1>8. ShutdownIsOrderly'
  BY <1>1, <1>2 DEF Admit, ShutdownIsOrderly, Started
<1>9. OrdinalsContinue'
  BY <1>1 DEF Admit, OrdinalsContinue
<1> QED BY <1>3, <1>4, <1>5, <1>6, <1>7, <1>8, <1>9 DEF Orderly

LEMMA BeginGenerationKeeps ==
    ASSUME Orderly, NEW k \in StreamKeys, BeginGeneration(k)
    PROVE Orderly'
<1>1. AdmissionTyped /\ ReservationsAreHeld /\ AcceptingIsHeld
      /\ OthersAreQuiet /\ EffectsAreOrderly /\ ShutdownIsOrderly /\ OrdinalsContinue
  BY DEF Orderly
<1>2. \/ /\ task'.pc = [task.pc EXCEPT ![k] = "failing"]
         /\ streams' = [streams EXCEPT !.pending = @ \ {k}]
         /\ UNCHANGED ordinals
      \/ /\ task'.pc = [task.pc EXCEPT ![k] = "subscribing"]
         /\ ordinals.states[TargetOf(k)].generation <= GenerationOf(k)
         /\ ordinals' = [ordinals EXCEPT !.states = Install(@, k)]
         /\ UNCHANGED streams
  <2>1. /\ TargetOf(k) \in CaptureTargets /\ GenerationOf(k) \in 1 .. MaxGeneration
        /\ ordinals.states[TargetOf(k)].generation \in 0 .. MaxGeneration
    BY <1>1, KeyParts DEF AdmissionTyped, Fences, Ordinals
  <2>2. ~(GenerationOf(k) < ordinals.states[TargetOf(k)].generation)
          => ordinals.states[TargetOf(k)].generation <= GenerationOf(k)
    BY <2>1, AdmissionAssumption
  <2>3. \A pc \in TaskStates : Goes(k, pc) => task'.pc = [task.pc EXCEPT ![k] = pc]
    BY <1>1, GoesTyped
  <2> QED BY <2>2, <2>3 DEF BeginGeneration, TaskStates
<1>3. AdmissionTyped'
  <2>1. task' \in Tasks BY <1>1, GoesTyped DEF BeginGeneration, TaskStates
  <2>2. streams' \in StreamTables BY <1>1, <1>2 DEF AdmissionTyped, StreamTables
  <2>3. ordinals' \in Fences
    BY <1>1, <1>2, KeyParts, AdmissionAssumption DEF Install, AdmissionTyped, Fences, Ordinals
  <2> QED BY <1>1, <2>1, <2>2, <2>3 DEF BeginGeneration, AdmissionTyped
<1>4. ReservationsAreHeld'
  BY <1>1, <1>2
     DEF BeginGeneration, ReservationsAreHeld, Reserving, AdmissionTyped, Tasks,
         StreamTables
<1>5. AcceptingIsHeld'
  BY <1>1
     DEF BeginGeneration, ReservationsAreHeld, AcceptingIsHeld, Capturing, Active,
         AdmissionTyped, StreamTables
<1>6. OthersAreQuiet'
  BY <1>1, <1>2 DEF BeginGeneration, OthersAreQuiet, Bound, Started, AdmissionTyped, Tasks
<1>7. EffectsAreOrderly'
  BY <1>1, <1>2
     DEF BeginGeneration, EffectsAreOrderly, Goes, Install, Started, AdmissionTyped,
         Bosses, Tasks
<1>8. ShutdownIsOrderly'
  BY <1>1, <1>2 DEF BeginGeneration, ShutdownIsOrderly, Started
<1>9. OrdinalsContinue'
  <2>1. TargetOf(k) \in CaptureTargets /\ Started(k)
    BY KeyParts DEF BeginGeneration, Started
  <2>2. bind[TargetOf(k)].state # "terminal" /\ ~boss.shut
    BY <1>1, <2>1 DEF OthersAreQuiet, Bound, ShutdownIsOrderly
  <2>3. CASE UNCHANGED ordinals BY <1>1, <2>3 DEF BeginGeneration, OrdinalsContinue
  <2>4. CASE ordinals' = [ordinals EXCEPT !.states = Install(@, k)]
             /\ ordinals.states[TargetOf(k)].generation <= GenerationOf(k)
    <3>1. /\ ordinals'.issued = ordinals.issued
          /\ ordinals'.states = Install(ordinals.states, k)
      BY <1>1, <2>4 DEF AdmissionTyped
    <3>2. \A t \in CaptureTargets :
             /\ ordinals'.states[t].last = ordinals.states[t].last
             /\ t = TargetOf(k) => ordinals'.states[t].generation = GenerationOf(k)
             /\ t # TargetOf(k) => ordinals'.states[t] = ordinals.states[t]
      BY <1>1, <3>1 DEF Install, AdmissionTyped, Fences, Ordinals
    <3>3. /\ ordinals.issued[TargetOf(k)].last = ordinals.states[TargetOf(k)].last
          /\ ordinals.issued[TargetOf(k)].generation <= ordinals.states[TargetOf(k)].generation
      BY <1>1, <2>1, <2>2 DEF OrdinalsContinue
    <3>4. /\ ordinals.issued[TargetOf(k)].generation \in Nat
          /\ ordinals.states[TargetOf(k)].generation \in Nat /\ GenerationOf(k) \in Nat
      BY <1>1, KeyParts DEF AdmissionTyped, Fences, Ordinals
    <3> QED BY <1>1, <2>4, <3>2, <3>3, <3>4 DEF BeginGeneration, OrdinalsContinue
  <2> QED BY <1>2, <2>3, <2>4
<1> QED BY <1>3, <1>4, <1>5, <1>6, <1>7, <1>8, <1>9 DEF Orderly

LEMMA SubscribedKeeps ==
    ASSUME Orderly, NEW k \in StreamKeys, Subscribed(k)
    PROVE Orderly'
<1>1. AdmissionTyped /\ ReservationsAreHeld /\ AcceptingIsHeld
      /\ OthersAreQuiet /\ EffectsAreOrderly /\ ShutdownIsOrderly /\ OrdinalsContinue
  BY DEF Orderly
<1>2. AdmissionTyped'
  BY <1>1, AdmissionAssumption
     DEF Subscribed, AdmissionTyped, Goes, Bindings, Bosses, Tasks, Readers, TaskStates
<1>3. ReservationsAreHeld'
  BY <1>1 DEF Subscribed, ReservationsAreHeld, Goes, Reserving
<1>4. AcceptingIsHeld'
  BY <1>1 DEF Subscribed, ReservationsAreHeld, Reserving, AcceptingIsHeld, Capturing, Active
<1>5. OthersAreQuiet'
  BY <1>1 DEF Subscribed, OthersAreQuiet, Goes, Bound, Started
<1>6. EffectsAreOrderly'
  BY <1>1 DEF Subscribed, EffectsAreOrderly, Goes, Started
<1>7. ShutdownIsOrderly'
  BY <1>1 DEF Subscribed, ShutdownIsOrderly, Goes, Started
<1>8. OrdinalsContinue'
  BY <1>1 DEF Subscribed, OrdinalsContinue
<1> QED BY <1>2, <1>3, <1>4, <1>5, <1>6, <1>7, <1>8 DEF Orderly

LEMMA RegisterKeeps ==
    ASSUME Orderly, NEW k \in StreamKeys, Register(k)
    PROVE Orderly'
<1>1. AdmissionTyped /\ ReservationsAreHeld /\ AcceptingIsHeld
      /\ OthersAreQuiet /\ EffectsAreOrderly /\ ShutdownIsOrderly /\ OrdinalsContinue
  BY DEF Orderly
<1>2. AdmissionTyped'
  BY <1>1, AdmissionAssumption
     DEF Register, AdmissionTyped, Goes, Bindings, Bosses, Tasks, StreamTables, TaskStates,
         StreamStates
<1>3. ReservationsAreHeld'
  BY <1>1 DEF Register, ReservationsAreHeld, Goes, Reserving, AdmissionTyped, Tasks
<1>4. AcceptingIsHeld'
  BY <1>1 DEF Register, AcceptingIsHeld, Capturing, Active, AdmissionTyped, StreamTables
<1>5. OthersAreQuiet'
  BY <1>1 DEF Register, OthersAreQuiet, Goes, Bound, Started
<1>6. EffectsAreOrderly'
  BY <1>1 DEF Register, EffectsAreOrderly, Goes, Started
<1>7. ShutdownIsOrderly'
  BY <1>1 DEF Register, ShutdownIsOrderly, Goes, Started
<1>8. OrdinalsContinue'
  BY <1>1 DEF Register, OrdinalsContinue
<1> QED BY <1>2, <1>3, <1>4, <1>5, <1>6, <1>7, <1>8 DEF Orderly

LEMMA RetainStreamsKeeps ==
    ASSUME Orderly, NEW k \in StreamKeys, RetainStreams(k)
    PROVE Orderly'
<1>1. AdmissionTyped /\ ReservationsAreHeld /\ AcceptingIsHeld
      /\ OthersAreQuiet /\ EffectsAreOrderly /\ ShutdownIsOrderly /\ OrdinalsContinue
  BY DEF Orderly
<1>2. AdmissionTyped'
  BY <1>1, AdmissionAssumption
     DEF RetainStreams, AdmissionTyped, Goes, Bindings, Bosses, Tasks, StreamTables,
         TaskStates, StreamStates
<1>3. ReservationsAreHeld'
  BY <1>1 DEF RetainStreams, ReservationsAreHeld, Goes, Reserving
<1>4. AcceptingIsHeld'
  <2>1. \A o \in StreamKeys : TargetOf(o) = TargetOf(k) /\ GenerationOf(o) < GenerationOf(k)
            => o \notin accepting.open
    <3>1. Bound(k) BY <1>1 DEF RetainStreams, OthersAreQuiet, Started
    <3>2. \A o \in StreamKeys : GenerationOf(o) \in Nat BY KeyParts, AdmissionAssumption
    <3> QED BY <1>1, <3>1, <3>2 DEF OthersAreQuiet, Bound
  <2>2. \A o \in accepting.open : streams'.state[o] = streams.state[o]
    BY <1>1, <2>1 DEF RetainStreams, AdmissionTyped, Readers
  <2> QED BY <1>1, <2>2 DEF RetainStreams, AcceptingIsHeld, Capturing, Active
<1>5. OthersAreQuiet'
  BY <1>1 DEF RetainStreams, OthersAreQuiet, Goes, Bound, Started
<1>6. EffectsAreOrderly'
  BY <1>1 DEF RetainStreams, EffectsAreOrderly, Goes, Started
<1>7. ShutdownIsOrderly'
  BY <1>1 DEF RetainStreams, ShutdownIsOrderly, Goes, Started
<1>8. OrdinalsContinue'
  BY <1>1 DEF RetainStreams, OrdinalsContinue
<1> QED BY <1>2, <1>3, <1>4, <1>5, <1>6, <1>7, <1>8 DEF Orderly

LEMMA StartupBreaksKeeps ==
    ASSUME Orderly, NEW k \in StreamKeys, StartupBreaks(k)
    PROVE Orderly'
<1>1. AdmissionTyped /\ ReservationsAreHeld /\ AcceptingIsHeld
      /\ OthersAreQuiet /\ EffectsAreOrderly /\ ShutdownIsOrderly /\ OrdinalsContinue
  BY DEF Orderly
<1>2. AdmissionTyped'
  BY <1>1, AdmissionAssumption
     DEF StartupBreaks, AdmissionTyped, Goes, Release, Bindings, Bosses, Tasks,
         StreamTables, Readers, TaskStates
<1>3. ReservationsAreHeld'
  BY <1>1
     DEF StartupBreaks, ReservationsAreHeld, Goes, Release, Reserving, AdmissionTyped,
         Tasks
<1>4. AcceptingIsHeld'
  BY <1>1 DEF StartupBreaks, AcceptingIsHeld, Release, Capturing, Active
<1>5. OthersAreQuiet'
  BY <1>1 DEF StartupBreaks, OthersAreQuiet, Goes, Release, Bound, Started
<1>6. EffectsAreOrderly'
  BY <1>1 DEF StartupBreaks, EffectsAreOrderly, Goes, Release, Started
<1>7. ShutdownIsOrderly'
  BY <1>1 DEF StartupBreaks, ShutdownIsOrderly, Goes, Started
<1>8. OrdinalsContinue'
  BY <1>1 DEF StartupBreaks, OrdinalsContinue
<1> QED BY <1>2, <1>3, <1>4, <1>5, <1>6, <1>7, <1>8 DEF Orderly

LEMMA StartupAbortedKeeps ==
    ASSUME Orderly, NEW k \in StreamKeys, StartupAborted(k)
    PROVE Orderly'
<1>1. AdmissionTyped /\ ReservationsAreHeld /\ AcceptingIsHeld
      /\ OthersAreQuiet /\ EffectsAreOrderly /\ ShutdownIsOrderly /\ OrdinalsContinue
  BY DEF Orderly
<1>2. AdmissionTyped'
  BY <1>1, AdmissionAssumption
     DEF StartupAborted, AdmissionTyped, Goes, Release, Bindings, Bosses, Tasks,
         StreamTables, Readers, TaskStates
<1>3. ReservationsAreHeld'
  BY <1>1
     DEF StartupAborted, ReservationsAreHeld, Goes, Release, Reserving, AdmissionTyped,
         Tasks
<1>4. AcceptingIsHeld'
  BY <1>1 DEF StartupAborted, AcceptingIsHeld, Release, Capturing, Active
<1>5. OthersAreQuiet'
  BY <1>1 DEF StartupAborted, OthersAreQuiet, Goes, Release, Bound, Started
<1>6. EffectsAreOrderly'
  BY <1>1 DEF StartupAborted, EffectsAreOrderly, Goes, Release, Started
<1>7. ShutdownIsOrderly'
  BY <1>1 DEF StartupAborted, ShutdownIsOrderly, Goes, Started
<1>8. OrdinalsContinue'
  BY <1>1 DEF StartupAborted, OrdinalsContinue
<1> QED BY <1>2, <1>3, <1>4, <1>5, <1>6, <1>7, <1>8 DEF Orderly

LEMMA StartupFailedKeeps ==
    ASSUME Orderly, NEW k \in StreamKeys, StartupFailed(k)
    PROVE Orderly'
<1>1. AdmissionTyped /\ ReservationsAreHeld /\ AcceptingIsHeld
      /\ OthersAreQuiet /\ EffectsAreOrderly /\ ShutdownIsOrderly /\ OrdinalsContinue
  BY DEF Orderly
<1>2. AdmissionTyped'
  <2>1. task' \in Tasks BY <1>1, GoesTyped DEF StartupFailed, TaskStates
  <2>2. failures' \in FailureTables
    BY <1>1, KeyParts DEF StartupFailed, AdmissionTyped, FailureTables
  <2> QED BY <1>1, <2>1, <2>2 DEF StartupFailed, AdmissionTyped
<1>3. ReservationsAreHeld'
  BY <1>1 DEF StartupFailed, ReservationsAreHeld, Goes, Reserving
<1>4. OthersAreQuiet'
  BY <1>1 DEF StartupFailed, OthersAreQuiet, Goes, Bound, Started
<1>5. EffectsAreOrderly'
  BY <1>1 DEF StartupFailed, EffectsAreOrderly, Goes, Started
<1>6. ShutdownIsOrderly'
  BY <1>1 DEF StartupFailed, ShutdownIsOrderly, Goes, Started
<1>7. AcceptingIsHeld' /\ OrdinalsContinue'
  BY <1>1 DEF StartupFailed, AcceptingIsHeld, OrdinalsContinue, Capturing, Active
<1> QED BY <1>2, <1>3, <1>4, <1>5, <1>6, <1>7 DEF Orderly

(* The streams and their readers.                                           *)
LEMMA StreamMovesKeeps ==
    ASSUME Orderly, NEW k \in StreamKeys, StreamMoves(k)
    PROVE Orderly'
<1>1. AdmissionTyped /\ ReservationsAreHeld /\ AcceptingIsHeld
      /\ OthersAreQuiet /\ EffectsAreOrderly /\ ShutdownIsOrderly /\ OrdinalsContinue
  BY DEF Orderly
<1>2. AdmissionTyped'
  BY <1>1, AdmissionAssumption
     DEF StreamMoves, AdmissionTyped, Bindings, Bosses, Tasks, StreamTables, StreamStates
<1>3. ReservationsAreHeld'
  BY <1>1 DEF StreamMoves, ReservationsAreHeld, Reserving, AdmissionTyped
<1>4. AcceptingIsHeld'
  BY <1>1 DEF StreamMoves, AcceptingIsHeld, Capturing, Active
<1>5. ShutdownIsOrderly'
  BY <1>1 DEF StreamMoves, ShutdownIsOrderly, Started, Registered
<1>6. OthersAreQuiet' /\ EffectsAreOrderly' /\ OrdinalsContinue'
  BY <1>1 DEF StreamMoves, OthersAreQuiet, EffectsAreOrderly, OrdinalsContinue, Bound, Started
<1> QED BY <1>2, <1>3, <1>4, <1>5, <1>6 DEF Orderly

LEMMA StreamFailsKeeps ==
    ASSUME Orderly, NEW k \in StreamKeys, StreamFails(k)
    PROVE Orderly'
<1>1. AdmissionTyped /\ ReservationsAreHeld /\ AcceptingIsHeld
      /\ OthersAreQuiet /\ EffectsAreOrderly /\ ShutdownIsOrderly /\ OrdinalsContinue
  BY DEF Orderly
<1>2. AdmissionTyped'
  BY <1>1, AdmissionAssumption
     DEF StreamFails, AdmissionTyped, Bindings, Bosses, Tasks, StreamTables, Readers,
         StreamStates
<1>3. ReservationsAreHeld'
  BY <1>1 DEF StreamFails, ReservationsAreHeld, Reserving, AdmissionTyped
<1>4. AcceptingIsHeld'
  BY <1>1 DEF StreamFails, AcceptingIsHeld, Capturing, Active
<1>5. OthersAreQuiet'
  BY <1>1 DEF StreamFails, OthersAreQuiet, Bound, Started
<1>6. EffectsAreOrderly'
  BY <1>1 DEF StreamFails, EffectsAreOrderly, Effects, Started
<1>7. ShutdownIsOrderly'
  BY <1>1 DEF StreamFails, ShutdownIsOrderly, Started, Registered
<1>8. OrdinalsContinue'
  BY <1>1 DEF StreamFails, OrdinalsContinue
<1> QED BY <1>2, <1>3, <1>4, <1>5, <1>6, <1>7, <1>8 DEF Orderly

LEMMA AcknowledgesKeeps ==
    ASSUME Orderly, NEW k \in StreamKeys, Acknowledges(k)
    PROVE Orderly'
<1>1. AdmissionTyped /\ ReservationsAreHeld /\ AcceptingIsHeld
      /\ OthersAreQuiet /\ EffectsAreOrderly /\ ShutdownIsOrderly /\ OrdinalsContinue
  BY DEF Orderly
<1>2. AdmissionTyped'
  BY <1>1, AdmissionAssumption
     DEF Acknowledges, AdmissionTyped, Bindings, Bosses, Tasks, Readers
<1>3. ReservationsAreHeld'
  BY <1>1 DEF Acknowledges, ReservationsAreHeld, Reserving, AdmissionTyped
<1>4. AcceptingIsHeld'
  BY <1>1 DEF Acknowledges, AcceptingIsHeld, Capturing, Active
<1>5. OthersAreQuiet'
  BY <1>1 DEF Acknowledges, OthersAreQuiet, Bound, Started
<1>6. EffectsAreOrderly'
  BY <1>1 DEF Acknowledges, EffectsAreOrderly, Effects, Started
<1>7. ShutdownIsOrderly' /\ OrdinalsContinue'
  BY <1>1 DEF Acknowledges, ShutdownIsOrderly, OrdinalsContinue, Started, Registered
<1> QED BY <1>2, <1>3, <1>4, <1>5, <1>6, <1>7 DEF Orderly

LEMMA AllocateKeeps ==
    ASSUME Orderly, NEW k \in StreamKeys, Allocate(k)
    PROVE Orderly'
<1>1. AdmissionTyped /\ ReservationsAreHeld /\ AcceptingIsHeld
      /\ OthersAreQuiet /\ EffectsAreOrderly /\ ShutdownIsOrderly /\ OrdinalsContinue
  BY DEF Orderly
<1>2. \/ UNCHANGED ordinals
      \/ \E n \in Nat :
            /\ n = ordinals.states[TargetOf(k)].last + 1
            /\ ordinals.states[TargetOf(k)].generation = GenerationOf(k)
            /\ ordinals' = [states |-> [ordinals.states EXCEPT ![TargetOf(k)] =
                                           [generation |-> GenerationOf(k), last |-> n]],
                            issued |-> [ordinals.issued EXCEPT ![TargetOf(k)] =
                                           [generation |-> GenerationOf(k), last |-> n]]]
  <2>1. ordinals.states[TargetOf(k)] \in [generation : 0 .. MaxGeneration, last : Nat]
    BY <1>1, KeyParts DEF AdmissionTyped, Fences, Ordinals
  <2>2. [ordinals.states[TargetOf(k)] EXCEPT !.last = @ + 1]
          = [generation |-> ordinals.states[TargetOf(k)].generation,
             last |-> ordinals.states[TargetOf(k)].last + 1]
    BY <2>1
  <2> QED BY <2>1, <2>2 DEF Allocate
<1>3. AdmissionTyped'
  <2>1. ordinals' \in Fences
    <3>1. GenerationOf(k) \in 0 .. MaxGeneration /\ TargetOf(k) \in CaptureTargets
      BY KeyParts, AdmissionAssumption
    <3>2. \A n \in Nat : [generation |-> GenerationOf(k), last |-> n]
                            \in [generation : 0 .. MaxGeneration, last : Nat]
      BY <3>1
    <3>3. CASE UNCHANGED ordinals BY <1>1, <3>3 DEF AdmissionTyped
    <3>4. CASE ~UNCHANGED ordinals
      <4>1. PICK n \in Nat :
               ordinals' = [states |-> [ordinals.states EXCEPT ![TargetOf(k)] =
                                          [generation |-> GenerationOf(k), last |-> n]],
                            issued |-> [ordinals.issued EXCEPT ![TargetOf(k)] =
                                          [generation |-> GenerationOf(k), last |-> n]]]
        BY <1>2, <3>4
      <4>2. ordinals'.states \in Ordinals /\ ordinals'.issued \in Ordinals
        BY <1>1, <3>1, <3>2, <4>1, FenceTyped
      <4> QED BY <4>1, <4>2 DEF Fences
    <3> QED BY <3>3, <3>4
  <2> QED BY <1>1, <2>1 DEF Allocate, AdmissionTyped, Readers
<1>4. ReservationsAreHeld'
  BY <1>1, <1>2 DEF Allocate, ReservationsAreHeld, Reserving
<1>5. AcceptingIsHeld'
  BY <1>1 DEF Allocate, AcceptingIsHeld, Capturing, Active
<1>6. OthersAreQuiet'
  BY <1>1 DEF Allocate, OthersAreQuiet, Bound, Started
<1>7. EffectsAreOrderly'
  BY <1>1, <1>2 DEF Allocate, EffectsAreOrderly, Started
<1>8. OrdinalsContinue'
  <2>1. CASE UNCHANGED ordinals BY <1>1, <2>1 DEF Allocate, OrdinalsContinue
  <2>2. CASE ~UNCHANGED ordinals
    <3>1. /\ TargetOf(k) \in CaptureTargets
          /\ \A t \in CaptureTargets : t # TargetOf(k) =>
                /\ ordinals'.states[t] = ordinals.states[t]
                /\ ordinals'.issued[t] = ordinals.issued[t]
          /\ ordinals'.states[TargetOf(k)] = ordinals'.issued[TargetOf(k)]
          /\ ordinals'.states[TargetOf(k)].generation \in Nat
      BY <1>1, <1>2, <2>2 DEF AdmissionTyped, Fences, Ordinals
    <3> QED BY <1>1, <3>1 DEF Allocate, OrdinalsContinue
  <2> QED BY <2>1, <2>2
<1>9. ShutdownIsOrderly'
  BY <1>1 DEF Allocate, ShutdownIsOrderly, Started, Registered
<1> QED BY <1>3, <1>4, <1>5, <1>6, <1>7, <1>8, <1>9 DEF Orderly

LEMMA LearnFailureKeeps ==
    ASSUME Orderly, NEW k \in StreamKeys, LearnFailure(k)
    PROVE Orderly'
<1>1. AdmissionTyped /\ ReservationsAreHeld /\ AcceptingIsHeld
      /\ OthersAreQuiet /\ EffectsAreOrderly /\ ShutdownIsOrderly /\ OrdinalsContinue
  BY DEF Orderly
<1>2. bind' = bind \/ bind' = [bind EXCEPT ![TargetOf(k)].state = "inactive"]
  BY DEF LearnFailure
<1>3. AdmissionTyped'
  <2>1. bind' \in Bindings BY <1>1, <1>2, KeyParts, BindingMoves DEF AdmissionTyped
  <2> QED BY <1>1, <2>1 DEF LearnFailure, AdmissionTyped, FailureTables
<1>4. OthersAreQuiet'
  BY <1>1, <1>2 DEF LearnFailure, OthersAreQuiet, Bound, Started
<1>5. EffectsAreOrderly'
  BY <1>1, <1>2 DEF LearnFailure, EffectsAreOrderly, Idle
<1>6. OrdinalsContinue'
  BY <1>1, <1>2 DEF LearnFailure, OrdinalsContinue, Idle
<1>7. ReservationsAreHeld' /\ AcceptingIsHeld' /\ ShutdownIsOrderly'
  BY <1>1
     DEF LearnFailure, ReservationsAreHeld, AcceptingIsHeld, ShutdownIsOrderly, Reserving,
         Capturing, Started, Registered, Active
<1> QED BY <1>3, <1>4, <1>5, <1>6, <1>7 DEF Orderly

(* What the supervisor asks for, one target at a time.                      *)
LEMMA StartCaptureKeeps ==
    ASSUME Orderly, NEW t \in CaptureTargets, StartCapture(t)
    PROVE Orderly'
<1>1. AdmissionTyped /\ ReservationsAreHeld /\ AcceptingIsHeld
      /\ OthersAreQuiet /\ EffectsAreOrderly /\ ShutdownIsOrderly /\ OrdinalsContinue
  BY DEF Orderly
<1>2. Current(t) \in StreamKeys /\ TargetOf(Current(t)) = t
      /\ GenerationOf(Current(t)) = bind[t].generation
  BY <1>1, CurrentKey
<1>3. /\ bind' \in Bindings
      /\ bind'[t].generation = bind[t].generation /\ bind'[t].state = "active"
      /\ \A u \in CaptureTargets \ {t} : bind'[u] = bind[u]
  BY <1>1 DEF StartCapture, AdmissionTyped, Bindings
<1>4. AdmissionTyped'
  <2>1. task' \in Tasks /\ failures' \in FailureTables
    BY <1>1, <1>2, SpawnTyped DEF StartCapture
  <2> QED BY <1>1, <1>3, <2>1 DEF StartCapture, AdmissionTyped
<1>5. ReservationsAreHeld'
  BY <1>1, <1>2, <1>3 DEF StartCapture, ReservationsAreHeld, Started, Spawn, Reserving
<1>6. OthersAreQuiet'
  <2>1. task'.pc = [task.pc EXCEPT ![Current(t)] = "observing"] /\ UNCHANGED accepting
    BY <1>1, <1>2, SpawnTyped DEF StartCapture
  <2>2. \A k \in StreamKeys : Bound(k) \/ k = Current(t) => (Bound(k))'
    BY <1>1, <1>2, <1>3, KeyParts DEF Bound
  <2>3. \A k \in StreamKeys : k # Current(t) => task'.pc[k] = task.pc[k]
    BY <1>1, <2>1 DEF AdmissionTyped
  <2> QED BY <1>1, <2>1, <2>2 DEF OthersAreQuiet, Started
<1>7. EffectsAreOrderly'
  BY <1>1, <1>2, <1>3 DEF StartCapture, EffectsAreOrderly, Idle
<1>8. ShutdownIsOrderly'
  BY <1>1, <1>2, <1>3 DEF StartCapture, ShutdownIsOrderly, Idle
<1>9. OrdinalsContinue'
  BY <1>1, <1>2, <1>3 DEF StartCapture, OrdinalsContinue
<1>10. AcceptingIsHeld'
  BY <1>1 DEF StartCapture, AcceptingIsHeld, Capturing, Active
<1> QED BY <1>4, <1>5, <1>6, <1>7, <1>8, <1>9, <1>10 DEF Orderly

LEMMA BeginEffectKeeps ==
    ASSUME Orderly, NEW t \in CaptureTargets, NEW effect \in Effects, BeginEffect(t, effect)
    PROVE Orderly'
<1>1. AdmissionTyped /\ ReservationsAreHeld /\ AcceptingIsHeld
      /\ OthersAreQuiet /\ EffectsAreOrderly /\ ShutdownIsOrderly /\ OrdinalsContinue
  BY DEF Orderly
<1>2. /\ Current(t) \in StreamKeys /\ TargetOf(Current(t)) = t
      /\ GenerationOf(Current(t)) = bind[t].generation
  BY <1>1, CurrentKey
<1>3. /\ boss' = [boss EXCEPT !.doing = "cancelling", !.then = effect, !.on = {Current(t)}]
      /\ boss'.doing = "cancelling" /\ boss'.then = effect /\ boss'.on = {Current(t)}
      /\ boss'.shut = boss.shut /\ ~boss.shut
  BY <1>1 DEF BeginEffect, Idle
<1>4. task' \in Tasks /\ task'.pc = task.pc
  BY <1>1, <1>2 DEF BeginEffect, Abort, AdmissionTyped, Tasks
<1>5. AdmissionTyped'
  <2>1. boss' \in Bosses BY <1>1, <1>2, <1>3 DEF AdmissionTyped, Bosses
  <2> QED BY <1>1, <1>4, <2>1 DEF BeginEffect, AdmissionTyped
<1>6. ReservationsAreHeld'
  BY <1>1, <1>2, <1>3, <1>4 DEF BeginEffect, ReservationsAreHeld, Reserving
<1>7. OthersAreQuiet'
  BY <1>1, <1>2, <1>3, <1>4 DEF BeginEffect, OthersAreQuiet, Started, Bound
<1>8. EffectsAreOrderly'
  <2>1. bind[t].state = "active" /\ UNCHANGED bind BY DEF BeginEffect
  <2> QED BY <1>2, <1>3, <2>1 DEF EffectsAreOrderly
<1>9. ShutdownIsOrderly'
  BY <1>3 DEF ShutdownIsOrderly
<1>10. OrdinalsContinue'
  BY <1>1, <1>2, <1>3, <1>4 DEF BeginEffect, OrdinalsContinue
<1>11. AcceptingIsHeld'
  BY <1>1 DEF BeginEffect, AcceptingIsHeld, Capturing, Active
<1> QED BY <1>5, <1>6, <1>7, <1>8, <1>9, <1>10, <1>11 DEF Orderly

LEMMA RestartsKeeps ==
    ASSUME Orderly, NEW k \in StreamKeys, Restarts(k)
    PROVE Orderly'
<1>1. AdmissionTyped /\ ReservationsAreHeld /\ AcceptingIsHeld
      /\ OthersAreQuiet /\ EffectsAreOrderly /\ ShutdownIsOrderly /\ OrdinalsContinue
  BY DEF Orderly
<1>2. /\ ~boss.shut
      /\ \A l \in boss.on : l = k
      /\ TargetOf(k) \in CaptureTargets
      /\ GenerationOf(k) = bind[TargetOf(k)].generation
      /\ bind[TargetOf(k)].state = "active" /\ ~Started(k)
  BY CancelledKey DEF Restarts
<1>3. /\ boss' \in Bosses /\ boss'.doing = "nothing" /\ boss'.shut = boss.shut
  BY <1>1 DEF Restarts, AdmissionTyped, Bosses
<1>4. /\ task' \in Tasks /\ failures' \in FailureTables
      /\ task'.pc = task.pc \/ task'.pc = [task.pc EXCEPT ![k] = "observing"]
  BY <1>1, SpawnTyped DEF Restarts, AdmissionTyped
<1>5. AdmissionTyped'
  BY <1>1, <1>3, <1>4 DEF Restarts, AdmissionTyped
<1>6. ReservationsAreHeld'
  <2>1. task.pc[k] \in {"none", "over"} BY <1>2 DEF Started
  <2>2. UNCHANGED <<streams, accepting>> BY DEF Restarts
  <2> QED BY <1>1, <1>4, <2>1, <2>2 DEF ReservationsAreHeld, Reserving, Tasks
<1>7. OthersAreQuiet'
  <2>1. Bound(k) BY <1>2 DEF Bound
  <2>2. \A l \in StreamKeys : l # k => task'.pc[l] = task.pc[l]
    BY <1>1, <1>4 DEF Tasks
  <2>3. \A l \in StreamKeys : Bound(l) => (Bound(l))' BY DEF Restarts, Bound
  <2> QED BY <1>1, <2>1, <2>2, <2>3 DEF Restarts, OthersAreQuiet, Started
<1>8. EffectsAreOrderly'
  BY <1>3 DEF EffectsAreOrderly
<1>9. ShutdownIsOrderly'
  BY <1>2, <1>3 DEF ShutdownIsOrderly
<1>10. OrdinalsContinue'
  BY <1>1, <1>2, <1>3, <1>4 DEF Restarts, OrdinalsContinue
<1>11. AcceptingIsHeld'
  BY <1>1 DEF Restarts, AcceptingIsHeld, Capturing, Active
<1> QED BY <1>5, <1>6, <1>7, <1>8, <1>9, <1>10, <1>11 DEF Orderly

LEMMA SuspendsKeeps ==
    ASSUME Orderly, NEW k \in StreamKeys, Suspends(k)
    PROVE Orderly'
<1>1. AdmissionTyped /\ ReservationsAreHeld /\ AcceptingIsHeld
      /\ OthersAreQuiet /\ EffectsAreOrderly /\ ShutdownIsOrderly /\ OrdinalsContinue
  BY DEF Orderly
<1>2. /\ ~boss.shut
      /\ \A l \in boss.on : l = k
      /\ TargetOf(k) \in CaptureTargets
      /\ GenerationOf(k) = bind[TargetOf(k)].generation
      /\ bind[TargetOf(k)].state = "active" /\ ~Started(k)
  BY CancelledKey DEF Suspends
<1>3. /\ bind' \in Bindings /\ bind'[TargetOf(k)].state = "suspended"
      /\ \A t \in CaptureTargets : /\ bind'[t].generation = bind[t].generation
                                   /\ t # TargetOf(k) => bind'[t].state = bind[t].state
  BY <1>1, <1>2, BindingMoves DEF Suspends
<1>4. /\ streams' \in StreamTables /\ streams'.pending = streams.pending
      /\ \A l \in StreamKeys \ {k} : streams'.state[l] = streams.state[l]
  BY <1>1 DEF Suspends, AdmissionTyped, StreamTables, StreamStates
<1>5. AdmissionTyped'
  BY <1>1, <1>3, <1>4 DEF Suspends, AdmissionTyped, Bosses, Readers
<1>6. ReservationsAreHeld'
  BY <1>1, <1>2, <1>3, <1>4 DEF Suspends, ReservationsAreHeld, Reserving
<1>7. AcceptingIsHeld'
  BY <1>1, <1>2, <1>3, <1>4 DEF Suspends, AcceptingIsHeld, Capturing, Active
<1>8. OthersAreQuiet'
  <2>1. \A l \in StreamKeys : Bound(l) /\ l # k => (Bound(l))'
    BY <1>2, <1>3, KeyParts DEF Bound
  <2>2. accepting'.open = accepting.open \ {k} /\ UNCHANGED task
    BY <1>1 DEF Suspends, AdmissionTyped
  <2> QED BY <1>1, <1>2, <2>1, <2>2 DEF OthersAreQuiet, Started
<1>9. EffectsAreOrderly'
  BY <1>1, <1>2, <1>3, <1>4 DEF Suspends, EffectsAreOrderly
<1>10. ShutdownIsOrderly'
  BY <1>1, <1>2, <1>3, <1>4 DEF Suspends, ShutdownIsOrderly
<1>11. OrdinalsContinue'
  <2>1. boss'.shut = boss.shut /\ UNCHANGED ordinals
    BY <1>1 DEF Suspends, AdmissionTyped
  <2> QED BY <1>1, <1>2, <1>3, <2>1 DEF OrdinalsContinue
<1> QED BY <1>5, <1>6, <1>7, <1>8, <1>9, <1>10, <1>11 DEF Orderly

LEMMA StopsKeeps ==
    ASSUME Orderly, NEW k \in StreamKeys, Stops(k)
    PROVE Orderly'
<1>1. AdmissionTyped /\ ReservationsAreHeld /\ AcceptingIsHeld
      /\ OthersAreQuiet /\ EffectsAreOrderly /\ ShutdownIsOrderly /\ OrdinalsContinue
  BY DEF Orderly
<1>2. PICK effect \in StopEffects : Cancelled(k, effect) BY DEF Stops
<1>3. /\ effect = boss.then /\ effect \in StopEffects /\ ~boss.shut
      /\ \A l \in boss.on : l = k
      /\ TargetOf(k) \in CaptureTargets
      /\ GenerationOf(k) = bind[TargetOf(k)].generation
      /\ bind[TargetOf(k)].state = "active" /\ ~Started(k)
  BY <1>2, CancelledKey DEF StopEffects
<1>4. /\ bind' \in Bindings
      /\ bind'[TargetOf(k)].state = IF effect = "stopClosed" THEN "terminal" ELSE "suspended"
      /\ \A t \in CaptureTargets : /\ bind'[t].generation = bind[t].generation
                                   /\ t # TargetOf(k) => bind'[t].state = bind[t].state
  BY <1>1, <1>3, BindingMoves DEF Stops
<1>5. /\ boss' \in Bosses /\ boss'.shut = boss.shut /\ boss'.then = boss.then
      /\ boss'.doing = IF k \in Registered THEN "draining" ELSE "nothing"
      /\ k \in Registered => boss'.on = boss.on
  BY <1>1 DEF Stops, AdmissionTyped, Bosses
<1>6. /\ k \notin accepting'.open /\ accepting'.open \subseteq accepting.open
      /\ accepting' \in Readers /\ UNCHANGED <<task, ordinals>>
  BY <1>1, <1>3, ReleasedIsClosed DEF Stops, Drains, AdmissionTyped, Readers
<1>7. AdmissionTyped'
  <2>1. failures' \in FailureTables
    BY <1>1, AdmissionAssumption DEF Stops, AdmissionTyped, FailureTables
  <2>2. streams' \in StreamTables
    BY <1>1 DEF Stops, Drains, AdmissionTyped, StreamTables, StreamStates
  <2> QED BY <1>1, <1>4, <1>5, <1>6, <2>1, <2>2 DEF AdmissionTyped
<1>8. ReservationsAreHeld'
  BY <1>1, <1>2, <1>3, <1>4, <1>5, <1>6
     DEF Stops, ReservationsAreHeld, StopEffects, Cancelled, Drains, Reserving,
         AdmissionTyped, StreamTables
<1>9. AcceptingIsHeld'
  BY <1>1, <1>2, <1>3, <1>4, <1>5, <1>6
     DEF Stops, AcceptingIsHeld, StopEffects, Cancelled, Drains, Capturing, Active,
         AdmissionTyped, StreamTables
<1>10. OthersAreQuiet'
  <2>1. \A l \in StreamKeys : Bound(l) /\ l # k => (Bound(l))'
    BY <1>3, <1>4, KeyParts DEF Bound
  <2> QED BY <1>1, <1>3, <1>6, <2>1 DEF OthersAreQuiet, Started
<1>11. EffectsAreOrderly'
  <2>1. (~Started(k))' BY <1>3, <1>6 DEF Started
  <2> QED BY <1>3, <1>4, <1>5, <1>6, <2>1 DEF EffectsAreOrderly
<1>12. ShutdownIsOrderly'
  BY <1>3, <1>5 DEF ShutdownIsOrderly, StopEffects
<1>13. OrdinalsContinue'
  BY <1>1, <1>3, <1>4, <1>6 DEF OrdinalsContinue
<1> QED BY <1>7, <1>8, <1>9, <1>10, <1>11, <1>12, <1>13 DEF Orderly

LEMMA StoppedKeeps ==
    ASSUME Orderly, NEW k \in StreamKeys, Stopped(k)
    PROVE Orderly'
<1>1. AdmissionTyped /\ ReservationsAreHeld /\ AcceptingIsHeld
      /\ OthersAreQuiet /\ EffectsAreOrderly /\ ShutdownIsOrderly /\ OrdinalsContinue
  BY DEF Orderly
<1>2. /\ boss.doing = "draining" /\ ~boss.shut
      /\ boss.then \in StopEffects \union {"shutdown"}
      /\ \A l \in boss.on : l = k
      /\ ~Started(k) /\ k \notin accepting.open
      /\ boss.then = "stopClosed" => bind[TargetOf(k)].state = "terminal"
  BY <1>1 DEF Stopped, EffectsAreOrderly, ShutdownIsOrderly
<1>3. /\ streams' \in StreamTables /\ streams'.pending = streams.pending
      /\ streams'.state = [streams.state EXCEPT ![k] = "absent"]
  BY <1>1, StateKept DEF Stopped, StreamStates
<1>4. /\ boss' \in Bosses /\ boss'.on = {} /\ boss'.shut = boss.shut
      /\ boss'.left = boss.left /\ boss'.then = boss.then
      /\ boss'.doing = IF boss.then = "shutdown" THEN "stopping" ELSE "nothing"
  BY <1>1 DEF Stopped, AdmissionTyped, Bosses
<1>5. UNCHANGED <<bind, task, accepting, failures>>
  BY DEF Stopped
<1>6. \/ UNCHANGED ordinals
      \/ /\ boss.then = "stopClosed"
         /\ ordinals' = [ordinals EXCEPT !.states[TargetOf(k)] = None]
  BY DEF Stopped, EndGeneration
<1>7. /\ TargetOf(k) \in CaptureTargets
      /\ None \in [generation : 0 .. MaxGeneration, last : Nat]
  BY KeyParts, AdmissionAssumption DEF None
<1>8. AdmissionTyped'
  <2>1. ordinals' \in Fences
    <3>1. CASE UNCHANGED ordinals BY <1>1, <3>1 DEF AdmissionTyped
    <3>2. CASE ordinals' = [ordinals EXCEPT !.states[TargetOf(k)] = None]
      <4>1. /\ ordinals' = [states |-> [ordinals.states EXCEPT ![TargetOf(k)] = None],
                            issued |-> ordinals.issued]
            /\ ordinals.issued \in Ordinals
        BY <1>1, <3>2 DEF AdmissionTyped, Fences
      <4>2. ordinals'.states \in Ordinals BY <1>1, <1>7, <4>1, FenceTyped
      <4> QED BY <4>1, <4>2 DEF Fences
    <3> QED BY <1>6, <3>1, <3>2
  <2> QED BY <1>1, <1>3, <1>4, <1>5, <2>1 DEF AdmissionTyped
<1>9. ReservationsAreHeld'
  BY <1>1, <1>2, <1>3, <1>4, <1>5, <1>6, <1>7 DEF ReservationsAreHeld, Reserving
<1>10. AcceptingIsHeld'
  BY <1>1, <1>2, <1>3, <1>5 DEF AcceptingIsHeld, Capturing, Active
<1>11. EffectsAreOrderly'
  BY <1>4 DEF EffectsAreOrderly
<1>12. ShutdownIsOrderly'
  BY <1>1, <1>2, <1>3, <1>4, <1>5 DEF ShutdownIsOrderly, Started, Registered, StreamTables
<1>13. OrdinalsContinue'
  <2>1. CASE UNCHANGED ordinals BY <1>1, <1>4, <1>5, <2>1 DEF OrdinalsContinue
  <2>2. CASE boss.then = "stopClosed" /\ ordinals' = [ordinals EXCEPT !.states[TargetOf(k)] = None]
    <3>1. /\ ordinals'.states[TargetOf(k)].generation = 0
          /\ \A t \in CaptureTargets : t # TargetOf(k) => ordinals'.states[t] = ordinals.states[t]
          /\ ordinals'.issued = ordinals.issued
      BY <1>1, <1>7, <2>2 DEF None, AdmissionTyped, Fences, Ordinals
    <3> QED BY <1>1, <1>2, <1>5, <2>2, <3>1 DEF OrdinalsContinue
  <2> QED BY <1>6, <2>1, <2>2
<1>14. OthersAreQuiet'
  BY <1>1 DEF Stopped, OthersAreQuiet, Bound, Started
<1> QED BY <1>8, <1>9, <1>10, <1>11, <1>12, <1>13, <1>14 DEF Orderly

LEMMA ReattachKeeps ==
    ASSUME Orderly, NEW t \in CaptureTargets, Reattach(t)
    PROVE Orderly'
<1>1. AdmissionTyped /\ ReservationsAreHeld /\ AcceptingIsHeld
      /\ OthersAreQuiet /\ EffectsAreOrderly /\ ShutdownIsOrderly /\ OrdinalsContinue
  BY DEF Orderly
<1>2. AdmissionTyped'
  BY <1>1, AdmissionAssumption DEF Reattach, AdmissionTyped, Idle, Bindings, Bosses, Tasks
<1>3. OthersAreQuiet'
  BY <1>1 DEF Reattach, OthersAreQuiet, Bound, Started
<1>4. EffectsAreOrderly'
  BY <1>1 DEF Reattach, EffectsAreOrderly, Idle, Effects
<1>5. OrdinalsContinue'
  BY <1>1 DEF Reattach, OrdinalsContinue, Idle, AdmissionTyped
<1>6. ReservationsAreHeld' /\ AcceptingIsHeld' /\ ShutdownIsOrderly'
  BY <1>1
     DEF Reattach, ReservationsAreHeld, AcceptingIsHeld, ShutdownIsOrderly, Reserving,
         Capturing, Started, Registered, Active
<1> QED BY <1>2, <1>3, <1>4, <1>5, <1>6 DEF Orderly

(* The shutdown.                                                            *)
LEMMA BeginShutdownKeeps ==
    ASSUME Orderly, BeginShutdown
    PROVE Orderly'
<1>1. AdmissionTyped /\ ReservationsAreHeld /\ AcceptingIsHeld
      /\ OthersAreQuiet /\ EffectsAreOrderly /\ ShutdownIsOrderly /\ OrdinalsContinue
  BY DEF Orderly
<1>2. AdmissionTyped'
  BY <1>1, AdmissionAssumption DEF BeginShutdown, AdmissionTyped, Idle, Bindings, Bosses, Tasks
<1>3. EffectsAreOrderly'
  BY <1>1 DEF BeginShutdown, EffectsAreOrderly, Idle, Effects
<1>4. ShutdownIsOrderly'
  BY <1>1 DEF BeginShutdown, ShutdownIsOrderly, Idle, Started
<1>5. OrdinalsContinue'
  BY <1>1 DEF BeginShutdown, OrdinalsContinue, Idle, AdmissionTyped
<1>6. ReservationsAreHeld' /\ AcceptingIsHeld' /\ OthersAreQuiet'
  BY <1>1
     DEF BeginShutdown, ReservationsAreHeld, AcceptingIsHeld, OthersAreQuiet, Reserving,
         Capturing, Bound, Started, Active
<1> QED BY <1>2, <1>3, <1>4, <1>5, <1>6 DEF Orderly

LEMMA AbortNextKeeps ==
    ASSUME Orderly, NEW k \in StreamKeys, AbortNext(k)
    PROVE Orderly'
<1>1. AdmissionTyped /\ ReservationsAreHeld /\ AcceptingIsHeld
      /\ OthersAreQuiet /\ EffectsAreOrderly /\ ShutdownIsOrderly /\ OrdinalsContinue
  BY DEF Orderly
<1>2. AdmissionTyped'
  BY <1>1, AdmissionAssumption
     DEF AbortNext, AdmissionTyped, Started, Abort, Bindings, Bosses, Tasks
<1>3. ReservationsAreHeld'
  BY <1>1 DEF AbortNext, ReservationsAreHeld, Abort, Reserving
<1>4. OthersAreQuiet'
  BY <1>1 DEF AbortNext, OthersAreQuiet, Started, Abort, Bound
<1>5. EffectsAreOrderly'
  BY <1>1 DEF AbortNext, EffectsAreOrderly, Started, Abort
<1>6. ShutdownIsOrderly'
  BY <1>1 DEF AbortNext, ShutdownIsOrderly, Started, Abort
<1>7. OrdinalsContinue'
  BY <1>1 DEF AbortNext, OrdinalsContinue, Started, Abort
<1>8. AcceptingIsHeld'
  BY <1>1 DEF AbortNext, AcceptingIsHeld, Capturing, Active
<1> QED BY <1>2, <1>3, <1>4, <1>5, <1>6, <1>7, <1>8 DEF Orderly

LEMMA AwaitedKeeps ==
    ASSUME Orderly, NEW k \in StreamKeys, Awaited(k)
    PROVE Orderly'
<1>1. AdmissionTyped /\ ReservationsAreHeld /\ AcceptingIsHeld
      /\ OthersAreQuiet /\ EffectsAreOrderly /\ ShutdownIsOrderly /\ OrdinalsContinue
  BY DEF Orderly
<1>2. AdmissionTyped'
  BY <1>1, AdmissionAssumption DEF Awaited, AdmissionTyped, Started, Bindings, Bosses, Tasks
<1>3. EffectsAreOrderly'
  BY <1>1 DEF Awaited, EffectsAreOrderly, Started, Effects
<1>4. ShutdownIsOrderly'
  BY <1>1 DEF Awaited, ShutdownIsOrderly, Started, Registered
<1>5. OrdinalsContinue'
  BY <1>1 DEF Awaited, OrdinalsContinue, Started, AdmissionTyped
<1>6. ReservationsAreHeld' /\ AcceptingIsHeld' /\ OthersAreQuiet'
  BY <1>1
     DEF Awaited, ReservationsAreHeld, AcceptingIsHeld, OthersAreQuiet, Reserving,
         Capturing, Bound, Started, Active
<1> QED BY <1>2, <1>3, <1>4, <1>5, <1>6 DEF Orderly

LEMMA ListStreamsKeeps ==
    ASSUME Orderly, ListStreams
    PROVE Orderly'
<1>1. AdmissionTyped /\ ReservationsAreHeld /\ AcceptingIsHeld
      /\ OthersAreQuiet /\ EffectsAreOrderly /\ ShutdownIsOrderly /\ OrdinalsContinue
  BY DEF Orderly
<1>2. AdmissionTyped'
  BY <1>1, AdmissionAssumption
     DEF ListStreams, AdmissionTyped, Started, Registered, Bindings, Bosses, Tasks
<1>3. EffectsAreOrderly'
  BY <1>1 DEF ListStreams, EffectsAreOrderly, Started, Registered
<1>4. ShutdownIsOrderly'
  BY <1>1 DEF ListStreams, ShutdownIsOrderly, Started, Registered
<1>5. OrdinalsContinue'
  BY <1>1 DEF ListStreams, OrdinalsContinue, Started, Registered
<1>6. ReservationsAreHeld' /\ AcceptingIsHeld' /\ OthersAreQuiet'
  BY <1>1
     DEF ListStreams, ReservationsAreHeld, AcceptingIsHeld, OthersAreQuiet, Reserving,
         Capturing, Bound, Started, Active
<1> QED BY <1>2, <1>3, <1>4, <1>5, <1>6 DEF Orderly

LEMMA StopNextKeeps ==
    ASSUME Orderly, NEW k \in StreamKeys, StopNext(k)
    PROVE Orderly'
<1>1. AdmissionTyped /\ ReservationsAreHeld /\ AcceptingIsHeld
      /\ OthersAreQuiet /\ EffectsAreOrderly /\ ShutdownIsOrderly /\ OrdinalsContinue
  BY DEF Orderly
<1>2. /\ boss.doing = "stopping" /\ boss.on = {} /\ boss.then = "shutdown" /\ ~boss.shut
      /\ \A l \in StreamKeys : ~Started(l)
      /\ Registered \subseteq boss.left
  BY <1>1 DEF StopNext, EffectsAreOrderly, ShutdownIsOrderly
<1>3. /\ boss' \in Bosses /\ boss'.on = {k} /\ boss'.left = boss.left \ {k}
      /\ boss'.doing = "draining" /\ boss'.then = boss.then /\ boss'.shut = boss.shut
  BY <1>1 DEF StopNext, AdmissionTyped, Bosses
<1>4. AdmissionTyped'
  BY <1>1, <1>2, <1>3, AdmissionAssumption
     DEF StopNext, AdmissionTyped, Drains, Bindings, Bosses, Tasks, StreamTables, Readers,
         StreamStates
<1>5. ReservationsAreHeld'
  BY <1>1, <1>2 DEF StopNext, ReservationsAreHeld, Drains, Reserving
<1>6. AcceptingIsHeld'
  BY <1>1, <1>2 DEF StopNext, AcceptingIsHeld, Drains, Capturing, Active
<1>7. OthersAreQuiet'
  BY <1>1, <1>2, <1>3 DEF StopNext, OthersAreQuiet, Drains, Bound, Started
<1>8. EffectsAreOrderly'
  <2>1. k \notin accepting'.open /\ UNCHANGED task
    BY <1>1 DEF StopNext, Drains
  <2> QED BY <1>2, <1>3, <2>1 DEF EffectsAreOrderly, Started
<1>9. ShutdownIsOrderly'
  <2>1. Registered' \subseteq Registered \union {k} /\ UNCHANGED task
    BY <1>1 DEF StopNext, Drains, Registered
  <2> QED BY <1>2, <1>3, <2>1 DEF ShutdownIsOrderly, Started
<1>10. OrdinalsContinue'
  BY <1>1, <1>2, <1>3 DEF StopNext, OrdinalsContinue
<1> QED BY <1>4, <1>5, <1>6, <1>7, <1>8, <1>9, <1>10 DEF Orderly

LEMMA ShutdownEndsKeeps ==
    ASSUME Orderly, ShutdownEnds
    PROVE Orderly'
<1>1. AdmissionTyped /\ ReservationsAreHeld /\ AcceptingIsHeld
      /\ OthersAreQuiet /\ EffectsAreOrderly /\ ShutdownIsOrderly /\ OrdinalsContinue
  BY DEF Orderly
<1>2. /\ boss' \in Bosses /\ boss'.doing = "nothing" /\ boss'.shut
  BY <1>1 DEF ShutdownEnds, AdmissionTyped, Bosses
<1>3. /\ ordinals'.states = [t \in CaptureTargets |-> None]
      /\ ordinals' \in Fences
  BY <1>1, AdmissionAssumption DEF ShutdownEnds, None, AdmissionTyped, Fences, Ordinals
<1>4. AdmissionTyped'
  <2>1. failures' \in FailureTables
    BY <1>1, AdmissionAssumption DEF ShutdownEnds, AdmissionTyped, FailureTables
  <2> QED BY <1>1, <1>2, <1>3, <2>1 DEF ShutdownEnds, AdmissionTyped
<1>5. EffectsAreOrderly'
  BY <1>2 DEF EffectsAreOrderly
<1>6. ShutdownIsOrderly'
  <2>1. Registered = {} /\ \A l \in StreamKeys : ~Started(l)
    BY <1>1 DEF ShutdownEnds, EffectsAreOrderly, ShutdownIsOrderly
  <2> QED BY <2>1 DEF ShutdownEnds, ShutdownIsOrderly, Registered, Started
<1>7. OrdinalsContinue'
  BY <1>2, <1>3 DEF OrdinalsContinue, None
<1>8. ReservationsAreHeld' /\ AcceptingIsHeld' /\ OthersAreQuiet'
  BY <1>1
     DEF ShutdownEnds, ReservationsAreHeld, AcceptingIsHeld, OthersAreQuiet, Reserving,
         Capturing, Bound, Started, Active
<1> QED BY <1>4, <1>5, <1>6, <1>7, <1>8 DEF Orderly
-------------------------------------------------------------------------------
(* The invariant holds.                                                     *)
LEMMA InitIsOrderly == AdmissionInit => Orderly
<1>1. SUFFICES ASSUME AdmissionInit PROVE Orderly
  OBVIOUS
<1>2. bind \in Bindings /\ boss \in Bosses /\ task \in Tasks
  BY <1>1, AdmissionAssumption DEF AdmissionInit, Bindings, Bosses, Tasks, TaskStates
<1>3. streams \in StreamTables /\ accepting \in Readers /\ failures \in FailureTables
  BY <1>1, AdmissionAssumption
     DEF AdmissionInit, StreamTables, StreamStates, Readers, FailureTables
<1>4. ordinals \in Fences
  BY <1>1, AdmissionAssumption DEF AdmissionInit, None, Fences, Ordinals
<1>5. ReservationsAreHeld /\ AcceptingIsHeld /\ OthersAreQuiet
  BY <1>1
     DEF AdmissionInit, ReservationsAreHeld, Reserving, AcceptingIsHeld, OthersAreQuiet,
         Started
<1>6. EffectsAreOrderly /\ ShutdownIsOrderly /\ OrdinalsContinue
  BY <1>1 DEF AdmissionInit, EffectsAreOrderly, ShutdownIsOrderly, OrdinalsContinue, None
<1> QED BY <1>2, <1>3, <1>4, <1>5, <1>6 DEF Orderly, AdmissionTyped

LEMMA StepIsOrderly == Orderly /\ [AdmissionNext]_admissionVars => Orderly'
<1>1. SUFFICES ASSUME Orderly, [AdmissionNext]_admissionVars PROVE Orderly'
  OBVIOUS
<1>2. CASE \E k \in StreamKeys : StartupStep(k)
  BY <1>1, <1>2, ObserveGeometryKeeps, AdmitKeeps, BeginGenerationKeeps, SubscribedKeeps,
     RegisterKeeps, RetainStreamsKeeps, StartupBreaksKeeps, StartupAbortedKeeps,
     StartupFailedKeeps
     DEF StartupStep, StartupProceeds
<1>3. CASE \E k \in StreamKeys : StreamMoves(k) \/ StreamFails(k) \/ Acknowledges(k)
                                   \/ Allocate(k) \/ LearnFailure(k)
  BY <1>1, <1>3, StreamMovesKeeps, StreamFailsKeeps, AcknowledgesKeeps, AllocateKeeps,
     LearnFailureKeeps
<1>4. CASE \E k \in StreamKeys : BossProceeds(k)
  BY <1>1, <1>4, RestartsKeeps, SuspendsKeeps, StopsKeeps, StoppedKeeps, AbortNextKeeps,
     AwaitedKeeps, StopNextKeeps
     DEF BossProceeds
<1>5. CASE \E t \in CaptureTargets : StartCapture(t) \/ Reattach(t)
  BY <1>1, <1>5, StartCaptureKeeps, ReattachKeeps
<1>6. CASE \E t \in CaptureTargets, effect \in StopEffects \union {"suspend", "restart"} :
             BeginEffect(t, effect)
  BY <1>1, <1>6, BeginEffectKeeps DEF Effects
<1>7. CASE BeginShutdown \/ ListStreams \/ ShutdownEnds
  BY <1>1, <1>7, BeginShutdownKeeps, ListStreamsKeeps, ShutdownEndsKeeps
<1>8. CASE UNCHANGED admissionVars
  BY <1>1, <1>8
     DEF admissionVars, Orderly, AdmissionTyped, ReservationsAreHeld, Reserving,
         AcceptingIsHeld, Capturing, Active, OthersAreQuiet, Bound, Started,
         EffectsAreOrderly, ShutdownIsOrderly, Registered, OrdinalsContinue
<1> QED BY <1>1, <1>2, <1>3, <1>4, <1>5, <1>6, <1>7, <1>8 DEF AdmissionNext
-------------------------------------------------------------------------------
(* How many streams hold a reservation or capture.                          *)

Holders == streams.pending \union Capturing

(* Reservations and capturing streams stay below the cap.                   *)
LEMMA KeysAreFinite == IsFiniteSet(StreamKeys)
<1>1. IsFiniteSet(1 .. MaxGeneration) BY AdmissionAssumption, FS_Interval
<1> QED BY <1>1, AdmissionAssumption, FS_Product DEF StreamKeys

LEMMA HoldersAreFinite ==
    ASSUME AdmissionTyped
    PROVE  /\ IsFiniteSet(Holders) /\ IsFiniteSet(Active) /\ IsFiniteSet(streams.pending)
           /\ Cardinality(Holders) \in Nat /\ Cardinality(Active) \in Nat
           /\ Cardinality(streams.pending) \in Nat
<1>1. /\ Holders \subseteq StreamKeys /\ Active \subseteq StreamKeys
      /\ streams.pending \subseteq StreamKeys
  BY DEF Holders, Capturing, Active, AdmissionTyped, StreamTables
<1> QED BY <1>1, KeysAreFinite, FS_Subset, FS_CardinalityType

\* The check of Admit counts every holder, some of them twice.
LEMMA AdmittedFits ==
    ASSUME AdmissionTyped, NEW k \in StreamKeys, Holders' = Holders \union {k},
           Cardinality(Active) + Cardinality(streams.pending) < MaxStreams
    PROVE  StreamsAreFew'
<1>1. /\ IsFiniteSet(Holders) /\ IsFiniteSet(Active) /\ IsFiniteSet(streams.pending)
      /\ Cardinality(Holders) \in Nat /\ Cardinality(Active) \in Nat
      /\ Cardinality(streams.pending) \in Nat
  BY HoldersAreFinite
<1>2. /\ IsFiniteSet(Active \union streams.pending)
      /\ Cardinality(Active \union streams.pending)
           = Cardinality(Active) + Cardinality(streams.pending)
               - Cardinality(Active \intersect streams.pending)
  BY <1>1, FS_Union
<1>3. Cardinality(Active \intersect streams.pending) \in Nat
  BY <1>1, FS_Intersection, FS_CardinalityType
<1>4. Cardinality(Holders) <= Cardinality(Active \union streams.pending)
  BY <1>2, FS_Subset DEF Holders, Capturing
<1>5. Cardinality(Holders) < MaxStreams
  BY <1>1, <1>2, <1>3, <1>4, AdmissionAssumption
<1>6. Cardinality(Holders \union {k}) <= Cardinality(Holders) + 1
  <2>1. Cardinality(Holders \union {k}) = IF k \in Holders THEN Cardinality(Holders)
                                          ELSE Cardinality(Holders) + 1
    BY <1>1, FS_AddElement, Zenon
  <2> QED BY <1>1, <2>1
<1>7. Cardinality(Holders') <= MaxStreams
  <2>1. Cardinality(Holders \union {k}) \in Nat BY <1>1, FS_AddElement, FS_CardinalityType
  <2> QED BY <1>1, <1>5, <1>6, <2>1, AdmissionAssumption
<1> QED BY <1>7 DEF StreamsAreFew, Holders

LEMMA FewerFit ==
    ASSUME AdmissionTyped, StreamsAreFew, Holders' \subseteq Holders
    PROVE  StreamsAreFew'
<1>1. IsFiniteSet(Holders) /\ Cardinality(Holders) \in Nat BY HoldersAreFinite
<1>2. Cardinality(Holders') \in Nat /\ Cardinality(Holders') <= Cardinality(Holders)
  BY <1>1, FS_Subset, FS_CardinalityType
<1> QED BY <1>1, <1>2, AdmissionAssumption DEF StreamsAreFew, Holders

\* Only the admission makes a new holder: the registration keeps one.
LEMMA StartupsHold ==
    ASSUME Orderly, StreamsAreFew, NEW k \in StreamKeys, StartupStep(k)
    PROVE  StreamsAreFew'
<1>1. AdmissionTyped /\ ReservationsAreHeld BY DEF Orderly
<1>2. CASE Admit(k)
  <2>1. CASE UNCHANGED streams
    BY <1>1, <2>1, FewerFit DEF Holders, Capturing, Active
  <2>2. CASE ~UNCHANGED streams
    <3>1. /\ streams' = [streams EXCEPT !.pending = @ \union {k}]
          /\ ~(Cardinality(Active) + Cardinality(streams.pending) >= MaxStreams)
      BY <1>2, <2>2 DEF Admit
    <3>2. Holders' = Holders \union {k}
      BY <1>1, <3>1 DEF Holders, Capturing, Active
    <3>3. Cardinality(Active) + Cardinality(streams.pending) < MaxStreams
      BY <1>1, <3>1, HoldersAreFinite, AdmissionAssumption
    <3> QED BY <1>1, <3>2, <3>3, AdmittedFits
  <2> QED BY <2>1, <2>2
<1>3. CASE BeginGeneration(k) \/ StartupBreaks(k) \/ StartupAborted(k)
  <2>1. Holders' \subseteq Holders
    BY <1>1, <1>3
       DEF BeginGeneration, StartupBreaks, StartupAborted, Release, Holders, Capturing,
           Active, AdmissionTyped, StreamTables
  <2> QED BY <1>1, <2>1, FewerFit
<1>4. CASE Register(k)
  <2>1. k \in streams.pending
    BY <1>1, <1>4 DEF Register, ReservationsAreHeld, Reserving
  <2>2. Holders' \subseteq Holders
    BY <1>4, <2>1 DEF Register, Holders, Capturing, Active
  <2> QED BY <1>1, <2>2, FewerFit
<1>5. CASE RetainStreams(k)
  <2>1. Holders' \subseteq Holders
    BY <1>5 DEF RetainStreams, Holders, Capturing, Active
  <2> QED BY <1>1, <2>1, FewerFit
<1>6. CASE ObserveGeometry(k) \/ Subscribed(k) \/ StartupFailed(k)
  BY <1>1, <1>6, FewerFit
     DEF ObserveGeometry, Subscribed, StartupFailed, Holders, Capturing, Active
<1> QED BY <1>2, <1>3, <1>4, <1>5, <1>6 DEF StartupStep, StartupProceeds

LEMMA StreamsHold ==
    ASSUME Orderly, NEW k \in StreamKeys,
           \/ StreamMoves(k) \/ StreamFails(k)
           \/ Suspends(k) \/ Stops(k) \/ Stopped(k) \/ StopNext(k)
    PROVE  Holders' \subseteq Holders
<1>1. AdmissionTyped BY DEF Orderly
<1>2. streams'.pending = streams.pending
  BY <1>1
     DEF StreamMoves, StreamFails, Suspends, Stops, Stopped, StopNext, Drains,
         AdmissionTyped, StreamTables
<1>3. \A l \in StreamKeys : l # k => streams'.state[l] = streams.state[l]
  BY <1>1
     DEF StreamMoves, StreamFails, Suspends, Stops, Stopped, StopNext, Drains,
         AdmissionTyped, StreamTables
<1>4. \/ streams.state[k] \in {"Capturing", "Hidden"}
      \/ streams'.state[k] \notin {"Capturing", "Hidden"}
  BY <1>1
     DEF StreamMoves, StreamFails, Suspends, Stops, Stopped, StopNext, Drains,
         AdmissionTyped, StreamTables
<1> QED BY <1>2, <1>3, <1>4 DEF Holders, Capturing, Active

LEMMA StepIsFew ==
    Orderly /\ StreamsAreFew /\ [AdmissionNext]_admissionVars => StreamsAreFew'
<1>1. SUFFICES ASSUME Orderly, StreamsAreFew, [AdmissionNext]_admissionVars PROVE StreamsAreFew'
  OBVIOUS
<1>2. AdmissionTyped BY <1>1 DEF Orderly
<1>3. CASE UNCHANGED streams
  BY <1>1, <1>2, <1>3, FewerFit DEF Holders, Capturing, Active
<1>4. CASE \E k \in StreamKeys : StartupStep(k) BY <1>1, <1>4, StartupsHold
<1>5. CASE \E k \in StreamKeys : \/ StreamMoves(k) \/ StreamFails(k)
                                 \/ Suspends(k) \/ Stops(k) \/ Stopped(k) \/ StopNext(k)
  BY <1>1, <1>2, <1>5, StreamsHold, FewerFit
<1>6. CASE \E k \in StreamKeys : Acknowledges(k) \/ Allocate(k) \/ LearnFailure(k)
                                   \/ Restarts(k) \/ AbortNext(k) \/ Awaited(k)
  BY <1>3, <1>6 DEF Acknowledges, Allocate, LearnFailure, Restarts, AbortNext, Awaited
<1>7. CASE \/ \E t \in CaptureTargets : StartCapture(t) \/ Reattach(t)
           \/ \E t \in CaptureTargets, effect \in StopEffects \union {"suspend", "restart"} :
                 BeginEffect(t, effect)
           \/ BeginShutdown \/ ListStreams \/ ShutdownEnds
  BY <1>3, <1>7
     DEF StartCapture, Reattach, BeginEffect, BeginShutdown, ListStreams, ShutdownEnds
<1>8. CASE UNCHANGED admissionVars BY <1>3, <1>8 DEF admissionVars
<1> QED BY <1>1, <1>4, <1>5, <1>6, <1>7, <1>8 DEF AdmissionNext, BossProceeds
-------------------------------------------------------------------------------
LEMMA CountedWhenOrderly == Orderly /\ StreamsAreFew => AcceptingStreamsAreCounted
<1>1. Orderly /\ StreamsAreFew => StreamsWithinTheCap
  BY DEF Orderly, AcceptingIsHeld, StreamsAreFew, StreamsWithinTheCap
<1>2. SUFFICES ASSUME Orderly, boss.shut PROVE accepting.open = {}
  BY <1>1 DEF AcceptingStreamsAreCounted, NothingStartsAfterShutdown, Orderly, ShutdownIsOrderly
<1>3. Registered = {} /\ \A k \in StreamKeys : ~Started(k)
  BY <1>2 DEF Orderly, ShutdownIsOrderly
<1>4. streams.pending = {}
  BY <1>2, <1>3 DEF Orderly, ReservationsAreHeld, Reserving, Started
<1> QED BY <1>2, <1>3, <1>4 DEF Orderly, AcceptingIsHeld, Capturing, Active, Registered

(* However startups race, are refused, cancelled, aborted or overtaken,     *)
(* every reader that accepts frames has its place among max_active_streams, *)
(* and none is left after a shutdown (admit, StartupTasks, StreamAdmission, *)
(* shutdown of the capture coordinator).                                    *)
THEOREM StreamsStayCounted == AdmissionSpec => []AcceptingStreamsAreCounted
<1>1. AdmissionInit => StreamsAreFew
  <2>1. AdmissionInit => streams.pending \union Capturing = {}
    BY DEF AdmissionInit, Capturing, Active
  <2> QED BY <2>1, FS_EmptySet, AdmissionAssumption DEF StreamsAreFew
<1> QED BY <1>1, InitIsOrderly, StepIsOrderly, StepIsFew, CountedWhenOrderly, PTL
           DEF AdmissionSpec

\* An ordinal is handed out by the fence, which holds the one before.
LEMMA AllocationIncreases ==
    ASSUME Orderly, NEW k \in StreamKeys, Allocate(k), NEW t \in CaptureTargets,
           ordinals'.issued[t] # ordinals.issued[t]
    PROVE  /\ ordinals'.issued[t].last > ordinals.issued[t].last
           /\ ordinals'.issued[t].generation >= ordinals.issued[t].generation
<1>1. AdmissionTyped /\ OrdinalsContinue BY DEF Orderly
<1>2. /\ TargetOf(k) \in CaptureTargets /\ GenerationOf(k) \in Nat \ {0}
      /\ ordinals.states[TargetOf(k)] \in [generation : 0 .. MaxGeneration, last : Nat]
      /\ ordinals.issued \in Ordinals
  BY <1>1, KeyParts DEF AdmissionTyped, Fences, Ordinals
<1>3. /\ ordinals.states[TargetOf(k)].generation = GenerationOf(k)
      /\ ordinals'.issued = [ordinals.issued EXCEPT ![TargetOf(k)] =
                               [ordinals.states[TargetOf(k)] EXCEPT !.last = @ + 1]]
  BY DEF Allocate
<1>4. t = TargetOf(k) BY <1>2, <1>3 DEF Ordinals
<1>5. /\ ordinals'.issued[t].last = ordinals.states[t].last + 1
      /\ ordinals'.issued[t].generation = ordinals.states[t].generation
  BY <1>2, <1>3, <1>4
<1>6. /\ ordinals.issued[t].last = ordinals.states[t].last
      /\ ordinals.issued[t].generation <= ordinals.states[t].generation
  BY <1>1, <1>2, <1>3 DEF OrdinalsContinue
<1> QED BY <1>2, <1>4, <1>5, <1>6

LEMMA StepIncreases ==
    ASSUME Orderly, [AdmissionNext]_admissionVars, NEW t \in CaptureTargets,
           ordinals'.issued[t] # ordinals.issued[t]
    PROVE  /\ ordinals'.issued[t].last > ordinals.issued[t].last
           /\ ordinals'.issued[t].generation >= ordinals.issued[t].generation
<1>1. CASE \E k \in StreamKeys : Allocate(k) BY <1>1, AllocationIncreases
<1>2. CASE UNCHANGED ordinals BY <1>2
<1>3. CASE \E k \in StreamKeys : BeginGeneration(k) \/ Stopped(k)
  BY <1>3 DEF BeginGeneration, Stopped, EndGeneration, Orderly, AdmissionTyped, Fences
<1>4. CASE ShutdownEnds BY <1>4 DEF ShutdownEnds, Orderly
<1>5. CASE \E k \in StreamKeys :
             \/ Admit(k) \/ RetainStreams(k) \/ StartupAborted(k) \/ StartupFailed(k)
             \/ ObserveGeometry(k) \/ Subscribed(k) \/ Register(k) \/ StartupBreaks(k)
             \/ StreamMoves(k) \/ StreamFails(k) \/ Acknowledges(k) \/ LearnFailure(k)
             \/ Restarts(k) \/ Suspends(k) \/ Stops(k) \/ AbortNext(k) \/ Awaited(k) \/ StopNext(k)
  BY <1>2, <1>5
     DEF Admit, RetainStreams, StartupAborted, StartupFailed, ObserveGeometry, Subscribed,
         Register, StartupBreaks, StreamMoves, StreamFails, Acknowledges, LearnFailure,
         Restarts, Suspends, Stops, AbortNext, Awaited, StopNext
<1>6. CASE \/ \E u \in CaptureTargets : StartCapture(u) \/ Reattach(u)
           \/ \E u \in CaptureTargets, effect \in StopEffects \union {"suspend", "restart"} :
                 BeginEffect(u, effect)
           \/ BeginShutdown \/ ListStreams
  BY <1>6 DEF StartCapture, Reattach, BeginEffect, BeginShutdown, ListStreams
<1>7. CASE UNCHANGED admissionVars BY <1>2, <1>7 DEF admissionVars
<1> QED BY <1>1, <1>3, <1>4, <1>5, <1>6, <1>7
           DEF AdmissionNext, StartupStep, StartupProceeds, BossProceeds

(* The ordinals of a target increase over its attachment generations, also  *)
(* when a reader of an older one is still numbering a frame (allocate,      *)
(* begin_generation, end_generation).                                       *)
THEOREM OrdinalsKeepIncreasing == AdmissionSpec => OrdinalsIncrease
<1>1. Orderly /\ [AdmissionNext]_admissionVars =>
        [\A t \in CaptureTargets :
            LET old == ordinals.issued[t]
                new == ordinals'.issued[t]
            IN  new # old => new.last > old.last /\ new.generation >= old.generation]_admissionVars
  BY StepIncreases
<1> QED BY <1>1, InitIsOrderly, StepIsOrderly, PTL DEF AdmissionSpec, OrdinalsIncrease
==============================================================================
