------------------------ MODULE TargetSupervisorProofs ------------------------
(***************************************************************************)
(* What the supervisor knows of its targets, for any number of target      *)
(* keys, any limits, any pages at the start and any number of navigations, *)
(* lost connections, failures and operations: every structure has its      *)
(* type, a live target's session is in the map of sessions, an entry of    *)
(* the map leads to the page its session was handed out for, and the       *)
(* selection of a ready session can be used.                               *)
(*                                                                         *)
(* The reducer is proved first, operator by operator: each keeps Books.    *)
(* ReduceIsLawful collects them for every input, and IInv says what the    *)
(* reducer's callers keep: the queues, the effects that are being applied  *)
(* and the draft of a reconnect name only sessions the browser has handed  *)
(* out for the page they are said to belong to.                            *)
(***************************************************************************)
EXTENDS TargetSupervisor, WellFoundedInduction, FiniteSetTheorems, SequenceTheorems, TLAPS

-------------------------------------------------------------------------------
(* Kinds of states and effects; least numbers; a turn after a turn. *)

\* The fields of a state. The ends of these sets are what the fields may hold, whatever the input.
Lifecycles ==
    {"absent", "Discovered", "Attached", "Recording", "Hidden", "Suspended", "Closed", "Failed"}
Priors == {"none", "Discovered", "Attached", "Recording", "Hidden"}
Phases == {"Connecting", "Ready", "Reconnecting", "Stopping", "Ended"}
Visibilities == {"Unknown", "Visible", "Hidden"}
Contexts == [id : Nat, gen : Nat, att : Nat, session : Nat]
Bindings == [kind : {"Inactive", "Active", "Suspended", "Unavailable", "Terminal"}, ctx : Contexts]
TargetRecords ==
    [lc : Lifecycles, id : Nat, session : Nat, prior : Priors, att : Nat, seen : Visibilities,
     stamp : Nat, binding : Bindings, override : BOOLEAN]
States ==
    [phase : Phases, gen : Nat, targets : [Keys -> TargetRecords], owner : SUBSET (Nat \X Keys),
     pending : Seq([key : Keys, session : Nat]), selected : Keys \cup {0}, nextId : Nat]
\* What an effect says.
EffectRecords ==
    [op : {"Attach", "Detach", "RestoreDomains", "RestoreViewport", "Probe", "Start", "Resume",
           "Suspend", "Stop", "BeginReconnect", "Shutdown"},
     key : Keys \cup {0}, session : Nat, ctx : Contexts]
\* An effect that names a target names one of the targets.
Addressed(e) == e.op \in {"Attach", "RestoreDomains", "RestoreViewport", "Probe"} => e.key \in Keys
Effects == {e \in EffectRecords : Addressed(e)}
\* A reduction under way: its state, its effects so far, and whether it was rejected.
Reductions == [s : States, fx : Seq(Effects), ok : BOOLEAN]

\* A set of numbers that is not empty has a least member.
LEMMA LeastExists ==
    ASSUME NEW S \in SUBSET Nat, S # {}
    PROVE  \E m \in S : \A n \in S : m <= n
<1> DEFINE less == {pair \in Nat \X Nat : pair[1] < pair[2]}
<1>1. IsWellFoundedOn(less, Nat) BY NatLessThanWellFounded DEF OpToRel
<1>2. PICK m \in S : \A n \in S : <<n, m>> \notin less
  <2> HIDE DEF less
  <2> QED BY <1>1, WFMin
<1>3. \A n \in S : ~(n < m) BY <1>2
<1> QED BY <1>3

\* What holds at first and is kept by every turn holds in the end.
LEMMA EveryTurnKeeps ==
    ASSUME NEW last \in Nat, NEW Good, NEW f, f[0] \in Good[0],
           \A n \in 1 .. last : f[n - 1] \in Good[n - 1] => f[n] \in Good[n]
    PROVE  \A n \in 0 .. last : f[n] \in Good[n]
<1> DEFINE bad == {n \in 0 .. last : f[n] \notin Good[n]}
<1> SUFFICES ASSUME bad # {} PROVE FALSE OBVIOUS
<1>1. PICK n \in bad : \A m \in bad : n <= m
  <2>1. bad \in SUBSET Nat OBVIOUS
  <2> HIDE DEF bad
  <2> QED BY <2>1, LeastExists
<1>2. n \in 1 .. last /\ n - 1 \notin bad BY <1>1
<1> QED BY <1>1, <1>2

\* g is the course of the turns: g[n] is what is left after n of them.
Taken(g, S, last, r, turn) ==
    /\ g \in [0 .. last -> S] /\ g[0] = r
    /\ \A n \in 1 .. last : g[n] = turn[<<g[n - 1], n>>]

Takes(S, last, r, turn) == last \in Nat /\ r \in S /\ turn \in [S \X Nat -> S]

\* The turns of a total function, one after the other, exist.
LEMMA TurnsExist ==
    ASSUME NEW S, NEW last, NEW r, NEW turn, Takes(S, last, r, turn)
    PROVE  \E g : Taken(g, S, last, r, turn)
<1>0. last \in Nat /\ r \in S /\ turn \in [S \X Nat -> S] BY DEF Takes
<1> DEFINE Runs(g, m) == \A n \in 0 .. m : g[n] = (IF n = 0 THEN r ELSE turn[<<g[n - 1], n>>])
           without == {m \in 0 .. last : ~\E g \in [0 .. m -> S] : Runs(g, m)}
<1>1. without = {}
  <2> SUFFICES ASSUME without # {} PROVE FALSE OBVIOUS
  <2>1. PICK m \in without : \A n \in without : m <= n
    <3>1. without \in SUBSET Nat BY <1>0
    <3> HIDE DEF without
    <3> QED BY <1>0, <3>1, LeastExists
  <2>2. m # 0
    <3>1. [n \in 0 .. 0 |-> r] \in [0 .. 0 -> S] /\ Runs([n \in 0 .. 0 |-> r], 0) BY <1>0
    <3> QED BY <1>0, <2>1, <3>1
  <2>3. PICK g \in [0 .. m - 1 -> S] : Runs(g, m - 1)
    <3>1. m \in 0 .. last /\ m - 1 \in 0 .. last BY <1>0, <2>1, <2>2
    <3>2. m - 1 \notin without
      <4> HIDE DEF without
      <4> QED BY <1>0, <2>1, <3>1
    <3> QED BY <1>0, <3>1, <3>2
  <2> DEFINE h == [n \in 0 .. m |-> IF n = m THEN turn[<<g[m - 1], m>>] ELSE g[n]]
  <2>4. h \in [0 .. m -> S]
    <3>1. g[m - 1] \in S /\ m \in 1 .. last BY <1>0, <2>1, <2>2, <2>3
    <3> QED BY <1>0, <2>3, <3>1
  <2>5. Runs(h, m)
    <3> SUFFICES ASSUME NEW n \in 0 .. m
                 PROVE  h[n] = (IF n = 0 THEN r ELSE turn[<<h[n - 1], n>>])
      OBVIOUS
    <3>1. CASE n = m
      <4>1. n # 0 /\ h[n] = turn[<<g[m - 1], m>>] BY <1>0, <2>1, <2>2, <3>1
      <4>2. h[n - 1] = g[m - 1] BY <1>0, <2>1, <2>2, <3>1
      <4> QED BY <1>0, <3>1, <4>1, <4>2
    <3>2. CASE n # m
      <4>1. n \in 0 .. m - 1 /\ h[n] = g[n] BY <1>0, <2>1, <3>2
      <4>2. n # 0 => h[n - 1] = g[n - 1] BY <1>0, <2>1, <4>1
      <4> QED BY <1>0, <2>3, <4>1, <4>2
    <3> QED BY <1>0, <3>1, <3>2
  <2> QED BY <1>0, <2>1, <2>4, <2>5
<1>2. PICK g \in [0 .. last -> S] : Runs(g, last)
  <2>1. last \in 0 .. last BY <1>0
  <2> QED BY <1>1, <2>1
<1>3. \A n \in 0 .. last : g[n] = (IF n = 0 THEN r ELSE turn[<<g[n - 1], n>>]) BY <1>2
<1>4. g[0] = r
  <2>1. 0 \in 0 .. last BY <1>0
  <2> QED BY <1>3, <2>1
<1>5. ASSUME NEW n \in 1 .. last PROVE g[n] = turn[<<g[n - 1], n>>]
  <2>1. n \in 0 .. last /\ n # 0 OBVIOUS
  <2> QED BY <1>3, <2>1
<1> QED BY <1>2, <1>4, <1>5 DEF Taken

-------------------------------------------------------------------------------
(* What the supervisor knows of its targets, and its smallest changes. *)

\* A session the browser handed out for a page.
Of(ss, s, k) == s \in DOMAIN ss /\ ss[s].key = k

\* The sessions attach may leave waiting for their page: each was handed out for it.
Waiting(ss) == {p \in [key : Keys, session : Nat] : Of(ss, p.session, p.key)}

\* Every session that is named was handed out for the page it is named with: by a target,
\* by target_key_by_session and by the sessions that wait.
Homes(s, ss) ==
    /\ \A k \in Keys : s.targets[k].session # 0 =>
                          Known(s.targets[k]) /\ Of(ss, s.targets[k].session, k)
    /\ \A o \in s.owner : Of(ss, o[1], o[2])
    /\ s.pending \in Seq(Waiting(ss))

\* The end of a live target's session finds the target.
Mapped(s) ==
    \A k \in Keys : Alive(s.targets[k]) /\ s.targets[k].session # 0 =>
                       <<s.targets[k].session, k>> \in s.owner

\* The selection is empty or can be used.
Selects(s) == s.selected = 0 \/ Candidate(s, s.selected)

\* What a reduction keeps, at each of its steps.
Books(s, ss) ==
    s \in States /\ Homes(s, ss) /\ Mapped(s) /\ (s.phase = "Ready" => Selects(s))

\* No reconnect follows the application of these effects.
NoReconnect(fx) == fx \in Seq({e \in Effects : e.op # "BeginReconnect"})

\* From r to q nothing the supervisor knows is lost, the phase stays, and no reconnect begins.
Keeps(r, q, ss) ==
    /\ q \in Reductions /\ Books(q.s, ss) /\ q.s.phase = r.s.phase
    /\ NoReconnect(r.fx) => NoReconnect(q.fx)

\* The sessions handed out so far: a session is its place in this list.
SessionLists == Seq([key : Keys, live : BOOLEAN])

\* The keys are numbers, and none of them is 0.
LEMMA KeysAreNumbers ==
    /\ LastKey \in Nat \ {0} /\ Keys = 1 .. LastKey /\ Keys \subseteq Nat \ {0} /\ 0 \notin Keys
    /\ MaxPending \in Nat \ {0}
BY SupervisorAssumption DEF Keys

\* Min of a set of numbers is one of them.
LEMMA MinIsOne ==
    ASSUME NEW S \in SUBSET Nat, S # {}
    PROVE  Min(S) \in S
<1>1. \E m \in S : \A n \in S : m <= n BY LeastExists
<1> QED BY <1>1 DEF Min

\* The least of some keys is a key.
LEMMA LeastKey ==
    ASSUME NEW S \in SUBSET Keys, S # {}
    PROVE  Min(S) \in S /\ Min(S) \in Keys
<1>1. S \in SUBSET Nat BY KeysAreNumbers
<1>2. Min(S) \in S BY <1>1, MinIsOne
<1> QED BY <1>2

\* No context, no binding and an unknown target are of their kinds.
LEMMA NothingIsTyped ==
    /\ NoContext \in Contexts /\ NoBinding \in Bindings /\ Unknown \in TargetRecords
    /\ Unavailable \in Bindings /\ ~Known(Unknown) /\ Unknown.session = 0
BY DEF NoContext, NoBinding, Unknown, Unavailable, Contexts, Bindings, TargetRecords, Lifecycles,
       Priors, Visibilities, Known

\* Move changes the lifecycle of one target at most.
Moved(r, q, k, to) ==
    /\ q.fx = r.fx /\ q.s.phase = r.s.phase /\ q.s.gen = r.s.gen /\ q.s.owner = r.s.owner
    /\ q.s.pending = r.s.pending /\ q.s.selected = r.s.selected /\ q.s.nextId = r.s.nextId
    /\ \A j \in Keys \ {k} : q.s.targets[j] = r.s.targets[j]
    /\ q.s.targets[k].lc \in {r.s.targets[k].lc, to}
    /\ q.s.targets[k].session = r.s.targets[k].session
    /\ q.s.targets[k].seen = r.s.targets[k].seen

\* transition: a target moves where CanMove lets it, and stays otherwise.
LEMMA MoveKeeps ==
    ASSUME NEW r \in Reductions, NEW k \in Keys, NEW to \in Lifecycles
    PROVE  Move(r, k, to) \in Reductions /\ Moved(r, Move(r, k, to), k, to)
<1>1. CASE CanMove(r.s.targets[k].lc, to)
  <2> DEFINE t == [r.s.targets[k] EXCEPT !.lc = to]
             s == [r.s EXCEPT !.targets = [r.s.targets EXCEPT ![k] = t]]
  <2>0. r.s.targets[k] \in TargetRecords BY DEF Reductions, States
  <2>1. t \in TargetRecords /\ t.lc = to /\ t.session = r.s.targets[k].session
        /\ t.seen = r.s.targets[k].seen
    BY <2>0 DEF TargetRecords
  <2> HIDE DEF t
  <2>2. /\ s \in States /\ s.targets = [r.s.targets EXCEPT ![k] = t]
        /\ s.phase = r.s.phase /\ s.gen = r.s.gen /\ s.owner = r.s.owner
        /\ s.pending = r.s.pending /\ s.selected = r.s.selected /\ s.nextId = r.s.nextId
    BY <2>1 DEF Reductions, States
  <2>3. Move(r, k, to) = [r EXCEPT !.s = s] BY <1>1 DEF Move, t
  <2> HIDE DEF s
  <2>4. s.targets[k] = t /\ \A j \in Keys \ {k} : s.targets[j] = r.s.targets[j]
    BY <2>2 DEF Reductions, States
  <2> QED BY <2>1, <2>2, <2>3, <2>4 DEF Reductions, Moved
<1>2. CASE ~CanMove(r.s.targets[k].lc, to)
  <2>1. Move(r, k, to) = [r EXCEPT !.ok = FALSE] BY <1>2 DEF Move, Rejected
  <2> QED BY <2>1 DEF Reductions, Moved
<1> QED BY <1>1, <1>2

\* ReconcileSelection changes the selection only, and what it selects can be used.
Reselected(r, q) ==
    /\ q.fx = r.fx /\ q.s.phase = r.s.phase /\ q.s.gen = r.s.gen /\ q.s.owner = r.s.owner
    /\ q.s.pending = r.s.pending /\ q.s.targets = r.s.targets /\ q.s.nextId = r.s.nextId
    /\ Selects(q.s)

\* reconcile_selection keeps a selection that can be used, or takes the least such target.
LEMMA SelectionIsReconciled ==
    ASSUME NEW r \in Reductions
    PROVE  ReconcileSelection(r) \in Reductions /\ Reselected(r, ReconcileSelection(r))
<1> DEFINE able == {k \in Keys : Candidate(r.s, k)}
           one == IF able = {} THEN 0 ELSE Min(able)
<1>1. CASE r.s.selected \in able
  <2>1. ReconcileSelection(r) = r BY <1>1 DEF ReconcileSelection
  <2> QED BY <1>1, <2>1 DEF Reselected, Selects
<1>2. CASE r.s.selected \notin able
  <2>1. ReconcileSelection(r) = [r EXCEPT !.s = [r.s EXCEPT !.selected = one]]
    BY <1>2 DEF ReconcileSelection
  <2>2. one = 0 \/ one \in able
    <3>1. able \in SUBSET Keys OBVIOUS
    <3> HIDE DEF able
    <3> QED BY <3>1, LeastKey
  <2>3. one \in Keys \cup {0} BY <2>2
  <2>4. one # 0 => Candidate(r.s, one) BY <2>2
  <2> HIDE DEF able, one
  <2> DEFINE s == [r.s EXCEPT !.selected = one]
  <2>5. s \in States /\ s.selected = one /\ s.targets = r.s.targets BY <2>3 DEF Reductions, States
  <2>6. Selects(s) BY <2>4, <2>5 DEF Selects, Candidate
  <2>7. /\ s.phase = r.s.phase /\ s.gen = r.s.gen /\ s.owner = r.s.owner
        /\ s.pending = r.s.pending /\ s.nextId = r.s.nextId
    BY DEF Reductions, States
  <2> HIDE DEF s
  <2> QED BY <2>1, <2>5, <2>6, <2>7 DEF Reductions, Reselected, s
<1> QED BY <1>1, <1>2

\* An effect is appended, the state stays.
LEMMA EmitKeeps ==
    ASSUME NEW r \in Reductions, NEW e \in Effects
    PROVE  /\ Emit(r, e) \in Reductions /\ Emit(r, e).s = r.s /\ Emit(r, e).fx = Append(r.fx, e)
           /\ (NoReconnect(r.fx) /\ e.op # "BeginReconnect") => NoReconnect(Emit(r, e).fx)
BY DEF Emit, Reductions, NoReconnect

\* What is taken out of a sequence leaves a sequence of the rest.
LEMMA RemovalStays ==
    ASSUME NEW S, NEW q \in Seq(S), NEW i \in 1 .. Len(q)
    PROVE  RemoveAt(q, i) \in Seq(S)
<1>1. \A n \in 1 .. i - 1 : q[n] \in S OBVIOUS
<1>2. \A n \in i + 1 .. Len(q) : q[n] \in S OBVIOUS
<1>3. SubSeq(q, 1, i - 1) \in Seq(S) /\ SubSeq(q, i + 1, Len(q)) \in Seq(S)
  BY <1>1, <1>2, SubSeqProperties
<1> QED BY <1>3, ConcatProperties DEF RemoveAt

\* What is put in between leaves a sequence of the same kind.
LEMMA InsertionStays ==
    ASSUME NEW S, NEW q \in Seq(S), NEW i \in 1 .. Len(q), NEW e \in S
    PROVE  InsertAt(q, i, e) \in Seq(S)
<1>1. \A n \in 1 .. i - 1 : q[n] \in S OBVIOUS
<1>2. \A n \in i .. Len(q) : q[n] \in S OBVIOUS
<1>3. SubSeq(q, 1, i - 1) \in Seq(S) /\ SubSeq(q, i, Len(q)) \in Seq(S)
  BY <1>1, <1>2, SubSeqProperties
<1>4. <<e>> \in Seq(S) OBVIOUS
<1>5. SubSeq(q, 1, i - 1) \o <<e>> \in Seq(S) BY <1>3, <1>4, ConcatProperties
<1> QED BY <1>3, <1>5, ConcatProperties DEF InsertAt

\* What is taken out of the waiting sessions leaves the others.
Dropped(s, z) ==
    /\ z.targets = s.targets /\ z.owner = s.owner /\ z.phase = s.phase /\ z.gen = s.gen
    /\ z.selected = s.selected /\ z.nextId = s.nextId

\* pending_attached_sessions: what waited for a page is taken out.
LEMMA DropKeeps ==
    ASSUME NEW s \in States, NEW held \in SUBSET DOMAIN s.pending, NEW ss, Homes(s, ss)
    PROVE  /\ DropPending(s, held) \in States /\ Homes(DropPending(s, held), ss)
           /\ Dropped(s, DropPending(s, held))
<1>1. CASE held = {} BY <1>1 DEF DropPending, Dropped
<1>2. CASE held # {}
  <2> DEFINE i == Min(held)
             p == RemoveAt(s.pending, i)
  <2>1. s.pending \in Seq([key : Keys, session : Nat]) /\ s.pending \in Seq(Waiting(ss))
    BY DEF States, Homes
  <2>2. i \in 1 .. Len(s.pending)
    <3>1. held \in SUBSET Nat /\ DOMAIN s.pending = 1 .. Len(s.pending) BY <2>1
    <3>2. i \in held BY <1>2, <3>1, MinIsOne
    <3> QED BY <3>1, <3>2
  <2>4. DropPending(s, held) = [s EXCEPT !.pending = p] BY <1>2 DEF DropPending
  <2> HIDE DEF i
  <2>5. p \in Seq([key : Keys, session : Nat]) /\ p \in Seq(Waiting(ss))
    BY <2>1, <2>2, RemovalStays
  <2> HIDE DEF p
  <2> DEFINE z == [s EXCEPT !.pending = p]
  <2>6. z \in States /\ z.pending = p /\ Dropped(s, z) BY <2>5 DEF States, Dropped
  <2>7. DropPending(s, held) = z BY <2>4
  <2> HIDE DEF z
  <2>8. Homes(z, ss) BY <2>5, <2>6 DEF Homes, Dropped
  <2> QED BY <2>6, <2>7, <2>8
<1> QED BY <1>1, <1>2

\* The effects of an input that does not lose the connection.
PlainEffects == {e \in Effects : e.op # "BeginReconnect"}

\* A session that was handed out is a number, and its page has a key.
LEMMA SessionsAreNumbers ==
    ASSUME NEW ss \in SessionLists, NEW s, NEW k, Of(ss, s, k)
    PROVE  s \in Nat /\ s # 0 /\ s \in 1 .. Len(ss) /\ k \in Keys
<1>1. ss \in Seq([key : Keys, live : BOOLEAN]) BY DEF SessionLists
<1>2. s \in 1 .. Len(ss) BY <1>1 DEF Of
<1>3. ss[s] \in [key : Keys, live : BOOLEAN] BY <1>1, <1>2, ElementOfSeq
<1> QED BY <1>1, <1>2, <1>3 DEF Of

\* A sequence of some kind is a sequence of every wider kind.
LEMMA WiderSequence ==
    ASSUME NEW S, NEW T, S \subseteq T, NEW q \in Seq(S)
    PROVE  q \in Seq(T)
<1>1. \A n \in 1 .. Len(q) : q[n] \in T OBVIOUS
<1> QED BY <1>1

\* A session belongs to one page.
LEMMA OnePage ==
    ASSUME NEW ss, NEW s, NEW j, NEW k, Of(ss, s, j), Of(ss, s, k)
    PROVE  j = k
BY DEF Of

\* The detach of a surplus session is an effect of its kind.
LEMMA DetachIsTyped ==
    ASSUME NEW s \in Nat
    PROVE  Detach(s) \in PlainEffects /\ Detach(s) \in Effects /\ Detach(s).op = "Detach"
BY NothingIsTyped DEF Detach, Effect, Effects, EffectRecords, PlainEffects, Addressed

\* Two lists of effects, one after the other.
LEMMA EffectsJoin ==
    ASSUME NEW fx \in Seq(Effects), NEW more \in Seq(PlainEffects)
    PROVE  fx \o more \in Seq(Effects) /\ (NoReconnect(fx) => NoReconnect(fx \o more))
<1>1. PlainEffects \subseteq Effects BY DEF PlainEffects
<1>2. more \in Seq(Effects) BY <1>1, WiderSequence
<1>3. fx \o more \in Seq(Effects) BY <1>2, ConcatProperties
<1>4. NoReconnect(fx) => fx \o more \in Seq(PlainEffects)
  BY ConcatProperties DEF NoReconnect, PlainEffects
<1> QED BY <1>3, <1>4 DEF NoReconnect, PlainEffects

\* A session that waits for its page joins the others; the oldest makes room and is detached.
LEMMA PendKeeps ==
    ASSUME NEW ss \in SessionLists, NEW r \in Reductions, Books(r.s, ss), NEW k \in Keys,
           NEW s \in Nat, Of(ss, s, k)
    PROVE  Keeps(r, Pend(r, k, s), ss)
<1> DEFINE held == PendingOf(r.s, k)
           next == IF held = {} THEN Append(r.s.pending, [key |-> k, session |-> s])
                   ELSE [r.s.pending EXCEPT ![Min(held)].session = s]
           over == IF Len(next) > MaxPending THEN Len(next) - MaxPending ELSE 0
           left == SubSeq(next, over + 1, Len(next))
           a == IF held = {} THEN <<>> ELSE <<Detach(r.s.pending[Min(held)].session)>>
           b == [i \in 1 .. over |-> Detach(next[i].session)]
<1>1. r.s \in States /\ r.s.pending \in Seq(Waiting(ss))
      /\ r.s.pending \in Seq([key : Keys, session : Nat])
  BY DEF Books, Homes, States
<1>2. held # {} => /\ Min(held) \in 1 .. Len(r.s.pending)
                   /\ r.s.pending[Min(held)].key = k
                   /\ r.s.pending[Min(held)] \in [key : Keys, session : Nat]
  <2> SUFFICES ASSUME held # {} PROVE /\ Min(held) \in 1 .. Len(r.s.pending)
                                      /\ r.s.pending[Min(held)].key = k
    <3> DEFINE i == Min(held)
    <3> HIDE DEF i
    <3>1. i \in 1 .. Len(r.s.pending) => r.s.pending[i] \in [key : Keys, session : Nat] BY <1>1, ElementOfSeq
    <3> QED BY <3>1 DEF i
  <2>1. held \in SUBSET Nat BY <1>1 DEF PendingOf
  <2>2. Min(held) \in held BY <2>1, MinIsOne
  <2> QED BY <1>1, <2>2 DEF PendingOf
<1>3. next \in Seq(Waiting(ss))
  <2>1. CASE held = {}
    <3>1. [key |-> k, session |-> s] \in Waiting(ss) BY DEF Waiting
    <3> QED BY <1>1, <2>1, <3>1
  <2>2. CASE held # {}
    <3> DEFINE i == Min(held)
    <3>1. /\ i \in 1 .. Len(r.s.pending) /\ r.s.pending[i].key = k
          /\ r.s.pending[i] \in [key : Keys, session : Nat]
      BY <1>2, <2>2
    <3>2. next = [r.s.pending EXCEPT ![i] = [r.s.pending[i] EXCEPT !.session = s]] BY <2>2
    <3> HIDE DEF i, next
    <3>3. [r.s.pending[i] EXCEPT !.session = s] \in Waiting(ss) BY <3>1 DEF Waiting
    <3> QED BY <1>1, <3>1, <3>2, <3>3
  <2> QED BY <2>1, <2>2
<1>4. a \in Seq(PlainEffects)
  <2>1. held # {} => Detach(r.s.pending[Min(held)].session) \in PlainEffects
    <3> SUFFICES ASSUME held # {} PROVE r.s.pending[Min(held)].session \in Nat BY DetachIsTyped
    <3> QED BY <1>2
  <2> QED BY <2>1
<1> HIDE DEF held, next
<1>5. Len(next) \in Nat /\ over \in Nat /\ over <= Len(next) BY <1>3, KeysAreNumbers
<1>6. left \in Seq(Waiting(ss))
  <2>1. \A n \in over + 1 .. Len(next) : next[n] \in Waiting(ss) BY <1>3, <1>5
  <2> HIDE DEF over
  <2> QED BY <1>5, <2>1, SubSeqProperties
<1>7. b \in Seq(PlainEffects)
  <2> HIDE DEF over
  <2>1. \A i \in 1 .. over : next[i].session \in Nat BY <1>3, <1>5 DEF Waiting
  <2>2. \A i \in 1 .. over : Detach(next[i].session) \in PlainEffects BY <2>1, DetachIsTyped
  <2> QED BY <1>5, <2>2
<1>8. left \in Seq([key : Keys, session : Nat])
  <2> HIDE DEF left
  <2>1. Waiting(ss) \subseteq [key : Keys, session : Nat] BY DEF Waiting
  <2> QED BY <1>6, <2>1, WiderSequence
<1> DEFINE z == [r.s EXCEPT !.pending = left]
<1>9. Pend(r, k, s) = [r EXCEPT !.s = z, !.fx = (r.fx \o a) \o b]
  BY DEF Pend, held, next, Reductions
<1> HIDE DEF left, a, b, over
<1>10. /\ z \in States /\ z.pending = left /\ z.targets = r.s.targets /\ z.owner = r.s.owner
       /\ z.phase = r.s.phase /\ z.selected = r.s.selected
  BY <1>1, <1>8 DEF States
<1> HIDE DEF z
<1>11. Books(z, ss) BY <1>6, <1>10 DEF Books, Homes, Mapped, Selects, Candidate
<1> DEFINE fx == (r.fx \o a) \o b
<1>12. fx \in Seq(Effects) /\ (NoReconnect(r.fx) => NoReconnect(fx))
  <2>1. r.fx \in Seq(Effects) BY DEF Reductions
  <2>2. r.fx \o a \in Seq(Effects) /\ (NoReconnect(r.fx) => NoReconnect(r.fx \o a))
    BY <1>4, <2>1, EffectsJoin
  <2> QED BY <1>7, <2>2, EffectsJoin
<1> HIDE DEF fx
<1> DEFINE q == Pend(r, k, s)
<1>13. q = [r EXCEPT !.s = z, !.fx = fx] BY <1>9 DEF z, fx
<1> HIDE DEF q
<1>14. q \in Reductions /\ q.s = z /\ q.fx = fx BY <1>10, <1>12, <1>13 DEF Reductions
<1>15. Keeps(r, q, ss) BY <1>10, <1>11, <1>12, <1>14 DEF Keeps
<1> QED BY <1>15 DEF q

-------------------------------------------------------------------------------
(* Attach, Adopt and Destroy: a target, its session and the map of sessions. *)

\* The target of one key changes, with its session and that session's place in the map.
Rehomed(s, z, k, ss) ==
    LET t == s.targets[k].session
        n == z.targets[k].session
    IN  /\ \A j \in Keys \ {k} : z.targets[j] = s.targets[j]
        /\ z.pending = s.pending
        /\ n # 0 => Known(z.targets[k]) /\ Of(ss, n, k)
        /\ \A o \in z.owner : o \in s.owner \/ (n # 0 /\ o = <<n, k>>)
        /\ \A o \in s.owner : o \in z.owner \/ o[1] \in {t, n} \/ o[2] = k
        /\ n # 0 /\ Alive(z.targets[k]) => <<n, k>> \in z.owner

\* A target that changes its session together with the map stays in step with it.
LEMMA RehomingIsSound ==
    ASSUME NEW ss \in SessionLists, NEW s \in States, NEW z \in States, NEW k \in Keys,
           Homes(s, ss), Mapped(s), Rehomed(s, z, k, ss)
    PROVE  Homes(z, ss) /\ Mapped(z)
<1> DEFINE t == s.targets[k].session
           n == z.targets[k].session
<1>1. /\ \A j \in Keys \ {k} : z.targets[j] = s.targets[j]
      /\ z.pending = s.pending
      /\ n # 0 => Known(z.targets[k]) /\ Of(ss, n, k)
      /\ \A o \in z.owner : o \in s.owner \/ (n # 0 /\ o = <<n, k>>)
      /\ \A o \in s.owner : o \in z.owner \/ o[1] \in {t, n} \/ o[2] = k
      /\ n # 0 /\ Alive(z.targets[k]) => <<n, k>> \in z.owner
  BY DEF Rehomed
<1> HIDE DEF t, n
<1>2. \A j \in Keys : z.targets[j].session # 0 =>
                          Known(z.targets[j]) /\ Of(ss, z.targets[j].session, j)
  BY <1>1 DEF Homes, n
<1>3. \A o \in z.owner : Of(ss, o[1], o[2]) BY <1>1 DEF Homes
<1>4. Homes(z, ss) BY <1>1, <1>2, <1>3 DEF Homes
<1>5. ASSUME NEW j \in Keys, Alive(z.targets[j]), z.targets[j].session # 0
      PROVE  <<z.targets[j].session, j>> \in z.owner
  <2>1. CASE j = k BY <1>1, <1>5, <2>1 DEF n
  <2>2. CASE j # k
    <3> DEFINE x == z.targets[j].session
               o == <<x, j>>
    <3>1. z.targets[j] = s.targets[j] BY <1>1, <2>2
    <3>2. o \in s.owner BY <1>5, <3>1 DEF Mapped
    <3>3. Of(ss, x, j) BY <3>2 DEF Homes
    <3>4. t # 0 => Of(ss, t, k) BY DEF Homes, t
    <3>5. x # t /\ x # n BY <1>1, <1>5, <2>2, <3>3, <3>4, OnePage
    <3>6. o[1] = x /\ o[2] = j OBVIOUS
    <3> HIDE DEF o
    <3>7. o \in z.owner BY <1>1, <2>2, <3>2, <3>5, <3>6
    <3> QED BY <3>7 DEF o
  <2> QED BY <2>1, <2>2
<1> QED BY <1>4, <1>5 DEF Mapped

\* attach: the old session leaves the map, the new one enters it, and captures are prepared.
LEMMA AttachKeeps ==
    ASSUME NEW ss \in SessionLists, NEW r \in Reductions, Books(r.s, ss), NEW k \in Keys,
           NEW s \in Nat, Of(ss, s, k), NEW probe \in BOOLEAN
    PROVE  Keeps(r, AttachSession(r, k, s, probe), ss)
<1> DEFINE t    == r.s.targets[k]
           next == IF t.prior = "none" THEN "Attached" ELSE t.prior
           lc   == IF next = "Discovered" THEN "Attached" ELSE next
           u    == [t EXCEPT !.session = s, !.att = t.att + 1, !.prior = "none", !.lc = lc]
           own  == {o \in r.s.owner : o[1] \notin {t.session, s}} \cup {<<s, k>>}
           z    == [r.s EXCEPT !.targets = [r.s.targets EXCEPT ![k] = u], !.owner = own]
           a    == IF t.session = 0 THEN <<>> ELSE <<Detach(t.session)>>
           b    == IF t.override THEN <<Effect("RestoreViewport", k, s, ContextOf(z, k))>> ELSE <<>>
           c    == IF probe THEN <<Effect("RestoreDomains", k, s, NoContext)>> ELSE <<>>
           q    == AttachSession(r, k, s, probe)
<1>1. r.s \in States /\ t \in TargetRecords BY DEF Reductions, States
<1>2. CASE ~Known(t)
  <2>1. q = Pend(r, k, s) BY <1>2 DEF AttachSession, Alive
  <2> QED BY <2>1, PendKeeps
<1>3. CASE Known(t) /\ (t.lc \in Terminal \/ t.session = s)
  <2>1. q = r BY <1>3 DEF AttachSession, Alive
  <2> QED BY <2>1 DEF Keeps
<1>4. CASE Alive(t) /\ t.session # s /\ ~CanMove(t.lc, next)
  <2>1. q = [r EXCEPT !.ok = FALSE] BY <1>4 DEF AttachSession, Alive, Rejected
  <2>2. q \in Reductions /\ q.s = r.s /\ q.fx = r.fx BY <2>1 DEF Reductions
  <2> QED BY <2>2 DEF Keeps
<1>5. CASE Alive(t) /\ t.session # s /\ CanMove(t.lc, next)
  <2>1. q = [r EXCEPT !.s = z, !.fx = ((r.fx \o a) \o b) \o c]
    BY <1>5 DEF AttachSession, Alive, Reductions, States
  <2>2. lc \in {"Attached", "Recording", "Hidden"} BY <1>1 DEF TargetRecords, Priors
  <2>3. /\ u \in TargetRecords /\ u.session = s /\ u.lc = lc
    <3>1. lc \in Lifecycles BY <2>2 DEF Lifecycles
    <3> HIDE DEF lc
    <3>2. t.att + 1 \in Nat /\ "none" \in Priors BY <1>1 DEF TargetRecords, Priors
    <3> QED BY <1>1, <3>1, <3>2 DEF TargetRecords
  <2> HIDE DEF u, lc
  <2>4. own \in SUBSET (Nat \X Keys) BY <1>1 DEF States
  <2>5. own = {o \in r.s.owner : o[1] \notin {t.session, s}} \cup {<<s, k>>} OBVIOUS
  <2> HIDE DEF own
  <2>6. /\ z \in States /\ z.targets[k] = u /\ \A j \in Keys \ {k} : z.targets[j] = r.s.targets[j]
        /\ z.pending = r.s.pending /\ z.owner = own /\ z.phase = r.s.phase
        /\ z.selected = r.s.selected /\ z.gen = r.s.gen
    BY <1>1, <2>3, <2>4 DEF States
  <2>7. a \in Seq(PlainEffects)
    <3>1. t.session \in Nat BY <1>1 DEF TargetRecords
    <3>2. Detach(t.session) \in PlainEffects BY <3>1, DetachIsTyped
    <3> QED BY <3>2
  <2>8. b \in Seq(PlainEffects)
    <3>1. ContextOf(z, k) \in Contexts
      BY <2>3, <2>6 DEF ContextOf, Contexts, TargetRecords, States
    <3>2. Effect("RestoreViewport", k, s, ContextOf(z, k)) \in PlainEffects
      BY <3>1 DEF Effect, Effects, EffectRecords, PlainEffects, Addressed
    <3> QED BY <3>2
  <2>9. c \in Seq(PlainEffects)
    <3>1. Effect("RestoreDomains", k, s, NoContext) \in PlainEffects
      BY NothingIsTyped DEF Effect, Effects, EffectRecords, PlainEffects, Addressed
    <3> QED BY <3>1
  <2> HIDE DEF a, b, c, z
  <2> DEFINE fx == ((r.fx \o a) \o b) \o c
  <2>10. fx \in Seq(Effects) /\ (NoReconnect(r.fx) => NoReconnect(fx))
    <3>1. r.fx \in Seq(Effects) BY DEF Reductions
    <3>2. r.fx \o a \in Seq(Effects) /\ (NoReconnect(r.fx) => NoReconnect(r.fx \o a))
      BY <2>7, <3>1, EffectsJoin
    <3>3. /\ (r.fx \o a) \o b \in Seq(Effects)
          /\ NoReconnect(r.fx) => NoReconnect((r.fx \o a) \o b)
      BY <2>8, <3>2, EffectsJoin
    <3> QED BY <2>9, <3>3, EffectsJoin
  <2> HIDE DEF fx, q
  <2>11. q \in Reductions /\ q.s = z /\ q.fx = fx BY <2>1, <2>6, <2>10 DEF Reductions, fx
  <2>12. s # 0 BY SessionsAreNumbers
  <2>13. Rehomed(r.s, z, k, ss) BY <2>2, <2>3, <2>5, <2>6, <2>12 DEF Rehomed, Known
  <2>14. Homes(z, ss) /\ Mapped(z) BY <1>1, <2>6, <2>13, RehomingIsSound DEF Books
  <2>15. Candidate(z, k) BY <2>2, <2>3, <2>6, <2>12 DEF Candidate, Terminal
  <2>16. Selects(r.s) => Selects(z) BY <2>6, <2>15 DEF Selects, Candidate, States
  <2>17. z.phase = "Ready" => Selects(z) BY <2>6, <2>16 DEF Books
  <2>18. Books(z, ss) BY <2>6, <2>14, <2>17 DEF Books
  <2>19. Keeps(r, q, ss) BY <2>6, <2>10, <2>11, <2>18 DEF Keeps
  <2> QED BY <2>19 DEF q
<1> QED BY <1>2, <1>3, <1>4, <1>5 DEF Alive

\* Keeps is transitive.
LEMMA KeepsOn ==
    ASSUME NEW ss, NEW r, NEW q, NEW p, Keeps(r, q, ss), Keeps(q, p, ss)
    PROVE  Keeps(r, p, ss)
BY DEF Keeps

\* Taking sessions out of the waiting ones keeps the rest.
LEMMA DroppingKeeps ==
    ASSUME NEW ss, NEW r \in Reductions, Books(r.s, ss), NEW held \in SUBSET DOMAIN r.s.pending,
           NEW q, q = [r EXCEPT !.s = DropPending(r.s, held)]
    PROVE  Keeps(r, q, ss) /\ Dropped(r.s, q.s) /\ q.fx = r.fx
<1> DEFINE z == DropPending(r.s, held)
<1>1. r.s \in States /\ Homes(r.s, ss) BY DEF Books
<1>2. z \in States /\ Homes(z, ss) /\ Dropped(r.s, z) BY <1>1, DropKeeps
<1> HIDE DEF z
<1>3. q = [r EXCEPT !.s = z] BY DEF z
<1>4. q \in Reductions /\ q.s = z /\ q.fx = r.fx BY <1>2, <1>3 DEF Reductions
<1>5. Books(z, ss) BY <1>2 DEF Books, Dropped, Mapped, Selects, Candidate
<1>6. z.phase = r.s.phase BY <1>2 DEF Dropped
<1> QED BY <1>2, <1>4, <1>5, <1>6 DEF Keeps

\* A page that appears takes the session that waited for it.
LEMMA AdoptKeeps ==
    ASSUME NEW ss \in SessionLists, NEW r \in Reductions, Books(r.s, ss), NEW k \in Keys
    PROVE  Keeps(r, AdoptPending(r, k), ss)
<1> DEFINE held == PendingOf(r.s, k)
           r1 == [r EXCEPT !.s = DropPending(r.s, held)]
           s == r.s.pending[Min(held)].session
<1>1. CASE held = {}
  <2>1. AdoptPending(r, k) = r BY <1>1 DEF AdoptPending
  <2> QED BY <2>1 DEF Keeps
<1>2. CASE held # {}
  <2>1. AdoptPending(r, k) = AttachSession(r1, k, s, TRUE) BY <1>2 DEF AdoptPending
  <2>2. r.s.pending \in Seq(Waiting(ss)) BY DEF Books, Homes
  <2>3. held \in SUBSET DOMAIN r.s.pending BY DEF PendingOf
  <2>4. Keeps(r, r1, ss) BY <2>3, DroppingKeeps
  <2>5. s \in Nat /\ Of(ss, s, k)
    <3> DEFINE i == Min(held)
    <3>1. held \in SUBSET Nat BY <2>2, <2>3
    <3>2. i \in held BY <1>2, <3>1, MinIsOne
    <3>3. i \in 1 .. Len(r.s.pending) /\ r.s.pending[i].key = k
      BY <2>2, <3>2 DEF PendingOf
    <3> HIDE DEF i
    <3>4. r.s.pending[i] \in Waiting(ss) BY <2>2, <3>3, ElementOfSeq
    <3> QED BY <3>3, <3>4 DEF Waiting, i
  <2> HIDE DEF r1, s, held
  <2>6. r1 \in Reductions /\ Books(r1.s, ss) BY <2>4 DEF Keeps
  <2>7. Keeps(r1, AttachSession(r1, k, s, TRUE), ss) BY <2>5, <2>6, AttachKeeps
  <2> QED BY <2>1, <2>4, <2>7, KeepsOn
<1> QED BY <1>1, <1>2

\* insert_page: an unknown page is entered, and a known one is left as it is.
LEMMA InsertKeeps ==
    ASSUME NEW ss, NEW r \in Reductions, Books(r.s, ss), NEW k \in Keys,
           ~Alive(r.s.targets[k]), NEW seen \in Visibilities
    PROVE  Keeps(r, Insert(r, k, seen), ss)
<1> DEFINE live == {j \in Keys : Alive(r.s.targets[j])}
           keep == IF Cardinality({j \in Keys : Known(r.s.targets[j])}) >= MaxKnown THEN live
                   ELSE Keys
           t    == [Unknown EXCEPT !.lc = "Discovered", !.id = r.s.nextId, !.seen = seen]
           ts   == [j \in Keys |-> IF j = k THEN t
                                   ELSE IF j \in keep THEN r.s.targets[j] ELSE Unknown]
           own  == {o \in r.s.owner : o[2] \in keep}
           z    == [r.s EXCEPT !.targets = ts, !.owner = own, !.nextId = r.s.nextId + 1]
           q    == Insert(r, k, seen)
<1>1. r.s \in States BY DEF Books
<1>2. CASE Cardinality(live) + 1 > MaxKnown
  <2>1. q = [r EXCEPT !.ok = FALSE] BY <1>2 DEF Insert, Rejected
  <2>2. q \in Reductions /\ q.s = r.s /\ q.fx = r.fx BY <2>1 DEF Reductions
  <2> QED BY <2>2 DEF Keeps
<1>3. CASE ~(Cardinality(live) + 1 > MaxKnown)
  <2>1. q = [r EXCEPT !.s = z] BY <1>3 DEF Insert, Reductions, States
  <2>2. live \subseteq keep /\ keep \subseteq Keys OBVIOUS
  <2> HIDE DEF keep
  <2>3. t \in TargetRecords /\ t.session = 0 /\ Known(t)
    <3>1. r.s.nextId \in Nat /\ "Discovered" \in Lifecycles BY <1>1 DEF States, Lifecycles
    <3>2. Unknown \in TargetRecords /\ Unknown.session = 0 BY NothingIsTyped
    <3> QED BY <3>1, <3>2 DEF TargetRecords, Known
  <2> HIDE DEF t
  <2>4. ts \in [Keys -> TargetRecords] BY <1>1, <2>3, NothingIsTyped DEF States
  <2>5. own \in SUBSET (Nat \X Keys) BY <1>1 DEF States
  <2>6. \A j \in Keys : ts[j] = (IF j = k THEN t ELSE IF j \in keep THEN r.s.targets[j] ELSE Unknown)
    OBVIOUS
  <2>7. own = {o \in r.s.owner : o[2] \in keep} OBVIOUS
  <2> HIDE DEF ts, own
  <2>8. /\ z \in States /\ z.targets = ts /\ z.owner = own /\ z.pending = r.s.pending
        /\ z.phase = r.s.phase /\ z.selected = r.s.selected
    <3>1. r.s.nextId + 1 \in Nat BY <1>1 DEF States
    <3> QED BY <1>1, <2>4, <2>5, <3>1 DEF States
  <2> HIDE DEF z, q
  <2>9. q \in Reductions /\ q.s = z /\ q.fx = r.fx BY <2>1, <2>8 DEF Reductions
  <2>10. Homes(z, ss) BY <2>3, <2>6, <2>7, <2>8, NothingIsTyped DEF Homes, Books
  <2>11. Mapped(z)
    <3> SUFFICES ASSUME NEW j \in Keys, Alive(z.targets[j]), z.targets[j].session # 0
                 PROVE  <<z.targets[j].session, j>> \in z.owner
      BY DEF Mapped
    <3>1. j # k /\ j \in keep /\ z.targets[j] = r.s.targets[j]
      BY <2>3, <2>6, <2>8, NothingIsTyped
    <3> DEFINE o == <<z.targets[j].session, j>>
    <3>2. o \in r.s.owner BY <3>1 DEF Books, Mapped
    <3>3. o[2] = j OBVIOUS
    <3> HIDE DEF o
    <3>4. o \in own BY <2>7, <3>1, <3>2, <3>3
    <3> QED BY <2>8, <3>4 DEF o
  <2>12. Selects(r.s) => Selects(z)
    <3> SUFFICES ASSUME Selects(r.s), z.selected # 0 PROVE Candidate(z, z.selected) BY DEF Selects
    <3> DEFINE j == z.selected
    <3>1. j \in Keys /\ Candidate(r.s, j) BY <1>1, <2>8 DEF Selects, States
    <3>2. Alive(r.s.targets[j]) BY <3>1 DEF Candidate, Alive, Books, Homes
    <3>3. z.targets[j] = r.s.targets[j] BY <2>2, <2>6, <2>8, <3>1, <3>2
    <3> QED BY <3>1, <3>3 DEF Candidate
  <2>13. Books(z, ss) BY <2>8, <2>10, <2>11, <2>12 DEF Books
  <2>14. Keeps(r, q, ss) BY <2>8, <2>9, <2>13 DEF Keeps
  <2> QED BY <2>14 DEF q
<1> QED BY <1>2, <1>3

\* Destroy also leaves no session to a target that is not restored.
Calm(s) == \A k \in Keys : Alive(s.targets[k]) => s.targets[k].session = 0

\* destroy: the session, the entry of the map, the waiting session and the selection go.
LEMMA DestroyKeeps ==
    ASSUME NEW ss \in SessionLists, NEW r \in Reductions, Books(r.s, ss), NEW k \in Keys
    PROVE  /\ Keeps(r, Destroy(r, k), ss)
           /\ Calm(r.s) => Calm(Destroy(r, k).s)
<1> DEFINE t == r.s.targets[k]
           m == IF t.lc = "Failed" THEN r ELSE Move(r, k, "Closed")
           u == [m.s.targets[k] EXCEPT !.session = 0]
           own == {o \in m.s.owner : o[1] # t.session}
           z == [m.s EXCEPT !.targets = [m.s.targets EXCEPT ![k] = u], !.owner = own]
           a == IF t.session = 0 THEN <<>> ELSE <<Detach(t.session)>>
           p == [m EXCEPT !.s = z, !.fx = m.fx \o a]
           q == Destroy(r, k)
<1>1. r.s \in States /\ t \in TargetRecords BY DEF Books, States
<1>2. CASE t.lc \in {"absent", "Closed"}
  <2>1. q = r BY <1>2 DEF Destroy
  <2> QED BY <2>1 DEF Keeps
<1>3. CASE t.lc \notin {"absent", "Closed"}
  <2>1. m \in Reductions /\ Moved(r, m, k, "Closed")
    <3>1. Move(r, k, "Closed") \in Reductions /\ Moved(r, Move(r, k, "Closed"), k, "Closed")
      BY MoveKeeps DEF Lifecycles
    <3>2. Moved(r, r, k, "Closed") BY DEF Moved
    <3> QED BY <3>1, <3>2
  <2>2. q = ReconcileSelection(p)
    <3>1. p = [m EXCEPT !.s.targets[k].session = 0,
                        !.s.owner = {o \in @ : o[1] # t.session},
                        !.fx = @ \o (IF t.session = 0 THEN <<>> ELSE <<Detach(t.session)>>)]
      <4> HIDE DEF m
      <4> QED BY <2>1 DEF Reductions, States
    <3> HIDE DEF p
    <3> QED BY <1>3, <3>1 DEF Destroy
  <2> HIDE DEF m, q
  <2>3. m.s \in States /\ m.s.targets[k] \in TargetRecords BY <2>1 DEF Reductions, States
  <2>4. /\ u \in TargetRecords /\ u.session = 0 /\ u.lc = m.s.targets[k].lc
    BY <2>3 DEF TargetRecords
  <2> HIDE DEF u
  <2>5. own \in SUBSET (Nat \X Keys) /\ own = {o \in r.s.owner : o[1] # t.session}
    BY <2>1, <2>3 DEF States, Moved
  <2> HIDE DEF own
  <2>6. /\ z \in States /\ z.targets[k] = u /\ z.owner = own /\ z.pending = r.s.pending
        /\ z.phase = r.s.phase
        /\ \A j \in Keys \ {k} : z.targets[j] = r.s.targets[j]
    BY <2>1, <2>3, <2>4, <2>5 DEF States, Moved
  <2> HIDE DEF z
  <2>7. a \in Seq(PlainEffects)
    <3>1. t.session \in Nat BY <1>1 DEF TargetRecords
    <3>2. Detach(t.session) \in PlainEffects BY <3>1, DetachIsTyped
    <3> QED BY <3>2
  <2> HIDE DEF a
  <2> DEFINE fx == m.fx \o a
  <2>8. fx \in Seq(Effects) /\ (NoReconnect(r.fx) => NoReconnect(fx))
    <3>1. m.fx \in Seq(Effects) /\ m.fx = r.fx BY <2>1 DEF Reductions, Moved
    <3> QED BY <2>7, <3>1, EffectsJoin
  <2>9. p = [m EXCEPT !.s = z, !.fx = fx] BY DEF z
  <2> HIDE DEF fx, p
  <2>10. p \in Reductions /\ p.s = z /\ p.fx = fx BY <2>1, <2>6, <2>8, <2>9 DEF Reductions
  <2>11. q \in Reductions /\ Reselected(p, q) BY <2>2, <2>10, SelectionIsReconciled
  <2>12. Rehomed(r.s, z, k, ss) BY <2>4, <2>5, <2>6 DEF Rehomed
  <2>13. Homes(z, ss) /\ Mapped(z) BY <2>6, <2>12, RehomingIsSound DEF Books
  <2>14. Homes(q.s, ss) /\ Mapped(q.s) BY <2>10, <2>11, <2>13 DEF Reselected, Homes, Mapped
  <2>15. q.s \in States /\ q.s.phase = r.s.phase /\ Selects(q.s) /\ q.s.targets = z.targets
    BY <2>6, <2>10, <2>11 DEF Reductions, Reselected
  <2>16. q.fx = fx BY <2>10, <2>11 DEF Reselected
  <2>17. Keeps(r, q, ss) BY <2>8, <2>11, <2>14, <2>15, <2>16 DEF Keeps, Books
  <2>18. Calm(r.s) => Calm(q.s)
    BY <2>4, <2>6, <2>15 DEF Calm
  <2> QED BY <2>17, <2>18 DEF q
<1> QED BY <1>2, <1>3

\* An effect of no reconnect is appended.
LEMMA EmittingKeeps ==
    ASSUME NEW ss, NEW r \in Reductions, Books(r.s, ss), NEW e \in PlainEffects
    PROVE  Keeps(r, Emit(r, e), ss)
BY EmitKeeps DEF Keeps, PlainEffects

\* reconcile_target_info: a page is inserted, attached or destroyed as its info says.
LEMMA ReconcileOneKeeps ==
    ASSUME NEW ss \in SessionLists, NEW r \in Reductions, Books(r.s, ss), NEW k \in Keys,
           NEW recordable \in BOOLEAN, NEW creation \in BOOLEAN
    PROVE  Keeps(r, ReconcileOne(r, k, recordable, creation), ss)
<1> DEFINE q == ReconcileOne(r, k, recordable, creation)
           t == r.s.targets[k]
           r1 == Insert(r, k, "Unknown")
<1>1. CASE ~recordable
  <2>1. q = Destroy(r, k) BY <1>1 DEF ReconcileOne
  <2> QED BY <2>1, DestroyKeeps
<1>2. CASE recordable /\ Alive(t)
  <2>1. q = AdoptPending(r, k) BY <1>2 DEF ReconcileOne, Alive
  <2> QED BY <2>1, AdoptKeeps
<1>3. CASE recordable /\ t.lc \in Terminal /\ ~creation
  <2>1. q = r BY <1>3 DEF ReconcileOne, Alive
  <2> QED BY <2>1 DEF Keeps
<1>4. CASE recordable /\ ~Alive(t) /\ ~(t.lc \in Terminal /\ ~creation)
  <2>1. q = IF PendingOf(r.s, k) # {} THEN AdoptPending(r1, k)
            ELSE Emit(r1, Effect("Attach", k, 0, NoContext))
    BY <1>4 DEF ReconcileOne
  <2>2. Keeps(r, r1, ss) BY <1>4, InsertKeeps DEF Visibilities
  <2> HIDE DEF r1, q
  <2>3. r1 \in Reductions /\ Books(r1.s, ss) BY <2>2 DEF Keeps
  <2>4. Effect("Attach", k, 0, NoContext) \in PlainEffects
    BY NothingIsTyped DEF Effect, Effects, EffectRecords, PlainEffects, Addressed
  <2>5. Keeps(r1, AdoptPending(r1, k), ss) BY <2>3, AdoptKeeps
  <2>6. Keeps(r1, Emit(r1, Effect("Attach", k, 0, NoContext)), ss) BY <2>3, <2>4, EmittingKeeps
  <2>7. Keeps(r1, q, ss) BY <2>1, <2>5, <2>6
  <2>8. Keeps(r, q, ss) BY <2>2, <2>7, KeepsOn
  <2> QED BY <2>8 DEF q
<1> QED BY <1>1, <1>2, <1>3, <1>4

-------------------------------------------------------------------------------
(* Every target in its turn, and the inputs that change one target. *)

\* What a turn keeps, all of them keep.
LEMMA DestroysInOrder ==
    ASSUME NEW S, NEW r \in S, NEW ks \in SUBSET Keys,
           \A q \in S, k \in ks : Destroy(q, k) \in S
    PROVE  DestroyAll(r, ks) \in S
<1> DEFINE turn == [x \in S \X Nat |-> IF x[2] \in ks THEN Destroy(x[1], x[2]) ELSE x[1]]
           Turns(f) == [n \in 0 .. LastKey |->
                          IF n = 0 THEN r ELSE IF n \in ks THEN Destroy(f[n - 1], n) ELSE f[n - 1]]
           f == CHOOSE f : f = Turns(f)
           good == [n \in 0 .. LastKey |-> S]
<1>1. turn \in [S \X Nat -> S] /\ LastKey \in Nat BY KeysAreNumbers
<1>2. \A q \in S, n \in 1 .. LastKey :
         turn[<<q, n>>] = (IF n \in ks THEN Destroy(q, n) ELSE q)
  BY <1>1
<1> HIDE DEF turn
<1>3. PICK g : Taken(g, S, LastKey, r, turn)
  <2>1. Takes(S, LastKey, r, turn) BY <1>1 DEF Takes
  <2> QED BY <2>1, TurnsExist
<1>4. g = Turns(g)
  <2>1. ASSUME NEW n \in 1 .. LastKey
        PROVE  g[n] = (IF n \in ks THEN Destroy(g[n - 1], n) ELSE g[n - 1])
    <3>1. g[n - 1] \in S BY <1>1, <1>3 DEF Taken
    <3> QED BY <1>2, <1>3, <3>1 DEF Taken
  <2>2. \A n \in 0 .. LastKey : g[n] = Turns(g)[n] BY <1>1, <1>3, <2>1 DEF Taken
  <2> QED BY <1>3, <2>2 DEF Taken
<1>5. f = Turns(f) BY <1>4
<1>6. DestroyAll(r, ks) = f[LastKey] BY DEF DestroyAll, ForKeys, InOrder
<1> HIDE DEF f
<1>7. \A n \in 0 .. LastKey : f[n] \in good[n]
  <2>1. f[0] \in good[0] BY <1>1, <1>5
  <2>2. ASSUME NEW n \in 1 .. LastKey, f[n - 1] \in good[n - 1] PROVE f[n] \in good[n]
    <3>1. f[n - 1] \in S /\ good[n] = S BY <1>1, <2>2
    <3>2. f[n] = (IF n \in ks THEN Destroy(f[n - 1], n) ELSE f[n - 1]) BY <1>1, <1>5
    <3> QED BY <3>1, <3>2
  <2> HIDE DEF good
  <2> QED BY <1>1, <2>1, <2>2, EveryTurnKeeps
<1> QED BY <1>1, <1>6, <1>7

\* The same for the pages of a list, which are discovered one after the other.
LEMMA DiscoversInOrder ==
    ASSUME NEW S, NEW r \in S, NEW ks \in SUBSET Keys,
           \A q \in S, k \in ks : Discover(q, k) \in S
    PROVE  DiscoverAll(r, ks) \in S
<1> DEFINE turn == [x \in S \X Nat |-> IF x[2] \in ks THEN Discover(x[1], x[2]) ELSE x[1]]
           Turns(f) == [n \in 0 .. LastKey |->
                          IF n = 0 THEN r ELSE IF n \in ks THEN Discover(f[n - 1], n) ELSE f[n - 1]]
           f == CHOOSE f : f = Turns(f)
           good == [n \in 0 .. LastKey |-> S]
<1>1. turn \in [S \X Nat -> S] /\ LastKey \in Nat BY KeysAreNumbers
<1>2. \A q \in S, n \in 1 .. LastKey :
         turn[<<q, n>>] = (IF n \in ks THEN Discover(q, n) ELSE q)
  BY <1>1
<1> HIDE DEF turn
<1>3. PICK g : Taken(g, S, LastKey, r, turn)
  <2>1. Takes(S, LastKey, r, turn) BY <1>1 DEF Takes
  <2> QED BY <2>1, TurnsExist
<1>4. g = Turns(g)
  <2>1. ASSUME NEW n \in 1 .. LastKey
        PROVE  g[n] = (IF n \in ks THEN Discover(g[n - 1], n) ELSE g[n - 1])
    <3>1. g[n - 1] \in S BY <1>1, <1>3 DEF Taken
    <3> QED BY <1>2, <1>3, <3>1 DEF Taken
  <2>2. \A n \in 0 .. LastKey : g[n] = Turns(g)[n] BY <1>1, <1>3, <2>1 DEF Taken
  <2> QED BY <1>3, <2>2 DEF Taken
<1>5. f = Turns(f) BY <1>4
<1>6. DiscoverAll(r, ks) = f[LastKey] BY DEF DiscoverAll, ForKeys, InOrder
<1> HIDE DEF f
<1>7. \A n \in 0 .. LastKey : f[n] \in good[n]
  <2>1. f[0] \in good[0] BY <1>1, <1>5
  <2>2. ASSUME NEW n \in 1 .. LastKey, f[n - 1] \in good[n - 1] PROVE f[n] \in good[n]
    <3>1. f[n - 1] \in S /\ good[n] = S BY <1>1, <2>2
    <3>2. f[n] = (IF n \in ks THEN Discover(f[n - 1], n) ELSE f[n - 1]) BY <1>1, <1>5
    <3> QED BY <3>1, <3>2
  <2> HIDE DEF good
  <2> QED BY <1>1, <2>1, <2>2, EveryTurnKeeps
<1> QED BY <1>1, <1>6, <1>7

\* A target that keeps its lifecycle and its session keeps everything else in step.
Touched(r, q, k, t, ss) ==
    /\ Keeps(r, q, ss) /\ q.s.gen = r.s.gen
    /\ Calm(r.s) => Calm(q.s)
    /\ q.s.targets[k] = t
    /\ \A j \in Keys \ {k} : q.s.targets[j] = r.s.targets[j]

\* Only the lifecycle, visibility, stamp or binding of one target changes.
LEMMA TouchKeeps ==
    ASSUME NEW ss, NEW r \in Reductions, Books(r.s, ss), NEW k \in Keys, NEW t \in TargetRecords,
           t.lc = r.s.targets[k].lc, t.session = r.s.targets[k].session,
           NEW q, q = [r EXCEPT !.s.targets[k] = t]
    PROVE  Touched(r, q, k, t, ss)
<1> DEFINE ts == [r.s.targets EXCEPT ![k] = t]
           z == [r.s EXCEPT !.targets = ts]
<1>1. r.s \in States BY DEF Books
<1>2. ts \in [Keys -> TargetRecords] /\ ts[k] = t /\ \A j \in Keys \ {k} : ts[j] = r.s.targets[j]
  BY <1>1 DEF States
<1> HIDE DEF ts
<1>3. /\ z \in States /\ z.targets = ts /\ z.owner = r.s.owner /\ z.pending = r.s.pending
      /\ z.phase = r.s.phase /\ z.selected = r.s.selected /\ z.gen = r.s.gen
  BY <1>1, <1>2 DEF States
<1>4. q = [r EXCEPT !.s = z] BY <1>1 DEF Reductions, States, ts
<1> HIDE DEF z
<1>5. q \in Reductions /\ q.s = z /\ q.fx = r.fx BY <1>3, <1>4 DEF Reductions
<1>6. \A j \in Keys : z.targets[j].lc = r.s.targets[j].lc
                      /\ z.targets[j].session = r.s.targets[j].session
  BY <1>2, <1>3
<1>7. Homes(z, ss) /\ Mapped(z) BY <1>3, <1>6 DEF Books, Homes, Mapped, Alive, Known
<1>8. Selects(r.s) => Selects(z) BY <1>1, <1>3, <1>6 DEF Selects, Candidate, States
<1>9. Books(z, ss) BY <1>3, <1>7, <1>8 DEF Books
<1>10. Calm(r.s) => Calm(z) BY <1>6 DEF Calm, Alive, Known
<1> QED BY <1>2, <1>3, <1>5, <1>9, <1>10 DEF Keeps, Touched

\* A target that is captured moves between the lifecycles of a page that is shown or hidden.
LEMMA MovingKeeps ==
    ASSUME NEW ss \in SessionLists, NEW r \in Reductions, Books(r.s, ss), NEW k \in Keys,
           Alive(r.s.targets[k]), NEW to \in {"Recording", "Hidden"}
    PROVE  Keeps(r, Move(r, k, to), ss)
<1> DEFINE m == Move(r, k, to)
<1>1. m \in Reductions /\ Moved(r, m, k, to) BY MoveKeeps DEF Lifecycles
<1> HIDE DEF m
<1>2. r.s \in States /\ m.s \in States BY <1>1 DEF Reductions
<1>3. r.s.targets[k].session # 0 => Of(ss, r.s.targets[k].session, k) BY DEF Books, Homes
<1>4. r.s.targets[k].session # 0 => <<r.s.targets[k].session, k>> \in r.s.owner
  BY DEF Books, Mapped
<1>5. Rehomed(r.s, m.s, k, ss) BY <1>1, <1>3, <1>4 DEF Rehomed, Moved, Known, Alive
<1>6. Homes(m.s, ss) /\ Mapped(m.s) BY <1>2, <1>5, RehomingIsSound DEF Books
<1>7. Selects(r.s) => Selects(m.s)
  BY <1>1, <1>2 DEF Moved, Selects, Candidate, States, Terminal
<1>8. Books(m.s, ss) BY <1>1, <1>2, <1>6, <1>7 DEF Books, Moved
<1> QED BY <1>1, <1>8 DEF Keeps, Moved, m

\* A failed target that keeps its session.
LEMMA AttachFailedKeeps ==
    ASSUME NEW ss \in SessionLists, NEW r \in Reductions, Books(r.s, ss), NEW k \in Keys
    PROVE  Keeps(r, AttachFailed(r, k), ss)
<1>1. CASE ~Alive(r.s.targets[k])
  <2>1. AttachFailed(r, k) = r BY <1>1 DEF AttachFailed
  <2> QED BY <2>1 DEF Keeps
<1>2. CASE Alive(r.s.targets[k])
  <2> DEFINE m == Move(r, k, "Failed")
             q == AttachFailed(r, k)
  <2>1. m \in Reductions /\ Moved(r, m, k, "Failed") BY MoveKeeps DEF Lifecycles
  <2>2. q = ReconcileSelection(m) BY <1>2 DEF AttachFailed
  <2> HIDE DEF m, q
  <2>3. q \in Reductions /\ Reselected(m, q) BY <2>1, <2>2, SelectionIsReconciled
  <2>4. r.s \in States /\ q.s \in States BY <2>3 DEF Reductions
  <2>5. r.s.targets[k].session # 0 => Of(ss, r.s.targets[k].session, k) BY DEF Books, Homes
  <2>6. r.s.targets[k].session # 0 => <<r.s.targets[k].session, k>> \in r.s.owner
    BY <1>2 DEF Books, Mapped
  <2>7. Rehomed(r.s, q.s, k, ss)
    BY <1>2, <2>1, <2>3, <2>5, <2>6 DEF Rehomed, Moved, Reselected, Known, Alive
  <2>8. Homes(q.s, ss) /\ Mapped(q.s) BY <2>4, <2>7, RehomingIsSound DEF Books
  <2>9. Books(q.s, ss) BY <2>3, <2>4, <2>8 DEF Books, Reselected
  <2> QED BY <2>1, <2>3, <2>9 DEF Keeps, Moved, Reselected, q
<1> QED BY <1>1, <1>2

\* A target that fails gives its session up.
LEMMA DomainSetupFailedKeeps ==
    ASSUME NEW ss \in SessionLists, NEW r \in Reductions, Books(r.s, ss), NEW k \in Keys
    PROVE  /\ Keeps(r, DomainSetupFailed(r, k), ss)
           /\ Calm(r.s) => Calm(DomainSetupFailed(r, k).s)
<1> DEFINE t == r.s.targets[k]
           m == Move(r, k, "Failed")
           ended == [kind |-> "Terminal", ctx |-> NoContext]
           u == [m.s.targets[k] EXCEPT !.session = 0, !.prior = "none", !.binding = ended]
           own == {o \in m.s.owner : o[1] # t.session}
           z == [m.s EXCEPT !.targets = [m.s.targets EXCEPT ![k] = u], !.owner = own]
           a == IF t.session = 0 THEN <<>> ELSE <<Detach(t.session)>>
           p == [m EXCEPT !.s = z, !.fx = m.fx \o a]
           q == DomainSetupFailed(r, k)
<1>1. r.s \in States /\ t \in TargetRecords BY DEF Books, States
<1>2. CASE ~Alive(t)
  <2>1. q = r BY <1>2 DEF DomainSetupFailed
  <2> QED BY <2>1 DEF Keeps
<1>3. CASE Alive(t)
  <2>1. m \in Reductions /\ Moved(r, m, k, "Failed") BY MoveKeeps DEF Lifecycles
  <2>2. q = ReconcileSelection(p)
    <3>1. p = [m EXCEPT !.s.targets[k] = [@ EXCEPT !.session = 0, !.prior = "none",
                                                   !.binding = ended],
                        !.s.owner = {o \in @ : o[1] # t.session},
                        !.fx = @ \o (IF t.session = 0 THEN <<>> ELSE <<Detach(t.session)>>)]
      <4> HIDE DEF m, ended
      <4> QED BY <2>1 DEF Reductions, States
    <3> HIDE DEF p
    <3> QED BY <1>3, <3>1 DEF DomainSetupFailed
  <2> HIDE DEF m, q
  <2>3. m.s \in States /\ m.s.targets[k] \in TargetRecords BY <2>1 DEF Reductions, States
  <2>4. ended \in Bindings BY NothingIsTyped DEF Bindings
  <2> HIDE DEF ended
  <2>5. u \in TargetRecords /\ u.session = 0 /\ u.lc = m.s.targets[k].lc
    <3>1. "none" \in Priors /\ 0 \in Nat BY DEF Priors
    <3> QED BY <2>3, <2>4, <3>1 DEF TargetRecords
  <2> HIDE DEF u
  <2>6. own \in SUBSET (Nat \X Keys) /\ own = {o \in r.s.owner : o[1] # t.session}
    BY <2>1, <2>3 DEF States, Moved
  <2> HIDE DEF own
  <2>7. /\ z \in States /\ z.targets[k] = u /\ z.owner = own /\ z.pending = r.s.pending
        /\ z.phase = r.s.phase
        /\ \A j \in Keys \ {k} : z.targets[j] = r.s.targets[j]
    BY <2>1, <2>3, <2>5, <2>6 DEF States, Moved
  <2> HIDE DEF z
  <2>8. a \in Seq(PlainEffects)
    <3>1. t.session \in Nat BY <1>1 DEF TargetRecords
    <3>2. Detach(t.session) \in PlainEffects BY <3>1, DetachIsTyped
    <3> QED BY <3>2
  <2> HIDE DEF a
  <2> DEFINE fx == m.fx \o a
  <2>9. fx \in Seq(Effects) /\ (NoReconnect(r.fx) => NoReconnect(fx))
    <3>1. m.fx \in Seq(Effects) /\ m.fx = r.fx BY <2>1 DEF Reductions, Moved
    <3> QED BY <2>8, <3>1, EffectsJoin
  <2>10. p = [m EXCEPT !.s = z, !.fx = fx] BY DEF z
  <2> HIDE DEF fx, p
  <2>11. p \in Reductions /\ p.s = z /\ p.fx = fx BY <2>1, <2>7, <2>9, <2>10 DEF Reductions
  <2>12. q \in Reductions /\ Reselected(p, q) BY <2>2, <2>11, SelectionIsReconciled
  <2>13. Rehomed(r.s, z, k, ss) BY <2>5, <2>6, <2>7 DEF Rehomed
  <2>14. Homes(z, ss) /\ Mapped(z) BY <2>7, <2>13, RehomingIsSound DEF Books
  <2>15. Homes(q.s, ss) /\ Mapped(q.s) BY <2>11, <2>12, <2>14 DEF Reselected, Homes, Mapped
  <2>16. q.s \in States /\ q.s.phase = r.s.phase /\ Selects(q.s) /\ q.s.targets = z.targets
    BY <2>7, <2>11, <2>12 DEF Reductions, Reselected
  <2>17. q.fx = fx BY <2>11, <2>12 DEF Reselected
  <2>18. Keeps(r, q, ss) BY <2>9, <2>12, <2>15, <2>16, <2>17 DEF Keeps, Books
  <2>19. Calm(r.s) => Calm(q.s)
    BY <2>5, <2>7, <2>16 DEF Calm
  <2> QED BY <2>18, <2>19 DEF q
<1> QED BY <1>2, <1>3

\* A probe that failed leaves the visibility unknown.
LEMMA ProbeFailedKeeps ==
    ASSUME NEW ss, NEW r \in Reductions, Books(r.s, ss), NEW k \in Keys
    PROVE  /\ Keeps(r, ProbeFailed(r, k), ss)
           /\ Calm(r.s) => Calm(ProbeFailed(r, k).s)
<1> DEFINE t == r.s.targets[k]
           u == [t EXCEPT !.binding.kind = "Unavailable"]
           q == ProbeFailed(r, k)
<1>1. t \in TargetRecords BY DEF Books, States
<1>2. u \in TargetRecords /\ u.lc = t.lc /\ u.session = t.session
  <2>1. t.binding \in Bindings BY <1>1 DEF TargetRecords
  <2>2. [t.binding EXCEPT !.kind = "Unavailable"] \in Bindings BY <2>1 DEF Bindings
  <2>3. u = [t EXCEPT !.binding = [t.binding EXCEPT !.kind = "Unavailable"]] OBVIOUS
  <2> HIDE DEF u
  <2> QED BY <1>1, <2>2, <2>3 DEF TargetRecords
<1>3. q = r \/ q = [r EXCEPT !.s.targets[k] = u]
  BY DEF ProbeFailed, Reductions, States
<1>4. q = r => Keeps(r, q, ss) BY DEF Keeps
<1> HIDE DEF u, q
<1>5. q = [r EXCEPT !.s.targets[k] = u] => Touched(r, q, k, u, ss)
  BY <1>2, TouchKeeps
<1> QED BY <1>3, <1>4, <1>5 DEF q, Touched

\* The visibility of a page is known, and its target moves between Recording and Hidden.
LEMMA VisibilityKeeps ==
    ASSUME NEW ss \in SessionLists, NEW r \in Reductions, Books(r.s, ss), NEW k \in Keys,
           NEW seen \in Visibilities, NEW at \in Nat
    PROVE  Keeps(r, VisibilityChanged(r, k, seen, at), ss)
<1> DEFINE t == r.s.targets[k]
           lc == CASE t.lc \in {"Attached", "Recording"} /\ seen = "Hidden" -> "Hidden"
                   [] t.lc = "Hidden" /\ seen = "Visible"                   -> "Recording"
                   [] OTHER                                                 -> t.lc
           u == [t EXCEPT !.stamp = at,
                          !.binding.kind = IF @ = "Unavailable" THEN "Inactive" ELSE @]
           v == [u EXCEPT !.seen = seen]
           r0 == [r EXCEPT !.s.targets[k] = u]
           r1 == [r EXCEPT !.s.targets[k] = v]
           q == VisibilityChanged(r, k, seen, at)
<1>1. t \in TargetRecords BY DEF Books, States
<1>2. u \in TargetRecords /\ u.lc = t.lc /\ u.session = t.session
  <2> DEFINE b == [t.binding EXCEPT !.kind = IF @ = "Unavailable" THEN "Inactive" ELSE @]
  <2>1. t.binding \in Bindings BY <1>1 DEF TargetRecords
  <2>2. b \in Bindings BY <2>1 DEF Bindings
  <2>3. u = [t EXCEPT !.stamp = at, !.binding = b] OBVIOUS
  <2> HIDE DEF u, b
  <2> QED BY <1>1, <2>2, <2>3 DEF TargetRecords
<1> HIDE DEF u
<1>3. v \in TargetRecords /\ v.lc = t.lc /\ v.session = t.session BY <1>2 DEF TargetRecords
<1>4. lc = t.lc \/ lc \in {"Recording", "Hidden"} BY DEF t
<1>5. q = r \/ q = r0 \/ (Alive(t) /\ q = r1) \/ (Alive(t) /\ lc # t.lc /\ q = Move(r1, k, lc))
  BY DEF VisibilityChanged, u
<1> HIDE DEF q, lc, v
<1>6. Keeps(r, r, ss) BY DEF Keeps
<1>7. Keeps(r, r0, ss)
  <2>1. Touched(r, r0, k, u, ss) BY <1>2, TouchKeeps
  <2> QED BY <2>1 DEF Touched
<1>8. Keeps(r, r1, ss) /\ r1.s.targets[k] = v
  <2>1. Touched(r, r1, k, v, ss) BY <1>3, TouchKeeps
  <2> QED BY <2>1 DEF Touched
<1>9. ASSUME Alive(t), lc # t.lc PROVE Keeps(r, Move(r1, k, lc), ss)
  <2> HIDE DEF r1
  <2>1. r1 \in Reductions /\ Books(r1.s, ss) BY <1>8 DEF Keeps
  <2>2. Alive(r1.s.targets[k]) BY <1>3, <1>8, <1>9 DEF Alive, Known
  <2>3. Keeps(r1, Move(r1, k, lc), ss) BY <1>4, <1>9, <2>1, <2>2, MovingKeeps
  <2> QED BY <1>8, <2>3, KeepsOn
<1> QED BY <1>5, <1>6, <1>7, <1>8, <1>9 DEF q

\* SelectTarget and ViewportOverrideApplied ask for a target that can be used.
LEMMA SelectKeeps ==
    ASSUME NEW ss, NEW r \in Reductions, Books(r.s, ss), NEW k \in Keys
    PROVE  Keeps(r, SelectTarget(r, k), ss) /\ Keeps(r, OverrideApplied(r, k), ss)
<1>1. Keeps(r, Rejected(r), ss)
  <2>1. Rejected(r) \in Reductions /\ Rejected(r).s = r.s /\ Rejected(r).fx = r.fx
    BY DEF Rejected, Reductions
  <2> QED BY <2>1 DEF Keeps
<1>2. ASSUME Candidate(r.s, k) PROVE Keeps(r, [r EXCEPT !.s.selected = k], ss)
  <2> DEFINE z == [r.s EXCEPT !.selected = k]
             q == [r EXCEPT !.s = z]
  <2>1. /\ z \in States /\ z.targets = r.s.targets /\ z.owner = r.s.owner
        /\ z.pending = r.s.pending /\ z.phase = r.s.phase /\ z.selected = k
    BY DEF Books, States
  <2>2. [r EXCEPT !.s.selected = k] = q OBVIOUS
  <2> HIDE DEF z
  <2>3. Books(z, ss) BY <1>2, <2>1 DEF Books, Homes, Mapped, Selects, Candidate
  <2>4. q \in Reductions /\ q.s = z /\ q.fx = r.fx BY <2>1 DEF Reductions
  <2> QED BY <2>1, <2>2, <2>3, <2>4 DEF Keeps
<1>3. Keeps(r, [r EXCEPT !.s.targets[k].override = TRUE], ss)
  <2> DEFINE t == [r.s.targets[k] EXCEPT !.override = TRUE]
             q == [r EXCEPT !.s.targets[k] = t]
  <2>1. r.s.targets[k] \in TargetRecords BY DEF Books, States
  <2>2. t \in TargetRecords /\ t.lc = r.s.targets[k].lc /\ t.session = r.s.targets[k].session
    BY <2>1 DEF TargetRecords
  <2>3. [r EXCEPT !.s.targets[k].override = TRUE] = q OBVIOUS
  <2> HIDE DEF t
  <2>4. Touched(r, q, k, t, ss) BY <2>2, TouchKeeps
  <2> QED BY <2>3, <2>4 DEF Touched
<1> QED BY <1>1, <1>2, <1>3 DEF SelectTarget, OverrideApplied

\* A capture that did not start fails its target, if the context is still the current one.
LEMMA StartFailedKeeps ==
    ASSUME NEW ss, NEW r \in Reductions, Books(r.s, ss), NEW ctx
    PROVE  /\ Keeps(r, StartFailed(r, ctx), ss)
           /\ Calm(r.s) => Calm(StartFailed(r, ctx).s)
<1> DEFINE ks == {k \in Keys : /\ Alive(r.s.targets[k])
                               /\ r.s.targets[k].binding = [kind |-> "Active", ctx |-> ctx]}
           k == Min(ks)
           u == [r.s.targets[k] EXCEPT !.binding = Unavailable]
           q == StartFailed(r, ctx)
<1>1. CASE ctx.gen # r.s.gen \/ ks = {}
  <2>1. q = r BY <1>1 DEF StartFailed
  <2> QED BY <2>1 DEF Keeps
<1>2. CASE ~(ctx.gen # r.s.gen \/ ks = {})
  <2>1. q = [r EXCEPT !.s.targets[k].binding = Unavailable] BY <1>2 DEF StartFailed
  <2>2. k \in Keys
    <3>1. ks \in SUBSET Keys OBVIOUS
    <3> HIDE DEF ks
    <3> QED BY <1>2, <3>1, LeastKey
  <2> HIDE DEF ks, k, q
  <2>3. r.s.targets[k] \in TargetRecords BY <2>2 DEF Books, States
  <2>4. u \in TargetRecords /\ u.lc = r.s.targets[k].lc /\ u.session = r.s.targets[k].session
    BY <2>3, NothingIsTyped DEF TargetRecords
  <2>5. q = [r EXCEPT !.s.targets[k] = u] BY <2>1, <2>2 DEF Reductions, Books, States
  <2> HIDE DEF u
  <2>6. Touched(r, q, k, u, ss) BY <2>2, <2>4, <2>5, TouchKeeps
  <2> QED BY <2>6 DEF q, Touched
<1> QED BY <1>1, <1>2

-------------------------------------------------------------------------------
(* The end of a session, and the inputs that change every target. *)

\* The end of a session reaches the one target it was handed out for.
LEMMA DetachedKeeps ==
    ASSUME NEW ss \in SessionLists, NEW r \in Reductions, Books(r.s, ss), NEW s \in Nat
    PROVE  Keeps(r, Detached(r, s), ss)
<1> DEFINE held == {i \in DOMAIN r.s.pending : r.s.pending[i].session = s}
           d == DropPending(r.s, held)
           own == {o \in r.s.owner : o[1] # s}
           z1 == [d EXCEPT !.owner = own]
           r1 == [r EXCEPT !.s = z1]
           ks == {o[2] : o \in {p \in r.s.owner : p[1] = s}}
           k == Min(ks)
           q == Detached(r, s)
<1>1. r.s \in States /\ Homes(r.s, ss) /\ Mapped(r.s) BY DEF Books
<1>2. d \in States /\ Homes(d, ss) /\ Dropped(r.s, d)
  <2>1. held \in SUBSET DOMAIN r.s.pending OBVIOUS
  <2> HIDE DEF held
  <2> QED BY <1>1, <2>1, DropKeeps
<1>3. /\ Detached(r, s) =
           (IF ks = {} THEN r1
            ELSE IF Alive(r.s.targets[k])
                 THEN ReconcileSelection([Move(r1, k, "Failed") EXCEPT
                          !.s.targets[k].session = 0, !.s.targets[k].prior = "none"])
                 ELSE [r1 EXCEPT !.s.targets[k].session = 0])
  BY DEF Detached
<1> HIDE DEF d, q
<1>4. Mapped(d) BY <1>1, <1>2 DEF Dropped, Mapped
<1>5. own \in SUBSET (Nat \X Keys) /\ own = {o \in r.s.owner : o[1] # s}
  BY <1>1 DEF States
<1> HIDE DEF own
<1>6. /\ z1 \in States /\ z1.owner = own /\ z1.targets = r.s.targets /\ z1.phase = r.s.phase
      /\ z1.pending = d.pending /\ z1.selected = r.s.selected
  BY <1>2, <1>5 DEF States, Dropped
<1> HIDE DEF z1
<1>7. r1 \in Reductions /\ r1.s = z1 /\ r1.fx = r.fx BY <1>6 DEF Reductions
<1> HIDE DEF r1
<1>8. ASSUME ks = {} PROVE Keeps(r, q, ss)
  <2>1. q = r1 BY <1>3, <1>8 DEF q
  <2>2. \A o \in r.s.owner : o[1] # s BY <1>8
  <2>3. own = r.s.owner BY <1>5, <2>2
  <2>4. Books(z1, ss)
    BY <1>1, <1>2, <1>6, <2>3 DEF Books, Homes, Mapped, Selects, Candidate, Dropped
  <2> QED BY <1>6, <1>7, <2>1, <2>4 DEF Keeps
<1>9. ASSUME ks # {} PROVE Keeps(r, q, ss)
  <2>1. k \in Keys /\ k \in ks
    <3>1. ks \in SUBSET Keys BY <1>1 DEF States
    <3> HIDE DEF ks
    <3> QED BY <1>9, <3>1, LeastKey
  <2>2. Of(ss, s, k)
    <3>1. PICK o \in r.s.owner : o[1] = s /\ o[2] = k BY <2>1
    <3> QED BY <1>1, <3>1 DEF Homes
  <2> HIDE DEF ks, k
  <2>3. \A o \in r.s.owner : o \in own \/ o[2] = k
    <3> SUFFICES ASSUME NEW o \in r.s.owner, o \notin own PROVE o[2] = k OBVIOUS
    <3>1. o[1] = s BY <1>5
    <3>2. Of(ss, s, o[2]) BY <1>1, <3>1 DEF Homes
    <3> QED BY <2>2, <3>2, OnePage
  <2>4. own \subseteq d.owner /\ d.owner = r.s.owner BY <1>2, <1>5 DEF Dropped
  <2>5. CASE Alive(r.s.targets[k])
    <3> DEFINE m == Move(r1, k, "Failed")
               u == [m.s.targets[k] EXCEPT !.session = 0, !.prior = "none"]
               z == [m.s EXCEPT !.targets = [m.s.targets EXCEPT ![k] = u]]
               p == [m EXCEPT !.s = z]
    <3>1. m \in Reductions /\ Moved(r1, m, k, "Failed") BY <1>7, <2>1, MoveKeeps DEF Lifecycles
    <3>2. q = ReconcileSelection(p)
      <4>1. m.s.targets \in [Keys -> TargetRecords] /\ m \in [s : States, fx : Seq(Effects), ok : BOOLEAN]
        BY <3>1 DEF Reductions, States
      <4>2. p = [m EXCEPT !.s.targets[k].session = 0, !.s.targets[k].prior = "none"]
        <5> HIDE DEF m
        <5> QED BY <2>1, <4>1 DEF States
      <4> HIDE DEF p
      <4> QED BY <1>3, <1>9, <2>5, <4>2 DEF q
    <3> HIDE DEF m
    <3>3. m.s \in States /\ m.s.targets[k] \in TargetRecords BY <2>1, <3>1 DEF Reductions, States
    <3>4. u \in TargetRecords /\ u.session = 0
      <4>1. "none" \in Priors /\ 0 \in Nat BY DEF Priors
      <4> QED BY <3>3, <4>1 DEF TargetRecords
    <3> HIDE DEF u
    <3>5. /\ z \in States /\ z.targets[k] = u /\ z.owner = own /\ z.pending = d.pending
          /\ z.phase = r.s.phase
          /\ \A j \in Keys \ {k} : z.targets[j] = r.s.targets[j]
      BY <1>6, <1>7, <2>1, <3>1, <3>3, <3>4 DEF States, Moved
    <3> HIDE DEF z
    <3>6. p \in Reductions /\ p.s = z /\ p.fx = r.fx BY <1>7, <3>1, <3>5 DEF Reductions, Moved
    <3> HIDE DEF p
    <3>7. q \in Reductions /\ Reselected(p, q) BY <3>2, <3>6, SelectionIsReconciled
    <3>8. Rehomed(d, z, k, ss)
      BY <1>2, <2>3, <2>4, <3>4, <3>5 DEF Rehomed, Dropped
    <3>9. Homes(z, ss) /\ Mapped(z) BY <1>2, <1>4, <2>1, <3>5, <3>8, RehomingIsSound
    <3>10. Homes(q.s, ss) /\ Mapped(q.s) BY <3>6, <3>7, <3>9 DEF Reselected, Homes, Mapped
    <3>11. q.s \in States /\ q.s.phase = r.s.phase /\ Selects(q.s) /\ q.fx = r.fx
      BY <3>5, <3>6, <3>7 DEF Reductions, Reselected
    <3> QED BY <3>7, <3>10, <3>11 DEF Keeps, Books
  <2>6. CASE ~Alive(r.s.targets[k])
    <3> DEFINE u == [z1.targets[k] EXCEPT !.session = 0]
               z == [z1 EXCEPT !.targets = [z1.targets EXCEPT ![k] = u]]
    <3>1. q = [r1 EXCEPT !.s = z] BY <1>3, <1>7, <1>9, <2>6 DEF q
    <3>2. z1.targets[k] \in TargetRecords /\ z1.targets \in [Keys -> TargetRecords]
      BY <1>6, <2>1 DEF States
    <3>3. u \in TargetRecords /\ u.session = 0 /\ u.lc = r.s.targets[k].lc
      BY <1>6, <3>2 DEF TargetRecords
    <3> HIDE DEF u
    <3>4. /\ z \in States /\ z.targets[k] = u /\ z.owner = own /\ z.pending = d.pending
          /\ z.phase = r.s.phase /\ z.selected = r.s.selected
          /\ \A j \in Keys \ {k} : z.targets[j] = r.s.targets[j]
      BY <1>6, <2>1, <3>2, <3>3 DEF States
    <3> HIDE DEF z
    <3>5. Rehomed(d, z, k, ss) BY <1>2, <2>3, <2>4, <3>3, <3>4 DEF Rehomed, Dropped
    <3>6. Homes(z, ss) /\ Mapped(z) BY <1>2, <1>4, <2>1, <3>4, <3>5, RehomingIsSound
    <3>7. Selects(r.s) => Selects(z)
      <4> SUFFICES ASSUME Selects(r.s), z.selected # 0 PROVE Candidate(z, z.selected)
        BY DEF Selects
      <4>1. z.selected \in Keys /\ Candidate(r.s, z.selected)
        BY <1>1, <3>4 DEF Selects, States
      <4>2. z.selected # k
        BY <1>1, <2>6, <4>1 DEF Candidate, Alive, Homes
      <4> QED BY <3>4, <4>1, <4>2 DEF Candidate
    <3>8. Books(z, ss) BY <3>4, <3>6, <3>7 DEF Books
    <3>9. q \in Reductions /\ q.s = z /\ q.fx = r.fx BY <1>7, <3>1, <3>4 DEF Reductions
    <3> QED BY <3>4, <3>8, <3>9 DEF Keeps
  <2> QED BY <2>5, <2>6
<1> QED BY <1>8, <1>9 DEF q

\* The session that waits for a page that is gone is detached.
LEMMA TargetDestroyedKeeps ==
    ASSUME NEW ss \in SessionLists, NEW r \in Reductions, Books(r.s, ss), NEW k \in Keys,
           NEW held, held = PendingOf(r.s, k),
           NEW r1, r1 = [r EXCEPT !.s = DropPending(r.s, held)],
           NEW q, q = Destroy(IF held = {} THEN r1
                              ELSE Emit(r1, Detach(r.s.pending[Min(held)].session)), k)
    PROVE  Keeps(r, q, ss)
<1> DEFINE e == Detach(r.s.pending[Min(held)].session)
           r2 == IF held = {} THEN r1 ELSE Emit(r1, e)
<1>1. held \in SUBSET DOMAIN r.s.pending BY DEF PendingOf
<1>2. Keeps(r, r1, ss) BY <1>1, DroppingKeeps
<1>3. held # {} => e \in PlainEffects
  <2> DEFINE i == Min(held)
  <2>1. r.s.pending \in Seq([key : Keys, session : Nat]) BY DEF Books, States
  <2>2. held \in SUBSET Nat BY <1>1, <2>1
  <2>3. held # {} => i \in 1 .. Len(r.s.pending)
    <3> HIDE DEF i
    <3> QED BY <1>1, <2>1, <2>2, MinIsOne DEF i
  <2> HIDE DEF i
  <2>4. held # {} => r.s.pending[i] \in [key : Keys, session : Nat]
    BY <2>1, <2>3, ElementOfSeq
  <2>5. held # {} => r.s.pending[i].session \in Nat BY <2>4
  <2> QED BY <2>5, DetachIsTyped DEF i
<1> HIDE DEF e
<1>4. r1 \in Reductions /\ Books(r1.s, ss) BY <1>2 DEF Keeps
<1>5. held # {} => Keeps(r1, Emit(r1, e), ss) BY <1>3, <1>4, EmittingKeeps
<1>6. Keeps(r, r2, ss) BY <1>2, <1>5, KeepsOn
<1>7. q = Destroy(r2, k) BY DEF e
<1> HIDE DEF r2
<1>8. r2 \in Reductions /\ Books(r2.s, ss) BY <1>6 DEF Keeps
<1>9. Keeps(r2, Destroy(r2, k), ss) BY <1>8, DestroyKeeps
<1> QED BY <1>6, <1>7, <1>9, KeepsOn

\* A rejected input changes nothing that is known.
LEMMA RejectingKeeps ==
    ASSUME NEW ss, NEW r \in Reductions, Books(r.s, ss)
    PROVE  Keeps(r, Rejected(r), ss) /\ Keeps(r, r, ss) /\ Rejected(r).s = r.s
<1>1. Rejected(r) \in Reductions /\ Rejected(r).s = r.s /\ Rejected(r).fx = r.fx
  BY DEF Rejected, Reductions
<1> QED BY <1>1 DEF Keeps

\* Targets the browser no longer lists are destroyed.
LEMMA DestroyAllKeeps ==
    ASSUME NEW ss \in SessionLists, NEW r \in Reductions, Books(r.s, ss), NEW ks \in SUBSET Keys
    PROVE  /\ Keeps(r, DestroyAll(r, ks), ss)
           /\ Calm(r.s) => Calm(DestroyAll(r, ks).s)
<1> DEFINE S == {q \in Reductions : Keeps(r, q, ss) /\ (Calm(r.s) => Calm(q.s))}
<1>1. r \in S BY DEF Keeps
<1>2. ASSUME NEW q \in S, NEW k \in ks PROVE Destroy(q, k) \in S
  <2>1. q \in Reductions /\ Books(q.s, ss) /\ k \in Keys BY DEF Keeps
  <2>2. Keeps(q, Destroy(q, k), ss) /\ (Calm(q.s) => Calm(Destroy(q, k).s))
    BY <2>1, DestroyKeeps
  <2>3. Keeps(r, Destroy(q, k), ss) BY <2>2, KeepsOn
  <2> QED BY <2>2, <2>3 DEF Keeps
<1> HIDE DEF S
<1>3. DestroyAll(r, ks) \in S BY <1>1, <1>2, DestroysInOrder
<1> QED BY <1>3 DEF S

\* Targets the browser lists are discovered.
LEMMA DiscoverAllKeeps ==
    ASSUME NEW ss \in SessionLists, NEW r \in Reductions, Books(r.s, ss), NEW ks \in SUBSET Keys
    PROVE  Keeps(r, DiscoverAll(r, ks), ss)
<1> DEFINE S == {q \in Reductions : Keeps(r, q, ss)}
<1>1. r \in S BY DEF Keeps
<1>2. ASSUME NEW q \in S, NEW k \in ks PROVE Discover(q, k) \in S
  <2>1. q \in Reductions /\ Books(q.s, ss) /\ k \in Keys BY DEF Keeps
  <2>2. Keeps(q, Discover(q, k), ss) BY <2>1, ReconcileOneKeeps DEF Discover
  <2>3. Keeps(r, Discover(q, k), ss) BY <2>2, KeepsOn
  <2> QED BY <2>2, <2>3 DEF Keeps
<1> HIDE DEF S
<1>3. DiscoverAll(r, ks) \in S BY <1>1, <1>2, DiscoversInOrder
<1> QED BY <1>3 DEF S

\* reconcile_initial: the list of pages is the truth, or is rejected when it is too long.
LEMMA ReconcileInitialKeeps ==
    ASSUME NEW ss \in SessionLists, NEW r \in Reductions, Books(r.s, ss), NEW open \in SUBSET Keys
    PROVE  Keeps(r, ReconcileInitial(r, open), ss)
<1> DEFINE d == DestroyAll(r, Keys \ open)
           a == DiscoverAll(d, open)
<1>1. Keeps(r, d, ss) BY DestroyAllKeeps
<1> HIDE DEF d
<1>2. d \in Reductions /\ Books(d.s, ss) BY <1>1 DEF Keeps
<1>3. Keeps(d, a, ss) BY <1>2, DiscoverAllKeeps
<1> HIDE DEF a
<1>4. Keeps(r, a, ss) BY <1>1, <1>3, KeepsOn
<1>5. Keeps(r, Rejected(r), ss) BY RejectingKeeps
<1> QED BY <1>4, <1>5 DEF ReconcileInitial, a, d

\* The restoration of the target of one key, with the session the attempt attached for it.
Restore(q, k, restored) == ReconcileRestored(q, k, (CHOOSE p \in restored : p[1] = k)[2])

\* What the restoration of one target keeps, the restoration of all of them keeps.
LEMMA RestoresInOrder ==
    ASSUME NEW S, NEW r \in S, NEW restored,
           {p[1] : p \in restored} \subseteq Keys,
           \A q \in S, k \in {p[1] : p \in restored} : Restore(q, k, restored) \in S
    PROVE  RestoreAll(r, restored) \in S
<1> DEFINE turn == [x \in S \X Nat |-> IF x[2] \in {p[1] : p \in restored} THEN Restore(x[1], x[2], restored) ELSE x[1]]
           Turns(f) == [n \in 0 .. LastKey |->
                          IF n = 0 THEN r
                          ELSE IF n \in {p[1] : p \in restored} THEN Restore(f[n - 1], n, restored) ELSE f[n - 1]]
           f == CHOOSE f : f = Turns(f)
           good == [n \in 0 .. LastKey |-> S]
<1>1. turn \in [S \X Nat -> S] /\ LastKey \in Nat BY KeysAreNumbers
<1>2. \A q \in S, n \in 1 .. LastKey :
         turn[<<q, n>>] = (IF n \in {p[1] : p \in restored} THEN Restore(q, n, restored) ELSE q)
  BY <1>1
<1> HIDE DEF turn
<1>3. PICK g : Taken(g, S, LastKey, r, turn)
  <2>1. Takes(S, LastKey, r, turn) BY <1>1 DEF Takes
  <2> QED BY <2>1, TurnsExist
<1>4. g = Turns(g)
  <2>1. ASSUME NEW n \in 1 .. LastKey
        PROVE  g[n] = (IF n \in {p[1] : p \in restored} THEN Restore(g[n - 1], n, restored) ELSE g[n - 1])
    <3>1. g[n - 1] \in S BY <1>1, <1>3 DEF Taken
    <3> QED BY <1>2, <1>3, <3>1 DEF Taken
  <2>2. \A n \in 0 .. LastKey : g[n] = Turns(g)[n] BY <1>1, <1>3, <2>1 DEF Taken
  <2> QED BY <1>3, <2>2 DEF Taken
<1>5. f = Turns(f) BY <1>4
<1>6. RestoreAll(r, restored) = f[LastKey] BY DEF RestoreAll, Restore, ForKeys, InOrder
<1> HIDE DEF f
<1>7. \A n \in 0 .. LastKey : f[n] \in good[n]
  <2>1. f[0] \in good[0] BY <1>1, <1>5
  <2>2. ASSUME NEW n \in 1 .. LastKey, f[n - 1] \in good[n - 1] PROVE f[n] \in good[n]
    <3>1. f[n - 1] \in S /\ good[n] = S BY <1>1, <2>2
    <3>2. f[n] = (IF n \in {p[1] : p \in restored} THEN Restore(f[n - 1], n, restored) ELSE f[n - 1]) BY <1>1, <1>5
    <3> QED BY <3>1, <3>2
  <2> HIDE DEF good
  <2> QED BY <1>1, <2>1, <2>2, EveryTurnKeeps
<1> QED BY <1>1, <1>6, <1>7

\* What the binding of one target keeps, rebind_captures keeps.
LEMMA RebindsInOrder ==
    ASSUME NEW S, NEW r \in S, 
           \A q \in S, k \in Keys : Rebind(q, k) \in S
    PROVE  RebindAll(r) \in S
<1> DEFINE turn == [x \in S \X Nat |-> IF x[2] \in Keys THEN Rebind(x[1], x[2]) ELSE x[1]]
           Turns(f) == [n \in 0 .. LastKey |->
                          IF n = 0 THEN r
                          ELSE IF n \in Keys THEN Rebind(f[n - 1], n) ELSE f[n - 1]]
           f == CHOOSE f : f = Turns(f)
           good == [n \in 0 .. LastKey |-> S]
<1>1. turn \in [S \X Nat -> S] /\ LastKey \in Nat BY KeysAreNumbers
<1>2. \A q \in S, n \in 1 .. LastKey :
         turn[<<q, n>>] = (IF n \in Keys THEN Rebind(q, n) ELSE q)
  BY <1>1
<1> HIDE DEF turn
<1>3. PICK g : Taken(g, S, LastKey, r, turn)
  <2>1. Takes(S, LastKey, r, turn) BY <1>1 DEF Takes
  <2> QED BY <2>1, TurnsExist
<1>4. g = Turns(g)
  <2>1. ASSUME NEW n \in 1 .. LastKey
        PROVE  g[n] = (IF n \in Keys THEN Rebind(g[n - 1], n) ELSE g[n - 1])
    <3>1. g[n - 1] \in S BY <1>1, <1>3 DEF Taken
    <3> QED BY <1>2, <1>3, <3>1 DEF Taken
  <2>2. \A n \in 0 .. LastKey : g[n] = Turns(g)[n] BY <1>1, <1>3, <2>1 DEF Taken
  <2> QED BY <1>3, <2>2 DEF Taken
<1>5. f = Turns(f) BY <1>4
<1>6. RebindAll(r) = f[LastKey] BY DEF RebindAll, ForKeys, InOrder
<1> HIDE DEF f
<1>7. \A n \in 0 .. LastKey : f[n] \in good[n]
  <2>1. f[0] \in good[0] BY <1>1, <1>5
  <2>2. ASSUME NEW n \in 1 .. LastKey, f[n - 1] \in good[n - 1] PROVE f[n] \in good[n]
    <3>1. f[n - 1] \in S /\ good[n] = S BY <1>1, <2>2
    <3>2. f[n] = (IF n \in Keys THEN Rebind(f[n - 1], n) ELSE f[n - 1]) BY <1>1, <1>5
    <3> QED BY <3>1, <3>2
  <2> HIDE DEF good
  <2> QED BY <1>1, <2>1, <2>2, EveryTurnKeeps
<1> QED BY <1>1, <1>6, <1>7

-------------------------------------------------------------------------------
(* Changes of phase: startup, shutdown, loss of the connection, reconnect. *)

\* A change of phase changes nothing else.
Entered(r, q, next) ==
    /\ q.fx = r.fx /\ q.s.gen = r.s.gen /\ q.s.owner = r.s.owner /\ q.s.targets = r.s.targets
    /\ q.s.pending = r.s.pending /\ q.s.selected = r.s.selected /\ q.s.nextId = r.s.nextId
    /\ q.s.phase = (IF CanEnter(r.s.phase, next) THEN next ELSE r.s.phase)

\* Of the phases only Ready asks for a selection that can be used.
LEMMA EnteringKeeps ==
    ASSUME NEW r \in Reductions, NEW next \in Phases
    PROVE  EnterPhase(r, next) \in Reductions /\ Entered(r, EnterPhase(r, next), next)
<1> DEFINE z == [r.s EXCEPT !.phase = next]
           q == EnterPhase(r, next)
<1>1. CASE CanEnter(r.s.phase, next)
  <2>1. q = [r EXCEPT !.s = z] BY <1>1 DEF EnterPhase
  <2>2. /\ z \in States /\ z.gen = r.s.gen /\ z.owner = r.s.owner /\ z.targets = r.s.targets
        /\ z.pending = r.s.pending /\ z.selected = r.s.selected /\ z.nextId = r.s.nextId
        /\ z.phase = next
    BY DEF Reductions, States
  <2> HIDE DEF z, q
  <2>3. q \in Reductions /\ q.s = z /\ q.fx = r.fx BY <2>1, <2>2 DEF Reductions
  <2> QED BY <1>1, <2>2, <2>3 DEF Entered, q
<1>2. CASE ~CanEnter(r.s.phase, next)
  <2>1. q = [r EXCEPT !.ok = FALSE] BY <1>2 DEF EnterPhase, Rejected
  <2> HIDE DEF q
  <2>2. q \in Reductions /\ q.s = r.s /\ q.fx = r.fx BY <2>1 DEF Reductions
  <2> QED BY <1>2, <2>2 DEF Entered, q
<1> QED BY <1>1, <1>2

\* What the supervisor knows of its targets, in every phase.
Sound(s, ss) == Books(s, ss) /\ (s.phase = "Reconnecting" => Calm(s))

\* Effects that cause no reduction.
Quiet == {e \in Effects : e.op \in {"Start", "Resume", "Suspend", "Stop", "BeginReconnect"}}

\* What reduce may return: a sound state, and effects that begin a reconnect only when the
\* session was suspended; those of a suspension cause no reductions.
Lawful(q, ss) ==
    /\ q \in Reductions /\ Sound(q.s, ss)
    /\ NoReconnect(q.fx) \/ (q.s.phase = "Reconnecting" /\ q.fx \in Seq(Quiet))

\* An input that keeps the phase and begins no reconnect.
LEMMA KeepingIsLawful ==
    ASSUME NEW ss, NEW r, NEW q, Keeps(r, q, ss), NoReconnect(r.fx),
           r.s.phase = "Reconnecting" => Calm(q.s)
    PROVE  Lawful(q, ss)
BY DEF Keeps, Lawful, Sound

\* The startup is over: the selection is reconciled before the session becomes ready.
LEMMA InitialCompletedIsLawful ==
    ASSUME NEW ss, NEW r \in Reductions, Sound(r.s, ss), NoReconnect(r.fx)
    PROVE  Lawful(InitialCompleted(r), ss)
<1> DEFINE p == ReconcileSelection(r)
           q == EnterPhase(p, "Ready")
<1>1. Lawful(Rejected(r), ss)
  <2>1. Rejected(r) \in Reductions /\ Rejected(r).s = r.s /\ Rejected(r).fx = r.fx
    BY DEF Rejected, Reductions
  <2> QED BY <2>1 DEF Lawful
<1>2. p \in Reductions /\ Reselected(r, p) BY SelectionIsReconciled
<1> HIDE DEF p
<1>3. q \in Reductions /\ Entered(p, q, "Ready") BY <1>2, EnteringKeeps DEF Phases
<1> HIDE DEF q
<1>4. Lawful(q, ss)
  <2>1. /\ q.s \in States /\ q.s.targets = r.s.targets /\ q.s.owner = r.s.owner
        /\ q.s.pending = r.s.pending /\ q.fx = r.fx /\ q.s.selected = p.s.selected
    BY <1>2, <1>3 DEF Reductions, Reselected, Entered
  <2>2. Selects(q.s) BY <1>2, <2>1 DEF Reselected, Selects, Candidate
  <2>3. Homes(q.s, ss) /\ Mapped(q.s) BY <2>1 DEF Sound, Books, Homes, Mapped
  <2>4. q.s.phase = "Reconnecting" => r.s.phase = "Reconnecting"
    BY <1>2, <1>3 DEF Entered, Reselected
  <2> QED BY <1>3, <2>1, <2>2, <2>3, <2>4 DEF Lawful, Sound, Books, Calm
<1> QED BY <1>1, <1>4 DEF InitialCompleted, p, q

\* begin_shutdown: targets stop, and the phase is left for good.
LEMMA ShutdownIsLawful ==
    ASSUME NEW ss, NEW r \in Reductions, Sound(r.s, ss), NoReconnect(r.fx)
    PROVE  Lawful(BeginShutdown(r), ss)
<1> DEFINE e == Effect("Shutdown", 0, 0, NoContext)
           p == EnterPhase(r, "Stopping")
           q == Emit(p, e)
<1>1. Lawful(r, ss) BY DEF Lawful
<1>2. p \in Reductions /\ Entered(r, p, "Stopping") BY EnteringKeeps DEF Phases
<1> HIDE DEF p
<1>3. e \in Effects /\ e.op = "Shutdown"
  BY NothingIsTyped DEF Effect, Effects, EffectRecords, Addressed
<1> HIDE DEF e
<1>4. q \in Reductions /\ q.s = p.s /\ (NoReconnect(p.fx) => NoReconnect(q.fx))
  BY <1>2, <1>3, EmitKeeps
<1> HIDE DEF q
<1>5. Lawful(q, ss)
  <2>1. /\ p.s \in States /\ p.s.targets = r.s.targets /\ p.s.owner = r.s.owner
        /\ p.s.pending = r.s.pending /\ p.fx = r.fx /\ p.s.selected = r.s.selected
        /\ p.s.phase \in {r.s.phase, "Stopping"}
    BY <1>2 DEF Reductions, Entered
  <2>2. Sound(p.s, ss)
    BY <2>1 DEF Sound, Books, Homes, Mapped, Selects, Candidate, Calm
  <2> QED BY <1>4, <2>1, <2>2 DEF Lawful
<1> QED BY <1>1, <1>5 DEF BeginShutdown, p, q, e

\* suspend_for_reconnect: no live target keeps a session, nothing waits, and no page is selected.
LEMMA SuspensionIsSound ==
    ASSUME NEW ss, NEW r \in Reductions, Sound(r.s, ss), r.s.phase \notin {"Ended", "Stopping"}
    PROVE  /\ SuspendAll(r) \in Reductions /\ Sound(SuspendAll(r).s, ss)
           /\ SuspendAll(r).s.phase = "Reconnecting" /\ SuspendAll(r).fx = r.fx
<1> DEFINE p == EnterPhase(r, "Reconnecting")
           ts == [k \in Keys |-> Suspend(r.s.targets[k])]
           z == [p.s EXCEPT !.targets = ts, !.owner = {}, !.pending = <<>>]
           q == SuspendAll(r)
<1>1. p \in Reductions /\ Entered(r, p, "Reconnecting") BY EnteringKeeps DEF Phases
<1>2. q = [p EXCEPT !.s = z]
  <2>1. p \in [s : States, fx : Seq(Effects), ok : BOOLEAN] BY <1>1 DEF Reductions
  <2> HIDE DEF ts
  <2>2. q = [p EXCEPT !.s.targets = ts, !.s.owner = {}, !.s.pending = <<>>]
    BY DEF SuspendAll, ts
  <2> HIDE DEF p, q
  <2> QED BY <2>1, <2>2 DEF States
<1> HIDE DEF p, q
<1>3. r.s \in States /\ p.s \in States /\ p.s.phase = "Reconnecting" /\ p.fx = r.fx
  BY <1>1 DEF Reductions, Entered, CanEnter, Sound, Books, States, Phases
<1>4. ASSUME NEW k \in Keys
      PROVE  /\ Suspend(r.s.targets[k]) \in TargetRecords
             /\ Alive(Suspend(r.s.targets[k])) => Suspend(r.s.targets[k]).session = 0
             /\ Suspend(r.s.targets[k]).session # 0 =>
                    Suspend(r.s.targets[k]) = r.s.targets[k]
  <2> DEFINE t == r.s.targets[k]
             w == IF t.lc = "Suspended" THEN t.prior ELSE t.lc
             u == [t EXCEPT !.lc = "Suspended", !.session = 0, !.prior = w]
  <2>1. t \in TargetRecords BY <1>3 DEF States
  <2>2. Suspend(t) = IF ~Alive(t) THEN t ELSE u BY DEF Suspend
  <2> HIDE DEF t
  <2>3. Alive(t) => w \in Priors
    BY <2>1 DEF TargetRecords, Lifecycles, Priors, Alive, Known, Terminal
  <2> HIDE DEF w
  <2>4. Alive(t) => u \in TargetRecords /\ u.session = 0
    BY <2>1, <2>3 DEF TargetRecords, Lifecycles
  <2> QED BY <2>1, <2>2, <2>4 DEF t
<1>5. /\ ts \in [Keys -> TargetRecords]
      /\ \A k \in Keys : /\ Alive(ts[k]) => ts[k].session = 0
                         /\ ts[k].session # 0 => ts[k] = r.s.targets[k]
  BY <1>4
<1> HIDE DEF ts
<1>6. /\ z \in States /\ z.targets = ts /\ z.owner = {} /\ z.pending = <<>>
      /\ z.phase = "Reconnecting"
  <2>1. <<>> \in Seq([key : Keys, session : Nat]) /\ "Reconnecting" \in Phases BY DEF Phases
  <2>2. {} \in SUBSET (Nat \X Keys) OBVIOUS
  <2> QED BY <1>3, <1>5, <2>1, <2>2 DEF States
<1> HIDE DEF z
<1>7. Calm(z) /\ Mapped(z) BY <1>5, <1>6 DEF Calm, Mapped
<1>8. Homes(z, ss) BY <1>5, <1>6 DEF Homes, Sound, Books
<1>9. q \in Reductions /\ q.s = z /\ q.fx = r.fx BY <1>1, <1>2, <1>3, <1>6 DEF Reductions
<1> QED BY <1>6, <1>7, <1>8, <1>9 DEF Sound, Books, q

\* connection_lost suspends the session once; a second loss is of an older generation.
LEMMA ConnectionLostIsLawful ==
    ASSUME NEW ss, NEW r \in Reductions, Sound(r.s, ss), r.fx = <<>>
    PROVE  Lawful(ConnectionLost(r), ss)
<1> DEFINE e == Effect("BeginReconnect", 0, 0, NoContext)
           p == SuspendAll(r)
           q == Emit(p, e)
<1>1. CASE r.s.phase \in {"Ended", "Stopping"}
  <2>1. <<>> \in Seq(PlainEffects) OBVIOUS
  <2>2. NoReconnect(r.fx) BY <2>1 DEF NoReconnect, PlainEffects
  <2> QED BY <1>1, <2>2 DEF ConnectionLost, Lawful
<1>2. CASE r.s.phase \notin {"Ended", "Stopping"}
  <2>1. p \in Reductions /\ Sound(p.s, ss) /\ p.s.phase = "Reconnecting" /\ p.fx = <<>>
    BY <1>2, SuspensionIsSound
  <2>2. ConnectionLost(r) = q BY <1>2 DEF ConnectionLost
  <2> HIDE DEF p
  <2>3. e \in Effects /\ e \in Quiet
    BY NothingIsTyped DEF Effect, Effects, EffectRecords, Addressed, Quiet
  <2> HIDE DEF e
  <2>4. q \in Reductions /\ q.s = p.s /\ q.fx = <<e>>
    BY <2>1, <2>3, EmitKeeps
  <2>5. q.fx \in Seq(Quiet) BY <2>3, <2>4
  <2> HIDE DEF q
  <2> QED BY <2>1, <2>2, <2>4, <2>5 DEF Lawful
<1> QED BY <1>1, <1>2

\* A target, known or new, gets the session the attempt attached for it.
LEMMA RestoreKeeps ==
    ASSUME NEW ss \in SessionLists, NEW r \in Reductions, Books(r.s, ss), NEW k \in Keys,
           NEW s \in Nat, Of(ss, s, k)
    PROVE  Keeps(r, ReconcileRestored(r, k, s), ss)
<1> DEFINE t == [r.s.targets[k] EXCEPT !.seen = "Unknown"]
           a == [r EXCEPT !.s.targets[k] = t]
           b == Insert(r, k, "Unknown")
           r1 == IF Known(r.s.targets[k]) THEN a ELSE b
           q == AttachSession(r1, k, s, FALSE)
<1>1. ReconcileRestored(r, k, s) = q
  BY DEF ReconcileRestored, Reductions, Books, States
<1>2. Keeps(r, a, ss)
  <2>1. r.s.targets[k] \in TargetRecords BY DEF Books, States
  <2>2. t \in TargetRecords /\ t.lc = r.s.targets[k].lc /\ t.session = r.s.targets[k].session
    BY <2>1 DEF TargetRecords, Visibilities
  <2> HIDE DEF t
  <2>3. Touched(r, a, k, t, ss) BY <2>2, TouchKeeps
  <2> QED BY <2>3 DEF Touched
<1>3. ~Known(r.s.targets[k]) => Keeps(r, b, ss) BY InsertKeeps DEF Alive, Visibilities
<1> HIDE DEF a, b
<1>4. Keeps(r, r1, ss) BY <1>2, <1>3
<1> HIDE DEF r1
<1>5. r1 \in Reductions /\ Books(r1.s, ss) BY <1>4 DEF Keeps
<1>6. Keeps(r1, q, ss) BY <1>5, AttachKeeps
<1> HIDE DEF q
<1> QED BY <1>1, <1>4, <1>6, KeepsOn

\* Every target the attempt attached is restored.
LEMMA RestoreAllKeeps ==
    ASSUME NEW ss \in SessionLists, NEW r \in Reductions, Books(r.s, ss),
           NEW restored \in SUBSET (Keys \X Nat), \A p \in restored : Of(ss, p[2], p[1])
    PROVE  Keeps(r, RestoreAll(r, restored), ss)
<1> DEFINE S == {q \in Reductions : Keeps(r, q, ss)}
           ks == {p[1] : p \in restored}
<1>1. r \in S BY DEF Keeps
<1>2. ASSUME NEW q \in S, NEW k \in ks PROVE Restore(q, k, restored) \in S
  <2> DEFINE o == CHOOSE p \in restored : p[1] = k
  <2>1. q \in Reductions /\ Books(q.s, ss) /\ k \in Keys BY DEF Keeps
  <2>2. o \in restored /\ o[1] = k BY <1>2
  <2>3. Restore(q, k, restored) = ReconcileRestored(q, k, o[2]) BY DEF Restore
  <2> HIDE DEF o
  <2>4. o[2] \in Nat /\ Of(ss, o[2], k) BY <2>2
  <2>5. Keeps(q, Restore(q, k, restored), ss) BY <2>1, <2>3, <2>4, RestoreKeeps
  <2>6. Keeps(r, Restore(q, k, restored), ss) BY <2>5, KeepsOn
  <2> QED BY <2>5, <2>6 DEF Keeps
<1>3. ks \subseteq Keys OBVIOUS
<1> HIDE DEF S
<1>4. RestoreAll(r, restored) \in S BY <1>1, <1>2, <1>3, RestoresInOrder
<1> QED BY <1>4 DEF S

\* The map of sessions is cleared while no target that lives holds one.
LEMMA ReconnectedIsLawful ==
    ASSUME NEW ss \in SessionLists, NEW r \in Reductions, Sound(r.s, ss), NoReconnect(r.fx),
           r.s.phase = "Reconnecting", NEW gen \in Nat,
           NEW restored \in SUBSET (Keys \X Nat), \A p \in restored : Of(ss, p[2], p[1])
    PROVE  Lawful(Reconnected(r, gen, restored), ss)
<1> DEFINE seen == {p[1] : p \in restored}
           z0 == [r.s EXCEPT !.gen = gen]
           r0 == [r EXCEPT !.s = z0]
           r1 == DestroyAll(r0, Keys \ seen)
           z2 == [r1.s EXCEPT !.owner = {}, !.pending = <<>>]
           r2 == [r1 EXCEPT !.s = z2]
           r3 == RestoreAll(r2, restored)
           r4 == ReconcileSelection(r3)
           r5 == EnterPhase(r4, "Ready")
           q == Reconnected(r, gen, restored)
<1>1. q = r \/ q = Rejected(r) \/ q = r5
  <2>1. r0 = [r EXCEPT !.s.gen = gen] OBVIOUS
  <2> HIDE DEF r0
  <2>2. r2 = [r1 EXCEPT !.s.owner = {}, !.s.pending = <<>>]
    OBVIOUS
  <2> HIDE DEF r2
  <2> QED BY <2>1, <2>2 DEF Reconnected
<1>2. Lawful(r, ss) BY DEF Lawful
<1>3. Lawful(Rejected(r), ss)
  <2>1. Rejected(r) \in Reductions /\ Rejected(r).s = r.s /\ Rejected(r).fx = r.fx
    BY DEF Rejected, Reductions
  <2> QED BY <2>1 DEF Lawful
<1>4. /\ r0 \in Reductions /\ Books(r0.s, ss) /\ r0.s.phase = "Reconnecting" /\ Calm(r0.s)
      /\ NoReconnect(r0.fx)
  <2>1. /\ z0 \in States /\ z0.targets = r.s.targets /\ z0.owner = r.s.owner
        /\ z0.pending = r.s.pending /\ z0.phase = "Reconnecting"
    BY DEF Sound, Books, States
  <2> HIDE DEF z0
  <2>2. Books(z0, ss) /\ Calm(z0)
    BY <2>1 DEF Sound, Books, Homes, Mapped, Calm
  <2>3. r0 \in Reductions /\ r0.s = z0 /\ r0.fx = r.fx BY <2>1 DEF Reductions
  <2> QED BY <2>1, <2>2, <2>3
<1> HIDE DEF r0, q, seen
<1>5. Keeps(r0, r1, ss) /\ Calm(r1.s) BY <1>4, DestroyAllKeeps
<1> HIDE DEF r1
<1>6. r1 \in Reductions /\ Books(r1.s, ss) /\ r1.s.phase = "Reconnecting" /\ NoReconnect(r1.fx)
  BY <1>4, <1>5 DEF Keeps
<1>7. /\ r2 \in Reductions /\ Books(r2.s, ss) /\ r2.s.phase = "Reconnecting"
      /\ NoReconnect(r2.fx)
  <2>1. /\ z2 \in States /\ z2.targets = r1.s.targets /\ z2.owner = {}
        /\ z2.pending = <<>> /\ z2.phase = "Reconnecting"
    <3>1. <<>> \in Seq([key : Keys, session : Nat]) OBVIOUS
    <3>2. {} \in SUBSET (Nat \X Keys) OBVIOUS
    <3> QED BY <1>6, <3>1, <3>2 DEF Books, States
  <2> HIDE DEF z2
  <2>2. Homes(z2, ss) /\ Mapped(z2)
    BY <1>5, <1>6, <2>1 DEF Books, Homes, Mapped, Calm
  <2>3. r2 \in Reductions /\ r2.s = z2 /\ r2.fx = r1.fx BY <1>6, <2>1 DEF Reductions
  <2> QED BY <1>6, <2>1, <2>2, <2>3 DEF Books
<1> HIDE DEF r2
<1>8. Keeps(r2, r3, ss) BY <1>7, RestoreAllKeeps
<1> HIDE DEF r3
<1>9. r3 \in Reductions /\ Books(r3.s, ss) /\ r3.s.phase = "Reconnecting" /\ NoReconnect(r3.fx)
  BY <1>7, <1>8 DEF Keeps
<1>10. r4 \in Reductions /\ Reselected(r3, r4) BY <1>9, SelectionIsReconciled
<1> HIDE DEF r4
<1>11. r5 \in Reductions /\ Entered(r4, r5, "Ready") BY <1>10, EnteringKeeps DEF Phases
<1> HIDE DEF r5
<1>12. Lawful(r5, ss)
  <2>1. /\ r5.s \in States /\ r5.s.targets = r3.s.targets /\ r5.s.owner = r3.s.owner
        /\ r5.s.pending = r3.s.pending /\ r5.fx = r3.fx /\ r5.s.selected = r4.s.selected
        /\ r5.s.phase = "Ready" /\ r4.s.targets = r3.s.targets
    BY <1>9, <1>10, <1>11 DEF Reductions, Reselected, Entered, CanEnter
  <2>2. Selects(r5.s) BY <1>10, <2>1 DEF Reselected, Selects, Candidate
  <2>3. Homes(r5.s, ss) /\ Mapped(r5.s) BY <1>9, <2>1 DEF Books, Homes, Mapped
  <2> QED BY <1>9, <1>11, <2>1, <2>2, <2>3 DEF Lawful, Sound, Books
<1> QED BY <1>1, <1>2, <1>3, <1>12 DEF q

-------------------------------------------------------------------------------
(* rebind_captures: bindings and captures change, targets do not. *)

\* What rebind_captures asks of the coordinator.
CaptureEffects == {e \in Effects : e.op \in {"Start", "Resume", "Suspend", "Stop"}}

\* Binding captures changes bindings and inserts effects of captures.
Rebound(r, q) ==
    /\ q \in Reductions
    /\ q.s.phase = r.s.phase /\ q.s.gen = r.s.gen /\ q.s.owner = r.s.owner
    /\ q.s.pending = r.s.pending /\ q.s.selected = r.s.selected
    /\ \A j \in Keys : q.s.targets[j].lc = r.s.targets[j].lc
                       /\ q.s.targets[j].session = r.s.targets[j].session
    /\ NoReconnect(r.fx) => NoReconnect(q.fx)
    /\ r.fx \in Seq(Quiet) => q.fx \in Seq(Quiet)

\* Rebound is transitive.
LEMMA ReboundOn ==
    ASSUME NEW r, NEW q, NEW p, Rebound(r, q), Rebound(q, p)
    PROVE  Rebound(r, p)
BY DEF Rebound

\* A binding is set.
LEMMA BindRebinds ==
    ASSUME NEW r \in Reductions, NEW k \in Keys, NEW b \in Bindings,
           NEW q, q = [r EXCEPT !.s.targets[k].binding = b]
    PROVE  Rebound(r, q)
<1> DEFINE t == [r.s.targets[k] EXCEPT !.binding = b]
           ts == [r.s.targets EXCEPT ![k] = t]
           z == [r.s EXCEPT !.targets = ts]
<1>1. r.s \in States /\ r.s.targets[k] \in TargetRecords BY DEF Reductions, States
<1>2. t \in TargetRecords /\ t.lc = r.s.targets[k].lc /\ t.session = r.s.targets[k].session
  BY <1>1 DEF TargetRecords
<1>3. q = [r EXCEPT !.s = z] OBVIOUS
<1> HIDE DEF t
<1>4. ts \in [Keys -> TargetRecords] /\ ts[k] = t /\ \A j \in Keys \ {k} : ts[j] = r.s.targets[j]
  BY <1>1, <1>2 DEF States
<1> HIDE DEF ts
<1>5. /\ z \in States /\ z.targets = ts /\ z.owner = r.s.owner /\ z.pending = r.s.pending
      /\ z.phase = r.s.phase /\ z.selected = r.s.selected /\ z.gen = r.s.gen
  BY <1>1, <1>4 DEF States
<1> HIDE DEF z
<1>6. q \in Reductions /\ q.s = z /\ q.fx = r.fx BY <1>3, <1>5 DEF Reductions
<1>7. \A j \in Keys : ts[j].lc = r.s.targets[j].lc /\ ts[j].session = r.s.targets[j].session
  BY <1>2, <1>4
<1> QED BY <1>5, <1>6, <1>7 DEF Rebound

\* Effects of captures are added to the others.
LEMMA EffectsRebind ==
    ASSUME NEW r \in Reductions, NEW fx, NEW q, q = [r EXCEPT !.fx = fx],
           \A S \in {Effects, PlainEffects, Quiet} : r.fx \in Seq(S) => fx \in Seq(S)
    PROVE  Rebound(r, q)
<1>1. r.fx \in Seq(Effects) BY DEF Reductions
<1>2. fx \in Seq(Effects) /\ (NoReconnect(r.fx) => NoReconnect(fx))
      /\ (r.fx \in Seq(Quiet) => fx \in Seq(Quiet))
  BY <1>1 DEF NoReconnect, PlainEffects
<1>3. q \in Reductions /\ q.s = r.s /\ q.fx = fx BY <1>2 DEF Reductions
<1> QED BY <1>2, <1>3 DEF Rebound

\* Effects of captures begin no reconnect and cause no reduction.
LEMMA CapturesAreEffects ==
    ASSUME NEW e \in CaptureEffects, NEW S \in {Effects, PlainEffects, Quiet}
    PROVE  e \in S
BY DEF CaptureEffects, PlainEffects, Quiet

\* An effect of a capture is appended.
LEMMA EmitRebinds ==
    ASSUME NEW r \in Reductions, NEW e \in CaptureEffects
    PROVE  Rebound(r, Emit(r, e))
<1> DEFINE fx == Append(r.fx, e)
           q == Emit(r, e)
<1>1. q = [r EXCEPT !.fx = fx] BY DEF Emit
<1>2. ASSUME NEW S \in {Effects, PlainEffects, Quiet}, r.fx \in Seq(S) PROVE fx \in Seq(S)
  <2>1. e \in S BY CapturesAreEffects
  <2> QED BY <1>2, <2>1
<1> HIDE DEF fx, q
<1>3. Rebound(r, q) BY <1>1, <1>2, EffectsRebind
<1> QED BY <1>3 DEF q

\* queue_capture_teardown puts the stop of a capture before the detach of its session.
LEMMA TeardownRebinds ==
    ASSUME NEW r \in Reductions, NEW e \in CaptureEffects,
           NEW q, q = [r EXCEPT !.fx = Teardown(r.fx, e)]
    PROVE  Rebound(r, q)
<1> DEFINE fx == Teardown(r.fx, e)
           after == {i \in DOMAIN r.fx :
                       \/ r.fx[i].op = "Detach" /\ r.fx[i].session = e.ctx.session
                       \/ r.fx[i].op \in {"Shutdown", "BeginReconnect"}}
<1>1. fx = IF after = {} THEN Append(r.fx, e) ELSE InsertAt(r.fx, Min(after), e)
  BY DEF Teardown
<1>2. ASSUME NEW S \in {Effects, PlainEffects, Quiet}, r.fx \in Seq(S) PROVE fx \in Seq(S)
  <2>1. e \in S BY CapturesAreEffects
  <2>2. after \in SUBSET Nat /\ after \subseteq 1 .. Len(r.fx) BY <1>2
  <2> HIDE DEF after
  <2>3. after # {} => Min(after) \in 1 .. Len(r.fx) BY <2>2, MinIsOne
  <2>4. after # {} => InsertAt(r.fx, Min(after), e) \in Seq(S)
    BY <1>2, <2>1, <2>3, InsertionStays
  <2> HIDE DEF fx
  <2> QED BY <1>1, <1>2, <2>1, <2>4
<1> HIDE DEF fx
<1>3. q = [r EXCEPT !.fx = fx] BY DEF fx
<1> QED BY <1>2, <1>3, EffectsRebind

\* The binding of one target, from its lifecycle and its session.
LEMMA RebindRebinds ==
    ASSUME NEW r \in Reductions, NEW k \in Keys
    PROVE  Rebound(r, Rebind(r, k))
<1> DEFINE t == r.s.targets[k]
           old == t.binding.ctx
           now == ContextOf(r.s, k)
           Bind(q, kind, ctx) == [q EXCEPT !.s.targets[k].binding = [kind |-> kind, ctx |-> ctx]]
           Begun(q, op) == Emit(q, Effect(op, k, 0, now))
           Ended(op) == [r EXCEPT !.fx = Teardown(r.fx, Effect(op, k, 0, old))]
           q == Rebind(r, k)
<1>1. t \in TargetRecords /\ r.s \in States BY DEF Reductions, States
<1>2. now \in Contexts /\ old \in Contexts
  BY <1>1 DEF ContextOf, Contexts, TargetRecords, Bindings, States
<1>3. \/ q = r
      \/ q = Bind(r, "Terminal", NoContext)
      \/ \E op \in {"Start", "Resume"} : q = Bind(Begun(r, op), "Active", now)
      \/ q = Bind(Begun(Ended("Stop"), "Start"), "Active", now)
      \/ \E op \in {"Stop", "Suspend"}, kind \in {"Terminal", "Suspended", "Inactive"},
            ctx \in {NoContext, old} : q = Bind(Ended(op), kind, ctx)
  BY DEF Rebind
<1>4. NoContext \in Contexts BY NothingIsTyped
<1>5. ASSUME NEW p \in Reductions, NEW ctx \in {NoContext, old, now},
             NEW kind \in {"Inactive", "Active", "Suspended", "Terminal"}
      PROVE  Rebound(p, Bind(p, kind, ctx))
  <2> DEFINE b == [kind |-> kind, ctx |-> ctx]
             z == Bind(p, kind, ctx)
  <2>1. b \in Bindings BY <1>2, <1>4 DEF Bindings
  <2>2. z = [p EXCEPT !.s.targets[k].binding = b] OBVIOUS
  <2> HIDE DEF b, z
  <2>3. Rebound(p, z) BY <2>1, <2>2, BindRebinds
  <2> QED BY <2>3 DEF z
<1>6. ASSUME NEW op \in {"Start", "Resume", "Suspend", "Stop"}, NEW ctx \in Contexts
      PROVE  Effect(op, k, 0, ctx) \in CaptureEffects
  BY DEF Effect, CaptureEffects, Effects, EffectRecords, Addressed
<1> HIDE DEF now, old
<1>7. ASSUME NEW p \in Reductions, NEW op \in {"Start", "Resume"}
      PROVE  Rebound(p, Begun(p, op))
  <2>1. Effect(op, k, 0, now) \in CaptureEffects BY <1>2, <1>6
  <2> QED BY <2>1, EmitRebinds
<1>8. ASSUME NEW op \in {"Stop", "Suspend"} PROVE Rebound(r, Ended(op))
  <2>1. Effect(op, k, 0, old) \in CaptureEffects BY <1>2, <1>6
  <2> QED BY <2>1, TeardownRebinds
<1>9. Rebound(r, r) BY DEF Rebound
<1> HIDE DEF q, Bind, Begun, Ended
<1>10. q = Bind(r, "Terminal", NoContext) => Rebound(r, q) BY <1>5
<1>11. ASSUME NEW op \in {"Start", "Resume"}, q = Bind(Begun(r, op), "Active", now)
       PROVE  Rebound(r, q)
  <2>1. Rebound(r, Begun(r, op)) BY <1>7
  <2>2. Begun(r, op) \in Reductions BY <2>1 DEF Rebound
  <2>3. Rebound(Begun(r, op), q) BY <1>5, <1>11, <2>2
  <2> QED BY <2>1, <2>3, ReboundOn
<1>12. ASSUME q = Bind(Begun(Ended("Stop"), "Start"), "Active", now) PROVE Rebound(r, q)
  <2> DEFINE a == Ended("Stop")
             b == Begun(a, "Start")
  <2>1. Rebound(r, a) BY <1>8
  <2> HIDE DEF a
  <2>2. a \in Reductions BY <2>1 DEF Rebound
  <2>3. Rebound(a, b) BY <1>7, <2>2
  <2>4. q = Bind(b, "Active", now) BY <1>12 DEF a
  <2> HIDE DEF b
  <2>5. b \in Reductions BY <2>3 DEF Rebound
  <2>6. Rebound(b, q) BY <1>5, <2>4, <2>5
  <2>7. Rebound(r, b) BY <2>1, <2>3, ReboundOn
  <2> QED BY <2>6, <2>7, ReboundOn
<1>13. ASSUME NEW op \in {"Stop", "Suspend"}, NEW kind \in {"Terminal", "Suspended", "Inactive"},
              NEW ctx \in {NoContext, old}, q = Bind(Ended(op), kind, ctx)
       PROVE  Rebound(r, q)
  <2>1. Rebound(r, Ended(op)) BY <1>8
  <2>2. Ended(op) \in Reductions BY <2>1 DEF Rebound
  <2>3. Rebound(Ended(op), q) BY <1>5, <1>13, <2>2
  <2> QED BY <2>1, <2>3, ReboundOn
<1> QED BY <1>3, <1>9, <1>10, <1>11, <1>12, <1>13 DEF q

\* rebind_captures: the bindings of all targets.
LEMMA RebindAllRebinds ==
    ASSUME NEW r \in Reductions
    PROVE  Rebound(r, RebindAll(r))
<1> DEFINE S == {q \in Reductions : Rebound(r, q)}
<1>1. r \in S BY DEF Rebound
<1>2. ASSUME NEW q \in S, NEW k \in Keys PROVE Rebind(q, k) \in S
  <2>1. q \in Reductions /\ Rebound(r, q) OBVIOUS
  <2>2. Rebound(q, Rebind(q, k)) BY <2>1, RebindRebinds
  <2>3. Rebound(r, Rebind(q, k)) BY <2>1, <2>2, ReboundOn
  <2> QED BY <2>3 DEF Rebound
<1> HIDE DEF S
<1>3. RebindAll(r) \in S BY <1>1, <1>2, RebindsInOrder
<1> QED BY <1>3 DEF S

\* reduce binds the captures after every input that it handles.
LEMMA RebindingIsLawful ==
    ASSUME NEW ss, NEW r, Lawful(r, ss)
    PROVE  Lawful(RebindAll(r), ss)
<1> DEFINE q == RebindAll(r)
<1>1. Rebound(r, q) BY RebindAllRebinds DEF Lawful
<1> HIDE DEF q
<1>2. q.s \in States BY <1>1 DEF Rebound, Reductions
<1>3. Homes(q.s, ss) /\ Mapped(q.s)
  BY <1>1 DEF Rebound, Lawful, Sound, Books, Homes, Mapped, Alive, Known
<1>4. Selects(r.s) => Selects(q.s)
  BY <1>1, <1>2 DEF Rebound, Selects, Candidate, States
<1>5. Calm(r.s) => Calm(q.s) BY <1>1 DEF Rebound, Calm, Alive, Known
<1>6. Sound(q.s, ss) BY <1>1, <1>2, <1>3, <1>4, <1>5 DEF Rebound, Lawful, Sound, Books
<1>7. Lawful(q, ss) BY <1>1, <1>6 DEF Rebound, Lawful
<1> QED BY <1>7 DEF q

-------------------------------------------------------------------------------
(* reduce: every input. *)

\* The inputs that are about one page.
Keyed ==
    {"TargetCreated", "TargetInfoChanged", "Attached", "TargetAttachFailed", "TargetDestroyed",
     "VisibilityChanged", "DomainSetupFailed", "InitialVisibilityProbeFailed", "SelectTarget",
     "ViewportOverrideApplied"}

\* Every kind of input the supervisor handles.
InputTypes ==
    Keyed \cup {"InitialTargets", "InitialReconciliationCompleted", "CaptureStartFailed",
                "Detached", "CaptureVisibilityChanged", "ConnectionLost", "Reconnected",
                "ReconnectExhausted", "StopRequested", "BrowserProcessTerminated"}

\* What an input may say.
InputRecords ==
    [type : InputTypes, key : Keys \cup {0}, session : Nat, recordable : BOOLEAN, gen : Nat,
     open : SUBSET Keys, seen : Visibilities, at : Nat, ctx : Contexts,
     restored : SUBSET (Keys \X Nat)]

\* An input that names a page and a session names a session of that page.
Named(i, ss) ==
    /\ i.type \in Keyed => i.key \in Keys
    /\ i.type = "Attached" => Of(ss, i.session, i.key)
    /\ i.type = "Reconnected" => \A p \in i.restored : Of(ss, p[2], p[1])

\* The inputs the browser and the supervisor's own commands produce.
Inputs(ss) == {i \in InputRecords : Named(i, ss)}

\* The coordinator's answer to a page that was shown or hidden.
LEMMA CaptureVisibilityKeeps ==
    ASSUME NEW ss \in SessionLists, NEW r \in Reductions, Books(r.s, ss), NEW i \in InputRecords,
           NEW ks, ks = {k \in Keys : Known(r.s.targets[k]) /\ r.s.targets[k].id = i.ctx.id},
           NEW q, q = IF ks = {} THEN r ELSE VisibilityChanged(r, Min(ks), i.seen, i.at)
    PROVE  Keeps(r, q, ss)
<1>1. Keeps(r, r, ss) BY DEF Keeps
<1>2. ASSUME ks # {} PROVE Keeps(r, VisibilityChanged(r, Min(ks), i.seen, i.at), ss)
  <2> DEFINE k == Min(ks)
  <2>1. k \in Keys
    <3>1. ks \in SUBSET Keys OBVIOUS
    <3> QED BY <1>2, <3>1, LeastKey
  <2> HIDE DEF k
  <2>2. i.seen \in Visibilities /\ i.at \in Nat BY DEF InputRecords
  <2>3. Keeps(r, VisibilityChanged(r, k, i.seen, i.at), ss) BY <2>1, <2>2, VisibilityKeeps
  <2> QED BY <2>3 DEF k
<1> QED BY <1>1, <1>2

\* An input that a reconnect fences off is handled in another phase.
LEMMA FencedKeeps ==
    ASSUME NEW ss \in SessionLists, NEW r \in Reductions, Books(r.s, ss), NEW i \in Inputs(ss),
           i.type \in Fenced
    PROVE  Keeps(r, Handle(r, i), ss)
<1> DEFINE q == Handle(r, i)
<1>1. i \in InputRecords /\ Named(i, ss) BY DEF Inputs
<1>2. CASE i.type = "InitialTargets"
  <2>1. q = ReconcileInitial(r, i.open) BY <1>2 DEF Handle
  <2>2. i.open \in SUBSET Keys BY <1>1 DEF InputRecords
  <2> QED BY <2>1, <2>2, ReconcileInitialKeeps
<1>3. CASE i.type \in {"TargetCreated", "TargetInfoChanged"}
  <2>1. q = ReconcileOne(r, i.key, i.recordable, i.type = "TargetCreated")
    BY <1>3 DEF Handle
  <2>2. i.key \in Keys /\ i.recordable \in BOOLEAN /\ (i.type = "TargetCreated") \in BOOLEAN
    BY <1>1, <1>3 DEF Named, Keyed, InputRecords
  <2> QED BY <2>1, <2>2, ReconcileOneKeeps
<1>4. CASE i.type = "Attached"
  <2>1. q = AttachSession(r, i.key, i.session, TRUE) BY <1>4 DEF Handle
  <2>2. i.key \in Keys /\ i.session \in Nat /\ Of(ss, i.session, i.key)
    BY <1>1, <1>4 DEF Named, Keyed, InputRecords
  <2> QED BY <2>1, <2>2, AttachKeeps
<1>5. CASE i.type = "TargetAttachFailed"
  <2>1. q = AttachFailed(r, i.key) BY <1>5 DEF Handle
  <2>2. i.key \in Keys BY <1>1, <1>5 DEF Named, Keyed
  <2> QED BY <2>1, <2>2, AttachFailedKeeps
<1>6. CASE i.type = "Detached"
  <2>1. q = Detached(r, i.session) BY <1>6 DEF Handle
  <2>2. i.session \in Nat BY <1>1 DEF InputRecords
  <2> QED BY <2>1, <2>2, DetachedKeeps
<1>7. CASE i.type = "TargetDestroyed"
  <2> DEFINE held == PendingOf(r.s, i.key)
             r1 == [r EXCEPT !.s = DropPending(r.s, held)]
  <2>1. q = Destroy(IF held = {} THEN r1
                    ELSE Emit(r1, Detach(r.s.pending[Min(held)].session)), i.key)
    BY <1>7 DEF Handle
  <2>2. i.key \in Keys BY <1>1, <1>7 DEF Named, Keyed
  <2>3. held = PendingOf(r.s, i.key) /\ r1 = [r EXCEPT !.s = DropPending(r.s, held)] OBVIOUS
  <2> HIDE DEF held, r1, q
  <2>4. Keeps(r, q, ss) BY <2>1, <2>2, <2>3, TargetDestroyedKeeps
  <2> QED BY <2>4 DEF q
<1>8. CASE i.type = "VisibilityChanged"
  <2>1. q = VisibilityChanged(r, i.key, i.seen, i.at) BY <1>8 DEF Handle
  <2>2. i.key \in Keys /\ i.seen \in Visibilities /\ i.at \in Nat
    BY <1>1, <1>8 DEF Named, Keyed, InputRecords
  <2> QED BY <2>1, <2>2, VisibilityKeeps
<1>9. CASE i.type = "CaptureVisibilityChanged"
  <2> DEFINE ks == {k \in Keys : Known(r.s.targets[k]) /\ r.s.targets[k].id = i.ctx.id}
  <2>1. q = IF ks = {} THEN r ELSE VisibilityChanged(r, Min(ks), i.seen, i.at)
    BY <1>9 DEF Handle
  <2>2. ks = {k \in Keys : Known(r.s.targets[k]) /\ r.s.targets[k].id = i.ctx.id} OBVIOUS
  <2> HIDE DEF ks, q
  <2>3. Keeps(r, q, ss) BY <1>1, <2>1, <2>2, CaptureVisibilityKeeps
  <2> QED BY <2>3 DEF q
<1>10. CASE i.type \in {"SelectTarget", "ViewportOverrideApplied"}
  <2>1. q \in {SelectTarget(r, i.key), OverrideApplied(r, i.key)} BY <1>10 DEF Handle
  <2>2. i.key \in Keys BY <1>1, <1>10 DEF Named, Keyed
  <2> HIDE DEF q
  <2>3. Keeps(r, q, ss) BY <2>1, <2>2, SelectKeeps
  <2> QED BY <2>3 DEF q
<1> QED BY <1>2, <1>3, <1>4, <1>5, <1>6, <1>7, <1>8, <1>9, <1>10 DEF Fenced

\* What is handled in every phase.
LEMMA OthersAreLawful ==
    ASSUME NEW ss \in SessionLists, NEW r \in Reductions, Sound(r.s, ss), r.fx = <<>>,
           NEW i \in Inputs(ss), i.type \notin Fenced,
           i.type = "Reconnected" => r.s.phase = "Reconnecting"
    PROVE  Lawful(Handle(r, i), ss)
<1> DEFINE q == Handle(r, i)
<1>1. i \in InputRecords /\ Named(i, ss) BY DEF Inputs
<1>2. Books(r.s, ss) /\ NoReconnect(r.fx)
  <2>1. <<>> \in Seq(PlainEffects) OBVIOUS
  <2> QED BY <2>1 DEF Sound, NoReconnect, PlainEffects
<1>3. CASE i.type = "InitialReconciliationCompleted"
  <2>1. q = InitialCompleted(r) BY <1>3 DEF Handle
  <2> QED BY <1>2, <2>1, InitialCompletedIsLawful
<1>4. CASE i.type = "CaptureStartFailed"
  <2> DEFINE p == StartFailed(r, i.ctx)
  <2>1. q = p BY <1>4 DEF Handle
  <2>2. Keeps(r, p, ss) /\ (Calm(r.s) => Calm(p.s)) BY <1>2, StartFailedKeeps
  <2> HIDE DEF p
  <2>3. Lawful(p, ss) BY <1>2, <2>2, KeepingIsLawful DEF Sound
  <2> QED BY <2>1, <2>3
<1>5. CASE i.type = "DomainSetupFailed"
  <2> DEFINE p == DomainSetupFailed(r, i.key)
  <2>1. q = p BY <1>5 DEF Handle
  <2>2. i.key \in Keys BY <1>1, <1>5 DEF Named, Keyed
  <2>3. Keeps(r, p, ss) /\ (Calm(r.s) => Calm(p.s)) BY <1>2, <2>2, DomainSetupFailedKeeps
  <2> HIDE DEF p
  <2>4. Lawful(p, ss) BY <1>2, <2>3, KeepingIsLawful DEF Sound
  <2> QED BY <2>1, <2>4
<1>6. CASE i.type = "InitialVisibilityProbeFailed"
  <2> DEFINE p == ProbeFailed(r, i.key)
  <2>1. q = p BY <1>6 DEF Handle
  <2>2. i.key \in Keys BY <1>1, <1>6 DEF Named, Keyed
  <2>3. Keeps(r, p, ss) /\ (Calm(r.s) => Calm(p.s)) BY <1>2, <2>2, ProbeFailedKeeps
  <2> HIDE DEF p
  <2>4. Lawful(p, ss) BY <1>2, <2>3, KeepingIsLawful DEF Sound
  <2> QED BY <2>1, <2>4
<1>7. CASE i.type = "ConnectionLost"
  <2>1. q = ConnectionLost(r) BY <1>7 DEF Handle
  <2> QED BY <2>1, ConnectionLostIsLawful
<1>8. CASE i.type = "Reconnected"
  <2>1. q = Reconnected(r, i.gen, i.restored) BY <1>8 DEF Handle
  <2>2. /\ i.gen \in Nat /\ i.restored \in SUBSET (Keys \X Nat)
        /\ \A p \in i.restored : Of(ss, p[2], p[1])
    BY <1>1, <1>8 DEF Named, InputRecords
  <2> HIDE DEF q
  <2>3. Lawful(q, ss) BY <1>2, <1>8, <2>1, <2>2, ReconnectedIsLawful
  <2> QED BY <2>3 DEF q
<1>9. CASE i.type \in {"ReconnectExhausted", "StopRequested", "BrowserProcessTerminated"}
  <2>1. q = BeginShutdown(r) BY <1>9 DEF Handle
  <2> QED BY <1>2, <2>1, ShutdownIsLawful
<1> QED
  BY <1>1, <1>3, <1>4, <1>5, <1>6, <1>7, <1>8, <1>9 DEF Fenced, InputRecords, InputTypes, Keyed

\* Whatever the input: what the supervisor knows of its targets stays sound.
LEMMA ReduceIsLawful ==
    ASSUME NEW ss \in SessionLists, NEW s, Sound(s, ss), NEW i \in Inputs(ss),
           i.type = "Reconnected" => s.phase = "Reconnecting"
    PROVE  Lawful(Reduce(s, i), ss)
<1> DEFINE r == Reduction(s)
           q == Handle(r, i)
<1>1. r \in Reductions /\ r.s = s /\ r.fx = <<>> /\ NoReconnect(r.fx)
  <2>1. <<>> \in Seq(PlainEffects) /\ <<>> \in Seq(Effects) OBVIOUS
  <2>2. s \in States BY DEF Sound, Books
  <2> QED BY <2>1, <2>2 DEF Reduction, Reductions, NoReconnect, PlainEffects
<1>2. Lawful(r, ss) BY <1>1 DEF Lawful
<1>3. Reduce(s, i) = r \/ (/\ Reduce(s, i) = RebindAll(q)
                           /\ i.type \in Fenced => s.phase # "Reconnecting")
  BY DEF Reduce
<1> HIDE DEF r
<1>4. ASSUME i.type \in Fenced => s.phase # "Reconnecting" PROVE Lawful(q, ss)
  <2>1. CASE i.type \in Fenced
    <3>1. Keeps(r, q, ss) BY <1>1, <2>1, FencedKeeps DEF Sound
    <3> QED BY <1>1, <1>4, <2>1, <3>1, KeepingIsLawful
  <2>2. CASE i.type \notin Fenced BY <1>1, <2>2, OthersAreLawful
  <2> QED BY <2>1, <2>2
<1> HIDE DEF q
<1>5. Lawful(q, ss) => Lawful(RebindAll(q), ss) BY RebindingIsLawful
<1> QED BY <1>2, <1>3, <1>4, <1>5

-------------------------------------------------------------------------------
(* The inductive invariant: the world and what the supervisor has in mind. *)

\* The inputs that are queued or come from an operation: Reconnected is made by the attempt.
Reports(ss) == {i \in Inputs(ss) : i.type # "Reconnected"}

\* What the pumps have written and the supervisor has not read.
Queues(ss) == [Kinds -> Seq(Reports(ss))]

\* Where run_supervisor is.
Stages == {"idle", "applying", "backoff", "attaching", "domains", "staging", "probing", "ended"}

\* The supervisor's task: its effects, what follows them, and the attempt with its draft.
Runs ==
    [pc : Stages, fx : Seq(Effects), then : {"idle", "select", "initial", "reconnect", "end"},
     key : Keys \cup {0}, attempts : Nat, left : SUBSET Keys, restored : SUBSET (Keys \X Nat),
     draft : States, staged : Seq(Effects), failed : SUBSET Nat, before : Nat,
     blamed : BOOLEAN, erased : BOOLEAN]

\* What is left of the bounds of a run, and the ghosts.
Bounds ==
    [navigations : Nat, drops : Nat, faults : Nat, operations : Nat,
     unreliable : SUBSET Commands, switches : Nat, released : SUBSET Nat]

\* The connection.
Links == [up : BOOLEAN, gen : Nat]

\* The browser, its events and the coordinator.
World ==
    /\ page \in [Keys -> {"none", "open", "internal", "gone"}]
    /\ shown \in [Keys -> BOOLEAN]
    /\ sessions \in SessionLists
    /\ link \in Links
    /\ queue \in Queues(sessions)
    /\ captures \in SUBSET Contexts /\ IsFiniteSet(captures)
    /\ used \in Bounds

\* The stages of a reconnect.
Away == {"backoff", "attaching", "domains", "staging", "probing"}

\* The supervisor: where run_supervisor is, and the phase the committed state is in.
Mind(s, r, ss) ==
    /\ Sound(s, ss)
    /\ r \in Runs
    /\ Sound(r.draft, ss)
    /\ \A p \in r.restored : Of(ss, p[2], p[1])
    /\ r.pc \in Away => s.phase = "Reconnecting"
    /\ r.pc = "applying" /\ r.then = "reconnect" => s.phase = "Reconnecting" /\ r.fx \in Seq(Quiet)
    /\ r.then = "select" => r.key \in Keys

IInv == World /\ Mind(sup, run, sessions)

\* Sessions are added, and keep their pages.
Grows(ss, tt) == tt \in SessionLists /\ \A s, k : Of(ss, s, k) => Of(tt, s, k)

\* A session more makes no input wrong.
LEMMA InputsGrow ==
    ASSUME NEW ss, NEW tt, Grows(ss, tt)
    PROVE  Reports(ss) \subseteq Reports(tt) /\ Inputs(ss) \subseteq Inputs(tt)
BY DEF Grows, Reports, Inputs, Named

\* A session more makes no queued event wrong.
LEMMA QueuesGrow ==
    ASSUME NEW ss, NEW tt, Grows(ss, tt), NEW q \in Queues(ss)
    PROVE  q \in Queues(tt)
<1>1. Reports(ss) \subseteq Reports(tt) BY InputsGrow
<1> DEFINE A == Reports(ss)
           B == Reports(tt)
<1> HIDE DEF A, B
<1>2. q \in [Kinds -> Seq(A)] BY DEF Queues, A
<1>3. A \subseteq B BY <1>1 DEF A, B
<1>4. ASSUME NEW n \in Kinds PROVE q[n] \in Seq(B)
  <2>1. q[n] \in Seq(A) BY <1>2
  <2> QED BY <1>3, <2>1, WiderSequence
<1>5. q \in [Kinds -> Seq(B)] BY <1>2, <1>4
<1> QED BY <1>5 DEF Queues, B

\* A session more makes no target wrong.
LEMMA SoundGrows ==
    ASSUME NEW ss, NEW tt, Grows(ss, tt), NEW s, Sound(s, ss)
    PROVE  Sound(s, tt)
<1>1. Waiting(ss) \subseteq Waiting(tt) BY DEF Grows, Waiting
<1>2. s.pending \in Seq(Waiting(ss)) BY DEF Sound, Books, Homes
<1>3. s.pending \in Seq(Waiting(tt)) BY <1>1, <1>2, WiderSequence
<1>4. Homes(s, tt) BY <1>3 DEF Sound, Books, Homes, Grows
<1> QED BY <1>4 DEF Sound, Books

\* A session more makes nothing wrong that the supervisor has in mind.
LEMMA MindGrows ==
    ASSUME NEW ss, NEW tt, Grows(ss, tt), NEW s, NEW r, Mind(s, r, ss)
    PROVE  Mind(s, r, tt)
<1>1. Sound(s, tt) /\ Sound(r.draft, tt) BY SoundGrows DEF Mind
<1>2. \A p \in r.restored : Of(tt, p[2], p[1]) BY DEF Mind, Grows
<1> QED BY <1>1, <1>2 DEF Mind

\* attachToTarget hands out one session more.
LEMMA NewSessionGrows ==
    ASSUME sessions \in SessionLists, NEW k \in Keys
    PROVE  /\ NewSession(k) \in SessionLists /\ Grows(sessions, NewSession(k))
           /\ Len(sessions) + 1 \in Nat /\ Of(NewSession(k), Len(sessions) + 1, k)
<1> DEFINE S == [key : Keys, live : BOOLEAN]
           e == [key |-> k, live |-> TRUE]
           tt == NewSession(k)
<1>1. sessions \in Seq(S) BY DEF SessionLists
<1>2. e \in S /\ e.key = k OBVIOUS
<1>3. tt = Append(sessions, e) BY DEF NewSession
<1> HIDE DEF S, e, tt
<1>4. /\ tt \in Seq(S) /\ Len(tt) = Len(sessions) + 1 /\ Len(sessions) \in Nat
      /\ \A n \in 1 .. Len(sessions) : tt[n] = sessions[n]
      /\ tt[Len(sessions) + 1] = e /\ DOMAIN tt = 1 .. Len(tt)
      /\ DOMAIN sessions = 1 .. Len(sessions)
  BY <1>1, <1>2, <1>3
<1>5. tt \in SessionLists BY <1>4 DEF SessionLists, S
<1>6. Grows(sessions, tt) BY <1>4, <1>5 DEF Grows, Of
<1> QED BY <1>2, <1>4, <1>5, <1>6 DEF Of, tt

\* Sessions that die keep their number and their page.
LEMMA KillGrows ==
    ASSUME sessions \in SessionLists, NEW dead
    PROVE  Kill(dead) \in SessionLists /\ Grows(sessions, Kill(dead))
<1> DEFINE S == [key : Keys, live : BOOLEAN]
           one(s) == [sessions[s] EXCEPT !.live = sessions[s].live /\ s \notin dead]
           tt == Kill(dead)
<1>1. sessions \in Seq(S) BY DEF SessionLists
<1>2. tt = [s \in DOMAIN sessions |-> one(s)] BY DEF Kill
<1>3. ASSUME NEW s \in 1 .. Len(sessions) PROVE one(s) \in S /\ one(s).key = sessions[s].key
  <2>1. sessions[s] \in S BY <1>1, <1>3, ElementOfSeq
  <2> QED BY <2>1
<1> HIDE DEF S, one, tt
<1>4. Len(sessions) \in Nat /\ DOMAIN sessions = 1 .. Len(sessions) BY <1>1
<1>5. tt \in Seq(S) /\ DOMAIN tt = DOMAIN sessions /\ \A s \in DOMAIN sessions : tt[s].key = sessions[s].key
  BY <1>2, <1>3, <1>4
<1>6. tt \in SessionLists BY <1>5 DEF SessionLists, S
<1>7. Grows(sessions, tt) BY <1>5, <1>6 DEF Grows, Of
<1> QED BY <1>6, <1>7 DEF tt

\* Nothing changes.
LEMMA StayingGrows ==
    ASSUME NEW ss \in SessionLists PROVE Grows(ss, ss)
BY DEF Grows

\* An input of one kind and one key, every other field at rest.
LEMMA InputIsTyped ==
    ASSUME NEW type \in InputTypes, NEW k \in Keys \cup {0}
    PROVE  /\ Input(type, k) \in InputRecords /\ Input(type, k).type = type
           /\ Input(type, k).key = k
BY NothingIsTyped DEF Input, InputRecords, Visibilities

\* Inputs that name a page, or nothing.
LEMMA PlainInputs ==
    ASSUME NEW ss, NEW type \in InputTypes \ {"Attached", "Reconnected"}, NEW k \in Keys \cup {0},
           type \in Keyed => k \in Keys
    PROVE  Input(type, k) \in Reports(ss)
<1>1. Input(type, k) \in InputRecords /\ Input(type, k).type = type /\ Input(type, k).key = k
  BY InputIsTyped
<1> QED BY <1>1 DEF Reports, Inputs, Named

\* The info of a page says whether it is recordable.
LEMMA InfoInputs ==
    ASSUME NEW ss, NEW type \in {"TargetCreated", "TargetInfoChanged"}, NEW k \in Keys, NEW kind
    PROVE  InfoInput(type, k, kind) \in Reports(ss)
<1> DEFINE i == Input(type, k)
           j == InfoInput(type, k, kind)
<1>1. i \in InputRecords /\ i.type = type /\ i.key = k
  BY InputIsTyped DEF InputTypes, Keyed
<1>2. j = [i EXCEPT !.recordable = (kind = "open")] BY DEF InfoInput
<1> HIDE DEF i, j
<1>3. j \in InputRecords /\ j.type = type /\ j.key = k BY <1>1, <1>2 DEF InputRecords
<1>4. j \in Reports(ss) BY <1>3 DEF Reports, Inputs, Named
<1> QED BY <1>4 DEF j

\* An attachment names a session of its page.
LEMMA AttachedInputs ==
    ASSUME NEW ss, NEW k \in Keys, NEW s \in Nat, Of(ss, s, k)
    PROVE  [Input("Attached", k) EXCEPT !.session = s] \in Reports(ss)
<1> DEFINE i == Input("Attached", k)
           j == [i EXCEPT !.session = s]
<1>1. i \in InputRecords /\ i.type = "Attached" /\ i.key = k
  BY InputIsTyped DEF InputTypes, Keyed
<1> HIDE DEF i
<1>2. j \in InputRecords /\ j.type = "Attached" /\ j.key = k /\ j.session = s
  BY <1>1 DEF InputRecords
<1> HIDE DEF j
<1>3. j \in Reports(ss) BY <1>2 DEF Reports, Inputs, Named
<1> QED BY <1>3 DEF j, i

\* A detach names a session.
LEMMA DetachedInputs ==
    ASSUME NEW ss, NEW s \in Nat
    PROVE  [Input("Detached", 0) EXCEPT !.session = s] \in Reports(ss)
<1> DEFINE i == Input("Detached", 0)
           j == [i EXCEPT !.session = s]
<1>1. i \in InputRecords /\ i.type = "Detached" BY InputIsTyped DEF InputTypes
<1> HIDE DEF i
<1>2. j \in InputRecords /\ j.type = "Detached" BY <1>1 DEF InputRecords
<1> HIDE DEF j
<1>3. j \in Reports(ss) BY <1>2 DEF Reports, Inputs, Named, Keyed
<1> QED BY <1>3 DEF j, i

\* A list of pages.
LEMMA OpenInputs ==
    ASSUME NEW ss, NEW open \in SUBSET Keys
    PROVE  [Input("InitialTargets", 0) EXCEPT !.open = open] \in Reports(ss)
<1> DEFINE i == Input("InitialTargets", 0)
           j == [i EXCEPT !.open = open]
<1>1. i \in InputRecords /\ i.type = "InitialTargets" BY InputIsTyped DEF InputTypes
<1> HIDE DEF i
<1>2. j \in InputRecords /\ j.type = "InitialTargets" BY <1>1 DEF InputRecords
<1> HIDE DEF j
<1>3. j \in Reports(ss) BY <1>2 DEF Reports, Inputs, Named, Keyed
<1> QED BY <1>3 DEF j, i

\* A snapshot of the attempt names sessions of the pages it attached.
LEMMA RestoredInputs ==
    ASSUME NEW ss, NEW gen \in Nat, NEW restored \in SUBSET (Keys \X Nat),
           \A p \in restored : Of(ss, p[2], p[1])
    PROVE  [Input("Reconnected", 0) EXCEPT !.gen = gen, !.restored = restored] \in Inputs(ss)
<1> DEFINE i == Input("Reconnected", 0)
           j == [i EXCEPT !.gen = gen, !.restored = restored]
<1>1. i \in InputRecords /\ i.type = "Reconnected" BY InputIsTyped DEF InputTypes
<1> HIDE DEF i
<1>2. j \in InputRecords /\ j.type = "Reconnected" /\ j.restored = restored
  BY <1>1 DEF InputRecords
<1> HIDE DEF j
<1>3. j \in Inputs(ss) BY <1>2 DEF Inputs, Named, Keyed
<1> QED BY <1>3 DEF j, i

\* What a probe sees.
LEMMA SeenInputs ==
    ASSUME NEW ss, NEW k \in Keys, used \in Bounds
    PROVE  Seen(k) \in Reports(ss)
<1> DEFINE i == Input("VisibilityChanged", k)
           j == Seen(k)
<1>1. i \in InputRecords /\ i.type = "VisibilityChanged" /\ i.key = k
  BY InputIsTyped DEF InputTypes, Keyed
<1>2. j = [i EXCEPT !.seen = Visibility(k), !.at = used.switches] BY DEF Seen
<1> HIDE DEF i, j
<1>3. Visibility(k) \in Visibilities BY DEF Visibility, Visibilities
<1>4. used.switches \in Nat BY DEF Bounds
<1>5. j \in InputRecords /\ j.type = "VisibilityChanged" /\ j.key = k
  BY <1>1, <1>2, <1>3, <1>4 DEF InputRecords
<1>6. j \in Reports(ss) BY <1>5 DEF Reports, Inputs, Named
<1> QED BY <1>6 DEF j

\* A page that is shown or hidden, with its stamp.
LEMMA SwitchInputs ==
    ASSUME NEW ss, NEW seen \in {"Hidden", "Visible"}, NEW at \in Nat, NEW c \in Contexts
    PROVE  [Input("CaptureVisibilityChanged", 0) EXCEPT
              !.seen = seen, !.at = at, !.ctx = [NoContext EXCEPT !.id = c.id]] \in Reports(ss)
<1> DEFINE i == Input("CaptureVisibilityChanged", 0)
           x == [NoContext EXCEPT !.id = c.id]
           j == [i EXCEPT !.seen = seen, !.at = at, !.ctx = x]
<1>1. i \in InputRecords /\ i.type = "CaptureVisibilityChanged"
  BY InputIsTyped DEF InputTypes
<1>2. x \in Contexts
  <2>1. NoContext \in Contexts BY NothingIsTyped
  <2> QED BY <2>1 DEF Contexts
<1> HIDE DEF i, x
<1>3. j \in InputRecords /\ j.type = "CaptureVisibilityChanged"
  BY <1>1, <1>2 DEF InputRecords, Visibilities
<1> HIDE DEF j
<1>4. j \in Reports(ss) BY <1>3 DEF Reports, Inputs, Named, Keyed
<1> QED BY <1>4 DEF j, i, x

\* A capture that failed to start.
LEMMA FailureInputs ==
    ASSUME NEW ss, NEW c \in Contexts
    PROVE  [Input("CaptureStartFailed", 0) EXCEPT !.ctx = c] \in Reports(ss)
<1> DEFINE i == Input("CaptureStartFailed", 0)
           j == [i EXCEPT !.ctx = c]
<1>1. i \in InputRecords /\ i.type = "CaptureStartFailed" BY InputIsTyped DEF InputTypes
<1> HIDE DEF i
<1>2. j \in InputRecords /\ j.type = "CaptureStartFailed" BY <1>1 DEF InputRecords
<1> HIDE DEF j
<1>3. j \in Reports(ss) BY <1>2 DEF Reports, Inputs, Named, Keyed
<1> QED BY <1>3 DEF j, i

\* A pump stamps an event with the generation of its connection.
LEMMA StampedInputs ==
    ASSUME NEW ss, NEW i \in Reports(ss), NEW gen \in Nat
    PROVE  [i EXCEPT !.gen = gen] \in Reports(ss)
<1> DEFINE j == [i EXCEPT !.gen = gen]
<1>1. i \in InputRecords /\ Named(i, ss) /\ i.type # "Reconnected" BY DEF Reports, Inputs
<1>2. /\ j \in InputRecords /\ j.type = i.type /\ j.key = i.key /\ j.session = i.session
      /\ j.restored = i.restored
  BY <1>1 DEF InputRecords
<1> HIDE DEF j
<1>3. j \in Reports(ss) BY <1>1, <1>2 DEF Reports, Inputs, Named
<1> QED BY <1>3 DEF j

\* A reported event is queued behind the others of its kind.
LEMMA PutKeeps ==
    ASSUME NEW ss, NEW q \in Queues(ss), NEW kind \in Kinds, NEW i \in Reports(ss), link \in Links
    PROVE  Put(q, kind, i) \in Queues(ss)
<1> DEFINE A == Reports(ss)
           j == [i EXCEPT !.gen = link.gen]
<1>1. j \in A BY StampedInputs DEF Links
<1> HIDE DEF A, j
<1>2. q \in [Kinds -> Seq(A)] BY DEF Queues, A
<1>3. Put(q, kind, i) = q \/ Put(q, kind, i) = [q EXCEPT ![kind] = Append(q[kind], j)]
  BY DEF Put, j
<1>4. Append(q[kind], j) \in Seq(A) BY <1>1, <1>2
<1>5. [q EXCEPT ![kind] = Append(q[kind], j)] \in [Kinds -> Seq(A)] BY <1>2, <1>4
<1> QED BY <1>2, <1>3, <1>5 DEF Queues, A

\* The browser announces what happened to its observers, if there is a connection.
LEMMA AnnounceKeeps ==
    ASSUME NEW k \in Keys, NEW q \in Queues(NewSession(k)), sessions \in SessionLists, link \in Links
    PROVE  Announce(q, k) \in Queues(NewSession(k))
<1> DEFINE tt == NewSession(k)
           i == [Input("Attached", k) EXCEPT !.session = Len(sessions) + 1]
<1>1. i \in Reports(tt) BY NewSessionGrows, AttachedInputs
<1>2. Announce(q, k) = Put(q, "attached", i) BY DEF Announce
<1> HIDE DEF tt, i
<1>3. q \in Queues(tt) BY DEF tt
<1>4. Announce(q, k) \in Queues(tt) BY <1>1, <1>2, <1>3, PutKeeps DEF Kinds
<1> QED BY <1>4 DEF tt

\* The end of one session is queued.
Reported(q, s) == Put(q, "detached", [Input("Detached", 0) EXCEPT !.session = s])

\* One element more of a sequence.
Added(q, n, seq) == Append(q, seq[n])

\* The end of each of several sessions is reported.
LEMMA PutDetachedKeeps ==
    ASSUME NEW ss, NEW q0 \in Queues(ss), NEW dead \in SUBSET Nat, link \in Links,
           sessions \in SessionLists
    PROVE  PutDetached(q0, dead) \in Queues(ss)
<1> DEFINE S == Queues(ss)
           last == Len(sessions)
           turn == [x \in S \X Nat |-> IF x[2] \in dead THEN Reported(x[1], x[2]) ELSE x[1]]
           Turns(f) == [n \in 0 .. last |->
                          IF n = 0 THEN q0
                          ELSE IF n \in dead THEN Reported(f[n - 1], n) ELSE f[n - 1]]
           f == CHOOSE f : f = Turns(f)
           good == [n \in 0 .. last |-> S]
<1>0. q0 \in S /\ last \in Nat /\ \A q \in S, n \in dead : Reported(q, n) \in S
  <2>1. ASSUME NEW q \in S, NEW n \in dead
        PROVE  Reported(q, n) \in S
    BY DetachedInputs, PutKeeps DEF Kinds, Reported
  <2>2. Len(sessions) \in Nat BY DEF SessionLists
  <2> QED BY <2>1, <2>2
<1>6. PutDetached(q0, dead) = f[last] BY DEF PutDetached, Reported, InOrder
<1> HIDE DEF S, last
<1>1. turn \in [S \X Nat -> S] BY <1>0
<1>2. \A q \in S, n \in 1 .. last :
         turn[<<q, n>>] = (IF n \in dead THEN Reported(q, n) ELSE q)
  BY <1>1, <1>0
<1> HIDE DEF turn
<1>3. PICK g : Taken(g, S, last, q0, turn)
  <2>1. Takes(S, last, q0, turn) BY <1>0, <1>1 DEF Takes
  <2> QED BY <2>1, TurnsExist
<1>4. g = Turns(g)
  <2>1. ASSUME NEW n \in 1 .. last
        PROVE  g[n] = (IF n \in dead THEN Reported(g[n - 1], n) ELSE g[n - 1])
    <3>1. g[n - 1] \in S BY <1>0, <1>3 DEF Taken
    <3> QED BY <1>2, <1>3, <3>1 DEF Taken
  <2>2. \A n \in 0 .. last : g[n] = Turns(g)[n] BY <1>0, <1>3, <2>1 DEF Taken
  <2> QED BY <1>3, <2>2 DEF Taken
<1>5. f = Turns(f) BY <1>4
<1> HIDE DEF f
<1>7. \A n \in 0 .. last : f[n] \in good[n]
  <2>1. f[0] \in good[0] BY <1>0, <1>5
  <2>2. ASSUME NEW n \in 1 .. last, f[n - 1] \in good[n - 1] PROVE f[n] \in good[n]
    <3>1. f[n - 1] \in S /\ good[n] = S BY <1>0, <2>2
    <3>2. f[n] = (IF n \in dead THEN Reported(f[n - 1], n) ELSE f[n - 1]) BY <1>0, <1>5
    <3> QED BY <1>0, <3>1, <3>2
  <2> HIDE DEF good
  <2> QED BY <1>0, <2>1, <2>2, EveryTurnKeeps
<1>8. PutDetached(q0, dead) \in S BY <1>0, <1>6, <1>7
<1> QED BY <1>8 DEF S

\* Some of a sequence, in their order.
LEMMA OnlyKeeps ==
    ASSUME NEW T, NEW seq \in Seq(T), NEW kept \in SUBSET DOMAIN seq
    PROVE  Only(seq, kept) \in Seq(T)
<1> DEFINE S == Seq(T)
           last == Len(seq)
           turn == [x \in S \X Nat |-> IF x[2] \in kept THEN Added(x[1], x[2], seq) ELSE x[1]]
           Turns(f) == [n \in 0 .. last |->
                          IF n = 0 THEN <<>>
                          ELSE IF n \in kept THEN Added(f[n - 1], n, seq) ELSE f[n - 1]]
           f == CHOOSE f : f = Turns(f)
           good == [n \in 0 .. last |-> S]
<1>0. <<>> \in S /\ last \in Nat /\ \A q \in S, n \in kept : Added(q, n, seq) \in S
  <2>1. ASSUME NEW q \in S, NEW n \in kept PROVE Added(q, n, seq) \in S
    <3>1. seq[n] \in T BY ElementOfSeq
    <3> QED BY <3>1 DEF Added
  <2> QED BY <2>1
<1>6. Only(seq, kept) = f[last] BY DEF Only, Added, InOrder
<1> HIDE DEF S, last
<1>1. turn \in [S \X Nat -> S] BY <1>0
<1>2. \A q \in S, n \in 1 .. last :
         turn[<<q, n>>] = (IF n \in kept THEN Added(q, n, seq) ELSE q)
  BY <1>1, <1>0
<1> HIDE DEF turn
<1>3. PICK g : Taken(g, S, last, <<>>, turn)
  <2>1. Takes(S, last, <<>>, turn) BY <1>0, <1>1 DEF Takes
  <2> QED BY <2>1, TurnsExist
<1>4. g = Turns(g)
  <2>1. ASSUME NEW n \in 1 .. last
        PROVE  g[n] = (IF n \in kept THEN Added(g[n - 1], n, seq) ELSE g[n - 1])
    <3>1. g[n - 1] \in S BY <1>0, <1>3 DEF Taken
    <3> QED BY <1>2, <1>3, <3>1 DEF Taken
  <2>2. \A n \in 0 .. last : g[n] = Turns(g)[n] BY <1>0, <1>3, <2>1 DEF Taken
  <2> QED BY <1>3, <2>2 DEF Taken
<1>5. f = Turns(f) BY <1>4
<1> HIDE DEF f
<1>7. \A n \in 0 .. last : f[n] \in good[n]
  <2>1. f[0] \in good[0] BY <1>0, <1>5
  <2>2. ASSUME NEW n \in 1 .. last, f[n - 1] \in good[n - 1] PROVE f[n] \in good[n]
    <3>1. f[n - 1] \in S /\ good[n] = S BY <1>0, <2>2
    <3>2. f[n] = (IF n \in kept THEN Added(f[n - 1], n, seq) ELSE f[n - 1]) BY <1>0, <1>5
    <3> QED BY <1>0, <3>1, <3>2
  <2> HIDE DEF good
  <2> QED BY <1>0, <2>1, <2>2, EveryTurnKeeps
<1>8. Only(seq, kept) \in S BY <1>0, <1>6, <1>7
<1> QED BY <1>8 DEF S

\* Events of an older connection are taken out of a queue.
LEMMA UpToKeeps ==
    ASSUME NEW ss, NEW q \in Queues(ss), NEW gen
    PROVE  [n \in Kinds |-> UpTo(q[n], gen)] \in Queues(ss)
<1> DEFINE A == Reports(ss)
<1> HIDE DEF A
<1>1. q \in [Kinds -> Seq(A)] BY DEF Queues, A
<1>2. ASSUME NEW n \in Kinds PROVE UpTo(q[n], gen) \in Seq(A)
  <2> DEFINE kept == {m \in DOMAIN q[n] : q[n][m].gen <= gen}
  <2>1. q[n] \in Seq(A) /\ kept \in SUBSET DOMAIN q[n] BY <1>1
  <2>2. UpTo(q[n], gen) = Only(q[n], kept) BY DEF UpTo
  <2> HIDE DEF kept
  <2> QED BY <2>1, <2>2, OnlyKeeps
<1> QED BY <1>2 DEF Queues, A

\* What was taken from a queue leaves the rest of it.
LEMMA TakingKeeps ==
    ASSUME NEW ss, NEW q \in Queues(ss), NEW kind \in Kinds, q[kind] # <<>>
    PROVE  /\ [q EXCEPT ![kind] = Tail(q[kind])] \in Queues(ss)
           /\ Head(q[kind]) \in Reports(ss)
<1> DEFINE A == Reports(ss)
<1> HIDE DEF A
<1>1. q \in [Kinds -> Seq(A)] BY DEF Queues, A
<1>2. Tail(q[kind]) \in Seq(A) /\ Head(q[kind]) \in A BY <1>1
<1>3. [q EXCEPT ![kind] = Tail(q[kind])] \in [Kinds -> Seq(A)] BY <1>1, <1>2
<1> QED BY <1>2, <1>3 DEF Queues, A

\* The effects of a reduction go before those that wait.
LEMMA AddingKeeps ==
    ASSUME NEW ss, NEW q \in Queues(ss), NEW kind \in Kinds, NEW more \in Seq(Reports(ss))
    PROVE  [q EXCEPT ![kind] = q[kind] \o more] \in Queues(ss)
<1> DEFINE A == Reports(ss)
<1> HIDE DEF A
<1>1. q \in [Kinds -> Seq(A)] /\ more \in Seq(A) BY DEF Queues, A
<1>2. q[kind] \o more \in Seq(A) BY <1>1, ConcatProperties
<1>3. [q EXCEPT ![kind] = q[kind] \o more] \in [Kinds -> Seq(A)] BY <1>1, <1>2
<1> QED BY <1>3 DEF Queues, A

\* A finite set has a sequence of its members.
LEMMA MembersInSequence ==
    ASSUME NEW S, IsFiniteSet(S)
    PROVE  /\ Cardinality(S) \in Nat
           /\ \A n \in 1 .. Cardinality(S) : SetToSeq(S)[n] \in S
<1>1. Cardinality(S) \in Nat /\ \E f : f \in Bijection(1 .. Cardinality(S), S)
  BY FS_CardinalityType DEF ExistsBijection
<1>2. PICK f : f \in Bijection(1 .. Cardinality(S), S) BY <1>1
<1>3. f \in [1 .. Cardinality(S) -> S] /\ IsInjective(f)
  BY <1>2 DEF Bijection, Injection, IsInjective
<1>4. SetToSeq(S) \in [1 .. Cardinality(S) -> S] BY <1>3 DEF SetToSeq
<1> QED BY <1>1, <1>4

-------------------------------------------------------------------------------
(* The browser. *)

\* One less of a bound.
LEMMA SpendingKeeps ==
    ASSUME used \in Bounds, NEW c \in {"navigations", "drops", "faults", "operations"}, used[c] > 0
    PROVE  Spend(c) \in Bounds
<1>1. used.navigations \in Nat /\ used.drops \in Nat /\ used.faults \in Nat /\ used.operations \in Nat
  BY DEF Bounds
<1>2. CASE c = "navigations"
  <2>1. used.navigations - 1 \in Nat BY <1>1, <1>2
  <2>2. Spend(c) = [used EXCEPT !.navigations = used.navigations - 1] BY <1>2 DEF Spend
  <2> QED BY <2>1, <2>2 DEF Bounds
<1>3. CASE c = "drops"
  <2>1. used.drops - 1 \in Nat BY <1>1, <1>3
  <2>2. Spend(c) = [used EXCEPT !.drops = used.drops - 1] BY <1>3 DEF Spend
  <2> QED BY <2>1, <2>2 DEF Bounds
<1>4. CASE c = "faults"
  <2>1. used.faults - 1 \in Nat BY <1>1, <1>4
  <2>2. Spend(c) = [used EXCEPT !.faults = used.faults - 1] BY <1>4 DEF Spend
  <2> QED BY <2>1, <2>2 DEF Bounds
<1>5. CASE c = "operations"
  <2>1. used.operations - 1 \in Nat BY <1>1, <1>5
  <2>2. Spend(c) = [used EXCEPT !.operations = used.operations - 1] BY <1>5 DEF Spend
  <2> QED BY <2>1, <2>2 DEF Bounds
<1> QED BY <1>2, <1>3, <1>4, <1>5

\* A command fails on a dead session, or on a live one at the cost of a fault.
LEMMA FailingKeeps ==
    ASSUME used \in Bounds, NEW kind, NEW works, Failing(kind, works)
    PROVE  used' \in Bounds
<1>1. CASE used' = used BY <1>1
<1>2. CASE used.faults > 0 /\ used' = Spend("faults") BY <1>2, SpendingKeeps
<1> QED BY <1>1, <1>2 DEF Failing

\* A page opens; the browser may attach to it by itself.
LEMMA PageOpensKeeps ==
    ASSUME IInv, NEW k \in Keys, NEW kind \in {"open", "internal"}, NEW auto \in BOOLEAN,
           PageOpens(k, kind, auto)
    PROVE  IInv'
<1> DEFINE q == Put(queue, "created", InfoInput("TargetCreated", k, kind))
<1>1. /\ page' = [page EXCEPT ![k] = kind] /\ used.navigations > 0
      /\ queue' = (IF auto THEN Announce(q, k) ELSE q)
      /\ sessions' = (IF auto THEN NewSession(k) ELSE sessions)
      /\ used' = Spend("navigations")
      /\ UNCHANGED <<sup, run, shown, link, captures>>
  BY DEF PageOpens
<1>2. World /\ Mind(sup, run, sessions) BY DEF IInv
<1>3. q \in Queues(sessions)
  <2>1. InfoInput("TargetCreated", k, kind) \in Reports(sessions) BY InfoInputs
  <2> QED BY <1>2, <2>1, PutKeeps DEF World, Kinds
<1> HIDE DEF q
<1>4. Grows(sessions, sessions') BY <1>1, <1>2, NewSessionGrows, StayingGrows DEF World
<1>5. queue' \in Queues(sessions')
  <2>1. CASE auto
    <3>1. q \in Queues(NewSession(k)) BY <1>1, <1>3, <1>4, <2>1, QueuesGrow
    <3>2. Announce(q, k) \in Queues(NewSession(k)) BY <1>2, <3>1, AnnounceKeeps DEF World
    <3> QED BY <1>1, <2>1, <3>2
  <2>2. CASE ~auto BY <1>1, <1>3, <2>2
  <2> QED BY <2>1, <2>2
<1>6. used' \in Bounds BY <1>1, <1>2, SpendingKeeps DEF World
<1>7. page' \in [Keys -> {"none", "open", "internal", "gone"}] BY <1>1, <1>2 DEF World
<1>8. sessions' \in SessionLists BY <1>4 DEF Grows
<1>9. World' BY <1>1, <1>2, <1>5, <1>6, <1>7, <1>8 DEF World
<1>10. Mind(sup', run', sessions') BY <1>1, <1>2, <1>4, MindGrows
<1> QED BY <1>9, <1>10 DEF IInv

\* A page becomes recordable or stops being it.
LEMMA PageNavigatesKeeps ==
    ASSUME IInv, NEW k \in Keys, PageNavigates(k)
    PROVE  IInv'
<1> DEFINE to == IF page[k] = "open" THEN "internal" ELSE "open"
           i == InfoInput("TargetInfoChanged", k, to)
<1>1. /\ page' = [page EXCEPT ![k] = to] /\ used.navigations > 0
      /\ queue' = Put(queue, "info", i) /\ used' = Spend("navigations")
      /\ UNCHANGED <<sup, run, shown, sessions, link, captures>>
  BY DEF PageNavigates
<1>2. World /\ Mind(sup, run, sessions) BY DEF IInv
<1>3. i \in Reports(sessions) BY InfoInputs
<1>4. to \in {"internal", "open"} OBVIOUS
<1> HIDE DEF i, to
<1>5. queue' \in Queues(sessions) BY <1>1, <1>2, <1>3, PutKeeps DEF World, Kinds
<1>6. used' \in Bounds BY <1>1, <1>2, SpendingKeeps DEF World
<1>7. page' \in [Keys -> {"none", "open", "internal", "gone"}] BY <1>1, <1>2, <1>4 DEF World
<1>8. World' BY <1>1, <1>2, <1>5, <1>6, <1>7 DEF World
<1> QED BY <1>1, <1>2, <1>8 DEF IInv

\* What the closing of a page changes.
LEMMA ClosingKeeps ==
    ASSUME World, NEW k \in Keys, ClosesPage(k), link' = link
    PROVE  /\ page' \in [Keys -> {"none", "open", "internal", "gone"}]
           /\ Grows(sessions, sessions') /\ queue' \in Queues(sessions')
<1> DEFINE dead == OfPage(k)
           q == PutDetached(queue, dead)
<1>1. /\ page' = [page EXCEPT ![k] = "gone"] /\ sessions' = Kill(dead)
      /\ queue' = Put(q, "destroyed", Input("TargetDestroyed", k))
  BY DEF ClosesPage
<1>2. dead \in SUBSET Nat BY DEF OfPage, World, SessionLists
<1> HIDE DEF dead
<1>3. q \in Queues(sessions) BY <1>2, PutDetachedKeeps DEF World
<1> HIDE DEF q
<1>4. Input("TargetDestroyed", k) \in Reports(sessions) BY PlainInputs DEF InputTypes, Keyed
<1>5. queue' \in Queues(sessions) BY <1>1, <1>3, <1>4, PutKeeps DEF World, Kinds
<1>6. Grows(sessions, sessions') BY <1>1, KillGrows DEF World
<1>7. queue' \in Queues(sessions') BY <1>5, <1>6, QueuesGrow
<1> QED BY <1>1, <1>6, <1>7 DEF World

\* A page closes, and its sessions end with it.
LEMMA PageClosesKeeps ==
    ASSUME IInv, NEW k \in Keys, PageCloses(k)
    PROVE  IInv'
<1>1. /\ used.navigations > 0 /\ ClosesPage(k) /\ used' = Spend("navigations")
      /\ UNCHANGED <<sup, run, shown, link, captures>>
  BY DEF PageCloses
<1>2. World /\ Mind(sup, run, sessions) BY DEF IInv
<1>3. /\ page' \in [Keys -> {"none", "open", "internal", "gone"}]
      /\ Grows(sessions, sessions') /\ queue' \in Queues(sessions')
  BY <1>1, <1>2, ClosingKeeps
<1>4. used' \in Bounds BY <1>1, <1>2, SpendingKeeps DEF World
<1>5. sessions' \in SessionLists BY <1>3 DEF Grows
<1>6. World' BY <1>1, <1>2, <1>3, <1>4, <1>5 DEF World
<1>7. Mind(sup', run', sessions') BY <1>1, <1>2, <1>3, MindGrows
<1> QED BY <1>6, <1>7 DEF IInv

\* Sessions that end: by a detach or with their connection.
LEMMA EndingKeeps ==
    ASSUME World, NEW dead \in SUBSET Nat, link' = link
    PROVE  /\ Grows(sessions, Kill(dead)) /\ PutDetached(queue, dead) \in Queues(Kill(dead))
           /\ queue \in Queues(Kill(dead))
<1>1. Grows(sessions, Kill(dead)) BY KillGrows DEF World
<1>2. PutDetached(queue, dead) \in Queues(sessions) BY PutDetachedKeeps DEF World
<1> QED BY <1>1, <1>2, QueuesGrow DEF World

\* A session ends while its page lives.
LEMMA SessionDetachesKeeps ==
    ASSUME IInv, NEW s \in DOMAIN sessions, SessionDetaches(s)
    PROVE  IInv'
<1>1. /\ used.faults > 0 /\ sessions' = Kill({s}) /\ queue' = PutDetached(queue, {s})
      /\ used' = Spend("faults")
      /\ UNCHANGED <<sup, run, page, shown, link, captures>>
  BY DEF SessionDetaches
<1>2. World /\ Mind(sup, run, sessions) BY DEF IInv
<1>3. {s} \in SUBSET Nat BY <1>2 DEF World, SessionLists
<1>4. Grows(sessions, sessions') /\ queue' \in Queues(sessions') BY <1>1, <1>2, <1>3, EndingKeeps
<1>5. used' \in Bounds BY <1>1, <1>2, SpendingKeeps DEF World
<1>6. sessions' \in SessionLists BY <1>4 DEF Grows
<1>7. World' BY <1>1, <1>2, <1>4, <1>5, <1>6 DEF World
<1>8. Mind(sup', run', sessions') BY <1>1, <1>2, <1>4, MindGrows
<1> QED BY <1>7, <1>8 DEF IInv

\* A capture that was told to run does not start.
LEMMA StartupFailsKeeps ==
    ASSUME IInv, NEW c \in captures, StartupFails(c)
    PROVE  IInv'
<1> DEFINE i == [Input("CaptureStartFailed", 0) EXCEPT !.ctx = c]
<1>1. /\ used.faults > 0 /\ captures' = captures \ {c}
      /\ queue' = [queue EXCEPT !["capture"] = Append(queue["capture"], i)]
      /\ used' = Spend("faults")
      /\ UNCHANGED <<sup, run, page, shown, sessions, link>>
  BY DEF StartupFails
<1>2. World /\ Mind(sup, run, sessions) BY DEF IInv
<1>3. i \in Reports(sessions) BY <1>2, FailureInputs DEF World
<1> HIDE DEF i
<1>4. queue' \in Queues(sessions)
  <2> DEFINE A == Reports(sessions)
  <2>1. queue \in [Kinds -> Seq(A)] /\ "capture" \in Kinds BY <1>2 DEF World, Queues, Kinds
  <2> HIDE DEF A
  <2>2. i \in A BY <1>3 DEF A
  <2>3. Append(queue["capture"], i) \in Seq(A) BY <2>1, <2>2
  <2>4. queue' \in [Kinds -> Seq(A)] BY <1>1, <2>1, <2>3
  <2> QED BY <2>4 DEF Queues, A
<1>5. used' \in Bounds BY <1>1, <1>2, SpendingKeeps DEF World
<1>6. IsFiniteSet(captures') /\ captures' \in SUBSET Contexts
  BY <1>1, <1>2, FS_RemoveElement DEF World
<1>7. World' BY <1>1, <1>2, <1>4, <1>5, <1>6 DEF World
<1> QED BY <1>1, <1>2, <1>7 DEF IInv

\* The connection drops, and every session with it.
LEMMA ConnectionDropsKeeps ==
    ASSUME IInv, ConnectionDrops
    PROVE  IInv'
<1> DEFINE i == Input("ConnectionLost", 0)
<1>1. /\ used.drops > 0 /\ link' = [link EXCEPT !.up = FALSE]
      /\ sessions' = Kill(DOMAIN sessions) /\ queue' = Put(queue, "lost", i)
      /\ used' = Spend("drops")
      /\ UNCHANGED <<sup, run, page, shown, captures>>
  BY DEF ConnectionDrops
<1>2. World /\ Mind(sup, run, sessions) BY DEF IInv
<1>3. i \in Reports(sessions) BY PlainInputs DEF InputTypes, Keyed
<1> HIDE DEF i
<1>4. queue' \in Queues(sessions) BY <1>1, <1>2, <1>3, PutKeeps DEF World, Kinds
<1>5. Grows(sessions, sessions') BY <1>1, <1>2, KillGrows DEF World
<1>6. queue' \in Queues(sessions') BY <1>4, <1>5, QueuesGrow
<1>7. used' \in Bounds BY <1>1, <1>2, SpendingKeeps DEF World
<1>8. link' \in Links BY <1>1, <1>2 DEF World, Links
<1>9. sessions' \in SessionLists BY <1>5 DEF Grows
<1>10. World' BY <1>1, <1>2, <1>6, <1>7, <1>8, <1>9 DEF World
<1>11. Mind(sup', run', sessions') BY <1>1, <1>2, <1>5, MindGrows
<1> QED BY <1>10, <1>11 DEF IInv

\* A page is shown or hidden, and the captures that run on it report it.
LEMMA VisibilitySwitchesKeeps ==
    ASSUME IInv, NEW k \in Keys, VisibilitySwitches(k)
    PROVE  IInv'
<1> DEFINE to == IF shown[k] THEN "Hidden" ELSE "Visible"
           watching == {c \in captures : Live(c.session) /\ sessions[c.session].key = k}
           Report(c) == [Input("CaptureVisibilityChanged", 0) EXCEPT
                           !.seen = to, !.at = used.switches + 1,
                           !.ctx = [NoContext EXCEPT !.id = c.id]]
           more == [n \in 1 .. Cardinality(watching) |-> Report(SetToSeq(watching)[n])]
<1>1. /\ used.navigations > 0 /\ shown' = [shown EXCEPT ![k] = ~shown[k]]
      /\ queue' = [queue EXCEPT !["capture"] = queue["capture"] \o more]
      /\ used' = [Spend("navigations") EXCEPT !.switches = Spend("navigations").switches + 1]
      /\ UNCHANGED <<sup, run, page, sessions, link, captures>>
  BY DEF VisibilitySwitches
<1>2. World /\ Mind(sup, run, sessions) BY DEF IInv
<1>3. watching \subseteq Contexts /\ IsFiniteSet(watching)
  BY <1>2, FS_Subset DEF World
<1>4. to \in {"Hidden", "Visible"} OBVIOUS
<1>5. used.switches + 1 \in Nat BY <1>2 DEF World, Bounds
<1>6. more \in Seq(Reports(sessions))
  <2>1. \A c \in Contexts : Report(c) \in Reports(sessions) BY <1>4, <1>5, SwitchInputs
  <2> HIDE DEF watching, Report
  <2>2. /\ Cardinality(watching) \in Nat
        /\ \A n \in 1 .. Cardinality(watching) : SetToSeq(watching)[n] \in watching
    BY <1>3, MembersInSequence
  <2>3. \A n \in 1 .. Cardinality(watching) : Report(SetToSeq(watching)[n]) \in Reports(sessions)
    BY <1>3, <2>1, <2>2
  <2> QED BY <2>2, <2>3
<1> HIDE DEF more
<1>7. queue' \in Queues(sessions) BY <1>1, <1>2, <1>6, AddingKeeps DEF World, Kinds
<1>8. used' \in Bounds
  <2>1. Spend("navigations") \in Bounds BY <1>1, <1>2, SpendingKeeps DEF World
  <2>2. Spend("navigations").switches + 1 \in Nat BY <2>1 DEF Bounds
  <2> QED BY <1>1, <2>1, <2>2 DEF Bounds
<1>9. shown' \in [Keys -> BOOLEAN] BY <1>1, <1>2 DEF World
<1>10. World' BY <1>1, <1>2, <1>7, <1>8, <1>9 DEF World
<1> QED BY <1>1, <1>2, <1>10 DEF IInv

\* Whatever the browser does.
LEMMA BrowserKeeps ==
    ASSUME IInv, Browser
    PROVE  IInv'
BY PageOpensKeeps, PageNavigatesKeeps, PageClosesKeeps, VisibilitySwitchesKeeps,
   SessionDetachesKeeps, StartupFailsKeeps, ConnectionDropsKeeps DEF Browser

-------------------------------------------------------------------------------
(* Effects, and the reductions nested in their application. *)

\* SupervisorState::new: no targets, no sessions, no selection.
LEMMA NewStateIsSound ==
    ASSUME NEW ss
    PROVE  Sound(NewState, ss)
<1> DEFINE ts == [k \in Keys |-> Unknown]
<1>1. ts \in [Keys -> TargetRecords] /\ \A k \in Keys : ts[k] = Unknown BY NothingIsTyped
<1>2. <<>> \in Seq([key : Keys, session : Nat]) /\ <<>> \in Seq(Waiting(ss)) OBVIOUS
<1>3. {} \in SUBSET (Nat \X Keys) OBVIOUS
<1> HIDE DEF ts
<1>4. /\ NewState.targets = ts /\ NewState.owner = {} /\ NewState.pending = <<>>
      /\ NewState.phase = "Connecting" /\ NewState \in States
  BY <1>1, <1>2, <1>3 DEF NewState, States, Phases, ts
<1>5. \A k \in Keys : NewState.targets[k].session = 0 BY <1>1, <1>4, NothingIsTyped
<1>6. Homes(NewState, ss) /\ Mapped(NewState) BY <1>2, <1>4, <1>5 DEF Homes, Mapped
<1> QED BY <1>4, <1>6 DEF Sound, Books

\* The reduction of a report, whatever the phase.
LEMMA ReportIsLawful ==
    ASSUME NEW ss \in SessionLists, NEW s, Sound(s, ss), NEW i \in Reports(ss)
    PROVE  Lawful(Reduce(s, i), ss)
BY ReduceIsLawful DEF Reports

\* A nested reduction: its state is committed, or an empty one.
LEMMA NestedKeeps ==
    ASSUME NEW ss \in SessionLists, Mind(sup, run, ss), run.pc = "applying",
           run.then # "reconnect", NEW i \in Reports(ss), NEW rest \in Seq(Effects),
           Nested(i, rest)
    PROVE  Mind(sup', run', ss)
<1> DEFINE r == Reduce(sup, i)
<1>1. Lawful(r, ss) BY ReportIsLawful DEF Mind
<1>2. \/ sup' = r.s /\ run' = [run EXCEPT !.fx = rest \o r.fx]
      \/ sup' = NewState /\ run' = [run EXCEPT !.fx = <<>>, !.erased = TRUE]
  BY DEF Nested
<1> HIDE DEF r
<1>3. run \in Runs BY DEF Mind
<1>4. CASE sup' = r.s /\ run' = [run EXCEPT !.fx = rest \o r.fx]
  <2>1. r.fx \in Seq(Effects) BY <1>1 DEF Lawful, Reductions
  <2>2. rest \o r.fx \in Seq(Effects) BY <2>1, ConcatProperties
  <2> DEFINE fx == rest \o r.fx
  <2>3. fx \in Seq(Effects) /\ run' = [run EXCEPT !.fx = fx] BY <1>4, <2>2
  <2> HIDE DEF fx
  <2>4. /\ run' \in Runs /\ run'.draft = run.draft /\ run'.restored = run.restored
        /\ run'.pc = run.pc /\ run'.then = run.then /\ run'.key = run.key
    BY <1>3, <2>3 DEF Runs
  <2>5. Sound(sup', ss) BY <1>1, <1>4 DEF Lawful
  <2> QED BY <2>4, <2>5 DEF Mind, Away
<1>5. CASE sup' = NewState /\ run' = [run EXCEPT !.fx = <<>>, !.erased = TRUE]
  <2>1. <<>> \in Seq(Effects) OBVIOUS
  <2>2. /\ run' \in Runs /\ run'.draft = run.draft /\ run'.restored = run.restored
        /\ run'.pc = run.pc /\ run'.then = run.then /\ run'.key = run.key
    BY <1>3, <1>5, <2>1 DEF Runs
  <2>3. Sound(sup', ss) BY <1>5, NewStateIsSound
  <2> QED BY <2>2, <2>3 DEF Mind, Away
<1> QED BY <1>2, <1>4, <1>5

\* A committed reduction: a reconnect follows when it suspended the session.
LEMMA CommitKeeps ==
    ASSUME NEW ss, NEW s, Mind(s, run, ss), NEW r, Lawful(r, ss), NEW then \in {"idle", "end"},
           Commit(r, then)
    PROVE  Mind(sup', run', ss)
<1> DEFINE begins == \E n \in DOMAIN r.fx : r.fx[n].op = "BeginReconnect"
           next == IF begins THEN "reconnect"
                   ELSE IF \E n \in DOMAIN r.fx : r.fx[n].op = "Shutdown" THEN "end" ELSE then
<1>1. sup' = r.s /\ run' = [run EXCEPT !.pc = "applying", !.fx = r.fx, !.then = next]
  BY DEF Commit
<1>2. begins => ~NoReconnect(r.fx)
  <2> SUFFICES ASSUME NEW n \in DOMAIN r.fx, r.fx[n].op = "BeginReconnect", NoReconnect(r.fx)
               PROVE  FALSE
    OBVIOUS
  <2>1. r.fx \in Seq(PlainEffects) BY DEF NoReconnect, PlainEffects
  <2>2. n \in 1 .. Len(r.fx) BY <2>1
  <2>3. r.fx[n] \in PlainEffects BY <2>1, <2>2, ElementOfSeq
  <2> QED BY <2>3 DEF PlainEffects
<1>3. next = "reconnect" => begins BY DEF next
<1>4. next \in {"idle", "end", "reconnect"} OBVIOUS
<1> HIDE DEF begins, next
<1>5. run \in Runs /\ r.fx \in Seq(Effects) BY DEF Mind, Lawful, Reductions
<1>6. /\ run' \in Runs /\ run'.draft = run.draft /\ run'.restored = run.restored
      /\ run'.pc = "applying" /\ run'.then = next /\ run'.key = run.key /\ run'.fx = r.fx
  BY <1>1, <1>4, <1>5 DEF Runs, Stages
<1>7. next = "reconnect" => r.s.phase = "Reconnecting" /\ r.fx \in Seq(Quiet)
  BY <1>2, <1>3 DEF Lawful
<1> QED BY <1>1, <1>4, <1>6, <1>7 DEF Mind, Away, Lawful

\* The effect that is applied is no effect of a loss of connection if it may cause a reduction.
LEMMA TopIsTyped ==
    ASSUME NEW ss, Mind(sup, run, ss), run.fx # <<>>
    PROVE  /\ Top \in Effects /\ Rest \in Seq(Effects)
           /\ run.pc = "applying" /\ Top.op \notin {"Start", "Resume", "Suspend", "Stop", "BeginReconnect"}
                  => run.then # "reconnect"
           /\ run.fx \in Seq(Quiet) => Rest \in Seq(Quiet)
<1>1. run.fx \in Seq(Effects) BY DEF Mind, Runs
<1>2. Top \in Effects /\ Rest \in Seq(Effects) BY <1>1 DEF Top, Rest
<1>3. run.fx \in Seq(Quiet) => Top \in Quiet /\ Rest \in Seq(Quiet) BY DEF Top, Rest
<1>4. Top \in Quiet => Top.op \in {"Start", "Resume", "Suspend", "Stop", "BeginReconnect"}
  BY DEF Quiet
<1> QED BY <1>2, <1>3, <1>4 DEF Mind

\* The effects behind the one that is applied.
LEMMA RestKeeps ==
    ASSUME NEW ss, Mind(sup, run, ss), run.fx # <<>>, run.pc = "applying", sup' = sup,
           run' = [run EXCEPT !.fx = Rest]
    PROVE  Mind(sup', run', ss)
<1>1. Rest \in Seq(Effects) /\ (run.fx \in Seq(Quiet) => Rest \in Seq(Quiet)) BY TopIsTyped
<1>2. run \in Runs BY DEF Mind
<1>3. /\ run' \in Runs /\ run'.draft = run.draft /\ run'.restored = run.restored
      /\ run'.pc = run.pc /\ run'.then = run.then /\ run'.key = run.key /\ run'.fx = Rest
  BY <1>1, <1>2 DEF Runs
<1> QED BY <1>1, <1>3 DEF Mind, Away

\* AttachTarget: the session is the target's, or its attachment failed.
LEMMA ApplyAttachKeeps ==
    ASSUME IInv, ApplyAttach
    PROVE  IInv'
<1> DEFINE k == Top.key
           works == link.up /\ page[k] \in {"open", "internal"}
           i == [Input("Attached", k) EXCEPT !.session = Len(sessions) + 1]
           j == Input("TargetAttachFailed", k)
<1>1. /\ run.pc = "applying" /\ run.fx # <<>> /\ Top.op = "Attach"
      /\ \/ /\ Answers(works) /\ sessions' = NewSession(k) /\ queue' = Announce(queue, k)
            /\ Nested(i, Rest)
         \/ Failing("attach", works) /\ Nested(j, Rest) /\ UNCHANGED <<sessions, queue>>
      /\ UNCHANGED <<page, shown, link, captures>>
  BY DEF ApplyAttach, Applying
<1>2. World /\ Mind(sup, run, sessions) BY DEF IInv
<1>3. Top \in Effects /\ Rest \in Seq(Effects) /\ run.then # "reconnect"
  BY <1>1, <1>2, TopIsTyped
<1>4. k \in Keys BY <1>1, <1>3 DEF Effects, Addressed
<1> HIDE DEF works, k
<1>5. CASE /\ Answers(works) /\ sessions' = NewSession(k) /\ queue' = Announce(queue, k)
           /\ Nested(i, Rest)
  <2>1. sessions' \in SessionLists /\ Grows(sessions, sessions')
    BY <1>2, <1>4, <1>5, NewSessionGrows DEF World
  <2>2. queue' \in Queues(sessions')
    <3>1. queue \in Queues(NewSession(k)) BY <1>2, <1>5, <2>1, QueuesGrow DEF World
    <3> QED BY <1>2, <1>4, <1>5, <3>1, AnnounceKeeps DEF World
  <2>3. i \in Reports(sessions')
    BY <1>2, <1>4, <1>5, NewSessionGrows, AttachedInputs DEF World
  <2> HIDE DEF i
  <2>4. Mind(sup, run, sessions') BY <1>2, <2>1, MindGrows
  <2>5. Mind(sup', run', sessions') BY <1>1, <1>3, <1>5, <2>1, <2>3, <2>4, NestedKeeps
  <2>6. used' = used BY <1>5 DEF Answers
  <2>7. World' BY <1>1, <1>2, <2>1, <2>2, <2>6 DEF World
  <2> QED BY <2>5, <2>7 DEF IInv
<1>6. CASE Failing("attach", works) /\ Nested(j, Rest) /\ UNCHANGED <<sessions, queue>>
  <2>1. j \in Reports(sessions) BY <1>4, PlainInputs DEF InputTypes, Keyed
  <2> HIDE DEF j
  <2>2. Mind(sup', run', sessions) BY <1>1, <1>2, <1>3, <1>6, <2>1, NestedKeeps DEF World
  <2>3. used' \in Bounds BY <1>2, <1>6, FailingKeeps DEF World
  <2>4. World' BY <1>1, <1>2, <1>6, <2>3 DEF World
  <2> QED BY <1>6, <2>2, <2>4 DEF IInv
<1> QED BY <1>1, <1>5, <1>6

\* DetachTarget: the browser ends the session.
LEMMA ApplyDetachKeeps ==
    ASSUME IInv, ApplyDetach
    PROVE  IInv'
<1> DEFINE s == Top.session
<1>1. /\ run.pc = "applying" /\ run.fx # <<>>
      /\ sessions' = Kill({s}) /\ queue' = (IF Live(s) THEN PutDetached(queue, {s}) ELSE queue)
      /\ used' = [used EXCEPT !.released = used.released \cup {s}]
      /\ run' = [run EXCEPT !.fx = Rest]
      /\ UNCHANGED <<sup, page, shown, link, captures>>
  BY DEF ApplyDetach, Applying
<1>2. World /\ Mind(sup, run, sessions) BY DEF IInv
<1>3. s \in Nat
  <2>1. Top \in Effects BY <1>1, <1>2, TopIsTyped
  <2> QED BY <2>1 DEF Effects, EffectRecords
<1> HIDE DEF s
<1>4. {s} \in SUBSET Nat BY <1>3
<1>5. Grows(sessions, sessions') /\ queue' \in Queues(sessions')
  BY <1>1, <1>2, <1>4, EndingKeeps
<1>6. used' \in Bounds BY <1>1, <1>2, <1>3 DEF World, Bounds
<1>7. sessions' \in SessionLists BY <1>5 DEF Grows
<1>8. World' BY <1>1, <1>2, <1>5, <1>6, <1>7 DEF World
<1>9. Mind(sup', run', sessions) BY <1>1, <1>2, RestKeeps
<1>10. Mind(sup', run', sessions') BY <1>5, <1>9, MindGrows
<1> QED BY <1>8, <1>10 DEF IInv

\* RestoreDomains: the probe follows, or the target fails.
LEMMA ApplyRestoreDomainsKeeps ==
    ASSUME IInv, ApplyRestoreDomains
    PROVE  IInv'
<1> DEFINE works == Known(sup.targets[Top.key]) /\ Live(Top.session)
           e == [Top EXCEPT !.op = "Probe"]
           i == Input("DomainSetupFailed", Top.key)
<1>1. /\ run.pc = "applying" /\ run.fx # <<>> /\ Top.op = "RestoreDomains"
      /\ \/ Answers(works) /\ sup' = sup /\ run' = [run EXCEPT !.fx = <<e>> \o Rest]
         \/ Failing("domains", works) /\ Nested(i, Rest)
      /\ UNCHANGED <<page, shown, sessions, link, queue, captures>>
  BY DEF ApplyRestoreDomains, Applying
<1>2. World /\ Mind(sup, run, sessions) BY DEF IInv
<1>3. Top \in Effects /\ Rest \in Seq(Effects) /\ run.then # "reconnect"
  BY <1>1, <1>2, TopIsTyped
<1>4. Top.key \in Keys BY <1>1, <1>3 DEF Effects, Addressed
<1> HIDE DEF works
<1>5. CASE Answers(works) /\ sup' = sup /\ run' = [run EXCEPT !.fx = <<e>> \o Rest]
  <2>1. e \in Effects BY <1>3, <1>4 DEF Effects, EffectRecords, Addressed
  <2> HIDE DEF e
  <2> DEFINE fx == <<e>> \o Rest
  <2>2. fx \in Seq(Effects)
    <3>1. <<e>> \in Seq(Effects) BY <2>1
    <3> QED BY <1>3, <3>1, ConcatProperties
  <2> HIDE DEF fx
  <2>3. run' = [run EXCEPT !.fx = fx] /\ run \in Runs BY <1>2, <1>5 DEF fx, Mind
  <2>4. /\ run' \in Runs /\ run'.draft = run.draft /\ run'.restored = run.restored
        /\ run'.pc = run.pc /\ run'.then = run.then /\ run'.key = run.key
    BY <2>2, <2>3 DEF Runs
  <2>5. Mind(sup', run', sessions) BY <1>1, <1>2, <1>3, <1>5, <2>4 DEF Mind, Away
  <2>6. World' BY <1>1, <1>2, <1>5 DEF World, Answers
  <2> QED BY <1>1, <2>5, <2>6 DEF IInv
<1>6. CASE Failing("domains", works) /\ Nested(i, Rest)
  <2>1. i \in Reports(sessions) BY <1>4, PlainInputs DEF InputTypes, Keyed
  <2> HIDE DEF i
  <2>2. Mind(sup', run', sessions) BY <1>1, <1>2, <1>3, <1>6, <2>1, NestedKeeps DEF World
  <2>3. used' \in Bounds BY <1>2, <1>6, FailingKeeps DEF World
  <2>4. World' BY <1>1, <1>2, <2>3 DEF World
  <2> QED BY <1>1, <2>2, <2>4 DEF IInv
<1> QED BY <1>1, <1>5, <1>6

\* ProbeVisibility: the answer is reduced at once.
LEMMA ApplyProbeKeeps ==
    ASSUME IInv, ApplyProbe
    PROVE  IInv'
<1> DEFINE works == Live(Top.session)
           i == Seen(Top.key)
           j == Input("InitialVisibilityProbeFailed", Top.key)
<1>1. /\ run.pc = "applying" /\ run.fx # <<>> /\ Top.op = "Probe"
      /\ \/ Answers(works) /\ Nested(i, Rest)
         \/ Failing("probe", works) /\ Nested(j, Rest)
      /\ UNCHANGED <<page, shown, sessions, link, queue, captures>>
  BY DEF ApplyProbe, Applying
<1>2. World /\ Mind(sup, run, sessions) BY DEF IInv
<1>3. Top \in Effects /\ Rest \in Seq(Effects) /\ run.then # "reconnect"
  BY <1>1, <1>2, TopIsTyped
<1>4. Top.key \in Keys BY <1>1, <1>3 DEF Effects, Addressed
<1> HIDE DEF works
<1>5. i \in Reports(sessions) BY <1>2, <1>4, SeenInputs DEF World
<1>6. j \in Reports(sessions) BY <1>4, PlainInputs DEF InputTypes, Keyed
<1> HIDE DEF i, j
<1>7. Mind(sup', run', sessions) BY <1>1, <1>2, <1>3, <1>5, <1>6, NestedKeeps DEF World
<1>8. used' \in Bounds BY <1>1, <1>2, FailingKeeps DEF World, Answers
<1>9. World' BY <1>1, <1>2, <1>8 DEF World
<1> QED BY <1>1, <1>7, <1>9 DEF IInv

\* Effects for the capture coordinator.
LEMMA ApplyCaptureKeeps ==
    ASSUME IInv, ApplyCapture
    PROVE  IInv'
<1>1. /\ run.pc = "applying" /\ run.fx # <<>>
      /\ captures' = captures \cup {Top.ctx} \/ captures' = captures \ {Top.ctx}
      /\ run' = [run EXCEPT !.fx = Rest]
      /\ UNCHANGED <<sup, page, shown, sessions, link, queue, used>>
  BY DEF ApplyCapture
<1>2. World /\ Mind(sup, run, sessions) BY DEF IInv
<1>3. Top.ctx \in Contexts
  <2>1. Top \in Effects BY <1>1, <1>2, TopIsTyped
  <2> QED BY <2>1 DEF Effects, EffectRecords
<1>4. captures' \in SUBSET Contexts /\ IsFiniteSet(captures')
  BY <1>1, <1>2, <1>3, FS_AddElement, FS_RemoveElement DEF World
<1>5. Mind(sup', run', sessions) BY <1>1, <1>2, RestKeeps
<1>6. World' BY <1>1, <1>2, <1>4 DEF World
<1> QED BY <1>1, <1>5, <1>6 DEF IInv

\* BeginReconnect and Shutdown mark what follows the application.
LEMMA ApplyMarkerKeeps ==
    ASSUME IInv, ApplyMarker
    PROVE  IInv'
<1>1. /\ run.pc = "applying" /\ run.fx # <<>> /\ run' = [run EXCEPT !.fx = Rest]
      /\ UNCHANGED <<sup, page, shown, sessions, link, queue, captures, used>>
  BY DEF ApplyMarker
<1>2. World /\ Mind(sup, run, sessions) BY DEF IInv
<1>3. Mind(sup', run', sessions) BY <1>1, <1>2, RestKeeps
<1>4. World' BY <1>1, <1>2 DEF World
<1> QED BY <1>1, <1>3, <1>4 DEF IInv

\* The state of a session that ends.
LEMMA EndedIsSound ==
    ASSUME NEW ss, NEW s, Sound(s, ss), NEW z, z = [s EXCEPT !.phase = "Ended"]
    PROVE  Sound(z, ss)
<1>1. /\ z \in States /\ z.targets = s.targets /\ z.owner = s.owner /\ z.pending = s.pending
      /\ z.phase = "Ended"
  BY DEF Sound, Books, States, Phases
<1> QED BY <1>1 DEF Sound, Books, Homes, Mapped

\* The last effect was applied: what follows is decided by why they were applied.
LEMMA EffectsDoneKeeps ==
    ASSUME IInv, EffectsDone
    PROVE  IInv'
<1> DEFINE i == Input("InitialReconciliationCompleted", 0)
           j == Input("SelectTarget", run.key)
           r == Reduce(sup, i)
           q == Reduce(sup, j)
<1>1. World /\ Mind(sup, run, sessions) BY DEF IInv
<1>2. /\ \/ sup' = sup /\ \E pc \in {"ended", "idle"} : run' = [run EXCEPT !.pc = pc]
         \/ Commit(r, "idle")
         \/ run.then = "select" /\ Commit(q, "idle")
         \/ /\ run.then = "reconnect" /\ sup' = sup
            /\ run' = [run EXCEPT !.pc = "backoff", !.attempts = 0]
         \/ sup' = [sup EXCEPT !.phase = "Ended"] /\ run' = [run EXCEPT !.pc = "ended"]
      /\ run.pc = "applying"
      /\ UNCHANGED <<page, shown, sessions, link, queue, captures, used>>
  BY DEF EffectsDone
<1>3. World' BY <1>1, <1>2 DEF World
<1>4. run \in Runs BY <1>1 DEF Mind
<1>5. CASE sup' = sup /\ \E pc \in {"ended", "idle"} : run' = [run EXCEPT !.pc = pc]
  <2>1. PICK pc \in {"ended", "idle"} : run' = [run EXCEPT !.pc = pc] BY <1>5
  <2>2. /\ run' \in Runs /\ run'.draft = run.draft /\ run'.restored = run.restored
        /\ run'.pc = pc /\ run'.then = run.then /\ run'.key = run.key
    BY <1>4, <2>1 DEF Runs, Stages
  <2>3. Mind(sup', run', sessions) BY <1>1, <1>5, <2>2 DEF Mind, Away
  <2> QED BY <1>2, <1>3, <2>3 DEF IInv
<1>6. CASE Commit(r, "idle")
  <2>1. i \in Reports(sessions) BY PlainInputs DEF InputTypes, Keyed
  <2> HIDE DEF i
  <2>2. Lawful(r, sessions) BY <1>1, <2>1, ReportIsLawful DEF World, Mind
  <2> HIDE DEF r
  <2>3. Mind(sup', run', sessions) BY <1>1, <1>6, <2>2, CommitKeeps
  <2> QED BY <1>2, <1>3, <2>3 DEF IInv
<1>7. CASE run.then = "select" /\ Commit(q, "idle")
  <2>1. run.key \in Keys BY <1>1, <1>7 DEF Mind
  <2>2. j \in Reports(sessions) BY <2>1, PlainInputs DEF InputTypes, Keyed
  <2> HIDE DEF j
  <2>3. Lawful(q, sessions) BY <1>1, <2>2, ReportIsLawful DEF World, Mind
  <2> HIDE DEF q
  <2>4. Mind(sup', run', sessions) BY <1>1, <1>7, <2>3, CommitKeeps
  <2> QED BY <1>2, <1>3, <2>4 DEF IInv
<1>8. CASE /\ run.then = "reconnect" /\ sup' = sup
           /\ run' = [run EXCEPT !.pc = "backoff", !.attempts = 0]
  <2>1. /\ run' \in Runs /\ run'.draft = run.draft /\ run'.restored = run.restored
        /\ run'.pc = "backoff" /\ run'.then = run.then /\ run'.key = run.key
    BY <1>4, <1>8 DEF Runs, Stages
  <2>2. Mind(sup', run', sessions) BY <1>1, <1>2, <1>8, <2>1 DEF Mind, Away
  <2> QED BY <1>2, <1>3, <2>2 DEF IInv
<1>9. CASE sup' = [sup EXCEPT !.phase = "Ended"] /\ run' = [run EXCEPT !.pc = "ended"]
  <2>1. /\ run' \in Runs /\ run'.draft = run.draft /\ run'.restored = run.restored
        /\ run'.pc = "ended" /\ run'.then = run.then /\ run'.key = run.key
    BY <1>4, <1>9 DEF Runs, Stages
  <2>2. Sound(sup', sessions) BY <1>1, <1>9, EndedIsSound DEF Mind
  <2>3. Mind(sup', run', sessions) BY <1>1, <2>1, <2>2 DEF Mind, Away
  <2> QED BY <1>2, <1>3, <2>3 DEF IInv
<1> QED BY <1>2, <1>5, <1>6, <1>7, <1>8, <1>9

\* apply_effects, effect by effect.
LEMMA ApplyKeeps ==
    ASSUME IInv, Apply
    PROVE  IInv'
BY ApplyAttachKeeps, ApplyDetachKeeps, ApplyRestoreDomainsKeeps, ApplyProbeKeeps,
   ApplyCaptureKeeps, ApplyMarkerKeeps, EffectsDoneKeeps DEF Apply

-------------------------------------------------------------------------------
(* The reconnect transaction, and the inputs that are received or dropped. *)

\* run_supervisor takes one input, reduces it and applies its effects.
LEMMA ReceiveKeeps ==
    ASSUME IInv, NEW kind \in Kinds, Receive(kind)
    PROVE  IInv'
<1> DEFINE i == Head(queue[kind])
           r == Reduce(sup, i)
<1>1. /\ run.pc = "idle" /\ queue[kind] # <<>>
      /\ Commit(r, "idle") \/ UNCHANGED <<sup, run>>
      /\ queue' = [queue EXCEPT ![kind] = Tail(queue[kind])]
      /\ UNCHANGED <<page, shown, sessions, link, captures, used>>
  BY DEF Receive
<1>2. World /\ Mind(sup, run, sessions) BY DEF IInv
<1>3. i \in Reports(sessions) /\ queue' \in Queues(sessions)
  BY <1>1, <1>2, TakingKeeps DEF World
<1> HIDE DEF i
<1>4. Lawful(r, sessions) BY <1>2, <1>3, ReportIsLawful DEF World, Mind
<1> HIDE DEF r
<1>5. Mind(sup', run', sessions) BY <1>1, <1>2, <1>4, CommitKeeps
<1>6. World' BY <1>1, <1>2, <1>3 DEF World
<1> QED BY <1>1, <1>5, <1>6 DEF IInv

\* Between two attempts the inputs of the lost connection are taken and ignored.
LEMMA DrainKeeps ==
    ASSUME IInv, NEW kind \in Kinds, Drain(kind)
    PROVE  IInv'
<1>1. /\ queue[kind] # <<>>
      /\ queue' = [queue EXCEPT ![kind] = Tail(queue[kind])]
      /\ UNCHANGED <<sup, run, page, shown, sessions, link, captures, used>>
  BY DEF Drain
<1>2. World /\ Mind(sup, run, sessions) BY DEF IInv
<1>3. queue' \in Queues(sessions) BY <1>1, <1>2, TakingKeeps DEF World
<1>4. World' BY <1>1, <1>2, <1>3 DEF World
<1> QED BY <1>1, <1>2, <1>4 DEF IInv

\* An attempt that is given up leaves the suspended state, and nothing of its own.
LEMMA GiveUpKeeps ==
    ASSUME IInv, Attempting, NEW u, GiveUp(u), used' \in Bounds,
           UNCHANGED <<sup, page, shown, captures>>
    PROVE  IInv'
<1>1. /\ run' = [run EXCEPT !.pc = "backoff", !.attempts = run.attempts + 1, !.fx = <<>>,
                            !.staged = <<>>, !.left = {}, !.restored = {}, !.draft = NewState,
                            !.blamed = run.blamed \/ Disturbances(u) = run.before]
      /\ link' = [link EXCEPT !.up = FALSE]
      /\ sessions' = Kill(DOMAIN sessions)
      /\ queue' = [n \in Kinds |-> UpTo(queue[n], sup.gen)]
  BY DEF GiveUp
<1>2. World /\ Mind(sup, run, sessions) BY DEF IInv
<1>3. Grows(sessions, sessions') BY <1>1, <1>2, KillGrows DEF World
<1>4. queue' \in Queues(sessions') BY <1>1, <1>2, <1>3, UpToKeeps, QueuesGrow DEF World
<1>5. link' \in Links BY <1>1, <1>2 DEF World, Links
<1>6. sessions' \in SessionLists BY <1>3 DEF Grows
<1>7. World' BY <1>2, <1>4, <1>5, <1>6 DEF World
<1>8. /\ run' \in Runs /\ run'.draft = NewState /\ run'.restored = {} /\ run'.pc = "backoff"
      /\ run'.then = run.then /\ run'.key = run.key
  <2>1. run \in Runs BY <1>2 DEF Mind
  <2>2. run.attempts + 1 \in Nat /\ (run.blamed \/ Disturbances(u) = run.before) \in BOOLEAN
    BY <2>1 DEF Runs
  <2>3. NewState \in States BY NewStateIsSound DEF Sound, Books
  <2>4. <<>> \in Seq(Effects) /\ {} \in SUBSET Keys /\ {} \in SUBSET (Keys \X Nat) OBVIOUS
  <2> DEFINE b == run.blamed \/ Disturbances(u) = run.before
             a == run.attempts + 1
  <2>5. a \in Nat /\ b \in BOOLEAN BY <2>2
  <2>6. run' = [run EXCEPT !.pc = "backoff", !.attempts = a, !.fx = <<>>, !.staged = <<>>,
                           !.left = {}, !.restored = {}, !.draft = NewState, !.blamed = b]
    BY <1>1
  <2> HIDE DEF a, b
  <2> QED BY <2>1, <2>3, <2>4, <2>5, <2>6 DEF Runs, Stages
<1>9. sup.phase = "Reconnecting" BY <1>2 DEF Mind, Attempting, Away
<1>10. Sound(sup, sessions') BY <1>2, <1>3, SoundGrows DEF Mind
<1>11. Mind(sup, run', sessions')
  BY <1>2, <1>8, <1>9, <1>10, NewStateIsSound DEF Mind, Away
<1> QED BY <1>7, <1>11 DEF IInv

\* A step of an attempt that changes the attempt only.
LEMMA AttemptingKeeps ==
    ASSUME NEW ss, Mind(sup, run, ss), run.pc \in Away, sup' = sup, run' \in Runs,
           run'.pc \in Away, run'.key = run.key, run'.then = run.then, Sound(run'.draft, ss),
           \A p \in run'.restored : Of(ss, p[2], p[1])
    PROVE  Mind(sup', run', ss)
BY DEF Mind, Away

\* An attempt connects and lists the pages, or is over.
LEMMA StartAttemptKeeps ==
    ASSUME IInv, StartAttempt
    PROVE  IInv'
<1>1. /\ run.pc = "backoff"
      /\ \/ /\ Failing("connect", TRUE) /\ run' = [run EXCEPT !.attempts = run.attempts + 1]
            /\ link' = link
         \/ /\ used' = used /\ link' = [up |-> TRUE, gen |-> sup.gen + 1]
            /\ run' = [run EXCEPT !.pc = "attaching", !.left = OpenPages,
                                  !.before = Disturbances(used)]
      /\ UNCHANGED <<sup, page, shown, sessions, queue, captures>>
  BY DEF StartAttempt, Answers
<1>2. World /\ Mind(sup, run, sessions) BY DEF IInv
<1>3. used' \in Bounds BY <1>1, <1>2, FailingKeeps DEF World
<1>4. link' \in Links
  <2>1. sup.gen + 1 \in Nat BY <1>2 DEF Mind, Sound, Books, States
  <2>2. [up |-> TRUE, gen |-> sup.gen + 1] \in Links BY <2>1 DEF Links
  <2> QED BY <1>1, <1>2, <2>2 DEF World
<1>5. World' BY <1>1, <1>2, <1>3, <1>4 DEF World
<1>6. run \in Runs BY <1>2 DEF Mind
<1>7. Disturbances(used) \in Nat BY <1>2 DEF World, Bounds, Disturbances
<1>8. OpenPages \in SUBSET Keys BY DEF OpenPages
<1>9. run.attempts + 1 \in Nat BY <1>6 DEF Runs
<1>10. /\ run' \in Runs /\ run'.pc \in Away /\ run'.key = run.key /\ run'.then = run.then
       /\ run'.draft = run.draft /\ run'.restored = run.restored
  BY <1>1, <1>6, <1>7, <1>8, <1>9 DEF Runs, Stages, Away
<1>11. Mind(sup', run', sessions)
  BY <1>1, <1>2, <1>10, AttemptingKeeps DEF Mind, Away
<1> QED BY <1>1, <1>5, <1>11 DEF IInv

\* The attempt attaches to one of its pages, and remembers the session.
LEMMA AttemptAttachKeeps ==
    ASSUME IInv, NEW k \in Keys, AttemptAttach(k)
    PROVE  IInv'
<1> DEFINE works == link.up /\ page[k] \in {"open", "internal"}
           p == <<k, Len(sessions) + 1>>
<1>1. /\ run.pc = "attaching"
      /\ \/ /\ Answers(works) /\ sessions' = NewSession(k) /\ queue' = Announce(queue, k)
            /\ link' = link
            /\ run' = [run EXCEPT !.left = run.left \ {k}, !.restored = run.restored \cup {p}]
         \/ Failing("attach", works) /\ GiveUp(used')
      /\ UNCHANGED <<sup, page, shown, captures>>
  BY DEF AttemptAttach
<1>2. World /\ Mind(sup, run, sessions) BY DEF IInv
<1> HIDE DEF works
<1>3. CASE /\ Answers(works) /\ sessions' = NewSession(k) /\ queue' = Announce(queue, k)
           /\ link' = link
           /\ run' = [run EXCEPT !.left = run.left \ {k}, !.restored = run.restored \cup {p}]
  <2>1. sessions' \in SessionLists /\ Grows(sessions, sessions')
    BY <1>2, <1>3, NewSessionGrows DEF World
  <2>2. queue' \in Queues(sessions')
    <3>1. queue \in Queues(NewSession(k)) BY <1>2, <1>3, <2>1, QueuesGrow DEF World
    <3> QED BY <1>2, <1>3, <3>1, AnnounceKeeps DEF World
  <2>3. World' BY <1>1, <1>2, <1>3, <2>1, <2>2 DEF World, Answers
  <2>4. p \in Keys \X Nat /\ p[1] = k /\ Of(sessions', p[2], p[1])
    BY <1>2, <1>3, NewSessionGrows DEF World
  <2> HIDE DEF p
  <2>5. run \in Runs BY <1>2 DEF Mind
  <2> DEFINE more == run.restored \cup {p}
             left == run.left \ {k}
  <2>6. more \in SUBSET (Keys \X Nat) /\ left \in SUBSET Keys BY <2>4, <2>5 DEF Runs
  <2>7. run' = [run EXCEPT !.left = left, !.restored = more] BY <1>3
  <2>8. Mind(sup, run, sessions') BY <1>2, <2>1, MindGrows
  <2>9. \A o \in more : Of(sessions', o[2], o[1]) BY <2>4, <2>8 DEF Mind
  <2> HIDE DEF more, left
  <2>10. /\ run' \in Runs /\ run'.pc = run.pc /\ run'.key = run.key /\ run'.then = run.then
         /\ run'.draft = run.draft /\ run'.restored = more
    BY <2>5, <2>6, <2>7 DEF Runs
  <2>11. Mind(sup', run', sessions')
    BY <1>1, <2>8, <2>9, <2>10, AttemptingKeeps DEF Mind, Away
  <2> QED BY <2>3, <2>11 DEF IInv
<1>4. CASE Failing("attach", works) /\ GiveUp(used')
  <2>1. used' \in Bounds BY <1>2, <1>4, FailingKeeps DEF World
  <2>2. Attempting BY <1>1 DEF Attempting
  <2> QED BY <1>1, <1>4, <2>1, <2>2, GiveUpKeeps
<1> QED BY <1>1, <1>3, <1>4

\* The restored sessions are reduced into the draft.
LEMMA AttemptReduceKeeps ==
    ASSUME IInv, AttemptReduce
    PROVE  IInv'
<1> DEFINE i == [Input("Reconnected", 0) EXCEPT !.gen = sup.gen + 1, !.restored = run.restored]
           r == Reduce(sup, i)
           left == WithSession(r.s)
<1>1. /\ run.pc = "attaching"
      /\ \/ /\ run' = [run EXCEPT !.pc = "domains", !.draft = r.s, !.fx = r.fx, !.left = left]
            /\ UNCHANGED <<sessions, link, queue>>
         \/ GiveUp(used)
      /\ UNCHANGED <<sup, page, shown, captures, used>>
  BY DEF AttemptReduce
<1>2. World /\ Mind(sup, run, sessions) BY DEF IInv
<1>3. run \in Runs /\ sup.phase = "Reconnecting" /\ sup.gen + 1 \in Nat
  BY <1>1, <1>2 DEF Mind, Away, Sound, Books, States
<1>4. i \in Inputs(sessions) /\ i.type = "Reconnected"
  <2>1. run.restored \in SUBSET (Keys \X Nat) BY <1>3 DEF Runs
  <2>2. i \in Inputs(sessions) BY <1>2, <1>3, <2>1, RestoredInputs DEF Mind
  <2> QED BY <2>2 DEF Input
<1> HIDE DEF i
<1>5. Lawful(r, sessions) BY <1>2, <1>3, <1>4, ReduceIsLawful DEF World, Mind
<1>6. left \in SUBSET Keys BY DEF WithSession
<1> HIDE DEF r, left
<1>7. CASE /\ run' = [run EXCEPT !.pc = "domains", !.draft = r.s, !.fx = r.fx, !.left = left]
           /\ UNCHANGED <<sessions, link, queue>>
  <2>1. r.s \in States /\ r.fx \in Seq(Effects) BY <1>5 DEF Lawful, Reductions
  <2>2. /\ run' \in Runs /\ run'.pc = "domains" /\ run'.key = run.key /\ run'.then = run.then
        /\ run'.draft = r.s /\ run'.restored = run.restored
    BY <1>3, <1>6, <1>7, <2>1 DEF Runs, Stages
  <2>3. Mind(sup', run', sessions)
    BY <1>1, <1>2, <1>5, <2>2, AttemptingKeeps DEF Mind, Away, Lawful
  <2>4. World' BY <1>1, <1>2, <1>7 DEF World
  <2> QED BY <1>7, <2>3, <2>4 DEF IInv
<1>8. CASE GiveUp(used)
  <2>1. used' \in Bounds BY <1>1, <1>2 DEF World
  <2>2. Attempting BY <1>1 DEF Attempting
  <2> QED BY <1>1, <1>8, <2>1, <2>2, GiveUpKeeps
<1> QED BY <1>1, <1>7, <1>8

\* The domains of a restored target are prepared, or the attempt is given up.
LEMMA AttemptDomainsKeeps ==
    ASSUME IInv, AttemptDomains
    PROVE  IInv'
<1>1. /\ run.pc = "domains"
      /\ \/ /\ \/ run' = [run EXCEPT !.pc = "staging"]
               \/ run' = [run EXCEPT !.left = run.left \ {Min(run.left)}]
            /\ UNCHANGED <<sessions, link, queue, used>>
         \/ (\E works : Failing("domains", works)) /\ GiveUp(used')
      /\ UNCHANGED <<sup, page, shown, captures>>
  BY DEF AttemptDomains, Answers
<1>2. World /\ Mind(sup, run, sessions) BY DEF IInv
<1>3. CASE /\ \/ run' = [run EXCEPT !.pc = "staging"]
              \/ run' = [run EXCEPT !.left = run.left \ {Min(run.left)}]
           /\ UNCHANGED <<sessions, link, queue, used>>
  <2>1. run \in Runs BY <1>2 DEF Mind
  <2> DEFINE left == run.left \ {Min(run.left)}
  <2>2. left \in SUBSET Keys BY <2>1 DEF Runs
  <2>3. run' = [run EXCEPT !.pc = "staging"] \/ run' = [run EXCEPT !.left = left] BY <1>3
  <2> HIDE DEF left
  <2>4. /\ run' \in Runs /\ run'.pc \in {"domains", "staging"} /\ run'.key = run.key
        /\ run'.then = run.then /\ run'.draft = run.draft /\ run'.restored = run.restored
    BY <1>1, <2>1, <2>2, <2>3 DEF Runs, Stages
  <2>5. Mind(sup', run', sessions) BY <1>1, <1>2, <2>4, AttemptingKeeps DEF Mind, Away
  <2>6. World' BY <1>1, <1>2, <1>3 DEF World
  <2> QED BY <1>3, <2>5, <2>6 DEF IInv
<1>4. CASE (\E works : Failing("domains", works)) /\ GiveUp(used')
  <2>1. used' \in Bounds BY <1>2, <1>4, FailingKeeps DEF World
  <2>2. Attempting BY <1>1 DEF Attempting
  <2> QED BY <1>1, <1>4, <2>1, <2>2, GiveUpKeeps
<1> QED BY <1>1, <1>3, <1>4

\* stage_reconnection_effects: a detach is sent, a viewport that cannot be restored fails its
\* target in the draft, and the effects of captures wait for the publication.
LEMMA AttemptStageKeeps ==
    ASSUME IInv, AttemptStage
    PROVE  IInv'
<1> DEFINE r == Reduce(run.draft, Input("TargetAttachFailed", Top.key))
           kept == Only(run.staged, {n \in DOMAIN run.staged :
                          ~(/\ run.staged[n].op \in {"Start", "Resume", "Suspend", "Stop"}
                            /\ run.staged[n].ctx.id = Top.ctx.id)})
           staged == IF Top.op \in {"Start", "Resume"} /\ Top.ctx.id \in run.failed
                     THEN run.staged ELSE Append(run.staged, Top)
           failed == run.failed \cup {Top.ctx.id}
           Same == UNCHANGED <<sessions, link, queue>>
<1>1. /\ run.pc = "staging" /\ run.fx # <<>>
      /\ \/ /\ Top.op = "Detach" /\ run' = [run EXCEPT !.fx = Rest]
            /\ sessions' = Kill({Top.session}) /\ queue' = PutDetached(queue, {Top.session})
            /\ used' = [used EXCEPT !.released = used.released \cup {Top.session}]
            /\ link' = link
         \/ /\ \E works : Failing("viewport", works) \/ used' = used
            /\ run' = [run EXCEPT !.fx = Rest] /\ Same
         \/ /\ Top.op = "RestoreViewport" /\ (\E works : Failing("viewport", works)) /\ Same
            /\ run' = [run EXCEPT !.fx = Rest, !.draft = r.s, !.staged = kept \o r.fx,
                                  !.failed = failed]
         \/ used' = used /\ run' = [run EXCEPT !.fx = Rest, !.staged = staged] /\ Same
         \/ GiveUp(used) /\ used' = used
      /\ UNCHANGED <<sup, page, shown, captures>>
  <2> HIDE DEF r, kept
  <2> QED BY DEF AttemptStage, Answers, r, kept
<1>2. World /\ Mind(sup, run, sessions) BY DEF IInv
<1>3. Top \in Effects /\ Rest \in Seq(Effects) BY <1>1, <1>2, TopIsTyped
<1>4. run \in Runs /\ run.pc \in Away BY <1>1, <1>2 DEF Mind, Away
<1>5. run.staged \in Seq(Effects) BY <1>4 DEF Runs
<1>6. kept \in Seq(Effects)
  <2> DEFINE some == {n \in DOMAIN run.staged :
                        ~(/\ run.staged[n].op \in {"Start", "Resume", "Suspend", "Stop"}
                          /\ run.staged[n].ctx.id = Top.ctx.id)}
  <2>1. some \in SUBSET DOMAIN run.staged OBVIOUS
  <2>2. kept = Only(run.staged, some) OBVIOUS
  <2> HIDE DEF some, kept
  <2> QED BY <1>5, <2>1, <2>2, OnlyKeeps
<1>7. staged \in Seq(Effects) BY <1>3, <1>5
<1>8. failed \in SUBSET Nat /\ Top.session \in Nat
  <2>1. Top.ctx \in Contexts /\ Top.session \in Nat BY <1>3 DEF Effects, EffectRecords
  <2> QED BY <1>4, <2>1 DEF Contexts, Runs
<1> HIDE DEF kept, staged, failed
<1>9. CASE /\ Top.op = "Detach" /\ run' = [run EXCEPT !.fx = Rest]
           /\ sessions' = Kill({Top.session}) /\ queue' = PutDetached(queue, {Top.session})
           /\ used' = [used EXCEPT !.released = used.released \cup {Top.session}]
           /\ link' = link
  <2> DEFINE s == Top.session
  <2>1. s \in Nat /\ {s} \in SUBSET Nat BY <1>8
  <2> HIDE DEF s
  <2>2. sessions' = Kill({s}) /\ queue' = PutDetached(queue, {s})
        /\ used' = [used EXCEPT !.released = used.released \cup {s}]
    BY <1>9 DEF s
  <2>3. Grows(sessions, sessions') /\ queue' \in Queues(sessions')
    BY <1>2, <1>9, <2>1, <2>2, EndingKeeps
  <2>4. used' \in Bounds BY <1>2, <2>1, <2>2 DEF World, Bounds
  <2>5. sessions' \in SessionLists BY <2>3 DEF Grows
  <2>6. World' BY <1>1, <1>2, <1>9, <2>3, <2>4, <2>5 DEF World
  <2>7. /\ run' \in Runs /\ run'.pc = run.pc /\ run'.key = run.key /\ run'.then = run.then
        /\ run'.draft = run.draft /\ run'.restored = run.restored
    BY <1>3, <1>4, <1>9 DEF Runs
  <2>8. Mind(sup, run, sessions') BY <1>2, <2>3, MindGrows
  <2>9. Mind(sup', run', sessions') BY <1>1, <1>4, <2>7, <2>8, AttemptingKeeps DEF Mind
  <2> QED BY <2>6, <2>9 DEF IInv
<1>10. CASE /\ \E works : Failing("viewport", works) \/ used' = used
            /\ run' = [run EXCEPT !.fx = Rest] /\ Same
  <2>1. used' \in Bounds BY <1>2, <1>10, FailingKeeps DEF World
  <2>2. World' BY <1>1, <1>2, <1>10, <2>1 DEF World
  <2>3. /\ run' \in Runs /\ run'.pc = run.pc /\ run'.key = run.key /\ run'.then = run.then
        /\ run'.draft = run.draft /\ run'.restored = run.restored
    BY <1>3, <1>4, <1>10 DEF Runs
  <2>4. Mind(sup', run', sessions) BY <1>1, <1>2, <1>4, <2>3, AttemptingKeeps DEF Mind
  <2> QED BY <1>10, <2>2, <2>4 DEF IInv
<1>11. CASE /\ Top.op = "RestoreViewport" /\ (\E works : Failing("viewport", works)) /\ Same
            /\ run' = [run EXCEPT !.fx = Rest, !.draft = r.s, !.staged = kept \o r.fx,
                                  !.failed = failed]
  <2>1. used' \in Bounds BY <1>2, <1>11, FailingKeeps DEF World
  <2>2. World' BY <1>1, <1>2, <1>11, <2>1 DEF World
  <2>3. Top.key \in Keys BY <1>3, <1>11 DEF Effects, Addressed
  <2>4. Lawful(r, sessions)
    <3> DEFINE i == Input("TargetAttachFailed", Top.key)
    <3>1. i \in Reports(sessions) BY <2>3, PlainInputs DEF InputTypes, Keyed
    <3> HIDE DEF i
    <3>2. Lawful(Reduce(run.draft, i), sessions) BY <1>2, <3>1, ReportIsLawful DEF World, Mind
    <3> QED BY <3>2 DEF i
  <2> HIDE DEF r
  <2>5. r.s \in States /\ r.fx \in Seq(Effects) BY <2>4 DEF Lawful, Reductions
  <2> DEFINE more == kept \o r.fx
  <2>6. more \in Seq(Effects) BY <1>6, <2>5, ConcatProperties
  <2>7. run' = [run EXCEPT !.fx = Rest, !.draft = r.s, !.staged = more, !.failed = failed]
    BY <1>11
  <2> HIDE DEF more
  <2>8. /\ run' \in Runs /\ run'.pc = run.pc /\ run'.key = run.key /\ run'.then = run.then
        /\ run'.draft = r.s /\ run'.restored = run.restored
    BY <1>3, <1>4, <1>8, <2>5, <2>6, <2>7 DEF Runs
  <2>9. Mind(sup', run', sessions)
    BY <1>1, <1>2, <1>4, <2>4, <2>8, AttemptingKeeps DEF Mind, Lawful
  <2> QED BY <1>11, <2>2, <2>9 DEF IInv
<1>12. CASE used' = used /\ run' = [run EXCEPT !.fx = Rest, !.staged = staged] /\ Same
  <2>1. World' BY <1>1, <1>2, <1>12 DEF World
  <2>2. /\ run' \in Runs /\ run'.pc = run.pc /\ run'.key = run.key /\ run'.then = run.then
        /\ run'.draft = run.draft /\ run'.restored = run.restored
    BY <1>3, <1>4, <1>7, <1>12 DEF Runs
  <2>3. Mind(sup', run', sessions) BY <1>1, <1>2, <1>4, <2>2, AttemptingKeeps DEF Mind
  <2> QED BY <1>12, <2>1, <2>3 DEF IInv
<1>13. CASE GiveUp(used) /\ used' = used
  <2>1. used' \in Bounds BY <1>2, <1>13 DEF World
  <2>2. Attempting BY <1>1 DEF Attempting
  <2> QED BY <1>1, <1>13, <2>1, <2>2, GiveUpKeeps
<1> HIDE DEF r
<1> QED BY <1>1, <1>9, <1>10, <1>11, <1>12, <1>13

\* Every effect was staged: what can be probed is probed.
LEMMA StagedKeeps ==
    ASSUME IInv, Staged
    PROVE  IInv'
<1> DEFINE left == {k \in WithSession(run.draft) : run.draft.targets[k].lc # "Failed"}
<1>1. /\ run.pc = "staging" /\ run' = [run EXCEPT !.pc = "probing", !.left = left]
      /\ UNCHANGED <<sup, page, shown, sessions, link, queue, captures, used>>
  BY DEF Staged
<1>2. left \in SUBSET Keys BY DEF WithSession
<1> HIDE DEF left
<1>3. World /\ Mind(sup, run, sessions) /\ run \in Runs BY DEF IInv, Mind
<1>4. /\ run' \in Runs /\ run'.pc = "probing" /\ run'.key = run.key /\ run'.then = run.then
      /\ run'.draft = run.draft /\ run'.restored = run.restored
  BY <1>1, <1>2, <1>3 DEF Runs, Stages
<1>5. Mind(sup', run', sessions) BY <1>1, <1>3, <1>4, AttemptingKeeps DEF Mind, Away
<1>6. World' BY <1>1, <1>3 DEF World
<1> QED BY <1>1, <1>5, <1>6 DEF IInv

\* A restored target is probed.
LEMMA AttemptProbeKeeps ==
    ASSUME IInv, AttemptProbe
    PROVE  IInv'
<1> DEFINE k == Min(run.left)
           i == Seen(k)
           j == Input("InitialVisibilityProbeFailed", k)
           left == run.left \ {k}
<1>1. /\ run.pc = "probing" /\ run.left # {}
      /\ \E x \in {i, j} : run' = [run EXCEPT !.left = left, !.draft = Reduce(run.draft, x).s,
                                             !.staged = run.staged \o Reduce(run.draft, x).fx]
      /\ (\E works : Failing("probe", works)) \/ used' = used
      /\ UNCHANGED <<sup, page, shown, sessions, link, queue, captures>>
  BY DEF AttemptProbe, Answers
<1>2. World /\ Mind(sup, run, sessions) /\ run \in Runs BY DEF IInv, Mind
<1>3. run.left \in SUBSET Keys /\ left \in SUBSET Keys BY <1>2 DEF Runs
<1>4. k \in Keys BY <1>1, <1>3, LeastKey
<1> HIDE DEF k, left
<1>5. i \in Reports(sessions) BY <1>2, <1>4, SeenInputs DEF World
<1>6. j \in Reports(sessions) BY <1>4, PlainInputs DEF InputTypes, Keyed
<1> HIDE DEF i, j
<1>7. PICK x \in {i, j} : run' = [run EXCEPT !.left = left, !.draft = Reduce(run.draft, x).s,
                                             !.staged = run.staged \o Reduce(run.draft, x).fx]
  BY <1>1
<1> DEFINE r == Reduce(run.draft, x)
<1>8. Lawful(r, sessions)
  <2>1. x \in Reports(sessions) BY <1>5, <1>6
  <2> QED BY <1>2, <2>1, ReportIsLawful DEF World, Mind
<1>9. run' = [run EXCEPT !.left = left, !.draft = r.s, !.staged = run.staged \o r.fx] BY <1>7
<1> HIDE DEF r
<1>10. r.s \in States /\ r.fx \in Seq(Effects) /\ run.staged \in Seq(Effects)
  BY <1>2, <1>8 DEF Lawful, Reductions, Runs
<1> DEFINE more == run.staged \o r.fx
<1>11. more \in Seq(Effects) BY <1>10, ConcatProperties
<1>12. run' = [run EXCEPT !.left = left, !.draft = r.s, !.staged = more] BY <1>9
<1> HIDE DEF more
<1>13. /\ run' \in Runs /\ run'.pc = run.pc /\ run'.key = run.key /\ run'.then = run.then
       /\ run'.draft = r.s /\ run'.restored = run.restored
  BY <1>2, <1>3, <1>10, <1>11, <1>12 DEF Runs
<1>14. Mind(sup', run', sessions)
  BY <1>1, <1>2, <1>8, <1>13, AttemptingKeeps DEF Mind, Away, Lawful
<1>15. used' \in Bounds BY <1>1, <1>2, FailingKeeps DEF World
<1>16. World' BY <1>1, <1>2, <1>15 DEF World
<1> QED BY <1>1, <1>14, <1>16 DEF IInv

\* The draft becomes the committed state, and its staged effects are applied.
LEMMA PublishKeeps ==
    ASSUME IInv, Publish
    PROVE  IInv'
<1>1. /\ sup' = run.draft
      /\ run' = [run EXCEPT !.pc = "applying", !.fx = run.staged, !.then = "idle",
                            !.staged = <<>>, !.draft = NewState, !.restored = {}, !.failed = {}]
      /\ UNCHANGED <<page, shown, sessions, link, queue, captures, used>>
  BY DEF Publish
<1>2. World /\ Mind(sup, run, sessions) /\ run \in Runs BY DEF IInv, Mind
<1>3. NewState \in States BY NewStateIsSound DEF Sound, Books
<1>4. <<>> \in Seq(Effects) /\ {} \in SUBSET Nat /\ {} \in SUBSET (Keys \X Nat) OBVIOUS
<1>5. /\ run' \in Runs /\ run'.pc = "applying" /\ run'.then = "idle"
      /\ run'.draft = NewState /\ run'.restored = {}
  BY <1>1, <1>2, <1>3, <1>4 DEF Runs, Stages
<1>6. Mind(sup', run', sessions) BY <1>1, <1>2, <1>5, NewStateIsSound DEF Mind, Away
<1>7. World' BY <1>1, <1>2 DEF World
<1> QED BY <1>1, <1>6, <1>7 DEF IInv

\* No attempt is left: the session ends.
LEMMA ExhaustedKeeps ==
    ASSUME IInv, Exhausted
    PROVE  IInv'
<1> DEFINE i == Input("ReconnectExhausted", 0)
           r == Reduce(sup, i)
<1>1. /\ Commit(r, "end")
      /\ UNCHANGED <<page, shown, sessions, link, queue, captures, used>>
  BY DEF Exhausted
<1>2. World /\ Mind(sup, run, sessions) BY DEF IInv
<1>3. i \in Reports(sessions) BY PlainInputs DEF InputTypes, Keyed
<1> HIDE DEF i
<1>4. Lawful(r, sessions) BY <1>2, <1>3, ReportIsLawful DEF World, Mind
<1> HIDE DEF r
<1>5. Mind(sup', run', sessions) BY <1>1, <1>2, <1>4, CommitKeeps
<1>6. World' BY <1>1, <1>2 DEF World
<1> QED BY <1>1, <1>5, <1>6 DEF IInv

\* The reconnect transaction, step by step.
LEMMA AttemptKeeps ==
    ASSUME IInv, Attempt
    PROVE  IInv'
BY StartAttemptKeeps, AttemptAttachKeeps, AttemptReduceKeeps, AttemptDomainsKeeps,
   AttemptStageKeeps, StagedKeeps, AttemptProbeKeeps, PublishKeeps, ExhaustedKeeps DEF Attempt

\* An operation between two inputs: its reduction and what it spends.
LEMMA CommitInputKeeps ==
    ASSUME NEW ss \in SessionLists, Mind(sup, run, ss), run.pc = "idle", NEW i \in Reports(ss),
           CommitInput(i)
    PROVE  Mind(sup', run', ss)
<1> DEFINE r == Reduce(sup, i)
<1>1. Commit(r, "idle") \/ (sup' = NewState /\ run' = [run EXCEPT !.erased = TRUE])
  BY DEF CommitInput
<1>2. Lawful(r, ss) BY ReportIsLawful DEF Mind
<1> HIDE DEF r
<1>3. CASE Commit(r, "idle") BY <1>2, <1>3, CommitKeeps
<1>4. CASE sup' = NewState /\ run' = [run EXCEPT !.erased = TRUE]
  <2>1. run \in Runs BY DEF Mind
  <2>2. /\ run' \in Runs /\ run'.draft = run.draft /\ run'.restored = run.restored
        /\ run'.pc = run.pc /\ run'.then = run.then /\ run'.key = run.key
    BY <1>4, <2>1 DEF Runs
  <2> QED BY <1>4, <2>2, NewStateIsSound DEF Mind, Away
<1> QED BY <1>1, <1>3, <1>4

\* An operation whose input is reduced and whose effects are applied.
LEMMA OperateKeeps ==
    ASSUME NEW ss \in SessionLists, Mind(sup, run, ss), NEW i \in Reports(ss),
           NEW then \in {"idle", "select"}, NEW k \in Keys \cup {0}, then = "select" => k \in Keys,
           Operate(i, then, k)
    PROVE  Mind(sup', run', ss)
<1> DEFINE r == Reduce(sup, i)
<1>1. \/ UNCHANGED <<sup, run>>
      \/ /\ sup' = r.s
         /\ run' = [run EXCEPT !.pc = "applying", !.fx = r.fx, !.then = then, !.key = k]
  BY DEF Operate
<1>2. Lawful(r, ss) BY ReportIsLawful DEF Mind
<1> HIDE DEF r
<1>3. CASE UNCHANGED <<sup, run>> BY <1>3
<1>4. CASE /\ sup' = r.s
           /\ run' = [run EXCEPT !.pc = "applying", !.fx = r.fx, !.then = then, !.key = k]
  <2>1. run \in Runs /\ r.fx \in Seq(Effects) BY <1>2 DEF Mind, Lawful, Reductions
  <2>2. /\ run' \in Runs /\ run'.draft = run.draft /\ run'.restored = run.restored
        /\ run'.pc = "applying" /\ run'.then = then /\ run'.key = k
    BY <1>4, <2>1 DEF Runs, Stages
  <2> QED BY <1>2, <1>4, <2>2 DEF Mind, Away, Lawful
<1> QED BY <1>1, <1>3, <1>4

\* Listing pages reconciles the targets with the browser's list.
LEMMA ListPagesKeeps ==
    ASSUME IInv, ListPages
    PROVE  IInv'
<1> DEFINE i == [Input("InitialTargets", 0) EXCEPT !.open = OpenPages]
<1>1. /\ Operate(i, "idle", 0) /\ used.operations > 0 /\ used' = Spend("operations")
      /\ UNCHANGED <<page, shown, sessions, link, queue, captures>>
  BY DEF ListPages, Operating
<1>2. World /\ Mind(sup, run, sessions) BY DEF IInv
<1>3. i \in Reports(sessions) BY OpenInputs DEF OpenPages
<1> HIDE DEF i
<1>4. Mind(sup', run', sessions) BY <1>1, <1>2, <1>3, OperateKeeps DEF World
<1>5. used' \in Bounds BY <1>1, <1>2, SpendingKeeps DEF World
<1>6. World' BY <1>1, <1>2, <1>5 DEF World
<1> QED BY <1>1, <1>4, <1>6 DEF IInv

\* A page is created, inserted and selected.
LEMMA CreatePageKeeps ==
    ASSUME IInv, NEW k \in Keys, CreatePage(k)
    PROVE  IInv'
<1> DEFINE i == Input("TargetCreated", k)
           j == InfoInput("TargetCreated", k, "open")
<1>1. /\ Operate(i, "select", k) /\ used.operations > 0 /\ used' = Spend("operations")
      /\ page' = [page EXCEPT ![k] = "open"] /\ queue' = Put(queue, "created", j)
      /\ UNCHANGED <<shown, sessions, link, captures>>
  BY DEF CreatePage, Operating
<1>2. World /\ Mind(sup, run, sessions) BY DEF IInv
<1>3. i \in Reports(sessions) BY PlainInputs DEF InputTypes, Keyed
<1>4. j \in Reports(sessions) BY InfoInputs
<1> HIDE DEF i, j
<1>5. Mind(sup', run', sessions) BY <1>1, <1>2, <1>3, OperateKeeps DEF World
<1>6. used' \in Bounds BY <1>1, <1>2, SpendingKeeps DEF World
<1>7. queue' \in Queues(sessions) BY <1>1, <1>2, <1>4, PutKeeps DEF World, Kinds
<1>8. page' \in [Keys -> {"none", "open", "internal", "gone"}] BY <1>1, <1>2 DEF World
<1>9. World' BY <1>1, <1>2, <1>6, <1>7, <1>8 DEF World
<1> QED BY <1>1, <1>5, <1>9 DEF IInv

\* A page is closed and destroyed.
LEMMA ClosePageKeeps ==
    ASSUME IInv, NEW k \in Keys, ClosePage(k)
    PROVE  IInv'
<1> DEFINE i == Input("TargetDestroyed", k)
<1>1. /\ run.pc = "idle" /\ ClosesPage(k) /\ CommitInput(i)
      /\ used.operations > 0 /\ used' = Spend("operations")
      /\ UNCHANGED <<shown, link, captures>>
  BY DEF ClosePage, Operating
<1>2. World /\ Mind(sup, run, sessions) BY DEF IInv
<1>3. /\ page' \in [Keys -> {"none", "open", "internal", "gone"}]
      /\ Grows(sessions, sessions') /\ queue' \in Queues(sessions')
  BY <1>1, <1>2, ClosingKeeps
<1>4. i \in Reports(sessions') BY PlainInputs DEF InputTypes, Keyed
<1> HIDE DEF i
<1>5. sessions' \in SessionLists BY <1>3 DEF Grows
<1>6. Mind(sup, run, sessions') BY <1>2, <1>3, MindGrows
<1>7. Mind(sup', run', sessions') BY <1>1, <1>4, <1>5, <1>6, CommitInputKeeps
<1>8. used' \in Bounds BY <1>1, <1>2, SpendingKeeps DEF World
<1>9. World' BY <1>1, <1>2, <1>3, <1>5, <1>8 DEF World
<1> QED BY <1>7, <1>9 DEF IInv

\* A page is selected, or its visibility observed.
LEMMA SelectPageKeeps ==
    ASSUME IInv, NEW k \in Keys, SelectPage(k) \/ ObservePage(k)
    PROVE  IInv'
<1> DEFINE i == Input("SelectTarget", k)
           j == Seen(k)
<1>1. /\ run.pc = "idle"
      /\ CommitInput(i) \/ CommitInput(j)
      /\ used.operations > 0 /\ used' = Spend("operations")
      /\ UNCHANGED <<page, shown, sessions, link, queue, captures>>
  BY DEF SelectPage, ObservePage, Operating
<1>2. World /\ Mind(sup, run, sessions) BY DEF IInv
<1>3. i \in Reports(sessions) BY PlainInputs DEF InputTypes, Keyed
<1>4. j \in Reports(sessions) BY <1>2, SeenInputs DEF World
<1> HIDE DEF i, j
<1>5. Mind(sup', run', sessions) BY <1>1, <1>2, <1>3, <1>4, CommitInputKeeps DEF World
<1>6. used' \in Bounds BY <1>1, <1>2, SpendingKeeps DEF World
<1>7. World' BY <1>1, <1>2, <1>6 DEF World
<1> QED BY <1>1, <1>5, <1>7 DEF IInv

\* A viewport is applied, or its target fails and keeps its session.
LEMMA SetViewportKeeps ==
    ASSUME IInv, NEW k \in Keys, SetViewport(k)
    PROVE  IInv'
<1> DEFINE i == Input("ViewportOverrideApplied", k)
           j == Input("TargetAttachFailed", k)
<1>1. /\ run.pc = "idle"
      /\ CommitInput(i) \/ CommitInput(j)
      /\ used.operations > 0
      /\ \/ used' = Spend("operations")
         \/ /\ used.faults > 0
            /\ used' = [Spend("operations") EXCEPT !.faults = Spend("operations").faults - 1]
      /\ UNCHANGED <<page, shown, sessions, link, queue, captures>>
  BY DEF SetViewport, Operating
<1>2. World /\ Mind(sup, run, sessions) BY DEF IInv
<1>3. i \in Reports(sessions) BY PlainInputs DEF InputTypes, Keyed
<1>4. j \in Reports(sessions) BY PlainInputs DEF InputTypes, Keyed
<1> HIDE DEF i, j
<1>5. Mind(sup', run', sessions) BY <1>1, <1>2, <1>3, <1>4, CommitInputKeeps DEF World
<1>6. used' \in Bounds
  <2> DEFINE u == Spend("operations")
  <2>1. u \in Bounds BY <1>1, <1>2, SpendingKeeps DEF World
  <2>2. u.faults = used.faults /\ used.faults \in Nat BY <1>2 DEF Spend, World, Bounds
  <2> HIDE DEF u
  <2>3. used.faults > 0 => u.faults - 1 \in Nat BY <2>2
  <2>4. used.faults > 0 => [u EXCEPT !.faults = u.faults - 1] \in Bounds BY <2>1, <2>3 DEF Bounds
  <2> QED BY <1>1, <2>1, <2>4 DEF u
<1>7. World' BY <1>1, <1>2, <1>6 DEF World
<1> QED BY <1>1, <1>5, <1>7 DEF IInv

\* The session is stopped or the browser dies, at any moment, in an attempt too.
LEMMA EndSessionKeeps ==
    ASSUME IInv, NEW cause \in {"StopRequested", "BrowserProcessTerminated"}, EndSession(cause)
    PROVE  IInv'
<1> DEFINE i == Input(cause, 0)
           r == Reduce(sup, i)
<1>1. /\ used.operations > 0 /\ used' = Spend("operations") /\ sup' = r.s
      /\ run' = [run EXCEPT !.pc = "applying", !.fx = r.fx, !.then = "end", !.left = {},
                            !.staged = <<>>, !.restored = {}, !.draft = NewState]
      /\ \/ /\ link' = [link EXCEPT !.up = FALSE] /\ sessions' = Kill(DOMAIN sessions)
            /\ queue' = [n \in Kinds |-> UpTo(queue[n], sup.gen)]
         \/ UNCHANGED <<link, sessions, queue>>
      /\ UNCHANGED <<page, shown, captures>>
  BY DEF EndSession
<1>2. World /\ Mind(sup, run, sessions) /\ run \in Runs BY DEF IInv, Mind
<1>3. i \in Reports(sessions) BY PlainInputs DEF InputTypes, Keyed
<1> HIDE DEF i
<1>4. Lawful(r, sessions) BY <1>2, <1>3, ReportIsLawful DEF World, Mind
<1> HIDE DEF r
<1>5. Grows(sessions, sessions') BY <1>1, <1>2, KillGrows, StayingGrows DEF World
<1>6. queue' \in Queues(sessions')
  BY <1>1, <1>2, <1>5, UpToKeeps, QueuesGrow DEF World
<1>7. used' \in Bounds BY <1>1, <1>2, SpendingKeeps DEF World
<1>8. link' \in Links BY <1>1, <1>2 DEF World, Links
<1>9. sessions' \in SessionLists BY <1>5 DEF Grows
<1>10. World' BY <1>1, <1>2, <1>6, <1>7, <1>8, <1>9 DEF World
<1>11. r.fx \in Seq(Effects) BY <1>4 DEF Lawful, Reductions
<1>12. NewState \in States BY NewStateIsSound DEF Sound, Books
<1>13. <<>> \in Seq(Effects) /\ {} \in SUBSET Keys /\ {} \in SUBSET (Keys \X Nat) OBVIOUS
<1>14. /\ run' \in Runs /\ run'.pc = "applying" /\ run'.then = "end"
       /\ run'.draft = NewState /\ run'.restored = {}
  BY <1>1, <1>2, <1>11, <1>12, <1>13 DEF Runs, Stages
<1>15. Sound(sup', sessions') BY <1>1, <1>4, <1>5, SoundGrows DEF Lawful
<1>16. Mind(sup', run', sessions') BY <1>14, <1>15, NewStateIsSound DEF Mind, Away
<1> QED BY <1>10, <1>16 DEF IInv

\* Whatever is asked of the session.
LEMMA OperationKeeps ==
    ASSUME IInv, Operation
    PROVE  IInv'
BY ListPagesKeeps, CreatePageKeeps, ClosePageKeeps, SelectPageKeeps, SetViewportKeeps,
   EndSessionKeeps DEF Operation

\* A session starts with the pages there are, before any session is handed out.
LEMMA InitKeeps ==
    ASSUME Init
    PROVE  IInv
<1> DEFINE open == {k \in Keys : page[k] = "open"}
           i == [Input("InitialTargets", 0) EXCEPT !.open = open]
           r == Reduce(NewState, i)
<1>1. PICK start \in Starts :
         /\ page = start.page
         /\ used = [navigations |-> start.navigations, drops |-> start.drops,
                    faults |-> start.faults, operations |-> start.operations,
                    unreliable |-> start.unreliable,
                    switches |-> 0, released |-> {}]
  BY DEF Init
<1>2. /\ sup = r.s
      /\ run = [pc |-> "applying", fx |-> r.fx, then |-> "initial", key |-> 0,
                attempts |-> 0, left |-> {}, restored |-> {}, draft |-> NewState,
                staged |-> <<>>, failed |-> {}, before |-> 0, blamed |-> FALSE,
                erased |-> FALSE]
      /\ shown = [k \in Keys |-> TRUE]
      /\ sessions = <<>> /\ captures = {}
      /\ link = [up |-> TRUE, gen |-> 1]
      /\ queue = [n \in Kinds |-> <<>>]
  BY DEF Init
<1>3. sessions \in SessionLists BY <1>2 DEF SessionLists
<1>4. i \in Reports(sessions)
  <2>1. open \in SUBSET Keys OBVIOUS
  <2> HIDE DEF open
  <2> QED BY <2>1, OpenInputs
<1> HIDE DEF i
<1>5. Lawful(r, sessions) BY <1>3, <1>4, NewStateIsSound, ReportIsLawful
<1> HIDE DEF r
<1>6. queue \in Queues(sessions) BY <1>2 DEF Queues
<1>7. start \in [page : [Keys -> {"none", "open", "internal", "gone"}],
                 navigations : Nat, drops : Nat, faults : Nat, operations : Nat,
                 unreliable : SUBSET Commands]
  BY SupervisorAssumption
<1>8. used \in Bounds /\ page \in [Keys -> {"none", "open", "internal", "gone"}]
  <2>1. 0 \in Nat /\ {} \in SUBSET Nat OBVIOUS
  <2> QED BY <1>1, <1>7, <2>1 DEF Bounds
<1>9. captures \in SUBSET Contexts /\ IsFiniteSet(captures) BY <1>2, FS_EmptySet
<1>10. link \in Links BY <1>2 DEF Links
<1>11. World BY <1>2, <1>3, <1>6, <1>8, <1>9, <1>10 DEF World
<1>12. r.fx \in Seq(Effects) BY <1>5 DEF Lawful, Reductions
<1>13. NewState \in States BY NewStateIsSound DEF Sound, Books
<1>14. <<>> \in Seq(Effects) /\ {} \in SUBSET Keys /\ {} \in SUBSET (Keys \X Nat)
       /\ {} \in SUBSET Nat
  OBVIOUS
<1>15. run \in Runs BY <1>2, <1>12, <1>13, <1>14 DEF Runs, Stages
<1>16. Mind(sup, run, sessions) BY <1>2, <1>5, <1>15, NewStateIsSound DEF Mind, Away, Lawful
<1> QED BY <1>11, <1>16 DEF IInv

\* The invariant is inductive.
LEMMA NextKeeps ==
    ASSUME IInv, [Next]_supVars
    PROVE  IInv'
<1>1. CASE Next
  BY <1>1, BrowserKeeps, ApplyKeeps, AttemptKeeps, OperationKeeps, ReceiveKeeps, DrainKeeps DEF Next
<1>2. CASE UNCHANGED supVars
  <2>1. UNCHANGED <<sup, run, page, shown, sessions, link, queue, captures, used>>
    BY <1>2 DEF supVars
  <2>2. World' BY <2>1 DEF IInv, World
  <2> QED BY <2>1, <2>2 DEF IInv
<1> QED BY <1>1, <1>2

\* Whatever the browser reports, in whatever order the pumps deliver it, and wherever a
\* reconnect, a failure or a stop interrupts: every structure of the supervisor has its type,
\* and its state, its draft, its queues and its effects name a session only with the page the
\* browser handed it out for (run_supervisor, apply_effects, reduce and the reconnect).
THEOREM SupervisorIsTyped == Spec => []IInv
<1>1. Init => IInv BY InitKeeps
<1>2. IInv /\ [Next]_supVars => IInv' BY NextKeeps
<1> QED BY <1>1, <1>2, PTL DEF Spec

\* reconcile_selection is called wherever a target may have become unusable: a ready session
\* selects nothing, or a page an operation can use.
THEOREM SelectionStaysUsable == Spec => []SelectionIsUsable
<1>1. IInv => SelectionIsUsable BY DEF IInv, Mind, Sound, Books, Selects, SelectionIsUsable
<1> QED BY <1>1, SupervisorIsTyped, PTL

\* target_key_by_session and the targets' own sessions are edited by attach, destroy,
\* detach_failed, the loss of a connection and its restoration, and stay in step: the end of a
\* live target's session reaches that target, and that of a session never another page.
THEOREM SessionMapStaysSound == Spec => []SessionMapIsSound
<1>1. IInv => SessionMapIsSound
  BY DEF IInv, Mind, Sound, Books, Homes, Mapped, Of, SessionMapIsSound
<1> QED BY <1>1, SupervisorIsTyped, PTL

===============================================================================
