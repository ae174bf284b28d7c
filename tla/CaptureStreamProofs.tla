------------------------ MODULE CaptureStreamProofs ------------------------
(* Every frame of a capture stream is accounted for, for any capacity of    *)
(* the queue and of the ledger, and any number of frames and failures.      *)
EXTENDS CaptureStream, FiniteSetTheorems, SequenceTheorems, TLAPS

Reasons == {"AcknowledgementFailed", "CaptureStopped", "Disconnected", "PersistenceRejected",
            "Rejected", "Saturated", "TargetHidden"}

Gaps == [reason : Reasons, frames : Nat]

States == {"Starting", "Capturing", "PausedBudget", "Hidden", "Suspended", "Draining", "Stopped",
           "Failed"}

Counts == [state : States, visible : BOOLEAN, depth : Nat, inFlight : Nat, received : Nat,
           accepted : Nat, dropped : Nat, persisted : Nat, gaps : Seq(Gaps), open : BOOLEAN,
           failure : Stages \union {NoFailure}, poisoned : BOOLEAN]

\* A RuntimeState whose ledger is within its capacity.
Runtimes == {s \in Counts : Len(s.gaps) <= LedgerCapacity}
------------------------------------------------------------------------------
(* What gaps miss.                                                          *)

\* A missing frame is a gap of the sequence and a number that the gap counts.
LEMMA MissedBy ==
    ASSUME NEW gaps \in Seq(Gaps)
    PROVE  /\ Missed(gaps) = {p \in (1 .. Len(gaps)) \X (Nat \ {0}) : p[2] <= gaps[p[1]].frames}
           /\ \A i \in 1 .. Len(gaps) : gaps[i].frames \in Nat
<1>1. DOMAIN gaps = 1 .. Len(gaps) OBVIOUS
<1>2. \A i \in 1 .. Len(gaps) : gaps[i] \in Gaps /\ gaps[i].frames \in Nat
  <2>1. \A i \in 1 .. Len(gaps) : gaps[i] \in Gaps OBVIOUS
  <2> QED BY <2>1 DEF Gaps
<1> DEFINE M == {p \in (1 .. Len(gaps)) \X (Nat \ {0}) : p[2] <= gaps[p[1]].frames}
<1>3. Missed(gaps) \subseteq M
  <2> SUFFICES ASSUME NEW i \in 1 .. Len(gaps), NEW p \in {i} \X (1 .. gaps[i].frames)
               PROVE  p \in M
    BY <1>1 DEF Missed
  <2>1. p[1] = i /\ p[2] \in 1 .. gaps[i].frames /\ p = <<p[1], p[2]>> OBVIOUS
  <2> QED BY <2>1, <1>2
<1>4. M \subseteq Missed(gaps)
  <2> SUFFICES ASSUME NEW p \in M PROVE p \in Missed(gaps) OBVIOUS
  <2>1. p \in (1 .. Len(gaps)) \X (Nat \ {0}) /\ p[2] <= gaps[p[1]].frames OBVIOUS
  <2>2. p \in {p[1]} \X (1 .. gaps[p[1]].frames)
    BY <2>1, <1>2
  <2> QED BY <1>1, <2>1, <2>2 DEF Missed
<1> QED BY <1>2, <1>3, <1>4

\* The frames of one gap, from one number to another.
LEMMA FramesOfOne ==
    ASSUME NEW i \in Nat, NEW a \in Nat, NEW b \in Nat, a <= b + 1
    PROVE  /\ IsFiniteSet({i} \X (a .. b))
           /\ Cardinality({i} \X (a .. b)) = b + 1 - a
<1>1. IsFiniteSet(a .. b) /\ Cardinality(a .. b) = b + 1 - a BY FS_Interval
<1>2. IsFiniteSet({i}) /\ Cardinality({i}) = 1 BY FS_Singleton
<1>3. /\ IsFiniteSet({i} \X (a .. b))
      /\ Cardinality({i} \X (a .. b)) = 1 * (b + 1 - a)
  <2>1. Cardinality({i} \X (a .. b)) = Cardinality({i}) * Cardinality(a .. b)
    BY <1>1, <1>2, FS_Product
  <2> QED BY <1>1, <1>2, <2>1, FS_Product
<1>4. 1 * (b + 1 - a) = b + 1 - a OBVIOUS
<1> QED BY <1>3, <1>4

\* What a sequence of gaps misses can be counted.
LEMMA MissedIsFinite ==
    ASSUME NEW gaps \in Seq(Gaps)
    PROVE  IsFiniteSet(Missed(gaps)) /\ Missing(gaps) \in Nat
<1> DEFINE of == [i \in 1 .. Len(gaps) |-> {i} \X (1 .. gaps[i].frames)]
           all == {of[i] : i \in 1 .. Len(gaps)}
<1>1. IsFiniteSet(1 .. Len(gaps)) BY FS_Interval
<1>2. of \in Surjection(1 .. Len(gaps), all) BY DEF Surjection
<1>3. IsFiniteSet(all)
  <2> HIDE DEF of, all
  <2> QED BY <1>1, <1>2, FS_Surjection
<1>4. \A m \in all : IsFiniteSet(m)
  <2> SUFFICES ASSUME NEW i \in 1 .. Len(gaps) PROVE IsFiniteSet(of[i]) OBVIOUS
  <2>1. gaps[i].frames \in Nat /\ i \in Nat /\ 1 \in Nat /\ 1 <= gaps[i].frames + 1
    BY MissedBy
  <2>2. IsFiniteSet({i} \X (1 .. gaps[i].frames)) BY <2>1, FramesOfOne
  <2> QED BY <2>2
<1>5. Missed(gaps) = UNION all BY DEF Missed
<1> HIDE DEF of, all
<1>6. IsFiniteSet(UNION all) BY <1>3, <1>4, FS_UNION
<1> QED BY <1>5, <1>6, FS_CardinalityType DEF Missing

\* persist_pending_gaps leaves a ledger that misses nothing.
LEMMA EmptyMissesNothing == Missing(<<>>) = 0
<1>1. Missed(<<>>) = {} BY DEF Missed
<1> QED BY <1>1, FS_EmptySet DEF Missing

\* Frames that another sequence lacks are counted on top of it.
LEMMA MissingMore ==
    ASSUME NEW less \in Seq(Gaps), NEW more \in Seq(Gaps), Missed(less) \subseteq Missed(more)
    PROVE  Missing(more) = Missing(less) + Cardinality(Missed(more) \ Missed(less))
<1>1. /\ IsFiniteSet(Missed(less)) /\ IsFiniteSet(Missed(more))
      /\ Missing(less) \in Nat /\ Missing(more) \in Nat
  BY MissedIsFinite
<1>2. Cardinality(Missed(more) \ Missed(less))
        = Cardinality(Missed(more)) - Cardinality(Missed(more) \cap Missed(less))
  BY <1>1, FS_Difference
<1>3. Cardinality(Missed(more) \cap Missed(less)) = Cardinality(Missed(less))
  <2>1. Missed(more) \cap Missed(less) = Missed(less) OBVIOUS
  <2> QED BY <2>1
<1> QED BY <1>1, <1>2, <1>3 DEF Missing

\* A gap at the end adds what it counts.
LEMMA AppendMisses ==
    ASSUME NEW gaps \in Seq(Gaps), NEW gap \in Gaps
    PROVE  /\ Append(gaps, gap) \in Seq(Gaps)
           /\ Missing(Append(gaps, gap)) = Missing(gaps) + gap.frames
<1> DEFINE n == Len(gaps)
           new == Append(gaps, gap)
<1>1. /\ new \in Seq(Gaps) /\ Len(new) = n + 1 /\ new[n + 1] = gap
      /\ \A i \in 1 .. n : new[i] = gaps[i]
      /\ n \in Nat /\ gap.frames \in Nat
  BY DEF Gaps
<1> HIDE DEF new
<1>2. Missed(new) = Missed(gaps) \union ({n + 1} \X (1 .. gap.frames))
  <2>1. ASSUME NEW p \in (1 .. n + 1) \X (Nat \ {0}), p[2] <= new[p[1]].frames
        PROVE  p \in Missed(gaps) \union ({n + 1} \X (1 .. gap.frames))
    <3>1. CASE p[1] = n + 1
      <4>1. p[2] \in 1 .. gap.frames BY <1>1, <2>1, <3>1
      <4> QED BY <2>1, <3>1, <4>1
    <3>2. CASE p[1] \in 1 .. n
      <4>1. p \in (1 .. n) \X (Nat \ {0}) BY <2>1, <3>2
      <4>2. p[2] <= gaps[p[1]].frames BY <1>1, <2>1, <3>2
      <4> QED BY <4>1, <4>2, MissedBy
    <3> QED BY <1>1, <2>1, <3>1, <3>2
  <2>2. ASSUME NEW p \in Missed(gaps) PROVE p \in Missed(new)
    <3>1. p \in (1 .. n) \X (Nat \ {0}) /\ p[2] <= gaps[p[1]].frames BY MissedBy
    <3>2. p \in (1 .. n + 1) \X (Nat \ {0}) /\ p[2] <= new[p[1]].frames BY <1>1, <3>1
    <3> QED BY <1>1, <3>2, MissedBy
  <2>3. ASSUME NEW p \in {n + 1} \X (1 .. gap.frames) PROVE p \in Missed(new)
    <3>1. p \in (1 .. n + 1) \X (Nat \ {0}) /\ p[2] <= new[p[1]].frames BY <1>1
    <3> QED BY <1>1, <3>1, MissedBy
  <2> QED BY <1>1, <2>1, <2>2, <2>3, MissedBy
<1>3. Missed(gaps) \cap ({n + 1} \X (1 .. gap.frames)) = {}
  <2> SUFFICES ASSUME NEW p \in Missed(gaps), p \in {n + 1} \X (1 .. gap.frames)
               PROVE  FALSE
    OBVIOUS
  <2>1. p[1] = n + 1 OBVIOUS
  <2>2. p[1] \in 1 .. n BY MissedBy
  <2> QED BY <1>1, <2>1, <2>2
<1>4. Missing(new) = Missing(gaps) + gap.frames
  <2>1. Missed(new) \ Missed(gaps) = {n + 1} \X (1 .. gap.frames) BY <1>2, <1>3
  <2>0. n + 1 \in Nat /\ 1 \in Nat /\ 1 <= gap.frames + 1 BY <1>1
  <2>2. Cardinality({n + 1} \X (1 .. gap.frames)) = gap.frames + 1 - 1
    BY <1>1, <2>0, FramesOfOne
  <2>3. Missing(new) = Missing(gaps) + Cardinality(Missed(new) \ Missed(gaps))
    BY <1>1, <1>2, MissingMore
  <2>4. gap.frames + 1 - 1 = gap.frames BY <1>1
  <2>5. Cardinality(Missed(new) \ Missed(gaps)) = gap.frames BY <2>1, <2>2, <2>4
  <2> QED BY <2>3, <2>5
<1> QED BY <1>1, <1>4 DEF new

\* A gap that grows misses the frames it grew by.
LEMMA GrowthMisses ==
    ASSUME NEW gaps \in Seq(Gaps), NEW new \in Seq(Gaps), NEW i \in 1 .. Len(gaps),
           NEW gap \in Gaps,
           Len(new) = Len(gaps), new[i].frames = gaps[i].frames + gap.frames,
           \A j \in 1 .. Len(gaps) : j # i => new[j] = gaps[j]
    PROVE  Missing(new) = Missing(gaps) + gap.frames
<1> DEFINE old == gaps[i].frames
<1>1. old \in Nat /\ gap.frames \in Nat
  <2>1. gaps[i] \in Gaps OBVIOUS
  <2> QED BY <2>1 DEF Gaps
<1>2. new[i].frames = old + gap.frames OBVIOUS
<1>3. Len(gaps) \in Nat OBVIOUS
<1> HIDE DEF old
<1>4. Missed(gaps) \subseteq Missed(new)
  <2> SUFFICES ASSUME NEW p \in Missed(gaps) PROVE p \in Missed(new) OBVIOUS
  <2>1. p \in (1 .. Len(gaps)) \X (Nat \ {0}) /\ p[2] <= gaps[p[1]].frames BY MissedBy
  <2>2. p[2] <= new[p[1]].frames
    <3>1. CASE p[1] = i BY <1>1, <1>2, <2>1, <3>1 DEF old
    <3>2. CASE p[1] # i BY <1>2, <2>1, <3>2
    <3> QED BY <3>1, <3>2
  <2> QED BY <1>2, <2>1, <2>2, MissedBy
<1>5. Missed(new) \ Missed(gaps) = {i} \X (old + 1 .. old + gap.frames)
  <2>1. ASSUME NEW p \in Missed(new), p \notin Missed(gaps)
        PROVE  p \in {i} \X (old + 1 .. old + gap.frames)
    <3>1. p \in (1 .. Len(gaps)) \X (Nat \ {0}) /\ p[2] <= new[p[1]].frames BY <1>2, MissedBy
    <3>2. ~(p[2] <= gaps[p[1]].frames) BY <2>1, <3>1, MissedBy
    <3>3. p[1] = i BY <1>2, <3>1, <3>2
    <3>4. p[2] \in old + 1 .. old + gap.frames BY <1>1, <1>2, <3>1, <3>2, <3>3 DEF old
    <3> QED BY <3>1, <3>3, <3>4
  <2>2. ASSUME NEW p \in {i} \X (old + 1 .. old + gap.frames)
        PROVE  p \in Missed(new) /\ p \notin Missed(gaps)
    <3>1. /\ p \in (1 .. Len(gaps)) \X (Nat \ {0})
          /\ p[1] = i /\ old < p[2] /\ p[2] <= old + gap.frames
      BY <1>1
    <3>2. p[2] <= new[p[1]].frames BY <1>2, <3>1
    <3>3. ~(p[2] <= gaps[p[1]].frames) BY <1>1, <3>1 DEF old
    <3>4. p \in Missed(new) BY <1>2, <3>1, <3>2, MissedBy
    <3> QED BY <3>3, <3>4, MissedBy
  <2> QED BY <2>1, <2>2
<1>6. Cardinality(Missed(new) \ Missed(gaps)) = gap.frames
  <2>1. i \in Nat /\ old + 1 \in Nat /\ old + gap.frames \in Nat
        /\ old + 1 <= old + gap.frames + 1
    BY <1>1
  <2>2. Cardinality({i} \X (old + 1 .. old + gap.frames)) = old + gap.frames + 1 - (old + 1)
    BY <2>1, FramesOfOne
  <2>3. old + gap.frames + 1 - (old + 1) = gap.frames BY <1>1
  <2> QED BY <1>5, <2>2, <2>3
<1>7. Missing(new) = Missing(gaps) + gap.frames
  BY <1>4, <1>6, MissingMore
<1> QED BY <1>7

\* A sequence misses what its first gap misses, and what the others do.
LEMMA HeadMisses ==
    ASSUME NEW gaps \in Seq(Gaps), gaps # <<>>
    PROVE  /\ Tail(gaps) \in Seq(Gaps) /\ gaps[1] \in Gaps /\ gaps[1].frames \in Nat
           /\ Missing(gaps) = gaps[1].frames + Missing(Tail(gaps))
<1> DEFINE rest == Tail(gaps)
           n == Len(gaps)
           f == gaps[1].frames
           shift == [p \in Missed(rest) |-> <<p[1] + 1, p[2]>>]
           others == Missed(gaps) \ ({1} \X (1 .. f))
<1>1. /\ n \in Nat \ {0} /\ rest \in Seq(Gaps) /\ Len(rest) = n - 1
      /\ \A i \in 1 .. n - 1 : rest[i] = gaps[i + 1]
      /\ gaps[1] \in Gaps
  OBVIOUS
<1>2. f \in Nat BY <1>1 DEF Gaps
<1> HIDE DEF rest, n, f
<1>3. \A p : p \in Missed(gaps)
               <=> p \in (1 .. n) \X (Nat \ {0}) /\ p[2] <= gaps[p[1]].frames
  BY MissedBy DEF n
<1>4. \A p : p \in Missed(rest)
               <=> p \in (1 .. n - 1) \X (Nat \ {0}) /\ p[2] <= rest[p[1]].frames
  BY <1>1, MissedBy
<1>5. shift \in Bijection(Missed(rest), others)
  <2>1. ASSUME NEW p \in Missed(rest)
        PROVE  <<p[1] + 1, p[2]>> \in others
    <3>1. p \in (1 .. n - 1) \X (Nat \ {0}) /\ p[2] <= rest[p[1]].frames BY <1>4
    <3>2. <<p[1] + 1, p[2]>> \in (1 .. n) \X (Nat \ {0}) /\ p[1] + 1 # 1 BY <1>1, <3>1
    <3>3. p[2] <= gaps[p[1] + 1].frames BY <1>1, <3>1
    <3> QED BY <1>3, <3>2, <3>3
  <2>2. ASSUME NEW p \in Missed(rest), NEW q \in Missed(rest), shift[p] = shift[q]
        PROVE  p = q
    <3>1. p \in (1 .. n - 1) \X (Nat \ {0}) /\ q \in (1 .. n - 1) \X (Nat \ {0}) BY <1>4
    <3>2. <<p[1] + 1, p[2]>> = <<q[1] + 1, q[2]>> BY <2>2
    <3>3. p[1] + 1 = q[1] + 1 /\ p[2] = q[2] BY <3>2
    <3>4. p[1] = q[1] BY <3>1, <3>3, <1>1
    <3> QED BY <3>1, <3>3, <3>4
  <2>3. ASSUME NEW q \in others
        PROVE  \E p \in Missed(rest) : shift[p] = q
    <3>1. q \in (1 .. n) \X (Nat \ {0}) /\ q[2] <= gaps[q[1]].frames BY <1>3
    <3>2. q[1] # 1
      <4> SUFFICES ASSUME q[1] = 1 PROVE FALSE OBVIOUS
      <4>1. q[2] \in 1 .. f BY <1>2, <3>1 DEF f
      <4>2. q \in {1} \X (1 .. f) BY <3>1, <4>1
      <4> QED BY <4>2
    <3> DEFINE p == <<q[1] - 1, q[2]>>
    <3>3. p \in (1 .. n - 1) \X (Nat \ {0}) /\ q[1] - 1 \in 1 .. n - 1 /\ q[1] - 1 + 1 = q[1]
      BY <1>1, <3>1, <3>2
    <3>4. rest[q[1] - 1] = gaps[q[1]]
      <4>1. rest[q[1] - 1] = gaps[q[1] - 1 + 1] BY <1>1, <3>3
      <4> QED BY <3>3, <4>1
    <3>5. p[2] <= rest[p[1]].frames BY <3>1, <3>4
    <3>6. p \in Missed(rest) BY <1>4, <3>3, <3>5
    <3>7. shift[p] = <<q[1] - 1 + 1, q[2]>> BY <3>6
    <3>8. shift[p] = q
      <4>1. q = <<q[1], q[2]>> BY <3>1
      <4> HIDE DEF shift, p
      <4> QED BY <3>3, <3>7, <4>1
    <3> QED BY <3>6, <3>8
  <2>4. shift \in [Missed(rest) -> others] BY <2>1
  <2> HIDE DEF shift, others
  <2> QED BY <2>2, <2>3, <2>4 DEF Bijection, Injection, IsInjective, Surjection
<1>6. Cardinality(others) = Missing(rest)
  <2>1. IsFiniteSet(Missed(rest)) BY <1>1, MissedIsFinite
  <2>2. ExistsBijection(Missed(rest), others) BY <1>5 DEF ExistsBijection
  <2> HIDE DEF others
  <2> QED BY <2>1, <2>2, FS_Bijection DEF Missing
<1>7. {1} \X (1 .. f) \subseteq Missed(gaps)
  <2> SUFFICES ASSUME NEW p \in {1} \X (1 .. f) PROVE p \in Missed(gaps) OBVIOUS
  <2>1. p \in (1 .. n) \X (Nat \ {0}) /\ p[1] = 1 /\ p[2] <= f BY <1>1, <1>2
  <2> QED BY <1>3, <2>1 DEF f
<1>8. Cardinality({1} \X (1 .. f)) = f
  <2>1. 1 \in Nat /\ 1 <= f + 1 /\ f + 1 - 1 = f BY <1>2
  <2>2. Cardinality({1} \X (1 .. f)) = f + 1 - 1 BY <1>2, <2>1, FramesOfOne
  <2> QED BY <2>1, <2>2
<1>9. Cardinality(others) = Missing(gaps) - f
  <2>1. IsFiniteSet(Missed(gaps)) BY MissedIsFinite
  <2>2. Cardinality(others) = Cardinality(Missed(gaps))
                                - Cardinality(Missed(gaps) \cap ({1} \X (1 .. f)))
    BY <2>1, FS_Difference
  <2>3. Missed(gaps) \cap ({1} \X (1 .. f)) = {1} \X (1 .. f) BY <1>7
  <2>4. Cardinality(Missed(gaps) \cap ({1} \X (1 .. f))) = f BY <1>8, <2>3
  <2> HIDE DEF others
  <2> QED BY <2>2, <2>4 DEF Missing
<1>10. Missing(gaps) \in Nat /\ Missing(rest) \in Nat BY <1>1, MissedIsFinite
<1>11. Missing(gaps) = f + Missing(rest) BY <1>2, <1>6, <1>9, <1>10
<1> QED BY <1>1, <1>2, <1>11 DEF rest, f

\* The oldest gaps of a full ledger are merged, and nothing is forgotten.
LEMMA MakingRoomMisses ==
    ASSUME NEW gaps \in Seq(Gaps), NEW gap \in Gaps, Len(gaps) >= 2
    PROVE  LET room == <<Merge(gaps[1], gaps[2])>> \o SubSeq(gaps, 3, Len(gaps))
           IN  /\ room \in Seq(Gaps) /\ Len(room) = Len(gaps) - 1
               /\ Missing(room) = Missing(gaps)
<1> DEFINE merged == Merge(gaps[1], gaps[2])
           rest == SubSeq(gaps, 3, Len(gaps))
           room == <<merged>> \o rest
<1>1. /\ gaps[1] \in Gaps /\ gaps[2] \in Gaps /\ merged \in Gaps
      /\ merged.frames = gaps[1].frames + gaps[2].frames
      /\ gaps[1].frames \in Nat /\ gaps[2].frames \in Nat
  <2>1. gaps[1] \in Gaps /\ gaps[2] \in Gaps OBVIOUS
  <2> QED BY <2>1 DEF Gaps, Merge
<1>2. /\ Tail(gaps) \in Seq(Gaps) /\ Tail(gaps) # <<>> /\ Tail(gaps)[1] = gaps[2]
      /\ Missing(gaps) = gaps[1].frames + Missing(Tail(gaps))
      /\ Missing(Tail(gaps)) = gaps[2].frames + Missing(Tail(Tail(gaps)))
      /\ Tail(Tail(gaps)) \in Seq(Gaps)
  <2>1. gaps # <<>> /\ Tail(gaps) \in Seq(Gaps) /\ Tail(gaps) # <<>> /\ Tail(gaps)[1] = gaps[2]
    <3>1. gaps # <<>> /\ Len(gaps) \in Nat OBVIOUS
    <3>2. /\ Tail(gaps) \in Seq(Gaps) /\ Len(Tail(gaps)) = Len(gaps) - 1
          /\ \A i \in 1 .. Len(Tail(gaps)) : Tail(gaps)[i] = gaps[i + 1]
      BY <3>1, HeadTailProperties
    <3>3. 1 \in 1 .. Len(Tail(gaps)) /\ 1 + 1 = 2 /\ Len(Tail(gaps)) # 0 BY <3>1, <3>2
    <3>4. Tail(gaps)[1] = gaps[1 + 1] BY <3>2, <3>3
    <3>5. Tail(gaps) # <<>> BY <3>3
    <3> QED BY <3>1, <3>2, <3>3, <3>4, <3>5
  <2> QED BY <2>1, HeadMisses
<1>3. rest \in Seq(Gaps) /\ Len(rest) = Len(gaps) - 2
  <2>1. /\ \A i \in 3 .. Len(gaps) : gaps[i] \in Gaps
        /\ 3 \in Int /\ Len(gaps) \in Int
    OBVIOUS
  <2>2. /\ rest \in Seq(Gaps)
        /\ Len(rest) = IF 3 <= Len(gaps) THEN Len(gaps) - 3 + 1 ELSE 0
    BY <2>1, SubSeqProperties
  <2> DEFINE n == Len(gaps)
  <2>3. n \in Nat /\ n >= 2 OBVIOUS
  <2> HIDE DEF n, rest
  <2>4. (IF 3 <= n THEN n - 3 + 1 ELSE 0) = n - 2 BY <2>3
  <2> QED BY <2>2, <2>4 DEF n
<1>4. rest = Tail(Tail(gaps)) OBVIOUS
<1> HIDE DEF merged, rest
<1>5. /\ room \in Seq(Gaps) /\ Len(room) = Len(gaps) - 1 /\ room # <<>>
      /\ room[1] = merged /\ Tail(room) = rest
  BY <1>1, <1>3
<1> HIDE DEF room
<1>6. Missing(room) = merged.frames + Missing(rest) BY <1>5, HeadMisses
<1>7. Missing(rest) \in Nat BY <1>3, MissedIsFinite
<1>8. Missing(room) = Missing(gaps) BY <1>1, <1>2, <1>4, <1>6, <1>7
<1> QED BY <1>5, <1>8 DEF room, merged, rest
------------------------------------------------------------------------------
(* What the operations on the runtime state change.                         *)

\* All but the state, the visibility and the poison.
CountsAlike(s, t) ==
    /\ t.depth = s.depth /\ t.inFlight = s.inFlight /\ t.received = s.received
    /\ t.accepted = s.accepted /\ t.dropped = s.dropped /\ t.persisted = s.persisted
    /\ t.failure = s.failure

\* The state machine does not leave its states.
LEMMA NextStateIsState ==
    ASSUME NEW state \in States, NEW event PROVE NextState(state, event) \in States
BY DEF States, NextState

\* A transition moves the state, the visibility and the poison, and nothing that counts frames.
LEMMA TransitionKeeps ==
    ASSUME NEW s \in Runtimes, NEW event
    PROVE  /\ Transition(s, event) \in Runtimes
           /\ CountsAlike(s, Transition(s, event))
           /\ Transition(s, event).gaps = s.gaps
           /\ Transition(s, event).open = s.open
<1> DEFINE seen == CASE event = "Hide" -> [s EXCEPT !.visible = FALSE]
                     [] event \in {"Show", "ActualFrame"} -> [s EXCEPT !.visible = TRUE]
                     [] OTHER -> s
           next == NextState(s.state, event)
           moved == [seen EXCEPT !.state = next]
           checked == [moved EXCEPT !.poisoned = @ \/ ~StatusIsValid(moved)]
<1>1. s \in Counts /\ Len(s.gaps) <= LedgerCapacity BY DEF Runtimes
<1>2. seen \in Counts /\ CountsAlike(s, seen) /\ seen.gaps = s.gaps /\ seen.open = s.open
  BY <1>1 DEF Counts, CountsAlike
<1>3. next \in States BY <1>1, NextStateIsState DEF Counts
<1> HIDE DEF seen, next
<1>4. moved \in Counts /\ CountsAlike(s, moved) /\ moved.gaps = s.gaps /\ moved.open = s.open
  BY <1>2, <1>3 DEF Counts, CountsAlike
<1>5. (moved.poisoned \/ ~StatusIsValid(moved)) \in BOOLEAN OBVIOUS
<1> HIDE DEF moved
<1>6. checked = [moved EXCEPT !.poisoned = (moved.poisoned \/ ~StatusIsValid(moved))] OBVIOUS
<1>7. /\ checked \in Counts /\ CountsAlike(s, checked)
      /\ checked.gaps = s.gaps /\ checked.open = s.open
  <2> DEFINE bad == moved.poisoned \/ ~StatusIsValid(moved)
  <2> HIDE DEF bad
  <2>1. checked = [moved EXCEPT !.poisoned = bad] BY <1>6 DEF bad
  <2>2. bad \in BOOLEAN BY <1>5 DEF bad
  <2> HIDE DEF checked
  <2> QED BY <1>4, <2>1, <2>2 DEF Counts, CountsAlike
<1>8. Transition(s, event) = IF next = s.state THEN seen ELSE checked
  BY DEF Transition, Checked, seen, next, moved
<1> HIDE DEF checked
<1> QED BY <1>1, <1>2, <1>7, <1>8 DEF Runtimes

\* Whatever the ledger merges to stay within its capacity, it misses as many frames more as the
\* new gap counts.
LEMMA PushCounts ==
    ASSUME NEW s \in Runtimes, NEW gap \in Gaps
    PROVE  /\ Push(s, gap) \in Runtimes
           /\ CountsAlike(s, Push(s, gap))
           /\ Push(s, gap).state = s.state
           /\ Missing(Push(s, gap).gaps) = Missing(s.gaps) + gap.frames
<1> DEFINE n == Len(s.gaps)
           saturation == gap.reason = "Saturated"
           grown == [s.gaps EXCEPT ![n] = Merge(@, gap)]
           added == Append(s.gaps, gap)
           single == <<Merge(s.gaps[1], gap)>>
           room == <<Merge(s.gaps[1], s.gaps[2])>> \o SubSeq(s.gaps, 3, n)
           last == Append(room, gap)
           next == IF n < LedgerCapacity THEN added ELSE IF n = 1 THEN single ELSE last
<1>1. /\ s \in Counts /\ s.gaps \in Seq(Gaps) /\ n <= LedgerCapacity /\ n \in Nat
      /\ saturation \in BOOLEAN /\ LedgerCapacity \in Nat \ {0}
  BY CaptureAssumption DEF Runtimes, Counts
<1>2. ASSUME n > 0
      PROVE  /\ grown \in Seq(Gaps) /\ Len(grown) = n
             /\ Missing(grown) = Missing(s.gaps) + gap.frames
  <2>1. n \in 1 .. Len(s.gaps) /\ Len(s.gaps) = n BY <1>1, <1>2
  <2>2. s.gaps[n] \in Gaps BY <1>1, <2>1
  <2>3. /\ Merge(s.gaps[n], gap) \in Gaps
        /\ Merge(s.gaps[n], gap).frames = s.gaps[n].frames + gap.frames
    BY <2>2 DEF Gaps, Merge
  <2> DEFINE g == s.gaps
             m == Merge(g[n], gap)
  <2>4. grown = [g EXCEPT ![n] = m] OBVIOUS
  <2>5. g \in Seq(Gaps) /\ n \in 1 .. Len(g) /\ Len(g) = n /\ m \in Gaps
        /\ m.frames = g[n].frames + gap.frames
    BY <1>1, <2>1, <2>3
  <2> HIDE DEF n, g, grown, m
  <2>6. /\ grown \in Seq(Gaps) /\ Len(grown) = Len(g) /\ grown[n] = m
        /\ \A j \in 1 .. Len(g) : j # n => grown[j] = g[j]
    BY <2>4, <2>5
  <2>7. Missing(grown) = Missing(g) + gap.frames
    BY <2>5, <2>6, GrowthMisses
  <2> QED BY <2>5, <2>6, <2>7 DEF g
<1>3. /\ added \in Seq(Gaps) /\ Len(added) = n + 1
      /\ Missing(added) = Missing(s.gaps) + gap.frames
  BY <1>1, AppendMisses
<1>4. ASSUME n = 1
      PROVE  /\ single \in Seq(Gaps) /\ Len(single) = n
             /\ Missing(single) = Missing(s.gaps) + gap.frames
  <2>1. s.gaps[1] \in Gaps /\ 1 \in 1 .. Len(s.gaps) /\ Len(s.gaps) = 1 BY <1>1, <1>4
  <2>2. /\ Merge(s.gaps[1], gap) \in Gaps
        /\ Merge(s.gaps[1], gap).frames = s.gaps[1].frames + gap.frames
    BY <2>1 DEF Gaps, Merge
  <2>3. /\ single \in Seq(Gaps) /\ Len(single) = 1
        /\ single[1].frames = s.gaps[1].frames + gap.frames
    BY <2>2
  <2> HIDE DEF single
  <2>4. \A j \in 1 .. Len(s.gaps) : j # 1 => single[j] = s.gaps[j] BY <2>1
  <2>5. Missing(single) = Missing(s.gaps) + gap.frames
    BY <1>1, <2>1, <2>3, <2>4, GrowthMisses
  <2> QED BY <1>4, <2>3, <2>5
<1>5. ASSUME n >= 2
      PROVE  /\ last \in Seq(Gaps) /\ Len(last) = n
             /\ Missing(last) = Missing(s.gaps) + gap.frames
  <2>1. /\ room \in Seq(Gaps) /\ Len(room) = n - 1
        /\ Missing(room) = Missing(s.gaps)
    BY <1>1, <1>5, MakingRoomMisses
  <2> HIDE DEF room
  <2>2. last \in Seq(Gaps) /\ Missing(last) = Missing(room) + gap.frames
    BY <2>1, AppendMisses
  <2>3. Len(last) = n BY <1>1, <2>1
  <2> QED BY <2>1, <2>2, <2>3
<1>6. /\ next \in Seq(Gaps) /\ Len(next) <= LedgerCapacity
      /\ Missing(next) = Missing(s.gaps) + gap.frames
  <2> HIDE DEF added, single, last, n
  <2>1. CASE n < LedgerCapacity BY <1>1, <1>3, <2>1
  <2>2. CASE ~(n < LedgerCapacity) /\ n = 1 BY <1>1, <1>4, <2>2
  <2>3. CASE ~(n < LedgerCapacity) /\ n # 1 BY <1>1, <1>5, <2>3
  <2> QED BY <2>1, <2>2, <2>3
<1>7. Push(s, gap) = IF saturation /\ s.open /\ n > 0 /\ s.gaps[n].reason = "Saturated"
                     THEN [s EXCEPT !.gaps = grown]
                     ELSE [s EXCEPT !.open = saturation, !.gaps = next]
  <2>1. last = <<Merge(s.gaps[1], s.gaps[2])>> \o SubSeq(s.gaps, 3, n) \o <<gap>>
    OBVIOUS
  <2> QED BY <2>1 DEF Push
<1> HIDE DEF next, grown, saturation, n
<1>8. CASE saturation /\ s.open /\ n > 0 /\ s.gaps[n].reason = "Saturated"
  <2>1. Push(s, gap) = [s EXCEPT !.gaps = grown] BY <1>7, <1>8
  <2> QED BY <1>1, <1>2, <1>8, <2>1 DEF Runtimes, Counts, CountsAlike, n
<1>9. CASE ~(saturation /\ s.open /\ n > 0 /\ s.gaps[n].reason = "Saturated")
  <2>1. Push(s, gap) = [s EXCEPT !.open = saturation, !.gaps = next] BY <1>7, <1>9
  <2> QED BY <1>1, <1>6, <2>1 DEF Runtimes, Counts, CountsAlike
<1> QED BY <1>8, <1>9
------------------------------------------------------------------------------
(* The invariant.                                                           *)

ReaderStates == {"waiting", "acking", "acked", "dropping", "sent", "fails", "failing", "aborted",
                 "ended"}
WorkerStates == {"receiving", "taken", "before", "appending", "appended", "paused", "resuming",
                 "resumeVisible", "resumeHidden", "direct", "fails", "failing", "failsLast",
                 "failingLast", "leaving", "final", "ended", "aborted"}
StopStates == {"starting", "unregistered", "running", "suspending", "announcing", "sending",
               "joining", "counting", "recounting", "reading", "declaring", "closing", "reporting",
               "done"}

Failures == Stages \union {NoFailure}

Gates == [accepting : BOOLEAN, sender : BOOLEAN, closed : BOOLEAN, fenced : BOOLEAN]
Readers == [pc : ReaderStates, why : Failures \union {"CaptureStopped", "Saturated"}]
Watchers == [pc : {"waiting", "fails", "failing", "aborted", "ended"}, why : Failures]
Workers == [pc : WorkerStates, vec : Seq(Gaps), why : Failures, aborted : BOOLEAN]
Stops == [pc : StopStates, complete : BOOLEAN, abandoned : Nat]
Stores == [frames : Nat, missing : Nat]
Bounds == [visibility : Nat, faults : Nat, untraced : Nat, lostGaps : Nat, late : Nat]

StreamTyped ==
    /\ rt \in Runtimes /\ gate \in Gates /\ queued \in 0 .. QueueCapacity
    /\ reader \in Readers /\ watcher \in Watchers /\ worker \in Workers
    /\ stop \in Stops /\ store \in Stores /\ env \in Bounds

\* The stop has given up on the worker, or the browser did not answer it.
Abandoned ==
    /\ stop.pc \in {"counting", "recounting", "reading", "declaring", "closing", "reporting",
                    "done"}
    /\ ~stop.complete

\* What the stop has decided, and what it has counted.
StopOrderly ==
    /\ worker.aborted => stop.pc = "unregistered" \/ Abandoned
    /\ (stop.pc \in {"closing", "reporting", "done"} /\ stop.complete) => worker.pc = "ended"
    /\ Abandoned => worker.aborted \/ worker.pc = "ended"
    /\ stop.pc \in {"counting", "recounting", "reading", "declaring"} => ~stop.complete
    /\ stop.pc \in {"starting", "unregistered", "running", "suspending", "announcing", "sending",
                    "joining", "counting"} => stop.abandoned = 0

\* Where the tasks and the stop can be together.
StreamOrderly ==
    /\ reader.pc = "dropping" => reader.why \in {"CaptureStopped", "Saturated"}
    /\ reader.pc = "fails" => reader.why \in Stages
    /\ watcher.pc = "fails" => watcher.why \in Stages
    /\ worker.pc \in {"fails", "failsLast"} => worker.why \in Stages
    /\ worker.vec # <<>> => worker.pc \in {"before", "direct", "resuming", "final"}
    /\ worker.why # NoFailure => worker.pc \in {"fails", "failsLast"} \/ rt.failure # NoFailure
    /\ worker.pc = "aborted" => worker.aborted
    /\ worker.pc # "aborted" => env.lostGaps = 0
    /\ StopOrderly

NoneFailed == rt.failure = NoFailure /\ worker.why = NoFailure

Taken == IF worker.pc = "taken" THEN 1 ELSE 0
Processing == IF worker.pc \in {"before", "appending", "appended"} THEN 1 ELSE 0
Unrecorded == IF worker.pc = "appended" THEN 1 ELSE 0
Sent == IF reader.pc = "sent" THEN 1 ELSE 0

\* Frames with the reader, in the store, in a gap, or known to have left without one.
Traced == InReader + InStore + InGaps + env.untraced

\* The counters are no less than what is queued and processed: a frame that is sent and not yet
\* recorded is what the depth can lack, and a depth that met zero is what it can have too much.
QueueIsCounted ==
    (~Abandoned /\ ~worker.aborted /\ worker.pc # "ended") =>
        /\ queued + Taken <= rt.depth + Sent
        /\ Processing <= rt.inFlight

\* While the worker runs, no frame is nowhere.
FramesAreSomewhere ==
    (NoneFailed /\ worker.pc \notin {"direct", "ended"} /\ ~worker.aborted) =>
        rt.received = Traced + queued + InWorker

\* A worker that has ended took at most the frames with it that the depth counts.
EndTakesOnlyQueued ==
    (NoneFailed /\ worker.pc = "ended" /\ ~worker.aborted /\ ~Abandoned) =>
        /\ Traced <= rt.received
        /\ rt.received <= Traced + rt.depth + Sent

\* What the gap of an incomplete stop is going to count at least: the counters until abandon_queue
\* takes them, unless its first count hides the second, then what was found, and nothing once the
\* gap is declared.
Pending ==
    IF stop.pc \in {"reading", "declaring"} \/ (stop.pc = "recounting" /\ stop.abandoned > 0)
    THEN stop.abandoned
    ELSE IF stop.pc \in {"counting", "recounting"} THEN rt.depth + rt.inFlight ELSE 0

\* From the moment the stop gives up, what a still running worker has is counted, or is going to be.
AbandonedAreTraced ==
    (NoneFailed /\ Abandoned) =>
        rt.received + Unrecorded <= Traced + env.lostGaps + Sent + Pending + env.late

\* The gap of a frame that does not decode is in the worker's hands and in the ledger.
RejectedIsTraced ==
    (NoneFailed /\ worker.pc = "direct" /\ ~worker.aborted) => rt.received <= Traced + queued

\* The worker records what it has stored.
StoredAreRecorded == ~worker.aborted => store.frames = rt.persisted + Unrecorded

StreamInv ==
    /\ StreamTyped /\ StreamOrderly /\ QueueIsCounted /\ FramesAreSomewhere
    /\ EndTakesOnlyQueued /\ AbandonedAreTraced /\ RejectedIsTraced
    /\ StoredAreRecorded

\* The fields that the proofs count with.
LEMMA TypedParts ==
    ASSUME StreamTyped
    PROVE  /\ rt \in Runtimes /\ rt \in Counts
           /\ rt.depth \in Nat /\ rt.inFlight \in Nat /\ rt.received \in Nat
           /\ rt.persisted \in Nat /\ rt.gaps \in Seq(Gaps) /\ rt.failure \in Failures
           /\ Len(rt.gaps) <= LedgerCapacity
           /\ queued \in Nat
           /\ reader.pc \in ReaderStates /\ worker.pc \in WorkerStates
           /\ worker.vec \in Seq(Gaps) /\ worker.why \in Failures /\ worker.aborted \in BOOLEAN
           /\ stop.pc \in StopStates /\ stop.complete \in BOOLEAN /\ stop.abandoned \in Nat
           /\ store.frames \in Nat /\ store.missing \in Nat
           /\ env.untraced \in Nat /\ env.lostGaps \in Nat /\ env.visibility \in Nat
           /\ env.faults \in Nat /\ env.late \in Nat
           /\ Missing(rt.gaps) \in Nat /\ Missing(worker.vec) \in Nat
<1>1. rt \in Runtimes /\ worker \in Workers BY DEF StreamTyped
<1>2. rt.gaps \in Seq(Gaps) /\ worker.vec \in Seq(Gaps) BY <1>1 DEF Runtimes, Counts, Workers
<1>3. Missing(rt.gaps) \in Nat /\ Missing(worker.vec) \in Nat BY <1>2, MissedIsFinite
<1>4. /\ rt \in Counts /\ rt.depth \in Nat /\ rt.inFlight \in Nat /\ rt.received \in Nat
      /\ rt.persisted \in Nat /\ rt.failure \in Failures /\ Len(rt.gaps) <= LedgerCapacity
  BY <1>1 DEF Runtimes, Counts, Failures
<1>5. queued \in Nat BY CaptureAssumption DEF StreamTyped
<1>6. reader.pc \in ReaderStates BY DEF StreamTyped, Readers
<1>7. worker.pc \in WorkerStates /\ worker.why \in Failures /\ worker.aborted \in BOOLEAN
  BY <1>1 DEF Workers
<1>8. stop.pc \in StopStates /\ stop.complete \in BOOLEAN /\ stop.abandoned \in Nat
  BY DEF StreamTyped, Stops
<1>9. store.frames \in Nat /\ store.missing \in Nat BY DEF StreamTyped, Stores
<1>10. /\ env.untraced \in Nat /\ env.lostGaps \in Nat /\ env.visibility \in Nat
       /\ env.faults \in Nat /\ env.late \in Nat
  BY DEF StreamTyped, Bounds
<1> QED BY <1>1, <1>2, <1>3, <1>4, <1>5, <1>6, <1>7, <1>8, <1>9, <1>10
------------------------------------------------------------------------------
(* The state stays in its domain.                                           *)

\* A counter that is set to another number.
LEMMA RuntimesAreClosed ==
    ASSUME NEW s \in Runtimes
    PROVE  /\ s \in Counts /\ s.gaps \in Seq(Gaps)
           /\ \A n \in Nat : /\ [s EXCEPT !.received = n] \in Runtimes
                             /\ [s EXCEPT !.dropped = n] \in Runtimes
           /\ \A n, m \in Nat :
                 /\ [s EXCEPT !.depth = n, !.open = FALSE, !.accepted = m] \in Runtimes
                 /\ [s EXCEPT !.depth = n, !.inFlight = m] \in Runtimes
           /\ \A n \in Nat : [s EXCEPT !.inFlight = n] \in Runtimes
           /\ \A n, m \in Nat, b \in BOOLEAN :
                 [s EXCEPT !.persisted = n, !.inFlight = m, !.poisoned = b] \in Runtimes
           /\ \A f \in Failures : [s EXCEPT !.failure = f] \in Runtimes
           /\ \A b \in BOOLEAN : [s EXCEPT !.poisoned = b] \in Runtimes
           /\ Emptied(s) \in Runtimes
<1>1. s \in Counts /\ Len(s.gaps) <= LedgerCapacity BY DEF Runtimes
<1>2. Len(<<>>) <= LedgerCapacity /\ <<>> \in Seq(Gaps) BY CaptureAssumption
<1>3. Emptied(s) \in Runtimes BY <1>1, <1>2 DEF Emptied, Runtimes, Counts
<1>4. s.gaps \in Seq(Gaps) BY <1>1 DEF Counts
<1> QED BY <1>1, <1>3, <1>4 DEF Runtimes, Counts, Failures

\* The gaps that the pipeline declares.
LEMMA GapsAreGaps ==
    ASSUME NEW reason \in Reasons, NEW frames \in Nat
    PROVE  Gap(reason, frames) \in Gaps /\ Gap(reason, frames).frames = frames
BY DEF Gap, Gaps

\* What the reader, the worker and the stop push into the ledger.
LEMMA DroppedCounts ==
    ASSUME NEW s \in Runtimes, NEW reason \in Reasons
    PROVE  /\ Dropped(s, reason) \in Runtimes
           /\ Missing(Dropped(s, reason).gaps) = Missing(s.gaps) + 1
           /\ Dropped(s, reason).depth = s.depth /\ Dropped(s, reason).inFlight = s.inFlight
           /\ Dropped(s, reason).received = s.received
           /\ Dropped(s, reason).persisted = s.persisted
           /\ Dropped(s, reason).failure = s.failure
<1> DEFINE t == Push(s, Gap(reason, 1))
<1>1. Gap(reason, 1) \in Gaps /\ Gap(reason, 1).frames = 1 BY GapsAreGaps
<1>2. /\ t \in Runtimes /\ CountsAlike(s, t) /\ Missing(t.gaps) = Missing(s.gaps) + 1
  BY <1>1, PushCounts
<1> HIDE DEF t
<1>3. t \in Counts /\ t.dropped + 1 \in Nat BY <1>2 DEF Runtimes, Counts
<1>4. Dropped(s, reason) = [t EXCEPT !.dropped = t.dropped + 1] BY DEF Dropped, t
<1>5. Dropped(s, reason) \in Runtimes BY <1>2, <1>3, <1>4, RuntimesAreClosed
<1> QED BY <1>2, <1>3, <1>4, <1>5 DEF CountsAlike, Counts

\* abandon_queue leaves both counters zero, and nothing else changes.
LEMMA AbandonTakes ==
    ASSUME NEW s \in Runtimes
    PROVE  LET t == [s EXCEPT !.depth = 0, !.inFlight = 0]
           IN  /\ t \in Runtimes
               /\ t.depth = 0 /\ t.inFlight = 0 /\ t.received = s.received
               /\ t.persisted = s.persisted /\ t.failure = s.failure /\ t.gaps = s.gaps
<1>1. s \in Counts BY DEF Runtimes
<1>2. [s EXCEPT !.depth = 0, !.inFlight = 0] \in Runtimes BY RuntimesAreClosed
<1> QED BY <1>1, <1>2 DEF Counts

\* A frame whose append fails leaves the frames in flight for a gap.
LEMMA LossCounts ==
    ASSUME NEW s \in Runtimes, NEW reason \in Reasons
    PROVE  LET less == IF s.inFlight = 0 THEN 0 ELSE s.inFlight - 1
               t == Push([s EXCEPT !.inFlight = less], Gap(reason, 1))
           IN  /\ t \in Runtimes
               /\ Missing(t.gaps) = Missing(s.gaps) + 1
               /\ t.depth = s.depth /\ t.inFlight = less
               /\ t.received = s.received /\ t.persisted = s.persisted
               /\ t.failure = s.failure
<1> DEFINE less == IF s.inFlight = 0 THEN 0 ELSE s.inFlight - 1
           u == [s EXCEPT !.inFlight = less]
           t == Push(u, Gap(reason, 1))
<1>1. s \in Counts /\ s.inFlight \in Nat /\ less \in Nat BY DEF Runtimes, Counts
<1>2. Gap(reason, 1) \in Gaps /\ Gap(reason, 1).frames = 1 BY GapsAreGaps
<1> HIDE DEF less
<1>3. /\ u \in Runtimes /\ u.gaps = s.gaps /\ u.depth = s.depth /\ u.inFlight = less
      /\ u.received = s.received /\ u.persisted = s.persisted /\ u.failure = s.failure
  BY <1>1, RuntimesAreClosed DEF Counts
<1> HIDE DEF u
<1>4. /\ t \in Runtimes /\ CountsAlike(u, t) /\ Missing(t.gaps) = Missing(u.gaps) + 1
  BY <1>2, <1>3, PushCounts
<1> HIDE DEF t
<1>5. /\ t \in Runtimes
      /\ Missing(t.gaps) = Missing(s.gaps) + 1
      /\ t.depth = s.depth /\ t.inFlight = less
      /\ t.received = s.received /\ t.persisted = s.persisted /\ t.failure = s.failure
  BY <1>3, <1>4 DEF CountsAlike
<1> QED BY <1>5 DEF t, u, less

\* The runtime state is one after every step.
LEMMA RuntimeIsTyped ==
    ASSUME StreamTyped, StreamOrderly, StreamNext
    PROVE  rt' \in Runtimes
<1>0. rt \in Runtimes /\ rt \in Counts BY TypedParts
<1>1. CASE UNCHANGED rt BY <1>0, <1>1
<1>2. CASE \E event \in {"StartedVisible", "ActualFrame", "Show", "Failure", "Stop",
                         "ResumeBudgetVisible", "ResumeBudgetHidden", "Drained", "Deadline"} :
             rt' = Transition(rt, event)
  BY <1>0, <1>2, TransitionKeeps
<1>3. CASE SuspendShows
  <2>1. Gap("Disconnected", 0) \in Gaps BY GapsAreGaps DEF Reasons
  <2>2. Transition(rt, "Suspend") \in Runtimes BY <1>0, TransitionKeeps
  <2> QED BY <1>3, <2>1, <2>2, PushCounts DEF SuspendShows
<1>4. CASE ReceiveFrame
  <2>1. rt.received + 1 \in Nat BY TypedParts
  <2> QED BY <1>0, <1>4, <2>1, RuntimesAreClosed DEF ReceiveFrame
<1>5. CASE AcknowledgementFails
  <2>1. Gap("AcknowledgementFailed", 1) \in Gaps BY GapsAreGaps DEF Reasons
  <2> QED BY <1>0, <1>5, <2>1, PushCounts DEF AcknowledgementFails
<1>6. CASE RejectEnvelope BY <1>0, <1>6, DroppedCounts DEF RejectEnvelope, Reasons
<1>7. CASE DropFrame
  <2>1. reader.why \in Reasons BY <1>7 DEF DropFrame, StreamOrderly, Reasons
  <2> QED BY <1>0, <1>7, <2>1, DroppedCounts DEF DropFrame
<1>8. CASE RecordAccepted
  <2>1. rt.depth + 1 \in Nat /\ rt.accepted + 1 \in Nat BY <1>0 DEF Counts
  <2> QED BY <1>0, <1>8, <2>1, RuntimesAreClosed DEF RecordAccepted
<1>9. ASSUME NEW stage \in Failures, StageFails(stage) PROVE rt' \in Runtimes
  <2>1. (IF rt.failure = NoFailure THEN stage ELSE rt.failure) \in Failures BY TypedParts
  <2>2. rt' = [rt EXCEPT !.failure = IF rt.failure = NoFailure THEN stage ELSE rt.failure]
    BY <1>9 DEF StageFails
  <2> QED BY <1>0, <2>1, <2>2, RuntimesAreClosed
<1>10. CASE ReaderFails
  <2>1. ASSUME reader.pc = "fails" PROVE reader.why \in Failures
    BY <2>1 DEF StreamOrderly, Failures
  <2> QED BY <1>1, <1>2, <1>9, <1>10, <2>1 DEF ReaderFails, FailureShows
<1>11. CASE WatcherFails
  <2>1. watcher.why \in Failures BY DEF StreamTyped, Watchers
  <2> QED BY <1>1, <1>2, <1>9, <1>11, <2>1 DEF WatcherFails, FailureShows
<1>12. CASE StreamWorkerFails
  <2>1. worker.why \in Failures BY TypedParts
  <2> QED BY <1>2, <1>9, <1>12, <2>1 DEF StreamWorkerFails, FailureShows
<1>13. CASE TargetHides
  <2> DEFINE hidden == Transition(rt, "Hide")
  <2>1. hidden \in Runtimes BY <1>0, TransitionKeeps
  <2>2. Gap("TargetHidden", 0) \in Gaps BY GapsAreGaps DEF Reasons
  <2>3. Push(hidden, Gap("TargetHidden", 0)) \in Runtimes BY <2>1, <2>2, PushCounts
  <2> QED BY <1>13, <2>1, <2>3 DEF TargetHides
<1>14. CASE BeginProcessing
  <2> DEFINE d == IF rt.depth = 0 THEN 0 ELSE rt.depth - 1
             s == [rt EXCEPT !.depth = d, !.inFlight = rt.inFlight + 1]
  <2>1. d \in Nat /\ rt.inFlight + 1 \in Nat
    <3>1. rt.depth \in Nat /\ rt.inFlight \in Nat BY TypedParts
    <3> QED BY <3>1
  <2>2. rt' = Emptied(s) BY <1>14 DEF BeginProcessing, TakesGaps
  <2> HIDE DEF d
  <2>3. s \in Runtimes BY <1>0, <2>1, RuntimesAreClosed
  <2> HIDE DEF s
  <2> QED BY <2>2, <2>3, RuntimesAreClosed
<1>15. CASE BudgetAvailable \/ LeaveLoop
  BY <1>0, <1>15, RuntimesAreClosed DEF BudgetAvailable, LeaveLoop, TakesGaps
<1>16. CASE RejectDecode BY <1>0, <1>16, LossCounts DEF RejectDecode, Reasons
<1>17. LosesFrame \in Runtimes BY <1>0, LossCounts DEF LosesFrame, Reasons
<1>18. CASE AppendFrameFails BY <1>17, <1>18 DEF AppendFrameFails
<1>19. CASE BudgetExhausted BY <1>17, <1>19, TransitionKeeps DEF BudgetExhausted
<1>20. CASE RecordPersisted
  <2> DEFINE n == IF rt.inFlight = 0 THEN 0 ELSE rt.inFlight - 1
             b == rt.persisted = rt.accepted
  <2>1. rt.persisted + 1 \in Nat /\ n \in Nat /\ b \in BOOLEAN
    <3>1. rt.persisted \in Nat /\ rt.inFlight \in Nat BY TypedParts
    <3> QED BY <3>1
  <2>2. rt' = [rt EXCEPT !.persisted = rt.persisted + 1, !.inFlight = n, !.poisoned = b]
    BY <1>20 DEF RecordPersisted
  <2> HIDE DEF n, b
  <2>3. \A i, j \in Nat, c \in BOOLEAN :
           [rt EXCEPT !.persisted = i, !.inFlight = j, !.poisoned = c] \in Runtimes
    BY <1>0, RuntimesAreClosed
  <2> QED BY <2>1, <2>2, <2>3
<1>21. CASE StopCounts \/ StopRecounts
  BY <1>0, <1>21, AbandonTakes DEF StopCounts, StopRecounts, AbandonQueue
<1>22. CASE StopDeclares
  <2>1. Gap("CaptureStopped", stop.abandoned) \in Gaps
    BY TypedParts, GapsAreGaps DEF Reasons
  <2> QED BY <1>0, <1>22, <2>1, PushCounts DEF StopDeclares
<1>23. CASE StopEnds BY <1>2, <1>23 DEF StopEnds
<1>24. CASE StatusRead \/ StopReads \/ StopReports
  <2> DEFINE b == rt.poisoned \/ ~StatusIsValid(rt)
  <2>1. b \in BOOLEAN OBVIOUS
  <2>2. rt' = [rt EXCEPT !.poisoned = b]
    BY <1>24 DEF StatusRead, StopReads, StopReports, Checked
  <2> HIDE DEF b
  <2> QED BY <1>0, <2>1, <2>2, RuntimesAreClosed
<1>25. CASE \/ StartFails \/ Suspend \/ ReadersAborted \/ FenceMoves \/ AcknowledgedStale
            \/ Handoff \/ WorkerReceives \/ AppendGap \/ GapsAppended \/ StoreFrame
            \/ PauseInterrupted \/ PauseFails \/ ReadVisibility \/ WorkerAborted
            \/ AppendGapFails \/ StopBegins \/ StopJoins \/ StopDeadline
            \/ \E answered \in BOOLEAN : StopSent(answered)
  BY <1>1, <1>25
     DEF StartFails, Suspend, ReadersAborted, FenceMoves, AcknowledgedStale, Handoff,
         WorkerReceives, AppendGap, GapsAppended, StoreFrame, PauseInterrupted, PauseFails,
         ReadVisibility, WorkerAborted, AppendGapFails, StopBegins, StopJoins, StopDeadline,
         StopSent
<1>26. CASE StartAnswered \/ Acknowledged \/ TargetShows \/ ResumeStream \/ StopAnnounced
  BY <1>2, <1>26 DEF StartAnswered, Acknowledged, TargetShows, ResumeStream, StopAnnounced
<1> QED BY <1>3, <1>4, <1>5, <1>6, <1>7, <1>8, <1>10, <1>11, <1>12, <1>13, <1>14, <1>15, <1>16,
           <1>18, <1>19, <1>20, <1>21, <1>22, <1>23, <1>24, <1>25, <1>26
        DEF StreamNext, ReaderStep, WatcherStep, WorkerStep, WorkerProceeds, StopStep

\* Each part of the state is changed by its own tasks, and by who may end or abort them.
LEMMA WhoChangesWhat ==
    ASSUME StreamNext
    PROVE  /\ \/ UNCHANGED gate \/ CloseAcceptance
              \/ gate' = [gate EXCEPT !.accepting = FALSE]
              \/ gate' = [gate EXCEPT !.sender = FALSE]
              \/ gate' = [gate EXCEPT !.fenced = TRUE]
           /\ UNCHANGED reader \/ ReaderStep \/ ReadersAborted
           /\ UNCHANGED watcher \/ WatcherStep \/ ReadersAborted
           /\ UNCHANGED stop \/ StopStep \/ StartAnswered \/ StartFails \/ Suspend \/ SuspendShows
           /\ UNCHANGED queued \/ Handoff \/ WorkerReceives \/ queued' = 0
           /\ UNCHANGED worker \/ WorkerStep \/ worker' = [worker EXCEPT !.aborted = TRUE]
           /\ UNCHANGED store \/ AppendGap \/ store' = [store EXCEPT !.frames = @ + 1]
           /\ \/ UNCHANGED env \/ StreamFault \/ SeesVisibility \/ ReadersAborted
              \/ AcknowledgedStale \/ WorkerAborted \/ RecordAccepted
<1> USE DEF StreamNext, StartAnswered, StartFails, Suspend, SuspendShows, ReadersAborted,
           FenceMoves, StatusRead, ReaderStep, ReceiveFrame, AcknowledgementFails, Acknowledged,
           AcknowledgedStale, RejectEnvelope, Handoff, DropFrame, RecordAccepted, ReaderFails,
           StageFails, FailureShows,
           WatcherStep, TargetHides, TargetShows, SeesVisibility, WatcherFails,
           WorkerStep, WorkerProceeds, WorkerReceives, BeginProcessing, AppendGap, GapsAppended,
           StoreFrame, RecordPersisted, PauseInterrupted, PauseFails, ReadVisibility, ResumeStream,
           StreamWorkerFails, LeaveLoop, WorkerAborted, AppendGapFails, RejectDecode,
           AppendFrameFails, BudgetExhausted, BudgetAvailable, StopStep, StopBegins, StopAnnounced,
           StopSent, StopJoins, StopDeadline, StopCounts, StopRecounts, AbandonQueue, StopReads,
           StopDeclares, StopEnds, StopReports, CloseAcceptance
<1>1. \/ UNCHANGED gate \/ CloseAcceptance
      \/ gate' = [gate EXCEPT !.accepting = FALSE]
      \/ gate' = [gate EXCEPT !.sender = FALSE]
      \/ gate' = [gate EXCEPT !.fenced = TRUE] OBVIOUS
<1>2. UNCHANGED reader \/ ReaderStep \/ ReadersAborted OBVIOUS
<1>3. UNCHANGED watcher \/ WatcherStep \/ ReadersAborted OBVIOUS
<1>4. UNCHANGED stop \/ StopStep \/ StartAnswered \/ StartFails \/ Suspend \/ SuspendShows OBVIOUS
<1>5. UNCHANGED queued \/ Handoff \/ WorkerReceives \/ queued' = 0 OBVIOUS
<1>6. UNCHANGED worker \/ WorkerStep \/ worker' = [worker EXCEPT !.aborted = TRUE] OBVIOUS
<1>7. UNCHANGED store \/ AppendGap \/ store' = [store EXCEPT !.frames = @ + 1] OBVIOUS
<1>8. \/ UNCHANGED env \/ StreamFault \/ SeesVisibility \/ ReadersAborted
      \/ AcknowledgedStale \/ WorkerAborted \/ RecordAccepted OBVIOUS
<1> QED BY <1>1, <1>2, <1>3, <1>4, <1>5, <1>6, <1>7, <1>8

\* The gate, the readers, the stop and the channel after a step.
LEMMA TasksAreTyped ==
    ASSUME StreamTyped, StreamOrderly, StreamNext
    PROVE  /\ gate' \in Gates /\ reader' \in Readers /\ watcher' \in Watchers
           /\ stop' \in Stops /\ queued' \in 0 .. QueueCapacity
<1>0. /\ gate \in Gates /\ reader \in Readers /\ watcher \in Watchers /\ stop \in Stops
      /\ queued \in 0 .. QueueCapacity
  BY DEF StreamTyped
<1>1. gate' \in Gates
  <2>1. CASE UNCHANGED gate BY <1>0, <2>1
  <2>2. CASE CloseAcceptance BY <1>0, <2>2 DEF CloseAcceptance, Gates
  <2>3. CASE gate' = [gate EXCEPT !.accepting = FALSE] BY <1>0, <2>3 DEF Gates
  <2>4. CASE gate' = [gate EXCEPT !.sender = FALSE] BY <1>0, <2>4 DEF Gates
  <2>5. CASE gate' = [gate EXCEPT !.fenced = TRUE] BY <1>0, <2>5 DEF Gates
  <2> QED BY <2>1, <2>2, <2>3, <2>4, <2>5, WhoChangesWhat
<1>2. reader' \in Readers
  <2>1. CASE UNCHANGED reader BY <1>0, <2>1
  <2>2. CASE ReaderStep
    <3>1. reader.pc \in ReaderStates BY <1>0 DEF Readers
    <3>2. ReaderLoops \in Readers BY DEF ReaderLoops, Readers, ReaderStates, Failures
    <3> QED
      BY <1>0, <2>2, <3>2
         DEF ReaderStep, ReceiveFrame, AcknowledgementFails, Acknowledged, AcknowledgedStale,
             RejectEnvelope, Handoff, DropFrame, RecordAccepted, ReaderFails, Readers, ReaderStates,
             Failures, Stages
  <2>3. CASE ReadersAborted BY <1>0, <2>3 DEF ReadersAborted, Readers, ReaderStates
  <2> QED BY <2>1, <2>2, <2>3, WhoChangesWhat
<1>3. watcher' \in Watchers
  <2>1. CASE UNCHANGED watcher BY <1>0, <2>1
  <2>2. CASE WatcherStep
    <3>1. ASSUME NEW pc \in {"waiting", "fails", "failing", "ended"},
                 watcher' = [watcher EXCEPT !.pc = pc]
          PROVE  watcher' \in Watchers
      BY <1>0, <3>1 DEF Watchers
    <3>2. [pc |-> "fails", why |-> "VisibilityEventStream"] \in Watchers
      BY DEF Watchers, Failures, Stages
    <3>3. watcher.pc = "waiting" /\ SeesVisibility => watcher' \in Watchers
      BY <1>0, <3>1 DEF SeesVisibility, Watchers
    <3> QED
      BY <2>2, <3>1, <3>2, <3>3
         DEF WatcherStep, TargetHides, TargetShows, SeesVisibility, WatcherFails
  <2>3. CASE ReadersAborted BY <1>0, <2>3 DEF ReadersAborted, Watchers
  <2> QED BY <2>1, <2>2, <2>3, WhoChangesWhat
<1>4. stop' \in Stops
  <2>1. CASE UNCHANGED stop BY <1>0, <2>1
  <2>2. ASSUME NEW pc \in StopStates, stop' = [stop EXCEPT !.pc = pc] PROVE stop' \in Stops
    BY <1>0, <2>2 DEF Stops
  <2>3. ASSUME NEW complete \in BOOLEAN, NEW pc \in StopStates,
               stop' = [stop EXCEPT !.pc = pc, !.complete = complete]
        PROVE  stop' \in Stops
    BY <1>0, <2>3 DEF Stops
  <2>4. CASE StopCounts \/ StopRecounts
    <3> DEFINE pc == IF stop.pc = "counting" THEN "recounting" ELSE "reading"
               n == IF InHand(rt) > stop.abandoned THEN InHand(rt) ELSE stop.abandoned
    <3>1. stop' = [stop EXCEPT !.pc = pc, !.abandoned = n]
      BY <2>4 DEF StopCounts, StopRecounts, AbandonQueue
    <3>2. pc \in StopStates BY DEF StopStates
    <3>3. n \in Nat
      <4>1. rt.depth \in Nat /\ rt.inFlight \in Nat /\ stop.abandoned \in Nat BY TypedParts
      <4> QED BY <4>1 DEF InHand
    <3> HIDE DEF pc, n
    <3> QED BY <1>0, <3>1, <3>2, <3>3 DEF Stops
  <2>5. CASE \/ StopBegins \/ StopAnnounced \/ StopJoins \/ StopReads \/ StopDeclares \/ StopEnds
             \/ StopReports \/ StartAnswered \/ StartFails \/ Suspend \/ SuspendShows
    BY <2>2, <2>5
       DEF StopBegins, StopAnnounced, StopJoins, StopReads, StopDeclares, StopEnds, StopReports,
           StartAnswered, StartFails, Suspend, SuspendShows, StopStates
  <2>6. CASE StopDeadline \/ \E answered \in BOOLEAN : StopSent(answered)
    BY <2>3, <2>6 DEF StopDeadline, StopSent, StopStates
  <2> QED BY <2>1, <2>4, <2>5, <2>6, WhoChangesWhat DEF StopStep
<1>5. queued' \in 0 .. QueueCapacity
  <2>0. QueueCapacity \in Nat \ {0} BY CaptureAssumption
  <2>1. CASE UNCHANGED queued BY <1>0, <2>1
  <2>2. CASE Handoff BY <1>0, <2>0, <2>2 DEF Handoff
  <2>3. CASE WorkerReceives BY <1>0, <2>0, <2>3 DEF WorkerReceives
  <2>4. CASE queued' = 0 BY <2>0, <2>4
  <2> QED BY <2>1, <2>2, <2>3, <2>4, WhoChangesWhat
<1> QED BY <1>1, <1>2, <1>3, <1>4, <1>5

\* The worker, the store and the bounds after a step.
LEMMA WorkIsTyped ==
    ASSUME StreamTyped, StreamOrderly, StreamNext
    PROVE  worker' \in Workers /\ store' \in Stores /\ env' \in Bounds
<1>0. /\ worker \in Workers /\ store \in Stores /\ env \in Bounds
      /\ worker.vec \in Seq(Gaps) /\ rt.gaps \in Seq(Gaps)
      /\ store.frames \in Nat /\ store.missing \in Nat
      /\ env.visibility \in Nat /\ env.faults \in Nat /\ env.untraced \in Nat
      /\ env.late \in Nat /\ Missing(worker.vec) \in Nat
  BY TypedParts DEF StreamTyped
<1>1. worker' \in Workers
  <2>1. CASE UNCHANGED worker BY <1>0, <2>1
  <2>2. CASE worker' = [worker EXCEPT !.aborted = TRUE] BY <1>0, <2>2 DEF Workers
  <2>3. ASSUME NEW pc \in WorkerStates, worker' = [worker EXCEPT !.pc = pc]
        PROVE  worker' \in Workers
    BY <1>0, <2>3 DEF Workers
  <2>4. ASSUME NEW pc \in WorkerStates, NEW vec \in Seq(Gaps),
               worker' = [worker EXCEPT !.pc = pc, !.vec = vec]
        PROVE  worker' \in Workers
    BY <1>0, <2>4 DEF Workers
  <2>5. ASSUME NEW pc \in WorkerStates, NEW why \in Failures,
               worker' = [worker EXCEPT !.pc = pc, !.why = why]
        PROVE  worker' \in Workers
    BY <1>0, <2>5 DEF Workers
  <2>6. CASE AppendGap
    <3>1. worker.vec # <<>> /\ worker' = [worker EXCEPT !.vec = Tail(worker.vec)]
      BY <2>6 DEF AppendGap
    <3>2. Tail(worker.vec) \in Seq(Gaps) BY <1>0, <3>1, HeadTailProperties
    <3> QED BY <1>0, <3>1, <3>2 DEF Workers
  <2>7. CASE AppendGapFails
    <3>1. <<>> \in Seq(Gaps) /\ "GapPersistence" \in Failures BY DEF Failures, Stages
    <3> QED BY <1>0, <2>7, <3>1 DEF AppendGapFails, Workers, WorkerStates
  <2>8. CASE GapsAppended
    BY <1>0, <2>5, <2>8 DEF GapsAppended, WorkerStates, Failures, Stages
  <2>9. CASE RejectDecode
    <3>1. <<Gap("Rejected", 1)>> \in Seq(Gaps) BY GapsAreGaps DEF Reasons
    <3> QED BY <2>4, <2>9, <3>1 DEF RejectDecode, WorkerStates
  <2>10. CASE BeginProcessing \/ BudgetAvailable \/ LeaveLoop
    <3>1. /\ rt \in Counts
          /\ \A n, m \in Nat : [rt EXCEPT !.depth = n, !.inFlight = m].gaps = rt.gaps
      BY TypedParts DEF Counts
    <3>2. rt.gaps \in Seq(Gaps) BY <1>0
    <3>3. CASE BeginProcessing
      <4>1. worker' = [worker EXCEPT !.pc = "before", !.vec = rt.gaps]
        BY <3>1, <3>3 DEF BeginProcessing, TakesGaps, Counts
      <4> QED BY <2>4, <3>2, <4>1 DEF WorkerStates
    <3> QED BY <2>4, <2>10, <3>2, <3>3 DEF BudgetAvailable, LeaveLoop, TakesGaps, WorkerStates
  <2>11. CASE WorkerAborted
    <3>1. <<>> \in Seq(Gaps) OBVIOUS
    <3> QED BY <2>4, <2>11, <3>1 DEF WorkerAborted, WorkerStates
  <2>12. CASE \/ WorkerReceives \/ StoreFrame \/ RecordPersisted \/ PauseInterrupted
              \/ PauseFails \/ ReadVisibility \/ ResumeStream \/ StreamWorkerFails
              \/ BudgetExhausted
    BY <2>3, <2>12
       DEF WorkerReceives, StoreFrame, RecordPersisted, PauseInterrupted, PauseFails,
           ReadVisibility, ResumeStream, StreamWorkerFails, BudgetExhausted, WorkerStates
  <2>13. CASE AppendFrameFails
    BY <2>5, <2>13 DEF AppendFrameFails, WorkerStates, Failures, Stages
  <2> QED BY <2>1, <2>2, <2>6, <2>7, <2>8, <2>9, <2>10, <2>11, <2>12, <2>13, WhoChangesWhat
     DEF WorkerStep, WorkerProceeds
<1>2. store' \in Stores
  <2>1. CASE UNCHANGED store BY <1>0, <2>1
  <2>2. CASE AppendGap
    <3>1. worker.vec # <<>> BY <2>2 DEF AppendGap
    <3>2. Head(worker.vec) \in Gaps BY <1>0, <3>1, HeadTailProperties
    <3>3. Head(worker.vec).frames \in Nat BY <3>2 DEF Gaps
    <3>4. store' = [store EXCEPT !.missing = store.missing + Head(worker.vec).frames]
      BY <2>2 DEF AppendGap
    <3>5. store.missing + Head(worker.vec).frames \in Nat BY <1>0, <3>3
    <3> DEFINE m == store.missing + Head(worker.vec).frames
    <3> HIDE DEF m
    <3>6. store' = [store EXCEPT !.missing = m] /\ m \in Nat BY <3>4, <3>5 DEF m
    <3> QED BY <1>0, <3>6 DEF Stores
  <2>3. CASE store' = [store EXCEPT !.frames = @ + 1] BY <1>0, <2>3 DEF Stores
  <2> QED BY <2>1, <2>2, <2>3, WhoChangesWhat
<1>3. env' \in Bounds
  <2>1. CASE UNCHANGED env BY <1>0, <2>1
  <2>2. CASE StreamFault BY <1>0, <2>2 DEF StreamFault, Bounds
  <2>3. CASE SeesVisibility BY <1>0, <2>3 DEF SeesVisibility, Bounds
  <2>4. CASE ReadersAborted BY <1>0, <2>4 DEF ReadersAborted, InReader, Bounds
  <2>5. CASE AcknowledgedStale BY <1>0, <2>5 DEF AcknowledgedStale, Bounds
  <2>6. CASE WorkerAborted BY <1>0, <2>6 DEF WorkerAborted, Bounds
  <2>7. CASE RecordAccepted
    <3> DEFINE n == IF CountedAlready THEN env.late + 1 ELSE env.late
    <3>1. env' = [env EXCEPT !.late = n] BY <2>7 DEF RecordAccepted
    <3>2. n \in Nat BY <1>0
    <3> HIDE DEF n
    <3> QED BY <1>0, <3>1, <3>2 DEF Bounds
  <2> QED BY <2>1, <2>2, <2>3, <2>4, <2>5, <2>6, <2>7, WhoChangesWhat
<1> QED BY <1>1, <1>2, <1>3
------------------------------------------------------------------------------
(* The books: where the frames are.                                         *)

Books ==
    /\ QueueIsCounted /\ FramesAreSomewhere /\ EndTakesOnlyQueued /\ AbandonedAreTraced
    /\ RejectedIsTraced /\ StoredAreRecorded

\* The terms of the books are numbers.
LEMMA BookedParts ==
    ASSUME StreamTyped
    PROVE  /\ rt \in Runtimes /\ rt \in Counts
           /\ rt.depth \in Nat /\ rt.inFlight \in Nat /\ rt.received \in Nat /\ rt.persisted \in Nat
           /\ queued \in Nat /\ store.frames \in Nat /\ store.missing \in Nat
           /\ env.untraced \in Nat /\ env.lostGaps \in Nat /\ env.late \in Nat
           /\ Missing(rt.gaps) \in Nat /\ Missing(worker.vec) \in Nat
           /\ Pending \in Nat
<1>1. stop.abandoned \in Nat /\ rt.depth \in Nat /\ rt.inFlight \in Nat BY TypedParts
<1>2. Pending \in Nat BY <1>1 DEF Pending
<1> QED BY <1>2, TypedParts

\* What a stop is going to count follows the counters, when it does not move itself.
LEMMA PendingFollows ==
    ASSUME StreamTyped, UNCHANGED stop, rt'.depth \in Nat, rt'.inFlight \in Nat
    PROVE  /\ Pending' \in Nat
           /\ rt.depth + rt.inFlight <= rt'.depth + rt'.inFlight => Pending <= Pending'
           /\ rt.depth + rt.inFlight <= rt'.depth + rt'.inFlight + 1 => Pending <= Pending' + 1
<1>1. stop.abandoned \in Nat /\ rt.depth \in Nat /\ rt.inFlight \in Nat BY TypedParts
<1> QED BY <1>1 DEF Pending

\* A step that traces as many frames more as it takes from the counters loses none.
LEMMA AbandonedStayTraced ==
    ASSUME StreamInv, UNCHANGED stop, NoneFailed' => NoneFailed, Sent' = Sent,
           rt'.received = rt.received, env'.lostGaps = env.lostGaps, env'.late = env.late,
           Traced' \in Nat, Pending' \in Nat,
           Traced + Pending + Unrecorded' <= Traced' + Pending' + Unrecorded
    PROVE  AbandonedAreTraced'
<1>1. StreamTyped /\ AbandonedAreTraced BY DEF StreamInv
<1>2. /\ rt.received \in Nat /\ env.lostGaps \in Nat /\ env.late \in Nat /\ Pending \in Nat
      /\ env.untraced \in Nat /\ store.frames \in Nat /\ store.missing \in Nat
      /\ Missing(rt.gaps) \in Nat /\ Missing(worker.vec) \in Nat
  BY <1>1, BookedParts
<1>3. Traced \in Nat BY <1>2 DEF Traced, InReader, InStore, InGaps
<1>4. Sent \in Nat /\ Unrecorded \in Nat /\ Unrecorded' \in Nat BY DEF Sent, Unrecorded
<1>5. Abandoned' <=> Abandoned BY DEF Abandoned
<1>6. SUFFICES ASSUME NoneFailed, Abandoned
               PROVE  rt.received + Unrecorded'
                        <= Traced' + env.lostGaps + Sent + Pending' + env.late
  BY <1>5 DEF AbandonedAreTraced
<1>7. rt.received + Unrecorded <= Traced + env.lostGaps + Sent + Pending + env.late
  BY <1>1, <1>6 DEF AbandonedAreTraced
<1>8. ASSUME NEW t \in Nat, Traced' = t, NEW p \in Nat, Pending' = p,
             NEW u \in Nat, Unrecorded' = u
      PROVE  rt.received + Unrecorded' <= Traced' + env.lostGaps + Sent + Pending' + env.late
  <2>1. Traced + Pending + u <= t + p + Unrecorded BY <1>8
  <2>2. rt.received + u <= t + env.lostGaps + Sent + p + env.late
    BY <1>2, <1>3, <1>4, <1>7, <1>8, <2>1
  <2> QED BY <1>8, <2>2
<1> QED BY <1>4, <1>8

\* The counters stay, and what had failed has failed.
CountsOf(s, t) ==
    /\ t.depth = s.depth /\ t.inFlight = s.inFlight /\ t.received = s.received
    /\ t.persisted = s.persisted
    /\ s.failure # NoFailure => t.failure # NoFailure

\* Steps that change neither the counters nor where a frame is.
LEMMA QuietStepKeepsBooks ==
    ASSUME StreamInv,
           CountsOf(rt, rt'), Missing(rt'.gaps) = Missing(rt.gaps),
           UNCHANGED <<queued, store, reader, worker>>,
           env'.untraced = env.untraced, env'.lostGaps = env.lostGaps /\ env'.late = env.late,
           watcher'.pc = "fails" => watcher'.why \in Stages,
           StopOrderly', Abandoned' <=> Abandoned, Pending' = Pending
    PROVE  StreamOrderly' /\ Books'
<1>1. StreamTyped BY DEF StreamInv
<1>2. /\ rt'.depth = rt.depth /\ rt'.inFlight = rt.inFlight /\ rt'.received = rt.received
      /\ rt'.persisted = rt.persisted
      /\ NoneFailed' => NoneFailed
  BY DEF CountsOf, NoneFailed
<1>3. StreamOrderly' BY <1>2 DEF StreamInv, StreamOrderly, CountsOf
<1>4. (Abandoned' <=> Abandoned) /\ Pending' = Pending OBVIOUS
<1>5. Traced' = Traced BY <1>2 DEF Traced, InReader, InStore, InGaps
<1>6. /\ Taken' = Taken /\ Processing' = Processing /\ Unrecorded' = Unrecorded
      /\ Sent' = Sent /\ InWorker' = InWorker /\ queued' = queued /\ worker' = worker
      /\ store' = store
  BY DEF Taken, Processing, Unrecorded, Sent, InWorker
<1>7. QueueIsCounted /\ FramesAreSomewhere /\ EndTakesOnlyQueued /\ AbandonedAreTraced
      /\ RejectedIsTraced /\ StoredAreRecorded
  BY DEF StreamInv
<1> HIDE DEF StreamInv, Traced, Taken, Processing, Unrecorded, Sent, InWorker, NoneFailed,
             Abandoned
<1>8. QueueIsCounted' BY <1>2, <1>4, <1>6, <1>7 DEF QueueIsCounted
<1>9. FramesAreSomewhere' BY <1>2, <1>5, <1>6, <1>7 DEF FramesAreSomewhere
<1>10. EndTakesOnlyQueued' BY <1>2, <1>4, <1>5, <1>6, <1>7 DEF EndTakesOnlyQueued
<1>11. AbandonedAreTraced'
  BY <1>2, <1>4, <1>5, <1>6, <1>7 DEF AbandonedAreTraced
<1>12. RejectedIsTraced' BY <1>2, <1>5, <1>6, <1>7 DEF RejectedIsTraced
<1>13. StoredAreRecorded' BY <1>2, <1>6, <1>7 DEF StoredAreRecorded
<1> QED BY <1>3, <1>8, <1>9, <1>10, <1>11, <1>12, <1>13 DEF Books

\* From its event to its gap or the queue, the frame reader passes a frame on exactly once.
LEMMA ReaderKeepsBooks ==
    ASSUME StreamInv, ReaderStep
    PROVE  StreamOrderly' /\ Books'
<1>1. StreamTyped /\ StreamOrderly BY DEF StreamInv
<1>2. /\ rt \in Runtimes /\ rt \in Counts /\ reader \in Readers
      /\ rt.depth \in Nat /\ rt.inFlight \in Nat /\ rt.received \in Nat /\ rt.persisted \in Nat
      /\ queued \in Nat /\ store.frames \in Nat /\ store.missing \in Nat
      /\ env.untraced \in Nat /\ env.lostGaps \in Nat /\ env.late \in Nat /\ Pending \in Nat
      /\ Missing(rt.gaps) \in Nat /\ Missing(worker.vec) \in Nat
  BY <1>1, BookedParts DEF StreamTyped
<1>3. ReaderLoops.pc \in {"waiting", "ended"} BY DEF ReaderLoops
<1> USE DEF StreamInv, Books, QueueIsCounted, FramesAreSomewhere, EndTakesOnlyQueued,
            AbandonedAreTraced, RejectedIsTraced, StoredAreRecorded, Abandoned, NoneFailed,
            Taken, Processing,
            Unrecorded, Sent, Traced, InReader, InWorker, InStore, InGaps
<1>4. CASE ReceiveFrame
  <2>1. /\ rt'.depth = rt.depth /\ rt'.inFlight = rt.inFlight /\ rt'.received = rt.received + 1
        /\ rt'.persisted = rt.persisted /\ rt'.failure = rt.failure /\ rt'.gaps = rt.gaps
    BY <1>2, <1>4 DEF ReceiveFrame, Counts
  <2>2. reader.pc = "waiting" /\ reader'.pc = "acking" BY <1>2, <1>4 DEF ReceiveFrame, Readers
  <2>3. UNCHANGED <<queued, watcher, worker, stop, store, env>> BY <1>4 DEF ReceiveFrame
  <2>4. StreamOrderly' BY <1>1, <2>1, <2>2, <2>3 DEF StreamOrderly, StopOrderly
  <2>9. Pending' \in Nat /\ Pending <= Pending' BY <1>1, <1>2, <2>1, <2>3, PendingFollows
  <2> QED BY <2>9, <1>2, <2>1, <2>2, <2>3, <2>4
<1>5. CASE AcknowledgementFails
  <2>1. /\ CountsAlike(rt, rt') /\ Missing(rt'.gaps) = Missing(rt.gaps) + 1
    <3>1. /\ Gap("AcknowledgementFailed", 1) \in Gaps
          /\ Gap("AcknowledgementFailed", 1).frames = 1
      BY GapsAreGaps DEF Reasons
    <3>2. rt' = Push(rt, Gap("AcknowledgementFailed", 1)) BY <1>5 DEF AcknowledgementFails
    <3> QED BY <1>2, <3>1, <3>2, PushCounts
  <2>2. reader.pc = "acking" /\ reader'.pc = "fails" /\ reader'.why = "Acknowledgement"
    BY <1>5 DEF AcknowledgementFails
  <2>3. /\ UNCHANGED <<queued, watcher, worker, stop, store>>
        /\ env'.untraced = env.untraced /\ env'.lostGaps = env.lostGaps /\ env'.late = env.late
    BY <1>1, <1>5 DEF AcknowledgementFails, StreamFault, StreamTyped, Bounds
  <2>4. StreamOrderly' BY <1>1, <2>1, <2>2, <2>3 DEF StreamOrderly, StopOrderly, CountsAlike, Stages
  <2>9. Pending' \in Nat /\ Pending <= Pending'
    BY <1>1, <1>2, <2>1, <2>3, PendingFollows DEF CountsAlike
  <2> QED BY <2>9, <1>2, <2>1, <2>2, <2>3, <2>4 DEF CountsAlike
<1>6. CASE Acknowledged
  <2>1. CountsAlike(rt, rt') /\ rt'.gaps = rt.gaps
    BY <1>2, <1>6, TransitionKeeps DEF Acknowledged
  <2>2. reader.pc = "acking" /\ reader'.pc = "acked" BY <1>2, <1>6 DEF Acknowledged, Readers
  <2>3. UNCHANGED <<queued, watcher, worker, stop, store, env>> BY <1>6 DEF Acknowledged
  <2>4. StreamOrderly' BY <1>1, <2>1, <2>2, <2>3 DEF StreamOrderly, StopOrderly, CountsAlike
  <2>9. Pending' \in Nat /\ Pending <= Pending'
    BY <1>1, <1>2, <2>1, <2>3, PendingFollows DEF CountsAlike
  <2> QED BY <2>9, <1>2, <2>1, <2>2, <2>3, <2>4 DEF CountsAlike
<1>7. CASE AcknowledgedStale
  <2>1. reader.pc = "acking" /\ reader'.pc \in {"waiting", "ended"}
    BY <1>3, <1>7 DEF AcknowledgedStale
  <2>2. /\ UNCHANGED <<rt, queued, watcher, worker, stop, store>>
        /\ env'.untraced = env.untraced + 1 /\ env'.lostGaps = env.lostGaps /\ env'.late = env.late
    BY <1>1, <1>7 DEF AcknowledgedStale, StreamTyped, Bounds
  <2>3. StreamOrderly' BY <1>1, <2>1, <2>2 DEF StreamOrderly, StopOrderly
  <2>9. Pending' \in Nat /\ Pending <= Pending' BY <1>1, <1>2, <2>2, PendingFollows
  <2> QED BY <2>9, <1>2, <2>1, <2>2, <2>3
<1>8. CASE RejectEnvelope
  <2>1. /\ rt'.depth = rt.depth /\ rt'.inFlight = rt.inFlight /\ rt'.received = rt.received
        /\ rt'.persisted = rt.persisted /\ rt'.failure = rt.failure
        /\ Missing(rt'.gaps) = Missing(rt.gaps) + 1
    BY <1>2, <1>8, DroppedCounts DEF RejectEnvelope, Reasons
  <2>2. reader.pc = "acked" /\ reader'.pc = "fails" /\ reader'.why = "FrameEnvelope"
    BY <1>8 DEF RejectEnvelope
  <2>3. /\ UNCHANGED <<queued, watcher, worker, stop, store>>
        /\ env'.untraced = env.untraced /\ env'.lostGaps = env.lostGaps /\ env'.late = env.late
    BY <1>1, <1>8 DEF RejectEnvelope, StreamFault, StreamTyped, Bounds
  <2>4. StreamOrderly' BY <1>1, <2>1, <2>2, <2>3 DEF StreamOrderly, StopOrderly, Stages
  <2>9. Pending' \in Nat /\ Pending <= Pending' BY <1>1, <1>2, <2>1, <2>3, PendingFollows
  <2> QED BY <2>9, <1>2, <2>1, <2>2, <2>3, <2>4
<1>9. CASE Handoff
  <2>1. UNCHANGED <<rt, watcher, worker, stop, store, env>> /\ reader.pc = "acked"
    BY <1>9 DEF Handoff
  <2>2. \/ /\ reader'.pc = "dropping" /\ queued' = queued
           /\ reader'.why \in {"CaptureStopped", "Saturated"}
        \/ /\ reader'.pc = "sent" /\ queued' = queued + 1
           /\ worker.pc \notin {"ended", "aborted"}
    BY <1>2, <1>9 DEF Handoff, ReceiverGone, Readers
  <2>3. StreamOrderly' BY <1>1, <2>1, <2>2 DEF StreamOrderly, StopOrderly
  <2>9. Pending' \in Nat /\ Pending <= Pending' BY <1>1, <1>2, <2>1, PendingFollows
  <2> QED BY <2>9, <1>2, <2>1, <2>2, <2>3
<1>10. CASE DropFrame
  <2>1. reader.pc = "dropping" /\ reader'.pc \in {"waiting", "ended"}
    BY <1>3, <1>10 DEF DropFrame
  <2>2. reader.why \in Reasons BY <1>1, <2>1 DEF StreamOrderly, StopOrderly, Reasons
  <2>3. /\ rt'.depth = rt.depth /\ rt'.inFlight = rt.inFlight /\ rt'.received = rt.received
        /\ rt'.persisted = rt.persisted /\ rt'.failure = rt.failure
        /\ Missing(rt'.gaps) = Missing(rt.gaps) + 1
    BY <1>2, <1>10, <2>2, DroppedCounts DEF DropFrame
  <2>4. UNCHANGED <<queued, watcher, worker, stop, store, env>> BY <1>10 DEF DropFrame
  <2>5. StreamOrderly' BY <1>1, <2>1, <2>3, <2>4 DEF StreamOrderly, StopOrderly
  <2>9. Pending' \in Nat /\ Pending <= Pending' BY <1>1, <1>2, <2>3, <2>4, PendingFollows
  <2> QED BY <2>9, <1>2, <2>1, <2>3, <2>4, <2>5
<1>11. CASE RecordAccepted
  <2>1. reader.pc = "sent" /\ reader'.pc \in {"waiting", "ended"}
    BY <1>3, <1>11 DEF RecordAccepted
  <2>2. /\ rt'.depth = rt.depth + 1 /\ rt'.inFlight = rt.inFlight /\ rt'.received = rt.received
        /\ rt'.persisted = rt.persisted /\ rt'.failure = rt.failure /\ rt'.gaps = rt.gaps
    BY <1>2, <1>11 DEF RecordAccepted, Counts
  <2>3. /\ UNCHANGED <<queued, watcher, worker, stop, store>>
        /\ env'.untraced = env.untraced /\ env'.lostGaps = env.lostGaps
        /\ env'.late = IF CountedAlready THEN env.late + 1 ELSE env.late
    BY <1>1, <1>11 DEF RecordAccepted, StreamTyped, Bounds
  <2>4. StreamOrderly' BY <1>1, <2>1, <2>2, <2>3 DEF StreamOrderly, StopOrderly
  <2>5. AbandonedAreTraced'
    <3> SUFFICES ASSUME NoneFailed', Abandoned'
                 PROVE  rt'.received + Unrecorded'
                          <= Traced' + env'.lostGaps + Sent' + Pending' + env'.late
      OBVIOUS
    <3>1. NoneFailed /\ Abandoned BY <2>2, <2>3
    <3>2. Unrecorded' = Unrecorded /\ Sent = 1 /\ Sent' = 0 /\ Traced' = Traced
      BY <2>1, <2>2, <2>3
    <3>3. /\ Pending' \in Nat /\ env'.late \in Nat
          /\ Pending + env.late + 1 <= Pending' + env'.late
      <4>1. Pending' \in Nat /\ Pending <= Pending' BY <1>1, <1>2, <2>2, <2>3, PendingFollows
      <4>2. CASE CountedAlready BY <1>2, <2>3, <4>1, <4>2
      <4>3. CASE ~CountedAlready
        <5>1. stop.abandoned \in Nat BY <1>1, TypedParts
        <5>2. Pending = rt.depth + rt.inFlight /\ Pending' = rt'.depth + rt'.inFlight
          BY <2>3, <3>1, <4>3, <5>1 DEF CountedAlready, Pending
        <5> QED BY <1>2, <2>2, <2>3, <4>1, <4>3, <5>2
      <4> QED BY <4>2, <4>3
    <3>4. rt.received + Unrecorded <= Traced + env.lostGaps + Sent + Pending + env.late BY <3>1
    <3>5. Traced \in Nat /\ Unrecorded \in Nat BY <1>2
    <3> HIDE DEF StreamInv, Traced, Sent, Unrecorded, NoneFailed, Abandoned
    <3> QED BY <1>2, <2>2, <2>3, <3>2, <3>3, <3>4, <3>5
  <2> QED BY <1>2, <2>1, <2>2, <2>3, <2>4, <2>5
<1>12. CASE ReaderFails
  <2>1. UNCHANGED <<queued, watcher, worker, stop, store>> BY <1>12 DEF ReaderFails
  <2>2. env'.untraced = env.untraced /\ env'.lostGaps = env.lostGaps /\ env'.late = env.late
    BY <1>1, <1>12 DEF ReaderFails, StreamFault, StreamTyped, Bounds
  <2>3. /\ reader.pc \in {"waiting", "fails", "failing"}
        /\ reader'.pc \in {"fails", "failing", "ended"}
        /\ reader'.pc = "fails" => reader'.why \in Stages
    BY <1>2, <1>12 DEF ReaderFails, Readers, Stages
  <2>4. /\ rt'.depth = rt.depth /\ rt'.inFlight = rt.inFlight /\ rt'.received = rt.received
        /\ rt'.persisted = rt.persisted /\ rt'.gaps = rt.gaps
        /\ rt.failure # NoFailure => rt'.failure = rt.failure
        /\ NoneFailed' => NoneFailed
    <3>1. CASE UNCHANGED rt BY <2>1, <3>1
    <3>2. CASE StageFails(reader.why) /\ reader.pc = "fails"
      <4>1. reader.why \in Stages BY <1>1, <3>2 DEF StreamOrderly, StopOrderly
      <4>2. rt' = [rt EXCEPT !.failure = IF rt.failure = NoFailure THEN reader.why ELSE rt.failure]
        BY <3>2 DEF StageFails
      <4> QED BY <1>2, <2>1, <4>1, <4>2, FailureAssumption DEF Counts
    <3>3. CASE FailureShows
      BY <1>2, <2>1, <3>3, TransitionKeeps DEF FailureShows, CountsAlike
    <3> QED BY <1>12, <3>1, <3>2, <3>3 DEF ReaderFails
  <2>5. StreamOrderly' BY <1>1, <2>1, <2>2, <2>3, <2>4 DEF StreamOrderly, StopOrderly
  <2>9. Pending' \in Nat /\ Pending <= Pending' BY <1>1, <1>2, <2>1, <2>4, PendingFollows
  <2> QED BY <2>9, <1>2, <2>1, <2>2, <2>3, <2>4, <2>5
<1> QED
  BY <1>4, <1>5, <1>6, <1>7, <1>8, <1>9, <1>10, <1>11, <1>12 DEF ReaderStep

\* The worker takes a frame from the queue to the store or to a gap, and gaps from the ledger to
\* the store; an abort between two awaits loses what it counts in lostGaps.
LEMMA WorkerKeepsBooks ==
    ASSUME StreamInv, WorkerStep
    PROVE  StreamOrderly' /\ Books'
<1>1. StreamTyped /\ StreamOrderly BY DEF StreamInv
<1>2. /\ rt \in Runtimes /\ rt \in Counts /\ worker \in Workers
      /\ rt.depth \in Nat /\ rt.inFlight \in Nat /\ rt.received \in Nat /\ rt.persisted \in Nat
      /\ queued \in Nat /\ store.frames \in Nat /\ store.missing \in Nat
      /\ env.untraced \in Nat /\ env.lostGaps \in Nat /\ env.late \in Nat /\ Pending \in Nat
      /\ Missing(rt.gaps) \in Nat /\ Missing(worker.vec) \in Nat
  BY <1>1, BookedParts DEF StreamTyped
<1>3. ASSUME worker.pc \notin {"before", "direct", "resuming", "final"}
      PROVE  worker.vec = <<>> /\ Missing(worker.vec) = 0
  BY <1>1, <1>3, EmptyMissesNothing DEF StreamOrderly, StopOrderly
<1>4. ASSUME StreamFault
      PROVE  env'.untraced = env.untraced /\ env'.lostGaps = env.lostGaps /\ env'.late = env.late
  BY <1>1, <1>4 DEF StreamFault, StreamTyped, Bounds
<1>5. NoFailure \notin Stages BY FailureAssumption
<1> USE DEF StreamInv, Books, QueueIsCounted, FramesAreSomewhere, EndTakesOnlyQueued,
            AbandonedAreTraced, RejectedIsTraced, StoredAreRecorded, Abandoned, NoneFailed,
            Taken, Processing,
            Unrecorded, Sent, Traced, InReader, InWorker, InStore, InGaps
<1>6. CASE WorkerReceives
  <2>1. /\ worker.pc = "receiving" /\ worker'.pc = "taken" /\ worker'.vec = worker.vec
        /\ worker'.why = worker.why /\ worker'.aborted = worker.aborted
        /\ queued > 0 /\ queued' = queued - 1
        /\ UNCHANGED <<rt, reader, watcher, stop, store, env>>
    BY <1>2, <1>6 DEF WorkerReceives, Workers
  <2>2. StreamOrderly' BY <1>1, <2>1 DEF StreamOrderly, StopOrderly
  <2>20. Pending' \in Nat /\ Pending <= Pending'
    BY <1>1, <1>2, <2>1, PendingFollows
  <2> QED BY <2>20, <1>2, <2>1, <2>2
<1>7. CASE BeginProcessing
  <2> DEFINE less == IF rt.depth = 0 THEN 0 ELSE rt.depth - 1
  <2>1. /\ worker.pc = "taken" /\ worker'.pc = "before" /\ worker'.vec = rt.gaps
        /\ worker'.why = worker.why /\ worker'.aborted = worker.aborted
        /\ UNCHANGED <<queued, reader, watcher, stop, store, env>>
    BY <1>2, <1>7 DEF BeginProcessing, TakesGaps, Workers, Counts
  <2>2. /\ rt'.depth = less /\ rt'.inFlight = rt.inFlight + 1 /\ rt'.received = rt.received
        /\ rt'.persisted = rt.persisted /\ rt'.failure = rt.failure /\ rt'.gaps = <<>>
    BY <1>2, <1>7 DEF BeginProcessing, TakesGaps, Emptied, Counts
  <2>3. Missing(rt'.gaps) = 0 /\ Missing(worker'.vec) = Missing(rt.gaps) /\ Missing(worker.vec) = 0
    BY <1>3, <2>1, <2>2, EmptyMissesNothing
  <2>4. StreamOrderly' BY <1>1, <2>1, <2>2 DEF StreamOrderly, StopOrderly
  <2>5. less \in Nat /\ less <= rt.depth /\ rt.depth <= less + 1 BY <1>2
  <2> HIDE DEF less
  <2>6. Traced' = Traced BY <1>2, <2>1, <2>2, <2>3
  <2>7. QueueIsCounted' BY <1>2, <2>1, <2>2, <2>5
  <2>8. FramesAreSomewhere' BY <1>2, <2>1, <2>2, <2>6
  <2>9. AbandonedAreTraced'
    <3> SUFFICES ASSUME NoneFailed', Abandoned'
                 PROVE  rt'.received + Unrecorded'
                          <= Traced' + env'.lostGaps + Sent' + Pending' + env'.late
      OBVIOUS
    <3>1. NoneFailed /\ Abandoned BY <2>1, <2>2
    <3>2. Unrecorded = 0 /\ Unrecorded' = 0 /\ Sent' = Sent /\ env' = env BY <2>1
    <3>3. Traced \in Nat /\ Sent \in Nat BY <1>2
    <3> HIDE DEF Traced, Sent, Unrecorded, NoneFailed, Abandoned
    <3>4. rt.received + Unrecorded <= Traced + env.lostGaps + Sent + Pending + env.late BY <3>1
    <3>5. rt'.received = rt.received BY <2>2
    <3>6. Pending' \in Nat /\ Pending <= Pending'
      BY <1>1, <1>2, <2>1, <2>2, <2>5, PendingFollows
    <3> HIDE DEF StreamInv
    <3> QED BY <1>2, <2>6, <3>2, <3>3, <3>4, <3>5, <3>6
  <2> QED BY <2>1, <2>2, <2>4, <2>7, <2>8, <2>9
<1>8. CASE AppendGap
  <2>1. /\ worker.vec # <<>> /\ worker'.vec = Tail(worker.vec) /\ worker'.pc = worker.pc
        /\ worker'.why = worker.why /\ worker'.aborted = worker.aborted
        /\ UNCHANGED <<rt, queued, reader, watcher, stop, env>>
    BY <1>2, <1>8 DEF AppendGap, Workers
  <2>2. worker.vec \in Seq(Gaps) BY <1>2 DEF Workers
  <2>3. /\ Missing(worker.vec) = worker.vec[1].frames + Missing(worker'.vec)
        /\ worker.vec[1].frames \in Nat /\ Head(worker.vec) = worker.vec[1]
        /\ Missing(worker'.vec) \in Nat
    <3>1. /\ Missing(worker.vec) = worker.vec[1].frames + Missing(Tail(worker.vec))
          /\ worker.vec[1].frames \in Nat /\ Tail(worker.vec) \in Seq(Gaps)
      BY <2>1, <2>2, HeadMisses
    <3>2. Missing(Tail(worker.vec)) \in Nat BY <3>1, MissedIsFinite
    <3>3. Head(worker.vec) = worker.vec[1] BY <2>1, <2>2
    <3> QED BY <2>1, <3>1, <3>2, <3>3
  <2>4. /\ store'.frames = store.frames /\ store'.missing = store.missing + worker.vec[1].frames
    BY <1>1, <1>8, <2>3 DEF AppendGap, StreamTyped, Stores
  <2>5. StreamOrderly' BY <1>1, <2>1 DEF StreamOrderly, StopOrderly
  <2>6. Traced' = Traced
    <3> DEFINE f == worker.vec[1].frames
    <3>1. InStore' = InStore + f BY <1>2, <2>3, <2>4
    <3>2. InGaps = InGaps' + f /\ InGaps' \in Nat
      <4>1. /\ Missing(rt'.gaps) = Missing(rt.gaps)
            /\ Missing(worker.vec) = f + Missing(worker'.vec) /\ f \in Nat
        BY <2>1, <2>3
      <4> HIDE DEF f
      <4> QED BY <1>2, <2>3, <4>1
    <3>3. InReader' = InReader /\ env' = env /\ InReader \in Nat /\ InStore \in Nat /\ f \in Nat
      BY <1>2, <2>1, <2>3
    <3> HIDE DEF f, InStore, InGaps, InReader
    <3> QED BY <1>2, <3>1, <3>2, <3>3
  <2>20. Pending' \in Nat /\ Pending <= Pending'
    BY <1>1, <1>2, <2>1, PendingFollows
  <2>21. AbandonedAreTraced'
    <3>1. Traced' = Traced /\ Traced \in Nat BY <1>2, <2>6
    <3>2. Unrecorded = 0 /\ Unrecorded' = 0 /\ Sent' = Sent
      BY <1>1, <2>1 DEF StreamOrderly
    <3>3. NoneFailed' => NoneFailed BY <2>1
    <3>4. rt'.received = rt.received BY <2>1
    <3>5. env'.lostGaps = env.lostGaps /\ env'.late = env.late BY <2>1
    <3> HIDE DEF StreamInv, Traced, Sent, Unrecorded, NoneFailed, AbandonedAreTraced
    <3>6. ASSUME NEW p \in Nat, Pending' = p
          PROVE  /\ Traced' \in Nat
                 /\ Traced + Pending + Unrecorded' <= Traced' + Pending' + Unrecorded
      BY <1>2, <2>20, <3>1, <3>2, <3>6
    <3> QED BY <2>1, <2>20, <3>2, <3>3, <3>4, <3>5, <3>6, AbandonedStayTraced
  <2> QED BY <1>2, <2>1, <2>4, <2>5, <2>6, <2>21
<1>9. CASE AppendGapFails
  <2>1. /\ worker.vec # <<>> /\ worker'.vec = <<>> /\ worker'.why = "GapPersistence"
        /\ worker'.pc = (IF worker.pc = "final" THEN "failsLast" ELSE "fails")
        /\ worker'.aborted = worker.aborted
        /\ UNCHANGED <<rt, queued, reader, watcher, stop, store>>
    BY <1>2, <1>9 DEF AppendGapFails, Workers
  <2>2. worker.pc \in {"before", "direct", "resuming", "final"}
    BY <1>1, <2>1 DEF StreamOrderly, StopOrderly
  <2>3. StreamFault BY <1>9 DEF AppendGapFails
  <2>4. ~NoneFailed' BY <1>5, <2>1 DEF Stages
  <2>5. StreamOrderly' BY <1>1, <1>4, <2>1, <2>2, <2>3 DEF StreamOrderly, StopOrderly, Stages
  <2> QED BY <1>2, <2>1, <2>2, <2>4, <2>5
<1>10. CASE GapsAppended
  <2>1. /\ worker.vec = <<>> /\ worker.pc \in {"before", "direct", "final"}
        /\ worker'.vec = worker.vec /\ worker'.aborted = worker.aborted
        /\ worker'.why = (IF worker.pc = "direct" THEN "FrameDecode" ELSE NoFailure)
        /\ worker.pc = "before" => worker'.pc = "appending"
        /\ worker.pc = "direct" => worker'.pc = "fails"
        /\ worker.pc = "final" => worker'.pc = "ended"
        /\ queued' = (IF worker.pc = "final" THEN 0 ELSE queued)
        /\ UNCHANGED <<rt, reader, watcher, stop, store, env>>
    BY <1>2, <1>10 DEF GapsAppended, Workers
  <2>2. StreamOrderly' BY <1>1, <2>1 DEF StreamOrderly, StopOrderly, Stages
  <2>3. worker.pc = "direct" => ~NoneFailed' BY <1>5, <2>1 DEF Stages
  <2>4. worker.pc # "direct" /\ rt.failure = NoFailure => NoneFailed
    BY <1>1, <2>1 DEF StreamOrderly, StopOrderly
  <2>20. Pending' \in Nat /\ Pending <= Pending' BY <1>1, <1>2, <2>1, PendingFollows
  <2>5. CASE worker.pc = "before"
    <3>1. worker'.pc = "appending" /\ queued' = queued /\ UNCHANGED <<rt, reader, stop, store, env>>
      BY <2>1, <2>5
    <3>2. AbandonedAreTraced'
      <4>1. Traced' = Traced /\ Traced \in Nat
        <5>1. InGaps' = InGaps /\ InReader' = InReader /\ InStore' = InStore /\ env' = env
          BY <2>1, <3>1
        <5>2. Traced' = Traced BY <5>1
        <5>3. Traced \in Nat BY <1>2
        <5> QED BY <5>2, <5>3
      <4>2. Unrecorded = 0 /\ Unrecorded' = 0 /\ Sent' = Sent BY <2>5, <3>1
      <4>3. NoneFailed' => NoneFailed BY <2>4, <2>5, <3>1
      <4> HIDE DEF StreamInv, Traced, Sent, Unrecorded, NoneFailed, AbandonedAreTraced
      <4>4. ASSUME NEW p \in Nat, Pending' = p
            PROVE  /\ Traced' \in Nat
                   /\ Traced + Pending + Unrecorded' <= Traced' + Pending' + Unrecorded
        BY <1>2, <2>20, <4>1, <4>2, <4>4
      <4> QED BY <2>20, <3>1, <4>2, <4>3, <4>4, AbandonedStayTraced
    <3> QED BY <1>2, <2>1, <2>2, <2>4, <2>5, <3>1, <3>2
  <2>6. CASE worker.pc = "direct" BY <1>2, <2>1, <2>2, <2>3, <2>6
  <2>7. CASE worker.pc = "final"
    <3>1. worker'.pc = "ended" /\ UNCHANGED <<rt, reader, stop, store, env>> BY <2>1, <2>7
    <3>2. Traced' = Traced BY <2>1, <3>1
    <3>3. AbandonedAreTraced' BY <1>2, <2>4, <2>7, <2>20, <3>1, <3>2
    <3>4. EndTakesOnlyQueued'
      <4> SUFFICES ASSUME rt.failure = NoFailure, ~worker.aborted, ~Abandoned
                   PROVE  Traced <= rt.received /\ rt.received <= Traced + rt.depth + Sent
        BY <2>1, <3>1, <3>2
      <4>1. rt.received = Traced + queued /\ queued <= rt.depth + Sent BY <1>2, <2>4, <2>7
      <4> QED BY <1>2, <4>1
    <3>5. QueueIsCounted' /\ FramesAreSomewhere' /\ RejectedIsTraced' /\ StoredAreRecorded'
      BY <2>1, <2>7, <3>1
    <3> QED BY <2>2, <3>3, <3>4, <3>5
  <2> QED BY <2>1, <2>5, <2>6, <2>7
<1>11. CASE RejectDecode
  <2>1. /\ worker.pc = "appending" /\ worker'.pc = "direct"
        /\ worker'.vec = <<Gap("Rejected", 1)>>
        /\ worker'.why = worker.why /\ worker'.aborted = worker.aborted
        /\ UNCHANGED <<queued, reader, watcher, stop, store>> /\ StreamFault
    BY <1>2, <1>11 DEF RejectDecode, Workers
  <2>2. /\ rt'.depth = rt.depth
        /\ rt'.inFlight = (IF rt.inFlight = 0 THEN 0 ELSE rt.inFlight - 1)
        /\ rt'.received = rt.received /\ rt'.persisted = rt.persisted /\ rt'.failure = rt.failure
        /\ Missing(rt'.gaps) = Missing(rt.gaps) + 1
    BY <1>2, <1>11, LossCounts DEF RejectDecode, Reasons
  <2>3. Missing(worker.vec) = 0 /\ Missing(worker'.vec) = 1
    <3>1. Gap("Rejected", 1) \in Gaps /\ Gap("Rejected", 1).frames = 1 BY GapsAreGaps DEF Reasons
    <3>2. <<>> \in Seq(Gaps) /\ worker'.vec = Append(<<>>, Gap("Rejected", 1)) BY <2>1
    <3>3. Missing(Append(<<>>, Gap("Rejected", 1))) = Missing(<<>>) + 1
      <4> HIDE DEF Missing
      <4> QED BY <3>1, <3>2, AppendMisses
    <3>4. Missing(worker.vec) = 0 BY <1>3, <2>1
    <3> QED BY <3>2, <3>3, <3>4, EmptyMissesNothing
  <2>4. StreamOrderly' BY <1>1, <1>4, <2>1, <2>2 DEF StreamOrderly, StopOrderly
  <2>20. Pending' \in Nat /\ Pending <= Pending' + 1
    BY <1>1, <1>2, <2>1, <2>2, PendingFollows
  <2>21. AbandonedAreTraced'
    <3>1. Traced' = Traced + 2 /\ Traced \in Nat BY <1>2, <1>4, <2>1, <2>2, <2>3
    <3>2. Unrecorded = 0 /\ Unrecorded' = 0 /\ Sent' = Sent BY <2>1
    <3>3. NoneFailed' => NoneFailed BY <2>1, <2>2
    <3>4. rt'.received = rt.received BY <2>2
    <3>5. env'.lostGaps = env.lostGaps /\ env'.late = env.late BY <1>4, <2>1
    <3> HIDE DEF StreamInv, Traced, Sent, Unrecorded, NoneFailed, AbandonedAreTraced
    <3>6. ASSUME NEW p \in Nat, Pending' = p
          PROVE  /\ Traced' \in Nat
                 /\ Traced + Pending + Unrecorded' <= Traced' + Pending' + Unrecorded
      BY <1>2, <2>20, <3>1, <3>2, <3>6
    <3> QED BY <2>1, <2>20, <3>2, <3>3, <3>4, <3>5, <3>6, AbandonedStayTraced
  <2> QED BY <1>2, <1>4, <2>1, <2>2, <2>3, <2>4, <2>21
<1>12. CASE StoreFrame
  <2>1. /\ worker.pc = "appending" /\ worker'.pc = "appended" /\ worker'.vec = worker.vec
        /\ worker'.why = worker.why /\ worker'.aborted = worker.aborted
        /\ store'.frames = store.frames + 1 /\ store'.missing = store.missing
        /\ UNCHANGED <<rt, queued, reader, watcher, stop, env>>
    BY <1>1, <1>2, <1>12 DEF StoreFrame, Workers, StreamTyped, Stores
  <2>2. worker.vec = <<>> BY <1>3, <2>1
  <2>3. StreamOrderly' BY <1>1, <2>1, <2>2 DEF StreamOrderly, StopOrderly
  <2>20. Pending' \in Nat /\ Pending <= Pending'
    BY <1>1, <1>2, <2>1, PendingFollows
  <2>21. AbandonedAreTraced'
    <3>1. Traced' = Traced + 1 /\ Traced \in Nat BY <1>2, <2>1
    <3>2. Unrecorded = 0 /\ Unrecorded' = 1 /\ Sent' = Sent BY <2>1
    <3>3. NoneFailed' => NoneFailed BY <2>1
    <3>4. rt'.received = rt.received BY <2>1
    <3>5. env'.lostGaps = env.lostGaps /\ env'.late = env.late BY <2>1
    <3> HIDE DEF StreamInv, Traced, Sent, Unrecorded, NoneFailed, AbandonedAreTraced
    <3>6. ASSUME NEW p \in Nat, Pending' = p
          PROVE  /\ Traced' \in Nat
                 /\ Traced + Pending + Unrecorded' <= Traced' + Pending' + Unrecorded
      BY <1>2, <2>20, <3>1, <3>2, <3>6
    <3> QED BY <2>1, <2>20, <3>2, <3>3, <3>4, <3>5, <3>6, AbandonedStayTraced
  <2> QED BY <1>2, <2>1, <2>3, <2>21
<1>13. CASE RecordPersisted
  <2>1. /\ worker.pc = "appended" /\ worker'.pc = "receiving" /\ worker'.vec = worker.vec
        /\ worker'.why = worker.why /\ worker'.aborted = worker.aborted
        /\ UNCHANGED <<queued, reader, watcher, stop, store, env>>
    BY <1>2, <1>13 DEF RecordPersisted, Workers
  <2>2. /\ rt'.depth = rt.depth
        /\ rt'.inFlight = (IF rt.inFlight = 0 THEN 0 ELSE rt.inFlight - 1)
        /\ rt'.received = rt.received /\ rt'.persisted = rt.persisted + 1
        /\ rt'.failure = rt.failure /\ rt'.gaps = rt.gaps
    BY <1>2, <1>13 DEF RecordPersisted, Counts
  <2>3. worker.vec = <<>> BY <1>3, <2>1
  <2>4. StreamOrderly' BY <1>1, <2>1, <2>2, <2>3 DEF StreamOrderly, StopOrderly
  <2>20. Pending' \in Nat /\ Pending <= Pending' + 1
    BY <1>1, <1>2, <2>1, <2>2, PendingFollows
  <2>21. AbandonedAreTraced'
    <3>1. Traced' = Traced /\ Traced \in Nat BY <1>2, <2>1, <2>2
    <3>2. Unrecorded = 1 /\ Unrecorded' = 0 /\ Sent' = Sent BY <2>1
    <3>3. NoneFailed' => NoneFailed BY <2>1, <2>2
    <3>4. rt'.received = rt.received BY <2>2
    <3>5. env'.lostGaps = env.lostGaps /\ env'.late = env.late BY <2>1
    <3> HIDE DEF StreamInv, Traced, Sent, Unrecorded, NoneFailed, AbandonedAreTraced
    <3>6. ASSUME NEW p \in Nat, Pending' = p
          PROVE  /\ Traced' \in Nat
                 /\ Traced + Pending + Unrecorded' <= Traced' + Pending' + Unrecorded
      BY <1>2, <2>20, <3>1, <3>2, <3>6
    <3> QED BY <2>1, <2>20, <3>2, <3>3, <3>4, <3>5, <3>6, AbandonedStayTraced
  <2> QED BY <1>2, <2>1, <2>2, <2>4, <2>21
<1>14. LET t == LosesFrame
       IN  /\ t \in Runtimes /\ Missing(t.gaps) = Missing(rt.gaps) + 1 /\ t.depth = rt.depth
           /\ t.inFlight = (IF rt.inFlight = 0 THEN 0 ELSE rt.inFlight - 1)
           /\ t.received = rt.received /\ t.persisted = rt.persisted /\ t.failure = rt.failure
  BY <1>2, LossCounts DEF LosesFrame, Reasons
<1>15. CASE AppendFrameFails
  <2>1. /\ worker.pc = "appending" /\ worker'.pc = "fails" /\ worker'.vec = worker.vec
        /\ worker'.why = "FramePersistence" /\ worker'.aborted = worker.aborted
        /\ rt' = LosesFrame
        /\ UNCHANGED <<queued, reader, watcher, stop, store>> /\ StreamFault
    BY <1>2, <1>15 DEF AppendFrameFails, Workers
  <2>2. ~NoneFailed' BY <1>5, <2>1 DEF Stages
  <2>3. worker.vec = <<>> BY <1>3, <2>1
  <2>4. StreamOrderly' BY <1>1, <1>4, <2>1, <2>3 DEF StreamOrderly, StopOrderly, Stages
  <2> QED BY <1>2, <1>14, <2>1, <2>2, <2>4
<1>16. CASE BudgetExhausted
  <2>1. /\ worker.pc = "appending" /\ worker'.pc \in {"paused", "leaving"}
        /\ worker'.vec = worker.vec
        /\ worker'.why = worker.why /\ worker'.aborted = worker.aborted
        /\ UNCHANGED <<queued, reader, watcher, stop, store>> /\ StreamFault
    BY <1>2, <1>16 DEF BudgetExhausted, Workers
  <2>2. /\ rt'.depth = rt.depth
        /\ rt'.inFlight = (IF rt.inFlight = 0 THEN 0 ELSE rt.inFlight - 1)
        /\ rt'.received = rt.received /\ rt'.persisted = rt.persisted /\ rt'.failure = rt.failure
        /\ Missing(rt'.gaps) = Missing(rt.gaps) + 1
    <3> DEFINE t == LosesFrame
    <3>1. rt' = Transition(t, "PauseBudget") /\ t \in Runtimes BY <1>14, <1>16 DEF BudgetExhausted
    <3> HIDE DEF t
    <3>2. CountsAlike(t, rt') /\ rt'.gaps = t.gaps BY <3>1, TransitionKeeps
    <3> QED BY <1>14, <3>2 DEF t, CountsAlike
  <2>3. worker.vec = <<>> BY <1>3, <2>1
  <2>4. StreamOrderly' BY <1>1, <1>4, <2>1, <2>2, <2>3 DEF StreamOrderly, StopOrderly
  <2>20. Pending' \in Nat /\ Pending <= Pending' + 1
    BY <1>1, <1>2, <2>1, <2>2, PendingFollows
  <2>21. AbandonedAreTraced'
    <3>1. Traced' = Traced + 1 /\ Traced \in Nat BY <1>2, <1>4, <2>1, <2>2
    <3>2. Unrecorded = 0 /\ Unrecorded' = 0 /\ Sent' = Sent BY <2>1
    <3>3. NoneFailed' => NoneFailed BY <2>1, <2>2
    <3>4. rt'.received = rt.received BY <2>2
    <3>5. env'.lostGaps = env.lostGaps /\ env'.late = env.late BY <1>4, <2>1
    <3> HIDE DEF StreamInv, Traced, Sent, Unrecorded, NoneFailed, AbandonedAreTraced
    <3>6. ASSUME NEW p \in Nat, Pending' = p
          PROVE  /\ Traced' \in Nat
                 /\ Traced + Pending + Unrecorded' <= Traced' + Pending' + Unrecorded
      BY <1>2, <2>20, <3>1, <3>2, <3>6
    <3> QED BY <2>1, <2>20, <3>2, <3>3, <3>4, <3>5, <3>6, AbandonedStayTraced
  <2> QED BY <1>2, <1>4, <2>1, <2>2, <2>4, <2>21
<1>17. CASE BudgetAvailable \/ LeaveLoop
  <2>1. /\ \/ worker.pc = "paused" /\ worker'.pc = "resuming"
           \/ worker.pc \in {"receiving", "leaving"} /\ worker'.pc = "final"
        /\ worker'.vec = rt.gaps /\ worker'.why = worker.why /\ worker'.aborted = worker.aborted
        /\ UNCHANGED <<queued, reader, watcher, stop, store, env>>
    BY <1>2, <1>17 DEF BudgetAvailable, LeaveLoop, TakesGaps, Workers
  <2>2. /\ rt'.depth = rt.depth /\ rt'.inFlight = rt.inFlight /\ rt'.received = rt.received
        /\ rt'.persisted = rt.persisted /\ rt'.failure = rt.failure /\ rt'.gaps = <<>>
    BY <1>2, <1>17 DEF BudgetAvailable, LeaveLoop, TakesGaps, Emptied, Counts
  <2>3. Missing(rt'.gaps) = 0 /\ Missing(worker'.vec) = Missing(rt.gaps) /\ Missing(worker.vec) = 0
    BY <1>3, <2>1, <2>2, EmptyMissesNothing
  <2>4. StreamOrderly' BY <1>1, <2>1, <2>2 DEF StreamOrderly, StopOrderly
  <2>5. Traced' = Traced BY <1>2, <2>1, <2>2, <2>3
  <2>6. worker.pc \in {"paused", "receiving", "leaving"} /\ worker'.pc \in {"resuming", "final"}
    BY <2>1
  <2>20. Pending' \in Nat /\ Pending <= Pending'
    BY <1>1, <1>2, <2>1, <2>2, PendingFollows
  <2>21. AbandonedAreTraced'
    <3>1. Traced' = Traced /\ Traced \in Nat BY <1>2, <2>5
    <3>2. Unrecorded = 0 /\ Unrecorded' = 0 /\ Sent' = Sent BY <2>1
    <3>3. NoneFailed' => NoneFailed BY <2>1, <2>2
    <3>4. rt'.received = rt.received BY <2>2
    <3>5. env'.lostGaps = env.lostGaps /\ env'.late = env.late BY <2>1
    <3> HIDE DEF StreamInv, Traced, Sent, Unrecorded, NoneFailed, AbandonedAreTraced
    <3>6. ASSUME NEW p \in Nat, Pending' = p
          PROVE  /\ Traced' \in Nat
                 /\ Traced + Pending + Unrecorded' <= Traced' + Pending' + Unrecorded
      BY <1>2, <2>20, <3>1, <3>2, <3>6
    <3> QED BY <2>1, <2>20, <3>2, <3>3, <3>4, <3>5, <3>6, AbandonedStayTraced
  <2> QED BY <1>2, <2>1, <2>2, <2>4, <2>5, <2>6, <2>21
<1>18. CASE PauseInterrupted \/ PauseFails \/ ReadVisibility
  <2>1. /\ \/ worker.pc = "paused" /\ worker'.pc = "leaving"
           \/ worker.pc = "resuming" /\ worker'.pc \in {"resumeVisible", "resumeHidden"}
        /\ worker.vec = <<>> /\ worker'.vec = worker.vec
        /\ worker'.why = worker.why /\ worker'.aborted = worker.aborted
        /\ UNCHANGED <<rt, queued, reader, watcher, stop, store>>
        /\ env'.untraced = env.untraced /\ env'.lostGaps = env.lostGaps /\ env'.late = env.late
    BY <1>2, <1>3, <1>4, <1>18 DEF PauseInterrupted, PauseFails, ReadVisibility, Workers
  <2>2. StreamOrderly' BY <1>1, <2>1 DEF StreamOrderly, StopOrderly
  <2>20. Pending' \in Nat /\ Pending <= Pending'
    BY <1>1, <1>2, <2>1, PendingFollows
  <2>21. AbandonedAreTraced'
    <3>1. Traced' = Traced /\ Traced \in Nat
      <4>1. InGaps' = InGaps /\ InReader' = InReader /\ InStore' = InStore BY <2>1
      <4>2. Traced' = Traced BY <2>1, <4>1
      <4>3. Traced \in Nat BY <1>2
      <4> QED BY <4>2, <4>3
    <3>2. Unrecorded = 0 /\ Unrecorded' = 0 /\ Sent' = Sent BY <2>1
    <3>3. NoneFailed' => NoneFailed BY <2>1
    <3>4. rt'.received = rt.received BY <2>1
    <3>5. env'.lostGaps = env.lostGaps /\ env'.late = env.late BY <2>1
    <3> HIDE DEF StreamInv, Traced, Sent, Unrecorded, NoneFailed, AbandonedAreTraced
    <3>6. ASSUME NEW p \in Nat, Pending' = p
          PROVE  /\ Traced' \in Nat
                 /\ Traced + Pending + Unrecorded' <= Traced' + Pending' + Unrecorded
      BY <1>2, <2>20, <3>1, <3>2, <3>6
    <3> QED BY <2>1, <2>20, <3>2, <3>3, <3>4, <3>5, <3>6, AbandonedStayTraced
  <2> QED BY <1>2, <2>1, <2>2, <2>21
<1>19. CASE ResumeStream
  <2>1. /\ worker.pc \in {"resumeVisible", "resumeHidden"} /\ worker'.pc = "receiving"
        /\ worker'.vec = worker.vec
        /\ worker'.why = worker.why /\ worker'.aborted = worker.aborted
        /\ UNCHANGED <<queued, reader, watcher, stop, store, env>>
    BY <1>2, <1>19 DEF ResumeStream, Workers
  <2>2. CountsAlike(rt, rt') /\ rt'.gaps = rt.gaps
    BY <1>2, <1>19, TransitionKeeps DEF ResumeStream
  <2>3. worker.vec = <<>> BY <1>3, <2>1
  <2>4. StreamOrderly' BY <1>1, <2>1, <2>2, <2>3 DEF StreamOrderly, StopOrderly, CountsAlike
  <2>20. Pending' \in Nat /\ Pending <= Pending'
    BY <1>1, <1>2, <2>1, <2>2, PendingFollows DEF CountsAlike
  <2>21. AbandonedAreTraced'
    <3>1. Traced' = Traced /\ Traced \in Nat BY <1>2, <2>1, <2>2
    <3>2. Unrecorded = 0 /\ Unrecorded' = 0 /\ Sent' = Sent BY <2>1
    <3>3. NoneFailed' => NoneFailed BY <2>1, <2>2 DEF CountsAlike
    <3>4. rt'.received = rt.received BY <2>2 DEF CountsAlike
    <3>5. env'.lostGaps = env.lostGaps /\ env'.late = env.late BY <2>1
    <3> HIDE DEF StreamInv, Traced, Sent, Unrecorded, NoneFailed, AbandonedAreTraced
    <3>6. ASSUME NEW p \in Nat, Pending' = p
          PROVE  /\ Traced' \in Nat
                 /\ Traced + Pending + Unrecorded' <= Traced' + Pending' + Unrecorded
      BY <1>2, <2>20, <3>1, <3>2, <3>6
    <3> QED BY <2>1, <2>20, <3>2, <3>3, <3>4, <3>5, <3>6, AbandonedStayTraced
  <2> QED BY <1>2, <2>1, <2>2, <2>4, <2>21 DEF CountsAlike
<1>20. CASE StreamWorkerFails
  <2>1. /\ worker'.vec = worker.vec /\ worker'.why = worker.why
        /\ worker'.aborted = worker.aborted
        /\ worker.pc \in {"fails", "failsLast", "failing", "failingLast"}
        /\ worker.pc \in {"fails", "failsLast"} => worker'.pc \in {"failing", "failingLast"}
        /\ worker.pc = "failing" => worker'.pc = "leaving"
        /\ worker.pc = "failingLast" => worker'.pc = "ended"
        /\ UNCHANGED <<reader, watcher, stop, store, env>>
        /\ queued' = queued \/ (worker'.pc = "ended" /\ queued' = 0)
    BY <1>2, <1>20 DEF StreamWorkerFails, Workers
  <2>2. /\ rt'.depth = rt.depth /\ rt'.inFlight = rt.inFlight /\ rt'.received = rt.received
        /\ rt'.persisted = rt.persisted /\ rt'.gaps = rt.gaps
        /\ rt.failure # NoFailure => rt'.failure # NoFailure
        /\ worker.pc \in {"fails", "failsLast"} => rt'.failure # NoFailure
        /\ worker.pc \notin {"fails", "failsLast"} => rt'.failure = rt.failure
    <3>1. CASE worker.pc \in {"fails", "failsLast"}
      <4>1. worker.why \in Stages BY <1>1, <3>1 DEF StreamOrderly, StopOrderly
      <4>2. rt' = [rt EXCEPT !.failure = IF rt.failure = NoFailure THEN worker.why ELSE rt.failure]
        BY <1>20, <3>1 DEF StreamWorkerFails, StageFails
      <4> QED BY <1>2, <1>5, <3>1, <4>1, <4>2 DEF Counts
    <3>2. CASE worker.pc \notin {"fails", "failsLast"}
      <4>1. rt' = Transition(rt, "Failure") BY <1>20, <3>2 DEF StreamWorkerFails, FailureShows
      <4>2. CountsAlike(rt, rt') /\ rt'.gaps = rt.gaps BY <1>2, <4>1, TransitionKeeps
      <4> QED BY <3>2, <4>2 DEF CountsAlike
    <3> QED BY <3>1, <3>2
  <2>3. worker.vec = <<>> BY <1>3, <2>1
  <2>4. StreamOrderly' BY <1>1, <2>1, <2>2, <2>3 DEF StreamOrderly, StopOrderly
  <2>20. Pending' \in Nat /\ Pending <= Pending' BY <1>1, <1>2, <2>1, <2>2, PendingFollows
  <2>5. CASE worker.pc \in {"fails", "failsLast"} BY <1>2, <2>1, <2>2, <2>4, <2>5
  <2>6. CASE worker.pc = "failing" BY <1>2, <2>1, <2>2, <2>4, <2>6, <2>20
  <2>7. CASE worker.pc = "failingLast"
    <3>1. /\ worker'.pc = "ended" /\ rt'.failure = rt.failure
          /\ UNCHANGED <<reader, stop, store, env>>
      BY <2>1, <2>2, <2>7
    <3>2. Traced' = Traced BY <2>1, <2>2, <3>1
    <3>3. AbandonedAreTraced' BY <1>2, <2>1, <2>2, <2>7, <2>20, <3>1, <3>2
    <3>4. EndTakesOnlyQueued'
      <4> SUFFICES ASSUME NoneFailed, ~worker.aborted, ~Abandoned
                   PROVE  Traced <= rt.received /\ rt.received <= Traced + rt.depth + Sent
        BY <2>1, <2>2, <3>1, <3>2
      <4>1. rt.received = Traced + queued /\ queued <= rt.depth + Sent BY <1>2, <2>7
      <4> QED BY <1>2, <4>1
    <3>5. QueueIsCounted' /\ FramesAreSomewhere' /\ RejectedIsTraced' /\ StoredAreRecorded'
      BY <2>1, <2>2, <2>7, <3>1
    <3> QED BY <2>4, <3>3, <3>4, <3>5
  <2> QED BY <2>1, <2>5, <2>6, <2>7
<1>21. CASE WorkerAborted
  <2>1. /\ worker.aborted /\ worker'.aborted = worker.aborted /\ worker'.why = worker.why
        /\ worker.pc \in {"receiving", "paused", "appending", "before", "direct", "resuming",
                          "final"}
        /\ worker'.pc = "aborted" /\ worker'.vec = <<>> /\ queued' = 0
        /\ UNCHANGED <<rt, reader, watcher, stop>>
        /\ env'.untraced = env.untraced /\ env'.lostGaps = Missing(worker.vec)
        /\ env'.late = env.late
    BY <1>1, <1>2, <1>21 DEF WorkerAborted, Workers, StreamTyped, Bounds
  <2>2. store'.missing = store.missing /\ store'.frames \in {store.frames, store.frames + 1}
    BY <1>1, <1>21 DEF WorkerAborted, StreamTyped, Stores
  <2>3. Missing(worker'.vec) = 0 /\ env.lostGaps = 0
    BY <1>1, <2>1, EmptyMissesNothing DEF StreamOrderly, StopOrderly
  <2>4. StreamOrderly' BY <1>1, <2>1 DEF StreamOrderly, StopOrderly
  <2>5. AbandonedAreTraced'
    <3> SUFFICES ASSUME NoneFailed', Abandoned'
                 PROVE  rt'.received + Unrecorded'
                          <= Traced' + env'.lostGaps + Sent' + Pending' + env'.late
      OBVIOUS
    <3>1. NoneFailed /\ Abandoned /\ UNCHANGED rt BY <2>1
    <3>2. Unrecorded = 0 /\ Unrecorded' = 0 /\ Sent' = Sent BY <2>1
    <3>3. InReader' = InReader /\ InReader \in Nat /\ Sent \in Nat BY <2>1
    <3>7. InStore \in Nat BY <1>2
    <3>4. InStore' \in {InStore, InStore + 1} BY <1>2, <2>2
    <3>5. InGaps' + env'.lostGaps = InGaps /\ InGaps' \in Nat /\ env'.lostGaps \in Nat
      <4>1. Missing(rt.gaps) \in Nat /\ Missing(worker.vec) \in Nat BY <1>2
      <4>2. Missing(rt'.gaps) = Missing(rt.gaps) /\ Missing(worker'.vec) = 0 BY <2>1, <2>3
      <4>3. env'.lostGaps = Missing(worker.vec) BY <2>1
      <4>4. InGaps = Missing(rt.gaps) + Missing(worker.vec)
            /\ InGaps' = Missing(rt'.gaps) + Missing(worker'.vec)
        BY DEF InGaps
      <4> HIDE DEF Missing, InGaps, StreamInv
      <4> QED BY <4>1, <4>2, <4>3, <4>4
    <3> HIDE DEF InReader, InStore, InGaps, Sent, Unrecorded, NoneFailed, Abandoned
    <3>6. rt.received + Unrecorded <= Traced + env.lostGaps + Sent + Pending + env.late BY <3>1
    <3> HIDE DEF StreamInv
    <3>8. env'.untraced = env.untraced /\ env.lostGaps = 0 /\ env'.late = env.late BY <2>1, <2>3
    <3>9. Pending' \in Nat /\ Pending <= Pending' BY <1>1, <1>2, <2>1, PendingFollows
    <3> QED BY <1>2, <3>1, <3>2, <3>3, <3>4, <3>5, <3>6, <3>7, <3>8, <3>9
  <2> QED BY <2>1, <2>4, <2>5
<1> QED
  BY <1>6, <1>7, <1>8, <1>9, <1>10, <1>11, <1>12, <1>13, <1>15, <1>16, <1>17, <1>18, <1>19,
     <1>20, <1>21
     DEF WorkerStep, WorkerProceeds

\* The visibility reader declares gaps without a frame.
LEMMA WatcherKeepsBooks ==
    ASSUME StreamInv, WatcherStep
    PROVE  StreamOrderly' /\ Books'
<1>1. StreamTyped /\ StreamOrderly BY DEF StreamInv
<1>2. rt \in Runtimes /\ rt \in Counts BY <1>1, TypedParts
<1>3. /\ UNCHANGED <<queued, store, reader, worker, stop>>
      /\ env'.untraced = env.untraced /\ env'.lostGaps = env.lostGaps /\ env'.late = env.late
  BY <1>1
     DEF WatcherStep, TargetHides, TargetShows, SeesVisibility, WatcherFails, StreamFault,
         StreamTyped, Bounds
<1>4. watcher'.pc = "fails" => watcher'.why \in Stages
  <2>1. CASE SeesVisibility
    <3>1. watcher'.pc # "fails" BY <1>1, <2>1 DEF SeesVisibility, StreamTyped, Watchers
    <3> QED BY <3>1
  <2>2. CASE WatcherFails
    <3>1. watcher \in Watchers BY <1>1 DEF StreamTyped
    <3> QED BY <2>2, <3>1 DEF WatcherFails, Watchers, Stages
  <2> QED BY <2>1, <2>2 DEF WatcherStep, TargetHides, TargetShows
<1>5. CountsOf(rt, rt') /\ Missing(rt'.gaps) = Missing(rt.gaps)
  <2>1. CASE TargetHides
    <3> DEFINE hidden == Transition(rt, "Hide")
    <3>1. hidden \in Runtimes /\ CountsAlike(rt, hidden) /\ hidden.gaps = rt.gaps
      BY <1>2, TransitionKeeps
    <3>2. Gap("TargetHidden", 0) \in Gaps /\ Gap("TargetHidden", 0).frames = 0
      BY GapsAreGaps DEF Reasons
    <3>3. rt' = hidden \/ rt' = Push(hidden, Gap("TargetHidden", 0)) BY <2>1 DEF TargetHides
    <3> HIDE DEF hidden
    <3>4. /\ CountsAlike(hidden, Push(hidden, Gap("TargetHidden", 0)))
          /\ Missing(Push(hidden, Gap("TargetHidden", 0)).gaps) = Missing(hidden.gaps) + 0
      BY <3>1, <3>2, PushCounts
    <3>5. Missing(rt.gaps) \in Nat BY <1>1, TypedParts
    <3> QED BY <3>1, <3>3, <3>4, <3>5 DEF CountsAlike, CountsOf
  <2>2. CASE TargetShows
    BY <1>2, <2>2, TransitionKeeps DEF TargetShows, CountsAlike, CountsOf
  <2>3. CASE WatcherFails
    <3>1. CASE UNCHANGED rt BY <3>1 DEF CountsOf
    <3>2. CASE StageFails(watcher.why) /\ watcher.pc = "fails"
      <4>1. watcher.why \in Stages BY <1>1, <3>2 DEF StreamOrderly, StopOrderly
      <4>2. rt' = [rt EXCEPT !.failure = IF rt.failure = NoFailure THEN watcher.why ELSE rt.failure]
        BY <3>2 DEF StageFails
      <4> QED BY <1>2, <4>1, <4>2, FailureAssumption DEF Counts, CountsOf
    <3>3. CASE FailureShows
      BY <1>2, <3>3, TransitionKeeps DEF FailureShows, CountsAlike, CountsOf
    <3> QED BY <2>3, <3>1, <3>2, <3>3 DEF WatcherFails
  <2> QED BY <2>1, <2>2, <2>3 DEF WatcherStep
<1>6. StopOrderly' /\ (Abandoned' <=> Abandoned) /\ Pending' = Pending
  BY <1>1, <1>3, <1>5 DEF StreamOrderly, StopOrderly, Abandoned, Pending, CountsOf
<1> QED BY <1>3, <1>4, <1>5, <1>6, QuietStepKeepsBooks

\* Once the stop has given up, its own steps only move frames between what is counted, what is
\* going to be, and what a gap names.
LEMMA GivingUpKeepsBooks ==
    ASSUME StreamInv,
           UNCHANGED <<queued, store, reader, watcher, env>>,
           worker'.pc = worker.pc, worker'.vec = worker.vec, worker'.why = worker.why,
           worker.aborted => worker'.aborted,
           rt'.received = rt.received, rt'.persisted = rt.persisted, rt'.failure = rt.failure,
           StopOrderly', Abandoned',
           NoneFailed =>
             rt.received + Unrecorded <= Traced' + env.lostGaps + Sent + Pending' + env.late
    PROVE  StreamOrderly' /\ Books'
<1>1. StreamOrderly' BY DEF StreamInv, StreamOrderly
<1>2. worker'.aborted \/ worker'.pc = "ended" BY DEF StopOrderly
<1>3. (NoneFailed' <=> NoneFailed) /\ Unrecorded' = Unrecorded /\ Sent' = Sent
  BY DEF NoneFailed, Unrecorded, Sent
<1>4. AbandonedAreTraced' BY <1>3 DEF AbandonedAreTraced
<1>5. StoredAreRecorded' BY <1>3 DEF StreamInv, StoredAreRecorded
<1>6. QueueIsCounted' /\ EndTakesOnlyQueued' BY DEF QueueIsCounted, EndTakesOnlyQueued
<1>7. FramesAreSomewhere' /\ RejectedIsTraced' BY <1>2 DEF FramesAreSomewhere, RejectedIsTraced
<1> QED BY <1>1, <1>4, <1>5, <1>6, <1>7 DEF Books

\* The start of a stream, the calls that suspend or stop it, and the readers they end.
LEMMA OthersKeepBooks ==
    ASSUME StreamInv,
           \/ StartAnswered \/ StartFails \/ Suspend \/ SuspendShows \/ ReadersAborted
           \/ FenceMoves \/ StatusRead \/ StopStep
    PROVE  StreamOrderly' /\ Books'
<1>1. StreamTyped /\ StreamOrderly BY DEF StreamInv
<1>2. /\ rt \in Runtimes /\ rt \in Counts /\ worker \in Workers /\ stop \in Stops
      /\ rt.depth \in Nat /\ rt.inFlight \in Nat /\ rt.received \in Nat /\ rt.persisted \in Nat
      /\ queued \in Nat /\ store.frames \in Nat /\ store.missing \in Nat
      /\ env.untraced \in Nat /\ env.lostGaps \in Nat /\ env.late \in Nat /\ Pending \in Nat
      /\ Missing(rt.gaps) \in Nat /\ Missing(worker.vec) \in Nat
  BY <1>1, BookedParts DEF StreamTyped
<1>3. /\ StopOrderly /\ stop.abandoned \in Nat
      /\ worker.aborted => stop.pc = "unregistered" \/ Abandoned
  BY <1>1, TypedParts DEF StreamOrderly, StopOrderly
<1>4. CASE \/ StartAnswered \/ Suspend \/ SuspendShows \/ FenceMoves \/ StatusRead \/ StopBegins
           \/ StopAnnounced \/ StopReads \/ StopEnds \/ StopReports
           \/ \E answered \in BOOLEAN : StopSent(answered)
  <2> USE DEF StartAnswered, Suspend, SuspendShows, FenceMoves, StatusRead, StopBegins,
              StopAnnounced, StopReads, StopEnds, StopReports, StopSent
  <2>1. UNCHANGED <<queued, store, reader, watcher, worker, env>> BY <1>4
  <2>2. watcher'.pc = "fails" => watcher'.why \in Stages
    BY <1>1, <2>1 DEF StreamOrderly, StopOrderly
  <2>3. CountsOf(rt, rt') /\ Missing(rt'.gaps) = Missing(rt.gaps)
    <3>1. CASE StartAnswered \/ StopAnnounced \/ StopEnds
      BY <1>2, <3>1, TransitionKeeps DEF CountsAlike, CountsOf
    <3>2. CASE SuspendShows
      <4> DEFINE suspended == Transition(rt, "Suspend")
      <4>1. suspended \in Runtimes /\ CountsAlike(rt, suspended) /\ suspended.gaps = rt.gaps
        BY <1>2, TransitionKeeps
      <4>2. Gap("Disconnected", 0) \in Gaps /\ Gap("Disconnected", 0).frames = 0
        BY GapsAreGaps DEF Reasons
      <4>3. rt' = Push(suspended, Gap("Disconnected", 0)) BY <3>2
      <4> HIDE DEF suspended
      <4>4. CountsAlike(suspended, rt') /\ Missing(rt'.gaps) = Missing(suspended.gaps) + 0
        BY <4>1, <4>2, <4>3, PushCounts
      <4> QED BY <1>2, <4>1, <4>4 DEF CountsAlike, CountsOf
    <3>3. CASE UNCHANGED rt BY <3>3 DEF CountsOf
    <3>4. CASE StatusRead \/ StopReads \/ StopReports
      BY <1>2, <3>4 DEF Checked, Counts, CountsOf
    <3> QED BY <1>4, <3>1, <3>2, <3>3, <3>4
  <2>4. StopOrderly' /\ (Abandoned' <=> Abandoned) /\ Pending' = Pending
    <3>1. rt'.depth = rt.depth /\ rt'.inFlight = rt.inFlight /\ worker' = worker
      BY <2>1, <2>3 DEF CountsOf
    <3>2. CASE UNCHANGED stop BY <1>3, <3>1, <3>2 DEF StopOrderly, Abandoned, Pending
    <3>3. CASE \/ StartAnswered \/ Suspend \/ SuspendShows \/ StopBegins \/ StopAnnounced
               \/ \E answered \in BOOLEAN : StopSent(answered)
      <4>1. /\ stop.pc \in {"starting", "running", "suspending", "announcing", "sending"}
            /\ stop'.pc \in {"running", "suspending", "announcing", "sending", "joining"}
            /\ stop'.abandoned = stop.abandoned
        BY <1>2, <3>3 DEF Stops
      <4> QED BY <1>3, <3>1, <4>1 DEF StopOrderly, Abandoned, Pending
    <3>4. CASE StopReads
      <4>1. /\ stop.pc = "reading" /\ stop'.pc = "declaring"
            /\ stop'.complete = stop.complete /\ stop'.abandoned = stop.abandoned
        BY <1>2, <3>4 DEF Stops
      <4> QED BY <1>3, <3>1, <4>1 DEF StopOrderly, Abandoned, Pending
    <3>5. CASE StopEnds \/ StopReports
      <4>1. /\ stop.pc \in {"closing", "reporting"} /\ stop'.pc \in {"reporting", "done"}
            /\ stop'.complete = stop.complete /\ stop'.abandoned = stop.abandoned
        BY <1>2, <3>5 DEF Stops
      <4> QED BY <1>3, <3>1, <4>1 DEF StopOrderly, Abandoned, Pending
    <3> QED BY <1>4, <3>2, <3>3, <3>4, <3>5
  <2> QED BY <2>1, <2>2, <2>3, <2>4, QuietStepKeepsBooks
<1> USE DEF Books, QueueIsCounted, FramesAreSomewhere, EndTakesOnlyQueued,
            AbandonedAreTraced, RejectedIsTraced, StoredAreRecorded, Abandoned, NoneFailed, Taken,
            Processing, Unrecorded, Sent, Traced, InReader, InWorker, InStore, InGaps
<1>5. CASE StartFails
  <2>1. /\ worker'.pc = worker.pc /\ worker'.vec = worker.vec /\ worker'.why = worker.why
        /\ worker'.aborted /\ stop.pc = "starting" /\ stop'.pc = "unregistered"
        /\ stop'.abandoned = stop.abandoned
        /\ UNCHANGED <<rt, queued, reader, watcher, store, env>>
    BY <1>2, <1>5 DEF StartFails, Workers, Stops
  <2>2. StreamOrderly' BY <1>1, <2>1 DEF StreamOrderly, StopOrderly
  <2> QED BY <2>1, <2>2
<1>6. CASE ReadersAborted
  <2>1. /\ UNCHANGED <<rt, queued, worker, stop, store>>
        /\ reader'.pc = reader.pc \/ (reader.pc \in {"waiting", "acking"} /\ reader'.pc = "aborted")
        /\ reader'.why = reader.why /\ watcher'.why = watcher.why
        /\ watcher'.pc \in {watcher.pc, "aborted"}
        /\ env'.lostGaps = env.lostGaps /\ env'.late = env.late
        /\ env'.untraced + InReader' = env.untraced + InReader
    BY <1>1, <1>2, <1>6 DEF ReadersAborted, StreamTyped, Readers, Watchers, Bounds
  <2>2. StreamOrderly' BY <1>1, <2>1 DEF StreamOrderly, StopOrderly
  <2>3. Sent' = Sent BY <2>1
  <2>4. env'.untraced \in Nat BY <1>1, <1>2, <1>6 DEF ReadersAborted, StreamTyped, Bounds
  <2>5. Traced' = Traced
    <3>1. InReader \in Nat /\ InReader' \in Nat /\ InStore' = InStore /\ InGaps' = InGaps BY <2>1
    <3>2. InStore \in Nat /\ InGaps \in Nat BY <1>2
    <3> HIDE DEF InReader, InStore, InGaps
    <3> QED BY <1>2, <2>1, <2>4, <3>1, <3>2
  <2>6. Pending' \in Nat /\ Pending' = Pending BY <1>2, <2>1 DEF Pending
  <2>7. AbandonedAreTraced'
    <3>1. Unrecorded' = Unrecorded /\ Unrecorded \in Nat BY <2>1
    <3>2. (NoneFailed' => NoneFailed) /\ Traced \in Nat BY <1>2, <2>1
    <3> HIDE DEF StreamInv, Traced, Sent, Unrecorded, NoneFailed, AbandonedAreTraced
    <3>3. /\ Traced' \in Nat
          /\ Traced + Pending + Unrecorded' <= Traced' + Pending' + Unrecorded
      BY <1>2, <2>5, <2>6, <3>1, <3>2
    <3> QED BY <2>1, <2>3, <2>6, <3>2, <3>3, AbandonedStayTraced
  <2> HIDE DEF Traced, Sent, AbandonedAreTraced
  <2> QED BY <1>2, <2>1, <2>2, <2>3, <2>5, <2>7 DEF StreamInv
<1> HIDE DEF StreamInv, Books, Traced, Taken, Processing, Unrecorded, Sent, InWorker, NoneFailed,
            Abandoned
<1>7. /\ Traced \in Nat /\ Sent \in Nat /\ Unrecorded \in Nat /\ Taken \in Nat
      /\ Processing \in Nat /\ InWorker \in Nat
  BY <1>2 DEF Traced, Sent, Unrecorded, Taken, Processing, InWorker
<1>8. CASE StopJoins
  <2>1. /\ UNCHANGED <<rt, queued, reader, watcher, worker, store, env>>
        /\ stop.pc = "joining" /\ worker.pc = "ended"
        /\ stop'.pc = IF stop.complete THEN "closing" ELSE "recounting"
        /\ stop'.complete = stop.complete /\ stop'.abandoned = stop.abandoned
    BY <1>2, <1>8 DEF StopJoins, Stops
  <2>2. StopOrderly' BY <1>3, <2>1 DEF StopOrderly, Abandoned
  <2>3. CASE stop.complete
    <3>1. (Abandoned' <=> Abandoned) /\ Pending' = Pending
      BY <2>1, <2>3 DEF Abandoned, Pending
    <3>2. CountsOf(rt, rt') /\ Missing(rt'.gaps) = Missing(rt.gaps) BY <2>1 DEF CountsOf
    <3>3. watcher'.pc = "fails" => watcher'.why \in Stages
      BY <1>1, <2>1 DEF StreamOrderly, StopOrderly
    <3> QED BY <2>1, <2>2, <3>1, <3>2, <3>3, QuietStepKeepsBooks
  <2>4. CASE ~stop.complete
    <3>1. Abandoned' /\ ~Abandoned /\ ~worker.aborted BY <1>3, <2>1, <2>4 DEF Abandoned
    <3>2. Pending' = rt.depth + rt.inFlight BY <1>3, <2>1, <2>4 DEF StopOrderly, Pending
    <3>3. ASSUME NoneFailed
          PROVE  rt.received + Unrecorded <= Traced' + env.lostGaps + Sent + Pending' + env.late
      <4>1. rt.received <= Traced + rt.depth + Sent BY <2>1, <3>1, <3>3 DEF StreamInv
      <4>2. Unrecorded = 0 BY <2>1 DEF Unrecorded
      <4>3. Traced' = Traced BY <2>1 DEF Traced
      <4> QED BY <1>2, <1>7, <3>2, <4>1, <4>2, <4>3
    <3> QED BY <2>1, <2>2, <3>1, <3>3, GivingUpKeepsBooks
  <2> QED BY <2>3, <2>4
<1>9. CASE StopDeadline
  <2>1. /\ worker'.pc = worker.pc /\ worker'.vec = worker.vec /\ worker'.why = worker.why
        /\ worker'.aborted
        /\ stop.pc = "joining" /\ stop'.pc = "counting" /\ ~stop'.complete
        /\ stop'.abandoned = stop.abandoned
        /\ UNCHANGED <<rt, queued, reader, watcher, store, env>>
    BY <1>2, <1>9 DEF StopDeadline, Workers, Stops
  <2>2. ~worker.aborted /\ ~Abandoned BY <1>3, <2>1 DEF Abandoned
  <2>3. Abandoned' BY <2>1 DEF Abandoned
  <2>4. StopOrderly' BY <1>3, <2>1, <2>3 DEF StopOrderly
  <2>5. Pending' = rt.depth + rt.inFlight BY <2>1 DEF Pending
  <2>6. Traced' = Traced BY <2>1 DEF Traced
  <2>7. ASSUME NoneFailed
        PROVE  rt.received + Unrecorded <= Traced' + env.lostGaps + Sent + Pending' + env.late
    <3>1. CASE worker.pc = "ended"
      <4>1. rt.received <= Traced + rt.depth + Sent BY <2>2, <2>7, <3>1 DEF StreamInv
      <4>2. Unrecorded = 0 BY <3>1 DEF Unrecorded
      <4> QED BY <1>2, <1>7, <2>5, <2>6, <4>1, <4>2
    <3>2. CASE worker.pc # "ended"
      <4>1. queued + Taken <= rt.depth + Sent /\ Processing <= rt.inFlight
        BY <2>2, <3>2 DEF StreamInv
      <4>2. rt.received + Unrecorded <= Traced + queued + Taken + Processing
        <5>1. CASE worker.pc = "direct"
          <6>1. rt.received <= Traced + queued BY <2>2, <2>7, <5>1 DEF StreamInv
          <6>2. Unrecorded = 0 BY <5>1 DEF Unrecorded
          <6> QED BY <1>2, <1>7, <6>1, <6>2
        <5>2. CASE worker.pc # "direct"
          <6>1. rt.received = Traced + queued + InWorker BY <2>2, <2>7, <3>2, <5>2 DEF StreamInv
          <6>2. InWorker + Unrecorded = Taken + Processing
            BY DEF InWorker, Unrecorded, Taken, Processing
          <6> QED BY <1>2, <1>7, <6>1, <6>2
        <5> QED BY <5>1, <5>2
      <4> QED BY <1>2, <1>7, <2>5, <2>6, <4>1, <4>2
    <3> QED BY <3>1, <3>2
  <2> QED BY <2>1, <2>3, <2>4, <2>7, GivingUpKeepsBooks
<1>10. CASE StopCounts \/ StopRecounts
  <2> DEFINE n == IF InHand(rt) > stop.abandoned THEN InHand(rt) ELSE stop.abandoned
  <2>1. /\ stop.pc \in {"counting", "recounting"}
        /\ stop'.pc = IF stop.pc = "counting" THEN "recounting" ELSE "reading"
        /\ stop'.complete = stop.complete /\ stop'.abandoned = n
        /\ rt' = [rt EXCEPT !.depth = 0, !.inFlight = 0]
        /\ UNCHANGED <<queued, reader, watcher, worker, store, env>>
    BY <1>2, <1>10 DEF StopCounts, StopRecounts, AbandonQueue, Stops
  <2>2. /\ rt'.depth = 0 /\ rt'.inFlight = 0 /\ rt'.received = rt.received
        /\ rt'.persisted = rt.persisted /\ rt'.failure = rt.failure /\ rt'.gaps = rt.gaps
    BY <1>2, <2>1, AbandonTakes
  <2>3. n \in Nat /\ rt.depth + rt.inFlight <= n /\ stop.abandoned <= n
    BY <1>2, <1>3 DEF InHand
  <2> HIDE DEF n
  <2>4. Abandoned /\ Abandoned' BY <1>3, <2>1 DEF StopOrderly, Abandoned
  <2>5. StopOrderly' BY <1>3, <2>1, <2>4 DEF StopOrderly
  <2>6. Pending' \in Nat /\ Pending <= Pending'
    BY <1>2, <1>3, <2>1, <2>2, <2>3 DEF Pending
  <2>7. Traced' = Traced BY <2>1, <2>2 DEF Traced
  <2>8. ASSUME NoneFailed
        PROVE  rt.received + Unrecorded <= Traced' + env.lostGaps + Sent + Pending' + env.late
    <3>1. rt.received + Unrecorded <= Traced + env.lostGaps + Sent + Pending + env.late
      BY <2>4, <2>8 DEF StreamInv
    <3> QED BY <1>2, <1>7, <2>6, <2>7, <3>1
  <2> QED BY <2>1, <2>2, <2>4, <2>5, <2>8, GivingUpKeepsBooks
<1>11. CASE StopDeclares
  <2> DEFINE gap == Gap("CaptureStopped", stop.abandoned)
  <2>1. /\ stop.pc = "declaring" /\ stop'.pc = "closing"
        /\ stop'.complete = stop.complete /\ stop'.abandoned = stop.abandoned
        /\ rt' = Push(rt, gap)
        /\ UNCHANGED <<queued, reader, watcher, worker, store, env>>
    BY <1>2, <1>11 DEF StopDeclares, Stops
  <2>2. gap \in Gaps /\ gap.frames = stop.abandoned BY <1>3, GapsAreGaps DEF Reasons
  <2> HIDE DEF gap
  <2>3. CountsAlike(rt, rt') /\ Missing(rt'.gaps) = Missing(rt.gaps) + stop.abandoned
    BY <1>2, <2>1, <2>2, PushCounts
  <2>4. Abandoned /\ Abandoned' BY <1>3, <2>1 DEF StopOrderly, Abandoned
  <2>5. StopOrderly' BY <1>3, <2>1, <2>4 DEF StopOrderly
  <2>6. Pending = stop.abandoned /\ Pending' = 0 BY <2>1 DEF Pending
  <2>7. Traced' = Traced + stop.abandoned
    <3>1. InReader' = InReader /\ InStore' = InStore /\ InReader \in Nat /\ InStore \in Nat
      BY <1>2, <2>1
    <3>2. InGaps' = InGaps + stop.abandoned /\ InGaps \in Nat BY <1>2, <1>3, <2>1, <2>3
    <3> HIDE DEF InReader, InStore, InGaps
    <3> QED BY <1>2, <1>3, <2>1, <3>1, <3>2 DEF Traced
  <2>8. ASSUME NoneFailed
        PROVE  rt.received + Unrecorded <= Traced' + env.lostGaps + Sent + Pending' + env.late
    <3>1. rt.received + Unrecorded <= Traced + env.lostGaps + Sent + Pending + env.late
      BY <2>4, <2>8 DEF StreamInv
    <3> QED BY <1>2, <1>3, <1>7, <2>6, <2>7, <3>1
  <2> QED BY <2>1, <2>3, <2>4, <2>5, <2>8, GivingUpKeepsBooks DEF CountsAlike
<1> QED BY <1>4, <1>5, <1>6, <1>8, <1>9, <1>10, <1>11 DEF StopStep
------------------------------------------------------------------------------
(* The theorems.                                                            *)

\* Nothing has come yet, and every count is zero.
LEMMA InitEstablishesStreamInv == StreamInit => StreamInv
<1> SUFFICES ASSUME StreamInit PROVE StreamInv OBVIOUS
<1>1. <<>> \in Seq(Gaps) /\ Len(<<>>) = 0 /\ Missing(<<>>) = 0 BY EmptyMissesNothing
<1>2. /\ 0 <= LedgerCapacity /\ 0 \in 0 .. QueueCapacity /\ NoFailure \notin Stages
  BY CaptureAssumption, FailureAssumption
<1>3. rt \in Runtimes
  <2>1. rt \in Counts BY <1>1 DEF StreamInit, Counts, States
  <2> QED BY <1>1, <1>2, <2>1 DEF StreamInit, Runtimes
<1>4. StreamTyped
  <2>1. gate \in Gates BY DEF StreamInit, Gates
  <2>2. reader \in Readers BY DEF StreamInit, Readers, ReaderStates, Failures
  <2>3. watcher \in Watchers BY DEF StreamInit, Watchers, Failures
  <2>4. worker \in Workers BY <1>1 DEF StreamInit, Workers, WorkerStates, Failures
  <2>5. stop \in Stops BY DEF StreamInit, Stops, StopStates
  <2>6. store \in Stores /\ env \in Bounds BY DEF StreamInit, Stores, Bounds
  <2>7. queued \in 0 .. QueueCapacity BY <1>2 DEF StreamInit
  <2> QED BY <1>3, <2>1, <2>2, <2>3, <2>4, <2>5, <2>6, <2>7 DEF StreamTyped
<1>5. StreamOrderly BY DEF StreamInit, StreamOrderly, StopOrderly, Abandoned
<1>6. /\ InReader = 0 /\ InStore = 0 /\ InGaps = 0 /\ InWorker = 0 /\ env.untraced = 0
      /\ Taken = 0 /\ Processing = 0 /\ Unrecorded = 0 /\ Sent = 0 /\ queued = 0
      /\ rt.received = 0 /\ rt.depth = 0 /\ rt.inFlight = 0 /\ rt.persisted = 0
      /\ store.frames = 0 /\ env.lostGaps = 0 /\ env.late = 0
  BY <1>1 DEF StreamInit, InReader, InStore, InGaps, InWorker, Taken, Processing, Unrecorded, Sent
<1>7. Traced = 0 BY <1>6 DEF Traced
<1>8. worker.pc = "receiving" /\ stop.pc = "starting" /\ ~Abandoned BY DEF StreamInit, Abandoned
<1>9. /\ QueueIsCounted /\ FramesAreSomewhere /\ EndTakesOnlyQueued /\ AbandonedAreTraced
      /\ RejectedIsTraced /\ StoredAreRecorded
  BY <1>6, <1>7, <1>8
     DEF QueueIsCounted, FramesAreSomewhere, EndTakesOnlyQueued, AbandonedAreTraced,
         RejectedIsTraced, StoredAreRecorded
<1> QED BY <1>4, <1>5, <1>9 DEF StreamInv

\* One case per task: it keeps its types and the books.
LEMMA StepKeepsStreamInv == StreamInv /\ [StreamNext]_streamVars => StreamInv'
<1> SUFFICES ASSUME StreamInv, [StreamNext]_streamVars PROVE StreamInv' OBVIOUS
<1>1. StreamTyped /\ StreamOrderly BY DEF StreamInv
<1>2. CASE StreamNext
  <2>1. StreamTyped' BY <1>1, <1>2, RuntimeIsTyped, TasksAreTyped, WorkIsTyped DEF StreamTyped
  <2>2. StreamOrderly' /\ Books'
    <3>1. CASE ReaderStep BY <3>1, ReaderKeepsBooks
    <3>2. CASE WatcherStep BY <3>2, WatcherKeepsBooks
    <3>3. CASE WorkerStep BY <3>3, WorkerKeepsBooks
    <3>4. CASE \/ StartAnswered \/ StartFails \/ Suspend \/ SuspendShows \/ ReadersAborted
               \/ FenceMoves \/ StatusRead \/ StopStep
      BY <3>4, OthersKeepBooks
    <3> QED BY <1>2, <3>1, <3>2, <3>3, <3>4 DEF StreamNext
  <2> QED BY <2>1, <2>2 DEF StreamInv, Books
<1>3. CASE UNCHANGED streamVars
  BY <1>3
     DEF streamVars, StreamInv, StreamTyped, StreamOrderly, StopOrderly, Abandoned, Pending,
         QueueIsCounted, FramesAreSomewhere, EndTakesOnlyQueued, AbandonedAreTraced,
         RejectedIsTraced,
         StoredAreRecorded, NoneFailed, Taken, Processing, Unrecorded, Sent, Traced, InReader,
         InWorker, InStore, InGaps
<1> QED BY <1>2, <1>3

(* The types, the places of the tasks and the books of the frames, together. *)
THEOREM StreamInvHolds == StreamSpec => []StreamInv
<1> QED BY InitEstablishesStreamInv, StepKeepsStreamInv, PTL DEF StreamSpec

(* RuntimeState of capture/pipeline.rs keeps a state the state machine      *)
(* knows, counters that never go below zero and a gap ledger within its     *)
(* capacity, and the channel holds at most queue_capacity frames.           *)
THEOREM StreamIsTyped == StreamSpec => []StreamTypeOK
<1>1. StreamInv => StreamTypeOK
  <2> SUFFICES ASSUME StreamInv PROVE StreamTypeOK OBVIOUS
  <2>1. /\ rt \in Runtimes /\ gate \in Gates /\ queued \in 0 .. QueueCapacity
        /\ store \in Stores
    BY DEF StreamInv, StreamTyped
  <2>2. rt \in Counts /\ Len(rt.gaps) <= LedgerCapacity BY <2>1 DEF Runtimes
  <2> QED BY <2>1, <2>2 DEF StreamTypeOK, Counts, States, Gates, Stores
<1> QED BY <1>1, StreamInvHolds, PTL

(* Whatever the readers, the worker, the start and the stop interleave,     *)
(* while no stage has failed and the worker runs, record_ack, handoff,      *)
(* begin_processing, persist_pending_gaps and the merges of GapLedger::push *)
(* neither lose a frame nor count one twice.                                *)
THEOREM FramesAreAccountedFor == StreamSpec => []EveryFrameIsAccountedFor
<1>1. StreamInv => EveryFrameIsAccountedFor
  <2> SUFFICES ASSUME StreamInv, Unfailed, ~worker.aborted, worker.pc # "ended"
               PROVE  rt.received = Accounted
    BY DEF EveryFrameIsAccountedFor
  <2>1. rt.received = Traced + queued + InWorker
    BY DEF StreamInv, FramesAreSomewhere, NoneFailed, Unfailed
  <2>2. /\ queued \in Nat /\ env.untraced \in Nat /\ store.frames \in Nat /\ store.missing \in Nat
        /\ Missing(rt.gaps) \in Nat /\ Missing(worker.vec) \in Nat
    BY TypedParts DEF StreamInv
  <2>3. InReader \in Nat /\ InWorker \in Nat /\ InStore \in Nat /\ InGaps \in Nat
    BY <2>2 DEF InReader, InWorker, InStore, InGaps
  <2> QED BY <2>1, <2>2, <2>3 DEF Traced, Accounted
<1> QED BY <1>1, StreamInvHolds, PTL

(* stop_target joins the worker before it reports a complete stop: on a     *)
(* stream that never failed no accepted frame went with the closed channel, *)
(* and what was dropped is named by a gap.                                  *)
THEOREM CompleteStopsKeepFrames == StreamSpec => []CompleteStopKeepsEveryFrame
<1>1. StreamInv => CompleteStopKeepsEveryFrame
  <2> SUFFICES ASSUME StreamInv, Unfailed, stop.pc = "done", stop.complete,
                      reader.pc # "sent", rt.depth = 0
               PROVE  /\ rt.persisted = store.frames
                      /\ rt.received = InReader + InStore + InGaps + env.untraced
    BY DEF CompleteStopKeepsEveryFrame
  <2>1. worker.pc = "ended" /\ ~Abandoned /\ ~worker.aborted
    BY DEF StreamInv, StreamOrderly, StopOrderly, Abandoned
  <2>2. /\ env.untraced \in Nat /\ store.frames \in Nat /\ store.missing \in Nat
        /\ rt.received \in Nat /\ rt.persisted \in Nat
        /\ Missing(rt.gaps) \in Nat /\ Missing(worker.vec) \in Nat
    BY TypedParts DEF StreamInv
  <2>3. InReader \in Nat /\ InStore \in Nat /\ InGaps \in Nat
    BY <2>2 DEF InReader, InStore, InGaps
  <2>4. Sent = 0 /\ Unrecorded = 0 BY <2>1 DEF Sent, Unrecorded
  <2>5. Traced <= rt.received /\ rt.received <= Traced + rt.depth + Sent
    BY <2>1 DEF StreamInv, EndTakesOnlyQueued, NoneFailed, Unfailed
  <2>6. store.frames = rt.persisted + Unrecorded BY <2>1 DEF StreamInv, StoredAreRecorded
  <2>7. Traced = InReader + InStore + InGaps + env.untraced BY DEF Traced
  <2>8. Traced \in Nat BY <2>2, <2>3, <2>7
  <2>9. rt.received = Traced BY <2>2, <2>4, <2>5, <2>8
  <2> QED BY <2>2, <2>4, <2>6, <2>7, <2>9
<1> QED BY <1>1, StreamInvHolds, PTL

(* A stop whose browser or worker does not answer counts, with two calls of *)
(* abandon_queue, the depth and the frame in flight, and declares a gap of  *)
(* as many frames in the in-memory ledger. Whatever the worker and the      *)
(* reader do in between, the frames that no gap counts are at most those    *)
(* that gaps in an aborted worker's hands counted, and those whose          *)
(* acceptance was recorded too late for the counts.                         *)
THEOREM DeadlineStopsCountFrames == StreamSpec => []AbandonedFramesAreCounted
<1>1. StreamInv => AbandonedFramesAreCounted
  <2> SUFFICES ASSUME StreamInv, Unfailed, stop.pc = "done", ~stop.complete, reader.pc # "sent"
               PROVE  rt.received <= InReader + InStore + InGaps + env.untraced + env.lostGaps
                                       + env.late
    BY DEF AbandonedFramesAreCounted
  <2>1. /\ env.untraced \in Nat /\ env.lostGaps \in Nat /\ env.late \in Nat
        /\ store.frames \in Nat /\ store.missing \in Nat /\ rt.received \in Nat
        /\ Missing(rt.gaps) \in Nat /\ Missing(worker.vec) \in Nat
    BY TypedParts DEF StreamInv
  <2>2. InReader \in Nat /\ InStore \in Nat /\ InGaps \in Nat
    BY <2>1 DEF InReader, InStore, InGaps
  <2>3. rt.received + Unrecorded <= Traced + env.lostGaps + Sent + Pending + env.late
    BY DEF StreamInv, AbandonedAreTraced, NoneFailed, Unfailed, Abandoned
  <2>4. Sent = 0 /\ Unrecorded \in Nat /\ Pending = 0 BY DEF Sent, Unrecorded, Pending
  <2>5. Traced = InReader + InStore + InGaps + env.untraced BY DEF Traced
  <2> QED BY <2>1, <2>2, <2>3, <2>4, <2>5
<1> QED BY <1>1, StreamInvHolds, PTL
=============================================================================
