---------------------------- MODULE SharingProofs ----------------------------
(* Two ways of sharing that share no state. Session events (SubscriberFanout): *)
(* no revision vanishes, gaps are reported next and the end comes last, for    *)
(* any number of subscribers, any capacity and any number of revisions.        *)
(* Flights (ArtifactFlights): sharing a flight is invisible, for any requests, *)
(* outputs and limits, and any interruptions and failures.                     *)
EXTENDS SubscriberFanout, ArtifactFlights, FiniteSetTheorems, SequenceTheorems,
        WellFoundedInduction, TLAPS

------------------------------------------------------------------------------
(* SubscriberFanout: the delivery of session events.                        *)

ReaderStates == {"absent", "idle", "receiving", "received", "done", "dropped"}

SubRecords == [queue : Seq(Nat), lag : Nat \X Nat, last : Nat, end : Nat, sender : BOOLEAN,
               pc : ReaderStates, item : Nat]
ToldRecords == [after : Nat, delivered : SUBSET Nat, reported : SUBSET Nat, ended : Nat]
Registries == [revision : Nat, terminal : BOOLEAN, members : SUBSET Subscribers,
               doing : {"nothing", "sending", "marking", "lagging", "storing", "clearing"},
               todo : SUBSET Subscribers, busy : SUBSET Subscribers,
                    closed : SUBSET Subscribers]
Views == [revision : Nat, terminal : BOOLEAN, ending : BOOLEAN, member : BOOLEAN, awaits : BOOLEAN]
Seens == [told : [Subscribers -> ToldRecords], gaveUp : Nat]

\* The publication under way is a sequence of visits, and the last one closes the registry.
PublicationIsOrderly ==
    /\ registry.doing \in {"nothing", "sending", "storing", "clearing"} => registry.busy = {}
    /\ registry.doing = "nothing" => registry.todo = {} /\ registry.closed = {}
    /\ \A s, o \in registry.busy : s = o
    /\ registry.busy \subseteq registry.todo /\ registry.todo \subseteq registry.members
    /\ registry.doing = "clearing" => registry.terminal
    /\ registry.terminal => registry.doing \in {"nothing", "clearing"}
    /\ \A s \in registry.closed : sub[s].pc = "dropped"

\* What a subscriber depends on of the registry.
Awaits(s) ==
    /\ s \in registry.todo /\ registry.doing # "clearing"
    /\ ~(s \in registry.busy /\ registry.doing = "marking")

View(s) == [revision |-> registry.revision, terminal |-> registry.terminal,
            ending |-> registry.terminal \/ registry.doing = "storing",
            member |-> s \in registry.members, awaits |-> Awaits(s)]

Reads(r) == r.pc \notin {"absent", "dropped"}

\* Who subscribes, and who is told of the end.
Enrolled(v, r, t) ==
    /\ r.pc = "absent" => /\ r.queue = <<>> /\ r.lag = NoLag /\ r.end = NoEnd /\ ~v.member
                          /\ t.delivered = {} /\ t.ended = 0
    /\ Reads(r) /\ ~v.terminal => v.member /\ r.sender
    /\ r.pc # "received" => r.item = 0
    /\ r.end # NoEnd => v.ending
    /\ t.ended > 0 => /\ v.terminal /\ ~r.sender /\ r.queue = <<>> /\ r.end = NoEnd
                      /\ r.pc \notin {"absent", "received"}

\* Nothing is newer than the revision, and what awaits it has only older ones.
Dated(v, r, t) ==
    /\ r.last <= v.revision /\ r.item <= v.revision /\ r.end <= v.revision
    /\ t.after <= v.revision
    /\ r.lag[2] <= v.revision /\ r.lag[1] <= r.lag[2]
    /\ \A i \in 1 .. Len(r.queue) : r.queue[i] <= v.revision
    /\ \A d \in t.delivered : d <= v.revision
    /\ v.awaits =>
          /\ r.last < v.revision /\ r.item < v.revision /\ r.end = NoEnd /\ ~v.terminal
          /\ r.lag[2] < v.revision
          /\ \A i \in 1 .. Len(r.queue) : r.queue[i] < v.revision
          /\ \A d \in t.delivered : d < v.revision

\* Revisions are delivered in their order.
Sorted(r, t) ==
    /\ \A i, j \in 1 .. Len(r.queue) : i < j => r.queue[i] < r.queue[j]
    /\ \A i \in 1 .. Len(r.queue) : /\ r.pc = "received" => r.item < r.queue[i]
                                    /\ \A d \in t.delivered : d < r.queue[i]
                                    /\ r.end # NoEnd => r.queue[i] < r.end
    /\ r.pc = "received" => \A d \in t.delivered : d < r.item
    /\ r.end # NoEnd => r.item < r.end /\ \A d \in t.delivered : d < r.end

Queued(r) == {r.queue[i] : i \in 1 .. Len(r.queue)}

Known(r, t) ==
    t.delivered \union t.reported \union Queued(r) \union {r.item, r.end}
      \union (r.lag[1] .. r.lag[2])

Accounted(v, r, t) ==
    Reads(r) => \A q \in t.after + 1 .. v.revision :
                    q \in Known(r, t) \/ (v.awaits /\ q = v.revision)

\* A reader that has a lag to take first may have passed it by one revision; any other one has
\* passed nothing by.
Untold(v, t) == (t.after + 1 .. v.revision) \ (t.delivered \union t.reported)

GapsFirst(v, r, t) ==
    /\ Reads(r) /\ ~(r.pc = "idle" /\ r.lag # NoLag) =>
          \A q \in Untold(v, t), d \in t.delivered : d < q
    /\ \E m \in Nat : \A q \in Untold(v, t), d \in t.delivered : d > q => d = m

Fits(v, r, t) ==
    /\ Enrolled(v, r, t) /\ Dated(v, r, t) /\ Sorted(r, t) /\ Accounted(v, r, t)
    /\ GapsFirst(v, r, t)

FanoutTyped ==
    registry \in Registries /\ sub \in [Subscribers -> SubRecords] /\ seen \in Seens

Traceable ==
    /\ FanoutTyped /\ PublicationIsOrderly
    /\ \A s \in Subscribers : Fits(View(s), sub[s], seen.told[s])
-------------------------------------------------------------------------------
\* What a queue holds after try_send and after recv.
LEMMA AppendedQueue ==
    ASSUME NEW q \in Seq(Nat), NEW x \in Nat
    PROVE  /\ Append(q, x) \in Seq(Nat) /\ Len(Append(q, x)) = Len(q) + 1
           /\ \A i \in 1 .. Len(q) : Append(q, x)[i] = q[i]
           /\ Append(q, x)[Len(q) + 1] = x
  OBVIOUS

LEMMA TakenQueue ==
    ASSUME NEW q \in Seq(Nat), q # <<>>
    PROVE  /\ Tail(q) \in Seq(Nat) /\ Len(Tail(q)) = Len(q) - 1 /\ Len(q) \in Nat \ {0}
           /\ \A i \in 1 .. Len(Tail(q)) : Tail(q)[i] = q[i + 1]
           /\ Head(q) = q[1] /\ Head(q) \in Nat
  OBVIOUS

\* A reader that has no lag to take has passed nothing by.
LEMMA NothingPassedBy ==
    ASSUME NEW v \in Views, NEW r \in SubRecords, NEW t \in ToldRecords,
           Dated(v, r, t), Sorted(r, t), Accounted(v, r, t), Reads(r), r.lag = NoLag,
           r.pc # "received" => r.item = 0
    PROVE  \A q \in Untold(v, t), d \in t.delivered : d < q
<1>1. SUFFICES ASSUME NEW q \in Untold(v, t), NEW d \in t.delivered PROVE d < q
  OBVIOUS
<1>2. q \in Nat \ {0} /\ d \in Nat BY DEF Untold, ToldRecords
<1>3. q \in Queued(r) \/ q \in {r.item, r.end} \/ (v.awaits /\ q = v.revision)
  <2>1. q \in Known(r, t) \/ (v.awaits /\ q = v.revision) BY DEF Accounted, Untold
  <2>2. q \notin r.lag[1] .. r.lag[2] BY <1>2 DEF NoLag
  <2> QED BY <2>1, <2>2 DEF Known, Untold
<1>4. CASE q \in Queued(r) BY <1>4 DEF Queued, Sorted
<1>5. CASE q = r.item BY <1>2, <1>5 DEF Sorted
<1>6. CASE q = r.end BY <1>2, <1>6 DEF Sorted, NoEnd
<1>7. CASE v.awaits /\ q = v.revision BY <1>7 DEF Dated
<1> QED BY <1>3, <1>4, <1>5, <1>6, <1>7

\* What a step of the reader does to its own subscription.
LEMMA WaitsForAnEvent ==
    ASSUME NEW v \in Views, NEW r \in SubRecords, NEW t \in ToldRecords, Fits(v, r, t),
           r.pc = "idle", r.lag = NoLag
    PROVE  /\ [r EXCEPT !.pc = "receiving"] \in SubRecords
           /\ Fits(v, [r EXCEPT !.pc = "receiving"], t)
<1> DEFINE n == [r EXCEPT !.pc = "receiving"]
<1>1. /\ Enrolled(v, r, t) /\ Dated(v, r, t) /\ Sorted(r, t) /\ Accounted(v, r, t)
      /\ GapsFirst(v, r, t)
  BY DEF Fits
<1>2. /\ n \in SubRecords
      /\ n.queue = r.queue /\ n.lag = r.lag /\ n.last = r.last /\ n.end = r.end
      /\ n.sender = r.sender /\ n.pc = "receiving" /\ n.item = r.item
  BY DEF SubRecords, ReaderStates
<1> HIDE DEF n
<1>3. Enrolled(v, n, t)
  BY <1>1, <1>2 DEF Enrolled, Reads
<1>4. Dated(v, n, t)
  BY <1>1, <1>2 DEF Dated
<1>5. Sorted(n, t)
  BY <1>1, <1>2 DEF Sorted
<1>6. Accounted(v, n, t)
  BY <1>1, <1>2 DEF Accounted, Known, Queued, Reads
<1>7. GapsFirst(v, n, t)
  BY <1>1 DEF GapsFirst, Reads
<1> QED BY <1>2, <1>3, <1>4, <1>5, <1>6, <1>7 DEF Fits, n

LEMMA TakesALag ==
    ASSUME NEW v \in Views, NEW r \in SubRecords, NEW t \in ToldRecords, Fits(v, r, t),
           r.pc = "idle", r.lag # NoLag
    PROVE  /\ [r EXCEPT !.lag = NoLag] \in SubRecords
           /\ [t EXCEPT !.reported = t.reported \union (r.lag[1] .. r.lag[2])] \in ToldRecords
           /\ Fits(v, [r EXCEPT !.lag = NoLag],
                [t EXCEPT !.reported = t.reported \union (r.lag[1] .. r.lag[2])])
<1> DEFINE n == [r EXCEPT !.lag = NoLag]
            u == [t EXCEPT !.reported = t.reported \union (r.lag[1] .. r.lag[2])]
<1>1. /\ Enrolled(v, r, t) /\ Dated(v, r, t) /\ Sorted(r, t) /\ Accounted(v, r, t)
      /\ GapsFirst(v, r, t)
  BY DEF Fits
<1>2. /\ n \in SubRecords /\ u \in ToldRecords
      /\ n.queue = r.queue /\ n.lag = NoLag /\ n.last = r.last /\ n.end = r.end
      /\ n.sender = r.sender /\ n.pc = r.pc /\ n.item = r.item
      /\ u.after = t.after /\ u.delivered = t.delivered
      /\ u.reported = t.reported \union (r.lag[1] .. r.lag[2]) /\ u.ended = t.ended
  <2>1. r.lag[1] .. r.lag[2] \subseteq Nat BY DEF SubRecords
  <2>2. t.reported \union (r.lag[1] .. r.lag[2]) \in SUBSET Nat BY <2>1 DEF ToldRecords
  <2>3. NoLag \in Nat \X Nat BY DEF NoLag
  <2> QED BY <2>2, <2>3 DEF SubRecords, ToldRecords
<1> HIDE DEF n, u
<1>3. Enrolled(v, n, u)
  BY <1>1, <1>2 DEF Enrolled, Reads
<1>4. Dated(v, n, u)
  BY <1>1, <1>2 DEF Dated, Enrolled, NoLag
<1>5. Sorted(n, u)
  BY <1>1, <1>2 DEF Sorted
<1>6. Accounted(v, n, u)
  BY <1>1, <1>2 DEF Accounted, Known, Queued, Reads
<1>7. GapsFirst(v, n, u)
  <2>1. \A q \in Untold(v, u), d \in u.delivered :
           Reads(n) /\ ~(n.pc = "idle" /\ n.lag # NoLag) => d < q
    BY <1>1, <1>2, <1>4, <1>5, <1>6, NothingPassedBy DEF Enrolled
  <2>2. Untold(v, u) \subseteq Untold(v, t) BY <1>2 DEF Untold
  <2> QED BY <1>1, <1>2, <2>1, <2>2 DEF GapsFirst
<1> QED BY <1>2, <1>3, <1>4, <1>5, <1>6, <1>7 DEF Fits, n, u

LEMMA TakesAnEvent ==
    ASSUME NEW v \in Views, NEW r \in SubRecords, NEW t \in ToldRecords, Fits(v, r, t),
           r.pc = "receiving", r.queue # <<>>
    PROVE  /\ [r EXCEPT !.queue = Tail(r.queue), !.pc = "received",
                !.item = Head(r.queue)] \in SubRecords
           /\ Fits(v, [r EXCEPT !.queue = Tail(r.queue), !.pc = "received",
                !.item = Head(r.queue)], t)
<1> DEFINE n == [r EXCEPT !.queue = Tail(r.queue), !.pc = "received", !.item = Head(r.queue)]
<1>1. /\ Enrolled(v, r, t) /\ Dated(v, r, t) /\ Sorted(r, t) /\ Accounted(v, r, t)
      /\ GapsFirst(v, r, t)
  BY DEF Fits
<1>2. /\ n \in SubRecords
      /\ n.queue = Tail(r.queue) /\ n.lag = r.lag /\ n.last = r.last /\ n.end = r.end
      /\ n.sender = r.sender /\ n.pc = "received" /\ n.item = Head(r.queue)
  <2>1. Tail(r.queue) \in Seq(Nat) /\ Head(r.queue) \in Nat BY TakenQueue DEF SubRecords
  <2> QED BY <2>1 DEF SubRecords, ReaderStates
<1>3. /\ Len(r.queue) \in Nat \ {0} /\ Len(n.queue) = Len(r.queue) - 1 /\ n.item = r.queue[1]
      /\ \A i \in 1 .. Len(n.queue) : n.queue[i] = r.queue[i + 1]
      /\ \A i \in 1 .. Len(r.queue) : r.queue[i] \in Nat
      /\ Queued(r) = Queued(n) \union {n.item}
  <2>1. /\ Len(r.queue) \in Nat \ {0} /\ Len(n.queue) = Len(r.queue) - 1
        /\ n.item = r.queue[1]
        /\ \A i \in 1 .. Len(n.queue) : n.queue[i] = r.queue[i + 1]
        /\ \A i \in 1 .. Len(r.queue) : r.queue[i] \in Nat
    BY TakenQueue DEF SubRecords
  <2>2. \A i \in 1 .. Len(r.queue) :
           i = 1 \/ (i - 1 \in 1 .. Len(n.queue) /\ r.queue[i] = n.queue[i - 1])
    BY <2>1
  <2>3. \A i \in 1 .. Len(n.queue) : i + 1 \in 1 .. Len(r.queue) BY <2>1
  <2>5. Queued(r) \subseteq Queued(n) \union {n.item} BY <2>2 DEF Queued
  <2>6. Queued(n) \union {n.item} \subseteq Queued(r) BY <2>3 DEF Queued
  <2> QED BY <2>1, <2>5, <2>6
<1> HIDE DEF n
<1>4. Enrolled(v, n, t)
  BY <1>1, <1>2 DEF Enrolled, Reads
<1>5. Dated(v, n, t)
  BY <1>1, <1>2 DEF Dated, Enrolled, Reads, NoEnd, Views, ToldRecords
<1>6. Sorted(n, t)
  <2>1. \A i \in 1 .. Len(n.queue) : i + 1 \in 1 .. Len(r.queue) BY <1>3
  <2>3. \A i, j \in 1 .. Len(n.queue) : i < j => n.queue[i] < n.queue[j]
    BY <1>1, <1>3 DEF Sorted
  <2> QED BY <1>1, <1>2, <2>1, <2>3 DEF Sorted
<1>7. Accounted(v, n, t)
  <2>1. Known(r, t) \ {0} \subseteq Known(n, t) BY <1>1, <1>2, <1>3 DEF Known, Enrolled
  <2>2. \A q \in t.after + 1 .. v.revision : q # 0 BY DEF ToldRecords, Views
  <2> QED BY <1>1, <2>1, <2>2 DEF Accounted, Reads
<1>8. GapsFirst(v, n, t)
  BY <1>1 DEF GapsFirst, Reads
<1> QED BY <1>2, <1>4, <1>5, <1>6, <1>7, <1>8 DEF Fits, n

LEMMA MarksARevision ==
    ASSUME NEW v \in Views, NEW r \in SubRecords, NEW t \in ToldRecords, Fits(v, r, t),
           r.pc = "received"
    PROVE  /\ [r EXCEPT !.last = r.item, !.pc = "idle", !.item = 0] \in SubRecords
           /\ [t EXCEPT !.delivered = t.delivered \union {r.item}] \in ToldRecords
           /\ Fits(v, [r EXCEPT !.last = r.item, !.pc = "idle", !.item = 0],
                [t EXCEPT !.delivered = t.delivered \union {r.item}])
<1> DEFINE n == [r EXCEPT !.last = r.item, !.pc = "idle", !.item = 0]
            u == [t EXCEPT !.delivered = t.delivered \union {r.item}]
<1>1. /\ Enrolled(v, r, t) /\ Dated(v, r, t) /\ Sorted(r, t) /\ Accounted(v, r, t)
      /\ GapsFirst(v, r, t)
  BY DEF Fits
<1>2. /\ n \in SubRecords /\ u \in ToldRecords
      /\ n.queue = r.queue /\ n.lag = r.lag /\ n.last = r.item /\ n.end = r.end
      /\ n.sender = r.sender /\ n.pc = "idle" /\ n.item = 0
      /\ u.after = t.after /\ u.delivered = t.delivered \union {r.item}
      /\ u.reported = t.reported /\ u.ended = t.ended
  BY DEF SubRecords, ToldRecords, ReaderStates
<1> HIDE DEF n, u
<1>3. Enrolled(v, n, u)
  BY <1>1, <1>2 DEF Enrolled, Reads
<1>4. Dated(v, n, u)
  BY <1>1, <1>2 DEF Dated, Views, SubRecords, ToldRecords
<1>5. Sorted(n, u)
  BY <1>1, <1>2 DEF Sorted, SubRecords
<1>6. Accounted(v, n, u)
  BY <1>1, <1>2 DEF Accounted, Known, Queued, Reads
<1>7. GapsFirst(v, n, u)
  <2>1. \A q \in Untold(v, u), d \in u.delivered :
           Reads(n) /\ ~(n.pc = "idle" /\ n.lag # NoLag) => d < q
    BY <1>2, <1>4, <1>5, <1>6, NothingPassedBy
  <2>2. Untold(v, u) \subseteq Untold(v, t) BY <1>2 DEF Untold
  <2>3. \A q \in Untold(v, t), d \in t.delivered : d < q BY <1>1 DEF GapsFirst, Reads
  <2>4. \A q \in Untold(v, u), d \in u.delivered : d > q => d = r.item
    <3>1. SUFFICES ASSUME NEW q \in Untold(v, u), NEW d \in u.delivered,
                 d > q PROVE d = r.item
      OBVIOUS
    <3>2. q \in Nat /\ d \in Nat BY <1>2 DEF Untold, ToldRecords
    <3> QED BY <1>2, <2>2, <2>3, <3>1, <3>2
  <2>5. r.item \in Nat BY DEF SubRecords
  <2> QED BY <2>1, <2>4, <2>5 DEF GapsFirst
<1> QED BY <1>2, <1>3, <1>4, <1>5, <1>6, <1>7 DEF Fits, n, u

LEMMA FindsNoEnd ==
    ASSUME NEW v \in Views, NEW r \in SubRecords, NEW t \in ToldRecords, Fits(v, r, t),
           r.pc = "receiving"
    PROVE  /\ [r EXCEPT !.pc = "done"] \in SubRecords
           /\ Fits(v, [r EXCEPT !.pc = "done"], t)
<1> DEFINE n == [r EXCEPT !.pc = "done"]
<1>1. /\ Enrolled(v, r, t) /\ Dated(v, r, t) /\ Sorted(r, t) /\ Accounted(v, r, t)
      /\ GapsFirst(v, r, t)
  BY DEF Fits
<1>2. /\ n \in SubRecords
      /\ n.queue = r.queue /\ n.lag = r.lag /\ n.last = r.last /\ n.end = r.end
      /\ n.sender = r.sender /\ n.pc = "done" /\ n.item = r.item
  BY DEF SubRecords, ReaderStates
<1> HIDE DEF n
<1>3. Enrolled(v, n, t)
  BY <1>1, <1>2 DEF Enrolled, Reads
<1>4. Dated(v, n, t)
  BY <1>1, <1>2 DEF Dated
<1>5. Sorted(n, t)
  BY <1>1, <1>2 DEF Sorted
<1>6. Accounted(v, n, t)
  BY <1>1, <1>2 DEF Accounted, Known, Queued, Reads
<1>7. GapsFirst(v, n, t)
  BY <1>1 DEF GapsFirst, Reads
<1> QED BY <1>2, <1>3, <1>4, <1>5, <1>6, <1>7 DEF Fits, n

LEMMA TakesTheEnd ==
    ASSUME NEW v \in Views, NEW r \in SubRecords, NEW t \in ToldRecords, Fits(v, r, t),
           r.pc = "receiving", r.queue = <<>>, ~r.sender, r.end # NoEnd
    PROVE  /\ [r EXCEPT !.end = NoEnd, !.last = r.end, !.pc = "idle"] \in SubRecords
           /\ [t EXCEPT !.delivered = t.delivered \union {r.end},
                !.ended = t.ended + 1] \in ToldRecords
           /\ Fits(v, [r EXCEPT !.end = NoEnd, !.last = r.end, !.pc = "idle"],
                [t EXCEPT !.delivered = t.delivered \union {r.end}, !.ended = t.ended + 1])
<1> DEFINE n == [r EXCEPT !.end = NoEnd, !.last = r.end, !.pc = "idle"]
            u == [t EXCEPT !.delivered = t.delivered \union {r.end}, !.ended = t.ended + 1]
<1>1. /\ Enrolled(v, r, t) /\ Dated(v, r, t) /\ Sorted(r, t) /\ Accounted(v, r, t)
      /\ GapsFirst(v, r, t)
  BY DEF Fits
<1>2. /\ n \in SubRecords /\ u \in ToldRecords
      /\ n.queue = r.queue /\ n.lag = r.lag /\ n.last = r.end /\ n.end = NoEnd
      /\ n.sender = r.sender /\ n.pc = "idle" /\ n.item = r.item
      /\ u.after = t.after /\ u.delivered = t.delivered \union {r.end}
      /\ u.reported = t.reported /\ u.ended = t.ended + 1
  <2>1. t.delivered \union {r.end} \in SUBSET Nat /\ t.ended + 1 \in Nat /\ NoEnd \in Nat
    BY DEF SubRecords, ToldRecords, NoEnd
  <2> QED BY <2>1 DEF SubRecords, ToldRecords, ReaderStates
<1> HIDE DEF n, u
<1>3. Enrolled(v, n, u)
  BY <1>1, <1>2 DEF Enrolled, Reads
<1>4. Dated(v, n, u)
  BY <1>1, <1>2 DEF Dated, Enrolled, NoEnd
<1>5. Sorted(n, u)
  BY <1>2 DEF Sorted
<1>6. Accounted(v, n, u)
  BY <1>1, <1>2 DEF Accounted, Known, Queued, Reads
<1>7. GapsFirst(v, n, u)
  <2>1. \A q \in Untold(v, u), d \in u.delivered :
           Reads(n) /\ ~(n.pc = "idle" /\ n.lag # NoLag) => d < q
    BY <1>1, <1>2, <1>4, <1>5, <1>6, NothingPassedBy DEF Enrolled
  <2>2. Untold(v, u) \subseteq Untold(v, t) BY <1>2 DEF Untold
  <2>3. \A q \in Untold(v, t), d \in t.delivered : d < q BY <1>1 DEF GapsFirst, Reads
  <2>4. \A q \in Untold(v, u), d \in u.delivered : d > q => d = r.end
    <3>1. SUFFICES ASSUME NEW q \in Untold(v, u), NEW d \in u.delivered, d > q PROVE d = r.end
      OBVIOUS
    <3>2. q \in Nat /\ d \in Nat BY <1>2 DEF Untold, ToldRecords
    <3> QED BY <1>2, <2>2, <2>3, <3>1, <3>2
  <2>5. r.end \in Nat BY DEF SubRecords
  <2> QED BY <2>1, <2>4, <2>5 DEF GapsFirst
<1> QED BY <1>2, <1>3, <1>4, <1>5, <1>6, <1>7 DEF Fits, n, u

LEMMA StopsWaiting ==
    ASSUME NEW v \in Views, NEW r \in SubRecords, NEW t \in ToldRecords, Fits(v, r, t),
           r.pc = "receiving"
    PROVE  /\ [r EXCEPT !.pc = "idle"] \in SubRecords
           /\ Fits(v, [r EXCEPT !.pc = "idle"], t)
<1> DEFINE n == [r EXCEPT !.pc = "idle"]
<1>1. /\ Enrolled(v, r, t) /\ Dated(v, r, t) /\ Sorted(r, t) /\ Accounted(v, r, t)
      /\ GapsFirst(v, r, t)
  BY DEF Fits
<1>2. /\ n \in SubRecords
      /\ n.queue = r.queue /\ n.lag = r.lag /\ n.last = r.last /\ n.end = r.end
      /\ n.sender = r.sender /\ n.pc = "idle" /\ n.item = r.item
  BY DEF SubRecords, ReaderStates
<1> HIDE DEF n
<1>3. Enrolled(v, n, t)
  BY <1>1, <1>2 DEF Enrolled, Reads
<1>4. Dated(v, n, t)
  BY <1>1, <1>2 DEF Dated
<1>5. Sorted(n, t)
  BY <1>1, <1>2 DEF Sorted
<1>6. Accounted(v, n, t)
  BY <1>1, <1>2 DEF Accounted, Known, Queued, Reads
<1>7. GapsFirst(v, n, t)
  BY <1>1 DEF GapsFirst, Reads
<1> QED BY <1>2, <1>3, <1>4, <1>5, <1>6, <1>7 DEF Fits, n

LEMMA DropsTheStream ==
    ASSUME NEW v \in Views, NEW r \in SubRecords, NEW t \in ToldRecords, Fits(v, r, t),
           r.pc \in {"idle", "receiving", "done"}
    PROVE  /\ [r EXCEPT !.pc = "dropped", !.queue = <<>>] \in SubRecords
           /\ Fits(v, [r EXCEPT !.pc = "dropped", !.queue = <<>>], t)
<1> DEFINE n == [r EXCEPT !.pc = "dropped", !.queue = <<>>]
<1>1. /\ Enrolled(v, r, t) /\ Dated(v, r, t) /\ Sorted(r, t) /\ Accounted(v, r, t)
      /\ GapsFirst(v, r, t)
  BY DEF Fits
<1>2. /\ n \in SubRecords
      /\ n.queue = <<>> /\ n.lag = r.lag /\ n.last = r.last /\ n.end = r.end
      /\ n.sender = r.sender /\ n.pc = "dropped" /\ n.item = r.item
  <2>1. <<>> \in Seq(Nat) OBVIOUS
  <2> QED BY <2>1 DEF SubRecords, ReaderStates
<1> HIDE DEF n
<1>3. Enrolled(v, n, t)
  BY <1>1, <1>2 DEF Enrolled, Reads
<1>4. Dated(v, n, t)
  BY <1>1, <1>2 DEF Dated
<1>5. Sorted(n, t)
  BY <1>1, <1>2 DEF Sorted
<1>6. Accounted(v, n, t)
  BY <1>2 DEF Accounted, Reads
<1>7. GapsFirst(v, n, t)
  BY <1>1, <1>2 DEF GapsFirst, Reads
<1> QED BY <1>2, <1>3, <1>4, <1>5, <1>6, <1>7 DEF Fits, n

LEMMA JoinsTheRegistry ==
    ASSUME NEW v \in Views, NEW r \in SubRecords, NEW t \in ToldRecords, Fits(v, r, t),
           r.pc = "absent", ~v.awaits
    PROVE  /\ [r EXCEPT !.last = v.revision, !.pc = "idle",
                !.sender = ~v.terminal] \in SubRecords
           /\ [t EXCEPT !.after = v.revision] \in ToldRecords
           /\ Fits([v EXCEPT !.member = ~v.terminal], [r EXCEPT !.last = v.revision,
                !.pc = "idle", !.sender = ~v.terminal], [t EXCEPT !.after = v.revision])
<1> DEFINE n == [r EXCEPT !.last = v.revision, !.pc = "idle", !.sender = ~v.terminal]
            u == [t EXCEPT !.after = v.revision]
            w == [v EXCEPT !.member = ~v.terminal]
<1>1. /\ Enrolled(v, r, t) /\ Dated(v, r, t) /\ Sorted(r, t) /\ Accounted(v, r, t)
      /\ GapsFirst(v, r, t)
  BY DEF Fits
<1>2. /\ n \in SubRecords /\ u \in ToldRecords /\ w \in Views
      /\ n.queue = r.queue /\ n.lag = r.lag /\ n.last = v.revision /\ n.end = r.end
      /\ n.sender = ~v.terminal /\ n.pc = "idle" /\ n.item = r.item
      /\ u.after = v.revision /\ u.delivered = t.delivered /\ u.reported = t.reported
      /\ u.ended = t.ended
      /\ w.revision = v.revision /\ w.terminal = v.terminal /\ w.ending = v.ending
      /\ w.member = ~v.terminal /\ w.awaits = v.awaits
  BY DEF SubRecords, ToldRecords, Views, ReaderStates
<1> HIDE DEF n, u, w
<1>3. Enrolled(w, n, u)
  BY <1>1, <1>2 DEF Enrolled
<1>4. Dated(w, n, u)
  BY <1>1, <1>2 DEF Dated, Views
<1>5. Sorted(n, u)
  BY <1>1, <1>2 DEF Sorted
<1>6. Accounted(w, n, u)
  BY <1>2 DEF Accounted, Views
<1>7. GapsFirst(w, n, u)
  BY <1>1, <1>2 DEF GapsFirst, Enrolled
<1> QED BY <1>2, <1>3, <1>4, <1>5, <1>6, <1>7 DEF Fits, n, u, w

\* What a step of a publication does to a subscription.
LEMMA IsPublishedTo ==
    ASSUME NEW v \in Views, NEW r \in SubRecords, NEW t \in ToldRecords, Fits(v, r, t),
           NEW e \in BOOLEAN,
           ~v.awaits, ~v.terminal, ~v.ending
    PROVE  Fits([v EXCEPT !.revision = v.revision + 1, !.awaits = v.member, !.ending = e], r,
                t)
<1> DEFINE w == [v EXCEPT !.revision = v.revision + 1, !.awaits = v.member, !.ending = e]
<1>1. /\ Enrolled(v, r, t) /\ Dated(v, r, t) /\ Sorted(r, t) /\ Accounted(v, r, t)
      /\ GapsFirst(v, r, t)
  BY DEF Fits
<1>2. /\ w \in Views
      /\ w.revision = v.revision + 1 /\ w.terminal = v.terminal /\ w.ending = e
      /\ w.member = v.member /\ w.awaits = v.member
  <2>1. v.revision + 1 \in Nat BY DEF Views
  <2> QED BY <2>1 DEF Views
<1> HIDE DEF w
<1>3. Enrolled(w, r, t)
  BY <1>1, <1>2 DEF Enrolled
<1>4. Dated(w, r, t)
  <2>1. /\ r.last <= v.revision /\ r.item <= v.revision /\ t.after <= v.revision
        /\ r.lag[2] <= v.revision /\ r.lag[1] <= r.lag[2]
        /\ \A i \in 1 .. Len(r.queue) : r.queue[i] <= v.revision
        /\ \A d \in t.delivered : d <= v.revision
    BY <1>1 DEF Dated
  <2>2. r.end = NoEnd BY <1>1 DEF Enrolled
  <2>3. /\ v.revision \in Nat /\ r.last \in Nat /\ r.item \in Nat /\ t.after \in Nat
        /\ r.lag[2] \in Nat
        /\ \A i \in 1 .. Len(r.queue) : r.queue[i] \in Nat
    BY DEF Views, SubRecords, ToldRecords
  <2>4. \A d \in t.delivered : d \in Nat BY DEF ToldRecords
  <2>5. /\ r.last < w.revision /\ r.item < w.revision /\ t.after < w.revision
        /\ r.lag[2] < w.revision /\ r.end = 0 /\ 0 < w.revision /\ ~w.terminal
        /\ \A i \in 1 .. Len(r.queue) : r.queue[i] < w.revision
        /\ \A d \in t.delivered : d < w.revision
    BY <1>2, <2>1, <2>2, <2>3, <2>4 DEF NoEnd
  <2>6. \A x \in Nat : x < w.revision => x <= w.revision BY <1>2 DEF Views
  <2> QED BY <2>1, <2>3, <2>4, <2>5, <2>6 DEF Dated, NoEnd
<1>6. Accounted(w, r, t)
  <2>1. Reads(r) => v.member BY <1>1 DEF Enrolled
  <2>2. \A q \in t.after + 1 .. w.revision : q = w.revision \/ q \in t.after + 1 .. v.revision
    BY <1>2 DEF Views
  <2> QED BY <1>1, <1>2, <2>1, <2>2 DEF Accounted
<1>7. GapsFirst(w, r, t)
  <2>1. \A q \in Untold(w, t), d \in t.delivered : d > q => q \in Untold(v, t)
    <3>1. SUFFICES ASSUME NEW q \in Untold(w, t), NEW d \in t.delivered, d > q
                   PROVE  q \in Untold(v, t)
      OBVIOUS
    <3>2. d \in Nat /\ d <= v.revision /\ q \in t.after + 1 .. v.revision + 1
      BY <1>1, <1>2 DEF Dated, Untold, ToldRecords
    <3> QED BY <3>1, <3>2 DEF Untold, Views
  <2>2. \A q \in Untold(w, t), d \in t.delivered : q \in Nat /\ d \in Nat /\ q # d
    BY DEF Untold, ToldRecords
  <2> QED BY <1>1, <2>1, <2>2 DEF GapsFirst
<1> QED BY <1>3, <1>4, <1>6, <1>7 DEF Fits, w

LEMMA IsSent ==
    ASSUME NEW v \in Views, NEW r \in SubRecords, NEW t \in ToldRecords, Fits(v, r, t),
           v.awaits, v.member
    PROVE  /\ [r EXCEPT !.queue = Append(r.queue, v.revision)] \in SubRecords
           /\ Fits([v EXCEPT !.awaits = FALSE], [r EXCEPT !.queue = Append(r.queue,
                v.revision)], t)
<1> DEFINE n == [r EXCEPT !.queue = Append(r.queue, v.revision)]
            w == [v EXCEPT !.awaits = FALSE]
<1>1. /\ Enrolled(v, r, t) /\ Dated(v, r, t) /\ Sorted(r, t) /\ Accounted(v, r, t)
      /\ GapsFirst(v, r, t)
  BY DEF Fits
<1>2. /\ n \in SubRecords /\ w \in Views
      /\ n.queue = Append(r.queue, v.revision) /\ n.lag = r.lag /\ n.last = r.last
      /\ n.end = r.end /\ n.sender = r.sender /\ n.pc = r.pc /\ n.item = r.item
      /\ w.revision = v.revision /\ w.terminal = v.terminal /\ w.ending = v.ending
      /\ w.member = v.member /\ w.awaits = FALSE
  <2>1. Append(r.queue, v.revision) \in Seq(Nat) BY DEF SubRecords, Views
  <2> QED BY <2>1 DEF SubRecords, Views
<1>3. /\ Len(r.queue) \in Nat /\ Len(n.queue) = Len(r.queue) + 1
      /\ n.queue[Len(r.queue) + 1] = v.revision
      /\ \A i \in 1 .. Len(r.queue) : n.queue[i] = r.queue[i]
      /\ \A i \in 1 .. Len(r.queue) : r.queue[i] \in Nat
      /\ Queued(n) = Queued(r) \union {v.revision}
  <2>1. /\ Len(r.queue) \in Nat /\ Len(n.queue) = Len(r.queue) + 1
        /\ n.queue[Len(r.queue) + 1] = v.revision
        /\ \A i \in 1 .. Len(r.queue) : n.queue[i] = r.queue[i]
        /\ \A i \in 1 .. Len(r.queue) : r.queue[i] \in Nat
    <3>1. r.queue \in Seq(Nat) /\ v.revision \in Nat BY DEF SubRecords, Views
    <3> QED BY <1>2, <3>1
  <2> QED BY <2>1 DEF Queued
<1> HIDE DEF n, w
<1>4. Enrolled(w, n, t)
  BY <1>1, <1>2 DEF Enrolled, Dated, Reads
<1>5. Dated(w, n, t)
  BY <1>1, <1>2 DEF Dated, Views
<1>6. Sorted(n, t)
  <2>1. \A i \in 1 .. Len(n.queue) :
           \/ i \in 1 .. Len(r.queue) /\ n.queue[i] = r.queue[i]
           \/ i = Len(r.queue) + 1 /\ n.queue[i] = v.revision
    BY <1>3
  <2>2. /\ r.item < v.revision /\ r.end = NoEnd
        /\ \A i \in 1 .. Len(r.queue) : r.queue[i] < v.revision
        /\ \A d \in t.delivered : d < v.revision
    BY <1>1 DEF Dated
  <2>3. \A i, j \in 1 .. Len(n.queue) : i < j => n.queue[i] < n.queue[j]
    <3>1. \A i, j \in 1 .. Len(n.queue) : i < j => i \in 1 .. Len(r.queue) BY <1>3
    <3> QED BY <1>1, <2>1, <2>2, <3>1 DEF Sorted
  <2> QED BY <1>1, <1>2, <2>1, <2>2, <2>3 DEF Sorted
<1>7. Accounted(w, n, t)
  BY <1>1, <1>2, <1>3 DEF Accounted, Known, Reads
<1>8. GapsFirst(w, n, t)
  BY <1>1, <1>2 DEF GapsFirst, Untold, Reads
<1> QED BY <1>2, <1>4, <1>5, <1>6, <1>7, <1>8 DEF Fits, n, w

LEMMA IsMarked ==
    ASSUME NEW v \in Views, NEW r \in SubRecords, NEW t \in ToldRecords, Fits(v, r, t),
           ~v.awaits
    PROVE  /\ [r EXCEPT !.last = v.revision] \in SubRecords
           /\ Fits(v, [r EXCEPT !.last = v.revision], t)
<1> DEFINE n == [r EXCEPT !.last = v.revision]
<1>1. /\ Enrolled(v, r, t) /\ Dated(v, r, t) /\ Sorted(r, t) /\ Accounted(v, r, t)
      /\ GapsFirst(v, r, t)
  BY DEF Fits
<1>2. /\ n \in SubRecords
      /\ n.queue = r.queue /\ n.lag = r.lag /\ n.last = v.revision /\ n.end = r.end
      /\ n.sender = r.sender /\ n.pc = r.pc /\ n.item = r.item
  BY DEF SubRecords, Views
<1> HIDE DEF n
<1>3. Enrolled(v, n, t)
  BY <1>1, <1>2 DEF Enrolled, Reads
<1>4. Dated(v, n, t)
  BY <1>1, <1>2 DEF Dated, Views
<1>5. Sorted(n, t)
  BY <1>1, <1>2 DEF Sorted
<1>6. Accounted(v, n, t)
  BY <1>1, <1>2 DEF Accounted, Known, Queued, Reads
<1>7. GapsFirst(v, n, t)
  BY <1>1, <1>2 DEF GapsFirst, Reads
<1> QED BY <1>2, <1>3, <1>4, <1>5, <1>6, <1>7 DEF Fits, n

LEMMA IsPassedBy ==
    ASSUME NEW v \in Views, NEW r \in SubRecords, NEW t \in ToldRecords, Fits(v, r, t),
           NEW m \in BOOLEAN,
           r.pc = "dropped"
    PROVE  Fits([v EXCEPT !.awaits = FALSE, !.member = m], r, t)
<1> DEFINE w == [v EXCEPT !.awaits = FALSE, !.member = m]
<1>1. /\ Enrolled(v, r, t) /\ Dated(v, r, t) /\ Sorted(r, t) /\ Accounted(v, r, t)
      /\ GapsFirst(v, r, t)
  BY DEF Fits
<1>2. /\ w \in Views
      /\ w.revision = v.revision /\ w.terminal = v.terminal /\ w.ending = v.ending
      /\ w.member = m /\ w.awaits = FALSE
  BY DEF SubRecords, Views
<1> HIDE DEF w
<1>3. Enrolled(w, r, t)
  BY <1>1, <1>2 DEF Enrolled, Reads
<1>4. Dated(w, r, t)
  BY <1>1, <1>2 DEF Dated
<1>6. Accounted(w, r, t)
  BY DEF Accounted, Reads
<1>7. GapsFirst(w, r, t)
  BY <1>1, <1>2 DEF GapsFirst, Untold
<1> QED BY <1>3, <1>4, <1>6, <1>7 DEF Fits, w

LEMMA IsLagging ==
    ASSUME NEW v \in Views, NEW r \in SubRecords, NEW t \in ToldRecords, Fits(v, r, t),
           v.awaits, v.member
    PROVE  /\ [r EXCEPT !.lag = <<IF r.lag = NoLag THEN r.last + 1 ELSE r.lag[1],
                v.revision>>] \in SubRecords
           /\ Fits([v EXCEPT !.awaits = FALSE],
                [r EXCEPT !.lag = <<IF r.lag = NoLag THEN r.last + 1 ELSE r.lag[1],
                v.revision>>], t)
<1> DEFINE n == [r EXCEPT !.lag = <<IF r.lag = NoLag THEN r.last + 1 ELSE r.lag[1],
     v.revision>>]
            w == [v EXCEPT !.awaits = FALSE]
<1>1. /\ Enrolled(v, r, t) /\ Dated(v, r, t) /\ Sorted(r, t) /\ Accounted(v, r, t)
      /\ GapsFirst(v, r, t)
  BY DEF Fits
<1>2. /\ n \in SubRecords /\ w \in Views
      /\ n.queue = r.queue
      /\ n.lag = <<IF r.lag = NoLag THEN r.last + 1 ELSE r.lag[1], v.revision>>
      /\ n.last = r.last /\ n.end = r.end /\ n.sender = r.sender /\ n.pc = r.pc
      /\ n.item = r.item
      /\ w.revision = v.revision /\ w.terminal = v.terminal /\ w.ending = v.ending
      /\ w.member = v.member /\ w.awaits = FALSE
  <2>1. <<IF r.lag = NoLag THEN r.last + 1 ELSE r.lag[1], v.revision>> \in Nat \X Nat
    BY DEF SubRecords, Views
  <2> QED BY <2>1 DEF SubRecords, Views
<1> HIDE DEF n, w
<1>3. Enrolled(w, n, t)
  BY <1>1, <1>2 DEF Enrolled, Reads
<1>4. Dated(w, n, t)
  BY <1>1, <1>2 DEF Dated, SubRecords
<1>5. Sorted(n, t)
  BY <1>1, <1>2 DEF Sorted
<1>6. Accounted(w, n, t)
  BY <1>1, <1>2
     DEF Accounted, Known, Queued, Dated, Reads, NoLag, NoEnd, SubRecords, ToldRecords
<1>7. GapsFirst(w, n, t)
  <2>1. n.lag # NoLag BY <1>1, <1>2 DEF Dated, NoLag, SubRecords
  <2>2. Untold(w, t) = Untold(v, t) BY <1>2 DEF Untold
  <2> QED BY <1>1, <1>2, <2>1, <2>2 DEF GapsFirst, Reads
<1> QED BY <1>2, <1>3, <1>4, <1>5, <1>6, <1>7 DEF Fits, n, w

LEMMA IsEnded ==
    ASSUME NEW v \in Views, NEW r \in SubRecords, NEW t \in ToldRecords, Fits(v, r, t),
           v.awaits, v.member, v.ending
    PROVE  /\ [r EXCEPT !.end = v.revision] \in SubRecords
           /\ Fits([v EXCEPT !.awaits = FALSE], [r EXCEPT !.end = v.revision], t)
<1> DEFINE n == [r EXCEPT !.end = v.revision]
            w == [v EXCEPT !.awaits = FALSE]
<1>1. /\ Enrolled(v, r, t) /\ Dated(v, r, t) /\ Sorted(r, t) /\ Accounted(v, r, t)
      /\ GapsFirst(v, r, t)
  BY DEF Fits
<1>2. /\ n \in SubRecords /\ w \in Views
      /\ n.queue = r.queue /\ n.lag = r.lag /\ n.last = r.last /\ n.end = v.revision
      /\ n.sender = r.sender /\ n.pc = r.pc /\ n.item = r.item
      /\ w.revision = v.revision /\ w.terminal = v.terminal /\ w.ending = v.ending
      /\ w.member = v.member /\ w.awaits = FALSE
  BY DEF SubRecords, Views
<1> HIDE DEF n, w
<1>3. Enrolled(w, n, t)
  BY <1>1, <1>2 DEF Enrolled, Dated, Reads
<1>4. Dated(w, n, t)
  BY <1>1, <1>2 DEF Dated, Views
<1>5. Sorted(n, t)
  BY <1>1, <1>2 DEF Sorted, Dated
<1>6. Accounted(w, n, t)
  BY <1>1, <1>2 DEF Accounted, Known, Queued, Dated, Reads, NoEnd, ToldRecords
<1>7. GapsFirst(w, n, t)
  BY <1>1, <1>2 DEF GapsFirst, Untold, Reads
<1> QED BY <1>2, <1>3, <1>4, <1>5, <1>6, <1>7 DEF Fits, n, w

LEMMA IsClosed ==
    ASSUME NEW v \in Views, NEW r \in SubRecords, NEW t \in ToldRecords, Fits(v, r, t),
           ~v.awaits, v.ending
    PROVE  Fits([v EXCEPT !.terminal = TRUE], r, t)
<1> DEFINE w == [v EXCEPT !.terminal = TRUE]
<1>1. /\ Enrolled(v, r, t) /\ Dated(v, r, t) /\ Sorted(r, t) /\ Accounted(v, r, t)
      /\ GapsFirst(v, r, t)
  BY DEF Fits
<1>2. /\ w \in Views
      /\ w.revision = v.revision /\ w.terminal = TRUE /\ w.ending = v.ending
      /\ w.member = v.member /\ w.awaits = v.awaits
  BY DEF SubRecords, Views
<1> HIDE DEF w
<1>3. Enrolled(w, r, t)
  BY <1>1, <1>2 DEF Enrolled
<1>4. Dated(w, r, t)
  BY <1>1, <1>2 DEF Dated
<1>6. Accounted(w, r, t)
  BY <1>1, <1>2 DEF Accounted
<1>7. GapsFirst(w, r, t)
  BY <1>1, <1>2 DEF GapsFirst, Untold
<1> QED BY <1>3, <1>4, <1>6, <1>7 DEF Fits, w

LEMMA LosesItsSender ==
    ASSUME NEW v \in Views, NEW r \in SubRecords, NEW t \in ToldRecords, Fits(v, r, t),
           ~v.awaits, v.terminal
    PROVE  /\ [r EXCEPT !.sender = FALSE] \in SubRecords
           /\ Fits([v EXCEPT !.member = FALSE], [r EXCEPT !.sender = FALSE], t)
<1> DEFINE n == [r EXCEPT !.sender = FALSE]
            w == [v EXCEPT !.member = FALSE]
<1>1. /\ Enrolled(v, r, t) /\ Dated(v, r, t) /\ Sorted(r, t) /\ Accounted(v, r, t)
      /\ GapsFirst(v, r, t)
  BY DEF Fits
<1>2. /\ n \in SubRecords /\ w \in Views
      /\ n.queue = r.queue /\ n.lag = r.lag /\ n.last = r.last /\ n.end = r.end
      /\ n.sender = FALSE /\ n.pc = r.pc /\ n.item = r.item
      /\ w.revision = v.revision /\ w.terminal = v.terminal /\ w.ending = v.ending
      /\ w.member = FALSE /\ w.awaits = v.awaits
  BY DEF SubRecords, Views
<1> HIDE DEF n, w
<1>3. Enrolled(w, n, t)
  BY <1>1, <1>2 DEF Enrolled
<1>4. Dated(w, n, t)
  BY <1>1, <1>2 DEF Dated
<1>5. Sorted(n, t)
  BY <1>1, <1>2 DEF Sorted
<1>6. Accounted(w, n, t)
  BY <1>1, <1>2 DEF Accounted, Known, Queued, Reads
<1>7. GapsFirst(w, n, t)
  BY <1>1, <1>2 DEF GapsFirst, Untold, Reads
<1> QED BY <1>2, <1>3, <1>4, <1>5, <1>6, <1>7 DEF Fits, n, w
-------------------------------------------------------------------------------
\* Fits depends on what a view says alone.
Alike(v, w) == /\ w.revision = v.revision /\ (w.terminal <=> v.terminal)
               /\ (w.ending <=> v.ending) /\ (w.member <=> v.member)
               /\ (w.awaits <=> v.awaits)

LEMMA AlikeFits ==
    ASSUME NEW v \in Views, NEW w \in Views, Alike(v, w), NEW r, NEW t, Fits(v, r, t)
    PROVE  Fits(w, r, t)
<1>1. Enrolled(w, r, t) BY DEF Fits, Enrolled, Alike
<1>2. Dated(w, r, t) BY DEF Fits, Dated, Alike
<1>3. Accounted(w, r, t) BY DEF Fits, Accounted, Alike
<1>4. GapsFirst(w, r, t) BY DEF Fits, GapsFirst, Untold, Alike
<1> QED BY <1>1, <1>2, <1>3, <1>4 DEF Fits

LEMMA ViewsAreTyped == FanoutTyped => \A s \in Subscribers : View(s) \in Views
  BY DEF FanoutTyped, Registries, View, Views, Awaits

\* A step of a reader disturbs nobody else.
LEMMA ReaderKeeps ==
    ASSUME Traceable, NEW s \in Subscribers, NEW n \in SubRecords, NEW u \in ToldRecords,
           UNCHANGED registry, sub' = [sub EXCEPT ![s] = n],
           seen'.told = [seen.told EXCEPT ![s] = u], seen'.gaveUp \in Nat,
           seen' = [told |-> seen'.told, gaveUp |-> seen'.gaveUp],
           Fits(View(s), n, u), sub[s].pc # "dropped"
    PROVE  Traceable'
<1>1. FanoutTyped /\ PublicationIsOrderly /\ \A o \in Subscribers : Fits(View(o), sub[o],
           seen.told[o])
  BY DEF Traceable
<1>2. FanoutTyped' BY <1>1 DEF FanoutTyped, Seens
<1>3. PublicationIsOrderly' BY <1>1 DEF PublicationIsOrderly
<1>4. \A o \in Subscribers : /\ (View(o))' = View(o)
                             /\ sub'[o] = IF o = s THEN n ELSE sub[o]
                             /\ seen'.told[o] = IF o = s THEN u ELSE seen.told[o]
  BY <1>1 DEF View, Awaits, FanoutTyped, Seens
<1>5. \A o \in Subscribers : Fits((View(o))', sub'[o], seen'.told[o]) BY <1>1, <1>4
<1> QED BY <1>2, <1>3, <1>5 DEF Traceable

\* A visit of the publisher, or a subscription, disturbs no other subscriber.
LEMMA VisitKeeps ==
    ASSUME Traceable, NEW s \in Subscribers, NEW n \in SubRecords, NEW u \in ToldRecords,
           registry' \in Registries, PublicationIsOrderly', sub' = [sub EXCEPT ![s] = n],
           seen' = [told |-> [seen.told EXCEPT ![s] = u], gaveUp |-> seen.gaveUp],
           \A o \in Subscribers \ {s} : Alike(View(o), (View(o))'),
           NEW w \in Views, Alike(w, (View(s))'), Fits(w, n, u)
    PROVE  Traceable'
<1>1. FanoutTyped /\ \A o \in Subscribers : Fits(View(o), sub[o], seen.told[o])
  BY DEF Traceable
<1>2. FanoutTyped' BY <1>1 DEF FanoutTyped, Seens
<1>5. \A o \in Subscribers : View(o) \in Views /\ (View(o))' \in Views
  BY <1>1 DEF FanoutTyped, Registries, View, Views, Awaits
<1>3. \A o \in Subscribers : /\ sub'[o] = IF o = s THEN n ELSE sub[o]
                             /\ seen'.told[o] = IF o = s THEN u ELSE seen.told[o]
  BY <1>1 DEF FanoutTyped, Seens
<1>4. \A o \in Subscribers : Fits((View(o))', sub'[o], seen'.told[o])
  BY <1>1, <1>3, <1>5, AlikeFits
<1> QED BY <1>2, <1>4 DEF Traceable

\* What every lemma about a step starts from.
LEMMA Parts ==
    ASSUME Traceable, NEW s \in Subscribers
    PROVE  /\ FanoutTyped /\ PublicationIsOrderly /\ registry \in Registries
           /\ View(s) \in Views
           /\ sub \in [Subscribers -> SubRecords] /\ sub[s] \in SubRecords
           /\ seen.told \in [Subscribers -> ToldRecords] /\ seen.told[s] \in ToldRecords
           /\ seen.gaveUp \in Nat /\ seen = [told |-> seen.told, gaveUp |-> seen.gaveUp]
           /\ Fits(View(s), sub[s], seen.told[s])
  BY ViewsAreTyped DEF Traceable, FanoutTyped, Seens

(* The calls of a reader.                                                   *)
LEMMA TakeLagKeeps ==
    ASSUME Traceable, NEW s \in Subscribers, TakeLag(s)
    PROVE  Traceable'
<1>1. CASE sub[s].lag = NoLag
  <2> DEFINE n == [sub[s] EXCEPT !.pc = "receiving"]
  <2>1. n \in SubRecords /\ Fits(View(s), n, seen.told[s])
    BY <1>1, Parts, WaitsForAnEvent DEF TakeLag
  <2>2. sub' = [sub EXCEPT ![s] = n] /\ UNCHANGED <<registry, seen>> /\ sub[s].pc # "dropped"
    BY <1>1 DEF TakeLag
  <2> HIDE DEF n
  <2> QED BY <2>1, <2>2, Parts, ReaderKeeps
<1>2. CASE sub[s].lag # NoLag
  <2> DEFINE n == [sub[s] EXCEPT !.lag = NoLag]
             u == [seen.told[s] EXCEPT !.reported = @ \union (sub[s].lag[1] .. sub[s].lag[2])]
  <2>1. n \in SubRecords /\ u \in ToldRecords /\ Fits(View(s), n, u)
    BY <1>2, Parts, TakesALag DEF TakeLag
  <2>2. /\ sub' = [sub EXCEPT ![s] = n] /\ UNCHANGED registry /\ sub[s].pc # "dropped"
        /\ seen' = [seen EXCEPT !.told = [seen.told EXCEPT ![s] = u]]
    BY <1>2 DEF TakeLag
  <2> HIDE DEF n, u
  <2> QED BY <2>1, <2>2, Parts, ReaderKeeps
<1> QED BY <1>1, <1>2

LEMMA ReceiveKeeps ==
    ASSUME Traceable, NEW s \in Subscribers, Receive(s)
    PROVE  Traceable'
<1> DEFINE n == [sub[s] EXCEPT !.queue = Tail(@), !.pc = "received",
                               !.item = Head(sub[s].queue)]
<1>1. n \in SubRecords /\ Fits(View(s), n, seen.told[s])
  BY Parts, TakesAnEvent DEF Receive
<1>2. sub' = [sub EXCEPT ![s] = n] /\ UNCHANGED <<registry, seen>> /\ sub[s].pc # "dropped"
  BY Parts DEF Receive
<1> HIDE DEF n
<1> QED BY <1>1, <1>2, Parts, ReaderKeeps

LEMMA MarkReadKeeps ==
    ASSUME Traceable, NEW s \in Subscribers, MarkRead(s)
    PROVE  Traceable'
<1> DEFINE n == [sub[s] EXCEPT !.last = sub[s].item, !.pc = "idle", !.item = 0]
           u == [seen.told[s] EXCEPT !.delivered = @ \union {sub[s].item}]
<1>1. n \in SubRecords /\ u \in ToldRecords /\ Fits(View(s), n, u)
  BY Parts, MarksARevision DEF MarkRead
<1>2. /\ sub' = [sub EXCEPT ![s] = n] /\ UNCHANGED registry /\ sub[s].pc # "dropped"
      /\ seen' = [seen EXCEPT !.told = [seen.told EXCEPT ![s] = u]]
  BY Parts DEF MarkRead
<1> HIDE DEF n, u
<1> QED BY <1>1, <1>2, Parts, ReaderKeeps

LEMMA TakeEndedTells ==
    ASSUME Traceable, NEW s \in Subscribers, TakeEnded(s), sub[s].end # NoEnd
    PROVE  seen' = [seen EXCEPT !.told = [seen.told EXCEPT ![s] =
                      [seen.told[s] EXCEPT !.delivered = @ \union {sub[s].end},
                           !.ended = @ + 1]]]
  BY Parts DEF TakeEnded, ToldRecords

LEMMA TakeEndedKeeps ==
    ASSUME Traceable, NEW s \in Subscribers, TakeEnded(s)
    PROVE  Traceable'
<1>1. CASE sub[s].end = NoEnd
  <2> DEFINE n == [sub[s] EXCEPT !.pc = "done"]
  <2>1. n \in SubRecords /\ Fits(View(s), n, seen.told[s])
    BY Parts, FindsNoEnd DEF TakeEnded
  <2>2. sub' = [sub EXCEPT ![s] = n] /\ UNCHANGED <<registry, seen>> /\ sub[s].pc # "dropped"
    BY <1>1 DEF TakeEnded
  <2> HIDE DEF n
  <2> QED BY <2>1, <2>2, Parts, ReaderKeeps
<1>2. CASE sub[s].end # NoEnd
  <2> DEFINE n == [sub[s] EXCEPT !.end = NoEnd, !.last = sub[s].end, !.pc = "idle"]
             u == [seen.told[s] EXCEPT !.delivered = @ \union {sub[s].end}, !.ended = @ + 1]
  <2>1. n \in SubRecords /\ u \in ToldRecords /\ Fits(View(s), n, u)
    BY <1>2, Parts, TakesTheEnd DEF TakeEnded
  <2>2. /\ sub' = [sub EXCEPT ![s] = n] /\ UNCHANGED registry /\ sub[s].pc # "dropped"
        /\ seen' = [seen EXCEPT !.told = [seen.told EXCEPT ![s] = u]]
    <3>1. sub' = [sub EXCEPT ![s] = n] /\ UNCHANGED registry /\ sub[s].pc # "dropped"
      BY <1>2 DEF TakeEnded
    <3>2. seen' = [seen EXCEPT !.told = [seen.told EXCEPT ![s] = u]]
      BY <1>2, TakeEndedTells
    <3> QED BY <3>1, <3>2
  <2> HIDE DEF n, u
  <2> QED BY <2>1, <2>2, Parts, ReaderKeeps
<1> QED BY <1>1, <1>2

LEMMA GiveUpWaitingKeeps ==
    ASSUME Traceable, NEW s \in Subscribers, GiveUpWaiting(s)
    PROVE  Traceable'
<1> DEFINE n == [sub[s] EXCEPT !.pc = "idle"]
<1>1. n \in SubRecords /\ Fits(View(s), n, seen.told[s])
  BY Parts, StopsWaiting DEF GiveUpWaiting
<1>2. /\ sub' = [sub EXCEPT ![s] = n] /\ UNCHANGED registry /\ sub[s].pc # "dropped"
      /\ seen' = [seen EXCEPT !.gaveUp = @ + 1]
  BY Parts DEF GiveUpWaiting
<1> HIDE DEF n
<1>3. /\ seen'.told = [seen.told EXCEPT ![s] = seen.told[s]] /\ seen'.gaveUp \in Nat
      /\ seen' = [told |-> seen'.told, gaveUp |-> seen'.gaveUp]
  BY <1>2, Parts
<1> QED BY <1>1, <1>2, <1>3, Parts, ReaderKeeps

LEMMA UnsubscribeKeeps ==
    ASSUME Traceable, NEW s \in Subscribers, Unsubscribe(s)
    PROVE  Traceable'
<1> DEFINE n == [sub[s] EXCEPT !.pc = "dropped", !.queue = <<>>]
<1>1. n \in SubRecords /\ Fits(View(s), n, seen.told[s])
  BY Parts, DropsTheStream DEF Unsubscribe
<1>2. sub' = [sub EXCEPT ![s] = n] /\ UNCHANGED <<registry, seen>> /\ sub[s].pc # "dropped"
  BY Parts DEF Unsubscribe
<1> HIDE DEF n
<1> QED BY <1>1, <1>2, Parts, ReaderKeeps

(* A subscription, and the steps of a publication.                          *)
LEMMA SubscribeKeeps ==
    ASSUME Traceable, NEW s \in Subscribers, Subscribe(s)
    PROVE  Traceable'
<1> DEFINE n == [sub[s] EXCEPT !.last = registry.revision, !.pc = "idle",
                               !.sender = ~registry.terminal]
           u == [seen.told[s] EXCEPT !.after = registry.revision]
<1>1. registry.todo = {} /\ ~View(s).awaits /\ ~View(s).member
  BY Parts DEF Subscribe, Free, PublicationIsOrderly, View, Awaits, Fits, Enrolled
<1>2. /\ n \in SubRecords /\ u \in ToldRecords
      /\ Fits([View(s) EXCEPT !.member = ~registry.terminal], n, u)
  <2>1. /\ View(s).revision = registry.revision
        /\ View(s).terminal = registry.terminal BY DEF View
  <2> QED BY <1>1, <2>1, Parts, JoinsTheRegistry DEF Subscribe
<1>3. /\ sub' = [sub EXCEPT ![s] = n]
      /\ seen' = [told |-> [seen.told EXCEPT ![s] = u], gaveUp |-> seen.gaveUp]
  BY Parts DEF Subscribe
<1>4. registry' \in Registries BY Parts DEF Subscribe, Registries
<1>5. PublicationIsOrderly'
  BY Parts DEF Subscribe, Free, PublicationIsOrderly
<1>6. \A o \in Subscribers \ {s} : Alike(View(o), (View(o))')
  BY DEF Subscribe, View, Awaits, Alike
<1>7. Alike([View(s) EXCEPT !.member = ~registry.terminal], (View(s))')
  BY <1>1, Parts DEF Subscribe, View, Awaits, Registries, Alike
<1>8. [View(s) EXCEPT !.member = ~registry.terminal] \in Views BY Parts DEF Views
<1> HIDE DEF n, u
<1> QED BY <1>2, <1>3, <1>4, <1>5, <1>6, <1>7, <1>8, VisitKeeps

LEMMA MarkSentKeeps ==
    ASSUME Traceable, NEW s \in Subscribers, MarkSent(s)
    PROVE  Traceable'
<1> DEFINE n == [sub[s] EXCEPT !.last = registry.revision]
<1>1. ~View(s).awaits
  BY DEF MarkSent, View, Awaits
<1>2. /\ n \in SubRecords
      /\ Fits(View(s), n, seen.told[s])
  <2>1. View(s).revision = registry.revision BY DEF View
  <2> QED BY <1>1, <2>1, Parts, IsMarked
<1>3. /\ sub' = [sub EXCEPT ![s] = n]
      /\ seen' = [told |-> [seen.told EXCEPT ![s] = seen.told[s]], gaveUp |-> seen.gaveUp]
  BY Parts DEF MarkSent
<1>4. registry' \in Registries BY Parts DEF MarkSent, Visited, Registries
<1>5. PublicationIsOrderly'
  BY Parts DEF MarkSent, Visited, PublicationIsOrderly
<1>6. \A o \in Subscribers \ {s} : Alike(View(o), (View(o))')
  BY Parts DEF MarkSent, Visited, View, Awaits, Registries, Alike, PublicationIsOrderly
<1>7. Alike(View(s), (View(s))')
  BY DEF MarkSent, Visited, View, Awaits, Alike
<1> HIDE DEF n
<1> QED BY <1>2, <1>3, <1>4, <1>5, <1>6, <1>7, Parts, VisitKeeps

LEMMA RecordLagKeeps ==
    ASSUME Traceable, NEW s \in Subscribers, RecordLag(s)
    PROVE  Traceable'
<1> DEFINE n == [sub[s] EXCEPT !.lag = <<IF sub[s].lag = NoLag THEN sub[s].last + 1
                                          ELSE sub[s].lag[1], registry.revision>>]
<1>1. View(s).awaits /\ View(s).member
  BY Parts DEF RecordLag, PublicationIsOrderly, View, Awaits
<1>2. /\ n \in SubRecords
      /\ Fits([View(s) EXCEPT !.awaits = FALSE], n, seen.told[s])
  <2>1. View(s).revision = registry.revision BY DEF View
  <2> QED BY <1>1, <2>1, Parts, IsLagging
<1>3. /\ sub' = [sub EXCEPT ![s] = n]
      /\ seen' = [told |-> [seen.told EXCEPT ![s] = seen.told[s]], gaveUp |-> seen.gaveUp]
  BY Parts DEF RecordLag
<1>4. registry' \in Registries BY Parts DEF RecordLag, Visited, Registries
<1>5. PublicationIsOrderly'
  BY Parts DEF RecordLag, Visited, PublicationIsOrderly
<1>6. \A o \in Subscribers \ {s} : Alike(View(o), (View(o))')
  BY DEF RecordLag, Visited, View, Awaits, Alike
<1>7. Alike([View(s) EXCEPT !.awaits = FALSE], (View(s))')
  BY DEF RecordLag, Visited, View, Awaits, Alike
<1>8. [View(s) EXCEPT !.awaits = FALSE] \in Views BY Parts DEF Views
<1> HIDE DEF n
<1> QED BY <1>2, <1>3, <1>4, <1>5, <1>6, <1>7, <1>8, Parts, VisitKeeps

LEMMA StoreEndedKeeps ==
    ASSUME Traceable, NEW s \in Subscribers, StoreEnded(s)
    PROVE  Traceable'
<1> DEFINE n == [sub[s] EXCEPT !.end = registry.revision]
<1>1. View(s).awaits /\ View(s).member /\ View(s).ending
  BY Parts DEF StoreEnded, PublicationIsOrderly, View, Awaits
<1>2. /\ n \in SubRecords
      /\ Fits([View(s) EXCEPT !.awaits = FALSE], n, seen.told[s])
  <2>1. View(s).revision = registry.revision BY DEF View
  <2> QED BY <1>1, <2>1, Parts, IsEnded
<1>3. /\ sub' = [sub EXCEPT ![s] = n]
      /\ seen' = [told |-> [seen.told EXCEPT ![s] = seen.told[s]], gaveUp |-> seen.gaveUp]
  BY Parts DEF StoreEnded
<1>4. registry' \in Registries BY Parts DEF StoreEnded, Registries
<1>5. PublicationIsOrderly'
  BY Parts DEF StoreEnded, PublicationIsOrderly
<1>6. \A o \in Subscribers \ {s} : Alike(View(o), (View(o))')
  BY DEF StoreEnded, View, Awaits, Alike
<1>7. Alike([View(s) EXCEPT !.awaits = FALSE], (View(s))')
  BY DEF StoreEnded, View, Awaits, Alike
<1>8. [View(s) EXCEPT !.awaits = FALSE] \in Views BY Parts DEF Views
<1> HIDE DEF n
<1> QED BY <1>2, <1>3, <1>4, <1>5, <1>6, <1>7, <1>8, Parts, VisitKeeps

LEMMA DropSenderKeeps ==
    ASSUME Traceable, NEW s \in Subscribers, DropSender(s)
    PROVE  Traceable'
<1> DEFINE n == [sub[s] EXCEPT !.sender = FALSE]
<1>1. ~View(s).awaits /\ View(s).terminal
  BY Parts DEF DropSender, PublicationIsOrderly, View, Awaits
<1>2. /\ n \in SubRecords
      /\ Fits([View(s) EXCEPT !.member = FALSE], n, seen.told[s])
  BY <1>1, Parts, LosesItsSender
<1>3. /\ sub' = [sub EXCEPT ![s] = n]
      /\ seen' = [told |-> [seen.told EXCEPT ![s] = seen.told[s]], gaveUp |-> seen.gaveUp]
  BY Parts DEF DropSender
<1>4. registry' \in Registries BY Parts DEF DropSender, Registries
<1>5. PublicationIsOrderly'
  BY Parts DEF DropSender, PublicationIsOrderly
<1>6. \A o \in Subscribers \ {s} : Alike(View(o), (View(o))')
  BY DEF DropSender, View, Awaits, Alike
<1>7. Alike([View(s) EXCEPT !.member = FALSE], (View(s))')
  BY Parts DEF DropSender, View, Awaits, Registries, Alike
<1>8. [View(s) EXCEPT !.member = FALSE] \in Views BY Parts DEF Views
<1> HIDE DEF n
<1> QED BY <1>2, <1>3, <1>4, <1>5, <1>6, <1>7, <1>8, Parts, VisitKeeps

LEMMA TrySendKeeps ==
    ASSUME Traceable, NEW s \in Subscribers, TrySend(s)
    PROVE  Traceable'
<1>1. /\ View(s).awaits /\ View(s).member /\ View(s).revision = registry.revision
      /\ registry.doing = "sending" /\ registry.busy = {} /\ s \in registry.todo
  BY Parts DEF TrySend, PublicationIsOrderly, View, Awaits
<1>2. seen' = [told |-> [seen.told EXCEPT ![s] = seen.told[s]], gaveUp |-> seen.gaveUp]
  BY Parts DEF TrySend
<1>3. CASE sub[s].pc = "dropped"
  <2>1. registry' = [registry EXCEPT !.todo = @ \ {s}, !.closed = @ \union {s}]
    BY <1>3 DEF TrySend
  <2>2. sub' = [sub EXCEPT ![s] = sub[s]] BY <1>3, Parts DEF TrySend
  <2>3. /\ sub[s] \in SubRecords
        /\ Fits([View(s) EXCEPT !.awaits = FALSE, !.member = View(s).member], sub[s],
             seen.told[s])
    BY <1>1, <1>3, Parts, IsPassedBy
  <2>4. registry' \in Registries BY <2>1, Parts DEF Registries
  <2>5. \A o \in Subscribers \ {s} : Alike(View(o), (View(o))')
    BY <2>1 DEF View, Awaits, Alike
  <2>6. Alike([View(s) EXCEPT !.awaits = FALSE, !.member = View(s).member], (View(s))')
    BY <2>1 DEF View, Awaits, Alike
  <2>7. [View(s) EXCEPT !.awaits = FALSE,
             !.member = View(s).member] \in Views BY Parts DEF Views
  <2>8. PublicationIsOrderly'
    BY <1>1, <1>3, <2>1, <2>2, Parts DEF PublicationIsOrderly
  <2> QED BY <1>2, <2>2, <2>3, <2>4, <2>5, <2>6, <2>7, <2>8, Parts, VisitKeeps
<1>4. CASE sub[s].pc # "dropped" /\ Len(sub[s].queue) # Capacity
  <2> DEFINE n == [sub[s] EXCEPT !.queue = Append(@, registry.revision)]
  <2>1. registry' = [registry EXCEPT !.doing = "marking", !.busy = {s}]
    BY <1>4 DEF TrySend
  <2>2. sub' = [sub EXCEPT ![s] = n] BY <1>4 DEF TrySend
  <2>3. n \in SubRecords /\ Fits([View(s) EXCEPT !.awaits = FALSE], n, seen.told[s])
    BY <1>1, Parts, IsSent
  <2> HIDE DEF n
  <2>4. registry' \in Registries BY <2>1, Parts DEF Registries
  <2>5. \A o \in Subscribers \ {s} : Alike(View(o), (View(o))')
    BY <1>1, <2>1 DEF View, Awaits, Alike
  <2>6. Alike([View(s) EXCEPT !.awaits = FALSE], (View(s))')
    BY <1>1, <2>1 DEF View, Awaits, Alike
  <2>7. [View(s) EXCEPT !.awaits = FALSE] \in Views BY Parts DEF Views
  <2>8. PublicationIsOrderly'
    BY <1>1, <1>4, <2>1, <2>2, Parts DEF PublicationIsOrderly
  <2> QED BY <1>2, <2>2, <2>3, <2>4, <2>5, <2>6, <2>7, <2>8, Parts, VisitKeeps
<1>5. CASE sub[s].pc # "dropped" /\ Len(sub[s].queue) = Capacity
  <2>1. registry' = [registry EXCEPT !.doing = "lagging", !.busy = {s}]
    BY <1>5 DEF TrySend
  <2>2. sub' = [sub EXCEPT ![s] = sub[s]] BY <1>5, Parts DEF TrySend
  <2>4. registry' \in Registries BY <2>1, Parts DEF Registries
  <2>5. \A o \in Subscribers \ {s} : Alike(View(o), (View(o))')
    BY <1>1, <2>1 DEF View, Awaits, Alike
  <2>6. Alike(View(s), (View(s))')
    BY <1>1, <2>1 DEF View, Awaits, Alike
  <2>8. PublicationIsOrderly'
    BY <1>1, <2>1, <2>2, Parts DEF PublicationIsOrderly
  <2> QED BY <1>2, <2>2, <2>4, <2>5, <2>6, <2>8, Parts, VisitKeeps
<1> QED BY <1>3, <1>4, <1>5

\* A step of the whole registry leaves the subscriptions alone.
LEMMA RegistryKeeps ==
    ASSUME Traceable, registry' \in Registries, PublicationIsOrderly', UNCHANGED <<sub,
           seen>>,
           \A o \in Subscribers : Fits((View(o))', sub[o], seen.told[o])
    PROVE  Traceable'
  BY DEF Traceable, FanoutTyped

LEMMA NextViewsAreTyped == FanoutTyped' => \A s \in Subscribers : (View(s))' \in Views
  BY DEF FanoutTyped, Registries, View, Views, Awaits

LEMMA PublishesKeeps ==
    ASSUME Traceable, NEW doing \in {"sending", "storing"}, Publishes(doing)
    PROVE  Traceable'
<1>1. FanoutTyped /\ PublicationIsOrderly /\ registry \in Registries
  BY DEF Traceable, FanoutTyped
<1>2. /\ registry' = [registry EXCEPT !.revision = @ + 1, !.doing = doing,
           !.todo = registry.members]
      /\ UNCHANGED <<sub, seen>> /\ Free /\ ~registry.terminal
  BY DEF Publishes
<1>3. registry' \in Registries
  <2>1. registry.revision + 1 \in Nat BY <1>1 DEF Registries
  <2> QED BY <1>1, <1>2, <2>1 DEF Registries
<1>4. PublicationIsOrderly'
  BY <1>1, <1>2 DEF Free, PublicationIsOrderly
<1>5. ASSUME NEW o \in Subscribers PROVE Fits((View(o))', sub[o], seen.told[o])
  <2> DEFINE e == doing = "storing"
             w == [View(o) EXCEPT !.revision = @ + 1, !.awaits = View(o).member, !.ending = e]
  <2>1. ~View(o).awaits /\ ~View(o).terminal /\ ~View(o).ending
    BY <1>1, <1>2 DEF Free, PublicationIsOrderly, View, Awaits
  <2>2. e \in BOOLEAN OBVIOUS
  <2>3. Fits(w, sub[o], seen.told[o])
    <3> HIDE DEF e
    <3> QED BY <2>1, <2>2, Parts, IsPublishedTo
  <2>4. Alike(w, (View(o))')
    BY <1>1, <1>2 DEF View, Awaits, Registries, Alike
  <2>5. w \in Views
    <3>1. View(o).revision + 1 \in Nat BY Parts DEF Views
    <3> QED BY <3>1, Parts DEF Views
  <2>6. (View(o))' \in Views BY <1>1, <1>2, <1>3, NextViewsAreTyped DEF FanoutTyped
  <2> HIDE DEF w
  <2> QED BY <2>3, <2>4, <2>5, <2>6, AlikeFits
<1> QED BY <1>2, <1>3, <1>4, <1>5, RegistryKeeps

LEMMA CloseRegistryKeeps == ASSUME Traceable, CloseRegistry PROVE Traceable'
<1>1. FanoutTyped /\ PublicationIsOrderly /\ registry \in Registries
  BY DEF Traceable, FanoutTyped
<1>2. registry' \in Registries BY <1>1 DEF CloseRegistry, Registries
<1>3. PublicationIsOrderly' BY <1>1 DEF CloseRegistry, PublicationIsOrderly
<1>4. ASSUME NEW o \in Subscribers PROVE Fits((View(o))', sub[o], seen.told[o])
  <2> DEFINE w == [View(o) EXCEPT !.terminal = TRUE]
  <2>1. ~View(o).awaits /\ View(o).ending BY DEF CloseRegistry, View, Awaits
  <2>2. Fits(w, sub[o], seen.told[o]) BY <2>1, Parts, IsClosed
  <2>3. Alike(w, (View(o))') BY DEF CloseRegistry, View, Awaits, Alike
  <2>4. w \in Views BY Parts DEF Views
  <2>5. (View(o))' \in Views
    BY <1>1, <1>2, NextViewsAreTyped DEF CloseRegistry, FanoutTyped
  <2> HIDE DEF w
  <2> QED BY <2>2, <2>3, <2>4, <2>5, AlikeFits
<1> QED BY <1>2, <1>3, <1>4, RegistryKeeps DEF CloseRegistry

LEMMA PublishedKeeps == ASSUME Traceable, Published PROVE Traceable'
<1>1. FanoutTyped /\ PublicationIsOrderly /\ registry \in Registries
  BY DEF Traceable, FanoutTyped
<1>2. registry' \in Registries BY <1>1 DEF Published, Registries
<1>3. PublicationIsOrderly' BY <1>1 DEF Published, PublicationIsOrderly
<1>4. ASSUME NEW o \in Subscribers PROVE Fits((View(o))', sub[o], seen.told[o])
  <2>1. (View(o))' \in Views BY <1>1, <1>2, NextViewsAreTyped DEF Published, FanoutTyped
  <2>2. CASE o \in registry.closed
    <3> DEFINE w == [View(o) EXCEPT !.awaits = FALSE, !.member = FALSE]
    <3>1. Alike(w, (View(o))')
      BY <1>1, <2>2 DEF Published, Registries, View, Awaits, Alike
    <3>2. sub[o].pc = "dropped" BY <1>1, <2>2 DEF PublicationIsOrderly
    <3>3. w \in Views BY Parts DEF Views
    <3>4. Fits(w, sub[o], seen.told[o]) BY <3>2, Parts, IsPassedBy
    <3> HIDE DEF w
    <3> QED BY <2>1, <3>1, <3>3, <3>4, AlikeFits
  <2>3. CASE o \notin registry.closed
    <3>1. Alike(View(o), (View(o))')
      BY <2>3 DEF Published, View, Awaits, Alike
    <3> QED BY <2>1, <3>1, Parts, AlikeFits
  <2> QED BY <2>2, <2>3
<1> QED BY <1>2, <1>3, <1>4, RegistryKeeps DEF Published

(* The invariant holds.                                                     *)
LEMMA InitIsTraceable == FanoutInit => Traceable
<1>1. SUFFICES ASSUME FanoutInit PROVE Traceable
  OBVIOUS
<1>3. FanoutTyped
  BY <1>1
     DEF FanoutInit, FanoutTyped, Registries, SubRecords, ToldRecords, Seens, ReaderStates,
         NoLag, NoEnd
<1>4. PublicationIsOrderly BY <1>1 DEF FanoutInit, PublicationIsOrderly
<1>5. ASSUME NEW s \in Subscribers PROVE Fits(View(s), sub[s], seen.told[s])
  <2>1. /\ sub[s] = [queue |-> <<>>, lag |-> NoLag, last |-> 0, end |-> NoEnd,
                     sender |-> FALSE, pc |-> "absent", item |-> 0]
        /\ seen.told[s] = [after |-> 0, delivered |-> {}, reported |-> {}, ended |-> 0]
        /\ View(s).revision = 0 /\ ~View(s).member /\ ~View(s).awaits
    BY <1>1 DEF FanoutInit, View, Awaits
  <2> QED BY <2>1 DEF Fits, Enrolled, Dated, Sorted, Accounted, GapsFirst, Reads, NoLag, NoEnd
<1> QED BY <1>3, <1>4, <1>5 DEF Traceable

LEMMA StepIsTraceable == Traceable /\ [FanoutNext]_fanoutVars => Traceable'
<1>1. SUFFICES ASSUME Traceable, [FanoutNext]_fanoutVars PROVE Traceable'
  OBVIOUS
<1>2. CASE Publish \/ PublishEnded BY <1>1, <1>2, PublishesKeeps DEF Publish, PublishEnded
<1>3. CASE CloseRegistry \/ Published BY <1>1, <1>3, CloseRegistryKeeps, PublishedKeeps
<1>4. CASE \E s \in Subscribers : Subscribe(s) \/ Unsubscribe(s) \/ GiveUpWaiting(s)
  BY <1>1, <1>4, SubscribeKeeps, UnsubscribeKeeps, GiveUpWaitingKeeps
<1>5. CASE \E s \in Subscribers : PublicationStep(s)
  BY <1>1, <1>5, TrySendKeeps, MarkSentKeeps, RecordLagKeeps, StoreEndedKeeps, DropSenderKeeps
     DEF PublicationStep
<1>6. CASE \E s \in Subscribers : ReaderCalls(s)
  BY <1>1, <1>6, TakeLagKeeps, ReceiveKeeps, MarkReadKeeps, TakeEndedKeeps DEF ReaderCalls
<1>7. CASE UNCHANGED fanoutVars
  BY <1>1, <1>7 DEF fanoutVars, Traceable, FanoutTyped, PublicationIsOrderly, View, Awaits
<1> QED BY <1>1, <1>2, <1>3, <1>4, <1>5, <1>6, <1>7 DEF FanoutNext

LEMMA FanoutIsTraceable == FanoutSpec => []Traceable
  BY InitIsTraceable, StepIsTraceable, PTL DEF FanoutSpec
-------------------------------------------------------------------------------
LEMMA RangeIsQueued ==
    ASSUME NEW r, r.queue \in Seq(Nat)
    PROVE  Queued(r) = ToSet(r.queue)
  BY DEF Queued, ToSet

LEMMA AccountedWhenTraceable == Traceable => EveryRevisionIsAccountedFor
<1>1. SUFFICES ASSUME Traceable, NEW s \in Subscribers, Reading(s),
                      NEW q \in seen.told[s].after + 1 .. registry.revision
               PROVE  q \in Traced(s)
  BY DEF EveryRevisionIsAccountedFor
<1>2. q \in Known(sub[s], seen.told[s]) \/ (View(s).awaits /\ q = registry.revision)
  BY <1>1, Parts DEF Fits, Accounted, Reads, Reading, View
<1>3. Queued(sub[s]) = ToSet(sub[s].queue)
  <2>1. sub[s].queue \in Seq(Nat) BY <1>1, Parts DEF SubRecords
  <2> QED BY <2>1, RangeIsQueued
<1>4. View(s).awaits => s \in registry.todo /\ ~Free
  BY <1>1, Parts DEF View, Awaits, Free, PublicationIsOrderly
<1> QED BY <1>2, <1>3, <1>4 DEF Known, Traced

(* No revision vanishes between the publisher and a reader, in whatever     *)
(* order their steps on the queue, the lag, the last revision and the       *)
(* terminal slot fall (SubscriberRegistry::publish and end,                 *)
(* BoundedSessionEvents::next).                                             *)
THEOREM EveryRevisionStaysAccountedFor == FanoutSpec => []EveryRevisionIsAccountedFor
  BY FanoutIsTraceable, AccountedWhenTraceable, PTL

LEMMA GapsNextWhenTraceable == Traceable => GapsAreReportedNext
<1>1. SUFFICES ASSUME Traceable, NEW s \in Subscribers,
                      NEW q \in Untold(View(s), seen.told[s])
               PROVE  Cardinality({r \in seen.told[s].delivered : r > q}) <= 1
  BY DEF GapsAreReportedNext, Untold, View
<1>2. PICK m \in Nat : \A d \in seen.told[s].delivered : d > q => d = m
  BY <1>1, Parts DEF Fits, GapsFirst
<1>3. {r \in seen.told[s].delivered : r > q} \subseteq {m} BY <1>2
<1>4. IsFiniteSet({m}) /\ Cardinality({m}) = 1 BY FS_Singleton
<1> QED BY <1>3, <1>4, FS_Subset

(* A gap is reported before what was queued after it: at most the one       *)
(* revision a call was already waiting for slips past (next takes the lag   *)
(* before it receives; publish records it when the queue is full).          *)
THEOREM GapsStayReportedNext == FanoutSpec => []GapsAreReportedNext
  BY FanoutIsTraceable, GapsNextWhenTraceable, PTL

LEMMA StepEndsLast ==
    ASSUME Traceable, [FanoutNext]_fanoutVars, NEW s \in Subscribers, seen.told[s].ended > 0
    PROVE  /\ seen'.told[s].delivered = seen.told[s].delivered
           /\ seen'.told[s].ended = seen.told[s].ended
<1>1. /\ sub[s].queue = <<>> /\ sub[s].end = NoEnd /\ sub[s].pc \notin {"absent", "received"}
  BY Parts DEF Fits, Enrolled
<1>3. CASE \E o \in Subscribers : Subscribe(o) \/ TakeLag(o) \/ MarkRead(o) \/ TakeEnded(o)
  <2>1. CASE \E o \in Subscribers : Subscribe(o) BY <2>1 DEF Subscribe
  <2>2. CASE \E o \in Subscribers : TakeLag(o) BY <2>2, Parts DEF TakeLag, ToldRecords
  <2>3. CASE \E o \in Subscribers : MarkRead(o) BY <1>1, <2>3 DEF MarkRead
  <2>4. ASSUME NEW o \in Subscribers, TakeEnded(o) PROVE seen'.told[s] = seen.told[s]
    <3>1. CASE o = s BY <1>1, <2>4, <3>1 DEF TakeEnded
    <3>2. CASE o # s
      <4> DEFINE u == [seen.told[o] EXCEPT !.delivered = @ \union {sub[o].end},
           !.ended = @ + 1]
      <4>1. \/ UNCHANGED seen
            \/ seen' = [seen EXCEPT !.told = [seen.told EXCEPT ![o] = u]]
        <5>1. CASE sub[o].end = NoEnd BY <2>4, <5>1 DEF TakeEnded
        <5>2. CASE sub[o].end # NoEnd BY <2>4, <5>2, TakeEndedTells
        <5> QED BY <5>1, <5>2
      <4> HIDE DEF u
      <4> QED BY <3>2, <4>1, Parts
    <3> QED BY <3>1, <3>2
  <2> QED BY <1>3, <2>1, <2>2, <2>3, <2>4
<1>4. CASE \E o \in Subscribers : GiveUpWaiting(o) BY <1>4 DEF GiveUpWaiting
<1>5. CASE \E o \in Subscribers : Unsubscribe(o) \/ PublicationStep(o) \/ Receive(o)
  BY <1>5
     DEF Unsubscribe, PublicationStep, TrySend, MarkSent, RecordLag, StoreEnded,
         DropSender, Receive
<1>6. CASE Publish \/ PublishEnded \/ CloseRegistry \/ Published
  BY <1>6 DEF Publish, PublishEnded, Publishes, CloseRegistry, Published
<1>7. CASE UNCHANGED fanoutVars BY <1>7 DEF fanoutVars
<1> QED BY <1>3, <1>4, <1>5, <1>6, <1>7 DEF FanoutNext, ReaderCalls

(* The end is delivered once, and nothing after it: a full queue does not   *)
(* lose it, and what was queued before it comes first (end stores it before *)
(* it drops the senders, next takes it when the channel is drained).        *)
THEOREM EndedStaysLast == FanoutSpec => EndedIsDeliveredLast
<1>1. Traceable /\ [FanoutNext]_fanoutVars =>
        [\A s \in Subscribers : seen.told[s].ended > 0 =>
            /\ seen'.told[s].delivered = seen.told[s].delivered
            /\ seen'.told[s].ended = seen.told[s].ended]_fanoutVars
  BY StepEndsLast
<1> QED BY <1>1, FanoutIsTraceable, PTL DEF FanoutSpec, EndedIsDeliveredLast

------------------------------------------------------------------------------
(* ArtifactFlights: requests that share a generation.                       *)

Outcomes == {"answered", "omitted", "failed", "sharedCancel", "interrupted"}

RequestRecords ==
    [pc : {"queued", "looking", "registering", "checking", "parked", "over"},
     look : SUBSET Outputs, missing : SUBSET Outputs, flight : SUBSET Requests,
     woken : BOOLEAN, outcome : Outcomes \union {"none"}]

FlightRecords ==
    [key : SUBSET Outputs, waiters : SUBSET Requests, cancelled : BOOLEAN,
     pc : {"none", "looking", "reserving", "starting", "generating", "publishing", "notifying",
           "gone"},
     look : SUBSET Outputs, todo : SUBSET Outputs, entries : SUBSET Outputs,
     result : {"none", "entries", "failed", "cancelled"}]

FlightsTypeOK ==
    /\ request \in [Requests -> RequestRecords]
    /\ flight \in [Requests -> FlightRecords]
    /\ jobs \in SUBSET Requests
    /\ published \in SUBSET Outputs
    /\ used \in [interrupts : Nat, failures : Nat, late : SUBSET Requests]

\* A group that is under way is the first of those to do.
GroupsHaveWork == \A f \in Requests :
    flight[f].pc \in {"starting", "generating", "publishing"} => flight[f].todo # {}

\* r waits for flight f, which is there, counts r, and makes what r is missing.
WaitsFor(r, f) ==
    /\ request[r].flight = {f} /\ r \in flight[f].waiters
    /\ flight[f].pc # "none" /\ flight[f].key = request[r].missing

\* A request that waits has its flight.
WaitersAreServed == \A r \in Requests : Waiting(r) => \E f \in Requests : WaitsFor(r, f)

\* A flight has the name of a request that will not lead another.
LeadersLeadOnce == \A f \in Requests : Alive(f) => request[f].pc \notin {"queued", "looking"}

\* Each output of the flight's key is still to be looked up, to be generated, or has its entry;
\* a result of entries has one for each.
Covers(fl) ==
    /\ fl.pc \in {"looking", "reserving", "starting", "generating", "publishing"} =>
          fl.result = "none"
    /\ fl.result \in {"none", "entries"} =>
          /\ fl.key \subseteq fl.look \union fl.todo \union fl.entries
          /\ fl.pc # "looking" => fl.look = {}
    /\ fl.result = "entries" => fl.todo = {} /\ fl.pc # "looking"
    /\ fl.result \in {"none", "entries", "failed", "cancelled"}
    /\ fl.result = "cancelled" => fl.cancelled

FlightsCover == \A f \in Requests : Alive(f) => Covers(flight[f])

\* Nobody waits for a flight that is cancelled but who joined it too late.
CancelledAreLeft == \A f \in Requests : flight[f].cancelled => flight[f].waiters \subseteq used.late

FlightsInv ==
    /\ FlightsTypeOK /\ GroupsHaveWork /\ WaitersAreServed /\ LeadersLeadOnce
    /\ FlightsCover /\ CancelledAreLeft
    /\ SharingIsInvisible

-----------------------------------------------------------------------------
(* The first of a set of outputs is one of them.                             *)

LEMMA LeastExists ==
    ASSUME NEW S \in SUBSET Nat, S # {}
    PROVE  \E m \in S : \A n \in S : m <= n
<1> DEFINE less == {pair \in Nat \X Nat : pair[1] < pair[2]}
<1>1. IsWellFoundedOn(less, Nat) BY NatLessThanWellFounded DEF OpToRel
<1>2. PICK m \in S : \A n \in S : <<n, m>> \notin less
  <2> HIDE DEF less
  <2> QED BY <1>1, WFMin
<1>3. \A n \in S : ~(n < m) BY <1>2
<1> QED BY <1>3

LEMMA FirstIsOne ==
    ASSUME NEW outputs \in SUBSET Outputs, outputs # {} PROVE FirstOf(outputs) \in outputs
<1>1. outputs \in SUBSET Nat BY FlightsAssumption
<1>2. \E o \in outputs : \A p \in outputs : o <= p BY <1>1, LeastExists
<1> QED BY <1>2 DEF FirstOf

-----------------------------------------------------------------------------
(* What the task of a flight does to it: key, waiters and cancellation stay, *)
(* and no output is lost.                                                    *)

Works(fl) == fl.pc \in {"starting", "generating", "publishing"} => fl.todo # {}

Continues(old, new) ==
    /\ new.key = old.key /\ new.waiters = old.waiters /\ new.cancelled = old.cancelled
    /\ old.pc # "none" /\ new.pc # "none"
    /\ Covers(new) /\ Works(new)

FlightAdvances(f) == \E fl \in FlightRecords :
    flight' = [flight EXCEPT ![f] = fl] /\ (fl = flight[f] \/ Continues(flight[f], fl))

TaskSteps(f) ==
    \/ FlightLooks(f) \/ FlightFails(f) \/ Reserve(f) \/ StartJob(f) \/ JobEnds(f)
    \/ GroupFails(f) \/ PublishArtifact(f) \/ FlightCancelled(f) \/ StoreResult(f)

LEMMA TaskAdvances ==
    ASSUME FlightsInv, NEW f \in Requests, TaskSteps(f) PROVE FlightAdvances(f)
<1>a. /\ flight \in [Requests -> FlightRecords] /\ published \in SUBSET Outputs
      /\ Alive(f) => Covers(flight[f])
      /\ Works(flight[f])
  BY DEF FlightsInv, FlightsTypeOK, FlightsCover, GroupsHaveWork, Works
<1>0. /\ flight \in [Requests -> FlightRecords] /\ flight[f] \in FlightRecords
      /\ flight[f].pc # "none" => Covers(flight[f])
      /\ Works(flight[f])
  BY <1>a DEF Alive
<1>1. CASE FlightLooks(f)
  <2> DEFINE o == FirstOf(flight[f].look)
             ready == [flight[f] EXCEPT !.pc = "reserving"]
             found == [flight[f] EXCEPT !.look = @ \ {o},
                         !.entries = IF o \in published THEN @ \union {o} ELSE @,
                         !.todo = IF o \in published THEN @ ELSE @ \union {o}]
  <2>1. CASE flight[f].look = {}
    <3>1. ready \in FlightRecords BY <1>0 DEF FlightRecords
    <3>2. Continues(flight[f], ready)
      BY <1>0, <1>1, <2>1 DEF FlightRecords, Continues, Covers, Works, FlightLooks
    <3>3. flight' = [flight EXCEPT ![f] = ready] BY <1>0, <1>1, <2>1 DEF FlightLooks, Task
    <3> HIDE DEF ready
    <3> QED BY <3>1, <3>2, <3>3 DEF FlightAdvances
  <2>2. CASE flight[f].look # {}
    <3>1. o \in flight[f].look
      <4>1. flight[f].look \in SUBSET Outputs BY <1>0 DEF FlightRecords
      <4> QED BY <4>1, <2>2, FirstIsOne
    <3> HIDE DEF o
    <3>2. found \in FlightRecords BY <1>0, <3>1 DEF FlightRecords
    <3>3. Continues(flight[f], found)
      BY <1>0, <1>1, <3>1 DEF FlightRecords, Continues, Covers, Works, FlightLooks
    <3>4. flight' = [flight EXCEPT ![f] = found]
      BY <1>0, <1>1, <2>2 DEF FlightRecords, FlightLooks, o
    <3> HIDE DEF found
    <3> QED BY <3>2, <3>3, <3>4 DEF FlightAdvances
  <2> QED BY <2>1, <2>2
<1>2. CASE FlightFails(f)
  <2> DEFINE fl == [flight[f] EXCEPT !.pc = "notifying", !.result = "failed"]
  <2>1. fl \in FlightRecords BY <1>0, <1>2 DEF FlightRecords, FlightFails
  <2>2. Continues(flight[f], fl)
    BY <1>0, <1>2 DEF FlightRecords, Continues, Covers, Works, FlightFails
  <2>3. flight' = [flight EXCEPT ![f] = fl] BY <1>0, <1>2 DEF FlightRecords, FlightFails
  <2> HIDE DEF fl
  <2> QED BY <2>1, <2>2, <2>3 DEF FlightAdvances
<1>3. CASE Reserve(f)
  <2> DEFINE fl == [flight[f] EXCEPT !.pc = "starting"]
  <2>1. fl \in FlightRecords BY <1>0, <1>3 DEF FlightRecords, Reserve, Task
  <2>2. Continues(flight[f], fl)
    BY <1>0, <1>3 DEF FlightRecords, Continues, Covers, Works, Reserve, Task
  <2>3. flight' = [flight EXCEPT ![f] = fl] BY <1>0, <1>3 DEF FlightRecords, Reserve, Task
  <2> HIDE DEF fl
  <2> QED BY <2>1, <2>2, <2>3 DEF FlightAdvances
<1>4. CASE StartJob(f)
  <2> DEFINE fl == [flight[f] EXCEPT !.pc = "generating"]
  <2>1. fl \in FlightRecords BY <1>0, <1>4 DEF FlightRecords, StartJob, Task
  <2>2. Continues(flight[f], fl)
    BY <1>0, <1>4 DEF FlightRecords, Continues, Covers, Works, StartJob, Task
  <2>3. flight' = [flight EXCEPT ![f] = fl] BY <1>0, <1>4 DEF FlightRecords, StartJob, Task
  <2> HIDE DEF fl
  <2> QED BY <2>1, <2>2, <2>3 DEF FlightAdvances
<1>5. CASE JobEnds(f)
  <2> DEFINE fl == [flight[f] EXCEPT !.pc = "publishing"]
  <2>1. CASE flight[f].pc # "generating"
    <3>1. flight' = [flight EXCEPT ![f] = flight[f]] BY <1>0, <1>5, <2>1 DEF JobEnds
    <3> QED BY <1>0, <3>1 DEF FlightAdvances
  <2>2. CASE flight[f].pc = "generating"
    <3>1. fl \in FlightRecords BY <1>0 DEF FlightRecords
    <3>2. Continues(flight[f], fl)
      BY <1>0, <2>2 DEF FlightRecords, Continues, Covers, Works
    <3>3. flight' = [flight EXCEPT ![f] = fl] BY <1>0, <1>5, <2>2 DEF JobEnds, Task
    <3> HIDE DEF fl
    <3> QED BY <3>1, <3>2, <3>3 DEF FlightAdvances
  <2> QED BY <2>1, <2>2
<1>6. CASE GroupFails(f)
  <2> DEFINE o == FirstOf(flight[f].todo)
             fl == [flight[f] EXCEPT !.pc = "reserving", !.todo = @ \ {o},
                                     !.entries = @ \union {o}]
  <2>1. o \in flight[f].todo
    <3>1. flight[f].todo # {} BY <1>6 DEF GroupFails
    <3>2. flight[f].todo \in SUBSET Outputs BY <1>0 DEF FlightRecords
    <3> QED BY <3>1, <3>2, FirstIsOne
  <2>2. flight' = [flight EXCEPT ![f] = fl] BY <1>0, <1>6 DEF FlightRecords, GroupFails
  <2> HIDE DEF o
  <2>3. fl \in FlightRecords BY <1>0, <2>1 DEF FlightRecords
  <2>4. Continues(flight[f], fl)
    BY <1>0, <1>6, <2>1 DEF FlightRecords, Continues, Covers, Works, GroupFails
  <2> HIDE DEF fl
  <2> QED BY <2>2, <2>3, <2>4 DEF FlightAdvances
<1>7. CASE PublishArtifact(f)
  <2> DEFINE o == FirstOf(flight[f].todo)
             fl == [flight[f] EXCEPT !.pc = "reserving", !.todo = @ \ {o},
                                     !.entries = @ \union {o}]
  <2>1. o \in flight[f].todo
    <3>1. flight[f].todo # {} BY <1>0, <1>7 DEF PublishArtifact, Works
    <3>2. flight[f].todo \in SUBSET Outputs BY <1>0 DEF FlightRecords
    <3> QED BY <3>1, <3>2, FirstIsOne
  <2>2. flight' = [flight EXCEPT ![f] = fl] BY <1>0, <1>7 DEF FlightRecords, PublishArtifact
  <2> HIDE DEF o
  <2>3. fl \in FlightRecords BY <1>0, <2>1 DEF FlightRecords
  <2>4. Continues(flight[f], fl)
    BY <1>0, <1>7, <2>1 DEF FlightRecords, Continues, Covers, Works, PublishArtifact
  <2> HIDE DEF fl
  <2> QED BY <2>2, <2>3, <2>4 DEF FlightAdvances
<1>8. CASE FlightCancelled(f)
  <2> DEFINE fl == [flight[f] EXCEPT !.pc = "notifying", !.result = "cancelled"]
  <2>1. fl \in FlightRecords BY <1>0, <1>8 DEF FlightRecords, FlightCancelled
  <2>2. Continues(flight[f], fl)
    BY <1>0, <1>8 DEF FlightRecords, Continues, Covers, Works, FlightCancelled
  <2>3. flight' = [flight EXCEPT ![f] = fl] BY <1>0, <1>8 DEF FlightRecords, FlightCancelled
  <2> HIDE DEF fl
  <2> QED BY <2>1, <2>2, <2>3 DEF FlightAdvances
<1>9. CASE StoreResult(f)
  <2> DEFINE fl == [flight[f] EXCEPT !.pc = "notifying", !.result = "entries"]
  <2>1. fl \in FlightRecords BY <1>0, <1>9 DEF FlightRecords, StoreResult
  <2>2. Continues(flight[f], fl)
    BY <1>0, <1>9 DEF FlightRecords, Continues, Covers, Works, StoreResult
  <2>3. flight' = [flight EXCEPT ![f] = fl] BY <1>0, <1>9 DEF FlightRecords, StoreResult
  <2> HIDE DEF fl
  <2> QED BY <2>1, <2>2, <2>3 DEF FlightAdvances
<1> QED BY <1>1, <1>2, <1>3, <1>4, <1>5, <1>6, <1>7, <1>8, <1>9 DEF TaskSteps

\* A step of a task changes its flight only, and what is counted.
LEMMA TaskKeepsRest ==
    ASSUME FlightsInv, NEW f \in Requests, TaskSteps(f)
    PROVE  /\ request' = request /\ used'.late = used.late
           /\ jobs' \in SUBSET Requests /\ published' \in SUBSET Outputs
           /\ used' \in [interrupts : Nat, failures : Nat, late : SUBSET Requests]
<1>a. FlightsTypeOK BY DEF FlightsInv
<1>1. request' = request
  BY DEF TaskSteps, FlightLooks, FlightFails, Reserve, StartJob, JobEnds, GroupFails,
         PublishArtifact, FlightCancelled, StoreResult
<1>2. used' = used \/ used' = [used EXCEPT !.failures = @ + 1]
  BY DEF TaskSteps, FlightLooks, FlightFails, Reserve, StartJob, JobEnds, GroupFails,
         PublishArtifact, FlightCancelled, StoreResult
<1>3. used'.late = used.late
      /\ used' \in [interrupts : Nat, failures : Nat, late : SUBSET Requests]
  BY <1>a, <1>2 DEF FlightsTypeOK
<1>4. jobs' \in SUBSET Requests
  BY <1>a DEF FlightsTypeOK, TaskSteps, FlightLooks, FlightFails, Reserve, StartJob, JobEnds,
              GroupFails, PublishArtifact, FlightCancelled, StoreResult
<1>5. published' \in SUBSET Outputs
  <2>1. CASE PublishArtifact(f)
    <3>1. flight[f].todo # {} /\ flight[f].todo \in SUBSET Outputs
      BY <1>a, <2>1 DEF FlightsInv, FlightsTypeOK, FlightRecords, GroupsHaveWork, PublishArtifact
    <3>2. FirstOf(flight[f].todo) \in Outputs BY <3>1, FirstIsOne
    <3> QED BY <1>a, <2>1, <3>2 DEF FlightsTypeOK, PublishArtifact
  <2>2. CASE ~PublishArtifact(f)
    BY <1>a, <2>2 DEF FlightsTypeOK, TaskSteps, FlightLooks, FlightFails, Reserve, StartJob,
                      JobEnds, GroupFails, FlightCancelled, StoreResult
  <2> QED BY <2>1, <2>2
<1> QED BY <1>1, <1>3, <1>4, <1>5

\* The flights of others and the requests are as they were.
LEMMA TaskKeepsInv ==
    ASSUME FlightsInv, NEW f \in Requests, TaskSteps(f) PROVE FlightsInv'
<1>1. /\ request' = request /\ used'.late = used.late
      /\ jobs' \in SUBSET Requests /\ published' \in SUBSET Outputs
      /\ used' \in [interrupts : Nat, failures : Nat, late : SUBSET Requests]
  BY TaskKeepsRest
<1>2. PICK fl \in FlightRecords :
        flight' = [flight EXCEPT ![f] = fl] /\ (fl = flight[f] \/ Continues(flight[f], fl))
  BY TaskAdvances DEF FlightAdvances
<1>3. /\ request \in [Requests -> RequestRecords] /\ flight \in [Requests -> FlightRecords]
  BY DEF FlightsInv, FlightsTypeOK
<1>4. /\ fl.key = flight[f].key /\ fl.waiters = flight[f].waiters
      /\ fl.cancelled = flight[f].cancelled
      /\ fl.pc = "none" <=> flight[f].pc = "none"
  BY <1>2, <1>3 DEF Continues, FlightRecords
<1>5. fl.pc # "none" => Covers(fl)
  BY <1>2, <1>3 DEF Continues, FlightsInv, FlightsCover, Alive
<1>6. Works(fl)
  BY <1>2, <1>3 DEF Continues, Works, FlightsInv, GroupsHaveWork
<1>7. flight'[f] = fl /\ \A g \in Requests \ {f} : flight'[g] = flight[g] BY <1>2, <1>3
<1>8. FlightsTypeOK' BY <1>1, <1>2, <1>3 DEF FlightsTypeOK
<1>9. GroupsHaveWork' BY <1>6, <1>7 DEF FlightsInv, GroupsHaveWork, Works
<1>10. WaitersAreServed'
  <2>1. \A r, g \in Requests : WaitsFor(r, g) => WaitsFor(r, g)' BY <1>1, <1>4, <1>7 DEF WaitsFor
  <2> QED BY <1>1, <2>1 DEF FlightsInv, WaitersAreServed, Waiting
<1>11. LeadersLeadOnce' BY <1>1, <1>4, <1>7 DEF FlightsInv, LeadersLeadOnce, Alive
<1>12. FlightsCover'
  <2>1. ASSUME NEW g \in Requests, flight'[g].pc # "none" PROVE Covers(flight'[g])
    BY <1>5, <1>7, <2>1 DEF FlightsInv, FlightsCover, Alive
  <2> QED BY <2>1 DEF FlightsCover, Alive, Covers
<1>13. CancelledAreLeft' BY <1>1, <1>4, <1>7 DEF FlightsInv, CancelledAreLeft
<1>14. SharingIsInvisible'
  BY <1>1 DEF FlightsInv, SharingIsInvisible, OnlyLatecomersShareACancellation, NoOutputIsOmitted
<1> QED BY <1>8, <1>9, <1>10, <1>11, <1>12, <1>13, <1>14 DEF FlightsInv

-----------------------------------------------------------------------------
(* Steps of a request that leave the flights alone.                          *)

\* It waits on, for the same flight, or it does not wait; it does not become a leader anew; and
\* it does not end with an error of sharing.
MovesOn(old, new) ==
    /\ new.pc \in {"registering", "checking", "parked"} =>
          /\ old.pc \in {"registering", "checking", "parked"}
          /\ new.flight = old.flight /\ new.missing = old.missing
    /\ new.pc \in {"queued", "looking"} => old.pc \in {"queued", "looking"}
    /\ new.outcome = old.outcome \/ new.outcome \notin {"omitted", "sharedCancel"}

RequestMoves(r) == \E q \in RequestRecords :
    request' = [request EXCEPT ![r] = q] /\ MovesOn(request[r], q)

Over(q, outcome) ==
    [q EXCEPT !.pc = "over", !.outcome = outcome, !.flight = {}, !.look = {}, !.missing = {},
              !.woken = FALSE]

LEMMA EndsEffect ==
    ASSUME FlightsInv, NEW r \in Requests, NEW outcome \in Outcomes, Ends(r, outcome)
    PROVE  /\ Over(request[r], outcome) \in RequestRecords
           /\ request' = [request EXCEPT ![r] = Over(request[r], outcome)]
           /\ Over(request[r], outcome).pc = "over"
           /\ Over(request[r], outcome).outcome = outcome
<1>1. request \in [Requests -> RequestRecords] /\ request[r] \in RequestRecords
  BY DEF FlightsInv, FlightsTypeOK
<1>2. Over(request[r], outcome) \in RequestRecords BY <1>1 DEF Over, RequestRecords, Outcomes
<1>3. request' = [request EXCEPT ![r] = Over(request[r], outcome)] BY <1>1 DEF Ends, Over
<1> QED BY <1>1, <1>2, <1>3 DEF Over, RequestRecords

Parks(r) == CheckResult(r) /\ \A f \in request[r].flight : flight[f].result = "none"

RequestSteps(r) ==
    \/ AcquireRequest(r) \/ LookUp(r) \/ AllHit(r) \/ EnableNotified(r) \/ Wake(r) \/ Parks(r)
    \/ Interrupt(r) /\ ~Waiting(r)

LEMMA RequestStepMoves ==
    ASSUME FlightsInv, NEW r \in Requests, RequestSteps(r) PROVE RequestMoves(r)
<1>0. request \in [Requests -> RequestRecords] /\ request[r] \in RequestRecords
  BY DEF FlightsInv, FlightsTypeOK
<1>1. CASE AcquireRequest(r)
  <2> DEFINE q == [request[r] EXCEPT !.pc = "looking"]
  <2>1. q \in RequestRecords BY <1>0 DEF RequestRecords
  <2>2. MovesOn(request[r], q) BY <1>0, <1>1 DEF RequestRecords, MovesOn, AcquireRequest
  <2>3. request' = [request EXCEPT ![r] = q] BY <1>0, <1>1 DEF RequestRecords, AcquireRequest
  <2> HIDE DEF q
  <2> QED BY <2>1, <2>2, <2>3 DEF RequestMoves
<1>2. CASE EnableNotified(r)
  <2> DEFINE q == [request[r] EXCEPT !.pc = "checking", !.woken = FALSE]
  <2>1. q \in RequestRecords BY <1>0 DEF RequestRecords
  <2>2. MovesOn(request[r], q) BY <1>0, <1>2 DEF RequestRecords, MovesOn, EnableNotified
  <2>3. request' = [request EXCEPT ![r] = q] BY <1>0, <1>2 DEF RequestRecords, EnableNotified
  <2> HIDE DEF q
  <2> QED BY <2>1, <2>2, <2>3 DEF RequestMoves
<1>3. CASE Wake(r)
  <2> DEFINE q == [request[r] EXCEPT !.pc = "registering"]
  <2>1. q \in RequestRecords BY <1>0 DEF RequestRecords
  <2>2. MovesOn(request[r], q) BY <1>0, <1>3 DEF RequestRecords, MovesOn, Wake
  <2>3. request' = [request EXCEPT ![r] = q] BY <1>0, <1>3 DEF RequestRecords, Wake
  <2> HIDE DEF q
  <2> QED BY <2>1, <2>2, <2>3 DEF RequestMoves
<1>4. CASE Parks(r)
  <2> DEFINE q == [request[r] EXCEPT !.pc = "parked"]
  <2>1. q \in RequestRecords BY <1>0 DEF RequestRecords
  <2>2. MovesOn(request[r], q) BY <1>0, <1>4 DEF RequestRecords, MovesOn, Parks, CheckResult
  <2>3. request' = [request EXCEPT ![r] = q] BY <1>0, <1>4 DEF RequestRecords, Parks, CheckResult
  <2> HIDE DEF q
  <2> QED BY <2>1, <2>2, <2>3 DEF RequestMoves
<1>5. CASE LookUp(r)
  <2> DEFINE o == FirstOf(request[r].look)
             q == [request[r] EXCEPT !.look = @ \ {o},
                     !.missing = IF o \in published THEN @ ELSE @ \union {o}]
  <2>1. o \in Outputs
    <3>1. request[r].look # {} BY <1>5 DEF LookUp
    <3>2. request[r].look \in SUBSET Outputs BY <1>0 DEF RequestRecords
    <3> QED BY <3>1, <3>2, FirstIsOne
  <2>2. request' = [request EXCEPT ![r] = q] BY <1>0, <1>5 DEF RequestRecords, LookUp
  <2> HIDE DEF o
  <2>3. q \in RequestRecords BY <1>0, <2>1 DEF RequestRecords
  <2>4. MovesOn(request[r], q) BY <1>0, <1>5 DEF RequestRecords, MovesOn, LookUp
  <2> HIDE DEF q
  <2> QED BY <2>2, <2>3, <2>4 DEF RequestMoves
<1>6. ASSUME NEW outcome \in Outcomes, Ends(r, outcome),
             outcome \notin {"omitted", "sharedCancel"}
      PROVE  RequestMoves(r)
  BY <1>6, EndsEffect DEF RequestMoves, MovesOn
<1>7. CASE AllHit(r)
  <2>1. Ends(r, "answered") BY <1>7 DEF AllHit
  <2> QED BY <2>1, <1>6 DEF Outcomes
<1>8. CASE Interrupt(r)
  <2>1. Ends(r, "interrupted") BY <1>8 DEF Interrupt
  <2> QED BY <2>1, <1>6 DEF Outcomes
<1> QED BY <1>1, <1>2, <1>3, <1>4, <1>5, <1>7, <1>8 DEF RequestSteps

LEMMA RequestKeepsRest ==
    ASSUME FlightsInv, NEW r \in Requests, RequestSteps(r)
    PROVE  /\ flight' = flight /\ used'.late = used.late
           /\ jobs' \in SUBSET Requests /\ published' \in SUBSET Outputs
           /\ used' \in [interrupts : Nat, failures : Nat, late : SUBSET Requests]
<1>1. FlightsTypeOK BY DEF FlightsInv
<1>2. jobs' = jobs /\ published' = published
  BY DEF RequestSteps, AcquireRequest, LookUp, AllHit, EnableNotified, Wake, Parks, CheckResult,
         Interrupt
<1>3. flight' = flight
  BY DEF RequestSteps, AcquireRequest, LookUp, AllHit, EnableNotified, Wake, Parks, CheckResult,
         Interrupt
<1>4. used' = used \/ used' = [used EXCEPT !.interrupts = @ + 1]
  BY DEF RequestSteps, AcquireRequest, LookUp, AllHit, EnableNotified, Wake, Parks, CheckResult,
         Interrupt
<1> QED BY <1>1, <1>2, <1>3, <1>4 DEF FlightsTypeOK

LEMMA RequestKeepsInv ==
    ASSUME FlightsInv, NEW r \in Requests, RequestSteps(r) PROVE FlightsInv'
<1>1. /\ flight' = flight /\ used'.late = used.late
      /\ jobs' \in SUBSET Requests /\ published' \in SUBSET Outputs
      /\ used' \in [interrupts : Nat, failures : Nat, late : SUBSET Requests]
  BY RequestKeepsRest
<1>2. PICK q \in RequestRecords :
        request' = [request EXCEPT ![r] = q] /\ MovesOn(request[r], q)
  BY RequestStepMoves DEF RequestMoves
<1>3. /\ request \in [Requests -> RequestRecords] /\ flight \in [Requests -> FlightRecords]
  BY DEF FlightsInv, FlightsTypeOK
<1>4. request'[r] = q /\ \A s \in Requests \ {r} : request'[s] = request[s] BY <1>2, <1>3
<1>5. FlightsTypeOK' BY <1>1, <1>2, <1>3 DEF FlightsTypeOK
<1>6. GroupsHaveWork' /\ FlightsCover' /\ CancelledAreLeft'
  BY <1>1 DEF FlightsInv, GroupsHaveWork, FlightsCover, Alive, Covers, CancelledAreLeft
<1>7. WaitersAreServed'
  <2>1. ASSUME NEW s \in Requests, Waiting(s)' PROVE \E f \in Requests : WaitsFor(s, f)'
    <3>1. Waiting(s) /\ request'[s].flight = request[s].flight
          /\ request'[s].missing = request[s].missing
      BY <1>2, <1>4, <2>1 DEF Waiting, MovesOn
    <3>2. PICK f \in Requests : WaitsFor(s, f) BY <3>1 DEF FlightsInv, WaitersAreServed
    <3> QED BY <1>1, <3>1, <3>2 DEF WaitsFor
  <2> QED BY <2>1 DEF WaitersAreServed
<1>8. LeadersLeadOnce' BY <1>1, <1>2, <1>4 DEF FlightsInv, LeadersLeadOnce, Alive, MovesOn
<1>9. SharingIsInvisible'
  BY <1>1, <1>2, <1>4 DEF FlightsInv, SharingIsInvisible, OnlyLatecomersShareACancellation,
                          NoOutputIsOmitted, MovesOn
<1> QED BY <1>5, <1>6, <1>7, <1>8, <1>9 DEF FlightsInv

-----------------------------------------------------------------------------
(* A waiter leaves its flight.                                               *)

LEMMA LeaveEffect ==
    ASSUME FlightsInv, NEW f \in Requests, NEW r \in Requests, flight' = Leave(f, r)
    PROVE  \E fl \in FlightRecords :
             /\ flight' = [flight EXCEPT ![f] = fl]
             /\ \/ fl = NoFlight /\ flight[f].waiters = {r}
                \/ /\ fl.waiters = flight[f].waiters \ {r}
                   /\ fl.cancelled => flight[f].cancelled \/ flight[f].waiters = {r}
                   /\ flight[f].cancelled => fl.cancelled
                   /\ fl.key = flight[f].key /\ fl.pc = flight[f].pc /\ fl.look = flight[f].look
                   /\ fl.todo = flight[f].todo /\ fl.entries = flight[f].entries
                   /\ fl.result = flight[f].result
<1>1. flight \in [Requests -> FlightRecords] /\ flight[f] \in FlightRecords
  BY DEF FlightsInv, FlightsTypeOK
<1>2. CASE flight[f].pc = "gone" /\ flight[f].waiters = {r}
  <2>1. NoFlight \in FlightRecords BY DEF NoFlight, FlightRecords
  <2>2. flight' = [flight EXCEPT ![f] = NoFlight] BY <1>2 DEF Leave
  <2> QED BY <1>2, <2>1, <2>2
<1>3. CASE ~(flight[f].pc = "gone" /\ flight[f].waiters = {r})
  <2>1. PICK cancelled \in BOOLEAN :
          cancelled = (flight[f].cancelled \/ flight[f].waiters = {r})
    BY <1>1 DEF FlightRecords
  <2> DEFINE fl == [flight[f] EXCEPT !.waiters = @ \ {r}, !.cancelled = cancelled]
  <2>2. flight' = [flight EXCEPT ![f] = fl] BY <1>1, <1>3, <2>1 DEF Leave, FlightRecords
  <2>3. fl \in FlightRecords BY <1>1 DEF FlightRecords
  <2>4. /\ fl.waiters = flight[f].waiters \ {r} /\ fl.cancelled = cancelled
        /\ fl.key = flight[f].key /\ fl.pc = flight[f].pc /\ fl.look = flight[f].look
        /\ fl.todo = flight[f].todo /\ fl.entries = flight[f].entries
        /\ fl.result = flight[f].result
    BY <1>1 DEF FlightRecords
  <2> HIDE DEF fl
  <2> QED BY <2>1, <2>2, <2>3, <2>4
<1> QED BY <1>2, <1>3

\* The flights and requests of others are as they were, and so is what is left of this flight.
LEMMA LeavingKeepsInv ==
    ASSUME FlightsInv, NEW r \in Requests, NEW f \in Requests, WaitsFor(r, f),
           NEW outcome \in Outcomes, Ends(r, outcome), flight' = Leave(f, r),
           outcome # "omitted", outcome = "sharedCancel" => r \in used.late,
           jobs' = jobs, published' = published, used'.late = used.late,
           used' \in [interrupts : Nat, failures : Nat, late : SUBSET Requests]
    PROVE  FlightsInv'
<1>1. /\ request \in [Requests -> RequestRecords] /\ flight \in [Requests -> FlightRecords]
      /\ jobs \in SUBSET Requests /\ published \in SUBSET Outputs
  BY DEF FlightsInv, FlightsTypeOK
<1>2. PICK q \in RequestRecords :
        request' = [request EXCEPT ![r] = q] /\ q.pc = "over" /\ q.outcome = outcome
  BY EndsEffect
<1>3. PICK fl \in FlightRecords :
             /\ flight' = [flight EXCEPT ![f] = fl]
             /\ \/ fl = NoFlight /\ flight[f].waiters = {r}
                \/ /\ fl.waiters = flight[f].waiters \ {r}
                   /\ fl.cancelled => flight[f].cancelled \/ flight[f].waiters = {r}
                   /\ flight[f].cancelled => fl.cancelled
                   /\ fl.key = flight[f].key /\ fl.pc = flight[f].pc /\ fl.look = flight[f].look
                   /\ fl.todo = flight[f].todo /\ fl.entries = flight[f].entries
                   /\ fl.result = flight[f].result
  BY LeaveEffect
<1>4. /\ request'[r] = q /\ \A s \in Requests \ {r} : request'[s] = request[s]
      /\ flight'[f] = fl /\ \A g \in Requests \ {f} : flight'[g] = flight[g]
  BY <1>1, <1>2, <1>3
<1>5. NoFlight.pc = "none" /\ NoFlight.waiters = {} BY DEF NoFlight
<1>6. FlightsTypeOK' BY <1>1, <1>2, <1>3 DEF FlightsTypeOK
<1>7. GroupsHaveWork' BY <1>3, <1>4, <1>5 DEF FlightsInv, GroupsHaveWork
<1>8. WaitersAreServed'
  <2>1. ASSUME NEW s \in Requests, Waiting(s)' PROVE \E g \in Requests : WaitsFor(s, g)'
    <3>1. s # r /\ Waiting(s) BY <1>2, <1>4, <2>1 DEF Waiting
    <3>2. PICK g \in Requests : WaitsFor(s, g) BY <3>1 DEF FlightsInv, WaitersAreServed
    <3>3. CASE g # f BY <1>4, <3>1, <3>2, <3>3 DEF WaitsFor
    <3>4. CASE g = f
      <4>1. s \in flight[f].waiters \ {r} BY <3>1, <3>2, <3>4 DEF WaitsFor
      <4> QED BY <1>3, <1>4, <3>1, <3>2, <3>4, <4>1 DEF WaitsFor
    <3> QED BY <3>3, <3>4
  <2> QED BY <2>1 DEF WaitersAreServed
<1>9. LeadersLeadOnce' BY <1>2, <1>3, <1>4, <1>5 DEF FlightsInv, LeadersLeadOnce, Alive
<1>10. FlightsCover'
  <2>1. ASSUME NEW g \in Requests, flight'[g].pc # "none" PROVE Covers(flight'[g])
    <3>1. flight[g].pc # "none" /\ Covers(flight[g])
      BY <1>3, <1>4, <1>5, <2>1 DEF FlightsInv, FlightsCover, Alive
    <3>2. CASE g # f BY <1>4, <3>1, <3>2
    <3>3. CASE g = f BY <1>3, <1>4, <1>5, <2>1, <3>1, <3>3 DEF Covers
    <3> QED BY <3>2, <3>3
  <2> QED BY <2>1 DEF FlightsCover, Alive, Covers
<1>11. CancelledAreLeft'
  <2>1. ASSUME NEW g \in Requests, flight'[g].cancelled
        PROVE  flight'[g].waiters \subseteq used.late
    <3>1. flight[g].cancelled => flight[g].waiters \subseteq used.late
      BY DEF FlightsInv, CancelledAreLeft
    <3>2. CASE g # f BY <1>4, <2>1, <3>1, <3>2
    <3>3. CASE g = f BY <1>3, <1>4, <1>5, <2>1, <3>1, <3>3
    <3> QED BY <3>2, <3>3
  <2> QED BY <2>1 DEF CancelledAreLeft
<1>12. SharingIsInvisible'
  BY <1>2, <1>4 DEF FlightsInv, SharingIsInvisible, OnlyLatecomersShareACancellation,
                    NoOutputIsOmitted
<1> QED BY <1>6, <1>7, <1>8, <1>9, <1>10, <1>11, <1>12 DEF FlightsInv

\* What a request is told of its flight's result.
LEMMA OutcomeIsFair ==
    ASSUME FlightsInv, NEW r \in Requests, NEW f \in Requests, WaitsFor(r, f),
           flight[f].result # "none"
    PROVE  /\ OutcomeOf(r, f) \in Outcomes \ {"omitted"}
           /\ OutcomeOf(r, f) = "sharedCancel" => r \in used.late
<1>1. Covers(flight[f]) /\ flight[f].key = request[r].missing /\ r \in flight[f].waiters
  BY DEF FlightsInv, FlightsCover, Alive, WaitsFor
<1>2. CASE flight[f].result = "cancelled"
  BY <1>1, <1>2 DEF FlightsInv, CancelledAreLeft, Covers, OutcomeOf, Outcomes
<1>3. CASE flight[f].result = "failed" BY <1>3 DEF OutcomeOf, Outcomes
<1>4. CASE flight[f].result = "entries"
  <2>1. request[r].missing \subseteq flight[f].entries BY <1>1, <1>4 DEF Covers
  <2> QED BY <1>4, <2>1 DEF OutcomeOf, Outcomes
<1> QED BY <1>1, <1>2, <1>3, <1>4 DEF Covers

LEMMA CheckKeepsInv ==
    ASSUME FlightsInv, NEW r \in Requests, CheckResult(r) PROVE FlightsInv'
<1>1. Waiting(r) BY DEF CheckResult, Waiting
<1>2. PICK f \in Requests : WaitsFor(r, f) BY <1>1 DEF FlightsInv, WaitersAreServed
<1>3. request[r].flight = {f} BY <1>2 DEF WaitsFor
<1>4. CASE flight[f].result = "none"
  <2>1. Parks(r) BY <1>3, <1>4 DEF Parks
  <2> QED BY <2>1, RequestKeepsInv DEF RequestSteps
<1>5. CASE flight[f].result # "none"
  <2>1. /\ Ends(r, OutcomeOf(r, f)) /\ flight' = Leave(f, r)
        /\ jobs' = jobs /\ published' = published /\ used' = used
    BY <1>3, <1>5 DEF CheckResult
  <2>2. used \in [interrupts : Nat, failures : Nat, late : SUBSET Requests]
    BY DEF FlightsInv, FlightsTypeOK
  <2>3. /\ OutcomeOf(r, f) \in Outcomes /\ OutcomeOf(r, f) # "omitted"
        /\ OutcomeOf(r, f) = "sharedCancel" => r \in used.late
    BY <1>2, <1>5, OutcomeIsFair
  <2> QED BY <1>2, <2>1, <2>2, <2>3, LeavingKeepsInv
<1> QED BY <1>4, <1>5

LEMMA InterruptKeepsInv ==
    ASSUME FlightsInv, NEW r \in Requests, Interrupt(r) PROVE FlightsInv'
<1>1. CASE ~Waiting(r) BY <1>1, RequestKeepsInv DEF RequestSteps
<1>2. CASE Waiting(r)
  <2>1. PICK f \in Requests : WaitsFor(r, f) BY <1>2 DEF FlightsInv, WaitersAreServed
  <2>2. /\ Ends(r, "interrupted") /\ flight' = Leave(f, r)
        /\ jobs' = jobs /\ published' = published
        /\ used' = [used EXCEPT !.interrupts = @ + 1]
    BY <1>2, <2>1 DEF Interrupt, WaitsFor
  <2>3. /\ used' \in [interrupts : Nat, failures : Nat, late : SUBSET Requests]
        /\ used'.late = used.late
    BY <2>2 DEF FlightsInv, FlightsTypeOK
  <2>4. "interrupted" \in Outcomes BY DEF Outcomes
  <2> QED BY <2>1, <2>2, <2>3, <2>4, LeavingKeepsInv
<1> QED BY <1>1, <1>2

-----------------------------------------------------------------------------
(* A request joins a flight that is there, or leads one.                     *)

LEMMA JoinKeepsInv ==
    ASSUME FlightsInv, NEW r \in Requests, Join(r) PROVE FlightsInv'
<1> DEFINE missing == request[r].missing
           same == {f \in Requests : Alive(f) /\ SameKey(f, missing)}
           Joined(f) == [request[r] EXCEPT !.pc = "registering", !.flight = {f}]
<1>1. /\ request \in [Requests -> RequestRecords] /\ flight \in [Requests -> FlightRecords]
      /\ jobs \in SUBSET Requests /\ published \in SUBSET Outputs
      /\ used \in [interrupts : Nat, failures : Nat, late : SUBSET Requests]
      /\ missing \in SUBSET Outputs
  BY DEF FlightsInv, FlightsTypeOK, RequestRecords
<1>2. \A f \in Requests :
        /\ Joined(f) \in RequestRecords /\ Joined(f).pc = "registering"
        /\ Joined(f).flight = {f} /\ Joined(f).missing = missing
        /\ Joined(f).outcome = request[r].outcome
  <2>1. request[r] \in RequestRecords BY <1>1
  <2> TAKE f \in Requests
  <2> QED BY <2>1 DEF RequestRecords
<1>3. \A f \in Requests : [request EXCEPT ![r].pc = "registering", ![r].flight = {f}]
                              = [request EXCEPT ![r] = Joined(f)]
  BY <1>1 DEF RequestRecords
<1>4. request[r].pc = "looking" /\ jobs' = jobs /\ published' = published BY DEF Join
<1>5. CASE same # {}
  <2>1. PICK f \in same :
          /\ request' = [request EXCEPT ![r].pc = "registering", ![r].flight = {f}]
          /\ flight' = [flight EXCEPT ![f].waiters = @ \union {r}]
          /\ used' = IF flight[f].cancelled THEN [used EXCEPT !.late = @ \union {r}] ELSE used
    BY <1>5 DEF Join
  <2>2. f \in Requests /\ flight[f].pc # "none" /\ flight[f].key = missing
    BY <2>1 DEF Alive, SameKey
  <2> DEFINE q == Joined(f)
             fl == [flight[f] EXCEPT !.waiters = @ \union {r}]
  <2>3. request' = [request EXCEPT ![r] = q] BY <1>3, <2>1, <2>2
  <2>4. /\ q \in RequestRecords /\ q.pc = "registering" /\ q.flight = {f} /\ q.missing = missing
        /\ q.outcome = request[r].outcome
    BY <1>2, <2>2
  <2>5. flight' = [flight EXCEPT ![f] = fl] BY <1>1, <2>1, <2>2
  <2>6. /\ fl \in FlightRecords /\ fl.waiters = flight[f].waiters \union {r}
        /\ fl.cancelled = flight[f].cancelled /\ fl.key = missing /\ fl.pc = flight[f].pc
        /\ fl.look = flight[f].look /\ fl.todo = flight[f].todo
        /\ fl.entries = flight[f].entries /\ fl.result = flight[f].result
    BY <1>1, <2>2 DEF FlightRecords
  <2>7. /\ used' \in [interrupts : Nat, failures : Nat, late : SUBSET Requests]
        /\ used.late \subseteq used'.late
        /\ flight[f].cancelled => r \in used'.late
    BY <1>1, <2>1, <2>2
  <2> HIDE DEF q, fl, missing, same, Joined
  <2>8. /\ request'[r] = q /\ \A s \in Requests \ {r} : request'[s] = request[s]
        /\ flight'[f] = fl /\ \A g \in Requests \ {f} : flight'[g] = flight[g]
    BY <1>1, <2>2, <2>3, <2>5
  <2>9. FlightsTypeOK' BY <1>1, <1>4, <2>2, <2>3, <2>4, <2>5, <2>6, <2>7 DEF FlightsTypeOK
  <2>10. GroupsHaveWork' BY <2>2, <2>6, <2>8 DEF FlightsInv, GroupsHaveWork
  <2>11. WaitersAreServed'
    <3>1. ASSUME NEW s \in Requests, Waiting(s)' PROVE \E g \in Requests : WaitsFor(s, g)'
      <4>1. CASE s = r BY <2>2, <2>4, <2>6, <2>8, <4>1 DEF WaitsFor
      <4>2. CASE s # r
        <5>1. Waiting(s) BY <2>8, <3>1, <4>2 DEF Waiting
        <5>2. PICK g \in Requests : WaitsFor(s, g) BY <5>1 DEF FlightsInv, WaitersAreServed
        <5>3. CASE g # f BY <2>8, <4>2, <5>2, <5>3 DEF WaitsFor
        <5>4. CASE g = f BY <2>2, <2>6, <2>8, <4>2, <5>2, <5>4 DEF WaitsFor
        <5> QED BY <5>3, <5>4
      <4> QED BY <4>1, <4>2
    <3> QED BY <3>1 DEF WaitersAreServed
  <2>12. LeadersLeadOnce' BY <2>2, <2>4, <2>6, <2>8 DEF FlightsInv, LeadersLeadOnce, Alive
  <2>13. FlightsCover'
    <3>1. ASSUME NEW g \in Requests, flight'[g].pc # "none" PROVE Covers(flight'[g])
      <4>1. flight[g].pc # "none" /\ Covers(flight[g])
        BY <2>2, <2>8, <3>1 DEF FlightsInv, FlightsCover, Alive
      <4>2. CASE g # f BY <2>8, <4>1, <4>2
      <4>3. CASE g = f BY <2>2, <2>6, <2>8, <4>1, <4>3 DEF Covers
      <4> QED BY <4>2, <4>3
    <3> QED BY <3>1 DEF FlightsCover, Alive, Covers
  <2>14. CancelledAreLeft'
    <3>1. ASSUME NEW g \in Requests, flight'[g].cancelled
          PROVE  flight'[g].waiters \subseteq used'.late
      <4>1. flight[g].cancelled => flight[g].waiters \subseteq used.late
        BY DEF FlightsInv, CancelledAreLeft
      <4>2. CASE g # f BY <2>7, <2>8, <3>1, <4>1, <4>2
      <4>3. CASE g = f BY <2>6, <2>7, <2>8, <3>1, <4>1, <4>3
      <4> QED BY <4>2, <4>3
    <3> QED BY <3>1 DEF CancelledAreLeft
  <2>15. SharingIsInvisible'
    BY <2>4, <2>7, <2>8 DEF FlightsInv, SharingIsInvisible, OnlyLatecomersShareACancellation,
                            NoOutputIsOmitted
  <2> QED BY <2>9, <2>10, <2>11, <2>12, <2>13, <2>14, <2>15 DEF FlightsInv
<1>6. CASE same = {}
  <2> DEFINE q == Joined(r)
             fl == [NoFlight EXCEPT !.key = missing, !.waiters = {r}, !.look = missing,
                                    !.pc = "looking"]
  <2>1. request' = [request EXCEPT ![r] = q] BY <1>3, <1>6 DEF Join
  <2>2. /\ q \in RequestRecords /\ q.pc = "registering" /\ q.flight = {r} /\ q.missing = missing
        /\ q.outcome = request[r].outcome
    BY <1>2
  <2>3. flight' = [flight EXCEPT ![r] = fl] /\ used' = used BY <1>6 DEF Join
  <2>4. /\ fl \in FlightRecords /\ fl.waiters = {r} /\ fl.cancelled = FALSE /\ fl.key = missing
        /\ fl.pc = "looking" /\ fl.look = missing /\ fl.todo = {} /\ fl.entries = {}
        /\ fl.result = "none"
    BY <1>1 DEF FlightRecords, NoFlight
  <2>5. flight[r].pc = "none" BY <1>4 DEF FlightsInv, LeadersLeadOnce, Alive
  <2> HIDE DEF q, fl, missing, same, Joined
  <2>6. /\ request'[r] = q /\ \A s \in Requests \ {r} : request'[s] = request[s]
        /\ flight'[r] = fl /\ \A g \in Requests \ {r} : flight'[g] = flight[g]
    BY <1>1, <2>1, <2>3
  <2>7. FlightsTypeOK' BY <1>1, <1>4, <2>1, <2>2, <2>3, <2>4 DEF FlightsTypeOK
  <2>8. GroupsHaveWork' BY <2>4, <2>6 DEF FlightsInv, GroupsHaveWork
  <2>9. WaitersAreServed'
    <3>1. ASSUME NEW s \in Requests, Waiting(s)' PROVE \E g \in Requests : WaitsFor(s, g)'
      <4>1. CASE s = r BY <2>2, <2>4, <2>6, <4>1 DEF WaitsFor
      <4>2. CASE s # r
        <5>1. Waiting(s) BY <2>6, <3>1, <4>2 DEF Waiting
        <5>2. PICK g \in Requests : WaitsFor(s, g) BY <5>1 DEF FlightsInv, WaitersAreServed
        <5>3. g # r BY <2>5, <5>2 DEF WaitsFor
        <5> QED BY <2>6, <4>2, <5>2, <5>3 DEF WaitsFor
      <4> QED BY <4>1, <4>2
    <3> QED BY <3>1 DEF WaitersAreServed
  <2>10. LeadersLeadOnce' BY <2>2, <2>6 DEF FlightsInv, LeadersLeadOnce, Alive
  <2>11. FlightsCover'
    <3>1. ASSUME NEW g \in Requests, flight'[g].pc # "none" PROVE Covers(flight'[g])
      <4>1. CASE g # r BY <2>6, <3>1, <4>1 DEF FlightsInv, FlightsCover, Alive
      <4>2. CASE g = r BY <2>4, <2>6, <4>2 DEF Covers
      <4> QED BY <4>1, <4>2
    <3> QED BY <3>1 DEF FlightsCover, Alive, Covers
  <2>12. CancelledAreLeft'
    <3>1. ASSUME NEW g \in Requests, flight'[g].cancelled
          PROVE  flight'[g].waiters \subseteq used.late
      BY <2>4, <2>6, <3>1 DEF FlightsInv, CancelledAreLeft
    <3> QED BY <2>3, <3>1 DEF CancelledAreLeft
  <2>13. SharingIsInvisible'
    BY <2>2, <2>3, <2>6 DEF FlightsInv, SharingIsInvisible, OnlyLatecomersShareACancellation,
                            NoOutputIsOmitted
  <2> QED BY <2>7, <2>8, <2>9, <2>10, <2>11, <2>12, <2>13 DEF FlightsInv
<1> QED BY <1>5, <1>6

-----------------------------------------------------------------------------
(* A task ends, and wakes those who wait for it.                             *)

LEMMA NotifyKeepsInv ==
    ASSUME FlightsInv, NEW f \in Requests, Notify(f) PROVE FlightsInv'
<1>1. /\ request \in [Requests -> RequestRecords] /\ flight \in [Requests -> FlightRecords]
      /\ jobs' = jobs /\ published' = published /\ used' = used
  BY DEF FlightsInv, FlightsTypeOK, Notify
<1>2. request' \in [Requests -> RequestRecords]
      /\ \A r \in Requests :
           /\ request'[r].pc = request[r].pc /\ request'[r].flight = request[r].flight
           /\ request'[r].missing = request[r].missing
           /\ request'[r].outcome = request[r].outcome
  <2> DEFINE Told(r) == IF f \in request[r].flight /\ request[r].pc \in {"checking", "parked"}
                        THEN [request[r] EXCEPT !.woken = TRUE] ELSE request[r]
  <2>1. \A r \in Requests :
           /\ Told(r) \in RequestRecords /\ Told(r).pc = request[r].pc
           /\ Told(r).flight = request[r].flight /\ Told(r).missing = request[r].missing
           /\ Told(r).outcome = request[r].outcome
    <3> TAKE r \in Requests
    <3>1. request[r] \in RequestRecords BY <1>1
    <3>2. Told(r) = request[r] \/ Told(r) = [request[r] EXCEPT !.woken = TRUE] OBVIOUS
    <3> HIDE DEF Told
    <3> QED BY <3>1, <3>2 DEF RequestRecords
  <2>2. request' = [r \in Requests |-> Told(r)] BY DEF Notify
  <2> HIDE DEF Told
  <2> QED BY <2>1, <2>2
<1>3. PICK fl \in FlightRecords :
        /\ flight' = [flight EXCEPT ![f] = fl]
        /\ \/ fl = NoFlight /\ flight[f].waiters = {}
           \/ /\ fl.key = flight[f].key /\ fl.waiters = flight[f].waiters
              /\ fl.cancelled = flight[f].cancelled /\ fl.pc = "gone"
              /\ fl.look = flight[f].look /\ fl.todo = flight[f].todo
              /\ fl.entries = flight[f].entries /\ fl.result = flight[f].result
  <2> DEFINE gone == [flight[f] EXCEPT !.pc = "gone"]
  <2>1. flight[f] \in FlightRecords /\ NoFlight \in FlightRecords
    BY <1>1 DEF NoFlight, FlightRecords
  <2>2. /\ gone \in FlightRecords
        /\ gone.key = flight[f].key /\ gone.waiters = flight[f].waiters
        /\ gone.cancelled = flight[f].cancelled /\ gone.pc = "gone"
        /\ gone.look = flight[f].look /\ gone.todo = flight[f].todo
        /\ gone.entries = flight[f].entries /\ gone.result = flight[f].result
    BY <2>1 DEF FlightRecords
  <2>3. \/ flight' = [flight EXCEPT ![f] = NoFlight] /\ flight[f].waiters = {}
        \/ flight' = [flight EXCEPT ![f] = gone]
    BY <1>1, <2>1 DEF Notify, TaskEnds, Task
  <2> HIDE DEF gone
  <2> QED BY <2>1, <2>2, <2>3
<1>4. flight'[f] = fl /\ \A g \in Requests \ {f} : flight'[g] = flight[g] BY <1>1, <1>3
<1>5. NoFlight.pc = "none" /\ NoFlight.waiters = {} /\ NoFlight.cancelled = FALSE BY DEF NoFlight
<1>6. flight[f].pc = "notifying" /\ Covers(flight[f])
  BY DEF Notify, FlightsInv, FlightsCover, Alive
<1>7. FlightsTypeOK' BY <1>1, <1>2, <1>3 DEF FlightsInv, FlightsTypeOK
<1>8. GroupsHaveWork' BY <1>3, <1>4, <1>5 DEF FlightsInv, GroupsHaveWork
<1>9. WaitersAreServed'
  <2>1. ASSUME NEW s \in Requests, Waiting(s)' PROVE \E g \in Requests : WaitsFor(s, g)'
    <3>1. Waiting(s) BY <1>2, <2>1 DEF Waiting
    <3>2. PICK g \in Requests : WaitsFor(s, g) BY <3>1 DEF FlightsInv, WaitersAreServed
    <3>3. CASE g # f BY <1>2, <1>4, <3>2, <3>3 DEF WaitsFor
    <3>4. CASE g = f BY <1>2, <1>3, <1>4, <3>2, <3>4 DEF WaitsFor
    <3> QED BY <3>3, <3>4
  <2> QED BY <2>1 DEF WaitersAreServed
<1>10. LeadersLeadOnce' BY <1>2, <1>4, <1>6 DEF FlightsInv, LeadersLeadOnce, Alive
<1>11. FlightsCover'
  <2>1. ASSUME NEW g \in Requests, flight'[g].pc # "none" PROVE Covers(flight'[g])
    <3>1. CASE g # f BY <1>4, <2>1, <3>1 DEF FlightsInv, FlightsCover, Alive
    <3>2. CASE g = f BY <1>3, <1>4, <1>5, <1>6, <2>1, <3>2 DEF Covers
    <3> QED BY <3>1, <3>2
  <2> QED BY <2>1 DEF FlightsCover, Alive, Covers
<1>12. CancelledAreLeft' BY <1>1, <1>3, <1>4, <1>5 DEF FlightsInv, CancelledAreLeft
<1>13. SharingIsInvisible'
  BY <1>1, <1>2 DEF FlightsInv, SharingIsInvisible, OnlyLatecomersShareACancellation,
                    NoOutputIsOmitted
<1> QED BY <1>7, <1>8, <1>9, <1>10, <1>11, <1>12, <1>13 DEF FlightsInv

-----------------------------------------------------------------------------
(* The specification.                                                        *)

LEMMA FlightsBegin == ASSUME FlightsInit PROVE FlightsInv
<1>1. request \in [Requests -> RequestRecords]
  BY FlightsAssumption DEF FlightsInit, RequestRecords
<1>2. \A f \in Requests : flight[f] = NoFlight BY DEF FlightsInit
<1>3. NoFlight \in FlightRecords /\ flight = [r \in Requests |-> NoFlight]
  BY DEF FlightsInit, NoFlight, FlightRecords
<1>4. FlightsTypeOK
  <2>1. used \in [interrupts : Nat, failures : Nat, late : SUBSET Requests] BY DEF FlightsInit
  <2> QED BY <1>1, <1>3, <2>1 DEF FlightsInit, FlightsTypeOK
<1>5. GroupsHaveWork /\ LeadersLeadOnce /\ FlightsCover /\ CancelledAreLeft
  BY <1>2 DEF GroupsHaveWork, LeadersLeadOnce, FlightsCover, CancelledAreLeft, Alive, NoFlight
<1>6. WaitersAreServed BY DEF FlightsInit, WaitersAreServed, Waiting
<1>7. SharingIsInvisible
  BY DEF FlightsInit, SharingIsInvisible, OnlyLatecomersShareACancellation, NoOutputIsOmitted
<1> QED BY <1>4, <1>5, <1>6, <1>7 DEF FlightsInv

LEMMA FlightsStep == ASSUME FlightsInv, [FlightsNext]_flightVars PROVE FlightsInv'
<1>1. CASE UNCHANGED flightVars
  BY <1>1 DEF flightVars, FlightsInv, FlightsTypeOK, GroupsHaveWork, WaitersAreServed, Waiting,
              WaitsFor, LeadersLeadOnce, FlightsCover, Alive, Covers, CancelledAreLeft,
              SharingIsInvisible, OnlyLatecomersShareACancellation, NoOutputIsOmitted
<1>2. ASSUME NEW r \in Requests,
             \/ RequestProceeds(r) \/ Interrupt(r)
             \/ FlightProceeds(r) \/ FlightFails(r) \/ GroupFails(r)
      PROVE  FlightsInv'
  <2>1. CASE RequestSteps(r) BY <2>1, RequestKeepsInv
  <2>2. CASE Join(r) BY <2>2, JoinKeepsInv
  <2>3. CASE CheckResult(r) BY <2>3, CheckKeepsInv
  <2>4. CASE Interrupt(r) BY <2>4, InterruptKeepsInv
  <2>5. CASE TaskSteps(r) BY <2>5, TaskKeepsInv
  <2>6. CASE Notify(r) BY <2>6, NotifyKeepsInv
  <2> QED
    BY <1>2, <2>1, <2>2, <2>3, <2>4, <2>5, <2>6
    DEF RequestProceeds, FlightProceeds, RequestSteps, TaskSteps
<1> QED BY <1>1, <1>2 DEF FlightsNext

\* Whatever joins, departures, failures and completions interleave, and for any requests, outputs
\* and limits: no request gets the cancellation of another unless it joined a flight that was
\* cancelled already, and none is told that the flight it joined left out one of its outputs.
THEOREM SharingStaysInvisible == FlightsSpec => []SharingIsInvisible
<1>1. FlightsInit => FlightsInv BY FlightsBegin
<1>2. FlightsInv /\ [FlightsNext]_flightVars => FlightsInv' BY FlightsStep
<1>3. FlightsInv => SharingIsInvisible BY DEF FlightsInv
<1> QED BY <1>1, <1>2, <1>3, PTL DEF FlightsSpec
==============================================================================
