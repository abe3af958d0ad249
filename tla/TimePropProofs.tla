--------------------------- MODULE TimePropProofs ---------------------------
(***************************************************************************)
(* For every length of the day, the cycle and the interval: no sample      *)
(* point of a cycle is sampled twice (NeverTwice of module TimeProp), none *)
(* before its window (NoneEarly), and none is lost in a cycle seen from    *)
(* its beginning that ends before midnight (NoPointLost).                  *)
(*                                                                         *)
(* The counts alone are not inductive.  What carries the first proof is    *)
(* that the points counted are the points done (TakenIsDone): both paths   *)
(* of the handler leave done points alone, and the one step that empties   *)
(* done within the cycles, EnterCycle, restarts the counts.  For the       *)
(* second the point noted for compensation must be due as well, and the    *)
(* index must be that of the time whenever the handler has run in this     *)
(* instant (EarlyInv).  For the third, a poll that leaves the sampling     *)
(* line free must have left no point due (LostInv): the line is free when  *)
(* the window of the next mark opens, because a run of sampling is over by *)
(* then.  The cycle arithmetic is in ElapsedFact, ClockFact, TickFact and  *)
(* DueFact.                                                                *)
(***************************************************************************)
EXTENDS TimeProp, TLAPS, FiniteSetTheorems, WellFoundedInduction

\* t has the fields of s_sched, whatever their values.
IsSched(t) == t = [phase |-> t.phase, bucket |-> t.bucket, start |-> t.start,
                   idx |-> t.idx, done |-> t.done, pending |-> t.pending,
                   delivered |-> t.delivered]

TakenIsDone ==
  /\ taken \in [Point -> 0 .. 1]
  /\ s.phase = "STARTUP" => taken = NoneTaken
  /\ \A i \in Point : taken[i] = 1 <=> i \in s.done

IInv == IsSched(s) /\ TakenIsDone

\* What the parts of the handler do to the done points and the phase.
LEMMA EnterCycleDone ==
  ASSUME NEW t, IsSched(t)
  PROVE  /\ IsSched(EnterCycle(t))
         /\ EnterCycle(t).phase = t.phase
         /\ EnterCycle(t).done = IF CycleIndex(t.start) # t.idx THEN {} ELSE t.done
  BY DEF EnterCycle, IsSched

LEMMA OnTimeDone ==
  ASSUME NEW t, NEW busy, IsSched(t)
  PROVE  /\ IsSched(OnTime(t, busy))
         /\ OnTime(t, busy).phase = t.phase
         /\ OnTime(t, busy).done = t.done \cup Started(t, busy)
<1>1. CASE Missed(t) = {}
  <2>1. OnTime(t, busy) = [t EXCEPT !.done = @ \cup Started(t, busy), !.pending = @]
    BY <1>1 DEF OnTime
  <2> QED
    BY <2>1 DEF IsSched
<1>2. CASE Missed(t) # {}
  <2>1. OnTime(t, busy) =
          [t EXCEPT !.done = @ \cup Started(t, busy), !.pending = Max(Missed(t))]
    BY <1>2 DEF OnTime
  <2> QED
    BY <2>1 DEF IsSched
<1> QED
  BY <1>1, <1>2

LEMMA LateDone ==
  ASSUME NEW t, NEW busy, IsSched(t)
  PROVE  /\ IsSched(Late(t, busy))
         /\ Late(t, busy).phase = t.phase
         /\ Late(t, busy).done = t.done \cup Compensated(t, busy)
<1>1. CASE busy
  <2>1. Late(t, busy) = [t EXCEPT !.done = @ \cup Compensated(t, busy), !.pending = @]
    BY <1>1 DEF Late
  <2> QED
    BY <2>1 DEF IsSched
<1>2. CASE ~busy
  <2>1. Late(t, busy) = [t EXCEPT !.done = @ \cup Compensated(t, busy), !.pending = None]
    BY <1>2 DEF Late
  <2> QED
    BY <2>1 DEF IsSched
<1> QED
  BY <1>1, <1>2

LEMMA DeliveryDone ==
  ASSUME NEW t, IsSched(t)
  PROVE  /\ IsSched(Delivery(t))
         /\ Delivery(t).phase = t.phase
         /\ Delivery(t).done = t.done
  BY DEF Delivery, IsSched

\* No path takes a point that is done.
LEMMA OnlyUndone ==
  ASSUME NEW t, NEW busy
  PROVE  Started(t, busy) \cap t.done = {} /\ Compensated(t, busy) \cap t.done = {}
  BY DEF Started, Undone, Compensated

LEMMA InitIInv == Init => IInv
<1> SUFFICES ASSUME Init PROVE IInv
  OBVIOUS
<1>1. s = Fresh /\ taken = NoneTaken
  BY DEF Init
<1> QED
  BY <1>1 DEF IInv, IsSched, TakenIsDone, Fresh, NoneTaken

LEMMA NextIInv == IInv /\ [Next]_vars => IInv'
<1> SUFFICES ASSUME IInv, [Next]_vars PROVE IInv'
  OBVIOUS
<1>1. CASE PollCycling
  <2> DEFINE a == EnterCycle(s)
             entered == CycleIndex(s.start) # s.idx
             onTime == Started(a, sampling)
             b == OnTime(a, sampling)
             busy == sampling \/ onTime # {}
             late == Compensated(b, busy)
             before == IF entered THEN NoneTaken ELSE taken
  <2>1. /\ s' = Delivery(Late(b, busy))
        /\ taken' = [i \in Point |-> before[i] + IF i \in onTime \cup late THEN 1 ELSE 0]
    BY <1>1 DEF PollCycling
  <2>2. IsSched(a) /\ a.phase = s.phase /\ a.done = IF entered THEN {} ELSE s.done
    BY EnterCycleDone DEF IInv
  <2>3. IsSched(b) /\ b.phase = a.phase /\ b.done = a.done \cup onTime
    <3> HIDE DEF a
    <3> QED
      BY <2>2, OnTimeDone
  <2>4. onTime \cap a.done = {} /\ late \cap b.done = {}
    <3> HIDE DEF a, b, busy
    <3> QED
      BY OnlyUndone
  <2>5. IsSched(s') /\ s'.phase = s.phase /\ s'.done = a.done \cup onTime \cup late
    <3> HIDE DEF a, b, busy, onTime
    <3>1. /\ IsSched(Late(b, busy)) /\ Late(b, busy).phase = b.phase
          /\ Late(b, busy).done = b.done \cup late
      BY <2>3, LateDone
    <3> QED
      BY <2>1, <2>2, <2>3, <3>1, DeliveryDone
  <2>6. before \in [Point -> 0 .. 1] /\ \A i \in Point : before[i] = 1 <=> i \in a.done
    <3> HIDE DEF a
    <3> QED
      BY <2>2 DEF IInv, TakenIsDone, NoneTaken
  <2>7. ASSUME NEW i \in Point
        PROVE  taken'[i] \in 0 .. 1 /\ (taken'[i] = 1 <=> i \in s'.done)
    <3>1. i \in onTime \cup late => before[i] = 0
      <4> HIDE DEF a, b, busy, onTime, late, before
      <4> QED
        BY <2>3, <2>4, <2>6
    <3> HIDE DEF a, b, busy, onTime, late, before
    <3> QED
      BY <2>1, <2>5, <2>6, <3>1
  <2>8. s.phase = "CYCLING"
    BY <1>1 DEF PollCycling
  <2> HIDE DEF a, b, busy, onTime, late, before
  <2>9. taken' \in [Point -> 0 .. 1]
    BY <2>1, <2>7
  <2> QED
    BY <2>5, <2>7, <2>8, <2>9 DEF IInv, TakenIsDone, IsSched, NoneTaken
<1>2. CASE PollStartup
  <2>1. s' = Anchored /\ taken' = taken /\ s.phase = "STARTUP"
    BY <1>2 DEF PollStartup
  <2>2. IsSched(s') /\ s'.phase = "CYCLING" /\ s'.done = {}
    BY <2>1 DEF Anchored, IInv, IsSched
  <2>3. taken' = NoneTaken
    BY <2>1 DEF IInv, TakenIsDone
  <2> QED
    BY <2>2, <2>3 DEF IInv, TakenIsDone, NoneTaken, IsSched
<1>3. CASE scheduler_start
  <2>1. s' = [Fresh EXCEPT !.phase = "STARTUP"] /\ taken' = NoneTaken
    BY <1>3 DEF scheduler_start
  <2>2. IsSched(s') /\ s'.done = {}
    BY <2>1 DEF Fresh, IsSched
  <2> QED
    BY <2>1, <2>2 DEF IInv, TakenIsDone, NoneTaken, IsSched, Point, SampleCount
<1>4. CASE scheduler_stop
  <2>1. s' = [s EXCEPT !.phase = "IDLE"] /\ taken' = taken
    BY <1>4 DEF scheduler_stop
  <2>2. IsSched(s') /\ s'.phase = "IDLE" /\ s'.done = s.done
    BY <2>1 DEF IInv, IsSched
  <2> QED
    BY <2>1, <2>2 DEF IInv, TakenIsDone
<1>5. CASE Environment \/ UNCHANGED vars
  <2>1. s' = s /\ taken' = taken
    BY <1>5 DEF Environment, vars
  <2> QED
    BY <2>1 DEF IInv, TakenIsDone, IsSched, NoneTaken, Point, SampleCount
<1> QED
  BY <1>1, <1>2, <1>3, <1>4, <1>5 DEF Next

(***************************************************************************)
(* In every cycle the on-time path and the compensation together take a    *)
(* point at most once, however long the day, the cycle and the interval.   *)
(***************************************************************************)
THEOREM TakenOnce == Spec => []NeverTwice
<1>1. IInv => NeverTwice
  BY DEF IInv, TakenIsDone, NeverTwice
<1> QED
  BY <1>1, InitIInv, NextIInv, PTL DEF Spec

-----------------------------------------------------------------------------
(* The time and the cycles: facts the switch mode's proof uses as well *)

LEMMA DivFact ==
  ASSUME NEW e \in Nat, NEW c \in Nat \ {0}
  PROVE  /\ e \div c \in Nat
         /\ (e \div c) * c <= e
         /\ e < (e \div c) * c + c
  BY SMT

LEMMA ClockTypes == Day = 6 * Hours /\ Day \in Nat \ {0} /\ Hours \in Nat \ {0}
                    /\ 3 * Cycle \in Nat \ {0} /\ Interval \in Nat \ {0}
                    /\ Point \subseteq Nat
  BY ClockAssumption DEF Day, Point, SampleCount

\* The place of the time in the cycle it belongs to.
LEMMA ElapsedFact ==
  ASSUME now \in 0 .. Day - 1, NEW h \in 0 .. Hours - 1
  PROVE  /\ Elapsed(h) \in Nat
         /\ CycleIndex(h) \in Nat
         /\ 3 * CycleIndex(h) * Cycle \in Nat
         /\ 3 * CycleIndex(h) * Cycle <= Elapsed(h)
         /\ Elapsed(h) < 3 * CycleIndex(h) * Cycle + 3 * Cycle
<1>1. Elapsed(h) \in Nat
  BY ClockTypes DEF Elapsed
<1> DEFINE e == Elapsed(h)
           c == 3 * Cycle
           k == e \div c
<1>2. k \in Nat /\ k * c <= e /\ e < k * c + c
  <2> HIDE DEF e, c
  <2> QED
    BY <1>1, ClockTypes, DivFact DEF e, c
<1>3. CycleIndex(h) = k
  BY DEF CycleIndex
<1>4. k * c = 3 * k * Cycle /\ k * c \in Nat
  <2> HIDE DEF k
  <2> QED
    BY <1>2, ClockAssumption
<1> QED
  BY <1>1, <1>2, <1>3, <1>4

\* The window the code tests is the window of the cycle, unless one cycle is
\* the whole day; and the other way round if the cycle ends before midnight.
\* What the code takes for past is past in the cycle, too.
LEMMA ClockFact ==
  ASSUME now \in 0 .. Day - 1, NEW h \in 0 .. Hours - 1, NEW q \in Nat
  PROVE  LET e == Elapsed(h)
             b == 3 * CycleIndex(h) * Cycle
         IN /\ Cycle < 2 * Hours /\ now \in {6 * h + b + q - 1, 6 * h + b + q}
                 => e - b \in {q - 1, q}
            /\ 6 * h + b + 3 * Cycle <= Day /\ e - b \in {q - 1, q}
                 => now \in {6 * h + b + q - 1, 6 * h + b + q}
            /\ now > 6 * h + b + q => e - b > q
<1> DEFINE e == Elapsed(h)
           b == 3 * CycleIndex(h) * Cycle
<1>1. e \in Nat /\ b \in Nat /\ b <= e /\ e < b + 3 * Cycle
  BY ElapsedFact
<1>2. h \in Nat /\ 6 * h < Day
  BY ClockTypes
<1>3. e = IF now >= 6 * h THEN now - 6 * h ELSE now + Day - 6 * h
  BY DEF Elapsed
<1> HIDE DEF e, b
<1>4. ASSUME Cycle < 2 * Hours, now \in {6 * h + b + q - 1, 6 * h + b + q}
      PROVE  e - b \in {q - 1, q}
  BY <1>1, <1>2, <1>3, <1>4, ClockTypes, ClockAssumption
<1>5. ASSUME 6 * h + b + 3 * Cycle <= Day, e - b \in {q - 1, q}
      PROVE  now \in {6 * h + b + q - 1, 6 * h + b + q}
  BY <1>1, <1>2, <1>3, <1>5, ClockTypes, ClockAssumption
<1>6. ASSUME now > 6 * h + b + q
      PROVE  e - b > q
  BY <1>1, <1>2, <1>3, <1>6, ClockTypes
<1> QED
  BY <1>4, <1>5, <1>6 DEF e, b

-----------------------------------------------------------------------------
(* No point before its window *)

\* A set of points has a greatest element: no infinite ascent in a finite set,
\* by the well-founded order of its subsets.
LEMMA GreatestFact ==
  ASSUME NEW n \in Int, NEW S \in SUBSET (0 .. n), S # {}
  PROVE  \E x \in S : \A y \in S : x >= y
<1> DEFINE Above(x) == {y \in S : y > x}
           T == {Above(x) : x \in S}
<1>1. IsWellFoundedOn(StrictSubsetOrdering(0 .. n), SUBSET (0 .. n))
  <2>1. IsFiniteSet(0 .. n)
    BY FS_Interval
  <2> HIDE DEF T
  <2>2. FiniteSubsetsOf(0 .. n) = SUBSET (0 .. n)
    BY <2>1, FS_FiniteSubsetsOfFinite
  <2> QED
    BY <2>2, FS_StrictSubsetOrderingWellFounded
<1>2. T \subseteq SUBSET (0 .. n) /\ T # {}
  OBVIOUS
<1>3. PICK U \in T : \A V \in T : <<V, U>> \notin StrictSubsetOrdering(0 .. n)
  <2> HIDE DEF T
  <2> QED
    BY <1>1, <1>2, WFMin
<1>4. PICK x \in S : U = Above(x)
  BY <1>3
<1>5. ASSUME NEW y \in S, y > x PROVE FALSE
  <2>1. ASSUME NEW z \in Above(y) PROVE z \in U
    BY <1>4, <1>5, <2>1
  <2>2. y \in U /\ y \notin Above(y)
    BY <1>4, <1>5
  <2>3. Above(y) \in T
    OBVIOUS
  <2>4. <<Above(y), U>> \notin StrictSubsetOrdering(0 .. n)
    BY <1>3, <2>3
  <2>5. Above(y) \in SUBSET (0 .. n) /\ U \in SUBSET (0 .. n)
    BY <1>2, <1>3, <2>3
  <2>6. Above(y) \subseteq U /\ Above(y) # U
    BY <2>1, <2>2
  <2> HIDE DEF Above, T
  <2> QED
    BY <2>4, <2>5, <2>6 DEF StrictSubsetOrdering
<1> QED
  BY <1>5

LEMMA MaxFact ==
  ASSUME NEW n \in Int, NEW S \in SUBSET (0 .. n), S # {}
  PROVE  Max(S) \in S
  BY GreatestFact DEF Max

\* The least element is the greatest of the mirror image.
LEMMA MinFact ==
  ASSUME NEW n \in Int, NEW S \in SUBSET (0 .. n), S # {}
  PROVE  Min(S) \in S /\ \A y \in S : Min(S) <= y
<1> DEFINE M == {n - x : x \in S}
<1>1. M \in SUBSET (0 .. n)
  BY SMT
<1>2. M # {}
  OBVIOUS
<1>3. \E m \in M : \A y \in M : m >= y
  <2> HIDE DEF M
  <2> QED
    BY <1>1, <1>2, GreatestFact
<1>4. PICK x \in S : \A y \in M : n - x >= y
  BY <1>3
<1>5. ASSUME NEW y \in S PROVE x <= y
  <2>1. n - x >= n - y
    BY <1>4
  <2> QED
    BY <2>1
<1> QED
  BY <1>5 DEF Min

\* Point i's window of the current cycle has opened.
Opened(i) == Into >= Offset(i) - 1

EarlyInv ==
  /\ now \in 0 .. Day - 1 /\ s.start \in 0 .. Hours - 1
  /\ s.phase = "STARTUP" => s.pending = None
  /\ Cycling /\ polled => s.idx = CycleIndex(s.start)
  /\ Cycling /\ s.idx = CycleIndex(s.start) =>
       /\ \A i \in Point : taken[i] = 1 => Opened(i)
       /\ s.pending # None => s.pending \in Point /\ Opened(s.pending)

LEMMA OffsetFact == ASSUME NEW i \in Point PROVE Offset(i) \in Nat
  BY ClockTypes DEF Offset

\* The handler's two tests, in terms of the cycle.
LEMMA OpenedFact ==
  ASSUME Cycle < 2 * Hours, now \in 0 .. Day - 1, NEW t, t.start \in 0 .. Hours - 1,
         t.idx = CycleIndex(t.start), NEW i \in Point, InWindow(At(t, i)) \/ Past(At(t, i))
  PROVE  Elapsed(t.start) - 3 * t.idx * Cycle >= Offset(i) - 1
<1> DEFINE h == 6 * t.start
           e == Elapsed(t.start)
           b == 3 * t.idx * Cycle
           q == Offset(i)
<1>1. e \in Nat /\ b \in Nat /\ h \in Nat /\ q \in Nat
  BY ElapsedFact, OffsetFact
<1>2. At(t, i) = h + b + q
  BY DEF At, SampleAt, CycleBase, Offset
<1>3. now \in {h + b + q - 1, h + b + q} \/ now > h + b + q
  <2> DEFINE at == At(t, i)
  <2>1. now \in {at - 1, at} \/ now > at
    BY DEF InWindow, Past
  <2>2. at = h + b + q
    BY <1>2
  <2> HIDE DEF at, h, b, q
  <2> QED
    BY <1>1, <2>1, <2>2
<1>4. /\ Cycle < 2 * Hours /\ now \in {h + b + q - 1, h + b + q} => e - b \in {q - 1, q}
      /\ now > h + b + q => e - b > q
  <2>1. q \in Nat
    BY <1>1
  <2> HIDE DEF q
  <2> QED
    BY <2>1, ClockFact
<1> HIDE DEF h, e, b, q
<1>5. e - b >= q - 1
  BY <1>1, <1>3, <1>4
<1> QED
  BY <1>5 DEF e, b, q

LEMMA EarlyInit == Init => EarlyInv
<1> SUFFICES ASSUME Init PROVE EarlyInv
  OBVIOUS
<1>1. s = [phase |-> "IDLE", bucket |-> 0, start |-> 0, idx |-> 0, done |-> {},
           pending |-> None, delivered |-> FALSE]
  BY DEF Init, Fresh
<1>2. now \in 0 .. Day - 1 /\ 0 \in 0 .. Hours - 1
  BY ClockTypes DEF Init, ClockInit
<1> QED
  BY <1>1, <1>2 DEF EarlyInv, Cycling

\* A tick goes on within the day that began with the anchor hour, or that day ends.
LEMMA TickFact ==
  ASSUME now \in 0 .. Day - 1, now' = (now + 1) % Day, NEW h \in 0 .. Hours - 1
  PROVE  /\ now' \in 0 .. Day - 1
         /\ \/ Elapsed(h)' = Elapsed(h) + 1
            \/ Elapsed(h) = Day - 1 /\ Elapsed(h)' = 0
<1>1. now' = IF now = Day - 1 THEN 0 ELSE now + 1
  <2>1. CASE now = Day - 1
    <3>1. Day % Day = 0
      BY ClockTypes, SMT
    <3> QED
      BY <2>1, <3>1, ClockTypes
  <2>2. CASE now # Day - 1
    <3> DEFINE d == Day
    <3>1. d \in Nat \ {0} /\ now \in 0 .. d - 1 /\ now # d - 1
      BY <2>2, ClockTypes
    <3> HIDE DEF d
    <3>2. (now + 1) % d = now + 1
      BY <3>1, SMTT(30)
    <3> QED
      BY <2>2, <3>2 DEF d
  <2> QED
    BY <2>1, <2>2
<1> QED
  BY <1>1, ClockTypes DEF Elapsed

LEMMA EarlyTick ==
  ASSUME Cycle < 2 * Hours, EarlyInv, Tick, UNCHANGED <<s, taken>>
  PROVE  EarlyInv'
<1>1. /\ polled \/ ~running
      /\ now' = (now + 1) % Day /\ polled' = FALSE /\ running' = running
  BY DEF Tick
<1>2. now \in 0 .. Day - 1 /\ s.start \in 0 .. Hours - 1
  BY DEF EarlyInv
<1>3. /\ now' \in 0 .. Day - 1
      /\ \/ Elapsed(s.start)' = Elapsed(s.start) + 1
         \/ Elapsed(s.start) = Day - 1 /\ Elapsed(s.start)' = 0
  <2>1. now' \in 0 .. Day - 1
    BY <1>1, <1>2, TickFact
  <2>2. PICK h : h = s.start
    OBVIOUS
  <2>3. \/ Elapsed(h)' = Elapsed(h) + 1
        \/ Elapsed(h) = Day - 1 /\ Elapsed(h)' = 0
    BY <1>1, <1>2, <2>2, TickFact
  <2>4. Elapsed(s.start)' = Elapsed(h)' /\ Elapsed(s.start) = Elapsed(h)
    BY <2>2 DEF Elapsed, Day
  <2> QED
    BY <2>1, <2>3, <2>4
<1> SUFFICES ASSUME Cycling, s.idx = CycleIndex(s.start)'
             PROVE  (/\ \A i \in Point : taken[i] = 1 => Opened(i)
                     /\ s.pending # None => s.pending \in Point /\ Opened(s.pending))'
  BY <1>1, <1>2, <1>3 DEF EarlyInv, Cycling, Day
<1>4. s.idx = CycleIndex(s.start)
  BY <1>1 DEF EarlyInv, Cycling
<1>5. Elapsed(s.start)' = Elapsed(s.start) + 1
  <2> SUFFICES ASSUME Elapsed(s.start) = Day - 1, Elapsed(s.start)' = 0 PROVE FALSE
    BY <1>3
  <2>1. s.idx = 0
    <3>1. CycleIndex(s.start)' = 0 \div (3 * Cycle)
      BY DEF CycleIndex
    <3>2. 0 \div (3 * Cycle) = 0
      BY ClockTypes
    <3> QED
      BY <3>1, <3>2
  <2>2. Elapsed(s.start) < 3 * s.idx * Cycle + 3 * Cycle
    BY <1>2, <1>4, ElapsedFact
  <2>3. 3 * s.idx * Cycle = 0
    BY <2>1, ClockAssumption
  <2> QED
    BY <2>2, <2>3, ClockTypes, ClockAssumption
<1>6. Into' = Into + 1 /\ Into \in Int
  <2>1. Elapsed(s.start) \in Nat /\ 3 * s.idx * Cycle \in Nat
    BY <1>2, <1>4, ElapsedFact
  <2>2. Into = Elapsed(s.start) - 3 * s.idx * Cycle
        /\ Into' = Elapsed(s.start)' - 3 * s.idx * Cycle
    BY DEF Into
  <2> QED
    BY <1>5, <2>1, <2>2
<1>7. ASSUME NEW i \in Point, Opened(i) PROVE Opened(i)'
  <2>1. Offset(i)' = Offset(i) /\ Offset(i) \in Nat
    BY OffsetFact DEF Offset
  <2>2. Into' >= Offset(i) - 1
    BY <1>6, <1>7, <2>1 DEF Opened
  <2> QED
    BY <2>1, <2>2 DEF Opened
<1>8. /\ \A i \in Point : taken[i] = 1 => Opened(i)
      /\ s.pending # None => s.pending \in Point /\ Opened(s.pending)
  BY <1>4 DEF EarlyInv
<1> QED
  BY <1>7, <1>8 DEF Opened

\* What the parts of the handler do to the place in the day and the point noted.
LEMMA EnterCycleNoted ==
  ASSUME NEW t, IsSched(t)
  PROVE  /\ EnterCycle(t).start = t.start /\ EnterCycle(t).idx = CycleIndex(t.start)
         /\ EnterCycle(t).pending = IF CycleIndex(t.start) # t.idx THEN None ELSE t.pending
  BY DEF EnterCycle, IsSched

LEMMA OnTimeNoted ==
  ASSUME NEW t, NEW busy, IsSched(t)
  PROVE  /\ OnTime(t, busy).start = t.start /\ OnTime(t, busy).idx = t.idx
         /\ \/ OnTime(t, busy).pending = t.pending
            \/ OnTime(t, busy).pending \in Point /\ Past(At(t, OnTime(t, busy).pending))
<1>1. CASE Missed(t) = {}
  <2>1. OnTime(t, busy) = [t EXCEPT !.done = @ \cup Started(t, busy), !.pending = @]
    BY <1>1 DEF OnTime
  <2> QED
    BY <2>1 DEF IsSched
<1>2. CASE Missed(t) # {}
  <2>1. OnTime(t, busy) =
          [t EXCEPT !.done = @ \cup Started(t, busy), !.pending = Max(Missed(t))]
    BY <1>2 DEF OnTime
  <2>2. Missed(t) \in SUBSET (0 .. SampleCount - 1) /\ SampleCount - 1 \in Int
    BY ClockAssumption DEF Missed, Undone, Point, SampleCount, MaxPoints
  <2>3. Max(Missed(t)) \in Missed(t)
    BY <1>2, <2>2, MaxFact
  <2>4. Max(Missed(t)) \in Point /\ Past(At(t, Max(Missed(t))))
    BY <2>3 DEF Missed, Undone
  <2> QED
    BY <2>1, <2>4 DEF IsSched
<1> QED
  BY <1>1, <1>2

LEMMA LateNoted ==
  ASSUME NEW t, NEW busy, IsSched(t)
  PROVE  /\ Late(t, busy).start = t.start /\ Late(t, busy).idx = t.idx
         /\ Late(t, busy).pending \in {t.pending, None}
<1>1. CASE busy
  <2>1. Late(t, busy) = [t EXCEPT !.done = @ \cup Compensated(t, busy), !.pending = @]
    BY <1>1 DEF Late
  <2> QED
    BY <2>1 DEF IsSched
<1>2. CASE ~busy
  <2>1. Late(t, busy) = [t EXCEPT !.done = @ \cup Compensated(t, busy), !.pending = None]
    BY <1>2 DEF Late
  <2> QED
    BY <2>1 DEF IsSched
<1> QED
  BY <1>1, <1>2

LEMMA DeliveryNoted ==
  ASSUME NEW t, IsSched(t)
  PROVE  /\ Delivery(t).start = t.start /\ Delivery(t).idx = t.idx
         /\ Delivery(t).pending = t.pending
  BY DEF Delivery, IsSched

LEMMA EarlyPoll ==
  ASSUME Cycle < 2 * Hours, IInv, EarlyInv, PollCycling
  PROVE  EarlyInv'
<1> DEFINE a == EnterCycle(s)
           entered == CycleIndex(s.start) # s.idx
           onTime == Started(a, sampling)
           b == OnTime(a, sampling)
           busy == sampling \/ onTime # {}
           late == Compensated(b, busy)
           before == IF entered THEN NoneTaken ELSE taken
           OpenedIn(i) == Elapsed(s.start) - 3 * a.idx * Cycle >= Offset(i) - 1
<1>1. /\ running /\ s.phase = "CYCLING" /\ now' = now /\ running' = running
      /\ s' = Delivery(Late(b, busy))
      /\ taken' = [i \in Point |-> before[i] + IF i \in onTime \cup late THEN 1 ELSE 0]
  BY DEF PollCycling, Polled
<1>2. now \in 0 .. Day - 1 /\ s.start \in 0 .. Hours - 1
  BY DEF EarlyInv
<1>3. /\ IsSched(a) /\ a.start = s.start /\ a.idx = CycleIndex(s.start)
      /\ a.phase = s.phase
      /\ a.pending = IF entered THEN None ELSE s.pending
  BY EnterCycleDone, EnterCycleNoted DEF IInv
<1>4. ~entered => /\ \A i \in Point : taken[i] = 1 => OpenedIn(i)
                  /\ s.pending # None => s.pending \in Point /\ OpenedIn(s.pending)
  <2> SUFFICES ASSUME ~entered
               PROVE  /\ \A i \in Point : taken[i] = 1 => OpenedIn(i)
                      /\ s.pending # None => s.pending \in Point /\ OpenedIn(s.pending)
    OBVIOUS
  <2>1. /\ \A i \in Point : taken[i] = 1 => Opened(i)
        /\ s.pending # None => s.pending \in Point /\ Opened(s.pending)
    BY <1>1 DEF EarlyInv, Cycling
  <2>2. a.idx = s.idx
    BY <1>3
  <2>3. \A i : Opened(i) => OpenedIn(i)
    <3> HIDE DEF a
    <3> QED
      BY <2>2 DEF Opened, Into
  <2> QED
    BY <2>1, <2>3
<1> HIDE DEF a, entered
<1>5. /\ IsSched(b) /\ b.start = a.start /\ b.idx = a.idx /\ b.phase = a.phase
      /\ b.pending = a.pending \/ (b.pending \in Point /\ Past(At(a, b.pending)))
  <2>1. IsSched(a)
    BY <1>3
  <2>2. IsSched(b) /\ b.phase = a.phase
    BY <2>1, OnTimeDone
  <2>3. /\ b.start = a.start /\ b.idx = a.idx
        /\ b.pending = a.pending \/ (b.pending \in Point /\ Past(At(a, b.pending)))
    BY <2>1, OnTimeNoted
  <2> QED
    BY <2>2, <2>3
<1>6. ASSUME NEW i \in Point, InWindow(At(a, i)) \/ Past(At(a, i))
      PROVE  OpenedIn(i)
  BY <1>2, <1>3, <1>6, OpenedFact
<1> HIDE DEF b, OpenedIn
<1>7. b.pending # None => b.pending \in Point /\ OpenedIn(b.pending)
  BY <1>3, <1>4, <1>5, <1>6
<1>8. ASSUME NEW i \in onTime \cup late PROVE i \in Point /\ OpenedIn(i)
  <2>1. CASE i \in onTime
    <3>1. i \in Point /\ InWindow(At(a, i))
      BY <2>1 DEF Started, Undone
    <3> QED
      BY <1>6, <3>1
  <2>2. CASE i \in late
    <3>1. i = b.pending /\ b.pending # None
      <4> HIDE DEF busy
      <4> QED
        BY <2>2 DEF Compensated
    <3> QED
      BY <1>7, <3>1
  <2> QED
    BY <1>8, <2>1, <2>2
<1> HIDE DEF onTime, late
<1>9. IsSched(Late(b, busy)) /\ Late(b, busy).start = b.start /\ Late(b, busy).idx = b.idx
      /\ Late(b, busy).phase = b.phase
      /\ Late(b, busy).pending \in {b.pending, None}
  <2> HIDE DEF busy
  <2> QED
    BY <1>5, LateDone, LateNoted
<1> HIDE DEF busy
<1>10. /\ s'.start = s.start /\ s'.idx = CycleIndex(s.start) /\ s'.phase = "CYCLING"
       /\ s'.pending \in {b.pending, None}
  BY <1>1, <1>3, <1>5, <1>9, DeliveryDone, DeliveryNoted
<1>11. before \in [Point -> 0 .. 1] /\ \A i \in Point : before[i] = 1 => OpenedIn(i)
  BY <1>4 DEF before, NoneTaken, IInv, TakenIsDone
<1> HIDE DEF before
<1>12. ASSUME NEW i \in Point, taken'[i] = 1 PROVE OpenedIn(i)
  <2>1. taken'[i] = before[i] + IF i \in onTime \cup late THEN 1 ELSE 0
    BY <1>1
  <2>2. i \in onTime \cup late \/ before[i] = 1
    BY <1>11, <1>12, <2>1
  <2> QED
    BY <1>8, <1>11, <2>2
<1>13. CycleIndex(s.start)' = CycleIndex(s.start)
  BY <1>1, <1>10 DEF CycleIndex, Elapsed
<1>14. ASSUME NEW i \in Point PROVE OpenedIn(i) => Opened(i)'
  BY <1>1, <1>3, <1>10 DEF OpenedIn, Opened, Into, Elapsed, Offset
<1>15. s'.pending # None => s'.pending \in Point /\ Opened(s.pending)'
  <2> SUFFICES ASSUME s'.pending # None
               PROVE  s'.pending \in Point /\ Opened(s.pending)'
    OBVIOUS
  <2>1. PICK p \in Point : p = s'.pending /\ OpenedIn(p)
    BY <1>7, <1>10
  <2>2. Opened(p)'
    BY <1>14, <2>1
  <2> QED
    BY <2>1, <2>2 DEF Opened, Offset
<1> QED
  BY <1>1, <1>2, <1>10, <1>12, <1>13, <1>14, <1>15 DEF EarlyInv, Day

LEMMA EarlyNext ==
  ASSUME Cycle < 2 * Hours
  PROVE  IInv /\ EarlyInv /\ [Next]_vars => EarlyInv'
<1> SUFFICES ASSUME IInv, EarlyInv, [Next]_vars PROVE EarlyInv'
  OBVIOUS
<1>1. CASE PollCycling
  BY <1>1, EarlyPoll
<1>2. CASE PollStartup
  <2>1. s' = Anchored /\ UNCHANGED <<now, taken>> /\ s.phase = "STARTUP" /\ polled' = FALSE
    BY <1>2 DEF PollStartup
  <2>2. taken = NoneTaken /\ s.pending = None /\ now \in 0 .. Day - 1 /\ IsSched(s)
    BY <2>1 DEF IInv, TakenIsDone, EarlyInv
  <2>3. /\ s'.pending = None /\ s'.phase = "CYCLING" /\ s'.start = RoundHour
    BY <2>1, <2>2 DEF Anchored, IsSched
  <2>4. RoundHour \in 0 .. Hours - 1
    <3>1. Hour \in 0 .. Hours - 1
      BY <2>2, ClockTypes DEF Hour
    <3> QED
      BY <3>1, ClockTypes DEF RoundHour
  <2> QED
    BY <2>1, <2>2, <2>3, <2>4 DEF EarlyInv, NoneTaken, Day, Point, SampleCount
<1>3. CASE scheduler_start \/ scheduler_stop
  <2>1. s'.phase # "CYCLING" /\ now' = now /\ s'.start \in 0 .. Hours - 1
    BY <1>3, ClockTypes
    DEF scheduler_start, scheduler_stop, Switched, Fresh, IInv, IsSched, EarlyInv
  <2>2. s'.phase = "STARTUP" => s'.pending = None
    BY <1>3 DEF scheduler_start, scheduler_stop, Fresh, IInv, IsSched
  <2> QED
    BY <2>1, <2>2 DEF EarlyInv, Cycling, Day
<1>4. CASE Environment
  <2>1. CASE Tick
    BY <1>4, <2>1, EarlyTick DEF Environment
  <2>2. CASE SampEnds \/ HandStart
    <3>1. UNCHANGED <<s, taken, now, running>> /\ (polled' => polled)
      BY <1>4, <2>2 DEF Environment, SampEnds, HandStart
    <3> QED
      BY <3>1 DEF EarlyInv, Cycling, CycleIndex, Elapsed, Opened, Into, Offset, Day, Point, SampleCount
  <2> QED
    BY <1>4, <2>1, <2>2 DEF Environment
<1>5. CASE UNCHANGED vars
  BY <1>5 DEF vars, clock, EarlyInv, Cycling, CycleIndex, Elapsed, Opened, Into, Offset, Day, Point, SampleCount
<1> QED
  BY <1>1, <1>2, <1>3, <1>4, <1>5 DEF Next

(***************************************************************************)
(* No point is sampled before its window in the cycle, by neither path of  *)
(* sched_time_prop, whenever the scheduler is started.  For cycles shorter *)
(* than the day: in a cycle of 24 hours the time just before the anchor    *)
(* hour lies in the window of the first point and at the cycle's end.      *)
(***************************************************************************)
THEOREM NeverEarly ==
  ASSUME Cycle < 2 * Hours
  PROVE  Spec => []NoneEarly
<1>1. EarlyInv => NoneEarly
  BY DEF EarlyInv, NoneEarly, Cycling, Opened
<1>2. Init => IInv /\ EarlyInv
  BY InitIInv, EarlyInit
<1>3. IInv /\ EarlyInv /\ [Next]_vars => (IInv /\ EarlyInv)'
  BY NextIInv, EarlyNext
<1> QED
  BY <1>1, <1>2, <1>3, PTL DEF Spec

-----------------------------------------------------------------------------
(* No point lost *)

LostInv ==
  /\ now \in 0 .. Day - 1 /\ s.start \in 0 .. Hours - 1
  /\ s.phase = "STARTUP" => ~seen
  /\ Cycling /\ polled => s.idx = CycleIndex(s.start)
  /\ Cycling /\ polled /\ ~sampling =>
       \A i \in Point \ s.done : ~InWindow(At(s, i)) /\ ~Past(At(s, i))
  /\ Cycling /\ seen /\ now % 3 = 2 /\ CycleEnd <= Day =>
       \A i \in Point : Offset(i) < Into => i \in s.done

\* In a cycle that ends before midnight a point whose mark has come is a point
\* the handler finds in its window or past.
LEMMA DueFact ==
  ASSUME now \in 0 .. Day - 1, NEW h \in 0 .. Hours - 1, NEW k, k = CycleIndex(h),
         CycleBase(h, k + 1) <= Day, NEW i \in Point, Offset(i) < Elapsed(h) - 3 * k * Cycle + 1
  PROVE  InWindow(SampleAt(h, k, i)) \/ Past(SampleAt(h, k, i))
<1> DEFINE e == Elapsed(h)
           b == 3 * k * Cycle
           q == Offset(i)
<1>1. e \in Nat /\ b \in Nat /\ b <= e /\ e < b + 3 * Cycle /\ k \in Nat
  BY ElapsedFact
<1>2. q \in Nat /\ q < e - b + 1
  BY OffsetFact
<1>3. SampleAt(h, k, i) = 6 * h + b + q
  BY DEF SampleAt, CycleBase, Offset
<1>4. CycleBase(h, k + 1) = 6 * h + b + 3 * Cycle
  <2>1. 3 * (k + 1) * Cycle = 3 * k * Cycle + 3 * Cycle
    BY <1>1, ClockAssumption
  <2> QED BY <2>1, <1>1, ClockAssumption DEF CycleBase
<1>5. e = IF now >= 6 * h THEN now - 6 * h ELSE now + Day - 6 * h
  BY DEF Elapsed
<1> HIDE DEF e, b, q
<1>6. now >= 6 * h + b + q
  BY <1>1, <1>2, <1>4, <1>5, ClockTypes, ClockAssumption
<1>7. now \in Int /\ 6 * h + b + q \in Int
  BY <1>1, <1>2, ClockTypes
<1> QED BY <1>3, <1>6, <1>7 DEF InWindow, Past

\* The remainder of a multiple.
LEMMA ModFact ==
  ASSUME NEW c \in Nat, NEW n \in Nat \ {0}
  PROVE  (3 * c) % (3 * n) = 3 * (c % n)
<1>1. c \div n \in Nat /\ c % n \in 0 .. n - 1 /\ c = (c \div n) * n + (c % n)
  BY SMT
<1> DEFINE d == c \div n
           r == c % n
<1> HIDE DEF d, r
<1>2. d \in Nat /\ r \in 0 .. n - 1 /\ c = d * n + r
  BY <1>1 DEF d, r
<1>3. 3 * c = d * (3 * n) + 3 * r /\ 3 * r \in 0 .. 3 * n - 1
  BY <1>2
<1>4. (3 * c) % (3 * n) = 3 * r
  BY <1>2, <1>3, SMTT(30)
<1> QED BY <1>4 DEF r

LEMMA LostInit == Init => LostInv
<1> SUFFICES ASSUME Init PROVE LostInv
  OBVIOUS
<1>1. s.phase = "IDLE" /\ s.start = 0
  BY DEF Init, Fresh
<1>2. now \in 0 .. Day - 1 /\ 0 \in 0 .. Hours - 1
  BY ClockTypes DEF Init, ClockInit
<1> QED BY <1>1, <1>2 DEF LostInv, Cycling

LEMMA LostTick ==
  ASSUME LostInv, Tick, UNCHANGED <<s, taken, seen>>
  PROVE  LostInv'
<1>1. /\ polled \/ ~running
      /\ now % 3 = 1 => ~sampling
      /\ now' = (now + 1) % Day /\ polled' = FALSE /\ running' = running
  BY DEF Tick
<1>2. now \in 0 .. Day - 1 /\ s.start \in 0 .. Hours - 1
  BY DEF LostInv
<1> DEFINE h == s.start
<1>3. /\ now' \in 0 .. Day - 1
      /\ \/ now' = now + 1
         \/ now' = 0
      /\ \/ Elapsed(h)' = Elapsed(h) + 1
         \/ Elapsed(h)' = 0
  <2>1. now' \in 0 .. Day - 1
    BY <1>1, <1>2, TickFact
  <2>2. PICK d : d = h
    OBVIOUS
  <2>3. Elapsed(d)' = Elapsed(d) + 1 \/ Elapsed(d)' = 0
    BY <1>1, <1>2, <2>2, TickFact
  <2>4. Elapsed(h)' = Elapsed(d)' /\ Elapsed(h) = Elapsed(d)
    BY <2>2 DEF Elapsed, Day
  <2>5. now' = now + 1 \/ now' = 0
    <3> DEFINE y == Day
    <3>1. y \in Nat \ {0} /\ now \in 0 .. y - 1 /\ now' = (now + 1) % y
      BY <1>1, <1>2, ClockTypes
    <3> HIDE DEF y
    <3>2. CASE now = y - 1
      <4>1. y % y = 0
        BY <3>1, SMT
      <4> QED BY <3>1, <3>2, <4>1
    <3>3. CASE now # y - 1
      <4>1. (now + 1) % y = now + 1
        BY <3>1, <3>3, SMTT(30)
      <4> QED BY <3>1, <4>1
    <3> QED BY <3>2, <3>3
  <2> QED BY <2>1, <2>3, <2>4, <2>5
<1> SUFFICES ASSUME Cycling, seen, now' % 3 = 2, CycleEnd <= Day, NEW i \in Point,
                    Offset(i)' < Into'
             PROVE  i \in s.done
  BY <1>1, <1>2, <1>3 DEF LostInv, Cycling, Day, Point, SampleCount, CycleEnd, CycleBase
<1>4. now % 3 = 1
  <2>1. now \in Nat
    BY <1>2, ClockTypes
  <2>2. 0 % 3 = 0 /\ ((now + 1) % 3 = 2 => now % 3 = 1)
    BY <2>1, SMT
  <2>3. ~(now' = 0)
    BY <2>2
  <2>4. now' = now + 1
    BY <1>3, <2>3
  <2>5. (now + 1) % 3 = 2
    BY <2>4
  <2> QED BY <2>2, <2>5
<1>5. polled /\ ~sampling /\ s.idx = CycleIndex(h)
  BY <1>1, <1>4 DEF LostInv, Cycling
<1>6. Offset(i) \in Nat /\ Offset(i)' = Offset(i)
  BY OffsetFact DEF Offset
<1>7. Elapsed(h) \in Nat /\ 3 * s.idx * Cycle \in Nat /\ 3 * s.idx * Cycle <= Elapsed(h)
  BY <1>2, <1>5, ElapsedFact
<1>8. Into' = Elapsed(h)' - 3 * s.idx * Cycle
  BY DEF Into
<1>9. Offset(i) < Elapsed(h) - 3 * s.idx * Cycle + 1
  BY <1>3, <1>6, <1>7, <1>8
<1>10. InWindow(SampleAt(h, s.idx, i)) \/ Past(SampleAt(h, s.idx, i))
  BY <1>2, <1>5, <1>9, DueFact DEF CycleEnd
<1> QED BY <1>5, <1>10 DEF LostInv, At

LEMMA LostPoll ==
  ASSUME IInv, LostInv, PollCycling
  PROVE  LostInv'
<1> DEFINE a == EnterCycle(s)
           entered == CycleIndex(s.start) # s.idx
           onTime == Started(a, sampling)
           b == OnTime(a, sampling)
           busy == sampling \/ onTime # {}
           late == Compensated(b, busy)
<1>1. /\ running /\ s.phase = "CYCLING" /\ now' = now /\ running' = running
      /\ s' = Delivery(Late(b, busy))
      /\ seen' = IF entered THEN now = CycleBase(a.start, a.idx) % Day ELSE seen
      /\ sampling' = (busy \/ late # {})
  BY DEF PollCycling, Polled
<1>2. now \in 0 .. Day - 1 /\ s.start \in 0 .. Hours - 1
  BY DEF LostInv
<1>3. /\ IsSched(a) /\ a.start = s.start /\ a.idx = CycleIndex(s.start)
      /\ a.phase = s.phase /\ a.done = IF entered THEN {} ELSE s.done
  BY EnterCycleDone, EnterCycleNoted DEF IInv
<1> HIDE DEF a
<1>4. /\ IsSched(b) /\ b.start = a.start /\ b.idx = a.idx /\ b.phase = a.phase
      /\ b.done = a.done \cup onTime
  <2>1. IsSched(a)
    BY <1>3
  <2>2. IsSched(b) /\ b.phase = a.phase /\ b.done = a.done \cup onTime
    BY <2>1, OnTimeDone
  <2>3. b.start = a.start /\ b.idx = a.idx
    BY <2>1, OnTimeNoted
  <2> QED BY <2>2, <2>3
<1>5. /\ s'.start = s.start /\ s'.idx = CycleIndex(s.start) /\ s'.phase = "CYCLING"
      /\ s'.done = a.done \cup onTime \cup late
  <2> HIDE DEF b, busy, onTime
  <2>1. /\ IsSched(Late(b, busy)) /\ Late(b, busy).start = b.start /\ Late(b, busy).idx = b.idx
        /\ Late(b, busy).phase = b.phase /\ Late(b, busy).done = b.done \cup late
    BY <1>4, LateDone, LateNoted
  <2> QED BY <1>1, <1>3, <1>4, <2>1, DeliveryDone, DeliveryNoted
\* The line is free after the poll only if no point was left to take.
<1>6. ASSUME ~sampling', NEW i \in Point, i \notin a.done
      PROVE  ~InWindow(At(a, i)) /\ ~Past(At(a, i))
  <2>1. ~sampling /\ onTime = {} /\ ~busy /\ late = {}
    BY <1>1, <1>6
  <2>2. i \notin onTime
    BY <2>1
  <2>3. ~InWindow(At(a, i))
    BY <1>6, <2>1, <2>2 DEF Started, Undone
  <2>4. Missed(a) = {}
    <3> SUFFICES ASSUME Missed(a) # {} PROVE FALSE
      OBVIOUS
    <3>1. Missed(a) \in SUBSET (0 .. SampleCount - 1) /\ SampleCount - 1 \in Int
      BY ClockAssumption DEF Missed, Undone, Point, SampleCount, MaxPoints
    <3>2. Max(Missed(a)) \in Missed(a)
      BY <3>1, MaxFact
    <3>3. b.pending = Max(Missed(a))
      BY <1>3, <2>1 DEF OnTime, IsSched
    <3>4. b.pending \in Point /\ b.pending \notin a.done
      BY <3>2, <3>3 DEF Missed, Undone
    <3>5. b.pending # None /\ b.pending \notin b.done
      BY <1>4, <2>1, <3>4, ClockTypes DEF None
    <3>6. b.pending \in late
      <4> HIDE DEF b, busy
      <4> QED BY <2>1, <3>5 DEF Compensated
    <3> QED BY <2>1, <3>6
  <2>5. ~Past(At(a, i))
    BY <1>6, <2>3, <2>4 DEF Missed, Undone
  <2> QED BY <2>3, <2>5
<1>7. CycleIndex(s.start)' = CycleIndex(s.start)
  BY <1>1, <1>5 DEF CycleIndex, Elapsed
<1>8. ASSUME NEW i \in Point PROVE At(s, i)' = At(a, i)
  BY <1>3, <1>5 DEF At, SampleAt, CycleBase
<1>9. ASSUME ~sampling', NEW i \in Point, i \notin s'.done
      PROVE  ~InWindow(At(s, i))' /\ ~Past(At(s, i))'
  <2>1. i \notin a.done
    BY <1>5, <1>9
  <2>2. ~InWindow(At(a, i)) /\ ~Past(At(a, i))
    BY <1>6, <1>9, <2>1
  <2> QED BY <1>1, <1>8, <2>2 DEF InWindow, Past
<1>10. ASSUME seen', now' % 3 = 2, CycleEnd' <= Day, NEW i \in Point, Offset(i)' < Into'
       PROVE  i \in s'.done
  <2>1. ~entered
    <3> SUFFICES ASSUME entered PROVE FALSE
      OBVIOUS
    <3>1. now = CycleBase(a.start, a.idx) % Day
      BY <1>1, <1>10
    <3>2. PICK c \in Nat : CycleBase(a.start, a.idx) = 3 * c
      <4> DEFINE k == CycleIndex(s.start)
                 h == s.start
                 c == 2 * h + k * Cycle
      <4>1. k \in Nat /\ h \in Nat
        BY <1>2, ElapsedFact, ClockTypes
      <4>2. CycleBase(a.start, a.idx) = 6 * h + 3 * k * Cycle
        BY <1>3 DEF CycleBase
      <4> HIDE DEF k, h
      <4>3. c \in Nat /\ 6 * h + 3 * k * Cycle = 3 * c
        BY <4>1, ClockAssumption
      <4> QED BY <4>2, <4>3
    <3>3. (3 * c) % Day = 3 * (c % (2 * Hours))
      <4> DEFINE r == (3 * c) % Day
                 p == c % (2 * Hours)
                 n == 2 * Hours
      <4>1. n \in Nat \ {0} /\ Day = 3 * n
        BY ClockTypes
      <4>2. (3 * c) % (3 * n) = 3 * (c % n)
        <5> HIDE DEF n
        <5> QED BY <3>2, <4>1, ModFact
      <4> QED BY <4>1, <4>2
    <3>4. c % (2 * Hours) \in Nat
      BY <3>2, ClockTypes
    <3>5. now = 3 * (c % (2 * Hours))
      BY <3>1, <3>2, <3>3
    <3> QED BY <1>1, <1>10, <3>4, <3>5
  <2>2. seen /\ s'.idx = s.idx /\ a.done = s.done
    BY <1>1, <1>3, <1>5, <1>10, <2>1
  <2>3. CycleEnd' = CycleEnd /\ Into' = Into /\ Offset(i)' = Offset(i)
    BY <1>1, <1>5, <2>2 DEF CycleEnd, CycleBase, Into, Elapsed, Offset
  <2>4. i \in s.done
    BY <1>1, <1>10, <2>2, <2>3 DEF LostInv, Cycling
  <2> QED BY <1>5, <2>2, <2>4
<1> QED
  BY <1>1, <1>2, <1>5, <1>7, <1>9, <1>10 DEF LostInv, Day, Point, SampleCount

LEMMA LostNext == IInv /\ LostInv /\ [Next]_vars => LostInv'
<1> SUFFICES ASSUME IInv, LostInv, [Next]_vars PROVE LostInv'
  OBVIOUS
<1>1. CASE PollCycling
  BY <1>1, LostPoll
<1>2. CASE PollStartup
  <2>1. /\ s' = Anchored /\ UNCHANGED <<now, seen>> /\ s.phase = "STARTUP" /\ polled' = FALSE
    BY <1>2 DEF PollStartup
  <2>2. ~seen /\ now \in 0 .. Day - 1 /\ IsSched(s)
    BY <2>1 DEF IInv, LostInv
  <2>3. s'.phase = "CYCLING" /\ s'.start = RoundHour
    BY <2>1, <2>2 DEF Anchored, IsSched
  <2>4. RoundHour \in 0 .. Hours - 1
    <3>1. Hour \in 0 .. Hours - 1
      BY <2>2, ClockTypes DEF Hour
    <3> QED
      BY <3>1, ClockTypes DEF RoundHour
  <2> QED
    BY <2>1, <2>2, <2>3, <2>4 DEF LostInv, Day
<1>3. CASE scheduler_start \/ scheduler_stop
  <2>1. s'.phase # "CYCLING" /\ now' = now /\ s'.start \in 0 .. Hours - 1
    BY <1>3, ClockTypes
    DEF scheduler_start, scheduler_stop, Switched, Fresh, IInv, IsSched, LostInv
  <2>2. s'.phase = "STARTUP" => ~seen'
    BY <1>3 DEF scheduler_start, scheduler_stop, Fresh, IInv, IsSched
  <2> QED
    BY <2>1, <2>2 DEF LostInv, Cycling, Day
<1>4. CASE Environment
  <2>1. CASE Tick
    BY <1>4, <2>1, LostTick DEF Environment
  <2>2. CASE SampEnds \/ HandStart
    <3>1. UNCHANGED <<s, seen, now, running>> /\ (polled' /\ ~sampling' => polled /\ ~sampling)
          /\ (polled' => polled)
      BY <1>4, <2>2 DEF Environment, SampEnds, HandStart
    <3> QED
      BY <3>1 DEF LostInv, Cycling, CycleIndex, Elapsed, Into, Offset, Day, Point, SampleCount,
                  CycleEnd, CycleBase, At, SampleAt, InWindow, Past
  <2> QED
    BY <1>4, <2>1, <2>2 DEF Environment
<1>5. CASE UNCHANGED vars
  BY <1>5 DEF vars, clock, LostInv, Cycling, CycleIndex, Elapsed, Into, Offset, Day, Point,
              SampleCount, CycleEnd, CycleBase, At, SampleAt, InWindow, Past
<1> QED
  BY <1>1, <1>2, <1>3, <1>4, <1>5 DEF Next

(***************************************************************************)
(* A cycle that sched_time_prop sees from its first instant, and that ends *)
(* before midnight, loses no sample: when the window of the next mark      *)
(* opens, each point up to the last mark has been sampled, whatever runs   *)
(* of sampling the operator started or aborted in between.                 *)
(***************************************************************************)
THEOREM NothingLost == Spec => []NoPointLost
<1>1. IInv /\ LostInv => NoPointLost
  BY DEF IInv, TakenIsDone, LostInv, NoPointLost
<1>2. Init => IInv /\ LostInv
  BY InitIInv, LostInit
<1>3. IInv /\ LostInv /\ [Next]_vars => (IInv /\ LostInv)'
  BY NextIInv, LostNext
<1> QED
  BY <1>1, <1>2, <1>3, PTL DEF Spec

-----------------------------------------------------------------------------
(* The types *)

LEMMA IndexFact ==
  ASSUME now \in 0 .. Day - 1, NEW h \in 0 .. Hours - 1
  PROVE  CycleIndex(h) \in 0 .. 2 * Hours - 1
<1> DEFINE k == CycleIndex(h)
           b == 3 * k * Cycle
<1>1. k \in Nat /\ b \in Nat /\ b <= Elapsed(h)
  BY ElapsedFact
<1>2. Elapsed(h) < Day
  BY ClockTypes DEF Elapsed
<1>3. Elapsed(h) \in Nat
  BY ElapsedFact
<1>4. 3 * k <= b
  <2> HIDE DEF k
  <2>1. k * Cycle >= k
    BY <1>1, ClockAssumption
  <2> QED
    BY <1>1, <2>1, ClockAssumption
<1> HIDE DEF k, b
<1> QED
  BY <1>1, <1>2, <1>3, <1>4, ClockTypes DEF k

LEMMA HourFact ==
  ASSUME now \in 0 .. Day - 1
  PROVE  Hour \in 0 .. Hours - 1
  BY ClockTypes DEF Hour

SchedOK(t) ==
  t \in [phase : {"IDLE", "STARTUP", "CYCLING"}, bucket : {0, 1},
         start : 0 .. Hours - 1, idx : 0 .. 2 * Hours - 1, done : SUBSET Point,
         pending : Point \cup {None}, delivered : BOOLEAN]

LEMMA EnterCycleOK ==
  ASSUME now \in 0 .. Day - 1, NEW t, SchedOK(t)
  PROVE  SchedOK(EnterCycle(t))
<1> DEFINE k == CycleIndex(t.start)
           b == 1 - t.bucket
<1>1. k \in 0 .. 2 * Hours - 1 /\ b \in {0, 1}
  <2>1. t.start \in 0 .. Hours - 1 /\ t.bucket \in {0, 1}
    BY DEF SchedOK
  <2> QED
    BY <2>1, IndexFact
<1>2. EnterCycle(t) = IF k = t.idx THEN t
                      ELSE [t EXCEPT !.idx = k, !.bucket = b, !.done = {},
                                     !.pending = None, !.delivered = FALSE]
  BY DEF EnterCycle
<1> HIDE DEF k, b
<1> QED
  BY <1>1, <1>2 DEF SchedOK

LEMMA OnTimeOK ==
  ASSUME NEW t, NEW busy, SchedOK(t)
  PROVE  SchedOK(OnTime(t, busy))
<1>1. Started(t, busy) \subseteq Point
  BY DEF Started, Undone
<1>2. Missed(t) # {} => Max(Missed(t)) \in Point
  <2>1. Missed(t) \in SUBSET (0 .. SampleCount - 1) /\ SampleCount - 1 \in Int
    BY ClockAssumption DEF Missed, Undone, Point, SampleCount, MaxPoints
  <2> QED
    BY <2>1, MaxFact DEF Point
<1> DEFINE m == IF Missed(t) = {} THEN t.pending ELSE Max(Missed(t))
<1>3. OnTime(t, busy) = [t EXCEPT !.done = @ \cup Started(t, busy), !.pending = m]
  BY DEF OnTime
<1>4. m \in Point \cup {None}
  BY <1>2 DEF SchedOK
<1> HIDE DEF m
<1> QED
  BY <1>1, <1>3, <1>4 DEF SchedOK

LEMMA LateOK ==
  ASSUME NEW t, NEW busy, SchedOK(t)
  PROVE  SchedOK(Late(t, busy))
<1>1. Compensated(t, busy) \subseteq Point
  BY DEF Compensated, SchedOK
<1> QED
  BY <1>1 DEF Late, SchedOK

LEMMA DeliveryOK ==
  ASSUME NEW t, SchedOK(t)
  PROVE  SchedOK(Delivery(t))
  BY DEF Delivery, SchedOK

\* What a tick and the runs of sampling do to the clock.
LEMMA ClockOK ==
  ASSUME ClockTypeOK, Tick \/ SampEnds \/ HandStart
  PROVE  ClockTypeOK'
<1>1. CASE Tick
  <2>1. now' \in 0 .. Day - 1
    BY <1>1, ClockTypes DEF Tick, ClockTypeOK
  <2> QED
    BY <1>1, <2>1 DEF Tick, ClockTypeOK, Day
<1>2. CASE SampEnds \/ HandStart
  BY <1>2 DEF SampEnds, HandStart, ClockTypeOK, Day
<1> QED
  BY <1>1, <1>2

LEMMA FreshOK == SchedOK(Fresh) /\ 0 \in 0 .. 2 * Hours - 1
<1>1. 0 \in 0 .. Hours - 1 /\ 0 \in 0 .. 2 * Hours - 1
  BY ClockTypes
<1> QED
  BY <1>1 DEF Fresh, SchedOK, None

LEMMA TypesInit == Init => TypeOK
<1> SUFFICES ASSUME Init PROVE TypeOK
  OBVIOUS
<1>1. SchedOK(s) /\ taken = NoneTaken /\ seen = FALSE
  BY FreshOK DEF Init
<1>2. ClockTypeOK
  BY DEF Init, ClockInit, ClockTypeOK
<1>3. taken \in [Point -> 0 .. 2]
  BY <1>1 DEF NoneTaken
<1> QED
  BY <1>1, <1>2, <1>3 DEF TypeOK, SchedOK

LEMMA TypesNext == IInv /\ TypeOK /\ [Next]_vars => TypeOK'
<1> SUFFICES ASSUME IInv, TypeOK, [Next]_vars PROVE TypeOK'
  OBVIOUS
<1>0. ClockTypeOK /\ SchedOK(s) /\ now \in 0 .. Day - 1 /\ seen \in BOOLEAN
  BY DEF TypeOK, ClockTypeOK, SchedOK
<1>1. taken' \in [Point -> 0 .. 2]
  BY NextIInv DEF IInv, TakenIsDone
<1>2. ASSUME SchedOK(s'), ClockTypeOK', seen' \in BOOLEAN PROVE TypeOK'
  BY <1>1, <1>2 DEF TypeOK, SchedOK, Point, SampleCount
<1>3. CASE PollCycling
  <2> DEFINE a == EnterCycle(s)
             entered == CycleIndex(s.start) # s.idx
             onTime == Started(a, sampling)
             b == OnTime(a, sampling)
             busy == sampling \/ onTime # {}
             late == Compensated(b, busy)
  <2>1. /\ s' = Delivery(Late(b, busy))
        /\ seen' = IF entered THEN now = CycleBase(a.start, a.idx) % Day ELSE seen
        /\ polled' = TRUE /\ sampling' = (busy \/ late # {}) /\ UNCHANGED <<now, running>>
    BY <1>3 DEF PollCycling, Polled
  <2>2. SchedOK(a)
    BY <1>0, EnterCycleOK
  <2>3. SchedOK(b)
    <3> HIDE DEF a
    <3> QED BY <2>2, OnTimeOK
  <2>4. SchedOK(s')
    <3> HIDE DEF b, busy
    <3>1. SchedOK(Late(b, busy))
      BY <2>3, LateOK
    <3> QED BY <2>1, <3>1, DeliveryOK
  <2> HIDE DEF a, b, entered, busy, late
  <2>5. seen' \in BOOLEAN /\ ClockTypeOK'
    BY <1>0, <2>1 DEF ClockTypeOK, Day
  <2> QED
    BY <1>2, <2>4, <2>5
<1>4. CASE PollStartup
  <2>1. RoundHour \in 0 .. Hours - 1
    BY <1>0, HourFact, ClockTypes DEF RoundHour
  <2>2. SchedOK(Anchored)
    BY <1>0, <2>1, FreshOK DEF Anchored, SchedOK
  <2> QED
    BY <1>0, <1>2, <1>4, <2>2 DEF PollStartup, ClockTypeOK, Day
<1>5. CASE scheduler_start
  <2>1. SchedOK([Fresh EXCEPT !.phase = "STARTUP"])
    BY FreshOK DEF SchedOK
  <2> QED
    BY <1>0, <1>2, <1>5, <2>1 DEF scheduler_start, Switched, ClockTypeOK, Day
<1>6. CASE scheduler_stop
  <2>1. SchedOK([s EXCEPT !.phase = "IDLE"])
    BY <1>0 DEF SchedOK
  <2> QED
    BY <1>0, <1>2, <1>6, <2>1 DEF scheduler_stop, Switched, ClockTypeOK, Day
<1>7. CASE Environment
  BY <1>0, <1>2, <1>7, ClockOK DEF Environment
<1>8. CASE UNCHANGED vars
  BY <1>0, <1>2, <1>8 DEF vars, clock, ClockTypeOK, Day
<1> QED
  BY <1>3, <1>4, <1>5, <1>6, <1>7, <1>8 DEF Next

(***************************************************************************)
(* The types of the time-proportional mode: the index of the cycle never   *)
(* leaves the day, the point noted for compensation is a point.            *)
(***************************************************************************)
THEOREM TimePropTypes == Spec => []TypeOK
<1>1. Init => IInv /\ TypeOK
  BY InitIInv, TypesInit
<1>2. IInv /\ TypeOK /\ [Next]_vars => (IInv /\ TypeOK)'
  BY NextIInv, TypesNext
<1> QED
  BY <1>1, <1>2, PTL DEF Spec
=============================================================================
