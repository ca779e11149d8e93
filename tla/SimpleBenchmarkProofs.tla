------------------------ MODULE SimpleBenchmarkProofs -----------------------
(***************************************************************************)
(* Theorems about the chronometer, for any names and any number of readings. *)
(***************************************************************************)
EXTENDS SimpleBenchmark, FiniteSetTheorems, Induction

\* A name at the first reading: only stop() gives it, when it takes it.
NamedFirst == \A name \in DOMAIN cursors : cursors[name] = 0 => Size = 1 /\ stopped

\* What pause() and the others must respect, and what follows from it: the
\* first reading starts the chronometer and is never a pause.
BenchInv ==
  /\ TypeOK
  /\ NoDoublePause
  /\ Size >= 1 => ~PausedAt(1)
  /\ NamedFirst

-----------------------------------------------------------------------------

\* Init: no readings, one filler among the flags.
LEMMA InitBench == Init => BenchInv
  BY DEF Init, BenchInv, TypeOK, NoDoublePause, NamedFirst, Size, PausedAt

\* takeTime() appends a reading that is not before the last, and a flag; a flag
\* that pauses needs a last flag that does not.
LEMMA TakeTimeBench ==
  ASSUME BenchInv, NEW pausing \in BOOLEAN, NEW cursor \in Names \cup {NoName},
         TakeTime(pausing, cursor), stopped' \in BOOLEAN, UNCHANGED now,
         ~stopped, Size = 0 => stopped',
         pausing => Size >= 1 /\ ~pauses[Len(pauses)]
  PROVE  BenchInv'
<1> DEFINE n == Len(times)
<1>1. times \in Seq(Nat) /\ pauses \in Seq(BOOLEAN) /\ n \in Nat /\ now \in Nat
      /\ Len(pauses) = n + 1
  BY DEF BenchInv, TypeOK, Size
<1>2. /\ times' \in Seq(Nat) /\ Len(times') = n + 1
      /\ times'[n + 1] = now /\ \A i \in 1..n : times'[i] = times[i]
  BY <1>1 DEF TakeTime
<1>3. /\ pauses' \in Seq(BOOLEAN) /\ Len(pauses') = n + 2
      /\ pauses'[n + 2] = pausing /\ \A i \in 1..(n + 1) : pauses'[i] = pauses[i]
  BY <1>1 DEF TakeTime
<1>4. \A i \in 1..(n + 1) : times'[i] <= now
  BY <1>1, <1>2 DEF BenchInv, TypeOK, Size
<1>5. \A i \in 1..(n + 1), j \in 1..(n + 1) : i <= j => times'[i] <= times'[j]
  <2> SUFFICES ASSUME NEW i \in 1..(n + 1), NEW j \in 1..(n + 1), i <= j
               PROVE  times'[i] <= times'[j]
    OBVIOUS
  <2>1. CASE j = n + 1
    BY <2>1, <1>2, <1>4
  <2>2. CASE j # n + 1
    <3>1. i \in 1..n /\ j \in 1..n
      BY <2>2, <1>1
    <3>2. times[i] <= times[j]
      BY <3>1 DEF BenchInv, TypeOK, Size
    <3> QED BY <3>1, <3>2, <1>2
  <2> QED BY <2>1, <2>2
<1>6. /\ DOMAIN cursors' \subseteq Names
      /\ \A name \in DOMAIN cursors' : cursors'[name] \in 0..n
  <2>1. /\ DOMAIN cursors \subseteq Names
        /\ \A name \in DOMAIN cursors : cursors[name] \in 0..n
    BY <1>1 DEF BenchInv, TypeOK, Size
  <2>2. CASE cursor = NoName
    BY <2>1, <2>2 DEF TakeTime
  <2>3. CASE cursor # NoName
    BY <2>1, <2>3, <1>1 DEF TakeTime, Size
  <2> QED BY <2>2, <2>3
<1>7. TypeOK'
  BY <1>1, <1>2, <1>3, <1>4, <1>5, <1>6 DEF TypeOK, Size
<1>8. NoDoublePause'
  <2> SUFFICES ASSUME NEW i \in 1..n, pauses'[i + 1], pauses'[i + 2]
               PROVE  FALSE
    BY <1>1, <1>2 DEF NoDoublePause, Size, PausedAt
  <2>1. CASE i = n
    BY <2>1, <1>1, <1>3
  <2>2. CASE i # n
    <3>1. i \in 1..(n - 1) /\ i + 1 \in 1..(n + 1) /\ i + 2 \in 1..(n + 1)
      BY <2>2, <1>1
    <3>2. pauses[i + 1] /\ pauses[(i + 1) + 1]
      BY <3>1, <1>3, <1>1
    <3> QED BY <3>1, <3>2 DEF BenchInv, NoDoublePause, Size, PausedAt
  <2> QED BY <2>1, <2>2
<1>9. ~PausedAt(1)'
  <2>1. CASE n = 0
    BY <2>1, <1>3 DEF PausedAt, Size
  <2>2. CASE n # 0
    BY <2>2, <1>1, <1>3 DEF PausedAt, Size, BenchInv
  <2> QED BY <2>1, <2>2
<1>10. NamedFirst'
  <2>1. \A name \in DOMAIN cursors : cursors[name] # 0
    BY DEF BenchInv, NamedFirst
  <2>2. \A name \in DOMAIN cursors' : cursors'[name] = 0 => n = 0
    BY <2>1 DEF TakeTime, Size
  <2> QED BY <1>1, <1>2, <2>2 DEF NamedFirst, Size
<1> QED BY <1>7, <1>8, <1>9, <1>10 DEF BenchInv

-----------------------------------------------------------------------------

\* A map without cursors.
LEMMA EmptyMap == DOMAIN <<>> = {}
  OBVIOUS

\* Every operation, and the clock, keep the invariant.
LEMMA NextBench == BenchInv /\ [Next]_vars => BenchInv'
<1> SUFFICES ASSUME BenchInv, [Next]_vars PROVE BenchInv'
  OBVIOUS
<1>0. Len(times) \in Nat /\ Len(pauses) = Len(times) + 1 /\ stopped \in BOOLEAN
      /\ now \in Nat
  BY DEF BenchInv, TypeOK, Size
<1>1. CASE Tick
  BY <1>1 DEF Tick, state, BenchInv, TypeOK, NoDoublePause, NamedFirst, Size, PausedAt
<1>2. CASE Reset
  <2>1. times' = <<>> /\ pauses' = <<FALSE>> /\ cursors' = <<>> /\ stopped' = FALSE
        /\ now' = now
    BY <1>2 DEF Reset, Cleared
  <2>2. Size' = 0 /\ times' \in Seq(Nat) /\ pauses' \in Seq(BOOLEAN) /\ Len(pauses') = 1
    BY <2>1 DEF Size
  <2>3. DOMAIN cursors' = {}
    BY <2>1, EmptyMap
  <2>4. now' \in Nat /\ stopped' \in BOOLEAN
    BY <2>1, <1>0
  <2>5. TypeOK'
    BY <2>2, <2>3, <2>4 DEF TypeOK
  <2> QED BY <2>2, <2>3, <2>5 DEF BenchInv, NoDoublePause, NamedFirst
<1>3. ASSUME Start PROVE BenchInv'
  <2>1. times' = <<now>> /\ pauses' = <<FALSE, FALSE>> /\ cursors' = <<>>
        /\ stopped' = FALSE /\ now' = now
    BY <1>3 DEF Start
  <2>2. Size' = 1 /\ times' \in Seq(Nat) /\ pauses' \in Seq(BOOLEAN)
        /\ Len(pauses') = 2 /\ times'[1] = now /\ ~pauses'[2]
    BY <2>1, <1>0 DEF Size
  <2>3. DOMAIN cursors' = {}
    BY <2>1, EmptyMap
  <2>4. now' \in Nat /\ stopped' \in BOOLEAN /\ times'[1] = now'
    BY <2>1, <2>2, <1>0
  <2>5. TypeOK'
    BY <2>2, <2>3, <2>4 DEF TypeOK
  <2>6. NoDoublePause' /\ ~PausedAt(1)'
    BY <2>2 DEF NoDoublePause, PausedAt
  <2> QED BY <2>3, <2>5, <2>6 DEF BenchInv, NamedFirst
<1>4. ASSUME NEW cursor \in Names \cup {NoName}, Step(cursor) PROVE BenchInv'
  <2>1. TakeTime(FALSE, cursor) /\ ~stopped /\ stopped' = stopped /\ now' = now
        /\ Size \in 1..(MaxTimes - 1)
    BY <1>4, Zenon DEF Step
  <2>2. Size # 0
    BY <2>1, BoundAssumption
  <2> QED BY <2>1, <2>2, <1>0, TakeTimeBench
<1>5. ASSUME NEW cursor \in Names \cup {NoName}, Pause(cursor) PROVE BenchInv'
  <2>1. TakeTime(TRUE, cursor) /\ ~stopped /\ stopped' = stopped /\ now' = now
        /\ Size \in 1..(MaxTimes - 1) /\ ~IsPaused
    BY <1>5, Zenon DEF Pause
  <2>2. Size # 0 /\ Size >= 1 /\ ~pauses[Len(pauses)]
    BY <2>1, BoundAssumption DEF IsPaused
  <2> QED BY <2>1, <2>2, <1>0, TakeTimeBench
<1>6. ASSUME NEW cursor \in Names \cup {NoName}, Stop(cursor) PROVE BenchInv'
  <2>1. CASE IsPaused
    BY <1>6, <2>1 DEF Stop, BenchInv, TypeOK, NoDoublePause, NamedFirst, Size, PausedAt
  <2>2. CASE ~IsPaused
    BY <1>6, <2>2, <1>0, TakeTimeBench DEF Stop
  <2> QED BY <2>1, <2>2
<1>7. CASE UNCHANGED vars
  BY <1>7 DEF vars, BenchInv, TypeOK, NoDoublePause, NamedFirst, Size, PausedAt
<1> QED BY <1>1, <1>2, <1>3, <1>4, <1>5, <1>6, <1>7 DEF Next, StepStarts

LEMMA BenchAlways == Spec => []BenchInv
  BY InitBench, NextBench, PTL DEF Spec

\* The vectors of readings and flags and the map of cursors agree, after any
\* sequence of operations.
THEOREM TypeCorrect == Spec => []TypeOK
<1>1. BenchInv => TypeOK
  BY DEF BenchInv
<1> QED BY BenchAlways, <1>1, PTL

\* No two readings in a row pause the chronometer.
THEOREM NeverTwoPauses == Spec => []NoDoublePause
<1>1. BenchInv => NoDoublePause
  BY DEF BenchInv
<1> QED BY BenchAlways, <1>1, PTL

\* The first interval counts as soon as there are two readings: average() and
\* its relatives never divide by zero.
THEOREM IntervalsCounted == Spec => [](Size >= 2 => CountNotPausedTimes(1, Size) > 0)
<1>1. ASSUME BenchInv, Size >= 2 PROVE CountNotPausedTimes(1, Size) > 0
  <2>1. Size \in Nat /\ 1 \in Unpaused(1, Size)
    BY <1>1 DEF Unpaused, BenchInv, TypeOK, Size
  <2>2. IsFiniteSet(Unpaused(1, Size))
    <3>1. IsFiniteSet(1..(Size - 1))
      BY <2>1, FS_Interval
    <3>2. Unpaused(1, Size) \subseteq 1..(Size - 1)
      BY DEF Unpaused
    <3> QED BY <3>1, <3>2, FS_Subset
  <2>3. Cardinality(Unpaused(1, Size)) \in Nat /\ Cardinality(Unpaused(1, Size)) # 0
    BY <2>1, <2>2, FS_CardinalityType, FS_EmptySet
  <2> QED BY <2>3 DEF CountNotPausedTimes
<1>2. BenchInv => (Size >= 2 => CountNotPausedTimes(1, Size) > 0)
  BY <1>1
<1> QED BY BenchAlways, <1>2, PTL

-----------------------------------------------------------------------------

(* Sums of intervals                                                       *)

\* Whole microseconds: what is lost of a duration is less than one of them.
LEMMA WholeMicroseconds ==
  ASSUME NEW x \in Nat
  PROVE  /\ Microseconds(x) \in Nat
         /\ Microseconds(x) * Microsecond <= x
         /\ x <= Microseconds(x) * Microsecond + (Microsecond - 1)
<1>1. Microsecond \in Nat \ {0}
  BY MicrosecondAssumption
<1>2. x \div Microsecond \in Nat
  BY <1>1
<1>3. (x \div Microsecond) * Microsecond <= x
  BY <1>1
<1>4. x <= (x \div Microsecond) * Microsecond + (Microsecond - 1)
  BY <1>1
<1> QED
  BY <1>2, <1>3, <1>4 DEF Microseconds

\* The intervals between readings are natural numbers, since the clock does not
\* go back, in its units and in whole microseconds.
LEMMA Intervals ==
  ASSUME BenchInv, Size >= 1
  PROVE  /\ Size - 1 \in Nat
         /\ \A i \in 0..(Size - 1) : TimeAt(i) \in Nat
         /\ \A i \in 1..(Size - 1) : /\ TimeAt(i) - TimeAt(i - 1) \in Nat
                                     /\ Interval(i) \in Nat
         /\ \A S : \A i \in 1..(Size - 1) : Counted(S)[i] \in Nat /\ Clock(S)[i] \in Nat
<1>1. Size \in Nat /\ times \in Seq(Nat) /\ Size = Len(times)
  BY DEF BenchInv, TypeOK, Size
<1>2. ASSUME NEW i \in 0..(Size - 1) PROVE TimeAt(i) \in Nat
  BY <1>1 DEF TimeAt
<1>3. ASSUME NEW i \in 1..(Size - 1)
      PROVE  TimeAt(i) - TimeAt(i - 1) \in Nat /\ Interval(i) \in Nat
  <2>1. i + 1 \in 1..Size /\ i - 1 + 1 \in 1..Size /\ i - 1 + 1 <= i + 1
    BY <1>1
  <2>2. times[i - 1 + 1] <= times[i + 1]
    BY <2>1 DEF BenchInv, TypeOK
  <2>3. times[i - 1 + 1] \in Nat /\ times[i + 1] \in Nat
    BY <1>1, <2>1
  <2>4. TimeAt(i) - TimeAt(i - 1) \in Nat
    BY <2>2, <2>3 DEF TimeAt
  <2> QED
    BY <2>4, WholeMicroseconds DEF Interval
<1> QED
  BY <1>1, <1>2, <1>3 DEF Counted, Clock

\* Without a pause the intervals up to a reading add up to the time from the
\* first reading to that one.
LEMMA Telescope ==
  ASSUME BenchInv, Size >= 1, NEW e \in 0..(Size - 1)
  PROVE  SumTo(Clock(1..e), Size - 1) = TimeAt(e) - TimeAt(0)
<1> DEFINE a == Clock(1..e)
           Upto(n) == IF n <= e THEN n ELSE e
           P == {n \in Nat : n <= Size - 1 => SumTo(a, n) = TimeAt(Upto(n)) - TimeAt(0)}
<1>1. /\ Size - 1 \in Nat /\ \A i \in 0..(Size - 1) : TimeAt(i) \in Nat
      /\ \A i \in 1..(Size - 1) : a[i] \in Nat
      /\ \A i \in 1..(Size - 1) : a[i] = IF i <= e THEN TimeAt(i) - TimeAt(i - 1) ELSE 0
  BY Intervals DEF Clock
<1> HIDE DEF a
<1>2. 0 \in P
  BY <1>1, SumZero
<1>3. ASSUME NEW n \in Nat, n \in P PROVE n + 1 \in P
  <2>1. CASE n + 1 <= Size - 1
    <3>1. SumTo(a, n) = TimeAt(Upto(n)) - TimeAt(0)
      BY <1>1, <1>3, <2>1
    <3>2. \A i \in 1..(n + 1) : a[i] \in Nat
      BY <1>1, <2>1
    <3>3. SumTo(a, n + 1) = SumTo(a, n) + a[n + 1]
      BY <3>2, SumNext
    <3>4. n + 1 \in 1..(Size - 1) /\ n \in 0..(Size - 1) /\ n + 1 \in 0..(Size - 1)
          /\ n + 1 - 1 = n /\ e \in Nat /\ 0 \in 0..(Size - 1)
      BY <1>1, <2>1
    <3>5. a[n + 1] = IF n + 1 <= e THEN TimeAt(n + 1) - TimeAt(n) ELSE 0
      BY <1>1, <3>4
    <3>6. TimeAt(n) \in Nat /\ TimeAt(n + 1) \in Nat /\ TimeAt(e) \in Nat /\ TimeAt(0) \in Nat
      BY <1>1, <3>4
    <3>7. CASE n + 1 <= e
      <4>1. Upto(n) = n /\ Upto(n + 1) = n + 1
        BY <3>4, <3>7
      <4> QED
        BY <3>1, <3>3, <3>5, <3>6, <3>7, <4>1
    <3>8. CASE ~(n + 1 <= e)
      <4>1. Upto(n) = e /\ Upto(n + 1) = e
        BY <3>4, <3>8
      <4> QED
        BY <3>1, <3>3, <3>5, <3>6, <3>8, <4>1
    <3> QED
      BY <3>7, <3>8
  <2> QED
    BY <2>1
<1>4. Nat \subseteq P
  <2> HIDE DEF P
  <2> QED
    BY <1>2, <1>3, AllNat
<1>5. Upto(Size - 1) = e
  BY <1>1
<1> QED
  BY <1>1, <1>4, <1>5 DEF a

\* More positions give no smaller a sum.
LEMMA SumOfMore ==
  ASSUME BenchInv, Size >= 1, NEW S, NEW T, S \subseteq T
  PROVE  SumTo(Clock(S), Size - 1) <= SumTo(Clock(T), Size - 1)
<1>1. Size - 1 \in Nat /\ \A i \in 1..(Size - 1) : TimeAt(i) - TimeAt(i - 1) \in Nat
  BY Intervals
<1>2. \A i \in 1..(Size - 1) : /\ Clock(S)[i] \in Nat /\ Clock(T)[i] \in Nat
                               /\ Clock(S)[i] <= Clock(T)[i]
  BY <1>1 DEF Clock
<1> QED
  BY <1>1, <1>2, SumLess

\* The sum of whole microseconds is less than one short for each interval.
LEMMA SumOfWhole ==
  ASSUME BenchInv, Size >= 1, NEW U \in SUBSET (1..(Size - 1))
  PROVE  LET whole == SumTo(Counted(U), Size - 1)
             clock == SumTo(Clock(U), Size - 1)
         IN  /\ whole \in Nat /\ clock \in Nat
             /\ whole * Microsecond <= clock
             /\ clock <= whole * Microsecond + (Microsecond - 1) * Cardinality(U)
<1> DEFINE m == Size - 1
           a == Counted(U)
           b == Clock(U)
           Seen(n) == {i \in U : i <= n}
           Short(n) == /\ IsFiniteSet(Seen(n)) /\ Cardinality(Seen(n)) \in Nat
                       /\ SumTo(a, n) \in Nat /\ SumTo(b, n) \in Nat
                       /\ SumTo(a, n) * Microsecond <= SumTo(b, n)
                       /\ SumTo(b, n) <= SumTo(a, n) * Microsecond
                                           + (Microsecond - 1) * Cardinality(Seen(n))
           P == {n \in Nat : n <= m => Short(n)}
<1>0. /\ m \in Nat /\ Microsecond \in Nat \ {0} /\ Microsecond - 1 \in Nat
      /\ \A i \in U : i \in Nat /\ i >= 1 /\ i <= m
      /\ \A i \in 1..m : a[i] \in Nat /\ b[i] \in Nat
      /\ \A i \in U : a[i] * Microsecond <= b[i] /\ b[i] <= a[i] * Microsecond + (Microsecond - 1)
      /\ \A i \in (1..m) \ U : a[i] = 0 /\ b[i] = 0
  <2>1. m \in Nat /\ Microsecond \in Nat \ {0} /\ Microsecond - 1 \in Nat
    BY Intervals, MicrosecondAssumption
  <2>2. \A i \in U : i \in Nat /\ i >= 1 /\ i <= m
    OBVIOUS
  <2>3. \A i \in 1..m : a[i] \in Nat /\ b[i] \in Nat
    BY Intervals
  <2>4. ASSUME NEW i \in U
        PROVE  a[i] * Microsecond <= b[i] /\ b[i] <= a[i] * Microsecond + (Microsecond - 1)
    <3>1. a[i] = Microseconds(TimeAt(i) - TimeAt(i - 1)) /\ b[i] = TimeAt(i) - TimeAt(i - 1)
      BY DEF Counted, Clock, Interval
    <3>2. TimeAt(i) - TimeAt(i - 1) \in Nat
      BY Intervals
    <3> QED
      BY <3>1, <3>2, WholeMicroseconds
  <2>5. \A i \in (1..m) \ U : a[i] = 0 /\ b[i] = 0
    BY DEF Counted, Clock
  <2> QED
    BY <2>1, <2>2, <2>3, <2>4, <2>5
<1> HIDE DEF m, a, b
<1>1. 0 \in P
  <2>1. Seen(0) = {}
    <3>1. \A i \in U : ~(i <= 0)
      BY <1>0
    <3> QED
      BY <3>1
  <2>2. IsFiniteSet({}) /\ Cardinality({}) = 0
    BY FS_EmptySet
  <2>3. SumTo(a, 0) = 0 /\ SumTo(b, 0) = 0
    BY SumZero
  <2>4. 0 * Microsecond = 0 /\ (Microsecond - 1) * 0 = 0
    BY <1>0
  <2> HIDE DEF Seen
  <2>5. /\ SumTo(a, 0) * Microsecond <= SumTo(b, 0)
        /\ SumTo(b, 0) <= SumTo(a, 0) * Microsecond + (Microsecond - 1) * Cardinality(Seen(0))
    <3>1. SumTo(a, 0) * Microsecond = 0
      BY <2>3, <2>4, Zenon
    <3>2. (Microsecond - 1) * Cardinality(Seen(0)) = 0
      BY <2>1, <2>2, <2>4, Zenon
    <3>3. 0 <= 0 /\ 0 + 0 = 0
      OBVIOUS
    <3> QED
      BY <2>3, <3>1, <3>2, <3>3, Zenon
  <2>6. Short(0)
    <3>1. 0 \in Nat
      OBVIOUS
    <3> QED
      BY <2>1, <2>2, <2>3, <2>5, <3>1, Zenon
  <2> HIDE DEF Short
  <2> QED
    BY <2>6
<1>2. ASSUME NEW n \in Nat, n \in P PROVE n + 1 \in P
  <2>1. CASE n + 1 <= m
    <3>1. Short(n)
      <4> HIDE DEF Short
      <4> QED
        BY <1>0, <1>2, <2>1
    <3>2. SumTo(a, n + 1) = SumTo(a, n) + a[n + 1] /\ SumTo(b, n + 1) = SumTo(b, n) + b[n + 1]
      <4>1. \A i \in 1..(n + 1) : i \in 1..m
        BY <1>0, <2>1
      <4>2. \A i \in 1..(n + 1) : a[i] \in Nat /\ b[i] \in Nat
        BY <1>0, <4>1
      <4> QED
        BY <4>2, SumNext
    <3> DEFINE k == Cardinality(Seen(n))
               s == SumTo(a, n)
               t == SumTo(b, n)
    <3>3. k \in Nat /\ s \in Nat /\ t \in Nat /\ s * Microsecond <= t
          /\ t <= s * Microsecond + (Microsecond - 1) * k
      BY <3>1
    <3>4. CASE n + 1 \in U
      <4>1. Seen(n + 1) = Seen(n) \cup {n + 1} /\ n + 1 \notin Seen(n)
        <5>1. \A i \in U : i <= n + 1 <=> (i <= n \/ i = n + 1)
          BY <1>0
        <5>2. ~(n + 1 <= n)
          OBVIOUS
        <5> QED
          BY <3>4, <5>1, <5>2, Zenon
      <4>2. IsFiniteSet(Seen(n + 1)) /\ Cardinality(Seen(n + 1)) = k + 1
        <5> HIDE DEF Seen
        <5> QED
          BY <3>1, <4>1, FS_AddElement
      <4> DEFINE x == a[n + 1]
                 y == b[n + 1]
      <4>3. /\ x \in Nat /\ y \in Nat /\ n + 1 \in 1..m
            /\ x * Microsecond <= y /\ y <= x * Microsecond + (Microsecond - 1)
        BY <1>0, <2>1, <3>4
      <4>4. SumTo(a, n + 1) = s + x /\ SumTo(b, n + 1) = t + y
        BY <3>2
      <4> HIDE DEF Seen, k, s, t, x, y
      <4>5. /\ (s + x) * Microsecond = s * Microsecond + x * Microsecond
            /\ (Microsecond - 1) * (k + 1) = (Microsecond - 1) * k + (Microsecond - 1)
            /\ s * Microsecond \in Nat /\ x * Microsecond \in Nat
            /\ (Microsecond - 1) * k \in Nat /\ Microsecond - 1 \in Nat
        BY <1>0, <3>3, <4>3
      <4>6. /\ s + x \in Nat /\ t + y \in Nat /\ (s + x) * Microsecond <= t + y
            /\ t + y <= (s + x) * Microsecond + (Microsecond - 1) * (k + 1)
        BY <3>3, <4>3, <4>5
      <4>7. k + 1 \in Nat
        BY <3>3
      <4>8. Short(n + 1)
        BY <4>2, <4>4, <4>6, <4>7
      <4> HIDE DEF Short
      <4> QED
        BY <4>8
    <3>5. CASE n + 1 \notin U
      <4>1. Seen(n + 1) = Seen(n)
        <5>1. \A i \in U : i <= n + 1 <=> i <= n
          BY <1>0, <3>5
        <5> QED
          BY <5>1
      <4>2. a[n + 1] = 0 /\ b[n + 1] = 0
        BY <1>0, <2>1, <3>5
      <4>3. SumTo(a, n + 1) = s /\ SumTo(b, n + 1) = t
        BY <3>2, <3>3, <4>2
      <4> HIDE DEF Seen
      <4>4. Short(n + 1)
        BY <3>1, <4>1, <4>3
      <4> HIDE DEF Short
      <4> QED
        BY <4>4
    <3> QED
      BY <3>4, <3>5
  <2> QED
    BY <2>1
<1>3. Nat \subseteq P
  <2> HIDE DEF P
  <2> QED
    BY <1>1, <1>2, AllNat
<1>4. Short(m)
  <2> HIDE DEF Short
  <2> QED
    BY <1>0, <1>3
<1>5. Seen(m) = U
  BY <1>0
<1> HIDE DEF Seen
<1> QED
  BY <1>4, <1>5 DEF m, a, b

\* The whole microseconds of some intervals, and of those among them that are
\* not in a part of them.
LEMMA SumOfRest ==
  ASSUME BenchInv, Size >= 1, NEW S, NEW T, S \subseteq T
  PROVE  SumTo(Counted(T), Size - 1)
           = SumTo(Counted(S), Size - 1) + SumTo(Counted(T \ S), Size - 1)
<1>1. Size - 1 \in Nat /\ \A i \in 1..(Size - 1) : Interval(i) \in Nat
  BY Intervals
<1>2. \A i \in 1..(Size - 1) : /\ Counted(S)[i] \in Nat /\ Counted(T \ S)[i] \in Nat
                               /\ Counted(T)[i] = Counted(S)[i] + Counted(T \ S)[i]
  BY <1>1 DEF Counted
<1> QED
  BY <1>1, <1>2, SumPlus

\* The time up to a reading that there is, without the pauses and with them.
LEMMA LapBench ==
  ASSUME BenchInv, Size >= 1, NEW c \in 0..(Size - 1), c = 0 => Size = 1
  PROVE  /\ CumulativeBenchmark(c, TRUE) = SumTo(Counted(Unpaused(1, c + 1)), Size - 1)
         /\ CumulativeBenchmark(c, TRUE) <= CumulativeBenchmark(c, FALSE)
<1> DEFINE end == IF c < 1 THEN Size - 1 ELSE c
           U == Unpaused(1, c + 1)
           whole == SumTo(Counted(U), Size - 1)
           clock == SumTo(Clock(U), Size - 1)
<1>1. Size \in Nat /\ ~(c >= Size) /\ end = c
  BY DEF BenchInv, TypeOK, Size
<1>2. /\ CumulativeBenchmark(c, TRUE) = whole
      /\ CumulativeBenchmark(c, FALSE) = Microseconds(TimeAt(c) - TimeAt(0))
  <2>1. CumulativeBenchmark(c, TRUE) = SumNotPausedTimes(1, end + 1)
    BY <1>1 DEF CumulativeBenchmark
  <2>2. CumulativeBenchmark(c, FALSE) = Microseconds(TimeAt(end) - TimeAt(0))
    BY <1>1 DEF CumulativeBenchmark
  <2> QED
    BY <1>1, <2>1, <2>2 DEF SumNotPausedTimes
<1>3. SumTo(Clock(1..c), Size - 1) = TimeAt(c) - TimeAt(0)
  BY Telescope
<1>4. U \subseteq 1..c /\ U \in SUBSET (1..(Size - 1))
  BY <1>1 DEF Unpaused
<1> HIDE DEF U
<1>5. /\ whole \in Nat /\ clock \in Nat /\ whole * Microsecond <= clock
  BY <1>4, SumOfWhole
<1>6. clock <= TimeAt(c) - TimeAt(0)
  BY <1>3, <1>4, SumOfMore
<1> DEFINE x == TimeAt(c) - TimeAt(0)
<1>7. x \in Int
  <2>1. TimeAt(c) \in Nat /\ TimeAt(0) \in Nat
    BY <1>1, Intervals
  <2> QED
    BY <2>1
<1> HIDE DEF whole, clock, x
<1>8. x \in Nat /\ whole * Microsecond <= x
  <2>1. clock <= x
    BY <1>6 DEF x
  <2>2. whole * Microsecond \in Int
    BY <1>5, MicrosecondAssumption
  <2> QED
    BY <1>5, <1>7, <2>1, <2>2
<1>9. whole <= x \div Microsecond
  BY <1>5, <1>8, MicrosecondAssumption
<1> QED
  BY <1>2, <1>9 DEF Microseconds, whole, x, U

\* The time between two laps.
LEMMA LapsBench ==
  ASSUME BenchInv, Size >= 1, NEW c \in 0..(Size - 1), NEW d \in 0..(Size - 1), c <= d,
         c = 0 => Size = 1, d = 0 => Size = 1
  PROVE  LET lap == CumulativeBenchmark(d, TRUE) - CumulativeBenchmark(c, TRUE)
             between == {i \in Unpaused(1, Size) : c < i /\ i <= d}
             clock == SumTo(Clock(between), Size - 1)
         IN  /\ 0 <= lap /\ lap * Microsecond <= clock
             /\ clock <= lap * Microsecond + (Microsecond - 1) * Cardinality(between)
<1> DEFINE S == Unpaused(1, c + 1)
           T == Unpaused(1, d + 1)
           between == {i \in Unpaused(1, Size) : c < i /\ i <= d}
<1>1. Size \in Nat
  BY DEF BenchInv, TypeOK, Size
<1>2. /\ S \subseteq T /\ T \ S = between
      /\ S \in SUBSET (1..(Size - 1)) /\ between \in SUBSET (1..(Size - 1))
  BY <1>1 DEF Unpaused
<1>3. /\ CumulativeBenchmark(c, TRUE) = SumTo(Counted(S), Size - 1)
      /\ CumulativeBenchmark(d, TRUE) = SumTo(Counted(T), Size - 1)
  BY LapBench
<1> HIDE DEF S, T, between
<1>4. SumTo(Counted(T), Size - 1)
        = SumTo(Counted(S), Size - 1) + SumTo(Counted(between), Size - 1)
  BY <1>2, SumOfRest
<1>5. SumTo(Counted(S), Size - 1) \in Nat
  BY <1>2, SumOfWhole
<1>6. /\ SumTo(Counted(between), Size - 1) \in Nat
      /\ SumTo(Counted(between), Size - 1) * Microsecond <= SumTo(Clock(between), Size - 1)
      /\ SumTo(Clock(between), Size - 1)
           <= SumTo(Counted(between), Size - 1) * Microsecond
                + (Microsecond - 1) * Cardinality(between)
  BY <1>2, SumOfWhole
<1>7. CumulativeBenchmark(d, TRUE) - CumulativeBenchmark(c, TRUE)
        = SumTo(Counted(between), Size - 1)
  <2> DEFINE x == CumulativeBenchmark(c, TRUE)
             y == CumulativeBenchmark(d, TRUE)
             z == SumTo(Counted(between), Size - 1)
  <2>1. x \in Nat /\ z \in Nat /\ y = x + z
    BY <1>3, <1>4, <1>5, <1>6
  <2> HIDE DEF x, y, z
  <2>2. y - x = z
    BY <2>1
  <2> QED
    BY <2>2 DEF x, y, z
<1>8. 0 <= SumTo(Counted(between), Size - 1)
  BY <1>6
<1> QED
  BY <1>6, <1>7, <1>8 DEF between

\* Two laps may be subtracted: the difference is the time between them that was
\* not paused, less than a microsecond short for each interval.
THEOREM LapsAlwaysConsistent == Spec => []LapsConsistent
<1>1. ASSUME BenchInv, NEW name \in DOMAIN cursors
      PROVE  /\ cursors[name] \in 0..(Size - 1) /\ Size >= 1
             /\ cursors[name] = 0 => Size = 1
  BY <1>1 DEF BenchInv, NamedFirst, TypeOK, Size
<1>2. BenchInv => LapsConsistent
  BY <1>1, LapBench, LapsBench DEF LapsConsistent
<1> QED
  BY BenchAlways, <1>2, PTL

-----------------------------------------------------------------------------

(* The stopwatch                                                           *)

\* A new reading adds the whole microseconds since the last one, unless that was
\* a pause.
LEMMA TakeTimeElapsed ==
  ASSUME BenchInv, NEW pausing, NEW cursor, TakeTime(pausing, cursor)
  PROVE  CumulativeBenchmark(0, TRUE)' =
           IF Size = 0 \/ pauses[Len(pauses)] THEN CumulativeBenchmark(0, TRUE)
           ELSE CumulativeBenchmark(0, TRUE) + Microseconds(now - TimeAt(Size - 1))
<1> DEFINE n == Size
           old == Counted(Unpaused(1, Size))
           new == Counted(Unpaused(1, Size))'
<1>1. /\ times \in Seq(Nat) /\ pauses \in Seq(BOOLEAN) /\ n = Len(times) /\ n \in Nat
      /\ Len(pauses) = n + 1 /\ now \in Nat /\ \A i \in 1..n : times[i] <= now
  BY DEF BenchInv, TypeOK, Size
<1>2. /\ Size' = n + 1
      /\ \A i \in 1..n : times'[i] = times[i]
      /\ times'[n + 1] = now
      /\ \A i \in 1..(n + 1) : pauses'[i] = pauses[i]
  BY <1>1 DEF TakeTime, Size
<1>3. CumulativeBenchmark(0, TRUE)' = SumTo(new, n)
  <2>1. ~(0 >= Size') /\ Size' - 1 = n /\ Size' - 1 + 1 = Size'
    BY <1>1, <1>2
  <2> QED
    BY <2>1 DEF CumulativeBenchmark, SumNotPausedTimes
<1>4. CASE n = 0
  <2>1. SumTo(new, n) = 0
    BY <1>4, SumZero
  <2>2. CumulativeBenchmark(0, TRUE) = 0
    BY <1>4 DEF CumulativeBenchmark
  <2> QED
    BY <1>3, <1>4, <2>1, <2>2
<1>5. CASE n # 0
  <2>1. n >= 1 /\ n - 1 \in Nat /\ (n - 1) + 1 = n /\ ~(0 >= n)
    BY <1>1, <1>5
  <2>2. CumulativeBenchmark(0, TRUE) = SumTo(old, n - 1)
    BY <2>1 DEF CumulativeBenchmark, SumNotPausedTimes
  <2>3. \A i \in 1..(n - 1) : old[i] \in Nat
    BY <2>1, Intervals
  <2>4. ASSUME NEW i \in 1..n
        PROVE  new[i] = IF pauses[i + 1] THEN 0 ELSE Microseconds(times'[i + 1] - times'[i])
    <3>1. i + 1 \in 1..(n + 1) /\ i - 1 + 1 = i /\ Size' - 1 = n
          /\ i >= 1 /\ i < Size' /\ pauses'[i + 1] = pauses[i + 1]
      BY <1>1, <1>2
    <3> QED
      BY <3>1 DEF Counted, Unpaused, PausedAt, Interval, TimeAt
  <2>5. ASSUME NEW i \in 1..(n - 1)
        PROVE  old[i] = new[i]
    <3>1. i \in 1..n /\ i + 1 \in 1..n /\ i - 1 + 1 = i /\ i >= 1 /\ i < Size
      BY <1>1
    <3>2. old[i] = IF pauses[i + 1] THEN 0 ELSE Microseconds(times[i + 1] - times[i])
      BY <3>1 DEF Counted, Unpaused, PausedAt, Interval, TimeAt
    <3> QED
      BY <1>2, <2>4, <3>1, <3>2
  <2>6. new[n] = IF pauses[n + 1] THEN 0 ELSE Microseconds(now - times[n])
    BY <1>2, <2>1, <2>4
  <2>7. times[n] \in Nat /\ times[n] <= now /\ pauses[n + 1] \in BOOLEAN
    BY <1>1, <2>1
  <2>8. \A i \in 1..((n - 1) + 1) : new[i] \in Nat
    <3>1. \A i \in 1..n : i = n \/ i \in 1..(n - 1)
      BY <2>1
    <3>2. new[n] \in Nat
      <4>1. now - times[n] \in Nat
        BY <1>1, <2>7
      <4> QED
        BY <2>6, <4>1, WholeMicroseconds
    <3> HIDE DEF new, old
    <3> QED
      BY <2>1, <2>3, <2>5, <3>1, <3>2
  <2> HIDE DEF new, old
  <2>9. SumTo(old, n - 1) = SumTo(new, n - 1)
    BY <2>1, <2>3, <2>5, SumSame
  <2>10. SumTo(new, n) = SumTo(new, n - 1) + new[n]
    BY <2>1, <2>8, SumNext
  <2>11. SumTo(old, n - 1) \in Nat
    BY <2>1, <2>3, SumNat
  <2>12. TimeAt(Size - 1) = times[n] /\ pauses[Len(pauses)] = pauses[n + 1]
    BY <1>1, <2>1 DEF TimeAt
  <2>13. CASE pauses[n + 1]
    <3>1. SumTo(new, n) = SumTo(old, n - 1)
      BY <2>6, <2>9, <2>10, <2>11, <2>13
    <3> QED
      BY <1>3, <2>2, <2>12, <2>13, <3>1
  <2>14. CASE ~pauses[n + 1]
    <3>1. SumTo(new, n) = SumTo(old, n - 1) + Microseconds(now - times[n])
      BY <2>6, <2>9, <2>10, <2>14
    <3>2. ~(Size = 0 \/ pauses[Len(pauses)])
      BY <1>5, <2>12, <2>14
    <3> QED
      BY <1>3, <2>2, <2>12, <3>1, <3>2
  <2> QED
    BY <2>13, <2>14
<1> QED
  BY <1>4, <1>5

\* What the stopwatch shows of the chronometer.
Mode == IF Off THEN "off" ELSE IF IsPaused THEN "paused" ELSE "running"
Elapsed == CumulativeBenchmark(0, TRUE)
Reading == IF Off THEN 0 ELSE TimeAt(Size - 1)

\* What a new reading does to it.
LEMMA TakeTimeShown ==
  ASSUME BenchInv, NEW pausing \in BOOLEAN, NEW cursor, TakeTime(pausing, cursor),
         ~stopped, Size >= 1
  PROVE  /\ Mode = IF IsPaused THEN "paused" ELSE "running"
         /\ Elapsed' = IF IsPaused THEN Elapsed ELSE Elapsed + Microseconds(now - Reading)
         /\ stopped' = stopped => /\ Mode' = IF pausing THEN "paused" ELSE "running"
                                  /\ Reading' = now
         /\ stopped' => Mode' = "off" /\ Reading' = 0
<1>1. /\ times \in Seq(Nat) /\ pauses \in Seq(BOOLEAN) /\ Size = Len(times) /\ Size \in Nat
      /\ Len(pauses) = Size + 1 /\ now \in Nat /\ Size # 0
  BY DEF BenchInv, TypeOK, Size
<1>2. ~Off /\ (IsPaused <=> pauses[Len(pauses)])
  BY <1>1 DEF Off, IsPaused
<1>3. /\ Size' = Size + 1 /\ times'[Size + 1] = now
      /\ Len(pauses') = Size + 2 /\ pauses'[Size + 2] = pausing
  BY <1>1 DEF TakeTime, Size
<1>4. Elapsed' = IF IsPaused THEN Elapsed ELSE Elapsed + Microseconds(now - Reading)
  BY <1>1, <1>2, TakeTimeElapsed DEF Elapsed, Reading
<1>5. ASSUME stopped' = stopped
      PROVE  Mode' = (IF pausing THEN "paused" ELSE "running") /\ Reading' = now
  <2>1. ~stopped' /\ Size' # 0 /\ Size' - 1 + 1 = Size + 1
    BY <1>1, <1>3, <1>5
  <2>2. ~Off' /\ (IsPaused' <=> pausing)
    BY <1>3, <2>1 DEF Off, IsPaused
  <2>3. TimeAt(Size - 1)' = now
    BY <1>3, <2>1 DEF TimeAt
  <2> QED
    BY <2>2, <2>3 DEF Mode, Reading
<1>6. ASSUME stopped' PROVE Mode' = "off" /\ Reading' = 0
  BY <1>6 DEF Off, Mode, Reading
<1> QED
  BY <1>2, <1>4, <1>5, <1>6 DEF Mode

\* Every operation is one of the stopwatch, or it sees nothing of it.
LEMMA NextWatched ==
  ASSUME BenchInv, [Next]_vars
  PROVE  [Watch!Next]_<<Mode, Elapsed, Reading, now>>
<1>0. /\ times \in Seq(Nat) /\ pauses \in Seq(BOOLEAN) /\ Size = Len(times) /\ Size \in Nat
      /\ Len(pauses) = Size + 1 /\ now \in Nat /\ stopped \in BOOLEAN
  BY DEF BenchInv, TypeOK, Size
<1>1. ASSUME UNCHANGED state PROVE UNCHANGED <<Mode, Elapsed, Reading>>
  BY <1>1 DEF state, Mode, Elapsed, Reading, Off, IsPaused, Size, TimeAt,
              CumulativeBenchmark, SumNotPausedTimes, Counted, Unpaused, PausedAt, Interval
<1>2. CASE Tick
  <2>1. Watch!Tick
    BY <1>1, <1>2 DEF Tick, Watch!Tick, Mode, Elapsed, Reading
  <2> QED
    BY <2>1 DEF Watch!Next
<1>3. CASE Reset
  <2>1. Size' = 0 /\ now' = now
    BY <1>3 DEF Reset, Cleared, Size
  <2>2. Mode' = "off" /\ Elapsed' = 0 /\ Reading' = 0
    BY <2>1 DEF Mode, Elapsed, Reading, Off, CumulativeBenchmark
  <2>3. Watch!Clear
    BY <2>1, <2>2 DEF Watch!Clear, Mode, Elapsed, Reading
  <2> QED
    BY <2>3 DEF Watch!Next
<1>4. ASSUME Start PROVE Watch!Next
  <2>1. times' = <<now>> /\ pauses' = <<FALSE, FALSE>> /\ ~stopped' /\ now' = now
    BY <1>4 DEF Start
  <2>2. Size' = 1 /\ times'[1] = now /\ Len(pauses') = 2 /\ pauses'[2] = FALSE
    BY <2>1 DEF Size
  <2>3. Mode' = "running" /\ Reading' = now
    BY <2>1, <2>2 DEF Mode, Reading, Off, IsPaused, TimeAt
  <2>4. Elapsed' = 0
    BY <2>2, SumZero DEF Elapsed, CumulativeBenchmark, SumNotPausedTimes
  <2>5. Watch!Start
    BY <2>1, <2>3, <2>4 DEF Watch!Start, Mode, Elapsed, Reading
  <2> QED
    BY <2>5 DEF Watch!Next
<1>5. ASSUME NEW cursor, Step(cursor) PROVE Watch!Next
  <2>1. TakeTime(FALSE, cursor) /\ ~stopped /\ stopped' = stopped /\ now' = now /\ Size >= 1
    <3>1. Size >= 1
      BY <1>5, BoundAssumption DEF Step
    <3> QED
      BY <1>5, <3>1, Zenon DEF Step
  <2>2. /\ Mode = IF IsPaused THEN "paused" ELSE "running"
        /\ Elapsed' = IF IsPaused THEN Elapsed ELSE Elapsed + Microseconds(now - Reading)
        /\ Mode' = "running" /\ Reading' = now
    BY <2>1, TakeTimeShown
  <2>3. Watch!Step
    BY <2>1, <2>2 DEF Watch!Step, Watch!Read, Microseconds, Mode, Elapsed, Reading
  <2> QED
    BY <2>3 DEF Watch!Next
<1>6. ASSUME NEW cursor, Pause(cursor) PROVE Watch!Next
  <2>1. TakeTime(TRUE, cursor) /\ ~stopped /\ stopped' = stopped /\ now' = now /\ Size >= 1
        /\ ~IsPaused
    <3>1. Size >= 1
      BY <1>6, BoundAssumption DEF Pause
    <3> QED
      BY <1>6, <3>1, Zenon DEF Pause
  <2>2. /\ Mode = "running" /\ Elapsed' = Elapsed + Microseconds(now - Reading)
        /\ Mode' = "paused" /\ Reading' = now
    BY <2>1, TakeTimeShown
  <2>3. Watch!Pause
    BY <2>1, <2>2 DEF Watch!Pause, Watch!Read, Microseconds, Mode, Elapsed, Reading
  <2> QED
    BY <2>3 DEF Watch!Next
<1>7. ASSUME NEW cursor, Stop(cursor)
      PROVE  Watch!Next \/ UNCHANGED <<Mode, Elapsed, Reading, now>>
  <2>1. ~stopped /\ stopped' /\ now' = now
    BY <1>7 DEF Stop
  <2>2. Mode' = "off" /\ Reading' = 0
    BY <2>1 DEF Mode, Reading, Off
  <2>3. CASE IsPaused
    <3>1. UNCHANGED <<times, pauses, cursors>>
      BY <1>7, <2>3 DEF Stop
    <3>2. Elapsed' = Elapsed
      BY <3>1 DEF Elapsed, Size, TimeAt, CumulativeBenchmark, SumNotPausedTimes,
                  Counted, Unpaused, PausedAt, Interval
    <3>3. CASE Size = 0
      BY <2>1, <2>2, <3>2, <3>3 DEF Mode, Reading, Off
    <3>4. CASE Size # 0
      <4>1. Mode = "paused"
        BY <2>1, <2>3, <3>4 DEF Mode, Off
      <4>2. Watch!StopPaused
        BY <2>1, <2>2, <3>2, <4>1 DEF Watch!StopPaused, Mode, Elapsed, Reading
      <4> QED
        BY <4>2 DEF Watch!Next
    <3> QED
      BY <3>3, <3>4
  <2>4. CASE ~IsPaused
    <3>1. TakeTime(FALSE, cursor)
      BY <1>7, <2>4 DEF Stop
    <3>2. CASE Size = 0
      <4>1. Mode = "off" /\ Reading = 0
        BY <3>2 DEF Mode, Reading, Off
      <4>2. Elapsed' = Elapsed
        BY <3>1, <3>2, TakeTimeElapsed DEF Elapsed
      <4> QED
        BY <2>1, <2>2, <4>1, <4>2
    <3>3. CASE Size # 0
      <4>1. Size >= 1
        BY <1>0, <3>3
      <4>2. Mode = "running" /\ Elapsed' = Elapsed + Microseconds(now - Reading)
        BY <2>1, <2>4, <3>1, <4>1, TakeTimeShown
      <4>3. Watch!Stop
        BY <2>1, <2>2, <4>2 DEF Watch!Stop, Watch!Read, Microseconds, Mode, Elapsed, Reading
      <4> QED
        BY <4>3 DEF Watch!Next
    <3> QED
      BY <3>2, <3>3
  <2> QED
    BY <2>3, <2>4
<1>8. CASE UNCHANGED vars
  BY <1>1, <1>8 DEF vars, state
<1> QED
  BY <1>2, <1>3, <1>4, <1>5, <1>6, <1>7, <1>8 DEF Next, StepStarts

\* The chronometer is a stopwatch of whole microseconds: at every reading
\* cumulativeBenchmark() has counted those since the last reading if and only if
\* it was not paused, for any sequence of operations.
THEOREM IsStopwatch == Spec => ImplementsStopwatch
<1>1. Init => Watch!Init
  <2> SUFFICES ASSUME Init PROVE Watch!Init
    OBVIOUS
  <2>1. Size = 0 /\ now = 0
    BY DEF Init, Size
  <2> QED
    BY <2>1 DEF Watch!Init, Off, CumulativeBenchmark
<1>2. BenchInv /\ [Next]_vars => [Watch!Next]_Watch!watchVars
  BY NextWatched DEF Watch!watchVars, Mode, Elapsed, Reading
<1> QED
  BY <1>1, <1>2, BenchAlways, PTL DEF Spec, ImplementsStopwatch, Watch!Spec

-----------------------------------------------------------------------------

(* The minimum, the maximum and the average                                *)

\* What the scan has found when it has seen the intervals at the positions U.
FoundIn(acc, U) ==
  /\ acc \in [min : Nat, max : Nat, any : BOOLEAN]
  /\ acc.any <=> U # {}
  /\ U # {} => /\ acc.min \in {Interval(i) : i \in U}
               /\ acc.max \in {Interval(i) : i \in U}
  /\ \A i \in U : acc.min <= Interval(i) /\ Interval(i) <= acc.max

\* One turn of the scan.
LEMMA ScanFinds ==
  ASSUME NEW acc, NEW U, NEW n, FoundIn(acc, U), Interval(n) \in Nat,
         \A i \in U : Interval(i) \in Nat
  PROVE  FoundIn(Scan(acc, Interval(n)), U \cup {n})
<1> DEFINE x == Interval(n)
           new == Scan(acc, x)
           Vals == {Interval(i) : i \in U}
<1>1. /\ acc \in [min : Nat, max : Nat, any : BOOLEAN]
      /\ acc.min \in Nat /\ acc.max \in Nat /\ acc.any \in BOOLEAN /\ x \in Nat
      /\ U # {} => acc.min \in Vals /\ acc.max \in Vals
      /\ \A v \in Vals : v \in Nat /\ acc.min <= v /\ v <= acc.max
      /\ acc.any <=> U # {}
  BY DEF FoundIn
<1>2. {Interval(i) : i \in U \cup {n}} = Vals \cup {x}
  OBVIOUS
<1>3. \A i \in U \cup {n} : Interval(i) \in Vals \cup {x}
  OBVIOUS
<1>4. /\ new \in [min : Nat, max : Nat, any : BOOLEAN]
      /\ new.any
      /\ new.min \in Vals \cup {x} /\ new.max \in Vals \cup {x}
      /\ \A v \in Vals \cup {x} : new.min <= v /\ v <= new.max
  <2> HIDE DEF x, Vals
  <2>1. CASE ~acc.any
    <3>1. Vals = {} /\ new = [min |-> x, max |-> x, any |-> TRUE]
      BY <1>1, <2>1 DEF Scan, Vals
    <3> QED
      BY <1>1, <3>1
  <2>2. CASE acc.any /\ x < acc.min
    <3>1. new = [acc EXCEPT !.min = x]
      BY <2>2 DEF Scan
    <3>2. new = [min |-> x, max |-> acc.max, any |-> TRUE]
      BY <1>1, <2>2, <3>1
    <3>3. \A v \in Vals \cup {x} : x <= v /\ v <= acc.max
      BY <1>1, <2>2
    <3> QED
      BY <1>1, <2>2, <3>2, <3>3
  <2>3. CASE acc.any /\ ~(x < acc.min) /\ x > acc.max
    <3>1. new = [acc EXCEPT !.max = x]
      BY <2>3 DEF Scan
    <3>2. new = [min |-> acc.min, max |-> x, any |-> TRUE]
      BY <1>1, <2>3, <3>1
    <3>3. \A v \in Vals \cup {x} : acc.min <= v /\ v <= x
      BY <1>1, <2>3
    <3> QED
      BY <1>1, <2>3, <3>2, <3>3
  <2>4. CASE acc.any /\ ~(x < acc.min) /\ ~(x > acc.max)
    <3>1. new = acc
      BY <2>4 DEF Scan
    <3>2. acc.min <= x /\ x <= acc.max
      BY <1>1, <2>4
    <3> QED
      BY <1>1, <2>4, <3>1, <3>2
  <2> QED
    BY <2>1, <2>2, <2>3, <2>4
<1> HIDE DEF new
<1>5. U \cup {n} # {}
  OBVIOUS
<1> QED
  BY <1>2, <1>3, <1>4, <1>5 DEF FoundIn, new, x

\* The scan of all positions finds the least and the largest unpaused interval.
LEMMA MinMaxFound ==
  ASSUME BenchInv, Size >= 2
  PROVE  \E acc : /\ FoundIn(acc, Unpaused(1, Size))
                  /\ MinOrMax(FALSE, TRUE) = acc.min
                  /\ MinOrMax(TRUE, TRUE) = acc.max
<1> DEFINE U == {i \in 1..(Size - 1) : TRUE => ~PausedAt(i)}
           first == [min |-> 0, max |-> 0, any |-> FALSE]
           Turn(n, acc) == IF n \in U THEN Scan(acc, Interval(n)) ELSE acc
           Scans(f) == f = [n \in Nat |-> IF n = 0 THEN first
                                          ELSE IF n \in U THEN Scan(f[n - 1], Interval(n))
                                          ELSE f[n - 1]]
           g == CHOOSE f : Scans(f)
           Accs == [min : Nat, max : Nat, any : BOOLEAN]
<1>1. /\ Size - 1 \in Nat /\ Size \in Nat /\ U = Unpaused(1, Size)
      /\ \A i \in U : i \in Nat /\ i # 0 /\ i <= Size - 1 /\ Interval(i) \in Nat
  <2>1. /\ Size - 1 \in Nat /\ Size \in Nat /\ Size >= 1
        /\ \A i \in 1..(Size - 1) : Interval(i) \in Nat
    <3>1. Size \in Nat /\ Size >= 1
      BY DEF BenchInv, TypeOK, Size
    <3> QED
      BY <3>1, Intervals
  <2>2. U = Unpaused(1, Size)
    BY <2>1 DEF Unpaused
  <2>3. \A i \in U : i \in 1..(Size - 1)
    OBVIOUS
  <2>4. \A i \in 1..(Size - 1) : i \in Nat /\ i # 0 /\ i <= Size - 1
    BY <2>1
  <2> HIDE DEF U
  <2> QED
    BY <2>1, <2>2, <2>3, <2>4
<1>2. ASSUME NEW n \in Nat, NEW acc \in Accs PROVE Turn(n, acc) \in Accs
  BY <1>1 DEF Scan
<1>3. \E f : Scans(f)
  <2> DEFINE step == [n \in Nat |-> [acc \in Accs |-> Turn(n, acc)]]
  <2>1. first \in Accs
    OBVIOUS
  <2> HIDE DEF Accs, first, U, Turn
  <2>2. step \in [Nat -> [Accs -> Accs]]
    BY <1>2
  <2>3. \A n \in Nat : \A acc \in Accs : step[n][acc] = Turn(n, acc)
    OBVIOUS
  <2> HIDE DEF step
  <2>4. PICK f : Recursive(f, Accs, first, step)
    BY <2>1, <2>2, RecursiveExists DEF HasRecursive
  <2>5. f \in [Nat -> Accs] /\ f[0] = first /\ \A n \in Nat : f[n + 1] = step[n + 1][f[n]]
    BY <2>4 DEF Recursive
  <2>6. \A n \in Nat : n + 1 \in Nat /\ f[n] \in Accs
    BY <2>5
  <2>7. \A n \in Nat : f[n + 1] = Turn(n + 1, f[n])
    BY <2>3, <2>5, <2>6
  <2>8. ASSUME NEW n \in Nat, n # 0
        PROVE  f[n] = IF n \in U THEN Scan(f[n - 1], Interval(n)) ELSE f[n - 1]
    <3>1. n - 1 \in Nat /\ (n - 1) + 1 = n
      BY <2>8
    <3> QED
      BY <2>7, <3>1 DEF Turn
  <2>9. Scans(f)
    BY <2>5, <2>8
  <2> QED
    BY <2>9
<1>4. Scans(g)
  <2> HIDE DEF Scans
  <2> QED
    BY <1>3, Zenon
<1>5. MinOrMax(FALSE, TRUE) = g[Size - 1].min /\ MinOrMax(TRUE, TRUE) = g[Size - 1].max
  <2>1. NotEnough(TRUE) = FALSE
    BY <1>1 DEF NotEnough
  <2>2. MinOrMax(FALSE, TRUE) = g[Size - 1].min
    BY <2>1, Zenon DEF MinOrMax
  <2>3. MinOrMax(TRUE, TRUE) = g[Size - 1].max
    BY <2>1, Zenon DEF MinOrMax
  <2> QED
    BY <2>2, <2>3
<1> HIDE DEF g
<1>6. g[0] = first /\ \A n \in Nat : g[n + 1] = Turn(n + 1, g[n])
  <2> HIDE DEF first, U
  <2>1. \A n \in Nat : n + 1 # 0 /\ n + 1 - 1 = n
    OBVIOUS
  <2> QED
    BY <1>4, <2>1
<1>7. \A n \in Nat : FoundIn(g[n], {i \in U : i <= n})
  <2> DEFINE Seen(n) == {i \in U : i <= n}
             P == {n \in Nat : FoundIn(g[n], Seen(n))}
  <2>1. 0 \in P
    <3>1. Seen(0) = {}
      BY <1>1
    <3>2. FoundIn(first, {})
      BY DEF FoundIn
    <3> HIDE DEF Seen, first
    <3> QED
      BY <1>6, <3>1, <3>2
  <2>2. ASSUME NEW n \in Nat, n \in P PROVE n + 1 \in P
    <3> HIDE DEF U
    <3>1. CASE n + 1 \in U
      <4>1. Seen(n + 1) = Seen(n) \cup {n + 1}
        BY <1>1, <3>1
      <4>2. \A i \in Seen(n) : Interval(i) \in Nat
        BY <1>1
      <4>3. g[n + 1] = Scan(g[n], Interval(n + 1)) /\ Interval(n + 1) \in Nat
        BY <1>1, <1>6, <3>1
      <4> HIDE DEF Seen
      <4>4. FoundIn(Scan(g[n], Interval(n + 1)), Seen(n) \cup {n + 1})
        BY <2>2, <4>2, <4>3, ScanFinds
      <4> QED
        <5>1. FoundIn(g[n + 1], Seen(n + 1))
          BY <4>1, <4>3, <4>4, Zenon
        <5> QED
          BY <5>1
    <3>2. CASE n + 1 \notin U
      <4>1. Seen(n + 1) = Seen(n)
        BY <1>1, <3>2
      <4>2. g[n + 1] = g[n]
        BY <1>6, <3>2
      <4> HIDE DEF Seen
      <4> QED
        BY <2>2, <4>1, <4>2
    <3> QED
      BY <3>1, <3>2
  <2>3. Nat \subseteq P
    <3> HIDE DEF P
    <3> QED
      BY <2>1, <2>2, AllNat
  <2> QED
    BY <2>3
<1>8. FoundIn(g[Size - 1], Unpaused(1, Size))
  <2>1. {i \in U : i <= Size - 1} = Unpaused(1, Size)
    BY <1>1
  <2> HIDE DEF U
  <2> QED
    BY <1>1, <1>7, <2>1
<1> QED
  BY <1>5, <1>8

\* A sum of numbers between lo and hi lies between so many times lo and hi.
LEMMA SumBetween ==
  ASSUME NEW m \in Nat, NEW U \in SUBSET (1..m), NEW a, NEW lo \in Nat, NEW hi \in Nat,
         \A i \in U : a[i] \in Nat /\ lo <= a[i] /\ a[i] <= hi,
         \A i \in (1..m) \ U : a[i] = 0
  PROVE  /\ lo * Cardinality(U) <= SumTo(a, m)
         /\ SumTo(a, m) <= hi * Cardinality(U)
<1> DEFINE Seen(n) == {i \in U : i <= n}
           Between(n) == /\ IsFiniteSet(Seen(n)) /\ Cardinality(Seen(n)) \in Nat
                         /\ SumTo(a, n) \in Nat
                         /\ lo * Cardinality(Seen(n)) <= SumTo(a, n)
                         /\ SumTo(a, n) <= hi * Cardinality(Seen(n))
           P == {n \in Nat : n <= m => Between(n)}
<1>0. \A i \in U : i \in Nat /\ i >= 1 /\ i <= m
  OBVIOUS
<1>1. 0 \in P
  <2>1. Seen(0) = {}
    <3>1. \A i \in U : ~(i <= 0)
      BY <1>0
    <3> QED
      BY <3>1
  <2>2. IsFiniteSet({}) /\ Cardinality({}) = 0
    BY FS_EmptySet
  <2>3. SumTo(a, 0) = 0 /\ lo * 0 = 0 /\ hi * 0 = 0
    BY SumZero
  <2> HIDE DEF Seen
  <2> QED
    BY <2>1, <2>2, <2>3
<1>2. ASSUME NEW n \in Nat, n \in P PROVE n + 1 \in P
  <2>1. CASE n + 1 <= m
    <3>1. Between(n)
      <4> HIDE DEF Between
      <4> QED
        BY <1>2, <2>1
    <3>2. SumTo(a, n + 1) = SumTo(a, n) + a[n + 1]
      <4>1. \A i \in 1..(n + 1) : i \in 1..m
        BY <2>1
      <4>2. \A i \in 1..(n + 1) : a[i] \in Nat
        BY <4>1
      <4> QED
        BY <4>2, SumNext
    <3>3. CASE n + 1 \in U
      <4>1. Seen(n + 1) = Seen(n) \cup {n + 1} /\ n + 1 \notin Seen(n)
        <5>1. \A i \in U : i <= n + 1 <=> (i <= n \/ i = n + 1)
          BY <1>0
        <5>2. ~(n + 1 <= n)
          OBVIOUS
        <5> QED
          BY <3>3, <5>1, <5>2, Zenon
      <4> DEFINE k == Cardinality(Seen(n))
      <4>2. IsFiniteSet(Seen(n + 1)) /\ Cardinality(Seen(n + 1)) = k + 1
        <5> HIDE DEF Seen
        <5> QED
          BY <3>1, <4>1, FS_AddElement
      <4>3. k \in Nat /\ lo * (k + 1) = lo * k + lo /\ hi * (k + 1) = hi * k + hi
            /\ lo * k \in Nat /\ hi * k \in Nat
        <5>1. k \in Nat
          BY <3>1
        <5> HIDE DEF k
        <5> QED
          BY <5>1
      <4>4. a[n + 1] \in Nat /\ lo <= a[n + 1] /\ a[n + 1] <= hi
        BY <3>3
      <4>5. SumTo(a, n) \in Nat /\ lo * k <= SumTo(a, n) /\ SumTo(a, n) <= hi * k
        BY <3>1
      <4> HIDE DEF Seen, k
      <4>6. /\ SumTo(a, n + 1) \in Nat
            /\ lo * (k + 1) <= SumTo(a, n + 1) /\ SumTo(a, n + 1) <= hi * (k + 1)
        BY <3>2, <4>3, <4>4, <4>5
      <4>7. Between(n + 1)
        BY <4>2, <4>3, <4>6
      <4> HIDE DEF Between
      <4> QED
        BY <4>7
    <3>4. CASE n + 1 \notin U
      <4>1. Seen(n + 1) = Seen(n)
        <5>1. \A i \in U : i <= n + 1 <=> i <= n
          BY <1>0, <3>4
        <5> QED
          BY <5>1
      <4>2. a[n + 1] = 0
        BY <2>1, <3>4
      <4> HIDE DEF Seen
      <4>3. SumTo(a, n + 1) = SumTo(a, n)
        BY <3>1, <3>2, <4>2
      <4>4. Between(n + 1)
        BY <3>1, <4>1, <4>3
      <4> HIDE DEF Between
      <4> QED
        BY <4>4
    <3> QED
      BY <3>3, <3>4
  <2> QED
    BY <2>1
<1>3. Nat \subseteq P
  <2> HIDE DEF P
  <2> QED
    BY <1>1, <1>2, AllNat
<1>4. Between(m)
  <2> HIDE DEF Between
  <2> QED
    BY <1>3
<1>5. Seen(m) = U
  BY <1>0
<1> HIDE DEF Seen
<1> QED
  BY <1>4, <1>5

\* min() and max() are the least and the largest unpaused interval, and the
\* average lies between them, for any number of readings.
THEOREM MinMaxAlwaysOfUnpaused == Spec => []MinMaxOfUnpaused
<1>1. ASSUME BenchInv, Size >= 2
      PROVE  LET intervals == {Interval(i) : i \in Unpaused(1, Size)}
                 min == MinOrMax(FALSE, TRUE)
                 max == MinOrMax(TRUE, TRUE)
                 avg == Average(TRUE)
             IN /\ min \in intervals /\ max \in intervals
                /\ \A x \in intervals : min <= x /\ x <= max
                /\ min * avg[2] <= avg[1] /\ avg[1] <= max * avg[2]
  <2> DEFINE U == Unpaused(1, Size)
             a == Counted(U)
  <2>1. PICK acc : /\ FoundIn(acc, U)
                   /\ MinOrMax(FALSE, TRUE) = acc.min
                   /\ MinOrMax(TRUE, TRUE) = acc.max
    BY <1>1, MinMaxFound
  <2>2. Size \in Nat /\ Size >= 1 /\ Size - 1 \in Nat /\ 1 \in U /\ U \in SUBSET (1..(Size - 1))
    BY <1>1 DEF Unpaused, BenchInv, TypeOK, Size
  <2>3. \A i \in 1..(Size - 1) : Interval(i) \in Nat
    BY <1>1, <2>2, Intervals
  <2>4. /\ acc.min \in Nat /\ acc.max \in Nat
        /\ acc.min \in {Interval(i) : i \in U} /\ acc.max \in {Interval(i) : i \in U}
        /\ \A i \in U : acc.min <= Interval(i) /\ Interval(i) <= acc.max
    BY <2>1, <2>2 DEF FoundIn
  <2>5. Average(TRUE) = <<SumTo(a, Size - 1), Cardinality(U)>>
    <3>1. ~NotEnough(TRUE) /\ ~(0 >= Size) /\ Size - 1 + 1 = Size
      BY <1>1, <2>2 DEF NotEnough
    <3> QED
      BY <3>1 DEF Average, CumulativeBenchmark, SumNotPausedTimes, CountNotPausedTimes
  <2>6. /\ \A i \in U : a[i] \in Nat /\ acc.min <= a[i] /\ a[i] <= acc.max
        /\ \A i \in (1..(Size - 1)) \ U : a[i] = 0
    BY <2>2, <2>3, <2>4 DEF Counted
  <2> HIDE DEF U, a
  <2>7. /\ acc.min * Cardinality(U) <= SumTo(a, Size - 1)
        /\ SumTo(a, Size - 1) <= acc.max * Cardinality(U)
    BY <2>2, <2>4, <2>6, SumBetween
  <2>8. \A x \in {Interval(i) : i \in U} : acc.min <= x /\ x <= acc.max
    BY <2>4
  <2>9. Average(TRUE)[1] = SumTo(a, Size - 1) /\ Average(TRUE)[2] = Cardinality(U)
    <3>1. \A x, y : <<x, y>>[1] = x /\ <<x, y>>[2] = y
      OBVIOUS
    <3> QED
      BY <2>5, <3>1, Zenon
  <2> QED
    BY <2>1, <2>4, <2>7, <2>8, <2>9, Zenon DEF U
<1>2. BenchInv => MinMaxOfUnpaused
  BY <1>1 DEF MinMaxOfUnpaused
<1> QED
  BY BenchAlways, <1>2, PTL
=============================================================================
