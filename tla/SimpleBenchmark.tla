--------------------------- MODULE SimpleBenchmark --------------------------
(***************************************************************************)
(* The chronometer SimpleBenchmark: the clock readings it keeps, the flags   *)
(* that say after which readings it was paused, the names given to readings, *)
(* and the statistics computed from them.  Positions are those of the C++    *)
(* vectors, from 0.                                                          *)
(***************************************************************************)
EXTENDS Integers, Sequences, FiniteSets, Sums

CONSTANTS
  Names,     \* non-empty strings given as cursors
  NoName,    \* the empty string
  Microsecond,  \* units of the clock in a microsecond
  MaxTimes,  \* bound: readings kept
  MaxNow     \* bound: the clock

ASSUME NamesAssumption == NoName \notin Names
ASSUME MicrosecondAssumption == Microsecond \in Nat \ {0}
ASSUME BoundAssumption == MaxTimes \in Nat

VARIABLES
  times,    \* readings of the clock
  pauses,   \* pauses[0] is a filler; pauses[i + 1] is pushed with times[i]
  cursors,  \* cursors[name]: a position in times
  stopped,
  now       \* the clock

state == <<times, pauses, cursors, stopped>>
vars == <<times, pauses, cursors, stopped, now>>

Size == Len(times)
TimeAt(i) == times[i + 1]
PausedAt(i) == pauses[i + 1]

IsPaused == ~stopped /\ pauses[Len(pauses)]

-----------------------------------------------------------------------------
(* Operations *)

\* Variant of Cleared: the cursors are not cleared.
ClearedButCursors ==
  /\ times' = <<>>
  /\ pauses' = <<FALSE>>
  /\ stopped' = FALSE
  /\ UNCHANGED cursors

Cleared ==
  /\ times' = <<>>
  /\ pauses' = <<FALSE>>
  /\ cursors' = <<>>
  /\ stopped' = FALSE

\* takeTime(pausing, cursor): the position of the new reading is the old size.
TakeTime(pausing, cursor) ==
  /\ times' = Append(times, now)
  /\ pauses' = Append(pauses, pausing)
  /\ cursors' = IF cursor = NoName THEN cursors
                ELSE [name \in DOMAIN cursors \cup {cursor} |->
                        IF name = cursor THEN Size ELSE cursors[name]]

Reset == Cleared /\ UNCHANGED now

Start ==
  /\ times' = <<now>>
  /\ pauses' = <<FALSE, FALSE>>
  /\ cursors' = <<>>
  /\ stopped' = FALSE
  /\ UNCHANGED now

\* The first step starts the chronometer and drops the cursor.
StepStarts(cursor) == Size = 0 /\ Start

Step(cursor) ==
  /\ Size \in 1..(MaxTimes - 1)
  /\ ~stopped
  /\ TakeTime(FALSE, cursor)
  /\ UNCHANGED <<stopped, now>>

\* Variant of Pause: a second pause in a row is taken.
PauseAgain(cursor) ==
  /\ Size \in 1..(MaxTimes - 1)
  /\ ~stopped
  /\ TakeTime(TRUE, cursor)
  /\ UNCHANGED <<stopped, now>>

\* A second pause in a row is ignored.
Pause(cursor) ==
  /\ Size \in 1..(MaxTimes - 1)
  /\ ~IsPaused
  /\ ~stopped
  /\ TakeTime(TRUE, cursor)
  /\ UNCHANGED <<stopped, now>>

\* No reading is taken in a pause.
Stop(cursor) ==
  /\ ~stopped
  /\ Size < MaxTimes
  /\ IF IsPaused THEN UNCHANGED <<times, pauses, cursors>> ELSE TakeTime(FALSE, cursor)
  /\ stopped' = TRUE
  /\ UNCHANGED now

Tick == now < MaxNow /\ now' = now + 1 /\ UNCHANGED state

-----------------------------------------------------------------------------
(* Statistics, in microseconds; an average is a pair <<sum, count>> *)

\* duration_cast<microseconds>: what is over a whole number of them is lost.
Microseconds(duration) == duration \div Microsecond

\* Every interval is converted on its own.
Interval(i) == Microseconds(TimeAt(i) - TimeAt(i - 1))

\* Variant of Unpaused: the flags are not looked at.
UnpausedOrNot(fromCursor, toCursor) ==
  {i \in 1..(Size - 1) : i >= fromCursor /\ i < toCursor}

\* The positions the two loops over the pauses visit and do not skip.
Unpaused(fromCursor, toCursor) ==
  {i \in 1..(Size - 1) : i >= fromCursor /\ i < toCursor /\ ~PausedAt(i)}

CountNotPausedTimes(fromCursor, toCursor) == Cardinality(Unpaused(fromCursor, toCursor))

\* The intervals the sum is made of: those of the other positions count nothing.
Counted(S) == [i \in 1..(Size - 1) |-> IF i \in S THEN Interval(i) ELSE 0]

SumNotPausedTimes(fromCursor, toCursor) ==
  SumTo(Counted(Unpaused(fromCursor, toCursor)), Size - 1)

GetNumericCursor(name) == IF name \in DOMAIN cursors THEN cursors[name] ELSE 0

\* Variant of CumulativeBenchmark: one interval too many is summed.
CumulativeBenchmarkLate(cursor, noPauses) ==
  IF cursor >= Size THEN 0
  ELSE LET end == IF cursor < 1 THEN Size - 1 ELSE cursor
       IN IF noPauses THEN SumNotPausedTimes(1, end + 2) ELSE Microseconds(TimeAt(end) - TimeAt(0))

CumulativeBenchmark(cursor, noPauses) ==
  IF cursor >= Size THEN 0
  ELSE LET end == IF cursor < 1 THEN Size - 1 ELSE cursor
       IN IF noPauses THEN SumNotPausedTimes(1, end + 1) ELSE Microseconds(TimeAt(end) - TimeAt(0))

\* countNotPausedTimes(times.size(), 0) counts an empty range.
NotEnough(noPauses) ==
  Size < 2 \/ (~noPauses /\ CountNotPausedTimes(Size, 0) < 2)

Average(noPauses) ==
  IF NotEnough(noPauses) THEN <<0, 1>>
  ELSE IF noPauses THEN <<CumulativeBenchmark(0, TRUE), CountNotPausedTimes(1, Size)>>
  ELSE <<CumulativeBenchmark(0, TRUE), Size - 1>>

\* Variant of MinOrMax: the minimum starts from 0.
MinOrMaxFromZero(giveMax, noPauses) ==
  IF NotEnough(noPauses) THEN 0
  ELSE LET scanned == {i \in 1..(Size - 1) : noPauses => ~PausedAt(i)}
           scan[n \in 0..(Size - 1)] ==
             IF n = 0 \/ n \notin scanned THEN 0
             ELSE IF giveMax = (Interval(n) > scan[n - 1]) THEN Interval(n) ELSE scan[n - 1]
       IN scan[Size - 1]

\* One turn of the loop: there is an else between the two comparisons.
Scan(acc, interval) ==
  IF ~acc.any THEN [min |-> interval, max |-> interval, any |-> TRUE]
  ELSE IF interval < acc.min THEN [acc EXCEPT !.min = interval]
  ELSE IF interval > acc.max THEN [acc EXCEPT !.max = interval]
  ELSE acc

\* minOrMax() without pauses scans from the first unpaused interval on.
MinOrMax(giveMax, noPauses) ==
  IF NotEnough(noPauses) THEN 0
  ELSE LET scanned == {i \in 1..(Size - 1) : noPauses => ~PausedAt(i)}
           scan[n \in Nat] ==
             IF n = 0 THEN [min |-> 0, max |-> 0, any |-> FALSE]
             ELSE IF n \in scanned THEN Scan(scan[n - 1], Interval(n))
             ELSE scan[n - 1]
       IN IF giveMax THEN scan[Size - 1].max ELSE scan[Size - 1].min

-----------------------------------------------------------------------------

Init ==
  /\ times = <<>>
  /\ pauses = <<FALSE>>
  /\ cursors = <<>>
  /\ stopped = TRUE
  /\ now = 0

\* cont() is step with no cursor.  A call whose guards fail changes nothing.
Next ==
  \/ Tick \/ Reset \/ Start
  \/ \E cursor \in Names \cup {NoName} :
       StepStarts(cursor) \/ Step(cursor) \/ Pause(cursor) \/ Stop(cursor)

Spec == Init /\ [][Next]_vars

-----------------------------------------------------------------------------
(* Properties *)

\* The two vectors and the map agree: one flag more than readings, the readings
\* in the order of the clock, and every cursor at a reading.
TypeOK ==
  /\ times \in Seq(Nat) /\ now \in Nat
  /\ pauses \in Seq(BOOLEAN)
  /\ Len(pauses) = Size + 1
  /\ \A i \in 1..Size : times[i] <= now
  /\ \A i \in 1..Size, j \in 1..Size : i <= j => times[i] <= times[j]
  /\ DOMAIN cursors \subseteq Names
  /\ \A name \in DOMAIN cursors : cursors[name] \in 0..(Size - 1)
  /\ stopped \in BOOLEAN

\* No two readings in a row pause the chronometer.
NoDoublePause == \A i \in 1..(Size - 1) : ~(PausedAt(i) /\ PausedAt(i + 1))

\* With two readings or more there is an unpaused interval, so that no average
\* divides by zero; the minimum and the maximum are those of the unpaused
\* intervals, and the average lies between them.
MinMaxOfUnpaused ==
  Size >= 2 =>
    LET intervals == {Interval(i) : i \in Unpaused(1, Size)}
        min == MinOrMax(FALSE, TRUE)
        max == MinOrMax(TRUE, TRUE)
        avg == Average(TRUE)
    IN /\ min \in intervals /\ max \in intervals
       /\ \A x \in intervals : min <= x /\ x <= max
       /\ min * avg[2] <= avg[1] /\ avg[1] <= max * avg[2]

\* The time on the clock, in its own units, of the intervals at the positions S.
Clock(S) == [i \in 1..(Size - 1) |-> IF i \in S THEN TimeAt(i) - TimeAt(i - 1) ELSE 0]

\* Two laps may be subtracted, as the simulation does to print the time of the
\* protocol: from one named reading to a later one, whatever was paused, stopped
\* or named again, the difference is the time of the intervals between them
\* that were not paused, less than a microsecond short for each.  No lap without
\* the pauses is longer than with them.
LapsConsistent ==
  \A first, last \in DOMAIN cursors : cursors[first] <= cursors[last] =>
    LET lap == CumulativeBenchmark(cursors[last], TRUE)
                 - CumulativeBenchmark(cursors[first], TRUE)
        between == {i \in Unpaused(1, Size) : cursors[first] < i /\ i <= cursors[last]}
        clock == SumTo(Clock(between), Size - 1)
    IN /\ 0 <= lap /\ lap * Microsecond <= clock
       /\ clock <= lap * Microsecond + (Microsecond - 1) * Cardinality(between)
       /\ CumulativeBenchmark(cursors[last], TRUE) <= CumulativeBenchmark(cursors[last], FALSE)

\* cumulativeBenchmark() is what a stopwatch counts that forgets the part of a
\* microsecond at every reading.
Off == stopped \/ Size = 0

Watch == INSTANCE Stopwatch WITH
  mode <- IF Off THEN "off" ELSE IF IsPaused THEN "paused" ELSE "running",
  elapsed <- CumulativeBenchmark(0, TRUE),
  reading <- IF Off THEN 0 ELSE TimeAt(Size - 1)

ImplementsStopwatch == Watch!Spec
=============================================================================
