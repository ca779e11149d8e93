----------------------------- MODULE Stopwatch ------------------------------
(***************************************************************************)
(* What a chronometer promises: it is off, running or paused, and between   *)
(* two readings of the clock it counts the time if and only if it is        *)
(* running.  It remembers no list of times.  It counts whole microseconds:   *)
(* what a reading leaves over of one is not counted with the next.           *)
(***************************************************************************)
EXTENDS Naturals

CONSTANT Microsecond  \* units of the clock in a microsecond

VARIABLES
  mode,     \* "off", "running" or "paused"
  elapsed,  \* the microseconds counted up to the last reading
  reading,  \* the last reading, 0 when off
  now       \* the clock

watchVars == <<mode, elapsed, reading, now>>

Init == mode = "off" /\ elapsed = 0 /\ reading = 0 /\ now = 0

\* A reading of the clock, after which the chronometer is in mode m.
Read(m) ==
  /\ elapsed' = IF mode = "running" THEN elapsed + ((now - reading) \div Microsecond)
                                  ELSE elapsed
  /\ reading' = IF m = "off" THEN 0 ELSE now
  /\ mode' = m
  /\ UNCHANGED now

Tick == now' = now + 1 /\ UNCHANGED <<mode, elapsed, reading>>
Clear == mode' = "off" /\ elapsed' = 0 /\ reading' = 0 /\ UNCHANGED now
Start == mode' = "running" /\ elapsed' = 0 /\ reading' = now /\ UNCHANGED now
Step == mode \in {"running", "paused"} /\ Read("running")
Pause == mode = "running" /\ Read("paused")
Stop == mode = "running" /\ Read("off")
\* Stopped in a pause: nothing more to count, and no reading.
StopPaused == mode = "paused" /\ mode' = "off" /\ reading' = 0 /\ UNCHANGED <<elapsed, now>>

Next == Tick \/ Clear \/ Start \/ Step \/ Pause \/ Stop \/ StopPaused

Spec == Init /\ [][Next]_watchVars
=============================================================================
