-------------------------------- MODULE Clock --------------------------------
(***************************************************************************)
(* The clock: the programmable interval timer (sched/pit.cpp) and a Timer  *)
(* around a sleep (sched/timer.h).  tick is what an interrupt handler      *)
(* would call at the end of each period of the timer chip, at any point of *)
(* the code that uses the clock; the kernel has no such handler yet.  Real *)
(* time is history, in units of one baseFrequency-th of a nanosecond, so   *)
(* that a period of n counts of the chip lasts n * Second units.           *)
(***************************************************************************)
EXTENDS Integers

CONSTANTS
  baseFrequency,  \* 1193182: counts of the chip in a second
  Second,         \* 1000000000: nanoseconds in a second
  Byte,           \* 256: a divisor is two bytes
  MinDivisor,     \* 100
  Naps,           \* the times callers sleep, in nanoseconds
  Frequencies,    \* the frequencies callers ask for, none of them zero
  MaxTicks        \* bound: ticks

ASSUME ClockAssumption ==
  /\ {baseFrequency, Second, Byte, MinDivisor, MaxTicks} \subseteq Nat
  /\ MinDivisor \in 1 .. Byte * Byte - 1 /\ Byte * Byte <= baseFrequency
  /\ baseFrequency <= Second
  /\ Frequencies \subseteq Nat \ {0} /\ Naps \subseteq Nat

VARIABLES
  timeSinceBootNs,
  divisor,
  chip,           \* the counts of its period, and the low byte of the next
  at,             \* what the user of the clock is doing
  late,           \* has a tick come since its last step
  asked,          \* history: the last argument of setFrequency, 0 before
  timer,          \* startTime and endTime
  nap,            \* the argument and the startTime of sleepNs, and history: has
                  \* a period begun since the call, and the real time of the
                  \* periods that have begun and ended since
  ticks           \* history: ticks so far

clockVars == <<timeSinceBootNs, divisor, chip, at, late, asked, timer, nap, ticks>>

u16 == Byte * Byte

getFrequency == baseFrequency \div divisor

\* The chip starts with its longest period.
ClockInit ==
  /\ timeSinceBootNs = 0 /\ divisor = u16 - 1
  /\ chip = [period |-> u16, low |-> 0]
  /\ at = "idle" /\ late = FALSE /\ asked = 0 /\ ticks = 0
  /\ timer = [startTime |-> 0, endTime |-> 0]
  /\ nap = [ns |-> 0, startTime |-> 0, begun |-> FALSE, real |-> 0]

TickLength == Second \div getFrequency

Asleep == {"test", "hlt", "halted"}

\* A processor that waits in hlt goes on to the test of its loop.  A period is
\* longer than any step of the code, so that one that does not wait goes on
\* between two ticks.  The period in which a sleep begins may be nearly over.
tick ==
  /\ ticks < MaxTicks /\ ticks' = ticks + 1
  /\ at \in {"idle", "stopped", "halted"} \/ ~late
  /\ late' = TRUE
  /\ timeSinceBootNs' = timeSinceBootNs + TickLength
  /\ nap' = IF at \in Asleep
            THEN [nap EXCEPT !.begun = TRUE,
                             !.real = IF nap.begun THEN @ + chip.period * Second ELSE @]
            ELSE nap
  /\ at' = IF at = "halted" THEN "test" ELSE at
  /\ UNCHANGED <<divisor, chip, asked, timer>>

\* The divisor setDivisor sets; its argument is an u16.
Clamped(d) == IF d % u16 < MinDivisor THEN MinDivisor ELSE d % u16

\* A step of the user of the clock.
Step(from, to) == at \in from /\ at' = to /\ late' = FALSE /\ UNCHANGED <<timeSinceBootNs, ticks>>

\* setFrequency, and setDivisor up to its first outb.
setFrequency(frequency) ==
  /\ Step({"idle", "stopped"}, "out low")
  /\ divisor' = Clamped(baseFrequency \div frequency) /\ asked' = frequency
  /\ UNCHANGED <<chip, timer, nap>>

OutLow ==
  /\ Step({"out low"}, "out high")
  /\ chip' = [chip EXCEPT !.low = divisor % Byte]
  /\ UNCHANGED <<divisor, asked, timer, nap>>

\* A name with a suffix is a faulty variant of the definition after it.
OutHigh_LowTwice ==
  /\ Step({"out high"}, "idle")
  /\ chip' = [chip EXCEPT !.period = (divisor % Byte) * Byte + chip.low]
  /\ UNCHANGED <<divisor, asked, timer, nap>>

\* The chip counts from the new value once it has both bytes.
OutHigh ==
  /\ Step({"out high"}, "idle")
  /\ chip' = [chip EXCEPT !.period = (divisor \div Byte) * Byte + chip.low]
  /\ UNCHANGED <<divisor, asked, timer, nap>>

\* Timer::start, which a sleep and Timer::stop follow.
start ==
  /\ Step({"idle", "stopped"}, "started")
  /\ timer' = [timer EXCEPT !.startTime = timeSinceBootNs]
  /\ UNCHANGED <<divisor, chip, asked, nap>>

sleepNs(ns) ==
  /\ Step({"started"}, "test")
  /\ nap' = [ns |-> ns, startTime |-> timeSinceBootNs, begun |-> FALSE, real |-> 0]
  /\ UNCHANGED <<divisor, chip, asked, timer>>

Over_Strict(now) == now > nap.startTime + nap.ns

Over(now) == now >= nap.startTime + nap.ns

\* The loop of sleepNs.  A tick between the test and hlt does not end the wait.
Test ==
  /\ Step({"test"}, IF Over(timeSinceBootNs) THEN "awake" ELSE "hlt")
  /\ UNCHANGED <<divisor, chip, asked, timer, nap>>

Hlt == Step({"hlt"}, "halted") /\ UNCHANGED <<divisor, chip, asked, timer, nap>>

stop ==
  /\ Step({"awake"}, "stopped")
  /\ timer' = [timer EXCEPT !.endTime = timeSinceBootNs]
  /\ UNCHANGED <<divisor, chip, asked, nap>>

getElapsedNs == timer.endTime - timer.startTime

ClockNext ==
  \/ tick
  \/ \E frequency \in Frequencies : setFrequency(frequency)
  \/ OutLow \/ OutHigh
  \/ start \/ (\E ns \in Naps : sleepNs(ns)) \/ Test \/ Hlt \/ stop

ClockSpec == ClockInit /\ [][ClockNext]_clockVars

-----------------------------------------------------------------------------
\* After setFrequency the chip counts by the divisor the clock computes with,
\* and for a frequency between the least one an u16 can express and the
\* greatest one the clamp allows, that is the greatest divisor with which the
\* chip is not slower than asked, although both divisions round down.
FrequencyHonoured ==
  at \in {"idle", "stopped"} /\ asked # 0 =>
    /\ chip.period = divisor
    /\ MinDivisor * asked <= baseFrequency /\ baseFrequency < u16 * asked =>
         getFrequency >= asked /\ (divisor + 1) * asked > baseFrequency

\* A sleep is as long as asked, but for two ticks.  It is over before the clock
\* has gone two ticks too far: the tick that comes between the test of sleepNs
\* and its hlt costs one more, never two.  The whole periods it lasted, and the
\* one in which it began, are not shorter than asked, except by what the clock
\* runs fast: one part in getFrequency, for getFrequency rounds down.  The
\* Timer around it adds a tick at either end.
SleepAccurate ==
  /\ at \in Asleep => timeSinceBootNs - nap.startTime < nap.ns + 2 * TickLength
  /\ at = "stopped" =>
       /\ (nap.real + chip.period * Second) * (getFrequency + 1)
            >= nap.ns * getFrequency * baseFrequency
       /\ nap.ns <= getElapsedNs /\ getElapsedNs < nap.ns + 4 * TickLength
==============================================================================
