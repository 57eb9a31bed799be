------------------------------ MODULE LibProofs ------------------------------
(***************************************************************************)
(* Proofs about the parts that stand alone: the clock, the interrupt       *)
(* table, and the string builder with its logger.                          *)
(***************************************************************************)
EXTENDS Clock, Logger, Interrupts, SequenceTheorems, TLAPS

-----------------------------------------------------------------------------
(* Division.                                                               *)

\* What a quotient is.
LEMMA Quotient ==
  ASSUME NEW x \in Nat, NEW y \in Nat \ {0}
  PROVE  /\ x \div y \in Nat /\ x % y \in 0 .. y - 1
         /\ x = (x \div y) * y + (x % y)
         /\ (x \div y) * y <= x /\ x < (x \div y + 1) * y
<1>1. x \div y \in Int /\ x % y \in 0 .. y - 1
  OBVIOUS
<1>2. x = (x \div y) * y + (x % y)
  BY Z3
<1>3. x \div y >= 0
  BY Z3
<1> DEFINE q == x \div y
           r == x % y
<1> HIDE DEF q, r
<1>4. q \in Nat /\ r \in 0 .. y - 1 /\ x = q * y + r
  BY <1>1, <1>2, <1>3 DEF q, r
<1>5. q * y <= x
  BY <1>4
<1>6. (q + 1) * y = q * y + y
  BY <1>4
<1>7. x < (q + 1) * y
  BY <1>4, <1>6
<1> QED BY <1>4, <1>5, <1>7 DEF q, r

\* A product is monotone.
LEMMA TimesMonotone ==
  ASSUME NEW a \in Nat, NEW b \in Nat, NEW c \in Nat, a <= b
  PROVE  a * c <= b * c /\ c * a <= c * b
<1>1. PICK d \in Nat : b = a + d
  <2>1. b - a \in Nat /\ b = a + (b - a)
    OBVIOUS
  <2> QED BY <2>1
<1>2. b * c = a * c + d * c /\ d * c \in Nat /\ a * c \in Nat
  BY <1>1
<1>3. c * a = a * c /\ c * b = b * c
  OBVIOUS
<1> QED BY <1>2, <1>3

\* The greatest multiple below a number.
LEMMA QuotientGreatest ==
  ASSUME NEW x \in Nat, NEW y \in Nat \ {0}, NEW z \in Nat, z * y <= x
  PROVE  z <= x \div y
<1> DEFINE q == x \div y
<1>1. q \in Nat /\ x < (q + 1) * y
  BY Quotient
<1> HIDE DEF q
<1>2. SUFFICES ASSUME ~(z <= q) PROVE FALSE
  BY DEF q
<1>3. q + 1 <= z /\ q + 1 \in Nat
  BY <1>1, <1>2
<1>4. (q + 1) * y <= z * y
  BY <1>3, TimesMonotone
<1>5. z * y \in Nat /\ (q + 1) * y \in Nat
  BY <1>1
<1> QED BY <1>1, <1>4, <1>5

-----------------------------------------------------------------------------
(* The clock.                                                              *)

\* The constants of the clock.
LEMMA ClockNumbers ==
  /\ baseFrequency \in Nat \ {0} /\ Second \in Nat /\ Byte \in Nat \ {0} /\ MinDivisor \in Nat \ {0}
  /\ u16 \in Nat /\ u16 = Byte * Byte /\ MinDivisor < u16 /\ u16 <= baseFrequency
  /\ u16 - 1 \in MinDivisor .. u16 - 1
<1>1. /\ {baseFrequency, Second, Byte, MinDivisor, MaxTicks} \subseteq Nat
      /\ MinDivisor \in 1 .. Byte * Byte - 1 /\ Byte * Byte <= baseFrequency
  BY ClockAssumption
<1> DEFINE B == Byte * Byte
<1>2. Byte \in Nat /\ B \in Nat
  BY <1>1
<1>3. Byte # 0
  <2> SUFFICES ASSUME Byte = 0 PROVE FALSE
    OBVIOUS
  <2>1. B = 0
    OBVIOUS
  <2> HIDE DEF B
  <2>2. MinDivisor \in 1 .. B - 1
    BY <1>1 DEF B
  <2> QED BY <2>1, <2>2
<1>4. u16 = B
  BY DEF u16
<1>5. MinDivisor \in 1 .. B - 1 /\ B <= baseFrequency
  BY <1>1
<1> HIDE DEF B
<1>6. B - 1 \in MinDivisor .. B - 1 /\ baseFrequency \in Nat \ {0} /\ MinDivisor < B
  BY <1>1, <1>2, <1>5
<1> QED BY <1>1, <1>2, <1>3, <1>4, <1>5, <1>6 DEF B

\* The divisor that setDivisor sets.
LEMMA ClampFacts ==
  ASSUME NEW frequency \in Nat \ {0}
  PROVE  Clamped(baseFrequency \div frequency) \in MinDivisor .. u16 - 1
<1> DEFINE d == baseFrequency \div frequency
           r == d % u16
<1>1. d \in Nat
  BY ClockNumbers, Quotient
<1>2. u16 \in Nat \ {0} /\ MinDivisor \in Nat /\ MinDivisor < u16
  BY ClockNumbers
<1>3. r \in 0 .. u16 - 1
  BY <1>1, <1>2, Quotient
<1>4. Clamped(d) = IF r < MinDivisor THEN MinDivisor ELSE r
  BY DEF Clamped
<1> HIDE DEF r
<1>5. Clamped(d) \in MinDivisor .. u16 - 1
  BY <1>2, <1>3, <1>4
<1> QED BY <1>5

\* getFrequency rounds down, but not to zero.
LEMMA FrequencyFacts ==
  ASSUME divisor \in MinDivisor .. u16 - 1
  PROVE  /\ divisor \in Nat \ {0} /\ getFrequency \in Nat \ {0}
         /\ baseFrequency < (getFrequency + 1) * divisor
<1>1. divisor \in Nat \ {0} /\ divisor <= baseFrequency
  BY ClockNumbers
<1>2. getFrequency \in Nat /\ baseFrequency < (getFrequency + 1) * divisor
  BY <1>1, ClockNumbers, Quotient DEF getFrequency
<1>3. 1 * divisor <= baseFrequency
  BY <1>1
<1>4. 1 <= getFrequency
  <2> DEFINE one == 1
  <2>1. one \in Nat /\ one * divisor <= baseFrequency
    BY <1>3
  <2> HIDE DEF one
  <2>2. one <= getFrequency
    BY <1>1, <2>1, ClockNumbers, QuotientGreatest DEF getFrequency
  <2> QED BY <2>2 DEF one
<1> QED BY <1>1, <1>2, <1>4

\* A period of the chip covers the nanoseconds a tick adds, but for the
\* rounding of getFrequency.
LEMMA TickCovers ==
  ASSUME divisor \in MinDivisor .. u16 - 1, NEW p \in Nat, divisor <= p
  PROVE  /\ TickLength \in Nat
         /\ TickLength * (getFrequency * baseFrequency) <= (p * Second) * (getFrequency + 1)
<1> DEFINE f == getFrequency
           L == TickLength
           B == baseFrequency
<1>1. f \in Nat \ {0} /\ divisor \in Nat /\ B < (f + 1) * divisor /\ B \in Nat /\ Second \in Nat
  BY FrequencyFacts, ClockNumbers
<1>2. L \in Nat /\ L * f <= Second
  <2>1. Second \div f \in Nat /\ (Second \div f) * f <= Second
    BY <1>1, Quotient
  <2> QED BY <2>1 DEF TickLength
<1> HIDE DEF f, L, B
<1>3. L * (f * B) = (L * f) * B /\ L * f \in Nat
  BY <1>1, <1>2
<1>4. (L * f) * B <= Second * B
  BY <1>1, <1>2, <1>3, TimesMonotone
<1>5. (f + 1) * divisor <= (f + 1) * p /\ f + 1 \in Nat
  BY <1>1, TimesMonotone
<1>6. B <= (f + 1) * p /\ (f + 1) * p \in Nat
  <2>1. (f + 1) * divisor \in Nat /\ (f + 1) * p \in Nat
    BY <1>1, <1>5
  <2> QED BY <1>1, <1>5, <2>1
<1>7. Second * B <= Second * ((f + 1) * p)
  BY <1>1, <1>6, TimesMonotone
<1>8. Second * ((f + 1) * p) = (p * Second) * (f + 1)
  BY <1>1, <1>5
<1>9. Second * B \in Nat /\ (p * Second) * (f + 1) \in Nat /\ L * (f * B) \in Nat
  <2>1. p * Second \in Nat /\ f * B \in Nat
    BY <1>1
  <2> QED BY <1>1, <1>2, <1>5, <2>1
<1>10. L * (f * B) <= (p * Second) * (f + 1)
  BY <1>3, <1>4, <1>7, <1>8, <1>9
<1> QED BY <1>2, <1>10 DEF f, L, B

\* A tick adds something to the clock.
LEMMA TickPositive ==
  ASSUME divisor \in MinDivisor .. u16 - 1
  PROVE  TickLength \in Nat \ {0}
<1> DEFINE f == getFrequency
           one == 1
<1>1. f \in Nat \ {0} /\ divisor \in Nat \ {0} /\ f * divisor <= baseFrequency
  BY FrequencyFacts, ClockNumbers, Quotient DEF getFrequency
<1>2. baseFrequency \in Nat /\ Second \in Nat /\ baseFrequency <= Second
  BY ClockAssumption
<1> HIDE DEF f
<1>3. f <= Second
  <2>1. one <= divisor /\ one \in Nat
    BY <1>1
  <2> HIDE DEF one
  <2>2. f * one <= f * divisor
    BY <1>1, <2>1, TimesMonotone
  <2>3. f * one = f /\ f * divisor \in Nat
    BY <1>1 DEF one
  <2> QED BY <1>1, <1>2, <2>2, <2>3
<1>4. one \in Nat /\ one * f <= Second
  BY <1>1, <1>3
<1> HIDE DEF one
<1>5. one <= Second \div f /\ Second \div f \in Nat
  BY <1>1, <1>2, <1>4, QuotientGreatest, Quotient
<1> QED BY <1>5 DEF one, TickLength, f

\* The real time of the whole periods since the call, and of the one it came in.
Counted == nap.real + (IF nap.begun THEN chip.period * Second ELSE 0)

\* These periods cover the time the clock has counted since.
Covered ==
  (timeSinceBootNs - nap.startTime) * (getFrequency * baseFrequency)
    <= Counted * (getFrequency + 1)

Enough ==
  nap.ns * (getFrequency * baseFrequency)
    <= (nap.real + chip.period * Second) * (getFrequency + 1)

ClockType ==
  /\ timeSinceBootNs \in Nat /\ divisor \in MinDivisor .. u16 - 1
  /\ chip \in [period : Nat, low : Nat]
  /\ at \in {"idle", "out low", "out high", "started", "awake", "stopped"} \cup Asleep
  /\ late \in BOOLEAN
  /\ asked \in Nat
  /\ timer \in [startTime : Nat, endTime : Nat]
  /\ nap \in [ns : Nat, startTime : Nat, begun : BOOLEAN, real : Nat]

\* The chip has the divisor, or will have it when both bytes have arrived.
ChipInv ==
  /\ asked # 0 => divisor = Clamped(baseFrequency \div asked)
  /\ at = "out high" => chip.low = divisor % Byte
  /\ at \notin {"out low", "out high"} =>
       divisor <= chip.period /\ (asked # 0 => chip.period = divisor)

\* What the periods cover.
NapInv ==
  /\ at \in Asleep => Covered
  /\ at \in {"awake", "stopped"} => Enough

\* How far the clock has gone: a tick after the last step is still to be seen.
WaitInv ==
  LET T    == TickLength
      slip == IF late THEN T ELSE 0
      now  == timeSinceBootNs
      due  == nap.startTime + nap.ns
  IN  /\ at = "started" => timer.startTime <= now /\ now <= timer.startTime + slip
      /\ at \in Asleep \cup {"awake"} =>
           /\ timer.startTime <= nap.startTime /\ nap.startTime <= timer.startTime + T
           /\ nap.startTime <= now
      /\ at = "test" => now < due + T + slip
      /\ at = "hlt" => now < due + slip
      /\ at = "halted" => now < due + T
      /\ at = "awake" => due <= now /\ now < due + 2 * T + slip
      /\ at = "stopped" => /\ timer.startTime + nap.ns <= timer.endTime
                           /\ timer.endTime < timer.startTime + nap.ns + 4 * T

ClockInv == ClockType /\ ChipInv /\ NapInv /\ WaitInv

\* The clock before the first call.
LEMMA ClockInvInit ==
  ASSUME ClockInit
  PROVE  ClockInv
<1>1. /\ timeSinceBootNs = 0 /\ divisor = u16 - 1 /\ chip = [period |-> u16, low |-> 0]
      /\ at = "idle" /\ late = FALSE /\ asked = 0 /\ timer = [startTime |-> 0, endTime |-> 0]
      /\ nap = [ns |-> 0, startTime |-> 0, begun |-> FALSE, real |-> 0]
  BY DEF ClockInit
<1>2. ClockType
  BY <1>1, ClockNumbers DEF ClockType
<1>3. ChipInv
  BY <1>1, ClockNumbers DEF ChipInv
<1>4. NapInv /\ WaitInv
  BY <1>1 DEF NapInv, WaitInv, Asleep
<1> QED BY <1>2, <1>3, <1>4 DEF ClockInv

\* A tick adds as much to the clock as the period covers.
LEMMA ClockInvTick ==
  ASSUME ClockInv, tick
  PROVE  ClockInv'
<1> DEFINE T == TickLength
           P == chip.period * Second
           R == IF nap.begun THEN nap.real + P ELSE nap.real
<1>1. /\ timeSinceBootNs' = timeSinceBootNs + T /\ late' = TRUE
      /\ at \in {"idle", "stopped", "halted"} \/ ~late
      /\ nap' = IF at \in Asleep THEN [nap EXCEPT !.begun = TRUE, !.real = R] ELSE nap
      /\ at' = IF at = "halted" THEN "test" ELSE at
      /\ UNCHANGED <<divisor, chip, asked, timer>>
  BY DEF tick
<1>2. ClockType /\ ChipInv /\ NapInv /\ WaitInv
  BY DEF ClockInv
<1>3. /\ divisor \in MinDivisor .. u16 - 1 /\ timeSinceBootNs \in Nat /\ chip.period \in Nat
      /\ nap.real \in Nat /\ nap.ns \in Nat /\ nap.startTime \in Nat /\ nap.begun \in BOOLEAN
      /\ timer.startTime \in Nat /\ timer.endTime \in Nat /\ late \in BOOLEAN /\ Second \in Nat
  BY <1>2, ClockNumbers DEF ClockType
<1>4. T \in Nat \ {0}
  BY <1>3, TickPositive
<1>5. P \in Nat /\ R \in Nat
  <2>1. P \in Nat
    BY <1>3
  <2> HIDE DEF P
  <2> QED BY <1>3, <2>1
<1>6. /\ nap' \in [ns : Nat, startTime : Nat, begun : BOOLEAN, real : Nat]
      /\ nap'.ns = nap.ns /\ nap'.startTime = nap.startTime
      /\ at \in Asleep => nap'.begun /\ nap'.real = R
      /\ at \notin Asleep => nap' = nap
  <2> HIDE DEF R, T
  <2> QED BY <1>1, <1>2, <1>5 DEF ClockType
<1>7. T' = T /\ getFrequency' = getFrequency /\ P' = P
  BY <1>1 DEF getFrequency, TickLength
<1>8. ClockType'
  <2>1. timeSinceBootNs' \in Nat
    <3> HIDE DEF T
    <3> QED BY <1>1, <1>3, <1>4
  <2>2. at' \in {"idle", "out low", "out high", "started", "awake", "stopped"} \cup Asleep
    BY <1>1, <1>2 DEF ClockType, Asleep
  <2> HIDE DEF R, T
  <2> QED BY <1>1, <1>2, <1>6, <2>1, <2>2 DEF ClockType
<1>9. ChipInv'
  BY <1>1, <1>2 DEF ChipInv, Clamped
<1>10. WaitInv'
  <2>1. WaitInv
    BY <1>2
  <2> HIDE DEF R
  <2> QED BY <1>1, <1>3, <1>4, <1>6, <1>7, <2>1 DEF WaitInv, Asleep
<1>11. NapInv'
  <2>1. CASE at \in Asleep
    <3> DEFINE G == getFrequency * baseFrequency
               F == getFrequency + 1
               e == timeSinceBootNs - nap.startTime
               C == Counted
    <3>1. at' \in Asleep /\ at' \notin {"awake", "stopped"}
      BY <1>1, <2>1 DEF Asleep
    <3>2. divisor <= chip.period /\ nap.startTime <= timeSinceBootNs /\ e * G <= C * F
      BY <1>2, <2>1 DEF ChipInv, NapInv, WaitInv, Covered, Asleep
    <3>3. T * G <= P * F
      BY <1>3, <3>2, TickCovers
    <3>4. C \in Nat /\ Counted' = C + P
      <4> HIDE DEF P
      <4>1. Counted = nap.real + (IF nap.begun THEN P ELSE 0)
        BY DEF Counted, P
      <4>2. Counted' = nap'.real + (IF nap'.begun THEN P' ELSE 0)
        BY DEF Counted, P
      <4>3. nap'.begun /\ nap'.real = R /\ P' = P
        BY <1>6, <1>7, <2>1
      <4>4. Counted' = R + P
        BY <4>2, <4>3
      <4> QED BY <1>3, <1>5, <4>1, <4>4
    <3>5. timeSinceBootNs' - nap'.startTime = e + T
      <4> HIDE DEF T
      <4> QED BY <1>1, <1>3, <1>4, <1>6
    <3>6. e \in Nat /\ G \in Nat /\ F \in Nat
      BY <1>3, <3>2, FrequencyFacts, ClockNumbers
    <3>7. G' = G /\ F' = F
      BY <1>7
    <3> HIDE DEF G, F, e, C, P, T, R
    <3>8. (e + T) * G <= (C + P) * F
      <4>1. (e + T) * G = e * G + T * G /\ (C + P) * F = C * F + P * F
        BY <1>4, <1>5, <3>4, <3>6
      <4>2. e * G \in Nat /\ T * G \in Nat /\ C * F \in Nat /\ P * F \in Nat
        BY <1>4, <1>5, <3>4, <3>6
      <4> QED BY <3>2, <3>3, <4>1, <4>2
    <3>9. (timeSinceBootNs' - nap'.startTime) * G' <= Counted' * F'
      BY <3>4, <3>5, <3>7, <3>8
    <3>10. Covered'
      BY <3>9 DEF Covered, G, F
    <3> QED BY <3>1, <3>10 DEF NapInv
  <2>2. CASE at \notin Asleep
    <3>1. at' = at /\ nap' = nap /\ chip' = chip
      BY <1>1, <2>2 DEF Asleep
    <3> QED BY <1>2, <1>7, <2>2, <3>1 DEF NapInv, Enough
  <2> QED BY <2>1, <2>2
<1> QED BY <1>8, <1>9, <1>10, <1>11 DEF ClockInv

\* The calls of setFrequency and setDivisor.
LEMMA ClockInvProgram ==
  ASSUME ClockInv, (\E frequency \in Frequencies : setFrequency(frequency)) \/ OutLow \/ OutHigh
  PROVE  ClockInv'
<1>1. /\ at' \in {"idle", "out low", "out high"} /\ late' = FALSE
      /\ UNCHANGED <<timeSinceBootNs, timer, nap>>
  BY DEF setFrequency, OutLow, OutHigh, Step
<1>2. NapInv' /\ WaitInv'
  BY <1>1 DEF NapInv, WaitInv, Asleep
<1>3. ClockType /\ ChipInv
  BY DEF ClockInv
<1>4. divisor \in Nat /\ Byte \in Nat \ {0}
  BY <1>3, ClockNumbers, FrequencyFacts DEF ClockType
<1>5. /\ divisor \div Byte \in Nat /\ divisor % Byte \in Nat
      /\ divisor = (divisor \div Byte) * Byte + (divisor % Byte)
  BY <1>4, Quotient
<1>6. ASSUME NEW frequency \in Frequencies, setFrequency(frequency)
      PROVE  ClockType' /\ ChipInv'
  <2>1. frequency \in Nat \ {0}
    BY ClockAssumption
  <2>2. /\ divisor' = Clamped(baseFrequency \div frequency) /\ asked' = frequency
        /\ at' = "out low" /\ chip' = chip
    BY <1>6 DEF setFrequency, Step
  <2>3. divisor' \in MinDivisor .. u16 - 1
    BY <2>1, <2>2, ClampFacts
  <2>4. ClockType'
    BY <1>1, <1>3, <2>1, <2>2, <2>3 DEF ClockType
  <2>5. ChipInv'
    BY <2>2 DEF ChipInv
  <2> QED BY <2>4, <2>5
<1>7. CASE OutLow
  <2>1. /\ at' = "out high" /\ chip' = [chip EXCEPT !.low = divisor % Byte]
        /\ UNCHANGED <<divisor, asked>>
    BY <1>7 DEF OutLow, Step
  <2>2. chip' \in [period : Nat, low : Nat] /\ chip'.low = divisor % Byte
    BY <1>3, <1>5, <2>1 DEF ClockType
  <2>3. ClockType'
    BY <1>1, <1>3, <2>1, <2>2 DEF ClockType
  <2>4. ChipInv'
    BY <1>3, <2>1, <2>2 DEF ChipInv
  <2> QED BY <1>2, <2>3, <2>4 DEF ClockInv
<1>8. CASE OutHigh
  <2>1. /\ at = "out high" /\ at' = "idle" /\ UNCHANGED <<divisor, asked>>
        /\ chip' = [chip EXCEPT !.period = (divisor \div Byte) * Byte + chip.low]
    BY <1>8 DEF OutHigh, Step
  <2>2. chip.low = divisor % Byte
    BY <1>3, <2>1 DEF ChipInv
  <2>3. chip' = [chip EXCEPT !.period = divisor]
    BY <1>5, <2>1, <2>2
  <2>4. chip' \in [period : Nat, low : Nat] /\ chip'.period = divisor
    BY <1>3, <1>4, <2>3 DEF ClockType
  <2>5. ClockType'
    BY <1>1, <1>3, <2>1, <2>4 DEF ClockType
  <2>6. ChipInv'
    <3>0. divisor' = divisor
      BY <2>1
    <3>1. divisor' <= chip'.period /\ chip'.period = divisor'
      BY <1>4, <2>4, <3>0
    <3> QED BY <1>3, <2>1, <3>1 DEF ChipInv
  <2> QED BY <1>2, <2>5, <2>6 DEF ClockInv
<1> QED BY <1>2, <1>6, <1>7, <1>8 DEF ClockInv

\* The calls of sleepNs and of the Timer around it.
LEMMA ClockInvSleep ==
  ASSUME ClockInv, start \/ (\E ns \in Naps : sleepNs(ns)) \/ Test \/ Hlt \/ stop
  PROVE  ClockInv'
<1> DEFINE T == TickLength
<1>1. ClockType /\ ChipInv /\ NapInv /\ WaitInv
  BY DEF ClockInv
<1>2. /\ UNCHANGED <<timeSinceBootNs, divisor, chip, asked>> /\ late' = FALSE
      /\ {at, at'} \cap {"out low", "out high"} = {}
      /\ at' \in {"started", "awake", "stopped"} \cup Asleep
  BY DEF start, sleepNs, Test, Hlt, stop, Step, Asleep
<1>3. ChipInv'
  BY <1>1, <1>2 DEF ChipInv, Clamped
<1>4. /\ divisor \in MinDivisor .. u16 - 1 /\ timeSinceBootNs \in Nat /\ chip.period \in Nat
      /\ nap.real \in Nat /\ nap.ns \in Nat /\ nap.startTime \in Nat /\ nap.begun \in BOOLEAN
      /\ timer.startTime \in Nat /\ timer.endTime \in Nat /\ late \in BOOLEAN /\ Second \in Nat
  BY <1>1, ClockNumbers DEF ClockType
<1>5. getFrequency' = getFrequency /\ getFrequency \in Nat /\ T' = T /\ T \in Nat \ {0}
  BY <1>2, <1>4, FrequencyFacts, TickPositive DEF getFrequency, TickLength
<1>6. WaitInv
  BY <1>1
<1>7. CASE start
  <2>1. at' = "started" /\ timer' = [timer EXCEPT !.startTime = timeSinceBootNs] /\ nap' = nap
    BY <1>7 DEF start, Step
  <2>2. timer' \in [startTime : Nat, endTime : Nat] /\ timer'.startTime = timeSinceBootNs
    BY <1>1, <2>1 DEF ClockType
  <2>3. ClockType'
    BY <1>1, <1>2, <2>1, <2>2 DEF ClockType
  <2>4. NapInv' /\ WaitInv'
    BY <1>2, <1>4, <1>5, <2>1, <2>2 DEF NapInv, WaitInv, Asleep
  <2> QED BY <1>3, <2>3, <2>4 DEF ClockInv
<1>8. ASSUME NEW ns \in Naps, sleepNs(ns)
      PROVE  ClockType' /\ NapInv' /\ WaitInv'
  <2>1. /\ at = "started" /\ at' = "test" /\ timer' = timer /\ ns \in Nat
        /\ nap' = [ns |-> ns, startTime |-> timeSinceBootNs, begun |-> FALSE, real |-> 0]
    BY <1>8, ClockAssumption DEF sleepNs, Step
  <2>2. ClockType'
    BY <1>1, <1>2, <2>1 DEF ClockType
  <2>3. Counted' = 0
    BY <2>1 DEF Counted
  <2>4. Covered'
    <3> DEFINE G == getFrequency * baseFrequency
               F == getFrequency + 1
    <3>1. G \in Nat /\ F \in Nat
      BY <1>5, ClockNumbers
    <3> HIDE DEF G, F
    <3>2. (timeSinceBootNs - timeSinceBootNs) * G <= 0 * F
      BY <1>4, <3>1
    <3> QED BY <1>2, <1>5, <2>1, <2>3, <3>2 DEF Covered, G, F
  <2>5. NapInv'
    BY <2>1, <2>4 DEF NapInv
  <2>6. WaitInv'
    BY <1>2, <1>4, <1>5, <1>6, <2>1 DEF WaitInv, Asleep
  <2> QED BY <2>2, <2>5, <2>6
<1>9. CASE Test
  <2>1. at = "test" /\ timer' = timer /\ nap' = nap
    BY <1>9 DEF Test, Step
  <2>2. ClockType'
    BY <1>1, <1>2, <2>1 DEF ClockType
  <2>3. at' = IF Over(timeSinceBootNs) THEN "awake" ELSE "hlt"
    BY <1>9 DEF Test, Step
  <2>4. WaitInv'
    BY <1>2, <1>4, <1>5, <1>6, <2>1, <2>3 DEF WaitInv, Over, Asleep
  <2>5. Covered
    BY <1>1, <2>1 DEF NapInv, Asleep
  <2>6. CASE Over(timeSinceBootNs)
    <3> DEFINE G == getFrequency * baseFrequency
               F == getFrequency + 1
               e == timeSinceBootNs - nap.startTime
               P == chip.period * Second
               C == Counted
               N == nap.ns
    <3>1. G \in Nat /\ F \in Nat /\ P \in Nat
      BY <1>4, <1>5, ClockNumbers
    <3>2. N \in Nat /\ e \in Nat /\ N <= e
      BY <1>4, <2>6 DEF Over
    <3>3. e * G <= C * F
      BY <2>5 DEF Covered
    <3>4. C \in Nat /\ nap.real + P \in Nat /\ C <= nap.real + P
      <4>1. C = nap.real + (IF nap.begun THEN P ELSE 0)
        BY DEF Counted
      <4> HIDE DEF C, P
      <4> QED BY <1>4, <3>1, <4>1
    <3> DEFINE M == nap.real + P
    <3>5. M \in Nat /\ C <= M
      BY <3>4
    <3> HIDE DEF G, F, e, C, M, N
    <3>6. N * G <= e * G /\ C * F <= M * F
      BY <3>1, <3>2, <3>4, <3>5, TimesMonotone
    <3>7. N * G \in Nat /\ e * G \in Nat /\ C * F \in Nat /\ M * F \in Nat
      BY <3>1, <3>2, <3>4, <3>5
    <3>8. N * G <= M * F
      BY <3>3, <3>6, <3>7
    <3>9. Enough
      BY <3>8 DEF Enough, G, F, M, N
    <3>10. Enough'
      BY <1>2, <1>5, <2>1, <3>9 DEF Enough
    <3>11. NapInv'
      BY <2>3, <2>6, <3>10 DEF NapInv, Asleep
    <3> QED BY <1>3, <2>2, <2>4, <3>11 DEF ClockInv
  <2>7. CASE ~Over(timeSinceBootNs)
    <3>1. Covered'
      BY <1>2, <1>5, <2>1, <2>5 DEF Covered, Counted
    <3>2. NapInv'
      BY <2>3, <2>7, <3>1 DEF NapInv
    <3> QED BY <1>3, <2>2, <2>4, <3>2 DEF ClockInv
  <2> QED BY <2>6, <2>7
<1>10. CASE Hlt
  <2>1. at = "hlt" /\ at' = "halted" /\ timer' = timer /\ nap' = nap
    BY <1>10 DEF Hlt, Step
  <2>2. ClockType'
    BY <1>1, <1>2, <2>1 DEF ClockType
  <2>3. WaitInv'
    BY <1>2, <1>4, <1>5, <1>6, <2>1 DEF WaitInv, Asleep
  <2>4. NapInv'
    BY <1>1, <1>2, <1>5, <2>1 DEF NapInv, Asleep, Covered, Counted
  <2> QED BY <1>3, <2>2, <2>3, <2>4 DEF ClockInv
<1>11. CASE stop
  <2>1. /\ at = "awake" /\ at' = "stopped" /\ nap' = nap
        /\ timer' = [timer EXCEPT !.endTime = timeSinceBootNs]
    BY <1>11 DEF stop, Step
  <2>2. /\ timer' \in [startTime : Nat, endTime : Nat]
        /\ timer'.startTime = timer.startTime /\ timer'.endTime = timeSinceBootNs
    BY <1>1, <2>1 DEF ClockType
  <2>3. ClockType'
    BY <1>1, <1>2, <2>1, <2>2 DEF ClockType
  <2>4. WaitInv'
    BY <1>2, <1>4, <1>5, <1>6, <2>1, <2>2 DEF WaitInv, Asleep
  <2>5. NapInv'
    BY <1>1, <1>2, <1>5, <2>1 DEF NapInv, Asleep, Enough
  <2> QED BY <1>3, <2>3, <2>4, <2>5 DEF ClockInv
<1> QED BY <1>3, <1>7, <1>8, <1>9, <1>10, <1>11 DEF ClockInv

\* Every step of the clock and of its users keeps what the chip counts by, what
\* the periods cover and how far the clock has gone.
THEOREM ClockInvariant == ClockSpec => []ClockInv
<1>1. ClockInit => ClockInv
  BY ClockInvInit
<1>2. ClockInv /\ [ClockNext]_clockVars => ClockInv'
  <2> SUFFICES ASSUME ClockInv, [ClockNext]_clockVars
               PROVE  ClockInv'
    OBVIOUS
  <2>1. CASE ClockNext
    BY <2>1, ClockInvTick, ClockInvProgram, ClockInvSleep DEF ClockNext
  <2>2. CASE UNCHANGED clockVars
    <3>1. getFrequency' = getFrequency /\ TickLength' = TickLength
      BY <2>2 DEF clockVars, getFrequency, TickLength
    <3>2. ClockType' /\ ChipInv'
      BY <2>2 DEF clockVars, ClockInv, ClockType, ChipInv, Clamped
    <3>3. NapInv'
      BY <2>2, <3>1 DEF clockVars, ClockInv, NapInv, Covered, Counted, Enough
    <3>4. WaitInv'
      BY <2>2, <3>1 DEF clockVars, ClockInv, WaitInv
    <3> QED BY <3>2, <3>3, <3>4 DEF ClockInv
  <2> QED BY <2>1, <2>2
<1> QED BY <1>1, <1>2, PTL DEF ClockSpec

\* setFrequency programs the chip with the divisor the clock computes with, the
\* best one for the frequency asked for, for every frequency and base frequency.
THEOREM ClockFrequency == ClockSpec => []FrequencyHonoured
<1>1. ClockInv => FrequencyHonoured
  <2> SUFFICES ASSUME ClockInv, at \in {"idle", "stopped"}, asked # 0
               PROVE  /\ chip.period = divisor
                      /\ MinDivisor * asked <= baseFrequency /\ baseFrequency < u16 * asked =>
                           getFrequency >= asked /\ (divisor + 1) * asked > baseFrequency
    BY DEF FrequencyHonoured
  <2>1. /\ chip.period = divisor /\ divisor = Clamped(baseFrequency \div asked)
        /\ asked \in Nat \ {0} /\ divisor \in Nat \ {0}
    BY FrequencyFacts DEF ClockInv, ClockType, ChipInv
  <2>2. ASSUME MinDivisor * asked <= baseFrequency, baseFrequency < u16 * asked
        PROVE  getFrequency >= asked /\ (divisor + 1) * asked > baseFrequency
    <3> DEFINE d == baseFrequency \div asked
    <3>1. d \in Nat /\ d * asked <= baseFrequency /\ baseFrequency < (d + 1) * asked
      BY <2>1, ClockNumbers, Quotient
    <3>2. MinDivisor <= d
      BY <2>1, <2>2, ClockNumbers, QuotientGreatest
    <3> HIDE DEF d
    <3>3. d < u16
      <4> SUFFICES ASSUME u16 <= d PROVE FALSE
        BY <3>1, ClockNumbers
      <4>1. u16 * asked <= d * asked
        BY <2>1, <3>1, ClockNumbers, TimesMonotone
      <4>2. u16 * asked \in Nat /\ d * asked \in Nat
        BY <2>1, <3>1, ClockNumbers
      <4> QED BY <2>2, <3>1, <4>1, <4>2, ClockNumbers
    <3>4. d % u16 = d
      BY <3>1, <3>3, ClockNumbers
    <3>5. divisor = d
      BY <2>1, <3>1, <3>2, <3>4, ClockNumbers DEF Clamped, d
    <3>6. asked * divisor <= baseFrequency
      BY <2>1, <3>1, <3>5
    <3>7. asked <= getFrequency
      BY <2>1, <3>6, ClockNumbers, QuotientGreatest DEF getFrequency
    <3>8. getFrequency \in Nat
      BY FrequencyFacts DEF ClockInv, ClockType
    <3>9. (divisor + 1) * asked \in Nat /\ baseFrequency < (divisor + 1) * asked
      BY <2>1, <3>1, <3>5
    <3> QED BY <2>1, <3>7, <3>8, <3>9, ClockNumbers
  <2> QED BY <2>1, <2>2
<1> QED BY <1>1, ClockInvariant, PTL

\* A sleep is neither shorter nor longer than asked by more than the ticks that
\* SleepAccurate names, by the clock, by the Timer and by the periods of the
\* chip, for every time to sleep and however many ticks come.
THEOREM ClockSleep == ClockSpec => []SleepAccurate
<1>1. ClockInv => SleepAccurate
  <2> SUFFICES ASSUME ClockInv
               PROVE  SleepAccurate
    OBVIOUS
  <2> DEFINE T == TickLength
  <2>1. /\ divisor \in MinDivisor .. u16 - 1 /\ timeSinceBootNs \in Nat /\ chip.period \in Nat
        /\ nap.real \in Nat /\ nap.ns \in Nat /\ nap.startTime \in Nat
        /\ timer.startTime \in Nat /\ timer.endTime \in Nat /\ late \in BOOLEAN
    BY DEF ClockInv, ClockType
  <2>2. T \in Nat \ {0}
    BY <2>1, TickPositive
  <2>3. WaitInv
    BY DEF ClockInv
  <2>4. ASSUME at \in Asleep
        PROVE  timeSinceBootNs - nap.startTime < nap.ns + 2 * T
    BY <2>1, <2>2, <2>3, <2>4 DEF WaitInv, Asleep
  <2>5. ASSUME at = "stopped"
        PROVE  nap.ns <= getElapsedNs /\ getElapsedNs < nap.ns + 4 * T
    BY <2>1, <2>2, <2>3, <2>5 DEF WaitInv, getElapsedNs
  <2>6. ASSUME at = "stopped"
        PROVE  (nap.real + chip.period * Second) * (getFrequency + 1)
                 >= nap.ns * getFrequency * baseFrequency
    <3> DEFINE f == getFrequency
               B == baseFrequency
               N == nap.ns
               M == (nap.real + chip.period * Second) * (getFrequency + 1)
    <3>1. N * (f * B) <= M
      BY <2>6 DEF ClockInv, NapInv, Enough
    <3>2. f \in Nat /\ B \in Nat /\ N \in Nat
      BY <2>1, FrequencyFacts, ClockNumbers
    <3>3. M \in Nat
      <4> DEFINE S == nap.real + chip.period * Second
      <4>1. S \in Nat
        BY <2>1, ClockNumbers
      <4> HIDE DEF S
      <4>2. S * (f + 1) \in Nat
        BY <3>2, <4>1
      <4> QED BY <4>2 DEF S
    <3> HIDE DEF f, B, N, M
    <3>4. N * f * B = N * (f * B)
      BY <3>2
    <3>5. N * (f * B) \in Nat
      BY <3>2
    <3> QED BY <3>1, <3>3, <3>4, <3>5 DEF f, B, N, M
  <2> HIDE DEF T
  <2> QED BY <2>4, <2>5, <2>6 DEF SleepAccurate, T
<1> QED BY <1>1, ClockInvariant, PTL

-----------------------------------------------------------------------------
(* The interrupt table.                                                    *)

\* A quotient is determined by its remainder.
LEMMA QuotientUnique ==
  ASSUME NEW q \in Nat, NEW y \in Nat \ {0}, NEW r \in 0 .. y - 1
  PROVE  (q * y + r) \div y = q
<1> DEFINE x == q * y + r
           z == x \div y
<1>1. x \in Nat /\ q * y <= x
  <2>1. q * y \in Nat
    OBVIOUS
  <2> QED BY <2>1
<1>2. z \in Nat /\ z * y <= x
  BY <1>1, Quotient
<1>3. q <= z
  BY <1>1, QuotientGreatest
<1> HIDE DEF z
<1>4. SUFFICES ASSUME q + 1 <= z PROVE FALSE
  BY <1>2, <1>3 DEF z
<1>5. (q + 1) * y <= z * y
  BY <1>2, <1>4, TimesMonotone
<1>6. (q + 1) * y = q * y + y /\ z * y \in Nat /\ q * y \in Nat
  BY <1>2
<1> QED BY <1>2, <1>5, <1>6

\* The three fields of a gate carry the whole address.
LEMMA GateTarget ==
  ASSUME NEW handler \in Nat
  PROVE  Target(Gate(handler)) = handler
<1> DEFINE F == Field
           a == handler \div F
           m == a % F
           h == a \div F
           l == handler % F
<1>1. F \in Nat \ {0}
  BY InterruptsAssumption
<1>2. a \in Nat /\ l \in 0 .. F - 1 /\ handler = a * F + l
  BY <1>1, Quotient
<1>3. h \in Nat /\ m \in 0 .. F - 1 /\ a = h * F + m
  BY <1>1, <1>2, Quotient
<1>4. Gate(handler) = [addressLow |-> l, addressMid |-> m,
                       addressHigh |-> handler \div (F * F)]
  BY DEF Gate
<1>5. Target(Gate(handler)) = l + F * (m + F * (handler \div (F * F)))
  BY <1>4 DEF Target
<1> HIDE DEF F, a, m, h, l
<1>6. m * F + l \in 0 .. F * F - 1
  <2>1. m \in Nat /\ F - 1 \in Nat /\ m <= F - 1
    BY <1>1, <1>3
  <2>2. m * F <= (F - 1) * F
    BY <1>1, <2>1, TimesMonotone
  <2>3. (F - 1) * F = F * F - F /\ F * F \in Nat /\ m * F \in Nat
    BY <1>1, <2>1
  <2> QED BY <1>1, <1>2, <2>2, <2>3
<1>7. handler = h * (F * F) + (m * F + l)
  <2>1. (h * F + m) * F = h * (F * F) + m * F
    BY <1>1, <1>3
  <2>2. h * (F * F) \in Nat /\ m * F \in Nat
    BY <1>1, <1>3
  <2> QED BY <1>2, <1>3, <2>1, <2>2
<1>8. F * F \in Nat \ {0}
  BY <1>1
<1>9. handler \div (F * F) = h
  BY <1>3, <1>6, <1>7, <1>8, QuotientUnique
<1>10. F * (m + F * h) = a * F
  BY <1>1, <1>3
<1>11. a * F \in Nat
  BY <1>1, <1>2
<1> QED BY <1>2, <1>5, <1>9, <1>10, <1>11

\* Entry points of every length are 16 apart.
LEMMA HandlerDistance ==
  ASSUME NEW a \in Nat, NEW v \in 0 .. 255
  PROVE  HandlerAfter(a * 16, v) = (a + 1) * 16
<1>1. HandlerLength(v) \in 7 .. 12
  BY DEF HandlerLength
<1> DEFINE n == HandlerLength(v)
<1> HIDE DEF n
<1>2. n \in 7 .. 12
  BY <1>1 DEF n
<1>3. (a * 16 + n + 15) \div 16 = a + 1
  BY <1>2
<1> QED BY <1>3 DEF HandlerAfter, n

TableInv == idt = <<>> \/ idt = [v \in 0 .. 255 |-> Gate(vector_0_handler + v * 16)]

\* Every gate that initInts writes leads to the entry point of its vector, for
\* every place of the first one and every split of the address into fields.
THEOREM InterruptGates == InterruptsSpec => []GatesReachHandlers
<1>1. InterruptsInit => TableInv
  BY DEF InterruptsInit, TableInv
<1>2. TableInv /\ [InterruptsNext]_interruptVars => TableInv'
  <2> SUFFICES ASSUME TableInv, [InterruptsNext]_interruptVars
               PROVE  TableInv'
    OBVIOUS
  <2>1. CASE initInts
    BY <2>1 DEF initInts, TableInv
  <2>2. CASE idt' = idt
    BY <2>2 DEF TableInv
  <2>3. initInts \/ idt' = idt
    BY DEF InterruptsNext, interruptVars, Interrupt, Deliver, vector_handler, Save,
           interruptDispatch, Restore, iret
  <2> QED BY <2>1, <2>2, <2>3
<1>3. TableInv => GatesReachHandlers
  <2> DEFINE at16(v) == vector_0_handler + v * 16
  <2> SUFFICES ASSUME idt = [v \in 0 .. 255 |-> Gate(at16(v))]
               PROVE  /\ Target(idt[0]) = vector_0_handler
                      /\ \A v \in 0 .. 254 : Target(idt[v + 1]) = HandlerAfter(Target(idt[v]), v)
    BY DEF TableInv, GatesReachHandlers
  <2>1. vector_0_handler \in Nat /\ vector_0_handler % 16 = 0
    BY InterruptsAssumption
  <2>2. \A v \in 0 .. 255 : at16(v) \in Nat /\ idt[v] = Gate(at16(v))
    BY <2>1
  <2> HIDE DEF at16
  <2>3. \A v \in 0 .. 255 : Target(idt[v]) = at16(v)
    BY <2>2, GateTarget
  <2>4. Target(idt[0]) = vector_0_handler
    <3>1. Target(idt[0]) = at16(0)
      BY <2>3
    <3>2. at16(0) = vector_0_handler
      BY <2>1 DEF at16
    <3> QED BY <3>1, <3>2
  <2>5. ASSUME NEW v \in 0 .. 254
        PROVE  Target(idt[v + 1]) = HandlerAfter(Target(idt[v]), v)
    <3> DEFINE a == vector_0_handler \div 16 + v
               w == v + 1
    <3>1. a \in Nat /\ at16(v) = a * 16 /\ at16(w) = (a + 1) * 16
      BY <2>1 DEF at16
    <3>2. w \in 0 .. 255 /\ v \in 0 .. 255
      OBVIOUS
    <3> HIDE DEF a, w
    <3>3. HandlerAfter(a * 16, v) = (a + 1) * 16
      BY <3>1, <3>2, HandlerDistance
    <3>4. Target(idt[w]) = HandlerAfter(Target(idt[v]), v)
      BY <2>3, <3>1, <3>2, <3>3
    <3> QED BY <3>4 DEF w
  <2> QED BY <2>4, <2>5
<1> QED BY <1>1, <1>2, <1>3, PTL DEF InterruptsSpec

-----------------------------------------------------------------------------
(* The blocks of a builder.                                                *)

\* Two sequences, one behind the other.
LEMMA JoinFacts ==
  ASSUME NEW S, NEW s \in Seq(S), NEW t \in Seq(S), NEW u, u = s \o t
  PROVE  /\ u \in Seq(S) /\ Len(u) = Len(s) + Len(t)
         /\ \A i \in 1 .. Len(s) : u[i] = s[i]
         /\ \A i \in Len(s) + 1 .. Len(s) + Len(t) : u[i] = t[i - Len(s)]
<1>1. Len(s) \in Nat /\ Len(t) \in Nat
  OBVIOUS
<1>2. /\ u \in Seq(S) /\ Len(u) = Len(s) + Len(t)
      /\ \A i \in 1 .. Len(s) + Len(t) : u[i] = IF i <= Len(s) THEN s[i] ELSE t[i - Len(s)]
  BY ConcatProperties
<1> QED BY <1>1, <1>2

Closing == {"delete", "buildAndDestroy"}
Operations == {"new", "append", "print"} \cup Closing
Arguments ==
  Messages \cup TypeTags \cup BuilderSizes
  \cup {7, <<>>, <<"$c8[">>, <<"nspace">>, <<"/">>, <<"tag">>, <<"\n">>}
CallSet == [op : Operations, arg : Arguments]

\* A script and what is left of one: it ends with the call that destroys the
\* builder, and only its first call may make one.
Rest(s) ==
  /\ s \in Seq(CallSet) /\ Len(s) >= 1
  /\ \A k \in 1 .. Len(s) : s[k].op \in Closing <=> k = Len(s)
  /\ \A k \in 2 .. Len(s) : s[k].op # "new"

\* Will the builder have a text when it is destroyed?
WillBuild(s) ==
  \/ \E k \in 1 .. Len(s) : s[k].op = "print"
  \/ s[Len(s)].op = "buildAndDestroy"

\* The builder holds three blocks, or two before the first build, and nothing
\* else is in use.
Live ==
  /\ DOMAIN builder = {"this", "array", "partOffset", "parts", "outputBuf", "text"}
  /\ builder.this # NULL /\ builder.array # NULL
  /\ builder.outputBuf \notin {builder.this, builder.array}
  /\ blocks = {builder.this, builder.array, builder.outputBuf} \ {NULL}

LoggerInv ==
  /\ crashed \in BOOLEAN /\ (crashed => target = "NONE")
  /\ ~crashed /\ script = <<>> => blocks = {}
  /\ ~crashed /\ script # <<>> =>
       /\ Rest(script)
       /\ script[1].op = "new" => blocks = {} /\ (target # "NONE" => WillBuild(script))
       /\ script[1].op # "new" =>
            Live /\ (target # "NONE" => builder.outputBuf # NULL \/ WillBuild(script))

\* After the first call of a script.
LEMMA RestTail ==
  ASSUME NEW s, Rest(s)
  PROVE  /\ s # <<>> /\ Head(s) = s[1]
         /\ s[1].op \in Closing => Tail(s) = <<>> /\ Len(s) = 1
         /\ s[1].op \notin Closing =>
              /\ Tail(s) # <<>> /\ Rest(Tail(s)) /\ Tail(s)[1].op # "new"
              /\ WillBuild(s) /\ s[1].op # "print" => WillBuild(Tail(s))
<1> DEFINE u == Tail(s)
           l == Len(s)
<1>1. s \in Seq(CallSet) /\ l \in Nat /\ l >= 1
  BY DEF Rest
<1>2. s # <<>> /\ Head(s) = s[1]
  BY <1>1
<1>3. /\ u \in Seq(CallSet) /\ Len(u) = l - 1
      /\ \A i \in 1 .. Len(u) : u[i] = s[i + 1]
  BY <1>1, <1>2, HeadTailProperties
<1>4. /\ \A k \in 1 .. l : s[k].op \in Closing <=> k = l
      /\ \A k \in 2 .. l : s[k].op # "new"
  BY DEF Rest
<1> HIDE DEF u, l
<1>5. CASE s[1].op \in Closing
  <2>1. l = 1
    BY <1>1, <1>4, <1>5
  <2>2. u = <<>>
    BY <1>3, <2>1
  <2> QED BY <1>2, <1>5, <2>1, <2>2 DEF u, l
<1>6. CASE s[1].op \notin Closing
  <2>1. l >= 2
    BY <1>1, <1>4, <1>6
  <2>2. \A i \in 1 .. l - 1 : u[i] = s[i + 1]
    BY <1>3
  <2>3. Len(u) >= 1 /\ u # <<>>
    BY <1>1, <1>3, <2>1
  <2>4. \A k \in 1 .. l - 1 : u[k].op \in Closing <=> k = l - 1
    <3>1. \A k \in 1 .. l - 1 : k + 1 \in 1 .. l /\ (k + 1 = l <=> k = l - 1)
      BY <1>1
    <3> QED BY <1>4, <2>2, <3>1
  <2>5. \A k \in 1 .. l - 1 : u[k].op # "new"
    <3>1. \A k \in 1 .. l - 1 : k + 1 \in 2 .. l
      BY <1>1
    <3> QED BY <1>4, <2>2, <3>1
  <2>6. Rest(u)
    <3>1. \A k \in 2 .. Len(u) : u[k].op # "new"
      BY <1>1, <1>3, <2>5
    <3> QED BY <1>3, <2>3, <2>4, <3>1 DEF Rest
  <2>7. 1 \in 1 .. l - 1 /\ u[1].op # "new"
    BY <1>1, <2>1, <2>5
  <2>8. ASSUME WillBuild(s), s[1].op # "print"
        PROVE  WillBuild(u)
    <3>1. CASE s[l].op = "buildAndDestroy"
      <4>1. l - 1 \in 1 .. l - 1 /\ (l - 1) + 1 = l
        BY <1>1, <2>1
      <4>2. u[Len(u)] = s[l]
        BY <1>3, <2>2, <4>1
      <4> QED BY <3>1, <4>2 DEF WillBuild
    <3>2. ASSUME NEW k \in 1 .. l, s[k].op = "print"
          PROVE  WillBuild(u)
      <4>1. k # 1
        BY <2>8, <3>2
      <4>2. k - 1 \in 1 .. l - 1 /\ (k - 1) + 1 = k
        BY <1>1, <4>1
      <4>3. u[k - 1].op = "print"
        BY <2>2, <3>2, <4>2
      <4> QED BY <1>3, <4>2, <4>3 DEF WillBuild
    <3> QED BY <2>8, <3>1, <3>2 DEF WillBuild, l
  <2> QED BY <1>2, <1>6, <2>3, <2>6, <2>7, <2>8 DEF u
<1> QED BY <1>5, <1>6

\* The beginning of a script: the builder is made, and used.
Opening(s) ==
  /\ s \in Seq(CallSet) /\ Len(s) >= 1 /\ s[1].op = "new"
  /\ \A k \in 2 .. Len(s) : s[k].op \in {"append", "print"}

\* More uses of the builder.
LEMMA OpeningGrows ==
  ASSUME NEW s, Opening(s), NEW t \in Seq(CallSet), NEW u, u = s \o t,
         \A k \in 1 .. Len(t) : t[k].op \in {"append", "print"}
  PROVE  Opening(u) /\ ((\E k \in 1 .. Len(t) : t[k].op = "print") => WillBuild(u))
<1>1. /\ s \in Seq(CallSet) /\ Len(s) \in Nat /\ Len(s) >= 1 /\ s[1].op = "new"
      /\ \A k \in 2 .. Len(s) : s[k].op \in {"append", "print"}
  BY DEF Opening
<1>2. /\ u \in Seq(CallSet) /\ Len(u) = Len(s) + Len(t)
      /\ \A i \in 1 .. Len(s) : u[i] = s[i]
      /\ \A i \in Len(s) + 1 .. Len(s) + Len(t) : u[i] = t[i - Len(s)]
  BY <1>1, JoinFacts
<1>3. Len(t) \in Nat
  OBVIOUS
<1>4. ASSUME NEW k \in 2 .. Len(u)
      PROVE  u[k].op \in {"append", "print"}
  <2>1. CASE k <= Len(s)
    BY <1>1, <1>2, <2>1
  <2>2. CASE k > Len(s)
    <3>1. k \in Len(s) + 1 .. Len(s) + Len(t) /\ k - Len(s) \in 1 .. Len(t)
      BY <1>1, <1>2, <1>3, <2>2
    <3> QED BY <1>2, <3>1
  <2> QED BY <1>1, <2>1, <2>2
<1>5. Opening(u)
  BY <1>1, <1>2, <1>3, <1>4 DEF Opening
<1>6. ASSUME NEW k \in 1 .. Len(t), t[k].op = "print"
      PROVE  WillBuild(u)
  <2>1. /\ k + Len(s) \in Len(s) + 1 .. Len(s) + Len(t) /\ (k + Len(s)) - Len(s) = k
        /\ k + Len(s) \in 1 .. Len(u)
    BY <1>1, <1>2, <1>3
  <2>2. u[k + Len(s)].op = "print"
    BY <1>2, <1>6, <2>1
  <2> QED BY <2>1, <2>2 DEF WillBuild
<1> QED BY <1>5, <1>6

\* The last call destroys the builder.
LEMMA OpeningEnds ==
  ASSUME NEW s, Opening(s), NEW c \in CallSet, c.op \in Closing, NEW u, u = Append(s, c)
  PROVE  /\ Rest(u) /\ u # <<>> /\ u[1].op = "new"
         /\ WillBuild(s) \/ c.op = "buildAndDestroy" => WillBuild(u)
<1> DEFINE l == Len(s)
<1>1. /\ s \in Seq(CallSet) /\ l \in Nat /\ l >= 1 /\ s[1].op = "new"
      /\ \A k \in 2 .. l : s[k].op \in {"append", "print"}
  BY DEF Opening
<1>2. /\ u \in Seq(CallSet) /\ Len(u) = l + 1 /\ u[l + 1] = c
      /\ \A i \in 1 .. l : u[i] = s[i]
  BY <1>1
<1> HIDE DEF l
<1>3. \A k \in 1 .. l : u[k].op \in {"new", "append", "print"} /\ (k # 1 => u[k].op # "new")
  BY <1>1, <1>2
<1>4. c.op # "new"
  BY DEF Closing
<1>5. \A k \in 1 .. l + 1 : u[k].op \in Closing <=> k = l + 1
  BY <1>1, <1>2, <1>3 DEF Closing
<1>6. \A k \in 2 .. l + 1 : u[k].op # "new"
  BY <1>1, <1>2, <1>3, <1>4
<1>7. Rest(u) /\ u # <<>> /\ u[1].op = "new"
  BY <1>1, <1>2, <1>5, <1>6 DEF Rest
<1>8. ASSUME c.op = "buildAndDestroy"
      PROVE  WillBuild(u)
  BY <1>2, <1>8 DEF WillBuild
<1>9. ASSUME NEW k \in 1 .. l, s[k].op = "print"
      PROVE  WillBuild(u)
  <2>1. k \in 1 .. Len(u) /\ u[k].op = "print"
    BY <1>1, <1>2, <1>9
  <2> QED BY <2>1 DEF WillBuild
<1>10. s[l].op # "buildAndDestroy"
  BY <1>1
<1> QED BY <1>7, <1>8, <1>9, <1>10 DEF WillBuild, l

\* The calls of __internal_log; without a target it never builds.
LEMMA LogScript ==
  ASSUME NEW t, NEW tp \in TypeTags, NEW str \in Messages,
         NEW u, u = __internal_log(t, tp, str)
  PROVE  /\ Rest(u) /\ u # <<>> /\ u[1].op = "new"
         /\ t # "NONE" => WillBuild(u)
<1> DEFINE a(x) == Call("append", x)
           A == <<Call("new", 7), a(<<"$c8[">>), a(<<"nspace">>), a(<<"/">>),
                  a(<<"tag">>), a(tp), a(str), a(<<"\n">>)>>
           p == Call("print", <<>>)
           d == Call("delete", <<>>)
           B == IF t = "NONE" THEN <<>> ELSE <<p>>
           C == A \o B
<1>1. u = C \o <<d>>
  BY DEF __internal_log
<1>2. Opening(A)
  <2>1. \A x \in Arguments : a(x) \in CallSet /\ a(x).op = "append"
    BY DEF CallSet, Operations, Call
  <2>2. {<<"$c8[">>, <<"nspace">>, <<"/">>, <<"tag">>, tp, str, <<"\n">>} \subseteq Arguments
    BY DEF Arguments
  <2>3. Call("new", 7) \in CallSet /\ Call("new", 7).op = "new"
    BY DEF CallSet, Operations, Arguments, Call
  <2> DEFINE c1 == Call("new", 7)
             c2 == a(<<"$c8[">>)
             c3 == a(<<"nspace">>)
             c4 == a(<<"/">>)
             c5 == a(<<"tag">>)
             c6 == a(tp)
             c7 == a(str)
             c8 == a(<<"\n">>)
  <2>4. /\ {c1, c2, c3, c4, c5, c6, c7, c8} \subseteq CallSet /\ c1.op = "new"
        /\ \A c \in {c2, c3, c4, c5, c6, c7, c8} : c.op = "append"
    BY <2>1, <2>2, <2>3
  <2>5. A = <<c1, c2, c3, c4, c5, c6, c7, c8>>
    OBVIOUS
  <2> HIDE DEF A, c1, c2, c3, c4, c5, c6, c7, c8
  <2>6. A \in Seq(CallSet) /\ Len(A) = 8 /\ A[1] = c1
    BY <2>4, <2>5
  <2>7. \A k \in 2 .. 8 : A[k] \in {c2, c3, c4, c5, c6, c7, c8}
    BY <2>5
  <2> QED BY <2>4, <2>6, <2>7 DEF Opening
<1>3. p \in CallSet /\ p.op = "print" /\ d \in CallSet /\ d.op = "delete"
  BY DEF CallSet, Operations, Closing, Arguments, Call
<1> HIDE DEF A, p, d
<1>4. /\ B \in Seq(CallSet) /\ \A k \in 1 .. Len(B) : B[k].op \in {"append", "print"}
      /\ t # "NONE" => \E k \in 1 .. Len(B) : B[k].op = "print"
  <2>1. CASE t = "NONE"
    BY <2>1
  <2>2. CASE t # "NONE"
    <3>1. B = <<p>>
      BY <2>2
    <3>2. B \in Seq(CallSet) /\ Len(B) = 1 /\ B[1] = p
      BY <1>3, <3>1
    <3> HIDE DEF B
    <3> QED BY <1>3, <3>2
  <2> QED BY <2>1, <2>2
<1> HIDE DEF B
<1>5. Opening(C) /\ (t # "NONE" => WillBuild(C))
  BY <1>2, <1>4, OpeningGrows
<1> HIDE DEF C
<1>6. u = Append(C, d)
  BY <1>1, <1>3, <1>5, AppendIsConcat DEF Opening
<1> QED BY <1>3, <1>5, <1>6, OpeningEnds DEF Closing

\* The calls of a builder that is filled and destroyed.
LEMMA UnreadScript ==
  ASSUME NEW n \in BuilderSizes, NEW part \in Messages, NEW end \in Closing,
         NEW u, u = Unread(n, part, end)
  PROVE  Rest(u) /\ u # <<>> /\ u[1].op = "new"
<1> DEFINE b == Call("new", n)
           a == Call("append", part)
           d == Call(end, <<>>)
           A == <<b>>
           B == [k \in 1 .. n |-> a]
           E == A \o B
<1>1. u = E \o <<d>>
  BY DEF Unread
<1>2. n \in Nat
  BY LoggerAssumption
<1>3. /\ b \in CallSet /\ a \in CallSet /\ d \in CallSet
      /\ b.op = "new" /\ a.op = "append" /\ d.op = end
  BY DEF CallSet, Operations, Closing, Arguments, Call
<1> HIDE DEF a, b, d
<1>4. Opening(A)
  BY <1>3 DEF Opening
<1>5. B \in Seq(CallSet) /\ Len(B) = n /\ \A k \in 1 .. Len(B) : B[k].op \in {"append", "print"}
  <2>1. B \in [1 .. n -> CallSet] /\ \A k \in 1 .. n : B[k] = a
    BY <1>3
  <2> HIDE DEF B
  <2>2. B \in Seq(CallSet) /\ Len(B) = n
    BY <1>2, <2>1
  <2> QED BY <1>3, <2>1, <2>2
<1> HIDE DEF A, B
<1>6. Opening(E)
  BY <1>4, <1>5, OpeningGrows
<1> HIDE DEF E
<1>7. u = Append(E, d)
  BY <1>1, <1>3, <1>6, AppendIsConcat DEF Opening
<1>8. d \in CallSet /\ d.op \in Closing
  BY <1>3
<1> QED BY <1>6, <1>7, <1>8, OpeningEnds

\* The calls of a builder used without a logger.
LEMMA DirectScript ==
  ASSUME NEW n \in BuilderSizes, NEW part \in Messages, NEW last \in Messages,
         NEW end \in Closing, NEW u, u = Direct(n, part, last, end)
  PROVE  Rest(u) /\ u # <<>> /\ u[1].op = "new" /\ WillBuild(u)
<1> DEFINE b == Call("new", n)
           a == Call("append", part)
           z == Call("append", last)
           p == Call("print", <<>>)
           d == Call(end, <<>>)
           A == <<b>>
           B == [k \in 1 .. n |-> a]
           C == <<p, z, p>>
           D == <<p, z, p, d>>
           E == A \o B
           F == E \o C
<1>1. u = E \o D
  BY DEF Direct
<1>2. n \in Nat
  BY LoggerAssumption
<1>3. /\ b \in CallSet /\ a \in CallSet /\ z \in CallSet /\ p \in CallSet /\ d \in CallSet
      /\ b.op = "new" /\ a.op = "append" /\ z.op = "append" /\ p.op = "print" /\ d.op = end
  BY DEF CallSet, Operations, Closing, Arguments, Call
<1> HIDE DEF a, b, z, p, d
<1>4. Opening(A)
  BY <1>3 DEF Opening
<1>5. B \in Seq(CallSet) /\ Len(B) = n /\ \A k \in 1 .. Len(B) : B[k].op \in {"append", "print"}
  <2>1. B \in [1 .. n -> CallSet] /\ \A k \in 1 .. n : B[k] = a
    BY <1>3
  <2> HIDE DEF B
  <2>2. B \in Seq(CallSet) /\ Len(B) = n
    BY <1>2, <2>1
  <2> QED BY <1>3, <2>1, <2>2
<1> HIDE DEF A, B
<1>6. Opening(E)
  BY <1>4, <1>5, OpeningGrows
<1>7. /\ C \in Seq(CallSet) /\ \A k \in 1 .. Len(C) : C[k].op \in {"append", "print"}
      /\ \E k \in 1 .. Len(C) : C[k].op = "print"
  <2>1. C \in Seq(CallSet) /\ Len(C) = 3 /\ C[1] = p /\ C[2] = z /\ C[3] = p
    BY <1>3
  <2> HIDE DEF C
  <2>2. \A k \in 1 .. 3 : C[k] \in {p, z}
    BY <2>1
  <2> QED BY <1>3, <2>1, <2>2
<1>8. D = C \o <<d>> /\ C \in Seq(CallSet) /\ <<d>> \in Seq(CallSet)
  BY <1>3, <1>7
<1> HIDE DEF C, D, E
<1>9. Opening(F) /\ WillBuild(F)
  BY <1>6, <1>7, OpeningGrows
<1>10. u = F \o <<d>>
  <2>1. E \in Seq(CallSet) /\ C \in Seq(CallSet)
    BY <1>6, <1>8 DEF Opening
  <2> DEFINE G == <<d>>
  <2>2. G \in Seq(CallSet) /\ D = C \o G
    BY <1>8
  <2> HIDE DEF G
  <2>3. E \o (C \o G) = (E \o C) \o G
    BY <2>1, <2>2, ConcatAssociative, SMTT(30)
  <2> QED BY <1>1, <2>2, <2>3 DEF G
<1> HIDE DEF F
<1>11. u = Append(F, d)
  BY <1>3, <1>9, <1>10, AppendIsConcat DEF Opening
<1>12. d \in CallSet /\ d.op \in Closing
  BY <1>3
<1> QED BY <1>9, <1>11, <1>12, OpeningEnds

\* A builder that is made, filled and built holds its blocks and no other.
LEMMA LoggerInvNext ==
  ASSUME LoggerInv, LoggerNext
  PROVE  LoggerInv'
<1>1. ASSUME NEW t, NEW s, Begin(t, s), Rest(s), s # <<>>, s[1].op = "new",
             t # "NONE" => WillBuild(s)
      PROVE  LoggerInv'
  <2>1. /\ script' = s /\ target' = t /\ blocks' = blocks /\ crashed' = crashed
        /\ script = <<>> /\ ~crashed
    BY <1>1 DEF Begin
  <2>2. blocks = {} /\ crashed = FALSE
    BY <2>1 DEF LoggerInv
  <2> QED BY <1>1, <2>1, <2>2 DEF LoggerInv
<1>2. ASSUME NEW op, Calls(op)
      PROVE  /\ script # <<>> /\ crashed = FALSE /\ Rest(script) /\ script[1].op = op
             /\ Head(script) = script[1] /\ script' = Tail(script)
             /\ op = "new" => blocks = {} /\ (target # "NONE" => WillBuild(script))
             /\ op # "new" =>
                  Live /\ (target # "NONE" => builder.outputBuf # NULL \/ WillBuild(script))
             /\ op \in Closing => script' = <<>> /\ Len(script) = 1
             /\ op \notin Closing =>
                  /\ script' # <<>> /\ Rest(script') /\ script'[1].op # "new"
                  /\ WillBuild(script) /\ op # "print" => WillBuild(script')
  <2>1. script # <<>> /\ ~crashed /\ Head(script).op = op /\ script' = Tail(script)
    BY <1>2 DEF Calls
  <2>2. Rest(script) /\ crashed = FALSE
    BY <2>1 DEF LoggerInv
  <2>3. Head(script) = script[1]
    BY <2>2, RestTail
  <2>4. /\ op = "new" => blocks = {} /\ (target # "NONE" => WillBuild(script))
        /\ op # "new" =>
             Live /\ (target # "NONE" => builder.outputBuf # NULL \/ WillBuild(script))
    BY <2>1, <2>3 DEF LoggerInv
  <2> QED BY <2>1, <2>2, <2>3, <2>4, RestTail
<1>3. CASE Construct
  <2>1. /\ crashed = FALSE /\ blocks = {} /\ script' # <<>> /\ Rest(script')
        /\ script'[1].op # "new" /\ (target # "NONE" => WillBuild(script'))
    <3>1. Calls("new") /\ "new" \notin Closing
      BY <1>3 DEF Construct, Closing
    <3> QED BY <1>2, <3>1
  <2>2. crashed' = crashed /\ target' = target
    BY <1>3 DEF Construct
  <2>3. PICK this \in HeapAddresses \ blocks, parts \in HeapAddresses \ blocks :
          /\ blocks' = blocks \cup {this, parts}
          /\ builder' = [this |-> this, array |-> parts, partOffset |-> 0,
                         parts |-> [k \in 1 .. Head(script).arg |-> Unset],
                         outputBuf |-> NULL, text |-> <<>>]
    BY <1>3 DEF Construct
  <2>4. this # NULL /\ parts # NULL
    BY LoggerAssumption DEF NULL
  <2>5. /\ DOMAIN builder' = {"this", "array", "partOffset", "parts", "outputBuf", "text"}
        /\ builder'.this = this /\ builder'.array = parts /\ builder'.outputBuf = NULL
    BY <2>3
  <2>6. Live'
    BY <2>1, <2>3, <2>4, <2>5 DEF Live
  <2> QED BY <2>1, <2>2, <2>6 DEF LoggerInv
<1>4. CASE append
  <2>1. /\ crashed = FALSE /\ Live /\ script' # <<>> /\ Rest(script') /\ script'[1].op # "new"
        /\ (target # "NONE" => builder.outputBuf # NULL \/ WillBuild(script'))
    <3>1. /\ Calls("append") /\ "append" \notin Closing
          /\ "append" # "new" /\ "append" # "print"
      BY <1>4 DEF append, Closing
    <3>2. /\ crashed = FALSE /\ script' # <<>> /\ Rest(script') /\ script'[1].op # "new"
          /\ WillBuild(script) => WillBuild(script')
      BY <1>2, <3>1
    <3>3. Live /\ (target # "NONE" => builder.outputBuf # NULL \/ WillBuild(script))
      BY <1>2, <3>1
    <3> QED BY <3>2, <3>3
  <2>2. /\ crashed' = crashed /\ target' = target /\ blocks' = blocks
        /\ builder' = WithPart(builder, Head(script).arg)
    BY <1>4 DEF append
  <2>3. /\ DOMAIN builder' = DOMAIN builder /\ builder'.this = builder.this
        /\ builder'.array = builder.array /\ builder'.outputBuf = builder.outputBuf
    BY <2>1, <2>2 DEF WithPart, Live
  <2>4. Live'
    BY <2>1, <2>2, <2>3 DEF Live
  <2> QED BY <2>1, <2>2, <2>3, <2>4 DEF LoggerInv
<1>5. CASE print
  <2>1. /\ crashed = FALSE /\ Live /\ script' # <<>> /\ Rest(script') /\ script'[1].op # "new"
    <3>1. Calls("print") /\ "print" \notin Closing /\ "print" # "new"
      BY <1>5 DEF print, Closing
    <3>2. crashed = FALSE /\ script' # <<>> /\ Rest(script') /\ script'[1].op # "new"
      BY <1>2, <3>1
    <3>3. Live
      BY <1>2, <3>1
    <3> QED BY <3>2, <3>3
  <2>2. PICK buf \in HeapAddresses \ (blocks \ {builder.outputBuf}), stale \in Stale :
          /\ builder' = Built(builder, blocks, buf, stale).builder
          /\ blocks' = Built(builder, blocks, buf, stale).blocks
    BY <1>5 DEF print
  <2>3. crashed' = crashed /\ target' = target
    BY <1>5 DEF print
  <2>4. buf # NULL
    BY LoggerAssumption DEF NULL
  <2>5. /\ DOMAIN builder' = DOMAIN builder /\ builder'.this = builder.this
        /\ builder'.array = builder.array /\ builder'.outputBuf = buf
    BY <2>1, <2>2 DEF Built, Live
  <2>6. blocks' = (blocks \ {builder.outputBuf}) \cup {buf}
    BY <2>2 DEF Built
  <2>7. Live'
    BY <2>1, <2>4, <2>5, <2>6 DEF Live
  <2> QED BY <2>1, <2>3, <2>4, <2>5, <2>7 DEF LoggerInv
<1>6. CASE delete
  <2>1. /\ crashed = FALSE /\ Live /\ script' = <<>> /\ Len(script) = 1
        /\ script[1].op = "delete"
        /\ (target # "NONE" => builder.outputBuf # NULL \/ WillBuild(script))
    BY <1>2, <1>6 DEF delete, Closing
  <2>2. ~WillBuild(script)
    <3>1. \A k \in 1 .. Len(script) : k = 1
      BY <2>1
    <3>2. "delete" # "print" /\ "delete" # "buildAndDestroy"
      OBVIOUS
    <3> QED BY <2>1, <3>1, <3>2 DEF WillBuild
  <2>3. target' = target
    BY <1>6 DEF delete
  <2>4. CASE builder.outputBuf = NULL
    <3>1. crashed' = TRUE
      BY <1>6, <2>4 DEF delete
    <3> QED BY <2>1, <2>2, <2>3, <2>4, <3>1 DEF LoggerInv
  <2>5. CASE builder.outputBuf # NULL
    <3>1. crashed' = crashed /\ blocks' = blocks \ {builder.this, builder.array, builder.outputBuf}
      BY <1>6, <2>5 DEF delete, Freed
    <3>2. blocks' = {}
      BY <2>1, <3>1 DEF Live
    <3> QED BY <2>1, <3>1, <3>2 DEF LoggerInv
  <2> QED BY <2>4, <2>5
<1>7. CASE buildAndDestroy
  <2>1. crashed = FALSE /\ Live /\ script' = <<>>
    BY <1>2, <1>7 DEF buildAndDestroy, Closing
  <2>2. PICK buf \in HeapAddresses \ (blocks \ {builder.outputBuf}) :
          blocks' = Freed(Built(builder, blocks, buf, 0).builder, Built(builder, blocks, buf, 0).blocks)
    BY <1>7 DEF buildAndDestroy
  <2>3. crashed' = crashed
    BY <1>7 DEF buildAndDestroy
  <2> DEFINE b == Built(builder, blocks, buf, 0).builder
  <2>4. b.this = builder.this /\ b.array = builder.array /\ b.outputBuf = buf
    BY <2>1 DEF Built, Live
  <2>5. Built(builder, blocks, buf, 0).blocks = (blocks \ {builder.outputBuf}) \cup {buf}
    BY DEF Built
  <2>6. blocks' = ((blocks \ {builder.outputBuf}) \cup {buf}) \ {builder.this, builder.array, buf}
    BY <2>2, <2>4, <2>5 DEF Freed
  <2>7. blocks' = {}
    BY <2>1, <2>6 DEF Live
  <2> QED BY <2>1, <2>3, <2>7 DEF LoggerInv
<1>8. ASSUME NEW t \in Targets, NEW tp \in TypeTags, NEW str \in Messages,
             Begin(t, __internal_log(t, tp, str))
      PROVE  LoggerInv'
  <2> DEFINE s == __internal_log(t, tp, str)
  <2>1. Begin(t, s)
    BY <1>8
  <2> HIDE DEF s
  <2>2. Rest(s) /\ s # <<>> /\ s[1].op = "new" /\ (t # "NONE" => WillBuild(s))
    BY LogScript DEF s
  <2> QED BY <1>1, <2>1, <2>2
<1>9. ASSUME NEW n \in BuilderSizes, NEW part \in Messages, NEW last \in Messages,
             NEW end \in Closing, Begin("BOTH", Direct(n, part, last, end))
      PROVE  LoggerInv'
  <2> DEFINE s == Direct(n, part, last, end)
  <2>1. Begin("BOTH", s)
    BY <1>9
  <2> HIDE DEF s
  <2>2. Rest(s) /\ s # <<>> /\ s[1].op = "new" /\ WillBuild(s)
    BY DirectScript DEF s
  <2> QED BY <1>1, <2>1, <2>2
<1>10. ASSUME NEW n \in BuilderSizes, NEW part \in Messages, NEW end \in Closing,
              Begin("NONE", Unread(n, part, end))
       PROVE  LoggerInv'
  <2> DEFINE s == Unread(n, part, end)
  <2>1. Begin("NONE", s)
    BY <1>10
  <2> HIDE DEF s
  <2>2. Rest(s) /\ s # <<>> /\ s[1].op = "new"
    BY UnreadScript DEF s
  <2> QED BY <1>1, <2>1, <2>2
<1> QED BY <1>3, <1>4, <1>5, <1>6, <1>7, <1>8, <1>9, <1>10 DEF LoggerNext, Closing

\* A log call returns every block it took, and the destructor frees NULL only
\* in a log call with the target NONE or another use that builds nothing: for every text, every number of parts and every heap.
THEOREM LoggerReturnsBlocks == LoggerSpec => []BlocksReturned
<1>1. LoggerInit => LoggerInv
  BY DEF LoggerInit, LoggerInv
<1>2. LoggerInv /\ [LoggerNext]_loggerVars => LoggerInv'
  <2>1. ASSUME LoggerInv, UNCHANGED loggerVars
        PROVE  LoggerInv'
    BY <2>1 DEF loggerVars, LoggerInv, Live
  <2> QED BY <2>1, LoggerInvNext
<1>3. LoggerInv => BlocksReturned
  BY DEF LoggerInv, BlocksReturned
<1> QED BY <1>1, <1>2, <1>3, PTL DEF LoggerSpec
==============================================================================
