------------------------------- MODULE Numbers -------------------------------
(***************************************************************************)
(* Numbers as text, itoa and uitoa of lib/string.cpp, on a machine word of *)
(* Bits bits.  A digit is a number, the sign and the terminator are named. *)
(* Every round of the two loops is a step; str is the part of the caller's *)
(* buffer written so far, and low and ptr index it from 1.                 *)
(***************************************************************************)
EXTENDS Integers, Sequences, SequencesExt

CONSTANTS
  Bits,         \* 64: the width of i64 and u64
  Bases         \* the bases callers ask for

VARIABLES signed, arg, base, value, str, low, ptr, loop

vars == <<signed, arg, base, value, str, low, ptr, loop>>

Minus == -1
Terminator == -2

Words(s) == IF s THEN -(2 ^ (Bits - 1)) .. 2 ^ (Bits - 1) - 1 ELSE 0 .. 2 ^ Bits - 1

\* The division of C truncates: a remainder has the sign of the dividend.
Quotient(a, b) == IF a < 0 THEN -((-a) \div b) ELSE a \div b

\* A name with a suffix is a faulty variant of the definition after it.
Digit_Floored(v, b) == v % b

\* "zyx...3210123...xyz"[35 + v % b]: the table is symmetric about its middle.
Digit(v, b) == LET r == v - Quotient(v, b) * b IN IF r < 0 THEN -r ELSE r

Init ==
  /\ signed = FALSE /\ arg = 0 /\ base = 10
  /\ value = arg /\ str = <<>> /\ low = 0 /\ ptr = 0 /\ loop = "start"

\* itoa or uitoa is called.  An unsupported base gives the empty string; only
\* itoa in base 10 has a sign.
Start(s, v, b) ==
  LET sign == IF s /\ v < 0 /\ b = 10 THEN <<Minus>> ELSE <<>>
  IN  /\ loop = "start"
      /\ signed' = s /\ arg' = v /\ value' = v /\ base' = b
      /\ IF b < 2 \/ b > 36
         THEN str' = <<Terminator>> /\ loop' = "done" /\ UNCHANGED low
         ELSE str' = sign /\ low' = Len(sign) + 1 /\ loop' = "convert"
      /\ UNCHANGED ptr

Convert ==
  LET more == Append(str, Digit(value, base))
      rest == Quotient(value, base)
  IN  /\ loop = "convert"
      /\ value' = rest
      /\ str' = IF rest = 0 THEN Append(more, Terminator) ELSE more
      /\ ptr' = Len(more)
      /\ loop' = IF rest = 0 THEN "invert" ELSE loop
      /\ UNCHANGED <<signed, arg, base, low>>

Invert ==
  /\ loop = "invert"
  /\ IF low < ptr
     THEN /\ str' = [str EXCEPT ![low] = str[ptr], ![ptr] = str[low]]
          /\ low' = low + 1 /\ ptr' = ptr - 1 /\ UNCHANGED loop
     ELSE loop' = "done" /\ UNCHANGED <<str, low, ptr>>
  /\ UNCHANGED <<signed, arg, base, value>>

Next ==
  \/ \E s \in BOOLEAN, b \in Bases : \E v \in Words(s) : Start(s, v, b)
  \/ Convert \/ Invert

-----------------------------------------------------------------------------
\* The finished text reads back as the argument: a sign for a negative number
\* in base 10 only, the magnitude in every other base, no leading zero, one
\* terminator at the end, also for the least number, whose magnitude is no i64.
NumberReadsBack ==
  loop = "done" =>
    IF base \notin 2 .. 36
    THEN str = <<Terminator>>
    ELSE LET negative == signed /\ arg < 0 /\ base = 10
             digits   == SubSeq(str, IF negative THEN 2 ELSE 1, Len(str) - 1)
         IN  /\ negative => str[1] = Minus
             /\ str[Len(str)] = Terminator
             /\ digits # <<>> /\ ToSet(digits) \subseteq 0 .. base - 1
             /\ digits[1] = 0 => digits = <<0>>
             /\ FoldLeft(LAMBDA n, d : n * base + d, 0, digits)
                  = IF arg < 0 THEN -arg ELSE arg
==============================================================================
