-------------------------------- MODULE Bitmap --------------------------------
(***************************************************************************)
(* lib/bitmap.cpp: an array of bytes used as an array of bits, the first   *)
(* bit of a byte being its most significant one.  The byte behind the      *)
(* buffer belongs to somebody else; the guards of get and set let one      *)
(* offset reach it, which no caller passes.                                *)
(***************************************************************************)
EXTENDS Integers, FiniteSets, Bitwise

CONSTANTS
  Size,       \* bytes of the bitmap
  Offsets,    \* the offsets callers pass, Size * 8 not among them
  Behind      \* what the byte behind the buffer may hold

VARIABLES
  Buffer,     \* bytes 0 .. Size - 1, and the one behind them
  bits        \* history: the offsets last set to true

vars == <<Buffer, bits>>

-----------------------------------------------------------------------------
\* Shifting left drops what leaves the byte, shifting right by seven keeps
\* the top bit.
get(offset) ==
  /\ ~ (offset > Size * 8)
  /\ ((Buffer[offset \div 8] * 2 ^ (offset % 8)) % 256) \div 2 ^ 7 # 0

bitIndexer_LowBitFirst(offset) == 2 ^ (offset % 8)

bitIndexer(offset) == 128 \div 2 ^ (offset % 8)

\* The byte with the bit cleared and, for a true value, set again.
Written(byte, offset, value) ==
  LET cleared == byte & (255 - bitIndexer(offset))
  IN  IF value THEN cleared | bitIndexer(offset) ELSE cleared

\* initBitmap of the page frame allocator writes zero to every byte.
Init ==
  /\ \E b \in Behind : Buffer = [i \in 0 .. Size |-> IF i = Size THEN b ELSE 0]
  /\ bits = {}

\* An offset that is too large changes nothing; the caller is told.
set(offset, value) ==
  IF offset > Size * 8
  THEN UNCHANGED <<Buffer, bits>>
  ELSE /\ Buffer' = [Buffer EXCEPT ![offset \div 8] = Written(@, offset, value)]
       /\ bits' = IF value THEN bits \cup {offset} ELSE bits \ {offset}

Next == \E offset \in Offsets, value \in BOOLEAN : set(offset, value)

Spec == Init /\ [][Next]_vars

-----------------------------------------------------------------------------
\* The bytes are the set of bits: get reads at every offset what set last
\* wrote there, whatever was written to the other offsets of the same byte.
BufferIsBitSet == \A o \in 0 .. 8 * Size - 1 : get(o) <=> o \in bits
===============================================================================
