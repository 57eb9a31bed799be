------------------------------ MODULE PageEntry ------------------------------
(***************************************************************************)
(* PageDirectoryEntry of mem/paging.cpp: one word that holds flags below   *)
(* and above the number of a frame.  The widths are parameters.            *)
(***************************************************************************)
EXTENDS Integers, Bitwise

CONSTANTS
  Shift,      \* 12: flag bits below the address
  AddrBits,   \* 40: bits of the address
  Width,      \* 64: bits of the word
  Addresses   \* the addresses callers pass

VARIABLES
  value,      \* the word
  on,         \* history: the flags last enabled
  address     \* history: the address last set

vars == <<value, on, address>>

-----------------------------------------------------------------------------
\* Words, and the complement of one.
Complement(x) == 2 ^ Width - 1 - x
Shl(x, n) == (x * 2 ^ n) % 2 ^ Width

\* The flags of PT_Flag: bits on both sides of the address.
Flags == (0 .. Shift - 1) \cup {Width - 1}

AddrMask == 2 ^ AddrBits - 1

GetFlag(flag) == (value & Shl(1, flag)) > 0

GetAddress == (value & Shl(AddrMask, Shift)) \div 2 ^ Shift

WithFlag(word, flag, enabled) ==
  LET cleared == word & Complement(Shl(1, flag))
  IN  IF enabled THEN cleared | Shl(1, flag) ELSE cleared

WithAddress_NotMasked(word, addr) ==
  (word & Complement(Shl(AddrMask, Shift))) | Shl(addr, Shift)

WithAddress(word, addr) ==
  (word & Complement(Shl(AddrMask, Shift))) | Shl(addr & AddrMask, Shift)

\* An entry of a table that memset has cleared.
Init ==
  /\ value = 0
  /\ on = {}
  /\ address = 0

SetFlag(flag, enabled) ==
  /\ value' = WithFlag(value, flag, enabled)
  /\ on' = IF enabled THEN on \cup {flag} ELSE on \ {flag}
  /\ UNCHANGED address

SetAddress(addr) ==
  /\ value' = WithAddress(value, addr)
  /\ address' = addr
  /\ UNCHANGED on

Next ==
  \/ \E flag \in Flags, enabled \in BOOLEAN : SetFlag(flag, enabled)
  \/ \E addr \in Addresses : SetAddress(addr)

Spec == Init /\ [][Next]_vars

-----------------------------------------------------------------------------
\* The entry keeps both kinds of content apart, in any order of the setters:
\* every flag reads as it was last set, and the address as it was last set,
\* less the bits no physical address has.
EntryKeepsFlagsAndAddress ==
  /\ \A flag \in Flags : GetFlag(flag) <=> flag \in on
  /\ GetAddress = address % 2 ^ AddrBits
=============================================================================
