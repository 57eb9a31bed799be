-------------------------------- MODULE MCLib --------------------------------
(***************************************************************************)
(* The parts that stand alone: List, Bitmap, PageEntry, Paging, Numbers,   *)
(* Logger, Clock and Interrupts.  They share nothing, so a behaviour       *)
(* exercises one of them, the subject.                                     *)
(***************************************************************************)
EXTENDS Paging, List, Logger, Clock, Interrupts

CONSTANTS
  Subjects,
  Size, Offsets, Behind,
  Shift, AddrBits, Width, Addresses,
  Bits, Bases

ASSUME LibAssumption ==
  /\ Size \in Nat \ {0}
  /\ Offsets \subseteq Nat \ {Size * 8}
  /\ Behind \subseteq 0 .. 255
  /\ {Shift, AddrBits, Width} \subseteq Nat
  /\ Shift + AddrBits < Width
  /\ Addresses \subseteq 0 .. 2 ^ Width - 1
  /\ Bits \in Nat \ {0}

\* What is logged: a few texts, the empty one among them.
Texts == {<<>>, <<"h", "i">>, <<"o", "k", "!">>}

\* The page fault error codes.
PageFaultCodes ==
  [present : {0, 1}, write : {0, 1}, user : {0, 1}, reserved : {0, 1}, fetch : {0, 1},
   key : {0, 1}]

VARIABLES
  subject,
  Buffer, bits,
  value, on, address,
  signed, arg, base, rest, str, low, ptr, loop

BM == INSTANCE Bitmap
PE == INSTANCE PageEntry
NU == INSTANCE Numbers WITH value <- rest

bitmapVars == <<Buffer, bits>>
entryVars == <<value, on, address>>
numbersVars == <<signed, arg, base, rest, str, low, ptr, loop>>

LibInit ==
  /\ subject \in Subjects
  /\ Init /\ ListInit /\ BM!Init /\ PE!Init /\ NU!Init /\ LoggerInit /\ ClockInit /\ InterruptsInit
  /\ subject # "list" => \A c \in Capacities : c <= capacity
  /\ subject # "bitmap" => \A b \in Behind : b <= Buffer[Size]
  /\ subject # "paging" => free0 = {}

\* The variables of the parts other than the subject.
Others(s) ==
  /\ s = "list" \/ UNCHANGED listVars
  /\ s = "bitmap" \/ UNCHANGED bitmapVars
  /\ s = "entry" \/ UNCHANGED entryVars
  /\ s = "numbers" \/ UNCHANGED numbersVars
  /\ s = "paging" \/ UNCHANGED vars
  /\ s = "logger" \/ UNCHANGED loggerVars
  /\ s = "clock" \/ UNCHANGED clockVars
  /\ s = "interrupts" \/ UNCHANGED interruptVars

LibNext ==
  /\ UNCHANGED subject
  /\ \/ subject = "list" /\ ListNext
     \/ subject = "bitmap" /\ BM!Next
     \/ subject = "entry" /\ PE!Next
     \/ subject = "numbers" /\ NU!Next
     \/ subject = "paging" /\ Next
     \/ subject = "logger" /\ LoggerNext
     \/ subject = "clock" /\ ClockNext
     \/ subject = "interrupts" /\ InterruptsNext
  /\ Others(subject)

LibSpec ==
  LibInit /\ [][LibNext]_<<subject, listVars, bitmapVars, entryVars, numbersVars, vars,
                          loggerVars, clockVars, interruptVars>>

-----------------------------------------------------------------------------
\* BufferIsBitSet of Bitmap: get reads what set wrote.
BitmapIsBitSet == BM!BufferIsBitSet

\* EntryKeepsFlagsAndAddress of PageEntry: the setters of an entry do not
\* disturb each other.
EntryKeepsFlagsAndAddress == PE!EntryKeepsFlagsAndAddress

\* NumberReadsBack of Numbers: the text of itoa and uitoa denotes the number.
NumberReadsBack == NU!NumberReadsBack
==============================================================================
