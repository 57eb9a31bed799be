------------------------------ MODULE Interrupts ------------------------------
(***************************************************************************)
(* The interrupt table and the entry code behind it (idt/ints.cpp,         *)
(* idt/ints.h and idt/stubs.asm), from the moment the processor takes a    *)
(* vector through a gate of the table.  The kernel fills the table but     *)
(* never loads it; this is what the code does once it is loaded.  A word   *)
(* on the stack is its meaning and its value, the top is the head.  The    *)
(* value of a register is the level of the code that last wrote it.        *)
(***************************************************************************)
EXTENDS Integers, Sequences, SequencesExt

CONSTANTS
  Field,            \* 2^16: values of the low and of the middle address field
  vector_0_handler, \* the address of the first entry point
  Vectors,          \* the vectors the processor takes
  ErrorCodes,       \* page fault codes: [present, write, user, reserved, fetch, key]
  MaxDepth          \* bound: interrupts inside each other

ASSUME InterruptsAssumption ==
  /\ Field \in Nat \ {0} /\ MaxDepth \in Nat
  /\ vector_0_handler \in Nat /\ vector_0_handler % 16 = 0
  /\ Vectors \subseteq 0 .. 255

GeneralProtectionFault == 13
PageFault == 14
NonMaskable == 2

VARIABLES
  idt,              \* vector -> gate
  regs, stack, pc,
  frames,           \* history: vector and state at each entry not yet left
  fixedPageFaultString,
  faults            \* history: error codes and texts of the page fault panics

interruptVars == <<idt, regs, stack, pc, frames, fixedPageFaultString, faults>>

SavedRegisters == <<"rax", "rbx", "rcx", "rdx", "r8", "r9", "r10", "r11", "r12",
                    "r13", "r14", "r15">>
Registers == ToSet(SavedRegisters) \cup {"rdi", "rsi", "rbp"}

\* The registers a function of C++ may change, by the calling convention.
CallClobbered == {"rax", "rcx", "rdx", "rsi", "rdi", "r8", "r9", "r10", "r11"}

\* struct CPUStatus, from its first field.
CPUStatus == Reverse(SavedRegisters) \o <<"vectorNumber", "errorCode">>
             \o <<"iret_rip", "iret_cs", "iret_flags", "iret_rsp", "iret_ss">>

-----------------------------------------------------------------------------
(* The table.                                                              *)

Gate_HighLost(handler) ==
  [addressLow |-> handler % Field, addressMid |-> (handler \div Field) % Field,
   addressHigh |-> 0]

\* A name with a suffix is a faulty variant of the definition after it.
Gate(handler) ==
  [addressLow |-> handler % Field, addressMid |-> (handler \div Field) % Field,
   addressHigh |-> handler \div (Field * Field)]

\* What the processor makes of a gate.
Target(gate) == gate.addressLow + Field * (gate.addressMid + Field * gate.addressHigh)

\* The vectors whose entry point leaves the error code to the processor.
NoDummy_AlignmentCheck == {8, 10, 11, 12, 13, 14}

NoDummy == {8, 10, 11, 12, 13, 14, 17}

\* The entry points: two pushes, of which that of a number above 127 is longer,
\* and a jump, each aligned to 16.
HandlerLength(v) == (IF v \in NoDummy THEN 0 ELSE 2) + (IF v < 128 THEN 2 ELSE 5) + 5

HandlerAfter(address, v) == ((address + HandlerLength(v) + 15) \div 16) * 16

InterruptsInit ==
  /\ idt = <<>> /\ pc = "start"
  /\ regs = [r \in Registers |-> 0] /\ stack = <<>> /\ frames = <<>>
  /\ fixedPageFaultString = <<>> /\ faults = <<>>

initInts ==
  /\ pc = "start" /\ pc' = "code"
  /\ idt' = [v \in 0 .. 255 |-> Gate(vector_0_handler + v * 16)]
  /\ UNCHANGED <<regs, stack, frames, fixedPageFaultString, faults>>

-----------------------------------------------------------------------------
(* The processor.                                                          *)

HasErrorCode(v) == v \in {8, 10, 11, 12, 13, 14, 17}

\* It saves the state and enters the handler.  The error code is not 0.
Deliver(v) ==
  /\ Len(frames) < MaxDepth
  /\ frames' = <<[vector |-> v, pc |-> pc, regs |-> regs]>> \o frames
  /\ stack' = (IF HasErrorCode(v) THEN << <<"errorCode", 1>> >> ELSE <<>>)
              \o << <<"iret_rip", 0>>, <<"iret_cs", 0>>, <<"iret_flags", 0>>,
                    <<"iret_rsp", Len(stack)>>, <<"iret_ss", 0>> >> \o stack
  /\ pc' = "handler"
  /\ UNCHANGED <<idt, regs, fixedPageFaultString, faults>>

\* Kernel code, the dispatcher and the stack trace of panic may fault; a
\* non-maskable interrupt comes anywhere.
Interrupt(v) ==
  /\ pc # "start"
  /\ pc \in {"code", "call", "panic"} \/ v = NonMaskable
  /\ Deliver(v)

\* Assembled without a size suffix, iret takes 32-bit words: the code selector
\* it finds is the upper half of iret_rip, which no segment has.
iret == pc = "iret" /\ Deliver(GeneralProtectionFault)

-----------------------------------------------------------------------------
(* The entry code.                                                         *)

vector_handler ==
  LET v == Head(frames).vector
  IN  /\ pc = "handler" /\ pc' = "save"
      /\ stack' = << <<"vectorNumber", v>> >>
                  \o (IF v \in NoDummy THEN <<>> ELSE << <<"errorCode", 0>> >>) \o stack
      /\ UNCHANGED <<idt, regs, frames, fixedPageFaultString, faults>>

Save ==
  /\ pc = "save" /\ pc' = "call"
  /\ stack' = Reverse([k \in DOMAIN SavedRegisters |->
                         <<SavedRegisters[k], regs[SavedRegisters[k]]>>]) \o stack
  /\ UNCHANGED <<idt, regs, frames, fixedPageFaultString, faults>>

Piece(name, n) == [k \in 1 .. n |-> name]

\* The pieces of the message, their lengths in proportion.  The code takes bits
\* 3 and 5 out of the error code too, and uses neither.
Pieces(errorCode) ==
  LET bit(n) == (errorCode \div 2 ^ n) % 2
  IN  <<IF bit(2) = 0 THEN Piece("supervisor", 4) ELSE Piece("user", 3),
        IF bit(1) = 0 THEN Piece("read", 3) ELSE Piece("write", 2),
        IF bit(4) = 0 THEN Piece("data", 1) ELSE Piece("instruction", 3),
        IF bit(0) = 0 THEN Piece("non-present", 4) ELSE Piece("protection", 5)>>

\* The local append of getPageFaultString, with strOffset in s.
Appended_OffsetKept(s, str) == [s EXCEPT !.buf = str \o SubSeq(@, Len(str) + 1, Len(@))]

Appended(s, str) ==
  [buf |-> SubSeq(s.buf, 1, s.off) \o str
           \o SubSeq(s.buf, s.off + Len(str) + 1, Len(s.buf)),
   off |-> s.off + Len(str)]

getPageFaultString(errorCode) ==
  FoldLeft(Appended, [buf |-> fixedPageFaultString, off |-> 0], Pieces(errorCode)).buf

Word(e) == e.present + 2 * e.write + 4 * e.user + 8 * e.reserved + 16 * e.fetch
           + 32 * e.key

\* interruptDispatch gets no argument: rdi is that of the interrupted code, so
\* vectorNumber and errorCode are whatever memory holds there.
interruptDispatch ==
  /\ pc = "call"
  /\ \/ pc' = "panic" /\ UNCHANGED <<regs, fixedPageFaultString, faults>>
     \/ \E e \in ErrorCodes :
          /\ pc' = "panic"
          /\ fixedPageFaultString' = getPageFaultString(Word(e))
          /\ faults' = <<[code |-> e, text |-> fixedPageFaultString']>> \o faults
          /\ UNCHANGED regs
     \/ /\ pc' = "restore"
        /\ regs' = [r \in Registers |-> IF r \in CallClobbered THEN Len(frames) ELSE regs[r]]
        /\ UNCHANGED <<fixedPageFaultString, faults>>
  /\ UNCHANGED <<idt, stack, frames>>

Popped_Unbalanced(n) == SubSeq(stack, n + 2, Len(stack))

\* The pops, and "remove the vector number + error code".
Popped(n) == SubSeq(stack, n + 3, Len(stack))

Restore ==
  /\ pc = "restore" /\ pc' = "iret"
  /\ regs' = [r \in Registers |->
                IF \E k \in DOMAIN SavedRegisters : SavedRegisters[k] = r
                THEN stack[13 - CHOOSE k \in DOMAIN SavedRegisters : SavedRegisters[k] = r][2]
                ELSE regs[r]]
  /\ stack' = Popped(12)
  /\ UNCHANGED <<idt, frames, fixedPageFaultString, faults>>

InterruptsNext ==
  \/ initInts
  \/ \E v \in Vectors : Interrupt(v)
  \/ vector_handler \/ Save \/ interruptDispatch \/ Restore \/ iret

InterruptsSpec == InterruptsInit /\ [][InterruptsNext]_interruptVars

-----------------------------------------------------------------------------
\* Every gate leads to the entry point of its own vector: the distance of 16
\* that initInts assumes holds for the short and the long entry points, and
\* the three fields of the gate carry the whole address.
GatesReachHandlers ==
  idt # <<>> =>
    /\ Target(idt[0]) = vector_0_handler
    /\ \A v \in 0 .. 254 : Target(idt[v + 1]) = HandlerAfter(Target(idt[v]), v)

\* When the stub calls interruptDispatch the top of the stack is a CPUStatus:
\* every field in its place, for vectors with and without an error code,
\* however deep interrupts are nested.
FrameIsCPUStatus ==
  pc = "call" =>
    LET entered == Head(frames)
        value(n) == stack[n][2]
    IN  \A n \in DOMAIN CPUStatus :
          /\ stack[n][1] = CPUStatus[n]
          /\ n <= 12 => value(n) = entered.regs[CPUStatus[n]]
          /\ n = 13 => value(n) = entered.vector
          /\ n = 14 => value(n) = IF HasErrorCode(entered.vector) THEN 1 ELSE 0

\* At the iret the frame of the processor is on top again, the stack below is
\* that of the interrupted code, and so are its registers, all but rdi and
\* rsi, which neither the stub nor the dispatcher preserves.
InterruptedStateRestored ==
  pc = "iret" =>
    /\ \A n \in 1 .. 5 : stack[n][1] = CPUStatus[14 + n]
    /\ stack[4][2] = Len(stack) - 5
    /\ \A r \in Registers \ {"rdi", "rsi"} : regs[r] = Head(frames).regs[r]

\* A page fault panic names the mode, the access, its kind and the cause that
\* bits 2, 1, 4 and 0 of its error code stand for, whatever the other bits are.
\* The text of a panic inside another begins with these words: what follows
\* may be the end of the earlier, longer text.
PanicTextDecodes ==
  faults # <<>> =>
    LET e    == Head(faults).code
        text == Piece(IF e.user = 1 THEN "user" ELSE "supervisor", 4 - e.user)
                \o Piece(IF e.write = 1 THEN "write" ELSE "read", 3 - e.write)
                \o Piece(IF e.fetch = 1 THEN "instruction" ELSE "data", 1 + 2 * e.fetch)
                \o Piece(IF e.present = 1 THEN "protection" ELSE "non-present", 4 + e.present)
    IN  /\ IsPrefix(text, Head(faults).text)
        /\ Len(faults) = 1 => text = Head(faults).text

\* The comment in getPageFaultString: "Construct a string considering following
\* bits in the bitfield", of which it lists six.  Panics whose codes differ in
\* one of them have different texts.
PanicTextConsidersEveryBit ==
  \A a, b \in ToSet(faults) : a.code # b.code => a.text # b.text
===============================================================================
