--------------------------- MODULE InterruptsProofs ---------------------------
(***************************************************************************)
(* Proofs about the interrupt entry code: what every step of the stub      *)
(* finds on the stack, and what it leaves there.                           *)
(***************************************************************************)
EXTENDS LibProofs

\* The saved registers are twelve different ones.
LEMMA SavedFacts ==
  /\ DOMAIN SavedRegisters = 1 .. 12 /\ Len(SavedRegisters) = 12
  /\ \A k \in 1 .. 12 : SavedRegisters[k] \in Registers
  /\ \A k, l \in 1 .. 12 : SavedRegisters[k] = SavedRegisters[l] => k = l
  /\ \A r \in Registers \ {"rdi", "rsi", "rbp"} : \E k \in 1 .. 12 : SavedRegisters[k] = r
  /\ \A k \in 1 .. 12 : SavedRegisters[k] \notin {"rdi", "rsi", "rbp"}
<1>1. DOMAIN SavedRegisters = 1 .. 12 /\ Len(SavedRegisters) = 12
  BY DEF SavedRegisters
<1>2. Registers = {SavedRegisters[k] : k \in 1 .. 12} \cup {"rdi", "rsi", "rbp"}
  BY <1>1 DEF Registers, ToSet
<1>3. \A k, l \in 1 .. 12 : SavedRegisters[k] = SavedRegisters[l] => k = l
  BY DEF SavedRegisters
<1>4. \A k \in 1 .. 12 : SavedRegisters[k] \notin {"rdi", "rsi", "rbp"}
  BY DEF SavedRegisters
<1> HIDE DEF SavedRegisters
<1> QED BY <1>1, <1>2, <1>3, <1>4

\* A sequence turned round.
LEMMA ReverseFacts ==
  ASSUME NEW S, NEW s \in Seq(S)
  PROVE  /\ Reverse(s) \in Seq(S) /\ Len(Reverse(s)) = Len(s)
         /\ \A n \in 1 .. Len(s) : Reverse(s)[n] = s[(Len(s) - n) + 1]
<1> DEFINE l == Len(s)
           R == Reverse(s)
<1>1. l \in Nat /\ \A k \in 1 .. l : s[k] \in S
  OBVIOUS
<1>2. R = [n \in 1 .. l |-> s[(l - n) + 1]]
  BY DEF Reverse
<1> HIDE DEF l, R
<1>3. \A n \in 1 .. l : (l - n) + 1 \in 1 .. l
  BY <1>1
<1>4. R \in [1 .. l -> S] /\ \A n \in 1 .. l : R[n] = s[(l - n) + 1]
  BY <1>1, <1>2, <1>3
<1>5. R \in Seq(S) /\ Len(R) = l
  BY <1>1, <1>4
<1> QED BY <1>4, <1>5 DEF l, R

\* The names of the words.
Names == {"rax", "rbx", "rcx", "rdx", "r8", "r9", "r10", "r11", "r12", "r13", "r14", "r15",
          "vectorNumber", "errorCode", "iret_rip", "iret_cs", "iret_flags", "iret_rsp", "iret_ss"}

\* Where the fields of CPUStatus are.
LEMMA StatusFacts ==
  /\ DOMAIN CPUStatus = 1 .. 19
  /\ \A n \in 1 .. 12 : CPUStatus[n] = SavedRegisters[13 - n]
  /\ CPUStatus[13] = "vectorNumber" /\ CPUStatus[14] = "errorCode"
  /\ CPUStatus[15] = "iret_rip" /\ CPUStatus[16] = "iret_cs" /\ CPUStatus[17] = "iret_flags"
  /\ CPUStatus[18] = "iret_rsp" /\ CPUStatus[19] = "iret_ss"
<1> DEFINE A == Reverse(SavedRegisters)
           B == <<"vectorNumber", "errorCode">>
           C == <<"iret_rip", "iret_cs", "iret_flags", "iret_rsp", "iret_ss">>
<1>1. Len(SavedRegisters) = 12 /\ SavedRegisters \in Seq(Names)
  BY DEF SavedRegisters, Names
<1>2. /\ A \in Seq(Names) /\ Len(A) = Len(SavedRegisters)
      /\ \A n \in 1 .. Len(SavedRegisters) : A[n] = SavedRegisters[(Len(SavedRegisters) - n) + 1]
  BY <1>1, ReverseFacts
<1>3. A \in Seq(Names) /\ Len(A) = 12 /\ \A n \in 1 .. 12 : A[n] = SavedRegisters[13 - n]
  BY <1>1, <1>2
<1>4. B \in Seq(Names) /\ Len(B) = 2 /\ B[1] = "vectorNumber" /\ B[2] = "errorCode"
  BY DEF Names
<1>5. /\ C \in Seq(Names) /\ Len(C) = 5 /\ C[1] = "iret_rip" /\ C[2] = "iret_cs"
      /\ C[3] = "iret_flags" /\ C[4] = "iret_rsp" /\ C[5] = "iret_ss"
  BY DEF Names
<1> DEFINE D == A \o B
<1>6. CPUStatus = D \o C
  BY DEF CPUStatus
<1> HIDE DEF A, B, C
<1>7. /\ D \in Seq(Names) /\ Len(D) = Len(A) + Len(B)
      /\ \A i \in 1 .. Len(A) + Len(B) : D[i] = IF i <= Len(A) THEN A[i] ELSE B[i - Len(A)]
  BY <1>3, <1>4, ConcatProperties
<1> HIDE DEF D
<1>8. /\ D \in Seq(Names) /\ Len(D) = 14
      /\ \A i \in 1 .. 14 : D[i] = IF i <= 12 THEN A[i] ELSE B[i - 12]
  BY <1>3, <1>4, <1>7
<1>9. /\ CPUStatus \in Seq(Names) /\ Len(CPUStatus) = Len(D) + Len(C)
      /\ \A i \in 1 .. Len(D) + Len(C) : CPUStatus[i] = IF i <= Len(D) THEN D[i] ELSE C[i - Len(D)]
  BY <1>5, <1>6, <1>8, ConcatProperties
<1>10. /\ CPUStatus \in Seq(Names) /\ Len(CPUStatus) = 19
       /\ \A i \in 1 .. 19 : CPUStatus[i] = IF i <= 14 THEN D[i] ELSE C[i - 14]
  BY <1>5, <1>8, <1>9
<1>11. ASSUME NEW n \in 1 .. 12
       PROVE  CPUStatus[n] = SavedRegisters[13 - n]
  <2>1. n \in 1 .. 19 /\ n \in 1 .. 14 /\ n <= 12 /\ n <= 14
    OBVIOUS
  <2>2. CPUStatus[n] = D[n]
    BY <1>10, <2>1
  <2>3. D[n] = A[n]
    BY <1>8, <2>1
  <2> QED BY <1>3, <2>2, <2>3
<1>12. CPUStatus[13] = B[1] /\ CPUStatus[14] = B[2]
  BY <1>8, <1>10
<1>13. /\ CPUStatus[15] = C[1] /\ CPUStatus[16] = C[2] /\ CPUStatus[17] = C[3]
       /\ CPUStatus[18] = C[4] /\ CPUStatus[19] = C[5]
  BY <1>10
<1>14. DOMAIN CPUStatus = 1 .. 19
  <2>1. DOMAIN CPUStatus = 1 .. Len(CPUStatus)
    BY <1>10, LenProperties
  <2> QED BY <1>10, <2>1
<1> QED BY <1>4, <1>5, <1>11, <1>12, <1>13, <1>14

Words == Names \X Nat
Places == {"start", "code", "handler", "save", "call", "panic", "restore", "iret"}
Entries == [vector : 0 .. 255, pc : Places, regs : [Registers -> Nat]]

\* Behind o other words: vector number, error code and the frame of the processor.
Framed(o) ==
  LET v == Head(frames).vector
  IN  /\ Len(stack) >= o + 7
      /\ stack[o + 1] = <<"vectorNumber", v>>
      /\ stack[o + 2] = <<"errorCode", IF HasErrorCode(v) THEN 1 ELSE 0>>
      /\ \A n \in 1 .. 5 : stack[o + 2 + n][1] = CPUStatus[14 + n]
      /\ stack[o + 6][2] = Len(stack) - (o + 7)

\* What the entry point finds: o is 1 if the processor has pushed an error code.
Entered ==
  LET v == Head(frames).vector
      o == IF HasErrorCode(v) THEN 1 ELSE 0
  IN  /\ Len(stack) >= o + 5
      /\ HasErrorCode(v) => stack[1] = <<"errorCode", 1>>
      /\ \A n \in 1 .. 5 : stack[o + n][1] = CPUStatus[14 + n]
      /\ stack[o + 4][2] = Len(stack) - (o + 5)

Saved ==
  \A k \in 1 .. 12 : stack[13 - k] = <<SavedRegisters[k], Head(frames).regs[SavedRegisters[k]]>>

StackInv ==
  /\ stack \in Seq(Words) /\ regs \in [Registers -> Nat] /\ frames \in Seq(Entries)
  /\ pc \in Places
  /\ pc \in {"handler", "save", "call", "restore", "iret"} => frames # <<>>
  /\ pc \in {"handler", "save", "call"} => regs = Head(frames).regs
  /\ pc = "handler" => Entered
  /\ pc = "save" => Framed(0)
  /\ pc \in {"call", "restore"} => Saved /\ Framed(12)
  /\ pc = "restore" => \A r \in Registers \ CallClobbered : regs[r] = Head(frames).regs[r]
  /\ InterruptedStateRestored

\* A word pushed on a stack, and what is below it.
LEMMA PushFacts ==
  ASSUME NEW S, NEW w \in S, NEW s \in Seq(S)
  PROVE  /\ <<w>> \o s \in Seq(S) /\ Len(<<w>> \o s) = Len(s) + 1
         /\ (<<w>> \o s)[1] = w /\ Head(<<w>> \o s) = w
         /\ \A n \in 1 .. Len(s) : (<<w>> \o s)[n + 1] = s[n]
OBVIOUS

\* The frame the processor pushes on a stack of n words.
Pushed(n) ==
  << <<"iret_rip", 0>>, <<"iret_cs", 0>>, <<"iret_flags", 0>>, <<"iret_rsp", n>>, <<"iret_ss", 0>> >>

\* Its words are the last fields of CPUStatus.
LEMMA FrameFacts ==
  ASSUME NEW n \in Nat
  PROVE  /\ Pushed(n) \in Seq(Words) /\ Len(Pushed(n)) = 5 /\ Pushed(n)[4][2] = n
         /\ \A k \in 1 .. 5 : Pushed(n)[k][1] = CPUStatus[14 + k]
<1> DEFINE F == Pushed(n)
<1>1. F \in Seq(Words) /\ Len(F) = 5
  BY DEF Pushed, Words, Names
<1>2. /\ F[1] = <<"iret_rip", 0>> /\ F[2] = <<"iret_cs", 0>> /\ F[3] = <<"iret_flags", 0>>
      /\ F[4] = <<"iret_rsp", n>> /\ F[5] = <<"iret_ss", 0>>
  BY DEF Pushed
<1> HIDE DEF F
<1>3. /\ F[1][1] = "iret_rip" /\ F[2][1] = "iret_cs" /\ F[3][1] = "iret_flags"
      /\ F[4][1] = "iret_rsp" /\ F[5][1] = "iret_ss" /\ F[4][2] = n
  BY <1>2
<1>4. ASSUME NEW k \in 1 .. 5
      PROVE  F[k][1] = CPUStatus[14 + k]
  <2>1. k = 1 \/ k = 2 \/ k = 3 \/ k = 4 \/ k = 5
    OBVIOUS
  <2>2. CASE k = 1
    BY <1>3, <2>2, StatusFacts
  <2>3. CASE k = 2
    BY <1>3, <2>3, StatusFacts
  <2>4. CASE k = 3
    BY <1>3, <2>4, StatusFacts
  <2>5. CASE k = 4
    BY <1>3, <2>5, StatusFacts
  <2>6. CASE k = 5
    BY <1>3, <2>6, StatusFacts
  <2> QED BY <2>1, <2>2, <2>3, <2>4, <2>5, <2>6
<1> QED BY <1>1, <1>3, <1>4 DEF F

\* The processor takes a vector: the frame is where the entry point expects it.
LEMMA DeliverInv ==
  ASSUME StackInv, NEW v \in 0 .. 255, Deliver(v)
  PROVE  StackInv'
<1> DEFINE x == [vector |-> v, pc |-> pc, regs |-> regs]
           E == IF HasErrorCode(v) THEN << <<"errorCode", 1>> >> ELSE <<>>
           o == IF HasErrorCode(v) THEN 1 ELSE 0
           F == Pushed(Len(stack))
<1>1. /\ frames' = <<x>> \o frames /\ stack' = (E \o F) \o stack /\ pc' = "handler"
      /\ regs' = regs
  BY DEF Deliver, Pushed
<1>2. /\ stack \in Seq(Words) /\ regs \in [Registers -> Nat] /\ frames \in Seq(Entries)
      /\ pc \in Places
  BY DEF StackInv
<1>3. x \in Entries /\ x.vector = v /\ x.regs = regs
  BY <1>2 DEF Entries
<1>4. frames' \in Seq(Entries) /\ Head(frames') = x /\ frames' # <<>>
  <2> HIDE DEF x
  <2>1. <<x>> \o frames \in Seq(Entries) /\ Head(<<x>> \o frames) = x
        /\ Len(<<x>> \o frames) = Len(frames) + 1
    BY <1>2, <1>3, PushFacts
  <2> QED BY <1>1, <2>1
<1>5. E \in Seq(Words) /\ Len(E) = o
  BY DEF Words, Names
<1>6. HasErrorCode(v) => E[1] = <<"errorCode", 1>>
  OBVIOUS
<1>7. o \in Nat /\ Len(stack) \in Nat /\ (HasErrorCode(v) => o = 1)
  BY <1>2, LenProperties
<1>8. /\ F \in Seq(Words) /\ Len(F) = 5 /\ F[4][2] = Len(stack)
      /\ \A n \in 1 .. 5 : F[n][1] = CPUStatus[14 + n]
  BY <1>7, FrameFacts
<1> HIDE DEF E, F, x, o
<1> DEFINE G == E \o F
<1>9. F \in Seq(Words) /\ Len(F) = 5
  BY <1>8
<1>10. /\ G \in Seq(Words) /\ Len(G) = o + 5
       /\ \A i \in 1 .. o : G[i] = E[i]
       /\ \A i \in o + 1 .. o + 5 : G[i] = F[i - o]
  <2>1. E \in Seq(Words) /\ F \in Seq(Words) /\ G = E \o F
    BY <1>5, <1>9
  <2> HIDE DEF G
  <2>2. /\ G \in Seq(Words) /\ Len(G) = Len(E) + Len(F)
        /\ \A i \in 1 .. Len(E) : G[i] = E[i]
        /\ \A i \in Len(E) + 1 .. Len(E) + Len(F) : G[i] = F[i - Len(E)]
    BY <2>1, JoinFacts
  <2> QED BY <1>5, <1>9, <2>2
<1> HIDE DEF G
<1> DEFINE g == o + 5
           l == Len(stack)
<1>11. stack' = G \o stack
  BY <1>1 DEF G
<1>12. /\ stack' \in Seq(Words) /\ Len(stack') = g + l
       /\ \A i \in 1 .. g : stack'[i] = G[i]
  <2>1. G \in Seq(Words)
    BY <1>10
  <2>2. /\ stack' \in Seq(Words) /\ Len(stack') = Len(G) + Len(stack)
        /\ \A i \in 1 .. Len(G) : stack'[i] = G[i]
    BY <1>2, <1>11, <2>1, JoinFacts
  <2> QED BY <1>10, <2>2
<1>13. Entered'
  <2>1. Len(stack') >= o + 5 /\ Len(stack') - (o + 5) = Len(stack)
    BY <1>7, <1>12
  <2>2. HasErrorCode(v) => stack'[1] = <<"errorCode", 1>>
    BY <1>6, <1>7, <1>10, <1>12
  <2>3. \A n \in 1 .. 5 : stack'[o + n] = F[n]
    <3>1. \A n \in 1 .. 5 : /\ o + n \in 1 .. g /\ o + n \in o + 1 .. o + 5
                            /\ (o + n) - o = n
      BY <1>7
    <3> QED BY <1>10, <1>12, <3>1
  <2>4. stack'[o + 4][2] = Len(stack') - (o + 5)
    <3>1. stack'[o + 4] = F[4]
      BY <2>3
    <3>2. F[4][2] = Len(stack)
      BY <1>8
    <3> QED BY <2>1, <3>1, <3>2
  <2>5. Head(frames').vector = v
    BY <1>3, <1>4
  <2>6. \A n \in 1 .. 5 : stack'[o + n][1] = CPUStatus[14 + n]
    BY <1>8, <2>3
  <2> QED BY <2>1, <2>2, <2>4, <2>5, <2>6 DEF Entered, HasErrorCode, o
<1>14. stack' \in Seq(Words)
  BY <1>12
<1> QED BY <1>1, <1>2, <1>3, <1>4, <1>13, <1>14
        DEF StackInv, Places, InterruptedStateRestored

\* The entry point of a vector: the stack holds the number, the error code and
\* the frame, whoever has pushed the code.
LEMMA HandlerInv ==
  ASSUME StackInv, vector_handler
  PROVE  StackInv'
<1> DEFINE v == Head(frames).vector
           w == <<"vectorNumber", v>>
           U == <<w>> \o (IF v \in NoDummy THEN <<>> ELSE << <<"errorCode", 0>> >>)
<1>1. /\ pc = "handler" /\ pc' = "save" /\ stack' = U \o stack
      /\ regs' = regs /\ frames' = frames
  BY DEF vector_handler
<1>2. /\ stack \in Seq(Words) /\ regs \in [Registers -> Nat] /\ frames \in Seq(Entries)
      /\ frames # <<>> /\ Entered /\ regs = Head(frames).regs
  BY <1>1 DEF StackInv
<1>3. v \in 0 .. 255
  <2>1. Head(frames) \in Entries
    BY <1>2
  <2> QED BY <2>1 DEF Entries
<1>4. w \in Words /\ <<"errorCode", 0>> \in Words
  BY <1>3 DEF Words, Names
<1>5. Len(stack) \in Nat
  BY <1>2, LenProperties
<1> HIDE DEF v, w
<1>6. stack' \in Seq(Words) /\ Framed(0)'
  <2>1. CASE HasErrorCode(v)
    <3>1. U = <<w>> \o <<>>
      BY <2>1 DEF HasErrorCode, NoDummy
    <3>2. U \in Seq(Words) /\ Len(U) = 1 /\ U[1] = w
      BY <1>4, <3>1
    <3> HIDE DEF U
    <3>3. /\ stack' \in Seq(Words) /\ Len(stack') = Len(U) + Len(stack)
          /\ \A i \in 1 .. Len(U) : stack'[i] = U[i]
          /\ \A i \in Len(U) + 1 .. Len(U) + Len(stack) : stack'[i] = stack[i - Len(U)]
      <4>1. U \in Seq(Words) /\ stack \in Seq(Words) /\ stack' = U \o stack
        BY <1>1, <1>2, <3>2
      <4> QED BY <4>1, JoinFacts
    <3>4. /\ Len(stack') = Len(stack) + 1 /\ stack'[1] = w
          /\ \A i \in 2 .. Len(stack) + 1 : stack'[i] = stack[i - 1]
      BY <1>5, <3>2, <3>3
    <3>5. /\ Len(stack) >= 6 /\ stack[1] = <<"errorCode", 1>>
          /\ \A n \in 1 .. 5 : stack[1 + n][1] = CPUStatus[14 + n]
          /\ stack[5][2] = Len(stack) - 6
      BY <1>2, <2>1 DEF Entered, v
    <3>6. stack'[2] = stack[1] /\ stack'[6] = stack[5] /\ Len(stack') >= 7
          /\ Len(stack') - 7 = Len(stack) - 6
      <4>1. Len(stack) \in Nat /\ Len(stack) >= 6
        BY <1>2, <3>5
      <4>2. /\ 2 \in 2 .. Len(stack) + 1 /\ 2 - 1 = 1
            /\ 6 \in 2 .. Len(stack) + 1 /\ 6 - 1 = 5
        BY <4>1
      <4>3. stack'[2] = stack[1] /\ stack'[6] = stack[5]
        BY <3>4, <4>2
      <4> QED BY <4>1, <4>3, <3>4
    <3>7. \A n \in 1 .. 5 : stack'[2 + n] = stack[1 + n]
      <4>1. \A n \in 1 .. 5 : 2 + n \in 2 .. Len(stack) + 1 /\ (2 + n) - 1 = 1 + n
        BY <1>5, <3>5
      <4> QED BY <3>4, <4>1
    <3>8. \A n \in 1 .. 5 : stack'[2 + n][1] = CPUStatus[14 + n]
      BY <3>5, <3>7
    <3>9. Framed(0)'
      <4>1. Head(frames').vector = v /\ HasErrorCode(v)' = HasErrorCode(v)
        BY <1>1 DEF v, HasErrorCode
      <4>2. /\ 0 + 7 = 7 /\ 0 + 1 = 1 /\ 0 + 2 = 2 /\ 0 + 6 = 6
            /\ \A n \in 1 .. 5 : 0 + 2 + n = 2 + n
        OBVIOUS
      <4>3. Len(stack') >= 0 + 7 /\ stack'[0 + 1] = w
        BY <3>4, <3>6, <4>2
      <4>4. stack'[0 + 2] = <<"errorCode", 1>> /\ stack'[0 + 6][2] = Len(stack') - (0 + 7)
        BY <3>4, <3>5, <3>6, <4>2
      <4>5. \A n \in 1 .. 5 : stack'[0 + 2 + n][1] = CPUStatus[14 + n]
        BY <3>8, <4>2
      <4> QED BY <2>1, <4>1, <4>3, <4>4, <4>5 DEF Framed, HasErrorCode, w
    <3> QED BY <3>3, <3>9
  <2>2. CASE ~HasErrorCode(v)
    <3>1. U = <<w>> \o << <<"errorCode", 0>> >>
      BY <2>2 DEF HasErrorCode, NoDummy
    <3>2. U \in Seq(Words) /\ Len(U) = 2 /\ U[1] = w /\ U[2] = <<"errorCode", 0>>
      BY <1>4, <3>1
    <3> HIDE DEF U
    <3>3. /\ stack' \in Seq(Words) /\ Len(stack') = Len(U) + Len(stack)
          /\ \A i \in 1 .. Len(U) : stack'[i] = U[i]
          /\ \A i \in Len(U) + 1 .. Len(U) + Len(stack) : stack'[i] = stack[i - Len(U)]
      <4>1. U \in Seq(Words) /\ stack \in Seq(Words) /\ stack' = U \o stack
        BY <1>1, <1>2, <3>2
      <4> QED BY <4>1, JoinFacts
    <3>4. /\ Len(stack') = Len(stack) + 2 /\ stack'[1] = w /\ stack'[2] = <<"errorCode", 0>>
          /\ \A i \in 3 .. Len(stack) + 2 : stack'[i] = stack[i - 2]
      BY <1>5, <3>2, <3>3
    <3>5. /\ Len(stack) >= 5
          /\ \A n \in 1 .. 5 : stack[n][1] = CPUStatus[14 + n]
          /\ stack[4][2] = Len(stack) - 5
      BY <1>2, <2>2 DEF Entered, v
    <3>6. stack'[6] = stack[4] /\ Len(stack') >= 7 /\ Len(stack') - 7 = Len(stack) - 5
      BY <1>5, <3>4, <3>5
    <3>7. \A n \in 1 .. 5 : stack'[2 + n] = stack[n]
      <4>1. \A n \in 1 .. 5 : 2 + n \in 3 .. Len(stack) + 2 /\ (2 + n) - 2 = n
        BY <1>5, <3>5
      <4> QED BY <3>4, <4>1
    <3>8. \A n \in 1 .. 5 : stack'[2 + n][1] = CPUStatus[14 + n]
      BY <3>5, <3>7
    <3>9. Framed(0)'
      <4>1. Head(frames').vector = v /\ HasErrorCode(v)' = HasErrorCode(v)
        BY <1>1 DEF v, HasErrorCode
      <4>2. /\ 0 + 7 = 7 /\ 0 + 1 = 1 /\ 0 + 2 = 2 /\ 0 + 6 = 6
            /\ \A n \in 1 .. 5 : 0 + 2 + n = 2 + n
        OBVIOUS
      <4>3. Len(stack') >= 0 + 7 /\ stack'[0 + 1] = w
        BY <3>4, <3>6, <4>2
      <4>4. stack'[0 + 2] = <<"errorCode", 0>> /\ stack'[0 + 6][2] = Len(stack') - (0 + 7)
        BY <3>4, <3>5, <3>6, <4>2
      <4>5. \A n \in 1 .. 5 : stack'[0 + 2 + n][1] = CPUStatus[14 + n]
        BY <3>8, <4>2
      <4> QED BY <2>2, <4>1, <4>3, <4>4, <4>5 DEF Framed, HasErrorCode, w
    <3> QED BY <3>3, <3>9
  <2> QED BY <2>1, <2>2
<1> QED BY <1>1, <1>2, <1>6 DEF StackInv, Places, InterruptedStateRestored

\* The pushes of the stub: every saved register is where CPUStatus has it.
LEMMA SaveInv ==
  ASSUME StackInv, Save
  PROVE  StackInv'
<1> DEFINE W == [k \in DOMAIN SavedRegisters |-> <<SavedRegisters[k], regs[SavedRegisters[k]]>>]
           U == Reverse(W)
<1>1. /\ pc = "save" /\ pc' = "call" /\ stack' = U \o stack
      /\ regs' = regs /\ frames' = frames
  BY DEF Save
<1>2. /\ stack \in Seq(Words) /\ regs \in [Registers -> Nat] /\ frames \in Seq(Entries)
      /\ frames # <<>> /\ Framed(0) /\ regs = Head(frames).regs
  BY <1>1 DEF StackInv
<1>3. W \in Seq(Words) /\ Len(W) = 12
  <2>1. \A k \in 1 .. 12 : <<SavedRegisters[k], regs[SavedRegisters[k]]>> \in Words
    <3>1. \A k \in 1 .. 12 : SavedRegisters[k] \in Names
      BY DEF SavedRegisters, Names
    <3> QED BY <1>2, <3>1, SavedFacts DEF Words
  <2> DEFINE m == 12
  <2>2. W \in [1 .. m -> Words] /\ m \in Nat
    BY <2>1, SavedFacts
  <2> HIDE DEF m, W
  <2>3. W \in Seq(Words) /\ Len(W) = m
    BY <2>2
  <2> QED BY <2>3 DEF m
<1>4. \A k \in 1 .. 12 : W[k] = <<SavedRegisters[k], Head(frames).regs[SavedRegisters[k]]>>
  BY <1>2, SavedFacts
<1> HIDE DEF W
<1>5. /\ U \in Seq(Words) /\ Len(U) = Len(W)
      /\ \A n \in 1 .. Len(W) : U[n] = W[(Len(W) - n) + 1]
  BY <1>3, ReverseFacts
<1> HIDE DEF U
<1>6. /\ stack' \in Seq(Words) /\ Len(stack') = Len(U) + Len(stack)
      /\ \A i \in 1 .. Len(U) : stack'[i] = U[i]
      /\ \A i \in Len(U) + 1 .. Len(U) + Len(stack) : stack'[i] = stack[i - Len(U)]
  <2>1. U \in Seq(Words) /\ stack \in Seq(Words) /\ stack' = U \o stack
    BY <1>1, <1>2, <1>5
  <2> QED BY <2>1, JoinFacts
<1>7. Len(stack) \in Nat
  BY <1>2, LenProperties
<1>8. /\ Len(stack') = Len(stack) + 12
      /\ \A i \in 1 .. 12 : stack'[i] = W[13 - i]
      /\ \A i \in 13 .. Len(stack) + 12 : stack'[i] = stack[i - 12]
  <2>1. Len(U) = 12 /\ \A n \in 1 .. 12 : U[n] = W[13 - n]
    BY <1>3, <1>5
  <2> QED BY <1>6, <1>7, <2>1
<1>9. Saved'
  <2>1. ASSUME NEW k \in 1 .. 12
        PROVE  stack'[13 - k] = <<SavedRegisters[k], Head(frames').regs[SavedRegisters[k]]>>
    <3>1. 13 - k \in 1 .. 12 /\ 13 - (13 - k) = k
      OBVIOUS
    <3> QED BY <1>1, <1>4, <1>8, <3>1
  <2> QED BY <2>1 DEF Saved
<1>10. Framed(12)'
  <2> DEFINE v == Head(frames).vector
  <2>1. /\ Len(stack) >= 7 /\ stack[1] = <<"vectorNumber", v>>
        /\ stack[2] = <<"errorCode", IF HasErrorCode(v) THEN 1 ELSE 0>>
        /\ \A n \in 1 .. 5 : stack[2 + n][1] = CPUStatus[14 + n]
        /\ stack[6][2] = Len(stack) - 7
    BY <1>2 DEF Framed
  <2>2. Head(frames').vector = v
    BY <1>1
  <2>3. /\ Len(stack') >= 19 /\ stack'[13] = stack[1] /\ stack'[14] = stack[2]
        /\ stack'[18] = stack[6] /\ Len(stack') - 19 = Len(stack) - 7
    <3>1. Len(stack) >= 7
      BY <2>1
    <3>2. /\ 13 \in 13 .. Len(stack) + 12 /\ 14 \in 13 .. Len(stack) + 12
          /\ 18 \in 13 .. Len(stack) + 12 /\ 13 - 12 = 1 /\ 14 - 12 = 2 /\ 18 - 12 = 6
      BY <1>7, <3>1
    <3>3. stack'[13] = stack[1] /\ stack'[14] = stack[2] /\ stack'[18] = stack[6]
      BY <1>8, <3>2
    <3>4. Len(stack') >= 19 /\ Len(stack') - 19 = Len(stack) - 7
      BY <1>7, <1>8, <3>1
    <3> QED BY <3>3, <3>4
  <2>4. \A n \in 1 .. 5 : stack'[14 + n] = stack[2 + n]
    <3>1. \A n \in 1 .. 5 : 14 + n \in 13 .. Len(stack) + 12 /\ (14 + n) - 12 = 2 + n
      BY <1>7, <2>1
    <3> QED BY <1>8, <3>1
  <2> HIDE DEF v
  <2>5. /\ 12 + 7 = 19 /\ 12 + 1 = 13 /\ 12 + 2 = 14 /\ 12 + 6 = 18
        /\ \A n \in 1 .. 5 : 12 + 2 + n = 14 + n
    OBVIOUS
  <2>6. Len(stack') >= 12 + 7 /\ stack'[12 + 1] = <<"vectorNumber", v>>
    BY <2>1, <2>3, <2>5
  <2>7. /\ stack'[12 + 2] = <<"errorCode", IF HasErrorCode(v) THEN 1 ELSE 0>>
        /\ stack'[12 + 6][2] = Len(stack') - (12 + 7)
    <3>1. stack'[14] = <<"errorCode", IF HasErrorCode(v) THEN 1 ELSE 0>>
      BY <2>1, <2>3
    <3>2. stack'[18][2] = Len(stack') - 19
      BY <2>1, <2>3
    <3> QED BY <2>5, <3>1, <3>2
  <2>8. \A n \in 1 .. 5 : stack'[12 + 2 + n][1] = CPUStatus[14 + n]
    BY <2>1, <2>4, <2>5
  <2> QED BY <2>2, <2>6, <2>7, <2>8 DEF Framed, HasErrorCode
<1> QED BY <1>1, <1>2, <1>6, <1>9, <1>10 DEF StackInv, Places, InterruptedStateRestored

\* The dispatcher leaves stack and frame alone.
LEMMA DispatchInv ==
  ASSUME StackInv, interruptDispatch
  PROVE  StackInv'
<1>1. pc = "call" /\ stack' = stack /\ frames' = frames
  BY DEF interruptDispatch
<1>2. /\ stack \in Seq(Words) /\ regs \in [Registers -> Nat] /\ frames \in Seq(Entries)
      /\ frames # <<>> /\ Saved /\ Framed(12) /\ regs = Head(frames).regs
  BY <1>1 DEF StackInv
<1>3. Saved' /\ Framed(12)'
  BY <1>1, <1>2 DEF Saved, Framed
<1>4. CASE pc' = "panic" /\ regs' = regs
  BY <1>1, <1>2, <1>4 DEF StackInv, Places, InterruptedStateRestored
<1>5. CASE /\ pc' = "restore"
           /\ regs' = [r \in Registers |-> IF r \in CallClobbered THEN Len(frames) ELSE regs[r]]
  <2>1. Len(frames) \in Nat
    BY <1>2, LenProperties
  <2>2. regs' \in [Registers -> Nat]
    BY <1>2, <1>5, <2>1
  <2>3. \A r \in Registers \ CallClobbered : regs'[r] = Head(frames').regs[r]
    BY <1>1, <1>2, <1>5
  <2> QED BY <1>1, <1>2, <1>3, <1>5, <2>2, <2>3 DEF StackInv, Places, InterruptedStateRestored
<1> QED BY <1>4, <1>5 DEF interruptDispatch

\* The pops take every saved register from where it was pushed, and leave the
\* frame of the processor on top.
LEMMA RestoreInv ==
  ASSUME StackInv, Restore
  PROVE  StackInv'
<1> DEFINE e == Head(frames)
           l == Len(stack)
<1>1. /\ pc = "restore" /\ pc' = "iret" /\ stack' = SubSeq(stack, 15, l) /\ frames' = frames
      /\ regs' = [r \in Registers |->
                    IF \E k \in DOMAIN SavedRegisters : SavedRegisters[k] = r
                    THEN stack[13 - CHOOSE k \in DOMAIN SavedRegisters : SavedRegisters[k] = r][2]
                    ELSE regs[r]]
  BY DEF Restore, Popped
<1>2. /\ stack \in Seq(Words) /\ regs \in [Registers -> Nat] /\ frames \in Seq(Entries)
      /\ frames # <<>> /\ Saved /\ Framed(12)
      /\ \A r \in Registers \ CallClobbered : regs[r] = e.regs[r]
  BY <1>1 DEF StackInv
<1>3. e.regs \in [Registers -> Nat]
  <2>1. e \in Entries
    BY <1>2
  <2> QED BY <2>1 DEF Entries
<1>4. l \in Nat /\ \A i \in 1 .. l : stack[i] \in Words
  BY <1>2
<1>5. /\ l >= 19 /\ stack[18][2] = l - 19
      /\ \A n \in 1 .. 5 : stack[14 + n][1] = CPUStatus[14 + n]
  <2>1. /\ l >= 12 + 7 /\ stack[12 + 6][2] = l - (12 + 7)
        /\ \A n \in 1 .. 5 : stack[12 + 2 + n][1] = CPUStatus[14 + n]
    BY <1>2 DEF Framed
  <2>2. 12 + 7 = 19 /\ 12 + 6 = 18 /\ \A n \in 1 .. 5 : 12 + 2 + n = 14 + n
    OBVIOUS
  <2> QED BY <2>1, <2>2
<1> HIDE DEF e, l
<1>6. /\ stack' \in Seq(Words) /\ Len(stack') = l - 14
      /\ \A i \in 1 .. l - 14 : stack'[i] = stack[14 + i]
  <2> DEFINE m == 15
  <2>1. m \in Int /\ l \in Int /\ \A i \in m .. l : stack[i] \in Words
    BY <1>4
  <2>2. stack' = SubSeq(stack, m, l)
    BY <1>1
  <2> HIDE DEF m
  <2>3. /\ stack' \in Seq(Words) /\ Len(stack') = IF m <= l THEN l - m + 1 ELSE 0
        /\ \A i \in 1 .. l - m + 1 : stack'[i] = stack[m + i - 1]
    BY <2>1, <2>2, SubSeqProperties
  <2>4. m <= l /\ l - m + 1 = l - 14 /\ \A i \in 1 .. l - 14 : m + i - 1 = 14 + i
    BY <1>4, <1>5 DEF m
  <2> QED BY <2>3, <2>4
<1>7. ASSUME NEW k \in 1 .. 12, NEW r \in Registers, SavedRegisters[k] = r
      PROVE  regs'[r] = e.regs[r]
  <2>1. (CHOOSE j \in DOMAIN SavedRegisters : SavedRegisters[j] = r) = k
    BY <1>7, SavedFacts
  <2>2. regs'[r] = stack[13 - k][2]
    BY <1>1, <1>7, <2>1, SavedFacts
  <2>3. stack[13 - k] = <<r, e.regs[r]>>
    BY <1>2, <1>7 DEF Saved, e
  <2> QED BY <2>2, <2>3
<1>8. \A r \in {"rdi", "rsi", "rbp"} : r \in Registers /\ regs'[r] = regs[r]
  <2>1. \A r \in {"rdi", "rsi", "rbp"} :
          r \in Registers /\ ~\E k \in DOMAIN SavedRegisters : SavedRegisters[k] = r
    BY SavedFacts DEF Registers
  <2> QED BY <1>1, <2>1
<1>9. "rbp" \in Registers \ CallClobbered
  BY <1>8 DEF CallClobbered
<1>10. \A r \in Registers \ {"rdi", "rsi"} : regs'[r] = e.regs[r]
  <2>1. \A r \in Registers \ {"rdi", "rsi", "rbp"} : regs'[r] = e.regs[r]
    BY <1>7, SavedFacts
  <2>2. regs'["rbp"] = e.regs["rbp"]
    BY <1>2, <1>8, <1>9
  <2> QED BY <2>1, <2>2
<1>11. regs' \in [Registers -> Nat]
  <2>1. \A r \in Registers : regs'[r] \in Nat
    BY <1>2, <1>3, <1>8, <1>10
  <2>2. DOMAIN regs' = Registers /\ regs' = [r \in DOMAIN regs' |-> regs'[r]]
    BY <1>1
  <2> QED BY <2>1, <2>2
<1>12. InterruptedStateRestored'
  <2>1. \A n \in 1 .. 5 : n \in 1 .. l - 14
    BY <1>4, <1>5
  <2>2. \A n \in 1 .. 5 : stack'[n][1] = CPUStatus[14 + n]
    BY <1>5, <1>6, <2>1
  <2>3. stack'[4] = stack[18] /\ Len(stack') - 5 = l - 19
    BY <1>4, <1>6, <2>1
  <2>4. stack'[4][2] = Len(stack') - 5
    BY <1>5, <2>3
  <2> QED BY <1>1, <1>10, <2>2, <2>4 DEF InterruptedStateRestored, e
<1> QED BY <1>1, <1>2, <1>6, <1>11, <1>12 DEF StackInv, Places

\* The type of the stack and what every step of the stub finds on it.
LEMMA StackInvariant == InterruptsSpec => []StackInv
<1>1. InterruptsInit => StackInv
  <2> SUFFICES ASSUME InterruptsInit
               PROVE  StackInv
    OBVIOUS
  <2>1. /\ pc = "start" /\ stack = <<>> /\ frames = <<>>
        /\ regs = [r \in Registers |-> 0]
    BY DEF InterruptsInit
  <2> QED BY <2>1 DEF StackInv, Places, InterruptedStateRestored
<1>2. StackInv /\ [InterruptsNext]_interruptVars => StackInv'
  <2> SUFFICES ASSUME StackInv, [InterruptsNext]_interruptVars
               PROVE  StackInv'
    OBVIOUS
  <2>1. CASE initInts
    <3>1. pc' = "code" /\ stack' = stack /\ frames' = frames /\ regs' = regs
      BY <2>1 DEF initInts
    <3> QED BY <3>1 DEF StackInv, Places, InterruptedStateRestored
  <2>2. ASSUME NEW v \in Vectors, Interrupt(v)
        PROVE  StackInv'
    <3>1. v \in 0 .. 255 /\ Deliver(v)
      BY <2>2, InterruptsAssumption DEF Interrupt
    <3> QED BY <3>1, DeliverInv
  <2>3. CASE iret
    <3>1. GeneralProtectionFault \in 0 .. 255 /\ Deliver(GeneralProtectionFault)
      BY <2>3 DEF iret, GeneralProtectionFault
    <3> QED BY <3>1, DeliverInv
  <2>4. CASE UNCHANGED interruptVars
    <3>1. pc' = pc /\ stack' = stack /\ frames' = frames /\ regs' = regs
      BY <2>4 DEF interruptVars
    <3> QED BY <3>1 DEF StackInv, InterruptedStateRestored, Saved, Framed, Entered
  <2> QED BY <2>1, <2>2, <2>3, <2>4, HandlerInv, SaveInv, DispatchInv, RestoreInv
          DEF InterruptsNext
<1> QED BY <1>1, <1>2, PTL DEF InterruptsSpec

\* At the call of interruptDispatch the stack is a CPUStatus, for every set of
\* vectors and every depth of interrupts inside each other.
THEOREM InterruptFrame == InterruptsSpec => []FrameIsCPUStatus
<1>1. StackInv => FrameIsCPUStatus
  <2> SUFFICES ASSUME StackInv, pc = "call", NEW n \in DOMAIN CPUStatus
               PROVE  /\ stack[n][1] = CPUStatus[n]
                      /\ n <= 12 => stack[n][2] = Head(frames).regs[CPUStatus[n]]
                      /\ n = 13 => stack[n][2] = Head(frames).vector
                      /\ n = 14 => stack[n][2] = IF HasErrorCode(Head(frames).vector) THEN 1 ELSE 0
    BY DEF FrameIsCPUStatus
  <2> DEFINE v == Head(frames).vector
  <2>1. n \in 1 .. 19
    BY StatusFacts
  <2>2. Saved /\ Framed(12)
    BY DEF StackInv
  <2>3. CASE n <= 12
    <3>1. 13 - n \in 1 .. 12 /\ 13 - (13 - n) = n /\ n \in 1 .. 12
      BY <2>1, <2>3
    <3>2. CPUStatus[n] = SavedRegisters[13 - n]
      BY <3>1, StatusFacts
    <3>3. stack[n] = <<CPUStatus[n], Head(frames).regs[CPUStatus[n]]>>
      BY <2>2, <3>1, <3>2 DEF Saved
    <3> QED BY <2>3, <3>1, <3>3
  <2>4. /\ stack[13] = <<"vectorNumber", v>>
        /\ stack[14] = <<"errorCode", IF HasErrorCode(v) THEN 1 ELSE 0>>
        /\ \A k \in 1 .. 5 : stack[14 + k][1] = CPUStatus[14 + k]
    <3>1. /\ stack[12 + 1] = <<"vectorNumber", v>>
          /\ stack[12 + 2] = <<"errorCode", IF HasErrorCode(v) THEN 1 ELSE 0>>
          /\ \A k \in 1 .. 5 : stack[12 + 2 + k][1] = CPUStatus[14 + k]
      BY <2>2 DEF Framed
    <3>2. 12 + 1 = 13 /\ 12 + 2 = 14 /\ \A k \in 1 .. 5 : 12 + 2 + k = 14 + k
      OBVIOUS
    <3> QED BY <3>1, <3>2
  <2>5. CASE n = 13
    BY <2>4, <2>5, StatusFacts
  <2>6. CASE n = 14
    BY <2>4, <2>6, StatusFacts
  <2>7. CASE n > 14
    <3>1. n - 14 \in 1 .. 5 /\ 14 + (n - 14) = n
      BY <2>1, <2>7
    <3> QED BY <2>4, <2>7, <3>1
  <2>8. n <= 12 \/ n = 13 \/ n = 14 \/ n > 14
    BY <2>1
  <2> QED BY <2>8, <2>3, <2>5, <2>6, <2>7
<1> QED BY <1>1, StackInvariant, PTL

\* At the iret the registers and the stack are those of the interrupted code,
\* rdi and rsi apart.
THEOREM InterruptRestored == InterruptsSpec => []InterruptedStateRestored
<1>1. StackInv => InterruptedStateRestored
  BY DEF StackInv
<1> QED BY <1>1, StackInvariant, PTL
==============================================================================
