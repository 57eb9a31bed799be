------------------------------- MODULE HeapUse --------------------------------
(***************************************************************************)
(* Lemmas about what the heap is used for: which segments are in use, that *)
(* free neighbours get merged, what the walks of malloc and getUsedMem     *)
(* compute, and what each change of the chain does to all this.            *)
(***************************************************************************)
EXTENDS HeapChain

-----------------------------------------------------------------------------
(* The memory in use: the walk of getUsedMem.                              *)

\* getUsedMem of the chain g.
UsedMem(g) ==
  LET walk[a \in DOMAIN g] ==
        (IF g[a].free THEN 0 ELSE g[a].length + HdrSize)
        + (IF g[a].next = NULL THEN 0 ELSE walk[g[a].next])
  IN  IF g = <<>> THEN 0 ELSE walk[heapStart]

Cost(g, a) == IF g[a].free THEN 0 ELSE g[a].length + HdrSize

\* f[b] is the memory in use from segment b on, for the segments b from a on.
SumsFrom(g, f, a) ==
  /\ f \in [{b \in DOMAIN g : b >= a} -> Nat]
  /\ \A b \in DOMAIN g :
       b >= a => f[b] = Cost(g, b) + (IF g[b].next = NULL THEN 0 ELSE f[g[b].next])

IsSum(g, f) ==
  /\ f \in [DOMAIN g -> Nat]
  /\ \A b \in DOMAIN g :
       f[b] = Cost(g, b) + (IF g[b].next = NULL THEN 0 ELSE f[g[b].next])

\* The cost of a segment is a number.
LEMMA CostNat ==
  ASSUME NEW g, NEW L, NEW e, Chain(g, L, e), NEW a \in DOMAIN g
  PROVE  Cost(g, a) \in Nat
BY ChainFacts, HeapAssumption DEF Cost

\* There is a function that getUsedMem computes: the walk ends.
LEMMA SumExists ==
  ASSUME NEW g, NEW L, NEW e, Chain(g, L, e)
  PROVE  \E f : IsSum(g, f)
<1> DEFINE S == {a \in DOMAIN g : \E f : SumsFrom(g, f, a)}
<1>1. DOMAIN g \in SUBSET Nat /\ heapStart \in DOMAIN g
  BY DEF Chain
<1>2. \A a \in DOMAIN g : g[a].next = NULL \/ g[a].next \in S => a \in S
  <2> SUFFICES ASSUME NEW a \in DOMAIN g, g[a].next = NULL \/ g[a].next \in S
               PROVE  \E f : SumsFrom(g, f, a)
    OBVIOUS
  <2> DEFINE n == g[a].next
  <2>1. \A b \in DOMAIN g : b > a => n # NULL /\ n <= b
    BY NextIsNearest
  <2>2. Cost(g, a) \in Nat
    BY CostNat
  <2>3. CASE n = NULL
    <3> DEFINE f == [b \in {b \in DOMAIN g : b >= a} |-> Cost(g, a)]
    <3>1. \A b \in DOMAIN g : b >= a => b = a
      BY <2>1, <2>3, <1>1
    <3>2. SumsFrom(g, f, a)
      BY <3>1, <2>2, <2>3, <1>1 DEF SumsFrom
    <3> QED BY <3>2
  <2>4. CASE n # NULL
    <3>1. n \in DOMAIN g /\ n > a
      BY <2>4, ChainFacts
    <3>2. PICK f1 : SumsFrom(g, f1, n)
      BY <2>4
    <3> DEFINE f == [b \in {b \in DOMAIN g : b >= a} |->
                       IF b = a THEN Cost(g, a) + f1[n] ELSE f1[b]]
    <3>3. \A b \in DOMAIN g : b >= a => b = a \/ b >= n
      BY <2>1, <1>1
    <3>4. \A b \in DOMAIN g : b >= n => f1[b] \in Nat
      BY <3>2 DEF SumsFrom
    <3>5. f1[n] \in Nat
      BY <3>1, <3>4, <1>1
    <3>6. f \in [{b \in DOMAIN g : b >= a} -> Nat]
      BY <3>3, <3>4, <3>5, <2>2
    <3>7. ASSUME NEW b \in DOMAIN g, b >= a
          PROVE  f[b] = Cost(g, b) + (IF g[b].next = NULL THEN 0 ELSE f[g[b].next])
      <4>1. CASE b = a
        BY <4>1, <3>1, <2>4, <1>1
      <4>2. CASE b # a
        <5>1. b >= n /\ f[b] = f1[b]
          BY <4>2, <3>3, <3>7
        <5>2. f1[b] = Cost(g, b) + (IF g[b].next = NULL THEN 0 ELSE f1[g[b].next])
          BY <5>1, <3>2 DEF SumsFrom
        <5>3. g[b].next # NULL => g[b].next \in DOMAIN g /\ g[b].next > b
          BY ChainFacts
        <5>4. g[b].next # NULL => f[g[b].next] = f1[g[b].next]
          BY <5>3, <3>7, <1>1
        <5> HIDE DEF f
        <5> QED BY <5>1, <5>2, <5>4
      <4> QED BY <4>1, <4>2
    <3> HIDE DEF f
    <3>8. SumsFrom(g, f, a)
      BY <3>6, <3>7 DEF SumsFrom
    <3> QED BY <3>8
  <2> QED BY <2>3, <2>4
<1> HIDE DEF S
<1>3. heapStart \in S
  BY <1>1, <1>2, ChainInduct
<1>4. PICK f : SumsFrom(g, f, heapStart)
  BY <1>3 DEF S
<1>5. \A b \in DOMAIN g : b >= heapStart
  BY HeapStartLeast, <1>1
<1>6. {b \in DOMAIN g : b >= heapStart} = DOMAIN g
  BY <1>5
<1>7. IsSum(g, f)
  BY <1>4, <1>5, <1>6 DEF SumsFrom, IsSum
<1> QED BY <1>7

\* getUsedMem computes it.
LEMMA UsedMemSum ==
  ASSUME NEW g, NEW L, NEW e, Chain(g, L, e)
  PROVE  \E f : IsSum(g, f) /\ UsedMem(g) = f[heapStart]
<1> DEFINE Body(f) == [a \in DOMAIN g |->
                         (IF g[a].free THEN 0 ELSE g[a].length + HdrSize)
                         + (IF g[a].next = NULL THEN 0 ELSE f[g[a].next])]
<1>1. g # <<>> /\ heapStart \in DOMAIN g
  BY DEF Chain
<1>2. PICK f0 : IsSum(g, f0)
  BY SumExists
<1>3. f0 = Body(f0)
  BY <1>2 DEF IsSum, Cost
<1>4. PICK w : w = Body(w) /\ UsedMem(g) = w[heapStart]
  BY <1>1, <1>3 DEF UsedMem
<1> DEFINE S == {a \in DOMAIN g : w[a] \in Nat}
<1>5. \A a \in DOMAIN g :
        w[a] = Cost(g, a) + (IF g[a].next = NULL THEN 0 ELSE w[g[a].next])
  BY <1>4 DEF Cost
<1>6. \A a \in DOMAIN g : g[a].next = NULL \/ g[a].next \in S => a \in S
  BY <1>5, CostNat
<1> HIDE DEF S
<1>7. \A a \in DOMAIN g : a \in S
  BY <1>6, ChainInduct
<1>8. w \in [DOMAIN g -> Nat]
  BY <1>4, <1>7 DEF S
<1> QED BY <1>4, <1>5, <1>8 DEF IsSum

\* Joining two free segments does not change the memory in use.
LEMMA JoinUsedMem ==
  ASSUME NEW g, NEW L, NEW e, Chain(g, L, e), NEW s \in DOMAIN g,
         g[s].next # NULL, g[s].free, g[g[s].next].free,
         NEW g2, NEW L2, IsJoin(g, L, s, g2, L2)
  PROVE  UsedMem(g2) = UsedMem(g)
<1> DEFINE n == g[s].next
           m == g[n].next
<1>1. Chain(g2, L2, e)
  BY JoinChain
<1>2. n \in DOMAIN g /\ g[n].last = s /\ n # s
  BY ChainFacts
<1>3. /\ DOMAIN g2 = DOMAIN g \ {n}
      /\ g2[s].next = m /\ g2[s].free
  BY DEF IsJoin
<1>4. ASSUME NEW a \in DOMAIN g \ {n, s}
      PROVE  /\ g2[a].next = g[a].next /\ Cost(g2, a) = Cost(g, a)
             /\ g[a].next # n
  <2>1. g2[a] = g[a] \/ g2[a] = [length |-> g[a].length, next |-> g[a].next,
                                 last |-> s, free |-> g[a].free]
    BY DEF IsJoin
  <2>2. g2[a].length = g[a].length /\ g2[a].next = g[a].next /\ g2[a].free = g[a].free
    BY <2>1
  <2>3. g[a].next # NULL => g[g[a].next].last = a
    BY ChainFacts
  <2> QED BY <2>2, <2>3, <1>2 DEF Cost
<1>5. PICK f : IsSum(g, f) /\ UsedMem(g) = f[heapStart]
  BY UsedMemSum
<1>6. PICK f2 : IsSum(g2, f2) /\ UsedMem(g2) = f2[heapStart]
  BY <1>1, UsedMemSum
<1> DEFINE S == {a \in DOMAIN g2 : f2[a] = f[a]}
<1>7. \A a \in DOMAIN g2 : g2[a].next = NULL \/ g2[a].next \in S => a \in S
  <2> SUFFICES ASSUME NEW a \in DOMAIN g2, g2[a].next = NULL \/ g2[a].next \in S
               PROVE  f2[a] = f[a]
    OBVIOUS
  <2>1. /\ f2[a] = Cost(g2, a) + (IF g2[a].next = NULL THEN 0 ELSE f2[g2[a].next])
        /\ f[a] = Cost(g, a) + (IF g[a].next = NULL THEN 0 ELSE f[g[a].next])
    BY <1>3, <1>5, <1>6 DEF IsSum
  <2>2. CASE a = s
    <3>1. f[n] = Cost(g, n) + (IF m = NULL THEN 0 ELSE f[m])
      BY <1>2, <1>5 DEF IsSum
    <3>2. Cost(g, n) = 0 /\ Cost(g, s) = 0 /\ Cost(g2, s) = 0
      BY <1>3 DEF Cost
    <3>3. f[n] \in Nat /\ (m # NULL => f2[m] = f[m])
      BY <2>2, <1>2, <1>3, <1>5 DEF IsSum
    <3>4. f[s] = f[n]
      BY <2>1, <2>2, <3>2, <3>3
    <3>5. f2[s] = IF m = NULL THEN 0 ELSE f[m]
      <4>1. m # NULL => f[m] \in Nat
        BY <1>2, <1>5, ChainFacts DEF IsSum
      <4> QED BY <2>1, <2>2, <3>2, <3>3, <4>1, <1>3
    <3>6. f[n] = IF m = NULL THEN 0 ELSE f[m]
      <4>1. m # NULL => f[m] \in Nat
        BY <1>2, <1>5, ChainFacts DEF IsSum
      <4> QED BY <3>1, <3>2, <4>1
    <3> QED BY <2>2, <3>4, <3>5, <3>6
  <2>3. CASE a # s
    BY <2>1, <2>3, <1>3, <1>4
  <2> QED BY <2>2, <2>3
<1> HIDE DEF S
<1>8. heapStart \in DOMAIN g2
  BY <1>1 DEF Chain
<1>9. heapStart \in S
  BY <1>1, <1>7, <1>8, ChainInduct
<1> QED BY <1>5, <1>6, <1>9 DEF S

\* Nor does cutting a free segment.
LEMMA SplitUsedMem ==
  ASSUME NEW g, NEW L, NEW e, Chain(g, L, e), NEW s \in DOMAIN g, g[s].free,
         NEW size \in Nat, g[s].length - size - HdrSize >= 0,
         NEW g2, NEW L2, IsSplit(g, L, s, size, g2, L2)
  PROVE  UsedMem(g2) = UsedMem(g)
<1> DEFINE new == s + HdrSize + size
           n == g[s].next
<1>1. Chain(g2, L2, e) /\ new \notin DOMAIN g
  BY SplitChain
<1>2. /\ DOMAIN g2 = DOMAIN g \cup {new}
      /\ g2[s].next = new /\ g2[s].free /\ g2[new].next = n /\ g2[new].free
  BY DEF IsSplit
<1>3. ASSUME NEW a \in DOMAIN g \ {s}
      PROVE  g2[a].next = g[a].next /\ Cost(g2, a) = Cost(g, a)
  <2>1. g2[a] = g[a] \/ g2[a] = [length |-> g[a].length, next |-> g[a].next,
                                 last |-> new, free |-> g[a].free]
    BY DEF IsSplit
  <2>2. g2[a].length = g[a].length /\ g2[a].next = g[a].next /\ g2[a].free = g[a].free
    BY <2>1
  <2> QED BY <2>2 DEF Cost
<1> HIDE DEF new
<1>4. PICK f : IsSum(g, f) /\ UsedMem(g) = f[heapStart]
  BY UsedMemSum
<1>5. PICK f2 : IsSum(g2, f2) /\ UsedMem(g2) = f2[heapStart]
  BY <1>1, UsedMemSum
<1> DEFINE S == {a \in DOMAIN g : f2[a] = f[a]}
<1>6. \A a \in DOMAIN g : g[a].next = NULL \/ g[a].next \in S => a \in S
  <2> SUFFICES ASSUME NEW a \in DOMAIN g, g[a].next = NULL \/ g[a].next \in S
               PROVE  f2[a] = f[a]
    OBVIOUS
  <2>1. /\ f2[a] = Cost(g2, a) + (IF g2[a].next = NULL THEN 0 ELSE f2[g2[a].next])
        /\ f[a] = Cost(g, a) + (IF g[a].next = NULL THEN 0 ELSE f[g[a].next])
    BY <1>2, <1>4, <1>5 DEF IsSum
  <2>2. CASE a = s
    <3>1. f2[new] = Cost(g2, new) + (IF n = NULL THEN 0 ELSE f2[n])
      BY <1>2, <1>5 DEF IsSum
    <3>2. Cost(g2, new) = 0 /\ Cost(g, s) = 0 /\ Cost(g2, s) = 0
      BY <1>2 DEF Cost
    <3>3. new # NULL /\ f2[new] \in Nat
      BY <1>1, <1>2, <1>5 DEF IsSum, Chain, NULL
    <3>4. f2[s] = f2[new]
      BY <2>1, <2>2, <3>2, <3>3, <1>2
    <3>5. n # NULL => f2[n] = f[n]
      BY <2>2
    <3> QED BY <2>1, <2>2, <3>1, <3>2, <3>4, <3>5
  <2>3. CASE a # s
    BY <2>1, <2>3, <1>3
  <2> QED BY <2>2, <2>3
<1> HIDE DEF S
<1>7. heapStart \in DOMAIN g
  BY DEF Chain
<1>8. heapStart \in S
  BY <1>6, <1>7, ChainInduct
<1> QED BY <1>4, <1>5, <1>8 DEF S

\* Nor does appending a free segment.
LEMMA GrowUsedMem ==
  ASSUME NEW g, NEW L, NEW e, Chain(g, L, e), NEW len \in Nat,
         NEW g2, IsGrow(g, L, e, len, g2)
  PROVE  UsedMem(g2) = UsedMem(g)
<1>1. Chain(g2, e, e + HdrSize + len) /\ e \notin DOMAIN g
  BY GrowChain
<1>2. /\ DOMAIN g2 = DOMAIN g \cup {e}
      /\ g2[e].next = NULL /\ g2[e].free /\ g2[L].next = e
      /\ \A a \in DOMAIN g \ {L} : g2[a] = g[a]
  BY DEF IsGrow
<1>3. Cost(g2, L) = Cost(g, L) /\ Cost(g2, e) = 0
  BY DEF IsGrow, Cost
<1>4. PICK f : IsSum(g, f) /\ UsedMem(g) = f[heapStart]
  BY UsedMemSum
<1>5. PICK f2 : IsSum(g2, f2) /\ UsedMem(g2) = f2[heapStart]
  BY <1>1, UsedMemSum
<1>6. f2[e] = 0
  BY <1>2, <1>3, <1>5 DEF IsSum
<1> DEFINE S == {a \in DOMAIN g : f2[a] = f[a]}
<1>7. \A a \in DOMAIN g : g[a].next = NULL \/ g[a].next \in S => a \in S
  <2> SUFFICES ASSUME NEW a \in DOMAIN g, g[a].next = NULL \/ g[a].next \in S
               PROVE  f2[a] = f[a]
    OBVIOUS
  <2>1. /\ f2[a] = Cost(g2, a) + (IF g2[a].next = NULL THEN 0 ELSE f2[g2[a].next])
        /\ f[a] = Cost(g, a) + (IF g[a].next = NULL THEN 0 ELSE f[g[a].next])
    BY <1>2, <1>4, <1>5 DEF IsSum
  <2>2. CASE a = L
    <3>1. g[L].next = NULL /\ e # NULL
      BY <1>1 DEF Chain, NULL
    <3> QED BY <2>1, <2>2, <3>1, <1>2, <1>3, <1>6
  <2>3. CASE a # L
    <3>1. g2[a].next = g[a].next /\ Cost(g2, a) = Cost(g, a)
      BY <2>3, <1>2 DEF Cost
    <3> QED BY <2>1, <3>1
  <2> QED BY <2>2, <2>3
<1> HIDE DEF S
<1>8. heapStart \in DOMAIN g
  BY DEF Chain
<1>9. heapStart \in S
  BY <1>7, <1>8, ChainInduct
<1> QED BY <1>4, <1>5, <1>9 DEF S

\* Setting a flag changes it by the cost of the segment.
LEMMA MarkUsedMem ==
  ASSUME NEW g, NEW L, NEW e, Chain(g, L, e), NEW s \in DOMAIN g,
         NEW b \in BOOLEAN, NEW g2, IsMark(g, s, b, g2)
  PROVE  UsedMem(g2) = UsedMem(g) + Cost(g2, s) - Cost(g, s)
<1>1. Chain(g2, L, e)
  BY MarkChain
<1>2. DOMAIN g2 = DOMAIN g /\ \A a \in DOMAIN g : g2[a].next = g[a].next
  BY DEF IsMark
<1>3. \A a \in DOMAIN g \ {s} : Cost(g2, a) = Cost(g, a)
  BY DEF IsMark, Cost
<1>4. PICK f : IsSum(g, f) /\ UsedMem(g) = f[heapStart]
  BY UsedMemSum
<1>5. PICK f2 : IsSum(g2, f2) /\ UsedMem(g2) = f2[heapStart]
  BY <1>1, UsedMemSum
<1>6. /\ Cost(g, s) \in Nat /\ Cost(g2, s) \in Nat
      /\ \A a \in DOMAIN g : a \in Nat /\ f[a] \in Nat /\ f2[a] \in Nat
  BY <1>1, <1>2, <1>4, <1>5, CostNat, ChainFacts DEF IsSum
<1> DEFINE d == Cost(g2, s) - Cost(g, s)
           S == {a \in DOMAIN g : f2[a] = f[a] + (IF a <= s THEN d ELSE 0)}
<1>7. \A a \in DOMAIN g : g[a].next = NULL \/ g[a].next \in S => a \in S
  <2> SUFFICES ASSUME NEW a \in DOMAIN g, g[a].next = NULL \/ g[a].next \in S
               PROVE  f2[a] = f[a] + (IF a <= s THEN d ELSE 0)
    OBVIOUS
  <2>1. /\ f2[a] = Cost(g2, a) + (IF g[a].next = NULL THEN 0 ELSE f2[g[a].next])
        /\ f[a] = Cost(g, a) + (IF g[a].next = NULL THEN 0 ELSE f[g[a].next])
    BY <1>2, <1>4, <1>5 DEF IsSum
  <2>2. Cost(g, a) \in Nat
    BY CostNat
  <2>3. g[a].next # NULL => /\ g[a].next \in DOMAIN g /\ g[a].next > a
                            /\ a < s => g[a].next <= s
    BY ChainFacts, NextIsNearest
  <2>4. g[a].next = NULL => ~(a < s)
    BY NextIsNearest, <1>6
  <2>5. CASE a = s
    BY <2>1, <2>2, <2>3, <2>5, <1>6
  <2>6. CASE a < s
    BY <2>1, <2>2, <2>3, <2>4, <2>6, <1>3, <1>6
  <2>7. CASE a > s
    BY <2>1, <2>2, <2>3, <2>7, <1>3, <1>6
  <2> QED BY <2>5, <2>6, <2>7, <1>6
<1> HIDE DEF S
<1>8. heapStart \in DOMAIN g /\ heapStart <= s
  BY HeapStartLeast DEF Chain
<1>9. heapStart \in S
  BY <1>7, <1>8, ChainInduct
<1> QED BY <1>4, <1>5, <1>6, <1>8, <1>9 DEF S

-----------------------------------------------------------------------------
(* What the changes of the chain do to the segments in use and to merging. *)

\* The segments in use.
InUse(g) == {a \in DOMAIN g : ~g[a].free}

\* No two free segments are adjacent, but for a first one in X.
Merged(g, X) ==
  \A a \in DOMAIN g \ X : g[a].free /\ g[a].next # NULL => ~g[g[a].next].free

\* The segments in use are as long in g2 as in g.
SameLengths(g, g2, S) == \A a \in S : g2[a].length = g[a].length

\* Every free segment of g lies in a free segment of g2.
FreeWithin(g, g2) ==
  \A a \in DOMAIN g : g[a].free =>
    \E b \in DOMAIN g2 : /\ g2[b].free /\ b <= a
                         /\ a + HdrSize + g[a].length <= b + HdrSize + g2[b].length

\* Joining two free segments changes no segment in use, and leaves one pair of
\* neighbours less to merge.
LEMMA JoinFree ==
  ASSUME NEW g, NEW L, NEW e, Chain(g, L, e), NEW s \in DOMAIN g,
         g[s].next # NULL, g[s].free, g[g[s].next].free,
         NEW g2, NEW L2, IsJoin(g, L, s, g2, L2)
  PROVE  /\ InUse(g2) = InUse(g)
         /\ SameLengths(g, g2, InUse(g))
         /\ \A X : g[s].next \notin X /\ Merged(g, X) => Merged(g2, X \ {s})
         /\ FreeWithin(g, g2)
         /\ s \in DOMAIN g2 /\ g2[s].free /\ g2[s].last = g[s].last
<1> DEFINE n == g[s].next
           m == g[n].next
<1>1. /\ n \in DOMAIN g /\ n = s + HdrSize + g[s].length /\ g[n].last = s /\ n > s
      /\ s \in Nat \ {0} /\ n \in Nat
  BY ChainFacts DEF NULL
<1>2. /\ m \in Nat
      /\ m # NULL => m \in DOMAIN g /\ m > n
  BY <1>1, ChainFacts
<1>4. /\ DOMAIN g2 = DOMAIN g \ {n}
      /\ g2[s] = [length |-> g[s].length + g[n].length + HdrSize,
                  next |-> m, last |-> g[s].last, free |-> g[s].free]
      /\ \A a \in DOMAIN g \ {n, s} :
           g2[a] = IF a = m
                   THEN [length |-> g[a].length, next |-> g[a].next,
                         last |-> s, free |-> g[a].free]
                   ELSE g[a]
  BY DEF IsJoin
<1> HIDE DEF n, m
<1>5. /\ g2[s].length = g[s].length + g[n].length + HdrSize
      /\ g2[s].next = m /\ g2[s].last = g[s].last /\ g2[s].free
  BY <1>4
<1>6. ASSUME NEW a \in DOMAIN g \ {n, s}
      PROVE  /\ g2[a].length = g[a].length /\ g2[a].next = g[a].next
             /\ g2[a].free = g[a].free
  <2>1. CASE a = m
    <3>1. g2[a] = [length |-> g[a].length, next |-> g[a].next,
                   last |-> s, free |-> g[a].free]
      BY <2>1, <1>4
    <3> QED BY <3>1
  <2>2. CASE a # m
    BY <2>2, <1>4
  <2> QED BY <2>1, <2>2
<1>7. g[n].free
  BY DEF n
<1>8. InUse(g2) = InUse(g)
  <2>1. \A a : a \in InUse(g2) <=> a \in InUse(g)
    BY <1>4, <1>5, <1>6, <1>7 DEF InUse
  <2> QED BY <2>1
<1>9. SameLengths(g, g2, InUse(g))
  BY <1>6, <1>7 DEF InUse, SameLengths
<1>10. ASSUME NEW X, n \notin X, Merged(g, X)
       PROVE  Merged(g2, X \ {s})
  <2>3. m # NULL => ~g[m].free
    BY <1>1, <1>7, <1>10 DEF Merged, m
  <2> SUFFICES ASSUME NEW a \in DOMAIN g2 \ (X \ {s}), g2[a].free, g2[a].next # NULL
               PROVE  ~g2[g2[a].next].free
    BY DEF Merged
  <2>1. CASE a = s
    <3>1. m # NULL /\ m \in DOMAIN g \ {n, s}
      BY <2>1, <1>1, <1>2, <1>5
    <3> QED BY <2>1, <3>1, <2>3, <1>5, <1>6
  <2>2. CASE a # s
    <3>1. a \in DOMAIN g \ {n, s} /\ a \notin X
      BY <2>2, <1>4
    <3>2. g[a].free /\ g[a].next # NULL /\ g2[a].next = g[a].next
      BY <3>1, <1>6
    <3>3. ~g[g[a].next].free /\ g[a].next \in DOMAIN g
      BY <3>1, <3>2, <1>10, ChainFacts DEF Merged
    <3> QED BY <3>2, <3>3, <1>6, <1>7
  <2> QED BY <2>1, <2>2
<1>11. FreeWithin(g, g2)
  <2> SUFFICES ASSUME NEW a \in DOMAIN g, g[a].free
               PROVE  \E b \in DOMAIN g2 :
                        /\ g2[b].free /\ b <= a
                        /\ a + HdrSize + g[a].length <= b + HdrSize + g2[b].length
    BY DEF FreeWithin
  <2>1. /\ a \in Nat /\ g[a].length \in Nat /\ HdrSize \in Nat
        /\ g[s].length \in Nat /\ g[n].length \in Nat
    BY <1>1, ChainFacts, HeapAssumption
  <2>2. CASE a = s \/ a = n
    <3>1. /\ s \in DOMAIN g2 /\ g2[s].free /\ s <= a
          /\ a + HdrSize + g[a].length <= s + HdrSize + g2[s].length
      BY <2>1, <2>2, <1>1, <1>4, <1>5
    <3> QED BY <3>1
  <2>3. CASE a # s /\ a # n
    <3>1. /\ a \in DOMAIN g2 /\ g2[a].free /\ a <= a
          /\ a + HdrSize + g[a].length <= a + HdrSize + g2[a].length
      BY <2>1, <2>3, <1>4, <1>6
    <3> QED BY <3>1
  <2> QED BY <2>2, <2>3
<1> QED BY <1>1, <1>4, <1>5, <1>8, <1>9, <1>10, <1>11, SMTT(30) DEF n

\* free sets the flag of s: s and the segment before it may now have a free
\* neighbour.
LEMMA MarkFree ==
  ASSUME NEW g, NEW L, NEW e, Chain(g, L, e), NEW s \in DOMAIN g,
         NEW g2, IsMark(g, s, TRUE, g2), Merged(g, {})
  PROVE  /\ InUse(g2) = InUse(g) \ {s}
         /\ SameLengths(g, g2, DOMAIN g)
         /\ Merged(g2, {s, g[s].last})
         /\ s \in DOMAIN g2 /\ g2[s].free /\ g2[s].last = g[s].last
<1>1. /\ DOMAIN g2 = DOMAIN g
      /\ g2[s].length = g[s].length /\ g2[s].next = g[s].next
      /\ g2[s].last = g[s].last /\ g2[s].free
      /\ \A a \in DOMAIN g \ {s} : g2[a] = g[a]
  BY DEF IsMark
<1>2. InUse(g2) = InUse(g) \ {s}
  BY <1>1 DEF InUse
<1>3. Merged(g2, {s, g[s].last})
  <2> SUFFICES ASSUME NEW a \in DOMAIN g \ {s, g[s].last}, g[a].free, g[a].next # NULL
               PROVE  ~g2[g[a].next].free
    BY <1>1 DEF Merged
  <2>1. g[a].next \in DOMAIN g /\ g[g[a].next].last = a
    BY ChainFacts
  <2>2. g[a].next # s
    BY <2>1
  <2> QED BY <2>1, <2>2, <1>1 DEF Merged
<1> QED BY <1>1, <1>2, <1>3 DEF SameLengths

\* malloc clears the flag of s: no pair of free neighbours appears.
LEMMA MarkUsed ==
  ASSUME NEW g, NEW L, NEW e, Chain(g, L, e), NEW s \in DOMAIN g,
         NEW g2, IsMark(g, s, FALSE, g2), Merged(g, {s})
  PROVE  /\ InUse(g2) = InUse(g) \cup {s}
         /\ SameLengths(g, g2, DOMAIN g)
         /\ Merged(g2, {})
<1>1. /\ DOMAIN g2 = DOMAIN g
      /\ g2[s].length = g[s].length /\ g2[s].next = g[s].next
      /\ ~g2[s].free
      /\ \A a \in DOMAIN g \ {s} : g2[a] = g[a]
  BY DEF IsMark
<1>2. InUse(g2) = InUse(g) \cup {s}
  <2>1. \A a : a \in InUse(g2) <=> a \in InUse(g) \cup {s}
    BY <1>1 DEF InUse
  <2> QED BY <2>1
<1>3. Merged(g2, {})
  <2> SUFFICES ASSUME NEW a \in DOMAIN g \ {s}, g[a].free, g[a].next # NULL
               PROVE  ~g2[g[a].next].free
    BY <1>1 DEF Merged
  <2>1. g[a].next \in DOMAIN g /\ ~g[g[a].next].free
    BY ChainFacts DEF Merged
  <2> QED BY <2>1, <1>1
<1> QED BY <1>1, <1>2, <1>3 DEF SameLengths

\* expandHeap appends a free segment: only the old last one may have to merge.
LEMMA GrowFree ==
  ASSUME NEW g, NEW L, NEW e, Chain(g, L, e), NEW len \in Nat,
         NEW g2, IsGrow(g, L, e, len, g2), Merged(g, {})
  PROVE  /\ InUse(g2) = InUse(g)
         /\ SameLengths(g, g2, DOMAIN g)
         /\ Merged(g2, {L})
<1>1. e \notin DOMAIN g /\ L \in DOMAIN g
  <2>1. e \notin DOMAIN g
    BY GrowChain
  <2> QED BY <2>1 DEF Chain
<1>2. /\ DOMAIN g2 = DOMAIN g \cup {e}
      /\ g2[e].length = len /\ g2[e].next = NULL /\ g2[e].last = L /\ g2[e].free
      /\ g2[L].length = g[L].length /\ g2[L].free = g[L].free
      /\ \A a \in DOMAIN g \ {L} : g2[a] = g[a]
  BY DEF IsGrow
<1>3. \A a \in DOMAIN g : g2[a].length = g[a].length /\ g2[a].free = g[a].free
  BY <1>2
<1>4. InUse(g2) = InUse(g)
  <2>1. \A a : a \in InUse(g2) <=> a \in InUse(g)
    BY <1>1, <1>2, <1>3 DEF InUse
  <2> QED BY <2>1
<1>5. Merged(g2, {L})
  <2> SUFFICES ASSUME NEW a \in DOMAIN g \ {L}, g[a].free, g[a].next # NULL
               PROVE  ~g2[g[a].next].free
    BY <1>2 DEF Merged
  <2>1. g[a].next \in DOMAIN g /\ ~g[g[a].next].free
    BY ChainFacts DEF Merged
  <2> QED BY <2>1, <1>3
<1> QED BY <1>1, <1>2, <1>3, <1>4, <1>5 DEF SameLengths

\* split leaves two free neighbours, the first of which malloc takes.
LEMMA SplitFree ==
  ASSUME NEW g, NEW L, NEW e, Chain(g, L, e), NEW s \in DOMAIN g, g[s].free,
         NEW size \in Nat, g[s].length - size - HdrSize >= 0,
         NEW g2, NEW L2, IsSplit(g, L, s, size, g2, L2), Merged(g, {})
  PROVE  /\ InUse(g2) = InUse(g)
         /\ SameLengths(g, g2, InUse(g))
         /\ Merged(g2, {s})
         /\ s \in DOMAIN g2 /\ g2[s].length = size
<1> DEFINE new == s + HdrSize + size
           n == g[s].next
<1>1. new \notin DOMAIN g
  BY SplitChain
<1>2. n # NULL => n \in DOMAIN g /\ n # s
  BY ChainFacts
<1>3. /\ DOMAIN g2 = DOMAIN g \cup {new}
      /\ g2[new] = [length |-> g[s].length - size - HdrSize,
                    next |-> n, last |-> s, free |-> g[s].free]
      /\ g2[s] = [length |-> size, next |-> new, last |-> g[s].last,
                  free |-> g[s].free]
      /\ \A a \in DOMAIN g \ {s} :
           g2[a] = IF a = n
                   THEN [length |-> g[a].length, next |-> g[a].next,
                         last |-> new, free |-> g[a].free]
                   ELSE g[a]
  BY DEF IsSplit
<1> HIDE DEF new
<1>4. g2[new].next = n /\ g2[new].free /\ g2[s].length = size /\ g2[s].free
  BY <1>3
<1> HIDE DEF n
<1>5. ASSUME NEW a \in DOMAIN g \ {s}
      PROVE  /\ g2[a].length = g[a].length /\ g2[a].next = g[a].next
             /\ g2[a].free = g[a].free
  <2>1. CASE a = n
    <3>1. g2[a] = [length |-> g[a].length, next |-> g[a].next,
                   last |-> new, free |-> g[a].free]
      BY <2>1, <1>3
    <3> QED BY <3>1
  <2>2. CASE a # n
    BY <2>2, <1>3
  <2> QED BY <2>1, <2>2
<1>6. InUse(g2) = InUse(g)
  <2>1. \A a : a \in InUse(g2) <=> a \in InUse(g)
    BY <1>1, <1>3, <1>4, <1>5 DEF InUse
  <2> QED BY <2>1
<1>7. SameLengths(g, g2, InUse(g))
  BY <1>5 DEF InUse, SameLengths
<1>8. Merged(g2, {s})
  <2> SUFFICES ASSUME NEW a \in DOMAIN g2 \ {s}, g2[a].free, g2[a].next # NULL
               PROVE  ~g2[g2[a].next].free
    BY DEF Merged
  <2>1. CASE a = new
    <3>1. n \in DOMAIN g \ {s} /\ ~g[n].free
      BY <2>1, <1>2, <1>4 DEF Merged, n
    <3> QED BY <2>1, <3>1, <1>4, <1>5
  <2>2. CASE a # new
    <3>1. a \in DOMAIN g \ {s} /\ g[a].free /\ g[a].next # NULL
      BY <2>2, <1>3, <1>5
    <3>2. g[a].next \in DOMAIN g /\ ~g[g[a].next].free
      BY <3>1, ChainFacts DEF Merged
    <3> QED BY <3>1, <3>2, <1>5
  <2> QED BY <2>1, <2>2
<1> QED BY <1>3, <1>4, <1>6, <1>7, <1>8

\* The part of a change that its callers can see: nothing happens to the
\* segments in use, and no free memory gets lost.
SameUse(g, g2) ==
  /\ InUse(g2) = InUse(g)
  /\ SameLengths(g, g2, InUse(g))
  /\ FreeWithin(g, g2)
  /\ UsedMem(g2) = UsedMem(g)

\* No change at all is such a change.
LEMMA SameUseRefl ==
  ASSUME NEW g, NEW L, NEW e, Chain(g, L, e)
  PROVE  SameUse(g, g)
<1>1. \A a \in DOMAIN g : a \in Nat /\ a + HdrSize + g[a].length \in Nat
  BY ChainFacts, HeapAssumption
<1>2. FreeWithin(g, g)
  BY <1>1 DEF FreeWithin
<1> QED BY <1>2 DEF SameUse, SameLengths

\* combineForward on a free segment: only the segment before it is left to merge.
LEMMA ForwardFacts ==
  ASSUME NEW h, NEW e, Chain(h.seg, h.LastHdr, e),
         NEW s \in DOMAIN h.seg, h.seg[s].free,
         Merged(h.seg, {s, h.seg[s].last})
  PROVE  LET r == combineForward(h, s)
         IN  /\ Chain(r.seg, r.LastHdr, e)
             /\ SameUse(h.seg, r.seg)
             /\ s \in DOMAIN r.seg /\ r.seg[s].free
             /\ r.seg[s].last = h.seg[s].last
             /\ Merged(r.seg, {h.seg[s].last})
<1> DEFINE g == h.seg
           n == g[s].next
           l == g[s].last
           r == combineForward(h, s)
<1>1. CASE n # NULL /\ g[n].free
  <2>1. IsJoin(g, h.LastHdr, s, r.seg, r.LastHdr)
    BY <1>1, ForwardJoins
  <2>2. Chain(r.seg, r.LastHdr, e)
    BY <1>1, <2>1, JoinChain
  <2>3. n > s /\ s \in Nat /\ n \in Nat /\ l \in Nat /\ (l # NULL => l < s)
    BY <1>1, ChainFacts
  <2> DEFINE X == {s, l}
  <2>4. n \notin X /\ Merged(g, X)
    BY <2>3, <1>1
  <2> HIDE DEF r, X
  <2>5. /\ InUse(r.seg) = InUse(g)
        /\ SameLengths(g, r.seg, InUse(g))
        /\ Merged(r.seg, X \ {s})
        /\ FreeWithin(g, r.seg)
        /\ UsedMem(r.seg) = UsedMem(g)
        /\ s \in DOMAIN r.seg /\ r.seg[s].free /\ r.seg[s].last = g[s].last
    <3>1. UsedMem(r.seg) = UsedMem(g)
      BY <1>1, <2>1, JoinUsedMem
    <3>2. /\ InUse(r.seg) = InUse(g)
          /\ SameLengths(g, r.seg, InUse(g))
          /\ \A Y : n \notin Y /\ Merged(g, Y) => Merged(r.seg, Y \ {s})
          /\ FreeWithin(g, r.seg)
          /\ s \in DOMAIN r.seg /\ r.seg[s].free /\ r.seg[s].last = g[s].last
      BY <1>1, <2>1, JoinFree, SMTT(30)
    <3>3. Merged(r.seg, X \ {s})
      BY <2>4, <3>2
    <3> QED BY <3>1, <3>2, <3>3
  <2>6. Merged(r.seg, {l})
    BY <2>5, <2>3 DEF Merged, X
  <2> QED BY <2>2, <2>5, <2>6 DEF SameUse, r
<1>2. CASE ~(n # NULL /\ g[n].free)
  <2>1. r = h
    BY <1>2, ForwardJoins
  <2>2. Merged(g, {l})
    BY <1>2 DEF Merged
  <2>3. SameUse(g, g)
    BY SameUseRefl
  <2> QED BY <2>1, <2>2, <2>3
<1> QED BY <1>1, <1>2

\* combineBackward on a free segment finishes the merging.  When the segment is
\* the last one, the last one is free and no shorter afterwards.
LEMMA BackwardFacts ==
  ASSUME NEW h, NEW e, Chain(h.seg, h.LastHdr, e),
         NEW s \in DOMAIN h.seg, h.seg[s].free,
         Merged(h.seg, {h.seg[s].last})
  PROVE  LET r == combineBackward(h, s)
             l == h.seg[s].last
         IN  /\ Chain(r.seg, r.LastHdr, e)
             /\ SameUse(h.seg, r.seg)
             /\ Merged(r.seg, {})
             /\ s = h.LastHdr =>
                  /\ r.seg[r.LastHdr].free
                  /\ r.seg[r.LastHdr].length >= h.seg[s].length
                  /\ l # NULL /\ h.seg[l].free =>
                       r.seg[r.LastHdr].length
                         = h.seg[l].length + h.seg[s].length + HdrSize
<1> DEFINE g == h.seg
           l == g[s].last
           r == combineBackward(h, s)
<1>1. CASE l # NULL /\ g[l].free
  <2>1. /\ l \in DOMAIN g /\ l < s /\ g[l].next = s /\ s # NULL
        /\ s \in Nat /\ l \in Nat
        /\ g[l].length \in Nat /\ g[s].length \in Nat /\ HdrSize \in Nat
    BY <1>1, ChainFacts, HeapAssumption, SMTT(30) DEF NULL
  <2>2. r = combineForward(h, l)
    BY <1>1 DEF combineBackward
  <2> HIDE DEF r
  <2>3. IsJoin(g, h.LastHdr, l, r.seg, r.LastHdr)
    BY <2>1, <2>2, ForwardJoins
  <2> HIDE DEF l, g
  <2>4. Chain(r.seg, r.LastHdr, e)
    BY <2>1, <2>3, JoinChain DEF g
  <2> DEFINE X == {l}
  <2>5. s \notin X /\ Merged(g, X)
    BY <2>1 DEF g, l
  <2> HIDE DEF X
  <2>6. /\ InUse(r.seg) = InUse(g)
        /\ SameLengths(g, r.seg, InUse(g))
        /\ Merged(r.seg, X \ {l})
        /\ FreeWithin(g, r.seg)
        /\ UsedMem(r.seg) = UsedMem(g)
        /\ l \in DOMAIN r.seg /\ r.seg[l].free
    <3>1. Chain(g, h.LastHdr, e) /\ g[s].free
      BY DEF g
    <3>2. /\ l \in DOMAIN g /\ g[l].next # NULL /\ g[l].free
          /\ g[g[l].next].free /\ g[l].next \notin X /\ Merged(g, X)
      BY <1>1, <3>1, <2>1, <2>5
    <3>3. UsedMem(r.seg) = UsedMem(g)
      BY <3>1, <3>2, <2>3, JoinUsedMem
    <3>4. /\ InUse(r.seg) = InUse(g)
          /\ SameLengths(g, r.seg, InUse(g))
          /\ \A Y : g[l].next \notin Y /\ Merged(g, Y) => Merged(r.seg, Y \ {l})
          /\ FreeWithin(g, r.seg)
          /\ l \in DOMAIN r.seg /\ r.seg[l].free
      BY <3>1, <3>2, <2>3, JoinFree
    <3>5. Merged(r.seg, X \ {l})
      BY <3>2, <3>4
    <3> QED BY <3>3, <3>4, <3>5
  <2>7. X \ {l} = {}
    BY DEF X
  <2>8. ASSUME s = h.LastHdr
        PROVE  /\ r.LastHdr = l
               /\ r.seg[l].length = g[l].length + g[s].length + HdrSize
    BY <2>8, <2>1, <2>3 DEF IsJoin
  <2>9. s = h.LastHdr => /\ r.LastHdr = l /\ r.seg[l].length >= g[s].length
                         /\ r.seg[l].length = g[l].length + g[s].length + HdrSize
    BY <2>1, <2>8
  <2> QED BY <2>4, <2>6, <2>7, <2>9 DEF SameUse, r, g, l
<1>2. CASE ~(l # NULL /\ g[l].free)
  <2>1. r = h
    BY <1>2 DEF combineBackward
  <2>2. Merged(g, {})
    <3>1. NULL \notin DOMAIN g
      BY DEF Chain, NULL
    <3> QED BY <1>2, <3>1 DEF Merged
  <2>3. SameUse(g, g) /\ g[s].length \in Nat
    BY SameUseRefl, ChainFacts
  <2> QED BY <1>2, <2>1, <2>2, <2>3, SMTT(30)
<1> QED BY <1>1, <1>2

-----------------------------------------------------------------------------
(* The walk of malloc.                                                     *)

Fits(a, size) == seg[a].free /\ seg[a].length >= size

\* What malloc finds is a free segment that is long enough, and it finds one
\* when there is one.
LEMMA FirstFitFacts ==
  ASSUME NEW e, Chain(seg, LastHdr, e), NEW size \in Nat
  PROVE  /\ FirstFit(size) # NULL =>
              FirstFit(size) \in DOMAIN seg /\ Fits(FirstFit(size), size)
         /\ FirstFit(size) = NULL => \A a \in DOMAIN seg : ~Fits(a, size)
<1> DEFINE From(a) == {b \in DOMAIN seg : b >= a /\ Fits(b, size)}
           Lowest(T) == IF T = {} THEN NULL
                        ELSE CHOOSE x \in T : \A y \in T : x <= y
           first == [a \in DOMAIN seg |-> Lowest(From(a))]
<1>1. DOMAIN seg \in SUBSET Nat /\ heapStart \in DOMAIN seg /\ NULL \notin DOMAIN seg
  BY DEF Chain, NULL
<1>2. ASSUME NEW a \in DOMAIN seg
      PROVE  /\ Fits(a, size) => first[a] = a
             /\ ~Fits(a, size) /\ seg[a].next = NULL => first[a] = NULL
             /\ ~Fits(a, size) /\ seg[a].next # NULL =>
                  seg[a].next \in DOMAIN seg /\ first[a] = first[seg[a].next]
  <2>1. ASSUME Fits(a, size) PROVE first[a] = a
    <3>1. a \in From(a) /\ \A y \in From(a) : a <= y
      BY <2>1, <1>1
    <3>2. \A x \in From(a) : (\A y \in From(a) : x <= y) => x = a
      BY <3>1, <1>1
    <3> QED BY <3>1, <3>2
  <2>2. ASSUME ~Fits(a, size), seg[a].next = NULL PROVE first[a] = NULL
    <3>1. \A b \in DOMAIN seg : ~(b > a)
      BY <2>2, NextIsNearest
    <3>2. From(a) = {}
      BY <3>1, <2>2, <1>1
    <3> QED BY <3>2
  <2>3. ASSUME ~Fits(a, size), seg[a].next # NULL
        PROVE  seg[a].next \in DOMAIN seg /\ first[a] = first[seg[a].next]
    <3>1. seg[a].next \in DOMAIN seg /\ seg[a].next > a
      BY <2>3, ChainFacts
    <3>2. \A b \in DOMAIN seg : b > a => seg[a].next <= b
      BY NextIsNearest
    <3>3. From(a) = From(seg[a].next)
      BY <3>1, <3>2, <2>3, <1>1
    <3> HIDE DEF From, Lowest
    <3> QED BY <3>1, <3>3
  <2> QED BY <2>1, <2>2, <2>3
<1>3. first = [a \in DOMAIN seg |-> IF seg[a].free /\ seg[a].length >= size THEN a
                                   ELSE IF seg[a].next = NULL THEN NULL
                                   ELSE first[seg[a].next]]
  <2>1. DOMAIN first = DOMAIN seg /\ first = [a \in DOMAIN first |-> first[a]]
    <3> HIDE DEF From, Lowest
    <3> QED OBVIOUS
  <2> HIDE DEF first
  <2> QED BY <2>1, <1>2 DEF Fits
<1> HIDE DEF first
<1>4. PICK w : /\ w = [a \in DOMAIN seg |->
                         IF seg[a].free /\ seg[a].length >= size THEN a
                         ELSE IF seg[a].next = NULL THEN NULL
                         ELSE w[seg[a].next]]
               /\ FirstFit(size) = w[heapStart]
  BY <1>3 DEF FirstFit
<1> DEFINE S == {a \in DOMAIN seg : IF w[a] = NULL
                                    THEN From(a) = {}
                                    ELSE w[a] \in From(a)}
<1>5. \A a \in DOMAIN seg : seg[a].next = NULL \/ seg[a].next \in S => a \in S
  <2> SUFFICES ASSUME NEW a \in DOMAIN seg, seg[a].next = NULL \/ seg[a].next \in S
               PROVE  IF w[a] = NULL THEN From(a) = {} ELSE w[a] \in From(a)
    OBVIOUS
  <2>1. w[a] = IF Fits(a, size) THEN a
               ELSE IF seg[a].next = NULL THEN NULL
               ELSE w[seg[a].next]
    BY <1>4 DEF Fits
  <2>2. CASE Fits(a, size)
    BY <2>1, <2>2, <1>1
  <2>3. CASE ~Fits(a, size) /\ seg[a].next = NULL
    <3>1. \A b \in DOMAIN seg : ~(b > a)
      BY <2>3, NextIsNearest
    <3>2. From(a) = {}
      BY <3>1, <2>3, <1>1
    <3> QED BY <2>1, <2>3, <3>2
  <2>4. CASE ~Fits(a, size) /\ seg[a].next # NULL
    <3>1. seg[a].next \in DOMAIN seg /\ seg[a].next > a
      BY <2>4, ChainFacts
    <3>2. \A b \in DOMAIN seg : b > a => seg[a].next <= b
      BY NextIsNearest
    <3>3. From(a) = From(seg[a].next)
      BY <3>1, <3>2, <2>4, <1>1
    <3>4. w[a] = w[seg[a].next] /\ seg[a].next \in S
      BY <2>1, <2>4
    <3> QED BY <3>3, <3>4
  <2> QED BY <2>2, <2>3, <2>4
<1> HIDE DEF S
<1>6. heapStart \in S
  BY <1>1, <1>5, ChainInduct
<1>7. \A a \in DOMAIN seg : Fits(a, size) => a \in From(heapStart)
  BY HeapStartLeast
<1> QED BY <1>4, <1>6, <1>7 DEF S
===============================================================================
