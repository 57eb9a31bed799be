------------------------------- MODULE HeapChain -------------------------------
(***************************************************************************)
(* Lemmas about the chain of segment headers of the heap: cutting, joining *)
(* and appending segments keep it consistent, and the member functions of  *)
(* HeapSegHdr do nothing else to it.  HeapProofs builds on them.           *)
(***************************************************************************)
EXTENDS Heap, WellFoundedInduction, TLAPS

-----------------------------------------------------------------------------
(* Numbers.                                                                *)

\* A product is a multiple of its factor.
LEMMA ModMul ==
  ASSUME NEW p \in Nat \ {0}, NEW a \in Nat
  PROVE  (a * p) % p = 0
OBVIOUS

\* Sums of multiples are multiples: the end of the heap stays page aligned.
LEMMA ModAdd ==
  ASSUME NEW p \in Nat \ {0}, NEW a \in Nat, NEW b \in Nat, a % p = 0, b % p = 0
  PROVE  (a + b) % p = 0
<1>1. PICK k \in Nat : a = k * p
  <2>1. a \div p \in Nat /\ a = (a \div p) * p
    OBVIOUS
  <2> QED BY <2>1
<1>2. PICK j \in Nat : b = j * p
  <2>1. b \div p \in Nat /\ b = (b \div p) * p
    OBVIOUS
  <2> QED BY <2>1
<1>3. k + j \in Nat /\ a + b = (k + j) * p
  BY <1>1, <1>2
<1>4. ((k + j) * p) % p = 0
  BY <1>3, ModMul
<1> QED BY <1>3, <1>4

\* What the rounding of malloc and expandHeap returns.
LEMMA RoundUpFacts ==
  ASSUME NEW size \in Nat, NEW unit \in Nat \ {0}
  PROVE  /\ RoundUp(size, unit) \in Nat
         /\ RoundUp(size, unit) >= size
         /\ size # 0 => RoundUp(size, unit) >= unit
         /\ RoundUp(size, unit) % unit = 0
         /\ size % unit = 0 => RoundUp(size, unit) = size
<1>1. /\ RoundUp(size, unit) \in Nat
      /\ RoundUp(size, unit) >= size
      /\ size # 0 => RoundUp(size, unit) >= unit
      /\ size % unit = 0 => RoundUp(size, unit) = size
  BY DEF RoundUp
<1>2. RoundUp(size, unit) % unit = 0
  BY DEF RoundUp
<1> QED BY <1>1, <1>2

-----------------------------------------------------------------------------
(* The chain of headers, as a function g with the last header L and the    *)
(* end e of the heap.                                                      *)

Chain(g, L, e) ==
  /\ DOMAIN g \subseteq Nat \ {0}
  /\ \A s \in DOMAIN g : g[s] \in Header
  /\ heapStart \in DOMAIN g /\ L \in DOMAIN g
  /\ g[heapStart].last = NULL
  /\ g[L].next = NULL /\ L + HdrSize + g[L].length = e
  /\ \A s \in DOMAIN g \ {L} : /\ g[s].next = s + HdrSize + g[s].length
                               /\ g[s].next \in DOMAIN g
                               /\ g[g[s].next].last = s
  /\ \A s \in DOMAIN g \ {heapStart} : /\ g[s].last \in DOMAIN g
                                       /\ g[g[s].last].next = s
  /\ \A s \in DOMAIN g : s <= L
  /\ \A s, t \in DOMAIN g : s < t => s + HdrSize + g[s].length <= t

\* Segment s of g swallows the one behind it, as in combineForward.
IsJoin(g, L, s, g2, L2) ==
  LET n == g[s].next
      m == g[n].next
  IN  /\ DOMAIN g2 = DOMAIN g \ {n}
      /\ g2[s] = [length |-> g[s].length + g[n].length + HdrSize,
                  next |-> m, last |-> g[s].last, free |-> g[s].free]
      /\ \A a \in DOMAIN g \ {n, s} :
           g2[a] = IF a = m
                   THEN [length |-> g[a].length, next |-> g[a].next,
                         last |-> s, free |-> g[a].free]
                   ELSE g[a]
      /\ L2 = IF n = L THEN s ELSE L

\* Segment s of g is cut after size bytes, as in split.
IsSplit(g, L, s, size, g2, L2) ==
  LET new == s + HdrSize + size
      n   == g[s].next
  IN  /\ DOMAIN g2 = DOMAIN g \cup {new}
      /\ g2[new] = [length |-> g[s].length - size - HdrSize,
                    next |-> n, last |-> s, free |-> g[s].free]
      /\ g2[s] = [length |-> size, next |-> new, last |-> g[s].last,
                  free |-> g[s].free]
      /\ \A a \in DOMAIN g \ {s} :
           g2[a] = IF a = n
                   THEN [length |-> g[a].length, next |-> g[a].next,
                         last |-> new, free |-> g[a].free]
                   ELSE g[a]
      /\ L2 = IF L = s THEN new ELSE L

\* A free segment of len bytes is linked behind the last one, as in expandHeap.
IsGrow(g, L, e, len, g2) ==
  /\ DOMAIN g2 = DOMAIN g \cup {e}
  /\ g2[e] = [length |-> len, next |-> NULL, last |-> L, free |-> TRUE]
  /\ g2[L] = [length |-> g[L].length, next |-> e, last |-> g[L].last,
              free |-> g[L].free]
  /\ \A a \in DOMAIN g \ {L} : g2[a] = g[a]

\* The flag of segment s becomes f, as in malloc and free.
IsMark(g, s, f, g2) ==
  /\ DOMAIN g2 = DOMAIN g
  /\ g2[s] = [length |-> g[s].length, next |-> g[s].next, last |-> g[s].last,
              free |-> f]
  /\ \A a \in DOMAIN g \ {s} : g2[a] = g[a]

\* Facts about a chain that its proofs keep using.
LEMMA ChainFacts ==
  ASSUME NEW g, NEW L, NEW e, Chain(g, L, e), NEW s \in DOMAIN g
  PROVE  /\ s \in Nat \ {0}
         /\ g[s].length \in Nat /\ g[s].next \in Nat /\ g[s].last \in Nat
         /\ g[s].free \in BOOLEAN
         /\ g[s].next # NULL => /\ s # L
                                /\ g[s].next \in DOMAIN g
                                /\ g[s].next = s + HdrSize + g[s].length
                                /\ g[g[s].next].last = s
                                /\ g[s].next > s
         /\ g[s].last # NULL => /\ s # heapStart
                                /\ g[s].last \in DOMAIN g
                                /\ g[g[s].last].next = s
                                /\ g[s].last < s
         /\ g[s].next = NULL => s = L
         /\ g[s].last = NULL => s = heapStart
<1> USE HeapAssumption DEF Chain, Header, NULL
<1>1. s \in Nat \ {0} /\ g[s] \in Header
  OBVIOUS
<1>2. /\ g[s].length \in Nat /\ g[s].next \in Nat /\ g[s].last \in Nat
      /\ g[s].free \in BOOLEAN
  BY <1>1
<1>3. g[s].next # NULL => /\ s # L
                          /\ g[s].next \in DOMAIN g
                          /\ g[s].next = s + HdrSize + g[s].length
                          /\ g[g[s].next].last = s
                          /\ g[s].next > s
  BY <1>2
<1>4. g[s].next = NULL => s = L
  BY <1>2
<1>5. g[s].last # NULL => /\ s # heapStart
                          /\ g[s].last \in DOMAIN g
                          /\ g[g[s].last].next = s
  BY <1>2
<1>6. g[s].last # NULL => g[s].last < s
  <2> SUFFICES ASSUME g[s].last # NULL PROVE g[s].last < s
    OBVIOUS
  <2> DEFINE l == g[s].last
  <2>1. l \in DOMAIN g /\ g[l].next = s /\ l # L
    BY <1>5, <1>1
  <2>2. g[l] \in Header /\ l \in Nat
    BY <2>1
  <2>3. s = l + HdrSize + g[l].length
    BY <2>1
  <2> QED BY <2>2, <2>3
<1>7. g[s].last = NULL => s = heapStart
  BY <1>1
<1> QED BY <1>1, <1>2, <1>3, <1>4, <1>5, <1>6, <1>7

\* Joining two neighbours keeps the chain.
LEMMA JoinChain ==
  ASSUME NEW g, NEW L, NEW e, Chain(g, L, e), NEW s \in DOMAIN g, g[s].next # NULL,
         NEW g2, NEW L2, IsJoin(g, L, s, g2, L2)
  PROVE  Chain(g2, L2, e)
<1> DEFINE n == g[s].next
           m == g[n].next
<1>1. /\ n \in DOMAIN g /\ n = s + HdrSize + g[s].length /\ g[n].last = s /\ n > s
      /\ s # L /\ s \in Nat \ {0} /\ n \in Nat
  BY ChainFacts DEF NULL
<1>2. /\ m \in Nat
      /\ m # NULL => /\ n # L /\ m \in DOMAIN g /\ m = n + HdrSize + g[n].length
                     /\ g[m].last = n /\ m > n
      /\ m = NULL => n = L
  BY <1>1, ChainFacts
<1> HIDE DEF n, m
<1>3. /\ DOMAIN g2 = DOMAIN g \ {n}
      /\ g2[s] = [length |-> g[s].length + g[n].length + HdrSize,
                  next |-> m, last |-> g[s].last, free |-> g[s].free]
      /\ \A a \in DOMAIN g \ {n, s} :
           g2[a] = IF a = m
                   THEN [length |-> g[a].length, next |-> g[a].next,
                         last |-> s, free |-> g[a].free]
                   ELSE g[a]
      /\ L2 = IF n = L THEN s ELSE L
  BY DEF IsJoin, n, m
<1>4. HdrSize \in Nat \ {0}
  BY HeapAssumption
<1>5. \A a \in DOMAIN g : /\ a \in Nat \ {0} /\ g[a] \in Header
                          /\ g[a].length \in Nat /\ g[a].next \in Nat
                          /\ g[a].last \in Nat /\ g[a].free \in BOOLEAN
  BY ChainFacts DEF Chain
<1>6. /\ g2[s].length = g[s].length + g[n].length + HdrSize
      /\ g2[s].next = m /\ g2[s].last = g[s].last /\ g2[s].free = g[s].free
      /\ \A a \in DOMAIN g \ {n, s} :
           /\ g2[a].length = g[a].length /\ g2[a].next = g[a].next
           /\ g2[a].free = g[a].free
           /\ g2[a].last = IF a = m THEN s ELSE g[a].last
  <2>1. /\ g2[s].length = g[s].length + g[n].length + HdrSize
        /\ g2[s].next = m /\ g2[s].last = g[s].last /\ g2[s].free = g[s].free
    BY <1>3
  <2>2. ASSUME NEW a \in DOMAIN g \ {n, s}
        PROVE  /\ g2[a].length = g[a].length /\ g2[a].next = g[a].next
               /\ g2[a].free = g[a].free
               /\ g2[a].last = IF a = m THEN s ELSE g[a].last
    <3>1. CASE a = m
      <4>1. g2[a] = [length |-> g[a].length, next |-> g[a].next,
                     last |-> s, free |-> g[a].free]
        BY <3>1, <1>3
      <4> QED BY <4>1, <3>1
    <3>2. CASE a # m
      BY <3>2, <1>3
    <3> QED BY <3>1, <3>2
  <2> QED BY <2>1, <2>2
<1>7. DOMAIN g2 \subseteq Nat \ {0} /\ s \in DOMAIN g2
  BY <1>1, <1>3, <1>5
<1>8. \A a \in DOMAIN g2 : g2[a] \in Header
  <2>1. g2[s] \in Header
    BY <1>1, <1>2, <1>3, <1>4, <1>5 DEF Header
  <2>2. ASSUME NEW a \in DOMAIN g \ {n, s} PROVE g2[a] \in Header
    <3>1. CASE a = m
      <4>1. g2[a] = [length |-> g[a].length, next |-> g[a].next,
                     last |-> s, free |-> g[a].free]
        BY <3>1, <1>3
      <4> QED BY <4>1, <1>1, <1>5 DEF Header
    <3>2. CASE a # m
      BY <3>2, <1>3, <1>5
    <3> QED BY <3>1, <3>2
  <2> QED BY <2>1, <2>2, <1>3
<1>9. heapStart # n
  BY <1>1, <1>4 DEF Chain, NULL
<1>10. heapStart \in DOMAIN g2 /\ L2 \in DOMAIN g2
  BY <1>1, <1>3, <1>9 DEF Chain
<1>11. g2[heapStart].last = NULL
  <2>1. heapStart \in DOMAIN g /\ g[heapStart].last = NULL
    BY DEF Chain
  <2>2. heapStart # m
    BY <2>1, <1>1, <1>2, HeapAssumption DEF NULL
  <2>3. CASE heapStart = s
    BY <2>1, <2>3, <1>6
  <2>4. CASE heapStart # s
    BY <2>1, <2>2, <2>4, <1>6, <1>9
  <2> QED BY <2>3, <2>4
<1>12. g2[L2].next = NULL /\ L2 + HdrSize + g2[L2].length = e
  <2>1. L \in DOMAIN g /\ g[L].next = NULL /\ L + HdrSize + g[L].length = e
    BY DEF Chain
  <2>2. CASE n = L
    <3>1. L2 = s /\ m = NULL
      BY <2>1, <2>2, <1>3 DEF m
    <3>2. g[n].length \in Nat /\ g[s].length \in Nat
      BY <1>1, <1>5
    <3>3. s + HdrSize + (g[s].length + g[n].length + HdrSize) = n + HdrSize + g[n].length
      BY <3>2, <1>1, <1>4
    <3> QED BY <2>1, <2>2, <3>1, <3>3, <1>6
  <2>3. CASE n # L
    BY <2>1, <2>3, <1>1, <1>3, <1>6
  <2> QED BY <2>2, <2>3
<1>13. \A a \in DOMAIN g2 \ {L2} : /\ g2[a].next = a + HdrSize + g2[a].length
                                   /\ g2[a].next \in DOMAIN g2
                                   /\ g2[g2[a].next].last = a
  <2> SUFFICES ASSUME NEW a \in DOMAIN g2 \ {L2}
               PROVE  /\ g2[a].next = a + HdrSize + g2[a].length
                      /\ g2[a].next \in DOMAIN g2
                      /\ g2[g2[a].next].last = a
    OBVIOUS
  <2>1. CASE a = s
    <3>1. n # L /\ m # NULL
      BY <2>1, <1>1, <1>2, <1>3 DEF Chain
    <3> QED BY <2>1, <3>1, <1>1, <1>2, <1>3, <1>4, <1>5, <1>6
  <2>2. CASE a # s
    <3>1. a \in DOMAIN g /\ a # n /\ a # L
      BY <2>2, <1>1, <1>2, <1>3
    <3>2. /\ g[a].next = a + HdrSize + g[a].length /\ g[a].next \in DOMAIN g
          /\ g[g[a].next].last = a
      BY <3>1 DEF Chain
    <3>3. g[a].next # n
      BY <3>2, <1>1, <2>2
    <3>4. g[a].next = m => m = NULL
      BY <3>1, <3>2, <1>2
    <3>5. g[a].next # m
      BY <3>2, <3>4, <1>5 DEF NULL
    <3>6. g[a].next = s => g2[s].last = a
      BY <3>2, <1>6
    <3>7. g[a].next # s => g2[g[a].next].last = a
      BY <3>2, <3>3, <3>5, <1>6
    <3> QED BY <3>1, <3>2, <3>3, <3>6, <3>7, <2>2, <1>3, <1>6
  <2> QED BY <2>1, <2>2
<1>14. \A a \in DOMAIN g2 \ {heapStart} : /\ g2[a].last \in DOMAIN g2
                                          /\ g2[g2[a].last].next = a
  <2> SUFFICES ASSUME NEW a \in DOMAIN g2 \ {heapStart}
               PROVE  g2[a].last \in DOMAIN g2 /\ g2[g2[a].last].next = a
    OBVIOUS
  <2>1. a \in DOMAIN g \ {n}
    BY <1>3
  <2>2. g[a].last \in DOMAIN g /\ g[g[a].last].next = a
    BY <2>1 DEF Chain
  <2>3. CASE a = m /\ a # s
    BY <2>3, <2>1, <1>6, <1>7
  <2>4. CASE a # m \/ a = s
    <3>1. g2[a].last = g[a].last
      BY <2>4, <2>1, <1>6
    <3>2. g[a].last # n
      <4> SUFFICES ASSUME g[a].last = n PROVE FALSE
        OBVIOUS
      <4>1. a = m
        BY <2>2 DEF m
      <4> QED BY <4>1, <2>4, <1>1, <1>2, <2>1, <1>5 DEF NULL
    <3>3. g[a].last # s
      BY <2>2, <2>1 DEF n
    <3> QED BY <3>1, <3>2, <3>3, <2>2, <1>3, <1>6
  <2> QED BY <2>3, <2>4
<1>15. \A a, b \in DOMAIN g2 : a < b => a + HdrSize + g2[a].length <= b
  <2> SUFFICES ASSUME NEW a \in DOMAIN g2, NEW b \in DOMAIN g2, a < b
               PROVE  a + HdrSize + g2[a].length <= b
    OBVIOUS
  <2>1. a \in DOMAIN g \ {n} /\ b \in DOMAIN g \ {n}
    BY <1>3
  <2>2. a + HdrSize + g[a].length <= b
    BY <2>1 DEF Chain
  <2>3. CASE a # s
    BY <2>1, <2>2, <2>3, <1>6
  <2>4. CASE a = s
    <3>1. n < b
      BY <2>4, <2>2, <2>1, <1>1, <1>5
    <3>2. n + HdrSize + g[n].length <= b
      BY <3>1, <2>1, <1>1 DEF Chain
    <3> QED BY <3>2, <2>1, <2>4, <1>1, <1>4, <1>5, <1>6
  <2> QED BY <2>3, <2>4
<1>16. \A a \in DOMAIN g2 : a <= L2
  <2> SUFFICES ASSUME NEW a \in DOMAIN g2 PROVE a <= L2
    OBVIOUS
  <2>1. a \in DOMAIN g \ {n} /\ a <= L /\ a \in Nat
    BY <1>3, <1>5 DEF Chain
  <2>2. CASE n = L
    <3>1. s < a => s + HdrSize + g[s].length <= a
      BY <2>1 DEF Chain
    <3>2. ~(s < a)
      BY <3>1, <2>1, <2>2, <1>1
    <3>3. a <= s
      BY <3>2, <2>1, <1>1
    <3>4. L2 = s
      BY <2>2, <1>3
    <3> QED BY <3>3, <3>4
  <2>3. CASE n # L
    BY <2>1, <2>3, <1>3
  <2> QED BY <2>2, <2>3
<1> QED BY <1>7, <1>8, <1>10, <1>11, <1>12, <1>13, <1>14, <1>15, <1>16 DEF Chain

\* Cutting a segment that is long enough keeps the chain.
LEMMA SplitChain ==
  ASSUME NEW g, NEW L, NEW e, Chain(g, L, e), NEW s \in DOMAIN g,
         NEW size \in Nat, g[s].length - size - HdrSize >= 0,
         NEW g2, NEW L2, IsSplit(g, L, s, size, g2, L2)
  PROVE  Chain(g2, L2, e) /\ s + HdrSize + size \notin DOMAIN g
<1> DEFINE new == s + HdrSize + size
           n == g[s].next
<1>1. HdrSize \in Nat \ {0}
  BY HeapAssumption
<1>2. \A a \in DOMAIN g : /\ a \in Nat \ {0} /\ g[a] \in Header
                          /\ g[a].length \in Nat /\ g[a].next \in Nat
                          /\ g[a].last \in Nat /\ g[a].free \in BOOLEAN
  BY ChainFacts DEF Chain
<1>3. /\ n # NULL => /\ n \in DOMAIN g /\ n = s + HdrSize + g[s].length
                     /\ g[n].last = s /\ s # L
      /\ n = NULL => s = L
  BY ChainFacts
<1>4. new \in Nat \ {0} /\ new > s
  BY <1>1, <1>2
<1>5. new \notin DOMAIN g
  <2>1. new \in DOMAIN g => s + HdrSize + g[s].length <= new
    BY <1>4 DEF Chain
  <2> QED BY <2>1, <1>1, <1>2
<1>6. new + HdrSize + (g[s].length - size - HdrSize) = s + HdrSize + g[s].length
  BY <1>1, <1>2
<1>7. g[s].length - size - HdrSize \in Nat
  BY <1>1, <1>2
<1>8. /\ DOMAIN g2 = DOMAIN g \cup {new}
      /\ g2[new] = [length |-> g[s].length - size - HdrSize,
                    next |-> n, last |-> s, free |-> g[s].free]
      /\ g2[s] = [length |-> size, next |-> new, last |-> g[s].last,
                  free |-> g[s].free]
      /\ \A a \in DOMAIN g \ {s} :
           g2[a] = IF a = n
                   THEN [length |-> g[a].length, next |-> g[a].next,
                         last |-> new, free |-> g[a].free]
                   ELSE g[a]
      /\ L2 = IF L = s THEN new ELSE L
  BY DEF IsSplit
<1> HIDE DEF new, n
<1>9. \A a \in DOMAIN g \ {s} :
        /\ g2[a] \in Header
        /\ g2[a].length = g[a].length /\ g2[a].next = g[a].next
        /\ g2[a].last = IF a = n THEN new ELSE g[a].last
  <2> SUFFICES ASSUME NEW a \in DOMAIN g \ {s}
               PROVE  /\ g2[a] \in Header
                      /\ g2[a].length = g[a].length /\ g2[a].next = g[a].next
                      /\ g2[a].last = IF a = n THEN new ELSE g[a].last
    OBVIOUS
  <2>1. CASE a = n
    <3>1. g2[a] = [length |-> g[a].length, next |-> g[a].next,
                   last |-> new, free |-> g[a].free]
      BY <2>1, <1>8
    <3> QED BY <3>1, <2>1, <1>2, <1>4 DEF Header
  <2>2. CASE a # n
    BY <2>2, <1>2, <1>8
  <2> QED BY <2>1, <2>2
<1>10. /\ g2[s].length = size /\ g2[s].next = new /\ g2[s].last = g[s].last
       /\ g2[s] \in Header
  BY <1>2, <1>4, <1>8 DEF Header
<1>11. /\ g2[new].length = g[s].length - size - HdrSize /\ g2[new].next = n
       /\ g2[new].last = s /\ g2[new] \in Header
  BY <1>2, <1>7, <1>8, n \in Nat DEF Header, n
<1>12. /\ DOMAIN g2 \subseteq Nat \ {0} /\ \A a \in DOMAIN g2 : g2[a] \in Header
       /\ heapStart \in DOMAIN g2 /\ L2 \in DOMAIN g2
  BY <1>2, <1>4, <1>8, <1>9, <1>10, <1>11 DEF Chain
<1>13. g2[heapStart].last = NULL
  <2>1. heapStart \in DOMAIN g /\ g[heapStart].last = NULL
    BY DEF Chain
  <2>2. heapStart # n
    BY <2>1, <1>2, <1>3 DEF NULL
  <2> QED BY <2>1, <2>2, <1>9, <1>10
<1>14. g2[L2].next = NULL /\ L2 + HdrSize + g2[L2].length = e
  <2>1. L \in DOMAIN g /\ g[L].next = NULL /\ L + HdrSize + g[L].length = e
    BY DEF Chain
  <2>2. CASE L = s
    BY <2>1, <2>2, <1>6, <1>8, <1>11 DEF n, new
  <2>3. CASE L # s
    BY <2>1, <2>3, <1>8, <1>9
  <2> QED BY <2>2, <2>3
<1>15. \A a \in DOMAIN g2 \ {L2} : /\ g2[a].next = a + HdrSize + g2[a].length
                                   /\ g2[a].next \in DOMAIN g2
                                   /\ g2[g2[a].next].last = a
  <2> SUFFICES ASSUME NEW a \in DOMAIN g2 \ {L2}
               PROVE  /\ g2[a].next = a + HdrSize + g2[a].length
                      /\ g2[a].next \in DOMAIN g2
                      /\ g2[g2[a].next].last = a
    OBVIOUS
  <2>1. CASE a = s
    BY <2>1, <1>8, <1>10, <1>11 DEF new
  <2>2. CASE a = new
    <3>1. s # L
      BY <2>2, <1>8
    <3>2. /\ n # NULL /\ n \in DOMAIN g \ {s} /\ n = s + HdrSize + g[s].length
      BY <3>1, <1>1, <1>2, <1>3
    <3>3. new + HdrSize + g2[new].length = n
      BY <3>2, <1>6, <1>11 DEF new
    <3> QED BY <2>2, <3>2, <3>3, <1>8, <1>9, <1>11
  <2>3. CASE a # s /\ a # new
    <3>1. a \in DOMAIN g /\ a # L
      BY <2>3, <1>8
    <3>2. /\ g[a].next = a + HdrSize + g[a].length /\ g[a].next \in DOMAIN g
          /\ g[g[a].next].last = a
      BY <3>1 DEF Chain
    <3>3. g[a].next # n
      BY <3>2, <1>2, <1>3, <2>3 DEF NULL
    <3>4. g2[g[a].next].last = a
      BY <3>2, <3>3, <1>9, <1>10
    <3> QED BY <3>1, <3>2, <3>4, <2>3, <1>8, <1>9
  <2> QED BY <2>1, <2>2, <2>3
<1>16. \A a \in DOMAIN g2 \ {heapStart} : /\ g2[a].last \in DOMAIN g2
                                          /\ g2[g2[a].last].next = a
  <2> SUFFICES ASSUME NEW a \in DOMAIN g2 \ {heapStart}
               PROVE  g2[a].last \in DOMAIN g2 /\ g2[g2[a].last].next = a
    OBVIOUS
  <2>1. CASE a = new
    BY <2>1, <1>8, <1>10, <1>11
  <2>2. CASE a # new
    <3>1. a \in DOMAIN g /\ g[a].last \in DOMAIN g /\ g[g[a].last].next = a
      BY <2>2, <1>8 DEF Chain
    <3>2. CASE a = n /\ a # s
      BY <3>2, <3>1, <1>8, <1>9, <1>11
    <3>3. CASE a # n \/ a = s
      <4>1. g2[a].last = g[a].last
        BY <3>1, <3>3, <1>9, <1>10
      <4>2. g[a].last # s
        <5> SUFFICES ASSUME g[a].last = s PROVE FALSE
          OBVIOUS
        <5>1. a = n
          BY <3>1 DEF n
        <5> QED BY <5>1, <3>1, <3>3, <1>1, <1>2, <1>3 DEF NULL
      <4> QED BY <4>1, <4>2, <3>1, <1>8, <1>9
    <3> QED BY <3>2, <3>3
  <2> QED BY <2>1, <2>2
<1>17. \A a, b \in DOMAIN g2 : a < b => a + HdrSize + g2[a].length <= b
  <2> SUFFICES ASSUME NEW a \in DOMAIN g2, NEW b \in DOMAIN g2, a < b
               PROVE  a + HdrSize + g2[a].length <= b
    OBVIOUS
  <2>1. a \in Nat /\ b \in Nat /\ s \in Nat
    BY <1>2, <1>12
  <2>2. CASE a = s
    <3>1. CASE b = new
      BY <2>1, <2>2, <3>1, <1>1, <1>10 DEF new
    <3>2. CASE b # new
      <4>1. s + HdrSize + g[s].length <= b
        BY <2>2, <3>2, <1>8 DEF Chain
      <4> QED BY <4>1, <2>1, <2>2, <1>1, <1>2, <1>7, <1>10
    <3> QED BY <3>1, <3>2
  <2>3. CASE a = new
    <3>1. b \in DOMAIN g /\ s < b
      BY <2>1, <2>3, <1>4, <1>8
    <3>2. s + HdrSize + g[s].length <= b
      BY <3>1 DEF Chain
    <3> QED BY <3>2, <2>3, <1>6, <1>11 DEF new
  <2>4. CASE a # s /\ a # new
    <3>1. a \in DOMAIN g /\ g2[a].length = g[a].length
      BY <2>4, <1>8, <1>9
    <3>2. CASE b = new
      <4>1. ~(s < a)
        <5>1. s < a => s + HdrSize + g[s].length <= a
          BY <3>1 DEF Chain
        <5> QED BY <5>1, <2>1, <3>2, <1>1, <1>2, <1>7 DEF new
      <4>2. a + HdrSize + g[a].length <= s
        BY <4>1, <3>1, <2>1, <2>4 DEF Chain
      <4> QED BY <4>2, <3>1, <3>2, <2>1, <1>1, <1>2, <1>4
    <3>3. CASE b # new
      BY <3>1, <3>3, <1>8 DEF Chain
    <3> QED BY <3>2, <3>3
  <2> QED BY <2>2, <2>3, <2>4
<1>18. \A a \in DOMAIN g2 : a <= L2
  <2>1. \A a \in DOMAIN g : a <= L
    BY DEF Chain
  <2>2. CASE L = s
    BY <2>1, <2>2, <1>2, <1>4, <1>8
  <2>3. CASE L # s
    <3>1. L \in DOMAIN g /\ s < L
      <4>1. L \in DOMAIN g /\ L \in Nat /\ s \in Nat /\ s <= L
        BY <2>1, <1>2 DEF Chain
      <4> QED BY <4>1, <2>3
    <3>2. s + HdrSize + g[s].length <= L
      BY <3>1 DEF Chain
    <3>3. new <= L
      BY <3>1, <3>2, <1>1, <1>2, <1>7 DEF new
    <3> QED BY <2>1, <2>3, <3>3, <1>8
  <2> QED BY <2>2, <2>3
<1> QED BY <1>5, <1>12, <1>13, <1>14, <1>15, <1>16, <1>17, <1>18 DEF Chain, new

\* Appending a segment keeps the chain, with a new end.
LEMMA GrowChain ==
  ASSUME NEW g, NEW L, NEW e, Chain(g, L, e), NEW len \in Nat,
         NEW g2, IsGrow(g, L, e, len, g2)
  PROVE  Chain(g2, e, e + HdrSize + len) /\ e \notin DOMAIN g /\ e > L
<1>1. HdrSize \in Nat \ {0}
  BY HeapAssumption
<1>2. \A a \in DOMAIN g : /\ a \in Nat \ {0} /\ g[a] \in Header
                          /\ g[a].length \in Nat /\ g[a].next \in Nat
                          /\ g[a].last \in Nat /\ g[a].free \in BOOLEAN
  BY ChainFacts DEF Chain
<1>3. /\ L \in DOMAIN g /\ g[L].next = NULL /\ L + HdrSize + g[L].length = e
      /\ heapStart \in DOMAIN g /\ g[heapStart].last = NULL
      /\ \A a \in DOMAIN g : a <= L
  BY DEF Chain
<1>4. e \in Nat \ {0} /\ e > L /\ L \in Nat /\ \A a \in DOMAIN g : a < e
  BY <1>1, <1>2, <1>3
<1>5. e \notin DOMAIN g
  BY <1>2, <1>4
<1>6. /\ DOMAIN g2 = DOMAIN g \cup {e}
      /\ g2[e] = [length |-> len, next |-> NULL, last |-> L, free |-> TRUE]
      /\ g2[L] = [length |-> g[L].length, next |-> e, last |-> g[L].last,
                  free |-> g[L].free]
      /\ \A a \in DOMAIN g \ {L} : g2[a] = g[a]
  BY DEF IsGrow
<1>7. /\ g2[e].length = len /\ g2[e].next = NULL /\ g2[e].last = L
      /\ g2[e] \in Header
  BY <1>4, <1>6 DEF Header, NULL
<1>8. /\ g2[L].length = g[L].length /\ g2[L].next = e /\ g2[L].last = g[L].last
      /\ g2[L] \in Header
  BY <1>2, <1>3, <1>4, <1>6 DEF Header
<1>9. \A a \in DOMAIN g : g2[a].length = g[a].length /\ g2[a].last = g[a].last
  BY <1>6, <1>8
<1>10. /\ DOMAIN g2 \subseteq Nat \ {0} /\ \A a \in DOMAIN g2 : g2[a] \in Header
       /\ heapStart \in DOMAIN g2 /\ e \in DOMAIN g2
  BY <1>2, <1>3, <1>4, <1>6, <1>7, <1>8
<1>11. g2[heapStart].last = NULL
  BY <1>3, <1>9
<1>12. \A a \in DOMAIN g2 \ {e} : /\ g2[a].next = a + HdrSize + g2[a].length
                                  /\ g2[a].next \in DOMAIN g2
                                  /\ g2[g2[a].next].last = a
  <2> SUFFICES ASSUME NEW a \in DOMAIN g
               PROVE  /\ g2[a].next = a + HdrSize + g2[a].length
                      /\ g2[a].next \in DOMAIN g2
                      /\ g2[g2[a].next].last = a
    BY <1>6
  <2>1. CASE a = L
    BY <2>1, <1>3, <1>6, <1>7, <1>8
  <2>2. CASE a # L
    <3>1. /\ g[a].next = a + HdrSize + g[a].length /\ g[a].next \in DOMAIN g
          /\ g[g[a].next].last = a
      BY <2>2 DEF Chain
    <3> QED BY <2>2, <3>1, <1>6, <1>9
  <2> QED BY <2>1, <2>2
<1>13. \A a \in DOMAIN g2 \ {heapStart} : /\ g2[a].last \in DOMAIN g2
                                          /\ g2[g2[a].last].next = a
  <2> SUFFICES ASSUME NEW a \in DOMAIN g2 \ {heapStart}
               PROVE  g2[a].last \in DOMAIN g2 /\ g2[g2[a].last].next = a
    OBVIOUS
  <2>1. CASE a = e
    BY <2>1, <1>3, <1>6, <1>7, <1>8
  <2>2. CASE a # e
    <3>1. a \in DOMAIN g /\ g[a].last \in DOMAIN g /\ g[g[a].last].next = a
      BY <2>2, <1>6 DEF Chain
    <3>2. g[a].last # L
      BY <3>1, <1>2, <1>3 DEF NULL
    <3> QED BY <3>1, <3>2, <1>6, <1>9
  <2> QED BY <2>1, <2>2
<1>14. \A a \in DOMAIN g2 : a <= e
  BY <1>2, <1>4, <1>6
<1>15. \A a, b \in DOMAIN g2 : a < b => a + HdrSize + g2[a].length <= b
  <2> SUFFICES ASSUME NEW a \in DOMAIN g2, NEW b \in DOMAIN g2, a < b
               PROVE  a + HdrSize + g2[a].length <= b
    OBVIOUS
  <2>1. a \in DOMAIN g
    BY <1>2, <1>4, <1>6
  <2>2. CASE b = e
    <3>1. CASE a = L
      BY <2>2, <3>1, <1>1, <1>2, <1>3, <1>8
    <3>2. CASE a # L
      <4>1. a < L
        BY <2>1, <3>2, <1>2, <1>3
      <4>2. a + HdrSize + g[a].length <= L
        BY <4>1, <2>1, <1>3 DEF Chain
      <4> QED BY <4>2, <2>1, <2>2, <1>1, <1>2, <1>4, <1>9
    <3> QED BY <3>1, <3>2
  <2>3. CASE b # e
    BY <2>1, <2>3, <1>6, <1>9 DEF Chain
  <2> QED BY <2>2, <2>3
<1> QED BY <1>4, <1>5, <1>7, <1>10, <1>11, <1>12, <1>13, <1>14, <1>15 DEF Chain

\* The flags are no part of the chain.
LEMMA MarkChain ==
  ASSUME NEW g, NEW L, NEW e, Chain(g, L, e), NEW s \in DOMAIN g,
         NEW f \in BOOLEAN, NEW g2, IsMark(g, s, f, g2)
  PROVE  Chain(g2, L, e)
<1>1. \A a \in DOMAIN g : /\ a \in Nat \ {0} /\ g[a] \in Header
                          /\ g[a].length \in Nat /\ g[a].next \in Nat
                          /\ g[a].last \in Nat /\ g[a].free \in BOOLEAN
  BY ChainFacts DEF Chain
<1>2. /\ DOMAIN g2 = DOMAIN g
      /\ g2[s] = [length |-> g[s].length, next |-> g[s].next,
                  last |-> g[s].last, free |-> f]
      /\ \A a \in DOMAIN g \ {s} : g2[a] = g[a]
  BY DEF IsMark
<1>3. \A a \in DOMAIN g : /\ g2[a] \in Header /\ g2[a].length = g[a].length
                          /\ g2[a].next = g[a].next /\ g2[a].last = g[a].last
  <2>1. /\ g2[s] \in Header /\ g2[s].length = g[s].length
        /\ g2[s].next = g[s].next /\ g2[s].last = g[s].last
    BY <1>1, <1>2 DEF Header
  <2> QED BY <2>1, <1>1, <1>2
<1> QED BY <1>2, <1>3 DEF Chain

-----------------------------------------------------------------------------
(* The member functions of HeapSegHdr are these changes of the chain.      *)

\* combineForward joins s and a free segment behind it, and else does nothing.
LEMMA ForwardJoins ==
  ASSUME NEW h, NEW e, Chain(h.seg, h.LastHdr, e), NEW s \in DOMAIN h.seg
  PROVE  LET n == h.seg[s].next
             r == combineForward(h, s)
         IN  IF n # NULL /\ h.seg[n].free
             THEN IsJoin(h.seg, h.LastHdr, s, r.seg, r.LastHdr)
             ELSE r = h
<1> DEFINE g == h.seg
           n == g[s].next
           m == g[n].next
           r == combineForward(h, s)
<1>1. CASE ~(n # NULL /\ g[n].free)
  BY <1>1 DEF combineForward
<1>2. CASE n # NULL /\ g[n].free
  <2>1. n \in DOMAIN g /\ n # s /\ m # s
    <3>1. n \in DOMAIN g /\ n > s /\ s \in Nat \ {0} /\ n \in Nat
      BY <1>2, ChainFacts
    <3>2. m # NULL => m > n /\ m \in Nat
      BY <3>1, ChainFacts
    <3> QED BY <3>1, <3>2 DEF NULL
  <2>2. /\ r.seg = [a \in DOMAIN g \ {n} |->
                      CASE a = s -> [g[s] EXCEPT !.length = @ + g[n].length + HdrSize,
                                                 !.next = m]
                        [] a = m -> [g[a] EXCEPT !.last = s]
                        [] OTHER -> g[a]]
        /\ r.LastHdr = IF n = h.LastHdr THEN s ELSE h.LastHdr
    BY <1>2 DEF combineForward
  <2>3. \A a \in DOMAIN g : g[a] \in Header
    BY DEF Chain
  <2> HIDE DEF r, m, n, g
  <2>4. r.seg[s] = [length |-> g[s].length + g[n].length + HdrSize,
                    next |-> m, last |-> g[s].last, free |-> g[s].free]
    <3>1. r.seg[s] = [g[s] EXCEPT !.length = @ + g[n].length + HdrSize, !.next = m]
      BY <2>1, <2>2, s \in DOMAIN g DEF g
    <3>2. g[s] \in Header
      BY <2>3 DEF g
    <3> QED BY <3>1, <3>2 DEF Header
  <2>5. ASSUME NEW a \in DOMAIN g \ {n, s}
        PROVE  r.seg[a] = IF a = m
                          THEN [length |-> g[a].length, next |-> g[a].next,
                                last |-> s, free |-> g[a].free]
                          ELSE g[a]
    <3>1. CASE a = m
      <4>1. r.seg[a] = [g[a] EXCEPT !.last = s]
        BY <2>1, <2>2, <3>1
      <4> QED BY <4>1, <3>1, <2>3 DEF Header
    <3>2. CASE a # m
      BY <2>2, <3>2
    <3> QED BY <3>1, <3>2
  <2>6. DOMAIN r.seg = DOMAIN g \ {n}
    BY <2>2
  <2>7. IsJoin(g, h.LastHdr, s, r.seg, r.LastHdr)
    BY <2>2, <2>4, <2>5, <2>6 DEF IsJoin, m, n
  <2> QED BY <2>7, <1>2 DEF g, n, r
<1> QED BY <1>1, <1>2

\* split cuts s under the condition of Splits, and else does nothing.
LEMMA SplitCuts ==
  ASSUME NEW h, NEW e, Chain(h.seg, h.LastHdr, e), NEW s \in DOMAIN h.seg,
         NEW size \in Nat
  PROVE  LET r == split(h, s, size)
         IN  IF Splits(h, s, size)
             THEN IsSplit(h.seg, h.LastHdr, s, size, r.seg, r.LastHdr)
             ELSE r = h
<1> DEFINE g == h.seg
           n == g[s].next
           new == s + size + HdrSize
           r == split(h, s, size)
<1>1. CASE ~Splits(h, s, size)
  BY <1>1 DEF split
<1>2. CASE Splits(h, s, size)
  <2>1. s \in Nat \ {0} /\ g[s].length \in Nat /\ n # s
    BY ChainFacts DEF NULL
  <2>2. HdrSize \in Nat \ {0} /\ Align \in Nat
    BY HeapAssumption
  <2>3. s + HdrSize + size = new /\ new # s
    BY <2>1, <2>2
  <2>4. new \notin DOMAIN g
    <3>1. new \in DOMAIN g => s + HdrSize + g[s].length <= new
      BY <2>1, <2>2 DEF Chain
    <3>2. g[s].length - size - HdrSize >= Align
      BY <1>2 DEF Splits
    <3> QED BY <3>1, <3>2, <2>1, <2>2
  <2>12. new # n
    <3>1. n # NULL => n \in DOMAIN g
      BY ChainFacts
    <3> QED BY <3>1, <2>1, <2>2, <2>4 DEF NULL
  <2> DEFINE tail == [length |-> g[s].length - size - HdrSize,
                      next |-> n, last |-> s, free |-> g[s].free]
             front == [g[s] EXCEPT !.length = size, !.next = new]
             behind == [g[n] EXCEPT !.last = new]
  <2>5. /\ r.seg = [a \in DOMAIN g \cup {new} |->
                      CASE a = new -> tail
                        [] a = s -> front
                        [] a = n -> behind
                        [] OTHER -> g[a]]
        /\ r.LastHdr = IF h.LastHdr = s THEN new ELSE h.LastHdr
    BY <1>2 DEF split
  <2>6. \A a \in DOMAIN g : g[a] \in Header
    BY DEF Chain
  <2> HIDE DEF r, n, new, g, tail, front, behind
  <2>7. r.seg[new] = tail
    BY <2>3, <2>12, <2>5
  <2>8. r.seg[s] = [length |-> size, next |-> new, last |-> g[s].last,
                    free |-> g[s].free]
    <3>1. r.seg[s] = front
      BY <2>1, <2>3, <2>5, s \in DOMAIN g DEF g
    <3>2. g[s] \in Header
      BY <2>6 DEF g
    <3> QED BY <3>1, <3>2 DEF Header, front
  <2>9. ASSUME NEW a \in DOMAIN g \ {s}
        PROVE  r.seg[a] = IF a = n
                          THEN [length |-> g[a].length, next |-> g[a].next,
                                last |-> new, free |-> g[a].free]
                          ELSE g[a]
    <3>1. CASE a = n
      <4>1. r.seg[a] = behind
        BY <2>4, <2>5, <3>1
      <4> QED BY <4>1, <3>1, <2>6 DEF Header, behind
    <3>2. CASE a # n
      BY <2>4, <2>5, <3>2
    <3> QED BY <3>1, <3>2
  <2>10. DOMAIN r.seg = DOMAIN g \cup {new}
    BY <2>5
  <2>11. IsSplit(g, h.LastHdr, s, size, r.seg, r.LastHdr)
    BY <2>3, <2>5, <2>7, <2>8, <2>9, <2>10 DEF IsSplit, n, tail
  <2> QED BY <2>11, <1>2 DEF g, r
<1> QED BY <1>1, <1>2

-----------------------------------------------------------------------------
(* Walks along the chain.                                                  *)

\* A nonempty set of naturals has a least element.
LEMMA NatLeast ==
  ASSUME NEW S \in SUBSET Nat, S # {}
  PROVE  \E x \in S : \A y \in S : x <= y
<1>1. PICK x \in S : \A y \in S : ~ (<<y, x>> \in OpToRel(<, Nat))
  BY NatLessThanWellFounded, WFMin
<1>2. \A y \in S : ~ (y < x)
  BY <1>1, Zenon DEF OpToRel
<1>3. \A y \in S : x <= y
  BY <1>2
<1> QED BY <1>3

\* What holds at the last segment, and at a segment when it holds at the next
\* one, holds along the chain: a walk over `next` ends.
LEMMA ChainInduct ==
  ASSUME NEW g, NEW L, NEW e, Chain(g, L, e), NEW S,
         \A a \in DOMAIN g : g[a].next = NULL \/ g[a].next \in S => a \in S
  PROVE  \A a \in DOMAIN g : a \in S
<1> SUFFICES ASSUME NEW b \in DOMAIN g, b \notin S PROVE FALSE
  OBVIOUS
<1> DEFINE D == {L - a : a \in DOMAIN g \ S}
<1>1. \A a \in DOMAIN g : a \in Nat /\ L \in Nat /\ a <= L
  BY DEF Chain
<1>2. D \in SUBSET Nat /\ D # {}
  BY <1>1
<1>3. PICK d \in D : \A y \in D : d <= y
  BY <1>2, NatLeast
<1>4. PICK a \in DOMAIN g \ S : d = L - a
  BY <1>3
<1>5. g[a].next # NULL /\ g[a].next \notin S
  BY <1>4
<1>6. g[a].next \in DOMAIN g /\ g[a].next > a
  BY <1>5, ChainFacts
<1>7. L - g[a].next \in D
  BY <1>5, <1>6
<1>8. d <= L - g[a].next
  BY <1>3, <1>7
<1> QED BY <1>1, <1>4, <1>6, <1>8

\* The chain starts at heapStart.
LEMMA HeapStartLeast ==
  ASSUME NEW g, NEW L, NEW e, Chain(g, L, e)
  PROVE  \A a \in DOMAIN g : heapStart <= a
<1>1. DOMAIN g \in SUBSET Nat /\ DOMAIN g # {}
  BY DEF Chain
<1>2. PICK x \in DOMAIN g : \A y \in DOMAIN g : x <= y
  BY <1>1, NatLeast
<1>3. g[x].last # NULL => g[x].last \in DOMAIN g /\ g[x].last < x /\ g[x].last \in Nat
  BY ChainFacts
<1>4. g[x].last = NULL
  BY <1>1, <1>2, <1>3
<1>5. x = heapStart
  BY <1>4, ChainFacts
<1> QED BY <1>2, <1>5

\* The segments from a on are a and those from its next one on.
LEMMA NextIsNearest ==
  ASSUME NEW g, NEW L, NEW e, Chain(g, L, e), NEW a \in DOMAIN g,
         NEW b \in DOMAIN g, b > a
  PROVE  g[a].next # NULL /\ g[a].next <= b
<1>1. a \in Nat /\ b \in Nat /\ b <= L /\ L \in Nat
  BY DEF Chain
<1>2. a # L
  BY <1>1
<1>3. g[a].next # NULL
  BY <1>2, ChainFacts
<1>4. a + HdrSize + g[a].length <= b
  BY DEF Chain
<1> QED BY <1>3, <1>4, ChainFacts
===============================================================================
