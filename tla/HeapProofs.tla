------------------------------ MODULE HeapProofs ------------------------------
(***************************************************************************)
(* Proofs about the heap, for every page, header and alignment size and    *)
(* every set of request sizes: the chain of headers stays consistent       *)
(* through split, merge and growth, the blocks handed out own their        *)
(* segments, the recursion of malloc is at most two deep, and the heap     *)
(* implements BlockStore.                                                  *)
(***************************************************************************)
EXTENDS HeapUse

-----------------------------------------------------------------------------
(* The inductive invariant.                                                *)

\* Before initHeap, and for ever when it finds too few pages.
NoHeap ==
  /\ seg = <<>> /\ live = <<>> /\ pending = 0 /\ expansions = 0 /\ zeroed = {}
  /\ status # "ready"

HasHeap ==
  /\ Chain(seg, LastHdr, heapEnd) /\ heapEnd % PageSz = 0 /\ status # "boot"

\* What the calls of malloc by itself rely on: the first extension leaves a
\* free segment at the end that is short by at most its header.
Growing ==
  /\ (pending = 0) <=> (expansions = 0)
  /\ pending # 0 => pending >= Align
  /\ expansions <= 2
  /\ expansions = 1 =>
       /\ seg[LastHdr].free
       /\ seg[LastHdr].length >= RoundUp(pending, PageSz) - HdrSize
  /\ expansions = 2 => seg[LastHdr].free /\ seg[LastHdr].length >= pending

HeapInv ==
  /\ TypeOK
  /\ \A a \in DOMAIN live : live[a] \in Nat
  /\ NoHeap \/ HasHeap
  /\ Growing
  /\ FreeSegmentsMerged /\ LiveBlocksOwnSegments /\ WasteBounded
  /\ ZeroingSparesHeaders

-----------------------------------------------------------------------------
(* What the operations do to the chain.                                    *)

\* A header with another flag or another successor.
LEMMA HeaderExcept ==
  ASSUME NEW x \in Header, NEW v
  PROVE  /\ [x EXCEPT !.free = v] = [length |-> x.length, next |-> x.next,
                                     last |-> x.last, free |-> v]
         /\ [x EXCEPT !.next = v] = [length |-> x.length, next |-> v,
                                     last |-> x.last, free |-> x.free]
BY DEF Header

\* free and sfree: the segment of the block leaves the segments in use, the
\* others stay as they are, and its bytes lie in a free segment.
LEMMA ReleaseFacts ==
  ASSUME HasHeap, Merged(seg, {}), NEW address, address - HdrSize \in InUse(seg),
         Release(address)
  PROVE  LET s == address - HdrSize
         IN  /\ Chain(seg', LastHdr', heapEnd)
             /\ Merged(seg', {})
             /\ InUse(seg') = InUse(seg) \ {s}
             /\ SameLengths(seg, seg', InUse(seg) \ {s})
             /\ \E b \in DOMAIN seg' :
                  /\ seg'[b].free /\ b <= s
                  /\ s + HdrSize + seg[s].length <= b + HdrSize + seg'[b].length
             /\ UsedMem(seg') = UsedMem(seg) - seg[s].length - HdrSize
<1> DEFINE s == address - HdrSize
           h1 == [heap EXCEPT !.seg[s].free = TRUE]
           h2 == combineForward(h1, s)
           h3 == combineBackward(h2, s)
<1>1. Chain(seg, LastHdr, heapEnd) /\ s \in DOMAIN seg /\ ~seg[s].free
  BY DEF HasHeap, InUse
<1>2. seg' = h3.seg /\ LastHdr' = h3.LastHdr
  BY DEF Release
<1>3. h1.LastHdr = LastHdr /\ h1.seg = [seg EXCEPT ![s].free = TRUE]
  BY DEF heap
<1> HIDE DEF s, h1, h2, h3
<1>4. IsMark(seg, s, TRUE, h1.seg)
  <2>1. seg[s] \in Header
    BY <1>1 DEF Chain
  <2>2. [seg[s] EXCEPT !.free = TRUE]
          = [length |-> seg[s].length, next |-> seg[s].next,
             last |-> seg[s].last, free |-> TRUE]
    BY <2>1, HeaderExcept
  <2> QED BY <1>1, <1>3, <2>2 DEF IsMark
<1>5. Chain(h1.seg, h1.LastHdr, heapEnd)
  BY <1>1, <1>3, <1>4, MarkChain
<1>6. /\ InUse(h1.seg) = InUse(seg) \ {s}
      /\ SameLengths(seg, h1.seg, DOMAIN seg)
      /\ Merged(h1.seg, {s, h1.seg[s].last})
      /\ s \in DOMAIN h1.seg /\ h1.seg[s].free
  BY <1>1, <1>4, MarkFree
<1>7. /\ Chain(h2.seg, h2.LastHdr, heapEnd)
      /\ SameUse(h1.seg, h2.seg)
      /\ s \in DOMAIN h2.seg /\ h2.seg[s].free
      /\ h2.seg[s].last = h1.seg[s].last
      /\ Merged(h2.seg, {h2.seg[s].last})
  BY <1>5, <1>6, ForwardFacts DEF h2
<1>8. /\ Chain(h3.seg, h3.LastHdr, heapEnd)
      /\ SameUse(h2.seg, h3.seg)
      /\ Merged(h3.seg, {})
  BY <1>7, BackwardFacts DEF h3
<1>9. /\ InUse(seg') = InUse(seg) \ {s}
      /\ SameLengths(seg, seg', InUse(seg) \ {s})
  <2>1. InUse(h3.seg) = InUse(seg) \ {s}
    BY <1>6, <1>7, <1>8 DEF SameUse
  <2>2. InUse(seg) \subseteq DOMAIN seg
    BY DEF InUse
  <2> QED BY <1>2, <1>6, <1>7, <1>8, <2>1, <2>2 DEF SameUse, SameLengths
<1>10. \E b \in DOMAIN seg' :
         /\ seg'[b].free /\ b <= s
         /\ s + HdrSize + seg[s].length <= b + HdrSize + seg'[b].length
  <2>1. h1.seg[s].length = seg[s].length
    BY <1>1, <1>6 DEF SameLengths
  <2>2. PICK c \in DOMAIN h2.seg :
          /\ h2.seg[c].free /\ c <= s
          /\ s + HdrSize + seg[s].length <= c + HdrSize + h2.seg[c].length
    BY <1>6, <1>7, <2>1 DEF SameUse, FreeWithin
  <2>3. PICK b \in DOMAIN h3.seg :
          /\ h3.seg[b].free /\ b <= c
          /\ c + HdrSize + h2.seg[c].length <= b + HdrSize + h3.seg[b].length
    BY <1>8, <2>2 DEF SameUse, FreeWithin
  <2>4. /\ s \in Nat /\ c \in Nat /\ b \in Nat /\ HdrSize \in Nat
        /\ seg[s].length \in Nat /\ h2.seg[c].length \in Nat /\ h3.seg[b].length \in Nat
    BY <1>1, <1>7, <1>8, ChainFacts, HeapAssumption
  <2>5. /\ b <= s
        /\ s + HdrSize + seg[s].length <= b + HdrSize + h3.seg[b].length
    BY <2>2, <2>3, <2>4
  <2> QED BY <2>3, <2>5, <1>2
<1>11. UsedMem(seg') = UsedMem(seg) - seg[s].length - HdrSize
  <2>1. UsedMem(h1.seg) = UsedMem(seg) + Cost(h1.seg, s) - Cost(seg, s)
    <3> DEFINE b == TRUE
    <3>1. b \in BOOLEAN /\ IsMark(seg, s, b, h1.seg)
      BY <1>4
    <3> HIDE DEF b
    <3> QED BY <1>1, <3>1, MarkUsedMem
  <2>2. Cost(h1.seg, s) = 0 /\ Cost(seg, s) = seg[s].length + HdrSize
    BY <1>1, <1>6 DEF Cost
  <2>3. UsedMem(h3.seg) = UsedMem(h1.seg)
    BY <1>7, <1>8 DEF SameUse
  <2>4. UsedMem(seg) \in Nat
    <3>1. PICK f : IsSum(seg, f) /\ UsedMem(seg) = f[heapStart]
      BY <1>1, UsedMemSum
    <3> QED BY <3>1, <1>1 DEF IsSum, Chain
  <2>5. seg[s].length \in Nat /\ HdrSize \in Nat
    BY <1>1, ChainFacts, HeapAssumption
  <2> QED BY <1>2, <2>1, <2>2, <2>3, <2>4, <2>5
<1> QED BY <1>2, <1>8, <1>9, <1>10, <1>11 DEF s

\* expandHeap, when there are pages enough: the new segment joins a free one
\* before it, and the heap ends in a free segment.
LEMMA ExpandFacts ==
  ASSUME HasHeap, Merged(seg, {}), NEW size \in Nat \ {0}, expandHeap(size),
         ~(RoundUp(size, PageSz) \div PageSz > frames)
  PROVE  /\ Chain(seg', LastHdr', heapEnd') /\ heapEnd' % PageSz = 0
         /\ Merged(seg', {})
         /\ InUse(seg') = InUse(seg)
         /\ SameLengths(seg, seg', InUse(seg))
         /\ UsedMem(seg') = UsedMem(seg)
         /\ seg'[LastHdr'].free
         /\ seg'[LastHdr'].length >= RoundUp(size, PageSz) - HdrSize
         /\ seg[LastHdr].free =>
              seg'[LastHdr'].length = seg[LastHdr].length + RoundUp(size, PageSz)
<1> DEFINE length == RoundUp(size, PageSz)
           len == length - HdrSize
           tail == [length |-> len, next |-> NULL, last |-> LastHdr, free |-> TRUE]
           h1 == [seg |-> Put([seg EXCEPT ![LastHdr].next = heapEnd], heapEnd, tail),
                  LastHdr |-> heapEnd]
           h2 == combineBackward(h1, heapEnd)
<1>1. /\ Chain(seg, LastHdr, heapEnd) /\ heapEnd % PageSz = 0
      /\ LastHdr \in DOMAIN seg
  BY DEF HasHeap, Chain
<1>2. LastHdr \in Nat /\ seg[LastHdr].length \in Nat /\ HdrSize \in Nat /\ PageSz \in Nat \ {0}
  BY <1>1, ChainFacts, HeapAssumption
<1>3. heapEnd \in Nat /\ heapEnd = LastHdr + HdrSize + seg[LastHdr].length
  BY <1>1, <1>2 DEF Chain
<1>4. RoundUp(heapEnd, PageSz) = heapEnd
  BY <1>1, <1>2, <1>3, RoundUpFacts
<1>5. length \in Nat /\ length >= PageSz /\ length % PageSz = 0
  BY <1>2, RoundUpFacts
<1>6. len \in Nat /\ HdrSize + len = length
  BY <1>5, HeapAssumption
<1>7. /\ heapEnd' = heapEnd + length
      /\ seg' = h2.seg /\ LastHdr' = h2.LastHdr
  BY <1>4 DEF expandHeap
<1> HIDE DEF length
<1>8. IsGrow(seg, LastHdr, heapEnd, len, h1.seg) /\ h1.LastHdr = heapEnd
  <2>1. seg[LastHdr] \in Header
    BY <1>1 DEF Chain
  <2> DEFINE front == [length |-> seg[LastHdr].length, next |-> heapEnd,
                       last |-> seg[LastHdr].last, free |-> seg[LastHdr].free]
  <2>2. [seg[LastHdr] EXCEPT !.next = heapEnd] = front
    BY <2>1, HeaderExcept
  <2>3. \A a \in DOMAIN seg : a # heapEnd
    <3>1. \A a \in DOMAIN seg : a <= LastHdr /\ a \in Nat
      BY <1>1 DEF Chain
    <3>2. heapEnd > LastHdr
      BY <1>2, <1>3, HeapAssumption
    <3> QED BY <3>1, <3>2, <1>2, <1>3
  <2> DEFINE linked == [seg EXCEPT ![LastHdr].next = heapEnd]
  <2>4. /\ DOMAIN linked = DOMAIN seg /\ linked[LastHdr] = front
        /\ \A a \in DOMAIN seg \ {LastHdr} : linked[a] = seg[a]
    BY <1>1, <2>2
  <2> HIDE DEF linked, front, tail
  <2>5. h1.seg = Put(linked, heapEnd, tail) /\ h1.LastHdr = heapEnd
    BY DEF linked
  <2>6. /\ DOMAIN h1.seg = DOMAIN seg \cup {heapEnd}
        /\ h1.seg[heapEnd] = tail
        /\ \A a \in DOMAIN seg : h1.seg[a] = linked[a]
    BY <2>3, <2>4, <2>5 DEF Put
  <2> HIDE DEF h1
  <2> QED BY <1>1, <2>4, <2>5, <2>6 DEF IsGrow, front, tail
<1> HIDE DEF h1, h2, len, tail
<1>9. /\ Chain(h1.seg, h1.LastHdr, heapEnd + HdrSize + len)
      /\ UsedMem(h1.seg) = UsedMem(seg)
  BY <1>1, <1>6, <1>8, GrowChain, GrowUsedMem
<1>10. heapEnd + HdrSize + len = heapEnd'
  BY <1>2, <1>3, <1>5, <1>6, <1>7
<1> DEFINE e2 == heapEnd'
<1>17. Chain(h1.seg, h1.LastHdr, e2)
  BY <1>9, <1>10
<1> HIDE DEF e2
<1>11. /\ InUse(h1.seg) = InUse(seg)
       /\ SameLengths(seg, h1.seg, DOMAIN seg)
       /\ Merged(h1.seg, {LastHdr})
       /\ heapEnd \in DOMAIN h1.seg /\ h1.seg[heapEnd].free
       /\ h1.seg[heapEnd].last = LastHdr /\ h1.seg[heapEnd].length = len
       /\ h1.seg[LastHdr].free = seg[LastHdr].free
  <2>1. Chain(seg, LastHdr, heapEnd) /\ len \in Nat /\ Merged(seg, {})
    BY <1>1, <1>6
  <2>2. IsGrow(seg, LastHdr, heapEnd, len, h1.seg)
    BY <1>8
  <2>3. /\ InUse(h1.seg) = InUse(seg)
        /\ SameLengths(seg, h1.seg, DOMAIN seg)
        /\ Merged(h1.seg, {LastHdr})
    BY <2>1, <2>2, GrowFree
  <2>4. /\ heapEnd \in DOMAIN h1.seg /\ h1.seg[heapEnd].free
        /\ h1.seg[heapEnd].last = LastHdr /\ h1.seg[heapEnd].length = len
    BY <2>2 DEF IsGrow
  <2>5. h1.seg[LastHdr].free = seg[LastHdr].free
    BY <2>2 DEF IsGrow
  <2> QED BY <2>3, <2>4, <2>5
<1>12. h1.seg[LastHdr].length = seg[LastHdr].length /\ LastHdr # NULL
  BY <1>1, <1>11 DEF SameLengths, Chain, NULL
<1>13. /\ Chain(h2.seg, h2.LastHdr, e2)
       /\ SameUse(h1.seg, h2.seg)
       /\ Merged(h2.seg, {})
       /\ h2.seg[h2.LastHdr].free
       /\ h2.seg[h2.LastHdr].length >= len
       /\ seg[LastHdr].free =>
            h2.seg[h2.LastHdr].length = seg[LastHdr].length + len + HdrSize
  <2>1. /\ h1.LastHdr \in DOMAIN h1.seg /\ h1.seg[h1.LastHdr].free
        /\ Merged(h1.seg, {h1.seg[h1.LastHdr].last})
    BY <1>8, <1>11
  <2>2. h2 = combineBackward(h1, h1.LastHdr)
    BY <1>8 DEF h2
  <2>3. /\ Chain(h2.seg, h2.LastHdr, e2)
        /\ SameUse(h1.seg, h2.seg)
        /\ Merged(h2.seg, {})
        /\ h2.seg[h2.LastHdr].free
        /\ h2.seg[h2.LastHdr].length >= h1.seg[h1.LastHdr].length
        /\ LET l == h1.seg[h1.LastHdr].last
           IN  l # NULL /\ h1.seg[l].free =>
                 h2.seg[h2.LastHdr].length
                   = h1.seg[l].length + h1.seg[h1.LastHdr].length + HdrSize
    BY <1>17, <2>1, <2>2, BackwardFacts
  <2> QED BY <2>3, <1>8, <1>11, <1>12
<1>14. heapEnd' % PageSz = 0
  BY <1>1, <1>2, <1>3, <1>5, <1>7, ModAdd
<1>15. /\ InUse(seg') = InUse(seg)
       /\ SameLengths(seg, seg', InUse(seg))
       /\ UsedMem(seg') = UsedMem(seg)
  BY <1>7, <1>9, <1>11, <1>13 DEF SameUse, SameLengths, InUse
<1>16. seg[LastHdr].free => seg'[LastHdr'].length = seg[LastHdr].length + length
  BY <1>2, <1>5, <1>6, <1>7, <1>13
<1> QED BY <1>7, <1>13, <1>14, <1>15, <1>16 DEF length, len, e2

\* malloc, when a segment fits: it takes that segment, or the front of it.
LEMMA TakeFacts ==
  ASSUME HasHeap, Merged(seg, {}), NEW size \in Nat, size >= Align,
         FirstFit(size) # NULL, mallocBody(size)
  PROVE  LET s == FirstFit(size)
         IN  /\ s \in DOMAIN seg /\ seg[s].free
             /\ Chain(seg', LastHdr', heapEnd)
             /\ Merged(seg', {})
             /\ InUse(seg') = InUse(seg) \cup {s}
             /\ SameLengths(seg, seg', InUse(seg))
             /\ seg'[s].length >= size
             /\ seg'[s].length < size + HdrSize + Align
             /\ UsedMem(seg') = UsedMem(seg) + seg'[s].length + HdrSize
<1> DEFINE s == FirstFit(size)
           h == split(heap, s, size)
<1>1. /\ Chain(seg, LastHdr, heapEnd)
      /\ heap.seg = seg /\ heap.LastHdr = LastHdr
  BY DEF HasHeap, heap
<1>2. s \in DOMAIN seg /\ seg[s].free /\ seg[s].length >= size
  BY <1>1, FirstFitFacts DEF Fits
<1>3. seg' = [h.seg EXCEPT ![s].free = FALSE] /\ LastHdr' = h.LastHdr
  BY DEF mallocBody
<1>4. seg[s].length \in Nat /\ HdrSize \in Nat /\ Align \in Nat
  BY <1>1, <1>2, ChainFacts, HeapAssumption
<1> HIDE DEF s, h
<1>5. /\ Chain(h.seg, h.LastHdr, heapEnd)
      /\ InUse(h.seg) = InUse(seg)
      /\ SameLengths(seg, h.seg, InUse(seg))
      /\ Merged(h.seg, {s})
      /\ s \in DOMAIN h.seg
      /\ h.seg[s].length >= size /\ h.seg[s].length < size + HdrSize + Align
      /\ UsedMem(h.seg) = UsedMem(seg)
  <2>1. CASE Splits(heap, s, size)
    <3>1. IsSplit(seg, LastHdr, s, size, h.seg, h.LastHdr)
      BY <1>1, <1>2, <2>1, SplitCuts DEF h
    <3>2. seg[s].length - size - HdrSize >= 0
      BY <2>1, <1>1, <1>4 DEF Splits
    <3>3. Chain(h.seg, h.LastHdr, heapEnd) /\ UsedMem(h.seg) = UsedMem(seg)
      BY <1>1, <1>2, <3>1, <3>2, SplitChain, SplitUsedMem
    <3>4. /\ InUse(h.seg) = InUse(seg)
          /\ SameLengths(seg, h.seg, InUse(seg))
          /\ Merged(h.seg, {s})
          /\ s \in DOMAIN h.seg /\ h.seg[s].length = size
      BY <1>1, <1>2, <3>1, <3>2, SplitFree
    <3>5. h.seg[s].length >= size /\ h.seg[s].length < size + HdrSize + Align
      BY <3>4, <1>4, HeapAssumption
    <3> QED BY <3>3, <3>4, <3>5
  <2>2. CASE ~Splits(heap, s, size)
    <3>1. h = heap
      BY <1>1, <1>2, <2>2, SplitCuts DEF h
    <3>2. seg[s].length < size + HdrSize + Align
      BY <2>2, <1>1, <1>4 DEF Splits
    <3> QED BY <3>1, <3>2, <1>1, <1>2 DEF SameLengths, Merged
  <2> QED BY <2>1, <2>2
<1>6. IsMark(h.seg, s, FALSE, seg')
  <2>1. h.seg[s] \in Header
    BY <1>5 DEF Chain
  <2>2. [h.seg[s] EXCEPT !.free = FALSE]
          = [length |-> h.seg[s].length, next |-> h.seg[s].next,
             last |-> h.seg[s].last, free |-> FALSE]
    BY <2>1, HeaderExcept
  <2> QED BY <1>3, <1>5, <2>2 DEF IsMark
<1>7. /\ InUse(seg') = InUse(h.seg) \cup {s}
      /\ SameLengths(h.seg, seg', DOMAIN h.seg)
      /\ Merged(seg', {})
  BY <1>5, <1>6, MarkUsed
<1>8. /\ Chain(seg', LastHdr', heapEnd)
      /\ UsedMem(seg') = UsedMem(h.seg) + Cost(seg', s) - Cost(h.seg, s)
  <2> DEFINE b == FALSE
  <2>1. b \in BOOLEAN /\ IsMark(h.seg, s, b, seg')
    BY <1>6
  <2> HIDE DEF b
  <2> QED BY <1>3, <1>5, <2>1, MarkChain, MarkUsedMem
<1>9. seg'[s].length = h.seg[s].length /\ ~seg'[s].free /\ h.seg[s].free
  <2>1. s \in InUse(seg') /\ s \notin InUse(h.seg)
    BY <1>2, <1>5, <1>7 DEF InUse
  <2> QED BY <2>1, <1>5, <1>7 DEF InUse, SameLengths
<1>10. UsedMem(seg') = UsedMem(seg) + seg'[s].length + HdrSize
  <2>1. Cost(seg', s) = seg'[s].length + HdrSize /\ Cost(h.seg, s) = 0
    BY <1>9 DEF Cost
  <2>2. seg'[s].length \in Nat
    BY <1>5, <1>9, ChainFacts
  <2>3. UsedMem(seg) \in Nat
    <3>1. PICK f : IsSum(seg, f) /\ UsedMem(seg) = f[heapStart]
      BY <1>1, UsedMemSum
    <3> QED BY <3>1, <1>1 DEF IsSum, Chain
  <2> QED BY <1>4, <1>5, <1>8, <2>1, <2>2, <2>3
<1>11. SameLengths(seg, seg', InUse(seg))
  BY <1>5, <1>7 DEF SameLengths, InUse
<1> QED BY <1>2, <1>5, <1>7, <1>8, <1>9, <1>10, <1>11 DEF s

-----------------------------------------------------------------------------
(* The invariant is inductive.                                             *)

\* What the segments in use have to do with the blocks handed out.
Owned ==
  /\ InUse(seg) = {a - HdrSize : a \in DOMAIN live}
  /\ \A a \in DOMAIN live : /\ a \in Nat /\ live[a] \in Nat
                            /\ seg[a - HdrSize].length >= live[a]
                            /\ seg[a - HdrSize].length < live[a] + HdrSize + Align

\* The invariant says that, and that free segments are merged.
LEMMA InvOwned ==
  ASSUME HeapInv
  PROVE  Merged(seg, {}) /\ Owned
BY DEF HeapInv, TypeOK, FreeSegmentsMerged, Merged, LiveBlocksOwnSegments, WasteBounded,
       Owned, InUse

\* The last header and the end of a chain are addresses.
LEMMA ChainEnds ==
  ASSUME NEW g, NEW L, NEW e, Chain(g, L, e)
  PROVE  L \in Nat /\ e \in Nat
<1>1. L \in DOMAIN g
  BY DEF Chain
<1>2. L \in Nat /\ g[L].length \in Nat /\ HdrSize \in Nat
  BY <1>1, ChainFacts, HeapAssumption
<1> QED BY <1>2 DEF Chain

\* Conversely, this much of the next state makes the invariant.
LEMMA InvFromChain ==
  ASSUME Chain(seg', LastHdr', heapEnd'), heapEnd' % PageSz = 0,
         Merged(seg', {}), Owned', Growing', ZeroingSparesHeaders',
         status' \in {"ready", "out of memory"},
         frames' \in Nat, pending' \in Nat, expansions' \in Nat, nullStore' \in BOOLEAN
  PROVE  HeapInv'
<1>1. LastHdr' \in Nat /\ heapEnd' \in Nat
  BY ChainEnds
<1>3. TypeOK'
  BY <1>1 DEF TypeOK, Chain, Owned
<1>4. HasHeap' /\ FreeSegmentsMerged'
  BY DEF HasHeap, FreeSegmentsMerged, Merged
<1>5. LiveBlocksOwnSegments' /\ WasteBounded' /\ \A a \in DOMAIN live' : live'[a] \in Nat
  BY DEF Owned, LiveBlocksOwnSegments, WasteBounded, InUse
<1> QED BY <1>3, <1>4, <1>5 DEF HeapInv

\* initHeap.
LEMMA InvInitHeap ==
  ASSUME HeapInv, initHeap
  PROVE  HeapInv'
<1>1. status = "boot" /\ NoHeap
  BY DEF initHeap, HeapInv, HasHeap
<1>2. CASE InitPages > frames
  <2>1. OutOfMemory
    BY <1>2 DEF initHeap
  <2>2. NoHeap'
    BY <1>1, <2>1 DEF NoHeap, OutOfMemory
  <2> QED BY <2>1, <2>2 DEF HeapInv, OutOfMemory, TypeOK, Growing, FreeSegmentsMerged,
                             LiveBlocksOwnSegments, WasteBounded, ZeroingSparesHeaders,
                             EndOf
<1>3. CASE ~(InitPages > frames)
  <2> DEFINE size == InitPages * PageSz
             hdr == [length |-> size - HdrSize, next |-> NULL, last |-> NULL,
                     free |-> TRUE]
  <2>1. /\ status' = "ready" /\ frames' = frames - InitPages
        /\ heapEnd' = heapStart + size
        /\ seg' = [a \in {heapStart} |-> hdr] /\ LastHdr' = heapStart
        /\ pending' = 0 /\ expansions' = 0 /\ live' = <<>> /\ zeroed' = {}
        /\ nullStore' = nullStore
    BY <1>1, <1>3 DEF initHeap, NoHeap
  <2>2. size \in Nat /\ size >= PageSz /\ size % PageSz = 0
    <3>1. InitPages \in Nat \ {0} /\ PageSz \in Nat \ {0}
      BY HeapAssumption
    <3>2. InitPages * PageSz = (InitPages - 1) * PageSz + PageSz
      BY <3>1
    <3>3. (InitPages - 1) * PageSz \in Nat
      BY <3>1
    <3> QED BY <3>1, <3>2, <3>3, ModMul
  <2> HIDE DEF size
  <2>3. hdr \in Header
    BY <2>2, HeapAssumption DEF Header, NULL
  <2>4. heapEnd' % PageSz = 0
    BY <2>1, <2>2, ModAdd, HeapAssumption
  <2>5. DOMAIN seg' = {heapStart} /\ seg'[heapStart] = hdr
    BY <2>1
  <2>6. /\ hdr.next = NULL /\ hdr.last = NULL /\ hdr.free
        /\ heapStart + HdrSize + hdr.length = heapStart + size
    BY <2>2, HeapAssumption
  <2> HIDE DEF hdr
  <2>7. Chain(seg', LastHdr', heapEnd')
    BY <2>1, <2>3, <2>5, <2>6, HeapAssumption DEF Chain
  <2>8. Merged(seg', {}) /\ Owned'
    BY <2>1, <2>5, <2>6 DEF Merged, Owned, InUse
  <2>9. /\ Growing' /\ ZeroingSparesHeaders' /\ frames' \in Nat
        /\ pending' \in Nat /\ expansions' \in Nat /\ nullStore' \in BOOLEAN
    <3>1. frames \in Nat /\ nullStore \in BOOLEAN
      BY DEF HeapInv, TypeOK
    <3> QED BY <2>1, <3>1, <1>3, HeapAssumption DEF Growing, ZeroingSparesHeaders
  <2> QED BY <2>1, <2>4, <2>7, <2>8, <2>9, InvFromChain
<1> QED BY <1>2, <1>3

\* free and sfree, which clear nothing or the bytes of the block.
LEMMA InvRelease ==
  ASSUME HeapInv, NEW address \in DOMAIN live, Release(address),
         zeroed' = {} \/ zeroed' = address .. address + live[address] - 1
  PROVE  HeapInv'
<1> DEFINE s == address - HdrSize
<1>1. /\ status = "ready" /\ pending = 0
      /\ live' = [a \in DOMAIN live \ {address} |-> live[a]]
      /\ status' = status /\ heapEnd' = heapEnd /\ frames' = frames
      /\ pending' = pending /\ expansions' = expansions /\ nullStore' = nullStore
  BY DEF Release
<1>2. HasHeap /\ Merged(seg, {}) /\ Owned
  BY <1>1, InvOwned DEF HeapInv, NoHeap
<1>3. /\ s \in InUse(seg) /\ address \in Nat /\ HdrSize \in Nat /\ live[address] \in Nat
      /\ seg[s].length >= live[address]
  BY <1>2, HeapAssumption DEF Owned
<1>4. /\ Chain(seg', LastHdr', heapEnd)
      /\ Merged(seg', {})
      /\ InUse(seg') = InUse(seg) \ {s}
      /\ SameLengths(seg, seg', InUse(seg) \ {s})
  BY <1>2, <1>3, ReleaseFacts
<1>5. PICK b \in DOMAIN seg' :
        /\ seg'[b].free /\ b <= s
        /\ s + HdrSize + seg[s].length <= b + HdrSize + seg'[b].length
  BY <1>2, <1>3, ReleaseFacts
<1>6. ZeroingSparesHeaders'
  <2>1. /\ b \in Nat /\ seg'[b].length \in Nat /\ s \in Nat /\ seg[s].length \in Nat
    <3>1. Chain(seg, LastHdr, heapEnd) /\ s \in DOMAIN seg
      BY <1>2, <1>3 DEF HasHeap, InUse
    <3> QED BY <1>4, <3>1, ChainFacts
  <2>2. b + HdrSize <= address
    BY <2>1, <1>3, <1>5
  <2>3. address + live[address] <= b + HdrSize + seg'[b].length
    BY <2>1, <1>3, <1>5
  <2>4. address .. address + live[address] - 1
          \subseteq b + HdrSize .. b + HdrSize + seg'[b].length - 1
    <3> SUFFICES ASSUME NEW x \in address .. address + live[address] - 1
                 PROVE  x \in b + HdrSize .. b + HdrSize + seg'[b].length - 1
      OBVIOUS
    <3> HIDE DEF s
    <3>1. x \in Int /\ address <= x /\ x <= address + live[address] - 1
      BY <1>3
    <3>2. b + HdrSize <= x /\ x <= b + HdrSize + seg'[b].length - 1
      BY <3>1, <2>1, <2>2, <2>3, <1>3
    <3> QED BY <3>1, <3>2, <2>1, <1>3
  <2>5. CASE zeroed' = {}
    BY <2>5 DEF ZeroingSparesHeaders
  <2>6. CASE zeroed' = address .. address + live[address] - 1
    <3>1. zeroed' \subseteq b + HdrSize .. b + HdrSize + seg'[b].length - 1
      BY <2>4, <2>6
    <3>2. EndOf(b)' = b + HdrSize + seg'[b].length
      BY DEF EndOf
    <3>3. seg'[b].free
      BY <1>5
    <3>4. zeroed' \subseteq b + HdrSize .. EndOf(b)' - 1
      BY <3>1, <3>2, <2>1, <1>3
    <3> QED BY <3>3, <3>4 DEF ZeroingSparesHeaders
  <2> QED BY <2>5, <2>6
<1>7. Owned'
  <2>1. DOMAIN live' = DOMAIN live \ {address} /\ \A a \in DOMAIN live' : live'[a] = live[a]
    BY <1>1
  <2>2. \A a \in DOMAIN live : a \in Nat /\ a - HdrSize \in InUse(seg)
    BY <1>2 DEF Owned
  <2>3. \A a \in DOMAIN live' : a - HdrSize \in InUse(seg) \ {s}
    BY <2>1, <2>2, <1>3
  <2>4. \A x : x \in InUse(seg') <=> x \in {a - HdrSize : a \in DOMAIN live'}
    BY <2>1, <2>3, <1>2, <1>4 DEF Owned
  <2>5. InUse(seg') = {a - HdrSize : a \in DOMAIN live'}
    BY <2>4
  <2>6. \A a \in DOMAIN live' : seg'[a - HdrSize].length = seg[a - HdrSize].length
    BY <2>3, <1>4 DEF SameLengths
  <2> QED BY <2>1, <2>5, <2>6, <1>2 DEF Owned
<1>8. /\ Growing' /\ status' \in {"ready", "out of memory"} /\ heapEnd' % PageSz = 0
      /\ frames' \in Nat /\ pending' \in Nat /\ expansions' \in Nat
      /\ nullStore' \in BOOLEAN
  <2>1. expansions = 0 /\ frames \in Nat /\ nullStore \in BOOLEAN
    BY <1>1 DEF HeapInv, Growing, TypeOK
  <2> QED BY <2>1, <1>1, <1>2 DEF Growing, HasHeap
<1> QED BY <1>1, <1>4, <1>6, <1>7, <1>8, InvFromChain

\* One run of the body of malloc.
LEMMA InvMallocBody ==
  ASSUME HeapInv, status = "ready", NEW size \in Nat, size >= Align,
         expansions = 0 \/ pending = size, mallocBody(size)
  PROVE  HeapInv'
<1> DEFINE s == FirstFit(size)
<1>1. HasHeap /\ Merged(seg, {}) /\ Owned
  BY InvOwned DEF HeapInv, NoHeap
<1>2. /\ Chain(seg, LastHdr, heapEnd) /\ heapEnd % PageSz = 0
      /\ frames \in Nat /\ pending \in Nat /\ expansions \in Nat /\ nullStore \in BOOLEAN
      /\ Growing
  BY <1>1 DEF HeapInv, HasHeap, TypeOK
<1>3. HdrSize \in Nat \ {0} /\ Align \in Nat \ {0} /\ PageSz \in Nat \ {0} /\ HdrSize <= PageSz
  BY HeapAssumption
<1>4. CASE s # NULL
  <2>1. /\ live' = Put(live, s + HdrSize, size)
        /\ pending' = 0 /\ expansions' = 0 /\ zeroed' = {}
        /\ status' = status /\ heapEnd' = heapEnd /\ frames' = frames
        /\ nullStore' \in BOOLEAN
    BY <1>4, <1>2 DEF mallocBody
  <2>2. /\ s \in DOMAIN seg /\ seg[s].free
        /\ Chain(seg', LastHdr', heapEnd)
        /\ Merged(seg', {})
        /\ InUse(seg') = InUse(seg) \cup {s}
        /\ SameLengths(seg, seg', InUse(seg))
        /\ seg'[s].length >= size
        /\ seg'[s].length < size + HdrSize + Align
    BY <1>1, <1>4, TakeFacts
  <2>3. s \in Nat /\ s \notin InUse(seg)
    BY <2>2, <1>2, ChainFacts DEF InUse
  <2> HIDE DEF s
  <2> DEFINE address == s + HdrSize
  <2>4. address \in Nat /\ address - HdrSize = s
    BY <2>3, <1>3
  <2>5. \A a \in DOMAIN live : /\ a \in Nat /\ a - HdrSize \in InUse(seg)
    BY <1>1 DEF Owned
  <2>6. /\ DOMAIN live' = DOMAIN live \cup {address}
        /\ live'[address] = size
        /\ \A a \in DOMAIN live \ {address} : live'[a] = live[a]
    BY <2>1 DEF Put
  <2> HIDE DEF address
  <2>7. \A x : x \in InUse(seg') <=> x \in {a - HdrSize : a \in DOMAIN live'}
    BY <2>2, <2>4, <2>6, <1>1 DEF Owned
  <2>8. InUse(seg') = {a - HdrSize : a \in DOMAIN live'}
    BY <2>7
  <2>9. ASSUME NEW a \in DOMAIN live'
        PROVE  /\ a \in Nat /\ live'[a] \in Nat
               /\ seg'[a - HdrSize].length >= live'[a]
               /\ seg'[a - HdrSize].length < live'[a] + HdrSize + Align
    <3>1. CASE a = address
      BY <3>1, <2>2, <2>4, <2>6
    <3>2. CASE a # address
      <4>1. a \in DOMAIN live /\ live'[a] = live[a]
        BY <3>2, <2>6
      <4>2. seg'[a - HdrSize].length = seg[a - HdrSize].length
        BY <4>1, <2>2, <2>5 DEF SameLengths
      <4> QED BY <4>1, <4>2, <1>1 DEF Owned
    <3> QED BY <3>1, <3>2
  <2>10. Owned'
    BY <2>8, <2>9 DEF Owned
  <2>11. Growing' /\ ZeroingSparesHeaders'
    BY <2>1, <1>2 DEF Growing, ZeroingSparesHeaders
  <2> QED BY <2>1, <2>2, <2>10, <2>11, <1>2, InvFromChain
<1>5. CASE s = NULL /\ RoundUp(size, PageSz) \div PageSz > frames
  <2>1. OutOfMemory
    BY <1>5 DEF mallocBody, expandHeap
  <2> QED BY <2>1, <1>1 DEF HeapInv, OutOfMemory, TypeOK, Growing, FreeSegmentsMerged, HasHeap,
                 LiveBlocksOwnSegments, WasteBounded, ZeroingSparesHeaders, EndOf
<1>6. CASE s = NULL /\ ~(RoundUp(size, PageSz) \div PageSz > frames)
  <2> DEFINE length == RoundUp(size, PageSz)
  <2>1. expandHeap(size)
    BY <1>6 DEF mallocBody
  <2>2. /\ pending' = size /\ expansions' = expansions + 1 /\ zeroed' = {}
        /\ status' = status /\ live' = live /\ nullStore' = nullStore
        /\ frames' = frames - (length \div PageSz)
    BY <2>1, <1>6 DEF expandHeap
  <2>3. size # 0 /\ size \in Nat \ {0}
    BY <1>3
  <2>4. /\ length \in Nat /\ length >= size /\ length >= PageSz
    BY <2>3, <1>3, RoundUpFacts
  <2>5. length \div PageSz \in Nat
    BY <2>4, <1>3
  <2>6. frames' \in Nat
    BY <2>2, <2>5, <1>2, <1>6
  <2>7. /\ Chain(seg', LastHdr', heapEnd') /\ heapEnd' % PageSz = 0
        /\ Merged(seg', {})
        /\ InUse(seg') = InUse(seg)
        /\ SameLengths(seg, seg', InUse(seg))
        /\ seg'[LastHdr'].free
        /\ seg'[LastHdr'].length >= length - HdrSize
        /\ seg[LastHdr].free => seg'[LastHdr'].length = seg[LastHdr].length + length
    BY <2>1, <2>3, <1>1, <1>6, ExpandFacts
  <2> HIDE DEF length
  <2>8. Owned'
    <3>1. \A a \in DOMAIN live : seg'[a - HdrSize].length = seg[a - HdrSize].length
      BY <2>7, <1>1 DEF Owned, SameLengths
    <3> QED BY <3>1, <2>2, <2>7, <1>1 DEF Owned
  <2>9. LastHdr \in DOMAIN seg /\ seg[LastHdr].length \in Nat
    <3>1. LastHdr \in DOMAIN seg
      BY <1>2 DEF Chain
    <3> QED BY <3>1, <1>2, ChainFacts
  <2>10. expansions # 2
    <3>1. ~Fits(LastHdr, size)
      BY <2>9, <1>2, <1>6, FirstFitFacts
    <3> QED BY <3>1, <1>2 DEF Growing, Fits
  <2>13. Growing'
    <3>1. expansions \in {0, 1}
      BY <2>10, <1>2 DEF Growing
    <3>2. CASE expansions = 0
      BY <2>2, <2>3, <2>7, <3>2 DEF Growing, length
    <3>3. CASE expansions = 1
      <4>1. /\ pending = size /\ seg[LastHdr].free
            /\ seg[LastHdr].length >= length - HdrSize
        BY <3>3, <1>2 DEF Growing, length
      <4>2. seg'[LastHdr'].length >= size
        BY <4>1, <2>4, <2>7, <2>9, <1>3
      <4> QED BY <2>2, <2>3, <2>7, <3>3, <4>2 DEF Growing
    <3> QED BY <3>1, <3>2, <3>3
  <2>14. /\ ZeroingSparesHeaders' /\ expansions' \in Nat /\ pending' \in Nat
         /\ nullStore' \in BOOLEAN /\ status' \in {"ready", "out of memory"}
    BY <2>2, <1>2 DEF ZeroingSparesHeaders
  <2> QED BY <2>6, <2>7, <2>8, <2>13, <2>14, InvFromChain
<1> QED BY <1>4, <1>5, <1>6

\* Before initHeap there is no segment.
LEMMA InvInit == Init => HeapInv
<1> SUFFICES ASSUME Init PROVE HeapInv
  OBVIOUS
<1>1. NoHeap
  BY DEF Init, NoHeap
<1>2. TypeOK
  <2>1. DOMAIN seg = {} /\ DOMAIN live = {}
    BY DEF Init
  <2>2. frames \in Nat
    BY HeapAssumption DEF Init
  <2>3. {LastHdr, heapEnd, frames, pending, expansions} \subseteq Nat
    BY <2>2 DEF Init, NULL
  <2>4. status = "boot" /\ nullStore \in BOOLEAN
    BY DEF Init
  <2> QED BY <2>1, <2>3, <2>4 DEF TypeOK
<1> QED BY <1>1, <1>2 DEF HeapInv, NoHeap, Growing, FreeSegmentsMerged, LiveBlocksOwnSegments,
                    WasteBounded, ZeroingSparesHeaders

\* No step of the heap breaks the invariant.
LEMMA InvNext == HeapInv /\ [Next]_vars => HeapInv'
<1> SUFFICES ASSUME HeapInv, [Next]_vars PROVE HeapInv'
  OBVIOUS
<1>1. CASE initHeap
  BY <1>1, InvInitHeap
<1>2. ASSUME NEW size \in Sizes, malloc(size) PROVE HeapInv'
  <2>1. /\ status = "ready" /\ pending = 0 /\ size # 0 /\ mallocBody(RoundUp(size, Align))
    BY <1>2 DEF malloc
  <2>2. size \in Nat /\ Align \in Nat \ {0}
    BY HeapAssumption
  <2>3. RoundUp(size, Align) \in Nat /\ RoundUp(size, Align) >= Align
    BY <2>1, <2>2, RoundUpFacts
  <2>4. expansions = 0
    BY <2>1 DEF HeapInv, Growing
  <2> QED BY <2>1, <2>3, <2>4, InvMallocBody
<1>3. CASE mallocAgain
  <2>1. status = "ready" /\ pending # 0 /\ mallocBody(pending)
    BY <1>3 DEF mallocAgain
  <2>2. pending \in Nat /\ pending >= Align
    BY <2>1 DEF HeapInv, TypeOK, Growing
  <2> QED BY <2>1, <2>2, InvMallocBody
<1>4. ASSUME NEW address \in DOMAIN live, free(address) PROVE HeapInv'
  BY <1>4, InvRelease DEF free
<1>5. ASSUME NEW address \in DOMAIN live, sfree(address, live[address]) PROVE HeapInv'
  BY <1>5, InvRelease DEF sfree
<1>6. CASE UNCHANGED vars
  BY <1>6 DEF vars, HeapInv, TypeOK, NoHeap, HasHeap, Growing, FreeSegmentsMerged,
              LiveBlocksOwnSegments, WasteBounded, ZeroingSparesHeaders, EndOf
<1> QED BY <1>1, <1>2, <1>3, <1>4, <1>5, <1>6 DEF Next

\* What the invariant says about the heap.
LEMMA InvImplies ==
  ASSUME HeapInv
  PROVE  /\ TypeOK /\ SegmentsTile /\ FreeSegmentsMerged /\ LiveBlocksOwnSegments
         /\ WasteBounded /\ NoFragmentsLeft /\ TwoExpansionsSuffice
         /\ ZeroingSparesHeaders
<1>1. TypeOK /\ FreeSegmentsMerged /\ LiveBlocksOwnSegments /\ WasteBounded
      /\ ZeroingSparesHeaders
  BY DEF HeapInv
<1>2. SegmentsTile
  <2>1. CASE NoHeap
    BY <2>1 DEF NoHeap, SegmentsTile
  <2>2. CASE HasHeap
    BY <2>2 DEF HasHeap, Chain, SegmentsTile, EndOf
  <2> QED BY <2>1, <2>2 DEF HeapInv
<1>3. TwoExpansionsSuffice
  BY DEF HeapInv, Growing, TwoExpansionsSuffice
<1>4. NoFragmentsLeft
  <2> SUFFICES ASSUME status = "ready", DOMAIN live = {}
               PROVE  DOMAIN seg = {heapStart}
    BY DEF NoFragmentsLeft
  <2>1. Chain(seg, LastHdr, heapEnd)
    BY DEF HeapInv, NoHeap, HasHeap
  <2>2. InUse(seg) = {}
    BY InvOwned DEF Owned
  <2>3. \A a \in DOMAIN seg : seg[a].free
    BY <2>2 DEF InUse
  <2>4. ASSUME NEW a \in DOMAIN seg, a # LastHdr PROVE FALSE
    <3>1. seg[a].next # NULL
      BY <2>1, <2>4, ChainFacts
    <3>2. seg[a].next \in DOMAIN seg
      BY <2>1, <3>1, ChainFacts
    <3> QED BY <3>1, <3>2, <2>3, <1>1 DEF FreeSegmentsMerged
  <2>5. heapStart \in DOMAIN seg /\ \A a \in DOMAIN seg : a = LastHdr
    BY <2>1, <2>4 DEF Chain
  <2> QED BY <2>5
<1> QED BY <1>1, <1>2, <1>3, <1>4

\* In every behaviour of the heap the invariant holds.
THEOREM HeapInvariant == Spec => []HeapInv
BY InvInit, InvNext, PTL DEF Spec

\* The headers and the counters of the heap keep their types.
THEOREM HeapTypeCorrect == Spec => []TypeOK
BY HeapInvariant, InvImplies, PTL

\* split, combineForward, combineBackward and expandHeap keep the chain of
\* headers: the segments cover the heap and the links agree both ways.
THEOREM HeapTiled == Spec => []SegmentsTile
BY HeapInvariant, InvImplies, PTL

\* free and expandHeap leave no two free segments next to each other.
THEOREM HeapMerged == Spec => []FreeSegmentsMerged
BY HeapInvariant, InvImplies, PTL

\* Blocks that malloc has handed out never share a segment or lose it.
THEOREM HeapBlocksOwned == Spec => []LiveBlocksOwnSegments
BY HeapInvariant, InvImplies, PTL

\* malloc takes less than a header and Align bytes more than it was asked for.
THEOREM HeapWasteBounded == Spec => []WasteBounded
BY HeapInvariant, InvImplies, PTL

\* When every block has been freed the heap is one segment.
THEOREM HeapUnfragmented == Spec => []NoFragmentsLeft
BY HeapInvariant, InvImplies, PTL

\* malloc never calls itself more than twice, whatever the page size, the size
\* of a header and the request.
THEOREM HeapTwoExpansions == Spec => []TwoExpansionsSuffice
BY HeapInvariant, InvImplies, PTL

\* sfree clears no header, although it clears after merging.
THEOREM HeapZeroing == Spec => []ZeroingSparesHeaders
BY HeapInvariant, InvImplies, PTL

-----------------------------------------------------------------------------
(* The heap implements BlockStore.                                         *)

\* The blocks of the chain g.
BlocksOf(g) == [a \in {s + HdrSize : s \in InUse(g)} |-> g[a - HdrSize].length]

\* The refinement mapping, in these terms.
LEMMA Mapping ==
  /\ Blocks = BlocksOf(seg) /\ Blocks' = BlocksOf(seg')
  /\ getUsedMem = UsedMem(seg) /\ getUsedMem' = UsedMem(seg')
<1>1. getUsedMem = UsedMem(seg) /\ getUsedMem' = UsedMem(seg')
  BY DEF getUsedMem, UsedMem
<1>2. Blocks = BlocksOf(seg) /\ Blocks' = BlocksOf(seg')
  BY DEF Blocks, BlocksOf, InUse
<1> QED BY <1>1, <1>2

\* A change that leaves the segments in use leaves the blocks.
LEMMA SameBlocks ==
  ASSUME NEW g, NEW g2, InUse(g) \subseteq Nat,
         InUse(g2) = InUse(g), SameLengths(g, g2, InUse(g))
  PROVE  BlocksOf(g2) = BlocksOf(g)
<1>1. \A s \in InUse(g) : (s + HdrSize) - HdrSize = s
  BY HeapAssumption
<1>2. \A a \in {s + HdrSize : s \in InUse(g)} : g2[a - HdrSize].length = g[a - HdrSize].length
  BY <1>1 DEF SameLengths
<1> QED BY <1>2 DEF BlocksOf

\* One more segment in use is one more block.
LEMMA PutBlock ==
  ASSUME NEW g, NEW g2, InUse(g2) \subseteq Nat, NEW s, s \notin InUse(g),
         InUse(g2) = InUse(g) \cup {s}, SameLengths(g, g2, InUse(g))
  PROVE  /\ s + HdrSize \in DOMAIN BlocksOf(g2) \ DOMAIN BlocksOf(g)
         /\ BlocksOf(g2)[s + HdrSize] = g2[s].length
         /\ BlocksOf(g2) = Put(BlocksOf(g), s + HdrSize, g2[s].length)
<1> DEFINE D == {t + HdrSize : t \in InUse(g)}
           D2 == {t + HdrSize : t \in InUse(g2)}
           x == s + HdrSize
<1>1. HdrSize \in Nat /\ s \in Nat /\ \A t \in InUse(g2) : (t + HdrSize) - HdrSize = t
  BY HeapAssumption
<1>2. DOMAIN BlocksOf(g) = D /\ DOMAIN BlocksOf(g2) = D2
  BY DEF BlocksOf
<1>3. x \notin D /\ D2 = D \cup {x}
  BY <1>1
<1>4. /\ \A a \in D : BlocksOf(g)[a] = g[a - HdrSize].length
      /\ \A a \in D2 : BlocksOf(g2)[a] = g2[a - HdrSize].length
  BY DEF BlocksOf
<1>5. \A a \in D : BlocksOf(g2)[a] = BlocksOf(g)[a]
  BY <1>1, <1>3, <1>4 DEF SameLengths
<1>6. BlocksOf(g2)[x] = g2[s].length
  BY <1>1, <1>3, <1>4
<1>7. BlocksOf(g2) = [a \in D2 |-> BlocksOf(g2)[a]]
  BY DEF BlocksOf
<1>8. BlocksOf(g2) = Put(BlocksOf(g), x, g2[s].length)
  <2> HIDE DEF D, D2, x
  <2> QED BY <1>2, <1>3, <1>5, <1>6, <1>7 DEF Put
<1> QED BY <1>2, <1>3, <1>6, <1>8

\* One segment in use less is one block less.
LEMMA DropBlock ==
  ASSUME NEW g, NEW g2, InUse(g) \subseteq Nat, NEW s \in InUse(g),
         InUse(g2) = InUse(g) \ {s}, SameLengths(g, g2, InUse(g) \ {s})
  PROVE  /\ s + HdrSize \in DOMAIN BlocksOf(g)
         /\ BlocksOf(g)[s + HdrSize] = g[s].length
         /\ BlocksOf(g2) = [b \in DOMAIN BlocksOf(g) \ {s + HdrSize} |-> BlocksOf(g)[b]]
<1> DEFINE D == {t + HdrSize : t \in InUse(g)}
           D2 == {t + HdrSize : t \in InUse(g2)}
           x == s + HdrSize
<1>1. HdrSize \in Nat /\ s \in Nat /\ \A t \in InUse(g) : (t + HdrSize) - HdrSize = t
  BY HeapAssumption
<1>2. DOMAIN BlocksOf(g) = D /\ DOMAIN BlocksOf(g2) = D2
  BY DEF BlocksOf
<1>3. x \in D /\ D2 = D \ {x}
  BY <1>1
<1>4. /\ \A a \in D : BlocksOf(g)[a] = g[a - HdrSize].length
      /\ \A a \in D2 : BlocksOf(g2)[a] = g2[a - HdrSize].length
  BY DEF BlocksOf
<1>5. \A a \in D2 : BlocksOf(g2)[a] = BlocksOf(g)[a]
  BY <1>1, <1>3, <1>4 DEF SameLengths
<1>6. BlocksOf(g)[x] = g[s].length
  BY <1>1, <1>3, <1>4
<1>7. BlocksOf(g2) = [a \in D2 |-> BlocksOf(g2)[a]]
  BY DEF BlocksOf
<1>8. BlocksOf(g2) = [b \in DOMAIN BlocksOf(g) \ {x} |-> BlocksOf(g)[b]]
  <2> HIDE DEF D, D2, x
  <2> QED BY <1>2, <1>3, <1>5, <1>7
<1> QED BY <1>2, <1>3, <1>6, <1>8

\* A heap that is not there yet, or has no segment in use, has no blocks.
LEMMA NoBlocks ==
  ASSUME NEW g, InUse(g) = {}
  PROVE  BlocksOf(g) = <<>>
<1>1. {s + HdrSize : s \in InUse(g)} = {}
  OBVIOUS
<1>2. DOMAIN BlocksOf(g) = {}
  BY <1>1 DEF BlocksOf
<1> QED BY <1>1, <1>2 DEF BlocksOf

\* The segments in use of a chain are at addresses.
LEMMA InUseNat ==
  ASSUME NEW g, NEW L, NEW e, Chain(g, L, e)
  PROVE  InUse(g) \subseteq Nat
BY DEF InUse, Chain

\* The heap starts without blocks.
LEMMA StoreInit ==
  ASSUME Init
  PROVE  Store!Init
<1>1. seg = <<>>
  BY DEF Init
<1>2. UsedMem(seg) = 0
  BY <1>1 DEF UsedMem
<1>3. InUse(seg) = {}
  BY <1>1 DEF InUse
<1>4. BlocksOf(seg) = <<>>
  BY <1>3, NoBlocks
<1> QED BY <1>2, <1>4, Mapping DEF Store!Init

\* initHeap is not seen.
LEMMA StoreInitHeap ==
  ASSUME HeapInv, HeapInv', initHeap
  PROVE  Blocks' = Blocks /\ getUsedMem' = getUsedMem
<1>1. NoHeap
  BY DEF initHeap, HeapInv, HasHeap
<1>2. UsedMem(seg) = 0 /\ InUse(seg) = {}
  BY <1>1 DEF NoHeap, UsedMem, InUse
<1>3. CASE InitPages > frames
  <2>1. seg' = seg
    BY <1>3 DEF initHeap, OutOfMemory
  <2> QED BY <2>1, Mapping
<1>4. CASE ~(InitPages > frames)
  <2>1. /\ DOMAIN seg' = {heapStart} /\ seg'[heapStart].free /\ seg'[heapStart].next = NULL
        /\ status' = "ready"
    BY <1>4 DEF initHeap
  <2>2. Chain(seg', LastHdr', heapEnd')
    BY <2>1 DEF HeapInv, NoHeap, HasHeap
  <2>3. PICK f : IsSum(seg', f) /\ UsedMem(seg') = f[heapStart]
    BY <2>2, UsedMemSum
  <2>4. f[heapStart] = 0
    BY <2>1, <2>3 DEF IsSum, Cost
  <2>5. InUse(seg') = {}
    BY <2>1 DEF InUse
  <2>6. BlocksOf(seg') = <<>> /\ BlocksOf(seg) = <<>>
    BY <2>5, <1>2, NoBlocks
  <2> QED BY <2>3, <2>4, <2>6, <1>2, Mapping
<1> QED BY <1>3, <1>4

\* free and sfree give one block back.
LEMMA StoreGive ==
  ASSUME HeapInv, NEW address \in DOMAIN live, Release(address)
  PROVE  Store!Give
<1> DEFINE s == address - HdrSize
<1>1. HasHeap /\ Merged(seg, {}) /\ Owned
  BY InvOwned DEF HeapInv, NoHeap, Release
<1>2. s \in InUse(seg) /\ InUse(seg) \subseteq Nat
  BY <1>1, InUseNat DEF Owned, HasHeap
<1>3. /\ InUse(seg') = InUse(seg) \ {s}
      /\ SameLengths(seg, seg', InUse(seg) \ {s})
      /\ UsedMem(seg') = UsedMem(seg) - seg[s].length - HdrSize
  BY <1>1, <1>2, ReleaseFacts
<1> HIDE DEF s
<1> DEFINE g2 == seg'
           a == s + HdrSize
<1> HIDE DEF g2
<1>4. /\ a \in DOMAIN BlocksOf(seg)
      /\ BlocksOf(seg)[a] = seg[s].length
      /\ BlocksOf(g2) = [b \in DOMAIN BlocksOf(seg) \ {a} |-> BlocksOf(seg)[b]]
  <2>1. InUse(g2) = InUse(seg) \ {s} /\ SameLengths(seg, g2, InUse(seg) \ {s})
    BY <1>3 DEF g2
  <2> QED BY <1>2, <2>1, DropBlock, ZenonT(30)
<1> HIDE DEF a
<1>5. /\ a \in DOMAIN Blocks
      /\ Blocks' = [b \in DOMAIN Blocks \ {a} |-> Blocks[b]]
      /\ getUsedMem' = getUsedMem - Blocks[a] - HdrSize
  BY <1>3, <1>4, Mapping DEF g2
<1> QED BY <1>5 DEF Store!Give

\* The body of malloc takes a block, or grows the heap or panics, which is not
\* seen.
LEMMA StoreTake ==
  ASSUME HeapInv, status = "ready", NEW size \in Nat, size >= Align, mallocBody(size)
  PROVE  Store!Take \/ (Blocks' = Blocks /\ getUsedMem' = getUsedMem)
<1> DEFINE s == FirstFit(size)
<1>1. HasHeap /\ Merged(seg, {}) /\ Chain(seg, LastHdr, heapEnd) /\ HdrSize \in Nat
  BY InvOwned, HeapAssumption DEF HeapInv, NoHeap, HasHeap
<1>2. CASE s # NULL
  <2>1. /\ s \in DOMAIN seg /\ seg[s].free
        /\ Chain(seg', LastHdr', heapEnd)
        /\ InUse(seg') = InUse(seg) \cup {s}
        /\ SameLengths(seg, seg', InUse(seg))
        /\ UsedMem(seg') = UsedMem(seg) + seg'[s].length + HdrSize
    BY <1>1, <1>2, TakeFacts
  <2> HIDE DEF s
  <2>2. s \notin InUse(seg) /\ InUse(seg') \subseteq Nat
    BY <2>1, InUseNat DEF InUse
  <2> DEFINE a == s + HdrSize
             n == seg'[s].length
  <2>3. /\ a \in DOMAIN BlocksOf(seg') \ DOMAIN BlocksOf(seg)
        /\ BlocksOf(seg')[a] = n
        /\ BlocksOf(seg') = Put(BlocksOf(seg), a, n)
    BY <2>1, <2>2, PutBlock
  <2>4. ASSUME NEW b \in DOMAIN BlocksOf(seg)
        PROVE  a + n <= b - HdrSize \/ b + BlocksOf(seg)[b] <= a - HdrSize
    <3>1. PICK t \in InUse(seg) : b = t + HdrSize
      BY DEF BlocksOf
    <3>2. t \in Nat /\ s \in Nat /\ t # s /\ b - HdrSize = t /\ a - HdrSize = s
      BY <1>1, <2>1, <2>2, <3>1
    <3>3. BlocksOf(seg)[b] = seg[t].length
      BY <3>1, <3>2 DEF BlocksOf
    <3>4. seg'[t].length = seg[t].length /\ t \in DOMAIN seg' /\ s \in DOMAIN seg'
      BY <2>1, <3>1 DEF SameLengths, InUse
    <3>5. s < t => s + HdrSize + n <= t
      BY <2>1, <3>4 DEF Chain
    <3>6. t < s => t + HdrSize + seg[t].length <= s
      BY <2>1, <3>4 DEF Chain
    <3> QED BY <3>1, <3>2, <3>3, <3>5, <3>6
  <2> HIDE DEF a, n
  <2>5. /\ a \in DOMAIN Blocks' \ DOMAIN Blocks
        /\ Blocks'[a] = n
        /\ Blocks' = Put(Blocks, a, n)
        /\ getUsedMem' = getUsedMem + n + HdrSize
        /\ \A b \in DOMAIN Blocks : a + n <= b - HdrSize \/ b + Blocks[b] <= a - HdrSize
    BY <2>1, <2>3, <2>4, Mapping DEF n
  <2>6. Store!Take
    BY <2>5 DEF Store!Take, Store!Apart, Store!Put, Put
  <2> QED BY <2>6
<1>3. CASE s = NULL /\ RoundUp(size, PageSz) \div PageSz > frames
  <2>1. seg' = seg
    BY <1>3 DEF mallocBody, expandHeap, OutOfMemory
  <2> QED BY <2>1, Mapping
<1>4. CASE s = NULL /\ ~(RoundUp(size, PageSz) \div PageSz > frames)
  <2>1. expandHeap(size) /\ size \in Nat \ {0}
    BY <1>4, HeapAssumption DEF mallocBody
  <2>2. /\ InUse(seg') = InUse(seg)
        /\ SameLengths(seg, seg', InUse(seg))
        /\ UsedMem(seg') = UsedMem(seg)
    BY <2>1, <1>1, <1>4, ExpandFacts
  <2>3. BlocksOf(seg') = BlocksOf(seg)
    BY <2>2, <1>1, InUseNat, SameBlocks
  <2> QED BY <2>2, <2>3, Mapping
<1> QED BY <1>2, <1>3, <1>4

\* Every step of the heap is one of the store, or is not seen.
LEMMA StoreNext ==
  ASSUME HeapInv, HeapInv', [Next]_vars
  PROVE  [Store!Take \/ Store!Give]_<<Blocks, getUsedMem>>
<1>1. CASE initHeap
  BY <1>1, StoreInitHeap
<1>2. ASSUME NEW size \in Sizes, malloc(size)
      PROVE  Store!Take \/ (Blocks' = Blocks /\ getUsedMem' = getUsedMem)
  <2>1. status = "ready" /\ size # 0 /\ mallocBody(RoundUp(size, Align))
    BY <1>2 DEF malloc
  <2>2. size \in Nat /\ Align \in Nat \ {0}
    BY HeapAssumption
  <2>3. RoundUp(size, Align) \in Nat /\ RoundUp(size, Align) >= Align
    BY <2>1, <2>2, RoundUpFacts
  <2> QED BY <2>1, <2>3, StoreTake
<1>3. CASE mallocAgain
  <2>1. status = "ready" /\ pending # 0 /\ mallocBody(pending)
    BY <1>3 DEF mallocAgain
  <2>2. pending \in Nat /\ pending >= Align
    BY <2>1 DEF HeapInv, TypeOK, Growing
  <2> QED BY <2>1, <2>2, StoreTake
<1>4. ASSUME NEW address \in DOMAIN live, free(address) \/ sfree(address, live[address])
      PROVE  Store!Give
  BY <1>4, StoreGive DEF free, sfree
<1>5. CASE UNCHANGED vars
  <2>1. seg' = seg
    BY <1>5 DEF vars
  <2> QED BY <2>1, Mapping
<1> QED BY <1>1, <1>2, <1>3, <1>4, <1>5 DEF Next

\* The heap implements BlockStore, whatever the sizes: every call takes or gives
\* one block, leaves the others as they are and apart, and getUsedMem is exact.
THEOREM HeapImplementsBlocks == Spec => ImplementsBlocks
<1>1. Init => Store!Init
  BY StoreInit
<1>2. HeapInv /\ HeapInv' /\ [Next]_vars => [Store!Take \/ Store!Give]_<<Blocks, getUsedMem>>
  BY StoreNext
<1> QED BY <1>1, <1>2, HeapInvariant, PTL DEF Spec, ImplementsBlocks, Store!Spec
===============================================================================
