----------------------- MODULE PageFrameAllocatorProofs -----------------------
(***************************************************************************)
(* Proofs about the page frame allocator, for every set of memory maps and *)
(* every page size: the inductive invariant, the properties it implies, and *)
(* the step-by-step simulation of FrameOwnership.                          *)
(***************************************************************************)
EXTENDS PageFrameAllocator, FunctionTheorems, FiniteSetTheorems,
        WellFoundedInduction, TLAPS

-----------------------------------------------------------------------------
(* Numbers.                                                                *)

\* A nonempty set of naturals has a least element: the scan of requestPage.
LEMMA NatMin ==
  ASSUME NEW S \in SUBSET Nat, S # {}
  PROVE  /\ Min(S) \in S
         /\ \A y \in S : Min(S) <= y
<1>1. PICK x \in S : \A y \in S : ~ (<<y, x>> \in OpToRel(<, Nat))
  BY NatLessThanWellFounded, WFMin
<1>2. \A y \in S : ~ (y < x)
  BY <1>1, Zenon DEF OpToRel
<1>3. \A y \in S : x <= y
  BY <1>2
<1> QED BY <1>3 DEF Min

\* A nonempty finite set of naturals has a greatest element.
LEMMA NatMax ==
  ASSUME NEW S \in SUBSET Nat, S # {}, IsFiniteSet(S)
  PROVE  /\ Max(S) \in S
         /\ \A y \in S : Max(S) >= y
<1> DEFINE HasMax(T) == \E x \in T : \A y \in T : x >= y
           Bad == {T \in FiniteSubsetsOf(Nat) : T # {} /\ ~HasMax(T)}
<1>1. Bad = {}
  <2> SUFFICES ASSUME Bad # {} PROVE FALSE
    OBVIOUS
  <2>1. PICK T \in Bad :
          \A U \in Bad : ~ (<<U, T>> \in StrictSubsetOrdering(Nat))
    <3>1. IsWellFoundedOn(StrictSubsetOrdering(Nat), FiniteSubsetsOf(Nat))
      BY FS_StrictSubsetOrderingWellFounded
    <3>2. Bad \subseteq FiniteSubsetsOf(Nat)
      OBVIOUS
    <3> HIDE DEF Bad
    <3> QED BY <3>1, <3>2, WFMin
  <2>2. PICK x \in T : TRUE
    OBVIOUS
  <2> DEFINE U == T \ {x}
  <2>3. /\ U \in SUBSET Nat
        /\ IsFiniteSet(U)
        /\ U # T
    BY <2>1, <2>2, FS_RemoveElement DEF FiniteSubsetsOf
  <2>4. U \notin Bad
    BY <2>1, <2>3 DEF StrictSubsetOrdering, FiniteSubsetsOf
  <2>5. U = {} \/ HasMax(U)
    BY <2>3, <2>4 DEF FiniteSubsetsOf
  <2>6. T \subseteq Nat /\ ~HasMax(T)
    BY <2>1 DEF FiniteSubsetsOf
  <2>7. CASE U = {}
    BY <2>2, <2>6, <2>7
  <2>8. CASE HasMax(U)
    <3>1. PICK y \in U : \A z \in U : y >= z
      BY <2>8
    <3>2. CASE y >= x
      BY <2>2, <2>6, <3>1, <3>2
    <3>3. CASE ~ (y >= x)
      <4>1. \A z \in T : x >= z
        BY <2>2, <2>6, <3>1, <3>3
      <4> QED BY <2>2, <2>6, <4>1
    <3> QED BY <3>2, <3>3
  <2> QED BY <2>5, <2>7, <2>8
<1>2. HasMax(S)
  BY <1>1 DEF FiniteSubsetsOf
<1> QED BY <1>2 DEF Max

-----------------------------------------------------------------------------
(* What the sizes computed from a memory map are.                          *)

\* The values of a property of the entries of a map form a finite set.
LEMMA FiniteImage ==
  ASSUME NEW m \in MemMaps, NEW D \in SUBSET DOMAIN m, NEW f \in [D -> Nat]
  PROVE  /\ IsFiniteSet({f[i] : i \in D})
         /\ {f[i] : i \in D} \in SUBSET Nat
<1>1. /\ Len(m) \in Nat
      /\ DOMAIN m = 1 .. Len(m)
  BY PfaAssumption
<1>2. IsFiniteSet(D)
  <2>1. IsFiniteSet(1 .. Len(m))
    BY <1>1, FS_Interval
  <2>2. D \in SUBSET (1 .. Len(m))
    BY <1>1
  <2> QED BY <2>1, <2>2, FS_Subset
<1>3. f \in Surjection(D, {f[i] : i \in D})
  BY DEF Surjection
<1> QED BY <1>2, <1>3, FS_Surjection

\* getMemoryArealSize is the end of memory: no entry reaches beyond it.
LEMMA ArealSize ==
  ASSUME NEW m \in MemMaps
  PROVE  /\ getMemoryArealSize(m) \in Nat
         /\ \A i \in DOMAIN m : m[i].base + m[i].pages <= getMemoryArealSize(m)
<1> DEFINE f == [i \in DOMAIN m |-> m[i].base + m[i].pages]
           S == {0} \cup {f[i] : i \in DOMAIN m}
<1>1. \A i \in DOMAIN m : m[i] \in Entry
  BY PfaAssumption
<1>2. f \in [DOMAIN m -> Nat]
  BY <1>1 DEF Entry
<1>3. S \in SUBSET Nat /\ S # {} /\ IsFiniteSet(S)
  <2>1. /\ IsFiniteSet({f[i] : i \in DOMAIN m})
        /\ {f[i] : i \in DOMAIN m} \in SUBSET Nat
    BY <1>2, FiniteImage
  <2>2. IsFiniteSet({f[i] : i \in DOMAIN m} \cup {0})
    BY <2>1, FS_AddElement
  <2>3. S = {f[i] : i \in DOMAIN m} \cup {0}
    OBVIOUS
  <2>4. 0 \in Nat
    OBVIOUS
  <2> HIDE DEF f
  <2> QED BY <2>1, <2>2, <2>3, <2>4
<1>4. getMemoryArealSize(m) = Max(S)
  <2>1. {m[i].base + m[i].pages : i \in DOMAIN m} = {f[i] : i \in DOMAIN m}
    OBVIOUS
  <2> QED BY <2>1 DEF getMemoryArealSize
<1>5. Max(S) \in S /\ \A y \in S : Max(S) >= y
  BY <1>3, NatMax
<1>6. \A i \in DOMAIN m : f[i] \in S /\ f[i] = m[i].base + m[i].pages
  OBVIOUS
<1> HIDE DEF S, f
<1>7. Max(S) \in Nat
  BY <1>3, <1>5
<1>8. \A i \in DOMAIN m : m[i].base + m[i].pages \in Nat
  BY <1>1 DEF Entry
<1> QED BY <1>4, <1>5, <1>6, <1>7, <1>8

\* init finds the first of the longest usable entries if there is one.
LEMMA LargestSegment ==
  ASSUME NEW m \in MemMaps, FreeEntries(m) # {}
  PROVE  \E i \in FreeEntries(m) : largestFreeSegment(m) = m[i]
<1> DEFINE D == FreeEntries(m)
           f == [i \in D |-> m[i].pages]
           P == {f[i] : i \in D}
<1>1. /\ D \in SUBSET DOMAIN m
      /\ DOMAIN m \in SUBSET Nat
      /\ \A i \in DOMAIN m : m[i].pages \in Nat
  <2>1. m \in Seq(Entry)
    BY PfaAssumption
  <2>2. /\ DOMAIN m \in SUBSET Nat
        /\ \A i \in DOMAIN m : m[i] \in Entry
    BY <2>1
  <2>3. D \in SUBSET DOMAIN m
    BY DEF FreeEntries
  <2> QED BY <2>2, <2>3 DEF Entry
<1>2. f \in [D -> Nat]
  BY <1>1
<1>3. P \in SUBSET Nat /\ P # {} /\ IsFiniteSet(P)
  <2>1. P # {}
    OBVIOUS
  <2> HIDE DEF f, D
  <2> QED BY <1>1, <1>2, <2>1, FiniteImage
<1>4. Max(P) \in P /\ \A y \in P : Max(P) >= y
  BY <1>3, NatMax
<1> DEFINE L == {i \in D : f[i] = Max(P)}
<1>5. L \in SUBSET Nat /\ L # {}
  BY <1>1, <1>4
<1>6. Min(L) \in L /\ \A j \in L : Min(L) <= j
  BY <1>5, NatMin
<1>7. \A j \in D : \/ m[j].pages < m[Min(L)].pages
                   \/ m[j].pages = m[Min(L)].pages /\ Min(L) <= j
  <2> SUFFICES ASSUME NEW j \in D
               PROVE  \/ m[j].pages < m[Min(L)].pages
                      \/ m[j].pages = m[Min(L)].pages /\ Min(L) <= j
    OBVIOUS
  <2>1. Min(L) \in D /\ m[Min(L)].pages = Max(P)
    BY <1>6
  <2>2. f[j] = m[j].pages /\ f[j] \in P
    OBVIOUS
  <2>3. Max(P) >= m[j].pages /\ Max(P) \in Nat /\ m[j].pages \in Nat
    BY <1>3, <1>4, <2>2
  <2>4. m[j].pages = Max(P) => Min(L) <= j
    BY <1>6, <2>2
  <2> HIDE DEF D, P, L, f
  <2> QED BY <2>1, <2>3, <2>4
<1>8. Min(L) \in D
  BY <1>6
<1> HIDE DEF L
<1> QED BY <1>7, <1>8 DEF largestFreeSegment

\* The bitmap has a bit for every frame, and some behind the end of memory.
LEMMA BitmapSizes ==
  ASSUME NEW m \in MemMaps
  PROVE  /\ Bits(m) \in Nat
         /\ getMemoryArealSize(m) < Bits(m)
         /\ bitmapSizeInPages(m) \in Nat \ {0}
         /\ (bitmapSize(m) - 1) \div PageBytes \in Nat
         /\ (bitmapSize(m) - 1) \div PageBytes < bitmapSizeInPages(m)
<1>1. getMemoryArealSize(m) \in Nat
  BY ArealSize
<1>2. /\ bitmapSize(m) \in Nat \ {0}
      /\ getMemoryArealSize(m) < 8 * bitmapSize(m)
  BY <1>1 DEF bitmapSize
<1>3. PageBytes \in Nat \ {0}
  BY PfaAssumption
<1>4. \A a \in Nat, p \in Nat \ {0} :
         /\ a \div p \in Nat
         /\ a >= 1 => (a - 1) \div p <= a \div p
  OBVIOUS
<1>5. bitmapSize(m) - 1 \in Nat /\ bitmapSize(m) >= 1
  BY <1>2
<1>6. /\ bitmapSize(m) \div PageBytes \in Nat
      /\ (bitmapSize(m) - 1) \div PageBytes \in Nat
      /\ (bitmapSize(m) - 1) \div PageBytes <= bitmapSize(m) \div PageBytes
  BY <1>2, <1>3, <1>4, <1>5
<1> QED BY <1>1, <1>2, <1>6 DEF Bits, bitmapSizeInPages

\* While int i * 4096 does not overflow, lockPages names the pages it is given.
LEMMA RunIsInterval ==
  ASSUME NEW addr \in Nat, NEW n \in Nat, wide \/ n <= IntPages
  PROVE  Run(addr, n) = addr .. addr + n - 1
<1>1. IntPages \in Nat \ {0}
  BY PfaAssumption
<1>2. ASSUME NEW i \in 0 .. n - 1 PROVE IntOffset(i) = i
  <2>1. CASE wide
    BY <2>1 DEF IntOffset
  <2>2. CASE ~wide
    <3>1. i < IntPages /\ i \in Nat
      BY <1>1, <2>2
    <3>2. i % (2 * IntPages) = i
      BY <1>1, <3>1
    <3> QED BY <2>2, <3>1, <3>2 DEF IntOffset
  <2> QED BY <2>1, <2>2
<1>3. Run(addr, n) = {addr + i : i \in 0 .. n - 1}
  BY <1>2 DEF Run
<1>4. {addr + i : i \in 0 .. n - 1} = addr .. addr + n - 1
  <2>1. ASSUME NEW x \in addr .. addr + n - 1
        PROVE  x \in {addr + i : i \in 0 .. n - 1}
    <3>1. x - addr \in 0 .. n - 1 /\ x = addr + (x - addr)
      OBVIOUS
    <3> QED BY <3>1
  <2> QED BY <2>1
<1> QED BY <1>3, <1>4

\* A map whose bitmap fits: the frames init reserves are usable memory, cover
\* the bitmap, and are as many as the size says.
LEMMA SegmentFacts ==
  ASSUME NEW m \in MemMaps, FreeEntries(m) # {},
         bitmapSizeInPages(m) <= largestFreeSegment(m).pages
  PROVE  /\ largestFreeSegment(m).base \in Nat
         /\ largestFreeSegment(m).pages \in Nat
         /\ UsableFrames(m) \subseteq 0 .. getMemoryArealSize(m) - 1
         /\ IsFiniteSet(UsableFrames(m))
         /\ Reserved(m) \subseteq UsableFrames(m)
         /\ BitmapFrames(m) \subseteq Reserved(m)
         /\ IsFiniteSet(Reserved(m))
         /\ Cardinality(Reserved(m)) = bitmapSizeInPages(m)
         /\ largestFreeSegment(m).pages <= Cardinality(UsableFrames(m))
<1> DEFINE seg == largestFreeSegment(m)
           T == getMemoryArealSize(m)
<1>1. \A i \in FreeEntries(m) :
        /\ i \in DOMAIN m
        /\ m[i].base \in Nat
        /\ m[i].pages \in Nat
  <2>1. \A i \in DOMAIN m : m[i] \in Entry
    BY PfaAssumption
  <2> QED BY <2>1 DEF FreeEntries, Entry
<1>2. PICK k \in FreeEntries(m) : seg = m[k]
  BY LargestSegment
<1>3. seg.base \in Nat /\ seg.pages \in Nat
  BY <1>1, <1>2
<1>4. T \in Nat /\ \A i \in FreeEntries(m) : m[i].base + m[i].pages <= T
  BY <1>1, ArealSize
<1>5. UsableFrames(m) \subseteq 0 .. T - 1
  <2> SUFFICES ASSUME NEW i \in FreeEntries(m), NEW x \in FramesOf(m[i])
               PROVE  x \in 0 .. T - 1
    BY DEF UsableFrames
  <2> QED BY <1>1, <1>4 DEF FramesOf
<1>6. IsFiniteSet(UsableFrames(m))
  <2>1. IsFiniteSet(0 .. T - 1)
    BY <1>4, FS_Interval
  <2> QED BY <1>5, <2>1, FS_Subset
<1>7. FramesOf(seg) \subseteq UsableFrames(m)
  BY <1>2 DEF UsableFrames
<1>8. /\ bitmapSizeInPages(m) \in Nat \ {0}
      /\ (bitmapSize(m) - 1) \div PageBytes \in Nat
      /\ (bitmapSize(m) - 1) \div PageBytes < bitmapSizeInPages(m)
  BY BitmapSizes
<1>9. Reserved(m) \subseteq FramesOf(seg)
  BY <1>3, <1>8 DEF Reserved, FramesOf
<1>10. BitmapFrames(m) \subseteq Reserved(m)
  BY <1>3, <1>8 DEF Reserved, BitmapFrames
<1>11. IsFiniteSet(Reserved(m)) /\ Cardinality(Reserved(m)) = bitmapSizeInPages(m)
  <2> DEFINE a == seg.base
             b == seg.base + bitmapSizeInPages(m) - 1
  <2>1. a \in Int /\ b \in Int /\ ~ (a > b) /\ b - a + 1 = bitmapSizeInPages(m)
    BY <1>3, <1>8
  <2>2. Reserved(m) = a .. b
    BY DEF Reserved
  <2> HIDE DEF a, b
  <2> QED BY <2>1, <2>2, FS_Interval
<1>12. seg.pages <= Cardinality(UsableFrames(m))
  <2> DEFINE a == seg.base
             b == seg.base + seg.pages - 1
  <2>1. a \in Int /\ b \in Int /\ ~ (a > b) /\ b - a + 1 = seg.pages
    BY <1>3, <1>8
  <2>2. FramesOf(seg) = a .. b
    BY DEF FramesOf
  <2>3. Cardinality(FramesOf(seg)) = seg.pages
    <3> HIDE DEF a, b
    <3> QED BY <2>1, <2>2, FS_Interval
  <2> QED BY <1>6, <1>7, <2>3, FS_Subset
<1> QED BY <1>3, <1>5, <1>6, <1>7, <1>9, <1>10, <1>11, <1>12

-----------------------------------------------------------------------------
(* The inductive invariant.  The properties alone are not inductive: that  *)
(* requestPage finds a usable frame, and not a clear bit behind the end of *)
(* memory, needs that the counter never promises more than there is, that  *)
(* every bit below bitmapIdx is set, and that a clear bit below the end of *)
(* memory is always a usable frame.                                        *)

IInv ==
  /\ memmap \in MemMaps
  /\ wide \in BOOLEAN
  /\ status \in Status
  /\ Supported(memmap)
  /\ ~Booted => /\ locked = {} /\ held = {} /\ bitmapIdx = 0
                /\ mem_freeMemory = 0 /\ mem_usedMemory = 0
  /\ Booted =>
       /\ FreeEntries(memmap) # {}
       /\ locked \subseteq 0 .. Bits(memmap) - 1
       /\ Reserved(memmap) \subseteq locked
       /\ held = (locked \cap UsableFrames(memmap)) \ Reserved(memmap)
       /\ 0 .. getMemoryArealSize(memmap) - 1
            \subseteq locked \cup UsableFrames(memmap)
       /\ bitmapIdx \in Nat
       /\ 0 .. bitmapIdx - 1 \subseteq locked
       /\ mem_freeMemory \in Nat
       /\ mem_usedMemory = Cardinality(held) + bitmapSizeInPages(memmap)
       /\ mem_freeMemory = largestFreeSegment(memmap).pages - mem_usedMemory
  /\ status = "out of memory" => mem_freeMemory < OomFrames

\* What the invariant says about a booted allocator and its map.
LEMMA BootedFacts ==
  ASSUME IInv, Booted
  PROVE  /\ memmap \in MemMaps
         /\ Bits(memmap) \in Nat
         /\ getMemoryArealSize(memmap) \in Nat
         /\ getMemoryArealSize(memmap) < Bits(memmap)
         /\ bitmapSizeInPages(memmap) \in Nat
         /\ largestFreeSegment(memmap).pages \in Nat
         /\ UsableFrames(memmap) \subseteq 0 .. getMemoryArealSize(memmap) - 1
         /\ Reserved(memmap) \subseteq UsableFrames(memmap)
         /\ IsFiniteSet(held)
         /\ Cardinality(held) \in Nat
         /\ mem_usedMemory \in Nat
         /\ mem_freeMemory <= Cardinality(UsableFrames(memmap) \ locked)
         /\ IsFiniteSet(UsableFrames(memmap) \ locked)
<1> DEFINE U == UsableFrames(memmap)
           R == Reserved(memmap)
<1>1. /\ memmap \in MemMaps
      /\ FreeEntries(memmap) # {}
      /\ bitmapSizeInPages(memmap) <= largestFreeSegment(memmap).pages
  BY DEF IInv, Supported
<1>2. /\ largestFreeSegment(memmap).pages \in Nat
      /\ U \subseteq 0 .. getMemoryArealSize(memmap) - 1
      /\ IsFiniteSet(U)
      /\ R \subseteq U
      /\ IsFiniteSet(R)
      /\ Cardinality(R) = bitmapSizeInPages(memmap)
      /\ largestFreeSegment(memmap).pages <= Cardinality(U)
  BY <1>1, SegmentFacts
<1>3. /\ Bits(memmap) \in Nat
      /\ getMemoryArealSize(memmap) \in Nat
      /\ getMemoryArealSize(memmap) < Bits(memmap)
      /\ bitmapSizeInPages(memmap) \in Nat
  BY <1>1, BitmapSizes, ArealSize
<1>4. /\ held = (locked \cap U) \ R
      /\ R \subseteq locked
      /\ mem_usedMemory = Cardinality(held) + bitmapSizeInPages(memmap)
      /\ mem_freeMemory = largestFreeSegment(memmap).pages - mem_usedMemory
  BY DEF IInv
<1> HIDE DEF U, R
<1>5. held \in SUBSET U
  BY <1>4
<1>6. IsFiniteSet(held) /\ Cardinality(held) \in Nat
  BY <1>2, <1>5, FS_Subset, FS_CardinalityType
<1>7. Cardinality(held \cup R) = Cardinality(held) + Cardinality(R)
  <2>1. held \cap R = {}
    BY <1>4
  <2>2. Cardinality(held \cap R) = 0
    BY <2>1, FS_EmptySet
  <2>3. Cardinality(R) \in Nat
    BY <1>2, <1>3
  <2>4. Cardinality(held \cup R)
          = Cardinality(held) + Cardinality(R) - Cardinality(held \cap R)
    BY <1>2, <1>6, FS_Union
  <2> QED BY <1>6, <2>2, <2>3, <2>4
<1>8. /\ IsFiniteSet(U \ locked)
      /\ Cardinality(U \ locked) = Cardinality(U) - mem_usedMemory
  <2>1. U \cap locked = held \cup R
    BY <1>2, <1>4
  <2>2. Cardinality(U \cap locked) = mem_usedMemory
    BY <1>2, <1>4, <1>7, <2>1
  <2>3. /\ IsFiniteSet(U \ locked)
        /\ Cardinality(U \ locked) = Cardinality(U) - Cardinality(U \cap locked)
    BY <1>2, FS_Difference
  <2> QED BY <2>2, <2>3
<1>9. Cardinality(U) \in Nat
  BY <1>2, FS_CardinalityType
<1>10. mem_usedMemory \in Nat
  BY <1>3, <1>4, <1>6
<1>11. mem_freeMemory <= Cardinality(U \ locked)
  BY <1>2, <1>4, <1>8, <1>9, <1>10
<1> QED BY <1>1, <1>2, <1>3, <1>6, <1>8, <1>10, <1>11 DEF U, R

\* Before init the bitmap does not exist.
LEMMA InitIInv ==
  ASSUME Init, Supported(memmap)
  PROVE  IInv
BY DEF Init, IInv, Booted, Status

-----------------------------------------------------------------------------
(* One lemma per action.                                                   *)

\* What init leaves behind: the frames that are not usable, and the reserve.
LEMMA AfterInit ==
  ASSUME IInv, mem_pageframeallocator_init, status' = "ready"
  PROVE  /\ FreeEntries(memmap) # {}
         /\ locked' = ((0 .. getMemoryArealSize(memmap) - 1) \ UsableFrames(memmap))
                        \cup Reserved(memmap)
         /\ mem_usedMemory' = bitmapSizeInPages(memmap)
         /\ mem_freeMemory' =
              largestFreeSegment(memmap).pages - bitmapSizeInPages(memmap)
         /\ bitmapIdx' = 0
         /\ UNCHANGED <<memmap, wide, held>>
<1> DEFINE U == UsableFrames(memmap)
           R == Reserved(memmap)
           T == getMemoryArealSize(memmap)
           seg == largestFreeSegment(memmap)
           all == ToLock({}, Run(0, T))
           inUse == all \ ToFree(all, U)
           bitmap == ToLock(inUse, Run(seg.base, bitmapSizeInPages(memmap)))
<1>1. /\ memmap \in MemMaps
      /\ bitmapSizeInPages(memmap) <= seg.pages
      /\ wide \/ T <= IntPages
  BY DEF IInv, Supported
<1>2. /\ FreeEntries(memmap) # {}
      /\ locked' = inUse \cup bitmap
      /\ mem_freeMemory' = seg.pages - Cardinality(bitmap)
      /\ mem_usedMemory' = Cardinality(bitmap)
      /\ bitmapIdx' = 0
      /\ UNCHANGED <<memmap, wide, held>>
  BY DEF mem_pageframeallocator_init
<1>3. /\ seg.base \in Nat
      /\ U \subseteq 0 .. T - 1
      /\ R \subseteq U
      /\ Cardinality(R) = bitmapSizeInPages(memmap)
  BY <1>1, <1>2, SegmentFacts
<1>4. /\ Bits(memmap) \in Nat
      /\ T \in Nat
      /\ T < Bits(memmap)
      /\ bitmapSizeInPages(memmap) \in Nat
  BY <1>1, BitmapSizes, ArealSize
<1>5. Run(0, T) = 0 .. T - 1
  <2>1. Run(0, T) = 0 .. 0 + T - 1
    BY <1>1, <1>4, RunIsInterval
  <2> QED BY <1>4, <2>1
<1>6. all = 0 .. T - 1
  BY <1>4, <1>5 DEF ToLock
<1>7. inUse = (0 .. T - 1) \ U
  BY <1>6 DEF ToFree
<1>8. bitmap = R
  <2>1. Run(seg.base, bitmapSizeInPages(memmap)) = R
    <3>1. wide \/ bitmapSizeInPages(memmap) <= IntPages
      <4>1. bitmapSizeInPages(memmap) <= T
        <5>1. PICK k \in FreeEntries(memmap) : seg = memmap[k]
          BY <1>1, <1>2, LargestSegment
        <5>2. k \in DOMAIN memmap
          BY DEF FreeEntries
        <5>3. memmap[k].base + memmap[k].pages <= T
          BY <1>1, <5>2, ArealSize
        <5>4. seg.pages \in Nat
          BY <1>1, <1>2, SegmentFacts
        <5> QED BY <1>1, <1>3, <1>4, <5>1, <5>3, <5>4
      <4>2. IntPages \in Nat
        BY PfaAssumption
      <4> QED BY <1>1, <1>4, <4>1, <4>2
    <3> QED BY <1>3, <1>4, <3>1, RunIsInterval DEF Reserved
  <2>2. R \subseteq 0 .. T - 1
    BY <1>3
  <2>3. {i \in R : 0 <= i /\ i <= Bits(memmap)} = R
    BY <1>4, <2>2
  <2> HIDE DEF inUse, U, T, R
  <2>4. R \cap inUse = {}
    BY <1>3, <1>7
  <2> QED BY <2>1, <2>3, <2>4 DEF ToLock
<1> HIDE DEF inUse, bitmap
<1> QED BY <1>2, <1>3, <1>7, <1>8

\* init leaves the bitmap, the counters and the hint in agreement.
LEMMA InitStep ==
  ASSUME IInv, mem_pageframeallocator_init
  PROVE  IInv'
<1>1. CASE status' = "no free segment"
  <2>1. status = "boot"
    BY DEF mem_pageframeallocator_init
  <2>2. UNCHANGED <<memmap, wide, locked, mem_freeMemory, mem_usedMemory, held>>
        /\ bitmapIdx' = 0
    BY <1>1 DEF mem_pageframeallocator_init
  <2> QED BY <1>1, <2>1, <2>2 DEF IInv, Booted, Status, Supported
<1>2. CASE status' = "ready"
  <2> DEFINE U == UsableFrames(memmap)
             R == Reserved(memmap)
             T == getMemoryArealSize(memmap)
  <2>1. /\ FreeEntries(memmap) # {}
        /\ locked' = ((0 .. T - 1) \ U) \cup R
        /\ mem_usedMemory' = bitmapSizeInPages(memmap)
        /\ mem_freeMemory' =
             largestFreeSegment(memmap).pages - bitmapSizeInPages(memmap)
        /\ bitmapIdx' = 0
        /\ UNCHANGED <<memmap, wide, held>>
    BY <1>2, AfterInit
  <2>2. /\ status = "boot"
        /\ held = {}
    BY DEF IInv, mem_pageframeallocator_init, Booted
  <2>3. /\ memmap \in MemMaps
        /\ wide \in BOOLEAN
        /\ Supported(memmap)
        /\ bitmapSizeInPages(memmap) <= largestFreeSegment(memmap).pages
    BY DEF IInv, Supported
  <2>4. /\ largestFreeSegment(memmap).pages \in Nat
        /\ U \subseteq 0 .. T - 1
        /\ R \subseteq U
    BY <2>1, <2>3, SegmentFacts
  <2>5. /\ Bits(memmap) \in Nat
        /\ T \in Nat
        /\ T < Bits(memmap)
        /\ bitmapSizeInPages(memmap) \in Nat
    BY <2>3, BitmapSizes, ArealSize
  <2>6. locked' \subseteq 0 .. Bits(memmap) - 1
    BY <2>1, <2>4, <2>5
  <2>7. held' = (locked' \cap U) \ R
    BY <2>1, <2>2
  <2>8. Cardinality(held') = 0
    BY <2>1, <2>2, FS_EmptySet
  <2>9. 0 .. T - 1 \subseteq locked' \cup U
    BY <2>1
  <2>10. 0 .. bitmapIdx' - 1 \subseteq locked'
    BY <2>1
  <2>11. Supported(memmap)'
    BY <2>1, <2>3 DEF Supported
  <2>12. /\ mem_freeMemory' \in Nat
         /\ mem_usedMemory' = Cardinality(held') + bitmapSizeInPages(memmap)
         /\ mem_freeMemory' = largestFreeSegment(memmap).pages - mem_usedMemory'
    BY <2>1, <2>3, <2>4, <2>5, <2>8
  <2> QED BY <1>2, <2>1, <2>3, <2>6, <2>7, <2>9, <2>10, <2>11, <2>12
          DEF IInv, Booted, Status
<1> QED BY <1>1, <1>2 DEF mem_pageframeallocator_init

\* A request the counter admits finds a clear bit, and it is a usable frame.
LEMMA RequestFindsUsable ==
  ASSUME IInv, Booted, mem_freeMemory >= OomFrames
  PROVE  LET clear == (bitmapIdx .. Bits(memmap) - 1) \ locked
         IN  /\ clear # {}
             /\ Min(clear) \in UsableFrames(memmap) \ locked
             /\ Min(clear) \in Nat
             /\ 0 .. Min(clear) - 1 \subseteq locked
<1> DEFINE clear == (bitmapIdx .. Bits(memmap) - 1) \ locked
           U == UsableFrames(memmap)
           T == getMemoryArealSize(memmap)
<1>1. /\ Bits(memmap) \in Nat
      /\ T \in Nat
      /\ T < Bits(memmap)
      /\ U \subseteq 0 .. T - 1
      /\ mem_freeMemory <= Cardinality(U \ locked)
      /\ IsFiniteSet(U \ locked)
  BY BootedFacts
<1>2. /\ bitmapIdx \in Nat
      /\ 0 .. bitmapIdx - 1 \subseteq locked
      /\ 0 .. T - 1 \subseteq locked \cup U
      /\ mem_freeMemory \in Nat
  BY DEF IInv
<1>3. U \ locked # {}
  <2>1. OomFrames \in Nat \ {0}
    BY PfaAssumption
  <2>2. Cardinality(U \ locked) \in Nat
    BY <1>1, FS_CardinalityType
  <2>3. Cardinality(U \ locked) # 0
    BY <1>1, <1>2, <2>1, <2>2
  <2> QED BY <2>3, FS_EmptySet
<1>4. PICK u \in U \ locked : TRUE
  BY <1>3
<1>5. u \in clear /\ u < T
  BY <1>1, <1>2, <1>4
<1>6. Min(clear) \in clear /\ \A y \in clear : Min(clear) <= y
  <2>1. clear \in SUBSET Nat /\ clear # {}
    BY <1>1, <1>2, <1>5
  <2> HIDE DEF clear
  <2> QED BY <2>1, NatMin
<1> DEFINE x == Min(clear)
<1>7. x \in bitmapIdx .. Bits(memmap) - 1 /\ x \notin locked /\ x <= u
  BY <1>5, <1>6
<1>8. \A i \in bitmapIdx .. x - 1 : i \in locked
  <2> SUFFICES ASSUME NEW i \in bitmapIdx .. x - 1, i \notin locked PROVE FALSE
    OBVIOUS
  <2> HIDE DEF x
  <2>1. i \in clear /\ i < x
    BY <1>1, <1>2, <1>7
  <2>2. x <= i
    BY <1>6, <2>1 DEF x
  <2> QED BY <1>1, <1>2, <1>7, <2>1, <2>2
<1> HIDE DEF x, clear
<1>9. x \in 0 .. T - 1
  BY <1>1, <1>2, <1>5, <1>7
<1>10. x \in U \ locked
  BY <1>2, <1>7, <1>9
<1>11. 0 .. x - 1 \subseteq locked
  BY <1>1, <1>2, <1>7, <1>8
<1> QED BY <1>5, <1>9, <1>10, <1>11 DEF x, clear

\* requestPage locks the first clear bit from the hint on.
LEMMA RequestStep ==
  ASSUME IInv, mem_pageframeallocator_requestPage
  PROVE  IInv'
<1> DEFINE clear == (bitmapIdx .. Bits(memmap) - 1) \ locked
           U == UsableFrames(memmap)
           R == Reserved(memmap)
<1>1. status = "ready" /\ Booted /\ UNCHANGED <<memmap, wide>>
  BY DEF mem_pageframeallocator_requestPage, Booted
<1>2. Supported(memmap)'
  BY <1>1 DEF IInv, Supported
<1>3. CASE mem_freeMemory < OomFrames
  <2>1. /\ status' = "out of memory"
        /\ UNCHANGED <<bitmapIdx, locked, mem_freeMemory, mem_usedMemory, held>>
    BY <1>3 DEF mem_pageframeallocator_requestPage
  <2> QED BY <1>1, <1>2, <1>3, <2>1 DEF IInv, Booted, Status
<1>4. CASE ~ (mem_freeMemory < OomFrames)
  <2>1. mem_freeMemory >= OomFrames /\ mem_freeMemory \in Nat /\ mem_freeMemory >= 1
    BY <1>1, <1>4, PfaAssumption DEF IInv
  <2> DEFINE x == Min(clear)
  <2>2. /\ clear # {}
        /\ x \in U \ locked
        /\ x \in Nat
        /\ 0 .. x - 1 \subseteq locked
    BY <1>1, <2>1, RequestFindsUsable
  <2>3. /\ bitmapIdx' = x
        /\ locked' = locked \cup {x}
        /\ mem_freeMemory' = mem_freeMemory - 1
        /\ mem_usedMemory' = mem_usedMemory + 1
        /\ held' = held \cup {x}
        /\ status' = status
    BY <1>4, <2>2 DEF mem_pageframeallocator_requestPage
  <2> HIDE DEF x, clear
  <2>4. /\ Bits(memmap) \in Nat
        /\ getMemoryArealSize(memmap) \in Nat
        /\ getMemoryArealSize(memmap) < Bits(memmap)
        /\ bitmapSizeInPages(memmap) \in Nat
        /\ largestFreeSegment(memmap).pages \in Nat
        /\ U \subseteq 0 .. getMemoryArealSize(memmap) - 1
        /\ IsFiniteSet(held)
        /\ Cardinality(held) \in Nat
        /\ mem_usedMemory \in Nat
    BY <1>1, BootedFacts
  <2>5. /\ locked \subseteq 0 .. Bits(memmap) - 1
        /\ R \subseteq locked
        /\ held = (locked \cap U) \ R
        /\ 0 .. getMemoryArealSize(memmap) - 1 \subseteq locked \cup U
        /\ mem_usedMemory = Cardinality(held) + bitmapSizeInPages(memmap)
        /\ mem_freeMemory = largestFreeSegment(memmap).pages - mem_usedMemory
    BY <1>1 DEF IInv
  <2>6. Cardinality(held') = Cardinality(held) + 1
    <3>1. x \notin held
      BY <2>2, <2>5
    <3> QED BY <2>3, <2>4, <3>1, FS_AddElement
  <2>7. held' = (locked' \cap U) \ R
    BY <2>2, <2>3, <2>5
  <2>8. /\ locked' \subseteq 0 .. Bits(memmap) - 1
        /\ R \subseteq locked'
        /\ 0 .. getMemoryArealSize(memmap) - 1 \subseteq locked' \cup U
        /\ 0 .. bitmapIdx' - 1 \subseteq locked'
    BY <2>2, <2>3, <2>4, <2>5
  <2>9. /\ mem_freeMemory' \in Nat
        /\ mem_usedMemory' = Cardinality(held') + bitmapSizeInPages(memmap)
        /\ mem_freeMemory' = largestFreeSegment(memmap).pages - mem_usedMemory'
    BY <2>1, <2>3, <2>4, <2>5, <2>6
  <2> QED BY <1>1, <1>2, <2>2, <2>3, <2>7, <2>8, <2>9 DEF IInv, Booted
<1> QED BY <1>3, <1>4

\* A run of pages that lockPages is given, below the end of the bitmap.
LEMMA RunToLock ==
  ASSUME NEW addr \in Nat, NEW n \in 1 .. MaxRun, Bits(memmap) \in Nat,
         addr .. addr + n - 1 \subseteq 0 .. Bits(memmap)
  PROVE  /\ ToLock(locked, Run(addr, n)) = (addr .. addr + n - 1) \ locked
         /\ IsFiniteSet(addr .. addr + n - 1)
         /\ Cardinality(addr .. addr + n - 1) = n
<1>1. n \in Nat /\ n <= IntPages /\ n >= 1
  BY PfaAssumption
<1> DEFINE b == addr + n - 1
<1>2. b \in Int /\ addr \in Int /\ ~ (addr > b) /\ b - addr + 1 = n
  BY <1>1
<1>3. Run(addr, n) = addr .. b
  BY <1>1, RunIsInterval
<1> HIDE DEF b
<1>4. IsFiniteSet(addr .. b) /\ Cardinality(addr .. b) = n
  BY <1>2, FS_Interval
<1>5. {i \in addr .. b : 0 <= i /\ i <= Bits(memmap)} = addr .. b
  BY DEF b
<1> QED BY <1>3, <1>4, <1>5 DEF ToLock, b

\* lockPages locks what is clear and counts only that.
LEMMA LockStep ==
  ASSUME IInv, NEW addr \in Nat, NEW n \in 1 .. MaxRun,
         addr .. addr + n - 1 \subseteq UsableFrames(memmap),
         n <= mem_freeMemory,
         mem_pageframeallocator_lockPages(addr, n)
  PROVE  IInv'
<1> DEFINE U == UsableFrames(memmap)
           R == Reserved(memmap)
           run == addr .. addr + n - 1
           new == run \ locked
<1>1. status = "ready" /\ Booted
  BY DEF mem_pageframeallocator_lockPages, Booted
<1>2. /\ Bits(memmap) \in Nat
      /\ getMemoryArealSize(memmap) \in Nat
      /\ getMemoryArealSize(memmap) < Bits(memmap)
      /\ bitmapSizeInPages(memmap) \in Nat
      /\ largestFreeSegment(memmap).pages \in Nat
      /\ U \subseteq 0 .. getMemoryArealSize(memmap) - 1
      /\ IsFiniteSet(held)
      /\ Cardinality(held) \in Nat
  BY <1>1, BootedFacts
<1>3. /\ locked \subseteq 0 .. Bits(memmap) - 1
      /\ R \subseteq locked
      /\ held = (locked \cap U) \ R
      /\ 0 .. getMemoryArealSize(memmap) - 1 \subseteq locked \cup U
      /\ 0 .. bitmapIdx - 1 \subseteq locked
      /\ mem_freeMemory \in Nat
      /\ mem_usedMemory = Cardinality(held) + bitmapSizeInPages(memmap)
      /\ mem_freeMemory = largestFreeSegment(memmap).pages - mem_usedMemory
  BY <1>1 DEF IInv
<1>4. run \subseteq 0 .. Bits(memmap)
  BY <1>2
<1>5. ToLock(locked, Run(addr, n)) = new /\ IsFiniteSet(run) /\ Cardinality(run) = n
  BY <1>2, <1>4, RunToLock
<1>6. /\ locked' = locked \cup new
      /\ mem_freeMemory' = mem_freeMemory - Cardinality(new)
      /\ mem_usedMemory' = mem_usedMemory + Cardinality(new)
      /\ held' = held \cup new
      /\ UNCHANGED <<memmap, wide, status, bitmapIdx>>
  BY <1>5 DEF mem_pageframeallocator_lockPages
<1> HIDE DEF run
<1>7. IsFiniteSet(new) /\ Cardinality(new) \in Nat /\ Cardinality(new) <= n
  BY <1>5, FS_Subset, FS_CardinalityType
<1>8. Cardinality(held') = Cardinality(held) + Cardinality(new)
  <2>1. held \cap new = {}
    BY <1>3
  <2>2. Cardinality(held \cup new)
          = Cardinality(held) + Cardinality(new) - Cardinality(held \cap new)
    BY <1>2, <1>7, FS_Union
  <2>3. Cardinality(held \cap new) = 0
    BY <2>1, FS_EmptySet
  <2> QED BY <1>2, <1>6, <1>7, <2>2, <2>3
<1>9. held' = (locked' \cap U) \ R
  <2>1. new \subseteq U
    BY DEF run
  <2> QED BY <1>3, <1>6, <2>1
<1>10. /\ locked' \subseteq 0 .. Bits(memmap) - 1
       /\ R \subseteq locked'
       /\ 0 .. getMemoryArealSize(memmap) - 1 \subseteq locked' \cup U
       /\ 0 .. bitmapIdx' - 1 \subseteq locked'
  <2>1. new \subseteq 0 .. Bits(memmap) - 1
    BY <1>2 DEF run
  <2> QED BY <1>3, <1>6, <2>1
<1>11. /\ mem_freeMemory' \in Nat
       /\ mem_usedMemory' = Cardinality(held') + bitmapSizeInPages(memmap)
       /\ mem_freeMemory' = largestFreeSegment(memmap).pages - mem_usedMemory'
  BY <1>2, <1>3, <1>6, <1>7, <1>8
<1>12. Supported(memmap)'
  BY <1>6 DEF IInv, Supported
<1> QED BY <1>1, <1>6, <1>9, <1>10, <1>11, <1>12 DEF IInv, Booted

\* Locking a range that is not usable moves no counter.
LEMMA LockNonAvailableStep ==
  ASSUME IInv, NEW addr \in Nat, NEW n \in 1 .. MaxRun,
         addr .. addr + n - 1
           \subseteq (0 .. Bits(memmap) - 1) \ UsableFrames(memmap),
         mem_pageframeallocator_lockPagesNonAvailable(addr, n)
  PROVE  IInv'
<1> DEFINE run == addr .. addr + n - 1
<1>1. status = "ready" /\ Booted
  BY DEF mem_pageframeallocator_lockPagesNonAvailable, Booted
<1>2. Bits(memmap) \in Nat
  BY <1>1, BootedFacts
<1>3. run \subseteq 0 .. Bits(memmap)
  BY <1>2
<1>4. ToLock(locked, Run(addr, n)) = run \ locked
  BY <1>2, <1>3, RunToLock
<1>5. /\ locked' = locked \cup run
      /\ UNCHANGED <<memmap, wide, status, bitmapIdx,
                     mem_freeMemory, mem_usedMemory, held>>
  BY <1>4 DEF mem_pageframeallocator_lockPagesNonAvailable
<1>6. run \cap UsableFrames(memmap) = {} /\ run \subseteq 0 .. Bits(memmap) - 1
  OBVIOUS
<1>7. Supported(memmap)'
  BY <1>5 DEF IInv, Supported
<1> HIDE DEF run
<1> QED BY <1>1, <1>5, <1>6, <1>7 DEF IInv, Booted

\* freePage clears a bit and takes the hint back to it.
LEMMA FreeStep ==
  ASSUME IInv, NEW addr \in Nat, NEW n \in 1 .. MaxRun,
         LET run == addr .. addr + n - 1
         IN  run \subseteq UsableFrames(memmap) \cap (held \cup (run \ locked)),
         mem_pageframeallocator_freePages(addr, n)
  PROVE  IInv'
<1> DEFINE U == UsableFrames(memmap)
           R == Reserved(memmap)
           run == addr .. addr + n - 1
           old == run \cap locked
<1>1. status = "ready" /\ Booted
  BY DEF mem_pageframeallocator_freePages, Booted
<1>2. /\ bitmapSizeInPages(memmap) \in Nat
      /\ largestFreeSegment(memmap).pages \in Nat
      /\ IsFiniteSet(held)
      /\ Cardinality(held) \in Nat
  BY <1>1, BootedFacts
<1>3. /\ locked \subseteq 0 .. Bits(memmap) - 1
      /\ R \subseteq locked
      /\ held = (locked \cap U) \ R
      /\ 0 .. getMemoryArealSize(memmap) - 1 \subseteq locked \cup U
      /\ bitmapIdx \in Nat
      /\ 0 .. bitmapIdx - 1 \subseteq locked
      /\ mem_freeMemory \in Nat
      /\ mem_usedMemory = Cardinality(held) + bitmapSizeInPages(memmap)
      /\ mem_freeMemory = largestFreeSegment(memmap).pages - mem_usedMemory
  BY <1>1 DEF IInv
<1>4. /\ locked' = locked \ old
      /\ mem_freeMemory' = mem_freeMemory + Cardinality(old)
      /\ mem_usedMemory' = mem_usedMemory - Cardinality(old)
      /\ bitmapIdx' = Min({bitmapIdx} \cup old)
      /\ held' = held \ old
      /\ UNCHANGED <<memmap, wide, status>>
  BY DEF mem_pageframeallocator_freePages, ToFree
<1>5. old \subseteq held /\ old \subseteq Nat
  OBVIOUS
<1> HIDE DEF old
<1>6. IsFiniteSet(old) /\ Cardinality(old) \in Nat
  BY <1>2, <1>5, FS_Subset, FS_CardinalityType
<1>7. Cardinality(held') = Cardinality(held) - Cardinality(old)
  <2>1. held \cap old = old
    BY <1>5
  <2>2. Cardinality(held \ old) = Cardinality(held) - Cardinality(held \cap old)
    BY <1>2, FS_Difference
  <2> QED BY <1>4, <2>1, <2>2
<1>8. /\ bitmapIdx' \in Nat
      /\ bitmapIdx' <= bitmapIdx
      /\ \A i \in old : bitmapIdx' <= i
  <2> DEFINE S == {bitmapIdx} \cup old
  <2>1. S \in SUBSET Nat /\ S # {}
    BY <1>3, <1>5
  <2>2. Min(S) \in S /\ \A y \in S : Min(S) <= y
    <3> HIDE DEF S
    <3> QED BY <2>1, NatMin
  <2> QED BY <1>4, <2>1, <2>2
<1>9. 0 .. bitmapIdx' - 1 \subseteq locked'
  <2>1. ASSUME NEW b \in Nat, b <= bitmapIdx, \A i \in old : b <= i
        PROVE  0 .. b - 1 \subseteq locked \ old
    BY <1>3, <1>5, <2>1
  <2> QED BY <1>4, <1>8, <2>1
<1>10. /\ locked' \subseteq 0 .. Bits(memmap) - 1
       /\ R \subseteq locked'
       /\ held' = (locked' \cap U) \ R
       /\ 0 .. getMemoryArealSize(memmap) - 1 \subseteq locked' \cup U
  BY <1>3, <1>4, <1>5
<1>11. /\ mem_freeMemory' \in Nat
       /\ mem_usedMemory' = Cardinality(held') + bitmapSizeInPages(memmap)
       /\ mem_freeMemory' = largestFreeSegment(memmap).pages - mem_usedMemory'
  BY <1>2, <1>3, <1>4, <1>6, <1>7
<1>12. Supported(memmap)'
  BY <1>4 DEF IInv, Supported
<1> QED BY <1>1, <1>4, <1>8, <1>9, <1>10, <1>11, <1>12 DEF IInv, Booted

-----------------------------------------------------------------------------
(* The theorems.                                                           *)

\* No step of the allocator breaks the invariant.
LEMMA NextIInv ==
  ASSUME IInv, [Next]_vars
  PROVE  IInv'
<1>1. CASE mem_pageframeallocator_init
  BY <1>1, InitStep
<1>2. CASE mem_pageframeallocator_requestPage
  BY <1>2, RequestStep
<1>3. ASSUME NEW addr \in 0 .. Bits(memmap) - 1, NEW n \in 1 .. MaxRun,
             addr .. addr + n - 1 \subseteq UsableFrames(memmap),
             n <= mem_freeMemory,
             mem_pageframeallocator_lockPages(addr, n)
      PROVE  IInv'
  <2>1. addr \in Nat
    OBVIOUS
  <2> QED BY <1>3, <2>1, LockStep
<1>4. ASSUME NEW addr \in 0 .. Bits(memmap) - 1, NEW n \in 1 .. MaxRun,
             addr .. addr + n - 1 \subseteq
               UsableFrames(memmap) \cap (held \cup ((addr .. addr + n - 1) \ locked)),
             mem_pageframeallocator_freePages(addr, n)
      PROVE  IInv'
  <2>1. addr \in Nat
    OBVIOUS
  <2> QED BY <1>4, <2>1, FreeStep
<1>5. ASSUME NEW addr \in 0 .. Bits(memmap) - 1, NEW n \in 1 .. MaxRun,
             addr .. addr + n - 1
               \subseteq (0 .. Bits(memmap) - 1) \ UsableFrames(memmap),
             mem_pageframeallocator_lockPagesNonAvailable(addr, n)
      PROVE  IInv'
  <2>1. addr \in Nat
    OBVIOUS
  <2> QED BY <1>5, <2>1, LockNonAvailableStep
<1>6. CASE UNCHANGED vars
  BY <1>6 DEF IInv, vars, Booted, Supported
<1> QED BY <1>1, <1>2, <1>3, <1>4, <1>5, <1>6 DEF Next

\* IInv holds in every state of a kernel booted with a supported memory map.
THEOREM Invariance == Spec /\ Supported(memmap) => []IInv
<1>1. Init /\ Supported(memmap) => IInv
  BY InitIInv
<1>2. IInv /\ [Next]_vars => IInv'
  BY NextIInv
<1> QED BY <1>1, <1>2, PTL DEF Spec

\* The invariant contains every property the runs check.
LEMMA IInvImplies ==
  ASSUME IInv
  PROVE  /\ TypeOK /\ HeldFramesAreMemory /\ NothingFreeBelowHint
         /\ CountersExact /\ OutOfMemoryOnlyByCounter
         /\ NonUsableLocked /\ BitmapInUsableMemory
<1>1. CASE ~Booted
  <2>1. {} \subseteq 0 .. Bits(memmap) - 1
    OBVIOUS
  <2>2. TypeOK
    <3>1. /\ locked = {} /\ held = {} /\ bitmapIdx = 0
          /\ mem_freeMemory = 0 /\ mem_usedMemory = 0
          /\ memmap \in MemMaps /\ wide \in BOOLEAN /\ status \in Status
      BY <1>1 DEF IInv
    <3> QED BY <2>1, <3>1 DEF TypeOK
  <2> QED BY <1>1, <2>2
          DEF HeldFramesAreMemory, NothingFreeBelowHint, CountersExact, Booted,
              OutOfMemoryOnlyByCounter, NonUsableLocked, BitmapInUsableMemory
<1>2. CASE Booted
  <2>1. /\ mem_freeMemory <= Cardinality(UsableFrames(memmap) \ locked)
        /\ mem_usedMemory \in Nat
        /\ largestFreeSegment(memmap).pages \in Nat
    BY <1>2, BootedFacts
  <2>2. /\ BitmapFrames(memmap) \subseteq Reserved(memmap)
        /\ Reserved(memmap) \subseteq UsableFrames(memmap)
    BY <1>2, SegmentFacts DEF IInv, Supported
  <2>3. TypeOK
    BY <1>2, <2>1 DEF IInv, TypeOK
  <2>4. HeldFramesAreMemory
    BY <1>2, <2>2 DEF IInv, HeldFramesAreMemory
  <2>5. NothingFreeBelowHint /\ OutOfMemoryOnlyByCounter
    BY <1>2 DEF IInv, NothingFreeBelowHint, OutOfMemoryOnlyByCounter
  <2>6. CountersExact
    <3>1. /\ mem_usedMemory = Cardinality(held) + bitmapSizeInPages(memmap)
          /\ mem_freeMemory = largestFreeSegment(memmap).pages - mem_usedMemory
      BY <1>2 DEF IInv
    <3>2. mem_freeMemory + mem_usedMemory = largestFreeSegment(memmap).pages
      BY <2>1, <3>1
    <3> QED BY <2>1, <3>1, <3>2 DEF CountersExact
  <2>7. NonUsableLocked /\ BitmapInUsableMemory
    BY <1>2, <2>2 DEF IInv, NonUsableLocked, BitmapInUsableMemory
  <2> QED BY <2>3, <2>4, <2>5, <2>6, <2>7
<1> QED BY <1>1, <1>2

\* The counters of pageframeallocator.cpp never go below zero and no call
\* reaches the bit behind the bitmap.
THEOREM TypeCorrect == Spec /\ Supported(memmap) => []TypeOK
BY Invariance, IInvImplies, PTL

\* requestPage and lockPages hand out usable memory outside the bitmap only.
THEOREM FramesHandedOutAreMemory ==
  Spec /\ Supported(memmap) => []HeldFramesAreMemory
BY Invariance, IInvImplies, PTL

\* A freed frame is found again: requestPage misses none below bitmapIdx.
THEOREM ScanMissesNothing ==
  Spec /\ Supported(memmap) => []NothingFreeBelowHint
BY Invariance, IInvImplies, PTL

\* mem_getUsedRAM() and mem_getFreeRAM() tell the truth.
THEOREM CountersTellTheTruth ==
  Spec /\ Supported(memmap) => []CountersExact
BY Invariance, IInvImplies, PTL

\* The second panic of requestPage is never reached.
THEOREM ScanNeverFails ==
  Spec /\ Supported(memmap) => []OutOfMemoryOnlyByCounter
BY Invariance, IInvImplies, PTL

\* What the two comments of init say holds for every supported map: the
\* bitmap and the frames that are not usable are locked, and the bitmap is
\* written to usable memory.
THEOREM InitCommentsHold ==
  Spec /\ Supported(memmap) => [](NonUsableLocked /\ BitmapInUsableMemory)
BY Invariance, IInvImplies, PTL

-----------------------------------------------------------------------------
(* The allocator implements FrameOwnership.                                *)

\* Every step is a step of FrameOwnership, or leaves its variables alone.
LEMMA AbstractStep ==
  ASSUME IInv, IInv', [Next]_vars
  PROVE  [Abstract!Next]_(Abstract!vars)
<1> DEFINE U == UsableFrames(memmap)
<1>1. CASE mem_pageframeallocator_init
  <2>1. status = "boot" /\ ~Booted /\ UNCHANGED <<memmap, held>>
    BY <1>1 DEF mem_pageframeallocator_init, Booted
  <2>2. CASE ~Booted'
    <3>1. UNCHANGED Booted
      <4>1. Booted \in BOOLEAN
        BY DEF Booted
      <4>2. Booted' \in BOOLEAN
        BY DEF Booted
      <4> QED BY <2>1, <2>2, <4>1, <4>2, Zenon
    <3> QED BY <2>1, <2>2, <3>1 DEF Abstract!vars
  <2>3. CASE Booted'
    <3>1. U \subseteq Nat
      <4>1. /\ FreeEntries(memmap) # {}
            /\ bitmapSizeInPages(memmap) <= largestFreeSegment(memmap).pages
            /\ memmap \in MemMaps
        BY <2>1, <2>3 DEF IInv, Supported
      <4> QED BY <4>1, SegmentFacts
    <3>2. (U \ locked)' \in SUBSET Nat
      BY <2>1, <3>1
    <3> QED BY <2>1, <2>3, <3>2 DEF Abstract!Next, Abstract!Open, Booted
  <2> QED BY <2>2, <2>3
<1>2. CASE mem_pageframeallocator_requestPage
  <2>1. status = "ready" /\ Booted /\ UNCHANGED memmap
    BY <1>2 DEF mem_pageframeallocator_requestPage, Booted
  <2>2. CASE mem_freeMemory < OomFrames
    <3>1. status' = "out of memory" /\ UNCHANGED <<locked, held>>
      BY <1>2, <2>2 DEF mem_pageframeallocator_requestPage
    <3> QED BY <2>1, <3>1 DEF Abstract!vars, Booted
  <2>3. CASE ~ (mem_freeMemory < OomFrames)
    <3> DEFINE x == Min((bitmapIdx .. Bits(memmap) - 1) \ locked)
    <3>1. mem_freeMemory >= OomFrames
      <4>1. mem_freeMemory \in Nat /\ OomFrames \in Nat
        BY <2>1, PfaAssumption DEF IInv
      <4> QED BY <2>3, <4>1
    <3>2. /\ (bitmapIdx .. Bits(memmap) - 1) \ locked # {}
          /\ x \in U \ locked
      BY <2>1, <3>1, RequestFindsUsable
    <3>3. locked' = locked \cup {x} /\ held' = held \cup {x} /\ status' = status
      BY <1>2, <2>3, <3>2 DEF mem_pageframeallocator_requestPage
    <3> HIDE DEF x
    <3>4. /\ Booted' = Booted
          /\ (U \ locked)' = (U \ locked) \ {x}
          /\ {x} \in SUBSET (U \ locked)
      BY <2>1, <3>2, <3>3 DEF Booted
    <3> QED BY <2>1, <3>3, <3>4 DEF Abstract!Next, Abstract!Grant
  <2> QED BY <2>2, <2>3
<1>3. ASSUME NEW addr \in 0 .. Bits(memmap) - 1, NEW n \in 1 .. MaxRun,
             addr .. addr + n - 1 \subseteq UsableFrames(memmap),
             mem_pageframeallocator_lockPages(addr, n)
      PROVE  [Abstract!Next]_(Abstract!vars)
  <2> DEFINE new == ToLock(locked, Run(addr, n))
  <2>1. /\ status = "ready" /\ Booted /\ UNCHANGED <<memmap, status>>
        /\ locked' = locked \cup new
        /\ held' = held \cup new
    BY <1>3 DEF mem_pageframeallocator_lockPages, Booted
  <2>2. new = (addr .. addr + n - 1) \ locked
    <3>1. /\ Bits(memmap) \in Nat
          /\ getMemoryArealSize(memmap) \in Nat
          /\ getMemoryArealSize(memmap) < Bits(memmap)
          /\ U \subseteq 0 .. getMemoryArealSize(memmap) - 1
      BY <2>1, BootedFacts
    <3>2. addr .. addr + n - 1 \subseteq 0 .. Bits(memmap)
      BY <1>3, <3>1
    <3>3. addr \in Nat
      OBVIOUS
    <3> QED BY <3>1, <3>2, <3>3, RunToLock
  <2>3. new \in SUBSET (U \ locked)
    BY <1>3, <2>2
  <2> HIDE DEF new
  <2>4. Booted' = Booted /\ (U \ locked)' = (U \ locked) \ new
    BY <2>1 DEF Booted
  <2> QED BY <2>1, <2>3, <2>4 DEF Abstract!Next, Abstract!Grant
<1>4. ASSUME NEW addr \in 0 .. Bits(memmap) - 1, NEW n \in 1 .. MaxRun,
             addr .. addr + n - 1 \subseteq
               UsableFrames(memmap) \cap (held \cup ((addr .. addr + n - 1) \ locked)),
             mem_pageframeallocator_freePages(addr, n)
      PROVE  [Abstract!Next]_(Abstract!vars)
  <2> DEFINE old == (addr .. addr + n - 1) \cap locked
  <2>1. /\ status = "ready" /\ Booted /\ UNCHANGED <<memmap, status>>
        /\ locked' = locked \ old
        /\ held' = held \ old
    BY <1>4 DEF mem_pageframeallocator_freePages, ToFree, Booted
  <2>2. old \in SUBSET held /\ old \subseteq U
    BY <1>4
  <2> HIDE DEF old
  <2>3. Booted' = Booted /\ (U \ locked)' = (U \ locked) \cup old
    BY <2>1, <2>2 DEF Booted
  <2> QED BY <2>1, <2>2, <2>3 DEF Abstract!Next, Abstract!Return
<1>5. ASSUME NEW addr \in 0 .. Bits(memmap) - 1, NEW n \in 1 .. MaxRun,
             addr .. addr + n - 1
               \subseteq (0 .. Bits(memmap) - 1) \ UsableFrames(memmap),
             mem_pageframeallocator_lockPagesNonAvailable(addr, n)
      PROVE  [Abstract!Next]_(Abstract!vars)
  <2> DEFINE new == ToLock(locked, Run(addr, n))
  <2>1. /\ status = "ready" /\ Booted /\ UNCHANGED <<memmap, status, held>>
        /\ locked' = locked \cup new
    BY <1>5 DEF mem_pageframeallocator_lockPagesNonAvailable, Booted
  <2>2. new = (addr .. addr + n - 1) \ locked
    <3>1. Bits(memmap) \in Nat
      BY <2>1, BootedFacts
    <3>2. addr .. addr + n - 1 \subseteq 0 .. Bits(memmap)
      BY <1>5, <3>1
    <3>3. addr \in Nat
      OBVIOUS
    <3> QED BY <3>1, <3>2, <3>3, RunToLock
  <2>3. new \cap U = {}
    BY <1>5, <2>2
  <2> HIDE DEF new
  <2>4. Booted' = Booted /\ (U \ locked)' = U \ locked
    BY <2>1, <2>3 DEF Booted
  <2> QED BY <2>1, <2>4 DEF Abstract!vars
<1>6. CASE UNCHANGED vars
  BY <1>6 DEF vars, Abstract!vars, Booted
<1> QED BY <1>1, <1>2, <1>3, <1>4, <1>5, <1>6 DEF Next

\* A frame passes to a caller only while it is available, and becomes
\* available again only when its holder frees it.
THEOREM Refinement == Spec /\ Supported(memmap) => ImplementsFrameOwnership
<1>1. Init => Abstract!Init
  BY DEF Init, Abstract!Init, Booted
<1>2. IInv /\ IInv' /\ [Next]_vars => [Abstract!Next]_(Abstract!vars)
  BY AbstractStep
<1> QED BY <1>1, <1>2, Invariance, PTL
        DEF Spec, ImplementsFrameOwnership, Abstract!Spec
===============================================================================
