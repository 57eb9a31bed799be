--------------------------------- MODULE Heap ---------------------------------
(***************************************************************************)
(* The kernel heap, mem/heap.cpp: a first-fit allocator over a chain of    *)
(* segments, each led by a HeapSegHdr.  The chain is a function from the   *)
(* addresses of the headers to their fields, so an address outside its     *)
(* domain holds no header.  The kernel is one thread of control; malloc    *)
(* calls itself after it has grown the heap, and each such call is a step. *)
(***************************************************************************)
EXTENDS Integers, FiniteSets, Memory

CONSTANTS
  heapStart,    \* 0x800000, page aligned
  InitPages,    \* 256: pages of the initial heap
  PageSz,       \* 0x1000
  HdrSize,      \* 29: sizeof(HeapSegHdr), which is packed
  Align,        \* 0x10: sizes are rounded up to it, and the least remainder
  Sizes,        \* the sizes callers ask for
  Frames,       \* bound: pages requestPage grants before it panics
  MaxLive       \* bound: blocks in use at the same time

ASSUME HeapAssumption ==
  /\ heapStart \in Nat \ {0}
  /\ PageSz \in Nat \ {0}
  /\ heapStart % PageSz = 0
  /\ InitPages \in Nat \ {0}
  /\ HdrSize \in 1 .. PageSz
  /\ Align \in Nat \ {0}
  /\ Sizes \subseteq Nat
  /\ Frames \in Nat
  /\ MaxLive \in Nat

VARIABLES
  status,       \* "boot", "ready", or "out of memory" once requestPage panics
  seg,          \* header address -> [length, next, last, free]
  LastHdr,
  heapEnd,
  frames,       \* pages requestPage can still grant
  pending,      \* the size malloc calls itself with, 0 when no call is running
  expansions,   \* history: how often the running malloc has grown the heap
  live,         \* history: address -> size of the blocks handed out
  nullStore,    \* has split stored to the field `last` of address NULL
  zeroed        \* the addresses the last step, if sfree, filled with zeros

vars == <<status, seg, LastHdr, heapEnd, frames, pending, expansions, live,
          nullStore, zeroed>>

NULL == 0

Header == [length : Nat, next : Nat, last : Nat, free : BOOLEAN]

-----------------------------------------------------------------------------
(* The member functions of HeapSegHdr, on h = [seg |-> .., LastHdr |-> ..]. *)

heap == [seg |-> seg, LastHdr |-> LastHdr]

RoundUp(size, unit) ==
  IF size % unit > 0 THEN size - (size % unit) + unit ELSE size

combineForward_LastHdrKept(h, s) ==
  LET n == h.seg[s].next
  IN  IF n = NULL \/ ~h.seg[n].free
      THEN h
      ELSE [h EXCEPT !.seg = [a \in DOMAIN @ \ {n} |->
                                IF a = s
                                THEN [@[s] EXCEPT
                                        !.length = @ + h.seg[n].length + HdrSize,
                                        !.next = h.seg[n].next]
                                ELSE @[a]]]

combineForward(h, s) ==
  LET n == h.seg[s].next
  IN  IF n = NULL \/ ~h.seg[n].free
      THEN h
      ELSE [seg     |-> [a \in DOMAIN h.seg \ {n} |->
                           CASE a = s ->
                                  [h.seg[s] EXCEPT
                                     !.length = @ + h.seg[n].length + HdrSize,
                                     !.next = h.seg[n].next]
                             [] a = h.seg[n].next -> [h.seg[a] EXCEPT !.last = s]
                             [] OTHER -> h.seg[a]],
            LastHdr |-> IF n = h.LastHdr THEN s ELSE h.LastHdr]

\* A name with a suffix is a faulty variant of the definition after it.
combineBackward_None(h, s) == h

combineBackward(h, s) ==
  LET l == h.seg[s].last
  IN  IF l # NULL /\ h.seg[l].free THEN combineForward(h, l) ELSE h

Splits_AnyRemainder(h, s, size) == size >= Align

Splits_PageRemainder(h, s, size) ==
  size >= Align /\ h.seg[s].length - size - HdrSize >= PageSz

\* Is the segment cut in two, and what becomes of it.
Splits(h, s, size) ==
  /\ size >= Align
  /\ h.seg[s].length - size - HdrSize >= Align

split(h, s, size) ==
  LET new == s + size + HdrSize
      n   == h.seg[s].next
  IN  IF ~Splits(h, s, size)
      THEN h
      ELSE [seg     |-> [a \in DOMAIN h.seg \cup {new} |->
                           CASE a = new ->
                                  [length |-> h.seg[s].length - size - HdrSize,
                                   next |-> n, last |-> s, free |-> h.seg[s].free]
                             [] a = s -> [h.seg[s] EXCEPT !.length = size, !.next = new]
                             [] a = n -> [h.seg[n] EXCEPT !.last = new]
                             [] OTHER -> h.seg[a]],
            LastHdr |-> IF h.LastHdr = s THEN new ELSE h.LastHdr]

FirstFit_HeaderCounted(size) ==
  LET fits == {a \in DOMAIN seg : seg[a].free /\ seg[a].length + HdrSize >= size}
  IN  IF fits = {} THEN NULL ELSE CHOOSE a \in fits : \A b \in fits : a <= b

\* The walk of malloc: the first free segment of the chain that is long enough.
FirstFit(size) ==
  LET walk[a \in DOMAIN seg] ==
        IF seg[a].free /\ seg[a].length >= size THEN a
        ELSE IF seg[a].next = NULL THEN NULL
        ELSE walk[seg[a].next]
  IN  walk[heapStart]

\* The memory in use, headers included, by the chain.
getUsedMem_HeadersMissed ==
  LET walk[a \in DOMAIN seg] ==
        (IF seg[a].free THEN 0 ELSE seg[a].length)
        + (IF seg[a].next = NULL THEN 0 ELSE walk[seg[a].next])
  IN  IF seg = <<>> THEN 0 ELSE walk[heapStart]

getUsedMem ==
  LET walk[a \in DOMAIN seg] ==
        (IF seg[a].free THEN 0 ELSE seg[a].length + HdrSize)
        + (IF seg[a].next = NULL THEN 0 ELSE walk[seg[a].next])
  IN  IF seg = <<>> THEN 0 ELSE walk[heapStart]

-----------------------------------------------------------------------------
Init ==
  /\ status = "boot"
  /\ seg = <<>>
  /\ LastHdr = NULL
  /\ heapEnd = 0
  /\ frames \in 0 .. Frames
  /\ pending = 0
  /\ expansions = 0
  /\ live = <<>>
  /\ nullStore = FALSE
  /\ zeroed = {}

\* requestPage panics.  The pages mapped before that stay mapped and heapEnd
\* may have passed them, but the panic ends every use of the heap.
OutOfMemory ==
  /\ status' = "out of memory"
  /\ UNCHANGED <<seg, LastHdr, heapEnd, frames, pending, expansions, live,
                 nullStore, zeroed>>

initHeap ==
  /\ status = "boot"
  /\ IF InitPages > frames
     THEN OutOfMemory
     ELSE /\ status' = "ready"
          /\ frames' = frames - InitPages
          /\ heapEnd' = heapStart + InitPages * PageSz
          /\ seg' = [a \in {heapStart} |-> [length |-> InitPages * PageSz - HdrSize,
                                             next |-> NULL, last |-> NULL,
                                             free |-> TRUE]]
          /\ LastHdr' = heapStart
          /\ UNCHANGED <<pending, expansions, live, nullStore, zeroed>>

\* The pages are mapped one by one; requestPage panics when there is none.
expandHeap(size) ==
  LET length     == RoundUp(size, PageSz)
      newSegment == RoundUp(heapEnd, PageSz)
      grown      == [seg |-> Put([seg EXCEPT ![LastHdr].next = newSegment],
                                 newSegment,
                                 [length |-> length - HdrSize, next |-> NULL,
                                  last |-> LastHdr, free |-> TRUE]),
                     LastHdr |-> newSegment]
      h          == combineBackward(grown, newSegment)
  IN  IF length \div PageSz > frames
      THEN OutOfMemory
      ELSE /\ frames' = frames - (length \div PageSz)
           /\ heapEnd' = newSegment + length
           /\ seg' = h.seg
           /\ LastHdr' = h.LastHdr
           /\ pending' = size
           /\ expansions' = expansions + 1
           /\ zeroed' = {}
           /\ UNCHANGED <<status, live, nullStore>>

\* One run of the body of malloc, size being rounded and not zero.  In split,
\* next->last is stored to without a test for NULL.
mallocBody(size) ==
  LET s == FirstFit(size)
      h == split(heap, s, size)
  IN  IF s = NULL
      THEN expandHeap(size)
      ELSE /\ seg' = [h.seg EXCEPT ![s].free = FALSE]
           /\ LastHdr' = h.LastHdr
           /\ nullStore' = \/ nullStore
                           \/ Splits(heap, s, size) /\ seg[s].next = NULL
           /\ live' = Put(live, s + HdrSize, size)
           /\ pending' = 0
           /\ expansions' = 0
           /\ zeroed' = {}
           /\ UNCHANGED <<status, heapEnd, frames>>

\* malloc(0) returns NULL and changes nothing.
malloc(size) ==
  /\ status = "ready" /\ pending = 0
  /\ size # 0
  /\ mallocBody(RoundUp(size, Align))

\* The call of malloc at its end; size is a multiple of Align by now.
mallocAgain ==
  /\ status = "ready" /\ pending # 0
  /\ mallocBody(pending)

Release(address) ==
  LET s == address - HdrSize
      h == combineBackward(
             combineForward([heap EXCEPT !.seg[s].free = TRUE], s), s)
  IN  /\ status = "ready" /\ pending = 0
      /\ seg' = h.seg
      /\ LastHdr' = h.LastHdr
      /\ live' = [a \in DOMAIN live \ {address} |-> live[a]]
      /\ UNCHANGED <<status, heapEnd, frames, pending, expansions, nullStore>>

free(address) == Release(address) /\ zeroed' = {}

sfree_WithHeader(address, size) ==
  Release(address) /\ zeroed' = address - HdrSize .. address + size - 1

\* The block is filled with zeros after its segment has been merged.
sfree(address, size) ==
  Release(address) /\ zeroed' = address .. address + size - 1

\* A block is freed once, by the address malloc returned.
Next ==
  \/ initHeap
  \/ \E size \in Sizes : Cardinality(DOMAIN live) < MaxLive /\ malloc(size)
  \/ mallocAgain
  \/ \E address \in DOMAIN live : free(address)
  \/ \E address \in DOMAIN live : sfree(address, live[address])

Spec == Init /\ [][Next]_vars

-----------------------------------------------------------------------------
(* Properties.                                                             *)

EndOf(s) == s + HdrSize + seg[s].length

TypeOK ==
  /\ status \in {"boot", "ready", "out of memory"}
  /\ DOMAIN seg \subseteq Nat
  /\ \A s \in DOMAIN seg : seg[s] \in Header
  /\ {LastHdr, heapEnd, frames, pending, expansions} \subseteq Nat
  /\ nullStore \in BOOLEAN
  /\ DOMAIN live \subseteq Nat

\* The segments cover the heap from heapStart to heapEnd without gap or
\* overlap, and the links of split, combineForward and expandHeap agree with
\* the addresses in both directions.
SegmentsTile ==
  DOMAIN seg # {} =>
    /\ {heapStart, LastHdr} \subseteq DOMAIN seg
    /\ seg[heapStart].last = NULL
    /\ seg[LastHdr].next = NULL /\ EndOf(LastHdr) = heapEnd
    /\ \A s \in DOMAIN seg \ {LastHdr} :
         /\ seg[s].next = EndOf(s)
         /\ seg[s].next \in DOMAIN seg
         /\ seg[seg[s].next].last = s
    /\ \A s, t \in DOMAIN seg : s < t => EndOf(s) <= t

\* free merges with both neighbours: no two free segments are adjacent.
FreeSegmentsMerged ==
  \A s \in DOMAIN seg :
    seg[s].free /\ seg[s].next # NULL => ~seg[seg[s].next].free

\* A block handed out has a segment of its own, long enough and in use, and no
\* other segment is in use.
LiveBlocksOwnSegments ==
  /\ {s \in DOMAIN seg : ~seg[s].free} = {a - HdrSize : a \in DOMAIN live}
  /\ \A a \in DOMAIN live : seg[a - HdrSize].length >= live[a]

\* A block wastes less than a header and the least remainder of split.
WasteBounded ==
  \A a \in DOMAIN live : seg[a - HdrSize].length < live[a] + HdrSize + Align

\* Once every block is freed the heap is one segment again, however the blocks
\* were allocated and in whatever order they were freed.
NoFragmentsLeft ==
  status = "ready" /\ DOMAIN live = {} => DOMAIN seg = {heapStart}

\* The recursion of malloc is at most two deep: the first extension may be too
\* short by its header, the second joins it.
TwoExpansionsSuffice == expansions <= 2

\* sfree clears memory after the merge: what it clears lies inside one free
\* segment, so no header is lost.
ZeroingSparesHeaders ==
  zeroed # {} =>
    \E s \in DOMAIN seg :
      seg[s].free /\ zeroed \subseteq s + HdrSize .. EndOf(s) - 1

\* The address and the length of the segments in use, without their headers.
Blocks ==
  [a \in {s + HdrSize : s \in {t \in DOMAIN seg : ~seg[t].free}} |->
     seg[a - HdrSize].length]

Store == INSTANCE BlockStore WITH
  Overhead <- HdrSize,
  blocks   <- Blocks,
  used     <- getUsedMem

\* The heap implements BlockStore: each call of malloc, free and sfree takes or
\* gives one block and leaves the others where and as long as they are, the
\* growth of the heap is not seen, and getUsedMem, which the self test of the
\* logger in _start compares, is exact.
ImplementsBlocks == Store!Spec

\* The comment in split: "Set the next segment's last segment to our new
\* segment".  There is a next segment to set.
NextSegmentExists == ~nullStore
===============================================================================
