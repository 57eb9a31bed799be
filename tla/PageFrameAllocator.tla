-------------------------- MODULE PageFrameAllocator --------------------------
(***************************************************************************)
(* The physical page frame allocator, kernel/mem/pageframeallocator.cpp.   *)
(*                                                                         *)
(* Addresses, lengths and the two memory counters are counted in frames of *)
(* 4096 bytes: Limine aligns usable entries to frames, and every address   *)
(* the allocator touches is divided by 4096 first.  The bitmap is the set  *)
(* of its one bits (module Bitmap shows that the byte array is that set).  *)
(* The loops over pages call an idempotent operation for every page of a   *)
(* run, so each is one set operation here.                                 *)
(***************************************************************************)
EXTENDS Integers, Sequences, FiniteSets, FiniteSetsExt

CONSTANTS
  MemMaps,      \* the Limine memory maps the kernel may be booted with
  PageBytes,    \* 4096, bytes of bitmap in a frame
  IntPages,     \* 2^19: i * 4096 overflows a 32-bit int from this i on
  OomFrames,    \* 4: requestPage panics below 16384 free bytes
  MaxRun        \* bound: the longest run of pages one call names

Entry == [base : Nat, pages : Nat, type : 0..7]

ASSUME PfaAssumption ==
  /\ MemMaps \subseteq Seq(Entry)
  /\ PageBytes \in Nat \ {0}
  /\ IntPages \in Nat \ {0}
  /\ OomFrames \in Nat \ {0}
  /\ MaxRun \in 1 .. IntPages

VARIABLES
  memmap,           \* __memmap
  wide,             \* what the build made of the int overflow in lockPages
  status,           \* "boot", "ready", or where panic() stopped the kernel
  locked,           \* mem_pfaBitmap: the indexes whose bit is 1
  bitmapIdx,        \* no free frame is expected below this index
  mem_freeMemory,
  mem_usedMemory,
  held              \* history: frames handed to callers and not freed since

vars == <<memmap, wide, status, locked, bitmapIdx,
          mem_freeMemory, mem_usedMemory, held>>

Status == {"boot", "ready", "no free segment", "out of memory"}

-----------------------------------------------------------------------------
(* The memory map.                                                         *)

LIMINE_MEMMAP_USABLE == 0

FramesOf(e) == e.base .. (e.base + e.pages - 1)

\* The end of the highest entry; `end` holds the same value.
getMemoryArealSize(m) == Max({0} \cup {m[i].base + m[i].pages : i \in DOMAIN m})

FreeEntries(m) ==
  {i \in DOMAIN m : m[i].type = LIMINE_MEMMAP_USABLE /\ m[i].pages > 0}

\* The first of the longest usable entries.
largestFreeSegment(m) ==
  m[CHOOSE i \in FreeEntries(m) :
      \A j \in FreeEntries(m) : \/ m[j].pages < m[i].pages
                                \/ m[j].pages = m[i].pages /\ i <= j]

UsableFrames(m) == UNION {FramesOf(m[i]) : i \in FreeEntries(m)}

\* The bitmap: its bytes, its bits and, rounded up, the frames reserved for it.
bitmapSize(m) == (getMemoryArealSize(m) \div 8) + 1

Bits(m) == 8 * bitmapSize(m)

bitmapSizeInPages_RoundedDown(m) == bitmapSize(m) \div PageBytes

bitmapSizeInPages(m) == (bitmapSize(m) \div PageBytes) + 1

-----------------------------------------------------------------------------
(* Runs of pages.                                                          *)

\* int i times 4096, in frames: past 2^31 the product is undefined, and the
\* build either computes it in 64 bits or lets it wrap and sign-extends it.
\* A negative result stands for an address far above every bitmap.
IntOffset(i) ==
  IF wide THEN i
  ELSE LET r == i % (2 * IntPages)
       IN  IF r < IntPages THEN r ELSE r - 2 * IntPages

\* The bitmap indexes a call lockPages(addr, n) names.
Run(addr, n) == {addr + IntOffset(i) : i \in 0 .. n - 1}

\* A name with a suffix, here and below, is a faulty variant of the definition
\* after it: what a slip in the code would make of it.
ToLock_Again(bits, S) == {i \in S : 0 <= i /\ i <= Bits(memmap)}

\* lockPage over a set of indexes: the ones whose bit goes from 0 to 1.
\* Bitmap::get and Bitmap::set reject an offset only above Size * 8.
ToLock(bits, S) == {i \in S : 0 <= i /\ i <= Bits(memmap)} \ bits

ToFree_Again(bits, S) == S

\* freePage over a set of indexes: the ones whose bit goes from 1 to 0.
ToFree(bits, S) == S \cap bits

-----------------------------------------------------------------------------
Init ==
  /\ memmap \in MemMaps
  /\ wide \in BOOLEAN
  /\ status = "boot"
  /\ locked = {}
  /\ bitmapIdx = 0
  /\ mem_freeMemory = 0
  /\ mem_usedMemory = 0
  /\ held = {}

\* Bitmap cleared, every page locked, the usable entries freed, the counters
\* set, the frames of the bitmap locked.
mem_pageframeallocator_init ==
  /\ status = "boot"
  /\ IF FreeEntries(memmap) = {} \/ largestFreeSegment(memmap).base = 0
     THEN /\ status' = "no free segment"
          /\ UNCHANGED <<locked, mem_freeMemory, mem_usedMemory>>
     ELSE LET all    == ToLock({}, Run(0, getMemoryArealSize(memmap)))
              inUse  == all \ ToFree(all, UsableFrames(memmap))
              seg    == largestFreeSegment(memmap)
              bitmap == ToLock(inUse, Run(seg.base, bitmapSizeInPages(memmap)))
          IN  /\ status' = "ready"
              /\ locked' = inUse \cup bitmap
              /\ mem_freeMemory' = seg.pages - Cardinality(bitmap)
              /\ mem_usedMemory' = Cardinality(bitmap)
  /\ bitmapIdx' = 0
  /\ UNCHANGED <<memmap, wide, held>>

mem_pageframeallocator_requestPage_NotLocked ==
  /\ status = "ready"
  /\ LET clear == (bitmapIdx .. Bits(memmap) - 1) \ locked
     IN  /\ clear # {}
         /\ bitmapIdx' = Min(clear)
         /\ held' = held \cup {bitmapIdx'}
  /\ UNCHANGED <<memmap, wide, status, locked, mem_freeMemory, mem_usedMemory>>

\* Panic when the counter is low; else the first clear bit from bitmapIdx on,
\* and a second panic when there is none.
mem_pageframeallocator_requestPage ==
  /\ status = "ready"
  /\ LET clear == (bitmapIdx .. Bits(memmap) - 1) \ locked
     IN  IF mem_freeMemory < OomFrames \/ clear = {}
         THEN /\ status' = "out of memory"
              /\ bitmapIdx' = IF mem_freeMemory < OomFrames THEN bitmapIdx
                              ELSE Max({bitmapIdx, Bits(memmap)})
              /\ UNCHANGED <<locked, mem_freeMemory, mem_usedMemory, held>>
         ELSE /\ bitmapIdx' = Min(clear)
              /\ locked' = locked \cup {bitmapIdx'}
              /\ mem_freeMemory' = mem_freeMemory - 1
              /\ mem_usedMemory' = mem_usedMemory + 1
              /\ held' = held \cup {bitmapIdx'}
              /\ UNCHANGED status
  /\ UNCHANGED <<memmap, wide>>

\* lockPage is the run of length one.
mem_pageframeallocator_lockPages(addr, n) ==
  /\ status = "ready"
  /\ LET new == ToLock(locked, Run(addr, n))
     IN  /\ locked' = locked \cup new
         /\ mem_freeMemory' = mem_freeMemory - Cardinality(new)
         /\ mem_usedMemory' = mem_usedMemory + Cardinality(new)
         /\ held' = held \cup new
  /\ UNCHANGED <<memmap, wide, status, bitmapIdx>>

mem_pageframeallocator_lockPagesNonAvailable(addr, n) ==
  /\ status = "ready"
  /\ locked' = locked \cup ToLock(locked, Run(addr, n))
  /\ UNCHANGED <<memmap, wide, status, bitmapIdx,
                 mem_freeMemory, mem_usedMemory, held>>

mem_pageframeallocator_freePages_HintKept(addr, n) ==
  /\ status = "ready"
  /\ LET old == ToFree(locked, addr .. addr + n - 1)
     IN  /\ locked' = locked \ old
         /\ mem_freeMemory' = mem_freeMemory + Cardinality(old)
         /\ mem_usedMemory' = mem_usedMemory - Cardinality(old)
         /\ held' = held \ old
  /\ UNCHANGED <<memmap, wide, status, bitmapIdx>>

\* freePage is the run of length one.
mem_pageframeallocator_freePages(addr, n) ==
  /\ status = "ready"
  /\ LET old == ToFree(locked, addr .. addr + n - 1)
     IN  /\ locked' = locked \ old
         /\ mem_freeMemory' = mem_freeMemory + Cardinality(old)
         /\ mem_usedMemory' = mem_usedMemory - Cardinality(old)
         /\ bitmapIdx' = Min({bitmapIdx} \cup old)
         /\ held' = held \ old
  /\ UNCHANGED <<memmap, wide, status>>

\* What callers pass.  Reserved runs are memory and no larger than what
\* mem_getFreeRAM() reports; a run is freed by who holds it, and freeing a
\* free page again is allowed; non-available runs hold no usable frame.
Next ==
  \/ mem_pageframeallocator_init
  \/ mem_pageframeallocator_requestPage
  \/ \E addr \in 0 .. Bits(memmap) - 1, n \in 1 .. MaxRun :
       LET run == addr .. addr + n - 1 IN
       \/ /\ run \subseteq UsableFrames(memmap)
          /\ n <= mem_freeMemory
          /\ mem_pageframeallocator_lockPages(addr, n)
       \/ /\ run \subseteq UsableFrames(memmap) \cap (held \cup (run \ locked))
          /\ mem_pageframeallocator_freePages(addr, n)
       \/ /\ run \subseteq (0 .. Bits(memmap) - 1) \ UsableFrames(memmap)
          /\ mem_pageframeallocator_lockPagesNonAvailable(addr, n)

Spec == Init /\ [][Next]_vars

-----------------------------------------------------------------------------
(* Properties.                                                             *)

Booted == status \in {"ready", "out of memory"}

\* The frames whose bytes are the bitmap, and the ones init sets aside.
BitmapFrames(m) ==
  LET b == largestFreeSegment(m).base
  IN  b .. b + ((bitmapSize(m) - 1) \div PageBytes)

Reserved(m) ==
  LET b == largestFreeSegment(m).base IN b .. b + bitmapSizeInPages(m) - 1

\* Maps the allocator can manage: the bitmap fits in the longest usable entry,
\* and the int index of lockPages does not wrap.
Supported(m) ==
  /\ bitmapSizeInPages(m) <= largestFreeSegment(m).pages
  /\ wide \/ getMemoryArealSize(m) <= IntPages

\* Counters and hint are natural numbers, in particular no u64 subtraction
\* of the counters goes below zero, and no call reaches the bit behind the
\* bitmap that Bitmap::get and Bitmap::set would accept.
TypeOK ==
  /\ memmap \in MemMaps
  /\ wide \in BOOLEAN
  /\ status \in Status
  /\ locked \subseteq 0 .. Bits(memmap) - 1
  /\ held \subseteq locked
  /\ bitmapIdx \in Nat
  /\ mem_freeMemory \in Nat
  /\ mem_usedMemory \in Nat

\* A frame handed out is usable memory and no part of the bitmap itself,
\* although the bitmap has clear bits for frames behind the end of memory.
HeldFramesAreMemory ==
  Booted => held \subseteq UsableFrames(memmap) \ BitmapFrames(memmap)

\* requestPage starts its scan at bitmapIdx and never looks below: a freed
\* frame is found again only if every bit below bitmapIdx is set.
NothingFreeBelowHint == Booted => 0 .. bitmapIdx - 1 \subseteq locked

\* mem_usedMemory counts the frames in use, and mem_freeMemory never promises
\* a frame that is not there, although it knows only the longest entry.
CountersExact ==
  Booted =>
    /\ mem_usedMemory = Cardinality(held) + bitmapSizeInPages(memmap)
    /\ mem_freeMemory + mem_usedMemory = largestFreeSegment(memmap).pages
    /\ mem_freeMemory <= Cardinality(UsableFrames(memmap) \ locked)

\* The panic behind the scan loop of requestPage is dead code: memory runs
\* out by the counter, with the frames of the reserve still free.
OutOfMemoryOnlyByCounter ==
  status = "out of memory" => mem_freeMemory < OomFrames

\* The comment on init: "Lock bitmap & non-usable spaces".
NonUsableLocked ==
  Booted =>
    0 .. getMemoryArealSize(memmap) - 1
      \subseteq locked \cup (UsableFrames(memmap) \ BitmapFrames(memmap))

\* The comment on bitmapSizeInPages: "The bitmap itself has a size we have to
\* reserve later on."  Every frame the bitmap is written to is usable memory.
BitmapInUsableMemory == Booted => BitmapFrames(memmap) \subseteq UsableFrames(memmap)

\* The allocator implements the promise of a frame manager.
Abstract ==
  INSTANCE FrameOwnership
    WITH Frame <- Nat,
         open  <- Booted,
         avail <- IF Booted THEN UsableFrames(memmap) \ locked ELSE {}

\* A frame is granted only while available and comes back only from its holder.
ImplementsFrameOwnership == Abstract!Spec

===============================================================================
