---------------------------- MODULE KernelMapProofs ----------------------------
(***************************************************************************)
(* Proofs about the address space that _start builds, for every machine    *)
(* and every layout that KernelMapAssumption admits.  They rest on the     *)
(* tree of tables of PagingProofs, so that all that is left to show is who *)
(* maps which page, and that nobody maps it again to something else.       *)
(***************************************************************************)
EXTENDS KernelMap, PagingProofs

-----------------------------------------------------------------------------
(* One call of PageTable_MapMemory.                                        *)

HasTree ==
  /\ Tables(tables) /\ DOMAIN tables \subseteq granted
  /\ granted \subseteq free0 /\ free0 \subseteq Nat
  /\ \E lev, pre : Tree(tables, globalPageTable, lev, pre) /\ Leaves(tables, lev, pre, mapped)

\* Page v, without the bits above its indexes, is mapped to p.
Holds(v, p) == v \in DOMAIN mapped /\ mapped[v] = p

\* It takes frames only for tables, and maps the page or panics.
LEMMA MapKeepsTree ==
  ASSUME HasTree, NEW taken, granted \subseteq taken, taken \subseteq free0,
         NEW virt \in Nat, NEW phys \in Nat, PageTable_MapMemory(taken, virt, phys)
  PROVE  /\ HasTree' /\ free0' = free0 /\ taken \subseteq granted'
         /\ DOMAIN tables' \cap taken = DOMAIN tables
         /\ \/ status' = "ready" /\ mapped' = Put(mapped, virt % VSpace, phys)
            \/ status' = "out of memory" /\ mapped' = mapped
<1>1. PICK lev, pre : /\ Tree(tables, globalPageTable, lev, pre)
                      /\ Leaves(tables, lev, pre, mapped)
  BY DEF HasTree
<1>2. Tables(tables) /\ DOMAIN tables \subseteq taken /\ free0 \subseteq Nat
      /\ DOMAIN tables \subseteq granted
  BY DEF HasTree
<1>3. PICK lev2, pre2 : MapStep(taken, virt, lev, pre, lev2, pre2)
  BY <1>1, <1>2, MapFacts
<1>4. free0' = free0 /\ status = "ready"
  BY DEF PageTable_MapMemory
<1>5. /\ Tables(tables') /\ Tree(tables', globalPageTable', lev2, pre2)
      /\ Leaves(tables', lev2, pre2, mapped')
      /\ taken \subseteq granted' /\ granted' \subseteq taken \cup free0
      /\ granted' \ taken = DOMAIN tables' \ DOMAIN tables
      /\ DOMAIN tables \subseteq DOMAIN tables'
  BY <1>3 DEF MapStep
<1>6. HasTree'
  BY <1>2, <1>4, <1>5 DEF HasTree
<1>7. DOMAIN tables' \cap taken = DOMAIN tables
  BY <1>2, <1>5
<1>8. \/ status' = "ready" /\ mapped' = Put(mapped, virt % VSpace, phys)
      \/ status' = "out of memory" /\ mapped' = mapped
  BY <1>4 DEF PageTable_MapMemory
<1> QED BY <1>4, <1>5, <1>6, <1>7, <1>8

\* What it does to the mappings: this page is mapped, others stay.
LEMMA MapHolds ==
  ASSUME NEW v, NEW p,
         \/ status' = "ready" /\ mapped' = Put(mapped, v, p)
         \/ status' = "out of memory" /\ mapped' = mapped
  PROVE  /\ status' = "ready" => Holds(v, p)'
         /\ \A u, q : Holds(u, q) /\ (u # v \/ q = p) => Holds(u, q)'
         /\ \A u : u \in DOMAIN mapped => u \in DOMAIN mapped'
         /\ \A u \in DOMAIN mapped : u # v => mapped'[u] = mapped[u]
BY DEF Holds, Put

\* What the processor makes of it.
LEMMA HoldsTranslates ==
  ASSUME HasTree, NEW v \in 0 .. VSpace - 1
  PROVE  /\ \A p : Holds(v, p) => Translate(v) = {p}
         /\ v \in DOMAIN mapped => Translate(v) = {mapped[v]}
<1>1. PICK lev, pre : /\ Tree(tables, globalPageTable, lev, pre)
                      /\ Leaves(tables, lev, pre, mapped)
  BY DEF HasTree
<1>2. VSpace \in Int
  BY PagingAssumption DEF VSpace
<1>3. v \in Nat /\ v % VSpace = v
  BY <1>2
<1>4. Translate(v) = IF v \in DOMAIN mapped THEN {mapped[v]} ELSE {}
  BY <1>1, <1>3, TranslateFacts
<1> QED BY <1>4 DEF Holds

-----------------------------------------------------------------------------
(* The layout.                                                             *)

VPage(e, n) == virtAddr(e, n) \div Unit
PPage(e, n) == physAddr(e, n) \div Unit

\* The numbers of the layout.
LEMMA Layout ==
  /\ Unit \in Nat \ {0} /\ VSpace \in Nat
  /\ hhdmOffset \in Nat /\ mem_kVirtOffset \in Nat /\ IdentityPages \in Nat
  /\ HeapStart \in Nat /\ HeapPages \in Nat /\ HeapLimit \in Nat
  /\ HeapPages <= HeapLimit /\ HeapStart + HeapLimit <= hhdmOffset
  /\ IdentityPages <= hhdmOffset /\ hhdmOffset <= mem_kVirtOffset /\ mem_kVirtOffset <= VSpace
<1>1. /\ Unit \in Nat \ {0}
      /\ {hhdmOffset, mem_kVirtOffset, IdentityPages, HeapStart, HeapPages, HeapLimit,
          BitmapPages, OomFrames} \subseteq Nat
      /\ HeapPages <= HeapLimit /\ HeapStart + HeapLimit <= hhdmOffset
      /\ IdentityPages <= hhdmOffset /\ hhdmOffset <= mem_kVirtOffset /\ mem_kVirtOffset <= VSpace
  BY KernelMapAssumption
<1>2. VSpace \in Int
  BY PagingAssumption DEF VSpace
<1> QED BY <1>1, <1>2

\* What is known of an entry of a memory map.
EntryOK(e) ==
  /\ e.base \in Nat /\ e.length \in Nat
  /\ IF e.type = LIMINE_MEMMAP_KERNEL_AND_MODULES
     THEN mem_kVirtOffset + sizeInPages(e) <= VSpace
     ELSE hhdmOffset + (e.base \div Unit) + sizeInPages(e) <= mem_kVirtOffset

\* What KernelMapAssumption says of one machine.
LEMMA MachineFacts ==
  ASSUME NEW m \in Machines
  PROVE  /\ Len(m.memmap) \in Nat /\ DOMAIN m.memmap = 1 .. Len(m.memmap)
         /\ Len(m.acpi) \in Nat /\ m.perPage \in Nat
         /\ \A n \in 1 .. Len(m.memmap) : EntryOK(m.memmap[n])
         /\ \A n, k \in 1 .. Len(m.memmap) :
              /\ m.memmap[n].type = LIMINE_MEMMAP_KERNEL_AND_MODULES
              /\ m.memmap[k].type = LIMINE_MEMMAP_KERNEL_AND_MODULES
              => n = k
         /\ m.rsdt \in 0 .. hhdmOffset - 1
         /\ m.rsdt \notin HeapStart .. HeapStart + HeapLimit - 1
         /\ \A n \in 1 .. Len(m.acpi) :
              /\ m.acpi[n].page \in 0 .. hhdmOffset - 1
              /\ m.acpi[n].page \notin HeapStart .. HeapStart + HeapLimit - 1
<1> DEFINE P == {m.rsdt} \cup {m.acpi[n].page : n \in 1 .. Len(m.acpi)}
<1>1. m.acpi \in Seq(Range(m.acpi)) /\ m.memmap \in Seq(Range(m.memmap)) /\ m.perPage \in Nat
  BY KernelMapAssumption
<1>2. /\ Len(m.memmap) \in Nat /\ DOMAIN m.memmap = 1 .. Len(m.memmap) /\ Len(m.acpi) \in Nat
  BY <1>1
<1>3. \A p \in P : p \in 0 .. hhdmOffset - 1 /\ p \notin HeapStart .. HeapStart + HeapLimit - 1
  BY KernelMapAssumption
<1>4. ASSUME NEW n \in 1 .. Len(m.memmap)
      PROVE  /\ EntryOK(m.memmap[n])
             /\ \A k \in 1 .. Len(m.memmap) :
                  /\ m.memmap[n].type = LIMINE_MEMMAP_KERNEL_AND_MODULES
                  /\ m.memmap[k].type = LIMINE_MEMMAP_KERNEL_AND_MODULES
                  => n = k
  <2> DEFINE e == m.memmap[n]
  <2>1. /\ e.base \in Nat /\ e.length \in Nat
        /\ IF e.type = LIMINE_MEMMAP_KERNEL_AND_MODULES
           THEN /\ mem_kVirtOffset + sizeInPages(e) <= VSpace
                /\ \A k \in 1 .. Len(m.memmap) : m.memmap[k].type = e.type => k = n
           ELSE hhdmOffset + (e.base \div Unit) + sizeInPages(e) <= mem_kVirtOffset
    BY KernelMapAssumption
  <2> QED BY <2>1 DEF EntryOK
<1>5. m.rsdt \in P /\ \A n \in 1 .. Len(m.acpi) : m.acpi[n].page \in P
  OBVIOUS
<1> HIDE DEF P
<1> QED BY <1>1, <1>2, <1>3, <1>4, <1>5

\* A sum of a number and a multiple of the page size, in pages.
LEMMA PagesAdd ==
  ASSUME NEW b \in Nat, NEW x \in Nat
  PROVE  (b * Unit + x) \div Unit = b + (x \div Unit)
<1> DEFINE q == x \div Unit
           r == x % Unit
<1>1. q \in Nat /\ r \in 0 .. Unit - 1 /\ x = q * Unit + r /\ Unit \in Nat \ {0}
  BY Layout, SplitNumber
<1> HIDE DEF q, r
<1>2. b * Unit + x = (b + q) * Unit + r /\ b + q \in Nat
  BY <1>1
<1>3. ((b + q) * Unit + r) \div Unit = b + q
  BY <1>1, <1>2, JoinNumber
<1> QED BY <1>2, <1>3 DEF q

\* Where an entry begins: a page and a place in it.
LEMMA EntryBase ==
  ASSUME NEW e, EntryOK(e)
  PROVE  /\ e.base \div Unit \in Nat /\ e.base % Unit \in 0 .. Unit - 1
         /\ e.base = (e.base \div Unit) * Unit + (e.base % Unit)
<1>1. Unit \in Nat \ {0} /\ e.base \in Nat
  BY Layout DEF EntryOK
<1> QED BY <1>1, SplitNumber

\* Where the pages of an entry are, and where they are mapped.
LEMMA EntryPages ==
  ASSUME NEW e, EntryOK(e), NEW n \in 0 .. sizeInPages(e) - 1
  PROVE  /\ PPage(e, n) = (e.base \div Unit) + n
         /\ VPage(e, n) = IF e.type = LIMINE_MEMMAP_KERNEL_AND_MODULES
                          THEN mem_kVirtOffset + n
                          ELSE hhdmOffset + (e.base \div Unit) + n
         /\ VPage(e, n) \in hhdmOffset .. VSpace - 1
         /\ VPage(e, n) >= mem_kVirtOffset <=> e.type = LIMINE_MEMMAP_KERNEL_AND_MODULES
         /\ PPage(e, n) \in Nat /\ sizeInPages(e) \in Nat
<1> DEFINE b == e.base \div Unit
           s == e.base % Unit
<1>1. Unit \in Nat \ {0} /\ e.base \in Nat /\ e.length \in Nat
  BY Layout DEF EntryOK
<1>2. b \in Nat /\ s \in 0 .. Unit - 1 /\ e.base = b * Unit + s
  BY EntryBase
<1>3. sizeInPages(e) \in Nat /\ n \in Nat
  <2>1. e.length \div Unit \in Nat
    BY <1>1, SplitNumber
  <2> QED BY <2>1 DEF sizeInPages
<1> HIDE DEF b, s
<1>4. physAddr(e, n) = (b + n) * Unit + s
  BY <1>1, <1>2, <1>3 DEF physAddr
<1>5. \A a \in Nat : (a * Unit) \div Unit = a /\ (a * Unit + s) \div Unit = a
  <2> SUFFICES ASSUME NEW a \in Nat
               PROVE  (a * Unit) \div Unit = a /\ (a * Unit + s) \div Unit = a
    OBVIOUS
  <2>1. 0 \in 0 .. Unit - 1
    BY <1>1
  <2>2. (a * Unit + 0) \div Unit = a
    BY <1>1, <2>1, JoinNumber
  <2>3. (a * Unit + s) \div Unit = a
    BY <1>1, <1>2, JoinNumber
  <2> QED BY <1>1, <2>2, <2>3
<1>6. PPage(e, n) = b + n
  BY <1>2, <1>3, <1>4, <1>5 DEF PPage
<1>7. CASE e.type = LIMINE_MEMMAP_KERNEL_AND_MODULES
  <2>1. virtAddr(e, n) = (mem_kVirtOffset + n) * Unit
    BY <1>7 DEF virtAddr
  <2>2. VPage(e, n) = mem_kVirtOffset + n
    BY <2>1, <1>3, <1>5, Layout DEF VPage
  <2>3. mem_kVirtOffset + sizeInPages(e) <= VSpace
    BY <1>7 DEF EntryOK
  <2> QED BY <1>2, <1>3, <1>6, <1>7, <2>2, <2>3, Layout DEF b
<1>8. CASE e.type # LIMINE_MEMMAP_KERNEL_AND_MODULES
  <2>1. virtAddr(e, n) = hhdmOffset * Unit + ((b + n) * Unit + s)
    BY <1>4, <1>8 DEF virtAddr
  <2>2. virtAddr(e, n) = (hhdmOffset + b + n) * Unit + s
    BY <2>1, <1>1, <1>2, <1>3, Layout
  <2>3. VPage(e, n) = hhdmOffset + b + n
    BY <2>2, <1>2, <1>3, <1>5, Layout DEF VPage
  <2>4. hhdmOffset + b + sizeInPages(e) <= mem_kVirtOffset
    BY <1>8 DEF EntryOK, b
  <2> QED BY <1>2, <1>3, <1>6, <1>8, <2>3, <2>4, Layout DEF b
<1> QED BY <1>7, <1>8

\* Two addresses in the same window are the same distance from its start.
LEMMA Cancel ==
  ASSUME NEW a \in Nat, NEW b \in Nat, NEW c \in Nat, NEW d \in Nat, NEW e \in Nat,
         a + b + c = a + d + e
  PROVE  b + c = d + e
OBVIOUS

\* No two pages of a memory map are mapped at the same address.
LEMMA OneMapping ==
  ASSUME NEW m \in Machines, NEW j \in 1 .. Len(m.memmap), NEW k \in 1 .. Len(m.memmap),
         NEW n \in 0 .. sizeInPages(m.memmap[j]) - 1, NEW l \in 0 .. sizeInPages(m.memmap[k]) - 1,
         VPage(m.memmap[j], n) = VPage(m.memmap[k], l)
  PROVE  PPage(m.memmap[j], n) = PPage(m.memmap[k], l)
<1> DEFINE e == m.memmap[j]
           f == m.memmap[k]
           be == e.base \div Unit
           bf == f.base \div Unit
           K == LIMINE_MEMMAP_KERNEL_AND_MODULES
<1>1. EntryOK(e) /\ EntryOK(f)
  BY MachineFacts
<1>v. /\ VPage(e, n) = VPage(f, l)
      /\ n \in 0 .. sizeInPages(e) - 1 /\ l \in 0 .. sizeInPages(f) - 1
  OBVIOUS
<1>5. e.type = K /\ f.type = K => j = k
  BY MachineFacts
<1> HIDE DEF K, e, f
<1>2. /\ PPage(e, n) = be + n
      /\ VPage(e, n) = IF e.type = K THEN mem_kVirtOffset + n ELSE hhdmOffset + be + n
      /\ VPage(e, n) >= mem_kVirtOffset <=> e.type = K
      /\ sizeInPages(e) \in Nat
  BY <1>1, <1>v, EntryPages DEF K
<1>3. /\ PPage(f, l) = bf + l
      /\ VPage(f, l) = IF f.type = K THEN mem_kVirtOffset + l ELSE hhdmOffset + bf + l
      /\ VPage(f, l) >= mem_kVirtOffset <=> f.type = K
      /\ sizeInPages(f) \in Nat
  BY <1>1, <1>v, EntryPages DEF K
<1>4. hhdmOffset \in Nat /\ mem_kVirtOffset \in Nat /\ be \in Nat /\ bf \in Nat
  BY <1>1, EntryBase, Layout
<1> HIDE DEF be, bf
<1>n. n \in Nat /\ l \in Nat
  BY <1>v, <1>2, <1>3
<1>6. CASE e.type = K
  <2>1. f.type = K
    BY <1>2, <1>3, <1>v, <1>6
  <2>2. mem_kVirtOffset + n = mem_kVirtOffset + l
    BY <1>2, <1>3, <1>v, <1>6, <2>1
  <2>3. n = l /\ j = k
    BY <1>n, <1>4, <1>5, <1>6, <2>1, <2>2
  <2> QED BY <2>3
<1>7. CASE e.type # K
  <2>1. f.type # K
    BY <1>2, <1>3, <1>v, <1>7
  <2>2. hhdmOffset + be + n = hhdmOffset + bf + l
    BY <1>2, <1>3, <1>v, <1>7, <2>1
  <2>3. be + n = bf + l
    BY <1>n, <1>4, <2>2, Cancel
  <2>4. PPage(e, n) = PPage(f, l)
    BY <1>2, <1>3, <2>3
  <2> QED BY <2>4 DEF e, f
<1> QED BY <1>6, <1>7

\* The loop over sizeInPages(entry) pages reaches the last page of an entry that
\* begins on a page boundary, and the last but one of any other.
LEMMA LastPage ==
  ASSUME NEW e, EntryOK(e), e.length # 0,
         NEW p \in e.base \div Unit .. (e.base + e.length - 1) \div Unit,
         \/ p # (e.base + e.length - 1) \div Unit
         \/ p = e.base \div Unit
         \/ e.base % Unit = 0
  PROVE  p - (e.base \div Unit) \in 0 .. sizeInPages(e) - 1
<1> DEFINE b == e.base \div Unit
           s == e.base % Unit
           q == e.length \div Unit
           r == e.length % Unit
           L == e.length
           last == (e.base + e.length - 1) \div Unit
<1>1. Unit \in Nat \ {0} /\ e.base \in Nat /\ L \in Nat /\ L # 0
  BY Layout DEF EntryOK
<1>2. b \in Nat /\ s \in 0 .. Unit - 1 /\ e.base = b * Unit + s
  BY EntryBase
<1>3. q \in Nat /\ r \in 0 .. Unit - 1 /\ L = q * Unit + r
  BY <1>1, SplitNumber
<1>4. sizeInPages(e) = q + (IF r # 0 THEN 1 ELSE 0)
  BY DEF sizeInPages
<1>5. last = (b * Unit + s + L - 1) \div Unit
  BY <1>2
<1>6. p \in b .. last /\ (p # last \/ p = b \/ s = 0)
  OBVIOUS
<1> HIDE DEF b, s, q, r, L, last
<1>7. q = 0 => r # 0
  BY <1>1, <1>3
<1>8. CASE r = 0 /\ s = 0
  <2>1. q > 0
    BY <1>3, <1>7, <1>8
  <2>2. /\ b * Unit + s + L - 1 = (b + q - 1) * Unit + (Unit - 1) /\ b + q - 1 \in Nat
        /\ Unit - 1 \in 0 .. Unit - 1
    BY <1>1, <1>2, <1>3, <1>8, <2>1
  <2>3. ((b + q - 1) * Unit + (Unit - 1)) \div Unit = b + q - 1
    BY <1>1, <2>2, JoinNumber
  <2>4. last = b + q - 1
    BY <1>5, <2>2, <2>3
  <2> QED BY <1>2, <1>3, <1>4, <1>6, <1>8, <2>1, <2>4 DEF b
<1>9. CASE r = 0 /\ s # 0
  <2>1. q > 0
    BY <1>3, <1>7, <1>9
  <2>2. b * Unit + s + L - 1 = (b + q) * Unit + (s - 1) /\ b + q \in Nat /\ s - 1 \in 0 .. Unit - 1
    BY <1>1, <1>2, <1>3, <1>9
  <2>3. ((b + q) * Unit + (s - 1)) \div Unit = b + q
    BY <1>1, <2>2, JoinNumber
  <2>4. last = b + q
    BY <1>5, <2>2, <2>3
  <2> QED BY <1>2, <1>3, <1>4, <1>6, <1>9, <2>1, <2>4 DEF b
<1>10. CASE r # 0 /\ s + r - 1 < Unit
  <2>1. /\ b * Unit + s + L - 1 = (b + q) * Unit + (s + r - 1) /\ b + q \in Nat
        /\ s + r - 1 \in 0 .. Unit - 1
    BY <1>1, <1>2, <1>3, <1>10
  <2>2. ((b + q) * Unit + (s + r - 1)) \div Unit = b + q
    BY <1>1, <2>1, JoinNumber
  <2>3. last = b + q
    BY <1>5, <2>1, <2>2
  <2> QED BY <1>2, <1>3, <1>4, <1>6, <1>10, <2>3 DEF b
<1>11. CASE r # 0 /\ ~(s + r - 1 < Unit)
  <2>1. /\ b * Unit + s + L - 1 = (b + q + 1) * Unit + (s + r - 1 - Unit) /\ b + q + 1 \in Nat
        /\ s + r - 1 - Unit \in 0 .. Unit - 1
    BY <1>1, <1>2, <1>3, <1>11
  <2>2. ((b + q + 1) * Unit + (s + r - 1 - Unit)) \div Unit = b + q + 1
    BY <1>1, <2>1, JoinNumber
  <2>3. last = b + q + 1
    BY <1>5, <2>1, <2>2
  <2>4. s # 0
    BY <1>1, <1>2, <1>3, <1>11
  <2> QED BY <1>2, <1>3, <1>4, <1>6, <1>11, <2>3, <2>4 DEF b
<1> QED BY <1>8, <1>9, <1>10, <1>11

-----------------------------------------------------------------------------
(* The invariant.                                                          *)

AfterCR3 == {"heap", "rsdp", "rsdt", "tables", "signature", "facp"}
Steps == {"start", "root", "entries", "identity"} \cup AfterCR3

NoTree ==
  /\ tables = <<>> /\ mapped = <<>> /\ granted = {} /\ free0 \subseteq Nat
  /\ step \in {"start", "root", "entries"} /\ i = 1 /\ pageIdx = 0 /\ status # "ready"

\* The loops over the memory map have come past page n of entry j.
MapDone(j, n) == step \in Steps \ {"start", "root", "entries"} \/ j < i \/ (j = i /\ n < pageIdx)

EntriesMapped ==
  step \notin {"start", "root"} =>
    \A j \in 1 .. Len(memmap) : \A n \in 0 .. sizeInPages(memmap[j]) - 1 :
      MapDone(j, n) => Holds(VPage(memmap[j], n), PPage(memmap[j], n))

\* The pages of the heap have frames of their own.
HeapMapped ==
  step \in AfterCR3 =>
    /\ pageIdx <= HeapLimit
    /\ \A k \in 0 .. pageIdx - 1 :
         HeapStart + k \in DOMAIN mapped /\ mapped[HeapStart + k] \in granted \ DOMAIN tables
    /\ \A k, l \in 0 .. pageIdx - 1 :
         k # l => mapped[HeapStart + k] # mapped[HeapStart + l]

\* What findTable has mapped.
AcpiMapped ==
  /\ step \in {"tables", "signature", "facp"} /\ status # "out of memory" =>
       Holds(machine.rsdt, machine.rsdt)
  /\ step \in {"signature", "facp"} =>
       /\ step = "signature" => i <= Len(machine.acpi)
       /\ i <= Len(machine.acpi) /\ status # "out of memory" =>
            Holds(machine.acpi[i].page, machine.acpi[i].page)
  /\ status = "fault" => \/ i > machine.perPage
                         \/ machine.acpi[i].fields # machine.acpi[i].page

KernelInv ==
  /\ machine \in Machines /\ step \in Steps /\ i \in Nat \ {0} /\ pageIdx \in Nat
  /\ cr3 => step \in AfterCR3
  /\ step \in {"start", "root"} => NoTree
  /\ NoTree \/ HasTree
  /\ EntriesMapped /\ HeapMapped /\ AcpiMapped

\* An entry has a number of whole pages.
LEMMA EntryLength ==
  ASSUME NEW e, EntryOK(e)
  PROVE  e.length \div Unit \in Nat
<1>1. e.length \in Nat /\ Unit \in Nat \ {0}
  BY Layout DEF EntryOK
<1> QED BY <1>1, SplitNumber

\* The frames that the allocator has at boot are frames.
LEMMA FreeAtBootNat ==
  ASSUME NEW m \in Machines
  PROVE  FreeAtBoot(m.memmap) \subseteq Nat
<1>1. \A j \in Usable(m.memmap) : PagesOf(m.memmap[j]) \subseteq Nat
  <2> SUFFICES ASSUME NEW j \in 1 .. Len(m.memmap),
                      NEW n \in 0 .. m.memmap[j].length \div Unit - 1
               PROVE  physAddr(m.memmap[j], n) \div Unit \in Nat
    BY DEF PagesOf, Usable
  <2>1. EntryOK(m.memmap[j])
    BY MachineFacts
  <2>2. m.memmap[j].length \div Unit \in Nat
    BY <2>1, EntryLength
  <2>3. n \in 0 .. sizeInPages(m.memmap[j]) - 1
    BY <2>2 DEF sizeInPages
  <2>4. PPage(m.memmap[j], n) \in Nat
    BY <2>1, <2>3, EntryPages
  <2> QED BY <2>4 DEF PPage
<1>2. UNION {PagesOf(m.memmap[j]) : j \in Usable(m.memmap)} \subseteq Nat
  BY <1>1
<1> QED BY <1>2 DEF FreeAtBoot

\* Steps that leave the tables alone leave the tree.
LEMMA SameTree ==
  ASSUME UNCHANGED <<free0, granted, globalPageTable, tables, mapped>>
  PROVE  /\ HasTree' <=> HasTree
         /\ \A u, q : Holds(u, q)' <=> Holds(u, q)
BY DEF HasTree, Holds

\* The loops over the memory map map u to q.
OfEntry(u, q) ==
  \E j \in 1 .. Len(memmap) : \E n \in 0 .. sizeInPages(memmap[j]) - 1 :
    u = VPage(memmap[j], n) /\ q = PPage(memmap[j], n)

\* What the loops over the memory map have mapped stays mapped.
LEMMA EntriesStay ==
  ASSUME EntriesMapped, machine' = machine, {step, step'} \cap {"start", "root"} = {},
         \A j, n : MapDone(j, n)' => MapDone(j, n),
         \A u, q : Holds(u, q) /\ OfEntry(u, q) => Holds(u, q)'
  PROVE  EntriesMapped'
<1> SUFFICES ASSUME NEW j \in 1 .. Len(memmap), NEW n \in 0 .. sizeInPages(memmap[j]) - 1,
                    MapDone(j, n)'
             PROVE  Holds(VPage(memmap[j], n), PPage(memmap[j], n))'
  BY DEF EntriesMapped, memmap
<1>1. Holds(VPage(memmap[j], n), PPage(memmap[j], n))
  BY DEF EntriesMapped
<1>2. memmap' = memmap
  BY DEF memmap
<1> HIDE DEF memmap
<1>4. VPage(memmap[j], n)' = VPage(memmap[j], n) /\ PPage(memmap[j], n)' = PPage(memmap[j], n)
  BY <1>2 DEF VPage, PPage, virtAddr, physAddr
<1> DEFINE u == VPage(memmap[j], n)
           q == PPage(memmap[j], n)
<1>5. Holds(u, q) /\ OfEntry(u, q)
  BY <1>1 DEF OfEntry
<1>6. u' = u /\ q' = q
  BY <1>4
<1> QED BY <1>5, <1>6 DEF Holds

\* Mappings below the direct map leave those of the memory map.
LEMMA EntriesKept ==
  ASSUME KernelInv, machine' = machine, step \in Steps \ {"start", "root", "entries"},
         step' \in Steps \ {"start", "root", "entries"},
         \A u, q : Holds(u, q) /\ u >= hhdmOffset => Holds(u, q)'
  PROVE  EntriesMapped'
<1>1. ASSUME NEW j \in 1 .. Len(memmap), NEW n \in 0 .. sizeInPages(memmap[j]) - 1
      PROVE  VPage(memmap[j], n) >= hhdmOffset
  <2>1. EntryOK(memmap[j])
    BY MachineFacts DEF KernelInv, memmap
  <2> QED BY <2>1, EntryPages, Layout
<1>2. \A j, n : MapDone(j, n)
  BY DEF MapDone
<1>3. \A u, q : Holds(u, q) /\ OfEntry(u, q) => Holds(u, q)'
  BY <1>1 DEF OfEntry
<1> QED BY <1>2, <1>3, EntriesStay DEF KernelInv

-----------------------------------------------------------------------------
(* The steps of _start.                                                    *)

\* A mapping is made only by a kernel that has tables.
LEMMA Before ==
  ASSUME KernelInv, status = "ready"
  PROVE  HasTree /\ step \notin {"start", "root"}
BY DEF KernelInv, NoTree

\* The end of _start changes nothing but the status.
LEMMA InvStop ==
  ASSUME KernelInv, NEW why, Stop(why), why \notin {"ready", "out of memory"},
         status # "out of memory",
         why = "fault" => \/ i > machine.perPage
                          \/ machine.acpi[i].fields # machine.acpi[i].page
  PROVE  KernelInv'
<1>1. /\ status' = why
      /\ UNCHANGED <<free0, granted, globalPageTable, tables, mapped, machine, step, i,
                     pageIdx, cr3>>
  BY DEF Stop
<1>2. (HasTree' <=> HasTree) /\ \A u, q : Holds(u, q)' <=> Holds(u, q)
  BY <1>1, SameTree
<1>3. NoTree => NoTree'
  BY <1>1 DEF NoTree
<1>4. EntriesMapped'
  <2>1. CASE step \in {"start", "root"}
    BY <1>1, <2>1 DEF EntriesMapped
  <2>2. CASE step \notin {"start", "root"}
    <3>1. \A j, n : MapDone(j, n)' => MapDone(j, n)
      BY <1>1 DEF MapDone
    <3> QED BY <1>1, <1>2, <2>2, <3>1, EntriesStay DEF KernelInv
  <2> QED BY <2>1, <2>2
<1>5. HeapMapped'
  BY <1>1 DEF KernelInv, HeapMapped
<1>6. AcpiMapped'
  BY <1>1 DEF KernelInv, AcpiMapped, Holds
<1> QED BY <1>1, <1>2, <1>3, <1>4, <1>5, <1>6 DEF KernelInv

\* Before _start there is nothing.
LEMMA InvBootInit ==
  ASSUME BootInit
  PROVE  KernelInv
<1>1. NoTree /\ step = "start" /\ machine \in Machines /\ ~cr3 /\ status = "boot"
  BY DEF BootInit, NoTree
<1>2. i \in Nat \ {0} /\ pageIdx \in Nat
  BY <1>1 DEF NoTree
<1>3. EntriesMapped /\ HeapMapped /\ AcpiMapped
  BY <1>1 DEF EntriesMapped, HeapMapped, AcpiMapped, AfterCR3
<1> QED BY <1>1, <1>2, <1>3 DEF KernelInv, Steps

\* What the boot loader reports is looked at.
LEMMA InvStart ==
  ASSUME KernelInv, Start
  PROVE  KernelInv'
<1>1. CASE ~machine.framebuffer
  <2>1. Stop("halted") /\ status # "out of memory"
    BY <1>1 DEF Start
  <2> QED BY <2>1, InvStop
<1> DEFINE ok == machine.response /\ Usable(memmap) # {} /\ largestFreeSegment(memmap).base # 0
<1>2. CASE machine.framebuffer /\ ~ok
  <2>1. Stop("panic") /\ status # "out of memory"
    BY <1>2 DEF Start
  <2> QED BY <2>1, InvStop
<1>3. CASE machine.framebuffer /\ ok
  <2>1. /\ step = "start" /\ step' = "root" /\ free0' = FreeAtBoot(memmap) /\ status = "boot"
        /\ UNCHANGED <<status, granted, globalPageTable, tables, mapped, machine, i,
                       pageIdx, cr3>>
    BY <1>3 DEF Start
  <2>2. free0' \subseteq Nat
    BY <2>1, FreeAtBootNat DEF KernelInv, memmap
  <2>3. NoTree'
    BY <2>1, <2>2 DEF KernelInv, NoTree
  <2>4. EntriesMapped' /\ HeapMapped' /\ AcpiMapped'
    BY <2>1 DEF EntriesMapped, HeapMapped, AcpiMapped, AfterCR3
  <2> QED BY <2>1, <2>3, <2>4 DEF KernelInv, Steps, AfterCR3
<1> QED BY <1>1, <1>2, <1>3

\* The root table is requested.
LEMMA InvStartRoot ==
  ASSUME KernelInv, StartRoot
  PROVE  KernelInv'
<1>1. /\ step = "root" /\ step' = "entries" /\ RequestRoot /\ NoTree
      /\ UNCHANGED <<machine, i, pageIdx, cr3>>
  BY DEF StartRoot, KernelInv
<1>2. ~cr3' /\ i' = 1 /\ pageIdx' = 0 /\ machine' \in Machines
  BY <1>1 DEF KernelInv, NoTree, AfterCR3
<1>3. EntriesMapped'
  BY <1>1, <1>2 DEF EntriesMapped, MapDone, Steps
<1>4. status' # "fault"
  BY <1>1 DEF RequestRoot
<1>5. HeapMapped' /\ AcpiMapped'
  BY <1>1, <1>4 DEF HeapMapped, AcpiMapped, AfterCR3
<1>6. NoTree' \/ HasTree'
  <2>1. CASE FreeFrames(granted) = {}
    BY <1>1, <1>2, <2>1 DEF RequestRoot, NoTree
  <2>2. CASE FreeFrames(granted) # {}
    <3>1. free0 \subseteq Nat /\ granted = {} /\ mapped = <<>>
      BY <1>1 DEF NoTree
    <3>2. /\ free0' = free0 /\ globalPageTable' \in free0 /\ granted' = {globalPageTable'}
          /\ DOMAIN tables' = granted' /\ Tables(tables')
      BY <1>1, <2>2, <3>1, RootFacts
    <3>3. PICK lev : /\ Tree(tables', globalPageTable', lev, lev)
                     /\ Leaves(tables', lev, lev, mapped')
      BY <1>1, <2>2, <3>1, RootFacts
    <3> QED BY <3>1, <3>2, <3>3 DEF HasTree
  <2> QED BY <2>1, <2>2
<1>7. i' \in Nat \ {0} /\ pageIdx' \in Nat
  BY <1>2
<1> QED BY <1>1, <1>2, <1>3, <1>5, <1>6, <1>7 DEF KernelInv, Steps

\* A page of an entry is mapped, and stays mapped: no other page of the memory
\* map is mapped at its address.
LEMMA InvMapEntryPage ==
  ASSUME KernelInv, MapEntryPage
  PROVE  KernelInv'
<1> DEFINE e == memmap[i]
           v == VPage(e, pageIdx)
           p == PPage(e, pageIdx)
<1>1. /\ step = "entries" /\ i \in 1 .. Len(memmap) /\ machine \in Machines
      /\ pageIdx \in 0 .. sizeInPages(e) - 1
      /\ PageTable_MapMemory(granted, v, p) /\ status = "ready" /\ NextPage
      /\ UNCHANGED <<machine, step, i, cr3>>
  <2>1. i \in Nat \ {0} /\ pageIdx \in Nat /\ machine \in Machines
    BY DEF KernelInv
  <2>2. Len(memmap) \in Nat
    BY <2>1, MachineFacts DEF memmap
  <2>3. i \in 1 .. Len(memmap) /\ pageIdx < sizeInPages(e)
    BY <2>1, <2>2 DEF MapEntryPage
  <2>4. EntryOK(e)
    BY <2>1, <2>3, MachineFacts DEF memmap
  <2>5. sizeInPages(e) \in Int
    BY <2>4, Layout DEF EntryOK, sizeInPages
  <2>6. pageIdx \in 0 .. sizeInPages(e) - 1
    BY <2>1, <2>3, <2>5
  <2>7. PageTable_MapMemory(granted, v, p)
    BY DEF MapEntryPage, VPage, PPage
  <2>8. status = "ready"
    BY <2>7 DEF PageTable_MapMemory
  <2> QED BY <2>1, <2>3, <2>6, <2>7, <2>8 DEF MapEntryPage
<1>2. EntryOK(e)
  BY <1>1, MachineFacts DEF memmap
<1>3. v \in hhdmOffset .. VSpace - 1 /\ p \in Nat
  BY <1>1, <1>2, EntryPages
<1>4. HasTree
  BY <1>1, Before
<1>5. OfEntry(v, p)
  BY <1>1 DEF OfEntry
<1>6. \A u, q : OfEntry(u, q) => u # v \/ q = p
  <2> SUFFICES ASSUME NEW j \in 1 .. Len(memmap), NEW n \in 0 .. sizeInPages(memmap[j]) - 1,
                      VPage(memmap[j], n) = v
               PROVE  PPage(memmap[j], n) = p
    BY DEF OfEntry
  <2> QED BY <1>1, OneMapping DEF memmap
<1> HIDE DEF e, v, p
<1>7. v \in Nat /\ v % VSpace = v
  BY <1>3, Layout
<1>8. granted \subseteq granted /\ granted \subseteq free0
  BY <1>4 DEF HasTree
<1>9. /\ HasTree'
      /\ \/ status' = "ready" /\ mapped' = Put(mapped, v, p)
         \/ status' = "out of memory" /\ mapped' = mapped
  BY <1>1, <1>3, <1>4, <1>7, <1>8, MapKeepsTree
<1>10. \A u, q : Holds(u, q) /\ (u # v \/ q = p) => Holds(u, q)'
  BY <1>9 DEF Holds, Put
<1>11. pageIdx \in Nat /\ pageIdx' \in Nat /\ (status' # "ready" => pageIdx' = pageIdx)
       /\ (status' = "ready" => pageIdx' = pageIdx + 1)
  BY <1>1 DEF KernelInv, NextPage
<1>12. EntriesMapped'
  <2> SUFFICES ASSUME NEW j \in 1 .. Len(memmap), NEW n \in 0 .. sizeInPages(memmap[j]) - 1,
                      MapDone(j, n)'
               PROVE  Holds(VPage(memmap[j], n), PPage(memmap[j], n))'
    BY <1>1 DEF EntriesMapped, memmap
  <2> DEFINE u == VPage(memmap[j], n)
             q == PPage(memmap[j], n)
  <2>1. u' = u /\ q' = q
    BY <1>1 DEF memmap, VPage, PPage, virtAddr, physAddr
  <2>2. OfEntry(u, q)
    BY DEF OfEntry
  <2>3. CASE MapDone(j, n)
    <3>1. Holds(u, q)
      BY <1>1, <2>3 DEF KernelInv, EntriesMapped
    <3> HIDE DEF u, q
    <3>2. Holds(u, q) => (mapped'[u] = q /\ u \in DOMAIN mapped')
      BY <1>6, <1>10, <2>2 DEF Holds
    <3>3. Holds(u, q)'
      BY <2>1, <3>1, <3>2 DEF Holds
    <3> QED BY <3>3 DEF u, q
  <2>4. CASE ~MapDone(j, n)
    <3>0. n \in Int
      OBVIOUS
    <3>1. j = i /\ n = pageIdx /\ status' = "ready"
      BY <1>1, <1>11, <2>4, <3>0 DEF MapDone
    <3>2. u = v /\ q = p
      BY <3>1 DEF v, p, e
    <3> HIDE DEF u, q
    <3>3. v \in DOMAIN mapped' /\ mapped'[v] = p
      BY <1>9, <3>1 DEF Put
    <3>4. Holds(u, q)'
      BY <2>1, <3>2, <3>3 DEF Holds
    <3> QED BY <3>4 DEF u, q
  <2> QED BY <2>3, <2>4
<1>13. HeapMapped' /\ AcpiMapped'
  BY <1>1, <1>9 DEF HeapMapped, AcpiMapped, AfterCR3
<1> QED BY <1>1, <1>9, <1>11, <1>12, <1>13 DEF KernelInv

\* The loops go on only when all pages of the entry are mapped.
LEMMA InvNextEntry ==
  ASSUME KernelInv, NextEntry
  PROVE  KernelInv'
<1>1. /\ step = "entries" /\ status = "ready" /\ status' = "ready" /\ pageIdx' = 0
      /\ i \in Nat \ {0} /\ machine \in Machines
      /\ UNCHANGED <<free0, granted, globalPageTable, tables, mapped, machine, cr3>>
  BY DEF NextEntry, KernelInv, vars
<1>2. HasTree' /\ \A u, q : Holds(u, q)' <=> Holds(u, q)
  BY <1>1, Before, SameTree
<1>3. /\ step' \in {"entries", "identity"} /\ i' \in Nat \ {0}
      /\ i' <= i + 1 /\ (step' = "identity" => i > Len(memmap) /\ i' = i)
      /\ (i' = i + 1 => i <= Len(memmap) /\ pageIdx >= sizeInPages(memmap[i]))
  BY <1>1, MachineFacts DEF NextEntry, memmap
<1>4. EntriesMapped'
  <2> SUFFICES ASSUME NEW j \in 1 .. Len(memmap), NEW n \in 0 .. sizeInPages(memmap[j]) - 1,
                      MapDone(j, n)'
               PROVE  Holds(VPage(memmap[j], n), PPage(memmap[j], n))'
    BY <1>1 DEF EntriesMapped, memmap
  <2> DEFINE u == VPage(memmap[j], n)
             q == PPage(memmap[j], n)
  <2>1. u' = u /\ q' = q
    BY <1>1 DEF memmap, VPage, PPage, virtAddr, physAddr
  <2>2. Len(memmap) \in Nat /\ j \in Int /\ sizeInPages(memmap[j]) \in Int
    <3>1. Len(memmap) \in Nat /\ EntryOK(memmap[j])
      BY <1>1, MachineFacts DEF memmap
    <3> QED BY <3>1, Layout, SMTT(30) DEF EntryOK, sizeInPages
  <2>3. n \in Nat /\ n < sizeInPages(memmap[j])
    BY <2>2
  <2>4. j < i \/ (j = i /\ i' = i + 1)
    BY <1>1, <1>3, <2>2, <2>3 DEF MapDone
  <2>5. MapDone(j, n)
    <3>1. CASE j < i
      BY <3>1 DEF MapDone
    <3>2. CASE j = i /\ i' = i + 1
      <4>1. pageIdx >= sizeInPages(memmap[j])
        BY <1>3, <3>2
      <4>2. n < pageIdx
        BY <2>2, <2>3, <4>1 DEF KernelInv
      <4> QED BY <3>2, <4>2 DEF MapDone
    <3> QED BY <2>4, <3>1, <3>2
  <2>6. Holds(u, q)
    BY <1>1, <2>5 DEF KernelInv, EntriesMapped
  <2> HIDE DEF u, q
  <2>7. Holds(u, q)'
    BY <1>1, <2>1, <2>6 DEF Holds
  <2> QED BY <2>7 DEF u, q
<1>5. HeapMapped' /\ AcpiMapped'
  BY <1>1, <1>3 DEF HeapMapped, AcpiMapped, AfterCR3
<1>6. pageIdx' \in Nat /\ ~cr3'
  BY <1>1 DEF KernelInv, AfterCR3
<1> QED BY <1>1, <1>2, <1>3, <1>4, <1>5, <1>6 DEF KernelInv, Steps

\* A page below the direct map is mapped.
LEMMA MapLow ==
  ASSUME KernelInv, step \in Steps \ {"start", "root", "entries"},
         step' \in Steps \ {"start", "root", "entries"}, machine' = machine,
         NEW taken, granted \subseteq taken, taken \subseteq free0,
         NEW v \in 0 .. hhdmOffset - 1, NEW p \in Nat, PageTable_MapMemory(taken, v, p)
  PROVE  /\ HasTree' /\ EntriesMapped' /\ status = "ready"
         /\ DOMAIN tables' \cap taken = DOMAIN tables /\ taken \subseteq granted'
         /\ \/ status' = "ready" /\ mapped' = Put(mapped, v, p)
            \/ status' = "out of memory" /\ mapped' = mapped
<1>1. status = "ready" /\ HasTree
  BY Before DEF PageTable_MapMemory
<1>2. v \in Nat /\ v % VSpace = v /\ v < hhdmOffset
  BY Layout
<1>3. /\ HasTree' /\ DOMAIN tables' \cap taken = DOMAIN tables /\ taken \subseteq granted'
      /\ \/ status' = "ready" /\ mapped' = Put(mapped, v, p)
         \/ status' = "out of memory" /\ mapped' = mapped
  BY <1>1, <1>2, MapKeepsTree
<1>4. \A u, q : Holds(u, q) /\ u # v => Holds(u, q)'
  BY <1>3, MapHolds
<1>5. ~(v >= hhdmOffset)
  BY <1>2, Layout
<1>6. EntriesMapped'
  BY <1>4, <1>5, EntriesKept
<1> QED BY <1>1, <1>3, <1>6

\* The first 16 MiB are mapped.
LEMMA InvMapIdentityPage ==
  ASSUME KernelInv, MapIdentityPage
  PROVE  KernelInv'
<1>1. /\ step = "identity" /\ pageIdx < IdentityPages /\ NextPage /\ pageIdx \in Nat
      /\ PageTable_MapMemory(granted, pageIdx, pageIdx)
      /\ UNCHANGED <<machine, step, i, cr3>>
  BY DEF MapIdentityPage, KernelInv
<1>2. pageIdx \in 0 .. hhdmOffset - 1
  BY <1>1, Layout
<1>3. step \in Steps \ {"start", "root", "entries"} /\ step \notin AfterCR3
  BY <1>1 DEF Steps, AfterCR3
<1>4. granted \subseteq granted /\ granted \subseteq free0
  BY <1>1, Before DEF HasTree, PageTable_MapMemory
<1>5. HasTree' /\ EntriesMapped' /\ status' \in {"ready", "out of memory"}
  BY <1>1, <1>2, <1>3, <1>4, MapLow
<1>6. HeapMapped' /\ AcpiMapped'
  BY <1>1, <1>3, <1>5 DEF HeapMapped, AcpiMapped
<1>7. pageIdx' \in Nat
  BY <1>1 DEF NextPage
<1> QED BY <1>1, <1>5, <1>6, <1>7 DEF KernelInv

\* A step that maps nothing, behind the loops over the memory map.
LEMMA InvSame ==
  ASSUME KernelInv, UNCHANGED <<vars, machine>>, status = "ready",
         step \in Steps \ {"start", "root", "entries"},
         step' \in Steps \ {"start", "root", "entries"},
         i' \in Nat \ {0}, pageIdx' \in Nat, cr3' => step' \in AfterCR3, HeapMapped', AcpiMapped'
  PROVE  KernelInv'
<1>1. UNCHANGED <<free0, granted, globalPageTable, tables, mapped, machine>>
  BY DEF vars
<1>2. HasTree' /\ \A u, q : Holds(u, q)' <=> Holds(u, q)
  BY <1>1, Before, SameTree
<1>3. EntriesMapped'
  BY <1>1, <1>2, EntriesKept
<1> QED BY <1>1, <1>2, <1>3 DEF KernelInv

\* The processor changes to the new tables; the heap is empty.
LEMMA InvLoadCR3 ==
  ASSUME KernelInv, LoadCR3
  PROVE  KernelInv'
<1>1. /\ step = "identity" /\ status = "ready" /\ step' = "heap" /\ pageIdx' = 0
      /\ UNCHANGED <<vars, machine, i>>
  BY DEF LoadCR3
<1>2. HeapMapped'
  <2>1. 0 <= HeapLimit
    BY Layout
  <2> QED BY <1>1, <2>1 DEF HeapMapped
<1>3. AcpiMapped'
  BY <1>1 DEF AcpiMapped, vars
<1>4. pageIdx' \in Nat
  BY <1>1
<1> QED BY <1>1, <1>2, <1>3, <1>4, InvSame DEF KernelInv, Steps, AfterCR3

\* The heap is in use.
LEMMA InvHeapReady ==
  ASSUME KernelInv, HeapReady
  PROVE  KernelInv'
<1>1. /\ step = "heap" /\ status = "ready" /\ step' = "rsdp"
      /\ UNCHANGED <<vars, machine, i, pageIdx, cr3>>
  BY DEF HeapReady
<1>2. HeapMapped'
  BY <1>1 DEF KernelInv, HeapMapped, AfterCR3, vars
<1>3. AcpiMapped'
  BY <1>1 DEF AcpiMapped, vars
<1> QED BY <1>1, <1>2, <1>3, InvSame DEF KernelInv, Steps, AfterCR3

\* A page of the heap gets a frame that no table and no other page of the heap
\* has, and the tables this takes get frames that no page of the heap has.
LEMMA InvHeapPage ==
  ASSUME KernelInv, HeapPage
  PROVE  KernelInv'
<1> DEFINE f == requestPage(granted)
           v == HeapStart + pageIdx
<1>1. /\ HeapGrows /\ status = "ready" /\ HasTree /\ machine \in Machines
      /\ pageIdx \in Nat /\ i \in Nat \ {0}
      /\ UNCHANGED <<machine, step, i, cr3>>
  BY Before DEF HeapPage, KernelInv
<1>2. step \in AfterCR3 /\ pageIdx < HeapLimit /\ step \in Steps \ {"start", "root", "entries"}
  BY <1>1, Layout DEF HeapGrows, AfterCR3, Steps
<1>3. /\ \A k \in 0 .. pageIdx - 1 :
           HeapStart + k \in DOMAIN mapped /\ mapped[HeapStart + k] \in granted \ DOMAIN tables
      /\ \A k, l \in 0 .. pageIdx - 1 :
           k # l => mapped[HeapStart + k] # mapped[HeapStart + l]
  BY <1>2 DEF KernelInv, HeapMapped
<1>4. CASE FreeFrames(granted) = {}
  <2>1. /\ status' = "out of memory"
        /\ UNCHANGED <<free0, granted, globalPageTable, tables, mapped, pageIdx>>
    BY <1>4 DEF HeapPage
  <2>2. HasTree' /\ \A u, q : Holds(u, q)' <=> Holds(u, q)
    BY <1>1, <2>1, SameTree
  <2>3. EntriesMapped'
    BY <1>1, <1>2, <2>2, EntriesKept
  <2>4. HeapMapped'
    BY <1>1, <2>1 DEF KernelInv, HeapMapped
  <2>5. AcpiMapped'
    BY <1>1, <2>1 DEF KernelInv, AcpiMapped
  <2> QED BY <1>1, <1>2, <2>1, <2>2, <2>3, <2>4, <2>5 DEF KernelInv
<1>5. CASE FreeFrames(granted) # {}
  <2> DEFINE taken == granted \cup {f}
  <2>1. PageTable_MapMemory(taken, v, f) /\ NextPage
    BY <1>5 DEF HeapPage
  <2>2. f \in free0 \ granted /\ f \in Nat
    <3>1. FreeFrames(granted) \in SUBSET Nat
      BY <1>1 DEF FreeFrames, HasTree
    <3>2. f \in FreeFrames(granted)
      BY <1>5, <3>1, LeastFrame DEF requestPage
    <3> QED BY <3>1, <3>2 DEF FreeFrames
  <2> HIDE DEF f
  <2>3. granted \subseteq taken /\ taken \subseteq free0 /\ f \in taken /\ f \notin DOMAIN tables
    BY <1>1, <2>2 DEF HasTree
  <2> HIDE DEF taken
  <2>4. v \in 0 .. hhdmOffset - 1 /\ v \in HeapStart .. HeapStart + HeapLimit - 1
    BY <1>1, <1>2, Layout
  <2>k. \A k \in 0 .. pageIdx - 1 : HeapStart + k # v
    BY <1>1, Layout
  <2> HIDE DEF v
  <2>5. /\ HasTree' /\ EntriesMapped'
        /\ DOMAIN tables' \cap taken = DOMAIN tables /\ taken \subseteq granted'
        /\ \/ status' = "ready" /\ mapped' = Put(mapped, v, f)
           \/ status' = "out of memory" /\ mapped' = mapped
    BY <1>1, <1>2, <2>1, <2>2, <2>3, <2>4, MapLow
  <2>6. \A u, q : Holds(u, q) /\ u # v => Holds(u, q)'
    BY <2>5 DEF Holds, Put
  <2>7. \A u \in DOMAIN mapped : u # v => u \in DOMAIN mapped' /\ mapped'[u] = mapped[u]
    BY <2>5 DEF Put
  <2>8. /\ pageIdx' \in Nat
        /\ \/ pageIdx' = pageIdx
           \/ /\ pageIdx' = pageIdx + 1
              /\ v \in DOMAIN mapped' /\ mapped'[v] = f
    <3>1. CASE status' = "ready"
      BY <1>1, <2>1, <2>5, <3>1 DEF NextPage, Put
    <3>2. CASE status' # "ready"
      BY <1>1, <2>1, <3>2 DEF NextPage
    <3> QED BY <3>1, <3>2
  <2>9. \A k \in 0 .. pageIdx - 1 :
          /\ HeapStart + k \in DOMAIN mapped' /\ mapped'[HeapStart + k] = mapped[HeapStart + k]
          /\ mapped'[HeapStart + k] \in granted' \ DOMAIN tables'
          /\ mapped'[HeapStart + k] # f
    <3> SUFFICES ASSUME NEW k \in 0 .. pageIdx - 1
                 PROVE  /\ HeapStart + k \in DOMAIN mapped'
                        /\ mapped'[HeapStart + k] = mapped[HeapStart + k]
                        /\ mapped'[HeapStart + k] \in granted' \ DOMAIN tables'
                        /\ mapped'[HeapStart + k] # f
      OBVIOUS
    <3>1. /\ HeapStart + k \in DOMAIN mapped' /\ mapped'[HeapStart + k] = mapped[HeapStart + k]
          /\ mapped[HeapStart + k] \in granted \ DOMAIN tables
      BY <1>3, <2>7, <2>k
    <3> QED BY <3>1, <2>2, <2>3, <2>5
  <2>10. f \in granted' \ DOMAIN tables'
    BY <2>3, <2>5
  <2>11. HeapMapped'
    <3>1. CASE pageIdx' = pageIdx
      <4>1. pageIdx' <= HeapLimit
        BY <1>1, <1>2, <3>1, Layout
      <4> QED BY <1>3, <2>9, <3>1, <4>1 DEF HeapMapped
    <3>2. CASE /\ pageIdx' = pageIdx + 1
               /\ v \in DOMAIN mapped' /\ mapped'[v] = f
      <4>1. pageIdx' <= HeapLimit
        BY <1>1, <1>2, <3>2, Layout
      <4>2. \A k \in 0 .. pageIdx' - 1 : k \in 0 .. pageIdx - 1 \/ k = pageIdx
        BY <1>1, <3>2
      <4>3. \A k \in 0 .. pageIdx' - 1 :
              /\ HeapStart + k \in DOMAIN mapped'
              /\ mapped'[HeapStart + k] \in granted' \ DOMAIN tables'
        BY <2>9, <2>10, <3>2, <4>2 DEF v
      <4>4. \A k, l \in 0 .. pageIdx' - 1 :
              k # l => mapped'[HeapStart + k] # mapped'[HeapStart + l]
        BY <1>3, <2>9, <3>2, <4>2 DEF v
      <4> QED BY <4>1, <4>3, <4>4 DEF HeapMapped
    <3> QED BY <2>8, <3>1, <3>2
  <2>12. AcpiMapped'
    <3>1. machine.rsdt # v
      BY <1>1, <2>4, MachineFacts
    <3>2. \A n \in 1 .. Len(machine.acpi) : machine.acpi[n].page # v
      BY <1>1, <2>4, MachineFacts
    <3>3. AcpiMapped /\ status = "ready" /\ status' # "fault"
      BY <1>1, <2>5 DEF KernelInv
    <3>4. step \in {"tables", "signature", "facp"} =>
            machine.rsdt \in DOMAIN mapped' /\ mapped'[machine.rsdt] = machine.rsdt
      BY <2>7, <3>1, <3>3 DEF AcpiMapped, Holds
    <3>5. ASSUME step \in {"signature", "facp"}, i <= Len(machine.acpi)
          PROVE  LET q == machine.acpi[i].page
                 IN  q \in DOMAIN mapped' /\ mapped'[q] = q
      <4>1. i \in 1 .. Len(machine.acpi)
        BY <1>1, <3>5, MachineFacts
      <4> QED BY <2>7, <3>2, <3>3, <3>5, <4>1 DEF AcpiMapped, Holds
    <3>6. step = "signature" => i <= Len(machine.acpi)
      BY <3>3 DEF AcpiMapped
    <3> QED BY <1>1, <3>3, <3>4, <3>5, <3>6 DEF AcpiMapped, Holds
  <2> QED BY <1>1, <1>2, <2>5, <2>8, <2>11, <2>12 DEF KernelInv
<1> QED BY <1>4, <1>5

\* ACPI::init looks at the signature of the RSDP.
LEMMA InvCheckRSDP ==
  ASSUME KernelInv, CheckRSDP
  PROVE  KernelInv'
<1>1. CASE ~machine.signature
  <2>1. Stop("panic") /\ status # "out of memory"
    BY <1>1 DEF CheckRSDP
  <2> QED BY <2>1, InvStop
<1>2. CASE machine.signature
  <2>1. /\ step = "rsdp" /\ status = "ready" /\ step' = "rsdt"
        /\ UNCHANGED <<vars, machine, i, pageIdx, cr3>>
    BY <1>2 DEF CheckRSDP
  <2>2. HeapMapped'
    BY <2>1 DEF KernelInv, HeapMapped, AfterCR3, vars
  <2>3. AcpiMapped'
    BY <2>1 DEF AcpiMapped, vars
  <2> QED BY <2>1, <2>2, <2>3, InvSame DEF KernelInv, Steps, AfterCR3
<1> QED BY <1>1, <1>2

\* ACPI::findTable maps a page of firmware tables, which the heap does not reach.
LEMMA MapFirmware ==
  ASSUME KernelInv, step \in AfterCR3, step' \in AfterCR3, UNCHANGED <<machine, pageIdx>>,
         NEW v \in 0 .. hhdmOffset - 1, v \notin HeapStart .. HeapStart + HeapLimit - 1,
         PageTable_MapMemory(granted, v, v)
  PROVE  /\ HasTree' /\ EntriesMapped' /\ HeapMapped' /\ status = "ready"
         /\ status' \in {"ready", "out of memory"}
         /\ status' = "ready" => v \in DOMAIN mapped' /\ mapped'[v] = v
         /\ \A u : Holds(u, u) => Holds(u, u)'
<1>1. /\ step \in Steps \ {"start", "root", "entries"}
      /\ step' \in Steps \ {"start", "root", "entries"}
  BY DEF Steps, AfterCR3
<1>2. granted \subseteq granted /\ granted \subseteq free0
  BY Before DEF HasTree, PageTable_MapMemory
<1>3. v \in Nat
  BY Layout
<1>4. /\ HasTree' /\ EntriesMapped' /\ status = "ready"
      /\ DOMAIN tables' \cap granted = DOMAIN tables /\ granted \subseteq granted'
      /\ \/ status' = "ready" /\ mapped' = Put(mapped, v, v)
         \/ status' = "out of memory" /\ mapped' = mapped
  BY <1>1, <1>2, <1>3, MapLow
<1>5. \A u : Holds(u, u) => Holds(u, u)'
  BY <1>4, MapHolds
<1>6. HeapMapped'
  <2>1. /\ pageIdx <= HeapLimit /\ pageIdx \in Nat
        /\ \A k \in 0 .. pageIdx - 1 :
             HeapStart + k \in DOMAIN mapped /\ mapped[HeapStart + k] \in granted \ DOMAIN tables
        /\ \A k, l \in 0 .. pageIdx - 1 :
             k # l => mapped[HeapStart + k] # mapped[HeapStart + l]
    BY DEF KernelInv, HeapMapped
  <2>2. \A k \in 0 .. pageIdx - 1 : HeapStart + k # v
    BY <2>1, Layout, SMTT(30)
  <2>3. \A u \in DOMAIN mapped : u # v => u \in DOMAIN mapped' /\ mapped'[u] = mapped[u]
    BY <1>4 DEF Put
  <2>4. \A k \in 0 .. pageIdx - 1 :
          HeapStart + k \in DOMAIN mapped' /\ mapped'[HeapStart + k] = mapped[HeapStart + k]
    BY <2>1, <2>2, <2>3
  <2>5. \A k \in 0 .. pageIdx - 1 : mapped'[HeapStart + k] \in granted' \ DOMAIN tables'
    BY <1>4, <2>1, <2>4
  <2> QED BY <2>1, <2>4, <2>5 DEF HeapMapped
<1> QED BY <1>4, <1>5, <1>6 DEF Put

\* findTable maps the RSDT.
LEMMA InvMapRSDT ==
  ASSUME KernelInv, MapRSDT
  PROVE  KernelInv'
<1>1. /\ step = "rsdt" /\ step' = "tables" /\ i' = 1
      /\ PageTable_MapMemory(granted, machine.rsdt, machine.rsdt)
      /\ UNCHANGED <<machine, pageIdx, cr3>>
  BY DEF MapRSDT
<1> DEFINE v == machine.rsdt
<1>2. v \in 0 .. hhdmOffset - 1 /\ v \notin HeapStart .. HeapStart + HeapLimit - 1
  BY MachineFacts DEF KernelInv
<1>v. v' = v
  BY <1>1
<1> HIDE DEF v
<1>3. step \in AfterCR3 /\ step' \in AfterCR3
  BY <1>1 DEF AfterCR3
<1>4. PageTable_MapMemory(granted, v, v)
  BY <1>1 DEF v
<1>5. /\ HasTree' /\ EntriesMapped' /\ HeapMapped'
      /\ status' \in {"ready", "out of memory"}
      /\ status' = "ready" => v \in DOMAIN mapped' /\ mapped'[v] = v
  BY <1>1, <1>2, <1>3, <1>4, MapFirmware
<1>6. AcpiMapped'
  BY <1>1, <1>5, <1>v DEF AcpiMapped, Holds, v
<1>7. i' \in Nat \ {0}
  BY <1>1
<1> QED BY <1>1, <1>3, <1>5, <1>6, <1>7 DEF KernelInv, Steps

\* findTable reads a pointer of the RSDT and maps the table.
LEMMA InvFindTable ==
  ASSUME KernelInv, FindTable
  PROVE  KernelInv'
<1>1. step = "tables" /\ status = "ready" /\ HasTree /\ machine \in Machines /\ i \in Nat \ {0}
  BY Before DEF FindTable, KernelInv
<1>2. CASE i > Len(machine.acpi)
  <2>1. step' = "facp" /\ UNCHANGED <<vars, machine, i, pageIdx, cr3>>
    BY <1>2 DEF FindTable
  <2>2. HeapMapped'
    BY <1>1, <2>1 DEF KernelInv, HeapMapped, AfterCR3, vars
  <2>3. AcpiMapped'
    <3>1. ~(i <= Len(machine.acpi))
      BY <1>1, <1>2, MachineFacts
    <3> QED BY <1>1, <2>1, <3>1 DEF KernelInv, AcpiMapped, Holds, vars
  <2> QED BY <1>1, <2>1, <2>2, <2>3, InvSame DEF KernelInv, Steps, AfterCR3
<1>3. CASE ~(i > Len(machine.acpi)) /\ Translate(PointerPage) = {}
  <2>1. Stop("fault")
    BY <1>3 DEF FindTable
  <2>2. i > machine.perPage
    <3> SUFFICES ASSUME ~(i > machine.perPage)
                 PROVE  FALSE
      OBVIOUS
    <3>1. Holds(machine.rsdt, machine.rsdt)
      BY <1>1 DEF KernelInv, AcpiMapped
    <3>2. machine.rsdt \in 0 .. VSpace - 1
      BY <1>1, MachineFacts, Layout
    <3>3. Translate(machine.rsdt) = {machine.rsdt}
      BY <1>1, <3>1, <3>2, HoldsTranslates
    <3>4. PointerPage = machine.rsdt
      BY <3>2, Layout DEF PointerPage
    <3> QED BY <1>3, <3>3, <3>4
  <2> QED BY <1>1, <2>1, <2>2, InvStop
<1>4. CASE ~(i > Len(machine.acpi)) /\ Translate(PointerPage) # {}
  <2> DEFINE v == machine.acpi[i].page
  <2>1. /\ PageTable_MapMemory(granted, v, v)
        /\ step' = "signature" /\ UNCHANGED <<machine, i, pageIdx, cr3>>
    BY <1>4 DEF FindTable
  <2>2. i \in 1 .. Len(machine.acpi)
    BY <1>1, <1>4, MachineFacts
  <2>3. v \in 0 .. hhdmOffset - 1 /\ v \notin HeapStart .. HeapStart + HeapLimit - 1
    BY <1>1, <2>2, MachineFacts
  <2>4. v' = v
    BY <2>1
  <2> HIDE DEF v
  <2>5. step \in AfterCR3 /\ step' \in AfterCR3
    BY <1>1, <2>1 DEF AfterCR3
  <2>6. /\ HasTree' /\ EntriesMapped' /\ HeapMapped'
        /\ status' \in {"ready", "out of memory"}
        /\ status' = "ready" => v \in DOMAIN mapped' /\ mapped'[v] = v
        /\ \A u : Holds(u, u) => Holds(u, u)'
    BY <2>1, <2>3, <2>5, MapFirmware
  <2>7. Holds(machine.rsdt, machine.rsdt)
    BY <1>1 DEF KernelInv, AcpiMapped
  <2>8. machine.rsdt \in DOMAIN mapped' /\ mapped'[machine.rsdt] = machine.rsdt
    BY <2>6, <2>7 DEF Holds
  <2>i. i <= Len(machine.acpi)
    BY <1>1, <2>2, MachineFacts
  <2>9. AcpiMapped'
    BY <2>1, <2>4, <2>6, <2>8, <2>i DEF AcpiMapped, Holds, v
  <2> QED BY <1>1, <2>1, <2>5, <2>6, <2>9 DEF KernelInv, Steps
<1> QED BY <1>2, <1>3, <1>4

\* findTable compares the signature, and ends or goes on.
LEMMA InvTestSignature ==
  ASSUME KernelInv, TestSignature
  PROVE  KernelInv'
<1>1. /\ step = "signature" /\ status = "ready" /\ step' \in {"facp", "tables"}
      /\ i' \in {i, i + 1} /\ (step' = "facp" => i' = i)
      /\ UNCHANGED <<vars, machine, pageIdx, cr3>>
  BY DEF TestSignature
<1>2. HeapMapped'
  BY <1>1 DEF KernelInv, HeapMapped, AfterCR3, vars
<1>3. AcpiMapped'
  BY <1>1 DEF KernelInv, AcpiMapped, Holds, vars
<1>4. i' \in Nat \ {0}
  BY <1>1 DEF KernelInv
<1>5. /\ step \in Steps \ {"start", "root", "entries"}
      /\ step' \in Steps \ {"start", "root", "entries"} /\ step' \in AfterCR3
  BY <1>1 DEF Steps, AfterCR3
<1> QED BY <1>1, <1>2, <1>3, <1>4, <1>5, InvSame DEF KernelInv

\* ACPI::init reads the fields of the FADT.
LEMMA InvEnableACPI ==
  ASSUME KernelInv, EnableACPI
  PROVE  KernelInv'
<1> DEFINE t == machine.acpi[i]
<1>1. /\ step = "facp" /\ status = "ready" /\ HasTree /\ machine \in Machines
      /\ i \in Nat \ {0}
      /\ Stop(IF i > Len(machine.acpi) THEN "panic"
              ELSE IF Translate(t.fields) = {} THEN "fault" ELSE "halted")
  BY Before DEF EnableACPI, KernelInv
<1>4. CASE i > Len(machine.acpi)
  <2>1. Stop("panic")
    BY <1>1, <1>4
  <2> QED BY <1>1, <2>1, InvStop
<1>2. CASE ~(i > Len(machine.acpi)) /\ Translate(t.fields) # {}
  <2>1. Stop("halted")
    BY <1>1, <1>2
  <2> QED BY <1>1, <2>1, InvStop
<1>3. CASE ~(i > Len(machine.acpi)) /\ Translate(t.fields) = {}
  <2>1. Stop("fault")
    BY <1>1, <1>3
  <2>i. i \in 1 .. Len(machine.acpi)
    BY <1>1, <1>3, MachineFacts
  <2>2. i \in 1 .. Len(machine.acpi) /\ Holds(t.page, t.page)
    BY <1>1, <2>i DEF KernelInv, AcpiMapped
  <2>3. t.page \in 0 .. VSpace - 1
    BY <1>1, <2>2, MachineFacts, Layout, SMTT(30)
  <2>4. Translate(t.page) = {t.page}
    BY <1>1, <2>2, <2>3, HoldsTranslates
  <2>5. t.fields # t.page
    BY <1>3, <2>4
  <2> QED BY <1>1, <2>1, <2>5, InvStop
<1> QED BY <1>2, <1>3, <1>4

-----------------------------------------------------------------------------
(* What follows.                                                           *)

\* Every step of _start keeps the tree of tables and what it has mapped: the
\* pages of the memory map, of the heap and of the firmware tables.
THEOREM KernelInvariant == BootSpec => []KernelInv
<1>1. BootInit => KernelInv
  BY InvBootInit
<1>2. KernelInv /\ [BootNext]_bootVars => KernelInv'
  <2> SUFFICES ASSUME KernelInv, [BootNext]_bootVars
               PROVE  KernelInv'
    OBVIOUS
  <2>1. CASE BootNext
    BY <2>1, InvStart, InvStartRoot, InvMapEntryPage, InvNextEntry, InvMapIdentityPage,
       InvLoadCR3, InvHeapPage, InvHeapReady, InvCheckRSDP, InvMapRSDT, InvFindTable,
       InvTestSignature, InvEnableACPI DEF BootNext
  <2>2. CASE UNCHANGED bootVars
    <3>1. UNCHANGED <<status, free0, granted, globalPageTable, tables, mapped, machine, step, i,
                      pageIdx, cr3>>
      BY <2>2 DEF bootVars, vars
    <3>2. (HasTree' <=> HasTree) /\ \A u, q : Holds(u, q)' <=> Holds(u, q)
      BY <3>1, SameTree
    <3>3. NoTree => NoTree'
      BY <3>1 DEF NoTree
    <3>4. EntriesMapped'
      <4>1. CASE step \in {"start", "root"}
        BY <3>1, <4>1 DEF EntriesMapped
      <4>2. CASE step \notin {"start", "root"}
        <5>1. \A j, n : MapDone(j, n)' => MapDone(j, n)
          BY <3>1 DEF MapDone
        <5> QED BY <3>1, <3>2, <4>2, <5>1, EntriesStay DEF KernelInv
      <4> QED BY <4>1, <4>2
    <3>5. HeapMapped'
      BY <3>1 DEF KernelInv, HeapMapped
    <3>6. AcpiMapped'
      BY <3>1 DEF KernelInv, AcpiMapped, Holds
    <3> QED BY <3>1, <3>2, <3>3, <3>4, <3>5, <3>6 DEF KernelInv
  <2> QED BY <2>1, <2>2
<1> QED BY <1>1, <1>2, PTL DEF BootSpec

\* The tables exist once CR3 is loaded.
LEMMA TreeAfterCR3 ==
  ASSUME KernelInv, step \in AfterCR3
  PROVE  HasTree
BY DEF KernelInv, NoTree, AfterCR3

\* The pages that initHeap and expandHeap map have frames of their own, which
\* were free at boot and hold no page table, for every machine, size of the
\* tables and growth of the heap.
THEOREM KernelHeapPrivate == BootSpec => []HeapFramesPrivate
<1>1. KernelInv => HeapFramesPrivate
  <2> SUFFICES ASSUME KernelInv, cr3
               PROVE  LET heap == {HeapStart + n : n \in 0 .. pageIdx - 1}
                      IN  /\ \A p \in heap : Translate(p) \subseteq free0 \ DOMAIN tables
                          /\ status = "ready" => \A p \in heap : Translate(p) # {}
                          /\ \A p, q \in heap : p # q => Translate(p) \cap Translate(q) = {}
    BY DEF HeapFramesPrivate
  <2> DEFINE T(k) == mapped[HeapStart + k]
  <2>1. step \in AfterCR3 /\ HasTree /\ granted \subseteq free0 /\ pageIdx \in Nat
    BY TreeAfterCR3 DEF KernelInv, HasTree
  <2>2. /\ pageIdx <= HeapLimit
        /\ \A k \in 0 .. pageIdx - 1 :
             HeapStart + k \in DOMAIN mapped /\ T(k) \in granted \ DOMAIN tables
        /\ \A k, l \in 0 .. pageIdx - 1 : k # l => T(k) # T(l)
    BY <2>1 DEF KernelInv, HeapMapped
  <2>3. \A k \in 0 .. pageIdx - 1 : Translate(HeapStart + k) = {T(k)}
    <3> SUFFICES ASSUME NEW k \in 0 .. pageIdx - 1
                 PROVE  Translate(HeapStart + k) = {T(k)}
      OBVIOUS
    <3> DEFINE v == HeapStart + k
    <3>1. v \in 0 .. VSpace - 1 /\ v \in DOMAIN mapped
      BY <2>1, <2>2, Layout
    <3> HIDE DEF v
    <3>2. Translate(v) = {mapped[v]}
      BY <2>1, <3>1, HoldsTranslates
    <3> QED BY <3>2 DEF v
  <2> HIDE DEF T
  <2>4. \A k \in 0 .. pageIdx - 1 : Translate(HeapStart + k) \subseteq free0 \ DOMAIN tables
    BY <2>1, <2>2, <2>3
  <2>5. \A k \in 0 .. pageIdx - 1 : Translate(HeapStart + k) # {}
    BY <2>3
  <2>6. \A k, l \in 0 .. pageIdx - 1 :
          k # l => Translate(HeapStart + k) \cap Translate(HeapStart + l) = {}
    BY <2>2, <2>3
  <2> QED BY <2>4, <2>5, <2>6
<1> QED BY <1>1, KernelInvariant, PTL

\* Once CR3 is loaded the pages of every entry of the memory map are mapped
\* where _start means them to be, but for the last page of an entry that begins
\* inside a page and crosses into another: for every memory map and page size.
THEOREM KernelMemoryMapped == BootSpec => []MemoryMapMapped
<1>1. KernelInv => MemoryMapMapped
  <2> SUFFICES ASSUME KernelInv, cr3, NEW e \in Range(memmap),
                      NEW p \in e.base \div Unit .. (e.base + e.length - 1) \div Unit,
                      e.length # 0,
                      \/ p # (e.base + e.length - 1) \div Unit
                      \/ p = e.base \div Unit
                      \/ e.base % Unit = 0
               PROVE  Translate(IF e.type = LIMINE_MEMMAP_KERNEL_AND_MODULES
                                THEN mem_kVirtOffset + p - e.base \div Unit
                                ELSE hhdmOffset + p) = {p}
    BY DEF MemoryMapMapped
  <2> DEFINE b == e.base \div Unit
             n == p - b
             v == VPage(e, n)
  <2>1. step \in AfterCR3 /\ HasTree /\ machine \in Machines
    BY TreeAfterCR3 DEF KernelInv
  <2>2. PICK j \in 1 .. Len(memmap) : e = memmap[j]
    BY <2>1, MachineFacts DEF Range, memmap
  <2>3. EntryOK(e)
    BY <2>1, <2>2, MachineFacts DEF memmap
  <2>4. n \in 0 .. sizeInPages(e) - 1
    BY <2>3, LastPage
  <2>b. b \in Nat /\ p \in Int
    <3>1. b \in Nat
      BY <2>3, EntryBase
    <3>2. (e.base + e.length - 1) \div Unit \in Int
      BY <2>3, Layout DEF EntryOK
    <3> QED BY <3>1, <3>2
  <2>5. Holds(VPage(e, n), PPage(e, n))
    <3>1. step \notin {"start", "root"} /\ MapDone(j, n)
      BY <2>1 DEF MapDone, Steps, AfterCR3
    <3> QED BY <2>2, <2>4, <3>1 DEF KernelInv, EntriesMapped
  <2> HIDE DEF n, b
  <2>6. /\ PPage(e, n) = b + n
        /\ v = IF e.type = LIMINE_MEMMAP_KERNEL_AND_MODULES
               THEN mem_kVirtOffset + n ELSE hhdmOffset + b + n
        /\ v \in hhdmOffset .. VSpace - 1
    BY <2>3, <2>4, EntryPages DEF b
  <2>7. v \in 0 .. VSpace - 1
    BY <2>6, Layout
  <2>8. Translate(v) = {PPage(e, n)}
    BY <2>1, <2>5, <2>7, HoldsTranslates
  <2> HIDE DEF v
  <2>9. PPage(e, n) = p
    BY <2>b, <2>6 DEF n
  <2>10. v = IF e.type = LIMINE_MEMMAP_KERNEL_AND_MODULES
             THEN mem_kVirtOffset + p - b ELSE hhdmOffset + p
    BY <2>b, <2>6, Layout DEF n
  <2> QED BY <2>8, <2>9, <2>10 DEF b
<1> QED BY <1>1, KernelInvariant, PTL

\* What findTable reads is mapped at its own address however far the heap has
\* grown, and _start faults only on a machine whose RSDT or FADT goes on behind
\* the page that it maps.
THEOREM KernelAcpiReadable == BootSpec => []AcpiTablesReadable
<1>1. KernelInv => AcpiTablesReadable
  <2> SUFFICES ASSUME KernelInv
               PROVE  /\ /\ step \in {"signature", "facp"} /\ status = "ready"
                         /\ i <= Len(machine.acpi)
                         =>
                           \A p \in {machine.rsdt, machine.acpi[i].page} : Translate(p) = {p}
                      /\ status = "fault" => \/ i > machine.perPage
                                             \/ machine.acpi[i].fields # machine.acpi[i].page
    BY DEF AcpiTablesReadable
  <2>1. ASSUME step \in {"signature", "facp"}, status = "ready", i <= Len(machine.acpi),
               NEW p \in {machine.rsdt, machine.acpi[i].page}
        PROVE  Translate(p) = {p}
    <3>1. HasTree /\ machine \in Machines
      BY <2>1, Before DEF KernelInv
    <3>2. Holds(p, p) /\ i \in 1 .. Len(machine.acpi)
      <4>1. i \in Nat \ {0} /\ Len(machine.acpi) \in Nat
        BY <3>1, MachineFacts DEF KernelInv
      <4> QED BY <2>1, <4>1 DEF KernelInv, AcpiMapped
    <3>3. p \in 0 .. VSpace - 1
      BY <2>1, <3>1, <3>2, MachineFacts, Layout, SMTT(30)
    <3> QED BY <3>1, <3>2, <3>3, HoldsTranslates
  <2> QED BY <2>1 DEF KernelInv, AcpiMapped
<1> QED BY <1>1, KernelInvariant, PTL

-----------------------------------------------------------------------------
(* The tables themselves.  After CR3 is loaded they are reached through the *)
(* mapping of the first 16 MiB, less the pages the heap has taken.          *)

HeapNow == HeapStart .. HeapStart + pageIdx - 1

IdentityMapped ==
  /\ step = "identity" => \A p \in 0 .. pageIdx - 1 : Holds(p, p)
  /\ step \in AfterCR3 => \A p \in (0 .. IdentityPages - 1) \ HeapNow : Holds(p, p)

\* All tables lie in the first 16 MiB and the heap has not grown over one.
TablesLow == DOMAIN tables \subseteq (0 .. IdentityPages - 1) \ HeapNow

\* Steps that change no mapping, nor the pages counted.
LEMMA IdentitySame ==
  ASSUME IdentityMapped, UNCHANGED <<mapped, pageIdx>>,
         step' = step \/ (step \in AfterCR3 /\ step' \in AfterCR3)
  PROVE  IdentityMapped'
BY DEF IdentityMapped, HeapNow, Holds, AfterCR3

\* The first 16 MiB get their mapping page by page, and only the heap replaces it.
LEMMA IdentityStep ==
  ASSUME KernelInv, IdentityMapped, BootNext
  PROVE  IdentityMapped'
<1>1. CASE Start \/ StartRoot \/ MapEntryPage
  <2>1. step' \in {"start", "root", "entries"}
    BY <1>1 DEF Start, StartRoot, MapEntryPage, Stop
  <2> QED BY <2>1 DEF IdentityMapped, AfterCR3
<1>2. CASE NextEntry
  <2>1. step' \in {"entries", "identity"} /\ pageIdx' = 0
    BY <1>2 DEF NextEntry
  <2> QED BY <2>1 DEF IdentityMapped, AfterCR3
<1>3. CASE MapIdentityPage
  <2>1. /\ step = "identity" /\ step' = step /\ NextPage /\ pageIdx \in Nat
        /\ pageIdx < IdentityPages /\ machine' = machine
        /\ PageTable_MapMemory(granted, pageIdx, pageIdx)
    BY <1>3 DEF MapIdentityPage, KernelInv
  <2>2. step \in Steps \ {"start", "root", "entries"} /\ step \notin AfterCR3
    BY <2>1 DEF Steps, AfterCR3
  <2>3. pageIdx \in 0 .. hhdmOffset - 1
    BY <2>1, Layout
  <2>4. granted \subseteq granted /\ granted \subseteq free0
    BY <2>1, Before DEF HasTree, PageTable_MapMemory
  <2>5. \/ status' = "ready" /\ mapped' = Put(mapped, pageIdx, pageIdx)
        \/ status' = "out of memory" /\ mapped' = mapped
    BY <2>1, <2>2, <2>3, <2>4, MapLow
  <2>6. \A p \in 0 .. pageIdx - 1 : p \in DOMAIN mapped' /\ mapped'[p] = p
    BY <2>1, <2>5 DEF IdentityMapped, Holds, Put
  <2>7. CASE status' = "ready"
    <3>1. pageIdx' = pageIdx + 1 /\ pageIdx \in DOMAIN mapped' /\ mapped'[pageIdx] = pageIdx
      BY <2>1, <2>5, <2>7 DEF NextPage, Put
    <3>2. \A p \in 0 .. pageIdx' - 1 : p \in 0 .. pageIdx - 1 \/ p = pageIdx
      BY <2>1, <3>1
    <3>3. \A p \in 0 .. pageIdx' - 1 : p \in DOMAIN mapped' /\ mapped'[p] = p
      BY <2>6, <3>1, <3>2
    <3> QED BY <2>1, <2>2, <3>3 DEF IdentityMapped, Holds
  <2>8. CASE status' # "ready"
    <3>1. pageIdx' = pageIdx
      BY <2>1, <2>8 DEF NextPage
    <3> QED BY <2>1, <2>2, <2>6, <3>1 DEF IdentityMapped, Holds
  <2> QED BY <2>7, <2>8
<1>4. CASE LoadCR3
  <2>1. /\ step = "identity" /\ step' = "heap" /\ pageIdx \in Nat
        /\ pageIdx >= IdentityPages /\ mapped' = mapped
    BY <1>4 DEF LoadCR3, KernelInv, vars
  <2>2. \A p \in 0 .. IdentityPages - 1 : p \in 0 .. pageIdx - 1
    BY <2>1, Layout
  <2>3. \A p \in 0 .. IdentityPages - 1 : p \in DOMAIN mapped' /\ mapped'[p] = p
    BY <2>1, <2>2 DEF IdentityMapped, Holds
  <2> QED BY <2>1, <2>3 DEF IdentityMapped, Holds
<1>5. CASE HeapPage
  <2> DEFINE f == requestPage(granted)
             v == HeapStart + pageIdx
  <2>1. /\ HeapGrows /\ status = "ready" /\ HasTree /\ pageIdx \in Nat
        /\ UNCHANGED <<machine, step>>
    BY <1>5, Before DEF HeapPage, KernelInv
  <2>2. step \in AfterCR3 /\ step # "identity"
        /\ pageIdx < HeapLimit /\ step \in Steps \ {"start", "root", "entries"}
    BY <2>1, Layout DEF HeapGrows, AfterCR3, Steps
  <2>3. CASE FreeFrames(granted) = {}
    <3>1. UNCHANGED <<mapped, pageIdx>>
      BY <1>5, <2>3 DEF HeapPage
    <3> QED BY <2>1, <3>1, IdentitySame
  <2>4. CASE FreeFrames(granted) # {}
    <3> DEFINE taken == granted \cup {f}
    <3>1. PageTable_MapMemory(taken, v, f) /\ NextPage
      BY <1>5, <2>4 DEF HeapPage
    <3>2. f \in free0 /\ f \in Nat
      <4>1. FreeFrames(granted) \in SUBSET Nat
        BY <2>1 DEF FreeFrames, HasTree
      <4>2. f \in FreeFrames(granted)
        BY <2>4, <4>1, LeastFrame DEF requestPage
      <4> QED BY <4>1, <4>2 DEF FreeFrames
    <3> HIDE DEF f
    <3>3. granted \subseteq taken /\ taken \subseteq free0
      BY <2>1, <3>2 DEF HasTree
    <3> HIDE DEF taken
    <3>4. v \in 0 .. hhdmOffset - 1
      BY <2>1, <2>2, Layout
    <3> HIDE DEF v
    <3>5. \/ status' = "ready" /\ mapped' = Put(mapped, v, f)
          \/ status' = "out of memory" /\ mapped' = mapped
      BY <2>1, <2>2, <3>1, <3>2, <3>3, <3>4, MapLow
    <3>6. CASE status' = "ready"
      <4>1. pageIdx' = pageIdx + 1 /\ mapped' = Put(mapped, v, f)
        BY <3>1, <3>5, <3>6 DEF NextPage
      <4>2. HeapNow' = HeapNow \cup {v}
        <5>1. HeapStart \in Nat
          BY Layout
        <5> QED BY <2>1, <4>1, <5>1 DEF HeapNow, v
      <4>3. \A p \in (0 .. IdentityPages - 1) \ HeapNow' : p \in DOMAIN mapped' /\ mapped'[p] = p
        BY <2>2, <4>1, <4>2 DEF IdentityMapped, Holds, Put
      <4> QED BY <2>1, <2>2, <4>3 DEF IdentityMapped, Holds
    <3>7. CASE status' # "ready"
      <4>1. UNCHANGED <<mapped, pageIdx>>
        BY <3>1, <3>5, <3>7 DEF NextPage
      <4> QED BY <2>1, <4>1, IdentitySame
    <3> QED BY <3>6, <3>7
  <2> QED BY <2>3, <2>4
<1>6. CASE HeapReady \/ CheckRSDP \/ TestSignature \/ EnableACPI
  <2>1. UNCHANGED <<mapped, pageIdx>> /\ step \in AfterCR3 /\ step' \in AfterCR3
    BY <1>6 DEF HeapReady, CheckRSDP, TestSignature, EnableACPI, Stop, vars, AfterCR3
  <2> QED BY <2>1, IdentitySame
<1>7. CASE MapRSDT \/ FindTable
  <2>1. /\ step \in AfterCR3 /\ step' \in AfterCR3 /\ step' # "identity"
        /\ UNCHANGED <<machine, pageIdx>> /\ machine \in Machines /\ i \in Nat \ {0}
    BY <1>7 DEF MapRSDT, FindTable, Stop, AfterCR3, KernelInv
  <2>2. \/ mapped' = mapped
        \/ \E v \in {machine.rsdt} \cup {machine.acpi[n].page : n \in 1 .. Len(machine.acpi)} :
             PageTable_MapMemory(granted, v, v)
    <3>1. CASE i \in 1 .. Len(machine.acpi)
      BY <1>7, <3>1 DEF MapRSDT, FindTable, Stop
    <3>2. CASE i \notin 1 .. Len(machine.acpi)
      <4>1. i > Len(machine.acpi)
        BY <2>1, <3>2, MachineFacts, SMTT(30)
      <4> QED BY <1>7, <4>1 DEF MapRSDT, FindTable, Stop, vars
    <3> QED BY <3>1, <3>2
  <2>3. CASE mapped' = mapped
    BY <2>1, <2>3, IdentitySame
  <2>4. ASSUME NEW v \in {machine.rsdt}
                         \cup {machine.acpi[n].page : n \in 1 .. Len(machine.acpi)},
               PageTable_MapMemory(granted, v, v)
        PROVE  IdentityMapped'
    <3>1. v \in 0 .. hhdmOffset - 1 /\ v \notin HeapStart .. HeapStart + HeapLimit - 1
      BY <2>1, MachineFacts
    <3>2. \A u : Holds(u, u) => Holds(u, u)'
      BY <2>1, <2>4, <3>1, MapFirmware
    <3> QED BY <2>1, <3>2 DEF IdentityMapped, HeapNow
  <2> QED BY <2>2, <2>3, <2>4
<1> QED BY <1>1, <1>2, <1>3, <1>4, <1>5, <1>6, <1>7 DEF BootNext

\* PageTable_MapMemory reaches every table through the new tables as long as
\* the tables lie in the first 16 MiB and the heap has not grown over one:
\* nothing else takes the identity mapping away.  The run kernel_map_grown shows
\* that the condition cannot be dropped.
THEOREM KernelTablesReachable == BootSpec => [](TablesLow => TablesReachable)
<1>1. BootInit => IdentityMapped
  BY DEF BootInit, IdentityMapped, AfterCR3
<1>2. KernelInv /\ IdentityMapped /\ [BootNext]_bootVars => IdentityMapped'
  <2>1. KernelInv /\ IdentityMapped /\ BootNext => IdentityMapped'
    BY IdentityStep
  <2>2. IdentityMapped /\ UNCHANGED bootVars => IdentityMapped'
    BY IdentitySame DEF bootVars, vars
  <2> QED BY <2>1, <2>2
<1>3. KernelInv /\ IdentityMapped => (TablesLow => TablesReachable)
  <2> SUFFICES ASSUME KernelInv, IdentityMapped, TablesLow, cr3, NEW t \in DOMAIN tables
               PROVE  Translate(t) = {t}
    BY DEF TablesReachable
  <2>1. step \in AfterCR3 /\ HasTree
    BY TreeAfterCR3 DEF KernelInv
  <2>2. Holds(t, t) /\ t \in 0 .. IdentityPages - 1
    BY <2>1 DEF TablesLow, IdentityMapped
  <2>3. t \in 0 .. VSpace - 1
    BY <2>2, Layout
  <2> QED BY <2>1, <2>2, <2>3, HoldsTranslates
<1> QED BY <1>1, <1>2, <1>3, KernelInvariant, PTL DEF BootSpec
===============================================================================
