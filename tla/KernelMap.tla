------------------------------ MODULE KernelMap ------------------------------
(***************************************************************************)
(* _start and the address space it builds: what it requires of the boot    *)
(* loader, the mapping of the memory map and of the first 16 MiB, the load *)
(* of CR3, the heap, whose pages replace part of the latter, and the       *)
(* search for the ACPI tables (acpi/acpi.cpp).  It composes Paging with    *)
(* the page frame allocator (the lowest free frame) and with the page      *)
(* loops of initHeap and expandHeap.  Before CR3 is loaded the kernel runs *)
(* on the tables of the boot loader, which map every frame at its own      *)
(* address; after that a pointer to a table, which is the address of its   *)
(* frame, goes through the new tables.                                     *)
(***************************************************************************)
EXTENDS Paging, Sequences

CONSTANTS
  Machines,       \* what the boot loader reports, see machine
  Unit,           \* 4096: units in a page
  hhdmOffset,     \* first virtual page of the direct map
  mem_kVirtOffset,\* first virtual page of the kernel
  IdentityPages,  \* 4096: pages in the first 16 MiB
  HeapStart,      \* 0x800: the page of 0x800000
  BitmapPages,    \* pages of the allocator's bitmap, 1 below 128 MiB
  OomFrames,      \* 4: requestPage panics below 16384 free bytes
  HeapPages,      \* 256: pages of the first heap, mb(1) / kb(4)
  HeapLimit       \* bound: pages the heap grows to

LIMINE_MEMMAP_USABLE == "usable"
LIMINE_MEMMAP_KERNEL_AND_MODULES == "kernel"

VARIABLES
  machine,        \* [framebuffer, response: has the loader given them,
                  \*  memmap: sequence of [base, length, type] in units,
                  \*  signature: is that of the RSDP right, rsdt: its page,
                  \*  perPage: the entries of the RSDT on that page,
                  \*  acpi: sequence of tables [sig, page, fields: the page of
                  \*        the last field that ACPI::init reads]]
  step,           \* what _start is doing
  i,              \* the entry, or the table, from 1
  pageIdx,        \* the next page of it, of the first 16 MiB or of the heap
  cr3             \* does the processor use globalPageTable

bootVars == <<vars, machine, step, i, pageIdx, cr3>>

memmap == machine.memmap

-----------------------------------------------------------------------------
sizeInPages_Truncated(entry) == entry.length \div Unit

sizeInPages(entry) ==
  entry.length \div Unit + (IF entry.length % Unit # 0 THEN 1 ELSE 0)

\* Where page n of an entry is, and where it is mapped.
physAddr(entry, n) == entry.base + n * Unit

virtAddr(entry, n) ==
  IF entry.type = LIMINE_MEMMAP_KERNEL_AND_MODULES
  THEN (mem_kVirtOffset + n) * Unit
  ELSE hhdmOffset * Unit + physAddr(entry, n)

\* From low to high: the first 16 MiB, the heap and the physical memory, the
\* direct map, the kernel.  One entry at most is the kernel, as no module is
\* loaded with it.  Entries may begin and end anywhere.  The firmware keeps its
\* tables away from the heap.
ASSUME KernelMapAssumption ==
  /\ Unit \in Nat \ {0}
  /\ {hhdmOffset, mem_kVirtOffset, IdentityPages, HeapStart, HeapPages, HeapLimit,
      BitmapPages, OomFrames} \subseteq Nat
  /\ HeapPages <= HeapLimit /\ HeapStart + HeapLimit <= hhdmOffset
  /\ IdentityPages <= hhdmOffset
  /\ hhdmOffset <= mem_kVirtOffset /\ mem_kVirtOffset <= VSpace
  /\ \A m \in Machines :
       /\ m.perPage \in Nat
       /\ \A p \in {m.rsdt} \cup {m.acpi[n].page : n \in 1 .. Len(m.acpi)} :
            p \in 0 .. hhdmOffset - 1 /\ p \notin HeapStart .. HeapStart + HeapLimit - 1
       /\ m.acpi \in Seq(Range(m.acpi)) /\ m.memmap \in Seq(Range(m.memmap))
       /\ \A n \in 1 .. Len(m.memmap) :
            LET e == m.memmap[n]
            IN  /\ e.base \in Nat /\ e.length \in Nat
                /\ IF e.type = LIMINE_MEMMAP_KERNEL_AND_MODULES
                   THEN /\ mem_kVirtOffset + sizeInPages(e) <= VSpace
                        /\ \A k \in 1 .. Len(m.memmap) : m.memmap[k].type = e.type => k = n
                   ELSE hhdmOffset + (e.base \div Unit) + sizeInPages(e) <= mem_kVirtOffset

\* The frames of a usable entry: init rounds down where _start rounds up.
PagesOf(entry) == {physAddr(entry, n) \div Unit : n \in 0 .. entry.length \div Unit - 1}

\* The longest usable entry, the first of them; it holds the bitmap.
Usable(m) == {n \in 1 .. Len(m) : m[n].type = LIMINE_MEMMAP_USABLE /\ m[n].length > 0}

largestFreeSegment(m) ==
  m[CHOOSE n \in Usable(m) : \A k \in Usable(m) :
      IF k < n THEN m[k].length < m[n].length ELSE m[k].length <= m[n].length]

\* The frames the allocator will grant: the lowest usable ones that do not
\* hold the bitmap, as many as its counter, which knows only the longest
\* usable entry, allows before requestPage panics.
FreeAtBoot(m) ==
  LET longest == largestFreeSegment(m)
      bitmap  == longest.base \div Unit .. longest.base \div Unit + BitmapPages - 1
      frames  == UNION {PagesOf(m[n]) : n \in Usable(m)} \ bitmap
      grants  == longest.length \div Unit - BitmapPages - OomFrames + 1
  IN  {f \in frames : Cardinality({g \in frames : g <= f}) <= grants}

BootInit ==
  /\ machine \in Machines
  /\ status = "boot"
  /\ free0 = {} /\ granted = {} /\ globalPageTable = 0
  /\ tables = <<>> /\ mapped = <<>>
  /\ step = "start" /\ i = 1 /\ pageIdx = 0 /\ cr3 = FALSE

\* _start ends: hcf, panic, or a page fault.
Stop(why) ==
  /\ status' = why
  /\ UNCHANGED <<free0, granted, globalPageTable, tables, mapped, machine, step, i, pageIdx, cr3>>

\* Without a frame buffer there is no way to complain.  A longest usable entry
\* at address 0 is taken for none.
Start ==
  /\ step = "start" /\ status = "boot"
  /\ IF ~machine.framebuffer THEN Stop("halted")
     ELSE IF \/ ~machine.response
             \/ Usable(memmap) = {}
             \/ largestFreeSegment(memmap).base = 0
     THEN Stop("panic")
     ELSE /\ step' = "root" /\ free0' = FreeAtBoot(memmap)
          /\ UNCHANGED <<status, granted, globalPageTable, tables, mapped,
                         machine, i, pageIdx, cr3>>

StartRoot ==
  /\ step = "root"
  /\ RequestRoot
  /\ step' = "entries"
  /\ UNCHANGED <<machine, i, pageIdx, cr3>>

\* The end of a round of a page loop, which a panic does not reach.
NextPage == pageIdx' = IF status' = "ready" THEN pageIdx + 1 ELSE pageIdx

\* One round of the inner loop over the pages of an entry.
MapEntryPage ==
  /\ step = "entries" /\ i <= Len(memmap)
  /\ pageIdx < sizeInPages(memmap[i])
  /\ PageTable_MapMemory(granted, virtAddr(memmap[i], pageIdx) \div Unit,
                         physAddr(memmap[i], pageIdx) \div Unit)
  /\ NextPage
  /\ UNCHANGED <<machine, step, i, cr3>>

\* The end of the inner loop, and of the outer one.
NextEntry ==
  /\ step = "entries" /\ status = "ready"
  /\ i <= Len(memmap) => pageIdx >= sizeInPages(memmap[i])
  /\ pageIdx' = 0
  /\ IF i <= Len(memmap)
     THEN i' = i + 1 /\ step' = step
     ELSE i' = i /\ step' = "identity"
  /\ UNCHANGED <<vars, machine, cr3>>

\* "Map first 16 mb", then load CR3.
MapIdentityPage_Stride ==
  /\ step = "identity" /\ pageIdx < IdentityPages
  /\ PageTable_MapMemory(granted, pageIdx, pageIdx)
  /\ pageIdx' = pageIdx + 2
  /\ UNCHANGED <<machine, step, i, cr3>>

MapIdentityPage ==
  /\ step = "identity" /\ pageIdx < IdentityPages
  /\ PageTable_MapMemory(granted, pageIdx, pageIdx)
  /\ NextPage
  /\ UNCHANGED <<machine, step, i, cr3>>

LoadCR3 ==
  /\ step = "identity" /\ status = "ready"
  /\ pageIdx >= IdentityPages
  /\ cr3' = TRUE /\ step' = "heap" /\ pageIdx' = 0
  /\ UNCHANGED <<vars, machine, i>>

\* The loop of initHeap, and later, where the kernel logs, expandHeap.
HeapGrows ==
  \/ step = "heap" /\ pageIdx < HeapPages
  \/ step \in {"rsdp", "rsdt", "facp"} /\ pageIdx < HeapLimit

\* One round of it: a fresh frame for the page at the end of the heap.
HeapPage_FrameNotTaken ==
  /\ HeapGrows /\ status = "ready"
  /\ IF FreeFrames(granted) = {}
     THEN /\ status' = "out of memory"
          /\ UNCHANGED <<free0, granted, globalPageTable, tables, mapped>>
     ELSE LET f == requestPage(granted)
          IN  PageTable_MapMemory(granted, HeapStart + pageIdx, f)
  /\ pageIdx' = pageIdx + 1
  /\ UNCHANGED <<machine, step, i, cr3>>

HeapPage ==
  /\ HeapGrows /\ status = "ready"
  /\ IF FreeFrames(granted) = {}
     THEN /\ status' = "out of memory"
          /\ UNCHANGED <<free0, granted, globalPageTable, tables, mapped, pageIdx>>
     ELSE LET f == requestPage(granted)
          IN  /\ PageTable_MapMemory(granted \cup {f}, HeapStart + pageIdx, f)
              /\ NextPage
  /\ UNCHANGED <<machine, step, i, cr3>>

HeapReady ==
  /\ step = "heap" /\ status = "ready" /\ pageIdx >= HeapPages
  /\ step' = "rsdp"
  /\ UNCHANGED <<vars, machine, i, pageIdx, cr3>>

-----------------------------------------------------------------------------
(* ACPI.  A read of a page that is not mapped faults.                      *)

CheckRSDP ==
  /\ step = "rsdp" /\ status = "ready"
  /\ IF ~machine.signature THEN Stop("panic")
     ELSE step' = "rsdt" /\ UNCHANGED <<vars, machine, i, pageIdx, cr3>>

\* ACPI::findTable, before its loop.
MapRSDT ==
  /\ step = "rsdt"
  /\ PageTable_MapMemory(granted, machine.rsdt, machine.rsdt)
  /\ step' = "tables" /\ i' = 1
  /\ UNCHANGED <<machine, pageIdx, cr3>>

\* The page of PointerToOtherSDT[i].
PointerPage == machine.rsdt + (IF i > machine.perPage THEN 1 ELSE 0)

\* A round of the loop, up to the test of the signature, or its end.
FindTable_MapsRSDT ==
  /\ step = "tables" /\ i <= Len(machine.acpi) /\ Translate(PointerPage) # {}
  /\ PageTable_MapMemory(granted, machine.rsdt, machine.acpi[i].page)
  /\ step' = "signature" /\ UNCHANGED <<machine, i, pageIdx, cr3>>

FindTable ==
  /\ step = "tables" /\ status = "ready"
  /\ IF i > Len(machine.acpi)
     THEN step' = "facp" /\ UNCHANGED <<vars, machine, i, pageIdx, cr3>>
     ELSE IF Translate(PointerPage) = {} THEN Stop("fault")
     ELSE /\ PageTable_MapMemory(granted, machine.acpi[i].page, machine.acpi[i].page)
          /\ step' = "signature" /\ UNCHANGED <<machine, i, pageIdx, cr3>>

TestSignature_Stuck ==
  /\ step = "signature" /\ status = "ready"
  /\ step' = IF machine.acpi[i].sig = "FACP" THEN "facp" ELSE "tables"
  /\ UNCHANGED <<vars, machine, i, pageIdx, cr3>>

TestSignature ==
  /\ step = "signature" /\ status = "ready"
  /\ IF machine.acpi[i].sig = "FACP"
     THEN step' = "facp" /\ i' = i
     ELSE step' = "tables" /\ i' = i + 1
  /\ UNCHANGED <<vars, machine, pageIdx, cr3>>

\* The rest of ACPI::init: the panic without a FACP, or a wait that ends at
\* once (& binds weaker than ==), and the rest of _start.
EnableACPI ==
  /\ step = "facp" /\ status = "ready"
  /\ Stop(IF i > Len(machine.acpi) THEN "panic"
          ELSE IF Translate(machine.acpi[i].fields) = {} THEN "fault" ELSE "halted")

BootNext ==
  \/ Start \/ StartRoot
  \/ MapEntryPage \/ NextEntry
  \/ MapIdentityPage \/ LoadCR3
  \/ HeapPage \/ HeapReady
  \/ CheckRSDP \/ MapRSDT \/ FindTable \/ TestSignature \/ EnableACPI

\* The processor runs _start until it ends.
BootSpec == BootInit /\ [][BootNext]_bootVars /\ WF_bootVars(BootNext)

-----------------------------------------------------------------------------
\* PageTable_MapMemory follows the frame numbers in the entries as pointers,
\* and panics with "mapping failure" unless the entry it wrote reads as
\* present.  The write reaches the table the processor uses only while every
\* table is mapped at its own address: the first 16 MiB must cover the tables
\* and the heap must not be put over one.
TablesReachable == cr3 => \A t \in DOMAIN tables : Translate(t) = {t}

\* The pages of the heap are backed by different frames, all of them free
\* when the allocator started, and none of them is a page table.
HeapFramesPrivate ==
  cr3 =>
    LET heap == {HeapStart + n : n \in 0 .. pageIdx - 1}
    IN  /\ \A p \in heap : Translate(p) \subseteq free0 \ DOMAIN tables
        /\ status = "ready" => \A p \in heap : Translate(p) # {}
        /\ \A p, q \in heap : p # q => Translate(p) \cap Translate(q) = {}

\* From CR3 on the pages of the memory map have their mappings, the kernel
\* entry at the address it is linked to and the others in the direct map,
\* however far the heap has grown.  The loop of _start rounds the length of an
\* entry and not its end: an entry that begins inside a page may lose the last
\* of its pages, but no other.
MemoryMapMapped ==
  cr3 => \A e \in Range(memmap) :
    LET first == e.base \div Unit
        last  == (e.base + e.length - 1) \div Unit
    IN  \A p \in first .. last :
          \/ e.length = 0
          \/ p = last /\ p # first /\ e.base % Unit # 0
          \/ Translate(IF e.type = LIMINE_MEMMAP_KERNEL_AND_MODULES
                       THEN mem_kVirtOffset + p - first
                       ELSE hhdmOffset + p) = {p}

\* ACPI::findTable reads what it means to read: the RSDT and the table it looks
\* at are mapped at their own addresses, and so is the FACP after the log call
\* that follows, however far the heap grows in it.  It maps one page of each, so
\* only a machine whose RSDT or FADT goes on behind its first page makes it
\* fault.
AcpiTablesReadable ==
  /\ step \in {"signature", "facp"} /\ status = "ready" /\ i <= Len(machine.acpi) =>
       \A p \in {machine.rsdt, machine.acpi[i].page} : Translate(p) = {p}
  /\ status = "fault" => \/ i > machine.perPage
                         \/ machine.acpi[i].fields # machine.acpi[i].page

\* _start comes to an end on every machine: all its loops do.
BootEnds == <>(status \in {"halted", "panic", "out of memory", "fault"})
==============================================================================
