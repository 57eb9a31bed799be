# A TLA+ verification of the okeOS kernel

okeOS is a small x86_64 kernel in C++, booted by Limine. One thread of control
runs `_start` (`src/kernel/kernel.cpp`) from the hand-over by the boot loader to
the final halt. It never enables interrupts, never loads its interrupt table
and never starts a second processor. Nothing is persisted. What can go wrong is
therefore not a race but a *sequence*: an order of allocations, frees and
mappings that leaves a link, a counter or a translation wrong, memory that ends
in the middle of an operation, arithmetic at an edge, or a loop that does not
end.

This directory holds TLA+ modules translated from the source, TLC
configurations that check them on small instances, and TLAPS proofs, for every
size, of most safety properties of the page frame allocator, the heap, paging,
the kernel's address space, the logger, the clock and the interrupt entry code.
`PROJECT.json` lists components, runs, mutants, the map
from definitions to source lines, findings, hazards and theorems.

## 1. Inventory

| part | state | operations | hard behaviours |
|---|---|---|---|
| page frame allocator (`mem/pageframeallocator.cpp`) | bitmap, scan hint `bitmapIdx`, `mem_freeMemory`, `mem_usedMemory` | init, requestPage, lockPage(s), lockPage(s)NonAvailable, freePage(s) | stale hint, counters that wrap, clear bits behind the end of memory, an `int` index that overflows, a bitmap larger than its place |
| bitmap (`lib/bitmap.cpp`) | bytes | get, set | bit order, the offset just behind the end |
| paging (`mem/paging.cpp`) | tree of tables in frames | PageTable_MapMemory, entry setters and getters | tables allocated on demand, out of memory half-way, flags and address in one word |
| kernel address space (`kernel.cpp`, `mem/heap.cpp`) | the above, CR3, heap end | map the memory map, identity-map 16 MiB, load CR3, map heap pages | tables are reached through the identity map that the heap replaces |
| heap (`mem/heap.cpp`) | chain of `HeapSegHdr`, `LastHdr`, `heapEnd` | initHeap, malloc, free, sfree, expandHeap, split, combineForward/Backward | links after split and merge, recursion of malloc, growth, fragmentation |
| console (`debug.cpp`, `terminal/terminal.cpp`, `graphics/framebuffer.cpp`, `panic.cpp`) | escape flags, colour, cursor, points | kprintf and variants, writechar, drawChar, panic | escape state shared by all calls, a panic between calls, loops over a string, wrap and clear, glyphs drawn beside their position |
| list (`lib/list.h`) | block, length, capacity | add, remove (two), clear, set, sort, reverse; get, indexOf, contains | growth, shifting, unsigned loop limits |
| string builder, logger (`lib/string.cpp`, `lib/logger.h`) | part array, output buffer | append, build, destroy; info, warn, error | ownership of blocks, missing terminator, freeing NULL |
| number conversion (`lib/string.cpp`) | – | itoa, uitoa | least negative number, base |
| PIT, Timer (`sched/`) | nanosecond counter, divisor | tick, sleep, setDivisor, setFrequency | two divisions that round down, two bytes sent to the chip one after the other, a tick between the test and `hlt`, `tick` has no caller |
| interrupts (`idt/`) | table, stack frame | setIdtEntry, 256 stubs, dispatch | error codes, saved registers, interrupts inside each other, one static message buffer; the table is never loaded |
| ACPI (`acpi/`) | table pointers | findTable, init | maps one page of each table, next to a heap that grows; a loop over tables |
| GDT/TSS, serial, memory primitives | constants, ports, bytes | – | none to explore, see section 6 |

Interactions: `_start` initialises the allocator from the memory map, then
requests the root table and maps everything through `PageTable_MapMemory`,
which requests frames for new tables. The heap requests frames and maps them,
at boot and on every expansion. List, string builder and logger live on the
heap. Every module ends in `panic` when `requestPage` finds no memory; the
models call that status "out of memory" and no step leaves it. This is why
their configurations do not check for deadlock.

## 2. Modules

**FrameOwnership** is the abstract specification of a physical memory manager:
it is opened once with a set of frames; a frame is available or held; only
available frames are granted, and only held frames come back.

**PageFrameAllocator** models `mem/pageframeallocator.cpp` and
`getMemoryArealSize`. `locked` is the set of set bits, `held` (a history
variable) the frames with callers. `mem_pageframeallocator_init`, `requestPage`,
`lockPages`, `lockPagesNonAvailable` and `freePages` are one action each; the
single-page functions are runs of length one. `ToLock` and `ToFree` are the
early returns for pages that are already locked or free. `wide` chooses how the
build treats the `int` overflow of `i * 4096` in `lockPages`, which is
undefined behaviour: compute in 64 bits, or wrap. `Supported(m)` names the maps
on which the allocator works: the bitmap fits in the longest usable entry, and
the `int` index does not wrap. **MCPageFrameAllocator** has the memory maps,
**PageFrameAllocatorProofs** the proofs (section 4, as for the other modules).

**Bitmap** models `lib/bitmap.cpp` on bytes with bitwise operators, with the
byte behind the buffer.

**PageEntry** models the setters and getters of `PageDirectoryEntry` on the bits
of a word whose widths are parameters.

**Paging** models `PageTable_MapMemory`. `tables` maps the frame of a table to
its entries. `Descend` is one of the three identical descents; `mapped` is a
history variable. `Translate` is the page walk of the processor, written
independently of `PageMapIndexer_From`.

**KernelMap** extends Paging with `_start`: its checks of what the boot loader
answered, one action for each round of the loops over entries and over the
first 16 MiB, the load of CR3, the page loops of `initHeap` and `expandHeap`,
and the search for the ACPI tables. The heap may grow wherever `_start` and
`ACPI::init` log, since every log call allocates; `findTable` itself does not log.
`Start` has the panics for a missing memory map and for a map without usable
memory, which `init` takes to be the case also when the longest usable entry
begins at address 0. `machine` is what differs between
machines: the memory map, which answers are missing, where the ACPI tables lie.
The allocator is represented by its result: the lowest free frame, until its
counter, which knows only the longest usable entry, says that memory is out.
Until CR3 is loaded the boot loader's identity map is in force. After it a table
is reached through the new tables; the model of `PageTable_MapMemory` is right
exactly as long as `TablesReachable` holds, which is the property checked. A
load from a page without translation ends in the status "fault".
**MCKernelMap** has the machines.

**Heap** models `mem/heap.cpp`. `seg` maps header addresses to headers, so the
chain, splitting and merging are literal. `malloc` is one step until it returns
or has grown the heap; its call of itself is the next step (`mallocAgain`).
`nullStore` records the store through a NULL `next` in `split`. An expansion for
which the frames do not last is `OutOfMemory`; the pages it has mapped by then
are not recorded, since the panic ends every use of the heap. **BlockStore** is
what callers see of it: disjoint blocks that are taken and given back, and the
number of bytes in use. `Store` is the refinement mapping; a split, a merge or
an expansion is a stuttering step, and `getUsedMem` is the abstract counter.

**Memory** has the one helper that Heap, BlockStore and Paging share: a function
with one more address in use.

**Console** models the loops of `_kprintf` and `__write` one character a step,
the escape flags, the colour, the cursor, the points `drawChar` and `clear`
write, and `panic`, which the code calls between calls that print and never
inside one. The frame buffer has a part behind its end, so that a write past it is seen. A point
holds the character it belongs to; the shape of a glyph is left out.
**MCConsole** has the formats and the lines of `panic`.

**List** models `lib/list.h`: a block of `capacity` cells and the sequence the
calls describe.

**Numbers** models `itoa` and `uitoa` on words of `Bits` bits, one action for the
loop that writes digits (a step a round) and one for the loop that turns them
around. The property reads the text back by a definition of its own.

**Logger** models `FastStringBuilder` and the calls `__internal_log` makes on it.
The heap is what BlockStore promises: `malloc` returns any address not in use.
Characters that `build` leaves unwritten are read as any number of stale ones.
Besides the scripts of log calls there are those of callers that use a builder
directly (`Direct`, built twice, and `Unread`, destroyed without a text).

**Clock** models `PIT` and a `Timer` around a sleep. A tick may come between any
two steps of the code, also between the test of the sleep and its `hlt`, and
between the two bytes sent to the chip. Two ticks do not come between the same
two steps unless the code waits: the shortest period the clamp of `setDivisor`
allows, 100 counts of the chip or 84 microseconds, is far longer than a test and
a `hlt` (`late` records a tick since the last step). Real time is a history
variable: the whole periods of the chip that have passed since a sleep began.

**Interrupts** models the table `initInts` fills and what happens once the
processor takes a vector through it: the pushes of the entry point and of the
stub, the dispatcher, the pops, the `iret`. The stack is a sequence of words
that know which field they are meant to be. Two things follow from the source
and shape the model. The stub passes no argument, so the dispatcher reads its
vector through whatever `rdi` holds, and may take any branch. And the `iret` is
assembled as the 32-bit form, so it faults. Properties therefore end at the
`iret`. The vectors with an error code are those of the basic architecture;
21, 29 and 30 have one only with processor features the kernel never enables.

**MCLib** puts List, Bitmap, PageEntry, Numbers, Paging, Logger, Clock and
Interrupts, which share nothing here, into one run. `Subjects` selects which of them a
configuration exercises; a behaviour exercises one.

Definitions whose names end in `_Something` right before a definition of the
same name are deliberate faults (`ToLock_Again` for `ToLock`). They are not part
of the model; each is substituted for its original to confirm that a property
notices.

## 3. Runs

| run | what it checks | bounds, and why they are enough |
|---|---|---|
| `pfa` | type and counters, only memory is handed out, the hint hides nothing, the scan never fails, refinement of FrameOwnership | five maps: one or two usable entries, the longer first or last, a tie, a hole, no memory; runs of up to two pages, so overlap occurs. A page has two bytes, so the bitmap takes a page and more. |
| `pfa_int_index` | violation: device memory stays unlocked above 2 GiB | 2 GiB is four frames |
| `pfa_sparse_map` | violation: the bitmap leaves the memory it is put in | a device area at frame 40 |
| `lib` | List: the block is the sequence the calls describe and no write leaves it. Bitmap: get reads what set wrote. PageEntry: flags and address do not disturb each other. Numbers: the text reads back as the number. Paging: translation is the last mapping; tables are neither shared nor leaked. Logger: every block taken is given back; the text begins with the parts. Clock: the chip runs by the divisor the clock computes with and not slower than asked; a sleep is as long as asked, but for two ticks. Interrupts: every gate leads to its entry point; the stack is a `CPUStatus` at the call and the interrupted state at the `iret`; the page fault text says what four bits of the error code say | capacities 1, 2 and 4 and up to five items, so zero to three growths; first, last and inner bits of two bytes, and rejected offsets; a nine-bit word with flags on both sides and addresses that exceed the field; all 6-bit numbers, the least negative one included, in the least and greatest base and those just outside; two entries a page table, so six pages share zero to three tables, and every number of free frames from none to ten, so memory ends at every level; builders of one and two parts with one part too many, built twice, on four heap addresses; five ticks, enough for a sleep of two periods with one tick missed, a byte of four values, frequencies below, at and above the limits; all 256 gates, address fields that are all used, interrupts of every kind inside each other |
| `kernel_map` | memory, kernel and heap stay mapped, heap frames are private, tables stay reachable, the ACPI tables are mapped when they are read, `_start` ends | fifteen machines, eight entries a table: holes, entries that begin or end inside a page, too little memory for tables or heap, no usable memory, missing answers, ACPI tables absent or straddling pages; the heap starts in the identity map and fills the rest of it, as 8 to 16 MiB does |
| `kernel_map_grown` | violation: the first heap page behind the identity map | one machine with a heap of two pages more |
| `heap` | tiling and links, merging, ownership, bounded waste, no fragments, recursion depth, zeroing, refinement of BlockStore with `getUsedMem` | sizes below, at and above a page's room and zero; up to three blocks; growth from one to four pages and out of memory. The header (7) is no multiple of the alignment (4), as 29 is none of 16. |
| `heap_tail_split` | violation: split of the last segment stores through NULL | |
| `console` | text on each channel, points on the screen, colours, every call returns, panic prints its message | all kinds of specifiers, three channel choices, a screen of three by two characters of four points, so wrap and clear happen in the middle of calls |
| `console_colour_argument` | violation: a colour in a `%s` argument hangs | |
| `logger_terminator` | violation: a log text goes on behind its last part | Logger alone |
| `page_fault_bits` | violation: error codes that differ in bit 3 or 5 give the same text | Interrupts alone |

**What the violations show.** Each is described, with the line it contradicts,
under `findings`. The index overflow and the bitmap that does not fit need large
or sparse machines; theorem `InitCommentsHold` shows that nothing else can break
these two comments. The NULL store of `split` happens at the first `malloc` of
every boot and hits mapped memory at address 20. The unreachable table needs a
heap of more than 8 MiB. The hang needs a `$` in a printed string, which no
present caller passes. The missing terminator shows only when the block of the
text held other characters before; `sfree`, which clears what the logger gives
back, makes that rare. The text of a page fault leaves out two of the bits that
the comment above it lists, although the code extracts them.

**The guard of the bitmap.** `Bitmap::get` and `set` accept the offset just
behind the last bit. The run leaves that offset out, because the only caller
never passes it: this is part of `TypeOK` of PageFrameAllocator and is proved
by theorem `TypeCorrect`.

**Limits of `kernel_map`.** `TablesReachable` holds on its machines because all
tables made at boot lie below the heap. A machine so large that its tables
reach 8 MiB (more than about 4 GiB of memory) is outside these bounds. The maps
have one entry of the type "kernel and modules", as `limine.cfg` loads no
module. Missing answers to the requests for the direct map, the kernel's address
and the RSDP are not among the machines: the code does not test for them. The
self tests of
`_start` behind `DBG_TESTPIT`, `DBG_TESTLOGGERMEMLEAK` and `DBG_TESTLISTS` are
off, as in the source: with `DBG_TESTPIT` the boot would not end, for nothing
calls `tick`.

**What `MemoryMapMapped` leaves out.** `_start` counts the pages of an entry from
its length. An entry that begins inside a page and reaches into one page more
than its length alone would need loses that page, unless another entry has it.
Limine aligns usable and kernel entries but not reserved ones, and nothing in
the repository says that those are mapped to the end, so the property exempts
this one page and the map `Ragged` has it.

**What `AcpiTablesReadable` says.** `findTable` maps one page of the RSDT and one
of each table. The model has tables that go on in the next page, and the
property states exactly when such a machine faults. Firmware may build such
tables; no line of the repository says it does not, so this is a condition and
not a finding.

**What the screen shows.** `drawChar` draws a glyph from nine points right of its
position to the left, so the last glyph of a line lands on the rows
below, and the last one of the screen ends behind the frame buffer.
`ScreenShowsText` states this as it is: no glyph overwrites another, and the
excess is at most the width of a glyph. It assumes that a row has no
hidden points (`width = pitch / 4`); otherwise `clear`, which counts in
`width`, leaves part of the screen.

**What the channels receive.** `Terminal::clear` sends the word "clear" to the
serial line. `PrintsItsText` removes it from what a call that also prints on the
terminal has sent, and claims the exact text otherwise. The formats have no
`%%`: a percent sign is tested first, so the `case '%'` of `_kprintf` is not
reached and nothing is printed for it. No caller uses it.

**Preconditions taken from the callers.** `lockPages` is
called for usable frames, no more than `mem_freeMemory` counts, `freePages` for
usable frames that the caller holds or that are free already, and
`lockPagesNonAvailable` for frames that are not usable; otherwise the unsigned
counters wrap or a frame gets a second holder. A List is made with room for at least
one item. All parts of a builder are set before `build`. No caller asks for
frequency 0. `Frequencies` has values below the least frequency that 16 bits can
express; `FrequencyHonoured` claims only the first half for them.

**Type invariants** are kept where a range is worth stating (PageFrameAllocator,
Heap, Paging). Elsewhere the invariants listed above imply what matters of them.

**Fairness.** Two specifications have it. Console assumes weak fairness of the
steps of a running call or panic, and KernelMap of `_start`: the kernel is the
only thread, interrupts are off, and the code has no wait in these paths except
for the serial line to accept a character. No fairness of `tick` is assumed, so
no sleep is claimed to end. That the recursion of `malloc` ends is an invariant,
`TwoExpansionsSuffice`.

**Deadlock** is checked for Console, whose `panic` ends in a loop of its own. In
the others the system may really stop: by `panic`, at the halt of `_start`, when
a conversion is done, or in a `hlt` that no tick ends.

## 4. Proofs

What the runs check on small instances is proved here for every value of the
constants that the assumptions admit. `HeapInv`, `LoggerInv` and `StackInv` were
checked by TLC on the instances of the runs before they were proved, and so was
all of `KernelInv` except the labelling of the page tables: that is quantified
over all functions, which TLC cannot enumerate.

| module | theorem | statement |
|---|---|---|
| PageFrameAllocatorProofs | `Invariance` | the inductive invariant `IInv` |
| | `TypeCorrect` | `TypeOK`: counters never go below zero, no bit outside the bitmap is touched |
| | `FramesHandedOutAreMemory` | `HeldFramesAreMemory` |
| | `ScanMissesNothing` | `NothingFreeBelowHint` |
| | `CountersTellTheTruth` | `CountersExact` |
| | `ScanNeverFails` | `OutOfMemoryOnlyByCounter` |
| | `InitCommentsHold` | `NonUsableLocked` and `BitmapInUsableMemory` |
| | `Refinement` | `ImplementsFrameOwnership` |
| HeapProofs | `HeapInvariant` | the inductive invariant `HeapInv` |
| | `HeapTypeCorrect`, `HeapTiled`, `HeapMerged`, `HeapBlocksOwned`, `HeapWasteBounded`, `HeapUnfragmented`, `HeapTwoExpansions`, `HeapZeroing` | all eight invariants of the run `heap` |
| | `HeapImplementsBlocks` | `ImplementsBlocks`: the heap refines BlockStore |
| PagingProofs | `PagingInvariant` | the inductive invariant `PagingInv` |
| | `PagingTypeCorrect`, `PagingTranslates`, `PagingMinimal` | `TypeOK`, `TranslationIsLastMapping`, `TablesAreMinimal` |
| KernelMapProofs | `KernelInvariant` | the inductive invariant `KernelInv` |
| | `KernelHeapPrivate`, `KernelMemoryMapped`, `KernelAcpiReadable` | `HeapFramesPrivate`, `MemoryMapMapped`, `AcpiTablesReadable` |
| | `KernelTablesReachable` | `TablesReachable` while `TablesLow` holds |
| LibProofs | `ClockInvariant`, `ClockFrequency`, `ClockSleep` | the inductive invariant `ClockInv`, `FrequencyHonoured`, `SleepAccurate` |
| | `InterruptGates` | `GatesReachHandlers` |
| | `LoggerReturnsBlocks` | `BlocksReturned` |
| InterruptsProofs | `InterruptFrame`, `InterruptRestored` | `FrameIsCPUStatus`, `InterruptedStateRestored` |

### Page frame allocator

For every memory map that satisfies the assumptions of PageFrameAllocator and
`Supported`, and for every page size, reserve and run length. The properties are
not inductive by themselves. `requestPage` takes the first clear bit from the
hint on, and the bitmap has clear bits behind the end of memory. That the bit it
finds is a usable frame needs three facts together: the free counter never
exceeds the number of clear usable bits (so one exists), all bits below the hint
are set (so it is found), and every clear bit below the end of memory is usable
(so nothing else is found first). `IInv` states them by
`held = (locked \cap UsableFrames) \ Reserved` and exact equations for both
counters. The argument about cardinalities uses the library's theorems on finite
sets. There is one lemma per action (`InitStep`, `RequestStep`, `LockStep`,
`LockNonAvailableStep`, `FreeStep`) and one for the refinement step
(`AbstractStep`).

### Heap

For every page, header and alignment size (the header no longer than a page, the
start of the heap on a page), every set of request sizes and every number of
frames. `SegmentsTile` says which bytes the segments cover; no step can be shown
to keep that without knowing the links. `HeapInv` therefore describes the chain
locally: `Chain` relates every header only to its two neighbours and to the last
header, and says that segments do not overlap. From it the tiling follows, by
going through the segments in the order of their addresses. `HeapChain` shows
that cutting a segment, joining two and appending one keep `Chain`, and that
`split`, `combineForward`, `combineBackward` and `expandHeap` are such changes.
`HeapUse` adds which segments are in use and what the walks of `malloc` and
`getUsedMem` compute, as recursive functions over the headers. The library's
induction rules cannot be applied here, so the induction along the chain is a
lemma about sets of headers (`ChainInduct`), proved from the least element of a
set of numbers. `Growing` is what the
recursion of `malloc` needs: after the first expansion the last segment is free
and short by at most a header, after the second it is long enough. The
refinement shows that a merge, a split of a free segment and a growth leave
`Blocks` and `getUsedMem` unchanged.

### Paging and the kernel's address space

For every number of entries in a table and every finite set of frames. The
invariant labels each table with its level and with the indexes that lead to it
read as one number (`Tree`): no label occurs twice, and every table but the root
is behind an entry of its parent. `Leaves` says that the last tables hold
`mapped` and nothing else, `Backed` that every table leads to a mapped page once
the call is over. A descent that allocates extends the labelling by one table.

`KernelMapProofs` uses the tree as it is. What is left is who maps which page,
and that nobody maps it again to something else. This needs the layout that
`KernelMapAssumption` states and the boot loader provides: the heap, the first
16 MiB and the ACPI tables lie below the direct map, the direct map of all
entries below the kernel, the kernel below the end of the address space; there
is one entry of the type "kernel and modules",
since `limine.cfg` loads no module and two would be mapped to the same
addresses; the ACPI tables lie outside the addresses of the heap. TLC evaluates
these assumptions on the machines of `kernel_map` and of `kernel_map_grown`.
Entries may begin anywhere: the page after a page of an entry is the next one,
whatever the offset (`EntryPages`), and the pages counted from the length reach
the last address except in the case `MemoryMapMapped` leaves out (`LastPage`).

`TablesReachable` is not true of every machine, as `kernel_map_grown` shows. What
is proved is that it can fail in one way only: a table above the first 16 MiB,
or a heap that has grown over one (`TablesLow` is false). In every state of
`kernel_map` after the load of CR3 `TablesLow` holds.

### Clock, logger and interrupts

*Clock*, for every base frequency that is not above a gigahertz, every frequency
asked for, every duration and any number of ticks. `ClockInv` has the divisor the
chip will have once the second byte arrives. For a sleeper it bounds at every
step of the loop how far the clock has passed the end of the sleep (`WaitInv`): a
sleeper in `hlt` has passed it by less than one tick, so the tick that was missed
costs no more than one. And it has an inequality between the periods waited for
and the time counted that both roundings respect (`TickCovers`). Products of variables are beyond linear arithmetic, so the
division facts are lemmas of their own.

*Logger*, for every text, builder size and set of heap addresses. `LoggerInv`
says of the rest of a script that it ends with the call that destroys the
builder and makes no second one, of the builder that its blocks are exactly
those in use, and that with a target other than NONE there is a text or a build
is still to come. `LogScript`, `DirectScript` and `UnreadScript` show that the
scripts begin this way.

*Interrupts*, for every address of the first entry point, all 256 vectors and
any depth. `StackInv` says what is on the stack at every place of the stub:
after the processor (`Entered`, with the error code or without), after the entry
point (`Framed(0)`), and after the pushes (`Saved` and `Framed(12)`).

### What is only model-checked

- The liveness properties `PrintReturns` and `BootEnds`: they use fairness.
- `ListIsSequence`, `BuildsConcatenation` and `PanicTextDecodes`: the fold behind
  `sort` and `reverse`, the concatenation of all parts and the fold over the
  pieces of the message need induction over sequences.
- `NumberReadsBack`: the value of a sequence of digits is a fold too.
- `ScreenShowsText`, `PrintsItsText` and `ColourIsLastEscape`: Console has a
  recursive operator for the text of a format, which keeps its whole module out
  of the prover's reach.
- `BitmapIsBitSet` and `EntryKeepsFlagsAndAddress`: they use the bitwise
  operators.
- `TablesReachable` without its condition, see above.

## 5. Plan

1. *Proofs.* List: no write outside the block, and all operations but `sort` and
   `reverse` agree with the sequence. Console: the cursor stays on the screen.
2. *Compositions.* KernelMap with PageFrameAllocator itself instead of its
   lowest free frame, and an abstract address space (a function from pages to
   frames) that Paging refines.

## 6. Not modelled

- GDT and TSS: constants stored once, with no behaviour to explore.
- Serial and port I/O: device access. The console treats the line as a sequence
  of characters; the wait of `write_serial` for the device is not modelled,
  because nothing in the code bounds it.
- Memory primitives (`memset`, `memcpy`, `memcmp`, `strlen`, `strncmp`): loops
  over bytes, used by their effect. The swapped arguments of the `memset` in
  `malloc` are respected: a block is not cleared.
- Code without a caller: `drawLine`, `drawHorizontalLine`, `drawString`,
  `doChecksum`, `checksumValidation`, `loadIDT`, `disablePIC`, `abs`.
- The wait for the ACPI enable bit: `inw(..) & 1 == 0` is `inw(..) & 0`, so the
  loop ends at once and has no behaviour. What the hardware does then is outside
  the code.
- The TLB: the code never invalidates it. After the load of CR3 low addresses
  are touched only to reach page tables, and `TablesReachable` says that the page
  of no table is remapped; that no other stale translation is used is not shown.
- `limine.h` is vendored. `kernel.map`, `a.txt` and the `*.out` files are build
  products or logs.
