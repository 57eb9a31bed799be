----------------------------- MODULE MCKernelMap -----------------------------
(* Memory maps of small machines: a page is two units.                     *)
EXTENDS KernelMap

E(base, length, type) == [base |-> base, length |-> length, type |-> type]

\* Low memory below a hole, main memory with the kernel at its end.
Plain == <<E(0, 2, "reserved"), E(2, 10, "usable"), E(12, 4, "reserved"),
           E(16, 72, "usable"), E(88, 6, "kernel")>>

\* The kernel first, a reserved entry that ends in the middle of a page, and
\* a device far above the memory.
Holes == <<E(0, 5, "reserved"), E(6, 4, "kernel"), E(10, 80, "usable"),
           E(96, 8, "usable"), E(512, 7, "device")>>

\* Memory that does not last for the tables, or not for the heap.
Tiny == <<E(0, 2, "reserved"), E(2, 14, "usable"), E(16, 2, "kernel")>>

Small == <<E(0, 2, "kernel"), E(2, 66, "usable")>>

\* Memory for a heap that fills the first 16 MiB.
Roomy == <<E(0, 2, "kernel"), E(2, 108, "usable")>>

\* Reserved entries that begin inside a page: one crosses into the next page
\* and loses it, one ends where it should, one shares a page with its neighbour.
Ragged == <<E(0, 2, "kernel"), E(2, 70, "usable"), E(73, 2, "reserved"),
            E(75, 1, "reserved"), E(77, 4, "reserved")>>

\* No usable memory, and usable memory that begins at address 0.
Unusable == <<E(0, 8, "reserved"), E(8, 4, "kernel")>>
AtZero == <<E(0, 40, "usable"), E(40, 4, "kernel"), E(44, 10, "usable")>>

Maps == {Plain, Holes, Tiny, Small, Roomy, Ragged, Unusable, AtZero}

\* ACPI tables in pages above the first 16 MiB.
T(sig, page, fields) == [sig |-> sig, page |-> page, fields |-> fields]

Found == <<T("APIC", 300, 300), T("FACP", 301, 301), T("HPET", 302, 302)>>
Absent == <<T("APIC", 300, 300)>>
Straddling == <<T("FACP", 310, 311)>>

Machine(map, found, perPage) ==
  [framebuffer |-> TRUE, response |-> TRUE, memmap |-> map, signature |-> TRUE,
   rsdt |-> 299, perPage |-> perPage, acpi |-> found]

\* Every memory map with the usual tables, and what else may be wrong.
All ==
  {Machine(m, Found, 8) : m \in Maps}
  \cup {Machine(Roomy, Absent, 8), Machine(Roomy, Straddling, 8), Machine(Roomy, Found, 2),
        Machine(Roomy, <<T("APIC", 305, 305), T("FACP", 306, 306)>>, 1)}
  \cup {[Machine(Plain, Found, 8) EXCEPT !.framebuffer = FALSE],
        [Machine(<<>>, Found, 8) EXCEPT !.response = FALSE],
        [Machine(Plain, Found, 8) EXCEPT !.signature = FALSE]}

\* Enough memory for the heap to leave the first 16 MiB; ACPI tables in low
\* memory.
Large ==
  {[Machine(<<E(0, 2, "kernel"), E(2, 110, "usable")>>, <<T("FACP", 30, 30)>>, 8)
      EXCEPT !.rsdt = 29]}
==============================================================================
