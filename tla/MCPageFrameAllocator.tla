------------------------- MODULE MCPageFrameAllocator -------------------------
(***************************************************************************)
(* Small memory maps for PageFrameAllocator.  Frame 0 is never usable,     *)
(* usable entries do not overlap others: what Limine guarantees.           *)
(***************************************************************************)
EXTENDS PageFrameAllocator

E(b, n, t) == [base |-> b, pages |-> n, type |-> t]

\* One usable entry; two, the longer one last, or first with a hole that no
\* entry describes; a tie, with an end that is a multiple of eight; none.
SupportedMaps ==
  { << E(0, 1, 1), E(1, 6, 0) >>,
    << E(0, 1, 1), E(1, 2, 0), E(3, 2, 1), E(5, 4, 0), E(9, 5, 7) >>,
    << E(0, 2, 1), E(2, 4, 0), E(7, 2, 0), E(12, 2, 5) >>,
    << E(0, 1, 1), E(1, 3, 0), E(4, 1, 6), E(5, 3, 0) >>,
    << E(0, 3, 1), E(3, 2, 6) >> }

\* 2 GiB is four frames here: memory above it, and a device area below memory.
LargeMaps == { << E(0, 1, 1), E(1, 2, 0), E(3, 3, 1), E(6, 6, 0) >> }

\* Little memory and a device area far above it.
SparseMaps == { << E(0, 1, 1), E(1, 2, 0), E(3, 2, 6), E(40, 4, 1) >> }
===============================================================================
