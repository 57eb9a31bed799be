-------------------------------- MODULE Paging --------------------------------
(***************************************************************************)
(* The four-level page table of mem/paging.cpp and its root, which _start  *)
(* in kernel.cpp allocates.  A virtual page is its number, a physical page *)
(* the number of its frame, an entry what the code reads from and writes   *)
(* to it (module PageEntry has the bits).                                  *)
(***************************************************************************)
EXTENDS Integers, FiniteSets, FiniteSetsExt, Memory

CONSTANTS
  Fan,        \* 512: entries of a table
  Frames,     \* frames the page frame allocator may have
  VPages,     \* the virtual pages callers map
  PPages      \* the physical pages they map them to

ASSUME PagingAssumption ==
  /\ Fan \in Nat \ {0}
  /\ Frames \subseteq Nat /\ IsFiniteSet(Frames)
  /\ VPages \subseteq Nat
  /\ PPages \subseteq Nat

VARIABLES
  status,             \* "boot", "ready", or "out of memory"
  free0,              \* frames free before the first request
  granted,            \* frames requestPage has granted
  globalPageTable,    \* the frame of the root, the PML4
  tables,             \* frame of a table -> its entries
  mapped              \* history: virtual page -> physical page last mapped

vars == <<status, free0, granted, globalPageTable, tables, mapped>>

-----------------------------------------------------------------------------
Entry == [Present : BOOLEAN, Address : Nat]

\* A table after memset(table, 0, 0x1000).
Zeroed == [i \in 0 .. Fan - 1 |-> [Present |-> FALSE, Address |-> 0]]

\* A virtual page without its last n indexes: n times addr >>= 9.
Shifted(v, n) ==
  CASE n = 0 -> v
    [] n = 1 -> v \div Fan
    [] n = 2 -> (v \div Fan) \div Fan
    [] n = 3 -> ((v \div Fan) \div Fan) \div Fan

\* The indexes of a virtual page; the bits above the four of them are dropped.
PageMapIndexer_From_ShiftMissing(v) ==
  [P_i   |-> v % Fan,
   PT_i  |-> Shifted(v, 1) % Fan,
   PD_i  |-> Shifted(v, 2) % Fan,
   PDP_i |-> Shifted(v, 2) % Fan]

PageMapIndexer_From(v) ==
  [P_i   |-> v % Fan,
   PT_i  |-> Shifted(v, 1) % Fan,
   PD_i  |-> Shifted(v, 2) % Fan,
   PDP_i |-> Shifted(v, 3) % Fan]

\* The virtual pages that the four indexes tell apart.
VSpace == Fan * Fan * Fan * Fan

\* The first free frame, as mem_pageframeallocator_requestPage grants it.
FreeFrames(taken) == free0 \ taken

requestPage(taken) == Min(FreeFrames(taken))

\* One level down from the table w.at: the table behind entry i, which is
\* allocated, zeroed and linked when the entry is not present.
Descend_NotLinked(w, i) ==
  LET e == w.tables[w.at][i]
      f == requestPage(w.granted)
  IN  IF ~w.ok \/ e.Present
      THEN [w EXCEPT !.at = IF w.ok THEN e.Address ELSE w.at]
      ELSE IF FreeFrames(w.granted) = {}
      THEN [w EXCEPT !.ok = FALSE]
      ELSE [ok |-> TRUE, at |-> f, granted |-> w.granted \cup {f},
            tables |-> Put(w.tables, f, Zeroed)]

Descend(w, i) ==
  LET e == w.tables[w.at][i]
      f == requestPage(w.granted)
  IN  IF ~w.ok \/ e.Present
      THEN [w EXCEPT !.at = IF w.ok THEN e.Address ELSE w.at]
      ELSE IF FreeFrames(w.granted) = {}
      THEN [w EXCEPT !.ok = FALSE]
      ELSE [ok |-> TRUE, at |-> f, granted |-> w.granted \cup {f},
            tables |-> Put([w.tables EXCEPT
                              ![w.at][i] = [Present |-> TRUE, Address |-> f]],
                           f, Zeroed)]

-----------------------------------------------------------------------------
Init ==
  /\ status = "boot"
  /\ \E n \in 0 .. Cardinality(Frames) :
       free0 = {f \in Frames : Cardinality({g \in Frames : g <= f}) <= n}
  /\ granted = {}
  /\ globalPageTable = 0
  /\ tables = <<>>
  /\ mapped = <<>>

\* _start requests and clears the root.
RequestRoot_NotGranted ==
  /\ status = "boot"
  /\ FreeFrames(granted) # {}
  /\ status' = "ready"
  /\ globalPageTable' = requestPage(granted)
  /\ tables' = [t \in {globalPageTable'} |-> Zeroed]
  /\ UNCHANGED <<free0, granted, mapped>>

RequestRoot ==
  /\ status = "boot"
  /\ UNCHANGED <<free0, mapped>>
  /\ IF FreeFrames(granted) = {}
     THEN /\ status' = "out of memory"
          /\ UNCHANGED <<granted, globalPageTable, tables>>
     ELSE /\ status' = "ready"
          /\ globalPageTable' = requestPage(granted)
          /\ granted' = granted \cup {globalPageTable'}
          /\ tables' = [t \in {globalPageTable'} |-> Zeroed]

\* Three levels down, then the entry of the page.  requestPage may panic on
\* the way, after part of the tables has been linked.  The frames in taken
\* are gone when the call begins: granted, and phys if it is fresh.
PageTable_MapMemory(taken, virt, phys) ==
  LET indexer == PageMapIndexer_From(virt)
      root    == [ok |-> TRUE, at |-> globalPageTable, granted |-> taken,
                  tables |-> tables]
      w       == Descend(Descend(Descend(root, indexer.PDP_i),
                                 indexer.PD_i), indexer.PT_i)
  IN  /\ status = "ready"
      /\ granted' = w.granted
      /\ UNCHANGED <<free0, globalPageTable>>
      /\ IF w.ok
         THEN /\ tables' = [w.tables EXCEPT ![w.at][indexer.P_i] =
                              [Present |-> TRUE, Address |-> phys]]
              /\ mapped' = Put(mapped, virt % VSpace, phys)
              /\ UNCHANGED status
         ELSE /\ tables' = w.tables
              /\ status' = "out of memory"
              /\ UNCHANGED mapped

Next ==
  \/ RequestRoot
  \/ \E virt \in VPages, phys \in PPages :
       PageTable_MapMemory(granted, virt, phys)

Spec == Init /\ [][Next]_vars

-----------------------------------------------------------------------------
(* Properties.                                                             *)

\* What the processor makes of the tables: the set of physical pages, one or
\* none, it finds for a virtual page.
Below(S, v, n) ==
  LET i == Shifted(v, n) % Fan
  IN  {tables[t][i].Address : t \in {t \in S : tables[t][i].Present}}

Translate(v) ==
  Below(Below(Below(Below({globalPageTable}, v, 3), v, 2), v, 1), v, 0)

TypeOK ==
  /\ status \in {"boot", "ready", "out of memory"}
  /\ granted \subseteq free0 /\ free0 \subseteq Frames
  /\ globalPageTable \in Nat
  /\ DOMAIN tables \subseteq granted
  /\ \A t \in DOMAIN tables : tables[t] \in [0 .. Fan - 1 -> Entry]
  /\ mapped \in [DOMAIN mapped -> PPages]

\* Every page translates to what was last mapped there, and a page nobody
\* mapped does not translate: mapping one page disturbs no other.
TranslationIsLastMapping ==
  status # "boot" /\ tables # <<>> =>
    \A v \in 0 .. VSpace - 1 :
      Translate(v) = IF v \in DOMAIN mapped THEN {mapped[v]} ELSE {}

\* The frames of tables of each level, the root being on level 0.
Level(n) ==
  LET down(S) == UNION {{tables[t][i].Address : i \in {i \in 0 .. Fan - 1 :
                                                        tables[t][i].Present}} : t \in S}
      zero    == {globalPageTable}
  IN  CASE n = 0 -> zero
        [] n = 1 -> down(zero)
        [] n = 2 -> down(down(zero))
        [] n = 3 -> down(down(down(zero)))

\* No frame is wasted and no table is shared: the tables are the root and one
\* for each distinct prefix of a mapped page.
TablesAreMinimal ==
  status = "ready" =>
    /\ DOMAIN tables = granted
    /\ \A n \in 1 .. 3 :
         Cardinality(Level(n)) =
           Cardinality({Shifted(v, 4 - n) : v \in DOMAIN mapped})
    /\ DOMAIN tables = UNION {Level(n) : n \in 0 .. 3}
    /\ \A n, k \in 0 .. 3 : n # k => Level(n) \cap Level(k) = {}
===============================================================================
