--------------------------------- MODULE List ---------------------------------
(***************************************************************************)
(* The growable array of lib/list.h.  items is the block from malloc, a    *)
(* function on the indexes it has room for; what malloc leaves there is    *)
(* Garbage.                                                                *)
(***************************************************************************)
EXTENDS Integers, Sequences, SequencesExt

CONSTANTS
  Values,       \* what the list holds: numbers
  Capacities,   \* the capacities it is constructed with, 4 by default
  MaxLength,    \* bound: length of the list
  Garbage       \* contents of memory nobody has written

ASSUME ListAssumption ==
  /\ Values \subseteq Nat
  /\ Capacities \subseteq Nat \ {0}
  /\ MaxLength \in Nat

VARIABLES
  items, length, capacity,
  contents      \* history: the sequence the calls have built

listVars == <<items, length, capacity, contents>>

-----------------------------------------------------------------------------
malloc(n) == [k \in 0 .. n - 1 |-> Garbage]

\* 0 .. n - 1 in order, and nothing for n <= 0: the loops of the code.
Loop(n) == [k \in 1 .. n |-> k - 1]

Swap(a, j, k) == [a EXCEPT ![j] = a[k], ![k] = a[j]]

ListInit ==
  /\ capacity \in Capacities
  /\ items = malloc(capacity)
  /\ length = 0
  /\ contents = <<>>

\* A full list moves to a block of twice the size.
add(item) ==
  LET grown == IF length = capacity THEN 2 * capacity ELSE capacity
      room  == IF length = capacity
               THEN [k \in DOMAIN malloc(grown) |->
                       IF k < length THEN items[k] ELSE Garbage]
               ELSE items
  IN  /\ length < MaxLength
      /\ capacity' = grown
      /\ items' = [room EXCEPT ![length] = item]
      /\ length' = length + 1
      /\ contents' = Append(contents, item)

\* The items behind the index move up by one; the last one stays as well.
Removed_LoopTooShort(index) ==
  [k \in DOMAIN items |-> IF k \in index .. length - 3 THEN items[k + 1] ELSE items[k]]

Removed(index) ==
  [k \in DOMAIN items |-> IF k \in index .. length - 2 THEN items[k + 1] ELSE items[k]]

remove(index) ==
  IF index >= length
  THEN UNCHANGED listVars
  ELSE /\ items' = Removed(index)
       /\ length' = length - 1
       /\ contents' = RemoveAt(contents, index + 1)
       /\ UNCHANGED capacity

Places(item) == {k \in 0 .. length - 1 : items[k] = item}

\* u64 -1 stands for an item that is not there.
indexOf(item) == IF Places(item) = {} THEN -1 ELSE Min(Places(item))

removeItem(item) ==
  IF indexOf(item) = -1 THEN UNCHANGED listVars ELSE remove(indexOf(item))

clear ==
  /\ length' = 0
  /\ contents' = <<>>
  /\ UNCHANGED <<items, capacity>>

\* NULL, converted to a number, for an index behind the end.
get(index) == IF index >= length THEN 0 ELSE items[index]

set(index, item) ==
  IF index >= length
  THEN UNCHANGED listVars
  ELSE /\ items' = [items EXCEPT ![index] = item]
       /\ contents' = [contents EXCEPT ![index + 1] = item]
       /\ UNCHANGED <<length, capacity>>

\* Bubble sort: in round i the largest of the first length - i items rises.
Rise(a, i) ==
  FoldLeft(LAMBDA b, j : IF b[j] > b[j + 1] THEN Swap(b, j, j + 1) ELSE b,
           a, Loop(length - i - 1))

sort ==
  /\ items' = FoldLeft(Rise, items, Loop(length))
  /\ contents' = SortSeq(contents, <)
  /\ UNCHANGED <<length, capacity>>

reverse ==
  /\ items' = FoldLeft(LAMBDA a, k : Swap(a, k, length - k - 1),
                       items, Loop(length \div 2))
  /\ contents' = Reverse(contents)
  /\ UNCHANGED <<length, capacity>>

ListNext ==
  \/ \E item \in Values : add(item) \/ removeItem(item)
  \/ \E index \in 0 .. MaxLength : remove(index)
  \/ \E index \in 0 .. MaxLength, item \in Values : set(index, item)
  \/ clear
  \/ sort
  \/ reverse

ListSpec == ListInit /\ [][ListNext]_listVars

-----------------------------------------------------------------------------
\* The block is the sequence the calls have built: nothing is lost when it
\* moves, shifts close every gap, sorting and reversing keep every item, and
\* stale items behind the end are never read.
ListIsSequence ==
  /\ length = Len(contents)
  /\ \A k \in 0 .. MaxLength :
       get(k) = IF k < Len(contents) THEN contents[k + 1] ELSE 0
===============================================================================
