------------------------------ MODULE BlockStore ------------------------------
(***************************************************************************)
(* What the heap promises its callers: malloc hands out blocks that lie    *)
(* apart, no call touches a block but the one it hands out or takes back,  *)
(* and the memory in use is that of the blocks.                            *)
(***************************************************************************)
EXTENDS Integers, Memory

CONSTANT Overhead   \* the header in front of each block

VARIABLES
  blocks,           \* address -> length
  used              \* what getUsedMem reports

Init == blocks = <<>> /\ used = 0

Apart(a, n, b) ==
  a + n <= b - Overhead \/ b + blocks[b] <= a - Overhead

Take ==
  \E a \in DOMAIN blocks' \ DOMAIN blocks :
    LET n == blocks'[a]
    IN  /\ \A b \in DOMAIN blocks : Apart(a, n, b)
        /\ blocks' = Put(blocks, a, n)
        /\ used' = used + n + Overhead

Give ==
  \E a \in DOMAIN blocks :
    /\ blocks' = [b \in DOMAIN blocks \ {a} |-> blocks[b]]
    /\ used' = used - blocks[a] - Overhead

Spec == Init /\ [][Take \/ Give]_<<blocks, used>>
===============================================================================
