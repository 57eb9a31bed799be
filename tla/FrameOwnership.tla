---------------------------- MODULE FrameOwnership ----------------------------
(***************************************************************************)
(* What a physical memory manager promises, whatever its data structures:  *)
(* once it is open it owns a set of frames, a frame is either available or *)
(* held by one caller, and only an available frame can be granted.         *)
(***************************************************************************)
EXTENDS Naturals

CONSTANT Frame    \* every frame number there could be

VARIABLES
  open,           \* has the manager been given its memory
  avail,          \* frames that may be granted
  held            \* frames granted and not yet returned

vars == <<open, avail, held>>

Init == open = FALSE /\ avail = {} /\ held = {}

\* The manager is given its memory, once.
Open == /\ ~open
        /\ open' = TRUE
        /\ avail' \in SUBSET Frame
        /\ UNCHANGED held

\* Some available frames pass to a caller.
Grant == /\ open
         /\ \E S \in SUBSET avail : avail' = avail \ S /\ held' = held \cup S
         /\ UNCHANGED open

\* Some held frames come back.
Return == /\ open
          /\ \E S \in SUBSET held : avail' = avail \cup S /\ held' = held \ S
          /\ UNCHANGED open

Next == Open \/ Grant \/ Return

Spec == Init /\ [][Next]_vars
===============================================================================
