-------------------------------- MODULE Memory --------------------------------
(***************************************************************************)
(* Memory as a function from the addresses in use to what they hold.       *)
(***************************************************************************)

\* f with v at a, whether or not a was in use.
Put(f, a, v) == [x \in DOMAIN f \cup {a} |-> IF x = a THEN v ELSE f[x]]
===============================================================================
