----------------------------- MODULE PagingProofs -----------------------------
(***************************************************************************)
(* Proofs about the page tables, for every fan-out and every set of frames *)
(* and pages.  The argument: each table can be labelled with its level and *)
(* with the indexes that lead to it, read as one number; no label occurs   *)
(* twice, and every table but the root is behind an entry of its parent.   *)
(***************************************************************************)
EXTENDS Paging, FunctionTheorems, FiniteSetTheorems, WellFoundedInduction, TLAPS

-----------------------------------------------------------------------------
(* Numbers.                                                                *)

\* The scan of requestPage finds a free frame when there is one.
LEMMA LeastFrame ==
  ASSUME NEW S \in SUBSET Nat, S # {}
  PROVE  Min(S) \in S
<1>1. PICK x \in S : \A y \in S : ~ (<<y, x>> \in OpToRel(<, Nat))
  BY NatLessThanWellFounded, WFMin
<1>2. \A y \in S : ~ (y < x)
  BY <1>1, Zenon DEF OpToRel
<1>3. \A y \in S : x <= y
  BY <1>2
<1> QED BY <1>3 DEF Min

\* A number has one last index and one rest.
LEMMA OneSplit ==
  ASSUME NEW F \in Nat \ {0}, NEW a \in Nat, NEW b \in Nat,
         NEW x \in 0 .. F - 1, NEW y \in 0 .. F - 1, a * F + x = b * F + y
  PROVE  a = b /\ x = y
<1>1. ASSUME a < b PROVE FALSE
  <2>1. (a + 1) * F <= b * F
    BY <1>1
  <2> QED BY <2>1
<1>2. ASSUME b < a PROVE FALSE
  <2>1. (b + 1) * F <= a * F
    BY <1>2
  <2> QED BY <2>1
<1> QED BY <1>1, <1>2

\* What mask and shift take from a number, and that put together it is back.
LEMMA DivMod ==
  ASSUME NEW F \in Int, F > 0, NEW v \in Int
  PROVE  F * (v \div F) + (v % F) = v
OBVIOUS

\* A number and its quotient and remainder.
LEMMA SplitNumber ==
  ASSUME NEW F \in Nat \ {0}, NEW v \in Nat
  PROVE  /\ v \div F \in Nat /\ v % F \in 0 .. F - 1
         /\ v = (v \div F) * F + (v % F)
<1>1. v \div F \in Nat
  OBVIOUS
<1>2. v % F \in 0 .. F - 1
  OBVIOUS
<1>3. F * (v \div F) + (v % F) = v
  BY DivMod
<1> QED BY <1>1, <1>2, <1>3

\* And the other way round.
LEMMA JoinNumber ==
  ASSUME NEW F \in Nat \ {0}, NEW a \in Nat, NEW x \in 0 .. F - 1
  PROVE  (a * F + x) \div F = a /\ (a * F + x) % F = x
<1>1. (a * F + x) \div F = a
  OBVIOUS
<1>2. (a * F + x) % F = x
  OBVIOUS
<1> QED BY <1>1, <1>2

\* The indexes of a page, put together: the page without the bits above them.
\* Without its last index it is what the first three give, and so on.
LEMMA IndexFacts ==
  ASSUME NEW v \in Nat
  PROVE  LET m == v % VSpace
             x == PageMapIndexer_From(v)
         IN  /\ m \in 0 .. VSpace - 1
             /\ {x.P_i, x.PT_i, x.PD_i, x.PDP_i} \subseteq 0 .. Fan - 1
             /\ Shifted(m, 3) = x.PDP_i
             /\ Shifted(m, 2) = Shifted(m, 3) * Fan + x.PD_i
             /\ Shifted(m, 1) = Shifted(m, 2) * Fan + x.PT_i
             /\ m = Shifted(m, 1) * Fan + x.P_i
<1> DEFINE F == Fan
<1>0. F \in Nat \ {0}
  BY PagingAssumption
<1> DEFINE q1 == v \div F
           q2 == q1 \div F
           q3 == q2 \div F
           q4 == q3 \div F
           d0 == v % F
           d1 == q1 % F
           d2 == q2 % F
           d3 == q3 % F
           m2 == d3 * F + d2
           m1 == m2 * F + d1
           m0 == m1 * F + d0
           S == VSpace
<1>1. PageMapIndexer_From(v) = [P_i |-> d0, PT_i |-> d1, PD_i |-> d2, PDP_i |-> d3]
  BY DEF PageMapIndexer_From, Shifted
<1>2. q1 \in Nat /\ d0 \in 0 .. F - 1 /\ v = q1 * F + d0
  BY <1>0, SplitNumber
<1>3. q2 \in Nat /\ d1 \in 0 .. F - 1 /\ q1 = q2 * F + d1
  BY <1>0, <1>2, SplitNumber
<1>4. q3 \in Nat /\ d2 \in 0 .. F - 1 /\ q2 = q3 * F + d2
  BY <1>0, <1>3, SplitNumber
<1>5. q4 \in Nat /\ d3 \in 0 .. F - 1 /\ q3 = q4 * F + d3
  BY <1>0, <1>4, SplitNumber
<1>6. S = F * F * F * F
  BY DEF VSpace
<1> HIDE DEF F, q1, q2, q3, q4, d0, d1, d2, d3, S
<1>7. m2 \in Nat /\ m2 < F * F /\ q2 = q4 * (F * F) + m2
  <2>1. d3 * F <= (F - 1) * F
    BY <1>0, <1>5
  <2> QED BY <1>0, <1>4, <1>5, <2>1
<1> HIDE DEF m2
<1>8. m1 \in Nat /\ m1 < F * F * F /\ q1 = q4 * (F * F * F) + m1
  <2>1. m2 * F <= (F * F - 1) * F
    BY <1>0, <1>7
  <2>2. (q4 * (F * F) + m2) * F = q4 * (F * F * F) + m2 * F
    BY <1>0, <1>5, <1>7
  <2> QED BY <1>0, <1>3, <1>5, <1>7, <2>1, <2>2
<1>m1. m1 = m2 * F + d1
  OBVIOUS
<1> HIDE DEF m1
<1>9. m0 \in Nat /\ m0 < S /\ v = q4 * S + m0
  <2>1. m1 * F <= (F * F * F - 1) * F
    BY <1>0, <1>8
  <2>2. (q4 * (F * F * F) + m1) * F = q4 * (F * F * F * F) + m1 * F
    BY <1>0, <1>5, <1>8
  <2>3. (F * F * F - 1) * F = F * F * F * F - F
    BY <1>0
  <2> QED BY <1>0, <1>2, <1>5, <1>6, <1>8, <2>1, <2>2, <2>3
<1>m0. m0 = m1 * F + d0
  OBVIOUS
<1> HIDE DEF m0
<1>10. v % S = m0 /\ S \in Nat \ {0}
  <2>1. S \in Nat \ {0}
    BY <1>0, <1>6, <1>9
  <2>2. m0 \in 0 .. S - 1
    BY <1>9, <2>1
  <2>3. (q4 * S + m0) % S = m0
    BY <2>1, <2>2, <1>5, JoinNumber
  <2> QED BY <2>1, <2>3, <1>9
<1>11. m0 \div F = m1
  BY <1>0, <1>2, <1>8, <1>m0, JoinNumber
<1>12. m1 \div F = m2
  BY <1>0, <1>3, <1>7, <1>m1, JoinNumber
<1>13. m2 \div F = d3
  BY <1>0, <1>4, <1>5, JoinNumber DEF m2
<1>14. Shifted(m0, 1) = m1 /\ Shifted(m0, 2) = m2 /\ Shifted(m0, 3) = d3
  BY <1>11, <1>12, <1>13 DEF Shifted, F
<1>15. m2 = d3 * F + d2
  BY DEF m2
<1> QED
  <2>1. VSpace = S /\ F = Fan
    BY DEF S, F
  <2> QED BY <1>1, <1>2, <1>3, <1>4, <1>5, <1>9, <1>10, <1>14, <1>15, <1>m0, <1>m1, <2>1

-----------------------------------------------------------------------------
(* The tree of tables: lev and pre label each table with its level and     *)
(* with the number its indexes make.                                       *)

Index == 0 .. Fan - 1

Tables(tb) == \A t \in DOMAIN tb : tb[t] \in [Index -> Entry]

\* The entry of a child.
Links(tb, lev, t, i, u) ==
  lev[t] < 3 /\ tb[t][i].Present /\ tb[t][i].Address = u

Tree(tb, root, lev, pre) ==
  /\ root \in DOMAIN tb /\ lev[root] = 0 /\ pre[root] = 0
  /\ lev \in [DOMAIN tb -> 0 .. 3] /\ pre \in [DOMAIN tb -> Nat]
  /\ \A t, u \in DOMAIN tb : lev[t] = lev[u] /\ pre[t] = pre[u] => t = u
  /\ \A t \in DOMAIN tb, i \in Index : \A u :
       Links(tb, lev, t, i, u) =>
         /\ u \in DOMAIN tb
         /\ lev[u] = lev[t] + 1
         /\ pre[u] = pre[t] * Fan + i
  /\ \A u \in DOMAIN tb \ {root} :
       \E t \in DOMAIN tb, i \in Index : Links(tb, lev, t, i, u)

\* The last tables hold the mappings m and nothing else.
Leaves(tb, lev, pre, m) ==
  /\ \A t \in DOMAIN tb, i \in Index :
       lev[t] = 3 =>
         /\ tb[t][i].Present <=> pre[t] * Fan + i \in DOMAIN m
         /\ tb[t][i].Present => tb[t][i].Address = m[pre[t] * Fan + i]
  /\ \A v \in DOMAIN m :
       \E t \in DOMAIN tb, i \in Index : lev[t] = 3 /\ v = pre[t] * Fan + i

\* A walk that has come to the table with label n, p, or has run out of frames.
Walk(w, root, lev, pre, m, n, p) ==
  /\ w = [ok |-> w.ok, at |-> w.at, granted |-> w.granted, tables |-> w.tables]
  /\ w.ok \in BOOLEAN
  /\ Tables(w.tables) /\ DOMAIN w.tables \subseteq w.granted
  /\ Tree(w.tables, root, lev, pre) /\ Leaves(w.tables, lev, pre, m)
  /\ w.ok => w.at \in DOMAIN w.tables /\ lev[w.at] = n /\ pre[w.at] = p

\* What a step of it may add: one table, with label n, p, in a free frame.
Grown(w, lev, pre, x, lev2, pre2, n, p) ==
  /\ w.granted \subseteq x.granted /\ x.granted \subseteq w.granted \cup free0
  /\ x.granted \ w.granted = DOMAIN x.tables \ DOMAIN w.tables
  /\ DOMAIN w.tables \subseteq DOMAIN x.tables
  /\ \A t \in DOMAIN w.tables : lev2[t] = lev[t] /\ pre2[t] = pre[t]
  /\ \A t \in DOMAIN x.tables \ DOMAIN w.tables : lev2[t] = n /\ pre2[t] = p

\* No table has the label of a child that is not there.
LEMMA LabelFree ==
  ASSUME NEW tb, NEW root, NEW lev, NEW pre, Tree(tb, root, lev, pre),
         NEW t \in DOMAIN tb, NEW i \in Index, lev[t] < 3, ~tb[t][i].Present,
         NEW u \in DOMAIN tb
  PROVE  ~(lev[u] = lev[t] + 1 /\ pre[u] = pre[t] * Fan + i)
<1> SUFFICES ASSUME lev[u] = lev[t] + 1, pre[u] = pre[t] * Fan + i PROVE FALSE
  OBVIOUS
<1>1. Fan \in Nat \ {0} /\ lev[t] \in 0 .. 3 /\ pre[t] \in Nat
  BY PagingAssumption DEF Tree
<1>2. u # root
  BY <1>1 DEF Tree
<1>3. PICK s \in DOMAIN tb, j \in Index : Links(tb, lev, s, j, u)
  BY <1>2 DEF Tree
<1>4. lev[u] = lev[s] + 1 /\ pre[u] = pre[s] * Fan + j /\ lev[s] \in 0 .. 3 /\ pre[s] \in Nat
  BY <1>3 DEF Tree
<1>5. pre[s] = pre[t] /\ j = i
  <2>1. pre[s] * Fan + j = pre[t] * Fan + i
    BY <1>4
  <2>2. i \in 0 .. Fan - 1 /\ j \in 0 .. Fan - 1
    BY DEF Index
  <2> DEFINE a == pre[s]
             b == pre[t]
  <2>3. a \in Nat /\ b \in Nat /\ a * Fan + j = b * Fan + i
    BY <2>1, <1>1, <1>4
  <2> HIDE DEF a, b
  <2>4. a = b /\ j = i
    BY <2>2, <2>3, <1>1, OneSplit
  <2> QED BY <2>4 DEF a, b
<1>6. lev[s] = lev[t]
  BY <1>1, <1>4
<1>7. s = t
  BY <1>5, <1>6 DEF Tree
<1> QED BY <1>3, <1>5, <1>7 DEF Links

\* The tables with a new one, in f, behind entry i of at.
Linked(tb, at, i, f) ==
  Put([tb EXCEPT ![at][i] = [Present |-> TRUE, Address |-> f]], f, Zeroed)

\* A new table behind an entry that was not present: the labelling goes on.
LEMMA LinkTable ==
  ASSUME NEW tb, NEW root, NEW lev, NEW pre, NEW m,
         Tables(tb), Tree(tb, root, lev, pre), Leaves(tb, lev, pre, m),
         NEW at \in DOMAIN tb, NEW i \in Index, lev[at] < 3, ~tb[at][i].Present,
         NEW f \in Nat \ DOMAIN tb
  PROVE  LET tb2 == Linked(tb, at, i, f)
             lev2 == Put(lev, f, lev[at] + 1)
             pre2 == Put(pre, f, pre[at] * Fan + i)
         IN  /\ DOMAIN tb2 = DOMAIN tb \cup {f}
             /\ Tables(tb2) /\ Tree(tb2, root, lev2, pre2) /\ Leaves(tb2, lev2, pre2, m)
<1> DEFINE e == [Present |-> TRUE, Address |-> f]
           tb1 == [tb EXCEPT ![at][i] = e]
           tb2 == Put(tb1, f, Zeroed)
           n == lev[at] + 1
           p == pre[at] * Fan + i
           lev2 == Put(lev, f, n)
           pre2 == Put(pre, f, p)
<1>1. Fan \in Nat \ {0} /\ lev[at] \in 0 .. 3 /\ pre[at] \in Nat /\ n \in 1 .. 3 /\ p \in Nat
  <2>1. Fan \in Nat \ {0} /\ i \in Nat
    BY PagingAssumption DEF Index
  <2>2. lev[at] \in 0 .. 3 /\ pre[at] \in Nat
    BY DEF Tree
  <2>3. pre[at] * Fan \in Nat
    BY <2>1, <2>2
  <2>4. n \in 1 .. 3
    BY <2>2
  <2> QED BY <2>1, <2>2, <2>3, <2>4
<1>2. \A t \in DOMAIN tb : tb[t] \in [Index -> Entry]
  BY DEF Tables
<1>3. /\ DOMAIN tb2 = DOMAIN tb \cup {f}
      /\ tb2[f] = Zeroed
      /\ \A t \in DOMAIN tb : \A j \in Index :
           tb2[t][j] = IF t = at /\ j = i THEN e ELSE tb[t][j]
  BY <1>2 DEF Put
<1>4. \A j \in Index : ~tb2[f][j].Present
  <2>1. \A j \in Index : ~Zeroed[j].Present
    BY DEF Zeroed, Index
  <2> QED BY <2>1, <1>3
<1>5. DOMAIN lev = DOMAIN tb /\ DOMAIN pre = DOMAIN tb
  BY DEF Tree
<1>6. /\ DOMAIN lev2 = DOMAIN tb2 /\ lev2[f] = n
      /\ \A t \in DOMAIN tb : lev2[t] = lev[t]
  BY <1>3, <1>5 DEF Put
<1>7. /\ DOMAIN pre2 = DOMAIN tb2 /\ pre2[f] = p
      /\ \A t \in DOMAIN tb : pre2[t] = pre[t]
  BY <1>3, <1>5 DEF Put
<1>8. \A u \in DOMAIN tb : ~(lev[u] = n /\ pre[u] = p)
  BY LabelFree
<1>9. Tables(tb2)
  <2>1. e \in Entry /\ Zeroed \in [Index -> Entry]
    BY DEF Entry, Zeroed, Index
  <2>2. tb1 \in [DOMAIN tb -> [Index -> Entry]]
    <3>1. \A t \in DOMAIN tb : tb1[t] \in [Index -> Entry]
      BY <1>2, <2>1
    <3> QED BY <3>1
  <2> QED BY <2>1, <2>2 DEF Tables, Put
<1>10. lev2 \in [DOMAIN tb2 -> 0 .. 3] /\ pre2 \in [DOMAIN tb2 -> Nat]
  BY <1>1, <1>3, <1>5 DEF Put, Tree
<1> HIDE DEF tb2, tb1, lev2, pre2, n, p
<1>11. root \in DOMAIN tb2 /\ lev2[root] = 0 /\ pre2[root] = 0
  BY <1>3, <1>6, <1>7 DEF Tree
<1>12. \A t, u \in DOMAIN tb2 : lev2[t] = lev2[u] /\ pre2[t] = pre2[u] => t = u
  BY <1>3, <1>6, <1>7, <1>8 DEF Tree
<1>13. ASSUME NEW t \in DOMAIN tb2, NEW j \in Index, NEW u, Links(tb2, lev2, t, j, u)
       PROVE  u \in DOMAIN tb2 /\ lev2[u] = lev2[t] + 1 /\ pre2[u] = pre2[t] * Fan + j
  <2>1. t \in DOMAIN tb
    BY <1>3, <1>4, <1>13 DEF Links
  <2>2. CASE t = at /\ j = i
    BY <2>1, <2>2, <1>3, <1>6, <1>7, <1>13 DEF Links, n, p
  <2>3. CASE ~(t = at /\ j = i)
    <3>1. Links(tb, lev, t, j, u)
      BY <2>1, <2>3, <1>3, <1>6, <1>13 DEF Links
    <3>2. u \in DOMAIN tb /\ lev[u] = lev[t] + 1 /\ pre[u] = pre[t] * Fan + j
      BY <2>1, <3>1 DEF Tree
    <3> QED BY <2>1, <3>2, <1>3, <1>6, <1>7
  <2> QED BY <2>2, <2>3
<1>14. ASSUME NEW u \in DOMAIN tb2 \ {root}
       PROVE  \E t \in DOMAIN tb2, j \in Index : Links(tb2, lev2, t, j, u)
  <2>1. CASE u = f
    <3>1. Links(tb2, lev2, at, i, u)
      BY <2>1, <1>3, <1>6 DEF Links
    <3> QED BY <3>1, <1>3
  <2>2. CASE u # f
    <3>1. PICK t \in DOMAIN tb, j \in Index : Links(tb, lev, t, j, u)
      BY <2>2, <1>3 DEF Tree
    <3>2. Links(tb2, lev2, t, j, u)
      BY <3>1, <1>3, <1>6 DEF Links
    <3> QED BY <3>2, <1>3
  <2> QED BY <2>1, <2>2
<1>15. Tree(tb2, root, lev2, pre2)
  BY <1>10, <1>11, <1>12, <1>13, <1>14 DEF Tree
<1>16. ASSUME NEW t \in DOMAIN tb2, NEW j \in Index, lev2[t] = 3
       PROVE  /\ tb2[t][j].Present <=> pre2[t] * Fan + j \in DOMAIN m
              /\ tb2[t][j].Present => tb2[t][j].Address = m[pre2[t] * Fan + j]
  <2>1. CASE t = f
    <3>1. ASSUME p * Fan + j \in DOMAIN m PROVE FALSE
      <4>1. PICK s \in DOMAIN tb, k \in Index : lev[s] = 3 /\ p * Fan + j = pre[s] * Fan + k
        BY <3>1 DEF Leaves
      <4>2. pre[s] \in Nat /\ p \in Nat
        BY <1>1 DEF Tree
      <4>3. pre[s] = p
        BY <4>1, <4>2, <1>1, OneSplit DEF Index
      <4> QED BY <4>1, <4>3, <1>8, <1>6, <2>1, <1>16
    <3> QED BY <2>1, <3>1, <1>4, <1>7
  <2>2. CASE t # f
    <3>1. t \in DOMAIN tb /\ t # at
      BY <2>2, <1>1, <1>3, <1>6, <1>16
    <3>2. tb2[t][j] = tb[t][j] /\ lev[t] = 3 /\ pre2[t] = pre[t]
      BY <3>1, <1>3, <1>6, <1>7, <1>16
    <3> QED BY <3>1, <3>2 DEF Leaves
  <2> QED BY <2>1, <2>2
<1>17. ASSUME NEW v \in DOMAIN m
       PROVE  \E t \in DOMAIN tb2, j \in Index : lev2[t] = 3 /\ v = pre2[t] * Fan + j
  <2>1. PICK t \in DOMAIN tb, j \in Index : lev[t] = 3 /\ v = pre[t] * Fan + j
    BY DEF Leaves
  <2> QED BY <2>1, <1>3, <1>6, <1>7
<1>18. Leaves(tb2, lev2, pre2, m)
  BY <1>16, <1>17 DEF Leaves
<1> QED BY <1>3, <1>9, <1>15, <1>18 DEF Linked, tb2, tb1, lev2, pre2, n, p

\* One descent: the walk comes to the child, new or not, or is out of frames.
LEMMA DescendFacts ==
  ASSUME NEW w, NEW root, NEW lev, NEW pre, NEW m, NEW n \in 0 .. 2, NEW p \in Nat,
         NEW i \in Index, Walk(w, root, lev, pre, m, n, p), free0 \subseteq Nat,
         NEW n2, n2 = n + 1, NEW p2, p2 = p * Fan + i
  PROVE  \E lev2, pre2 :
           /\ Walk(Descend(w, i), root, lev2, pre2, m, n2, p2)
           /\ Grown(w, lev, pre, Descend(w, i), lev2, pre2, n2, p2)
<1> DEFINE x == Descend(w, i)
           e == w.tables[w.at][i]
           f == requestPage(w.granted)
<1>0. w.ok \in BOOLEAN
  BY DEF Walk
<1>1. CASE ~w.ok
  <2>1. x = [w EXCEPT !.at = w.at]
    BY <1>1 DEF Descend
  <2>2. x = w
    BY <2>1 DEF Walk
  <2>3. Walk(w, root, lev, pre, m, n2, p2)
    BY <1>1 DEF Walk
  <2>4. Grown(w, lev, pre, w, lev, pre, n2, p2)
    BY DEF Grown
  <2> QED BY <2>2, <2>3, <2>4
<1>2. CASE w.ok /\ e.Present
  <2>1. x = [w EXCEPT !.at = e.Address]
    BY <1>2 DEF Descend
  <2>2. x = [ok |-> w.ok, at |-> e.Address, granted |-> w.granted, tables |-> w.tables]
    BY <2>1 DEF Walk
  <2>3. /\ x.ok = w.ok /\ x.at = e.Address /\ x.granted = w.granted /\ x.tables = w.tables
        /\ x = [ok |-> x.ok, at |-> x.at, granted |-> x.granted, tables |-> x.tables]
    BY <2>2
  <2>4. w.at \in DOMAIN w.tables /\ lev[w.at] = n /\ pre[w.at] = p
    BY <1>2 DEF Walk
  <2>5. Links(w.tables, lev, w.at, i, e.Address)
    BY <2>4, <1>2 DEF Links
  <2>6. e.Address \in DOMAIN w.tables /\ lev[e.Address] = n2 /\ pre[e.Address] = p2
    BY <2>4, <2>5 DEF Walk, Tree
  <2> HIDE DEF x
  <2>7. Walk(x, root, lev, pre, m, n2, p2)
    BY <2>3, <2>6 DEF Walk
  <2>8. Grown(w, lev, pre, x, lev, pre, n2, p2)
    BY <2>3 DEF Grown
  <2> QED BY <2>7, <2>8 DEF x
<1>3. CASE w.ok /\ ~e.Present /\ FreeFrames(w.granted) = {}
  <2>1. x = [w EXCEPT !.ok = FALSE]
    BY <1>3 DEF Descend
  <2>2. x = [ok |-> FALSE, at |-> w.at, granted |-> w.granted, tables |-> w.tables]
    BY <2>1 DEF Walk
  <2>3. /\ ~x.ok /\ x.ok \in BOOLEAN /\ x.granted = w.granted /\ x.tables = w.tables
        /\ x = [ok |-> x.ok, at |-> x.at, granted |-> x.granted, tables |-> x.tables]
    BY <2>2
  <2> HIDE DEF x
  <2>4. Walk(x, root, lev, pre, m, n2, p2)
    BY <2>3 DEF Walk
  <2>5. Grown(w, lev, pre, x, lev, pre, n2, p2)
    BY <2>3 DEF Grown
  <2> QED BY <2>4, <2>5 DEF x
<1>4. CASE w.ok /\ ~e.Present /\ FreeFrames(w.granted) # {}
  <2> DEFINE tb2 == Linked(w.tables, w.at, i, f)
             lev2 == Put(lev, f, lev[w.at] + 1)
             pre2 == Put(pre, f, pre[w.at] * Fan + i)
  <2>1. x = [ok |-> TRUE, at |-> f, granted |-> w.granted \cup {f}, tables |-> tb2]
    BY <1>4 DEF Descend, Linked
  <2>2. /\ x.ok = TRUE /\ x.at = f /\ x.granted = w.granted \cup {f} /\ x.tables = tb2
        /\ x = [ok |-> x.ok, at |-> x.at, granted |-> x.granted, tables |-> x.tables]
    BY <2>1
  <2>3. w.at \in DOMAIN w.tables /\ lev[w.at] = n /\ pre[w.at] = p /\ lev[w.at] < 3
    BY <1>4 DEF Walk
  <2>4. f \in FreeFrames(w.granted)
    <3>1. FreeFrames(w.granted) \in SUBSET Nat
      BY DEF FreeFrames
    <3> QED BY <3>1, <1>4, LeastFrame DEF requestPage
  <2>5. f \in free0 /\ f \in Nat /\ f \notin w.granted /\ f \notin DOMAIN w.tables
    BY <2>4 DEF FreeFrames, Walk
  <2>6. /\ Tables(w.tables) /\ Tree(w.tables, root, lev, pre) /\ Leaves(w.tables, lev, pre, m)
        /\ DOMAIN w.tables \subseteq w.granted
    BY DEF Walk
  <2> HIDE DEF x, f
  <2>7. /\ DOMAIN tb2 = DOMAIN w.tables \cup {f}
        /\ Tables(tb2) /\ Tree(tb2, root, lev2, pre2) /\ Leaves(tb2, lev2, pre2, m)
    BY <2>3, <2>5, <2>6, <1>4, LinkTable
  <2>8. DOMAIN lev = DOMAIN w.tables /\ DOMAIN pre = DOMAIN w.tables
    BY <2>6 DEF Tree
  <2>9. /\ lev2[f] = n2 /\ pre2[f] = p2
        /\ \A t \in DOMAIN w.tables : lev2[t] = lev[t] /\ pre2[t] = pre[t]
    BY <2>3, <2>5, <2>8 DEF Put
  <2> HIDE DEF tb2, lev2, pre2
  <2>10. Walk(x, root, lev2, pre2, m, n2, p2)
    BY <2>2, <2>6, <2>7, <2>9 DEF Walk
  <2>11. Grown(w, lev, pre, x, lev2, pre2, n2, p2)
    BY <2>2, <2>5, <2>7, <2>9 DEF Grown
  <2> QED BY <2>10, <2>11 DEF x
<1> QED BY <1>0, <1>1, <1>2, <1>3, <1>4

\* The tables after the write of an entry of a last table.
Written(tb, at, i, phys) ==
  [tb EXCEPT ![at][i] = [Present |-> TRUE, Address |-> phys]]

\* The write of the entry of the page, new or not.
LEMMA WriteLeaf ==
  ASSUME NEW tb, NEW root, NEW lev, NEW pre, NEW m,
         Tables(tb), Tree(tb, root, lev, pre), Leaves(tb, lev, pre, m),
         NEW at \in DOMAIN tb, NEW i \in Index, lev[at] = 3, NEW phys \in Nat
  PROVE  LET tb2 == Written(tb, at, i, phys)
         IN  /\ DOMAIN tb2 = DOMAIN tb
             /\ Tables(tb2) /\ Tree(tb2, root, lev, pre)
             /\ Leaves(tb2, lev, pre, Put(m, pre[at] * Fan + i, phys))
<1> DEFINE e == [Present |-> TRUE, Address |-> phys]
           tb2 == [tb EXCEPT ![at][i] = e]
           v == pre[at] * Fan + i
           m2 == Put(m, v, phys)
<1>1. Fan \in Nat \ {0} /\ Index = 0 .. Fan - 1
  BY PagingAssumption DEF Index
<1>2. \A t \in DOMAIN tb : tb[t] \in [Index -> Entry] /\ lev[t] \in 0 .. 3 /\ pre[t] \in Nat
  BY DEF Tables, Tree
<1>3. /\ DOMAIN tb2 = DOMAIN tb
      /\ \A t \in DOMAIN tb : \A j \in Index :
           tb2[t][j] = IF t = at /\ j = i THEN e ELSE tb[t][j]
  BY <1>2
<1>4. Tables(tb2)
  <2>1. e \in Entry
    BY DEF Entry
  <2> QED BY <1>2, <2>1 DEF Tables
<1>5. /\ DOMAIN m2 = DOMAIN m \cup {v} /\ m2[v] = phys
      /\ \A u \in DOMAIN m : u # v => m2[u] = m[u]
  BY DEF Put
<1> HIDE DEF tb2, m2
<1>6. \A t \in DOMAIN tb, j \in Index : \A u : Links(tb2, lev, t, j, u) <=> Links(tb, lev, t, j, u)
  BY <1>3 DEF Links
<1>7. Tree(tb2, root, lev, pre)
  BY <1>3, <1>6 DEF Tree
<1>8. ASSUME NEW t \in DOMAIN tb, NEW j \in Index, lev[t] = 3
      PROVE  /\ tb2[t][j].Present <=> pre[t] * Fan + j \in DOMAIN m2
             /\ tb2[t][j].Present => tb2[t][j].Address = m2[pre[t] * Fan + j]
  <2>1. CASE t = at /\ j = i
    BY <2>1, <1>3, <1>5
  <2>2. CASE ~(t = at /\ j = i)
    <3> DEFINE a == pre[t]
               b == pre[at]
    <3>1. a \in Nat /\ b \in Nat
      BY <1>2
    <3>2. a = b => t = at
      BY <1>8 DEF Tree
    <3> HIDE DEF a, b
    <3>3. a * Fan + j # b * Fan + i
      BY <3>1, <3>2, <2>2, <1>1, OneSplit
    <3>4. pre[t] * Fan + j # v
      BY <3>3 DEF a, b
    <3>5. tb2[t][j] = tb[t][j]
      BY <2>2, <1>3
    <3> QED BY <3>4, <3>5, <1>5, <1>8 DEF Leaves
  <2> QED BY <2>1, <2>2
<1>9. ASSUME NEW u \in DOMAIN m2
      PROVE  \E t \in DOMAIN tb, j \in Index : lev[t] = 3 /\ u = pre[t] * Fan + j
  <2>1. CASE u = v
    BY <2>1
  <2>2. CASE u # v
    BY <2>2, <1>5 DEF Leaves
  <2> QED BY <2>1, <2>2
<1>10. Leaves(tb2, lev, pre, m2)
  BY <1>3, <1>8, <1>9 DEF Leaves
<1> QED BY <1>3, <1>4, <1>7, <1>10 DEF Written, tb2, m2

\* What PageTable_MapMemory does to the tree.
MapStep(taken, virt, lev, pre, lev2, pre2) ==
  /\ Tables(tables') /\ Tree(tables', globalPageTable', lev2, pre2)
  /\ Leaves(tables', lev2, pre2, mapped')
  /\ taken \subseteq granted' /\ granted' \subseteq taken \cup free0
  /\ granted' \ taken = DOMAIN tables' \ DOMAIN tables
  /\ DOMAIN tables \subseteq DOMAIN tables'
  /\ \A t \in DOMAIN tables : lev2[t] = lev[t] /\ pre2[t] = pre[t]
  /\ \A t \in DOMAIN tables' \ DOMAIN tables :
       lev2[t] \in 1 .. 3 /\ pre2[t] = Shifted(virt % VSpace, 4 - lev2[t])

\* Three descents and the write.
LEMMA MapFacts ==
  ASSUME NEW taken, NEW virt \in Nat, NEW phys \in Nat, NEW lev, NEW pre,
         Tables(tables), Tree(tables, globalPageTable, lev, pre),
         Leaves(tables, lev, pre, mapped),
         DOMAIN tables \subseteq taken, free0 \subseteq Nat,
         PageTable_MapMemory(taken, virt, phys)
  PROVE  \E lev2, pre2 : MapStep(taken, virt, lev, pre, lev2, pre2)
<1> DEFINE x == PageMapIndexer_From(virt)
           v == virt % VSpace
           g == globalPageTable
           w0 == [ok |-> TRUE, at |-> g, granted |-> taken, tables |-> tables]
           w1 == Descend(w0, x.PDP_i)
           w2 == Descend(w1, x.PD_i)
           w3 == Descend(w2, x.PT_i)
           p1 == Shifted(v, 3)
           p2 == Shifted(v, 2)
           p3 == Shifted(v, 1)
<1>1. Fan \in Nat \ {0} /\ Index = 0 .. Fan - 1
  BY PagingAssumption DEF Index
<1>i. x.P_i \in Index /\ x.PT_i \in Index /\ x.PD_i \in Index /\ x.PDP_i \in Index
  BY <1>1, IndexFacts
<1>2. /\ p1 = x.PDP_i /\ p2 = p1 * Fan + x.PD_i /\ p3 = p2 * Fan + x.PT_i
      /\ v = p3 * Fan + x.P_i
  BY <1>1, IndexFacts
<1>3. granted' = w3.granted /\ globalPageTable' = g
  BY DEF PageTable_MapMemory
<1>4. w3.ok => /\ tables' = Written(w3.tables, w3.at, x.P_i, phys)
               /\ mapped' = Put(mapped, v, phys)
  BY DEF PageTable_MapMemory, Written
<1>5. ~w3.ok => tables' = w3.tables /\ mapped' = mapped
  BY DEF PageTable_MapMemory
<1> HIDE DEF x, v, p1, p2, p3
<1>6. w0.ok = TRUE /\ w0.at = g /\ w0.granted = taken /\ w0.tables = tables
  OBVIOUS
<1>7. Walk(w0, g, lev, pre, mapped, 0, 0)
  BY DEF Walk, Tree
<1> HIDE DEF w0
<1>9. p1 \in Nat /\ p2 \in Nat /\ p3 \in Nat
  <2>0. \A a \in Nat, j \in Index : a * Fan + j \in Nat
    BY <1>1
  <2>1. p1 \in Nat
    BY <1>1, <1>2, <1>i
  <2>2. p2 \in Nat
    BY <1>2, <1>i, <2>0, <2>1
  <2>3. p3 \in Nat
    BY <1>2, <1>i, <2>0, <2>2
  <2> QED BY <2>1, <2>2, <2>3
<1>8. PICK lev1, pre1 : /\ Walk(w1, g, lev1, pre1, mapped, 1, p1)
                        /\ Grown(w0, lev, pre, w1, lev1, pre1, 1, p1)
  <2> DEFINE z == 0
             o == 1
  <2>1. /\ z \in 0 .. 2 /\ z \in Nat /\ o = z + 1 /\ p1 = z * Fan + x.PDP_i
        /\ Walk(w0, g, lev, pre, mapped, z, z)
    BY <1>1, <1>2, <1>i, <1>7
  <2> HIDE DEF z, o
  <2>2. \E lev1, pre1 : /\ Walk(w1, g, lev1, pre1, mapped, o, p1)
                        /\ Grown(w0, lev, pre, w1, lev1, pre1, o, p1)
    BY <2>1, <1>i, DescendFacts
  <2> QED BY <2>2 DEF o
<1> HIDE DEF w1
<1>10. PICK lev2, pre2 : /\ Walk(w2, g, lev2, pre2, mapped, 2, p2)
                         /\ Grown(w1, lev1, pre1, w2, lev2, pre2, 2, p2)
  <2> DEFINE o == 1
             t == 2
  <2>1. o \in 0 .. 2 /\ t = o + 1 /\ Walk(w1, g, lev1, pre1, mapped, o, p1)
    BY <1>8
  <2> HIDE DEF o, t
  <2>2. \E lev2, pre2 : /\ Walk(w2, g, lev2, pre2, mapped, t, p2)
                        /\ Grown(w1, lev1, pre1, w2, lev2, pre2, t, p2)
    BY <2>1, <1>2, <1>i, <1>9, DescendFacts
  <2> QED BY <2>2 DEF t
<1> HIDE DEF w2
<1>11. PICK lev3, pre3 : /\ Walk(w3, g, lev3, pre3, mapped, 3, p3)
                         /\ Grown(w2, lev2, pre2, w3, lev3, pre3, 3, p3)
  <2> DEFINE t == 2
             h == 3
  <2>1. t \in 0 .. 2 /\ h = t + 1 /\ Walk(w2, g, lev2, pre2, mapped, t, p2)
    BY <1>10
  <2> HIDE DEF t, h
  <2>2. \E lev3, pre3 : /\ Walk(w3, g, lev3, pre3, mapped, h, p3)
                        /\ Grown(w2, lev2, pre2, w3, lev3, pre3, h, p3)
    BY <2>1, <1>2, <1>i, <1>9, DescendFacts
  <2> QED BY <2>2 DEF h
<1> HIDE DEF w3
<1>12. /\ taken \subseteq w3.granted /\ w3.granted \subseteq taken \cup free0
       /\ DOMAIN tables \subseteq DOMAIN w3.tables
       /\ \A t \in DOMAIN tables : lev3[t] = lev[t] /\ pre3[t] = pre[t]
  BY <1>6, <1>8, <1>10, <1>11, SMTT(30) DEF Grown
<1>13. w3.granted \ taken = DOMAIN w3.tables \ DOMAIN tables
  <2>1. w1.granted \ taken = DOMAIN w1.tables \ DOMAIN tables
    BY <1>6, <1>8 DEF Grown
  <2>2. w2.granted \ w1.granted = DOMAIN w2.tables \ DOMAIN w1.tables
    BY <1>10 DEF Grown
  <2>3. w3.granted \ w2.granted = DOMAIN w3.tables \ DOMAIN w2.tables
    BY <1>11 DEF Grown
  <2>4. DOMAIN w1.tables \subseteq w1.granted /\ DOMAIN w2.tables \subseteq w2.granted
    BY <1>8, <1>10 DEF Walk
  <2>5. /\ taken \subseteq w1.granted /\ w1.granted \subseteq w2.granted /\ w2.granted \subseteq w3.granted
        /\ DOMAIN tables \subseteq DOMAIN w1.tables /\ DOMAIN w1.tables \subseteq DOMAIN w2.tables
        /\ DOMAIN w2.tables \subseteq DOMAIN w3.tables
    BY <1>6, <1>8, <1>10, <1>11 DEF Grown
  <2>6. \A a : a \in w3.granted \ taken <=> a \in DOMAIN w3.tables \ DOMAIN tables
    BY <2>1, <2>2, <2>3, <2>4, <2>5
  <2> QED BY <2>6
<1>14. ASSUME NEW t \in DOMAIN w3.tables \ DOMAIN tables
       PROVE  lev3[t] \in 1 .. 3 /\ pre3[t] = Shifted(v, 4 - lev3[t])
  <2>1. CASE t \in DOMAIN w1.tables
    <3>1. lev3[t] = 1 /\ pre3[t] = p1
      BY <2>1, <1>6, <1>8, <1>10, <1>11, SMTT(30) DEF Grown
    <3> QED BY <3>1 DEF p1
  <2>2. CASE t \in DOMAIN w2.tables \ DOMAIN w1.tables
    <3>1. lev3[t] = 2 /\ pre3[t] = p2
      BY <2>2, <1>10, <1>11 DEF Grown
    <3> QED BY <3>1, SMTT(30) DEF p2
  <2>3. CASE t \notin DOMAIN w2.tables
    <3>1. lev3[t] = 3 /\ pre3[t] = p3
      BY <2>3, <1>11 DEF Grown
    <3> QED BY <3>1 DEF p3
  <2> QED BY <2>1, <2>2, <2>3
<1>15. /\ Tables(w3.tables) /\ Tree(w3.tables, g, lev3, pre3) /\ w3.ok \in BOOLEAN
       /\ Leaves(w3.tables, lev3, pre3, mapped)
       /\ w3.ok => w3.at \in DOMAIN w3.tables /\ lev3[w3.at] = 3 /\ pre3[w3.at] = p3
  BY <1>11 DEF Walk
<1>16. /\ DOMAIN tables' = DOMAIN w3.tables
       /\ Tables(tables') /\ Tree(tables', g, lev3, pre3) /\ Leaves(tables', lev3, pre3, mapped')
  <2>1. CASE w3.ok
    <3> DEFINE tb2 == Written(w3.tables, w3.at, x.P_i, phys)
    <3>1. w3.at \in DOMAIN w3.tables /\ lev3[w3.at] = 3 /\ pre3[w3.at] = p3 /\ x.P_i \in Index
      BY <2>1, <1>i, <1>15
    <3>2. /\ DOMAIN tb2 = DOMAIN w3.tables
          /\ Tables(tb2) /\ Tree(tb2, g, lev3, pre3)
          /\ Leaves(tb2, lev3, pre3, Put(mapped, pre3[w3.at] * Fan + x.P_i, phys))
      BY <1>15, <3>1, WriteLeaf
    <3> QED BY <2>1, <3>1, <3>2, <1>2, <1>4
  <2>2. CASE ~w3.ok
    BY <2>2, <1>5, <1>15
  <2> QED BY <2>1, <2>2, <1>15
<1>17. MapStep(taken, virt, lev, pre, lev3, pre3)
  BY <1>3, <1>12, <1>13, <1>14, <1>16 DEF MapStep, v
<1> QED BY <1>17

-----------------------------------------------------------------------------
(* What the processor finds in such a tree.                                *)

\* The tables, one or none, with a label.
Labelled(lev, pre, n, p) == {t \in DOMAIN tables : lev[t] = n /\ pre[t] = p}

\* The root is the one table of level 0.
LEMMA RootLabelled ==
  ASSUME NEW lev, NEW pre, Tree(tables, globalPageTable, lev, pre)
  PROVE  Labelled(lev, pre, 0, 0) = {globalPageTable}
<1>1. ASSUME NEW t \in DOMAIN tables, lev[t] = 0, t # globalPageTable PROVE FALSE
  <2>1. PICK s \in DOMAIN tables, i \in Index : Links(tables, lev, s, i, t)
    BY <1>1 DEF Tree
  <2>2. lev[t] = lev[s] + 1 /\ lev[s] \in 0 .. 3
    BY <2>1 DEF Tree
  <2> QED BY <2>2, <1>1
<1> QED BY <1>1 DEF Labelled, Tree

\* One level of the page walk.
LEMMA BelowFacts ==
  ASSUME NEW lev, NEW pre, Tree(tables, globalPageTable, lev, pre),
         NEW n \in 0 .. 2, NEW p \in Nat, NEW v, NEW k, NEW n2, NEW p2,
         n2 = n + 1, Shifted(v, k) % Fan \in Index, p2 = p * Fan + (Shifted(v, k) % Fan)
  PROVE  Below(Labelled(lev, pre, n, p), v, k) = Labelled(lev, pre, n2, p2)
<1> DEFINE i == Shifted(v, k) % Fan
           S == Labelled(lev, pre, n, p)
<1>0. i \in Index /\ p2 = p * Fan + i /\ Fan \in Nat \ {0} /\ Index = 0 .. Fan - 1
  BY PagingAssumption DEF Index
<1>1. Below(S, v, k) = {tables[t][i].Address : t \in {t \in S : tables[t][i].Present}}
  BY DEF Below
<1> HIDE DEF i
<1>2. ASSUME NEW u \in Below(S, v, k) PROVE u \in Labelled(lev, pre, n2, p2)
  <2>1. PICK t \in S : tables[t][i].Present /\ u = tables[t][i].Address
    BY <1>1, <1>2
  <2>2. t \in DOMAIN tables /\ lev[t] = n /\ pre[t] = p
    BY <2>1 DEF Labelled
  <2>3. Links(tables, lev, t, i, u)
    BY <2>1, <2>2 DEF Links
  <2>4. u \in DOMAIN tables /\ lev[u] = lev[t] + 1 /\ pre[u] = pre[t] * Fan + i
    BY <2>2, <2>3, <1>0 DEF Tree
  <2> QED BY <2>2, <2>4, <1>0 DEF Labelled
<1>3. ASSUME NEW u \in Labelled(lev, pre, n2, p2) PROVE u \in Below(S, v, k)
  <2>1. u \in DOMAIN tables /\ lev[u] = n2 /\ pre[u] = p2
    BY <1>3 DEF Labelled
  <2>2. u # globalPageTable
    BY <2>1 DEF Tree
  <2>3. PICK t \in DOMAIN tables, j \in Index : Links(tables, lev, t, j, u)
    BY <2>1, <2>2 DEF Tree
  <2>4. lev[u] = lev[t] + 1 /\ pre[u] = pre[t] * Fan + j /\ lev[t] \in 0 .. 3 /\ pre[t] \in Nat
    BY <2>3 DEF Tree
  <2>5. lev[t] = n
    BY <2>1, <2>4
  <2>6. pre[t] = p /\ j = i
    <3> DEFINE a == pre[t]
    <3>1. a \in Nat /\ a * Fan + j = p * Fan + i
      BY <1>0, <2>1, <2>4
    <3> HIDE DEF a
    <3>2. a = p /\ j = i
      BY <3>1, <1>0, OneSplit
    <3> QED BY <3>2 DEF a
  <2>7. t \in S /\ tables[t][i].Present /\ u = tables[t][i].Address
    BY <2>3, <2>5, <2>6 DEF Links, Labelled
  <2> QED BY <2>7, <1>1
<1> QED BY <1>2, <1>3

\* The page walk finds the mapping, for the page without the bits above its
\* indexes.
LEMMA TranslateFacts ==
  ASSUME NEW lev, NEW pre, Tree(tables, globalPageTable, lev, pre),
         Leaves(tables, lev, pre, mapped), NEW v \in Nat
  PROVE  Translate(v) = IF v % VSpace \in DOMAIN mapped THEN {mapped[v % VSpace]} ELSE {}
<1> DEFINE x == PageMapIndexer_From(v)
           m == v % VSpace
           p1 == Shifted(m, 3)
           p2 == Shifted(m, 2)
           p3 == Shifted(m, 1)
           S0 == {globalPageTable}
           S1 == Below(S0, v, 3)
           S2 == Below(S1, v, 2)
           S3 == Below(S2, v, 1)
<1>1. Fan \in Nat \ {0} /\ Index = 0 .. Fan - 1
  BY PagingAssumption DEF Index
<1>2. x.P_i \in Index /\ x.PT_i \in Index /\ x.PD_i \in Index /\ x.PDP_i \in Index
  BY <1>1, IndexFacts
<1>3. /\ p1 = x.PDP_i /\ p2 = p1 * Fan + x.PD_i /\ p3 = p2 * Fan + x.PT_i
      /\ m = p3 * Fan + x.P_i
  BY <1>1, IndexFacts
<1>4. /\ Shifted(v, 3) % Fan = x.PDP_i /\ Shifted(v, 2) % Fan = x.PD_i
      /\ Shifted(v, 1) % Fan = x.PT_i /\ Shifted(v, 0) % Fan = x.P_i
  BY DEF PageMapIndexer_From, Shifted
<1> HIDE DEF x, m, p1, p2, p3
<1>5. p1 \in Nat /\ p2 \in Nat /\ p3 \in Nat
  <2>0. \A a \in Nat, j \in Index : a * Fan + j \in Nat
    BY <1>1
  <2>1. p1 \in Nat
    BY <1>1, <1>2, <1>3
  <2>2. p2 \in Nat
    BY <1>2, <1>3, <2>0, <2>1
  <2>3. p3 \in Nat
    BY <1>2, <1>3, <2>0, <2>2
  <2> QED BY <2>1, <2>2, <2>3
<1>6. S1 = Labelled(lev, pre, 1, p1)
  <2> DEFINE z == 0
             o == 1
             k == 3
  <2>a. S0 = Labelled(lev, pre, 0, 0)
    BY RootLabelled
  <2>b. p1 = 0 * Fan + p1
    BY <1>1, <1>5
  <2>1. /\ z \in 0 .. 2 /\ z \in Nat /\ o = z + 1 /\ p1 = z * Fan + (Shifted(v, k) % Fan)
        /\ Shifted(v, k) % Fan \in Index /\ S0 = Labelled(lev, pre, z, z)
    BY <1>2, <1>3, <1>4, <2>a, <2>b
  <2> HIDE DEF z, o, k, S0
  <2>2. Below(S0, v, k) = Labelled(lev, pre, o, p1)
    BY <2>1, BelowFacts
  <2> QED BY <2>2 DEF o, k
<1>7. S2 = Labelled(lev, pre, 2, p2)
  <2> DEFINE o == 1
             t == 2
             k == 2
  <2>1. /\ o \in 0 .. 2 /\ t = o + 1 /\ p2 = p1 * Fan + (Shifted(v, k) % Fan)
        /\ Shifted(v, k) % Fan \in Index /\ S1 = Labelled(lev, pre, o, p1)
    BY <1>2, <1>3, <1>4, <1>6
  <2> HIDE DEF o, t, k, S1
  <2>2. Below(S1, v, k) = Labelled(lev, pre, t, p2)
    BY <2>1, <1>5, BelowFacts
  <2> QED BY <2>2 DEF t, k
<1>8. S3 = Labelled(lev, pre, 3, p3)
  <2> DEFINE t == 2
             h == 3
             k == 1
  <2>1. /\ t \in 0 .. 2 /\ h = t + 1 /\ p3 = p2 * Fan + (Shifted(v, k) % Fan)
        /\ Shifted(v, k) % Fan \in Index /\ S2 = Labelled(lev, pre, t, p2)
    BY <1>2, <1>3, <1>4, <1>7
  <2> HIDE DEF t, h, k, S2
  <2>2. Below(S2, v, k) = Labelled(lev, pre, h, p3)
    BY <2>1, <1>5, BelowFacts
  <2> QED BY <2>2 DEF h, k
<1>9. Translate(v) = Below(S3, v, 0)
  BY DEF Translate
<1> DEFINE i == x.P_i
<1> HIDE DEF S3
<1>10. Below(S3, v, 0) = {tables[t][i].Address : t \in {t \in S3 : tables[t][i].Present}}
  BY <1>4 DEF Below
<1>11. i \in Index /\ m = p3 * Fan + i
  BY <1>2, <1>3
<1> HIDE DEF i
<1>12. \A t \in S3 : /\ t \in DOMAIN tables /\ lev[t] = 3 /\ pre[t] = p3
                     /\ tables[t][i].Present <=> m \in DOMAIN mapped
                     /\ tables[t][i].Present => tables[t][i].Address = mapped[m]
  BY <1>8, <1>11 DEF Labelled, Leaves
<1>13. CASE m \in DOMAIN mapped
  <2>1. PICK t \in DOMAIN tables, j \in Index : lev[t] = 3 /\ m = pre[t] * Fan + j
    BY <1>13 DEF Leaves
  <2>2. pre[t] = p3
    <3> DEFINE a == pre[t]
    <3>1. a \in Nat /\ a * Fan + j = p3 * Fan + i
      BY <2>1, <1>11 DEF Tree
    <3> HIDE DEF a
    <3>2. a = p3
      BY <3>1, <1>1, <1>5, <1>11, OneSplit
    <3> QED BY <3>2 DEF a
  <2>3. t \in S3
    BY <2>1, <2>2, <1>8 DEF Labelled
  <2>4. \A u : u \in Below(S3, v, 0) <=> u = mapped[m]
    BY <2>3, <1>10, <1>12, <1>13
  <2>5. Translate(v) = {mapped[m]}
    BY <2>4, <1>9
  <2> QED BY <2>5, <1>13 DEF m
<1>14. CASE m \notin DOMAIN mapped
  <2>1. Below(S3, v, 0) = {}
    BY <1>10, <1>12, <1>14
  <2> QED BY <2>1, <1>9, <1>14 DEF m
<1> QED BY <1>13, <1>14

-----------------------------------------------------------------------------
(* Levels.                                                                 *)

OnLevel(lev, n) == {t \in DOMAIN tables : lev[t] = n}

\* What the entries of the tables in S refer to.
Down(S) ==
  UNION {{tables[t][i].Address : i \in {i \in Index : tables[t][i].Present}} : t \in S}

\* The entries of the tables of one level lead to those of the next.
LEMMA DownFacts ==
  ASSUME NEW lev, NEW pre, Tree(tables, globalPageTable, lev, pre),
         NEW n \in 0 .. 2, NEW n2, n2 = n + 1
  PROVE  Down(OnLevel(lev, n)) = OnLevel(lev, n2)
<1>1. ASSUME NEW u \in Down(OnLevel(lev, n)) PROVE u \in OnLevel(lev, n2)
  <2>1. PICK t \in OnLevel(lev, n), i \in Index :
          tables[t][i].Present /\ u = tables[t][i].Address
    BY <1>1 DEF Down
  <2>2. t \in DOMAIN tables /\ lev[t] = n
    BY <2>1 DEF OnLevel
  <2>3. Links(tables, lev, t, i, u)
    BY <2>1, <2>2 DEF Links
  <2>4. u \in DOMAIN tables /\ lev[u] = lev[t] + 1
    BY <2>2, <2>3 DEF Tree
  <2> QED BY <2>2, <2>4 DEF OnLevel
<1>2. ASSUME NEW u \in OnLevel(lev, n2) PROVE u \in Down(OnLevel(lev, n))
  <2>1. u \in DOMAIN tables /\ lev[u] = n2
    BY <1>2 DEF OnLevel
  <2>2. u # globalPageTable
    BY <2>1 DEF Tree
  <2>3. PICK t \in DOMAIN tables, i \in Index : Links(tables, lev, t, i, u)
    BY <2>1, <2>2 DEF Tree
  <2>4. lev[u] = lev[t] + 1 /\ lev[t] \in 0 .. 3
    BY <2>3 DEF Tree
  <2>5. t \in OnLevel(lev, n)
    BY <2>1, <2>4 DEF OnLevel
  <2>6. tables[t][i].Present /\ u = tables[t][i].Address
    BY <2>3 DEF Links
  <2> QED BY <2>5, <2>6 DEF Down
<1> QED BY <1>1, <1>2

\* The levels that TablesAreMinimal counts are those of the tree.
LEMMA LevelFacts ==
  ASSUME NEW lev, NEW pre, Tree(tables, globalPageTable, lev, pre)
  PROVE  \A n \in 0 .. 3 : Level(n) = OnLevel(lev, n)
<1> DEFINE z == {globalPageTable}
<1>1. /\ Level(0) = z /\ Level(1) = Down(z) /\ Level(2) = Down(Down(z))
      /\ Level(3) = Down(Down(Down(z)))
  BY DEF Level, Down, Index
<1>2. z = OnLevel(lev, 0)
  <2>1. ASSUME NEW t \in DOMAIN tables, lev[t] = 0, t # globalPageTable PROVE FALSE
    <3>1. PICK s \in DOMAIN tables, i \in Index : Links(tables, lev, s, i, t)
      BY <2>1 DEF Tree
    <3>2. lev[t] = lev[s] + 1 /\ lev[s] \in 0 .. 3
      BY <3>1 DEF Tree
    <3> QED BY <3>2, <2>1
  <2> QED BY <2>1 DEF OnLevel, Tree
<1>3. \A n \in 0 .. 2 : Down(OnLevel(lev, n)) = OnLevel(lev, n + 1)
  BY DownFacts
<1>4. /\ Down(OnLevel(lev, 0)) = OnLevel(lev, 1)
      /\ Down(OnLevel(lev, 1)) = OnLevel(lev, 2)
      /\ Down(OnLevel(lev, 2)) = OnLevel(lev, 3)
  BY <1>3
<1>5. /\ Level(0) = OnLevel(lev, 0) /\ Level(1) = OnLevel(lev, 1)
      /\ Level(2) = OnLevel(lev, 2) /\ Level(3) = OnLevel(lev, 3)
  BY <1>1, <1>2, <1>4
<1> QED BY <1>5

\* Every table but the root is on the way to a page in V.
Backed(root, lev, pre, V) ==
  \A t \in DOMAIN lev \ {root} : \E v \in V : pre[t] = Shifted(v, 4 - lev[t])

\* The tables on the way to a mapped page are there.
LEMMA PathExists ==
  ASSUME NEW lev, NEW pre, Tree(tables, globalPageTable, lev, pre),
         Leaves(tables, lev, pre, mapped), NEW v \in DOMAIN mapped
  PROVE  \A n \in 1 .. 3 : \E t \in DOMAIN tables : lev[t] = n /\ pre[t] = Shifted(v, 4 - n)
<1>0. Fan \in Nat \ {0} /\ Index = 0 .. Fan - 1
  BY PagingAssumption DEF Index
<1>1. PICK t3 \in DOMAIN tables, i0 \in Index : lev[t3] = 3 /\ v = pre[t3] * Fan + i0
  BY DEF Leaves
<1>2. ASSUME NEW u \in DOMAIN tables, lev[u] # 0
      PROVE  \E t \in DOMAIN tables : lev[u] = lev[t] + 1 /\ pre[u] \div Fan = pre[t]
                                      /\ lev[t] \in 0 .. 3
  <2>1. u # globalPageTable
    BY <1>2 DEF Tree
  <2>2. PICK t \in DOMAIN tables, i \in Index : Links(tables, lev, t, i, u)
    BY <2>1 DEF Tree
  <2>3. lev[u] = lev[t] + 1 /\ pre[u] = pre[t] * Fan + i /\ lev[t] \in 0 .. 3 /\ pre[t] \in Nat
    BY <2>2 DEF Tree
  <2>4. (pre[t] * Fan + i) \div Fan = pre[t]
    BY <2>3, <1>0, JoinNumber
  <2> QED BY <2>3, <2>4
<1>3. PICK t2 \in DOMAIN tables : lev[t2] = 2 /\ pre[t3] \div Fan = pre[t2]
  BY <1>1, <1>2
<1>4. PICK t1 \in DOMAIN tables : lev[t1] = 1 /\ pre[t2] \div Fan = pre[t1]
  BY <1>2, <1>3
<1>5. v \div Fan = pre[t3]
  <2>1. pre[t3] \in Nat
    BY DEF Tree
  <2>2. (pre[t3] * Fan + i0) \div Fan = pre[t3]
    BY <2>1, <1>0, JoinNumber
  <2> QED BY <2>2, <1>1
<1>6. /\ pre[t3] = Shifted(v, 4 - 3) /\ pre[t2] = Shifted(v, 4 - 2)
      /\ pre[t1] = Shifted(v, 4 - 1)
  BY <1>3, <1>4, <1>5 DEF Shifted
<1>7. ASSUME NEW n \in 1 .. 3
      PROVE  \E t \in DOMAIN tables : lev[t] = n /\ pre[t] = Shifted(v, 4 - n)
  <2>1. CASE n = 1
    BY <2>1, <1>4, <1>6
  <2>2. CASE n = 2
    BY <2>2, <1>3, <1>6
  <2>3. CASE n = 3
    BY <2>3, <1>1, <1>6
  <2> QED BY <2>1, <2>2, <2>3
<1> QED BY <1>7

\* A level has as many tables as there are prefixes of mapped pages.
LEMMA CountLevel ==
  ASSUME NEW lev, NEW pre, Tree(tables, globalPageTable, lev, pre),
         Leaves(tables, lev, pre, mapped),
         Backed(globalPageTable, lev, pre, DOMAIN mapped), IsFiniteSet(DOMAIN tables),
         NEW n \in 1 .. 3
  PROVE  Cardinality(OnLevel(lev, n)) = Cardinality({Shifted(v, 4 - n) : v \in DOMAIN mapped})
<1> DEFINE S == OnLevel(lev, n)
           T == {Shifted(v, 4 - n) : v \in DOMAIN mapped}
           f == [t \in S |-> pre[t]]
<1>1. \A t \in S : t \in DOMAIN tables /\ lev[t] = n
  BY DEF OnLevel
<1>2. IsFiniteSet(S)
  <2>1. S \in SUBSET DOMAIN tables
    BY <1>1
  <2> QED BY <2>1, FS_Subset
<1>3. ASSUME NEW t \in S PROVE pre[t] \in T
  <2>1. t \in DOMAIN lev \ {globalPageTable} /\ lev[t] = n
    BY <1>1, <1>3 DEF Tree
  <2>2. PICK v \in DOMAIN mapped : pre[t] = Shifted(v, 4 - lev[t])
    BY <2>1 DEF Backed
  <2> QED BY <2>1, <2>2
<1>4. ASSUME NEW p \in T PROVE \E t \in S : f[t] = p
  <2>1. PICK v \in DOMAIN mapped : p = Shifted(v, 4 - n)
    BY <1>4
  <2>2. PICK t \in DOMAIN tables : lev[t] = n /\ pre[t] = Shifted(v, 4 - n)
    BY PathExists
  <2>3. t \in S
    BY <2>2 DEF OnLevel
  <2> QED BY <2>1, <2>2, <2>3
<1>5. \A t, u \in S : pre[t] = pre[u] => t = u
  BY <1>1 DEF Tree
<1> HIDE DEF S, T
<1>6. f \in Bijection(S, T)
  BY <1>3, <1>4, <1>5 DEF Bijection, Injection, Surjection, IsInjective
<1>7. Cardinality(T) = Cardinality(S)
  BY <1>2, <1>6, FS_Bijection DEF ExistsBijection
<1> QED BY <1>7 DEF S, T

-----------------------------------------------------------------------------
(* The invariant.                                                          *)

NoTables == status # "ready" /\ tables = <<>> /\ mapped = <<>>

HasTables ==
  /\ status # "boot" /\ Tables(tables)
  /\ \E lev, pre :
       /\ Tree(tables, globalPageTable, lev, pre) /\ Leaves(tables, lev, pre, mapped)
       /\ status = "ready" => Backed(globalPageTable, lev, pre, DOMAIN mapped)

PagingInv ==
  /\ status \in {"boot", "ready", "out of memory"}
  /\ granted \subseteq free0 /\ free0 \subseteq Frames
  /\ globalPageTable \in Nat
  /\ DOMAIN tables = granted
  /\ mapped \in [DOMAIN mapped -> PPages]
  /\ NoTables \/ HasTables

\* It holds before _start has requested the root.
LEMMA PagingInvInit ==
  ASSUME Init
  PROVE  PagingInv
<1>1. status = "boot" /\ granted = {} /\ globalPageTable = 0 /\ tables = <<>> /\ mapped = <<>>
  BY DEF Init
<1>2. free0 \subseteq Frames
  BY DEF Init
<1>3. DOMAIN tables = {} /\ DOMAIN mapped = {}
  BY <1>1
<1>4. mapped \in [DOMAIN mapped -> PPages]
  BY <1>1, <1>3
<1> QED BY <1>1, <1>2, <1>3, <1>4 DEF PagingInv, NoTables

\* The root alone is a tree.
LEMMA RootFacts ==
  ASSUME free0 \subseteq Nat, granted = {}, mapped = <<>>, RequestRoot,
         FreeFrames(granted) # {}
  PROVE  /\ status' = "ready" /\ free0' = free0 /\ mapped' = mapped
         /\ globalPageTable' \in free0 /\ granted' = {globalPageTable'}
         /\ DOMAIN tables' = granted' /\ Tables(tables')
         /\ \E lev : /\ Tree(tables', globalPageTable', lev, lev)
                     /\ Leaves(tables', lev, lev, mapped')
                     /\ DOMAIN lev = {globalPageTable'}
<1> DEFINE r == globalPageTable'
           lev == [t \in {r} |-> 0]
<1>1. /\ status' = "ready" /\ free0' = free0 /\ mapped' = mapped
      /\ r = requestPage(granted) /\ granted' = {r}
      /\ tables' = [t \in {r} |-> Zeroed]
  BY DEF RequestRoot
<1>2. r \in free0
  <2>1. FreeFrames(granted) \in SUBSET Nat
    BY DEF FreeFrames
  <2>2. r \in FreeFrames(granted)
    BY <2>1, <1>1, LeastFrame DEF requestPage
  <2> QED BY <2>2 DEF FreeFrames
<1>3. Zeroed \in [Index -> Entry] /\ \A j \in Index : ~Zeroed[j].Present
  BY DEF Zeroed, Index, Entry
<1>m. DOMAIN mapped = {}
  OBVIOUS
<1> HIDE DEF r
<1>4. DOMAIN tables' = {r} /\ tables'[r] = Zeroed /\ Tables(tables')
  BY <1>1, <1>3 DEF Tables
<1>5. DOMAIN lev = {r} /\ lev[r] = 0 /\ lev \in [{r} -> 0 .. 3] /\ lev \in [{r} -> Nat]
  OBVIOUS
<1> HIDE DEF lev
<1>6. Tree(tables', r, lev, lev)
  BY <1>3, <1>4, <1>5 DEF Tree, Links
<1>7. Leaves(tables', lev, lev, mapped')
  BY <1>1, <1>m, <1>4, <1>5 DEF Leaves
<1> QED BY <1>1, <1>2, <1>4, <1>5, <1>6, <1>7 DEF r

\* _start requests it, or panics.
LEMMA PagingInvRoot ==
  ASSUME PagingInv, RequestRoot
  PROVE  PagingInv'
<1>0. /\ NoTables /\ granted = {} /\ free0 \subseteq Frames /\ Frames \subseteq Nat
      /\ DOMAIN mapped = {} /\ mapped = <<>>
  <2>1. NoTables
    BY DEF PagingInv, HasTables, RequestRoot
  <2>2. tables = <<>> /\ mapped = <<>>
    BY <2>1 DEF NoTables
  <2>3. DOMAIN tables = {} /\ DOMAIN mapped = {}
    BY <2>2
  <2> QED BY <2>1, <2>2, <2>3, PagingAssumption DEF PagingInv
<1>1. CASE FreeFrames(granted) = {}
  <2>1. /\ status' = "out of memory" /\ granted' = granted /\ free0' = free0
        /\ globalPageTable' = globalPageTable /\ tables' = tables /\ mapped' = mapped
    BY <1>1 DEF RequestRoot
  <2> QED BY <2>1, <1>0 DEF PagingInv, NoTables
<1>2. CASE FreeFrames(granted) # {}
  <2>1. free0 \subseteq Nat
    BY <1>0
  <2>2. /\ status' = "ready" /\ free0' = free0 /\ mapped' = mapped
        /\ globalPageTable' \in free0 /\ granted' = {globalPageTable'}
        /\ DOMAIN tables' = granted' /\ Tables(tables')
        /\ \E lev : /\ Tree(tables', globalPageTable', lev, lev)
                    /\ Leaves(tables', lev, lev, mapped')
                    /\ DOMAIN lev = {globalPageTable'}
    BY <2>1, <1>0, <1>2, RootFacts
  <2>3. PICK lev : /\ Tree(tables', globalPageTable', lev, lev)
                   /\ Leaves(tables', lev, lev, mapped')
                   /\ DOMAIN lev = {globalPageTable'}
    BY <2>2
  <2>4. Backed(globalPageTable', lev, lev, DOMAIN mapped')
    BY <2>3 DEF Backed
  <2>5. HasTables'
    BY <2>2, <2>3, <2>4 DEF HasTables
  <2> QED BY <1>0, <2>1, <2>2, <2>5 DEF PagingInv
<1> QED BY <1>1, <1>2

\* PageTable_MapMemory keeps the tree, whether it ends or panics.
LEMMA PagingInvMap ==
  ASSUME PagingInv, NEW virt \in VPages, NEW phys \in PPages,
         PageTable_MapMemory(granted, virt, phys)
  PROVE  PagingInv'
<1>0. /\ status = "ready" /\ HasTables /\ free0 \subseteq Nat /\ DOMAIN tables = granted
      /\ virt \in Nat /\ phys \in Nat
  BY PagingAssumption DEF PagingInv, NoTables, PageTable_MapMemory
<1>1. PICK lev, pre : /\ Tree(tables, globalPageTable, lev, pre)
                      /\ Leaves(tables, lev, pre, mapped)
                      /\ Backed(globalPageTable, lev, pre, DOMAIN mapped)
  BY <1>0 DEF HasTables
<1>2. Tables(tables)
  BY <1>0 DEF HasTables
<1>3. PICK lev2, pre2 : MapStep(granted, virt, lev, pre, lev2, pre2)
  BY <1>0, <1>1, <1>2, MapFacts
<1>4. globalPageTable' = globalPageTable /\ free0' = free0
  BY DEF PageTable_MapMemory
<1>5. \/ status' = "ready" /\ mapped' = Put(mapped, virt % VSpace, phys)
      \/ status' = "out of memory" /\ mapped' = mapped
  BY <1>0 DEF PageTable_MapMemory
<1>6. /\ mapped' \in [DOMAIN mapped' -> PPages]
      /\ status' = "ready" => DOMAIN mapped' = DOMAIN mapped \cup {virt % VSpace}
  BY <1>5 DEF Put, PagingInv
<1>7. granted' \subseteq free0 /\ DOMAIN tables' = granted'
  <2>1. granted \subseteq free0
    BY DEF PagingInv
  <2> QED BY <1>0, <1>3, <2>1 DEF MapStep
<1>8. /\ Tables(tables') /\ Tree(tables', globalPageTable', lev2, pre2)
      /\ Leaves(tables', lev2, pre2, mapped')
  BY <1>3 DEF MapStep
<1>9. ASSUME status' = "ready" PROVE Backed(globalPageTable', lev2, pre2, DOMAIN mapped')
  <2> SUFFICES ASSUME NEW t \in DOMAIN lev2 \ {globalPageTable}
               PROVE  \E v \in DOMAIN mapped' : pre2[t] = Shifted(v, 4 - lev2[t])
    BY <1>4 DEF Backed
  <2>1. t \in DOMAIN tables'
    BY <1>8 DEF Tree
  <2>2. CASE t \in DOMAIN tables
    <3>1. lev2[t] = lev[t] /\ pre2[t] = pre[t] /\ t \in DOMAIN lev
      BY <2>2, <1>1, <1>3 DEF MapStep, Tree
    <3>2. PICK v \in DOMAIN mapped : pre[t] = Shifted(v, 4 - lev[t])
      BY <3>1, <1>1 DEF Backed
    <3> QED BY <3>1, <3>2, <1>6, <1>9
  <2>3. CASE t \notin DOMAIN tables
    <3>1. pre2[t] = Shifted(virt % VSpace, 4 - lev2[t])
      BY <2>1, <2>3, <1>3 DEF MapStep
    <3> QED BY <3>1, <1>6, <1>9
  <2> QED BY <2>2, <2>3
<1>10. HasTables'
  BY <1>5, <1>8, <1>9 DEF HasTables
<1> QED BY <1>4, <1>5, <1>6, <1>7, <1>10 DEF PagingInv

\* PagingInv is inductive.
THEOREM PagingInvariant == Spec => []PagingInv
<1>1. Init => PagingInv
  BY PagingInvInit
<1>2. PagingInv /\ [Next]_vars => PagingInv'
  <2> SUFFICES ASSUME PagingInv, [Next]_vars PROVE PagingInv'
    OBVIOUS
  <2>1. CASE RequestRoot
    BY <2>1, PagingInvRoot
  <2>2. ASSUME NEW virt \in VPages, NEW phys \in PPages,
               PageTable_MapMemory(granted, virt, phys)
        PROVE  PagingInv'
    BY <2>2, PagingInvMap
  <2>3. CASE UNCHANGED vars
    BY <2>3 DEF vars, PagingInv, NoTables, HasTables
  <2> QED BY <2>1, <2>2, <2>3 DEF Next
<1> QED BY <1>1, <1>2, PTL DEF Spec

\* Tables are in frames that were granted, and a table stays an array of
\* entries.
THEOREM PagingTypeCorrect == Spec => []TypeOK
<1>1. PagingInv => TypeOK
  <2> SUFFICES ASSUME PagingInv PROVE TypeOK
    OBVIOUS
  <2>1. \A t \in DOMAIN tables : tables[t] \in [0 .. Fan - 1 -> Entry]
    <3>1. CASE NoTables
      <4>1. tables = <<>>
        BY <3>1 DEF NoTables
      <4>2. DOMAIN tables = {}
        BY <4>1
      <4> QED BY <4>2
    <3>2. CASE HasTables
      BY <3>2 DEF HasTables, Tables, Index
    <3> QED BY <3>1, <3>2 DEF PagingInv
  <2> QED BY <2>1 DEF PagingInv, TypeOK
<1> QED BY <1>1, PagingInvariant, PTL

\* The processor finds for every page what PageTable_MapMemory put there last,
\* and nothing for the others, whatever the order of the mappings and wherever
\* requestPage panicked.
THEOREM PagingTranslates == Spec => []TranslationIsLastMapping
<1>1. PagingInv => TranslationIsLastMapping
  <2> SUFFICES ASSUME PagingInv, tables # <<>>, NEW v \in 0 .. VSpace - 1
               PROVE  Translate(v) = IF v \in DOMAIN mapped THEN {mapped[v]} ELSE {}
    BY DEF TranslationIsLastMapping
  <2>1. PICK lev, pre : /\ Tree(tables, globalPageTable, lev, pre)
                        /\ Leaves(tables, lev, pre, mapped)
    BY DEF PagingInv, NoTables, HasTables
  <2>2. v \in Nat /\ v % VSpace = v
    <3>1. VSpace \in Int
      BY PagingAssumption DEF VSpace
    <3> QED BY <3>1
  <2> QED BY <2>1, <2>2, TranslateFacts
<1> QED BY <1>1, PagingInvariant, PTL

\* PageTable_MapMemory allocates no table that is not needed, shares none and
\* loses none.
THEOREM PagingMinimal == Spec => []TablesAreMinimal
<1>1. PagingInv => TablesAreMinimal
  <2> SUFFICES ASSUME PagingInv, status = "ready"
               PROVE  /\ DOMAIN tables = granted
                      /\ \A n \in 1 .. 3 :
                           Cardinality(Level(n)) =
                             Cardinality({Shifted(v, 4 - n) : v \in DOMAIN mapped})
                      /\ DOMAIN tables = UNION {Level(n) : n \in 0 .. 3}
                      /\ \A n, k \in 0 .. 3 : n # k => Level(n) \cap Level(k) = {}
    BY DEF TablesAreMinimal
  <2>1. PICK lev, pre : /\ Tree(tables, globalPageTable, lev, pre)
                        /\ Leaves(tables, lev, pre, mapped)
                        /\ Backed(globalPageTable, lev, pre, DOMAIN mapped)
    BY DEF PagingInv, NoTables, HasTables
  <2>2. IsFiniteSet(DOMAIN tables)
    <3>1. DOMAIN tables \in SUBSET Frames
      BY DEF PagingInv
    <3> QED BY <3>1, PagingAssumption, FS_Subset
  <2>3. \A n \in 0 .. 3 : Level(n) = OnLevel(lev, n)
    BY <2>1, LevelFacts
  <2>4. ASSUME NEW n \in 1 .. 3
        PROVE  Cardinality(Level(n)) = Cardinality({Shifted(v, 4 - n) : v \in DOMAIN mapped})
    <3>1. Cardinality(OnLevel(lev, n)) = Cardinality({Shifted(v, 4 - n) : v \in DOMAIN mapped})
      BY <2>1, <2>2, CountLevel
    <3>2. Level(n) = OnLevel(lev, n)
      BY <2>3
    <3> QED BY <3>1, <3>2
  <2>5. DOMAIN tables = UNION {Level(n) : n \in 0 .. 3}
    <3>1. \A t \in DOMAIN tables : lev[t] \in 0 .. 3
      BY <2>1 DEF Tree
    <3>2. \A t : t \in DOMAIN tables <=> \E n \in 0 .. 3 : t \in Level(n)
      BY <3>1, <2>3 DEF OnLevel
    <3> QED BY <3>2
  <2>6. \A n, k \in 0 .. 3 : n # k => Level(n) \cap Level(k) = {}
    BY <2>3 DEF OnLevel
  <2>7. DOMAIN tables = granted
    BY DEF PagingInv
  <2> QED BY <2>4, <2>5, <2>6, <2>7
<1> QED BY <1>1, PagingInvariant, PTL
===============================================================================
