---------------------- MODULE MultiIndexExample_proofs ----------------------
(***************************************************************************)
(* Proofs about the multi_index_example contract for every set of users,  *)
(* every "second"_n and every set of mod arguments: the primary keys of   *)
(* testtaba stay unique, rows change only through mod, and bysec prints   *)
(* every row once in index order.                                          *)
(***************************************************************************)
EXTENDS MultiIndexExample, FiniteSetTheorems, TLAPS

USE MultiIndexExampleAssumption

\* The rows the actions can put in testtaba.
TableRows == [pk : Users, secondary : Users \cup {Second}, datum : Ns \cup {0}]

\* Every primary key names at most one row: find(user) is end() or one row.
KeysUnique == \A r1, r2 \in testtab : r1.pk = r2.pk => r1 = r2

(***************************************************************************)
(* The invariant of the table: the rows the actions write, with unique    *)
(* primary keys.  It is what set's find-then-emplace and mod's            *)
(* key-preserving modify keep.                                             *)
(***************************************************************************)
TableInv == /\ testtab \subseteq TableRows
            /\ KeysUnique

(***************************************************************************)
(* The inductive invariant.  BysecPrintsEveryRow also needs the table to  *)
(* be finite (it has a Cardinality) and TableInv (print by primary key    *)
(* finds the one row the index walk is at).                               *)
(***************************************************************************)
IInv == TableInv /\ IsFiniteSet(testtab) /\ BysecPrintsEveryRow

-----------------------------------------------------------------------------
(***************************************************************************)
(* What the table operators of MultiIndex do to a table of unique keys.   *)
(***************************************************************************)
LEMMA EmplaceUnique ==
  ASSUME NEW t, NEW r, \A r1, r2 \in t : r1.pk = r2.pk => r1 = r2,
         {x \in t : x.pk = r.pk} = {}
  PROVE  \A r1, r2 \in Emplace(t, r) : r1.pk = r2.pk => r1 = r2
BY DEF Emplace

LEMMA ModifyUnique ==
  ASSUME NEW t, NEW old \in t, NEW new,
         \A r1, r2 \in t : r1.pk = r2.pk => r1 = r2,
         CanModify(t, old, new)
  PROVE  \A r1, r2 \in Modify(t, old, new) : r1.pk = r2.pk => r1 = r2
BY DEF Modify, CanModify

\* The row mod writes: secondary = user, datum = n, the key kept.
LEMMA ModRow ==
  ASSUME NEW u \in Users, NEW n \in Ns, NEW r \in TableRows
  PROVE  /\ [r EXCEPT !.secondary = u, !.datum = n] \in TableRows
         /\ [r EXCEPT !.secondary = u, !.datum = n].pk = r.pk
BY DEF TableRows

\* When find(user) misses, emplace's uniqueness check passes: the two look
\* up the same key.  So set's abort branch is never taken.
LEMMA FindMissEmplaces ==
  ASSUME NEW t, NEW u, FindRow(t, u) = {}
  PROVE  CanEmplace(t, Row(u, Second, 0))
BY DEF FindRow, CanEmplace, Row

\* What set does: emplace when find misses, nothing when it hits.
LEMMA SetEffect ==
  ASSUME NEW u \in Users, SetUser(u)
  PROVE  /\ testtab' = IF FindRow(testtab, u) = {}
                         THEN Emplace(testtab, Row(u, Second, 0)) ELSE testtab
         /\ status' = "ok" /\ printed' = <<>>
         /\ last' = [op |-> "set", user |-> u]
<1>1. ~(FindRow(testtab, u) = {} /\ ~CanEmplace(testtab, Row(u, Second, 0)))
  BY FindMissEmplaces
<1>. QED  BY <1>1 DEF SetUser

-----------------------------------------------------------------------------
LEMMA InitTableInv == Init => TableInv
BY DEF Init, TableInv, KeysUnique

LEMMA NextTableInv == TableInv /\ [Next]_vars => TableInv'
<1>. SUFFICES ASSUME TableInv, [Next]_vars PROVE TableInv'
  OBVIOUS
<1>1. ASSUME NEW u \in Users, SetUser(u) PROVE TableInv'
  <2>1. CASE FindRow(testtab, u) = {}
    <3>1. testtab' = Emplace(testtab, Row(u, Second, 0))
      BY <1>1, <2>1, SetEffect
    <3>2. Row(u, Second, 0) \in TableRows
      BY DEF Row, TableRows
    <3>3. KeysUnique'
      BY <2>1, <3>1, EmplaceUnique DEF TableInv, KeysUnique, FindRow, Row
    <3>. QED  BY <3>1, <3>2, <3>3 DEF TableInv, Emplace
  <2>2. CASE FindRow(testtab, u) # {}
    BY <1>1, <2>2, SetEffect DEF TableInv, KeysUnique
  <2>. QED  BY <2>1, <2>2
<1>2. ASSUME NEW u \in Users, PrintUser(u) PROVE TableInv'
  BY <1>2 DEF PrintUser, Abort, TableInv, KeysUnique
<1>3. ASSUME NEW u \in Users, Bysec(u) PROVE TableInv'
  BY <1>3 DEF Bysec, TableInv, KeysUnique
<1>4. ASSUME NEW u \in Users, NEW n \in Ns, Mod(u, n) PROVE TableInv'
  <2>1. CASE FindRow(testtab, u) = {} /\ Abort("mod", u)
    BY <2>1 DEF Abort, TableInv, KeysUnique
  <2>2. ASSUME NEW r \in FindRow(testtab, u),
               CanModify(testtab, r, [r EXCEPT !.secondary = u, !.datum = n]),
               testtab' = Modify(testtab, r,
                                 [r EXCEPT !.secondary = u, !.datum = n])
        PROVE  TableInv'
    <3>1. r \in testtab /\ r \in TableRows
      BY DEF FindRow, TableInv
    <3>2. testtab' \subseteq TableRows
      <4>1. [r EXCEPT !.secondary = u, !.datum = n] \in TableRows
        BY <3>1, ModRow
      <4>. QED  BY <4>1, <2>2 DEF Modify, TableInv
    <3>3. KeysUnique'
      BY <3>1, <2>2, ModifyUnique DEF TableInv, KeysUnique
    <3>. QED  BY <3>2, <3>3 DEF TableInv
  <2>. QED  BY <1>4, <2>1, <2>2 DEF Mod
<1>5. CASE UNCHANGED vars
  BY <1>5 DEF vars, TableInv, KeysUnique
<1>. QED  BY <1>1, <1>2, <1>3, <1>4, <1>5 DEF Next

(***************************************************************************)
(* For every set of users, "second"_n and mod arguments, the primary keys  *)
(* of testtaba stay unique after any sequence of actions, so find(user) in *)
(* print, mod and bysec's print names exactly one row or none.  set adds  *)
(* a row only after find(user) missed, and mod's modify keeps the key.    *)
(***************************************************************************)
THEOREM KeysStayUnique == Spec => []KeysUnique
<1>1. TableInv => KeysUnique
  BY DEF TableInv
<1>. QED  BY InitTableInv, NextTableInv, <1>1, PTL DEF Spec

-----------------------------------------------------------------------------
\* The step RowsChangeOnlyByMod constrains.
RowsStep ==
  \A r \in testtab :
    \E s \in testtab' :
      /\ s.pk = r.pk
      /\ s = r \/ last' = [op |-> "mod", user |-> r.pk]

\* Modify keeps every row but the one it rewrites, and the new row has the
\* old one's key.
LEMMA ModifyKeeps ==
  ASSUME NEW t, NEW old, NEW new, NEW r \in t, CanModify(t, old, new)
  PROVE  \E s \in Modify(t, old, new) : s.pk = r.pk /\ (s = r \/ r = old)
BY DEF Modify, CanModify

LEMMA StepKeepsRows == [Next]_vars => RowsStep
<1>. SUFFICES ASSUME [Next]_vars PROVE RowsStep
  OBVIOUS
<1>1. ASSUME NEW u \in Users, SetUser(u) PROVE RowsStep
  BY <1>1, SetEffect DEF Emplace, RowsStep
<1>2. ASSUME NEW u \in Users, PrintUser(u) PROVE RowsStep
  BY <1>2 DEF PrintUser, Abort, RowsStep
<1>3. ASSUME NEW u \in Users, Bysec(u) PROVE RowsStep
  BY <1>3 DEF Bysec, RowsStep
<1>4. ASSUME NEW u \in Users, NEW n \in Ns, Mod(u, n) PROVE RowsStep
  <2>1. CASE FindRow(testtab, u) = {} /\ Abort("mod", u)
    BY <2>1 DEF Abort, RowsStep
  <2>2. ASSUME NEW r0 \in FindRow(testtab, u),
               CanModify(testtab, r0, [r0 EXCEPT !.secondary = u, !.datum = n]),
               testtab' = Modify(testtab, r0,
                                 [r0 EXCEPT !.secondary = u, !.datum = n]),
               last' = [op |-> "mod", user |-> u]
        PROVE  RowsStep
    <3>1. r0.pk = u
      BY DEF FindRow
    <3>. QED  BY <2>2, <3>1, ModifyKeeps DEF RowsStep
  <2>. QED  BY <1>4, <2>1, <2>2 DEF Mod
<1>5. CASE UNCHANGED vars
  BY <1>5 DEF vars, RowsStep
<1>. QED  BY <1>1, <1>2, <1>3, <1>4, <1>5 DEF Next

(***************************************************************************)
(* For every set of users, "second"_n and mod arguments, no action of the *)
(* example contract removes a row of testtaba, and a row changes only in   *)
(* mod of its own primary key: set never resets a row it finds.  Each     *)
(* action's step is checked on its own; no invariant is needed.            *)
(***************************************************************************)
THEOREM RowsChangeOnlyByModHolds == Spec => RowsChangeOnlyByMod
<1>1. [Next]_vars => RowsStep
  BY StepKeepsRows
<1>. QED  BY <1>1, PTL DEF Spec, RowsChangeOnlyByMod, RowsStep

-----------------------------------------------------------------------------
(***************************************************************************)
(* The secid index of a table with unique primary keys.  The walk of bysec *)
(* is IndexWalk(testtab); these lemmas show that it lists every row once   *)
(* in index order, for every finite table: the ranks of the rows are      *)
(* exactly 0 .. Cardinality - 1, one row each.                             *)
(***************************************************************************)

\* A table the secid index orders: finite, of rows, with unique keys.
IndexedTable(S) ==
  /\ S \subseteq TableRows /\ IsFiniteSet(S)
  /\ \A r1, r2 \in S : r1.pk = r2.pk => r1 = r2

\* (secondary, primary key) order is a strict total order on such a table.
LEMMA IndexOrder ==
  ASSUME NEW S, IndexedTable(S)
  PROVE  /\ \A a \in S : ~IndexLess(a, a)
         /\ \A a, b, c \in S : IndexLess(a, b) /\ IndexLess(b, c) => IndexLess(a, c)
         /\ \A a, b \in S : a # b => IndexLess(a, b) \/ IndexLess(b, a)
<1>1. \A a \in S : a.pk \in Nat /\ a.secondary \in Nat
  BY DEF IndexedTable, TableRows
<1>2. \A a, b \in S : a.pk = b.pk => a = b
  BY DEF IndexedTable
<1>. QED  BY <1>1, <1>2 DEF IndexLess

LEMMA RankRange ==
  ASSUME NEW S, IndexedTable(S), NEW x \in S
  PROVE  IndexRank(S, x) \in 0 .. Cardinality(S) - 1
<1>. DEFINE A == {y \in S : IndexLess(y, x)}
<1>1. IsFiniteSet(S) /\ Cardinality(S) \in Nat
  BY FS_CardinalityType DEF IndexedTable
<1>2. IsFiniteSet(S \ {x}) /\ Cardinality(S \ {x}) = Cardinality(S) - 1
  BY <1>1, FS_RemoveElement
<1>3. A \subseteq S \ {x}
  BY IndexOrder
<1>4. Cardinality(A) <= Cardinality(S \ {x}) /\ IsFiniteSet(A)
  BY <1>2, <1>3, FS_Subset
<1>5. Cardinality(A) \in Nat
  BY <1>4, FS_CardinalityType
<1>. QED  BY <1>1, <1>2, <1>4, <1>5 DEF IndexRank

\* A row later in the index has a larger rank.
LEMMA RankMonotone ==
  ASSUME NEW S, IndexedTable(S), NEW x \in S, NEW y \in S, IndexLess(x, y)
  PROVE  IndexRank(S, x) < IndexRank(S, y)
<1>. DEFINE A == {z \in S : IndexLess(z, x)}
            B == {z \in S : IndexLess(z, y)}
<1>1. A \subseteq B /\ x \in B /\ x \notin A
  BY IndexOrder
<1>2. IsFiniteSet(B)
  BY FS_Subset DEF IndexedTable
<1>3. /\ Cardinality(A) <= Cardinality(B)
      /\ Cardinality(B) = Cardinality(A) => B = A
  BY <1>1, <1>2, FS_Subset
<1>4. Cardinality(A) \in Nat /\ Cardinality(B) \in Nat
  BY <1>1, <1>2, FS_Subset, FS_CardinalityType
<1>. QED  BY <1>1, <1>3, <1>4 DEF IndexRank

LEMMA RankInjective ==
  ASSUME NEW S, IndexedTable(S), NEW x \in S, NEW y \in S,
         IndexRank(S, x) = IndexRank(S, y)
  PROVE  x = y
<1>. SUFFICES ASSUME x # y PROVE FALSE
  OBVIOUS
<1>1. IndexLess(x, y) \/ IndexLess(y, x)
  BY IndexOrder
<1>2. IndexRank(S, x) \in Nat /\ IndexRank(S, y) \in Nat
  BY RankRange
<1>. QED  BY <1>1, <1>2, RankMonotone

\* Every position 0 .. Cardinality(S) - 1 of the index holds a row.
LEMMA RankOnto ==
  ASSUME NEW S, IndexedTable(S), NEW k \in 0 .. Cardinality(S) - 1
  PROVE  \E x \in S : IndexRank(S, x) = k
<1>. DEFINE rk == [x \in S |-> IndexRank(S, x)]
            T == 0 .. Cardinality(S) - 1
<1>1. Cardinality(S) \in Nat /\ IsFiniteSet(S)
  BY FS_CardinalityType DEF IndexedTable
<1>2. IsFiniteSet(T) /\ Cardinality(T) = Cardinality(S)
  BY <1>1, FS_Interval
<1>3. rk \in Injection(S, T)
  BY RankRange, RankInjective DEF Injection, IsInjective
<1>4. rk \in Surjection(S, T)
  BY <1>2, <1>3, FS_Injection
<1>. QED  BY <1>4 DEF Surjection

\* The walk of the secid index lists every row once, in index order.
LEMMA IndexWalkProps ==
  ASSUME NEW S, IndexedTable(S)
  PROVE  /\ IndexWalk(S) \in [1 .. Cardinality(S) -> S]
         /\ Len(IndexWalk(S)) = Cardinality(S)
         /\ ToSet(IndexWalk(S)) = S
         /\ \A k \in 1 .. Cardinality(S) - 1 :
              IndexLess(IndexWalk(S)[k], IndexWalk(S)[k + 1])
<1>. DEFINE n == Cardinality(S)
            w == IndexWalk(S)
<1>1. n \in Nat
  BY FS_CardinalityType DEF IndexedTable
<1>2. \A k \in 1 .. n : w[k] \in S /\ IndexRank(S, w[k]) = k - 1
  <2>. SUFFICES ASSUME NEW k \in 1 .. n
                PROVE  \E r \in S : IndexRank(S, r) = k - 1
    BY DEF IndexWalk
  <2>. QED  BY <1>1, RankOnto
<1>3. w \in [1 .. n -> S] /\ Len(w) = n
  BY <1>1, <1>2 DEF IndexWalk
<1>4. ToSet(w) = S
  <2>1. ASSUME NEW x \in S PROVE \E k \in 1 .. n : w[k] = x
    <3>. DEFINE j == IndexRank(S, x) + 1
    <3>1. j \in 1 .. n
      BY <1>1, RankRange
    <3>2. IndexRank(S, w[j]) = IndexRank(S, x) /\ w[j] \in S
      BY <1>1, <1>2, <3>1, RankRange
    <3>. QED  BY <3>1, <3>2, RankInjective
  <2>. QED  BY <1>3, <2>1 DEF ToSet
<1>5. ASSUME NEW k \in 1 .. n - 1 PROVE IndexLess(w[k], w[k + 1])
  <2>1. k \in 1 .. n /\ k + 1 \in 1 .. n
    BY <1>1
  <2>2. w[k] \in S /\ w[k + 1] \in S
        /\ IndexRank(S, w[k]) = k - 1 /\ IndexRank(S, w[k + 1]) = k
    BY <1>2, <2>1
  <2>3. w[k] # w[k + 1]
    BY <2>2
  <2>4. ~IndexLess(w[k + 1], w[k])
    BY <2>2, RankMonotone
  <2>. QED  BY <2>2, <2>3, <2>4, IndexOrder
<1>. QED  BY <1>3, <1>4, <1>5

\* bysec prints the walk: print(test_primary) finds the row the walk is at.
LEMMA BysecPrints ==
  ASSUME TableInv, IsFiniteSet(testtab), NEW u \in Users, Bysec(u)
  PROVE  BysecPrintsEveryRow'
<1>. DEFINE w == IndexWalk(testtab)
            n == Cardinality(testtab)
<1>1. IndexedTable(testtab)
  BY DEF TableInv, KeysUnique, IndexedTable
<1>2. /\ w \in [1 .. n -> testtab] /\ Len(w) = n /\ ToSet(w) = testtab
      /\ \A k \in 1 .. n - 1 : IndexLess(w[k], w[k + 1])
  BY <1>1, IndexWalkProps
<1>3. \A k \in 1 .. n : FindRow(testtab, w[k].pk) = {w[k]}
  BY <1>2 DEF TableInv, KeysUnique, FindRow
<1>4. printed' = w
  <2>1. printed' = [k \in 1 .. n |-> CHOOSE r \in FindRow(testtab, w[k].pk) : TRUE]
    BY <1>2 DEF Bysec
  <2>. QED  BY <1>2, <1>3, <2>1
<1>5. testtab' = testtab /\ last'.op = "bysec"
  BY DEF Bysec
<1>. QED  BY <1>2, <1>4, <1>5 DEF BysecPrintsEveryRow

LEMMA InitIInv == Init => IInv
BY InitTableInv, FS_EmptySet DEF Init, IInv, BysecPrintsEveryRow

LEMMA NextIInv == IInv /\ [Next]_vars => IInv'
<1>. SUFFICES ASSUME IInv, [Next]_vars PROVE IInv'
  OBVIOUS
<1>1. TableInv'
  BY NextTableInv DEF IInv
<1>2. ASSUME NEW u \in Users, SetUser(u) PROVE IInv'
  <2>1. IsFiniteSet(testtab')
    BY <1>2, SetEffect, FS_AddElement DEF IInv, Emplace
  <2>. QED  BY <1>1, <1>2, <2>1, SetEffect DEF IInv, BysecPrintsEveryRow
<1>3. ASSUME NEW u \in Users, PrintUser(u) PROVE IInv'
  BY <1>1, <1>3 DEF PrintUser, Abort, IInv, BysecPrintsEveryRow
<1>4. ASSUME NEW u \in Users, Bysec(u) PROVE IInv'
  BY <1>1, <1>4, BysecPrints DEF Bysec, IInv
<1>5. ASSUME NEW u \in Users, NEW n \in Ns, Mod(u, n) PROVE IInv'
  <2>1. last'.op = "mod"
    <3>1. CASE Abort("mod", u)
      BY <3>1 DEF Abort
    <3>2. ASSUME NEW r \in FindRow(testtab, u),
                 last' = [op |-> "mod", user |-> u]
          PROVE  last'.op = "mod"
      BY <3>2
    <3>. QED  BY <1>5, <3>1, <3>2 DEF Mod
  <2>2. IsFiniteSet(testtab')
    <3>1. CASE testtab' = testtab
      BY <3>1 DEF IInv
    <3>2. ASSUME NEW r \in testtab, NEW new, testtab' = Modify(testtab, r, new)
          PROVE  IsFiniteSet(testtab')
      BY <3>2, FS_AddElement, FS_RemoveElement DEF IInv, Modify
    <3>. QED  BY <1>5, <3>1, <3>2 DEF Mod, Abort, FindRow
  <2>. QED  BY <1>1, <2>1, <2>2 DEF IInv, BysecPrintsEveryRow
<1>6. CASE UNCHANGED vars
  BY <1>1, <1>6 DEF vars, IInv, BysecPrintsEveryRow
<1>. QED  BY <1>2, <1>3, <1>4, <1>5, <1>6 DEF Next

(***************************************************************************)
(* For every set of users, "second"_n and mod arguments, bysec prints     *)
(* every row of testtaba exactly once, in the order of the secid index,  *)
(* whatever set and mod have done before it.  The argument: the table     *)
(* stays finite with unique keys (TableInv), so the ranks of its rows in  *)
(* the index are 0 .. Cardinality - 1, one row each (RankOnto,            *)
(* RankInjective), the walk visits them in that order (IndexWalkProps),    *)
(* and print by primary key finds the row the walk is at.                 *)
(***************************************************************************)
THEOREM BysecPrintsEveryRowHolds == Spec => []BysecPrintsEveryRow
<1>1. IInv => BysecPrintsEveryRow
  BY DEF IInv
<1>. QED  BY InitIInv, NextIInv, <1>1, PTL DEF Spec

=============================================================================
