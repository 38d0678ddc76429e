-------------------------- MODULE MultiIndexExample --------------------------
(***************************************************************************)
(* The multi_index_example contract (toolchain-tester build-pass example,  *)
(* declared in examples/multi_index_example): the actions set, print,     *)
(* bysec and mod over the table testtaba of rows {test_primary,           *)
(* secondary, datum}, keyed by test_primary and indexed by secondary      *)
(* (index secid).  Each action runs to completion or aborts on a failed   *)
(* check, which reverts the table.  A name is its 64-bit value; the       *)
(* secondary index iterates by secondary value, then primary key, as a    *)
(* multi_index secondary index does.                                       *)
(*                                                                         *)
(* del is declared in the header but defined nowhere, so it is absent.    *)
(***************************************************************************)
EXTENDS Naturals, Sequences, SequencesExt, MultiIndex

CONSTANTS
  Users,   \* name values given to the actions
  Second,  \* the value of "second"_n
  Ns       \* values of the uint32_t argument of mod

ASSUME MultiIndexExampleAssumption ==
  /\ Users \subseteq Nat /\ Second \in Nat
  /\ Ns \subseteq Nat  \* n widens from uint32_t to uint64_t datum: no wrap

VARIABLES
  testtab,  \* the rows of testtaba
  printed,  \* the rows the last action printed, in order
  status,   \* "ok" or "aborted": how the last action ended
  last      \* the last action and its name argument

vars == <<testtab, printed, status, last>>

\* A row; pk is test_primary.value, the value primary_key() returns.
Row(u, sec, d) == [pk |-> u, secondary |-> sec, datum |-> d]

\* The order of the secid index: by_secondary(), then primary_key().
IndexLess(a, b) ==
  \/ a.secondary < b.secondary
  \/ a.secondary = b.secondary /\ a.pk < b.pk

\* The number of rows of t before r in the secid index.
IndexRank(t, r) == Cardinality({x \in t : IndexLess(x, r)})

\* The rows an iterator visits from idx.begin() to idx.end(): the k-th
\* has k - 1 rows before it in the index.
IndexWalk(t) ==
  [k \in 1 .. Cardinality(t) |-> CHOOSE r \in t : IndexRank(t, r) = k - 1]

Init ==
  /\ testtab = {}
  /\ printed = <<>>
  /\ status = "ok"
  /\ last = [op |-> "none", user |-> 0]

\* An aborted action: check failed, nothing it did is kept.
Abort(op, u) ==
  /\ status' = "aborted" /\ printed' = <<>>
  /\ last' = [op |-> op, user |-> u]
  /\ UNCHANGED testtab

\* Mutation of SetUser used to test RowsChangeOnlyByMod: set of a user that
\* has a row resets it to {user, "second", 0} instead of leaving it.
SetUserResets(u) ==
  /\ testtab' = IF FindRow(testtab, u) = {}
                  THEN Emplace(testtab, Row(u, Second, 0))
                  ELSE Modify(testtab, CHOOSE r \in FindRow(testtab, u) : TRUE,
                              Row(u, Second, 0))
  /\ status' = "ok" /\ printed' = <<>>
  /\ last' = [op |-> "set", user |-> u]

\* set(user): emplace {user, "second", 0} unless find(user) finds a row.
\* emplace aborts the action when a row already has the new row's primary
\* key; find(user.value) looks up the same key, so that branch is dead.
SetUser(u) ==
  IF FindRow(testtab, u) = {} /\ ~CanEmplace(testtab, Row(u, Second, 0))
    THEN Abort("set", u)
    ELSE /\ testtab' = IF FindRow(testtab, u) = {}
                         THEN Emplace(testtab, Row(u, Second, 0)) ELSE testtab
         /\ status' = "ok" /\ printed' = <<>>
         /\ last' = [op |-> "set", user |-> u]

\* print(user): check(itr != end(), "test table not set"), then print it.
PrintUser(u) ==
  \/ /\ FindRow(testtab, u) = {}
     /\ Abort("print", u)
  \/ \E r \in FindRow(testtab, u) :
       /\ printed' = <<r>> /\ status' = "ok"
       /\ last' = [op |-> "print", user |-> u]
       /\ UNCHANGED testtab

\* Mutation of Bysec used to test BysecPrintsEveryRow: the loop stops one
\* row early.
BysecShort(secid) ==
  LET idx == IndexWalk(testtab)
  IN /\ printed' = [k \in 1 .. Len(idx) - 1 |->
                      CHOOSE r \in FindRow(testtab, idx[k].pk) : TRUE]
     /\ status' = "ok"
     /\ last' = [op |-> "bysec", user |-> secid]
     /\ UNCHANGED testtab

\* bysec(secid): walk the secid index from begin() to end() and call the
\* print action on each row's test_primary, which finds and prints the row.
\* secid itself is never used.
Bysec(secid) ==
  LET idx == IndexWalk(testtab)
  IN /\ printed' = [k \in 1 .. Len(idx) |->
                      CHOOSE r \in FindRow(testtab, idx[k].pk) : TRUE]
     /\ status' = "ok"
     /\ last' = [op |-> "bysec", user |-> secid]
     /\ UNCHANGED testtab

\* mod(user, n): check the row exists, then modify secondary = user,
\* datum = n (the primary key is kept, as modify requires).
Mod(u, n) ==
  \/ /\ FindRow(testtab, u) = {}
     /\ Abort("mod", u)
  \/ \E r \in FindRow(testtab, u) :
       /\ CanModify(testtab, r, [r EXCEPT !.secondary = u, !.datum = n])
       /\ testtab' = Modify(testtab, r, [r EXCEPT !.secondary = u, !.datum = n])
       /\ status' = "ok" /\ printed' = <<>>
       /\ last' = [op |-> "mod", user |-> u]

Next ==
  \E u \in Users :
    \/ SetUser(u) \/ PrintUser(u) \/ Bysec(u)
    \/ \E n \in Ns : Mod(u, n)

Spec == Init /\ [][Next]_vars

-----------------------------------------------------------------------------
(***************************************************************************)
(* bysec prints every row of the table exactly once, in the order of the  *)
(* secid index, whatever mod has done to the secondary keys: the loop     *)
(* from begin() to end() and the print by primary key agree on the rows.  *)
(***************************************************************************)
BysecPrintsEveryRow ==
  last.op = "bysec" =>
    /\ Len(printed) = Cardinality(testtab)
    /\ ToSet(printed) = testtab
    /\ \A k \in 1 .. Len(printed) - 1 : IndexLess(printed[k], printed[k + 1])

(***************************************************************************)
(* No action removes a row, and a row changes only in mod of its own      *)
(* primary key: set leaves a row it finds untouched, print and bysec only *)
(* read, an aborted action reverts, and mod's modify rewrites the one row *)
(* find(user) returned, keeping its key.                                   *)
(***************************************************************************)
RowsChangeOnlyByMod ==
  [][\A r \in testtab :
       \E s \in testtab' :
         /\ s.pk = r.pk
         /\ s = r \/ last' = [op |-> "mod", user |-> r.pk]]_vars

=============================================================================
