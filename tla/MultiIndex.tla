----------------------------- MODULE MultiIndex -----------------------------
(***************************************************************************)
(* The table interface of eosio::multi_index that the singleton and the   *)
(* example contracts call.  multi_index.hpp is not part of this source    *)
(* tree and spec.md treats the table as an external collaborator, so      *)
(* these operators are written from that interface: a table of one code   *)
(* and scope is a set of rows, each a record whose field pk is the        *)
(* primary key.                                                            *)
(*                                                                         *)
(* A failed eosio::check inside a contract action aborts the action and   *)
(* reverts every change it made; the modules that use these operators     *)
(* model that as a step that leaves the tables unchanged.                  *)
(***************************************************************************)

\* find(k): the row with primary key k, as a set of at most one row (the
\* empty set is end()).
FindRow(t, k) == {r \in t : r.pk = k}

\* emplace(payer, ctor) checks that no row has the new row's primary key
\* ("could not insert object, most likely a uniqueness constraint was
\* violated"); Emplace is the table after it.
CanEmplace(t, r) == \A x \in t : x.pk # r.pk
Emplace(t, r) == t \cup {r}

\* modify(itr, payer, updater) requires a row of the table and an updater
\* that keeps the primary key ("updater cannot change primary key").
CanModify(t, old, new) == old \in t /\ new.pk = old.pk
Modify(t, old, new) == (t \ {old}) \cup {new}

\* erase(itr) removes the row itr points at.
Erase(t, old) == t \ {old}

=============================================================================
