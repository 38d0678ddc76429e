------------------------------ MODULE Singleton ------------------------------
(***************************************************************************)
(* eosio::singleton<SingletonNameV1..V4, T> (singleton.hpp): a            *)
(* multi_index table per scope whose rows all have the primary key        *)
(* pk_value, the four-limb table name.  Each method of the class is one   *)
(* action over the tables of the scopes; a failed check aborts the        *)
(* contract action, which leaves the tables as they were.  The account    *)
(* billed for RAM (bill_to_account) is left out: no property is about it. *)
(*                                                                         *)
(* The singleton is shown to implement SingletonAbstract under the        *)
(* mapping that reads each scope's value through find(pk_value).          *)
(***************************************************************************)
EXTENDS MultiIndex

CONSTANTS
  Scopes,   \* the scopes the singleton is constructed with
  Values,   \* values of T
  Default,  \* T(), the default argument of get_or_default and get_or_create
  Absent,   \* the abstract "no value"
  PK        \* pk_value

ASSUME SingletonAssumption ==
  /\ Default \in Values
  /\ Absent \notin Values

VARIABLES
  tables,  \* the rows of the singleton's table in each scope
  ret      \* the outcome of the last call, as in SingletonAbstract

vars == <<tables, ret>>

\* struct row { T value; primary_key() returns pk_value; }
Row(v) == [pk |-> PK, value |-> v]
Rows == {Row(v) : v \in Values}

Returned(op, ok, found, v) == [op |-> op, ok |-> ok, found |-> found, val |-> v]

\* _t.find(pk_value), and itr->value when itr != _t.end().
Found(s) == FindRow(tables[s], PK)
ValueOf(s) == (CHOOSE r \in Found(s) : TRUE).value

Init ==
  /\ tables = [s \in Scopes |-> {}]
  /\ ret = Returned("none", TRUE, FALSE, Default)

\* exists(): find(pk_value) != end().
Exists(s) ==
  /\ ret' = Returned("exists", TRUE, Found(s) # {}, Default)
  /\ UNCHANGED tables

\* get(): check(itr != end(), "singleton does not exist"), then itr->value.
Get(s) ==
  /\ ret' = IF Found(s) = {} THEN Returned("get", FALSE, FALSE, Default)
            ELSE Returned("get", TRUE, FALSE, ValueOf(s))
  /\ UNCHANGED tables

\* get_or_default(def): itr != end() ? itr->value : def.
GetOrDefault(s, def) ==
  /\ ret' = Returned("get_or_default", TRUE, FALSE,
                     IF Found(s) = {} THEN def ELSE ValueOf(s))
  /\ UNCHANGED tables

\* get_or_create(payer, def): itr->value, or the value of the row emplace
\* creates with value def; emplace aborts on a duplicate primary key.
GetOrCreate(s, def) ==
  \/ /\ Found(s) # {}
     /\ ret' = Returned("get_or_create", TRUE, FALSE, ValueOf(s))
     /\ UNCHANGED tables
  \/ /\ Found(s) = {}
     /\ IF CanEmplace(tables[s], Row(def))
          THEN /\ tables' = [tables EXCEPT ![s] = Emplace(@, Row(def))]
               /\ ret' = Returned("get_or_create", TRUE, FALSE, def)
          ELSE /\ ret' = Returned("get_or_create", FALSE, FALSE, Default)
               /\ UNCHANGED tables

\* Mutation of Set used to test Refines: set always emplaces.
SetAlwaysEmplace(s, v) ==
  IF CanEmplace(tables[s], Row(v))
    THEN /\ tables' = [tables EXCEPT ![s] = Emplace(@, Row(v))]
         /\ ret' = Returned("set", TRUE, FALSE, Default)
    ELSE /\ ret' = Returned("set", FALSE, FALSE, Default)
         /\ UNCHANGED tables

\* set(value, payer): modify the row find returns, or emplace a new one.
Set(s, v) ==
  \/ \E old \in Found(s) :
       IF CanModify(tables[s], old, [old EXCEPT !.value = v])
         THEN /\ tables' = [tables EXCEPT
                              ![s] = Modify(@, old, [old EXCEPT !.value = v])]
              /\ ret' = Returned("set", TRUE, FALSE, Default)
         ELSE /\ ret' = Returned("set", FALSE, FALSE, Default)
              /\ UNCHANGED tables
  \/ /\ Found(s) = {}
     /\ IF CanEmplace(tables[s], Row(v))
          THEN /\ tables' = [tables EXCEPT ![s] = Emplace(@, Row(v))]
               /\ ret' = Returned("set", TRUE, FALSE, Default)
          ELSE /\ ret' = Returned("set", FALSE, FALSE, Default)
               /\ UNCHANGED tables

\* remove(): erase the row find returns, if any.
Remove(s) ==
  /\ tables' = [tables EXCEPT ![s] = IF Found(s) = {} THEN @
                                     ELSE Erase(@, CHOOSE r \in Found(s) : TRUE)]
  /\ ret' = Returned("remove", TRUE, FALSE, Default)

Next ==
  \E s \in Scopes :
    \/ Exists(s) \/ Get(s) \/ Remove(s)
    \/ \E v \in Values :
         GetOrDefault(s, v) \/ GetOrCreate(s, v) \/ Set(s, v)

Spec == Init /\ [][Next]_vars

-----------------------------------------------------------------------------
\* Type invariant.
TypeOK ==
  /\ tables \in [Scopes -> SUBSET Rows]
  /\ ret \in [op : {"none", "exists", "get", "get_or_default", "get_or_create",
                    "set", "remove"},
              ok : BOOLEAN, found : BOOLEAN, val : Values]

\* The value of a scope as the abstract singleton sees it.
regBar == [s \in Scopes |-> IF Found(s) = {} THEN Absent ELSE ValueOf(s)]

A == INSTANCE SingletonAbstract WITH reg <- regBar

(***************************************************************************)
(* The singleton keeps the promise of its comments: every sequence of     *)
(* exists, get, get_or_default, get_or_create, set and remove on any      *)
(* scopes returns what a single optional value per scope would return,   *)
(* so set never hits emplace's uniqueness check, get returns the value    *)
(* last set or created since the last remove, and get aborts exactly when *)
(* there is none.                                                          *)
(***************************************************************************)
Refines == A!ASpec

=============================================================================
