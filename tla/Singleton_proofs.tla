-------------------------- MODULE Singleton_proofs --------------------------
(***************************************************************************)
(* Proofs about the singleton for every set of scopes and values: the     *)
(* table of a scope never holds more than the one row with key pk_value,  *)
(* and the singleton implements SingletonAbstract.                         *)
(***************************************************************************)
EXTENDS Singleton, TLAPS

USE SingletonAssumption

\* The value the abstract singleton sees in one table.
Reg(t) == IF FindRow(t, PK) = {} THEN Absent
          ELSE (CHOOSE r \in FindRow(t, PK) : TRUE).value

\* The tables a scope can be in: empty, or the single row of some value.
TableStates == {{}} \cup {{Row(v)} : v \in Values}

(***************************************************************************)
(* The inductive invariant.  That every table is empty or one row is what *)
(* makes find(pk_value) decide correctly between modify and emplace, and  *)
(* what makes the CHOOSE of the mapping pick the one value stored.        *)
(***************************************************************************)
OneRow == tables \in [Scopes -> TableStates]
IInv == TypeOK /\ OneRow

LEMMA RegEmpty == Reg({}) = Absent
  BY DEF Reg, FindRow

LEMMA RegRow ==
  ASSUME NEW v \in Values
  PROVE  /\ FindRow({Row(v)}, PK) = {Row(v)}
         /\ Reg({Row(v)}) = v
<1>1. FindRow({Row(v)}, PK) = {Row(v)}
  BY DEF FindRow, Row
<1>2. (CHOOSE r \in {Row(v)} : TRUE) = Row(v)
  OBVIOUS
<1>. QED  BY <1>1, <1>2 DEF Reg, Row

\* The mapping, read through Reg, before and after a step.
LEMMA RegBar ==
  /\ regBar = [s \in Scopes |-> Reg(tables[s])]
  /\ regBar' = [s \in Scopes |-> Reg(tables'[s])]
  BY DEF regBar, Found, ValueOf, Reg

\* In a state of the invariant, find and itr->value return the row stored.
LEMMA FoundRow ==
  ASSUME OneRow, NEW s \in Scopes
  PROVE  \/ tables[s] = {} /\ Found(s) = {} /\ regBar[s] = Absent
         \/ \E v \in Values : /\ tables[s] = {Row(v)}
                              /\ Found(s) = {Row(v)}
                              /\ ValueOf(s) = v
                              /\ regBar[s] = v
<1>1. CASE tables[s] = {}
  BY <1>1, RegEmpty, RegBar DEF Found, FindRow
<1>2. CASE tables[s] # {}
  <2>1. PICK v \in Values : tables[s] = {Row(v)}
    BY <1>2 DEF OneRow, TableStates
  <2>2. Found(s) = {Row(v)} /\ regBar[s] = v
    BY <2>1, RegRow, RegBar DEF Found
  <2>3. ValueOf(s) = v
    BY <2>1, <2>2, RegRow DEF ValueOf, Reg
  <2>. QED  BY <2>1, <2>2, <2>3
<1>. QED  BY <1>1, <1>2

-----------------------------------------------------------------------------
(***************************************************************************)
(* What each method does to the tables in a state of the invariant.       *)
(***************************************************************************)
LEMMA SetEffect ==
  ASSUME OneRow, NEW s \in Scopes, NEW v \in Values, Set(s, v)
  PROVE  /\ tables' = [tables EXCEPT ![s] = {Row(v)}]
         /\ ret' = Returned("set", TRUE, FALSE, Default)
<1>1. CASE tables[s] = {}
  <2>1. Found(s) = {} /\ CanEmplace(tables[s], Row(v))
    BY <1>1 DEF Found, FindRow, CanEmplace
  <2>. QED  BY <1>1, <2>1 DEF Set, Emplace
<1>2. CASE tables[s] # {}
  <2>1. PICK w \in Values : tables[s] = {Row(w)} /\ Found(s) = {Row(w)}
    BY <1>2, FoundRow
  <2>2. [Row(w) EXCEPT !.value = v] = Row(v)
    BY DEF Row
  <2>3. CanModify(tables[s], Row(w), Row(v))
    BY <2>1 DEF CanModify, Row
  <2>4. Modify(tables[s], Row(w), Row(v)) = {Row(v)}
    BY <2>1 DEF Modify
  <2>. QED  BY <2>1, <2>2, <2>3, <2>4 DEF Set
<1>. QED  BY <1>1, <1>2

LEMMA GetOrCreateEffect ==
  ASSUME OneRow, NEW s \in Scopes, NEW v \in Values, GetOrCreate(s, v)
  PROVE  IF tables[s] = {}
           THEN /\ tables' = [tables EXCEPT ![s] = {Row(v)}]
                /\ ret' = Returned("get_or_create", TRUE, FALSE, v)
           ELSE /\ tables' = tables
                /\ ret' = Returned("get_or_create", TRUE, FALSE, regBar[s])
<1>1. CASE tables[s] = {}
  <2>1. Found(s) = {} /\ CanEmplace(tables[s], Row(v))
    BY <1>1 DEF Found, FindRow, CanEmplace
  <2>. QED  BY <1>1, <2>1 DEF GetOrCreate, Emplace
<1>2. CASE tables[s] # {}
  <2>1. PICK w \in Values : /\ tables[s] = {Row(w)} /\ Found(s) = {Row(w)}
                            /\ ValueOf(s) = w /\ regBar[s] = w
    BY <1>2, FoundRow
  <2>. QED  BY <1>2, <2>1 DEF GetOrCreate
<1>. QED  BY <1>1, <1>2

LEMMA RemoveEffect ==
  ASSUME OneRow, NEW s \in Scopes, Remove(s)
  PROVE  /\ tables' = [tables EXCEPT ![s] = {}]
         /\ ret' = Returned("remove", TRUE, FALSE, Default)
<1>1. CASE tables[s] = {}
  BY <1>1 DEF Remove, Found, FindRow
<1>2. CASE tables[s] # {}
  <2>1. PICK w \in Values : tables[s] = {Row(w)} /\ Found(s) = {Row(w)}
    BY <1>2, FoundRow
  <2>2. (CHOOSE r \in Found(s) : TRUE) = Row(w)
    BY <2>1
  <2>3. Erase(tables[s], Row(w)) = {}
    BY <2>1 DEF Erase
  <2>. QED  BY <2>1, <2>2, <2>3 DEF Remove
<1>. QED  BY <1>1, <1>2

-----------------------------------------------------------------------------
LEMMA InitIInv == Init => IInv
<1>. SUFFICES ASSUME Init PROVE IInv
  OBVIOUS
<1>1. tables \in [Scopes -> TableStates]
  BY DEF Init, TableStates
<1>2. tables \in [Scopes -> SUBSET Rows]
  BY DEF Init
<1>. QED  BY <1>1, <1>2 DEF Init, IInv, TypeOK, OneRow, Returned

\* A step that puts the table of s into a state of TableStates keeps IInv.
LEMMA TablesStep ==
  ASSUME IInv, NEW s \in Scopes, NEW x \in TableStates,
         tables' = [tables EXCEPT ![s] = x]
  PROVE  tables' \in [Scopes -> TableStates]
         /\ tables' \in [Scopes -> SUBSET Rows]
<1>1. x \in SUBSET Rows
  BY DEF TableStates, Rows
<1>2. \A t \in TableStates : t \in SUBSET Rows
  BY DEF TableStates, Rows
<1>. QED  BY <1>1, <1>2 DEF IInv, OneRow, TypeOK

LEMMA NextIInv == IInv /\ [Next]_vars => IInv'
<1>. SUFFICES ASSUME IInv, [Next]_vars PROVE IInv'
  OBVIOUS
<1>0. OneRow
  BY DEF IInv
<1>1. ASSUME NEW s \in Scopes, Exists(s) \/ Get(s) PROVE IInv'
  <2>1. tables' = tables
    BY <1>1 DEF Exists, Get
  <2>2. (Found(s) # {}) \in BOOLEAN /\ Default \in Values
    OBVIOUS
  <2>3. CASE Exists(s)
    BY <2>1, <2>2, <2>3 DEF Exists, IInv, TypeOK, OneRow, Returned
  <2>4. CASE Get(s) /\ Found(s) = {}
    BY <2>1, <2>4 DEF Get, IInv, TypeOK, OneRow, Returned
  <2>5. CASE Get(s) /\ Found(s) # {}
    <3>1. ValueOf(s) \in Values
      BY <1>0, <2>5, FoundRow
    <3>. QED  BY <2>1, <2>5, <3>1 DEF Get, IInv, TypeOK, OneRow, Returned
  <2>. QED  BY <1>1, <2>3, <2>4, <2>5
<1>2. ASSUME NEW s \in Scopes, NEW v \in Values, GetOrDefault(s, v) PROVE IInv'
  <2>1. ValueOf(s) \in Values \/ Found(s) = {}
    BY <1>0, FoundRow
  <2>. QED  BY <1>2, <2>1 DEF GetOrDefault, IInv, TypeOK, OneRow, Returned
<1>3. ASSUME NEW s \in Scopes, NEW v \in Values, GetOrCreate(s, v) PROVE IInv'
  <2>1. CASE tables[s] = {}
    <3>1. tables' = [tables EXCEPT ![s] = {Row(v)}]
          /\ ret' = Returned("get_or_create", TRUE, FALSE, v)
      BY <1>0, <1>3, <2>1, GetOrCreateEffect
    <3>2. {Row(v)} \in TableStates
      BY DEF TableStates
    <3>. QED  BY <3>1, <3>2, TablesStep DEF IInv, TypeOK, OneRow, Returned
  <2>2. CASE tables[s] # {}
    <3>1. tables' = tables
          /\ ret' = Returned("get_or_create", TRUE, FALSE, regBar[s])
      BY <1>0, <1>3, <2>2, GetOrCreateEffect
    <3>2. regBar[s] \in Values
      BY <1>0, <2>2, FoundRow
    <3>. QED  BY <3>1, <3>2 DEF IInv, TypeOK, OneRow, Returned
  <2>. QED  BY <2>1, <2>2
<1>4. ASSUME NEW s \in Scopes, NEW v \in Values, Set(s, v) PROVE IInv'
  <2>1. tables' = [tables EXCEPT ![s] = {Row(v)}]
        /\ ret' = Returned("set", TRUE, FALSE, Default)
    BY <1>0, <1>4, SetEffect
  <2>2. {Row(v)} \in TableStates
    BY DEF TableStates
  <2>. QED  BY <2>1, <2>2, TablesStep DEF IInv, TypeOK, OneRow, Returned
<1>5. ASSUME NEW s \in Scopes, Remove(s) PROVE IInv'
  <2>1. tables' = [tables EXCEPT ![s] = {}]
        /\ ret' = Returned("remove", TRUE, FALSE, Default)
    BY <1>0, <1>5, RemoveEffect
  <2>2. {} \in TableStates
    BY DEF TableStates
  <2>. QED  BY <2>1, <2>2, TablesStep DEF IInv, TypeOK, OneRow, Returned
<1>6. CASE UNCHANGED vars
  BY <1>6 DEF vars, IInv, TypeOK, OneRow
<1>. QED  BY <1>1, <1>2, <1>3, <1>4, <1>5, <1>6 DEF Next

-----------------------------------------------------------------------------
(***************************************************************************)
(* The refinement.  Under regBar every step of the singleton is the step  *)
(* of SingletonAbstract for the same method, scope and argument, with the *)
(* same return; the invariant OneRow is what makes find(pk_value) and the *)
(* value it returns agree with regBar.                                     *)
(***************************************************************************)
LEMMA RegBarStep ==
  ASSUME NEW s \in Scopes, NEW x, tables \in [Scopes -> TableStates],
         tables' = [tables EXCEPT ![s] = x]
  PROVE  regBar' = [regBar EXCEPT ![s] = Reg(x)]
BY RegBar

LEMMA RegBarUnchanged ==
  ASSUME tables' = tables
  PROVE  regBar' = regBar
BY RegBar

LEMMA InitRefines == Init => A!AInit
<1>. SUFFICES ASSUME Init PROVE A!AInit
  OBVIOUS
<1>1. regBar = [s \in Scopes |-> Absent]
  BY RegBar, RegEmpty DEF Init
<1>. QED  BY <1>1 DEF Init, A!AInit, Returned, A!Returned

LEMMA StepRefines == IInv /\ [Next]_vars => [A!ANext]_A!absVars
<1>. SUFFICES ASSUME IInv, [Next]_vars PROVE [A!ANext]_A!absVars
  OBVIOUS
<1>0. OneRow
  BY DEF IInv
<1>1. ASSUME NEW s \in Scopes, Exists(s) PROVE A!AExists(s)
  <2>1. regBar' = regBar
    BY <1>1, RegBarUnchanged DEF Exists
  <2>2. (Found(s) # {}) = (regBar[s] # Absent)
    BY <1>0, FoundRow
  <2>. QED  BY <1>1, <2>1, <2>2 DEF Exists, A!AExists, Returned, A!Returned
<1>2. ASSUME NEW s \in Scopes, Get(s) PROVE A!AGet(s)
  <2>1. regBar' = regBar
    BY <1>2, RegBarUnchanged DEF Get
  <2>2. CASE Found(s) = {}
    <3>1. regBar[s] = Absent
      BY <1>0, <2>2, FoundRow
    <3>. QED  BY <1>2, <2>1, <2>2, <3>1 DEF Get, A!AGet, Returned, A!Returned
  <2>3. CASE Found(s) # {}
    <3>1. regBar[s] = ValueOf(s) /\ regBar[s] # Absent
      BY <1>0, <2>3, FoundRow
    <3>. QED  BY <1>2, <2>1, <2>3, <3>1 DEF Get, A!AGet, Returned, A!Returned
  <2>. QED  BY <2>2, <2>3
<1>3. ASSUME NEW s \in Scopes, NEW v \in Values, GetOrDefault(s, v)
      PROVE  A!AGetOrDefault(s, v)
  <2>1. regBar' = regBar
    BY <1>3, RegBarUnchanged DEF GetOrDefault
  <2>2. CASE Found(s) = {}
    <3>1. regBar[s] = Absent
      BY <1>0, <2>2, FoundRow
    <3>. QED  BY <1>3, <2>1, <2>2, <3>1
              DEF GetOrDefault, A!AGetOrDefault, Returned, A!Returned
  <2>3. CASE Found(s) # {}
    <3>1. regBar[s] = ValueOf(s) /\ regBar[s] # Absent
      BY <1>0, <2>3, FoundRow
    <3>. QED  BY <1>3, <2>1, <2>3, <3>1
              DEF GetOrDefault, A!AGetOrDefault, Returned, A!Returned
  <2>. QED  BY <2>2, <2>3
<1>4. ASSUME NEW s \in Scopes, NEW v \in Values, GetOrCreate(s, v)
      PROVE  A!AGetOrCreate(s, v)
  <2>1. CASE tables[s] = {}
    <3>1. tables' = [tables EXCEPT ![s] = {Row(v)}]
          /\ ret' = Returned("get_or_create", TRUE, FALSE, v)
      BY <1>0, <1>4, <2>1, GetOrCreateEffect
    <3>2. regBar' = [regBar EXCEPT ![s] = v]
      BY <1>0, <3>1, RegBarStep, RegRow DEF OneRow
    <3>3. regBar[s] = Absent
      BY <1>0, <2>1, FoundRow
    <3>4. regBar'[s] = v
      BY <3>2, RegBar
    <3>. QED  BY <3>1, <3>2, <3>3, <3>4 DEF A!AGetOrCreate, Returned, A!Returned
  <2>2. CASE tables[s] # {}
    <3>1. tables' = tables
          /\ ret' = Returned("get_or_create", TRUE, FALSE, regBar[s])
      BY <1>0, <1>4, <2>2, GetOrCreateEffect
    <3>2. regBar[s] # Absent
      BY <1>0, <2>2, FoundRow
    <3>3. regBar' = regBar
      BY <3>1, RegBarUnchanged
    <3>. QED  BY <3>1, <3>2, <3>3 DEF A!AGetOrCreate, Returned, A!Returned
  <2>. QED  BY <2>1, <2>2
<1>5. ASSUME NEW s \in Scopes, NEW v \in Values, Set(s, v) PROVE A!ASet(s, v)
  <2>1. tables' = [tables EXCEPT ![s] = {Row(v)}]
        /\ ret' = Returned("set", TRUE, FALSE, Default)
    BY <1>0, <1>5, SetEffect
  <2>2. regBar' = [regBar EXCEPT ![s] = v]
    BY <1>0, <2>1, RegBarStep, RegRow DEF OneRow
  <2>. QED  BY <2>1, <2>2 DEF A!ASet, Returned, A!Returned
<1>6. ASSUME NEW s \in Scopes, Remove(s) PROVE A!ARemove(s)
  <2>1. tables' = [tables EXCEPT ![s] = {}]
        /\ ret' = Returned("remove", TRUE, FALSE, Default)
    BY <1>0, <1>6, RemoveEffect
  <2>2. regBar' = [regBar EXCEPT ![s] = Absent]
    BY <1>0, <2>1, RegBarStep, RegEmpty DEF OneRow
  <2>. QED  BY <2>1, <2>2 DEF A!ARemove, Returned, A!Returned
<1>7. CASE UNCHANGED vars
  <2>1. regBar' = regBar
    BY <1>7, RegBarUnchanged DEF vars
  <2>. QED  BY <1>7, <2>1 DEF vars, A!absVars
<1>. QED  BY <1>1, <1>2, <1>3, <1>4, <1>5, <1>6, <1>7 DEF Next, A!ANext

-----------------------------------------------------------------------------
(***************************************************************************)
(* For every set of scopes and values of T, the table of each scope holds *)
(* at most the one row with key pk_value and every call returns a value   *)
(* of T: set's find-then-modify-or-emplace never creates a second row.    *)
(***************************************************************************)
THEOREM TypeCorrect == Spec => [](TypeOK /\ OneRow)
<1>1. Init => IInv
  BY InitIInv
<1>2. IInv /\ [Next]_vars => IInv'
  BY NextIInv
<1>. QED  BY <1>1, <1>2, PTL DEF Spec, IInv

(***************************************************************************)
(* For every set of scopes and values of T, the singleton of              *)
(* singleton.hpp implements the optional value per scope of               *)
(* SingletonAbstract: get aborts exactly when nothing was set or created  *)
(* since the last remove, and otherwise returns the last value stored;    *)
(* set and get_or_create never abort.                                      *)
(***************************************************************************)
THEOREM Refinement == Spec => Refines
<1>1. Spec => []IInv
  BY InitIInv, NextIInv, PTL DEF Spec
<1>2. Init => A!AInit
  BY InitRefines
<1>3. IInv /\ [Next]_vars => [A!ANext]_A!absVars
  BY StepRefines
<1>. QED  BY <1>1, <1>2, <1>3, PTL DEF Spec, Refines, A!ASpec

=============================================================================
