-------------------------- MODULE SingletonAbstract --------------------------
(***************************************************************************)
(* What eosio::singleton promises its caller (the comments of              *)
(* singleton.hpp): per scope, one optional value.  exists tells whether    *)
(* there is one; get returns it and aborts the action ("singleton does not *)
(* exist") when there is none; get_or_default returns it or the default;  *)
(* get_or_create returns it or stores and returns the default; set stores *)
(* a value whether or not there was one; remove drops it.                 *)
(*                                                                         *)
(* ret is what the last call returned: its name, whether it completed     *)
(* (ok = FALSE for an aborted action), exists' answer and the value.      *)
(***************************************************************************)
CONSTANTS
  Scopes,   \* the scopes the singleton is constructed with
  Values,   \* values of T
  Default,  \* T()
  Absent    \* no value stored

\* Default is a value and Absent is not (SingletonAssumption of Singleton,
\* which instantiates this module, states it).

VARIABLES
  reg,  \* the value of each scope, or Absent
  ret   \* the outcome of the last call

absVars == <<reg, ret>>

Returned(op, ok, found, v) == [op |-> op, ok |-> ok, found |-> found, val |-> v]

AInit ==
  /\ reg = [s \in Scopes |-> Absent]
  /\ ret = Returned("none", TRUE, FALSE, Default)

AExists(s) ==
  /\ ret' = Returned("exists", TRUE, reg[s] # Absent, Default)
  /\ UNCHANGED reg

AGet(s) ==
  /\ ret' = IF reg[s] = Absent THEN Returned("get", FALSE, FALSE, Default)
            ELSE Returned("get", TRUE, FALSE, reg[s])
  /\ UNCHANGED reg

AGetOrDefault(s, def) ==
  /\ ret' = Returned("get_or_default", TRUE, FALSE,
                     IF reg[s] = Absent THEN def ELSE reg[s])
  /\ UNCHANGED reg

AGetOrCreate(s, def) ==
  /\ reg' = IF reg[s] = Absent THEN [reg EXCEPT ![s] = def] ELSE reg
  /\ ret' = Returned("get_or_create", TRUE, FALSE, reg'[s])

ASet(s, v) ==
  /\ reg' = [reg EXCEPT ![s] = v]
  /\ ret' = Returned("set", TRUE, FALSE, Default)

ARemove(s) ==
  /\ reg' = [reg EXCEPT ![s] = Absent]
  /\ ret' = Returned("remove", TRUE, FALSE, Default)

ANext ==
  \E s \in Scopes :
    \/ AExists(s) \/ AGet(s) \/ ARemove(s)
    \/ \E v \in Values :
         AGetOrDefault(s, v) \/ AGetOrCreate(s, v) \/ ASet(s, v)

ASpec == AInit /\ [][ANext]_absVars

=============================================================================
