---------------------------- MODULE MC_Singleton ----------------------------
(***************************************************************************)
(* The singleton on two scopes and three values of T, T() among them.     *)
(* No symmetry reduction: the run is small without it.                   *)
(***************************************************************************)
EXTENDS Singleton, TLC

CONSTANTS s1, s2, v0, v1, v2

MCScopes == {s1, s2}
MCValues == {v0, v1, v2}


=============================================================================
