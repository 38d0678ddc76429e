-------------------------- MODULE MC_NameToString --------------------------
(***************************************************************************)
(* name_to_string with NameLen = 3 (limbs of 13 bits, a string of 9       *)
(* dots): the names of MC_Names validated and decoded back, and four-limb *)
(* values whose first 6-bit group is 50 (charmap's terminating NUL) or 63 *)
(* (past the literal), next to one that stays inside charmap.             *)
(***************************************************************************)
EXTENDS NameToString, MC_Names

MCLimbInputs == {<<16 * 13, 0, 0, 0>>, <<16 * 50, 0, 0, 0>>, <<16 * 63, 0, 0, 0>>}
MCGarbage == {33}

=============================================================================
