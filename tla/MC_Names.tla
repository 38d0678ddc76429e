------------------------------ MODULE MC_Names ------------------------------
(***************************************************************************)
(* Names with NameLen = 3 over nine characters: NUL, '.', '-', '0', 'a',   *)
(* 'z', 'A' (folded onto 'a'), '_' (one of the twelve punctuation cases)  *)
(* and '!' (not in charmap), every string of up to NameLen + 1 of them,   *)
(* so that the length check, the packing of every position and the       *)
(* trimming of trailing dots are all reached.                              *)
(***************************************************************************)
EXTENDS Names

MCNameLen == 3
MCAlphabet == {0, 46, 45, 48, 97, 122, 65, 33, 95}
MCInputs == UNION {[1 .. k -> MCAlphabet] : k \in 0 .. MCNameLen + 1}

=============================================================================
