--------------------------- MODULE MC_Datastream ---------------------------
(***************************************************************************)
(* The cursor of Datastream over a storage of 3 bytes with one modelled    *)
(* byte on each side, two byte values (0 the blank content), skips of -1  *)
(* and +1 and moves of up to 2 bytes: enough for a write that ends exactly *)
(* at the end, one that would cross it, a construction over a prefix, and *)
(* a skip back past the start.                                             *)
(***************************************************************************)
EXTENDS Datastream

MCCap == 3
MCSlack == 1
MCBytes == {0, 1}
MCSteps == {-1, 1}
MCMaxWrite == 2
MCMaxCount == 3

=============================================================================
