------------------------ MODULE MC_MultiIndexExample ------------------------
(***************************************************************************)
(* Three users whose name values lie on both sides of "second"_n, so that *)
(* mod moves rows both before and after the rows set left at "second".    *)
(***************************************************************************)
EXTENDS MultiIndexExample_proofs

MCUsers == {1, 3, 5}
MCSecond == 4
MCNs == {0, 7}

=============================================================================
