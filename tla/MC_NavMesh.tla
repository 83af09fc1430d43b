---------------------------- MODULE MC_NavMesh -----------------------------
(***************************************************************************)
(* Three tiles over a row of three cells with two layers, the first and    *)
(* the last of which are not neighbours and have one hash chain.  The      *)
(* tiles of the middle cell have room for one link, the others for all.    *)
(***************************************************************************)
EXTENDS NavMesh

Row == {<<0, 0>>, <<1, 0>>, <<2, 0>>}

OneInTheMiddle == [l \in Locs |-> IF l.x = 1 THEN 1 ELSE 6]
=============================================================================
