----------------------------- MODULE MC_MoveMap -----------------------------
(***************************************************************************)
(* Two ADTs of two sub-tiles each over three slots, so that the second one *)
(* need not fit.  The first ADT has every kind of file there is.           *)
(***************************************************************************)
EXTENDS MoveMap, TLC

CONSTANTS a1, a2, p1, p2, q1, q2

F(v, bs, c) == [version |-> v, blobs |-> bs, cut |-> c]

Whole1 == F(6, <<p1, Empty, p2>>, FALSE)
Whole2 == F(6, <<q1, q2>>, FALSE)
Bad1 == F(6, <<Bad, p1>>, FALSE)
Nothing1 == F(6, <<Empty, Bad>>, FALSE)
Cut1 == F(6, <<p1>>, TRUE)
Legacy1 == F(4, <<p1>>, FALSE)
LegacyBad1 == F(4, <<Bad>>, FALSE)
LegacyCut1 == F(4, <<>>, TRUE)
Missing == F(0, <<>>, FALSE)

Disk(f1, f2) == (a1 :> f1) @@ (a2 :> f2)

GoodDisks == {Disk(f, Whole2) : f \in {Whole1, Bad1, Legacy1}}
AllDisks == {Disk(f, Whole2) : f \in {Whole1, Bad1, Nothing1, Cut1, Legacy1, LegacyBad1, LegacyCut1, Missing}}
CutDisks == {Disk(Cut1, Whole2)}

OneOff == {Disk("some", "empty")}
AllOff == {Disk("some", "empty"), Disk("missing", "rejected")}
=============================================================================
