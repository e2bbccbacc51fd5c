---------------------------- MODULE MCRankFusion ----------------------------
(* An instance of RankFusion for TLC: the second document has two          *)
(* segments.                                                               *)
EXTENDS RankFusion, TLC

CONSTANTS k1, k2, k3

MCKeys == {k1, k2, k3}
MCSegsOf == (k1 :> {4}) @@ (k2 :> {1, 3}) @@ (k3 :> {2})
MCScores == {0, 1}
MCWeightPairs == {<<5, 5>>, <<9, 1>>}
=============================================================================
