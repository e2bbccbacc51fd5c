---------------------------- MODULE MCScoreUnion ----------------------------
(* An instance of ScoreUnion for TLC: the middle segment is of a document  *)
(* of its own, the two others share one.  All that can be asked, of two    *)
(* postings of small weights over three segments, and, without a filter    *)
(* and a limit, all of three postings over two.                            *)
EXTENDS ScoreUnion, TLC

CONSTANTS k1, k2

MCIds == {1, 2, 3}
MCKeyOf == (1 :> k1) @@ (2 :> k2) @@ (3 :> k1)
MCNulls == {n \in [MCIds -> {0, 3}] : n[2] = 0}

Plans(ids, n, top) ==
  [ops : [1..n -> SUBSET ids], weights : [1..n -> 0..top], minShared : 0..n]

MCCases ==
  {<<Plans(MCIds, 2, 2),
     [floored : {BOOLEAN}, visible : {MCIds, MCIds \ {1}}, null : MCNulls,
      limit : {0, 1, 2, NoLimit}]>>,
   <<Plans({1, 2}, 3, 3) \cup Plans({1}, 0, 0),
     [floored : {{FALSE}}, visible : {MCIds}, null : {[i \in MCIds |-> 0]},
      limit : {NoLimit}]>>}
=============================================================================
