----------------------------- MODULE RankFusion -----------------------------
(***************************************************************************)
(* rrf_fuse of src/search.rs: the rankings of a starved query's two views  *)
(* are merged by reciprocal ranks.  A key earns weight / (K + rank) from   *)
(* each view that ranks it and nothing from one that does not, and is      *)
(* represented by its candidate in the view that ranks it best.            *)
(*                                                                         *)
(* Contributions are integers: the fractions over the product of all the   *)
(* denominators K + rank.                                                  *)
(***************************************************************************)
EXTENDS Integers, Sequences, FiniteSets, FiniteSetsExt

CONSTANTS
  Keys,       (* document keys                                             *)
  SegsOf,     (* the segments of each key                                  *)
  Scores,     (* integer energies a candidate may have                     *)
  Krrf,       (* K_RRF                                                     *)
  WeightPairs (* the weights of the two views                              *)

ASSUME FusionInputs ==
  /\ IsFiniteSet(Keys) /\ Scores \subseteq Nat /\ Krrf \in Nat
  /\ \A key \in Keys : SegsOf[key] \subseteq Int
  /\ \A key, other \in Keys : key # other => SegsOf[key] \cap SegsOf[other] = {}
  /\ \A w \in WeightPairs : w[1] \in Nat \ {0} /\ w[2] \in Nat \ {0}

Views == {1, 2}
Positions == 1..Cardinality(Keys)

VARIABLES
  views,      (* the two rankings: a view may miss keys, and has none twice *)
  viewWeights,
  cursor,     (* the loop: the view and the position it has come to        *)
  acc,        (* key -> its candidate, fused score and best rank           *)
  answer      (* the answer, once there is one                             *)

fusionVars == <<views, viewWeights, cursor, acc, answer>>

-----------------------------------------------------------------------------

Candidates(key) == [key : {key}, seg : SegsOf[key], score : Scores]

(* A ranking of score_union: one candidate per key.                        *)
Rankings ==
  LET orders == {o \in UNION {[1..n -> Keys] : n \in 0..Cardinality(Keys)} :
                   \A m, n \in DOMAIN o : o[m] = o[n] => m = n}
      filled(o) == {r \in [DOMAIN o -> UNION {Candidates(key) : key \in Keys}] :
                      \A n \in DOMAIN o : r[n].key = o[n]}
  IN UNION {filled(o) : o \in orders}

Denominator == FoldSet(LAMBDA r, p : p * (Krrf + r), 1, Positions)

(* Faulty: every rank of a view earns the same.                            *)
ContributionOfAny(v, rank) == viewWeights[v] * Denominator

Contribution(v, rank) == viewWeights[v] * (Denominator \div (Krrf + rank))

Merged(slot, c, earned, rank) ==
  [cand  |-> IF rank < slot.rank THEN c ELSE slot.cand,
   fused |-> slot.fused + earned,
   rank  |-> Min({rank, slot.rank})]

(* fused desc, then integer energy desc, then segment id asc.              *)
Outranks(x, y) ==
  \/ x.fused > y.fused
  \/ x.fused = y.fused /\ x.cand.score > y.cand.score
  \/ x.fused = y.fused /\ x.cand.score = y.cand.score /\ x.cand.seg < y.cand.seg

-----------------------------------------------------------------------------

FusionInit ==
  /\ views \in [Views -> Rankings]
  /\ viewWeights \in WeightPairs
  /\ cursor = [view |-> 1, rank |-> 1]
  /\ acc = <<>>
  /\ answer = <<>>

Accumulate ==
  /\ cursor.view \in Views /\ cursor.rank <= Len(views[cursor.view])
  /\ LET c      == views[cursor.view][cursor.rank]
         earned == Contribution(cursor.view, cursor.rank)
     IN acc' = [key \in DOMAIN acc \cup {c.key} |->
                  IF key # c.key THEN acc[key]
                  ELSE IF key \in DOMAIN acc THEN Merged(acc[key], c, earned, cursor.rank)
                  ELSE [cand |-> c, fused |-> earned, rank |-> cursor.rank]]
  /\ cursor' = [cursor EXCEPT !.rank = @ + 1]
  /\ UNCHANGED <<views, viewWeights, answer>>

NextView ==
  /\ cursor.view \in Views /\ cursor.rank > Len(views[cursor.view])
  /\ cursor' = [view |-> cursor.view + 1, rank |-> 1]
  /\ UNCHANGED <<views, viewWeights, acc, answer>>

(* The loops are over: sort.  A limit cuts this list at the end.           *)
Sort ==
  /\ cursor.view \notin Views /\ answer = <<>> /\ acc # <<>>
  /\ LET slots == {acc[key] : key \in DOMAIN acc}
     IN answer' = [n \in 1..Cardinality(slots) |->
                     CHOOSE s \in slots : Cardinality({t \in slots : Outranks(t, s)}) = n - 1]
  /\ UNCHANGED <<views, viewWeights, cursor, acc>>

FusionNext == Accumulate \/ NextView \/ Sort

FusionSpec == FusionInit /\ [][FusionNext]_fusionVars

-----------------------------------------------------------------------------
(* Properties.                                                             *)

RankOf(key, v) ==
  IF \E n \in DOMAIN views[v] : views[v][n].key = key
  THEN CHOOSE n \in DOMAIN views[v] : views[v][n].key = key
  ELSE 0

Ranked(key, v) == RankOf(key, v) > 0

(* Fusion respects agreement: what every view that ranks b puts ahead of b *)
(* comes out ahead of b, ties and weights notwithstanding.                 *)
Dominance ==
  \A m, n \in DOMAIN answer :
    LET a == answer[m].cand.key
        b == answer[n].cand.key
    IN (/\ a # b
        /\ \A v \in Views : Ranked(b, v) => Ranked(a, v) /\ RankOf(a, v) < RankOf(b, v))
       => m < n

=============================================================================
