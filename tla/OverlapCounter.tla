--------------------------- MODULE OverlapCounter ---------------------------
(***************************************************************************)
(* The bit-sliced overlap engine (crates/trifle-overlap/src/lib.rs): plan  *)
(* adds every posting, weighted, into bit planes and collects the sums of  *)
(* weights that can occur; a Walk then visits the scores from the highest  *)
(* down and yields the ids of each, gated by their raw overlap.            *)
(*                                                                         *)
(* Planes are Width many from the start, where the code pushes one when a  *)
(* carry first reaches it: a plane not pushed yet is empty.                *)
(***************************************************************************)
EXTENDS Integers, Sequences, FiniteSets, FiniteSetsExt

CONSTANTS
  Ids,          (* segment ids: integers, the walk being in ascending order *)
  Width         (* planes: enough bits for any sum of weights              *)

ASSUME SegmentIds == Ids \subseteq Int /\ IsFiniteSet(Ids) /\ Width \in Nat

Bits == 0..Width - 1

VARIABLES
  ops,          (* the postings, a sequence                                *)
  weights,      (* one weight per posting                                  *)
  minShared,    (* the raw-overlap floor asked for                         *)
  added,        (* how many postings are in the planes                     *)
  planes,       (* Counter.weighted                                        *)
  reachable,    (* the c with Counter.reachable[c]                         *)
  nextC,        (* Walk.next_c                                             *)
  curScore,     (* Walk.cur_score                                          *)
  bucket,       (* what Walk.bucket still holds past Walk.pos              *)
  yielded       (* what advance has returned so far                        *)

inputs == <<ops, weights, minShared>>
plan   == <<added, planes, reachable>>
walk   == <<nextC, curScore, bucket, yielded>>

Slots == DOMAIN ops

-----------------------------------------------------------------------------

Pow2[n \in 0..Width] == IF n = 0 THEN 1 ELSE 2 * Pow2[n - 1]

Bit(c, b) == (c \div Pow2[b]) % 2 = 1

(* Faulty: the carry out of a plane is not passed on.                      *)
RippleOneLevel(acc, op, start) ==
  [b \in Bits |-> IF b = start THEN SymDiff(acc[b], op)
                  ELSE IF b = start + 1 THEN acc[b] \cup (op \cap acc[start])
                  ELSE acc[b]]

(* One carry injected at plane start: it goes on from a plane exactly for  *)
(* the ids that plane and all below it already hold.                       *)
Ripple(acc, op, start) ==
  [b \in Bits |->
    IF b < start THEN acc[b]
    ELSE SymDiff(acc[b], {i \in op : \A k \in start..b - 1 : i \in acc[k]})]

(* add_weighted: one carry at each set bit of w, lowest first.             *)
AddWeighted(acc, op, w) ==
  LET upTo[b \in 0..Width] ==
        IF b = 0 THEN acc
        ELSE IF Bit(w, b - 1) THEN Ripple(upTo[b - 1], op, b - 1) ELSE upTo[b - 1]
  IN upTo[Width]

(* The 0/1 knapsack, one weight.                                           *)
ExtendReachable(sums, w) == sums \cup {c + w : c \in sums}

(* Faulty: the planes of c's clear bits are not subtracted.                *)
CountEqSuperset(c) == {i \in Ids : \A b \in Bits : Bit(c, b) => i \in planes[b]}

(* count_eq_into: the ids that are in the planes of c's bits and no other. *)
CountEq(c) ==
  IF c = 0 THEN {}
  ELSE {i \in Ids : \A b \in Bits : (i \in planes[b]) = Bit(c, b)}

Floor == Max({1, Min({minShared, Len(ops)})})

(* With a weight of 0 a score may be below the raw overlap, so every       *)
(* positive score is scanned.                                              *)
ScanFloor == IF \E k \in Slots : weights[k] = 0 THEN 1 ELSE Floor

MaxScore == MapThenSumSet(LAMBDA k : weights[k], Slots)

AllWeightOne == Len(ops) > 0 /\ \A k \in Slots : weights[k] = 1

RawOverlap(i) == Cardinality({k \in Slots : i \in ops[k]})

Overlap(i) == IF AllWeightOne THEN curScore ELSE RawOverlap(i)

-----------------------------------------------------------------------------

(* build_weighted is called with the inputs; no walk is open yet.          *)
Unplanned ==
  /\ added = 0
  /\ planes = [b \in Bits |-> {}]
  /\ reachable = {0}
  /\ nextC = 0 /\ curScore = 0 /\ bucket = {} /\ yielded = <<>>

(* plan, posting by posting (its two loops over them are one here).        *)
AddOperand ==
  /\ added < Len(ops)
  /\ added' = added + 1
  /\ planes' = AddWeighted(planes, ops[added + 1], weights[added + 1])
  /\ reachable' = ExtendReachable(reachable, weights[added + 1])
  /\ nextC' = IF added' = Len(ops) THEN MaxScore ELSE nextC
  /\ UNCHANGED <<inputs, curScore, bucket, yielded>>

(* advance, inner loop: the next id of the bucket, returned if it clears   *)
(* the raw floor.                                                          *)
Drain ==
  LET i == Min(bucket)
  IN /\ bucket # {}
     /\ bucket' = bucket \ {i}
     /\ yielded' = IF Overlap(i) >= Floor
                   THEN Append(yielded, [id |-> i, score |-> curScore, overlap |-> Overlap(i)])
                   ELSE yielded
     /\ UNCHANGED <<inputs, plan, nextC, curScore>>

(* advance, scan: the next score, skipped when no subset of the weights    *)
(* makes it or no id has it.                                               *)
Scan ==
  /\ bucket = {}
  /\ nextC >= ScanFloor
  /\ nextC' = nextC - 1
  /\ bucket' = IF nextC \in reachable THEN CountEq(nextC) ELSE {}
  /\ curScore' = IF bucket' = {} THEN curScore ELSE nextC
  /\ UNCHANGED <<inputs, plan, yielded>>

(* A call of advance takes steps until it has one more to return or ends.  *)
Planned == added = Len(ops)
Exhausted == Planned /\ bucket = {} /\ nextC < ScanFloor

Advance == Drain \/ Scan

-----------------------------------------------------------------------------
(* Properties.                                                             *)

Score(i, n) == MapThenSumSet(LAMBDA k : weights[k], {k \in 1..n : i \in ops[k]})

Wanted == {i \in Ids : Score(i, Len(ops)) > 0 /\ RawOverlap(i) >= Floor}

(* When the walk is over it has returned exactly the ids of positive score *)
(* whose raw overlap reaches the floor, each with its score and overlap,   *)
(* though scores were skipped as unreachable or below the scan's floor.    *)
WalkComplete ==
  Exhausted =>
    {yielded[n] : n \in DOMAIN yielded} =
      {[id |-> i, score |-> Score(i, Len(ops)), overlap |-> RawOverlap(i)] : i \in Wanted}

(* Wherever a search stops pulling, what it has is the top of the ranking: *)
(* scores descend, ids ascend within a score, none comes twice, and every  *)
(* id still to come ranks below all those returned.                        *)
BestFirst ==
  LET before(x, y) == \/ x.score > y.score
                      \/ x.score = y.score /\ x.id < y.id
      got == {yielded[n].id : n \in DOMAIN yielded}
  IN /\ \A m, n \in DOMAIN yielded :
          m < n => before(yielded[m], yielded[n]) /\ yielded[m].id # yielded[n].id
     /\ \A n \in DOMAIN yielded, j \in Wanted \ got :
          before(yielded[n], [id |-> j, score |-> Score(j, Len(ops))])

=============================================================================
