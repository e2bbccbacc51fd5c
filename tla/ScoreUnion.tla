----------------------------- MODULE ScoreUnion -----------------------------
(***************************************************************************)
(* score_union of src/search.rs over the engine of module OverlapCounter:  *)
(* the pass that turns the walk into a ranking of documents.  It calls     *)
(* advance for chunks of segments, best integer energy first, corrects     *)
(* each score, keeps the best segment per key, may stop early when a limit *)
(* is asked, and otherwise recovers the segments that matched only         *)
(* postings of weight 0.                                                   *)
(*                                                                         *)
(* Scores are integers where the code has floats: one unit of energy is    *)
(* worth Delta, one matched posting that is not floored Mu; a member of    *)
(* Nulls gives the length null of every segment.                           *)
(***************************************************************************)
EXTENDS OverlapCounter

CONSTANTS
  KeyOf,            (* the document key of each segment                    *)
  Delta, Mu, Nulls, (* the score's three parts                             *)
  Cases,            (* pairs of what the engine is built from and what is  *)
                    (* asked of the union                                  *)
  NoLimit,          (* the limit of the lazy stream                        *)
  Chunk             (* CHUNK                                               *)

ASSUME Inputs ==
  /\ DOMAIN KeyOf = Ids /\ Nulls \subseteq [Ids -> Nat]
  /\ Delta \in Nat \ {0} /\ Mu \in Nat /\ Chunk \in Nat \ {0} /\ NoLimit \notin Nat

(* A weight per posting, and planes enough for their sum.                  *)
ASSUME PlansFit ==
  \A case \in Cases : \A built \in case[1] :
    /\ built.ops \in Seq(SUBSET Ids)
    /\ built.weights \in [DOMAIN built.ops -> Nat]
    /\ built.minShared \in Nat
    /\ MapThenSumSet(LAMBDA k : built.weights[k], DOMAIN built.ops) < Pow2[Width]

ASSUME AsksFit ==
  \A case \in Cases : \A asked \in case[2] :
    asked.null \in Nulls /\ asked.limit \in Nat \cup {NoLimit}

VARIABLES
  floored,          (* of QueryPlan, one per posting                       *)
  visible,          (* the segments the SQL filter lets by                 *)
  null,             (* length_null of each segment                         *)
  limit,
  pulled,           (* how much of the walk has been taken                 *)
  pending,          (* the peeked candidate is still to be scored: 0 or 1  *)
  best,             (* key -> its best candidate so far                    *)
  seen,             (* seen_segs                                           *)
  maxFloat,         (* max_float_seen                                      *)
  pc,               (* "chunk", "peek", "recover", "sort" or "done"        *)
  ranked            (* the answer                                          *)

ask    == <<floored, visible, null, limit>>
loop   == <<pulled, pending, best, seen, maxFloat>>
engine == <<inputs, plan, walk>>
vars   == <<engine, ask, loop, pc, ranked>>

-----------------------------------------------------------------------------
(* The plan.                                                               *)

MatchedBy(i) == {k \in Slots : i \in ops[k]}

CountCredit(i) == Mu * Cardinality({k \in MatchedBy(i) : ~floored[k]})

(* The most credit any segment can have.                                   *)
CredMax == Mu * Cardinality({k \in Slots : ~floored[k]})

(* The elements of a set in the order of before, a strict total order.     *)
Sorted(set, before(_, _)) ==
  [n \in 1..Cardinality(set) |->
     CHOOSE c \in set : Cardinality({d \in set : before(d, c)}) = n - 1]

-----------------------------------------------------------------------------
(* upsert_best and the ranking order.                                      *)

Candidate(s) == [seg |-> s.id, score |-> s.score, overlap |-> s.overlap,
                 corrected |-> s.score * Delta + CountCredit(s.id) - null[s.id]]

(* Only a strictly better score replaces the segment a key has.            *)
UpsertBest(map, c) ==
  [k \in DOMAIN map \cup {KeyOf[c.seg]} |->
     IF k = KeyOf[c.seg] /\ (k \in DOMAIN map => c.corrected > map[k].corrected)
     THEN c ELSE map[k]]

(* A run of candidates, those whose row the filter hides left out.         *)
Collect(map, cands) ==
  LET upTo[n \in 0..Len(cands)] ==
        IF n = 0 THEN map
        ELSE IF cands[n].seg \in visible THEN UpsertBest(upTo[n - 1], cands[n])
        ELSE upTo[n - 1]
  IN upTo[Len(cands)]

Before(c, d) ==
  \/ c.corrected > d.corrected
  \/ c.corrected = d.corrected /\ c.score > d.score
  \/ c.corrected = d.corrected /\ c.score = d.score /\ c.seg < d.seg

Truncated(s) == IF limit = NoLimit \/ Len(s) <= limit THEN s ELSE SubSeq(s, 1, limit)

KthLargest(map, k) ==
  LET values == {map[key].corrected : key \in DOMAIN map}
      above(v) == Cardinality({key \in DOMAIN map : map[key].corrected > v})
      atLeast(v) == Cardinality({key \in DOMAIN map : map[key].corrected >= v})
  IN CHOOSE v \in values : above(v) < k /\ k <= atLeast(v)

-----------------------------------------------------------------------------

Init ==
  /\ \E case \in Cases :
       /\ \E built \in case[1] :
            ops = built.ops /\ weights = built.weights /\ minShared = built.minShared
       /\ \E asked \in case[2] :
            /\ floored \in [Slots -> asked.floored]
            /\ visible = asked.visible /\ null = asked.null /\ limit = asked.limit
  /\ Unplanned
  /\ pulled = 0 /\ pending = 0
  /\ best = <<>> /\ seen = {}
  /\ maxFloat = -Max({n[i] : n \in Nulls, i \in Ids})
  /\ pc = IF limit = 0 THEN "done" ELSE "chunk"
  /\ ranked = <<>>

(* The engine is built before score_union is called.                       *)
Build == AddOperand /\ UNCHANGED <<ask, loop, pc, ranked>>

(* How far into the walk the loop wants to see: a chunk that begins with   *)
(* the peeked candidate, or one candidate to peek at.                      *)
Target == IF pc = "peek" THEN pulled + 1 ELSE pulled - pending + Chunk

AdvanceWalk ==
  /\ Planned /\ pc \in {"chunk", "peek"}
  /\ Len(yielded) < Target /\ ~Exhausted
  /\ Advance
  /\ UNCHANGED <<ask, loop, pc, ranked>>

Advanced == Planned /\ (Len(yielded) >= Target \/ Exhausted)

(* One turn of the loop up to the peek: look up the rows of a chunk and    *)
(* fold them in.                                                           *)
Pulled ==
  LET chunk == SubSeq(yielded, pulled - pending + 1, Len(yielded))
      cands == [n \in DOMAIN chunk |-> Candidate(chunk[n])]
  IN /\ pulled' = Len(yielded)
     /\ pending' = 0
     /\ best' = Collect(best, cands)
     /\ seen' = seen \cup {chunk[n].id : n \in DOMAIN chunk}
     /\ maxFloat' = Max({maxFloat} \cup
          {cands[n].corrected : n \in {m \in DOMAIN cands : cands[m].seg \in visible}})

EnoughKeys == limit # NoLimit /\ Cardinality(DOMAIN best') >= limit

PullChunk ==
  /\ pc = "chunk" /\ Advanced
  /\ Pulled
  /\ pc' = IF Len(yielded) < Target THEN "recover"
           ELSE IF EnoughKeys THEN "peek" ELSE "chunk"
  /\ UNCHANGED <<engine, ask, ranked>>

(* Faulty: the credit an unseen candidate may have is forgotten.           *)
CeilingWithoutCredit(s) == s.score * Delta

(* No candidate from s on can score more.                                  *)
Ceiling(s) == s.score * Delta + CredMax

(* The early stop: peek one candidate and compare its ceiling with the     *)
(* limit-th best key, or keep it for the next chunk.                       *)
Peek ==
  /\ pc = "peek" /\ Advanced
  /\ IF Len(yielded) = pulled
     THEN pc' = "recover" /\ UNCHANGED <<pulled, pending>>
     ELSE /\ pulled' = pulled + 1
          /\ IF /\ Ceiling(yielded[pulled + 1]) < maxFloat
                /\ Ceiling(yielded[pulled + 1]) < KthLargest(best, limit)
             THEN pc' = "sort" /\ UNCHANGED pending
             ELSE pc' = "chunk" /\ pending' = 1
  /\ UNCHANGED <<engine, ask, best, seen, maxFloat, ranked>>

(* Count-only recovery, after a full drain only: the segments of the       *)
(* postings of weight 0 that the walk did not yield, if they clear the     *)
(* floor.                                                                  *)
Recover ==
  /\ pc = "recover"
  /\ LET uZero == UNION {ops[k] : k \in {k \in Slots : weights[k] = 0}}
         found == {[id |-> i, score |-> 0, overlap |-> RawOverlap(i)] : i \in uZero \ seen}
         keep == Sorted({s \in found : s.overlap >= Floor}, LAMBDA s, t : s.id < t.id)
     IN best' = Collect(best, [n \in DOMAIN keep |-> Candidate(keep[n])])
  /\ pc' = "sort"
  /\ UNCHANGED <<engine, ask, pulled, pending, seen, maxFloat, ranked>>

SortAndTruncate ==
  /\ pc = "sort"
  /\ ranked' = Truncated(Sorted({best[k] : k \in DOMAIN best}, Before))
  /\ pc' = "done"
  /\ UNCHANGED <<engine, ask, loop>>

Next == Build \/ AdvanceWalk \/ PullChunk \/ Peek \/ Recover \/ SortAndTruncate

Spec == Init /\ [][Next]_vars

-----------------------------------------------------------------------------
(* Properties.                                                             *)

(* Every segment with enough raw overlap, whatever its energy, ranked in   *)
(* full: for each key the first of its segments.                           *)
FullRanking ==
  LET all == {Candidate([id |-> i, score |-> Score(i, Len(ops)), overlap |-> RawOverlap(i)]) :
               i \in {j \in visible : RawOverlap(j) >= Floor}}
      firsts == {c \in all : \A d \in all :
                   d # c /\ KeyOf[d.seg] = KeyOf[c.seg] => Before(c, d)}
  IN Sorted(firsts, Before)

(* The eager and the lazy front door agree, and lose no segment: whatever  *)
(* was skipped by the early stop or recovered late, the answer is the      *)
(* limit-long prefix of the full ranking.                                  *)
TopOfFullRanking == pc = "done" => ranked = Truncated(FullRanking)

=============================================================================
