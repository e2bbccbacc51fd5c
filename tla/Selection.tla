------------------------------ MODULE Selection -----------------------------
(***************************************************************************)
(* select of src/select.rs: which of a query's grams are scanned.  Three   *)
(* scans of the present grams, rarest first: one gram of every class, the  *)
(* typo floor, and the greedy rest until the evidence collected clears its *)
(* target or the work budget turns every other gram away.                  *)
(*                                                                         *)
(* Energies and targets are integers where the code has floats, and the    *)
(* reliability is a fraction r[1] / r[2], so that the Cantelli stop is     *)
(* decided exactly: both sides of                                          *)
(*    mean - c * sqrt(variance) >= target                                  *)
(* are multiplied out and squared.  A gram is its place in the query, and  *)
(* that is also the order of tokens.                                       *)
(***************************************************************************)
EXTENDS Integers, Sequences, FiniteSets, FiniteSetsExt

CONSTANTS
  Words,         (* query words, the blocks of the variance                *)
  Rarity,        (* (class, order) -> df -> ClassSnap::rarity              *)
  EnergyOf,      (* df -> energy                                           *)
  DfMin          (* the contamination floor df_min                         *)

ASSUME Measures ==
  /\ IsFiniteSet(Words)
  /\ \A k \in DOMAIN Rarity : \A d \in DOMAIN Rarity[k] : Rarity[k][d] \in Int
  /\ DOMAIN EnergyOf \subseteq Nat /\ \A d \in DOMAIN EnergyOf : EnergyOf[d] \in Int

ASSUME RarityFollowsDf ==
  \A k \in DOMAIN Rarity : \A d, e \in DOMAIN Rarity[k] :
    d < e => Rarity[k][d] < Rarity[k][e]

ASSUME EnergyFallsWithDf ==
  \A d, e \in DOMAIN EnergyOf : d < e => EnergyOf[d] >= EnergyOf[e]

VARIABLES
  query,         (* the query's distinct grams, a sequence of GramRow      *)
  params,        (* SelectParams                                           *)
  pool,          (* the rows of this call                                  *)
  scan,          (* "classes", "typos", "greedy" or "done"                 *)
  todo,          (* present grams the current scan has not come to         *)
  kept,
  acc            (* StopAcc                                                *)

callVars == <<pool, scan, todo, kept, acc>>

-----------------------------------------------------------------------------
Df(g) == query[g].df
ClassOf(g) == <<query[g].class, query[g].order>>
Floored(g) == Df(g) <= DfMin
Evidence(g) == Max({0, EnergyOf[Df(g)]})

(* Rarest first; a tie goes to the lower df, then to the lower token.      *)
Rarer(g, h) ==
  LET rg == Rarity[ClassOf(g)][Df(g)]
      rh == Rarity[ClassOf(h)][Df(h)]
  IN \/ rg < rh
     \/ rg = rh /\ (Df(g) < Df(h) \/ (Df(g) = Df(h) /\ g < h))

Rarest(S) == CHOOSE g \in S : \A h \in S \ {g} : Rarer(g, h)

Present(S) == {g \in S : Df(g) > 0}
InBudget(g) == Df(g) <= params.budget

-----------------------------------------------------------------------------
(* The running evidence: total df, total energy, the sum over the words of *)
(* the squared energy of each, and the energy of each.                     *)

NoEvidence == [df |-> 0, energy |-> 0, squares |-> 0, block |-> [w \in Words |-> 0]]

(* Faulty: every gram is a block of its own.                               *)
AdmitIndependent(a, g) ==
  LET e == IF Floored(g) THEN 0 ELSE Evidence(g)
  IN [df      |-> a.df + Df(g),
      energy  |-> a.energy + e,
      squares |-> a.squares + e * e,
      block   |-> [a.block EXCEPT ![query[g].word] = @ + e]]

Admit(a, g) ==
  LET e == IF Floored(g) THEN 0 ELSE Evidence(g)
      s == a.block[query[g].word]
  IN [df      |-> a.df + Df(g),
      energy  |-> a.energy + e,
      squares |-> a.squares + 2 * s * e + e * e,
      block   |-> [a.block EXCEPT ![query[g].word] = s + e]]

Blocks(a) == Cardinality({w \in Words : a.block[w] > 0})

(* mean - c * sqrt(variance) >= target, times r[2].                        *)
Clears(a, p) ==
  LET r == p.r
      margin == r[1] * a.energy - r[2] * p.target
  IN /\ margin >= 0
     /\ margin * margin >= p.c * p.c * r[1] * (r[2] - r[1]) * a.squares

(* The recall gate r >= c^2 / (B + c^2).                                   *)
GateOpen(a, p) ==
  LET r == p.r
      cc == p.c * p.c
  IN r[1] * (Blocks(a) + cc) >= cc * r[2]

Fired(a, p) == Blocks(a) > 0 /\ GateOpen(a, p) /\ Clears(a, p)

-----------------------------------------------------------------------------
(* The call: Begin gives it its rows.                                      *)

Begin(rows) ==
  /\ pool' = rows
  /\ scan' = "classes"
  /\ todo' = Present(rows)
  /\ kept' = {}
  /\ acc' = NoEvidence

Keep(g) ==
  /\ kept' = kept \cup {g}
  /\ acc' = Admit(acc, g)

KeepUnless(passed, g) ==
  IF passed THEN UNCHANGED <<kept, acc>> ELSE Keep(g)

Seated == {ClassOf(g) : g \in kept}

(* (1a) The rarest affordable gram of every class.                         *)
ClassFloor ==
  /\ scan = "classes" /\ todo # {}
  /\ LET g == Rarest(todo)
     IN /\ KeepUnless(~InBudget(g) \/ ClassOf(g) \in Seated, g)
        /\ todo' = todo \ {g}
  /\ UNCHANGED <<pool, scan>>

(* Grams the typo floor has counted so far, kept before it or not.         *)
Reserved == {g \in Present(pool) \ todo : InBudget(g)}

StartTypoFloor ==
  /\ scan = "classes" /\ todo = {}
  /\ scan' = "typos"
  /\ todo' = Present(pool)
  /\ UNCHANGED <<pool, kept, acc>>

(* Faulty: the floor takes grams whatever they cost.                       *)
TypoFloorUnbudgeted ==
  /\ scan = "typos" /\ todo # {}
  /\ Cardinality(Present(pool) \ todo) < params.floor
  /\ LET g == Rarest(todo)
     IN /\ KeepUnless(g \in kept, g)
        /\ todo' = todo \ {g}
  /\ UNCHANGED <<pool, scan>>

(* (1b) The rarest affordable grams, floor of them.                        *)
TypoFloor ==
  /\ scan = "typos" /\ todo # {}
  /\ Cardinality(Reserved) < params.floor
  /\ LET g == Rarest(todo)
     IN /\ KeepUnless(~InBudget(g) \/ g \in kept, g)
        /\ todo' = todo \ {g}
  /\ UNCHANGED <<pool, scan>>

(* The greedy scan is skipped where the floors have already cleared the    *)
(* target.                                                                 *)
StartGreedy ==
  /\ scan = "typos"
  /\ todo = {} \/ Cardinality(Reserved) >= params.floor
  /\ scan' = IF Fired(acc, params) THEN "done" ELSE "greedy"
  /\ todo' = Present(pool)
  /\ UNCHANGED <<pool, kept, acc>>

(* Faulty: the first gram over budget ends the scan.                       *)
GreedyBreaking ==
  /\ scan = "greedy" /\ todo # {}
  /\ LET g == Rarest(todo)
         over == g \notin kept /\ acc.df + Df(g) > params.budget
     IN /\ KeepUnless(g \in kept \/ over, g)
        /\ todo' = IF over THEN {} ELSE todo \ {g}
        /\ scan' = IF kept' # kept /\ Fired(acc', params) THEN "done" ELSE scan
  /\ UNCHANGED pool

(* (2) A gram over budget is passed over and the scan goes on; an admitted *)
(* one may fire the stop.                                                  *)
Greedy ==
  /\ scan = "greedy" /\ todo # {}
  /\ LET g == Rarest(todo)
     IN /\ KeepUnless(g \in kept \/ acc.df + Df(g) > params.budget, g)
        /\ todo' = todo \ {g}
        /\ scan' = IF kept' # kept /\ Fired(acc', params) THEN "done" ELSE scan
  /\ UNCHANGED pool

GreedyEnds ==
  /\ scan = "greedy" /\ todo = {}
  /\ scan' = "done"
  /\ UNCHANGED <<pool, todo, kept, acc>>

SelectStep ==
  ClassFloor \/ StartTypoFloor \/ TypoFloor \/ StartGreedy \/ Greedy \/ GreedyEnds

(* (3) The rescue, and the absent grams, which cost nothing.               *)
Rescued == kept = {} /\ Present(pool) # {}

Selected ==
  (pool \ Present(pool)) \cup (IF Rescued THEN {Rarest(Present(pool))} ELSE kept)

-----------------------------------------------------------------------------
(* What a finished call owes its caller, from the rows alone.              *)

SumDf(S) == MapThenSumSet(Df, S)

(* The evidence of a set of grams, in no order.                            *)
EvidenceOf(S) ==
  LET counted == {g \in S : ~Floored(g)}
      word(w) == MapThenSumSet(Evidence, {g \in counted : query[g].word = w})
  IN [df      |-> SumDf(S),
      energy  |-> MapThenSumSet(Evidence, counted),
      squares |-> MapThenSumSet(LAMBDA w : word(w) * word(w), Words),
      block   |-> [w \in Words |-> word(w)]]

(* What is kept whatever the evidence: the first of each class and the     *)
(* first floor of all, among the grams the budget can afford.              *)
Unconditional ==
  LET cheap == {g \in Present(pool) : InBudget(g)}
  IN {g \in cheap :
        \/ \A h \in cheap : ClassOf(h) = ClassOf(g) => h = g \/ Rarer(g, h)
        \/ Cardinality({h \in cheap : Rarer(h, g)}) < params.floor}

(* The classes that have a present gram.                                   *)
ClassesOf(S) == {ClassOf(g) : g \in S}

-----------------------------------------------------------------------------
(* Properties.                                                             *)

(* The postings walked are bounded however common the query: the floors    *)
(* cost at most one budget per floor seat and class, the greedy scan never *)
(* takes the total past the budget, and only a rescue, of a single gram,   *)
(* walks a posting larger than the budget (src/select.rs:36-40).           *)
WorkBounded ==
  scan = "done" =>
    /\ \A g \in kept : InBudget(g)
    /\ kept # Unconditional => SumDf(kept) <= params.budget
    /\ SumDf(kept) <= (params.floor + Cardinality(ClassesOf(Present(pool)))) * params.budget
    /\ Cardinality(Present(Selected)) = Max({1, Cardinality(kept)}) \/ Present(pool) = {}

(* A scan stops for a reason and not a gram later: what is left out is     *)
(* over budget or no longer needed, and the last gram that was taken was.  *)
(* The evidence is that of the kept set, recounted: moved gram by gram, it *)
(* never took grams of one word for independent ones, nor a floored one    *)
(* for evidence (StopAcc).                                                 *)
StopJustified ==
  scan = "done" =>
    LET greedy == kept \ Unconditional
        last == CHOOSE g \in greedy : \A h \in greedy \ {g} : Rarer(h, g)
    IN /\ Unconditional \subseteq kept
       /\ Fired(EvidenceOf(kept), params) \/
            \A g \in Present(pool) \ kept : SumDf(kept) + Df(g) > params.budget
       /\ greedy # {} => ~Fired(EvidenceOf(kept \ {last}), params)

(* A target above zero, however small, is never cleared by evidence the    *)
(* recall gate would have refused (src/select.rs:182-188).                 *)
GateImplied ==
  LET r == params.r
      mean == r[1] * acc.energy
  IN mean * mean > params.c * params.c * r[1] * (r[2] - r[1]) * acc.squares
       => GateOpen(acc, params)

=============================================================================
