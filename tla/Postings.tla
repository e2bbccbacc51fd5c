------------------------------ MODULE Postings ------------------------------
(***************************************************************************)
(* The postings store of trifle (src/postings.rs) as pure operators on one *)
(* record per database state.  A term has a base posting, a delta (added,  *)
(* removed) of changes not yet folded into it, and a live document         *)
(* frequency.  An absent row reads as an empty posting or a frequency of   *)
(* 0, so every table is a total function here: a post row exists exactly   *)
(* when base[t] # {}, a delta row exactly when added[t] or removed[t] is   *)
(* not empty.                                                              *)
(***************************************************************************)
EXTENDS Integers, FiniteSets

CONSTANTS
  MaxSegId,    (* ceiling of the segment id space (u32::MAX in the code)   *)
  MaxTermId    (* ceiling of the term id space (u32::MAX in the code)      *)

ASSUME IdCeilings == MaxSegId \in Nat /\ MaxTermId \in Nat

SegId  == 1..MaxSegId
TermId == 1..MaxTermId

(* A term-indexed family of segment id sets: what a write gains or loses.  *)
TermChange == [TermId -> SUBSET SegId]

PostingTables ==
  [base : TermChange, added : TermChange, removed : TermChange,
   df : [TermId -> Int]]

NoChange == [t \in TermId |-> {}]

NoPostings ==
  [base |-> NoChange, added |-> NoChange, removed |-> NoChange,
   df |-> [t \in TermId |-> 0]]

-----------------------------------------------------------------------------

(* Each operator below whose comment says Faulty is a bug the code does    *)
(* not have, against which the properties are tested.                      *)

(* Faulty: readers that ignore additions until they are folded.            *)
EffectiveUnfolded(p, t) == p.base[t] \ p.removed[t]

(* effective_postings: what every reader of a posting sees.                *)
Effective(p, t) == (p.base[t] \cup p.added[t]) \ p.removed[t]

(* Faulty: removals that do not count down.                                *)
ApplyWritesCountingUp(p, add, remove) ==
  [base    |-> p.base,
   added   |-> [t \in TermId |-> (p.added[t] \ remove[t]) \cup add[t]],
   removed |-> [t \in TermId |-> (p.removed[t] \cup remove[t]) \ add[t]],
   df      |-> [t \in TermId |-> p.df[t] + Cardinality(add[t])]]

(* apply_writes: the whole of one write's changes, never touching a base.  *)
(* Per term the removals are applied first, then the additions; df moves   *)
(* by the difference of the two counts without looking at the base.        *)
ApplyWrites(p, add, remove) ==
  [base    |-> p.base,
   added   |-> [t \in TermId |-> (p.added[t] \ remove[t]) \cup add[t]],
   removed |-> [t \in TermId |-> (p.removed[t] \cup remove[t]) \ add[t]],
   df      |-> [t \in TermId |->
                 p.df[t] + (Cardinality(add[t]) - Cardinality(remove[t]))]]

(* Faulty: a fold that clears the pending removals without applying them.  *)
FoldLosingRemovals(p) ==
  [base    |-> [t \in TermId |-> p.base[t] \cup p.added[t]],
   added   |-> NoChange,
   removed |-> NoChange,
   df      |-> p.df]

(* Faulty: a fold that prunes one frequency too many.                      *)
FoldPruningOnes(p) ==
  [base    |-> [t \in TermId |-> Effective(p, t)],
   added   |-> NoChange,
   removed |-> NoChange,
   df      |-> [t \in TermId |-> IF p.df[t] <= 1 THEN 0 ELSE p.df[t]]]

(* fold: merge every delta into its base, clear it, and prune the term     *)
(* rows whose frequency is not positive.                                   *)
Fold(p) ==
  [base    |-> [t \in TermId |-> Effective(p, t)],
   added   |-> NoChange,
   removed |-> NoChange,
   df      |-> [t \in TermId |-> IF p.df[t] <= 0 THEN 0 ELSE p.df[t]]]

(* write_base_postings: a rebuild's dense postings, with nothing pending.  *)
BasePostings(inverted) ==
  [base    |-> inverted,
   added   |-> NoChange,
   removed |-> NoChange,
   df      |-> [t \in TermId |-> Cardinality(inverted[t])]]

=============================================================================
