--------------------------- MODULE SegmentsProofs ---------------------------
(***************************************************************************)
(* What the operators of module Postings do to the effective posting and   *)
(* to the document frequency, and those of module Segments to the forward  *)
(* table, the rolling stats and the dictionary, for every value of the id  *)
(* ceilings.                                                               *)
(***************************************************************************)
EXTENDS Segments, SetProofs, FunctionTheorems

-----------------------------------------------------------------------------
(* Postings.                                                               *)

(* The frequencies of a table are the sizes of its effective postings.     *)
Exact(p) == \A t \in TermId : p.df[t] = Cardinality(Effective(p, t))

LEMMA SegIdFinite ==
  ASSUME NEW S \in SUBSET SegId
  PROVE  IsFiniteSet(S) /\ Cardinality(S) \in Nat
<1>1. IsFiniteSet(SegId)
  BY FS_Interval, IdCeilings DEF SegId
<1> QED
  BY <1>1, FS_Subset, FS_CardinalityType

LEMMA IntervalSize ==
  ASSUME NEW a \in Nat, NEW n \in Nat
  PROVE  Cardinality(a .. a + n - 1) = n
<1> DEFINE b == a + n - 1
<1>1. a \in Int /\ b \in Int
  OBVIOUS
<1> HIDE DEF b
<1>2. Cardinality(a .. b) = IF a > b THEN 0 ELSE b - a + 1
  BY <1>1, FS_Interval
<1> QED
  BY <1>2 DEF b

LEMMA NoChangeType == NoChange \in TermChange
BY DEF NoChange, TermChange

LEMMA NoPostingsType == NoPostings \in PostingTables
BY NoChangeType DEF NoPostings, PostingTables

LEMMA EffectiveType ==
  ASSUME NEW p \in PostingTables, NEW t \in TermId
  PROVE  Effective(p, t) \in SUBSET SegId
BY DEF PostingTables, TermChange, Effective

-----------------------------------------------------------------------------

LEMMA ApplyWritesType ==
  ASSUME NEW p \in PostingTables, NEW add \in TermChange, NEW remove \in TermChange
  PROVE  ApplyWrites(p, add, remove) \in PostingTables
<1>1. \A t \in TermId : Cardinality(add[t]) \in Nat /\ Cardinality(remove[t]) \in Nat
  BY SegIdFinite DEF TermChange
<1>2. [t \in TermId |->
        p.df[t] + (Cardinality(add[t]) - Cardinality(remove[t]))] \in [TermId -> Int]
  BY <1>1 DEF PostingTables
<1>3. /\ [t \in TermId |-> (p.added[t] \ remove[t]) \cup add[t]] \in TermChange
      /\ [t \in TermId |-> (p.removed[t] \cup remove[t]) \ add[t]] \in TermChange
      /\ p.base \in TermChange
  BY DEF PostingTables, TermChange
<1> QED
  BY <1>2, <1>3 DEF ApplyWrites, PostingTables

(* A write changes the effective posting by its own change and nothing     *)
(* else, whatever the base and the delta held before.                      *)
LEMMA ApplyWritesEffective ==
  ASSUME NEW p \in PostingTables, NEW add \in TermChange, NEW remove \in TermChange,
         NEW t \in TermId
  PROVE  Effective(ApplyWrites(p, add, remove), t)
           = (Effective(p, t) \ remove[t]) \cup add[t]
BY DEF ApplyWrites, Effective

(* Under the TermWrite contract the df shortcut |add| - |remove| is exact. *)
LEMMA ApplyWritesExact ==
  ASSUME NEW p \in PostingTables, NEW add \in TermChange, NEW remove \in TermChange,
         Exact(p),
         \A t \in TermId : /\ remove[t] \subseteq Effective(p, t)
                           /\ add[t] \cap Effective(p, t) = {}
  PROVE  Exact(ApplyWrites(p, add, remove))
<1> DEFINE q == ApplyWrites(p, add, remove)
<1> SUFFICES ASSUME NEW t \in TermId
             PROVE  q.df[t] = Cardinality(Effective(q, t))
  BY DEF Exact
<1> DEFINE E == Effective(p, t)
           K == E \ remove[t]
<1>1. E \in SUBSET SegId /\ add[t] \in SUBSET SegId /\ remove[t] \in SUBSET SegId
  BY EffectiveType DEF TermChange
<1>2. IsFiniteSet(E) /\ IsFiniteSet(add[t]) /\ IsFiniteSet(K)
  BY <1>1, SegIdFinite
<1>3. E \cap remove[t] = remove[t]
  OBVIOUS
<1>4. Cardinality(K) = Cardinality(E) - Cardinality(remove[t])
  BY <1>2, <1>3, FS_Difference
<1>5. K \cap add[t] = {}
  OBVIOUS
<1>6. Cardinality(K \cup add[t])
        = Cardinality(K) + Cardinality(add[t]) - Cardinality(K \cap add[t])
  BY <1>2, FS_Union
<1>7. Cardinality(K \cap add[t]) = 0
  BY <1>5, FS_EmptySet
<1>8. Effective(q, t) = K \cup add[t]
  BY ApplyWritesEffective
<1>9. q.df[t] = p.df[t] + (Cardinality(add[t]) - Cardinality(remove[t]))
  BY DEF ApplyWrites
<1>10. p.df[t] = Cardinality(E)
  BY DEF Exact
<1>11. /\ Cardinality(E) \in Nat /\ Cardinality(add[t]) \in Nat
       /\ Cardinality(remove[t]) \in Nat /\ Cardinality(K) \in Nat
  BY <1>1, SegIdFinite
<1> HIDE DEF q, E, K
<1> QED
  BY <1>4, <1>6, <1>7, <1>8, <1>9, <1>10, <1>11

-----------------------------------------------------------------------------

LEMMA FoldType ==
  ASSUME NEW p \in PostingTables
  PROVE  Fold(p) \in PostingTables
<1>1. [t \in TermId |-> Effective(p, t)] \in TermChange
  BY EffectiveType DEF TermChange
<1>2. [t \in TermId |-> IF p.df[t] <= 0 THEN 0 ELSE p.df[t]] \in [TermId -> Int]
  BY DEF PostingTables
<1> QED
  BY <1>1, <1>2, NoChangeType DEF Fold, PostingTables

LEMMA FoldEffective ==
  ASSUME NEW p, NEW t \in TermId
  PROVE  Effective(Fold(p), t) = Effective(p, t)
BY DEF Fold, Effective, NoChange

(* The prune after a fold drops only rows whose frequency is 0 already.    *)
LEMMA FoldKeepsDf ==
  ASSUME NEW p \in PostingTables, Exact(p), NEW t \in TermId
  PROVE  Fold(p).df[t] = p.df[t]
<1>1. p.df[t] \in Nat
  BY EffectiveType, SegIdFinite DEF Exact
<1> QED
  BY <1>1 DEF Fold

LEMMA FoldExact ==
  ASSUME NEW p \in PostingTables, Exact(p)
  PROVE  Exact(Fold(p))
BY FoldEffective, FoldKeepsDf DEF Exact

LEMMA BasePostingsType ==
  ASSUME NEW inverted \in TermChange
  PROVE  BasePostings(inverted) \in PostingTables
<1>1. [t \in TermId |-> Cardinality(inverted[t])] \in [TermId -> Int]
  BY SegIdFinite DEF TermChange
<1> QED
  BY <1>1, NoChangeType DEF BasePostings, PostingTables

LEMMA BasePostingsEffective ==
  ASSUME NEW inverted \in TermChange, NEW t \in TermId
  PROVE  /\ Effective(BasePostings(inverted), t) = inverted[t]
         /\ BasePostings(inverted).df[t] = Cardinality(inverted[t])
BY DEF BasePostings, Effective, NoChange

LEMMA NoPostingsEffective ==
  ASSUME NEW t \in TermId
  PROVE  Effective(NoPostings, t) = {} /\ NoPostings.df[t] = 0
BY DEF NoPostings, Effective, NoChange

-----------------------------------------------------------------------------
(* Segments.  Holders(segs, t) is what the forward table says of term t; a *)
(* drop removes exactly RemovalsOf from it, an insert adds exactly         *)
(* AdditionsOf.                                                            *)

Holders(segs, t) == {s \in SegId : t \in segs.fwd[s]}

(* Only live segments have a forward row. *)
ForwardLive(segs) == \A s \in SegId : s \notin DOMAIN segs.row => segs.fwd[s] = {}

LEMMA NoSegmentsType ==
  /\ IsSegmentTables(NoSegments)
  /\ ForwardLive(NoSegments)
  /\ \A t \in TermId : Holders(NoSegments, t) = {}
BY IdCeilings DEF NoSegments, IsSegmentTables, ForwardLive, Holders, Row

LEMMA EmptyDictType == EmptyDict \in Dictionaries
BY DEF EmptyDict, Dictionaries

-----------------------------------------------------------------------------

LEMMA RemovalsOfType ==
  ASSUME NEW segs, IsSegmentTables(segs), NEW S \in SUBSET DOMAIN segs.row
  PROVE  /\ RemovalsOf(segs, S) \in TermChange
         /\ \A t \in TermId : RemovalsOf(segs, S)[t] \subseteq Holders(segs, t)
BY DEF RemovalsOf, TermChange, IsSegmentTables, Holders

LEMMA DropSegmentsType ==
  ASSUME NEW segs, IsSegmentTables(segs), NEW S \in SUBSET DOMAIN segs.row
  PROVE  IsSegmentTables(DropSegments(segs, S))
<1> DEFINE q == DropSegments(segs, S)
<1>1. /\ q.row = [s \in DOMAIN segs.row \ S |-> segs.row[s]]
      /\ q.fwd = [s \in SegId |-> IF s \in S THEN {} ELSE segs.fwd[s]]
      /\ q.nextId = segs.nextId
  BY DEF DropSegments, Restrict
<1>2. DOMAIN q.row = DOMAIN segs.row \ S
  BY <1>1
<1> HIDE DEF q
<1>3. IsSegmentTables(q)
  BY <1>1, <1>2 DEF IsSegmentTables
<1> QED
  BY <1>3 DEF q

LEMMA DropSegmentsHolders ==
  ASSUME NEW segs, IsSegmentTables(segs), NEW S \in SUBSET DOMAIN segs.row,
         ForwardLive(segs)
  PROVE  /\ ForwardLive(DropSegments(segs, S))
         /\ \A t \in TermId : Holders(DropSegments(segs, S), t)
                                = Holders(segs, t) \ RemovalsOf(segs, S)[t]
<1> DEFINE q == DropSegments(segs, S)
<1>1. /\ q.row = [s \in DOMAIN segs.row \ S |-> segs.row[s]]
      /\ q.fwd = [s \in SegId |-> IF s \in S THEN {} ELSE segs.fwd[s]]
  BY DEF DropSegments, Restrict
<1>2. DOMAIN q.row = DOMAIN segs.row \ S
  BY <1>1
<1> HIDE DEF q
<1>3. ForwardLive(q)
  BY <1>1, <1>2 DEF ForwardLive
<1>4. ASSUME NEW t \in TermId
      PROVE  Holders(q, t) = Holders(segs, t) \ RemovalsOf(segs, S)[t]
  BY <1>1 DEF Holders, RemovalsOf, IsSegmentTables
<1> QED
  BY <1>3, <1>4 DEF q

-----------------------------------------------------------------------------

(* Interning keeps every id there was, gives each gram of G one, and takes *)
(* the fresh ids from next upwards.                                        *)
LEMMA InternedProperties ==
  ASSUME NEW old \in Dictionaries, NEW next \in 1 .. MaxTermId + 1,
         NEW G \in SUBSET Grams, NEW d \in Interned(old, next, G)
  PROVE  /\ d \in Dictionaries
         /\ \A g \in G : d[g] \in TermId
         /\ \A g \in Grams : old[g] # NoTerm => d[g] = old[g]
         /\ \A g \in Grams : d[g] # old[g] => old[g] = NoTerm /\ d[g] >= next
         /\ {g \in Grams : d[g] # old[g]} = {g \in G : old[g] = NoTerm}
         /\ next + Cardinality({g \in Grams : d[g] # old[g]}) \in 1 .. MaxTermId + 1
<1> DEFINE fresh == {g \in G : old[g] = NoTerm}
           n     == Cardinality(fresh)
           ids   == next .. next + n - 1
<1>1. IsFiniteSet(fresh) /\ n \in Nat
  <2>1. fresh \in SUBSET Grams
    OBVIOUS
  <2> QED
    BY <2>1, Tokenizer, FS_Subset, FS_CardinalityType
<1>2. ids \subseteq TermId
  BY DEF Interned
<1>3. PICK a \in Bijection(fresh, ids) :
        d = [g \in Grams |-> IF g \in fresh THEN a[g] ELSE old[g]]
  BY <1>2 DEF Interned
<1>4. a \in [fresh -> ids]
  BY DEF Bijection, Injection
<1>5. \A g \in Grams : d[g] = IF g \in fresh THEN a[g] ELSE old[g]
  BY <1>3
<1>6. \A g \in fresh : d[g] \in TermId /\ d[g] >= next
  BY <1>1, <1>2, <1>4, <1>5
<1>7. d \in Dictionaries
  BY <1>3, <1>5, <1>6 DEF Dictionaries
<1>8. \A g \in G : d[g] \in TermId
  BY <1>5, <1>6 DEF Dictionaries
<1>9. NoTerm \notin TermId
  BY IdCeilings DEF NoTerm, TermId
<1>10. {g \in Grams : d[g] # old[g]} = fresh
  BY <1>5, <1>6, <1>9
<1>11. next + n \in 1 .. MaxTermId + 1
  <2>1. CASE n = 0
    BY <2>1, IdCeilings
  <2>2. CASE n > 0
    <3>1. next + n - 1 \in ids
      BY <2>2, <1>1, IdCeilings
    <3>2. next + n - 1 <= MaxTermId
      BY <3>1, <1>2, <1>1, IdCeilings DEF TermId
    <3> QED
      BY <3>2, <1>1, IdCeilings
  <2> QED
    BY <1>1, <2>1, <2>2
<1> QED
  BY <1>5, <1>6, <1>7, <1>8, <1>10, <1>11

(* No two grams have one id, and every id is below next.                   *)
Distinct(d, next) ==
  /\ \A g, h \in Grams : d[g] = d[h] /\ d[g] # NoTerm => g = h
  /\ \A g \in Grams : d[g] < next

(* New grams take different ids from the mark on.                          *)
LEMMA InternedDistinct ==
  ASSUME NEW old, NEW next, NEW G, NEW d,
         old \in Dictionaries, next \in 1 .. MaxTermId + 1,
         G \in SUBSET Grams, d \in Interned(old, next, G),
         Distinct(old, next)
  PROVE  Distinct(d, next + Cardinality({g \in Grams : d[g] # old[g]}))
<1> DEFINE fresh == {g \in G : old[g] = NoTerm}
           n     == Cardinality(fresh)
           ids   == next .. next + n - 1
<1>1. n \in Nat
  <2>1. fresh \in SUBSET Grams
    OBVIOUS
  <2> QED
    BY <2>1, Tokenizer, FS_Subset, FS_CardinalityType
<1>2. PICK a \in Bijection(fresh, ids) :
        d = [g \in Grams |-> IF g \in fresh THEN a[g] ELSE old[g]]
  BY DEF Interned
<1>3. /\ a \in [fresh -> ids]
      /\ \A g, h \in fresh : a[g] = a[h] => g = h
  BY DEF Bijection, Injection, IsInjective
<1>5. /\ next \in Nat
      /\ \A g \in Grams : old[g] \in Int /\ old[g] < next
  BY IdCeilings DEF Dictionaries, TermId, NoTerm, Distinct
<1>6. \A g \in fresh : d[g] = a[g] /\ d[g] \in Int /\ d[g] >= next /\ d[g] < next + n
  BY <1>1, <1>2, <1>3, <1>5
<1>7. \A g \in Grams \ fresh : d[g] = old[g]
  BY <1>2
<1>4. {g \in Grams : d[g] # old[g]} = fresh
  <2>1. \A g \in fresh : g \in Grams /\ old[g] = NoTerm
    OBVIOUS
  <2> HIDE DEF fresh, n, ids
  <2>2. \A g \in fresh : d[g] # old[g]
    BY <1>5, <1>6, <2>1 DEF NoTerm
  <2> QED
    BY <1>7, <2>1, <2>2
<1> HIDE DEF fresh, n, ids
<1>8. ASSUME NEW g \in Grams, NEW h \in Grams, d[g] = d[h], d[g] # NoTerm
      PROVE  g = h
  <2>1. CASE g \in fresh /\ h \in fresh
    BY <2>1, <1>3, <1>6, <1>8
  <2>2. CASE g \in fresh /\ h \notin fresh
    BY <2>2, <1>5, <1>6, <1>7, <1>8
  <2>3. CASE g \notin fresh /\ h \in fresh
    BY <2>3, <1>5, <1>6, <1>7, <1>8
  <2>4. CASE g \notin fresh /\ h \notin fresh
    BY <2>4, <1>7, <1>8 DEF Distinct
  <2> QED
    BY <2>1, <2>2, <2>3, <2>4
<1>9. ASSUME NEW g \in Grams PROVE d[g] < next + n
  <2>1. CASE g \in fresh
    BY <2>1, <1>6
  <2>2. CASE g \notin fresh
    BY <2>2, <1>1, <1>5, <1>7
  <2> QED
    BY <2>1, <2>2
<1> QED
  BY <1>4, <1>8, <1>9 DEF Distinct, n

LEMMA EmptyDictDistinct == Distinct(EmptyDict, 1)
BY DEF Distinct, EmptyDict, NoTerm

(* The mark counts the interned grams.                                     *)
Dense(d, next) == next = 1 + Cardinality({g \in Grams : d[g] # NoTerm})

LEMMA InternedDense ==
  ASSUME NEW old, NEW next, NEW G, NEW d,
         old \in Dictionaries, next \in 1 .. MaxTermId + 1,
         G \in SUBSET Grams, d \in Interned(old, next, G),
         Dense(old, next)
  PROVE  Dense(d, next + Cardinality({g \in Grams : d[g] # old[g]}))
<1>10. /\ d \in Dictionaries
       /\ \A g \in G : d[g] \in TermId
       /\ \A g \in Grams : old[g] # NoTerm => d[g] = old[g]
       /\ \A g \in Grams : d[g] # old[g] => old[g] = NoTerm /\ d[g] >= next
       /\ {g \in Grams : d[g] # old[g]} = {g \in G : old[g] = NoTerm}
       /\ next + Cardinality({g \in Grams : d[g] # old[g]}) \in 1 .. MaxTermId + 1
  BY InternedProperties
<1> DEFINE had == {g \in Grams : old[g] # NoTerm}
           new == {g \in Grams : d[g] # old[g]}
           has == {g \in Grams : d[g] # NoTerm}
<1>1. /\ \A g \in G : d[g] \in TermId
      /\ \A g \in Grams : old[g] # NoTerm => d[g] = old[g]
      /\ new = {g \in G : old[g] = NoTerm}
  BY <1>10
<1>2. NoTerm \notin TermId
  BY IdCeilings DEF NoTerm, TermId
<1>3. has = had \cup new /\ had \cap new = {}
  BY <1>1, <1>2
<1>4. IsFiniteSet(had) /\ IsFiniteSet(new)
  BY Tokenizer, FS_Subset
<1>5. next = 1 + Cardinality(had)
  BY DEF Dense
<1> HIDE DEF had, new, has
<1>6. Cardinality(had \cap new) = 0
  BY <1>3, FS_EmptySet
<1>7. Cardinality(has) = Cardinality(had) + Cardinality(new) - Cardinality(had \cap new)
  BY <1>3, <1>4, FS_Union
<1>8. Cardinality(had) \in Nat /\ Cardinality(new) \in Nat
  BY <1>4, FS_CardinalityType
<1>9. next + Cardinality(new) = 1 + Cardinality(has)
  BY <1>5, <1>6, <1>7, <1>8
<1> QED
  BY <1>9 DEF Dense, has, new

LEMMA EmptyDictDense == Dense(EmptyDict, 1)
<1>1. {g \in Grams : EmptyDict[g] # NoTerm} = {}
  BY DEF EmptyDict
<1> QED
  BY <1>1, FS_EmptySet DEF Dense

-----------------------------------------------------------------------------

(* Rows that an insert may add: well-typed, all their grams interned.      *)
IsRows(rows, dict) ==
  /\ DOMAIN rows \subseteq SegId
  /\ rows \in [DOMAIN rows -> Row]
  /\ \A s \in DOMAIN rows : TermsOf(dict, rows[s].txt) \in SUBSET TermId

LEMMA AdditionsOfType ==
  ASSUME NEW dict, NEW rows, IsRows(rows, dict)
  PROVE  AdditionsOf(rows, dict) \in TermChange
BY DEF AdditionsOf, TermChange, IsRows

LEMMA InsertSegmentsType ==
  ASSUME NEW segs, IsSegmentTables(segs), NEW dict, NEW rows, IsRows(rows, dict),
         NEW n \in Nat, DOMAIN rows = AllocIds(segs, n)
  PROVE  /\ IsSegmentTables(InsertSegments(segs, rows, dict))
         /\ InsertSegments(segs, rows, dict).nextId = segs.nextId + n
<1> DEFINE q == InsertSegments(segs, rows, dict)
<1>1. /\ q.row = [s \in DOMAIN segs.row \cup DOMAIN rows |->
                   IF s \in DOMAIN rows THEN rows[s] ELSE segs.row[s]]
      /\ q.fwd = [s \in SegId |-> IF s \in DOMAIN rows
                                  THEN TermsOf(dict, rows[s].txt)
                                  ELSE segs.fwd[s]]
      /\ q.nextId = segs.nextId + Cardinality(DOMAIN rows)
  BY DEF InsertSegments
<1>2. DOMAIN q.row = DOMAIN segs.row \cup DOMAIN rows
  BY <1>1
<1>3. segs.nextId \in Nat
  BY IdCeilings DEF IsSegmentTables
<1>4. Cardinality(DOMAIN rows) = n
  BY <1>3, IntervalSize DEF AllocIds
<1>5. segs.nextId + n \in 1 .. MaxSegId + 1
  <2>1. CASE n = 0
    BY <2>1, IdCeilings DEF IsSegmentTables
  <2>2. CASE n > 0
    <3>1. segs.nextId + n - 1 \in SegId
      BY <2>2, <1>3 DEF AllocIds, IsRows
    <3> QED
      BY <3>1, <2>2, <1>3, IdCeilings DEF SegId, IsSegmentTables
  <2> QED
    BY <2>1, <2>2
<1> HIDE DEF q
<1>6. q.row \in [DOMAIN q.row -> Row] /\ DOMAIN q.row \subseteq SegId
  BY <1>1, <1>2 DEF IsSegmentTables, IsRows
<1>7. q.fwd \in [SegId -> SUBSET TermId]
  BY <1>1 DEF IsSegmentTables, IsRows
<1> QED
  BY <1>1, <1>4, <1>5, <1>6, <1>7 DEF IsSegmentTables, q

LEMMA InsertSegmentsHolders ==
  ASSUME NEW segs, IsSegmentTables(segs), ForwardLive(segs),
         NEW dict, NEW rows, IsRows(rows, dict)
  PROVE  /\ ForwardLive(InsertSegments(segs, rows, dict))
         /\ \A t \in TermId : Holders(InsertSegments(segs, rows, dict), t)
              = (Holders(segs, t) \ DOMAIN rows) \cup AdditionsOf(rows, dict)[t]
<1> DEFINE q == InsertSegments(segs, rows, dict)
<1>1. /\ q.row = [s \in DOMAIN segs.row \cup DOMAIN rows |->
                   IF s \in DOMAIN rows THEN rows[s] ELSE segs.row[s]]
      /\ q.fwd = [s \in SegId |-> IF s \in DOMAIN rows
                                  THEN TermsOf(dict, rows[s].txt)
                                  ELSE segs.fwd[s]]
  BY DEF InsertSegments
<1>2. DOMAIN q.row = DOMAIN segs.row \cup DOMAIN rows
  BY <1>1
<1> HIDE DEF q
<1>3. ForwardLive(q)
  BY <1>1, <1>2 DEF ForwardLive
<1>4. ASSUME NEW t \in TermId
      PROVE  Holders(q, t)
               = (Holders(segs, t) \ DOMAIN rows) \cup AdditionsOf(rows, dict)[t]
  BY <1>1 DEF Holders, AdditionsOf, IsRows
<1> QED
  BY <1>3, <1>4 DEF q

-----------------------------------------------------------------------------
(* The rolling stats.                                                      *)

(* The stats miss c rows and l grams of what counting would give.          *)
StatsOff(segs, c, l) ==
  /\ segs.count = Cardinality(DOMAIN segs.row) - c
  /\ segs.lenSum = SumLen(segs.row, DOMAIN segs.row) - l

(* The lengths that rows of S carry.                                       *)
Lengths(rows, S) == [s \in S |-> rows[s].len]

Counted(rows, S) == \A s \in S : rows[s].len \in Int

LEMMA SumLenIsTotal ==
  ASSUME NEW rows, NEW S, IsFiniteSet(S), Counted(rows, S)
  PROVE  SumLen(rows, S) = Total(Lengths(rows, S), S)
<1> DEFINE w == Lengths(rows, S)
           Sum(f) == f = [T \in SUBSET S |-> IF T = {} THEN 0
                            ELSE rows[Choice(T)].len + f[T \ {Choice(T)}]]
           f == CHOOSE f : Sum(f)
<1>1. Weights(w, S)
  BY DEF Lengths, Counted, Weights
<1>2. PICK g : Sums(w, S, g) /\ Total(w, S) = g[S]
  BY <1>1, TotalSums
<1>3. \A T \in SUBSET S : T # {} => w[Choice(T)] = rows[Choice(T)].len
  BY ChoiceIn DEF Lengths
<1>4. \A h : Sums(w, S, h) <=> Sum(h)
  BY <1>3 DEF Sums
<1>5. Sum(f)
  <2> HIDE DEF Sum
  <2> QED
    BY <1>2, <1>4
<1>6. SumLen(rows, S) = f[S]
  BY DEF SumLen, MapThenFoldSet, Choice
<1>7. f[S] = g[S]
  <2> HIDE DEF f, w, Sum
  <2> QED
    BY <1>2, <1>4, <1>5, SumsAgree
<1> QED
  BY <1>2, <1>6, <1>7

LEMMA SumLenAgree ==
  ASSUME NEW rows, NEW other, NEW S, IsFiniteSet(S), Counted(rows, S),
         \A s \in S : rows[s].len = other[s].len
  PROVE  SumLen(rows, S) = SumLen(other, S)
<1>1. Lengths(rows, S) = Lengths(other, S) /\ Counted(other, S)
  BY DEF Lengths, Counted
<1> QED
  BY <1>1, SumLenIsTotal

LEMMA SumLenUnion ==
  ASSUME NEW rows, NEW A, IsFiniteSet(A), NEW B, IsFiniteSet(B), A \cap B = {},
         Counted(rows, A \cup B)
  PROVE  /\ SumLen(rows, A) \in Int /\ SumLen(rows, B) \in Int
         /\ SumLen(rows, A \cup B) = SumLen(rows, A) + SumLen(rows, B)
<1> DEFINE U == A \cup B
           w == Lengths(rows, U)
<1>1. IsFiniteSet(U)
  BY FS_Union
<1>2. Weights(w, U) /\ Weights(w, A) /\ Weights(w, B)
  BY DEF Lengths, Counted, Weights
<1>3. Counted(rows, A) /\ Counted(rows, B)
  BY DEF Counted
<1>4. /\ \A x \in A : w[x] = Lengths(rows, A)[x]
      /\ \A x \in B : w[x] = Lengths(rows, B)[x]
  BY DEF Lengths
<1> HIDE DEF w
<1>5. Total(w, A) = Total(Lengths(rows, A), A) /\ Total(w, B) = Total(Lengths(rows, B), B)
  BY <1>2, <1>4, TotalAgree
<1>6. Total(w, A) \in Int /\ Total(w, B) \in Int
  BY <1>2, TotalType
<1>7. SumLen(rows, A) = Total(w, A) /\ SumLen(rows, B) = Total(w, B)
  BY <1>3, <1>5, SumLenIsTotal
<1>8. SumLen(rows, U) = Total(w, U)
  BY <1>1, SumLenIsTotal DEF w
<1>9. Total(w, U) = Total(w, A) + Total(w, B)
  BY <1>2, TotalUnion
<1> QED
  BY <1>6, <1>7, <1>8, <1>9

LEMMA SumLenType ==
  ASSUME NEW rows, NEW S, IsFiniteSet(S), Counted(rows, S)
  PROVE  SumLen(rows, S) \in Int
<1>1. Weights(Lengths(rows, S), S)
  BY DEF Lengths, Counted, Weights
<1> QED
  BY <1>1, SumLenIsTotal, TotalType

LEMMA NoSegmentsStats == StatsOff(NoSegments, 0, 0)
<1>1. DOMAIN NoSegments.row = {}
  BY DEF NoSegments
<1>2. Counted(NoSegments.row, {})
  BY DEF Counted
<1>3. SumLen(NoSegments.row, {}) = 0
  BY <1>2, SumLenIsTotal, TotalEmpty, FS_EmptySet
<1> QED
  BY <1>1, <1>3, FS_EmptySet DEF StatsOff, NoSegments

LEMMA TablesCounted ==
  ASSUME NEW segs, IsSegmentTables(segs)
  PROVE  IsFiniteSet(DOMAIN segs.row) /\ Counted(segs.row, DOMAIN segs.row)
<1>1. DOMAIN segs.row \in SUBSET SegId
  BY DEF IsSegmentTables
<1> QED
  BY <1>1, SegIdFinite DEF IsSegmentTables, Row, Counted

(* A drop backs out exactly the rows it takes.                             *)
LEMMA DropStats ==
  ASSUME NEW segs, IsSegmentTables(segs), NEW S \in SUBSET DOMAIN segs.row,
         NEW c \in Int, NEW l \in Int, StatsOff(segs, c, l)
  PROVE  StatsOff(DropSegments(segs, S), c, l)
<1> DEFINE q == DropSegments(segs, S)
           D == DOMAIN segs.row
           K == D \ S
<1>1. /\ q.row = [s \in K |-> segs.row[s]]
      /\ q.count = segs.count - Cardinality(S)
      /\ q.lenSum = segs.lenSum - SumLen(segs.row, S)
  BY DEF DropSegments, Restrict
<1>2. DOMAIN q.row = K
  BY <1>1
<1>3. IsFiniteSet(D) /\ Counted(segs.row, D)
  BY TablesCounted
<1>4. IsFiniteSet(K) /\ IsFiniteSet(S) /\ K \cap S = {} /\ D = K \cup S
  BY <1>3, FS_Subset
<1>5. segs.count = Cardinality(D) - c /\ segs.lenSum = SumLen(segs.row, D) - l
  BY DEF StatsOff
<1>6. Counted(segs.row, K) /\ \A s \in K : segs.row[s].len = q.row[s].len
  BY <1>1, <1>3 DEF Counted
<1> HIDE DEF q, D, K
<1>7. Cardinality(K \cap S) = 0
  BY <1>4, FS_EmptySet
<1>8. Cardinality(D) = Cardinality(K) + Cardinality(S) - Cardinality(K \cap S)
  BY <1>4, FS_Union
<1>9. Cardinality(K) \in Nat /\ Cardinality(S) \in Nat
  BY <1>4, FS_CardinalityType
<1>10. q.count = Cardinality(K) - c
  BY <1>1, <1>5, <1>7, <1>8, <1>9
<1>11. /\ SumLen(segs.row, K) \in Int /\ SumLen(segs.row, S) \in Int
       /\ SumLen(segs.row, D) = SumLen(segs.row, K) + SumLen(segs.row, S)
  BY <1>3, <1>4, SumLenUnion
<1>12. SumLen(segs.row, K) = SumLen(q.row, K)
  BY <1>4, <1>6, SumLenAgree
<1>13. q.lenSum = SumLen(q.row, K) - l
  BY <1>1, <1>5, <1>11, <1>12
<1>14. StatsOff(q, c, l)
  BY <1>2, <1>10, <1>13 DEF StatsOff
<1> QED
  BY <1>14 DEF q

(* An insert counts in exactly the rows it adds.                           *)
LEMMA InsertStats ==
  ASSUME NEW segs, IsSegmentTables(segs), NEW dict, NEW rows,
         IsRows(rows, dict), DOMAIN rows \cap DOMAIN segs.row = {},
         NEW c \in Int, NEW l \in Int, StatsOff(segs, c, l)
  PROVE  StatsOff(InsertSegments(segs, rows, dict), c, l)
<1> DEFINE q == InsertSegments(segs, rows, dict)
           D == DOMAIN segs.row
           R == DOMAIN rows
           U == D \cup R
<1>1. /\ q.row = [s \in U |-> IF s \in R THEN rows[s] ELSE segs.row[s]]
      /\ q.count = segs.count + Cardinality(R)
      /\ q.lenSum = segs.lenSum + SumLen(rows, R)
  BY DEF InsertSegments
<1>2. DOMAIN q.row = U
  BY <1>1
<1>3. IsFiniteSet(D) /\ Counted(segs.row, D)
  BY TablesCounted
<1>4. IsFiniteSet(R) /\ Counted(rows, R)
  BY SegIdFinite DEF IsRows, Row, Counted
<1>5. D \cap R = {}
  OBVIOUS
<1>6. segs.count = Cardinality(D) - c /\ segs.lenSum = SumLen(segs.row, D) - l
  BY DEF StatsOff
<1>7. /\ \A s \in D : segs.row[s].len = q.row[s].len
      /\ \A s \in R : rows[s].len = q.row[s].len
  BY <1>1, <1>5
<1>8. Counted(q.row, U)
  BY <1>3, <1>4, <1>7 DEF Counted
<1>20. U = D \cup R
  OBVIOUS
<1> HIDE DEF q, D, R, U
<1>9. Cardinality(D \cap R) = 0
  BY <1>5, FS_EmptySet
<1>10. Cardinality(U) = Cardinality(D) + Cardinality(R) - Cardinality(D \cap R)
  BY <1>3, <1>4, <1>20, FS_Union
<1>11. Cardinality(D) \in Nat /\ Cardinality(R) \in Nat
  BY <1>3, <1>4, FS_CardinalityType
<1>12. q.count = Cardinality(U) - c
  BY <1>1, <1>6, <1>9, <1>10, <1>11
<1>13. SumLen(q.row, U) = SumLen(q.row, D) + SumLen(q.row, R)
  BY <1>3, <1>4, <1>5, <1>8, <1>20, SumLenUnion
<1>14. SumLen(segs.row, D) = SumLen(q.row, D) /\ SumLen(rows, R) = SumLen(q.row, R)
  BY <1>3, <1>4, <1>7, SumLenAgree
<1>15. SumLen(q.row, D) \in Int /\ SumLen(q.row, R) \in Int
  BY <1>3, <1>4, <1>5, <1>8, <1>20, SumLenUnion
<1>16. q.lenSum = SumLen(q.row, U) - l
  BY <1>1, <1>6, <1>13, <1>14, <1>15
<1>17. StatsOff(q, c, l)
  BY <1>2, <1>12, <1>16 DEF StatsOff
<1> QED
  BY <1>17 DEF q

=============================================================================
