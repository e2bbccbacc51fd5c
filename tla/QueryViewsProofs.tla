-------------------------- MODULE QueryViewsProofs --------------------------
(***************************************************************************)
(* What a query's plan owes its caller, for any rows, classes, rarities    *)
(* and budgets: proofs about Selection, inside QueryViews, whose steps     *)
(* drive it.                                                               *)
(***************************************************************************)
EXTENDS QueryViews, SetProofs

-----------------------------------------------------------------------------
(* Arithmetic.                                                             *)

LEMMA PositivePart ==
  ASSUME NEW e \in Int
  PROVE  /\ Max({0, e}) \in Nat
         /\ e <= 0 => Max({0, e}) = 0
         /\ e > 0 => Max({0, e}) = e
<1> DEFINE m == Max({0, e})
<1>1. \E x \in {0, e} : \A y \in {0, e} : x >= y
  <2>1. e >= 0 \/ 0 >= e
    OBVIOUS
  <2> QED
    BY <2>1
<1>2. m \in {0, e} /\ \A y \in {0, e} : m >= y
  BY <1>1 DEF Max
<1> HIDE DEF m
<1>3. m \in Nat /\ (e <= 0 => m = 0) /\ (e > 0 => m = e)
  BY <1>2
<1> QED
  BY <1>3 DEF m

(* Of two naturals, the one with the smaller square is smaller.            *)
LEMMA SmallerSquare ==
  ASSUME NEW p \in Nat, NEW q \in Nat, p * p <= q * q
  PROVE  p <= q
<1> SUFFICES ASSUME p > q PROVE FALSE
  OBVIOUS
<1>1. p * p >= (q + 1) * p /\ (q + 1) * p >= (q + 1) * (q + 1)
  OBVIOUS
<1>2. (q + 1) * (q + 1) = q * q + 2 * q + 1
  OBVIOUS
<1>3. p * p \in Nat /\ q * q \in Nat /\ (q + 1) * p \in Nat /\ (q + 1) * (q + 1) \in Nat
  OBVIOUS
<1> QED
  BY <1>1, <1>2, <1>3

(* The inequality of Cauchy and Schwarz, one term at a time.               *)
LEMMA OneMoreTerm ==
  ASSUME NEW s \in Nat, NEW n \in Nat, NEW q \in Nat, NEW x \in Nat, s * s <= n * q
  PROVE  (s + x) * (s + x) <= (n + 1) * (q + x * x)
<1> DEFINE b == n * (x * x)
           p == 2 * (s * x)
<1>1. b \in Nat /\ p \in Nat /\ x * x \in Nat /\ s * s \in Nat /\ n * q \in Nat
  OBVIOUS
<1>2. p * p = 4 * ((s * s) * (x * x))
  OBVIOUS
<1>3. (s * s) * (x * x) <= (n * q) * (x * x)
  BY <1>1
<1>4. (n * q) * (x * x) = q * b
  OBVIOUS
<1>5. (q + b) * (q + b) = 4 * (q * b) + (q - b) * (q - b)
  OBVIOUS
<1>6. (q - b) * (q - b) >= 0 /\ (q - b) * (q - b) \in Int
  <2> DEFINE d == q - b
  <2>1. d \in Int
    BY <1>1
  <2> HIDE DEF d
  <2>2. d * d >= 0 /\ d * d \in Int
    BY <2>1
  <2> QED
    BY <2>2 DEF d
<1>7. p <= q + b
  <2> DEFINE ss == (s * s) * (x * x)
             qb == q * b
             dd == (q - b) * (q - b)
             pp == p * p
             tt == (q + b) * (q + b)
  <2>1. /\ pp = 4 * ss /\ ss <= qb /\ tt = 4 * qb + dd /\ dd >= 0
        /\ ss \in Int /\ qb \in Int /\ dd \in Int
    BY <1>1, <1>2, <1>3, <1>4, <1>5, <1>6
  <2> HIDE DEF ss, qb, dd, pp, tt
  <2>2. pp <= tt
    BY <2>1
  <2>3. q + b \in Nat
    BY <1>1
  <2> HIDE DEF p, b
  <2>4. p * p <= (q + b) * (q + b)
    BY <2>2 DEF pp, tt
  <2> QED
    BY <1>1, <2>3, <2>4, SmallerSquare
<1>8. (s + x) * (s + x) = s * s + p + x * x
  OBVIOUS
<1>9. (n + 1) * (q + x * x) = n * q + b + q + x * x
  OBVIOUS
<1> HIDE DEF b, p
<1> QED
  BY <1>1, <1>7, <1>8, <1>9

-----------------------------------------------------------------------------
(* Sums.                                                                   *)

LEMMA TotalZero ==
  ASSUME NEW S, IsFiniteSet(S), NEW w, \A x \in S : w[x] = 0
  PROVE  Total(w, S) = 0
<1> DEFINE Q == {T \in SUBSET S : Total(w, T) = 0}
<1>1. ASSUME NEW T \in SUBSET S, \A x \in T : T \ {x} \in Q PROVE T \in Q
  <2>1. CASE T = {}
    BY <2>1, TotalEmpty
  <2>2. CASE T # {}
    <3>1. PICK x : x \in T
      BY <2>2
    <3> DEFINE R == T \ {x}
    <3>2. R \in Q
      BY <1>1, <3>1
    <3>3. IsFiniteSet(R) /\ x \notin R /\ T = R \cup {x}
      BY <3>1, FS_Subset
    <3>4. Weights(w, R \cup {x}) /\ w[x] = 0
      BY <3>1 DEF Weights
    <3>5. Total(w, R) = 0
      BY <3>2
    <3> HIDE DEF R
    <3>6. Total(w, R \cup {x}) = w[x] + Total(w, R)
      BY <3>3, <3>4, TotalAdd
    <3> QED
      BY <3>3, <3>4, <3>5, <3>6
  <2> QED
    BY <2>1, <2>2
<1> HIDE DEF Q
<1>2. \A T \in SUBSET S : T \in Q
  BY <1>1, SubsetInduction
<1> QED
  BY <1>2 DEF Q

LEMMA TotalAtMost ==
  ASSUME NEW S, IsFiniteSet(S), NEW w, NEW b \in Nat, \A x \in S : w[x] \in Nat /\ w[x] <= b
  PROVE  Total(w, S) <= Cardinality(S) * b
<1> DEFINE Q == {T \in SUBSET S : Total(w, T) <= Cardinality(T) * b}
<1>1. ASSUME NEW T \in SUBSET S, \A x \in T : T \ {x} \in Q PROVE T \in Q
  <2>1. CASE T = {}
    <3>1. Total(w, T) = 0 /\ Cardinality(T) = 0 /\ 0 * b = 0
      BY <2>1, TotalEmpty, FS_EmptySet
    <3> QED
      BY <3>1
  <2>2. CASE T # {}
    <3>1. PICK x : x \in T
      BY <2>2
    <3> DEFINE R == T \ {x}
    <3>2. R \in Q
      BY <1>1, <3>1
    <3>3. /\ IsFiniteSet(R) /\ x \notin R /\ T = R \cup {x}
          /\ Cardinality(T) = Cardinality(R) + 1 /\ Cardinality(R) \in Nat
      BY <3>1, FS_Subset, FS_RemoveElement, FS_CardinalityType
    <3>4. Weights(w, R \cup {x}) /\ w[x] \in Nat /\ w[x] <= b
      BY <3>1 DEF Weights
    <3>5. Total(w, R) <= Cardinality(R) * b
      BY <3>2
    <3> HIDE DEF R
    <3>6. Total(w, R) \in Int /\ Total(w, R \cup {x}) = w[x] + Total(w, R)
      BY <3>3, <3>4, TotalAdd
    <3>7. (Cardinality(R) + 1) * b = Cardinality(R) * b + b
      BY <3>3
    <3>8. Cardinality(R) * b \in Int
      BY <3>3
    <3>9. Total(w, T) <= Cardinality(T) * b
      BY <3>3, <3>4, <3>5, <3>6, <3>7, <3>8
    <3> QED
      BY <3>9
  <2> QED
    BY <2>1, <2>2
<1> HIDE DEF Q
<1>2. \A T \in SUBSET S : T \in Q
  BY <1>1, SubsetInduction
<1> QED
  BY <1>2 DEF Q

(* The square of a sum is at most the number of its positive terms times   *)
(* the sum of their squares.                                               *)
LEMMA SumOfSquares ==
  ASSUME NEW S, IsFiniteSet(S), NEW b, NEW sq,
         \A x \in S : b[x] \in Nat /\ sq[x] = b[x] * b[x]
  PROVE  Total(b, S) * Total(b, S) <= Cardinality({x \in S : b[x] > 0}) * Total(sq, S)
<1> DEFINE Pos(T) == {x \in T : b[x] > 0}
           Q == {T \in SUBSET S : Total(b, T) * Total(b, T) <= Cardinality(Pos(T)) * Total(sq, T)}
<1>0. \A x \in S : b[x] \in Nat /\ sq[x] \in Nat
  OBVIOUS
<1>1. ASSUME NEW T \in SUBSET S, \A x \in T : T \ {x} \in Q PROVE T \in Q
  <2>1. CASE T = {}
    <3>1. Total(b, T) = 0 /\ Total(sq, T) = 0 /\ Cardinality(Pos(T)) = 0
      BY <2>1, TotalEmpty, FS_EmptySet
    <3>2. Total(b, T) * Total(b, T) = 0 /\ Cardinality(Pos(T)) * Total(sq, T) = 0
      BY <3>1
    <3> QED
      BY <3>2
  <2>2. CASE T # {}
    <3>1. PICK x : x \in T
      BY <2>2
    <3> DEFINE R == T \ {x}
               n == Cardinality(Pos(R))
               s == Total(b, R)
               q == Total(sq, R)
    <3>2. s * s <= n * q
      BY <1>1, <3>1
    <3>3. IsFiniteSet(R) /\ x \notin R /\ T = R \cup {x} /\ IsFiniteSet(T) /\ R \in SUBSET S
      BY <3>1, FS_Subset
    <3>4. /\ Weights(b, R \cup {x}) /\ Weights(sq, R \cup {x})
          /\ b[x] \in Nat /\ sq[x] = b[x] * b[x]
      BY <1>0, <3>1 DEF Weights
    <3>5. IsFiniteSet(Pos(R)) /\ n \in Nat
      <4>1. Pos(R) \in SUBSET R
        OBVIOUS
      <4> QED
        BY <3>3, <4>1, FS_Subset, FS_CardinalityType
    <3>6. s \in Nat /\ q \in Nat
      <4>1. \A y \in R : b[y] \in Nat /\ sq[y] \in Nat
        BY <1>0
      <4> HIDE DEF R
      <4> QED
        BY <3>3, <4>1, TotalNat
    <3>7. Total(b, T) = b[x] + s /\ Total(sq, T) = sq[x] + q
      <4> HIDE DEF R
      <4>1. Total(b, R \cup {x}) = b[x] + Total(b, R) /\ Total(sq, R \cup {x}) = sq[x] + Total(sq, R)
        BY <3>3, <3>4, TotalAdd
      <4> QED
        BY <3>3, <4>1
    <3>8. CASE b[x] = 0
      <4>1. Pos(T) = Pos(R)
        BY <3>3, <3>8
      <4>2. Total(b, T) = s /\ Total(sq, T) = q
        BY <3>6, <3>7, <3>4, <3>8
      <4>3. Total(b, T) * Total(b, T) <= Cardinality(Pos(T)) * Total(sq, T)
        BY <3>2, <4>1, <4>2
      <4> QED
        BY <4>3
    <3>9. CASE b[x] # 0
      <4>1. b[x] > 0 /\ Pos(T) = Pos(R) \cup {x} /\ x \notin Pos(R)
        BY <3>3, <3>4, <3>9
      <4>2. Cardinality(Pos(T)) = n + 1
        BY <3>5, <4>1, FS_AddElement
      <4> HIDE DEF s, q, n, R
      <4>3. (s + b[x]) * (s + b[x]) <= (n + 1) * (q + b[x] * b[x])
        BY <3>2, <3>4, <3>5, <3>6, OneMoreTerm
      <4>4. b[x] + s = s + b[x] /\ b[x] * b[x] + q = q + b[x] * b[x]
        BY <3>4, <3>6
      <4>5. Total(b, T) = s + b[x] /\ Total(sq, T) = q + b[x] * b[x]
        BY <3>4, <3>7, <4>4
      <4>6. Total(b, T) * Total(b, T) <= Cardinality(Pos(T)) * Total(sq, T)
        BY <4>2, <4>3, <4>5
      <4> QED
        BY <4>6
    <3> QED
      BY <3>4, <3>8, <3>9
  <2> QED
    BY <2>1, <2>2
<1> HIDE DEF Q
<1>2. \A T \in SUBSET S : T \in Q
  BY <1>1, SubsetInduction
<1> QED
  BY <1>2 DEF Q

-----------------------------------------------------------------------------
(* What the selection reads of a query, as values: none of it changes      *)
(* while the query stays.                                                  *)

Cost == [g \in Grams |-> Df(g)]
Energy == [g \in Grams |-> Evidence(g)]
Worth == [g \in Grams |-> IF Floored(g) THEN 0 ELSE Evidence(g)]
WordOf == [g \in Grams |-> query[g].word]
Class == [g \in Grams |-> ClassOf(g)]
RareOrder == {x \in Grams \X Grams : Rarer(x[1], x[2])}

Given == query \in Queries /\ params \in Limits

LEMMA Typed ==
  ASSUME Given
  PROVE  /\ Len(query) \in Nat /\ IsFiniteSet(Grams)
         /\ Cost \in [Grams -> Nat] /\ Energy \in [Grams -> Nat] /\ Worth \in [Grams -> Nat]
         /\ WordOf \in [Grams -> Words] /\ DOMAIN Class = Grams
         /\ params.budget \in Nat /\ params.floor \in Nat /\ params.c \in Nat
         /\ params.target \in Int /\ params.r[1] \in Nat /\ params.r[2] \in Nat
<1>1. /\ query \in Seq([class : Scripts, order : Nat, df : DOMAIN EnergyOf, word : Words])
      /\ params.budget \in Nat /\ params.floor \in Nat /\ params.c \in Nat
      /\ params.target \in Int /\ params.r[1] \in Nat /\ params.r[2] \in Nat
  BY QueriesFit DEF Given
<1>2. Len(query) \in Nat
  BY <1>1
<1>3. \A g \in Grams : query[g] \in [class : Scripts, order : Nat, df : DOMAIN EnergyOf, word : Words]
  <2> DEFINE Row == [class : Scripts, order : Nat, df : DOMAIN EnergyOf, word : Words]
  <2> HIDE DEF Row
  <2>1. query \in Seq(Row)
    BY <1>1 DEF Row
  <2>2. \A g \in Grams : query[g] \in Row
    BY <2>1 DEF Grams
  <2> QED
    BY <2>2 DEF Row
<1>4. ASSUME NEW g \in Grams
      PROVE  Df(g) \in Nat /\ Evidence(g) \in Nat /\ query[g].word \in Words
  <2>1. query[g].df \in DOMAIN EnergyOf /\ query[g].word \in Words
    BY <1>3
  <2>2. query[g].df \in Nat /\ EnergyOf[query[g].df] \in Int
    BY <2>1, Measures
  <2>3. Max({0, EnergyOf[query[g].df]}) \in Nat
    BY <2>2, PositivePart
  <2> QED
    BY <2>1, <2>2, <2>3 DEF Df, Evidence
<1>5. IsFiniteSet(Grams)
  BY <1>2, FS_Interval DEF Grams
<1> QED
  BY <1>1, <1>2, <1>4, <1>5 DEF Cost, Energy, Worth, WordOf, Class

LEMMA OrderIs ==
  /\ \A g, h \in Grams : <<g, h>> \in RareOrder <=> Rarer(g, h)
  /\ \A g \in Grams : Cost[g] = Df(g) /\ Class[g] = ClassOf(g)
  /\ \A g \in Grams : WordOf[g] = query[g].word /\ Energy[g] = Evidence(g)
  /\ \A g \in Grams : Worth[g] = IF Floored(g) THEN 0 ELSE Evidence(g)
BY DEF RareOrder, Cost, Class, WordOf, Energy, Worth

LEMMA RarestFirst ==
  ASSUME Given
  PROVE  StrictOrder(Grams, RareOrder)
<1> DEFINE R(g) == Rarity[ClassOf(g)][Df(g)]
<1>1. Len(query) \in Nat
      /\ query \in Seq([class : Scripts, order : Nat, df : DOMAIN EnergyOf, word : Words])
  BY QueriesFit, Typed DEF Given
<1>2. \A g \in DOMAIN query : /\ <<query[g].class, query[g].order>> \in DOMAIN Rarity
                              /\ query[g].df \in DOMAIN Rarity[<<query[g].class, query[g].order>>]
  BY QueriesFit DEF Given
<1>3. \A g \in Grams : g \in DOMAIN query /\ g \in Int
  BY <1>1 DEF Grams
<1>4. \A g \in Grams : R(g) \in Int /\ g \in Int
  BY <1>2, <1>3, Measures DEF ClassOf, Df
<1>5. \A g \in Grams : Df(g) \in Nat
  BY Typed, OrderIs
<1>6. \A g, h \in Grams : Rarer(g, h) <=>
         \/ R(g) < R(h)
         \/ R(g) = R(h) /\ (Df(g) < Df(h) \/ (Df(g) = Df(h) /\ g < h))
  BY DEF Rarer
<1> HIDE DEF R
<1>7. \A g \in Grams : ~ Rarer(g, g)
  BY <1>4, <1>5, <1>6
<1>8. \A g, h \in Grams : g = h \/ Rarer(g, h) \/ Rarer(h, g)
  BY <1>4, <1>5, <1>6
<1>9. \A g, h, k \in Grams : Rarer(g, h) /\ Rarer(h, k) => Rarer(g, k)
  BY <1>4, <1>5, <1>6
<1> QED
  BY <1>7, <1>8, <1>9, OrderIs DEF StrictOrder

(* Of any grams there is a rarest, and Rarest chooses it.                  *)
LEMMA RarestIs ==
  ASSUME Given, NEW S \in SUBSET Grams, S # {}
  PROVE  Rarest(S) \in S /\ \A h \in S \ {Rarest(S)} : <<Rarest(S), h>> \in RareOrder
<1>1. IsFiniteSet(S) /\ StrictOrder(S, RareOrder)
  BY Typed, RarestFirst, FS_Subset DEF StrictOrder
<1>2. Cardinality(S) \in Nat /\ Cardinality(S) # 0
  BY <1>1, FS_CardinalityType, FS_EmptySet
<1>3. PICK g \in S : Place(S, RareOrder, g) = 1 - 1
  BY <1>1, <1>2, PlacesTaken
<1>4. ASSUME NEW h \in S \ {g} PROVE <<g, h>> \in RareOrder
  <2>1. <<h, g>> \notin RareOrder
    <3>1. h # g /\ Place(S, RareOrder, h) \in 0 .. Cardinality(S) - 1
      BY <1>1, PlaceType
    <3> QED
      BY <1>1, <1>3, <3>1, PlaceMonotone
  <2> QED
    BY <1>1, <2>1 DEF StrictOrder
<1>5. \A h \in S \ {g} : Rarer(g, h)
  BY <1>4, OrderIs
<1>6. Rarest(S) \in S /\ \A h \in S \ {Rarest(S)} : Rarer(Rarest(S), h)
  BY <1>5 DEF Rarest
<1> QED
  BY <1>6, OrderIs

-----------------------------------------------------------------------------
(* The sums of the model over these values.                                *)

LEMMA SumDfIs ==
  ASSUME Given, NEW S \in SUBSET Grams
  PROVE  SumDf(S) = Total(Cost, S)
<1> DEFINE Sum(f) == f = [T \in SUBSET S |-> IF T = {} THEN 0
                            ELSE Df(Choice(T)) + f[T \ {Choice(T)}]]
           f == CHOOSE f : Sum(f)
<1>1. IsFiniteSet(S) /\ Weights(Cost, S)
  BY Typed, FS_Subset DEF Weights
<1>2. PICK g : Sums(Cost, S, g) /\ Total(Cost, S) = g[S]
  BY <1>1, TotalSums
<1>3. \A T \in SUBSET S : T # {} => Cost[Choice(T)] = Df(Choice(T))
  BY ChoiceIn, OrderIs
<1>4. \A h : Sums(Cost, S, h) <=> Sum(h)
  BY <1>3 DEF Sums
<1>5. Sum(f)
  <2> HIDE DEF Sum
  <2> QED
    BY <1>2, <1>4
<1>6. SumDf(S) = f[S]
  BY DEF SumDf, MapThenSumSet, MapThenFoldSet, Choice
<1>7. f[S] = g[S]
  <2> HIDE DEF f, Sum
  <2> QED
    BY <1>1, <1>2, <1>4, <1>5, SumsAgree
<1> QED
  BY <1>2, <1>6, <1>7

LEMMA SumEvidenceIs ==
  ASSUME Given, NEW S \in SUBSET Grams
  PROVE  MapThenSumSet(Evidence, S) = Total(Energy, S)
<1> DEFINE Sum(f) == f = [T \in SUBSET S |-> IF T = {} THEN 0
                            ELSE Evidence(Choice(T)) + f[T \ {Choice(T)}]]
           f == CHOOSE f : Sum(f)
<1>1. IsFiniteSet(S) /\ Weights(Energy, S)
  BY Typed, FS_Subset DEF Weights
<1>2. PICK g : Sums(Energy, S, g) /\ Total(Energy, S) = g[S]
  BY <1>1, TotalSums
<1>3. \A T \in SUBSET S : T # {} => Energy[Choice(T)] = Evidence(Choice(T))
  BY ChoiceIn, OrderIs
<1>4. \A h : Sums(Energy, S, h) <=> Sum(h)
  BY <1>3 DEF Sums
<1>5. Sum(f)
  <2> HIDE DEF Sum
  <2> QED
    BY <1>2, <1>4
<1>6. MapThenSumSet(Evidence, S) = f[S]
  BY DEF MapThenSumSet, MapThenFoldSet, Choice
<1>7. f[S] = g[S]
  <2> HIDE DEF f, Sum
  <2> QED
    BY <1>1, <1>2, <1>4, <1>5, SumsAgree
<1> QED
  BY <1>2, <1>6, <1>7

(* The evidence of a set of grams, from their values alone.                *)
BlocksOf(worth, wordOf, S) ==
  [w \in Words |-> Total(worth, {g \in S : wordOf[g] = w})]

Squares(block) == [w \in Words |-> block[w] * block[w]]

Gather(cost, worth, wordOf, S) ==
  [df      |-> Total(cost, S),
   energy  |-> Total(worth, S),
   squares |-> Total(Squares(BlocksOf(worth, wordOf, S)), Words),
   block   |-> BlocksOf(worth, wordOf, S)]

Gathered(S) == Gather(Cost, Worth, WordOf, S)

LEMMA WorthIs ==
  ASSUME Given, NEW S \in SUBSET Grams
  PROVE  MapThenSumSet(Evidence, {g \in S : ~Floored(g)}) = Total(Worth, S)
<1> DEFINE A == {g \in S : ~Floored(g)}
           B == {g \in S : Floored(g)}
<1>1. A \in SUBSET Grams /\ A \cap B = {} /\ A \cup B = S
  OBVIOUS
<1>2. IsFiniteSet(A) /\ IsFiniteSet(B) /\ IsFiniteSet(S)
  BY Typed, FS_Subset
<1>3. \A g \in A : Energy[g] = Worth[g]
  BY OrderIs
<1>4. \A g \in B : Worth[g] = 0
  BY OrderIs
<1>5. Weights(Energy, A) /\ Weights(Worth, A \cup B)
  BY Typed DEF Weights
<1> HIDE DEF A, B
<1>6. MapThenSumSet(Evidence, A) = Total(Energy, A)
  BY <1>1, SumEvidenceIs
<1>7. Total(Energy, A) = Total(Worth, A)
  BY <1>2, <1>3, <1>5, TotalAgree
<1>8. Total(Worth, B) = 0
  BY <1>2, <1>4, TotalZero
<1>9. Total(Worth, A \cup B) = Total(Worth, A) + Total(Worth, B)
  BY <1>1, <1>2, <1>5, TotalUnion
<1>10. Total(Worth, A) \in Int
  <2>1. Weights(Worth, A)
    BY <1>5 DEF Weights
  <2> QED
    BY <1>2, <2>1, TotalType
<1>11. Total(Worth, A) = Total(Worth, S)
  <2>1. Total(Worth, S) = Total(Worth, A \cup B)
    BY <1>1
  <2>2. Total(Worth, A \cup B) = Total(Worth, A)
    BY <1>8, <1>9, <1>10
  <2> QED
    BY <2>1, <2>2
<1>12. MapThenSumSet(Evidence, A) = Total(Worth, S)
  BY <1>6, <1>7, <1>11, Zenon
<1> QED
  BY <1>12 DEF A

LEMMA BlocksTyped ==
  ASSUME Given, NEW S \in SUBSET Grams
  PROVE  /\ BlocksOf(Worth, WordOf, S) \in [Words -> Nat]
         /\ Squares(BlocksOf(Worth, WordOf, S)) \in [Words -> Nat]
<1>1. ASSUME NEW w \in Words PROVE Total(Worth, {g \in S : WordOf[g] = w}) \in Nat
  <2> DEFINE A == {g \in S : WordOf[g] = w}
  <2>1. A \in SUBSET Grams
    OBVIOUS
  <2>2. IsFiniteSet(A) /\ \A g \in A : Worth[g] \in Nat
    BY <2>1, Typed, FS_Subset
  <2> HIDE DEF A
  <2>3. Total(Worth, A) \in Nat
    BY <2>2, TotalNat
  <2> QED
    BY <2>3 DEF A
<1>2. BlocksOf(Worth, WordOf, S) \in [Words -> Nat]
  BY <1>1 DEF BlocksOf
<1>3. ASSUME NEW b \in [Words -> Nat] PROVE Squares(b) \in [Words -> Nat]
  <2>1. \A w \in Words : b[w] * b[w] \in Nat
    OBVIOUS
  <2> QED
    BY <2>1 DEF Squares
<1> QED
  BY <1>2, <1>3

LEMMA EvidenceIs ==
  ASSUME Given, NEW S \in SUBSET Grams
  PROVE  EvidenceOf(S) = Gathered(S)
<1> DEFINE counted == {g \in S : ~Floored(g)}
           word(w) == MapThenSumSet(Evidence, {g \in counted : query[g].word = w})
           block == BlocksOf(Worth, WordOf, S)
           squares == Squares(block)
<1>1. ASSUME NEW w \in Words PROVE word(w) = block[w]
  <2> DEFINE A == {g \in S : WordOf[g] = w}
  <2>1. A \in SUBSET Grams /\ {g \in counted : query[g].word = w} = {g \in A : ~Floored(g)}
    BY OrderIs
  <2> HIDE DEF A, counted
  <2>2. word(w) = Total(Worth, A)
    BY <2>1, WorthIs
  <2> QED
    BY <2>2 DEF A, BlocksOf
<1>2. squares \in [Words -> Nat] /\ block \in [Words -> Nat]
  BY BlocksTyped
<1>3. MapThenSumSet(LAMBDA w : word(w) * word(w), Words) = Total(squares, Words)
  <2> DEFINE Sum(f) == f = [T \in SUBSET Words |-> IF T = {} THEN 0
                              ELSE word(Choice(T)) * word(Choice(T)) + f[T \ {Choice(T)}]]
             f == CHOOSE f : Sum(f)
  <2>1. IsFiniteSet(Words) /\ Weights(squares, Words)
    BY <1>2, Measures DEF Weights
  <2>2. PICK g : Sums(squares, Words, g) /\ Total(squares, Words) = g[Words]
    BY <2>1, TotalSums
  <2>3. \A T \in SUBSET Words : T # {} =>
           squares[Choice(T)] = word(Choice(T)) * word(Choice(T))
    <3> SUFFICES ASSUME NEW T \in SUBSET Words, T # {}
                 PROVE  squares[Choice(T)] = word(Choice(T)) * word(Choice(T))
      OBVIOUS
    <3>1. Choice(T) \in Words
      BY ChoiceIn
    <3>2. word(Choice(T)) = block[Choice(T)]
      BY <1>1, <3>1
    <3> HIDE DEF word, block
    <3> QED
      BY <3>1, <3>2 DEF Squares
  <2>4. \A h : Sums(squares, Words, h) <=> Sum(h)
    <3> HIDE DEF word, squares
    <3> QED
      BY <2>3 DEF Sums
  <2>5. Sum(f)
    <3> HIDE DEF Sum
    <3> QED
      BY <2>2, <2>4
  <2>6. MapThenSumSet(LAMBDA w : word(w) * word(w), Words) = f[Words]
    <3> HIDE DEF word
    <3> QED
      BY DEF MapThenSumSet, MapThenFoldSet, Choice
  <2>7. f[Words] = g[Words]
    <3> HIDE DEF f, Sum, squares
    <3> QED
      BY <2>1, <2>2, <2>4, <2>5, SumsAgree
  <2> QED
    BY <2>2, <2>6, <2>7
<1>4. MapThenSumSet(Evidence, counted) = Total(Worth, S) /\ SumDf(S) = Total(Cost, S)
  BY WorthIs, SumDfIs
<1>5. [w \in Words |-> word(w)] = block
  <2> HIDE DEF word, block
  <2> QED
    BY <1>1, <1>2
<1>6. EvidenceOf(S) = [df |-> SumDf(S), energy |-> MapThenSumSet(Evidence, counted),
                       squares |-> MapThenSumSet(LAMBDA w : word(w) * word(w), Words),
                       block |-> [w \in Words |-> word(w)]]
  BY DEF EvidenceOf
<1> HIDE DEF counted, word
<1> QED
  BY <1>3, <1>4, <1>5, <1>6 DEF Gathered, Gather

(* Admitting a gram gathers it, its word's block squared anew.             *)
LEMMA AdmitIs ==
  ASSUME Given, NEW S \in SUBSET Grams, NEW g \in Grams \ S
  PROVE  Admit(Gathered(S), g) = Gathered(S \cup {g})
<1> DEFINE e == Worth[g]
           v == WordOf[g]
           b == BlocksOf(Worth, WordOf, S)
           c == BlocksOf(Worth, WordOf, S \cup {g})
           V == Words \ {v}
<1>1. /\ IsFiniteSet(S) /\ g \notin S /\ Weights(Cost, S \cup {g}) /\ Weights(Worth, S \cup {g})
      /\ Cost[g] \in Nat /\ e \in Nat /\ v \in Words /\ S \cup {g} \in SUBSET Grams
  BY Typed, FS_Subset DEF Weights
<1>2. /\ Total(Cost, S \cup {g}) = Cost[g] + Total(Cost, S) /\ Total(Cost, S) \in Int
      /\ Total(Worth, S \cup {g}) = e + Total(Worth, S) /\ Total(Worth, S) \in Int
  BY <1>1, TotalAdd
<1>3. b \in [Words -> Nat] /\ c \in [Words -> Nat]
      /\ Squares(b) \in [Words -> Nat] /\ Squares(c) \in [Words -> Nat]
  BY <1>1, BlocksTyped
<1>4. \A w \in V : c[w] = b[w]
  <2> SUFFICES ASSUME NEW w \in V PROVE c[w] = b[w]
    OBVIOUS
  <2>1. {h \in S \cup {g} : WordOf[h] = w} = {h \in S : WordOf[h] = w}
    OBVIOUS
  <2> QED
    BY <2>1 DEF BlocksOf
<1>5. c[v] = b[v] + e
  <2> DEFINE A == {h \in S : WordOf[h] = v}
  <2>1. {h \in S \cup {g} : WordOf[h] = v} = A \cup {g} /\ g \notin A /\ A \in SUBSET S
    BY <1>1
  <2>2. IsFiniteSet(A) /\ Weights(Worth, A \cup {g})
    BY <1>1, <2>1, FS_Subset DEF Weights
  <2>3. b[v] = Total(Worth, A) /\ c[v] = Total(Worth, A \cup {g})
    BY <1>1, <2>1 DEF BlocksOf
  <2> HIDE DEF A, b, c
  <2>4. Total(Worth, A \cup {g}) = Worth[g] + Total(Worth, A) /\ Total(Worth, A) \in Int
    BY <2>1, <2>2, TotalAdd
  <2> QED
    BY <1>1, <2>3, <2>4
<1> HIDE DEF b, c
<1>6. c = [b EXCEPT ![v] = b[v] + e]
  BY <1>3, <1>4, <1>5
<1>7. /\ IsFiniteSet(V) /\ v \notin V /\ V \cup {v} = Words
      /\ Weights(Squares(b), V \cup {v}) /\ Weights(Squares(c), V \cup {v})
      /\ Weights(Squares(b), V)
  BY <1>1, <1>3, Measures, FS_Subset DEF Weights
<1>8. \A w \in V : Squares(b)[w] = Squares(c)[w]
  BY <1>4 DEF Squares
<1> HIDE DEF V, v, e
<1>9. /\ Total(Squares(b), Words) = Squares(b)[v] + Total(Squares(b), V)
      /\ Total(Squares(c), Words) = Squares(c)[v] + Total(Squares(c), V)
      /\ Total(Squares(b), V) \in Int
  BY <1>7, TotalAdd
<1>10. Total(Squares(b), V) = Total(Squares(c), V)
  BY <1>7, <1>8, TotalAgree
<1>11. Squares(b)[v] = b[v] * b[v] /\ Squares(c)[v] = c[v] * c[v]
  BY <1>1 DEF Squares
<1>12. c[v] * c[v] = b[v] * b[v] + (2 * b[v] * e + e * e)
  <2> DEFINE s == b[v]
  <2>1. s \in Nat /\ c[v] = s + e
    BY <1>1, <1>3, <1>5
  <2> HIDE DEF s
  <2>2. (s + e) * (s + e) = s * s + (2 * s * e + e * e)
    BY <1>1, <2>1
  <2>3. c[v] * c[v] = s * s + (2 * s * e + e * e)
    BY <2>1, <2>2
  <2> QED
    BY <2>3 DEF s
<1>13. b[v] \in Nat /\ b[v] * b[v] \in Int /\ 2 * b[v] * e \in Int /\ e * e \in Int
  BY <1>1, <1>3
<1>14. Total(Squares(c), Words) = Total(Squares(b), Words) + 2 * b[v] * e + e * e
  BY <1>9, <1>10, <1>11, <1>12, <1>13
<1>15. e = (IF Floored(g) THEN 0 ELSE Evidence(g)) /\ v = query[g].word /\ Cost[g] = Df(g)
  BY OrderIs DEF e, v
<1>16. Admit(Gathered(S), g) =
         [df |-> Total(Cost, S) + Cost[g], energy |-> Total(Worth, S) + e,
          squares |-> Total(Squares(b), Words) + 2 * b[v] * e + e * e,
          block |-> [b EXCEPT ![v] = b[v] + e]]
  BY <1>15 DEF Admit, Gathered, Gather, b
<1>17. Gathered(S \cup {g}) =
         [df |-> Total(Cost, S \cup {g}), energy |-> Total(Worth, S \cup {g}),
          squares |-> Total(Squares(c), Words), block |-> c]
  BY DEF Gathered, Gather, c
<1>18. /\ Total(Cost, S) + Cost[g] = Total(Cost, S \cup {g})
       /\ Total(Worth, S) + e = Total(Worth, S \cup {g})
  BY <1>1, <1>2
<1> QED
  BY <1>6, <1>14, <1>16, <1>17, <1>18

-----------------------------------------------------------------------------
(* A call of select.                                                       *)

Here == {g \in pool : Cost[g] > 0}
Cheap == {g \in Here : Cost[g] <= params.budget}

FirstOfClass ==
  {g \in Cheap : \A h \in Cheap : Class[h] = Class[g] => h = g \/ <<g, h>> \in RareOrder}

Reserve == {g \in Cheap : Place(Cheap, RareOrder, g) < params.floor}

Always == FirstOfClass \cup Reserve

(* What is kept beyond the floors: within the budget, and the last one     *)
(* needed.                                                                 *)
Thrifty ==
  kept # Always =>
    /\ Total(Cost, kept) <= params.budget
    /\ \E g \in kept \ Always :
         /\ \A h \in kept \ Always : h = g \/ <<h, g>> \in RareOrder
         /\ ~Fired(Gathered(kept \ {g}), params)

Unaffordable(g) == acc.df + Cost[g] > params.budget

CallInv ==
  /\ pool \in SUBSET Grams
  /\ todo \in SUBSET Here
  /\ kept \in SUBSET Cheap
  /\ acc = Gathered(kept)
  /\ scan \in {"classes", "typos", "greedy", "done"}
  /\ \A g \in Here \ todo, h \in todo : <<g, h>> \in RareOrder
  /\ scan = "classes" =>
       /\ kept = FirstOfClass \ todo
       /\ \A g \in Cheap \ todo : \E h \in kept : Class[h] = Class[g]
  /\ scan = "typos" =>
       /\ kept = FirstOfClass \cup (Cheap \ todo)
       /\ Cardinality(Cheap \ todo) <= params.floor
  /\ scan \in {"greedy", "done"} => Always \subseteq kept /\ Thrifty
  /\ scan = "greedy" =>
       /\ kept \ Always \subseteq Here \ todo
       /\ ~Fired(acc, params)
       /\ \A g \in (Here \ todo) \ kept : Unaffordable(g)
  /\ scan = "done" => Fired(acc, params) \/ \A g \in Here \ kept : Unaffordable(g)

LEMMA HereIs ==
  ASSUME Given, pool \in SUBSET Grams
  PROVE  /\ Present(pool) = Here /\ Here \in SUBSET Grams /\ Cheap \in SUBSET Grams
         /\ \A g \in Here : InBudget(g) <=> g \in Cheap
         /\ Unconditional = Always /\ Always \in SUBSET Cheap
         /\ todo \in SUBSET Here => Reserved = Cheap \ todo
<1>1. Present(pool) = Here /\ Here \in SUBSET Grams /\ Cheap \in SUBSET Grams
  BY OrderIs DEF Present, Here, Cheap
<1>2. \A g \in Here : InBudget(g) <=> g \in Cheap
  BY <1>1, OrderIs DEF InBudget, Cheap
<1>3. {g \in Present(pool) : InBudget(g)} = Cheap
  BY <1>1, <1>2 DEF Cheap
<1>4. ASSUME NEW g \in Cheap
      PROVE  {h \in Cheap : Rarer(h, g)} = Ahead(Cheap, RareOrder, g)
  BY <1>1, OrderIs DEF Ahead
<1>5. ASSUME NEW g \in Cheap
      PROVE  (\A h \in Cheap : ClassOf(h) = ClassOf(g) => h = g \/ Rarer(g, h))
               <=> g \in FirstOfClass
  BY <1>1, OrderIs DEF FirstOfClass
<1>6. Unconditional =
        {g \in Cheap :
          \/ \A h \in Cheap : ClassOf(h) = ClassOf(g) => h = g \/ Rarer(g, h)
          \/ Cardinality({h \in Cheap : Rarer(h, g)}) < params.floor}
  BY <1>3 DEF Unconditional
<1>7. \A g \in Cheap : Cardinality({h \in Cheap : Rarer(h, g)}) < params.floor <=> g \in Reserve
  BY <1>4 DEF Reserve, Place
<1>8. Always \in SUBSET Cheap
  BY DEF Always, FirstOfClass, Reserve
<1>9. Unconditional = Always
  BY <1>5, <1>6, <1>7, <1>8 DEF Always
<1>10. ASSUME todo \in SUBSET Here PROVE Reserved = Cheap \ todo
  BY <1>1, <1>2, <1>10 DEF Reserved, Cheap
<1> QED
  BY <1>1, <1>2, <1>8, <1>9, <1>10

(* What a step leaves alone.                                               *)
LEMMA ValuesKept ==
  ASSUME query' = query
  PROVE  /\ Cost' = Cost /\ Energy' = Energy /\ Worth' = Worth /\ WordOf' = WordOf
         /\ Class' = Class /\ RareOrder' = RareOrder /\ Grams' = Grams
<1>1. Grams' = Grams
  BY DEF Grams
<1>2. Cost' = Cost /\ WordOf' = WordOf /\ Class' = Class
  BY <1>1 DEF Cost, WordOf, Class, Df, ClassOf
<1>3. Energy' = Energy /\ Worth' = Worth
  BY <1>1 DEF Energy, Worth, Evidence, Floored, Df
<1>4. RareOrder' = RareOrder
  BY <1>1 DEF RareOrder, Rarer, Df, ClassOf
<1> QED
  BY <1>1, <1>2, <1>3, <1>4

LEMMA RowsKept ==
  ASSUME query' = query, params' = params, pool' = pool
  PROVE  /\ Cost' = Cost /\ Worth' = Worth /\ WordOf' = WordOf
         /\ Class' = Class /\ RareOrder' = RareOrder /\ Grams' = Grams
         /\ Here' = Here /\ Cheap' = Cheap /\ FirstOfClass' = FirstOfClass
         /\ Reserve' = Reserve /\ Always' = Always
<1>1. /\ Cost' = Cost /\ Worth' = Worth /\ WordOf' = WordOf
      /\ Class' = Class /\ RareOrder' = RareOrder /\ Grams' = Grams
  BY ValuesKept
<1>2. Here' = Here
  BY <1>1 DEF Here
<1>3. Cheap' = Cheap
  BY <1>1, <1>2 DEF Cheap
<1>4. FirstOfClass' = FirstOfClass /\ Reserve' = Reserve
  BY <1>1, <1>3 DEF FirstOfClass, Reserve
<1>5. Always' = Always
  BY <1>4 DEF Always
<1> QED
  BY <1>1, <1>2, <1>3, <1>4, <1>5

(* A scan comes to the rarest of what is left.                             *)
LEMMA NextRarest ==
  ASSUME Given, CallInv, todo # {}
  PROVE  LET g == Rarest(todo)
         IN  /\ g \in todo /\ g \in Here /\ g \in Grams
             /\ \A h \in Here \ todo : <<h, g>> \in RareOrder
             /\ \A h \in Here \ (todo \ {g}), k \in todo \ {g} : <<h, k>> \in RareOrder
<1> DEFINE g == Rarest(todo)
<1>1. /\ pool \in SUBSET Grams /\ todo \in SUBSET Here
      /\ \A h \in Here \ todo, k \in todo : <<h, k>> \in RareOrder
  BY DEF CallInv
<1>2. Here \in SUBSET Grams
  BY <1>1, HereIs
<1>3. g \in todo /\ \A h \in todo \ {g} : <<g, h>> \in RareOrder
  BY <1>1, <1>2, RarestIs
<1> HIDE DEF g
<1>4. /\ g \in todo /\ g \in Here /\ g \in Grams
      /\ \A h \in Here \ todo : <<h, g>> \in RareOrder
  BY <1>1, <1>2, <1>3
<1>5. \A h \in Here \ (todo \ {g}), k \in todo \ {g} : <<h, k>> \in RareOrder
  BY <1>1, <1>3
<1> QED
  BY <1>4, <1>5 DEF g

LEMMA KeepIs ==
  ASSUME Given, CallInv, NEW g \in Grams \ kept, Keep(g)
  PROVE  kept' = kept \cup {g} /\ acc' = Gathered(kept \cup {g})
<1>1. pool \in SUBSET Grams /\ kept \in SUBSET Cheap /\ acc = Gathered(kept)
  BY DEF CallInv
<1>2. kept \in SUBSET Grams
  BY <1>1, HereIs
<1> QED
  BY <1>1, <1>2, AdmitIs DEF Keep

LEMMA ClassFloorKeeps ==
  ASSUME Given, CallInv, ClassFloor, query' = query, params' = params
  PROVE  CallInv'
<1> DEFINE g == Rarest(todo)
<1>1. /\ scan = "classes" /\ todo # {} /\ todo' = todo \ {g} /\ pool' = pool /\ scan' = scan
      /\ KeepUnless(~InBudget(g) \/ ClassOf(g) \in Seated, g)
  BY DEF ClassFloor
<1>2. /\ Cost' = Cost /\ Worth' = Worth /\ WordOf' = WordOf
      /\ Class' = Class /\ RareOrder' = RareOrder /\ Grams' = Grams
      /\ Here' = Here /\ Cheap' = Cheap /\ FirstOfClass' = FirstOfClass
      /\ Reserve' = Reserve /\ Always' = Always
  BY <1>1, RowsKept
<1>3. /\ g \in todo /\ g \in Here /\ g \in Grams
      /\ \A h \in Here \ todo : <<h, g>> \in RareOrder
      /\ \A h \in Here \ (todo \ {g}), k \in todo \ {g} : <<h, k>> \in RareOrder
  BY <1>1, NextRarest
<1>4. /\ pool \in SUBSET Grams /\ todo \in SUBSET Here /\ kept \in SUBSET Cheap
      /\ acc = Gathered(kept) /\ kept = FirstOfClass \ todo
      /\ \A h \in Cheap \ todo : \E k \in kept : Class[k] = Class[h]
      /\ \A h \in Here \ todo, k \in todo : <<h, k>> \in RareOrder
  BY <1>1 DEF CallInv
<1>5. /\ Here \in SUBSET Grams /\ Cheap \in SUBSET Here /\ FirstOfClass \in SUBSET Cheap
      /\ InBudget(g) <=> g \in Cheap
  BY <1>3, <1>4, HereIs DEF Cheap, FirstOfClass
<1>6. ClassOf(g) \in Seated <=> \E k \in kept : Class[k] = Class[g]
  BY <1>3, <1>4, <1>5, OrderIs DEF Seated
<1>7. StrictOrder(Grams, RareOrder)
  BY RarestFirst
<1> HIDE DEF g
<1>8. /\ kept' \in SUBSET Cheap /\ kept' = FirstOfClass \ (todo \ {g})
      /\ acc' = Gathered(kept')
      /\ \A h \in Cheap \ (todo \ {g}) : \E k \in kept' : Class[k] = Class[h]
  <2>1. CASE ~InBudget(g) \/ ClassOf(g) \in Seated
    <3>1. kept' = kept /\ acc' = acc
      BY <1>1, <2>1 DEF KeepUnless
    <3>2. g \notin FirstOfClass
      <4>1. CASE g \notin Cheap
        BY <1>5, <4>1
      <4>2. CASE g \in Cheap
        <5>1. PICK k \in kept : Class[k] = Class[g]
          BY <1>5, <1>6, <2>1, <4>2
        <5>2. <<k, g>> \in RareOrder /\ k \in Cheap /\ k \in Grams
          BY <1>3, <1>4, <1>5
        <5>3. k # g /\ <<g, k>> \notin RareOrder
          BY <1>3, <1>7, <5>2 DEF StrictOrder
        <5> QED
          BY <5>1, <5>2, <5>3 DEF FirstOfClass
      <4> QED
        BY <4>1, <4>2
    <3>3. g \in Cheap => \E k \in kept : Class[k] = Class[g]
      BY <1>5, <1>6, <2>1
    <3> QED
      BY <1>4, <3>1, <3>2, <3>3
  <2>2. CASE InBudget(g) /\ ClassOf(g) \notin Seated
    <3>1. Keep(g) /\ g \in Grams \ kept
      BY <1>1, <1>3, <1>4, <2>2 DEF KeepUnless
    <3>2. kept' = kept \cup {g} /\ acc' = Gathered(kept \cup {g})
      BY <3>1, KeepIs
    <3>3. g \in Cheap
      BY <1>5, <2>2
    <3>4. ASSUME NEW h \in Cheap, Class[h] = Class[g], h # g PROVE <<g, h>> \in RareOrder
      <4>1. h \in todo
        BY <1>4, <1>6, <2>2, <3>4
      <4> QED
        BY <1>3, <3>4, <4>1
    <3>5. g \in FirstOfClass
      BY <3>3, <3>4 DEF FirstOfClass
    <3> QED
      BY <1>4, <3>2, <3>3, <3>5
  <2> QED
    BY <2>1, <2>2
<1>9. todo' \in SUBSET Here
  BY <1>1, <1>4
<1>10. (Gathered(kept))' = Gathered(kept')
  BY <1>2 DEF Gathered
<1> QED
  BY <1>1, <1>2, <1>3, <1>4, <1>8, <1>9, <1>10 DEF CallInv

LEMMA StartTypoFloorKeeps ==
  ASSUME Given, CallInv, StartTypoFloor, query' = query, params' = params
  PROVE  CallInv'
<1>1. /\ scan = "classes" /\ todo = {} /\ scan' = "typos" /\ todo' = Present(pool)
      /\ pool' = pool /\ kept' = kept /\ acc' = acc
  BY DEF StartTypoFloor
<1>2. /\ Cost' = Cost /\ Worth' = Worth /\ WordOf' = WordOf
      /\ Class' = Class /\ RareOrder' = RareOrder /\ Grams' = Grams
      /\ Here' = Here /\ Cheap' = Cheap /\ FirstOfClass' = FirstOfClass
      /\ Reserve' = Reserve /\ Always' = Always
  BY <1>1, RowsKept
<1>3. pool \in SUBSET Grams /\ kept \in SUBSET Cheap /\ acc = Gathered(kept)
      /\ kept = FirstOfClass \ todo
  BY <1>1 DEF CallInv
<1>4. todo' = Here
  BY <1>1, <1>3, HereIs
<1>5. Cheap \ Here = {} /\ Cardinality({}) = 0 /\ params.floor \in Nat
  BY FS_EmptySet, Typed DEF Cheap
<1>6. (Gathered(kept))' = Gathered(kept')
  BY <1>2 DEF Gathered
<1>7. kept' = FirstOfClass \cup (Cheap \ Here) /\ Cardinality(Cheap \ Here) <= params.floor
  BY <1>1, <1>3, <1>5
<1> QED
  BY <1>1, <1>2, <1>3, <1>4, <1>6, <1>7 DEF CallInv

LEMMA TypoFloorKeeps ==
  ASSUME Given, CallInv, TypoFloor, query' = query, params' = params
  PROVE  CallInv'
<1> DEFINE g == Rarest(todo)
<1>1. /\ scan = "typos" /\ todo # {} /\ todo' = todo \ {g} /\ pool' = pool /\ scan' = scan
      /\ Cardinality(Reserved) < params.floor
      /\ KeepUnless(~InBudget(g) \/ g \in kept, g)
  BY DEF TypoFloor
<1>2. /\ Cost' = Cost /\ Worth' = Worth /\ WordOf' = WordOf
      /\ Class' = Class /\ RareOrder' = RareOrder /\ Grams' = Grams
      /\ Here' = Here /\ Cheap' = Cheap /\ FirstOfClass' = FirstOfClass
      /\ Reserve' = Reserve /\ Always' = Always
  BY <1>1, RowsKept
<1>3. /\ g \in todo /\ g \in Here /\ g \in Grams
      /\ \A h \in Here \ (todo \ {g}), k \in todo \ {g} : <<h, k>> \in RareOrder
  BY <1>1, NextRarest
<1>4. /\ pool \in SUBSET Grams /\ todo \in SUBSET Here /\ kept \in SUBSET Cheap
      /\ acc = Gathered(kept) /\ kept = FirstOfClass \cup (Cheap \ todo)
  BY <1>1 DEF CallInv
<1>5. /\ Cheap \in SUBSET Grams
      /\ InBudget(g) <=> g \in Cheap
      /\ Cardinality(Cheap \ todo) < params.floor
  BY <1>1, <1>3, <1>4, HereIs
<1> HIDE DEF g
<1>6. Cardinality(Cheap \ (todo \ {g})) <= params.floor
  <2> DEFINE A == Cheap \ todo
  <2>1. IsFiniteSet(A) /\ Cardinality(A) \in Nat /\ params.floor \in Nat
    <3>1. A \in SUBSET Grams
      BY <1>5
    <3> QED
      BY <3>1, Typed, FS_Subset, FS_CardinalityType
  <2>2. Cheap \ (todo \ {g}) = A \/ Cheap \ (todo \ {g}) = A \cup {g}
    OBVIOUS
  <2>3. g \notin A
    BY <1>3
  <2> HIDE DEF A
  <2>4. Cardinality(A \cup {g}) = Cardinality(A) + 1
    BY <2>1, <2>3, FS_AddElement
  <2>5. Cardinality(A) < params.floor
    BY <1>5 DEF A
  <2>6. Cardinality(A) + 1 <= params.floor /\ Cardinality(A) <= params.floor
    BY <2>1, <2>5
  <2>7. CASE Cheap \ (todo \ {g}) = A
    BY <2>6, <2>7
  <2>8. CASE Cheap \ (todo \ {g}) = A \cup {g}
    BY <2>4, <2>6, <2>8
  <2> QED
    BY <2>2, <2>7, <2>8
<1>7. /\ kept' \in SUBSET Cheap /\ kept' = FirstOfClass \cup (Cheap \ (todo \ {g}))
      /\ acc' = Gathered(kept')
  <2>1. CASE ~InBudget(g) \/ g \in kept
    <3>1. kept' = kept /\ acc' = acc
      BY <1>1, <2>1 DEF KeepUnless
    <3> QED
      BY <1>3, <1>4, <1>5, <2>1, <3>1
  <2>2. CASE InBudget(g) /\ g \notin kept
    <3>1. Keep(g) /\ g \in Grams \ kept
      BY <1>1, <1>3, <2>2 DEF KeepUnless
    <3>2. kept' = kept \cup {g} /\ acc' = Gathered(kept \cup {g})
      BY <3>1, KeepIs
    <3> QED
      BY <1>3, <1>4, <1>5, <2>2, <3>2
  <2> QED
    BY <2>1, <2>2
<1>8. todo' \in SUBSET Here
  BY <1>1, <1>4
<1>9. (Gathered(kept))' = Gathered(kept')
  BY <1>2 DEF Gathered
<1> QED
  BY <1>1, <1>2, <1>3, <1>4, <1>6, <1>7, <1>8, <1>9 DEF CallInv

(* The typo floor has counted the first of all.                            *)
LEMMA ReserveIs ==
  ASSUME Given, CallInv, scan = "typos",
         todo = {} \/ Cardinality(Cheap \ todo) >= params.floor
  PROVE  Reserve = Cheap \ todo
<1> DEFINE A == Cheap \ todo
<1>1. /\ pool \in SUBSET Grams /\ todo \in SUBSET Here
      /\ \A h \in Here \ todo, k \in todo : <<h, k>> \in RareOrder
      /\ Cardinality(A) <= params.floor
  BY DEF CallInv
<1>2. Cheap \in SUBSET Grams /\ Cheap \in SUBSET Here /\ Here \in SUBSET Grams
  BY <1>1, HereIs DEF Cheap
<1>3. IsFiniteSet(Cheap) /\ StrictOrder(Cheap, RareOrder) /\ params.floor \in Nat
  BY <1>2, Typed, RarestFirst, FS_Subset DEF StrictOrder
<1>4. A \in SUBSET Cheap /\ IsFiniteSet(A) /\ Cardinality(A) \in Nat
  BY <1>3, FS_Subset, FS_CardinalityType
<1>5. ASSUME NEW g \in A PROVE Place(Cheap, RareOrder, g) < params.floor
  <2> DEFINE B == Ahead(Cheap, RareOrder, g)
  <2>1. B \in SUBSET (A \ {g})
    <3> SUFFICES ASSUME NEW h \in B PROVE h \in A \ {g}
      OBVIOUS
    <3>1. h \in Cheap /\ <<h, g>> \in RareOrder
      BY DEF Ahead
    <3>2. h # g
      BY <1>3, <3>1 DEF StrictOrder
    <3>3. h \notin todo
      <4> SUFFICES ASSUME h \in todo PROVE FALSE
        OBVIOUS
      <4>1. <<g, h>> \in RareOrder
        BY <1>1, <1>2
      <4> QED
        BY <1>3, <3>1, <4>1 DEF StrictOrder
    <3> QED
      BY <3>1, <3>2, <3>3
  <2>2. IsFiniteSet(A \ {g}) /\ Cardinality(A \ {g}) = Cardinality(A) - 1
    BY <1>4, FS_RemoveElement
  <2> HIDE DEF B, A
  <2>3. Cardinality(B) <= Cardinality(A \ {g}) /\ Cardinality(B) \in Nat
    BY <2>1, <2>2, FS_Subset, FS_CardinalityType
  <2> QED
    BY <1>1, <1>3, <1>4, <2>2, <2>3 DEF B, Place
<1>6. ASSUME NEW g \in Cheap, g \in todo PROVE ~(Place(Cheap, RareOrder, g) < params.floor)
  <2> DEFINE B == Ahead(Cheap, RareOrder, g)
  <2>1. A \in SUBSET B
    BY <1>1, <1>2, <1>6 DEF Ahead
  <2>2. IsFiniteSet(B) /\ Cardinality(B) \in Nat
    BY <1>3, PlaceType, FS_CardinalityType
  <2>3. Cardinality(A) >= params.floor
    BY <1>6
  <2> HIDE DEF B, A
  <2>4. Cardinality(A) <= Cardinality(B)
    BY <2>1, <2>2, FS_Subset
  <2> QED
    BY <1>3, <1>4, <2>2, <2>3, <2>4 DEF B, Place
<1> QED
  BY <1>4, <1>5, <1>6 DEF Reserve

LEMMA StartGreedyKeeps ==
  ASSUME Given, CallInv, StartGreedy, query' = query, params' = params
  PROVE  CallInv'
<1>1. /\ scan = "typos"
      /\ todo = {} \/ Cardinality(Reserved) >= params.floor
      /\ scan' = (IF Fired(acc, params) THEN "done" ELSE "greedy")
      /\ todo' = Present(pool) /\ pool' = pool /\ kept' = kept /\ acc' = acc
  BY DEF StartGreedy
<1>2. /\ Cost' = Cost /\ Worth' = Worth /\ WordOf' = WordOf
      /\ Class' = Class /\ RareOrder' = RareOrder /\ Grams' = Grams
      /\ Here' = Here /\ Cheap' = Cheap /\ FirstOfClass' = FirstOfClass
      /\ Reserve' = Reserve /\ Always' = Always
  BY <1>1, RowsKept
<1>3. /\ pool \in SUBSET Grams /\ todo \in SUBSET Here /\ kept \in SUBSET Cheap
      /\ acc = Gathered(kept) /\ kept = FirstOfClass \cup (Cheap \ todo)
  BY <1>1 DEF CallInv
<1>4. todo' = Here /\ Reserved = Cheap \ todo
  BY <1>1, <1>3, HereIs
<1>5. kept = Always
  BY <1>1, <1>3, <1>4, ReserveIs DEF Always
<1>6. (Gathered(kept))' = Gathered(kept')
  BY <1>2 DEF Gathered
<1>7. kept' = Always' /\ Thrifty'
  BY <1>1, <1>2, <1>5 DEF Thrifty
<1>8. Fired(acc', params') <=> Fired(acc, params)
  BY <1>1
<1>9. scan' = "done" => Fired(acc', params')
  BY <1>1
<1>10. scan' = "greedy" => ~Fired(acc', params')
  BY <1>1
<1> QED
  BY <1>1, <1>2, <1>3, <1>4, <1>6, <1>7, <1>9, <1>10 DEF CallInv

LEMMA GreedyKeeps ==
  ASSUME Given, CallInv, Greedy, query' = query, params' = params
  PROVE  CallInv'
<1> DEFINE g == Rarest(todo)
<1>1. /\ scan = "greedy" /\ todo # {} /\ todo' = todo \ {g} /\ pool' = pool
      /\ KeepUnless(g \in kept \/ acc.df + Df(g) > params.budget, g)
      /\ scan' = (IF kept' # kept /\ Fired(acc', params) THEN "done" ELSE scan)
  BY DEF Greedy
<1>2. /\ Cost' = Cost /\ Worth' = Worth /\ WordOf' = WordOf
      /\ Class' = Class /\ RareOrder' = RareOrder /\ Grams' = Grams
      /\ Here' = Here /\ Cheap' = Cheap /\ FirstOfClass' = FirstOfClass
      /\ Reserve' = Reserve /\ Always' = Always
  BY <1>1, RowsKept
<1>3. /\ g \in todo /\ g \in Here /\ g \in Grams
      /\ \A h \in Here \ todo : <<h, g>> \in RareOrder
      /\ \A h \in Here \ (todo \ {g}), k \in todo \ {g} : <<h, k>> \in RareOrder
  BY <1>1, NextRarest
<1>4. /\ pool \in SUBSET Grams /\ todo \in SUBSET Here /\ kept \in SUBSET Cheap
      /\ acc = Gathered(kept)
      /\ Always \subseteq kept /\ kept \ Always \subseteq Here \ todo
      /\ ~Fired(acc, params)
      /\ \A h \in (Here \ todo) \ kept : Unaffordable(h)
  BY <1>1 DEF CallInv
<1>5. Thrifty
  BY <1>1 DEF CallInv
<1>6. /\ Cheap \in SUBSET Grams /\ Here \in SUBSET Grams
      /\ Cost[g] = Df(g) /\ Cost[g] \in Nat /\ params.budget \in Nat
      /\ \A h \in Here : Cost[h] \in Nat
  BY <1>3, <1>4, HereIs, OrderIs, Typed
<1>7. acc.df = Total(Cost, kept) /\ acc.df \in Nat
  <2>1. IsFiniteSet(kept) /\ \A h \in kept : Cost[h] \in Nat
    <3>1. kept \in SUBSET Grams
      BY <1>4, <1>6
    <3> QED
      BY <3>1, Typed, FS_Subset
  <2>2. acc.df = Total(Cost, kept)
    BY <1>4 DEF Gathered, Gather
  <2>3. Total(Cost, kept) \in Nat
    BY <2>1, TotalNat
  <2> QED
    BY <2>2, <2>3
<1> HIDE DEF g
<1>8. (Gathered(kept))' = Gathered(kept')
  BY <1>2 DEF Gathered
<1>9. todo' \in SUBSET Here /\ scan' \in {"greedy", "done"}
  BY <1>1, <1>4
<1>10. CASE g \in kept \/ acc.df + Df(g) > params.budget
  <2>1. kept' = kept /\ acc' = acc /\ scan' = "greedy"
    BY <1>1, <1>10 DEF KeepUnless
  <2>2. Thrifty'
    <3>1. \A h : (Gathered(kept \ {h}))' = Gathered(kept \ {h})
      BY <1>2, <2>1 DEF Gathered
    <3> QED
      BY <1>2, <1>5, <2>1, <3>1 DEF Thrifty
  <2>3. \A h \in (Here \ (todo \ {g})) \ kept : Unaffordable(h)
    BY <1>4, <1>6, <1>10 DEF Unaffordable
  <2>4. \A h : Unaffordable(h)' <=> Unaffordable(h)
    BY <1>2, <2>1 DEF Unaffordable
  <2> QED
    BY <1>1, <1>2, <1>3, <1>4, <1>8, <1>9, <2>1, <2>2, <2>3, <2>4 DEF CallInv
<1>11. CASE g \notin kept /\ ~(acc.df + Df(g) > params.budget)
  <2>1. Keep(g) /\ g \in Grams \ kept
    BY <1>1, <1>3, <1>11 DEF KeepUnless
  <2>2. kept' = kept \cup {g} /\ acc' = Gathered(kept \cup {g})
    BY <2>1, KeepIs
  <2>3. g \in Cheap
    BY <1>3, <1>6, <1>7, <1>11 DEF Cheap
  <2>4. Total(Cost, kept \cup {g}) = Cost[g] + Total(Cost, kept)
    <3>1. IsFiniteSet(kept) /\ Weights(Cost, kept \cup {g})
      <4>1. kept \cup {g} \in SUBSET Grams
        BY <1>3, <1>4, <1>6
      <4> QED
        BY <4>1, Typed, FS_Subset DEF Weights
    <3> QED
      BY <1>11, <3>1, TotalAdd
  <2>5. acc'.df = Total(Cost, kept') /\ Total(Cost, kept') = acc.df + Cost[g]
    <3>1. acc'.df = Total(Cost, kept')
      BY <2>2 DEF Gathered, Gather
    <3> QED
      BY <1>6, <1>7, <2>2, <2>4, <3>1
  <2>6. Total(Cost, kept') <= params.budget
    BY <1>6, <1>7, <1>11, <2>5
  <2>7. /\ g \in kept' \ Always /\ kept' \ {g} = kept
        /\ \A h \in kept' \ Always : h = g \/ <<h, g>> \in RareOrder
    BY <1>3, <1>4, <1>11, <2>2
  <2>8. Thrifty'
    <3>1. \A h : (Gathered(kept \ {h}))' = Gathered(kept' \ {h})
      BY <1>2 DEF Gathered
    <3>2. ~Fired(Gathered(kept' \ {g}), params)
      BY <1>4, <2>7
    <3> QED
      BY <1>2, <2>6, <2>7, <3>1, <3>2 DEF Thrifty
  <2>9. \A h \in (Here \ (todo \ {g})) \ kept' : acc'.df + Cost[h] > params.budget
    <3> SUFFICES ASSUME NEW h \in (Here \ (todo \ {g})) \ kept'
                 PROVE  acc'.df + Cost[h] > params.budget
      OBVIOUS
    <3>1. h \in (Here \ todo) \ kept /\ Cost[h] \in Nat
      BY <1>6, <2>2
    <3>2. acc.df + Cost[h] > params.budget
      BY <1>4, <3>1 DEF Unaffordable
    <3> QED
      BY <1>6, <1>7, <2>5, <3>1, <3>2
  <2>10. \A h : Unaffordable(h)' <=> acc'.df + Cost[h] > params.budget
    BY <1>2 DEF Unaffordable
  <2>11. kept' # kept /\ kept' \in SUBSET Cheap /\ acc' = Gathered(kept')
         /\ Always \subseteq kept' /\ kept' \ Always \subseteq Here \ (todo \ {g})
    BY <1>3, <1>4, <1>11, <2>2, <2>3
  <2>12. /\ scan' = "done" => Fired(acc', params)
         /\ scan' = "greedy" => ~Fired(acc', params)
    BY <1>1, <2>11
  <2> QED
    BY <1>1, <1>2, <1>3, <1>4, <1>8, <1>9, <2>8, <2>9, <2>10, <2>11, <2>12 DEF CallInv
<1> QED
  BY <1>10, <1>11

LEMMA GreedyEndsKeeps ==
  ASSUME Given, CallInv, GreedyEnds, query' = query, params' = params
  PROVE  CallInv'
<1>1. /\ scan = "greedy" /\ todo = {} /\ scan' = "done"
      /\ pool' = pool /\ todo' = todo /\ kept' = kept /\ acc' = acc
  BY DEF GreedyEnds
<1>2. /\ Cost' = Cost /\ Worth' = Worth /\ WordOf' = WordOf
      /\ Class' = Class /\ RareOrder' = RareOrder /\ Grams' = Grams
      /\ Here' = Here /\ Cheap' = Cheap /\ FirstOfClass' = FirstOfClass
      /\ Reserve' = Reserve /\ Always' = Always
  BY <1>1, RowsKept
<1>3. (Gathered(kept))' = Gathered(kept)
  BY <1>1, <1>2 DEF Gathered
<1>4. Thrifty => Thrifty'
  <2>1. \A h : (Gathered(kept \ {h}))' = Gathered(kept \ {h})
    BY <1>1, <1>2 DEF Gathered
  <2> QED
    BY <1>1, <1>2, <2>1 DEF Thrifty
<1>5. \A h : Unaffordable(h)' <=> Unaffordable(h)
  BY <1>1, <1>2 DEF Unaffordable
<1> QED
  BY <1>1, <1>2, <1>3, <1>4, <1>5 DEF CallInv

LEMMA SelectStepKeeps ==
  ASSUME Given, CallInv, SelectStep, query' = query, params' = params
  PROVE  CallInv'
BY ClassFloorKeeps, StartTypoFloorKeeps, TypoFloorKeeps, StartGreedyKeeps, GreedyKeeps,
   GreedyEndsKeeps DEF SelectStep

LEMMA CallStill ==
  ASSUME CallInv, query' = query, params' = params, UNCHANGED callVars
  PROVE  CallInv'
<1>1. /\ scan' = scan /\ pool' = pool /\ todo' = todo /\ kept' = kept /\ acc' = acc
  BY DEF callVars
<1>2. /\ Cost' = Cost /\ Worth' = Worth /\ WordOf' = WordOf
      /\ Class' = Class /\ RareOrder' = RareOrder /\ Grams' = Grams
      /\ Here' = Here /\ Cheap' = Cheap /\ FirstOfClass' = FirstOfClass
      /\ Reserve' = Reserve /\ Always' = Always
  BY <1>1, RowsKept
<1>3. (Gathered(kept))' = Gathered(kept)
  BY <1>1, <1>2 DEF Gathered
<1>4. Thrifty => Thrifty'
  <2>1. \A h : (Gathered(kept \ {h}))' = Gathered(kept \ {h})
    BY <1>1, <1>2 DEF Gathered
  <2> QED
    BY <1>1, <1>2, <2>1 DEF Thrifty
<1>5. \A h : Unaffordable(h)' <=> Unaffordable(h)
  BY <1>1, <1>2 DEF Unaffordable
<1> QED
  BY <1>1, <1>2, <1>3, <1>4, <1>5 DEF CallInv

(* A call that has just been given its rows.                               *)
LEMMA CallBegins ==
  Given /\ pool \in SUBSET Grams /\ scan = "classes" /\ todo = Present(pool)
    /\ kept = {} /\ acc = NoEvidence
  => CallInv
<1> SUFFICES ASSUME Given, pool \in SUBSET Grams, scan = "classes", todo = Present(pool),
                    kept = {}, acc = NoEvidence
             PROVE  CallInv
  OBVIOUS
<1>1. todo = Here
  BY HereIs
<1>2. \A S : {g \in {} : WordOf[g] = S} = {}
  OBVIOUS
<1>3. BlocksOf(Worth, WordOf, {}) = [w \in Words |-> 0]
  BY <1>2, TotalEmpty DEF BlocksOf
<1>4. Total(Squares([w \in Words |-> 0]), Words) = 0
  <2> DEFINE sq == Squares([w \in Words |-> 0])
  <2>1. \A w \in Words : sq[w] = 0
    BY DEF Squares
  <2> HIDE DEF sq
  <2>2. Total(sq, Words) = 0
    BY <2>1, Measures, TotalZero
  <2> QED
    BY <2>2 DEF sq
<1>5. acc = Gathered(kept)
  BY <1>3, <1>4, TotalEmpty DEF Gathered, Gather, NoEvidence
<1>6. FirstOfClass \in SUBSET Here /\ Cheap \in SUBSET Here
  BY DEF FirstOfClass, Cheap
<1> QED
  BY <1>1, <1>5, <1>6 DEF CallInv

-----------------------------------------------------------------------------
(* What a finished call owes its caller.                                   *)

LEMMA ReserveFew ==
  ASSUME Given, CallInv
  PROVE  IsFiniteSet(Reserve) /\ Cardinality(Reserve) <= params.floor
<1> DEFINE D == 0 .. params.floor - 1
           f == [g \in Reserve |-> Place(Cheap, RareOrder, g)]
<1>1. Cheap \in SUBSET Grams /\ params.floor \in Nat
  BY HereIs, Typed DEF CallInv
<1>2. IsFiniteSet(Cheap) /\ StrictOrder(Cheap, RareOrder)
  BY <1>1, Typed, RarestFirst, FS_Subset DEF StrictOrder
<1>3. \A g \in Reserve : g \in Cheap /\ Place(Cheap, RareOrder, g) \in D
  <2> SUFFICES ASSUME NEW g \in Reserve
               PROVE  g \in Cheap /\ Place(Cheap, RareOrder, g) \in D
    OBVIOUS
  <2>1. g \in Cheap /\ Place(Cheap, RareOrder, g) < params.floor
    BY DEF Reserve
  <2>2. Place(Cheap, RareOrder, g) \in 0 .. Cardinality(Cheap) - 1 /\ Cardinality(Cheap) \in Nat
    BY <1>2, <2>1, PlaceType, FS_CardinalityType
  <2> QED
    BY <1>1, <2>1, <2>2
<1>4. f \in Injection(Reserve, D)
  <2>1. \A g, h \in Reserve :
          Place(Cheap, RareOrder, g) = Place(Cheap, RareOrder, h) => g = h
    BY <1>2, <1>3, PlacesTaken
  <2> QED
    BY <1>3, <2>1 DEF Injection, IsInjective
<1>5. IsFiniteSet(D) /\ Cardinality(D) = params.floor
  <2>1. params.floor - 1 \in Int /\ 0 \in Int
    BY <1>1
  <2>2. /\ IsFiniteSet(D)
        /\ Cardinality(D) = IF 0 > params.floor - 1 THEN 0 ELSE params.floor - 1 - 0 + 1
    BY <2>1, FS_Interval
  <2> QED
    BY <1>1, <2>2
<1> HIDE DEF D, f
<1> QED
  BY <1>4, <1>5, FS_Injection

LEMMA FirstsFew ==
  ASSUME Given, CallInv
  PROVE  LET K == ClassesOf(Present(pool))
         IN  /\ IsFiniteSet(K) /\ IsFiniteSet(FirstOfClass)
             /\ Cardinality(FirstOfClass) <= Cardinality(K)
             /\ Here # {} => Cardinality(K) \in Nat \ {0}
<1> DEFINE K == {Class[g] : g \in Here}
           s == [g \in Here |-> Class[g]]
           f == [g \in FirstOfClass |-> Class[g]]
<1>1. Here \in SUBSET Grams /\ Cheap \in SUBSET Here /\ Present(pool) = Here
      /\ FirstOfClass \in SUBSET Cheap
  BY HereIs DEF CallInv, FirstOfClass, Cheap
<1>2. ClassesOf(Present(pool)) = K
  BY <1>1, OrderIs DEF ClassesOf
<1>3. IsFiniteSet(Here)
  BY <1>1, Typed, FS_Subset
<1>4. s \in Surjection(Here, K)
  BY DEF Surjection
<1>5. IsFiniteSet(K)
  <2> HIDE DEF s, K
  <2> QED
    BY <1>3, <1>4, FS_Surjection
<1>6. f \in Injection(FirstOfClass, K)
  <2>1. \A g \in FirstOfClass : Class[g] \in K
    BY <1>1
  <2>2. \A g, h \in FirstOfClass : Class[g] = Class[h] => g = h
    <3> SUFFICES ASSUME NEW g \in FirstOfClass, NEW h \in FirstOfClass, Class[g] = Class[h], g # h
                 PROVE  FALSE
      OBVIOUS
    <3>1. <<g, h>> \in RareOrder /\ <<h, g>> \in RareOrder /\ g \in Grams /\ h \in Grams
      BY <1>1 DEF FirstOfClass
    <3> QED
      BY <3>1, RarestFirst DEF StrictOrder
  <2> HIDE DEF K
  <2> QED
    BY <2>1, <2>2 DEF Injection, IsInjective
<1>7. Here # {} => K # {}
  OBVIOUS
<1> HIDE DEF K, f
<1>8. IsFiniteSet(FirstOfClass) /\ Cardinality(FirstOfClass) <= Cardinality(K)
  BY <1>5, <1>6, FS_Injection
<1>9. Here # {} => Cardinality(K) \in Nat \ {0}
  BY <1>5, <1>7, FS_CardinalityType, FS_EmptySet
<1> QED
  BY <1>2, <1>5, <1>8, <1>9

LEMMA AlwaysBounded ==
  ASSUME Given, CallInv
  PROVE  Total(Cost, Always)
           <= (params.floor + Cardinality(ClassesOf(Present(pool)))) * params.budget
<1> DEFINE n == Cardinality(ClassesOf(Present(pool)))
           A == Cardinality(FirstOfClass)
           B == Cardinality(Reserve)
           C == Cardinality(Always)
<1>1. IsFiniteSet(FirstOfClass) /\ A <= n /\ n \in Nat /\ A \in Nat
  BY FirstsFew, FS_CardinalityType
<1>2. IsFiniteSet(Reserve) /\ B <= params.floor /\ B \in Nat
  BY ReserveFew, FS_CardinalityType
<1>3. IsFiniteSet(Always) /\ C \in Nat /\ C <= A + B
  <2>1. /\ IsFiniteSet(FirstOfClass \cup Reserve)
        /\ Cardinality(FirstOfClass \cup Reserve)
             = A + B - Cardinality(FirstOfClass \cap Reserve)
    BY <1>1, <1>2, FS_Union
  <2>2. Cardinality(FirstOfClass \cap Reserve) \in Nat
    <3>1. FirstOfClass \cap Reserve \in SUBSET Reserve
      OBVIOUS
    <3> QED
      BY <1>2, <3>1, FS_Subset, FS_CardinalityType
  <2>3. C \in Nat
    BY <2>1, FS_CardinalityType DEF Always
  <2> HIDE DEF A, B
  <2> QED
    BY <1>1, <1>2, <2>1, <2>2, <2>3 DEF Always
<1>4. params.budget \in Nat /\ params.floor \in Nat
  BY Typed
<1>5. \A g \in Always : Cost[g] \in Nat /\ Cost[g] <= params.budget
  <2>1. Always \in SUBSET Cheap /\ Cheap \in SUBSET Grams
    BY HereIs DEF CallInv
  <2> QED
    BY <2>1, Typed DEF Cheap
<1>6. Total(Cost, Always) <= C * params.budget
  BY <1>3, <1>4, <1>5, TotalAtMost
<1>7. Total(Cost, Always) \in Nat
  BY <1>3, <1>5, TotalNat
<1> HIDE DEF A, B, C, n
<1>8. C <= params.floor + n
  BY <1>1, <1>2, <1>3, <1>4
<1>9. C * params.budget <= (params.floor + n) * params.budget
  BY <1>1, <1>3, <1>4, <1>8
<1>10. C * params.budget \in Nat /\ (params.floor + n) * params.budget \in Nat
  BY <1>1, <1>3, <1>4
<1>11. Total(Cost, Always) <= (params.floor + n) * params.budget
  BY <1>6, <1>7, <1>9, <1>10
<1> QED
  BY <1>11 DEF n

LEMMA AtLeastOne ==
  ASSUME NEW n \in Nat
  PROVE  Max({1, n}) = IF n = 0 THEN 1 ELSE n
<1> DEFINE m == Max({1, n})
<1>1. \E x \in {1, n} : \A y \in {1, n} : x >= y
  <2>1. 1 >= n \/ n >= 1
    OBVIOUS
  <2> QED
    BY <2>1
<1>2. m \in {1, n} /\ \A y \in {1, n} : m >= y
  BY <1>1 DEF Max
<1> HIDE DEF m
<1>3. m = IF n = 0 THEN 1 ELSE n
  BY <1>2
<1> QED
  BY <1>3 DEF m

LEMMA SelectedIs ==
  ASSUME Given, CallInv
  PROVE  /\ Selected \in SUBSET pool /\ kept \subseteq Selected
         /\ Here # {} => Cardinality(Present(Selected)) = Max({1, Cardinality(kept)})
         /\ Here # {} => Present(Selected) # {}
<1>1. /\ pool \in SUBSET Grams /\ kept \in SUBSET Here /\ Present(pool) = Here
      /\ Here \in SUBSET Grams /\ Here \in SUBSET pool
  BY HereIs DEF CallInv, Cheap, Here
<1>2. IsFiniteSet(kept) /\ Cardinality(kept) \in Nat
  BY <1>1, Typed, FS_Subset, FS_CardinalityType
<1>3. \A g \in Grams : Df(g) > 0 <=> Cost[g] > 0
  BY OrderIs
<1>4. \A g \in pool : Df(g) > 0 <=> g \in Here
  BY <1>1, <1>3 DEF Here
<1>5. CASE kept = {} /\ Here # {}
  <2>1. Rarest(Here) \in Here
    BY <1>1, <1>5, RarestIs
  <2>2. Selected = (pool \ Here) \cup {Rarest(Here)}
    BY <1>1, <1>5 DEF Selected, Rescued
  <2>3. Present(Selected) = {Rarest(Here)}
    BY <1>1, <1>4, <2>1, <2>2 DEF Present
  <2>4. Cardinality(Present(Selected)) = 1 /\ Cardinality(kept) = 0
    BY <1>5, <2>3, FS_Singleton, FS_EmptySet
  <2>5. Max({1, 0}) = 1
    BY AtLeastOne
  <2> QED
    BY <1>1, <1>5, <2>1, <2>2, <2>3, <2>4, <2>5
<1>6. CASE ~(kept = {} /\ Here # {})
  <2>1. Selected = (pool \ Here) \cup kept
    BY <1>1, <1>6 DEF Selected, Rescued
  <2>2. Present(Selected) = kept
    BY <1>1, <1>4, <2>1 DEF Present
  <2>3. ASSUME Here # {} PROVE kept # {} /\ Cardinality(kept) # 0
    BY <1>2, <1>6, <2>3, FS_EmptySet
  <2>4. Here # {} => Max({1, Cardinality(kept)}) = Cardinality(kept)
    BY <1>2, <2>3, AtLeastOne
  <2> QED
    BY <1>1, <2>1, <2>2, <2>3, <2>4
<1> QED
  BY <1>5, <1>6

LEMMA WorkIsBounded ==
  Given /\ CallInv => WorkBounded
<1> SUFFICES ASSUME Given, CallInv, scan = "done"
             PROVE  /\ \A g \in kept : InBudget(g)
                    /\ kept # Unconditional => SumDf(kept) <= params.budget
                    /\ SumDf(kept) <= (params.floor + Cardinality(ClassesOf(Present(pool))))
                                        * params.budget
                    /\ \/ Cardinality(Present(Selected)) = Max({1, Cardinality(kept)})
                       \/ Present(pool) = {}
  BY DEF WorkBounded
<1> DEFINE n == Cardinality(ClassesOf(Present(pool)))
<1>1. /\ pool \in SUBSET Grams /\ kept \in SUBSET Cheap /\ Thrifty
      /\ Always \subseteq kept
  BY DEF CallInv
<1>2. /\ Present(pool) = Here /\ Unconditional = Always /\ Cheap \in SUBSET Grams
      /\ \A g \in Here : InBudget(g) <=> g \in Cheap
      /\ Cheap \in SUBSET Here
  BY <1>1, HereIs DEF Cheap
<1>3. SumDf(kept) = Total(Cost, kept)
  BY <1>1, <1>2, SumDfIs
<1>4. \A g \in kept : InBudget(g)
  BY <1>1, <1>2
<1>5. kept # Unconditional => SumDf(kept) <= params.budget
  BY <1>1, <1>2, <1>3 DEF Thrifty
<1>6. SumDf(kept) <= (params.floor + n) * params.budget
  <2>1. CASE kept = Always
    BY <1>3, <2>1, AlwaysBounded
  <2>2. CASE kept # Always
    <3>1. Here # {}
      BY <1>1, <1>2, <2>2
    <3>2. n \in Nat \ {0} /\ params.budget \in Nat /\ params.floor \in Nat
      BY <3>1, FirstsFew, Typed
    <3>3. Total(Cost, kept) <= params.budget
      BY <1>1, <2>2 DEF Thrifty
    <3>4. Total(Cost, kept) \in Nat
      <4>1. kept \in SUBSET Grams
        BY <1>1, <1>2
      <4>2. IsFiniteSet(kept) /\ \A g \in kept : Cost[g] \in Nat
        BY <4>1, Typed, FS_Subset
      <4> QED
        BY <4>2, TotalNat
    <3> HIDE DEF n
    <3> DEFINE k == params.floor + n - 1
    <3>5. k \in Nat /\ (params.floor + n) = k + 1
      BY <3>2
    <3> HIDE DEF k
    <3>6. (k + 1) * params.budget = k * params.budget + params.budget /\ k * params.budget \in Nat
      BY <3>2, <3>5
    <3> QED
      BY <1>3, <3>2, <3>3, <3>4, <3>5, <3>6
  <2> QED
    BY <2>1, <2>2
<1>7. \/ Cardinality(Present(Selected)) = Max({1, Cardinality(kept)})
      \/ Present(pool) = {}
  BY <1>2, SelectedIs
<1> QED
  BY <1>4, <1>5, <1>6, <1>7

LEMMA StopIsJustified ==
  Given /\ CallInv => StopJustified
<1> SUFFICES ASSUME Given, CallInv, scan = "done" PROVE StopJustified
  BY DEF StopJustified
<1> DEFINE greedy == kept \ Unconditional
           IsLast(g) == \A h \in greedy \ {g} : Rarer(h, g)
           last == CHOOSE g \in greedy : IsLast(g)
<1>1. /\ pool \in SUBSET Grams /\ kept \in SUBSET Cheap /\ Thrifty
      /\ Always \subseteq kept /\ acc = Gathered(kept)
      /\ Fired(acc, params) \/ \A g \in Here \ kept : Unaffordable(g)
  BY DEF CallInv
<1>2. /\ Present(pool) = Here /\ Unconditional = Always /\ Cheap \in SUBSET Grams
      /\ Here \in SUBSET Grams
  BY <1>1, HereIs
<1>3. SumDf(kept) = Total(Cost, kept) /\ EvidenceOf(kept) = acc /\ acc.df = Total(Cost, kept)
  BY <1>1, <1>2, SumDfIs, EvidenceIs DEF Gathered, Gather
<1>4. Fired(EvidenceOf(kept), params) \/
        \A g \in Present(pool) \ kept : SumDf(kept) + Df(g) > params.budget
  BY <1>1, <1>2, <1>3, OrderIs DEF Unaffordable
<1>5. ASSUME greedy # {} PROVE ~Fired(EvidenceOf(kept \ {last}), params)
  <2>1. PICK g \in greedy : /\ \A h \in greedy : h = g \/ <<h, g>> \in RareOrder
                            /\ ~Fired(Gathered(kept \ {g}), params)
    BY <1>1, <1>2, <1>5 DEF Thrifty
  <2>2. greedy \in SUBSET Grams
    BY <1>1, <1>2
  <2>3. IsLast(g)
    BY <2>1, <2>2, OrderIs
  <2>4. last \in greedy /\ IsLast(last)
    BY <2>3
  <2>5. last = g
    <3> HIDE DEF last
    <3>1. last # g => <<g, last>> \in RareOrder /\ <<last, g>> \in RareOrder
      BY <2>1, <2>2, <2>4, OrderIs
    <3> QED
      BY <2>2, <2>4, <3>1, RarestFirst DEF StrictOrder
  <2> HIDE DEF last
  <2>6. EvidenceOf(kept \ {g}) = Gathered(kept \ {g})
    <3>1. kept \ {g} \in SUBSET Grams
      BY <1>1, <1>2
    <3> QED
      BY <3>1, EvidenceIs
  <2> QED
    BY <2>1, <2>5, <2>6
<1>6. Unconditional \subseteq kept
  BY <1>1, <1>2
<1> QED
  BY <1>4, <1>5, <1>6 DEF StopJustified

(* The blocks of a set of grams add up to its energy.                      *)
LEMMA BlocksAddUp ==
  ASSUME Given, NEW S \in SUBSET Grams
  PROVE  Total(BlocksOf(Worth, WordOf, S), Words) = Total(Worth, S)
<1> DEFINE Sum(T) == Total(BlocksOf(Worth, WordOf, T), Words)
           Q == {T \in SUBSET Grams : Sum(T) = Total(Worth, T)}
<1>1. ASSUME NEW T \in SUBSET Grams, \A g \in T : T \ {g} \in Q PROVE T \in Q
  <2>1. CASE T = {}
    <3> DEFINE b == BlocksOf(Worth, WordOf, T)
    <3>1. \A w \in Words : {g \in T : WordOf[g] = w} = {}
      BY <2>1
    <3>2. \A w \in Words : b[w] = 0
      BY <3>1, TotalEmpty DEF BlocksOf
    <3> HIDE DEF b
    <3>3. Total(b, Words) = 0
      BY <3>2, Measures, TotalZero
    <3>4. Total(Worth, T) = 0
      BY <2>1, TotalEmpty
    <3> QED
      BY <3>3, <3>4 DEF b
  <2>2. CASE T # {}
    <3>1. PICK g : g \in T
      BY <2>2
    <3> DEFINE R == T \ {g}
               V == Words \ {WordOf[g]}
               b == BlocksOf(Worth, WordOf, R)
               c == BlocksOf(Worth, WordOf, T)
    <3>2. R \in Q /\ R \in SUBSET Grams /\ g \in Grams \ R /\ T = R \cup {g}
      BY <1>1, <3>1
    <3>3. /\ IsFiniteSet(R) /\ Weights(Worth, R \cup {g}) /\ Worth[g] \in Nat
          /\ WordOf[g] \in Words
      BY <3>2, Typed, FS_Subset DEF Weights
    <3>4. b \in [Words -> Nat] /\ c \in [Words -> Nat]
      BY <3>2, BlocksTyped
    <3>5. Total(b, Words) = Total(Worth, R)
      BY <3>2
    <3>6. Admit(Gathered(R), g) = Gathered(T)
      <4> HIDE DEF R
      <4> QED
        BY <3>2, AdmitIs
    <3>7. /\ Admit(Gathered(R), g).block
               = [b EXCEPT ![WordOf[g]] = b[WordOf[g]] + Worth[g]]
          /\ Gathered(T).block = c
      <4> HIDE DEF R
      <4>1. Worth[g] = (IF Floored(g) THEN 0 ELSE Evidence(g)) /\ WordOf[g] = query[g].word
        BY <3>2, OrderIs
      <4> QED
        BY <4>1 DEF Admit, Gathered, Gather
    <3>8. c = [b EXCEPT ![WordOf[g]] = b[WordOf[g]] + Worth[g]]
      BY <3>6, <3>7
    <3> HIDE DEF b, c, R
    <3>9. c[WordOf[g]] = b[WordOf[g]] + Worth[g] /\ \A w \in V : b[w] = c[w]
      BY <3>3, <3>4, <3>8
    <3>10. /\ IsFiniteSet(V) /\ WordOf[g] \notin V /\ V \cup {WordOf[g]} = Words
           /\ Weights(b, V \cup {WordOf[g]}) /\ Weights(c, V \cup {WordOf[g]})
           /\ Weights(b, V) /\ b[WordOf[g]] \in Nat
      BY <3>3, <3>4, Measures, FS_Subset DEF Weights
    <3> HIDE DEF V
    <3>11. /\ Total(b, V \cup {WordOf[g]}) = b[WordOf[g]] + Total(b, V) /\ Total(b, V) \in Int
           /\ Total(c, V \cup {WordOf[g]}) = c[WordOf[g]] + Total(c, V)
           /\ Total(b, V) = Total(c, V)
      BY <3>9, <3>10, TotalAdd, TotalAgree
    <3>12. Total(Worth, R \cup {g}) = Worth[g] + Total(Worth, R) /\ Total(Worth, R) \in Int
      BY <3>2, <3>3, TotalAdd
    <3>13. Total(c, Words) = Worth[g] + Total(b, Words)
      <4>1. /\ Total(c, Words) = c[WordOf[g]] + Total(c, V)
            /\ Total(b, Words) = b[WordOf[g]] + Total(b, V)
        BY <3>10, <3>11
      <4>2. Total(c, V) = Total(b, V) /\ Total(b, V) \in Int
        BY <3>11
      <4>3. c[WordOf[g]] = b[WordOf[g]] + Worth[g]
        BY <3>9
      <4>4. Worth[g] \in Int /\ b[WordOf[g]] \in Int
        BY <3>3, <3>10
      <4> HIDE DEF V
      <4> QED
        BY <4>1, <4>2, <4>3, <4>4
    <3>14. Total(c, Words) = Total(Worth, T)
      BY <3>2, <3>5, <3>12, <3>13
    <3> QED
      BY <3>14 DEF c
  <2> QED
    BY <2>1, <2>2
<1> HIDE DEF Q
<1>2. \A T \in SUBSET Grams : T \in Q
  BY <1>1, Typed, SubsetInduction
<1> QED
  BY <1>2 DEF Q

(* The inequality the recall gate follows from: E is the energy, in B      *)
(* blocks, Q the sum of their squares, r / t the reliability and cc the    *)
(* square of the margin.                                                   *)
LEMMA GateArithmetic ==
  ASSUME NEW E \in Nat, NEW B \in Nat, NEW Q \in Nat, E * E <= B * Q,
         NEW r \in Nat, NEW t \in Nat, NEW cc \in Nat,
         (r * E) * (r * E) > cc * r * (t - r) * Q
  PROVE  r * (B + cc) >= cc * t
<1> SUFFICES ASSUME r * (B + cc) < cc * t PROVE FALSE
  OBVIOUS
<1> DEFINE x == r * B
           y == cc * (t - r)
           k == r * Q
<1>1. x \in Int /\ y \in Int /\ k \in Nat
  OBVIOUS
<1>2. x < y
  <2>1. r * (B + cc) = x + r * cc /\ cc * t = y + r * cc /\ r * cc \in Int
    OBVIOUS
  <2> HIDE DEF x, y
  <2> QED
    BY <1>1, <2>1
<1>3. x * k <= y * k
  <2> HIDE DEF x, y, k
  <2> QED
    BY <1>1, <1>2
<1>4. x * k = (r * r) * (B * Q)
  OBVIOUS
<1>5. y * k = cc * r * (t - r) * Q
  OBVIOUS
<1>6. (r * E) * (r * E) = (r * r) * (E * E)
  OBVIOUS
<1>7. (r * r) * (E * E) <= (r * r) * (B * Q)
  <2> DEFINE rr == r * r
             ee == E * E
             bq == B * Q
  <2>1. rr \in Nat /\ ee \in Nat /\ bq \in Nat /\ ee <= bq
    OBVIOUS
  <2> HIDE DEF rr, ee, bq
  <2>2. rr * ee <= rr * bq
    BY <2>1
  <2> QED
    BY <2>2 DEF rr, ee, bq
<1> DEFINE u == (r * E) * (r * E)
           xk == x * k
           yk == y * k
<1>8. u <= xk /\ xk <= yk /\ u > yk /\ u \in Int /\ xk \in Int /\ yk \in Int
  <2>1. u <= xk
    BY <1>4, <1>6, <1>7
  <2>2. xk <= yk
    BY <1>3
  <2>3. u > yk
    BY <1>5
  <2>4. u \in Int /\ xk \in Int /\ yk \in Int
    OBVIOUS
  <2> QED
    BY <2>1, <2>2, <2>3, <2>4
<1> HIDE DEF u, xk, yk
<1> QED
  BY <1>8

LEMMA GateIsImplied ==
  Given /\ CallInv => GateImplied
<1> DEFINE E == acc.energy
           B == Blocks(acc)
           Q == acc.squares
           r == params.r[1]
           t == params.r[2]
           c == params.c
<1> SUFFICES ASSUME Given, CallInv, (r * E) * (r * E) > c * c * r * (t - r) * Q
             PROVE  r * (B + c * c) >= c * c * t
  BY DEF GateImplied, GateOpen
<1>1. kept \in SUBSET Grams /\ acc = Gathered(kept)
  BY HereIs DEF CallInv
<1> DEFINE b == BlocksOf(Worth, WordOf, kept)
           sq == Squares(b)
<1>2. E = Total(Worth, kept) /\ Q = Total(sq, Words) /\ acc.block = b
  BY <1>1 DEF Gathered, Gather
<1>3. b \in [Words -> Nat] /\ sq \in [Words -> Nat] /\ \A w \in Words : sq[w] = b[w] * b[w]
  BY <1>1, BlocksTyped DEF Squares
<1>4. E = Total(b, Words)
  BY <1>1, <1>2, BlocksAddUp
<1>5. B = Cardinality({w \in Words : b[w] > 0})
  BY <1>2 DEF Blocks
<1> HIDE DEF b, sq
<1>6. Total(b, Words) * Total(b, Words) <= Cardinality({w \in Words : b[w] > 0}) * Total(sq, Words)
  BY <1>3, Measures, SumOfSquares
<1>7. E \in Nat /\ Q \in Nat
  BY <1>2, <1>3, <1>4, Measures, TotalNat
<1>8. B \in Nat
  <2>1. {w \in Words : b[w] > 0} \in SUBSET Words
    OBVIOUS
  <2> QED
    BY <1>5, <2>1, Measures, FS_Subset, FS_CardinalityType
<1>9. r \in Nat /\ t \in Nat /\ c \in Nat /\ c * c \in Nat
  BY Typed
<1>10. E * E <= B * Q
  BY <1>2, <1>4, <1>5, <1>6
<1> HIDE DEF E, B, Q, r, t, c
<1> QED
  BY <1>7, <1>8, <1>9, <1>10, GateArithmetic

-----------------------------------------------------------------------------
(* The plan of the views.                                                  *)

(* A selection from rows that leaves no class without a gram where rows    *)
(* has one the budget affords.                                             *)
Serves(cost, class, budget, v, rows) ==
  \A g \in rows :
    cost[g] > 0 /\ cost[g] <= budget =>
      \E h \in v \cap rows : cost[h] > 0 /\ class[h] = class[g]

LEMMA SelectedServes ==
  ASSUME Given, CallInv, scan = "done"
  PROVE  Serves(Cost, Class, params.budget, Selected, pool)
<1> SUFFICES ASSUME NEW g \in pool, Cost[g] > 0, Cost[g] <= params.budget
             PROVE  \E h \in Selected \cap pool : Cost[h] > 0 /\ Class[h] = Class[g]
  BY DEF Serves
<1>1. pool \in SUBSET Grams /\ Always \subseteq kept
  BY DEF CallInv
<1>2. g \in Cheap /\ Cheap \in SUBSET Grams
  BY <1>1, HereIs DEF Here, Cheap
<1> DEFINE S == {h \in Cheap : Class[h] = Class[g]}
           first == Rarest(S)
<1>3. S \in SUBSET Grams /\ S # {}
  BY <1>2
<1>4. first \in S /\ \A h \in S \ {first} : <<first, h>> \in RareOrder
  <2> HIDE DEF S
  <2> QED
    BY <1>3, RarestIs
<1> HIDE DEF first
<1>5. first \in FirstOfClass
  BY <1>4 DEF FirstOfClass
<1>6. first \in Selected
  BY <1>1, <1>5, SelectedIs DEF Always
<1>7. first \in pool /\ Cost[first] > 0 /\ Class[first] = Class[g]
  BY <1>4 DEF Cheap, Here
<1> QED
  BY <1>6, <1>7

(* What plan_views reads of a query, as values: the scripts without a      *)
(* primary gram, and the present primary grams of the others.              *)
NoPrimary == {s \in Scripts : Of(s, PrimaryRows) = {}}
Mine == [s \in Scripts |-> Present(Of(s, PrimaryRows))]
ScriptOf == [g \in Grams |-> query[g].class]

Hungry(none, mine, energy, v) ==
  {s \in Scripts :
     \/ s \in none
     \/ /\ mine[s] # {}
        /\ \/ Cardinality(mine[s]) < Nu
           \/ /\ Total(energy, mine[s]) > 0
              /\ StarvedRatio[2] * Total(energy, mine[s] \cap v)
                   < StarvedRatio[1] * Total(energy, mine[s])}

RowsFor(secondary, scriptOf, hungry) == {g \in secondary : scriptOf[g] \in hungry}

(* The rows of the secondary view after a primary selection v.             *)
Supply(v) == RowsFor(SecondaryRows, ScriptOf, Hungry(NoPrimary, Mine, Energy, v))

LEMMA EnergySumIs ==
  ASSUME Given
  PROVE  \A S \in SUBSET Grams : EnergySum(S) = Total(Energy, S)
BY SumEvidenceIs DEF EnergySum

LEMMA ScriptsAre ==
  ASSUME Given
  PROVE  /\ \A g \in Grams : ScriptOf[g] = query[g].class /\ ScriptOf[g] \in PresentScripts
         /\ PresentScripts \in SUBSET Scripts
         /\ \A s \in Scripts : Mine[s] = Present(Of(s, PrimaryRows)) /\ Mine[s] \in SUBSET Grams
         /\ PrimaryRows \in SUBSET Grams /\ SecondaryRows = Grams \ PrimaryRows
         /\ \A g, h \in Grams : Class[g] = Class[h] => ScriptOf[g] = ScriptOf[h]
<1> DEFINE Row == [class : Scripts, order : Nat, df : DOMAIN EnergyOf, word : Words]
<1>1. \A r \in Row : r.class \in Scripts
  OBVIOUS
<1>2. query \in Seq(Row)
  BY QueriesFit DEF Given
<1> HIDE DEF Row
<1>3. \A g \in Grams : query[g].class \in Scripts
  BY <1>1, <1>2 DEF Grams
<1>4. \A g \in Grams : ScriptOf[g] = query[g].class /\ ScriptOf[g] \in PresentScripts
  BY <1>3 DEF ScriptOf, PresentScripts, Of
<1>5. \A s \in Scripts : Mine[s] = Present(Of(s, PrimaryRows)) /\ Mine[s] \in SUBSET Grams
  BY DEF Mine, Present, Of, PrimaryRows
<1>6. \A g, h \in Grams : Class[g] = Class[h] => ScriptOf[g] = ScriptOf[h]
  BY <1>4, OrderIs DEF ClassOf
<1> QED
  BY <1>4, <1>5, <1>6 DEF PresentScripts, PrimaryRows, SecondaryRows

LEMMA SupplyIs ==
  ASSUME Given, NEW v \in SUBSET Grams
  PROVE  Pooled(Starved(v)) = Supply(v) /\ Supply(v) \in SUBSET SecondaryRows
<1> DEFINE H == Hungry(NoPrimary, Mine, Energy, v)
<1>1. ASSUME NEW s \in PresentScripts PROVE s \in Starved(v) <=> s \in H
  <2>1. s \in Scripts /\ Mine[s] = Present(Of(s, PrimaryRows)) /\ Mine[s] \in SUBSET Grams
    BY ScriptsAre
  <2>2. /\ EnergySum(Mine[s]) = Total(Energy, Mine[s])
        /\ EnergySum(Mine[s] \cap v) = Total(Energy, Mine[s] \cap v)
    BY <2>1, EnergySumIs
  <2>3. s \in NoPrimary <=> Of(s, PrimaryRows) = {}
    BY <2>1 DEF NoPrimary
  <2> QED
    BY <2>1, <2>2, <2>3 DEF Starved, Hungry
<1> HIDE DEF H
<1>2. Starved(v) \in SUBSET PresentScripts
  BY DEF Starved
<1>3. \A g \in SecondaryRows : query[g].class \in Starved(v) <=> ScriptOf[g] \in H
  BY <1>1, ScriptsAre
<1> QED
  BY <1>3 DEF Pooled, Supply, RowsFor, H

LEMMA PlanValuesKept ==
  ASSUME query' = query
  PROVE  /\ PrimaryRows' = PrimaryRows /\ SecondaryRows' = SecondaryRows
         /\ NoPrimary' = NoPrimary /\ Mine' = Mine /\ ScriptOf' = ScriptOf
<1>1. Grams' = Grams
  BY ValuesKept
<1>2. PrimaryRows' = PrimaryRows /\ SecondaryRows' = SecondaryRows
  BY <1>1 DEF PrimaryRows, SecondaryRows, IsSecondary
<1>3. NoPrimary' = NoPrimary /\ Mine' = Mine
  BY <1>2 DEF NoPrimary, Mine, Of, Present, Df
<1> QED
  BY <1>1, <1>2, <1>3 DEF ScriptOf

(* What the views hold, by what they were selected from.                   *)
Served(vs, p, primaryRows, supply, cost, class, budget) ==
  /\ \A i \in DOMAIN vs : vs[i] = p \/ vs[i] \in SUBSET supply
  /\ (\E g \in primaryRows : cost[g] > 0) => \E i \in DOMAIN vs : vs[i] = p
  /\ (\E g \in supply : cost[g] > 0) =>
       \E i \in DOMAIN vs : Serves(cost, class, budget, vs[i], supply)

PlanInv ==
  /\ step \in {"primary", "secondary", "planned"}
  /\ step = "primary" => pool = PrimaryRows
  /\ step # "primary" =>
       /\ primary \in SUBSET PrimaryRows
       /\ Serves(Cost, Class, params.budget, primary, PrimaryRows)
  /\ step = "secondary" =>
       pool = RowsFor(SecondaryRows, ScriptOf, Hungry(NoPrimary, Mine, Energy, primary))
  /\ step = "planned" =>
       Served(views, primary, PrimaryRows,
              RowsFor(SecondaryRows, ScriptOf, Hungry(NoPrimary, Mine, Energy, primary)),
              Cost, Class, params.budget)

LEMMA PresentIs ==
  ASSUME Given, NEW S \in SUBSET Grams
  PROVE  Present(S) = {} <=> ~ \E g \in S : Cost[g] > 0
BY OrderIs DEF Present

LEMMA PlanBegins ==
  ASSUME Init
  PROVE  Given /\ CallInv /\ PlanInv
<1>1. Given /\ pool = PrimaryRows /\ step = "primary"
  BY DEF Init, Given
<1>2. PrimaryRows \in SUBSET Grams
  BY DEF PrimaryRows
<1>3. CallInv
  BY <1>1, <1>2, CallBegins DEF Init
<1> QED
  BY <1>1, <1>3 DEF PlanInv

(* The primary selection, once made, is what the plan is made from.        *)
LEMMA PrimaryIs ==
  ASSUME Given, CallInv, PlanInv, step = "primary", scan = "done"
  PROVE  /\ Selected \in SUBSET PrimaryRows /\ Selected \in SUBSET Grams
         /\ Serves(Cost, Class, params.budget, Selected, PrimaryRows)
         /\ Pooled(Starved(Selected)) = Supply(Selected)
         /\ Supply(Selected) \in SUBSET Grams
<1>1. pool = PrimaryRows
  BY DEF PlanInv
<1>2. Selected \in SUBSET PrimaryRows /\ Selected \in SUBSET Grams
  BY <1>1, SelectedIs, ScriptsAre
<1> QED
  BY <1>1, <1>2, SelectedServes, SupplyIs, ScriptsAre

(* A plan without a secondary view is right where the corpus has no row    *)
(* for one.                                                                *)
LEMMA PlansPrimary ==
  ASSUME Given, CallInv, PlanInv, step = "primary", scan = "done",
         query' = query, params' = params, step' = "planned", primary' = Selected,
         Present(Supply(Selected)) = {},
         \/ views' = <<Selected>>
         \/ views' = <<>> /\ Present(PrimaryRows) = {}
  PROVE  PlanInv'
<1> DEFINE v == Selected
           supply == Supply(v)
<1>1. /\ v \in SUBSET PrimaryRows /\ v \in SUBSET Grams /\ supply \in SUBSET Grams
      /\ Serves(Cost, Class, params.budget, v, PrimaryRows)
  BY PrimaryIs
<1>2. ~ \E g \in supply : Cost[g] > 0
  BY <1>1, PresentIs
<1>3. views' = <<v>> \/ (views' = <<>> /\ ~ \E g \in PrimaryRows : Cost[g] > 0)
  BY PresentIs, ScriptsAre
<1>4. /\ Cost' = Cost /\ Energy' = Energy /\ Class' = Class
      /\ PrimaryRows' = PrimaryRows /\ SecondaryRows' = SecondaryRows
      /\ NoPrimary' = NoPrimary /\ Mine' = Mine /\ ScriptOf' = ScriptOf
  BY ValuesKept, PlanValuesKept
<1>5. supply = RowsFor(SecondaryRows, ScriptOf, Hungry(NoPrimary, Mine, Energy, v))
  BY DEF Supply
<1> HIDE DEF v, supply
<1>6. primary' = v
  BY DEF v
<1>7. Served(views', v, PrimaryRows, supply, Cost, Class, params.budget)
  BY <1>2, <1>3 DEF Served
<1> QED
  BY <1>1, <1>4, <1>5, <1>6, <1>7 DEF PlanInv

LEMMA PrimaryAloneKeeps ==
  ASSUME Given, CallInv, PlanInv, PrimaryAlone
  PROVE  PlanInv'
<1>1. /\ step = "primary" /\ scan = "done" /\ Starved(Selected) = {}
      /\ primary' = Selected /\ step' = "planned" /\ views' = <<Selected>>
      /\ query' = query /\ params' = params
  BY DEF PrimaryAlone, Planned
<1>2. Pooled(Starved(Selected)) = {}
  BY <1>1 DEF Pooled
<1>3. Present(Supply(Selected)) = {}
  BY <1>1, <1>2, PrimaryIs DEF Present
<1> QED
  BY <1>1, <1>3, PlansPrimary

LEMMA NoSecondaryKeeps ==
  ASSUME Given, CallInv, PlanInv, NoSecondary
  PROVE  PlanInv'
<1>1. /\ step = "primary" /\ scan = "done" /\ Present(Pooled(Starved(Selected))) = {}
      /\ primary' = Selected /\ step' = "planned"
      /\ query' = query /\ params' = params
  BY DEF NoSecondary, Planned
<1>2. views' = <<Selected>> \/ (views' = <<>> /\ Present(PrimaryRows) = {})
  BY DEF NoSecondary, Planned
<1>3. Present(Supply(Selected)) = {}
  BY <1>1, PrimaryIs
<1> QED
  BY <1>1, <1>2, <1>3, PlansPrimary

LEMMA SelectSecondaryKeeps ==
  ASSUME Given, CallInv, PlanInv, SelectSecondary
  PROVE  CallInv' /\ PlanInv'
<1>1. /\ step = "primary" /\ scan = "done" /\ primary' = Selected /\ step' = "secondary"
      /\ pool' = Pooled(Starved(Selected)) /\ query' = query /\ params' = params
  BY DEF SelectSecondary, Begin
<1>2. /\ Selected \in SUBSET PrimaryRows /\ pool' = Supply(Selected) /\ pool' \in SUBSET Grams
      /\ Serves(Cost, Class, params.budget, Selected, PrimaryRows)
  BY <1>1, PrimaryIs
<1>3. /\ Cost' = Cost /\ Energy' = Energy /\ Class' = Class /\ Grams' = Grams
      /\ PrimaryRows' = PrimaryRows /\ SecondaryRows' = SecondaryRows
      /\ NoPrimary' = NoPrimary /\ Mine' = Mine /\ ScriptOf' = ScriptOf
  BY <1>1, ValuesKept, PlanValuesKept
<1>4. pool' = RowsFor(SecondaryRows, ScriptOf, Hungry(NoPrimary, Mine, Energy, Selected))
  BY <1>2 DEF Supply
<1>5. PlanInv'
  <2> DEFINE v == Selected
  <2>1. /\ v \in SUBSET PrimaryRows /\ Serves(Cost, Class, params.budget, v, PrimaryRows)
        /\ pool' = RowsFor(SecondaryRows, ScriptOf, Hungry(NoPrimary, Mine, Energy, v))
        /\ primary' = v
    BY <1>1, <1>2, <1>4
  <2> HIDE DEF v
  <2> QED
    BY <1>1, <1>3, <2>1 DEF PlanInv
<1>6. /\ scan' = "classes" /\ kept' = {} /\ acc' = NoEvidence
      /\ todo' = Present(Pooled(Starved(Selected)))
  BY DEF SelectSecondary, Begin
<1>7. todo' = (Present(pool))'
  BY <1>1, <1>6 DEF Present, Df
<1>8. (Given /\ pool \in SUBSET Grams /\ scan = "classes" /\ todo = Present(pool)
         /\ kept = {} /\ acc = NoEvidence
       => CallInv)'
  BY CallBegins, PTL
<1>9. Given'
  BY <1>1 DEF Given
<1>10. (pool \in SUBSET Grams)' /\ (acc = NoEvidence)'
  BY <1>2, <1>3, <1>6 DEF NoEvidence
<1> QED
  BY <1>5, <1>6, <1>7, <1>8, <1>9, <1>10

LEMMA WithSecondaryKeeps ==
  ASSUME Given, CallInv, PlanInv, WithSecondary
  PROVE  PlanInv'
<1> DEFINE v == Selected
           supply == RowsFor(SecondaryRows, ScriptOf, Hungry(NoPrimary, Mine, Energy, primary))
<1>1. /\ step = "secondary" /\ scan = "done" /\ step' = "planned"
      /\ query' = query /\ params' = params /\ primary' = primary
      /\ (Present(PrimaryRows) = {} /\ views' = <<v>>) \/ views' = <<primary, v>>
  BY DEF WithSecondary, Planned
<1>2. /\ pool = supply /\ primary \in SUBSET PrimaryRows
      /\ Serves(Cost, Class, params.budget, primary, PrimaryRows)
  BY <1>1 DEF PlanInv
<1>3. v \in SUBSET supply /\ Serves(Cost, Class, params.budget, v, supply)
  BY <1>1, <1>2, SelectedIs, SelectedServes
<1>4. /\ Cost' = Cost /\ Energy' = Energy /\ Class' = Class
      /\ PrimaryRows' = PrimaryRows /\ SecondaryRows' = SecondaryRows
      /\ NoPrimary' = NoPrimary /\ Mine' = Mine /\ ScriptOf' = ScriptOf
  BY <1>1, ValuesKept, PlanValuesKept
<1>5. Present(PrimaryRows) = {} => ~ \E g \in PrimaryRows : Cost[g] > 0
  BY PresentIs, ScriptsAre
<1> HIDE DEF v, supply
<1>6. Served(views', primary, PrimaryRows, supply, Cost, Class, params.budget)
  <2>1. CASE Present(PrimaryRows) = {} /\ views' = <<v>>
    BY <1>3, <1>5, <2>1 DEF Served
  <2>2. CASE views' = <<primary, v>>
    <3>1. DOMAIN views' = {1, 2} /\ views'[1] = primary /\ views'[2] = v
      BY <2>2
    <3> QED
      BY <1>3, <3>1 DEF Served
  <2> QED
    BY <1>1, <2>1, <2>2
<1>7. supply' = supply
  BY <1>1, <1>4 DEF supply
<1> QED
  BY <1>1, <1>2, <1>4, <1>6 DEF PlanInv, supply

LEMMA PlanStill ==
  ASSUME Given, CallInv, PlanInv, query' = query, params' = params, pool' = pool,
         step' = step, primary' = primary, views' = views
  PROVE  PlanInv'
<1>1. /\ Cost' = Cost /\ Energy' = Energy /\ Class' = Class
      /\ PrimaryRows' = PrimaryRows /\ SecondaryRows' = SecondaryRows
      /\ NoPrimary' = NoPrimary /\ Mine' = Mine /\ ScriptOf' = ScriptOf
  BY ValuesKept, PlanValuesKept
<1> QED
  BY <1>1 DEF PlanInv

LEMMA SelectKeepsRows == ASSUME SelectStep PROVE pool' = pool
BY DEF SelectStep, ClassFloor, StartTypoFloor, TypoFloor, StartGreedy, Greedy, GreedyEnds

LEMMA PlanStepKeeps ==
  ASSUME Given, CallInv, PlanInv, [Next]_vars
  PROVE  Given' /\ CallInv' /\ PlanInv'
<1>1. query' = query /\ params' = params
  BY DEF Next, vars, Select, PrimaryAlone, NoSecondary, SelectSecondary, WithSecondary
<1>2. Given'
  BY <1>1 DEF Given
<1>3. CASE Select
  BY <1>1, <1>2, <1>3, SelectKeepsRows, SelectStepKeeps, PlanStill DEF Select
<1>4. CASE PrimaryAlone
  BY <1>1, <1>2, <1>4, CallStill, PrimaryAloneKeeps DEF PrimaryAlone
<1>5. CASE NoSecondary
  BY <1>1, <1>2, <1>5, CallStill, NoSecondaryKeeps DEF NoSecondary
<1>6. CASE SelectSecondary
  BY <1>2, <1>6, SelectSecondaryKeeps
<1>7. CASE WithSecondary
  BY <1>1, <1>2, <1>7, CallStill, WithSecondaryKeeps DEF WithSecondary
<1>8. CASE UNCHANGED vars
  <2>1. UNCHANGED callVars /\ pool' = pool /\ step' = step /\ primary' = primary /\ views' = views
    BY <1>8 DEF vars, callVars
  <2> QED
    BY <1>1, <1>2, <2>1, CallStill, PlanStill
<1> QED
  BY <1>3, <1>4, <1>5, <1>6, <1>7, <1>8 DEF Next

(* The inductive invariant: the state of a call of select, and of the plan *)
(* its calls are made for.                                                 *)
THEOREM PlanInvariant == Spec => [](Given /\ CallInv /\ PlanInv)
<1>1. Init => Given /\ CallInv /\ PlanInv
  BY PlanBegins
<1>2. (Given /\ CallInv /\ PlanInv) /\ [Next]_vars => (Given /\ CallInv /\ PlanInv)'
  BY PlanStepKeeps
<1> QED
  BY <1>1, <1>2, PTL DEF Spec

(* The postings a query walks are bounded by its budget and its floors,    *)
(* whatever the rows and their frequencies.                                *)
THEOREM SelectionBounded == Spec => []WorkBounded
BY PlanInvariant, WorkIsBounded, PTL

(* The greedy scan stops with cleared evidence or nothing left to afford,  *)
(* and its last gram was needed.                                           *)
THEOREM SelectionStops == Spec => []StopJustified
BY PlanInvariant, StopIsJustified, PTL

(* The Cantelli bound implies the recall gate, for evidence of any grams,  *)
(* words and reliabilities.                                                *)
THEOREM GateFollows == Spec => []GateImplied
BY PlanInvariant, GateIsImplied, PTL

-----------------------------------------------------------------------------
(* What the views owe the scripts of the query.                            *)

LEMMA ViewsAre ==
  ASSUME Given, PlanInv, step = "planned"
  PROVE  /\ primary \in SUBSET PrimaryRows
         /\ Serves(Cost, Class, params.budget, primary, PrimaryRows)
         /\ Served(views, primary, PrimaryRows, Supply(primary), Cost, Class, params.budget)
         /\ Supply(primary) \in SUBSET SecondaryRows
         /\ \A i \in DOMAIN views : views[i] \in SUBSET Grams
<1>1. /\ primary \in SUBSET PrimaryRows
      /\ Serves(Cost, Class, params.budget, primary, PrimaryRows)
      /\ Served(views, primary, PrimaryRows, Supply(primary), Cost, Class, params.budget)
  BY DEF PlanInv, Supply
<1>2. Supply(primary) \in SUBSET SecondaryRows
  BY <1>1, SupplyIs, ScriptsAre
<1>3. \A i \in DOMAIN views : views[i] \in SUBSET Grams
  BY <1>1, <1>2, ScriptsAre DEF Served
<1> QED
  BY <1>1, <1>2, <1>3

(* A view that serves rows has a gram of every script that has an          *)
(* affordable one among them.                                              *)
LEMMA ScriptIsServed ==
  ASSUME Given, NEW rows \in SUBSET Grams, NEW v,
         Serves(Cost, Class, params.budget, v, rows),
         NEW s, NEW g \in Present(Of(s, rows)), InBudget(g)
  PROVE  Present(Of(s, rows)) \cap v # {}
<1>1. g \in rows /\ g \in Grams /\ query[g].class = s /\ Cost[g] > 0 /\ Cost[g] <= params.budget
  BY OrderIs DEF Present, Of, InBudget
<1>2. PICK h \in v \cap rows : Cost[h] > 0 /\ Class[h] = Class[g]
  BY <1>1 DEF Serves
<1>3. h \in Grams /\ query[h].class = s
  BY <1>1, <1>2, ScriptsAre
<1>4. h \in Present(Of(s, rows))
  BY <1>2, <1>3, OrderIs DEF Present, Of
<1> QED
  BY <1>2, <1>4

LEMMA ScriptsAreServed ==
  Given /\ PlanInv => ScriptsServed
<1> SUFFICES ASSUME Given, PlanInv, step = "planned", NEW s \in PresentScripts
             PROVE  /\ (\E g \in Present(Of(s, PrimaryRows)) : InBudget(g))
                         => \E i \in DOMAIN views : Present(Of(s, PrimaryRows)) \cap views[i] # {}
                    /\ /\ \/ Of(s, PrimaryRows) = {}
                          \/ Cardinality(Present(Of(s, PrimaryRows))) \in 1 .. Nu - 1
                       /\ \E g \in Present(Of(s, SecondaryRows)) : InBudget(g)
                       => \E i \in DOMAIN views : Present(Of(s, SecondaryRows)) \cap views[i] # {}
  BY DEF ScriptsServed
<1> DEFINE supply == Supply(primary)
<1>1. /\ Serves(Cost, Class, params.budget, primary, PrimaryRows)
      /\ Served(views, primary, PrimaryRows, supply, Cost, Class, params.budget)
      /\ supply \in SUBSET SecondaryRows
  BY ViewsAre
<1>2. PrimaryRows \in SUBSET Grams /\ SecondaryRows \in SUBSET Grams /\ s \in Scripts
  BY ScriptsAre
<1>3. ASSUME NEW g \in Present(Of(s, PrimaryRows)), InBudget(g)
      PROVE  \E i \in DOMAIN views : Present(Of(s, PrimaryRows)) \cap views[i] # {}
  <2>1. g \in PrimaryRows /\ Cost[g] > 0
    BY <1>2, OrderIs DEF Present, Of
  <2>2. PICK i \in DOMAIN views : views[i] = primary
    BY <1>1, <2>1 DEF Served
  <2>3. Present(Of(s, PrimaryRows)) \cap primary # {}
    BY <1>1, <1>2, <1>3, ScriptIsServed
  <2> QED
    BY <2>2, <2>3
<1>4. ASSUME \/ Of(s, PrimaryRows) = {}
             \/ Cardinality(Present(Of(s, PrimaryRows))) \in 1 .. Nu - 1,
             NEW g \in Present(Of(s, SecondaryRows)), InBudget(g)
      PROVE  \E i \in DOMAIN views : Present(Of(s, SecondaryRows)) \cap views[i] # {}
  <2> DEFINE H == Hungry(NoPrimary, Mine, Energy, primary)
  <2>1. Mine[s] = Present(Of(s, PrimaryRows)) /\ Mine[s] \in SUBSET Grams
    BY <1>2, ScriptsAre
  <2>2. s \in H
    <3>1. CASE Of(s, PrimaryRows) = {}
      BY <1>2, <3>1 DEF Hungry, NoPrimary
    <3>2. CASE Cardinality(Mine[s]) \in 1 .. Nu - 1
      <4>1. Mine[s] # {}
        <5>1. Cardinality(Mine[s]) # 0
          BY <3>2, Thresholds
        <5> QED
          BY <5>1, FS_EmptySet
      <4>2. Cardinality(Mine[s]) < Nu
        BY <3>2, Thresholds
      <4> QED
        BY <1>2, <4>1, <4>2 DEF Hungry
    <3> QED
      BY <1>4, <2>1, <3>1, <3>2
  <2> HIDE DEF H
  <2>3. Of(s, supply) = Of(s, SecondaryRows)
    BY <1>2, <2>2, ScriptsAre DEF supply, Supply, RowsFor, Of, H
  <2> HIDE DEF supply
  <2>4. g \in supply /\ Cost[g] > 0 /\ g \in Present(Of(s, supply)) /\ supply \in SUBSET Grams
    BY <1>1, <1>2, <1>4, <2>3, OrderIs DEF Present, Of
  <2>5. PICK i \in DOMAIN views : Serves(Cost, Class, params.budget, views[i], supply)
    BY <1>1, <2>4 DEF Served
  <2>6. Present(Of(s, supply)) \cap views[i] # {}
    BY <1>4, <2>4, <2>5, ScriptIsServed
  <2> QED
    BY <2>3, <2>6
<1> QED
  BY <1>3, <1>4

(* The arithmetic of a share: less than half of the whole is kept.         *)
LEMMA LessThanHalf ==
  ASSUME NEW a \in Nat \ {0}, NEW b \in Nat, 2 * a <= b, NEW x \in Nat, NEW y \in Nat,
         b * x < a * (x + y)
  PROVE  y > x
<1> SUFFICES ASSUME y <= x PROVE FALSE
  OBVIOUS
<1>1. (2 * a) * x <= b * x
  OBVIOUS
<1>2. a * (x + y) <= a * (x + x)
  OBVIOUS
<1>3. a * (x + x) = (2 * a) * x
  OBVIOUS
<1>4. a * (x + y) \in Int /\ (2 * a) * x \in Int /\ b * x \in Int
  OBVIOUS
<1> QED
  BY <1>1, <1>2, <1>3, <1>4

LEMMA RichScriptsAreQuiet ==
  Given /\ PlanInv => RichScriptsQuiet
<1> SUFFICES ASSUME Given, PlanInv, step = "planned",
                    NEW i \in DOMAIN views, NEW g \in Grams, g \in views[i], IsSecondary(g)
             PROVE  LET mine == Present(Of(query[g].class, PrimaryRows))
                        left == mine \ primary
                    IN \/ Of(query[g].class, PrimaryRows) = {}
                       \/ Cardinality(mine) \in 1 .. Nu - 1
                       \/ /\ mine # {}
                          /\ EnergySum(left) > EnergySum(mine \cap primary)
  BY DEF RichScriptsQuiet
<1> DEFINE s == ScriptOf[g]
           mine == Present(Of(s, PrimaryRows))
           left == mine \ primary
           taken == mine \cap primary
<1>1. /\ primary \in SUBSET PrimaryRows
      /\ Served(views, primary, PrimaryRows, Supply(primary), Cost, Class, params.budget)
  BY ViewsAre
<1>2. g \notin primary
  BY <1>1 DEF PrimaryRows
<1>3. g \in Supply(primary)
  BY <1>1, <1>2 DEF Served
<1>4. /\ s \in Hungry(NoPrimary, Mine, Energy, primary) /\ s \in Scripts
      /\ Mine[s] = mine /\ mine \in SUBSET Grams /\ s = query[g].class
  BY <1>3, ScriptsAre DEF Supply, RowsFor, Hungry
<1> HIDE DEF s
<1>5. /\ EnergySum(left) = Total(Energy, left) /\ EnergySum(taken) = Total(Energy, taken)
      /\ left \in SUBSET Grams /\ taken \in SUBSET Grams
  BY <1>4, EnergySumIs
<1>6. \/ Of(s, PrimaryRows) = {}
      \/ /\ mine # {}
         /\ \/ Cardinality(mine) < Nu
            \/ StarvedRatio[2] * Total(Energy, taken) < StarvedRatio[1] * Total(Energy, mine)
  BY <1>4 DEF Hungry, NoPrimary
<1> HIDE DEF mine
<1>7. ASSUME mine # {}, Cardinality(mine) < Nu PROVE Cardinality(mine) \in 1 .. Nu - 1
  <2>1. IsFiniteSet(mine) /\ Cardinality(mine) \in Nat /\ Cardinality(mine) # 0
    BY <1>4, <1>7, Typed, FS_Subset, FS_CardinalityType, FS_EmptySet
  <2> QED
    BY <1>7, <2>1, Thresholds
<1>8. ASSUME StarvedRatio[2] * Total(Energy, taken) < StarvedRatio[1] * Total(Energy, mine)
      PROVE  Total(Energy, left) > Total(Energy, taken)
  <2>1. IsFiniteSet(left) /\ IsFiniteSet(taken) /\ Weights(Energy, taken \cup left)
    BY <1>5, Typed, FS_Subset DEF Weights
  <2>2. mine = taken \cup left /\ taken \cap left = {}
    OBVIOUS
  <2>3. \A x \in left : Energy[x] \in Nat
    BY <1>5, Typed
  <2>4. \A x \in taken : Energy[x] \in Nat
    BY <1>5, Typed
  <2> HIDE DEF left, taken
  <2>5. Total(Energy, taken) \in Nat /\ Total(Energy, left) \in Nat
    BY <2>1, <2>3, <2>4, TotalNat
  <2>6. Total(Energy, taken \cup left) = Total(Energy, taken) + Total(Energy, left)
    BY <2>1, <2>2, TotalUnion
  <2> DEFINE x == Total(Energy, taken)
             y == Total(Energy, left)
  <2>7. StarvedRatio[2] * x < StarvedRatio[1] * (x + y)
    BY <1>8, <2>2, <2>6
  <2> HIDE DEF x, y
  <2>8. x \in Nat /\ y \in Nat
    BY <2>5 DEF x, y
  <2>9. y > x
    BY <2>7, <2>8, Thresholds, LessThanHalf
  <2> QED
    BY <2>9 DEF x, y
<1> QED
  BY <1>4, <1>5, <1>6, <1>7, <1>8 DEF mine

(* When the views are planned, no script is left out of them that had an   *)
(* affordable gram, nor a starved one out of the shorter order.            *)
THEOREM NoScriptForgotten == Spec => []ScriptsServed
BY PlanInvariant, ScriptsAreServed, PTL

(* Only a starved script lets grams of the shorter order into a plan.      *)
THEOREM OnlyStarvedAskMore == Spec => []RichScriptsQuiet
BY PlanInvariant, RichScriptsAreQuiet, PTL

-----------------------------------------------------------------------------
(* The count credit of a view.                                             *)

(* The top energy is some gram's, and no gram has more.                    *)
LEMMA TopIs ==
  ASSUME Given, NEW v \in SUBSET Grams, Present(v) # {}
  PROVE  /\ Top(v) \in Int
         /\ \E g \in Present(v) : EnergyOf[Df(g)] = Top(v)
<1> DEFINE w == [g \in Grams |-> EnergyOf[Df(g)]]
           Q == {T \in SUBSET Grams :
                   T # {} => \E g \in T : \A h \in T : w[g] >= w[h]}
           P == Present(v)
           E == {EnergyOf[Df(g)] : g \in P}
<1>1. P \in SUBSET Grams /\ IsFiniteSet(Grams)
  BY Typed DEF Present
<1>2. \A g \in Grams : w[g] = EnergyOf[Df(g)] /\ w[g] \in Int
  <2> DEFINE Row == [class : Scripts, order : Nat, df : DOMAIN EnergyOf, word : Words]
  <2>1. \A r \in Row : r.df \in DOMAIN EnergyOf
    OBVIOUS
  <2>2. query \in Seq(Row)
    BY QueriesFit DEF Given
  <2> HIDE DEF Row
  <2>3. \A g \in Grams : query[g].df \in DOMAIN EnergyOf
    BY <2>1, <2>2 DEF Grams
  <2> QED
    BY <2>3, Measures DEF Df
<1> HIDE DEF w, P
<1>3. ASSUME NEW T \in SUBSET Grams, \A x \in T : T \ {x} \in Q
      PROVE  T \in Q
  <2> SUFFICES ASSUME T # {} PROVE \E g \in T : \A h \in T : w[g] >= w[h]
    OBVIOUS
  <2>1. PICK x \in T : TRUE
    OBVIOUS
  <2>2. CASE T = {x}
    BY <1>2, <2>2
  <2>3. CASE T # {x}
    <3>1. T \ {x} # {} /\ T \ {x} \in Q
      BY <1>3, <2>1, <2>3
    <3>2. PICK g \in T \ {x} : \A h \in T \ {x} : w[g] >= w[h]
      BY <3>1
    <3>3. w[g] \in Int /\ w[x] \in Int /\ \A h \in T : w[h] \in Int
      BY <1>2, <2>1, <3>2
    <3>4. CASE w[g] >= w[x]
      BY <2>1, <3>2, <3>4
    <3>5. CASE w[x] > w[g]
      <4>1. \A h \in T : w[x] >= w[h]
        BY <3>2, <3>3, <3>5
      <4> QED
        BY <2>1, <4>1
    <3> QED
      BY <3>3, <3>4, <3>5
  <2> QED
    BY <2>2, <2>3
<1> HIDE DEF Q
<1>4. \A T \in SUBSET Grams : T \in Q
  BY <1>1, <1>3, SubsetInduction
<1>5. PICK g \in P : \A h \in P : w[g] >= w[h]
  BY <1>1, <1>4 DEF Q, P
<1>6. EnergyOf[Df(g)] \in E /\ \A x \in E : EnergyOf[Df(g)] >= x
  BY <1>1, <1>2, <1>5
<1>7. Top(v) = Max(E)
  BY DEF Top, P
<1>8. Max(E) \in E
  <2> HIDE DEF E
  <2> QED
    BY <1>6 DEF Max
<1>9. PICK h \in P : EnergyOf[Df(h)] = Top(v)
  BY <1>7, <1>8
<1>10. Top(v) \in Int
  BY <1>1, <1>2, <1>9
<1> QED
  BY <1>9, <1>10 DEF P

LEMMA Positive ==
  ASSUME NEW e \in Int, e > 0
  PROVE  Max({0, e}) = e
BY PositivePart

LEMMA LowerOfTwo ==
  ASSUME NEW a \in Int, NEW b \in Int
  PROVE  Min({a, b}) \in {a, b} /\ Min({a, b}) <= a /\ Min({a, b}) <= b
<1> DEFINE m == Min({a, b})
<1>1. \E x \in {a, b} : \A y \in {a, b} : x <= y
  <2>1. a <= b \/ b <= a
    OBVIOUS
  <2> QED
    BY <2>1
<1>2. m \in {a, b} /\ \A y \in {a, b} : m <= y
  BY <1>1 DEF Min
<1> HIDE DEF m
<1>3. m \in {a, b} /\ m <= a /\ m <= b
  BY <1>2
<1> QED
  BY <1>3 DEF m

(* Rounding to a step moves a value by half a step at most.                *)
LEMMA RoundedIsClose ==
  ASSUME NEW d \in Nat \ {0}, NEW e \in Int
  PROVE  LET q == Max({0, (2 * e + d) \div (2 * d)})
             p == Max({0, e})
         IN q \in Nat /\ 2 * (d * q) <= 2 * p + d /\ 2 * p <= 2 * (d * q) + d
<1> DEFINE b == 2 * d
           a == 2 * e + d
           k == a \div b
           r == a % b
           q == Max({0, k})
           p == Max({0, e})
<1>1. b \in Nat /\ b > 0 /\ a \in Int
  OBVIOUS
<1>2. k \in Int /\ r \in 0 .. b - 1 /\ a = b * k + r
  <2> HIDE DEF a, b
  <2> QED
    BY <1>1
<1> HIDE DEF k, r
<1>3. b * k = 2 * (d * k)
  BY <1>2
<1>4. d * k \in Int /\ 2 * (d * k) <= 2 * e + d /\ 2 * e < 2 * (d * k) + d
  BY <1>2, <1>3
<1>5. q \in Nat /\ (k <= 0 => q = 0) /\ (k > 0 => q = k)
      /\ p \in Nat /\ (e <= 0 => p = 0) /\ (e > 0 => p = e)
  BY <1>2, PositivePart
<1> HIDE DEF q, p
<1>6. CASE k <= 0
  <2>1. d * k <= 0
    BY <1>2, <1>6
  <2>2. 2 * p <= d /\ d * q = 0
    BY <1>4, <1>5, <1>6, <2>1
  <2>3. 2 * (d * q) <= 2 * p + d /\ 2 * p <= 2 * (d * q) + d
    BY <1>5, <2>2
  <2> QED
    BY <1>5, <2>3 DEF q, p, k
<1>7. CASE k > 0
  <2>1. d * k >= d
    BY <1>2, <1>7
  <2>2. p = e /\ q = k
    BY <1>4, <1>5, <1>7, <2>1
  <2>3. 2 * (d * q) <= 2 * p + d /\ 2 * p <= 2 * (d * q) + d
    BY <1>4, <2>2
  <2> QED
    BY <1>5, <2>3 DEF q, p, k
<1> QED
  BY <1>2, <1>6, <1>7

(* And a sum of rounded values by half a step for each.                    *)
LEMMA RoundedSum ==
  ASSUME NEW S, IsFiniteSet(S), NEW d \in Nat, NEW w, NEW v,
         \A x \in S : w[x] \in Nat /\ v[x] \in Nat /\ 2 * (d * w[x]) <= 2 * v[x] + d
  PROVE  /\ Total(w, S) \in Nat
         /\ 2 * (d * Total(w, S)) <= 2 * Total(v, S) + d * Cardinality(S)
<1> DEFINE Below(T) == 2 * (d * Total(w, T)) <= 2 * Total(v, T) + d * Cardinality(T)
           Q == {T \in SUBSET S : Below(T)}
<1>1. ASSUME NEW T \in SUBSET S, \A x \in T : T \ {x} \in Q PROVE T \in Q
  <2>1. CASE T = {}
    <3>1. Total(w, T) = 0 /\ Total(v, T) = 0 /\ Cardinality(T) = 0
      BY <2>1, TotalEmpty, FS_EmptySet
    <3>2. d * 0 = 0
      OBVIOUS
    <3> QED
      BY <3>1, <3>2
  <2>2. CASE T # {}
    <3>1. PICK x : x \in T
      BY <2>2
    <3> DEFINE R == T \ {x}
    <3>2. Below(R)
      BY <1>1, <3>1
    <3>3. /\ IsFiniteSet(R) /\ x \notin R /\ T = R \cup {x}
          /\ Cardinality(T) = Cardinality(R) + 1 /\ Cardinality(R) \in Nat
      BY <3>1, FS_Subset, FS_RemoveElement, FS_CardinalityType
    <3>4. /\ Weights(w, R \cup {x}) /\ Weights(v, R \cup {x})
          /\ w[x] \in Nat /\ v[x] \in Nat /\ 2 * (d * w[x]) <= 2 * v[x] + d
      BY <3>1 DEF Weights
    <3> HIDE DEF R
    <3>5. Total(w, R) \in Int /\ Total(w, R \cup {x}) = w[x] + Total(w, R)
      BY <3>3, <3>4, TotalAdd
    <3>6. Total(v, R) \in Int /\ Total(v, R \cup {x}) = v[x] + Total(v, R)
      BY <3>3, <3>4, TotalAdd
    <3> DEFINE a == w[x]
               r == Total(w, R)
               m == Cardinality(R)
    <3>7. /\ d * (a + r) = d * a + d * r /\ d * (m + 1) = d * m + d
          /\ d * a \in Int /\ d * r \in Int /\ d * m \in Int
      <4>1. a \in Int /\ r \in Int /\ m \in Int
        BY <3>3, <3>4, <3>5
      <4> HIDE DEF a, r, m
      <4> QED
        BY <4>1
    <3>8. Total(w, T) = w[x] + Total(w, R) /\ Total(v, T) = v[x] + Total(v, R)
      BY <3>3, <3>5, <3>6
    <3>9. Below(T)
      BY <3>2, <3>3, <3>4, <3>5, <3>6, <3>7, <3>8
    <3> QED
      BY <3>9
  <2> QED
    BY <2>1, <2>2
<1> HIDE DEF Q, Below
<1>2. \A T \in SUBSET S : T \in Q
  BY <1>1, SubsetInduction
<1>3. S \in Q
  BY <1>2
<1>4. Total(w, S) \in Nat
  BY TotalNat
<1> QED
  BY <1>3, <1>4 DEF Q, Below

(* The engine's weight of a gram.                                          *)
Wq == [g \in Grams |-> Quantized(g)]

LEMMA SumQuantizedIs ==
  ASSUME Given, NEW S \in SUBSET Grams, Weights(Wq, S)
  PROVE  MapThenSumSet(Quantized, S) = Total(Wq, S)
<1> DEFINE Sum(f) == f = [T \in SUBSET S |-> IF T = {} THEN 0
                            ELSE Quantized(Choice(T)) + f[T \ {Choice(T)}]]
           f == CHOOSE f : Sum(f)
<1>1. IsFiniteSet(S)
  BY Typed, FS_Subset
<1>2. PICK g : Sums(Wq, S, g) /\ Total(Wq, S) = g[S]
  BY <1>1, TotalSums
<1>3. \A T \in SUBSET S : T # {} => Wq[Choice(T)] = Quantized(Choice(T))
  BY ChoiceIn DEF Wq
<1>4. \A h : Sums(Wq, S, h) <=> Sum(h)
  BY <1>3 DEF Sums
<1>5. Sum(f)
  <2> HIDE DEF Sum
  <2> QED
    BY <1>2, <1>4
<1>6. MapThenSumSet(Quantized, S) = f[S]
  BY DEF MapThenSumSet, MapThenFoldSet, Choice
<1>7. f[S] = g[S]
  <2> HIDE DEF f, Sum
  <2> QED
    BY <1>1, <1>2, <1>4, <1>5, SumsAgree
<1> QED
  BY <1>2, <1>6, <1>7

LEMMA QuantizedIsClose ==
  ASSUME Given, NEW g \in Grams
  PROVE  /\ Wq[g] \in Nat /\ Energy[g] \in Nat
         /\ 2 * (Delta * Wq[g]) <= 2 * Energy[g] + Delta
         /\ 2 * Energy[g] <= 2 * (Delta * Wq[g]) + Delta
<1> DEFINE e == EnergyOf[Df(g)]
<1>1. e \in Int
  <2> DEFINE Row == [class : Scripts, order : Nat, df : DOMAIN EnergyOf, word : Words]
  <2>1. \A r \in Row : r.df \in DOMAIN EnergyOf
    OBVIOUS
  <2>2. query \in Seq(Row)
    BY QueriesFit DEF Given
  <2> HIDE DEF Row
  <2>3. query[g].df \in DOMAIN EnergyOf
    BY <2>1, <2>2 DEF Grams
  <2> QED
    BY <2>3, Measures DEF Df
<1>2. Wq[g] = Max({0, (2 * e + Delta) \div (2 * Delta)})
  BY DEF Wq, Quantized
<1>3. Energy[g] = Max({0, e})
  BY OrderIs DEF Evidence
<1>4. Energy[g] \in Nat /\ Delta \in Nat \ {0}
  BY Typed, Thresholds
<1> HIDE DEF e
<1> QED
  BY <1>1, <1>2, <1>3, <1>4, RoundedIsClose

(* n commons of energies e below a dominant gram t, a credit of c that the *)
(* cap leaves each, and energies rounded to q and p steps of s.            *)
LEMMA CreditArithmetic ==
  ASSUME NEW n \in Nat, n >= 2, NEW e \in Nat, NEW c \in Nat, NEW t \in Nat, c <= t - e,
         NEW k \in Nat, k <= n, NEW s \in Nat, NEW q \in Nat, NEW p \in Nat,
         2 * (s * q) <= 2 * e + s * n, 2 * t <= 2 * (s * p) + s
  PROVE  2 * ((n - 1) * s * q + c * k) <= 2 * ((n - 1) * s * p + c) + (n - 1) * s * (n + 1)
<1> DEFINE d == n - 1
<1>1. d \in Nat /\ d >= 1 /\ n = d + 1
  OBVIOUS
<1>2. c * k <= c * n
  OBVIOUS
<1> HIDE DEF d
<1>3. c * n = d * c + c
  BY <1>1
<1>4. d * (e + c) <= d * t
  BY <1>1
<1>5. d * (e + c) = d * e + d * c
  BY <1>1
<1>6. d * e \in Int /\ d * c \in Int /\ d * t \in Int /\ c * k \in Int /\ c * n \in Int
      /\ s * q \in Int /\ s * p \in Int /\ s * n \in Int
  BY <1>1
<1>7. d * e + c * k <= d * t + c
  BY <1>2, <1>3, <1>4, <1>5, <1>6
<1> DEFINE sq == s * q
           sp == s * p
           sn == s * n
<1>8. d * (2 * sq) <= d * (2 * e + sn)
  BY <1>1, <1>6
<1>9. d * (2 * t) <= d * (2 * sp + s)
  BY <1>1, <1>6
<1>10. d * (2 * sq) = 2 * (d * sq) /\ d * (2 * e + sn) = 2 * (d * e) + d * sn
       /\ d * (2 * t) = 2 * (d * t) /\ d * (2 * sp + s) = 2 * (d * sp) + d * s
  BY <1>1, <1>6
<1>11. d * s * q = d * sq /\ d * s * p = d * sp /\ d * s * (n + 1) = d * sn + d * s
       /\ d * s \in Int
  BY <1>1
<1>12. d * sq \in Int /\ d * sp \in Int /\ d * sn \in Int
  BY <1>1, <1>6
<1> HIDE DEF sq, sp, sn
<1>13. 2 * (d * sq + c * k) <= 2 * (d * sp + c) + (d * sn + d * s)
  BY <1>6, <1>7, <1>8, <1>9, <1>10, <1>11, <1>12
<1>14. 2 * (d * s * q + c * k) <= 2 * (d * s * p + c) + d * s * (n + 1)
  BY <1>11, <1>13
<1> QED
  BY <1>14 DEF d

(* What CommonsNeverOutweigh says of a view and its dominant gram.         *)
CapHolds(v, top) ==
  2 * Score(v, Commons(v))
    <= 2 * (Score(v, {top}) + (IF Floored(top) THEN CappedCredit(v).num ELSE 0))
         + CappedCredit(v).den * Delta * (Cardinality(Commons(v)) + 1)

LEMMA CommonsAreCapped ==
  ASSUME Given, NEW v \in SUBSET Grams, Present(v) # {}, Cardinality(Commons(v)) >= 2,
         Top(v) > 0, EnergySum(Commons(v)) <= Top(v),
         NEW top \in Present(v), EnergyOf[Df(top)] = Top(v)
  PROVE  CapHolds(v, top)
<1> DEFINE C == Commons(v)
           n == Cardinality(C)
           e == EnergySum(C)
           t == Top(v)
           c == CappedCredit(v).num
           k == Cardinality({g \in C : ~Floored(g)})
           j == Cardinality({g \in {top} : ~Floored(g)})
           q == Total(Wq, C)
           p == Wq[top]
<1>1. C \in SUBSET Grams /\ {top} \in SUBSET Grams /\ t \in Int
  BY TopIs DEF Commons, Present
<1>2. IsFiniteSet(C) /\ n \in Nat
  BY <1>1, Typed, FS_Subset, FS_CardinalityType
<1>3. k \in Nat /\ k <= n
  <2> HIDE DEF C
  <2>1. {g \in C : ~Floored(g)} \in SUBSET C
    OBVIOUS
  <2> QED
    BY <1>2, <2>1, FS_Subset, FS_CardinalityType
<1>4. e \in Nat
  <2> HIDE DEF C
  <2>1. \A g \in C : Energy[g] \in Nat
    BY <1>1, Typed
  <2>2. Total(Energy, C) \in Nat
    BY <1>2, <2>1, TotalNat
  <2> QED
    BY <1>1, <2>2, EnergySumIs
<1>5. /\ q \in Nat /\ MapThenSumSet(Quantized, C) = q
      /\ 2 * (Delta * q) <= 2 * e + Delta * n
  <2>1. e = Total(Energy, C)
    BY <1>1, EnergySumIs
  <2> HIDE DEF C
  <2>2. /\ \A g \in C : Wq[g] \in Nat /\ Energy[g] \in Nat
        /\ \A g \in C : 2 * (Delta * Wq[g]) <= 2 * Energy[g] + Delta
    BY <1>1, QuantizedIsClose
  <2>3. Total(Wq, C) \in Nat /\ 2 * (Delta * Total(Wq, C)) <= 2 * Total(Energy, C) + Delta * Cardinality(C)
    BY <1>2, <2>2, Thresholds, RoundedSum
  <2>4. Weights(Wq, C)
    BY <2>2 DEF Weights
  <2>5. MapThenSumSet(Quantized, C) = Total(Wq, C)
    BY <1>1, <2>4, SumQuantizedIs
  <2> QED
    BY <2>1, <2>3, <2>5
<1>6. /\ p \in Nat /\ MapThenSumSet(Quantized, {top}) = p
       /\ 2 * t <= 2 * (Delta * p) + Delta
  <2>1. Energy[top] = t
    BY <1>1, OrderIs, Positive DEF Evidence
  <2>2. Wq[top] \in Nat /\ 2 * Energy[top] <= 2 * (Delta * Wq[top]) + Delta
    BY <1>1, QuantizedIsClose
  <2>3. Total(Wq, {}) = 0 /\ Total(Wq, {} \cup {top}) = Wq[top] + Total(Wq, {})
    <3>1. IsFiniteSet({}) /\ top \notin {} /\ Weights(Wq, {} \cup {top})
      BY <1>1, <2>2, FS_EmptySet DEF Weights
    <3> QED
      BY <3>1, TotalEmpty, TotalAdd
  <2>4. {} \cup {top} = {top} /\ Weights(Wq, {top})
    BY <2>2 DEF Weights
  <2>5. Total(Wq, {top}) = Wq[top]
    BY <2>2, <2>3, <2>4
  <2>6. MapThenSumSet(Quantized, {top}) = Total(Wq, {top})
    BY <1>1, <2>4, SumQuantizedIs
  <2> QED
    BY <2>1, <2>2, <2>5, <2>6
<1>7. j = IF Floored(top) THEN 0 ELSE 1
  <2>1. {g \in {top} : ~Floored(g)} = IF Floored(top) THEN {} ELSE {top}
    OBVIOUS
  <2> QED
    BY <2>1, FS_EmptySet, FS_Singleton
<1>8. CappedCredit(v) = [num |-> Min({Mu * (n - 1), Max({0, t - e})}), den |-> n - 1]
  BY <1>1, <1>2 DEF CappedCredit
<1>9. c \in Nat /\ c <= t - e
  <2> HIDE DEF C, e, n, t
  <2>1. t - e \in Nat
    BY <1>1, <1>4 DEF e, t, C
  <2>2. Max({0, t - e}) = t - e
    BY <2>1, PositivePart
  <2>3. Mu * (n - 1) \in Nat
    BY <1>2, Thresholds DEF n, C
  <2> DEFINE a == Mu * (n - 1)
             b == t - e
  <2>4. c = Min({a, b})
    BY <1>8, <2>2
  <2>5. a \in Nat /\ b \in Nat
    BY <2>1, <2>3
  <2> HIDE DEF a, b, c
  <2>6. Min({a, b}) \in {a, b} /\ Min({a, b}) <= b
    BY <2>5, LowerOfTwo
  <2>7. c \in Nat /\ c <= b
    BY <2>4, <2>5, <2>6
  <2> QED
    BY <2>7 DEF b
<1>10. /\ Score(v, C) = (n - 1) * Delta * q + c * k
      /\ Score(v, {top}) = (n - 1) * Delta * p + c * j
      /\ CappedCredit(v).den = n - 1
  BY <1>5, <1>6, <1>8 DEF Score, Credit
<1> HIDE DEF C, n, e, t, c, k, j, q, p
<1>11. n >= 2 /\ t \in Nat /\ Delta \in Nat
  BY <1>1, Thresholds DEF n, C, t
<1>12. 2 * ((n - 1) * Delta * q + c * k)
         <= 2 * ((n - 1) * Delta * p + c) + (n - 1) * Delta * (n + 1)
  BY <1>2, <1>3, <1>4, <1>5, <1>6, <1>9, <1>11, CreditArithmetic
<1>13. Score(v, {top}) + (IF Floored(top) THEN c ELSE 0) = (n - 1) * Delta * p + c
  <2>1. (n - 1) * Delta * p \in Int
    BY <1>2, <1>11, <1>6
  <2>2. CASE Floored(top)
    BY <1>7, <1>9, <1>10, <2>1, <2>2
  <2>3. CASE ~Floored(top)
    BY <1>7, <1>9, <1>10, <2>1, <2>3
  <2> QED
    BY <2>2, <2>3
<1> QED
  BY <1>10, <1>12, <1>13 DEF CapHolds, C, c, n

LEMMA CommonsStayBelow ==
  Given /\ PlanInv => CommonsNeverOutweigh
<1> SUFFICES ASSUME Given, PlanInv, step = "planned", NEW i \in DOMAIN views
             PROVE  LET v == views[i]
                        top == CHOOSE g \in Present(v) : EnergyOf[Df(g)] = Top(v)
                    IN Present(v) # {} /\ Cardinality(Commons(v)) >= 2 /\ Top(v) > 0
                       /\ EnergySum(Commons(v)) <= Top(v)
                       => CapHolds(v, top)
  BY DEF CommonsNeverOutweigh, CapHolds
<1> DEFINE v == views[i]
           top == CHOOSE g \in Present(v) : EnergyOf[Df(g)] = Top(v)
<1>1. v \in SUBSET Grams
  BY ViewsAre
<1> HIDE DEF v
<1>2. ASSUME Present(v) # {}
      PROVE  top \in Present(v) /\ EnergyOf[Df(top)] = Top(v)
  BY <1>1, <1>2, TopIs
<1> HIDE DEF top
<1>3. ASSUME Present(v) # {}, Cardinality(Commons(v)) >= 2, Top(v) > 0,
             EnergySum(Commons(v)) <= Top(v)
      PROVE  CapHolds(v, top)
  BY <1>1, <1>2, <1>3, CommonsAreCapped
<1> QED
  BY <1>3 DEF v, top

(* The cap on the count credit keeps a document with a view's commons      *)
(* below one with its dominant gram, but for half a step of rounding a     *)
(* gram and the credit a floored dominant gram does not earn.              *)
THEOREM CommonsCapped == Spec => []CommonsNeverOutweigh
BY PlanInvariant, CommonsStayBelow, PTL

=============================================================================
