----------------------------- MODULE SetProofs -----------------------------
(***************************************************************************)
(* Induction over the subsets of a finite set, what folding + over one     *)
(* computes, and its elements in a strict order.  The induction theorems   *)
(* of the library take an operator; here the induction hypothesis is a     *)
(* set, so that its instances are plain first-order facts.                 *)
(***************************************************************************)
EXTENDS Integers, FiniteSets, Folds, FiniteSetTheorems, WellFoundedInduction, TLAPS

LEMMA LeastElement ==
  ASSUME NEW T, T \subseteq Nat, T # {}
  PROVE  \E m \in T : \A k \in T : m <= k
<1> DEFINE R == OpToRel(<, Nat)
<1>1. IsWellFoundedOn(R, Nat)
  BY NatLessThanWellFounded
<1>2. \A x, y \in Nat : <<x, y>> \in R <=> x < y
  BY DEF OpToRel
<1> HIDE DEF R
<1>3. PICK m \in T : \A k \in T : ~ (<<k, m>> \in R)
  BY <1>1, WFMin
<1>4. \A k \in T : k \in Nat /\ m \in Nat /\ ~ (k < m)
  BY <1>2, <1>3
<1> QED
  BY <1>4

LEMMA NatSet ==
  ASSUME NEW T, 0 \in T, \A n \in Nat : n \in T => n + 1 \in T
  PROVE  \A n \in Nat : n \in T
<1> SUFFICES ASSUME NEW n \in Nat, n \notin T PROVE FALSE
  OBVIOUS
<1> DEFINE M == Nat \ T
<1>1. PICK m \in M : \A k \in M : m <= k
  BY LeastElement
<1>2. m # 0 /\ m - 1 \in Nat
  OBVIOUS
<1>3. m - 1 \in T
  BY <1>1, <1>2
<1> QED
  BY <1>2, <1>3

(* A family that holds a set whenever it holds all that lack one element   *)
(* of it, holds every subset of a finite set.                              *)
LEMMA SubsetInduction ==
  ASSUME NEW U, IsFiniteSet(U), NEW Q,
         \A T \in SUBSET U : (\A x \in T : T \ {x} \in Q) => T \in Q
  PROVE  \A T \in SUBSET U : T \in Q
<1> DEFINE N == {n \in Nat : \A T \in SUBSET U : Cardinality(T) = n => T \in Q}
<1>1. \A T \in SUBSET U : IsFiniteSet(T) /\ Cardinality(T) \in Nat
  BY FS_Subset, FS_CardinalityType
<1>2. 0 \in N
  BY <1>1, FS_EmptySet
<1>3. ASSUME NEW n \in Nat, n \in N PROVE n + 1 \in N
  <2> SUFFICES ASSUME NEW T \in SUBSET U, Cardinality(T) = n + 1 PROVE T \in Q
    OBVIOUS
  <2>1. ASSUME NEW x \in T PROVE T \ {x} \in Q
    <3>1. Cardinality(T \ {x}) = n
      BY <1>1, FS_RemoveElement
    <3> QED
      BY <1>3, <3>1
  <2> QED
    BY <2>1
<1>4. \A n \in Nat : n \in N
  <2> HIDE DEF N
  <2> QED
    BY <1>2, <1>3, NatSet
<1> QED
  BY <1>1, <1>4

-----------------------------------------------------------------------------
(* The fold of + over w, as the recursive function that defines it.        *)

Choice(T) == CHOOSE x \in T : TRUE

Sums(w, U, f) ==
  f = [T \in SUBSET U |-> IF T = {} THEN 0 ELSE w[Choice(T)] + f[T \ {Choice(T)}]]

Weights(w, U) == \A x \in U : w[x] \in Int

(* Total(w, S) is the sum of the w[x] with x in S.                         *)
Total(w, S) ==
  MapThenFoldSet(LAMBDA x, y : x + y, 0, LAMBDA s : w[s],
                 LAMBDA T : CHOOSE x \in T : TRUE, S)

LEMMA ChoiceIn == \A T : T # {} => Choice(T) \in T
BY DEF Choice

LEMMA SumsAt ==
  ASSUME NEW w, NEW U, NEW f, Sums(w, U, f)
  PROVE  /\ f[{}] = 0
         /\ \A T \in SUBSET U :
              T # {} => f[T] = w[Choice(T)] + f[T \ {Choice(T)}]
BY DEF Sums

(* The recursion has a solution, built up by size.                         *)
LEMMA SumsExist ==
  ASSUME NEW w, NEW U, IsFiniteSet(U), Weights(w, U)
  PROVE  \E f : Sums(w, U, f)
<1> DEFINE Upto(n, f) ==
             \A T \in SUBSET U : Cardinality(T) <= n =>
               f[T] = IF T = {} THEN 0 ELSE w[Choice(T)] + f[T \ {Choice(T)}]
           F == [SUBSET U -> Int]
           N == {n \in Nat : \E f \in F : Upto(n, f)}
<1>1. \A T \in SUBSET U : IsFiniteSet(T) /\ Cardinality(T) \in Nat
  BY FS_Subset, FS_CardinalityType
<1>2. \A T \in SUBSET U : T # {} => /\ Choice(T) \in T /\ w[Choice(T)] \in Int
                                    /\ T \ {Choice(T)} \in SUBSET U
                                    /\ Cardinality(T \ {Choice(T)}) = Cardinality(T) - 1
  BY <1>1, ChoiceIn, FS_RemoveElement DEF Weights
<1>3. 0 \in N
  <2>1. [T \in SUBSET U |-> 0] \in F
    OBVIOUS
  <2>2. \A T \in SUBSET U : Cardinality(T) <= 0 => T = {}
    BY <1>1, FS_EmptySet
  <2>3. Upto(0, [T \in SUBSET U |-> 0])
    BY <2>2
  <2> QED
    BY <2>1, <2>3
<1>4. ASSUME NEW n \in Nat, n \in N PROVE n + 1 \in N
  <2>1. PICK f \in F : Upto(n, f)
    BY <1>4
  <2> DEFINE g == [T \in SUBSET U |-> IF T = {} THEN 0
                                      ELSE w[Choice(T)] + f[T \ {Choice(T)}]]
  <2>2. g \in F
    BY <1>2
  <2>3. \A T \in SUBSET U : Cardinality(T) <= n => g[T] = f[T]
    BY <2>1
  <2>4. Upto(n + 1, g)
    <3> SUFFICES ASSUME NEW T \in SUBSET U, Cardinality(T) <= n + 1
                 PROVE  g[T] = IF T = {} THEN 0 ELSE w[Choice(T)] + g[T \ {Choice(T)}]
      OBVIOUS
    <3>1. CASE T = {}
      BY <3>1
    <3>2. CASE T # {}
      <4>1. Cardinality(T \ {Choice(T)}) <= n
        BY <1>1, <1>2, <3>2
      <4>2. g[T \ {Choice(T)}] = f[T \ {Choice(T)}]
        BY <1>2, <2>3, <3>2, <4>1
      <4> QED
        BY <3>2, <4>2
    <3> QED
      BY <3>1, <3>2
  <2> HIDE DEF g, Upto
  <2>5. \E h \in F : Upto(n + 1, h)
    BY <2>2, <2>4
  <2> QED
    BY <2>5
<1>5. Cardinality(U) \in N
  <2> HIDE DEF N
  <2> QED
    BY <1>1, <1>3, <1>4, NatSet
<1>6. PICK f \in F : Upto(Cardinality(U), f)
  BY <1>5
<1>7. \A T \in SUBSET U : Cardinality(T) <= Cardinality(U)
  BY FS_Subset
<1>8. f = [T \in SUBSET U |-> f[T]]
  OBVIOUS
<1> QED
  BY <1>6, <1>7, <1>8 DEF Sums

LEMMA SumsType ==
  ASSUME NEW w, NEW U, IsFiniteSet(U), Weights(w, U), NEW f, Sums(w, U, f)
  PROVE  \A T \in SUBSET U : f[T] \in Int
<1> DEFINE Q == {T \in SUBSET U : f[T] \in Int}
<1>1. ASSUME NEW T \in SUBSET U, \A x \in T : T \ {x} \in Q PROVE T \in Q
  <2>1. CASE T = {}
    BY <2>1, SumsAt
  <2>2. CASE T # {}
    <3>1. Choice(T) \in T /\ w[Choice(T)] \in Int
      BY <2>2, ChoiceIn DEF Weights
    <3>2. f[T \ {Choice(T)}] \in Int
      BY <1>1, <3>1
    <3>3. f[T] = w[Choice(T)] + f[T \ {Choice(T)}]
      BY <2>2, SumsAt
    <3> QED
      BY <3>1, <3>2, <3>3
  <2> QED
    BY <2>1, <2>2
<1> HIDE DEF Q
<1>2. \A T \in SUBSET U : T \in Q
  BY <1>1, SubsetInduction
<1> QED
  BY <1>2 DEF Q

(* Any element may be taken out first.                                     *)
LEMMA SumsTake ==
  ASSUME NEW w, NEW U, IsFiniteSet(U), Weights(w, U), NEW f, Sums(w, U, f)
  PROVE  \A T \in SUBSET U : \A x \in T : f[T] = w[x] + f[T \ {x}]
<1> DEFINE Q == {T \in SUBSET U : \A x \in T : f[T] = w[x] + f[T \ {x}]}
<1>1. ASSUME NEW T \in SUBSET U, \A x \in T : T \ {x} \in Q PROVE T \in Q
  <2> SUFFICES ASSUME NEW x \in T PROVE f[T] = w[x] + f[T \ {x}]
    OBVIOUS
  <2> DEFINE c == Choice(T)
             R == (T \ {c}) \ {x}
  <2>1. c \in T /\ f[T] = w[c] + f[T \ {c}]
    BY SumsAt, ChoiceIn
  <2>2. CASE x = c
    BY <2>1, <2>2
  <2>3. CASE x # c
    <3>1. T \ {c} \in Q /\ T \ {x} \in Q /\ x \in T \ {c} /\ c \in T \ {x}
      BY <1>1, <2>1, <2>3
    <3>2. R = (T \ {x}) \ {c} /\ R \in SUBSET U
      OBVIOUS
    <3>3. f[T \ {c}] = w[x] + f[R] /\ f[T \ {x}] = w[c] + f[R]
      BY <3>1, <3>2
    <3>4. w[x] \in Int /\ w[c] \in Int /\ f[R] \in Int
      BY <2>1, <3>2, SumsType DEF Weights
    <3> HIDE DEF c, R
    <3> QED
      BY <2>1, <3>3, <3>4
  <2> QED
    BY <2>2, <2>3
<1> HIDE DEF Q
<1>2. \A T \in SUBSET U : T \in Q
  BY <1>1, SubsetInduction
<1> QED
  BY <1>2 DEF Q

(* Weights that agree on a set have the same sum over it.                  *)
LEMMA SumsAgree ==
  ASSUME NEW w, NEW U, NEW f, Sums(w, U, f), NEW v, NEW V, NEW g, Sums(v, V, g),
         NEW S, IsFiniteSet(S), S \subseteq U, S \subseteq V, \A x \in S : w[x] = v[x]
  PROVE  f[S] = g[S]
<1> DEFINE Q == {T \in SUBSET S : f[T] = g[T]}
<1>1. ASSUME NEW T \in SUBSET S, \A x \in T : T \ {x} \in Q PROVE T \in Q
  <2>1. CASE T = {}
    BY <2>1, SumsAt
  <2>2. CASE T # {}
    <3>1. Choice(T) \in T /\ T \in SUBSET U /\ T \in SUBSET V
      BY <2>2, ChoiceIn
    <3>2. /\ f[T] = w[Choice(T)] + f[T \ {Choice(T)}]
          /\ g[T] = v[Choice(T)] + g[T \ {Choice(T)}]
      BY <2>2, <3>1, SumsAt
    <3> QED
      BY <1>1, <3>1, <3>2
  <2> QED
    BY <2>1, <2>2
<1> HIDE DEF Q
<1>2. \A T \in SUBSET S : T \in Q
  BY <1>1, SubsetInduction
<1> QED
  BY <1>2 DEF Q

-----------------------------------------------------------------------------
(* The laws of Total.                                                      *)

LEMMA TotalSums ==
  ASSUME NEW w, NEW S, IsFiniteSet(S), Weights(w, S)
  PROVE  \E f : Sums(w, S, f) /\ Total(w, S) = f[S]
<1> DEFINE f == CHOOSE f : Sums(w, S, f)
<1>1. Sums(w, S, f)
  BY SumsExist
<1>2. Total(w, S) = f[S]
  BY DEF Total, MapThenFoldSet, Sums, Choice
<1> QED
  BY <1>1, <1>2

LEMMA TotalAgree ==
  ASSUME NEW w, NEW v, NEW S, IsFiniteSet(S), Weights(w, S), \A x \in S : w[x] = v[x]
  PROVE  Total(w, S) = Total(v, S)
<1>1. PICK f : Sums(w, S, f) /\ Total(w, S) = f[S]
  BY TotalSums
<1>2. Weights(v, S)
  BY DEF Weights
<1>3. PICK g : Sums(v, S, g) /\ Total(v, S) = g[S]
  BY <1>2, TotalSums
<1>4. f[S] = g[S]
  BY <1>1, <1>3, SumsAgree
<1> QED
  BY <1>1, <1>3, <1>4

LEMMA TotalEmpty ==
  ASSUME NEW w
  PROVE  Total(w, {}) = 0
<1>1. PICK f : Sums(w, {}, f) /\ Total(w, {}) = f[{}]
  BY FS_EmptySet, TotalSums DEF Weights
<1> QED
  BY <1>1, SumsAt

LEMMA TotalAdd ==
  ASSUME NEW w, NEW S, IsFiniteSet(S), NEW x, x \notin S, Weights(w, S \cup {x})
  PROVE  /\ Total(w, S) \in Int
         /\ Total(w, S \cup {x}) = w[x] + Total(w, S)
<1> DEFINE U == S \cup {x}
<1>1. IsFiniteSet(U)
  BY FS_AddElement
<1>2. Weights(w, S)
  BY DEF Weights
<1> HIDE DEF U
<1>3. S \subseteq U /\ x \in U /\ U \ {x} = S /\ Weights(w, U)
  BY DEF U
<1>4. PICK f : Sums(w, U, f) /\ Total(w, U) = f[U]
  BY <1>1, <1>3, TotalSums
<1>5. PICK g : Sums(w, S, g) /\ Total(w, S) = g[S]
  BY <1>2, TotalSums
<1>6. f[S] = g[S]
  BY <1>3, <1>4, <1>5, SumsAgree
<1>7. f[U] = w[x] + f[S]
  BY <1>1, <1>3, <1>4, SumsTake
<1>8. f[S] \in Int
  BY <1>1, <1>3, <1>4, SumsType
<1> QED
  BY <1>4, <1>5, <1>6, <1>7, <1>8 DEF U

LEMMA TotalType ==
  ASSUME NEW w, NEW S, IsFiniteSet(S), Weights(w, S)
  PROVE  Total(w, S) \in Int
<1>1. PICK f : Sums(w, S, f) /\ Total(w, S) = f[S]
  BY TotalSums
<1> QED
  BY <1>1, SumsType

LEMMA TotalUnion ==
  ASSUME NEW w, NEW A, IsFiniteSet(A), NEW B, IsFiniteSet(B), A \cap B = {},
         Weights(w, A \cup B)
  PROVE  Total(w, A \cup B) = Total(w, A) + Total(w, B)
<1> DEFINE Q == {T \in SUBSET B : Total(w, A \cup T) = Total(w, A) + Total(w, T)}
<1>1. ASSUME NEW T \in SUBSET B, \A x \in T : T \ {x} \in Q PROVE T \in Q
  <2>1. CASE T = {}
    <3>1. A \cup T = A
      BY <2>1
    <3>2. Total(w, A) \in Int
      BY TotalType DEF Weights
    <3> QED
      BY <2>1, <3>1, <3>2, TotalEmpty
  <2>2. CASE T # {}
    <3>1. PICK x : x \in T
      BY <2>2
    <3> DEFINE R == T \ {x}
    <3>2. /\ IsFiniteSet(R) /\ IsFiniteSet(A \cup R)
          /\ T = R \cup {x} /\ A \cup T = (A \cup R) \cup {x}
          /\ x \notin R /\ x \notin A \cup R
      BY <3>1, FS_Subset, FS_Union
    <3>3. /\ Weights(w, R \cup {x}) /\ Weights(w, (A \cup R) \cup {x})
          /\ Weights(w, A) /\ w[x] \in Int
      BY <3>1 DEF Weights
    <3>4. R \in Q
      BY <1>1, <3>1
    <3>5. Total(w, A \cup R) = Total(w, A) + Total(w, R)
      BY <3>4
    <3> HIDE DEF R
    <3>6. /\ Total(w, R) \in Int
          /\ Total(w, R \cup {x}) = w[x] + Total(w, R)
      BY <3>2, <3>3, TotalAdd
    <3>7. Total(w, (A \cup R) \cup {x}) = w[x] + Total(w, A \cup R)
      BY <3>2, <3>3, TotalAdd
    <3>8. Total(w, A) \in Int
      BY <3>3, TotalType
    <3>9. Total(w, T) = w[x] + Total(w, R)
      BY <3>2, <3>6
    <3>10. Total(w, A \cup T) = w[x] + Total(w, A \cup R)
      BY <3>2, <3>7
    <3>11. Total(w, A \cup T) = Total(w, A) + Total(w, T)
      BY <3>3, <3>5, <3>6, <3>8, <3>9, <3>10
    <3> QED
      BY <3>11
  <2> QED
    BY <2>1, <2>2
<1> HIDE DEF Q
<1>2. \A T \in SUBSET B : T \in Q
  BY <1>1, SubsetInduction
<1>3. B \in Q
  BY <1>2
<1> QED
  BY <1>3 DEF Q

LEMMA TotalNat ==
  ASSUME NEW S, IsFiniteSet(S), NEW w, \A x \in S : w[x] \in Nat
  PROVE  Total(w, S) \in Nat
<1> DEFINE Q == {T \in SUBSET S : Total(w, T) \in Nat}
<1>1. ASSUME NEW T \in SUBSET S, \A x \in T : T \ {x} \in Q PROVE T \in Q
  <2>1. CASE T = {}
    BY <2>1, TotalEmpty
  <2>2. CASE T # {}
    <3>1. PICK x : x \in T
      BY <2>2
    <3> DEFINE R == T \ {x}
    <3>2. R \in Q
      BY <1>1, <3>1
    <3>3. IsFiniteSet(R) /\ x \notin R /\ T = R \cup {x}
      BY <3>1, FS_Subset
    <3>4. Weights(w, R \cup {x}) /\ w[x] \in Nat
      BY <3>1 DEF Weights
    <3>5. Total(w, R) \in Nat
      BY <3>2
    <3> HIDE DEF R
    <3>6. Total(w, R \cup {x}) = w[x] + Total(w, R)
      BY <3>3, <3>4, TotalAdd
    <3>7. Total(w, T) \in Nat
      BY <3>3, <3>4, <3>5, <3>6
    <3> QED
      BY <3>7
  <2> QED
    BY <2>1, <2>2
<1> HIDE DEF Q
<1>2. \A T \in SUBSET S : T \in Q
  BY <1>1, SubsetInduction
<1> QED
  BY <1>2 DEF Q

LEMMA TotalGrows ==
  ASSUME NEW S, IsFiniteSet(S), NEW w, \A x \in S : w[x] \in Nat, NEW A \in SUBSET S
  PROVE  Total(w, A) \in Nat /\ Total(w, A) <= Total(w, S)
<1> DEFINE B == S \ A
<1>1. IsFiniteSet(A) /\ IsFiniteSet(B) /\ A \cap B = {} /\ A \cup B = S
  BY FS_Subset
<1>2. Weights(w, A \cup B) /\ (\A x \in A : w[x] \in Nat) /\ (\A x \in B : w[x] \in Nat)
  BY DEF Weights
<1> HIDE DEF B
<1>3. Total(w, A) \in Nat /\ Total(w, B) \in Nat
  BY <1>1, <1>2, TotalNat
<1>4. Total(w, A \cup B) = Total(w, A) + Total(w, B)
  BY <1>1, <1>2, TotalUnion
<1>5. Total(w, S) = Total(w, A) + Total(w, B)
  BY <1>1, <1>4
<1> QED
  BY <1>3, <1>5

(* A sum of weights that are at least 1, or all 1, against the number of   *)
(* its terms.                                                              *)
LEMMA TotalCounts ==
  ASSUME NEW S, IsFiniteSet(S), NEW w, \A x \in S : w[x] \in Nat \ {0}
  PROVE  /\ Cardinality(S) <= Total(w, S)
         /\ (\A x \in S : w[x] = 1) => Total(w, S) = Cardinality(S)
<1> DEFINE Q == {T \in SUBSET S : /\ Cardinality(T) <= Total(w, T)
                                  /\ (\A x \in S : w[x] = 1) => Total(w, T) = Cardinality(T)}
<1>1. ASSUME NEW T \in SUBSET S, \A x \in T : T \ {x} \in Q PROVE T \in Q
  <2>1. CASE T = {}
    <3>1. Total(w, T) = 0 /\ Cardinality(T) = 0
      BY <2>1, TotalEmpty, FS_EmptySet
    <3> QED
      BY <3>1
  <2>2. CASE T # {}
    <3>1. PICK x : x \in T
      BY <2>2
    <3> DEFINE R == T \ {x}
    <3>2. R \in Q
      BY <1>1, <3>1
    <3>3. /\ IsFiniteSet(R) /\ x \notin R /\ T = R \cup {x}
          /\ Cardinality(R) = Cardinality(T) - 1
          /\ Cardinality(T) \in Nat /\ Cardinality(R) \in Nat
      BY <3>1, FS_Subset, FS_RemoveElement, FS_CardinalityType
    <3>4. Weights(w, R \cup {x}) /\ w[x] \in Nat \ {0}
      BY <3>1 DEF Weights
    <3>5. /\ Cardinality(R) <= Total(w, R)
          /\ (\A y \in S : w[y] = 1) => Total(w, R) = Cardinality(R)
      BY <3>2
    <3> HIDE DEF R
    <3>6. Total(w, R) \in Int /\ Total(w, R \cup {x}) = w[x] + Total(w, R)
      BY <3>3, <3>4, TotalAdd
    <3>7. Cardinality(T) <= Total(w, T)
      BY <3>3, <3>4, <3>5, <3>6
    <3>8. ASSUME \A y \in S : w[y] = 1 PROVE Total(w, T) = Cardinality(T)
      <4>1. w[x] = 1
        BY <3>1, <3>8
      <4> QED
        BY <3>3, <3>5, <3>6, <3>8, <4>1
    <3> QED
      BY <3>7, <3>8
  <2> QED
    BY <2>1, <2>2
<1> HIDE DEF Q
<1>2. \A T \in SUBSET S : T \in Q
  BY <1>1, SubsetInduction
<1> QED
  BY <1>2 DEF Q

-----------------------------------------------------------------------------
(* Counting up, and what a recursion over 0..n defines.                    *)

LEMMA CountingUp ==
  ASSUME NEW n \in Nat, NEW T, 0 \in T, \A k \in 1 .. n : k - 1 \in T => k \in T
  PROVE  \A k \in 0 .. n : k \in T
<1> DEFINE N == {k \in Nat : k <= n => k \in T}
<1>1. 0 \in N
  OBVIOUS
<1>2. \A k \in Nat : k \in N => k + 1 \in N
  <2> SUFFICES ASSUME NEW k \in Nat, k \in N, k + 1 <= n PROVE k + 1 \in T
    OBVIOUS
  <2>1. k + 1 \in 1 .. n /\ (k + 1) - 1 = k /\ k \in T
    OBVIOUS
  <2> QED
    BY <2>1
<1> HIDE DEF N
<1>3. \A k \in Nat : k \in N
  BY <1>1, <1>2, NatSet
<1> QED
  BY <1>3 DEF N

(* step is a function of the round and of the value so far.                *)
Iterates(f, n, start, step) ==
  /\ f[0] = start
  /\ \A k \in 1 .. n : f[k] = step[<<k, f[k - 1]>>]

LEMMA IterationExists ==
  ASSUME NEW n \in Nat, NEW S, NEW start \in S, NEW step,
         \A k \in 1 .. n : \A x \in S : step[<<k, x>>] \in S
  PROVE  \E f \in [0 .. n -> S] : Iterates(f, n, start, step)
<1> DEFINE T == {k \in 0 .. n : \E f \in [0 .. n -> S] : Iterates(f, k, start, step)}
<1>1. 0 \in T
  <2>1. [k \in 0 .. n |-> start] \in [0 .. n -> S]
    OBVIOUS
  <2>2. Iterates([k \in 0 .. n |-> start], 0, start, step)
    BY DEF Iterates
  <2> QED
    BY <2>1, <2>2
<1>2. ASSUME NEW k \in 1 .. n, k - 1 \in T PROVE k \in T
  <2>1. PICK f \in [0 .. n -> S] : Iterates(f, k - 1, start, step)
    BY <1>2
  <2> DEFINE g == [f EXCEPT ![k] = step[<<k, f[k - 1]>>]]
  <2>2. g \in [0 .. n -> S]
    OBVIOUS
  <2>3. g[0] = start /\ \A j \in 1 .. k : g[j] = step[<<j, g[j - 1]>>]
    BY <2>1 DEF Iterates
  <2>4. Iterates(g, k, start, step)
    BY <2>3 DEF Iterates
  <2> HIDE DEF g
  <2> QED
    BY <2>2, <2>4
<1> HIDE DEF T
<1>3. n \in T
  BY <1>1, <1>2, CountingUp
<1> QED
  BY <1>3 DEF T

-----------------------------------------------------------------------------
(* Positions in a strict total order, given as a set of pairs.             *)

StrictOrder(T, R) ==
  /\ \A x \in T : <<x, x>> \notin R
  /\ \A x, y \in T : x = y \/ <<x, y>> \in R \/ <<y, x>> \in R
  /\ \A x, y, z \in T : <<x, y>> \in R /\ <<y, z>> \in R => <<x, z>> \in R

Ahead(T, R, x) == {d \in T : <<d, x>> \in R}

Place(T, R, x) == Cardinality(Ahead(T, R, x))

LEMMA PlaceType ==
  ASSUME NEW T, IsFiniteSet(T), NEW R, StrictOrder(T, R), NEW x \in T
  PROVE  /\ IsFiniteSet(Ahead(T, R, x))
         /\ Place(T, R, x) \in 0 .. Cardinality(T) - 1
<1>1. Ahead(T, R, x) \in SUBSET (T \ {x})
  BY DEF Ahead, StrictOrder
<1>2. /\ IsFiniteSet(T \ {x}) /\ Cardinality(T \ {x}) = Cardinality(T) - 1
      /\ Cardinality(T) \in Nat
  BY FS_RemoveElement, FS_CardinalityType
<1>3. /\ IsFiniteSet(Ahead(T, R, x))
      /\ Cardinality(Ahead(T, R, x)) <= Cardinality(T \ {x})
  BY <1>1, <1>2, FS_Subset
<1>4. Cardinality(Ahead(T, R, x)) \in Nat
  BY <1>3, FS_CardinalityType
<1> QED
  BY <1>2, <1>3, <1>4 DEF Place

LEMMA PlaceMonotone ==
  ASSUME NEW T, IsFiniteSet(T), NEW R, StrictOrder(T, R), NEW x \in T, NEW y \in T,
         <<x, y>> \in R
  PROVE  Place(T, R, x) < Place(T, R, y)
<1>1. Ahead(T, R, x) \cup {x} \in SUBSET Ahead(T, R, y) /\ x \notin Ahead(T, R, x)
  BY DEF Ahead, StrictOrder
<1>2. /\ IsFiniteSet(Ahead(T, R, x)) /\ IsFiniteSet(Ahead(T, R, y))
      /\ Place(T, R, x) \in Nat /\ Place(T, R, y) \in Nat
  BY PlaceType
<1>3. Cardinality(Ahead(T, R, x) \cup {x}) = Cardinality(Ahead(T, R, x)) + 1
  BY <1>1, <1>2, FS_AddElement
<1>4. Cardinality(Ahead(T, R, x) \cup {x}) <= Cardinality(Ahead(T, R, y))
  BY <1>1, <1>2, FS_Subset
<1> QED
  BY <1>2, <1>3, <1>4 DEF Place

(* Every place is taken, by one element.                                   *)
LEMMA PlacesTaken ==
  ASSUME NEW T, IsFiniteSet(T), NEW R, StrictOrder(T, R)
  PROVE  /\ \A x, y \in T : Place(T, R, x) = Place(T, R, y) => x = y
         /\ \A n \in 1 .. Cardinality(T) : \E x \in T : Place(T, R, x) = n - 1
<1>1. ASSUME NEW x \in T, NEW y \in T, Place(T, R, x) = Place(T, R, y)
      PROVE  x = y
  <2>1. Place(T, R, x) \in Nat /\ Place(T, R, y) \in Nat
    BY PlaceType
  <2>2. <<x, y>> \notin R /\ <<y, x>> \notin R
    BY <1>1, <2>1, PlaceMonotone
  <2> QED
    BY <2>2 DEF StrictOrder
<1> DEFINE D == 0 .. Cardinality(T) - 1
           f == [x \in T |-> Place(T, R, x)]
<1>2. Cardinality(T) \in Nat
  BY FS_CardinalityType
<1>3. IsFiniteSet(D) /\ Cardinality(D) = Cardinality(T)
  BY <1>2, FS_Interval
<1>4. \A x \in T : Place(T, R, x) \in D
  BY PlaceType
<1>5. f \in Injection(T, D)
  BY <1>1, <1>4 DEF Injection, IsInjective
<1> HIDE DEF D
<1>6. f \in Surjection(T, D)
  BY <1>3, <1>5, FS_Injection
<1>7. \A d \in D : \E x \in T : Place(T, R, x) = d
  BY <1>6 DEF Surjection
<1>8. \A n \in 1 .. Cardinality(T) : n - 1 \in D
  BY <1>2 DEF D
<1> QED
  BY <1>1, <1>7, <1>8

(* The list of T in the order R.                                           *)
Listing(T, R) == [n \in 1 .. Cardinality(T) |-> CHOOSE x \in T : Place(T, R, x) = n - 1]

LEMMA ListingAt ==
  ASSUME NEW T, IsFiniteSet(T), NEW R, StrictOrder(T, R), NEW x \in T
  PROVE  /\ Place(T, R, x) + 1 \in 1 .. Cardinality(T)
         /\ Listing(T, R)[Place(T, R, x) + 1] = x
<1>1. Place(T, R, x) + 1 \in 1 .. Cardinality(T) /\ Place(T, R, x) \in Nat
      /\ (Place(T, R, x) + 1) - 1 = Place(T, R, x)
  <2>1. Place(T, R, x) \in 0 .. Cardinality(T) - 1 /\ Cardinality(T) \in Nat
    BY PlaceType, FS_CardinalityType
  <2> QED
    BY <2>1
<1> DEFINE p == Place(T, R, x)
           y == CHOOSE z \in T : Place(T, R, z) = p
<1>2. y \in T /\ Place(T, R, y) = p
  OBVIOUS
<1>3. y = x
  BY <1>2, PlacesTaken
<1> HIDE DEF p
<1>4. Listing(T, R)[p + 1] = CHOOSE z \in T : Place(T, R, z) = p
  BY <1>1 DEF Listing, p
<1> QED
  BY <1>1, <1>3, <1>4 DEF p

LEMMA ListingIs ==
  ASSUME NEW T, IsFiniteSet(T), NEW R, StrictOrder(T, R)
  PROVE  /\ DOMAIN Listing(T, R) = 1 .. Cardinality(T)
         /\ Cardinality(T) \in Nat
         /\ \A n \in 1 .. Cardinality(T) : /\ Listing(T, R)[n] \in T
                                           /\ Place(T, R, Listing(T, R)[n]) = n - 1
         /\ \A m, n \in 1 .. Cardinality(T) :
              m < n <=> <<Listing(T, R)[m], Listing(T, R)[n]>> \in R
<1> DEFINE L == Listing(T, R)
<1>1. DOMAIN L = 1 .. Cardinality(T)
  BY DEF Listing
<1>2. Cardinality(T) \in Nat
  BY FS_CardinalityType
<1>3. ASSUME NEW n \in 1 .. Cardinality(T)
      PROVE  L[n] \in T /\ Place(T, R, L[n]) = n - 1
  <2>1. \E x \in T : Place(T, R, x) = n - 1
    BY PlacesTaken
  <2> QED
    BY <2>1 DEF Listing
<1> HIDE DEF L
<1>4. ASSUME NEW m \in 1 .. Cardinality(T), NEW n \in 1 .. Cardinality(T)
      PROVE  m < n <=> <<L[m], L[n]>> \in R
  <2>1. L[m] \in T /\ Place(T, R, L[m]) = m - 1 /\ L[n] \in T /\ Place(T, R, L[n]) = n - 1
    BY <1>3
  <2>2. <<L[m], L[n]>> \in R => m < n
    BY <2>1, PlaceMonotone
  <2>3. <<L[n], L[m]>> \in R => n < m
    BY <2>1, PlaceMonotone
  <2>4. L[m] = L[n] => m = n
    BY <2>1
  <2> QED
    BY <2>1, <2>2, <2>3, <2>4 DEF StrictOrder
<1> QED
  BY <1>1, <1>2, <1>3, <1>4 DEF L

(* Two lists agree as far as a set that comes first in both.               *)
LEMMA ListingsAgree ==
  ASSUME NEW A, IsFiniteSet(A), NEW B, IsFiniteSet(B), NEW R,
         StrictOrder(A, R), StrictOrder(B, R),
         NEW H, H \in SUBSET A, H \in SUBSET B,
         \A h \in H : \A d \in A \cup B : <<d, h>> \in R => d \in H
  PROVE  /\ Cardinality(H) <= Cardinality(A) /\ Cardinality(H) <= Cardinality(B)
         /\ Cardinality(H) \in Nat
         /\ \A n \in 1 .. Cardinality(H) : Listing(A, R)[n] = Listing(B, R)[n]
<1>1. IsFiniteSet(H) /\ StrictOrder(H, R) /\ Cardinality(H) \in Nat
      /\ Cardinality(H) <= Cardinality(A) /\ Cardinality(H) <= Cardinality(B)
  BY FS_Subset, FS_CardinalityType DEF StrictOrder
<1>2. ASSUME NEW n \in 1 .. Cardinality(H)
      PROVE  Listing(A, R)[n] = Listing(B, R)[n]
  <2>1. PICK h \in H : Place(H, R, h) = n - 1
    BY <1>1, PlacesTaken
  <2>2. Ahead(A, R, h) = Ahead(H, R, h) /\ Ahead(B, R, h) = Ahead(H, R, h)
    BY DEF Ahead
  <2>3. Place(A, R, h) + 1 = n /\ Place(B, R, h) + 1 = n
    BY <2>1, <2>2 DEF Place
  <2>4. Listing(A, R)[Place(A, R, h) + 1] = h /\ Listing(B, R)[Place(B, R, h) + 1] = h
    BY ListingAt
  <2> QED
    BY <2>3, <2>4
<1> QED
  BY <1>1, <1>2

=============================================================================
