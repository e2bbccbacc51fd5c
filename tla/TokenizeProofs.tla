--------------------------- MODULE TokenizeProofs ---------------------------
(***************************************************************************)
(* The tokenizers over any Unicode tables, window widths and texts: what   *)
(* normalizing and folding may yield, the windows a stream completes, the  *)
(* terms their grams have, where span finds them, and that a text may be   *)
(* normalized cluster by cluster.                                          *)
(***************************************************************************)
EXTENDS Tokenize, SetProofs, SequenceTheorems

-----------------------------------------------------------------------------
(* Sequences: their members, and induction over them.                      *)

LEMMA Members ==
  ASSUME NEW C, NEW s \in Seq(C)
  PROVE  /\ DOMAIN s = 1 .. Len(s) /\ Len(s) \in Nat
         /\ \A i \in DOMAIN s : s[i] \in C
OBVIOUS

LEMMA Joined ==
  ASSUME NEW C, NEW x \in Seq(C), NEW y \in Seq(C)
  PROVE  /\ x \o y \in Seq(C) /\ Len(x \o y) = Len(x) + Len(y)
         /\ Len(x) \in Nat /\ Len(y) \in Nat
         /\ \A i \in 1 .. Len(x) : (x \o y)[i] = x[i]
         /\ \A i \in 1 .. Len(y) : (x \o y)[Len(x) + i] = y[i]
OBVIOUS

LEMMA Appended ==
  ASSUME NEW C, NEW s \in Seq(C), NEW c \in C
  PROVE  /\ Append(s, c) \in Seq(C) /\ Len(Append(s, c)) = Len(s) + 1 /\ Len(s) \in Nat
         /\ \A i \in 1 .. Len(s) : Append(s, c)[i] = s[i] /\ s[i] \in C
         /\ Append(s, c)[Len(s) + 1] = c
OBVIOUS

LEMMA SeqInduction ==
  ASSUME NEW C, NEW T, <<>> \in T, \A s \in Seq(C) : \A c \in C : s \in T => Append(s, c) \in T
  PROVE  \A s \in Seq(C) : s \in T
<1> SUFFICES ASSUME NEW s \in Seq(C) PROVE s \in T
  OBVIOUS
<1> DEFINE p(n) == SubSeq(s, 1, n)
           N == {n \in 0 .. Len(s) : p(n) \in T}
<1>1. Len(s) \in Nat /\ p(0) = <<>> /\ p(Len(s)) = s
  BY SubSeqEmpty, SubSeqFull
<1>2. ASSUME NEW n \in 1 .. Len(s)
      PROVE  p(n - 1) \in Seq(C) /\ s[n] \in C /\ p(n) = Append(p(n - 1), s[n])
  <2>1. p(n - 1) \in Seq(C) /\ s[n] \in C
    BY <1>1
  <2>2. p(n) = p(n - 1) \o <<s[n]>>
    <3>1. 1 \in 1 .. Len(s) /\ n \in 1 .. Len(s)
      BY <1>1
    <3> QED
      BY <3>1, SubSeqRecursiveSecond
  <2> HIDE DEF p
  <2> QED
    BY <2>1, <2>2, AppendIsConcat
<1> HIDE DEF p
<1>3. 0 \in N
  BY <1>1
<1>5. ASSUME NEW n \in 1 .. Len(s), n - 1 \in N PROVE n \in N
  <2>1. p(n - 1) \in T
    BY <1>5
  <2>2. Append(p(n - 1), s[n]) \in T
    BY <1>2, <2>1
  <2>3. n \in 0 .. Len(s)
    BY <1>1
  <2> QED
    BY <1>2, <2>2, <2>3
<1> HIDE DEF N
<1>4. Len(s) \in N
  <2>1. \A n \in 0 .. Len(s) : n \in N
    BY <1>1, <1>3, <1>5, CountingUp
  <2> QED
    BY <1>1, <2>1
<1> QED
  BY <1>1, <1>4 DEF N

-----------------------------------------------------------------------------
(* Flattening, as the recursive function that defines it.                  *)

Flattens(ss, f) ==
  f = [i \in 1 .. Len(ss) |-> IF i = 1 THEN ss[i] ELSE f[i - 1] \o ss[i]]

LEMMA Concat ==
  ASSUME NEW C, NEW x \in Seq(C), NEW y \in Seq(C)
  PROVE  x \o y \in Seq(C)
OBVIOUS

LEMMA FlattenIs ==
  ASSUME NEW C, NEW ss \in Seq(Seq(C)), Len(ss) # 0
  PROVE  \E f : Flattens(ss, f) /\ FlattenSeq(ss) = f[Len(ss)]
<1> DEFINE n == Len(ss)
           step == [p \in (1 .. n) \X Seq(C) |-> IF p[1] = 1 THEN ss[p[1]] ELSE p[2] \o ss[p[1]]]
<1>1. n \in Nat \ {0} /\ \A k \in 1 .. n : ss[k] \in Seq(C)
  OBVIOUS
<1>2. \A k \in 1 .. n : \A x \in Seq(C) :
        /\ step[<<k, x>>] = IF k = 1 THEN ss[k] ELSE x \o ss[k]
        /\ step[<<k, x>>] \in Seq(C)
  BY <1>1
<1>3. <<>> \in Seq(C)
  OBVIOUS
<1> HIDE DEF step, n
<1>4. PICK f \in [0 .. n -> Seq(C)] : Iterates(f, n, <<>>, step)
  BY <1>1, <1>2, <1>3, IterationExists
<1> DEFINE g == [i \in 1 .. n |-> f[i]]
<1>5. ASSUME NEW i \in 1 .. n
      PROVE  g[i] = IF i = 1 THEN ss[i] ELSE g[i - 1] \o ss[i]
  <2>1. f[i] = step[<<i, f[i - 1]>>] /\ i - 1 \in 0 .. n
    BY <1>1, <1>4 DEF Iterates
  <2>2. f[i - 1] \in Seq(C)
    BY <2>1, <1>4
  <2>3. f[i] = IF i = 1 THEN ss[i] ELSE f[i - 1] \o ss[i]
    BY <2>1, <2>2, <1>2
  <2>4. i # 1 => g[i - 1] = f[i - 1]
    BY <1>1
  <2> QED
    BY <2>3, <2>4
<1>6. Flattens(ss, g)
  <2>1. g = [i \in 1 .. n |-> g[i]]
    OBVIOUS
  <2> HIDE DEF g
  <2> QED
    BY <2>1, <1>5 DEF Flattens, n
<1> DEFINE h == CHOOSE x : Flattens(ss, x)
<1>7. Flattens(ss, h)
  BY <1>6
<1>8. FlattenSeq(ss) = h[Len(ss)]
  BY DEF FlattenSeq, Flattens
<1> QED
  BY <1>7, <1>8

(* The code points of a flattening are those of its parts.                 *)
LEMMA FlattenType ==
  ASSUME NEW C, NEW ss \in Seq(Seq(C))
  PROVE  FlattenSeq(ss) \in Seq(C)
<1>1. CASE Len(ss) = 0
  <2>1. ss = <<>>
    BY <1>1
  <2>2. FlattenSeq(ss) = <<>>
    BY <1>1, <2>1 DEF FlattenSeq
  <2>3. <<>> \in Seq(C)
    OBVIOUS
  <2> QED
    BY <2>2, <2>3
<1>2. CASE Len(ss) # 0
  <2>1. PICK f : Flattens(ss, f) /\ FlattenSeq(ss) = f[Len(ss)]
    BY <1>2, FlattenIs
  <2>2. \A i \in 1 .. Len(ss) : f[i] = IF i = 1 THEN ss[i] ELSE f[i - 1] \o ss[i]
    BY <2>1 DEF Flattens
  <2> DEFINE T == {0} \cup {k \in 1 .. Len(ss) : f[k] \in Seq(C)}
  <2>3. ASSUME NEW k \in 1 .. Len(ss), k - 1 \in T PROVE k \in T
    <3>1. ss[k] \in Seq(C)
      OBVIOUS
    <3>2. CASE k = 1
      BY <3>1, <3>2, <2>2
    <3>3. CASE k # 1
      <4>1. f[k - 1] \in Seq(C)
        BY <2>3, <3>3
      <4>2. f[k] = f[k - 1] \o ss[k]
        BY <2>2, <3>3
      <4>3. f[k] \in Seq(C)
        BY <3>1, <4>1, <4>2, Concat
      <4> QED
        BY <4>3
    <3> QED
      BY <3>2, <3>3
  <2>4. 0 \in T /\ Len(ss) \in Nat
    OBVIOUS
  <2> HIDE DEF T
  <2>5. \A k \in 0 .. Len(ss) : k \in T
    BY <2>3, <2>4, CountingUp
  <2>6. Len(ss) \in T /\ Len(ss) \in 1 .. Len(ss)
    BY <2>4, <2>5, <1>2
  <2> QED
    BY <1>2, <2>1, <2>6 DEF T
<1> QED
  BY <1>1, <1>2

LEMMA FlattenEmpty == FlattenSeq(<<>>) = <<>>
BY DEF FlattenSeq

LEMMA FlattenAppend ==
  ASSUME NEW C, NEW ss \in Seq(Seq(C)), NEW x \in Seq(C)
  PROVE  FlattenSeq(Append(ss, x)) = FlattenSeq(ss) \o x
<1> DEFINE tt == Append(ss, x)
           n == Len(ss)
<1>1. /\ tt \in Seq(Seq(C)) /\ Len(tt) = n + 1 /\ n \in Nat /\ tt[n + 1] = x
      /\ \A i \in 1 .. n : tt[i] = ss[i]
  BY Appended
<1> HIDE DEF tt
<1>2. PICK f : Flattens(tt, f) /\ FlattenSeq(tt) = f[n + 1]
  BY <1>1, FlattenIs
<1>3. \A i \in 1 .. n + 1 : f[i] = IF i = 1 THEN tt[i] ELSE f[i - 1] \o tt[i]
  BY <1>1, <1>2 DEF Flattens
<1>4. CASE n = 0
  <2>1. ss = <<>>
    BY <1>4
  <2>2. f[n + 1] = x
    BY <1>1, <1>3, <1>4
  <2>3. <<>> \o x = x
    BY ConcatEmptySeq
  <2> QED
    BY <1>2, <2>1, <2>2, <2>3, FlattenEmpty DEF tt
<1>5. CASE n # 0
  <2>1. PICK g : Flattens(ss, g) /\ FlattenSeq(ss) = g[n]
    BY <1>5, FlattenIs
  <2>2. \A i \in 1 .. n : g[i] = IF i = 1 THEN ss[i] ELSE g[i - 1] \o ss[i]
    BY <2>1 DEF Flattens
  <2> DEFINE T == {0} \cup {i \in 1 .. n : f[i] = g[i]}
  <2>3. ASSUME NEW i \in 1 .. n, i - 1 \in T PROVE i \in T
    <3>0. i \in 1 .. n + 1 /\ tt[i] = ss[i]
      BY <1>1
    <3>1. f[i] = IF i = 1 THEN ss[i] ELSE f[i - 1] \o ss[i]
      BY <1>3, <3>0
    <3>2. i # 1 => f[i - 1] = g[i - 1]
      BY <2>3
    <3> QED
      BY <2>2, <3>1, <3>2
  <2>4. 0 \in T
    OBVIOUS
  <2> HIDE DEF T
  <2>5. n \in T
    <3>1. \A i \in 0 .. n : i \in T
      BY <1>1, <2>3, <2>4, CountingUp
    <3> QED
      BY <1>1, <3>1
  <2>6. f[n] = g[n]
    BY <1>5, <2>5 DEF T
  <2>7. f[n + 1] = f[n] \o x
    <3>1. n + 1 \in 1 .. n + 1 /\ n + 1 # 1 /\ (n + 1) - 1 = n
      BY <1>1, <1>5
    <3> HIDE DEF n
    <3>2. f[n + 1] = f[(n + 1) - 1] \o tt[n + 1]
      BY <1>3, <3>1
    <3> QED
      BY <1>1, <3>1, <3>2
  <2> QED
    BY <1>2, <2>1, <2>6, <2>7 DEF tt
<1> QED
  BY <1>4, <1>5

LEMMA FlattenConcat ==
  ASSUME NEW C, NEW ss \in Seq(Seq(C)), NEW tt \in Seq(Seq(C))
  PROVE  FlattenSeq(ss \o tt) = FlattenSeq(ss) \o FlattenSeq(tt)
<1> DEFINE T == {u \in Seq(Seq(C)) : FlattenSeq(ss \o u) = FlattenSeq(ss) \o FlattenSeq(u)}
           a == FlattenSeq(ss)
<1>1. a \in Seq(C)
  BY FlattenType
<1>2. <<>> \in T
  <2>1. ss \o <<>> = ss /\ a \o <<>> = a /\ <<>> \in Seq(Seq(C))
    BY <1>1, ConcatEmptySeq, EmptySeq
  <2> QED
    BY <2>1, FlattenEmpty
<1>3. ASSUME NEW u \in Seq(Seq(C)), NEW x \in Seq(C), u \in T PROVE Append(u, x) \in T
  <2> DEFINE b == FlattenSeq(u)
             su == ss \o u
  <2>1. b \in Seq(C) /\ su \in Seq(Seq(C)) /\ Append(u, x) \in Seq(Seq(C))
    BY FlattenType, Concat, AppendProperties
  <2>2. ss \o Append(u, x) = Append(su, x)
    <3>1. Append(u, x) = u \o <<x>> /\ <<x>> \in Seq(Seq(C))
      BY AppendIsConcat
    <3>2. Append(su, x) = su \o <<x>>
      BY <2>1, AppendIsConcat
    <3> QED
      BY <3>1, <3>2, ConcatAssociative
  <2>3. FlattenSeq(Append(su, x)) = FlattenSeq(su) \o x /\ FlattenSeq(Append(u, x)) = b \o x
    <3> HIDE DEF su
    <3> QED
      BY <2>1, FlattenAppend
  <2>4. FlattenSeq(su) = a \o b
    BY <1>3
  <2> HIDE DEF a, b, su
  <2>5. (a \o b) \o x = a \o (b \o x)
    <3>1. a \in Seq(C) /\ b \in Seq(C)
      BY <1>1, <2>1
    <3> HIDE DEF T
    <3> QED
      BY <3>1, ConcatAssociative
  <2> QED
    BY <2>1, <2>2, <2>3, <2>4, <2>5 DEF a, su
<1> HIDE DEF T
<1>4. \A u \in Seq(Seq(C)) : u \in T
  BY <1>2, <1>3, SeqInduction
<1> QED
  BY <1>4 DEF T

(* What a table makes of each code point.                                  *)
Mapped(M, s) == FlattenSeq([i \in DOMAIN s |-> M[s[i]]])

LEMMA MappedType ==
  ASSUME NEW M \in [Chars -> Seq(Chars)], NEW s \in Seq(Chars)
  PROVE  /\ [i \in DOMAIN s |-> M[s[i]]] \in Seq(Seq(Chars))
         /\ Len([i \in DOMAIN s |-> M[s[i]]]) = Len(s)
         /\ Mapped(M, s) \in Seq(Chars)
<1>1. /\ DOMAIN s = 1 .. Len(s) /\ Len(s) \in Nat
      /\ \A i \in DOMAIN s : s[i] \in Chars
  BY Members
<1>2. \A i \in DOMAIN s : M[s[i]] \in Seq(Chars)
  BY <1>1
<1> DEFINE ss == [i \in DOMAIN s |-> M[s[i]]]
<1>3. ss \in Seq(Seq(Chars)) /\ Len(ss) = Len(s)
  BY <1>1, <1>2
<1> HIDE DEF ss
<1> QED
  BY <1>3, FlattenType DEF ss, Mapped

LEMMA MappedOne ==
  ASSUME NEW M \in [Chars -> Seq(Chars)], NEW c \in Chars
  PROVE  Mapped(M, <<c>>) = M[c] /\ Mapped(M, <<>>) = <<>>
<1>1. M[c] \in Seq(Chars) /\ <<>> \in Seq(Seq(Chars))
  OBVIOUS
<1>2. [i \in DOMAIN <<c>> |-> M[<<c>>[i]]] = Append(<<>>, M[c])
  OBVIOUS
<1>3. [i \in DOMAIN <<>> |-> M[<<>>[i]]] = <<>>
  OBVIOUS
<1>4. FlattenSeq(Append(<<>>, M[c])) = <<>> \o M[c]
  BY <1>1, FlattenAppend, FlattenEmpty
<1>5. <<>> \o M[c] = M[c]
  BY <1>1, ConcatEmptySeq
<1> QED
  BY <1>2, <1>3, <1>4, <1>5, FlattenEmpty DEF Mapped

LEMMA MappedConcat ==
  ASSUME NEW M \in [Chars -> Seq(Chars)], NEW x \in Seq(Chars), NEW y \in Seq(Chars)
  PROVE  Mapped(M, x \o y) = Mapped(M, x) \o Mapped(M, y)
<1> DEFINE z == x \o y
           mx == [i \in DOMAIN x |-> M[x[i]]]
           my == [i \in DOMAIN y |-> M[y[i]]]
           mz == [i \in DOMAIN z |-> M[z[i]]]
           v == mx \o my
<1>1. /\ z \in Seq(Chars) /\ Len(z) = Len(x) + Len(y) /\ Len(x) \in Nat /\ Len(y) \in Nat
      /\ \A i \in 1 .. Len(x) : z[i] = x[i]
      /\ \A i \in 1 .. Len(y) : z[Len(x) + i] = y[i]
  BY Joined
<1>2. DOMAIN x = 1 .. Len(x) /\ DOMAIN y = 1 .. Len(y) /\ DOMAIN z = 1 .. Len(x) + Len(y)
  BY <1>1, LenProperties
<1> HIDE DEF z
<1>3. /\ mx \in Seq(Seq(Chars)) /\ Len(mx) = Len(x) /\ my \in Seq(Seq(Chars)) /\ Len(my) = Len(y)
      /\ mz \in Seq(Seq(Chars)) /\ Len(mz) = Len(x) + Len(y)
  BY <1>1, MappedType
<1>4. /\ \A i \in 1 .. Len(x) : mx[i] = M[x[i]]
      /\ \A i \in 1 .. Len(y) : my[i] = M[y[i]]
      /\ \A i \in 1 .. Len(x) + Len(y) : mz[i] = M[z[i]]
  BY <1>2
<1> HIDE DEF mx, my, mz
<1>5. /\ v \in Seq(Seq(Chars)) /\ Len(v) = Len(mx) + Len(my)
      /\ \A i \in 1 .. Len(mx) : v[i] = mx[i]
      /\ \A i \in 1 .. Len(my) : v[Len(mx) + i] = my[i]
  <2> DEFINE D == Seq(Chars)
  <2>1. mx \in Seq(D) /\ my \in Seq(D)
    BY <1>3
  <2> HIDE DEF D
  <2>2. /\ mx \o my \in Seq(D) /\ Len(mx \o my) = Len(mx) + Len(my)
        /\ Len(mx) \in Nat /\ Len(my) \in Nat
        /\ \A i \in 1 .. Len(mx) : (mx \o my)[i] = mx[i]
        /\ \A i \in 1 .. Len(my) : (mx \o my)[Len(mx) + i] = my[i]
    BY <2>1, Joined
  <2> QED
    BY <2>2 DEF D
<1>6. FlattenSeq(v) = FlattenSeq(mx) \o FlattenSeq(my)
  BY <1>3, FlattenConcat
<1> HIDE DEF v
<1>7. ASSUME NEW i \in 1 .. Len(x) + Len(y) PROVE mz[i] = v[i]
  <2>1. CASE i <= Len(x)
    <3>1. i \in 1 .. Len(x)
      BY <1>1, <2>1
    <3>2. z[i] = x[i] /\ v[i] = mx[i] /\ mx[i] = M[x[i]]
      BY <1>1, <1>3, <1>4, <1>5, <3>1
    <3> QED
      BY <1>4, <3>2
  <2>2. CASE ~ (i <= Len(x))
    <3> DEFINE j == i - Len(x)
    <3>1. j \in 1 .. Len(y) /\ i = Len(x) + j
      BY <1>1, <2>2
    <3> HIDE DEF j
    <3>2. z[i] = y[j] /\ v[i] = my[j] /\ my[j] = M[y[j]]
      BY <1>1, <1>3, <1>4, <1>5, <3>1
    <3> QED
      BY <1>4, <3>2
  <2> QED
    BY <2>1, <2>2
<1>8. mz = v
  BY <1>3, <1>5, <1>7, SeqEqual
<1> QED
  BY <1>6, <1>8 DEF Mapped, mz, mx, my, z

-----------------------------------------------------------------------------
(* Folding over a sequence, as the recursive function that defines it: the *)
(* operator is given by its table.                                         *)

Folds(op, base, s, f) ==
  f = [T \in SUBSET DOMAIN s |->
         IF T = {} THEN base ELSE op[<<f[T \ {Max(T)}], s[Max(T)]>>]]

LEMMA MaxIn ==
  ASSUME NEW n \in Nat, NEW T \in SUBSET (1 .. n), T # {}
  PROVE  Max(T) \in T /\ \A x \in T : x <= Max(T)
<1> DEFINE D == {n - x : x \in T}
<1>1. D \in SUBSET Nat /\ D # {}
  <2>1. \A x \in T : n - x \in Nat
    OBVIOUS
  <2>2. PICK x \in T : TRUE
    OBVIOUS
  <2>3. n - x \in D
    OBVIOUS
  <2> QED
    BY <2>1, <2>3
<1>2. PICK m \in D : \A k \in D : m <= k
  BY <1>1, LeastElement
<1>3. PICK x \in T : m = n - x
  BY <1>2
<1>4. \A y \in T : y <= x
  <2>1. ASSUME NEW y \in T PROVE y <= x
    <3>1. n - y \in D
      OBVIOUS
    <3>2. m <= n - y
      BY <3>1, <1>2
    <3>3. x \in 1 .. n /\ y \in 1 .. n
      OBVIOUS
    <3> HIDE DEF D
    <3> QED
      BY <3>2, <3>3, <1>3
  <2> QED
    BY <2>1
<1>5. \E z \in T : \A y \in T : z >= y
  <2>1. \A y \in T : x >= y
    BY <1>4
  <2> QED
    BY <2>1
<1>6. Max(T) \in T /\ \A y \in T : Max(T) >= y
  BY <1>5 DEF Max
<1> QED
  BY <1>6

LEMMA FoldsExist ==
  ASSUME NEW A, NEW C, NEW op, NEW base \in A, NEW s \in Seq(C),
         \A a \in A, c \in C : op[<<a, c>>] \in A
  PROVE  \E f \in [SUBSET DOMAIN s -> A] : Folds(op, base, s, f)
<1> DEFINE U == DOMAIN s
           Step(f, T) == IF T = {} THEN base ELSE op[<<f[T \ {Max(T)}], s[Max(T)]>>]
           Upto(n, f) == \A T \in SUBSET U : Cardinality(T) <= n => f[T] = Step(f, T)
           F == [SUBSET U -> A]
           N == {n \in Nat : \E f \in F : Upto(n, f)}
<1>0. U = 1 .. Len(s) /\ Len(s) \in Nat /\ IsFiniteSet(U)
  <2>1. U = 1 .. Len(s) /\ Len(s) \in Nat
    OBVIOUS
  <2> QED
    BY <2>1, FS_Interval
<1>1. \A T \in SUBSET U : IsFiniteSet(T) /\ Cardinality(T) \in Nat
  BY <1>0, FS_Subset, FS_CardinalityType
<1>2. \A T \in SUBSET U : T # {} => /\ Max(T) \in T /\ s[Max(T)] \in C
                                    /\ T \ {Max(T)} \in SUBSET U
                                    /\ Cardinality(T \ {Max(T)}) = Cardinality(T) - 1
  <2> SUFFICES ASSUME NEW T \in SUBSET U, T # {}
               PROVE  /\ Max(T) \in T /\ s[Max(T)] \in C
                      /\ T \ {Max(T)} \in SUBSET U
                      /\ Cardinality(T \ {Max(T)}) = Cardinality(T) - 1
    OBVIOUS
  <2>1. Max(T) \in T
    BY <1>0, MaxIn
  <2>2. Cardinality(T \ {Max(T)}) = Cardinality(T) - 1
    BY <1>1, <2>1, FS_RemoveElement
  <2>3. s[Max(T)] \in C
    BY <2>1, <1>0
  <2> QED
    BY <2>1, <2>2, <2>3
<1>3. 0 \in N
  <2>1. [T \in SUBSET U |-> base] \in F
    OBVIOUS
  <2>2. \A T \in SUBSET U : Cardinality(T) <= 0 => T = {}
    BY <1>1, FS_EmptySet
  <2>3. Upto(0, [T \in SUBSET U |-> base])
    BY <2>2
  <2> QED
    BY <2>1, <2>3
<1>4. ASSUME NEW n \in Nat, n \in N PROVE n + 1 \in N
  <2>1. PICK f \in F : Upto(n, f)
    BY <1>4
  <2> DEFINE g == [T \in SUBSET U |-> Step(f, T)]
  <2>2. g \in F
    <3>1. ASSUME NEW T \in SUBSET U PROVE Step(f, T) \in A
      BY <1>2
    <3> QED
      BY <3>1
  <2>3. \A T \in SUBSET U : Cardinality(T) <= n => g[T] = f[T]
    BY <2>1
  <2>4. Upto(n + 1, g)
    <3> SUFFICES ASSUME NEW T \in SUBSET U, Cardinality(T) <= n + 1
                 PROVE  g[T] = Step(g, T)
      OBVIOUS
    <3>1. CASE T = {}
      BY <3>1
    <3>2. CASE T # {}
      <4>0. Cardinality(T \ {Max(T)}) = Cardinality(T) - 1 /\ Cardinality(T) \in Nat
        BY <1>1, <1>2, <3>2
      <4>1. Cardinality(T \ {Max(T)}) <= n
        BY <4>0
      <4>2. g[T \ {Max(T)}] = f[T \ {Max(T)}]
        BY <1>2, <2>3, <3>2, <4>1
      <4> QED
        BY <3>2, <4>2
    <3> QED
      BY <3>1, <3>2
  <2> HIDE DEF g, Upto
  <2>5. \E h \in F : Upto(n + 1, h)
    BY <2>2, <2>4
  <2> QED
    BY <2>5
<1>5. Cardinality(U) \in N
  <2> HIDE DEF N
  <2> QED
    BY <1>1, <1>3, <1>4, NatSet
<1>6. PICK f \in F : Upto(Cardinality(U), f)
  BY <1>5
<1>7. \A T \in SUBSET U : Cardinality(T) <= Cardinality(U)
  BY <1>0, FS_Subset
<1>8. f = [T \in SUBSET U |-> f[T]]
  OBVIOUS
<1> QED
  BY <1>6, <1>7, <1>8 DEF Folds

(* The last place of the domain goes first.                                *)
LEMMA PrefixTop ==
  ASSUME NEW n \in Nat \ {0}
  PROVE  1 .. n # {} /\ Max(1 .. n) = n /\ (1 .. n) \ {Max(1 .. n)} = 1 .. n - 1
<1>1. 1 .. n \in SUBSET (1 .. n) /\ 1 .. n # {} /\ n \in 1 .. n /\ n \in Nat
  OBVIOUS
<1>2. Max(1 .. n) \in 1 .. n /\ \A x \in 1 .. n : x <= Max(1 .. n)
  BY <1>1, MaxIn
<1> DEFINE m == Max(1 .. n)
<1>3. m = n
  <2>1. m \in 1 .. n /\ n <= m
    BY <1>1, <1>2
  <2> HIDE DEF m
  <2> QED
    BY <2>1
<1>4. (1 .. n) \ {n} = 1 .. n - 1
  OBVIOUS
<1> QED
  BY <1>1, <1>3, <1>4

-----------------------------------------------------------------------------
(* The normalization forms are made of code points.                        *)

LEMMA TableFacts ==
  /\ NoClass \notin DOMAIN Sizes /\ Common \in DOMAIN Sizes
  /\ \A cl \in DOMAIN Sizes : Sizes[cl] \in 1 .. 3
  /\ \A c \in Chars : /\ Script[c] \in DOMAIN Sizes /\ Ccc[c] \in Nat
                      /\ Lower[c] \in Seq(Chars) /\ Lower[c] # <<>>
                      /\ Decomposition[c] \in Seq(Chars)
  /\ \A p \in DOMAIN Composition : Composition[p] \in Chars
<1>1. \A cl \in DOMAIN Sizes : Sizes[cl] \in 1 .. 3
  BY Tables, Zenon
<1>2. \A c \in Chars : Script[c] \in DOMAIN Sizes /\ Ccc[c] \in Nat
  BY Tables, Zenon
<1>3. \A c \in Chars : Lower[c] \in Seq(Chars) /\ Lower[c] # <<>>
  BY Tables, Zenon
<1>4. \A c \in Chars : Decomposition[c] \in Seq(Chars)
  BY Tables, Zenon
<1>5. \A p \in DOMAIN Composition : Composition[p] \in Chars
  BY Tables, Zenon
<1>6. NoClass \notin DOMAIN Sizes /\ Common \in DOMAIN Sizes
  BY Tables, Zenon
<1> QED
  BY <1>1, <1>2, <1>3, <1>4, <1>5, <1>6

LEMMA ReplaceOne ==
  ASSUME NEW C, NEW s \in Seq(C), NEW i, NEW x \in C
  PROVE  [s EXCEPT ![i] = x] \in Seq(C) /\ Len([s EXCEPT ![i] = x]) = Len(s)
<1> DEFINE r == [s EXCEPT ![i] = x]
<1>1. DOMAIN s = 1 .. Len(s) /\ Len(s) \in Nat /\ \A k \in 1 .. Len(s) : s[k] \in C
  OBVIOUS
<1>2. r = [k \in 1 .. Len(s) |-> IF k = i THEN x ELSE s[k]]
  BY <1>1
<1>3. \A k \in 1 .. Len(s) : (IF k = i THEN x ELSE s[k]) \in C
  BY <1>1
<1> HIDE DEF r
<1>4. r \in Seq(C) /\ Len(r) = Len(s)
  BY <1>1, <1>2, <1>3
<1> QED
  BY <1>4 DEF r

IsPlace(s, c, k) ==
  /\ k \in 0 .. Len(s)
  /\ \A i \in k + 1 .. Len(s) : Ccc[s[i]] > Ccc[c]
  /\ k > 0 => Ccc[s[k]] <= Ccc[c]

LEMMA PlaceExists ==
  ASSUME NEW s \in Seq(Chars), NEW c \in Chars
  PROVE  \E k \in 0 .. Len(s) : IsPlace(s, c, k)
<1> DEFINE K == {k \in 0 .. Len(s) : \A i \in k + 1 .. Len(s) : Ccc[s[i]] > Ccc[c]}
<1>0. Ccc[c] \in Nat /\ Len(s) \in Nat /\ \A i \in 1 .. Len(s) : Ccc[s[i]] \in Nat
  <2>1. \A i \in 1 .. Len(s) : s[i] \in Chars
    OBVIOUS
  <2> QED
    BY <2>1, TableFacts
<1>1. K \in SUBSET Nat /\ Len(s) \in K
  BY <1>0
<1>2. PICK m \in K : \A k \in K : m <= k
  BY <1>1, LeastElement
<1>3. m > 0 => Ccc[s[m]] <= Ccc[c]
  <2> SUFFICES ASSUME m > 0, ~ (Ccc[s[m]] <= Ccc[c]) PROVE FALSE
    OBVIOUS
  <2>1. m \in 1 .. Len(s) /\ m - 1 \in 0 .. Len(s) /\ Ccc[s[m]] > Ccc[c]
    BY <1>0, <1>2
  <2>2. \A i \in (m - 1) + 1 .. Len(s) : i = m \/ i \in m + 1 .. Len(s)
    BY <1>0, <2>1
  <2>3. m - 1 \in K
    BY <1>2, <2>1, <2>2
  <2>4. m <= m - 1
    BY <1>2, <2>3
  <2> QED
    BY <2>1, <2>4
<1> QED
  BY <1>2, <1>3 DEF IsPlace

LEMMA InsertMarkType ==
  ASSUME NEW s \in Seq(Chars), NEW c \in Chars
  PROVE  InsertMark(s, c) \in Seq(Chars)
<1> DEFINE P(k) == /\ \A i \in k + 1 .. Len(s) : Ccc[s[i]] > Ccc[c]
                   /\ k > 0 => Ccc[s[k]] <= Ccc[c]
           m == CHOOSE k \in 0 .. Len(s) : P(k)
<1>1. \E k \in 0 .. Len(s) : P(k)
  BY PlaceExists DEF IsPlace
<1>2. m \in 0 .. Len(s)
  BY <1>1
<1>3. InsertMark(s, c) = IF Ccc[c] = 0 THEN Append(s, c)
                         ELSE SubSeq(s, 1, m) \o <<c>> \o SubSeq(s, m + 1, Len(s))
  BY DEF InsertMark
<1> HIDE DEF m
<1>4. /\ Append(s, c) \in Seq(Chars) /\ <<c>> \in Seq(Chars)
      /\ SubSeq(s, 1, m) \in Seq(Chars)
  BY <1>2
<1>5. SubSeq(s, m + 1, Len(s)) \in Seq(Chars)
  BY <1>2
<1>6. SubSeq(s, 1, m) \o <<c>> \in Seq(Chars)
  BY <1>4, Concat
<1>7. SubSeq(s, 1, m) \o <<c>> \o SubSeq(s, m + 1, Len(s)) \in Seq(Chars)
  BY <1>5, <1>6, Concat
<1> QED
  BY <1>3, <1>4, <1>7

Reorders(s, f) ==
  f = [T \in SUBSET DOMAIN s |->
         IF T = {} THEN <<>> ELSE InsertMark(f[T \ {Max(T)}], s[Max(T)])]

SortOf(d) == FoldLeft(InsertMark, <<>>, d)

LEMMA SortIs ==
  ASSUME NEW d \in Seq(Chars)
  PROVE  \E f : Reorders(d, f) /\ SortOf(d) = f[DOMAIN d]
<1> DEFINE op == [p \in Seq(Chars) \X Chars |-> InsertMark(p[1], p[2])]
<1>2. \A a \in Seq(Chars), c \in Chars :
        op[<<a, c>>] = InsertMark(a, c) /\ op[<<a, c>>] \in Seq(Chars)
  BY InsertMarkType
<1>3. <<>> \in Seq(Chars)
  OBVIOUS
<1> HIDE DEF op
<1>4. PICK f \in [SUBSET DOMAIN d -> Seq(Chars)] : Folds(op, <<>>, d, f)
  BY <1>2, <1>3, FoldsExist
<1>5. Reorders(d, f)
  <2>1. ASSUME NEW T \in SUBSET DOMAIN d, T # {}
        PROVE  f[T] = InsertMark(f[T \ {Max(T)}], d[Max(T)])
    <3>1. f[T] = op[<<f[T \ {Max(T)}], d[Max(T)]>>]
      BY <1>4, <2>1 DEF Folds
    <3>2. DOMAIN d = 1 .. Len(d) /\ Len(d) \in Nat
      OBVIOUS
    <3>3. Max(T) \in DOMAIN d
      BY <2>1, <3>2, MaxIn
    <3>4. d[Max(T)] \in Chars /\ f[T \ {Max(T)}] \in Seq(Chars)
      BY <1>4, <3>3
    <3> QED
      BY <1>2, <3>1, <3>4
  <2>2. f[{}] = <<>>
    BY <1>4 DEF Folds
  <2>3. f = [T \in SUBSET DOMAIN d |-> f[T]]
    BY <1>4
  <2> QED
    BY <2>1, <2>2, <2>3 DEF Reorders
<1> DEFINE g == CHOOSE x : Reorders(d, x)
<1>6. Reorders(d, g)
  BY <1>5
<1>7. SortOf(d) = g[DOMAIN d]
  BY DEF SortOf, FoldLeft, MapThenFoldSet, Reorders
<1> QED
  BY <1>6, <1>7

LEMMA SortEmpty == SortOf(<<>>) = <<>>
<1>1. <<>> \in Seq(Chars) /\ DOMAIN <<>> = {}
  OBVIOUS
<1>2. PICK f : Reorders(<<>>, f) /\ SortOf(<<>>) = f[DOMAIN <<>>]
  BY <1>1, SortIs
<1> QED
  BY <1>1, <1>2 DEF Reorders

LEMMA SortNext ==
  ASSUME NEW d \in Seq(Chars), NEW c \in Chars
  PROVE  SortOf(Append(d, c)) = InsertMark(SortOf(d), c)
<1> DEFINE e == Append(d, c)
           m == Len(d)
<1>1. /\ e \in Seq(Chars) /\ m \in Nat /\ DOMAIN d = 1 .. m /\ DOMAIN e = 1 .. m + 1
      /\ e[m + 1] = c /\ \A i \in 1 .. m : e[i] = d[i]
  BY Appended, LenProperties
<1> HIDE DEF e, m
<1>2. PICK f : Reorders(d, f) /\ SortOf(d) = f[1 .. m]
  BY <1>1, SortIs
<1>3. PICK g : Reorders(e, g) /\ SortOf(e) = g[1 .. m + 1]
  BY <1>1, SortIs
<1>4. ASSUME NEW n \in 1 .. m
      PROVE  f[1 .. n] = InsertMark(f[1 .. n - 1], d[n])
  <2>1. 1 .. n \in SUBSET DOMAIN d /\ n \in Nat \ {0}
    BY <1>1
  <2> QED
    BY <1>2, <2>1, PrefixTop DEF Reorders
<1>5. ASSUME NEW n \in 1 .. m + 1
      PROVE  g[1 .. n] = InsertMark(g[1 .. n - 1], e[n])
  <2>1. 1 .. n \in SUBSET DOMAIN e /\ n \in Nat \ {0}
    BY <1>1
  <2> QED
    BY <1>3, <2>1, PrefixTop DEF Reorders
<1>6. 1 .. 0 = {} /\ f[{}] = <<>> /\ g[{}] = <<>>
  BY <1>2, <1>3 DEF Reorders
<1> DEFINE T == {n \in 0 .. m : f[1 .. n] = g[1 .. n]}
<1>7. 0 \in T
  BY <1>1, <1>6
<1>8. ASSUME NEW n \in 1 .. m, n - 1 \in T PROVE n \in T
  <2>1. f[1 .. n - 1] = g[1 .. n - 1]
    BY <1>8
  <2>2. n \in 1 .. m + 1 /\ n \in 0 .. m
    BY <1>1
  <2>3. f[1 .. n] = g[1 .. n]
    BY <1>1, <1>4, <1>5, <2>1, <2>2
  <2> QED
    BY <2>2, <2>3
<1> HIDE DEF T
<1>9. m \in T
  <2>1. \A n \in 0 .. m : n \in T
    BY <1>1, <1>7, <1>8, CountingUp
  <2> QED
    BY <1>1, <2>1
<1>10. f[1 .. m] = g[1 .. m]
  BY <1>9 DEF T
<1>11. g[1 .. m + 1] = InsertMark(g[1 .. m], c)
  <2>1. m + 1 \in 1 .. m + 1 /\ (m + 1) - 1 = m
    BY <1>1
  <2>2. g[1 .. m + 1] = InsertMark(g[1 .. (m + 1) - 1], e[m + 1])
    BY <1>5, <2>1
  <2> QED
    BY <1>1, <2>1, <2>2
<1> QED
  BY <1>2, <1>3, <1>10, <1>11 DEF e

LEMMA SortType ==
  ASSUME NEW d \in Seq(Chars)
  PROVE  SortOf(d) \in Seq(Chars)
<1> DEFINE T == {s \in Seq(Chars) : SortOf(s) \in Seq(Chars)}
<1>1. <<>> \in Seq(Chars) /\ SortOf(<<>>) = <<>>
  BY SortEmpty
<1>2. ASSUME NEW s \in Seq(Chars), NEW c \in Chars, s \in T PROVE Append(s, c) \in T
  <2>1. SortOf(Append(s, c)) = InsertMark(SortOf(s), c)
    BY SortNext
  <2>2. SortOf(s) \in Seq(Chars) /\ Append(s, c) \in Seq(Chars)
    BY <1>2
  <2> QED
    BY <2>1, <2>2, InsertMarkType
<1>3. <<>> \in T
  BY <1>1
<1> HIDE DEF T
<1>4. \A s \in Seq(Chars) : s \in T
  BY <1>2, <1>3, SeqInduction
<1> QED
  BY <1>4 DEF T

LEMMA NFDIs ==
  ASSUME NEW s \in Seq(Chars)
  PROVE  NFD(s) = SortOf(Mapped(Decomposition, s)) /\ NFD(s) \in Seq(Chars)
<1>1. NFD(s) = SortOf(Mapped(Decomposition, s))
  BY DEF NFD, SortOf, Mapped
<1>2. Decomposition \in [Chars -> Seq(Chars)]
  BY Tables
<1>3. Mapped(Decomposition, s) \in Seq(Chars)
  BY <1>2, MappedType
<1> QED
  BY <1>1, <1>3, SortType

Composings ==
  {a \in [out : Seq(Chars), starter : Nat, last : Nat] : a.starter <= Len(a.out)}

LEMMA ComposeType ==
  ASSUME NEW a \in Composings, NEW c \in Chars
  PROVE  ComposeNext(a, c) \in Composings
<1> DEFINE pair == IF a.starter = 0 THEN <<>> ELSE <<a.out[a.starter], c>>
           unblocked == Len(a.out) = a.starter \/ (0 < a.last /\ a.last < Ccc[c])
<1>1. /\ a \in [out : Seq(Chars), starter : Nat, last : Nat]
      /\ a.out \in Seq(Chars) /\ a.starter \in Nat /\ a.last \in Nat
      /\ a.starter <= Len(a.out) /\ Len(a.out) \in Nat /\ Ccc[c] \in Nat
  BY TableFacts DEF Composings
<1>2. CASE unblocked /\ pair \in DOMAIN Composition
  <2>1. Composition[pair] \in Chars
    BY <1>2, TableFacts
  <2> HIDE DEF pair
  <2>2. ComposeNext(a, c) = [a EXCEPT !.out[a.starter] = Composition[pair]]
    BY <1>2 DEF ComposeNext, pair
  <2>3. [a.out EXCEPT ![a.starter] = Composition[pair]] \in Seq(Chars)
    BY <1>1, <2>1, ReplaceOne
  <2>4. Len([a.out EXCEPT ![a.starter] = Composition[pair]]) = Len(a.out)
    BY <1>1, <2>1, ReplaceOne
  <2>5. /\ ComposeNext(a, c).out = [a.out EXCEPT ![a.starter] = Composition[pair]]
        /\ ComposeNext(a, c) \in [out : Seq(Chars), starter : Nat, last : Nat]
        /\ ComposeNext(a, c).starter = a.starter
    BY <1>1, <2>2, <2>3
  <2> QED
    BY <1>1, <2>4, <2>5 DEF Composings
<1>3. CASE ~ (unblocked /\ pair \in DOMAIN Composition)
  <2>1. ComposeNext(a, c) =
          [out |-> Append(a.out, c), last |-> Ccc[c],
           starter |-> IF Ccc[c] = 0 THEN Len(a.out) + 1 ELSE a.starter]
    BY <1>3 DEF ComposeNext
  <2>2. Append(a.out, c) \in Seq(Chars) /\ Len(Append(a.out, c)) = Len(a.out) + 1
    BY <1>1
  <2> QED
    BY <1>1, <2>1, <2>2 DEF Composings
<1> QED
  BY <1>2, <1>3

NoneComposed == [out |-> <<>>, starter |-> 0, last |-> 0]

Composes(s, f) ==
  f = [T \in SUBSET DOMAIN s |->
         IF T = {} THEN NoneComposed ELSE ComposeNext(f[T \ {Max(T)}], s[Max(T)])]

BuildOf(d) == FoldLeft(ComposeNext, NoneComposed, d)

LEMMA BuildIs ==
  ASSUME NEW d \in Seq(Chars)
  PROVE  \E f : Composes(d, f) /\ BuildOf(d) = f[DOMAIN d]
<1> DEFINE op == [p \in Composings \X Chars |-> ComposeNext(p[1], p[2])]
<1>2. \A a \in Composings, c \in Chars :
        op[<<a, c>>] = ComposeNext(a, c) /\ op[<<a, c>>] \in Composings
  BY ComposeType
<1>3. NoneComposed \in Composings
  BY DEF NoneComposed, Composings
<1> HIDE DEF op
<1>4. PICK f \in [SUBSET DOMAIN d -> Composings] : Folds(op, NoneComposed, d, f)
  BY <1>2, <1>3, FoldsExist
<1>5. Composes(d, f)
  <2>1. ASSUME NEW T \in SUBSET DOMAIN d, T # {}
        PROVE  f[T] = ComposeNext(f[T \ {Max(T)}], d[Max(T)])
    <3>1. f[T] = op[<<f[T \ {Max(T)}], d[Max(T)]>>]
      BY <1>4, <2>1 DEF Folds
    <3>2. DOMAIN d = 1 .. Len(d) /\ Len(d) \in Nat
      OBVIOUS
    <3>3. Max(T) \in DOMAIN d
      BY <2>1, <3>2, MaxIn
    <3>4. d[Max(T)] \in Chars /\ f[T \ {Max(T)}] \in Composings
      BY <1>4, <3>3
    <3> QED
      BY <1>2, <3>1, <3>4
  <2>2. f[{}] = NoneComposed
    BY <1>4 DEF Folds
  <2>3. f = [T \in SUBSET DOMAIN d |-> f[T]]
    BY <1>4
  <2> QED
    BY <2>1, <2>2, <2>3 DEF Composes
<1> DEFINE g == CHOOSE x : Composes(d, x)
<1>6. Composes(d, g)
  BY <1>5
<1>7. BuildOf(d) = g[DOMAIN d]
  BY DEF BuildOf, FoldLeft, MapThenFoldSet, Composes
<1> QED
  BY <1>6, <1>7

LEMMA BuildEmpty == BuildOf(<<>>) = NoneComposed
<1>1. <<>> \in Seq(Chars) /\ DOMAIN <<>> = {}
  OBVIOUS
<1>2. PICK f : Composes(<<>>, f) /\ BuildOf(<<>>) = f[DOMAIN <<>>]
  BY <1>1, BuildIs
<1> QED
  BY <1>1, <1>2 DEF Composes

LEMMA BuildNext ==
  ASSUME NEW d \in Seq(Chars), NEW c \in Chars
  PROVE  BuildOf(Append(d, c)) = ComposeNext(BuildOf(d), c)
<1> DEFINE e == Append(d, c)
           m == Len(d)
<1>1. /\ e \in Seq(Chars) /\ m \in Nat /\ DOMAIN d = 1 .. m /\ DOMAIN e = 1 .. m + 1
      /\ e[m + 1] = c /\ \A i \in 1 .. m : e[i] = d[i]
  BY Appended, LenProperties
<1> HIDE DEF e, m
<1>2. PICK f : Composes(d, f) /\ BuildOf(d) = f[1 .. m]
  BY <1>1, BuildIs
<1>3. PICK g : Composes(e, g) /\ BuildOf(e) = g[1 .. m + 1]
  BY <1>1, BuildIs
<1>4. ASSUME NEW n \in 1 .. m
      PROVE  f[1 .. n] = ComposeNext(f[1 .. n - 1], d[n])
  <2>1. 1 .. n \in SUBSET DOMAIN d /\ n \in Nat \ {0}
    BY <1>1
  <2> QED
    BY <1>2, <2>1, PrefixTop DEF Composes
<1>5. ASSUME NEW n \in 1 .. m + 1
      PROVE  g[1 .. n] = ComposeNext(g[1 .. n - 1], e[n])
  <2>1. 1 .. n \in SUBSET DOMAIN e /\ n \in Nat \ {0}
    BY <1>1
  <2> QED
    BY <1>3, <2>1, PrefixTop DEF Composes
<1>6. 1 .. 0 = {} /\ f[{}] = NoneComposed /\ g[{}] = NoneComposed
  BY <1>2, <1>3 DEF Composes
<1> DEFINE T == {n \in 0 .. m : f[1 .. n] = g[1 .. n]}
<1>7. 0 \in T
  BY <1>1, <1>6
<1>8. ASSUME NEW n \in 1 .. m, n - 1 \in T PROVE n \in T
  <2>1. f[1 .. n - 1] = g[1 .. n - 1]
    BY <1>8
  <2>2. n \in 1 .. m + 1 /\ n \in 0 .. m
    BY <1>1
  <2>3. f[1 .. n] = g[1 .. n]
    BY <1>1, <1>4, <1>5, <2>1, <2>2
  <2> QED
    BY <2>2, <2>3
<1> HIDE DEF T
<1>9. m \in T
  <2>1. \A n \in 0 .. m : n \in T
    BY <1>1, <1>7, <1>8, CountingUp
  <2> QED
    BY <1>1, <2>1
<1>10. f[1 .. m] = g[1 .. m]
  BY <1>9 DEF T
<1>11. g[1 .. m + 1] = ComposeNext(g[1 .. m], c)
  <2>1. m + 1 \in 1 .. m + 1 /\ (m + 1) - 1 = m
    BY <1>1
  <2>2. g[1 .. m + 1] = ComposeNext(g[1 .. (m + 1) - 1], e[m + 1])
    BY <1>5, <2>1
  <2> QED
    BY <1>1, <2>1, <2>2
<1> QED
  BY <1>2, <1>3, <1>10, <1>11 DEF e

LEMMA BuildType ==
  ASSUME NEW d \in Seq(Chars)
  PROVE  BuildOf(d) \in Composings
<1> DEFINE T == {s \in Seq(Chars) : BuildOf(s) \in Composings}
<1>0. NoneComposed \in Composings
  BY DEF NoneComposed, Composings
<1>1. <<>> \in Seq(Chars) /\ BuildOf(<<>>) = NoneComposed
  BY BuildEmpty
<1>2. ASSUME NEW s \in Seq(Chars), NEW c \in Chars, s \in T PROVE Append(s, c) \in T
  <2>1. BuildOf(Append(s, c)) = ComposeNext(BuildOf(s), c)
    BY BuildNext
  <2>2. BuildOf(s) \in Composings /\ Append(s, c) \in Seq(Chars)
    BY <1>2
  <2> QED
    BY <2>1, <2>2, ComposeType
<1>3. <<>> \in T
  BY <1>0, <1>1
<1> HIDE DEF T
<1>4. \A s \in Seq(Chars) : s \in T
  BY <1>2, <1>3, SeqInduction
<1> QED
  BY <1>4 DEF T

LEMMA NFCIs ==
  ASSUME NEW s \in Seq(Chars)
  PROVE  NFC(s) = BuildOf(NFD(s)).out /\ NFC(s) \in Seq(Chars)
<1>1. NFC(s) = BuildOf(NFD(s)).out
  BY DEF NFC, BuildOf, NoneComposed
<1>2. BuildOf(NFD(s)) \in Composings
  BY NFDIs, BuildType
<1> QED
  BY <1>1, <1>2 DEF Composings

LEMMA NormalizedType ==
  ASSUME NEW s \in Seq(Chars), NEW t \in Tokenizers
  PROVE  Normalized(s, t) \in Seq(Chars)
<1>1. ASSUME NEW x \in Seq(Chars) PROVE Unmarked(x) \in Seq(Chars)
  <2> DEFINE parts == [i \in DOMAIN x |-> IF x[i] \in Marks THEN <<>> ELSE <<x[i]>>]
  <2>1. \A i \in DOMAIN x : (IF x[i] \in Marks THEN <<>> ELSE <<x[i]>>) \in Seq(Chars)
    <3> TAKE i \in DOMAIN x
    <3>1. x[i] \in Chars
      OBVIOUS
    <3>2. <<x[i]>> \in Seq(Chars) /\ <<>> \in Seq(Chars)
      BY <3>1
    <3> QED
      BY <3>2
  <2>2. DOMAIN x = 1 .. Len(x) /\ Len(x) \in Nat
    OBVIOUS
  <2>3. parts \in Seq(Seq(Chars))
    BY <2>1, <2>2
  <2> HIDE DEF parts
  <2>4. FlattenSeq(parts) \in Seq(Chars)
    BY <2>3, FlattenType
  <2> QED
    BY <2>4 DEF Unmarked, parts
<1> DEFINE f == IF t.assume \/ t.form = "none" THEN s
                ELSE IF t.form = "nfc" THEN NFC(s) ELSE NFD(s)
<1>2. f \in Seq(Chars)
  BY NFCIs, NFDIs
<1>3. Normalized(s, t) = IF t.form = "strip" THEN Unmarked(f) ELSE f
  BY DEF Normalized
<1> HIDE DEF f
<1> QED
  BY <1>1, <1>2, <1>3

LEMMA FoldedType ==
  ASSUME NEW c \in Chars, NEW t \in Tokenizers
  PROVE  Folded(c, t) \in Seq(Chars) /\ Folded(c, t) # <<>>
<1>1. <<c>> \in Seq(Chars) /\ <<c>> # <<>>
  OBVIOUS
<1> QED
  BY <1>1, TableFacts DEF Folded

-----------------------------------------------------------------------------
(* Classes and runs, as one more code point is read.                       *)

Strong(s, i) ==
  {k \in 1 .. i : /\ Script[s[k]] # Common
                  /\ \A l \in k .. i : s[l] \notin Break}

CurrentClass(s) ==
  IF Len(s) = 0 THEN NoClass
  ELSE IF s[Len(s)] \in Break THEN NoClass ELSE ClassAt(s, Len(s))

LEMMA ClassIs ==
  ASSUME NEW s \in Seq(Chars), NEW i \in 1 .. Len(s)
  PROVE  /\ Strong(s, i) = {} => ClassAt(s, i) = Common
         /\ \A k \in Strong(s, i) :
              (\A l \in Strong(s, i) : l <= k) => ClassAt(s, i) = Script[s[k]]
         /\ Strong(s, i) # {} => \E k \in Strong(s, i) : \A l \in Strong(s, i) : l <= k
         /\ ClassAt(s, i) \in DOMAIN Sizes
<1> DEFINE S == Strong(s, i)
           m == CHOOSE k \in S : \A l \in S : l <= k
<1>1. ClassAt(s, i) = IF S = {} THEN Common ELSE Script[s[m]]
  BY DEF ClassAt, Strong
<1>2. S \in SUBSET (1 .. i) /\ i \in Nat /\ i <= Len(s) /\ Len(s) \in Nat
  BY DEF Strong
<1> HIDE DEF S
<1>3. S # {} => \E k \in S : \A l \in S : l <= k
  BY <1>2, MaxIn
<1>4. ASSUME NEW k \in S, \A l \in S : l <= k PROVE m = k
  <2>1. m \in S /\ \A l \in S : l <= m
    BY <1>4
  <2> HIDE DEF m
  <2>2. m <= k /\ k <= m
    BY <2>1, <1>4
  <2>3. m \in 1 .. i /\ k \in 1 .. i
    BY <2>1, <1>2
  <2> QED
    BY <2>2, <2>3
<1> HIDE DEF m
<1>5. S # {} => m \in S
  BY <1>3, <1>4
<1>6. \A k \in S : Script[s[k]] \in DOMAIN Sizes
  BY <1>2, TableFacts
<1>7. ClassAt(s, i) \in DOMAIN Sizes
  BY <1>1, <1>5, <1>6, TableFacts
<1> QED
  BY <1>1, <1>3, <1>4, <1>7 DEF S

LEMMA ClassKept ==
  ASSUME NEW s \in Seq(Chars), NEW c \in Chars, NEW i \in 1 .. Len(s)
  PROVE  ClassAt(Append(s, c), i) = ClassAt(s, i)
<1> DEFINE r == Append(s, c)
<1>1. r \in Seq(Chars) /\ Len(s) \in Nat /\ i \in 1 .. Len(r)
      /\ \A k \in 1 .. i : r[k] = s[k]
  BY Appended
<1> HIDE DEF r
<1>2. Strong(r, i) = Strong(s, i)
  <2>1. \A k \in 1 .. i : \A l \in k .. i : r[l] = s[l] /\ r[k] = s[k]
    BY <1>1
  <2> QED
    BY <2>1 DEF Strong
<1>3. CASE Strong(s, i) = {}
  BY <1>1, <1>2, <1>3, ClassIs DEF r
<1>4. CASE Strong(s, i) # {}
  <2>1. PICK k \in Strong(s, i) : \A l \in Strong(s, i) : l <= k
    BY <1>4, ClassIs
  <2>2. ClassAt(s, i) = Script[s[k]]
    BY <2>1, ClassIs
  <2>3. ClassAt(r, i) = Script[r[k]]
    BY <1>1, <1>2, <2>1, ClassIs
  <2>4. r[k] = s[k]
    BY <1>1, <2>1 DEF Strong
  <2> QED
    BY <2>2, <2>3, <2>4 DEF r
<1> QED
  BY <1>3, <1>4

(* script_class_of tells the class of the next code point from that of the *)
(* run it may continue.                                                    *)
LEMMA ClassNext ==
  ASSUME NEW s \in Seq(Chars), NEW c \in Chars, c \notin Break
  PROVE  /\ ClassAt(Append(s, c), Len(s) + 1) = ScriptClassOf(c, CurrentClass(s))
         /\ ClassAt(Append(s, c), Len(s) + 1) \in DOMAIN Sizes
<1> DEFINE r == Append(s, c)
           n == Len(s) + 1
<1>1. r \in Seq(Chars) /\ Len(s) \in Nat /\ n \in 1 .. Len(r) /\ n \in Nat /\ r[n] = c
      /\ \A k \in 1 .. Len(s) : r[k] = s[k]
  BY Appended
<1> HIDE DEF r
<1>2. CASE Script[c] # Common
  <2>1. n \in Strong(r, n)
    <3>1. \A l \in n .. n : r[l] \notin Break
      BY <1>1
    <3> QED
      BY <1>1, <1>2, <3>1 DEF Strong
  <2>2. \A l \in Strong(r, n) : l <= n
    BY <1>1 DEF Strong
  <2>3. ClassAt(r, n) = Script[c]
    BY <1>1, <2>1, <2>2, ClassIs
  <2> QED
    BY <1>2, <2>3, TableFacts DEF ScriptClassOf, r
<1>3. CASE Script[c] = Common
  <2>1. n \notin Strong(r, n)
    BY <1>1, <1>3 DEF Strong
  <2>2. CASE CurrentClass(s) = NoClass
    <3>1. Len(s) = 0 \/ s[Len(s)] \in Break
      <4>1. Len(s) # 0 => ClassAt(s, Len(s)) # NoClass
        BY <1>1, ClassIs, TableFacts
      <4> QED
        BY <2>2, <4>1 DEF CurrentClass
    <3>2. Strong(r, n) = {}
      <4> SUFFICES ASSUME NEW k \in Strong(r, n) PROVE FALSE
        OBVIOUS
      <4>1. k \in 1 .. Len(s) /\ \A l \in k .. n : r[l] \notin Break
        BY <1>1, <2>1 DEF Strong
      <4>2. Len(s) \in k .. n /\ r[Len(s)] = s[Len(s)] /\ Len(s) # 0
        BY <1>1, <4>1
      <4> QED
        BY <3>1, <4>1, <4>2
    <3>3. ClassAt(r, n) = Common
      BY <1>1, <3>2, ClassIs
    <3> QED
      BY <1>3, <2>2, <3>3, TableFacts DEF ScriptClassOf, r
  <2>3. CASE CurrentClass(s) # NoClass
    <3>1. Len(s) \in 1 .. Len(s) /\ s[Len(s)] \notin Break
          /\ CurrentClass(s) = ClassAt(s, Len(s))
      BY <1>1, <2>3 DEF CurrentClass
    <3>2. Strong(r, n) = Strong(s, Len(s))
      <4>1. ASSUME NEW k \in Strong(r, n) PROVE k \in Strong(s, Len(s))
        <5>1. k \in 1 .. Len(s) /\ Script[r[k]] # Common /\ \A l \in k .. n : r[l] \notin Break
          BY <1>1, <2>1 DEF Strong
        <5>2. \A l \in k .. Len(s) : s[l] \notin Break
          BY <1>1, <5>1
        <5> QED
          BY <1>1, <5>1, <5>2 DEF Strong
      <4>2. ASSUME NEW k \in Strong(s, Len(s)) PROVE k \in Strong(r, n)
        <5>1. k \in 1 .. Len(s) /\ Script[s[k]] # Common /\ \A l \in k .. Len(s) : s[l] \notin Break
          BY DEF Strong
        <5>2. \A l \in k .. n : r[l] \notin Break
          <6> TAKE l \in k .. n
          <6>1. l = n \/ l \in k .. Len(s)
            BY <1>1, <5>1
          <6> QED
            BY <1>1, <5>1, <6>1
        <5> QED
          BY <1>1, <5>1, <5>2 DEF Strong
      <4> QED
        BY <4>1, <4>2
    <3>3. ClassAt(r, n) = ClassAt(s, Len(s))
      <4>1. CASE Strong(s, Len(s)) = {}
        BY <1>1, <3>1, <3>2, <4>1, ClassIs
      <4>2. CASE Strong(s, Len(s)) # {}
        <5>1. PICK k \in Strong(s, Len(s)) : \A l \in Strong(s, Len(s)) : l <= k
          BY <3>1, <4>2, ClassIs
        <5>2. ClassAt(s, Len(s)) = Script[s[k]]
          BY <3>1, <5>1, ClassIs
        <5>3. ClassAt(r, n) = Script[r[k]]
          BY <1>1, <3>2, <5>1, ClassIs
        <5>4. r[k] = s[k]
          BY <1>1, <5>1 DEF Strong
        <5> QED
          BY <5>2, <5>3, <5>4
      <4> QED
        BY <4>1, <4>2
    <3>4. ClassAt(r, n) \in DOMAIN Sizes
      BY <1>1, ClassIs
    <3> QED
      BY <1>3, <2>3, <3>1, <3>3, <3>4 DEF ScriptClassOf, r
  <2> QED
    BY <2>2, <2>3
<1> QED
  BY <1>2, <1>3

(* A run of s that ends at j stays one.                                    *)
LEMMA RunKept ==
  ASSUME NEW s \in Seq(Chars), NEW c \in Chars, NEW i \in 1 .. Len(s), NEW j \in i .. Len(s)
  PROVE  OneRun(Append(s, c), i, j) <=> OneRun(s, i, j)
<1> DEFINE r == Append(s, c)
<1>1. Len(s) \in Nat /\ \A k \in 1 .. Len(s) : r[k] = s[k]
  BY Appended
<1>2. \A k \in 1 .. Len(s) : ClassAt(r, k) = ClassAt(s, k)
  BY ClassKept
<1> HIDE DEF r
<1>3. \A k \in i .. j : r[k] = s[k] /\ ClassAt(r, k) = ClassAt(s, k)
  BY <1>1, <1>2
<1>4. ClassAt(r, i) = ClassAt(s, i)
  BY <1>1, <1>2
<1>5. OneRun(r, i, j) <=> OneRun(s, i, j)
  BY <1>3, <1>4 DEF OneRun
<1> QED
  BY <1>5 DEF r

(* The next code point prolongs the runs it has the class of, and breaks   *)
(* all others.                                                             *)
LEMMA RunNext ==
  ASSUME NEW s \in Seq(Chars), NEW c \in Chars
  PROVE  /\ OneRun(Append(s, c), Len(s) + 1, Len(s) + 1) <=> c \notin Break
         /\ \A i \in 1 .. Len(s) :
              OneRun(Append(s, c), i, Len(s) + 1)
                <=> /\ c \notin Break /\ OneRun(s, i, Len(s))
                    /\ ScriptClassOf(c, CurrentClass(s)) = CurrentClass(s)
<1> DEFINE r == Append(s, c)
           n == Len(s) + 1
<1>1. r \in Seq(Chars) /\ Len(s) \in Nat /\ n \in Nat /\ r[n] = c
      /\ \A k \in 1 .. Len(s) : r[k] = s[k]
  BY Appended
<1>2. c \notin Break => ClassAt(r, n) = ScriptClassOf(c, CurrentClass(s))
  BY ClassNext
<1>3. \A i \in 1 .. Len(s) : OneRun(r, i, Len(s)) <=> OneRun(s, i, Len(s))
  <2> TAKE i \in 1 .. Len(s)
  <2>1. Len(s) \in i .. Len(s)
    BY <1>1
  <2> QED
    BY <2>1, RunKept
<1>4. \A i \in 1 .. Len(s) : ClassAt(r, i) = ClassAt(s, i)
  BY ClassKept
<1> HIDE DEF r
<1>5. OneRun(r, n, n) <=> c \notin Break
  BY <1>1 DEF OneRun
<1>6. ASSUME NEW i \in 1 .. Len(s)
      PROVE  OneRun(r, i, n)
               <=> /\ c \notin Break /\ OneRun(s, i, Len(s))
                   /\ ScriptClassOf(c, CurrentClass(s)) = CurrentClass(s)
  <2>1. \A k \in i .. n : k = n \/ k \in i .. Len(s)
    BY <1>1
  <2>2. n \in i .. n /\ \A k \in i .. Len(s) : k \in i .. n
    BY <1>1
  <2>3. OneRun(r, i, n) <=> /\ c \notin Break /\ ClassAt(r, n) = ClassAt(r, i)
                            /\ OneRun(r, i, Len(s))
    BY <1>1, <2>1, <2>2 DEF OneRun
  <2>4. OneRun(s, i, Len(s)) => CurrentClass(s) = ClassAt(s, i)
    <3>1. Len(s) \in i .. Len(s) /\ Len(s) # 0
      BY <1>1
    <3> QED
      BY <3>1 DEF OneRun, CurrentClass
  <2> QED
    BY <1>2, <1>3, <1>4, <2>3, <2>4
<1> QED
  BY <1>5, <1>6 DEF r

-----------------------------------------------------------------------------
(* The window holds the end of the current run, up to its width.           *)

InRun(s, i, j, t) == t.width > 0 \/ OneRun(s, i, j)

Holds(s, w, k, t) ==
  /\ w \in Seq(Chars) /\ Len(w) <= k /\ Len(w) <= Len(s)
  /\ \A i \in 1 .. Len(w) : w[i] = s[Len(s) - Len(w) + i]
  /\ \A m \in 1 .. k : m <= Len(w) <=> m <= Len(s) /\ InRun(s, Len(s) - m + 1, Len(s), t)

LEMMA SlideIs ==
  ASSUME NEW C, NEW w \in Seq(C), NEW k \in Nat \ {0}, Len(w) <= k, NEW c \in C
  PROVE  /\ Slide(w, k, c) \in Seq(C) /\ Len(w) \in Nat
         /\ Len(Slide(w, k, c)) = IF Len(w) < k THEN Len(w) + 1 ELSE k
         /\ \A i \in 1 .. Len(Slide(w, k, c)) - 1 :
              Slide(w, k, c)[i] = w[Len(w) - Len(Slide(w, k, c)) + 1 + i]
         /\ Slide(w, k, c)[Len(Slide(w, k, c))] = c
<1>1. Len(w) \in Nat
  OBVIOUS
<1>2. CASE Len(w) < k
  BY <1>1, <1>2 DEF Slide
<1>3. CASE ~ (Len(w) < k)
  <2>1. Len(w) = k /\ w # <<>>
    BY <1>1, <1>3
  <2>2. Tail(w) \in Seq(C) /\ Len(Tail(w)) = k - 1 /\ \A i \in 1 .. k - 1 : Tail(w)[i] = w[i + 1]
    BY <2>1
  <2>3. Slide(w, k, c) = Append(Tail(w), c)
    BY <1>3 DEF Slide
  <2> HIDE DEF Slide
  <2> QED
    BY <1>1, <2>1, <2>2, <2>3
<1> QED
  BY <1>2, <1>3

(* One more code point of the same run.                                    *)
LEMMA SlideOn ==
  ASSUME NEW s \in Seq(Chars), NEW c \in Chars, NEW k \in Nat \ {0}, NEW w,
         NEW t \in Tokenizers, Holds(s, w, k, t),
         \A i \in 1 .. Len(s) :
           InRun(Append(s, c), i, Len(s) + 1, t) <=> InRun(s, i, Len(s), t),
         InRun(Append(s, c), Len(s) + 1, Len(s) + 1, t)
  PROVE  Holds(Append(s, c), Slide(w, k, c), k, t)
<1> DEFINE r == Append(s, c)
           v == Slide(w, k, c)
<1>1. w \in Seq(Chars) /\ Len(w) <= k /\ Len(w) <= Len(s) /\ Len(w) \in Nat
  BY DEF Holds
<1>2. /\ v \in Seq(Chars) /\ Len(v) = IF Len(w) < k THEN Len(w) + 1 ELSE k
      /\ \A i \in 1 .. Len(v) - 1 : v[i] = w[Len(w) - Len(v) + 1 + i]
      /\ v[Len(v)] = c
  BY <1>1, SlideIs
<1>3. /\ r \in Seq(Chars) /\ Len(r) = Len(s) + 1 /\ Len(s) \in Nat
      /\ \A i \in 1 .. Len(s) : r[i] = s[i]
      /\ r[Len(s) + 1] = c
  BY Appended
<1> HIDE DEF r, v
<1>4. Len(v) \in Nat \ {0} /\ Len(v) <= k /\ Len(v) <= Len(r)
  BY <1>1, <1>2, <1>3
<1>5. ASSUME NEW i \in 1 .. Len(v) PROVE v[i] = r[Len(r) - Len(v) + i]
  <2>1. CASE i = Len(v)
    <3> DEFINE j == Len(r) - Len(v) + i
    <3>1. j = Len(s) + 1
      BY <1>3, <1>4, <2>1
    <3>2. r[Len(s) + 1] = c
      BY <1>3
    <3>4. v[i] = c
      BY <1>2, <2>1
    <3> HIDE DEF j
    <3>3. r[j] = c
      BY <3>1, <3>2
    <3> QED
      BY <3>3, <3>4 DEF j
  <2>2. CASE i # Len(v)
    <3> DEFINE j == Len(w) - Len(v) + 1 + i
    <3>1. i \in 1 .. Len(v) - 1 /\ j \in 1 .. Len(w)
      BY <1>1, <1>2, <1>4, <2>2
    <3>2. v[i] = w[j] /\ w[j] = s[Len(s) - Len(w) + j]
      BY <1>2, <3>1 DEF Holds
    <3>3. Len(s) - Len(w) + j = Len(r) - Len(v) + i /\ Len(s) - Len(w) + j \in 1 .. Len(s)
      BY <1>1, <1>3, <1>4, <3>1
    <3> HIDE DEF j
    <3>4. s[Len(s) - Len(w) + j] = r[Len(s) - Len(w) + j]
      BY <1>3, <3>3
    <3> QED
      BY <3>2, <3>3, <3>4
  <2> QED
    BY <2>1, <2>2
<1>6. ASSUME NEW m \in 1 .. k
      PROVE  m <= Len(v) <=> m <= Len(r) /\ InRun(r, Len(r) - m + 1, Len(r), t)
  <2>1. CASE m = 1
    <3>1. Len(r) - m + 1 = Len(s) + 1
      BY <1>3, <2>1
    <3> QED
      BY <1>3, <1>4, <2>1, <3>1 DEF r
  <2>2. CASE m # 1
    <3>1. m - 1 \in 1 .. k /\ (m <= Len(v) <=> m - 1 <= Len(w)) /\ (m <= Len(r) <=> m - 1 <= Len(s))
      BY <1>1, <1>2, <1>3, <2>2
    <3>2. m - 1 <= Len(w) <=> m - 1 <= Len(s) /\ InRun(s, Len(s) - (m - 1) + 1, Len(s), t)
      BY <3>1 DEF Holds
    <3>3. Len(r) - m + 1 = Len(s) - (m - 1) + 1
      BY <1>3
    <3>4. m - 1 <= Len(s) => Len(s) - (m - 1) + 1 \in 1 .. Len(s)
      BY <1>3, <3>1
    <3>5. m - 1 <= Len(s) =>
            (InRun(r, Len(r) - m + 1, Len(r), t) <=> InRun(s, Len(s) - (m - 1) + 1, Len(s), t))
      BY <1>3, <3>3, <3>4 DEF r
    <3> QED
      BY <3>1, <3>2, <3>5
  <2> QED
    BY <2>1, <2>2
<1>7. Holds(r, v, k, t)
  BY <1>2, <1>4, <1>5, <1>6 DEF Holds
<1> QED
  BY <1>7 DEF r, v

(* The first code point of a run.                                          *)
LEMMA SlideAnew ==
  ASSUME NEW s \in Seq(Chars), NEW c \in Chars, NEW k \in Nat \ {0}, NEW t \in Tokenizers,
         \A i \in 1 .. Len(s) : ~ InRun(Append(s, c), i, Len(s) + 1, t),
         InRun(Append(s, c), Len(s) + 1, Len(s) + 1, t)
  PROVE  Holds(Append(s, c), Slide(<<>>, k, c), k, t)
<1> DEFINE r == Append(s, c)
           v == Slide(<<>>, k, c)
<1>1. v = <<c>>
  BY DEF Slide
<1> HIDE DEF v
<1>2. v \in Seq(Chars) /\ Len(v) = 1 /\ v[1] = c
  BY <1>1
<1>3. r \in Seq(Chars) /\ Len(r) = Len(s) + 1 /\ Len(s) \in Nat /\ r[Len(s) + 1] = c
  BY Appended
<1> HIDE DEF r
<1>4. ASSUME NEW m \in 1 .. k
      PROVE  m <= Len(v) <=> m <= Len(r) /\ InRun(r, Len(r) - m + 1, Len(r), t)
  <2>1. CASE m = 1
    <3>1. Len(r) - m + 1 = Len(s) + 1
      BY <1>3, <2>1
    <3> QED
      BY <1>2, <1>3, <2>1, <3>1 DEF r
  <2>2. CASE m # 1
    <3>1. m <= Len(r) => Len(r) - m + 1 \in 1 .. Len(s)
      BY <1>3, <2>2
    <3>2. ~ (m <= Len(v))
      BY <1>2, <2>2
    <3> QED
      BY <1>3, <3>1, <3>2 DEF r
  <2> QED
    BY <2>1, <2>2
<1>5. Holds(r, v, k, t)
  BY <1>2, <1>3, <1>4 DEF Holds
<1> QED
  BY <1>5 DEF r, v

-----------------------------------------------------------------------------
(* The grams that one more code point completes.                           *)

InGrams(s, t, p) ==
  /\ p[1] <= p[2]
  /\ InRun(s, p[1], p[2], t)
  /\ p[2] - p[1] + 1 \in Widths(s, p[1], t)

LEMMA GramsAre ==
  ASSUME NEW s, NEW t
  PROVE  GramsIn(s, t) = {p \in (DOMAIN s) \X (DOMAIN s) : InGrams(s, t, p)}
BY DEF GramsIn, InGrams, InRun

NewGrams(s, t) == {p \in GramsIn(s, t) : p[2] = Len(s)}

LEMMA GramsKept ==
  ASSUME NEW s \in Seq(Chars), NEW c \in Chars, NEW t \in Tokenizers
  PROVE  GramsIn(Append(s, c), t) = GramsIn(s, t) \cup NewGrams(Append(s, c), t)
<1> DEFINE r == Append(s, c)
<1>1. r \in Seq(Chars) /\ Len(r) = Len(s) + 1 /\ Len(s) \in Nat
      /\ DOMAIN r = 1 .. Len(r) /\ DOMAIN s = 1 .. Len(s)
  BY Appended
<1>2. ASSUME NEW i \in 1 .. Len(s), NEW j \in 1 .. Len(s), i <= j
      PROVE  InGrams(r, t, <<i, j>>) <=> InGrams(s, t, <<i, j>>)
  <2>1. j \in i .. Len(s)
    BY <1>2
  <2>2. OneRun(r, i, j) <=> OneRun(s, i, j)
    BY <2>1, RunKept
  <2>3. ClassAt(r, i) = ClassAt(s, i)
    BY ClassKept
  <2> QED
    BY <2>2, <2>3 DEF InGrams, InRun, Widths
<1> HIDE DEF r
<1>3. ASSUME NEW p \in GramsIn(r, t), p \notin NewGrams(r, t) PROVE p \in GramsIn(s, t)
  <2>1. p \in (1 .. Len(r)) \X (1 .. Len(r)) /\ InGrams(r, t, p) /\ p[2] # Len(r)
    BY <1>1, <1>3, GramsAre DEF NewGrams
  <2>2. p[1] \in 1 .. Len(s) /\ p[2] \in 1 .. Len(s) /\ p[1] <= p[2] /\ p = <<p[1], p[2]>>
    BY <1>1, <2>1 DEF InGrams
  <2>3. InGrams(s, t, p)
    BY <1>2, <2>1, <2>2
  <2> QED
    BY <1>1, <2>2, <2>3, GramsAre
<1>4. ASSUME NEW p \in GramsIn(s, t) PROVE p \in GramsIn(r, t)
  <2>1. p \in (1 .. Len(s)) \X (1 .. Len(s)) /\ InGrams(s, t, p)
    BY <1>1, GramsAre
  <2>2. p[1] \in 1 .. Len(s) /\ p[2] \in 1 .. Len(s) /\ p[1] <= p[2] /\ p = <<p[1], p[2]>>
    BY <2>1 DEF InGrams
  <2>3. InGrams(r, t, p)
    BY <1>2, <2>1, <2>2
  <2>4. p[1] \in DOMAIN r /\ p[2] \in DOMAIN r
    BY <1>1, <2>2
  <2> QED
    BY <2>2, <2>3, <2>4, GramsAre
<1>5. NewGrams(r, t) \in SUBSET GramsIn(r, t)
  BY DEF NewGrams
<1> QED
  BY <1>3, <1>4, <1>5 DEF r

(* None over a break.                                                      *)
LEMMA BreakCompletesNone ==
  ASSUME NEW s \in Seq(Chars), NEW c \in Chars, c \in Break,
         NEW t \in Tokenizers, t.width = 0
  PROVE  NewGrams(Append(s, c), t) = {}
<1> DEFINE r == Append(s, c)
<1>1. r \in Seq(Chars) /\ Len(r) = Len(s) + 1 /\ Len(s) \in Nat /\ DOMAIN r = 1 .. Len(r)
      /\ r[Len(s) + 1] = c
  BY Appended
<1> HIDE DEF r
<1> SUFFICES ASSUME NEW p \in NewGrams(r, t) PROVE FALSE
  BY DEF r
<1>2. p \in (1 .. Len(r)) \X (1 .. Len(r)) /\ p[2] = Len(r) /\ p[1] <= p[2]
      /\ OneRun(r, p[1], p[2])
  BY <1>1, GramsAre DEF NewGrams, InGrams, InRun
<1>3. p[2] \in p[1] .. p[2] /\ r[p[2]] = c
  BY <1>1, <1>2
<1> QED
  BY <1>2, <1>3 DEF OneRun

(* Otherwise as many as there are widths the window has reached.           *)
Reached(s, w, k, t) ==
  {<<Len(s) - m + 1, Len(s)>> :
     m \in {m \in {k} \cup (IF t.width > 0 THEN {} ELSE {k - 1} \ {0}) : m <= Len(w)}}

LEMMA WindowCompletes ==
  ASSUME NEW s \in Seq(Chars), NEW t \in Tokenizers, NEW w, NEW k \in Nat \ {0},
         Holds(s, w, k, t), Len(s) # 0, t.width = 0 => s[Len(s)] \notin Break,
         k = IF t.width > 0 THEN t.width ELSE Sizes[ClassAt(s, Len(s))]
  PROVE  NewGrams(s, t) = Reached(s, w, k, t)
<1> DEFINE M == {m \in {k} \cup (IF t.width > 0 THEN {} ELSE {k - 1} \ {0}) : m <= Len(w)}
           n == Len(s)
<1>0. t.width \in 0 .. 3
  BY TokenizersAssumption DEF Settings
<1>1. w \in Seq(Chars) /\ Len(w) <= k /\ Len(w) <= n /\ Len(w) \in Nat /\ n \in Nat \ {0}
      /\ DOMAIN s = 1 .. n
  BY DEF Holds
<1>2. ASSUME NEW i \in 1 .. n, InRun(s, i, n, t)
      PROVE  Widths(s, i, t) = {k} \cup (IF t.width > 0 THEN {} ELSE {k - 1} \ {0})
  <2>1. CASE t.width > 0
    BY <2>1 DEF Widths
  <2>2. CASE ~ (t.width > 0)
    <3>1. n \in i .. n
      BY <1>1
    <3>2. ClassAt(s, i) = ClassAt(s, n)
      BY <1>2, <2>2, <3>1 DEF InRun, OneRun
    <3>3. k = Sizes[ClassAt(s, i)]
      BY <2>2, <3>2
    <3>4. Widths(s, i, t) = {Sizes[ClassAt(s, i)], Sizes[ClassAt(s, i)] - 1} \ {0}
      BY <2>2 DEF Widths
    <3>5. Widths(s, i, t) = {k, k - 1} \ {0}
      BY <3>3, <3>4
    <3> QED
      BY <2>2, <3>5
  <2> QED
    BY <2>1, <2>2
<1>3. ASSUME NEW p \in NewGrams(s, t)
      PROVE  \E m \in M : p = <<n - m + 1, n>>
  <2>1. p \in (1 .. n) \X (1 .. n) /\ p[2] = n /\ InGrams(s, t, p)
    BY <1>1, GramsAre DEF NewGrams
  <2> DEFINE m == n - p[1] + 1
  <2>2. p[1] \in 1 .. n /\ InRun(s, p[1], n, t) /\ m \in Widths(s, p[1], t) /\ p = <<p[1], n>>
    BY <2>1 DEF InGrams
  <2>3. m \in {k} \cup (IF t.width > 0 THEN {} ELSE {k - 1} \ {0})
    BY <1>2, <2>2
  <2>4. m \in 1 .. k /\ m <= n /\ n - m + 1 = p[1]
    BY <1>1, <2>2, <2>3
  <2> HIDE DEF m
  <2>5. m <= Len(w)
    BY <2>2, <2>4 DEF Holds
  <2>6. m \in M
    BY <2>3, <2>5
  <2> QED
    BY <2>2, <2>4, <2>6
<1>4. ASSUME NEW m \in M PROVE <<n - m + 1, n>> \in NewGrams(s, t)
  <2>1. m \in {k} \cup (IF t.width > 0 THEN {} ELSE {k - 1} \ {0}) /\ m <= Len(w)
    OBVIOUS
  <2>2. m \in 1 .. k
    BY <1>1, <2>1
  <2>3. m <= n /\ InRun(s, n - m + 1, n, t)
    BY <2>1, <2>2 DEF Holds
  <2>4. n - m + 1 \in 1 .. n /\ n - (n - m + 1) + 1 = m /\ n - m + 1 <= n /\ n \in 1 .. n
    BY <1>1, <2>2, <2>3
  <2>5. m \in Widths(s, n - m + 1, t)
    BY <1>2, <2>1, <2>3, <2>4
  <2> DEFINE p == <<n - m + 1, n>>
  <2>6. p[1] = n - m + 1 /\ p[2] = n
    OBVIOUS
  <2>7. InGrams(s, t, p)
    BY <2>3, <2>4, <2>5, <2>6 DEF InGrams
  <2>8. p \in (DOMAIN s) \X (DOMAIN s)
    BY <1>1, <2>4
  <2> HIDE DEF p
  <2>9. p \in NewGrams(s, t)
    BY <2>6, <2>7, <2>8, GramsAre DEF NewGrams
  <2> QED
    BY <2>9 DEF p
<1> HIDE DEF M
<1>5. NewGrams(s, t) = {<<n - m + 1, n>> : m \in M}
  BY <1>3, <1>4
<1> QED
  BY <1>5 DEF M, Reached

-----------------------------------------------------------------------------
(* Words.                                                                  *)

LEMMA WordKept ==
  ASSUME NEW s \in Seq(Chars), NEW c \in Chars, NEW t, NEW i \in 0 .. Len(s)
  PROVE  WordAt(Append(s, c), i, t) = WordAt(s, i, t)
<1>1. \A k \in 1 .. i : Append(s, c)[k] = s[k]
  BY Appended
<1>2. {k \in 1 .. i : Append(s, c)[k] \in Break} = {k \in 1 .. i : s[k] \in Break}
  BY <1>1
<1> QED
  BY <1>2, Zenon DEF WordAt

LEMMA WordNext ==
  ASSUME NEW s \in Seq(Chars), NEW c \in Chars, NEW t, t.width = 0
  PROVE  /\ WordAt(s, Len(s), t) \in Nat
         /\ WordAt(Append(s, c), Len(s) + 1, t)
              = IF c \in Break THEN WordAt(s, Len(s), t) + 1 ELSE WordAt(s, Len(s), t)
<1> DEFINE r == Append(s, c)
           n == Len(s)
           A == {k \in 1 .. n : s[k] \in Break}
           B == {k \in 1 .. n + 1 : r[k] \in Break}
<1>1. n \in Nat /\ r[n + 1] = c /\ \A k \in 1 .. n : r[k] = s[k]
  BY Appended
<1>2. IsFiniteSet(1 .. n)
  BY <1>1, FS_Interval
<1>3. IsFiniteSet(A) /\ Cardinality(A) \in Nat
  <2>1. A \in SUBSET (1 .. n)
    OBVIOUS
  <2> QED
    BY <1>2, <2>1, FS_Subset, FS_CardinalityType
<1>4. n + 1 \notin A
  BY <1>1
<1>5. B = IF c \in Break THEN A \cup {n + 1} ELSE A
  <2>1. \A k \in 1 .. n + 1 : k = n + 1 \/ k \in 1 .. n
    BY <1>1
  <2>2. n + 1 \in 1 .. n + 1 /\ \A k \in 1 .. n : k \in 1 .. n + 1
    BY <1>1
  <2> HIDE DEF n, r
  <2> QED
    BY <1>1, <2>1, <2>2
<1>6. WordAt(s, n, t) = Cardinality(A) /\ WordAt(r, n + 1, t) = Cardinality(B)
  BY DEF WordAt
<1> HIDE DEF A, B, r
<1>7. Cardinality(A \cup {n + 1}) = Cardinality(A) + 1
  BY <1>3, <1>4, FS_AddElement
<1> QED
  BY <1>3, <1>5, <1>6, <1>7 DEF r

LEMMA WordOfRun ==
  ASSUME NEW s \in Seq(Chars), NEW t, NEW i \in 1 .. Len(s), InRun(s, i, Len(s), t)
  PROVE  WordAt(s, i, t) = WordAt(s, Len(s), t)
<1>1. CASE t.width > 0
  BY <1>1 DEF WordAt
<1>2. CASE ~ (t.width > 0)
  <2>1. \A k \in i .. Len(s) : s[k] \notin Break
    BY <1>2 DEF InRun, OneRun
  <2>2. {k \in 1 .. i : s[k] \in Break} = {k \in 1 .. Len(s) : s[k] \in Break}
    BY <2>1
  <2> QED
    BY <1>2, <2>2, Zenon DEF WordAt
<1> QED
  BY <1>1, <1>2

-----------------------------------------------------------------------------
(* The stream lists the grams of what was read.                            *)

LEMMA SubSeqIs ==
  ASSUME NEW C, NEW s \in Seq(C), NEW a \in 1 .. Len(s), NEW b \in a .. Len(s)
  PROVE  /\ SubSeq(s, a, b) = [i \in 1 .. b - a + 1 |-> s[a + i - 1]]
         /\ SubSeq(s, a, b) \in Seq(C) /\ Len(SubSeq(s, a, b)) = b - a + 1
<1>1. Len(s) \in Nat /\ DOMAIN s = 1 .. Len(s) /\ a \in Nat /\ b \in Nat /\ a <= b
  OBVIOUS
<1>2. SubSeq(s, a, b) \in Seq(C) /\ Len(SubSeq(s, a, b)) = b - a + 1
  BY <1>1
<1>3. \A i \in 1 .. b - a + 1 : SubSeq(s, a, b)[i] = s[a + i - 1]
  BY <1>1
<1>4. SubSeq(s, a, b) = [i \in 1 .. b - a + 1 |-> SubSeq(s, a, b)[i]]
  BY <1>2
<1> QED
  BY <1>2, <1>3, <1>4

UpTo(G, p) == {q \in G : q[2] < p[2] \/ (q[2] = p[2] /\ q[1] <= p[1])}

Tagged(s, p, t) == <<SubSeq(s, p[1], p[2]), WordAt(s, p[1], t)>>

Lists(o, G, s, t) ==
  /\ IsFiniteSet(G) /\ G \in SUBSET ((1 .. Len(s)) \X (1 .. Len(s)))
  /\ \A p \in G : p[1] <= p[2]
  /\ DOMAIN o = 1 .. Len(o) /\ Len(o) = Cardinality(G)
  /\ \A p \in G : o[Cardinality(UpTo(G, p))] = Tagged(s, p, t)

LEMMA ListsKept ==
  ASSUME NEW s \in Seq(Chars), NEW c \in Chars, NEW t, NEW o, NEW G, Lists(o, G, s, t)
  PROVE  Lists(o, G, Append(s, c), t)
<1>1. Append(s, c) \in Seq(Chars) /\ Len(Append(s, c)) = Len(s) + 1 /\ Len(s) \in Nat
      /\ \A i \in 1 .. Len(s) : Append(s, c)[i] = s[i]
  BY Appended
<1>2. ASSUME NEW p \in G PROVE Tagged(Append(s, c), p, t) = Tagged(s, p, t)
  <2>1. p[1] \in 1 .. Len(s) /\ p[2] \in 1 .. Len(s) /\ p[1] <= p[2] /\ p[1] \in 0 .. Len(s)
    BY DEF Lists
  <2>2. WordAt(Append(s, c), p[1], t) = WordAt(s, p[1], t)
    BY <2>1, WordKept
  <2>3. SubSeq(Append(s, c), p[1], p[2]) = SubSeq(s, p[1], p[2])
    <3>1. \A i \in 1 .. p[2] - p[1] + 1 : Append(s, c)[p[1] + i - 1] = s[p[1] + i - 1]
      BY <1>1, <2>1
    <3>2. [i \in 1 .. p[2] - p[1] + 1 |-> Append(s, c)[p[1] + i - 1]]
            = [i \in 1 .. p[2] - p[1] + 1 |-> s[p[1] + i - 1]]
      BY <3>1
    <3>3. p[2] \in p[1] .. Len(s) /\ p[2] \in p[1] .. Len(Append(s, c))
          /\ p[1] \in 1 .. Len(Append(s, c))
      BY <1>1, <2>1
    <3> QED
      BY <1>1, <2>1, <3>2, <3>3, SubSeqIs
  <2> QED
    BY <2>2, <2>3 DEF Tagged
<1>3. G \in SUBSET ((1 .. Len(s) + 1) \X (1 .. Len(s) + 1))
  BY <1>1 DEF Lists
<1> QED
  BY <1>1, <1>2, <1>3 DEF Lists

(* One more gram, behind all there are.                                    *)
LEMMA ListsMore ==
  ASSUME NEW E, NEW s \in Seq(Chars), NEW t, NEW o \in Seq(E), NEW G, Lists(o, G, s, t),
         NEW p \in (1 .. Len(s)) \X (1 .. Len(s)), p[1] <= p[2], Tagged(s, p, t) \in E,
         \A q \in G : q[2] < p[2] \/ (q[2] = p[2] /\ q[1] < p[1])
  PROVE  Lists(Append(o, Tagged(s, p, t)), G \cup {p}, s, t)
<1> DEFINE H == G \cup {p}
           r == Append(o, Tagged(s, p, t))
<1>1. /\ IsFiniteSet(G) /\ Cardinality(G) \in Nat /\ Len(o) = Cardinality(G)
      /\ G \in SUBSET ((1 .. Len(s)) \X (1 .. Len(s)))
  BY FS_CardinalityType DEF Lists
<1>2. p \notin G
  BY <1>1
<1>3. IsFiniteSet(H) /\ Cardinality(H) = Cardinality(G) + 1
  BY <1>1, <1>2, FS_AddElement
<1>4. /\ DOMAIN r = 1 .. Len(r) /\ Len(r) = Len(o) + 1 /\ r[Len(o) + 1] = Tagged(s, p, t)
      /\ \A i \in 1 .. Len(o) : r[i] = o[i]
  OBVIOUS
<1>5. UpTo(H, p) = H
  BY <1>1 DEF UpTo
<1> HIDE DEF r
<1>6. r[Cardinality(UpTo(H, p))] = Tagged(s, p, t)
  <2>1. Cardinality(UpTo(H, p)) = Len(o) + 1
    BY <1>1, <1>3, <1>5
  <2> QED
    BY <2>1, <1>4
<1>7. ASSUME NEW q \in G PROVE r[Cardinality(UpTo(H, q))] = Tagged(s, q, t)
  <2>1. UpTo(H, q) = UpTo(G, q)
    BY <1>1 DEF UpTo
  <2>2. UpTo(G, q) \in SUBSET G /\ q \in UpTo(G, q)
    BY <1>1 DEF UpTo
  <2>3. /\ IsFiniteSet(UpTo(G, q)) /\ Cardinality(UpTo(G, q)) <= Cardinality(G)
        /\ Cardinality(UpTo(G, q)) \in Nat /\ Cardinality(UpTo(G, q)) # 0
    BY <1>1, <2>2, FS_Subset, FS_CardinalityType, FS_EmptySet
  <2>4. Cardinality(UpTo(G, q)) \in 1 .. Len(o)
    BY <1>1, <2>3
  <2> QED
    BY <1>4, <2>1, <2>4 DEF Lists
<1>8. H \in SUBSET ((1 .. Len(s)) \X (1 .. Len(s))) /\ \A q \in H : q[1] <= q[2]
  BY <1>1 DEF Lists
<1>9. Len(r) = Cardinality(H)
  BY <1>1, <1>3, <1>4
<1>10. \A q \in H : r[Cardinality(UpTo(H, q))] = Tagged(s, q, t)
  BY <1>6, <1>7
<1> HIDE DEF H
<1> QED
  BY <1>3, <1>4, <1>8, <1>9, <1>10 DEF Lists, H, r

-----------------------------------------------------------------------------
(* What one code point adds to the list.                                   *)

LEMMA JoinOnes ==
  ASSUME NEW x, NEW y
  PROVE  <<x>> \o <<y>> = <<x, y>> /\ <<x>> \o <<>> = <<x>>
<1> DEFINE C == {x, y}
<1>1. <<x>> \in Seq(C) /\ <<y>> \in Seq(C) /\ <<>> \in Seq(C) /\ <<x, y>> \in Seq(C)
  OBVIOUS
<1>2. <<x>> \o <<y>> = <<x, y>>
  <2> DEFINE z == <<x>> \o <<y>>
  <2>1. z \in Seq(C) /\ Len(z) = 2 /\ z[1] = x /\ z[2] = y
    BY <1>1
  <2> HIDE DEF z
  <2>2. DOMAIN z = 1 .. 2
    BY <2>1
  <2>3. z = [i \in 1 .. 2 |-> z[i]]
    BY <2>1, <2>2
  <2>4. z = <<x, y>>
    BY <2>1, <2>2, <2>3
  <2> QED
    BY <2>4 DEF z
<1>3. <<x>> \o <<>> = <<x>>
  BY <1>1
<1> QED
  BY <1>2, <1>3

Yields == {e \in Seq(Chars) \X Nat : 1 <= Len(e[1]) /\ Len(e[1]) <= 3}

LEMMA WindowIs ==
  ASSUME NEW s \in Seq(Chars), NEW w, NEW k \in Nat, NEW t, Holds(s, w, k, t),
         NEW m \in 1 .. Len(w)
  PROVE  /\ LastOf(w, m) = SubSeq(s, Len(s) - m + 1, Len(s))
         /\ LastOf(w, m) \in Seq(Chars) /\ Len(LastOf(w, m)) = m
<1>1. w \in Seq(Chars) /\ Len(w) <= Len(s) /\ Len(w) \in Nat /\ Len(s) \in Nat
  BY DEF Holds
<1> DEFINE a == Len(w) - m + 1
           b == Len(s) - m + 1
<1>2. a \in 1 .. Len(w) /\ Len(w) \in a .. Len(w) /\ b \in 1 .. Len(s) /\ Len(s) \in b .. Len(s)
      /\ Len(w) - a + 1 = m /\ Len(s) - b + 1 = m
  BY <1>1
<1>3. \A i \in 1 .. m : w[a + i - 1] = s[b + i - 1]
  <2> TAKE i \in 1 .. m
  <2>1. a + i - 1 \in 1 .. Len(w) /\ Len(s) - Len(w) + (a + i - 1) = b + i - 1
    BY <1>1, <1>2
  <2> DEFINE j == a + i - 1
             l == b + i - 1
  <2> HIDE DEF a, b, j, l
  <2>2. j \in 1 .. Len(w) /\ Len(s) - Len(w) + j = l
    BY <2>1 DEF j, l
  <2>3. w[j] = s[l]
    BY <2>2 DEF Holds
  <2> QED
    BY <2>3 DEF j, l
<1> HIDE DEF a, b
<1>4. SubSeq(w, a, Len(w)) = [i \in 1 .. m |-> w[a + i - 1]]
      /\ SubSeq(w, a, Len(w)) \in Seq(Chars) /\ Len(SubSeq(w, a, Len(w))) = m
  BY <1>1, <1>2, SubSeqIs
<1>5. SubSeq(s, b, Len(s)) = [i \in 1 .. m |-> s[b + i - 1]]
  BY <1>2, SubSeqIs
<1>6. [i \in 1 .. m |-> w[a + i - 1]] = [i \in 1 .. m |-> s[b + i - 1]]
  BY <1>3
<1> QED
  BY <1>4, <1>5, <1>6 DEF LastOf, a, b

LEMMA ListsWindow ==
  ASSUME NEW s \in Seq(Chars), NEW t \in Tokenizers, NEW w, NEW k \in 1 .. 3,
         Holds(s, w, k, t), NEW m \in 1 .. k, m <= Len(w),
         NEW o \in Seq(Yields), NEW G, Lists(o, G, s, t),
         \A q \in G : q[2] < Len(s) \/ (q[2] = Len(s) /\ q[1] < Len(s) - m + 1)
  PROVE  /\ Lists(Append(o, <<LastOf(w, m), WordAt(s, Len(s), t)>>),
                  G \cup {<<Len(s) - m + 1, Len(s)>>}, s, t)
         /\ <<LastOf(w, m), WordAt(s, Len(s), t)>> \in Yields
<1> DEFINE n == Len(s)
           p == <<n - m + 1, n>>
<1>1. n \in Nat /\ m \in 1 .. Len(w) /\ m \in 1 .. 3 /\ Len(w) <= n /\ Len(w) \in Nat
  BY DEF Holds
<1>2. InRun(s, n - m + 1, n, t) /\ n - m + 1 \in 1 .. n /\ n \in 1 .. n
  BY <1>1 DEF Holds
<1>3. LastOf(w, m) = SubSeq(s, n - m + 1, n)
      /\ LastOf(w, m) \in Seq(Chars) /\ Len(LastOf(w, m)) = m
  BY <1>1, WindowIs
<1>4. WordAt(s, n - m + 1, t) = WordAt(s, n, t)
  BY <1>2, WordOfRun
<1>5. WordAt(s, n, t) \in Nat
  <2>1. IsFiniteSet(1 .. n)
    BY <1>1, FS_Interval
  <2>2. {i \in 1 .. n : s[i] \in Break} \in SUBSET (1 .. n)
    OBVIOUS
  <2>3. Cardinality({i \in 1 .. n : s[i] \in Break}) \in Nat
    BY <2>1, <2>2, FS_Subset, FS_CardinalityType
  <2> QED
    BY <2>3 DEF WordAt
<1> DEFINE e == <<LastOf(w, m), WordAt(s, n, t)>>
<1>6. p[1] = n - m + 1 /\ p[2] = n /\ p \in (1 .. n) \X (1 .. n) /\ p[1] <= p[2]
  BY <1>2
<1>7. e \in Yields
  <2>1. e[1] = LastOf(w, m) /\ e \in Seq(Chars) \X Nat
    BY <1>3, <1>5
  <2> HIDE DEF e
  <2> QED
    BY <1>1, <1>3, <2>1 DEF Yields
<1>8. Tagged(s, p, t) = e
  BY <1>3, <1>4, <1>6 DEF Tagged
<1>9. \A q \in G : q[2] < p[2] \/ (q[2] = p[2] /\ q[1] < p[1])
  BY <1>6
<1> HIDE DEF p, e
<1>10. Lists(Append(o, Tagged(s, p, t)), G \cup {p}, s, t)
  BY <1>6, <1>7, <1>8, <1>9, ListsMore
<1> QED
  BY <1>7, <1>8, <1>10 DEF p, e

(* The windows Completed gives, tagged, prolong o to a list of the grams   *)
(* of s too.                                                               *)
Adds(o, G, s, w, k, t) ==
  LET d == WordAt(s, Len(s), t)
      first == <<w, d>>
      second == <<LastOf(w, k - 1), d>>
      H == G \cup NewGrams(s, t)
  IN IF Len(w) = k
     THEN /\ first \in Yields
          /\ IF k > 1
             THEN /\ Completed(w, k) = <<w, LastOf(w, k - 1)>>
                  /\ second \in Yields
                  /\ Lists(Append(Append(o, first), second), H, s, t)
             ELSE Completed(w, k) = <<w>> /\ Lists(Append(o, first), H, s, t)
     ELSE IF k > 1 /\ Len(w) = k - 1
     THEN /\ Completed(w, k) = <<LastOf(w, k - 1)>>
          /\ second \in Yields
          /\ Lists(Append(o, second), H, s, t)
     ELSE Completed(w, k) = <<>> /\ Lists(o, H, s, t)

(* What a code point of a run completes is what joins the list.            *)
LEMMA ListsCompleted ==
  ASSUME NEW s \in Seq(Chars), NEW t \in Tokenizers, t.width = 0,
         NEW w, NEW k, Len(s) # 0, s[Len(s)] \notin Break, k = Sizes[ClassAt(s, Len(s))],
         Holds(s, w, k, t), NEW o \in Seq(Yields), NEW G, Lists(o, G, s, t),
         \A q \in G : q[2] < Len(s)
  PROVE  Adds(o, G, s, w, k, t)
<1> DEFINE n == Len(s)
           d == WordAt(s, n, t)
           first == <<w, d>>
           second == <<LastOf(w, k - 1), d>>
           P == <<n - k + 1, n>>
           S == <<n - (k - 1) + 1, n>>
<1>1. k \in 1 .. 3 /\ n \in Nat \ {0}
  <2>1. n \in 1 .. n /\ n \in Nat \ {0}
    OBVIOUS
  <2> QED
    BY <2>1, ClassIs, TableFacts
<1>2. w \in Seq(Chars) /\ Len(w) \in Nat /\ Len(w) <= k /\ Len(w) <= n
  BY DEF Holds
<1>3. NewGrams(s, t) = {<<n - m + 1, n>> : m \in {m \in {k} \cup ({k - 1} \ {0}) : m <= Len(w)}}
  <2>1. NewGrams(s, t) = Reached(s, w, k, t)
    BY <1>1, WindowCompletes
  <2>2. {k} \cup (IF t.width > 0 THEN {} ELSE {k - 1} \ {0}) = {k} \cup ({k - 1} \ {0})
    OBVIOUS
  <2> QED
    BY <2>1, <2>2 DEF Reached
<1>4. LastOf(w, Len(w)) = w
  BY <1>2 DEF LastOf
<1>5. Completed(w, k) = (IF Len(w) = k THEN <<w>> ELSE <<>>)
           \o (IF k - 1 >= 1 /\ Len(w) >= k - 1 THEN <<LastOf(w, k - 1)>> ELSE <<>>)
  BY DEF Completed
<1>6. k > 1 => k - 1 \in 1 .. k /\ k - 1 # 0 /\ k - 1 \in Nat
  BY <1>1
<1>7. \A q \in G : q[2] < n /\ q \in (1 .. n) \X (1 .. n)
  BY DEF Lists
<1> DEFINE l == LastOf(w, k - 1)
<1> HIDE DEF l
<1>8. CASE Len(w) = k
  <2>1. /\ Lists(Append(o, <<LastOf(w, k), d>>), G \cup {P}, s, t)
        /\ <<LastOf(w, k), d>> \in Yields
    <3>1. k \in 1 .. k /\ k <= Len(w)
      BY <1>1, <1>8
    <3> QED
      BY <1>1, <1>7, <3>1, ListsWindow
  <2>2. Lists(Append(o, first), G \cup {P}, s, t) /\ first \in Yields
    BY <1>4, <1>8, <2>1
  <2>3. CASE k > 1
    <3>1. Completed(w, k) = <<w>> \o <<l>>
      BY <1>1, <1>5, <1>8, <2>3 DEF l
    <3>2. Completed(w, k) = <<w, l>>
      BY <3>1, JoinOnes
    <3>3. NewGrams(s, t) = {P, S}
      <4>1. {m \in {k} \cup ({k - 1} \ {0}) : m <= Len(w)} = {k, k - 1}
        BY <1>1, <1>8, <2>3
      <4> QED
        BY <1>3, <4>1
    <3>4. \A q \in G \cup {P} : q[2] < n \/ (q[2] = n /\ q[1] < n - (k - 1) + 1)
      BY <1>1, <1>7
    <3>5. Append(o, first) \in Seq(Yields)
      BY <2>2
    <3>6. k - 1 \in 1 .. k /\ k - 1 <= Len(w)
      BY <1>1, <1>8, <2>3
    <3> HIDE DEF P, S, first
    <3>7. Lists(Append(Append(o, first), <<LastOf(w, k - 1), d>>), (G \cup {P}) \cup {S}, s, t)
          /\ <<LastOf(w, k - 1), d>> \in Yields
      BY <1>1, <2>2, <3>4, <3>5, <3>6, ListsWindow DEF S
    <3>8. (G \cup {P}) \cup {S} = G \cup NewGrams(s, t)
      BY <3>3
    <3> QED
      BY <1>8, <2>2, <2>3, <3>2, <3>7, <3>8 DEF Adds, l, first
  <2>4. CASE ~ (k > 1)
    <3>3. ~ (k - 1 >= 1 /\ Len(w) >= k - 1)
      BY <1>1, <2>4
    <3>0. Completed(w, k) = <<w>> \o <<>>
      BY <1>5, <1>8, <3>3, Zenon
    <3>1. Completed(w, k) = <<w>>
      BY <3>0, JoinOnes
    <3>2. NewGrams(s, t) = {P}
      <4>1. {m \in {k} \cup ({k - 1} \ {0}) : m <= Len(w)} = {k}
        BY <1>1, <1>8, <2>4
      <4> QED
        BY <1>3, <4>1
    <3> QED
      BY <1>8, <2>2, <2>4, <3>1, <3>2 DEF Adds
  <2> QED
    BY <2>3, <2>4
<1>9. CASE Len(w) # k /\ k > 1 /\ Len(w) = k - 1
  <2>1. Completed(w, k) = <<>> \o <<l>>
    BY <1>1, <1>5, <1>9 DEF l
  <2>2. Completed(w, k) = <<l>>
    BY <2>1
  <2>3. NewGrams(s, t) = {S}
    <3>1. {m \in {k} \cup ({k - 1} \ {0}) : m <= Len(w)} = {k - 1}
      BY <1>1, <1>9
    <3> QED
      BY <1>3, <3>1
  <2>4. k - 1 \in 1 .. k /\ k - 1 <= Len(w)
    BY <1>1, <1>9
  <2>5. Lists(Append(o, <<LastOf(w, k - 1), d>>), G \cup {S}, s, t)
        /\ <<LastOf(w, k - 1), d>> \in Yields
    BY <1>1, <1>7, <2>4, ListsWindow
  <2> QED
    BY <1>9, <2>2, <2>3, <2>5 DEF Adds, l
<1>10. CASE Len(w) # k /\ ~ (k > 1 /\ Len(w) = k - 1)
  <2>1. Completed(w, k) = <<>> \o <<>>
    BY <1>1, <1>2, <1>5, <1>10
  <2>2. Completed(w, k) = <<>>
    BY <2>1
  <2>3. NewGrams(s, t) = {}
    <3>1. {m \in {k} \cup ({k - 1} \ {0}) : m <= Len(w)} = {}
      BY <1>1, <1>2, <1>10
    <3> QED
      BY <1>3, <3>1
  <2> QED
    BY <1>10, <2>2, <2>3 DEF Adds
<1> QED
  BY <1>8, <1>9, <1>10

-----------------------------------------------------------------------------
(* The inductive invariant: the window holds the end of the current run,   *)
(* and what is out or buffered lists the grams of what was read.           *)

ReadOK ==
  /\ tok \in Tokenizers
  /\ src \in Seq(Chars) /\ lower \in Seq(Chars) /\ read \in Seq(Chars)

StateOK ==
  /\ Holds(read, win, primary, tok)
  /\ word = WordAt(read, Len(read), tok)
  /\ tok.width > 0 => primary = tok.width /\ pending = <<>>
  /\ tok.width = 0 => /\ class = CurrentClass(read)
                      /\ primary = IF class = NoClass THEN 0 ELSE Sizes[class]

OutOK ==
  /\ out \in Seq(Yields) /\ pending \in Seq(Yields)
  /\ Lists(out \o pending, GramsIn(read, tok), read, tok)

TokenInv == ReadOK /\ StateOK /\ OutOK

LEMMA WidthIs ==
  ASSUME ReadOK
  PROVE  tok.width \in 0 .. 3
BY TokenizersAssumption DEF ReadOK, Settings

LEMMA TokensBegin == Init => TokenInv
<1> SUFFICES ASSUME Init PROVE TokenInv
  OBVIOUS
<1>1. tok \in Tokenizers /\ lower = <<>> /\ pending = <<>> /\ win = <<>> /\ class = NoClass
      /\ primary = tok.width /\ word = 0 /\ read = <<>> /\ out = <<>>
  BY DEF Init
<1>2. text \in Seq(Chars)
  <2>1. PICK m \in 0 .. MaxLen : text \in [1 .. m -> Input]
    BY DEF Init
  <2>2. m \in Nat /\ Input \subseteq Chars
    BY Tables
  <2> QED
    BY <2>1, <2>2
<1>3. src \in Seq(Chars)
  BY <1>1, <1>2, NormalizedType DEF Init
<1>4. <<>> \in Seq(Chars) /\ <<>> \in Seq(Yields) /\ Len(<<>>) = 0
  OBVIOUS
<1>5. ReadOK
  BY <1>1, <1>3, <1>4 DEF ReadOK
<1>6. tok.width \in 0 .. 3
  BY <1>5, WidthIs
<1>7. Holds(read, win, primary, tok)
  <2>1. \A m \in 1 .. primary : ~ (m <= Len(win)) /\ ~ (m <= Len(read))
    BY <1>1, <1>4, <1>6
  <2> QED
    BY <1>1, <1>4, <1>6, <2>1 DEF Holds
<1>8. WordAt(read, Len(read), tok) = 0
  <2>1. {k \in 1 .. Len(read) : read[k] \in Break} = {}
    BY <1>1, <1>4
  <2> QED
    BY <2>1, FS_EmptySet, Zenon DEF WordAt
<1>9. CurrentClass(read) = NoClass
  BY <1>1, <1>4 DEF CurrentClass
<1>10. StateOK
  BY <1>1, <1>6, <1>7, <1>8, <1>9 DEF StateOK
<1>11. GramsIn(read, tok) = {}
  <2>1. DOMAIN read = {}
    BY <1>1
  <2> QED
    BY <2>1 DEF GramsIn
<1>12. out \o pending = <<>>
  BY <1>1
<1>13. Lists(<<>>, {}, read, tok)
  BY FS_EmptySet DEF Lists
<1> QED
  BY <1>1, <1>4, <1>5, <1>10, <1>11, <1>12, <1>13 DEF TokenInv, OutOK

(* A code point is taken.                                                  *)
LEMMA TakeCharType ==
  ASSUME ReadOK, TakeChar, tok' = tok
  PROVE  /\ ReadOK' /\ NextChar \in Chars
         /\ read' = Append(read, NextChar)
<1>1. tok \in Tokenizers /\ src \in Seq(Chars) /\ lower \in Seq(Chars) /\ read \in Seq(Chars)
  BY DEF ReadOK
<1>2. CASE lower # <<>>
  <2>1. Head(lower) \in Chars /\ Tail(lower) \in Seq(Chars)
    BY <1>1, <1>2
  <2>2. lower' = Tail(lower) /\ src' = src /\ NextChar = Head(lower)
        /\ read' = Append(read, NextChar)
    BY <1>2 DEF TakeChar, NextChar
  <2> QED
    BY <1>1, <2>1, <2>2 DEF ReadOK
<1>3. CASE lower = <<>>
  <2>1. src # <<>>
    BY <1>3 DEF TakeChar, HasChar
  <2>2. Head(src) \in Chars /\ Tail(src) \in Seq(Chars)
    BY <1>1, <2>1
  <2> DEFINE f == Folded(Head(src), tok)
  <2>3. f \in Seq(Chars) /\ f # <<>>
    BY <1>1, <2>2, FoldedType
  <2> HIDE DEF f
  <2>4. Head(f) \in Chars /\ Tail(f) \in Seq(Chars)
    BY <2>3
  <2>5. lower' = Tail(f) /\ src' = Tail(src) /\ NextChar = Head(f)
        /\ read' = Append(read, NextChar)
    BY <1>3 DEF TakeChar, NextChar, f
  <2> QED
    BY <1>1, <2>2, <2>4, <2>5 DEF ReadOK
<1> QED
  BY <1>2, <1>3

LEMMA DrainKeeps ==
  ASSUME TokenInv, DrainPending
  PROVE  TokenInv'
<1>1. out' = out \o pending /\ pending' = <<>>
      /\ UNCHANGED <<text, tok, src, lower, win, class, primary, word, read>>
  BY DEF DrainPending
<1>2. out \in Seq(Yields) /\ pending \in Seq(Yields)
  BY DEF TokenInv, OutOK
<1>3. out' \in Seq(Yields) /\ pending' \in Seq(Yields)
  BY <1>1, <1>2, Concat
<1>4. out' \o pending' = out \o pending
  BY <1>1, <1>3
<1>5. OutOK'
  BY <1>1, <1>3, <1>4 DEF TokenInv, OutOK
<1>6. ReadOK' /\ StateOK'
  BY <1>1 DEF TokenInv, ReadOK, StateOK
<1> QED
  BY <1>5, <1>6 DEF TokenInv

LEMMA BreakKeeps ==
  ASSUME TokenInv, BreakWord
  PROVE  TokenInv'
<1> DEFINE c == NextChar
<1>1. /\ tok.width = 0 /\ pending = <<>> /\ TakeChar /\ c \in Break
      /\ class' = NoClass /\ primary' = 0 /\ win' = <<>> /\ word' = word + 1
      /\ tok' = tok /\ pending' = pending /\ out' = out
  BY DEF BreakWord
<1>2. ReadOK' /\ c \in Chars /\ read' = Append(read, c)
  BY <1>1, TakeCharType DEF TokenInv
<1>3. read \in Seq(Chars) /\ tok \in Tokenizers
  BY DEF TokenInv, ReadOK
<1> HIDE DEF c
<1>4. /\ read' \in Seq(Chars) /\ Len(read') = Len(read) + 1 /\ Len(read) \in Nat
      /\ read'[Len(read) + 1] = c
  BY <1>2, <1>3, Appended
<1>5. Holds(read', win', primary', tok')
  BY <1>1, <1>4 DEF Holds
<1>6. word' = WordAt(read', Len(read'), tok')
  BY <1>1, <1>2, <1>3, <1>4, WordNext DEF TokenInv, StateOK
<1>7. CurrentClass(read') = NoClass
  BY <1>1, <1>4 DEF CurrentClass
<1>8. StateOK'
  BY <1>1, <1>5, <1>6, <1>7 DEF StateOK
<1>9. GramsIn(read', tok') = GramsIn(read, tok)
  <2>1. NewGrams(Append(read, c), tok) = {}
    BY <1>1, <1>2, <1>3, BreakCompletesNone
  <2>2. GramsIn(Append(read, c), tok) = GramsIn(read, tok) \cup NewGrams(Append(read, c), tok)
    BY <1>2, <1>3, GramsKept
  <2> QED
    BY <1>1, <1>2, <2>1, <2>2
<1>10. Lists(out \o pending, GramsIn(read, tok), read', tok)
  BY <1>2, <1>3, ListsKept DEF TokenInv, OutOK
<1>11. OutOK'
  BY <1>1, <1>9, <1>10 DEF TokenInv, OutOK
<1> QED
  BY <1>2, <1>8, <1>11 DEF TokenInv

(* The grams so far all end before the code point taken.                   *)
LEMMA GramsBefore ==
  ASSUME NEW s \in Seq(Chars), NEW c \in Chars, NEW t
  PROVE  \A q \in GramsIn(s, t) : q[2] < Len(Append(s, c))
<1>1. DOMAIN s = 1 .. Len(s) /\ Len(s) \in Nat /\ Len(Append(s, c)) = Len(s) + 1
  BY Appended
<1>2. \A q \in GramsIn(s, t) : q[2] \in DOMAIN s
  BY DEF GramsIn
<1> QED
  BY <1>1, <1>2

(* One more code point of a run: its class, its width and the window.      *)
LEMMA RunSlides ==
  ASSUME NEW s \in Seq(Chars), NEW c \in Chars, c \notin Break,
         NEW t \in Tokenizers, t.width = 0, NEW w, NEW k, Holds(s, w, k, t),
         CurrentClass(s) # NoClass => k = Sizes[CurrentClass(s)]
  PROVE  LET cl == ScriptClassOf(c, CurrentClass(s))
             r  == Append(s, c)
         IN /\ cl = ClassAt(r, Len(s) + 1) /\ cl = CurrentClass(r)
            /\ cl \in DOMAIN Sizes /\ cl # NoClass /\ Sizes[cl] \in 1 .. 3
            /\ cl = CurrentClass(s) => k = Sizes[cl] /\ Holds(r, Slide(w, k, c), k, t)
            /\ cl # CurrentClass(s) => Holds(r, Slide(<<>>, Sizes[cl], c), Sizes[cl], t)
<1> DEFINE r == Append(s, c)
           n == Len(s)
           old == CurrentClass(s)
           cl == ScriptClassOf(c, old)
           k2 == Sizes[cl]
<1>1. /\ r \in Seq(Chars) /\ Len(r) = n + 1 /\ n \in Nat /\ r[n + 1] = c
  BY Appended
<1>2. cl = ClassAt(r, n + 1) /\ cl \in DOMAIN Sizes
  BY ClassNext
<1>3. cl # NoClass
  BY <1>2, TableFacts
<1>4. k2 \in 1 .. 3
  BY <1>2, TableFacts
<1>5. cl = CurrentClass(r)
  BY <1>1, <1>2 DEF CurrentClass
<1>6. InRun(r, n + 1, n + 1, t)
  BY RunNext DEF InRun
<1>7. k2 \in Nat \ {0}
  BY <1>4
<1>8. ASSUME cl = old PROVE k = k2 /\ Holds(r, Slide(w, k2, c), k2, t)
  <2>1. \A i \in 1 .. n : InRun(r, i, n + 1, t) <=> InRun(s, i, n, t)
    BY <1>8, RunNext DEF InRun
  <2>2. k = k2 /\ Holds(s, w, k2, t)
    BY <1>3, <1>8
  <2>3. Holds(r, Slide(w, k2, c), k2, t)
    BY <1>6, <1>7, <2>1, <2>2, SlideOn
  <2> QED
    BY <2>2, <2>3
<1>9. ASSUME cl # old PROVE Holds(r, Slide(<<>>, k2, c), k2, t)
  <2>1. \A i \in 1 .. n : ~ InRun(r, i, n + 1, t)
    BY <1>9, RunNext DEF InRun
  <2> QED
    BY <1>6, <1>7, <2>1, SlideAnew
<1> QED
  BY <1>2, <1>3, <1>4, <1>5, <1>8, <1>9

LEMMA RunWindow ==
  ASSUME TokenInv, AdvanceRun
  PROVE  /\ ReadOK' /\ StateOK' /\ NextChar \in Chars /\ NextChar \notin Break
         /\ read' = Append(read, NextChar) /\ tok' = tok /\ word' = word
         /\ primary' = Sizes[ClassAt(read', Len(read'))] /\ primary' \in 1 .. 3
<1> DEFINE c == NextChar
           r == Append(read, c)
           n == Len(read)
<1>1. /\ tok.width = 0 /\ TakeChar /\ c \notin Break
      /\ class' = ScriptClassOf(c, class)
      /\ primary' = IF class' = class THEN primary ELSE Sizes[class']
      /\ win' = Slide(IF class' = class THEN win ELSE <<>>, primary', c)
      /\ tok' = tok /\ word' = word
  BY DEF AdvanceRun
<1>2. ReadOK' /\ c \in Chars /\ read' = r
  BY <1>1, TakeCharType DEF TokenInv
<1>3. read \in Seq(Chars) /\ tok \in Tokenizers
  BY DEF TokenInv, ReadOK
<1> HIDE DEF c
<1>4. /\ r \in Seq(Chars) /\ Len(r) = n + 1 /\ n \in Nat /\ r[n + 1] = c
  BY <1>2, <1>3, Appended
<1>5. /\ class = CurrentClass(read)
      /\ primary = IF class = NoClass THEN 0 ELSE Sizes[class]
      /\ Holds(read, win, primary, tok) /\ word = WordAt(read, n, tok)
  BY <1>1 DEF TokenInv, StateOK
<1>6. /\ class' = ClassAt(r, n + 1) /\ class' = CurrentClass(r)
      /\ class' \in DOMAIN Sizes /\ class' # NoClass
      /\ primary' = Sizes[class'] /\ primary' \in 1 .. 3
      /\ Holds(r, win', primary', tok)
  <2> DEFINE cl == ScriptClassOf(c, CurrentClass(read))
  <2>1. /\ cl = ClassAt(r, n + 1) /\ cl = CurrentClass(r)
        /\ cl \in DOMAIN Sizes /\ cl # NoClass /\ Sizes[cl] \in 1 .. 3
        /\ cl = CurrentClass(read) =>
             primary = Sizes[cl] /\ Holds(r, Slide(win, primary, c), primary, tok)
        /\ cl # CurrentClass(read) =>
             Holds(r, Slide(<<>>, Sizes[cl], c), Sizes[cl], tok)
    <3>1. CurrentClass(read) # NoClass => primary = Sizes[CurrentClass(read)]
      BY <1>5
    <3> QED
      BY <1>1, <1>2, <1>3, <1>5, <3>1, RunSlides
  <2> HIDE DEF cl, r
  <2>2. class' = cl /\ class = CurrentClass(read)
    BY <1>1, <1>5 DEF cl
  <2>3. CASE cl = class
    <3>1. primary' = primary /\ win' = Slide(win, primary, c)
      BY <1>1, <2>2, <2>3
    <3> QED
      BY <2>1, <2>2, <2>3, <3>1
  <2>4. CASE cl # class
    <3>1. primary' = Sizes[cl] /\ win' = Slide(<<>>, Sizes[cl], c)
      BY <1>1, <2>2, <2>4
    <3> QED
      BY <2>1, <2>2, <2>4, <3>1
  <2> QED
    BY <2>3, <2>4
<1>7. word' = WordAt(r, n + 1, tok)
  BY <1>1, <1>2, <1>3, <1>5, WordNext
<1> HIDE DEF r
<1>8. StateOK'
  BY <1>1, <1>2, <1>4, <1>6, <1>7 DEF StateOK
<1> QED
  BY <1>1, <1>2, <1>4, <1>6, <1>8 DEF c, r

LEMMA RunKeeps ==
  ASSUME TokenInv, AdvanceRun
  PROVE  TokenInv'
<1> DEFINE r == Append(read, NextChar)
           G == GramsIn(read, tok)
           H == G \cup NewGrams(r, tok)
           k == primary'
           w == win'
           gs == Completed(w, k)
           tagged == [i \in DOMAIN gs |-> <<gs[i], word>>]
           first == <<w, word>>
           second == <<LastOf(w, k - 1), word>>
<1>1. /\ ReadOK' /\ StateOK' /\ NextChar \in Chars /\ NextChar \notin Break
      /\ read' = r /\ tok' = tok /\ word' = word
      /\ k = Sizes[ClassAt(r, Len(r))] /\ k \in 1 .. 3
  BY RunWindow
<1>2. /\ read \in Seq(Chars) /\ tok \in Tokenizers /\ out \in Seq(Yields)
      /\ tok.width = 0 /\ pending = <<>> /\ Lists(out, G, read, tok)
  <2>1. out \in Seq(Yields) /\ pending = <<>> /\ tok.width = 0
        /\ read \in Seq(Chars) /\ tok \in Tokenizers
    BY DEF TokenInv, ReadOK, OutOK, AdvanceRun
  <2>2. out \o pending = out
    BY <2>1
  <2> QED
    BY <2>1, <2>2 DEF TokenInv, OutOK
<1>3. /\ out' = IF gs = <<>> THEN out ELSE Append(out, tagged[1])
      /\ pending' = IF gs = <<>> THEN <<>> ELSE Tail(tagged)
  BY DEF AdvanceRun
<1>4. /\ r \in Seq(Chars) /\ Len(r) = Len(read) + 1 /\ Len(read) \in Nat
      /\ r[Len(r)] = NextChar
  BY <1>1, <1>2, Appended
<1>5. /\ Holds(r, w, k, tok) /\ word = WordAt(r, Len(r), tok)
  BY <1>1 DEF StateOK
<1>6. Lists(out, G, r, tok) /\ GramsIn(r, tok) = H
  BY <1>1, <1>2, ListsKept, GramsKept
<1>7. \A q \in G : q[2] < Len(r)
  BY <1>1, <1>2, GramsBefore
<1> HIDE DEF r, G, k, w
<1>8. IF Len(w) = k
      THEN /\ first \in Yields
           /\ IF k > 1
              THEN /\ gs = <<w, LastOf(w, k - 1)>>
                   /\ second \in Yields
                   /\ Lists(Append(Append(out, first), second), H, r, tok)
              ELSE gs = <<w>> /\ Lists(Append(out, first), H, r, tok)
      ELSE IF k > 1 /\ Len(w) = k - 1
      THEN /\ gs = <<LastOf(w, k - 1)>>
           /\ second \in Yields
           /\ Lists(Append(out, second), H, r, tok)
      ELSE gs = <<>> /\ Lists(out, H, r, tok)
  <2>1. Len(r) # 0 /\ r[Len(r)] \notin Break
    BY <1>1, <1>4
  <2>2. Adds(out, G, r, w, k, tok)
    <3>1. /\ r \in Seq(Chars) /\ tok \in Tokenizers /\ tok.width = 0
          /\ k = Sizes[ClassAt(r, Len(r))] /\ Holds(r, w, k, tok)
          /\ out \in Seq(Yields) /\ Lists(out, G, r, tok)
      BY <1>1, <1>2, <1>4, <1>5, <1>6
    <3> QED
      BY <1>7, <2>1, <3>1, ListsCompleted
  <2> QED
    BY <1>5, <2>2 DEF Adds
<1> HIDE DEF first, second, H
<1>9. /\ out' \in Seq(Yields) /\ pending' \in Seq(Yields)
      /\ Lists(out' \o pending', H, r, tok)
  <2>1. ASSUME NEW e \in Yields, gs # <<>>, tagged = <<e>>, Lists(Append(out, e), H, r, tok)
        PROVE  /\ out' \in Seq(Yields) /\ pending' \in Seq(Yields)
               /\ Lists(out' \o pending', H, r, tok)
    <3> HIDE DEF gs, tagged
    <3>1. tagged[1] = e /\ Tail(tagged) = <<>>
      BY <2>1
    <3>2. out' = Append(out, e) /\ pending' = <<>>
      BY <1>3, <2>1, <3>1
    <3>3. Append(out, e) \in Seq(Yields) /\ <<>> \in Seq(Yields)
      BY <1>2
    <3>4. Append(out, e) \o <<>> = Append(out, e)
      BY <3>3
    <3> QED
      BY <2>1, <3>2, <3>3, <3>4
  <2>2. CASE Len(w) = k /\ k > 1
    <3>1. gs = <<w, LastOf(w, k - 1)>> /\ first \in Yields /\ second \in Yields
          /\ Lists(Append(Append(out, first), second), H, r, tok)
      BY <1>8, <2>2
    <3>2. tagged = <<first, second>>
      BY <3>1 DEF first, second
    <3>3. gs # <<>>
      BY <3>1
    <3> HIDE DEF gs, tagged
    <3>4. tagged[1] = first /\ Tail(tagged) = <<second>>
      BY <3>1, <3>2
    <3>5. out' = Append(out, first) /\ pending' = <<second>>
      BY <1>3, <3>3, <3>4
    <3>6. Append(out, first) \in Seq(Yields) /\ <<second>> \in Seq(Yields)
      BY <1>2, <3>1
    <3>7. Append(out, first) \o <<second>> = Append(Append(out, first), second)
      BY <3>1, <3>6
    <3> QED
      BY <3>1, <3>5, <3>6, <3>7
  <2>3. CASE Len(w) = k /\ ~ (k > 1)
    <3>1. gs = <<w>> /\ first \in Yields /\ Lists(Append(out, first), H, r, tok)
      BY <1>8, <2>3
    <3>2. tagged = <<first>> /\ gs # <<>>
      BY <3>1 DEF first
    <3> QED
      BY <2>1, <3>1, <3>2
  <2>4. CASE Len(w) # k /\ k > 1 /\ Len(w) = k - 1
    <3>1. gs = <<LastOf(w, k - 1)>> /\ second \in Yields /\ Lists(Append(out, second), H, r, tok)
      BY <1>8, <2>4
    <3>2. tagged = <<second>> /\ gs # <<>>
      BY <3>1 DEF second
    <3> QED
      BY <2>1, <3>1, <3>2
  <2>5. CASE Len(w) # k /\ ~ (k > 1 /\ Len(w) = k - 1)
    <3>1. gs = <<>> /\ Lists(out, H, r, tok)
      BY <1>8, <2>5
    <3>2. out' = out /\ pending' = <<>>
      BY <1>3, <3>1
    <3>3. out \o <<>> = out /\ <<>> \in Seq(Yields)
      BY <1>2
    <3> QED
      BY <1>2, <3>1, <3>2, <3>3
  <2> QED
    BY <2>2, <2>3, <2>4, <2>5
<1>10. OutOK'
  BY <1>1, <1>6, <1>9 DEF OutOK
<1> QED
  BY <1>1, <1>10 DEF TokenInv

LEMMA WindowKeeps ==
  ASSUME TokenInv, AdvanceWindow
  PROVE  TokenInv'
<1> DEFINE c == NextChar
           r == Append(read, c)
           n == Len(read)
           k == tok.width
           w == win'
           G == GramsIn(read, tok)
<1>1. /\ k > 0 /\ TakeChar /\ w = Slide(win, k, c)
      /\ out' = IF Len(w) = k THEN Append(out, <<w, word>>) ELSE out
      /\ UNCHANGED <<text, tok, class, primary, word, pending>>
  BY DEF AdvanceWindow
<1>2. ReadOK' /\ c \in Chars /\ read' = r
  BY <1>1, TakeCharType DEF TokenInv
<1>3. read \in Seq(Chars) /\ tok \in Tokenizers /\ k \in 1 .. 3 /\ k \in Nat \ {0}
  BY <1>1, WidthIs DEF TokenInv, ReadOK
<1>4. /\ Holds(read, win, k, tok) /\ word = WordAt(read, n, tok)
      /\ primary = k /\ pending = <<>>
  BY <1>1 DEF TokenInv, StateOK
<1>5. out \in Seq(Yields) /\ Lists(out, G, read, tok)
  <2>1. out \in Seq(Yields) /\ Lists(out \o pending, G, read, tok)
    BY DEF TokenInv, OutOK
  <2>2. out \o pending = out
    BY <1>4, <2>1
  <2> QED
    BY <2>1, <2>2
<1> HIDE DEF c
<1>6. r \in Seq(Chars) /\ Len(r) = n + 1 /\ n \in Nat
  BY <1>2, <1>3, Appended
<1>7. Holds(r, w, k, tok)
  <2>1. \A i \in 1 .. n + 1 : InRun(r, i, n + 1, tok)
    BY <1>1 DEF InRun
  <2>2. \A i \in 1 .. n : InRun(read, i, n, tok)
    BY <1>1 DEF InRun
  <2>3. \A i \in 1 .. n : InRun(r, i, n + 1, tok) <=> InRun(read, i, n, tok)
    BY <1>6, <2>1, <2>2
  <2>4. InRun(r, n + 1, n + 1, tok)
    BY <1>1 DEF InRun
  <2> HIDE DEF k
  <2>5. Holds(r, Slide(win, k, c), k, tok)
    BY <1>2, <1>3, <1>4, <2>3, <2>4, SlideOn
  <2> QED
    BY <1>1, <2>5
<1>8. word = WordAt(r, Len(r), tok)
  BY <1>1, <1>4 DEF WordAt
<1>9. StateOK'
  BY <1>1, <1>2, <1>4, <1>7, <1>8 DEF StateOK
<1>10. Lists(out, G, r, tok) /\ GramsIn(r, tok) = G \cup NewGrams(r, tok)
  BY <1>2, <1>3, <1>5, ListsKept, GramsKept
<1>11. \A q \in G : q[2] < Len(r)
  BY <1>2, <1>3, GramsBefore
<1>12. NewGrams(r, tok) = {<<Len(r) - m + 1, Len(r)>> : m \in {m \in {k} : m <= Len(w)}}
  <2>1. /\ Len(r) # 0 /\ ~ (tok.width = 0)
        /\ k = IF tok.width > 0 THEN tok.width ELSE Sizes[ClassAt(r, Len(r))]
    BY <1>1, <1>6
  <2> HIDE DEF k
  <2>2. NewGrams(r, tok) = Reached(r, w, k, tok)
    BY <1>1, <1>3, <1>6, <1>7, <2>1, WindowCompletes
  <2>3. {k} \cup (IF tok.width > 0 THEN {} ELSE {k - 1} \ {0}) = {k}
    BY <1>1 DEF k
  <2> QED
    BY <2>2, <2>3 DEF Reached
<1>13. w \in Seq(Chars) /\ Len(w) \in Nat /\ Len(w) <= k
  BY <1>7 DEF Holds
<1> HIDE DEF k, w, r, G
<1>14. out' \in Seq(Yields) /\ Lists(out', GramsIn(r, tok), r, tok)
  <2>1. CASE Len(w) = k
    <3>1. NewGrams(r, tok) = {<<Len(r) - k + 1, Len(r)>>}
      BY <1>3, <1>12, <2>1
    <3>2. LastOf(w, k) = w
      BY <1>3, <1>13, <2>1 DEF LastOf
    <3>3. k \in 1 .. k /\ k <= Len(w)
      BY <1>3, <2>1
    <3>4. /\ Lists(Append(out, <<LastOf(w, k), WordAt(r, Len(r), tok)>>),
                   G \cup {<<Len(r) - k + 1, Len(r)>>}, r, tok)
          /\ <<LastOf(w, k), WordAt(r, Len(r), tok)>> \in Yields
      BY <1>3, <1>5, <1>6, <1>7, <1>10, <1>11, <3>3, ListsWindow
    <3>5. Lists(Append(out, <<w, word>>), GramsIn(r, tok), r, tok) /\ <<w, word>> \in Yields
      BY <1>8, <1>10, <3>1, <3>2, <3>4
    <3>6. Append(out, <<w, word>>) \in Seq(Yields)
      BY <1>5, <3>5
    <3> QED
      BY <1>1, <2>1, <3>5, <3>6
  <2>2. CASE Len(w) # k
    <3>1. {m \in {k} : m <= Len(w)} = {}
      BY <1>3, <1>13, <2>2
    <3>2. NewGrams(r, tok) = {}
      BY <1>12, <3>1
    <3> QED
      BY <1>1, <1>5, <1>10, <2>2, <3>2
  <2> QED
    BY <2>1, <2>2
<1>15. OutOK'
  <2>1. pending' = <<>> /\ <<>> \in Seq(Yields)
    BY <1>1, <1>4
  <2>2. out' \o pending' = out'
    BY <1>14, <2>1
  <2> QED
    BY <1>1, <1>2, <1>14, <2>1, <2>2 DEF OutOK
<1> QED
  BY <1>2, <1>9, <1>15 DEF TokenInv

(* The inductive invariant holds of every text, tokenizer and table.       *)
THEOREM TokenInvariant == Spec => []TokenInv
<1>1. TokenInv /\ [Next]_vars => TokenInv'
  <2> SUFFICES ASSUME TokenInv, [Next]_vars PROVE TokenInv'
    OBVIOUS
  <2>1. CASE UNCHANGED vars
    BY <2>1 DEF vars, TokenInv, ReadOK, StateOK, OutOK
  <2> QED
    BY <2>1, DrainKeeps, BreakKeeps, RunKeeps, WindowKeeps DEF Next
<1> QED
  BY <1>1, TokensBegin, PTL DEF Spec

-----------------------------------------------------------------------------
(* The properties.                                                         *)

LEMMA WindowsListed ==
  ASSUME TokenInv
  PROVE  EveryWindowOnce
<1> SUFFICES ASSUME pending = <<>> PROVE
      LET grams == GramsIn(read, tok)
          Rank(p) == Cardinality({q \in grams :
                       q[2] < p[2] \/ (q[2] = p[2] /\ q[1] <= p[1])})
      IN /\ Len(out) = Cardinality(grams)
         /\ \A p \in grams :
              out[Rank(p)] = <<SubSeq(read, p[1], p[2]), WordAt(read, p[1], tok)>>
  BY DEF EveryWindowOnce, Done
<1>1. out \in Seq(Yields) /\ Lists(out \o pending, GramsIn(read, tok), read, tok)
  BY DEF TokenInv, OutOK
<1>2. out \o pending = out
  BY <1>1
<1>3. Lists(out, GramsIn(read, tok), read, tok)
  BY <1>1, <1>2
<1> QED
  BY <1>3 DEF Lists, UpTo, Tagged

(* Each window of each run comes out exactly once, in order, with the      *)
(* number of its word.                                                     *)
THEOREM StreamListsWindows == Spec => []EveryWindowOnce
BY TokenInvariant, WindowsListed, PTL

LEMMA Prefixed ==
  ASSUME NEW D, NEW x \in D, NEW y \in Seq(D)
  PROVE  /\ Len(<<x>> \o y) = Len(y) + 1
         /\ \A i \in 1 .. Len(y) : (<<x>> \o y)[i + 1] = y[i]
<1>1. <<x>> \in Seq(D) /\ Len(<<x>>) = 1 /\ Len(y) \in Nat
  OBVIOUS
<1> DEFINE a == <<x>>
<1> HIDE DEF a
<1>2. Len(a \o y) = Len(y) + 1
  BY <1>1 DEF a
<1>3. \A i \in 1 .. Len(y) : (a \o y)[i + 1] = y[i]
  <2> TAKE i \in 1 .. Len(y)
  <2>1. i + 1 \in 1 .. Len(a) + Len(y) /\ i + 1 > Len(a) /\ (i + 1) - Len(a) = i
    BY <1>1 DEF a
  <2>2. a \in Seq(D)
    BY <1>1 DEF a
  <2> QED
    BY <1>1, <2>1, <2>2
<1> QED
  BY <1>2, <1>3 DEF a

LEMMA TermsDiffer ==
  ASSUME TokenInv
  PROVE  TermsIdentifyGrams
<1>1. out \in Seq(Yields)
  BY DEF TokenInv, OutOK
<1>2. \A k \in DOMAIN out : out[k][1] \in Seq(Chars) 
                             /\ 1 <= Len(out[k][1]) /\ Len(out[k][1]) <= 3
  BY <1>1 DEF Yields
<1> SUFFICES ASSUME NEW g \in Seq(Chars), NEW h \in Seq(Chars),
                    1 <= Len(g), Len(g) <= 3, 1 <= Len(h), Len(h) <= 3
             PROVE  /\ EncodeTerm(g) # NoTerm =>
                         /\ Order(EncodeTerm(g)) = Len(g)
                         /\ EncodeTerm(g) = EncodeTerm(h) => g = h
                    /\ EncodeTerm(g) = NoTerm => Nul \in {g[i] : i \in DOMAIN g}
  BY <1>2 DEF TermsIdentifyGrams
<1>0. Len(g) \in Nat /\ 1 <= Len(g) /\ Len(g) <= 3
  OBVIOUS
<1> DEFINE Slots(x) == [i \in 1 .. 3 |-> IF i <= Len(x) THEN x[i] ELSE Nul]
<1>3. ASSUME NEW x \in Seq(Chars)
      PROVE  /\ Pack(x) # NoTerm /\ Len(Pack(x)) = 4
             /\ \A i \in 1 .. 3 : Pack(x)[i + 1] = IF i <= Len(x) THEN x[i] ELSE Nul
  <2>1. Slots(x) \in Seq(Chars \cup {Nul}) /\ Len(Slots(x)) = 3
    <3>1. \A i \in 1 .. 3 : (IF i <= Len(x) THEN x[i] ELSE Nul) \in Chars \cup {Nul}
      OBVIOUS
    <3> QED
      BY <3>1
  <2>2. \A i \in 1 .. 3 : Slots(x)[i] = IF i <= Len(x) THEN x[i] ELSE Nul
    OBVIOUS
  <2> DEFINE D == Chars \cup {Nul, ScriptOf(x)}
             y == Slots(x)
  <2>3. y \in Seq(D) /\ <<ScriptOf(x)>> \in Seq(D)
    BY <2>1
  <2>4. Pack(x) = <<ScriptOf(x)>> \o y
    BY DEF Pack
  <2>5. Len(y) = 3 /\ \A i \in 1 .. 3 : y[i] = IF i <= Len(x) THEN x[i] ELSE Nul
    BY <2>1, <2>2
  <2> HIDE DEF y, D
  <2>6. Len(<<ScriptOf(x)>> \o y) = 4 /\ \A i \in 1 .. 3 : (<<ScriptOf(x)>> \o y)[i + 1] = y[i]
    <3>1. ScriptOf(x) \in D
      BY DEF D
    <3> DEFINE a == ScriptOf(x)
    <3> HIDE DEF a
    <3>2. Len(<<a>> \o y) = Len(y) + 1 /\ \A i \in 1 .. Len(y) : (<<a>> \o y)[i + 1] = y[i]
      BY <2>3, <3>1, Prefixed DEF a
    <3>3. 1 .. Len(y) = 1 .. 3 /\ Len(y) + 1 = 4
      BY <2>5
    <3> QED
      BY <3>2, <3>3 DEF a
  <2>7. Pack(x) # <<>>
    BY <2>3, <2>4, <2>6
  <2> QED
    BY <2>4, <2>5, <2>6, <2>7 DEF NoTerm
<1>4. \A x \in Seq(Chars) :
        EncodeTerm(x) = IF Len(x) > 3 \/ \E i \in DOMAIN x : x[i] = Nul THEN NoTerm ELSE Pack(x)
  BY DEF EncodeTerm
<1>5. ASSUME NEW x \in Seq(Chars), EncodeTerm(x) # NoTerm, Len(x) <= 3
      PROVE  /\ EncodeTerm(x) = Pack(x)
             /\ \A i \in 1 .. 3 : Pack(x)[i + 1] # Nul <=> i <= Len(x)
  <2>1. EncodeTerm(x) = Pack(x) /\ \A i \in DOMAIN x : x[i] # Nul
    BY <1>4, <1>5
  <2>2. \A i \in 1 .. Len(x) : x[i] # Nul
    BY <2>1
  <2> QED
    BY <1>3, <2>1, <2>2
<1> HIDE DEF Slots
<1>6. ASSUME EncodeTerm(g) # NoTerm PROVE Order(EncodeTerm(g)) = Len(g)
  <2> DEFINE S == {i \in 2 .. 4 : Pack(g)[i] # Nul}
  <2>1. S = 2 .. Len(g) + 1
    <3>1. \A i \in 2 .. 4 : i - 1 \in 1 .. 3 /\ i = (i - 1) + 1
      OBVIOUS
    <3>2. \A i \in 2 .. 4 : Pack(g)[i] # Nul <=> i - 1 <= Len(g)
      <4> TAKE i \in 2 .. 4
      <4> DEFINE j == i - 1
      <4>1. j \in 1 .. 3 /\ j + 1 = i
        BY <3>1
      <4> HIDE DEF j
      <4>2. Pack(g)[j + 1] # Nul <=> j <= Len(g)
        BY <1>5, <1>6, <4>1
      <4> QED
        BY <4>1, <4>2 DEF j
    <3>3. \A i \in 2 .. 4 : i - 1 <= Len(g) <=> i \in 2 .. Len(g) + 1
      BY <1>0
    <3>4. 2 .. Len(g) + 1 \in SUBSET (2 .. 4)
      BY <1>0
    <3> QED
      BY <3>2, <3>3, <3>4
  <2>2. Cardinality(2 .. Len(g) + 1) = Len(g)
    <3>1. 2 \in Int /\ Len(g) + 1 \in Int
      OBVIOUS
    <3>2. Cardinality(2 .. Len(g) + 1) = IF 2 > Len(g) + 1 THEN 0 ELSE (Len(g) + 1) - 2 + 1
      BY <3>1, FS_Interval
    <3> QED
      BY <3>2
  <2>3. Order(EncodeTerm(g)) = Cardinality(S)
    BY <1>5, <1>6 DEF Order
  <2> QED
    BY <2>1, <2>2, <2>3
<1>7. ASSUME EncodeTerm(g) # NoTerm, EncodeTerm(g) = EncodeTerm(h) PROVE g = h
  <2>1. /\ \A i \in 1 .. 3 : Pack(g)[i + 1] # Nul <=> i <= Len(g)
        /\ \A i \in 1 .. 3 : Pack(h)[i + 1] # Nul <=> i <= Len(h)
        /\ Pack(g) = Pack(h)
    BY <1>5, <1>7
  <2>2. \A i \in 1 .. 3 : i <= Len(g) <=> i <= Len(h)
    BY <2>1
  <2>3. Len(g) = Len(h)
    BY <2>2
  <2>4. \A i \in 1 .. Len(g) : g[i] = h[i]
    <3> TAKE i \in 1 .. Len(g)
    <3>1. i \in 1 .. 3 /\ i <= Len(g) /\ i <= Len(h)
      BY <2>3
    <3>2. Pack(g)[i + 1] = g[i] /\ Pack(h)[i + 1] = h[i]
      BY <1>3, <3>1
    <3> QED
      BY <2>1, <3>2
  <2>5. g = [i \in 1 .. Len(g) |-> g[i]] /\ h = [i \in 1 .. Len(g) |-> h[i]]
    BY <2>3
  <2> QED
    BY <2>4, <2>5
<1>8. ASSUME EncodeTerm(g) = NoTerm PROVE Nul \in {g[i] : i \in DOMAIN g}
  <2>1. Len(g) > 3 \/ \E i \in DOMAIN g : g[i] = Nul
    BY <1>3, <1>4, <1>8
  <2>2. ~ (Len(g) > 3)
    BY <1>0
  <2> QED
    BY <2>1, <2>2
<1> QED
  BY <1>6, <1>7, <1>8

(* No two grams a tokenizer yields share a term, and only one with U+0000  *)
(* in it has none.                                                         *)
THEOREM TermsAreNames == Spec => []TermsIdentifyGrams
BY TokenInvariant, TermsDiffer, PTL

-----------------------------------------------------------------------------
(* What span goes over: each character with the range of its cluster, the  *)
(* ranges ending ever later.                                               *)

Entries == [ch : Chars, from : Nat, to : Nat]
Parts   == [from : Nat, to : Nat, chars : Seq(Chars)]

Rising(cs) == \A i, j \in DOMAIN cs : i <= j => cs[i].to <= cs[j].to

StartsOf(s) == {i \in DOMAIN s : i = 1 \/ ~ Attaches(s[i])}

EndOf(s, i) ==
  CHOOSE j \in i .. Len(s) : /\ j = Len(s) \/ j + 1 \in StartsOf(s)
                             /\ \A k \in i + 1 .. j : k \notin StartsOf(s)

(* A cluster ends before the next one starts.                              *)
LEMMA EndIs ==
  ASSUME NEW s \in Seq(Chars), NEW i \in StartsOf(s)
  PROVE  /\ i \in 1 .. Len(s) /\ EndOf(s, i) \in i .. Len(s)
         /\ EndOf(s, i) = Len(s) \/ EndOf(s, i) + 1 \in StartsOf(s)
         /\ \A h \in StartsOf(s) : i < h => EndOf(s, i) < h
<1>1. i \in 1 .. Len(s) /\ Len(s) \in Nat /\ StartsOf(s) \in SUBSET (1 .. Len(s))
  BY DEF StartsOf
<1> DEFINE J == {j \in i .. Len(s) : \A k \in i + 1 .. j : k \notin StartsOf(s)}
<1>2. i \in J /\ J \in SUBSET (1 .. Len(s))
  BY <1>1
<1>3. PICK m \in J : \A j \in J : j <= m
  BY <1>1, <1>2, MaxIn
<1>4. m = Len(s) \/ m + 1 \in StartsOf(s)
  <2> SUFFICES ASSUME m # Len(s), m + 1 \notin StartsOf(s) PROVE FALSE
    OBVIOUS
  <2>1. m \in i .. Len(s) /\ m + 1 \in i .. Len(s)
    BY <1>1, <1>3
  <2>2. \A k \in i + 1 .. m + 1 : k \in i + 1 .. m \/ k = m + 1
    BY <1>1, <2>1
  <2>3. \A k \in i + 1 .. m : k \notin StartsOf(s)
    BY <1>3
  <2>4. m + 1 \in J
    BY <2>1, <2>2, <2>3
  <2>5. m + 1 <= m
    BY <1>3, <2>4
  <2> QED
    BY <1>1, <2>1, <2>5
<1>5. m \in i .. Len(s) /\ \A k \in i + 1 .. m : k \notin StartsOf(s)
  BY <1>3
<1> HIDE DEF J
<1>6. /\ EndOf(s, i) \in i .. Len(s)
      /\ EndOf(s, i) = Len(s) \/ EndOf(s, i) + 1 \in StartsOf(s)
      /\ \A k \in i + 1 .. EndOf(s, i) : k \notin StartsOf(s)
  BY <1>4, <1>5 DEF EndOf
<1>7. ASSUME NEW h \in StartsOf(s), i < h PROVE EndOf(s, i) < h
  <2>1. h \notin i + 1 .. EndOf(s, i)
    BY <1>6, <1>7
  <2>2. h \in 1 .. Len(s)
    BY <1>1
  <2> QED
    BY <1>1, <1>6, <1>7, <2>1, <2>2
<1> QED
  BY <1>1, <1>6, <1>7

StartAt(s, k) ==
  CHOOSE i \in StartsOf(s) : Cardinality({j \in StartsOf(s) : j <= i}) = k

LEMMA StartIs ==
  ASSUME NEW s \in Seq(Chars)
  PROVE  /\ Cardinality(StartsOf(s)) \in Nat
         /\ \A k \in 1 .. Cardinality(StartsOf(s)) : StartAt(s, k) \in StartsOf(s)
         /\ \A k, l \in 1 .. Cardinality(StartsOf(s)) :
              k < l => StartAt(s, k) < StartAt(s, l)
         /\ \A i \in StartsOf(s) : \E k \in 1 .. Cardinality(StartsOf(s)) : StartAt(s, k) = i
<1> DEFINE S == StartsOf(s)
           R == {p \in S \X S : p[1] < p[2]}
           before(i) == {j \in S : j <= i}
           N == Cardinality(S)
<1>1. S \in SUBSET (1 .. Len(s)) /\ Len(s) \in Nat
  BY DEF StartsOf
<1>2. IsFiniteSet(S)
  <2>1. IsFiniteSet(1 .. Len(s))
    BY <1>1, FS_Interval
  <2> HIDE DEF S
  <2> QED
    BY <1>1, <2>1, FS_Subset
<1>3. N \in Nat
  BY <1>2, FS_CardinalityType
<1> HIDE DEF S
<1>4a. \A x, y \in S : x \in Nat /\ y \in Nat /\ (<<x, y>> \in R <=> x < y)
  BY <1>1
<1> HIDE DEF R
<1>4. StrictOrder(S, R)
  BY <1>4a DEF StrictOrder
<1>5. ASSUME NEW i \in S
      PROVE  /\ before(i) \in SUBSET S /\ i \in Nat
             /\ Cardinality(before(i)) = Place(S, R, i) + 1
  <2>1. before(i) = Ahead(S, R, i) \cup {i}
    BY <1>4a DEF Ahead
  <2>2. i \notin Ahead(S, R, i)
    BY <1>4a DEF Ahead
  <2>3. IsFiniteSet(Ahead(S, R, i))
    BY <1>2, <1>4, PlaceType
  <2>4. Cardinality(Ahead(S, R, i) \cup {i}) = Cardinality(Ahead(S, R, i)) + 1
    BY <2>2, <2>3, FS_AddElement
  <2>5. i \in Nat
    BY <1>1
  <2> QED
    BY <2>1, <2>4, <2>5 DEF Place
<1>6. ASSUME NEW k \in 1 .. N
      PROVE  StartAt(s, k) \in S /\ Cardinality(before(StartAt(s, k))) = k
  <2>1. PICK i \in S : Place(S, R, i) = k - 1
    BY <1>2, <1>4, PlacesTaken
  <2>2. Cardinality(before(i)) = k
    BY <1>3, <1>5, <2>1
  <2> QED
    BY <2>2 DEF StartAt, S
<1>7. ASSUME NEW k \in 1 .. N, NEW l \in 1 .. N, k < l
      PROVE  StartAt(s, k) < StartAt(s, l)
  <2> DEFINE i == StartAt(s, k)
             j == StartAt(s, l)
  <2>1. i \in S /\ j \in S /\ Cardinality(before(i)) = k /\ Cardinality(before(j)) = l
    BY <1>6
  <2> HIDE DEF i, j
  <2>2. i \in Nat /\ j \in Nat /\ before(i) \in SUBSET S
    BY <1>5, <2>1
  <2>3. ~ (j <= i)
    <3> SUFFICES ASSUME j <= i PROVE FALSE
      OBVIOUS
    <3>1. before(j) \subseteq before(i)
      <4>1. \A h \in S : h \in Nat
        BY <1>4a
      <4>2. ASSUME NEW h \in S, h <= j PROVE h <= i
        BY <2>1, <4>1, <4>2
      <4> QED
        BY <4>2
    <3>2. IsFiniteSet(before(i))
      BY <1>2, <2>2, FS_Subset
    <3> HIDE DEF before
    <3>3. Cardinality(before(j)) <= Cardinality(before(i))
      BY <3>1, <3>2, FS_Subset
    <3> QED
      BY <1>3, <1>7, <2>1, <3>3
  <2>4. i < j
    BY <2>2, <2>3
  <2> QED
    BY <2>4 DEF i, j
<1>8. ASSUME NEW i \in S PROVE \E k \in 1 .. N : StartAt(s, k) = i
  <2> DEFINE k == Cardinality(before(i))
             j == StartAt(s, k)
  <2>1. k = Place(S, R, i) + 1 /\ Place(S, R, i) \in 0 .. N - 1
    BY <1>2, <1>4, <1>5, PlaceType
  <2> HIDE DEF k
  <2>2. k \in 1 .. N
    BY <1>3, <2>1
  <2>3. j \in S /\ Cardinality(before(j)) = k
    BY <1>6, <2>2
  <2> HIDE DEF j
  <2>4. k = Place(S, R, j) + 1 /\ Place(S, R, j) \in 0 .. N - 1
    BY <1>2, <1>4, <1>5, <2>3, PlaceType
  <2>5. Place(S, R, i) = Place(S, R, j)
    BY <1>3, <2>1, <2>4
  <2>6. i = j
    BY <1>2, <1>4, <2>3, <2>5, PlacesTaken
  <2> QED
    BY <2>2, <2>6 DEF j
<1> QED
  BY <1>3, <1>6, <1>7, <1>8 DEF S

LEMMA ClustersType ==
  ASSUME NEW s \in Seq(Chars)
  PROVE  Clusters(s) \in Seq(Parts) /\ Rising(Clusters(s))
<1> DEFINE N == Cardinality(StartsOf(s))
           At(k) == [from |-> StartAt(s, k) - 1, to |-> EndOf(s, StartAt(s, k)),
                     chars |-> SubSeq(s, StartAt(s, k), EndOf(s, StartAt(s, k)))]
<1>1. Clusters(s) = [k \in 1 .. N |-> At(k)]
  BY DEF Clusters, StartsOf, StartAt, EndOf
<1>2. N \in Nat
  BY StartIs
<1>3. ASSUME NEW k \in 1 .. N
      PROVE  At(k) \in Parts
  <2> DEFINE i == StartAt(s, k)
             j == EndOf(s, i)
  <2>1. i \in StartsOf(s)
    BY StartIs
  <2> HIDE DEF i
  <2>2. i \in 1 .. Len(s) /\ j \in i .. Len(s)
    BY <2>1, EndIs
  <2> HIDE DEF j
  <2>3. SubSeq(s, i, j) \in Seq(Chars)
    BY <2>2, SubSeqIs
  <2>4. i - 1 \in Nat /\ j \in Nat
    BY <2>2
  <2>5. [from |-> i - 1, to |-> j, chars |-> SubSeq(s, i, j)] \in Parts
    BY <2>3, <2>4 DEF Parts
  <2> QED
    BY <2>5 DEF i, j
<1>4. ASSUME NEW k \in 1 .. N, NEW l \in 1 .. N, k < l
      PROVE  EndOf(s, StartAt(s, k)) <= EndOf(s, StartAt(s, l))
  <2> DEFINE i == StartAt(s, k)
             j == StartAt(s, l)
  <2>1. i \in StartsOf(s) /\ j \in StartsOf(s) /\ i < j
    BY <1>4, StartIs
  <2> HIDE DEF i, j
  <2>2. EndOf(s, i) \in i .. Len(s) /\ EndOf(s, i) < j /\ EndOf(s, j) \in j .. Len(s)
        /\ i \in 1 .. Len(s) /\ j \in 1 .. Len(s)
    BY <2>1, EndIs
  <2>3. EndOf(s, i) <= EndOf(s, j)
    BY <2>2
  <2> QED
    BY <2>3 DEF i, j
<1>5. \A k \in 1 .. N : Clusters(s)[k].to = EndOf(s, StartAt(s, k))
  BY <1>1
<1>6. Clusters(s) \in Seq(Parts) /\ DOMAIN Clusters(s) = 1 .. N
  <2> HIDE DEF At
  <2> QED
    BY <1>1, <1>2, <1>3
<1>7. \A k \in 1 .. N : Clusters(s)[k].to \in Nat
  <2> HIDE DEF At, N
  <2>1. \A k \in DOMAIN Clusters(s) : Clusters(s)[k] \in Parts
    BY <1>6, Members
  <2>2. \A k \in 1 .. N : Clusters(s)[k] \in Parts
    BY <1>6, <2>1
  <2> QED
    BY <2>2 DEF Parts
<1> HIDE DEF N
<1>8. ASSUME NEW k \in 1 .. N, NEW l \in 1 .. N, k <= l
      PROVE  Clusters(s)[k].to <= Clusters(s)[l].to
  <2>1. CASE k = l
    BY <1>7, <2>1
  <2>2. CASE k # l
    BY <1>2, <1>4, <1>5, <1>8, <2>2
  <2> QED
    BY <2>1, <2>2
<1> QED
  BY <1>6, <1>8 DEF Rising

(* What each part yields has the part's end, so the whole rises too.       *)
LEMMA FlattenRising ==
  ASSUME NEW ss \in Seq(Seq(Entries)), NEW ends \in [1 .. Len(ss) -> Nat],
         \A j, k \in 1 .. Len(ss) : j <= k => ends[j] <= ends[k],
         \A k \in 1 .. Len(ss) : \A i \in DOMAIN ss[k] : ss[k][i].to = ends[k]
  PROVE  FlattenSeq(ss) \in Seq(Entries) /\ Rising(FlattenSeq(ss))
<1>1. CASE Len(ss) = 0
  <2>1. ss = <<>>
    BY <1>1
  <2>2. FlattenSeq(ss) = <<>>
    BY <1>1, <2>1 DEF FlattenSeq
  <2>3. <<>> \in Seq(Entries) /\ DOMAIN <<>> = {}
    OBVIOUS
  <2> QED
    BY <2>2, <2>3 DEF Rising
<1>2. CASE Len(ss) # 0
  <2>1. PICK f : Flattens(ss, f) /\ FlattenSeq(ss) = f[Len(ss)]
    BY <1>2, FlattenIs
  <2>2. \A i \in 1 .. Len(ss) : f[i] = IF i = 1 THEN ss[i] ELSE f[i - 1] \o ss[i]
    BY <2>1 DEF Flattens
  <2> DEFINE Good(k) == /\ f[k] \in Seq(Entries) /\ Rising(f[k])
                        /\ \A i \in DOMAIN f[k] : f[k][i].to <= ends[k]
             T == {0} \cup {k \in 1 .. Len(ss) : Good(k)}
  <2>3. ASSUME NEW k \in 1 .. Len(ss), k - 1 \in T PROVE k \in T
    <3>0. ss[k] \in Seq(Entries)
      OBVIOUS
    <3>1. ss[k] \in Seq(Entries) /\ ends[k] \in Nat
      BY <3>0
    <3>2. \A i \in DOMAIN ss[k] : ss[k][i].to = ends[k]
      OBVIOUS
    <3>3. CASE k = 1
      <4>1. f[k] = ss[k]
        BY <2>2, <3>3
      <4>2. Rising(ss[k])
        BY <3>1, <3>2 DEF Rising
      <4> QED
        BY <3>1, <3>2, <4>1, <4>2
    <3>4. CASE k # 1
      <4> DEFINE x == f[k - 1]
                 y == ss[k]
      <4>1. k - 1 \in 1 .. Len(ss) /\ Good(k - 1) /\ k - 1 <= k
        BY <2>3, <3>4
      <4>2. x \in Seq(Entries) /\ Rising(x) /\ (\A i \in DOMAIN x : x[i].to <= ends[k - 1])
            /\ ends[k - 1] \in Nat /\ ends[k - 1] <= ends[k]
        BY <4>1
      <4>3. f[k] = x \o y
        BY <2>2, <3>4
      <4> HIDE DEF x, y, Good
      <4>4. y \in Seq(Entries) /\ \A i \in DOMAIN y : y[i].to = ends[k]
        BY <3>1, <3>2 DEF y
      <4> DEFINE z == x \o y
      <4>5. /\ z \in Seq(Entries) /\ DOMAIN z = 1 .. Len(x) + Len(y)
            /\ Len(x) \in Nat /\ Len(y) \in Nat
            /\ DOMAIN x = 1 .. Len(x) /\ DOMAIN y = 1 .. Len(y)
            /\ \A i \in 1 .. Len(x) : z[i] = x[i]
            /\ \A i \in 1 .. Len(y) : z[Len(x) + i] = y[i]
        BY <4>2, <4>4
      <4> HIDE DEF z
      <4>6. ASSUME NEW i \in DOMAIN z, i > Len(x) PROVE z[i].to = ends[k]
        <5>1. i - Len(x) \in 1 .. Len(y) /\ Len(x) + (i - Len(x)) = i
          BY <4>5, <4>6
        <5> QED
          BY <4>4, <4>5, <5>1
      <4>7. ASSUME NEW i \in DOMAIN z, i <= Len(x)
            PROVE  i \in DOMAIN x /\ z[i] = x[i] /\ x[i].to <= ends[k] /\ x[i].to \in Nat
        <5>1. i \in DOMAIN x /\ i \in 1 .. Len(x)
          BY <4>5, <4>7
        <5>2. x[i] \in Entries
          BY <4>2, <5>1, Members
        <5>3. x[i].to \in Nat
          BY <5>2 DEF Entries
        <5> QED
          BY <3>1, <4>2, <4>5, <5>1, <5>3
      <4>8. \A i \in DOMAIN z : i \in Nat /\ z[i].to <= ends[k]
        <5>1. ASSUME NEW i \in DOMAIN z PROVE i \in Nat /\ z[i].to <= ends[k]
          <6>1. i \in Nat /\ (i > Len(x) \/ i <= Len(x))
            BY <4>5
          <6>2. CASE i > Len(x)
            BY <3>1, <4>6, <6>1, <6>2
          <6>3. CASE i <= Len(x)
            BY <4>7, <6>1, <6>3
          <6> QED
            BY <6>1, <6>2, <6>3
        <5> QED
          BY <5>1
      <4>9. ASSUME NEW i \in DOMAIN z, NEW j \in DOMAIN z, i <= j
            PROVE  z[i].to <= z[j].to
        <5>1. CASE j > Len(x)
          BY <4>6, <4>8, <5>1
        <5>2. CASE ~ (j > Len(x))
          <6>1. i <= Len(x) /\ j <= Len(x)
            BY <4>5, <4>8, <4>9, <5>2
          <6>2. i \in DOMAIN x /\ j \in DOMAIN x /\ z[i] = x[i] /\ z[j] = x[j]
            BY <4>7, <6>1
          <6> QED
            BY <4>2, <4>9, <6>2 DEF Rising
        <5> QED
          BY <5>1, <5>2
      <4>10. Good(k)
        BY <4>3, <4>5, <4>8, <4>9 DEF Good, Rising, z
      <4> QED
        BY <4>10
    <3> QED
      BY <3>3, <3>4
  <2>4. 0 \in T /\ Len(ss) \in Nat
    OBVIOUS
  <2> HIDE DEF T
  <2>5. \A k \in 0 .. Len(ss) : k \in T
    BY <2>3, <2>4, CountingUp
  <2>6. Len(ss) \in T /\ Len(ss) \in 1 .. Len(ss)
    BY <2>4, <2>5, <1>2
  <2> QED
    BY <1>2, <2>1, <2>6 DEF T
<1> QED
  BY <1>1, <1>2

LEMMA ClusterCharsType ==
  ASSUME NEW s \in Seq(Chars), NEW t \in Tokenizers
  PROVE  NormalizeCluster(s, t) \in Seq(Chars)
<1> DEFINE f == Normalized(s, t)
           parts == [i \in DOMAIN f |-> Folded(f[i], t)]
<1>1. f \in Seq(Chars)
  BY NormalizedType
<1> HIDE DEF f
<1>2. DOMAIN f = 1 .. Len(f) /\ Len(f) \in Nat /\ \A i \in DOMAIN f : f[i] \in Chars
  BY <1>1
<1>3. \A i \in DOMAIN f : Folded(f[i], t) \in Seq(Chars)
  BY <1>2, FoldedType
<1>4. parts \in Seq(Seq(Chars))
  BY <1>2, <1>3
<1> HIDE DEF parts
<1>5. FlattenSeq(parts) \in Seq(Chars)
  BY <1>4, FlattenType
<1> QED
  BY <1>5 DEF NormalizeCluster, f, parts

LEMMA CharsType ==
  ASSUME NEW s \in Seq(Chars), NEW t \in Tokenizers
  PROVE  NormalizedChars(s, t) \in Seq(Entries) /\ Rising(NormalizedChars(s, t))
<1> DEFINE cs == Clusters(s)
           e(k) == NormalizeCluster(cs[k].chars, t)
           of(k) == [i \in DOMAIN e(k) |-> [ch |-> e(k)[i], from |-> cs[k].from, to |-> cs[k].to]]
           ss == [k \in DOMAIN cs |-> of(k)]
           ends == [k \in DOMAIN cs |-> cs[k].to]
<1>1. cs \in Seq(Parts) /\ Rising(cs)
  BY ClustersType
<1>2. NormalizedChars(s, t) = FlattenSeq(ss)
  BY DEF NormalizedChars
<1> HIDE DEF cs
<1>3. /\ DOMAIN cs = 1 .. Len(cs) /\ Len(cs) \in Nat
      /\ \A k \in DOMAIN cs : cs[k].from \in Nat /\ cs[k].to \in Nat /\ cs[k].chars \in Seq(Chars)
  <2>1. DOMAIN cs = 1 .. Len(cs) /\ Len(cs) \in Nat /\ \A k \in DOMAIN cs : cs[k] \in Parts
    BY <1>1, Members
  <2> QED
    BY <2>1 DEF Parts
<1>4. ASSUME NEW k \in DOMAIN cs
      PROVE  of(k) \in Seq(Entries) /\ \A i \in DOMAIN of(k) : of(k)[i].to = cs[k].to
  <2>1. e(k) \in Seq(Chars)
    BY <1>3, ClusterCharsType
  <2> HIDE DEF e
  <2>2. DOMAIN e(k) = 1 .. Len(e(k)) /\ Len(e(k)) \in Nat /\ \A i \in DOMAIN e(k) : e(k)[i] \in Chars
    BY <2>1
  <2>3. \A i \in DOMAIN e(k) : [ch |-> e(k)[i], from |-> cs[k].from, to |-> cs[k].to] \in Entries
    BY <1>3, <2>2 DEF Entries
  <2>4. of(k) \in Seq(Entries)
    BY <2>2, <2>3
  <2> QED
    BY <2>4
<1> HIDE DEF of
<1>5. ss \in Seq(Seq(Entries)) /\ Len(ss) = Len(cs)
  BY <1>3, <1>4
<1>6. ends \in [1 .. Len(ss) -> Nat]
  BY <1>3, <1>5
<1>7. \A j, k \in 1 .. Len(ss) : j <= k => ends[j] <= ends[k]
  BY <1>1, <1>3, <1>5 DEF Rising
<1>8. \A k \in 1 .. Len(ss) : \A i \in DOMAIN ss[k] : ss[k][i].to = ends[k]
  BY <1>3, <1>4, <1>5
<1> HIDE DEF ss, ends
<1> QED
  BY <1>2, <1>5, <1>6, <1>7, <1>8, FlattenRising

-----------------------------------------------------------------------------
(* The hull of what has been located.                                      *)

IsHull(cs, O, f) ==
  IF O = {} THEN f = <<>>
  ELSE \E p, q \in O : /\ \A o \in O : p[1] <= o[1] /\ o[2] <= q[2]
                       /\ f = <<cs[p[1]].from, cs[q[2]].to>>

Hits(s, G, T) == {p \in G : SubSeq(s, p[1], p[2]) \in T}

Places(cs) == (DOMAIN cs) \X (DOMAIN cs)

LEMMA CodePointsType ==
  ASSUME NEW w \in Seq(Entries)
  PROVE  /\ CodePoints(w) \in Seq(Chars) /\ Len(CodePoints(w)) = Len(w)
         /\ Len(w) \in Nat /\ DOMAIN w = 1 .. Len(w)
         /\ \A i \in 1 .. Len(w) : /\ CodePoints(w)[i] = w[i].ch /\ w[i].ch \in Chars
                                   /\ w[i].from \in Nat /\ w[i].to \in Nat
<1>1. DOMAIN w = 1 .. Len(w) /\ Len(w) \in Nat /\ \A i \in DOMAIN w : w[i] \in Entries
  BY Members
<1>2. \A i \in DOMAIN w : w[i].ch \in Chars /\ w[i].from \in Nat /\ w[i].to \in Nat
  BY <1>1 DEF Entries
<1>3. CodePoints(w) = [i \in 1 .. Len(w) |-> w[i].ch]
  BY <1>1 DEF CodePoints
<1>4. CodePoints(w) \in Seq(Chars)
  BY <1>1, <1>2, <1>3
<1>5. Len(CodePoints(w)) = Len(w)
  BY <1>1, <1>3, <1>4
<1> QED
  BY <1>1, <1>2, <1>3, <1>4, <1>5

LEMMA PieceIs ==
  ASSUME NEW cs \in Seq(Entries), NEW a \in 1 .. Len(cs), NEW b \in a .. Len(cs),
         NEW w \in Seq(Entries), Len(w) = b - a + 1,
         \A i \in 1 .. Len(w) : w[i] = cs[a + i - 1]
  PROVE  CodePoints(w) = SubSeq(CodePoints(cs), a, b)
<1> DEFINE s == CodePoints(cs)
<1>1. s \in Seq(Chars) /\ Len(s) = Len(cs) /\ Len(cs) \in Nat
      /\ \A i \in 1 .. Len(cs) : s[i] = cs[i].ch
  BY CodePointsType
<1> HIDE DEF s
<1>2. SubSeq(s, a, b) = [i \in 1 .. b - a + 1 |-> s[a + i - 1]]
  BY <1>1, SubSeqIs
<1>3. \A i \in 1 .. b - a + 1 : a + i - 1 \in 1 .. Len(cs)
  BY <1>1
<1>4. CodePoints(w) = [i \in 1 .. b - a + 1 |-> w[i].ch]
  BY CodePointsType DEF CodePoints
<1>5. \A i \in 1 .. b - a + 1 : w[i].ch = s[a + i - 1]
  BY <1>1, <1>3
<1> QED
  BY <1>2, <1>4, <1>5 DEF s

(* A window that starts and ends no earlier than all before.               *)
LEMMA LocatedHull ==
  ASSUME NEW cs \in Seq(Entries), Rising(cs), NEW O \in SUBSET Places(cs),
         NEW f, IsHull(cs, O, f), NEW T,
         NEW a \in 1 .. Len(cs), NEW b \in a .. Len(cs),
         \A o \in O : o[1] <= a /\ o[2] <= b,
         NEW w \in Seq(Entries), Len(w) = b - a + 1,
         \A i \in 1 .. Len(w) : w[i] = cs[a + i - 1]
  PROVE  IsHull(cs, O \cup Hits(CodePoints(cs), {<<a, b>>}, T), Located(f, w, T))
<1> DEFINE P == <<a, b>>
           g == Located(f, w, T)
           H == Hits(CodePoints(cs), {P}, T)
<1>1. CodePoints(w) = SubSeq(CodePoints(cs), a, b)
  BY PieceIs
<1>2. H = IF CodePoints(w) \in T THEN {P} ELSE {}
  BY <1>1 DEF Hits
<1>3. /\ DOMAIN cs = 1 .. Len(cs) /\ Len(cs) \in Nat
      /\ \A i \in DOMAIN cs : cs[i].to \in Nat
  BY CodePointsType
<1>4. /\ a \in Nat /\ b \in Nat /\ a <= b /\ b \in DOMAIN cs
      /\ w[1] = cs[a] /\ w[Len(w)] = cs[b]
  <2>1. a \in Nat /\ b \in Nat /\ a <= b /\ b \in DOMAIN cs /\ Len(w) \in Nat \ {0}
    BY <1>3
  <2>2. 1 \in 1 .. Len(w) /\ Len(w) \in 1 .. Len(w) /\ a + 1 - 1 = a /\ a + Len(w) - 1 = b
    BY <2>1
  <2> QED
    BY <2>1, <2>2
<1>5. CASE CodePoints(w) \notin T
  <2>1. g = f /\ O \cup H = O
    BY <1>2, <1>5 DEF Located
  <2> QED
    BY <2>1
<1>6. CASE CodePoints(w) \in T /\ O = {}
  <2>1. f = <<>> /\ O \cup H = {P} /\ P[1] = a /\ P[2] = b
    BY <1>2, <1>6 DEF IsHull
  <2>2. g = <<cs[a].from, cs[b].to>>
    BY <1>4, <1>6, <2>1 DEF Located
  <2> HIDE DEF P, g, H
  <2>3. \A o \in {P} : P[1] <= o[1] /\ o[2] <= P[2]
    BY <1>4, <2>1
  <2>4. IsHull(cs, {P}, g)
    BY <2>1, <2>2, <2>3 DEF IsHull
  <2> QED
    BY <2>1, <2>4 DEF g, H, P
<1>7. CASE CodePoints(w) \in T /\ O # {}
  <2>1. PICK p \in O, q \in O : /\ \A o \in O : p[1] <= o[1] /\ o[2] <= q[2]
                                /\ f = <<cs[p[1]].from, cs[q[2]].to>>
    BY <1>7 DEF IsHull
  <2>2. /\ p[1] \in DOMAIN cs /\ q[2] \in DOMAIN cs /\ p[1] <= a /\ q[2] <= b
        /\ \A o \in O : o[1] \in DOMAIN cs /\ o[2] \in DOMAIN cs
    BY DEF Places
  <2>3. f # <<>> /\ f[1] = cs[p[1]].from /\ f[2] = cs[q[2]].to
    BY <2>1
  <2>4. cs[q[2]].to <= cs[b].to
    BY <1>4, <2>2 DEF Rising
  <2>5. g = <<cs[p[1]].from, IF cs[b].to > cs[q[2]].to THEN cs[b].to ELSE cs[q[2]].to>>
    BY <1>4, <1>7, <2>3 DEF Located
  <2>6. g = <<cs[p[1]].from, cs[b].to>>
    <3>1. cs[b].to \in Nat /\ cs[q[2]].to \in Nat
      BY <1>3, <1>4, <2>2
    <3>2. (IF cs[b].to > cs[q[2]].to THEN cs[b].to ELSE cs[q[2]].to) = cs[b].to
      BY <2>4, <3>1
    <3> QED
      BY <2>5, <3>2, Zenon
  <2>7. O \cup H = O \cup {P} /\ P[1] = a /\ P[2] = b
    BY <1>2, <1>7
  <2> HIDE DEF P, g, H
  <2>8. \A o \in O \cup {P} : p[1] <= o[1] /\ o[2] <= P[2]
    BY <1>4, <2>1, <2>2, <2>7
  <2>9. IsHull(cs, O \cup {P}, g)
    BY <2>6, <2>7, <2>8 DEF IsHull
  <2> QED
    BY <2>7, <2>9 DEF g, H, P
<1> QED
  BY <1>5, <1>6, <1>7

(* Grams that end later start no earlier.                                  *)
LEMMA GramsAdvance ==
  ASSUME NEW s \in Seq(Chars), NEW t \in Tokenizers, NEW p \in GramsIn(s, t),
         NEW q \in GramsIn(s, t), p[2] < q[2]
  PROVE  p[1] <= q[1]
<1>1. /\ DOMAIN s = 1 .. Len(s) /\ Len(s) \in Nat
      /\ p \in (DOMAIN s) \X (DOMAIN s) /\ q \in (DOMAIN s) \X (DOMAIN s)
      /\ InGrams(s, t, p) /\ InGrams(s, t, q)
  BY GramsAre
<1> DEFINE a == p[1]
           b == p[2]
           x == q[1]
           y == q[2]
<1>2. /\ a \in Nat /\ b \in Nat /\ x \in Nat /\ y \in Nat /\ a <= b /\ x <= y /\ b < y
      /\ b - a + 1 \in Widths(s, a, t) /\ y - x + 1 \in Widths(s, x, t)
      /\ InRun(s, x, y, t) /\ x \in 1 .. Len(s) /\ a \in 1 .. Len(s)
  BY <1>1 DEF InGrams
<1> HIDE DEF a, b, x, y
<1> SUFFICES ASSUME x < a PROVE FALSE
  BY <1>2 DEF a, x
<1>3. CASE t.width > 0
  <2>1. b - a + 1 = y - x + 1
    BY <1>2, <1>3 DEF Widths
  <2> QED
    BY <1>2, <2>1
<1>4. CASE ~ (t.width > 0)
  <2>1. a \in x .. y
    BY <1>2
  <2>2. ClassAt(s, a) = ClassAt(s, x)
    BY <1>2, <1>4, <2>1 DEF InRun, OneRun
  <2>3. Sizes[ClassAt(s, x)] \in Nat
    BY <1>2, ClassIs, TableFacts
  <2>4. /\ b - a + 1 \in {Sizes[ClassAt(s, x)], Sizes[ClassAt(s, x)] - 1}
        /\ y - x + 1 \in {Sizes[ClassAt(s, x)], Sizes[ClassAt(s, x)] - 1}
    BY <1>2, <1>4, <2>2 DEF Widths
  <2> QED
    BY <1>2, <2>3, <2>4
<1> QED
  BY <1>3, <1>4

-----------------------------------------------------------------------------
(* span's accumulator, after the first n characters.                       *)

Prefix(cs, n) == SubSeq(CodePoints(cs), 1, n)

Occurring(cs, t, T, n) == Hits(CodePoints(cs), GramsIn(Prefix(cs, n), t), T)

WindowAt(cs, n, w) ==
  /\ w \in Seq(Entries) /\ Len(w) <= n
  /\ \A i \in 1 .. Len(w) : w[i] = cs[n - Len(w) + i]

WidthOf(t, acc) == IF t.width > 0 THEN t.width ELSE acc.primary

Spanned(cs, t, T, n, acc) ==
  /\ WindowAt(cs, n, acc.win)
  /\ Holds(Prefix(cs, n), CodePoints(acc.win), WidthOf(t, acc), t)
  /\ t.width = 0 =>
       /\ acc.class = CurrentClass(Prefix(cs, n))
       /\ acc.primary = IF acc.class = NoClass THEN 0 ELSE Sizes[acc.class]
  /\ IsHull(cs, Occurring(cs, t, T, n), acc.found)

LEMMA PrefixIs ==
  ASSUME NEW cs \in Seq(Entries), NEW n \in 0 .. Len(cs)
  PROVE  /\ Prefix(cs, n) \in Seq(Chars) /\ Len(Prefix(cs, n)) = n
         /\ DOMAIN Prefix(cs, n) = 1 .. n
         /\ \A i \in 1 .. n : Prefix(cs, n)[i] = cs[i].ch
<1> DEFINE s == CodePoints(cs)
<1>1. s \in Seq(Chars) /\ Len(s) = Len(cs) /\ Len(cs) \in Nat
      /\ \A i \in 1 .. Len(cs) : s[i] = cs[i].ch
  BY CodePointsType
<1> HIDE DEF s
<1>2. n \in Nat /\ n <= Len(s)
  BY <1>1
<1>3. SubSeq(s, 1, n) \in Seq(Chars) /\ Len(SubSeq(s, 1, n)) = n
      /\ \A i \in 1 .. n : SubSeq(s, 1, n)[i] = s[i]
  BY <1>1, <1>2
<1>4. \A i \in 1 .. n : i \in 1 .. Len(cs)
  BY <1>1, <1>2
<1> QED
  BY <1>1, <1>3, <1>4 DEF Prefix, s

LEMMA PrefixNext ==
  ASSUME NEW cs \in Seq(Entries), NEW n \in 1 .. Len(cs)
  PROVE  /\ Prefix(cs, n) = Append(Prefix(cs, n - 1), cs[n].ch)
         /\ Prefix(cs, n - 1) \in Seq(Chars) /\ Len(Prefix(cs, n - 1)) = n - 1
         /\ cs[n].ch \in Chars /\ cs[n] \in Entries
<1> DEFINE r == Prefix(cs, n - 1)
           x == Append(r, cs[n].ch)
           y == Prefix(cs, n)
<1>1. /\ cs[n].ch \in Chars /\ cs[n] \in Entries /\ Len(cs) \in Nat
      /\ n - 1 \in 0 .. Len(cs) /\ n \in 0 .. Len(cs)
  BY CodePointsType, Members
<1>2. r \in Seq(Chars) /\ Len(r) = n - 1 /\ \A i \in 1 .. n - 1 : r[i] = cs[i].ch
  BY <1>1, PrefixIs
<1>3. y \in Seq(Chars) /\ Len(y) = n /\ \A i \in 1 .. n : y[i] = cs[i].ch
  BY <1>1, PrefixIs
<1> HIDE DEF r, y
<1>4. x \in Seq(Chars) /\ Len(x) = n /\ (\A i \in 1 .. n - 1 : x[i] = r[i]) /\ x[n] = cs[n].ch
  BY <1>1, <1>2, Appended
<1> HIDE DEF x
<1>5. \A i \in 1 .. n : x[i] = y[i]
  BY <1>2, <1>3, <1>4
<1>6. x = [i \in 1 .. n |-> x[i]] /\ y = [i \in 1 .. n |-> y[i]]
  BY <1>3, <1>4
<1>7. x = y
  BY <1>5, <1>6
<1> QED
  BY <1>1, <1>2, <1>7 DEF x, y, r

(* The occurrences that end here come after all before.                    *)
LEMMA OccurringNext ==
  ASSUME NEW cs \in Seq(Entries), NEW n \in 1 .. Len(cs), NEW t \in Tokenizers, NEW T
  PROVE  /\ Occurring(cs, t, T, n) = Occurring(cs, t, T, n - 1)
                                       \cup Hits(CodePoints(cs), NewGrams(Prefix(cs, n), t), T)
         /\ Occurring(cs, t, T, n - 1) \in SUBSET Places(cs)
         /\ \A o \in Occurring(cs, t, T, n - 1) : o[2] < n
         /\ \A o \in Occurring(cs, t, T, n - 1) : \A p \in NewGrams(Prefix(cs, n), t) :
              o[1] <= p[1]
<1> DEFINE r == Prefix(cs, n - 1)
           s == Prefix(cs, n)
<1>1. /\ s = Append(r, cs[n].ch) /\ r \in Seq(Chars) /\ Len(r) = n - 1 /\ cs[n].ch \in Chars
  BY PrefixNext
<1>2. n \in Nat /\ Len(cs) \in Nat /\ DOMAIN cs = 1 .. Len(cs) /\ n <= Len(cs)
  BY Members
<1>3. s \in Seq(Chars) /\ Len(s) = n /\ DOMAIN r = 1 .. n - 1
  BY <1>1, <1>2, Appended, Members
<1>4. GramsIn(s, t) = GramsIn(r, t) \cup NewGrams(s, t)
  BY <1>1, GramsKept
<1>5. \A o \in GramsIn(r, t) : o[2] < n
  BY <1>1, <1>3, GramsBefore
<1>6. \A p \in NewGrams(s, t) : p \in GramsIn(s, t) /\ p[2] = n
  BY <1>3 DEF NewGrams
<1>7. \A o \in GramsIn(r, t) : \A p \in NewGrams(s, t) : o[1] <= p[1]
  BY <1>3, <1>4, <1>5, <1>6, GramsAdvance
<1>8. \A o \in GramsIn(r, t) : o \in (1 .. n - 1) \X (1 .. n - 1)
  BY <1>3, GramsAre
<1>9. \A i \in 1 .. n - 1 : i \in DOMAIN cs
  BY <1>2
<1>10. \A o \in GramsIn(r, t) : o \in Places(cs)
  BY <1>8, <1>9 DEF Places
<1> HIDE DEF r, s
<1> DEFINE hit(G) == Hits(CodePoints(cs), G, T)
<1>11. /\ hit(GramsIn(r, t) \cup NewGrams(s, t)) = hit(GramsIn(r, t)) \cup hit(NewGrams(s, t))
       /\ hit(GramsIn(r, t)) \in SUBSET GramsIn(r, t)
  BY DEF Hits
<1>12. Occurring(cs, t, T, n) = hit(GramsIn(s, t)) /\ Occurring(cs, t, T, n - 1) = hit(GramsIn(r, t))
  BY DEF Occurring, r, s
<1> HIDE DEF hit
<1>13. Occurring(cs, t, T, n) = Occurring(cs, t, T, n - 1) \cup hit(NewGrams(s, t))
  BY <1>4, <1>11, <1>12
<1>14. \A o \in Occurring(cs, t, T, n - 1) : o \in GramsIn(r, t)
  BY <1>11, <1>12
<1> QED
  BY <1>5, <1>7, <1>10, <1>13, <1>14 DEF hit, s

(* The window slides as over code points.                                  *)
LEMMA WindowSlides ==
  ASSUME NEW cs \in Seq(Entries), NEW n \in 1 .. Len(cs), NEW w, WindowAt(cs, n - 1, w),
         NEW k \in Nat \ {0}, Len(w) <= k
  PROVE  /\ WindowAt(cs, n, Slide(w, k, cs[n]))
         /\ CodePoints(Slide(w, k, cs[n])) = Slide(CodePoints(w), k, cs[n].ch)
         /\ Len(Slide(w, k, cs[n])) \in 1 .. k
<1>1. w \in Seq(Entries) /\ Len(w) <= n - 1 /\ n \in Nat /\ Len(cs) \in Nat
      /\ (\A i \in 1 .. Len(w) : w[i] = cs[n - 1 - Len(w) + i]) /\ Len(w) \in Nat
  BY DEF WindowAt
<1> DEFINE e == cs[n]
           c == cs[n].ch
<1>2. e \in Entries /\ c \in Chars
  BY PrefixNext
<1> HIDE DEF e, c
<1> DEFINE v == Slide(w, k, e)
           u == CodePoints(w)
           x == CodePoints(v)
           y == Slide(u, k, c)
<1>3. /\ v \in Seq(Entries) /\ Len(v) = IF Len(w) < k THEN Len(w) + 1 ELSE k
      /\ \A i \in 1 .. Len(v) - 1 : v[i] = w[Len(w) - Len(v) + 1 + i]
      /\ v[Len(v)] = e
  BY <1>1, <1>2, SlideIs
<1>4. u \in Seq(Chars) /\ Len(u) = Len(w) /\ \A i \in 1 .. Len(w) : u[i] = w[i].ch
  BY <1>1, CodePointsType
<1>5. /\ y \in Seq(Chars) /\ Len(y) = IF Len(u) < k THEN Len(u) + 1 ELSE k
      /\ \A i \in 1 .. Len(y) - 1 : y[i] = u[Len(u) - Len(y) + 1 + i]
      /\ y[Len(y)] = c
  <2> HIDE DEF u
  <2>1. u \in Seq(Chars) /\ Len(u) <= k /\ c \in Chars
    BY <1>2, <1>4
  <2> HIDE DEF v, x
  <2> QED
    BY <2>1, SlideIs
<1> HIDE DEF v, u, y
<1>6. x \in Seq(Chars) /\ Len(x) = Len(v) /\ \A i \in 1 .. Len(v) : x[i] = v[i].ch
  BY <1>3, CodePointsType
<1> HIDE DEF x
<1>7. Len(v) \in 1 .. k /\ Len(v) <= n /\ Len(y) = Len(v) /\ Len(v) - 1 <= Len(w)
  BY <1>1, <1>3, <1>4, <1>5
<1>8. ASSUME NEW i \in 1 .. Len(v) PROVE v[i] = cs[n - Len(v) + i] /\ x[i] = y[i]
  <2>1. CASE i = Len(v)
    <3>1. n - Len(v) + i = n
      BY <1>1, <1>7, <2>1
    <3> QED
      BY <1>3, <1>5, <1>6, <1>7, <2>1, <3>1 DEF e, c
  <2>2. CASE i # Len(v)
    <3> DEFINE j == Len(w) - Len(v) + 1 + i
    <3>1. i \in 1 .. Len(v) - 1 /\ j \in 1 .. Len(w) /\ n - 1 - Len(w) + j = n - Len(v) + i
      BY <1>1, <1>7, <2>2
    <3>2. v[i] = w[j] /\ y[i] = u[j]
      BY <1>3, <1>4, <1>5, <1>7, <3>1
    <3>3. w[j] = cs[n - 1 - Len(w) + j] /\ u[j] = w[j].ch
      BY <1>1, <1>4, <3>1
    <3> QED
      BY <1>6, <3>1, <3>2, <3>3
  <2> QED
    BY <2>1, <2>2
<1>9. x = y
  <2>1. x = [i \in 1 .. Len(v) |-> x[i]] /\ y = [i \in 1 .. Len(v) |-> y[i]]
    BY <1>5, <1>6, <1>7
  <2> QED
    BY <1>8, <2>1
<1>10. WindowAt(cs, n, v)
  BY <1>3, <1>7, <1>8 DEF WindowAt
<1> QED
  BY <1>7, <1>9, <1>10 DEF v, u, x, y, e, c

(* One window of those that end here.                                      *)
LEMMA LocatedNext ==
  ASSUME NEW cs \in Seq(Entries), Rising(cs), NEW n \in 1 .. Len(cs), NEW v,
         WindowAt(cs, n, v), NEW m \in 1 .. Len(v), NEW O \in SUBSET Places(cs), NEW f,
         IsHull(cs, O, f), NEW T, \A o \in O : o[1] <= n - m + 1 /\ o[2] <= n
  PROVE  IsHull(cs, O \cup Hits(CodePoints(cs), {<<n - m + 1, n>>}, T),
                Located(f, LastOf(v, m), T))
<1> DEFINE a == n - m + 1
           w == LastOf(v, m)
<1>1. v \in Seq(Entries) /\ Len(v) <= n /\ n \in Nat /\ Len(cs) \in Nat /\ n <= Len(cs)
      /\ (\A i \in 1 .. Len(v) : v[i] = cs[n - Len(v) + i]) /\ Len(v) \in Nat
  BY DEF WindowAt
<1>2. a \in 1 .. Len(cs) /\ n \in a .. Len(cs) /\ n - a + 1 = m /\ m \in Nat
  BY <1>1
<1>3. /\ w \in Seq(Entries) /\ Len(w) = m
      /\ \A i \in 1 .. m : w[i] = v[Len(v) - m + 1 + i - 1]
  <2>1. Len(v) - m + 1 \in 1 .. Len(v) /\ Len(v) \in Len(v) - m + 1 .. Len(v)
        /\ Len(v) - (Len(v) - m + 1) + 1 = m
    BY <1>1
  <2>2. /\ SubSeq(v, Len(v) - m + 1, Len(v)) \in Seq(Entries)
        /\ SubSeq(v, Len(v) - m + 1, Len(v)) = [i \in 1 .. m |-> v[Len(v) - m + 1 + i - 1]]
        /\ Len(SubSeq(v, Len(v) - m + 1, Len(v))) = m
    BY <1>1, <2>1, SubSeqIs
  <2>3. w = SubSeq(v, Len(v) - m + 1, Len(v))
    BY DEF LastOf
  <2> HIDE DEF w
  <2> QED
    BY <2>2, <2>3
<1>4. ASSUME NEW i \in 1 .. m PROVE w[i] = cs[a + i - 1]
  <2> DEFINE j == Len(v) - m + 1 + i - 1
  <2>1. j \in 1 .. Len(v) /\ n - Len(v) + j = a + i - 1
    BY <1>1
  <2> QED
    BY <1>1, <1>3, <2>1
<1>5. \A o \in O : o[1] <= a /\ o[2] <= n
  OBVIOUS
<1> HIDE DEF a, w
<1>6. IsHull(cs, O \cup Hits(CodePoints(cs), {<<a, n>>}, T), Located(f, w, T))
  BY <1>2, <1>3, <1>4, <1>5, LocatedHull
<1> QED
  BY <1>6 DEF a, w

(* All the windows of a run that end here.                                 *)
LocatedAll(f, gs, T) ==
  LET f1 == IF gs = <<>> THEN f ELSE Located(f, gs[1], T)
  IN IF Len(gs) = 2 THEN Located(f1, gs[2], T) ELSE f1

LEMMA FoundHere ==
  ASSUME NEW cs \in Seq(Entries), Rising(cs), NEW n \in 1 .. Len(cs), NEW t \in Tokenizers,
         t.width = 0, cs[n].ch \notin Break, NEW v, WindowAt(cs, n, v),
         NEW k, k = Sizes[ClassAt(Prefix(cs, n), n)], Holds(Prefix(cs, n), CodePoints(v), k, t),
         NEW T, NEW f, IsHull(cs, Occurring(cs, t, T, n - 1), f)
  PROVE  IsHull(cs, Occurring(cs, t, T, n), LocatedAll(f, Completed(v, k), T))
<1> DEFINE s == Prefix(cs, n)
           O == Occurring(cs, t, T, n - 1)
           P(m) == <<n - m + 1, n>>
           hit(G) == Hits(CodePoints(cs), G, T)
<1>1. n \in 0 .. Len(cs) /\ n \in Nat \ {0} /\ Len(cs) \in Nat
  OBVIOUS
<1>2. s \in Seq(Chars) /\ Len(s) = n /\ s[n] = cs[n].ch
  BY <1>1, PrefixIs
<1>3. k \in 1 .. 3
  BY <1>1, <1>2, ClassIs, TableFacts
<1>4. v \in Seq(Entries) /\ Len(v) \in Nat /\ Len(v) <= k /\ Len(v) <= n
      /\ Len(CodePoints(v)) = Len(v)
  <2>1. v \in Seq(Entries)
    BY DEF WindowAt
  <2>2. Len(CodePoints(v)) = Len(v) /\ Len(v) \in Nat
    BY <2>1, CodePointsType
  <2> QED
    BY <2>1, <2>2 DEF Holds, WindowAt
<1> HIDE DEF s
<1>5. NewGrams(s, t) = {P(m) : m \in {m \in {k} \cup ({k - 1} \ {0}) : m <= Len(v)}}
  <2>1. NewGrams(s, t) = Reached(s, CodePoints(v), k, t)
    BY <1>1, <1>2, <1>3, WindowCompletes DEF s
  <2>2. {k} \cup (IF t.width > 0 THEN {} ELSE {k - 1} \ {0}) = {k} \cup ({k - 1} \ {0})
    OBVIOUS
  <2> QED
    BY <1>2, <1>4, <2>1, <2>2 DEF Reached
<1>6. /\ Occurring(cs, t, T, n) = O \cup hit(NewGrams(s, t)) /\ O \in SUBSET Places(cs)
      /\ \A o \in O : o[2] <= n
      /\ \A o \in O : \A p \in NewGrams(s, t) : o[1] <= p[1]
  <2>1. /\ Occurring(cs, t, T, n) = O \cup hit(NewGrams(s, t)) /\ O \in SUBSET Places(cs)
        /\ \A o \in O : o[2] < n
        /\ \A o \in O : \A p \in NewGrams(s, t) : o[1] <= p[1]
    BY OccurringNext DEF s
  <2> HIDE DEF O, hit
  <2>2. DOMAIN cs = 1 .. Len(cs)
    BY Members
  <2>3. \A o \in O : o[2] \in 1 .. Len(cs)
    BY <2>1, <2>2 DEF Places
  <2>4. \A o \in O : o[2] <= n
    BY <1>1, <2>1, <2>3
  <2> QED
    BY <2>1, <2>4
<1>7. LastOf(v, Len(v)) = v
  BY <1>4 DEF LastOf
<1>8. Completed(v, k) = (IF Len(v) = k THEN <<v>> ELSE <<>>)
           \o (IF k - 1 >= 1 /\ Len(v) >= k - 1 THEN <<LastOf(v, k - 1)>> ELSE <<>>)
  BY DEF Completed
<1> DEFINE l == LastOf(v, k - 1)
<1> HIDE DEF l, O
<1>9. ASSUME NEW m \in 1 .. Len(v), P(m) \in NewGrams(s, t)
      PROVE  IsHull(cs, O \cup hit({P(m)}), Located(f, LastOf(v, m), T))
  <2>1. \A o \in O : o[1] <= n - m + 1 /\ o[2] <= n
    BY <1>6, <1>9
  <2> QED
    BY <1>1, <1>6, <2>1, LocatedNext DEF O
<1>10. CASE Len(v) = k /\ k > 1
  <2>1. NewGrams(s, t) = {P(k), P(k - 1)}
    <3>1. {m \in {k} \cup ({k - 1} \ {0}) : m <= Len(v)} = {k, k - 1}
      BY <1>3, <1>10
    <3> QED
      BY <1>5, <3>1
  <2>2. Completed(v, k) = <<v, l>>
    BY <1>3, <1>8, <1>10, JoinOnes DEF l
  <2>3. IsHull(cs, O \cup hit({P(k)}), Located(f, v, T))
    <3>1. k \in 1 .. Len(v) /\ P(k) \in NewGrams(s, t)
      BY <1>3, <1>10, <2>1
    <3> QED
      BY <1>7, <1>9, <1>10, <3>1
  <2> DEFINE O1 == O \cup hit({P(k)})
             f1 == Located(f, v, T)
  <2>4. O1 \in SUBSET Places(cs) /\ \A o \in O1 : o[1] <= n - (k - 1) + 1 /\ o[2] <= n
    <3>1. hit({P(k)}) \in SUBSET {P(k)}
      BY DEF Hits
    <3>2. P(k) \in Places(cs) /\ n - k + 1 <= n - (k - 1) + 1
      BY <1>1, <1>3, <1>4, <1>10, Members DEF Places
    <3>3. \A o \in O : o[1] <= n - (k - 1) + 1 /\ o[2] <= n
      BY <1>6, <2>1
    <3>4. P(k)[1] = n - k + 1 /\ P(k)[2] = n /\ n <= n
      BY <1>1
    <3>5. \A o \in O1 : o \in O \/ o = P(k)
      BY <3>1
    <3>6. O1 \in SUBSET Places(cs)
      BY <1>6, <3>2, <3>5
    <3> HIDE DEF hit, P, O1
    <3> QED
      BY <3>2, <3>3, <3>4, <3>5, <3>6
  <2> HIDE DEF O1, f1
  <2>5. IsHull(cs, O1 \cup hit({P(k - 1)}), Located(f1, l, T))
    <3>1. k - 1 \in 1 .. Len(v)
      BY <1>3, <1>10
    <3>2. IsHull(cs, O1, f1)
      BY <2>3 DEF O1, f1
    <3> QED
      BY <1>1, <2>4, <3>1, <3>2, LocatedNext DEF l
  <2>6. O1 \cup hit({P(k - 1)}) = O \cup hit(NewGrams(s, t))
    BY <2>1 DEF O1, Hits
  <2>7. LocatedAll(f, Completed(v, k), T) = Located(f1, l, T)
    BY <2>2 DEF LocatedAll, f1
  <2> QED
    BY <1>6, <2>5, <2>6, <2>7
<1>11. CASE Len(v) = k /\ ~ (k > 1)
  <2>1. NewGrams(s, t) = {P(k)}
    <3>1. {m \in {k} \cup ({k - 1} \ {0}) : m <= Len(v)} = {k}
      BY <1>3, <1>11
    <3> QED
      BY <1>5, <3>1
  <2>2. Completed(v, k) = <<v>>
    <3>1. ~ (k - 1 >= 1 /\ Len(v) >= k - 1)
      BY <1>3, <1>11
    <3>2. Completed(v, k) = <<v>> \o <<>>
      BY <1>8, <1>11, <3>1, Zenon
    <3> QED
      BY <3>2, JoinOnes
  <2>3. k \in 1 .. Len(v) /\ P(k) \in NewGrams(s, t)
    BY <1>3, <1>11, <2>1
  <2>4. IsHull(cs, O \cup hit({P(k)}), Located(f, v, T))
    BY <1>7, <1>9, <1>11, <2>3
  <2>5. LocatedAll(f, Completed(v, k), T) = Located(f, v, T)
    BY <2>2 DEF LocatedAll
  <2> QED
    BY <1>6, <2>1, <2>4, <2>5
<1>12. CASE Len(v) # k /\ k > 1 /\ Len(v) = k - 1
  <2>1. NewGrams(s, t) = {P(k - 1)}
    <3>1. {m \in {k} \cup ({k - 1} \ {0}) : m <= Len(v)} = {k - 1}
      BY <1>3, <1>12
    <3> QED
      BY <1>5, <3>1
  <2>2. Completed(v, k) = <<v>>
    <3>1. k - 1 >= 1 /\ Len(v) >= k - 1
      BY <1>3, <1>12
    <3>2. LastOf(v, k - 1) = v
      BY <1>7, <1>12
    <3>3. Completed(v, k) = <<>> \o <<v>>
      BY <1>8, <1>12, <3>1, <3>2, Zenon
    <3>4. <<v>> \in Seq({v})
      OBVIOUS
    <3> QED
      BY <3>3, <3>4
  <2>3. k - 1 \in 1 .. Len(v) /\ P(k - 1) \in NewGrams(s, t)
    BY <1>3, <1>12, <2>1
  <2>4. IsHull(cs, O \cup hit({P(k - 1)}), Located(f, v, T))
    BY <1>7, <1>9, <1>12, <2>3
  <2>5. LocatedAll(f, Completed(v, k), T) = Located(f, v, T)
    BY <2>2 DEF LocatedAll
  <2> QED
    BY <1>6, <2>1, <2>4, <2>5
<1>13. CASE Len(v) # k /\ ~ (k > 1 /\ Len(v) = k - 1)
  <2>1. NewGrams(s, t) = {}
    <3>1. {m \in {k} \cup ({k - 1} \ {0}) : m <= Len(v)} = {}
      BY <1>3, <1>4, <1>13
    <3> QED
      BY <1>5, <3>1
  <2>2. Completed(v, k) = <<>>
    <3>1. ~ (k - 1 >= 1 /\ Len(v) >= k - 1)
      BY <1>3, <1>4, <1>13
    <3>2. Completed(v, k) = <<>> \o <<>>
      BY <1>8, <1>13, <3>1, Zenon
    <3> QED
      BY <3>2
  <2>3. LocatedAll(f, Completed(v, k), T) = f
    BY <2>2 DEF LocatedAll
  <2>4. hit({}) = {}
    BY DEF Hits
  <2> QED
    BY <1>6, <2>1, <2>3, <2>4 DEF O
<1> QED
  BY <1>10, <1>11, <1>12, <1>13

-----------------------------------------------------------------------------
(* One character of span.                                                  *)

SpanNext(acc, e, t, T) ==
  IF t.width = 0 THEN SpanDefault(acc, e, T) ELSE SpanNgram(acc, e, t.width, T)

LEMMA SpanBreak ==
  ASSUME NEW cs \in Seq(Entries), Rising(cs), NEW n \in 1 .. Len(cs), NEW t \in Tokenizers,
         NEW T, NEW acc, acc = [class |-> acc.class, primary |-> acc.primary,
                                win |-> acc.win, found |-> acc.found],
         Spanned(cs, t, T, n - 1, acc), t.width = 0, cs[n].ch \in Break
  PROVE  Spanned(cs, t, T, n, SpanNext(acc, cs[n], t, T))
<1> DEFINE a2 == SpanNext(acc, cs[n], t, T)
           s == Prefix(cs, n)
<1>1. a2 = [class |-> NoClass, primary |-> 0, win |-> <<>>, found |-> acc.found]
  BY DEF SpanNext, SpanDefault
<1>2. a2.class = NoClass /\ a2.primary = 0 /\ a2.win = <<>> /\ a2.found = acc.found
  BY <1>1
<1> HIDE DEF a2
<1>3. n \in 0 .. Len(cs) /\ n \in Nat \ {0}
  OBVIOUS
<1>4. s \in Seq(Chars) /\ Len(s) = n /\ s[n] = cs[n].ch
  BY <1>3, PrefixIs
<1>5. NewGrams(s, t) = {}
  <2> DEFINE r == Prefix(cs, n - 1)
             c == cs[n].ch
  <2>1. s = Append(r, c) /\ r \in Seq(Chars) /\ c \in Chars
    BY PrefixNext
  <2> HIDE DEF r, s
  <2>2. NewGrams(Append(r, c), t) = {}
    BY <2>1, BreakCompletesNone
  <2> QED
    BY <2>1, <2>2
<1>6. Occurring(cs, t, T, n) = Occurring(cs, t, T, n - 1)
  <2> DEFINE G == NewGrams(Prefix(cs, n), t)
  <2>1. Occurring(cs, t, T, n) = Occurring(cs, t, T, n - 1) \cup Hits(CodePoints(cs), G, T)
    BY OccurringNext
  <2>2. G = {}
    BY <1>5
  <2> HIDE DEF G
  <2>3. Hits(CodePoints(cs), G, T) = {}
    BY <2>2 DEF Hits
  <2> QED
    BY <2>1, <2>3
<1>7. CurrentClass(s) = NoClass
  BY <1>3, <1>4 DEF CurrentClass
<1> HIDE DEF s
<1>8. CodePoints(<<>>) = <<>> /\ WindowAt(cs, n, <<>>)
  <2>1. <<>> \in Seq(Entries) /\ Len(<<>>) = 0
    OBVIOUS
  <2>2. CodePoints(<<>>) \in Seq(Chars) /\ Len(CodePoints(<<>>)) = 0
    BY <2>1, CodePointsType
  <2> QED
    BY <1>3, <2>1, <2>2 DEF WindowAt
<1>9. Holds(s, <<>>, 0, t)
  BY <1>3, <1>4 DEF Holds
<1>10. WidthOf(t, a2) = 0
  BY <1>2 DEF WidthOf
<1> QED
  BY <1>2, <1>6, <1>7, <1>8, <1>9, <1>10 DEF Spanned, s, a2

LEMMA SpanRun ==
  ASSUME NEW cs \in Seq(Entries), Rising(cs), NEW n \in 1 .. Len(cs), NEW t \in Tokenizers,
         NEW T, NEW acc, Spanned(cs, t, T, n - 1, acc), t.width = 0, cs[n].ch \notin Break
  PROVE  Spanned(cs, t, T, n, SpanNext(acc, cs[n], t, T))
<1> DEFINE a2 == SpanNext(acc, cs[n], t, T)
           r == Prefix(cs, n - 1)
           s == Prefix(cs, n)
           cl == ScriptClassOf(cs[n].ch, acc.class)
           k == IF cl = acc.class THEN acc.primary ELSE Sizes[cl]
           u == IF cl = acc.class THEN acc.win ELSE <<>>
           v == Slide(u, k, cs[n])
           f == LocatedAll(acc.found, Completed(v, k), T)
<1>1. /\ WindowAt(cs, n - 1, acc.win) /\ Holds(r, CodePoints(acc.win), acc.primary, t)
      /\ acc.class = CurrentClass(r)
      /\ acc.primary = IF acc.class = NoClass THEN 0 ELSE Sizes[acc.class]
      /\ IsHull(cs, Occurring(cs, t, T, n - 1), acc.found)
  BY DEF Spanned, WidthOf
<1>2. a2 = [class |-> cl, primary |-> k, win |-> v, found |-> f]
  BY DEF SpanNext, SpanDefault, LocatedAll
<1>3. a2.class = cl /\ a2.primary = k /\ a2.win = v /\ a2.found = f
  BY <1>2
<1> HIDE DEF a2, f
<1>4. s = Append(r, cs[n].ch) /\ r \in Seq(Chars) /\ Len(r) = n - 1 /\ cs[n].ch \in Chars
  BY PrefixNext
<1>5. n \in Nat \ {0} /\ Len(r) + 1 = n
  BY <1>4
<1> DEFINE w == IF cl = acc.class THEN CodePoints(acc.win) ELSE <<>>
<1> HIDE DEF r, s, v, w, k, cl
<1>6. /\ cl = ClassAt(s, n) /\ cl = CurrentClass(s) /\ cl \in DOMAIN Sizes /\ cl # NoClass
      /\ k = Sizes[cl] /\ k \in 1 .. 3 /\ Holds(s, Slide(w, k, cs[n].ch), k, t)
  <2> DEFINE c == cs[n].ch
             W == CodePoints(acc.win)
             d == acc.class
             p == acc.primary
  <2>1. c \in Chars /\ c \notin Break /\ s = Append(r, c) /\ r \in Seq(Chars)
    BY <1>4
  <2>2. /\ d = CurrentClass(r) /\ (CurrentClass(r) # NoClass => p = Sizes[CurrentClass(r)])
        /\ Holds(r, W, p, t) /\ cl = ScriptClassOf(c, CurrentClass(r))
    BY <1>1 DEF cl
  <2>3. /\ (cl = d => k = p /\ w = W)
        /\ (cl # d => k = Sizes[cl] /\ w = <<>>)
    BY DEF w, k
  <2> HIDE DEF c, W, d, p
  <2> DEFINE cr == ScriptClassOf(c, CurrentClass(r))
             rc == Append(r, c)
  <2>4. /\ cr = ClassAt(rc, Len(r) + 1) /\ cr = CurrentClass(rc)
        /\ cr \in DOMAIN Sizes /\ cr # NoClass /\ Sizes[cr] \in 1 .. 3
        /\ cr = CurrentClass(r) => p = Sizes[cr] /\ Holds(rc, Slide(W, p, c), p, t)
        /\ cr # CurrentClass(r) => Holds(rc, Slide(<<>>, Sizes[cr], c), Sizes[cr], t)
    BY <2>1, <2>2, RunSlides
  <2> HIDE DEF cr, rc
  <2>5. cl = cr /\ rc = s
    BY <2>1, <2>2 DEF cr, rc
  <2>6. k = Sizes[cl] /\ Holds(s, Slide(w, k, c), k, t)
    BY <2>2, <2>3, <2>4, <2>5
  <2> QED
    BY <1>5, <2>4, <2>5, <2>6 DEF c
<1>7. k \in Nat \ {0} /\ k = Sizes[ClassAt(s, n)]
  BY <1>6
<1>8. <<>> \in Seq(Entries) /\ CodePoints(<<>>) = <<>> /\ Len(<<>>) = 0
  <2>1. <<>> \in Seq(Entries) /\ Len(<<>>) = 0
    OBVIOUS
  <2>2. CodePoints(<<>>) \in Seq(Chars) /\ Len(CodePoints(<<>>)) = 0
    BY <2>1, CodePointsType
  <2> QED
    BY <2>1, <2>2
<1>9. WindowAt(cs, n - 1, u) /\ Len(u) <= k /\ CodePoints(u) = w
  <2>1. CASE cl = acc.class
    <3>1. u = acc.win /\ w = CodePoints(acc.win) /\ k = acc.primary
      BY <2>1 DEF w, k
    <3>2. Len(CodePoints(acc.win)) = Len(acc.win)
      BY <1>1, CodePointsType DEF WindowAt
    <3>3. Len(CodePoints(acc.win)) <= acc.primary
      BY <1>1 DEF Holds
    <3> QED
      BY <1>1, <3>1, <3>2, <3>3
  <2>2. CASE cl # acc.class
    <3>1. u = <<>> /\ w = <<>>
      BY <2>2 DEF w
    <3>2. WindowAt(cs, n - 1, <<>>)
      BY <1>5, <1>8 DEF WindowAt
    <3> QED
      BY <1>7, <1>8, <3>1, <3>2
  <2> QED
    BY <2>1, <2>2
<1> HIDE DEF u
<1>10. WindowAt(cs, n, v) /\ CodePoints(v) = Slide(w, k, cs[n].ch)
  BY <1>7, <1>9, WindowSlides DEF v
<1>11. Holds(s, CodePoints(v), k, t)
  BY <1>6, <1>10
<1>12. IsHull(cs, Occurring(cs, t, T, n), f)
  BY <1>1, <1>7, <1>10, <1>11, FoundHere DEF f, s
<1>13. WidthOf(t, a2) = k
  BY <1>3 DEF WidthOf
<1> QED
  BY <1>3, <1>6, <1>10, <1>11, <1>12, <1>13 DEF Spanned, s, a2

LEMMA SpanWindow ==
  ASSUME NEW cs \in Seq(Entries), Rising(cs), NEW n \in 1 .. Len(cs), NEW t \in Tokenizers,
         NEW T, NEW acc, acc = [class |-> acc.class, primary |-> acc.primary,
                                win |-> acc.win, found |-> acc.found],
         Spanned(cs, t, T, n - 1, acc), t.width # 0
  PROVE  Spanned(cs, t, T, n, SpanNext(acc, cs[n], t, T))
<1> DEFINE a2 == SpanNext(acc, cs[n], t, T)
           r == Prefix(cs, n - 1)
           s == Prefix(cs, n)
           k == t.width
           v == Slide(acc.win, k, cs[n])
           f == IF Len(v) = k THEN Located(acc.found, v, T) ELSE acc.found
           O == Occurring(cs, t, T, n - 1)
           hit(G) == Hits(CodePoints(cs), G, T)
<1>1. k \in Nat \ {0} /\ t.width > 0
  BY TokenizersAssumption DEF Settings
<1>2. a2 = [class |-> acc.class, primary |-> acc.primary, win |-> v, found |-> f]
  BY DEF SpanNext, SpanNgram
<1>3. a2.win = v /\ a2.found = f
  BY <1>2
<1> HIDE DEF a2, f
<1>4. /\ WindowAt(cs, n - 1, acc.win) /\ Holds(r, CodePoints(acc.win), k, t)
      /\ IsHull(cs, O, acc.found)
  BY <1>1 DEF Spanned, WidthOf
<1>5. s = Append(r, cs[n].ch) /\ r \in Seq(Chars) /\ Len(r) = n - 1 /\ cs[n].ch \in Chars
  BY PrefixNext
<1>6. n \in Nat \ {0} /\ Len(r) + 1 = n /\ n \in 0 .. Len(cs) /\ Len(cs) \in Nat
  BY <1>5
<1>7. s \in Seq(Chars) /\ Len(s) = n
  BY <1>6, PrefixIs
<1> HIDE DEF r, s, v, k, O
<1>8. Holds(s, Slide(CodePoints(acc.win), k, cs[n].ch), k, t)
  BY <1>1, <1>4, <1>5, SlideOn DEF InRun
<1>9. Len(acc.win) <= k
  BY <1>4, CodePointsType DEF Holds, WindowAt
<1>10. WindowAt(cs, n, v) /\ CodePoints(v) = Slide(CodePoints(acc.win), k, cs[n].ch)
       /\ Len(v) \in 1 .. k
  BY <1>1, <1>4, <1>9, WindowSlides DEF v
<1>11. Holds(s, CodePoints(v), k, t) /\ Len(CodePoints(v)) = Len(v)
  BY <1>8, <1>10, CodePointsType DEF WindowAt
<1>12. NewGrams(s, t) = {<<n - m + 1, n>> : m \in {m \in {k} : m <= Len(v)}}
  <2>1. NewGrams(s, t) = Reached(s, CodePoints(v), k, t)
    BY <1>1, <1>6, <1>7, <1>11, WindowCompletes DEF k
  <2>2. {k} \cup (IF t.width > 0 THEN {} ELSE {k - 1} \ {0}) = {k}
    BY <1>1
  <2> QED
    BY <1>7, <1>11, <2>1, <2>2 DEF Reached
<1>13. /\ Occurring(cs, t, T, n) = O \cup hit(NewGrams(s, t)) /\ O \in SUBSET Places(cs)
       /\ \A o \in O : o[2] < n
       /\ \A o \in O : \A p \in NewGrams(s, t) : o[1] <= p[1]
  BY OccurringNext DEF s, O
<1>14. \A o \in O : o[2] <= n
  <2>1. DOMAIN cs = 1 .. Len(cs)
    BY Members
  <2>2. \A o \in O : o[2] \in 1 .. Len(cs)
    BY <1>13, <2>1 DEF Places
  <2> QED
    BY <1>6, <1>13, <2>2
<1>15. IsHull(cs, Occurring(cs, t, T, n), f)
  <2>1. CASE Len(v) = k
    <3> DEFINE P == <<n - k + 1, n>>
    <3>1. NewGrams(s, t) = {P}
      BY <1>1, <1>12, <2>1
    <3>2. \A o \in O : o[1] <= n - k + 1 /\ o[2] <= n
      BY <1>13, <1>14, <3>1
    <3>3. LastOf(v, k) = v
      BY <1>10, <2>1 DEF LastOf, WindowAt
    <3>4. k \in 1 .. Len(v)
      BY <1>1, <2>1
    <3>5. IsHull(cs, O \cup hit({P}), Located(acc.found, LastOf(v, k), T))
      BY <1>4, <1>10, <1>13, <3>2, <3>4, LocatedNext
    <3> HIDE DEF P
    <3> QED
      BY <1>13, <2>1, <3>1, <3>3, <3>5 DEF f
  <2>2. CASE Len(v) # k
    <3>1. NewGrams(s, t) = {}
      BY <1>1, <1>10, <1>12, <2>2
    <3>2. hit({}) = {}
      BY DEF Hits
    <3> QED
      BY <1>4, <1>13, <2>2, <3>1, <3>2 DEF f
  <2> QED
    BY <2>1, <2>2
<1>16. WidthOf(t, a2) = k
  BY <1>1 DEF WidthOf, k
<1> QED
  BY <1>1, <1>3, <1>10, <1>11, <1>15, <1>16 DEF Spanned, s, a2

-----------------------------------------------------------------------------
(* span folds over the characters.                                         *)

Founds == {<<>>} \cup (Nat \X Nat)

SpanStates ==
  {a \in [class : DOMAIN Sizes \cup {NoClass}, primary : Nat, win : Seq(Entries),
          found : Founds] : a.class # NoClass => a.primary = Sizes[a.class]}

SpanStart == [class |-> NoClass, primary |-> 0, win |-> <<>>, found |-> <<>>]

LEMMA SlideType ==
  ASSUME NEW C, NEW w \in Seq(C), NEW k \in Nat \ {0}, NEW c \in C
  PROVE  Slide(w, k, c) \in Seq(C) /\ Len(Slide(w, k, c)) \in Nat \ {0}
<1>1. Len(w) \in Nat
  OBVIOUS
<1>2. CASE Len(w) < k
  BY <1>1, <1>2 DEF Slide
<1>3. CASE ~ (Len(w) < k)
  <2>1. w # <<>>
    BY <1>1, <1>3
  <2>2. Tail(w) \in Seq(C)
    BY <2>1
  <2> QED
    BY <1>3, <2>2 DEF Slide
<1> QED
  BY <1>2, <1>3

LEMMA LocatedType ==
  ASSUME NEW f \in Founds, NEW w \in Seq(Entries), Len(w) \in Nat \ {0}, NEW T
  PROVE  Located(f, w, T) \in Founds
<1>1. w[1].from \in Nat /\ w[Len(w)].to \in Nat
  BY CodePointsType
<1>2. f # <<>> => f[1] \in Nat /\ f[2] \in Nat
  BY DEF Founds
<1> QED
  BY <1>1, <1>2 DEF Located, Founds

LEMMA CompletedType ==
  ASSUME NEW w \in Seq(Entries), NEW k \in 1 .. 3, NEW f \in Founds, NEW T
  PROVE  LocatedAll(f, Completed(w, k), T) \in Founds
<1> DEFINE l == LastOf(w, k - 1)
           two == k - 1 >= 1 /\ Len(w) >= k - 1
           gs == Completed(w, k)
<1>1. Len(w) \in Nat
  OBVIOUS
<1>2. two => l \in Seq(Entries) /\ Len(l) \in Nat \ {0}
  <2> SUFFICES ASSUME two PROVE l \in Seq(Entries) /\ Len(l) \in Nat \ {0}
    OBVIOUS
  <2>1. Len(w) - (k - 1) + 1 \in 1 .. Len(w) /\ Len(w) \in Len(w) - (k - 1) + 1 .. Len(w)
        /\ Len(w) - (Len(w) - (k - 1) + 1) + 1 = k - 1 /\ k - 1 \in Nat \ {0}
    BY <1>1
  <2>2. /\ SubSeq(w, Len(w) - (k - 1) + 1, Len(w)) \in Seq(Entries)
        /\ Len(SubSeq(w, Len(w) - (k - 1) + 1, Len(w))) = k - 1
    BY <1>1, <2>1, SubSeqIs
  <2>3. l = SubSeq(w, Len(w) - (k - 1) + 1, Len(w))
    BY DEF LastOf
  <2> HIDE DEF l
  <2> QED
    BY <2>1, <2>2, <2>3
<1>3. gs = (IF Len(w) = k THEN <<w>> ELSE <<>>) \o (IF two THEN <<l>> ELSE <<>>)
  BY DEF Completed
<1>4. \/ gs = <<w>> /\ Len(w) = k
      \/ gs = <<>>
      \/ gs = <<w, l>> /\ Len(w) = k /\ two
      \/ gs = <<l>> /\ two
  <2>1. <<w>> \o <<l>> = <<w, l>> /\ <<w>> \o <<>> = <<w>>
    BY JoinOnes
  <2>2. <<>> \o <<l>> = <<l>> /\ <<>> \o <<>> = <<>>
    <3>1. <<l>> \in Seq({l})
      OBVIOUS
    <3> QED
      BY <3>1
  <2> HIDE DEF gs, l, two
  <2> QED
    BY <1>3, <2>1, <2>2, Zenon
<1> HIDE DEF gs, l, two
<1>5. gs = <<w>> /\ Len(w) = k => LocatedAll(f, gs, T) \in Founds
  BY LocatedType DEF LocatedAll
<1>6. gs = <<>> => LocatedAll(f, gs, T) \in Founds
  BY DEF LocatedAll
<1>7. gs = <<w, l>> /\ Len(w) = k /\ two => LocatedAll(f, gs, T) \in Founds
  <2> SUFFICES ASSUME gs = <<w, l>>, Len(w) = k, two PROVE LocatedAll(f, gs, T) \in Founds
    OBVIOUS
  <2>1. Located(f, w, T) \in Founds
    BY LocatedType
  <2>2. Located(Located(f, w, T), l, T) \in Founds
    BY <1>2, <2>1, LocatedType
  <2>3. LocatedAll(f, gs, T) = Located(Located(f, w, T), l, T)
    BY DEF LocatedAll
  <2> QED
    BY <2>2, <2>3
<1>8. gs = <<l>> /\ two => LocatedAll(f, gs, T) \in Founds
  BY <1>2, LocatedType DEF LocatedAll
<1> QED
  BY <1>4, <1>5, <1>6, <1>7, <1>8 DEF gs

LEMMA SpanNextType ==
  ASSUME NEW t \in Tokenizers, NEW T, NEW a \in SpanStates, NEW e \in Entries
  PROVE  SpanNext(a, e, t, T) \in SpanStates
<1>1. /\ a.class \in DOMAIN Sizes \cup {NoClass} /\ a.primary \in Nat
      /\ a.win \in Seq(Entries) /\ a.found \in Founds
      /\ (a.class # NoClass => a.primary = Sizes[a.class])
      /\ a = [class |-> a.class, primary |-> a.primary, win |-> a.win, found |-> a.found]
  BY DEF SpanStates
<1>2. e.ch \in Chars
  BY DEF Entries
<1>3. CASE t.width # 0
  <2> DEFINE k == t.width
             w == Slide(a.win, k, e)
             f == IF Len(w) = k THEN Located(a.found, w, T) ELSE a.found
  <2>1. k \in Nat \ {0}
    BY <1>3, TokenizersAssumption DEF Settings
  <2>2. SpanNext(a, e, t, T) =
          [class |-> a.class, primary |-> a.primary, win |-> w, found |-> f]
    BY <1>1, <1>3 DEF SpanNext, SpanNgram
  <2> HIDE DEF k
  <2>3. w \in Seq(Entries) /\ Len(w) \in Nat \ {0}
    BY <1>1, <2>1, SlideType
  <2> HIDE DEF w
  <2>4. f \in Founds
    BY <1>1, <2>3, LocatedType
  <2> HIDE DEF f
  <2> QED
    BY <1>1, <2>2, <2>3, <2>4 DEF SpanStates
<1>4. CASE t.width = 0 /\ e.ch \in Break
  <2>1. SpanNext(a, e, t, T) =
          [class |-> NoClass, primary |-> 0, win |-> <<>>, found |-> a.found]
    BY <1>1, <1>4 DEF SpanNext, SpanDefault
  <2> QED
    BY <1>1, <2>1 DEF SpanStates
<1>5. CASE t.width = 0 /\ e.ch \notin Break
  <2> DEFINE cl == ScriptClassOf(e.ch, a.class)
             k == IF cl = a.class THEN a.primary ELSE Sizes[cl]
             u == IF cl = a.class THEN a.win ELSE <<>>
             w == Slide(u, k, e)
             f == LocatedAll(a.found, Completed(w, k), T)
  <2>1. SpanNext(a, e, t, T) = [class |-> cl, primary |-> k, win |-> w, found |-> f]
    BY <1>1, <1>5 DEF SpanNext, SpanDefault, LocatedAll
  <2>2. cl \in DOMAIN Sizes /\ cl # NoClass
    BY <1>1, <1>2, TableFacts DEF ScriptClassOf
  <2> HIDE DEF cl
  <2>3. k = Sizes[cl] /\ k \in 1 .. 3 /\ k \in Nat \ {0}
    BY <1>1, <2>2, TableFacts
  <2>4. u \in Seq(Entries)
    BY <1>1
  <2> HIDE DEF k, u
  <2>5. w \in Seq(Entries)
    BY <2>3, <2>4, SlideType
  <2> HIDE DEF w
  <2>6. f \in Founds
    BY <1>1, <2>3, <2>5, CompletedType
  <2> HIDE DEF f
  <2> QED
    BY <2>1, <2>2, <2>3, <2>5, <2>6 DEF SpanStates
<1> QED
  BY <1>3, <1>4, <1>5

SpanFolds(cs, t, T, f) ==
  f = [U \in SUBSET DOMAIN cs |->
         IF U = {} THEN SpanStart ELSE SpanNext(f[U \ {Max(U)}], cs[Max(U)], t, T)]

LEMMA SpanFoldExists ==
  ASSUME NEW cs \in Seq(Entries), NEW t \in Tokenizers, NEW T
  PROVE  \E f : SpanFolds(cs, t, T, f)
<1> DEFINE op == [p \in SpanStates \X Entries |-> SpanNext(p[1], p[2], t, T)]
<1>1. \A a \in SpanStates, e \in Entries :
        op[<<a, e>>] = SpanNext(a, e, t, T) /\ op[<<a, e>>] \in SpanStates
  BY SpanNextType
<1>2. SpanStart \in SpanStates
  BY DEF SpanStart, SpanStates, Founds
<1> HIDE DEF op
<1>3. PICK f \in [SUBSET DOMAIN cs -> SpanStates] : Folds(op, SpanStart, cs, f)
  BY <1>1, <1>2, FoldsExist
<1>4. ASSUME NEW U \in SUBSET DOMAIN cs, U # {}
      PROVE  f[U] = SpanNext(f[U \ {Max(U)}], cs[Max(U)], t, T)
  <2>1. f[U] = op[<<f[U \ {Max(U)}], cs[Max(U)]>>]
    BY <1>3, <1>4 DEF Folds
  <2>2. DOMAIN cs = 1 .. Len(cs) /\ Len(cs) \in Nat
    BY Members
  <2>3. Max(U) \in DOMAIN cs
    BY <1>4, <2>2, MaxIn
  <2>4. cs[Max(U)] \in Entries /\ f[U \ {Max(U)}] \in SpanStates
    BY <1>3, <2>3
  <2> QED
    BY <1>1, <2>1, <2>4
<1>5. f[{}] = SpanStart
  BY <1>3 DEF Folds
<1>6. f = [U \in SUBSET DOMAIN cs |-> f[U]]
  BY <1>3
<1> QED
  BY <1>4, <1>5, <1>6 DEF SpanFolds

(* span after each of the characters.                                      *)
LEMMA SpanAt ==
  ASSUME NEW cs \in Seq(Entries), Rising(cs), NEW t \in Tokenizers, NEW T,
         NEW f, SpanFolds(cs, t, T, f)
  PROVE  Spanned(cs, t, T, Len(cs), f[1 .. Len(cs)])
<1> DEFINE Good(n) == /\ f[1 .. n] \in SpanStates
                      /\ Spanned(cs, t, T, n, f[1 .. n])
           N == {n \in 0 .. Len(cs) : Good(n)}
<1>1. DOMAIN cs = 1 .. Len(cs) /\ Len(cs) \in Nat /\ \A n \in 1 .. Len(cs) : cs[n] \in Entries
  BY Members
<1>2. /\ f[{}] = SpanStart
      /\ \A U \in SUBSET DOMAIN cs :
           U # {} => f[U] = SpanNext(f[U \ {Max(U)}], cs[Max(U)], t, T)
  BY DEF SpanFolds
<1>3. Good(0)
  <2>1. 1 .. 0 = {} /\ f[1 .. 0] = SpanStart
    BY <1>2
  <2>2. /\ SpanStart.class = NoClass /\ SpanStart.primary = 0
        /\ SpanStart.win = <<>> /\ SpanStart.found = <<>>
    BY DEF SpanStart
  <2>3. SpanStart \in SpanStates
    BY DEF SpanStart, SpanStates, Founds
  <2> DEFINE p == Prefix(cs, 0)
  <2>4. 0 \in 0 .. Len(cs)
    BY <1>1
  <2>5. p \in Seq(Chars) /\ Len(p) = 0 /\ DOMAIN p = {}
    BY <2>1, <2>4, PrefixIs
  <2> HIDE DEF p
  <2>6. CurrentClass(p) = NoClass
    BY <2>5 DEF CurrentClass
  <2>7. Occurring(cs, t, T, 0) = {}
    BY <2>5 DEF Occurring, Hits, GramsIn, p
  <2>8. <<>> \in Seq(Entries) /\ Len(<<>>) = 0
    OBVIOUS
  <2>9. CodePoints(<<>>) \in Seq(Chars) /\ Len(CodePoints(<<>>)) = 0
    BY <2>8, CodePointsType
  <2>10. WindowAt(cs, 0, <<>>)
    BY <2>8 DEF WindowAt
  <2>11. ASSUME NEW k \in Nat PROVE Holds(p, CodePoints(<<>>), k, t)
    BY <2>5, <2>9 DEF Holds
  <2>12. WidthOf(t, SpanStart) \in Nat
    BY <2>2, TokenizersAssumption DEF WidthOf, Settings
  <2>13. Holds(p, CodePoints(<<>>), WidthOf(t, SpanStart), t)
    BY <2>11, <2>12
  <2>14. IsHull(cs, {}, <<>>)
    BY DEF IsHull
  <2>15. Spanned(cs, t, T, 0, SpanStart)
    BY <2>2, <2>6, <2>7, <2>10, <2>13, <2>14 DEF Spanned, p
  <2> QED
    BY <2>1, <2>3, <2>15
<1>4. ASSUME NEW n \in 1 .. Len(cs), Good(n - 1) PROVE Good(n)
  <2> DEFINE a == f[1 .. n - 1]
             e == cs[n]
             a2 == SpanNext(a, e, t, T)
  <2>1. n \in Nat /\ 1 .. n \in SUBSET (1 .. Len(cs)) /\ n \in 1 .. n
    BY <1>1
  <2>2. Max(1 .. n) = n
    <3>1. n \in Nat \ {0}
      BY <2>1
    <3> QED
      BY <3>1, PrefixTop
  <2>3. (1 .. n) \ {n} = 1 .. n - 1
    BY <2>1
  <2>4. f[1 .. n] = a2
    <3> DEFINE U == 1 .. n
    <3>1. U \in SUBSET DOMAIN cs /\ U # {}
      BY <1>1, <2>1
    <3>2. Max(U) = n /\ U \ {n} = 1 .. n - 1
      BY <2>2, <2>3
    <3> HIDE DEF U
    <3>3. f[U] = SpanNext(f[U \ {Max(U)}], cs[Max(U)], t, T)
      BY <1>2, <3>1
    <3> QED
      BY <3>2, <3>3 DEF U
  <2>5. a \in SpanStates /\ Spanned(cs, t, T, n - 1, a)
    BY <1>4
  <2> HIDE DEF a
  <2>6. a2 \in SpanStates
    BY <1>1, <2>5, SpanNextType
  <2>7. a = [class |-> a.class, primary |-> a.primary, win |-> a.win, found |-> a.found]
    BY <2>5 DEF SpanStates
  <2>8. t.width = 0 /\ e.ch \in Break => Spanned(cs, t, T, n, a2)
    BY <2>5, <2>7, SpanBreak
  <2>9. t.width = 0 /\ e.ch \notin Break => Spanned(cs, t, T, n, a2)
    BY <2>5, SpanRun
  <2>10. t.width # 0 => Spanned(cs, t, T, n, a2)
    BY <2>5, <2>7, SpanWindow
  <2> HIDE DEF a2
  <2> QED
    BY <2>4, <2>6, <2>8, <2>9, <2>10
<1> HIDE DEF Good
<1>5. 0 \in N /\ \A n \in 1 .. Len(cs) : n - 1 \in N => n \in N
  BY <1>1, <1>3, <1>4
<1> HIDE DEF N
<1>6. \A n \in 0 .. Len(cs) : n \in N
  BY <1>1, <1>5, CountingUp
<1>7. Len(cs) \in N
  BY <1>1, <1>6
<1> QED
  BY <1>7 DEF N, Good

(* What span returns is the hull of what occurs.                           *)
LEMMA SpanFinds ==
  ASSUME NEW cs \in Seq(Entries), Rising(cs), NEW t \in Tokenizers, NEW T
  PROVE  IsHull(cs, Hits(CodePoints(cs), GramsIn(CodePoints(cs), t), T), Span(cs, t, T))
<1> DEFINE f == CHOOSE x : SpanFolds(cs, t, T, x)
<1>1. SpanFolds(cs, t, T, f)
  BY SpanFoldExists
<1>2. Span(cs, t, T) = f[DOMAIN cs].found
  BY DEF Span, FoldLeft, MapThenFoldSet, SpanFolds, SpanStart, SpanNext
<1> HIDE DEF f
<1>3. DOMAIN cs = 1 .. Len(cs) /\ Len(cs) \in Nat
  BY Members
<1>4. Spanned(cs, t, T, Len(cs), f[1 .. Len(cs)])
  BY <1>1, SpanAt
<1>5. IsHull(cs, Occurring(cs, t, T, Len(cs)), Span(cs, t, T))
  BY <1>2, <1>3, <1>4 DEF Spanned
<1>6. Prefix(cs, Len(cs)) = CodePoints(cs)
  <2> DEFINE s == CodePoints(cs)
  <2>1. s \in Seq(Chars) /\ Len(s) = Len(cs)
    BY CodePointsType
  <2> HIDE DEF s
  <2>2. SubSeq(s, 1, Len(s)) = s
    BY <2>1
  <2> QED
    BY <2>1, <2>2 DEF Prefix, s
<1> QED
  BY <1>5, <1>6 DEF Occurring

LEMMA HullIs ==
  ASSUME NEW cs \in Seq(Entries), NEW O \in SUBSET Places(cs), NEW f, IsHull(cs, O, f)
  PROVE  f = IF O = {} THEN <<>>
             ELSE <<cs[CHOOSE i \in {p[1] : p \in O} : \A p \in O : i <= p[1]].from,
                    cs[CHOOSE j \in {p[2] : p \in O} : \A p \in O : j >= p[2]].to>>
<1>1. CASE O = {}
  BY <1>1 DEF IsHull
<1>2. CASE O # {}
  <2>1. PICK p, q \in O : /\ \A o \in O : p[1] <= o[1] /\ o[2] <= q[2]
                          /\ f = <<cs[p[1]].from, cs[q[2]].to>>
    BY <1>2 DEF IsHull
  <2>2. \A o \in O : o[1] \in Nat /\ o[2] \in Nat
    <3>1. DOMAIN cs = 1 .. Len(cs)
      BY Members
    <3> QED
      BY <3>1 DEF Places
  <2> DEFINE Heads == {o[1] : o \in O}
             Ends  == {o[2] : o \in O}
             m == CHOOSE i \in Heads : \A o \in O : i <= o[1]
             l == CHOOSE j \in Ends : \A o \in O : j >= o[2]
  <2>3. p[1] \in Heads /\ q[2] \in Ends /\ (\A o \in O : p[1] <= o[1]) /\ \A o \in O : q[2] >= o[2]
    BY <2>1, <2>2
  <2>4. (m \in Heads /\ \A o \in O : m <= o[1]) /\ (l \in Ends /\ \A o \in O : l >= o[2])
    BY <2>3
  <2> HIDE DEF m, l
  <2>5. PICK a \in O : m = a[1]
    BY <2>4
  <2>6. PICK b \in O : l = b[2]
    BY <2>4
  <2>7. m = p[1] /\ l = q[2]
    BY <2>1, <2>2, <2>4, <2>5, <2>6
  <2> QED
    BY <1>2, <2>1, <2>7 DEF m, l
<1> QED
  BY <1>1, <1>2

TextOK == text \in Seq(Chars) /\ tok \in Tokenizers

LEMMA SpanCorrect ==
  ASSUME TextOK
  PROVE  SpanIsHull
<1> DEFINE cs == NormalizedChars(text, tok)
           s == CodePoints(cs)
           grams == {<<p, SubSeq(s, p[1], p[2])>> : p \in GramsIn(s, tok)}
           Occ(T) == {g[1] : g \in {h \in grams : h[2] \in T}}
           Hull(O) ==
             IF O = {} THEN <<>>
             ELSE <<cs[CHOOSE i \in {p[1] : p \in O} : \A p \in O : i <= p[1]].from,
                    cs[CHOOSE j \in {p[2] : p \in O} : \A p \in O : j >= p[2]].to>>
<1>1. cs \in Seq(Entries) /\ Rising(cs) /\ tok \in Tokenizers
  BY CharsType DEF TextOK
<1> SUFFICES ASSUME NEW T PROVE Span(cs, tok, T) = Hull(Occ(T))
  BY Zenon DEF SpanIsHull
<1> DEFINE O == Hits(s, GramsIn(s, tok), T)
<1> HIDE DEF cs
<1>2. Occ(T) = O
  <2> DEFINE G == GramsIn(s, tok)
  <2>1. \A p : p \in O <=> p \in G /\ SubSeq(s, p[1], p[2]) \in T
    BY DEF Hits
  <2> HIDE DEF s, G, O
  <2>2. ASSUME NEW p, p \in O PROVE p \in Occ(T)
    <3> DEFINE g == <<p, SubSeq(s, p[1], p[2])>>
    <3>1. g \in grams /\ g[1] = p /\ g[2] \in T
      BY <2>1, <2>2 DEF G
    <3> HIDE DEF g, grams
    <3>2. g \in {h \in grams : h[2] \in T}
      BY <3>1
    <3> QED
      BY <3>1, <3>2
  <2>3. ASSUME NEW p, p \in Occ(T) PROVE p \in O
    <3>1. PICK q \in grams : q[2] \in T /\ p = q[1]
      BY <2>3
    <3>2. PICK o \in G : q = <<o, SubSeq(s, o[1], o[2])>>
      BY <3>1 DEF G
    <3> QED
      BY <2>1, <3>1, <3>2
  <2> QED
    BY <2>2, <2>3
<1>3. O \in SUBSET Places(cs)
  <2>1. DOMAIN s = DOMAIN cs
    BY DEF CodePoints
  <2> QED
    BY <2>1 DEF Hits, GramsIn, Places
<1>4. IsHull(cs, O, Span(cs, tok, T))
  BY <1>1, SpanFinds
<1> HIDE DEF O, Occ
<1>5. Span(cs, tok, T) = Hull(O)
  BY <1>1, <1>3, <1>4, HullIs
<1> QED
  BY <1>2, <1>5

(* Whatever tokens are sought in whatever text, span returns the hull of   *)
(* all their occurrences.                                                  *)
THEOREM SpanFindsHull == Spec => []SpanIsHull
<1>1. Init => TextOK
  <2> SUFFICES ASSUME Init PROVE TextOK
    OBVIOUS
  <2>1. PICK k \in 0 .. MaxLen : text \in [1 .. k -> Input]
    BY DEF Init
  <2>2. k \in Nat /\ Input \subseteq Chars
    BY Tables
  <2> QED
    BY <2>1, <2>2 DEF Init, TextOK
<1>2. TextOK /\ [Next]_vars => TextOK'
  BY DEF TextOK, Next, vars, DrainPending, BreakWord, AdvanceRun, AdvanceWindow
<1> QED
  BY <1>1, <1>2, SpanCorrect, PTL DEF Spec

-----------------------------------------------------------------------------
(* Reordering a mark never takes it past a starter.                        *)

LEMMA PlaceUnique ==
  ASSUME NEW s \in Seq(Chars), NEW c \in Chars, NEW k, NEW l, IsPlace(s, c, k), IsPlace(s, c, l)
  PROVE  k = l
<1>1. Ccc[c] \in Nat /\ Len(s) \in Nat /\ \A i \in 1 .. Len(s) : Ccc[s[i]] \in Nat
  <2>1. \A i \in 1 .. Len(s) : s[i] \in Chars
    OBVIOUS
  <2> QED
    BY <2>1, TableFacts
<1>2. ASSUME NEW i \in 0 .. Len(s), NEW j \in 0 .. Len(s), IsPlace(s, c, i), IsPlace(s, c, j)
      PROVE  ~ (i < j)
  <2> SUFFICES ASSUME i < j PROVE FALSE
    OBVIOUS
  <2>1. j \in i + 1 .. Len(s) /\ j > 0 /\ j \in 1 .. Len(s)
    BY <1>1
  <2>2. Ccc[s[j]] > Ccc[c] /\ Ccc[s[j]] <= Ccc[c]
    BY <1>2, <2>1 DEF IsPlace
  <2> QED
    BY <1>1, <2>1, <2>2
<1>3. k \in 0 .. Len(s) /\ l \in 0 .. Len(s)
  BY DEF IsPlace
<1> QED
  BY <1>2, <1>3

Inserted(s, c, k) == SubSeq(s, 1, k) \o <<c>> \o SubSeq(s, k + 1, Len(s))

LEMMA InsertedIs ==
  ASSUME NEW s \in Seq(Chars), NEW c \in Chars, NEW k \in 0 .. Len(s)
  PROVE  /\ Inserted(s, c, k) \in Seq(Chars) /\ Len(Inserted(s, c, k)) = Len(s) + 1
         /\ \A i \in 1 .. k : Inserted(s, c, k)[i] = s[i]
         /\ Inserted(s, c, k)[k + 1] = c
         /\ \A i \in k + 2 .. Len(s) + 1 : Inserted(s, c, k)[i] = s[i - 1]
<1> DEFINE x == SubSeq(s, 1, k)
           y == SubSeq(s, k + 1, Len(s))
           xc == x \o <<c>>
           z == xc \o y
<1>1. Len(s) \in Nat /\ k \in Nat /\ k <= Len(s) /\ 1 \in Int /\ k \in Int /\ k + 1 \in Int /\ Len(s) \in Int
  OBVIOUS
<1>2. (\A i \in 1 .. k : s[i] \in Chars) /\ \A i \in k + 1 .. Len(s) : s[i] \in Chars
  BY <1>1
<1>3. x \in Seq(Chars) /\ Len(x) = k /\ \A i \in 1 .. k : x[i] = s[i]
  BY <1>1, <1>2
<1>4. /\ y \in Seq(Chars) /\ Len(y) = Len(s) - k
      /\ \A i \in 1 .. Len(s) - k : y[i] = s[k + i]
  BY <1>1, <1>2
<1> HIDE DEF x, y
<1>5. xc \in Seq(Chars) /\ Len(xc) = k + 1 /\ (\A i \in 1 .. k : xc[i] = s[i]) /\ xc[k + 1] = c
  <2>1. <<c>> \in Seq(Chars) /\ Len(<<c>>) = 1 /\ <<c>>[1] = c
    OBVIOUS
  <2> QED
    BY <1>1, <1>3, <2>1, Joined
<1> HIDE DEF xc
<1>6. /\ z \in Seq(Chars) /\ Len(z) = (k + 1) + (Len(s) - k)
      /\ \A i \in 1 .. k + 1 : z[i] = xc[i]
      /\ \A i \in 1 .. Len(s) - k : z[(k + 1) + i] = s[k + i]
  <2>1. xc \in Seq(Chars) /\ y \in Seq(Chars)
    BY <1>4, <1>5
  <2>2. /\ z \in Seq(Chars) /\ Len(z) = Len(xc) + Len(y)
        /\ \A i \in 1 .. Len(xc) : z[i] = xc[i]
        /\ \A i \in 1 .. Len(y) : z[Len(xc) + i] = y[i]
    BY <2>1, Joined
  <2> HIDE DEF z
  <2> QED
    BY <1>4, <1>5, <2>2
<1>7. z = Inserted(s, c, k)
  BY DEF Inserted, x, y, xc, z
<1> HIDE DEF z
<1>8. ASSUME NEW i \in k + 2 .. Len(s) + 1 PROVE z[i] = s[i - 1]
  <2> DEFINE j == i - (k + 1)
  <2>1. j \in 1 .. Len(s) - k /\ (k + 1) + j = i /\ k + j = i - 1
    BY <1>1
  <2> HIDE DEF j
  <2>2. z[(k + 1) + j] = s[k + j]
    BY <1>6, <2>1
  <2> QED
    BY <2>1, <2>2
<1>9. (\A i \in 1 .. k : z[i] = s[i]) /\ z[k + 1] = c /\ Len(z) = Len(s) + 1
  BY <1>1, <1>5, <1>6
<1> QED
  BY <1>6, <1>7, <1>8, <1>9

LEMMA InsertIs ==
  ASSUME NEW s \in Seq(Chars), NEW c \in Chars, Ccc[c] # 0, NEW k, IsPlace(s, c, k)
  PROVE  InsertMark(s, c) = Inserted(s, c, k)
<1> DEFINE P(i) == /\ \A j \in i + 1 .. Len(s) : Ccc[s[j]] > Ccc[c]
                   /\ i > 0 => Ccc[s[i]] <= Ccc[c]
           m == CHOOSE i \in 0 .. Len(s) : P(i)
<1>1. \E i \in 0 .. Len(s) : P(i)
  BY PlaceExists DEF IsPlace
<1>2. m \in 0 .. Len(s) /\ P(m)
  BY <1>1
<1>3. InsertMark(s, c) = SubSeq(s, 1, m) \o <<c>> \o SubSeq(s, m + 1, Len(s))
  BY DEF InsertMark
<1> HIDE DEF m
<1>4. IsPlace(s, c, m)
  BY <1>2 DEF IsPlace
<1>5. m = k
  BY <1>4, PlaceUnique
<1> QED
  BY <1>3, <1>5 DEF Inserted

StartsApart(z) == z # <<>> /\ Ccc[z[1]] = 0

LEMMA InsertBeyond ==
  ASSUME NEW x \in Seq(Chars), NEW z \in Seq(Chars), StartsApart(z), NEW c \in Chars
  PROVE  /\ InsertMark(x \o z, c) = x \o InsertMark(z, c)
         /\ InsertMark(z, c) # <<>> /\ InsertMark(z, c)[1] = z[1]
<1> DEFINE xz == x \o z
<1>0. z # <<>> /\ Ccc[z[1]] = 0
  BY DEF StartsApart
<1>1. /\ xz \in Seq(Chars) /\ Len(xz) = Len(x) + Len(z) /\ Len(x) \in Nat /\ Len(z) \in Nat \ {0}
      /\ \A i \in 1 .. Len(x) : xz[i] = x[i]
      /\ \A i \in 1 .. Len(z) : xz[Len(x) + i] = z[i]
  BY <1>0, Joined
<1>2. CASE Ccc[c] = 0
  <2>1. InsertMark(xz, c) = Append(xz, c) /\ InsertMark(z, c) = Append(z, c)
    BY <1>2 DEF InsertMark
  <2>2. Append(xz, c) = x \o Append(z, c)
    <3>1. Append(xz, c) = xz \o <<c>> /\ Append(z, c) = z \o <<c>> /\ <<c>> \in Seq(Chars)
      BY <1>1, AppendIsConcat
    <3>2. (x \o z) \o <<c>> = x \o (z \o <<c>>)
      BY <3>1, ConcatAssociative
    <3> QED
      BY <3>1, <3>2
  <2>3. Append(z, c) # <<>> /\ Append(z, c)[1] = z[1]
    <3>1. 1 \in 1 .. Len(z)
      BY <1>1
    <3> QED
      BY <3>1, AppendProperties
  <2> HIDE DEF xz
  <2> QED
    BY <2>1, <2>2, <2>3 DEF xz
<1>3. CASE Ccc[c] # 0
  <2>1. PICK k \in 0 .. Len(z) : IsPlace(z, c, k)
    BY PlaceExists
  <2>2. Ccc[c] \in Nat
    BY TableFacts
  <2>3. k \in 1 .. Len(z)
    <3>1. k # 0
      <4> SUFFICES ASSUME k = 0 PROVE FALSE
        OBVIOUS
      <4>1. 1 \in k + 1 .. Len(z)
        BY <1>1
      <4>2. Ccc[z[1]] > Ccc[c]
        BY <2>1, <4>1 DEF IsPlace
      <4> QED
        BY <1>0, <2>2, <4>2
    <3> QED
      BY <1>1, <3>1
  <2> DEFINE m == Len(x) + k
             u == Inserted(z, c, k)
             v == Inserted(xz, c, m)
             xu == x \o u
  <2>4. IsPlace(xz, c, m)
    <3>1. m \in 0 .. Len(xz) /\ m > 0 /\ xz[m] = z[k] /\ Ccc[z[k]] <= Ccc[c]
      BY <1>1, <2>1, <2>3 DEF IsPlace
    <3>2. ASSUME NEW i \in m + 1 .. Len(xz) PROVE Ccc[xz[i]] > Ccc[c]
      <4> DEFINE j == i - Len(x)
      <4>1. j \in k + 1 .. Len(z) /\ j \in 1 .. Len(z) /\ Len(x) + j = i
        BY <1>1, <2>3
      <4> HIDE DEF j
      <4>2. xz[i] = z[j] /\ Ccc[z[j]] > Ccc[c]
        BY <1>1, <2>1, <4>1 DEF IsPlace
      <4> QED
        BY <4>2
    <3> QED
      BY <3>1, <3>2 DEF IsPlace
  <2> HIDE DEF xz
  <2>5. InsertMark(z, c) = u /\ InsertMark(xz, c) = v
    BY <1>1, <1>3, <2>1, <2>4, InsertIs
  <2>6. /\ u \in Seq(Chars) /\ Len(u) = Len(z) + 1
        /\ \A i \in 1 .. k : u[i] = z[i]
        /\ u[k + 1] = c
        /\ \A i \in k + 2 .. Len(z) + 1 : u[i] = z[i - 1]
    BY InsertedIs
  <2>7. /\ v \in Seq(Chars) /\ Len(v) = Len(xz) + 1
        /\ \A i \in 1 .. m : v[i] = xz[i]
        /\ v[m + 1] = c
        /\ \A i \in m + 2 .. Len(xz) + 1 : v[i] = xz[i - 1]
    <3>1. m \in 0 .. Len(xz)
      BY <2>4 DEF IsPlace
    <3> HIDE DEF m
    <3> QED
      BY <1>1, <3>1, InsertedIs
  <2> HIDE DEF u, v
  <2>8. /\ xu \in Seq(Chars) /\ Len(xu) = Len(x) + Len(u)
        /\ \A i \in 1 .. Len(x) : xu[i] = x[i]
        /\ \A i \in 1 .. Len(u) : xu[Len(x) + i] = u[i]
    <3>1. u \in Seq(Chars) /\ x \in Seq(Chars)
      BY <2>6
    <3> HIDE DEF m
    <3> QED
      BY <3>1, Joined
  <2> HIDE DEF xu
  <2>9. ASSUME NEW i \in 1 .. Len(v) PROVE v[i] = xu[i]
    <3>1. CASE i <= Len(x)
      <4>1. i \in 1 .. Len(x) /\ i \in 1 .. m
        BY <1>1, <2>3, <3>1
      <4> HIDE DEF m
      <4> QED
        BY <1>1, <2>7, <2>8, <4>1
    <3>2. CASE ~ (i <= Len(x))
      <4> DEFINE j == i - Len(x)
      <4>1. j \in 1 .. Len(u) /\ Len(x) + j = i /\ Len(u) = Len(z) + 1
        BY <1>1, <2>6, <2>7, <3>2
      <4> HIDE DEF j
      <4>2. xu[i] = u[j]
        BY <2>8, <4>1
      <4>3. CASE j <= k
        <5>1. j \in 1 .. k /\ i \in 1 .. m /\ j \in 1 .. Len(z)
          BY <1>1, <2>3, <4>1, <4>3
        <5>2. v[i] = xz[i] /\ xz[i] = z[j] /\ u[j] = z[j]
          BY <1>1, <2>6, <2>7, <4>1, <5>1
        <5> QED
          BY <4>2, <5>2
      <4>4. CASE j = k + 1
        <5>1. i = m + 1
          BY <1>1, <2>3, <4>1, <4>4
        <5> QED
          BY <2>6, <2>7, <4>2, <4>4, <5>1
      <4>5. CASE ~ (j <= k) /\ j # k + 1
        <5>1. j \in k + 2 .. Len(z) + 1 /\ i \in m + 2 .. Len(xz) + 1
              /\ j - 1 \in 1 .. Len(z) /\ i - 1 = Len(x) + (j - 1)
          BY <1>1, <2>3, <4>1, <4>5
        <5>2. v[i] = xz[i - 1] /\ xz[i - 1] = z[j - 1] /\ u[j] = z[j - 1]
          BY <1>1, <2>6, <2>7, <5>1
        <5> QED
          BY <4>2, <5>2
      <4> QED
        BY <4>3, <4>4, <4>5
    <3> QED
      BY <3>1, <3>2
  <2>10. Len(v) = Len(xu)
    BY <1>1, <2>6, <2>7, <2>8
  <2>11. v = xu
    BY <2>7, <2>8, <2>9, <2>10, SeqEqual
  <2>12. u # <<>> /\ u[1] = z[1]
    <3>1. Len(u) # 0 /\ 1 \in 1 .. k
      BY <1>1, <2>3, <2>6
    <3> QED
      BY <2>6, <3>1
  <2> QED
    BY <2>5, <2>11, <2>12 DEF xz, xu
<1> QED
  BY <1>2, <1>3

(* A text and a continuation that begins with a starter are reordered      *)
(* apart.                                                                  *)
LEMMA SortBeyond ==
  ASSUME NEW e \in Seq(Chars)
  PROVE  \A d \in Seq(Chars) :
           StartsApart(d) => /\ SortOf(e \o d) = SortOf(e) \o SortOf(d)
                             /\ SortOf(d) # <<>> /\ SortOf(d)[1] = d[1]
<1> DEFINE P(d) == /\ SortOf(e \o d) = SortOf(e) \o SortOf(d)
                   /\ SortOf(d) # <<>> /\ SortOf(d)[1] = d[1]
           T == {d \in Seq(Chars) : StartsApart(d) => P(d)}
<1>1. <<>> \in T
  BY EmptySeq DEF StartsApart
<1>2. ASSUME NEW d \in Seq(Chars), NEW c \in Chars, d \in T PROVE Append(d, c) \in T
  <2> DEFINE dc == Append(d, c)
             se == SortOf(e)
             sd == SortOf(d)
             ed == e \o d
  <2>1. /\ dc \in Seq(Chars) /\ Len(dc) = Len(d) + 1 /\ Len(d) \in Nat
        /\ (\A i \in 1 .. Len(d) : dc[i] = d[i]) /\ dc[Len(d) + 1] = c
    BY Appended
  <2> SUFFICES ASSUME StartsApart(dc) PROVE P(dc)
    BY <2>1
  <2>2. se \in Seq(Chars) /\ sd \in Seq(Chars) /\ ed \in Seq(Chars)
    BY SortType, Concat
  <2>3. SortOf(dc) = InsertMark(sd, c)
    BY SortNext
  <2>4. e \o dc = Append(ed, c)
    <3>1. dc = d \o <<c>> /\ <<c>> \in Seq(Chars) /\ Append(ed, c) = ed \o <<c>>
      BY <2>2, AppendIsConcat
    <3> HIDE DEF dc
    <3> QED
      BY <3>1, ConcatAssociative
  <2>5. SortOf(e \o dc) = InsertMark(SortOf(ed), c)
    BY <2>2, <2>4, SortNext
  <2> HIDE DEF dc, se, sd, ed
  <2>6. CASE d = <<>>
    <3>1. ed = e /\ sd = <<>> /\ dc[1] = c
      <4>1. e \o <<>> = e
        BY ConcatEmptySeq
      <4>2. Len(d) = 0
        BY <2>6
      <4> QED
        BY <2>1, <2>6, <4>1, <4>2, SortEmpty DEF ed, sd
    <3>2. Ccc[c] = 0
      BY <3>1 DEF StartsApart
    <3>3. InsertMark(se, c) = se \o <<c>> /\ InsertMark(<<>>, c) = <<c>>
      <4>1. Append(se, c) = se \o <<c>> /\ Append(<<>>, c) = <<c>>
        BY <2>2, AppendIsConcat
      <4> QED
        BY <3>2, <4>1 DEF InsertMark
    <3>4. SortOf(e \o dc) = se \o <<c>> /\ SortOf(dc) = <<c>>
      BY <2>3, <2>5, <3>1, <3>3 DEF se
    <3>5. <<c>> # <<>> /\ <<c>>[1] = c
      OBVIOUS
    <3> QED
      BY <3>1, <3>4, <3>5 DEF se
  <2>7. CASE d # <<>>
    <3>1. 1 \in 1 .. Len(d)
      BY <2>7, EmptySeq
    <3>2. dc[1] = d[1]
      BY <2>1, <3>1
    <3>3. StartsApart(d)
      BY <2>7, <3>2 DEF StartsApart
    <3>4. SortOf(ed) = se \o sd /\ sd # <<>> /\ sd[1] = d[1]
      BY <1>2, <3>3 DEF se, sd, ed
    <3>5. StartsApart(sd)
      BY <3>3, <3>4 DEF StartsApart
    <3>6. /\ InsertMark(se \o sd, c) = se \o InsertMark(sd, c)
          /\ InsertMark(sd, c) # <<>> /\ InsertMark(sd, c)[1] = sd[1]
      BY <2>2, <3>5, InsertBeyond
    <3> QED
      BY <2>3, <2>5, <3>2, <3>4, <3>6 DEF se
  <2> QED
    BY <2>6, <2>7
<1> HIDE DEF T
<1>3. \A d \in Seq(Chars) : d \in T
  BY <1>1, <1>2, SeqInduction
<1> QED
  BY <1>3 DEF T

-----------------------------------------------------------------------------
(* Nor does composing reach over a starter no pair composes with.          *)

StandsAlone(d) == StartsApart(d) /\ \A p \in DOMAIN Composition : p[2] # d[1]

Behind(x, a) == [out |-> x \o a.out, starter |-> Len(x) + a.starter, last |-> a.last]

LEMMA ComposeAlone ==
  ASSUME NEW a \in Composings, NEW c \in Chars, Ccc[c] = 0,
         \A p \in DOMAIN Composition : p[2] # c
  PROVE  ComposeNext(a, c) = Behind(a.out, [out |-> <<c>>, starter |-> 1, last |-> 0])
<1> DEFINE pair == IF a.starter = 0 THEN <<>> ELSE <<a.out[a.starter], c>>
<1>1. pair \notin DOMAIN Composition
  <2>1. <<>> \notin DOMAIN Composition
    <3>1. <<>> \notin Chars \X Chars
      OBVIOUS
    <3>2. DOMAIN Composition \subseteq Chars \X Chars
      BY Tables
    <3> QED
      BY <3>1, <3>2
  <2>2. <<a.out[a.starter], c>>[2] = c
    OBVIOUS
  <2>3. <<a.out[a.starter], c>> \notin DOMAIN Composition
    BY <2>2
  <2> QED
    BY <2>1, <2>3
<1> HIDE DEF pair
<1>2. ComposeNext(a, c) = [out |-> Append(a.out, c), last |-> 0, starter |-> Len(a.out) + 1]
  BY <1>1 DEF ComposeNext, pair
<1>3. a.out \in Seq(Chars)
  BY DEF Composings
<1>4. Append(a.out, c) = a.out \o <<c>>
  BY <1>3, AppendIsConcat
<1> QED
  BY <1>2, <1>4 DEF Behind

LEMMA ComposeBeyond ==
  ASSUME NEW x \in Seq(Chars), NEW a \in Composings, a.starter # 0, NEW c \in Chars
  PROVE  /\ ComposeNext(Behind(x, a), c) = Behind(x, ComposeNext(a, c))
         /\ ComposeNext(a, c).starter # 0
<1> DEFINE b == Behind(x, a)
           n == Len(x)
           k == a.starter
           pair == <<a.out[k], c>>
           unblocked == Len(a.out) = k \/ (0 < a.last /\ a.last < Ccc[c])
           xo == x \o a.out
<1>1. /\ a.out \in Seq(Chars) /\ k \in Nat /\ a.last \in Nat /\ k <= Len(a.out)
      /\ Len(a.out) \in Nat /\ n \in Nat /\ Ccc[c] \in Nat
      /\ a = [out |-> a.out, starter |-> a.starter, last |-> a.last]
  BY TableFacts DEF Composings
<1>2. /\ xo \in Seq(Chars) /\ Len(xo) = n + Len(a.out)
      /\ \A i \in 1 .. n : xo[i] = x[i]
      /\ \A i \in 1 .. Len(a.out) : xo[n + i] = a.out[i]
  BY <1>1, Joined
<1> HIDE DEF xo
<1>3. b = [out |-> xo, starter |-> n + k, last |-> a.last]
  BY DEF Behind, xo
<1>4. k \in 1 .. Len(a.out) /\ n + k # 0
  BY <1>1
<1> HIDE DEF b, n, k
<1>5. xo[n + k] = a.out[k] /\ (Len(xo) = n + k <=> Len(a.out) = k)
  BY <1>1, <1>2, <1>4
<1>6. b.out = xo /\ b.starter = n + k /\ b.last = a.last
  BY <1>3
<1>7. CASE unblocked /\ pair \in DOMAIN Composition
  <2> DEFINE q == Composition[pair]
             u == [a.out EXCEPT ![k] = q]
             v == [xo EXCEPT ![n + k] = q]
             xu == x \o u
  <2>0. q \in Chars
    BY <1>7, TableFacts
  <2> HIDE DEF q
  <2>1. /\ u \in Seq(Chars) /\ Len(u) = Len(a.out)
        /\ \A j \in 1 .. Len(a.out) : u[j] = IF j = k THEN q ELSE a.out[j]
    BY <1>1, <1>4, <2>0, ExceptSeq
  <2>2. /\ v \in Seq(Chars) /\ Len(v) = Len(xo)
        /\ \A j \in 1 .. Len(xo) : v[j] = IF j = n + k THEN q ELSE xo[j]
    <3>1. n + k \in 1 .. Len(xo)
      BY <1>1, <1>2, <1>4
    <3> QED
      BY <1>2, <2>0, <3>1, ExceptSeq
  <2>3. ComposeNext(a, c) = [a EXCEPT !.out[k] = q]
    <3>1. (IF a.starter = 0 THEN <<>> ELSE <<a.out[a.starter], c>>) = pair
      BY DEF k
    <3> HIDE DEF pair
    <3> QED
      BY <1>7, <3>1 DEF ComposeNext, k, q
  <2>4. ComposeNext(a, c) = [out |-> u, starter |-> k, last |-> a.last]
    BY <1>1, <2>3 DEF k
  <2>5. ComposeNext(b, c) = [b EXCEPT !.out[b.starter] = q]
    <3>1. (IF b.starter = 0 THEN <<>> ELSE <<b.out[b.starter], c>>) = pair
      BY <1>4, <1>5, <1>6
    <3>2. Len(b.out) = b.starter \/ (0 < b.last /\ b.last < Ccc[c])
      BY <1>5, <1>6, <1>7
    <3> HIDE DEF pair
    <3> QED
      BY <1>7, <3>1, <3>2 DEF ComposeNext, q
  <2>6. ComposeNext(b, c) = [out |-> v, starter |-> n + k, last |-> a.last]
    BY <1>3, <1>6, <2>5
  <2> HIDE DEF u, v
  <2>7. /\ xu \in Seq(Chars) /\ Len(xu) = n + Len(u)
        /\ \A i \in 1 .. n : xu[i] = x[i]
        /\ \A i \in 1 .. Len(u) : xu[n + i] = u[i]
    <3>1. u \in Seq(Chars) /\ n = Len(x)
      BY <2>1 DEF n
    <3> HIDE DEF pair, unblocked
    <3> QED
      BY <3>1, Joined
  <2> HIDE DEF xu
  <2>8. ASSUME NEW i \in 1 .. Len(v) PROVE v[i] = xu[i]
    <3>1. CASE i <= n
      <4>1. i \in 1 .. n /\ i # n + k /\ i \in 1 .. Len(xo)
        BY <1>1, <1>4, <2>2, <3>1
      <4> QED
        BY <1>2, <2>2, <2>7, <4>1
    <3>2. CASE ~ (i <= n)
      <4> DEFINE j == i - n
      <4>1. j \in 1 .. Len(a.out) /\ n + j = i /\ (i = n + k <=> j = k) /\ i \in 1 .. Len(xo)
        BY <1>1, <1>2, <1>4, <2>2, <3>2
      <4> HIDE DEF j
      <4>2. xu[i] = u[j] /\ xo[i] = a.out[j]
        BY <1>2, <2>1, <2>7, <4>1
      <4> QED
        BY <2>1, <2>2, <4>1, <4>2
    <3> QED
      BY <3>1, <3>2
  <2>9. v = xu
    <3>1. Len(v) = Len(xu)
      BY <1>2, <2>1, <2>2, <2>7
    <3> QED
      BY <2>2, <2>7, <2>8, <3>1, SeqEqual
  <2>10. Behind(x, ComposeNext(a, c)) = [out |-> xu, starter |-> n + k, last |-> a.last]
    BY <2>4 DEF Behind, xu, n
  <2> QED
    BY <1>4, <2>4, <2>6, <2>9, <2>10 DEF b, k
<1>8. CASE ~ (unblocked /\ pair \in DOMAIN Composition)
  <2> DEFINE o == Append(a.out, c)
             bo == Append(xo, c)
  <2>1. ComposeNext(a, c) =
          [out |-> o, last |-> Ccc[c], starter |-> IF Ccc[c] = 0 THEN Len(a.out) + 1 ELSE k]
    <3>1. (IF a.starter = 0 THEN <<>> ELSE <<a.out[a.starter], c>>) = pair
      BY DEF k
    <3> HIDE DEF pair
    <3> QED
      BY <1>8, <3>1 DEF ComposeNext, k
  <2>2. ComposeNext(b, c) =
          [out |-> bo, last |-> Ccc[c], starter |-> IF Ccc[c] = 0 THEN Len(xo) + 1 ELSE n + k]
    <3>1. (IF b.starter = 0 THEN <<>> ELSE <<b.out[b.starter], c>>) = pair
      BY <1>4, <1>5, <1>6
    <3>2. (Len(b.out) = b.starter \/ (0 < b.last /\ b.last < Ccc[c])) <=> unblocked
      BY <1>5, <1>6
    <3> HIDE DEF pair, unblocked
    <3> QED
      BY <1>6, <1>8, <3>1, <3>2 DEF ComposeNext
  <2>3. x \o o = bo
    <3>1. o = a.out \o <<c>> /\ <<c>> \in Seq(Chars) /\ bo = xo \o <<c>>
      BY <1>1, <1>2, AppendIsConcat
    <3> HIDE DEF o, bo
    <3> QED
      BY <1>1, <3>1, ConcatAssociative DEF xo
  <2> HIDE DEF o, bo
  <2>4. Behind(x, ComposeNext(a, c)) =
          [out |-> bo, last |-> Ccc[c],
           starter |-> n + (IF Ccc[c] = 0 THEN Len(a.out) + 1 ELSE k)]
    <3> DEFINE f == ComposeNext(a, c)
               st == IF Ccc[c] = 0 THEN Len(a.out) + 1 ELSE k
    <3>1. f.out = o /\ f.last = Ccc[c] /\ f.starter = st
      BY <2>1
    <3> HIDE DEF f, st, pair, unblocked
    <3>2. Behind(x, f) = [out |-> bo, last |-> Ccc[c], starter |-> n + st]
      BY <2>3, <3>1 DEF Behind, n
    <3> QED
      BY <3>2 DEF f, st
  <2>5. n + (IF Ccc[c] = 0 THEN Len(a.out) + 1 ELSE k) = IF Ccc[c] = 0 THEN Len(xo) + 1 ELSE n + k
    BY <1>1, <1>2
  <2>6. ComposeNext(a, c).starter # 0
    BY <1>1, <1>4, <2>1
  <2> QED
    BY <2>2, <2>4, <2>5, <2>6 DEF b
<1> QED
  BY <1>7, <1>8

LEMMA BuildBeyond ==
  ASSUME NEW e \in Seq(Chars)
  PROVE  \A d \in Seq(Chars) :
           StandsAlone(d) => /\ BuildOf(e \o d) = Behind(BuildOf(e).out, BuildOf(d))
                             /\ BuildOf(d).starter # 0
<1> DEFINE x == BuildOf(e).out
           P(d) == BuildOf(e \o d) = Behind(x, BuildOf(d)) /\ BuildOf(d).starter # 0
           T == {d \in Seq(Chars) : StandsAlone(d) => P(d)}
<1>0. BuildOf(e) \in Composings /\ x \in Seq(Chars)
  BY BuildType DEF Composings
<1>1. <<>> \in T
  BY EmptySeq DEF StartsApart, StandsAlone
<1> HIDE DEF x
<1>2. ASSUME NEW d \in Seq(Chars), NEW c \in Chars, d \in T PROVE Append(d, c) \in T
  <2> DEFINE dc == Append(d, c)
             ed == e \o d
             bd == BuildOf(d)
  <2>1. /\ dc \in Seq(Chars) /\ Len(dc) = Len(d) + 1 /\ Len(d) \in Nat
        /\ (\A i \in 1 .. Len(d) : dc[i] = d[i]) /\ dc[Len(d) + 1] = c
    BY Appended
  <2> SUFFICES ASSUME StandsAlone(dc) PROVE P(dc)
    BY <2>1
  <2>2. bd \in Composings /\ ed \in Seq(Chars)
    BY BuildType, Concat
  <2>3. BuildOf(dc) = ComposeNext(bd, c)
    BY BuildNext
  <2>4. e \o dc = Append(ed, c)
    <3>1. dc = d \o <<c>> /\ <<c>> \in Seq(Chars) /\ Append(ed, c) = ed \o <<c>>
      BY <2>2, AppendIsConcat
    <3> HIDE DEF dc
    <3> QED
      BY <3>1, ConcatAssociative
  <2>5. BuildOf(e \o dc) = ComposeNext(BuildOf(ed), c)
    BY <2>2, <2>4, BuildNext
  <2> HIDE DEF dc, bd, ed
  <2>6. CASE d = <<>>
    <3>1. ed = e /\ bd = NoneComposed /\ dc[1] = c
      <4>1. e \o <<>> = e
        BY ConcatEmptySeq
      <4>2. Len(d) = 0
        BY <2>6
      <4> QED
        BY <2>1, <2>6, <4>1, <4>2, BuildEmpty DEF ed, bd
    <3>2. Ccc[c] = 0 /\ \A p \in DOMAIN Composition : p[2] # c
      BY <3>1 DEF StartsApart, StandsAlone
    <3> DEFINE one == [out |-> <<c>>, starter |-> 1, last |-> 0]
    <3>3. ComposeNext(BuildOf(e), c) = Behind(x, one)
      BY <1>0, <3>2, ComposeAlone DEF x
    <3>4. NoneComposed \in Composings /\ NoneComposed.out = <<>>
      BY DEF NoneComposed, Composings
    <3>5. ComposeNext(NoneComposed, c) = Behind(<<>>, one)
      BY <3>2, <3>4, ComposeAlone
    <3>6. Behind(<<>>, one) = one
      <4>1. <<>> \o <<c>> = <<c>> /\ Len(<<>>) + 1 = 1
        BY ConcatEmptySeq, EmptySeq
      <4> QED
        BY <4>1 DEF Behind
    <3> QED
      BY <2>3, <2>5, <3>1, <3>3, <3>5, <3>6
  <2>7. CASE d # <<>>
    <3>1. 1 \in 1 .. Len(d)
      BY <2>7, EmptySeq
    <3>2. dc[1] = d[1]
      BY <2>1, <3>1
    <3>3. StandsAlone(d)
      BY <2>7, <3>2 DEF StartsApart, StandsAlone
    <3>4. BuildOf(ed) = Behind(x, bd) /\ bd.starter # 0
      BY <1>2, <3>3 DEF bd, ed
    <3>5. /\ ComposeNext(Behind(x, bd), c) = Behind(x, ComposeNext(bd, c))
          /\ ComposeNext(bd, c).starter # 0
      BY <1>0, <2>2, <3>4, ComposeBeyond
    <3> QED
      BY <2>3, <2>5, <3>4, <3>5
  <2> QED
    BY <2>6, <2>7
<1> HIDE DEF T
<1>3. \A d \in Seq(Chars) : d \in T
  BY <1>1, <1>2, SeqInduction
<1> QED
  BY <1>3 DEF T, x

-----------------------------------------------------------------------------
(* So a text may be normalized cluster by cluster.                         *)

LEMMA BehindOut ==
  ASSUME NEW x, NEW a
  PROVE  Behind(x, a).out = x \o a.out
BY DEF Behind

BeginsCluster(y) == y # <<>> /\ y[1] \in Input /\ ~ Attaches(y[1])

LEMMA FirstMapped ==
  ASSUME ClustersApart, NEW y \in Seq(Chars), BeginsCluster(y)
  PROVE  StandsAlone(Mapped(Decomposition, y))
<1> DEFINE a == Decomposition[y[1]]
           z == SubSeq(y, 2, Len(y))
           mz == Mapped(Decomposition, z)
           d == a \o mz
<1>1. Len(y) \in Nat /\ 1 \in 1 .. Len(y) /\ Len(y) \in 1 .. Len(y) /\ y[1] \in Chars
  BY EmptySeq DEF BeginsCluster
<1>2. y = <<y[1]>> \o z
  <2>1. SubSeq(y, 1, Len(y)) = <<y[1]>> \o SubSeq(y, 1 + 1, Len(y))
    BY <1>1, SubSeqRecursiveFirst
  <2>2. 1 + 1 = 2 /\ SubSeq(y, 1, Len(y)) = y
    BY SubSeqFull
  <2> QED
    BY <2>1, <2>2
<1>3. Decomposition \in [Chars -> Seq(Chars)]
  BY Tables
<1>4. <<y[1]>> \in Seq(Chars) /\ z \in Seq(Chars)
  <2>1. <<y[1]>> \in Seq(Chars)
    BY <1>1
  <2>2. \A i \in 2 .. Len(y) : y[i] \in Chars
    BY <1>1
  <2>3. 2 \in Int /\ Len(y) \in Int
    BY <1>1
  <2>4. z \in Seq(Chars)
    BY <2>2, <2>3, SubSeqProperties
  <2> QED
    BY <2>1, <2>4
<1> HIDE DEF z
<1>5. Mapped(Decomposition, <<y[1]>> \o z) = d
  <2>1. Mapped(Decomposition, <<y[1]>>) = a
    BY <1>1, <1>3, MappedOne
  <2> QED
    BY <1>3, <1>4, <2>1, MappedConcat
<1>6. a \in Seq(Chars) /\ mz \in Seq(Chars)
  BY <1>1, <1>3, <1>4, MappedType
<1>7. /\ a # <<>> /\ Ccc[a[1]] = 0
      /\ \A p \in DOMAIN Composition : p[2] # a[1]
  BY <1>1 DEF ClustersApart, BeginsCluster, Attaches
<1> HIDE DEF a, mz
<1>8. Len(a) \in Nat \ {0} /\ 1 \in 1 .. Len(a)
  BY <1>6, <1>7, EmptySeq
<1>9. Len(d) = Len(a) + Len(mz) /\ Len(mz) \in Nat /\ d[1] = a[1] /\ d \in Seq(Chars)
  BY <1>6, <1>8, Joined
<1> HIDE DEF d
<1>10. d # <<>>
  BY <1>8, <1>9, EmptySeq
<1> QED
  BY <1>2, <1>5, <1>7, <1>9, <1>10 DEF StandsAlone, StartsApart

LEMMA FormsConcat ==
  ASSUME ClustersApart, NEW x \in Seq(Chars), NEW y \in Seq(Chars), BeginsCluster(y)
  PROVE  NFD(x \o y) = NFD(x) \o NFD(y) /\ NFC(x \o y) = NFC(x) \o NFC(y)
<1> DEFINE dx == Mapped(Decomposition, x)
           dy == Mapped(Decomposition, y)
           xy == x \o y
           nx == NFD(x)
           ny == NFD(y)
<1>1. dx \in Seq(Chars) /\ dy \in Seq(Chars) /\ xy \in Seq(Chars)
      /\ Mapped(Decomposition, xy) = dx \o dy
  <2>1. Decomposition \in [Chars -> Seq(Chars)]
    BY Tables
  <2> QED
    BY <2>1, MappedType, MappedConcat, Concat
<1>2. StandsAlone(dy)
  BY FirstMapped
<1>3. /\ nx = SortOf(dx) /\ ny = SortOf(dy) /\ NFD(xy) = SortOf(Mapped(Decomposition, xy))
      /\ nx \in Seq(Chars) /\ ny \in Seq(Chars)
      /\ NFC(x) = BuildOf(nx).out /\ NFC(y) = BuildOf(ny).out /\ NFC(xy) = BuildOf(NFD(xy)).out
  BY <1>1, NFDIs, NFCIs
<1> HIDE DEF dx, dy, xy, nx, ny
<1>4. SortOf(dx \o dy) = SortOf(dx) \o SortOf(dy) /\ SortOf(dy) # <<>> /\ SortOf(dy)[1] = dy[1]
  BY <1>1, <1>2, SortBeyond DEF StandsAlone
<1>5. NFD(xy) = nx \o ny
  BY <1>1, <1>3, <1>4
<1>6. StandsAlone(ny)
  BY <1>2, <1>3, <1>4 DEF StandsAlone, StartsApart
<1>7. BuildOf(nx \o ny) = Behind(BuildOf(nx).out, BuildOf(ny))
  BY <1>3, <1>6, BuildBeyond
<1>8. NFC(xy) = NFC(x) \o NFC(y)
  <2>1. BuildOf(nx \o ny).out = BuildOf(nx).out \o BuildOf(ny).out
    BY <1>7, BehindOut
  <2> QED
    BY <1>3, <1>5, <2>1
<1> QED
  BY <1>5, <1>8 DEF xy, nx, ny

Plain == [c \in Chars |-> IF c \in Marks THEN <<>> ELSE <<c>>]

FoldTable(t) == [c \in Chars |-> Folded(c, t)]

LEMMA PlainType == Plain \in [Chars -> Seq(Chars)]
<1>1. ASSUME NEW c \in Chars PROVE (IF c \in Marks THEN <<>> ELSE <<c>>) \in Seq(Chars)
  <2>1. <<c>> \in Seq(Chars) /\ <<>> \in Seq(Chars)
    OBVIOUS
  <2> QED
    BY <2>1
<1> QED
  BY <1>1 DEF Plain

LEMMA FoldTableType ==
  ASSUME NEW t \in Tokenizers
  PROVE  FoldTable(t) \in [Chars -> Seq(Chars)] /\ \A c \in Chars : FoldTable(t)[c] = Folded(c, t)
BY FoldedType DEF FoldTable

LEMMA UnmarkedIs ==
  ASSUME NEW s \in Seq(Chars)
  PROVE  Unmarked(s) = Mapped(Plain, s)
<1>1. \A i \in DOMAIN s : Plain[s[i]] = IF s[i] \in Marks THEN <<>> ELSE <<s[i]>>
  BY Members DEF Plain
<1>2. [i \in DOMAIN s |-> Plain[s[i]]] = [i \in DOMAIN s |-> IF s[i] \in Marks THEN <<>> ELSE <<s[i]>>]
  BY <1>1
<1> QED
  BY <1>2 DEF Unmarked, Mapped

LEMMA ClusterFormIs ==
  ASSUME NEW s \in Seq(Chars), NEW t \in Tokenizers
  PROVE  NormalizeCluster(s, t) = Mapped(FoldTable(t), Normalized(s, t))
<1> DEFINE f == Normalized(s, t)
<1>1. f \in Seq(Chars)
  BY NormalizedType
<1>2. NormalizeCluster(s, t) = FlattenSeq([i \in DOMAIN f |-> Folded(f[i], t)])
  BY DEF NormalizeCluster
<1> HIDE DEF f
<1>3. \A i \in DOMAIN f : FoldTable(t)[f[i]] = Folded(f[i], t)
  BY <1>1, Members, FoldTableType
<1>4. [i \in DOMAIN f |-> FoldTable(t)[f[i]]] = [i \in DOMAIN f |-> Folded(f[i], t)]
  BY <1>3
<1> QED
  BY <1>2, <1>4 DEF Mapped, f

LEMMA NormalizedConcat ==
  ASSUME ClustersApart, NEW x \in Seq(Chars), NEW y \in Seq(Chars), BeginsCluster(y),
         NEW t \in Tokenizers
  PROVE  Normalized(x \o y, t) = Normalized(x, t) \o Normalized(y, t)
<1> DEFINE form(s) == IF t.assume \/ t.form = "none" THEN s
                      ELSE IF t.form = "nfc" THEN NFC(s) ELSE NFD(s)
           fx == form(x)
           fy == form(y)
           fxy == form(x \o y)
<1>1. fxy = fx \o fy
  BY FormsConcat
<1>2. fx \in Seq(Chars) /\ fy \in Seq(Chars) /\ fxy \in Seq(Chars)
  BY NFDIs, NFCIs, Concat
<1>3. /\ Normalized(x, t) = IF t.form = "strip" THEN Unmarked(fx) ELSE fx
      /\ Normalized(y, t) = IF t.form = "strip" THEN Unmarked(fy) ELSE fy
      /\ Normalized(x \o y, t) = IF t.form = "strip" THEN Unmarked(fxy) ELSE fxy
  BY DEF Normalized
<1> HIDE DEF fx, fy, fxy
<1>4. Unmarked(fxy) = Unmarked(fx) \o Unmarked(fy)
  <2>1. Unmarked(fx) = Mapped(Plain, fx) /\ Unmarked(fy) = Mapped(Plain, fy)
        /\ Unmarked(fxy) = Mapped(Plain, fxy)
    BY <1>2, UnmarkedIs
  <2>2. Mapped(Plain, fx \o fy) = Mapped(Plain, fx) \o Mapped(Plain, fy)
    BY <1>2, PlainType, MappedConcat
  <2> QED
    BY <1>1, <2>1, <2>2
<1> QED
  BY <1>1, <1>3, <1>4

LEMMA ClusterFormConcat ==
  ASSUME ClustersApart, NEW x \in Seq(Chars), NEW y \in Seq(Chars), BeginsCluster(y),
         NEW t \in Tokenizers
  PROVE  NormalizeCluster(x \o y, t) = NormalizeCluster(x, t) \o NormalizeCluster(y, t)
<1> DEFINE nx == Normalized(x, t)
           ny == Normalized(y, t)
<1>1. Normalized(x \o y, t) = nx \o ny
  BY NormalizedConcat
<1>2. nx \in Seq(Chars) /\ ny \in Seq(Chars) /\ x \o y \in Seq(Chars)
  BY NormalizedType, Concat
<1>3. /\ NormalizeCluster(x, t) = Mapped(FoldTable(t), nx)
      /\ NormalizeCluster(y, t) = Mapped(FoldTable(t), ny)
      /\ NormalizeCluster(x \o y, t) = Mapped(FoldTable(t), Normalized(x \o y, t))
  BY <1>2, ClusterFormIs
<1> HIDE DEF nx, ny
<1> QED
  BY <1>1, <1>2, <1>3, FoldTableType, MappedConcat

-----------------------------------------------------------------------------
(* The clusters of a text tile it.                                         *)

LEMMA StartsTile ==
  ASSUME NEW s \in Seq(Chars), s # <<>>, NEW n, n = Cardinality(StartsOf(s))
  PROVE  /\ n \in Nat \ {0} /\ StartAt(s, 1) = 1
         /\ EndOf(s, StartAt(s, n)) = Len(s)
         /\ \A k \in 1 .. n :
              k # n => StartAt(s, k + 1) = EndOf(s, StartAt(s, k)) + 1
<1> DEFINE at(k) == StartAt(s, k)
           end(k) == EndOf(s, at(k))
<1>1. Len(s) \in Nat /\ 1 \in 1 .. Len(s) /\ DOMAIN s = 1 .. Len(s)
  BY EmptySeq, LenProperties
<1>2. 1 \in StartsOf(s)
  BY <1>1 DEF StartsOf
<1>3. /\ n \in Nat
      /\ \A k \in 1 .. n : at(k) \in StartsOf(s)
      /\ \A k, l \in 1 .. n : k < l => at(k) < at(l)
      /\ \A i \in StartsOf(s) : \E k \in 1 .. n : at(k) = i
  BY StartIs
<1>4. ASSUME NEW k \in 1 .. n
      PROVE  /\ at(k) \in 1 .. Len(s) /\ end(k) \in at(k) .. Len(s)
             /\ end(k) = Len(s) \/ end(k) + 1 \in StartsOf(s)
             /\ \A h \in StartsOf(s) : at(k) < h => end(k) < h
  BY <1>3, EndIs
<1> HIDE DEF at, end
<1>5. n \in Nat \ {0}
  BY <1>2, <1>3
<1>6. at(1) = 1
  <2>1. PICK k \in 1 .. n : at(k) = 1
    BY <1>2, <1>3
  <2>2. 1 \in 1 .. n
    BY <1>5
  <2>3. at(1) \in 1 .. Len(s) /\ (1 < k => at(1) < at(k))
    BY <1>3, <1>4, <2>1, <2>2
  <2>4. ~ (1 < k)
    BY <1>1, <2>1, <2>3
  <2>5. k = 1
    BY <1>5, <2>1, <2>4
  <2> QED
    BY <2>1, <2>5
<1>7. ASSUME NEW k \in 1 .. n, NEW l \in 1 .. n, at(k) < at(l)
      PROVE  k < l
  <2>1. ~ (l < k) /\ k # l
    <3>1. at(k) \in Nat /\ at(l) \in Nat
      BY <1>4
    <3> QED
      BY <1>3, <1>7, <3>1
  <2> QED
    BY <1>5, <2>1
<1>8. ASSUME NEW k \in 1 .. n, end(k) # Len(s)
      PROVE  \E l \in 1 .. n : k < l /\ at(l) = end(k) + 1
  <2>1. PICK l \in 1 .. n : at(l) = end(k) + 1
    BY <1>3, <1>4, <1>8
  <2>2. at(k) < at(l)
    BY <1>4, <2>1
  <2> QED
    BY <1>7, <2>1, <2>2
<1>9. end(n) = Len(s)
  <2> SUFFICES ASSUME end(n) # Len(s) PROVE FALSE
    OBVIOUS
  <2>1. n \in 1 .. n
    BY <1>5
  <2>2. PICK l \in 1 .. n : n < l /\ at(l) = end(n) + 1
    BY <1>8, <2>1
  <2> QED
    BY <1>5, <2>2
<1>10. ASSUME NEW k \in 1 .. n, k # n
       PROVE  at(k + 1) = end(k) + 1
  <2>1. k + 1 \in 1 .. n /\ k < k + 1
    BY <1>5, <1>10
  <2>2. at(k) < at(k + 1) /\ at(k + 1) \in StartsOf(s) /\ at(k + 1) \in 1 .. Len(s)
    BY <1>3, <1>4, <2>1
  <2>3. end(k) < at(k + 1) /\ end(k) \in at(k) .. Len(s) /\ at(k) \in 1 .. Len(s)
    BY <1>4, <2>2
  <2>4. end(k) # Len(s)
    BY <1>1, <2>2, <2>3
  <2>5. PICK l \in 1 .. n : k < l /\ at(l) = end(k) + 1
    BY <1>8, <2>4
  <2>6. l = k + 1 \/ k + 1 < l
    BY <1>5, <2>1, <2>5
  <2>7. CASE l = k + 1
    BY <2>5, <2>7
  <2>8. CASE k + 1 < l
    <3>1. at(k + 1) < at(l)
      BY <1>3, <2>1, <2>8
    <3> QED
      BY <1>1, <2>2, <2>3, <2>5, <3>1
  <2> QED
    BY <2>6, <2>7, <2>8
<1> QED
  BY <1>5, <1>6, <1>9, <1>10 DEF at, end

LEMMA CodePointsConcat ==
  ASSUME NEW x \in Seq(Entries), NEW y \in Seq(Entries)
  PROVE  CodePoints(x \o y) = CodePoints(x) \o CodePoints(y)
<1> DEFINE z == x \o y
           px == CodePoints(x)
           py == CodePoints(y)
           pz == CodePoints(z)
           p == px \o py
<1>1. /\ z \in Seq(Entries) /\ Len(z) = Len(x) + Len(y) /\ Len(x) \in Nat /\ Len(y) \in Nat
      /\ \A i \in 1 .. Len(x) : z[i] = x[i]
      /\ \A i \in 1 .. Len(y) : z[Len(x) + i] = y[i]
  BY Joined
<1> HIDE DEF z
<1>2. /\ px \in Seq(Chars) /\ Len(px) = Len(x) /\ \A i \in 1 .. Len(x) : px[i] = x[i].ch
  BY CodePointsType
<1>3. /\ py \in Seq(Chars) /\ Len(py) = Len(y) /\ \A i \in 1 .. Len(y) : py[i] = y[i].ch
  BY CodePointsType
<1>4. /\ pz \in Seq(Chars) /\ Len(pz) = Len(z) /\ \A i \in 1 .. Len(z) : pz[i] = z[i].ch
  BY <1>1, CodePointsType
<1> HIDE DEF px, py, pz
<1>5. /\ p \in Seq(Chars) /\ Len(p) = Len(px) + Len(py)
      /\ \A i \in 1 .. Len(px) : p[i] = px[i]
      /\ \A i \in 1 .. Len(py) : p[Len(px) + i] = py[i]
  <2>1. px \in Seq(Chars) /\ py \in Seq(Chars)
    BY <1>2, <1>3
  <2> QED
    BY <2>1, Joined
<1> HIDE DEF p
<1>6. ASSUME NEW i \in 1 .. Len(pz) PROVE pz[i] = p[i]
  <2>1. CASE i <= Len(x)
    <3>1. i \in 1 .. Len(x) /\ i \in 1 .. Len(z)
      BY <1>1, <1>4, <2>1
    <3> QED
      BY <1>1, <1>2, <1>4, <1>5, <3>1
  <2>2. CASE ~ (i <= Len(x))
    <3> DEFINE j == i - Len(x)
    <3>1. j \in 1 .. Len(y) /\ Len(x) + j = i /\ i \in 1 .. Len(z)
      BY <1>1, <1>4, <2>2
    <3> HIDE DEF j
    <3>2. pz[i] = z[i].ch /\ z[i] = y[j] /\ p[i] = py[j] /\ py[j] = y[j].ch
      BY <1>1, <1>2, <1>3, <1>4, <1>5, <3>1
    <3> QED
      BY <3>2
  <2> QED
    BY <2>1, <2>2
<1>7. Len(pz) = Len(p)
  BY <1>1, <1>2, <1>3, <1>4, <1>5
<1>8. pz = p
  BY <1>4, <1>5, <1>6, <1>7, SeqEqual
<1> QED
  BY <1>8 DEF p, pz, px, py, z

LEMMA NothingNormalized ==
  ASSUME NEW t \in Tokenizers
  PROVE  NormalizeCluster(<<>>, t) = <<>>
<1>1. <<>> \in Seq(Chars)
  OBVIOUS
<1>2. \A M \in [Chars -> Seq(Chars)] : Mapped(M, <<>>) = <<>>
  <2>1. [i \in DOMAIN <<>> |-> <<>>] = <<>>
    OBVIOUS
  <2>2. ASSUME NEW M \in [Chars -> Seq(Chars)] PROVE Mapped(M, <<>>) = <<>>
    <3>1. [i \in DOMAIN <<>> |-> M[<<>>[i]]] = <<>>
      OBVIOUS
    <3> QED
      BY <3>1, FlattenEmpty DEF Mapped
  <2> QED
    BY <2>2
<1>3. NFD(<<>>) = <<>>
  <2>1. Decomposition \in [Chars -> Seq(Chars)]
    BY Tables
  <2> QED
    BY <1>1, <1>2, <2>1, NFDIs, SortEmpty
<1>4. NFC(<<>>) = <<>>
  <2>1. NoneComposed.out = <<>>
    BY DEF NoneComposed
  <2> QED
    BY <1>1, <1>3, <2>1, NFCIs, BuildEmpty
<1>5. Unmarked(<<>>) = <<>>
  BY <1>1, <1>2, PlainType, UnmarkedIs
<1>6. Normalized(<<>>, t) = <<>>
  BY <1>3, <1>4, <1>5 DEF Normalized
<1> QED
  BY <1>1, <1>2, <1>6, FoldTableType, ClusterFormIs

(* Normalizing the clusters one after another is normalizing the text.     *)
LEMMA ClustersNormalize ==
  ASSUME ClustersApart, NEW s \in Seq(Chars), s \in Seq(Input), NEW t \in Tokenizers
  PROVE  CodePoints(NormalizedChars(s, t)) = NormalizeCluster(s, t)
<1> DEFINE n == Cardinality(StartsOf(s))
           at(k) == StartAt(s, k)
           end(k) == EndOf(s, at(k))
           cs == Clusters(s)
           e(k) == NormalizeCluster(cs[k].chars, t)
           of(k) == [i \in DOMAIN e(k) |-> [ch |-> e(k)[i], from |-> cs[k].from, to |-> cs[k].to]]
           ss == [k \in DOMAIN cs |-> of(k)]
<1>0. n \in Nat
  BY StartIs
<1>1. NormalizedChars(s, t) = FlattenSeq(ss)
  BY DEF NormalizedChars
<1>2. cs = [k \in 1 .. n |-> [from |-> at(k) - 1, to |-> end(k), chars |-> SubSeq(s, at(k), end(k))]]
  BY DEF Clusters, StartsOf, StartAt, EndOf
<1>3. cs \in Seq(Parts)
  BY ClustersType
<1>4. DOMAIN cs = 1 .. n /\ \A k \in 1 .. n : cs[k].chars = SubSeq(s, at(k), end(k)) /\ cs[k] \in Parts
  <2>1. DOMAIN cs = 1 .. n /\ \A k \in 1 .. n : cs[k].chars = SubSeq(s, at(k), end(k))
    BY <1>2
  <2> HIDE DEF cs
  <2>2. \A k \in 1 .. n : cs[k] \in Parts
    BY <1>3, <2>1, Members
  <2> QED
    BY <2>1, <2>2
<1> HIDE DEF cs
<1>5. ASSUME NEW k \in 1 .. n
      PROVE  of(k) \in Seq(Entries) /\ CodePoints(of(k)) = NormalizeCluster(SubSeq(s, at(k), end(k)), t)
  <2>1. cs[k].chars \in Seq(Chars) /\ cs[k].from \in Nat /\ cs[k].to \in Nat
    BY <1>4 DEF Parts
  <2>2. e(k) \in Seq(Chars)
    BY <2>1, ClusterCharsType
  <2> DEFINE c == e(k)
             o == [i \in DOMAIN c |-> [ch |-> c[i], from |-> cs[k].from, to |-> cs[k].to]]
  <2>3. c \in Seq(Chars)
    BY <2>2
  <2>4. c = NormalizeCluster(SubSeq(s, at(k), end(k)), t)
    BY <1>4
  <2> HIDE DEF c
  <2>5. DOMAIN c = 1 .. Len(c) /\ Len(c) \in Nat /\ \A i \in DOMAIN c : c[i] \in Chars
    BY <2>3, Members
  <2>6. \A i \in DOMAIN c : [ch |-> c[i], from |-> cs[k].from, to |-> cs[k].to] \in Entries
    BY <2>1, <2>5 DEF Entries
  <2>7. o \in Seq(Entries)
    BY <2>5, <2>6
  <2>8. CodePoints(o) = [i \in DOMAIN c |-> c[i]]
    BY DEF CodePoints
  <2>9. [i \in DOMAIN c |-> c[i]] = c
    <3>1. c \in [1 .. Len(c) -> Chars]
      BY <2>3, LenProperties
    <3> QED
      BY <3>1
  <2>10. o = of(k)
    BY DEF c
  <2> HIDE DEF o, of
  <2> QED
    BY <2>4, <2>7, <2>8, <2>9, <2>10
<1> HIDE DEF of
<1>6. ss \in Seq(Seq(Entries)) /\ Len(ss) = n /\ \A k \in 1 .. n : ss[k] = of(k)
  BY <1>0, <1>4, <1>5
<1> HIDE DEF ss, n
<1>7. CASE s = <<>>
  <2>1. n = 0
    <3>1. StartsOf(s) = {}
      BY <1>7 DEF StartsOf
    <3> QED
      BY <3>1, FS_EmptySet DEF n
  <2>2. ss = <<>>
    BY <1>6, <2>1
  <2>3. CodePoints(<<>>) = <<>>
    BY DEF CodePoints
  <2> QED
    BY <1>1, <1>7, <2>2, <2>3, FlattenEmpty, NothingNormalized
<1>8. CASE s # <<>>
  <2>1. /\ n \in Nat \ {0} /\ at(1) = 1 /\ end(n) = Len(s)
        /\ \A k \in 1 .. n : k # n => at(k + 1) = end(k) + 1
    BY <1>8, StartsTile DEF n
  <2>2. \A k \in 1 .. n : at(k) \in StartsOf(s)
    BY StartIs DEF n
  <2>3. \A k \in 1 .. n : at(k) \in 1 .. Len(s) /\ end(k) \in at(k) .. Len(s)
    BY <2>2, EndIs
  <2>4. Len(s) \in Nat
    OBVIOUS
  <2> HIDE DEF at, end
  <2>5. PICK f : Flattens(ss, f) /\ FlattenSeq(ss) = f[Len(ss)]
    BY <1>6, <2>1, FlattenIs
  <2>6. \A k \in 1 .. n : f[k] = IF k = 1 THEN ss[k] ELSE f[k - 1] \o ss[k]
    BY <1>6, <2>5 DEF Flattens
  <2> DEFINE Good(k) == /\ f[k] \in Seq(Entries)
                        /\ CodePoints(f[k]) = NormalizeCluster(SubSeq(s, 1, end(k)), t)
             T == {0} \cup {k \in 1 .. n : Good(k)}
  <2>7. ASSUME NEW k \in 1 .. n, k - 1 \in T PROVE Good(k)
    <3>1. /\ ss[k] \in Seq(Entries)
          /\ CodePoints(ss[k]) = NormalizeCluster(SubSeq(s, at(k), end(k)), t)
      BY <1>5, <1>6
    <3>2. CASE k = 1
      <4>1. f[k] = ss[k]
        BY <2>6, <3>2
      <4> QED
        BY <2>1, <3>1, <3>2, <4>1
    <3>3. CASE k # 1
      <4> DEFINE j == k - 1
                 x == f[j]
                 y == ss[k]
                 sx == SubSeq(s, 1, end(j))
                 sy == SubSeq(s, at(k), end(k))
      <4>1. j \in 1 .. n /\ j # n /\ j + 1 = k
        BY <2>1, <3>3
      <4>2. Good(j)
        BY <2>7, <3>3, <4>1
      <4>3. f[k] = x \o y
        BY <2>6, <3>3
      <4> HIDE DEF j
      <4>4. at(k) = end(j) + 1
        BY <2>1, <4>1
      <4>5. /\ end(j) \in Nat /\ end(k) \in Nat /\ at(k) \in Nat /\ 1 <= end(j)
            /\ end(j) < at(k) /\ at(k) <= end(k) /\ end(k) <= Len(s) /\ at(k) # 1
        <5>1. at(j) \in 1 .. Len(s) /\ end(j) \in at(j) .. Len(s)
              /\ at(k) \in 1 .. Len(s) /\ end(k) \in at(k) .. Len(s)
          BY <2>3, <4>1
        <5> QED
          BY <2>4, <4>4, <5>1
      <4>6. x \in Seq(Entries) /\ CodePoints(x) = NormalizeCluster(sx, t)
        BY <4>2
      <4>7. y \in Seq(Entries) /\ CodePoints(y) = NormalizeCluster(sy, t)
        BY <3>1
      <4>8. sx \o sy = SubSeq(s, 1, end(k))
        <5>1. 1 \in 1 .. Len(s) + 1 /\ end(j) \in 1 - 1 .. Len(s) /\ end(k) \in end(j) .. Len(s)
          BY <2>4, <4>5
        <5> QED
          BY <4>4, <5>1, ConcatAdjacentSubSeq
      <4>9. sx \in Seq(Chars) /\ sy \in Seq(Chars) /\ BeginsCluster(sy)
        <5>1. 1 \in 1 .. Len(s) /\ end(j) \in 1 .. Len(s) /\ at(k) \in 1 .. Len(s)
              /\ end(k) \in at(k) .. Len(s)
          BY <2>4, <4>5
        <5>2. sx \in Seq(Chars) /\ sy \in Seq(Chars) /\ Len(sy) = end(k) - at(k) + 1
              /\ sy = [i \in 1 .. end(k) - at(k) + 1 |-> s[at(k) + i - 1]]
          BY <5>1, SubSeqIs
        <5>3. 1 \in 1 .. end(k) - at(k) + 1 /\ at(k) + 1 - 1 = at(k)
          BY <4>5
        <5>4. Len(sy) # 0
          BY <4>5, <5>2
        <5> HIDE DEF sy
        <5>5. sy[1] = s[at(k)] /\ sy # <<>>
          BY <5>2, <5>3, <5>4
        <5>6. s[at(k)] \in Input /\ ~ Attaches(s[at(k)])
          <6>1. s[at(k)] \in Input
            BY <5>1
          <6> QED
            BY <2>2, <4>5, <6>1 DEF StartsOf
        <5> QED
          BY <5>2, <5>5, <5>6 DEF BeginsCluster
      <4> HIDE DEF x, y, sx, sy
      <4>10. CodePoints(x \o y) = CodePoints(x) \o CodePoints(y) /\ x \o y \in Seq(Entries)
        BY <4>6, <4>7, CodePointsConcat, Concat
      <4>11. NormalizeCluster(sx \o sy, t) = NormalizeCluster(sx, t) \o NormalizeCluster(sy, t)
        BY <4>9, ClusterFormConcat
      <4> QED
        BY <4>3, <4>6, <4>7, <4>8, <4>10, <4>11
    <3> QED
      BY <3>2, <3>3
  <2> HIDE DEF Good
  <2>8. 0 \in T /\ \A k \in 1 .. n : k - 1 \in T => k \in T
    BY <2>7
  <2> HIDE DEF T
  <2>9. \A k \in 0 .. n : k \in T
    BY <2>1, <2>8, CountingUp
  <2>10. Good(n)
    <3>1. n \in T /\ n # 0
      BY <2>1, <2>9
    <3> QED
      BY <3>1 DEF T
  <2>11. SubSeq(s, 1, end(n)) = s
    BY <2>1, SubSeqFull
  <2> QED
    BY <1>1, <1>6, <2>5, <2>10, <2>11 DEF Good
<1> QED
  BY <1>7, <1>8

-----------------------------------------------------------------------------
(* What the stream has read and has yet to read is the normalized text.    *)

StreamInv ==
  /\ ReadOK /\ TextOK /\ text \in Seq(Input)
  /\ (read \o lower) \o Mapped(FoldTable(tok), src) = NormalizeCluster(text, tok)

LEMMA HeadFirst ==
  ASSUME NEW C, NEW s \in Seq(C), s # <<>>
  PROVE  s = <<Head(s)>> \o Tail(s) /\ Head(s) \in C /\ Tail(s) \in Seq(C)
<1>1. Head(s) \in C /\ Tail(s) \in Seq(C)
  BY HeadTailProperties
<1>2. Len(s) \in Nat /\ 1 \in 1 .. Len(s) /\ Len(s) \in 1 .. Len(s)
  BY EmptySeq
<1>3. SubSeq(s, 1, Len(s)) = <<s[1]>> \o SubSeq(s, 1 + 1, Len(s))
  BY <1>2, SubSeqRecursiveFirst
<1>4. SubSeq(s, 1, Len(s)) = s /\ SubSeq(s, 1 + 1, Len(s)) = Tail(s) /\ s[1] = Head(s)
  BY SubSeqFull, TailIsSubSeq
<1> QED
  BY <1>1, <1>3, <1>4

(* Moving the first of what is left to what has been read.                 *)
LEMMA MoveOne ==
  ASSUME NEW x \in Seq(Chars), NEW y \in Seq(Chars), y # <<>>
  PROVE  Append(x, Head(y)) \o Tail(y) = x \o y
<1>1. y = <<Head(y)>> \o Tail(y) /\ Head(y) \in Chars /\ Tail(y) \in Seq(Chars)
  BY HeadFirst
<1>2. Append(x, Head(y)) = x \o <<Head(y)>> /\ <<Head(y)>> \in Seq(Chars)
  BY <1>1, AppendIsConcat
<1>3. (x \o <<Head(y)>>) \o Tail(y) = x \o (<<Head(y)>> \o Tail(y))
  BY <1>1, <1>2, ConcatAssociative
<1> QED
  BY <1>1, <1>2, <1>3

LEMMA StreamBegins == Init => StreamInv
<1> SUFFICES ASSUME Init PROVE StreamInv
  OBVIOUS
<1>1. ReadOK
  BY TokensBegin DEF TokenInv
<1>2. TextOK /\ text \in Seq(Input)
  <2>1. PICK k \in 0 .. MaxLen : text \in [1 .. k -> Input]
    BY DEF Init
  <2>2. k \in Nat /\ Input \subseteq Chars
    BY Tables
  <2> QED
    BY <2>1, <2>2 DEF Init, TextOK
<1>3. read = <<>> /\ lower = <<>> /\ src = Normalized(text, tok)
  BY DEF Init
<1> DEFINE m == Mapped(FoldTable(tok), src)
<1>4. m = NormalizeCluster(text, tok)
  BY <1>2, <1>3, ClusterFormIs DEF TextOK
<1>5. m \in Seq(Chars)
  BY <1>2, <1>4, ClusterCharsType DEF TextOK
<1> HIDE DEF m
<1>6. (<<>> \o <<>>) \o m = m
  BY <1>5, ConcatEmptySeq, EmptySeq
<1>7. (read \o lower) \o m = NormalizeCluster(text, tok)
  BY <1>3, <1>4, <1>6
<1> QED
  BY <1>1, <1>2, <1>7 DEF StreamInv, m

LEMMA TakeKeeps ==
  ASSUME StreamInv, TakeChar, tok' = tok, text' = text
  PROVE  StreamInv'
<1>1. /\ tok \in Tokenizers /\ src \in Seq(Chars) /\ lower \in Seq(Chars) /\ read \in Seq(Chars)
      /\ text \in Seq(Chars)
      /\ (read \o lower) \o Mapped(FoldTable(tok), src) = NormalizeCluster(text, tok)
  BY DEF StreamInv, ReadOK, TextOK
<1>2. ReadOK' /\ TextOK' /\ text' \in Seq(Input)
  BY TakeCharType DEF StreamInv, TextOK
<1> DEFINE F == FoldTable(tok)
<1>3. F \in [Chars -> Seq(Chars)] /\ \A c \in Chars : F[c] = Folded(c, tok)
  BY <1>1, FoldTableType
<1> HIDE DEF F
<1>4. CASE lower # <<>>
  <2>1. lower' = Tail(lower) /\ src' = src /\ read' = Append(read, Head(lower))
    BY <1>4 DEF TakeChar, NextChar
  <2>2. read' \o lower' = read \o lower
    BY <1>1, <1>4, <2>1, MoveOne
  <2>3. (read' \o lower') \o Mapped(F, src') = NormalizeCluster(text, tok)
    BY <1>1, <2>1, <2>2 DEF F
  <2> QED
    BY <1>2, <2>3 DEF StreamInv, F
<1>5. CASE lower = <<>>
  <2> DEFINE c == Head(src)
             l == Folded(c, tok)
             rest == Mapped(F, Tail(src))
  <2>1. /\ src # <<>> /\ lower' = Tail(l) /\ src' = Tail(src) /\ read' = Append(read, Head(l))
    BY <1>5 DEF TakeChar, NextChar, HasChar
  <2>2. src = <<c>> \o Tail(src) /\ c \in Chars /\ Tail(src) \in Seq(Chars)
    BY <1>1, <2>1, HeadFirst
  <2>3. <<c>> \in Seq(Chars)
    BY <2>2
  <2>4. l \in Seq(Chars) /\ l # <<>> /\ F[c] = l
    BY <1>1, <1>3, <2>2, FoldedType
  <2>5. Mapped(F, src) = l \o rest
    <3>1. Mapped(F, <<c>>) = F[c]
      BY <1>3, <2>2, MappedOne
    <3>2. Mapped(F, <<c>> \o Tail(src)) = Mapped(F, <<c>>) \o Mapped(F, Tail(src))
      BY <1>3, <2>2, <2>3, MappedConcat
    <3> HIDE DEF c
    <3> QED
      BY <2>2, <2>4, <3>1, <3>2
  <2>6. rest \in Seq(Chars)
    BY <1>3, <2>2, MappedType
  <2> HIDE DEF c, l, rest
  <2>7. read' \o lower' = read \o l
    BY <1>1, <2>1, <2>4, MoveOne
  <2>8. (read \o l) \o rest = read \o (l \o rest)
    <3>1. read \in Seq(Chars) /\ l \in Seq(Chars) /\ rest \in Seq(Chars)
      BY <1>1, <2>4, <2>6
    <3> QED
      BY <3>1, ConcatAssociative
  <2>9. read \o lower = read
    BY <1>1, <1>5, ConcatEmptySeq
  <2>10. (read' \o lower') \o Mapped(F, src') = NormalizeCluster(text, tok)
    BY <1>1, <2>1, <2>5, <2>7, <2>8, <2>9 DEF F, rest
  <2> QED
    BY <1>2, <2>10 DEF StreamInv, F
<1> QED
  BY <1>4, <1>5

(* Where the tables keep apart the clusters of the code points texts are   *)
(* made of, span and tokenize see the same code points in every text.      *)
THEOREM ClustersAgree ==
  ASSUME ClustersApart
  PROVE  Spec => []ClustersMatchStream
<1>1. StreamInv /\ [Next]_vars => StreamInv'
  <2> SUFFICES ASSUME StreamInv, [Next]_vars PROVE StreamInv'
    OBVIOUS
  <2>1. CASE DrainPending
    BY <2>1 DEF DrainPending, StreamInv, ReadOK, TextOK
  <2>2. CASE BreakWord
    BY <2>2, TakeKeeps DEF BreakWord
  <2>3. CASE AdvanceRun
    BY <2>3, TakeKeeps DEF AdvanceRun
  <2>4. CASE AdvanceWindow
    BY <2>4, TakeKeeps DEF AdvanceWindow
  <2>5. CASE UNCHANGED vars
    BY <2>5 DEF vars, StreamInv, ReadOK, TextOK
  <2> QED
    BY <2>1, <2>2, <2>3, <2>4, <2>5 DEF Next
<1>2. StreamInv => ClustersMatchStream
  <2> SUFFICES ASSUME StreamInv, Done PROVE read = CodePoints(NormalizedChars(text, tok))
    BY DEF ClustersMatchStream
  <2>1. lower = <<>> /\ src = <<>>
    BY DEF Done, HasChar
  <2>2. tok \in Tokenizers /\ read \in Seq(Chars) /\ text \in Seq(Chars) /\ text \in Seq(Input)
    BY DEF StreamInv, ReadOK, TextOK
  <2>3. Mapped(FoldTable(tok), <<>>) = <<>>
    BY DEF Mapped, FlattenSeq
  <2>4. (read \o <<>>) \o <<>> = read
    BY <2>2, ConcatEmptySeq
  <2>5. read = NormalizeCluster(text, tok)
    BY <2>1, <2>3, <2>4 DEF StreamInv
  <2> QED
    BY <2>2, <2>5, ClustersNormalize
<1> QED
  BY <1>1, <1>2, StreamBegins, PTL DEF Spec

=============================================================================
