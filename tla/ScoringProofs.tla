--------------------------- MODULE ScoringProofs ---------------------------
(***************************************************************************)
(* The bit-sliced engine counts what it is asked to count, its walk        *)
(* returns every score, best first, and what score_union makes of the walk *)
(* is the top of the full ranking, for any number of postings, weights and *)
(* segments: proofs about ScoreUnion, whose steps drive the engine.  And   *)
(* the fusion of two rankings respects agreement, for any keys, weights,   *)
(* rankings and K: proofs about RankFusion.                                *)
(***************************************************************************)
EXTENDS ScoreUnion, RankFusion, SetProofs

-----------------------------------------------------------------------------
(* Powers of two.                                                          *)

LEMMA Powers ==
  /\ Pow2[0] = 1
  /\ \A n \in 0 .. Width : Pow2[n] \in Nat \ {0}
  /\ \A n \in 1 .. Width : Pow2[n] = 2 * Pow2[n - 1]
<1> DEFINE P == Nat \ {0}
           step == [p \in (1 .. Width) \X P |-> 2 * p[2]]
           Doubles(f) == f = [n \in 0 .. Width |-> IF n = 0 THEN 1 ELSE 2 * f[n - 1]]
<1>1. \A k \in 1 .. Width : \A x \in P : step[<<k, x>>] = 2 * x /\ step[<<k, x>>] \in P
  OBVIOUS
<1>2. PICK f \in [0 .. Width -> P] : Iterates(f, Width, 1, step)
  <2>1. Width \in Nat /\ 1 \in P
    BY SegmentIds
  <2> HIDE DEF step, P
  <2> QED
    BY <1>1, <2>1, IterationExists
<1>3. Doubles(f)
  <2>1. \A n \in 1 .. Width : f[n] = 2 * f[n - 1]
    <3>1. \A n \in 1 .. Width : f[n - 1] \in P
      BY SegmentIds
    <3> QED
      BY <1>1, <1>2, <3>1 DEF Iterates
  <2>2. f[0] = 1
    BY <1>2 DEF Iterates
  <2>3. f = [n \in 0 .. Width |-> f[n]]
    OBVIOUS
  <2>4. \A n \in 0 .. Width : f[n] = IF n = 0 THEN 1 ELSE 2 * f[n - 1]
    BY <2>1, <2>2, SegmentIds
  <2> QED
    BY <2>3, <2>4
<1>4. Doubles(Pow2)
  BY <1>3 DEF Pow2
<1>5. /\ Pow2[0] = 1
      /\ \A n \in 1 .. Width : Pow2[n] = 2 * Pow2[n - 1]
  BY <1>4, SegmentIds
<1> DEFINE T == {n \in 0 .. Width : Pow2[n] \in P}
<1>6. 0 \in T /\ \A n \in 1 .. Width : n - 1 \in T => n \in T
  BY <1>5, SegmentIds
<1> HIDE DEF T
<1>7. \A n \in 0 .. Width : n \in T
  BY <1>6, SegmentIds, CountingUp
<1> QED
  BY <1>5, <1>7 DEF T

-----------------------------------------------------------------------------
(* Reading a set of bits as a number, from the lowest up.                  *)

Reads(v, held) ==
  /\ v \in [0 .. Width -> Int]
  /\ v[0] = 0
  /\ \A b \in Bits : v[b + 1] = v[b] + (IF b \in held THEN Pow2[b] ELSE 0)

LEMMA BitsAre ==
  /\ \A b \in Bits : /\ b \in Nat /\ b \in 0 .. Width /\ b + 1 \in 1 .. Width
                     /\ (b + 1) - 1 = b /\ Pow2[b] \in Nat \ {0}
                     /\ Pow2[b + 1] = 2 * Pow2[b]
  /\ \A n \in 1 .. Width : n - 1 \in Bits /\ (n - 1) + 1 = n
  /\ Width \in Nat
BY Powers, SegmentIds DEF Bits

LEMMA ReadExists ==
  ASSUME NEW held
  PROVE  \E v : Reads(v, held)
<1> DEFINE add == [k \in 1 .. Width |-> IF k - 1 \in held THEN Pow2[k - 1] ELSE 0]
           step == [p \in (1 .. Width) \X Int |-> p[2] + add[p[1]]]
<1>1. \A k \in 1 .. Width : \A x \in Int : step[<<k, x>>] = x + add[k]
  OBVIOUS
<1>2. \A k \in 1 .. Width : add[k] \in Int
  BY BitsAre
<1> HIDE DEF add, step
<1>3. ASSUME NEW k \in 1 .. Width, NEW x \in Int PROVE step[<<k, x>>] \in Int
  <2>1. step[<<k, x>>] = x + add[k] /\ add[k] \in Int
    BY <1>1, <1>2
  <2> QED
    BY <2>1
<1>4. PICK v \in [0 .. Width -> Int] : Iterates(v, Width, 0, step)
  <2>1. Width \in Nat /\ 0 \in Int
    BY BitsAre
  <2> QED
    BY <1>3, <2>1, IterationExists
<1>5. ASSUME NEW b \in Bits
      PROVE  v[b + 1] = v[b] + (IF b \in held THEN Pow2[b] ELSE 0)
  <2>1. v[b + 1] = step[<<b + 1, v[b]>>] /\ v[b] \in Int
    BY <1>4, BitsAre DEF Iterates
  <2>2. v[b + 1] = v[b] + add[b + 1]
    BY <1>1, <2>1, BitsAre
  <2> QED
    BY <2>2, BitsAre DEF add
<1> QED
  BY <1>4, <1>5 DEF Reads, Iterates

LEMMA ReadBounds ==
  ASSUME NEW v, NEW held, Reads(v, held)
  PROVE  \A k \in 0 .. Width : 0 <= v[k] /\ v[k] < Pow2[k]
<1> DEFINE T == {k \in 0 .. Width : 0 <= v[k] /\ v[k] < Pow2[k]}
<1>1. 0 \in T
  BY Powers, SegmentIds DEF Reads
<1>2. ASSUME NEW k \in 1 .. Width, k - 1 \in T PROVE k \in T
  <2> DEFINE b == k - 1
  <2>1. b \in Bits /\ b + 1 = k /\ b \in 0 .. Width
    BY BitsAre
  <2>2. v[k] = v[b] + (IF b \in held THEN Pow2[b] ELSE 0)
    BY <2>1 DEF Reads
  <2>3. 0 <= v[b] /\ v[b] < Pow2[b] /\ v[b] \in Int
    BY <1>2, <2>1 DEF Reads
  <2>4. Pow2[k] = 2 * Pow2[b] /\ Pow2[b] \in Nat
    BY <2>1, BitsAre
  <2> HIDE DEF b
  <2> QED
    BY <2>2, <2>3, <2>4
<1> HIDE DEF T
<1>3. \A k \in 0 .. Width : k \in T
  BY <1>1, <1>2, BitsAre, CountingUp
<1> QED
  BY <1>3 DEF T

(* Different sets of bits are different numbers.                           *)
LEMMA ReadUnique ==
  ASSUME NEW v, NEW held, Reads(v, held), NEW u, NEW kept, Reads(u, kept),
         v[Width] = u[Width]
  PROVE  \A b \in Bits : b \in held <=> b \in kept
<1> DEFINE T == {j \in 0 .. Width : v[Width - j] = u[Width - j]}
<1>1. ASSUME NEW b \in Bits, NEW n, n = b + 1, v[n] = u[n]
      PROVE  v[b] = u[b] /\ (b \in held <=> b \in kept)
  <2>1. /\ v[b + 1] = v[b] + (IF b \in held THEN Pow2[b] ELSE 0)
        /\ u[b + 1] = u[b] + (IF b \in kept THEN Pow2[b] ELSE 0)
    BY DEF Reads
  <2>2. /\ 0 <= v[b] /\ v[b] < Pow2[b] /\ v[b] \in Int
        /\ 0 <= u[b] /\ u[b] < Pow2[b] /\ u[b] \in Int
        /\ Pow2[b] \in Nat
    BY ReadBounds, BitsAre DEF Reads
  <2> QED
    BY <1>1, <2>1, <2>2
<1>2. 0 \in T
  BY BitsAre
<1>3. ASSUME NEW j \in 1 .. Width, j - 1 \in T PROVE j \in T
  <2> DEFINE b == Width - j
             n == Width - (j - 1)
  <2>1. b \in Bits /\ n = b + 1
    BY BitsAre DEF Bits
  <2>2. v[n] = u[n]
    BY <1>3
  <2> HIDE DEF b, n
  <2>3. v[b] = u[b]
    BY <1>1, <2>1, <2>2
  <2> QED
    BY <2>3 DEF b
<1> HIDE DEF T
<1>4. \A j \in 0 .. Width : j \in T
  BY <1>2, <1>3, BitsAre, CountingUp
<1>5. ASSUME NEW b \in Bits PROVE b \in held <=> b \in kept
  <2>1. Width - (b + 1) \in 0 .. Width /\ Width - (Width - (b + 1)) = b + 1
    BY BitsAre DEF Bits
  <2>2. v[b + 1] = u[b + 1]
    BY <1>4, <2>1 DEF T
  <2> QED
    BY <1>1, <2>2
<1> QED
  BY <1>5

LEMMA ReadAgain ==
  ASSUME NEW v, NEW held, Reads(v, held), NEW u, NEW kept, Reads(u, kept),
         \A b \in Bits : b \in held <=> b \in kept
  PROVE  v[Width] = u[Width]
<1> DEFINE T == {k \in 0 .. Width : v[k] = u[k]}
<1>1. 0 \in T
  BY BitsAre DEF Reads
<1>2. ASSUME NEW k \in 1 .. Width, k - 1 \in T PROVE k \in T
  <2> DEFINE b == k - 1
  <2>1. b \in Bits /\ b + 1 = k
    BY BitsAre
  <2>2. /\ v[k] = v[b] + (IF b \in held THEN Pow2[b] ELSE 0)
        /\ u[k] = u[b] + (IF b \in kept THEN Pow2[b] ELSE 0)
    BY <2>1 DEF Reads
  <2>3. v[b] = u[b]
    BY <1>2
  <2> HIDE DEF b
  <2> QED
    BY <2>1, <2>2, <2>3
<1> HIDE DEF T
<1>3. \A k \in 0 .. Width : k \in T
  BY <1>1, <1>2, BitsAre, CountingUp
<1> QED
  BY <1>3, BitsAre DEF T

-----------------------------------------------------------------------------
(* The bits of a number.                                                   *)

LEMMA DivMod ==
  ASSUME NEW c \in Nat, NEW p \in Nat \ {0}
  PROVE  /\ c \div p \in Nat /\ c % p \in Nat /\ c % p < p
         /\ c = p * (c \div p) + (c % p)
OBVIOUS

LEMMA DivModUnique ==
  ASSUME NEW p \in Nat \ {0}, NEW q \in Nat, NEW r \in Nat, r < p,
         NEW s \in Nat, NEW t \in Nat, t < p, p * q + r = p * s + t
  PROVE  q = s /\ r = t
<1>1. q <= s
  <2> SUFFICES ASSUME q >= s + 1 PROVE FALSE
    OBVIOUS
  <2>1. p * q >= p * (s + 1)
    OBVIOUS
  <2>2. p * (s + 1) = p * s + p
    OBVIOUS
  <2> QED
    BY <2>1, <2>2
<1>2. s <= q
  <2> SUFFICES ASSUME s >= q + 1 PROVE FALSE
    OBVIOUS
  <2>1. p * s >= p * (q + 1)
    OBVIOUS
  <2>2. p * (q + 1) = p * q + p
    OBVIOUS
  <2> QED
    BY <2>1, <2>2
<1> QED
  BY <1>1, <1>2

LEMMA ModNext ==
  ASSUME NEW c \in Nat, NEW p \in Nat \ {0}
  PROVE  c % (2 * p) = (c % p) + (IF (c \div p) % 2 = 1 THEN p ELSE 0)
<1> DEFINE q == c \div p
           r == c % p
           h == q \div 2
           e == q % 2
           d == 2 * p
<1>1. q \in Nat /\ r \in Nat /\ r < p /\ c = p * q + r
  BY DivMod
<1>2. h \in Nat /\ e \in Nat /\ e < 2 /\ q = 2 * h + e
  BY <1>1, DivMod
<1>0. d \in Nat \ {0}
  OBVIOUS
<1>3. c \div d \in Nat /\ c % d \in Nat /\ c % d < d /\ c = d * (c \div d) + (c % d)
  <2> HIDE DEF d
  <2> QED
    BY <1>0, DivMod
<1> DEFINE s == c \div d
           t == c % d
           g == IF e = 1 THEN p ELSE 0
<1> HIDE DEF q, r, h, e, s, t
<1>4. p * q = d * h + g
  <2>1. CASE e = 0
    BY <1>1, <1>2, <2>1
  <2>2. CASE e = 1
    <3>1. p * q = p * (2 * h) + p
      BY <1>1, <1>2, <2>2
    <3> QED
      BY <1>2, <2>2, <3>1
  <2> QED
    BY <1>2, <2>1, <2>2
<1>5. g \in Nat /\ g + r \in Nat /\ g + r < d /\ d \in Nat \ {0}
  BY <1>1, <1>2
<1>6. s \in Nat /\ t \in Nat /\ t < d /\ c = d * s + t
  BY <1>3 DEF s, t
<1> HIDE DEF d, g
<1>7. d * h + (g + r) = d * s + t
  <2>1. d * h \in Int /\ d * s \in Int
    BY <1>2, <1>5, <1>6
  <2>2. c = (d * h + g) + r
    BY <1>1, <1>4
  <2>3. c = d * s + t
    BY <1>6
  <2> QED
    BY <1>1, <1>2, <1>5, <2>1, <2>2, <2>3
<1>8. g + r = t
  <2> DEFINE x == g + r
  <2>1. x \in Nat /\ x < d /\ d * h + x = d * s + t
    BY <1>5, <1>7
  <2>2. d \in Nat \ {0} /\ h \in Nat /\ s \in Nat /\ t \in Nat /\ t < d
    BY <1>2, <1>5, <1>6
  <2> HIDE DEF x
  <2>3. x = t
    BY <2>1, <2>2, DivModUnique
  <2> QED
    BY <2>3 DEF x
<1> QED
  BY <1>8, <1>1, <1>5 DEF g, t, d, r, e, q

BitsOf(c) == {b \in Bits : Bit(c, b)}

LEMMA ModOne == \A c \in Nat : c % 1 = 0
OBVIOUS

LEMMA ModSmall ==
  ASSUME NEW c \in Nat, NEW p \in Nat, c < p
  PROVE  c % p = c
OBVIOUS

LEMMA ReadOf ==
  ASSUME NEW c \in Nat, c < Pow2[Width]
  PROVE  \E v : Reads(v, BitsOf(c)) /\ v[Width] = c
<1> DEFINE v == [k \in 0 .. Width |-> c % Pow2[k]]
<1>1. v \in [0 .. Width -> Int]
  BY Powers, DivMod
<1>2. v[0] = 0
  BY Powers, BitsAre, ModOne
<1>3. ASSUME NEW b \in Bits
      PROVE  v[b + 1] = v[b] + (IF b \in BitsOf(c) THEN Pow2[b] ELSE 0)
  <2>1. b \in 0 .. Width /\ b + 1 \in 0 .. Width
    BY BitsAre
  <2>2. Pow2[b + 1] = 2 * Pow2[b] /\ Pow2[b] \in Nat \ {0}
    BY BitsAre
  <2>3. c % Pow2[b + 1] = (c % Pow2[b]) + (IF (c \div Pow2[b]) % 2 = 1 THEN Pow2[b] ELSE 0)
    BY <2>2, ModNext
  <2>4. b \in BitsOf(c) <=> (c \div Pow2[b]) % 2 = 1
    BY DEF BitsOf, Bit
  <2> QED
    BY <2>1, <2>3, <2>4
<1>4. v[Width] = c
  BY BitsAre, Powers, ModSmall
<1>5. Reads(v, BitsOf(c))
  BY <1>1, <1>2, <1>3 DEF Reads
<1> HIDE DEF v
<1> QED
  BY <1>4, <1>5

-----------------------------------------------------------------------------
(* The planes count: a carry adds its power of two, and a posting its      *)
(* weight, to the segments it holds, as long as no plane overflows.        *)

Planes == [Bits -> SUBSET Ids]

HeldBy(pl, i) == {b \in Bits : i \in pl[b]}

(* c is what the planes say of segment i.                                  *)
Counts(pl, i, c) == \E v : Reads(v, HeldBy(pl, i)) /\ v[Width] = c

LEMMA RippleType ==
  ASSUME NEW pl \in Planes, NEW op \in SUBSET Ids, NEW start
  PROVE  Ripple(pl, op, start) \in Planes
BY DEF Ripple, Planes, SymDiff

LEMMA RippleAdds ==
  ASSUME NEW pl, NEW op, NEW i \in op, NEW start \in Bits,
         NEW c \in Int, Counts(pl, i, c), c + Pow2[start] < Pow2[Width]
  PROVE  Counts(Ripple(pl, op, start), i, c + Pow2[start])
<1> DEFINE rp == Ripple(pl, op, start)
           carry(b) == \A k \in start .. b - 1 : i \in pl[k]
<1>1. PICK v : Reads(v, HeldBy(pl, i)) /\ v[Width] = c
  BY DEF Counts
<1>2. PICK u : Reads(u, HeldBy(rp, i))
  BY ReadExists
<1>3. /\ start \in Nat /\ start \in 0 .. Width /\ Pow2[start] \in Nat \ {0}
  BY BitsAre
<1>4. \A k \in 0 .. Width : v[k] \in Int /\ u[k] \in Int
  BY <1>1, <1>2 DEF Reads
<1>5. ASSUME NEW b \in Bits
      PROVE  b \in HeldBy(rp, i) <=>
               IF b >= start /\ carry(b) THEN b \notin HeldBy(pl, i) ELSE b \in HeldBy(pl, i)
  BY <1>3, BitsAre DEF HeldBy, Ripple, SymDiff
<1> DEFINE T == {k \in 0 .. Width :
                   /\ k <= start => u[k] = v[k]
                   /\ k > start /\ carry(k) => u[k] + Pow2[k] = v[k] + Pow2[start]
                   /\ k > start /\ ~carry(k) => u[k] = v[k] + Pow2[start]}
<1>6. 0 \in T
  BY <1>1, <1>2, <1>3, BitsAre DEF Reads
<1>7. ASSUME NEW k \in 1 .. Width, k - 1 \in T PROVE k \in T
  <2> DEFINE b == k - 1
  <2>1. b \in Bits /\ b + 1 = k /\ b \in 0 .. Width /\ b \in Nat
    BY BitsAre
  <2>2. /\ v[k] = v[b] + (IF b \in HeldBy(pl, i) THEN Pow2[b] ELSE 0)
        /\ u[k] = u[b] + (IF b \in HeldBy(rp, i) THEN Pow2[b] ELSE 0)
    BY <1>1, <1>2, <2>1 DEF Reads
  <2>3. /\ Pow2[k] = 2 * Pow2[b] /\ Pow2[b] \in Nat /\ Pow2[k] \in Nat
        /\ v[b] \in Int /\ u[b] \in Int
    BY <1>4, <2>1, BitsAre
  <2>4. /\ b <= start => u[b] = v[b]
        /\ b > start /\ carry(b) => u[b] + Pow2[b] = v[b] + Pow2[start]
        /\ b > start /\ ~carry(b) => u[b] = v[b] + Pow2[start]
    BY <1>7
  <2>5. b \in HeldBy(pl, i) <=> i \in pl[b]
    BY <2>1 DEF HeldBy
  <2>6. b >= start => (carry(k) <=> carry(b) /\ i \in pl[b])
    BY <1>3, <2>1
  <2>7. b <= start => carry(b)
    BY <1>3, <2>1
  <2>8. b \in HeldBy(rp, i) <=>
          IF b >= start /\ carry(b) THEN b \notin HeldBy(pl, i) ELSE b \in HeldBy(pl, i)
    BY <1>5, <2>1
  <2> HIDE DEF carry, rp
  <2>9. CASE b < start
    <3>1. k <= start
      BY <1>3, <2>1, <2>9
    <3>2. u[k] = v[k]
      BY <1>3, <2>1, <2>2, <2>3, <2>4, <2>8, <2>9
    <3> QED
      BY <1>3, <3>1, <3>2
  <2>10. CASE b >= start
    <3>1. k > start /\ k \in 0 .. Width
      BY <1>3, <2>1, <2>10
    <3>2. carry(b) => u[b] + Pow2[b] = v[b] + Pow2[start]
      <4> HIDE DEF b
      <4>1. CASE b = start
        BY <1>3, <2>3, <2>4, <4>1
      <4>2. CASE b > start
        BY <2>4, <4>2
      <4> QED
        BY <1>3, <2>1, <2>10, <4>1, <4>2
    <3>3. ~carry(b) => u[b] = v[b] + Pow2[start]
      BY <1>3, <2>1, <2>4, <2>7, <2>10
    <3> HIDE DEF b
    <3>4. carry(k) => u[k] + Pow2[k] = v[k] + Pow2[start]
      BY <1>3, <2>2, <2>3, <2>5, <2>6, <2>8, <2>10, <3>2
    <3>5. ~carry(k) => u[k] = v[k] + Pow2[start]
      BY <1>3, <2>2, <2>3, <2>5, <2>6, <2>8, <2>10, <3>2, <3>3
    <3> QED
      BY <1>3, <3>1, <3>4, <3>5
  <2> QED
    BY <1>3, <2>1, <2>9, <2>10
<1> HIDE DEF T
<1>8. Width \in T
  BY <1>6, <1>7, BitsAre, CountingUp
<1>9. u[Width] = v[Width] + Pow2[start]
  <2>1. /\ carry(Width) => u[Width] + Pow2[Width] = v[Width] + Pow2[start]
        /\ ~carry(Width) => u[Width] = v[Width] + Pow2[start]
    BY <1>8, <1>3, BitsAre DEF T, Bits
  <2>2. 0 <= u[Width] /\ u[Width] \in Int /\ Pow2[Width] \in Nat
    BY <1>2, <1>4, ReadBounds, BitsAre, Powers
  <2> HIDE DEF carry
  <2> QED
    BY <1>1, <1>3, <2>1, <2>2
<1> QED
  BY <1>1, <1>2, <1>9 DEF Counts

LEMMA RippleSpares ==
  ASSUME NEW pl, NEW op, NEW i, i \notin op, NEW start
  PROVE  HeldBy(Ripple(pl, op, start), i) = HeldBy(pl, i)
BY DEF HeldBy, Ripple, SymDiff

(* The loop of add_weighted over the bits of a weight.                     *)
AddsUp(f, pl, op, w) ==
  /\ f \in [0 .. Width -> Planes]
  /\ f[0] = pl
  /\ \A b \in 1 .. Width :
       f[b] = IF Bit(w, b - 1) THEN Ripple(f[b - 1], op, b - 1) ELSE f[b - 1]

LEMMA AddWeightedLoop ==
  ASSUME NEW pl \in Planes, NEW op \in SUBSET Ids, NEW w
  PROVE  \E f : AddsUp(f, pl, op, w) /\ AddWeighted(pl, op, w) = f[Width]
<1> DEFINE next(b, x) == IF Bit(w, b - 1) THEN Ripple(x, op, b - 1) ELSE x
           step == [p \in (1 .. Width) \X Planes |-> next(p[1], p[2])]
           IsUpTo(f) == f = [b \in 0 .. Width |-> IF b = 0 THEN pl ELSE
                              IF Bit(w, b - 1) THEN Ripple(f[b - 1], op, b - 1) ELSE f[b - 1]]
<1>1. ASSUME NEW k \in 1 .. Width, NEW x \in Planes
      PROVE  step[<<k, x>>] = next(k, x) /\ step[<<k, x>>] \in Planes
  BY RippleType
<1> HIDE DEF step
<1>2. PICK f \in [0 .. Width -> Planes] : Iterates(f, Width, pl, step)
  BY <1>1, BitsAre, IterationExists
<1>3. ASSUME NEW b \in 1 .. Width
      PROVE  f[b] = IF Bit(w, b - 1) THEN Ripple(f[b - 1], op, b - 1) ELSE f[b - 1]
  <2> HIDE DEF IsUpTo
  <2>0. b - 1 \in 0 .. Width
    BY SegmentIds
  <2>1. f[b] = step[<<b, f[b - 1]>>] /\ f[b - 1] \in Planes
    BY <1>2, <2>0 DEF Iterates
  <2>2. step[<<b, f[b - 1]>>] = next(b, f[b - 1])
    BY <1>1, <2>1
  <2> QED
    BY <2>1, <2>2
<1>4. IsUpTo(f)
  <2>1. f = [b \in 0 .. Width |-> f[b]]
    OBVIOUS
  <2>2. \A b \in 0 .. Width :
          f[b] = IF b = 0 THEN pl ELSE
                 IF Bit(w, b - 1) THEN Ripple(f[b - 1], op, b - 1) ELSE f[b - 1]
    BY <1>2, <1>3, BitsAre DEF Iterates
  <2> QED
    BY <2>1, <2>2
<1> DEFINE g == CHOOSE f1 : IsUpTo(f1)
<1>5. IsUpTo(g)
  BY <1>4
<1>6. AddWeighted(pl, op, w) = g[Width]
  BY Zenon DEF AddWeighted
<1> DEFINE T == {b \in 0 .. Width : g[b] = f[b]}
<1>7. 0 \in T
  <2> HIDE DEF g
  <2>1. 0 \in 0 .. Width
    BY SegmentIds
  <2>2. g[0] = pl
    BY <1>5, <2>1
  <2>3. f[0] = pl
    BY <1>2 DEF Iterates
  <2> QED
    BY <2>1, <2>2, <2>3
<1>8. ASSUME NEW b \in 1 .. Width, b - 1 \in T PROVE b \in T
  <2>0. b \in 0 .. Width /\ b # 0
    BY SegmentIds
  <2> HIDE DEF g
  <2>1. g[b] = IF Bit(w, b - 1) THEN Ripple(g[b - 1], op, b - 1) ELSE g[b - 1]
    BY <1>5, <2>0
  <2>2. g[b - 1] = f[b - 1]
    BY <1>8
  <2>3. g[b] = f[b]
    BY <1>3, <2>1, <2>2
  <2> QED
    BY <2>3, BitsAre
<1> HIDE DEF T, g, IsUpTo, next
<1>9. Width \in T
  <2>1. Width \in Nat /\ Width \in 0 .. Width
    BY BitsAre
  <2>2. \A b \in 0 .. Width : b \in T
    BY <1>7, <1>8, <2>1, CountingUp
  <2> QED
    BY <2>1, <2>2
<1>10. AddsUp(f, pl, op, w)
  BY <1>2, <1>3 DEF AddsUp, Iterates
<1> QED
  BY <1>6, <1>9, <1>10 DEF T

LEMMA AddWeightedType ==
  ASSUME NEW pl \in Planes, NEW op \in SUBSET Ids, NEW w
  PROVE  AddWeighted(pl, op, w) \in Planes
<1>1. PICK f : AddsUp(f, pl, op, w) /\ AddWeighted(pl, op, w) = f[Width]
  BY AddWeightedLoop
<1> QED
  BY <1>1, BitsAre DEF AddsUp

LEMMA AddWeightedAdds ==
  ASSUME NEW pl \in Planes, NEW op \in SUBSET Ids, NEW w \in Nat, NEW i \in op,
         NEW c \in Nat, Counts(pl, i, c), c + w < Pow2[Width]
  PROVE  Counts(AddWeighted(pl, op, w), i, c + w)
<1>1. PICK f : AddsUp(f, pl, op, w) /\ AddWeighted(pl, op, w) = f[Width]
  BY AddWeightedLoop
<1> DEFINE T == {k \in 0 .. Width : Counts(f[k], i, c + (w % Pow2[k]))}
<1>2. 0 \in T
  <2>1. w % Pow2[0] = 0
    BY Powers, ModOne
  <2>2. c + (w % Pow2[0]) = c
    BY <2>1
  <2> QED
    BY <1>1, <2>2, BitsAre DEF AddsUp
<1>3. ASSUME NEW k \in 1 .. Width, k - 1 \in T PROVE k \in T
  <2> DEFINE b == k - 1
             m == w % Pow2[b]
  <2>1. b \in Bits /\ b + 1 = k
    BY BitsAre
  <2>2. Pow2[b] \in Nat \ {0} /\ Pow2[k] = 2 * Pow2[b]
    BY <2>1, BitsAre
  <2>3. w % Pow2[k] = m + (IF (w \div Pow2[b]) % 2 = 1 THEN Pow2[b] ELSE 0)
    BY <2>2, ModNext
  <2>4. m \in Nat
    BY <2>2, DivMod
  <2>5. w % Pow2[k] <= w
    <3>1. Pow2[k] \in Nat \ {0}
      BY Powers
    <3> HIDE DEF m
    <3> QED
      BY <3>1
  <2>6. Counts(f[b], i, c + m)
    BY <1>3
  <2>7. f[k] = IF Bit(w, b) THEN Ripple(f[b], op, b) ELSE f[b]
    BY <1>1 DEF AddsUp
  <2>8. Bit(w, b) <=> (w \div Pow2[b]) % 2 = 1
    BY DEF Bit
  <2> HIDE DEF b, m
  <2>9. CASE Bit(w, b)
    <3>1. w % Pow2[k] = m + Pow2[b]
      BY <2>3, <2>8, <2>9
    <3>2. c + m \in Int /\ (c + m) + Pow2[b] < Pow2[Width]
      BY <2>2, <2>4, <2>5, <3>1, Powers, BitsAre
    <3>3. Counts(Ripple(f[b], op, b), i, (c + m) + Pow2[b])
      BY <2>1, <2>6, <3>2, RippleAdds
    <3>4. (c + m) + Pow2[b] = c + (w % Pow2[k])
      BY <2>2, <2>4, <3>1
    <3> QED
      BY <2>7, <2>9, <3>3, <3>4
  <2>10. CASE ~Bit(w, b)
    <3>1. w % Pow2[k] = m
      BY <2>3, <2>4, <2>8, <2>10
    <3> QED
      BY <2>6, <2>7, <2>10, <3>1
  <2> QED
    BY <2>9, <2>10
<1> HIDE DEF T
<1>4. Width \in T
  BY <1>2, <1>3, BitsAre, CountingUp
<1>5. w % Pow2[Width] = w
  BY Powers, BitsAre, ModSmall
<1> QED
  BY <1>1, <1>4, <1>5 DEF T

LEMMA AddWeightedSpares ==
  ASSUME NEW pl \in Planes, NEW op \in SUBSET Ids, NEW w, NEW i, i \notin op,
         NEW c, Counts(pl, i, c)
  PROVE  Counts(AddWeighted(pl, op, w), i, c)
<1>1. PICK f : AddsUp(f, pl, op, w) /\ AddWeighted(pl, op, w) = f[Width]
  BY AddWeightedLoop
<1> DEFINE T == {k \in 0 .. Width : HeldBy(f[k], i) = HeldBy(pl, i)}
<1>2. 0 \in T
  BY <1>1, BitsAre DEF AddsUp
<1>3. ASSUME NEW k \in 1 .. Width, k - 1 \in T PROVE k \in T
  <2>1. f[k] = IF Bit(w, k - 1) THEN Ripple(f[k - 1], op, k - 1) ELSE f[k - 1]
    BY <1>1 DEF AddsUp
  <2>2. HeldBy(Ripple(f[k - 1], op, k - 1), i) = HeldBy(f[k - 1], i)
    BY RippleSpares
  <2>3. HeldBy(f[k - 1], i) = HeldBy(pl, i)
    BY <1>3
  <2>4. HeldBy(f[k], i) = HeldBy(pl, i)
    BY <2>1, <2>2, <2>3
  <2> QED
    BY <2>4, BitsAre
<1> HIDE DEF T
<1>4. Width \in T
  BY <1>2, <1>3, BitsAre, CountingUp
<1> QED
  BY <1>1, <1>4 DEF T, Counts

LEMMA NothingCounted ==
  ASSUME NEW i
  PROVE  Counts([b \in Bits |-> {}], i, 0)
<1> DEFINE v == [k \in 0 .. Width |-> 0]
<1>1. Reads(v, HeldBy([b \in Bits |-> {}], i)) /\ v[Width] = 0
  BY BitsAre DEF Reads, HeldBy
<1> HIDE DEF v
<1> QED
  BY <1>1 DEF Counts

(* count_eq_into: of the numbers the planes can hold, only the right one   *)
(* has the segment.                                                        *)
LEMMA CountEqExact ==
  ASSUME planes \in Planes, NEW i \in Ids, NEW n, Counts(planes, i, n),
         NEW c \in Nat, c # 0, c < Pow2[Width]
  PROVE  i \in CountEq(c) <=> n = c
<1>1. PICK v : Reads(v, HeldBy(planes, i)) /\ v[Width] = n
  BY DEF Counts
<1>2. PICK u : Reads(u, BitsOf(c)) /\ u[Width] = c
  BY ReadOf
<1>3. i \in CountEq(c) <=> \A b \in Bits : b \in HeldBy(planes, i) <=> b \in BitsOf(c)
  <2>1. i \in CountEq(c) <=> \A b \in Bits : (i \in planes[b]) = Bit(c, b)
    BY DEF CountEq
  <2>2. \A b \in Bits : Bit(c, b) \in BOOLEAN
    BY DEF Bit
  <2>3. \A b \in Bits : /\ b \in HeldBy(planes, i) <=> i \in planes[b]
                        /\ b \in BitsOf(c) <=> Bit(c, b)
    BY DEF HeldBy, BitsOf
  <2> QED
    BY <2>1, <2>2, <2>3
<1>4. n = c => i \in CountEq(c)
  BY <1>1, <1>2, <1>3, ReadUnique
<1>5. i \in CountEq(c) => n = c
  BY <1>1, <1>2, <1>3, ReadAgain
<1> QED
  BY <1>4, <1>5

-----------------------------------------------------------------------------
(* Scores are sums of the weights of the postings that hold the segment.   *)

LEMMA SmallestId ==
  ASSUME NEW T \in SUBSET Ids, T # {}
  PROVE  Min(T) \in T /\ \A j \in T : Min(T) <= j
<1> DEFINE Q == {R \in SUBSET Ids : R # {} => \E m \in R : \A j \in R : m <= j}
<1>1. ASSUME NEW R \in SUBSET Ids, \A x \in R : R \ {x} \in Q PROVE R \in Q
  <2> SUFFICES ASSUME R # {} PROVE \E m \in R : \A j \in R : m <= j
    OBVIOUS
  <2>1. PICK x : x \in R
    OBVIOUS
  <2>2. R \ {x} # {} => \E m \in R \ {x} : \A j \in R \ {x} : m <= j
    BY <1>1, <2>1
  <2>3. \A j \in R : j \in Int
    BY SegmentIds
  <2>4. CASE R = {x}
    BY <2>3, <2>4
  <2>5. CASE R \ {x} # {}
    <3>1. PICK m \in R \ {x} : \A j \in R \ {x} : m <= j
      BY <2>2, <2>5
    <3>2. CASE m <= x
      BY <3>1, <3>2
    <3>3. CASE x <= m
      <4>1. \A j \in R \ {x} : x <= j
        BY <2>1, <2>3, <3>1, <3>3
      <4> QED
        BY <2>1, <2>3, <4>1
    <3> QED
      BY <2>1, <2>3, <3>1, <3>2, <3>3
  <2> QED
    BY <2>1, <2>4, <2>5
<1> HIDE DEF Q
<1>2. IsFiniteSet(Ids)
  BY SegmentIds
<1>3. \A R \in SUBSET Ids : R \in Q
  BY <1>1, <1>2, SubsetInduction
<1>4. \E m \in T : \A j \in T : m <= j
  BY <1>3 DEF Q
<1> QED
  BY <1>4 DEF Min

-----------------------------------------------------------------------------
(* What the inputs and the plan are, and what the planes count.            *)

Hits(i, n) == {k \in 1..n : i \in ops[k]}

Given ==
  /\ ops \in Seq(SUBSET Ids)
  /\ weights \in [DOMAIN ops -> Nat]
  /\ minShared \in Nat
  /\ MaxScore < Pow2[Width]

Counted ==
  /\ added \in 0..Len(ops)
  /\ planes \in Planes
  /\ \A i \in Ids : Counts(planes, i, Score(i, added)) /\ Score(i, added) \in reachable

LEMMA ScoreIsTotal ==
  /\ MaxScore = Total(weights, DOMAIN ops)
  /\ \A i, n : Score(i, n) = Total(weights, Hits(i, n))
BY DEF MaxScore, Score, Hits, Slots, MapThenSumSet, MapThenFoldSet, Total

LEMMA HitsAre ==
  ASSUME Given, NEW i, NEW n \in 0..Len(ops)
  PROVE  /\ Hits(i, n) \in SUBSET (DOMAIN ops)
         /\ IsFiniteSet(DOMAIN ops) /\ IsFiniteSet(Hits(i, n))
         /\ \A k \in DOMAIN ops : weights[k] \in Nat
<1>1. DOMAIN ops = 1..Len(ops) /\ Len(ops) \in Nat
  BY DEF Given
<1>2. IsFiniteSet(DOMAIN ops)
  BY <1>1, FS_Interval
<1>3. Hits(i, n) \in SUBSET (DOMAIN ops)
  BY <1>1 DEF Hits
<1>4. \A k \in DOMAIN ops : weights[k] \in Nat
  BY DEF Given
<1> QED
  BY <1>2, <1>3, <1>4, FS_Subset

LEMMA ScoreBounds ==
  ASSUME Given, NEW i, NEW n \in 0..Len(ops)
  PROVE  Score(i, n) \in Nat /\ MaxScore \in Nat /\ Score(i, n) <= MaxScore
<1>1. /\ Hits(i, n) \in SUBSET (DOMAIN ops)
      /\ IsFiniteSet(DOMAIN ops)
      /\ \A k \in DOMAIN ops : weights[k] \in Nat
  BY HitsAre
<1>2. Total(weights, Hits(i, n)) \in Nat /\ Total(weights, Hits(i, n)) <= Total(weights, DOMAIN ops)
  BY <1>1, TotalGrows
<1>3. Total(weights, DOMAIN ops) \in Nat
  BY <1>1, TotalNat
<1> QED
  BY <1>2, <1>3, ScoreIsTotal

LEMMA ScoreStep ==
  ASSUME Given, NEW i, NEW n \in Nat, n < Len(ops)
  PROVE  /\ weights[n + 1] \in Nat /\ ops[n + 1] \in SUBSET Ids
         /\ Score(i, n + 1) = Score(i, n) + (IF i \in ops[n + 1] THEN weights[n + 1] ELSE 0)
<1> DEFINE m == n + 1
<1>1. /\ n \in 0..Len(ops) /\ m \in 0..Len(ops) /\ m \in DOMAIN ops
      /\ 1..m = (1..n) \cup {m} /\ m \notin 1..n
  BY DEF Given
<1>2. weights[m] \in Nat /\ ops[m] \in SUBSET Ids
  BY <1>1 DEF Given
<1>3. m \notin Hits(i, n)
  BY <1>1 DEF Hits
<1>4. IsFiniteSet(Hits(i, n)) /\ Hits(i, m) \in SUBSET (DOMAIN ops)
      /\ \A k \in DOMAIN ops : weights[k] \in Nat
  BY <1>1, HitsAre
<1>5. Score(i, n) \in Nat
  BY <1>1, ScoreBounds
<1> HIDE DEF m
<1>6. CASE i \in ops[m]
  <2>1. Hits(i, m) = Hits(i, n) \cup {m}
    BY <1>1, <1>6 DEF Hits
  <2>2. Weights(weights, Hits(i, n) \cup {m})
    BY <1>4, <2>1 DEF Weights
  <2>3. Total(weights, Hits(i, n) \cup {m}) = weights[m] + Total(weights, Hits(i, n))
    BY <1>3, <1>4, <2>2, TotalAdd
  <2>4. Score(i, m) = weights[m] + Score(i, n)
    BY <2>1, <2>3, ScoreIsTotal
  <2>5. Score(i, m) = Score(i, n) + weights[m]
    BY <1>2, <1>5, <2>4
  <2> QED
    BY <1>2, <1>6, <2>5 DEF m
<1>7. CASE i \notin ops[m]
  <2>1. Hits(i, m) = Hits(i, n)
    BY <1>1, <1>7 DEF Hits
  <2>2. Score(i, m) = Score(i, n)
    BY <2>1, ScoreIsTotal
  <2> QED
    BY <1>2, <1>5, <1>7, <2>2 DEF m
<1> QED
  BY <1>6, <1>7

(* One posting more in the planes.                                         *)
LEMMA CountedStep ==
  ASSUME Given, Counted, added < Len(ops), NEW i \in Ids
  PROVE  /\ Counts(AddWeighted(planes, ops[added + 1], weights[added + 1]), i, Score(i, added + 1))
         /\ Score(i, added + 1) \in ExtendReachable(reachable, weights[added + 1])
<1> DEFINE op == ops[added + 1]
           w  == weights[added + 1]
           s  == Score(i, added)
<1>1. added \in Nat /\ added + 1 \in 0..Len(ops) /\ added \in 0..Len(ops)
  BY DEF Given, Counted
<1>2. /\ w \in Nat /\ op \in SUBSET Ids
      /\ Score(i, added + 1) = s + (IF i \in op THEN w ELSE 0)
  BY <1>1, ScoreStep
<1>3. s \in Nat /\ Score(i, added + 1) \in Nat /\ MaxScore \in Nat /\ Score(i, added + 1) <= MaxScore
  BY <1>1, ScoreBounds
<1>4. Score(i, added + 1) < Pow2[Width]
  <2>1. MaxScore < Pow2[Width] /\ Pow2[Width] \in Nat
    BY BitsAre, Powers DEF Given
  <2> QED
    BY <1>3, <2>1
<1>5. planes \in Planes /\ Counts(planes, i, s) /\ s \in reachable
  BY DEF Counted
<1> HIDE DEF op, w, s
<1>6. CASE i \in op
  <2>1. Score(i, added + 1) = s + w
    BY <1>2, <1>6
  <2>2. Counts(AddWeighted(planes, op, w), i, s + w)
    BY <1>2, <1>3, <1>4, <1>5, <1>6, <2>1, AddWeightedAdds
  <2> QED
    BY <1>5, <2>1, <2>2 DEF op, w, ExtendReachable
<1>7. CASE i \notin op
  <2>1. Score(i, added + 1) = s
    BY <1>2, <1>3, <1>7
  <2>2. Counts(AddWeighted(planes, op, w), i, s)
    BY <1>2, <1>5, <1>7, AddWeightedSpares
  <2> QED
    BY <1>5, <2>1, <2>2 DEF op, w, ExtendReachable
<1> QED
  BY <1>6, <1>7

-----------------------------------------------------------------------------
(* The inductive invariant: a walk that has come down to nextC has         *)
(* returned the segments of every higher score that clear the floor, but   *)
(* for those still in the bucket, which are the last of score nextC + 1.   *)

Final(i) == Score(i, Len(ops))

Rec(i) == [id |-> i, score |-> Final(i), overlap |-> RawOverlap(i)]

Ranks(i, j) == Final(i) > Final(j) \/ (Final(i) = Final(j) /\ i < j)

Passed == {i \in Ids : i \notin bucket /\ Final(i) > nextC /\ RawOverlap(i) >= Floor}

BucketHolds ==
  /\ bucket \in SUBSET Ids
  /\ bucket # {} => curScore = nextC + 1
  /\ \A i \in bucket : Final(i) = nextC + 1
  /\ \A i \in bucket : \A j \in Ids \ bucket : Final(j) = nextC + 1 => j < i

Returned ==
  /\ yielded \in Seq({Rec(i) : i \in Passed})
  /\ \A i \in Passed : \E n \in DOMAIN yielded : yielded[n] = Rec(i)
  /\ \A m, n \in DOMAIN yielded : m < n => Ranks(yielded[m].id, yielded[n].id)

Walked == nextC \in 0..MaxScore /\ BucketHolds /\ Returned

EngineInv ==
  /\ Given
  /\ Counted
  /\ IF added = Len(ops) THEN Walked ELSE bucket = {} /\ yielded = <<>>

LEMMA InputsKept ==
  ASSUME UNCHANGED inputs
  PROVE  /\ Given' <=> Given
         /\ Len(ops)' = Len(ops)
         /\ MaxScore' = MaxScore /\ Floor' = Floor /\ ScanFloor' = ScanFloor
         /\ \A i, n : Score(i, n)' = Score(i, n)
         /\ \A i : RawOverlap(i)' = RawOverlap(i)
         /\ \A i : Final(i)' = Final(i) /\ Rec(i)' = Rec(i)
         /\ \A i, j : Ranks(i, j)' <=> Ranks(i, j)
<1>1. ops' = ops /\ weights' = weights /\ minShared' = minShared
  BY DEF inputs
<1>0. (/\ MaxScore = Total(weights, DOMAIN ops)
       /\ \A i, n : Score(i, n) = Total(weights, Hits(i, n)))'
  BY ScoreIsTotal, PTL
<1>2. MaxScore' = MaxScore
  BY <1>1, <1>0, ScoreIsTotal
<1>3. \A i, n : Score(i, n)' = Score(i, n)
  <2>1. \A i, n : Hits(i, n)' = Hits(i, n)
    BY <1>1 DEF Hits
  <2> QED
    BY <1>1, <1>0, <2>1, ScoreIsTotal
<1>4. \A i : RawOverlap(i)' = RawOverlap(i)
  BY <1>1 DEF RawOverlap, Slots
<1>5. Floor' = Floor /\ ScanFloor' = ScanFloor
  BY <1>1 DEF Floor, ScanFloor, Slots
<1>6. \A i : Final(i)' = Final(i)
  BY <1>1, <1>3 DEF Final
<1>7. Given' <=> Given
  BY <1>1, <1>2 DEF Given
<1> QED
  BY <1>1, <1>2, <1>3, <1>4, <1>5, <1>6, <1>7 DEF Rec, Ranks

LEMMA Floors ==
  ASSUME Given
  PROVE  /\ Floor \in Nat \ {0}
         /\ ScanFloor \in {1, Floor}
         /\ ScanFloor = Floor => \/ Floor = 1
                                 \/ \A k \in Slots : weights[k] \in Nat \ {0}
<1>1. minShared \in Nat /\ Len(ops) \in Nat
  BY DEF Given
<1>2. Min({minShared, Len(ops)}) \in {minShared, Len(ops)}
  <2> DEFINE T == {minShared, Len(ops)}
  <2>1. \E m \in T : \A k \in T : m <= k
    BY <1>1
  <2> QED
    BY <2>1 DEF Min
<1>3. Max({1, Min({minShared, Len(ops)})}) \in Nat \ {0}
  <2> DEFINE m == Min({minShared, Len(ops)})
  <2>1. m \in Nat
    BY <1>1, <1>2
  <2> HIDE DEF m
  <2> DEFINE T == {1, m}
  <2>2. \E x \in T : \A k \in T : x >= k
    BY <2>1
  <2>3. Max(T) \in T /\ \A k \in T : Max(T) >= k
    BY <2>2 DEF Max
  <2>4. Max(T) \in Nat \ {0}
    BY <2>1, <2>3
  <2> QED
    BY <2>4 DEF m
<1>4. Floor \in Nat \ {0}
  BY <1>3 DEF Floor
<1>5. \A k \in Slots : weights[k] \in Nat
  BY DEF Given, Slots
<1> QED
  BY <1>4, <1>5 DEF ScanFloor

(* A raw overlap is the number of postings that hold the segment, so that  *)
(* it is no more than the score when no weight is 0.                       *)
LEMMA RawOverlapIs ==
  ASSUME Given, NEW i
  PROVE  /\ RawOverlap(i) \in Nat
         /\ (\A k \in Slots : weights[k] \in Nat \ {0}) => RawOverlap(i) <= Final(i)
         /\ AllWeightOne => RawOverlap(i) = Final(i)
<1> DEFINE H == Hits(i, Len(ops))
<1>1. Len(ops) \in 0..Len(ops) /\ DOMAIN ops = 1..Len(ops)
  BY DEF Given
<1>2. H \in SUBSET (DOMAIN ops) /\ IsFiniteSet(H)
  BY <1>1, HitsAre
<1>3. RawOverlap(i) = Cardinality(H)
  BY <1>1 DEF RawOverlap, Slots, Hits
<1>4. Final(i) = Total(weights, H)
  BY ScoreIsTotal DEF Final
<1>5. Cardinality(H) \in Nat
  BY <1>2, FS_CardinalityType
<1> HIDE DEF H
<1>6. ASSUME \A k \in Slots : weights[k] \in Nat \ {0}
      PROVE  RawOverlap(i) <= Final(i)
  <2>1. \A k \in H : weights[k] \in Nat \ {0}
    BY <1>2, <1>6 DEF Slots
  <2> QED
    BY <1>2, <1>3, <1>4, <2>1, TotalCounts
<1>7. ASSUME AllWeightOne
      PROVE  RawOverlap(i) = Final(i)
  <2>1. \A k \in H : weights[k] = 1 /\ weights[k] \in Nat \ {0}
    BY <1>2, <1>7 DEF Slots, AllWeightOne
  <2>2. Total(weights, H) = Cardinality(H)
    BY <1>2, <2>1, TotalCounts
  <2> QED
    BY <1>3, <1>4, <2>2
<1> QED
  BY <1>3, <1>5, <1>6, <1>7

(* Scan fills the bucket with the segments of its score and no other,      *)
(* whether it counts them or skips a score no weights make.                *)
LEMMA ScanBucket ==
  ASSUME Given, Counted, Planned, nextC \in 0..MaxScore, nextC # 0, NEW i \in Ids
  PROVE  i \in (IF nextC \in reachable THEN CountEq(nextC) ELSE {}) <=> Final(i) = nextC
<1>1. /\ planes \in Planes
      /\ Counts(planes, i, Final(i)) /\ Final(i) \in reachable
  BY DEF Counted, Planned, Final
<1>2. Len(ops) \in 0..Len(ops)
  BY DEF Given
<1>3. MaxScore \in Nat
  BY <1>2, ScoreBounds
<1>4. nextC \in Nat /\ nextC < Pow2[Width]
  <2>1. MaxScore < Pow2[Width] /\ Pow2[Width] \in Nat
    BY BitsAre, Powers DEF Given
  <2> QED
    BY <1>3, <2>1
<1>5. i \in CountEq(nextC) <=> Final(i) = nextC
  BY <1>1, <1>4, CountEqExact
<1> QED
  BY <1>1, <1>5

LEMMA ScanKeeps ==
  ASSUME EngineInv, Planned, Scan
  PROVE  EngineInv'
<1>1. Given /\ Counted /\ Walked /\ added = Len(ops)
  BY DEF EngineInv, Planned
<1>2. /\ inputs' = inputs /\ UNCHANGED plan /\ yielded' = yielded
      /\ bucket = {} /\ nextC >= ScanFloor /\ nextC' = nextC - 1
      /\ bucket' = (IF nextC \in reachable THEN CountEq(nextC) ELSE {})
      /\ curScore' = IF bucket' = {} THEN curScore ELSE nextC
  BY DEF Scan
<1>3. /\ Given' /\ Len(ops)' = Len(ops)
      /\ MaxScore' = MaxScore /\ Floor' = Floor
      /\ \A i, n : Score(i, n)' = Score(i, n)
      /\ \A i : RawOverlap(i)' = RawOverlap(i)
      /\ \A i : Final(i)' = Final(i) /\ Rec(i)' = Rec(i)
      /\ \A i, j : Ranks(i, j)' <=> Ranks(i, j)
  BY <1>1, <1>2, InputsKept
<1>4. Counted'
  BY <1>1, <1>2, <1>3 DEF Counted, plan
<1>5. added' = Len(ops)'
  BY <1>1, <1>2, <1>3 DEF plan
<1>6. MaxScore \in Nat /\ \A i : Final(i) \in Nat
  <2>1. Len(ops) \in 0..Len(ops)
    BY <1>1 DEF Given
  <2> QED
    BY <1>1, <2>1, ScoreBounds DEF Final
<1>7. nextC \in 0..MaxScore /\ nextC >= 1
  BY <1>1, <1>2, Floors DEF Walked
<1>8. nextC' \in 0..MaxScore' /\ nextC' + 1 = nextC
  BY <1>2, <1>3, <1>6, <1>7
<1>9. bucket' = {i \in Ids : Final(i) = nextC}
  <2>1. \A i \in Ids : i \in bucket' <=> Final(i) = nextC
    BY <1>1, <1>2, <1>7, ScanBucket DEF Planned
  <2>2. bucket' \subseteq Ids
    BY <1>2 DEF CountEq
  <2> QED
    BY <2>1, <2>2
<1>10. BucketHolds'
  BY <1>2, <1>3, <1>8, <1>9 DEF BucketHolds
<1>11. Passed' = Passed
  <2>1. \A i \in Ids : (i \notin bucket' /\ Final(i) > nextC') <=> Final(i) > nextC
    <3>1. nextC \in Nat /\ nextC' = nextC - 1
      BY <1>2, <1>6, <1>7
    <3>2. \A i \in Ids : Final(i) \in Nat /\ (i \in bucket' <=> Final(i) = nextC)
      BY <1>6, <1>9
    <3> QED
      BY <3>1, <3>2
  <2> QED
    BY <1>2, <1>3, <2>1 DEF Passed
<1>12. {Rec(i) : i \in Passed}' = {Rec(i) : i \in Passed}
  BY <1>3, <1>11
<1>13. Returned'
  BY <1>1, <1>2, <1>3, <1>11, <1>12 DEF Walked, Returned
<1> QED
  BY <1>3, <1>4, <1>5, <1>8, <1>10, <1>13 DEF EngineInv, Walked

(* Drain takes the smallest id of the bucket, which ranks below all that   *)
(* have passed.                                                            *)
LEMMA DrainKeeps ==
  ASSUME EngineInv, Planned, Drain
  PROVE  EngineInv'
<1>1. Given /\ Counted /\ Walked /\ added = Len(ops)
  BY DEF EngineInv, Planned
<1> DEFINE i == Min(bucket)
<1>2. /\ inputs' = inputs /\ UNCHANGED plan /\ nextC' = nextC /\ curScore' = curScore
      /\ bucket # {} /\ bucket' = bucket \ {i}
      /\ yielded' = IF Overlap(i) >= Floor
                    THEN Append(yielded, [id |-> i, score |-> curScore, overlap |-> Overlap(i)])
                    ELSE yielded
  BY DEF Drain
<1>3. /\ Given' /\ Len(ops)' = Len(ops)
      /\ MaxScore' = MaxScore /\ Floor' = Floor
      /\ \A j, n : Score(j, n)' = Score(j, n)
      /\ \A j : RawOverlap(j)' = RawOverlap(j)
      /\ \A j : Final(j)' = Final(j) /\ Rec(j)' = Rec(j)
      /\ \A j, k : Ranks(j, k)' <=> Ranks(j, k)
  BY <1>1, <1>2, InputsKept
<1>4. Counted'
  BY <1>1, <1>2, <1>3 DEF Counted, plan
<1>5. added' = Len(ops)'
  BY <1>1, <1>2, <1>3 DEF plan
<1>6. MaxScore \in Nat /\ \A j : Final(j) \in Nat
  <2>1. Len(ops) \in 0..Len(ops)
    BY <1>1 DEF Given
  <2> QED
    BY <1>1, <2>1, ScoreBounds DEF Final
<1>7. i \in bucket /\ \A j \in bucket : i <= j
  BY <1>1, <1>2, SmallestId DEF Walked, BucketHolds
<1> HIDE DEF i
<1>8. /\ i \in Ids /\ bucket \in SUBSET Ids /\ Final(i) = nextC + 1 /\ curScore = nextC + 1
      /\ nextC \in 0..MaxScore
      /\ \A j \in bucket : Final(j) = nextC + 1
      /\ \A k \in bucket : \A j \in Ids \ bucket : Final(j) = nextC + 1 => j < k
  BY <1>1, <1>7 DEF Walked, BucketHolds
<1>9. \A j \in Ids : j \in Int
  BY SegmentIds
<1>10. Overlap(i) = RawOverlap(i)
  <2>1. AllWeightOne => RawOverlap(i) = curScore
    BY <1>1, <1>8, RawOverlapIs
  <2> QED
    BY <2>1 DEF Overlap
<1>11. yielded' = IF RawOverlap(i) >= Floor THEN Append(yielded, Rec(i)) ELSE yielded
  BY <1>2, <1>8, <1>10 DEF Rec
<1>12. BucketHolds'
  <2>1. bucket' \in SUBSET Ids /\ (bucket' # {} => curScore' = nextC' + 1)
    BY <1>2, <1>8
  <2>2. \A k \in bucket' : k \in bucket /\ k # i /\ i < k
    BY <1>2, <1>7, <1>8, <1>9
  <2>3. ASSUME NEW k \in bucket', NEW j \in Ids \ bucket', Final(j) = nextC + 1
        PROVE  j < k
    <3>1. j = i \/ j \in Ids \ bucket
      BY <1>2, <2>3
    <3> QED
      BY <1>8, <2>2, <2>3, <3>1
  <2> QED
    BY <1>2, <1>3, <1>8, <2>1, <2>2, <2>3 DEF BucketHolds
<1>13. /\ yielded \in Seq({Rec(j) : j \in Passed})
       /\ \A j \in Passed : \E n \in DOMAIN yielded : yielded[n] = Rec(j)
       /\ \A m, n \in DOMAIN yielded : m < n => Ranks(yielded[m].id, yielded[n].id)
  BY <1>1 DEF Walked, Returned
<1>14. Passed' = IF RawOverlap(i) >= Floor THEN Passed \cup {i} ELSE Passed
  <2>1. \A j \in Ids : j \in Passed' <=> /\ j \notin bucket \/ j = i
                                         /\ Final(j) > nextC /\ RawOverlap(j) >= Floor
    BY <1>2, <1>3 DEF Passed
  <2>2. \A j \in Ids : j \in Passed <=> /\ j \notin bucket
                                        /\ Final(j) > nextC /\ RawOverlap(j) >= Floor
    BY DEF Passed
  <2>3. Final(i) > nextC
    BY <1>6, <1>8
  <2>4. Passed' \subseteq Ids /\ Passed \subseteq Ids
    BY DEF Passed
  <2> QED
    BY <1>8, <2>1, <2>2, <2>3, <2>4
<1>15. \A j \in Passed : Ranks(j, i)
  <2>1. \A j \in Passed : j \in Ids \ bucket /\ Final(j) > nextC
    BY DEF Passed
  <2> QED
    BY <1>6, <1>7, <1>8, <2>1 DEF Ranks
<1>16. Returned'
  <2>1. CASE ~ (RawOverlap(i) >= Floor)
    <3>1. Passed' = Passed /\ yielded' = yielded
      BY <1>11, <1>14, <2>1
    <3>2. {Rec(j) : j \in Passed}' = {Rec(j) : j \in Passed}
      BY <1>3, <3>1
    <3> QED
      BY <1>3, <1>13, <3>1, <3>2 DEF Returned
  <2>2. CASE RawOverlap(i) >= Floor
    <3> DEFINE R == {Rec(j) : j \in Passed \cup {i}}
    <3>1. Passed' = Passed \cup {i} /\ yielded' = Append(yielded, Rec(i))
      BY <1>11, <1>14, <2>2
    <3>2. {Rec(j) : j \in Passed}' = R
      BY <1>3, <3>1
    <3>3. Rec(i) \in R /\ yielded \in Seq(R)
      <4>1. {Rec(j) : j \in Passed} \subseteq R
        OBVIOUS
      <4> HIDE DEF R
      <4>2. yielded \in Seq(R)
        BY <1>13, <4>1
      <4> QED
        BY <4>2 DEF R
    <3> HIDE DEF R
    <3>4. /\ yielded' \in Seq(R) /\ Len(yielded) \in Nat
          /\ DOMAIN yielded = 1..Len(yielded) /\ DOMAIN yielded' = 1..Len(yielded) + 1
          /\ \A n \in DOMAIN yielded : yielded'[n] = yielded[n]
          /\ yielded'[Len(yielded) + 1] = Rec(i)
      BY <3>1, <3>3
    <3>5. \A n \in DOMAIN yielded : yielded[n] \in {Rec(j) : j \in Passed}
      BY <1>13
    <3>6. \A n \in DOMAIN yielded : yielded[n].id \in Passed
      BY <3>5 DEF Rec
    <3>7. \A j \in Passed \cup {i} : \E n \in DOMAIN yielded' : yielded'[n] = Rec(j)
      <4>1. \A j \in Passed : \E n \in DOMAIN yielded' : yielded'[n] = Rec(j)
        <5> TAKE j \in Passed
        <5>1. PICK n \in DOMAIN yielded : yielded[n] = Rec(j)
          BY <1>13
        <5>2. n \in DOMAIN yielded' /\ yielded'[n] = Rec(j)
          BY <3>4, <5>1
        <5> QED
          BY <5>2
      <4>2. Len(yielded) + 1 \in DOMAIN yielded'
        BY <3>4
      <4> QED
        BY <3>4, <4>1, <4>2
    <3>8. ASSUME NEW m \in DOMAIN yielded', NEW n \in DOMAIN yielded', m < n
          PROVE  Ranks(yielded'[m].id, yielded'[n].id)
      <4>1. m \in DOMAIN yielded /\ yielded'[m] = yielded[m]
        BY <3>4, <3>8
      <4>2. CASE n \in DOMAIN yielded
        BY <1>13, <3>4, <3>8, <4>1, <4>2
      <4>3. CASE n = Len(yielded) + 1
        <5>1. yielded'[n].id = i
          BY <3>4, <4>3 DEF Rec
        <5> QED
          BY <1>15, <3>6, <4>1, <5>1
      <4> QED
        BY <3>4, <4>2, <4>3
    <3>9. \A j, k : Ranks(j, k) => Ranks(j, k)'
      BY <1>3
    <3> QED
      BY <1>3, <3>1, <3>2, <3>4, <3>7, <3>8 DEF Returned
  <2> QED
    BY <2>1, <2>2
<1> QED
  BY <1>2, <1>3, <1>4, <1>5, <1>8, <1>12, <1>16 DEF EngineInv, Walked

LEMMA AddKeeps ==
  ASSUME EngineInv, AddOperand
  PROVE  EngineInv'
<1>1. Given /\ Counted /\ added < Len(ops) /\ bucket = {} /\ yielded = <<>>
  BY DEF EngineInv, AddOperand
<1>2. /\ inputs' = inputs /\ added' = added + 1
      /\ planes' = AddWeighted(planes, ops[added + 1], weights[added + 1])
      /\ reachable' = ExtendReachable(reachable, weights[added + 1])
      /\ nextC' = IF added' = Len(ops) THEN MaxScore ELSE nextC
      /\ curScore' = curScore /\ bucket' = bucket /\ yielded' = yielded
  BY DEF AddOperand
<1>3. /\ Given' /\ Len(ops)' = Len(ops) /\ MaxScore' = MaxScore
      /\ \A i, n : Score(i, n)' = Score(i, n)
      /\ \A i : Final(i)' = Final(i)
      /\ ops' = ops /\ weights' = weights
  BY <1>1, <1>2, InputsKept DEF inputs
<1>4. added \in Nat /\ Len(ops) \in Nat /\ added' \in 0..Len(ops)
  BY <1>1, <1>2 DEF Given, Counted
<1>5. planes' \in Planes
  <2>1. ops[added + 1] \in SUBSET Ids
    BY <1>1, <1>4 DEF Given
  <2>2. planes \in Planes
    BY <1>1 DEF Counted
  <2> QED
    BY <1>2, <2>1, <2>2, AddWeightedType
<1>6. \A i \in Ids : Counts(planes', i, Score(i, added')) /\ Score(i, added') \in reachable'
  BY <1>1, <1>2, CountedStep
<1>7. Counted'
  <2>1. \A i \in Ids : Score(i, added)' = Score(i, added')
    <3>1. (\A i, n : Score(i, n) = Total(weights, Hits(i, n)))'
      BY ScoreIsTotal, PTL
    <3>2. \A i : Hits(i, added)' = Hits(i, added')
      BY <1>3 DEF Hits
    <3> QED
      BY <1>3, <3>1, <3>2, ScoreIsTotal
  <2> QED
    BY <1>3, <1>4, <1>5, <1>6, <2>1 DEF Counted
<1>8. CASE added' = Len(ops)
  <2>1. nextC' = MaxScore /\ MaxScore \in Nat /\ \A i : Final(i) \in Nat /\ Final(i) <= MaxScore
    <3>1. Len(ops) \in 0..Len(ops)
      BY <1>4
    <3> QED
      BY <1>1, <1>2, <1>8, <3>1, ScoreBounds DEF Final
  <2>2. nextC' \in 0..MaxScore' /\ bucket' = {} /\ yielded' = <<>>
    BY <1>1, <1>2, <1>3, <2>1
  <2>3. \A i \in Ids : ~ (Final(i)' > nextC')
    BY <1>3, <2>1
  <2>4. Passed' = {}
    BY <2>3 DEF Passed
  <2>5. Returned'
    BY <2>2, <2>4 DEF Returned
  <2>6. BucketHolds'
    BY <2>2 DEF BucketHolds
  <2> QED
    BY <1>3, <1>7, <1>8, <2>2, <2>5, <2>6 DEF EngineInv, Walked
<1>9. CASE added' # Len(ops)
  BY <1>1, <1>2, <1>3, <1>7, <1>9 DEF EngineInv
<1> QED
  BY <1>8, <1>9

LEMMA EngineInit ==
  ASSUME Init
  PROVE  EngineInv
<1>1. PICK case \in Cases : \E built \in case[1] :
        ops = built.ops /\ weights = built.weights /\ minShared = built.minShared
  BY DEF Init
<1>2. PICK built \in case[1] :
        ops = built.ops /\ weights = built.weights /\ minShared = built.minShared
  BY <1>1
<1>3. Unplanned
  BY DEF Init
<1>4. /\ built.ops \in Seq(SUBSET Ids)
      /\ built.weights \in [DOMAIN built.ops -> Nat]
      /\ built.minShared \in Nat
      /\ Total(built.weights, DOMAIN built.ops) < Pow2[Width]
  BY PlansFit DEF MapThenSumSet, MapThenFoldSet, Total
<1>5. Given
  <2>1. MaxScore = Total(weights, DOMAIN ops)
    BY ScoreIsTotal
  <2> QED
    BY <1>2, <1>4, <2>1 DEF Given
<1>6. Len(ops) \in Nat /\ 0 \in 0..Len(ops)
  BY <1>5 DEF Given
<1>7. \A i : Score(i, 0) = 0
  <2>1. \A i : Hits(i, 0) = {}
    BY DEF Hits
  <2> QED
    BY <2>1, ScoreIsTotal, TotalEmpty
<1>8. Counted
  <2>1. planes \in Planes
    BY <1>3 DEF Unplanned, Planes
  <2>2. \A i \in Ids : Counts(planes, i, 0)
    BY <1>3, NothingCounted DEF Unplanned
  <2> QED
    BY <1>3, <1>6, <1>7, <2>1, <2>2 DEF Unplanned, Counted
<1>9. added = 0 /\ nextC = 0 /\ bucket = {} /\ yielded = <<>>
  BY <1>3 DEF Unplanned
<1>10. ASSUME Len(ops) = 0
       PROVE  Walked
  <2>1. MaxScore \in Nat /\ \A i : Final(i) = 0
    BY <1>5, <1>6, <1>7, <1>10, ScoreBounds DEF Final
  <2>2. Passed = {}
    BY <1>9, <2>1 DEF Passed
  <2> QED
    BY <1>9, <2>1, <2>2 DEF Walked, BucketHolds, Returned
<1> QED
  BY <1>5, <1>8, <1>9, <1>10 DEF EngineInv

LEMMA StillKeeps ==
  ASSUME EngineInv, UNCHANGED engine
  PROVE  EngineInv'
<1>1. /\ inputs' = inputs /\ added' = added /\ planes' = planes /\ reachable' = reachable
      /\ nextC' = nextC /\ curScore' = curScore /\ bucket' = bucket /\ yielded' = yielded
  BY DEF engine, plan, walk
<1>2. Given /\ Counted
  BY DEF EngineInv
<1>3. /\ Given' /\ Len(ops)' = Len(ops)
      /\ MaxScore' = MaxScore /\ Floor' = Floor
      /\ \A i, n : Score(i, n)' = Score(i, n)
      /\ \A i : RawOverlap(i)' = RawOverlap(i)
      /\ \A i : Final(i)' = Final(i) /\ Rec(i)' = Rec(i)
      /\ \A i, j : Ranks(i, j)' <=> Ranks(i, j)
  BY <1>1, <1>2, InputsKept
<1>4. Counted'
  BY <1>1, <1>2, <1>3 DEF Counted
<1>5. Passed' = Passed
  BY <1>1, <1>3 DEF Passed
<1>6. {Rec(i) : i \in Passed}' = {Rec(i) : i \in Passed}
  BY <1>3, <1>5
<1>7. Walked => Walked'
  BY <1>1, <1>3, <1>5, <1>6 DEF Walked, BucketHolds, Returned
<1> QED
  BY <1>1, <1>3, <1>4, <1>7 DEF EngineInv

(* The engine's invariant: the planes count the scores of the postings in  *)
(* them, and the walk has returned just what it has come past.             *)
THEOREM EngineInvariant == Spec => []EngineInv
<1>1. Init => EngineInv
  BY EngineInit
<1>2. EngineInv /\ [Next]_vars => EngineInv'
  <2> SUFFICES ASSUME EngineInv, [Next]_vars PROVE EngineInv'
    OBVIOUS
  <2>1. CASE Build
    BY <2>1, AddKeeps DEF Build
  <2>2. CASE AdvanceWalk
    BY <2>2, DrainKeeps, ScanKeeps DEF AdvanceWalk, Advance
  <2>3. CASE PullChunk
    BY <2>3, StillKeeps DEF PullChunk
  <2>4. CASE Peek
    BY <2>4, StillKeeps DEF Peek
  <2>5. CASE Recover
    BY <2>5, StillKeeps DEF Recover
  <2>6. CASE SortAndTruncate
    BY <2>6, StillKeeps DEF SortAndTruncate
  <2>7. CASE UNCHANGED vars
    BY <2>7, StillKeeps DEF vars
  <2> QED
    BY <2>1, <2>2, <2>3, <2>4, <2>5, <2>6, <2>7 DEF Next
<1> QED
  BY <1>1, <1>2, PTL DEF Spec

(* What the walk skips as unreachable or below its floor is nothing it had *)
(* to return: at its end it has returned every segment of positive score   *)
(* whose raw overlap reaches the floor, with its score and its overlap.    *)
THEOREM WalkReturnsAll == Spec => []WalkComplete
<1>1. EngineInv => WalkComplete
  <2> SUFFICES ASSUME EngineInv, Exhausted
               PROVE  {yielded[n] : n \in DOMAIN yielded} = {Rec(i) : i \in Wanted}
    BY DEF WalkComplete, Rec, Final
  <2>1. Given /\ Walked /\ bucket = {} /\ nextC < ScanFloor
    BY DEF EngineInv, Exhausted, Planned
  <2>2. Len(ops) \in 0..Len(ops)
    BY <2>1 DEF Given
  <2>3. MaxScore \in Nat /\ nextC \in Nat /\ \A i : Final(i) \in Nat /\ RawOverlap(i) \in Nat
    BY <2>1, <2>2, ScoreBounds, RawOverlapIs DEF Final, Walked
  <2>4. ASSUME NEW i \in Ids, RawOverlap(i) >= Floor
        PROVE  Final(i) > nextC <=> Final(i) > 0
    <3>1. Floor \in Nat \ {0} /\ ScanFloor \in Nat
      BY <2>1, Floors
    <3>2. CASE ScanFloor = 1
      BY <2>1, <2>3, <3>2
    <3>3. CASE ScanFloor # 1
      <4>1. ScanFloor = Floor /\ \A k \in Slots : weights[k] \in Nat \ {0}
        BY <2>1, <3>3, Floors
      <4>2. RawOverlap(i) <= Final(i)
        BY <2>1, <4>1, RawOverlapIs
      <4> QED
        BY <2>1, <2>3, <2>4, <3>1, <4>1, <4>2
    <3> QED
      BY <3>2, <3>3
  <2>5. Passed = Wanted
    BY <2>1, <2>4 DEF Passed, Wanted, Final
  <2>6. /\ yielded \in Seq({Rec(i) : i \in Wanted})
        /\ \A i \in Wanted : \E n \in DOMAIN yielded : yielded[n] = Rec(i)
    BY <2>1, <2>5 DEF Walked, Returned
  <2> QED
    BY <2>6
<1> QED
  BY <1>1, EngineInvariant, PTL

(* What a search has taken, wherever it stops, is the top of the ranking.  *)
THEOREM StopsAtTheTop == Spec => []BestFirst
<1>1. EngineInv => BestFirst
  <2> SUFFICES ASSUME EngineInv PROVE BestFirst
    OBVIOUS
  <2>1. CASE added # Len(ops)
    BY <2>1 DEF EngineInv, BestFirst
  <2>2. CASE added = Len(ops)
    <3>1. Given /\ BucketHolds /\ nextC \in 0..MaxScore
      BY <2>2 DEF EngineInv, Walked
    <3>2. /\ yielded \in Seq({Rec(i) : i \in Passed})
          /\ \A i \in Passed : \E n \in DOMAIN yielded : yielded[n] = Rec(i)
          /\ \A m, n \in DOMAIN yielded : m < n => Ranks(yielded[m].id, yielded[n].id)
      BY <2>2 DEF EngineInv, Walked, Returned
    <3>3. MaxScore \in Nat /\ nextC \in Nat /\ \A i : Final(i) \in Nat
      <4>1. Len(ops) \in 0..Len(ops)
        BY <3>1 DEF Given
      <4> QED
        BY <3>1, <4>1, ScoreBounds DEF Final
    <3>4. \A j \in Ids : j \in Int
      BY SegmentIds
    <3>5. \A n \in DOMAIN yielded : /\ yielded[n].id \in Passed
                                    /\ yielded[n].score = Final(yielded[n].id)
      <4>1. \A n \in DOMAIN yielded : yielded[n] \in {Rec(i) : i \in Passed}
        BY <3>2
      <4> QED
        BY <4>1 DEF Rec
    <3>6. \A j \in Passed : j \in Ids /\ j \notin bucket /\ Final(j) > nextC
      BY DEF Passed
    <3>7. ASSUME NEW m \in DOMAIN yielded, NEW n \in DOMAIN yielded, m < n
          PROVE  /\ \/ yielded[m].score > yielded[n].score
                    \/ /\ yielded[m].score = yielded[n].score
                       /\ yielded[m].id < yielded[n].id
                 /\ yielded[m].id # yielded[n].id
      <4>1. Ranks(yielded[m].id, yielded[n].id)
        BY <3>2, <3>7
      <4>2. yielded[m].id \in Int /\ Final(yielded[m].id) \in Nat
        BY <3>3, <3>4, <3>5, <3>6
      <4> QED
        BY <3>5, <4>1, <4>2 DEF Ranks
    <3>8. ASSUME NEW n \in DOMAIN yielded,
                 NEW j \in Wanted \ {yielded[k].id : k \in DOMAIN yielded}
          PROVE  \/ yielded[n].score > Final(j)
                 \/ yielded[n].score = Final(j) /\ yielded[n].id < j
      <4>1. j \in Ids /\ RawOverlap(j) >= Floor
        BY DEF Wanted
      <4>2. j \notin Passed
        <5>1. j \in Passed => \E k \in DOMAIN yielded : yielded[k].id = j
          BY <3>2 DEF Rec
        <5> QED
          BY <5>1
      <4>3. j \in bucket \/ ~ (Final(j) > nextC)
        BY <4>1, <4>2 DEF Passed
      <4> DEFINE i == yielded[n].id
      <4>4. i \in Ids /\ i \notin bucket /\ Final(i) > nextC /\ yielded[n].score = Final(i)
        BY <3>5, <3>6
      <4>5. Final(i) \in Nat /\ Final(j) \in Nat /\ i \in Int /\ j \in Int
        BY <3>3, <3>4, <4>1, <4>4
      <4>6. CASE j \in bucket
        <5>1. Final(j) = nextC + 1 /\ (Final(i) = nextC + 1 => i < j)
          BY <3>1, <4>4, <4>6 DEF BucketHolds
        <5> HIDE DEF i
        <5>2. Final(i) > Final(j) \/ (Final(i) = Final(j) /\ i < j)
          BY <3>3, <4>4, <4>5, <5>1
        <5> QED
          BY <4>4, <5>2 DEF i
      <4>7. CASE ~ (Final(j) > nextC)
        <5> HIDE DEF i
        <5> QED
          BY <3>3, <4>4, <4>5, <4>7
      <4> QED
        BY <4>3, <4>6, <4>7
    <3> QED
      BY <3>7, <3>8 DEF BestFirst, Final
  <2> QED
    BY <2>1, <2>2
<1> QED
  BY <1>1, EngineInvariant, PTL

-----------------------------------------------------------------------------
(* The ranking order on candidates, and the best of each key.              *)

Entrants == [seg : Ids, score : Int, overlap : Int, corrected : Int]

InOrder == {p \in Entrants \X Entrants : Before(p[1], p[2])}

(* A set of candidates of different segments.                              *)
IsField(C) ==
  /\ C \subseteq Entrants /\ IsFiniteSet(C)
  /\ \A c, d \in C : c.seg = d.seg => c = d

(* c comes up in the pass before d does.                                   *)
Arrives(c, d) == c.score > d.score \/ (c.score = d.score /\ c.seg < d.seg)

IsBest(c, k, C) ==
  /\ c \in C /\ KeyOf[c.seg] = k
  /\ \A d \in C : d # c /\ KeyOf[d.seg] = k => Before(c, d)

Maps == UNION {[D -> Entrants] : D \in SUBSET {KeyOf[i] : i \in Ids}}

BestOf(map, C) ==
  /\ map \in Maps /\ DOMAIN map = {KeyOf[c.seg] : c \in C}
  /\ \A k \in DOMAIN map : IsBest(map[k], k, C)

Firsts(C) ==
  {c \in C : \A d \in C : d # c /\ KeyOf[d.seg] = KeyOf[c.seg] => Before(c, d)}

LEMMA EntrantFields ==
  ASSUME NEW c \in Entrants
  PROVE  c.seg \in Ids /\ c.seg \in Int /\ c.score \in Int /\ c.corrected \in Int
BY SegmentIds DEF Entrants

LEMMA FieldOrder ==
  ASSUME NEW C, IsField(C)
  PROVE  StrictOrder(C, InOrder)
<1>1. \A c \in C : c \in Entrants /\ c.seg \in Int /\ c.score \in Int /\ c.corrected \in Int
  BY EntrantFields DEF IsField
<1>2. \A c, d \in C : <<c, d>> \in InOrder <=> Before(c, d)
  BY <1>1 DEF InOrder
<1>3. \A c, d \in C : c.seg = d.seg => c = d
  BY DEF IsField
<1>4. \A c \in C : ~ Before(c, c)
  BY <1>1 DEF Before
<1>5. \A c, d \in C : c = d \/ Before(c, d) \/ Before(d, c)
  BY <1>1, <1>3 DEF Before
<1>6. \A c, d, e \in C : Before(c, d) /\ Before(d, e) => Before(c, e)
  BY <1>1 DEF Before
<1> HIDE DEF InOrder
<1> QED
  BY <1>2, <1>4, <1>5, <1>6 DEF StrictOrder

LEMMA SortedField ==
  ASSUME NEW C, IsField(C)
  PROVE  Sorted(C, Before) = Listing(C, InOrder)
<1>1. StrictOrder(C, InOrder) /\ IsFiniteSet(C)
  BY FieldOrder DEF IsField
<1>2. ASSUME NEW c \in C
      PROVE  Cardinality({d \in C : Before(d, c)}) = Place(C, InOrder, c)
  <2>1. {d \in C : Before(d, c)} = Ahead(C, InOrder, c)
    BY DEF Ahead, InOrder, IsField
  <2> QED
    BY <2>1 DEF Place
<1> DEFINE Y(n) == CHOOSE c \in C : Cardinality({d \in C : Before(d, c)}) = n - 1
           Z(n) == CHOOSE x \in C : Place(C, InOrder, x) = n - 1
<1>3. ASSUME NEW n \in 1 .. Cardinality(C)
      PROVE  Y(n) = Z(n)
  <2>1. \E x \in C : Place(C, InOrder, x) = n - 1
    BY <1>1, PlacesTaken
  <2>2. Z(n) \in C /\ Place(C, InOrder, Z(n)) = n - 1
    BY <2>1
  <2>3. \E c \in C : Cardinality({d \in C : Before(d, c)}) = n - 1
    BY <1>2, <2>1
  <2>4. Y(n) \in C /\ Cardinality({d \in C : Before(d, Y(n))}) = n - 1
    BY <2>3
  <2> HIDE DEF Y, Z
  <2>5. Place(C, InOrder, Y(n)) = n - 1
    BY <1>2, <2>4
  <2> QED
    BY <1>1, <2>2, <2>4, <2>5, PlacesTaken
<1>4. Sorted(C, Before) = [n \in 1 .. Cardinality(C) |-> Y(n)]
  BY Zenon DEF Sorted
<1>5. Listing(C, InOrder) = [n \in 1 .. Cardinality(C) |-> Z(n)]
  BY Zenon DEF Listing
<1> HIDE DEF Y, Z
<1> QED
  BY <1>3, <1>4, <1>5

LEMMA UpsertType ==
  ASSUME NEW map \in Maps, NEW c \in Entrants
  PROVE  UpsertBest(map, c) \in Maps
<1>1. PICK D \in SUBSET {KeyOf[i] : i \in Ids} : map \in [D -> Entrants]
  BY DEF Maps
<1> DEFINE E == D \cup {KeyOf[c.seg]}
<1>2. E \in SUBSET {KeyOf[i] : i \in Ids}
  BY EntrantFields
<1>3. UpsertBest(map, c) \in [E -> Entrants]
  BY <1>1 DEF UpsertBest
<1> HIDE DEF E
<1> QED
  BY <1>2, <1>3 DEF Maps

(* upsert_best keeps the best of each key, ties going to the first comer.  *)
LEMMA UpsertKeepsBest ==
  ASSUME NEW C, C \subseteq Entrants, NEW c \in Entrants, NEW map, BestOf(map, C),
         \A d \in C : Arrives(d, c)
  PROVE  BestOf(UpsertBest(map, c), C \cup {c})
<1> DEFINE K == {KeyOf[d.seg] : d \in C}
           k0 == KeyOf[c.seg]
           new == UpsertBest(map, c)
           D == C \cup {c}
<1>1. DOMAIN map = K /\ \A k \in K : IsBest(map[k], k, C)
  BY DEF BestOf
<1>2. {KeyOf[d.seg] : d \in D} = K \cup {k0}
  OBVIOUS
<1>3. /\ DOMAIN new = K \cup {k0}
      /\ \A k \in K \cup {k0} :
           new[k] = IF k = k0 /\ (k \in K => c.corrected > map[k].corrected) THEN c ELSE map[k]
  BY <1>1 DEF UpsertBest
<1> HIDE DEF new
<1>4. \A d \in D : d.seg \in Int /\ d.score \in Int /\ d.corrected \in Int
  BY EntrantFields
<1>5. \A d \in C : KeyOf[d.seg] \in K
  OBVIOUS
<1> HIDE DEF K
<1>6. ASSUME NEW k \in K \cup {k0}
      PROVE  IsBest(new[k], k, D)
  <2>1. CASE k # k0
    <3>1. k \in K /\ new[k] = map[k] /\ IsBest(map[k], k, C)
      BY <1>1, <1>3, <2>1
    <3> QED
      BY <2>1, <3>1 DEF IsBest
  <2>2. CASE k = k0 /\ k \notin K
    <3>1. new[k] = c
      BY <1>3, <2>2
    <3> QED
      BY <1>5, <2>2, <3>1 DEF IsBest
  <2>3. CASE k = k0 /\ k \in K
    <3> DEFINE b == map[k]
    <3>1. IsBest(b, k, C)
      BY <1>1, <2>3
    <3>2. b \in C /\ KeyOf[b.seg] = k /\ \A d \in C : d # b /\ KeyOf[d.seg] = k => Before(b, d)
      BY <3>1 DEF IsBest
    <3>3. Arrives(b, c)
      BY <3>2
    <3>4. b.seg \in Int /\ b.score \in Int /\ b.corrected \in Int
          /\ c.seg \in Int /\ c.score \in Int /\ c.corrected \in Int
      BY <1>4, <3>2
    <3>5. new[k] = IF c.corrected > b.corrected THEN c ELSE b
      BY <1>3, <2>3
    <3> HIDE DEF b
    <3>6. CASE c.corrected > b.corrected
      <4>1. Before(c, b)
        BY <3>4, <3>6 DEF Before
      <4>2. ASSUME NEW d \in C, KeyOf[d.seg] = k, d # b PROVE Before(c, d)
        <5>1. Before(b, d)
          BY <3>2, <4>2
        <5>2. d.corrected \in Int
          BY <1>4
        <5>3. d.corrected <= b.corrected
          BY <3>4, <5>1, <5>2 DEF Before
        <5> QED
          BY <3>4, <3>6, <5>2, <5>3 DEF Before
      <4> QED
        BY <2>3, <3>5, <3>6, <4>1, <4>2 DEF IsBest
    <3>7. CASE ~ (c.corrected > b.corrected)
      <4>1. Before(b, c)
        BY <3>3, <3>4, <3>7 DEF Before, Arrives
      <4> QED
        BY <3>2, <3>5, <3>7, <4>1 DEF IsBest
    <3> QED
      BY <3>6, <3>7
  <2> QED
    BY <2>1, <2>2, <2>3
<1>7. new \in Maps
  BY UpsertType DEF BestOf, new
<1>8. DOMAIN new = {KeyOf[d.seg] : d \in D} /\ \A k \in DOMAIN new : IsBest(new[k], k, D)
  BY <1>2, <1>3, <1>6
<1> QED
  BY <1>7, <1>8 DEF BestOf, new

(* The loop of Collect.                                                    *)
Collects(f, map, cands) ==
  /\ f \in [0 .. Len(cands) -> Maps]
  /\ f[0] = map
  /\ \A n \in 1 .. Len(cands) :
       f[n] = IF cands[n].seg \in visible THEN UpsertBest(f[n - 1], cands[n]) ELSE f[n - 1]

LEMMA CollectLoop ==
  ASSUME NEW map \in Maps, NEW cands \in Seq(Entrants)
  PROVE  \E f : Collects(f, map, cands) /\ Collect(map, cands) = f[Len(cands)]
<1> DEFINE L == Len(cands)
           next(n, m) == IF cands[n].seg \in visible THEN UpsertBest(m, cands[n]) ELSE m
           step == [p \in (1 .. L) \X Maps |-> next(p[1], p[2])]
           IsUpTo(f) == f = [n \in 0 .. L |-> IF n = 0 THEN map ELSE
                              IF cands[n].seg \in visible THEN UpsertBest(f[n - 1], cands[n])
                              ELSE f[n - 1]]
<1>1. L \in Nat /\ \A n \in 1 .. L : cands[n] \in Entrants
  OBVIOUS
<1>2. ASSUME NEW k \in 1 .. L, NEW x \in Maps
      PROVE  step[<<k, x>>] = next(k, x) /\ step[<<k, x>>] \in Maps
  BY <1>1, UpsertType
<1> HIDE DEF step
<1>3. PICK f \in [0 .. L -> Maps] : Iterates(f, L, map, step)
  <2> HIDE DEF L
  <2> QED
    BY <1>1, <1>2, IterationExists
<1>4. \A n \in 1 .. L : f[n - 1] \in Maps
  BY <1>1
<1>5. f[0] = map /\ \A n \in 1 .. L : f[n] = next(n, f[n - 1])
  BY <1>2, <1>3, <1>4 DEF Iterates
<1>6. IsUpTo(f)
  <2>1. f = [n \in 0 .. L |-> f[n]]
    OBVIOUS
  <2> HIDE DEF L
  <2>2. \A n \in 0 .. L : f[n] = IF n = 0 THEN map ELSE
                              IF cands[n].seg \in visible THEN UpsertBest(f[n - 1], cands[n])
                              ELSE f[n - 1]
    BY <1>1, <1>5
  <2> QED
    BY <2>1, <2>2
<1> DEFINE g == CHOOSE g : IsUpTo(g)
<1>7. IsUpTo(g)
  BY <1>6
<1>8. Collect(map, cands) = g[L]
  BY Zenon DEF Collect
<1> HIDE DEF g, L
<1>9. \A n \in 0 .. L : g[n] = f[n]
  <2> DEFINE T == {n \in 0 .. L : g[n] = f[n]}
  <2>1. 0 \in T
    BY <1>1, <1>5, <1>7
  <2>2. ASSUME NEW n \in 1 .. L, n - 1 \in T PROVE n \in T
    BY <1>1, <1>5, <1>7, <2>2
  <2> HIDE DEF T
  <2>3. \A n \in 0 .. L : n \in T
    BY <1>1, <2>1, <2>2, CountingUp
  <2> QED
    BY <2>3 DEF T
<1>10. Collects(f, map, cands)
  BY <1>5 DEF Collects, L
<1>11. Collect(map, cands) = f[Len(cands)]
  BY <1>1, <1>8, <1>9 DEF L
<1> QED
  BY <1>10, <1>11

Shown(cands, k) == {cands[n] : n \in {m \in 1 .. k : cands[m].seg \in visible}}

LEMMA CollectKeeps ==
  ASSUME NEW C, C \subseteq Entrants, NEW map, BestOf(map, C), NEW cands \in Seq(Entrants),
         \A n \in 1 .. Len(cands) : \A d \in C : Arrives(d, cands[n]),
         \A m, n \in 1 .. Len(cands) : m < n => Arrives(cands[m], cands[n])
  PROVE  BestOf(Collect(map, cands), C \cup Shown(cands, Len(cands)))
<1> DEFINE L == Len(cands)
           sofar(k) == C \cup Shown(cands, k)
<1>1. L \in Nat /\ \A n \in 1 .. L : cands[n] \in Entrants
  OBVIOUS
<1>2. map \in Maps
  BY DEF BestOf
<1>3. PICK f : Collects(f, map, cands) /\ Collect(map, cands) = f[L]
  BY <1>2, CollectLoop
<1> DEFINE T == {k \in 0 .. L : BestOf(f[k], sofar(k))}
<1>4. 0 \in T
  <2>1. sofar(0) = C
    BY DEF Shown
  <2>2. f[0] = map
    BY <1>3 DEF Collects
  <2> HIDE DEF sofar
  <2> QED
    BY <1>1, <2>1, <2>2
<1>5. ASSUME NEW k \in 1 .. L, k - 1 \in T PROVE k \in T
  <2> DEFINE c == cands[k]
             j == k - 1
  <2>1. k \in 0 .. L /\ 1 .. k = (1 .. j) \cup {k} /\ c \in Entrants /\ j \in 0 .. L
    BY <1>1
  <2>2. f[k] = IF c.seg \in visible THEN UpsertBest(f[j], c) ELSE f[j]
    BY <1>3 DEF Collects
  <2>3. BestOf(f[j], sofar(j))
    BY <1>5
  <2>4. CASE c.seg \in visible
    <3>1. sofar(k) = sofar(j) \cup {c}
      BY <2>1, <2>4 DEF Shown
    <3>2. sofar(j) \subseteq Entrants
      BY <1>1, <2>1 DEF Shown
    <3>3. \A d \in sofar(j) : Arrives(d, c)
      <4>1. \A n \in 1 .. j : n \in 1 .. L /\ n < k
        BY <1>1, <2>1
      <4> QED
        BY <1>1, <4>1 DEF Shown
    <3> HIDE DEF sofar, c, j
    <3>4. BestOf(UpsertBest(f[j], c), sofar(j) \cup {c})
      BY <2>1, <2>3, <3>2, <3>3, UpsertKeepsBest
    <3> QED
      BY <2>1, <2>2, <2>4, <3>1, <3>4
  <2>5. CASE c.seg \notin visible
    <3>1. sofar(k) = sofar(j)
      BY <2>1, <2>5 DEF Shown
    <3> HIDE DEF sofar, c, j
    <3> QED
      BY <2>1, <2>2, <2>3, <2>5, <3>1
  <2> QED
    BY <2>4, <2>5
<1> HIDE DEF T
<1>6. \A k \in 0 .. L : k \in T
  BY <1>1, <1>4, <1>5, CountingUp
<1>7. L \in T
  BY <1>1, <1>6
<1>8. BestOf(f[L], sofar(L))
  <2> HIDE DEF L
  <2> QED
    BY <1>7 DEF T
<1> QED
  BY <1>3, <1>8

-----------------------------------------------------------------------------
(* The candidates of a set of segments, and the list of the best.          *)

Entry(i) == Candidate(Rec(i))

Entries(S) == {Entry(i) : i \in S}

Asked == null \in Nulls /\ limit \in Nat \cup {NoLimit}

Worthy == {i \in Ids : i \in visible /\ RawOverlap(i) >= Floor}

Full == Listing(Firsts(Entries(Worthy)), InOrder)

LEMMA CreditBound ==
  ASSUME Given, NEW i
  PROVE  CountCredit(i) \in Nat /\ CredMax \in Nat /\ CountCredit(i) <= CredMax
<1> DEFINE A == {k \in MatchedBy(i) : ~floored[k]}
           B == {k \in Slots : ~floored[k]}
<1>1. IsFiniteSet(Slots)
  <2>1. Len(ops) \in 0 .. Len(ops)
    BY DEF Given
  <2> QED
    BY <2>1, HitsAre DEF Slots
<1>2. A \in SUBSET B /\ B \in SUBSET Slots
  BY DEF MatchedBy
<1>3. /\ IsFiniteSet(A) /\ IsFiniteSet(B) /\ Cardinality(A) <= Cardinality(B)
      /\ Cardinality(A) \in Nat /\ Cardinality(B) \in Nat
  BY <1>1, <1>2, FS_Subset, FS_CardinalityType
<1>4. CountCredit(i) = Mu * Cardinality(A) /\ CredMax = Mu * Cardinality(B) /\ Mu \in Nat
  BY Inputs DEF CountCredit, CredMax
<1> HIDE DEF A, B
<1>5. \A x, y, m \in Nat : x <= y => m * x \in Nat /\ m * y \in Nat /\ m * x <= m * y
  OBVIOUS
<1> QED
  BY <1>3, <1>4, <1>5

LEMMA EntryType ==
  ASSUME Given, Asked, NEW i \in Ids
  PROVE  /\ Entry(i) \in Entrants
         /\ Entry(i).seg = i /\ Entry(i).score = Final(i) /\ Final(i) \in Nat
         /\ Entry(i).corrected <= Final(i) * Delta + CredMax
<1>1. Len(ops) \in 0 .. Len(ops)
  BY DEF Given
<1>2. Final(i) \in Nat /\ RawOverlap(i) \in Nat
  BY <1>1, ScoreBounds, RawOverlapIs DEF Final
<1>3. CountCredit(i) \in Nat /\ CredMax \in Nat /\ CountCredit(i) <= CredMax
  BY CreditBound
<1>4. null[i] \in Nat /\ Delta \in Nat
  BY Inputs DEF Asked
<1>5. Entry(i) = [seg |-> i, score |-> Final(i), overlap |-> RawOverlap(i),
                  corrected |-> Final(i) * Delta + CountCredit(i) - null[i]]
  BY DEF Entry, Candidate, Rec
<1>6. Final(i) * Delta \in Nat
  BY <1>2, <1>4
<1> DEFINE e == Final(i) * Delta
<1> HIDE DEF e
<1>7. e + CountCredit(i) - null[i] \in Int /\ e + CountCredit(i) - null[i] <= e + CredMax
  BY <1>3, <1>4, <1>6 DEF e
<1> QED
  BY <1>2, <1>5, <1>7 DEF e, Entrants

LEMMA EntriesField ==
  ASSUME Given, Asked, NEW S, S \subseteq Ids
  PROVE  IsField(Entries(S))
<1>1. \A i \in S : Entry(i) \in Entrants /\ Entry(i).seg = i
  BY EntryType
<1>2. IsFiniteSet(S)
  BY SegmentIds, FS_Subset
<1> DEFINE f == [i \in S |-> Entry(i)]
<1>3. IsFiniteSet(Entries(S))
  <2>1. f \in Surjection(S, Entries(S))
    BY DEF Surjection, Entries
  <2> QED
    BY <1>2, <2>1, FS_Surjection
<1> QED
  BY <1>1, <1>3 DEF IsField, Entries

LEMMA FirstsField ==
  ASSUME NEW C, IsField(C)
  PROVE  IsField(Firsts(C)) /\ Firsts(C) \subseteq C
<1>1. Firsts(C) \subseteq C
  BY DEF Firsts
<1>2. IsFiniteSet(Firsts(C))
  BY <1>1, FS_Subset DEF IsField
<1> QED
  BY <1>1, <1>2 DEF IsField

(* What the map holds is the first segment of each key, once each.         *)
LEMMA BestIsFirsts ==
  ASSUME NEW C, IsField(C), NEW map, BestOf(map, C)
  PROVE  /\ {map[k] : k \in DOMAIN map} = Firsts(C)
         /\ \A j, k \in DOMAIN map : map[j] = map[k] => j = k
<1>1. \A k \in DOMAIN map : IsBest(map[k], k, C)
  BY DEF BestOf
<1>2. \A j, k \in DOMAIN map : map[j] = map[k] => j = k
  BY <1>1 DEF IsBest
<1>3. \A k \in DOMAIN map : map[k] \in Firsts(C)
  BY <1>1 DEF IsBest, Firsts
<1>4. ASSUME NEW c \in Firsts(C)
      PROVE  \E k \in DOMAIN map : map[k] = c
  <2> DEFINE k == KeyOf[c.seg]
  <2>1. c \in C /\ k \in DOMAIN map
    BY DEF Firsts, BestOf
  <2>2. IsBest(map[k], k, C)
    BY <1>1, <2>1
  <2>3. map[k] # c => Before(map[k], c) /\ Before(c, map[k])
    BY <2>1, <2>2 DEF IsBest, Firsts
  <2>4. map[k] \in C
    BY <2>2 DEF IsBest
  <2>5. ~ (Before(map[k], c) /\ Before(c, map[k]))
    <3> DEFINE d == map[k]
    <3>1. c \in Entrants /\ d \in Entrants
      BY <2>1, <2>4 DEF IsField
    <3>2. /\ c.seg \in Int /\ c.score \in Int /\ c.corrected \in Int
          /\ d.seg \in Int /\ d.score \in Int /\ d.corrected \in Int
      BY <3>1, EntrantFields
    <3> HIDE DEF d
    <3>3. ~ (Before(d, c) /\ Before(c, d))
      BY <3>2 DEF Before
    <3> QED
      BY <3>3 DEF d
  <2> QED
    BY <2>1, <2>3, <2>5
<1> QED
  BY <1>2, <1>3, <1>4

(* The keys whose candidate is in a set are as many as the candidates.     *)
LEMMA KeysOfFirsts ==
  ASSUME NEW C, IsField(C), NEW map, BestOf(map, C), NEW P, P \subseteq Firsts(C)
  PROVE  LET keys == {k \in DOMAIN map : map[k] \in P}
         IN  IsFiniteSet(P) /\ Cardinality(keys) = Cardinality(P)
<1> DEFINE K == {k \in DOMAIN map : map[k] \in P}
           g == [c \in P |-> KeyOf[c.seg]]
<1>1. IsFiniteSet(P)
  BY FirstsField, FS_Subset DEF IsField
<1>2. \A k \in DOMAIN map : KeyOf[map[k].seg] = k
  BY DEF BestOf, IsBest
<1>3. \A c \in P : g[c] \in K /\ map[g[c]] = c
  <2> TAKE c \in P
  <2>1. PICK k \in DOMAIN map : map[k] = c
    BY BestIsFirsts
  <2>2. g[c] = k
    BY <1>2, <2>1
  <2> QED
    BY <2>1, <2>2
<1>4. \A k \in K : map[k] \in P /\ g[map[k]] = k
  BY <1>2
<1>5. g \in [P -> K]
  BY <1>3
<1> HIDE DEF K
<1>6. g \in Surjection(P, K)
  BY <1>4, <1>5 DEF Surjection
<1>7. g \in Injection(P, K)
  <2> HIDE DEF g
  <2> QED
    BY <1>3, <1>5 DEF Injection, IsInjective
<1>8. Cardinality(K) = Cardinality(P)
  BY <1>1, <1>6, <1>7, FS_Surjection
<1> QED
  BY <1>1, <1>8 DEF K

LEMMA KeysCounted ==
  ASSUME NEW C, IsField(C), NEW map, BestOf(map, C)
  PROVE  Cardinality(DOMAIN map) = Cardinality(Firsts(C))
<1> DEFINE P == Firsts(C)
           K == {k \in DOMAIN map : map[k] \in P}
<1>1. K = DOMAIN map
  BY BestIsFirsts
<1>2. Cardinality(K) = Cardinality(P)
  BY KeysOfFirsts
<1> QED
  BY <1>1, <1>2

(* kth_largest finds a score that k keys reach.                            *)
LEMMA KthReached ==
  ASSUME NEW C, IsField(C), NEW map, BestOf(map, C),
         NEW k \in Nat \ {0}, k <= Cardinality(DOMAIN map)
  PROVE  /\ KthLargest(map, k) \in Int
         /\ k <= Cardinality({c \in Firsts(C) : c.corrected >= KthLargest(map, k)})
<1> DEFINE A == Firsts(C)
           values == {map[key].corrected : key \in DOMAIN map}
           above(v) == Cardinality({key \in DOMAIN map : map[key].corrected > v})
           atLeast(v) == Cardinality({key \in DOMAIN map : map[key].corrected >= v})
           upper(v) == {c \in A : c.corrected > v}
           lower(v) == {c \in A : c.corrected >= v}
<1>1. IsField(A) /\ IsFiniteSet(A) /\ StrictOrder(A, InOrder)
      /\ \A c \in A : c \in Entrants /\ c.corrected \in Int
  <2>1. IsField(A)
    BY FirstsField
  <2> QED
    BY <2>1, FieldOrder, EntrantFields DEF IsField
<1>2. \A key \in DOMAIN map : map[key] \in A
  BY BestIsFirsts
<1>3. ASSUME NEW v
      PROVE  /\ above(v) = Cardinality(upper(v)) /\ IsFiniteSet(upper(v))
             /\ atLeast(v) = Cardinality(lower(v)) /\ IsFiniteSet(lower(v))
  <2>1. /\ {key \in DOMAIN map : map[key].corrected > v} = {key \in DOMAIN map : map[key] \in upper(v)}
        /\ {key \in DOMAIN map : map[key].corrected >= v} = {key \in DOMAIN map : map[key] \in lower(v)}
    BY <1>2
  <2>2. upper(v) \subseteq A /\ lower(v) \subseteq A
    OBVIOUS
  <2> DEFINE U == upper(v)
             L == lower(v)
  <2>3. /\ Cardinality({key \in DOMAIN map : map[key] \in U}) = Cardinality(U)
        /\ Cardinality({key \in DOMAIN map : map[key] \in L}) = Cardinality(L)
        /\ IsFiniteSet(U) /\ IsFiniteSet(L)
    <3>1. U \subseteq Firsts(C) /\ L \subseteq Firsts(C)
      OBVIOUS
    <3> HIDE DEF U, L, A
    <3> QED
      BY <3>1, KeysOfFirsts
  <2> QED
    BY <2>1, <2>3
<1>4. k <= Cardinality(A)
  BY KeysCounted
<1>5. Cardinality(A) \in Nat /\ k \in 1 .. Cardinality(A)
  BY <1>1, <1>4, FS_CardinalityType
<1>6. PICK x \in A : Place(A, InOrder, x) = k - 1
  BY <1>1, <1>5, PlacesTaken
<1> DEFINE front == Ahead(A, InOrder, x)
<1>7. IsFiniteSet(front) /\ Cardinality(front) = k - 1 /\ x \notin front
  <2>1. IsFiniteSet(front)
    BY <1>1, PlaceType
  <2>2. Cardinality(front) = k - 1
    BY <1>6 DEF Place
  <2>3. x \notin front
    BY <1>1 DEF Ahead, StrictOrder
  <2> QED
    BY <2>1, <2>2, <2>3
<1>8. \A c \in A : c \in front <=> Before(c, x)
  BY <1>1 DEF Ahead, InOrder
<1> DEFINE v == x.corrected
<1>9. v \in Int /\ v \in values
  <2>1. PICK key \in DOMAIN map : map[key] = x
    BY BestIsFirsts
  <2> QED
    BY <1>1, <2>1
<1>10. above(v) < k
  <2>1. upper(v) \subseteq front
    <3> SUFFICES ASSUME NEW c \in A, c.corrected > v PROVE c \in front
      OBVIOUS
    <3> QED
      BY <1>8 DEF Before
  <2>2. Cardinality(upper(v)) <= Cardinality(front) /\ Cardinality(upper(v)) \in Nat
    <3> DEFINE U == upper(v)
    <3>1. U \subseteq front /\ IsFiniteSet(U)
      BY <1>3, <2>1
    <3> HIDE DEF U, front
    <3>2. Cardinality(U) <= Cardinality(front) /\ Cardinality(U) \in Nat
      BY <1>7, <3>1, FS_Subset, FS_CardinalityType
    <3> QED
      BY <3>2 DEF U
  <2>3. above(v) = Cardinality(upper(v))
    BY <1>3
  <2> HIDE DEF front, v, above, upper
  <2> QED
    BY <1>7, <2>2, <2>3
<1>11. k <= atLeast(v)
  <2> DEFINE L == lower(v)
  <2>1. front \cup {x} \subseteq L
    <3>1. x \in L
      BY <1>1, <1>9
    <3>2. ASSUME NEW c \in front PROVE c \in L
      <4>1. c \in A /\ Before(c, x) /\ c.corrected \in Int
        BY <1>1, <1>8 DEF Ahead
      <4> QED
        BY <1>9, <4>1 DEF Before
    <3> QED
      BY <3>1, <3>2
  <2>2. IsFiniteSet(L)
    BY <1>3
  <2>3. Cardinality(front \cup {x}) = k
    BY <1>7, FS_AddElement
  <2>4. Cardinality(front \cup {x}) <= Cardinality(L)
    <3> HIDE DEF L, front
    <3> QED
      BY <2>1, <2>2, FS_Subset
  <2> QED
    BY <1>3, <2>3, <2>4
<1> DEFINE IsKth(w) == above(w) < k /\ k <= atLeast(w)
           kth == CHOOSE w \in values : IsKth(w)
<1>12. KthLargest(map, k) = kth
  BY Zenon DEF KthLargest
<1>13. \E w \in values : IsKth(w)
  <2> HIDE DEF values, above, atLeast, v
  <2> QED
    BY <1>9, <1>10, <1>11
<1>14. kth \in values /\ k <= atLeast(kth)
  <2> HIDE DEF IsKth, values
  <2>1. kth \in values /\ IsKth(kth)
    BY <1>13
  <2> QED
    BY <2>1 DEF IsKth
<1>15. kth \in Int
  <2> HIDE DEF kth
  <2> QED
    BY <1>1, <1>2, <1>14
<1>16. k <= Cardinality(lower(kth))
  <2> HIDE DEF kth, atLeast, lower
  <2> QED
    BY <1>3, <1>14
<1> HIDE DEF kth
<1> QED
  BY <1>12, <1>15, <1>16

-----------------------------------------------------------------------------
(* Lists cut at the limit.                                                 *)

LEMMA FieldListing ==
  ASSUME NEW C, IsField(C)
  PROVE  Listing(C, InOrder) \in Seq(Entrants) /\ Len(Listing(C, InOrder)) = Cardinality(C)
<1> DEFINE L == Listing(C, InOrder)
           n == Cardinality(C)
<1>1. DOMAIN L = 1 .. n /\ n \in Nat /\ \A k \in 1 .. n : L[k] \in C
  BY FieldOrder, ListingIs DEF IsField
<1>2. L = [k \in 1 .. n |-> L[k]]
  BY DEF Listing
<1>3. \A k \in 1 .. n : L[k] \in Entrants
  BY <1>1 DEF IsField
<1> HIDE DEF L, n
<1>4. L \in [1 .. n -> Entrants]
  BY <1>2, <1>3
<1>5. L \in Seq(Entrants) /\ Len(L) = n
  BY <1>1, <1>4
<1> QED
  BY <1>5 DEF L, n

LEMMA TruncatedAgree ==
  ASSUME limit \in Nat, NEW s \in Seq(Entrants), NEW t \in Seq(Entrants),
         limit <= Len(s), limit <= Len(t), \A n \in 1 .. limit : s[n] = t[n]
  PROVE  Truncated(s) = Truncated(t)
<1>1. limit # NoLimit
  BY Inputs
<1>2. ASSUME NEW u \in Seq(Entrants), limit <= Len(u)
      PROVE  /\ Truncated(u) \in Seq(Entrants) /\ Len(Truncated(u)) = limit
             /\ \A n \in 1 .. limit : Truncated(u)[n] = u[n]
  <2>1. CASE Len(u) <= limit
    <3>1. Truncated(u) = u
      BY <2>1 DEF Truncated
    <3>2. Len(u) = limit
      BY <1>2, <2>1
    <3> QED
      BY <3>1, <3>2
  <2>2. CASE ~ (Len(u) <= limit)
    <3>1. Truncated(u) = SubSeq(u, 1, limit)
      BY <1>1, <2>2 DEF Truncated
    <3> QED
      BY <1>2, <3>1
  <2> QED
    BY <2>1, <2>2
<1> DEFINE x == Truncated(s)
           y == Truncated(t)
<1>3. /\ x \in Seq(Entrants) /\ y \in Seq(Entrants) /\ Len(x) = limit /\ Len(y) = limit
      /\ \A n \in 1 .. limit : x[n] = y[n]
  BY <1>2
<1> HIDE DEF x, y
<1>4. x = y
  BY <1>3
<1> QED
  BY <1>4 DEF x, y

(* When limit keys reach a score that no segment still out can, the list   *)
(* that has been collected and the list of all agree up to the limit.      *)
LEMMA EarlyStop ==
  ASSUME NEW C, NEW D, IsField(C), IsField(D), C \subseteq D,
         limit \in Nat, NEW v \in Int,
         limit <= Cardinality({c \in Firsts(C) : c.corrected >= v}),
         \A d \in D \ C : d.corrected < v
  PROVE  Truncated(Listing(Firsts(C), InOrder)) = Truncated(Listing(Firsts(D), InOrder))
<1> DEFINE A == Firsts(C)
           B == Firsts(D)
           H == {c \in A : c.corrected >= v}
<1>1. IsField(A) /\ IsField(B) /\ A \subseteq C /\ B \subseteq D
  BY FirstsField
<1>2. \A d \in D : d \in Entrants /\ d.corrected \in Int
  BY EntrantFields DEF IsField
<1>3. ASSUME NEW h \in H PROVE h \in B
  <2>1. h \in C /\ h.corrected >= v /\ h \in D /\ h.corrected \in Int
    BY <1>1, <1>2
  <2>2. ASSUME NEW d \in D, d # h, KeyOf[d.seg] = KeyOf[h.seg] PROVE Before(h, d)
    <3>1. CASE d \in C
      BY <2>2, <3>1 DEF Firsts
    <3>2. CASE d \notin C
      <4>1. d.corrected < v /\ d.corrected \in Int
        BY <1>2, <3>2
      <4> QED
        BY <2>1, <4>1 DEF Before
    <3> QED
      BY <3>1, <3>2
  <2> QED
    BY <2>1, <2>2 DEF Firsts
<1>4. ASSUME NEW h \in H, NEW d \in A \cup B, <<d, h>> \in InOrder
      PROVE  d \in H
  <2>1. d \in D /\ h \in D /\ h.corrected >= v /\ d.corrected \in Int /\ h.corrected \in Int
    BY <1>1, <1>2
  <2>2. Before(d, h)
    BY <1>4 DEF InOrder
  <2>3. d.corrected >= v
    BY <2>1, <2>2 DEF Before
  <2>4. d \in C
    BY <2>1, <2>3
  <2>5. d \in A
    <3>1. CASE d \in A
      BY <3>1
    <3>2. CASE d \in B
      BY <2>4, <3>2 DEF Firsts
    <3> QED
      BY <3>1, <3>2
  <2> QED
    BY <2>3, <2>5
<1>5. H \in SUBSET A /\ H \in SUBSET B
  BY <1>3
<1>6. /\ IsFiniteSet(A) /\ IsFiniteSet(B)
      /\ StrictOrder(A, InOrder) /\ StrictOrder(B, InOrder)
  BY <1>1, FieldOrder DEF IsField
<1> DEFINE a == Listing(A, InOrder)
           b == Listing(B, InOrder)
<1>7. /\ a \in Seq(Entrants) /\ Len(a) = Cardinality(A)
      /\ b \in Seq(Entrants) /\ Len(b) = Cardinality(B)
  <2> HIDE DEF A, B
  <2> QED
    BY <1>1, FieldListing
<1>8. limit <= Cardinality(H)
  OBVIOUS
<1> HIDE DEF A, B, H
<1>9. /\ Cardinality(H) <= Cardinality(A) /\ Cardinality(H) <= Cardinality(B)
      /\ Cardinality(H) \in Nat
      /\ \A n \in 1 .. Cardinality(H) : a[n] = b[n]
  BY <1>4, <1>5, <1>6, ListingsAgree
<1> HIDE DEF a, b
<1>10. limit <= Len(a) /\ limit <= Len(b) /\ \A n \in 1 .. limit : a[n] = b[n]
  BY <1>7, <1>8, <1>9
<1>11. Truncated(a) = Truncated(b)
  BY <1>7, <1>10, TruncatedAgree
<1> QED
  BY <1>11 DEF a, b, A, B

LEMMA HeldSegments ==
  ASSUME Given, NEW i, RawOverlap(i) >= Floor
  PROVE  i \in Ids /\ \E k \in Slots : i \in ops[k]
<1>1. RawOverlap(i) # 0
  BY Floors, RawOverlapIs
<1>2. {k \in Slots : i \in ops[k]} # {}
  BY <1>1, FS_EmptySet DEF RawOverlap
<1> QED
  BY <1>2 DEF Given, Slots

LEMMA FullIs ==
  ASSUME Given, Asked
  PROVE  FullRanking = Full /\ IsField(Entries(Worthy)) /\ Full \in Seq(Entrants)
<1> DEFINE all == {Candidate([id |-> i, score |-> Score(i, Len(ops)), overlap |-> RawOverlap(i)]) :
                     i \in {j \in visible : RawOverlap(j) >= Floor}}
           firsts == {c \in all : \A d \in all :
                        d # c /\ KeyOf[d.seg] = KeyOf[c.seg] => Before(c, d)}
<1>1. {j \in visible : RawOverlap(j) >= Floor} = Worthy
  BY HeldSegments DEF Worthy
<1>2. all = Entries(Worthy)
  BY <1>1 DEF Entries, Entry, Rec, Final
<1>3. IsField(Entries(Worthy))
  BY EntriesField DEF Worthy
<1>4. FullRanking = Sorted(firsts, Before)
  BY Zenon DEF FullRanking
<1>5. firsts = Firsts(all)
  BY DEF Firsts
<1> HIDE DEF all, firsts
<1>6. IsField(firsts)
  BY <1>2, <1>3, <1>5, FirstsField
<1>7. FullRanking = Listing(firsts, InOrder) /\ Listing(firsts, InOrder) \in Seq(Entrants)
  BY <1>4, <1>6, SortedField, FieldListing
<1> QED
  BY <1>2, <1>3, <1>5, <1>7 DEF Full

-----------------------------------------------------------------------------
(* The loop's invariant: until the loop ends, the map holds the best of    *)
(* the segments taken from the walk, which is all of it but a peeked one;  *)
(* after that, its list agrees with the full one up to the limit.          *)

Taken == {yielded[n].id : n \in 1 .. pulled - pending}

Collected == Entries(Taken \cap visible)

Held == {best[k] : k \in DOMAIN best}

LoopInv ==
  /\ Asked
  /\ pc \in {"chunk", "peek", "recover", "sort", "done"}
  /\ pulled \in Nat /\ pulled <= Len(yielded) /\ pending \in {0, 1} /\ pending <= pulled
  /\ pc # "done" => limit # 0
  /\ pc \in {"chunk", "peek", "recover"} => seen = Taken /\ BestOf(best, Collected)
  /\ pc = "peek" => pending = 0 /\ limit \in Nat /\ limit <= Cardinality(DOMAIN best)
  /\ pc = "recover" => Exhausted /\ pulled = Len(yielded) /\ pending = 0
  /\ pc = "sort" => /\ IsField(Held)
                    /\ Truncated(Listing(Held, InOrder)) = Truncated(Full)
  /\ pc = "done" => ranked = Truncated(Full)

LEMMA YieldedIs ==
  ASSUME EngineInv
  PROVE  /\ Len(yielded) \in Nat /\ DOMAIN yielded = 1 .. Len(yielded)
         /\ \A n \in 1 .. Len(yielded) :
              /\ yielded[n].id \in Ids /\ yielded[n] = Rec(yielded[n].id)
              /\ Final(yielded[n].id) > 0 /\ RawOverlap(yielded[n].id) >= Floor
         /\ \A m, n \in 1 .. Len(yielded) :
              m < n => Ranks(yielded[m].id, yielded[n].id)
<1>1. CASE added = Len(ops)
  <2>1. Given /\ nextC \in 0 .. MaxScore
    BY <1>1 DEF EngineInv, Walked
  <2>2. /\ yielded \in Seq({Rec(i) : i \in Passed})
        /\ \A m, n \in DOMAIN yielded : m < n => Ranks(yielded[m].id, yielded[n].id)
    BY <1>1 DEF EngineInv, Walked, Returned
  <2>3. nextC \in Nat /\ \A i : Final(i) \in Nat
    <3>1. Len(ops) \in 0 .. Len(ops)
      BY <2>1 DEF Given
    <3>2. MaxScore \in Nat
      BY <2>1, <3>1, ScoreBounds
    <3> QED
      BY <2>1, <3>1, <3>2, ScoreBounds DEF Final
  <2>4. Len(yielded) \in Nat /\ DOMAIN yielded = 1 .. Len(yielded)
        /\ \A n \in 1 .. Len(yielded) : yielded[n] \in {Rec(i) : i \in Passed}
    BY <2>2
  <2>5. \A i \in Passed : i \in Ids /\ Final(i) > 0 /\ RawOverlap(i) >= Floor /\ Rec(i).id = i
    BY <2>3 DEF Passed, Rec
  <2>6. ASSUME NEW n \in 1 .. Len(yielded)
        PROVE  /\ yielded[n].id \in Ids /\ yielded[n] = Rec(yielded[n].id)
               /\ Final(yielded[n].id) > 0 /\ RawOverlap(yielded[n].id) >= Floor
    <3>1. PICK i \in Passed : yielded[n] = Rec(i)
      BY <2>4
    <3>2. yielded[n].id = i
      BY <2>5, <3>1
    <3> QED
      BY <2>5, <3>1, <3>2
  <2> QED
    BY <2>2, <2>4, <2>6
<1>2. CASE added # Len(ops)
  BY <1>2 DEF EngineInv
<1> QED
  BY <1>1, <1>2

LEMMA EntryArrives ==
  ASSUME Given, Asked, NEW i \in Ids, NEW j \in Ids, Ranks(i, j)
  PROVE  Arrives(Entry(i), Entry(j))
BY EntryType DEF Arrives, Ranks

LEMMA AskKept ==
  ASSUME UNCHANGED <<inputs, ask>>
  PROVE  /\ Asked' <=> Asked
         /\ \A i : Entry(i)' = Entry(i)
         /\ Full' = Full
         /\ \A s : Truncated(s)' = Truncated(s)
<1>1. /\ ops' = ops /\ floored' = floored /\ visible' = visible /\ null' = null
      /\ limit' = limit /\ inputs' = inputs
  BY DEF inputs, ask
<1>2. /\ \A i : Rec(i)' = Rec(i) /\ RawOverlap(i)' = RawOverlap(i)
      /\ Floor' = Floor
  BY <1>1, InputsKept
<1>3. \A i : CountCredit(i)' = CountCredit(i)
  BY <1>1 DEF CountCredit, MatchedBy, Slots
<1>4. \A i : Entry(i)' = Entry(i)
  BY <1>1, <1>2, <1>3 DEF Entry, Candidate, Rec
<1>5. Worthy' = Worthy
  BY <1>1, <1>2 DEF Worthy
<1>6. Entries(Worthy)' = Entries(Worthy)
  BY <1>4, <1>5 DEF Entries
<1>7. Full' = Full
  BY <1>6 DEF Full
<1>8. Asked' <=> Asked
  BY <1>1 DEF Asked
<1>9. \A s : Truncated(s)' = Truncated(s)
  BY <1>1 DEF Truncated
<1> QED
  BY <1>4, <1>7, <1>8, <1>9

LEMMA LoopInit ==
  ASSUME Init
  PROVE  LoopInv
<1>1. EngineInv
  BY EngineInit
<1>2. Given
  BY <1>1 DEF EngineInv
<1>3. PICK case \in Cases :
        \E asked \in case[2] :
          /\ floored \in [Slots -> asked.floored]
          /\ visible = asked.visible /\ null = asked.null /\ limit = asked.limit
  BY DEF Init
<1>4. Asked
  BY <1>3, AsksFit DEF Asked
<1>5. /\ yielded = <<>> /\ pulled = 0 /\ pending = 0 /\ best = <<>> /\ seen = {}
      /\ pc = (IF limit = 0 THEN "done" ELSE "chunk") /\ ranked = <<>>
  BY DEF Init, Unplanned
<1>6. Taken = {} /\ Collected = {}
  BY <1>5 DEF Taken, Collected, Entries
<1>7. BestOf(best, Collected)
  <2>1. DOMAIN best = {} /\ best \in [{} -> Entrants]
    BY <1>5
  <2>2. best \in Maps
    BY <2>1 DEF Maps
  <2> QED
    BY <1>6, <2>1, <2>2 DEF BestOf
<1>8. ASSUME limit = 0
      PROVE  ranked = Truncated(Full)
  <2> DEFINE s == Full
  <2>1. s \in Seq(Entrants) /\ limit \in Nat /\ limit # NoLimit
    BY <1>2, <1>4, <1>8, FullIs, Inputs
  <2> HIDE DEF s
  <2>2. Truncated(s) = <<>>
    <3>1. CASE Len(s) <= limit
      <4>1. Len(s) = 0
        BY <1>8, <2>1, <3>1
      <4> QED
        BY <2>1, <3>1, <4>1 DEF Truncated
    <3>2. CASE ~ (Len(s) <= limit)
      BY <1>8, <2>1, <3>2 DEF Truncated
    <3> QED
      BY <3>1, <3>2
  <2> QED
    BY <1>5, <2>2 DEF s
<1>9. Len(yielded) = 0
  BY <1>5
<1> QED
  BY <1>4, <1>5, <1>6, <1>7, <1>8, <1>9 DEF LoopInv

(* More of the walk, or nothing at all, leaves what has been taken.        *)
LEMMA WalkKeeps ==
  ASSUME EngineInv, LoopInv, UNCHANGED <<inputs, ask, loop, pc, ranked>>,
         Len(yielded') \in Nat, Len(yielded) <= Len(yielded'),
         \A n \in 1 .. Len(yielded) : yielded'[n] = yielded[n],
         pc = "recover" => yielded' = yielded /\ Exhausted'
  PROVE  LoopInv'
<1>1. Len(yielded) \in Nat
  BY YieldedIs
<1>2. /\ pulled' = pulled /\ pending' = pending /\ best' = best /\ seen' = seen
      /\ pc' = pc /\ ranked' = ranked /\ limit' = limit /\ visible' = visible
  BY DEF loop, ask
<1>3. /\ pulled \in Nat /\ pulled <= Len(yielded) /\ pending \in {0, 1} /\ pending <= pulled
  BY DEF LoopInv
<1>4. Taken' = Taken
  <2>1. \A n \in 1 .. pulled - pending : yielded'[n] = yielded[n]
    BY <1>1, <1>3
  <2> QED
    BY <1>2, <2>1 DEF Taken
<1>5. Collected' = Collected
  BY <1>2, <1>4, AskKept DEF Collected, Entries
<1>6. Held' = Held
  BY <1>2 DEF Held
<1>7. Truncated(Listing(Held, InOrder))' = Truncated(Listing(Held, InOrder))
  BY <1>2, <1>6 DEF Truncated
<1>8. Truncated(Full)' = Truncated(Full)
  BY <1>2, AskKept DEF Truncated
<1>9. Asked'
  BY AskKept DEF LoopInv
<1>10. pulled' <= Len(yielded')
  BY <1>1, <1>2, <1>3
<1>11. /\ pc \in {"chunk", "peek", "recover", "sort", "done"}
       /\ pc # "done" => limit # 0
       /\ pc \in {"chunk", "peek", "recover"} => seen = Taken /\ BestOf(best, Collected)
       /\ pc = "peek" => pending = 0 /\ limit \in Nat /\ limit <= Cardinality(DOMAIN best)
       /\ pc = "recover" => pulled = Len(yielded) /\ pending = 0
  BY DEF LoopInv
<1>12. pc' \in {"chunk", "peek", "recover"} => seen' = Taken' /\ BestOf(best, Collected)'
  BY <1>2, <1>4, <1>5, <1>11
<1>13. pc' = "recover" => Exhausted' /\ pulled' = Len(yielded') /\ pending' = 0
  BY <1>2, <1>11
<1>14. pc' = "sort" => /\ IsField(Held)'
                       /\ Truncated(Listing(Held, InOrder))' = Truncated(Full)'
  BY <1>2, <1>6, <1>7, <1>8 DEF LoopInv
<1>15. pc' = "done" => ranked' = Truncated(Full)'
  BY <1>2, <1>8 DEF LoopInv
<1>16. pc' = "peek" => pending' = 0 /\ limit' \in Nat /\ limit' <= Cardinality(DOMAIN best')
  BY <1>2, <1>11
<1> QED
  BY <1>2, <1>3, <1>9, <1>10, <1>11, <1>12, <1>13, <1>14, <1>15, <1>16 DEF LoopInv

LEMMA AdvanceKeeps ==
  ASSUME EngineInv, EngineInv', LoopInv, AdvanceWalk
  PROVE  LoopInv'
<1>1. UNCHANGED <<ask, loop, pc, ranked>> /\ pc \in {"chunk", "peek"} /\ Advance
  BY DEF AdvanceWalk
<1>2. Len(yielded) \in Nat /\ DOMAIN yielded = 1 .. Len(yielded)
  BY YieldedIs
<1>3. inputs' = inputs
  BY <1>1 DEF Advance, Drain, Scan
<1>4. /\ Len(yielded') \in Nat /\ Len(yielded) <= Len(yielded')
      /\ \A n \in 1 .. Len(yielded) : yielded'[n] = yielded[n]
  <2>1. yielded' = yielded \/ \E x : yielded' = Append(yielded, x)
    BY <1>1 DEF Advance, Drain, Scan
  <2>2. CASE yielded' = yielded
    BY <1>2, <2>2
  <2>3. CASE \E x : yielded' = Append(yielded, x)
    <3>1. PICK x : yielded' = Append(yielded, x)
      BY <2>3
    <3>2. \E S : yielded \in Seq(S)
      <4> DEFINE R == {Rec(i) : i \in Passed}
      <4>1. yielded \in Seq(R) \/ yielded = <<>>
        BY DEF EngineInv, Walked, Returned
      <4> HIDE DEF R
      <4>2. <<>> \in Seq(R)
        OBVIOUS
      <4>3. yielded \in Seq(R)
        BY <4>1, <4>2
      <4> QED
        BY <4>3
    <3>3. PICK S : yielded \in Seq(S)
      BY <3>2
    <3>4. yielded \in Seq(S \cup {x}) /\ x \in S \cup {x}
      BY <3>3
    <3> DEFINE U == S \cup {x}
    <3> HIDE DEF U
    <3>5. yielded \in Seq(U) /\ x \in U
      BY <3>4 DEF U
    <3> QED
      BY <3>1, <3>5
  <2> QED
    BY <2>1, <2>2, <2>3
<1> QED
  BY <1>1, <1>3, <1>4, WalkKeeps

LEMMA BuildKeeps ==
  ASSUME EngineInv, LoopInv, Build
  PROVE  LoopInv'
<1>1. UNCHANGED <<ask, loop, pc, ranked>> /\ inputs' = inputs /\ yielded' = yielded
      /\ added < Len(ops)
  BY DEF Build, AddOperand
<1>2. Len(yielded) \in Nat
  BY YieldedIs
<1>3. pc # "recover"
  <2>1. Len(ops) \in Nat
    BY DEF EngineInv, Given
  <2> QED
    BY <1>1, <2>1 DEF LoopInv, Exhausted, Planned
<1> QED
  BY <1>1, <1>2, <1>3, WalkKeeps

LEMMA EngineStill ==
  ASSUME UNCHANGED engine
  PROVE  inputs' = inputs /\ yielded' = yielded /\ (Exhausted' <=> Exhausted)
<1>1. /\ added' = added /\ ops' = ops /\ bucket' = bucket /\ nextC' = nextC
      /\ inputs' = inputs /\ yielded' = yielded
  BY DEF engine, walk, plan, inputs
<1>2. ScanFloor' = ScanFloor
  BY <1>1, InputsKept
<1> QED
  BY <1>1, <1>2 DEF Exhausted, Planned

LEMMA LoopStill ==
  ASSUME EngineInv, LoopInv, UNCHANGED vars
  PROVE  LoopInv'
<1>1. UNCHANGED <<ask, loop, pc, ranked>> /\ UNCHANGED engine
  BY DEF vars
<1>2. inputs' = inputs /\ yielded' = yielded /\ (Exhausted' <=> Exhausted)
  BY <1>1, EngineStill
<1>3. Len(yielded) \in Nat
  BY YieldedIs
<1>4. pc = "recover" => Exhausted'
  BY <1>2 DEF LoopInv
<1> QED
  BY <1>1, <1>2, <1>3, <1>4, WalkKeeps

(* A chunk folded in: the map is then of the whole walk so far.            *)
LEMMA PullKeeps ==
  ASSUME EngineInv, LoopInv, PullChunk
  PROVE  LoopInv'
<1> DEFINE p == pulled - pending
           L == Len(yielded)
           chunk == SubSeq(yielded, p + 1, L)
           cands == [n \in DOMAIN chunk |-> Candidate(chunk[n])]
           got == {yielded[n].id : n \in 1 .. L}
           all == Entries(got \cap visible)
<1>1. /\ pc = "chunk" /\ Advanced /\ pulled' = L /\ pending' = 0
      /\ best' = Collect(best, cands) /\ seen' = seen \cup {chunk[n].id : n \in DOMAIN chunk}
      /\ pc' = (IF Len(yielded) < Target THEN "recover"
                ELSE IF EnoughKeys THEN "peek" ELSE "chunk")
      /\ UNCHANGED engine /\ UNCHANGED ask
  BY DEF PullChunk, Pulled
<1>2. /\ Asked /\ limit # 0 /\ pulled \in Nat /\ pulled <= L /\ pending \in {0, 1}
      /\ pending <= pulled /\ seen = Taken /\ BestOf(best, Collected)
  BY <1>1 DEF LoopInv
<1>3. Given
  BY DEF EngineInv
<1>4. /\ L \in Nat
      /\ \A n \in 1 .. L :
           /\ yielded[n].id \in Ids /\ yielded[n] = Rec(yielded[n].id)
      /\ \A m, n \in 1 .. L : m < n => Ranks(yielded[m].id, yielded[n].id)
  BY YieldedIs
<1>5. p \in Nat /\ p <= L
  BY <1>2, <1>4
<1>6. /\ DOMAIN chunk = 1 .. L - p
      /\ \A n \in 1 .. L - p : p + n \in 1 .. L /\ chunk[n] = yielded[p + n]
  <2> HIDE DEF p, L
  <2> QED
    BY <1>4, <1>5
<1>7. \A n \in 1 .. L : Candidate(yielded[n]) = Entry(yielded[n].id)
                        /\ Entry(yielded[n].id) \in Entrants
                        /\ Entry(yielded[n].id).seg = yielded[n].id
  BY <1>2, <1>3, <1>4, EntryType DEF Entry
<1>8. /\ cands \in Seq(Entrants) /\ Len(cands) = L - p
      /\ \A n \in 1 .. L - p : cands[n] = Entry(yielded[p + n].id)
  <2>1. \A n \in 1 .. L - p : cands[n] = Entry(yielded[p + n].id) /\ cands[n] \in Entrants
    BY <1>6, <1>7
  <2>2. cands = [n \in 1 .. L - p |-> cands[n]]
    BY <1>6
  <2>3. L - p \in Nat
    BY <1>4, <1>5
  <2> HIDE DEF cands, p, L
  <2>4. cands \in [1 .. L - p -> Entrants]
    BY <2>1, <2>2
  <2> QED
    BY <2>1, <2>3, <2>4
<1> HIDE DEF cands, chunk
<1>9. Taken = {yielded[n].id : n \in 1 .. p}
  BY DEF Taken
<1>10. Collected \subseteq Entrants
  <2>1. Taken \subseteq Ids
    BY <1>4, <1>5, <1>9
  <2> QED
    BY <1>2, <1>3, <2>1, EntryType DEF Collected, Entries
<1>11. ASSUME NEW m \in 1 .. L, NEW n \in 1 .. L, m < n
       PROVE  Arrives(Entry(yielded[m].id), Entry(yielded[n].id))
  BY <1>2, <1>3, <1>4, <1>11, EntryArrives
<1>12. \A n \in 1 .. L - p : \A d \in Collected : Arrives(d, cands[n])
  <2> TAKE n \in 1 .. L - p
  <2> TAKE d \in Collected
  <2>1. PICK m \in 1 .. p : d = Entry(yielded[m].id)
    BY <1>9 DEF Collected, Entries
  <2>2. m \in 1 .. L /\ p + n \in 1 .. L /\ m < p + n
    BY <1>4, <1>5
  <2> HIDE DEF p, L
  <2> QED
    BY <1>8, <1>11, <2>1, <2>2
<1>13. \A m, n \in 1 .. L - p : m < n => Arrives(cands[m], cands[n])
  <2> TAKE m, n \in 1 .. L - p
  <2>1. p + m \in 1 .. L /\ p + n \in 1 .. L /\ (m < n => p + m < p + n)
    BY <1>4, <1>5
  <2> HIDE DEF p, L
  <2> QED
    BY <1>8, <1>11, <2>1
<1>14. BestOf(best', Collected \cup Shown(cands, L - p))
  <2> HIDE DEF p, L
  <2> QED
    BY <1>1, <1>2, <1>8, <1>10, <1>12, <1>13, CollectKeeps
<1>15. Collected \cup Shown(cands, L - p) = all
  <2>1. ASSUME NEW c \in Collected PROVE c \in all
    <3>1. PICK m \in 1 .. p : yielded[m].id \in visible /\ c = Entry(yielded[m].id)
      BY <1>9 DEF Collected, Entries
    <3>2. m \in 1 .. L
      BY <1>4, <1>5
    <3> QED
      BY <3>1, <3>2 DEF Entries
  <2>2. ASSUME NEW c \in Shown(cands, L - p) PROVE c \in all
    <3>1. PICK n \in 1 .. L - p : c = cands[n] /\ cands[n].seg \in visible
      BY DEF Shown
    <3>2. p + n \in 1 .. L
      BY <1>4, <1>5
    <3>3. c = Entry(yielded[p + n].id) /\ yielded[p + n].id \in visible
      BY <1>7, <1>8, <3>1, <3>2
    <3> QED
      BY <3>2, <3>3 DEF Entries
  <2>3. ASSUME NEW c \in all PROVE c \in Collected \cup Shown(cands, L - p)
    <3>1. PICK k \in 1 .. L : yielded[k].id \in visible /\ c = Entry(yielded[k].id)
      BY DEF Entries
    <3>2. CASE k \in 1 .. p
      BY <1>9, <3>1, <3>2 DEF Collected, Entries
    <3>3. CASE k \notin 1 .. p
      <4> DEFINE n == k - p
      <4>1. n \in 1 .. L - p /\ p + n = k
        BY <1>4, <1>5, <3>3
      <4> HIDE DEF n
      <4>2. cands[n] = c /\ c.seg \in visible
        BY <1>7, <1>8, <3>1, <4>1
      <4> QED
        BY <4>1, <4>2 DEF Shown
    <3> QED
      BY <3>2, <3>3
  <2> QED
    BY <2>1, <2>2, <2>3
<1>16. inputs' = inputs /\ yielded' = yielded /\ (Exhausted' <=> Exhausted)
       /\ limit' = limit /\ visible' = visible
  BY <1>1, EngineStill DEF ask
<1>17. Taken' = got
  <2>1. pulled' - pending' = L
    BY <1>1, <1>4
  <2> QED
    BY <1>16, <2>1 DEF Taken
<1>18. Collected' = all
  <2>1. \A i : Entry(i)' = Entry(i)
    BY <1>1, <1>16, AskKept
  <2> QED
    BY <1>16, <1>17, <2>1 DEF Collected, Entries
<1>19. seen' = got
  <2>1. ASSUME NEW k \in 1 .. L PROVE yielded[k].id \in seen'
    <3>1. CASE k \in 1 .. p
      BY <1>1, <1>2, <1>9, <3>1
    <3>2. CASE k \notin 1 .. p
      <4> DEFINE n == k - p
      <4>1. n \in 1 .. L - p /\ p + n = k
        BY <1>4, <1>5, <3>2
      <4> HIDE DEF n
      <4> QED
        BY <1>1, <1>6, <4>1
    <3> QED
      BY <3>1, <3>2
  <2>2. Taken \subseteq got
    BY <1>4, <1>5, <1>9
  <2>3. \A n \in DOMAIN chunk : chunk[n].id \in got
    BY <1>6
  <2> QED
    BY <1>1, <1>2, <2>1, <2>2, <2>3
<1>20. BestOf(best, Collected)'
  BY <1>14, <1>15, <1>18
<1>21. Asked'
  BY <1>1, <1>2, <1>16, AskKept
<1>22. pc' = "recover" => Exhausted
  <2>1. Target \in Int
    BY <1>1, <1>2, Inputs DEF Target
  <2> QED
    BY <1>1, <1>4, <2>1 DEF Advanced
<1>23. pc' = "peek" => limit' \in Nat /\ limit' <= Cardinality(DOMAIN best')
  BY <1>1, <1>2, <1>16 DEF EnoughKeys, Asked
<1>24. pc' \in {"chunk", "peek", "recover"}
  BY <1>1
<1>25. pulled' \in Nat /\ pulled' <= Len(yielded') /\ pending' \in {0, 1} /\ pending' <= pulled'
       /\ pulled' = Len(yielded')
  BY <1>1, <1>4, <1>16
<1> QED
  BY <1>1, <1>2, <1>16, <1>17, <1>19, <1>20, <1>21, <1>22, <1>23, <1>24, <1>25 DEF LoopInv

(* The early stop, or one candidate peeked at and kept.                    *)
LEMMA PeekKeeps ==
  ASSUME EngineInv, BestFirst, LoopInv, Peek
  PROVE  LoopInv'
<1> DEFINE L == Len(yielded)
           y == yielded[pulled + 1]
<1>1. /\ pc = "peek" /\ Advanced /\ best' = best /\ seen' = seen
      /\ UNCHANGED engine /\ UNCHANGED ask
  BY DEF Peek
<1>2. /\ Asked /\ limit # 0 /\ limit \in Nat /\ limit <= Cardinality(DOMAIN best)
      /\ pulled \in Nat /\ pulled <= L /\ pending = 0
      /\ seen = Taken /\ BestOf(best, Collected)
  BY <1>1 DEF LoopInv
<1>3. Given
  BY DEF EngineInv
<1>4. /\ L \in Nat /\ DOMAIN yielded = 1 .. L
      /\ \A n \in 1 .. L :
           /\ yielded[n].id \in Ids /\ yielded[n] = Rec(yielded[n].id)
           /\ Final(yielded[n].id) > 0 /\ RawOverlap(yielded[n].id) >= Floor
      /\ \A m, n \in 1 .. L : m < n => Ranks(yielded[m].id, yielded[n].id)
  BY YieldedIs
<1>5. /\ inputs' = inputs /\ yielded' = yielded /\ (Exhausted' <=> Exhausted)
      /\ limit' = limit /\ visible' = visible
  BY <1>1, EngineStill DEF ask
<1>6. /\ Asked' /\ Held' = Held
      /\ Truncated(Listing(Held, InOrder))' = Truncated(Listing(Held, InOrder))
      /\ Truncated(Full)' = Truncated(Full)
  <2>1. Held' = Held
    BY <1>1 DEF Held
  <2>2. Full' = Full /\ Asked'
    BY <1>1, <1>2, <1>5, AskKept
  <2> QED
    BY <1>5, <2>1, <2>2 DEF Truncated
<1>7. CASE L = pulled
  <2>1. pc' = "recover" /\ pulled' = pulled /\ pending' = pending
    BY <1>7 DEF Peek
  <2>2. Taken' = Taken
    BY <1>5, <2>1 DEF Taken
  <2>3. Collected' = Collected
    <3>1. \A i : Entry(i)' = Entry(i)
      BY <1>1, <1>5, AskKept
    <3> QED
      BY <1>5, <2>2, <3>1 DEF Collected, Entries
  <2>4. Exhausted
    <3>1. Target = pulled + 1
      BY <1>1 DEF Target
    <3> QED
      BY <1>1, <1>2, <1>4, <1>7, <3>1 DEF Advanced
  <2>5. BestOf(best, Collected)'
    BY <1>1, <1>2, <2>3
  <2> QED
    BY <1>1, <1>2, <1>5, <1>6, <1>7, <2>1, <2>2, <2>4, <2>5 DEF LoopInv
<1>8. CASE L # pulled
  <2>0. pulled' = pulled + 1
    BY Zenon, <1>8 DEF Peek
  <2>1. pulled' = pulled + 1 /\ pulled + 1 <= L /\ pulled + 1 \in 1 .. L
    <3>1. L \in Nat /\ pulled \in Nat /\ pulled <= L /\ L # pulled
      BY <1>2, <1>4, <1>8
    <3> HIDE DEF L
    <3> QED
      BY <2>0, <3>1
  <2> DEFINE stop == Ceiling(y) < maxFloat /\ Ceiling(y) < KthLargest(best, limit)
  <2>2. CASE stop
    <3>1. pc' = "sort" /\ pending' = pending
      BY <1>8, <2>2 DEF Peek
    <3> DEFINE C == Collected
               D == Entries(Worthy)
               v == KthLargest(best, limit)
    <3>2. IsField(C) /\ IsField(D)
      <4>1. Worthy \subseteq Ids /\ Taken \cap visible \subseteq Ids
        <5>1. \A n \in 1 .. pulled - pending : n \in 1 .. L
          BY <1>2, <1>4
        <5> QED
          BY <1>4, <5>1 DEF Worthy, Taken
      <4> QED
        BY <1>2, <1>3, <4>1, EntriesField DEF Collected
    <3>3. v \in Int /\ limit <= Cardinality({c \in Firsts(C) : c.corrected >= v})
      <4>1. limit \in Nat \ {0}
        BY <1>2
      <4> HIDE DEF C
      <4> QED
        BY <1>2, <3>2, <4>1, KthReached DEF C
    <3>4. C \subseteq D
      <4>1. Taken \cap visible \subseteq Worthy
        <5>1. \A n \in 1 .. pulled - pending : n \in 1 .. L
          BY <1>2, <1>4
        <5> QED
          BY <1>4, <5>1 DEF Worthy, Taken
      <4> QED
        BY <4>1 DEF Collected, Entries
    <3>5. ASSUME NEW i \in Worthy, i \notin Taken
          PROVE  Final(i) <= y.score
      <4>1. /\ i \in Ids /\ RawOverlap(i) >= Floor
            /\ yielded[pulled + 1].id \in Ids /\ y.score = Final(yielded[pulled + 1].id)
        BY <1>4, <2>1 DEF Worthy, Rec
      <4>2. Final(i) \in Nat /\ y.score \in Nat
        BY <1>2, <1>3, <4>1, EntryType
      <4>3. CASE Final(i) = 0
        BY <4>2, <4>3
      <4>4. CASE \E n \in 1 .. L : yielded[n].id = i
        <5>1. PICK n \in 1 .. L : yielded[n].id = i
          BY <4>4
        <5>2. n \notin 1 .. pulled
          BY <1>2, <3>5, <5>1 DEF Taken
        <5>3. n = pulled + 1 \/ pulled + 1 < n
          BY <1>2, <1>4, <5>2
        <5>4. pulled + 1 < n => Ranks(yielded[pulled + 1].id, i)
          BY <1>4, <2>1, <5>1
        <5> QED
          BY <4>1, <4>2, <5>1, <5>3, <5>4 DEF Ranks
      <4>5. CASE Final(i) > 0 /\ ~ \E n \in 1 .. L : yielded[n].id = i
        <5>1. i \in Wanted \ {yielded[n].id : n \in DOMAIN yielded}
          BY <1>4, <4>1, <4>5 DEF Wanted, Final
        <5>2. \/ yielded[pulled + 1].score > Score(i, Len(ops))
              \/ /\ yielded[pulled + 1].score = Score(i, Len(ops))
                 /\ yielded[pulled + 1].id < i
          BY <1>4, <2>1, <5>1 DEF BestFirst
        <5> QED
          BY <4>2, <5>2 DEF Final
      <4> QED
        BY <4>2, <4>3, <4>4, <4>5
    <3>6. ASSUME NEW d \in D \ C PROVE d.corrected < v
      <4>1. PICK i \in Worthy : d = Entry(i)
        BY DEF Entries
      <4>2. i \in Ids /\ i \notin Taken
        BY <4>1 DEF Collected, Entries, Worthy
      <4>3. /\ Final(i) \in Nat /\ d.corrected \in Int
            /\ d.corrected <= Final(i) * Delta + CredMax
        BY <1>2, <1>3, <4>1, <4>2, EntryType, EntrantFields
      <4>4. Final(i) <= y.score /\ y.score \in Nat
        <5>1. yielded[pulled + 1].id \in Ids /\ y.score = Final(yielded[pulled + 1].id)
          BY <1>4, <2>1 DEF Rec
        <5>2. Final(yielded[pulled + 1].id) \in Nat
          BY <1>2, <1>3, <5>1, EntryType
        <5> QED
          BY <3>5, <4>2, <5>1, <5>2
      <4>5. Delta \in Nat /\ CredMax \in Nat
        BY <1>3, CreditBound, Inputs
      <4>6. \A a, b, m \in Nat : a <= b => a * m \in Nat /\ b * m \in Nat /\ a * m <= b * m
        OBVIOUS
      <4> DEFINE e == Final(i) * Delta
                 f == y.score * Delta
      <4>7. e \in Nat /\ f \in Nat /\ e <= f
        BY <4>3, <4>4, <4>5, <4>6
      <4>8. Ceiling(y) = f + CredMax
        BY DEF Ceiling
      <4>9. d.corrected <= e + CredMax
        BY <4>3
      <4>10. Ceiling(y) < v
        BY <2>2
      <4> HIDE DEF e, f, v, y
      <4> QED
        BY <3>3, <4>3, <4>5, <4>7, <4>8, <4>9, <4>10
    <3>7. Truncated(Listing(Firsts(C), InOrder)) = Truncated(Listing(Firsts(D), InOrder))
      <4> HIDE DEF C, D, v
      <4> QED
        BY <1>2, <3>2, <3>3, <3>4, <3>6, EarlyStop
    <3>8. Held = Firsts(C) /\ IsField(Held)
      <4>1. Held = Firsts(C)
        BY <1>2, <3>2, BestIsFirsts DEF Held
      <4> QED
        BY <3>2, <4>1, FirstsField
    <3>9. Truncated(Listing(Held, InOrder)) = Truncated(Full)
      BY <3>7, <3>8 DEF Full
    <3>10. IsField(Held)'
      BY <1>6, <3>8
    <3>11. Truncated(Listing(Held, InOrder))' = Truncated(Full)'
      BY <1>6, <3>9
    <3>12. /\ pulled' \in Nat /\ pulled' <= Len(yielded') /\ pending' \in {0, 1}
           /\ pending' <= pulled' /\ limit' # 0 /\ Asked'
      BY <1>2, <1>4, <1>5, <1>6, <2>1, <3>1
    <3> HIDE DEF C, D, v, y, stop
    <3> QED
      BY <3>1, <3>10, <3>11, <3>12 DEF LoopInv
  <2>3. CASE ~ stop
    <3>1. pc' = "chunk" /\ pending' = 1
      BY <1>8, <2>3 DEF Peek
    <3>2. pulled' - pending' = pulled - pending
      BY <1>2, <2>1, <3>1
    <3>3. Taken' = Taken
      BY <1>5, <3>2 DEF Taken
    <3>4. Collected' = Collected
      <4>1. \A i : Entry(i)' = Entry(i)
        BY <1>1, <1>5, AskKept
      <4> QED
        BY <1>5, <3>3, <4>1 DEF Collected, Entries
    <3>5. BestOf(best, Collected)'
      BY <1>1, <1>2, <3>4
    <3> HIDE DEF y, stop
    <3> QED
      BY <1>1, <1>2, <1>4, <1>5, <1>6, <2>1, <3>1, <3>3, <3>5 DEF LoopInv
  <2> QED
    BY <2>2, <2>3
<1> QED
  BY <1>7, <1>8

(* A segment without a score is only held by postings of weight 0.         *)
LEMMA ZeroScore ==
  ASSUME Given, NEW i, Final(i) = 0, NEW k \in Slots, i \in ops[k]
  PROVE  weights[k] = 0
<1> DEFINE H == Hits(i, Len(ops))
           A == {k}
<1>1. Len(ops) \in 0 .. Len(ops) /\ k \in 1 .. Len(ops)
  BY DEF Given, Slots
<1>2. /\ IsFiniteSet(H) /\ H \in SUBSET (DOMAIN ops) /\ k \in H
      /\ \A x \in DOMAIN ops : weights[x] \in Nat
  BY <1>1, HitsAre DEF Hits
<1>3. Total(weights, H) = 0
  BY ScoreIsTotal DEF Final
<1> HIDE DEF H
<1>4. Total(weights, A) \in Nat /\ Total(weights, A) <= 0
  <2>1. A \in SUBSET H /\ \A x \in H : weights[x] \in Nat
    BY <1>2
  <2> HIDE DEF A
  <2> QED
    BY <1>2, <1>3, <2>1, TotalGrows
<1>5. ASSUME weights[k] # 0
      PROVE  FALSE
  <2>1. IsFiniteSet(A) /\ Cardinality(A) = 1
    BY FS_Singleton
  <2>2. \A x \in A : weights[x] \in Nat \ {0}
    BY <1>2, <1>5
  <2>3. Cardinality(A) <= Total(weights, A)
    <3> HIDE DEF A
    <3> QED
      BY <2>1, <2>2, TotalCounts
  <2> QED
    BY <1>4, <2>1, <2>3
<1> QED
  BY <1>5

ById(T) == {p \in T \X T : p[1].id < p[2].id}

LEMMA SortedById ==
  ASSUME NEW T, IsFiniteSet(T), \A s \in T : s.id \in Int,
         \A s, t \in T : s.id = t.id => s = t
  PROVE  /\ StrictOrder(T, ById(T))
         /\ Sorted(T, LAMBDA s, t : s.id < t.id) = Listing(T, ById(T))
<1>1. \A c, d \in T : <<c, d>> \in ById(T) <=> c.id < d.id
  BY DEF ById
<1>2. StrictOrder(T, ById(T))
  BY <1>1 DEF StrictOrder
<1>3. ASSUME NEW c \in T
      PROVE  Cardinality({d \in T : d.id < c.id}) = Place(T, ById(T), c)
  <2>1. {d \in T : d.id < c.id} = Ahead(T, ById(T), c)
    BY <1>1 DEF Ahead
  <2> QED
    BY <2>1 DEF Place
<1> DEFINE Y(n) == CHOOSE c \in T : Cardinality({d \in T : d.id < c.id}) = n - 1
           Z(n) == CHOOSE x \in T : Place(T, ById(T), x) = n - 1
<1>4. ASSUME NEW n \in 1 .. Cardinality(T)
      PROVE  Y(n) = Z(n)
  <2>1. \E x \in T : Place(T, ById(T), x) = n - 1
    BY <1>2, PlacesTaken
  <2>2. Z(n) \in T /\ Place(T, ById(T), Z(n)) = n - 1
    BY <2>1
  <2>3. \E c \in T : Cardinality({d \in T : d.id < c.id}) = n - 1
    BY <1>3, <2>1
  <2>4. Y(n) \in T /\ Cardinality({d \in T : d.id < Y(n).id}) = n - 1
    BY <2>3
  <2> HIDE DEF Y, Z
  <2>5. Place(T, ById(T), Y(n)) = n - 1
    BY <1>3, <2>4
  <2> QED
    BY <1>2, <2>2, <2>4, <2>5, PlacesTaken
<1>5. Sorted(T, LAMBDA s, t : s.id < t.id) = [n \in 1 .. Cardinality(T) |-> Y(n)]
  BY Zenon DEF Sorted
<1>6. Listing(T, ById(T)) = [n \in 1 .. Cardinality(T) |-> Z(n)]
  BY Zenon DEF Listing
<1> HIDE DEF Y, Z
<1> QED
  BY <1>2, <1>4, <1>5, <1>6

(* Everything has been collected: the list is the full one.                *)
LEMMA AllCollected ==
  ASSUME Given, Asked, NEW map, BestOf(map, Entries(Worthy))
  PROVE  LET held == {map[k] : k \in DOMAIN map}
         IN  IsField(held) /\ Listing(held, InOrder) = Full
<1>1. IsField(Entries(Worthy))
  BY EntriesField DEF Worthy
<1>2. {map[k] : k \in DOMAIN map} = Firsts(Entries(Worthy))
  BY <1>1, BestIsFirsts
<1>3. IsField(Firsts(Entries(Worthy)))
  BY <1>1, FirstsField
<1> QED
  BY <1>2, <1>3 DEF Full

(* What the walk never yields, for want of a score, recovery adds.         *)
LEMMA RecoverKeeps ==
  ASSUME EngineInv, WalkComplete, LoopInv, Recover
  PROVE  LoopInv'
<1> DEFINE L == Len(yielded)
           uZero == UNION {ops[k] : k \in {k \in Slots : weights[k] = 0}}
           found == {[id |-> i, score |-> 0, overlap |-> RawOverlap(i)] : i \in uZero \ seen}
           rows == {s \in found : s.overlap >= Floor}
           keep == Sorted(rows, LAMBDA s, t : s.id < t.id)
           cands == [n \in DOMAIN keep |-> Candidate(keep[n])]
           M == {i \in uZero \ seen : RawOverlap(i) >= Floor}
<1>1. /\ pc = "recover" /\ pc' = "sort" /\ best' = Collect(best, cands)
      /\ pulled' = pulled /\ pending' = pending
      /\ UNCHANGED engine /\ UNCHANGED ask
  BY DEF Recover
<1>2. /\ Asked /\ limit # 0 /\ Exhausted /\ pulled = L /\ pending = 0 /\ pulled \in Nat
      /\ seen = Taken /\ BestOf(best, Collected)
  BY <1>1 DEF LoopInv
<1>3. Given
  BY DEF EngineInv
<1>4. /\ L \in Nat /\ DOMAIN yielded = 1 .. L
      /\ \A n \in 1 .. L :
           /\ yielded[n].id \in Ids /\ yielded[n] = Rec(yielded[n].id)
           /\ Final(yielded[n].id) > 0 /\ RawOverlap(yielded[n].id) >= Floor
  BY YieldedIs
<1>5. Taken = {yielded[n].id : n \in 1 .. L}
  BY <1>2, <1>4 DEF Taken
<1>6. \A i \in Ids : Final(i) \in Nat
  BY <1>2, <1>3, EntryType
<1>7. \A i \in Wanted : i \in Taken
  <2> TAKE i \in Wanted
  <2>1. Rec(i) \in {yielded[n] : n \in DOMAIN yielded}
    BY <1>2 DEF WalkComplete, Rec, Final
  <2>2. PICK n \in 1 .. L : yielded[n] = Rec(i)
    BY <1>4, <2>1
  <2> QED
    BY <1>5, <2>2 DEF Rec
<1>8. \A i \in M : /\ i \in Ids /\ i \notin Taken /\ RawOverlap(i) >= Floor /\ Final(i) = 0
  <2> TAKE i \in M
  <2>1. i \in Ids /\ i \notin Taken /\ RawOverlap(i) >= Floor
    BY <1>2, <1>3, HeldSegments
  <2>2. i \notin Wanted
    BY <1>7, <2>1
  <2> QED
    BY <1>6, <2>1, <2>2 DEF Wanted, Final
<1>9. \A i \in Ids : RawOverlap(i) >= Floor /\ i \notin Taken => i \in M
  <2> TAKE i \in Ids
  <2> SUFFICES ASSUME RawOverlap(i) >= Floor, i \notin Taken PROVE i \in M
    OBVIOUS
  <2>1. Final(i) = 0
    <3>1. i \notin Wanted
      BY <1>7
    <3> QED
      BY <1>6, <3>1 DEF Wanted, Final
  <2>2. PICK k \in Slots : i \in ops[k]
    BY <1>3, HeldSegments
  <2>3. weights[k] = 0
    BY <1>3, <2>1, <2>2, ZeroScore
  <2>4. i \in uZero
    BY <2>2, <2>3
  <2> QED
    BY <1>2, <2>4
<1>10. rows = {Rec(i) : i \in M}
  <2>1. rows = {[id |-> i, score |-> 0, overlap |-> RawOverlap(i)] : i \in M}
    OBVIOUS
  <2>2. \A i \in M : [id |-> i, score |-> 0, overlap |-> RawOverlap(i)] = Rec(i)
    BY <1>8 DEF Rec
  <2> HIDE DEF rows, M
  <2> QED
    BY <2>1, <2>2
<1> HIDE DEF M, rows
<1>11. IsFiniteSet(rows)
  <2> DEFINE f == [i \in M |-> Rec(i)]
  <2>1. IsFiniteSet(M)
    <3>1. M \subseteq Ids
      BY <1>8
    <3> QED
      BY <3>1, SegmentIds, FS_Subset
  <2>2. f \in Surjection(M, rows)
    BY <1>10 DEF Surjection
  <2> QED
    BY <2>1, <2>2, FS_Surjection
<1>12. /\ \A s \in rows : s.id \in M /\ s = Rec(s.id) /\ s.id \in Int
       /\ \A i \in M : Rec(i) \in rows /\ Rec(i).id = i
       /\ \A s, t \in rows : s.id = t.id => s = t
  <2>1. \A s \in rows : s.id \in M /\ s = Rec(s.id)
    BY <1>10 DEF Rec
  <2>2. \A i \in M : i \in Int
    BY <1>8, SegmentIds
  <2> QED
    BY <1>10, <2>1, <2>2 DEF Rec
<1> DEFINE N == Cardinality(rows)
<1>13. keep = Listing(rows, ById(rows)) /\ StrictOrder(rows, ById(rows))
  <2>1. Sorted(rows, LAMBDA s, t : s.id < t.id) = Listing(rows, ById(rows))
        /\ StrictOrder(rows, ById(rows))
    BY <1>11, <1>12, SortedById
  <2> QED
    BY <2>1
<1> HIDE DEF keep
<1>14. /\ DOMAIN keep = 1 .. N /\ N \in Nat
       /\ \A n \in 1 .. N : keep[n] \in rows
       /\ \A m, n \in 1 .. N : m < n => keep[m].id < keep[n].id
       /\ \A s \in rows : \E n \in 1 .. N : keep[n] = s
  <2> HIDE DEF N
  <2>1. /\ DOMAIN keep = 1 .. N /\ N \in Nat
        /\ \A n \in 1 .. N : keep[n] \in rows
        /\ \A m, n \in 1 .. N : m < n => <<keep[m], keep[n]>> \in ById(rows)
    BY <1>11, <1>13, ListingIs DEF N
  <2>2. \A s \in rows : \E n \in 1 .. N : keep[n] = s
    BY <1>11, <1>13, ListingAt DEF N
  <2> QED
    BY <2>1, <2>2 DEF ById
<1> HIDE DEF N
<1> DEFINE at(n) == keep[n].id
<1>15. \A n \in 1 .. N : /\ at(n) \in M /\ cands[n] = Entry(at(n))
                         /\ Entry(at(n)) \in Entrants /\ Entry(at(n)).seg = at(n)
  <2> TAKE n \in 1 .. N
  <2>1. at(n) \in M /\ keep[n] = Rec(at(n))
    BY <1>12, <1>14
  <2>2. cands[n] = Entry(at(n))
    BY <1>14, <2>1 DEF Entry
  <2> QED
    BY <1>2, <1>3, <1>8, <2>1, <2>2, EntryType
<1>16. cands \in Seq(Entrants) /\ Len(cands) = N
  <2>1. cands = [n \in 1 .. N |-> cands[n]] /\ \A n \in 1 .. N : cands[n] \in Entrants
    BY <1>14, <1>15
  <2> HIDE DEF cands
  <2>2. cands \in [1 .. N -> Entrants]
    BY <2>1
  <2> QED
    BY <1>14, <2>2
<1> HIDE DEF cands
<1>17. Collected \subseteq Entrants /\ \A d \in Collected : \E j \in Taken : d = Entry(j)
  <2>1. Taken \subseteq Ids
    BY <1>4, <1>5
  <2> QED
    BY <1>2, <1>3, <2>1, EntryType DEF Collected, Entries
<1>18. ASSUME NEW n \in 1 .. N, NEW d \in Collected PROVE Arrives(d, cands[n])
  <2>1. PICK j \in Taken : d = Entry(j)
    BY <1>17
  <2>2. j \in Ids /\ Final(j) > 0
    BY <1>4, <1>5, <2>1
  <2>3. at(n) \in Ids /\ Final(at(n)) = 0 /\ cands[n] = Entry(at(n))
    BY <1>8, <1>15
  <2>4. Ranks(j, at(n))
    BY <2>2, <2>3 DEF Ranks
  <2> HIDE DEF at
  <2> QED
    BY <1>2, <1>3, <2>1, <2>2, <2>3, <2>4, EntryArrives
<1>19. ASSUME NEW m \in 1 .. N, NEW n \in 1 .. N, m < n PROVE Arrives(cands[m], cands[n])
  <2>1. /\ at(m) \in Ids /\ Final(at(m)) = 0 /\ cands[m] = Entry(at(m))
        /\ at(n) \in Ids /\ Final(at(n)) = 0 /\ cands[n] = Entry(at(n))
    BY <1>8, <1>15
  <2>2. at(m) < at(n)
    BY <1>14, <1>19
  <2>3. Ranks(at(m), at(n))
    BY <2>1, <2>2 DEF Ranks
  <2> HIDE DEF at
  <2> QED
    BY <1>2, <1>3, <2>1, <2>3, EntryArrives
<1>20. BestOf(best', Collected \cup Shown(cands, N))
  BY <1>1, <1>2, <1>16, <1>17, <1>18, <1>19, CollectKeeps
<1>21. Collected \cup Shown(cands, N) = Entries(Worthy)
  <2>1. ASSUME NEW c \in Collected PROVE c \in Entries(Worthy)
    BY <1>4, <1>5 DEF Collected, Entries, Worthy
  <2>2. ASSUME NEW c \in Shown(cands, N) PROVE c \in Entries(Worthy)
    <3>1. PICK n \in 1 .. N : c = cands[n] /\ cands[n].seg \in visible
      BY DEF Shown
    <3>2. c = Entry(at(n)) /\ at(n) \in visible /\ at(n) \in M
      BY <1>15, <3>1
    <3> HIDE DEF at
    <3>3. at(n) \in Worthy
      BY <1>8, <3>2 DEF Worthy
    <3> QED
      BY <3>2, <3>3 DEF Entries
  <2>3. ASSUME NEW c \in Entries(Worthy) PROVE c \in Collected \cup Shown(cands, N)
    <3>1. PICK i \in Ids : c = Entry(i) /\ i \in visible /\ RawOverlap(i) >= Floor
      BY DEF Entries, Worthy
    <3>2. CASE i \in Taken
      BY <3>1, <3>2 DEF Collected, Entries
    <3>3. CASE i \notin Taken
      <4>1. i \in M
        BY <1>9, <3>1, <3>3
      <4>2. PICK n \in 1 .. N : keep[n] = Rec(i)
        BY <1>12, <1>14, <4>1
      <4>3. at(n) = i
        BY <1>12, <4>1, <4>2
      <4>4. cands[n] = c /\ cands[n].seg \in visible
        BY <1>15, <3>1, <4>3
      <4> QED
        BY <4>4 DEF Shown
    <3> QED
      BY <3>2, <3>3
  <2> QED
    BY <2>1, <2>2, <2>3
<1>22. /\ inputs' = inputs /\ yielded' = yielded /\ limit' = limit
  BY <1>1, EngineStill DEF ask
<1>23. Asked' /\ Full' = Full
  BY <1>1, <1>2, <1>22, AskKept
<1>24. IsField(Held)' /\ (Listing(Held, InOrder))' = Full
  <2> DEFINE map == best'
             held == {map[k] : k \in DOMAIN map}
  <2>1. BestOf(map, Entries(Worthy))
    BY <1>20, <1>21
  <2>2. Held' = held
    BY DEF Held
  <2> HIDE DEF map
  <2>3. IsField(held) /\ Listing(held, InOrder) = Full
    BY <1>2, <1>3, <2>1, AllCollected
  <2> QED
    BY <2>2, <2>3
<1>25. Truncated(Listing(Held, InOrder))' = Truncated(Full)'
  BY <1>22, <1>23, <1>24 DEF Truncated
<1> QED
  BY <1>1, <1>2, <1>4, <1>22, <1>23, <1>24, <1>25 DEF LoopInv

LEMMA SortKeeps ==
  ASSUME EngineInv, LoopInv, SortAndTruncate
  PROVE  LoopInv'
<1>1. /\ pc = "sort" /\ pc' = "done"
      /\ ranked' = Truncated(Sorted(Held, Before))
      /\ UNCHANGED engine /\ UNCHANGED ask /\ UNCHANGED loop
  BY DEF SortAndTruncate, Held
<1>2. /\ Asked /\ pulled \in Nat /\ pulled <= Len(yielded) /\ pending \in {0, 1}
      /\ pending <= pulled
      /\ IsField(Held) /\ Truncated(Listing(Held, InOrder)) = Truncated(Full)
  BY <1>1 DEF LoopInv
<1>3. inputs' = inputs /\ yielded' = yielded /\ limit' = limit
      /\ pulled' = pulled /\ pending' = pending
  BY <1>1, EngineStill DEF ask, loop
<1>4. Asked' /\ Full' = Full
  BY <1>1, <1>2, <1>3, AskKept
<1>5. ranked' = Truncated(Full)
  BY <1>1, <1>2, SortedField
<1>6. ranked' = Truncated(Full)'
  BY <1>3, <1>4, <1>5 DEF Truncated
<1> QED
  BY <1>1, <1>2, <1>3, <1>4, <1>6 DEF LoopInv

(* The invariant of the loop over the engine.                              *)
THEOREM UnionInvariant == Spec => []LoopInv
<1>1. Init => LoopInv
  BY LoopInit
<1>2. /\ EngineInv /\ EngineInv' /\ WalkComplete /\ BestFirst
      /\ LoopInv /\ [Next]_vars
      => LoopInv'
  <2> SUFFICES ASSUME EngineInv, EngineInv', WalkComplete, BestFirst, LoopInv, [Next]_vars
               PROVE  LoopInv'
    OBVIOUS
  <2>1. CASE Build
    BY <2>1, BuildKeeps
  <2>2. CASE AdvanceWalk
    BY <2>2, AdvanceKeeps
  <2>3. CASE PullChunk
    BY <2>3, PullKeeps
  <2>4. CASE Peek
    BY <2>4, PeekKeeps
  <2>5. CASE Recover
    BY <2>5, RecoverKeeps
  <2>6. CASE SortAndTruncate
    BY <2>6, SortKeeps
  <2>7. CASE UNCHANGED vars
    BY <2>7, LoopStill
  <2> QED
    BY <2>1, <2>2, <2>3, <2>4, <2>5, <2>6, <2>7 DEF Next
<1> QED
  BY <1>1, <1>2, EngineInvariant, WalkReturnsAll, StopsAtTheTop, PTL DEF Spec

(* The answer of score_union is the top of the full ranking: the best      *)
(* segment of every key, though the walk is left as soon as no candidate   *)
(* to come can be among the first limit, and though the segments without   *)
(* a score come in only after it.                                          *)
THEOREM EarlyStopIsExact == Spec => []TopOfFullRanking
<1>1. EngineInv /\ LoopInv => TopOfFullRanking
  <2> SUFFICES ASSUME EngineInv, LoopInv, pc = "done"
               PROVE  ranked = Truncated(FullRanking)
    BY DEF TopOfFullRanking
  <2>1. Given /\ Asked /\ ranked = Truncated(Full)
    BY DEF EngineInv, LoopInv
  <2> QED
    BY <2>1, FullIs
<1> QED
  BY <1>1, EngineInvariant, UnionInvariant, PTL

-----------------------------------------------------------------------------
(* RankFusion.                                                             *)

-----------------------------------------------------------------------------
(* The common denominator is a multiple of each K + rank.                  *)

Products(U, f) ==
  f = [T \in SUBSET U |-> IF T = {} THEN 1 ELSE f[T \ {Choice(T)}] * (Krrf + Choice(T))]

(* The recursion has a solution, built up by size.                         *)
LEMMA ProductsExist ==
  ASSUME NEW U \in SUBSET (Nat \ {0}), IsFiniteSet(U)
  PROVE  \E f \in [SUBSET U -> Nat \ {0}] : Products(U, f)
<1> DEFINE Step(f, T) == IF T = {} THEN 1 ELSE f[T \ {Choice(T)}] * (Krrf + Choice(T))
           Upto(n, f) == \A T \in SUBSET U : Cardinality(T) <= n => f[T] = Step(f, T)
           F == [SUBSET U -> Nat \ {0}]
           N == {n \in Nat : \E f \in F : Upto(n, f)}
<1>1. \A T \in SUBSET U : IsFiniteSet(T) /\ Cardinality(T) \in Nat
  BY FS_Subset, FS_CardinalityType
<1>2. \A T \in SUBSET U : T # {} => /\ Choice(T) \in T /\ Krrf + Choice(T) \in Nat \ {0}
                                    /\ T \ {Choice(T)} \in SUBSET U
                                    /\ Cardinality(T \ {Choice(T)}) = Cardinality(T) - 1
  <2> SUFFICES ASSUME NEW T \in SUBSET U, T # {}
               PROVE  /\ Choice(T) \in T /\ Krrf + Choice(T) \in Nat \ {0}
                      /\ T \ {Choice(T)} \in SUBSET U
                      /\ Cardinality(T \ {Choice(T)}) = Cardinality(T) - 1
    OBVIOUS
  <2>1. Choice(T) \in T
    BY ChoiceIn
  <2> HIDE DEF Step, Upto, F, N
  <2>2. Choice(T) \in Nat \ {0} /\ Krrf \in Nat
    BY <2>1, FusionInputs
  <2>3. Cardinality(T \ {Choice(T)}) = Cardinality(T) - 1
    BY <1>1, <2>1, FS_RemoveElement
  <2>4. Krrf + Choice(T) \in Nat \ {0}
    BY <2>2
  <2> QED
    BY <2>1, <2>3, <2>4
<1>3. 0 \in N
  <2>1. [T \in SUBSET U |-> 1] \in F
    OBVIOUS
  <2>2. \A T \in SUBSET U : Cardinality(T) <= 0 => T = {}
    BY <1>1, FS_EmptySet
  <2>3. Upto(0, [T \in SUBSET U |-> 1])
    BY <2>2
  <2> QED
    BY <2>1, <2>3
<1>4. ASSUME NEW n \in Nat, n \in N PROVE n + 1 \in N
  <2>1. PICK f \in F : Upto(n, f)
    BY <1>4
  <2> DEFINE g == [T \in SUBSET U |-> Step(f, T)]
  <2>2. g \in F
    <3>1. ASSUME NEW T \in SUBSET U, T # {}
          PROVE  f[T \ {Choice(T)}] * (Krrf + Choice(T)) \in Nat \ {0}
      <4>1. f[T \ {Choice(T)}] \in Nat \ {0} /\ Krrf + Choice(T) \in Nat \ {0}
        BY <1>2, <3>1
      <4> QED
        BY <4>1
    <3> QED
      BY <3>1
  <2>3. \A T \in SUBSET U : Cardinality(T) <= n => g[T] = f[T]
    BY <2>1
  <2>4. Upto(n + 1, g)
    <3> SUFFICES ASSUME NEW T \in SUBSET U, Cardinality(T) <= n + 1
                 PROVE  g[T] = Step(g, T)
      OBVIOUS
    <3>1. CASE T = {}
      BY <3>1
    <3>2. CASE T # {}
      <4>1. Cardinality(T \ {Choice(T)}) <= n
        BY <1>1, <1>2, <3>2
      <4>2. g[T \ {Choice(T)}] = f[T \ {Choice(T)}]
        BY <1>2, <2>3, <3>2, <4>1
      <4> QED
        BY <3>2, <4>2
    <3> QED
      BY <3>1, <3>2
  <2> HIDE DEF g, Upto
  <2>5. \E h \in F : Upto(n + 1, h)
    BY <2>2, <2>4
  <2> QED
    BY <2>5
<1>5. Cardinality(U) \in N
  <2> HIDE DEF N
  <2> QED
    BY <1>1, <1>3, <1>4, NatSet
<1>6. PICK f \in F : Upto(Cardinality(U), f)
  BY <1>5
<1>7. \A T \in SUBSET U : Cardinality(T) <= Cardinality(U)
  BY FS_Subset
<1>8. f = [T \in SUBSET U |-> f[T]]
  OBVIOUS
<1> QED
  BY <1>6, <1>7, <1>8 DEF Products

LEMMA RanksAre == Positions \in SUBSET (Nat \ {0}) /\ IsFiniteSet(Positions)
<1>1. Cardinality(Keys) \in Nat
  BY FusionInputs, FS_CardinalityType
<1>2. IsFiniteSet(1 .. Cardinality(Keys))
  BY <1>1, FS_Interval
<1>3. 1 .. Cardinality(Keys) \in SUBSET (Nat \ {0})
  BY <1>1
<1> QED
  BY <1>2, <1>3 DEF Positions

LEMMA DenominatorIs ==
  /\ Denominator \in Nat \ {0}
  /\ \A r \in Positions : \E q \in Nat \ {0} : Denominator = (Krrf + r) * q
<1> DEFINE f == CHOOSE f : Products(Positions, f)
<1>1. PICK g \in [SUBSET Positions -> Nat \ {0}] : Products(Positions, g)
  BY RanksAre, ProductsExist
<1>2. Products(Positions, f)
  BY <1>1
<1>3. Denominator = f[Positions]
  BY DEF Denominator, FoldSet, MapThenFoldSet, Products, Choice
<1> HIDE DEF f
<1>4. /\ f[{}] = 1
      /\ \A T \in SUBSET Positions : T # {} => f[T] = f[T \ {Choice(T)}] * (Krrf + Choice(T))
  BY <1>2 DEF Products
<1> DEFINE Q == {T \in SUBSET Positions :
                   /\ f[T] \in Nat \ {0}
                   /\ \A r \in T : \E q \in Nat \ {0} : f[T] = (Krrf + r) * q}
<1>5. ASSUME NEW T \in SUBSET Positions, \A x \in T : T \ {x} \in Q
      PROVE  T \in Q
  <2>1. CASE T = {}
    BY <1>4, <2>1
  <2>2. CASE T # {}
    <3> DEFINE c == Choice(T)
               p == f[T \ {c}]
    <3>1. c \in T /\ Krrf + c \in Nat \ {0} /\ Krrf \in Nat
      <4>1. c \in T
        BY <2>2, ChoiceIn
      <4>2. c \in Nat \ {0} /\ Krrf \in Nat
        BY <4>1, RanksAre, FusionInputs
      <4> QED
        BY <4>1, <4>2
    <3>2. T \ {c} \in Q /\ p \in Nat \ {0}
      BY <1>5, <3>1
    <3>3. f[T] = p * (Krrf + c)
      BY <1>4, <2>2
    <3>4. \A r \in T \ {c} : \E q \in Nat \ {0} : p = (Krrf + r) * q
      BY <3>2
    <3> HIDE DEF c, p
    <3>5. f[T] \in Nat \ {0}
      BY <3>1, <3>2, <3>3
    <3>6. ASSUME NEW r \in T PROVE \E q \in Nat \ {0} : f[T] = (Krrf + r) * q
      <4>1. CASE r = c
        <5>1. f[T] = (Krrf + r) * p
          BY <3>1, <3>2, <3>3, <4>1
        <5> QED
          BY <3>2, <5>1
      <4>2. CASE r # c
        <5>1. PICK q \in Nat \ {0} : p = (Krrf + r) * q
          BY <3>4, <4>2
        <5>2. Krrf + r \in Nat
          BY <3>1, RanksAre
        <5>3. f[T] = (Krrf + r) * (q * (Krrf + c))
          <6> DEFINE a == Krrf + r
                     b == Krrf + c
          <6>1. a \in Nat /\ b \in Nat /\ f[T] = (a * q) * b
            BY <3>1, <3>3, <5>1, <5>2
          <6> HIDE DEF a, b
          <6>2. f[T] = a * (q * b)
            BY <6>1
          <6> QED
            BY <6>2 DEF a, b
        <5>4. q * (Krrf + c) \in Nat \ {0}
          BY <3>1
        <5> QED
          BY <5>3, <5>4
      <4> QED
        BY <4>1, <4>2
    <3> QED
      BY <3>5, <3>6
  <2> QED
    BY <2>1, <2>2
<1> HIDE DEF Q
<1>6. \A T \in SUBSET Positions : T \in Q
  BY <1>5, RanksAre, SubsetInduction
<1>7. Positions \in Q
  BY <1>6
<1> QED
  BY <1>3, <1>7 DEF Q

LEMMA Quotient ==
  ASSUME NEW a \in Nat \ {0}, NEW q \in Nat
  PROVE  (a * q) \div a = q
OBVIOUS

(* A better rank earns more.                                               *)
Share(w, rank) == w * (Denominator \div (Krrf + rank))

LEMMA ShareFalls ==
  ASSUME NEW w \in Nat \ {0}, NEW r \in Positions
  PROVE  /\ Share(w, r) \in Nat \ {0}
         /\ \A s \in Positions : r < s => Share(w, r) > Share(w, s)
<1>1. r \in Nat \ {0} /\ Krrf \in Nat
  BY RanksAre, FusionInputs
<1>2. PICK q \in Nat \ {0} : Denominator = (Krrf + r) * q
  BY DenominatorIs
<1>3. Denominator \div (Krrf + r) = q
  BY <1>1, <1>2, Quotient
<1>4. Share(w, r) = w * q /\ w * q \in Nat \ {0}
  BY <1>3 DEF Share
<1>5. ASSUME NEW s \in Positions, r < s PROVE Share(w, r) > Share(w, s)
  <2>1. s \in Nat \ {0}
    BY RanksAre
  <2>2. PICK p \in Nat \ {0} : Denominator = (Krrf + s) * p
    BY DenominatorIs
  <2>3. Denominator \div (Krrf + s) = p
    BY <1>1, <2>1, <2>2, Quotient
  <2>4. p < q
    <3> SUFFICES ASSUME p >= q PROVE FALSE
      OBVIOUS
    <3> DEFINE a == Krrf + r
               b == Krrf + s
    <3>1. a \in Nat /\ b \in Nat /\ a < b /\ a * q = b * p
      BY <1>1, <1>2, <1>5, <2>1, <2>2
    <3> HIDE DEF a, b
    <3>2. a * q <= a * p
      BY <3>1
    <3>3. a * p < b * p
      BY <3>1
    <3>4. a * q \in Int /\ a * p \in Int /\ b * p \in Int
      BY <3>1
    <3> QED
      BY <3>1, <3>2, <3>3, <3>4
  <2>5. w * p < w * q
    BY <2>4
  <2> QED
    BY <1>4, <2>3, <2>5 DEF Share
<1> QED
  BY <1>4, <1>5

-----------------------------------------------------------------------------
(* The rankings, and what the loop has come past of them.                  *)

LEMMA RankingIs ==
  ASSUME NEW r \in Rankings
  PROVE  /\ Len(r) \in Nat /\ DOMAIN r = 1 .. Len(r) /\ DOMAIN r \in SUBSET Positions
         /\ \A n \in DOMAIN r : /\ r[n].key \in Keys /\ r[n].seg \in SegsOf[r[n].key]
                                /\ r[n].score \in Scores
         /\ \A m, n \in DOMAIN r : r[m].key = r[n].key => m = n
<1> DEFINE C == UNION {Candidates(key) : key \in Keys}
<1>1. PICK o \in UNION {[1..n -> Keys] : n \in 0..Cardinality(Keys)} :
        /\ \A m, n \in DOMAIN o : o[m] = o[n] => m = n
        /\ r \in [DOMAIN o -> C] /\ \A n \in DOMAIN o : r[n].key = o[n]
  BY DEF Rankings
<1>2. PICK n \in 0 .. Cardinality(Keys) : o \in [1 .. n -> Keys]
  BY <1>1
<1>3. Cardinality(Keys) \in Nat
  BY FusionInputs, FS_CardinalityType
<1>4. \A c \in C : c.key \in Keys /\ c.seg \in SegsOf[c.key] /\ c.score \in Scores
  BY DEF Candidates
<1> HIDE DEF C
<1>5. n \in Nat /\ r \in [1 .. n -> C]
  BY <1>1, <1>2, <1>3
<1>6. r \in Seq(C) /\ Len(r) = n
  BY <1>5
<1>7. 1 .. n \in SUBSET Positions
  BY <1>2, <1>3 DEF Positions
<1> QED
  BY <1>1, <1>2, <1>4, <1>5, <1>6, <1>7

PosOf(vs, v, key) == CHOOSE n \in DOMAIN vs[v] : vs[v][n].key = key

Come(here, vs, v) ==
  IF v < here.view THEN Len(vs[v]) ELSE IF v = here.view THEN here.rank - 1 ELSE 0

Seen(vs, v, k) == {vs[v][n].key : n \in {i \in DOMAIN vs[v] : i <= k}}

Earned(vs, ws, v, k, key) ==
  IF key \in Seen(vs, v, k) THEN Share(ws[v], PosOf(vs, v, key)) ELSE 0

IsSlot(slot, key) ==
  /\ slot.cand.key = key /\ slot.cand.seg \in SegsOf[key] /\ slot.cand.score \in Scores

Gained(a, here, vs, ws) ==
  /\ DOMAIN a = Seen(vs, 1, Come(here, vs, 1)) \cup Seen(vs, 2, Come(here, vs, 2))
  /\ \A key \in DOMAIN a :
       /\ IsSlot(a[key], key)
       /\ a[key].fused = Earned(vs, ws, 1, Come(here, vs, 1), key)
                           + Earned(vs, ws, 2, Come(here, vs, 2), key)

(* A list of the slots, no slot ahead of one it outranks.                  *)
Ordered(list, a) ==
  /\ \A n \in DOMAIN list : \E key \in DOMAIN a : list[n] = a[key]
  /\ \A m, n \in DOMAIN list : Outranks(list[m], list[n]) => m < n

FusionInv ==
  /\ views \in [Views -> Rankings] /\ viewWeights \in WeightPairs
  /\ cursor \in [view : 1 .. 3, rank : Nat \ {0}]
  /\ cursor.view \in Views => cursor.rank <= Len(views[cursor.view]) + 1
  /\ Gained(acc, cursor, views, viewWeights)
  /\ answer # <<>> => cursor.view \notin Views /\ Ordered(answer, acc)

LEMMA PosIs ==
  ASSUME NEW vs \in [Views -> Rankings], NEW v \in Views, NEW n \in DOMAIN vs[v]
  PROVE  PosOf(vs, v, vs[v][n].key) = n
<1>1. vs[v] \in Rankings
  BY DEF Views
<1> DEFINE p == PosOf(vs, v, vs[v][n].key)
<1>2. p \in DOMAIN vs[v] /\ vs[v][p].key = vs[v][n].key
  BY DEF PosOf
<1> HIDE DEF p
<1>3. p = n
  BY <1>1, <1>2, RankingIs
<1> QED
  BY <1>3 DEF p

LEMMA EarnedIs ==
  ASSUME NEW vs \in [Views -> Rankings], NEW ws \in WeightPairs, NEW v \in Views, NEW k \in Nat,
         NEW key
  PROVE  /\ Earned(vs, ws, v, k, key) \in Nat
         /\ key \in Seen(vs, v, k) => Earned(vs, ws, v, k, key) # 0
<1>1. vs[v] \in Rankings /\ ws[v] \in Nat \ {0}
  BY FusionInputs DEF Views
<1>2. CASE key \in Seen(vs, v, k)
  <2>1. PICK n \in DOMAIN vs[v] : vs[v][n].key = key
    BY <1>2 DEF Seen
  <2>2. PosOf(vs, v, key) = n /\ n \in Positions
    BY <1>1, <2>1, PosIs, RankingIs
  <2> QED
    BY <1>1, <1>2, <2>2, ShareFalls DEF Earned
<1>3. CASE key \notin Seen(vs, v, k)
  BY <1>3 DEF Earned
<1> QED
  BY <1>2, <1>3

LEMMA FusionBegins == FusionInit => FusionInv
<1> SUFFICES ASSUME FusionInit PROVE FusionInv
  OBVIOUS
<1>1. /\ views \in [Views -> Rankings] /\ viewWeights \in WeightPairs
      /\ cursor = [view |-> 1, rank |-> 1] /\ acc = <<>> /\ answer = <<>>
  BY DEF FusionInit
<1>2. views[1] \in Rankings /\ views[2] \in Rankings
  BY <1>1 DEF Views
<1>3. /\ DOMAIN views[1] = 1 .. Len(views[1]) /\ DOMAIN views[2] = 1 .. Len(views[2])
      /\ Len(views[1]) \in Nat /\ Len(views[2]) \in Nat
  BY <1>2, RankingIs
<1>4. Come(cursor, views, 1) = 0 /\ Come(cursor, views, 2) = 0
  BY <1>1 DEF Come
<1>5. Seen(views, 1, 0) = {} /\ Seen(views, 2, 0) = {}
  BY <1>3 DEF Seen
<1>6. DOMAIN acc = {}
  BY <1>1
<1>7. Gained(acc, cursor, views, viewWeights)
  BY <1>4, <1>5, <1>6 DEF Gained
<1> QED
  BY <1>1, <1>3, <1>7 DEF FusionInv, Views

(* One rank further, one key more.                                         *)
LEMMA SeenGrows ==
  ASSUME NEW vs \in [Views -> Rankings], NEW v \in Views, NEW n \in DOMAIN vs[v]
  PROVE  /\ Seen(vs, v, n) = Seen(vs, v, n - 1) \cup {vs[v][n].key}
         /\ vs[v][n].key \notin Seen(vs, v, n - 1)
<1>1. vs[v] \in Rankings
  BY DEF Views
<1>2. n \in Nat /\ \A i \in DOMAIN vs[v] : i \in Nat
  BY <1>1, RankingIs
<1>3. \A i \in DOMAIN vs[v] : i <= n <=> i <= n - 1 \/ i = n
  BY <1>2
<1>4. \A i \in DOMAIN vs[v] : i <= n - 1 => i # n
  BY <1>2
<1>5. \A m, i \in DOMAIN vs[v] : vs[v][m].key = vs[v][i].key => m = i
  BY <1>1, RankingIs
<1> QED
  BY <1>3, <1>4, <1>5 DEF Seen

LEMMA NextViewKeeps ==
  ASSUME FusionInv, NextView
  PROVE  FusionInv'
<1>1. /\ cursor.view \in Views /\ cursor.rank > Len(views[cursor.view])
      /\ cursor' = [view |-> cursor.view + 1, rank |-> 1]
      /\ views' = views /\ viewWeights' = viewWeights /\ answer' = answer /\ acc' = acc
  BY DEF NextView
<1>2. /\ views \in [Views -> Rankings] /\ cursor \in [view : 1 .. 3, rank : Nat \ {0}]
      /\ cursor.rank <= Len(views[cursor.view]) + 1 /\ answer = <<>>
  BY <1>1 DEF FusionInv
<1>3. /\ Len(views[1]) \in Nat /\ Len(views[2]) \in Nat
  BY <1>2, RankingIs DEF Views
<1>4. cursor.rank \in Nat /\ cursor.rank - 1 = Len(views[cursor.view])
  BY <1>1, <1>2, <1>3 DEF Views
<1>5. Come(cursor', views, 1) = Come(cursor, views, 1) /\ Come(cursor', views, 2) = Come(cursor, views, 2)
  <2>1. CASE cursor.view = 1
    BY <1>1, <1>4, <2>1 DEF Come
  <2>2. CASE cursor.view = 2
    BY <1>1, <1>4, <2>2 DEF Come
  <2> QED
    BY <1>1, <2>1, <2>2 DEF Views
<1>6. Gained(acc, cursor', views, viewWeights)
  BY <1>5 DEF FusionInv, Gained
<1>7. /\ cursor' \in [view : 1 .. 3, rank : Nat \ {0}]
      /\ cursor'.view \in Views => cursor'.rank <= Len(views[cursor'.view]) + 1
  BY <1>1, <1>3 DEF Views
<1> QED
  BY <1>1, <1>2, <1>6, <1>7 DEF FusionInv

LEMMA AccumulateKeeps ==
  ASSUME FusionInv, Accumulate
  PROVE  FusionInv'
<1> DEFINE v == cursor.view
           r == cursor.rank
           c == views[v][r]
           k == c.key
           earned == Contribution(v, r)
           Old(u, key) == Earned(views, viewWeights, u, Come(cursor, views, u), key)
           New(u, key) == Earned(views, viewWeights, u, Come(cursor', views, u), key)
<1>1. /\ v \in Views /\ r <= Len(views[v])
      /\ cursor' = [cursor EXCEPT !.rank = @ + 1]
      /\ views' = views /\ viewWeights' = viewWeights /\ answer' = answer
  BY DEF Accumulate
<1>2. acc' = [key \in DOMAIN acc \cup {k} |->
                IF key # k THEN acc[key]
                ELSE IF key \in DOMAIN acc THEN Merged(acc[key], c, earned, r)
                ELSE [cand |-> c, fused |-> earned, rank |-> r]]
  BY DEF Accumulate
<1>3. /\ views \in [Views -> Rankings] /\ viewWeights \in WeightPairs
      /\ cursor \in [view : 1 .. 3, rank : Nat \ {0}] /\ answer = <<>>
      /\ Gained(acc, cursor, views, viewWeights)
  BY <1>1 DEF FusionInv
<1>4. /\ views[v] \in Rankings /\ r \in DOMAIN views[v] /\ r \in Nat \ {0}
      /\ Len(views[v]) \in Nat
  <2>1. views[v] \in Rankings
    BY <1>1, <1>3
  <2>2. Len(views[v]) \in Nat /\ DOMAIN views[v] = 1 .. Len(views[v])
    BY <2>1, RankingIs
  <2>3. r \in Nat \ {0}
    BY <1>3
  <2> QED
    BY <1>1, <2>1, <2>2, <2>3
<1>5. IsSlot([cand |-> c, fused |-> earned, rank |-> r], k)
  BY <1>4, RankingIs DEF IsSlot
<1>6. /\ cursor'.view = v /\ cursor'.rank = r + 1
      /\ cursor' \in [view : 1 .. 3, rank : Nat \ {0}]
  BY <1>1, <1>3
<1>7. /\ Come(cursor, views, v) = r - 1 /\ Come(cursor', views, v) = r
      /\ \A u \in Views \ {v} : Come(cursor', views, u) = Come(cursor, views, u)
  <2>1. \A u \in Views : u \in Int
    BY DEF Views
  <2> QED
    BY <1>1, <1>4, <1>6, <2>1 DEF Come
<1>8. /\ Seen(views, v, r) = Seen(views, v, r - 1) \cup {k} /\ k \notin Seen(views, v, r - 1)
      /\ PosOf(views, v, k) = r
  BY <1>1, <1>3, <1>4, SeenGrows, PosIs
<1>9. earned = Share(viewWeights[v], r)
  BY DEF Contribution, Share
<1> HIDE DEF c, k, earned
<1>10. /\ New(v, k) = earned /\ Old(v, k) = 0
       /\ \A key : key # k => New(v, key) = Old(v, key)
  BY <1>7, <1>8, <1>9 DEF Earned
<1>11. \A u \in Views \ {v} : \A key : New(u, key) = Old(u, key)
  BY <1>7
<1>12. DOMAIN acc' = Seen(views, 1, Come(cursor', views, 1)) \cup Seen(views, 2, Come(cursor', views, 2))
  <2>1. DOMAIN acc = Seen(views, 1, Come(cursor, views, 1)) \cup Seen(views, 2, Come(cursor, views, 2))
    BY <1>3 DEF Gained
  <2>2. DOMAIN acc' = DOMAIN acc \cup {k}
    BY <1>2
  <2>3. CASE v = 1
    BY <1>7, <1>8, <2>1, <2>2, <2>3 DEF Views
  <2>4. CASE v = 2
    BY <1>7, <1>8, <2>1, <2>2, <2>4 DEF Views
  <2> QED
    BY <1>1, <2>3, <2>4 DEF Views
<1>13. ASSUME NEW key \in DOMAIN acc'
       PROVE  IsSlot(acc'[key], key) /\ acc'[key].fused = New(1, key) + New(2, key)
  <2>1. \A u \in Views : Old(u, key) \in Nat
    <3>1. Come(cursor, views, 1) \in Nat /\ Come(cursor, views, 2) \in Nat
      <4>1. Len(views[1]) \in Nat /\ Len(views[2]) \in Nat
        BY <1>3, RankingIs DEF Views
      <4>2. cursor.view \in 1 .. 3 /\ cursor.rank \in Nat \ {0}
        BY <1>3
      <4> QED
        BY <4>1, <4>2 DEF Come
    <3> QED
      BY <1>3, <3>1, EarnedIs DEF Views
  <2>2. CASE key # k
    <3>1. key \in DOMAIN acc /\ acc'[key] = acc[key]
      BY <1>2, <2>2
    <3>2. IsSlot(acc[key], key) /\ acc[key].fused = Old(1, key) + Old(2, key)
      BY <1>3, <3>1 DEF Gained
    <3>3. New(1, key) = Old(1, key) /\ New(2, key) = Old(2, key)
      BY <1>1, <1>10, <1>11, <2>2 DEF Views
    <3> QED
      BY <3>1, <3>2, <3>3
  <2>3. CASE key = k /\ k \in DOMAIN acc
    <3>1. acc'[k] = Merged(acc[k], c, earned, r)
      BY <1>2, <2>3
    <3>2. IsSlot(acc[k], k) /\ acc[k].fused = Old(1, k) + Old(2, k)
      BY <1>3, <2>3 DEF Gained
    <3>3. IsSlot(acc'[k], k)
      BY <1>5, <3>1, <3>2 DEF Merged, IsSlot
    <3>4. acc'[k].fused = acc[k].fused + earned
      BY <3>1 DEF Merged
    <3>5. earned \in Nat
      BY <1>4, <1>9, <1>3, <1>1, ShareFalls, RankingIs, FusionInputs DEF Views
    <3> HIDE DEF New, Old
    <3>6. CASE v = 1
      <4>1. New(1, k) = earned /\ Old(1, k) = 0 /\ New(2, k) = Old(2, k)
        BY <1>10, <1>11, <3>6 DEF Views
      <4> QED
        BY <2>1, <2>3, <3>2, <3>3, <3>4, <3>5, <4>1 DEF Views
    <3>7. CASE v = 2
      <4>1. New(2, k) = earned /\ Old(2, k) = 0 /\ New(1, k) = Old(1, k)
        BY <1>10, <1>11, <3>7 DEF Views
      <4> QED
        BY <2>1, <2>3, <3>2, <3>3, <3>4, <3>5, <4>1 DEF Views
    <3> QED
      BY <1>1, <3>6, <3>7 DEF Views
  <2>4. CASE key = k /\ k \notin DOMAIN acc
    <3>1. acc'[k] = [cand |-> c, fused |-> earned, rank |-> r]
      BY <1>2, <2>4
    <3>2. IsSlot(acc'[k], k) /\ acc'[k].fused = earned
      BY <1>5, <3>1
    <3>3. \A u \in Views : Old(u, k) = 0
      BY <1>3, <2>4 DEF Gained, Earned, Views
    <3>4. earned \in Nat
      BY <1>4, <1>9, <1>3, <1>1, ShareFalls, RankingIs, FusionInputs DEF Views
    <3> HIDE DEF New, Old
    <3>5. CASE v = 1
      <4>1. New(1, k) = earned /\ New(2, k) = 0
        BY <1>10, <1>11, <3>3, <3>5 DEF Views
      <4> QED
        BY <2>4, <3>2, <3>4, <4>1
    <3>6. CASE v = 2
      <4>1. New(2, k) = earned /\ New(1, k) = 0
        BY <1>10, <1>11, <3>3, <3>6 DEF Views
      <4> QED
        BY <2>4, <3>2, <3>4, <4>1
    <3> QED
      BY <1>1, <3>5, <3>6 DEF Views
  <2> QED
    BY <2>2, <2>3, <2>4
<1>14. Gained(acc', cursor', views, viewWeights)
  BY <1>12, <1>13 DEF Gained
<1>15. cursor'.rank <= Len(views[cursor'.view]) + 1
  BY <1>1, <1>4, <1>6
<1> QED
  BY <1>1, <1>3, <1>6, <1>14, <1>15 DEF FusionInv

(* Slots of different keys have different segments, so sorting them never  *)
(* ties.                                                                   *)
LEMMA SlotsOrdered ==
  ASSUME NEW a, DOMAIN a \in SUBSET Keys,
         \A key \in DOMAIN a : IsSlot(a[key], key) /\ a[key].fused \in Nat,
         NEW S, S = {a[key] : key \in DOMAIN a},
         NEW R, R = {x \in S \X S : Outranks(x[1], x[2])}
  PROVE  /\ IsFiniteSet(S) /\ StrictOrder(S, R)
         /\ \A x, y \in S : <<x, y>> \in R <=> Outranks(x, y)
<1>1. IsFiniteSet(S)
  <2> DEFINE f == [key \in DOMAIN a |-> a[key]]
  <2>1. IsFiniteSet(DOMAIN a)
    BY FusionInputs, FS_Subset
  <2>2. f \in Surjection(DOMAIN a, S)
    BY DEF Surjection
  <2> QED
    BY <2>1, <2>2, FS_Surjection
<1>2. \A x, y \in S : <<x, y>> \in R <=> Outranks(x, y)
  OBVIOUS
<1>3. \A x \in S : /\ x.fused \in Nat /\ x.cand.score \in Nat /\ x.cand.seg \in Int
                   /\ x.cand.key \in Keys /\ x.cand.seg \in SegsOf[x.cand.key]
                   /\ x = a[x.cand.key]
  <2> TAKE x \in S
  <2>1. PICK key \in DOMAIN a : x = a[key]
    OBVIOUS
  <2>2. key \in Keys /\ IsSlot(x, key) /\ x.fused \in Nat
    BY <2>1
  <2> QED
    BY <2>1, <2>2, FusionInputs DEF IsSlot
<1>4. \A x, y \in S : x.cand.seg = y.cand.seg => x = y
  BY <1>3, FusionInputs
<1>5. \A x \in S : ~Outranks(x, x)
  BY <1>3 DEF Outranks
<1>6. \A x, y \in S : x = y \/ Outranks(x, y) \/ Outranks(y, x)
  <2> TAKE x, y \in S
  <2>1. /\ x.fused \in Nat /\ x.cand.score \in Nat /\ x.cand.seg \in Int
        /\ y.fused \in Nat /\ y.cand.score \in Nat /\ y.cand.seg \in Int
    BY <1>3
  <2>2. x.cand.seg = y.cand.seg => x = y
    BY <1>4
  <2> QED
    BY <2>1, <2>2 DEF Outranks
<1>7. \A x, y, z \in S : Outranks(x, y) /\ Outranks(y, z) => Outranks(x, z)
  BY <1>3 DEF Outranks
<1>8. StrictOrder(S, R)
  BY <1>2, <1>5, <1>6, <1>7 DEF StrictOrder
<1> QED
  BY <1>1, <1>2, <1>8

(* What the slots have gained, once typed.                                 *)
LEMMA SlotsAre ==
  ASSUME FusionInv
  PROVE  /\ DOMAIN acc \in SUBSET Keys
         /\ \A key \in DOMAIN acc : IsSlot(acc[key], key) /\ acc[key].fused \in Nat
         /\ Come(cursor, views, 1) \in Nat /\ Come(cursor, views, 2) \in Nat
<1>1. /\ views \in [Views -> Rankings] /\ viewWeights \in WeightPairs
      /\ cursor \in [view : 1 .. 3, rank : Nat \ {0}] /\ Gained(acc, cursor, views, viewWeights)
  BY DEF FusionInv
<1>2. views[1] \in Rankings /\ views[2] \in Rankings
  BY <1>1 DEF Views
<1>3. Come(cursor, views, 1) \in Nat /\ Come(cursor, views, 2) \in Nat
  <2>1. Len(views[1]) \in Nat /\ Len(views[2]) \in Nat
    BY <1>2, RankingIs
  <2>2. cursor.view \in 1 .. 3 /\ cursor.rank \in Nat \ {0}
    BY <1>1
  <2> QED
    BY <2>1, <2>2 DEF Come
<1>4. \A k : Seen(views, 1, k) \in SUBSET Keys /\ Seen(views, 2, k) \in SUBSET Keys
  BY <1>2, RankingIs DEF Seen
<1>5. DOMAIN acc \in SUBSET Keys
  BY <1>1, <1>4 DEF Gained
<1>6. ASSUME NEW key \in DOMAIN acc
      PROVE  IsSlot(acc[key], key) /\ acc[key].fused \in Nat
  <2>1. /\ Earned(views, viewWeights, 1, Come(cursor, views, 1), key) \in Nat
        /\ Earned(views, viewWeights, 2, Come(cursor, views, 2), key) \in Nat
    BY <1>1, <1>3, EarnedIs DEF Views
  <2> QED
    BY <1>1, <2>1 DEF Gained
<1> QED
  BY <1>3, <1>5, <1>6

LEMMA FusionSortKeeps ==
  ASSUME FusionInv, Sort
  PROVE  FusionInv'
<1> DEFINE S == {acc[key] : key \in DOMAIN acc}
           R == {x \in S \X S : Outranks(x[1], x[2])}
           Preceding(s) == {t \in S : Outranks(t, s)}
<1>1. /\ cursor.view \notin Views
      /\ answer' = [n \in 1 .. Cardinality(S) |->
                      CHOOSE s \in S : Cardinality(Preceding(s)) = n - 1]
      /\ views' = views /\ viewWeights' = viewWeights /\ cursor' = cursor /\ acc' = acc
  BY DEF Sort
<1>2. /\ IsFiniteSet(S) /\ StrictOrder(S, R)
      /\ \A x, y \in S : <<x, y>> \in R <=> Outranks(x, y)
  BY SlotsAre, SlotsOrdered
<1> HIDE DEF R
<1>3. \A s \in S : Preceding(s) = Ahead(S, R, s)
  BY <1>2 DEF Ahead
<1>4. \A s \in S : Cardinality(Preceding(s)) = Place(S, R, s)
  BY <1>3 DEF Place
<1>5. ASSUME NEW n \in DOMAIN answer'
      PROVE  answer'[n] \in S /\ Place(S, R, answer'[n]) = n - 1
  <2> HIDE DEF S, Preceding
  <2>1. n \in 1 .. Cardinality(S)
    BY <1>1
  <2>2. \E s \in S : Cardinality(Preceding(s)) = n - 1
    BY <1>2, <1>4, <2>1, PlacesTaken
  <2>3. answer'[n] = CHOOSE s \in S : Cardinality(Preceding(s)) = n - 1
    BY <1>1, <2>1
  <2>4. answer'[n] \in S /\ Cardinality(Preceding(answer'[n])) = n - 1
    BY <2>2, <2>3
  <2> QED
    BY <1>4, <2>4
<1>6. ASSUME NEW m \in DOMAIN answer', NEW n \in DOMAIN answer',
             Outranks(answer'[m], answer'[n])
      PROVE  m < n
  <2>1. /\ answer'[m] \in S /\ answer'[n] \in S
        /\ Place(S, R, answer'[m]) = m - 1 /\ Place(S, R, answer'[n]) = n - 1
    BY <1>5
  <2> HIDE DEF S
  <2>2. <<answer'[m], answer'[n]>> \in R
    BY <1>2, <1>6, <2>1
  <2>3. m - 1 < n - 1
    BY <1>2, <2>1, <2>2, PlaceMonotone
  <2>4. m \in Int /\ n \in Int
    <3>1. Cardinality(S) \in Nat
      BY <1>2, FS_CardinalityType
    <3> QED
      BY <1>1, <3>1
  <2> QED
    BY <2>3, <2>4
<1>7. Ordered(answer', acc)
  BY <1>5, <1>6 DEF Ordered
<1> QED
  BY <1>1, <1>7 DEF FusionInv

(* The inductive invariant: each key the loop has come past has a slot,    *)
(* with what the ranks it has so far earn it, and the answer is sorted.    *)
THEOREM FusionInvariant == FusionSpec => []FusionInv
<1>1. FusionInv /\ [FusionNext]_fusionVars => FusionInv'
  <2> SUFFICES ASSUME FusionInv, [FusionNext]_fusionVars PROVE FusionInv'
    OBVIOUS
  <2>1. CASE UNCHANGED fusionVars
    BY <2>1 DEF fusionVars, FusionInv
  <2> QED
    BY <2>1, AccumulateKeeps, NextViewKeeps, FusionSortKeeps DEF FusionNext
<1> QED
  BY <1>1, FusionBegins, PTL DEF FusionSpec

-----------------------------------------------------------------------------
(* Agreement.                                                              *)

LEMMA RankIs ==
  ASSUME FusionInv, cursor.view \notin Views, NEW v \in Views, NEW key
  PROVE  /\ Come(cursor, views, v) = Len(views[v])
         /\ Ranked(key, v) <=> key \in Seen(views, v, Len(views[v]))
         /\ Ranked(key, v) => /\ RankOf(key, v) \in Positions
                              /\ PosOf(views, v, key) = RankOf(key, v)
<1>1. /\ views \in [Views -> Rankings] /\ cursor \in [view : 1 .. 3, rank : Nat \ {0}]
  BY DEF FusionInv
<1>2. views[v] \in Rankings
  BY <1>1
<1>3. /\ DOMAIN views[v] = 1 .. Len(views[v]) /\ Len(views[v]) \in Nat
      /\ DOMAIN views[v] \in SUBSET Positions
  BY <1>2, RankingIs
<1>4. cursor.view = 3
  BY <1>1 DEF Views
<1>5. Come(cursor, views, v) = Len(views[v])
  BY <1>4 DEF Come, Views
<1>6. Seen(views, v, Len(views[v])) = {views[v][n].key : n \in DOMAIN views[v]}
  BY <1>3 DEF Seen
<1>7. CASE \E n \in DOMAIN views[v] : views[v][n].key = key
  <2>1. RankOf(key, v) = PosOf(views, v, key)
    BY <1>7 DEF RankOf, PosOf
  <2>2. PosOf(views, v, key) \in DOMAIN views[v]
    BY <1>7 DEF PosOf
  <2>3. RankOf(key, v) \in Positions /\ RankOf(key, v) > 0
    BY <1>3, <2>1, <2>2, RanksAre
  <2> QED
    BY <1>5, <1>6, <1>7, <2>1, <2>3 DEF Ranked
<1>8. CASE ~ \E n \in DOMAIN views[v] : views[v][n].key = key
  <2>1. RankOf(key, v) = 0
    BY <1>8 DEF RankOf
  <2> QED
    BY <1>5, <1>6, <1>8, <2>1 DEF Ranked
<1> QED
  BY <1>7, <1>8

LEMMA AgreementWins ==
  FusionInv => Dominance
<1> SUFFICES ASSUME FusionInv, NEW m \in DOMAIN answer, NEW n \in DOMAIN answer,
                    LET a == answer[m].cand.key
                        b == answer[n].cand.key
                    IN \A v \in Views :
                         Ranked(b, v) => Ranked(a, v) /\ RankOf(a, v) < RankOf(b, v)
             PROVE  m < n
  BY DEF Dominance
<1> DEFINE a == answer[m].cand.key
           b == answer[n].cand.key
           Filled(v) == Len(views[v])
           E(v, key) == Earned(views, viewWeights, v, Filled(v), key)
<1>1. cursor.view \notin Views /\ Ordered(answer, acc)
  <2>1. answer # <<>>
    OBVIOUS
  <2> QED
    BY <2>1 DEF FusionInv
<1>2. \A i \in DOMAIN answer : /\ answer[i].cand.key \in DOMAIN acc
                               /\ answer[i] = acc[answer[i].cand.key]
  BY <1>1, SlotsAre DEF Ordered, IsSlot
<1>3. a \in DOMAIN acc /\ b \in DOMAIN acc /\ answer[m] = acc[a] /\ answer[n] = acc[b]
  BY <1>2
<1>4. Come(cursor, views, 1) = Filled(1) /\ Come(cursor, views, 2) = Filled(2)
  BY <1>1, RankIs DEF Views
<1>5. /\ acc[a].fused = E(1, a) + E(2, a)
      /\ acc[b].fused = E(1, b) + E(2, b)
      /\ b \in Seen(views, 1, Filled(1)) \/ b \in Seen(views, 2, Filled(2))
  BY <1>3, <1>4 DEF FusionInv, Gained
<1>6. ASSUME NEW v \in Views
      PROVE  /\ E(v, a) \in Nat /\ E(v, b) \in Nat
             /\ b \in Seen(views, v, Filled(v)) => E(v, a) > E(v, b)
             /\ E(v, a) >= E(v, b)
  <2>1. /\ views \in [Views -> Rankings] /\ viewWeights \in WeightPairs
        /\ viewWeights[v] \in Nat \ {0} /\ Filled(v) \in Nat
    <3>1. views \in [Views -> Rankings] /\ viewWeights \in WeightPairs
      BY DEF FusionInv
    <3>2. views[v] \in Rankings
      BY <3>1
    <3> QED
      BY <3>1, <3>2, FusionInputs, RankingIs DEF Views
  <2>2. E(v, a) \in Nat /\ E(v, b) \in Nat
    BY <2>1, EarnedIs
  <2>3. CASE b \in Seen(views, v, Filled(v))
    <3>1. Ranked(b, v) /\ Ranked(a, v) /\ RankOf(a, v) < RankOf(b, v)
      BY <1>1, <2>3, RankIs
    <3>2. /\ RankOf(a, v) \in Positions /\ RankOf(b, v) \in Positions
          /\ PosOf(views, v, a) = RankOf(a, v) /\ PosOf(views, v, b) = RankOf(b, v)
          /\ a \in Seen(views, v, Filled(v))
      BY <1>1, <3>1, RankIs
    <3>3. /\ E(v, a) = Share(viewWeights[v], RankOf(a, v))
          /\ E(v, b) = Share(viewWeights[v], RankOf(b, v))
      BY <2>3, <3>2 DEF Earned
    <3>4. E(v, a) > E(v, b)
      BY <2>1, <3>1, <3>2, <3>3, ShareFalls
    <3> QED
      BY <2>2, <3>4
  <2>4. CASE b \notin Seen(views, v, Filled(v))
    <3>1. E(v, b) = 0
      BY <2>4 DEF Earned
    <3> QED
      BY <2>2, <2>4, <3>1
  <2> QED
    BY <2>3, <2>4, <2>2
<1> HIDE DEF E, Filled
<1>7. acc[a].fused > acc[b].fused
  BY <1>5, <1>6 DEF Views
<1>8. Outranks(answer[m], answer[n])
  BY <1>3, <1>7 DEF Outranks
<1> QED
  BY <1>1, <1>8 DEF Ordered

(* What every view that ranks b puts ahead of b comes out ahead of b, for  *)
(* any weights and any K.                                                  *)
THEOREM FusionRespectsAgreement == FusionSpec => []Dominance
BY FusionInvariant, AgreementWins, PTL

=============================================================================
