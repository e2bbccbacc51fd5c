------------------------------ MODULE Welford -------------------------------
(***************************************************************************)
(* The running mean and sum of squared deviations of src/welford.rs, in    *)
(* exact arithmetic: mean and m2 are integers, Unit to the whole.  Unit is *)
(* a multiple of every number of samples that occurs, so that no division  *)
(* below leaves a remainder.  The rounding of floats is not modelled.      *)
(***************************************************************************)
EXTENDS Integers, FiniteSets, Folds

CONSTANT Unit

NoSamples == [n |-> 0, mean |-> 0, m2 |-> 0]

Add(w, x) ==
  LET d    == x * Unit - w.mean
      mean == w.mean + d \div (w.n + 1)
  IN [n |-> w.n + 1, mean |-> mean, m2 |-> w.m2 + (d * (x * Unit - mean)) \div Unit]

OrZero(i) == IF i > 0 THEN i ELSE 0

(* Faulty: the deviations are taken from the old mean alone.               *)
RemoveAtOldMean(w, x) ==
  IF w.n <= 1 THEN NoSamples
  ELSE LET d == x * Unit - w.mean
       IN [n    |-> w.n - 1,
           mean |-> (w.n * w.mean - x * Unit) \div (w.n - 1),
           m2   |-> OrZero(w.m2 - (d * d) \div Unit)]

Remove(w, x) ==
  IF w.n <= 1 THEN NoSamples
  ELSE LET before == (w.n * w.mean - x * Unit) \div (w.n - 1)
           gone   == ((x * Unit - w.mean) * (x * Unit - before)) \div Unit
       IN [n |-> w.n - 1, mean |-> before, m2 |-> OrZero(w.m2 - gone)]

(* ClassStats::update of one class: a df of 0 is no sample.                *)
Update(w, ln, old, new) ==
  LET less == IF old > 0 THEN Remove(w, ln[old]) ELSE w
  IN IF new > 0 THEN Add(less, ln[new]) ELSE less

-----------------------------------------------------------------------------
(* What the three numbers mean, for the samples x[t] of the t in S.        *)

Sum(x, S) ==
  MapThenFoldSet(LAMBDA a, b : a + b, 0, LAMBDA t : x[t],
                 LAMBDA T : CHOOSE t \in T : TRUE, S)

Recount(x, S) ==
  LET n   == Cardinality(S)
      sum == Sum(x, S)
      all == Sum([t \in S |-> x[t] * x[t]], S)
  IN IF S = {} THEN NoSamples
     ELSE [n |-> n, mean |-> (Unit * sum) \div n,
           m2 |-> Unit * all - (Unit * sum * sum) \div n]

=============================================================================
