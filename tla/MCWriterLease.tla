--------------------------- MODULE MCWriterLease ----------------------------
(* Instances of WriterLease for TLC: two texts that share a gram, both     *)
(* grams in one class, threads interchangeable.                            *)
EXTENDS WriterLease, TLC

CONSTANTS t1, t2, g1, g2, script

MCGramsOf == (t1 :> {g1}) @@ (t2 :> {g1, g2})

MCClassOf == (g1 :> script) @@ (g2 :> script)

(* ln in tenths.                                                          *)
MCLnDf == [df \in 1..MaxSegId |-> <<0, 7, 11, 14>>[df]]

Symmetry == Permutations(Threads)
=============================================================================
