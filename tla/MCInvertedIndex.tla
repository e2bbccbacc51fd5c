-------------------------- MODULE MCInvertedIndex ---------------------------
(* Model values and small tables for checking InvertedIndex.               *)
EXTENDS InvertedIndex, TLC

CONSTANTS g1, g2, t1, t2

MCGramsOf == t1 :> {g1} @@ t2 :> {g1, g2}

=============================================================================
