----------------------------- MODULE MCReadPool -----------------------------
(* An instance of ReadPool for TLC.                                        *)
EXTENDS ReadPool, TLC

CONSTANTS s1, s2, s3, c1, c2, c3

MCSearches == {s1, s2, s3}
MCConns == {c1, c2, c3}
MCHits == (0 :> 0) @@ (1 :> 1) @@ (2 :> 2)

Interchangeable == Permutations(MCSearches) \cup Permutations(MCConns)
=============================================================================
