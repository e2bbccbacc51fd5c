\* MCReadPool
CONSTANTS
  s1 = s1
  s2 = s2
  s3 = s3
  c1 = c1
  c2 = c2
  c3 = c3
  NoConn = NoConn
  NoSnap = NoSnap
  Searches <- MCSearches
  Conns <- MCConns
  Hits <- MCHits
  MaxCommits = 2

SPECIFICATION Spec
SYMMETRY Interchangeable
INVARIANTS
  OneOwner
  IdleClean
  OneSnapshot
  NoSilentPrefix
