\* MCScoreUnion
CONSTANTS
  k1 = k1
  k2 = k2
  NoLimit = NoLimit
  Ids <- MCIds
  Width = 4
  KeyOf <- MCKeyOf
  Nulls <- MCNulls
  Cases <- MCCases
  Delta = 2
  Mu = 1
  Chunk = 1

SPECIFICATION Spec
CHECK_DEADLOCK FALSE
INVARIANTS
  WalkComplete
  BestFirst
  TopOfFullRanking
