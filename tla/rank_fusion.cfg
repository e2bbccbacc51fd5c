\* MCRankFusion
CONSTANTS
  k1 = k1
  k2 = k2
  k3 = k3
  Keys <- MCKeys
  SegsOf <- MCSegsOf
  Scores <- MCScores
  WeightPairs <- MCWeightPairs
  Krrf = 60

SPECIFICATION FusionSpec
CHECK_DEADLOCK FALSE
INVARIANTS
  Dominance
