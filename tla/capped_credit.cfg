SPECIFICATION Spec
CONSTANTS
  MaxGrams = 3
  Words = {1, 2}
  DfMin = 1
  Scripts = {0, 1}
  Nu = 2
  NoVocab = 99
  Gamma = 10
  Mu = 3
  Delta = 1
  Rarity <- MCRarity
  EnergyOf <- MCEnergyOf
  PrimaryOrder <- MCPrimaryOrder
  StarvedRatio <- MCStarvedRatio
  LnVocab <- MCLnVocab
  Queries <- MCQueries
  Limits <- MCLimits
INVARIANTS
  FlooredTopShielded
CHECK_DEADLOCK FALSE
