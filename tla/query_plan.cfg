SPECIFICATION Spec
CONSTANTS
  MaxGrams = 4
  Words = {1, 2}
  DfMin = 1
  Scripts = {0, 1}
  Nu = 2
  NoVocab = 99
  Gamma = 10
  Mu = 6
  Delta = 4
  Rarity <- MCRarity
  EnergyOf <- MCEnergyOf
  PrimaryOrder <- MCPrimaryOrder
  StarvedRatio <- MCStarvedRatio
  LnVocab <- MCLnVocab
  Queries <- MCQueries
  Limits <- MCLimits
INVARIANTS
  WorkBounded
  StopJustified
  GateImplied
  ScriptsServed
  RichScriptsQuiet
  CommonsNeverOutweigh
CHECK_DEADLOCK FALSE
