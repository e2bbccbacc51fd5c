CONSTANTS
  Chars <- MCChars
  Input <- MCInput
  MaxLen = 4
  Tokenizers <- MCTokenizers
  Script <- MCScript
  Sizes <- MCSizes
  Break = {" "}
  Marks = {"dot", "ced"}
  Jamo = {"jamoV"}
  Lower <- MCLower
  Decomposition <- MCDecomposition
  Composition <- MCComposition
  Ccc <- MCCcc
  Nul = "nul"
SPECIFICATION Spec
INVARIANTS EveryWindowOnce ClustersMatchStream SpanIsHull TermsIdentifyGrams
CHECK_DEADLOCK FALSE
