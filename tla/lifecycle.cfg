SPECIFICATION LifeSpec
CONSTANTS
  MaxSegId = 3
  MaxTermId = 2
  a = a
  b = b
  g1 = g1
  g2 = g2
  x = x
  Keys = {k1}
  Labels = {a, b}
  RawTexts = {x}
  Texts <- MCTexts
  Grams = {g1, g2}
  GramsOf <- MCGramsOf
  NoText = NoText
  Configs <- MCConfigs
  Accepts <- MCAccepts
  Closed = Closed
  NoStamp = NoStamp
INVARIANTS
  ContentCurrent
  OpenConsistent
PROPERTIES
  WarmReopen
