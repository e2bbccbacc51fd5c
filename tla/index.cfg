SPECIFICATION Spec
CONSTANTS
  MaxSegId = 4
  MaxTermId = 2
  g1 = g1
  g2 = g2
  t1 = t1
  t2 = t2
  Keys = {k1, k2}
  Labels = {a}
  Texts = {t1, t2}
  Grams = {g1, g2}
  GramsOf <- MCGramsOf
  NoText = NoText
INVARIANTS
  TypeOK
  PostingsMatchForward
  DfExact
  ForwardDecodes
  NoStaleAlias
  AnswersMatchContent
PROPERTIES
  ImplementsStore
  CompactKeepsAnswers
