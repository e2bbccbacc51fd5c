\* MCWriterLease
CONSTANTS
  Keys = {k1}
  Labels = {a, b}
  Texts = {t1, t2}
  Grams = {g1, g2}
  t1 = t1
  t2 = t2
  g1 = g1
  g2 = g2
  script = script
  GramsOf <- MCGramsOf
  Classes = {script}
  ClassOf <- MCClassOf
  LnDf <- MCLnDf
  Unit = 2
  MaxSegId = 2
  MaxTermId = 2
  MaxGen = 1
  Threads = {p1, p2}
  NoThread = NoThread
  ReloadMayFail = TRUE
  FailBesideWaiters = TRUE
  ReuseFailedWriter = FALSE

SPECIFICATION Spec
SYMMETRY Symmetry
INVARIANTS
  WritesUseCurrentMap
