CONSTANTS
  Tid = {t1, t2, t3}
  t3 = t3
  PageId = {p1, p2}
  NoTid = NoTid
  NoPage = NoPage
  MaxAcquires <- TwoEach
SPECIFICATION Spec
SYMMETRY Symmetry
INVARIANT DependencyReset
