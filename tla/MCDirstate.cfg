CONSTANTS
  f1 = f1
  f2 = f2
  c1 = c1
  c2 = c2
  c3 = c3
  File = {f1, f2}
  Content = {c1, c2, c3}
  Size <- MCSize
  Meddling = FALSE
  MaxTime = 3
SYMMETRY Symmetry
SPECIFICATION Spec
INVARIANTS TypeOK NothingTakenForClean
