SPECIFICATION Spec
CONSTANTS
  c1 = c1
  c2 = c2
  Cores = {c1, c2}
  Tlbs <- TwoTlbs
  L1 = {0, 1}
  L2 = {0, 1}
  VPages <- ThreePages
  Pages = {p, q}
  Tables = {t1, t2, t3}
  TLBSIZE = 1
  MaxCalls = 4
  None = None
SYMMETRY Symmetry
CHECK_DEADLOCK FALSE
INVARIANT MapIsThreadSafe
