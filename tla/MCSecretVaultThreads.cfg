SPECIFICATION Spec
CONSTANTS
  k0 = k0  k1 = k1  k2 = k2  k3 = k3
  a = a  b = b
  t1 = t1  t2 = t2
  Names = {a, b}
  Keys = {k0, k1, k2, k3}
  FirstKey = k0
  Threads = {t1, t2}
  DurableProvider = TRUE
  None = None
SYMMETRY MCSymmetry
PROPERTIES OnlyExpiredAreDropped
CHECK_DEADLOCK FALSE
