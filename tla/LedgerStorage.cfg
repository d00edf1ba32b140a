SPECIFICATION Spec
CONSTANTS
  c1 = c1  c2 = c2  r1 = r1  r2 = r2
  Conns = {c1, c2}
  Records = {r1, r2}
  Legacy = {r1}
  MaxCached = 1
  MaxForeign = 1
  Nil = Nil
INVARIANTS FingerprintsAreGone
PROPERTIES CommandsRunGuarded SetupIsSound ServedIsAudited RefusalsHaveACause
CHECK_DEADLOCK FALSE
SYMMETRY Interchangeable
VIEW Unreplied
