SPECIFICATION Spec
CONSTANTS
  Tdbc = FALSE
  Threads = {t1, t2}
  Clients = {c1, c2}
  Ids = {i1, i2}
  Keys = {k}
  sessionLifetime = 1
  sessionRefreshInterval = 0
  gcMaxLifetime = 1
  None = None
SYMMETRY Symmetry
INVARIANT InUseExtended
