SPECIFICATION MCSpec
CONSTANTS
  Instances = {a, b}
  Probers = {t1, t2, t3}
  HomeOf <- HomeOfFirst
  Nobody = nobody
  MaxCrashes = 2
  Peers = {p, q}
  None = none
  MaxVer = 2
  HitAnywhere = FALSE
  MaxEvents = 3
SYMMETRY Sym
INVARIANTS
  BorderElementsOnce
