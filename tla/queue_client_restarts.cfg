SPECIFICATION Spec
CONSTANTS
  N = 2
  Ips = {ip1}
  Exempt = {}
  Threads = {t1, t2, t3}
  Starters = {s1, s2}
  Loop = loop
  Watch = watch
  Boot = boot
  Janitor = janitor
  None = none
  MaxQueue = 2
  MaxActive = 3
  UseSlot = TRUE
  ChildrenSurvive = FALSE
  Budget <- Restarts
SYMMETRY Sym
INVARIANTS
  NoDuplicates
  TableAgrees
