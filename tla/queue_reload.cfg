SPECIFICATION Spec
CONSTANTS
  N = 2
  Ips = {ip1, ip2}
  Exempt = {ip2}
  Threads = {t1, t2, t3}
  Starters = {s1}
  Loop = loop
  Watch = watch
  Boot = boot
  Janitor = janitor
  None = none
  MaxQueue = 1
  MaxActive = 1
  UseSlot = FALSE
  ChildrenSurvive = TRUE
  Budget <- Reload
SYMMETRY Sym
INVARIANTS
  QueuedIsTracked
