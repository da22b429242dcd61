SPECIFICATION Spec
CONSTANTS
  N = 1
  Ips = {ip1}
  Exempt = {}
  Threads = {t1, t2, t3}
  Starters = {s1}
  Loop = loop
  Watch = watch
  Boot = boot
  Janitor = janitor
  None = none
  MaxQueue = 1
  MaxActive = 3
  UseSlot = TRUE
  ChildrenSurvive = FALSE
  Budget <- OneDeploy
SYMMETRY Sym
PROPERTIES
  DeployLosesNoJob
