SPECIFICATION Spec
CONSTANTS
  N = 3
  Ips = {ip1}
  Exempt = {}
  Threads = {t1, t2, t3}
  Starters = {s1}
  Loop = loop
  Watch = watch
  Boot = boot
  Janitor = janitor
  None = none
  MaxQueue = 1
  MaxActive = 3
  UseSlot = TRUE
  ChildrenSurvive = FALSE
  Budget <- Operation
SYMMETRY Sym
INVARIANTS
  TypeOK
  QueueBound
  OneComputing
  SlotHeldWhileComputing
  RunningHasOwner
  TableAgrees
  RunningNotQueued
  ComputingIsKept
PROPERTIES
  FinishedStays
  DeployInterruptsNothing
  ImplementsSlotMutex
