SPECIFICATION LiveSpec
CONSTANTS
  N = 2
  Ips = {ip1}
  Exempt = {}
  Threads = {t1, t2}
  Starters = {s1}
  Loop = loop
  Watch = watch
  Boot = boot
  Janitor = janitor
  None = none
  MaxQueue = 2
  MaxActive = 3
  UseSlot = TRUE
  ChildrenSurvive = FALSE
  Budget <- Disturbed
  MaxRuns = 2
  MailFaults = 2
  Notifiers = {n1, n2}
PROPERTIES
  AcceptedJobEnds
  MissedIsRetried
