SPECIFICATION MCSpec
CONSTANTS
  Disciplines = {"les", "mtbo"}
  MaxFaults = 2
  MaxRuns = 2
  MailFaults = 2
  Notifiers = {n1, n2}
  Lengths = {4, 9}
  Codes = {"502.2", "502", "502.1", "502.0"}
  MinRun = 5
INVARIANTS
  JobInv
  ReadsAreSettled
  
  NobodyWaitsInVain
  StrokesArePaths
  WidthChangesBetweenLongRuns
  ReadyRepeatedOnlyAfterLoss
  FailureReportedOnce
  NotBothMails
CHECK_DEADLOCK FALSE
