----------------------------- MODULE MCLiveness -----------------------------
(***************************************************************************)
(* What must happen in the end: a job that the server accepted ends        *)
(* (JobQueue), and the mail that a stop of the server cut off is made up   *)
(* for (PrivateMail).  A behaviour shows the queue or the mails of a job;  *)
(* safety is checked of them elsewhere, without fairness, where more jobs  *)
(* and symmetry are cheap.                                                 *)
(***************************************************************************)
EXTENDS MCJobQueue

CONSTANTS MaxRuns, MailFaults, Notifiers

VARIABLES part, row, queued, run, overlaps, noted, at, up, sent, about, lost, broken, faults

Mail == INSTANCE PrivateMail
        WITH status <- row, MaxFaults <- MailFaults, left <- faults

mailVars == <<row, queued, run, overlaps, noted, at, up, sent, about, lost, broken, faults>>

LiveInit == Init /\ Mail!Init /\ part \in {"queue", "mail"}

\* The mails of a job come to an end, the server does not (Quiet).
LiveNext ==
  /\ UNCHANGED part
  /\ \/ part = "queue" /\ Next /\ UNCHANGED mailVars
     \/ part = "mail" /\ Mail!Next /\ UNCHANGED vars
     \/ part = "mail" /\ UNCHANGED <<vars, mailVars>>

LiveSpec ==
  LiveInit /\ [][LiveNext]_<<part, vars, mailVars>> /\ Fairness /\ Mail!Fairness

-----------------------------------------------------------------------------
\* A link that a restart of the server cut off is sent by the startup handler
\* (retry_missed_private_mails), or the log has an error.
MissedIsRetried == Mail!MissedIsRetried
=============================================================================
