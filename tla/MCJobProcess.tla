---------------------------- MODULE MCJobProcess ----------------------------
(***************************************************************************)
(* Three things that the subprocess of a job does: it runs the pipeline    *)
(* (PipelineRun), draws the roads of a map in one of its steps             *)
(* (RoadStrokes), and sends a mail when all is over (PrivateMail).  They   *)
(* share nothing but the end of the run, which PrivateMail takes as any of *)
(* done and failed; one behaviour shows one of them.  The mails and the    *)
(* roads are taken with their theorems, which MCJobProcess_proofs cites.   *)
(***************************************************************************)
EXTENDS PipelineRun

CONSTANTS MaxRuns, MailFaults, Notifiers, Lengths, Codes, MinRun

VARIABLES part, status, queued, run, overlaps, noted, at, up, sent, about, lost, broken, faults,
          net, partner, chains, walk, out, stage, k

Mail == INSTANCE PrivateMail_proofs WITH MaxFaults <- MailFaults, left <- faults

ASSUME NotifiersOK == Mail!ConstantsOK

\* Networks of four lines: a road with a side road, numbered from its middle; a
\* crossing whose roads may go on in two ways; a ring on a road; a drop of two
\* lines at its end; and a line that comes back to its start, behind a side road.
End(node, dir) == [node |-> node, dir |-> dir]
Road == <<End("T", 0), End("E", 6), End("E", 0), End("F", 6),
          End("W", 0), End("T", 6), End("T", 9), End("S", 3)>>
Crossing == <<End("A", 0), End("X", 6), End("B", 1), End("X", 7),
              End("X", 0), End("C", 6), End("X", 1), End("D", 7)>>
Ring == <<End("X", 2), End("Y", 10), End("Y", 4), End("Z", 0),
          End("Z", 6), End("X", 10), End("W", 0), End("X", 6)>>
Drop == <<End("X", 1), End("Y", 7), End("X", 11), End("Y", 5),
          End("V", 0), End("X", 6), End("W", 0), End("V", 6)>>
Loop == <<End("X", 1), End("X", 11), End("V", 0), End("X", 6),
          End("W", 0), End("V", 6), End("V", 3), End("S", 9)>>

Roads == INSTANCE RoadStrokes_proofs WITH Shapes <- {Road, Crossing, Ring, Drop, Loop}

ASSUME RoadsOK == Roads!ConstantsOK

roadVars == <<net, partner, chains, walk, out, stage, k>>
mailVars == <<status, queued, run, overlaps, noted, at, up, sent, about, lost, broken, faults>>

\* Only the pipeline asks whether the job is a sprint.
MCInit == /\ Init /\ Mail!Init /\ Roads!Init
          /\ part \in {"pipeline", "mail", "roads"}
          /\ part # "pipeline" => ~sprint

MCNext ==
  /\ UNCHANGED part
  /\ \/ part = "pipeline" /\ Next /\ UNCHANGED <<mailVars, roadVars>>
     \/ part = "mail" /\ Mail!Next /\ UNCHANGED <<vars, roadVars>>
     \/ part = "roads" /\ Roads!Next /\ UNCHANGED <<vars, mailVars>>

MCSpec == MCInit /\ [][MCNext]_<<part, vars, mailVars, roadVars>>

-----------------------------------------------------------------------------
\* The types of the variables of all parts, and the invariant of the pipeline.
JobInv == RunInv /\ Mail!TypeOK /\ Roads!TypeOK

\* Every line is in one stroke, and strokes are ways through the network that
\* end only where they have to.
StrokesArePaths == Roads!StrokesArePaths

\* The symbol of a road changes only between long or fixed runs.
WidthChangesBetweenLongRuns == Roads!WidthChangesBetweenLongRuns

\* The link to the result is sent once (_notify_private_job), and again only for
\* a delivery that could not be noted in the log.
ReadyRepeatedOnlyAfterLoss == Mail!ReadyRepeatedOnlyAfterLoss

\* Of the failures of a job one mail is sent (notify_private_failure), whoever
\* notices them: the subprocess, the thread of the runner or the recovery.  One
\* more only for a delivery that could not be noted, and for a run that began
\* while such a thread was still at work.
FailureReportedOnce == Mail!FailureReportedOnce

\* The owner does not hear of one run that it is done and that it failed.
NotBothMails == Mail!NotBothMails
=============================================================================
