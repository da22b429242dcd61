----------------------------- MODULE PrivateMail -----------------------------
(***************************************************************************)
(* The mails to the owner of one private job: the link to the result       *)
(* (_notify_private_job) and the news that it failed                       *)
(* (notify_private_failure).                                               *)
(*                                                                         *)
(* Four parties send them: the subprocess at its end, a daemon thread that *)
(* the runner starts after every run (_notify_failure_async), the same     *)
(* thread started by the recovery, and the startup handler                 *)
(* (retry_missed_private_mails).  Each looks into the job's log whether    *)
(* the mail was sent, sends it, and then writes that line of the log.      *)
(***************************************************************************)
EXTENDS Naturals, FiniteSets

CONSTANTS
  MaxRuns,    \* bound on the runs of the job
  MaxFaults,  \* bound on kills, crashes and failing statements
  Notifiers   \* bound on the "private-fail-mail" threads alive at one time

Senders == {"child", "boot"} \cup Notifiers
Kinds == {"ready", "fail"}

ConstantsOK ==
  /\ MaxRuns \in Nat /\ MaxFaults \in Nat
  /\ IsFiniteSet(Notifiers) /\ {"child", "boot", "recovery"} \cap Notifiers = {}

VARIABLES
  status,  \* row of the job
  queued,  \* the job waits in the server's queue
  run,     \* number of the run, 0 before the first
  overlaps,  \* runs begun while a thread of an earlier one was still at work
  noted,   \* lines of the job's log: "done", "ready", "fail", "error"
  at,      \* sender -> [pc, kind, of]: its next step, the mail, the run it is about
  up,      \* the server: "recover", "retry" (startup handler) or "up"
  sent,    \* kind -> number of mails delivered
  about,   \* kind -> the runs that they were about
  lost,    \* mails delivered whose line did not come into the log
  broken,  \* runs that failed after they had written their 'done'
  left     \* faults that may still happen

vars == <<status, queued, run, overlaps, noted, at, up, sent, about, lost, broken, left>>

Idle == [pc |-> "idle", kind |-> "ready", of |-> 0]

Steps == [pc : {"idle", "work", "line", "check", "send", "note", "exit"},
          kind : Kinds, of : Nat]

SendersOK ==
  /\ at \in [Senders -> Steps]
  /\ \A s \in Senders \ {"child"} : at[s].pc \in {"idle", "check", "send", "note"}

TypeOK ==
  /\ status \in {"pending", "queued", "running", "done", "failed"}
  /\ queued \in BOOLEAN /\ run \in Nat /\ overlaps \in Nat
  /\ noted \subseteq {"done", "ready", "fail", "error"}
  /\ SendersOK
  /\ up \in {"recover", "retry", "up"}
  /\ sent \in [Kinds -> Nat] /\ about \in [Kinds -> SUBSET Nat]
  /\ lost \in Nat /\ broken \subseteq Nat /\ left \in 0..MaxFaults

Init ==
  /\ status = "pending" /\ queued = FALSE /\ run = 0 /\ overlaps = 0
  /\ noted = {} /\ broken = {}
  /\ at = [s \in Senders |-> Idle]
  /\ up = "up"
  /\ sent = [k \in Kinds |-> 0] /\ about = [k \in Kinds |-> {}]
  /\ lost = 0 /\ left = MaxFaults

Fault == left > 0 /\ left' = left - 1

\* What a sender does after its last step: the subprocess exits, the startup
\* handler goes on, a thread ends.
After(s) == IF s = "child" THEN [at[s] EXCEPT !.pc = "exit"] ELSE Idle
Leave(s) ==
  /\ at' = [at EXCEPT ![s] = After(s)]
  /\ up' = IF s = "boot" THEN "up" ELSE up

Goto(s, p) == at' = [at EXCEPT ![s].pc = p] /\ UNCHANGED up

\* A mail that is delivered and not yet noted is forgotten with its sender.
Forgotten(S) == Cardinality({s \in S : at[s].pc = "note"})

-----------------------------------------------------------------------------
\* Runs of the job.

\* POST /start of a job that is not active, also while the subprocess of the
\* last run still sends its mail.
Start ==
  /\ up = "up"
  /\ status \in {"pending", "done", "failed"} /\ ~queued /\ run < MaxRuns
  /\ status' = "queued" /\ queued' = TRUE
  /\ UNCHANGED <<run, overlaps, noted, at, up, sent, about, lost, broken, left>>

Begin ==
  /\ queued
  /\ up # "recover" /\ at["child"].pc = "idle"
  /\ status' = "running" /\ queued' = FALSE /\ run' = run + 1
  /\ overlaps' = overlaps + (IF \E n \in Notifiers : at[n].pc # "idle" THEN 1 ELSE 0)
  /\ at' = [at EXCEPT !["child"] = [pc |-> "work", kind |-> "ready", of |-> run + 1]]
  /\ UNCHANGED <<noted, up, sent, about, lost, broken, left>>

\* The result is ready.  A run takes minutes: none ends in the moment between
\* requeue_after_restart and the list of jobs that the retry reads.
ChildDone ==
  /\ at["child"].pc = "work" /\ up # "retry"
  /\ status' = "done"
  /\ Goto("child", "line")
  /\ UNCHANGED <<queued, run, overlaps, noted, sent, about, lost, broken, left>>

\* log("Status: done"): append_log swallows the error of a locked database.
ChildLine ==
  /\ at["child"].pc = "line"
  /\ \/ noted' = noted \cup {"done"} /\ UNCHANGED left
     \/ UNCHANGED noted /\ Fault
  /\ Goto("child", "check")
  /\ UNCHANGED <<status, queued, run, overlaps, sent, about, lost, broken>>

\* The except branch of run_job.
FailRun ==
  /\ status' = "failed"
  /\ at' = [at EXCEPT !["child"].pc = "check", !["child"].kind = "fail"]

ChildRaises ==
  /\ at["child"].pc = "work"
  /\ FailRun
  /\ UNCHANGED <<queued, run, overlaps, noted, up, sent, about, lost, broken, left>>

\* The same branch after the status 'done': a database that cannot be read on
\* the way to the mail, a log file that cannot be written.
ChildBreaks ==
  /\ at["child"].pc \in {"line", "check", "note"} /\ at["child"].kind = "ready"
  /\ Fault
  /\ FailRun
  /\ broken' = broken \cup {at["child"].of}
  /\ lost' = lost + Forgotten({"child"})
  /\ UNCHANGED <<queued, run, overlaps, noted, up, sent, about>>

\* _notify_failure_async.
Notify(n, others) ==
  /\ others[n].pc = "idle"
  /\ at' = [others EXCEPT ![n] = [pc |-> "check", kind |-> "fail", of |-> 0]]

\* The finally branch of _run, after a run that succeeded, too.
RunnerEnds(n) ==
  /\ at["child"].pc = "exit"
  /\ Notify(n, [at EXCEPT !["child"] = Idle])
  /\ UNCHANGED <<status, queued, run, overlaps, noted, up, sent, about, lost, broken, left>>

\* JOB_TIMEOUT_SECONDS are over or the subprocess died.
ChildKilled(n) ==
  /\ at["child"].pc \notin {"idle", "exit"}
  /\ Fault
  /\ status' = IF status = "running" THEN "failed" ELSE status
  /\ Notify(n, [at EXCEPT !["child"] = Idle])
  /\ lost' = lost + Forgotten({"child"})
  /\ UNCHANGED <<queued, run, overlaps, noted, up, sent, about, broken>>

-----------------------------------------------------------------------------
\* Sending.

MailAlreadySent(k) == k \in noted

CheckReady(s) ==
  /\ at[s].pc = "check" /\ at[s].kind = "ready"
  /\ IF MailAlreadySent("ready") THEN Leave(s) ELSE Goto(s, "send")
  /\ UNCHANGED <<status, queued, run, overlaps, noted, sent, about, lost, broken, left>>

\* Mutant of CheckFail: the state of the job is not looked at.
CheckFailAny(s) ==
  /\ at[s].pc = "check" /\ at[s].kind = "fail"
  /\ IF ~MailAlreadySent("fail")
     THEN at' = [at EXCEPT ![s].pc = "send", ![s].of = run] /\ UNCHANGED up
     ELSE Leave(s)
  /\ UNCHANGED <<status, queued, run, overlaps, noted, sent, about, lost, broken, left>>

\* Mutant of CheckFail: the log is not looked at.
CheckFailAgain(s) ==
  /\ at[s].pc = "check" /\ at[s].kind = "fail"
  /\ IF status = "failed"
     THEN at' = [at EXCEPT ![s].pc = "send", ![s].of = run] /\ UNCHANGED up
     ELSE Leave(s)
  /\ UNCHANGED <<status, queued, run, overlaps, noted, sent, about, lost, broken, left>>

\* The mail is about the run whose failure the row shows.
CheckFail(s) ==
  /\ at[s].pc = "check" /\ at[s].kind = "fail"
  /\ IF status = "failed" /\ ~MailAlreadySent("fail")
     THEN at' = [at EXCEPT ![s].pc = "send", ![s].of = run] /\ UNCHANGED up
     ELSE Leave(s)
  /\ UNCHANGED <<status, queued, run, overlaps, noted, sent, about, lost, broken, left>>

Deliver(s) ==
  /\ sent' = [sent EXCEPT ![at[s].kind] = @ + 1]
  /\ about' = [about EXCEPT ![at[s].kind] = @ \cup {at[s].of}]

Send(s) ==
  /\ at[s].pc = "send"
  /\ Deliver(s)
  /\ Goto(s, "note")
  /\ UNCHANGED <<status, queued, run, overlaps, noted, lost, broken, left>>

\* MailError, before the server took the mail or (no answer in time) after it.
SendFails(s) ==
  /\ at[s].pc = "send"
  /\ Fault
  /\ \/ UNCHANGED <<sent, about, lost>>
     \/ Deliver(s) /\ lost' = lost + 1
  /\ noted' = noted \cup {"error"}
  /\ Leave(s)
  /\ UNCHANGED <<status, queued, run, overlaps, broken>>

\* Mutant of Note: the line of the other mail is written.
NoteOther(s) ==
  /\ at[s].pc = "note"
  /\ noted' = noted \cup (Kinds \ {at[s].kind})
  /\ Leave(s)
  /\ UNCHANGED <<status, queued, run, overlaps, sent, about, lost, broken, left>>

Note(s) ==
  /\ at[s].pc = "note"
  /\ noted' = noted \cup {at[s].kind}
  /\ Leave(s)
  /\ UNCHANGED <<status, queued, run, overlaps, sent, about, lost, broken, left>>

NoteLost(s) ==
  /\ at[s].pc = "note"
  /\ Fault
  /\ lost' = lost + 1
  /\ Leave(s)
  /\ UNCHANGED <<status, queued, run, overlaps, noted, sent, about, broken>>

-----------------------------------------------------------------------------
\* Restart of the server.

ServerCrash ==
  /\ Fault
  /\ at' = [s \in Senders |-> Idle]
  /\ lost' = lost + Forgotten(Senders)
  /\ up' = "recover"
  /\ queued' = (status = "queued")
  /\ UNCHANGED <<status, run, overlaps, noted, sent, about, broken>>

\* A crash in the startup handler finds no thread of this process but the one
\* that a recovery just before it has started.
Recover ==
  /\ up = "recover"
  /\ up' = "retry"
  /\ IF status = "running"
     THEN status' = "failed" /\ \E n \in Notifiers : Notify(n, at)
     ELSE UNCHANGED <<status, at>>
  /\ UNCHANGED <<queued, run, overlaps, noted, sent, about, lost, broken, left>>

Missed == status = "done" /\ "done" \in noted /\ ~MailAlreadySent("ready")

\* Mutant of Retry: no finished job is found.
RetryNever ==
  /\ up = "retry" /\ at["boot"].pc = "idle"
  /\ up' = "up" /\ UNCHANGED at
  /\ UNCHANGED <<status, queued, run, overlaps, noted, sent, about, lost, broken, left>>

\* retry_missed_private_mails.
Retry ==
  /\ up = "retry" /\ at["boot"].pc = "idle"
  /\ IF Missed
     THEN at' = [at EXCEPT !["boot"] = [pc |-> "check", kind |-> "ready", of |-> run]]
          /\ UNCHANGED up
     ELSE up' = "up" /\ UNCHANGED at
  /\ UNCHANGED <<status, queued, run, overlaps, noted, sent, about, lost, broken, left>>

-----------------------------------------------------------------------------

SendStep(s) == CheckReady(s) \/ CheckFail(s) \/ Send(s) \/ Note(s)

Child == ChildDone \/ ChildLine \/ ChildRaises \/ ChildBreaks

Next ==
  \/ Start \/ Begin \/ Child
  \/ \E n \in Notifiers : RunnerEnds(n) \/ ChildKilled(n)
  \/ \E s \in Senders : SendStep(s) \/ SendFails(s) \/ NoteLost(s)
  \/ ServerCrash \/ Recover \/ Retry

Spec == Init /\ [][Next]_vars

\* The startup handler runs to its end unless the server crashes again.
Fairness == WF_vars(Recover) /\ WF_vars(Retry) /\ WF_vars(SendStep("boot"))

FairSpec == Spec /\ Fairness

-----------------------------------------------------------------------------
\* The link goes to the owner once, over subprocess, runs and restarts, and
\* once more only for each delivery that could not be noted in the log.
ReadyRepeatedOnlyAfterLoss == sent["ready"] <= 1 + lost

\* Of its failures the owner gets one mail, whoever notices them and however
\* often the job runs; one more only for each delivery that could not be noted,
\* and for each run that began while a thread of an earlier one was still at
\* work: the two may look into the log at the same time.
FailureReportedOnce == sent["fail"] <= 1 + overlaps + lost

\* No run is reported as finished and as failed, unless it did fail after it
\* had written that it was done.
NotBothMails == about["ready"] \cap about["fail"] \subseteq broken

\* A job that was done when the server stopped, and whose mail was not sent,
\* gets it from the startup handler, or its log an error, or the job runs again.
MissedIsRetried ==
  up = "recover" /\ Missed ~>
    sent["ready"] > 0 \/ "error" \in noted \/ status # "done"

-----------------------------------------------------------------------------
\* An inductive invariant for the first three.

Active(s) == at[s].pc # "idle"
By(k, points) == {s \in Senders : at[s].kind = k /\ at[s].pc \in points}

\* The subprocess works on the last run, and nobody else calls it running; the
\* startup handler sends the link while nothing of the job goes on.
WhoSends ==
  /\ \A n \in Notifiers : Active(n) => at[n].kind = "fail"
  /\ Active("boot") => /\ at["boot"].kind = "ready" /\ at["boot"].of = run
                       /\ up = "retry" /\ status = "done" /\ ~queued /\ ~Active("child")
  /\ Active("child") => at["child"].of = run /\ run > 0
  /\ at["child"].pc \in {"work", "line"} => at["child"].kind = "ready"
  /\ at["child"].pc = "work" <=> status = "running" /\ up # "recover"
  /\ up = "retry" /\ Active("child") => \/ status = "running"
                                        \/ status = "failed" /\ at["child"].kind = "fail"
  /\ up # "up" /\ queued => status = "queued"
  /\ up = "recover" => \A s \in Senders : ~Active(s)
  /\ status \in {"running", "done", "failed"} => run > 0

\* A link that is on its way is neither noted nor followed by another.
LinkAt(points) == \E s \in {"child", "boot"} : at[s].kind = "ready" /\ at[s].pc \in points

LinkOnce ==
  /\ sent["ready"] <= 1 + lost
  /\ "ready" \notin noted /\ ~LinkAt({"note"}) => sent["ready"] <= lost
  /\ "ready" \in noted => ~LinkAt({"send", "note"})

\* Who may still report a failure: each run has one reporter at a time, the
\* subprocess, the thread that follows it or the recovery.
Reporters ==
  IF "fail" \in noted THEN By("fail", {"send"})
  ELSE ({s \in Senders \ {"boot"} : Active(s)} \ By("fail", {"note"}))
       \cup {r \in {"recovery"} : up = "recover" /\ status = "running"}

\* Failures that are delivered, neither noted nor lost, are being noted.
Noting == By("fail", {"note"})

FailOnce == sent["fail"] + Cardinality(Reporters) <= 1 + overlaps + lost
FailNoted == "fail" \notin noted => sent["fail"] <= lost + Cardinality(Noting)

\* Runs that were, or are going to be, reported as finished and as failed.
ReadyRuns == about["ready"] \cup {at[s].of : s \in By("ready", {"line", "check", "send"})}
FailRuns == about["fail"] \cup {at[s].of : s \in By("fail", {"send"})}

RunsApart ==
  /\ ReadyRuns \cup FailRuns \subseteq 1..run
  /\ ReadyRuns \cap FailRuns \subseteq broken
  /\ status = "running" => run \notin ReadyRuns \cup FailRuns
  /\ status = "done" => run \notin FailRuns
  /\ status = "failed" /\ run \in ReadyRuns => run \in broken

MailInv == TypeOK /\ WhoSends /\ LinkOnce /\ FailOnce /\ FailNoted /\ RunsApart
=============================================================================
