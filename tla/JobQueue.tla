------------------------------ MODULE JobQueue ------------------------------
(***************************************************************************)
(* The job queue of one Podkladarna instance: app/worker.py together with  *)
(* the statuses it keeps in the jobs table (app/db.py), the two endpoints  *)
(* that feed it (app/main.py), the subprocess it supervises                *)
(* (app/job_worker.py), the slot shared with the other instance            *)
(* (app/slot_lock.py) and the deployment that drains it                    *)
(* (update-nas-ab.sh).                                                     *)
(*                                                                         *)
(* worker._running, worker._queue and the jobs table are shared by         *)
(*   - the event loop, which runs POST /api/jobs to its end (Loop),        *)
(*   - the thread pool, which runs POST /api/jobs/{id}/start (Starters),   *)
(*   - one runner thread per started job, worker._run (Threads),           *)
(*   - worker._drain_watch (Watch) and the startup handler (Boot),         *)
(*   - whoever deletes a job: the cleanup or a request for an expired      *)
(*     private job (Janitor).                                              *)
(* A step of an actor is what it does between two points where another     *)
(* actor may interfere: one lock section, one database statement, one      *)
(* system call.  pc[a] names the point where actor a is.                   *)
(*                                                                         *)
(* Job ids are numbers in the order of creation, so that j < k stands for  *)
(* the comparison of created_at.  A server without SHARED_SLOTS_DIR is     *)
(* UseSlot = FALSE.  ChildrenSurvive is the development server: a restart  *)
(* by uvicorn --reload leaves the subprocess alive (start_new_session);    *)
(* in a container it dies with the server.                                 *)
(***************************************************************************)
EXTENDS Naturals, Sequences, FiniteSets, Functions, SequencesExt

CONSTANTS
  N,                \* how many jobs are ever created
  Ips,              \* client addresses
  Exempt,           \* RATE_LIMIT_EXEMPT_IPS
  Threads,          \* identities of runner threads (bound on those alive)
  Starters,         \* thread pool workers serving /start
  Loop, Watch, Boot,\* the event loop, the drain watch, the startup handler
  Janitor,          \* db.delete_job
  None,             \* no job
  MaxQueue,         \* MAX_QUEUE_SIZE
  MaxActive,        \* MAX_ACTIVE_JOBS_PER_IP
  UseSlot,          \* SHARED_SLOTS_DIR is set
  ChildrenSurvive,  \* a server restart does not kill the subprocess
  Budget            \* how often each external event may happen

Jobs == 1..N
Actors == Threads \cup Starters \cup {Loop, Watch, Boot, Janitor}

\* The external events that would otherwise repeat for ever.
Kinds == {"crash", "deploy", "interrupt", "start", "timeout", "fault", "other", "unheard"}

ASSUME ConstantsOK ==
  /\ N \in Nat
  /\ Exempt \subseteq Ips
  /\ MaxQueue \in Nat
  /\ MaxActive \in Nat
  /\ UseSlot \in BOOLEAN
  /\ ChildrenSurvive \in BOOLEAN
  /\ Budget \in [Kinds -> Nat]

ASSUME ActorsDistinct ==
  /\ Threads \cap Starters = {}
  /\ {Loop, Watch, Boot, Janitor} \cap (Threads \cup Starters) = {}
  /\ Loop # Watch /\ Loop # Boot /\ Watch # Boot
  /\ Janitor # Loop /\ Janitor # Watch /\ Janitor # Boot

ASSUME NoneIsNoJob == None \notin Jobs

VARIABLES
  status,   \* jobs.status ("none": not created yet, "deleted": the row is gone;
            \*   "done" stands for done_with_errors, too)
  owner,    \* options.client_ip of a created job
  running,  \* worker._running
  queue,    \* worker._queue
  pc,       \* where each actor is
  arg,      \* the job each actor is working on
  child,    \* the subprocess of each runner thread (app.job_worker)
  slotFd,   \* SharedSlot._fd: this instance has the slot's file locked
  other,    \* the other instance has it locked
  drain,    \* the deployment: "off", or with .deploy-drain there: "on" (it
            \*   polls), "idle" (it found the server idle), "swapped" (restarted)
  todo,     \* the queued jobs the startup handler still has to enqueue
  left      \* what is left of Budget

vars == <<status, owner, running, queue, pc, arg, child, slotFd, other, drain,
          todo, left>>

-----------------------------------------------------------------------------
\* Types.

Statuses == {"none", "pending", "queued", "running", "done", "failed", "deleted"}
Active == {"pending", "queued", "running"}
Finished == {"done", "failed"}

RunPoints == {"begin", "acquire", "waiting", "notAcquired", "got", "spawn",
              "wait", "error", "return", "returned", "cleanup", "clear"}
Points == RunPoints \cup {"idle", "enqueue", "launch", "next", "pop", "recover",
                          "requeue", "delete"}

Alive == {"started", "pipeline", "mailing"}
ChildStates == Alive \cup {"none", "exit0", "exit1"}

TypeOK ==
  /\ status \in [Jobs -> Statuses]
  /\ owner \in [Jobs -> Ips]
  /\ running \in Jobs \cup {None}
  /\ queue \in Seq(Jobs)
  /\ pc \in [Actors -> Points]
  /\ arg \in [Actors -> Jobs \cup {None}]
  /\ child \in [Threads -> ChildStates]
  /\ slotFd \in BOOLEAN
  /\ other \in BOOLEAN
  /\ drain \in {"off", "on", "idle", "swapped"}
  /\ todo \in SUBSET Jobs
  /\ left \in [Kinds -> Nat]

-----------------------------------------------------------------------------
\* Helpers.

Busy == running # None
Draining == drain # "off"

\* Mutant of Full: off by one.
FullLate == Len(queue) > MaxQueue
Full == Len(queue) >= MaxQueue

Up == pc[Boot] = "idle"

\* The rows that count_active_jobs_for_ip counts.
ActiveOf(ip) == Cardinality({j \in Jobs : status[j] \in Active /\ owner[j] = ip})

\* rate_limit.check_create_job (the limit per hour is left out).
RateLimited(ip) == ip \notin Exempt /\ ActiveOf(ip) >= MaxActive

\* rate_limit.queue_priority_key, compared as a pair with created_at.
Rank(j) == IF status[j] = "deleted" THEN 999
           ELSE IF owner[j] \in Exempt THEN 0 ELSE ActiveOf(owner[j])
Precedes(j, k) == Rank(j) < Rank(k) \/ (Rank(j) = Rank(k) /\ j <= k)

\* The job that _pop_next_queued takes.
IsBest(j) == j \in ToSet(queue) /\ \A k \in ToSet(queue) : Precedes(j, k)

\* UPDATE jobs ... WHERE id: without a row it changes nothing.
SetStatus(j, s) == status' = [status EXCEPT ![j] = IF @ = "deleted" THEN @ ELSE s]

\* "if job['status'] == 'running'" before a failure is recorded.
\* Mutants: the condition is dropped; the status is one that nobody knows.
FailAlways(j) == status' = [status EXCEPT ![j] = "failed"]
FailMisspelt(j) ==
  status' = [status EXCEPT ![j] = IF @ = "running" THEN "error" ELSE @]
FailIfRunning(j) ==
  status' = [status EXCEPT ![j] = IF @ = "running" THEN "failed" ELSE @]

Goto(a, point) == pc' = [pc EXCEPT ![a] = point] /\ UNCHANGED arg

\* The startup handler goes on with the next job, every other caller is done.
Return(a) ==
  /\ pc' = [pc EXCEPT ![a] = IF a = Boot THEN "requeue" ELSE "idle"]
  /\ arg' = [arg EXCEPT ![a] = None]

Spend(kind) ==
  /\ left[kind] > 0
  /\ left' = [left EXCEPT ![kind] = @ - 1]

Init ==
  /\ status = [j \in Jobs |-> "none"]
  /\ owner \in [Jobs -> Ips]
  /\ running = None
  /\ queue = <<>>
  /\ pc = [a \in Actors |-> "idle"]
  /\ arg = [a \in Actors |-> None]
  /\ child = [t \in Threads |-> "none"]
  /\ slotFd = FALSE
  /\ other = FALSE
  /\ drain = "off"
  /\ todo = {}
  /\ left = Budget

-----------------------------------------------------------------------------
\* Requests.

\* POST /api/jobs up to db.create_job: a full queue is refused (503), so is an
\* address with too many active jobs (429); otherwise the row is 'pending'.
CreateJob(j) ==
  /\ Up /\ pc[Loop] = "idle"
  /\ status[j] = "none" /\ \A k \in Jobs : k < j => status[k] # "none"
  /\ ~((Busy \/ Draining) /\ Full)
  /\ ~RateLimited(owner[j])
  /\ status' = [status EXCEPT ![j] = "pending"]
  /\ pc' = [pc EXCEPT ![Loop] = "enqueue"]
  /\ arg' = [arg EXCEPT ![Loop] = j]
  /\ UNCHANGED <<owner, running, queue, child, slotFd, other, drain, todo, left>>

\* POST /api/jobs/{id}/start up to worker.enqueue.  The id of a job that the
\* event loop is still creating is known to no client.
StartJob(s, j) ==
  /\ Up /\ pc[s] = "idle" /\ arg[Loop] # j
  /\ status[j] \notin {"none", "deleted", "running"}
  /\ ~((Busy \/ Draining) /\ Full)
  /\ Spend("start")
  /\ pc' = [pc EXCEPT ![s] = "enqueue"]
  /\ arg' = [arg EXCEPT ![s] = j]
  /\ UNCHANGED <<status, owner, running, queue, child, slotFd, other, drain, todo>>

\* Mutant of DeleteCheck: a running job is not refused.
DeleteCheckRunning(j) ==
  /\ Up /\ pc[Janitor] = "idle" /\ arg[Loop] # j
  /\ status[j] \in {"pending", "running", "done", "failed"}
  /\ pc' = [pc EXCEPT ![Janitor] = "delete"]
  /\ arg' = [arg EXCEPT ![Janitor] = j]
  /\ UNCHANGED <<status, owner, running, queue, child, slotFd, other, drain, todo, left>>

\* db.delete_job, from the cleanup or on an expired private job: it reads the
\* status and refuses a running or queued job ...
DeleteCheck(j) ==
  /\ Up /\ pc[Janitor] = "idle" /\ arg[Loop] # j
  /\ status[j] \in {"pending", "done", "failed"}
  /\ pc' = [pc EXCEPT ![Janitor] = "delete"]
  /\ arg' = [arg EXCEPT ![Janitor] = j]
  /\ UNCHANGED <<status, owner, running, queue, child, slotFd, other, drain, todo, left>>

\* ... and then deletes the row, whatever its status is by now, and the directory.
DeleteRow ==
  /\ pc[Janitor] = "delete"
  /\ status' = [status EXCEPT ![arg[Janitor]] = "deleted"]
  /\ Return(Janitor)
  /\ UNCHANGED <<owner, running, queue, child, slotFd, other, drain, todo, left>>

-----------------------------------------------------------------------------
\* worker.enqueue, called with force only by the startup handler.

\* RuntimeError: POST /api/jobs marks the job failed, /start only answers 500.
EnqueueRefused(a) ==
  /\ pc[a] = "enqueue" /\ a # Boot
  /\ Busy \/ Draining
  /\ Full
  /\ IF a = Loop THEN SetStatus(arg[a], "failed") ELSE UNCHANGED status
  /\ Return(a)
  /\ UNCHANGED <<owner, running, queue, child, slotFd, other, drain, todo, left>>

\* Mutant of EnqueueWaiting: a job that is in the queue is added again.
EnqueueWaitingTwice(a) ==
  /\ pc[a] = "enqueue"
  /\ Busy \/ Draining
  /\ a = Boot \/ ~Full
  /\ queue' = Append(queue, arg[a])
  /\ SetStatus(arg[a], "queued")
  /\ Return(a)
  /\ UNCHANGED <<owner, running, child, slotFd, other, drain, todo, left>>

\* Something runs or a deployment waits: to the end of the queue, unless there.
EnqueueWaiting(a) ==
  /\ pc[a] = "enqueue"
  /\ Busy \/ Draining
  /\ a = Boot \/ ~Full
  /\ queue' = IF arg[a] \in ToSet(queue) THEN queue ELSE Append(queue, arg[a])
  /\ SetStatus(arg[a], "queued")
  /\ Return(a)
  /\ UNCHANGED <<owner, running, child, slotFd, other, drain, todo, left>>

\* The same with the database locked for too long: the job is in the queue, its
\* row does not say so; POST /api/jobs tries to mark it failed.
EnqueueFault(a) ==
  /\ pc[a] = "enqueue" /\ a # Boot
  /\ Busy \/ Draining
  /\ ~Full
  /\ Spend("fault")
  /\ queue' = IF arg[a] \in ToSet(queue) THEN queue ELSE Append(queue, arg[a])
  /\ UNCHANGED status \/ (a = Loop /\ SetStatus(arg[a], "failed"))
  /\ Return(a)
  /\ UNCHANGED <<owner, running, child, slotFd, other, drain, todo>>

\* Mutant of EnqueueFirst: _running was read before the lock was taken.
EnqueueFirstAnyway(a) ==
  /\ pc[a] = "enqueue"
  /\ ~Draining
  /\ running' = arg[a]
  /\ Goto(a, "launch")
  /\ UNCHANGED <<status, owner, queue, child, slotFd, other, drain, todo, left>>

\* Nothing runs: the job is the running one; the row and the thread come later.
EnqueueFirst(a) ==
  /\ pc[a] = "enqueue"
  /\ ~Busy /\ ~Draining
  /\ running' = arg[a]
  /\ Goto(a, "launch")
  /\ UNCHANGED <<status, owner, queue, child, slotFd, other, drain, todo, left>>

\* After the lock section of enqueue and of _start_next: write the row, start
\* the runner thread.
Launch(a) ==
  /\ pc[a] = "launch"
  /\ SetStatus(arg[a], "running")
  /\ \E t \in Threads :
       /\ pc[t] = "idle" /\ child[t] = "none"
       /\ pc' = [pc EXCEPT ![a] = IF a = Boot THEN "requeue" ELSE "idle", ![t] = "begin"]
       /\ arg' = [arg EXCEPT ![a] = None, ![t] = arg[a]]
  /\ UNCHANGED <<owner, running, queue, child, slotFd, other, drain, todo, left>>

\* The same point with the database locked for too long: the exception leaves
\* the caller with _running set and no thread; POST /api/jobs tries to mark the
\* job failed.  In the startup handler it ends the server (Crash).
LaunchFault(a) ==
  /\ pc[a] = "launch" /\ a # Boot
  /\ Spend("fault")
  /\ UNCHANGED status \/ (a = Loop /\ SetStatus(arg[a], "failed"))
  /\ Return(a)
  /\ UNCHANGED <<owner, running, queue, child, slotFd, other, drain, todo>>

\* A log line of POST /api/jobs fails before it calls enqueue, outside its try
\* block: the job stays 'pending'.
LogFault ==
  /\ pc[Loop] = "enqueue"
  /\ Spend("fault")
  /\ Return(Loop)
  /\ UNCHANGED <<status, owner, running, queue, child, slotFd, other, drain, todo>>

\* A statement of POST /api/jobs fails after enqueue has started the thread t: its
\* except branch marks failed a job that runs.
ResponseFault(t) ==
  /\ pc[Loop] = "launch"
  /\ Spend("fault")
  /\ pc[t] = "idle" /\ child[t] = "none"
  /\ SetStatus(arg[Loop], "failed")
  /\ pc' = [pc EXCEPT ![Loop] = "idle", ![t] = "begin"]
  /\ arg' = [arg EXCEPT ![Loop] = None, ![t] = arg[Loop]]
  /\ UNCHANGED <<owner, running, queue, child, slotFd, other, drain, todo>>

-----------------------------------------------------------------------------
\* worker._run.

\* The directory of a deleted job is missing, unless rmtree is not there yet or
\* a log line has made it again.
DirMissing(t) ==
  /\ pc[t] = "begin" /\ status[arg[t]] = "deleted"
  /\ Goto(t, "error")
  /\ UNCHANGED <<status, owner, running, queue, child, slotFd, other, drain, todo, left>>

\* Mutant of RunBegin: the slot is not taken.
RunBeginNoSlot(t) ==
  /\ pc[t] = "begin"
  /\ Goto(t, IF Draining THEN "return" ELSE "spawn")
  /\ UNCHANGED <<status, owner, running, queue, child, slotFd, other, drain, todo, left>>

RunBegin(t) ==
  /\ pc[t] = "begin"
  /\ Goto(t, IF Draining THEN "return" ELSE IF UseSlot THEN "acquire" ELSE "spawn")
  /\ UNCHANGED <<status, owner, running, queue, child, slotFd, other, drain, todo, left>>

\* Mutant of Acquire: the lock of the other instance does not stop this one.
AcquireAnyway(t) ==
  /\ pc[t] \in {"acquire", "waiting"}
  /\ slotFd' = TRUE
  /\ Goto(t, "got")
  /\ UNCHANGED <<status, owner, running, queue, child, other, drain, todo, left>>

\* SharedSlot.try_acquire: true at once when this process has the file locked.
Acquire(t) ==
  /\ pc[t] \in {"acquire", "waiting"}
  /\ slotFd \/ ~other
  /\ slotFd' = TRUE
  /\ Goto(t, "got")
  /\ UNCHANGED <<status, owner, running, queue, child, other, drain, todo, left>>

\* The first refusal calls on_wait: the job goes back to 'queued' in the table.
AcquireRefused(t) ==
  /\ pc[t] = "acquire"
  /\ ~slotFd /\ other
  /\ SetStatus(arg[t], "queued")
  /\ Goto(t, "waiting")
  /\ UNCHANGED <<owner, running, queue, child, slotFd, other, drain, todo, left>>

\* acquire returns False: a deployment began, or SHARED_SLOT_WAIT_MINUTES are over.
AcquireAborted(t) ==
  /\ pc[t] = "waiting"
  /\ Draining
  /\ Goto(t, "notAcquired")
  /\ UNCHANGED <<status, owner, running, queue, child, slotFd, other, drain, todo, left>>

AcquireTimedOut(t) ==
  /\ pc[t] = "waiting"
  /\ Spend("timeout")
  /\ Goto(t, "notAcquired")
  /\ UNCHANGED <<status, owner, running, queue, child, slotFd, other, drain, todo>>

\* is_draining is read again; if not, TimeoutError is raised.
NotAcquired(t) ==
  /\ pc[t] = "notAcquired"
  /\ Goto(t, IF Draining THEN "return" ELSE "error")
  /\ UNCHANGED <<status, owner, running, queue, child, slotFd, other, drain, todo, left>>

Acquired(t) ==
  /\ pc[t] = "got"
  /\ IF Draining THEN Goto(t, "return") /\ UNCHANGED status
                 ELSE Goto(t, "spawn") /\ SetStatus(arg[t], "running")
  /\ UNCHANGED <<owner, running, queue, child, slotFd, other, drain, todo, left>>

Spawn(t) ==
  /\ pc[t] = "spawn"
  /\ child' = [child EXCEPT ![t] = "started"]
  /\ Goto(t, "wait")
  /\ UNCHANGED <<status, owner, running, queue, slotFd, other, drain, todo, left>>

\* proc.wait returns; a nonzero code fails the job if nothing else did.
ChildExited(t) ==
  /\ pc[t] = "wait" /\ child[t] \in {"exit0", "exit1"}
  /\ IF child[t] = "exit1" THEN FailIfRunning(arg[t]) ELSE UNCHANGED status
  /\ child' = [child EXCEPT ![t] = "none"]
  /\ Goto(t, "cleanup")
  /\ UNCHANGED <<owner, running, queue, slotFd, other, drain, todo, left>>

\* JOB_TIMEOUT_SECONDS are over: kill the process group, then look at the status.
JobTimedOut(t) ==
  /\ pc[t] = "wait" /\ child[t] \in Alive
  /\ child' = [child EXCEPT ![t] = "none"]
  /\ FailIfRunning(arg[t])
  /\ Goto(t, "cleanup")
  /\ UNCHANGED <<owner, running, queue, slotFd, other, drain, todo, left>>

\* The except branch.
RunError(t) ==
  /\ pc[t] = "error"
  /\ FailIfRunning(arg[t])
  /\ Goto(t, "cleanup")
  /\ UNCHANGED <<owner, running, queue, child, slotFd, other, drain, todo, left>>

\* A statement of this thread fails: before the end of the try block it comes to
\* the except branch, in the except branch it skips what is left of it.
RunFault(t) ==
  /\ Spend("fault")
  /\ \/ pc[t] = "acquire" /\ ~slotFd /\ other /\ Goto(t, "error")
     \/ pc[t] \in {"spawn", "returned"} /\ Goto(t, "error")
     \/ pc[t] = "got" /\ ~Draining /\ Goto(t, "error")
     \/ pc[t] = "error" /\ Goto(t, "cleanup")
  /\ UNCHANGED <<status, owner, running, queue, child, slotFd, other, drain, todo>>

\* So does one after proc.wait, or after the kill of a job that ran for too long.
WaitFault(t) ==
  /\ pc[t] = "wait" /\ child[t] # "none"
  /\ Spend("fault")
  /\ child' = [child EXCEPT ![t] = "none"]
  /\ Goto(t, "error")
  /\ UNCHANGED <<status, owner, running, queue, slotFd, other, drain, todo>>

\* Mutant of ReturnToQueue: _running stays set.
ReturnToQueueRunning(t) ==
  /\ pc[t] = "return"
  /\ queue' = IF arg[t] \in ToSet(queue) THEN queue ELSE <<arg[t]>> \o queue
  /\ Goto(t, "returned")
  /\ UNCHANGED <<status, owner, running, child, slotFd, other, drain, todo, left>>

\* _return_to_queue, first the lock section, then the row.
ReturnToQueue(t) ==
  /\ pc[t] = "return"
  /\ running' = IF running = arg[t] THEN None ELSE running
  /\ queue' = IF arg[t] \in ToSet(queue) THEN queue ELSE <<arg[t]>> \o queue
  /\ Goto(t, "returned")
  /\ UNCHANGED <<status, owner, child, slotFd, other, drain, todo, left>>

ReturnedRow(t) ==
  /\ pc[t] = "returned"
  /\ SetStatus(arg[t], "queued")
  /\ Goto(t, "cleanup")
  /\ UNCHANGED <<owner, running, queue, child, slotFd, other, drain, todo, left>>

\* The finally branch: slot.release, then _running, then _start_next.
ReleaseSlot(t) ==
  /\ pc[t] = "cleanup"
  /\ slotFd' = FALSE
  /\ Goto(t, "clear")
  /\ UNCHANGED <<status, owner, running, queue, child, other, drain, todo, left>>

\* Mutant of ClearRunning: _running is forgotten.
ClearRunningNot(t) ==
  /\ pc[t] = "clear"
  /\ pc' = [pc EXCEPT ![t] = "next"]
  /\ arg' = [arg EXCEPT ![t] = None]
  /\ UNCHANGED <<status, owner, running, queue, child, slotFd, other, drain, todo, left>>

ClearRunning(t) ==
  /\ pc[t] = "clear"
  /\ running' = IF running = arg[t] THEN None ELSE running
  /\ pc' = [pc EXCEPT ![t] = "next"]
  /\ arg' = [arg EXCEPT ![t] = None]
  /\ UNCHANGED <<status, owner, queue, child, slotFd, other, drain, todo, left>>

-----------------------------------------------------------------------------
\* worker._start_next, called by a finishing runner thread and by the watch.

NextCheck(t) ==
  /\ pc[t] = "next"
  /\ Goto(t, IF Draining THEN "idle" ELSE "pop")
  /\ UNCHANGED <<status, owner, running, queue, child, slotFd, other, drain, todo, left>>

\* The watch looks at _running and _queue without the lock before it calls.
WatchTick ==
  /\ Up /\ pc[Watch] = "idle"
  /\ ~Busy /\ queue # <<>> /\ ~Draining
  /\ Goto(Watch, "pop")
  /\ UNCHANGED <<status, owner, running, queue, child, slotFd, other, drain, todo, left>>

\* The lock section.
PopNext(a, j) ==
  /\ pc[a] = "pop"
  /\ ~Busy /\ IsBest(j)
  /\ running' = j
  /\ queue' = RemoveAt(queue, CHOOSE i \in 1..Len(queue) : queue[i] = j)
  /\ pc' = [pc EXCEPT ![a] = "launch"]
  /\ arg' = [arg EXCEPT ![a] = j]
  /\ UNCHANGED <<status, owner, child, slotFd, other, drain, todo, left>>

PopNothing(a) ==
  /\ pc[a] = "pop"
  /\ Busy \/ queue = <<>>
  /\ Goto(a, "idle")
  /\ UNCHANGED <<status, owner, running, queue, child, slotFd, other, drain, todo, left>>

-----------------------------------------------------------------------------
\* The subprocess, app.job_worker.run_job.  Without its runner thread (after a
\* restart that it survived) nobody reads its exit code.

ChildStep(t, from, to, s) ==
  /\ child[t] = from
  /\ IF to \in Alive \/ pc[t] = "wait"
     THEN child' = [child EXCEPT ![t] = to] /\ UNCHANGED arg
     ELSE child' = [child EXCEPT ![t] = "none"] /\ arg' = [arg EXCEPT ![t] = None]
  /\ IF s = "same" THEN UNCHANGED status ELSE SetStatus(arg[t], s)
  /\ UNCHANGED <<owner, running, queue, pc, slotFd, other, drain, todo, left>>

ChildStart(t) ==
  /\ child[t] = "started" /\ status[arg[t]] # "deleted"
  /\ ChildStep(t, "started", "pipeline", "running")
\* get_job of a deleted job raises KeyError.
ChildNoJob(t) ==
  /\ child[t] = "started" /\ status[arg[t]] = "deleted"
  /\ ChildStep(t, "started", "exit1", "same")
\* The final status is written before the mail is sent and the process exits.
ChildDone(t) == ChildStep(t, "pipeline", "mailing", "done")
ChildExit(t) == ChildStep(t, "mailing", "exit0", "same")
\* An exception in the pipeline.
ChildFail(t) == ChildStep(t, "pipeline", "exit1", "failed")
\* A database error after the final status, on the way to the mail, comes to the
\* same except branch.
ChildFault(t) ==
  /\ Spend("fault")
  /\ child[t] = "mailing" /\ pc[t] = "wait"
  /\ child' = [child EXCEPT ![t] = "exit1"]
  /\ SetStatus(arg[t], "failed")
  /\ UNCHANGED <<owner, running, queue, pc, arg, slotFd, other, drain, todo>>
\* Killed from outside, e.g. for lack of memory, wherever it is.
ChildKilled(t) == \E from \in Alive : ChildStep(t, from, "exit1", "same")

-----------------------------------------------------------------------------
\* Restart of the server process and the startup handler.

\* Everything in memory is gone and the kernel drops the lock of the slot.
StopServer ==
  /\ running' = None
  /\ queue' = <<>>
  /\ pc' = [[a \in Actors |-> "idle"] EXCEPT ![Boot] = "recover"]
  /\ child' = [t \in Threads |-> IF ChildrenSurvive /\ child[t] \in Alive
                                 THEN child[t] ELSE "none"]
  /\ arg' = [a \in Actors |-> IF a \in Threads /\ ChildrenSurvive /\ child[a] \in Alive
                              THEN arg[a] ELSE None]
  /\ slotFd' = FALSE
  /\ todo' = {}

Crash ==
  /\ Spend("crash")
  /\ StopServer
  /\ UNCHANGED <<status, owner, other, drain>>

\* Mutants of Recover: running jobs are not failed; waiting ones are not listed.
RecoverNothing ==
  /\ pc[Boot] = "recover"
  /\ todo' = {j \in Jobs : status[j] = "queued"}
  /\ Goto(Boot, "requeue")
  /\ UNCHANGED <<status, owner, running, queue, child, slotFd, other, drain, left>>
RecoverOnlyRunning ==
  /\ pc[Boot] = "recover"
  /\ status' = [j \in Jobs |-> IF status[j] = "running" THEN "failed" ELSE status[j]]
  /\ todo' = {}
  /\ Goto(Boot, "requeue")
  /\ UNCHANGED <<owner, running, queue, child, slotFd, other, drain, left>>

\* recover_after_restart, and the list that requeue_after_restart works through.
Recover ==
  /\ pc[Boot] = "recover"
  /\ status' = [j \in Jobs |-> IF status[j] = "running" THEN "failed" ELSE status[j]]
  /\ todo' = {j \in Jobs : status[j] = "queued"}
  /\ Goto(Boot, "requeue")
  /\ UNCHANGED <<owner, running, queue, child, slotFd, other, drain, left>>

\* The next listed job by created_at; one that is there already is skipped.
Requeue(j) ==
  /\ pc[Boot] = "requeue"
  /\ j \in todo /\ \A k \in todo : j <= k
  /\ todo' = todo \ {j}
  /\ IF j = running \/ j \in ToSet(queue)
     THEN UNCHANGED <<pc, arg>>
     ELSE pc' = [pc EXCEPT ![Boot] = "enqueue"] /\ arg' = [arg EXCEPT ![Boot] = j]
  /\ UNCHANGED <<status, owner, running, queue, child, slotFd, other, drain, left>>

\* start_drain_watch; from now on the server answers requests.
BootDone ==
  /\ pc[Boot] = "requeue" /\ todo = {}
  /\ Goto(Boot, "idle")
  /\ UNCHANGED <<status, owner, running, queue, child, slotFd, other, drain, todo, left>>

-----------------------------------------------------------------------------
\* Deployment of a new image (update-nas-ab.sh).

DeployBegin ==
  /\ drain = "off"
  /\ Spend("deploy")
  /\ drain' = "on"
  /\ UNCHANGED <<status, owner, running, queue, pc, arg, child, slotFd, other, todo>>

\* Mutant of DeployFindsIdle: "busy" is not looked at.
DeployFindsIdleBlindly ==
  /\ drain = "on" /\ Up
  /\ \A a \in Actors : pc[a] # "pop"
  /\ drain' = "idle"
  /\ UNCHANGED <<status, owner, running, queue, pc, arg, child, slotFd, other, todo, left>>

\* /api/health has answered "busy": false.  NAS_DRAIN_GRACE_S after the mark was
\* made nobody is left between reading it and _running (in _start_next).
DeployFindsIdle ==
  /\ drain = "on" /\ Up
  /\ ~Busy /\ \A a \in Actors : pc[a] # "pop"
  /\ drain' = "idle"
  /\ UNCHANGED <<status, owner, running, queue, pc, arg, child, slotFd, other, todo, left>>

\* Replace the container.  uvicorn ends the requests in flight before it exits;
\* it does not wait for daemon threads.
DeployRestart ==
  /\ drain = "idle" /\ Up
  /\ \A a \in Starters \cup {Loop} : pc[a] = "idle"
  /\ StopServer
  /\ drain' = "swapped"
  /\ UNCHANGED <<status, owner, other, left>>

\* No answer in 5 s (a handler blocks the event loop, the startup handler is not
\* done) counts as idle, too.
DeployRestartUnheard ==
  /\ drain = "on"
  /\ Spend("unheard")
  /\ StopServer
  /\ drain' = "swapped"
  /\ UNCHANGED <<status, owner, other>>

DeployEnd ==
  /\ drain = "swapped"
  /\ drain' = "off"
  /\ UNCHANGED <<status, owner, running, queue, pc, arg, child, slotFd, other, todo, left>>

\* --wait-minutes are over and the server is still busy, which takes a job that
\* computes (every other point is left within seconds): nothing is restarted.
DeployGivesUp ==
  /\ drain = "on" /\ \E t \in Threads : pc[t] = "wait"
  /\ drain' = "off"
  /\ UNCHANGED <<status, owner, running, queue, pc, arg, child, slotFd, other, todo, left>>

\* The script is interrupted, or the mark is so old that it no longer counts.
DeployInterrupted ==
  /\ Draining
  /\ Spend("interrupt")
  /\ drain' = "off"
  /\ UNCHANGED <<status, owner, running, queue, pc, arg, child, slotFd, other, todo>>

-----------------------------------------------------------------------------
\* The other instance computes a job, or only looks whether this one does
\* (SharedSlot.held_by_other locks the file for a moment).

OtherTakes ==
  /\ UseSlot /\ ~slotFd /\ ~other
  /\ Spend("other")
  /\ other' = TRUE
  /\ UNCHANGED <<status, owner, running, queue, pc, arg, child, slotFd, drain, todo>>

OtherReleases ==
  /\ other
  /\ other' = FALSE
  /\ UNCHANGED <<status, owner, running, queue, pc, arg, child, slotFd, drain, todo, left>>

-----------------------------------------------------------------------------

Enqueue(a) == EnqueueRefused(a) \/ EnqueueWaiting(a) \/ EnqueueFirst(a)

RunStep(t) ==
  \/ DirMissing(t) \/ RunBegin(t) \/ Acquire(t) \/ AcquireRefused(t) \/ AcquireAborted(t)
  \/ NotAcquired(t) \/ Acquired(t) \/ Spawn(t) \/ ChildExited(t) \/ RunError(t)
  \/ ReturnToQueue(t) \/ ReturnedRow(t) \/ ReleaseSlot(t) \/ ClearRunning(t)
  \/ NextCheck(t)

\* ChildKilled is not here: nothing makes it happen.
ChildWork(t) == ChildStart(t) \/ ChildNoJob(t) \/ ChildDone(t) \/ ChildFail(t) \/ ChildExit(t)

Startup == Recover \/ (\E j \in Jobs : Requeue(j)) \/ BootDone

Pop(a) == (\E j \in Jobs : PopNext(a, j)) \/ PopNothing(a)

\* Nothing is left to do: the server waits for a request that does not come.
Quiet ==
  /\ \A a \in Actors : pc[a] = "idle"
  /\ running = None /\ queue = <<>> /\ ~Draining
  /\ \A t \in Threads : child[t] = "none"
  /\ UNCHANGED vars

Next ==
  \/ \E j \in Jobs : CreateJob(j)
  \/ \E j \in Jobs : DeleteCheck(j)
  \/ DeleteRow
  \/ \E s \in Starters, j \in Jobs : StartJob(s, j)
  \/ \E a \in Actors : Enqueue(a) \/ Launch(a) \/ Pop(a)
  \/ \E a \in Actors : EnqueueFault(a) \/ LaunchFault(a)
  \/ LogFault \/ \E t \in Threads : ResponseFault(t)
  \/ \E t \in Threads : RunStep(t) \/ AcquireTimedOut(t) \/ JobTimedOut(t)
  \/ \E t \in Threads : ChildWork(t) \/ ChildKilled(t)
  \/ \E t \in Threads : RunFault(t) \/ WaitFault(t) \/ ChildFault(t)
  \/ WatchTick
  \/ Crash \/ Startup
  \/ DeployBegin \/ DeployFindsIdle \/ DeployRestart \/ DeployRestartUnheard
  \/ DeployEnd \/ DeployGivesUp \/ DeployInterrupted
  \/ OtherTakes \/ OtherReleases
  \/ Quiet

Spec == Init /\ [][Next]_vars

-----------------------------------------------------------------------------
(***************************************************************************)
(* Fairness.  Every thread that can take its next step takes it.  A        *)
(* subprocess need not progress, but JOB_TIMEOUT_SECONDS end the wait for  *)
(* it; the jobs of the other instance are bounded by the same limit.  The  *)
(* deployment script polls until it restarts or gives up.                  *)
(***************************************************************************)
Fairness ==
  /\ \A a \in Actors : WF_vars(Enqueue(a)) /\ WF_vars(Launch(a)) /\ WF_vars(Pop(a))
  /\ \A t \in Threads : WF_vars(RunStep(t)) /\ WF_vars(JobTimedOut(t))
  /\ WF_vars(WatchTick) /\ WF_vars(Startup)
  /\ WF_vars(OtherReleases)
  /\ WF_vars(DeployFindsIdle \/ DeployRestart \/ DeployEnd \/ DeployGivesUp)

FairSpec == Spec /\ Fairness

-----------------------------------------------------------------------------
\* Safety.

\* A job waits at most once, however it came into the queue: enqueue, the
\* startup handler and _return_to_queue all look before they add it.
NoDuplicates == IsInjective(queue)

\* Before the first deployment no more jobs wait than MAX_QUEUE_SIZE, also over
\* crashes, after which the startup handler enqueues by force: it finds at most one
\* row more, of the job that waited for the slot, and that one runs.  (A deployment
\* sends a job back to a full queue; several in a row add up.)
QueueBound == left["deploy"] = Budget["deploy"] => Len(queue) <= MaxQueue

\* One heavy job at a time in this instance: no two live subprocesses.
OneComputing ==
  \A t, u \in Threads : child[t] \in Alive /\ child[u] \in Alive => t = u

\* One heavy job at a time over both instances: a subprocess that a runner
\* thread waits for computes only while this instance has the slot's lock.
SlotHeldWhileComputing ==
  UseSlot => \A t \in Threads : pc[t] = "wait" /\ child[t] \in Alive => slotFd /\ ~other

\* While _running is set some thread is on its way to clear it.  Otherwise the
\* queue would stand until the next restart of the server.
RunningHasOwner ==
  Busy => \E a \in Actors : arg[a] = running /\ pc[a] \in RunPoints \cup {"launch"}

\* A job that the table calls 'queued' is in memory on its way to a run: in the
\* queue, with a runner thread, or in the hands of the startup handler.
Tracked(j) ==
  \/ j \in ToSet(queue)
  \/ j \in todo
  \/ \E a \in Actors : arg[a] = j /\ pc[a] \in {"enqueue", "launch"} \cup RunPoints

QueuedIsTracked ==
  pc[Boot] # "recover" => \A j \in Jobs : status[j] = "queued" => Tracked(j)

\* A job that the table calls 'running' has a runner thread that will write its
\* end: nothing else would, and it could not even be deleted.
RunningIsWorked ==
  pc[Boot] # "recover" =>
    \A j \in Jobs : status[j] = "running" =>
      \E t \in Threads : arg[t] = j /\ pc[t] \in RunPoints

\* Whatever the table says of a job that has not ended, someone in memory is
\* going to act on it; recover_after_restart has to restore this after a crash.
TableAgrees == QueuedIsTracked /\ RunningIsWorked

\* The running job does not wait for a second run.
RunningNotQueued == Busy => running \notin ToSet(queue)

\* What the queue does with the slot is what SlotMutex promises to both
\* instances: whoever holds it has it alone, and it changes hands only when it
\* is free, over waiting, crashes, deployments and the kernel dropping the lock.
slotHolder == IF slotFd THEN "this" ELSE IF other THEN "other" ELSE "nobody"

Slot == INSTANCE SlotMutex
          WITH Instances <- {"this", "other"}, Nobody <- "nobody", holder <- slotHolder

ImplementsSlotMutex == Slot!Spec

\* The cleanup deletes no job that a pipeline works for: its row keeps a status
\* that db.delete_job refuses, whatever handlers wrote meanwhile.
ComputingIsKept ==
  \A t \in Threads : child[t] = "pipeline" => status[arg[t]] \in {"queued", "running"}

\* Nothing overwrites the end of a job, unless a client starts it again: no late
\* timeout, no late return to the queue, no recovery.
FinishedStays ==
  [][\A j \in Jobs : status[j] \in Finished => status'[j] \in {status[j], "deleted"}]_vars

\* The restart of a deployment never hits a computing job.
DeployInterruptsNothing ==
  [][drain # "swapped" /\ drain' = "swapped" => \A t \in Threads : child[t] \notin Alive]_vars

\* When a deployment restarts the server, no job is left 'running' for the
\* recovery to fail: what did not compute is 'queued' and survives.
DeployLosesNoJob ==
  [][drain # "swapped" /\ drain' = "swapped" => \A j \in Jobs : status[j] # "running"]_vars

\* An exception in the runner thread ends the job, as its message to the user
\* says: no job stays active when its thread leaves the except branch.
ErrorEndsJob ==
  [][\A t \in Threads :
       pc[t] = "error" /\ pc'[t] = "cleanup" => status'[arg[t]] \notin Active]_vars

-----------------------------------------------------------------------------
\* Why one job computes at a time: an inductive invariant of a server whose
\* deployments are not interrupted.

\* From "_running = job" to the end of the finally branch, unless the job was
\* sent back to the queue in between.
OwnPoints == (RunPoints \ {"returned"}) \cup {"launch"}
\* Of these, the points that a thread does not reach while a deployment waits.
ComputePoints == {"acquire", "waiting", "notAcquired", "got", "spawn", "wait"}

ArgIsJob ==
  \A a \in Actors : pc[a] \in RunPoints \cup {"enqueue", "launch", "delete"} => arg[a] \in Jobs

ChildHasThread ==
  \A t \in Threads : child[t] # "none" => pc[t] \in {"idle", "wait"}

\* What dies with the server has a thread in this one.
AliveIsWaitedFor ==
  ~ChildrenSurvive => \A t \in Threads : child[t] \in Alive => pc[t] = "wait"

SlotExclusive == ~(slotFd /\ other)

SlotHeld ==
  UseSlot => \A t \in Threads : pc[t] \in {"got", "spawn", "wait"} => slotFd

\* Once the container is replaced no job starts before the mark is removed.
SwappedIsQuiet ==
  drain = "swapped" => \A a \in Actors : pc[a] \notin RunPoints \cup {"launch", "next", "pop"}

ReturnsForDeploy ==
  \A a \in Actors : pc[a] \in {"return", "returned"} => drain \in {"on", "idle"}

\* Either the thread that works on _running is the only one ...
OneOwner ==
  /\ \A a \in Actors : pc[a] \in OwnPoints => arg[a] = running
  /\ \A a, b \in Actors : pc[a] \in OwnPoints /\ pc[b] \in OwnPoints => a = b
  /\ \A a \in Actors : pc[a] # "returned"
\* ... or a job went back to the queue, and none computes before the restart.
NoneComputes ==
  /\ drain \in {"on", "idle"}
  /\ \A a \in Actors : pc[a] \notin ComputePoints

TypeInv == TypeOK /\ ArgIsJob /\ ChildHasThread

SlotInv ==
  /\ TypeInv
  /\ left["interrupt"] = 0
  /\ AliveIsWaitedFor /\ SlotExclusive /\ SlotHeld /\ SwappedIsQuiet /\ ReturnsForDeploy
  /\ OneOwner \/ NoneComputes

-----------------------------------------------------------------------------
\* Inductive invariants for the other properties.

\* The points that each kind of actor can be at.
PointsOfActors ==
  /\ pc[Boot] \in {"idle", "recover", "requeue", "enqueue", "launch"}
  /\ \A a \in Starters \cup {Loop} : pc[a] \in {"idle", "enqueue", "launch"}
  /\ pc[Watch] \in {"idle", "pop", "launch"}
  /\ pc[Janitor] \in {"idle", "delete"}
  /\ \A t \in Threads : pc[t] \in RunPoints \cup {"idle", "next", "pop", "launch"}

\* No request is served before the startup handler is done; it starts with
\* nothing in memory.
BootAlone ==
  /\ pc[Boot] # "idle" => \A a \in Starters \cup {Loop, Watch, Janitor} : pc[a] = "idle"
  /\ pc[Boot] = "recover" =>
       running = None /\ queue = <<>> /\ \A t \in Threads : pc[t] = "idle"

\* Actor a has job j in hand.
Placed(a, j) == arg[a] = j /\ pc[a] \in RunPoints \cup {"enqueue", "launch"}

\* A job that the startup handler has not come to is nowhere else.
TodoIsAhead ==
  /\ pc[Boot] \in {"idle", "recover"} => todo = {}
  /\ \A j \in todo : j # running /\ j \notin ToSet(queue) /\ \A a \in Actors : ~Placed(a, j)

BootInv == TypeInv /\ PointsOfActors /\ BootAlone /\ TodoIsAhead

\* Without POST /start every job is enqueued once in the life of a process.
NewIsNowhere ==
  \A j \in Jobs : status[j] = "none" =>
    j \notin {running} \cup ToSet(queue) \cup todo /\ \A a \in Actors : ~Placed(a, j)
EnqueuedIsFresh ==
  \A a \in Actors : pc[a] = "enqueue" =>
    /\ arg[a] \notin {running} \cup ToSet(queue)
    /\ \A b \in Actors \ {a} : ~Placed(b, arg[a])

OnceInv ==
  /\ BootInv /\ NoDuplicates
  /\ left["start"] = 0 /\ \A s \in Starters : pc[s] = "idle"
  /\ NewIsNowhere /\ EnqueuedIsFresh /\ RunningNotQueued

\* A deployment that has found the server idle finds no subprocess later on.
IdleIsQuiet == drain = "idle" => \A a \in Actors : pc[a] \notin ComputePoints

\* From where a job comes to a run or back to the queue.
HoldPoints == {"launch", "begin", "acquire", "waiting", "notAcquired", "got", "spawn",
               "wait", "return"}
Held(j) ==
  \/ j \in ToSet(queue) \cup todo
  \/ Placed(Boot, j)
  \/ \E a \in Actors : arg[a] = j /\ pc[a] \in HoldPoints

QueuedIsHeld ==
  pc[Boot] # "recover" => \A j \in Jobs : status[j] = "queued" => Held(j)

\* The thread that returns a job writes its row when others may have it already.
ReturnedIsHeld ==
  \A t \in Threads : pc[t] = "returned" => status[arg[t]] = "deleted" \/ Held(arg[t])

\* A job that computes is 'queued' only when a client has started it again.
ComputingIsAgain ==
  \A t \in Threads :
    /\ pc[t] \in {"spawn", "wait"} \/ (pc[t] = "begin" /\ ~Draining)
    /\ status[arg[t]] = "queued"
    => arg[t] \in ToSet(queue)

\* Not so where a subprocess that survived its server writes 'running' or an end.
RunningIsHeld ==
  ~ChildrenSurvive /\ pc[Boot] # "recover" =>
    \A j \in Jobs : status[j] = "running" =>
      \E t \in Threads : arg[t] = j /\ pc[t] \in RunPoints \ {"cleanup", "clear"}

EndIsWritten ==
  ~ChildrenSurvive => \A t \in Threads :
    child[t] \in {"mailing", "exit0"} => pc[t] = "wait" /\ status[arg[t]] # "running"

\* Without timeouts of the slot a wait ends for a deployment only.
AbortedForDeploy == \A t \in Threads : pc[t] = "notAcquired" => drain \in {"on", "idle"}

TableInv ==
  /\ BootInv /\ SlotInv /\ NoDuplicates
  /\ left["fault"] = 0 /\ left["timeout"] = 0
  /\ QueuedIsHeld /\ ReturnedIsHeld /\ ComputingIsAgain
  /\ RunningIsHeld /\ EndIsWritten /\ AbortedForDeploy

\* How many jobs the startup handler has yet to enqueue, and the bound on all of
\* those that wait or run meanwhile.
One(condition) == IF condition THEN 1 ELSE 0
QueuedRows == {j \in Jobs : status[j] = "queued"}
Room ==
  pc[Boot] # "idle" =>
    Len(queue) + Cardinality(todo) + One(pc[Boot] = "enqueue") + One(Busy) <= MaxQueue + 1
LimitInv ==
  /\ TableInv
  /\ left["deploy"] <= Budget["deploy"]
  /\ left["deploy"] = Budget["deploy"] =>
       /\ drain = "off" /\ Len(queue) <= MaxQueue /\ Room
       /\ pc[Boot] = "recover" => Cardinality(QueuedRows) <= MaxQueue + 1

\* What waits, is going to run or runs is neither finished nor deleted, and
\* db.delete_job has no such job in hand.
LivePoints == (HoldPoints \cup {"returned"}) \ {"wait"}
Live(a) == pc[a] \in LivePoints \/ (a \in Threads /\ child[a] \in {"started", "pipeline"})

WaitingRows ==
  /\ \A j \in ToSet(queue) : status[j] \in {"queued", "running"}
  /\ \A j \in todo : status[j] = "queued"
  /\ pc[Boot] = "enqueue" => status[arg[Boot]] = "queued"
LoopRows ==
  /\ pc[Loop] = "enqueue" => status[arg[Loop]] = "pending"
  /\ pc[Loop] = "launch" => status[arg[Loop]] \in Active
LiveRows ==
  \A a \in Actors \ {Loop} : Live(a) => status[arg[a]] \in {"queued", "running"}
ErrorIsOwners == \A t \in Threads : pc[t] = "error" => OneOwner
JanitorIsApart ==
  pc[Janitor] = "delete" =>
    /\ status[arg[Janitor]] # "none" /\ arg[Janitor] \notin ToSet(queue)
    /\ \A a \in Actors : arg[a] = arg[Janitor] => ~Live(a) /\ pc[a] # "enqueue"

KeptInv ==
  /\ OnceInv /\ SlotInv /\ left["fault"] = 0
  /\ WaitingRows /\ LoopRows /\ LiveRows /\ ErrorIsOwners /\ JanitorIsApart

-----------------------------------------------------------------------------
\* Liveness.

\* Every job that reached the queue or a run comes to an end, also over crashes
\* of the server: the table brings the waiting ones back.
AcceptedJobEnds ==
  \A j \in Jobs : status[j] \in {"queued", "running"} ~> status[j] \in Finished

=============================================================================
