------------------------------ MODULE SharedSlot ------------------------------
(***************************************************************************)
(* The slot shared by the instances of Podkladarna on one machine:         *)
(* app/slot_lock.py, as worker._run and worker.shared_busy use it.         *)
(*                                                                         *)
(* Every instance has one SharedSlot object, a mutex inside it, and the    *)
(* descriptor _fd through which it holds the lock of the file job.lock.    *)
(* The runner of an instance (one at a time: JobQueue!OneOwner) takes the  *)
(* slot, computes and releases it; requests of the web pages meanwhile     *)
(* probe whether another instance computes, and to find out they lock the  *)
(* file for a moment through a descriptor of their own.  The file lock is  *)
(* the kernel's (flock): it excludes descriptors, not processes, and is    *)
(* dropped when a process dies.                                            *)
(***************************************************************************)
EXTENDS Naturals

CONSTANTS
  Instances,   \* the server processes; each is also the name of its runner
  Probers,     \* threads that serve /api/health, /api/queue, ...
  HomeOf,      \* the instance of a prober
  Nobody,
  MaxCrashes   \* how often a process dies

Holders == Instances \cup Probers

ASSUME SlotConstantsOK ==
  /\ HomeOf \in [Probers -> Instances]
  /\ Instances \cap Probers = {}
  /\ Nobody \notin Holders
  /\ MaxCrashes \in Nat

VARIABLES
  owner,    \* whose descriptor has the file locked
  fd,       \* SharedSlot._fd is set
  mutex,    \* who is in a section of SharedSlot._mutex
  pc,       \* where each runner and each prober is
  crashes

vars == <<owner, fd, mutex, pc, crashes>>

RunnerPoints == {"idle", "try", "wait", "work", "leave", "closing"}
ProberPoints == {"idle", "probe", "probing"}

TypeOK ==
  /\ owner \in Holders \cup {Nobody}
  /\ fd \in [Instances -> BOOLEAN]
  /\ mutex \in [Instances -> Holders \cup {Nobody}]
  /\ pc \in [Holders -> RunnerPoints \cup ProberPoints]
  /\ \A t \in Probers : pc[t] \in ProberPoints
  /\ \A p \in Instances : pc[p] \in RunnerPoints
  /\ crashes \in 0..MaxCrashes

Init ==
  /\ owner = Nobody
  /\ fd = [p \in Instances |-> FALSE]
  /\ mutex = [p \in Instances |-> Nobody]
  /\ pc = [t \in Holders |-> "idle"]
  /\ crashes = 0

Goto(t, point) == pc' = [pc EXCEPT ![t] = point]

-----------------------------------------------------------------------------
\* The runner.

\* A job of this instance comes to SharedSlot.acquire.
Begin(p) ==
  /\ pc[p] = "idle"
  /\ Goto(p, "try")
  /\ UNCHANGED <<owner, fd, mutex, crashes>>

\* try_acquire: true at once if _fd is set, else the file decides.
TryAcquire(p) ==
  /\ pc[p] \in {"try", "wait"}
  /\ mutex[p] = Nobody
  /\ fd[p] \/ owner = Nobody
  /\ owner' = IF fd[p] THEN owner ELSE p
  /\ fd' = [fd EXCEPT ![p] = TRUE]
  /\ Goto(p, "work")
  /\ UNCHANGED <<mutex, crashes>>

\* The file is locked: on_wait, sleep, try again.
TryRefused(p) ==
  /\ pc[p] \in {"try", "wait"}
  /\ mutex[p] = Nobody
  /\ ~fd[p] /\ owner # Nobody
  /\ Goto(p, "wait")
  /\ UNCHANGED <<owner, fd, mutex, crashes>>

\* The job ends, or acquire gives up (timeout_s, abort): both come to the
\* finally branch of _run.
Leave(p) ==
  /\ pc[p] \in {"wait", "work"}
  /\ Goto(p, "leave")
  /\ UNCHANGED <<owner, fd, mutex, crashes>>

\* release of a slot that was never taken.
ReleaseNothing(p) ==
  /\ pc[p] = "leave"
  /\ mutex[p] = Nobody /\ ~fd[p]
  /\ Goto(p, "idle")
  /\ UNCHANGED <<owner, fd, mutex, crashes>>

\* Mutant of ReleaseUnlock: the mutex is left at once, with _fd still set.
ReleaseUnlockOnly(p) ==
  /\ pc[p] = "leave"
  /\ mutex[p] = Nobody /\ fd[p]
  /\ owner' = Nobody
  /\ Goto(p, "idle")
  /\ UNCHANGED <<fd, mutex, crashes>>

\* release: from here the file is free although _fd is still set ...
ReleaseUnlock(p) ==
  /\ pc[p] = "leave"
  /\ mutex[p] = Nobody /\ fd[p]
  /\ owner' = Nobody
  /\ mutex' = [mutex EXCEPT ![p] = p]
  /\ Goto(p, "closing")
  /\ UNCHANGED <<fd, crashes>>

\* ... until the descriptor is closed.
ReleaseClose(p) ==
  /\ pc[p] = "closing"
  /\ fd' = [fd EXCEPT ![p] = FALSE]
  /\ mutex' = [mutex EXCEPT ![p] = Nobody]
  /\ Goto(p, "idle")
  /\ UNCHANGED <<owner, crashes>>

-----------------------------------------------------------------------------
\* held_by_other.

\* The property held is read without the mutex.
ProbeLook(t) ==
  /\ pc[t] = "idle"
  /\ ~fd[HomeOf[t]]
  /\ Goto(t, "probe")
  /\ UNCHANGED <<owner, fd, mutex, crashes>>

\* Mutant of ProbeLock: without the mutex.
ProbeLockFreely(t) ==
  /\ pc[t] = "probe"
  /\ owner = Nobody
  /\ owner' = t
  /\ Goto(t, "probing")
  /\ UNCHANGED <<fd, mutex, crashes>>

\* The file is free: the answer will be no.
ProbeLock(t) ==
  /\ pc[t] = "probe"
  /\ mutex[HomeOf[t]] = Nobody
  /\ owner = Nobody
  /\ owner' = t
  /\ mutex' = [mutex EXCEPT ![HomeOf[t]] = t]
  /\ Goto(t, "probing")
  /\ UNCHANGED <<fd, crashes>>

\* Somebody has it locked: the answer is yes.
ProbeBusy(t) ==
  /\ pc[t] = "probe"
  /\ mutex[HomeOf[t]] = Nobody
  /\ owner # Nobody
  /\ Goto(t, "idle")
  /\ UNCHANGED <<owner, fd, mutex, crashes>>

\* Mutant of ProbeUnlock: the lock is not given back.
ProbeKeepsLock(t) ==
  /\ pc[t] = "probing"
  /\ mutex' = [mutex EXCEPT ![HomeOf[t]] = Nobody]
  /\ Goto(t, "idle")
  /\ UNCHANGED <<owner, fd, crashes>>

ProbeUnlock(t) ==
  /\ pc[t] = "probing"
  /\ owner' = Nobody
  /\ mutex' = [mutex EXCEPT ![HomeOf[t]] = Nobody]
  /\ Goto(t, "idle")
  /\ UNCHANGED <<fd, crashes>>

-----------------------------------------------------------------------------
\* A process dies with all its threads; the kernel closes its descriptors.
Crash(p) ==
  /\ crashes < MaxCrashes
  /\ crashes' = crashes + 1
  /\ owner' = IF owner = p \/ (owner \in Probers /\ HomeOf[owner] = p) THEN Nobody ELSE owner
  /\ fd' = [fd EXCEPT ![p] = FALSE]
  /\ mutex' = [mutex EXCEPT ![p] = Nobody]
  /\ pc' = [t \in Holders |->
              IF t = p \/ (t \in Probers /\ HomeOf[t] = p) THEN "idle" ELSE pc[t]]

Run(p) ==
  \/ Begin(p) \/ TryAcquire(p) \/ TryRefused(p) \/ Leave(p)
  \/ ReleaseNothing(p) \/ ReleaseUnlock(p) \/ ReleaseClose(p)

Probe(t) == ProbeLook(t) \/ ProbeLock(t) \/ ProbeBusy(t) \/ ProbeUnlock(t)

Next ==
  \/ \E p \in Instances : Run(p) \/ Crash(p)
  \/ \E t \in Probers : Probe(t)

Spec == Init /\ [][Next]_vars

-----------------------------------------------------------------------------
\* An instance computes only while the file is locked through its own
\* descriptor, so two instances never compute at the same time, whatever probes,
\* timeouts and crashes of the others do meanwhile.
ComputesWithLock == \A p \in Instances : pc[p] = "work" => owner = p

\* The slot cannot get stuck: a file that is locked has somebody who will
\* unlock it, a runner on its way through finally or a probe in its section.
LockHasOwner ==
  /\ \A p \in Instances : owner = p => pc[p] \in {"work", "leave"}
  /\ \A t \in Probers : owner = t => pc[t] = "probing"

\* A job never goes back to 'queued' (on_wait) because its own server was just
\* asked whether the other instance computes.
NotRefusedByOwnProbe ==
  [][\A p \in Instances, t \in Probers :
       pc[p] = "try" /\ pc'[p] = "wait" /\ HomeOf[t] = p => owner # t]_vars

\* From the end of acquire to release an instance has the abstract slot, whatever
\* the file says: of all instances one at a time, and never straight after another.
Computes(p) == pc[p] = "work" \/ (pc[p] = "leave" /\ fd[p])
holderOf == IF \E p \in Instances : Computes(p) THEN CHOOSE p \in Instances : Computes(p)
            ELSE Nobody
Slot == INSTANCE SlotMutex WITH holder <- holderOf
ImplementsSlotMutex == Slot!Spec

-----------------------------------------------------------------------------
\* Why: what the descriptor, the mutex and the points have to do with the lock.
SlotInv ==
  /\ TypeOK
  /\ \A p \in Instances :
       /\ owner = p <=> fd[p] /\ pc[p] # "closing"
       /\ pc[p] \in {"work", "closing"} => fd[p]
       /\ pc[p] \in {"idle", "try", "wait"} => ~fd[p]
       /\ pc[p] = "closing" <=> mutex[p] = p
  /\ \A t \in Probers :
       /\ owner = t <=> pc[t] = "probing"
       /\ pc[t] = "probing" => mutex[HomeOf[t]] = t
=============================================================================
