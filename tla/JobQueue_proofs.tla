--------------------------- MODULE JobQueue_proofs ---------------------------
(***************************************************************************)
(* Proofs about JobQueue, for every number of jobs, threads and clients    *)
(* and for every Budget, except where a theorem says otherwise:            *)
(*   TypeCorrect       the type invariant,                                 *)
(*   NoJobWaitsTwice   no job is in the queue twice,                       *)
(*   QueueIsServed     _running is always going to be cleared,             *)
(*   OneJobComputes    one job computes at a time, in this instance and    *)
(*                     over both instances,                                *)
(*   DeploymentIsGentle  a deployment never hits a job that computes,      *)
(*   QueueRefinement   the queue uses the slot as SlotMutex says.          *)
(***************************************************************************)
EXTENDS JobQueue, TLAPS

-----------------------------------------------------------------------------
(* Sequences. *)

LEMMA RemoveAtSeq ==
  ASSUME NEW S, NEW q \in Seq(S), NEW i \in 1..Len(q)
  PROVE  /\ RemoveAt(q, i) \in Seq(S)
         /\ Len(RemoveAt(q, i)) = Len(q) - 1
         /\ \A k \in 1..(Len(q) - 1) : RemoveAt(q, i)[k] = IF k < i THEN q[k] ELSE q[k + 1]
<1> DEFINE l == SubSeq(q, 1, i - 1)
           r == SubSeq(q, i + 1, Len(q))
<1>1. l \in Seq(S) /\ Len(l) = i - 1 /\ \A k \in 1..(i - 1) : l[k] = q[k]
  OBVIOUS
<1>2. r \in Seq(S) /\ Len(r) = Len(q) - i /\ \A k \in 1..(Len(q) - i) : r[k] = q[i + k]
  OBVIOUS
<1>3. RemoveAt(q, i) = l \o r
  BY DEF RemoveAt
<1> HIDE DEF l, r
<1>4. l \o r \in Seq(S) /\ Len(l \o r) = Len(q) - 1
  <2>1. l \in Seq(S) /\ r \in Seq(S) /\ Len(l) = i - 1 /\ Len(r) = Len(q) - i
    BY <1>1, <1>2
  <2>2. Len(q) \in Nat
    OBVIOUS
  <2> QED
    BY <2>1, <2>2
<1>5. ASSUME NEW k \in 1..(Len(q) - 1)
      PROVE  (l \o r)[k] = IF k < i THEN q[k] ELSE q[k + 1]
  BY <1>1, <1>2
<1> QED
  BY <1>3, <1>4, <1>5

\* What enqueue and _return_to_queue do: a job that is not there is added.
LEMMA AddedOnce ==
  ASSUME NEW S, NEW q \in Seq(S), IsInjective(q), NEW x \in S, x \notin ToSet(q)
  PROVE  IsInjective(Append(q, x)) /\ IsInjective(<<x>> \o q)
<1>1. \A k \in 1..Len(q) : q[k] # x
  BY DEF ToSet
<1>2. IsInjective(Append(q, x))
  BY <1>1 DEF IsInjective
<1>3. IsInjective(<<x>> \o q)
  <2>1. \A k \in 1..(Len(q) + 1) : (<<x>> \o q)[k] = IF k = 1 THEN x ELSE q[k - 1]
    OBVIOUS
  <2>2. DOMAIN (<<x>> \o q) = 1..(Len(q) + 1)
    OBVIOUS
  <2> QED
    BY <1>1, <2>1, <2>2 DEF IsInjective
<1> QED
  BY <1>2, <1>3

\* What _pop_next_queued does.
LEMMA RemovedStaysInjective ==
  ASSUME NEW S, NEW q \in Seq(S), IsInjective(q), NEW i \in 1..Len(q)
  PROVE  IsInjective(RemoveAt(q, i))
<1> DEFINE s == RemoveAt(q, i)
           at(k) == IF k < i THEN k ELSE k + 1
<1>1. DOMAIN s = 1..(Len(q) - 1) /\ \A k \in 1..(Len(q) - 1) : s[k] = q[at(k)]
  <2>1. s \in Seq(S) /\ Len(s) = Len(q) - 1
    BY RemoveAtSeq
  <2>2. \A k \in 1..(Len(q) - 1) : s[k] = IF k < i THEN q[k] ELSE q[k + 1]
    BY RemoveAtSeq
  <2> HIDE DEF s
  <2> QED
    BY <2>1, <2>2
<1> HIDE DEF s
<1>2. ASSUME NEW a \in DOMAIN s, NEW b \in DOMAIN s, s[a] = s[b] PROVE a = b
  <2>1. at(a) \in DOMAIN q /\ at(b) \in DOMAIN q /\ q[at(a)] = q[at(b)]
    BY <1>1, <1>2
  <2>2. at(a) = at(b)
    BY <2>1 DEF IsInjective
  <2> QED
    BY <1>1, <2>2
<1>3. IsInjective(s)
  BY <1>2 DEF IsInjective
<1> QED
  BY <1>3 DEF s

-----------------------------------------------------------------------------
(* The type invariant.  It needs to know that an actor on its way with a    *)
(* job has one, and that a subprocess belongs to a thread that waits for    *)
(* it, or to none.                                                          *)

LEMMA TypeInit == Init => TypeInv
<1> SUFFICES ASSUME Init PROVE TypeInv
  OBVIOUS
<1>1. queue \in Seq(Jobs)
  BY DEF Init
<1>2. left \in [Kinds -> Nat]
  BY ConstantsOK DEF Init, ConstantsOK
<1>3. /\ pc \in [Actors -> Points]
      /\ status \in [Jobs -> Statuses]
      /\ child \in [Threads -> ChildStates]
  BY DEF Init, Points, Statuses, ChildStates
<1>4. ArgIsJob /\ ChildHasThread
  BY DEF Init, ArgIsJob, ChildHasThread, RunPoints
<1> QED
  BY <1>1, <1>2, <1>3, <1>4 DEF Init, TypeInv, TypeOK

LEMMA StopServerType ==
  ASSUME TypeInv, StopServer, status' \in [Jobs -> Statuses], owner' \in [Jobs -> Ips],
         other' \in BOOLEAN, drain' \in {"off", "on", "idle", "swapped"},
         left' \in [Kinds -> Nat]
  PROVE  TypeInv'
<1>1. queue' \in Seq(Jobs) /\ running' \in Jobs \cup {None}
  <2>1. queue' = <<>>
    BY DEF StopServer
  <2> QED
    BY <2>1 DEF StopServer
<1>2. pc' \in [Actors -> Points]
  BY DEF StopServer, Points, Actors
<1>3. child' \in [Threads -> ChildStates] /\ arg' \in [Actors -> Jobs \cup {None}]
  BY DEF StopServer, TypeInv, TypeOK, ChildStates, Actors
<1>4. ArgIsJob' /\ ChildHasThread'
  BY ActorsDistinct
     DEF ActorsDistinct, StopServer, TypeInv, TypeOK, ArgIsJob, ChildHasThread, RunPoints, Actors
<1> QED
  BY <1>1, <1>2, <1>3, <1>4 DEF StopServer, TypeInv, TypeOK

LEMMA ChildStepType ==
  ASSUME TypeInv, NEW t \in Threads, NEW from \in Alive, NEW to \in ChildStates,
         NEW s \in Statuses \cup {"same"}, ChildStep(t, from, to, s)
  PROVE  TypeInv'
<1>1. status' \in [Jobs -> Statuses]
  BY DEF ChildStep, SetStatus, TypeInv, TypeOK, Statuses
<1>2. child' \in [Threads -> ChildStates] /\ arg' \in [Actors -> Jobs \cup {None}]
  BY DEF ChildStep, TypeInv, TypeOK, ChildStates
<1>3. ChildHasThread'
  BY DEF ChildStep, TypeInv, TypeOK, ChildHasThread, Alive
<1>4. ArgIsJob'
  BY DEF ChildStep, TypeInv, TypeOK, ArgIsJob, ChildHasThread, Alive, RunPoints, Actors
<1> QED
  BY <1>1, <1>2, <1>3, <1>4 DEF ChildStep, TypeInv, TypeOK

LEMMA PopNextType ==
  ASSUME TypeInv, NEW a \in Actors, NEW j \in Jobs, PopNext(a, j)
  PROVE  TypeInv' /\ \E i \in 1..Len(queue) : queue' = RemoveAt(queue, i)
<1> DEFINE i == CHOOSE i \in 1..Len(queue) : queue[i] = j
<1>1. \E k \in 1..Len(queue) : queue[k] = j
  BY DEF PopNext, IsBest, ToSet, TypeInv, TypeOK
<1>2. i \in 1..Len(queue)
  BY <1>1
<1>3. queue' \in Seq(Jobs)
  BY <1>2, RemoveAtSeq DEF PopNext, TypeInv, TypeOK
<1>4. running' \in Jobs /\ pc' \in [Actors -> Points] /\ arg' \in [Actors -> Jobs \cup {None}]
  BY DEF PopNext, TypeInv, TypeOK, Points
<1>5. ArgIsJob' /\ ChildHasThread'
  BY DEF PopNext, TypeInv, TypeOK, ArgIsJob, ChildHasThread, RunPoints
<1>6. TypeInv'
  BY <1>3, <1>4, <1>5 DEF PopNext, TypeInv, TypeOK
<1> QED
  BY <1>2, <1>6 DEF PopNext

LEMMA LaunchType ==
  ASSUME TypeInv, NEW a \in Actors, Launch(a)
  PROVE  TypeInv'
<1>1. status' \in [Jobs -> Statuses]
  BY DEF Launch, SetStatus, TypeInv, TypeOK, Statuses
<1>2. PICK t \in Threads :
        /\ pc[t] = "idle" /\ child[t] = "none"
        /\ pc' = [pc EXCEPT ![a] = IF a = Boot THEN "requeue" ELSE "idle", ![t] = "begin"]
        /\ arg' = [arg EXCEPT ![a] = None, ![t] = arg[a]]
  BY DEF Launch
<1>3. arg[a] \in Jobs /\ t # a /\ t \in Actors
  BY <1>2 DEF Launch, TypeInv, ArgIsJob, Actors
<1>4. pc' \in [Actors -> Points] /\ arg' \in [Actors -> Jobs \cup {None}]
  BY <1>2, <1>3 DEF TypeInv, TypeOK, Points, RunPoints
<1>5. ArgIsJob'
  BY <1>2, <1>3 DEF TypeInv, TypeOK, ArgIsJob, RunPoints
<1>6. ChildHasThread'
  BY ActorsDistinct, <1>2, <1>3
     DEF ActorsDistinct, Launch, TypeInv, TypeOK, ChildHasThread, RunPoints, Actors
<1> QED
  BY <1>1, <1>4, <1>5, <1>6 DEF Launch, TypeInv, TypeOK

LEMMA EnqueueFaultType ==
  ASSUME TypeInv, NEW a \in Actors, EnqueueFault(a)
  PROVE  TypeInv'
<1>1. status' \in [Jobs -> Statuses]
  BY DEF EnqueueFault, SetStatus, TypeInv, TypeOK, Statuses
<1>2. queue' \in Seq(Jobs)
  BY DEF EnqueueFault, TypeInv, TypeOK, ArgIsJob
<1>3. left' \in [Kinds -> Nat]
  BY DEF EnqueueFault, TypeInv, TypeOK, Spend, Kinds
<1>4. pc' \in [Actors -> Points] /\ arg' \in [Actors -> Jobs \cup {None}]
  BY DEF EnqueueFault, TypeInv, TypeOK, Return, Points
<1>5. ArgIsJob' /\ ChildHasThread'
  BY ActorsDistinct
     DEF ActorsDistinct, EnqueueFault, TypeInv, TypeOK, Return, ArgIsJob, ChildHasThread,
         RunPoints
<1> QED
  BY <1>1, <1>2, <1>3, <1>4, <1>5 DEF EnqueueFault, TypeInv, TypeOK

LEMMA RunFaultType ==
  ASSUME TypeInv, NEW t \in Threads, RunFault(t)
  PROVE  TypeInv'
<1>1. left' \in [Kinds -> Nat]
  BY DEF RunFault, Spend, TypeInv, TypeOK, Kinds
<1>2. t \in Actors
  BY DEF Actors
<1>3. pc' \in [Actors -> Points] /\ UNCHANGED arg
  BY <1>2 DEF RunFault, Goto, TypeInv, TypeOK, Points, RunPoints
<1>4. ArgIsJob' /\ ChildHasThread'
  BY <1>2, <1>3
     DEF RunFault, Goto, TypeInv, TypeOK, ArgIsJob, ChildHasThread, RunPoints, Actors
<1> QED
  BY <1>1, <1>3, <1>4 DEF RunFault, TypeInv, TypeOK

LEMMA LaunchFaultType ==
  ASSUME TypeInv, NEW a \in Actors, LaunchFault(a)
  PROVE  TypeInv'
<1>1. status' \in [Jobs -> Statuses]
  BY DEF LaunchFault, SetStatus, TypeInv, TypeOK, Statuses
<1>2. left' \in [Kinds -> Nat]
  BY DEF LaunchFault, TypeInv, TypeOK, Spend, Kinds
<1>3. pc' \in [Actors -> Points] /\ arg' \in [Actors -> Jobs \cup {None}]
  BY DEF LaunchFault, TypeInv, TypeOK, Return, Points
<1>4. ArgIsJob' /\ ChildHasThread'
  BY ActorsDistinct
     DEF ActorsDistinct, LaunchFault, TypeInv, TypeOK, Return, ArgIsJob, ChildHasThread,
         RunPoints
<1> QED
  BY <1>1, <1>2, <1>3, <1>4 DEF LaunchFault, TypeInv, TypeOK

LEMMA ChildExitedType ==
  ASSUME TypeInv, NEW t \in Threads, ChildExited(t)
  PROVE  TypeInv'
<1>1. status' \in [Jobs -> Statuses]
  BY DEF ChildExited, FailIfRunning, TypeInv, TypeOK, Statuses
<1>2. child' \in [Threads -> ChildStates]
  BY DEF ChildExited, TypeInv, TypeOK, ChildStates
<1>3. pc' \in [Actors -> Points] /\ UNCHANGED arg
  BY DEF ChildExited, Goto, TypeInv, TypeOK, Points, RunPoints
<1>4. ArgIsJob' /\ ChildHasThread'
  BY DEF ChildExited, Goto, TypeInv, TypeOK, ArgIsJob, ChildHasThread, RunPoints, Actors
<1> QED
  BY <1>1, <1>2, <1>3, <1>4 DEF ChildExited, TypeInv, TypeOK

LEMMA ResponseFaultType ==
  ASSUME TypeInv, NEW t \in Threads, ResponseFault(t)
  PROVE  TypeInv'
<1>1. status' \in [Jobs -> Statuses]
  BY DEF ResponseFault, SetStatus, TypeInv, TypeOK, Statuses
<1>2. left' \in [Kinds -> Nat]
  BY DEF ResponseFault, TypeInv, TypeOK, Spend, Kinds
<1>3. t # Loop /\ t \in Actors /\ Loop \in Actors /\ arg[Loop] \in Jobs
  BY ActorsDistinct DEF ActorsDistinct, ResponseFault, TypeInv, ArgIsJob, Actors
<1>4. pc' \in [Actors -> Points] /\ arg' \in [Actors -> Jobs \cup {None}]
  BY <1>3 DEF ResponseFault, TypeInv, TypeOK, Points, RunPoints
<1>5. ArgIsJob'
  BY <1>3 DEF ResponseFault, TypeInv, TypeOK, ArgIsJob, RunPoints
<1>6. ChildHasThread'
  BY ActorsDistinct, <1>3
     DEF ActorsDistinct, ResponseFault, TypeInv, TypeOK, ChildHasThread, RunPoints, Actors
<1> QED
  BY <1>1, <1>2, <1>4, <1>5, <1>6 DEF ResponseFault, TypeInv, TypeOK

LEMMA WaitFaultType ==
  ASSUME TypeInv, NEW t \in Threads, WaitFault(t)
  PROVE  TypeInv'
<1>1. left' \in [Kinds -> Nat]
  BY DEF WaitFault, TypeInv, TypeOK, Spend, Kinds
<1>2. child' \in [Threads -> ChildStates]
  BY DEF WaitFault, TypeInv, TypeOK, ChildStates
<1>3. pc' \in [Actors -> Points] /\ UNCHANGED arg
  BY DEF WaitFault, Goto, TypeInv, TypeOK, Points, RunPoints
<1>4. ArgIsJob' /\ ChildHasThread'
  BY DEF WaitFault, Goto, TypeInv, TypeOK, ArgIsJob, ChildHasThread, RunPoints, Actors
<1> QED
  BY <1>1, <1>2, <1>3, <1>4 DEF WaitFault, TypeInv, TypeOK

LEMMA TypeStep == TypeInv /\ [Next]_vars => TypeInv'
<1> SUFFICES ASSUME TypeInv, [Next]_vars PROVE TypeInv'
  OBVIOUS
<1> USE ActorsDistinct, NoneIsNoJob
    DEF ActorsDistinct, NoneIsNoJob, TypeInv, TypeOK, ArgIsJob, ChildHasThread, Actors,
        Statuses, Points, RunPoints, Alive, ChildStates
<1>1. ASSUME NEW j \in Jobs, CreateJob(j) PROVE TypeInv'
  BY <1>1 DEF CreateJob
<1>2. ASSUME NEW j \in Jobs, DeleteCheck(j) PROVE TypeInv'
  BY <1>2 DEF DeleteCheck
<1>3. ASSUME DeleteRow PROVE TypeInv'
  BY <1>3 DEF DeleteRow, Return
<1>4. ASSUME NEW s \in Starters, NEW j \in Jobs, StartJob(s, j) PROVE TypeInv'
  BY <1>4 DEF StartJob, Spend, Kinds
<1>5. ASSUME NEW a \in Actors, EnqueueRefused(a) PROVE TypeInv'
  BY <1>5 DEF EnqueueRefused, Return, SetStatus
<1>6. ASSUME NEW a \in Actors, EnqueueWaiting(a) PROVE TypeInv'
  BY <1>6 DEF EnqueueWaiting, Return, SetStatus
<1>7. ASSUME NEW a \in Actors, EnqueueFirst(a) PROVE TypeInv'
  BY <1>7 DEF EnqueueFirst, Goto
<1>8. ASSUME NEW a \in Actors, Launch(a) PROVE TypeInv'
  BY <1>8, LaunchType
<1>9. ASSUME NEW a \in Actors, NEW j \in Jobs, PopNext(a, j) PROVE TypeInv'
  BY <1>9, PopNextType
<1>10. ASSUME NEW a \in Actors, PopNothing(a) PROVE TypeInv'
  BY <1>10 DEF PopNothing, Goto
<1>11. ASSUME NEW a \in Actors, EnqueueFault(a) PROVE TypeInv'
  BY <1>11, EnqueueFaultType
<1>12. ASSUME NEW a \in Actors, LaunchFault(a) PROVE TypeInv'
  BY <1>12, LaunchFaultType
<1>13. ASSUME NEW t \in Threads, DirMissing(t) PROVE TypeInv'
  BY <1>13 DEF DirMissing, Goto
<1>14. ASSUME NEW t \in Threads, RunBegin(t) PROVE TypeInv'
  BY <1>14 DEF RunBegin, Goto
<1>15. ASSUME NEW t \in Threads, Acquire(t) PROVE TypeInv'
  BY <1>15 DEF Acquire, Goto
<1>16. ASSUME NEW t \in Threads, AcquireRefused(t) PROVE TypeInv'
  BY <1>16 DEF AcquireRefused, Goto, SetStatus
<1>17. ASSUME NEW t \in Threads, AcquireAborted(t) PROVE TypeInv'
  BY <1>17 DEF AcquireAborted, Goto
<1>18. ASSUME NEW t \in Threads, NotAcquired(t) PROVE TypeInv'
  BY <1>18 DEF NotAcquired, Goto
<1>19. ASSUME NEW t \in Threads, Acquired(t) PROVE TypeInv'
  BY <1>19 DEF Acquired, Goto, SetStatus
<1>20. ASSUME NEW t \in Threads, Spawn(t) PROVE TypeInv'
  BY <1>20 DEF Spawn, Goto
<1>21. ASSUME NEW t \in Threads, ChildExited(t) PROVE TypeInv'
  BY <1>21, ChildExitedType
<1>22. ASSUME NEW t \in Threads, RunError(t) PROVE TypeInv'
  BY <1>22 DEF RunError, Goto, FailIfRunning
<1>23. ASSUME NEW t \in Threads, ReturnToQueue(t) PROVE TypeInv'
  BY <1>23 DEF ReturnToQueue, Goto
<1>24. ASSUME NEW t \in Threads, ReturnedRow(t) PROVE TypeInv'
  BY <1>24 DEF ReturnedRow, Goto, SetStatus
<1>25. ASSUME NEW t \in Threads, ReleaseSlot(t) PROVE TypeInv'
  BY <1>25 DEF ReleaseSlot, Goto
<1>26. ASSUME NEW t \in Threads, ClearRunning(t) PROVE TypeInv'
  BY <1>26 DEF ClearRunning
<1>27. ASSUME NEW t \in Threads, NextCheck(t) PROVE TypeInv'
  BY <1>27 DEF NextCheck, Goto
<1>28. ASSUME NEW t \in Threads, AcquireTimedOut(t) PROVE TypeInv'
  BY <1>28 DEF AcquireTimedOut, Goto, Spend, Kinds
<1>29. ASSUME NEW t \in Threads, JobTimedOut(t) PROVE TypeInv'
  BY <1>29 DEF JobTimedOut, Goto, FailIfRunning
<1>30. ASSUME NEW t \in Threads, ChildStart(t) PROVE TypeInv'
  BY <1>30, ChildStepType DEF ChildStart
<1>31. ASSUME NEW t \in Threads, ChildNoJob(t) PROVE TypeInv'
  BY <1>31, ChildStepType DEF ChildNoJob
<1>32. ASSUME NEW t \in Threads, ChildDone(t) PROVE TypeInv'
  BY <1>32, ChildStepType DEF ChildDone
<1>33. ASSUME NEW t \in Threads, ChildFail(t) PROVE TypeInv'
  BY <1>33, ChildStepType DEF ChildFail
<1>34. ASSUME NEW t \in Threads, ChildExit(t) PROVE TypeInv'
  BY <1>34, ChildStepType DEF ChildExit
<1>35. ASSUME NEW t \in Threads, ChildKilled(t) PROVE TypeInv'
  BY <1>35, ChildStepType DEF ChildKilled
<1>36. ASSUME NEW t \in Threads, RunFault(t) PROVE TypeInv'
  BY <1>36, RunFaultType
<1>37. ASSUME NEW t \in Threads, ChildFault(t) PROVE TypeInv'
  BY <1>37 DEF ChildFault, Spend, SetStatus, Kinds
<1>38. ASSUME WatchTick PROVE TypeInv'
  BY <1>38 DEF WatchTick, Goto
<1>39. ASSUME Crash PROVE TypeInv'
  BY <1>39, StopServerType DEF Crash, Spend, Kinds
<1>40. ASSUME Recover PROVE TypeInv'
  BY <1>40 DEF Recover, Goto
<1>41. ASSUME NEW j \in Jobs, Requeue(j) PROVE TypeInv'
  BY <1>41 DEF Requeue
<1>42. ASSUME BootDone PROVE TypeInv'
  BY <1>42 DEF BootDone, Goto
<1>43. ASSUME DeployBegin PROVE TypeInv'
  BY <1>43 DEF DeployBegin, Spend, Kinds
<1>44. ASSUME DeployFindsIdle PROVE TypeInv'
  BY <1>44 DEF DeployFindsIdle
<1>45. ASSUME DeployRestart PROVE TypeInv'
  BY <1>45, StopServerType DEF DeployRestart
<1>46. ASSUME DeployRestartUnheard PROVE TypeInv'
  BY <1>46, StopServerType DEF DeployRestartUnheard, Spend, Kinds
<1>47. ASSUME DeployEnd PROVE TypeInv'
  BY <1>47 DEF DeployEnd
<1>48. ASSUME DeployGivesUp PROVE TypeInv'
  BY <1>48 DEF DeployGivesUp
<1>49. ASSUME DeployInterrupted PROVE TypeInv'
  BY <1>49 DEF DeployInterrupted, Spend, Kinds
<1>50. ASSUME OtherTakes PROVE TypeInv'
  BY <1>50 DEF OtherTakes, Spend, Kinds
<1>51. ASSUME OtherReleases PROVE TypeInv'
  BY <1>51 DEF OtherReleases
<1>52. ASSUME Quiet PROVE TypeInv'
  BY <1>52 DEF Quiet, vars
<1>53. CASE UNCHANGED vars
  BY <1>53 DEF vars
<1>54. ASSUME LogFault PROVE TypeInv'
  BY <1>54 DEF LogFault, Return, Spend, Kinds
<1>55. ASSUME NEW t \in Threads, ResponseFault(t) PROVE TypeInv'
  BY <1>55, ResponseFaultType
<1>56. ASSUME NEW t \in Threads, WaitFault(t) PROVE TypeInv'
  BY <1>56, WaitFaultType
<1> QED
  BY <1>1, <1>2, <1>3, <1>4, <1>5, <1>6, <1>7, <1>8, <1>9, <1>10, <1>11, <1>12,
     <1>13, <1>14, <1>15, <1>16, <1>17, <1>18, <1>19, <1>20, <1>21, <1>22, <1>23, <1>24,
     <1>25, <1>26, <1>27, <1>28, <1>29, <1>30, <1>31, <1>32, <1>33, <1>34, <1>35, <1>36,
     <1>37, <1>38, <1>39, <1>40, <1>41, <1>42, <1>43, <1>44, <1>45, <1>46, <1>47, <1>48,
     <1>49, <1>50, <1>51, <1>52, <1>53, <1>54, <1>55, <1>56
     DEF Next, Enqueue, RunStep, ChildWork, Startup, Pop

\* The type invariant of the queue: every handler leaves every variable in its set.
THEOREM TypeCorrect == Spec => []TypeOK
<1>1. TypeInv => TypeOK
  BY DEF TypeInv
<1> QED
  BY <1>1, TypeInit, TypeStep, PTL DEF Spec

-----------------------------------------------------------------------------
(* No job is in the queue twice. *)

LEMMA NoDuplicatesStep == TypeInv /\ NoDuplicates /\ [Next]_vars => NoDuplicates'
<1> SUFFICES ASSUME TypeInv, NoDuplicates, [Next]_vars PROVE NoDuplicates'
  OBVIOUS
<1>1. ASSUME NEW a \in Actors, EnqueueWaiting(a) \/ EnqueueFault(a) PROVE NoDuplicates'
  <2>1. arg[a] \in Jobs
    BY <1>1 DEF EnqueueWaiting, EnqueueFault, TypeInv, ArgIsJob
  <2>2. queue' = IF arg[a] \in ToSet(queue) THEN queue ELSE Append(queue, arg[a])
    BY <1>1 DEF EnqueueWaiting, EnqueueFault
  <2>3. queue \in Seq(Jobs) /\ IsInjective(queue)
    BY DEF NoDuplicates, TypeInv, TypeOK
  <2>4. CASE arg[a] \in ToSet(queue)
    BY <2>2, <2>3, <2>4 DEF NoDuplicates
  <2>5. CASE arg[a] \notin ToSet(queue)
    BY <2>1, <2>2, <2>3, <2>5, AddedOnce DEF NoDuplicates
  <2> QED
    BY <2>4, <2>5
<1>2. ASSUME NEW t \in Threads, ReturnToQueue(t) PROVE NoDuplicates'
  <2>1. arg[t] \in Jobs
    BY <1>2 DEF ReturnToQueue, TypeInv, ArgIsJob, RunPoints, Actors
  <2> QED
    BY <1>2, <2>1, AddedOnce DEF ReturnToQueue, NoDuplicates, TypeInv, TypeOK
<1>3. ASSUME NEW a \in Actors, NEW j \in Jobs, PopNext(a, j) PROVE NoDuplicates'
  BY <1>3, PopNextType, RemovedStaysInjective DEF NoDuplicates, TypeInv, TypeOK
<1>4. CASE StopServer
  BY <1>4 DEF StopServer, NoDuplicates, IsInjective
<1>5. CASE UNCHANGED queue
  BY <1>5 DEF NoDuplicates
<1>6. ASSUME NEW a \in Actors, Enqueue(a) \/ Launch(a) \/ Pop(a) PROVE NoDuplicates'
  BY <1>1, <1>3, <1>5, <1>6
     DEF Enqueue, EnqueueRefused, EnqueueFirst, Launch, Pop, PopNothing
<1>7. ASSUME NEW a \in Actors, EnqueueFault(a) \/ LaunchFault(a) PROVE NoDuplicates'
  BY <1>1, <1>5, <1>7 DEF LaunchFault
<1>8. ASSUME NEW t \in Threads, RunStep(t) \/ AcquireTimedOut(t) \/ JobTimedOut(t)
      PROVE  NoDuplicates'
  BY <1>2, <1>5, <1>8
     DEF RunStep, DirMissing, RunBegin, Acquire, AcquireRefused, AcquireAborted, NotAcquired,
         Acquired, Spawn, ChildExited, RunError, ReturnedRow, ReleaseSlot, ClearRunning,
         NextCheck, AcquireTimedOut, JobTimedOut
<1>9. ASSUME NEW t \in Threads, ChildWork(t) \/ ChildKilled(t) \/ RunFault(t) \/ ChildFault(t)
      PROVE  NoDuplicates'
  BY <1>5, <1>9
     DEF ChildWork, ChildStart, ChildNoJob, ChildDone, ChildFail, ChildExit, ChildKilled,
         ChildStep, RunFault, ChildFault
<1>13. ASSUME NEW t \in Threads, WaitFault(t) \/ ResponseFault(t) PROVE NoDuplicates'
  BY <1>5, <1>13 DEF WaitFault, ResponseFault
<1>14. CASE LogFault
  BY <1>5, <1>14 DEF LogFault
<1>10. CASE Crash \/ DeployRestart \/ DeployRestartUnheard
  BY <1>4, <1>10 DEF Crash, DeployRestart, DeployRestartUnheard
<1>11. CASE \/ \E j \in Jobs : CreateJob(j) \/ DeleteCheck(j)
            \/ \E s \in Starters, j \in Jobs : StartJob(s, j)
            \/ DeleteRow \/ WatchTick \/ Startup
  BY <1>5, <1>11 DEF CreateJob, DeleteCheck, StartJob, DeleteRow, WatchTick, Startup, Recover,
                     Requeue, BootDone
<1>12. CASE \/ DeployBegin \/ DeployFindsIdle \/ DeployEnd \/ DeployGivesUp
            \/ DeployInterrupted \/ OtherTakes \/ OtherReleases \/ Quiet
            \/ UNCHANGED vars
  BY <1>5, <1>12 DEF DeployBegin, DeployFindsIdle, DeployEnd, DeployGivesUp, DeployInterrupted,
                     OtherTakes, OtherReleases, Quiet, vars
<1> QED
  BY <1>6, <1>7, <1>8, <1>9, <1>10, <1>11, <1>12, <1>13, <1>14 DEF Next

\* A job waits at most once, whatever clients, crashes, faults and deployments do.
THEOREM NoJobWaitsTwice == Spec => []NoDuplicates
<1>1. Init => NoDuplicates
  BY DEF Init, NoDuplicates, IsInjective
<1> QED
  BY <1>1, TypeInit, TypeStep, NoDuplicatesStep, PTL DEF Spec

-----------------------------------------------------------------------------
(* _running is always going to be cleared.  Only a failing database         *)
(* statement between setting _running and starting the thread breaks this.  *)

OwnerInv == TypeInv /\ left["fault"] = 0 /\ RunningHasOwner

LEMMA OwnerStep == OwnerInv /\ [Next]_vars => OwnerInv'
<1> SUFFICES ASSUME OwnerInv, [Next]_vars PROVE OwnerInv'
  OBVIOUS
<1> TypeInv'
  BY TypeStep DEF OwnerInv
<1> USE ActorsDistinct, NoneIsNoJob
    DEF OwnerInv, RunningHasOwner, ActorsDistinct, NoneIsNoJob, TypeInv, TypeOK, ArgIsJob,
        ChildHasThread, Actors, RunPoints, Alive, Busy
<1>1. ASSUME NEW j \in Jobs, CreateJob(j) PROVE OwnerInv'
  BY <1>1 DEF CreateJob
<1>2. ASSUME NEW j \in Jobs, DeleteCheck(j) PROVE OwnerInv'
  BY <1>2 DEF DeleteCheck
<1>3. ASSUME DeleteRow PROVE OwnerInv'
  BY <1>3 DEF DeleteRow, Return
<1>4. ASSUME NEW s \in Starters, NEW j \in Jobs, StartJob(s, j) PROVE OwnerInv'
  BY <1>4 DEF StartJob, Spend, Kinds
<1>5. ASSUME NEW a \in Actors, EnqueueRefused(a) PROVE OwnerInv'
  BY <1>5 DEF EnqueueRefused, Return, SetStatus
<1>6. ASSUME NEW a \in Actors, EnqueueWaiting(a) PROVE OwnerInv'
  BY <1>6 DEF EnqueueWaiting, Return, SetStatus
<1>7. ASSUME NEW a \in Actors, EnqueueFirst(a) PROVE OwnerInv'
  BY <1>7 DEF EnqueueFirst, Goto
<1>8. ASSUME NEW a \in Actors, Launch(a) PROVE OwnerInv'
  <2>1. PICK t \in Threads :
          /\ pc[t] = "idle" /\ child[t] = "none"
          /\ pc' = [pc EXCEPT ![a] = IF a = Boot THEN "requeue" ELSE "idle", ![t] = "begin"]
          /\ arg' = [arg EXCEPT ![a] = None, ![t] = arg[a]]
    BY <1>8 DEF Launch
  <2>2. t \in Actors /\ t # a
    BY <1>8, <2>1 DEF Launch
  <2> QED
    BY <1>8, <2>1, <2>2 DEF Launch
<1>9. ASSUME NEW a \in Actors, NEW j \in Jobs, PopNext(a, j) PROVE OwnerInv'
  BY <1>9 DEF PopNext
<1>10. ASSUME NEW a \in Actors, PopNothing(a) PROVE OwnerInv'
  BY <1>10 DEF PopNothing, Goto
<1>11. ASSUME NEW a \in Actors, EnqueueFault(a) PROVE OwnerInv'
  BY <1>11 DEF EnqueueFault, Return, SetStatus, Spend, Kinds
<1>12. ASSUME NEW a \in Actors, LaunchFault(a) PROVE OwnerInv'
  BY <1>12 DEF LaunchFault, Return, SetStatus, Spend, Kinds
<1>13. ASSUME NEW t \in Threads, DirMissing(t) PROVE OwnerInv'
  BY <1>13 DEF DirMissing, Goto
<1>14. ASSUME NEW t \in Threads, RunBegin(t) PROVE OwnerInv'
  BY <1>14 DEF RunBegin, Goto
<1>15. ASSUME NEW t \in Threads, Acquire(t) PROVE OwnerInv'
  BY <1>15 DEF Acquire, Goto
<1>16. ASSUME NEW t \in Threads, AcquireRefused(t) PROVE OwnerInv'
  BY <1>16 DEF AcquireRefused, Goto, SetStatus
<1>17. ASSUME NEW t \in Threads, AcquireAborted(t) PROVE OwnerInv'
  BY <1>17 DEF AcquireAborted, Goto
<1>18. ASSUME NEW t \in Threads, NotAcquired(t) PROVE OwnerInv'
  BY <1>18 DEF NotAcquired, Goto
<1>19. ASSUME NEW t \in Threads, Acquired(t) PROVE OwnerInv'
  BY <1>19 DEF Acquired, Goto, SetStatus
<1>20. ASSUME NEW t \in Threads, Spawn(t) PROVE OwnerInv'
  BY <1>20 DEF Spawn, Goto
<1>21. ASSUME NEW t \in Threads, ChildExited(t) PROVE OwnerInv'
  BY <1>21 DEF ChildExited, Goto, FailIfRunning
<1>22. ASSUME NEW t \in Threads, RunError(t) PROVE OwnerInv'
  BY <1>22 DEF RunError, Goto, FailIfRunning
<1>23. ASSUME NEW t \in Threads, ReturnToQueue(t) PROVE OwnerInv'
  BY <1>23 DEF ReturnToQueue, Goto
<1>24. ASSUME NEW t \in Threads, ReturnedRow(t) PROVE OwnerInv'
  BY <1>24 DEF ReturnedRow, Goto, SetStatus
<1>25. ASSUME NEW t \in Threads, ReleaseSlot(t) PROVE OwnerInv'
  BY <1>25 DEF ReleaseSlot, Goto
<1>26. ASSUME NEW t \in Threads, ClearRunning(t) PROVE OwnerInv'
  BY <1>26 DEF ClearRunning
<1>27. ASSUME NEW t \in Threads, NextCheck(t) PROVE OwnerInv'
  BY <1>27 DEF NextCheck, Goto
<1>28. ASSUME NEW t \in Threads, AcquireTimedOut(t) PROVE OwnerInv'
  BY <1>28 DEF AcquireTimedOut, Goto, Spend, Kinds
<1>29. ASSUME NEW t \in Threads, JobTimedOut(t) PROVE OwnerInv'
  BY <1>29 DEF JobTimedOut, Goto, FailIfRunning
<1>30. ASSUME NEW t \in Threads, ChildStart(t) PROVE OwnerInv'
  BY <1>30 DEF ChildStart, ChildStep, SetStatus
<1>31. ASSUME NEW t \in Threads, ChildNoJob(t) PROVE OwnerInv'
  BY <1>31 DEF ChildNoJob, ChildStep, SetStatus
<1>32. ASSUME NEW t \in Threads, ChildDone(t) PROVE OwnerInv'
  BY <1>32 DEF ChildDone, ChildStep, SetStatus
<1>33. ASSUME NEW t \in Threads, ChildFail(t) PROVE OwnerInv'
  BY <1>33 DEF ChildFail, ChildStep, SetStatus
<1>34. ASSUME NEW t \in Threads, ChildExit(t) PROVE OwnerInv'
  BY <1>34 DEF ChildExit, ChildStep, SetStatus
<1>35. ASSUME NEW t \in Threads, ChildKilled(t) PROVE OwnerInv'
  BY <1>35 DEF ChildKilled, ChildStep, SetStatus
<1>36. ASSUME NEW t \in Threads, RunFault(t) PROVE OwnerInv'
  BY <1>36 DEF RunFault, Goto, Spend, Kinds
<1>37. ASSUME NEW t \in Threads, ChildFault(t) PROVE OwnerInv'
  BY <1>37 DEF ChildFault, Spend, SetStatus, Kinds
<1>38. ASSUME WatchTick PROVE OwnerInv'
  BY <1>38 DEF WatchTick, Goto
<1>39. ASSUME Crash PROVE OwnerInv'
  BY <1>39 DEF Crash, Spend, StopServer, Kinds
<1>40. ASSUME Recover PROVE OwnerInv'
  BY <1>40 DEF Recover, Goto
<1>41. ASSUME NEW j \in Jobs, Requeue(j) PROVE OwnerInv'
  BY <1>41 DEF Requeue
<1>42. ASSUME BootDone PROVE OwnerInv'
  BY <1>42 DEF BootDone, Goto
<1>43. ASSUME DeployBegin PROVE OwnerInv'
  BY <1>43 DEF DeployBegin, Spend, Kinds
<1>44. ASSUME DeployFindsIdle PROVE OwnerInv'
  BY <1>44 DEF DeployFindsIdle
<1>45. ASSUME DeployRestart PROVE OwnerInv'
  BY <1>45 DEF DeployRestart, StopServer
<1>46. ASSUME DeployRestartUnheard PROVE OwnerInv'
  BY <1>46 DEF DeployRestartUnheard, Spend, StopServer, Kinds
<1>47. ASSUME DeployEnd PROVE OwnerInv'
  BY <1>47 DEF DeployEnd
<1>48. ASSUME DeployGivesUp PROVE OwnerInv'
  BY <1>48 DEF DeployGivesUp
<1>49. ASSUME DeployInterrupted PROVE OwnerInv'
  BY <1>49 DEF DeployInterrupted, Spend, Kinds
<1>50. ASSUME OtherTakes PROVE OwnerInv'
  BY <1>50 DEF OtherTakes, Spend, Kinds
<1>51. ASSUME OtherReleases PROVE OwnerInv'
  BY <1>51 DEF OtherReleases
<1>52. ASSUME Quiet PROVE OwnerInv'
  BY <1>52 DEF Quiet, vars
<1>53. CASE UNCHANGED vars
  BY <1>53 DEF vars
<1>54. ASSUME LogFault PROVE OwnerInv'
  BY <1>54 DEF LogFault, Spend
<1>55. ASSUME NEW t \in Threads, ResponseFault(t) PROVE OwnerInv'
  BY <1>55 DEF ResponseFault, Spend
<1>56. ASSUME NEW t \in Threads, WaitFault(t) PROVE OwnerInv'
  BY <1>56 DEF WaitFault, Spend
<1> QED
  BY <1>1, <1>2, <1>3, <1>4, <1>5, <1>6, <1>7, <1>8, <1>9, <1>10, <1>11, <1>12,
     <1>13, <1>14, <1>15, <1>16, <1>17, <1>18, <1>19, <1>20, <1>21, <1>22, <1>23, <1>24,
     <1>25, <1>26, <1>27, <1>28, <1>29, <1>30, <1>31, <1>32, <1>33, <1>34, <1>35, <1>36,
     <1>37, <1>38, <1>39, <1>40, <1>41, <1>42, <1>43, <1>44, <1>45, <1>46, <1>47, <1>48,
     <1>49, <1>50, <1>51, <1>52, <1>53, <1>54, <1>55, <1>56
     DEF Next, Enqueue, RunStep, ChildWork, Startup, Pop

\* As long as no database statement fails, _running is set only while some thread
\* is on its way to clear it and to start the next job.
THEOREM QueueIsServed ==
  ASSUME Budget["fault"] = 0
  PROVE  Spec => []RunningHasOwner
<1>1. Init => OwnerInv
  BY TypeInit DEF OwnerInv, Init, RunningHasOwner, Busy
<1>2. OwnerInv => RunningHasOwner
  BY DEF OwnerInv
<1> QED
  BY <1>1, <1>2, OwnerStep, PTL DEF Spec

-----------------------------------------------------------------------------
(* One job computes at a time.  SlotInv is inductive: either the thread     *)
(* that works on _running is the only one between setting and clearing it,  *)
(* or a deployment has sent a job back to the queue; then several threads   *)
(* may be in their finally branches, but none computes and none will before *)
(* the restart.  An interrupted deployment breaks the second case.          *)

LEMMA SlotInit ==
  ASSUME Budget["interrupt"] = 0
  PROVE  Init => SlotInv
<1> SUFFICES ASSUME Init PROVE SlotInv
  OBVIOUS
<1>1. \A a \in Actors : pc[a] = "idle"
  BY DEF Init
<1>2. TypeInv /\ left["interrupt"] = 0
  BY TypeInit DEF Init
<1>3. AliveIsWaitedFor /\ SlotExclusive
  BY DEF Init, AliveIsWaitedFor, SlotExclusive, Alive
<1>4. SlotHeld /\ SwappedIsQuiet /\ ReturnsForDeploy
  BY <1>1 DEF Init, SlotHeld, SwappedIsQuiet, ReturnsForDeploy, Actors
<1>5. OneOwner
  BY <1>1 DEF OneOwner, OwnPoints, RunPoints
<1> QED
  BY <1>2, <1>3, <1>4, <1>5 DEF SlotInv

LEMMA SlotStep == SlotInv /\ [Next]_vars => SlotInv'
<1> SUFFICES ASSUME SlotInv, [Next]_vars PROVE SlotInv'
  OBVIOUS
<1> TypeInv'
  BY TypeStep DEF SlotInv
<1> USE ActorsDistinct, NoneIsNoJob
    DEF SlotInv, AliveIsWaitedFor, SlotExclusive, SlotHeld, SwappedIsQuiet, ReturnsForDeploy,
        OneOwner, NoneComputes, ActorsDistinct, NoneIsNoJob, TypeInv, TypeOK, ArgIsJob,
        ChildHasThread, OwnPoints, ComputePoints, RunPoints, Actors, Alive, Busy, Draining, Up
<1>1. ASSUME NEW j \in Jobs, CreateJob(j) PROVE SlotInv'
  BY <1>1 DEF CreateJob
<1>2. ASSUME NEW j \in Jobs, DeleteCheck(j) PROVE SlotInv'
  BY <1>2 DEF DeleteCheck
<1>3. ASSUME DeleteRow PROVE SlotInv'
  BY <1>3 DEF DeleteRow, Return
<1>4. ASSUME NEW s \in Starters, NEW j \in Jobs, StartJob(s, j) PROVE SlotInv'
  BY <1>4 DEF StartJob, Spend, Kinds
<1>5. ASSUME NEW a \in Actors, EnqueueRefused(a) PROVE SlotInv'
  BY <1>5 DEF EnqueueRefused, Return, SetStatus
<1>6. ASSUME NEW a \in Actors, EnqueueWaiting(a) PROVE SlotInv'
  BY <1>6 DEF EnqueueWaiting, Return, SetStatus
<1>7. ASSUME NEW a \in Actors, EnqueueFirst(a) PROVE SlotInv'
  BY <1>7 DEF EnqueueFirst, Goto
<1>8. ASSUME NEW a \in Actors, Launch(a) PROVE SlotInv'
  <2>1. PICK t \in Threads :
          /\ pc[t] = "idle" /\ child[t] = "none"
          /\ pc' = [pc EXCEPT ![a] = IF a = Boot THEN "requeue" ELSE "idle", ![t] = "begin"]
          /\ arg' = [arg EXCEPT ![a] = None, ![t] = arg[a]]
    BY <1>8 DEF Launch
  <2>2. t \in Actors /\ t # a
    BY <1>8, <2>1 DEF Launch
  <2>3. /\ pc[a] = "launch" /\ pc'[t] = "begin" /\ pc'[a] \in {"idle", "requeue"}
        /\ arg'[t] = arg[a] /\ running' = running /\ drain' = drain
        /\ \A b \in Actors \ {a, t} : pc'[b] = pc[b] /\ arg'[b] = arg[b]
    BY <1>8, <2>1, <2>2 DEF Launch
  <2>4. AliveIsWaitedFor' /\ SlotExclusive' /\ SlotHeld'
    BY <1>8, <2>1, <2>2, <2>3 DEF Launch
  <2>5. SwappedIsQuiet' /\ ReturnsForDeploy'
    BY <2>2, <2>3
  <2>6. ASSUME OneOwner PROVE OneOwner'
    <3>1. arg'[t] = running'
      BY <2>3, <2>6
    <3>2. ASSUME NEW b \in Actors \ {a, t} PROVE pc'[b] \notin OwnPoints \cup {"returned"}
      BY <2>3, <2>6
    <3>3. ASSUME NEW b \in Actors, pc'[b] \in OwnPoints \cup {"returned"}
          PROVE  b = t /\ pc'[b] # "returned"
      BY <2>3, <3>2, <3>3
    <3> QED
      BY <3>1, <3>3
  <2>7. ASSUME NoneComputes PROVE NoneComputes'
    BY <2>2, <2>3, <2>7
  <2>8. OneOwner' \/ NoneComputes'
    BY <2>6, <2>7
  <2> QED
    BY <1>8, <2>4, <2>5, <2>8 DEF Launch
<1>9. ASSUME NEW a \in Actors, NEW j \in Jobs, PopNext(a, j) PROVE SlotInv'
  BY <1>9 DEF PopNext
<1>10. ASSUME NEW a \in Actors, PopNothing(a) PROVE SlotInv'
  BY <1>10 DEF PopNothing, Goto
<1>11. ASSUME NEW a \in Actors, EnqueueFault(a) PROVE SlotInv'
  BY <1>11 DEF EnqueueFault, Return, SetStatus, Spend, Kinds
<1>12. ASSUME NEW a \in Actors, LaunchFault(a) PROVE SlotInv'
  BY <1>12 DEF LaunchFault, Return, SetStatus, Spend, Kinds
<1>13. ASSUME NEW t \in Threads, DirMissing(t) PROVE SlotInv'
  BY <1>13 DEF DirMissing, Goto
<1>14. ASSUME NEW t \in Threads, RunBegin(t) PROVE SlotInv'
  BY <1>14 DEF RunBegin, Goto
<1>15. ASSUME NEW t \in Threads, Acquire(t) PROVE SlotInv'
  BY <1>15 DEF Acquire, Goto
<1>16. ASSUME NEW t \in Threads, AcquireRefused(t) PROVE SlotInv'
  BY <1>16 DEF AcquireRefused, Goto, SetStatus
<1>17. ASSUME NEW t \in Threads, AcquireAborted(t) PROVE SlotInv'
  BY <1>17 DEF AcquireAborted, Goto
<1>18. ASSUME NEW t \in Threads, NotAcquired(t) PROVE SlotInv'
  BY <1>18 DEF NotAcquired, Goto
<1>19. ASSUME NEW t \in Threads, Acquired(t) PROVE SlotInv'
  <2>1. t \in Actors /\ pc[t] = "got" /\ OneOwner
    BY <1>19 DEF Acquired
  <2>2. CASE Draining
    BY <1>19, <2>1, <2>2 DEF Acquired, Goto
  <2>3. CASE ~Draining
    BY <1>19, <2>1, <2>3 DEF Acquired, Goto
  <2> QED
    BY <2>2, <2>3
<1>20. ASSUME NEW t \in Threads, Spawn(t) PROVE SlotInv'
  BY <1>20 DEF Spawn, Goto
<1>21. ASSUME NEW t \in Threads, ChildExited(t) PROVE SlotInv'
  BY <1>21 DEF ChildExited, Goto, FailIfRunning
<1>22. ASSUME NEW t \in Threads, RunError(t) PROVE SlotInv'
  BY <1>22 DEF RunError, Goto, FailIfRunning
<1>23. ASSUME NEW t \in Threads, ReturnToQueue(t) PROVE SlotInv'
  BY <1>23 DEF ReturnToQueue, Goto
<1>24. ASSUME NEW t \in Threads, ReturnedRow(t) PROVE SlotInv'
  BY <1>24 DEF ReturnedRow, Goto, SetStatus
<1>25. ASSUME NEW t \in Threads, ReleaseSlot(t) PROVE SlotInv'
  BY <1>25 DEF ReleaseSlot, Goto
<1>26. ASSUME NEW t \in Threads, ClearRunning(t) PROVE SlotInv'
  BY <1>26 DEF ClearRunning
<1>27. ASSUME NEW t \in Threads, NextCheck(t) PROVE SlotInv'
  BY <1>27 DEF NextCheck, Goto
<1>28. ASSUME NEW t \in Threads, AcquireTimedOut(t) PROVE SlotInv'
  BY <1>28 DEF AcquireTimedOut, Goto, Spend, Kinds
<1>29. ASSUME NEW t \in Threads, JobTimedOut(t) PROVE SlotInv'
  BY <1>29 DEF JobTimedOut, Goto, FailIfRunning
<1>30. ASSUME NEW t \in Threads, ChildStart(t) PROVE SlotInv'
  BY <1>30 DEF ChildStart, ChildStep, SetStatus
<1>31. ASSUME NEW t \in Threads, ChildNoJob(t) PROVE SlotInv'
  BY <1>31 DEF ChildNoJob, ChildStep, SetStatus
<1>32. ASSUME NEW t \in Threads, ChildDone(t) PROVE SlotInv'
  BY <1>32 DEF ChildDone, ChildStep, SetStatus
<1>33. ASSUME NEW t \in Threads, ChildFail(t) PROVE SlotInv'
  BY <1>33 DEF ChildFail, ChildStep, SetStatus
<1>34. ASSUME NEW t \in Threads, ChildExit(t) PROVE SlotInv'
  BY <1>34 DEF ChildExit, ChildStep, SetStatus
<1>35. ASSUME NEW t \in Threads, ChildKilled(t) PROVE SlotInv'
  BY <1>35 DEF ChildKilled, ChildStep, SetStatus
<1>36. ASSUME NEW t \in Threads, RunFault(t) PROVE SlotInv'
  BY <1>36 DEF RunFault, Goto, Spend, Kinds
<1>37. ASSUME NEW t \in Threads, ChildFault(t) PROVE SlotInv'
  BY <1>37 DEF ChildFault, Spend, SetStatus, Kinds
<1>38. ASSUME WatchTick PROVE SlotInv'
  BY <1>38 DEF WatchTick, Goto
<1>39. ASSUME Crash PROVE SlotInv'
  BY <1>39 DEF Crash, Spend, StopServer, Kinds
<1>40. ASSUME Recover PROVE SlotInv'
  BY <1>40 DEF Recover, Goto
<1>41. ASSUME NEW j \in Jobs, Requeue(j) PROVE SlotInv'
  BY <1>41 DEF Requeue
<1>42. ASSUME BootDone PROVE SlotInv'
  BY <1>42 DEF BootDone, Goto
<1>43. ASSUME DeployBegin PROVE SlotInv'
  BY <1>43 DEF DeployBegin, Spend, Kinds
<1>44. ASSUME DeployFindsIdle PROVE SlotInv'
  BY <1>44 DEF DeployFindsIdle
<1>45. ASSUME DeployRestart PROVE SlotInv'
  BY <1>45 DEF DeployRestart, StopServer
<1>46. ASSUME DeployRestartUnheard PROVE SlotInv'
  BY <1>46 DEF DeployRestartUnheard, Spend, StopServer, Kinds
<1>47. ASSUME DeployEnd PROVE SlotInv'
  BY <1>47 DEF DeployEnd
<1>48. ASSUME DeployGivesUp PROVE SlotInv'
  BY <1>48 DEF DeployGivesUp
<1>49. ASSUME DeployInterrupted PROVE SlotInv'
  BY <1>49 DEF DeployInterrupted, Spend, Kinds
<1>50. ASSUME OtherTakes PROVE SlotInv'
  BY <1>50 DEF OtherTakes, Spend, Kinds
<1>51. ASSUME OtherReleases PROVE SlotInv'
  BY <1>51 DEF OtherReleases
<1>52. ASSUME Quiet PROVE SlotInv'
  BY <1>52 DEF Quiet, vars
<1>53. CASE UNCHANGED vars
  BY <1>53 DEF vars
<1>54. ASSUME LogFault PROVE SlotInv'
  BY <1>54 DEF LogFault, Return, Spend, Kinds
<1>55. ASSUME NEW t \in Threads, ResponseFault(t) PROVE SlotInv'
  <2>1. t # Loop /\ t \in Actors /\ Loop \in Actors
    OBVIOUS
  <2>2. /\ pc[Loop] = "launch" /\ pc'[t] = "begin" /\ pc'[Loop] = "idle"
        /\ arg'[t] = arg[Loop] /\ running' = running /\ drain' = drain
        /\ \A b \in Actors \ {Loop, t} : pc'[b] = pc[b] /\ arg'[b] = arg[b]
    BY <1>55, <2>1 DEF ResponseFault
  <2>3. AliveIsWaitedFor' /\ SlotExclusive' /\ SlotHeld'
    BY <1>55, <2>1, <2>2 DEF ResponseFault
  <2>4. SwappedIsQuiet' /\ ReturnsForDeploy'
    BY <2>1, <2>2
  <2>5. ASSUME OneOwner PROVE OneOwner'
    <3>1. arg'[t] = running'
      BY <2>1, <2>2, <2>5
    <3>2. ASSUME NEW b \in Actors \ {Loop, t} PROVE pc'[b] \notin OwnPoints \cup {"returned"}
      BY <2>1, <2>2, <2>5
    <3>3. ASSUME NEW b \in Actors, pc'[b] \in OwnPoints \cup {"returned"}
          PROVE  b = t /\ pc'[b] # "returned"
      BY <2>2, <3>2, <3>3
    <3> QED
      BY <3>1, <3>3
  <2>6. ASSUME NoneComputes PROVE NoneComputes'
    BY <2>1, <2>2, <2>6
  <2>7. left'["interrupt"] = 0
    BY <1>55 DEF ResponseFault, Spend, Kinds
  <2> QED
    BY <2>3, <2>4, <2>5, <2>6, <2>7
<1>56. ASSUME NEW t \in Threads, WaitFault(t) PROVE SlotInv'
  BY <1>56 DEF WaitFault, Goto, Spend, Kinds
<1> QED
  BY <1>1, <1>2, <1>3, <1>4, <1>5, <1>6, <1>7, <1>8, <1>9, <1>10, <1>11, <1>12,
     <1>13, <1>14, <1>15, <1>16, <1>17, <1>18, <1>19, <1>20, <1>21, <1>22, <1>23, <1>24,
     <1>25, <1>26, <1>27, <1>28, <1>29, <1>30, <1>31, <1>32, <1>33, <1>34, <1>35, <1>36,
     <1>37, <1>38, <1>39, <1>40, <1>41, <1>42, <1>43, <1>44, <1>45, <1>46, <1>47, <1>48,
     <1>49, <1>50, <1>51, <1>52, <1>53, <1>54, <1>55, <1>56
     DEF Next, Enqueue, RunStep, ChildWork, Startup, Pop

\* Unless a deployment is interrupted, no two subprocesses of this instance
\* compute at once, and none computes without the lock of the shared slot, which
\* the other instance then does not have.
THEOREM OneJobComputes ==
  ASSUME Budget["interrupt"] = 0, ~ChildrenSurvive
  PROVE  Spec => [](OneComputing /\ SlotHeldWhileComputing)
<1>1. SlotInv => OneComputing /\ SlotHeldWhileComputing
  BY DEF SlotInv, OneOwner, NoneComputes, AliveIsWaitedFor, SlotExclusive, SlotHeld,
         OneComputing, SlotHeldWhileComputing, OwnPoints, ComputePoints, RunPoints, Actors
<1> QED
  BY <1>1, SlotInit, SlotStep, PTL DEF Spec

-----------------------------------------------------------------------------
(* The external events. *)

\* The budget of external events changes only where one of them is spent.
LEMMA SpendOrNot == [Next]_vars => UNCHANGED left \/ \E kind \in Kinds : Spend(kind)
<1> USE DEF Kinds
<1>1. ASSUME NEW a \in Actors, Enqueue(a) \/ Launch(a) \/ Pop(a) PROVE UNCHANGED left
  BY <1>1 DEF Enqueue, EnqueueRefused, EnqueueWaiting, EnqueueFirst, Launch, Pop, PopNext,
              PopNothing
<1>2. ASSUME NEW a \in Actors, EnqueueFault(a) \/ LaunchFault(a) PROVE Spend("fault")
  BY <1>2 DEF EnqueueFault, LaunchFault
<1>3. ASSUME NEW t \in Threads, RunStep(t) \/ JobTimedOut(t) PROVE UNCHANGED left
  BY <1>3 DEF RunStep, DirMissing, RunBegin, Acquire, AcquireRefused, AcquireAborted,
              NotAcquired, Acquired, Spawn, ChildExited, RunError, ReturnToQueue, ReturnedRow,
              ReleaseSlot, ClearRunning, NextCheck, JobTimedOut
<1>4. ASSUME NEW t \in Threads, ChildWork(t) \/ ChildKilled(t) PROVE UNCHANGED left
  BY <1>4 DEF ChildWork, ChildStart, ChildNoJob, ChildDone, ChildFail, ChildExit, ChildKilled,
              ChildStep
<1>5. ASSUME NEW t \in Threads, AcquireTimedOut(t) \/ RunFault(t) \/ WaitFault(t)
                                  \/ ResponseFault(t) \/ ChildFault(t)
      PROVE  Spend("fault") \/ Spend("timeout")
  BY <1>5 DEF AcquireTimedOut, RunFault, WaitFault, ResponseFault, ChildFault
<1>6. CASE \/ \E j \in Jobs : CreateJob(j) \/ DeleteCheck(j)
           \/ DeleteRow \/ WatchTick \/ Startup
  BY <1>6 DEF CreateJob, DeleteCheck, DeleteRow, WatchTick, Startup, Recover, Requeue, BootDone
<1>7. CASE LogFault \/ \E s \in Starters, j \in Jobs : StartJob(s, j)
  BY <1>7 DEF LogFault, StartJob
<1> QED
  BY <1>1, <1>2, <1>3, <1>4, <1>5, <1>6, <1>7
     DEF Next, Crash, DeployBegin, DeployFindsIdle, DeployRestart, DeployRestartUnheard,
         DeployEnd, DeployGivesUp, DeployInterrupted, OtherTakes, OtherReleases, Quiet, vars

\* An external event that may not happen never happens.
LEMMA NothingLeft ==
  ASSUME TypeOK, NEW kind \in Kinds, left[kind] = 0, [Next]_vars
  PROVE  left'[kind] = 0
BY SpendOrNot DEF TypeOK, Spend

-----------------------------------------------------------------------------
(* A deployment interrupts nothing.  When it hears "busy": false nobody is  *)
(* in between setting and clearing _running, and from then on is_draining   *)
(* keeps every thread away from the points that lead to a subprocess.       *)

\* The mark of a deployment changes only by the deployment.
LEMMA DrainStep ==
  ASSUME [Next]_vars, drain' # drain
  PROVE  \/ DeployBegin \/ DeployFindsIdle \/ DeployRestart \/ DeployRestartUnheard
         \/ DeployEnd \/ DeployGivesUp \/ DeployInterrupted
<1>1. ASSUME NEW a \in Actors, Enqueue(a) \/ Launch(a) \/ Pop(a) PROVE FALSE
  BY <1>1 DEF Enqueue, EnqueueRefused, EnqueueWaiting, EnqueueFirst, Launch, Pop, PopNext,
              PopNothing
<1>2. ASSUME NEW a \in Actors, EnqueueFault(a) \/ LaunchFault(a) PROVE FALSE
  BY <1>2 DEF EnqueueFault, LaunchFault
<1>3. ASSUME NEW t \in Threads, RunStep(t) PROVE FALSE
  BY <1>3 DEF RunStep, DirMissing, RunBegin, Acquire, AcquireRefused, AcquireAborted,
              NotAcquired, Acquired, Spawn, ChildExited, RunError, ReturnToQueue, ReturnedRow,
              ReleaseSlot, ClearRunning, NextCheck
<1>4. ASSUME NEW t \in Threads, AcquireTimedOut(t) \/ JobTimedOut(t) \/ RunFault(t)
                                  \/ WaitFault(t) \/ ResponseFault(t)
      PROVE  FALSE
  BY <1>4 DEF AcquireTimedOut, JobTimedOut, RunFault, WaitFault, ResponseFault
<1>5. ASSUME NEW t \in Threads, ChildWork(t) \/ ChildKilled(t) \/ ChildFault(t) PROVE FALSE
  BY <1>5 DEF ChildWork, ChildStart, ChildNoJob, ChildDone, ChildFail, ChildExit, ChildKilled,
              ChildStep, ChildFault
<1>6. CASE \/ \E j \in Jobs : CreateJob(j) \/ DeleteCheck(j)
           \/ \E s \in Starters, j \in Jobs : StartJob(s, j)
           \/ DeleteRow \/ LogFault \/ WatchTick \/ Startup
  BY <1>6 DEF CreateJob, DeleteCheck, StartJob, DeleteRow, LogFault, WatchTick, Startup,
              Recover, Requeue, BootDone
<1> QED
  BY <1>1, <1>2, <1>3, <1>4, <1>5, <1>6
     DEF Next, Crash, OtherTakes, OtherReleases, Quiet, vars

LEMMA IdleStep ==
  ASSUME ~ChildrenSurvive
  PROVE  SlotInv /\ IdleIsQuiet /\ [Next]_vars => IdleIsQuiet'
<1> SUFFICES ASSUME SlotInv, IdleIsQuiet, [Next]_vars PROVE IdleIsQuiet'
  OBVIOUS
<1> USE DEF IdleIsQuiet, ComputePoints, SlotInv, TypeInv, TypeOK, Actors
<1>1. ASSUME drain' = "idle", drain # "idle" PROVE IdleIsQuiet'
  <2>1. DeployFindsIdle
    BY <1>1, DrainStep DEF DeployBegin, DeployRestart, DeployRestartUnheard, DeployEnd,
                           DeployGivesUp, DeployInterrupted
  <2>2. running = None /\ UNCHANGED <<running, pc, arg>>
    BY <2>1 DEF DeployFindsIdle, Busy
  <2>3. ASSUME NEW a \in Actors PROVE pc[a] \notin ComputePoints
    BY <2>2, NoneIsNoJob
       DEF OneOwner, NoneComputes, OwnPoints, RunPoints, ArgIsJob, NoneIsNoJob
  <2> QED
    BY <2>2, <2>3
<1>2. ASSUME drain = "idle", NEW a \in Actors, pc'[a] \in ComputePoints PROVE FALSE
  <2> USE ActorsDistinct DEF ActorsDistinct, Draining
  <2>1. ASSUME NEW b \in Actors, Enqueue(b) \/ Launch(b) \/ Pop(b) PROVE FALSE
    BY <1>2, <2>1 DEF Enqueue, EnqueueRefused, EnqueueWaiting, EnqueueFirst, Return, Goto,
                      Launch, Pop, PopNext, PopNothing
  <2>2. ASSUME NEW b \in Actors, EnqueueFault(b) \/ LaunchFault(b) PROVE FALSE
    BY <1>2, <2>2 DEF EnqueueFault, LaunchFault, Return
  <2>3. ASSUME NEW t \in Threads, RunStep(t) PROVE FALSE
    BY <1>2, <2>3
       DEF RunStep, DirMissing, RunBegin, Acquire, AcquireRefused, AcquireAborted,
           NotAcquired, Acquired, Spawn, ChildExited, RunError, ReturnToQueue, ReturnedRow,
           ReleaseSlot, ClearRunning, NextCheck, Goto
  <2>4. ASSUME NEW t \in Threads, AcquireTimedOut(t) \/ JobTimedOut(t) PROVE FALSE
    BY <1>2, <2>4 DEF AcquireTimedOut, JobTimedOut, Goto
  <2>5. ASSUME NEW t \in Threads, ChildWork(t) \/ ChildKilled(t) \/ ChildFault(t) PROVE FALSE
    BY <1>2, <2>5 DEF ChildWork, ChildStart, ChildNoJob, ChildDone, ChildFail, ChildExit,
                      ChildKilled, ChildStep, ChildFault
  <2>6. ASSUME NEW t \in Threads, RunFault(t) \/ WaitFault(t) \/ ResponseFault(t) PROVE FALSE
    BY <1>2, <2>6 DEF RunFault, WaitFault, ResponseFault, Goto
  <2>7. ASSUME StopServer PROVE FALSE
    BY <1>2, <2>7 DEF StopServer
  <2>8. CASE \/ \E j \in Jobs : CreateJob(j) \/ DeleteCheck(j)
             \/ \E s \in Starters, j \in Jobs : StartJob(s, j)
             \/ DeleteRow \/ LogFault \/ WatchTick \/ Startup
    BY <1>2, <2>8 DEF CreateJob, DeleteCheck, StartJob, DeleteRow, LogFault, WatchTick, Startup,
                      Recover, Requeue, BootDone, Goto, Return
  <2>9. CASE UNCHANGED pc
    BY <1>2, <2>9
  <2> QED
    BY <2>1, <2>2, <2>3, <2>4, <2>5, <2>6, <2>7, <2>8, <2>9
       DEF Next, Crash, DeployBegin, DeployFindsIdle, DeployRestart, DeployRestartUnheard,
           DeployEnd, DeployGivesUp, DeployInterrupted, OtherTakes, OtherReleases, Quiet, vars
<1> QED
  BY <1>1, <1>2

\* Unless a deployment is interrupted, or restarts a server that did not answer, the
\* restart never hits a job that computes.
THEOREM DeploymentIsGentle ==
  ASSUME Budget["interrupt"] = 0, Budget["unheard"] = 0, ~ChildrenSurvive
  PROVE  Spec => DeployInterruptsNothing
<1> DEFINE Inv == SlotInv /\ IdleIsQuiet /\ left["unheard"] = 0
           Gentle == drain # "swapped" /\ drain' = "swapped" =>
                       \A t \in Threads : child[t] \notin Alive
<1>1. Init => Inv
  BY SlotInit DEF Init, IdleIsQuiet
<1>2. Inv /\ [Next]_vars => Inv'
  BY SlotStep, IdleStep, NothingLeft DEF SlotInv, TypeInv, Kinds
<1>3. Inv /\ [Next]_vars => [Gentle]_vars
  <2> SUFFICES ASSUME Inv, [Next]_vars, drain # "swapped", drain' = "swapped"
               PROVE  \A t \in Threads : child[t] \notin Alive
    OBVIOUS
  <2>1. DeployRestart
    BY DrainStep, NothingLeft DEF DeployBegin, DeployFindsIdle, DeployRestartUnheard, DeployEnd,
                                  DeployGivesUp, DeployInterrupted, Spend
  <2>2. \A a \in Actors : pc[a] # "wait"
    BY <2>1 DEF DeployRestart, IdleIsQuiet, ComputePoints
  <2> QED
    BY <2>2 DEF SlotInv, AliveIsWaitedFor, Actors
<1> QED
  BY <1>1, <1>2, <1>3, PTL DEF Spec, DeployInterruptsNothing

-----------------------------------------------------------------------------
(* The queue implements SlotMutex: the lock of the slot goes from one       *)
(* instance to the other only through nobody.                               *)

\* What a step does to the lock of this instance and of the other one.
LEMMA LockStep ==
  ASSUME slotFd \in BOOLEAN, other \in BOOLEAN, [Next]_vars
  PROVE  \/ slotFd' = slotFd /\ other' = other
         \/ (slotFd \/ ~other) /\ slotFd' = TRUE /\ other' = other
         \/ slotFd' = FALSE /\ other' = other
         \/ ~slotFd /\ ~other /\ other' = TRUE /\ slotFd' = slotFd
         \/ other /\ other' = FALSE /\ slotFd' = slotFd
<1>1. ASSUME NEW a \in Actors, Enqueue(a) \/ Launch(a) \/ Pop(a)
      PROVE  slotFd' = slotFd /\ other' = other
  BY <1>1 DEF Enqueue, EnqueueRefused, EnqueueWaiting, EnqueueFirst, Launch, Pop, PopNext,
              PopNothing
<1>2. ASSUME NEW a \in Actors, EnqueueFault(a) \/ LaunchFault(a)
      PROVE  slotFd' = slotFd /\ other' = other
  BY <1>2 DEF EnqueueFault, LaunchFault
<1>3. ASSUME NEW t \in Threads, Acquire(t)
      PROVE  (slotFd \/ ~other) /\ slotFd' = TRUE /\ other' = other
  BY <1>3 DEF Acquire
<1>4. ASSUME NEW t \in Threads, ReleaseSlot(t) PROVE slotFd' = FALSE /\ other' = other
  BY <1>4 DEF ReleaseSlot
<1>5. ASSUME NEW t \in Threads, RunStep(t), ~Acquire(t), ~ReleaseSlot(t)
      PROVE  slotFd' = slotFd /\ other' = other
  BY <1>5 DEF RunStep, DirMissing, RunBegin, AcquireRefused, AcquireAborted, NotAcquired,
              Acquired, Spawn, ChildExited, RunError, ReturnToQueue, ReturnedRow,
              ClearRunning, NextCheck
<1>6. ASSUME NEW t \in Threads, AcquireTimedOut(t) \/ JobTimedOut(t) \/ RunFault(t)
                                  \/ WaitFault(t) \/ ResponseFault(t)
      PROVE  slotFd' = slotFd /\ other' = other
  BY <1>6 DEF AcquireTimedOut, JobTimedOut, RunFault, WaitFault, ResponseFault
<1>7. ASSUME NEW t \in Threads, ChildWork(t) \/ ChildKilled(t) \/ ChildFault(t)
      PROVE  slotFd' = slotFd /\ other' = other
  BY <1>7 DEF ChildWork, ChildStart, ChildNoJob, ChildDone, ChildFail, ChildExit, ChildKilled,
              ChildStep, ChildFault
<1>8. CASE Crash \/ DeployRestart \/ DeployRestartUnheard
  BY <1>8 DEF Crash, DeployRestart, DeployRestartUnheard, StopServer
<1>9. CASE \/ \E j \in Jobs : CreateJob(j) \/ DeleteCheck(j)
           \/ \E s \in Starters, j \in Jobs : StartJob(s, j)
           \/ DeleteRow \/ LogFault \/ WatchTick \/ Startup
  BY <1>9 DEF CreateJob, DeleteCheck, StartJob, DeleteRow, LogFault, WatchTick, Startup,
              Recover, Requeue, BootDone
<1>10. CASE OtherTakes
  BY <1>10 DEF OtherTakes
<1>11. CASE OtherReleases
  BY <1>11 DEF OtherReleases
<1> QED
  BY <1>1, <1>2, <1>3, <1>4, <1>5, <1>6, <1>7, <1>8, <1>9, <1>10, <1>11
     DEF Next, DeployBegin, DeployFindsIdle, DeployEnd, DeployGivesUp, DeployInterrupted,
         Quiet, vars

\* What the queue does with the slot is what SlotMutex promises, for every Budget and
\* also where subprocesses survive: it is taken only when it is free.
THEOREM QueueRefinement == Spec => ImplementsSlotMutex
<1> DEFINE Inv == slotFd \in BOOLEAN /\ other \in BOOLEAN /\ SlotExclusive
<1>1. Init => Inv /\ Slot!Init
  BY DEF Init, SlotExclusive, Slot!Init, slotHolder
<1>2. Inv /\ [Next]_vars => Inv'
  BY LockStep DEF SlotExclusive
<1>3. Inv /\ [Next]_vars => [Slot!Next]_slotHolder
  <2> SUFFICES ASSUME Inv, [Next]_vars PROVE Slot!Next \/ slotHolder' = slotHolder
    OBVIOUS
  <2>1. \/ (slotFd' <=> slotFd) /\ (other' <=> other)
        \/ ~slotFd /\ ~other
        \/ ~slotFd' /\ ~other'
    <3>1. Inv'
      BY <1>2
    <3> QED
      BY <3>1, LockStep, Zenon DEF SlotExclusive
  <2>2. CASE (slotFd' <=> slotFd) /\ (other' <=> other)
    BY <2>2 DEF slotHolder
  <2>3. CASE ~slotFd /\ ~other
    BY <2>3 DEF Slot!Next, Slot!Take, slotHolder
  <2>4. CASE ~slotFd' /\ ~other'
    BY <2>4 DEF Slot!Next, Slot!Drop, slotHolder
  <2> QED
    BY <2>1, <2>2, <2>3, <2>4
<1> QED
  BY <1>1, <1>2, <1>3, PTL DEF Spec, ImplementsSlotMutex, Slot!Spec

=============================================================================
