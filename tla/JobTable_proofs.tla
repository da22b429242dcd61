---------------------------- MODULE JobTable_proofs ----------------------------
(***************************************************************************)
(* Proofs about JobQueue: what the startup handler may rely on (BootInv)   *)
(* and who acts on the rows of the jobs table.                             *)
(*   RunningWaitsNot  on a server on which no client starts a job a second *)
(*                    time, a job waits or runs but not both (OnceInv),    *)
(*   ComputingStays,  there, a job that computes is neither deleted nor    *)
(*   EndIsFinal       overwritten, and what has ended stays (KeptInv),     *)
(*   TableIsTrue      also with second starts, over crashes, deployments   *)
(*                    and deletions, 'queued' and 'running' rows have      *)
(*                    someone to act on them (TableInv),                   *)
(*   NoJobIsForgotten for 'queued' rows even where subprocesses survive    *)
(*                    a restart of the server,                             *)
(*   QueueIsBounded   no more jobs wait than MAX_QUEUE_SIZE before the     *)
(*                    first deployment (LimitInv).                         *)
(***************************************************************************)
EXTENDS JobQueue_proofs, FiniteSetTheorems

-----------------------------------------------------------------------------
(* The queue as a set. *)

LEMMA AppendedSet ==
  ASSUME NEW S, NEW q \in Seq(S), NEW x \in S
  PROVE  ToSet(Append(q, x)) = ToSet(q) \cup {x}
<1>1. /\ DOMAIN Append(q, x) = 1..(Len(q) + 1)
      /\ \A k \in 1..(Len(q) + 1) : Append(q, x)[k] = IF k = Len(q) + 1 THEN x ELSE q[k]
  OBVIOUS
<1>2. ASSUME NEW y \in ToSet(q) PROVE y \in ToSet(Append(q, x))
  BY <1>1 DEF ToSet
<1>3. x \in ToSet(Append(q, x))
  <2>1. Len(q) + 1 \in 1..(Len(q) + 1) /\ Append(q, x)[Len(q) + 1] = x
    BY <1>1
  <2> QED
    BY <1>1, <2>1 DEF ToSet
<1>4. ASSUME NEW y \in ToSet(Append(q, x)) PROVE y \in ToSet(q) \cup {x}
  BY <1>1, <1>4 DEF ToSet
<1> QED
  BY <1>2, <1>3, <1>4

LEMMA PrependedSet ==
  ASSUME NEW S, NEW q \in Seq(S), NEW x \in S
  PROVE  ToSet(<<x>> \o q) = ToSet(q) \cup {x}
<1>1. /\ DOMAIN (<<x>> \o q) = 1..(Len(q) + 1)
      /\ \A k \in 1..(Len(q) + 1) : (<<x>> \o q)[k] = IF k = 1 THEN x ELSE q[k - 1]
  OBVIOUS
<1>2. ASSUME NEW y \in ToSet(q) PROVE y \in ToSet(<<x>> \o q)
  <2>1. PICK k \in 1..Len(q) : q[k] = y
    BY DEF ToSet
  <2>2. k + 1 \in 1..(Len(q) + 1) /\ (<<x>> \o q)[k + 1] = y
    BY <1>1, <2>1
  <2> QED
    BY <1>1, <2>2 DEF ToSet
<1>3. x \in ToSet(<<x>> \o q)
  <2>1. 1 \in 1..(Len(q) + 1) /\ (<<x>> \o q)[1] = x
    BY <1>1
  <2> QED
    BY <1>1, <2>1 DEF ToSet
<1>4. ASSUME NEW y \in ToSet(<<x>> \o q) PROVE y \in ToSet(q) \cup {x}
  BY <1>1, <1>4 DEF ToSet
<1> QED
  BY <1>2, <1>3, <1>4

LEMMA RemovedSet ==
  ASSUME NEW S, NEW q \in Seq(S), IsInjective(q), NEW i \in 1..Len(q)
  PROVE  ToSet(RemoveAt(q, i)) = ToSet(q) \ {q[i]}
<1> DEFINE s == RemoveAt(q, i)
<1>1. /\ DOMAIN s = 1..(Len(q) - 1)
      /\ \A k \in 1..(Len(q) - 1) : s[k] = IF k < i THEN q[k] ELSE q[k + 1]
  <2>1. s \in Seq(S) /\ Len(s) = Len(q) - 1
    BY RemoveAtSeq
  <2>2. \A k \in 1..(Len(q) - 1) : s[k] = IF k < i THEN q[k] ELSE q[k + 1]
    BY RemoveAtSeq
  <2> HIDE DEF s
  <2> QED
    BY <2>1, <2>2
<1> HIDE DEF s
<1>2. ASSUME NEW y \in ToSet(s) PROVE y \in ToSet(q) \ {q[i]}
  <2>1. PICK k \in 1..(Len(q) - 1) : s[k] = y
    BY <1>1 DEF ToSet
  <2>2. CASE k < i
    BY <1>1, <2>1, <2>2 DEF ToSet, IsInjective
  <2>3. CASE ~(k < i)
    BY <1>1, <2>1, <2>3 DEF ToSet, IsInjective
  <2> QED
    BY <2>2, <2>3
<1>3. ASSUME NEW y \in ToSet(q), y # q[i] PROVE y \in ToSet(s)
  <2>1. PICK k \in 1..Len(q) : q[k] = y
    BY DEF ToSet
  <2>2. CASE k < i
    <3>1. k \in 1..(Len(q) - 1) /\ s[k] = y
      BY <1>1, <2>1, <2>2
    <3> QED
      BY <1>1, <3>1 DEF ToSet
  <2>3. CASE k > i
    <3>1. k - 1 \in 1..(Len(q) - 1) /\ s[k - 1] = y
      BY <1>1, <2>1, <2>3
    <3> QED
      BY <1>1, <3>1 DEF ToSet
  <2> QED
    BY <1>3, <2>1, <2>2, <2>3
<1> QED
  BY <1>2, <1>3 DEF s

\* enqueue adds its job, if it is not there.
LEMMA WaitingSet ==
  ASSUME TypeInv, NEW a \in Actors, EnqueueWaiting(a) \/ EnqueueFault(a)
  PROVE  /\ arg[a] \in Jobs
         /\ ToSet(queue') = ToSet(queue) \cup {arg[a]}
         /\ Len(queue') \in {Len(queue), Len(queue) + 1}
<1>1. arg[a] \in Jobs /\ queue \in Seq(Jobs)
  BY DEF EnqueueWaiting, EnqueueFault, TypeInv, TypeOK, ArgIsJob
<1>2. CASE queue' = queue /\ arg[a] \in ToSet(queue)
  <2>1. Len(queue') = Len(queue)
    BY <1>2
  <2> QED
    BY <1>1, <1>2, <2>1
<1>3. CASE queue' = Append(queue, arg[a])
  <2>1. Len(queue') = Len(queue) + 1
    BY <1>1, <1>3
  <2>2. ToSet(Append(queue, arg[a])) = ToSet(queue) \cup {arg[a]}
    BY <1>1, AppendedSet
  <2> QED
    BY <1>1, <1>3, <2>1, <2>2
<1>4. queue' = IF arg[a] \in ToSet(queue) THEN queue ELSE Append(queue, arg[a])
  BY DEF EnqueueWaiting, EnqueueFault
<1> QED
  BY <1>2, <1>3, <1>4

\* So does _return_to_queue.
LEMMA ReturnedSet ==
  ASSUME TypeInv, NEW t \in Threads, ReturnToQueue(t)
  PROVE  arg[t] \in Jobs /\ ToSet(queue') = ToSet(queue) \cup {arg[t]}
<1>1. arg[t] \in Jobs /\ queue \in Seq(Jobs)
  BY DEF ReturnToQueue, TypeInv, TypeOK, ArgIsJob, RunPoints, Actors
<1>2. CASE queue' = queue /\ arg[t] \in ToSet(queue)
  BY <1>1, <1>2
<1>3. CASE queue' = <<arg[t]>> \o queue
  BY <1>1, <1>3, PrependedSet
<1> QED
  BY <1>2, <1>3 DEF ReturnToQueue

\* _pop_next_queued takes a job out.
LEMMA PoppedSet ==
  ASSUME TypeInv, NoDuplicates, NEW a \in Actors, NEW j \in Jobs, PopNext(a, j)
  PROVE  /\ j \in ToSet(queue) /\ ToSet(queue') = ToSet(queue) \ {j}
         /\ Len(queue') = Len(queue) - 1
<1> DEFINE i == CHOOSE i \in 1..Len(queue) : queue[i] = j
<1>1. queue \in Seq(Jobs)
  BY DEF TypeInv, TypeOK
<1>2. j \in ToSet(queue)
  BY DEF PopNext, IsBest
<1>3. \E k \in 1..Len(queue) : queue[k] = j
  BY <1>1, <1>2 DEF ToSet
<1>4. i \in 1..Len(queue) /\ queue[i] = j
  BY <1>3
<1>5. queue' = RemoveAt(queue, i)
  BY DEF PopNext
<1> HIDE DEF i
<1> QED
  BY <1>1, <1>2, <1>4, <1>5, RemovedSet, RemoveAtSeq DEF NoDuplicates

\* StopServer empties it.
LEMMA StoppedSet == ASSUME StopServer PROVE ToSet(queue') = {}
BY DEF StopServer, ToSet

-----------------------------------------------------------------------------
(* The startup handler. *)

LEMMA PointsStep == TypeInv /\ PointsOfActors /\ [Next]_vars => PointsOfActors'
<1> SUFFICES ASSUME TypeInv, PointsOfActors, [Next]_vars PROVE PointsOfActors'
  OBVIOUS
<1> USE ActorsDistinct DEF ActorsDistinct, PointsOfActors, TypeInv, TypeOK, Actors, RunPoints
<1>1. ASSUME NEW j \in Jobs, CreateJob(j) PROVE PointsOfActors'
  BY <1>1 DEF CreateJob
<1>2. ASSUME NEW j \in Jobs, DeleteCheck(j) PROVE PointsOfActors'
  BY <1>2 DEF DeleteCheck
<1>3. ASSUME DeleteRow PROVE PointsOfActors'
  BY <1>3 DEF DeleteRow, Return
<1>4. ASSUME NEW s \in Starters, NEW j \in Jobs, StartJob(s, j) PROVE PointsOfActors'
  BY <1>4 DEF StartJob, Spend, Kinds
<1>5. ASSUME NEW a \in Actors, EnqueueRefused(a) PROVE PointsOfActors'
  BY <1>5 DEF EnqueueRefused, Return, SetStatus
<1>6. ASSUME NEW a \in Actors, EnqueueWaiting(a) PROVE PointsOfActors'
  BY <1>6 DEF EnqueueWaiting, Return, SetStatus
<1>7. ASSUME NEW a \in Actors, EnqueueFirst(a) PROVE PointsOfActors'
  BY <1>7 DEF EnqueueFirst, Goto
<1>8. ASSUME NEW a \in Actors, Launch(a) PROVE PointsOfActors'
  <2>1. PICK t \in Threads :
          /\ pc[t] = "idle" /\ child[t] = "none"
          /\ pc' = [pc EXCEPT ![a] = IF a = Boot THEN "requeue" ELSE "idle", ![t] = "begin"]
          /\ arg' = [arg EXCEPT ![a] = None, ![t] = arg[a]]
    BY <1>8 DEF Launch
  <2>2. t \in Actors /\ t # a /\ pc[a] = "launch"
    BY <1>8, <2>1 DEF Launch
  <2> QED
    BY <2>1, <2>2
<1>9. ASSUME NEW a \in Actors, NEW j \in Jobs, PopNext(a, j) PROVE PointsOfActors'
  BY <1>9 DEF PopNext
<1>10. ASSUME NEW a \in Actors, PopNothing(a) PROVE PointsOfActors'
  BY <1>10 DEF PopNothing, Goto
<1>11. ASSUME NEW a \in Actors, EnqueueFault(a) PROVE PointsOfActors'
  BY <1>11 DEF EnqueueFault, Return, SetStatus, Spend, Kinds
<1>12. ASSUME NEW a \in Actors, LaunchFault(a) PROVE PointsOfActors'
  BY <1>12 DEF LaunchFault, Return, SetStatus, Spend, Kinds
<1>13. ASSUME LogFault PROVE PointsOfActors'
  BY <1>13 DEF LogFault, Return, Spend, Kinds
<1>14. ASSUME NEW t \in Threads, ResponseFault(t) PROVE PointsOfActors'
  BY <1>14 DEF ResponseFault, SetStatus, Spend, Kinds
<1>15. ASSUME NEW t \in Threads, DirMissing(t) PROVE PointsOfActors'
  BY <1>15 DEF DirMissing, Goto
<1>16. ASSUME NEW t \in Threads, RunBegin(t) PROVE PointsOfActors'
  BY <1>16 DEF RunBegin, Goto
<1>17. ASSUME NEW t \in Threads, Acquire(t) PROVE PointsOfActors'
  BY <1>17 DEF Acquire, Goto
<1>18. ASSUME NEW t \in Threads, AcquireRefused(t) PROVE PointsOfActors'
  BY <1>18 DEF AcquireRefused, Goto, SetStatus
<1>19. ASSUME NEW t \in Threads, AcquireAborted(t) PROVE PointsOfActors'
  BY <1>19 DEF AcquireAborted, Goto
<1>20. ASSUME NEW t \in Threads, NotAcquired(t) PROVE PointsOfActors'
  BY <1>20 DEF NotAcquired, Goto
<1>21. ASSUME NEW t \in Threads, Acquired(t) PROVE PointsOfActors'
  BY <1>21 DEF Acquired, Goto, SetStatus
<1>22. ASSUME NEW t \in Threads, Spawn(t) PROVE PointsOfActors'
  BY <1>22 DEF Spawn, Goto
<1>23. ASSUME NEW t \in Threads, ChildExited(t) PROVE PointsOfActors'
  BY <1>23 DEF ChildExited, Goto, FailIfRunning
<1>24. ASSUME NEW t \in Threads, RunError(t) PROVE PointsOfActors'
  BY <1>24 DEF RunError, Goto, FailIfRunning
<1>25. ASSUME NEW t \in Threads, ReturnToQueue(t) PROVE PointsOfActors'
  BY <1>25 DEF ReturnToQueue, Goto
<1>26. ASSUME NEW t \in Threads, ReturnedRow(t) PROVE PointsOfActors'
  BY <1>26 DEF ReturnedRow, Goto, SetStatus
<1>27. ASSUME NEW t \in Threads, ReleaseSlot(t) PROVE PointsOfActors'
  BY <1>27 DEF ReleaseSlot, Goto
<1>28. ASSUME NEW t \in Threads, ClearRunning(t) PROVE PointsOfActors'
  BY <1>28 DEF ClearRunning
<1>29. ASSUME NEW t \in Threads, NextCheck(t) PROVE PointsOfActors'
  BY <1>29 DEF NextCheck, Goto
<1>30. ASSUME NEW t \in Threads, AcquireTimedOut(t) PROVE PointsOfActors'
  BY <1>30 DEF AcquireTimedOut, Goto, Spend, Kinds
<1>31. ASSUME NEW t \in Threads, JobTimedOut(t) PROVE PointsOfActors'
  BY <1>31 DEF JobTimedOut, Goto, FailIfRunning
<1>32. ASSUME NEW t \in Threads, ChildStart(t) PROVE PointsOfActors'
  BY <1>32 DEF ChildStart, ChildStep, SetStatus
<1>33. ASSUME NEW t \in Threads, ChildNoJob(t) PROVE PointsOfActors'
  BY <1>33 DEF ChildNoJob, ChildStep, SetStatus
<1>34. ASSUME NEW t \in Threads, ChildDone(t) PROVE PointsOfActors'
  BY <1>34 DEF ChildDone, ChildStep, SetStatus
<1>35. ASSUME NEW t \in Threads, ChildFail(t) PROVE PointsOfActors'
  BY <1>35 DEF ChildFail, ChildStep, SetStatus
<1>36. ASSUME NEW t \in Threads, ChildExit(t) PROVE PointsOfActors'
  BY <1>36 DEF ChildExit, ChildStep, SetStatus
<1>37. ASSUME NEW t \in Threads, ChildKilled(t) PROVE PointsOfActors'
  BY <1>37 DEF ChildKilled, ChildStep, SetStatus
<1>38. ASSUME NEW t \in Threads, RunFault(t) PROVE PointsOfActors'
  BY <1>38 DEF RunFault, Goto, Spend, Kinds
<1>39. ASSUME NEW t \in Threads, WaitFault(t) PROVE PointsOfActors'
  BY <1>39 DEF WaitFault, Goto, Spend, Kinds
<1>40. ASSUME NEW t \in Threads, ChildFault(t) PROVE PointsOfActors'
  BY <1>40 DEF ChildFault, Spend, SetStatus, Kinds
<1>41. ASSUME WatchTick PROVE PointsOfActors'
  BY <1>41 DEF WatchTick, Goto
<1>42. ASSUME Crash PROVE PointsOfActors'
  BY <1>42 DEF Crash, Spend, StopServer, Kinds
<1>43. ASSUME Recover PROVE PointsOfActors'
  BY <1>43 DEF Recover, Goto
<1>44. ASSUME NEW j \in Jobs, Requeue(j) PROVE PointsOfActors'
  BY <1>44 DEF Requeue
<1>45. ASSUME BootDone PROVE PointsOfActors'
  BY <1>45 DEF BootDone, Goto
<1>46. ASSUME DeployBegin PROVE PointsOfActors'
  BY <1>46 DEF DeployBegin, Spend, Kinds
<1>47. ASSUME DeployFindsIdle PROVE PointsOfActors'
  BY <1>47 DEF DeployFindsIdle
<1>48. ASSUME DeployRestart PROVE PointsOfActors'
  BY <1>48 DEF DeployRestart, StopServer
<1>49. ASSUME DeployRestartUnheard PROVE PointsOfActors'
  BY <1>49 DEF DeployRestartUnheard, Spend, StopServer, Kinds
<1>50. ASSUME DeployEnd PROVE PointsOfActors'
  BY <1>50 DEF DeployEnd
<1>51. ASSUME DeployGivesUp PROVE PointsOfActors'
  BY <1>51 DEF DeployGivesUp
<1>52. ASSUME DeployInterrupted PROVE PointsOfActors'
  BY <1>52 DEF DeployInterrupted, Spend, Kinds
<1>53. ASSUME OtherTakes PROVE PointsOfActors'
  BY <1>53 DEF OtherTakes, Spend, Kinds
<1>54. ASSUME OtherReleases PROVE PointsOfActors'
  BY <1>54 DEF OtherReleases
<1>55. ASSUME Quiet PROVE PointsOfActors'
  BY <1>55 DEF Quiet, vars
<1>56. CASE UNCHANGED vars
  BY <1>56 DEF vars
<1> QED
  BY <1>1, <1>2, <1>3, <1>4, <1>5, <1>6, <1>7, <1>8, <1>9, <1>10, <1>11, <1>12, <1>13,
     <1>14, <1>15, <1>16, <1>17, <1>18, <1>19, <1>20, <1>21, <1>22, <1>23, <1>24, <1>25,
     <1>26, <1>27, <1>28, <1>29, <1>30, <1>31, <1>32, <1>33, <1>34, <1>35, <1>36, <1>37,
     <1>38, <1>39, <1>40, <1>41, <1>42, <1>43, <1>44, <1>45, <1>46, <1>47, <1>48, <1>49,
     <1>50, <1>51, <1>52, <1>53, <1>54, <1>55, <1>56
     DEF Next, Enqueue, RunStep, ChildWork, Startup, Pop

LEMMA BootAloneStep ==
  TypeInv /\ PointsOfActors /\ BootAlone /\ [Next]_vars => BootAlone'
<1> SUFFICES ASSUME TypeInv, PointsOfActors, BootAlone, [Next]_vars PROVE BootAlone'
  OBVIOUS
<1> USE ActorsDistinct
    DEF ActorsDistinct, BootAlone, PointsOfActors, TypeInv, TypeOK, Actors, Up
<1>1. ASSUME NEW j \in Jobs, CreateJob(j) PROVE BootAlone'
  BY <1>1 DEF CreateJob
<1>2. ASSUME NEW j \in Jobs, DeleteCheck(j) PROVE BootAlone'
  BY <1>2 DEF DeleteCheck
<1>3. ASSUME DeleteRow PROVE BootAlone'
  BY <1>3 DEF DeleteRow, Return
<1>4. ASSUME NEW s \in Starters, NEW j \in Jobs, StartJob(s, j) PROVE BootAlone'
  BY <1>4 DEF StartJob, Spend, Kinds
<1>5. ASSUME NEW a \in Actors, EnqueueRefused(a) PROVE BootAlone'
  BY <1>5 DEF EnqueueRefused, Return, SetStatus
<1>6. ASSUME NEW a \in Actors, EnqueueWaiting(a) PROVE BootAlone'
  BY <1>6 DEF EnqueueWaiting, Return, SetStatus
<1>7. ASSUME NEW a \in Actors, EnqueueFirst(a) PROVE BootAlone'
  BY <1>7 DEF EnqueueFirst, Goto
<1>8. ASSUME NEW a \in Actors, Launch(a) PROVE BootAlone'
  BY <1>8 DEF Launch, SetStatus
<1>9. ASSUME NEW a \in Actors, NEW j \in Jobs, PopNext(a, j) PROVE BootAlone'
  BY <1>9 DEF PopNext
<1>10. ASSUME NEW a \in Actors, PopNothing(a) PROVE BootAlone'
  BY <1>10 DEF PopNothing, Goto
<1>11. ASSUME NEW a \in Actors, EnqueueFault(a) PROVE BootAlone'
  BY <1>11 DEF EnqueueFault, Return, SetStatus, Spend, Kinds
<1>12. ASSUME NEW a \in Actors, LaunchFault(a) PROVE BootAlone'
  BY <1>12 DEF LaunchFault, Return, SetStatus, Spend, Kinds
<1>13. ASSUME LogFault PROVE BootAlone'
  BY <1>13 DEF LogFault, Return, Spend, Kinds
<1>14. ASSUME NEW t \in Threads, ResponseFault(t) PROVE BootAlone'
  BY <1>14 DEF ResponseFault, SetStatus, Spend, Kinds
<1>15. ASSUME NEW t \in Threads, DirMissing(t) PROVE BootAlone'
  BY <1>15 DEF DirMissing, Goto
<1>16. ASSUME NEW t \in Threads, RunBegin(t) PROVE BootAlone'
  BY <1>16 DEF RunBegin, Goto
<1>17. ASSUME NEW t \in Threads, Acquire(t) PROVE BootAlone'
  BY <1>17 DEF Acquire, Goto
<1>18. ASSUME NEW t \in Threads, AcquireRefused(t) PROVE BootAlone'
  BY <1>18 DEF AcquireRefused, Goto, SetStatus
<1>19. ASSUME NEW t \in Threads, AcquireAborted(t) PROVE BootAlone'
  BY <1>19 DEF AcquireAborted, Goto
<1>20. ASSUME NEW t \in Threads, NotAcquired(t) PROVE BootAlone'
  BY <1>20 DEF NotAcquired, Goto
<1>21. ASSUME NEW t \in Threads, Acquired(t) PROVE BootAlone'
  BY <1>21 DEF Acquired, Goto, SetStatus
<1>22. ASSUME NEW t \in Threads, Spawn(t) PROVE BootAlone'
  BY <1>22 DEF Spawn, Goto
<1>23. ASSUME NEW t \in Threads, ChildExited(t) PROVE BootAlone'
  BY <1>23 DEF ChildExited, Goto, FailIfRunning
<1>24. ASSUME NEW t \in Threads, RunError(t) PROVE BootAlone'
  BY <1>24 DEF RunError, Goto, FailIfRunning
<1>25. ASSUME NEW t \in Threads, ReturnToQueue(t) PROVE BootAlone'
  BY <1>25 DEF ReturnToQueue, Goto
<1>26. ASSUME NEW t \in Threads, ReturnedRow(t) PROVE BootAlone'
  BY <1>26 DEF ReturnedRow, Goto, SetStatus
<1>27. ASSUME NEW t \in Threads, ReleaseSlot(t) PROVE BootAlone'
  BY <1>27 DEF ReleaseSlot, Goto
<1>28. ASSUME NEW t \in Threads, ClearRunning(t) PROVE BootAlone'
  BY <1>28 DEF ClearRunning
<1>29. ASSUME NEW t \in Threads, NextCheck(t) PROVE BootAlone'
  BY <1>29 DEF NextCheck, Goto
<1>30. ASSUME NEW t \in Threads, AcquireTimedOut(t) PROVE BootAlone'
  BY <1>30 DEF AcquireTimedOut, Goto, Spend, Kinds
<1>31. ASSUME NEW t \in Threads, JobTimedOut(t) PROVE BootAlone'
  BY <1>31 DEF JobTimedOut, Goto, FailIfRunning
<1>32. ASSUME NEW t \in Threads, ChildStart(t) PROVE BootAlone'
  BY <1>32 DEF ChildStart, ChildStep, SetStatus
<1>33. ASSUME NEW t \in Threads, ChildNoJob(t) PROVE BootAlone'
  BY <1>33 DEF ChildNoJob, ChildStep, SetStatus
<1>34. ASSUME NEW t \in Threads, ChildDone(t) PROVE BootAlone'
  BY <1>34 DEF ChildDone, ChildStep, SetStatus
<1>35. ASSUME NEW t \in Threads, ChildFail(t) PROVE BootAlone'
  BY <1>35 DEF ChildFail, ChildStep, SetStatus
<1>36. ASSUME NEW t \in Threads, ChildExit(t) PROVE BootAlone'
  BY <1>36 DEF ChildExit, ChildStep, SetStatus
<1>37. ASSUME NEW t \in Threads, ChildKilled(t) PROVE BootAlone'
  BY <1>37 DEF ChildKilled, ChildStep, SetStatus
<1>38. ASSUME NEW t \in Threads, RunFault(t) PROVE BootAlone'
  BY <1>38 DEF RunFault, Goto, Spend, Kinds
<1>39. ASSUME NEW t \in Threads, WaitFault(t) PROVE BootAlone'
  BY <1>39 DEF WaitFault, Goto, Spend, Kinds
<1>40. ASSUME NEW t \in Threads, ChildFault(t) PROVE BootAlone'
  BY <1>40 DEF ChildFault, Spend, SetStatus, Kinds
<1>41. ASSUME WatchTick PROVE BootAlone'
  BY <1>41 DEF WatchTick, Goto
<1>42. ASSUME Crash PROVE BootAlone'
  BY <1>42 DEF Crash, Spend, StopServer, Kinds
<1>43. ASSUME Recover PROVE BootAlone'
  BY <1>43 DEF Recover, Goto
<1>44. ASSUME NEW j \in Jobs, Requeue(j) PROVE BootAlone'
  BY <1>44 DEF Requeue
<1>45. ASSUME BootDone PROVE BootAlone'
  BY <1>45 DEF BootDone, Goto
<1>46. ASSUME DeployBegin PROVE BootAlone'
  BY <1>46 DEF DeployBegin, Spend, Kinds
<1>47. ASSUME DeployFindsIdle PROVE BootAlone'
  BY <1>47 DEF DeployFindsIdle
<1>48. ASSUME DeployRestart PROVE BootAlone'
  BY <1>48 DEF DeployRestart, StopServer
<1>49. ASSUME DeployRestartUnheard PROVE BootAlone'
  BY <1>49 DEF DeployRestartUnheard, Spend, StopServer, Kinds
<1>50. ASSUME DeployEnd PROVE BootAlone'
  BY <1>50 DEF DeployEnd
<1>51. ASSUME DeployGivesUp PROVE BootAlone'
  BY <1>51 DEF DeployGivesUp
<1>52. ASSUME DeployInterrupted PROVE BootAlone'
  BY <1>52 DEF DeployInterrupted, Spend, Kinds
<1>53. ASSUME OtherTakes PROVE BootAlone'
  BY <1>53 DEF OtherTakes, Spend, Kinds
<1>54. ASSUME OtherReleases PROVE BootAlone'
  BY <1>54 DEF OtherReleases
<1>55. ASSUME Quiet PROVE BootAlone'
  BY <1>55 DEF Quiet, vars
<1>56. CASE UNCHANGED vars
  BY <1>56 DEF vars
<1> QED
  BY <1>1, <1>2, <1>3, <1>4, <1>5, <1>6, <1>7, <1>8, <1>9, <1>10, <1>11, <1>12, <1>13,
     <1>14, <1>15, <1>16, <1>17, <1>18, <1>19, <1>20, <1>21, <1>22, <1>23, <1>24, <1>25,
     <1>26, <1>27, <1>28, <1>29, <1>30, <1>31, <1>32, <1>33, <1>34, <1>35, <1>36, <1>37,
     <1>38, <1>39, <1>40, <1>41, <1>42, <1>43, <1>44, <1>45, <1>46, <1>47, <1>48, <1>49,
     <1>50, <1>51, <1>52, <1>53, <1>54, <1>55, <1>56
     DEF Next, Enqueue, RunStep, ChildWork, Startup, Pop

\* A job comes into the hands of an actor b in five ways: it is created, started or
\* popped, it is the next one of the startup handler, or it is launched.
LEMMA PlacedStep ==
  ASSUME TypeInv, PointsOfActors, [Next]_vars,
         NEW b \in Actors, NEW l \in Jobs, Placed(b, l)', ~Placed(b, l)
  PROVE  \/ b = Loop /\ CreateJob(l)
         \/ b \in Starters /\ StartJob(b, l)
         \/ PopNext(b, l)
         \/ b = Boot /\ Requeue(l)
         \/ /\ b \in Threads /\ pc[b] = "idle" /\ pc'[b] = "begin"
            /\ \E a \in Actors \ {b} :
                 /\ arg[a] = l /\ pc[a] = "launch" /\ pc'[a] \in {"idle", "requeue"}
                 /\ Launch(a) \/ (a = Loop /\ ResponseFault(b))
<1> DEFINE Goal ==
      \/ b = Loop /\ CreateJob(l)
      \/ b \in Starters /\ StartJob(b, l)
      \/ PopNext(b, l)
      \/ b = Boot /\ Requeue(l)
      \/ /\ b \in Threads /\ pc[b] = "idle" /\ pc'[b] = "begin"
         /\ \E a \in Actors \ {b} :
              /\ arg[a] = l /\ pc[a] = "launch" /\ pc'[a] \in {"idle", "requeue"}
              /\ Launch(a) \/ (a = Loop /\ ResponseFault(b))
<1> SUFFICES Goal
  OBVIOUS
<1> HIDE DEF Goal
<1> USE ActorsDistinct, NoneIsNoJob
    DEF ActorsDistinct, NoneIsNoJob, Placed, PointsOfActors, TypeInv, TypeOK, Actors, RunPoints
<1>1. ASSUME NEW j \in Jobs, CreateJob(j) PROVE Goal
  BY <1>1 DEF CreateJob, Goal
<1>2. ASSUME NEW j \in Jobs, DeleteCheck(j) PROVE Goal
  BY <1>2 DEF DeleteCheck
<1>3. ASSUME DeleteRow PROVE Goal
  BY <1>3 DEF DeleteRow, Return
<1>4. ASSUME NEW s \in Starters, NEW j \in Jobs, StartJob(s, j) PROVE Goal
  BY <1>4 DEF StartJob, Goal
<1>5. ASSUME NEW a \in Actors, EnqueueRefused(a) PROVE Goal
  BY <1>5 DEF EnqueueRefused, Return, SetStatus
<1>6. ASSUME NEW a \in Actors, EnqueueWaiting(a) PROVE Goal
  BY <1>6 DEF EnqueueWaiting, Return, SetStatus
<1>7. ASSUME NEW a \in Actors, EnqueueFirst(a) PROVE Goal
  BY <1>7 DEF EnqueueFirst, Goto
<1>8. ASSUME NEW a \in Actors, Launch(a) PROVE Goal
  <2>1. PICK t \in Threads :
          /\ pc[t] = "idle" /\ child[t] = "none"
          /\ pc' = [pc EXCEPT ![a] = IF a = Boot THEN "requeue" ELSE "idle", ![t] = "begin"]
          /\ arg' = [arg EXCEPT ![a] = None, ![t] = arg[a]]
    BY <1>8 DEF Launch
  <2>2. t \in Actors /\ t # a /\ pc[a] = "launch"
    BY <1>8, <2>1 DEF Launch
  <2>3. \A c \in Actors \ {a, t} : pc'[c] = pc[c] /\ arg'[c] = arg[c]
    BY <2>1, <2>2
  <2>4. pc'[a] \in {"idle", "requeue"} /\ pc'[t] = "begin" /\ arg'[t] = arg[a]
    BY <2>1, <2>2
  <2>5. b = t
    BY <2>3, <2>4
  <2> QED
    BY <1>8, <2>1, <2>2, <2>4, <2>5 DEF Goal
<1>9. ASSUME NEW a \in Actors, NEW j \in Jobs, PopNext(a, j) PROVE Goal
  BY <1>9 DEF PopNext, Goal
<1>10. ASSUME NEW a \in Actors, PopNothing(a) PROVE Goal
  BY <1>10 DEF PopNothing, Goto
<1>11. ASSUME NEW a \in Actors, EnqueueFault(a) PROVE Goal
  BY <1>11 DEF EnqueueFault, Return, SetStatus, Spend, Kinds
<1>12. ASSUME NEW a \in Actors, LaunchFault(a) PROVE Goal
  BY <1>12 DEF LaunchFault, Return, SetStatus, Spend, Kinds
<1>13. ASSUME LogFault PROVE Goal
  BY <1>13 DEF LogFault, Return, Spend, Kinds
<1>14. ASSUME NEW t \in Threads, ResponseFault(t) PROVE Goal
  <2>1. /\ \A c \in Actors \ {Loop, t} : pc'[c] = pc[c] /\ arg'[c] = arg[c]
        /\ pc[Loop] = "launch" /\ pc'[Loop] = "idle" /\ pc'[t] = "begin" /\ arg'[t] = arg[Loop]
        /\ pc[t] = "idle"
    BY <1>14 DEF ResponseFault
  <2>2. b = t
    BY <2>1
  <2> QED
    BY <1>14, <2>1, <2>2 DEF Goal
<1>15. ASSUME NEW t \in Threads, DirMissing(t) PROVE Goal
  BY <1>15 DEF DirMissing, Goto
<1>16. ASSUME NEW t \in Threads, RunBegin(t) PROVE Goal
  BY <1>16 DEF RunBegin, Goto
<1>17. ASSUME NEW t \in Threads, Acquire(t) PROVE Goal
  BY <1>17 DEF Acquire, Goto
<1>18. ASSUME NEW t \in Threads, AcquireRefused(t) PROVE Goal
  BY <1>18 DEF AcquireRefused, Goto, SetStatus
<1>19. ASSUME NEW t \in Threads, AcquireAborted(t) PROVE Goal
  BY <1>19 DEF AcquireAborted, Goto
<1>20. ASSUME NEW t \in Threads, NotAcquired(t) PROVE Goal
  BY <1>20 DEF NotAcquired, Goto
<1>21. ASSUME NEW t \in Threads, Acquired(t) PROVE Goal
  BY <1>21 DEF Acquired, Goto, SetStatus
<1>22. ASSUME NEW t \in Threads, Spawn(t) PROVE Goal
  BY <1>22 DEF Spawn, Goto
<1>23. ASSUME NEW t \in Threads, ChildExited(t) PROVE Goal
  BY <1>23 DEF ChildExited, Goto, FailIfRunning
<1>24. ASSUME NEW t \in Threads, RunError(t) PROVE Goal
  BY <1>24 DEF RunError, Goto, FailIfRunning
<1>25. ASSUME NEW t \in Threads, ReturnToQueue(t) PROVE Goal
  BY <1>25 DEF ReturnToQueue, Goto
<1>26. ASSUME NEW t \in Threads, ReturnedRow(t) PROVE Goal
  BY <1>26 DEF ReturnedRow, Goto, SetStatus
<1>27. ASSUME NEW t \in Threads, ReleaseSlot(t) PROVE Goal
  BY <1>27 DEF ReleaseSlot, Goto
<1>28. ASSUME NEW t \in Threads, ClearRunning(t) PROVE Goal
  BY <1>28 DEF ClearRunning
<1>29. ASSUME NEW t \in Threads, NextCheck(t) PROVE Goal
  BY <1>29 DEF NextCheck, Goto
<1>30. ASSUME NEW t \in Threads, AcquireTimedOut(t) PROVE Goal
  BY <1>30 DEF AcquireTimedOut, Goto, Spend, Kinds
<1>31. ASSUME NEW t \in Threads, JobTimedOut(t) PROVE Goal
  BY <1>31 DEF JobTimedOut, Goto, FailIfRunning
<1>32. ASSUME NEW t \in Threads, ChildStart(t) PROVE Goal
  BY <1>32 DEF ChildStart, ChildStep, SetStatus
<1>33. ASSUME NEW t \in Threads, ChildNoJob(t) PROVE Goal
  BY <1>33 DEF ChildNoJob, ChildStep, SetStatus
<1>34. ASSUME NEW t \in Threads, ChildDone(t) PROVE Goal
  BY <1>34 DEF ChildDone, ChildStep, SetStatus
<1>35. ASSUME NEW t \in Threads, ChildFail(t) PROVE Goal
  BY <1>35 DEF ChildFail, ChildStep, SetStatus
<1>36. ASSUME NEW t \in Threads, ChildExit(t) PROVE Goal
  BY <1>36 DEF ChildExit, ChildStep, SetStatus
<1>37. ASSUME NEW t \in Threads, ChildKilled(t) PROVE Goal
  BY <1>37 DEF ChildKilled, ChildStep, SetStatus
<1>38. ASSUME NEW t \in Threads, RunFault(t) PROVE Goal
  BY <1>38 DEF RunFault, Goto, Spend, Kinds
<1>39. ASSUME NEW t \in Threads, WaitFault(t) PROVE Goal
  BY <1>39 DEF WaitFault, Goto, Spend, Kinds
<1>40. ASSUME NEW t \in Threads, ChildFault(t) PROVE Goal
  BY <1>40 DEF ChildFault, Spend, SetStatus, Kinds
<1>41. ASSUME WatchTick PROVE Goal
  BY <1>41 DEF WatchTick, Goto
<1>42. ASSUME Crash PROVE Goal
  BY <1>42 DEF Crash, Spend, StopServer, Kinds
<1>43. ASSUME Recover PROVE Goal
  BY <1>43 DEF Recover, Goto
<1>44. ASSUME NEW j \in Jobs, Requeue(j) PROVE Goal
  BY <1>44 DEF Requeue, Goal
<1>45. ASSUME BootDone PROVE Goal
  BY <1>45 DEF BootDone, Goto
<1>46. ASSUME DeployBegin PROVE Goal
  BY <1>46 DEF DeployBegin, Spend, Kinds
<1>47. ASSUME DeployFindsIdle PROVE Goal
  BY <1>47 DEF DeployFindsIdle
<1>48. ASSUME DeployRestart PROVE Goal
  BY <1>48 DEF DeployRestart, StopServer
<1>49. ASSUME DeployRestartUnheard PROVE Goal
  BY <1>49 DEF DeployRestartUnheard, Spend, StopServer, Kinds
<1>50. ASSUME DeployEnd PROVE Goal
  BY <1>50 DEF DeployEnd
<1>51. ASSUME DeployGivesUp PROVE Goal
  BY <1>51 DEF DeployGivesUp
<1>52. ASSUME DeployInterrupted PROVE Goal
  BY <1>52 DEF DeployInterrupted, Spend, Kinds
<1>53. ASSUME OtherTakes PROVE Goal
  BY <1>53 DEF OtherTakes, Spend, Kinds
<1>54. ASSUME OtherReleases PROVE Goal
  BY <1>54 DEF OtherReleases
<1>55. ASSUME Quiet PROVE Goal
  BY <1>55 DEF Quiet, vars
<1>56. CASE UNCHANGED vars
  BY <1>56 DEF vars
<1> QED
  BY <1>1, <1>2, <1>3, <1>4, <1>5, <1>6, <1>7, <1>8, <1>9, <1>10, <1>11, <1>12, <1>13,
     <1>14, <1>15, <1>16, <1>17, <1>18, <1>19, <1>20, <1>21, <1>22, <1>23, <1>24, <1>25,
     <1>26, <1>27, <1>28, <1>29, <1>30, <1>31, <1>32, <1>33, <1>34, <1>35, <1>36, <1>37,
     <1>38, <1>39, <1>40, <1>41, <1>42, <1>43, <1>44, <1>45, <1>46, <1>47, <1>48, <1>49,
     <1>50, <1>51, <1>52, <1>53, <1>54, <1>55, <1>56
     DEF Next, Enqueue, RunStep, ChildWork, Startup, Pop

\* Where a new _running comes from.
LEMMA RunningStep ==
  ASSUME [Next]_vars, running' # running, running' # None
  PROVE  \E a \in Actors : EnqueueFirst(a) \/ \E j \in Jobs : PopNext(a, j)
<1> USE DEF StopServer
<1>1. ASSUME NEW j \in Jobs, CreateJob(j) PROVE (\E b \in Actors : EnqueueFirst(b) \/ \E k \in Jobs : PopNext(b, k))
  BY <1>1 DEF CreateJob
<1>2. ASSUME NEW j \in Jobs, DeleteCheck(j) PROVE (\E b \in Actors : EnqueueFirst(b) \/ \E k \in Jobs : PopNext(b, k))
  BY <1>2 DEF DeleteCheck
<1>3. ASSUME DeleteRow PROVE (\E b \in Actors : EnqueueFirst(b) \/ \E k \in Jobs : PopNext(b, k))
  BY <1>3 DEF DeleteRow, Return
<1>4. ASSUME NEW s \in Starters, NEW j \in Jobs, StartJob(s, j) PROVE (\E b \in Actors : EnqueueFirst(b) \/ \E k \in Jobs : PopNext(b, k))
  BY <1>4 DEF StartJob, Spend, Kinds
<1>5. ASSUME NEW a \in Actors, EnqueueRefused(a) PROVE (\E b \in Actors : EnqueueFirst(b) \/ \E k \in Jobs : PopNext(b, k))
  BY <1>5 DEF EnqueueRefused, Return, SetStatus
<1>6. ASSUME NEW a \in Actors, EnqueueWaiting(a) PROVE (\E b \in Actors : EnqueueFirst(b) \/ \E k \in Jobs : PopNext(b, k))
  BY <1>6 DEF EnqueueWaiting, Return, SetStatus
<1>7. ASSUME NEW a \in Actors, EnqueueFirst(a) PROVE (\E b \in Actors : EnqueueFirst(b) \/ \E k \in Jobs : PopNext(b, k))
  BY <1>7 DEF EnqueueFirst, Goto
<1>8. ASSUME NEW a \in Actors, Launch(a) PROVE (\E b \in Actors : EnqueueFirst(b) \/ \E k \in Jobs : PopNext(b, k))
  BY <1>8 DEF Launch, SetStatus
<1>9. ASSUME NEW a \in Actors, NEW j \in Jobs, PopNext(a, j) PROVE (\E b \in Actors : EnqueueFirst(b) \/ \E k \in Jobs : PopNext(b, k))
  BY <1>9 DEF PopNext
<1>10. ASSUME NEW a \in Actors, PopNothing(a) PROVE (\E b \in Actors : EnqueueFirst(b) \/ \E k \in Jobs : PopNext(b, k))
  BY <1>10 DEF PopNothing, Goto
<1>11. ASSUME NEW a \in Actors, EnqueueFault(a) PROVE (\E b \in Actors : EnqueueFirst(b) \/ \E k \in Jobs : PopNext(b, k))
  BY <1>11 DEF EnqueueFault, Return, SetStatus, Spend, Kinds
<1>12. ASSUME NEW a \in Actors, LaunchFault(a) PROVE (\E b \in Actors : EnqueueFirst(b) \/ \E k \in Jobs : PopNext(b, k))
  BY <1>12 DEF LaunchFault, Return, SetStatus, Spend, Kinds
<1>13. ASSUME LogFault PROVE (\E b \in Actors : EnqueueFirst(b) \/ \E k \in Jobs : PopNext(b, k))
  BY <1>13 DEF LogFault, Return, Spend, Kinds
<1>14. ASSUME NEW t \in Threads, ResponseFault(t) PROVE (\E b \in Actors : EnqueueFirst(b) \/ \E k \in Jobs : PopNext(b, k))
  BY <1>14 DEF ResponseFault, SetStatus, Spend, Kinds
<1>15. ASSUME NEW t \in Threads, DirMissing(t) PROVE (\E b \in Actors : EnqueueFirst(b) \/ \E k \in Jobs : PopNext(b, k))
  BY <1>15 DEF DirMissing, Goto
<1>16. ASSUME NEW t \in Threads, RunBegin(t) PROVE (\E b \in Actors : EnqueueFirst(b) \/ \E k \in Jobs : PopNext(b, k))
  BY <1>16 DEF RunBegin, Goto
<1>17. ASSUME NEW t \in Threads, Acquire(t) PROVE (\E b \in Actors : EnqueueFirst(b) \/ \E k \in Jobs : PopNext(b, k))
  BY <1>17 DEF Acquire, Goto
<1>18. ASSUME NEW t \in Threads, AcquireRefused(t) PROVE (\E b \in Actors : EnqueueFirst(b) \/ \E k \in Jobs : PopNext(b, k))
  BY <1>18 DEF AcquireRefused, Goto, SetStatus
<1>19. ASSUME NEW t \in Threads, AcquireAborted(t) PROVE (\E b \in Actors : EnqueueFirst(b) \/ \E k \in Jobs : PopNext(b, k))
  BY <1>19 DEF AcquireAborted, Goto
<1>20. ASSUME NEW t \in Threads, NotAcquired(t) PROVE (\E b \in Actors : EnqueueFirst(b) \/ \E k \in Jobs : PopNext(b, k))
  BY <1>20 DEF NotAcquired, Goto
<1>21. ASSUME NEW t \in Threads, Acquired(t) PROVE (\E b \in Actors : EnqueueFirst(b) \/ \E k \in Jobs : PopNext(b, k))
  BY <1>21 DEF Acquired, Goto, SetStatus
<1>22. ASSUME NEW t \in Threads, Spawn(t) PROVE (\E b \in Actors : EnqueueFirst(b) \/ \E k \in Jobs : PopNext(b, k))
  BY <1>22 DEF Spawn, Goto
<1>23. ASSUME NEW t \in Threads, ChildExited(t) PROVE (\E b \in Actors : EnqueueFirst(b) \/ \E k \in Jobs : PopNext(b, k))
  BY <1>23 DEF ChildExited, Goto, FailIfRunning
<1>24. ASSUME NEW t \in Threads, RunError(t) PROVE (\E b \in Actors : EnqueueFirst(b) \/ \E k \in Jobs : PopNext(b, k))
  BY <1>24 DEF RunError, Goto, FailIfRunning
<1>25. ASSUME NEW t \in Threads, ReturnToQueue(t) PROVE (\E b \in Actors : EnqueueFirst(b) \/ \E k \in Jobs : PopNext(b, k))
  BY <1>25 DEF ReturnToQueue, Goto
<1>26. ASSUME NEW t \in Threads, ReturnedRow(t) PROVE (\E b \in Actors : EnqueueFirst(b) \/ \E k \in Jobs : PopNext(b, k))
  BY <1>26 DEF ReturnedRow, Goto, SetStatus
<1>27. ASSUME NEW t \in Threads, ReleaseSlot(t) PROVE (\E b \in Actors : EnqueueFirst(b) \/ \E k \in Jobs : PopNext(b, k))
  BY <1>27 DEF ReleaseSlot, Goto
<1>28. ASSUME NEW t \in Threads, ClearRunning(t) PROVE (\E b \in Actors : EnqueueFirst(b) \/ \E k \in Jobs : PopNext(b, k))
  BY <1>28 DEF ClearRunning
<1>29. ASSUME NEW t \in Threads, NextCheck(t) PROVE (\E b \in Actors : EnqueueFirst(b) \/ \E k \in Jobs : PopNext(b, k))
  BY <1>29 DEF NextCheck, Goto
<1>30. ASSUME NEW t \in Threads, AcquireTimedOut(t) PROVE (\E b \in Actors : EnqueueFirst(b) \/ \E k \in Jobs : PopNext(b, k))
  BY <1>30 DEF AcquireTimedOut, Goto, Spend, Kinds
<1>31. ASSUME NEW t \in Threads, JobTimedOut(t) PROVE (\E b \in Actors : EnqueueFirst(b) \/ \E k \in Jobs : PopNext(b, k))
  BY <1>31 DEF JobTimedOut, Goto, FailIfRunning
<1>32. ASSUME NEW t \in Threads, ChildStart(t) PROVE (\E b \in Actors : EnqueueFirst(b) \/ \E k \in Jobs : PopNext(b, k))
  BY <1>32 DEF ChildStart, ChildStep, SetStatus
<1>33. ASSUME NEW t \in Threads, ChildNoJob(t) PROVE (\E b \in Actors : EnqueueFirst(b) \/ \E k \in Jobs : PopNext(b, k))
  BY <1>33 DEF ChildNoJob, ChildStep, SetStatus
<1>34. ASSUME NEW t \in Threads, ChildDone(t) PROVE (\E b \in Actors : EnqueueFirst(b) \/ \E k \in Jobs : PopNext(b, k))
  BY <1>34 DEF ChildDone, ChildStep, SetStatus
<1>35. ASSUME NEW t \in Threads, ChildFail(t) PROVE (\E b \in Actors : EnqueueFirst(b) \/ \E k \in Jobs : PopNext(b, k))
  BY <1>35 DEF ChildFail, ChildStep, SetStatus
<1>36. ASSUME NEW t \in Threads, ChildExit(t) PROVE (\E b \in Actors : EnqueueFirst(b) \/ \E k \in Jobs : PopNext(b, k))
  BY <1>36 DEF ChildExit, ChildStep, SetStatus
<1>37. ASSUME NEW t \in Threads, ChildKilled(t) PROVE (\E b \in Actors : EnqueueFirst(b) \/ \E k \in Jobs : PopNext(b, k))
  BY <1>37 DEF ChildKilled, ChildStep, SetStatus
<1>38. ASSUME NEW t \in Threads, RunFault(t) PROVE (\E b \in Actors : EnqueueFirst(b) \/ \E k \in Jobs : PopNext(b, k))
  BY <1>38 DEF RunFault, Goto, Spend, Kinds
<1>39. ASSUME NEW t \in Threads, WaitFault(t) PROVE (\E b \in Actors : EnqueueFirst(b) \/ \E k \in Jobs : PopNext(b, k))
  BY <1>39 DEF WaitFault, Goto, Spend, Kinds
<1>40. ASSUME NEW t \in Threads, ChildFault(t) PROVE (\E b \in Actors : EnqueueFirst(b) \/ \E k \in Jobs : PopNext(b, k))
  BY <1>40 DEF ChildFault, Spend, SetStatus, Kinds
<1>41. ASSUME WatchTick PROVE (\E b \in Actors : EnqueueFirst(b) \/ \E k \in Jobs : PopNext(b, k))
  BY <1>41 DEF WatchTick, Goto
<1>42. ASSUME Crash PROVE (\E b \in Actors : EnqueueFirst(b) \/ \E k \in Jobs : PopNext(b, k))
  BY <1>42 DEF Crash, Spend, StopServer, Kinds
<1>43. ASSUME Recover PROVE (\E b \in Actors : EnqueueFirst(b) \/ \E k \in Jobs : PopNext(b, k))
  BY <1>43 DEF Recover, Goto
<1>44. ASSUME NEW j \in Jobs, Requeue(j) PROVE (\E b \in Actors : EnqueueFirst(b) \/ \E k \in Jobs : PopNext(b, k))
  BY <1>44 DEF Requeue
<1>45. ASSUME BootDone PROVE (\E b \in Actors : EnqueueFirst(b) \/ \E k \in Jobs : PopNext(b, k))
  BY <1>45 DEF BootDone, Goto
<1>46. ASSUME DeployBegin PROVE (\E b \in Actors : EnqueueFirst(b) \/ \E k \in Jobs : PopNext(b, k))
  BY <1>46 DEF DeployBegin, Spend, Kinds
<1>47. ASSUME DeployFindsIdle PROVE (\E b \in Actors : EnqueueFirst(b) \/ \E k \in Jobs : PopNext(b, k))
  BY <1>47 DEF DeployFindsIdle
<1>48. ASSUME DeployRestart PROVE (\E b \in Actors : EnqueueFirst(b) \/ \E k \in Jobs : PopNext(b, k))
  BY <1>48 DEF DeployRestart, StopServer
<1>49. ASSUME DeployRestartUnheard PROVE (\E b \in Actors : EnqueueFirst(b) \/ \E k \in Jobs : PopNext(b, k))
  BY <1>49 DEF DeployRestartUnheard, Spend, StopServer, Kinds
<1>50. ASSUME DeployEnd PROVE (\E b \in Actors : EnqueueFirst(b) \/ \E k \in Jobs : PopNext(b, k))
  BY <1>50 DEF DeployEnd
<1>51. ASSUME DeployGivesUp PROVE (\E b \in Actors : EnqueueFirst(b) \/ \E k \in Jobs : PopNext(b, k))
  BY <1>51 DEF DeployGivesUp
<1>52. ASSUME DeployInterrupted PROVE (\E b \in Actors : EnqueueFirst(b) \/ \E k \in Jobs : PopNext(b, k))
  BY <1>52 DEF DeployInterrupted, Spend, Kinds
<1>53. ASSUME OtherTakes PROVE (\E b \in Actors : EnqueueFirst(b) \/ \E k \in Jobs : PopNext(b, k))
  BY <1>53 DEF OtherTakes, Spend, Kinds
<1>54. ASSUME OtherReleases PROVE (\E b \in Actors : EnqueueFirst(b) \/ \E k \in Jobs : PopNext(b, k))
  BY <1>54 DEF OtherReleases
<1>55. ASSUME Quiet PROVE (\E b \in Actors : EnqueueFirst(b) \/ \E k \in Jobs : PopNext(b, k))
  BY <1>55 DEF Quiet, vars
<1>56. CASE UNCHANGED vars
  BY <1>56 DEF vars
<1> QED
  BY <1>1, <1>2, <1>3, <1>4, <1>5, <1>6, <1>7, <1>8, <1>9, <1>10, <1>11, <1>12, <1>13,
     <1>14, <1>15, <1>16, <1>17, <1>18, <1>19, <1>20, <1>21, <1>22, <1>23, <1>24, <1>25,
     <1>26, <1>27, <1>28, <1>29, <1>30, <1>31, <1>32, <1>33, <1>34, <1>35, <1>36, <1>37,
     <1>38, <1>39, <1>40, <1>41, <1>42, <1>43, <1>44, <1>45, <1>46, <1>47, <1>48, <1>49,
     <1>50, <1>51, <1>52, <1>53, <1>54, <1>55, <1>56
     DEF Next, Enqueue, RunStep, ChildWork, Startup, Pop

\* Where a new job in the queue comes from.
LEMMA QueueStep ==
  ASSUME TypeInv, NoDuplicates, [Next]_vars, NEW l \in ToSet(queue'), l \notin ToSet(queue)
  PROVE  \E a \in Actors :
           /\ arg[a] = l
           /\ \/ EnqueueWaiting(a) \/ EnqueueFault(a)
              \/ a \in Threads /\ ReturnToQueue(a)
<1> DEFINE Goal == \E a \in Actors :
           /\ arg[a] = l
           /\ \/ EnqueueWaiting(a) \/ EnqueueFault(a)
              \/ a \in Threads /\ ReturnToQueue(a)
<1> SUFFICES Goal
  OBVIOUS
<1> HIDE DEF Goal
<1>1. ASSUME NEW j \in Jobs, CreateJob(j) PROVE Goal
  BY <1>1 DEF CreateJob
<1>2. ASSUME NEW j \in Jobs, DeleteCheck(j) PROVE Goal
  BY <1>2 DEF DeleteCheck
<1>3. ASSUME DeleteRow PROVE Goal
  BY <1>3 DEF DeleteRow, Return
<1>4. ASSUME NEW s \in Starters, NEW j \in Jobs, StartJob(s, j) PROVE Goal
  BY <1>4 DEF StartJob, Spend, Kinds
<1>5. ASSUME NEW a \in Actors, EnqueueRefused(a) PROVE Goal
  BY <1>5 DEF EnqueueRefused, Return, SetStatus
<1>6. ASSUME NEW a \in Actors, EnqueueWaiting(a) PROVE Goal
  BY <1>6, WaitingSet DEF Goal
<1>7. ASSUME NEW a \in Actors, EnqueueFirst(a) PROVE Goal
  BY <1>7 DEF EnqueueFirst, Goto
<1>8. ASSUME NEW a \in Actors, Launch(a) PROVE Goal
  BY <1>8 DEF Launch, SetStatus
<1>9. ASSUME NEW a \in Actors, NEW j \in Jobs, PopNext(a, j) PROVE Goal
  BY <1>9, PoppedSet
<1>10. ASSUME NEW a \in Actors, PopNothing(a) PROVE Goal
  BY <1>10 DEF PopNothing, Goto
<1>11. ASSUME NEW a \in Actors, EnqueueFault(a) PROVE Goal
  BY <1>11, WaitingSet DEF Goal
<1>12. ASSUME NEW a \in Actors, LaunchFault(a) PROVE Goal
  BY <1>12 DEF LaunchFault, Return, SetStatus, Spend, Kinds
<1>13. ASSUME LogFault PROVE Goal
  BY <1>13 DEF LogFault, Return, Spend, Kinds
<1>14. ASSUME NEW t \in Threads, ResponseFault(t) PROVE Goal
  BY <1>14 DEF ResponseFault, SetStatus, Spend, Kinds
<1>15. ASSUME NEW t \in Threads, DirMissing(t) PROVE Goal
  BY <1>15 DEF DirMissing, Goto
<1>16. ASSUME NEW t \in Threads, RunBegin(t) PROVE Goal
  BY <1>16 DEF RunBegin, Goto
<1>17. ASSUME NEW t \in Threads, Acquire(t) PROVE Goal
  BY <1>17 DEF Acquire, Goto
<1>18. ASSUME NEW t \in Threads, AcquireRefused(t) PROVE Goal
  BY <1>18 DEF AcquireRefused, Goto, SetStatus
<1>19. ASSUME NEW t \in Threads, AcquireAborted(t) PROVE Goal
  BY <1>19 DEF AcquireAborted, Goto
<1>20. ASSUME NEW t \in Threads, NotAcquired(t) PROVE Goal
  BY <1>20 DEF NotAcquired, Goto
<1>21. ASSUME NEW t \in Threads, Acquired(t) PROVE Goal
  BY <1>21 DEF Acquired, Goto, SetStatus
<1>22. ASSUME NEW t \in Threads, Spawn(t) PROVE Goal
  BY <1>22 DEF Spawn, Goto
<1>23. ASSUME NEW t \in Threads, ChildExited(t) PROVE Goal
  BY <1>23 DEF ChildExited, Goto, FailIfRunning
<1>24. ASSUME NEW t \in Threads, RunError(t) PROVE Goal
  BY <1>24 DEF RunError, Goto, FailIfRunning
<1>25. ASSUME NEW t \in Threads, ReturnToQueue(t) PROVE Goal
  BY <1>25, ReturnedSet DEF Goal, Actors
<1>26. ASSUME NEW t \in Threads, ReturnedRow(t) PROVE Goal
  BY <1>26 DEF ReturnedRow, Goto, SetStatus
<1>27. ASSUME NEW t \in Threads, ReleaseSlot(t) PROVE Goal
  BY <1>27 DEF ReleaseSlot, Goto
<1>28. ASSUME NEW t \in Threads, ClearRunning(t) PROVE Goal
  BY <1>28 DEF ClearRunning
<1>29. ASSUME NEW t \in Threads, NextCheck(t) PROVE Goal
  BY <1>29 DEF NextCheck, Goto
<1>30. ASSUME NEW t \in Threads, AcquireTimedOut(t) PROVE Goal
  BY <1>30 DEF AcquireTimedOut, Goto, Spend, Kinds
<1>31. ASSUME NEW t \in Threads, JobTimedOut(t) PROVE Goal
  BY <1>31 DEF JobTimedOut, Goto, FailIfRunning
<1>32. ASSUME NEW t \in Threads, ChildStart(t) PROVE Goal
  BY <1>32 DEF ChildStart, ChildStep, SetStatus
<1>33. ASSUME NEW t \in Threads, ChildNoJob(t) PROVE Goal
  BY <1>33 DEF ChildNoJob, ChildStep, SetStatus
<1>34. ASSUME NEW t \in Threads, ChildDone(t) PROVE Goal
  BY <1>34 DEF ChildDone, ChildStep, SetStatus
<1>35. ASSUME NEW t \in Threads, ChildFail(t) PROVE Goal
  BY <1>35 DEF ChildFail, ChildStep, SetStatus
<1>36. ASSUME NEW t \in Threads, ChildExit(t) PROVE Goal
  BY <1>36 DEF ChildExit, ChildStep, SetStatus
<1>37. ASSUME NEW t \in Threads, ChildKilled(t) PROVE Goal
  BY <1>37 DEF ChildKilled, ChildStep, SetStatus
<1>38. ASSUME NEW t \in Threads, RunFault(t) PROVE Goal
  BY <1>38 DEF RunFault, Goto, Spend, Kinds
<1>39. ASSUME NEW t \in Threads, WaitFault(t) PROVE Goal
  BY <1>39 DEF WaitFault, Goto, Spend, Kinds
<1>40. ASSUME NEW t \in Threads, ChildFault(t) PROVE Goal
  BY <1>40 DEF ChildFault, Spend, SetStatus, Kinds
<1>41. ASSUME WatchTick PROVE Goal
  BY <1>41 DEF WatchTick, Goto
<1>42. ASSUME Crash PROVE Goal
  BY <1>42, StoppedSet DEF Crash
<1>43. ASSUME Recover PROVE Goal
  BY <1>43 DEF Recover, Goto
<1>44. ASSUME NEW j \in Jobs, Requeue(j) PROVE Goal
  BY <1>44 DEF Requeue
<1>45. ASSUME BootDone PROVE Goal
  BY <1>45 DEF BootDone, Goto
<1>46. ASSUME DeployBegin PROVE Goal
  BY <1>46 DEF DeployBegin, Spend, Kinds
<1>47. ASSUME DeployFindsIdle PROVE Goal
  BY <1>47 DEF DeployFindsIdle
<1>48. ASSUME DeployRestart PROVE Goal
  BY <1>48, StoppedSet DEF DeployRestart
<1>49. ASSUME DeployRestartUnheard PROVE Goal
  BY <1>49, StoppedSet DEF DeployRestartUnheard
<1>50. ASSUME DeployEnd PROVE Goal
  BY <1>50 DEF DeployEnd
<1>51. ASSUME DeployGivesUp PROVE Goal
  BY <1>51 DEF DeployGivesUp
<1>52. ASSUME DeployInterrupted PROVE Goal
  BY <1>52 DEF DeployInterrupted, Spend, Kinds
<1>53. ASSUME OtherTakes PROVE Goal
  BY <1>53 DEF OtherTakes, Spend, Kinds
<1>54. ASSUME OtherReleases PROVE Goal
  BY <1>54 DEF OtherReleases
<1>55. ASSUME Quiet PROVE Goal
  BY <1>55 DEF Quiet, vars
<1>56. CASE UNCHANGED vars
  BY <1>56 DEF vars
<1> QED
  BY <1>1, <1>2, <1>3, <1>4, <1>5, <1>6, <1>7, <1>8, <1>9, <1>10, <1>11, <1>12, <1>13,
     <1>14, <1>15, <1>16, <1>17, <1>18, <1>19, <1>20, <1>21, <1>22, <1>23, <1>24, <1>25,
     <1>26, <1>27, <1>28, <1>29, <1>30, <1>31, <1>32, <1>33, <1>34, <1>35, <1>36, <1>37,
     <1>38, <1>39, <1>40, <1>41, <1>42, <1>43, <1>44, <1>45, <1>46, <1>47, <1>48, <1>49,
     <1>50, <1>51, <1>52, <1>53, <1>54, <1>55, <1>56
     DEF Next, Enqueue, RunStep, ChildWork, Startup, Pop

\* The list of the startup handler is made once.
LEMMA TodoShrinks ==
  ASSUME [Next]_vars
  PROVE  Recover \/ todo' \subseteq todo
<1>1. ASSUME NEW j \in Jobs, CreateJob(j) PROVE Recover \/ todo' \subseteq todo
  BY <1>1 DEF CreateJob
<1>2. ASSUME NEW j \in Jobs, DeleteCheck(j) PROVE Recover \/ todo' \subseteq todo
  BY <1>2 DEF DeleteCheck
<1>3. ASSUME DeleteRow PROVE Recover \/ todo' \subseteq todo
  BY <1>3 DEF DeleteRow, Return
<1>4. ASSUME NEW s \in Starters, NEW j \in Jobs, StartJob(s, j) PROVE Recover \/ todo' \subseteq todo
  BY <1>4 DEF StartJob, Spend, Kinds
<1>5. ASSUME NEW a \in Actors, EnqueueRefused(a) PROVE Recover \/ todo' \subseteq todo
  BY <1>5 DEF EnqueueRefused, Return, SetStatus
<1>6. ASSUME NEW a \in Actors, EnqueueWaiting(a) PROVE Recover \/ todo' \subseteq todo
  BY <1>6 DEF EnqueueWaiting, Return, SetStatus
<1>7. ASSUME NEW a \in Actors, EnqueueFirst(a) PROVE Recover \/ todo' \subseteq todo
  BY <1>7 DEF EnqueueFirst, Goto
<1>8. ASSUME NEW a \in Actors, Launch(a) PROVE Recover \/ todo' \subseteq todo
  BY <1>8 DEF Launch, SetStatus
<1>9. ASSUME NEW a \in Actors, NEW j \in Jobs, PopNext(a, j) PROVE Recover \/ todo' \subseteq todo
  BY <1>9 DEF PopNext
<1>10. ASSUME NEW a \in Actors, PopNothing(a) PROVE Recover \/ todo' \subseteq todo
  BY <1>10 DEF PopNothing, Goto
<1>11. ASSUME NEW a \in Actors, EnqueueFault(a) PROVE Recover \/ todo' \subseteq todo
  BY <1>11 DEF EnqueueFault, Return, SetStatus, Spend, Kinds
<1>12. ASSUME NEW a \in Actors, LaunchFault(a) PROVE Recover \/ todo' \subseteq todo
  BY <1>12 DEF LaunchFault, Return, SetStatus, Spend, Kinds
<1>13. ASSUME LogFault PROVE Recover \/ todo' \subseteq todo
  BY <1>13 DEF LogFault, Return, Spend, Kinds
<1>14. ASSUME NEW t \in Threads, ResponseFault(t) PROVE Recover \/ todo' \subseteq todo
  BY <1>14 DEF ResponseFault, SetStatus, Spend, Kinds
<1>15. ASSUME NEW t \in Threads, DirMissing(t) PROVE Recover \/ todo' \subseteq todo
  BY <1>15 DEF DirMissing, Goto
<1>16. ASSUME NEW t \in Threads, RunBegin(t) PROVE Recover \/ todo' \subseteq todo
  BY <1>16 DEF RunBegin, Goto
<1>17. ASSUME NEW t \in Threads, Acquire(t) PROVE Recover \/ todo' \subseteq todo
  BY <1>17 DEF Acquire, Goto
<1>18. ASSUME NEW t \in Threads, AcquireRefused(t) PROVE Recover \/ todo' \subseteq todo
  BY <1>18 DEF AcquireRefused, Goto, SetStatus
<1>19. ASSUME NEW t \in Threads, AcquireAborted(t) PROVE Recover \/ todo' \subseteq todo
  BY <1>19 DEF AcquireAborted, Goto
<1>20. ASSUME NEW t \in Threads, NotAcquired(t) PROVE Recover \/ todo' \subseteq todo
  BY <1>20 DEF NotAcquired, Goto
<1>21. ASSUME NEW t \in Threads, Acquired(t) PROVE Recover \/ todo' \subseteq todo
  BY <1>21 DEF Acquired, Goto, SetStatus
<1>22. ASSUME NEW t \in Threads, Spawn(t) PROVE Recover \/ todo' \subseteq todo
  BY <1>22 DEF Spawn, Goto
<1>23. ASSUME NEW t \in Threads, ChildExited(t) PROVE Recover \/ todo' \subseteq todo
  BY <1>23 DEF ChildExited, Goto, FailIfRunning
<1>24. ASSUME NEW t \in Threads, RunError(t) PROVE Recover \/ todo' \subseteq todo
  BY <1>24 DEF RunError, Goto, FailIfRunning
<1>25. ASSUME NEW t \in Threads, ReturnToQueue(t) PROVE Recover \/ todo' \subseteq todo
  BY <1>25 DEF ReturnToQueue, Goto
<1>26. ASSUME NEW t \in Threads, ReturnedRow(t) PROVE Recover \/ todo' \subseteq todo
  BY <1>26 DEF ReturnedRow, Goto, SetStatus
<1>27. ASSUME NEW t \in Threads, ReleaseSlot(t) PROVE Recover \/ todo' \subseteq todo
  BY <1>27 DEF ReleaseSlot, Goto
<1>28. ASSUME NEW t \in Threads, ClearRunning(t) PROVE Recover \/ todo' \subseteq todo
  BY <1>28 DEF ClearRunning
<1>29. ASSUME NEW t \in Threads, NextCheck(t) PROVE Recover \/ todo' \subseteq todo
  BY <1>29 DEF NextCheck, Goto
<1>30. ASSUME NEW t \in Threads, AcquireTimedOut(t) PROVE Recover \/ todo' \subseteq todo
  BY <1>30 DEF AcquireTimedOut, Goto, Spend, Kinds
<1>31. ASSUME NEW t \in Threads, JobTimedOut(t) PROVE Recover \/ todo' \subseteq todo
  BY <1>31 DEF JobTimedOut, Goto, FailIfRunning
<1>32. ASSUME NEW t \in Threads, ChildStart(t) PROVE Recover \/ todo' \subseteq todo
  BY <1>32 DEF ChildStart, ChildStep, SetStatus
<1>33. ASSUME NEW t \in Threads, ChildNoJob(t) PROVE Recover \/ todo' \subseteq todo
  BY <1>33 DEF ChildNoJob, ChildStep, SetStatus
<1>34. ASSUME NEW t \in Threads, ChildDone(t) PROVE Recover \/ todo' \subseteq todo
  BY <1>34 DEF ChildDone, ChildStep, SetStatus
<1>35. ASSUME NEW t \in Threads, ChildFail(t) PROVE Recover \/ todo' \subseteq todo
  BY <1>35 DEF ChildFail, ChildStep, SetStatus
<1>36. ASSUME NEW t \in Threads, ChildExit(t) PROVE Recover \/ todo' \subseteq todo
  BY <1>36 DEF ChildExit, ChildStep, SetStatus
<1>37. ASSUME NEW t \in Threads, ChildKilled(t) PROVE Recover \/ todo' \subseteq todo
  BY <1>37 DEF ChildKilled, ChildStep, SetStatus
<1>38. ASSUME NEW t \in Threads, RunFault(t) PROVE Recover \/ todo' \subseteq todo
  BY <1>38 DEF RunFault, Goto, Spend, Kinds
<1>39. ASSUME NEW t \in Threads, WaitFault(t) PROVE Recover \/ todo' \subseteq todo
  BY <1>39 DEF WaitFault, Goto, Spend, Kinds
<1>40. ASSUME NEW t \in Threads, ChildFault(t) PROVE Recover \/ todo' \subseteq todo
  BY <1>40 DEF ChildFault, Spend, SetStatus, Kinds
<1>41. ASSUME WatchTick PROVE Recover \/ todo' \subseteq todo
  BY <1>41 DEF WatchTick, Goto
<1>42. ASSUME Crash PROVE Recover \/ todo' \subseteq todo
  BY <1>42 DEF Crash, Spend, StopServer, Kinds
<1>43. ASSUME Recover PROVE Recover \/ todo' \subseteq todo
  BY <1>43 DEF Recover, Goto
<1>44. ASSUME NEW j \in Jobs, Requeue(j) PROVE Recover \/ todo' \subseteq todo
  BY <1>44 DEF Requeue
<1>45. ASSUME BootDone PROVE Recover \/ todo' \subseteq todo
  BY <1>45 DEF BootDone, Goto
<1>46. ASSUME DeployBegin PROVE Recover \/ todo' \subseteq todo
  BY <1>46 DEF DeployBegin, Spend, Kinds
<1>47. ASSUME DeployFindsIdle PROVE Recover \/ todo' \subseteq todo
  BY <1>47 DEF DeployFindsIdle
<1>48. ASSUME DeployRestart PROVE Recover \/ todo' \subseteq todo
  BY <1>48 DEF DeployRestart, StopServer
<1>49. ASSUME DeployRestartUnheard PROVE Recover \/ todo' \subseteq todo
  BY <1>49 DEF DeployRestartUnheard, Spend, StopServer, Kinds
<1>50. ASSUME DeployEnd PROVE Recover \/ todo' \subseteq todo
  BY <1>50 DEF DeployEnd
<1>51. ASSUME DeployGivesUp PROVE Recover \/ todo' \subseteq todo
  BY <1>51 DEF DeployGivesUp
<1>52. ASSUME DeployInterrupted PROVE Recover \/ todo' \subseteq todo
  BY <1>52 DEF DeployInterrupted, Spend, Kinds
<1>53. ASSUME OtherTakes PROVE Recover \/ todo' \subseteq todo
  BY <1>53 DEF OtherTakes, Spend, Kinds
<1>54. ASSUME OtherReleases PROVE Recover \/ todo' \subseteq todo
  BY <1>54 DEF OtherReleases
<1>55. ASSUME Quiet PROVE Recover \/ todo' \subseteq todo
  BY <1>55 DEF Quiet, vars
<1>56. CASE UNCHANGED vars
  BY <1>56 DEF vars
<1> QED
  BY <1>1, <1>2, <1>3, <1>4, <1>5, <1>6, <1>7, <1>8, <1>9, <1>10, <1>11, <1>12, <1>13,
     <1>14, <1>15, <1>16, <1>17, <1>18, <1>19, <1>20, <1>21, <1>22, <1>23, <1>24, <1>25,
     <1>26, <1>27, <1>28, <1>29, <1>30, <1>31, <1>32, <1>33, <1>34, <1>35, <1>36, <1>37,
     <1>38, <1>39, <1>40, <1>41, <1>42, <1>43, <1>44, <1>45, <1>46, <1>47, <1>48, <1>49,
     <1>50, <1>51, <1>52, <1>53, <1>54, <1>55, <1>56
     DEF Next, Enqueue, RunStep, ChildWork, Startup, Pop

\* The startup handler is over or begins anew only in these ways.
LEMMA BootEnds ==
  ASSUME TypeInv, PointsOfActors, [Next]_vars, pc'[Boot] \in {"idle", "recover"}
  PROVE  StopServer \/ BootDone \/ pc[Boot] \in {"idle", "recover"}
<1> USE ActorsDistinct DEF ActorsDistinct, PointsOfActors, TypeInv, TypeOK, Actors, RunPoints
<1>1. ASSUME NEW j \in Jobs, CreateJob(j) PROVE (StopServer \/ BootDone \/ pc[Boot] \in {"idle", "recover"})
  BY <1>1 DEF CreateJob
<1>2. ASSUME NEW j \in Jobs, DeleteCheck(j) PROVE (StopServer \/ BootDone \/ pc[Boot] \in {"idle", "recover"})
  BY <1>2 DEF DeleteCheck
<1>3. ASSUME DeleteRow PROVE (StopServer \/ BootDone \/ pc[Boot] \in {"idle", "recover"})
  BY <1>3 DEF DeleteRow, Return
<1>4. ASSUME NEW s \in Starters, NEW j \in Jobs, StartJob(s, j) PROVE (StopServer \/ BootDone \/ pc[Boot] \in {"idle", "recover"})
  BY <1>4 DEF StartJob, Spend, Kinds
<1>5. ASSUME NEW a \in Actors, EnqueueRefused(a) PROVE (StopServer \/ BootDone \/ pc[Boot] \in {"idle", "recover"})
  BY <1>5 DEF EnqueueRefused, Return, SetStatus
<1>6. ASSUME NEW a \in Actors, EnqueueWaiting(a) PROVE (StopServer \/ BootDone \/ pc[Boot] \in {"idle", "recover"})
  BY <1>6 DEF EnqueueWaiting, Return, SetStatus
<1>7. ASSUME NEW a \in Actors, EnqueueFirst(a) PROVE (StopServer \/ BootDone \/ pc[Boot] \in {"idle", "recover"})
  BY <1>7 DEF EnqueueFirst, Goto
<1>8. ASSUME NEW a \in Actors, Launch(a) PROVE (StopServer \/ BootDone \/ pc[Boot] \in {"idle", "recover"})
  <2>1. PICK t \in Threads :
          /\ pc[t] = "idle" /\ child[t] = "none"
          /\ pc' = [pc EXCEPT ![a] = IF a = Boot THEN "requeue" ELSE "idle", ![t] = "begin"]
          /\ arg' = [arg EXCEPT ![a] = None, ![t] = arg[a]]
    BY <1>8 DEF Launch
  <2>2. t \in Actors /\ t # a /\ pc[a] = "launch"
    BY <1>8, <2>1 DEF Launch
  <2> QED
    BY <2>1, <2>2
<1>9. ASSUME NEW a \in Actors, NEW j \in Jobs, PopNext(a, j) PROVE (StopServer \/ BootDone \/ pc[Boot] \in {"idle", "recover"})
  BY <1>9 DEF PopNext
<1>10. ASSUME NEW a \in Actors, PopNothing(a) PROVE (StopServer \/ BootDone \/ pc[Boot] \in {"idle", "recover"})
  BY <1>10 DEF PopNothing, Goto
<1>11. ASSUME NEW a \in Actors, EnqueueFault(a) PROVE (StopServer \/ BootDone \/ pc[Boot] \in {"idle", "recover"})
  BY <1>11 DEF EnqueueFault, Return, SetStatus, Spend, Kinds
<1>12. ASSUME NEW a \in Actors, LaunchFault(a) PROVE (StopServer \/ BootDone \/ pc[Boot] \in {"idle", "recover"})
  BY <1>12 DEF LaunchFault, Return, SetStatus, Spend, Kinds
<1>13. ASSUME LogFault PROVE (StopServer \/ BootDone \/ pc[Boot] \in {"idle", "recover"})
  BY <1>13 DEF LogFault, Return, Spend, Kinds
<1>14. ASSUME NEW t \in Threads, ResponseFault(t) PROVE (StopServer \/ BootDone \/ pc[Boot] \in {"idle", "recover"})
  BY <1>14 DEF ResponseFault, SetStatus, Spend, Kinds
<1>15. ASSUME NEW t \in Threads, DirMissing(t) PROVE (StopServer \/ BootDone \/ pc[Boot] \in {"idle", "recover"})
  BY <1>15 DEF DirMissing, Goto
<1>16. ASSUME NEW t \in Threads, RunBegin(t) PROVE (StopServer \/ BootDone \/ pc[Boot] \in {"idle", "recover"})
  BY <1>16 DEF RunBegin, Goto
<1>17. ASSUME NEW t \in Threads, Acquire(t) PROVE (StopServer \/ BootDone \/ pc[Boot] \in {"idle", "recover"})
  BY <1>17 DEF Acquire, Goto
<1>18. ASSUME NEW t \in Threads, AcquireRefused(t) PROVE (StopServer \/ BootDone \/ pc[Boot] \in {"idle", "recover"})
  BY <1>18 DEF AcquireRefused, Goto, SetStatus
<1>19. ASSUME NEW t \in Threads, AcquireAborted(t) PROVE (StopServer \/ BootDone \/ pc[Boot] \in {"idle", "recover"})
  BY <1>19 DEF AcquireAborted, Goto
<1>20. ASSUME NEW t \in Threads, NotAcquired(t) PROVE (StopServer \/ BootDone \/ pc[Boot] \in {"idle", "recover"})
  BY <1>20 DEF NotAcquired, Goto
<1>21. ASSUME NEW t \in Threads, Acquired(t) PROVE (StopServer \/ BootDone \/ pc[Boot] \in {"idle", "recover"})
  BY <1>21 DEF Acquired, Goto, SetStatus
<1>22. ASSUME NEW t \in Threads, Spawn(t) PROVE (StopServer \/ BootDone \/ pc[Boot] \in {"idle", "recover"})
  BY <1>22 DEF Spawn, Goto
<1>23. ASSUME NEW t \in Threads, ChildExited(t) PROVE (StopServer \/ BootDone \/ pc[Boot] \in {"idle", "recover"})
  BY <1>23 DEF ChildExited, Goto, FailIfRunning
<1>24. ASSUME NEW t \in Threads, RunError(t) PROVE (StopServer \/ BootDone \/ pc[Boot] \in {"idle", "recover"})
  BY <1>24 DEF RunError, Goto, FailIfRunning
<1>25. ASSUME NEW t \in Threads, ReturnToQueue(t) PROVE (StopServer \/ BootDone \/ pc[Boot] \in {"idle", "recover"})
  BY <1>25 DEF ReturnToQueue, Goto
<1>26. ASSUME NEW t \in Threads, ReturnedRow(t) PROVE (StopServer \/ BootDone \/ pc[Boot] \in {"idle", "recover"})
  BY <1>26 DEF ReturnedRow, Goto, SetStatus
<1>27. ASSUME NEW t \in Threads, ReleaseSlot(t) PROVE (StopServer \/ BootDone \/ pc[Boot] \in {"idle", "recover"})
  BY <1>27 DEF ReleaseSlot, Goto
<1>28. ASSUME NEW t \in Threads, ClearRunning(t) PROVE (StopServer \/ BootDone \/ pc[Boot] \in {"idle", "recover"})
  BY <1>28 DEF ClearRunning
<1>29. ASSUME NEW t \in Threads, NextCheck(t) PROVE (StopServer \/ BootDone \/ pc[Boot] \in {"idle", "recover"})
  BY <1>29 DEF NextCheck, Goto
<1>30. ASSUME NEW t \in Threads, AcquireTimedOut(t) PROVE (StopServer \/ BootDone \/ pc[Boot] \in {"idle", "recover"})
  BY <1>30 DEF AcquireTimedOut, Goto, Spend, Kinds
<1>31. ASSUME NEW t \in Threads, JobTimedOut(t) PROVE (StopServer \/ BootDone \/ pc[Boot] \in {"idle", "recover"})
  BY <1>31 DEF JobTimedOut, Goto, FailIfRunning
<1>32. ASSUME NEW t \in Threads, ChildStart(t) PROVE (StopServer \/ BootDone \/ pc[Boot] \in {"idle", "recover"})
  BY <1>32 DEF ChildStart, ChildStep, SetStatus
<1>33. ASSUME NEW t \in Threads, ChildNoJob(t) PROVE (StopServer \/ BootDone \/ pc[Boot] \in {"idle", "recover"})
  BY <1>33 DEF ChildNoJob, ChildStep, SetStatus
<1>34. ASSUME NEW t \in Threads, ChildDone(t) PROVE (StopServer \/ BootDone \/ pc[Boot] \in {"idle", "recover"})
  BY <1>34 DEF ChildDone, ChildStep, SetStatus
<1>35. ASSUME NEW t \in Threads, ChildFail(t) PROVE (StopServer \/ BootDone \/ pc[Boot] \in {"idle", "recover"})
  BY <1>35 DEF ChildFail, ChildStep, SetStatus
<1>36. ASSUME NEW t \in Threads, ChildExit(t) PROVE (StopServer \/ BootDone \/ pc[Boot] \in {"idle", "recover"})
  BY <1>36 DEF ChildExit, ChildStep, SetStatus
<1>37. ASSUME NEW t \in Threads, ChildKilled(t) PROVE (StopServer \/ BootDone \/ pc[Boot] \in {"idle", "recover"})
  BY <1>37 DEF ChildKilled, ChildStep, SetStatus
<1>38. ASSUME NEW t \in Threads, RunFault(t) PROVE (StopServer \/ BootDone \/ pc[Boot] \in {"idle", "recover"})
  BY <1>38 DEF RunFault, Goto, Spend, Kinds
<1>39. ASSUME NEW t \in Threads, WaitFault(t) PROVE (StopServer \/ BootDone \/ pc[Boot] \in {"idle", "recover"})
  BY <1>39 DEF WaitFault, Goto, Spend, Kinds
<1>40. ASSUME NEW t \in Threads, ChildFault(t) PROVE (StopServer \/ BootDone \/ pc[Boot] \in {"idle", "recover"})
  BY <1>40 DEF ChildFault, Spend, SetStatus, Kinds
<1>41. ASSUME WatchTick PROVE (StopServer \/ BootDone \/ pc[Boot] \in {"idle", "recover"})
  BY <1>41 DEF WatchTick, Goto
<1>42. ASSUME Crash PROVE (StopServer \/ BootDone \/ pc[Boot] \in {"idle", "recover"})
  BY <1>42 DEF Crash
<1>43. ASSUME Recover PROVE (StopServer \/ BootDone \/ pc[Boot] \in {"idle", "recover"})
  BY <1>43 DEF Recover, Goto
<1>44. ASSUME NEW j \in Jobs, Requeue(j) PROVE (StopServer \/ BootDone \/ pc[Boot] \in {"idle", "recover"})
  BY <1>44 DEF Requeue
<1>45. ASSUME BootDone PROVE (StopServer \/ BootDone \/ pc[Boot] \in {"idle", "recover"})
  BY <1>45
<1>46. ASSUME DeployBegin PROVE (StopServer \/ BootDone \/ pc[Boot] \in {"idle", "recover"})
  BY <1>46 DEF DeployBegin, Spend, Kinds
<1>47. ASSUME DeployFindsIdle PROVE (StopServer \/ BootDone \/ pc[Boot] \in {"idle", "recover"})
  BY <1>47 DEF DeployFindsIdle
<1>48. ASSUME DeployRestart PROVE (StopServer \/ BootDone \/ pc[Boot] \in {"idle", "recover"})
  BY <1>48 DEF DeployRestart
<1>49. ASSUME DeployRestartUnheard PROVE (StopServer \/ BootDone \/ pc[Boot] \in {"idle", "recover"})
  BY <1>49 DEF DeployRestartUnheard
<1>50. ASSUME DeployEnd PROVE (StopServer \/ BootDone \/ pc[Boot] \in {"idle", "recover"})
  BY <1>50 DEF DeployEnd
<1>51. ASSUME DeployGivesUp PROVE (StopServer \/ BootDone \/ pc[Boot] \in {"idle", "recover"})
  BY <1>51 DEF DeployGivesUp
<1>52. ASSUME DeployInterrupted PROVE (StopServer \/ BootDone \/ pc[Boot] \in {"idle", "recover"})
  BY <1>52 DEF DeployInterrupted, Spend, Kinds
<1>53. ASSUME OtherTakes PROVE (StopServer \/ BootDone \/ pc[Boot] \in {"idle", "recover"})
  BY <1>53 DEF OtherTakes, Spend, Kinds
<1>54. ASSUME OtherReleases PROVE (StopServer \/ BootDone \/ pc[Boot] \in {"idle", "recover"})
  BY <1>54 DEF OtherReleases
<1>55. ASSUME Quiet PROVE (StopServer \/ BootDone \/ pc[Boot] \in {"idle", "recover"})
  BY <1>55 DEF Quiet, vars
<1>56. CASE UNCHANGED vars
  BY <1>56 DEF vars
<1> QED
  BY <1>1, <1>2, <1>3, <1>4, <1>5, <1>6, <1>7, <1>8, <1>9, <1>10, <1>11, <1>12, <1>13,
     <1>14, <1>15, <1>16, <1>17, <1>18, <1>19, <1>20, <1>21, <1>22, <1>23, <1>24, <1>25,
     <1>26, <1>27, <1>28, <1>29, <1>30, <1>31, <1>32, <1>33, <1>34, <1>35, <1>36, <1>37,
     <1>38, <1>39, <1>40, <1>41, <1>42, <1>43, <1>44, <1>45, <1>46, <1>47, <1>48, <1>49,
     <1>50, <1>51, <1>52, <1>53, <1>54, <1>55, <1>56
     DEF Next, Enqueue, RunStep, ChildWork, Startup, Pop

LEMMA TodoStep == BootInv /\ NoDuplicates /\ [Next]_vars => TodoIsAhead'
<1> SUFFICES ASSUME BootInv, NoDuplicates, [Next]_vars PROVE TodoIsAhead'
  OBVIOUS
<1> TypeInv /\ PointsOfActors /\ BootAlone /\ TodoIsAhead
  BY DEF BootInv
<1>1. CASE Recover
  <2>1. /\ pc'[Boot] = "requeue" /\ running' = None /\ \A t \in Threads : pc'[t] = "idle"
        /\ \A a \in Starters \cup {Loop, Watch, Janitor} : pc'[a] = "idle"
    BY <1>1, ActorsDistinct
       DEF Recover, Goto, BootAlone, TypeInv, TypeOK, Actors, ActorsDistinct
  <2>2. ToSet(queue') = {}
    BY <1>1 DEF Recover, BootAlone, ToSet
  <2>3. todo' \subseteq Jobs
    BY <1>1 DEF Recover
  <2> QED
    BY <2>1, <2>2, <2>3, NoneIsNoJob
       DEF TodoIsAhead, Placed, Actors, RunPoints, NoneIsNoJob
<1>2. CASE todo' \subseteq todo
  <2>1. pc'[Boot] \in {"idle", "recover"} => todo' = {}
    <3>1. CASE StopServer
      BY <3>1 DEF StopServer
    <3>2. CASE BootDone
      BY <3>2 DEF BootDone
    <3>3. CASE pc'[Boot] \in {"idle", "recover"} => pc[Boot] \in {"idle", "recover"}
      BY <1>2, <3>3 DEF TodoIsAhead
    <3> QED
      BY <3>1, <3>2, <3>3, BootEnds
  <2>2. ASSUME NEW j \in todo' PROVE j # running'
    <3>1. j \in todo /\ j \in Jobs
      BY <1>2, <2>2 DEF TypeInv, TypeOK
    <3>2. ASSUME NEW a \in Actors, EnqueueFirst(a) PROVE j # running'
      BY <3>1, <3>2 DEF EnqueueFirst, TodoIsAhead, Placed
    <3>3. ASSUME NEW a \in Actors, NEW k \in Jobs, PopNext(a, k) PROVE j # running'
      BY <3>1, <3>3, PoppedSet DEF PopNext, TodoIsAhead
    <3> QED
      BY <3>1, <3>2, <3>3, RunningStep, NoneIsNoJob DEF TodoIsAhead, NoneIsNoJob
  <2>3. ASSUME NEW j \in todo', j \in ToSet(queue') PROVE FALSE
    <3>1. j \in todo /\ j \notin ToSet(queue)
      BY <1>2, <2>3 DEF TodoIsAhead
    <3>2. PICK a \in Actors : /\ arg[a] = j
                              /\ \/ EnqueueWaiting(a) \/ EnqueueFault(a)
                                 \/ a \in Threads /\ ReturnToQueue(a)
      BY <2>3, <3>1, QueueStep
    <3> QED
      BY <3>1, <3>2
         DEF EnqueueWaiting, EnqueueFault, ReturnToQueue, TodoIsAhead, Placed, RunPoints
  <2>4. ASSUME NEW j \in todo', NEW b \in Actors, Placed(b, j)' PROVE FALSE
    <3>1. j \in todo /\ j \in Jobs /\ ~Placed(b, j)
      BY <1>2, <2>4 DEF TodoIsAhead, TypeInv, TypeOK
    <3>2. ~CreateJob(j) /\ \A s \in Starters : ~StartJob(s, j)
      BY <3>1 DEF CreateJob, StartJob, Up, TodoIsAhead
    <3>3. ~PopNext(b, j)
      BY <3>1, PoppedSet DEF TodoIsAhead
    <3>4. ~Requeue(j)
      BY <2>4 DEF Requeue
    <3>5. \A a \in Actors : arg[a] = j => pc[a] # "launch"
      BY <3>1 DEF TodoIsAhead, Placed
    <3> QED
      BY <2>4, <3>1, <3>2, <3>3, <3>4, <3>5, PlacedStep
  <2> QED
    BY <2>1, <2>2, <2>3, <2>4 DEF TodoIsAhead
<1> QED
  BY <1>1, <1>2, TodoShrinks

LEMMA BootStep == BootInv /\ NoDuplicates /\ [Next]_vars => BootInv'
BY TypeStep, PointsStep, BootAloneStep, TodoStep DEF BootInv

LEMMA BootInit == Init => BootInv
<1> SUFFICES ASSUME Init PROVE BootInv
  OBVIOUS
<1>1. \A a \in Actors : pc[a] = "idle"
  BY DEF Init
<1>2. PointsOfActors /\ BootAlone
  BY <1>1 DEF PointsOfActors, BootAlone, Actors
<1>3. TodoIsAhead
  BY DEF Init, TodoIsAhead
<1> QED
  BY <1>2, <1>3, TypeInit DEF BootInv

-----------------------------------------------------------------------------
(* A job waits or runs, not both, as long as no client starts it again.  Each *)
(* job is then enqueued once in the life of a server process, by POST         *)
(* /api/jobs when it is new or by the startup handler when it is still only   *)
(* on its list, so that nothing in memory knows of a job that enqueue gets.   *)

\* POST /start is the only thing that wakes a worker of the thread pool.
LEMMA StarterStep ==
  ASSUME TypeInv, [Next]_vars, NEW s \in Starters, pc[s] = "idle"
  PROVE  pc'[s] = "idle" \/ \E j \in Jobs : StartJob(s, j)
<1> DEFINE Goal == pc'[s] = "idle" \/ \E j \in Jobs : StartJob(s, j)
<1> SUFFICES Goal
  OBVIOUS
<1> USE ActorsDistinct DEF ActorsDistinct, TypeInv, TypeOK, Actors
<1>1. ASSUME NEW j \in Jobs, CreateJob(j) PROVE Goal
  BY <1>1 DEF CreateJob
<1>2. ASSUME NEW j \in Jobs, DeleteCheck(j) PROVE Goal
  BY <1>2 DEF DeleteCheck
<1>3. ASSUME DeleteRow PROVE Goal
  BY <1>3 DEF DeleteRow, Return
<1>4. ASSUME NEW r \in Starters, NEW j \in Jobs, StartJob(r, j) PROVE Goal
  BY <1>4 DEF StartJob
<1>5. ASSUME NEW a \in Actors, EnqueueRefused(a) PROVE Goal
  BY <1>5 DEF EnqueueRefused, Return, SetStatus
<1>6. ASSUME NEW a \in Actors, EnqueueWaiting(a) PROVE Goal
  BY <1>6 DEF EnqueueWaiting, Return, SetStatus
<1>7. ASSUME NEW a \in Actors, EnqueueFirst(a) PROVE Goal
  BY <1>7 DEF EnqueueFirst, Goto
<1>8. ASSUME NEW a \in Actors, Launch(a) PROVE Goal
  <2>1. PICK t \in Threads :
          /\ pc[t] = "idle" /\ child[t] = "none"
          /\ pc' = [pc EXCEPT ![a] = IF a = Boot THEN "requeue" ELSE "idle", ![t] = "begin"]
          /\ arg' = [arg EXCEPT ![a] = None, ![t] = arg[a]]
    BY <1>8 DEF Launch
  <2>2. t \in Actors /\ t # a /\ pc[a] = "launch"
    BY <1>8, <2>1 DEF Launch
  <2> QED
    BY <2>1, <2>2
<1>9. ASSUME NEW a \in Actors, NEW j \in Jobs, PopNext(a, j) PROVE Goal
  BY <1>9 DEF PopNext
<1>10. ASSUME NEW a \in Actors, PopNothing(a) PROVE Goal
  BY <1>10 DEF PopNothing, Goto
<1>11. ASSUME NEW a \in Actors, EnqueueFault(a) PROVE Goal
  BY <1>11 DEF EnqueueFault, Return, SetStatus, Spend, Kinds
<1>12. ASSUME NEW a \in Actors, LaunchFault(a) PROVE Goal
  BY <1>12 DEF LaunchFault, Return, SetStatus, Spend, Kinds
<1>13. ASSUME LogFault PROVE Goal
  BY <1>13 DEF LogFault, Return, Spend, Kinds
<1>14. ASSUME NEW t \in Threads, ResponseFault(t) PROVE Goal
  BY <1>14 DEF ResponseFault, SetStatus, Spend, Kinds
<1>15. ASSUME NEW t \in Threads, DirMissing(t) PROVE Goal
  BY <1>15 DEF DirMissing, Goto
<1>16. ASSUME NEW t \in Threads, RunBegin(t) PROVE Goal
  BY <1>16 DEF RunBegin, Goto
<1>17. ASSUME NEW t \in Threads, Acquire(t) PROVE Goal
  BY <1>17 DEF Acquire, Goto
<1>18. ASSUME NEW t \in Threads, AcquireRefused(t) PROVE Goal
  BY <1>18 DEF AcquireRefused, Goto, SetStatus
<1>19. ASSUME NEW t \in Threads, AcquireAborted(t) PROVE Goal
  BY <1>19 DEF AcquireAborted, Goto
<1>20. ASSUME NEW t \in Threads, NotAcquired(t) PROVE Goal
  BY <1>20 DEF NotAcquired, Goto
<1>21. ASSUME NEW t \in Threads, Acquired(t) PROVE Goal
  BY <1>21 DEF Acquired, Goto, SetStatus
<1>22. ASSUME NEW t \in Threads, Spawn(t) PROVE Goal
  BY <1>22 DEF Spawn, Goto
<1>23. ASSUME NEW t \in Threads, ChildExited(t) PROVE Goal
  BY <1>23 DEF ChildExited, Goto, FailIfRunning
<1>24. ASSUME NEW t \in Threads, RunError(t) PROVE Goal
  BY <1>24 DEF RunError, Goto, FailIfRunning
<1>25. ASSUME NEW t \in Threads, ReturnToQueue(t) PROVE Goal
  BY <1>25 DEF ReturnToQueue, Goto
<1>26. ASSUME NEW t \in Threads, ReturnedRow(t) PROVE Goal
  BY <1>26 DEF ReturnedRow, Goto, SetStatus
<1>27. ASSUME NEW t \in Threads, ReleaseSlot(t) PROVE Goal
  BY <1>27 DEF ReleaseSlot, Goto
<1>28. ASSUME NEW t \in Threads, ClearRunning(t) PROVE Goal
  BY <1>28 DEF ClearRunning
<1>29. ASSUME NEW t \in Threads, NextCheck(t) PROVE Goal
  BY <1>29 DEF NextCheck, Goto
<1>30. ASSUME NEW t \in Threads, AcquireTimedOut(t) PROVE Goal
  BY <1>30 DEF AcquireTimedOut, Goto, Spend, Kinds
<1>31. ASSUME NEW t \in Threads, JobTimedOut(t) PROVE Goal
  BY <1>31 DEF JobTimedOut, Goto, FailIfRunning
<1>32. ASSUME NEW t \in Threads, ChildStart(t) PROVE Goal
  BY <1>32 DEF ChildStart, ChildStep, SetStatus
<1>33. ASSUME NEW t \in Threads, ChildNoJob(t) PROVE Goal
  BY <1>33 DEF ChildNoJob, ChildStep, SetStatus
<1>34. ASSUME NEW t \in Threads, ChildDone(t) PROVE Goal
  BY <1>34 DEF ChildDone, ChildStep, SetStatus
<1>35. ASSUME NEW t \in Threads, ChildFail(t) PROVE Goal
  BY <1>35 DEF ChildFail, ChildStep, SetStatus
<1>36. ASSUME NEW t \in Threads, ChildExit(t) PROVE Goal
  BY <1>36 DEF ChildExit, ChildStep, SetStatus
<1>37. ASSUME NEW t \in Threads, ChildKilled(t) PROVE Goal
  BY <1>37 DEF ChildKilled, ChildStep, SetStatus
<1>38. ASSUME NEW t \in Threads, RunFault(t) PROVE Goal
  BY <1>38 DEF RunFault, Goto, Spend, Kinds
<1>39. ASSUME NEW t \in Threads, WaitFault(t) PROVE Goal
  BY <1>39 DEF WaitFault, Goto, Spend, Kinds
<1>40. ASSUME NEW t \in Threads, ChildFault(t) PROVE Goal
  BY <1>40 DEF ChildFault, Spend, SetStatus, Kinds
<1>41. ASSUME WatchTick PROVE Goal
  BY <1>41 DEF WatchTick, Goto
<1>42. ASSUME Crash PROVE Goal
  BY <1>42 DEF Crash, Spend, StopServer, Kinds
<1>43. ASSUME Recover PROVE Goal
  BY <1>43 DEF Recover, Goto
<1>44. ASSUME NEW j \in Jobs, Requeue(j) PROVE Goal
  BY <1>44 DEF Requeue
<1>45. ASSUME BootDone PROVE Goal
  BY <1>45 DEF BootDone, Goto
<1>46. ASSUME DeployBegin PROVE Goal
  BY <1>46 DEF DeployBegin, Spend, Kinds
<1>47. ASSUME DeployFindsIdle PROVE Goal
  BY <1>47 DEF DeployFindsIdle
<1>48. ASSUME DeployRestart PROVE Goal
  BY <1>48 DEF DeployRestart, StopServer
<1>49. ASSUME DeployRestartUnheard PROVE Goal
  BY <1>49 DEF DeployRestartUnheard, Spend, StopServer, Kinds
<1>50. ASSUME DeployEnd PROVE Goal
  BY <1>50 DEF DeployEnd
<1>51. ASSUME DeployGivesUp PROVE Goal
  BY <1>51 DEF DeployGivesUp
<1>52. ASSUME DeployInterrupted PROVE Goal
  BY <1>52 DEF DeployInterrupted, Spend, Kinds
<1>53. ASSUME OtherTakes PROVE Goal
  BY <1>53 DEF OtherTakes, Spend, Kinds
<1>54. ASSUME OtherReleases PROVE Goal
  BY <1>54 DEF OtherReleases
<1>55. ASSUME Quiet PROVE Goal
  BY <1>55 DEF Quiet, vars
<1>56. CASE UNCHANGED vars
  BY <1>56 DEF vars
<1> QED
  BY <1>1, <1>2, <1>3, <1>4, <1>5, <1>6, <1>7, <1>8, <1>9, <1>10, <1>11, <1>12, <1>13,
     <1>14, <1>15, <1>16, <1>17, <1>18, <1>19, <1>20, <1>21, <1>22, <1>23, <1>24, <1>25,
     <1>26, <1>27, <1>28, <1>29, <1>30, <1>31, <1>32, <1>33, <1>34, <1>35, <1>36, <1>37,
     <1>38, <1>39, <1>40, <1>41, <1>42, <1>43, <1>44, <1>45, <1>46, <1>47, <1>48, <1>49,
     <1>50, <1>51, <1>52, <1>53, <1>54, <1>55, <1>56
     DEF Next, Enqueue, RunStep, ChildWork, Startup, Pop

\* Only POST /api/jobs makes a job, and none is unmade.
LEMMA NewStep ==
  ASSUME TypeInv, [Next]_vars, NEW j \in Jobs, status'[j] = "none"
  PROVE  status[j] = "none"
<1> USE DEF TypeInv, TypeOK, StopServer, Statuses
<1>1. ASSUME NEW k \in Jobs, CreateJob(k) PROVE status[j] = "none"
  BY <1>1 DEF CreateJob
<1>2. ASSUME NEW k \in Jobs, DeleteCheck(k) PROVE status[j] = "none"
  BY <1>2 DEF DeleteCheck
<1>3. ASSUME DeleteRow PROVE status[j] = "none"
  BY <1>3 DEF DeleteRow, Return
<1>4. ASSUME NEW s \in Starters, NEW k \in Jobs, StartJob(s, k) PROVE status[j] = "none"
  BY <1>4 DEF StartJob, Spend, Kinds
<1>5. ASSUME NEW a \in Actors, EnqueueRefused(a) PROVE status[j] = "none"
  BY <1>5 DEF EnqueueRefused, Return, SetStatus
<1>6. ASSUME NEW a \in Actors, EnqueueWaiting(a) PROVE status[j] = "none"
  BY <1>6 DEF EnqueueWaiting, Return, SetStatus
<1>7. ASSUME NEW a \in Actors, EnqueueFirst(a) PROVE status[j] = "none"
  BY <1>7 DEF EnqueueFirst, Goto
<1>8. ASSUME NEW a \in Actors, Launch(a) PROVE status[j] = "none"
  BY <1>8 DEF Launch, SetStatus
<1>9. ASSUME NEW a \in Actors, NEW k \in Jobs, PopNext(a, k) PROVE status[j] = "none"
  BY <1>9 DEF PopNext
<1>10. ASSUME NEW a \in Actors, PopNothing(a) PROVE status[j] = "none"
  BY <1>10 DEF PopNothing, Goto
<1>11. ASSUME NEW a \in Actors, EnqueueFault(a) PROVE status[j] = "none"
  BY <1>11 DEF EnqueueFault, Return, SetStatus, Spend, Kinds
<1>12. ASSUME NEW a \in Actors, LaunchFault(a) PROVE status[j] = "none"
  BY <1>12 DEF LaunchFault, Return, SetStatus, Spend, Kinds
<1>13. ASSUME LogFault PROVE status[j] = "none"
  BY <1>13 DEF LogFault, Return, Spend, Kinds
<1>14. ASSUME NEW t \in Threads, ResponseFault(t) PROVE status[j] = "none"
  BY <1>14 DEF ResponseFault, SetStatus, Spend, Kinds
<1>15. ASSUME NEW t \in Threads, DirMissing(t) PROVE status[j] = "none"
  BY <1>15 DEF DirMissing, Goto
<1>16. ASSUME NEW t \in Threads, RunBegin(t) PROVE status[j] = "none"
  BY <1>16 DEF RunBegin, Goto
<1>17. ASSUME NEW t \in Threads, Acquire(t) PROVE status[j] = "none"
  BY <1>17 DEF Acquire, Goto
<1>18. ASSUME NEW t \in Threads, AcquireRefused(t) PROVE status[j] = "none"
  BY <1>18 DEF AcquireRefused, Goto, SetStatus
<1>19. ASSUME NEW t \in Threads, AcquireAborted(t) PROVE status[j] = "none"
  BY <1>19 DEF AcquireAborted, Goto
<1>20. ASSUME NEW t \in Threads, NotAcquired(t) PROVE status[j] = "none"
  BY <1>20 DEF NotAcquired, Goto
<1>21. ASSUME NEW t \in Threads, Acquired(t) PROVE status[j] = "none"
  BY <1>21 DEF Acquired, Goto, SetStatus
<1>22. ASSUME NEW t \in Threads, Spawn(t) PROVE status[j] = "none"
  BY <1>22 DEF Spawn, Goto
<1>23. ASSUME NEW t \in Threads, ChildExited(t) PROVE status[j] = "none"
  BY <1>23 DEF ChildExited, Goto, FailIfRunning
<1>24. ASSUME NEW t \in Threads, RunError(t) PROVE status[j] = "none"
  BY <1>24 DEF RunError, Goto, FailIfRunning
<1>25. ASSUME NEW t \in Threads, ReturnToQueue(t) PROVE status[j] = "none"
  BY <1>25 DEF ReturnToQueue, Goto
<1>26. ASSUME NEW t \in Threads, ReturnedRow(t) PROVE status[j] = "none"
  BY <1>26 DEF ReturnedRow, Goto, SetStatus
<1>27. ASSUME NEW t \in Threads, ReleaseSlot(t) PROVE status[j] = "none"
  BY <1>27 DEF ReleaseSlot, Goto
<1>28. ASSUME NEW t \in Threads, ClearRunning(t) PROVE status[j] = "none"
  BY <1>28 DEF ClearRunning
<1>29. ASSUME NEW t \in Threads, NextCheck(t) PROVE status[j] = "none"
  BY <1>29 DEF NextCheck, Goto
<1>30. ASSUME NEW t \in Threads, AcquireTimedOut(t) PROVE status[j] = "none"
  BY <1>30 DEF AcquireTimedOut, Goto, Spend, Kinds
<1>31. ASSUME NEW t \in Threads, JobTimedOut(t) PROVE status[j] = "none"
  BY <1>31 DEF JobTimedOut, Goto, FailIfRunning
<1>32. ASSUME NEW t \in Threads, ChildStart(t) PROVE status[j] = "none"
  BY <1>32 DEF ChildStart, ChildStep, SetStatus
<1>33. ASSUME NEW t \in Threads, ChildNoJob(t) PROVE status[j] = "none"
  BY <1>33 DEF ChildNoJob, ChildStep, SetStatus
<1>34. ASSUME NEW t \in Threads, ChildDone(t) PROVE status[j] = "none"
  BY <1>34 DEF ChildDone, ChildStep, SetStatus
<1>35. ASSUME NEW t \in Threads, ChildFail(t) PROVE status[j] = "none"
  BY <1>35 DEF ChildFail, ChildStep, SetStatus
<1>36. ASSUME NEW t \in Threads, ChildExit(t) PROVE status[j] = "none"
  BY <1>36 DEF ChildExit, ChildStep, SetStatus
<1>37. ASSUME NEW t \in Threads, ChildKilled(t) PROVE status[j] = "none"
  BY <1>37 DEF ChildKilled, ChildStep, SetStatus
<1>38. ASSUME NEW t \in Threads, RunFault(t) PROVE status[j] = "none"
  BY <1>38 DEF RunFault, Goto, Spend, Kinds
<1>39. ASSUME NEW t \in Threads, WaitFault(t) PROVE status[j] = "none"
  BY <1>39 DEF WaitFault, Goto, Spend, Kinds
<1>40. ASSUME NEW t \in Threads, ChildFault(t) PROVE status[j] = "none"
  BY <1>40 DEF ChildFault, Spend, SetStatus, Kinds
<1>41. ASSUME WatchTick PROVE status[j] = "none"
  BY <1>41 DEF WatchTick, Goto
<1>42. ASSUME Crash PROVE status[j] = "none"
  BY <1>42 DEF Crash, Spend, StopServer, Kinds
<1>43. ASSUME Recover PROVE status[j] = "none"
  BY <1>43 DEF Recover, Goto
<1>44. ASSUME NEW k \in Jobs, Requeue(k) PROVE status[j] = "none"
  BY <1>44 DEF Requeue
<1>45. ASSUME BootDone PROVE status[j] = "none"
  BY <1>45 DEF BootDone, Goto
<1>46. ASSUME DeployBegin PROVE status[j] = "none"
  BY <1>46 DEF DeployBegin, Spend, Kinds
<1>47. ASSUME DeployFindsIdle PROVE status[j] = "none"
  BY <1>47 DEF DeployFindsIdle
<1>48. ASSUME DeployRestart PROVE status[j] = "none"
  BY <1>48 DEF DeployRestart, StopServer
<1>49. ASSUME DeployRestartUnheard PROVE status[j] = "none"
  BY <1>49 DEF DeployRestartUnheard, Spend, StopServer, Kinds
<1>50. ASSUME DeployEnd PROVE status[j] = "none"
  BY <1>50 DEF DeployEnd
<1>51. ASSUME DeployGivesUp PROVE status[j] = "none"
  BY <1>51 DEF DeployGivesUp
<1>52. ASSUME DeployInterrupted PROVE status[j] = "none"
  BY <1>52 DEF DeployInterrupted, Spend, Kinds
<1>53. ASSUME OtherTakes PROVE status[j] = "none"
  BY <1>53 DEF OtherTakes, Spend, Kinds
<1>54. ASSUME OtherReleases PROVE status[j] = "none"
  BY <1>54 DEF OtherReleases
<1>55. ASSUME Quiet PROVE status[j] = "none"
  BY <1>55 DEF Quiet, vars
<1>56. CASE UNCHANGED vars
  BY <1>56 DEF vars
<1> QED
  BY <1>1, <1>2, <1>3, <1>4, <1>5, <1>6, <1>7, <1>8, <1>9, <1>10, <1>11, <1>12, <1>13,
     <1>14, <1>15, <1>16, <1>17, <1>18, <1>19, <1>20, <1>21, <1>22, <1>23, <1>24, <1>25,
     <1>26, <1>27, <1>28, <1>29, <1>30, <1>31, <1>32, <1>33, <1>34, <1>35, <1>36, <1>37,
     <1>38, <1>39, <1>40, <1>41, <1>42, <1>43, <1>44, <1>45, <1>46, <1>47, <1>48, <1>49,
     <1>50, <1>51, <1>52, <1>53, <1>54, <1>55, <1>56
     DEF Next, Enqueue, RunStep, ChildWork, Startup, Pop

\* Who calls enqueue: POST /api/jobs, POST /start, the startup handler.
LEMMA EnqueueStep ==
  ASSUME TypeInv, PointsOfActors, [Next]_vars, NEW a \in Actors, pc'[a] = "enqueue"
  PROVE  \/ pc[a] = "enqueue" /\ arg'[a] = arg[a]
         \/ a = Loop /\ CreateJob(arg'[a])
         \/ a \in Starters /\ StartJob(a, arg'[a])
         \/ a = Boot /\ Requeue(arg'[a])
<1> DEFINE Goal ==
      \/ pc[a] = "enqueue" /\ arg'[a] = arg[a]
      \/ a = Loop /\ CreateJob(arg'[a])
      \/ a \in Starters /\ StartJob(a, arg'[a])
      \/ a = Boot /\ Requeue(arg'[a])
<1> SUFFICES Goal
  OBVIOUS
<1> HIDE DEF Goal
<1>0. ASSUME pc'[a] = pc[a], arg'[a] = arg[a] PROVE Goal
  BY <1>0 DEF Goal
<1> USE ActorsDistinct DEF ActorsDistinct, PointsOfActors, TypeInv, TypeOK, Actors, RunPoints
<1>1. ASSUME NEW j \in Jobs, CreateJob(j) PROVE Goal
  BY <1>1, <1>0 DEF CreateJob, Goal
<1>2. ASSUME NEW j \in Jobs, DeleteCheck(j) PROVE Goal
  BY <1>2, <1>0 DEF DeleteCheck
<1>3. ASSUME DeleteRow PROVE Goal
  BY <1>3, <1>0 DEF DeleteRow, Return
<1>4. ASSUME NEW s \in Starters, NEW j \in Jobs, StartJob(s, j) PROVE Goal
  BY <1>4, <1>0 DEF StartJob, Goal
<1>5. ASSUME NEW b \in Actors, EnqueueRefused(b) PROVE Goal
  BY <1>5, <1>0 DEF EnqueueRefused, Return, SetStatus
<1>6. ASSUME NEW b \in Actors, EnqueueWaiting(b) PROVE Goal
  BY <1>6, <1>0 DEF EnqueueWaiting, Return, SetStatus
<1>7. ASSUME NEW b \in Actors, EnqueueFirst(b) PROVE Goal
  BY <1>7, <1>0 DEF EnqueueFirst, Goto
<1>8. ASSUME NEW b \in Actors, Launch(b) PROVE Goal
  <2>1. PICK t \in Threads :
          /\ pc[t] = "idle" /\ child[t] = "none"
          /\ pc' = [pc EXCEPT ![b] = IF b = Boot THEN "requeue" ELSE "idle", ![t] = "begin"]
          /\ arg' = [arg EXCEPT ![b] = None, ![t] = arg[b]]
    BY <1>8 DEF Launch
  <2>2. t \in Actors /\ t # b /\ pc[b] = "launch"
    BY <1>8, <2>1 DEF Launch
  <2> QED
    BY <1>0, <2>1, <2>2
<1>9. ASSUME NEW b \in Actors, NEW j \in Jobs, PopNext(b, j) PROVE Goal
  BY <1>9, <1>0 DEF PopNext
<1>10. ASSUME NEW b \in Actors, PopNothing(b) PROVE Goal
  BY <1>10, <1>0 DEF PopNothing, Goto
<1>11. ASSUME NEW b \in Actors, EnqueueFault(b) PROVE Goal
  BY <1>11, <1>0 DEF EnqueueFault, Return, SetStatus, Spend, Kinds
<1>12. ASSUME NEW b \in Actors, LaunchFault(b) PROVE Goal
  BY <1>12, <1>0 DEF LaunchFault, Return, SetStatus, Spend, Kinds
<1>13. ASSUME LogFault PROVE Goal
  BY <1>13, <1>0 DEF LogFault, Return, Spend, Kinds
<1>14. ASSUME NEW t \in Threads, ResponseFault(t) PROVE Goal
  BY <1>14, <1>0 DEF ResponseFault, SetStatus, Spend, Kinds
<1>15. ASSUME NEW t \in Threads, DirMissing(t) PROVE Goal
  BY <1>15, <1>0 DEF DirMissing, Goto
<1>16. ASSUME NEW t \in Threads, RunBegin(t) PROVE Goal
  BY <1>16, <1>0 DEF RunBegin, Goto
<1>17. ASSUME NEW t \in Threads, Acquire(t) PROVE Goal
  BY <1>17, <1>0 DEF Acquire, Goto
<1>18. ASSUME NEW t \in Threads, AcquireRefused(t) PROVE Goal
  BY <1>18, <1>0 DEF AcquireRefused, Goto, SetStatus
<1>19. ASSUME NEW t \in Threads, AcquireAborted(t) PROVE Goal
  BY <1>19, <1>0 DEF AcquireAborted, Goto
<1>20. ASSUME NEW t \in Threads, NotAcquired(t) PROVE Goal
  BY <1>20, <1>0 DEF NotAcquired, Goto
<1>21. ASSUME NEW t \in Threads, Acquired(t) PROVE Goal
  BY <1>21, <1>0 DEF Acquired, Goto, SetStatus
<1>22. ASSUME NEW t \in Threads, Spawn(t) PROVE Goal
  BY <1>22, <1>0 DEF Spawn, Goto
<1>23. ASSUME NEW t \in Threads, ChildExited(t) PROVE Goal
  BY <1>23, <1>0 DEF ChildExited, Goto, FailIfRunning
<1>24. ASSUME NEW t \in Threads, RunError(t) PROVE Goal
  BY <1>24, <1>0 DEF RunError, Goto, FailIfRunning
<1>25. ASSUME NEW t \in Threads, ReturnToQueue(t) PROVE Goal
  BY <1>25, <1>0 DEF ReturnToQueue, Goto
<1>26. ASSUME NEW t \in Threads, ReturnedRow(t) PROVE Goal
  BY <1>26, <1>0 DEF ReturnedRow, Goto, SetStatus
<1>27. ASSUME NEW t \in Threads, ReleaseSlot(t) PROVE Goal
  BY <1>27, <1>0 DEF ReleaseSlot, Goto
<1>28. ASSUME NEW t \in Threads, ClearRunning(t) PROVE Goal
  BY <1>28, <1>0 DEF ClearRunning
<1>29. ASSUME NEW t \in Threads, NextCheck(t) PROVE Goal
  BY <1>29, <1>0 DEF NextCheck, Goto
<1>30. ASSUME NEW t \in Threads, AcquireTimedOut(t) PROVE Goal
  BY <1>30, <1>0 DEF AcquireTimedOut, Goto, Spend, Kinds
<1>31. ASSUME NEW t \in Threads, JobTimedOut(t) PROVE Goal
  BY <1>31, <1>0 DEF JobTimedOut, Goto, FailIfRunning
<1>32. ASSUME NEW t \in Threads, ChildStart(t) PROVE Goal
  BY <1>32, <1>0 DEF ChildStart, ChildStep, SetStatus
<1>33. ASSUME NEW t \in Threads, ChildNoJob(t) PROVE Goal
  BY <1>33, <1>0 DEF ChildNoJob, ChildStep, SetStatus
<1>34. ASSUME NEW t \in Threads, ChildDone(t) PROVE Goal
  BY <1>34, <1>0 DEF ChildDone, ChildStep, SetStatus
<1>35. ASSUME NEW t \in Threads, ChildFail(t) PROVE Goal
  BY <1>35, <1>0 DEF ChildFail, ChildStep, SetStatus
<1>36. ASSUME NEW t \in Threads, ChildExit(t) PROVE Goal
  BY <1>36, <1>0 DEF ChildExit, ChildStep, SetStatus
<1>37. ASSUME NEW t \in Threads, ChildKilled(t) PROVE Goal
  BY <1>37, <1>0 DEF ChildKilled, ChildStep, SetStatus
<1>38. ASSUME NEW t \in Threads, RunFault(t) PROVE Goal
  BY <1>38, <1>0 DEF RunFault, Goto, Spend, Kinds
<1>39. ASSUME NEW t \in Threads, WaitFault(t) PROVE Goal
  BY <1>39, <1>0 DEF WaitFault, Goto, Spend, Kinds
<1>40. ASSUME NEW t \in Threads, ChildFault(t) PROVE Goal
  BY <1>40, <1>0 DEF ChildFault, Spend, SetStatus, Kinds
<1>41. ASSUME WatchTick PROVE Goal
  BY <1>41, <1>0 DEF WatchTick, Goto
<1>42. ASSUME Crash PROVE Goal
  BY <1>42, <1>0 DEF Crash, Spend, StopServer, Kinds
<1>43. ASSUME Recover PROVE Goal
  BY <1>43, <1>0 DEF Recover, Goto
<1>44. ASSUME NEW j \in Jobs, Requeue(j) PROVE Goal
  BY <1>44, <1>0 DEF Requeue, Goal
<1>45. ASSUME BootDone PROVE Goal
  BY <1>45, <1>0 DEF BootDone, Goto
<1>46. ASSUME DeployBegin PROVE Goal
  BY <1>46, <1>0 DEF DeployBegin, Spend, Kinds
<1>47. ASSUME DeployFindsIdle PROVE Goal
  BY <1>47, <1>0 DEF DeployFindsIdle
<1>48. ASSUME DeployRestart PROVE Goal
  BY <1>48, <1>0 DEF DeployRestart, StopServer
<1>49. ASSUME DeployRestartUnheard PROVE Goal
  BY <1>49, <1>0 DEF DeployRestartUnheard, Spend, StopServer, Kinds
<1>50. ASSUME DeployEnd PROVE Goal
  BY <1>50, <1>0 DEF DeployEnd
<1>51. ASSUME DeployGivesUp PROVE Goal
  BY <1>51, <1>0 DEF DeployGivesUp
<1>52. ASSUME DeployInterrupted PROVE Goal
  BY <1>52, <1>0 DEF DeployInterrupted, Spend, Kinds
<1>53. ASSUME OtherTakes PROVE Goal
  BY <1>53, <1>0 DEF OtherTakes, Spend, Kinds
<1>54. ASSUME OtherReleases PROVE Goal
  BY <1>54, <1>0 DEF OtherReleases
<1>55. ASSUME Quiet PROVE Goal
  BY <1>55, <1>0 DEF Quiet, vars
<1>56. CASE UNCHANGED vars
  BY <1>56, <1>0 DEF vars
<1> QED
  BY <1>1, <1>2, <1>3, <1>4, <1>5, <1>6, <1>7, <1>8, <1>9, <1>10, <1>11, <1>12, <1>13,
     <1>14, <1>15, <1>16, <1>17, <1>18, <1>19, <1>20, <1>21, <1>22, <1>23, <1>24, <1>25,
     <1>26, <1>27, <1>28, <1>29, <1>30, <1>31, <1>32, <1>33, <1>34, <1>35, <1>36, <1>37,
     <1>38, <1>39, <1>40, <1>41, <1>42, <1>43, <1>44, <1>45, <1>46, <1>47, <1>48, <1>49,
     <1>50, <1>51, <1>52, <1>53, <1>54, <1>55, <1>56
     DEF Next, Enqueue, RunStep, ChildWork, Startup, Pop

LEMMA OnceInit == Init /\ Budget["start"] = 0 => OnceInv
<1> SUFFICES ASSUME Init, Budget["start"] = 0 PROVE OnceInv
  OBVIOUS
<1>1. \A a \in Actors : pc[a] = "idle"
  BY DEF Init
<1>2. NoDuplicates /\ RunningNotQueued /\ left["start"] = 0
  BY DEF Init, NoDuplicates, IsInjective, RunningNotQueued, Busy
<1>3. NewIsNowhere
  BY <1>1, NoneIsNoJob DEF Init, NewIsNowhere, Placed, RunPoints, ToSet, NoneIsNoJob
<1>4. EnqueuedIsFresh /\ \A s \in Starters : pc[s] = "idle"
  BY <1>1 DEF EnqueuedIsFresh, Actors
<1> QED
  BY <1>2, <1>3, <1>4, BootInit DEF OnceInv

\* A job that enqueue gets was new or on the list of the startup handler.
LEMMA FreshStep == OnceInv /\ [Next]_vars => EnqueuedIsFresh'
<1> SUFFICES ASSUME OnceInv, [Next]_vars,
                    NEW a \in Actors, NEW j, pc'[a] = "enqueue", arg'[a] = j
             PROVE  /\ j \notin {running'} \cup ToSet(queue')
                    /\ \A b \in Actors \ {a} : ~Placed(b, j)'
  BY DEF EnqueuedIsFresh, Placed
<1>1. /\ TypeInv /\ PointsOfActors /\ TodoIsAhead /\ NoDuplicates
      /\ NewIsNowhere /\ EnqueuedIsFresh
  BY DEF OnceInv, BootInv
<1>2. j \in Jobs
  BY <1>1, TypeStep DEF TypeInv, ArgIsJob
<1>3. \A s \in Starters : ~StartJob(s, j)
  BY DEF OnceInv, StartJob, Spend
<1>4. CASE pc[a] = "enqueue" /\ arg[a] = j
  <2>1. j \notin {running} \cup ToSet(queue) /\ \A b \in Actors \ {a} : ~Placed(b, j)
    BY <1>1, <1>4 DEF EnqueuedIsFresh
  <2>2. Placed(a, j)
    BY <1>4 DEF Placed
  <2>3. j # running'
    <3>1. ASSUME NEW b \in Actors, EnqueueFirst(b) PROVE j # running'
      <4>1. pc'[b] = "launch" /\ running' = arg[b] /\ pc[b] = "enqueue"
        BY <1>1, <3>1 DEF EnqueueFirst, Goto, TypeInv, TypeOK
      <4> QED
        BY <2>1, <4>1 DEF Placed
    <3>2. ASSUME NEW b \in Actors, NEW k \in Jobs, PopNext(b, k) PROVE j # running'
      BY <1>1, <2>1, <3>2, PoppedSet DEF PopNext
    <3> QED
      BY <1>2, <2>1, <3>1, <3>2, RunningStep, NoneIsNoJob DEF NoneIsNoJob
  <2>4. j \notin ToSet(queue')
    <3>1. SUFFICES ASSUME j \in ToSet(queue') PROVE FALSE
      OBVIOUS
    <3>2. PICK b \in Actors : /\ arg[b] = j
                              /\ \/ EnqueueWaiting(b) \/ EnqueueFault(b)
                                 \/ b \in Threads /\ ReturnToQueue(b)
      BY <1>1, <2>1, <3>1, QueueStep
    <3>3. b = a
      BY <2>1, <3>2 DEF EnqueueWaiting, EnqueueFault, ReturnToQueue, Placed, RunPoints
    <3>4. pc'[a] \in {"requeue", "idle", "returned"}
      BY <1>1, <3>2, <3>3
         DEF EnqueueWaiting, EnqueueFault, ReturnToQueue, Return, Goto, TypeInv, TypeOK
    <3> QED
      BY <3>4
  <2>5. ASSUME NEW b \in Actors \ {a}, Placed(b, j)' PROVE FALSE
    <3>1. ~CreateJob(j)
      BY <1>1, <1>2, <2>2 DEF CreateJob, NewIsNowhere
    <3>2. ~PopNext(b, j)
      BY <1>1, <1>2, <2>1, PoppedSet
    <3>3. ~Requeue(j)
      BY <1>1, <2>2 DEF Requeue, TodoIsAhead
    <3>4. \A c \in Actors : arg[c] = j => pc[c] # "launch"
      BY <1>4, <2>1 DEF Placed
    <3> QED
      BY <1>1, <1>2, <1>3, <2>1, <2>5, <3>1, <3>2, <3>3, <3>4, PlacedStep
  <2> QED
    BY <2>3, <2>4, <2>5 
<1>5. CASE a = Loop /\ CreateJob(j)
  <2>1. j \notin {running} \cup ToSet(queue) /\ \A b \in Actors : ~Placed(b, j)
    BY <1>1, <1>2, <1>5 DEF CreateJob, NewIsNowhere
  <2>2. UNCHANGED <<running, queue>> /\ \A b \in Actors \ {a} : pc'[b] = pc[b] /\ arg'[b] = arg[b]
    BY <1>1, <1>5 DEF CreateJob, TypeInv, TypeOK
  <2> QED
    BY <2>1, <2>2 DEF Placed
<1>6. CASE a = Boot /\ Requeue(j)
  <2>1. j \notin {running} \cup ToSet(queue) /\ \A b \in Actors : ~Placed(b, j)
    BY <1>1, <1>2, <1>6 DEF Requeue, TodoIsAhead
  <2>2. UNCHANGED <<running, queue>> /\ \A b \in Actors \ {a} : pc'[b] = pc[b] /\ arg'[b] = arg[b]
    BY <1>1, <1>6 DEF Requeue, TypeInv, TypeOK
  <2> QED
    BY <2>1, <2>2 DEF Placed
<1> QED
  BY <1>1, <1>3, <1>4, <1>5, <1>6, EnqueueStep

LEMMA NowhereStep == OnceInv /\ [Next]_vars => NewIsNowhere'
<1> SUFFICES ASSUME OnceInv, [Next]_vars, NEW j \in Jobs, status'[j] = "none"
             PROVE  /\ j \notin {running'} \cup ToSet(queue') \cup todo'
                    /\ \A b \in Actors : ~Placed(b, j)'
  BY DEF NewIsNowhere
<1>1. TypeInv /\ PointsOfActors /\ NoDuplicates
  BY DEF OnceInv, BootInv
<1>2. status[j] = "none"
  BY <1>1, NewStep
<1>3. j \notin {running} \cup ToSet(queue) \cup todo /\ \A b \in Actors : ~Placed(b, j)
  BY <1>2 DEF OnceInv, NewIsNowhere
<1>4. j # running'
  <2>1. ASSUME NEW b \in Actors, EnqueueFirst(b) PROVE j # running'
    BY <1>3, <2>1 DEF EnqueueFirst, Placed
  <2>2. ASSUME NEW b \in Actors, NEW k \in Jobs, PopNext(b, k) PROVE j # running'
    BY <1>1, <1>3, <2>2, PoppedSet DEF PopNext
  <2> QED
    BY <1>3, <2>1, <2>2, RunningStep, NoneIsNoJob DEF NoneIsNoJob
<1>5. ASSUME j \in ToSet(queue') PROVE FALSE
  <2>1. PICK b \in Actors : /\ arg[b] = j
                            /\ \/ EnqueueWaiting(b) \/ EnqueueFault(b)
                               \/ b \in Threads /\ ReturnToQueue(b)
    BY <1>1, <1>3, <1>5, QueueStep
  <2> QED
    BY <1>3, <2>1 DEF EnqueueWaiting, EnqueueFault, ReturnToQueue, Placed, RunPoints
<1>6. j \notin todo'
  BY <1>2, <1>3, TodoShrinks DEF Recover
<1>7. ASSUME NEW b \in Actors, Placed(b, j)' PROVE FALSE
  <2>1. ~CreateJob(j)
    BY <1>1 DEF CreateJob, TypeInv, TypeOK
  <2>2. ~(b \in Starters /\ StartJob(b, j)) /\ ~Requeue(j)
    BY <1>2, <1>3 DEF StartJob, Requeue
  <2>3. ~PopNext(b, j)
    BY <1>1, <1>3, PoppedSet
  <2>4. \A c \in Actors : arg[c] = j => pc[c] # "launch"
    BY <1>3 DEF Placed
  <2> QED
    BY <1>1, <1>3, <1>7, <2>1, <2>2, <2>3, <2>4, PlacedStep
<1> QED
  BY <1>4, <1>5, <1>6, <1>7

LEMMA OnceStep == OnceInv /\ [Next]_vars => OnceInv'
<1> SUFFICES ASSUME OnceInv, [Next]_vars PROVE OnceInv'
  OBVIOUS
<1>1. TypeInv /\ PointsOfActors /\ NoDuplicates /\ EnqueuedIsFresh /\ left["start"] = 0
  BY DEF OnceInv, BootInv
<1>2. BootInv' /\ NoDuplicates'
  BY <1>1, BootStep, NoDuplicatesStep DEF OnceInv
<1>3. left'["start"] = 0
  BY <1>1, NothingLeft DEF Kinds, TypeInv
<1>4. \A s \in Starters : pc'[s] = "idle"
  BY <1>1, StarterStep DEF OnceInv, StartJob, Spend
<1>5. ASSUME running' # None, running' \in ToSet(queue') PROVE FALSE
  <2>1. CASE running' = running
    <3>1. running \notin ToSet(queue)
      BY <1>5, <2>1 DEF OnceInv, RunningNotQueued, Busy
    <3>2. PICK a \in Actors : /\ arg[a] = running
                              /\ \/ EnqueueWaiting(a) \/ EnqueueFault(a)
                                 \/ a \in Threads /\ ReturnToQueue(a)
      BY <1>1, <1>5, <2>1, <3>1, QueueStep
    <3> QED
      BY <1>1, <1>5, <2>1, <3>2
         DEF EnqueueWaiting, EnqueueFault, ReturnToQueue, EnqueuedIsFresh
  <2>2. ASSUME NEW a \in Actors, EnqueueFirst(a) PROVE FALSE
    BY <1>1, <1>5, <2>2 DEF EnqueueFirst, EnqueuedIsFresh
  <2>3. ASSUME NEW a \in Actors, NEW k \in Jobs, PopNext(a, k) PROVE FALSE
    BY <1>1, <1>5, <2>3, PoppedSet DEF PopNext
  <2> QED
    BY <1>5, <2>1, <2>2, <2>3, RunningStep
<1> QED
  BY <1>2, <1>3, <1>4, <1>5, FreshStep, NowhereStep DEF OnceInv, RunningNotQueued, Busy

\* As long as no client starts a job a second time, the job in _running does not wait
\* in _queue for a second run, whatever faults, crashes and deployments happen.
THEOREM RunningWaitsNot ==
  ASSUME Budget["start"] = 0
  PROVE  Spec => []RunningNotQueued
<1>1. Init => OnceInv
  BY OnceInit
<1>2. OnceInv => RunningNotQueued
  BY DEF OnceInv
<1> QED
  BY <1>1, <1>2, OnceStep, PTL DEF Spec

-----------------------------------------------------------------------------
(* What computes is kept. *)

\* As long as no database statement fails, these are all that a row goes through.
LEMMA StatusStep ==
  ASSUME TypeInv, left["fault"] = 0, [Next]_vars, NEW j \in Jobs, status'[j] # status[j]
  PROVE  /\ status[j] # "deleted"
         /\ \/ CreateJob(j)
            \/ DeleteRow /\ arg[Janitor] = j /\ status'[j] = "deleted"
            \/ EnqueueRefused(Loop) /\ arg[Loop] = j /\ status'[j] = "failed"
            \/ \E a \in Actors : arg[a] = j /\ EnqueueWaiting(a) /\ status'[j] = "queued"
            \/ \E a \in Actors : arg[a] = j /\ Launch(a) /\ status'[j] = "running"
            \/ \E t \in Threads :
                 /\ arg[t] = j
                 /\ \/ (AcquireRefused(t) \/ ReturnedRow(t)) /\ status'[j] = "queued"
                    \/ (Acquired(t) \/ ChildStart(t)) /\ status'[j] = "running"
                    \/ /\ ChildExited(t) \/ RunError(t) \/ JobTimedOut(t)
                       /\ status[j] = "running" /\ status'[j] = "failed"
                    \/ ChildDone(t) /\ status'[j] = "done"
                    \/ ChildFail(t) /\ status'[j] = "failed"
            \/ Recover /\ status[j] = "running" /\ status'[j] = "failed"
<1> DEFINE Goal ==
      /\ status[j] # "deleted"
      /\ \/ CreateJob(j)
         \/ DeleteRow /\ arg[Janitor] = j /\ status'[j] = "deleted"
         \/ EnqueueRefused(Loop) /\ arg[Loop] = j /\ status'[j] = "failed"
         \/ \E a \in Actors : arg[a] = j /\ EnqueueWaiting(a) /\ status'[j] = "queued"
         \/ \E a \in Actors : arg[a] = j /\ Launch(a) /\ status'[j] = "running"
         \/ \E t \in Threads :
              /\ arg[t] = j
              /\ \/ (AcquireRefused(t) \/ ReturnedRow(t)) /\ status'[j] = "queued"
                 \/ (Acquired(t) \/ ChildStart(t)) /\ status'[j] = "running"
                 \/ /\ ChildExited(t) \/ RunError(t) \/ JobTimedOut(t)
                    /\ status[j] = "running" /\ status'[j] = "failed"
                 \/ ChildDone(t) /\ status'[j] = "done"
                 \/ ChildFail(t) /\ status'[j] = "failed"
         \/ Recover /\ status[j] = "running" /\ status'[j] = "failed"
<1> SUFFICES Goal
  OBVIOUS
<1> HIDE DEF Goal
<1> USE DEF TypeInv, TypeOK, StopServer
<1>1. ASSUME NEW k \in Jobs, CreateJob(k) PROVE Goal
  BY <1>1 DEF Goal, CreateJob
<1>2. ASSUME NEW k \in Jobs, DeleteCheck(k) PROVE Goal
  BY <1>2 DEF DeleteCheck
<1>3. ASSUME DeleteRow PROVE Goal
  BY <1>3 DEF Goal, DeleteRow
<1>4. ASSUME NEW s \in Starters, NEW k \in Jobs, StartJob(s, k) PROVE Goal
  BY <1>4 DEF StartJob, Spend, Kinds
<1>5. ASSUME NEW a \in Actors, EnqueueRefused(a) PROVE Goal
  BY <1>5 DEF Goal, EnqueueRefused, SetStatus
<1>6. ASSUME NEW a \in Actors, EnqueueWaiting(a) PROVE Goal
  BY <1>6 DEF Goal, EnqueueWaiting, SetStatus
<1>7. ASSUME NEW a \in Actors, EnqueueFirst(a) PROVE Goal
  BY <1>7 DEF EnqueueFirst, Goto
<1>8. ASSUME NEW a \in Actors, Launch(a) PROVE Goal
  BY <1>8 DEF Goal, Launch, SetStatus
<1>9. ASSUME NEW a \in Actors, NEW k \in Jobs, PopNext(a, k) PROVE Goal
  BY <1>9 DEF PopNext
<1>10. ASSUME NEW a \in Actors, PopNothing(a) PROVE Goal
  BY <1>10 DEF PopNothing, Goto
<1>11. ASSUME NEW a \in Actors, EnqueueFault(a) PROVE Goal
  BY <1>11 DEF EnqueueFault, Return, SetStatus, Spend, Kinds
<1>12. ASSUME NEW a \in Actors, LaunchFault(a) PROVE Goal
  BY <1>12 DEF LaunchFault, Return, SetStatus, Spend, Kinds
<1>13. ASSUME LogFault PROVE Goal
  BY <1>13 DEF LogFault, Return, Spend, Kinds
<1>14. ASSUME NEW t \in Threads, ResponseFault(t) PROVE Goal
  BY <1>14 DEF ResponseFault, SetStatus, Spend, Kinds
<1>15. ASSUME NEW t \in Threads, DirMissing(t) PROVE Goal
  BY <1>15 DEF DirMissing, Goto
<1>16. ASSUME NEW t \in Threads, RunBegin(t) PROVE Goal
  BY <1>16 DEF RunBegin, Goto
<1>17. ASSUME NEW t \in Threads, Acquire(t) PROVE Goal
  BY <1>17 DEF Acquire, Goto
<1>18. ASSUME NEW t \in Threads, AcquireRefused(t) PROVE Goal
  BY <1>18 DEF Goal, AcquireRefused, SetStatus
<1>19. ASSUME NEW t \in Threads, AcquireAborted(t) PROVE Goal
  BY <1>19 DEF AcquireAborted, Goto
<1>20. ASSUME NEW t \in Threads, NotAcquired(t) PROVE Goal
  BY <1>20 DEF NotAcquired, Goto
<1>21. ASSUME NEW t \in Threads, Acquired(t) PROVE Goal
  BY <1>21 DEF Goal, Acquired, SetStatus
<1>22. ASSUME NEW t \in Threads, Spawn(t) PROVE Goal
  BY <1>22 DEF Spawn, Goto
<1>23. ASSUME NEW t \in Threads, ChildExited(t) PROVE Goal
  BY <1>23 DEF Goal, ChildExited, FailIfRunning
<1>24. ASSUME NEW t \in Threads, RunError(t) PROVE Goal
  BY <1>24 DEF Goal, RunError, FailIfRunning
<1>25. ASSUME NEW t \in Threads, ReturnToQueue(t) PROVE Goal
  BY <1>25 DEF ReturnToQueue, Goto
<1>26. ASSUME NEW t \in Threads, ReturnedRow(t) PROVE Goal
  BY <1>26 DEF Goal, ReturnedRow, SetStatus
<1>27. ASSUME NEW t \in Threads, ReleaseSlot(t) PROVE Goal
  BY <1>27 DEF ReleaseSlot, Goto
<1>28. ASSUME NEW t \in Threads, ClearRunning(t) PROVE Goal
  BY <1>28 DEF ClearRunning
<1>29. ASSUME NEW t \in Threads, NextCheck(t) PROVE Goal
  BY <1>29 DEF NextCheck, Goto
<1>30. ASSUME NEW t \in Threads, AcquireTimedOut(t) PROVE Goal
  BY <1>30 DEF AcquireTimedOut, Goto, Spend, Kinds
<1>31. ASSUME NEW t \in Threads, JobTimedOut(t) PROVE Goal
  BY <1>31 DEF Goal, JobTimedOut, FailIfRunning
<1>32. ASSUME NEW t \in Threads, ChildStart(t) PROVE Goal
  BY <1>32 DEF Goal, ChildStart, ChildStep, SetStatus
<1>33. ASSUME NEW t \in Threads, ChildNoJob(t) PROVE Goal
  BY <1>33 DEF ChildNoJob, ChildStep, SetStatus
<1>34. ASSUME NEW t \in Threads, ChildDone(t) PROVE Goal
  BY <1>34 DEF Goal, ChildDone, ChildStep, SetStatus
<1>35. ASSUME NEW t \in Threads, ChildFail(t) PROVE Goal
  BY <1>35 DEF Goal, ChildFail, ChildStep, SetStatus
<1>36. ASSUME NEW t \in Threads, ChildExit(t) PROVE Goal
  BY <1>36 DEF ChildExit, ChildStep, SetStatus
<1>37. ASSUME NEW t \in Threads, ChildKilled(t) PROVE Goal
  BY <1>37 DEF ChildKilled, ChildStep, SetStatus
<1>38. ASSUME NEW t \in Threads, RunFault(t) PROVE Goal
  BY <1>38 DEF RunFault, Goto, Spend, Kinds
<1>39. ASSUME NEW t \in Threads, WaitFault(t) PROVE Goal
  BY <1>39 DEF WaitFault, Goto, Spend, Kinds
<1>40. ASSUME NEW t \in Threads, ChildFault(t) PROVE Goal
  BY <1>40 DEF ChildFault, Spend, SetStatus, Kinds
<1>41. ASSUME WatchTick PROVE Goal
  BY <1>41 DEF WatchTick, Goto
<1>42. ASSUME Crash PROVE Goal
  BY <1>42 DEF Crash, Spend, StopServer, Kinds
<1>43. ASSUME Recover PROVE Goal
  BY <1>43 DEF Goal, Recover
<1>44. ASSUME NEW k \in Jobs, Requeue(k) PROVE Goal
  BY <1>44 DEF Requeue
<1>45. ASSUME BootDone PROVE Goal
  BY <1>45 DEF BootDone, Goto
<1>46. ASSUME DeployBegin PROVE Goal
  BY <1>46 DEF DeployBegin, Spend, Kinds
<1>47. ASSUME DeployFindsIdle PROVE Goal
  BY <1>47 DEF DeployFindsIdle
<1>48. ASSUME DeployRestart PROVE Goal
  BY <1>48 DEF DeployRestart, StopServer
<1>49. ASSUME DeployRestartUnheard PROVE Goal
  BY <1>49 DEF DeployRestartUnheard, Spend, StopServer, Kinds
<1>50. ASSUME DeployEnd PROVE Goal
  BY <1>50 DEF DeployEnd
<1>51. ASSUME DeployGivesUp PROVE Goal
  BY <1>51 DEF DeployGivesUp
<1>52. ASSUME DeployInterrupted PROVE Goal
  BY <1>52 DEF DeployInterrupted, Spend, Kinds
<1>53. ASSUME OtherTakes PROVE Goal
  BY <1>53 DEF OtherTakes, Spend, Kinds
<1>54. ASSUME OtherReleases PROVE Goal
  BY <1>54 DEF OtherReleases
<1>55. ASSUME Quiet PROVE Goal
  BY <1>55 DEF Quiet, vars
<1>56. CASE UNCHANGED vars
  BY <1>56 DEF vars
<1> QED
  BY <1>1, <1>2, <1>3, <1>4, <1>5, <1>6, <1>7, <1>8, <1>9, <1>10, <1>11, <1>12, <1>13,
     <1>14, <1>15, <1>16, <1>17, <1>18, <1>19, <1>20, <1>21, <1>22, <1>23, <1>24, <1>25,
     <1>26, <1>27, <1>28, <1>29, <1>30, <1>31, <1>32, <1>33, <1>34, <1>35, <1>36, <1>37,
     <1>38, <1>39, <1>40, <1>41, <1>42, <1>43, <1>44, <1>45, <1>46, <1>47, <1>48, <1>49,
     <1>50, <1>51, <1>52, <1>53, <1>54, <1>55, <1>56
     DEF Next, Enqueue, RunStep, ChildWork, Startup, Pop

\* A job comes to a run when its actor got it from enqueue, from the queue or from
\* the one who launched it.
LEMMA LiveStep ==
  ASSUME TypeInv, PointsOfActors, ~ChildrenSurvive, left["fault"] = 0, [Next]_vars,
         NEW b \in Actors, Live(b)'
  PROVE  \/ Live(b) /\ arg'[b] = arg[b]
         \/ EnqueueFirst(b) /\ arg'[b] = arg[b]
         \/ \E j \in Jobs : PopNext(b, j) /\ arg'[b] = j
         \/ \E a \in Actors : Launch(a) /\ arg'[b] = arg[a] /\ pc'[b] = "begin"
<1> DEFINE Goal ==
      \/ Live(b) /\ arg'[b] = arg[b]
      \/ EnqueueFirst(b) /\ arg'[b] = arg[b]
      \/ \E j \in Jobs : PopNext(b, j) /\ arg'[b] = j
      \/ \E a \in Actors : Launch(a) /\ arg'[b] = arg[a] /\ pc'[b] = "begin"
<1> SUFFICES Goal
  OBVIOUS
<1> HIDE DEF Goal
<1>0. ASSUME Live(b), arg'[b] = arg[b] PROVE Goal
  BY <1>0 DEF Goal
<1> USE ActorsDistinct
    DEF ActorsDistinct, PointsOfActors, TypeInv, TypeOK, Actors, Live, LivePoints, HoldPoints,
        ChildHasThread, Alive
<1>1. ASSUME NEW j \in Jobs, CreateJob(j) PROVE Goal
  BY <1>1, <1>0 DEF CreateJob
<1>2. ASSUME NEW j \in Jobs, DeleteCheck(j) PROVE Goal
  BY <1>2, <1>0 DEF DeleteCheck
<1>3. ASSUME DeleteRow PROVE Goal
  BY <1>3, <1>0 DEF DeleteRow, Return
<1>4. ASSUME NEW s \in Starters, NEW j \in Jobs, StartJob(s, j) PROVE Goal
  BY <1>4, <1>0 DEF StartJob, Spend, Kinds
<1>5. ASSUME NEW a \in Actors, EnqueueRefused(a) PROVE Goal
  BY <1>5, <1>0 DEF EnqueueRefused, Return, SetStatus
<1>6. ASSUME NEW a \in Actors, EnqueueWaiting(a) PROVE Goal
  BY <1>6, <1>0 DEF EnqueueWaiting, Return, SetStatus
<1>7. ASSUME NEW a \in Actors, EnqueueFirst(a) PROVE Goal
  BY <1>7, <1>0 DEF EnqueueFirst, Goto, Goal
<1>8. ASSUME NEW a \in Actors, Launch(a) PROVE Goal
  <2>1. PICK t \in Threads :
          /\ pc[t] = "idle" /\ child[t] = "none"
          /\ pc' = [pc EXCEPT ![a] = IF a = Boot THEN "requeue" ELSE "idle", ![t] = "begin"]
          /\ arg' = [arg EXCEPT ![a] = None, ![t] = arg[a]]
    BY <1>8 DEF Launch
  <2>2. t \in Actors /\ t # a /\ child' = child
    BY <1>8, <2>1 DEF Launch
  <2>3. CASE b = t
    BY <1>8, <2>1, <2>2, <2>3 DEF Goal
  <2>4. CASE b # t
    <3>1. pc'[a] \in {"idle", "requeue"} /\ (a \in Threads => child'[a] = "none")
      BY <1>8, <2>1, <2>2 DEF Launch
    <3>2. b # a
      BY <3>1
    <3> QED
      BY <1>0, <2>1, <2>2, <2>4, <3>2
  <2> QED
    BY <2>3, <2>4
<1>9. ASSUME NEW a \in Actors, NEW j \in Jobs, PopNext(a, j) PROVE Goal
  BY <1>9, <1>0 DEF PopNext, Goal
<1>10. ASSUME NEW a \in Actors, PopNothing(a) PROVE Goal
  BY <1>10, <1>0 DEF PopNothing, Goto
<1>11. ASSUME NEW a \in Actors, EnqueueFault(a) PROVE Goal
  BY <1>11, <1>0 DEF EnqueueFault, Return, SetStatus, Spend, Kinds
<1>12. ASSUME NEW a \in Actors, LaunchFault(a) PROVE Goal
  BY <1>12, <1>0 DEF LaunchFault, Return, SetStatus, Spend, Kinds
<1>13. ASSUME LogFault PROVE Goal
  BY <1>13, <1>0 DEF LogFault, Return, Spend, Kinds
<1>14. ASSUME NEW t \in Threads, ResponseFault(t) PROVE Goal
  BY <1>14, <1>0 DEF ResponseFault, SetStatus, Spend, Kinds
<1>15. ASSUME NEW t \in Threads, DirMissing(t) PROVE Goal
  BY <1>15, <1>0 DEF DirMissing, Goto
<1>16. ASSUME NEW t \in Threads, RunBegin(t) PROVE Goal
  BY <1>16, <1>0 DEF RunBegin, Goto
<1>17. ASSUME NEW t \in Threads, Acquire(t) PROVE Goal
  BY <1>17, <1>0 DEF Acquire, Goto
<1>18. ASSUME NEW t \in Threads, AcquireRefused(t) PROVE Goal
  BY <1>18, <1>0 DEF AcquireRefused, Goto, SetStatus
<1>19. ASSUME NEW t \in Threads, AcquireAborted(t) PROVE Goal
  BY <1>19, <1>0 DEF AcquireAborted, Goto
<1>20. ASSUME NEW t \in Threads, NotAcquired(t) PROVE Goal
  BY <1>20, <1>0 DEF NotAcquired, Goto
<1>21. ASSUME NEW t \in Threads, Acquired(t) PROVE Goal
  BY <1>21, <1>0 DEF Acquired, Goto, SetStatus
<1>22. ASSUME NEW t \in Threads, Spawn(t) PROVE Goal
  BY <1>22, <1>0 DEF Spawn, Goto
<1>23. ASSUME NEW t \in Threads, ChildExited(t) PROVE Goal
  BY <1>23, <1>0 DEF ChildExited, Goto, FailIfRunning
<1>24. ASSUME NEW t \in Threads, RunError(t) PROVE Goal
  BY <1>24, <1>0 DEF RunError, Goto, FailIfRunning
<1>25. ASSUME NEW t \in Threads, ReturnToQueue(t) PROVE Goal
  BY <1>25, <1>0 DEF ReturnToQueue, Goto
<1>26. ASSUME NEW t \in Threads, ReturnedRow(t) PROVE Goal
  BY <1>26, <1>0 DEF ReturnedRow, Goto, SetStatus
<1>27. ASSUME NEW t \in Threads, ReleaseSlot(t) PROVE Goal
  BY <1>27, <1>0 DEF ReleaseSlot, Goto
<1>28. ASSUME NEW t \in Threads, ClearRunning(t) PROVE Goal
  BY <1>28, <1>0 DEF ClearRunning
<1>29. ASSUME NEW t \in Threads, NextCheck(t) PROVE Goal
  BY <1>29, <1>0 DEF NextCheck, Goto
<1>30. ASSUME NEW t \in Threads, AcquireTimedOut(t) PROVE Goal
  BY <1>30, <1>0 DEF AcquireTimedOut, Goto, Spend, Kinds
<1>31. ASSUME NEW t \in Threads, JobTimedOut(t) PROVE Goal
  BY <1>31, <1>0 DEF JobTimedOut, Goto, FailIfRunning
<1>32. ASSUME NEW t \in Threads, ChildStart(t) PROVE Goal
  BY <1>32, <1>0 DEF ChildStart, ChildStep, SetStatus
<1>33. ASSUME NEW t \in Threads, ChildNoJob(t) PROVE Goal
  BY <1>33, <1>0 DEF ChildNoJob, ChildStep, SetStatus
<1>34. ASSUME NEW t \in Threads, ChildDone(t) PROVE Goal
  BY <1>34, <1>0 DEF ChildDone, ChildStep, SetStatus
<1>35. ASSUME NEW t \in Threads, ChildFail(t) PROVE Goal
  BY <1>35, <1>0 DEF ChildFail, ChildStep, SetStatus
<1>36. ASSUME NEW t \in Threads, ChildExit(t) PROVE Goal
  BY <1>36, <1>0 DEF ChildExit, ChildStep, SetStatus
<1>37. ASSUME NEW t \in Threads, ChildKilled(t) PROVE Goal
  BY <1>37, <1>0 DEF ChildKilled, ChildStep, SetStatus
<1>38. ASSUME NEW t \in Threads, RunFault(t) PROVE Goal
  BY <1>38, <1>0 DEF RunFault, Goto, Spend, Kinds
<1>39. ASSUME NEW t \in Threads, WaitFault(t) PROVE Goal
  BY <1>39, <1>0 DEF WaitFault, Goto, Spend, Kinds
<1>40. ASSUME NEW t \in Threads, ChildFault(t) PROVE Goal
  BY <1>40, <1>0 DEF ChildFault, Spend, SetStatus, Kinds
<1>41. ASSUME WatchTick PROVE Goal
  BY <1>41, <1>0 DEF WatchTick, Goto
<1>42. ASSUME Crash PROVE Goal
  BY <1>42, <1>0 DEF Crash, Spend, StopServer, Kinds
<1>43. ASSUME Recover PROVE Goal
  BY <1>43, <1>0 DEF Recover, Goto
<1>44. ASSUME NEW j \in Jobs, Requeue(j) PROVE Goal
  BY <1>44, <1>0 DEF Requeue
<1>45. ASSUME BootDone PROVE Goal
  BY <1>45, <1>0 DEF BootDone, Goto
<1>46. ASSUME DeployBegin PROVE Goal
  BY <1>46, <1>0 DEF DeployBegin, Spend, Kinds
<1>47. ASSUME DeployFindsIdle PROVE Goal
  BY <1>47, <1>0 DEF DeployFindsIdle
<1>48. ASSUME DeployRestart PROVE Goal
  BY <1>48, <1>0 DEF DeployRestart, StopServer
<1>49. ASSUME DeployRestartUnheard PROVE Goal
  BY <1>49, <1>0 DEF DeployRestartUnheard, Spend, StopServer, Kinds
<1>50. ASSUME DeployEnd PROVE Goal
  BY <1>50, <1>0 DEF DeployEnd
<1>51. ASSUME DeployGivesUp PROVE Goal
  BY <1>51, <1>0 DEF DeployGivesUp
<1>52. ASSUME DeployInterrupted PROVE Goal
  BY <1>52, <1>0 DEF DeployInterrupted, Spend, Kinds
<1>53. ASSUME OtherTakes PROVE Goal
  BY <1>53, <1>0 DEF OtherTakes, Spend, Kinds
<1>54. ASSUME OtherReleases PROVE Goal
  BY <1>54, <1>0 DEF OtherReleases
<1>55. ASSUME Quiet PROVE Goal
  BY <1>55, <1>0 DEF Quiet, vars
<1>56. CASE UNCHANGED vars
  BY <1>56, <1>0 DEF vars
<1> QED
  BY <1>1, <1>2, <1>3, <1>4, <1>5, <1>6, <1>7, <1>8, <1>9, <1>10, <1>11, <1>12, <1>13,
     <1>14, <1>15, <1>16, <1>17, <1>18, <1>19, <1>20, <1>21, <1>22, <1>23, <1>24, <1>25,
     <1>26, <1>27, <1>28, <1>29, <1>30, <1>31, <1>32, <1>33, <1>34, <1>35, <1>36, <1>37,
     <1>38, <1>39, <1>40, <1>41, <1>42, <1>43, <1>44, <1>45, <1>46, <1>47, <1>48, <1>49,
     <1>50, <1>51, <1>52, <1>53, <1>54, <1>55, <1>56
     DEF Next, Enqueue, RunStep, ChildWork, Startup, Pop

\* An error outside the faults of the database is one of the thread that has _running.
LEMMA ErrorStep ==
  ASSUME SlotInv, ErrorIsOwners, left["fault"] = 0, [Next]_vars,
         \A t \in Threads : ~DirMissing(t)
  PROVE  ErrorIsOwners'
<1>0. ASSUME UNCHANGED <<pc, running>>, \A a \in Actors : pc[a] = "idle" \/ arg'[a] = arg[a]
      PROVE  ErrorIsOwners'
  BY <1>0 DEF ErrorIsOwners, OneOwner, OwnPoints, RunPoints, Actors
<1> USE ActorsDistinct, NoneIsNoJob
    DEF ErrorIsOwners, SlotInv, OneOwner, NoneComputes, ComputePoints, OwnPoints,
        ActorsDistinct, NoneIsNoJob, TypeInv, TypeOK, ArgIsJob, RunPoints, Actors, Busy, Draining
<1>1. ASSUME NEW j \in Jobs, CreateJob(j) PROVE ErrorIsOwners'
  BY <1>1 DEF CreateJob
<1>2. ASSUME NEW j \in Jobs, DeleteCheck(j) PROVE ErrorIsOwners'
  BY <1>2 DEF DeleteCheck
<1>3. ASSUME DeleteRow PROVE ErrorIsOwners'
  BY <1>3 DEF DeleteRow, Return
<1>4. ASSUME NEW s \in Starters, NEW j \in Jobs, StartJob(s, j) PROVE ErrorIsOwners'
  BY <1>4 DEF StartJob, Spend, Kinds
<1>5. ASSUME NEW a \in Actors, EnqueueRefused(a) PROVE ErrorIsOwners'
  BY <1>5 DEF EnqueueRefused, Return, SetStatus
<1>6. ASSUME NEW a \in Actors, EnqueueWaiting(a) PROVE ErrorIsOwners'
  BY <1>6 DEF EnqueueWaiting, Return, SetStatus
<1>7. ASSUME NEW a \in Actors, EnqueueFirst(a) PROVE ErrorIsOwners'
  BY <1>7 DEF EnqueueFirst, Goto
<1>8. ASSUME NEW a \in Actors, Launch(a) PROVE ErrorIsOwners'
  <2>1. PICK t \in Threads :
          /\ pc[t] = "idle" /\ child[t] = "none"
          /\ pc' = [pc EXCEPT ![a] = IF a = Boot THEN "requeue" ELSE "idle", ![t] = "begin"]
          /\ arg' = [arg EXCEPT ![a] = None, ![t] = arg[a]]
    BY <1>8 DEF Launch
  <2>2. t \in Actors /\ t # a /\ pc[a] = "launch"
    BY <1>8, <2>1 DEF Launch
  <2> QED
    BY <2>1, <2>2, <1>8 DEF Launch
<1>9. ASSUME NEW a \in Actors, NEW j \in Jobs, PopNext(a, j) PROVE ErrorIsOwners'
  BY <1>9 DEF PopNext
<1>10. ASSUME NEW a \in Actors, PopNothing(a) PROVE ErrorIsOwners'
  BY <1>10 DEF PopNothing, Goto
<1>11. ASSUME NEW a \in Actors, EnqueueFault(a) PROVE ErrorIsOwners'
  BY <1>11 DEF EnqueueFault, Return, SetStatus, Spend, Kinds
<1>12. ASSUME NEW a \in Actors, LaunchFault(a) PROVE ErrorIsOwners'
  BY <1>12 DEF LaunchFault, Return, SetStatus, Spend, Kinds
<1>13. ASSUME LogFault PROVE ErrorIsOwners'
  BY <1>13 DEF LogFault, Return, Spend, Kinds
<1>14. ASSUME NEW t \in Threads, ResponseFault(t) PROVE ErrorIsOwners'
  BY <1>14 DEF ResponseFault, SetStatus, Spend, Kinds
<1>15. ASSUME NEW t \in Threads, DirMissing(t) PROVE ErrorIsOwners'
  BY <1>15 DEF DirMissing, Goto
<1>16. ASSUME NEW t \in Threads, RunBegin(t) PROVE ErrorIsOwners'
  BY <1>16 DEF RunBegin, Goto
<1>17. ASSUME NEW t \in Threads, Acquire(t) PROVE ErrorIsOwners'
  BY <1>17 DEF Acquire, Goto
<1>18. ASSUME NEW t \in Threads, AcquireRefused(t) PROVE ErrorIsOwners'
  BY <1>18 DEF AcquireRefused, Goto, SetStatus
<1>19. ASSUME NEW t \in Threads, AcquireAborted(t) PROVE ErrorIsOwners'
  BY <1>19 DEF AcquireAborted, Goto
<1>20. ASSUME NEW t \in Threads, NotAcquired(t) PROVE ErrorIsOwners'
  BY <1>20 DEF NotAcquired, Goto
<1>21. ASSUME NEW t \in Threads, Acquired(t) PROVE ErrorIsOwners'
  BY <1>21 DEF Acquired, Goto, SetStatus
<1>22. ASSUME NEW t \in Threads, Spawn(t) PROVE ErrorIsOwners'
  BY <1>22 DEF Spawn, Goto
<1>23. ASSUME NEW t \in Threads, ChildExited(t) PROVE ErrorIsOwners'
  BY <1>23 DEF ChildExited, Goto, FailIfRunning
<1>24. ASSUME NEW t \in Threads, RunError(t) PROVE ErrorIsOwners'
  BY <1>24 DEF RunError, Goto, FailIfRunning
<1>25. ASSUME NEW t \in Threads, ReturnToQueue(t) PROVE ErrorIsOwners'
  BY <1>25 DEF ReturnToQueue, Goto
<1>26. ASSUME NEW t \in Threads, ReturnedRow(t) PROVE ErrorIsOwners'
  BY <1>26 DEF ReturnedRow, Goto, SetStatus
<1>27. ASSUME NEW t \in Threads, ReleaseSlot(t) PROVE ErrorIsOwners'
  BY <1>27 DEF ReleaseSlot, Goto
<1>28. ASSUME NEW t \in Threads, ClearRunning(t) PROVE ErrorIsOwners'
  BY <1>28 DEF ClearRunning
<1>29. ASSUME NEW t \in Threads, NextCheck(t) PROVE ErrorIsOwners'
  BY <1>29 DEF NextCheck, Goto
<1>30. ASSUME NEW t \in Threads, AcquireTimedOut(t) PROVE ErrorIsOwners'
  BY <1>30 DEF AcquireTimedOut, Goto, Spend, Kinds
<1>31. ASSUME NEW t \in Threads, JobTimedOut(t) PROVE ErrorIsOwners'
  BY <1>31 DEF JobTimedOut, Goto, FailIfRunning
<1>32. ASSUME NEW t \in Threads, ChildStart(t) PROVE ErrorIsOwners'
  <2>1. UNCHANGED <<pc, running>> /\ \A a \in Actors : pc[a] = "idle" \/ arg'[a] = arg[a]
    BY <1>32 DEF ChildStart, ChildStep, ChildHasThread, Alive
  <2> QED
    BY <1>0, <2>1
<1>33. ASSUME NEW t \in Threads, ChildNoJob(t) PROVE ErrorIsOwners'
  <2>1. UNCHANGED <<pc, running>> /\ \A a \in Actors : pc[a] = "idle" \/ arg'[a] = arg[a]
    BY <1>33 DEF ChildNoJob, ChildStep, ChildHasThread, Alive
  <2> QED
    BY <1>0, <2>1
<1>34. ASSUME NEW t \in Threads, ChildDone(t) PROVE ErrorIsOwners'
  <2>1. UNCHANGED <<pc, running>> /\ \A a \in Actors : pc[a] = "idle" \/ arg'[a] = arg[a]
    BY <1>34 DEF ChildDone, ChildStep, ChildHasThread, Alive
  <2> QED
    BY <1>0, <2>1
<1>35. ASSUME NEW t \in Threads, ChildFail(t) PROVE ErrorIsOwners'
  <2>1. UNCHANGED <<pc, running>> /\ \A a \in Actors : pc[a] = "idle" \/ arg'[a] = arg[a]
    BY <1>35 DEF ChildFail, ChildStep, ChildHasThread, Alive
  <2> QED
    BY <1>0, <2>1
<1>36. ASSUME NEW t \in Threads, ChildExit(t) PROVE ErrorIsOwners'
  <2>1. UNCHANGED <<pc, running>> /\ \A a \in Actors : pc[a] = "idle" \/ arg'[a] = arg[a]
    BY <1>36 DEF ChildExit, ChildStep, ChildHasThread, Alive
  <2> QED
    BY <1>0, <2>1
<1>37. ASSUME NEW t \in Threads, ChildKilled(t) PROVE ErrorIsOwners'
  <2>1. UNCHANGED <<pc, running>> /\ \A a \in Actors : pc[a] = "idle" \/ arg'[a] = arg[a]
    BY <1>37 DEF ChildKilled, ChildStep, ChildHasThread, Alive
  <2> QED
    BY <1>0, <2>1
<1>38. ASSUME NEW t \in Threads, RunFault(t) PROVE ErrorIsOwners'
  BY <1>38 DEF RunFault, Goto, Spend, Kinds
<1>39. ASSUME NEW t \in Threads, WaitFault(t) PROVE ErrorIsOwners'
  BY <1>39 DEF WaitFault, Goto, Spend, Kinds
<1>40. ASSUME NEW t \in Threads, ChildFault(t) PROVE ErrorIsOwners'
  BY <1>40 DEF ChildFault, Spend, SetStatus, Kinds
<1>41. ASSUME WatchTick PROVE ErrorIsOwners'
  BY <1>41 DEF WatchTick, Goto
<1>42. ASSUME Crash PROVE ErrorIsOwners'
  BY <1>42 DEF Crash, Spend, StopServer, Kinds
<1>43. ASSUME Recover PROVE ErrorIsOwners'
  BY <1>43 DEF Recover, Goto
<1>44. ASSUME NEW j \in Jobs, Requeue(j) PROVE ErrorIsOwners'
  BY <1>44 DEF Requeue
<1>45. ASSUME BootDone PROVE ErrorIsOwners'
  BY <1>45 DEF BootDone, Goto
<1>46. ASSUME DeployBegin PROVE ErrorIsOwners'
  BY <1>46 DEF DeployBegin, Spend, Kinds
<1>47. ASSUME DeployFindsIdle PROVE ErrorIsOwners'
  BY <1>47 DEF DeployFindsIdle
<1>48. ASSUME DeployRestart PROVE ErrorIsOwners'
  BY <1>48 DEF DeployRestart, StopServer
<1>49. ASSUME DeployRestartUnheard PROVE ErrorIsOwners'
  BY <1>49 DEF DeployRestartUnheard, Spend, StopServer, Kinds
<1>50. ASSUME DeployEnd PROVE ErrorIsOwners'
  BY <1>50 DEF DeployEnd
<1>51. ASSUME DeployGivesUp PROVE ErrorIsOwners'
  BY <1>51 DEF DeployGivesUp
<1>52. ASSUME DeployInterrupted PROVE ErrorIsOwners'
  BY <1>52 DEF DeployInterrupted, Spend, Kinds
<1>53. ASSUME OtherTakes PROVE ErrorIsOwners'
  BY <1>53 DEF OtherTakes, Spend, Kinds
<1>54. ASSUME OtherReleases PROVE ErrorIsOwners'
  BY <1>54 DEF OtherReleases
<1>55. ASSUME Quiet PROVE ErrorIsOwners'
  BY <1>55 DEF Quiet, vars
<1>56. CASE UNCHANGED vars
  BY <1>56 DEF vars
<1> QED
  BY <1>1, <1>2, <1>3, <1>4, <1>5, <1>6, <1>7, <1>8, <1>9, <1>10, <1>11, <1>12, <1>13,
     <1>14, <1>15, <1>16, <1>17, <1>18, <1>19, <1>20, <1>21, <1>22, <1>23, <1>24, <1>25,
     <1>26, <1>27, <1>28, <1>29, <1>30, <1>31, <1>32, <1>33, <1>34, <1>35, <1>36, <1>37,
     <1>38, <1>39, <1>40, <1>41, <1>42, <1>43, <1>44, <1>45, <1>46, <1>47, <1>48, <1>49,
     <1>50, <1>51, <1>52, <1>53, <1>54, <1>55, <1>56
     DEF Next, Enqueue, RunStep, ChildWork, Startup, Pop

\* db.delete_job goes on with the job whose status it has read.
LEMMA JanitorStep ==
  ASSUME TypeInv, PointsOfActors, [Next]_vars, pc'[Janitor] = "delete"
  PROVE  \/ pc[Janitor] = "delete" /\ arg'[Janitor] = arg[Janitor]
         \/ \E j \in Jobs : DeleteCheck(j) /\ arg'[Janitor] = j
<1> DEFINE Goal ==
      \/ pc[Janitor] = "delete" /\ arg'[Janitor] = arg[Janitor]
      \/ \E j \in Jobs : DeleteCheck(j) /\ arg'[Janitor] = j
<1> SUFFICES Goal
  OBVIOUS
<1> HIDE DEF Goal
<1>0. ASSUME pc'[Janitor] = pc[Janitor], arg'[Janitor] = arg[Janitor] PROVE Goal
  BY <1>0 DEF Goal
<1> USE ActorsDistinct DEF ActorsDistinct, PointsOfActors, TypeInv, TypeOK, Actors, RunPoints
<1>1. ASSUME NEW j \in Jobs, CreateJob(j) PROVE Goal
  BY <1>1, <1>0 DEF CreateJob
<1>2. ASSUME NEW j \in Jobs, DeleteCheck(j) PROVE Goal
  BY <1>2 DEF DeleteCheck, Goal
<1>3. ASSUME DeleteRow PROVE Goal
  BY <1>3, <1>0 DEF DeleteRow, Return
<1>4. ASSUME NEW s \in Starters, NEW j \in Jobs, StartJob(s, j) PROVE Goal
  BY <1>4, <1>0 DEF StartJob, Spend, Kinds
<1>5. ASSUME NEW a \in Actors, EnqueueRefused(a) PROVE Goal
  BY <1>5, <1>0 DEF EnqueueRefused, Return, SetStatus
<1>6. ASSUME NEW a \in Actors, EnqueueWaiting(a) PROVE Goal
  BY <1>6, <1>0 DEF EnqueueWaiting, Return, SetStatus
<1>7. ASSUME NEW a \in Actors, EnqueueFirst(a) PROVE Goal
  BY <1>7, <1>0 DEF EnqueueFirst, Goto
<1>8. ASSUME NEW a \in Actors, Launch(a) PROVE Goal
  <2>1. PICK t \in Threads :
          /\ pc[t] = "idle" /\ child[t] = "none"
          /\ pc' = [pc EXCEPT ![a] = IF a = Boot THEN "requeue" ELSE "idle", ![t] = "begin"]
          /\ arg' = [arg EXCEPT ![a] = None, ![t] = arg[a]]
    BY <1>8 DEF Launch
  <2>2. t \in Actors /\ t # a /\ pc[a] = "launch"
    BY <1>8, <2>1 DEF Launch
  <2> QED
    BY <1>0, <2>1, <2>2
<1>9. ASSUME NEW a \in Actors, NEW j \in Jobs, PopNext(a, j) PROVE Goal
  BY <1>9, <1>0 DEF PopNext
<1>10. ASSUME NEW a \in Actors, PopNothing(a) PROVE Goal
  BY <1>10, <1>0 DEF PopNothing, Goto
<1>11. ASSUME NEW a \in Actors, EnqueueFault(a) PROVE Goal
  BY <1>11, <1>0 DEF EnqueueFault, Return, SetStatus, Spend, Kinds
<1>12. ASSUME NEW a \in Actors, LaunchFault(a) PROVE Goal
  BY <1>12, <1>0 DEF LaunchFault, Return, SetStatus, Spend, Kinds
<1>13. ASSUME LogFault PROVE Goal
  BY <1>13, <1>0 DEF LogFault, Return, Spend, Kinds
<1>14. ASSUME NEW t \in Threads, ResponseFault(t) PROVE Goal
  BY <1>14, <1>0 DEF ResponseFault, SetStatus, Spend, Kinds
<1>15. ASSUME NEW t \in Threads, DirMissing(t) PROVE Goal
  BY <1>15, <1>0 DEF DirMissing, Goto
<1>16. ASSUME NEW t \in Threads, RunBegin(t) PROVE Goal
  BY <1>16, <1>0 DEF RunBegin, Goto
<1>17. ASSUME NEW t \in Threads, Acquire(t) PROVE Goal
  BY <1>17, <1>0 DEF Acquire, Goto
<1>18. ASSUME NEW t \in Threads, AcquireRefused(t) PROVE Goal
  BY <1>18, <1>0 DEF AcquireRefused, Goto, SetStatus
<1>19. ASSUME NEW t \in Threads, AcquireAborted(t) PROVE Goal
  BY <1>19, <1>0 DEF AcquireAborted, Goto
<1>20. ASSUME NEW t \in Threads, NotAcquired(t) PROVE Goal
  BY <1>20, <1>0 DEF NotAcquired, Goto
<1>21. ASSUME NEW t \in Threads, Acquired(t) PROVE Goal
  BY <1>21, <1>0 DEF Acquired, Goto, SetStatus
<1>22. ASSUME NEW t \in Threads, Spawn(t) PROVE Goal
  BY <1>22, <1>0 DEF Spawn, Goto
<1>23. ASSUME NEW t \in Threads, ChildExited(t) PROVE Goal
  BY <1>23, <1>0 DEF ChildExited, Goto, FailIfRunning
<1>24. ASSUME NEW t \in Threads, RunError(t) PROVE Goal
  BY <1>24, <1>0 DEF RunError, Goto, FailIfRunning
<1>25. ASSUME NEW t \in Threads, ReturnToQueue(t) PROVE Goal
  BY <1>25, <1>0 DEF ReturnToQueue, Goto
<1>26. ASSUME NEW t \in Threads, ReturnedRow(t) PROVE Goal
  BY <1>26, <1>0 DEF ReturnedRow, Goto, SetStatus
<1>27. ASSUME NEW t \in Threads, ReleaseSlot(t) PROVE Goal
  BY <1>27, <1>0 DEF ReleaseSlot, Goto
<1>28. ASSUME NEW t \in Threads, ClearRunning(t) PROVE Goal
  BY <1>28, <1>0 DEF ClearRunning
<1>29. ASSUME NEW t \in Threads, NextCheck(t) PROVE Goal
  BY <1>29, <1>0 DEF NextCheck, Goto
<1>30. ASSUME NEW t \in Threads, AcquireTimedOut(t) PROVE Goal
  BY <1>30, <1>0 DEF AcquireTimedOut, Goto, Spend, Kinds
<1>31. ASSUME NEW t \in Threads, JobTimedOut(t) PROVE Goal
  BY <1>31, <1>0 DEF JobTimedOut, Goto, FailIfRunning
<1>32. ASSUME NEW t \in Threads, ChildStart(t) PROVE Goal
  BY <1>32, <1>0 DEF ChildStart, ChildStep, SetStatus
<1>33. ASSUME NEW t \in Threads, ChildNoJob(t) PROVE Goal
  BY <1>33, <1>0 DEF ChildNoJob, ChildStep, SetStatus
<1>34. ASSUME NEW t \in Threads, ChildDone(t) PROVE Goal
  BY <1>34, <1>0 DEF ChildDone, ChildStep, SetStatus
<1>35. ASSUME NEW t \in Threads, ChildFail(t) PROVE Goal
  BY <1>35, <1>0 DEF ChildFail, ChildStep, SetStatus
<1>36. ASSUME NEW t \in Threads, ChildExit(t) PROVE Goal
  BY <1>36, <1>0 DEF ChildExit, ChildStep, SetStatus
<1>37. ASSUME NEW t \in Threads, ChildKilled(t) PROVE Goal
  BY <1>37, <1>0 DEF ChildKilled, ChildStep, SetStatus
<1>38. ASSUME NEW t \in Threads, RunFault(t) PROVE Goal
  BY <1>38, <1>0 DEF RunFault, Goto, Spend, Kinds
<1>39. ASSUME NEW t \in Threads, WaitFault(t) PROVE Goal
  BY <1>39, <1>0 DEF WaitFault, Goto, Spend, Kinds
<1>40. ASSUME NEW t \in Threads, ChildFault(t) PROVE Goal
  BY <1>40, <1>0 DEF ChildFault, Spend, SetStatus, Kinds
<1>41. ASSUME WatchTick PROVE Goal
  BY <1>41, <1>0 DEF WatchTick, Goto
<1>42. ASSUME Crash PROVE Goal
  BY <1>42, <1>0 DEF Crash, Spend, StopServer, Kinds
<1>43. ASSUME Recover PROVE Goal
  BY <1>43, <1>0 DEF Recover, Goto
<1>44. ASSUME NEW j \in Jobs, Requeue(j) PROVE Goal
  BY <1>44, <1>0 DEF Requeue
<1>45. ASSUME BootDone PROVE Goal
  BY <1>45, <1>0 DEF BootDone, Goto
<1>46. ASSUME DeployBegin PROVE Goal
  BY <1>46, <1>0 DEF DeployBegin, Spend, Kinds
<1>47. ASSUME DeployFindsIdle PROVE Goal
  BY <1>47, <1>0 DEF DeployFindsIdle
<1>48. ASSUME DeployRestart PROVE Goal
  BY <1>48, <1>0 DEF DeployRestart, StopServer
<1>49. ASSUME DeployRestartUnheard PROVE Goal
  BY <1>49, <1>0 DEF DeployRestartUnheard, Spend, StopServer, Kinds
<1>50. ASSUME DeployEnd PROVE Goal
  BY <1>50, <1>0 DEF DeployEnd
<1>51. ASSUME DeployGivesUp PROVE Goal
  BY <1>51, <1>0 DEF DeployGivesUp
<1>52. ASSUME DeployInterrupted PROVE Goal
  BY <1>52, <1>0 DEF DeployInterrupted, Spend, Kinds
<1>53. ASSUME OtherTakes PROVE Goal
  BY <1>53, <1>0 DEF OtherTakes, Spend, Kinds
<1>54. ASSUME OtherReleases PROVE Goal
  BY <1>54, <1>0 DEF OtherReleases
<1>55. ASSUME Quiet PROVE Goal
  BY <1>55, <1>0 DEF Quiet, vars
<1>56. CASE UNCHANGED vars
  BY <1>56, <1>0 DEF vars
<1> QED
  BY <1>1, <1>2, <1>3, <1>4, <1>5, <1>6, <1>7, <1>8, <1>9, <1>10, <1>11, <1>12, <1>13,
     <1>14, <1>15, <1>16, <1>17, <1>18, <1>19, <1>20, <1>21, <1>22, <1>23, <1>24, <1>25,
     <1>26, <1>27, <1>28, <1>29, <1>30, <1>31, <1>32, <1>33, <1>34, <1>35, <1>36, <1>37,
     <1>38, <1>39, <1>40, <1>41, <1>42, <1>43, <1>44, <1>45, <1>46, <1>47, <1>48, <1>49,
     <1>50, <1>51, <1>52, <1>53, <1>54, <1>55, <1>56
     DEF Next, Enqueue, RunStep, ChildWork, Startup, Pop

\* A row leaves 'queued' and 'running' in the hands of the thread that has _running,
\* or of someone who has no job that waits or runs.
LEMMA RowStep ==
  ASSUME ~ChildrenSurvive, KeptInv, [Next]_vars, NEW j \in Jobs,
         status'[j] # status[j], status'[j] \notin {"queued", "running"}
  PROVE  \/ status[j] = "none"
         \/ arg[Janitor] = j /\ pc[Janitor] = "delete"
         \/ arg[Loop] = j /\ pc[Loop] = "enqueue"
         \/ \E t \in Threads : /\ arg[t] = j /\ pc[t] \in {"wait", "error"} /\ ~Live(t)'
                               /\ OneOwner /\ j = running
         \/ pc[Boot] = "recover" /\ status[j] = "running"
<1>1. TypeInv /\ left["fault"] = 0 /\ AliveIsWaitedFor
  BY DEF KeptInv, SlotInv
<1>2. ASSUME NEW t \in Threads, pc[t] \in {"wait", "error"}, arg[t] = j
      PROVE  OneOwner /\ j = running
  <2>1. OneOwner
    BY <1>2 DEF KeptInv, ErrorIsOwners, SlotInv, NoneComputes, ComputePoints, Actors
  <2> QED
    BY <1>2, <2>1 DEF OneOwner, OwnPoints, RunPoints, Actors
<1>3. ASSUME NEW t \in Threads,
             ChildExited(t) \/ RunError(t) \/ JobTimedOut(t) \/ ChildDone(t) \/ ChildFail(t)
      PROVE  pc[t] \in {"wait", "error"} /\ ~Live(t)'
  <2> USE DEF TypeInv, TypeOK, Actors, Live, LivePoints, HoldPoints
  <2>1. CASE ChildExited(t)
    BY <1>1, <2>1 DEF ChildExited, Goto
  <2>2. CASE JobTimedOut(t)
    BY <1>1, <2>2 DEF JobTimedOut, Goto
  <2>3. CASE RunError(t)
    BY <1>1, <2>3 DEF RunError, Goto, ChildHasThread
  <2>4. CASE ChildDone(t)
    BY <1>1, <2>4 DEF ChildDone, ChildStep, AliveIsWaitedFor, Alive
  <2>5. CASE ChildFail(t)
    BY <1>1, <2>5 DEF ChildFail, ChildStep, AliveIsWaitedFor, Alive
  <2> QED
    BY <1>3, <2>1, <2>2, <2>3, <2>4, <2>5
<1>4. CASE CreateJob(j)
  BY <1>4 DEF CreateJob
<1>5. CASE DeleteRow /\ arg[Janitor] = j
  BY <1>5 DEF DeleteRow
<1>6. CASE EnqueueRefused(Loop) /\ arg[Loop] = j
  BY <1>6 DEF EnqueueRefused
<1>7. CASE Recover /\ status[j] = "running"
  BY <1>7 DEF Recover
<1>8. ASSUME NEW t \in Threads, arg[t] = j,
             ChildExited(t) \/ RunError(t) \/ JobTimedOut(t) \/ ChildDone(t) \/ ChildFail(t)
      PROVE  \E u \in Threads : /\ arg[u] = j /\ pc[u] \in {"wait", "error"} /\ ~Live(u)'
                                /\ OneOwner /\ j = running
  BY <1>2, <1>3, <1>8
<1> QED
  BY <1>1, <1>4, <1>5, <1>6, <1>7, <1>8, StatusStep

\* What enqueue gets is new, or was on the list of the startup handler.
LEMMA EnqueueingRow ==
  ASSUME KeptInv, NEW a \in Actors, pc[a] = "enqueue"
  PROVE  \/ a = Loop /\ status[arg[a]] = "pending"
         \/ a = Boot /\ status[arg[a]] = "queued"
BY ActorsDistinct
   DEF KeptInv, OnceInv, BootInv, PointsOfActors, WaitingRows, LoopRows, Actors, RunPoints,
       ActorsDistinct

\* A job that enqueue gets, or that is on the way to a run, is placed.
LEMMA LiveIsPlaced ==
  ASSUME ~ChildrenSurvive, KeptInv, NEW a \in Actors, Live(a) \/ pc[a] = "enqueue"
  PROVE  Placed(a, arg[a]) /\ arg[a] \in Jobs
<1>1. AliveIsWaitedFor /\ ArgIsJob
  BY DEF KeptInv, SlotInv, TypeInv
<1>2. pc[a] \in RunPoints \cup {"enqueue", "launch"}
  BY <1>1 DEF Live, LivePoints, HoldPoints, RunPoints, AliveIsWaitedFor, Alive
<1> QED
  BY <1>1, <1>2 DEF Placed, ArgIsJob

LEMMA WaitingStep ==
  ASSUME ~ChildrenSurvive
  PROVE  KeptInv /\ [Next]_vars => WaitingRows'
<1> SUFFICES ASSUME KeptInv, [Next]_vars PROVE WaitingRows'
  OBVIOUS
<1>1. /\ TypeInv /\ NoDuplicates /\ WaitingRows /\ JanitorIsApart /\ LiveRows
      /\ EnqueuedIsFresh /\ RunningNotQueued /\ BootAlone /\ TodoIsAhead /\ PointsOfActors
      /\ left["fault"] = 0 /\ left["start"] = 0 /\ AliveIsWaitedFor
  BY DEF KeptInv, OnceInv, BootInv, SlotInv
<1>2. ASSUME NEW j \in ToSet(queue'), status'[j] \notin {"queued", "running"} PROVE FALSE
  <2>1. j \in Jobs
    BY <1>1, <1>2, TypeStep DEF TypeInv, TypeOK, ToSet
  <2>2. CASE j \in ToSet(queue)
    <3>1. status[j] \in {"queued", "running"}
      BY <1>1, <2>2 DEF WaitingRows
    <3>2. ~(arg[Janitor] = j /\ pc[Janitor] = "delete")
      BY <1>1, <2>2 DEF JanitorIsApart
    <3>3. ~(arg[Loop] = j /\ pc[Loop] = "enqueue")
      BY <1>1, <2>2 DEF EnqueuedIsFresh, Actors
    <3>4. j # running
      BY <1>1, <2>1, <2>2, NoneIsNoJob DEF RunningNotQueued, Busy, NoneIsNoJob
    <3>5. pc[Boot] # "recover"
      BY <1>1, <2>2 DEF BootAlone, ToSet
    <3> QED
      BY <1>2, <2>1, <3>1, <3>2, <3>3, <3>4, <3>5, RowStep
  <2>3. CASE j \notin ToSet(queue)
    <3>1. PICK a \in Actors : /\ arg[a] = j
                              /\ \/ EnqueueWaiting(a) \/ EnqueueFault(a)
                                 \/ a \in Threads /\ ReturnToQueue(a)
      BY <1>1, <1>2, <2>3, QueueStep
    <3>2. CASE EnqueueWaiting(a)
      <4>1. status[j] \in {"pending", "queued"}
        BY <3>1, <3>2, EnqueueingRow DEF EnqueueWaiting
      <4> QED
        BY <1>1, <1>2, <2>1, <3>1, <3>2, <4>1 DEF EnqueueWaiting, SetStatus, TypeInv, TypeOK
    <3>3. CASE a \in Threads /\ ReturnToQueue(a)
      <4>1. Live(a) /\ a # Loop
        BY <3>3, ActorsDistinct DEF ReturnToQueue, Live, LivePoints, HoldPoints, ActorsDistinct
      <4> QED
        BY <1>1, <1>2, <3>1, <3>3, <4>1 DEF ReturnToQueue, LiveRows
    <3>4. ~EnqueueFault(a)
      BY <1>1 DEF EnqueueFault, Spend
    <3> QED
      BY <3>1, <3>2, <3>3, <3>4
  <2> QED
    BY <2>2, <2>3
<1>3. ASSUME NEW j \in todo' PROVE status'[j] = "queued"
  <2>1. CASE Recover
    BY <1>1, <1>3, <2>1 DEF Recover, TypeInv, TypeOK
  <2>2. CASE j \in todo
    <3>1. status[j] = "queued" /\ j \in Jobs /\ pc[Boot] \notin {"idle", "recover"}
      BY <1>1, <2>2 DEF WaitingRows, TodoIsAhead, TypeInv, TypeOK
    <3>2. \A a \in Actors : ~Placed(a, j)
      BY <1>1, <2>2 DEF TodoIsAhead
    <3>3. pc[Janitor] # "delete"
      BY <1>1, <3>1 DEF BootAlone
    <3>4. status'[j] = status[j]
      <4>1. SUFFICES ASSUME status'[j] # status[j] PROVE FALSE
        OBVIOUS
      <4>2. ~(\E a \in Actors : arg[a] = j /\ (EnqueueWaiting(a) \/ Launch(a)))
        BY <3>2 DEF Placed, EnqueueWaiting, Launch
      <4>3. ~(EnqueueRefused(Loop) /\ arg[Loop] = j)
        BY <3>2 DEF Placed, EnqueueRefused, Actors
      <4>4. \A t \in Threads : arg[t] = j => pc[t] \notin RunPoints /\ child[t] \notin Alive
        BY <1>1, <3>2 DEF Placed, Actors, AliveIsWaitedFor, RunPoints
      <4>5. ASSUME NEW t \in Threads, arg[t] = j
            PROVE  /\ ~AcquireRefused(t) /\ ~ReturnedRow(t) /\ ~Acquired(t) /\ ~ChildStart(t)
                   /\ ~ChildExited(t) /\ ~RunError(t) /\ ~JobTimedOut(t)
                   /\ ~ChildDone(t) /\ ~ChildFail(t)
        BY <4>4, <4>5
           DEF AcquireRefused, ReturnedRow, Acquired, ChildStart, ChildExited, RunError,
               JobTimedOut, ChildDone, ChildFail, ChildStep, Alive, RunPoints
      <4>6. ~CreateJob(j) /\ ~DeleteRow /\ ~(Recover /\ status[j] = "running")
        BY <3>1, <3>3 DEF CreateJob, DeleteRow
      <4> QED
        BY <1>1, <3>1, <4>1, <4>2, <4>3, <4>5, <4>6, StatusStep
    <3> QED
      BY <3>1, <3>4
  <2> QED
    BY <1>3, <2>1, <2>2, TodoShrinks
<1>4. ASSUME pc'[Boot] = "enqueue" PROVE status'[arg'[Boot]] = "queued"
  <2>1. CASE pc[Boot] = "enqueue" /\ arg'[Boot] = arg[Boot]
    <3> DEFINE j == arg[Boot]
    <3>1. j \in Jobs /\ status[j] = "queued" /\ \A b \in Actors \ {Boot} : ~Placed(b, j)
      BY <1>1, <2>1 DEF WaitingRows, EnqueuedIsFresh, TypeInv, ArgIsJob, Actors
    <3>2. pc[Janitor] # "delete"
      BY <1>1, <2>1 DEF BootAlone
    <3> HIDE DEF j
    <3>3. status'[j] = status[j]
      <4>1. SUFFICES ASSUME status'[j] # status[j] PROVE FALSE
        OBVIOUS
      <4>2. \A a \in Actors : arg[a] = j /\ pc[a] \in {"enqueue", "launch"} => a = Boot
        BY <3>1 DEF Placed
      <4>3. ~EnqueueWaiting(Boot) /\ ~Launch(Boot)
        BY <1>1, <1>4, <2>1 DEF EnqueueWaiting, Return, Launch, TypeInv, TypeOK, Actors
      <4>4. ~(\E a \in Actors : arg[a] = j /\ (EnqueueWaiting(a) \/ Launch(a)))
        BY <4>2, <4>3 DEF EnqueueWaiting, Launch
      <4>5. ~(EnqueueRefused(Loop) /\ arg[Loop] = j)
        BY <4>2, ActorsDistinct DEF EnqueueRefused, Actors, ActorsDistinct
      <4>6. \A t \in Threads : arg[t] = j => pc[t] \notin RunPoints /\ child[t] \notin Alive
        BY <1>1, <3>1, ActorsDistinct
           DEF Placed, Actors, AliveIsWaitedFor, RunPoints, ActorsDistinct
      <4>7. ASSUME NEW t \in Threads, arg[t] = j
            PROVE  /\ ~AcquireRefused(t) /\ ~ReturnedRow(t) /\ ~Acquired(t) /\ ~ChildStart(t)
                   /\ ~ChildExited(t) /\ ~RunError(t) /\ ~JobTimedOut(t)
                   /\ ~ChildDone(t) /\ ~ChildFail(t)
        BY <4>6, <4>7
           DEF AcquireRefused, ReturnedRow, Acquired, ChildStart, ChildExited, RunError,
               JobTimedOut, ChildDone, ChildFail, ChildStep, Alive, RunPoints
      <4>8. ~CreateJob(j) /\ ~DeleteRow /\ ~(Recover /\ status[j] = "running")
        BY <3>1, <3>2 DEF CreateJob, DeleteRow
      <4> QED
        BY <1>1, <3>1, <4>1, <4>4, <4>5, <4>7, <4>8, StatusStep
    <3> QED
      BY <2>1, <3>1, <3>3 DEF j
  <2>2. CASE Requeue(arg'[Boot])
    BY <1>1, <2>2 DEF Requeue, WaitingRows
  <2>3. Boot # Loop /\ Boot \notin Starters /\ Boot \in Actors
    BY ActorsDistinct DEF ActorsDistinct, Actors
  <2> QED
    BY <1>1, <1>4, <2>1, <2>2, <2>3, EnqueueStep
<1> QED
  BY <1>2, <1>3, <1>4 DEF WaitingRows

LEMMA LoopStep ==
  ASSUME ~ChildrenSurvive
  PROVE  KeptInv /\ [Next]_vars => LoopRows'
<1> SUFFICES ASSUME KeptInv, [Next]_vars PROVE LoopRows'
  OBVIOUS
<1>1. /\ TypeInv /\ NoDuplicates /\ LoopRows /\ JanitorIsApart /\ EnqueuedIsFresh
      /\ BootAlone /\ PointsOfActors /\ left["fault"] = 0 /\ AliveIsWaitedFor
  BY DEF KeptInv, OnceInv, BootInv, SlotInv
<1>2. Loop \in Actors /\ Loop # Boot /\ Loop \notin Starters /\ Loop \notin Threads
  BY ActorsDistinct DEF Actors, ActorsDistinct
<1>3. ASSUME pc'[Loop] = "enqueue" PROVE status'[arg'[Loop]] = "pending"
  <2>1. CASE pc[Loop] = "enqueue" /\ arg'[Loop] = arg[Loop]
    <3> DEFINE j == arg[Loop]
    <3>1. j \in Jobs /\ status[j] = "pending" /\ \A b \in Actors \ {Loop} : ~Placed(b, j)
      BY <1>1, <1>2, <2>1 DEF LoopRows, EnqueuedIsFresh, TypeInv, ArgIsJob
    <3>2. ~(DeleteRow /\ arg[Janitor] = j)
      BY <1>1, <1>2, <2>1 DEF DeleteRow, JanitorIsApart
    <3> HIDE DEF j
    <3>3. status'[j] = status[j]
      <4>1. SUFFICES ASSUME status'[j] # status[j] PROVE FALSE
        OBVIOUS
      <4>2. \A a \in Actors : arg[a] = j /\ pc[a] \in {"enqueue", "launch"} => a = Loop
        BY <3>1 DEF Placed
      <4>3. ~EnqueueWaiting(Loop) /\ ~EnqueueRefused(Loop) /\ ~Launch(Loop)
        BY <1>1, <1>2, <1>3, <2>1
           DEF EnqueueWaiting, EnqueueRefused, Return, Launch, TypeInv, TypeOK
      <4>4. ~(\E a \in Actors : arg[a] = j /\ (EnqueueWaiting(a) \/ Launch(a)))
        BY <4>2, <4>3 DEF EnqueueWaiting, Launch
      <4>6. \A t \in Threads : arg[t] = j => pc[t] \notin RunPoints /\ child[t] \notin Alive
        BY <1>1, <1>2, <3>1 DEF Placed, Actors, AliveIsWaitedFor, RunPoints
      <4>7. ASSUME NEW t \in Threads, arg[t] = j
            PROVE  /\ ~AcquireRefused(t) /\ ~ReturnedRow(t) /\ ~Acquired(t) /\ ~ChildStart(t)
                   /\ ~ChildExited(t) /\ ~RunError(t) /\ ~JobTimedOut(t)
                   /\ ~ChildDone(t) /\ ~ChildFail(t)
        BY <4>6, <4>7
           DEF AcquireRefused, ReturnedRow, Acquired, ChildStart, ChildExited, RunError,
               JobTimedOut, ChildDone, ChildFail, ChildStep, Alive, RunPoints
      <4>8. ~CreateJob(j) /\ ~(Recover /\ status[j] = "running")
        BY <3>1 DEF CreateJob
      <4> QED
        BY <1>1, <3>1, <3>2, <4>1, <4>3, <4>4, <4>7, <4>8, StatusStep
    <3> QED
      BY <2>1, <3>1, <3>3 DEF j
  <2>2. CASE CreateJob(arg'[Loop])
    <3>1. arg'[Loop] \in Jobs
      BY <1>1, <1>2, <1>3, TypeStep DEF TypeInv, ArgIsJob
    <3> QED
      BY <1>1, <2>2, <3>1 DEF CreateJob, TypeInv, TypeOK
  <2> QED
    BY <1>1, <1>2, <1>3, <2>1, <2>2, EnqueueStep
<1>4. ASSUME pc'[Loop] = "launch" PROVE status'[arg'[Loop]] \in Active
  <2>0. Live(Loop)'
    BY <1>4 DEF Live, LivePoints, HoldPoints
  <2>1. pc[Loop] \in {"idle", "enqueue", "launch"}
    BY <1>1 DEF PointsOfActors
  <2>2. CASE Live(Loop) /\ arg'[Loop] = arg[Loop]
    <3> DEFINE j == arg[Loop]
    <3>1. pc[Loop] = "launch"
      BY <1>2, <2>1, <2>2 DEF Live, LivePoints, HoldPoints
    <3>2. j \in Jobs /\ status[j] \in Active
      BY <1>1, <1>2, <3>1 DEF LoopRows, TypeInv, ArgIsJob
    <3>3. ~(arg[Janitor] = j /\ pc[Janitor] = "delete")
      BY <1>1, <1>2, <2>2 DEF JanitorIsApart
    <3>4. \A t \in Threads : OneOwner => pc[t] \notin {"wait", "error"}
      BY <1>2, <3>1 DEF OneOwner, OwnPoints, RunPoints, Actors
    <3>5. pc[Boot] # "recover"
      BY <1>1, <3>1 DEF BootAlone
    <3>6. status'[j] = status[j] \/ status'[j] \in {"queued", "running"}
      BY <3>1, <3>2, <3>3, <3>4, <3>5, RowStep DEF Active
    <3> QED
      BY <2>2, <3>2, <3>6 DEF Active
  <2>3. CASE EnqueueFirst(Loop) /\ arg'[Loop] = arg[Loop]
    BY <1>1, <2>3 DEF EnqueueFirst, LoopRows, Active
  <2>4. ASSUME NEW j \in Jobs PROVE ~PopNext(Loop, j)
    BY <2>1 DEF PopNext
  <2> QED
    BY <1>1, <1>2, <1>4, <2>0, <2>2, <2>3, <2>4, LiveStep
<1> QED
  BY <1>3, <1>4 DEF LoopRows

LEMMA LiveRowsStep ==
  ASSUME ~ChildrenSurvive
  PROVE  KeptInv /\ [Next]_vars => LiveRows'
<1> SUFFICES ASSUME KeptInv, [Next]_vars, NEW b \in Actors \ {Loop}, Live(b)',
                    status'[arg'[b]] \notin {"queued", "running"}
             PROVE  FALSE
  BY DEF LiveRows
<1>1. /\ TypeInv /\ NoDuplicates /\ WaitingRows /\ LoopRows /\ LiveRows /\ JanitorIsApart
      /\ EnqueuedIsFresh /\ BootAlone /\ PointsOfActors /\ left["fault"] = 0
      /\ AliveIsWaitedFor
  BY DEF KeptInv, OnceInv, BootInv, SlotInv
<1>2. Loop \in Actors /\ Boot \in Actors /\ Loop # Boot
  BY ActorsDistinct DEF Actors, ActorsDistinct
<1>3. CASE Live(b) /\ arg'[b] = arg[b]
  <2> DEFINE j == arg[b]
  <2>1. j \in Jobs /\ status[j] \in {"queued", "running"} /\ Placed(b, j)
    BY <1>1, <1>3, LiveIsPlaced DEF LiveRows
  <2>2. ~(arg[Janitor] = j /\ pc[Janitor] = "delete")
    BY <1>1, <1>3 DEF JanitorIsApart
  <2>3. ~(arg[Loop] = j /\ pc[Loop] = "enqueue")
    BY <1>1, <1>2, <2>1 DEF EnqueuedIsFresh
  <2>4. pc[Boot] # "recover"
    <3>1. SUFFICES ASSUME pc[Boot] = "recover" PROVE FALSE
      OBVIOUS
    <3>2. \A a \in Actors \ {Boot} : pc[a] = "idle"
      BY <1>1, <3>1 DEF BootAlone, Actors
    <3> QED
      BY <2>1, <3>1, <3>2 DEF Placed, RunPoints
  <2>5. ASSUME NEW t \in Threads, arg[t] = j, pc[t] \in {"wait", "error"}, ~Live(t)', OneOwner
        PROVE  FALSE
    <3>1. b # t
      BY <2>5
    <3>2. pc[b] \in OwnPoints
      BY <1>1, <1>3, <2>5
         DEF Live, LivePoints, HoldPoints, OwnPoints, RunPoints, OneOwner, AliveIsWaitedFor, Alive
    <3> QED
      BY <2>5, <3>1, <3>2 DEF OneOwner, OwnPoints, RunPoints, Actors
  <2> QED
    BY <1>3, <2>1, <2>2, <2>3, <2>4, <2>5, RowStep
<1>4. CASE EnqueueFirst(b) /\ arg'[b] = arg[b]
  BY <1>1, <1>4, EnqueueingRow DEF EnqueueFirst
<1>5. ASSUME NEW j \in Jobs, PopNext(b, j), arg'[b] = j PROVE FALSE
  BY <1>1, <1>5, PoppedSet DEF PopNext, WaitingRows
<1>6. ASSUME NEW a \in Actors, Launch(a), arg'[b] = arg[a] PROVE FALSE
  <2>1. Live(a) /\ arg[a] \in Jobs
    BY <1>6, LiveIsPlaced DEF Launch, Live, LivePoints, HoldPoints
  <2>2. status[arg[a]] \in Active
    BY <1>1, <1>6, <2>1 DEF LiveRows, LoopRows, Launch, Active
  <2> QED
    BY <1>1, <1>6, <2>1, <2>2 DEF Launch, SetStatus, Active, TypeInv, TypeOK
<1> QED
  BY <1>1, <1>3, <1>4, <1>5, <1>6, LiveStep

LEMMA ApartStep ==
  ASSUME ~ChildrenSurvive
  PROVE  KeptInv /\ [Next]_vars => JanitorIsApart'
<1> SUFFICES ASSUME KeptInv, [Next]_vars, NEW j, pc'[Janitor] = "delete", arg'[Janitor] = j
             PROVE  /\ status'[j] # "none" /\ j \notin ToSet(queue')
                    /\ \A a \in Actors : arg'[a] = j => ~Live(a)' /\ pc'[a] # "enqueue"
  BY DEF JanitorIsApart
<1>1. /\ TypeInv /\ NoDuplicates /\ WaitingRows /\ LoopRows /\ LiveRows /\ JanitorIsApart
      /\ BootAlone /\ PointsOfActors /\ left["fault"] = 0 /\ left["start"] = 0
  BY DEF KeptInv, OnceInv, BootInv, SlotInv
<1>2. Loop \in Actors /\ Boot \in Actors /\ Janitor \in Actors /\ Janitor # Loop
      /\ Janitor # Boot /\ Janitor \notin Threads \cup Starters
  BY ActorsDistinct DEF Actors, ActorsDistinct
<1>3. j \in Jobs
  BY <1>1, <1>2, TypeStep DEF TypeInv, ArgIsJob
<1>4. CASE pc[Janitor] = "delete" /\ arg[Janitor] = j
  <2>1. /\ status[j] # "none" /\ j \notin ToSet(queue)
        /\ \A a \in Actors : arg[a] = j => ~Live(a) /\ pc[a] # "enqueue"
    BY <1>1, <1>4 DEF JanitorIsApart
  <2>2. status'[j] # "none"
    BY <1>1, <1>3, <2>1, NewStep
  <2>3. ASSUME j \in ToSet(queue') PROVE FALSE
    <3>1. PICK a \in Actors : /\ arg[a] = j
                              /\ \/ EnqueueWaiting(a) \/ EnqueueFault(a)
                                 \/ a \in Threads /\ ReturnToQueue(a)
      BY <1>1, <2>1, <2>3, QueueStep
    <3> QED
      BY <2>1, <3>1
         DEF EnqueueWaiting, EnqueueFault, ReturnToQueue, Live, LivePoints, HoldPoints
  <2>4. ASSUME NEW a \in Actors, arg'[a] = j, Live(a)' PROVE FALSE
    <3>1. ~(EnqueueFirst(a) /\ arg'[a] = arg[a])
      BY <2>1, <2>4 DEF EnqueueFirst
    <3>2. ~PopNext(a, j)
      BY <1>1, <1>3, <2>1, PoppedSet
    <3>3. ASSUME NEW c \in Actors, Launch(c), arg'[a] = arg[c] PROVE FALSE
      BY <2>1, <2>4, <3>3 DEF Launch, Live, LivePoints, HoldPoints
    <3> QED
      BY <1>1, <1>3, <2>1, <2>4, <3>1, <3>2, <3>3, LiveStep
  <2>5. ASSUME NEW a \in Actors, arg'[a] = j, pc'[a] = "enqueue" PROVE FALSE
    <3>1. ~CreateJob(j) /\ (\A s \in Starters : ~StartJob(s, j))
      BY <1>1, <2>1 DEF CreateJob, StartJob, Spend
    <3>2. ~Requeue(j)
      BY <1>1, <1>4 DEF Requeue, BootAlone
    <3> QED
      BY <1>1, <2>1, <2>5, <3>1, <3>2, EnqueueStep
  <2> QED
    BY <2>2, <2>3, <2>4, <2>5
<1>5. CASE DeleteCheck(j)
  <2>1. /\ status[j] \in {"pending", "done", "failed"} /\ arg[Loop] # j
        /\ UNCHANGED <<status, queue, child>>
        /\ \A a \in Actors \ {Janitor} : pc'[a] = pc[a] /\ arg'[a] = arg[a]
    BY <1>1, <1>2, <1>5 DEF DeleteCheck, TypeInv, TypeOK
  <2>2. j \notin ToSet(queue)
    BY <1>1, <2>1 DEF WaitingRows
  <2>3. ASSUME NEW a \in Actors, a # Janitor, arg[a] = j PROVE ~Live(a) /\ pc[a] # "enqueue"
    BY <1>1, <2>1, <2>3, EnqueueingRow DEF LiveRows
  <2>4. ~Live(Janitor)' /\ pc'[Janitor] # "enqueue"
    BY <1>2 DEF Live, LivePoints, HoldPoints
  <2> QED
    BY <2>1, <2>2, <2>3, <2>4 DEF Live
<1> QED
  BY <1>1, <1>4, <1>5, JanitorStep

LEMMA KeptStep ==
  ASSUME ~ChildrenSurvive
  PROVE  KeptInv /\ [Next]_vars => KeptInv'
<1> SUFFICES ASSUME KeptInv, [Next]_vars PROVE KeptInv'
  OBVIOUS
<1>1. OnceInv' /\ SlotInv'
  BY OnceStep, SlotStep DEF KeptInv
<1>2. left'["fault"] = 0
  BY NothingLeft DEF KeptInv, SlotInv, TypeInv, Kinds
<1>3. \A t \in Threads : ~DirMissing(t)
  BY ActorsDistinct
     DEF DirMissing, KeptInv, LiveRows, Live, LivePoints, HoldPoints, Actors, ActorsDistinct
<1>4. ErrorIsOwners'
  BY <1>3, ErrorStep DEF KeptInv
<1> QED
  BY <1>1, <1>2, <1>4, WaitingStep, LoopStep, LiveRowsStep, ApartStep DEF KeptInv

LEMMA KeptInit ==
  ASSUME Budget["start"] = 0, Budget["fault"] = 0, Budget["interrupt"] = 0
  PROVE  Init => KeptInv
<1> SUFFICES ASSUME Init PROVE KeptInv
  OBVIOUS
<1>1. /\ \A a \in Actors : pc[a] = "idle"
      /\ \A t \in Threads : child[t] = "none"
      /\ ToSet(queue) = {} /\ todo = {} /\ left["fault"] = 0
  BY DEF Init, ToSet
<1>2. Boot \in Actors /\ Loop \in Actors /\ Janitor \in Actors
  BY DEF Actors
<1>3. WaitingRows /\ LoopRows /\ JanitorIsApart
  BY <1>1, <1>2 DEF WaitingRows, LoopRows, JanitorIsApart
<1>4. LiveRows /\ ErrorIsOwners
  BY <1>1 DEF LiveRows, Live, LivePoints, HoldPoints, ErrorIsOwners, Actors
<1> QED
  BY <1>1, <1>3, <1>4, OnceInit, SlotInit DEF KeptInv

\* What a pipeline works for is not deleted: without second starts, failing statements
\* and interrupted deployments db.delete_job never meets the row of such a job.
THEOREM ComputingStays ==
  ASSUME Budget["start"] = 0, Budget["fault"] = 0, Budget["interrupt"] = 0, ~ChildrenSurvive
  PROVE  Spec => []ComputingIsKept
<1>1. KeptInv => ComputingIsKept
  BY ActorsDistinct DEF KeptInv, LiveRows, Live, ComputingIsKept, Actors, ActorsDistinct
<1> QED
  BY <1>1, KeptInit, KeptStep, PTL DEF Spec

\* The end of a job is final: no late timeout, return to the queue or recovery writes
\* over 'done' or 'failed'.
THEOREM EndIsFinal ==
  ASSUME Budget["start"] = 0, Budget["fault"] = 0, Budget["interrupt"] = 0, ~ChildrenSurvive
  PROVE  Spec => FinishedStays
<1> DEFINE Stays == \A j \in Jobs : status[j] \in Finished => status'[j] \in {status[j], "deleted"}
<1>1. KeptInv /\ [Next]_vars => Stays
  <2> SUFFICES ASSUME KeptInv, [Next]_vars, NEW j \in Jobs, status[j] \in Finished,
                      status'[j] # status[j], status'[j] # "deleted"
               PROVE  FALSE
    OBVIOUS
  <2>1. TypeInv /\ LiveRows /\ left["fault"] = 0 /\ AliveIsWaitedFor /\ LoopRows
    BY DEF KeptInv, SlotInv
  <2>2. ~CreateJob(j) /\ ~(EnqueueRefused(Loop) /\ arg[Loop] = j)
    BY <2>1 DEF CreateJob, EnqueueRefused, LoopRows, Finished
  <2>3. ASSUME NEW a \in Actors, arg[a] = j PROVE ~EnqueueWaiting(a) /\ ~Launch(a)
    BY <2>1, <2>3, EnqueueingRow
       DEF EnqueueWaiting, Launch, LoopRows, LiveRows, Live, LivePoints, HoldPoints, Finished,
           Active
  <2>4. ASSUME NEW t \in Threads, arg[t] = j
        PROVE  /\ ~AcquireRefused(t) /\ ~ReturnedRow(t) /\ ~Acquired(t) /\ ~ChildStart(t)
               /\ ~ChildDone(t) /\ ~ChildFail(t)
    <3>1. ~Live(t)
      BY <2>1, <2>4, ActorsDistinct DEF LiveRows, Finished, Actors, ActorsDistinct
    <3> QED
      BY <3>1 DEF AcquireRefused, ReturnedRow, Acquired, ChildStart, ChildDone, ChildFail,
                  ChildStep, Live, LivePoints, HoldPoints
  <2> QED
    BY <2>1, <2>2, <2>3, <2>4, StatusStep DEF Finished
<1>2. KeptInv /\ [Next]_vars => [Stays]_vars
  BY <1>1
<1> QED
  BY <1>2, KeptInit, KeptStep, PTL DEF Spec, FinishedStays

-----------------------------------------------------------------------------
(* Steps of threads and of subprocesses. *)

\* What a thread does, in a server in which no database statement fails.
LEMMA ThreadStep ==
  ASSUME TypeInv, PointsOfActors, left["fault"] = 0, [Next]_vars, NEW u \in Threads
  PROVE  \/ pc'[u] = pc[u] /\ (arg'[u] = arg[u] \/ pc[u] = "idle")
         \/ StopServer
         \/ \E a \in Actors : Launch(a) /\ arg'[u] = arg[a] /\ pc[u] = "idle" /\ pc'[u] = "begin"
         \/ RunStep(u) \/ JobTimedOut(u) \/ AcquireTimedOut(u)
         \/ pc[u] \in {"pop", "launch"} /\ pc'[u] \in {"idle", "launch"}
<1> DEFINE Goal ==
      \/ pc'[u] = pc[u] /\ (arg'[u] = arg[u] \/ pc[u] = "idle")
      \/ StopServer
      \/ \E a \in Actors : Launch(a) /\ arg'[u] = arg[a] /\ pc[u] = "idle" /\ pc'[u] = "begin"
      \/ RunStep(u) \/ JobTimedOut(u) \/ AcquireTimedOut(u)
      \/ pc[u] \in {"pop", "launch"} /\ pc'[u] \in {"idle", "launch"}
<1> SUFFICES Goal
  OBVIOUS
<1> HIDE DEF Goal
<1>0. ASSUME pc'[u] = pc[u], arg'[u] = arg[u] \/ pc[u] = "idle" PROVE Goal
  BY <1>0 DEF Goal
<1> USE ActorsDistinct DEF ActorsDistinct, PointsOfActors, TypeInv, TypeOK, Actors, RunPoints
<1>1. ASSUME NEW j \in Jobs, CreateJob(j) PROVE Goal
  BY <1>1, <1>0 DEF CreateJob
<1>2. ASSUME NEW j \in Jobs, DeleteCheck(j) PROVE Goal
  BY <1>2, <1>0 DEF DeleteCheck
<1>3. ASSUME DeleteRow PROVE Goal
  BY <1>3, <1>0 DEF DeleteRow, Return
<1>4. ASSUME NEW s \in Starters, NEW j \in Jobs, StartJob(s, j) PROVE Goal
  BY <1>4, <1>0 DEF StartJob, Spend, Kinds
<1>5. ASSUME NEW a \in Actors, EnqueueRefused(a) PROVE Goal
  BY <1>5, <1>0 DEF EnqueueRefused, Return, SetStatus
<1>6. ASSUME NEW a \in Actors, EnqueueWaiting(a) PROVE Goal
  BY <1>6, <1>0 DEF EnqueueWaiting, Return, SetStatus
<1>7. ASSUME NEW a \in Actors, EnqueueFirst(a) PROVE Goal
  BY <1>7, <1>0 DEF EnqueueFirst, Goto
<1>8. ASSUME NEW a \in Actors, Launch(a) PROVE Goal
  <2>1. PICK t \in Threads :
          /\ pc[t] = "idle" /\ child[t] = "none"
          /\ pc' = [pc EXCEPT ![a] = IF a = Boot THEN "requeue" ELSE "idle", ![t] = "begin"]
          /\ arg' = [arg EXCEPT ![a] = None, ![t] = arg[a]]
    BY <1>8 DEF Launch
  <2>2. t \in Actors /\ t # a /\ pc[a] = "launch"
    BY <1>8, <2>1 DEF Launch
  <2>3. CASE u = t
    BY <1>8, <2>1, <2>2, <2>3 DEF Goal
  <2>4. CASE u = a
    BY <1>8, <2>1, <2>2, <2>4 DEF Goal
  <2>5. CASE u # t /\ u # a
    BY <1>0, <2>1, <2>2, <2>5
  <2> QED
    BY <2>3, <2>4, <2>5
<1>9. ASSUME NEW a \in Actors, NEW j \in Jobs, PopNext(a, j) PROVE Goal
  BY <1>9, <1>0 DEF Goal, PopNext
<1>10. ASSUME NEW a \in Actors, PopNothing(a) PROVE Goal
  BY <1>10, <1>0 DEF Goal, PopNothing, Goto
<1>11. ASSUME NEW a \in Actors, EnqueueFault(a) PROVE Goal
  BY <1>11, <1>0 DEF EnqueueFault, Return, SetStatus, Spend, Kinds
<1>12. ASSUME NEW a \in Actors, LaunchFault(a) PROVE Goal
  BY <1>12, <1>0 DEF LaunchFault, Return, SetStatus, Spend, Kinds
<1>13. ASSUME LogFault PROVE Goal
  BY <1>13, <1>0 DEF LogFault, Return, Spend, Kinds
<1>14. ASSUME NEW t \in Threads, ResponseFault(t) PROVE Goal
  BY <1>14, <1>0 DEF ResponseFault, SetStatus, Spend, Kinds
<1>15. ASSUME NEW t \in Threads, DirMissing(t) PROVE Goal
  <2>1. CASE u = t
    BY <1>15, <2>1 DEF Goal, RunStep
  <2>2. CASE u # t
    BY <1>15, <1>0, <2>2 DEF DirMissing, Goto
  <2> QED
    BY <2>1, <2>2
<1>16. ASSUME NEW t \in Threads, RunBegin(t) PROVE Goal
  <2>1. CASE u = t
    BY <1>16, <2>1 DEF Goal, RunStep
  <2>2. CASE u # t
    BY <1>16, <1>0, <2>2 DEF RunBegin, Goto
  <2> QED
    BY <2>1, <2>2
<1>17. ASSUME NEW t \in Threads, Acquire(t) PROVE Goal
  <2>1. CASE u = t
    BY <1>17, <2>1 DEF Goal, RunStep
  <2>2. CASE u # t
    BY <1>17, <1>0, <2>2 DEF Acquire, Goto
  <2> QED
    BY <2>1, <2>2
<1>18. ASSUME NEW t \in Threads, AcquireRefused(t) PROVE Goal
  <2>1. CASE u = t
    BY <1>18, <2>1 DEF Goal, RunStep
  <2>2. CASE u # t
    BY <1>18, <1>0, <2>2 DEF AcquireRefused, Goto
  <2> QED
    BY <2>1, <2>2
<1>19. ASSUME NEW t \in Threads, AcquireAborted(t) PROVE Goal
  <2>1. CASE u = t
    BY <1>19, <2>1 DEF Goal, RunStep
  <2>2. CASE u # t
    BY <1>19, <1>0, <2>2 DEF AcquireAborted, Goto
  <2> QED
    BY <2>1, <2>2
<1>20. ASSUME NEW t \in Threads, NotAcquired(t) PROVE Goal
  <2>1. CASE u = t
    BY <1>20, <2>1 DEF Goal, RunStep
  <2>2. CASE u # t
    BY <1>20, <1>0, <2>2 DEF NotAcquired, Goto
  <2> QED
    BY <2>1, <2>2
<1>21. ASSUME NEW t \in Threads, Acquired(t) PROVE Goal
  <2>1. CASE u = t
    BY <1>21, <2>1 DEF Goal, RunStep
  <2>2. CASE u # t
    BY <1>21, <1>0, <2>2 DEF Acquired, Goto
  <2> QED
    BY <2>1, <2>2
<1>22. ASSUME NEW t \in Threads, Spawn(t) PROVE Goal
  <2>1. CASE u = t
    BY <1>22, <2>1 DEF Goal, RunStep
  <2>2. CASE u # t
    BY <1>22, <1>0, <2>2 DEF Spawn, Goto
  <2> QED
    BY <2>1, <2>2
<1>23. ASSUME NEW t \in Threads, ChildExited(t) PROVE Goal
  <2>1. CASE u = t
    BY <1>23, <2>1 DEF Goal, RunStep
  <2>2. CASE u # t
    BY <1>23, <1>0, <2>2 DEF ChildExited, Goto
  <2> QED
    BY <2>1, <2>2
<1>24. ASSUME NEW t \in Threads, RunError(t) PROVE Goal
  <2>1. CASE u = t
    BY <1>24, <2>1 DEF Goal, RunStep
  <2>2. CASE u # t
    BY <1>24, <1>0, <2>2 DEF RunError, Goto
  <2> QED
    BY <2>1, <2>2
<1>25. ASSUME NEW t \in Threads, ReturnToQueue(t) PROVE Goal
  <2>1. CASE u = t
    BY <1>25, <2>1 DEF Goal, RunStep
  <2>2. CASE u # t
    BY <1>25, <1>0, <2>2 DEF ReturnToQueue, Goto
  <2> QED
    BY <2>1, <2>2
<1>26. ASSUME NEW t \in Threads, ReturnedRow(t) PROVE Goal
  <2>1. CASE u = t
    BY <1>26, <2>1 DEF Goal, RunStep
  <2>2. CASE u # t
    BY <1>26, <1>0, <2>2 DEF ReturnedRow, Goto
  <2> QED
    BY <2>1, <2>2
<1>27. ASSUME NEW t \in Threads, ReleaseSlot(t) PROVE Goal
  <2>1. CASE u = t
    BY <1>27, <2>1 DEF Goal, RunStep
  <2>2. CASE u # t
    BY <1>27, <1>0, <2>2 DEF ReleaseSlot, Goto
  <2> QED
    BY <2>1, <2>2
<1>28. ASSUME NEW t \in Threads, ClearRunning(t) PROVE Goal
  <2>1. CASE u = t
    BY <1>28, <2>1 DEF Goal, RunStep
  <2>2. CASE u # t
    BY <1>28, <1>0, <2>2 DEF ClearRunning
  <2> QED
    BY <2>1, <2>2
<1>29. ASSUME NEW t \in Threads, NextCheck(t) PROVE Goal
  <2>1. CASE u = t
    BY <1>29, <2>1 DEF Goal, RunStep
  <2>2. CASE u # t
    BY <1>29, <1>0, <2>2 DEF NextCheck, Goto
  <2> QED
    BY <2>1, <2>2
<1>30. ASSUME NEW t \in Threads, AcquireTimedOut(t) PROVE Goal
  <2>1. CASE u = t
    BY <1>30, <2>1 DEF Goal
  <2>2. CASE u # t
    BY <1>30, <1>0, <2>2 DEF AcquireTimedOut, Goto
  <2> QED
    BY <2>1, <2>2
<1>31. ASSUME NEW t \in Threads, JobTimedOut(t) PROVE Goal
  <2>1. CASE u = t
    BY <1>31, <2>1 DEF Goal
  <2>2. CASE u # t
    BY <1>31, <1>0, <2>2 DEF JobTimedOut, Goto
  <2> QED
    BY <2>1, <2>2
<1>32. ASSUME NEW t \in Threads, ChildStart(t) PROVE Goal
  BY <1>32, <1>0 DEF ChildStart, ChildStep, ChildHasThread, Alive
<1>33. ASSUME NEW t \in Threads, ChildNoJob(t) PROVE Goal
  BY <1>33, <1>0 DEF ChildNoJob, ChildStep, ChildHasThread, Alive
<1>34. ASSUME NEW t \in Threads, ChildDone(t) PROVE Goal
  BY <1>34, <1>0 DEF ChildDone, ChildStep, ChildHasThread, Alive
<1>35. ASSUME NEW t \in Threads, ChildFail(t) PROVE Goal
  BY <1>35, <1>0 DEF ChildFail, ChildStep, ChildHasThread, Alive
<1>36. ASSUME NEW t \in Threads, ChildExit(t) PROVE Goal
  BY <1>36, <1>0 DEF ChildExit, ChildStep, ChildHasThread, Alive
<1>37. ASSUME NEW t \in Threads, ChildKilled(t) PROVE Goal
  BY <1>37, <1>0 DEF ChildKilled, ChildStep, ChildHasThread, Alive
<1>38. ASSUME NEW t \in Threads, RunFault(t) PROVE Goal
  BY <1>38, <1>0 DEF RunFault, Goto, Spend, Kinds
<1>39. ASSUME NEW t \in Threads, WaitFault(t) PROVE Goal
  BY <1>39, <1>0 DEF WaitFault, Goto, Spend, Kinds
<1>40. ASSUME NEW t \in Threads, ChildFault(t) PROVE Goal
  BY <1>40, <1>0 DEF ChildFault, Spend, SetStatus, Kinds
<1>41. ASSUME WatchTick PROVE Goal
  BY <1>41, <1>0 DEF WatchTick, Goto
<1>42. ASSUME Crash PROVE Goal
  BY <1>42 DEF Goal, Crash
<1>43. ASSUME Recover PROVE Goal
  BY <1>43, <1>0 DEF Recover, Goto
<1>44. ASSUME NEW j \in Jobs, Requeue(j) PROVE Goal
  BY <1>44, <1>0 DEF Requeue
<1>45. ASSUME BootDone PROVE Goal
  BY <1>45, <1>0 DEF BootDone, Goto
<1>46. ASSUME DeployBegin PROVE Goal
  BY <1>46, <1>0 DEF DeployBegin, Spend, Kinds
<1>47. ASSUME DeployFindsIdle PROVE Goal
  BY <1>47, <1>0 DEF DeployFindsIdle
<1>48. ASSUME DeployRestart PROVE Goal
  BY <1>48 DEF Goal, DeployRestart
<1>49. ASSUME DeployRestartUnheard PROVE Goal
  BY <1>49 DEF Goal, DeployRestartUnheard
<1>50. ASSUME DeployEnd PROVE Goal
  BY <1>50, <1>0 DEF DeployEnd
<1>51. ASSUME DeployGivesUp PROVE Goal
  BY <1>51, <1>0 DEF DeployGivesUp
<1>52. ASSUME DeployInterrupted PROVE Goal
  BY <1>52, <1>0 DEF DeployInterrupted, Spend, Kinds
<1>53. ASSUME OtherTakes PROVE Goal
  BY <1>53, <1>0 DEF OtherTakes, Spend, Kinds
<1>54. ASSUME OtherReleases PROVE Goal
  BY <1>54, <1>0 DEF OtherReleases
<1>55. ASSUME Quiet PROVE Goal
  BY <1>55, <1>0 DEF Quiet, vars
<1>56. CASE UNCHANGED vars
  BY <1>56, <1>0 DEF vars
<1> QED
  BY <1>1, <1>2, <1>3, <1>4, <1>5, <1>6, <1>7, <1>8, <1>9, <1>10, <1>11, <1>12, <1>13,
     <1>14, <1>15, <1>16, <1>17, <1>18, <1>19, <1>20, <1>21, <1>22, <1>23, <1>24, <1>25,
     <1>26, <1>27, <1>28, <1>29, <1>30, <1>31, <1>32, <1>33, <1>34, <1>35, <1>36, <1>37,
     <1>38, <1>39, <1>40, <1>41, <1>42, <1>43, <1>44, <1>45, <1>46, <1>47, <1>48, <1>49,
     <1>50, <1>51, <1>52, <1>53, <1>54, <1>55, <1>56
     DEF Next, Enqueue, RunStep, ChildWork, Startup, Pop

\* When a subprocess is in its end, the row is written.
LEMMA MailingStep ==
  ASSUME TypeInv, PointsOfActors, AliveIsWaitedFor, ~ChildrenSurvive, [Next]_vars,
         NEW u \in Threads, child'[u] \in {"mailing", "exit0"}
  PROVE  \/ child[u] \in {"mailing", "exit0"} /\ pc'[u] = pc[u] /\ arg'[u] = arg[u]
         \/ ChildDone(u)
<1> DEFINE Goal ==
      \/ child[u] \in {"mailing", "exit0"} /\ pc'[u] = pc[u] /\ arg'[u] = arg[u]
      \/ ChildDone(u)
<1> SUFFICES Goal
  OBVIOUS
<1> HIDE DEF Goal
<1>0. ASSUME child'[u] = child[u], pc'[u] = pc[u], arg'[u] = arg[u] PROVE Goal
  BY <1>0 DEF Goal
<1> USE ActorsDistinct
    DEF ActorsDistinct, PointsOfActors, TypeInv, TypeOK, Actors, ChildHasThread,
        AliveIsWaitedFor, Alive
<1>1. ASSUME NEW j \in Jobs, CreateJob(j) PROVE Goal
  BY <1>1, <1>0 DEF CreateJob
<1>2. ASSUME NEW j \in Jobs, DeleteCheck(j) PROVE Goal
  BY <1>2, <1>0 DEF DeleteCheck
<1>3. ASSUME DeleteRow PROVE Goal
  BY <1>3, <1>0 DEF DeleteRow, Return
<1>4. ASSUME NEW s \in Starters, NEW j \in Jobs, StartJob(s, j) PROVE Goal
  BY <1>4, <1>0 DEF StartJob, Spend, Kinds
<1>5. ASSUME NEW a \in Actors, EnqueueRefused(a) PROVE Goal
  BY <1>5, <1>0 DEF EnqueueRefused, Return, SetStatus
<1>6. ASSUME NEW a \in Actors, EnqueueWaiting(a) PROVE Goal
  BY <1>6, <1>0 DEF EnqueueWaiting, Return, SetStatus
<1>7. ASSUME NEW a \in Actors, EnqueueFirst(a) PROVE Goal
  BY <1>7, <1>0 DEF EnqueueFirst, Goto
<1>8. ASSUME NEW a \in Actors, Launch(a) PROVE Goal
  <2>1. PICK t \in Threads :
          /\ pc[t] = "idle" /\ child[t] = "none"
          /\ pc' = [pc EXCEPT ![a] = IF a = Boot THEN "requeue" ELSE "idle", ![t] = "begin"]
          /\ arg' = [arg EXCEPT ![a] = None, ![t] = arg[a]]
    BY <1>8 DEF Launch
  <2>2. pc[a] = "launch" /\ child' = child
    BY <1>8 DEF Launch
  <2>3. u # t /\ u # a
    BY <2>1, <2>2
  <2> QED
    BY <1>0, <2>1, <2>2, <2>3
<1>9. ASSUME NEW a \in Actors, NEW j \in Jobs, PopNext(a, j) PROVE Goal
  BY <1>9, <1>0 DEF PopNext
<1>10. ASSUME NEW a \in Actors, PopNothing(a) PROVE Goal
  BY <1>10, <1>0 DEF PopNothing, Goto
<1>11. ASSUME NEW a \in Actors, EnqueueFault(a) PROVE Goal
  BY <1>11, <1>0 DEF EnqueueFault, Return, SetStatus, Spend, Kinds
<1>12. ASSUME NEW a \in Actors, LaunchFault(a) PROVE Goal
  BY <1>12, <1>0 DEF LaunchFault, Return, SetStatus, Spend, Kinds
<1>13. ASSUME LogFault PROVE Goal
  BY <1>13, <1>0 DEF LogFault, Return, Spend, Kinds
<1>14. ASSUME NEW t \in Threads, ResponseFault(t) PROVE Goal
  BY <1>14, <1>0 DEF ResponseFault, SetStatus, Spend, Kinds
<1>15. ASSUME NEW t \in Threads, DirMissing(t) PROVE Goal
  BY <1>15, <1>0 DEF DirMissing, Goto
<1>16. ASSUME NEW t \in Threads, RunBegin(t) PROVE Goal
  BY <1>16, <1>0 DEF RunBegin, Goto
<1>17. ASSUME NEW t \in Threads, Acquire(t) PROVE Goal
  BY <1>17, <1>0 DEF Acquire, Goto
<1>18. ASSUME NEW t \in Threads, AcquireRefused(t) PROVE Goal
  BY <1>18, <1>0 DEF AcquireRefused, Goto, SetStatus
<1>19. ASSUME NEW t \in Threads, AcquireAborted(t) PROVE Goal
  BY <1>19, <1>0 DEF AcquireAborted, Goto
<1>20. ASSUME NEW t \in Threads, NotAcquired(t) PROVE Goal
  BY <1>20, <1>0 DEF NotAcquired, Goto
<1>21. ASSUME NEW t \in Threads, Acquired(t) PROVE Goal
  BY <1>21, <1>0 DEF Acquired, Goto, SetStatus
<1>22. ASSUME NEW t \in Threads, Spawn(t) PROVE Goal
  BY <1>22, <1>0 DEF Spawn, Goto
<1>23. ASSUME NEW t \in Threads, ChildExited(t) PROVE Goal
  BY <1>23, <1>0 DEF ChildExited, Goto, FailIfRunning
<1>24. ASSUME NEW t \in Threads, RunError(t) PROVE Goal
  BY <1>24, <1>0 DEF RunError, Goto, FailIfRunning
<1>25. ASSUME NEW t \in Threads, ReturnToQueue(t) PROVE Goal
  BY <1>25, <1>0 DEF ReturnToQueue, Goto
<1>26. ASSUME NEW t \in Threads, ReturnedRow(t) PROVE Goal
  BY <1>26, <1>0 DEF ReturnedRow, Goto, SetStatus
<1>27. ASSUME NEW t \in Threads, ReleaseSlot(t) PROVE Goal
  BY <1>27, <1>0 DEF ReleaseSlot, Goto
<1>28. ASSUME NEW t \in Threads, ClearRunning(t) PROVE Goal
  BY <1>28, <1>0 DEF ClearRunning
<1>29. ASSUME NEW t \in Threads, NextCheck(t) PROVE Goal
  BY <1>29, <1>0 DEF NextCheck, Goto
<1>30. ASSUME NEW t \in Threads, AcquireTimedOut(t) PROVE Goal
  BY <1>30, <1>0 DEF AcquireTimedOut, Goto, Spend, Kinds
<1>31. ASSUME NEW t \in Threads, JobTimedOut(t) PROVE Goal
  BY <1>31, <1>0 DEF JobTimedOut, Goto, FailIfRunning
<1>32. ASSUME NEW t \in Threads, ChildStart(t) PROVE Goal
  BY <1>32, <1>0 DEF ChildStart, ChildStep, SetStatus
<1>33. ASSUME NEW t \in Threads, ChildNoJob(t) PROVE Goal
  BY <1>33, <1>0 DEF ChildNoJob, ChildStep, SetStatus
<1>34. ASSUME NEW t \in Threads, ChildDone(t) PROVE Goal
  BY <1>34, <1>0 DEF ChildDone, ChildStep, Goal
<1>35. ASSUME NEW t \in Threads, ChildFail(t) PROVE Goal
  BY <1>35, <1>0 DEF ChildFail, ChildStep, SetStatus
<1>36. ASSUME NEW t \in Threads, ChildExit(t) PROVE Goal
  BY <1>36, <1>0 DEF ChildExit, ChildStep, Goal
<1>37. ASSUME NEW t \in Threads, ChildKilled(t) PROVE Goal
  BY <1>37, <1>0 DEF ChildKilled, ChildStep, SetStatus
<1>38. ASSUME NEW t \in Threads, RunFault(t) PROVE Goal
  BY <1>38, <1>0 DEF RunFault, Goto, Spend, Kinds
<1>39. ASSUME NEW t \in Threads, WaitFault(t) PROVE Goal
  BY <1>39, <1>0 DEF WaitFault, Goto, Spend, Kinds
<1>40. ASSUME NEW t \in Threads, ChildFault(t) PROVE Goal
  BY <1>40, <1>0 DEF ChildFault, Spend, SetStatus, Kinds
<1>41. ASSUME WatchTick PROVE Goal
  BY <1>41, <1>0 DEF WatchTick, Goto
<1>42. ASSUME Crash PROVE Goal
  BY <1>42, <1>0 DEF Crash, Spend, StopServer, Kinds
<1>43. ASSUME Recover PROVE Goal
  BY <1>43, <1>0 DEF Recover, Goto
<1>44. ASSUME NEW j \in Jobs, Requeue(j) PROVE Goal
  BY <1>44, <1>0 DEF Requeue
<1>45. ASSUME BootDone PROVE Goal
  BY <1>45, <1>0 DEF BootDone, Goto
<1>46. ASSUME DeployBegin PROVE Goal
  BY <1>46, <1>0 DEF DeployBegin, Spend, Kinds
<1>47. ASSUME DeployFindsIdle PROVE Goal
  BY <1>47, <1>0 DEF DeployFindsIdle
<1>48. ASSUME DeployRestart PROVE Goal
  BY <1>48, <1>0 DEF DeployRestart, StopServer
<1>49. ASSUME DeployRestartUnheard PROVE Goal
  BY <1>49, <1>0 DEF DeployRestartUnheard, Spend, StopServer, Kinds
<1>50. ASSUME DeployEnd PROVE Goal
  BY <1>50, <1>0 DEF DeployEnd
<1>51. ASSUME DeployGivesUp PROVE Goal
  BY <1>51, <1>0 DEF DeployGivesUp
<1>52. ASSUME DeployInterrupted PROVE Goal
  BY <1>52, <1>0 DEF DeployInterrupted, Spend, Kinds
<1>53. ASSUME OtherTakes PROVE Goal
  BY <1>53, <1>0 DEF OtherTakes, Spend, Kinds
<1>54. ASSUME OtherReleases PROVE Goal
  BY <1>54, <1>0 DEF OtherReleases
<1>55. ASSUME Quiet PROVE Goal
  BY <1>55, <1>0 DEF Quiet, vars
<1>56. CASE UNCHANGED vars
  BY <1>56, <1>0 DEF vars
<1> QED
  BY <1>1, <1>2, <1>3, <1>4, <1>5, <1>6, <1>7, <1>8, <1>9, <1>10, <1>11, <1>12, <1>13,
     <1>14, <1>15, <1>16, <1>17, <1>18, <1>19, <1>20, <1>21, <1>22, <1>23, <1>24, <1>25,
     <1>26, <1>27, <1>28, <1>29, <1>30, <1>31, <1>32, <1>33, <1>34, <1>35, <1>36, <1>37,
     <1>38, <1>39, <1>40, <1>41, <1>42, <1>43, <1>44, <1>45, <1>46, <1>47, <1>48, <1>49,
     <1>50, <1>51, <1>52, <1>53, <1>54, <1>55, <1>56
     DEF Next, Enqueue, RunStep, ChildWork, Startup, Pop

\* A job stays in the hands of someone who will run it, up to the end of its run.
LEMMA HeldStep ==
  ASSUME BootInv, NoDuplicates, AbortedForDeploy, left["fault"] = 0, [Next]_vars,
         NEW j \in Jobs, Held(j)
  PROVE  \/ Held(j)'
         \/ StopServer
         \/ status[j] = "deleted"
         \/ \E t \in Threads : arg[t] = j /\ (ChildExited(t) \/ JobTimedOut(t))
<1> DEFINE Goal ==
      \/ Held(j)'
      \/ StopServer
      \/ status[j] = "deleted"
      \/ \E t \in Threads : arg[t] = j /\ (ChildExited(t) \/ JobTimedOut(t))
           Keeps(a) == /\ arg[a] = j
                       /\ pc[a] \in HoldPoints \/ (a = Boot /\ pc[a] = "enqueue")
                       => arg'[a] = j /\ pc'[a] \in HoldPoints \cup {pc[a]}
<1> SUFFICES Goal
  OBVIOUS
<1> TypeInv /\ PointsOfActors /\ BootAlone /\ TodoIsAhead
  BY DEF BootInv
<1> HIDE DEF Goal
<1>0. ASSUME j \in ToSet(queue) \cup todo => j \in ToSet(queue') \cup todo',
             \A a \in Actors : Keeps(a)
      PROVE  Goal
  <2>1. CASE j \in ToSet(queue') \cup todo'
    BY <2>1 DEF Held, Goal
  <2>2. ASSUME NEW a \in Actors, arg[a] = j, pc[a] \in HoldPoints PROVE Goal
    <3>1. arg'[a] = j /\ pc'[a] \in HoldPoints
      BY <1>0, <2>2
    <3> QED
      BY <3>1 DEF Held, Goal
  <2>3. CASE arg[Boot] = j /\ pc[Boot] = "enqueue"
    <3>1. arg'[Boot] = j /\ pc'[Boot] \in HoldPoints \cup {"enqueue"}
      BY <1>0, <2>3 DEF Actors
    <3> QED
      BY <3>1 DEF Held, Placed, Goal, HoldPoints, RunPoints
  <2> QED
    BY <1>0, <2>1, <2>2, <2>3
       DEF Held, Placed, PointsOfActors, HoldPoints, RunPoints, Actors
<1> USE ActorsDistinct
    DEF ActorsDistinct, PointsOfActors, TypeInv, TypeOK, Actors, HoldPoints
<1>1. ASSUME NEW k \in Jobs, CreateJob(k) PROVE Goal
  BY <1>1, <1>0 DEF CreateJob
<1>2. ASSUME NEW k \in Jobs, DeleteCheck(k) PROVE Goal
  BY <1>2, <1>0 DEF DeleteCheck
<1>3. ASSUME DeleteRow PROVE Goal
  BY <1>3, <1>0 DEF DeleteRow, Return
<1>4. ASSUME NEW s \in Starters, NEW k \in Jobs, StartJob(s, k) PROVE Goal
  BY <1>4, <1>0 DEF StartJob, Spend, Kinds
<1>5. ASSUME NEW a \in Actors, EnqueueRefused(a) PROVE Goal
  BY <1>5, <1>0 DEF EnqueueRefused, Return, SetStatus
<1>6. ASSUME NEW a \in Actors, EnqueueWaiting(a) PROVE Goal
  <2>1. ToSet(queue') = ToSet(queue) \cup {arg[a]}
    BY <1>6, WaitingSet
  <2>2. pc[a] = "enqueue" /\ \A b \in Actors \ {a} : pc'[b] = pc[b] /\ arg'[b] = arg[b]
    BY <1>6 DEF EnqueueWaiting, Return
  <2>3. todo' = todo
    BY <1>6 DEF EnqueueWaiting
  <2>4. CASE arg[a] = j
    <3>1. j \in ToSet(queue')
      BY <2>1, <2>4
    <3> QED
      BY <3>1 DEF Held, Goal
  <2>5. CASE arg[a] # j
    <3>1. ASSUME NEW b \in Actors PROVE Keeps(b)
      BY <2>2, <2>5
    <3> QED
      BY <2>1, <2>3, <3>1, <1>0
  <2> QED
    BY <2>4, <2>5
<1>7. ASSUME NEW a \in Actors, EnqueueFirst(a) PROVE Goal
  <2>1. UNCHANGED <<queue, todo, arg>> /\ pc[a] = "enqueue" /\ pc'[a] = "launch"
        /\ \A b \in Actors \ {a} : pc'[b] = pc[b]
    BY <1>7 DEF EnqueueFirst, Goto
  <2>2. CASE arg[a] = j
    <3>1. arg'[a] = j /\ pc'[a] \in HoldPoints
      BY <2>1, <2>2
    <3> QED
      BY <3>1 DEF Held, Goal
  <2>3. CASE arg[a] # j
    <3>1. ASSUME NEW b \in Actors PROVE Keeps(b)
      BY <2>1, <2>3
    <3> QED
      BY <2>1, <3>1, <1>0
  <2> QED
    BY <2>2, <2>3
<1>8. ASSUME NEW a \in Actors, Launch(a) PROVE Goal
  <2>1. PICK t \in Threads :
          /\ pc[t] = "idle" /\ child[t] = "none"
          /\ pc' = [pc EXCEPT ![a] = IF a = Boot THEN "requeue" ELSE "idle", ![t] = "begin"]
          /\ arg' = [arg EXCEPT ![a] = None, ![t] = arg[a]]
    BY <1>8 DEF Launch
  <2>2. t \in Actors /\ t # a /\ UNCHANGED <<queue, todo>>
    BY <1>8, <2>1 DEF Launch
  <2>3. pc'[t] = "begin" /\ arg'[t] = arg[a]
        /\ \A b \in Actors \ {a, t} : pc'[b] = pc[b] /\ arg'[b] = arg[b]
    BY <2>1, <2>2
  <2>4. CASE arg[a] = j
    <3>1. arg'[t] = j /\ pc'[t] \in HoldPoints
      BY <2>3, <2>4
    <3> QED
      BY <2>2, <3>1 DEF Held, Goal
  <2>5. CASE arg[a] # j
    <3>1. ASSUME NEW b \in Actors PROVE Keeps(b)
      BY <2>1, <2>3, <2>5
    <3> QED
      BY <2>2, <3>1, <1>0
  <2> QED
    BY <2>4, <2>5
<1>9. ASSUME NEW a \in Actors, NEW k \in Jobs, PopNext(a, k) PROVE Goal
  <2>1. ToSet(queue') = ToSet(queue) \ {k} /\ pc[a] = "pop"
    BY <1>9, PoppedSet DEF PopNext
  <2>2. pc'[a] = "launch" /\ arg'[a] = k /\ todo' = todo
        /\ \A b \in Actors \ {a} : pc'[b] = pc[b] /\ arg'[b] = arg[b]
    BY <1>9 DEF PopNext
  <2>3. CASE k = j
    <3>1. arg'[a] = j /\ pc'[a] \in HoldPoints
      BY <2>2, <2>3
    <3> QED
      BY <3>1 DEF Held, Goal
  <2>4. CASE k # j
    <3>1. ASSUME NEW b \in Actors PROVE Keeps(b)
      BY <2>1, <2>2
    <3> QED
      BY <2>1, <2>2, <2>4, <3>1, <1>0
  <2> QED
    BY <2>3, <2>4
<1>10. ASSUME NEW a \in Actors, PopNothing(a) PROVE Goal
  BY <1>10, <1>0 DEF PopNothing, Goto
<1>11. ASSUME NEW a \in Actors, EnqueueFault(a) PROVE Goal
  BY <1>11, <1>0 DEF EnqueueFault, Return, SetStatus, Spend, Kinds
<1>12. ASSUME NEW a \in Actors, LaunchFault(a) PROVE Goal
  BY <1>12, <1>0 DEF LaunchFault, Return, SetStatus, Spend, Kinds
<1>13. ASSUME LogFault PROVE Goal
  BY <1>13, <1>0 DEF LogFault, Return, Spend, Kinds
<1>14. ASSUME NEW t \in Threads, ResponseFault(t) PROVE Goal
  BY <1>14, <1>0 DEF ResponseFault, SetStatus, Spend, Kinds
<1>15. ASSUME NEW t \in Threads, DirMissing(t) PROVE Goal
  <2>1. UNCHANGED <<queue, todo, arg>> /\ status[arg[t]] = "deleted"
        /\ \A b \in Actors \ {t} : pc'[b] = pc[b]
    BY <1>15 DEF DirMissing, Goto
  <2>2. CASE arg[t] = j
    BY <2>1, <2>2 DEF Goal
  <2>3. CASE arg[t] # j
    BY <2>1, <2>3, <1>0
  <2> QED
    BY <2>2, <2>3
<1>16. ASSUME NEW t \in Threads, RunBegin(t) PROVE Goal
  BY <1>16, <1>0 DEF RunBegin, Goto
<1>17. ASSUME NEW t \in Threads, Acquire(t) PROVE Goal
  BY <1>17, <1>0 DEF Acquire, Goto
<1>18. ASSUME NEW t \in Threads, AcquireRefused(t) PROVE Goal
  BY <1>18, <1>0 DEF AcquireRefused, Goto, SetStatus
<1>19. ASSUME NEW t \in Threads, AcquireAborted(t) PROVE Goal
  BY <1>19, <1>0 DEF AcquireAborted, Goto
<1>20. ASSUME NEW t \in Threads, NotAcquired(t) PROVE Goal
  BY <1>20, <1>0 DEF NotAcquired, Goto, AbortedForDeploy, Draining
<1>21. ASSUME NEW t \in Threads, Acquired(t) PROVE Goal
  BY <1>21, <1>0 DEF Acquired, Goto, SetStatus
<1>22. ASSUME NEW t \in Threads, Spawn(t) PROVE Goal
  BY <1>22, <1>0 DEF Spawn, Goto
<1>23. ASSUME NEW t \in Threads, ChildExited(t) PROVE Goal
  <2>1. UNCHANGED <<queue, todo, arg>> /\ \A b \in Actors \ {t} : pc'[b] = pc[b]
    BY <1>23 DEF ChildExited, Goto
  <2>2. CASE arg[t] = j
    BY <1>23, <2>2 DEF Goal
  <2>3. CASE arg[t] # j
    BY <2>1, <2>3, <1>0
  <2> QED
    BY <2>2, <2>3
<1>24. ASSUME NEW t \in Threads, RunError(t) PROVE Goal
  BY <1>24, <1>0 DEF RunError, Goto, FailIfRunning
<1>25. ASSUME NEW t \in Threads, ReturnToQueue(t) PROVE Goal
  <2>1. ToSet(queue') = ToSet(queue) \cup {arg[t]} /\ t \in Actors
    BY <1>25, ReturnedSet
  <2>2. UNCHANGED <<todo, arg>> /\ \A b \in Actors \ {t} : pc'[b] = pc[b]
    BY <1>25 DEF ReturnToQueue, Goto
  <2>3. CASE arg[t] = j
    <3>1. j \in ToSet(queue')
      BY <2>1, <2>3
    <3> QED
      BY <3>1 DEF Held, Goal
  <2>4. CASE arg[t] # j
    <3>1. ASSUME NEW b \in Actors PROVE Keeps(b)
      BY <2>2, <2>4
    <3> QED
      BY <2>1, <2>2, <3>1, <1>0
  <2> QED
    BY <2>3, <2>4
<1>26. ASSUME NEW t \in Threads, ReturnedRow(t) PROVE Goal
  BY <1>26, <1>0 DEF ReturnedRow, Goto, SetStatus
<1>27. ASSUME NEW t \in Threads, ReleaseSlot(t) PROVE Goal
  BY <1>27, <1>0 DEF ReleaseSlot, Goto
<1>28. ASSUME NEW t \in Threads, ClearRunning(t) PROVE Goal
  BY <1>28, <1>0 DEF ClearRunning
<1>29. ASSUME NEW t \in Threads, NextCheck(t) PROVE Goal
  BY <1>29, <1>0 DEF NextCheck, Goto
<1>30. ASSUME NEW t \in Threads, AcquireTimedOut(t) PROVE Goal
  BY <1>30, <1>0 DEF AcquireTimedOut, Goto, Spend, Kinds
<1>31. ASSUME NEW t \in Threads, JobTimedOut(t) PROVE Goal
  <2>1. UNCHANGED <<queue, todo, arg>> /\ \A b \in Actors \ {t} : pc'[b] = pc[b]
    BY <1>31 DEF JobTimedOut, Goto
  <2>2. CASE arg[t] = j
    BY <1>31, <2>2 DEF Goal
  <2>3. CASE arg[t] # j
    BY <2>1, <2>3, <1>0
  <2> QED
    BY <2>2, <2>3
<1>32. ASSUME NEW t \in Threads, ChildStart(t) PROVE Goal
  BY <1>32, <1>0 DEF ChildStart, ChildStep, ChildHasThread, Alive
<1>33. ASSUME NEW t \in Threads, ChildNoJob(t) PROVE Goal
  BY <1>33, <1>0 DEF ChildNoJob, ChildStep, ChildHasThread, Alive
<1>34. ASSUME NEW t \in Threads, ChildDone(t) PROVE Goal
  BY <1>34, <1>0 DEF ChildDone, ChildStep, ChildHasThread, Alive
<1>35. ASSUME NEW t \in Threads, ChildFail(t) PROVE Goal
  BY <1>35, <1>0 DEF ChildFail, ChildStep, ChildHasThread, Alive
<1>36. ASSUME NEW t \in Threads, ChildExit(t) PROVE Goal
  BY <1>36, <1>0 DEF ChildExit, ChildStep, ChildHasThread, Alive
<1>37. ASSUME NEW t \in Threads, ChildKilled(t) PROVE Goal
  BY <1>37, <1>0 DEF ChildKilled, ChildStep, ChildHasThread, Alive
<1>38. ASSUME NEW t \in Threads, RunFault(t) PROVE Goal
  BY <1>38, <1>0 DEF RunFault, Goto, Spend, Kinds
<1>39. ASSUME NEW t \in Threads, WaitFault(t) PROVE Goal
  BY <1>39, <1>0 DEF WaitFault, Goto, Spend, Kinds
<1>40. ASSUME NEW t \in Threads, ChildFault(t) PROVE Goal
  BY <1>40, <1>0 DEF ChildFault, Spend, SetStatus, Kinds
<1>41. ASSUME WatchTick PROVE Goal
  BY <1>41, <1>0 DEF WatchTick, Goto
<1>42. ASSUME Crash PROVE Goal
  BY <1>42 DEF Goal, Crash
<1>43. ASSUME Recover PROVE Goal
  <2>1. todo = {} /\ pc[Boot] = "recover" /\ UNCHANGED <<queue, arg>>
        /\ \A b \in Actors \ {Boot} : pc'[b] = pc[b]
    BY <1>43 DEF Recover, Goto, TodoIsAhead
  <2> QED
    BY <2>1, <1>0
<1>44. ASSUME NEW k \in Jobs, Requeue(k) PROVE Goal
  <2>1. pc'[Boot] = "enqueue" /\ arg'[Boot] = k /\ todo' = todo \ {k} /\ queue' = queue
        /\ pc[Boot] = "requeue" /\ \A b \in Actors \ {Boot} : pc'[b] = pc[b] /\ arg'[b] = arg[b]
    BY <1>44 DEF Requeue, TodoIsAhead
  <2>2. CASE k = j
    BY <2>1, <2>2 DEF Held, Placed, Goal
  <2>3. CASE k # j
    <3>1. ASSUME NEW b \in Actors PROVE Keeps(b)
      BY <2>1
    <3> QED
      BY <2>1, <2>3, <3>1, <1>0
  <2> QED
    BY <2>2, <2>3
<1>45. ASSUME BootDone PROVE Goal
  BY <1>45, <1>0 DEF BootDone, Goto
<1>46. ASSUME DeployBegin PROVE Goal
  BY <1>46, <1>0 DEF DeployBegin, Spend, Kinds
<1>47. ASSUME DeployFindsIdle PROVE Goal
  BY <1>47, <1>0 DEF DeployFindsIdle
<1>48. ASSUME DeployRestart PROVE Goal
  BY <1>48 DEF Goal, DeployRestart
<1>49. ASSUME DeployRestartUnheard PROVE Goal
  BY <1>49 DEF Goal, DeployRestartUnheard
<1>50. ASSUME DeployEnd PROVE Goal
  BY <1>50, <1>0 DEF DeployEnd
<1>51. ASSUME DeployGivesUp PROVE Goal
  BY <1>51, <1>0 DEF DeployGivesUp
<1>52. ASSUME DeployInterrupted PROVE Goal
  BY <1>52, <1>0 DEF DeployInterrupted, Spend, Kinds
<1>53. ASSUME OtherTakes PROVE Goal
  BY <1>53, <1>0 DEF OtherTakes, Spend, Kinds
<1>54. ASSUME OtherReleases PROVE Goal
  BY <1>54, <1>0 DEF OtherReleases
<1>55. ASSUME Quiet PROVE Goal
  BY <1>55, <1>0 DEF Quiet, vars
<1>56. CASE UNCHANGED vars
  BY <1>56, <1>0 DEF vars
<1> QED
  BY <1>1, <1>2, <1>3, <1>4, <1>5, <1>6, <1>7, <1>8, <1>9, <1>10, <1>11, <1>12, <1>13,
     <1>14, <1>15, <1>16, <1>17, <1>18, <1>19, <1>20, <1>21, <1>22, <1>23, <1>24, <1>25,
     <1>26, <1>27, <1>28, <1>29, <1>30, <1>31, <1>32, <1>33, <1>34, <1>35, <1>36, <1>37,
     <1>38, <1>39, <1>40, <1>41, <1>42, <1>43, <1>44, <1>45, <1>46, <1>47, <1>48, <1>49,
     <1>50, <1>51, <1>52, <1>53, <1>54, <1>55, <1>56
     DEF Next, Enqueue, RunStep, ChildWork, Startup, Pop

\* The first thing that a new process does is recover_after_restart.
LEMMA RecoverStep ==
  ASSUME TypeInv, PointsOfActors, [Next]_vars, pc[Boot] = "recover", pc'[Boot] # "recover"
  PROVE  Recover
<1> USE ActorsDistinct DEF ActorsDistinct, PointsOfActors, TypeInv, TypeOK, Actors, RunPoints
<1>1. ASSUME NEW j \in Jobs, CreateJob(j) PROVE Recover
  BY <1>1 DEF CreateJob
<1>2. ASSUME NEW j \in Jobs, DeleteCheck(j) PROVE Recover
  BY <1>2 DEF DeleteCheck
<1>3. ASSUME DeleteRow PROVE Recover
  BY <1>3 DEF DeleteRow, Return
<1>4. ASSUME NEW s \in Starters, NEW j \in Jobs, StartJob(s, j) PROVE Recover
  BY <1>4 DEF StartJob, Spend, Kinds
<1>5. ASSUME NEW a \in Actors, EnqueueRefused(a) PROVE Recover
  BY <1>5 DEF EnqueueRefused, Return, SetStatus
<1>6. ASSUME NEW a \in Actors, EnqueueWaiting(a) PROVE Recover
  BY <1>6 DEF EnqueueWaiting, Return, SetStatus
<1>7. ASSUME NEW a \in Actors, EnqueueFirst(a) PROVE Recover
  BY <1>7 DEF EnqueueFirst, Goto
<1>8. ASSUME NEW a \in Actors, Launch(a) PROVE Recover
  <2>1. PICK t \in Threads :
          pc' = [pc EXCEPT ![a] = IF a = Boot THEN "requeue" ELSE "idle", ![t] = "begin"]
    BY <1>8 DEF Launch
  <2>2. a # Boot /\ t # Boot
    BY <1>8 DEF Launch
  <2> QED
    BY <2>1, <2>2
<1>9. ASSUME NEW a \in Actors, NEW j \in Jobs, PopNext(a, j) PROVE Recover
  BY <1>9 DEF PopNext
<1>10. ASSUME NEW a \in Actors, PopNothing(a) PROVE Recover
  BY <1>10 DEF PopNothing, Goto
<1>11. ASSUME NEW a \in Actors, EnqueueFault(a) PROVE Recover
  BY <1>11 DEF EnqueueFault, Return, SetStatus, Spend, Kinds
<1>12. ASSUME NEW a \in Actors, LaunchFault(a) PROVE Recover
  BY <1>12 DEF LaunchFault, Return, SetStatus, Spend, Kinds
<1>13. ASSUME LogFault PROVE Recover
  BY <1>13 DEF LogFault, Return, Spend, Kinds
<1>14. ASSUME NEW t \in Threads, ResponseFault(t) PROVE Recover
  BY <1>14 DEF ResponseFault, SetStatus, Spend, Kinds
<1>15. ASSUME NEW t \in Threads, DirMissing(t) PROVE Recover
  BY <1>15 DEF DirMissing, Goto
<1>16. ASSUME NEW t \in Threads, RunBegin(t) PROVE Recover
  BY <1>16 DEF RunBegin, Goto
<1>17. ASSUME NEW t \in Threads, Acquire(t) PROVE Recover
  BY <1>17 DEF Acquire, Goto
<1>18. ASSUME NEW t \in Threads, AcquireRefused(t) PROVE Recover
  BY <1>18 DEF AcquireRefused, Goto, SetStatus
<1>19. ASSUME NEW t \in Threads, AcquireAborted(t) PROVE Recover
  BY <1>19 DEF AcquireAborted, Goto
<1>20. ASSUME NEW t \in Threads, NotAcquired(t) PROVE Recover
  BY <1>20 DEF NotAcquired, Goto
<1>21. ASSUME NEW t \in Threads, Acquired(t) PROVE Recover
  BY <1>21 DEF Acquired, Goto, SetStatus
<1>22. ASSUME NEW t \in Threads, Spawn(t) PROVE Recover
  BY <1>22 DEF Spawn, Goto
<1>23. ASSUME NEW t \in Threads, ChildExited(t) PROVE Recover
  BY <1>23 DEF ChildExited, Goto, FailIfRunning
<1>24. ASSUME NEW t \in Threads, RunError(t) PROVE Recover
  BY <1>24 DEF RunError, Goto, FailIfRunning
<1>25. ASSUME NEW t \in Threads, ReturnToQueue(t) PROVE Recover
  BY <1>25 DEF ReturnToQueue, Goto
<1>26. ASSUME NEW t \in Threads, ReturnedRow(t) PROVE Recover
  BY <1>26 DEF ReturnedRow, Goto, SetStatus
<1>27. ASSUME NEW t \in Threads, ReleaseSlot(t) PROVE Recover
  BY <1>27 DEF ReleaseSlot, Goto
<1>28. ASSUME NEW t \in Threads, ClearRunning(t) PROVE Recover
  BY <1>28 DEF ClearRunning
<1>29. ASSUME NEW t \in Threads, NextCheck(t) PROVE Recover
  BY <1>29 DEF NextCheck, Goto
<1>30. ASSUME NEW t \in Threads, AcquireTimedOut(t) PROVE Recover
  BY <1>30 DEF AcquireTimedOut, Goto, Spend, Kinds
<1>31. ASSUME NEW t \in Threads, JobTimedOut(t) PROVE Recover
  BY <1>31 DEF JobTimedOut, Goto, FailIfRunning
<1>32. ASSUME NEW t \in Threads, ChildStart(t) PROVE Recover
  BY <1>32 DEF ChildStart, ChildStep, SetStatus
<1>33. ASSUME NEW t \in Threads, ChildNoJob(t) PROVE Recover
  BY <1>33 DEF ChildNoJob, ChildStep, SetStatus
<1>34. ASSUME NEW t \in Threads, ChildDone(t) PROVE Recover
  BY <1>34 DEF ChildDone, ChildStep, SetStatus
<1>35. ASSUME NEW t \in Threads, ChildFail(t) PROVE Recover
  BY <1>35 DEF ChildFail, ChildStep, SetStatus
<1>36. ASSUME NEW t \in Threads, ChildExit(t) PROVE Recover
  BY <1>36 DEF ChildExit, ChildStep, SetStatus
<1>37. ASSUME NEW t \in Threads, ChildKilled(t) PROVE Recover
  BY <1>37 DEF ChildKilled, ChildStep, SetStatus
<1>38. ASSUME NEW t \in Threads, RunFault(t) PROVE Recover
  BY <1>38 DEF RunFault, Goto, Spend, Kinds
<1>39. ASSUME NEW t \in Threads, WaitFault(t) PROVE Recover
  BY <1>39 DEF WaitFault, Goto, Spend, Kinds
<1>40. ASSUME NEW t \in Threads, ChildFault(t) PROVE Recover
  BY <1>40 DEF ChildFault, Spend, SetStatus, Kinds
<1>41. ASSUME WatchTick PROVE Recover
  BY <1>41 DEF WatchTick, Goto
<1>42. ASSUME Crash PROVE Recover
  BY <1>42 DEF Crash, Spend, StopServer, Kinds
<1>43. ASSUME Recover PROVE Recover
  BY <1>43
<1>44. ASSUME NEW j \in Jobs, Requeue(j) PROVE Recover
  BY <1>44 DEF Requeue
<1>45. ASSUME BootDone PROVE Recover
  BY <1>45 DEF BootDone, Goto
<1>46. ASSUME DeployBegin PROVE Recover
  BY <1>46 DEF DeployBegin, Spend, Kinds
<1>47. ASSUME DeployFindsIdle PROVE Recover
  BY <1>47 DEF DeployFindsIdle
<1>48. ASSUME DeployRestart PROVE Recover
  BY <1>48 DEF DeployRestart, StopServer
<1>49. ASSUME DeployRestartUnheard PROVE Recover
  BY <1>49 DEF DeployRestartUnheard, Spend, StopServer, Kinds
<1>50. ASSUME DeployEnd PROVE Recover
  BY <1>50 DEF DeployEnd
<1>51. ASSUME DeployGivesUp PROVE Recover
  BY <1>51 DEF DeployGivesUp
<1>52. ASSUME DeployInterrupted PROVE Recover
  BY <1>52 DEF DeployInterrupted, Spend, Kinds
<1>53. ASSUME OtherTakes PROVE Recover
  BY <1>53 DEF OtherTakes, Spend, Kinds
<1>54. ASSUME OtherReleases PROVE Recover
  BY <1>54 DEF OtherReleases
<1>55. ASSUME Quiet PROVE Recover
  BY <1>55 DEF Quiet, vars
<1>56. CASE UNCHANGED vars
  BY <1>56 DEF vars
<1> QED
  BY <1>1, <1>2, <1>3, <1>4, <1>5, <1>6, <1>7, <1>8, <1>9, <1>10, <1>11, <1>12, <1>13,
     <1>14, <1>15, <1>16, <1>17, <1>18, <1>19, <1>20, <1>21, <1>22, <1>23, <1>24, <1>25,
     <1>26, <1>27, <1>28, <1>29, <1>30, <1>31, <1>32, <1>33, <1>34, <1>35, <1>36, <1>37,
     <1>38, <1>39, <1>40, <1>41, <1>42, <1>43, <1>44, <1>45, <1>46, <1>47, <1>48, <1>49,
     <1>50, <1>51, <1>52, <1>53, <1>54, <1>55, <1>56
     DEF Next, Enqueue, RunStep, ChildWork, Startup, Pop

\* A waiting job leaves the queue only for a run, or with the process.
LEMMA KeepsWaiting ==
  ASSUME TypeInv, [Next]_vars, ~StopServer, \A a \in Actors, k \in Jobs : ~PopNext(a, k),
         NEW j \in ToSet(queue)
  PROVE  j \in ToSet(queue')
<1>1. ASSUME NEW k \in Jobs, CreateJob(k) PROVE j \in ToSet(queue')
  BY <1>1 DEF CreateJob
<1>2. ASSUME NEW k \in Jobs, DeleteCheck(k) PROVE j \in ToSet(queue')
  BY <1>2 DEF DeleteCheck
<1>3. ASSUME DeleteRow PROVE j \in ToSet(queue')
  BY <1>3 DEF DeleteRow, Return
<1>4. ASSUME NEW s \in Starters, NEW k \in Jobs, StartJob(s, k) PROVE j \in ToSet(queue')
  BY <1>4 DEF StartJob, Spend, Kinds
<1>5. ASSUME NEW a \in Actors, EnqueueRefused(a) PROVE j \in ToSet(queue')
  BY <1>5 DEF EnqueueRefused, Return, SetStatus
<1>6. ASSUME NEW a \in Actors, EnqueueWaiting(a) PROVE j \in ToSet(queue')
  BY <1>6, WaitingSet
<1>7. ASSUME NEW a \in Actors, EnqueueFirst(a) PROVE j \in ToSet(queue')
  BY <1>7 DEF EnqueueFirst, Goto
<1>8. ASSUME NEW a \in Actors, Launch(a) PROVE j \in ToSet(queue')
  BY <1>8 DEF Launch, SetStatus
<1>9. ASSUME NEW a \in Actors, NEW k \in Jobs, PopNext(a, k) PROVE j \in ToSet(queue')
  BY <1>9
<1>10. ASSUME NEW a \in Actors, PopNothing(a) PROVE j \in ToSet(queue')
  BY <1>10 DEF PopNothing, Goto
<1>11. ASSUME NEW a \in Actors, EnqueueFault(a) PROVE j \in ToSet(queue')
  BY <1>11, WaitingSet
<1>12. ASSUME NEW a \in Actors, LaunchFault(a) PROVE j \in ToSet(queue')
  BY <1>12 DEF LaunchFault, Return, SetStatus, Spend, Kinds
<1>13. ASSUME LogFault PROVE j \in ToSet(queue')
  BY <1>13 DEF LogFault, Return, Spend, Kinds
<1>14. ASSUME NEW t \in Threads, ResponseFault(t) PROVE j \in ToSet(queue')
  BY <1>14 DEF ResponseFault, SetStatus, Spend, Kinds
<1>15. ASSUME NEW t \in Threads, DirMissing(t) PROVE j \in ToSet(queue')
  BY <1>15 DEF DirMissing, Goto
<1>16. ASSUME NEW t \in Threads, RunBegin(t) PROVE j \in ToSet(queue')
  BY <1>16 DEF RunBegin, Goto
<1>17. ASSUME NEW t \in Threads, Acquire(t) PROVE j \in ToSet(queue')
  BY <1>17 DEF Acquire, Goto
<1>18. ASSUME NEW t \in Threads, AcquireRefused(t) PROVE j \in ToSet(queue')
  BY <1>18 DEF AcquireRefused, Goto, SetStatus
<1>19. ASSUME NEW t \in Threads, AcquireAborted(t) PROVE j \in ToSet(queue')
  BY <1>19 DEF AcquireAborted, Goto
<1>20. ASSUME NEW t \in Threads, NotAcquired(t) PROVE j \in ToSet(queue')
  BY <1>20 DEF NotAcquired, Goto
<1>21. ASSUME NEW t \in Threads, Acquired(t) PROVE j \in ToSet(queue')
  BY <1>21 DEF Acquired, Goto, SetStatus
<1>22. ASSUME NEW t \in Threads, Spawn(t) PROVE j \in ToSet(queue')
  BY <1>22 DEF Spawn, Goto
<1>23. ASSUME NEW t \in Threads, ChildExited(t) PROVE j \in ToSet(queue')
  BY <1>23 DEF ChildExited, Goto, FailIfRunning
<1>24. ASSUME NEW t \in Threads, RunError(t) PROVE j \in ToSet(queue')
  BY <1>24 DEF RunError, Goto, FailIfRunning
<1>25. ASSUME NEW t \in Threads, ReturnToQueue(t) PROVE j \in ToSet(queue')
  BY <1>25, ReturnedSet
<1>26. ASSUME NEW t \in Threads, ReturnedRow(t) PROVE j \in ToSet(queue')
  BY <1>26 DEF ReturnedRow, Goto, SetStatus
<1>27. ASSUME NEW t \in Threads, ReleaseSlot(t) PROVE j \in ToSet(queue')
  BY <1>27 DEF ReleaseSlot, Goto
<1>28. ASSUME NEW t \in Threads, ClearRunning(t) PROVE j \in ToSet(queue')
  BY <1>28 DEF ClearRunning
<1>29. ASSUME NEW t \in Threads, NextCheck(t) PROVE j \in ToSet(queue')
  BY <1>29 DEF NextCheck, Goto
<1>30. ASSUME NEW t \in Threads, AcquireTimedOut(t) PROVE j \in ToSet(queue')
  BY <1>30 DEF AcquireTimedOut, Goto, Spend, Kinds
<1>31. ASSUME NEW t \in Threads, JobTimedOut(t) PROVE j \in ToSet(queue')
  BY <1>31 DEF JobTimedOut, Goto, FailIfRunning
<1>32. ASSUME NEW t \in Threads, ChildStart(t) PROVE j \in ToSet(queue')
  BY <1>32 DEF ChildStart, ChildStep, SetStatus
<1>33. ASSUME NEW t \in Threads, ChildNoJob(t) PROVE j \in ToSet(queue')
  BY <1>33 DEF ChildNoJob, ChildStep, SetStatus
<1>34. ASSUME NEW t \in Threads, ChildDone(t) PROVE j \in ToSet(queue')
  BY <1>34 DEF ChildDone, ChildStep, SetStatus
<1>35. ASSUME NEW t \in Threads, ChildFail(t) PROVE j \in ToSet(queue')
  BY <1>35 DEF ChildFail, ChildStep, SetStatus
<1>36. ASSUME NEW t \in Threads, ChildExit(t) PROVE j \in ToSet(queue')
  BY <1>36 DEF ChildExit, ChildStep, SetStatus
<1>37. ASSUME NEW t \in Threads, ChildKilled(t) PROVE j \in ToSet(queue')
  BY <1>37 DEF ChildKilled, ChildStep, SetStatus
<1>38. ASSUME NEW t \in Threads, RunFault(t) PROVE j \in ToSet(queue')
  BY <1>38 DEF RunFault, Goto, Spend, Kinds
<1>39. ASSUME NEW t \in Threads, WaitFault(t) PROVE j \in ToSet(queue')
  BY <1>39 DEF WaitFault, Goto, Spend, Kinds
<1>40. ASSUME NEW t \in Threads, ChildFault(t) PROVE j \in ToSet(queue')
  BY <1>40 DEF ChildFault, Spend, SetStatus, Kinds
<1>41. ASSUME WatchTick PROVE j \in ToSet(queue')
  BY <1>41 DEF WatchTick, Goto
<1>42. ASSUME Crash PROVE j \in ToSet(queue')
  BY <1>42 DEF Crash
<1>43. ASSUME Recover PROVE j \in ToSet(queue')
  BY <1>43 DEF Recover, Goto
<1>44. ASSUME NEW k \in Jobs, Requeue(k) PROVE j \in ToSet(queue')
  BY <1>44 DEF Requeue
<1>45. ASSUME BootDone PROVE j \in ToSet(queue')
  BY <1>45 DEF BootDone, Goto
<1>46. ASSUME DeployBegin PROVE j \in ToSet(queue')
  BY <1>46 DEF DeployBegin, Spend, Kinds
<1>47. ASSUME DeployFindsIdle PROVE j \in ToSet(queue')
  BY <1>47 DEF DeployFindsIdle
<1>48. ASSUME DeployRestart PROVE j \in ToSet(queue')
  BY <1>48 DEF DeployRestart
<1>49. ASSUME DeployRestartUnheard PROVE j \in ToSet(queue')
  BY <1>49 DEF DeployRestartUnheard
<1>50. ASSUME DeployEnd PROVE j \in ToSet(queue')
  BY <1>50 DEF DeployEnd
<1>51. ASSUME DeployGivesUp PROVE j \in ToSet(queue')
  BY <1>51 DEF DeployGivesUp
<1>52. ASSUME DeployInterrupted PROVE j \in ToSet(queue')
  BY <1>52 DEF DeployInterrupted, Spend, Kinds
<1>53. ASSUME OtherTakes PROVE j \in ToSet(queue')
  BY <1>53 DEF OtherTakes, Spend, Kinds
<1>54. ASSUME OtherReleases PROVE j \in ToSet(queue')
  BY <1>54 DEF OtherReleases
<1>55. ASSUME Quiet PROVE j \in ToSet(queue')
  BY <1>55 DEF Quiet, vars
<1>56. CASE UNCHANGED vars
  BY <1>56 DEF vars
<1> QED
  BY <1>1, <1>2, <1>3, <1>4, <1>5, <1>6, <1>7, <1>8, <1>9, <1>10, <1>11, <1>12, <1>13,
     <1>14, <1>15, <1>16, <1>17, <1>18, <1>19, <1>20, <1>21, <1>22, <1>23, <1>24, <1>25,
     <1>26, <1>27, <1>28, <1>29, <1>30, <1>31, <1>32, <1>33, <1>34, <1>35, <1>36, <1>37,
     <1>38, <1>39, <1>40, <1>41, <1>42, <1>43, <1>44, <1>45, <1>46, <1>47, <1>48, <1>49,
     <1>50, <1>51, <1>52, <1>53, <1>54, <1>55, <1>56
     DEF Next, Enqueue, RunStep, ChildWork, Startup, Pop

-----------------------------------------------------------------------------
(* The table. *)

LEMMA AbortedStep == TableInv /\ [Next]_vars => AbortedForDeploy'
<1> SUFFICES ASSUME TableInv, [Next]_vars, NEW t \in Threads, pc'[t] = "notAcquired"
             PROVE  drain' \in {"on", "idle"}
  BY DEF AbortedForDeploy
<1>1. /\ TypeInv /\ PointsOfActors /\ left["fault"] = 0 /\ left["timeout"] = 0
      /\ left["interrupt"] = 0 /\ SwappedIsQuiet /\ AbortedForDeploy
      /\ OneOwner \/ NoneComputes
  BY DEF TableInv, BootInv, SlotInv
<1>2. t \in Actors
  BY DEF Actors
<1>3. CASE pc[t] = "notAcquired"
  <2>1. drain \in {"on", "idle"} /\ OneOwner
    BY <1>1, <1>2, <1>3 DEF AbortedForDeploy, NoneComputes, ComputePoints
  <2>2. ~DeployGivesUp
    BY <1>2, <1>3, <2>1 DEF DeployGivesUp, OneOwner, OwnPoints, RunPoints, Actors
  <2>3. ~StopServer
    BY <1>1, <1>2, ActorsDistinct DEF StopServer, TypeInv, TypeOK, Actors, ActorsDistinct
  <2> QED
    BY <1>1, <2>1, <2>2, <2>3, DrainStep
       DEF DeployBegin, DeployFindsIdle, DeployRestart, DeployRestartUnheard, DeployEnd,
           DeployInterrupted, Spend
<1>4. CASE pc[t] # "notAcquired"
  <2>1. AcquireAborted(t)
    <3>1. ~StopServer
      BY <1>1, <1>2, ActorsDistinct DEF StopServer, TypeInv, TypeOK, Actors, ActorsDistinct
    <3>2. RunStep(t) \/ JobTimedOut(t) \/ AcquireTimedOut(t)
      BY <1>1, <1>4, <3>1, ThreadStep
    <3> QED
      BY <1>1, <1>2, <3>2
         DEF RunStep, DirMissing, RunBegin, Acquire, AcquireRefused, NotAcquired, Acquired,
             Spawn, ChildExited, RunError, ReturnToQueue, ReturnedRow, ReleaseSlot,
             ClearRunning, NextCheck, AcquireTimedOut, JobTimedOut, Goto, Spend, TypeInv, TypeOK
  <2>2. drain \in {"on", "idle"}
    BY <1>1, <1>2, <2>1
       DEF AcquireAborted, Draining, SwappedIsQuiet, RunPoints, TypeInv, TypeOK
  <2> QED
    BY <2>1, <2>2 DEF AcquireAborted
<1> QED
  BY <1>3, <1>4

LEMMA EndStep == TableInv /\ [Next]_vars => EndIsWritten'
<1> SUFFICES ASSUME ~ChildrenSurvive, TableInv, [Next]_vars, NEW t \in Threads,
                    child'[t] \in {"mailing", "exit0"}
             PROVE  pc'[t] = "wait" /\ status'[arg'[t]] # "running"
  BY DEF EndIsWritten
<1>1. /\ TypeInv /\ PointsOfActors /\ left["fault"] = 0 /\ AliveIsWaitedFor /\ EndIsWritten
      /\ OneOwner \/ NoneComputes
  BY DEF TableInv, BootInv, SlotInv
<1>2. t \in Actors
  BY DEF Actors
<1>3. CASE child[t] \in {"mailing", "exit0"} /\ pc'[t] = pc[t] /\ arg'[t] = arg[t]
  <2> DEFINE j == arg[t]
  <2>1. pc[t] = "wait" /\ status[j] # "running" /\ j \in Jobs
    BY <1>1, <1>2, <1>3 DEF EndIsWritten, TypeInv, ArgIsJob, RunPoints
  <2>2. OneOwner
    BY <1>1, <1>2, <2>1 DEF NoneComputes, ComputePoints
  <2>3. \A a \in Actors \ {t} : pc[a] \notin {"launch", "got", "wait"}
    BY <1>2, <2>1, <2>2 DEF OneOwner, OwnPoints, RunPoints
  <2>4. ASSUME NEW a \in Actors PROVE ~Launch(a)
    BY <2>1, <2>3 DEF Launch
  <2>5. ASSUME NEW u \in Threads PROVE ~Acquired(u) /\ ~ChildStart(u)
    BY <1>1, <1>3, <2>1, <2>3
       DEF Acquired, ChildStart, AliveIsWaitedFor, Alive, Actors
  <2> HIDE DEF j
  <2>6. status'[j] # "running"
    BY <1>1, <2>1, <2>4, <2>5, StatusStep DEF CreateJob, TypeInv, TypeOK
  <2> QED
    BY <1>3, <2>1, <2>6 DEF j
<1>4. CASE ChildDone(t)
  <2>1. child[t] = "pipeline" /\ pc[t] = "wait" /\ arg[t] \in Jobs
    BY <1>1, <1>2, <1>4
       DEF ChildDone, ChildStep, AliveIsWaitedFor, Alive, TypeInv, ArgIsJob, RunPoints
  <2> QED
    BY <1>1, <1>4, <2>1 DEF ChildDone, ChildStep, SetStatus, Alive, TypeInv, TypeOK
<1> QED
  BY <1>1, <1>3, <1>4, MailingStep

LEMMA RunningRowStep == TableInv /\ [Next]_vars => RunningIsHeld'
<1> DEFINE Works(t, j) == arg[t] = j /\ pc[t] \in RunPoints \ {"cleanup", "clear"}
<1> SUFFICES ASSUME ~ChildrenSurvive, TableInv, [Next]_vars, pc'[Boot] # "recover",
                    NEW j \in Jobs, status'[j] = "running"
             PROVE  \E t \in Threads : Works(t, j)'
  BY DEF RunningIsHeld
<1>1. /\ TypeInv /\ PointsOfActors /\ left["fault"] = 0 /\ left["timeout"] = 0
      /\ RunningIsHeld /\ EndIsWritten /\ AliveIsWaitedFor
  BY DEF TableInv, BootInv, SlotInv
<1>2. \A t \in Threads : t \in Actors /\ t # Boot
  BY ActorsDistinct DEF Actors, ActorsDistinct
<1>3. ~StopServer
  BY <1>1 DEF StopServer, Actors
<1>4. CASE pc[Boot] = "recover"
  <2>1. Recover
    BY <1>1, <1>4, RecoverStep
  <2> QED
    BY <2>1 DEF Recover
<1>5. CASE pc[Boot] # "recover" /\ status[j] = "running"
  <2>1. PICK t \in Threads : Works(t, j)
    BY <1>1, <1>5 DEF RunningIsHeld
  <2>2. ~ChildExited(t) /\ ~JobTimedOut(t) /\ ~RunError(t) /\ ~ReturnedRow(t)
    <3>1. ~ChildExited(t)
      BY <1>1, <1>5, <2>1
         DEF ChildExited, FailIfRunning, EndIsWritten, TypeInv, TypeOK
    <3>2. ~JobTimedOut(t) /\ ~RunError(t)
      BY <1>1, <2>1 DEF JobTimedOut, RunError, FailIfRunning, TypeInv, TypeOK
    <3>3. ~ReturnedRow(t)
      BY <1>1, <2>1 DEF ReturnedRow, SetStatus, TypeInv, TypeOK
    <3> QED
      BY <3>1, <3>2, <3>3
  <2>3. CASE pc'[t] = pc[t] /\ (arg'[t] = arg[t] \/ pc[t] = "idle")
    BY <2>1, <2>3 DEF RunPoints
  <2>4. CASE RunStep(t) \/ AcquireTimedOut(t)
    BY <1>1, <1>2, <2>1, <2>2, <2>4
       DEF RunStep, DirMissing, RunBegin, Acquire, AcquireRefused, AcquireAborted, NotAcquired,
           Acquired, Spawn, ReturnToQueue, ReleaseSlot, ClearRunning, NextCheck,
           AcquireTimedOut, Spend, Goto, RunPoints, TypeInv, TypeOK
  <2>5. pc[t] \notin {"idle", "pop", "launch"}
    BY <2>1 DEF RunPoints
  <2> QED
    BY <1>1, <1>3, <2>2, <2>3, <2>4, <2>5, ThreadStep
<1>6. CASE status[j] # "running"
  <2>1. ASSUME NEW a \in Actors, Launch(a), arg[a] = j PROVE \E t \in Threads : Works(t, j)'
    <3>1. PICK t \in Threads :
            /\ pc[t] = "idle" /\ child[t] = "none"
            /\ pc' = [pc EXCEPT ![a] = IF a = Boot THEN "requeue" ELSE "idle", ![t] = "begin"]
            /\ arg' = [arg EXCEPT ![a] = None, ![t] = arg[a]]
      BY <2>1 DEF Launch
    <3>2. pc'[t] = "begin" /\ arg'[t] = j
      BY <1>1, <1>2, <2>1, <3>1 DEF Launch, TypeInv, TypeOK
    <3> QED
      BY <3>2 DEF RunPoints
  <2>2. ASSUME NEW t \in Threads, Acquired(t), arg[t] = j PROVE Works(t, j)'
    BY <1>1, <1>2, <2>2 DEF Acquired, Goto, RunPoints, TypeInv, TypeOK
  <2>3. ASSUME NEW t \in Threads, ChildStart(t), arg[t] = j PROVE Works(t, j)'
    BY <1>1, <1>2, <2>3 DEF ChildStart, ChildStep, AliveIsWaitedFor, Alive, RunPoints
  <2>4. ~CreateJob(j)
    BY <1>1 DEF CreateJob, TypeInv, TypeOK
  <2> HIDE DEF Works
  <2> QED
    BY <1>1, <1>6, <2>1, <2>2, <2>3, <2>4, StatusStep
<1> QED
  BY <1>4, <1>5, <1>6

\* While a thread computes, or is about to without a deployment, it has _running.
LEMMA ComputingOwns ==
  ASSUME SlotInv, NEW t \in Threads,
         pc[t] \in {"spawn", "wait"} \/ (pc[t] = "begin" /\ ~Draining)
  PROVE  OneOwner /\ arg[t] = running /\ arg[t] \in Jobs
BY DEF SlotInv, NoneComputes, OneOwner, OwnPoints, ComputePoints, RunPoints, Draining, Actors,
       TypeInv, ArgIsJob

LEMMA AgainStep == TableInv /\ [Next]_vars => ComputingIsAgain'
<1> SUFFICES ASSUME TableInv, [Next]_vars, NEW t \in Threads, NEW j,
                    pc'[t] \in {"spawn", "wait"} \/ (pc'[t] = "begin" /\ ~Draining'),
                    arg'[t] = j, status'[j] = "queued"
             PROVE  j \in ToSet(queue')
  BY DEF ComputingIsAgain
<1>1. /\ TypeInv /\ PointsOfActors /\ SlotInv /\ NoDuplicates /\ ComputingIsAgain
      /\ left["fault"] = 0 /\ left["timeout"] = 0 /\ left["interrupt"] = 0
  BY DEF TableInv, BootInv, SlotInv
<1>2. t \in Actors /\ t # Boot /\ t # Loop
  BY ActorsDistinct DEF Actors, ActorsDistinct
<1>3. ~StopServer
  BY <1>1, <1>2 DEF StopServer
<1>4. j \in Jobs
  BY <1>1, <1>2, TypeStep DEF TypeInv, ArgIsJob, RunPoints
<1>5. CASE /\ pc[t] \in {"spawn", "wait"} \/ (pc[t] = "begin" /\ ~Draining)
           /\ arg[t] = j
  <2>1. OneOwner /\ running = j /\ \A u \in Actors \ {t} : pc[u] \notin OwnPoints
    BY <1>1, <1>2, <1>5, ComputingOwns DEF OneOwner, OwnPoints, RunPoints
  <2>2. CASE status[j] = "queued"
    <3>1. j \in ToSet(queue)
      BY <1>1, <1>5, <2>2 DEF ComputingIsAgain
    <3>2. ASSUME NEW a \in Actors, NEW k \in Jobs PROVE ~PopNext(a, k)
      BY <1>4, <2>1, NoneIsNoJob DEF PopNext, Busy, NoneIsNoJob
    <3> QED
      BY <1>1, <1>3, <3>1, <3>2, KeepsWaiting
  <2>3. CASE status[j] # "queued"
    <3>1. ASSUME NEW a \in Actors, EnqueueWaiting(a), arg[a] = j PROVE j \in ToSet(queue')
      BY <1>1, <3>1, WaitingSet
    <3>2. ASSUME NEW u \in Threads, arg[u] = j PROVE ~AcquireRefused(u) /\ ~ReturnedRow(u)
      BY <1>2, <1>5, <2>1
         DEF AcquireRefused, ReturnedRow, OneOwner, OwnPoints, RunPoints, Actors
    <3>3. ~CreateJob(j)
      BY <1>1, <1>4 DEF CreateJob, TypeInv, TypeOK
    <3> QED
      BY <1>1, <1>4, <2>3, <3>1, <3>2, <3>3, StatusStep
  <2> QED
    BY <2>2, <2>3
<1>6. CASE pc'[t] = "begin" /\ pc[t] = "begin" /\ arg'[t] = arg[t] /\ Draining
  <2>1. drain' = "off" /\ drain # "off"
    BY <1>6 DEF Draining
  <2>2. ~DeployEnd
    BY <1>1, <1>2, <1>6 DEF DeployEnd, SlotInv, SwappedIsQuiet, RunPoints
  <2>3. ~DeployGivesUp
    BY <1>1, <1>2, <1>6
       DEF DeployGivesUp, SlotInv, OneOwner, OwnPoints, RunPoints, NoneComputes, ComputePoints,
           Actors
  <2> QED
    BY <1>1, <2>1, <2>2, <2>3, DrainStep
       DEF DeployBegin, DeployFindsIdle, DeployRestart, DeployRestartUnheard, DeployInterrupted,
           Spend
<1>7. ASSUME NEW a \in Actors, Launch(a), arg[a] = j PROVE FALSE
  BY <1>1, <1>4, <1>7 DEF Launch, SetStatus, TypeInv, TypeOK
<1>8. CASE /\ ~(pc'[t] = pc[t] /\ arg'[t] = arg[t])
           /\ RunStep(t) \/ JobTimedOut(t) \/ AcquireTimedOut(t)
  <2>1. CASE RunBegin(t)
    <3>1. pc[t] = "begin" /\ ~Draining /\ arg[t] = j
      BY <1>1, <1>2, <2>1 DEF RunBegin, Goto, TypeInv, TypeOK
    <3> QED
      BY <1>5, <3>1
  <2>2. CASE Acquired(t)
    BY <1>1, <1>2, <1>4, <2>2 DEF Acquired, Goto, SetStatus, TypeInv, TypeOK
  <2>3. CASE Spawn(t)
    <3>1. pc[t] = "spawn" /\ arg[t] = j
      BY <2>3 DEF Spawn, Goto
    <3> QED
      BY <1>5, <3>1
  <2>4. ~DirMissing(t) /\ ~Acquire(t) /\ ~AcquireRefused(t) /\ ~AcquireAborted(t)
        /\ ~NotAcquired(t) /\ ~ChildExited(t) /\ ~RunError(t) /\ ~ReturnToQueue(t)
        /\ ~ReturnedRow(t) /\ ~ReleaseSlot(t) /\ ~ClearRunning(t) /\ ~NextCheck(t)
        /\ ~JobTimedOut(t) /\ ~AcquireTimedOut(t)
    BY <1>1, <1>2
       DEF DirMissing, Acquire, AcquireRefused, AcquireAborted, NotAcquired, ChildExited,
           RunError, ReturnToQueue, ReturnedRow, ReleaseSlot, ClearRunning, NextCheck,
           JobTimedOut, AcquireTimedOut, Goto, TypeInv, TypeOK
  <2> QED
    BY <1>8, <2>1, <2>2, <2>3, <2>4 DEF RunStep
<1> QED
  BY <1>1, <1>3, <1>5, <1>6, <1>7, <1>8, ThreadStep

LEMMA ReturnedRowStep == TableInv /\ [Next]_vars => ReturnedIsHeld'
<1> SUFFICES ASSUME TableInv, [Next]_vars, NEW t \in Threads, NEW j,
                    pc'[t] = "returned", arg'[t] = j
             PROVE  status'[j] = "deleted" \/ Held(j)'
  BY DEF ReturnedIsHeld
<1>1. /\ TypeInv /\ PointsOfActors /\ BootInv /\ NoDuplicates /\ AbortedForDeploy
      /\ ReturnedIsHeld /\ left["fault"] = 0
      /\ OneOwner \/ NoneComputes
  BY DEF TableInv, BootInv, SlotInv
<1>2. t \in Actors /\ t # Boot
  BY ActorsDistinct DEF Actors, ActorsDistinct
<1>3. j \in Jobs
  BY <1>1, <1>2, TypeStep DEF TypeInv, ArgIsJob, RunPoints
<1>4. ~StopServer
  BY <1>1, <1>2 DEF StopServer
<1>5. CASE pc[t] = "returned" /\ arg[t] = j
  <2>1. \A u \in Threads : pc[u] # "wait"
    BY <1>1, <1>2, <1>5 DEF OneOwner, NoneComputes, ComputePoints, Actors
  <2>2. CASE status[j] = "deleted"
    BY <1>1, <1>3, <2>2, StatusStep
  <2>3. CASE status[j] # "deleted"
    BY <1>1, <1>3, <1>4, <1>5, <2>1, <2>3, HeldStep
       DEF ReturnedIsHeld, ChildExited, JobTimedOut
  <2> QED
    BY <2>2, <2>3
<1>6. CASE pc[t] # "returned"
  <2>1. RunStep(t) \/ JobTimedOut(t) \/ AcquireTimedOut(t)
    BY <1>1, <1>4, <1>6, ThreadStep
  <2>2. ReturnToQueue(t) /\ arg[t] = j
    BY <1>1, <1>2, <1>6, <2>1
       DEF RunStep, DirMissing, RunBegin, Acquire, AcquireRefused, AcquireAborted, NotAcquired,
           Acquired, Spawn, ChildExited, RunError, ReturnToQueue, ReturnedRow, ReleaseSlot,
           ClearRunning, NextCheck, AcquireTimedOut, JobTimedOut, Goto, TypeInv, TypeOK
  <2>3. j \in ToSet(queue')
    BY <1>1, <2>2, ReturnedSet
  <2> QED
    BY <2>3 DEF Held
<1>7. arg'[t] = arg[t] \/ pc[t] # "returned"
  BY <1>1, <1>2, <1>4, ThreadStep
     DEF RunStep, DirMissing, RunBegin, Acquire, AcquireRefused, AcquireAborted, NotAcquired,
         Acquired, Spawn, ChildExited, RunError, ReturnToQueue, ReturnedRow, ReleaseSlot,
         ClearRunning, NextCheck, AcquireTimedOut, JobTimedOut, Goto, TypeInv, TypeOK
<1> QED
  BY <1>5, <1>6, <1>7

LEMMA QueuedRowStep == TableInv /\ [Next]_vars => QueuedIsHeld'
<1> SUFFICES ASSUME TableInv, [Next]_vars, pc'[Boot] # "recover",
                    NEW j \in Jobs, status'[j] = "queued"
             PROVE  Held(j)'
  BY DEF QueuedIsHeld
<1>1. /\ TypeInv /\ PointsOfActors /\ BootInv /\ NoDuplicates /\ AbortedForDeploy
      /\ QueuedIsHeld /\ ReturnedIsHeld /\ ComputingIsAgain /\ left["fault"] = 0
  BY DEF TableInv, BootInv, SlotInv
<1>2. \A t \in Threads : t \in Actors
  BY DEF Actors
<1>3. ~StopServer
  BY <1>1 DEF StopServer, Actors
<1>4. CASE pc[Boot] = "recover"
  <2>1. Recover
    BY <1>1, <1>4, RecoverStep
  <2>2. j \in todo'
    BY <1>1, <2>1 DEF Recover, TypeInv, TypeOK
  <2> QED
    BY <2>2 DEF Held
<1>5. CASE pc[Boot] # "recover" /\ status[j] = "queued"
  <2>1. Held(j)
    BY <1>1, <1>5 DEF QueuedIsHeld
  <2>2. ASSUME NEW t \in Threads, arg[t] = j, ChildExited(t) \/ JobTimedOut(t)
        PROVE  j \in ToSet(queue')
    BY <1>1, <1>5, <2>2 DEF ComputingIsAgain, ChildExited, JobTimedOut
  <2>3. j \in ToSet(queue') => Held(j)'
    BY DEF Held
  <2> QED
    BY <1>1, <1>3, <1>5, <2>1, <2>2, <2>3, HeldStep
<1>6. CASE status[j] # "queued"
  <2>1. ASSUME NEW a \in Actors, EnqueueWaiting(a), arg[a] = j PROVE Held(j)'
    <3>1. j \in ToSet(queue')
      BY <1>1, <2>1, WaitingSet
    <3> QED
      BY <3>1 DEF Held
  <2>2. ASSUME NEW t \in Threads, AcquireRefused(t), arg[t] = j PROVE Held(j)'
    <3>1. pc'[t] = "waiting" /\ arg'[t] = j
      BY <1>1, <1>2, <2>2 DEF AcquireRefused, Goto, TypeInv, TypeOK
    <3> QED
      BY <1>2, <3>1 DEF Held, HoldPoints
  <2>3. ASSUME NEW t \in Threads, ReturnedRow(t), arg[t] = j, status[j] # "deleted"
        PROVE  Held(j)'
    <3>1. Held(j)
      BY <1>1, <2>3 DEF ReturnedIsHeld, ReturnedRow
    <3>2. \A u \in Threads : ~ChildExited(u) /\ ~JobTimedOut(u)
      BY <1>1, <2>3 DEF ReturnedRow, ChildExited, JobTimedOut, Alive, TypeInv, TypeOK
    <3> QED
      BY <1>1, <1>3, <2>3, <3>1, <3>2, HeldStep
  <2>4. ~CreateJob(j)
    BY <1>1 DEF CreateJob, TypeInv, TypeOK
  <2> QED
    BY <1>1, <1>6, <2>1, <2>2, <2>3, <2>4, StatusStep
<1> QED
  BY <1>4, <1>5, <1>6

LEMMA TableStep == TableInv /\ [Next]_vars => TableInv'
<1> SUFFICES ASSUME TableInv, [Next]_vars PROVE TableInv'
  OBVIOUS
<1>1. BootInv' /\ SlotInv' /\ NoDuplicates'
  BY BootStep, SlotStep, NoDuplicatesStep DEF TableInv, SlotInv
<1>2. left'["fault"] = 0 /\ left'["timeout"] = 0
  BY NothingLeft DEF TableInv, SlotInv, TypeInv, Kinds
<1> QED
  BY <1>1, <1>2, AbortedStep, EndStep, RunningRowStep, AgainStep, ReturnedRowStep,
     QueuedRowStep DEF TableInv

LEMMA TableInit ==
  ASSUME Budget["fault"] = 0, Budget["timeout"] = 0, Budget["interrupt"] = 0
  PROVE  Init => TableInv
<1> SUFFICES ASSUME Init PROVE TableInv
  OBVIOUS
<1>1. /\ \A a \in Actors : pc[a] = "idle"
      /\ \A t \in Threads : t \in Actors /\ child[t] = "none"
      /\ \A j \in Jobs : status[j] = "none"
      /\ left["fault"] = 0 /\ left["timeout"] = 0
  BY DEF Init, Actors
<1>2. NoDuplicates
  BY DEF Init, NoDuplicates, IsInjective
<1>3. QueuedIsHeld /\ RunningIsHeld
  BY <1>1 DEF QueuedIsHeld, RunningIsHeld
<1>4. ReturnedIsHeld /\ ComputingIsAgain /\ EndIsWritten /\ AbortedForDeploy
  BY <1>1 DEF ReturnedIsHeld, ComputingIsAgain, EndIsWritten, AbortedForDeploy
<1> QED
  BY <1>1, <1>2, <1>3, <1>4, BootInit, SlotInit DEF TableInv

\* Who holds a job has it in the queue, in hand or on the list of the startup handler.
LEMMA TrackedIfHeld == TableInv => QueuedIsTracked
<1> SUFFICES ASSUME TableInv, pc[Boot] # "recover", NEW j \in Jobs, status[j] = "queued"
             PROVE  Tracked(j)
  BY DEF QueuedIsTracked
<1>1. Held(j)
  BY DEF TableInv, QueuedIsHeld
<1>2. ASSUME NEW a \in Actors, arg[a] = j, pc[a] \in HoldPoints PROVE Tracked(j)
  BY <1>2 DEF Tracked, HoldPoints, RunPoints
<1>3. Placed(Boot, j) => Tracked(j)
  BY DEF Placed, Tracked, Actors, RunPoints
<1> QED
  BY <1>1, <1>2, <1>3 DEF Held, Tracked

\* The table and the memory agree, over crashes, deployments, deletions and second
\* starts: a 'queued' row is in the queue, with a thread or with the startup handler, a
\* 'running' row has a thread that will write its end.
THEOREM TableIsTrue ==
  ASSUME Budget["fault"] = 0, Budget["timeout"] = 0, Budget["interrupt"] = 0,
         ~ChildrenSurvive
  PROVE  Spec => []TableAgrees
<1>1. TableInv => TableAgrees
  BY TrackedIfHeld DEF TableInv, RunningIsHeld, RunningIsWorked, TableAgrees
<1> QED
  BY <1>1, TableInit, TableStep, PTL DEF Spec

\* What waits is not forgotten, on the development server, where subprocesses survive
\* a reload and write to the table beside the runner threads, as in production.
THEOREM NoJobIsForgotten ==
  ASSUME Budget["fault"] = 0, Budget["timeout"] = 0, Budget["interrupt"] = 0
  PROVE  Spec => []QueuedIsTracked
BY TrackedIfHeld, TableInit, TableStep, PTL DEF Spec

-----------------------------------------------------------------------------
(* The limit of the queue.  Before the first deployment the only way past   *)
(* MAX_QUEUE_SIZE is the force of the startup handler, which enqueues what  *)
(* the table calls 'queued': the jobs of the queue and one more at most.    *)

LEMMA FiniteTodo ==
  ASSUME ConstantsOK
  PROVE  \A S \in SUBSET Jobs : IsFiniteSet(S) /\ Cardinality(S) \in Nat
<1>1. IsFiniteSet(Jobs)
  BY FS_Interval DEF Jobs, ConstantsOK
<1> QED
  BY <1>1, FS_Subset, FS_CardinalityType

LEMMA WaitingCount ==
  ASSUME NEW S, NEW q \in Seq(S)
  PROVE  IsFiniteSet(ToSet(q)) /\ Cardinality(ToSet(q)) <= Len(q)
<1>1. Len(q) \in Nat /\ DOMAIN q = 1..Len(q)
  OBVIOUS
<1>2. q \in [1..Len(q) -> ToSet(q)] /\ \A x \in ToSet(q) : \E i \in 1..Len(q) : q[i] = x
  BY <1>1 DEF ToSet
<1>3. q \in Surjection(1..Len(q), ToSet(q))
  BY <1>2 DEF Surjection
<1>4. IsFiniteSet(1..Len(q)) /\ Cardinality(1..Len(q)) = Len(q)
  BY <1>1, FS_Interval
<1> QED
  BY <1>3, <1>4, FS_Surjection

\* What the table calls 'queued' waits, is with the startup handler or runs.
LEMMA RowsAreHeld ==
  ASSUME TableInv, drain = "off", pc[Boot] # "recover"
  PROVE  Cardinality(QueuedRows)
           <= Len(queue) + Cardinality(todo) + One(pc[Boot] = "enqueue") + One(Busy)
<1> DEFINE W == ToSet(queue)
           E == IF pc[Boot] = "enqueue" THEN {arg[Boot]} ELSE {}
           R == IF Busy THEN {running} ELSE {}
<1>1. TypeInv /\ OneOwner /\ QueuedIsHeld
  BY DEF TableInv, SlotInv, NoneComputes
<1>2. QueuedRows \subseteq ((W \cup todo) \cup E) \cup R
  <2> SUFFICES ASSUME NEW j \in QueuedRows PROVE j \in ((W \cup todo) \cup E) \cup R
    OBVIOUS
  <2>1. Held(j) /\ j \in Jobs
    BY <1>1 DEF QueuedIsHeld, QueuedRows
  <2>2. ASSUME NEW a \in Actors, arg[a] = j, pc[a] \in OwnPoints PROVE j \in R
    BY <1>1, <2>1, <2>2, NoneIsNoJob DEF OneOwner, Busy, NoneIsNoJob
  <2>3. HoldPoints \subseteq OwnPoints /\ RunPoints \cup {"launch"} \subseteq OwnPoints \cup {"returned"}
    BY DEF HoldPoints, OwnPoints, RunPoints
  <2>4. Placed(Boot, j) => j \in E \cup R
    BY <1>1, <2>2, <2>3 DEF Placed, Actors, OneOwner
  <2> QED
    BY <2>1, <2>2, <2>3, <2>4 DEF Held
<1>3. /\ IsFiniteSet(W) /\ Cardinality(W) <= Len(queue) /\ Cardinality(W) \in Nat
      /\ Len(queue) \in Nat
  BY <1>1, WaitingCount, FS_CardinalityType DEF TypeInv, TypeOK
<1>4. IsFiniteSet(todo) /\ Cardinality(todo) \in Nat
  BY <1>1, FiniteTodo, ConstantsOK DEF TypeInv, TypeOK
<1>5. IsFiniteSet(E) /\ Cardinality(E) = One(pc[Boot] = "enqueue")
  BY FS_EmptySet, FS_Singleton DEF One
<1>6. IsFiniteSet(R) /\ Cardinality(R) = One(Busy)
  BY FS_EmptySet, FS_Singleton DEF One
<1>7. \A S, T : IsFiniteSet(S) /\ IsFiniteSet(T) =>
        /\ IsFiniteSet(S \cup T) /\ Cardinality(S \cup T) \in Nat
        /\ Cardinality(S \cup T) <= Cardinality(S) + Cardinality(T)
  <2> TAKE S, T
  <2> HAVE IsFiniteSet(S) /\ IsFiniteSet(T)
  <2>1. /\ IsFiniteSet(S \cup T) /\ Cardinality(S \cup T) \in Nat
        /\ Cardinality(S) \in Nat /\ Cardinality(T) \in Nat /\ Cardinality(S \cap T) \in Nat
        /\ Cardinality(S \cup T) = Cardinality(S) + Cardinality(T) - Cardinality(S \cap T)
    BY FS_Union, FS_Intersection, FS_CardinalityType
  <2> QED
    BY <2>1
<1>8. One(pc[Boot] = "enqueue") \in Nat /\ One(Busy) \in Nat
  BY DEF One
<1>9. /\ IsFiniteSet(W \cup todo) /\ Cardinality(W \cup todo) \in Nat
      /\ Cardinality(W \cup todo) <= Cardinality(W) + Cardinality(todo)
  BY <1>3, <1>4, <1>7
<1>10. /\ IsFiniteSet((W \cup todo) \cup E) /\ Cardinality((W \cup todo) \cup E) \in Nat
       /\ Cardinality((W \cup todo) \cup E) <= Cardinality(W \cup todo) + Cardinality(E)
  BY <1>5, <1>7, <1>9
<1>11. /\ IsFiniteSet(((W \cup todo) \cup E) \cup R)
       /\ Cardinality(((W \cup todo) \cup E) \cup R) \in Nat
       /\ Cardinality(((W \cup todo) \cup E) \cup R)
            <= Cardinality((W \cup todo) \cup E) + Cardinality(R)
  BY <1>6, <1>7, <1>10
<1>12. /\ Cardinality(QueuedRows) <= Cardinality(((W \cup todo) \cup E) \cup R)
       /\ Cardinality(QueuedRows) \in Nat
  BY <1>2, <1>11, FS_Subset, FS_CardinalityType
<1> QED
  BY <1>3, <1>4, <1>5, <1>6, <1>8, <1>9, <1>10, <1>11, <1>12

\* Between the stop of the server and the recovery nobody writes to the table.
LEMMA RowsStay ==
  ASSUME ~ChildrenSurvive, TableInv, [Next]_vars, pc'[Boot] = "recover"
  PROVE  (pc[Boot] = "recover" \/ StopServer) /\ QueuedRows' = QueuedRows
<1> DEFINE Goal == pc[Boot] = "recover" \/ (StopServer /\ UNCHANGED status)
<1>1. TypeInv /\ PointsOfActors /\ BootAlone /\ AliveIsWaitedFor /\ left["fault"] = 0
  BY DEF TableInv, BootInv, SlotInv
<1>2. Goal
  <2> USE ActorsDistinct DEF ActorsDistinct, PointsOfActors, TypeInv, TypeOK, Actors, RunPoints
  <2>1. ASSUME NEW j \in Jobs, CreateJob(j) PROVE Goal
    BY <2>1, <1>1 DEF CreateJob
  <2>2. ASSUME NEW j \in Jobs, DeleteCheck(j) PROVE Goal
    BY <2>2, <1>1 DEF DeleteCheck
  <2>3. ASSUME DeleteRow PROVE Goal
    BY <2>3, <1>1 DEF DeleteRow, Return
  <2>4. ASSUME NEW s \in Starters, NEW j \in Jobs, StartJob(s, j) PROVE Goal
    BY <2>4, <1>1 DEF StartJob, Spend, Kinds
  <2>5. ASSUME NEW a \in Actors, EnqueueRefused(a) PROVE Goal
    BY <2>5, <1>1 DEF EnqueueRefused, Return, SetStatus
  <2>6. ASSUME NEW a \in Actors, EnqueueWaiting(a) PROVE Goal
    BY <2>6, <1>1 DEF EnqueueWaiting, Return, SetStatus
  <2>7. ASSUME NEW a \in Actors, EnqueueFirst(a) PROVE Goal
    BY <2>7, <1>1 DEF EnqueueFirst, Goto
  <2>8. ASSUME NEW a \in Actors, Launch(a) PROVE Goal
    BY <2>8, <1>1 DEF Launch, SetStatus
  <2>9. ASSUME NEW a \in Actors, NEW j \in Jobs, PopNext(a, j) PROVE Goal
    BY <2>9, <1>1 DEF PopNext
  <2>10. ASSUME NEW a \in Actors, PopNothing(a) PROVE Goal
    BY <2>10, <1>1 DEF PopNothing, Goto
  <2>11. ASSUME NEW a \in Actors, EnqueueFault(a) PROVE Goal
    BY <2>11, <1>1 DEF EnqueueFault, Return, SetStatus, Spend, Kinds
  <2>12. ASSUME NEW a \in Actors, LaunchFault(a) PROVE Goal
    BY <2>12, <1>1 DEF LaunchFault, Return, SetStatus, Spend, Kinds
  <2>13. ASSUME LogFault PROVE Goal
    BY <2>13, <1>1 DEF LogFault, Return, Spend, Kinds
  <2>14. ASSUME NEW t \in Threads, ResponseFault(t) PROVE Goal
    BY <2>14, <1>1 DEF ResponseFault, SetStatus, Spend, Kinds
  <2>15. ASSUME NEW t \in Threads, DirMissing(t) PROVE Goal
    BY <2>15, <1>1 DEF DirMissing, Goto
  <2>16. ASSUME NEW t \in Threads, RunBegin(t) PROVE Goal
    BY <2>16, <1>1 DEF RunBegin, Goto
  <2>17. ASSUME NEW t \in Threads, Acquire(t) PROVE Goal
    BY <2>17, <1>1 DEF Acquire, Goto
  <2>18. ASSUME NEW t \in Threads, AcquireRefused(t) PROVE Goal
    BY <2>18, <1>1 DEF AcquireRefused, Goto, SetStatus
  <2>19. ASSUME NEW t \in Threads, AcquireAborted(t) PROVE Goal
    BY <2>19, <1>1 DEF AcquireAborted, Goto
  <2>20. ASSUME NEW t \in Threads, NotAcquired(t) PROVE Goal
    BY <2>20, <1>1 DEF NotAcquired, Goto
  <2>21. ASSUME NEW t \in Threads, Acquired(t) PROVE Goal
    BY <2>21, <1>1 DEF Acquired, Goto, SetStatus
  <2>22. ASSUME NEW t \in Threads, Spawn(t) PROVE Goal
    BY <2>22, <1>1 DEF Spawn, Goto
  <2>23. ASSUME NEW t \in Threads, ChildExited(t) PROVE Goal
    BY <2>23, <1>1 DEF ChildExited, Goto, FailIfRunning
  <2>24. ASSUME NEW t \in Threads, RunError(t) PROVE Goal
    BY <2>24, <1>1 DEF RunError, Goto, FailIfRunning
  <2>25. ASSUME NEW t \in Threads, ReturnToQueue(t) PROVE Goal
    BY <2>25, <1>1 DEF ReturnToQueue, Goto
  <2>26. ASSUME NEW t \in Threads, ReturnedRow(t) PROVE Goal
    BY <2>26, <1>1 DEF ReturnedRow, Goto, SetStatus
  <2>27. ASSUME NEW t \in Threads, ReleaseSlot(t) PROVE Goal
    BY <2>27, <1>1 DEF ReleaseSlot, Goto
  <2>28. ASSUME NEW t \in Threads, ClearRunning(t) PROVE Goal
    BY <2>28, <1>1 DEF ClearRunning
  <2>29. ASSUME NEW t \in Threads, NextCheck(t) PROVE Goal
    BY <2>29, <1>1 DEF NextCheck, Goto
  <2>30. ASSUME NEW t \in Threads, AcquireTimedOut(t) PROVE Goal
    BY <2>30, <1>1 DEF AcquireTimedOut, Goto, Spend, Kinds
  <2>31. ASSUME NEW t \in Threads, JobTimedOut(t) PROVE Goal
    BY <2>31, <1>1 DEF JobTimedOut, Goto, FailIfRunning
  <2>32. ASSUME NEW t \in Threads, ChildStart(t) PROVE Goal
    BY <2>32, <1>1 DEF ChildStart, ChildStep, SetStatus
  <2>33. ASSUME NEW t \in Threads, ChildNoJob(t) PROVE Goal
    BY <2>33, <1>1 DEF ChildNoJob, ChildStep, SetStatus
  <2>34. ASSUME NEW t \in Threads, ChildDone(t) PROVE Goal
    BY <2>34, <1>1 DEF ChildDone, ChildStep, SetStatus
  <2>35. ASSUME NEW t \in Threads, ChildFail(t) PROVE Goal
    BY <2>35, <1>1 DEF ChildFail, ChildStep, SetStatus
  <2>36. ASSUME NEW t \in Threads, ChildExit(t) PROVE Goal
    BY <2>36, <1>1 DEF ChildExit, ChildStep, SetStatus
  <2>37. ASSUME NEW t \in Threads, ChildKilled(t) PROVE Goal
    BY <2>37, <1>1 DEF ChildKilled, ChildStep, SetStatus
  <2>38. ASSUME NEW t \in Threads, RunFault(t) PROVE Goal
    BY <2>38, <1>1 DEF RunFault, Goto, Spend, Kinds
  <2>39. ASSUME NEW t \in Threads, WaitFault(t) PROVE Goal
    BY <2>39, <1>1 DEF WaitFault, Goto, Spend, Kinds
  <2>40. ASSUME NEW t \in Threads, ChildFault(t) PROVE Goal
    BY <2>40, <1>1 DEF ChildFault, Spend, SetStatus, Kinds
  <2>41. ASSUME WatchTick PROVE Goal
    BY <2>41, <1>1 DEF WatchTick, Goto
  <2>42. ASSUME Crash PROVE Goal
    BY <2>42 DEF Crash
  <2>43. ASSUME Recover PROVE Goal
    BY <2>43, <1>1 DEF Recover, Goto
  <2>44. ASSUME NEW j \in Jobs, Requeue(j) PROVE Goal
    BY <2>44, <1>1 DEF Requeue
  <2>45. ASSUME BootDone PROVE Goal
    BY <2>45, <1>1 DEF BootDone, Goto
  <2>46. ASSUME DeployBegin PROVE Goal
    BY <2>46, <1>1 DEF DeployBegin, Spend, Kinds
  <2>47. ASSUME DeployFindsIdle PROVE Goal
    BY <2>47, <1>1 DEF DeployFindsIdle
  <2>48. ASSUME DeployRestart PROVE Goal
    BY <2>48 DEF DeployRestart
  <2>49. ASSUME DeployRestartUnheard PROVE Goal
    BY <2>49 DEF DeployRestartUnheard
  <2>50. ASSUME DeployEnd PROVE Goal
    BY <2>50, <1>1 DEF DeployEnd
  <2>51. ASSUME DeployGivesUp PROVE Goal
    BY <2>51, <1>1 DEF DeployGivesUp
  <2>52. ASSUME DeployInterrupted PROVE Goal
    BY <2>52, <1>1 DEF DeployInterrupted, Spend, Kinds
  <2>53. ASSUME OtherTakes PROVE Goal
    BY <2>53, <1>1 DEF OtherTakes, Spend, Kinds
  <2>54. ASSUME OtherReleases PROVE Goal
    BY <2>54, <1>1 DEF OtherReleases
  <2>55. ASSUME Quiet PROVE Goal
    BY <2>55, <1>1 DEF Quiet, vars
  <2>56. CASE UNCHANGED vars
    BY <2>56, <1>1 DEF vars
  <2> QED
    BY <2>1, <2>2, <2>3, <2>4, <2>5, <2>6, <2>7, <2>8, <2>9, <2>10, <2>11, <2>12, <2>13,
       <2>14, <2>15, <2>16, <2>17, <2>18, <2>19, <2>20, <2>21, <2>22, <2>23, <2>24, <2>25,
       <2>26, <2>27, <2>28, <2>29, <2>30, <2>31, <2>32, <2>33, <2>34, <2>35, <2>36, <2>37,
       <2>38, <2>39, <2>40, <2>41, <2>42, <2>43, <2>44, <2>45, <2>46, <2>47, <2>48, <2>49,
       <2>50, <2>51, <2>52, <2>53, <2>54, <2>55, <2>56
       DEF Next, Enqueue, RunStep, ChildWork, Startup, Pop
<1>3. CASE pc[Boot] # "recover"
  BY <1>2, <1>3 DEF QueuedRows
<1>4. CASE pc[Boot] = "recover"
  <2>1. \A a \in Actors : pc[a] \in {"idle", "recover"}
    BY <1>1, <1>4 DEF BootAlone, Actors
  <2>2. \A t \in Threads : child[t] \notin Alive
    BY <1>1, <1>4 DEF BootAlone, AliveIsWaitedFor
  <2>3. ~Recover
    BY <1>1 DEF Recover, Goto, TypeInv, TypeOK, Actors
  <2>4. ASSUME NEW j \in Jobs, status'[j] # status[j] PROVE FALSE
    BY <1>1, <1>4, <2>1, <2>2, <2>3, <2>4, StatusStep
       DEF CreateJob, Up, DeleteRow, EnqueueRefused, EnqueueWaiting, Launch, AcquireRefused,
           Acquired, ChildExited, JobTimedOut, RunError, ReturnedRow, ChildStart, ChildDone,
           ChildFail, ChildStep, Alive, Actors
  <2> QED
    BY <1>4, <2>4 DEF QueuedRows
<1> QED
  BY <1>2, <1>3, <1>4

LEMMA RoomStep ==
  ASSUME TableInv, [Next]_vars, ~StopServer, drain = "off",
         Len(queue) <= MaxQueue, Room,
         pc[Boot] = "recover" => Cardinality(QueuedRows) <= MaxQueue + 1
  PROVE  Len(queue') <= MaxQueue /\ Room'
<1> DEFINE Goal == Len(queue') <= MaxQueue /\ Room'
<1> /\ TypeInv /\ PointsOfActors /\ BootAlone /\ TodoIsAhead /\ NoDuplicates /\ ReturnsForDeploy
    /\ left["fault"] = 0
  BY DEF TableInv, BootInv, SlotInv
<1> Len(queue) \in Nat /\ MaxQueue \in Nat /\ IsFiniteSet(todo) /\ Cardinality(todo) \in Nat
  BY FiniteTodo, ConstantsOK DEF TypeInv, TypeOK, ConstantsOK
<1> USE ActorsDistinct, NoneIsNoJob, ConstantsOK
        DEF ActorsDistinct, TypeInv, TypeOK, Actors, PointsOfActors, RunPoints, One, Busy, Room,
            NoneIsNoJob
<1>1. ASSUME NEW j \in Jobs, CreateJob(j) PROVE Goal
  BY <1>1 DEF CreateJob
<1>2. ASSUME NEW j \in Jobs, DeleteCheck(j) PROVE Goal
  BY <1>2 DEF DeleteCheck
<1>3. ASSUME DeleteRow PROVE Goal
  BY <1>3 DEF DeleteRow, Return
<1>4. ASSUME NEW s \in Starters, NEW j \in Jobs, StartJob(s, j) PROVE Goal
  BY <1>4 DEF StartJob, Spend, Kinds
<1>5. ASSUME NEW a \in Actors, EnqueueRefused(a) PROVE Goal
  BY <1>5 DEF EnqueueRefused, Return, SetStatus
<1>6. ASSUME NEW a \in Actors, EnqueueWaiting(a) PROVE Goal
  <2>1. Len(queue') \in {Len(queue), Len(queue) + 1}
    BY <1>6, WaitingSet
  <2>2. CASE a = Boot
    <3>1. Busy /\ UNCHANGED <<running, todo>> /\ pc[Boot] = "enqueue" /\ pc'[Boot] = "requeue"
      BY <1>6, <2>2 DEF EnqueueWaiting, Return, Draining, Actors
    <3> QED
      BY <2>1, <3>1
  <2>3. CASE a # Boot
    <3>1. pc[a] = "enqueue" /\ Len(queue) < MaxQueue
      BY <1>6, <2>3 DEF EnqueueWaiting, Full
    <3>2. a \in Starters \cup {Loop} /\ pc[Boot] = "idle"
      BY <2>3, <3>1 DEF BootAlone
    <3>3. pc'[Boot] = "idle"
      BY <1>6, <2>3, <3>2 DEF EnqueueWaiting, Return
    <3> QED
      BY <2>1, <3>1, <3>3
  <2> QED
    BY <2>2, <2>3
<1>7. ASSUME NEW a \in Actors, EnqueueFirst(a) PROVE Goal
  <2>1. ~Busy /\ UNCHANGED <<queue, todo>> /\ pc[a] = "enqueue" /\ pc'[a] = "launch"
    BY <1>7 DEF EnqueueFirst, Goto
  <2>2. a = Boot \/ (pc[Boot] = "idle" /\ pc'[Boot] = "idle")
    BY <1>7, <2>1 DEF EnqueueFirst, Goto, BootAlone, PointsOfActors, RunPoints, Actors
  <2> QED
    BY <2>1, <2>2
<1>8. ASSUME NEW a \in Actors, Launch(a) PROVE Goal
  <2>1. UNCHANGED <<running, queue, todo>> /\ pc'[Boot] \in {pc[Boot], "requeue"}
    BY <1>8 DEF Launch, Actors
  <2>2. pc[Boot] = "idle" => pc'[Boot] = "idle"
    BY <1>8, ActorsDistinct DEF Launch, Actors, ActorsDistinct
  <2>3. pc'[Boot] # "enqueue" \/ pc[Boot] = "enqueue"
    BY <2>1
  <2> QED
    BY <2>1, <2>2, <2>3
<1>9. ASSUME NEW a \in Actors, NEW j \in Jobs, PopNext(a, j) PROVE Goal
  <2>1. Len(queue') = Len(queue) - 1
    BY <1>9, PoppedSet
  <2>2. ~Busy /\ UNCHANGED todo /\ pc'[Boot] = pc[Boot]
    BY <1>9 DEF PopNext, PointsOfActors, Actors
  <2> QED
    BY <2>1, <2>2
<1>10. ASSUME NEW a \in Actors, PopNothing(a) PROVE Goal
  BY <1>10 DEF PopNothing, Goto
<1>11. ASSUME NEW a \in Actors, EnqueueFault(a) PROVE Goal
  BY <1>11 DEF EnqueueFault, Spend
<1>12. ASSUME NEW a \in Actors, LaunchFault(a) PROVE Goal
  BY <1>12 DEF LaunchFault, Return, SetStatus, Spend, Kinds
<1>13. ASSUME LogFault PROVE Goal
  BY <1>13 DEF LogFault, Return, Spend, Kinds
<1>14. ASSUME NEW t \in Threads, ResponseFault(t) PROVE Goal
  BY <1>14 DEF ResponseFault, SetStatus, Spend, Kinds
<1>15. ASSUME NEW t \in Threads, DirMissing(t) PROVE Goal
  BY <1>15 DEF DirMissing, Goto
<1>16. ASSUME NEW t \in Threads, RunBegin(t) PROVE Goal
  BY <1>16 DEF RunBegin, Goto
<1>17. ASSUME NEW t \in Threads, Acquire(t) PROVE Goal
  BY <1>17 DEF Acquire, Goto
<1>18. ASSUME NEW t \in Threads, AcquireRefused(t) PROVE Goal
  BY <1>18 DEF AcquireRefused, Goto, SetStatus
<1>19. ASSUME NEW t \in Threads, AcquireAborted(t) PROVE Goal
  BY <1>19 DEF AcquireAborted, Goto
<1>20. ASSUME NEW t \in Threads, NotAcquired(t) PROVE Goal
  BY <1>20 DEF NotAcquired, Goto
<1>21. ASSUME NEW t \in Threads, Acquired(t) PROVE Goal
  BY <1>21 DEF Acquired, Goto, SetStatus
<1>22. ASSUME NEW t \in Threads, Spawn(t) PROVE Goal
  BY <1>22 DEF Spawn, Goto
<1>23. ASSUME NEW t \in Threads, ChildExited(t) PROVE Goal
  BY <1>23 DEF ChildExited, Goto, FailIfRunning
<1>24. ASSUME NEW t \in Threads, RunError(t) PROVE Goal
  BY <1>24 DEF RunError, Goto, FailIfRunning
<1>25. ASSUME NEW t \in Threads, ReturnToQueue(t) PROVE Goal
  BY <1>25 DEF ReturnToQueue, ReturnsForDeploy, Actors
<1>26. ASSUME NEW t \in Threads, ReturnedRow(t) PROVE Goal
  BY <1>26 DEF ReturnedRow, Goto, SetStatus
<1>27. ASSUME NEW t \in Threads, ReleaseSlot(t) PROVE Goal
  BY <1>27 DEF ReleaseSlot, Goto
<1>28. ASSUME NEW t \in Threads, ClearRunning(t) PROVE Goal
  BY <1>28 DEF ClearRunning
<1>29. ASSUME NEW t \in Threads, NextCheck(t) PROVE Goal
  BY <1>29 DEF NextCheck, Goto
<1>30. ASSUME NEW t \in Threads, AcquireTimedOut(t) PROVE Goal
  BY <1>30 DEF AcquireTimedOut, Goto, Spend, Kinds
<1>31. ASSUME NEW t \in Threads, JobTimedOut(t) PROVE Goal
  BY <1>31 DEF JobTimedOut, Goto, FailIfRunning
<1>32. ASSUME NEW t \in Threads, ChildStart(t) PROVE Goal
  BY <1>32 DEF ChildStart, ChildStep, SetStatus
<1>33. ASSUME NEW t \in Threads, ChildNoJob(t) PROVE Goal
  BY <1>33 DEF ChildNoJob, ChildStep, SetStatus
<1>34. ASSUME NEW t \in Threads, ChildDone(t) PROVE Goal
  BY <1>34 DEF ChildDone, ChildStep, SetStatus
<1>35. ASSUME NEW t \in Threads, ChildFail(t) PROVE Goal
  BY <1>35 DEF ChildFail, ChildStep, SetStatus
<1>36. ASSUME NEW t \in Threads, ChildExit(t) PROVE Goal
  BY <1>36 DEF ChildExit, ChildStep, SetStatus
<1>37. ASSUME NEW t \in Threads, ChildKilled(t) PROVE Goal
  BY <1>37 DEF ChildKilled, ChildStep, SetStatus
<1>38. ASSUME NEW t \in Threads, RunFault(t) PROVE Goal
  BY <1>38 DEF RunFault, Goto, Spend, Kinds
<1>39. ASSUME NEW t \in Threads, WaitFault(t) PROVE Goal
  BY <1>39 DEF WaitFault, Goto, Spend, Kinds
<1>40. ASSUME NEW t \in Threads, ChildFault(t) PROVE Goal
  BY <1>40 DEF ChildFault, Spend, SetStatus, Kinds
<1>41. ASSUME WatchTick PROVE Goal
  BY <1>41 DEF WatchTick, Goto
<1>42. ASSUME Crash PROVE Goal
  BY <1>42 DEF Crash
<1>43. ASSUME Recover PROVE Goal
  <2>1. /\ todo' = QueuedRows /\ UNCHANGED queue /\ ~Busy'
        /\ pc[Boot] = "recover" /\ pc'[Boot] = "requeue"
    BY <1>43 DEF Recover, Goto, QueuedRows, Actors, BootAlone
  <2>2. Len(queue) = 0
    BY <2>1 DEF BootAlone
  <2>3. Cardinality(QueuedRows) <= MaxQueue + 1 /\ Cardinality(QueuedRows) \in Nat
    BY <2>1, FiniteTodo DEF LimitInv, QueuedRows
  <2> QED
    BY <2>1, <2>2, <2>3
<1>44. ASSUME NEW j \in Jobs, Requeue(j) PROVE Goal
  <2>1. j \in todo /\ j # running /\ j \notin ToSet(queue)
    BY <1>44 DEF Requeue, TodoIsAhead
  <2>2. Cardinality(todo') = Cardinality(todo) - 1
    BY <1>44, <2>1, FS_RemoveElement DEF Requeue
  <2>3. pc'[Boot] = "enqueue" /\ pc[Boot] = "requeue" /\ UNCHANGED <<queue, running>>
    BY <1>44, <2>1 DEF Requeue, Actors
  <2> QED
    BY <2>2, <2>3
<1>45. ASSUME BootDone PROVE Goal
  BY <1>45 DEF BootDone, Goto
<1>46. ASSUME DeployBegin PROVE Goal
  BY <1>46 DEF DeployBegin, Spend, Kinds
<1>47. ASSUME DeployFindsIdle PROVE Goal
  BY <1>47 DEF DeployFindsIdle
<1>48. ASSUME DeployRestart PROVE Goal
  BY <1>48 DEF DeployRestart
<1>49. ASSUME DeployRestartUnheard PROVE Goal
  BY <1>49 DEF DeployRestartUnheard
<1>50. ASSUME DeployEnd PROVE Goal
  BY <1>50 DEF DeployEnd
<1>51. ASSUME DeployGivesUp PROVE Goal
  BY <1>51 DEF DeployGivesUp
<1>52. ASSUME DeployInterrupted PROVE Goal
  BY <1>52 DEF DeployInterrupted, Spend, Kinds
<1>53. ASSUME OtherTakes PROVE Goal
  BY <1>53 DEF OtherTakes, Spend, Kinds
<1>54. ASSUME OtherReleases PROVE Goal
  BY <1>54 DEF OtherReleases
<1>55. ASSUME Quiet PROVE Goal
  BY <1>55 DEF Quiet, vars
<1>56. CASE UNCHANGED vars
  BY <1>56 DEF vars
<1> QED
  BY <1>1, <1>2, <1>3, <1>4, <1>5, <1>6, <1>7, <1>8, <1>9, <1>10, <1>11, <1>12, <1>13,
     <1>14, <1>15, <1>16, <1>17, <1>18, <1>19, <1>20, <1>21, <1>22, <1>23, <1>24, <1>25,
     <1>26, <1>27, <1>28, <1>29, <1>30, <1>31, <1>32, <1>33, <1>34, <1>35, <1>36, <1>37,
     <1>38, <1>39, <1>40, <1>41, <1>42, <1>43, <1>44, <1>45, <1>46, <1>47, <1>48, <1>49,
     <1>50, <1>51, <1>52, <1>53, <1>54, <1>55, <1>56
     DEF Next, Enqueue, RunStep, ChildWork, Startup, Pop

LEMMA LimitStep ==
  ASSUME ~ChildrenSurvive
  PROVE  LimitInv /\ [Next]_vars => LimitInv'
<1> SUFFICES ASSUME LimitInv, [Next]_vars PROVE LimitInv'
  OBVIOUS
<1>1. TableInv' /\ TypeInv /\ TableInv
  BY TableStep DEF LimitInv, TableInv, SlotInv
<1>2. left'["deploy"] <= left["deploy"] /\ left["deploy"] \in Nat /\ Budget["deploy"] \in Nat
  <2>1. left \in [Kinds -> Nat] /\ Budget \in [Kinds -> Nat] /\ "deploy" \in Kinds
    BY <1>1, ConstantsOK DEF TypeInv, TypeOK, ConstantsOK, Kinds
  <2>2. ASSUME NEW kind \in Kinds, Spend(kind) PROVE left'["deploy"] <= left["deploy"]
    BY <2>1, <2>2 DEF Spend
  <2> QED
    BY <2>1, <2>2, SpendOrNot
<1>3. left'["deploy"] \in Nat
  BY <1>1 DEF TableInv, SlotInv, TypeInv, TypeOK, Kinds
<1>4. left'["deploy"] <= Budget["deploy"]
  BY <1>2, <1>3 DEF LimitInv
<1>5. ASSUME left'["deploy"] = Budget["deploy"]
      PROVE  /\ drain' = "off" /\ Len(queue') <= MaxQueue /\ Room'
             /\ pc'[Boot] = "recover" => Cardinality(QueuedRows') <= MaxQueue + 1
  <2>1. left["deploy"] = Budget["deploy"]
    BY <1>2, <1>3, <1>5 DEF LimitInv
  <2>2. /\ drain = "off" /\ Len(queue) <= MaxQueue /\ Room
        /\ pc[Boot] = "recover" => Cardinality(QueuedRows) <= MaxQueue + 1
    BY <2>1 DEF LimitInv
  <2>3. ~DeployBegin
    BY <1>1, <1>2, <1>3, <1>5, <2>1 DEF DeployBegin, Spend, TypeInv, TypeOK, Kinds
  <2>4. drain' = "off"
    BY <1>1, <2>2, <2>3, DrainStep
       DEF DeployFindsIdle, DeployRestart, DeployRestartUnheard, DeployEnd, DeployGivesUp,
           DeployInterrupted, Draining
  <2>5. CASE StopServer
    <3>1. pc'[Boot] = "recover"
      BY <1>1, <2>5 DEF StopServer, Actors
    <3>2. QueuedRows' = QueuedRows
      BY <1>1, <3>1, RowsStay
    <3>3. /\ Len(queue') = 0 /\ Cardinality(todo') = 0 /\ ~Busy' /\ pc'[Boot] = "recover"
      BY <1>1, <2>5, FS_EmptySet DEF StopServer, Busy, Actors
    <3>4. CASE pc[Boot] = "recover"
      BY <2>2, <2>4, <3>2, <3>3, <3>4, ConstantsOK DEF Room, One, ConstantsOK
    <3>5. CASE pc[Boot] # "recover"
      <4>1. Cardinality(QueuedRows)
              <= Len(queue) + Cardinality(todo) + One(pc[Boot] = "enqueue") + One(Busy)
        BY <1>1, <2>2, <3>5, RowsAreHeld
      <4>2. /\ Cardinality(QueuedRows) \in Nat /\ Cardinality(todo) \in Nat
            /\ Len(queue) \in Nat
        BY <1>1, FiniteTodo, ConstantsOK DEF QueuedRows, TypeInv, TypeOK
      <4>3. pc[Boot] = "idle" => Cardinality(todo) = 0
        BY <1>1, FS_EmptySet DEF TableInv, BootInv, TodoIsAhead
      <4>4. Cardinality(QueuedRows) <= MaxQueue + 1
        BY <2>2, <4>1, <4>2, <4>3, ConstantsOK DEF Room, One, ConstantsOK
      <4> QED
        BY <2>4, <3>2, <3>3, <4>4, ConstantsOK DEF Room, One, ConstantsOK
    <3> QED
      BY <3>4, <3>5
  <2>6. CASE ~StopServer
    <3>1. Len(queue') <= MaxQueue /\ Room'
      BY <1>1, <2>2, <2>6, RoomStep
    <3>2. pc'[Boot] = "recover" => Cardinality(QueuedRows') <= MaxQueue + 1
      BY <1>1, <2>2, <2>6, RowsStay
    <3> QED
      BY <2>4, <3>1, <3>2
  <2> QED
    BY <2>5, <2>6
<1> QED
  BY <1>1, <1>4, <1>5 DEF LimitInv

\* Before the first deployment MAX_QUEUE_SIZE bounds the queue, over crashes and the
\* forced requeue of the startup handler.
THEOREM QueueIsBounded ==
  ASSUME Budget["fault"] = 0, Budget["timeout"] = 0, Budget["interrupt"] = 0,
         ~ChildrenSurvive
  PROVE  Spec => []QueueBound
<1>1. Init => LimitInv
  <2> SUFFICES ASSUME Init PROVE LimitInv
    OBVIOUS
  <2>1. TableInv
    BY TableInit
  <2>2. /\ left["deploy"] = Budget["deploy"] /\ Budget["deploy"] \in Nat /\ drain = "off"
        /\ Len(queue) = 0 /\ pc[Boot] = "idle"
    BY ConstantsOK DEF Init, ConstantsOK, Kinds, Actors
  <2> QED
    BY <2>1, <2>2, ConstantsOK DEF LimitInv, Room, ConstantsOK
<1>2. LimitInv => QueueBound
  BY DEF LimitInv, QueueBound
<1> QED
  BY <1>1, <1>2, LimitStep, PTL DEF Spec

=============================================================================
