-------------------------- MODULE MCJobProcess_proofs --------------------------
(***************************************************************************)
(* The theorems about what the subprocess of a job does.                   *)
(*                                                                         *)
(* One run of the pipeline: FlowInv, about the order in which tasks start, *)
(* end and are waited for, is inductive by itself; what is there and what  *)
(* was reported (ResultOK) does not come into it.  The two properties      *)
(* about waiting and reading follow from it.  That every missing part is   *)
(* reported takes another invariant on top of it, ReportInv: what a step   *)
(* has behind it is there, or in the issues.                               *)
(*                                                                         *)
(* The parts together: a step of one part leaves the variables of the      *)
(* others alone, so the inductive invariants RunInv, MailInv and RoadInv   *)
(* are kept by every step of MCSpec, for any bounds.  The roads are here   *)
(* the networks of MCJobProcess, in RoadStrokes_proofs any.                *)
(***************************************************************************)
EXTENDS MCJobProcess, TLAPS

-----------------------------------------------------------------------------
(* One run of the pipeline. *)

\* At the start nothing has begun.
LEMMA InitFlow == Init => FlowInv /\ ResultOK
<1> SUFFICES ASSUME Init PROVE FlowInv /\ ResultOK
  OBVIOUS
<1> USE RunConstantsOK DEF FlowInv, FlowOK, NoMapsYet, WaitsAreOver, ShadeFirst, InOrder, MapsInOrder,
       FromJoin, FromMaps, FromAopk, FromRuian, FromRefs, FromOsm,
       FromChm, FromSheets, FromZabaged,
       Settled, Deferred, Step, mapping, Maps, AllMaps, Tasks, MapStates, Behind, Init, Parts, Messages
<1>1. FlowOK
  BY DEF MainPoints
<1>2. NoMapsYet /\ WaitsAreOver
  OBVIOUS
<1>3. ShadeFirst /\ InOrder /\ MapsInOrder
  OBVIOUS
<1>4. ResultOK
  BY DEF ResultOK
<1> QED
  BY <1>1, <1>2, <1>3, <1>4

\* The main thread before the package: each start comes before its wait.
LEMMA PrepareFlow == ASSUME FlowInv, Prepare PROVE FlowInv'
<1> USE RunConstantsOK DEF FlowInv, FlowOK, NoMapsYet, WaitsAreOver, ShadeFirst, InOrder, MapsInOrder,
       FromJoin, FromMaps, FromAopk, FromRuian, FromRefs, FromOsm,
       FromChm, FromSheets, FromZabaged,
       Settled, Deferred, Step, mapping, Maps, AllMaps, Tasks, MapStates, Behind, MainPoints
<1>1. CASE StartThreads
  BY <1>1 DEF StartThreads, Start
<1>2. CASE StartLidar
  BY <1>2 DEF StartLidar, Start
<1>3. CASE TakeZabaged
  BY <1>3 DEF TakeZabaged
<1>4. CASE StartReferences
  BY <1>4 DEF StartReferences, Start
<1>5. CASE MergeLidar
  BY <1>5 DEF MergeLidar
<1>6. CASE StartSurfaces
  BY <1>6 DEF StartSurfaces, Start
<1>7. CASE AllSheets
  BY <1>7 DEF AllSheets
<1>8. CASE Contours
  BY <1>8 DEF Contours
<1>9. CASE VegetationStart
  BY <1>9 DEF VegetationStart
<1>10. CASE TakeSurfaces
  BY <1>10 DEF TakeSurfaces
<1>11. CASE Landforms
  BY <1>11 DEF Landforms
<1>12. CASE TakeOsm
  BY <1>12 DEF TakeOsm
<1>13. CASE TakeShade
  BY <1>13 DEF TakeShade
<1> QED
  BY <1>1, <1>2, <1>3, <1>4, <1>5, <1>6, <1>7, <1>8, <1>9, <1>10, <1>11, <1>12, <1>13 DEF Prepare

\* The main thread from the package on: before the maps are built, the tasks that
\* they read are settled; before the end, those of the package.
LEMMA PackageFlow == ASSUME FlowInv, PackageOutput PROVE FlowInv'
<1> USE RunConstantsOK DEF FlowInv, FlowOK, NoMapsYet, WaitsAreOver, ShadeFirst, InOrder, MapsInOrder,
       FromJoin, FromMaps, FromAopk, FromRuian, FromRefs, FromOsm,
       FromChm, FromSheets, FromZabaged,
       Settled, Deferred, Step, mapping, Maps, AllMaps, Tasks, MapStates, Behind
<1>1. CASE Package
  BY <1>1 DEF Package, MainPoints
<1>2. CASE JoinNow
  BY <1>2 DEF JoinNow, JoinRefs, MainPoints
<1>3. CASE TakeVector("ruian", "aopk")
  BY <1>3 DEF TakeVector, MainPoints
<1>4. CASE TakeVector("aopk", "dtm")
  BY <1>4 DEF TakeVector, MainPoints
<1>5. CASE TakeDtm
  BY <1>5 DEF TakeDtm, MainPoints
<1>6. CASE BuildMaps
  <2>1. joined' \in BOOLEAN /\ refsFile' \in BOOLEAN
    BY <1>6 DEF BuildMaps
  <2>2. FlowOK'
    <3>1. pc' \in MainPoints
      BY <1>6 DEF BuildMaps, MainPoints
    <3>2. map' \in [AllMaps -> MapStates]
      BY <1>6 DEF BuildMaps
    <3>3. sprint' \in BOOLEAN /\ task' = task /\ shadeDone' \in BOOLEAN
          /\ join' \in {"none", "run", "write", "ok", "failed"}
      BY <1>6 DEF BuildMaps
    <3> QED
      BY <2>1, <3>1, <3>2, <3>3
  <2>3. NoMapsYet' /\ WaitsAreOver'
    BY <1>6 DEF BuildMaps
  <2>4. ShadeFirst' /\ InOrder'
    BY <1>6 DEF BuildMaps
  <2>5. MapsInOrder'
    BY <1>6 DEF BuildMaps
  <2> QED
    BY <2>2, <2>3, <2>4, <2>5
<1>7. CASE SerialEnd
  BY <1>7 DEF SerialEnd, Todo, InHand, MainPoints
<1>8. CASE Collect
  BY <1>8 DEF Collect, MainPoints
<1>9. CASE AwaitJoinThread
  BY <1>9 DEF AwaitJoinThread, MainPoints
<1>10. CASE AwaitPump
  <2>1. joined' \in BOOLEAN /\ refsFile' \in BOOLEAN
    BY <1>10 DEF AwaitPump, Todo, InHand
  <2>2. FlowOK'
    <3>1. pc' \in MainPoints
      BY <1>10 DEF AwaitPump, Todo, InHand, MainPoints
    <3>2. map' \in [AllMaps -> MapStates]
      BY <1>10 DEF AwaitPump, Todo, InHand
    <3>3. sprint' \in BOOLEAN /\ task' = task /\ shadeDone' \in BOOLEAN
          /\ join' \in {"none", "run", "write", "ok", "failed"}
      BY <1>10 DEF AwaitPump, Todo, InHand
    <3> QED
      BY <2>1, <3>1, <3>2, <3>3
  <2>3. NoMapsYet' /\ WaitsAreOver'
    BY <1>10 DEF AwaitPump, Todo, InHand
  <2>4. ShadeFirst' /\ InOrder'
    BY <1>10 DEF AwaitPump, Todo, InHand
  <2>5. MapsInOrder'
    BY <1>10 DEF AwaitPump, Todo, InHand
  <2> QED
    BY <2>2, <2>3, <2>4, <2>5
<1>11. CASE JoinLast
  <2>1. joined' \in BOOLEAN /\ refsFile' \in BOOLEAN
    BY <1>11 DEF JoinLast, JoinRefs
  <2>2. FlowOK'
    <3>1. pc' \in MainPoints
      BY <1>11 DEF JoinLast, JoinRefs, MainPoints
    <3>2. map' \in [AllMaps -> MapStates]
      BY <1>11 DEF JoinLast, JoinRefs
    <3>3. sprint' \in BOOLEAN /\ task' = task /\ shadeDone' \in BOOLEAN
          /\ join' \in {"none", "run", "write", "ok", "failed"}
      BY <1>11 DEF JoinLast, JoinRefs
    <3> QED
      BY <2>1, <3>1, <3>2, <3>3
  <2>3. NoMapsYet' /\ WaitsAreOver'
    BY <1>11 DEF JoinLast, JoinRefs
  <2>4. ShadeFirst' /\ InOrder'
    BY <1>11 DEF JoinLast, JoinRefs
  <2>5. MapsInOrder'
    BY <1>11 DEF JoinLast, JoinRefs
  <2> QED
    BY <2>2, <2>3, <2>4, <2>5
<1>12. CASE Preview
  BY <1>12 DEF Preview, MainPoints
<1>13. CASE Zip
  BY <1>13 DEF Zip, MainPoints
<1>14. CASE ReportIssues
  BY <1>14 DEF ReportIssues, MainPoints
<1> QED
  BY <1>1, <1>2, <1>3, <1>4, <1>5, <1>6, <1>7, <1>8, <1>9, <1>10, <1>11, <1>12, <1>13, <1>14 DEF PackageOutput

\* Maps in the main thread: one is written after the references are joined.
LEMMA SerialFlow == ASSUME FlowInv, NEW d \in AllMaps, Serial(d) PROVE FlowInv'
<1> USE RunConstantsOK DEF FlowInv, FlowOK, NoMapsYet, WaitsAreOver, ShadeFirst, InOrder, MapsInOrder,
       FromJoin, FromMaps, FromAopk, FromRuian, FromRefs, FromOsm,
       FromChm, FromSheets, FromZabaged,
       Settled, Deferred, Step, mapping, Maps, AllMaps, Tasks, MapStates, Behind
<1>1. CASE SerialBegin(d)
  BY <1>1 DEF SerialBegin, SetMap, Todo, InHand
<1>2. CASE SerialJoin(d)
  <2>1. joined' \in BOOLEAN /\ refsFile' \in BOOLEAN
    BY <1>2 DEF SerialJoin, SetMap, Todo, InHand, JoinRefs
  <2>2. FlowOK'
    <3>1. pc' \in MainPoints
      BY <1>2 DEF SerialJoin, SetMap, Todo, InHand, JoinRefs, MainPoints
    <3>2. map' \in [AllMaps -> MapStates]
      BY <1>2 DEF SerialJoin, SetMap, Todo, InHand, JoinRefs
    <3>3. sprint' \in BOOLEAN /\ task' = task /\ shadeDone' \in BOOLEAN
          /\ join' \in {"none", "run", "write", "ok", "failed"}
      BY <1>2 DEF SerialJoin, SetMap, Todo, InHand, JoinRefs
    <3> QED
      BY <2>1, <3>1, <3>2, <3>3
  <2>3. NoMapsYet' /\ WaitsAreOver'
    BY <1>2 DEF SerialJoin, SetMap, Todo, InHand, JoinRefs
  <2>4. ShadeFirst' /\ InOrder'
    BY <1>2 DEF SerialJoin, SetMap, Todo, InHand, JoinRefs
  <2>5. MapsInOrder'
    BY <1>2 DEF SerialJoin, SetMap, Todo, InHand, JoinRefs
  <2> QED
    BY <2>2, <2>3, <2>4, <2>5
<1>3. CASE SerialMade(d)
  BY <1>3 DEF SerialMade, SetMap, Todo, InHand
<1>4. CASE SerialMissing(d)
  <2>1. joined' \in BOOLEAN /\ refsFile' \in BOOLEAN
    BY <1>4 DEF SerialMissing, SetMap, Todo, InHand
  <2>2. FlowOK'
    <3>1. pc' \in MainPoints
      BY <1>4 DEF SerialMissing, SetMap, Todo, InHand, MainPoints
    <3>2. map' \in [AllMaps -> MapStates]
      BY <1>4 DEF SerialMissing, SetMap, Todo, InHand
    <3>3. sprint' \in BOOLEAN /\ task' = task /\ shadeDone' \in BOOLEAN
          /\ join' \in {"none", "run", "write", "ok", "failed"}
      BY <1>4 DEF SerialMissing, SetMap, Todo, InHand
    <3> QED
      BY <2>1, <3>1, <3>2, <3>3
  <2>3. NoMapsYet' /\ WaitsAreOver'
    BY <1>4 DEF SerialMissing, SetMap, Todo, InHand
  <2>4. ShadeFirst' /\ InOrder'
    BY <1>4 DEF SerialMissing, SetMap, Todo, InHand
  <2>5. MapsInOrder'
    BY <1>4 DEF SerialMissing, SetMap, Todo, InHand
  <2> QED
    BY <2>2, <2>3, <2>4, <2>5
<1> QED
  BY <1>1, <1>2, <1>3, <1>4 DEF Serial

\* Maps in processes of their own, and the threads that serve them: who waits for
\* the file of the references has the thread that will write it.
LEMMA ChildFlow == ASSUME FlowInv, NEW d \in AllMaps,
         Child(d) \/ ChildDies(d) \/ Pump(d) \/ JoinThread \/ WriteRefs PROVE FlowInv'
<1> USE RunConstantsOK DEF FlowInv, FlowOK, NoMapsYet, WaitsAreOver, ShadeFirst, InOrder, MapsInOrder,
       FromJoin, FromMaps, FromAopk, FromRuian, FromRefs, FromOsm,
       FromChm, FromSheets, FromZabaged,
       Settled, Deferred, Step, mapping, Maps, AllMaps, Tasks, MapStates, Behind
<1>1. CASE ChildBuilt(d)
  BY <1>1 DEF ChildBuilt, SetMap, Apart
<1>2. CASE ChildHasRefs(d)
  BY <1>2 DEF ChildHasRefs, SetMap, Apart
<1>3. CASE ChildMade(d)
  BY <1>3 DEF ChildMade, SetMap, Apart
<1>4. CASE ChildMissing(d)
  <2>1. joined' \in BOOLEAN /\ refsFile' \in BOOLEAN
    BY <1>4 DEF ChildMissing, SetMap, Apart
  <2>2. FlowOK'
    <3>1. pc' \in MainPoints
      BY <1>4 DEF ChildMissing, SetMap, Apart, MainPoints
    <3>2. map' \in [AllMaps -> MapStates]
      BY <1>4 DEF ChildMissing, SetMap, Apart
    <3>3. sprint' \in BOOLEAN /\ task' = task /\ shadeDone' \in BOOLEAN
          /\ join' \in {"none", "run", "write", "ok", "failed"}
      BY <1>4 DEF ChildMissing, SetMap, Apart
    <3> QED
      BY <2>1, <3>1, <3>2, <3>3
  <2>3. NoMapsYet' /\ WaitsAreOver'
    BY <1>4 DEF ChildMissing, SetMap, Apart
  <2>4. ShadeFirst' /\ InOrder'
    BY <1>4 DEF ChildMissing, SetMap, Apart
  <2>5. MapsInOrder'
    BY <1>4 DEF ChildMissing, SetMap, Apart
  <2> QED
    BY <2>2, <2>3, <2>4, <2>5
<1>5. CASE ChildDies(d)
  BY <1>5 DEF ChildDies, SetMap, Apart
<1>6. CASE Pump(d)
  BY <1>6 DEF Pump, SetMap, Apart
<1>7. CASE JoinThread
  BY <1>7 DEF JoinThread, SetMap, Apart, JoinRefs
<1>8. CASE WriteRefs
  BY <1>8 DEF WriteRefs
<1>9. CASE ChildGivesUp(d)
  BY <1>9 DEF ChildGivesUp, SetMap, Apart
<1> QED
  BY <1>1, <1>2, <1>3, <1>4, <1>5, <1>6, <1>7, <1>8, <1>9 DEF Child

\* The end, good or bad, waits for nothing that is of interest here.
LEMMA EndFlow == ASSUME FlowInv, Raise \/ Exit PROVE FlowInv'
<1> USE RunConstantsOK DEF FlowInv, FlowOK, NoMapsYet, WaitsAreOver, ShadeFirst, InOrder, MapsInOrder,
       FromJoin, FromMaps, FromAopk, FromRuian, FromRefs, FromOsm,
       FromChm, FromSheets, FromZabaged,
       Settled, Deferred, Step, mapping, Maps, AllMaps, Tasks, MapStates, Behind
<1>1. CASE Raise
  BY <1>1 DEF Raise, MainPoints
<1>2. CASE Exit
  BY <1>2 DEF Exit, MainPoints
<1> QED
  BY <1>1, <1>2

\* A task that ends leaves everything settled that was, and lets go only what
\* waited behind it.
LEMMA TaskFlow == ASSUME FlowInv, NEW t \in Tasks, TaskOk(t) \/ TaskFails(t) PROVE FlowInv'
<1>1. PICK end \in {"ok", "fail"} :
        /\ task[t] = "run" /\ Finish(t, end)
        /\ shadeDone' = (shadeDone \/ t = "shade")
        /\ UNCHANGED <<sprint, pc, mapping>>
  BY DEF TaskOk, TaskFails
<1>2. FlowOK
  BY DEF FlowInv
<1>3. task' \in [Tasks -> {"none", "wait", "run", "ok", "fail"}] /\ task'[t] = end
  BY <1>1, <1>2 DEF FlowOK, Finish
<1>6. \A u \in Tasks : task[u] \notin {"wait", "run"} => task'[u] = task[u]
  BY <1>1, <1>2 DEF FlowOK, Finish
<1>4. FlowOK'
  <2>1. shadeDone' \in BOOLEAN
    BY <1>1
  <2> QED
    BY <1>1, <1>2, <1>3, <2>1 DEF FlowOK, mapping
<1>5. NoMapsYet'
  BY <1>1 DEF FlowInv, NoMapsYet, mapping
<1>7. task["refs"] = "none" <=> task'["refs"] = "none"
  BY <1>1, <1>2 DEF Tasks, FlowOK, Finish
<1>8. WaitsAreOver'
  <2>1. pc' = pc /\ sprint' = sprint /\ joined' = joined
    BY <1>1 DEF mapping
  <2>2. WaitsAreOver
    BY DEF FlowInv
  <2> QED
    BY <1>6, <1>7, <2>1, <2>2, <1>2, <1>3 DEF WaitsAreOver, Settled, Deferred, Tasks
<1>9. InOrder'
  <2>1. InOrder
    BY DEF FlowInv
  <2> QED
    BY <1>1, <1>2, <2>1 DEF FlowOK, InOrder, Behind, Tasks, Finish
<1>10. ShadeFirst'
  <2>1. ShadeFirst
    BY DEF FlowInv
  <2>2. (task["shade"] \in {"ok", "fail"} \/ t = "shade") => shadeDone'
    BY <1>1, <2>1 DEF ShadeFirst
  <2>3. task'["shade"] \in {"ok", "fail"} =>
          task["shade"] \in {"ok", "fail"} \/ t = "shade"
    BY <1>1, <1>2 DEF FlowOK, Behind, Tasks, Finish
  <2>4. /\ task'["shade"] = "none" => task'["refs"] = "none"
        /\ task'["shade"] # "wait"
        /\ task'["shade"] = "run" => task'["refs"] = "wait"
    BY <1>1, <1>2, <2>1 DEF FlowOK, ShadeFirst, Behind, Tasks, Finish
  <2> QED
    BY <2>2, <2>3, <2>4 DEF ShadeFirst
<1>11. MapsInOrder'
  <2>1. MapsInOrder
    BY DEF FlowInv
  <2> QED
    BY <1>1, <1>6, <1>7, <1>2, <2>1 DEF MapsInOrder, Settled, Deferred, Maps, AllMaps,
       Tasks, mapping
<1> QED
  BY <1>4, <1>5, <1>8, <1>9, <1>10, <1>11 DEF FlowInv

-----------------------------------------------------------------------------
\* What is there and what was reported.
LEMMA TryToIsOK ==
  ASSUME ResultOK, NEW p \in Parts, TryTo(p) \/ Have(p) \/ Report(p) \/ Skip(p),
         UNCHANGED <<lines, result>>
  PROVE  ResultOK'
<1>1. got' \subseteq Parts \cup AllMaps /\ issues' \subseteq Messages
  BY DEF ResultOK, TryTo, Have, Report, Skip, Messages
<1>2. left' \in 0..MaxFaults
  BY RunConstantsOK DEF ResultOK, TryTo, Have, Report, Skip, Fault
<1> QED
  BY <1>1, <1>2 DEF ResultOK

\* The references are joined from three places.
LEMMA JoinRefsIsOK ==
  ASSUME ResultOK, JoinRefs, UNCHANGED <<lines, result>>
  PROVE  ResultOK'
<1>1. "refs" \in Parts
  BY DEF Parts
<1>2. CASE TryTo("refs") \/ Have("refs") \/ Report("refs") \/ Skip("refs")
  BY <1>1, <1>2, TryToIsOK
<1>3. CASE UNCHANGED <<got, issues, left>>
  BY <1>3 DEF ResultOK
<1> QED
  BY <1>2, <1>3 DEF JoinRefs

\* The steps before the package.
LEMMA PrepareResult == ASSUME ResultOK, Prepare PROVE ResultOK'
<1> USE RunConstantsOK DEF mapping
<1>1. CASE StartThreads
  BY <1>1 DEF StartThreads, ResultOK, Fault, Messages
<1>2. CASE StartLidar
  BY <1>2 DEF StartLidar, ResultOK
<1>3. CASE TakeZabaged
  BY <1>3 DEF TakeZabaged, ResultOK
<1>4. CASE StartReferences
  BY <1>4 DEF StartReferences, ResultOK
<1>5. CASE MergeLidar
  BY <1>5 DEF MergeLidar, ResultOK
<1>6. CASE StartSurfaces
  <2>1. "surfaces" \in Parts
    BY DEF Parts
  <2> QED
    BY <1>6, <2>1, TryToIsOK DEF StartSurfaces, ResultOK, Step
<1>7. CASE AllSheets
  BY <1>7 DEF AllSheets, ResultOK
<1>8. CASE Contours
  BY <1>8 DEF Contours, ResultOK
<1>9. CASE VegetationStart
  <2>1. issues' \subseteq issues \cup {"ruian"} /\ UNCHANGED <<got, lines, result>>
    BY <1>9 DEF VegetationStart
  <2>2. left' \in 0..MaxFaults
    BY <1>9 DEF VegetationStart, ResultOK, Fault
  <2>3. "ruian" \in Messages
    BY DEF Messages, Parts
  <2> QED
    BY <2>1, <2>2, <2>3 DEF ResultOK
<1>10. CASE TakeSurfaces
  <2>1. /\ got' \subseteq got \cup {"surfaces", "vegetation"}
        /\ issues' \subseteq issues \cup {"surfaces", "vegetation"}
        /\ UNCHANGED <<lines, result>>
    BY <1>10 DEF TakeSurfaces
  <2>2. left' \in 0..MaxFaults
    BY <1>10 DEF TakeSurfaces, ResultOK, Fault
  <2>3. {"surfaces", "vegetation"} \subseteq Parts
    BY DEF Parts
  <2> QED
    BY <2>1, <2>2, <2>3 DEF ResultOK, Messages
<1>11. CASE Landforms
  <2>1. "landforms" \in Parts
    BY DEF Parts
  <2> QED
    BY <1>11, <2>1, TryToIsOK DEF Landforms, ResultOK
<1>12. CASE TakeOsm
  <2>1. "osm" \in Parts
    BY DEF Parts
  <2> QED
    BY <1>12, <2>1, TryToIsOK DEF TakeOsm, ResultOK
<1>13. CASE TakeShade
  <2>1. "shade" \in Parts
    BY DEF Parts
  <2> QED
    BY <1>13, <2>1, TryToIsOK DEF TakeShade, ResultOK
<1> QED
  BY <1>1, <1>2, <1>3, <1>4, <1>5, <1>6, <1>7, <1>8, <1>9, <1>10, <1>11, <1>12, <1>13 DEF Prepare

\* The steps from the package on.
LEMMA PackageResult == ASSUME ResultOK, PackageOutput PROVE ResultOK'
<1> USE RunConstantsOK DEF mapping
<1>1. CASE Package
  BY <1>1 DEF Package, ResultOK
<1>2. CASE JoinNow
  BY <1>2, JoinRefsIsOK DEF JoinNow
<1>3. CASE TakeVector("ruian", "aopk")
  <2>1. "ruian" \in Parts
    BY DEF Parts
  <2> QED
    BY <1>3, <2>1, TryToIsOK DEF TakeVector, ResultOK
<1>4. CASE TakeVector("aopk", "dtm")
  <2>1. "aopk" \in Parts
    BY DEF Parts
  <2> QED
    BY <1>4, <2>1, TryToIsOK DEF TakeVector, ResultOK
<1>5. CASE TakeDtm
  BY <1>5 DEF TakeDtm, ResultOK
<1>6. CASE BuildMaps
  BY <1>6 DEF BuildMaps, ResultOK
<1>7. CASE SerialEnd
  BY <1>7 DEF SerialEnd, ResultOK
<1>8. CASE Collect
  <2>1. {d \in Maps : map[d] = "raised"} \subseteq Messages
    BY DEF Maps, AllMaps, Messages
  <2> QED
    BY <1>8, <2>1 DEF Collect, ResultOK
<1>9. CASE AwaitJoinThread
  BY <1>9 DEF AwaitJoinThread, ResultOK
<1>10. CASE AwaitPump
  BY <1>10 DEF AwaitPump, ResultOK, Messages
<1>11. CASE JoinLast
  BY <1>11, JoinRefsIsOK DEF JoinLast, ResultOK
<1>12. CASE Preview
  <2>1. "preview" \in Parts
    BY DEF Parts
  <2> QED
    BY <1>12, <2>1, TryToIsOK DEF Preview, ResultOK
<1>13. CASE Zip
  BY <1>13 DEF Zip, ResultOK
<1>14. CASE ReportIssues
  BY <1>14 DEF ReportIssues, ResultOK
<1> QED
  BY <1>1, <1>2, <1>3, <1>4, <1>5, <1>6, <1>7, <1>8, <1>9, <1>10, <1>11, <1>12, <1>13, <1>14 DEF PackageOutput

\* Maps in the main thread.
LEMMA SerialResult == ASSUME ResultOK, NEW d \in AllMaps, Serial(d) PROVE ResultOK'
<1> USE RunConstantsOK DEF mapping
<1>1. CASE SerialBegin(d)
  BY <1>1 DEF SerialBegin, ResultOK
<1>2. CASE SerialJoin(d)
  BY <1>2, JoinRefsIsOK DEF SerialJoin, ResultOK
<1>3. CASE SerialMade(d)
  BY <1>3 DEF SerialMade, ResultOK
<1>4. CASE SerialMissing(d)
  <2>1. left' \in 0..MaxFaults
    BY <1>4 DEF SerialMissing, ResultOK, Fault
  <2> QED
    BY <1>4, <2>1 DEF SerialMissing, ResultOK, Messages
<1> QED
  BY <1>1, <1>2, <1>3, <1>4 DEF Serial

\* Maps in processes.
LEMMA ChildResult == ASSUME ResultOK, NEW d \in AllMaps,
         Child(d) \/ ChildDies(d) \/ Pump(d) \/ JoinThread \/ WriteRefs PROVE ResultOK'
<1> USE RunConstantsOK DEF mapping
<1>1. CASE ChildBuilt(d)
  BY <1>1 DEF ChildBuilt, ResultOK
<1>2. CASE ChildHasRefs(d)
  BY <1>2 DEF ChildHasRefs, ResultOK
<1>3. CASE ChildMade(d)
  BY <1>3 DEF ChildMade, ResultOK
<1>4. CASE ChildMissing(d)
  <2>1. left' \in 0..MaxFaults
    BY <1>4 DEF ChildMissing, ResultOK, Fault
  <2> QED
    BY <1>4, <2>1 DEF ChildMissing, ResultOK, Messages
<1>5. CASE ChildDies(d)
  BY <1>5 DEF ChildDies, ResultOK, Fault
<1>6. CASE Pump(d)
  BY <1>6 DEF Pump, ResultOK, Messages
<1>7. CASE JoinThread
  BY <1>7, JoinRefsIsOK DEF JoinThread
<1>8. CASE WriteRefs
  BY <1>8 DEF WriteRefs, ResultOK, Fault
<1>9. CASE ChildGivesUp(d)
  BY <1>9 DEF ChildGivesUp, ResultOK
<1> QED
  BY <1>1, <1>2, <1>3, <1>4, <1>5, <1>6, <1>7, <1>8, <1>9 DEF Child

\* The threads, and the end.
LEMMA TaskResult == ASSUME ResultOK, NEW t \in Tasks,
         TaskOk(t) \/ TaskFails(t) \/ Raise \/ Exit PROVE ResultOK'
<1> USE RunConstantsOK DEF mapping
<1>1. CASE TaskOk(t)
  BY <1>1 DEF TaskOk, ResultOK
<1>2. CASE TaskFails(t)
  <2>1. issues' \subseteq issues \cup {"ruian", "aopk", "shade"}
    BY <1>2 DEF TaskFails
  <2>2. left' \in 0..MaxFaults
    BY <1>2 DEF TaskFails, ResultOK, Fault
  <2>3. {"ruian", "aopk", "shade"} \subseteq Messages
    BY DEF Messages, Parts
  <2> QED
    BY <1>2, <2>1, <2>2, <2>3 DEF TaskFails, ResultOK
<1>3. CASE Raise
  BY <1>3 DEF Raise, ResultOK, Fault
<1>4. CASE Exit
  BY <1>4 DEF Exit, ResultOK
<1> QED
  BY <1>1, <1>2, <1>3, <1>4

-----------------------------------------------------------------------------
\* The invariant of the run.
LEMMA RunInit == Init => RunInv
BY InitFlow DEF RunInv

LEMMA RunStep == RunInv /\ [Next]_vars => RunInv'
<1> SUFFICES ASSUME RunInv, [Next]_vars PROVE RunInv'
  OBVIOUS
<1>1. FlowInv /\ ResultOK
  BY DEF RunInv
<1>2. CASE Prepare
  BY <1>1, <1>2, PrepareFlow, PrepareResult DEF RunInv
<1>3. CASE PackageOutput
  BY <1>1, <1>3, PackageFlow, PackageResult DEF RunInv
<1>4. CASE Raise \/ Exit
  <2>1. "osm" \in Tasks
    BY DEF Tasks
  <2> QED
    BY <1>1, <1>4, <2>1, EndFlow, TaskResult DEF RunInv
<1>5. ASSUME NEW t \in Tasks, Task(t) PROVE RunInv'
  BY <1>1, <1>5, TaskFlow, TaskResult DEF RunInv, Task
<1>6. ASSUME NEW d \in AllMaps, Serial(d) PROVE RunInv'
  BY <1>1, <1>6, SerialFlow, SerialResult DEF RunInv
<1>7. ASSUME NEW d \in AllMaps,
             Child(d) \/ ChildDies(d) \/ Pump(d) \/ JoinThread \/ WriteRefs
      PROVE  RunInv'
  BY <1>1, <1>7, ChildFlow, ChildResult DEF RunInv
<1>8. CASE JoinThread \/ WriteRefs
  <2>1. "sprint" \in AllMaps
    BY DEF AllMaps
  <2> QED
    BY <1>7, <1>8, <2>1
<1>9. CASE UNCHANGED vars
  <2> USE <1>9 DEF vars, mapping
  <2>1. FlowOK' /\ NoMapsYet'
    BY <1>1 DEF FlowInv, FlowOK, NoMapsYet
  <2>2. WaitsAreOver' /\ ShadeFirst' /\ InOrder'
    BY <1>1 DEF FlowInv, WaitsAreOver, ShadeFirst, InOrder, Settled, Deferred
  <2>3. MapsInOrder'
    BY <1>1 DEF FlowInv, MapsInOrder, Maps, Settled, Deferred
  <2> QED
    BY <1>1, <2>1, <2>2, <2>3 DEF RunInv, FlowInv, ResultOK
<1> QED
  BY <1>2, <1>3, <1>4, <1>5, <1>6, <1>7, <1>8, <1>9 DEF Next

\* The invariant of one run of the pipeline: the order in which its parts start, end and
\* are waited for (run_job_pipeline).
THEOREM RunInvariant == Spec => []RunInv
BY RunInit, RunStep, PTL DEF Spec

\* Who waits waits for a thread that runs, or for what is there.
LEMMA WaitFacts == RunInv => NobodyWaitsInVain
<1> SUFFICES ASSUME RunInv PROVE NobodyWaitsInVain
  OBVIOUS
<1>1. FlowOK /\ ShadeFirst /\ InOrder /\ MapsInOrder
  BY DEF RunInv, FlowInv
<1>2. ~shadeDone => task["shade"] \in {"none", "run"}
  BY <1>1 DEF FlowOK, ShadeFirst, Tasks
<1>3. \A d \in AllMaps : map[d] = "wait" /\ ~refsFile => join \in {"run", "write", "failed"}
  BY <1>1 DEF FlowOK, MapsInOrder
<1> QED
  BY <1>1, <1>2, <1>3 DEF NobodyWaitsInVain, InOrder

\* Nobody waits in vain, whichever tasks, maps and processes failed, but for the
\* file of the references when that could not be written.
THEOREM NobodyWaits == Spec => []NobodyWaitsInVain
BY WaitFacts, RunInvariant, PTL

\* What is read has been waited for.
LEMMA ReadFacts == RunInv => ReadsAreSettled
<1> SUFFICES ASSUME RunInv PROVE ReadsAreSettled
  OBVIOUS
<1>1. FlowOK /\ WaitsAreOver /\ ShadeFirst /\ MapsInOrder
  BY DEF RunInv, FlowInv
<1>2. pc \in {"landforms", "osm", "shade"} => Settled("surfaces")
  BY <1>1 DEF WaitsAreOver, FromChm, FromOsm
<1>3. \A d \in AllMaps :
        /\ map[d] \in {"build", "wait", "write"} => Settled("dtm") /\ Settled("streets")
        /\ map[d] = "write" => Settled("refs") /\ Settled("residual")
  BY <1>1 DEF MapsInOrder, WaitsAreOver, FromMaps
<1>4. pc \in {"zip", "report", "done"} => \A t \in Tasks \ {"residual"} : Settled(t)
  <2> SUFFICES ASSUME pc \in {"zip", "report", "done"}, NEW t \in Tasks \ {"residual"}
               PROVE  Settled(t)
    OBVIOUS
  <2>1. t # "shade" => Settled(t)
    BY <1>1 DEF Tasks, WaitsAreOver, FromJoin, FromMaps, FromAopk, FromRuian, FromRefs,
       FromOsm, FromChm, FromSheets, FromZabaged
  <2>2. Settled("refs") => Settled("shade")
    BY <1>1 DEF ShadeFirst, Settled
  <2> QED
    BY <1>1, <2>1, <2>2 DEF WaitsAreOver, FromJoin
<1> QED
  BY <1>2, <1>3, <1>4 DEF ReadsAreSettled

\* Whoever reads what a thread makes reads it whole.
THEOREM ReadsSettled == Spec => []ReadsAreSettled
BY ReadFacts, RunInvariant, PTL

-----------------------------------------------------------------------------
\* Nothing missing goes untold: ReportInv.

\* What is there stays there, and what is told stays told.
LEMMA Grows ==
  ASSUME [Next]_vars
  PROVE  got \subseteq got' /\ issues \subseteq issues' /\ sprint' = sprint
<1> USE DEF Have, Report, TryTo, Skip, JoinRefs, mapping
<1>1. CASE Prepare
  BY <1>1 DEF Prepare, StartThreads, StartLidar, TakeZabaged, StartReferences, MergeLidar,
     StartSurfaces, AllSheets, Contours, VegetationStart, TakeSurfaces, Landforms, TakeOsm,
     TakeShade
<1>2. CASE PackageOutput
  BY <1>2 DEF PackageOutput, Package, JoinNow, TakeVector, TakeDtm, BuildMaps, SerialEnd,
     Collect, AwaitJoinThread, AwaitPump, JoinLast, Preview, Zip, ReportIssues
<1>3. CASE Raise \/ Exit
  BY <1>3 DEF Raise, Exit
<1>4. ASSUME NEW t \in Tasks, Task(t)
      PROVE  got \subseteq got' /\ issues \subseteq issues' /\ sprint' = sprint
  BY <1>4 DEF Task, TaskOk, TaskFails
<1>5. ASSUME NEW d \in AllMaps, Serial(d) \/ Child(d) \/ ChildDies(d) \/ Pump(d)
      PROVE  got \subseteq got' /\ issues \subseteq issues' /\ sprint' = sprint
  BY <1>5 DEF Serial, SerialBegin, SerialJoin, SerialMade, SerialMissing,
     Child, ChildBuilt, ChildHasRefs, ChildGivesUp, ChildMade, ChildMissing, ChildDies, Pump
<1>6. CASE JoinThread \/ WriteRefs
  BY <1>6 DEF JoinThread, WriteRefs
<1>7. CASE UNCHANGED vars
  BY <1>7 DEF vars
<1> QED
  BY <1>1, <1>2, <1>3, <1>4, <1>5, <1>6, <1>7 DEF Next

\* A step that is not one of the main thread leaves its pc, or fails the job, and
\* starts no task that was not planned.
LEMMA AsideStep ==
  ASSUME FlowInv, [Next]_vars, ~Prepare, ~PackageOutput
  PROVE  /\ pc' = pc \/ pc' \in {"failed", "exited"}
         /\ \A u \in Tasks : task'[u] = "none" <=> task[u] = "none"
         /\ \A u \in Tasks : Settled(u) => task'[u] = task[u]
<1>0. task \in [Tasks -> {"none", "wait", "run", "ok", "fail"}]
  BY DEF FlowInv, FlowOK
<1>1. ASSUME NEW t \in Tasks, Task(t)
      PROVE  /\ pc' = pc /\ \A u \in Tasks : task'[u] = "none" <=> task[u] = "none"
             /\ \A u \in Tasks : Settled(u) => task'[u] = task[u]
  <2>1. PICK end \in {"ok", "fail"} : pc' = pc /\ task[t] = "run" /\ Finish(t, end)
    BY <1>1 DEF Task, TaskOk, TaskFails
  <2> QED
    BY <1>0, <2>1 DEF Finish, Settled
<1>2. CASE Raise \/ Exit
  BY <1>2 DEF Raise, Exit
<1>3. ASSUME NEW d \in AllMaps, Serial(d) \/ Child(d) \/ ChildDies(d) \/ Pump(d)
      PROVE  (pc' = pc \/ pc' = "failed") /\ task' = task
  BY <1>3 DEF Serial, SerialBegin, SerialJoin, SerialMade, SerialMissing,
     Child, ChildBuilt, ChildHasRefs, ChildGivesUp, ChildMade, ChildMissing, ChildDies, Pump
<1>4. CASE JoinThread \/ WriteRefs
  BY <1>4 DEF JoinThread, WriteRefs
<1>5. CASE UNCHANGED vars
  BY <1>5 DEF vars
<1> QED
  BY <1>1, <1>2, <1>3, <1>4, <1>5 DEF Next

\* The parts: each step of the main thread has or tells its own.
LEMMA PartsStep ==
  ASSUME FlowInv, PartsTold, [Next]_vars
  PROVE  PartsTold'
<1>0. got \subseteq got' /\ issues \subseteq issues'
  BY Grows
<1>t. task \in [Tasks -> {"none", "wait", "run", "ok", "fail"}]
  BY DEF FlowInv, FlowOK
<1>u. "surfaces" \in Tasks
  BY DEF Tasks
<1>1. CASE ~Prepare /\ ~PackageOutput
  <2>1. pc' = pc \/ pc' \in {"failed", "exited"}
    BY <1>1, AsideStep
  <2>2. task'["surfaces"] = "none" <=> task["surfaces"] = "none"
    BY <1>1, <1>u, AsideStep
  <2> QED
    BY <1>0, <2>1, <2>2 DEF PartsTold, Told, FromChm, FromOsm, FromShade, FromRefs,
       FromRuian, FromAopk, FromMaps, FromJoin
<1> USE DEF PartsTold, Told, FromChm, FromOsm, FromShade, FromRefs, FromRuian,
       FromAopk, FromMaps, FromJoin, Step
<1>2. CASE StartThreads \/ StartLidar \/ TakeZabaged \/ StartReferences \/ MergeLidar
  <2>1. pc' \in {"lidar", "zabaged", "grid", "failed", "merge", "elevation"}
    BY <1>2 DEF StartThreads, StartLidar, TakeZabaged, StartReferences, MergeLidar
  <2> QED
    BY <2>1
<1>3. CASE StartSurfaces
  <2>1. pc' = "lidarWait"
    BY <1>3 DEF StartSurfaces
  <2>2. task'["surfaces"] = "run" \/ "surfaces" \in got' \cup issues'
    BY <1>3, <1>u DEF StartSurfaces, Start, TryTo, Have
  <2> QED
    BY <2>1, <2>2
<1>4. CASE AllSheets \/ Contours \/ VegetationStart
  <2>1. /\ pc' \in {"contours", "failed", "vegetation", "chm"} /\ task' = task
        /\ pc \in {"lidarWait", "contours", "vegetation"}
    BY <1>4 DEF AllSheets, Contours, VegetationStart
  <2> QED
    BY <1>0, <2>1
<1>5. CASE TakeSurfaces
  <2>1. /\ pc = "chm" /\ pc' = "landforms" /\ Settled("surfaces")
        /\ "vegetation" \in got' \cup issues'
        /\ task["surfaces"] = "ok" => "surfaces" \in got'
        /\ task["surfaces"] = "fail" => "surfaces" \in issues'
    BY <1>5 DEF TakeSurfaces
  <2>2. "surfaces" \in got' \cup issues'
    BY <1>0, <1>t, <1>u, <2>1 DEF Settled
  <2> QED
    BY <1>0, <2>1, <2>2
<1>6. CASE Landforms
  <2>1. pc = "landforms" /\ pc' = "osm"
    BY <1>6 DEF Landforms
  <2> QED
    BY <1>0, <2>1
<1>7. CASE TakeOsm
  <2>1. pc = "osm" /\ pc' = "shade" /\ "osm" \in got' \cup issues'
    BY <1>7 DEF TakeOsm, TryTo, Have, Report
  <2> QED
    BY <1>0, <2>1
<1>8. CASE TakeShade
  <2>1. pc = "shade" /\ pc' = "package" /\ "shade" \in got' \cup issues'
    BY <1>8 DEF TakeShade, TryTo, Have
  <2> QED
    BY <1>0, <2>1
<1>9. CASE Package \/ JoinNow
  <2>1. pc \in {"package", "joinNow"} /\ pc' \in {"ruian", "joinNow"}
    BY <1>9 DEF Package, JoinNow
  <2> QED
    BY <1>0, <2>1
<1>10. ASSUME NEW t \in {"ruian", "aopk"}, NEW to \in {"aopk", "dtm"},
              <<t, to>> \in {<<"ruian", "aopk">>, <<"aopk", "dtm">>}, TakeVector(t, to)
       PROVE  PartsTold'
  <2>1. pc = t /\ pc' = to /\ t \in got' \cup issues'
    BY <1>10 DEF TakeVector, TryTo, Have
  <2> QED
    BY <1>0, <1>10, <2>1
<1>11. CASE TakeDtm \/ BuildMaps \/ SerialEnd \/ Collect \/ AwaitJoinThread \/ AwaitPump \/ JoinLast
  <2>1. /\ pc \in {"dtm", "maps", "serial", "collect", "joinThread", "pump", "joinLast"}
        /\ pc' \in {"maps", "serial", "collect", "joinThread", "pump", "joinLast", "preview"}
    BY <1>11 DEF TakeDtm, BuildMaps, SerialEnd, Collect, AwaitJoinThread, AwaitPump, JoinLast
  <2> QED
    BY <1>0, <2>1
<1>12. CASE Preview
  <2>1. pc = "preview" /\ pc' = "zip"
    BY <1>12 DEF Preview
  <2> QED
    BY <1>0, <2>1
<1>13. CASE Zip \/ ReportIssues
  <2>1. pc \in {"zip", "report"} /\ pc' \in {"report", "done"}
    BY <1>13 DEF Zip, ReportIssues
  <2> QED
    BY <1>0, <2>1
<1> QED
  BY <1>1, <1>2, <1>3, <1>4, <1>5, <1>6, <1>7, <1>8, <1>9, <1>10, <1>11, <1>12, <1>13
     DEF Prepare, PackageOutput

\* When their thread failed, that is told wherever the references are joined.
LEMMA JoinTells ==
  ASSUME FlowInv, JoinRefs, task' = task
  PROVE  joined' /\ (Told("refs")' \/ task'["refs"] # "fail")
<1>1. task["refs"] \in {"none", "wait", "run", "ok", "fail"}
  BY DEF FlowInv, FlowOK, Tasks
<1> QED
  BY <1>1 DEF JoinRefs, Settled, Have, Report, TryTo, Told

LEMMA RefsStep ==
  ASSUME FlowInv, RefsTold, [Next]_vars
  PROVE  RefsTold'
<1>0. got \subseteq got' /\ issues \subseteq issues' /\ sprint' = sprint
  BY Grows
<1>1. ASSUME pc' = pc \/ pc' \in {"failed", "exited"},
             task'["refs"] = "none" <=> task["refs"] = "none",
             joined => task'["refs"] = task["refs"],
             \/ joined' = joined
             \/ joined' /\ (Told("refs")' \/ task'["refs"] # "fail")
      PROVE  RefsTold'
  <2>1. Deferred' = Deferred
    BY <1>0, <1>1 DEF Deferred
  <2>2. pc' \in {"failed", "exited"} => pc' \notin FromRefs /\ pc' \notin FromJoin
    BY DEF FromRefs, FromRuian, FromAopk, FromMaps, FromJoin
  <2> QED
    BY <1>0, <1>1, <2>1, <2>2 DEF RefsTold, Told
<1>2. CASE ~Prepare /\ ~PackageOutput
  <2>0. /\ pc' = pc \/ pc' \in {"failed", "exited"}
        /\ task'["refs"] = "none" <=> task["refs"] = "none"
        /\ joined => task'["refs"] = task["refs"]
    BY <1>2, AsideStep DEF Tasks, FlowInv, WaitsAreOver
  <2>1. ASSUME NEW t \in Tasks, Task(t) PROVE RefsTold'
    BY <1>1, <2>0, <2>1 DEF Task, TaskOk, TaskFails, mapping
  <2>2. CASE Raise \/ Exit
    BY <1>1, <2>0, <2>2 DEF Raise, Exit, mapping
  <2>3. ASSUME NEW d \in AllMaps, Serial(d) PROVE RefsTold'
    <3>1. CASE SerialJoin(d) /\ Deferred /\ ~joined
      <4>1. JoinRefs /\ task' = task
        BY <3>1 DEF SerialJoin
      <4> QED
        BY <1>1, <2>0, <4>1, JoinTells
    <3>2. CASE SerialJoin(d) /\ ~(Deferred /\ ~joined)
      BY <1>1, <2>0, <3>2 DEF SerialJoin
    <3>3. CASE SerialBegin(d) \/ SerialMade(d) \/ SerialMissing(d)
      BY <1>1, <2>0, <3>3 DEF SerialBegin, SerialMade, SerialMissing
    <3> QED
      BY <2>3, <3>1, <3>2, <3>3 DEF Serial
  <2>4. ASSUME NEW d \in AllMaps, Child(d) \/ ChildDies(d) \/ Pump(d) PROVE RefsTold'
    BY <1>1, <2>0, <2>4 DEF Child, ChildBuilt, ChildHasRefs, ChildGivesUp, ChildMade, ChildMissing,
       ChildDies, Pump
  <2>5. CASE JoinThread
    <3>1. JoinRefs /\ task' = task
      BY <2>5 DEF JoinThread
    <3> QED
      BY <1>1, <2>0, <3>1, JoinTells
  <2>6. CASE UNCHANGED vars
    BY <1>1, <2>6 DEF vars, mapping
  <2>7. CASE WriteRefs
    BY <1>1, <2>0, <2>7 DEF WriteRefs
  <2> QED
    BY <1>2, <2>1, <2>2, <2>3, <2>4, <2>5, <2>6, <2>7 DEF Next
<1>3. CASE Prepare
  <2> USE <1>3 DEF Prepare, StartThreads, StartLidar, TakeZabaged, StartReferences, MergeLidar,
         StartSurfaces, AllSheets, Contours, VegetationStart, TakeSurfaces, Landforms,
         TakeOsm, TakeShade, Step
  <2>1. pc' \notin FromRefs
    BY DEF FromRefs, FromRuian, FromAopk, FromMaps, FromJoin
  <2>2. joined' = joined
    BY DEF mapping
  <2>3. pc \in {"start", "lidar", "zabaged", "grid", "merge", "elevation", "lidarWait",
                "contours", "vegetation", "chm", "landforms", "osm", "shade"}
    OBVIOUS
  <2>4. ~joined
    BY <2>3 DEF FlowInv, NoMapsYet
  <2> QED
    BY <2>1, <2>2, <2>4 DEF RefsTold, FromRefs, FromRuian, FromAopk, FromMaps
<1>4. CASE Package
  <2>1. pc' \in {"ruian", "joinNow"} /\ (pc' = "ruian" => Deferred) /\ task' = task /\ joined' = joined
    BY <1>4 DEF Package, mapping
  <2>2. Deferred' = Deferred
    BY <1>0, <2>1 DEF Deferred
  <2>3. pc' \notin FromJoin /\ "joinNow" \notin FromRefs
    BY <2>1 DEF FromRefs, FromRuian, FromAopk, FromMaps, FromJoin
  <2> QED
    BY <1>0, <2>1, <2>2, <2>3 DEF RefsTold, Told
<1>5. CASE JoinNow
  <2>1. JoinRefs /\ task' = task
    BY <1>5 DEF JoinNow
  <2> QED
    BY <2>1, JoinTells DEF RefsTold
<1>6. CASE JoinLast
  <2>1. pc = "joinLast" /\ task' = task
    BY <1>6 DEF JoinLast, Step
  <2>2. CASE Deferred /\ ~joined
    <3>1. JoinRefs
      BY <1>6, <2>2 DEF JoinLast
    <3> QED
      BY <2>1, <3>1, JoinTells DEF RefsTold
  <2>3. CASE ~(Deferred /\ ~joined)
    <3>1. joined' = joined
      BY <1>6, <2>3 DEF JoinLast
    <3>2. joined
      BY <2>1, <2>3 DEF RefsTold, FromRefs, FromRuian, FromAopk, FromMaps
    <3> QED
      BY <1>0, <2>1, <3>1, <3>2 DEF RefsTold, Told
  <2> QED
    BY <2>2, <2>3
<1>7. ASSUME pc \in FromRefs, pc \in FromJoin \/ pc' \notin FromJoin,
             UNCHANGED <<task, joined>>
      PROVE  RefsTold'
  <2>1. Deferred' = Deferred
    BY <1>0, <1>7 DEF Deferred
  <2> QED
    BY <1>0, <1>7, <2>1 DEF RefsTold, Told
<1>8. CASE TakeVector("ruian", "aopk") \/ TakeVector("aopk", "dtm") \/ TakeDtm \/ BuildMaps
           \/ SerialEnd \/ Collect \/ AwaitJoinThread \/ AwaitPump
  <2>1. UNCHANGED <<task, joined>>
    BY <1>8 DEF TakeVector, TakeDtm, BuildMaps, SerialEnd, Collect, AwaitJoinThread,
       AwaitPump, mapping
  <2>2. /\ pc \in {"ruian", "aopk", "dtm", "maps", "serial", "collect", "joinThread", "pump"}
        /\ pc' \in {"aopk", "dtm", "maps", "serial", "collect", "joinThread", "pump", "joinLast"}
    BY <1>8 DEF TakeVector, TakeDtm, BuildMaps, SerialEnd, Collect, AwaitJoinThread,
       AwaitPump, Step
  <2>3. pc \in FromRefs /\ pc' \notin FromJoin
    BY <2>2 DEF FromRefs, FromRuian, FromAopk, FromMaps, FromJoin
  <2> QED
    BY <1>7, <2>1, <2>3
<1>9. CASE Preview \/ Zip \/ ReportIssues
  <2>1. UNCHANGED <<task, joined>> /\ pc \in {"preview", "zip", "report"}
    BY <1>9 DEF Preview, Zip, ReportIssues, mapping, Step
  <2>2. pc \in FromRefs /\ pc \in FromJoin
    BY <2>1 DEF FromRefs, FromRuian, FromAopk, FromMaps, FromJoin
  <2> QED
    BY <1>7, <2>1, <2>2
<1> QED
  BY <1>2, <1>3, <1>4, <1>5, <1>6, <1>8, <1>9 DEF PackageOutput

\* The maps.  Steps that have nothing to do with them, ...
LEMMA MapsKept ==
  ASSUME FlowInv, MapsTold, [Next]_vars, map' = map, lines' = lines,
         \/ pc' = pc
         \/ /\ pc \notin WithProcesses /\ pc' \notin WithProcesses
            /\ pc \in {"failed", "exited"} => pc' \in {"failed", "exited"}
            /\ pc \in {"joinLast"} \cup FromJoin \/ pc' \notin {"joinLast"} \cup FromJoin
  PROVE  MapsTold'
<1>0. got \subseteq got' /\ issues \subseteq issues' /\ Maps' = Maps
  BY Grows DEF Maps
<1>1. lines' # {} => pc' \in WithProcesses
  BY DEF MapsTold
<1>2. ASSUME NEW d \in Maps PROVE MapTold(d)'
  <2>1. MapTold(d)
    BY DEF MapsTold
  <2>2. pc' \in {"collect", "failed", "exited"} \/ pc \notin {"collect", "failed", "exited"}
    BY DEF WithProcesses
  <2> QED
    BY <1>0, <2>1, <2>2 DEF MapTold, Told
<1>3. pc' \in {"joinThread", "pump"} =>
        \A d \in Maps : map'[d] \in {"made", "missing", "raised", "dead"}
  BY DEF MapsTold, WithProcesses
<1> QED
  BY <1>0, <1>1, <1>2, <1>3 DEF MapsTold

\* ... the end of the processes, ...
LEMMA MapsCollected ==
  ASSUME FlowInv, MapsTold, [Next]_vars,
         Collect \/ AwaitJoinThread \/ AwaitPump \/ SerialEnd \/ BuildMaps
  PROVE  MapsTold'
<1>0. got \subseteq got' /\ issues \subseteq issues' /\ Maps' = Maps
  BY Grows DEF Maps
<1>m. Maps \subseteq AllMaps /\ map \in [AllMaps -> MapStates]
  BY DEF Maps, AllMaps, FlowInv, FlowOK
<1>1. CASE Collect
  <2>1. /\ pc = "collect" /\ pc' = "joinThread" /\ map' = map /\ lines' = lines
        /\ \A d \in Maps : map[d] \in {"made", "missing", "raised", "dead"}
        /\ \A d \in Maps : map[d] = "raised" => d \in issues'
    BY <1>1 DEF Collect, Step, mapping
  <2>2. ASSUME NEW d \in Maps PROVE MapTold(d)'
    <3>1. MapTold(d)
      BY DEF MapsTold
    <3> QED
      BY <1>0, <2>1, <3>1 DEF MapTold, Told, WithProcesses, FromJoin
  <2> QED
    BY <1>0, <2>1, <2>2 DEF MapsTold, WithProcesses
<1>2. CASE AwaitJoinThread
  <2>1. pc = "joinThread" /\ pc' = "pump" /\ map' = map /\ lines' = lines
    BY <1>2 DEF AwaitJoinThread, Step, mapping
  <2>2. ASSUME NEW d \in Maps PROVE MapTold(d)'
    <3>1. MapTold(d)
      BY DEF MapsTold
    <3> QED
      BY <1>0, <2>1, <3>1 DEF MapTold, Told, WithProcesses, FromJoin
  <2> QED
    BY <1>0, <2>1, <2>2 DEF MapsTold, WithProcesses
<1>3. CASE AwaitPump
  <2>1. /\ pc = "pump" /\ pc' = (IF Todo = {} THEN "joinLast" ELSE "serial")
        /\ map' = map /\ lines = {} /\ lines' = {}
        /\ Todo # {} => "process" \in issues'
    BY <1>3 DEF AwaitPump
  <2>2. \A d \in Maps : map[d] \in {"made", "missing", "raised", "dead"}
    BY <2>1 DEF MapsTold
  <2>3. Todo = {} <=> \A d \in Maps : map[d] # "dead"
    BY <2>2 DEF Todo
  <2>4. ASSUME NEW d \in Maps PROVE MapTold(d)'
    <3>1. MapTold(d)
      BY DEF MapsTold
    <3> QED
      BY <1>0, <2>1, <2>2, <2>3, <3>1 DEF MapTold, Told, WithProcesses, FromJoin
  <2> QED
    BY <1>0, <2>1, <2>4 DEF MapsTold
<1>4. CASE SerialEnd
  <2>1. pc = "serial" /\ pc' = "joinLast" /\ map' = map /\ lines' = lines /\ Todo = {} /\ InHand = {}
    BY <1>4 DEF SerialEnd, Step, mapping
  <2>2. lines = {}
    BY <2>1 DEF MapsTold, WithProcesses
  <2>3. \A d \in Maps : map[d] \in {"made", "missing", "raised"}
    <3>1. \A d \in Maps : map[d] # "wait"
      BY <1>m, <2>1 DEF FlowInv, MapsInOrder
    <3>2. \A d \in Maps : map[d] \notin {"none", "dead", "build", "write"}
      BY <2>1 DEF Todo, InHand
    <3> QED
      BY <1>m, <3>1, <3>2 DEF MapStates
  <2>4. ASSUME NEW d \in Maps PROVE MapTold(d)'
    <3>1. MapTold(d)
      BY DEF MapsTold
    <3> QED
      BY <1>0, <2>1, <2>2, <2>3, <3>1 DEF MapTold, Told, WithProcesses, FromJoin
  <2> QED
    BY <1>0, <2>1, <2>2, <2>4 DEF MapsTold
<1>5. CASE BuildMaps
  <2>1. pc = "maps" /\ pc' \in {"serial", "collect"} /\ lines' = lines
        /\ \A d \in Maps : map'[d] \in {"none", "build"}
    <3>1. \A d \in AllMaps : map[d] = "none"
      BY <1>5 DEF BuildMaps, FlowInv, MapsInOrder
    <3> QED
      BY <1>5, <1>m, <3>1 DEF BuildMaps
  <2>2. lines = {}
    BY <2>1 DEF MapsTold, WithProcesses
  <2>3. ASSUME NEW d \in Maps PROVE MapTold(d)'
    BY <2>1 DEF MapTold, FromJoin
  <2> QED
    BY <1>0, <2>1, <2>2, <2>3 DEF MapsTold
<1> QED
  BY <1>1, <1>2, <1>3, <1>4, <1>5

\* ... maps that the main thread builds, ...
LEMMA MapsInSerial ==
  ASSUME FlowInv, MapsTold, [Next]_vars, NEW d \in AllMaps, Serial(d)
  PROVE  MapsTold'
<1>0. got \subseteq got' /\ issues \subseteq issues' /\ Maps' = Maps
  BY Grows DEF Maps
<1>m. Maps \subseteq AllMaps /\ map \in [AllMaps -> MapStates]
  BY DEF Maps, AllMaps, FlowInv, FlowOK
<1>1. /\ pc = "serial" /\ pc' \in {"serial", "failed"} /\ lines' = lines
      /\ \E s \in MapStates : /\ map' = [map EXCEPT ![d] = s]
                              /\ s \in {"build", "write", "made", "missing", "raised"}
                              /\ s = "made" => d \in got'
                              /\ s = "missing" => d \in issues'
                              /\ s = "raised" => pc' = "failed"
  BY DEF Serial, SerialBegin, SerialJoin, SerialMade, SerialMissing, SetMap, MapStates
<1>2. PICK s \in MapStates : /\ map' = [map EXCEPT ![d] = s]
                             /\ s \in {"build", "write", "made", "missing", "raised"}
                             /\ s = "made" => d \in got'
                             /\ s = "missing" => d \in issues'
                             /\ s = "raised" => pc' = "failed"
  BY <1>1
<1>3. lines = {} /\ pc' \notin WithProcesses /\ pc' \notin {"joinLast"} \cup FromJoin
  BY <1>1 DEF MapsTold, WithProcesses, FromJoin
<1>4. ASSUME NEW e \in Maps, e # d PROVE MapTold(e)'
  <2>1. MapTold(e) /\ map'[e] = map[e]
    BY <1>2, <1>4, <1>m DEF MapsTold
  <2> QED
    BY <1>0, <1>1, <1>3, <2>1 DEF MapTold, Told, WithProcesses
<1>5. d \in Maps => MapTold(d)'
  <2>1. map'[d] = s
    BY <1>2, <1>m
  <2> QED
    BY <1>2, <1>3, <2>1 DEF MapTold, Told
<1> QED
  BY <1>0, <1>1, <1>3, <1>4, <1>5 DEF MapsTold, WithProcesses

\* ... and those of the processes, with their messages.
LEMMA MapsApart ==
  ASSUME FlowInv, MapsTold, [Next]_vars, NEW d \in AllMaps, Child(d)
  PROVE  MapsTold'
<1>0. got \subseteq got' /\ issues \subseteq issues' /\ Maps' = Maps
  BY Grows DEF Maps
<1>m. Maps \subseteq AllMaps /\ map \in [AllMaps -> MapStates]
  BY DEF Maps, AllMaps, FlowInv, FlowOK
<1>1. /\ pc = "collect" /\ pc' = pc /\ lines \subseteq lines' /\ map[d] # "dead"
      /\ \E s \in MapStates : /\ map' = [map EXCEPT ![d] = s]
                              /\ s \in {"wait", "write", "made", "missing", "raised"}
                              /\ s = "made" => d \in got'
                              /\ s = "missing" => d \in lines'
  BY DEF Child, ChildBuilt, ChildHasRefs, ChildGivesUp, ChildMade, ChildMissing, Apart, SetMap,
     MapStates
<1>2. PICK s \in MapStates : /\ map' = [map EXCEPT ![d] = s]
                             /\ s \in {"wait", "write", "made", "missing", "raised"}
                             /\ s = "made" => d \in got'
                             /\ s = "missing" => d \in lines'
  BY <1>1
<1>4. ASSUME NEW e \in Maps, e # d PROVE MapTold(e)'
  <2>1. MapTold(e) /\ map'[e] = map[e]
    BY <1>2, <1>4, <1>m DEF MapsTold
  <2>2. \A f \in Maps : map[f] = "dead" => map'[f] = "dead"
    BY <1>1, <1>2, <1>m
  <2> QED
    BY <1>0, <1>1, <2>1, <2>2 DEF MapTold, Told, WithProcesses
<1>5. d \in Maps => MapTold(d)'
  <2>1. map'[d] = s
    BY <1>2, <1>m
  <2> QED
    BY <1>1, <1>2, <2>1 DEF MapTold, Told, FromJoin
<1> QED
  BY <1>0, <1>1, <1>4, <1>5 DEF MapsTold, WithProcesses

LEMMA MapsDie ==
  ASSUME FlowInv, MapsTold, [Next]_vars, NEW d \in AllMaps, ChildDies(d) \/ Pump(d)
  PROVE  MapsTold'
<1>0. got \subseteq got' /\ issues \subseteq issues' /\ Maps' = Maps
  BY Grows DEF Maps
<1>m. Maps \subseteq AllMaps /\ map \in [AllMaps -> MapStates]
  BY DEF Maps, AllMaps, FlowInv, FlowOK
<1>1. CASE ChildDies(d)
  <2>1. /\ pc = "collect" /\ pc' = pc
        /\ map' = [e \in AllMaps |->
                     IF map[e] \in {"build", "wait", "write"} THEN "dead" ELSE map[e]]
        /\ map[d] \in {"build", "wait", "write"}
    BY <1>1 DEF ChildDies, Apart
  <2>2. d \in Maps /\ map'[d] = "dead"
    BY <1>m, <2>1 DEF FlowInv, MapsInOrder
  <2>3. ASSUME NEW e \in Maps PROVE MapTold(e)'
    <3>1. MapTold(e)
      BY DEF MapsTold
    <3>2. map'[e] = "dead" \/ map'[e] = map[e]
      BY <1>m, <2>1
    <3> QED
      BY <1>0, <2>1, <2>2, <3>1, <3>2 DEF MapTold, Told, WithProcesses, FromJoin
  <2> QED
    BY <1>0, <2>1, <2>3 DEF MapsTold, WithProcesses
<1>2. CASE Pump(d)
  <2>1. /\ pc' = pc /\ map' = map /\ lines' \subseteq lines
        /\ \A e \in lines : e \in lines' \/ e \in issues'
    BY <1>2 DEF Pump
  <2>2. ASSUME NEW e \in Maps PROVE MapTold(e)'
    <3>1. MapTold(e)
      BY DEF MapsTold
    <3> QED
      BY <1>0, <2>1, <3>1 DEF MapTold, Told
  <2> QED
    BY <1>0, <2>1, <2>2 DEF MapsTold
<1> QED
  BY <1>1, <1>2

LEMMA MapsStep ==
  ASSUME FlowInv, MapsTold, [Next]_vars
  PROVE  MapsTold'
<1>1. CASE Prepare
  <2>1. map' = map /\ lines' = lines
    BY <1>1 DEF Prepare, StartThreads, StartLidar, TakeZabaged, StartReferences, MergeLidar,
       StartSurfaces, AllSheets, Contours, VegetationStart, TakeSurfaces, Landforms, TakeOsm,
       TakeShade, mapping
  <2>2. /\ pc \in {"start", "lidar", "zabaged", "grid", "merge", "elevation", "lidarWait",
                   "contours", "vegetation", "chm", "landforms", "osm", "shade"}
        /\ pc' \in {"lidar", "zabaged", "grid", "merge", "elevation", "lidarWait", "contours",
                    "vegetation", "chm", "landforms", "osm", "shade", "package", "failed"}
    BY <1>1 DEF Prepare, StartThreads, StartLidar, TakeZabaged, StartReferences, MergeLidar,
       StartSurfaces, AllSheets, Contours, VegetationStart, TakeSurfaces, Landforms, TakeOsm,
       TakeShade, Step
  <2>3. /\ pc \notin WithProcesses /\ pc' \notin WithProcesses
        /\ pc \notin {"failed", "exited"} /\ pc' \notin {"joinLast"} \cup FromJoin
    BY <2>2 DEF WithProcesses, FromJoin
  <2> QED
    BY <2>1, <2>3, MapsKept
<1>2. CASE Package \/ JoinNow \/ TakeVector("ruian", "aopk") \/ TakeVector("aopk", "dtm")
           \/ TakeDtm
  <2>1. /\ map' = map /\ lines' = lines
        /\ pc \in {"package", "joinNow", "ruian", "aopk", "dtm"}
        /\ pc' \in {"joinNow", "ruian", "aopk", "dtm", "maps"}
    BY <1>2 DEF Package, JoinNow, TakeVector, TakeDtm, Step, mapping
  <2>2. /\ pc \notin WithProcesses /\ pc' \notin WithProcesses
        /\ pc \notin {"failed", "exited"} /\ pc' \notin {"joinLast"} \cup FromJoin
    BY <2>1 DEF WithProcesses, FromJoin
  <2> QED
    BY <2>1, <2>2, MapsKept
<1>3. CASE JoinLast \/ Preview \/ Zip \/ ReportIssues
  <2>1. /\ map' = map /\ lines' = lines
        /\ pc \in {"joinLast", "preview", "zip", "report"}
        /\ pc' \in {"preview", "zip", "report", "done"}
    BY <1>3 DEF JoinLast, Preview, Zip, ReportIssues, Step, mapping
  <2>2. /\ pc \notin WithProcesses /\ pc' \notin WithProcesses
        /\ pc \notin {"failed", "exited"} /\ pc \in {"joinLast"} \cup FromJoin
    BY <2>1 DEF WithProcesses, FromJoin
  <2> QED
    BY <2>1, <2>2, MapsKept
<1>4. CASE Raise \/ Exit
  <2>1. /\ map' = map /\ lines' = lines /\ pc' \in {"failed", "exited"}
        /\ pc \in {"lidar", "zabaged", "grid", "merge", "contours", "osm", "joinNow", "maps",
                   "joinLast", "zip", "report", "done", "failed"}
    BY <1>4 DEF Raise, Exit, mapping
  <2>2. /\ pc \notin WithProcesses /\ pc' \notin WithProcesses
        /\ pc' \notin {"joinLast"} \cup FromJoin
    BY <2>1 DEF WithProcesses, FromJoin
  <2> QED
    BY <2>1, <2>2, MapsKept
<1>5. ASSUME NEW t \in Tasks, Task(t) PROVE MapsTold'
  BY <1>5, MapsKept DEF Task, TaskOk, TaskFails, mapping
<1>6. CASE JoinThread \/ WriteRefs
  BY <1>6, MapsKept DEF JoinThread, WriteRefs
<1>7. CASE UNCHANGED vars
  BY <1>7, MapsKept DEF vars, mapping
<1>8. ASSUME NEW d \in AllMaps, Serial(d) \/ Child(d) \/ ChildDies(d) \/ Pump(d)
      PROVE  MapsTold'
  BY <1>8, MapsInSerial, MapsApart, MapsDie
<1> QED
  BY <1>1, <1>2, <1>3, <1>4, <1>5, <1>6, <1>7, <1>8, MapsCollected DEF Next, PackageOutput

\* What the user is told at the end.
LEMMA MissingStep ==
  ASSUME FlowInv, PartsTold, RefsTold, MapsTold, MissingIsReported, [Next]_vars
  PROVE  MissingIsReported'
<1>0. got \subseteq got' /\ issues \subseteq issues' /\ Maps' = Maps
  BY Grows DEF Maps
<1>1. CASE ReportIssues
  <2>1. pc = "report" /\ result' = issues /\ UNCHANGED <<got, task>>
    BY <1>1 DEF ReportIssues, Step
  <2> SUFFICES ASSUME NEW p \in (Parts \cup Maps) \ got
               PROVE  \/ p \in issues
                      \/ p \in Maps /\ "process" \in issues
                      \/ p \in Silent /\ (p \in Tasks => task[p] # "fail")
    BY <1>0, <2>1 DEF MissingIsReported
  <2>2. CASE p \in Parts \ Silent
    BY <2>1, <2>2 DEF Parts, Silent, PartsTold, Told, FromChm, FromOsm, FromShade,
       FromRefs, FromRuian, FromAopk, FromMaps, FromJoin
  <2>3. CASE p = "refs"
    BY <2>1, <2>3 DEF RefsTold, Told, FromJoin, Silent
  <2>5. CASE p \in {"landforms", "preview"}
    BY <2>5 DEF Silent, Tasks
  <2>4. CASE p \in Maps
    <3>1. MapTold(p) /\ lines = {}
      BY <2>1, <2>4 DEF MapsTold, WithProcesses
    <3> QED
      BY <2>1, <2>4, <3>1 DEF MapTold, Told, WithProcesses, FromJoin
  <2> QED
    BY <2>2, <2>3, <2>4, <2>5 DEF Silent
<1>2. CASE ~ReportIssues
  <2>p. ASSUME Prepare PROVE pc' # "done"
    BY <2>p DEF Prepare, StartThreads, StartLidar, TakeZabaged, StartReferences, MergeLidar,
       StartSurfaces, AllSheets, Contours, VegetationStart, TakeSurfaces, Landforms,
       TakeOsm, TakeShade, Step
  <2>o. ASSUME PackageOutput PROVE pc' # "done"
    BY <1>2, <2>o DEF PackageOutput, Package, JoinNow, TakeVector, TakeDtm, BuildMaps,
       SerialEnd, Collect, AwaitJoinThread, AwaitPump, JoinLast, Preview, Zip, Step
  <2>1. pc' = "done" => pc = "done" /\ result' = result
    <3>1. CASE ~Prepare /\ ~PackageOutput
      <4>1. pc' = pc \/ pc' \in {"failed", "exited"}
        BY <3>1, AsideStep
      <4>2. result' = result
        BY <3>1 DEF Next, Raise, Exit, Task, TaskOk, TaskFails, Serial, SerialBegin,
           SerialJoin, SerialMade, SerialMissing, Child, ChildBuilt, ChildHasRefs,
           ChildGivesUp, ChildMade, ChildMissing, ChildDies, Pump, JoinThread, WriteRefs, vars
      <4> QED
        BY <4>1, <4>2
    <3> QED
      BY <2>p, <2>o, <3>1
  <2>2. pc = "done" /\ pc' = "done" => task'["refs"] = task["refs"]
    BY <2>p, <2>o, AsideStep DEF Tasks, FlowInv, WaitsAreOver, FromJoin
  <2>3. \A p \in Silent : p \in Tasks => p = "refs"
    BY DEF Silent, Tasks
  <2> QED
    BY <1>0, <2>1, <2>2, <2>3 DEF MissingIsReported
<1> QED
  BY <1>1, <1>2

\* ReportInv holds at the start, and each step keeps it.
LEMMA ReportInit == Init => ReportInv
<1> SUFFICES ASSUME Init PROVE ReportInv
  OBVIOUS
<1>1. RunInv
  BY InitFlow DEF RunInv
<1>2. PartsTold /\ RefsTold /\ MissingIsReported
  BY DEF Init, PartsTold, RefsTold, MissingIsReported, FromChm, FromOsm,
     FromShade, FromRefs, FromRuian, FromAopk, FromMaps, FromJoin
<1>3. MapsTold
  BY DEF Init, MapsTold, MapTold, Maps, AllMaps, WithProcesses, FromJoin
<1> QED
  BY <1>1, <1>2, <1>3 DEF ReportInv

LEMMA ReportStep == ReportInv /\ [Next]_vars => ReportInv'
<1>1. ReportInv => RunInv
  BY DEF ReportInv
<1>2. ReportInv /\ RunInv' /\ [Next]_vars => ReportInv'
  BY PartsStep, RefsStep, MapsStep, MissingStep DEF ReportInv, RunInv
<1> QED
  BY <1>1, <1>2, RunStep

\* A finished job tells the user of every map that its result lacks, and of every
\* part but the Silent ones (landforms, preview, references of which nothing came):
\* the main thread itself, a process that builds a map through the queue of the log,
\* and where that message was lost, the parent of the process (run_job_pipeline,
\* _package_output, _build_parallel, IssueCollector).
THEOREM NothingMissingIsSilent == Spec => []MissingIsReported
<1>1. ReportInv => MissingIsReported
  BY DEF ReportInv
<1> QED
  BY <1>1, ReportInit, ReportStep, PTL DEF Spec
-----------------------------------------------------------------------------
(* The parts together. *)

\* They do not touch each other.
LEMMA PartSteps ==
  ASSUME [MCNext]_<<part, vars, mailVars, roadVars>>
  PROVE  [Next]_vars /\ [Mail!Next]_(Mail!vars) /\ [Roads!Next]_(Roads!vars)
<1>1. UNCHANGED mailVars => UNCHANGED Mail!vars
  BY DEF mailVars, Mail!vars
<1>2. UNCHANGED roadVars => UNCHANGED Roads!vars
  BY DEF roadVars, Roads!vars
<1>3. QED
  BY <1>1, <1>2 DEF MCNext

\* The mails of a job are in order, whatever is killed and lost.
LEMMA MailsHold == MCSpec => []Mail!MailInv
<1>1. MCInit => Mail!MailInv
  BY NotifiersOK, Mail!MailInit DEF MCInit
<1>2. ASSUME Mail!MailInv, [MCNext]_<<part, vars, mailVars, roadVars>>
      PROVE  Mail!MailInv'
  BY <1>2, NotifiersOK, PartSteps, Mail!MailStep
<1>3. QED
  BY <1>1, <1>2, PTL DEF MCSpec

\* The link goes to the owner once, and again only for a delivery that could not be
\* noted (_notify_private_job, retry_missed_private_mails).
THEOREM LinkIsSentOnce == MCSpec => []ReadyRepeatedOnlyAfterLoss
<1>1. Mail!MailInv => ReadyRepeatedOnlyAfterLoss
  BY NotifiersOK, Mail!MailFacts DEF ReadyRepeatedOnlyAfterLoss
<1>2. QED
  BY <1>1, MailsHold, PTL

\* One failure is reported, however often the job runs, but for deliveries that could
\* not be noted and runs that began beside a thread of an earlier one
\* (notify_private_failure, called from three sides).
THEOREM FailuresAreReportedOnce == MCSpec => []FailureReportedOnce
<1>1. Mail!MailInv => FailureReportedOnce
  BY NotifiersOK, Mail!MailFacts DEF FailureReportedOnce
<1>2. QED
  BY <1>1, MailsHold, PTL

\* The owner does not hear of one run that it is done and that it failed.
THEOREM MailsDoNotContradict == MCSpec => []NotBothMails
<1>1. Mail!MailInv => NotBothMails
  BY NotifiersOK, Mail!MailFacts DEF NotBothMails
<1>2. QED
  BY <1>1, MailsHold, PTL

\* Nor do the roads of a map depend on the other parts.
LEMMA RoadsHold == MCSpec => []Roads!RoadInv
<1>1. MCInit => Roads!RoadInv
  BY RoadsOK, Roads!RoadInit DEF MCInit
<1>2. ASSUME Roads!RoadInv, [MCNext]_<<part, vars, mailVars, roadVars>>
      PROVE  Roads!RoadInv'
  BY <1>2, RoadsOK, PartSteps, Roads!RoadStep
<1>3. QED
  BY <1>1, <1>2, PTL DEF MCSpec

\* Every line is on one stroke, once, and strokes are ways that end only where they
\* have to (strokes()).
THEOREM StrokesAreWays == MCSpec => []StrokesArePaths
<1>1. Roads!RoadInv => StrokesArePaths
  BY RoadsOK, Roads!RoadProperties DEF StrokesArePaths
<1>2. QED
  BY <1>1, RoadsHold, PTL

\* The symbol of a road changes only between runs that are long or fixed, and fixed
\* symbols stay (stroke_codes).
THEOREM WidthChanges == MCSpec => []WidthChangesBetweenLongRuns
<1>1. Roads!RoadInv => WidthChangesBetweenLongRuns
  BY RoadsOK, Roads!RoadProperties DEF WidthChangesBetweenLongRuns
<1>2. QED
  BY <1>1, RoadsHold, PTL

\* The pipeline of a job runs as it does alone: what is read is whole, what is missing
\* is reported, but for the Silent parts, and nobody waits in vain, but for a file that
\* could not be written (run_job_pipeline).
THEOREM PipelineHolds == MCSpec => [](ReadsAreSettled /\ MissingIsReported /\ NobodyWaitsInVain)
<1>1. MCInit => ReportInv
  BY ReportInit DEF MCInit
<1>2. ASSUME ReportInv, [MCNext]_<<part, vars, mailVars, roadVars>>
      PROVE  ReportInv'
  BY <1>2, PartSteps, ReportStep
<1>3. ReportInv => ReadsAreSettled /\ MissingIsReported /\ NobodyWaitsInVain
  BY ReadFacts, WaitFacts DEF ReportInv
<1>4. QED
  BY <1>1, <1>2, <1>3, PTL DEF MCSpec

\* All variables have their types, and the tasks of the pipeline their order: the
\* invariant of the pipeline, and the types of the mails and of the roads.
THEOREM JobInvHolds == MCSpec => []JobInv
<1>1. MCInit => RunInv
  BY RunInit DEF MCInit
<1>2. ASSUME RunInv, [MCNext]_<<part, vars, mailVars, roadVars>>
      PROVE  RunInv'
  BY <1>2, PartSteps, RunStep
<1>3. Mail!MailInv => Mail!TypeOK
  BY DEF Mail!MailInv
<1>4. Roads!RoadInv => Roads!TypeOK
  BY RoadsOK, Roads!RoadProperties
<1>5. RunInv /\ Mail!TypeOK /\ Roads!TypeOK => JobInv
  BY DEF JobInv
<1>6. QED
  BY <1>1, <1>2, <1>3, <1>4, <1>5, MailsHold, RoadsHold, PTL DEF MCSpec
=============================================================================
