----------------------------- MODULE PipelineRun -----------------------------
(***************************************************************************)
(* One run of the pipeline in the subprocess of a job (run_job_pipeline    *)
(* and _package_output): the steps of the main thread, the threads that    *)
(* download and compute for it meanwhile, and the maps of the disciplines  *)
(* that separate processes build (build_discipline_maps).                  *)
(*                                                                         *)
(* What a step computes is left out.  Kept is who waits for whom, what an  *)
(* error of each step leads to (an exception that fails the job, or a      *)
(* message that IssueCollector keeps for the user), and what is there when *)
(* the ZIP is packed.  The job has a bbox, as every job of the form has.   *)
(***************************************************************************)
EXTENDS Naturals, FiniteSets

CONSTANTS
  Disciplines,  \* the maps of a job that is no sprint (les, MTBO)
  MaxFaults     \* bound on the errors of one run

ASSUME RunConstantsOK == MaxFaults \in Nat /\ "sprint" \notin Disciplines

\* What the threads of the background do; streets and residual only for a sprint.
Tasks == {"osm", "residual", "dtm", "zabaged", "ruian", "aopk", "streets",
          "lidar", "surfaces", "shade", "refs"}

\* Parts of the result that may be missing from it, besides the maps.
Parts == {"osm", "surfaces", "vegetation", "landforms", "shade", "refs",
          "ruian", "aopk", "preview"}

VARIABLES
  sprint,     \* the job draws a sprint, and nothing else
  pc,         \* next step of the main thread
  task,       \* "none" (not started), "wait" (behind another), "run", "ok", "fail"
  shadeDone,  \* the event ReferenceDownload.shade_done
  got,        \* parts and maps that are there
  issues,     \* IssueCollector.items
  map,        \* discipline -> state of its map
  join,       \* the thread that joins the references, and writes the file
  joined,     \* refs_joined is filled
  refsFile,   \* _refs_built.json exists
  lines,      \* disciplines whose message is in the queue of the log
  result,     \* what run_job_pipeline returns
  left        \* errors that may still happen

mapping == <<map, join, joined, refsFile, lines>>
vars == <<sprint, pc, task, shadeDone, got, issues, mapping, result, left>>

Maps == IF sprint THEN {"sprint"} ELSE Disciplines
AllMaps == {"sprint"} \cup Disciplines
Messages == Parts \cup AllMaps \cup {"start", "process"}

MainPoints == {"start", "lidar", "zabaged", "grid", "merge", "elevation", "lidarWait",
  "contours", "vegetation", "chm", "landforms", "osm", "shade", "package", "joinNow",
  "ruian", "aopk", "dtm", "maps", "serial", "collect", "joinThread", "pump", "joinLast",
  "preview", "zip", "report", "done", "failed", "exited"}

MapStates == {"none", "build", "wait", "write", "made", "missing", "raised", "dead"}

\* Types of what the order of the steps depends on.
FlowOK ==
  /\ sprint \in BOOLEAN
  /\ pc \in MainPoints
  /\ task \in [Tasks -> {"none", "wait", "run", "ok", "fail"}]
  /\ shadeDone \in BOOLEAN
  /\ map \in [AllMaps -> MapStates]
  /\ join \in {"none", "run", "write", "ok", "failed"} /\ joined \in BOOLEAN /\ refsFile \in BOOLEAN

\* Types of the result, which no guard before the end looks at.
ResultOK ==
  /\ got \subseteq Parts \cup AllMaps /\ issues \subseteq Messages
  /\ lines \subseteq AllMaps /\ result \subseteq Messages
  /\ left \in 0..MaxFaults

TypeOK == FlowOK /\ ResultOK

Init ==
  /\ sprint \in BOOLEAN
  /\ pc = "start"
  /\ task = [t \in Tasks |-> "none"]
  /\ shadeDone = FALSE
  /\ got = {} /\ issues = {} /\ result = {}
  /\ map = [d \in AllMaps |-> "none"]
  /\ join = "none" /\ joined = FALSE /\ refsFile = FALSE /\ lines = {}
  /\ left = MaxFaults

Fault == left > 0 /\ left' = left - 1

Settled(t) == task[t] \notin {"wait", "run"}

\* Les and MTBO let the references download on while their maps are built.
Deferred == ~sprint /\ task["refs"] # "none"

Step(from, to) == pc = from /\ pc' = to
Start(S) == task' = [t \in Tasks |-> IF t \in DOMAIN S THEN S[t] ELSE task[t]]

\* A step of the main thread whose error is a message: log_issue, and go on.
Have(p) == got' = got \cup {p} /\ UNCHANGED <<issues, left>>
Report(p) == issues' = issues \cup {p} /\ UNCHANGED <<got, left>>
TryTo(p) == Have(p) \/ (issues' = issues \cup {p} /\ UNCHANGED got /\ Fault)

\* A part that may be left out with no more than a plain line in the log: a DEM
\* that cannot be read, a preview that fails or runs out of time, a download that
\* brings nothing.
Silent == {"landforms", "preview", "refs"}
Skip(p) == p \in Silent /\ UNCHANGED <<got, issues>> /\ Fault

-----------------------------------------------------------------------------
\* The threads.

\* Serial executors (RUIAN, AOPK, streets; the shade of the job, the references)
\* and the dump that waits for the main OSM query.
Behind == [osm |-> "residual", ruian |-> "aopk", aopk |-> "streets", shade |-> "refs"]

Finish(t, end) ==
  task' = [u \in Tasks |->
             IF u = t THEN end
             ELSE IF t \in DOMAIN Behind /\ Behind[t] = u /\ task[u] = "wait" THEN "run"
             ELSE task[u]]

TaskOk(t) ==
  /\ task[t] = "run"
  /\ Finish(t, "ok")
  /\ shadeDone' = (shadeDone \/ t = "shade")
  /\ UNCHANGED <<sprint, pc, got, issues, mapping, result, left>>

\* Mutant of TaskFails: shade_done is set after the download only.
TaskFailsUnheard(t) ==
  /\ task[t] = "run"
  /\ Fault
  /\ Finish(t, "fail")
  /\ issues' \in {issues} \cup (IF t \in {"ruian", "aopk", "shade"} THEN {issues \cup {t}} ELSE {})
  /\ UNCHANGED <<sprint, pc, shadeDone, got, mapping, result>>

\* Fetches of RUIAN and AOPK and the shade write their message themselves, from
\* the thread, unless the error is one that they do not expect.
TaskFails(t) ==
  /\ task[t] = "run"
  /\ Fault
  /\ Finish(t, "fail")
  /\ shadeDone' = (shadeDone \/ t = "shade")
  /\ issues' \in {issues} \cup (IF t \in {"ruian", "aopk", "shade"} THEN {issues \cup {t}} ELSE {})
  /\ UNCHANGED <<sprint, pc, got, mapping, result>>

-----------------------------------------------------------------------------
\* The main thread up to the maps.

\* OSM, DTM (if the job wants it) and the vectors from the start; each of the
\* three may fail to start.
StartThreads ==
  /\ Step("start", "lidar")
  /\ \E off \in {"nothing", "osm", "dtm", "vectors"},
        residual \in {"wait", "none"}, dtm \in {"run", "none"} :
       /\ Start([osm |-> IF off = "osm" THEN "none" ELSE "run",
                 residual |-> IF ~sprint \/ residual = "none" THEN "none"
                              ELSE IF off = "osm" THEN "run" ELSE "wait",
                 dtm |-> IF off = "dtm" THEN "none" ELSE dtm,
                 zabaged |-> IF off = "vectors" THEN "none" ELSE "run",
                 ruian |-> IF off = "vectors" THEN "none" ELSE "run",
                 aopk |-> IF off = "vectors" THEN "none" ELSE "wait",
                 streets |-> IF off = "vectors" \/ ~sprint THEN "none" ELSE "wait"])
       /\ IF off = "nothing" THEN UNCHANGED <<issues, left>>
                             ELSE issues' = issues \cup {"start"} /\ Fault
  /\ UNCHANGED <<sprint, shadeDone, got, mapping, result>>

StartLidar ==
  /\ Step("lidar", "zabaged")
  /\ Start([lidar |-> "run"])
  /\ UNCHANGED <<sprint, shadeDone, got, issues, mapping, result, left>>

\* The map cannot be without ZABAGED: the exception of the thread is thrown here.
TakeZabaged ==
  /\ pc = "zabaged" /\ Settled("zabaged")
  /\ pc' = IF task["zabaged"] = "fail" THEN "failed" ELSE "grid"
  /\ UNCHANGED <<sprint, task, shadeDone, got, issues, mapping, result, left>>

\* The grid of the map; then the thread of the shade and the references, unless
\* there is no georeference for them.
StartReferences ==
  /\ Step("grid", "merge")
  /\ \/ Start([shade |-> "run", refs |-> "wait"])
     \/ UNCHANGED task
  /\ UNCHANGED <<sprint, shadeDone, got, issues, mapping, result, left>>

\* A crop of an earlier job, or the sheets of this one as they arrive.
MergeLidar ==
  /\ pc = "merge"
  /\ \/ pc' = "elevation"
     \/ Settled("lidar") /\ pc' = IF task["lidar"] = "fail" THEN "failed" ELSE "elevation"
  /\ UNCHANGED <<sprint, task, shadeDone, got, issues, mapping, result, left>>

\* DEM here, DSM and CHM in a thread; restored from the cache, or without DMP,
\* there is nothing left to compute.
StartSurfaces ==
  /\ Step("elevation", "lidarWait")
  /\ \/ Start([surfaces |-> "run"]) /\ UNCHANGED <<got, issues, left>>
     \/ UNCHANGED task /\ TryTo("surfaces")
  /\ UNCHANGED <<sprint, shadeDone, mapping, result>>

AllSheets ==
  /\ pc = "lidarWait" /\ Settled("lidar")
  /\ pc' = IF task["lidar"] = "fail" THEN "failed" ELSE "contours"
  /\ UNCHANGED <<sprint, task, shadeDone, got, issues, mapping, result, left>>

Contours ==
  /\ Step("contours", "vegetation")
  /\ UNCHANGED <<sprint, task, shadeDone, got, issues, mapping, result, left>>

\* Buildings for the vegetation: of the thread, else fetched again; without them
\* the vegetation goes on.
VegetationStart ==
  /\ Step("vegetation", "chm")
  /\ Settled("ruian")
  /\ IF task["ruian"] = "ok" THEN UNCHANGED <<issues, left>>
     ELSE \/ UNCHANGED <<issues, left>>
          \/ issues' \in {issues, issues \cup {"ruian"}} /\ Fault
  /\ UNCHANGED <<sprint, task, shadeDone, got, mapping, result>>

\* _wait_surfaces, then the vegetation from the density of points, or from CHM.
TakeSurfaces ==
  /\ pc = "chm" /\ Settled("surfaces")
  /\ pc' = "landforms"
  /\ \E made \in BOOLEAN :
       /\ got' = got \cup (IF task["surfaces"] = "ok" THEN {"surfaces"} ELSE {})
                     \cup (IF made THEN {"vegetation"} ELSE {})
       /\ issues' = issues \cup (IF task["surfaces"] = "fail" THEN {"surfaces"} ELSE {})
                           \cup (IF made THEN {} ELSE {"vegetation"})
       /\ IF made THEN UNCHANGED left ELSE Fault
  /\ UNCHANGED <<sprint, task, shadeDone, mapping, result>>

\* Cliffs, knolls, boulders.
Landforms ==
  /\ Step("landforms", "osm")
  /\ TryTo("landforms") \/ Skip("landforms")
  /\ UNCHANGED <<sprint, task, shadeDone, mapping, result>>

TakeOsm ==
  /\ Step("osm", "shade") /\ Settled("osm")
  /\ IF task["osm"] = "fail" THEN Report("osm") ELSE TryTo("osm")
  /\ UNCHANGED <<sprint, task, shadeDone, mapping, result>>

\* The shade of the thread, or another attempt: by now there is a DEM for it.
TakeShade ==
  /\ Step("shade", "package")
  /\ task["shade"] # "none" => shadeDone
  /\ IF task["shade"] = "ok" THEN Have("shade") ELSE TryTo("shade")
  /\ UNCHANGED <<sprint, task, shadeDone, mapping, result>>

-----------------------------------------------------------------------------
\* _package_output.

\* join_reference_download, once.  Without a thread the references are built
\* here, or left out: switched off, or still no georeference.
JoinRefs ==
  /\ Settled("refs")
  /\ joined' = TRUE
  /\ CASE task["refs"] = "ok"   -> Have("refs") \/ Skip("refs")
       [] task["refs"] = "fail" -> Report("refs")
       [] OTHER                 -> TryTo("refs") \/ UNCHANGED <<got, issues, left>>

Package ==
  /\ pc = "package"
  /\ pc' = IF Deferred THEN "ruian" ELSE "joinNow"
  /\ UNCHANGED <<sprint, task, shadeDone, got, issues, mapping, result, left>>

JoinNow ==
  /\ Step("joinNow", "ruian")
  /\ JoinRefs
  /\ UNCHANGED <<sprint, task, shadeDone, map, join, refsFile, lines, result>>

\* RUIAN and AOPK of the thread, else fetched here.
TakeVector(t, to) ==
  /\ pc = t /\ pc' = to /\ Settled(t)
  /\ IF task[t] = "ok" THEN Have(t) ELSE TryTo(t)
  /\ UNCHANGED <<sprint, task, shadeDone, mapping, result>>

\* Mutant of TakeDtm: nobody waits for the thread of the DTM.
TakeDtmEarly ==
  /\ Step("dtm", "maps")
  /\ UNCHANGED <<sprint, task, shadeDone, got, issues, mapping, result, left>>

\* DTM (its failure is told in the summary of the DTM only) and the streets.
TakeDtm ==
  /\ Step("dtm", "maps")
  /\ Settled("dtm") /\ Settled("streets")
  /\ UNCHANGED <<sprint, task, shadeDone, got, issues, mapping, result, left>>

\* In processes of their own, or one after the other: one discipline, a sprint,
\* switched off, too little free memory.
BuildMaps ==
  /\ pc = "maps"
  /\ \/ pc' = "serial" /\ UNCHANGED <<map, join>>
     \/ /\ ~sprint /\ Cardinality(Maps) > 1
        /\ pc' = "collect"
        /\ map' = [d \in AllMaps |-> IF d \in Maps THEN "build" ELSE "none"]
        /\ join' = IF Deferred THEN "run" ELSE "none"
  /\ UNCHANGED <<sprint, task, shadeDone, got, issues, joined, refsFile, lines, result, left>>

-----------------------------------------------------------------------------
\* build_discipline_maps_serial in the main thread.

Todo == {d \in Maps : map[d] \in {"none", "dead"}}
InHand == {d \in Maps : map[d] \in {"build", "write"}}
SetMap(d, s) == map' = [map EXCEPT ![d] = s]

SerialBegin(d) ==
  /\ pc = "serial" /\ d \in Todo /\ InHand = {}
  /\ SetMap(d, "build")
  /\ UNCHANGED <<sprint, pc, task, shadeDone, got, issues, join, joined, refsFile, lines,
                 result, left>>

\* Just before the map is written it needs the references; a sprint has waited
\* for its own dump on the way.
SerialJoin(d) ==
  /\ pc = "serial" /\ map[d] = "build"
  /\ Settled("residual")
  /\ SetMap(d, "write")
  /\ IF Deferred /\ ~joined THEN JoinRefs ELSE UNCHANGED <<joined, got, issues, left>>
  /\ UNCHANGED <<sprint, pc, task, shadeDone, join, refsFile, lines, result>>

SerialMade(d) ==
  /\ pc = "serial" /\ map[d] = "write"
  /\ SetMap(d, "made")
  /\ got' = got \cup {d}
  /\ UNCHANGED <<sprint, pc, task, shadeDone, issues, join, joined, refsFile, lines,
                 result, left>>

\* prepare_oom_map returns None; an exception of it fails the job.
SerialMissing(d) ==
  /\ pc = "serial" /\ d \in InHand
  /\ Fault
  /\ \/ SetMap(d, "missing") /\ issues' = issues \cup {d} /\ UNCHANGED pc
     \/ SetMap(d, "raised") /\ pc' = "failed" /\ UNCHANGED issues
  /\ UNCHANGED <<sprint, task, shadeDone, got, join, joined, refsFile, lines, result>>

SerialEnd ==
  /\ Step("serial", "joinLast")
  /\ Todo = {} /\ InHand = {}
  /\ UNCHANGED <<sprint, task, shadeDone, got, issues, mapping, result, left>>

-----------------------------------------------------------------------------
\* _build_parallel: a process for each discipline, a thread that joins the
\* references for them, a thread that pumps their log.

Apart(d) == pc = "collect" /\ map[d] # "none"

ChildBuilt(d) ==
  /\ Apart(d) /\ map[d] = "build"
  /\ SetMap(d, IF Deferred THEN "wait" ELSE "write")
  /\ UNCHANGED <<sprint, pc, task, shadeDone, got, issues, join, joined, refsFile, lines,
                 result, left>>

\* _RefsFile: wait for the file of the parent.
ChildHasRefs(d) ==
  /\ Apart(d) /\ map[d] = "wait" /\ refsFile
  /\ SetMap(d, "write")
  /\ UNCHANGED <<sprint, pc, task, shadeDone, got, issues, join, joined, refsFile, lines,
                 result, left>>

ChildMade(d) ==
  /\ Apart(d) /\ map[d] = "write"
  /\ SetMap(d, "made")
  /\ got' = got \cup {d}
  /\ UNCHANGED <<sprint, pc, task, shadeDone, issues, join, joined, refsFile, lines,
                 result, left>>

\* No map, with a message in the queue; or an exception for the parent.
ChildMissing(d) ==
  /\ Apart(d) /\ map[d] \in {"build", "write"}
  /\ Fault
  /\ \/ SetMap(d, "missing") /\ lines' = lines \cup {d}
     \/ SetMap(d, "raised") /\ UNCHANGED lines
  /\ UNCHANGED <<sprint, pc, task, shadeDone, got, issues, join, joined, refsFile, result>>

\* A process that is killed breaks the pool: the others are stopped, too, and
\* messages that they have not yet handed over are lost.
ChildDies(d) ==
  /\ Apart(d) /\ map[d] \in {"build", "wait", "write"}
  /\ Fault
  /\ map' = [e \in AllMaps |-> IF map[e] \in {"build", "wait", "write"} THEN "dead" ELSE map[e]]
  /\ lines' \in SUBSET lines
  /\ UNCHANGED <<sprint, pc, task, shadeDone, got, issues, join, joined, refsFile, result>>

\* No file, after the 6 hours of _REFS_WAIT_MAX_S: a map without templates.
ChildGivesUp(d) ==
  /\ Apart(d) /\ map[d] = "wait" /\ ~refsFile
  /\ join = "failed"
  /\ SetMap(d, "write")
  /\ UNCHANGED <<sprint, pc, task, shadeDone, got, issues, join, joined, refsFile, lines,
                 result, left>>

JoinThread ==
  /\ join = "run"
  /\ JoinRefs
  /\ join' = "write"
  /\ UNCHANGED <<sprint, pc, task, shadeDone, map, refsFile, lines, result>>

\* write_refs_file; an error of it ends the thread, and nobody hears of it.
WriteRefs ==
  /\ join = "write"
  /\ \/ join' = "ok" /\ refsFile' = TRUE /\ UNCHANGED left
     \/ join' = "failed" /\ UNCHANGED refsFile /\ Fault
  /\ UNCHANGED <<sprint, pc, task, shadeDone, got, issues, map, joined, lines, result>>

Pump(d) ==
  /\ d \in lines
  /\ issues' = issues \cup {d} /\ lines' = lines \ {d}
  /\ UNCHANGED <<sprint, pc, task, shadeDone, got, map, join, joined, refsFile, result, left>>

Collect ==
  /\ Step("collect", "joinThread")
  /\ \A d \in Maps : map[d] \in {"made", "missing", "raised", "dead"}
  /\ issues' = issues \cup {d \in Maps : map[d] = "raised"}
  /\ UNCHANGED <<sprint, task, shadeDone, got, mapping, result, left>>

AwaitJoinThread ==
  /\ Step("joinThread", "pump")
  /\ join \notin {"run", "write"}
  /\ UNCHANGED <<sprint, task, shadeDone, got, issues, mapping, result, left>>

\* Mutant of AwaitPump: what is still in the queue is left there.
AwaitPumpNot ==
  /\ pc = "pump"
  /\ refsFile' = FALSE
  /\ pc' = IF Todo = {} THEN "joinLast" ELSE "serial"
  /\ issues' = issues \cup (IF Todo = {} THEN {} ELSE {"process"})
  /\ UNCHANGED <<sprint, task, shadeDone, got, map, join, joined, lines, result, left>>

\* The queue is emptied within the 10 s that the parent waits for it.  Maps of
\* the processes that died are built once more, here.
AwaitPump ==
  /\ pc = "pump" /\ lines = {}
  /\ refsFile' = FALSE
  /\ pc' = IF Todo = {} THEN "joinLast" ELSE "serial"
  /\ issues' = issues \cup (IF Todo = {} THEN {} ELSE {"process"})
  /\ UNCHANGED <<sprint, task, shadeDone, got, map, join, joined, lines, result, left>>

-----------------------------------------------------------------------------
\* The end.

\* Also when no map came to need them, the references go into the ZIP.
JoinLast ==
  /\ Step("joinLast", "preview")
  /\ IF Deferred /\ ~joined THEN JoinRefs ELSE UNCHANGED <<joined, got, issues, left>>
  /\ UNCHANGED <<sprint, task, shadeDone, map, join, refsFile, lines, result>>

Preview ==
  /\ Step("preview", "zip")
  /\ TryTo("preview") \/ Skip("preview")
  /\ UNCHANGED <<sprint, task, shadeDone, mapping, result>>

\* build_oom_zip and the copies beside it.
Zip ==
  /\ Step("zip", "report")
  /\ UNCHANGED <<sprint, task, shadeDone, got, issues, mapping, result, left>>

ReportIssues ==
  /\ Step("report", "done")
  /\ result' = issues
  /\ UNCHANGED <<sprint, task, shadeDone, got, issues, mapping, left>>

\* Exceptions of the steps that nobody catches.
Raise ==
  /\ pc \in {"lidar", "zabaged", "grid", "merge", "contours", "osm", "joinNow", "maps",
            "joinLast", "zip", "report"}
  /\ pc = "zabaged" => task["zabaged"] = "none"
  /\ Fault
  /\ pc' = "failed"
  /\ UNCHANGED <<sprint, task, shadeDone, got, issues, mapping, result>>

\* The interpreter ends after its threads, those that nobody waits for, too.
Exit ==
  /\ pc \in {"done", "failed"}
  /\ \A t \in Tasks : Settled(t)
  /\ pc' = "exited"
  /\ UNCHANGED <<sprint, task, shadeDone, got, issues, mapping, result, left>>

-----------------------------------------------------------------------------

Task(t) == TaskOk(t) \/ TaskFails(t)

Prepare ==
  \/ StartThreads \/ StartLidar \/ TakeZabaged \/ StartReferences \/ MergeLidar
  \/ StartSurfaces \/ AllSheets \/ Contours \/ VegetationStart \/ TakeSurfaces
  \/ Landforms \/ TakeOsm \/ TakeShade

PackageOutput ==
  \/ Package \/ JoinNow \/ TakeVector("ruian", "aopk") \/ TakeVector("aopk", "dtm")
  \/ TakeDtm \/ BuildMaps \/ SerialEnd \/ Collect \/ AwaitJoinThread \/ AwaitPump
  \/ JoinLast \/ Preview \/ Zip \/ ReportIssues

Serial(d) == SerialBegin(d) \/ SerialJoin(d) \/ SerialMade(d) \/ SerialMissing(d)
Child(d) ==
  \/ ChildBuilt(d) \/ ChildHasRefs(d) \/ ChildGivesUp(d)
  \/ ChildMade(d) \/ ChildMissing(d)

Next ==
  \/ Prepare \/ PackageOutput \/ Raise \/ Exit
  \/ \E t \in Tasks : Task(t)
  \/ \E d \in AllMaps : Serial(d) \/ Child(d) \/ ChildDies(d) \/ Pump(d)
  \/ JoinThread \/ WriteRefs

Spec == Init /\ [][Next]_vars

-----------------------------------------------------------------------------
\* Whoever reads what a thread makes reads it whole: the vegetation and what
\* follows it the surfaces, each map the references, the DTM and the streets,
\* the ZIP everything, also if the maps came out of processes that died.
ReadsAreSettled ==
  /\ pc \in {"landforms", "osm", "shade"} => Settled("surfaces")
  /\ \A d \in AllMaps :
       /\ map[d] \in {"build", "wait", "write"} => Settled("dtm") /\ Settled("streets")
       /\ map[d] = "write" => Settled("refs") /\ Settled("residual")
  /\ pc \in {"zip", "report", "done"} => \A t \in Tasks \ {"residual"} : Settled(t)

\* A finished job tells the user of every map that is missing from its result,
\* and of every part that is not Silent, whichever thread or process failed to
\* make it; of the references, too, when their thread failed.  (A process that was
\* killed may take the message of another with it; that it died is told then.)
MissingIsReported ==
  pc = "done" =>
    \A p \in (Parts \cup Maps) \ got :
      \/ p \in result
      \/ p \in Maps /\ "process" \in result
      \/ p \in Silent /\ (p \in Tasks => task[p] # "fail")

\* Nobody waits in vain after an error of a task: for an event that no thread is
\* left to set, for a file that no thread is left to write, behind a task that is
\* over.  (Every other wait is for a task, and each task ends.)  One wait is in
\* vain: that for the file of the references when it could not be written.
NobodyWaitsInVain ==
  /\ pc = "shade" /\ ~shadeDone => task["shade"] \in {"none", "run"}
  /\ \A d \in AllMaps : map[d] = "wait" /\ ~refsFile => join \in {"run", "write", "failed"}
  /\ \A t \in DOMAIN Behind : task[Behind[t]] = "wait" => task[t] \in {"wait", "run"}

-----------------------------------------------------------------------------
\* Why both hold: an inductive invariant.  A task is started at one point of the
\* main thread; once it is settled it stays so.

\* Before the maps, nothing of them is there.
NoMapsYet ==
  pc \in {"start", "lidar", "zabaged", "grid", "merge", "elevation", "lidarWait", "contours",
         "vegetation", "chm", "landforms", "osm", "shade", "package"} =>
    (\A d \in AllMaps : map[d] = "none") /\ ~joined /\ ~refsFile /\ join = "none"

\* The points of the main thread after each wait.
FromJoin == {"preview", "zip", "report", "done"}
FromMaps == {"maps", "serial", "collect", "joinThread", "pump", "joinLast"} \cup FromJoin
FromAopk == {"dtm"} \cup FromMaps
FromRuian == {"aopk"} \cup FromAopk
FromRefs == {"ruian"} \cup FromRuian
FromOsm == {"shade", "package", "joinNow"} \cup FromRefs
FromChm == {"landforms", "osm"} \cup FromOsm
FromSheets == {"contours", "vegetation", "chm"} \cup FromChm
FromZabaged == {"grid", "merge", "elevation", "lidarWait"} \cup FromSheets

WaitsAreOver ==
  /\ pc \in FromZabaged => Settled("zabaged")
  /\ pc \in FromSheets => Settled("lidar")
  /\ pc \in FromChm => Settled("surfaces")
  /\ pc \in FromOsm => Settled("osm")
  /\ pc \in FromRuian => Settled("ruian")
  /\ pc \in FromAopk => Settled("aopk")
  /\ pc \in FromMaps => Settled("dtm") /\ Settled("streets")
  /\ pc \in FromJoin => Settled("refs")
  /\ pc \in FromRefs /\ ~Deferred => Settled("refs")
  /\ joined => Settled("refs")
  /\ ~sprint => task["residual"] = "none"

\* The thread of the references: first the shade, with its event.
ShadeFirst ==
  /\ task["shade"] = "none" => task["refs"] = "none"
  /\ task["shade"] # "wait"
  /\ task["shade"] = "run" => task["refs"] = "wait"
  /\ task["shade"] \in {"ok", "fail"} => shadeDone

\* A task that waits has one before it that will start it.
InOrder == \A t \in DOMAIN Behind : task[Behind[t]] = "wait" => task[t] \in {"wait", "run"}

\* The processes and the thread that joins the references for them.
MapsInOrder ==
  /\ refsFile => joined
  /\ pc \in {"collect", "joinThread", "pump"} => ~sprint
  /\ pc = "collect" => (Deferred => join # "none") /\ (join = "ok" => refsFile)
  /\ join \in {"write", "ok", "failed"} => joined
  /\ pc \in {"maps", "ruian", "aopk", "dtm", "joinNow"} =>
       (\A d \in AllMaps : map[d] = "none") /\ join = "none" /\ ~refsFile
  /\ \A d \in AllMaps :
       /\ d \notin Maps => map[d] = "none"
       /\ map[d] = "wait" => pc = "collect" /\ Deferred
       /\ map[d] \in {"build", "write"} =>
            /\ pc \in {"collect", "serial", "failed", "exited"}
            /\ Settled("dtm") /\ Settled("streets")
       /\ map[d] = "write" => Settled("refs") /\ Settled("residual")

\* The order of the steps keeps itself, whatever they find and report.
FlowInv ==
  FlowOK /\ NoMapsYet /\ WaitsAreOver /\ ShadeFirst /\ InOrder /\ MapsInOrder

\* FlowInv, with the types of what the steps find and report.
RunInv == FlowInv /\ ResultOK

-----------------------------------------------------------------------------
\* The same for MissingIsReported: what each step has behind it is there or told.

FromShade == {"package", "joinNow"} \cup FromRefs
WithProcesses == {"collect", "joinThread", "pump"}

Told(p) == p \in got \cup issues

PartsTold ==
  /\ pc \in {"lidarWait", "contours", "vegetation", "chm"} =>
       task["surfaces"] # "none" \/ Told("surfaces")
  /\ pc \in FromChm => Told("surfaces") /\ Told("vegetation")
  /\ pc \in FromOsm => Told("osm")
  /\ pc \in FromShade => Told("shade")
  /\ pc \in FromRuian => Told("ruian")
  /\ pc \in FromAopk => Told("aopk")

RefsTold ==
  /\ joined => Told("refs") \/ task["refs"] # "fail"
  /\ pc \in FromRefs /\ ~Deferred => joined
  /\ pc \in FromJoin => joined

\* The message about a map may be on its way through the queue, or lost with the
\* process that wrote it; the dead process is told when the queue is empty.
MapTold(d) ==
  CASE map[d] = "made"    -> d \in got
    [] map[d] = "missing" -> \/ Told(d) \/ d \in lines \/ "process" \in issues
                             \/ pc \in WithProcesses /\ \E e \in Maps : map[e] = "dead"
    [] map[d] = "raised"  -> Told(d) \/ pc \in {"collect", "failed", "exited"}
    [] OTHER              -> pc \notin {"joinLast"} \cup FromJoin

MapsTold ==
  /\ lines # {} => pc \in WithProcesses
  /\ \A d \in Maps : MapTold(d)
  /\ pc \in {"joinThread", "pump"} =>
       \A d \in Maps : map[d] \in {"made", "missing", "raised", "dead"}

ReportInv == RunInv /\ PartsTold /\ RefsTold /\ MapsTold /\ MissingIsReported

=============================================================================
