# Podkladarna: a TLA+ model of the job server and its pipeline

Podkladarna takes requests for orienteering base maps, downloads public data and computes a map
package. One request is one *job*; a job takes minutes to more than an hour of CPU and most of the
memory of the machine, so exactly one is to compute at a time, over two instances of the server (A,
stable, and B, test) that share the machine. This directory specifies how jobs get from a request
to their end, how a job's pipeline works, what the instances share on disk, checks it with TLC on
small instances and proves the central invariants with TLAPS.

## 1. Inventory

| Component | State it keeps | Operations | Properties that make it correct |
|---|---|---|---|
| Job queue and runner threads, `app/worker.py` | `_running`, `_queue`, `_slot`; one thread per running job | `enqueue`, `_start_next`, `_run`, `_return_to_queue`, `_drain_watch`, `recover_after_restart`, `requeue_after_restart` | one job at a time; no job is lost, waits twice or is overwritten; the queue never stands; every accepted job ends |
| Job subprocess, `app/job_worker.py` | the row of its job, its log | `run_job`, the two mails, `retry_missed_private_mails` | one final status; at most one mail of each kind, and one in the end |
| Jobs table, `app/db.py` (SQLite) | status, options, log, token per job | `create_job`, `update_job`, `delete_job`, `mark_interrupted_running_jobs`, `list_queued_job_ids` | statuses agree with what is in memory; a computing job is kept |
| Endpoints, `app/main.py`, `app/rate_limit.py` | none of their own | `POST /api/jobs`, `POST /api/jobs/{id}/start`, reads, downloads | limits of the queue and per address; a refused job does not stay active |
| Shared slot, `app/slot_lock.py` | `_fd`, the lock on a file (`flock`) | `try_acquire`, `acquire`, `release`, `held_by_other` | mutual exclusion over both instances, freed by a crash |
| Deployment, `update-nas-ab.sh`, `nas-lib.sh` | the mark `.deploy-drain` | mark, poll `/api/health`, replace the container, remove the mark | never interrupts a computing job, loses no waiting one |
| Mail, `app/mail.py` and the mail functions of `job_worker.py` | log lines that say what was sent | private link, failure notice, retry | nobody is told twice, or both that a run ended well and that it failed |
| LiDAR cache, `app/download_cache.py`, `pipeline/fetch_openzu.py`, `prepare_lidar.py`, `dem_prep.py`, `source_meta.py` | sheets, crops and elevation models with a `meta.json` each | download, check of the version, crop, restore, persist, prune | a job works with whole and current files; the metadata name what it used |
| OSM download, `pipeline/osm_paths.py` (2005-2412) | `_MIRROR_FAILED_AT`, the cached response | tiles, rounds over mirrors and the map API, merging, caching | what is cached, or comes without an issue, is whole and without duplicates |
| Pipeline orchestration, `pipeline/run_job.py`, `discipline_maps.py`, `job_progress.py`, `build_stats.py` | background threads, processes of the maps, list of issues | start, join, package | what a step reads is there; a failure becomes an issue, not a hole; nobody waits for ever |
| Road strokes, `pipeline/road_strokes.py` | none (lines in, symbols out) | `strokes`, `stroke_codes` | the symbol of a road changes only between long runs |
| Cleanup, `app/cleanup.py` | time of the last run | `purge_old_jobs`, orphaned directories | never touches a live job |
| Tiles, `app/tiles.py` | files | `fetch_tile` | a stored tile is whole |
| Other geometry and cartography, the rest of `app/pipeline/` | none (files in, files out) | numeric algorithms | out of scope, see section 8 |
| Feedback, settings, texts, web front end, scripts | little or none | | out of scope, see section 8 |

### How they interact

    client --POST--> event loop / thread pool --enqueue--> _running, _queue --> runner thread
                          |                                   ^   ^                  |
                          v                                   |   |             Popen, wait
                      jobs table <---- recovery at startup ---+   |                  v
                          ^                                  drain watch      job subprocess
                          |                                       ^                  |
                          +------- final status, log -------------|------------------+
    deployment --.deploy-drain--> is_draining -------------------+
               --GET /api/health--> _running           other instance --flock--> slot file

* The event loop (`async def api_create_job`), the thread pool (`def api_start_job`), one runner
  thread per started job, the watch thread, the startup handler and the cleanup run concurrently
  in one process. They share `_running` and `_queue` under `_lock`, but write the jobs table
  outside it.
* The subprocess shares only the table and the job's directory with the server. The runner thread
  learns of its end from the exit code.
* The two instances share one lock file. The deployment shares one file with each instance and
  otherwise reads `/api/health`.
* Inside the subprocess the main thread of `run_job_pipeline` starts background threads for
  downloads and derived data, joins each where it needs it, and packs the result through a pool of
  processes, one per map. The downloads go to a directory that both instances share; what keeps
  two jobs apart there is the slot.

### What is hard

Concurrency: the lock sections and the statements beside them. Crash and restart: the queue is in
memory, the statuses on disk. Deployment: a protocol of polling a flag that threads set and clear.
Timeouts: of the job, of the wait for the slot, of the health request. Partial failure: a locked
database between two steps, a download that ends half-way, a process of the pool that is killed.
Staleness: files and the `meta.json` that describes them are written one after the other.
PROJECT.json lists each such hazard at its line with the properties that cover it, or the reason
why none does yet.

## 2. Modules

| Module | What it is |
|---|---|
| `JobQueue` | queue, runner threads, table, endpoints, deployment; its properties and inductive invariants |
| `MCJobQueue` | constants for TLC: symmetry and how often each external event may happen |
| `MCLiveness` | the queue and the mails with their fairness, for the liveness properties |
| `JobQueue_proofs` | theorems about types, threads, the slot and deployments |
| `JobTable_proofs` | theorems about the table, the startup handler, deletion and the limit of the queue |
| `SlotMutex` | abstract: what the slot promises to the instances |
| `SharedSlot` | the lock file, the descriptors, the probes; implements `SlotMutex` |
| `DownloadCache` | the LiDAR data in the shared directory; sees `SlotMutex` only |
| `DownloadCache_proofs` | theorems about versions, sheets, crops and elevation models |
| `OsmDownload` | the OSM data of one area, and their cached response |
| `OsmDownload_proofs` | a theorem about what is cached and returned |
| `MCSharedDirectory` | what the instances share: `SharedSlot`, `DownloadCache`, `OsmDownload` |
| `MCSharedDirectory_proofs` | the invariant and the refinement of the slot, and the theorems about downloads for what the instances share |
| `PrivateMail` | the mails to the owner of one job |
| `PrivateMail_proofs` | theorems about who is told what, and how often |
| `PipelineRun` | main thread, background threads and map processes of one job |
| `RoadStrokes` | the strokes of a road network and the symbols along them |
| `RoadStrokes_proofs` | theorems about strokes and symbols |
| `MCJobProcess` | what the subprocess does: `PipelineRun`, `RoadStrokes`, `PrivateMail` |
| `MCJobProcess_proofs` | the invariant of the pipeline, and the theorems about pipeline, mails and roads for what the subprocess does |

How they fit together. `JobQueue` refines `SlotMutex` by the mapping `slotHolder` (this instance,
the other one, or nobody), and `SharedSlot` refines the same module by `holderOf`; so the slot that
the queue relies on is the one that the lock file provides. `DownloadCache` takes the actions
`Take` and `Drop` of `SlotMutex` for the beginning and the end of a job: what it needs of the queue
is that two jobs never compute at once. `PrivateMail` and `PipelineRun` show in detail what is a single
action of `JobQueue` (`ChildDone`, `ChildFail` and the like).

`MCSharedDirectory`, `MCJobProcess` and `MCLiveness` put modules that share no variable side by side: a variable
`part` chooses at the start which of them the behaviour explores, and the others stay as they
were. That loses no behaviour of a part, because no part reads what another one writes, and it
avoids the product of their states. A module and its proofs are instantiated together (`Cache ==
INSTANCE DownloadCache_proofs ...`), so the lemmas about a part are at hand where the parts are put
together.

### JobQueue: state

| Variable | Code |
|---|---|
| `status`, `owner` | columns `status` and `options_json.client_ip` of table `jobs`; "deleted" is a row that is gone; "done" also stands for `done_with_errors` |
| `running`, `queue` | `worker._running`, `worker._queue` |
| `pc`, `arg` | the point where each thread is, between two lock sections, statements or system calls, and the job it works on |
| `child` | the subprocess of each runner thread: started, in the pipeline, status written and mailing, exited |
| `slotFd`, `other` | `SharedSlot._fd` of this instance, and the lock of the other one |
| `drain` | the deployment: no mark; polling; it has heard "busy": false; container replaced |
| `todo` | the list that `requeue_after_restart` works through |
| `left` | how often each external event may still happen |

### JobQueue: actions

| Actions | Code |
|---|---|
| `CreateJob`, `StartJob` | `POST /api/jobs` up to `db.create_job`; `POST /start` up to `worker.enqueue` |
| `EnqueueRefused`, `EnqueueWaiting`, `EnqueueFirst`, `Launch` | the lock section of `enqueue`, with the row it writes there, and what follows it |
| `DirMissing`, `RunBegin`, `Acquire...`, `NotAcquired`, `Acquired`, `Spawn`, `ChildExited`, `JobTimedOut`, `RunError`, `ReturnToQueue`, `ReturnedRow`, `ReleaseSlot`, `ClearRunning` | `_run`, in the order of its statements |
| `NextCheck`, `PopNext`, `PopNothing`, `WatchTick` | `_start_next`, `_drain_watch` |
| `ChildStart`, `ChildDone`, `ChildFail`, `ChildExit`, `ChildNoJob`, `ChildKilled` | `job_worker.run_job`, or a kill from outside |
| `Crash`, `Recover`, `Requeue`, `BootDone` | a restart of the process and the startup handler |
| `DeployBegin` ... `DeployInterrupted` | `update-nas-ab.sh`, `nas_wait_until_idle` |
| `DeleteCheck`, `DeleteRow` | `db.delete_job` |
| `...Fault` | a database statement that fails ("database is locked") at that point |
| `OtherTakes`, `OtherReleases` | the other instance computes, or probes the lock |

`enqueue` writes the row of a *waiting* job inside its lock section, so that is one action. It
writes the row of a *started* job after it, so that is two. The same distinction is made
everywhere: an action ends where another thread may come in.

`Launch` needs an identity for the new thread; with three identities no run is ever short of one
in a way that hides a behaviour, because a thread returns its identity when it ends and at most
two returned threads and one new one are alive in the states that the runs reach.

What is abstracted: a job is its number; names, options, logs and times are left out. The limit of
jobs per hour is left out, the limit of active jobs is kept. `_terminate_process_tree` is one step:
the process group is gone afterwards. A probe of `held_by_other` looks to this instance like a very
short job of the other one and is covered by `OtherTakes`. The wait for the slot polls every two
seconds; a poll that changes nothing is a stutter.

### SharedSlot

`owner` is whose descriptor has the file locked (an instance's `_fd`, or a prober's own), `fd` says
that `SharedSlot._fd` is set, `mutex` who is in a section of `_mutex`, `pc` the point of each
runner and prober. `TryAcquire`, `TryRefused`, `ReleaseNothing`, `ReleaseUnlock`, `ReleaseClose`
are `try_acquire` and `release` (which unlocks and then closes, inside the mutex); `ProbeLook`,
`ProbeLock`, `ProbeBusy`, `ProbeUnlock` are `held_by_other`, which looks at `_fd` outside the
mutex. `Crash` is the death of a process, after which the kernel drops its locks.

### DownloadCache

One sheet and one area stand for all. Per product (`DMR`, `OK`, `1G`): `remote`, the version the
server offers; `sheet`, the LAZ file with version and whether it is whole; `seen`, its mtime;
`stored`, the version in `meta.json`. `crops`, `aoi` and `surf` are the derived files with the
fingerprints noted beside them; `job` is what the process of each instance knows. The actions
follow `_cached_laz`, `_sheet_laz_current` and `_download_and_extract` (`UseCached`, `UseChecked`,
`FetchStart`, `FetchDone`, `FetchFails`, `WriteMeta`), `prepare_lidar` (`CropHit`, `CropBuild`,
`CropForced`, `CropCopied`, `CropMeta`), the crop of the area and the elevation model (`RestoreCrop`,
`PersistGround`, `GroundCopied`, `PersistVeg`, `VegCopied`, `PersistMeta`, `RestoreSurfaces`,
`BuildSurfaces`, `SurfacesCopied`, `SurfMeta`), `resolve_dmp_product` (`Record`), `Prune`, `Publish`,
`Kill`, `Raise` and `ThreadBreaks`. The two sides (terrain and surface model) download and crop
concurrently. Every file that is written in place begins cut (`Cut`) and is whole one action later:
the LAZ that is extracted, the crop of an area that a forced refresh keeps, and whatever
`link_or_copy` copies, because the cache and the jobs are different mounts. (The crop of a whole
sheet is moved into its place with `os.replace` and is never cut.)

A kill of the process, an error of the disk in a thread (`ThreadBreaks`) and one in the main thread
(`Raise`) may hit between any two actions. At some of these points the code does not survive it: what
is left behind is taken for good by later jobs. `AtRisk` names them, and with `HitAnywhere = FALSE`
nothing hits there:

* while a LAZ is being extracted: the cut file has more than 1000 bytes;
* between the extraction and the note, if the sheet has no note yet and a newer version was published
  meanwhile (`Overtaken`): the mtime is then newer than that version;
* while the crop of an area, the points of an area or an elevation model are copied over an older
  one whose `meta.json` (with the same fingerprint, for an elevation model) still vouches for them;
* while a crop that a forced refresh has replaced is yet to be noted.

`PruneSheet` likewise does not leave an overtaken sheet without its note. With `HitAnywhere = TRUE`
TLC finds each of the first four properties of the cache violated (section 4).

### OsmDownload

`tile`, `attempt` and `todo` are the loops over tiles, rounds and mirrors; `cooling` is
`_MIRROR_FAILED_AT`, by which `todo` puts the mirrors that work before those that failed lately;
`failed` and `fallback` are what `status` and the issue are made of; `merged` and `response` (the
cached one) hold items: an element, its key, and the tile it came with. `MirrorAnswers`, `MirrorFails`,
`ApiAnswers` and `ApiFails` are the outcomes of a request, `ConnectionCut` an error that nobody
catches before `prepare_osm_paths` ends. An answer that `_fetch_overpass` accepts is taken to be whole; `Store` and `StoreFails` end `fetch_osm_path_elements`.
Whether a cached response has expired is decided anew at every look. The two tiles hold a way that
crosses their border, a relation (which the map API does not give) and two nodes with equal tags.

### PrivateMail

`at` is the point of each sender: the subprocess, the startup handler and the daemon threads
`private-fail-mail`. A mail is three actions: look into the log, send, note in the log (`Check...`,
`Send`, `Note`). `noted` is the log. Five history variables record what the owner got: `sent` counts
the mails of each kind, `about` holds the runs they were about, `lost` counts deliveries that could
not be noted, `overlaps` counts runs that began while a notifier of an earlier run was at work, and
`broken` holds the runs that failed after "done".

### PipelineRun

`pc` is the next step of the main thread, in the order of `run_job_pipeline` and
`_package_output`; `task` the state of each background thread, where "wait" is a thread whose
predecessor starts it (`Behind`); `map` the state of each map in the pool; `join`, `joined` and
`refsFile` the thread that waits for the references on behalf of the processes; `lines` the queue of
log messages; `issues` what the user will be told. Any task, step or process may fail as long as
`left` allows. Most failures are an issue (`TryTo`); those that are a plain line in the log leave the
part out without one (`Silent`, `Skip`). `JoinThread` and `WriteRefs` are the thread that joins the
references and then writes their file, which may fail; a process then waits for 6 hours and makes its
map without templates (`ChildGivesUp`). The path on which processes die and the maps are built
serially is included.

### RoadStrokes

`net` is the network: the two ends of each line with node and direction, length and symbol.
`partner` pairs the ends through which a stroke goes on, `chains` are the finished strokes, `walk` is
the one under way; `out` are the symbols as they change, `k` is the stroke that a loop of
`stroke_codes` is at and `stage` the loop.

| Actions | Code |
|---|---|
| `PairEnds`, `EndsPaired` | `strokes`, the loops over nodes and candidates: the straightest pair of free ends first |
| `StartStroke`, `GoForth`, `TurnBack`, `GoBack`, `EndStroke` | `strokes`, the walk from the first free line on to its end and then back from its start, one line at a time |
| `MergeShortRun` | `stroke_codes`, one pass of the loop that merges the shortest short run |
| `NarrowDeadEnds`, `NarrowStub` | `stroke_codes`, the narrowing of both dead ends of a stroke, and of whole strokes |

`DrawRoads` and `ReadSymbols` choose the input, lengths and symbols where they are first read.
Directions are multiples of 30 degrees, lengths natural numbers (floats in the code, so a sum there may
depend on the order of its terms). Over all inputs of the run the strokes and the final symbols were
compared with what `road_strokes.py` returns for lines drawn with the same nodes and directions;
they agree.

## 3. Properties

Each property is stated in words above its definition. The ones that matter most:

* Queue: `TableAgrees` ties the table to memory: a 'queued' job is in the queue or on its way to
  it, a 'running' job has somebody who will end it. `RunningHasOwner` is its counterpart for
  `_running`. Together they are the reason why `AcceptedJobEnds` can hold at all. `OneComputing`,
  `SlotHeldWhileComputing`, `ComputingIsKept`, `FinishedStays` and `DeployInterruptsNothing` protect
  a job that computes from other jobs, the other instance, deletion, late writers and deployments.
  `QueueBound` is the limit of the queue over crashes and forced requeues, up to the first deployment.
* Slot: `ComputesWithLock`, `LockHasOwner` and `ImplementsSlotMutex`; `NotRefusedByOwnProbe`
  concerns the status page.
* Downloads: `SheetWhole`, `NeverBelievesNewer`, `CropOfCurrentSheet`, `SurfacesFitCrop`,
  `NewlyRecordedIsUsed` for LiDAR; `CachedIsWhole`, `QuietResultIsWhole` for OSM.
* Pipeline: `ReadsAreSettled`, `MissingIsReported`, `NobodyWaitsInVain`.
* Mail: `ReadyRepeatedOnlyAfterLoss`, `FailureReportedOnce`, `NotBothMails`, `MissedIsRetried`.
* Roads: `StrokesArePaths`, `WidthChangesBetweenLongRuns`.

## 4. Runs

| Run | Question | Bounds |
|---|---|---|
| `queue_safety` | Does everything hold in operation? | 3 jobs, queue of 1, 3 threads; 1 crash, 1 deployment, 1 job of the other instance |
| `queue_client_restarts` | Do clients that start jobs again confuse the queue? | 2 jobs, 2 concurrent `POST /start`, used twice; 1 deployment, 1 restart of a server that did not answer, 1 job of the other instance |
| `queue_faults` | Does the running job never wait as well, when statements fail? | 2 jobs, 2 failing statements, 1 deployment that may be interrupted, 1 job of the other instance, 1 timeout of the slot |
| `queue_reload` | What holds on the development server, where subprocesses survive a reload? | 2 jobs, 2 reloads, 1 `POST /start`, 2 addresses (one exempt), no slot |
| `liveness` | Does every accepted job end, and is a mail that a stop of the server cut off made up for? | queue: 2 jobs, 2 threads; 1 crash, 1 deployment, 1 restart of a server that did not answer, 1 job of the other instance; mails as in `job_process` |
| `shared_directory` | Is the slot a mutex, and are the shared downloads whole and current? | slot: 2 instances, 3 probers, 2 crashes; LiDAR: 2 instances, 2 versions, 3 events; OSM: 2 tiles, 2 mirrors, 3 rounds, any number of jobs |
| `job_process` | Is the pipeline of a job in order, are its roads, are its mails? | pipeline: 2 disciplines or the sprint, 2 errors; mails: 2 runs, 2 faults, 2 notifiers; roads: 5 networks of 4 lines, 2 lengths, 4 symbols |

Why the bounds are enough. Three jobs are one that runs, one that waits and one that is refused or
overtakes; a queue of one place is full at once, so the boundary of `MAX_QUEUE_SIZE` is always
near, and a job that a deployment sends back exceeds it, which is why `QueueBound` ends there. The external events are bounded because
each of them resets the system to a state it has been in: a second crash finds nothing new after
the first recovery is over, except in the middle of a recovery, and there `queue_reload` has two.
Jobs of one address differ only by age, so one address suffices where the limit is not at stake.
Most properties of the queue are checked in one run only; that they hold for other bounds, too, is
proved (section 6), under hypotheses that leave out just the events that section 4 names as
breaking them.

Three events are a failed update, a kill and a pruning, or two new versions and a forced refresh
(a pruning that a kill cuts short counts as two, `PruneEvents`): each hazard of the cache needs at most three in a row (with `HitAnywhere` TLC finds them all with
these bounds), and the number of jobs is not bounded. Two
mirrors have an order, two tiles a border, and three rounds are the code's own number. Two faults
are an error and another one in what handles it. Two disciplines are one process that works and one
that dies. The five networks are a road with a side road (whose first line is its middle one, so that
it is walked in both directions), a crossing with two ways on, a ring, a drop at the end of a road,
and a line that comes back to its start; lengths are below and above `MinRun`
(4 and 9 to 5) so that runs are short, long and long only together, and the symbols are three
widths and the fixed 502.0.

`queue_faults` does not check deadlock: after two faults `_running` can be left set with no
thread, and a server with nothing else to do stops there. `job_process` does not either: the
process of a job ends. In `liveness` the mails of a job may end, and stutter then. In all other runs a state without a
successor would be an error; the quiet server is the explicit stuttering action `Quiet`.

### Disagreements between the code and what is said of it

| Run | Property | What happens |
|---|---|---|
| `slot_timeout` | `ErrorEndsJob` | A wait for the slot that times out leaves its job 'queued' for ever: `on_wait` has changed the status, and the except branch fails only a 'running' job. |
| `deploy_loses_job` | `DeployLosesNoJob` | A job that is sent back to the queue is failed by the restart if the deployment polls between the two steps of `_return_to_queue`. |
| `deploy_unheard` | `DeployInterruptsNothing` | A server that computes but does not answer for five seconds is restarted. |
| `delete_race` | `ComputingIsKept` | `delete_job` deletes a job that was started after it had read the status. |
| `osm_border` | `BorderElementsOnce` | Overpass gives the id of a way as a number, `parse_osm_api_map_xml` as text: a way on the border of two tiles from different sources is drawn twice. |

The counterexamples are short (up to about 15 states); PROJECT.json quotes the sentences they
contradict.

Some properties are checked only where they hold, and the hazards in PROJECT.json say where they
do not: `FinishedStays` without faults and without surviving subprocesses, `RunningNotQueued`
without `POST /start`, `DeployInterruptsNothing` and `SlotHeldWhileComputing` without an interrupted
deployment, the properties of the LiDAR cache outside of `AtRisk`; and `MissingIsReported`,
`NobodyWaitsInVain` and `FailureReportedOnce` state their exceptions themselves. `SlotHeldWhileComputing`
is subtle. The thread of a returned job still has its `finally` branch ahead. If the deployment is
interrupted, the next job of the same process starts, finds `_fd` set by the old thread, computes,
and loses the lock when the old thread releases it.

Seen while modelling, without a run of its own:

* Deployments add up: each may send a job back to a full queue (`_return_to_queue`, `worker.py:191`,
  does not look at `MAX_QUEUE_SIZE`), and the forced requeue after the restart keeps them all.
  `QueueBound` therefore speaks of the time before the first deployment.
* The `finally` branch of `_run` clears `_running` if it names the thread's own job, not if the thread
  set it. When a job was sent back and, the deployment interrupted, started again while its old
  thread was still ending, the old thread clears `_running` of the new run, the next job starts
  beside it, and the slot lets it in, because `try_acquire` looks only whether its own process has
  it: two jobs compute at once. TLC finds this in 25 steps when `OneComputing` is checked with an
  interrupted deployment, which the theorem `OneJobComputes` excludes.
* By the same `finally` branch an interrupted deployment misleads the next one: the thread of the
  returned job clears `_running` of its second run, the second deployment hears "busy": false and
  replaces a container that computes, against "nikdy nepřeruší běžící job" (`update-nas-ab.sh:12`).
  With two deployments and one interruption TLC finds this in 21 steps; `DeployInterruptsNothing` is
  therefore checked (`queue_safety`) and proved for deployments that are not interrupted.
* A thread that gives up its wait for the slot because of the mark asks for the mark once more
  (`worker.py:282`). If it has gone meanwhile the thread raises the timeout instead, and its job is
  lost as in `slot_timeout`. In the model only an interruption removes the mark at such a moment.
* `_extract_laz` catches errors of the ZIP and `_download_and_extract` those of the download. An
  `OSError` while the LAZ is written (a full disk) is neither, the cut file stays, and `_sheet_laz_current`
  takes any file of 1000 bytes for the sheet, against "useknutý / vadný soubor stáhne znovu"
  (`fetch_openzu.py:635`). A kill at that point has the same effect. With `HitAnywhere` TLC finds
  `SheetWhole` violated after 8 states.
* `NeverBelievesNewer` fails likewise after 8 states: a job extracts version 1, version 2 is published
  meanwhile, the job is killed before its note. The next job compares only times, finds the file newer
  than version 2 and notes version 2 for it (`fetch_openzu.py:591`, `621`). From then on the update is
  missed, against "novější verze na OpenZU → False (stáhne se znovu)" (`fetch_openzu.py:599`).
* `link_or_copy` (`download_cache.py:859`) removes a cached file and copies into its place, while the old
  `meta.json` still vouches for it. A kill or an error of the disk half-way leaves a cut crop or
  elevation model that later jobs restore: `SheetWhole`, `CropOfCurrentSheet` (36 states) and
  `SurfacesFitCrop` (29 states) with `HitAnywhere`.
* `write_refs_file` stands in a `finally` branch without an `except` (`discipline_maps.py:245`). When
  the write fails, the processes of the maps wait for 6 hours, against "potomek nesmí uvíznout" (line
  243); the timeout of the job, 90 minutes by default, kills them before.
* Parts can be missing from a finished job without an issue: the preview after an error or its timeout
  (`oom_preview.py:2395`), cliffs, knolls or boulders when the DEM cannot be read (`cliffs_dem.py:379`,
  `knolls_dem.py:285`, `boulders_dem.py:197`), references of which nothing came (`run_job.py:460`). They are
  the `Silent` parts. The mark of issues is described as that of a step or layer that is missing from
  the output (`job_progress.py:14`).
* Two mails about one failure: the notifier of a failed run is still between its look into the log and
  its mail when the job, started again, fails and mails, too. TLC finds it in 11 states without the
  `overlaps` of `FailureReportedOnce`. `worker.py:114` says "pošle nejvýš jeden e-mail na job".
* `_fetch_overpass` takes a list of elements that is missing, and drops elements that are null
  (`osm_paths.py:2085`), and the tile counts as complete; `MirrorAnswers` takes an accepted answer to be whole.
* `resolve_dmp_product` (`source_meta.py:97`) names DMP OK when its file is there, though a restored
  crop of the area may have been made from DMP 1G before it could be had.
* `http.client.IncompleteRead` is not among the errors that `_fetch_overpass` and `_fetch_osm_tile`
  catch (`osm_paths.py:2106`, `2397`): one cut connection ends all tiles, against "selhání jedné
  dlaždice neshodí ostatní" (line 2296). The job reports it and goes on without OSM.
* That data came from the map API is written to the log with "!!!" but is no issue of the job; and
  nodes of the map API with equal tags share a key, so only the first one is kept.
* The dead ends of a stroke are narrowed one after the other (`road_strokes.py:247`). 502, 502.2, 502
  with a side road between the first two becomes 502.2, 502.2, 502: the far end is wider than the
  section before it, which the docstring excludes.
* A ring is cut into a stroke at an arbitrary node, so the runs on both sides of the cut are judged
  apart.

## 5. Fairness

`FairSpec` assumes weak fairness of: every step of `enqueue`, `_run`, `_start_next` and the
startup handler (operating system threads that are runnable run); the drain watch (a loop with a
sleep); `JobTimedOut` (`proc.wait` has a timeout, so a subprocess that hangs does not hold the
thread); `OtherReleases` (the other instance has the same timeout); and of the deployment script,
which polls in a loop. It does *not* assume that a subprocess progresses, that a client does
anything, or that a crash, a fault or a kill happens or stops happening other than by its bound.

`MissedIsRetried` assumes of `PrivateMail` only that the startup handler runs to its end
(`Mail!Fairness`: the recovery, the retry and its mail; the mail has a timeout). Both
liveness properties are checked of `LiveSpec` (`MCLiveness`), apart from safety: the runs without
fairness can have more jobs and symmetry, and the states of pipeline and roads would only slow
the search for cycles. The pipeline has no
liveness property: a step may take any time. What would keep it from ending for ever is a wait for
something that nobody will do, and this is the invariant `NobodyWaitsInVain`.

## 6. Proofs

Every property that a passing run checks is also a theorem, except those at the end of this section.
A theorem holds for all values of the constants that satisfy the named assumptions of the modules
(`ConstantsOK`, `ActorsDistinct`, `NoneIsNoJob` of `JobQueue`, `SlotConstantsOK` of `SharedSlot`,
`RunConstantsOK` of `PipelineRun`; of `DownloadCache`, `OsmDownload`, `PrivateMail` and `RoadStrokes` a
`ConstantsOK` that is a hypothesis of their theorems). Where the parts are put together the last four
are the assumptions `PeersAndVersionsOK`, `NotifiersOK` and `RoadsOK` and, for the tiles of the run, the
lemma `TilesOK`.
TLC evaluates the assumptions in the runs. Three constants enter as hypotheses of single theorems:
`Budget[k] = 0` says that events of kind k do not happen, `~ChildrenSurvive` that a container takes its
subprocesses with it, as in production, and `~HitAnywhere` that kills and errors of the disk spare the
points at which the cache does not survive one (`AtRisk`).

### Queue, threads and deployments: `JobQueue_proofs`

* `TypeCorrect`: the inductive `TypeInv` adds to `TypeOK` that an actor on its way with a job has one
  (`ArgIsJob`) and that a thread with a subprocess waits for it or is gone (`ChildHasThread`);
  without the first, `Append(queue, arg[a])` could leave `Seq(Jobs)`.
* `NoJobWaitsTwice` (`NoDuplicates`), with no hypothesis at all. It rests on lemmas on sequences: what
  adding an absent element and removing one do to an injective sequence.
* `QueueIsServed` (`RunningHasOwner`), if no database statement fails.
* `OneJobComputes` (`OneComputing`, `SlotHeldWhileComputing`), if no deployment is interrupted and
  subprocesses die with the server. `OneComputing` alone is far from inductive. `SlotInv` says why
  it holds: *either* the thread that works on `_running` is the only one between setting and
  clearing it (`OneOwner`), *or* a deployment has sent a job back to the queue, which clears
  `_running` early; then several threads may be in their `finally` branches and a new job may be
  launched, but `is_draining` keeps all of them away from the points that lead to a subprocess
  (`NoneComputes`), until the restart removes them. Interrupting the deployment breaks exactly this
  second case.
* `DeploymentIsGentle` (`DeployInterruptsNothing`), if, besides, the server always answers: once the
  deployment has heard "busy": false, no actor is at a point that leads to a subprocess
  (`IdleIsQuiet`), and the mark keeps it so.
* `QueueRefinement` (`ImplementsSlotMutex`): every step of the queue takes the slot, drops it or leaves
  it, whatever happens.

### Table, recovery and limits: `JobTable_proofs`

* `RunningWaitsNot` (`RunningNotQueued`), without `POST /start`. `OnceInv` tells where a job may be at
  all: a row that is not there yet is nowhere in memory, and what `enqueue` has in hand is nowhere
  else (`NewIsNowhere`, `EnqueuedIsFresh`); the startup handler works alone (`BootInv`).
* `ComputingStays` and `EndIsFinal` (`ComputingIsKept`, `FinishedStays`), without `POST /start`, faults
  and interrupted deployments. `KeptInv`: what waits, is going to run or runs has the status 'queued'
  or 'running' (`WaitingRows`, `LoopRows`, `LiveRows`), and `delete_job` has no such job in hand
  (`JanitorIsApart`), because it looks at the status first. `POST /start` breaks that; `delete_race`
  shows how.
* `TableIsTrue` (`TableAgrees`), without faults, timeouts of the slot and interrupted deployments, but
  with `POST /start` and crashes; and `NoJobIsForgotten` (`QueuedIsTracked`), where subprocesses may
  also survive a restart and write to the table beside the runner threads. `TableInv`: who holds a
  'queued' row and who will bring a returned one back (`QueuedIsHeld`, `ReturnedIsHeld`), and that a job
  which computes though its row says 'queued' was started again and waits (`ComputingIsAgain`). That
  subprocesses die with the server is needed, and part of the invariant, for 'running' rows only
  (`RunningIsHeld`, `EndIsWritten`).
* `QueueIsBounded` (`QueueBound`), under the hypotheses of `TableIsTrue`. `LimitInv` counts: while the startup
  handler works, the queue, the jobs it has yet to enqueue and the one that runs are at most
  `MAX_QUEUE_SIZE` + 1 (`Room`), because the crash left no more rows than that.

### Slot and downloads: `MCSharedDirectory_proofs`, `DownloadCache_proofs`, `OsmDownload_proofs`

* `SlotInvariant`: `SlotInv` of `SharedSlot` says what descriptor, mutex and point of each thread have
  to do with the lock. `OneInstanceComputes`, `SlotIsNeverLost` and `OwnProbeIsInvisible`
  (`ComputesWithLock`, `LockHasOwner`, `NotRefusedByOwnProbe`) are consequences.
* `SlotRefinement` (`ImplementsSlotMutex`): under `SlotInv` the abstract holder is the instance that has
  the file locked and no prober (`LockedByComputes`).
* `SheetsAreWhole` (`SheetWhole`, `CropOfCurrentSheet`, `NeverBelievesNewer`), under `~HitAnywhere`.
  `SheetInv` ties the files to what the one job has in hand: only who has the slot works (`SlotIsHeld`),
  a sheet that is not whole is being fetched by it (`HalfIsFetched`), a sheet whose mtime is wrong about
  its version has a note or is about to get it (`OvertakenIsNoted`), the crop of a job that is about
  to note it is of the sheet that is there (`NotingIsCropped`), and points of an area that are not
  whole are being copied, or nothing vouches for them (`AreaIsWhole`).
* `SurfacesAreTrue` (`SurfacesFitCrop`, `NewlyRecordedIsUsed`), likewise: `SurfInv` adds what the note of
  an elevation model may be of (`SurfaceNote`). It may be older than the model, since an elevation model,
  the points of the area and the sheet only get newer, in this order (`TerrainInOrder`): a note that
  is older than its model never fits the points of a later job.
* `ResponsesAreWhole` (`CachedIsWhole`, `QuietResultIsWhole`), for any tiles, mirrors and contents:
  `OsmInv` says of the loops that a fetch with no failure so far has the items of all the tiles it is
  done with (`CollectedSoFar`).
* `DownloadTypes`, `NoUpdateIsMissed`, `JobsUseWhatTheyRecord` and `OsmIsWhole` carry these over to
  the composition, with the tiles of the run. (That a result is whole is said of tiles from mirrors:
  the map API leaves out relations, and is no issue.)

### Job subprocess: `PrivateMail_proofs`, `RoadStrokes_proofs`, `MCJobProcess_proofs`

* `RunInvariant`: the core of `RunInv`, `FlowInv`, says which threads are settled from which point of
  the main thread on (`WaitsAreOver`), that the references follow the shade (`ShadeFirst`), that a
  waiting thread has one before it (`InOrder`) and what the processes of the maps wait for, up to
  the file of the references that may fail to be written (`MapsInOrder`); it keeps itself, whatever the steps find and report, so the types of findings
  and issues (`ResultOK`) are a conjunct apart. `NobodyWaits` and `ReadsSettled` follow from it.
* `NothingMissingIsSilent` (`MissingIsReported`): `ReportInv` says what each step that is over has
  reported (`PartsTold`, `RefsTold`, both but for the `Silent` parts) and where the report of a map is meanwhile: in its process, in
  `lines` or among the issues (`MapsTold`).
* `MailsAreRight` (`ReadyRepeatedOnlyAfterLoss`, `FailureReportedOnce`, `NotBothMails`), for any number
  of runs, faults and notifiers. `MailInv` says which sender may be at work when (`WhoSends`), that a
  link on its way is neither noted nor followed by another (`LinkOnce`), and that the runs that were
  or will be reported as finished and as failed are apart (`RunsApart`). The failures are counted:
  mails sent, together with all who may still send one (`Reporters`), are no more than one, the lost
  notes and the runs that began beside a notifier (`FailOnce`), because who looks into the log after a
  mail has been noted goes no further (`FailNoted`); a run passes its one place among the reporters
  from the subprocess to its thread or to the recovery, which is a fact on cardinalities (`OneForOne`).
* `StrokesAreWays` (`StrokesArePaths`), for every network: any number of lines, nodes and crossings,
  with loops, rings and lines between the same nodes. `JoinInv` describes the walk half-way. Partners
  go both ways and pass a node (`PartnersMeet`); of two ends that might be one stroke, one has a
  partner at least as straight, or both are still to be paired (`StraightestFirst`). A finished
  stroke has all the partners of its lines (`StrokesClosed`), so the next one cannot run into its
  middle; the stroke under way has them but for its open ends (`Underway`, `OpenEnds`), of which
  there are two on the way forth, and it is a way whose last end is where it goes on.
* `WidthChanges` (`WidthChangesBetweenLongRuns`), for every network, all lengths and all symbols. The
  hazard is that narrowing a dead end changes the runs that `MergeShortRun` has settled
  (`RunsMerged`). Why it does not: the lines that take another symbol begin where the symbol changes and
  end where the stroke ends, and they take the symbol of the line before them. So the runs among them
  vanish into the run before, which grows, and all other runs stay (lemma `SuffixRecoded`). And a
  run is no shorter than a part of it: a fact on sums over sets of lines, proved by induction over
  finite sets (`SetInduction`, which speaks of a set of sets, since induction theorems that take an
  operator are out of reach).
* `LinkIsSentOnce`, `FailuresAreReportedOnce`, `MailsDoNotContradict`, `StrokesAreWays`, `WidthChanges`,
  `PipelineHolds` and `JobInvHolds` (`JobInv`: types of all three parts and the order of the pipeline)
  say the same of the composition.

### Only model-checked

Liveness, which needs ENABLED: `AcceptedJobEnds`, `MissedIsRetried`.

## 7. Plan

Done: `JobQueue`, `SlotMutex` and `SharedSlot` with the refinements, `PrivateMail`, `DownloadCache`,
`PipelineRun`, `OsmDownload`, `RoadStrokes`; the theorems of section 6.

Nothing is left to prove of what the runs check but liveness, which stays with TLC. Worth proving next:
what of the LiDAR cache holds wherever a job is hit (TLC finds no violation of `NewlyRecordedIsUsed`),
and what is left of the deployment when it is interrupted.

Left to model: the tile files and the orphaned directories of the cleanup; and two more algorithms
that are discrete at heart, the walk around raster cells in `cliff_merge.py` (`_trace_cell_rings`)
and the joining of paths through junctions in `osm_paths.py` (`_join_through_junctions`).

## 8. Not modelled

The numeric pipeline (about 45 000 lines of geometry over real-valued rasters and vectors) is
sequential, keeps no state between calls and is out of reach of a finite model: that is why the
modules stand for a small share of all lines. The web front end polls and keeps nothing. Feedback,
statistics, texts, settings and the downloads of results have no protocol to go wrong. Pulling and
removing images is done by Docker and the Synology API.

Of the parts that are modelled: the limit of jobs per hour; the wait of at most 10 s for the pump
of log messages and of at most 6 hours for the references in a process of the pool (both taken to
be long enough); the prefetch of orthophotos and Sentinel data, which only saves time; the caches of
the shade, of ZABAGED and of the references, which one step writes; when a job is old enough to be
deleted. Of `POST /api/jobs` only the two refusals that read the queue and the table are modelled:
the look for a duplicate (`main.py:995`) returns an existing job and changes nothing but its log; the limits
per API key (`rate_limit.py:41`) stand in the place of those per address; and the test of the queue and
`create_job` are one action, because both are in one section of the event loop without an `await` and
`enqueue` tests again. `FailIfRunning` reads and writes the row in one step (`worker.py:305`): the
subprocess is gone by then, and neither `delete_job` nor `POST /start` takes a running job. `DeployGivesUp`
comes while a job computes; the server can be busy at other points, too, but for seconds, not for
`--wait-minutes`. The retry of mails at startup is modelled for a job among the 50 newest that has
not expired and has its ZIP (`job_worker.py:167-186`), and without a database error in its own look.
In `PipelineRun` a pool of processes that cannot be started raises at once, where the code first waits
for the thread that joins the references; an exception of `join_refs` itself, which that thread turns into an issue,
is left out. In `DownloadCache` a crop that is cut out of a larger one (`prepare_lidar.py:182`, `236`) is left out.
In `RoadStrokes` every end of a line has a direction (a degenerate line has none) and `MinRun` is above 0.

`PrivateMail` takes it that no run (which takes minutes) ends in the moment between
`requeue_after_restart` and the list of jobs that the retry reads. In `RoadStrokes` the snapping of
nodes and the measuring of lengths and directions are inputs.

Three things are listed as hazards without a property. The narrowing of dead ends one after the other
(section 4) has no run of its own. The cleanup removes every directory whose job is
not among the newest 1000 rows it has read (`cleanup.py:94`); `create_job` makes the directory before
the row, so a page view at that moment takes the directory of a job that is just being created,
which then fails at `worker.py:263` because it is missing. And two requests for one tile
share a `.part` file (`tiles.py:70`).
