---------------------------- MODULE DownloadCache ----------------------------
(***************************************************************************)
(* The cache of LiDAR data under DOWNLOADS_DIR, which the instances of     *)
(* Podkladarna share: app/download_cache.py with its users                 *)
(* pipeline/fetch_openzu.py (sheets), prepare_lidar.py (crops),            *)
(* dem_prep.py (elevation models) and source_meta.py, in the order in      *)
(* which run_job.py calls them.                                            *)
(*                                                                         *)
(* One map sheet and one area stand for all: each sheet has files and      *)
(* threads of its own.  Every step that a kill of the job's process, or an *)
(* error of the disk, may follow is an action: a file is written piece by  *)
(* piece, and then the meta.json that describes it.  Ages of cached files  *)
(* are not modelled: whatever expires by age may be found fresh or expired *)
(* at every look.  A fingerprint (name and size) is taken to identify the  *)
(* content, of a file that was cut, too.                                   *)
(***************************************************************************)
EXTENDS Naturals

CONSTANTS
  Instances, Nobody, None,
  MaxVer,      \* how many versions of a file CUZK publishes
  HitAnywhere, \* a kill, or an error of the disk, may also hit where the code
               \*   does not survive it (AtRisk)
  MaxEvents    \* how many failures, kills, prunings, new versions and forced
               \*   refreshes happen in all

VARIABLES
  holder,   \* the instance that has the shared slot
  remote,   \* the version of each product on the server (0: not offered)
  sheet,    \* the LAZ files of the sheet
  seen,     \* their mtime: the version that was published by then
  stored,   \* meta.json: <kind>_remote (0: not there)
  crops,    \* filtered and cropped sheets: their content and their src_fp
  aoi,      \* lidar_crop of the area: ground, veg and meta.json
  surf,     \* elevation model of the area and the fingerprints in its meta.json
  job,      \* the job process of each instance
  events    \* how many of MaxEvents have happened

cache == <<sheet, seen, stored, crops, aoi, surf>>
vars == <<holder, remote, cache, job, events>>

Slot == INSTANCE SlotMutex

Kinds == {"DMR", "OK", "1G"}
Sides == {"dmr", "dmp"}
Content == [kind : Kinds, ver : 1..MaxVer, whole : BOOLEAN]
Maybe(S) == S \cup {None}

\* Versions are numbered from 1; no instance is nobody, nothing that is there is None.
ConstantsOK ==
  /\ MaxVer \in Nat \ {0} /\ MaxEvents \in Nat
  /\ Nobody \notin Instances
  /\ None \notin Content \cup Kinds

\* Crops are kept of a whole sheet, per product, and of an area, per recipe.
Crop == [of : Maybe(Content), fp : Maybe(Content)]
Nothing == [of |-> None, fp |-> None]

DownloadPoints == {"look", "fetching", "fetched", "done", "failed",
                   "copying", "noting", "cropped"}
Points == {"idle", "start", "crop", "groundCopy", "persistVeg", "vegCopy", "persistMeta",
           "surf", "surfCopy", "surfMeta", "wait", "end"}

Jobs == [at : Points, force : BOOLEAN, dl : [Sides -> DownloadPoints],
         kind : [Sides -> Kinds], part : [Sides -> Maybe(Content)],
         restored : BOOLEAN, dem : Maybe(Content), says : Maybe(Kinds)]

NewJob(point, force) ==
  [at |-> point, force |-> force, dl |-> [s \in Sides |-> "look"],
   kind |-> [s \in Sides |-> IF s = "dmr" THEN "DMR" ELSE "OK"],
   part |-> [s \in Sides |-> None], restored |-> FALSE, dem |-> None, says |-> None]

\* Files, notes and jobs are what the code writes, reads and keeps.
TypeOK ==
  /\ holder \in Instances \cup {Nobody}
  /\ remote \in [Kinds -> 0..MaxVer]
  /\ sheet \in [Kinds -> Maybe(Content)]
  /\ seen \in [Kinds -> 0..MaxVer]
  /\ stored \in [Kinds -> 0..MaxVer]
  /\ crops \in [Kinds \cup Sides -> Crop]
  /\ aoi \in [part : [Sides -> Maybe(Content)], noted : BOOLEAN]
  /\ surf \in [of : Maybe(Content), fp : [Sides -> Maybe(Content)]]
  /\ job \in [Instances -> Jobs]
  /\ events \in 0..MaxEvents

\* DMP OK is not offered for every sheet.
Init ==
  /\ Slot!Init
  /\ remote \in {r \in [Kinds -> 0..1] : r["DMR"] = 1 /\ r["1G"] = 1}
  /\ sheet = [k \in Kinds |-> None]
  /\ seen = [k \in Kinds |-> 0]
  /\ stored = [k \in Kinds |-> 0]
  /\ crops = [x \in Kinds \cup Sides |-> Nothing]
  /\ aoi = [part |-> [s \in Sides |-> None], noted |-> FALSE]
  /\ surf = [of |-> None, fp |-> [s \in Sides |-> None]]
  /\ job = [p \in Instances |-> NewJob("idle", FALSE)]
  /\ events = 0

Event == events < MaxEvents /\ events' = events + 1

Goto(p, point) == job' = [job EXCEPT ![p].at = point]
GotoDl(p, s, point) == job' = [job EXCEPT ![p].dl[s] = point]

\* A file that is being written.  link_or_copy removes the old one and, as the
\* cache and the jobs are mounts of their own, copies into its place.
Cut(c) == [c EXCEPT !.whole = FALSE]

-----------------------------------------------------------------------------
\* One download thread per product: _cached_laz, _cached_dmp_laz.

At(p, s, point) == job[p].at # "idle" /\ job[p].dl[s] = point
Kind(p, s) == job[p].kind[s]

\* Mutant of Newer: without a note the file is up to date.
NewerIfNoted(k) == stored[k] # 0 /\ remote[k] # stored[k]

\* _remote_is_newer: another version than the noted one; without a note, one
\* published after the file was written.
Newer(k) == IF stored[k] # 0 THEN remote[k] # stored[k] ELSE remote[k] > seen[k]

\* The file is there and was checked lately, or the server does not answer.
UseCached(p, s) ==
  /\ At(p, s, "look") /\ ~job[p].force
  /\ sheet[Kind(p, s)] # None
  /\ GotoDl(p, s, "done")
  /\ UNCHANGED <<holder, remote, cache, events>>

\* The server has nothing newer; its version is noted.
UseChecked(p, s) ==
  LET k == Kind(p, s) IN
  /\ At(p, s, "look") /\ ~job[p].force
  /\ sheet[k] # None
  /\ remote[k] # 0 /\ ~Newer(k)
  /\ stored' = [stored EXCEPT ![k] = remote[k]]
  /\ GotoDl(p, s, "done")
  /\ UNCHANGED <<holder, remote, sheet, seen, crops, aoi, surf, events>>

MustFetch(p, s) ==
  LET k == Kind(p, s) IN
  /\ At(p, s, "look")
  /\ job[p].force \/ sheet[k] = None \/ (remote[k] # 0 /\ Newer(k))

\* Mutant of FetchStart: the answer to a missing file is taken for the file.
FetchStartAnyway(p, s) ==
  LET k == Kind(p, s) IN
  /\ MustFetch(p, s)
  /\ sheet' = [sheet EXCEPT ![k] = [kind |-> k, ver |-> remote[k], whole |-> FALSE]]
  /\ seen' = [seen EXCEPT ![k] = remote[k]]
  /\ GotoDl(p, s, "fetching")
  /\ UNCHANGED <<holder, remote, stored, crops, aoi, surf, events>>

\* The ZIP is there: extraction overwrites the LAZ.
FetchStart(p, s) ==
  LET k == Kind(p, s) IN
  /\ MustFetch(p, s)
  /\ remote[k] # 0
  /\ sheet' = [sheet EXCEPT ![k] = [kind |-> k, ver |-> remote[k], whole |-> FALSE]]
  /\ seen' = [seen EXCEPT ![k] = remote[k]]
  /\ GotoDl(p, s, "fetching")
  /\ UNCHANGED <<holder, remote, stored, crops, aoi, surf, events>>

FetchDone(p, s) ==
  LET k == Kind(p, s) IN
  /\ At(p, s, "fetching") /\ sheet[k] # None
  /\ sheet' = [sheet EXCEPT ![k].whole = TRUE]
  /\ seen' = [seen EXCEPT ![k] = remote[k]]
  /\ GotoDl(p, s, "fetched")
  /\ UNCHANGED <<holder, remote, stored, crops, aoi, surf, events>>

WriteMeta(p, s) ==
  LET k == Kind(p, s) IN
  /\ At(p, s, "fetched") /\ sheet[k] # None
  /\ stored' = [stored EXCEPT ![k] = sheet[k].ver]
  /\ GotoDl(p, s, "done")
  /\ UNCHANGED <<holder, remote, sheet, seen, crops, aoi, surf, events>>

\* After a failure the thread tries again (without its LAZ it will have to
\* fetch) or gives up.  In place of DMP OK it then looks for DMP 1G.
AfterFailure(p, s) ==
  \/ GotoDl(p, s, "look")
  \/ Kind(p, s) = "OK" /\ job' = [job EXCEPT ![p] = [@ EXCEPT !.kind[s] = "1G", !.dl[s] = "look"]]
  \/ Kind(p, s) # "OK" /\ GotoDl(p, s, "failed")

\* Mutant of FetchFails: what was extracted stays.
FetchFailsKeeping(p, s) ==
  /\ MustFetch(p, s) \/ At(p, s, "fetching")
  /\ AfterFailure(p, s)
  /\ IF remote[Kind(p, s)] = 0 THEN UNCHANGED events ELSE Event
  /\ UNCHANGED <<holder, remote, cache>>

\* Download or extraction fails: the LAZ is removed, one of an older version, too.
FetchFails(p, s) ==
  /\ MustFetch(p, s) \/ At(p, s, "fetching")
  /\ sheet' = [sheet EXCEPT ![Kind(p, s)] = None]
  /\ seen' = [seen EXCEPT ![Kind(p, s)] = 0]
  /\ AfterFailure(p, s)
  /\ IF remote[Kind(p, s)] = 0 THEN UNCHANGED events ELSE Event
  /\ UNCHANGED <<holder, remote, stored, crops, aoi, surf>>

-----------------------------------------------------------------------------
\* Where what is left behind is taken for good by later jobs.

\* A newer version was published before the file was written to its end.
Overtaken(k) == sheet[k] # None /\ sheet[k].ver < seen[k]

\* A LAZ that is being extracted; one whose mtime alone will tell its version, and
\* tell it wrong; a crop under the note of another one.
ThreadAtRisk(p, s) ==
  \/ job[p].dl[s] = "fetching"
  \/ job[p].dl[s] = "fetched" /\ stored[Kind(p, s)] = 0 /\ Overtaken(Kind(p, s))
  \/ job[p].force /\ job[p].dl[s] \in {"copying", "noting"} /\ crops[s].fp # None

\* A copy under the meta.json of the copy before it.
MainAtRisk(p) ==
  \/ job[p].at \in {"groundCopy", "vegCopy"} /\ aoi.noted
  \/ job[p].at = "surfCopy" /\ surf.fp["dmr"] = job[p].part["dmr"]

AtRisk(p) == MainAtRisk(p) \/ \E s \in Sides : ThreadAtRisk(p, s)

\* An error of the disk that nobody catches ends the thread, and fails its job.
ThreadBreaks(p, s) ==
  /\ job[p].at # "idle"
  /\ job[p].dl[s] \in {"fetching", "fetched", "copying", "noting"}
  /\ HitAnywhere \/ ~ThreadAtRisk(p, s)
  /\ Event
  /\ LET left == IF job[p].restored THEN job[p].part[s] ELSE None IN
       job' = [job EXCEPT ![p] = [@ EXCEPT !.part[s] = left, !.dl[s] = "failed"]]
  /\ UNCHANGED <<holder, remote, cache>>

\* Any exception of the main thread; the other threads go on.
Raise(p) ==
  /\ job[p].at \notin {"idle", "end"}
  /\ HitAnywhere \/ ~MainAtRisk(p)
  /\ Event
  /\ Goto(p, "end")
  /\ UNCHANGED <<holder, remote, cache>>

\* Timeout, cancellation or restart of the server kill the process.
Kill(p) ==
  /\ job[p].at # "idle"
  /\ HitAnywhere \/ ~AtRisk(p)
  /\ Event
  /\ Slot!Drop(p)
  /\ job' = [job EXCEPT ![p] = NewJob("idle", FALSE)]
  /\ UNCHANGED <<remote, cache>>

-----------------------------------------------------------------------------
\* The crop of the area: run_job, merge_dmr_dmp, _translate_sheet.

\* Mutant of Begin: without the slot.
BeginAnyway(p) ==
  /\ job[p].at = "idle"
  /\ holder' = p
  /\ \E force \in BOOLEAN :
       /\ IF force THEN Event ELSE UNCHANGED events
       /\ job' = [job EXCEPT ![p] = NewJob("start", force)]
  /\ UNCHANGED <<remote, cache>>

Begin(p) ==
  /\ job[p].at = "idle"
  /\ Slot!Take(p)
  /\ \E force \in BOOLEAN :
       /\ IF force THEN Event ELSE UNCHANGED events
       /\ job' = [job EXCEPT ![p] = NewJob("start", force)]
  /\ UNCHANGED <<remote, cache>>

Restorable == aoi.noted /\ \A s \in Sides : aoi.part[s] # None

\* try_restore_lidar_crop, while the sheets are being downloaded.
RestoreCrop(p) ==
  /\ job[p].at = "start" /\ ~job[p].force
  /\ Restorable
  /\ job' = [job EXCEPT ![p] = [@ EXCEPT !.part = aoi.part, !.restored = TRUE, !.at = "surf"]]
  /\ UNCHANGED <<holder, remote, cache, events>>

\* Nothing there, too old, or not wanted.
RestoreMiss(p) ==
  /\ job[p].at = "start"
  /\ Goto(p, "crop")
  /\ UNCHANGED <<holder, remote, cache, events>>

Cropping(p, s) == job[p].at = "crop" /\ job[p].dl[s] = "done"

\* A crop that is of the sheet as it is now.
Valid(x, k) == crops[x].of # None /\ crops[x].fp = sheet[k]

\* Mutant of CropHit: the fingerprint is not compared.
CropHitAny(p, s) ==
  LET k == Kind(p, s) IN
  /\ Cropping(p, s) /\ ~job[p].force
  /\ \E x \in {k, s} :
       /\ crops[x].of # None
       /\ job' = [job EXCEPT ![p] = [@ EXCEPT !.part[s] = crops[x].of, !.dl[s] = "cropped"]]
  /\ UNCHANGED <<holder, remote, cache, events>>

\* try_lookup_sheet_crop finds the crop of the area or the whole filtered sheet.
CropHit(p, s) ==
  LET k == Kind(p, s) IN
  /\ Cropping(p, s) /\ ~job[p].force
  /\ \E x \in {k, s} :
       /\ Valid(x, k)
       /\ job' = [job EXCEPT ![p] = [@ EXCEPT !.part[s] = crops[x].of, !.dl[s] = "cropped"]]
  /\ UNCHANGED <<holder, remote, cache, events>>

\* Otherwise the whole sheet is filtered and put into the cache.
CropBuild(p, s) ==
  LET k == Kind(p, s) IN
  /\ Cropping(p, s) /\ ~job[p].force
  /\ ~Valid(k, k)
  /\ crops' = [crops EXCEPT ![k].of = sheet[k]]
  /\ job' = [job EXCEPT ![p] = [@ EXCEPT !.part[s] = sheet[k], !.dl[s] = "noting"]]
  /\ UNCHANGED <<holder, remote, sheet, seen, stored, aoi, surf, events>>

\* force_refresh crops the sheet itself and keeps the crop of the area, unless
\* the whole filtered sheet is in the cache.
CropForced(p, s) ==
  LET k == Kind(p, s) IN
  /\ Cropping(p, s) /\ job[p].force /\ sheet[k] # None
  /\ crops' = IF Valid(k, k) THEN crops ELSE [crops EXCEPT ![s].of = Cut(sheet[k])]
  /\ job' = [job EXCEPT ![p] =
               [@ EXCEPT !.part[s] = sheet[k],
                         !.dl[s] = IF Valid(k, k) THEN "cropped" ELSE "copying"]]
  /\ UNCHANGED <<holder, remote, sheet, seen, stored, aoi, surf, events>>

CropCopied(p, s) ==
  /\ At(p, s, "copying") /\ job[p].force
  /\ crops' = [crops EXCEPT ![s].of = sheet[Kind(p, s)]]
  /\ GotoDl(p, s, "noting")
  /\ UNCHANGED <<holder, remote, sheet, seen, stored, aoi, surf, events>>

CropMeta(p, s) ==
  LET k == Kind(p, s) IN
  /\ At(p, s, "noting")
  /\ crops' = [crops EXCEPT ![IF job[p].force THEN s ELSE k].fp = sheet[k]]
  /\ GotoDl(p, s, "cropped")
  /\ UNCHANGED <<holder, remote, sheet, seen, stored, aoi, surf, events>>

\* persist_lidar_crop: ground, vegetation, meta.json.  Each copy begins and ends.
PersistGround(p) ==
  /\ job[p].at = "crop"
  /\ \A s \in Sides : job[p].dl[s] = "cropped" /\ job[p].part[s] # None
  /\ aoi' = [aoi EXCEPT !.part["dmr"] = Cut(job[p].part["dmr"])]
  /\ Goto(p, "groundCopy")
  /\ UNCHANGED <<holder, remote, sheet, seen, stored, crops, surf, events>>

GroundCopied(p) ==
  /\ job[p].at = "groundCopy"
  /\ aoi' = [aoi EXCEPT !.part["dmr"] = job[p].part["dmr"]]
  /\ Goto(p, "persistVeg")
  /\ UNCHANGED <<holder, remote, sheet, seen, stored, crops, surf, events>>

PersistVeg(p) ==
  /\ job[p].at = "persistVeg" /\ job[p].part["dmp"] # None
  /\ aoi' = [aoi EXCEPT !.part["dmp"] = Cut(job[p].part["dmp"])]
  /\ Goto(p, "vegCopy")
  /\ UNCHANGED <<holder, remote, sheet, seen, stored, crops, surf, events>>

VegCopied(p) ==
  /\ job[p].at = "vegCopy"
  /\ aoi' = [aoi EXCEPT !.part["dmp"] = job[p].part["dmp"]]
  /\ Goto(p, "persistMeta")
  /\ UNCHANGED <<holder, remote, sheet, seen, stored, crops, surf, events>>

PersistMeta(p) ==
  /\ job[p].at = "persistMeta"
  /\ aoi' = [aoi EXCEPT !.noted = TRUE]
  /\ Goto(p, "surf")
  /\ UNCHANGED <<holder, remote, sheet, seen, stored, crops, surf, events>>

-----------------------------------------------------------------------------
\* The elevation model: start_job_surfaces, persist_surfaces.

\* Mutant of RestoreSurfaces: the fingerprints are not compared.
RestoreSurfacesAny(p) ==
  /\ job[p].at = "surf" /\ ~job[p].force
  /\ surf.of # None
  /\ job' = [job EXCEPT ![p] = [@ EXCEPT !.dem = surf.of, !.at = "wait"]]
  /\ UNCHANGED <<holder, remote, cache, events>>

RestoreSurfaces(p) ==
  /\ job[p].at = "surf" /\ ~job[p].force
  /\ surf.of # None /\ surf.fp = job[p].part
  /\ job' = [job EXCEPT ![p] = [@ EXCEPT !.dem = surf.of, !.at = "wait"]]
  /\ UNCHANGED <<holder, remote, cache, events>>

\* Computed in the job's directory and copied into the cache.
BuildSurfaces(p) ==
  /\ job[p].at = "surf" /\ job[p].part["dmr"] # None
  /\ surf' = [surf EXCEPT !.of = Cut(job[p].part["dmr"])]
  /\ job' = [job EXCEPT ![p] = [@ EXCEPT !.dem = job[p].part["dmr"], !.at = "surfCopy"]]
  /\ UNCHANGED <<holder, remote, sheet, seen, stored, crops, aoi, events>>

SurfacesCopied(p) ==
  /\ job[p].at = "surfCopy"
  /\ surf' = [surf EXCEPT !.of = job[p].dem]
  /\ Goto(p, "surfMeta")
  /\ UNCHANGED <<holder, remote, sheet, seen, stored, crops, aoi, events>>

SurfMeta(p) ==
  /\ job[p].at = "surfMeta"
  /\ surf' = [surf EXCEPT !.fp = job[p].part]
  /\ Goto(p, "wait")
  /\ UNCHANGED <<holder, remote, sheet, seen, stored, crops, aoi, events>>

-----------------------------------------------------------------------------
\* The end of a job.

Settled(p) == \A s \in Sides : job[p].dl[s] \in {"done", "cropped"}

\* The downloads are in, and collect_lidar_source_meta writes down which surface
\* model the job was made from: DMP OK, if its file is there.
Record(p) ==
  /\ job[p].at = "wait"
  /\ Settled(p)
  /\ job' = [job EXCEPT ![p] =
               [@ EXCEPT !.says = IF sheet["OK"] # None THEN "OK" ELSE "1G", !.at = "end"]]
  /\ UNCHANGED <<holder, remote, cache, events>>

\* A sheet that could not be had fails the job where it is first needed.
Fail(p) ==
  /\ job[p].at \in {"crop", "wait"}
  /\ \E s \in Sides : job[p].dl[s] = "failed"
  /\ Goto(p, "end")
  /\ UNCHANGED <<holder, remote, cache, events>>

\* The process ends with its last thread, then the server releases the slot.
End(p) ==
  /\ job[p].at = "end"
  /\ \A s \in Sides : job[p].dl[s] \in {"done", "failed", "cropped"}
  /\ Slot!Drop(p)
  /\ job' = [job EXCEPT ![p] = NewJob("idle", FALSE)]
  /\ UNCHANGED <<remote, cache, events>>

-----------------------------------------------------------------------------
\* Meanwhile.

Publish(k) ==
  /\ remote[k] < MaxVer
  /\ Event
  /\ remote' = [remote EXCEPT ![k] = @ + 1]
  /\ UNCHANGED <<holder, cache, job>>

\* prune_lidar_cache of a job that works on another area: while it has the slot
\* it deletes a sheet with its crops, or an area, file by file.  Where it is
\* killed half-way, which is an event of its own, some of the files are left.
\* (A meta.json that a kill cuts cannot be read, and is as good as lost, too.)
PruneEvents(toTheEnd) ==
  LET n == IF toTheEnd THEN 1 ELSE 2
  IN events + n <= MaxEvents /\ events' = events + n

PruneSheet ==
  /\ \E Lost \in SUBSET (Kinds \cup {"meta", "crops"}) :
       /\ PruneEvents(Lost = Kinds \cup {"meta", "crops"})
       /\ "meta" \in Lost => HitAnywhere \/ \A k \in Kinds \ Lost : ~Overtaken(k)
       /\ sheet' = [k \in Kinds |-> IF k \in Lost THEN None ELSE sheet[k]]
       /\ seen' = [k \in Kinds |-> IF k \in Lost THEN 0 ELSE seen[k]]
       /\ stored' = IF "meta" \in Lost THEN [k \in Kinds |-> 0] ELSE stored
       /\ crops' = IF "crops" \in Lost THEN [x \in DOMAIN crops |-> Nothing] ELSE crops
  /\ UNCHANGED <<aoi, surf>>

PruneArea ==
  /\ \E Lost \in SUBSET (Sides \cup {"meta"}) :
       /\ PruneEvents(Lost = Sides \cup {"meta"})
       /\ aoi' = [part |-> [s \in Sides |-> IF s \in Lost THEN None ELSE aoi.part[s]],
                  noted |-> aoi.noted /\ "meta" \notin Lost]
  /\ UNCHANGED <<sheet, seen, stored, crops, surf>>

Prune ==
  /\ holder = Nobody
  /\ PruneSheet \/ PruneArea
  /\ UNCHANGED <<holder, remote, job>>

Download(p, s) ==
  \/ UseCached(p, s) \/ UseChecked(p, s)
  \/ FetchStart(p, s) \/ FetchDone(p, s) \/ WriteMeta(p, s) \/ FetchFails(p, s)

CropStep(p, s) ==
  CropHit(p, s) \/ CropBuild(p, s) \/ CropForced(p, s) \/ CropCopied(p, s) \/ CropMeta(p, s)

Main(p) ==
  \/ Begin(p) \/ RestoreCrop(p) \/ RestoreMiss(p)
  \/ PersistGround(p) \/ GroundCopied(p) \/ PersistVeg(p) \/ VegCopied(p) \/ PersistMeta(p)
  \/ RestoreSurfaces(p) \/ BuildSurfaces(p) \/ SurfacesCopied(p) \/ SurfMeta(p)
  \/ Record(p) \/ Fail(p) \/ Raise(p) \/ End(p)

Next ==
  \/ \E p \in Instances :
       \/ Main(p) \/ Kill(p)
       \/ \E s \in Sides : Download(p, s) \/ CropStep(p, s) \/ ThreadBreaks(p, s)
  \/ \E k \in Kinds : Publish(k)
  \/ Prune

Spec == Init /\ [][Next]_vars

-----------------------------------------------------------------------------
\* A job works only with sheets that were extracted to the end, and with whole
\* crops of them, also after jobs that failed, were killed or ran on the other
\* instance: at any point, if HitAnywhere, else outside of AtRisk.
SheetWhole ==
  \A p \in Instances, s \in Sides : job[p].part[s] # None => job[p].part[s].whole

\* An update is not missed for ever: a file is never noted as of a version newer
\* than its content, which _remote_is_newer would then believe.
NeverBelievesNewer ==
  \A k \in Kinds : sheet[k] # None => stored[k] <= sheet[k].ver

\* A job that crops (no crop of the area was restored) has the terrain and the
\* vegetation of the very sheets it downloaded or checked.
CropOfCurrentSheet ==
  \A p \in Instances : ~job[p].restored =>
    \A s \in Sides : job[p].part[s] # None => job[p].part[s] = sheet[Kind(p, s)]

\* The elevation model is that of the terrain points the job works with, and whole.
SurfacesFitCrop ==
  \A p \in Instances : job[p].dem # None => job[p].dem = job[p].part["dmr"]

\* The metadata of a job that cropped name the surface model that the vegetation
\* was made from.  A restored crop may be older than the file they are told from.
NewlyRecordedIsUsed ==
  \A p \in Instances :
    job[p].says # None /\ ~job[p].restored => job[p].says = job[p].part["dmp"].kind

-----------------------------------------------------------------------------
\* Inductive invariants for the properties above.

\* No note is of a version that has not been published.
NotesAreOld ==
  \A k \in Kinds :
    /\ seen[k] <= remote[k] /\ stored[k] <= remote[k]
    /\ sheet[k] # None => sheet[k].ver <= seen[k]

NotesInv == TypeOK /\ NotesAreOld

\* Who works has the slot.
SlotIsHeld ==
  /\ \A p \in Instances : job[p].at # "idle" <=> holder = p
  /\ \A p \in Instances : job[p].at = "idle" => job[p] = NewJob("idle", FALSE)

\* The terrain is made of one product, the vegetation of one of the two others: of
\* DMP 1G only when there is no file of DMP OK.
KindsOfSides ==
  \A p \in Instances :
    /\ Kind(p, "dmr") = "DMR" /\ Kind(p, "dmp") # "DMR"
    /\ Kind(p, "dmp") = "1G" => sheet["OK"] = None

\* A file that is not whole is being extracted; one that is taken is whole; one
\* whose mtime is wrong about its version has a note, or will have it at once.
HalfIsFetched ==
  \A k \in Kinds : sheet[k] # None /\ ~sheet[k].whole =>
    \E p \in Instances, s \in Sides : job[p].dl[s] = "fetching" /\ Kind(p, s) = k
TakenIsWhole ==
  \A p \in Instances, s \in Sides :
    job[p].dl[s] \in {"fetched", "done", "copying", "noting", "cropped"} =>
      sheet[Kind(p, s)] # None /\ sheet[Kind(p, s)].whole
OvertakenIsNoted ==
  \A k \in Kinds : stored[k] = 0 /\ Overtaken(k) =>
    \E p \in Instances, s \in Sides : job[p].dl[s] = "fetched" /\ Kind(p, s) = k

\* Whole content of a product that has been published, and not after a file.
Sound(c, k) == c.kind = k /\ c.whole /\ c.ver <= remote[k]
NotAfter(c, file) == file # None => c.ver <= file.ver

\* Of a whole sheet's crop and its note the note may be the older one, after a kill
\* between the two; then no sheet is ever like the note again.
CropsOfSheets ==
  \A k \in Kinds :
    /\ sheet[k] # None => sheet[k].kind = k
    /\ crops[k].of = None => crops[k].fp = None
    /\ crops[k].of # None => Sound(crops[k].of, k) /\ NotAfter(crops[k].of, sheet[k])
    /\ crops[k].fp # None =>
         \/ crops[k].fp = crops[k].of
         \/ Sound(crops[k].fp, k) /\ crops[k].fp.ver < crops[k].of.ver

\* The crop of an area, which only force_refresh writes, is as its note says.
CropsOfAreas ==
  \A s \in Sides :
    \/ crops[s].fp \in {None, crops[s].of}
    \/ \E p \in Instances : job[p].force /\ job[p].dl[s] \in {"copying", "noting"}
NotingIsCropped ==
  \A p \in Instances, s \in Sides :
    job[p].dl[s] = "noting" =>
      crops[IF job[p].force THEN s ELSE Kind(p, s)].of = sheet[Kind(p, s)]

\* The points of a job whose crop is complete; of those, at which it has it in the
\* cache, the terrain first.
HasCrop == {"groundCopy", "persistVeg", "vegCopy", "persistMeta", "surf", "surfCopy",
            "surfMeta", "wait"}
HasGround == HasCrop \ {"groundCopy"}
HasVeg == HasGround \ {"persistVeg", "vegCopy"}

\* What a job has in hand, and whether it has cropped it.
PartsOfJobs ==
  \A p \in Instances, s \in Sides :
    /\ job[p].part[s] # None => job[p].part[s].whole
    /\ ~job[p].restored =>
         (job[p].part[s] # None <=> job[p].dl[s] \in {"copying", "noting", "cropped"})
    /\ ~job[p].restored /\ (job[p].at \in HasCrop \/ job[p].says # None)
         => job[p].dl[s] = "cropped"
    /\ job[p].at \in {"start", "crop", "groundCopy", "persistVeg", "vegCopy", "persistMeta"}
         => ~job[p].restored

\* A crop in the cache that is not whole is being copied, or nobody will take it.
AreaIsWhole ==
  \A s \in Sides : aoi.part[s] # None /\ ~aoi.part[s].whole /\ aoi.noted =>
    \E p \in Instances : job[p].at = IF s = "dmr" THEN "groundCopy" ELSE "vegCopy"

\* The points at which the crop of the area is that of the job.
AreaOfJob ==
  \A p \in Instances :
    /\ job[p].at \in HasCrop => job[p].part["dmr"] # None
    /\ job[p].at \in HasGround => aoi.part["dmr"] = job[p].part["dmr"]
    /\ job[p].at \in HasVeg => aoi.part["dmp"] = job[p].part["dmp"]

SheetInv ==
  /\ NotesInv /\ ~HitAnywhere
  /\ SlotIsHeld /\ KindsOfSides /\ HalfIsFetched /\ TakenIsWhole
  /\ OvertakenIsNoted /\ NeverBelievesNewer
  /\ CropsOfSheets /\ CropsOfAreas /\ NotingIsCropped
  /\ PartsOfJobs /\ AreaOfJob /\ AreaIsWhole /\ CropOfCurrentSheet

\* Terrain only gets newer, from the elevation model over the crop to the sheet.
TerrainOfJobs ==
  \A p \in Instances : job[p].part["dmr"] # None => job[p].part["dmr"].kind = "DMR"
OfTerrain(c) == c.kind = "DMR" /\ c.ver <= remote["DMR"]
TerrainInOrder ==
  /\ aoi.part["dmr"] # None =>
       OfTerrain(aoi.part["dmr"]) /\ NotAfter(aoi.part["dmr"], sheet["DMR"])
  /\ surf.of # None =>
       /\ OfTerrain(surf.of)
       /\ NotAfter(surf.of, sheet["DMR"]) /\ NotAfter(surf.of, aoi.part["dmr"])

\* Of the elevation model and its note, too, the note may be the older one.
SurfaceNote ==
  surf.fp["dmr"] # None =>
    /\ surf.of # None /\ Sound(surf.fp["dmr"], "DMR")
    /\ \/ surf.fp["dmr"] = surf.of
       \/ surf.fp["dmr"].ver < surf.of.ver
       \/ \E p \in Instances : job[p].at = "surfCopy" /\ surf.fp["dmr"] = job[p].part["dmr"]
SurfacesOfJob ==
  \A p \in Instances :
    /\ job[p].at \in {"surfCopy", "surfMeta"} => job[p].dem = job[p].part["dmr"]
    /\ job[p].at = "surfCopy" => surf.of = Cut(job[p].dem)
    /\ job[p].at = "surfMeta" => surf.of = job[p].dem
    /\ job[p].dem # None => job[p].at \in {"surfCopy", "surfMeta", "wait", "end"}
    /\ job[p].dem # None => job[p].restored \/ job[p].dl["dmr"] = "cropped"
    /\ job[p].says # None => job[p].at = "end"

SurfInv ==
  /\ SheetInv
  /\ TerrainOfJobs /\ TerrainInOrder /\ SurfaceNote /\ SurfacesOfJob
  /\ SurfacesFitCrop /\ NewlyRecordedIsUsed
=============================================================================
