------------------------ MODULE DownloadCache_proofs ------------------------
(***************************************************************************)
(* Proofs about DownloadCache, for any instances, any number of versions   *)
(* and of disturbances:                                                    *)
(*   TypeCorrect       the type invariant,                                 *)
(*   SheetsAreWhole    SheetWhole, CropOfCurrentSheet and                  *)
(*                     NeverBelievesNewer, if no kill and no error of the  *)
(*                     disk hits where the code does not survive it        *)
(*                     (~HitAnywhere, AtRisk),                             *)
(*   SurfacesAreTrue   SurfacesFitCrop and NewlyRecordedIsUsed, likewise.  *)
(***************************************************************************)
EXTENDS DownloadCache, TLAPS

-----------------------------------------------------------------------------
(* Types.  The updates of a job first, since its record is large. *)

LEMMA AtTyped == ASSUME NEW j \in Jobs, NEW x \in Points PROVE [j EXCEPT !.at = x] \in Jobs
BY DEF Jobs

LEMMA DlTyped ==
  ASSUME NEW j \in Jobs, NEW s \in Sides, NEW d \in DownloadPoints
  PROVE  [j EXCEPT !.dl[s] = d] \in Jobs
BY DEF Jobs

LEMMA KindDlTyped ==
  ASSUME NEW j \in Jobs, NEW s \in Sides, NEW k \in Kinds, NEW d \in DownloadPoints
  PROVE  [j EXCEPT !.kind[s] = k, !.dl[s] = d] \in Jobs
BY DEF Jobs

LEMMA PartDlTyped ==
  ASSUME NEW j \in Jobs, NEW s \in Sides, NEW c \in Maybe(Content), NEW d \in DownloadPoints
  PROVE  [j EXCEPT !.part[s] = c, !.dl[s] = d] \in Jobs
BY DEF Jobs

LEMMA RestoredTyped ==
  ASSUME NEW j \in Jobs, NEW c \in [Sides -> Maybe(Content)], NEW x \in Points
  PROVE  [j EXCEPT !.part = c, !.restored = TRUE, !.at = x] \in Jobs
BY DEF Jobs

LEMMA DemTyped ==
  ASSUME NEW j \in Jobs, NEW c \in Maybe(Content), NEW x \in Points
  PROVE  [j EXCEPT !.dem = c, !.at = x] \in Jobs
BY DEF Jobs

LEMMA SaysTyped ==
  ASSUME NEW j \in Jobs, NEW k \in Kinds, NEW x \in Points
  PROVE  [j EXCEPT !.says = k, !.at = x] \in Jobs
BY DEF Jobs, Maybe

LEMMA NewTyped ==
  ASSUME NEW x \in Points, NEW force \in BOOLEAN
  PROVE  NewJob(x, force) \in Jobs
BY DEF Jobs, NewJob, Sides, Kinds, DownloadPoints, Maybe

LEMMA JobFields ==
  ASSUME NEW j \in Jobs
  PROVE  /\ j.at \in Points /\ j.force \in BOOLEAN /\ j.restored \in BOOLEAN
         /\ j.dl \in [Sides -> DownloadPoints] /\ j.kind \in [Sides -> Kinds]
         /\ j.part \in [Sides -> Maybe(Content)] /\ j.dem \in Maybe(Content)
         /\ j.says \in Maybe(Kinds)
BY DEF Jobs

LEMMA ContentFields ==
  ASSUME NEW c \in Content
  PROVE  c.kind \in Kinds /\ c.ver \in 1..MaxVer /\ c.whole \in BOOLEAN
BY DEF Content

\* Two contents of one product and one version differ in wholeness only.
LEMMA SameContent ==
  ASSUME NEW c \in Content, NEW d \in Content,
         c.kind = d.kind, c.ver = d.ver, c.whole = d.whole
  PROVE  c = d
BY DEF Content

LEMMA SomeContent ==
  ASSUME ConstantsOK
  PROVE  \A c \in Maybe(Content) : c # None <=> c \in Content
BY DEF ConstantsOK, Maybe

LEMMA PointsTyped ==
  /\ {"idle", "start", "crop", "groundCopy", "persistVeg", "vegCopy", "persistMeta",
       "surf", "surfCopy", "surfMeta", "wait", "end"}
       \subseteq Points
  /\ {"look", "fetching", "fetched", "done", "failed", "copying", "noting", "cropped"}
       \subseteq DownloadPoints
  /\ {"DMR", "OK", "1G"} \subseteq Kinds /\ {"dmr", "dmp"} \subseteq Sides
BY DEF Points, DownloadPoints, Kinds, Sides

LEMMA TypeInit == ASSUME ConstantsOK PROVE Init => TypeOK
<1> SUFFICES ASSUME Init PROVE TypeOK
  OBVIOUS
<1> USE DEF ConstantsOK, Init, Maybe
<1>1. job \in [Instances -> Jobs]
  BY NewTyped, PointsTyped
<1>2. 0 \in 0..MaxVer /\ 0 \in 0..MaxEvents /\ 1 \in 0..MaxVer
  OBVIOUS
<1>3. /\ holder \in Instances \cup {Nobody} /\ remote \in [Kinds -> 0..MaxVer]
      /\ sheet \in [Kinds -> Maybe(Content)]
      /\ seen \in [Kinds -> 0..MaxVer] /\ stored \in [Kinds -> 0..MaxVer]
      /\ events \in 0..MaxEvents
  BY <1>2 DEF Slot!Init
<1>4. crops \in [Kinds \cup Sides -> Crop]
  BY DEF Crop, Nothing
<1>5. aoi \in [part : [Sides -> Maybe(Content)], noted : BOOLEAN]
  OBVIOUS
<1>6. surf \in [of : Maybe(Content), fp : [Sides -> Maybe(Content)]]
  OBVIOUS
<1> QED
  BY <1>1, <1>3, <1>4, <1>5, <1>6 DEF TypeOK

LEMMA KindTyped ==
  ASSUME TypeOK, NEW p \in Instances, NEW s \in Sides
  PROVE  job[p] \in Jobs /\ Kind(p, s) \in Kinds
BY JobFields DEF TypeOK, Kind

LEMMA FetchedTyped ==
  ASSUME ConstantsOK, TypeOK, NEW k \in Kinds, remote[k] # 0
  PROVE  [kind |-> k, ver |-> remote[k], whole |-> FALSE] \in Content
BY DEF Content, TypeOK, ConstantsOK

LEMMA WholeTyped ==
  ASSUME NEW c \in Content PROVE [c EXCEPT !.whole = TRUE] \in Content
BY DEF Content

LEMMA CutTyped ==
  ASSUME NEW c \in Content
  PROVE  /\ Cut(c) \in Content /\ ~Cut(c).whole
         /\ Cut(c).kind = c.kind /\ Cut(c).ver = c.ver
BY DEF Content, Cut

BrokenOff(p, s, c) ==
  job' = [job EXCEPT ![p] = [job[p] EXCEPT !.part[s] = c, !.dl[s] = "failed"]]

\* A thread that breaks takes its crop with it, or leaves a restored one alone.
LEMMA BreaksOff ==
  ASSUME NEW p \in Instances, NEW s \in Sides, ThreadBreaks(p, s)
  PROVE  \E c \in {None, job[p].part[s]} :
           /\ BrokenOff(p, s, c)
           /\ IF job[p].restored THEN c = job[p].part[s] ELSE c = None
<1> DEFINE left == IF job[p].restored THEN job[p].part[s] ELSE None
<1>1. BrokenOff(p, s, left)
  BY DEF ThreadBreaks, BrokenOff
<1>2. /\ left \in {None, job[p].part[s]}
      /\ IF job[p].restored THEN left = job[p].part[s] ELSE left = None
  OBVIOUS
<1> HIDE DEF left
<1> QED
  BY <1>1, <1>2

\* A job stays a job.
LEMMA JobStep ==
  ASSUME ConstantsOK, TypeOK, [Next]_vars
  PROVE  job' \in [Instances -> Jobs]
<1> USE PointsTyped, JobFields, KindTyped DEF TypeOK, cache
<1>1. ASSUME NEW p \in Instances, NEW s \in Sides, UseCached(p, s) PROVE job' \in [Instances -> Jobs]
  BY <1>1, DlTyped DEF UseCached, GotoDl
<1>2. ASSUME NEW p \in Instances, NEW s \in Sides, UseChecked(p, s) PROVE job' \in [Instances -> Jobs]
  BY <1>2, DlTyped DEF UseChecked, GotoDl
<1>3. ASSUME NEW p \in Instances, NEW s \in Sides, FetchStart(p, s) PROVE job' \in [Instances -> Jobs]
  BY <1>3, DlTyped DEF FetchStart, GotoDl
<1>4. ASSUME NEW p \in Instances, NEW s \in Sides, FetchDone(p, s) PROVE job' \in [Instances -> Jobs]
  BY <1>4, DlTyped DEF FetchDone, GotoDl
<1>5. ASSUME NEW p \in Instances, NEW s \in Sides, WriteMeta(p, s) PROVE job' \in [Instances -> Jobs]
  BY <1>5, DlTyped DEF WriteMeta, GotoDl
<1>6. ASSUME NEW p \in Instances, NEW s \in Sides, FetchFails(p, s) PROVE job' \in [Instances -> Jobs]
  <2> DEFINE j == [job[p] EXCEPT !.kind[s] = "1G", !.dl[s] = "look"]
  <2>1. j \in Jobs
    BY KindDlTyped
  <2> HIDE DEF j
  <2>2. job' = [job EXCEPT ![p] = j] \/ GotoDl(p, s, "look") \/ GotoDl(p, s, "failed")
    BY <1>6 DEF FetchFails, AfterFailure, j
  <2>3. CASE job' = [job EXCEPT ![p] = j]
    BY <2>1, <2>3
  <2>4. ASSUME NEW d \in {"look", "failed"}, GotoDl(p, s, d) PROVE job' \in [Instances -> Jobs]
    BY <2>4, DlTyped DEF GotoDl
  <2> QED
    BY <2>2, <2>3, <2>4
<1>7. ASSUME NEW p \in Instances, NEW s \in Sides, CropHit(p, s) PROVE job' \in [Instances -> Jobs]
  <2>1. PICK x \in Kinds \cup Sides :
          job' = [job EXCEPT ![p] =
                    [job[p] EXCEPT !.part[s] = crops[x].of, !.dl[s] = "cropped"]]
    BY <1>7 DEF CropHit, Sides
  <2> DEFINE j == [job[p] EXCEPT !.part[s] = crops[x].of, !.dl[s] = "cropped"]
  <2>2. crops[x].of \in Maybe(Content)
    BY DEF Crop
  <2>3. j \in Jobs
    BY <2>2, PartDlTyped
  <2>4. job' = [job EXCEPT ![p] = j]
    BY <2>1
  <2> HIDE DEF j
  <2> QED
    BY <2>3, <2>4
<1>8. ASSUME NEW p \in Instances, NEW s \in Sides, CropBuild(p, s) PROVE job' \in [Instances -> Jobs]
  BY <1>8, PartDlTyped DEF CropBuild
<1>9. ASSUME NEW p \in Instances, NEW s \in Sides, CropForced(p, s) PROVE job' \in [Instances -> Jobs]
  BY <1>9, PartDlTyped DEF CropForced
<1>10. ASSUME NEW p \in Instances, NEW s \in Sides, CropMeta(p, s) PROVE job' \in [Instances -> Jobs]
  BY <1>10, DlTyped DEF CropMeta, GotoDl
<1>11. ASSUME NEW p \in Instances, Begin(p) PROVE job' \in [Instances -> Jobs]
  BY <1>11, NewTyped DEF Begin
<1>12. ASSUME NEW p \in Instances, RestoreCrop(p) PROVE job' \in [Instances -> Jobs]
  BY <1>12, RestoredTyped DEF RestoreCrop
<1>13. ASSUME NEW p \in Instances, RestoreMiss(p) PROVE job' \in [Instances -> Jobs]
  BY <1>13, AtTyped DEF RestoreMiss, Goto
<1>14. ASSUME NEW p \in Instances, PersistGround(p) PROVE job' \in [Instances -> Jobs]
  BY <1>14, AtTyped DEF PersistGround, Goto
<1>15. ASSUME NEW p \in Instances, PersistVeg(p) PROVE job' \in [Instances -> Jobs]
  BY <1>15, AtTyped DEF PersistVeg, Goto
<1>16. ASSUME NEW p \in Instances, PersistMeta(p) PROVE job' \in [Instances -> Jobs]
  BY <1>16, AtTyped DEF PersistMeta, Goto
<1>17. ASSUME NEW p \in Instances, RestoreSurfaces(p) PROVE job' \in [Instances -> Jobs]
  BY <1>17, DemTyped DEF RestoreSurfaces
<1>18. ASSUME NEW p \in Instances, BuildSurfaces(p) PROVE job' \in [Instances -> Jobs]
  <2> DEFINE j == [job[p] EXCEPT !.dem = job[p].part["dmr"], !.at = "surfCopy"]
  <2>1. j \in Jobs
    BY DemTyped
  <2>2. job' = [job EXCEPT ![p] = j]
    BY <1>18 DEF BuildSurfaces
  <2> HIDE DEF j
  <2> QED
    BY <2>1, <2>2
<1>19. ASSUME NEW p \in Instances, SurfMeta(p) PROVE job' \in [Instances -> Jobs]
  BY <1>19, AtTyped DEF SurfMeta, Goto
<1>20. ASSUME NEW p \in Instances, Record(p) PROVE job' \in [Instances -> Jobs]
  BY <1>20, SaysTyped DEF Record
<1>21. ASSUME NEW p \in Instances, Fail(p) PROVE job' \in [Instances -> Jobs]
  BY <1>21, AtTyped DEF Fail, Goto
<1>22. ASSUME NEW p \in Instances, End(p) PROVE job' \in [Instances -> Jobs]
  BY <1>22, NewTyped DEF End
<1>23. ASSUME NEW p \in Instances, Kill(p) PROVE job' \in [Instances -> Jobs]
  BY <1>23, NewTyped DEF Kill
<1>24. ASSUME NEW k \in Kinds, Publish(k) PROVE job' \in [Instances -> Jobs]
  BY <1>24 DEF Publish
<1>25. ASSUME Prune PROVE job' \in [Instances -> Jobs]
  BY <1>25 DEF Prune
<1>26. CASE UNCHANGED vars
  BY <1>26 DEF vars
<1>27. ASSUME NEW p \in Instances, NEW s \in Sides, CropCopied(p, s) PROVE job' \in [Instances -> Jobs]
  BY <1>27, DlTyped DEF CropCopied, GotoDl
<1>28. ASSUME NEW p \in Instances, GroundCopied(p) PROVE job' \in [Instances -> Jobs]
  BY <1>28, AtTyped DEF GroundCopied, Goto
<1>29. ASSUME NEW p \in Instances, VegCopied(p) PROVE job' \in [Instances -> Jobs]
  BY <1>29, AtTyped DEF VegCopied, Goto
<1>30. ASSUME NEW p \in Instances, SurfacesCopied(p) PROVE job' \in [Instances -> Jobs]
  BY <1>30, AtTyped DEF SurfacesCopied, Goto
<1>31. ASSUME NEW p \in Instances, Raise(p) PROVE job' \in [Instances -> Jobs]
  BY <1>31, AtTyped DEF Raise, Goto
<1>32. ASSUME NEW p \in Instances, NEW s \in Sides, ThreadBreaks(p, s) PROVE job' \in [Instances -> Jobs]
  <2>1. PICK c \in {None, job[p].part[s]} : BrokenOff(p, s, c)
    BY <1>32, BreaksOff
  <2>2. c \in Maybe(Content)
    BY DEF Maybe
  <2>3. [job[p] EXCEPT !.part[s] = c, !.dl[s] = "failed"] \in Jobs
    BY <2>2, PartDlTyped
  <2> QED
    BY <2>1, <2>3 DEF BrokenOff
<1> QED
  BY <1>1, <1>2, <1>3, <1>4, <1>5, <1>6, <1>7, <1>8, <1>9, <1>10, <1>11, <1>12, <1>13,
     <1>14, <1>15, <1>16, <1>17, <1>18, <1>19, <1>20, <1>21, <1>22, <1>23, <1>24, <1>25,
     <1>26, <1>27, <1>28, <1>29, <1>30, <1>31, <1>32
     DEF Next, Main, Download, CropStep

\* So does the cache, and what is outside of it.
LEMMA CacheTypeStep ==
  ASSUME ConstantsOK, TypeOK, [Next]_vars
  PROVE  /\ sheet' \in [Kinds -> Maybe(Content)]
         /\ seen' \in [Kinds -> 0..MaxVer] /\ stored' \in [Kinds -> 0..MaxVer]
         /\ crops' \in [Kinds \cup Sides -> Crop]
<1> DEFINE Goal == /\ sheet' \in [Kinds -> Maybe(Content)]
                   /\ seen' \in [Kinds -> 0..MaxVer] /\ stored' \in [Kinds -> 0..MaxVer]
                   /\ crops' \in [Kinds \cup Sides -> Crop]
<1> USE KindTyped DEF TypeOK, cache, ConstantsOK
<1>1. ASSUME NEW p \in Instances, NEW s \in Sides, UseCached(p, s) PROVE Goal
  BY <1>1 DEF UseCached
<1>2. ASSUME NEW p \in Instances, NEW s \in Sides, UseChecked(p, s) PROVE Goal
  BY <1>2 DEF UseChecked
<1>3. ASSUME NEW p \in Instances, NEW s \in Sides, FetchStart(p, s) PROVE Goal
  <2>1. [kind |-> Kind(p, s), ver |-> remote[Kind(p, s)], whole |-> FALSE] \in Maybe(Content)
    BY <1>3, FetchedTyped DEF FetchStart, Maybe
  <2> QED
    BY <1>3, <2>1 DEF FetchStart
<1>4. ASSUME NEW p \in Instances, NEW s \in Sides, FetchDone(p, s) PROVE Goal
  <2>1. [sheet[Kind(p, s)] EXCEPT !.whole = TRUE] \in Maybe(Content)
    BY <1>4, WholeTyped, SomeContent DEF FetchDone, Maybe
  <2> QED
    BY <1>4, <2>1 DEF FetchDone
<1>5. ASSUME NEW p \in Instances, NEW s \in Sides, WriteMeta(p, s) PROVE Goal
  BY <1>5, ContentFields, SomeContent DEF WriteMeta
<1>6. ASSUME NEW p \in Instances, NEW s \in Sides, FetchFails(p, s) PROVE Goal
  BY <1>6 DEF FetchFails, Maybe
<1>7. ASSUME NEW p \in Instances, NEW s \in Sides, CropHit(p, s) PROVE Goal
  BY <1>7 DEF CropHit
<1>8. ASSUME NEW p \in Instances, NEW s \in Sides, CropBuild(p, s) PROVE Goal
  <2>1. [crops[Kind(p, s)] EXCEPT !.of = sheet[Kind(p, s)]] \in Crop
    BY DEF Crop
  <2> QED
    BY <1>8, <2>1 DEF CropBuild
<1>9. ASSUME NEW p \in Instances, NEW s \in Sides, CropForced(p, s) PROVE Goal
  <2>1. s \in Kinds \cup Sides /\ Cut(sheet[Kind(p, s)]) \in Maybe(Content)
    BY <1>9, CutTyped, SomeContent DEF CropForced, Maybe
  <2>2. [crops[s] EXCEPT !.of = Cut(sheet[Kind(p, s)])] \in Crop
    BY <2>1 DEF Crop
  <2> QED
    BY <1>9, <2>1, <2>2 DEF CropForced
<1>10. ASSUME NEW p \in Instances, NEW s \in Sides, CropMeta(p, s) PROVE Goal
  <2>1. ASSUME NEW x \in Kinds \cup Sides
        PROVE  [crops[x] EXCEPT !.fp = sheet[Kind(p, s)]] \in Crop
    BY DEF Crop
  <2> QED
    BY <1>10, <2>1 DEF CropMeta
<1>11. ASSUME NEW p \in Instances, Begin(p) PROVE Goal
  BY <1>11 DEF Begin
<1>12. ASSUME NEW p \in Instances, RestoreCrop(p) PROVE Goal
  BY <1>12 DEF RestoreCrop
<1>13. ASSUME NEW p \in Instances, RestoreMiss(p) PROVE Goal
  BY <1>13 DEF RestoreMiss
<1>14. ASSUME NEW p \in Instances, PersistGround(p) PROVE Goal
  BY <1>14 DEF PersistGround
<1>15. ASSUME NEW p \in Instances, PersistVeg(p) PROVE Goal
  BY <1>15 DEF PersistVeg
<1>16. ASSUME NEW p \in Instances, PersistMeta(p) PROVE Goal
  BY <1>16 DEF PersistMeta
<1>17. ASSUME NEW p \in Instances, RestoreSurfaces(p) PROVE Goal
  BY <1>17 DEF RestoreSurfaces
<1>18. ASSUME NEW p \in Instances, BuildSurfaces(p) PROVE Goal
  BY <1>18 DEF BuildSurfaces
<1>19. ASSUME NEW p \in Instances, SurfMeta(p) PROVE Goal
  BY <1>19 DEF SurfMeta
<1>20. ASSUME NEW p \in Instances, Record(p) PROVE Goal
  BY <1>20 DEF Record
<1>21. ASSUME NEW p \in Instances, Fail(p) PROVE Goal
  BY <1>21 DEF Fail
<1>22. ASSUME NEW p \in Instances, End(p) PROVE Goal
  BY <1>22 DEF End
<1>23. ASSUME NEW p \in Instances, Kill(p) PROVE Goal
  BY <1>23 DEF Kill
<1>24. ASSUME NEW k \in Kinds, Publish(k) PROVE Goal
  BY <1>24 DEF Publish
<1>25. ASSUME Prune PROVE Goal
  <2>1. Nothing \in Crop /\ None \in Maybe(Content)
    BY DEF Nothing, Crop, Maybe
  <2>2. CASE PruneSheet
    <3>1. PICK Lost \in SUBSET (Kinds \cup {"meta", "crops"}) :
             /\ sheet' = [k \in Kinds |-> IF k \in Lost THEN None ELSE sheet[k]]
             /\ seen' = [k \in Kinds |-> IF k \in Lost THEN 0 ELSE seen[k]]
             /\ stored' = IF "meta" \in Lost THEN [k \in Kinds |-> 0] ELSE stored
             /\ crops' = IF "crops" \in Lost THEN [x \in DOMAIN crops |-> Nothing] ELSE crops
      BY <2>2 DEF PruneSheet
    <3> QED
      BY <3>1, <2>1
  <2>3. CASE PruneArea
    BY <2>3 DEF PruneArea
  <2> QED
    BY <1>25, <2>2, <2>3 DEF Prune
<1>26. CASE UNCHANGED vars
  BY <1>26 DEF vars
<1>27. ASSUME NEW p \in Instances, NEW s \in Sides, CropCopied(p, s) PROVE Goal
  <2>1. s \in Kinds \cup Sides /\ [crops[s] EXCEPT !.of = sheet[Kind(p, s)]] \in Crop
    BY DEF Crop
  <2> QED
    BY <1>27, <2>1 DEF CropCopied
<1>28. ASSUME NEW p \in Instances, GroundCopied(p) PROVE Goal
  BY <1>28 DEF GroundCopied
<1>29. ASSUME NEW p \in Instances, VegCopied(p) PROVE Goal
  BY <1>29 DEF VegCopied
<1>30. ASSUME NEW p \in Instances, SurfacesCopied(p) PROVE Goal
  BY <1>30 DEF SurfacesCopied
<1>31. ASSUME NEW p \in Instances, Raise(p) PROVE Goal
  BY <1>31 DEF Raise
<1>32. ASSUME NEW p \in Instances, NEW s \in Sides, ThreadBreaks(p, s) PROVE Goal
  BY <1>32 DEF ThreadBreaks
<1> QED
  BY <1>1, <1>2, <1>3, <1>4, <1>5, <1>6, <1>7, <1>8, <1>9, <1>10, <1>11, <1>12, <1>13,
     <1>14, <1>15, <1>16, <1>17, <1>18, <1>19, <1>20, <1>21, <1>22, <1>23, <1>24, <1>25,
     <1>26, <1>27, <1>28, <1>29, <1>30, <1>31, <1>32
     DEF Next, Main, Download, CropStep

LEMMA OuterTypeStep ==
  ASSUME ConstantsOK, TypeOK, [Next]_vars
  PROVE  /\ holder' \in Instances \cup {Nobody}
         /\ remote' \in [Kinds -> 0..MaxVer]
         /\ events' \in 0..MaxEvents
<1> DEFINE Goal == /\ holder' \in Instances \cup {Nobody}
                   /\ remote' \in [Kinds -> 0..MaxVer]
                   /\ events' \in 0..MaxEvents
<1>a. /\ holder \in Instances \cup {Nobody} /\ remote \in [Kinds -> 0..MaxVer]
      /\ events \in 0..MaxEvents /\ MaxVer \in Nat /\ MaxEvents \in Nat
  BY DEF TypeOK, ConstantsOK
<1>1. ASSUME NEW p \in Instances, NEW s \in Sides, UseCached(p, s) PROVE Goal
  BY <1>1, <1>a DEF UseCached
<1>2. ASSUME NEW p \in Instances, NEW s \in Sides, UseChecked(p, s) PROVE Goal
  BY <1>2, <1>a DEF UseChecked
<1>3. ASSUME NEW p \in Instances, NEW s \in Sides, FetchStart(p, s) PROVE Goal
  BY <1>3, <1>a DEF FetchStart
<1>4. ASSUME NEW p \in Instances, NEW s \in Sides, FetchDone(p, s) PROVE Goal
  BY <1>4, <1>a DEF FetchDone
<1>5. ASSUME NEW p \in Instances, NEW s \in Sides, WriteMeta(p, s) PROVE Goal
  BY <1>5, <1>a DEF WriteMeta
<1>6. ASSUME NEW p \in Instances, NEW s \in Sides, FetchFails(p, s) PROVE Goal
  BY <1>6, <1>a DEF FetchFails, Event, Slot!Take, Slot!Drop
<1>7. ASSUME NEW p \in Instances, NEW s \in Sides, CropHit(p, s) PROVE Goal
  BY <1>7, <1>a DEF CropHit
<1>8. ASSUME NEW p \in Instances, NEW s \in Sides, CropBuild(p, s) PROVE Goal
  BY <1>8, <1>a DEF CropBuild
<1>9. ASSUME NEW p \in Instances, NEW s \in Sides, CropForced(p, s) PROVE Goal
  BY <1>9, <1>a DEF CropForced
<1>10. ASSUME NEW p \in Instances, NEW s \in Sides, CropMeta(p, s) PROVE Goal
  BY <1>10, <1>a DEF CropMeta
<1>11. ASSUME NEW p \in Instances, Begin(p) PROVE Goal
  BY <1>11, <1>a DEF Begin, Event, Slot!Take, Slot!Drop
<1>12. ASSUME NEW p \in Instances, RestoreCrop(p) PROVE Goal
  BY <1>12, <1>a DEF RestoreCrop
<1>13. ASSUME NEW p \in Instances, RestoreMiss(p) PROVE Goal
  BY <1>13, <1>a DEF RestoreMiss
<1>14. ASSUME NEW p \in Instances, PersistGround(p) PROVE Goal
  BY <1>14, <1>a DEF PersistGround
<1>15. ASSUME NEW p \in Instances, PersistVeg(p) PROVE Goal
  BY <1>15, <1>a DEF PersistVeg
<1>16. ASSUME NEW p \in Instances, PersistMeta(p) PROVE Goal
  BY <1>16, <1>a DEF PersistMeta
<1>17. ASSUME NEW p \in Instances, RestoreSurfaces(p) PROVE Goal
  BY <1>17, <1>a DEF RestoreSurfaces
<1>18. ASSUME NEW p \in Instances, BuildSurfaces(p) PROVE Goal
  BY <1>18, <1>a DEF BuildSurfaces
<1>19. ASSUME NEW p \in Instances, SurfMeta(p) PROVE Goal
  BY <1>19, <1>a DEF SurfMeta
<1>20. ASSUME NEW p \in Instances, Record(p) PROVE Goal
  BY <1>20, <1>a DEF Record
<1>21. ASSUME NEW p \in Instances, Fail(p) PROVE Goal
  BY <1>21, <1>a DEF Fail
<1>22. ASSUME NEW p \in Instances, End(p) PROVE Goal
  BY <1>22, <1>a DEF End, Event, Slot!Take, Slot!Drop
<1>23. ASSUME NEW p \in Instances, Kill(p) PROVE Goal
  BY <1>23, <1>a DEF Kill, Event, Slot!Take, Slot!Drop
<1>24. ASSUME NEW k \in Kinds, Publish(k) PROVE Goal
  BY <1>24, <1>a DEF Publish, Event, Slot!Take, Slot!Drop
<1>25. ASSUME Prune PROVE Goal
  <2>1. \E n \in {1, 2} : events + n <= MaxEvents /\ events' = events + n
    BY <1>25 DEF Prune, PruneSheet, PruneArea, PruneEvents
  <2>2. events' \in 0..MaxEvents
    BY <2>1, <1>a
  <2>3. holder' = holder /\ remote' = remote
    BY <1>25 DEF Prune
  <2> QED
    BY <2>2, <2>3, <1>a
<1>26. CASE UNCHANGED vars
  BY <1>26, <1>a DEF vars
<1>27. ASSUME NEW p \in Instances, NEW s \in Sides, CropCopied(p, s) PROVE Goal
  BY <1>27, <1>a DEF CropCopied
<1>28. ASSUME NEW p \in Instances, GroundCopied(p) PROVE Goal
  BY <1>28, <1>a DEF GroundCopied
<1>29. ASSUME NEW p \in Instances, VegCopied(p) PROVE Goal
  BY <1>29, <1>a DEF VegCopied
<1>30. ASSUME NEW p \in Instances, SurfacesCopied(p) PROVE Goal
  BY <1>30, <1>a DEF SurfacesCopied
<1>31. ASSUME NEW p \in Instances, Raise(p) PROVE Goal
  BY <1>31, <1>a DEF Raise, Event
<1>32. ASSUME NEW p \in Instances, NEW s \in Sides, ThreadBreaks(p, s) PROVE Goal
  BY <1>32, <1>a DEF ThreadBreaks, Event
<1> QED
  BY <1>1, <1>2, <1>3, <1>4, <1>5, <1>6, <1>7, <1>8, <1>9, <1>10, <1>11, <1>12, <1>13,
     <1>14, <1>15, <1>16, <1>17, <1>18, <1>19, <1>20, <1>21, <1>22, <1>23, <1>24, <1>25,
     <1>26, <1>27, <1>28, <1>29, <1>30, <1>31, <1>32
     DEF Next, Main, Download, CropStep

LEMMA AreaTypeStep ==
  ASSUME ConstantsOK, TypeOK, [Next]_vars
  PROVE  /\ aoi' \in [part : [Sides -> Maybe(Content)], noted : BOOLEAN]
         /\ surf' \in [of : Maybe(Content), fp : [Sides -> Maybe(Content)]]
<1> DEFINE Goal == /\ aoi' \in [part : [Sides -> Maybe(Content)], noted : BOOLEAN]
                   /\ surf' \in [of : Maybe(Content), fp : [Sides -> Maybe(Content)]]
<1>a. /\ aoi \in [part : [Sides -> Maybe(Content)], noted : BOOLEAN]
      /\ surf \in [of : Maybe(Content), fp : [Sides -> Maybe(Content)]]
      /\ \A p \in Instances : job[p].part \in [Sides -> Maybe(Content)]
                               /\ job[p].dem \in Maybe(Content)
  BY JobFields DEF TypeOK
<1>b. ASSUME NEW p \in Instances, NEW s \in Sides, job[p].part[s] # None
      PROVE  Cut(job[p].part[s]) \in Maybe(Content)
  BY <1>a, <1>b, CutTyped, SomeContent DEF Maybe
<1> USE DEF cache
<1>1. ASSUME NEW p \in Instances, NEW s \in Sides, UseCached(p, s) PROVE Goal
  BY <1>1, <1>a DEF UseCached
<1>2. ASSUME NEW p \in Instances, NEW s \in Sides, UseChecked(p, s) PROVE Goal
  BY <1>2, <1>a DEF UseChecked
<1>3. ASSUME NEW p \in Instances, NEW s \in Sides, FetchStart(p, s) PROVE Goal
  BY <1>3, <1>a DEF FetchStart
<1>4. ASSUME NEW p \in Instances, NEW s \in Sides, FetchDone(p, s) PROVE Goal
  BY <1>4, <1>a DEF FetchDone
<1>5. ASSUME NEW p \in Instances, NEW s \in Sides, WriteMeta(p, s) PROVE Goal
  BY <1>5, <1>a DEF WriteMeta
<1>6. ASSUME NEW p \in Instances, NEW s \in Sides, FetchFails(p, s) PROVE Goal
  BY <1>6, <1>a DEF FetchFails
<1>7. ASSUME NEW p \in Instances, NEW s \in Sides, CropHit(p, s) PROVE Goal
  BY <1>7, <1>a DEF CropHit
<1>8. ASSUME NEW p \in Instances, NEW s \in Sides, CropBuild(p, s) PROVE Goal
  BY <1>8, <1>a DEF CropBuild
<1>9. ASSUME NEW p \in Instances, NEW s \in Sides, CropForced(p, s) PROVE Goal
  BY <1>9, <1>a DEF CropForced
<1>10. ASSUME NEW p \in Instances, NEW s \in Sides, CropMeta(p, s) PROVE Goal
  BY <1>10, <1>a DEF CropMeta
<1>11. ASSUME NEW p \in Instances, Begin(p) PROVE Goal
  BY <1>11, <1>a DEF Begin
<1>12. ASSUME NEW p \in Instances, RestoreCrop(p) PROVE Goal
  BY <1>12, <1>a DEF RestoreCrop
<1>13. ASSUME NEW p \in Instances, RestoreMiss(p) PROVE Goal
  BY <1>13, <1>a DEF RestoreMiss
<1>14. ASSUME NEW p \in Instances, PersistGround(p) PROVE Goal
  BY <1>14, <1>a, <1>b, PointsTyped DEF PersistGround
<1>15. ASSUME NEW p \in Instances, PersistVeg(p) PROVE Goal
  BY <1>15, <1>a, <1>b, PointsTyped DEF PersistVeg
<1>16. ASSUME NEW p \in Instances, PersistMeta(p) PROVE Goal
  BY <1>16, <1>a DEF PersistMeta
<1>17. ASSUME NEW p \in Instances, RestoreSurfaces(p) PROVE Goal
  BY <1>17, <1>a DEF RestoreSurfaces
<1>18. ASSUME NEW p \in Instances, BuildSurfaces(p) PROVE Goal
  BY <1>18, <1>a, <1>b, PointsTyped DEF BuildSurfaces
<1>19. ASSUME NEW p \in Instances, SurfMeta(p) PROVE Goal
  BY <1>19, <1>a DEF SurfMeta
<1>20. ASSUME NEW p \in Instances, Record(p) PROVE Goal
  BY <1>20, <1>a DEF Record
<1>21. ASSUME NEW p \in Instances, Fail(p) PROVE Goal
  BY <1>21, <1>a DEF Fail
<1>22. ASSUME NEW p \in Instances, End(p) PROVE Goal
  BY <1>22, <1>a DEF End
<1>23. ASSUME NEW p \in Instances, Kill(p) PROVE Goal
  BY <1>23, <1>a DEF Kill
<1>24. ASSUME NEW k \in Kinds, Publish(k) PROVE Goal
  BY <1>24, <1>a DEF Publish
<1>25. ASSUME Prune PROVE Goal
  <2>1. CASE PruneSheet
    BY <2>1, <1>a DEF PruneSheet
  <2>2. CASE PruneArea
    <3>1. PICK Lost \in SUBSET (Sides \cup {"meta"}) :
            aoi' = [part |-> [s \in Sides |-> IF s \in Lost THEN None ELSE aoi.part[s]],
                    noted |-> aoi.noted /\ "meta" \notin Lost]
      BY <2>2 DEF PruneArea
    <3>2. [s \in Sides |-> IF s \in Lost THEN None ELSE aoi.part[s]]
            \in [Sides -> Maybe(Content)]
      BY <1>a DEF Maybe
    <3>3. (aoi.noted /\ "meta" \notin Lost) \in BOOLEAN
      OBVIOUS
    <3> QED
      BY <2>2, <1>a, <3>1, <3>2, <3>3 DEF PruneArea
  <2> QED
    BY <1>25, <2>1, <2>2 DEF Prune
<1>26. CASE UNCHANGED vars
  BY <1>26, <1>a DEF vars
<1>27. ASSUME NEW p \in Instances, NEW s \in Sides, CropCopied(p, s) PROVE Goal
  BY <1>27, <1>a DEF CropCopied
<1>28. ASSUME NEW p \in Instances, GroundCopied(p) PROVE Goal
  BY <1>28, <1>a, PointsTyped DEF GroundCopied
<1>29. ASSUME NEW p \in Instances, VegCopied(p) PROVE Goal
  BY <1>29, <1>a, PointsTyped DEF VegCopied
<1>30. ASSUME NEW p \in Instances, SurfacesCopied(p) PROVE Goal
  BY <1>30, <1>a DEF SurfacesCopied
<1>31. ASSUME NEW p \in Instances, Raise(p) PROVE Goal
  BY <1>31, <1>a DEF Raise
<1>32. ASSUME NEW p \in Instances, NEW s \in Sides, ThreadBreaks(p, s) PROVE Goal
  BY <1>32, <1>a DEF ThreadBreaks
<1> QED
  BY <1>1, <1>2, <1>3, <1>4, <1>5, <1>6, <1>7, <1>8, <1>9, <1>10, <1>11, <1>12, <1>13,
     <1>14, <1>15, <1>16, <1>17, <1>18, <1>19, <1>20, <1>21, <1>22, <1>23, <1>24, <1>25,
     <1>26, <1>27, <1>28, <1>29, <1>30, <1>31, <1>32
     DEF Next, Main, Download, CropStep

LEMMA TypeStep == ASSUME ConstantsOK PROVE TypeOK /\ [Next]_vars => TypeOK'
BY JobStep, CacheTypeStep, OuterTypeStep, AreaTypeStep DEF TypeOK

THEOREM TypeCorrect == ASSUME ConstantsOK PROVE Spec => []TypeOK
BY TypeInit, TypeStep, PTL DEF Spec

-----------------------------------------------------------------------------
(* Notes of versions: NotesInv. *)

LEMMA NotesTyped ==
  ASSUME ConstantsOK, TypeOK, NEW k \in Kinds
  PROVE  /\ remote[k] \in Nat /\ seen[k] \in Nat /\ stored[k] \in Nat
         /\ sheet[k] # None => sheet[k] \in Content /\ sheet[k].ver \in Nat
<1>1. remote[k] \in 0..MaxVer /\ seen[k] \in 0..MaxVer /\ stored[k] \in 0..MaxVer
  BY DEF TypeOK
<1>2. sheet[k] # None => sheet[k] \in Content
  BY SomeContent DEF TypeOK
<1> QED
  BY <1>1, <1>2, ContentFields DEF ConstantsOK

LEMMA NotesStep ==
  ASSUME ConstantsOK, NotesInv, [Next]_vars
  PROVE  NotesAreOld'
<1>a. /\ remote \in [Kinds -> 0..MaxVer] /\ sheet \in [Kinds -> Maybe(Content)]
      /\ seen \in [Kinds -> 0..MaxVer] /\ stored \in [Kinds -> 0..MaxVer]
  BY DEF NotesInv, TypeOK
<1>b. ASSUME NEW p \in Instances, NEW s \in Sides PROVE Kind(p, s) \in Kinds
  BY <1>b, KindTyped DEF NotesInv
<1>c. ASSUME NEW k \in Kinds
      PROVE  /\ remote[k] \in Nat /\ seen[k] \in Nat /\ stored[k] \in Nat
             /\ sheet[k] # None => sheet[k] \in Content /\ sheet[k].ver \in Nat
  BY <1>c, NotesTyped DEF NotesInv
<1>d. NotesAreOld
  BY DEF NotesInv
<1>e. ASSUME UNCHANGED <<remote, sheet, seen, stored>> PROVE NotesAreOld'
  BY <1>d, <1>e DEF NotesAreOld
<1>1. ASSUME NEW p \in Instances, NEW s \in Sides, UseCached(p, s) PROVE NotesAreOld'
  BY <1>1, <1>e DEF UseCached, cache
<1>2. ASSUME NEW p \in Instances, NEW s \in Sides, UseChecked(p, s) PROVE NotesAreOld'
  BY <1>2, <1>a, <1>b, <1>c, <1>d DEF UseChecked, Newer, NotesAreOld
<1>3. ASSUME NEW p \in Instances, NEW s \in Sides, FetchStart(p, s) PROVE NotesAreOld'
  BY <1>3, <1>a, <1>b, <1>c, <1>d DEF FetchStart, NotesAreOld
<1>4. ASSUME NEW p \in Instances, NEW s \in Sides, FetchDone(p, s) PROVE NotesAreOld'
  <2>1. [sheet[Kind(p, s)] EXCEPT !.whole = TRUE].ver = sheet[Kind(p, s)].ver
    BY <1>4, <1>b, <1>c DEF FetchDone, Content
  <2> QED
    BY <1>4, <2>1, <1>a, <1>b, <1>c, <1>d DEF FetchDone, NotesAreOld
<1>5. ASSUME NEW p \in Instances, NEW s \in Sides, WriteMeta(p, s) PROVE NotesAreOld'
  BY <1>5, <1>a, <1>b, <1>c, <1>d DEF WriteMeta, NotesAreOld
<1>6. ASSUME NEW p \in Instances, NEW s \in Sides, FetchFails(p, s) PROVE NotesAreOld'
  BY <1>6, <1>a, <1>b, <1>c, <1>d DEF FetchFails, NotesAreOld
<1>7. ASSUME NEW p \in Instances, NEW s \in Sides, CropHit(p, s) PROVE NotesAreOld'
  BY <1>7, <1>e DEF CropHit, cache
<1>8. ASSUME NEW p \in Instances, NEW s \in Sides, CropBuild(p, s) PROVE NotesAreOld'
  BY <1>8, <1>e DEF CropBuild, cache
<1>9. ASSUME NEW p \in Instances, NEW s \in Sides, CropForced(p, s) PROVE NotesAreOld'
  BY <1>9, <1>e DEF CropForced, cache
<1>10. ASSUME NEW p \in Instances, NEW s \in Sides, CropMeta(p, s) PROVE NotesAreOld'
  BY <1>10, <1>e DEF CropMeta, cache
<1>11. ASSUME NEW p \in Instances, Begin(p) PROVE NotesAreOld'
  BY <1>11, <1>e DEF Begin, cache
<1>12. ASSUME NEW p \in Instances, RestoreCrop(p) PROVE NotesAreOld'
  BY <1>12, <1>e DEF RestoreCrop, cache
<1>13. ASSUME NEW p \in Instances, RestoreMiss(p) PROVE NotesAreOld'
  BY <1>13, <1>e DEF RestoreMiss, cache
<1>14. ASSUME NEW p \in Instances, PersistGround(p) PROVE NotesAreOld'
  BY <1>14, <1>e DEF PersistGround, cache
<1>15. ASSUME NEW p \in Instances, PersistVeg(p) PROVE NotesAreOld'
  BY <1>15, <1>e DEF PersistVeg, cache
<1>16. ASSUME NEW p \in Instances, PersistMeta(p) PROVE NotesAreOld'
  BY <1>16, <1>e DEF PersistMeta, cache
<1>17. ASSUME NEW p \in Instances, RestoreSurfaces(p) PROVE NotesAreOld'
  BY <1>17, <1>e DEF RestoreSurfaces, cache
<1>18. ASSUME NEW p \in Instances, BuildSurfaces(p) PROVE NotesAreOld'
  BY <1>18, <1>e DEF BuildSurfaces, cache
<1>19. ASSUME NEW p \in Instances, SurfMeta(p) PROVE NotesAreOld'
  BY <1>19, <1>e DEF SurfMeta, cache
<1>20. ASSUME NEW p \in Instances, Record(p) PROVE NotesAreOld'
  BY <1>20, <1>e DEF Record, cache
<1>21. ASSUME NEW p \in Instances, Fail(p) PROVE NotesAreOld'
  BY <1>21, <1>e DEF Fail, cache
<1>22. ASSUME NEW p \in Instances, End(p) PROVE NotesAreOld'
  BY <1>22, <1>e DEF End, cache
<1>23. ASSUME NEW p \in Instances, Kill(p) PROVE NotesAreOld'
  BY <1>23, <1>e DEF Kill, cache
<1>24. ASSUME NEW k \in Kinds, Publish(k) PROVE NotesAreOld'
  BY <1>24, <1>a, <1>c, <1>d DEF Publish, cache, NotesAreOld
<1>25. ASSUME Prune PROVE NotesAreOld'
  <2>1. CASE PruneArea
    BY <1>25, <2>1, <1>e DEF Prune, PruneArea
  <2>2. CASE PruneSheet
    BY <1>25, <2>2, <1>a, <1>c, <1>d DEF Prune, PruneSheet, NotesAreOld
  <2> QED
    BY <1>25, <2>1, <2>2 DEF Prune
<1>26. CASE UNCHANGED vars
  BY <1>26, <1>e DEF vars, cache
<1>27. ASSUME NEW p \in Instances, NEW s \in Sides, CropCopied(p, s) PROVE NotesAreOld'
  BY <1>27, <1>e DEF CropCopied, cache
<1>28. ASSUME NEW p \in Instances, GroundCopied(p) PROVE NotesAreOld'
  BY <1>28, <1>e DEF GroundCopied, cache
<1>29. ASSUME NEW p \in Instances, VegCopied(p) PROVE NotesAreOld'
  BY <1>29, <1>e DEF VegCopied, cache
<1>30. ASSUME NEW p \in Instances, SurfacesCopied(p) PROVE NotesAreOld'
  BY <1>30, <1>e DEF SurfacesCopied, cache
<1>31. ASSUME NEW p \in Instances, Raise(p) PROVE NotesAreOld'
  BY <1>31, <1>e DEF Raise, cache
<1>32. ASSUME NEW p \in Instances, NEW s \in Sides, ThreadBreaks(p, s) PROVE NotesAreOld'
  BY <1>32, <1>e DEF ThreadBreaks, cache
<1> QED
  BY <1>1, <1>2, <1>3, <1>4, <1>5, <1>6, <1>7, <1>8, <1>9, <1>10, <1>11, <1>12, <1>13,
     <1>14, <1>15, <1>16, <1>17, <1>18, <1>19, <1>20, <1>21, <1>22, <1>23, <1>24, <1>25,
     <1>26, <1>27, <1>28, <1>29, <1>30, <1>31, <1>32
     DEF Next, Main, Download, CropStep

LEMMA NotesInit == ASSUME ConstantsOK PROVE Init => NotesInv
<1>1. Init => NotesAreOld
  <2> SUFFICES ASSUME Init PROVE NotesAreOld
    OBVIOUS
  <2>1. \A k \in Kinds : sheet[k] = None /\ seen[k] = 0 /\ stored[k] = 0 /\ remote[k] \in Nat
    BY DEF Init
  <2> QED
    BY <2>1 DEF NotesAreOld
<1> QED
  BY <1>1, TypeInit DEF NotesInv

-----------------------------------------------------------------------------
(* What a step does to the jobs, field by field. *)

Others(p) == \A q \in Instances : q # p => job'[q] = job[q]
SameKind(p) == \A s \in Sides : Kind(p, s)' = Kind(p, s)
SamePart(p) == \A s \in Sides : job'[p].part[s] = job[p].part[s]
SameEnd(p) == job'[p].dem = job[p].dem /\ job'[p].says = job[p].says
SameRun(p) == job'[p].force = job[p].force /\ job'[p].restored = job[p].restored
Stays(p) == /\ Others(p) /\ SameKind(p) /\ SamePart(p) /\ SameEnd(p) /\ SameRun(p)
            /\ \A s \in Sides : job'[p].dl[s] = job[p].dl[s]

Moves(p, x) == Stays(p) /\ job'[p].at = x
DlMoves(p, s, d) ==
  /\ Others(p) /\ SameKind(p) /\ SamePart(p) /\ SameEnd(p) /\ SameRun(p)
  /\ job'[p].at = job[p].at /\ job'[p].dl[s] = d
  /\ \A t \in Sides : t # s => job'[p].dl[t] = job[p].dl[t]
LooksFor1G(p, s) ==
  /\ Others(p) /\ SamePart(p) /\ SameEnd(p) /\ SameRun(p)
  /\ job'[p].at = job[p].at /\ job'[p].dl[s] = "look" /\ Kind(p, s)' = "1G"
  /\ \A t \in Sides : t # s => job'[p].dl[t] = job[p].dl[t] /\ Kind(p, t)' = Kind(p, t)
SetsPart(p, s, c, d) ==
  /\ Others(p) /\ SameKind(p) /\ SameEnd(p) /\ SameRun(p)
  /\ job'[p].at = job[p].at /\ job'[p].dl[s] = d /\ job'[p].part[s] = c
  /\ \A t \in Sides : t # s =>
       job'[p].dl[t] = job[p].dl[t] /\ job'[p].part[t] = job[p].part[t]
SetsDem(p, c, x) ==
  /\ Others(p) /\ SameKind(p) /\ SamePart(p) /\ SameRun(p)
  /\ \A s \in Sides : job'[p].dl[s] = job[p].dl[s]
  /\ job'[p].at = x /\ job'[p].dem = c /\ job'[p].says = job[p].says

\* A job that has done nothing yet; an idle instance is at one.
Fresh(p) ==
  /\ job[p].dem = None /\ job[p].says = None /\ ~job[p].restored
  /\ \A s \in Sides : job[p].dl[s] = "look" /\ job[p].part[s] = None
  /\ Kind(p, "dmr") = "DMR" /\ Kind(p, "dmp") = "OK"
Idle(p) == Fresh(p) /\ job[p].at = "idle" /\ ~job[p].force
Renews(p, x, force) ==
  /\ Others(p) /\ Fresh(p)' /\ job'[p].at = x /\ job'[p].force = force
  /\ job'[p] = NewJob(x, force)

LEMMA GotoFields ==
  ASSUME TypeOK, NEW p \in Instances, NEW x \in Points, Goto(p, x) PROVE Moves(p, x)
<1>1. job \in [Instances -> Jobs] /\ job[p] \in Jobs
  BY DEF TypeOK
<1>2. job' = [job EXCEPT ![p].at = x]
  BY DEF Goto
<1>3. Others(p) /\ job'[p] = [job[p] EXCEPT !.at = x]
  BY <1>1, <1>2 DEF Others
<1> QED
  BY <1>3, <1>1 DEF Jobs, Moves, Stays, SameKind, SamePart, SameEnd, SameRun, Kind

LEMMA DlFields ==
  ASSUME TypeOK, NEW p \in Instances, NEW s \in Sides, NEW d \in DownloadPoints,
         GotoDl(p, s, d)
  PROVE  DlMoves(p, s, d)
<1>1. job \in [Instances -> Jobs] /\ job[p] \in Jobs
  BY DEF TypeOK
<1>2. job' = [job EXCEPT ![p].dl[s] = d]
  BY DEF GotoDl
<1>3. Others(p) /\ job'[p] = [job[p] EXCEPT !.dl[s] = d]
  BY <1>1, <1>2 DEF Others
<1> QED
  BY <1>3, <1>1 DEF Jobs, DlMoves, SameKind, SamePart, SameEnd, SameRun, Kind

LEMMA PartFields ==
  ASSUME TypeOK, NEW p \in Instances, NEW s \in Sides, NEW c, NEW d,
         job' = [job EXCEPT ![p] = [job[p] EXCEPT !.part[s] = c, !.dl[s] = d]]
  PROVE  SetsPart(p, s, c, d)
<1>1. job \in [Instances -> Jobs] /\ job[p] \in Jobs
  BY DEF TypeOK
<1>2. Others(p) /\ job'[p] = [job[p] EXCEPT !.part[s] = c, !.dl[s] = d]
  BY <1>1 DEF Others
<1> QED
  BY <1>2, <1>1 DEF Jobs, SetsPart, SameKind, SameEnd, SameRun, Kind

LEMMA DemFields ==
  ASSUME TypeOK, NEW p \in Instances, NEW c, NEW x,
         job' = [job EXCEPT ![p] = [job[p] EXCEPT !.dem = c, !.at = x]]
  PROVE  SetsDem(p, c, x)
<1>1. job \in [Instances -> Jobs] /\ job[p] \in Jobs
  BY DEF TypeOK
<1>2. Others(p) /\ job'[p] = [job[p] EXCEPT !.dem = c, !.at = x]
  BY <1>1 DEF Others
<1> QED
  BY <1>2, <1>1 DEF Jobs, SetsDem, SameKind, SamePart, SameRun, Kind

LEMMA NewFields ==
  ASSUME TypeOK, NEW p \in Instances, NEW x, NEW force,
         job' = [job EXCEPT ![p] = NewJob(x, force)]
  PROVE  Renews(p, x, force)
<1>1. job \in [Instances -> Jobs]
  BY DEF TypeOK
<1>2. Others(p) /\ job'[p] = NewJob(x, force)
  BY <1>1 DEF Others
<1> QED
  BY <1>2 DEF NewJob, Fresh, Sides, Kind, Renews

LEMMA IdleFields ==
  ASSUME NEW p \in Instances, job[p] = NewJob("idle", FALSE) PROVE Idle(p)
BY DEF NewJob, Fresh, Idle, Sides, Kind

-----------------------------------------------------------------------------
(* The actions that change more than one field of a job, seen in this way. *)

LEMMA FetchFailsFields ==
  ASSUME TypeOK, NEW p \in Instances, NEW s \in Sides, FetchFails(p, s)
  PROVE  /\ MustFetch(p, s) \/ At(p, s, "fetching")
         /\ sheet' = [sheet EXCEPT ![Kind(p, s)] = None]
         /\ \/ DlMoves(p, s, "look")
            \/ Kind(p, s) = "OK" /\ LooksFor1G(p, s)
            \/ Kind(p, s) # "OK" /\ DlMoves(p, s, "failed")
         /\ UNCHANGED <<holder, remote, stored, crops, aoi, surf>>
<1>1. job \in [Instances -> Jobs] /\ job[p] \in Jobs
  BY DEF TypeOK
<1> DEFINE j == [job[p] EXCEPT !.kind[s] = "1G", !.dl[s] = "look"]
<1>2. \/ GotoDl(p, s, "look")
      \/ Kind(p, s) = "OK" /\ job' = [job EXCEPT ![p] = j]
      \/ Kind(p, s) # "OK" /\ GotoDl(p, s, "failed")
  BY DEF FetchFails, AfterFailure
<1>3. ASSUME job' = [job EXCEPT ![p] = j] PROVE LooksFor1G(p, s)
  <2>1. Others(p) /\ job'[p] = [job[p] EXCEPT !.kind[s] = "1G", !.dl[s] = "look"]
    BY <1>1, <1>3 DEF Others
  <2> QED
    BY <2>1, <1>1 DEF Jobs, LooksFor1G, SamePart, SameEnd, SameRun, Kind
<1>4. /\ MustFetch(p, s) \/ At(p, s, "fetching")
      /\ sheet' = [sheet EXCEPT ![Kind(p, s)] = None]
      /\ UNCHANGED <<holder, remote, stored, crops, aoi, surf>>
  BY DEF FetchFails
<1> HIDE DEF j
<1> QED
  BY <1>2, <1>3, <1>4, DlFields, PointsTyped

LEMMA RestoreFields ==
  ASSUME TypeOK, NEW p \in Instances, RestoreCrop(p)
  PROVE  /\ job[p].at = "start" /\ ~job[p].force /\ Restorable
         /\ Others(p) /\ SameKind(p) /\ SameEnd(p)
         /\ job'[p].force = job[p].force /\ job'[p].restored /\ job'[p].at = "surf"
         /\ \A s \in Sides : job'[p].part[s] = aoi.part[s] /\ job'[p].dl[s] = job[p].dl[s]
         /\ UNCHANGED <<holder, remote, cache, events>>
<1>1. job \in [Instances -> Jobs] /\ job[p] \in Jobs
  BY DEF TypeOK
<1>2. /\ Others(p)
      /\ job'[p] = [job[p] EXCEPT !.part = aoi.part, !.restored = TRUE, !.at = "surf"]
  BY <1>1 DEF Others, RestoreCrop
<1>3. /\ Others(p) /\ SameKind(p) /\ SameEnd(p)
      /\ job'[p].force = job[p].force /\ job'[p].restored /\ job'[p].at = "surf"
      /\ \A s \in Sides : job'[p].part[s] = aoi.part[s] /\ job'[p].dl[s] = job[p].dl[s]
  BY <1>2, <1>1 DEF Jobs, SameKind, SameEnd, Kind
<1>4. /\ job[p].at = "start" /\ ~job[p].force /\ Restorable
      /\ UNCHANGED <<holder, remote, cache, events>>
  BY DEF RestoreCrop
<1> QED
  BY <1>3, <1>4

LEMMA CropHitFields ==
  ASSUME TypeOK, NEW p \in Instances, NEW s \in Sides, CropHit(p, s)
  PROVE  /\ Cropping(p, s) /\ ~job[p].force
         /\ \E x \in {Kind(p, s), s} :
              Valid(x, Kind(p, s)) /\ SetsPart(p, s, crops[x].of, "cropped")
         /\ UNCHANGED <<holder, remote, cache, events>>
<1>1. PICK x \in {Kind(p, s), s} :
        /\ Valid(x, Kind(p, s))
        /\ job' = [job EXCEPT ![p] = [job[p] EXCEPT !.part[s] = crops[x].of, !.dl[s] = "cropped"]]
  BY DEF CropHit
<1>2. SetsPart(p, s, crops[x].of, "cropped")
  BY <1>1, PartFields
<1>3. Cropping(p, s) /\ ~job[p].force /\ UNCHANGED <<holder, remote, cache, events>>
  BY DEF CropHit
<1> QED
  BY <1>1, <1>2, <1>3

LEMMA CropBuildFields ==
  ASSUME TypeOK, NEW p \in Instances, NEW s \in Sides, CropBuild(p, s)
  PROVE  /\ Cropping(p, s) /\ ~job[p].force
         /\ crops' = [crops EXCEPT ![Kind(p, s)].of = sheet[Kind(p, s)]]
         /\ SetsPart(p, s, sheet[Kind(p, s)], "noting")
         /\ UNCHANGED <<holder, remote, sheet, seen, stored, aoi, surf, events>>
<1>1. job' = [job EXCEPT ![p] = [job[p] EXCEPT !.part[s] = sheet[Kind(p, s)], !.dl[s] = "noting"]]
  BY DEF CropBuild
<1>2. SetsPart(p, s, sheet[Kind(p, s)], "noting")
  BY <1>1, PartFields
<1>3. /\ Cropping(p, s) /\ ~job[p].force
      /\ crops' = [crops EXCEPT ![Kind(p, s)].of = sheet[Kind(p, s)]]
      /\ UNCHANGED <<holder, remote, sheet, seen, stored, aoi, surf, events>>
  BY DEF CropBuild
<1> QED
  BY <1>2, <1>3

LEMMA CropForcedFields ==
  ASSUME TypeOK, NEW p \in Instances, NEW s \in Sides, CropForced(p, s)
  PROVE  /\ Cropping(p, s) /\ job[p].force /\ sheet[Kind(p, s)] # None
         /\ \/ Valid(Kind(p, s), Kind(p, s)) /\ crops' = crops
               /\ SetsPart(p, s, sheet[Kind(p, s)], "cropped")
            \/ crops' = [crops EXCEPT ![s].of = Cut(sheet[Kind(p, s)])]
               /\ SetsPart(p, s, sheet[Kind(p, s)], "copying")
         /\ UNCHANGED <<holder, remote, sheet, seen, stored, aoi, surf, events>>
<1> DEFINE d == IF Valid(Kind(p, s), Kind(p, s)) THEN "cropped" ELSE "copying"
<1>1. job' = [job EXCEPT ![p] = [job[p] EXCEPT !.part[s] = sheet[Kind(p, s)], !.dl[s] = d]]
  BY DEF CropForced
<1> HIDE DEF d
<1>2. SetsPart(p, s, sheet[Kind(p, s)], d)
  BY <1>1, PartFields
<1>3. /\ Cropping(p, s) /\ job[p].force /\ sheet[Kind(p, s)] # None
      /\ crops' = IF Valid(Kind(p, s), Kind(p, s)) THEN crops
                  ELSE [crops EXCEPT ![s].of = Cut(sheet[Kind(p, s)])]
      /\ UNCHANGED <<holder, remote, sheet, seen, stored, aoi, surf, events>>
  BY DEF CropForced
<1> QED
  BY <1>2, <1>3 DEF d

LEMMA BreaksFields ==
  ASSUME TypeOK, NEW p \in Instances, NEW s \in Sides, ThreadBreaks(p, s)
  PROVE  /\ job[p].at # "idle" /\ job[p].dl[s] \in {"fetching", "fetched", "copying", "noting"}
         /\ HitAnywhere \/ ~ThreadAtRisk(p, s)
         /\ \E c \in {None, job[p].part[s]} :
              /\ SetsPart(p, s, c, "failed")
              /\ IF job[p].restored THEN c = job[p].part[s] ELSE c = None
         /\ UNCHANGED <<holder, remote, cache>>
<1>1. PICK c \in {None, job[p].part[s]} :
        BrokenOff(p, s, c) /\ IF job[p].restored THEN c = job[p].part[s] ELSE c = None
  BY BreaksOff
<1>2. SetsPart(p, s, c, "failed")
  BY <1>1, PartFields DEF BrokenOff
<1>3. /\ job[p].at # "idle" /\ job[p].dl[s] \in {"fetching", "fetched", "copying", "noting"}
      /\ HitAnywhere \/ ~ThreadAtRisk(p, s)
      /\ UNCHANGED <<holder, remote, cache>>
  BY DEF ThreadBreaks
<1> QED
  BY <1>1, <1>2, <1>3

LEMMA RestoreSurfacesFields ==
  ASSUME TypeOK, NEW p \in Instances, RestoreSurfaces(p)
  PROVE  /\ job[p].at = "surf" /\ ~job[p].force
         /\ surf.of # None /\ surf.fp = job[p].part
         /\ SetsDem(p, surf.of, "wait")
         /\ UNCHANGED <<holder, remote, cache, events>>
<1>1. job' = [job EXCEPT ![p] = [job[p] EXCEPT !.dem = surf.of, !.at = "wait"]]
  BY DEF RestoreSurfaces
<1>2. SetsDem(p, surf.of, "wait")
  BY <1>1, DemFields
<1>3. /\ job[p].at = "surf" /\ ~job[p].force
      /\ surf.of # None /\ surf.fp = job[p].part
      /\ UNCHANGED <<holder, remote, cache, events>>
  BY DEF RestoreSurfaces
<1> QED
  BY <1>2, <1>3

LEMMA BuildSurfacesFields ==
  ASSUME TypeOK, NEW p \in Instances, BuildSurfaces(p)
  PROVE  /\ job[p].at = "surf" /\ job[p].part["dmr"] # None
         /\ surf' = [surf EXCEPT !.of = Cut(job[p].part["dmr"])]
         /\ SetsDem(p, job[p].part["dmr"], "surfCopy")
         /\ UNCHANGED <<holder, remote, sheet, seen, stored, crops, aoi, events>>
<1>1. job' = [job EXCEPT ![p] = [job[p] EXCEPT !.dem = job[p].part["dmr"], !.at = "surfCopy"]]
  BY DEF BuildSurfaces
<1>2. SetsDem(p, job[p].part["dmr"], "surfCopy")
  BY <1>1, DemFields
<1>3. /\ job[p].at = "surf" /\ job[p].part["dmr"] # None
      /\ surf' = [surf EXCEPT !.of = Cut(job[p].part["dmr"])]
      /\ UNCHANGED <<holder, remote, sheet, seen, stored, crops, aoi, events>>
  BY DEF BuildSurfaces
<1> QED
  BY <1>2, <1>3

LEMMA SaysFields ==
  ASSUME TypeOK, NEW p \in Instances, Record(p)
  PROVE  /\ job[p].at = "wait" /\ Settled(p)
         /\ Others(p) /\ SameKind(p) /\ SamePart(p) /\ SameRun(p)
         /\ \A s \in Sides : job'[p].dl[s] = job[p].dl[s]
         /\ job'[p].at = "end" /\ job'[p].dem = job[p].dem
         /\ job'[p].says = IF sheet["OK"] # None THEN "OK" ELSE "1G"
         /\ UNCHANGED <<holder, remote, cache, events>>
<1> DEFINE says == IF sheet["OK"] # None THEN "OK" ELSE "1G"
<1>1. job \in [Instances -> Jobs] /\ job[p] \in Jobs
  BY DEF TypeOK
<1>2. job' = [job EXCEPT ![p] = [job[p] EXCEPT !.says = says, !.at = "end"]]
  BY DEF Record
<1> HIDE DEF says
<1>3. Others(p) /\ job'[p] = [job[p] EXCEPT !.says = says, !.at = "end"]
  BY <1>1, <1>2 DEF Others
<1>4. job'[p].says = says
  BY <1>3, <1>1 DEF Jobs
<1>5. /\ Others(p) /\ SameKind(p) /\ SamePart(p) /\ SameRun(p)
      /\ \A s \in Sides : job'[p].dl[s] = job[p].dl[s]
      /\ job'[p].at = "end" /\ job'[p].dem = job[p].dem
  BY <1>3, <1>1 DEF Jobs, SameKind, SamePart, SameRun, Kind
<1>6. job[p].at = "wait" /\ Settled(p) /\ UNCHANGED <<holder, remote, cache, events>>
  BY DEF Record
<1> QED
  BY <1>4, <1>5, <1>6 DEF says

LEMMA BeginFields ==
  ASSUME TypeOK, NEW p \in Instances, Begin(p)
  PROVE  /\ job[p].at = "idle" /\ holder = Nobody /\ holder' = p
         /\ \E force \in BOOLEAN : Renews(p, "start", force)
         /\ UNCHANGED <<remote, cache>>
<1>1. PICK force \in BOOLEAN : job' = [job EXCEPT ![p] = NewJob("start", force)]
  BY DEF Begin
<1>2. Renews(p, "start", force)
  BY <1>1, NewFields
<1>3. job[p].at = "idle" /\ holder = Nobody /\ holder' = p /\ UNCHANGED <<remote, cache>>
  BY DEF Begin, Slot!Take
<1> QED
  BY <1>2, <1>3

\* End and Kill.
LEMMA LeaveFields ==
  ASSUME TypeOK, NEW p \in Instances, End(p) \/ Kill(p)
  PROVE  /\ job[p].at # "idle" /\ holder = p /\ holder' = Nobody
         /\ Renews(p, "idle", FALSE)
         /\ UNCHANGED <<remote, cache>>
         /\ HitAnywhere \/ ~AtRisk(p)
<1>1. job' = [job EXCEPT ![p] = NewJob("idle", FALSE)]
  BY DEF End, Kill
<1>2. Renews(p, "idle", FALSE)
  BY <1>1, NewFields
<1>3. /\ job[p].at # "idle" /\ holder = p /\ holder' = Nobody
      /\ UNCHANGED <<remote, cache>>
  BY DEF End, Kill, Slot!Drop
<1>4. HitAnywhere \/ ~AtRisk(p)
  BY DEF End, Kill, AtRisk, MainAtRisk, ThreadAtRisk
<1> QED
  BY <1>2, <1>3, <1>4

-----------------------------------------------------------------------------
(* Sheets and crops: SheetInv, conjunct by conjunct. *)

\* While one instance works, or none, the others are idle.
LEMMA Alone ==
  ASSUME ConstantsOK, SlotIsHeld, NEW p \in Instances, job[p].at # "idle" \/ holder = Nobody
  PROVE  \A q \in Instances : q # p => Idle(q)
BY IdleFields DEF SlotIsHeld, ConstantsOK

LEMMA AllIdle ==
  ASSUME ConstantsOK, SlotIsHeld, holder = Nobody
  PROVE  \A p \in Instances : Idle(p)
BY IdleFields DEF SlotIsHeld, ConstantsOK

LEMMA SlotStep ==
  ASSUME ConstantsOK, TypeOK, SlotIsHeld, [Next]_vars
  PROVE  SlotIsHeld'
<1>a. ASSUME NEW p \in Instances, job[p].at # "idle", Others(p),
             job'[p].at # "idle", holder' = holder
      PROVE  SlotIsHeld'
  BY <1>a DEF SlotIsHeld, Others, ConstantsOK
<1>b. ASSUME NEW p \in Instances, job[p].at # "idle" \/ holder = Nobody, Others(p),
             \/ job'[p].at # "idle" /\ holder' = p
             \/ job'[p] = NewJob("idle", FALSE) /\ job'[p].at = "idle" /\ holder' = Nobody
      PROVE  SlotIsHeld'
  BY <1>b DEF SlotIsHeld, Others, ConstantsOK
<1>1. ASSUME NEW p \in Instances, NEW s \in Sides,
             \/ UseCached(p, s) \/ UseChecked(p, s) \/ FetchStart(p, s) \/ FetchDone(p, s)
             \/ WriteMeta(p, s)
      PROVE SlotIsHeld'
  BY <1>1, <1>a, DlFields, PointsTyped DEF UseCached, UseChecked, FetchStart, FetchDone, WriteMeta,
     MustFetch, At, DlMoves
<1>2. ASSUME NEW p \in Instances, NEW s \in Sides, CropCopied(p, s) \/ CropMeta(p, s)
      PROVE SlotIsHeld'
  BY <1>2, <1>a, DlFields, PointsTyped DEF CropCopied, CropMeta, At, DlMoves
<1>3. ASSUME NEW p \in Instances, NEW s \in Sides, FetchFails(p, s) PROVE SlotIsHeld'
  BY <1>3, <1>a, FetchFailsFields DEF MustFetch, At, DlMoves, LooksFor1G
<1>4. ASSUME NEW p \in Instances, NEW s \in Sides, CropHit(p, s) PROVE SlotIsHeld'
  BY <1>4, <1>a, CropHitFields DEF Cropping, SetsPart
<1>5. ASSUME NEW p \in Instances, NEW s \in Sides, CropBuild(p, s) \/ CropForced(p, s)
      PROVE SlotIsHeld'
  BY <1>5, <1>a, CropBuildFields, CropForcedFields DEF Cropping, SetsPart
<1>6. ASSUME NEW p \in Instances, Begin(p) PROVE SlotIsHeld'
  BY <1>6, <1>b, BeginFields DEF Renews, ConstantsOK, TypeOK
<1>7. ASSUME NEW p \in Instances, RestoreCrop(p) PROVE SlotIsHeld'
  BY <1>7, <1>a, RestoreFields
<1>8. ASSUME NEW p \in Instances,
             \/ RestoreMiss(p) \/ PersistGround(p) \/ GroundCopied(p)
             \/ PersistVeg(p) \/ VegCopied(p) \/ PersistMeta(p)
             \/ SurfacesCopied(p) \/ SurfMeta(p) \/ Fail(p) \/ Raise(p)
      PROVE SlotIsHeld'
  <2>1. /\ job[p].at # "idle" /\ holder' = holder
        /\ \E x \in Points : x # "idle" /\ Goto(p, x)
    BY <1>8, PointsTyped DEF RestoreMiss, PersistGround, GroundCopied, PersistVeg, VegCopied,
       PersistMeta, SurfacesCopied, SurfMeta, Fail, Raise, cache
  <2> QED
    BY <2>1, <1>a, GotoFields DEF Moves, Stays
<1>9. ASSUME NEW p \in Instances, RestoreSurfaces(p) \/ BuildSurfaces(p) \/ Record(p)
      PROVE SlotIsHeld'
  BY <1>9, <1>a, RestoreSurfacesFields, BuildSurfacesFields, SaysFields DEF SetsDem
<1>10. ASSUME NEW p \in Instances, End(p) \/ Kill(p) PROVE SlotIsHeld'
  BY <1>10, <1>b, LeaveFields DEF Renews, ConstantsOK
<1>11. ASSUME NEW k \in Kinds, Publish(k) PROVE SlotIsHeld'
  BY <1>11 DEF Publish, SlotIsHeld
<1>12. ASSUME Prune PROVE SlotIsHeld'
  BY <1>12 DEF Prune, SlotIsHeld
<1>13. CASE UNCHANGED vars
  BY <1>13 DEF vars, SlotIsHeld
<1>14. ASSUME NEW p \in Instances, NEW s \in Sides, ThreadBreaks(p, s) PROVE SlotIsHeld'
  BY <1>14, <1>a, BreaksFields DEF SetsPart
<1> QED
  BY <1>1, <1>2, <1>3, <1>4, <1>5, <1>6, <1>7, <1>8, <1>9, <1>10, <1>11, <1>12, <1>13, <1>14
     DEF Next, Main, Download, CropStep

LEMMA KindsStep ==
  ASSUME ConstantsOK, TypeOK, SlotIsHeld, KindsOfSides, [Next]_vars
  PROVE  KindsOfSides'
<1>a. ASSUME NEW p \in Instances, job[p].at # "idle" \/ holder = Nobody, Others(p),
             Kind(p, "dmr")' = "DMR" /\ Kind(p, "dmp")' # "DMR",
             Kind(p, "dmp")' = "1G" => sheet'["OK"] = None
      PROVE  KindsOfSides'
  BY <1>a, Alone DEF KindsOfSides, Others, Idle, Fresh, Kind
<1>b. ASSUME NEW p \in Instances
      PROVE  Kind(p, "dmr") = "DMR" /\ Kind(p, "dmp") \in {"OK", "1G"}
             /\ (Kind(p, "dmp") = "1G" => sheet["OK"] = None)
  BY KindTyped, PointsTyped DEF KindsOfSides, Kinds
<1>c. sheet \in [Kinds -> Maybe(Content)] /\ Kinds = {"DMR", "OK", "1G"} /\ Sides = {"dmr", "dmp"}
  BY DEF TypeOK, Kinds, Sides
<1>1. ASSUME NEW p \in Instances, NEW s \in Sides,
             \/ UseCached(p, s) \/ UseChecked(p, s) \/ FetchStart(p, s) \/ FetchDone(p, s)
             \/ WriteMeta(p, s)
      PROVE KindsOfSides'
  BY <1>1, <1>a, <1>b, <1>c, DlFields, PointsTyped DEF UseCached, UseChecked, FetchStart,
     FetchDone, WriteMeta, MustFetch, At, DlMoves, SameKind, cache
<1>2. ASSUME NEW p \in Instances, NEW s \in Sides, CropCopied(p, s) \/ CropMeta(p, s)
      PROVE KindsOfSides'
  BY <1>2, <1>a, <1>b, <1>c, DlFields, PointsTyped
  DEF CropCopied, CropMeta, At, DlMoves, SameKind
<1>3. ASSUME NEW p \in Instances, NEW s \in Sides, FetchFails(p, s) PROVE KindsOfSides'
  BY <1>3, <1>a, <1>b, <1>c, FetchFailsFields DEF MustFetch, At, DlMoves, LooksFor1G, SameKind
<1>4. ASSUME NEW p \in Instances, NEW s \in Sides, CropHit(p, s) \/ CropBuild(p, s) \/ CropForced(p, s)
      PROVE KindsOfSides'
  BY <1>4, <1>a, <1>b, <1>c, CropHitFields, CropBuildFields, CropForcedFields
     DEF Cropping, SetsPart, SameKind, cache
<1>5. ASSUME NEW p \in Instances, Begin(p) PROVE KindsOfSides'
  BY <1>5, <1>a, <1>b, <1>c, BeginFields DEF Renews, Fresh, cache
<1>6. ASSUME NEW p \in Instances, RestoreCrop(p) PROVE KindsOfSides'
  BY <1>6, <1>a, <1>b, <1>c, RestoreFields DEF SameKind, cache
<1>7. ASSUME NEW p \in Instances,
             \/ RestoreMiss(p) \/ PersistGround(p) \/ GroundCopied(p)
             \/ PersistVeg(p) \/ VegCopied(p) \/ PersistMeta(p)
             \/ SurfacesCopied(p) \/ SurfMeta(p) \/ Fail(p) \/ Raise(p)
      PROVE KindsOfSides'
  BY <1>7, <1>a, <1>b, <1>c, GotoFields, PointsTyped DEF RestoreMiss, PersistGround, GroundCopied,
     PersistVeg, VegCopied, PersistMeta, SurfacesCopied, SurfMeta, Fail, Raise, Moves, Stays, SameKind, cache
<1>8. ASSUME NEW p \in Instances, RestoreSurfaces(p) \/ BuildSurfaces(p) \/ Record(p)
      PROVE KindsOfSides'
  BY <1>8, <1>a, <1>b, <1>c, RestoreSurfacesFields, BuildSurfacesFields, SaysFields
     DEF SetsDem, SameKind, cache
<1>9. ASSUME NEW p \in Instances, End(p) \/ Kill(p) PROVE KindsOfSides'
  BY <1>9, <1>a, <1>b, <1>c, LeaveFields DEF Renews, Fresh, cache
<1>10. ASSUME NEW k \in Kinds, Publish(k) PROVE KindsOfSides'
  BY <1>10 DEF Publish, KindsOfSides, Kind, cache
<1>11. ASSUME Prune PROVE KindsOfSides'
  BY <1>11, <1>c DEF Prune, PruneSheet, PruneArea, KindsOfSides, Kind
<1>12. CASE UNCHANGED vars
  BY <1>12 DEF vars, cache, KindsOfSides, Kind
<1>13. ASSUME NEW p \in Instances, NEW s \in Sides, ThreadBreaks(p, s) PROVE KindsOfSides'
  BY <1>13, <1>a, <1>b, <1>c, BreaksFields DEF SetsPart, SameKind, cache
<1> QED
  BY <1>1, <1>2, <1>3, <1>4, <1>5, <1>6, <1>7, <1>8, <1>9, <1>10, <1>11, <1>12, <1>13
     DEF Next, Main, Download, CropStep

LEMMA TwoKinds ==
  ASSUME KindsOfSides, NEW p \in Instances, NEW s \in Sides, NEW t \in Sides, s # t
  PROVE  Kind(p, s) # Kind(p, t)
BY DEF KindsOfSides, Sides

LEMMA HalfStep ==
  ASSUME ConstantsOK, TypeOK, SlotIsHeld, KindsOfSides, HalfIsFetched, ~HitAnywhere,
         [Next]_vars
  PROVE  HalfIsFetched'
<1> DEFINE Half(k) == sheet[k] # None /\ ~sheet[k].whole
<1>a. ASSUME NEW p \in Instances,
             \A k \in Kinds : Half(k)' => \E s \in Sides : job'[p].dl[s] = "fetching" /\ Kind(p, s)' = k
      PROVE  HalfIsFetched'
  BY <1>a DEF HalfIsFetched
<1>b. ASSUME NEW p \in Instances, job[p].at # "idle" \/ holder = Nobody, NEW k \in Kinds, Half(k)
      PROVE  \E s \in Sides : job[p].dl[s] = "fetching" /\ Kind(p, s) = k
  BY <1>b, Alone DEF HalfIsFetched, Idle, Fresh
<1>c. sheet \in [Kinds -> Maybe(Content)]
  BY DEF TypeOK
<1>d. ASSUME UNCHANGED <<sheet, job>> PROVE HalfIsFetched'
  BY <1>d DEF HalfIsFetched, Kind
<1>1. ASSUME NEW p \in Instances, NEW s \in Sides, UseCached(p, s) \/ UseChecked(p, s)
      PROVE HalfIsFetched'
  BY <1>1, <1>a, <1>b, <1>c, KindTyped, DlFields, PointsTyped
  DEF UseCached, UseChecked, At, DlMoves, SameKind, SamePart, SameRun, SameEnd, cache
<1>2. ASSUME NEW p \in Instances, NEW s \in Sides, FetchStart(p, s) PROVE HalfIsFetched'
  BY <1>2, <1>a, <1>b, <1>c, KindTyped, DlFields, PointsTyped
  DEF FetchStart, MustFetch, At, DlMoves, SameKind, SamePart, SameRun, SameEnd
<1>3. ASSUME NEW p \in Instances, NEW s \in Sides, FetchDone(p, s) PROVE HalfIsFetched'
  <2>1. Kind(p, s) \in Kinds /\ sheet[Kind(p, s)] \in Content
    BY <1>3, <1>c, KindTyped, SomeContent DEF FetchDone
  <2>2. [sheet[Kind(p, s)] EXCEPT !.whole = TRUE].whole
    BY <2>1 DEF Content
  <2>3. /\ sheet'[Kind(p, s)].whole
        /\ \A k \in Kinds : k # Kind(p, s) => sheet'[k] = sheet[k]
    BY <1>3, <2>1, <2>2, <1>c DEF FetchDone
  <2>4. job[p].at # "idle" /\ DlMoves(p, s, "fetched")
    BY <1>3, DlFields, PointsTyped DEF FetchDone, At
  <2> QED
    BY <2>3, <2>4, <1>a, <1>b DEF DlMoves, SameKind
<1>4. ASSUME NEW p \in Instances, NEW s \in Sides, WriteMeta(p, s) PROVE HalfIsFetched'
  BY <1>4, <1>a, <1>b, <1>c, KindTyped, DlFields, PointsTyped
  DEF WriteMeta, At, DlMoves, SameKind, SamePart, SameRun, SameEnd
<1>5. ASSUME NEW p \in Instances, NEW s \in Sides, FetchFails(p, s) PROVE HalfIsFetched'
  BY <1>5, <1>a, <1>b, <1>c, KindTyped, FetchFailsFields
  DEF MustFetch, At, DlMoves, LooksFor1G, SameKind, SamePart, SameRun, SameEnd
<1>6. ASSUME NEW p \in Instances, NEW s \in Sides, CropHit(p, s) PROVE HalfIsFetched'
  BY <1>6, <1>a, <1>b, <1>c, KindTyped, CropHitFields DEF Cropping, SetsPart, SameKind, SameRun, SameEnd, cache
<1>7. ASSUME NEW p \in Instances, NEW s \in Sides, CropBuild(p, s) PROVE HalfIsFetched'
  BY <1>7, <1>a, <1>b, <1>c, KindTyped, CropBuildFields DEF Cropping, SetsPart, SameKind, SameRun, SameEnd
<1>8. ASSUME NEW p \in Instances, NEW s \in Sides, CropForced(p, s) PROVE HalfIsFetched'
  <2>1. /\ job[p].at # "idle" /\ job[p].dl[s] = "done" /\ sheet' = sheet /\ SameKind(p)
        /\ \A t \in Sides : t # s => job'[p].dl[t] = job[p].dl[t]
    BY <1>8, CropForcedFields DEF Cropping, SetsPart
  <2> QED
    BY <2>1, <1>a, <1>b DEF SameKind
<1>9. ASSUME NEW p \in Instances, NEW s \in Sides, CropCopied(p, s) \/ CropMeta(p, s)
      PROVE HalfIsFetched'
  <2>1. /\ job[p].at # "idle" /\ job[p].dl[s] \in {"copying", "noting"} /\ sheet' = sheet
        /\ DlMoves(p, s, "noting") \/ DlMoves(p, s, "cropped")
    BY <1>9, DlFields, PointsTyped DEF CropCopied, CropMeta, At
  <2> QED
    BY <2>1, <1>a, <1>b DEF DlMoves, SameKind
<1>10. ASSUME NEW p \in Instances, Begin(p) PROVE HalfIsFetched'
  <2>1. sheet' = sheet /\ \A k \in Kinds : ~Half(k)
    BY <1>10, BeginFields, AllIdle DEF cache, HalfIsFetched, Idle, Fresh
  <2> QED
    BY <2>1 DEF HalfIsFetched
<1>11. ASSUME NEW p \in Instances, RestoreCrop(p) PROVE HalfIsFetched'
  BY <1>11, <1>a, <1>b, <1>c, KindTyped, RestoreFields DEF SameKind, SameEnd, cache
<1>12. ASSUME NEW p \in Instances, RestoreMiss(p) \/ Fail(p) \/ Raise(p) PROVE HalfIsFetched'
  BY <1>12, <1>a, <1>b, <1>c, KindTyped, GotoFields, PointsTyped
  DEF RestoreMiss, Fail, Raise, Moves, Stays, SameKind, SamePart, SameRun, SameEnd, cache
<1>13. ASSUME NEW p \in Instances, PersistGround(p) PROVE HalfIsFetched'
  BY <1>13, <1>a, <1>b, <1>c, KindTyped, GotoFields, PointsTyped
  DEF PersistGround, Moves, Stays, SameKind, SamePart, SameRun, SameEnd
<1>14. ASSUME NEW p \in Instances,
             GroundCopied(p) \/ PersistVeg(p) \/ VegCopied(p) \/ PersistMeta(p)
      PROVE HalfIsFetched'
  BY <1>14, <1>a, <1>b, <1>c, KindTyped, GotoFields, PointsTyped
  DEF GroundCopied, PersistVeg, VegCopied, PersistMeta, Moves, Stays, SameKind, SamePart, SameRun, SameEnd
<1>15. ASSUME NEW p \in Instances, SurfacesCopied(p) \/ SurfMeta(p) PROVE HalfIsFetched'
  BY <1>15, <1>a, <1>b, <1>c, KindTyped, GotoFields, PointsTyped
  DEF SurfacesCopied, SurfMeta, Moves, Stays, SameKind, SamePart, SameRun, SameEnd
<1>16. ASSUME NEW p \in Instances, RestoreSurfaces(p) PROVE HalfIsFetched'
  BY <1>16, <1>a, <1>b, <1>c, KindTyped, RestoreSurfacesFields DEF SetsDem, SameKind, SamePart, SameRun, cache
<1>17. ASSUME NEW p \in Instances, BuildSurfaces(p) PROVE HalfIsFetched'
  BY <1>17, <1>a, <1>b, <1>c, KindTyped, BuildSurfacesFields DEF SetsDem, SameKind, SamePart, SameRun
<1>18. ASSUME NEW p \in Instances, Record(p) PROVE HalfIsFetched'
  BY <1>18, <1>a, <1>b, <1>c, KindTyped, SaysFields DEF SameKind, SamePart, SameRun, cache
<1>19. ASSUME NEW p \in Instances, End(p) \/ Kill(p) PROVE HalfIsFetched'
  <2>1. \A s \in Sides : job[p].dl[s] # "fetching"
    BY <1>19, LeaveFields DEF AtRisk, ThreadAtRisk
  <2>2. job[p].at # "idle" /\ sheet' = sheet
    BY <1>19, LeaveFields DEF cache
  <2> QED
    BY <2>1, <2>2, <1>a, <1>b
<1>20. ASSUME NEW k \in Kinds, Publish(k) PROVE HalfIsFetched'
  BY <1>20, <1>d DEF Publish, cache
<1>21. ASSUME Prune PROVE HalfIsFetched'
  <2>1. \A k \in Kinds : sheet'[k] \in {sheet[k], None}
    BY <1>21 DEF Prune, PruneSheet, PruneArea
  <2>2. \A k \in Kinds : ~Half(k)
    BY <1>21, AllIdle DEF Prune, HalfIsFetched, Idle, Fresh
  <2> QED
    BY <2>1, <2>2 DEF HalfIsFetched
<1>22. CASE UNCHANGED vars
  BY <1>22, <1>d DEF vars, cache
<1>23. ASSUME NEW p \in Instances, NEW s \in Sides, ThreadBreaks(p, s) PROVE HalfIsFetched'
  <2>1. job[p].at # "idle" /\ job[p].dl[s] # "fetching" /\ sheet' = sheet
        /\ \E c \in {None, job[p].part[s]} : SetsPart(p, s, c, "failed")
    BY <1>23, BreaksFields DEF ThreadAtRisk, cache
  <2> QED
    BY <2>1, <1>a, <1>b DEF SetsPart, SameKind
<1> QED
  BY <1>1, <1>2, <1>3, <1>4, <1>5, <1>6, <1>7, <1>8, <1>9, <1>10, <1>11, <1>12, <1>13,
        <1>14, <1>15, <1>16, <1>17, <1>18, <1>19, <1>20, <1>21, <1>22, <1>23
     DEF Next, Main, Download, CropStep

\* A sheet that a job looks for is whole, if it is there.
LEMMA LookingIsWhole ==
  ASSUME ConstantsOK, TypeOK, SlotIsHeld, KindsOfSides, HalfIsFetched,
         NEW p \in Instances, job[p].at # "idle", NEW s \in Sides, job[p].dl[s] # "fetching",
         sheet[Kind(p, s)] # None
  PROVE  sheet[Kind(p, s)].whole
BY Alone, TwoKinds, KindTyped DEF HalfIsFetched, Idle, Fresh

LEMMA TakenStep ==
  ASSUME ConstantsOK, TypeOK, SlotIsHeld, KindsOfSides, HalfIsFetched, TakenIsWhole, [Next]_vars
  PROVE  TakenIsWhole'
<1> DEFINE Taken(p, s) == job[p].dl[s] \in {"fetched", "done", "copying", "noting", "cropped"}
           Whole(k) == sheet[k] # None /\ sheet[k].whole
<1>a. ASSUME NEW p \in Instances, job[p].at # "idle" \/ holder = Nobody, Others(p),
             \A s \in Sides : Taken(p, s)' => Whole(Kind(p, s))'
      PROVE  TakenIsWhole'
  BY <1>a, Alone DEF TakenIsWhole, Others, Idle, Fresh, Kind
<1>b. ASSUME NEW p \in Instances, NEW s \in Sides, Taken(p, s)
      PROVE  Whole(Kind(p, s))
  BY <1>b DEF TakenIsWhole
<1>c. sheet \in [Kinds -> Maybe(Content)]
  BY DEF TypeOK
<1>d. ASSUME UNCHANGED <<sheet, job>> PROVE TakenIsWhole'
  BY <1>d DEF TakenIsWhole, Kind
<1> HIDE DEF Whole
<1>1. ASSUME NEW p \in Instances, NEW s \in Sides, UseCached(p, s) \/ UseChecked(p, s)
      PROVE TakenIsWhole'
  <2>1. job[p].at # "idle" /\ DlMoves(p, s, "done") /\ sheet' = sheet /\ sheet[Kind(p, s)] # None
    BY <1>1, DlFields, PointsTyped DEF UseCached, UseChecked, At, cache
  <2>2. job[p].dl[s] = "look"
    BY <1>1 DEF UseCached, UseChecked, At
  <2>3. Whole(Kind(p, s))
    <3>1. sheet[Kind(p, s)].whole
      BY <2>1, <2>2, LookingIsWhole
    <3> QED
      BY <2>1, <3>1 DEF Whole
  <2> QED
    BY <2>1, <2>3, <1>a, <1>b DEF DlMoves, SameKind, Whole
<1>2. ASSUME NEW p \in Instances, NEW s \in Sides, FetchStart(p, s) PROVE TakenIsWhole'
  <2>1. /\ job[p].at # "idle" /\ DlMoves(p, s, "fetching")
        /\ sheet' = [sheet EXCEPT ![Kind(p, s)] =
                       [kind |-> Kind(p, s), ver |-> remote[Kind(p, s)], whole |-> FALSE]]
    BY <1>2, DlFields, PointsTyped DEF FetchStart, MustFetch, At
  <2>2. ASSUME NEW t \in Sides, t # s PROVE Whole(Kind(p, t))' <=> Whole(Kind(p, t))
    BY <2>1, <2>2, <1>c, TwoKinds DEF DlMoves, SameKind, Whole
  <2> QED
    BY <2>1, <2>2, <1>a, <1>b DEF DlMoves, SameKind
<1>3. ASSUME NEW p \in Instances, NEW s \in Sides, FetchDone(p, s) PROVE TakenIsWhole'
  <2>1. Kind(p, s) \in Kinds /\ sheet[Kind(p, s)] \in Content
    BY <1>3, <1>c, KindTyped, SomeContent DEF FetchDone
  <2>2. /\ [sheet[Kind(p, s)] EXCEPT !.whole = TRUE].whole
        /\ [sheet[Kind(p, s)] EXCEPT !.whole = TRUE] \in Content
    BY <2>1 DEF Content
  <2>3. job[p].at # "idle" /\ DlMoves(p, s, "fetched")
    BY <1>3, DlFields, PointsTyped DEF FetchDone, At
  <2>4. /\ sheet'[Kind(p, s)] # None /\ sheet'[Kind(p, s)].whole
        /\ \A k \in Kinds : k # Kind(p, s) => sheet'[k] = sheet[k]
    BY <1>3, <2>1, <2>2, <1>c, SomeContent DEF FetchDone, Maybe
  <2>5. ASSUME NEW t \in Sides, t # s PROVE sheet'[Kind(p, t)] = sheet[Kind(p, t)]
    BY <2>4, <2>5, KindTyped, TwoKinds
  <2>6. \A t \in Sides : Taken(p, t)' => Whole(Kind(p, t))'
    BY <2>3, <2>4, <2>5, <1>b DEF DlMoves, SameKind, Whole
  <2> QED
    BY <2>3, <2>6, <1>a DEF DlMoves
<1>4. ASSUME NEW p \in Instances, NEW s \in Sides, WriteMeta(p, s) PROVE TakenIsWhole'
  BY <1>4, <1>a, <1>b, TwoKinds, DlFields, PointsTyped
  DEF WriteMeta, At, DlMoves, SameKind, SamePart, SameRun, SameEnd, Whole
<1>5. ASSUME NEW p \in Instances, NEW s \in Sides, FetchFails(p, s) PROVE TakenIsWhole'
  <2>1. /\ job[p].at # "idle" /\ sheet' = [sheet EXCEPT ![Kind(p, s)] = None]
        /\ DlMoves(p, s, "look") \/ LooksFor1G(p, s) \/ DlMoves(p, s, "failed")
    BY <1>5, FetchFailsFields DEF MustFetch, At
  <2>2. ASSUME NEW t \in Sides, t # s PROVE Whole(Kind(p, t))' <=> Whole(Kind(p, t))
    BY <2>1, <2>2, <1>c, TwoKinds DEF DlMoves, LooksFor1G, SameKind, Whole
  <2>3. \A t \in Sides : t # s => (Taken(p, t)' <=> Taken(p, t))
    BY <2>1 DEF DlMoves, LooksFor1G
  <2>4. Others(p) /\ ~Taken(p, s)'
    BY <2>1 DEF DlMoves, LooksFor1G
  <2> QED
    BY <2>1, <2>2, <2>3, <2>4, <1>a, <1>b
<1>6. ASSUME NEW p \in Instances, NEW s \in Sides, CropHit(p, s) PROVE TakenIsWhole'
  BY <1>6, <1>a, <1>b, TwoKinds, CropHitFields DEF Cropping, SetsPart, SameKind, SameRun, SameEnd, cache, Whole
<1>7. ASSUME NEW p \in Instances, NEW s \in Sides, CropBuild(p, s) PROVE TakenIsWhole'
  BY <1>7, <1>a, <1>b, TwoKinds, CropBuildFields DEF Cropping, SetsPart, SameKind, SameRun, SameEnd, Whole
<1>8. ASSUME NEW p \in Instances, NEW s \in Sides, CropForced(p, s) PROVE TakenIsWhole'
  BY <1>8, <1>a, <1>b, TwoKinds, CropForcedFields DEF Cropping, SetsPart, SameKind, SameRun, SameEnd, Whole
<1>9. ASSUME NEW p \in Instances, NEW s \in Sides, CropCopied(p, s) \/ CropMeta(p, s)
      PROVE TakenIsWhole'
  BY <1>9, <1>a, <1>b, TwoKinds, DlFields, PointsTyped
  DEF CropCopied, CropMeta, At, DlMoves, SameKind, SamePart, SameRun, SameEnd, Whole
<1>10. ASSUME NEW p \in Instances, Begin(p) PROVE TakenIsWhole'
  BY <1>10, <1>a, <1>b, TwoKinds, BeginFields DEF Renews, Fresh, cache, Whole
<1>11. ASSUME NEW p \in Instances, RestoreCrop(p) PROVE TakenIsWhole'
  BY <1>11, <1>a, <1>b, TwoKinds, RestoreFields DEF SameKind, SameEnd, cache, Whole
<1>12. ASSUME NEW p \in Instances, RestoreMiss(p) \/ Fail(p) \/ Raise(p) PROVE TakenIsWhole'
  BY <1>12, <1>a, <1>b, TwoKinds, GotoFields, PointsTyped
  DEF RestoreMiss, Fail, Raise, Moves, Stays, SameKind, SamePart, SameRun, SameEnd, cache, Whole
<1>13. ASSUME NEW p \in Instances, PersistGround(p) PROVE TakenIsWhole'
  BY <1>13, <1>a, <1>b, TwoKinds, GotoFields, PointsTyped
  DEF PersistGround, Moves, Stays, SameKind, SamePart, SameRun, SameEnd, Whole
<1>14. ASSUME NEW p \in Instances,
             GroundCopied(p) \/ PersistVeg(p) \/ VegCopied(p) \/ PersistMeta(p)
      PROVE TakenIsWhole'
  BY <1>14, <1>a, <1>b, TwoKinds, GotoFields, PointsTyped
  DEF GroundCopied, PersistVeg, VegCopied, PersistMeta, Moves, Stays, SameKind, SamePart, SameRun, SameEnd, Whole
<1>15. ASSUME NEW p \in Instances, SurfacesCopied(p) \/ SurfMeta(p) PROVE TakenIsWhole'
  BY <1>15, <1>a, <1>b, TwoKinds, GotoFields, PointsTyped
  DEF SurfacesCopied, SurfMeta, Moves, Stays, SameKind, SamePart, SameRun, SameEnd, Whole
<1>16. ASSUME NEW p \in Instances, RestoreSurfaces(p) PROVE TakenIsWhole'
  BY <1>16, <1>a, <1>b, TwoKinds, RestoreSurfacesFields DEF SetsDem, SameKind, SamePart, SameRun, cache, Whole
<1>17. ASSUME NEW p \in Instances, BuildSurfaces(p) PROVE TakenIsWhole'
  BY <1>17, <1>a, <1>b, TwoKinds, BuildSurfacesFields DEF SetsDem, SameKind, SamePart, SameRun, Whole
<1>18. ASSUME NEW p \in Instances, Record(p) PROVE TakenIsWhole'
  BY <1>18, <1>a, <1>b, TwoKinds, SaysFields DEF SameKind, SamePart, SameRun, cache, Whole
<1>19. ASSUME NEW p \in Instances, End(p) \/ Kill(p) PROVE TakenIsWhole'
  BY <1>19, <1>a, <1>b, TwoKinds, LeaveFields DEF Renews, Fresh, cache, Whole
<1>20. ASSUME NEW k \in Kinds, Publish(k) PROVE TakenIsWhole'
  BY <1>20, <1>d DEF Publish, cache
<1>21. ASSUME Prune PROVE TakenIsWhole'
  <2>1. job' = job /\ \A p \in Instances : Idle(p)
    BY <1>21, AllIdle DEF Prune
  <2>2. \A p \in Instances, s \in Sides : job'[p].dl[s] = "look"
    BY <2>1 DEF Idle, Fresh
  <2> QED
    BY <2>2 DEF TakenIsWhole
<1>22. CASE UNCHANGED vars
  BY <1>22, <1>d DEF vars, cache
<1>23. ASSUME NEW p \in Instances, NEW s \in Sides, ThreadBreaks(p, s) PROVE TakenIsWhole'
  BY <1>23, <1>a, <1>b, TwoKinds, BreaksFields DEF SetsPart, SameKind, cache, Whole
<1> QED
  BY <1>1, <1>2, <1>3, <1>4, <1>5, <1>6, <1>7, <1>8, <1>9, <1>10, <1>11, <1>12, <1>13,
        <1>14, <1>15, <1>16, <1>17, <1>18, <1>19, <1>20, <1>21, <1>22, <1>23
     DEF Next, Main, Download, CropStep

LEMMA CropTyped ==
  ASSUME ConstantsOK, TypeOK, NEW x \in Kinds \cup Sides
  PROVE  /\ crops[x].of \in Maybe(Content) /\ crops[x].fp \in Maybe(Content)
         /\ crops[x].of # None => crops[x].of \in Content /\ crops[x].of.ver \in Nat
         /\ crops[x].fp # None => crops[x].fp \in Content /\ crops[x].fp.ver \in Nat
<1>1. crops[x].of \in Maybe(Content) /\ crops[x].fp \in Maybe(Content)
  BY DEF TypeOK, Crop
<1>2. \A c \in Content : c.ver \in Nat
  BY ContentFields DEF ConstantsOK
<1> QED
  BY <1>1, <1>2, SomeContent

LEMMA Distinct == \A s \in Sides : s \notin Kinds
BY DEF Sides, Kinds

LEMMA CropsOfSheetsStep ==
  ASSUME ConstantsOK, NotesInv, KindsOfSides, TakenIsWhole, NotingIsCropped, CropsOfSheets,
         [Next]_vars
  PROVE  CropsOfSheets'
<1> DEFINE Good(k) ==
             /\ sheet[k] # None => sheet[k].kind = k
             /\ crops[k].of = None => crops[k].fp = None
             /\ crops[k].of # None => Sound(crops[k].of, k) /\ NotAfter(crops[k].of, sheet[k])
             /\ crops[k].fp # None =>
                  \/ crops[k].fp = crops[k].of
                  \/ Sound(crops[k].fp, k) /\ crops[k].fp.ver < crops[k].of.ver
<1>a. TypeOK /\ TypeOK'
  BY TypeStep DEF NotesInv
<1>b. /\ sheet \in [Kinds -> Maybe(Content)] /\ crops \in [Kinds \cup Sides -> Crop]
      /\ remote \in [Kinds -> 0..MaxVer]
  BY <1>a DEF TypeOK
<1>c. ASSUME NEW k \in Kinds
      PROVE  /\ Good(k) /\ remote[k] \in Nat /\ remote'[k] \in Nat
             /\ sheet[k] # None => sheet[k] \in Content /\ sheet[k].ver \in Nat
             /\ crops[k].of # None => crops[k].of \in Content /\ crops[k].of.ver \in Nat
             /\ crops[k].fp # None => crops[k].fp \in Content /\ crops[k].fp.ver \in Nat
  <2>1. Good(k)
    BY DEF CropsOfSheets
  <2>2. /\ remote[k] \in Nat
        /\ sheet[k] # None => sheet[k] \in Content /\ sheet[k].ver \in Nat
    BY <1>a, NotesTyped
  <2>3. remote'[k] \in Nat
    BY <1>a DEF TypeOK, ConstantsOK
  <2>4. /\ crops[k].of # None => crops[k].of \in Content /\ crops[k].of.ver \in Nat
        /\ crops[k].fp # None => crops[k].fp \in Content /\ crops[k].fp.ver \in Nat
    BY <1>a, CropTyped
  <2> QED
    BY <2>1, <2>2, <2>3, <2>4
<1>d. ASSUME \A k \in Kinds : Good(k)' PROVE CropsOfSheets'
  BY <1>d DEF CropsOfSheets
<1>e. ASSUME NEW k \in Kinds, crops'[k] = crops[k], remote'[k] >= remote[k],
             sheet'[k] # None =>
               sheet'[k].kind = k /\ (crops[k].of # None => crops[k].of.ver <= sheet'[k].ver)
      PROVE  Good(k)'
  BY <1>c, <1>e DEF Sound, NotAfter
<1>f. ASSUME NEW k \in Kinds, crops'[k] = crops[k], remote'[k] = remote[k],
             sheet'[k] \in {sheet[k], None}
      PROVE  Good(k)'
  BY <1>c, <1>e, <1>f DEF NotAfter
<1>g. ASSUME UNCHANGED <<remote, sheet, crops>> PROVE CropsOfSheets'
  BY <1>d, <1>f, <1>g
<1> HIDE DEF Good
<1>1. ASSUME NEW p \in Instances, NEW s \in Sides, UseCached(p, s) \/ UseChecked(p, s)
      PROVE CropsOfSheets'
  BY <1>1, <1>g DEF UseCached, UseChecked, cache
<1>2. ASSUME NEW p \in Instances, NEW s \in Sides, FetchStart(p, s) PROVE CropsOfSheets'
  <2>1. /\ sheet'[Kind(p, s)].kind = Kind(p, s) /\ sheet'[Kind(p, s)].ver = remote[Kind(p, s)]
        /\ \A k \in Kinds : k # Kind(p, s) => sheet'[k] = sheet[k]
        /\ UNCHANGED <<remote, crops>>
    BY <1>2, <1>a, <1>b, KindTyped DEF FetchStart
  <2>2. ASSUME NEW k \in Kinds, k = Kind(p, s) PROVE Good(k)'
    BY <2>1, <2>2, <1>c, <1>e DEF Good, Sound
  <2> QED
    BY <2>1, <2>2, <1>d, <1>f
<1>3. ASSUME NEW p \in Instances, NEW s \in Sides, FetchDone(p, s) PROVE CropsOfSheets'
  <2>1. Kind(p, s) \in Kinds /\ sheet[Kind(p, s)] \in Content
    BY <1>3, <1>a, <1>c, KindTyped DEF FetchDone
  <2>2. /\ [sheet[Kind(p, s)] EXCEPT !.whole = TRUE].ver = sheet[Kind(p, s)].ver
        /\ [sheet[Kind(p, s)] EXCEPT !.whole = TRUE].kind = sheet[Kind(p, s)].kind
    BY <2>1 DEF Content
  <2>3. /\ sheet'[Kind(p, s)].ver = sheet[Kind(p, s)].ver
        /\ sheet'[Kind(p, s)].kind = sheet[Kind(p, s)].kind
        /\ \A k \in Kinds : k # Kind(p, s) => sheet'[k] = sheet[k]
        /\ UNCHANGED <<remote, crops>> /\ sheet[Kind(p, s)] # None
    BY <1>3, <2>1, <2>2, <1>b DEF FetchDone
  <2>4. ASSUME NEW k \in Kinds, k = Kind(p, s) PROVE Good(k)'
    BY <2>1, <2>3, <2>4, <1>c, <1>e DEF Good, NotAfter
  <2> QED
    BY <2>3, <2>4, <1>d, <1>f
<1>4. ASSUME NEW p \in Instances, NEW s \in Sides, WriteMeta(p, s) PROVE CropsOfSheets'
  BY <1>4, <1>g DEF WriteMeta
<1>5. ASSUME NEW p \in Instances, NEW s \in Sides, FetchFails(p, s) PROVE CropsOfSheets'
  <2>1. UNCHANGED <<remote, crops>> /\ \A k \in Kinds : sheet'[k] \in {sheet[k], None}
    BY <1>5, <1>a, <1>b, FetchFailsFields
  <2> QED
    BY <2>1, <1>d, <1>f
<1>6. ASSUME NEW p \in Instances, NEW s \in Sides, CropHit(p, s) PROVE CropsOfSheets'
  BY <1>6, <1>g DEF CropHit, cache
<1>7. ASSUME NEW p \in Instances, NEW s \in Sides, CropBuild(p, s) PROVE CropsOfSheets'
  <2>k. PICK k \in Kinds : k = Kind(p, s)
    BY <1>a, KindTyped
  <2>1. /\ k \in Kinds /\ sheet[k] \in Content /\ sheet[k].whole /\ sheet[k] # None
    BY <1>7, <2>k, <1>c DEF CropBuild, Cropping, TakenIsWhole
  <2>2. /\ crops'[k].of = sheet[k] /\ crops'[k].fp = crops[k].fp
        /\ \A l \in Kinds : l # k => crops'[l] = crops[l]
        /\ UNCHANGED <<remote, sheet>>
    <3>1. crops' = [crops EXCEPT ![k].of = sheet[k]] /\ UNCHANGED <<remote, sheet>>
      BY <1>7, <2>k DEF CropBuild
    <3>2. crops[k] \in Crop /\ crops'[k] = [crops[k] EXCEPT !.of = sheet[k]]
      BY <3>1, <2>1, <1>b
    <3> QED
      BY <3>1, <3>2, <2>1, <1>b DEF Crop
  <2>3. sheet[k].ver <= remote[k]
    BY <2>1, <1>a, NotesTyped DEF NotesInv, NotesAreOld
  <2>4. ASSUME crops[k].fp # None, crops[k].fp # sheet[k]
        PROVE  Sound(crops[k].fp, k) /\ crops[k].fp.ver < sheet[k].ver
    <3>1. /\ Sound(crops[k].fp, k) /\ crops[k].fp \in Content /\ crops[k].fp.ver \in Nat
          /\ crops[k].fp.ver <= sheet[k].ver
      BY <2>1, <2>4, <1>c DEF Good, NotAfter
    <3>2. crops[k].fp.ver # sheet[k].ver
      BY <3>1, <2>1, <2>4, <1>c, SameContent, ContentFields DEF Good, Sound
    <3> QED
      BY <3>1, <3>2, <2>1, <1>c
  <2>5. Good(k)'
    BY <2>1, <2>2, <2>3, <2>4, <1>c DEF Good, Sound, NotAfter
  <2> QED
    BY <2>2, <2>5, <1>d, <1>f
<1>8. ASSUME NEW p \in Instances, NEW s \in Sides, CropForced(p, s) PROVE CropsOfSheets'
  <2>1. UNCHANGED <<remote, sheet>> /\ \A k \in Kinds : crops'[k] = crops[k]
    BY <1>8, <1>a, <1>b, CropForcedFields, Distinct
  <2> QED
    BY <2>1, <1>d, <1>f
<1>9. ASSUME NEW p \in Instances, NEW s \in Sides, CropMeta(p, s) PROVE CropsOfSheets'
  <2>k. PICK k \in Kinds : k = Kind(p, s)
    BY <1>a, KindTyped
  <2>1. UNCHANGED <<remote, sheet>>
    BY <1>9 DEF CropMeta
  <2>2. CASE job[p].force
    <3>1. \A l \in Kinds : crops'[l] = crops[l]
      BY <1>9, <2>2, <1>b, Distinct DEF CropMeta
    <3> QED
      BY <3>1, <2>1, <1>d, <1>f
  <2>3. CASE ~job[p].force
    <3>1. crops' = [crops EXCEPT ![k].fp = sheet[k]] /\ crops[k].of = sheet[k]
      BY <1>9, <2>k, <2>3 DEF CropMeta, At, NotingIsCropped
    <3>2. crops[k] \in Crop /\ crops'[k] = [crops[k] EXCEPT !.fp = sheet[k]]
      BY <3>1, <2>1, <1>b
    <3>3. crops'[k].of = crops[k].of /\ crops'[k].fp = crops[k].of
      BY <3>1, <3>2 DEF Crop
    <3>4. \A l \in Kinds : l # k => crops'[l] = crops[l]
      BY <3>1, <2>1, <1>b
    <3>5. Good(k)'
      BY <3>1, <3>3, <2>1, <1>c DEF Good, Sound, NotAfter
    <3> QED
      BY <3>4, <3>5, <2>1, <1>d, <1>f
  <2> QED
    BY <2>2, <2>3
<1>10. ASSUME NEW p \in Instances, Begin(p) PROVE CropsOfSheets'
  BY <1>10, <1>g DEF Begin, cache
<1>11. ASSUME NEW p \in Instances, RestoreCrop(p) PROVE CropsOfSheets'
  BY <1>11, <1>g DEF RestoreCrop, cache
<1>12. ASSUME NEW p \in Instances, RestoreMiss(p) \/ Fail(p) \/ Raise(p) PROVE CropsOfSheets'
  BY <1>12, <1>g DEF RestoreMiss, Fail, Raise, cache
<1>13. ASSUME NEW p \in Instances, PersistGround(p) PROVE CropsOfSheets'
  BY <1>13, <1>g DEF PersistGround
<1>14. ASSUME NEW p \in Instances,
             GroundCopied(p) \/ PersistVeg(p) \/ VegCopied(p) \/ PersistMeta(p)
      PROVE CropsOfSheets'
  BY <1>14, <1>g DEF GroundCopied, PersistVeg, VegCopied, PersistMeta
<1>15. ASSUME NEW p \in Instances, SurfacesCopied(p) \/ SurfMeta(p) PROVE CropsOfSheets'
  BY <1>15, <1>g DEF SurfacesCopied, SurfMeta
<1>16. ASSUME NEW p \in Instances, RestoreSurfaces(p) PROVE CropsOfSheets'
  BY <1>16, <1>g DEF RestoreSurfaces, cache
<1>17. ASSUME NEW p \in Instances, BuildSurfaces(p) PROVE CropsOfSheets'
  BY <1>17, <1>g DEF BuildSurfaces
<1>18. ASSUME NEW p \in Instances, Record(p) PROVE CropsOfSheets'
  BY <1>18, <1>g DEF Record, cache
<1>19. ASSUME NEW p \in Instances, End(p) \/ Kill(p) PROVE CropsOfSheets'
  BY <1>19, <1>g DEF End, Kill, cache
<1>20. ASSUME NEW k \in Kinds, Publish(k) PROVE CropsOfSheets'
  <2>1. UNCHANGED <<sheet, crops>> /\ \A l \in Kinds : remote'[l] >= remote[l]
    BY <1>20, <1>b, <1>c DEF Publish, cache
  <2>2. ASSUME NEW l \in Kinds PROVE Good(l)'
    BY <2>1, <2>2, <1>c, <1>e DEF Good, NotAfter
  <2> QED
    BY <2>2, <1>d
<1>21. ASSUME Prune PROVE CropsOfSheets'
  <2>1. CASE PruneArea
    BY <1>21, <2>1, <1>g DEF Prune, PruneArea
  <2>2. CASE PruneSheet
    <3>1. /\ \A k \in Kinds : sheet'[k] \in {sheet[k], None}
          /\ \A k \in Kinds : crops'[k] \in {crops[k], Nothing}
          /\ remote' = remote
      BY <1>21, <2>2, <1>b DEF Prune, PruneSheet
    <3>2. ASSUME NEW k \in Kinds, crops'[k] = Nothing PROVE Good(k)'
      BY <3>1, <3>2, <1>c DEF Good, Nothing
    <3> QED
      BY <3>1, <3>2, <1>d, <1>f
  <2> QED
    BY <1>21, <2>1, <2>2 DEF Prune
<1>22. CASE UNCHANGED vars
  BY <1>22, <1>g DEF vars, cache
<1>23. ASSUME NEW p \in Instances, NEW s \in Sides, ThreadBreaks(p, s) PROVE CropsOfSheets'
  BY <1>23, <1>g, BreaksFields, <1>a DEF cache
<1>24. ASSUME NEW p \in Instances, NEW s \in Sides, CropCopied(p, s) PROVE CropsOfSheets'
  <2>1. UNCHANGED <<remote, sheet>> /\ \A k \in Kinds : crops'[k] = crops[k]
    BY <1>24, <1>a, <1>b, Distinct DEF CropCopied
  <2> QED
    BY <2>1, <1>d, <1>f
<1> QED
  BY <1>1, <1>2, <1>3, <1>4, <1>5, <1>6, <1>7, <1>8, <1>9, <1>10, <1>11, <1>12, <1>13,
        <1>14, <1>15, <1>16, <1>17, <1>18, <1>19, <1>20, <1>21, <1>22, <1>23, <1>24
     DEF Next, Main, Download, CropStep

LEMMA NotingStep ==
  ASSUME ConstantsOK, TypeOK, SlotIsHeld, KindsOfSides, NotingIsCropped, [Next]_vars
  PROVE  NotingIsCropped'
<1> DEFINE Good(p, s) ==
             job[p].dl[s] = "noting" =>
               crops[IF job[p].force THEN s ELSE Kind(p, s)].of = sheet[Kind(p, s)]
<1>a. ASSUME NEW p \in Instances, job[p].at # "idle" \/ holder = Nobody, Others(p),
             \A s \in Sides : Good(p, s)'
      PROVE  NotingIsCropped'
  BY <1>a, Alone DEF NotingIsCropped, Others, Idle, Fresh
<1>b. ASSUME NEW p \in Instances, NEW s \in Sides PROVE Good(p, s) /\ Kind(p, s) \in Kinds
  BY KindTyped DEF NotingIsCropped
<1>c. /\ sheet \in [Kinds -> Maybe(Content)] /\ crops \in [Kinds \cup Sides -> Crop]
  BY DEF TypeOK
<1>d. ASSUME NEW p \in Instances, NEW s \in Sides, job'[p].force = job[p].force,
             Kind(p, s)' = Kind(p, s), job'[p].dl[s] = "noting" => job[p].dl[s] = "noting",
             sheet'[Kind(p, s)] = sheet[Kind(p, s)],
             crops'[IF job[p].force THEN s ELSE Kind(p, s)].of
               = crops[IF job[p].force THEN s ELSE Kind(p, s)].of
      PROVE  Good(p, s)'
  BY <1>b, <1>d
<1>e. ASSUME NEW p \in Instances, job[p].at # "idle", Others(p), SameKind(p),
             job'[p].force = job[p].force,
             \A s \in Sides : job'[p].dl[s] = "noting" => job[p].dl[s] = "noting",
             UNCHANGED <<sheet, crops>>
      PROVE  NotingIsCropped'
  BY <1>a, <1>b, <1>e DEF SameKind
<1> HIDE DEF Good
<1>1. ASSUME NEW p \in Instances, NEW s \in Sides, UseCached(p, s) \/ UseChecked(p, s)
      PROVE NotingIsCropped'
  BY <1>1, <1>e, DlFields, PointsTyped
  DEF UseCached, UseChecked, At, DlMoves, SameKind, SamePart, SameRun, SameEnd, cache
<1>2. ASSUME NEW p \in Instances, NEW s \in Sides, FetchStart(p, s) PROVE NotingIsCropped'
  <2>1. /\ job[p].at # "idle" /\ DlMoves(p, s, "fetching") /\ crops' = crops
        /\ \A k \in Kinds : k # Kind(p, s) => sheet'[k] = sheet[k]
    BY <1>2, <1>c, DlFields, PointsTyped DEF FetchStart, MustFetch, At
  <2>2. \A t \in Sides : t # s => Good(p, t)'
    BY <2>1, <1>b, <1>d, TwoKinds DEF DlMoves, SameKind, SameRun
  <2>3. Good(p, s)'
    BY <2>1 DEF DlMoves, Good
  <2> QED
    BY <2>1, <2>2, <2>3, <1>a DEF DlMoves
<1>3. ASSUME NEW p \in Instances, NEW s \in Sides, FetchDone(p, s) PROVE NotingIsCropped'
  <2>1. /\ job[p].at # "idle" /\ DlMoves(p, s, "fetched") /\ crops' = crops
        /\ \A k \in Kinds : k # Kind(p, s) => sheet'[k] = sheet[k]
    BY <1>3, <1>c, DlFields, PointsTyped DEF FetchDone, At
  <2>2. \A t \in Sides : t # s => Good(p, t)'
    BY <2>1, <1>b, <1>d, TwoKinds DEF DlMoves, SameKind, SameRun
  <2>3. Good(p, s)'
    BY <2>1 DEF DlMoves, Good
  <2> QED
    BY <2>1, <2>2, <2>3, <1>a DEF DlMoves
<1>4. ASSUME NEW p \in Instances, NEW s \in Sides, WriteMeta(p, s) PROVE NotingIsCropped'
  BY <1>4, <1>e, DlFields, PointsTyped
  DEF WriteMeta, At, DlMoves, SameKind, SamePart, SameRun, SameEnd
<1>5. ASSUME NEW p \in Instances, NEW s \in Sides, FetchFails(p, s) PROVE NotingIsCropped'
  <2>1. /\ job[p].at # "idle" /\ crops' = crops /\ job'[p].force = job[p].force /\ Others(p)
        /\ DlMoves(p, s, "look") \/ LooksFor1G(p, s) \/ DlMoves(p, s, "failed")
        /\ \A k \in Kinds : k # Kind(p, s) => sheet'[k] = sheet[k]
    BY <1>5, <1>c, FetchFailsFields DEF MustFetch, At, DlMoves, LooksFor1G, SameRun
  <2>2. \A t \in Sides : t # s => Good(p, t)'
    BY <2>1, <1>b, <1>d, TwoKinds DEF DlMoves, LooksFor1G, SameKind
  <2>3. Good(p, s)'
    BY <2>1 DEF DlMoves, LooksFor1G, Good
  <2> QED
    BY <2>1, <2>2, <2>3, <1>a
<1>6. ASSUME NEW p \in Instances, NEW s \in Sides, CropHit(p, s) PROVE NotingIsCropped'
  BY <1>6, <1>e, CropHitFields DEF Cropping, SetsPart, SameKind, SameRun, SameEnd, cache
<1>7. ASSUME NEW p \in Instances, NEW s \in Sides, CropBuild(p, s) PROVE NotingIsCropped'
  <2>1. /\ job[p].at # "idle" /\ SetsPart(p, s, sheet[Kind(p, s)], "noting") /\ ~job[p].force
        /\ crops' = [crops EXCEPT ![Kind(p, s)].of = sheet[Kind(p, s)]] /\ sheet' = sheet
    BY <1>7, CropBuildFields DEF Cropping
  <2>2. /\ crops'[Kind(p, s)].of = sheet[Kind(p, s)]
        /\ \A k \in Kinds : k # Kind(p, s) => crops'[k] = crops[k]
    <3>1. crops[Kind(p, s)] \in Crop
      BY <1>b, <1>c
    <3>2. crops'[Kind(p, s)] = [crops[Kind(p, s)] EXCEPT !.of = sheet[Kind(p, s)]]
      BY <2>1, <1>b, <1>c
    <3> QED
      BY <2>1, <3>1, <3>2, <1>b, <1>c DEF Crop
  <2>3. \A t \in Sides : t # s => Good(p, t)'
    BY <2>1, <2>2, <1>b, <1>d, TwoKinds DEF SetsPart, SameKind, SameRun
  <2>4. Good(p, s)'
    BY <2>1, <2>2 DEF SetsPart, SameKind, SameRun, Good
  <2> QED
    BY <2>1, <2>3, <2>4, <1>a DEF SetsPart
<1>8. ASSUME NEW p \in Instances, NEW s \in Sides, CropForced(p, s) PROVE NotingIsCropped'
  <2>1. job[p].at # "idle" /\ job[p].force /\ sheet' = sheet
    BY <1>8, CropForcedFields DEF Cropping
  <2>2. CASE crops' = crops /\ SetsPart(p, s, sheet[Kind(p, s)], "cropped")
    BY <2>1, <2>2, <1>e DEF SetsPart, SameRun
  <2>3. CASE /\ crops' = [crops EXCEPT ![s].of = Cut(sheet[Kind(p, s)])]
             /\ SetsPart(p, s, sheet[Kind(p, s)], "copying")
    <3>1. \A t \in Sides : t # s => crops'[t] = crops[t]
      BY <2>3, <1>c
    <3>2. \A t \in Sides : t # s => Good(p, t)'
      BY <2>1, <2>3, <3>1, <1>b DEF SetsPart, SameKind, SameRun, Good
    <3>3. Good(p, s)'
      BY <2>3 DEF SetsPart, Good
    <3> QED
      BY <2>1, <2>3, <3>2, <3>3, <1>a DEF SetsPart
  <2> QED
    BY <1>8, <2>2, <2>3, CropForcedFields
<1>9. ASSUME NEW p \in Instances, NEW s \in Sides, CropMeta(p, s) PROVE NotingIsCropped'
  <2>1. job[p].at # "idle" /\ DlMoves(p, s, "cropped") /\ sheet' = sheet
    BY <1>9, DlFields, PointsTyped DEF CropMeta, At
  <2>2. \A x \in Kinds \cup Sides : crops'[x].of = crops[x].of
    <3>1. PICK x \in Kinds \cup Sides : crops' = [crops EXCEPT ![x].fp = sheet[Kind(p, s)]]
      BY <1>9, <1>b DEF CropMeta
    <3>2. crops[x] \in Crop /\ crops'[x] = [crops[x] EXCEPT !.fp = sheet[Kind(p, s)]]
      BY <3>1, <1>c
    <3> QED
      BY <3>1, <3>2, <1>c DEF Crop
  <2>3. \A t \in Sides : t # s => Good(p, t)'
    BY <2>1, <2>2, <1>b, <1>d DEF DlMoves, SameKind, SameRun
  <2>4. Good(p, s)'
    BY <2>1 DEF DlMoves, Good
  <2> QED
    BY <2>1, <2>3, <2>4, <1>a DEF DlMoves
<1>10. ASSUME NEW p \in Instances, Begin(p) PROVE NotingIsCropped'
  <2>1. holder = Nobody /\ Others(p) /\ \A t \in Sides : job'[p].dl[t] = "look"
    BY <1>10, BeginFields DEF Renews, Fresh
  <2> QED
    BY <2>1, <1>a DEF Good
<1>11. ASSUME NEW p \in Instances, RestoreCrop(p) PROVE NotingIsCropped'
  BY <1>11, <1>e, RestoreFields DEF SameKind, SameEnd, cache
<1>12. ASSUME NEW p \in Instances, RestoreMiss(p) \/ Fail(p) \/ Raise(p) PROVE NotingIsCropped'
  BY <1>12, <1>e, GotoFields, PointsTyped
  DEF RestoreMiss, Fail, Raise, Moves, Stays, SameKind, SamePart, SameRun, SameEnd, cache
<1>13. ASSUME NEW p \in Instances, PersistGround(p) PROVE NotingIsCropped'
  BY <1>13, <1>e, GotoFields, PointsTyped
  DEF PersistGround, Moves, Stays, SameKind, SamePart, SameRun, SameEnd
<1>14. ASSUME NEW p \in Instances,
             GroundCopied(p) \/ PersistVeg(p) \/ VegCopied(p) \/ PersistMeta(p)
      PROVE NotingIsCropped'
  BY <1>14, <1>e, GotoFields, PointsTyped
  DEF GroundCopied, PersistVeg, VegCopied, PersistMeta, Moves, Stays, SameKind, SamePart, SameRun, SameEnd
<1>15. ASSUME NEW p \in Instances, SurfacesCopied(p) \/ SurfMeta(p) PROVE NotingIsCropped'
  BY <1>15, <1>e, GotoFields, PointsTyped
  DEF SurfacesCopied, SurfMeta, Moves, Stays, SameKind, SamePart, SameRun, SameEnd
<1>16. ASSUME NEW p \in Instances, RestoreSurfaces(p) PROVE NotingIsCropped'
  BY <1>16, <1>e, RestoreSurfacesFields DEF SetsDem, SameKind, SamePart, SameRun, cache
<1>17. ASSUME NEW p \in Instances, BuildSurfaces(p) PROVE NotingIsCropped'
  BY <1>17, <1>e, BuildSurfacesFields DEF SetsDem, SameKind, SamePart, SameRun
<1>18. ASSUME NEW p \in Instances, Record(p) PROVE NotingIsCropped'
  BY <1>18, <1>e, SaysFields DEF SameKind, SamePart, SameRun, cache
<1>19. ASSUME NEW p \in Instances, End(p) \/ Kill(p) PROVE NotingIsCropped'
  <2>1. job[p].at # "idle" /\ Others(p) /\ \A t \in Sides : job'[p].dl[t] = "look"
    BY <1>19, LeaveFields DEF Renews, Fresh
  <2> QED
    BY <2>1, <1>a DEF Good
<1>20. ASSUME NEW k \in Kinds, Publish(k) PROVE NotingIsCropped'
  BY <1>20 DEF Publish, cache, NotingIsCropped, Kind
<1>21. ASSUME Prune PROVE NotingIsCropped'
  <2>1. job' = job /\ \A p \in Instances : Idle(p)
    BY <1>21, AllIdle DEF Prune
  <2>2. \A p \in Instances, s \in Sides : job'[p].dl[s] = "look"
    BY <2>1 DEF Idle, Fresh
  <2> QED
    BY <2>2 DEF NotingIsCropped
<1>22. CASE UNCHANGED vars
  BY <1>22 DEF vars, cache, NotingIsCropped, Kind
<1>23. ASSUME NEW p \in Instances, NEW s \in Sides, ThreadBreaks(p, s) PROVE NotingIsCropped'
  <2>1. /\ job[p].at # "idle" /\ UNCHANGED <<sheet, crops>>
        /\ \E c \in {None, job[p].part[s]} : SetsPart(p, s, c, "failed")
    BY <1>23, BreaksFields DEF cache
  <2>2. \A t \in Sides : job'[p].dl[t] = "noting" => job[p].dl[t] = "noting"
    BY <2>1 DEF SetsPart
  <2> QED
    BY <2>1, <2>2, <1>e DEF SetsPart, SameRun
<1>24. ASSUME NEW p \in Instances, NEW s \in Sides, CropCopied(p, s) PROVE NotingIsCropped'
  <2>1. /\ job[p].at # "idle" /\ job[p].force /\ sheet' = sheet /\ DlMoves(p, s, "noting")
        /\ crops' = [crops EXCEPT ![s].of = sheet[Kind(p, s)]]
    BY <1>24, DlFields, PointsTyped DEF CropCopied, At
  <2>2. /\ crops'[s].of = sheet[Kind(p, s)]
        /\ \A t \in Sides : t # s => crops'[t] = crops[t]
    <3>1. crops[s] \in Crop /\ crops'[s] = [crops[s] EXCEPT !.of = sheet[Kind(p, s)]]
      BY <2>1, <1>c
    <3> QED
      BY <2>1, <3>1, <1>c DEF Crop
  <2>3. \A t \in Sides : t # s => Good(p, t)'
    BY <2>1, <2>2, <1>b DEF DlMoves, SameKind, SameRun, Good
  <2>4. Good(p, s)'
    BY <2>1, <2>2 DEF DlMoves, SameKind, SameRun, Good
  <2> QED
    BY <2>1, <2>3, <2>4, <1>a DEF DlMoves
<1> QED
  BY <1>1, <1>2, <1>3, <1>4, <1>5, <1>6, <1>7, <1>8, <1>9, <1>10, <1>11, <1>12, <1>13,
        <1>14, <1>15, <1>16, <1>17, <1>18, <1>19, <1>20, <1>21, <1>22, <1>23, <1>24
     DEF Next, Main, Download, CropStep

LEMMA CropsOfAreasStep ==
  ASSUME ConstantsOK, TypeOK, SlotIsHeld, NotingIsCropped, CropsOfAreas, ~HitAnywhere,
         [Next]_vars
  PROVE  CropsOfAreas'
<1> DEFINE Noting(p, s) == job[p].force /\ job[p].dl[s] \in {"copying", "noting"}
           Good(s) == crops[s].fp \in {None, crops[s].of}
<1>a. ASSUME NEW p \in Instances,
             \A s \in Sides : Good(s)' \/ Noting(p, s)'
      PROVE  CropsOfAreas'
  BY <1>a DEF CropsOfAreas
<1>b. ASSUME NEW p \in Instances, job[p].at # "idle" \/ holder = Nobody, NEW s \in Sides
      PROVE  Good(s) \/ Noting(p, s)
  BY <1>b, Alone DEF CropsOfAreas, Idle, Fresh
<1>c. crops \in [Kinds \cup Sides -> Crop]
  BY DEF TypeOK
<1>d. ASSUME NEW p \in Instances, job[p].at # "idle" \/ holder = Nobody, crops' = crops,
             \A s \in Sides : Noting(p, s) => Noting(p, s)'
      PROVE  CropsOfAreas'
  BY <1>a, <1>b, <1>d
<1>e. ASSUME UNCHANGED <<crops, job>> PROVE CropsOfAreas'
  BY <1>e DEF CropsOfAreas
<1>1. ASSUME NEW p \in Instances, NEW s \in Sides, UseCached(p, s) \/ UseChecked(p, s)
      PROVE CropsOfAreas'
  BY <1>1, <1>d, DlFields, PointsTyped
  DEF UseCached, UseChecked, At, DlMoves, SameKind, SamePart, SameRun, SameEnd, cache
<1>2. ASSUME NEW p \in Instances, NEW s \in Sides, FetchStart(p, s) PROVE CropsOfAreas'
  BY <1>2, <1>d, DlFields, PointsTyped
  DEF FetchStart, MustFetch, At, DlMoves, SameKind, SamePart, SameRun, SameEnd
<1>3. ASSUME NEW p \in Instances, NEW s \in Sides, FetchDone(p, s) PROVE CropsOfAreas'
  BY <1>3, <1>d, DlFields, PointsTyped
  DEF FetchDone, At, DlMoves, SameKind, SamePart, SameRun, SameEnd
<1>4. ASSUME NEW p \in Instances, NEW s \in Sides, WriteMeta(p, s) PROVE CropsOfAreas'
  BY <1>4, <1>d, DlFields, PointsTyped
  DEF WriteMeta, At, DlMoves, SameKind, SamePart, SameRun, SameEnd
<1>5. ASSUME NEW p \in Instances, NEW s \in Sides, FetchFails(p, s) PROVE CropsOfAreas'
  BY <1>5, <1>d, FetchFailsFields
  DEF MustFetch, At, DlMoves, LooksFor1G, SameKind, SamePart, SameRun, SameEnd
<1>6. ASSUME NEW p \in Instances, NEW s \in Sides, CropHit(p, s) PROVE CropsOfAreas'
  BY <1>6, <1>d, CropHitFields DEF Cropping, SetsPart, SameKind, SameRun, SameEnd, cache
<1>7. ASSUME NEW p \in Instances, NEW s \in Sides, CropBuild(p, s) PROVE CropsOfAreas'
  <2>1. job[p].at # "idle" /\ ~job[p].force /\ \A t \in Sides : crops'[t] = crops[t]
    BY <1>7, <1>c, KindTyped, CropBuildFields, Distinct DEF Cropping
  <2> QED
    BY <2>1, <1>a, <1>b
<1>8. ASSUME NEW p \in Instances, NEW s \in Sides, CropForced(p, s) PROVE CropsOfAreas'
  <2>1. job[p].at # "idle" /\ job[p].force /\ job[p].dl[s] = "done"
    BY <1>8, CropForcedFields DEF Cropping
  <2>2. CASE crops' = crops /\ SetsPart(p, s, sheet[Kind(p, s)], "cropped")
    BY <2>1, <2>2, <1>d DEF SetsPart, SameRun
  <2>3. CASE /\ crops' = [crops EXCEPT ![s].of = Cut(sheet[Kind(p, s)])]
             /\ SetsPart(p, s, sheet[Kind(p, s)], "copying")
    <3>1. \A t \in Sides : t # s => crops'[t] = crops[t]
      BY <2>3, <1>c
    <3>2. Noting(p, s)' /\ \A t \in Sides : t # s => (Noting(p, t) => Noting(p, t)')
      BY <2>1, <2>3 DEF SetsPart, SameRun
    <3> QED
      BY <2>1, <3>1, <3>2, <1>a, <1>b
  <2> QED
    BY <1>8, <2>2, <2>3, CropForcedFields
<1>9. ASSUME NEW p \in Instances, NEW s \in Sides, CropMeta(p, s) PROVE CropsOfAreas'
  <2>1. job[p].at # "idle" /\ job[p].dl[s] = "noting" /\ DlMoves(p, s, "cropped")
    BY <1>9, DlFields, PointsTyped DEF CropMeta, At
  <2>2. CASE job[p].force
    <3>1. crops' = [crops EXCEPT ![s].fp = sheet[Kind(p, s)]] /\ crops[s].of = sheet[Kind(p, s)]
      BY <1>9, <2>1, <2>2 DEF CropMeta, NotingIsCropped
    <3>2. crops[s] \in Crop /\ crops'[s] = [crops[s] EXCEPT !.fp = sheet[Kind(p, s)]]
      BY <3>1, <1>c
    <3>3. /\ crops'[s].fp = crops'[s].of
          /\ \A t \in Sides : t # s => crops'[t] = crops[t]
      BY <3>1, <3>2, <1>c DEF Crop
    <3>4. \A t \in Sides : t # s => (Noting(p, t) => Noting(p, t)')
      BY <2>1 DEF DlMoves, SameRun
    <3> QED
      BY <2>1, <3>3, <3>4, <1>a, <1>b
  <2>3. CASE ~job[p].force
    <3>1. \A t \in Sides : crops'[t] = crops[t]
      BY <1>9, <2>3, <1>c, KindTyped, Distinct DEF CropMeta
    <3> QED
      BY <2>1, <2>3, <3>1, <1>a, <1>b
  <2> QED
    BY <2>2, <2>3
<1>10. ASSUME NEW p \in Instances, Begin(p) PROVE CropsOfAreas'
  <2>1. job[p].at = "idle" /\ holder = Nobody /\ crops' = crops
    BY <1>10, BeginFields DEF cache
  <2>2. ~job[p].force
    BY <2>1, AllIdle DEF Idle
  <2> QED
    BY <2>1, <2>2, <1>d
<1>11. ASSUME NEW p \in Instances, RestoreCrop(p) PROVE CropsOfAreas'
  BY <1>11, <1>d, RestoreFields DEF SameKind, SameEnd, cache
<1>12. ASSUME NEW p \in Instances, RestoreMiss(p) \/ Fail(p) \/ Raise(p) PROVE CropsOfAreas'
  BY <1>12, <1>d, GotoFields, PointsTyped
  DEF RestoreMiss, Fail, Raise, Moves, Stays, SameKind, SamePart, SameRun, SameEnd, cache
<1>13. ASSUME NEW p \in Instances, PersistGround(p) PROVE CropsOfAreas'
  BY <1>13, <1>d, GotoFields, PointsTyped
  DEF PersistGround, Moves, Stays, SameKind, SamePart, SameRun, SameEnd
<1>14. ASSUME NEW p \in Instances,
             GroundCopied(p) \/ PersistVeg(p) \/ VegCopied(p) \/ PersistMeta(p)
      PROVE CropsOfAreas'
  BY <1>14, <1>d, GotoFields, PointsTyped
  DEF GroundCopied, PersistVeg, VegCopied, PersistMeta, Moves, Stays, SameKind, SamePart, SameRun, SameEnd
<1>15. ASSUME NEW p \in Instances, SurfacesCopied(p) \/ SurfMeta(p) PROVE CropsOfAreas'
  BY <1>15, <1>d, GotoFields, PointsTyped
  DEF SurfacesCopied, SurfMeta, Moves, Stays, SameKind, SamePart, SameRun, SameEnd
<1>16. ASSUME NEW p \in Instances, RestoreSurfaces(p) PROVE CropsOfAreas'
  BY <1>16, <1>d, RestoreSurfacesFields DEF SetsDem, SameKind, SamePart, SameRun, cache
<1>17. ASSUME NEW p \in Instances, BuildSurfaces(p) PROVE CropsOfAreas'
  BY <1>17, <1>d, BuildSurfacesFields DEF SetsDem, SameKind, SamePart, SameRun
<1>18. ASSUME NEW p \in Instances, Record(p) PROVE CropsOfAreas'
  BY <1>18, <1>d, SaysFields DEF SameKind, SamePart, SameRun, cache
<1>19. ASSUME NEW p \in Instances, End(p) \/ Kill(p) PROVE CropsOfAreas'
  <2>1. job[p].at # "idle" /\ crops' = crops
    BY <1>19, LeaveFields DEF cache
  <2>2. \A t \in Sides : ~Noting(p, t) \/ crops[t].fp = None
    BY <1>19, LeaveFields DEF AtRisk, ThreadAtRisk
  <2> QED
    BY <2>1, <2>2, <1>a, <1>b
<1>20. ASSUME NEW k \in Kinds, Publish(k) PROVE CropsOfAreas'
  BY <1>20, <1>e DEF Publish, cache
<1>21. ASSUME Prune PROVE CropsOfAreas'
  <2>1. holder = Nobody /\ job' = job
    BY <1>21 DEF Prune
  <2>2. \A t \in Sides : Good(t)
    BY <2>1, AllIdle DEF CropsOfAreas, Idle
  <2>3. \A t \in Sides : crops'[t] \in {crops[t], Nothing}
    BY <1>21, <1>c DEF Prune, PruneSheet, PruneArea
  <2> QED
    BY <2>2, <2>3 DEF CropsOfAreas, Nothing
<1>22. CASE UNCHANGED vars
  BY <1>22, <1>e DEF vars, cache
<1>23. ASSUME NEW p \in Instances, NEW s \in Sides, ThreadBreaks(p, s) PROVE CropsOfAreas'
  <2>1. /\ job[p].at # "idle" /\ crops' = crops
        /\ ~Noting(p, s) \/ crops[s].fp = None
        /\ \E c \in {None, job[p].part[s]} : SetsPart(p, s, c, "failed")
    BY <1>23, BreaksFields DEF ThreadAtRisk, cache
  <2>2. \A t \in Sides : t # s => (Noting(p, t) => Noting(p, t)')
    BY <2>1 DEF SetsPart, SameRun
  <2>3. \A t \in Sides : Good(t) \/ Noting(p, t)
    BY <2>1, <1>b
  <2>4. Good(s)'
    BY <2>1, <2>3
  <2>5. \A t \in Sides : t # s => Good(t)' \/ Noting(p, t)'
    BY <2>1, <2>2, <2>3
  <2> QED
    BY <2>4, <2>5, <1>a
<1>24. ASSUME NEW p \in Instances, NEW s \in Sides, CropCopied(p, s) PROVE CropsOfAreas'
  <2>1. /\ job[p].at # "idle" /\ job[p].force /\ DlMoves(p, s, "noting")
        /\ \A t \in Sides : t # s => crops'[t] = crops[t]
    BY <1>24, <1>c, DlFields, PointsTyped DEF CropCopied, At
  <2>2. Noting(p, s)' /\ \A t \in Sides : t # s => (Noting(p, t) => Noting(p, t)')
    BY <2>1 DEF DlMoves, SameRun
  <2> QED
    BY <2>1, <2>2, <1>a, <1>b
<1> QED
  BY <1>1, <1>2, <1>3, <1>4, <1>5, <1>6, <1>7, <1>8, <1>9, <1>10, <1>11, <1>12, <1>13,
        <1>14, <1>15, <1>16, <1>17, <1>18, <1>19, <1>20, <1>21, <1>22, <1>23, <1>24
     DEF Next, Main, Download, CropStep

\* A crop that is found valid is that of the sheet.
LEMMA HitIsCurrent ==
  ASSUME ConstantsOK, TypeOK, SlotIsHeld, TakenIsWhole, CropsOfSheets, CropsOfAreas,
         NEW p \in Instances, NEW s \in Sides, NEW x \in {Kind(p, s), s},
         Cropping(p, s), ~job[p].force, Valid(x, Kind(p, s))
  PROVE  /\ crops[x].of = sheet[Kind(p, s)]
         /\ sheet[Kind(p, s)] # None /\ sheet[Kind(p, s)].whole
<1>1. PICK k \in Kinds : k = Kind(p, s)
  BY KindTyped
<1>2. sheet[k] # None /\ sheet[k].whole /\ sheet[k] \in Content /\ sheet[k].ver \in Nat
  BY <1>1, NotesTyped DEF Cropping, TakenIsWhole
<1>3. crops[x].of # None /\ crops[x].fp = sheet[k]
  BY <1>1 DEF Valid
<1>4. CASE x = s
  <2>1. \A q \in Instances : ~job[q].force
    BY Alone DEF Cropping, Idle
  <2> QED
    BY <1>1, <1>2, <1>3, <1>4, <2>1 DEF CropsOfAreas
<1>5. CASE x = k
  <2>1. /\ crops[k].of.ver <= sheet[k].ver /\ crops[k].of.ver \in Nat
        /\ crops[k].fp = crops[k].of \/ crops[k].fp.ver < crops[k].of.ver
    BY <1>2, <1>3, <1>5, CropTyped DEF CropsOfSheets, NotAfter
  <2> QED
    BY <1>1, <1>2, <1>3, <1>5, <2>1
<1> QED
  BY <1>1, <1>4, <1>5

LEMMA PartsStep ==
  ASSUME ConstantsOK, TypeOK, SlotIsHeld, TakenIsWhole, CropsOfSheets, CropsOfAreas,
         AreaIsWhole, PartsOfJobs, [Next]_vars
  PROVE  PartsOfJobs'
<1> DEFINE Good(p, s) ==
    /\ job[p].part[s] # None => job[p].part[s].whole
    /\ ~job[p].restored =>
         (job[p].part[s] # None <=> job[p].dl[s] \in {"copying", "noting", "cropped"})
    /\ ~job[p].restored /\ (job[p].at \in HasCrop \/ job[p].says # None)
         => job[p].dl[s] = "cropped"
    /\ job[p].at \in {"start", "crop", "groundCopy", "persistVeg", "vegCopy", "persistMeta"}
         => ~job[p].restored
<1>a. ASSUME NEW p \in Instances, job[p].at # "idle" \/ holder = Nobody, Others(p),
             \A s \in Sides : Good(p, s)'
      PROVE  PartsOfJobs'
  BY <1>a, Alone DEF PartsOfJobs, Others, Idle, Fresh
<1>b. ASSUME NEW p \in Instances, NEW s \in Sides PROVE Good(p, s)
  BY DEF PartsOfJobs
<1>c. ASSUME NEW p \in Instances, NEW s \in Sides,
             job'[p].restored = job[p].restored, job'[p].part[s] = job[p].part[s],
             job'[p].dl[s] = job[p].dl[s], job'[p].at = job[p].at, SameEnd(p)
      PROVE  Good(p, s)'
  BY <1>b, <1>c DEF SameEnd
<1>d. ASSUME NEW p \in Instances, job[p].at # "idle", NEW s \in Sides,
             Others(p), SamePart(p), SameRun(p), SameEnd(p), job'[p].at = job[p].at,
             \A t \in Sides : t # s => job'[p].dl[t] = job[p].dl[t],
             job[p].dl[s] \notin {"copying", "noting", "cropped"},
             job'[p].dl[s] \notin {"copying", "noting", "cropped"}
      PROVE  PartsOfJobs'
  <2>1. Good(p, s)'
    BY <1>b, <1>d DEF SameRun, SamePart, SameEnd
  <2>2. \A t \in Sides : t # s => Good(p, t)'
    BY <1>c, <1>d DEF SameRun, SamePart
  <2> QED
    BY <1>a, <1>d, <2>1, <2>2
<1>e. ASSUME UNCHANGED job PROVE PartsOfJobs'
  BY <1>e DEF PartsOfJobs
<1>f. ASSUME NEW p \in Instances, NEW s \in Sides, NEW c, NEW d, Cropping(p, s),
             SetsPart(p, s, c, d), c # None /\ c.whole, d \in {"copying", "noting", "cropped"}
      PROVE  PartsOfJobs'
  <2>1. Good(p, s)'
    BY <1>b, <1>f DEF SetsPart, SameRun, SameEnd, Cropping, HasCrop
  <2>2. \A t \in Sides : t # s => Good(p, t)'
    BY <1>c, <1>f DEF SetsPart, SameRun
  <2> QED
    BY <1>a, <1>f, <2>1, <2>2 DEF SetsPart, Cropping
<1>g. ASSUME NEW p \in Instances, job[p].at # "idle", NEW x, Moves(p, x),
             x \in {"crop", "end"} \/ job[p].at # "start",
             x = "crop" => job[p].at = "start",
             x \in {"groundCopy", "persistVeg", "vegCopy", "persistMeta"} => ~job[p].restored,
             \/ x \in {"crop", "end"}
             \/ job[p].at \in HasCrop
             \/ \A s \in Sides : job[p].dl[s] = "cropped",
             x # "start"
      PROVE  PartsOfJobs'
  BY <1>a, <1>b, <1>g DEF Moves, Stays, SameRun, SamePart, SameEnd, HasCrop
<1>h. ASSUME NEW p \in Instances, NEW s \in Sides, Cropping(p, s)
      PROVE  sheet[Kind(p, s)] # None /\ sheet[Kind(p, s)].whole
  BY <1>h DEF Cropping, TakenIsWhole
<1> HIDE DEF Good
<1>1. ASSUME NEW p \in Instances, NEW s \in Sides, UseCached(p, s) \/ UseChecked(p, s)
      PROVE PartsOfJobs'
  BY <1>1, <1>d, DlFields, PointsTyped
  DEF UseCached, UseChecked, At, DlMoves, SameKind, SamePart, SameRun, SameEnd, cache
<1>2. ASSUME NEW p \in Instances, NEW s \in Sides, FetchStart(p, s) PROVE PartsOfJobs'
  BY <1>2, <1>d, DlFields, PointsTyped
  DEF FetchStart, MustFetch, At, DlMoves, SameKind, SamePart, SameRun, SameEnd
<1>3. ASSUME NEW p \in Instances, NEW s \in Sides, FetchDone(p, s) PROVE PartsOfJobs'
  BY <1>3, <1>d, DlFields, PointsTyped
  DEF FetchDone, At, DlMoves, SameKind, SamePart, SameRun, SameEnd
<1>4. ASSUME NEW p \in Instances, NEW s \in Sides, WriteMeta(p, s) PROVE PartsOfJobs'
  BY <1>4, <1>d, DlFields, PointsTyped
  DEF WriteMeta, At, DlMoves, SameKind, SamePart, SameRun, SameEnd
<1>5. ASSUME NEW p \in Instances, NEW s \in Sides, FetchFails(p, s) PROVE PartsOfJobs'
  <2>1. /\ job[p].at # "idle" /\ job[p].dl[s] \in {"look", "fetching"}
        /\ DlMoves(p, s, "look") \/ LooksFor1G(p, s) \/ DlMoves(p, s, "failed")
    BY <1>5, FetchFailsFields DEF MustFetch, At
  <2> QED
    BY <2>1, <1>d DEF DlMoves, LooksFor1G
<1>6. ASSUME NEW p \in Instances, NEW s \in Sides, CropHit(p, s) PROVE PartsOfJobs'
  <2>1. PICK x \in {Kind(p, s), s} :
          Valid(x, Kind(p, s)) /\ SetsPart(p, s, crops[x].of, "cropped")
    BY <1>6, CropHitFields
  <2>2. Cropping(p, s) /\ ~job[p].force
    BY <1>6, CropHitFields
  <2> QED
    BY <2>1, <2>2, <1>f, <1>h, HitIsCurrent DEF Cropping
<1>7. ASSUME NEW p \in Instances, NEW s \in Sides, CropBuild(p, s) PROVE PartsOfJobs'
  BY <1>7, <1>f, <1>h, CropBuildFields
<1>8. ASSUME NEW p \in Instances, NEW s \in Sides, CropForced(p, s) PROVE PartsOfJobs'
  BY <1>8, <1>f, <1>h, CropForcedFields
<1>9. ASSUME NEW p \in Instances, NEW s \in Sides, CropCopied(p, s) \/ CropMeta(p, s)
      PROVE PartsOfJobs'
  <2>1. /\ job[p].at # "idle" /\ job[p].dl[s] \in {"copying", "noting"}
        /\ DlMoves(p, s, "noting") \/ DlMoves(p, s, "cropped")
    BY <1>9, DlFields, PointsTyped DEF CropCopied, CropMeta, At
  <2>2. Good(p, s)'
    BY <2>1, <1>b DEF DlMoves, SameRun, SamePart, SameEnd, Good
  <2>3. \A t \in Sides : t # s => Good(p, t)'
    BY <2>1, <1>c DEF DlMoves, SameRun, SamePart
  <2> QED
    BY <2>1, <2>2, <2>3, <1>a DEF DlMoves
<1>10. ASSUME NEW p \in Instances, Begin(p) PROVE PartsOfJobs'
  <2>1. holder = Nobody /\ \E force \in BOOLEAN : Renews(p, "start", force)
    BY <1>10, BeginFields
  <2>2. \A s \in Sides : Good(p, s)'
    BY <2>1 DEF Renews, Fresh, HasCrop, Good
  <2> QED
    BY <2>1, <2>2, <1>a DEF Renews
<1>11. ASSUME NEW p \in Instances, RestoreCrop(p) PROVE PartsOfJobs'
  <2>1. /\ job[p].at # "idle" /\ Others(p) /\ job'[p].restored /\ job'[p].at = "surf"
        /\ \A s \in Sides : job'[p].part[s] = aoi.part[s]
        /\ job[p].at = "start" /\ aoi.noted
    BY <1>11, RestoreFields DEF Restorable
  <2>2. \A q \in Instances : job[q].at \notin {"groundCopy", "vegCopy"}
    BY <2>1, Alone DEF Idle
  <2>3. \A s \in Sides : Good(p, s)'
    BY <2>1, <2>2 DEF AreaIsWhole, Good
  <2> QED
    BY <2>1, <2>3, <1>a
<1>12. ASSUME NEW p \in Instances, RestoreMiss(p) \/ Fail(p) \/ Raise(p) PROVE PartsOfJobs'
  BY <1>12, <1>g, GotoFields, PointsTyped DEF RestoreMiss, Fail, Raise
<1>13. ASSUME NEW p \in Instances, PersistGround(p) PROVE PartsOfJobs'
  <2>1. ~job[p].restored /\ \A s \in Sides : job[p].dl[s] = "cropped"
    BY <1>13, <1>b, PointsTyped DEF PersistGround, Good
  <2> QED
    BY <1>13, <2>1, <1>g, GotoFields, PointsTyped DEF PersistGround
<1>14. ASSUME NEW p \in Instances,
             GroundCopied(p) \/ PersistVeg(p) \/ VegCopied(p) \/ PersistMeta(p)
      PROVE PartsOfJobs'
  <2>1. ~job[p].restored
    BY <1>14, <1>b, PointsTyped DEF GroundCopied, PersistVeg, VegCopied, PersistMeta, Good
  <2> QED
    BY <1>14, <2>1, <1>g, GotoFields, PointsTyped
       DEF HasCrop, GroundCopied, PersistVeg, VegCopied, PersistMeta
<1>15. ASSUME NEW p \in Instances, SurfacesCopied(p) \/ SurfMeta(p) PROVE PartsOfJobs'
  BY <1>15, <1>g, GotoFields, PointsTyped DEF HasCrop, SurfacesCopied, SurfMeta
<1>16. ASSUME NEW p \in Instances, RestoreSurfaces(p) PROVE PartsOfJobs'
  <2>1. job[p].at = "surf" /\ SetsDem(p, surf.of, "wait")
    BY <1>16, RestoreSurfacesFields
  <2>2. \A s \in Sides : Good(p, s)'
    BY <2>1, <1>b DEF SetsDem, SameRun, SamePart, HasCrop, Good
  <2> QED
    BY <2>1, <2>2, <1>a DEF SetsDem
<1>17. ASSUME NEW p \in Instances, BuildSurfaces(p) PROVE PartsOfJobs'
  <2>1. job[p].at = "surf" /\ SetsDem(p, job[p].part["dmr"], "surfCopy")
    BY <1>17, BuildSurfacesFields
  <2>2. \A s \in Sides : Good(p, s)'
    BY <2>1, <1>b DEF SetsDem, SameRun, SamePart, HasCrop, Good
  <2> QED
    BY <2>1, <2>2, <1>a DEF SetsDem
<1>18. ASSUME NEW p \in Instances, Record(p) PROVE PartsOfJobs'
  <2>1. job[p].at = "wait" /\ Others(p) /\ job'[p].at = "end" /\ SamePart(p) /\ SameRun(p)
        /\ \A s \in Sides : job'[p].dl[s] = job[p].dl[s]
    BY <1>18, SaysFields
  <2>2. \A s \in Sides : Good(p, s)'
    BY <2>1, <1>b DEF SameRun, SamePart, HasCrop, Good
  <2> QED
    BY <2>1, <2>2, <1>a
<1>19. ASSUME NEW p \in Instances, End(p) \/ Kill(p) PROVE PartsOfJobs'
  <2>1. job[p].at # "idle" /\ Renews(p, "idle", FALSE)
    BY <1>19, LeaveFields
  <2>2. \A s \in Sides : Good(p, s)'
    BY <2>1 DEF Renews, Fresh, HasCrop, Good
  <2> QED
    BY <2>1, <2>2, <1>a DEF Renews
<1>20. ASSUME NEW k \in Kinds, Publish(k) PROVE PartsOfJobs'
  BY <1>20, <1>e DEF Publish
<1>21. ASSUME Prune PROVE PartsOfJobs'
  BY <1>21, <1>e DEF Prune
<1>22. CASE UNCHANGED vars
  BY <1>22, <1>e DEF vars
<1>23. ASSUME NEW p \in Instances, NEW s \in Sides, ThreadBreaks(p, s) PROVE PartsOfJobs'
  <2>1. /\ job[p].at # "idle" /\ job[p].dl[s] # "cropped"
        /\ \E c \in {None, job[p].part[s]} :
             /\ SetsPart(p, s, c, "failed")
             /\ IF job[p].restored THEN c = job[p].part[s] ELSE c = None
    BY <1>23, BreaksFields
  <2>2. Good(p, s)'
    BY <2>1, <1>b DEF SetsPart, SameRun, SameEnd, Good
  <2>3. \A t \in Sides : t # s => Good(p, t)'
    BY <2>1, <1>c DEF SetsPart, SameRun
  <2> QED
    BY <2>1, <2>2, <2>3, <1>a DEF SetsPart
<1> QED
  BY <1>1, <1>2, <1>3, <1>4, <1>5, <1>6, <1>7, <1>8, <1>9, <1>10, <1>11, <1>12, <1>13,
        <1>14, <1>15, <1>16, <1>17, <1>18, <1>19, <1>20, <1>21, <1>22, <1>23
     DEF Next, Main, Download, CropStep

LEMMA AreaOfJobStep ==
  ASSUME ConstantsOK, TypeOK, SlotIsHeld, PartsOfJobs, AreaOfJob, [Next]_vars
  PROVE  AreaOfJob'
<1> DEFINE Good(p) ==
             /\ job[p].at \in HasCrop => job[p].part["dmr"] # None
             /\ job[p].at \in HasGround => aoi.part["dmr"] = job[p].part["dmr"]
             /\ job[p].at \in HasVeg => aoi.part["dmp"] = job[p].part["dmp"]
<1>p. /\ HasVeg \subseteq HasGround /\ HasGround \subseteq HasCrop
      /\ HasCrop \cap {"idle", "start", "crop", "end"} = {}
      /\ {"persistMeta", "surf", "surfCopy", "surfMeta", "wait"} \subseteq HasVeg
      /\ {"persistVeg", "vegCopy"} \subseteq HasGround \ HasVeg
      /\ "groundCopy" \in HasCrop \ HasGround
  BY DEF HasCrop, HasGround, HasVeg
<1>t. TypeOK /\ SlotIsHeld /\ "dmr" \in Sides /\ "dmp" \in Sides
  BY PointsTyped
<1>a. ASSUME NEW p \in Instances, job[p].at # "idle" \/ holder = Nobody, Others(p), Good(p)'
      PROVE  AreaOfJob'
  BY <1>a, <1>p, <1>t, Alone DEF AreaOfJob, Others, Idle, Fresh
<1>b. ASSUME NEW p \in Instances PROVE Good(p)
  BY DEF AreaOfJob
<1>c. ASSUME NEW p \in Instances, job[p].at # "idle", Others(p), job'[p].at \notin HasCrop
      PROVE  AreaOfJob'
  BY <1>a, <1>c, <1>p
<1>d. ASSUME NEW p \in Instances, job[p].at # "idle", Others(p), SamePart(p),
             job'[p].at \in HasCrop => job[p].at \in HasCrop,
             job'[p].at \in HasGround => job[p].at \in HasGround,
             job'[p].at \in HasVeg => job[p].at \in HasVeg, aoi'.part = aoi.part
      PROVE  AreaOfJob'
  BY <1>a, <1>b, <1>d, <1>t DEF SamePart
<1>e. ASSUME UNCHANGED <<job, aoi>> PROVE AreaOfJob'
  BY <1>e DEF AreaOfJob
<1>f. aoi \in [part : [Sides -> Maybe(Content)], noted : BOOLEAN]
  BY <1>t DEF TypeOK
<1>1. ASSUME NEW p \in Instances, NEW s \in Sides,
             \/ UseCached(p, s) \/ UseChecked(p, s) \/ FetchStart(p, s) \/ FetchDone(p, s)
             \/ WriteMeta(p, s) \/ CropCopied(p, s) \/ CropMeta(p, s)
      PROVE AreaOfJob'
  BY <1>1, <1>d, <1>t, DlFields, PointsTyped
  DEF UseCached, UseChecked, FetchStart, FetchDone, WriteMeta, CropCopied, CropMeta, MustFetch, At,
      DlMoves, cache
<1>2. ASSUME NEW p \in Instances, NEW s \in Sides, FetchFails(p, s) PROVE AreaOfJob'
  <2>1. /\ job[p].at # "idle" /\ aoi' = aoi
        /\ DlMoves(p, s, "look") \/ LooksFor1G(p, s) \/ DlMoves(p, s, "failed")
    BY <1>2, <1>t, FetchFailsFields DEF MustFetch, At
  <2> QED
    BY <2>1, <1>d DEF DlMoves, LooksFor1G
<1>3. ASSUME NEW p \in Instances, NEW s \in Sides, CropHit(p, s) \/ CropBuild(p, s) \/ CropForced(p, s)
      PROVE AreaOfJob'
  <2>1. job[p].at = "crop" /\ \E c, d : SetsPart(p, s, c, d)
    BY <1>3, <1>t, CropHitFields, CropBuildFields, CropForcedFields DEF Cropping
  <2> QED
    BY <2>1, <1>c, <1>p DEF SetsPart
<1>4. ASSUME NEW p \in Instances, Begin(p) PROVE AreaOfJob'
  <2>1. holder = Nobody /\ Others(p) /\ job'[p].at = "start"
    BY <1>4, <1>t, BeginFields DEF Renews
  <2> QED
    BY <2>1, <1>a, <1>p
<1>5. ASSUME NEW p \in Instances, RestoreCrop(p) PROVE AreaOfJob'
  <2>1. /\ job[p].at # "idle" /\ Others(p) /\ aoi' = aoi
        /\ \A s \in Sides : job'[p].part[s] = aoi.part[s] /\ aoi.part[s] # None
    BY <1>5, <1>t, RestoreFields DEF Restorable, cache
  <2> QED
    BY <2>1, <1>a, <1>t
<1>6. ASSUME NEW p \in Instances, RestoreMiss(p) \/ Fail(p) \/ Raise(p) PROVE AreaOfJob'
  BY <1>6, <1>c, <1>p, <1>t, GotoFields, PointsTyped DEF RestoreMiss, Fail, Raise, Moves, Stays
<1>7. ASSUME NEW p \in Instances, PersistGround(p) \/ GroundCopied(p) PROVE AreaOfJob'
  <2>1. CASE PersistGround(p)
    <3>1. Moves(p, "groundCopy") /\ job[p].at # "idle" /\ job[p].part["dmr"] # None
      BY <2>1, <1>t, GotoFields, PointsTyped DEF PersistGround
    <3> QED
      BY <3>1, <1>a, <1>p, <1>t DEF Moves, Stays, SamePart
  <2>2. CASE GroundCopied(p)
    <3>1. job[p].at = "groundCopy" /\ Moves(p, "persistVeg")
      BY <2>2, <1>t, GotoFields, PointsTyped DEF GroundCopied
    <3>2. aoi'.part["dmr"] = job[p].part["dmr"]
      BY <2>2, <1>f, <1>t DEF GroundCopied
    <3> QED
      BY <3>1, <3>2, <1>a, <1>b, <1>p, <1>t DEF Moves, Stays, SamePart
  <2> QED
    BY <1>7, <2>1, <2>2
<1>8. ASSUME NEW p \in Instances, PersistVeg(p) \/ VegCopied(p) PROVE AreaOfJob'
  <2>1. CASE PersistVeg(p)
    <3>1. job[p].at = "persistVeg" /\ Moves(p, "vegCopy")
      BY <2>1, <1>t, GotoFields, PointsTyped DEF PersistVeg
    <3>2. aoi'.part["dmr"] = aoi.part["dmr"]
      BY <2>1, <1>f, <1>t DEF PersistVeg
    <3> QED
      BY <3>1, <3>2, <1>a, <1>b, <1>p, <1>t DEF Moves, Stays, SamePart
  <2>2. CASE VegCopied(p)
    <3>1. job[p].at = "vegCopy" /\ Moves(p, "persistMeta")
      BY <2>2, <1>t, GotoFields, PointsTyped DEF VegCopied
    <3>2. aoi'.part["dmp"] = job[p].part["dmp"] /\ aoi'.part["dmr"] = aoi.part["dmr"]
      BY <2>2, <1>f, <1>t DEF VegCopied
    <3> QED
      BY <3>1, <3>2, <1>a, <1>b, <1>p, <1>t DEF Moves, Stays, SamePart
  <2> QED
    BY <1>8, <2>1, <2>2
<1>9. ASSUME NEW p \in Instances, PersistMeta(p) PROVE AreaOfJob'
  <2>1. job[p].at = "persistMeta" /\ Moves(p, "surf")
    BY <1>9, <1>t, GotoFields, PointsTyped DEF PersistMeta
  <2>2. aoi'.part = aoi.part
    BY <1>9, <1>f DEF PersistMeta
  <2> QED
    BY <2>1, <2>2, <1>d, <1>p DEF Moves, Stays
<1>10. ASSUME NEW p \in Instances, SurfacesCopied(p) \/ SurfMeta(p) PROVE AreaOfJob'
  <2>1. /\ job[p].at \in {"surfCopy", "surfMeta"} /\ aoi' = aoi
        /\ Moves(p, "surfMeta") \/ Moves(p, "wait")
    BY <1>10, <1>t, GotoFields, PointsTyped DEF SurfacesCopied, SurfMeta
  <2> QED
    BY <2>1, <1>d, <1>p DEF Moves, Stays
<1>11. ASSUME NEW p \in Instances, RestoreSurfaces(p) \/ BuildSurfaces(p) PROVE AreaOfJob'
  <2>1. job[p].at = "surf" /\ aoi' = aoi /\ \E c, x : x \in {"surfCopy", "wait"} /\ SetsDem(p, c, x)
    BY <1>11, <1>t, RestoreSurfacesFields, BuildSurfacesFields DEF cache
  <2> QED
    BY <2>1, <1>d, <1>p DEF SetsDem
<1>12. ASSUME NEW p \in Instances, Record(p) PROVE AreaOfJob'
  BY <1>12, <1>c, <1>p, <1>t, SaysFields
<1>13. ASSUME NEW p \in Instances, End(p) \/ Kill(p) PROVE AreaOfJob'
  BY <1>13, <1>c, <1>p, <1>t, LeaveFields DEF Renews
<1>14. ASSUME NEW k \in Kinds, Publish(k) PROVE AreaOfJob'
  BY <1>14, <1>e DEF Publish, cache
<1>15. ASSUME Prune PROVE AreaOfJob'
  <2>1. job' = job /\ \A p \in Instances : Idle(p)
    BY <1>15, <1>t, AllIdle DEF Prune
  <2>2. \A p \in Instances : job'[p].at = "idle"
    BY <2>1 DEF Idle
  <2> QED
    BY <2>2, <1>p DEF AreaOfJob
<1>16. CASE UNCHANGED vars
  BY <1>16, <1>e DEF vars, cache
<1>17. ASSUME NEW p \in Instances, NEW s \in Sides, ThreadBreaks(p, s) PROVE AreaOfJob'
  <2>1. /\ job[p].at # "idle" /\ job[p].dl[s] # "cropped" /\ aoi' = aoi
        /\ \E c \in {None, job[p].part[s]} :
             /\ SetsPart(p, s, c, "failed")
             /\ IF job[p].restored THEN c = job[p].part[s] ELSE c = None
    BY <1>17, <1>t, BreaksFields DEF cache
  <2>2. CASE job[p].restored
    BY <2>1, <2>2, <1>d DEF SetsPart, SamePart
  <2>3. CASE ~job[p].restored
    <3>1. job[p].at \notin HasCrop
      BY <2>1, <2>3 DEF PartsOfJobs
    <3> QED
      BY <2>1, <3>1, <1>c DEF SetsPart
  <2> QED
    BY <2>2, <2>3
<1> QED
  BY <1>1, <1>2, <1>3, <1>4, <1>5, <1>6, <1>7, <1>8, <1>9, <1>10, <1>11, <1>12, <1>13,
        <1>14, <1>15, <1>16, <1>17
     DEF Next, Main, Download, CropStep

LEMMA AreaWholeStep ==
  ASSUME ConstantsOK, TypeOK, SlotIsHeld, PartsOfJobs, AreaOfJob, AreaIsWhole, ~HitAnywhere,
         [Next]_vars
  PROVE  AreaIsWhole'
<1> DEFINE copy(s) == IF s = "dmr" THEN "groundCopy" ELSE "vegCopy"
<1>a. ASSUME NEW p \in Instances, Others(p), aoi' = aoi,
             job[p].at \in {"groundCopy", "vegCopy"} => job'[p].at = job[p].at \/ ~aoi.noted
      PROVE  AreaIsWhole'
  BY <1>a DEF AreaIsWhole, Others
<1>b. aoi \in [part : [Sides -> Maybe(Content)], noted : BOOLEAN] /\ TypeOK
  BY DEF TypeOK
<1>c. ASSUME UNCHANGED <<job, aoi>> PROVE AreaIsWhole'
  BY <1>c DEF AreaIsWhole
<1>d. ASSUME NEW p \in Instances, job[p].at \notin {"groundCopy", "vegCopy"}, Others(p), aoi' = aoi
      PROVE  AreaIsWhole'
  BY <1>a, <1>d
<1>e. ASSUME NEW p \in Instances, NEW s \in Sides, NEW t \in Sides, t # s,
             Others(p), job[p].at # copy(t),
             aoi'.part[t] = aoi.part[t], aoi'.noted = aoi.noted,
             \/ job'[p].at = copy(s)
             \/ aoi'.part[s] # None => aoi'.part[s].whole
      PROVE  AreaIsWhole'
  <2>1. \A u \in Sides : u \in {s, t}
    BY <1>e DEF Sides
  <2> QED
    BY <2>1, <1>e DEF AreaIsWhole, Others
<1>1. ASSUME NEW p \in Instances, NEW s \in Sides,
             \/ UseCached(p, s) \/ UseChecked(p, s) \/ FetchStart(p, s) \/ FetchDone(p, s)
             \/ WriteMeta(p, s) \/ CropCopied(p, s) \/ CropMeta(p, s)
      PROVE AreaIsWhole'
  BY <1>1, <1>a, <1>b, DlFields, PointsTyped
  DEF UseCached, UseChecked, FetchStart, FetchDone, WriteMeta, CropCopied, CropMeta, DlMoves, cache
<1>2. ASSUME NEW p \in Instances, NEW s \in Sides, FetchFails(p, s) PROVE AreaIsWhole'
  <2>1. DlMoves(p, s, "look") \/ LooksFor1G(p, s) \/ DlMoves(p, s, "failed")
    BY <1>2, <1>b, FetchFailsFields
  <2>2. aoi' = aoi
    BY <1>2 DEF FetchFails
  <2> QED
    BY <2>1, <2>2, <1>a DEF DlMoves, LooksFor1G
<1>3. ASSUME NEW p \in Instances, NEW s \in Sides,
             CropHit(p, s) \/ CropBuild(p, s) \/ CropForced(p, s) \/ ThreadBreaks(p, s)
      PROVE AreaIsWhole'
  <2>1. aoi' = aoi
    BY <1>3 DEF CropHit, CropBuild, CropForced, ThreadBreaks, cache
  <2>2. \E c, d : SetsPart(p, s, c, d)
    BY <1>3, <1>b, CropHitFields, CropBuildFields, CropForcedFields, BreaksFields
  <2> QED
    BY <2>1, <2>2, <1>a DEF SetsPart
<1>4. ASSUME NEW p \in Instances, Begin(p) PROVE AreaIsWhole'
  <2>1. job[p].at = "idle" /\ aoi' = aoi /\ Others(p)
    BY <1>4, <1>b, BeginFields DEF Renews, cache
  <2> QED
    BY <2>1, <1>d
<1>5. ASSUME NEW p \in Instances, RestoreCrop(p) PROVE AreaIsWhole'
  <2>1. job[p].at = "start" /\ aoi' = aoi /\ Others(p)
    BY <1>5, <1>b, RestoreFields DEF cache
  <2> QED
    BY <2>1, <1>d
<1>6. ASSUME NEW p \in Instances, RestoreMiss(p) \/ Fail(p) PROVE AreaIsWhole'
  <2>1. job[p].at \in {"start", "crop", "wait"} /\ aoi' = aoi /\ Others(p)
    BY <1>6, <1>b, GotoFields, PointsTyped DEF RestoreMiss, Fail, Moves, Stays, cache
  <2> QED
    BY <2>1, <1>d
<1>7. ASSUME NEW p \in Instances, Raise(p) PROVE AreaIsWhole'
  <2>1. ~MainAtRisk(p) /\ aoi' = aoi /\ Others(p)
    BY <1>7, <1>b, GotoFields, PointsTyped DEF Raise, Moves, Stays, cache
  <2> QED
    BY <2>1, <1>a DEF MainAtRisk
<1>8. ASSUME NEW p \in Instances, End(p) \/ Kill(p) PROVE AreaIsWhole'
  <2>1. ~MainAtRisk(p) /\ aoi' = aoi /\ Others(p)
    BY <1>8, <1>b, LeaveFields DEF AtRisk, Renews, cache
  <2> QED
    BY <2>1, <1>a DEF MainAtRisk
<1>9. ASSUME NEW p \in Instances, PersistGround(p) PROVE AreaIsWhole'
  <2>1. job[p].at = "crop" /\ Others(p) /\ job'[p].at = "groundCopy"
    BY <1>9, <1>b, GotoFields, PointsTyped DEF PersistGround, Moves, Stays
  <2>2. aoi'.part["dmp"] = aoi.part["dmp"] /\ aoi'.noted = aoi.noted
    BY <1>9, <1>b, PointsTyped DEF PersistGround
  <2> QED
    BY <2>1, <2>2, <1>e, PointsTyped
<1>10. ASSUME NEW p \in Instances, GroundCopied(p) PROVE AreaIsWhole'
  <2>1. job[p].at = "groundCopy" /\ Others(p)
    BY <1>10, <1>b, GotoFields, PointsTyped DEF GroundCopied, Moves, Stays
  <2>2. /\ aoi'.part["dmp"] = aoi.part["dmp"] /\ aoi'.noted = aoi.noted
        /\ aoi'.part["dmr"] = job[p].part["dmr"]
    BY <1>10, <1>b, PointsTyped DEF GroundCopied
  <2>3. aoi'.part["dmr"] # None => aoi'.part["dmr"].whole
    BY <2>2, PointsTyped DEF PartsOfJobs
  <2> QED
    BY <2>1, <2>2, <2>3, <1>e, PointsTyped
<1>11. ASSUME NEW p \in Instances, PersistVeg(p) PROVE AreaIsWhole'
  <2>1. job[p].at = "persistVeg" /\ Others(p) /\ job'[p].at = "vegCopy"
    BY <1>11, <1>b, GotoFields, PointsTyped DEF PersistVeg, Moves, Stays
  <2>2. aoi'.part["dmr"] = aoi.part["dmr"] /\ aoi'.noted = aoi.noted
    BY <1>11, <1>b, PointsTyped DEF PersistVeg
  <2> QED
    BY <2>1, <2>2, <1>e, PointsTyped
<1>12. ASSUME NEW p \in Instances, VegCopied(p) PROVE AreaIsWhole'
  <2>1. job[p].at = "vegCopy" /\ Others(p)
    BY <1>12, <1>b, GotoFields, PointsTyped DEF VegCopied, Moves, Stays
  <2>2. /\ aoi'.part["dmr"] = aoi.part["dmr"] /\ aoi'.noted = aoi.noted
        /\ aoi'.part["dmp"] = job[p].part["dmp"]
    BY <1>12, <1>b, PointsTyped DEF VegCopied
  <2>3. aoi'.part["dmp"] # None => aoi'.part["dmp"].whole
    BY <2>2, PointsTyped DEF PartsOfJobs
  <2> QED
    BY <2>1, <2>2, <2>3, <1>e, PointsTyped
<1>13. ASSUME NEW p \in Instances, PersistMeta(p) PROVE AreaIsWhole'
  <2>1. job[p].at = "persistMeta" /\ aoi'.part = aoi.part
    BY <1>13, <1>b DEF PersistMeta
  <2>2. \A s \in Sides : aoi.part[s] = job[p].part[s]
    BY <2>1 DEF AreaOfJob, HasVeg, HasGround, HasCrop, Sides
  <2>3. \A s \in Sides : aoi.part[s] # None => aoi.part[s].whole
    BY <2>2 DEF PartsOfJobs
  <2> QED
    BY <2>1, <2>3 DEF AreaIsWhole
<1>14. ASSUME NEW p \in Instances,
              \/ RestoreSurfaces(p) \/ BuildSurfaces(p) \/ SurfacesCopied(p) \/ SurfMeta(p)
              \/ Record(p)
      PROVE AreaIsWhole'
  <2>1. job[p].at \in {"surf", "surfCopy", "surfMeta", "wait"} /\ aoi' = aoi
    BY <1>14 DEF RestoreSurfaces, BuildSurfaces, SurfacesCopied, SurfMeta, Record, cache
  <2>2. Others(p)
    <3>1. CASE RestoreSurfaces(p) \/ BuildSurfaces(p)
      BY <3>1, <1>b, RestoreSurfacesFields, BuildSurfacesFields DEF SetsDem
    <3>2. CASE SurfacesCopied(p) \/ SurfMeta(p)
      BY <3>2, <1>b, GotoFields, PointsTyped DEF SurfacesCopied, SurfMeta, Moves, Stays
    <3> QED
      BY <1>14, <3>1, <3>2, <1>b, SaysFields
  <2> QED
    BY <2>1, <2>2, <1>d
<1>15. ASSUME NEW k \in Kinds, Publish(k) PROVE AreaIsWhole'
  BY <1>15, <1>c DEF Publish, cache
<1>16. ASSUME Prune PROVE AreaIsWhole'
  <2>1. CASE PruneSheet
    BY <1>16, <2>1, <1>c DEF Prune, PruneSheet
  <2>2. CASE PruneArea
    <3>1. \A p \in Instances : job[p].at = "idle"
      BY <1>16, <1>b, AllIdle DEF Prune, Idle
    <3>2. PICK Lost \in SUBSET (Sides \cup {"meta"}) :
            aoi' = [part |-> [s \in Sides |-> IF s \in Lost THEN None ELSE aoi.part[s]],
                    noted |-> aoi.noted /\ "meta" \notin Lost]
      BY <2>2 DEF PruneArea
    <3>3. /\ \A s \in Sides : aoi'.part[s] \in {None, aoi.part[s]}
          /\ aoi'.noted => aoi.noted
      BY <3>2
    <3> QED
      BY <3>1, <3>3 DEF AreaIsWhole
  <2> QED
    BY <1>16, <2>1, <2>2 DEF Prune
<1>17. CASE UNCHANGED vars
  BY <1>17, <1>c DEF vars, cache
<1> QED
  BY <1>1, <1>2, <1>3, <1>4, <1>5, <1>6, <1>7, <1>8, <1>9, <1>10, <1>11, <1>12, <1>13,
        <1>14, <1>15, <1>16, <1>17
     DEF Next, Main, Download, CropStep

LEMMA CurrentStep ==
  ASSUME ConstantsOK, TypeOK, SlotIsHeld, KindsOfSides, TakenIsWhole,
         CropsOfSheets, CropsOfAreas, PartsOfJobs, CropOfCurrentSheet, [Next]_vars
  PROVE  CropOfCurrentSheet'
<1> DEFINE Good(p, s) ==
             ~job[p].restored /\ job[p].part[s] # None => job[p].part[s] = sheet[Kind(p, s)]
<1>a. ASSUME NEW p \in Instances, job[p].at # "idle" \/ holder = Nobody, Others(p),
             \A s \in Sides : Good(p, s)'
      PROVE  CropOfCurrentSheet'
  BY <1>a, Alone DEF CropOfCurrentSheet, Others, Idle, Fresh
<1>b. ASSUME NEW p \in Instances, NEW s \in Sides
      PROVE  /\ Good(p, s) /\ Kind(p, s) \in Kinds
             /\ job[p].dl[s] \in {"look", "fetching"} /\ ~job[p].restored => job[p].part[s] = None
  BY KindTyped DEF CropOfCurrentSheet, PartsOfJobs
<1>c. ASSUME NEW p \in Instances, NEW s \in Sides,
             job'[p].restored = job[p].restored, job'[p].part[s] = job[p].part[s],
             Kind(p, s)' = Kind(p, s), sheet'[Kind(p, s)] = sheet[Kind(p, s)]
      PROVE  Good(p, s)'
  BY <1>b, <1>c
<1>d. ASSUME NEW p \in Instances, job[p].at # "idle", Others(p), SamePart(p), SameRun(p),
             NEW s \in Sides, job[p].dl[s] \in {"look", "fetching"},
             \A t \in Sides : t # s => Kind(p, t)' = Kind(p, t),
             \A k \in Kinds : k # Kind(p, s) => sheet'[k] = sheet[k]
      PROVE  CropOfCurrentSheet'
  <2>1. Good(p, s)'
    BY <1>b, <1>d DEF SamePart, SameRun
  <2>2. \A t \in Sides : t # s => Good(p, t)'
    BY <1>b, <1>c, <1>d, TwoKinds DEF SamePart, SameRun
  <2> QED
    BY <1>a, <1>d, <2>1, <2>2
<1>e. ASSUME NEW p \in Instances, job[p].at # "idle", Others(p), SamePart(p), SameKind(p),
             SameRun(p), UNCHANGED sheet
      PROVE  CropOfCurrentSheet'
  BY <1>a, <1>c, <1>e DEF SameKind, SamePart, SameRun
<1>f. ASSUME NEW p \in Instances, NEW s \in Sides, NEW d, job[p].at # "idle",
             SetsPart(p, s, sheet[Kind(p, s)], d), UNCHANGED sheet
      PROVE  CropOfCurrentSheet'
  <2>1. Good(p, s)'
    BY <1>f DEF SetsPart, SameKind, SameRun
  <2>2. \A t \in Sides : t # s => Good(p, t)'
    BY <1>c, <1>f DEF SetsPart, SameKind, SameRun
  <2> QED
    BY <1>a, <1>f, <2>1, <2>2 DEF SetsPart
<1>g. ASSUME UNCHANGED <<job, sheet>> PROVE CropOfCurrentSheet'
  BY <1>g DEF CropOfCurrentSheet, Kind
<1>h. sheet \in [Kinds -> Maybe(Content)]
  BY DEF TypeOK
<1> HIDE DEF Good
<1>1. ASSUME NEW p \in Instances, NEW s \in Sides, UseCached(p, s) \/ UseChecked(p, s)
      PROVE CropOfCurrentSheet'
  BY <1>1, <1>e, DlFields, PointsTyped
  DEF UseCached, UseChecked, At, DlMoves, SameKind, SamePart, SameRun, SameEnd, cache
<1>2. ASSUME NEW p \in Instances, NEW s \in Sides, FetchStart(p, s)
      PROVE CropOfCurrentSheet'
  <2>1. \A k \in Kinds : k # Kind(p, s) => sheet'[k] = sheet[k]
    BY <1>2, <1>b, <1>h DEF FetchStart
  <2>2. job[p].at # "idle" /\ job[p].dl[s] = "look" /\ DlMoves(p, s, "fetching")
    BY <1>2, DlFields, PointsTyped DEF FetchStart, MustFetch, At
  <2> QED
    BY <2>1, <2>2, <1>d DEF DlMoves, SameKind
<1>3. ASSUME NEW p \in Instances, NEW s \in Sides, FetchDone(p, s) PROVE CropOfCurrentSheet'
  <2>1. \A k \in Kinds : k # Kind(p, s) => sheet'[k] = sheet[k]
    BY <1>3, <1>b, <1>h DEF FetchDone
  <2>2. job[p].at # "idle" /\ job[p].dl[s] = "fetching" /\ DlMoves(p, s, "fetched")
    BY <1>3, DlFields, PointsTyped DEF FetchDone, At
  <2> QED
    BY <2>1, <2>2, <1>d DEF DlMoves, SameKind
<1>4. ASSUME NEW p \in Instances, NEW s \in Sides, WriteMeta(p, s) PROVE CropOfCurrentSheet'
  BY <1>4, <1>e, DlFields, PointsTyped
  DEF WriteMeta, At, DlMoves, SameKind, SamePart, SameRun, SameEnd
<1>5. ASSUME NEW p \in Instances, NEW s \in Sides, FetchFails(p, s)
      PROVE CropOfCurrentSheet'
  <2>1. /\ job[p].at # "idle" /\ job[p].dl[s] \in {"look", "fetching"}
        /\ DlMoves(p, s, "look") \/ LooksFor1G(p, s) \/ DlMoves(p, s, "failed")
        /\ sheet' = [sheet EXCEPT ![Kind(p, s)] = None]
    BY <1>5, FetchFailsFields DEF MustFetch, At
  <2>2. \A k \in Kinds : k # Kind(p, s) => sheet'[k] = sheet[k]
    BY <2>1, <1>b, <1>h
  <2> QED
    BY <2>1, <2>2, <1>d DEF DlMoves, LooksFor1G, SameKind
<1>6. ASSUME NEW p \in Instances, NEW s \in Sides, CropHit(p, s) PROVE CropOfCurrentSheet'
  <2>1. PICK x \in {Kind(p, s), s} :
          Valid(x, Kind(p, s)) /\ SetsPart(p, s, crops[x].of, "cropped")
    BY <1>6, CropHitFields
  <2>2. Cropping(p, s) /\ ~job[p].force /\ UNCHANGED sheet
    BY <1>6, CropHitFields DEF cache
  <2>3. crops[x].of = sheet[Kind(p, s)]
    BY <2>1, <2>2, HitIsCurrent
  <2> QED
    BY <2>1, <2>2, <2>3, <1>f DEF Cropping
<1>7. ASSUME NEW p \in Instances, NEW s \in Sides, CropBuild(p, s) PROVE CropOfCurrentSheet'
  BY <1>7, <1>f, CropBuildFields DEF Cropping
<1>8. ASSUME NEW p \in Instances, NEW s \in Sides, CropForced(p, s)
      PROVE CropOfCurrentSheet'
  BY <1>8, <1>f, CropForcedFields DEF Cropping
<1>9. ASSUME NEW p \in Instances, NEW s \in Sides, CropCopied(p, s) \/ CropMeta(p, s)
      PROVE CropOfCurrentSheet'
  BY <1>9, <1>e, DlFields, PointsTyped
  DEF CropCopied, CropMeta, At, DlMoves, SameKind, SamePart, SameRun, SameEnd
<1>10. ASSUME NEW p \in Instances, Begin(p) PROVE CropOfCurrentSheet'
  <2>1. holder = Nobody /\ \E force \in BOOLEAN : Renews(p, "start", force)
    BY <1>10, BeginFields
  <2>2. \A s \in Sides : Good(p, s)'
    BY <2>1 DEF Renews, Fresh, Good
  <2> QED
    BY <2>1, <2>2, <1>a DEF Renews
<1>11. ASSUME NEW p \in Instances, RestoreCrop(p) PROVE CropOfCurrentSheet'
  <2>1. job[p].at # "idle" /\ Others(p) /\ job'[p].restored
    BY <1>11, RestoreFields
  <2> QED
    BY <2>1, <1>a DEF Good
<1>12. ASSUME NEW p \in Instances, RestoreMiss(p) \/ Fail(p) \/ Raise(p) PROVE CropOfCurrentSheet'
  BY <1>12, <1>e, GotoFields, PointsTyped
  DEF RestoreMiss, Fail, Raise, Moves, Stays, SameKind, SamePart, SameRun, SameEnd, cache
<1>13. ASSUME NEW p \in Instances, PersistGround(p) PROVE CropOfCurrentSheet'
  BY <1>13, <1>e, GotoFields, PointsTyped
  DEF PersistGround, Moves, Stays, SameKind, SamePart, SameRun, SameEnd
<1>14. ASSUME NEW p \in Instances,
             GroundCopied(p) \/ PersistVeg(p) \/ VegCopied(p) \/ PersistMeta(p)
      PROVE CropOfCurrentSheet'
  BY <1>14, <1>e, GotoFields, PointsTyped
  DEF GroundCopied, PersistVeg, VegCopied, PersistMeta, Moves, Stays, SameKind, SamePart, SameRun, SameEnd
<1>15. ASSUME NEW p \in Instances, SurfacesCopied(p) \/ SurfMeta(p) PROVE CropOfCurrentSheet'
  BY <1>15, <1>e, GotoFields, PointsTyped
  DEF SurfacesCopied, SurfMeta, Moves, Stays, SameKind, SamePart, SameRun, SameEnd
<1>16. ASSUME NEW p \in Instances, RestoreSurfaces(p) PROVE CropOfCurrentSheet'
  BY <1>16, <1>e, RestoreSurfacesFields DEF SetsDem, SameKind, SamePart, SameRun, cache
<1>17. ASSUME NEW p \in Instances, BuildSurfaces(p) PROVE CropOfCurrentSheet'
  BY <1>17, <1>e, BuildSurfacesFields DEF SetsDem, SameKind, SamePart, SameRun
<1>18. ASSUME NEW p \in Instances, Record(p) PROVE CropOfCurrentSheet'
  BY <1>18, <1>e, SaysFields DEF SameKind, SamePart, SameRun, cache
<1>19. ASSUME NEW p \in Instances, End(p) \/ Kill(p) PROVE CropOfCurrentSheet'
  <2>1. job[p].at # "idle" /\ Renews(p, "idle", FALSE)
    BY <1>19, LeaveFields
  <2>2. \A s \in Sides : Good(p, s)'
    BY <2>1 DEF Renews, Fresh, Good
  <2> QED
    BY <2>1, <2>2, <1>a DEF Renews
<1>20. ASSUME NEW k \in Kinds, Publish(k) PROVE CropOfCurrentSheet'
  BY <1>20, <1>g DEF Publish, cache
<1>21. ASSUME Prune PROVE CropOfCurrentSheet'
  <2>1. job' = job /\ \A p \in Instances : Idle(p)
    BY <1>21, AllIdle DEF Prune
  <2>2. \A p \in Instances, s \in Sides : job'[p].part[s] = None
    BY <2>1 DEF Idle, Fresh
  <2> QED
    BY <2>2 DEF CropOfCurrentSheet
<1>22. CASE UNCHANGED vars
  BY <1>22, <1>g DEF vars, cache
<1>23. ASSUME NEW p \in Instances, NEW s \in Sides, ThreadBreaks(p, s)
      PROVE CropOfCurrentSheet'
  <2>1. /\ job[p].at # "idle" /\ UNCHANGED sheet
        /\ \E c \in {None, job[p].part[s]} : SetsPart(p, s, c, "failed")
    BY <1>23, BreaksFields DEF cache
  <2>2. Good(p, s)'
    BY <2>1, <1>b DEF SetsPart, SameKind, SameRun, Good
  <2>3. \A t \in Sides : t # s => Good(p, t)'
    BY <2>1, <1>c DEF SetsPart, SameKind, SameRun
  <2> QED
    BY <2>1, <2>2, <2>3, <1>a DEF SetsPart
<1> QED
  BY <1>1, <1>2, <1>3, <1>4, <1>5, <1>6, <1>7, <1>8, <1>9, <1>10, <1>11, <1>12, <1>13,
        <1>14, <1>15, <1>16, <1>17, <1>18, <1>19, <1>20, <1>21, <1>22, <1>23
     DEF Next, Main, Download, CropStep

\* Whose mtime is wrong about its version has a note, or a thread that will write it.
LEMMA VersionsStep ==
  ASSUME ConstantsOK, NotesInv, SlotIsHeld, KindsOfSides, OvertakenIsNoted,
         NeverBelievesNewer, ~HitAnywhere, [Next]_vars
  PROVE  OvertakenIsNoted' /\ NeverBelievesNewer'
<1> DEFINE Goal == OvertakenIsNoted' /\ NeverBelievesNewer'
           Open(k) == stored[k] = 0 /\ Overtaken(k)
<1>t. /\ TypeOK /\ NotesAreOld
      /\ sheet \in [Kinds -> Maybe(Content)] /\ seen \in [Kinds -> 0..MaxVer]
      /\ stored \in [Kinds -> 0..MaxVer]
  BY DEF NotesInv, TypeOK
<1>k. ASSUME NEW p \in Instances, NEW s \in Sides PROVE Kind(p, s) \in Kinds
  BY <1>k, <1>t, KindTyped
<1>n. ASSUME NEW k \in Kinds
      PROVE  /\ remote[k] \in Nat /\ seen[k] \in Nat /\ stored[k] \in Nat
             /\ seen[k] <= remote[k] /\ stored[k] <= remote[k]
             /\ sheet[k] # None => sheet[k] \in Content /\ sheet[k].ver \in Nat \ {0}
  BY <1>n, <1>t, NotesTyped, ContentFields DEF NotesAreOld, ConstantsOK
<1>a. ASSUME NEW p \in Instances, Others(p), UNCHANGED <<sheet, seen, stored>>,
             \A s \in Sides : job[p].dl[s] = "fetched" /\ Open(Kind(p, s)) =>
                job'[p].dl[s] = "fetched" /\ Kind(p, s)' = Kind(p, s)
      PROVE  Goal
  BY <1>a DEF OvertakenIsNoted, NeverBelievesNewer, Overtaken, Others, Kind
<1>b. ASSUME NEW p \in Instances, NEW s \in Sides, Others(p),
             \A t \in Sides : t # s => job'[p].dl[t] = job[p].dl[t] /\ Kind(p, t)' = Kind(p, t),
             \A k \in Kinds : k # Kind(p, s) =>
               sheet'[k] = sheet[k] /\ seen'[k] = seen[k] /\ stored'[k] = stored[k],
             NEW k0 \in Kinds, k0 = Kind(p, s),
             stored'[k0] = 0 /\ sheet'[k0] # None /\ sheet'[k0].ver < seen'[k0] =>
               job'[p].dl[s] = "fetched" /\ Kind(p, s)' = k0,
             sheet'[k0] # None => stored'[k0] <= sheet'[k0].ver
      PROVE  Goal
  <2>1. NeverBelievesNewer'
    BY <1>b DEF NeverBelievesNewer
  <2>2. ASSUME NEW k \in Kinds, k # k0, stored'[k] = 0, Overtaken(k)'
        PROVE  \E q \in Instances, t \in Sides : job'[q].dl[t] = "fetched" /\ Kind(q, t)' = k
    <3>1. PICK q \in Instances, t \in Sides : job[q].dl[t] = "fetched" /\ Kind(q, t) = k
      BY <1>b, <2>2 DEF OvertakenIsNoted, Overtaken
    <3> QED
      BY <1>b, <2>2, <3>1 DEF Others, Kind
  <2>3. OvertakenIsNoted'
    BY <1>b, <2>2 DEF OvertakenIsNoted, Overtaken
  <2> QED
    BY <2>1, <2>3
<1>c. ASSUME UNCHANGED <<sheet, seen, stored, job>> PROVE Goal
  BY <1>c DEF OvertakenIsNoted, NeverBelievesNewer, Overtaken, Kind
<1>d. ASSUME NEW p \in Instances, Others(p), SameKind(p), UNCHANGED <<sheet, seen, stored>>,
             \A s \in Sides : job'[p].dl[s] = job[p].dl[s]
      PROVE  Goal
  BY <1>a, <1>d DEF SameKind
<1>e. ASSUME NEW p \in Instances, NEW s \in Sides, Others(p), SameKind(p),
             UNCHANGED <<sheet, seen, stored>>, job[p].dl[s] # "fetched",
             \A t \in Sides : t # s => job'[p].dl[t] = job[p].dl[t]
      PROVE  Goal
  BY <1>a, <1>e DEF SameKind
<1>f. ASSUME NEW p \in Instances, Idle(p), Others(p), UNCHANGED <<sheet, seen, stored>>
      PROVE  Goal
  BY <1>a, <1>f DEF Idle, Fresh
<1> HIDE DEF Goal
<1>1. ASSUME NEW p \in Instances, NEW s \in Sides, UseCached(p, s) PROVE Goal
  BY <1>1, <1>e, <1>t, DlFields, PointsTyped DEF UseCached, At, DlMoves, cache
<1>2. ASSUME NEW p \in Instances, NEW s \in Sides, UseChecked(p, s) PROVE Goal
  <2>1. PICK k \in Kinds : k = Kind(p, s)
    BY <1>k
  <2>2. /\ job[p].at # "idle" /\ job[p].dl[s] = "look" /\ sheet[k] # None
        /\ remote[k] # 0 /\ ~Newer(k)
        /\ stored' = [stored EXCEPT ![k] = remote[k]] /\ sheet' = sheet /\ seen' = seen
        /\ DlMoves(p, s, "done")
    BY <1>2, <1>t, <2>1, DlFields, PointsTyped DEF UseChecked, At
  <2>3. ~Open(k)
    <3>1. ASSUME NEW q \in Instances, NEW t \in Sides, job[q].dl[t] = "fetched", Kind(q, t) = k
          PROVE  FALSE
      <4>1. q = p
        BY <2>2, <3>1, Alone DEF Idle, Fresh
      <4> QED
        BY <2>1, <2>2, <3>1, <4>1, TwoKinds
    <3> QED
      BY <3>1 DEF OvertakenIsNoted
  <2>4. remote[k] <= sheet[k].ver
    <3>1. CASE stored[k] # 0
      BY <2>2, <3>1 DEF Newer, NeverBelievesNewer
    <3>2. CASE stored[k] = 0
      BY <2>2, <2>3, <3>2, <1>n DEF Newer, Overtaken
    <3> QED
      BY <3>1, <3>2
  <2>5. stored'[k] = remote[k] /\ \A l \in Kinds : l # k => stored'[l] = stored[l]
    BY <2>2, <1>t
  <2> QED
    BY <2>1, <2>2, <2>4, <2>5, <1>b DEF DlMoves, SameKind
<1>3. ASSUME NEW p \in Instances, NEW s \in Sides, FetchStart(p, s) PROVE Goal
  <2>1. PICK k \in Kinds : k = Kind(p, s)
    BY <1>k
  <2>2. /\ sheet' = [sheet EXCEPT ![k] = [kind |-> k, ver |-> remote[k], whole |-> FALSE]]
        /\ seen' = [seen EXCEPT ![k] = remote[k]] /\ stored' = stored
        /\ DlMoves(p, s, "fetching")
    BY <1>3, <1>t, <2>1, DlFields, PointsTyped DEF FetchStart
  <2>3. /\ sheet'[k].ver = remote[k] /\ seen'[k] = remote[k] /\ stored'[k] <= remote[k]
        /\ \A l \in Kinds : l # k => sheet'[l] = sheet[l] /\ seen'[l] = seen[l]
    BY <2>2, <1>n, <1>t
  <2> QED
    BY <2>1, <2>2, <2>3, <1>b, <1>n DEF DlMoves, SameKind
<1>4. ASSUME NEW p \in Instances, NEW s \in Sides, FetchDone(p, s) PROVE Goal
  <2>1. PICK k \in Kinds : k = Kind(p, s)
    BY <1>k
  <2>2. /\ sheet[k] # None /\ sheet' = [sheet EXCEPT ![k].whole = TRUE]
        /\ seen' = [seen EXCEPT ![k] = remote[k]] /\ stored' = stored
        /\ DlMoves(p, s, "fetched")
    BY <1>4, <1>t, <2>1, DlFields, PointsTyped DEF FetchDone
  <2>3. [sheet[k] EXCEPT !.whole = TRUE].ver = sheet[k].ver
    BY <2>2, <1>n DEF Content
  <2>4. /\ sheet'[k].ver = sheet[k].ver
        /\ \A l \in Kinds : l # k => sheet'[l] = sheet[l] /\ seen'[l] = seen[l]
    BY <2>2, <2>3, <1>t
  <2>5. stored'[k] <= sheet'[k].ver
    BY <2>2, <2>4 DEF NeverBelievesNewer
  <2> QED
    BY <2>1, <2>2, <2>4, <2>5, <1>b DEF DlMoves, SameKind
<1>5. ASSUME NEW p \in Instances, NEW s \in Sides, WriteMeta(p, s) PROVE Goal
  <2>1. PICK k \in Kinds : k = Kind(p, s)
    BY <1>k
  <2>2. /\ sheet[k] # None /\ stored' = [stored EXCEPT ![k] = sheet[k].ver]
        /\ sheet' = sheet /\ seen' = seen /\ DlMoves(p, s, "done")
    BY <1>5, <1>t, <2>1, DlFields, PointsTyped DEF WriteMeta
  <2>3. /\ stored'[k] = sheet[k].ver /\ stored'[k] # 0
        /\ \A l \in Kinds : l # k => stored'[l] = stored[l]
    BY <2>2, <1>n, <1>t
  <2> QED
    BY <2>1, <2>2, <2>3, <1>b, <1>n DEF DlMoves, SameKind
<1>6. ASSUME NEW p \in Instances, NEW s \in Sides, FetchFails(p, s) PROVE Goal
  <2>1. PICK k \in Kinds : k = Kind(p, s)
    BY <1>k
  <2>2. /\ sheet' = [sheet EXCEPT ![k] = None] /\ stored' = stored
        /\ DlMoves(p, s, "look") \/ LooksFor1G(p, s) \/ DlMoves(p, s, "failed")
    BY <1>6, <1>t, <2>1, FetchFailsFields
  <2>3. seen' = [seen EXCEPT ![k] = 0]
    BY <1>6, <2>1 DEF FetchFails
  <2>4. /\ sheet'[k] = None
        /\ \A l \in Kinds : l # k => sheet'[l] = sheet[l] /\ seen'[l] = seen[l]
    BY <2>2, <2>3, <1>t
  <2> QED
    BY <2>1, <2>2, <2>4, <1>b DEF DlMoves, LooksFor1G, SameKind
<1>7. ASSUME NEW p \in Instances, NEW s \in Sides, CropHit(p, s) PROVE Goal
  BY <1>7, <1>e, <1>t, CropHitFields DEF Cropping, SetsPart, cache
<1>8. ASSUME NEW p \in Instances, NEW s \in Sides, CropBuild(p, s) PROVE Goal
  BY <1>8, <1>e, <1>t, CropBuildFields DEF Cropping, SetsPart
<1>9. ASSUME NEW p \in Instances, NEW s \in Sides, CropForced(p, s) PROVE Goal
  BY <1>9, <1>e, <1>t, CropForcedFields DEF Cropping, SetsPart
<1>10. ASSUME NEW p \in Instances, NEW s \in Sides, CropCopied(p, s) \/ CropMeta(p, s)
       PROVE Goal
  BY <1>10, <1>e, <1>t, DlFields, PointsTyped DEF CropCopied, CropMeta, At, DlMoves
<1>11. ASSUME NEW p \in Instances, NEW s \in Sides, ThreadBreaks(p, s) PROVE Goal
  <2>1. /\ ~ThreadAtRisk(p, s) /\ UNCHANGED <<sheet, seen, stored>>
        /\ \E c \in {None, job[p].part[s]} : SetsPart(p, s, c, "failed")
    BY <1>11, <1>t, BreaksFields DEF cache
  <2> QED
    BY <2>1, <1>a DEF ThreadAtRisk, SetsPart, SameKind
<1>12. ASSUME NEW p \in Instances, Begin(p) PROVE Goal
  <2>1. Idle(p) /\ Others(p) /\ UNCHANGED <<sheet, seen, stored>>
    BY <1>12, <1>t, BeginFields, AllIdle DEF Renews, cache
  <2> QED
    BY <2>1, <1>f
<1>13. ASSUME NEW p \in Instances, RestoreCrop(p) PROVE Goal
  BY <1>13, <1>d, <1>t, RestoreFields DEF cache
<1>14. ASSUME NEW p \in Instances, RestoreMiss(p) \/ Fail(p) \/ Raise(p) PROVE Goal
  BY <1>14, <1>d, <1>t, GotoFields, PointsTyped DEF RestoreMiss, Fail, Raise, Moves, Stays, cache
<1>15. ASSUME NEW p \in Instances,
              \/ PersistGround(p) \/ GroundCopied(p) \/ PersistVeg(p) \/ VegCopied(p)
              \/ PersistMeta(p) \/ SurfacesCopied(p) \/ SurfMeta(p)
       PROVE Goal
  BY <1>15, <1>d, <1>t, GotoFields, PointsTyped
     DEF PersistGround, GroundCopied, PersistVeg, VegCopied, PersistMeta, SurfacesCopied,
         SurfMeta, Moves, Stays
<1>16. ASSUME NEW p \in Instances, RestoreSurfaces(p) \/ BuildSurfaces(p) PROVE Goal
  BY <1>16, <1>d, <1>t, RestoreSurfacesFields, BuildSurfacesFields DEF SetsDem, cache
<1>17. ASSUME NEW p \in Instances, Record(p) PROVE Goal
  BY <1>17, <1>d, <1>t, SaysFields DEF cache
<1>18. ASSUME NEW p \in Instances, End(p) \/ Kill(p) PROVE Goal
  <2>1. ~AtRisk(p) /\ Others(p) /\ UNCHANGED <<sheet, seen, stored>>
    BY <1>18, <1>t, LeaveFields DEF Renews, cache
  <2> QED
    BY <2>1, <1>a DEF AtRisk, ThreadAtRisk
<1>19. ASSUME NEW k \in Kinds, Publish(k) PROVE Goal
  BY <1>19, <1>c DEF Publish, cache
<1>20. ASSUME Prune PROVE Goal
  <2>1. CASE PruneArea
    BY <1>20, <2>1, <1>c DEF Prune, PruneArea
  <2>2. CASE PruneSheet
    <3>1. \A k \in Kinds : ~Open(k)
      BY <1>20, AllIdle DEF Prune, OvertakenIsNoted, Idle, Fresh
    <3>2. \A k \in Kinds : sheet'[k] # None =>
            /\ sheet'[k] = sheet[k] /\ seen'[k] = seen[k]
            /\ \/ stored'[k] = stored[k]
               \/ stored'[k] = 0 /\ ~Overtaken(k)
      BY <2>2, <1>t DEF PruneSheet
    <3>3. \A k \in Kinds : sheet'[k] # None =>
            stored'[k] <= sheet'[k].ver /\ ~(stored'[k] = 0 /\ Overtaken(k)')
      BY <3>1, <3>2, <1>n DEF NeverBelievesNewer, Overtaken
    <3> QED
      BY <3>3 DEF Goal, OvertakenIsNoted, NeverBelievesNewer, Overtaken
  <2> QED
    BY <1>20, <2>1, <2>2 DEF Prune
<1>21. CASE UNCHANGED vars
  BY <1>21, <1>c DEF vars, cache, Goal
<1> QED
  BY <1>1, <1>2, <1>3, <1>4, <1>5, <1>6, <1>7, <1>8, <1>9, <1>10, <1>11, <1>12, <1>13,
        <1>14, <1>15, <1>16, <1>17, <1>18, <1>19, <1>20, <1>21
     DEF Next, Main, Download, CropStep, Goal

LEMMA SheetInit == ASSUME ConstantsOK, ~HitAnywhere PROVE Init => SheetInv
<1> SUFFICES ASSUME Init PROVE SheetInv
  OBVIOUS
<1>1. NotesInv
  BY NotesInit
<1>2. \A p \in Instances : job[p] = NewJob("idle", FALSE)
  BY DEF Init
<1>3. \A p \in Instances : Idle(p)
  BY <1>2, IdleFields
<1>4. holder = Nobody
  BY DEF Init, Slot!Init
<1>5. SlotIsHeld
  BY <1>2, <1>3, <1>4 DEF SlotIsHeld, Idle, ConstantsOK
<1>6. /\ \A k \in Kinds : sheet[k] = None
      /\ \A x \in Kinds \cup Sides : crops[x].of = None /\ crops[x].fp = None
      /\ \A s \in Sides : aoi.part[s] = None
  BY DEF Init, Nothing
<1>7. KindsOfSides
  BY <1>3, <1>6 DEF KindsOfSides, Idle, Fresh, Kinds
<1>8. /\ HalfIsFetched /\ CropsOfSheets /\ CropsOfAreas /\ AreaIsWhole
      /\ OvertakenIsNoted /\ NeverBelievesNewer
  BY <1>6 DEF HalfIsFetched, CropsOfSheets, CropsOfAreas, AreaIsWhole,
              OvertakenIsNoted, Overtaken, NeverBelievesNewer
<1>9. /\ TakenIsWhole /\ NotingIsCropped /\ PartsOfJobs /\ CropOfCurrentSheet
      /\ AreaOfJob
  BY <1>3 DEF Idle, Fresh, TakenIsWhole, NotingIsCropped, PartsOfJobs, CropOfCurrentSheet,
              AreaOfJob, HasCrop, HasGround, HasVeg
<1> QED
  BY <1>1, <1>5, <1>7, <1>8, <1>9 DEF SheetInv

LEMMA SheetStep == ASSUME ConstantsOK PROVE SheetInv /\ [Next]_vars => SheetInv'
<1> SUFFICES ASSUME SheetInv, [Next]_vars PROVE SheetInv'
  OBVIOUS
<1>1. TypeOK /\ ~HitAnywhere
  BY DEF SheetInv, NotesInv
<1>2. NotesInv'
  BY TypeStep, NotesStep DEF SheetInv, NotesInv
<1>3. SlotIsHeld' /\ KindsOfSides'
  BY <1>1, SlotStep, KindsStep DEF SheetInv
<1>4. HalfIsFetched' /\ TakenIsWhole'
  BY <1>1, HalfStep, TakenStep DEF SheetInv
<1>5. OvertakenIsNoted' /\ NeverBelievesNewer'
  BY <1>1, VersionsStep DEF SheetInv
<1>6. CropsOfSheets' /\ CropsOfAreas' /\ NotingIsCropped'
  BY <1>1, CropsOfSheetsStep, CropsOfAreasStep, NotingStep DEF SheetInv
<1>7. PartsOfJobs' /\ AreaOfJob' /\ AreaIsWhole' /\ CropOfCurrentSheet'
  BY <1>1, PartsStep, AreaOfJobStep, AreaWholeStep, CurrentStep DEF SheetInv
<1>8. ~HitAnywhere'
  BY <1>1
<1> QED
  BY <1>2, <1>3, <1>4, <1>5, <1>6, <1>7, <1>8 DEF SheetInv

\* SheetWhole, CropOfCurrentSheet and NeverBelievesNewer: jobs work with completely
\* extracted sheets, those that crop with the sheets they downloaded or checked, and
\* no sheet is noted as newer than it is.  All of it where no kill and no error of the
\* disk hits at the points of AtRisk.
THEOREM SheetsAreWhole ==
  ASSUME ConstantsOK, ~HitAnywhere
  PROVE  Spec => [](SheetWhole /\ CropOfCurrentSheet /\ NeverBelievesNewer)
<1>1. SheetInv => SheetWhole /\ CropOfCurrentSheet /\ NeverBelievesNewer
  BY DEF SheetInv, PartsOfJobs, SheetWhole
<1> QED
  BY <1>1, SheetInit, SheetStep, PTL DEF Spec

-----------------------------------------------------------------------------
(* Areas and elevation models: SurfInv. *)

\* The crop that a job persists is of the sheet as it is.
LEMMA PersistsSheet ==
  ASSUME ConstantsOK, SheetInv, NEW p \in Instances, PersistGround(p) \/ GroundCopied(p)
  PROVE  /\ job[p].part["dmr"] = sheet["DMR"] /\ sheet["DMR"] # None
         /\ Sound(sheet["DMR"], "DMR")
<1>1. /\ job[p].at \in {"crop", "groundCopy"} /\ "dmr" \in Sides /\ "DMR" \in Kinds
      /\ job[p].part["dmr"] # None
  BY PointsTyped DEF PersistGround, GroundCopied, SheetInv, AreaOfJob, HasCrop
<1>2. ~job[p].restored /\ job[p].part["dmr"].whole
  BY <1>1 DEF SheetInv, PartsOfJobs
<1>3. job[p].part["dmr"] = sheet["DMR"]
  BY <1>1, <1>2 DEF SheetInv, CropOfCurrentSheet, KindsOfSides
<1>4. sheet["DMR"].kind = "DMR"
  BY <1>1, <1>2, <1>3 DEF SheetInv, CropsOfSheets
<1>5. sheet["DMR"].ver <= remote["DMR"]
  BY <1>1, <1>2, <1>3, NotesTyped DEF SheetInv, NotesInv, NotesAreOld
<1> QED
  BY <1>1, <1>2, <1>3, <1>4, <1>5 DEF Sound

LEMMA AreaContent ==
  ASSUME ConstantsOK, TypeOK
  PROVE  /\ remote["DMR"] \in Nat
         /\ sheet["DMR"] # None => sheet["DMR"] \in Content /\ sheet["DMR"].ver \in Nat
         /\ aoi.part["dmr"] # None => aoi.part["dmr"] \in Content /\ aoi.part["dmr"].ver \in Nat
         /\ surf.of # None => surf.of \in Content /\ surf.of.ver \in Nat
         /\ surf.fp["dmr"] # None => surf.fp["dmr"] \in Content /\ surf.fp["dmr"].ver \in Nat
<1>1. \A c \in Maybe(Content) : c # None => c \in Content /\ c.ver \in Nat
  BY SomeContent, ContentFields DEF ConstantsOK
<1>2. /\ aoi.part["dmr"] \in Maybe(Content) /\ surf.of \in Maybe(Content)
      /\ surf.fp["dmr"] \in Maybe(Content)
  BY PointsTyped DEF TypeOK
<1> QED
  BY <1>1, <1>2, NotesTyped, PointsTyped

\* Terrain that was not restored is that of the sheet.
LEMMA TerrainOfJobsStep ==
  ASSUME ConstantsOK, SheetInv, SheetInv', TerrainOfJobs, TerrainInOrder, [Next]_vars
  PROVE  TerrainOfJobs'
<1>t. TypeOK /\ PartsOfJobs /\ "dmr" \in Sides /\ "DMR" \in Kinds
  BY PointsTyped DEF SheetInv, NotesInv
<1> SUFFICES ASSUME NEW p \in Instances, job'[p].part["dmr"] # None, job'[p].restored
             PROVE  job'[p].part["dmr"].kind = "DMR"
  <2>1. ASSUME NEW p \in Instances, job'[p].part["dmr"] # None, ~job'[p].restored
        PROVE  job'[p].part["dmr"].kind = "DMR"
    <3>1. job'[p].part["dmr"] = sheet'["DMR"]
      BY <2>1, <1>t DEF SheetInv, CropOfCurrentSheet, KindsOfSides
    <3> QED
      BY <2>1, <3>1, <1>t DEF SheetInv, CropsOfSheets
  <2> QED
    BY <2>1 DEF TerrainOfJobs
<1> DEFINE Goal == job'[p].part["dmr"].kind = "DMR"
<1>a. ASSUME NEW q \in Instances, Others(q),
             q = p => job'[q].part["dmr"] \in {None, job[q].part["dmr"], aoi.part["dmr"]}
      PROVE  Goal
  BY <1>a DEF Others, TerrainOfJobs, TerrainInOrder, OfTerrain
<1>b. ASSUME NEW q \in Instances, Others(q), SamePart(q) PROVE Goal
  BY <1>a, <1>b, <1>t DEF SamePart
<1>c. ASSUME NEW q \in Instances, Others(q), ~job'[q].restored PROVE Goal
  BY <1>a, <1>c
<1>d. ASSUME UNCHANGED job PROVE Goal
  BY <1>d DEF TerrainOfJobs
<1> HIDE DEF Goal
<1>1. ASSUME NEW q \in Instances, NEW s \in Sides,
             \/ UseCached(q, s) \/ UseChecked(q, s) \/ FetchStart(q, s) \/ FetchDone(q, s)
             \/ WriteMeta(q, s) \/ CropCopied(q, s) \/ CropMeta(q, s)
      PROVE Goal
  BY <1>1, <1>b, <1>t, DlFields, PointsTyped
  DEF UseCached, UseChecked, FetchStart, FetchDone, WriteMeta, CropCopied, CropMeta, DlMoves
<1>2. ASSUME NEW q \in Instances, NEW s \in Sides, FetchFails(q, s) PROVE Goal
  BY <1>2, <1>b, <1>t, FetchFailsFields DEF DlMoves, LooksFor1G
<1>3. ASSUME NEW q \in Instances, NEW s \in Sides, CropHit(q, s) \/ CropBuild(q, s) \/ CropForced(q, s)
      PROVE Goal
  <2>1. job[q].at = "crop" /\ \E c, d : SetsPart(q, s, c, d)
    BY <1>3, <1>t, CropHitFields, CropBuildFields, CropForcedFields DEF Cropping
  <2>2. ~job[q].restored
    BY <2>1, <1>t DEF PartsOfJobs
  <2> QED
    BY <2>1, <2>2, <1>c DEF SetsPart, SameRun
<1>4. ASSUME NEW q \in Instances, NEW s \in Sides, ThreadBreaks(q, s) PROVE Goal
  BY <1>4, <1>a, <1>t, BreaksFields DEF SetsPart
<1>5. ASSUME NEW q \in Instances, Begin(q) \/ End(q) \/ Kill(q) PROVE Goal
  BY <1>5, <1>c, <1>t, BeginFields, LeaveFields DEF Renews, Fresh
<1>6. ASSUME NEW q \in Instances, RestoreCrop(q) PROVE Goal
  BY <1>6, <1>a, <1>t, RestoreFields
<1>7. ASSUME NEW q \in Instances,
             \/ RestoreMiss(q) \/ Fail(q) \/ Raise(q)
             \/ PersistGround(q) \/ GroundCopied(q) \/ PersistVeg(q) \/ VegCopied(q)
             \/ PersistMeta(q) \/ SurfacesCopied(q) \/ SurfMeta(q)
      PROVE Goal
  BY <1>7, <1>b, <1>t, GotoFields, PointsTyped
     DEF RestoreMiss, Fail, Raise, PersistGround, GroundCopied, PersistVeg, VegCopied,
         PersistMeta, SurfacesCopied, SurfMeta, Moves, Stays
<1>8. ASSUME NEW q \in Instances, RestoreSurfaces(q) \/ BuildSurfaces(q) \/ Record(q) PROVE Goal
  BY <1>8, <1>b, <1>t, RestoreSurfacesFields, BuildSurfacesFields, SaysFields DEF SetsDem
<1>9. ASSUME NEW k \in Kinds, Publish(k) PROVE Goal
  BY <1>9, <1>d DEF Publish
<1>10. ASSUME Prune PROVE Goal
  BY <1>10, <1>d DEF Prune
<1>11. ASSUME UNCHANGED vars PROVE Goal
  BY <1>11, <1>d DEF vars
<1>12. Goal
  BY <1>1, <1>2, <1>3, <1>4, <1>5, <1>6, <1>7, <1>8, <1>9, <1>10, <1>11
     DEF Next, Main, Download, CropStep
<1> QED
  BY <1>12 DEF Goal

LEMMA TerrainStep ==
  ASSUME ConstantsOK, SheetInv, TerrainOfJobs, TerrainInOrder, SurfacesOfJob, [Next]_vars
  PROVE  TerrainInOrder'
<1>t. TypeOK /\ "dmr" \in Sides /\ "DMR" \in Kinds
  BY PointsTyped DEF SheetInv, NotesInv
<1>a. ASSUME UNCHANGED <<remote, surf>>, aoi'.part["dmr"] \in {aoi.part["dmr"], None},
             sheet'["DMR"] # None => \/ sheet'["DMR"].ver = remote["DMR"]
                                     \/ sheet["DMR"] # None /\ sheet'["DMR"].ver = sheet["DMR"].ver
      PROVE  TerrainInOrder'
  BY <1>a DEF TerrainInOrder, OfTerrain, NotAfter
<1>b. ASSUME UNCHANGED <<remote, sheet, aoi, surf>> PROVE TerrainInOrder'
  BY <1>b DEF TerrainInOrder, OfTerrain
<1>c. /\ sheet \in [Kinds -> Maybe(Content)]
      /\ aoi \in [part : [Sides -> Maybe(Content)], noted : BOOLEAN]
      /\ surf \in [of : Maybe(Content), fp : [Sides -> Maybe(Content)]]
      /\ remote \in [Kinds -> 0..MaxVer]
  BY <1>t DEF TypeOK
<1>d. ASSUME UNCHANGED <<remote, sheet, surf>>, sheet["DMR"] # None, Sound(sheet["DMR"], "DMR"),
             aoi'.part["dmr"] \in {sheet["DMR"], Cut(sheet["DMR"])}
      PROVE  TerrainInOrder'
  <2>1. aoi'.part["dmr"].kind = "DMR" /\ aoi'.part["dmr"].ver = sheet["DMR"].ver
    BY <1>d, <1>t, AreaContent, CutTyped DEF Sound
  <2> QED
    BY <2>1, <1>d, <1>t, AreaContent DEF TerrainInOrder, OfTerrain, Sound, NotAfter
<1>e. ASSUME UNCHANGED <<remote, sheet, aoi>>, aoi.part["dmr"] # None,
             surf'.of \in {aoi.part["dmr"], Cut(aoi.part["dmr"])}
      PROVE  TerrainInOrder'
  <2>1. surf'.of.kind = aoi.part["dmr"].kind /\ surf'.of.ver = aoi.part["dmr"].ver
    BY <1>e, <1>t, AreaContent, CutTyped
  <2> QED
    BY <2>1, <1>e, <1>t, AreaContent DEF TerrainInOrder, OfTerrain, NotAfter
<1>k. ASSUME NEW p \in Instances, NEW s \in Sides PROVE Kind(p, s) \in Kinds
  BY <1>k, <1>t, KindTyped
<1>1. ASSUME NEW p \in Instances, NEW s \in Sides,
             \/ UseCached(p, s) \/ UseChecked(p, s) \/ WriteMeta(p, s) \/ CropHit(p, s)
             \/ CropBuild(p, s) \/ CropForced(p, s) \/ CropCopied(p, s) \/ CropMeta(p, s)
             \/ ThreadBreaks(p, s)
      PROVE TerrainInOrder'
  BY <1>1, <1>b DEF UseCached, UseChecked, WriteMeta, CropHit, CropBuild, CropForced,
     CropCopied, CropMeta, ThreadBreaks, cache
<1>2. ASSUME NEW p \in Instances, NEW s \in Sides, FetchStart(p, s) PROVE TerrainInOrder'
  <2>1. /\ sheet'["DMR"] = sheet["DMR"] \/ sheet'["DMR"].ver = remote["DMR"]
        /\ UNCHANGED <<remote, aoi, surf>>
    BY <1>2, <1>c, <1>k, <1>t DEF FetchStart
  <2>2. CASE sheet'["DMR"] = sheet["DMR"]
    BY <2>1, <2>2 DEF TerrainInOrder, OfTerrain, NotAfter
  <2>3. CASE sheet'["DMR"].ver = remote["DMR"]
    BY <2>1, <2>3 DEF TerrainInOrder, OfTerrain, NotAfter
  <2> QED
    BY <2>1, <2>2, <2>3
<1>3. ASSUME NEW p \in Instances, NEW s \in Sides, FetchDone(p, s) PROVE TerrainInOrder'
  <2>1. Kind(p, s) \in Kinds /\ sheet[Kind(p, s)] \in Content
    BY <1>3, <1>t, <1>k, NotesTyped DEF FetchDone
  <2>2. [sheet[Kind(p, s)] EXCEPT !.whole = TRUE].ver = sheet[Kind(p, s)].ver
    BY <2>1 DEF Content
  <2>3. \/ sheet'["DMR"] = sheet["DMR"]
        \/ sheet["DMR"] # None /\ sheet'["DMR"].ver = sheet["DMR"].ver
    BY <1>3, <2>1, <2>2, <1>c, <1>t DEF FetchDone
  <2> QED
    BY <1>3, <2>3, <1>a DEF FetchDone
<1>4. ASSUME NEW p \in Instances, NEW s \in Sides, FetchFails(p, s) PROVE TerrainInOrder'
  <2>1. sheet'["DMR"] \in {sheet["DMR"], None} /\ UNCHANGED <<remote, aoi, surf>>
    BY <1>4, <1>c, <1>k, <1>t, FetchFailsFields
  <2> QED
    BY <2>1, <1>a
<1>5. ASSUME NEW p \in Instances,
             \/ Begin(p) \/ RestoreCrop(p) \/ RestoreMiss(p) \/ Fail(p) \/ Raise(p)
             \/ End(p) \/ Kill(p)
      PROVE TerrainInOrder'
  BY <1>5, <1>b DEF Begin, RestoreCrop, RestoreMiss, Fail, Raise, End, Kill, cache
<1>6. ASSUME NEW p \in Instances, RestoreSurfaces(p) \/ Record(p) PROVE TerrainInOrder'
  BY <1>6, <1>b DEF RestoreSurfaces, Record, cache
<1>7. ASSUME NEW p \in Instances, PersistGround(p) \/ GroundCopied(p) PROVE TerrainInOrder'
  <2>1. /\ job[p].part["dmr"] = sheet["DMR"] /\ sheet["DMR"] # None
        /\ Sound(sheet["DMR"], "DMR")
    BY <1>7, PersistsSheet
  <2>2. /\ aoi'.part["dmr"] \in {sheet["DMR"], Cut(sheet["DMR"])}
        /\ UNCHANGED <<remote, sheet, surf>>
    BY <1>7, <2>1, <1>c, <1>t DEF PersistGround, GroundCopied
  <2> QED
    BY <2>1, <2>2, <1>d
<1>8. ASSUME NEW p \in Instances, PersistVeg(p) \/ VegCopied(p) \/ PersistMeta(p)
      PROVE TerrainInOrder'
  <2>1. aoi'.part["dmr"] = aoi.part["dmr"] /\ UNCHANGED <<remote, sheet, surf>>
    BY <1>8, <1>c, <1>t DEF PersistVeg, VegCopied, PersistMeta
  <2> QED
    BY <2>1, <1>a
<1>9. ASSUME NEW p \in Instances, BuildSurfaces(p) \/ SurfacesCopied(p) PROVE TerrainInOrder'
  <2>1. /\ job[p].at \in {"surf", "surfCopy"} /\ UNCHANGED <<remote, sheet, aoi>>
        /\ \/ surf'.of = Cut(job[p].part["dmr"])
           \/ surf'.of = job[p].dem /\ job[p].at = "surfCopy"
    BY <1>9, <1>c DEF BuildSurfaces, SurfacesCopied
  <2>2. aoi.part["dmr"] # None /\ aoi.part["dmr"] = job[p].part["dmr"]
    BY <2>1 DEF SheetInv, AreaOfJob, HasVeg, HasGround, HasCrop
  <2>3. surf'.of \in {aoi.part["dmr"], Cut(aoi.part["dmr"])}
    BY <2>1, <2>2 DEF SurfacesOfJob
  <2> QED
    BY <2>1, <2>2, <2>3, <1>e
<1>10. ASSUME NEW p \in Instances, SurfMeta(p) PROVE TerrainInOrder'
  <2>1. surf'.of = surf.of /\ UNCHANGED <<remote, sheet, aoi>>
    BY <1>10, <1>c DEF SurfMeta
  <2> QED
    BY <2>1 DEF TerrainInOrder, OfTerrain
<1>11. ASSUME NEW k \in Kinds, Publish(k) PROVE TerrainInOrder'
  <2>1. remote'["DMR"] >= remote["DMR"] /\ remote'["DMR"] \in Nat /\ UNCHANGED <<sheet, aoi, surf>>
    BY <1>11, <1>c, <1>t, NotesTyped DEF Publish, cache
  <2> QED
    BY <2>1, <1>t, AreaContent DEF TerrainInOrder, OfTerrain
<1>12. ASSUME Prune PROVE TerrainInOrder'
  <2>1. /\ sheet'["DMR"] \in {sheet["DMR"], None} /\ aoi'.part["dmr"] \in {aoi.part["dmr"], None}
        /\ UNCHANGED <<remote, surf>>
    BY <1>12, <1>t DEF Prune, PruneSheet, PruneArea
  <2> QED
    BY <2>1, <1>a
<1>13. CASE UNCHANGED vars
  BY <1>13, <1>b DEF vars, cache
<1> QED
  BY <1>1, <1>2, <1>3, <1>4, <1>5, <1>6, <1>7, <1>8, <1>9, <1>10, <1>11, <1>12, <1>13
     DEF Next, Main, Download, CropStep

LEMMA SurfaceNoteStep ==
  ASSUME ConstantsOK, SheetInv, TerrainOfJobs, TerrainInOrder, SurfaceNote, SurfacesOfJob,
         [Next]_vars
  PROVE  SurfaceNote'
<1> DEFINE Copies(p) == job[p].at = "surfCopy" /\ surf.fp["dmr"] = job[p].part["dmr"]
<1>t. /\ TypeOK /\ SlotIsHeld /\ AreaOfJob /\ PartsOfJobs /\ ~HitAnywhere
      /\ "dmr" \in Sides /\ "DMR" \in Kinds
  BY PointsTyped DEF SheetInv, NotesInv
<1>a. ASSUME NEW p \in Instances, Others(p), UNCHANGED <<remote, surf>>, Copies(p) => Copies(p)'
      PROVE  SurfaceNote'
  <2>1. ASSUME NEW q \in Instances, Copies(q) PROVE Copies(q)'
    BY <1>a, <2>1 DEF Others
  <2> QED
    BY <1>a, <2>1 DEF SurfaceNote, Sound
<1>b. ASSUME NEW p \in Instances, Others(p), UNCHANGED <<remote, surf>>, job[p].at # "surfCopy"
      PROVE  SurfaceNote'
  BY <1>a, <1>b
<1>d. ASSUME NEW p \in Instances, Others(p), UNCHANGED <<remote, surf>>, SamePart(p),
             job'[p].at = job[p].at
      PROVE  SurfaceNote'
  BY <1>a, <1>d, <1>t DEF SamePart
<1>e. ASSUME UNCHANGED <<remote, surf, job>> PROVE SurfaceNote'
  BY <1>e DEF SurfaceNote, Sound
<1>c. /\ surf \in [of : Maybe(Content), fp : [Sides -> Maybe(Content)]]
      /\ remote \in [Kinds -> 0..MaxVer]
  BY <1>t DEF TypeOK
<1>f. ASSUME NEW p \in Instances, job[p].at # "idle", NEW q \in Instances, Copies(q)
      PROVE  q = p
  BY <1>f, <1>t, Alone DEF Idle
<1>p. ASSUME NEW p \in Instances, job[p].at \in {"surf", "surfCopy", "surfMeta"}
      PROVE  /\ aoi.part["dmr"] = job[p].part["dmr"]
             /\ job[p].part["dmr"] # None /\ Sound(job[p].part["dmr"], "DMR")
             /\ job[p].part["dmr"] \in Content /\ job[p].part["dmr"].ver \in Nat
  <2>1. aoi.part["dmr"] = job[p].part["dmr"] /\ job[p].part["dmr"] # None
    BY <1>p, <1>t DEF AreaOfJob, HasVeg, HasGround, HasCrop
  <2> QED
    BY <2>1, <1>t, AreaContent DEF PartsOfJobs, TerrainOfJobs, TerrainInOrder, OfTerrain, Sound
<1> HIDE DEF Copies
<1>1. ASSUME NEW p \in Instances, NEW s \in Sides,
             \/ UseCached(p, s) \/ UseChecked(p, s) \/ FetchStart(p, s) \/ FetchDone(p, s)
             \/ WriteMeta(p, s) \/ CropCopied(p, s) \/ CropMeta(p, s)
      PROVE SurfaceNote'
  BY <1>1, <1>d, <1>t, DlFields, PointsTyped
  DEF UseCached, UseChecked, FetchStart, FetchDone, WriteMeta, CropCopied, CropMeta, DlMoves, cache
<1>2. ASSUME NEW p \in Instances, NEW s \in Sides, FetchFails(p, s) PROVE SurfaceNote'
  <2>1. /\ UNCHANGED <<remote, surf>>
        /\ DlMoves(p, s, "look") \/ LooksFor1G(p, s) \/ DlMoves(p, s, "failed")
    BY <1>2, <1>t, FetchFailsFields
  <2> QED
    BY <2>1, <1>d DEF DlMoves, LooksFor1G
<1>3. ASSUME NEW p \in Instances, NEW s \in Sides, CropHit(p, s) \/ CropBuild(p, s) \/ CropForced(p, s)
      PROVE SurfaceNote'
  <2>1. /\ job[p].at = "crop" /\ UNCHANGED <<remote, surf>>
        /\ \E c, d : SetsPart(p, s, c, d)
    BY <1>3, <1>t, CropHitFields, CropBuildFields, CropForcedFields DEF Cropping, cache
  <2> QED
    BY <2>1, <1>b DEF SetsPart
<1>4. ASSUME NEW p \in Instances, NEW s \in Sides, ThreadBreaks(p, s) PROVE SurfaceNote'
  <2>1. /\ job[p].dl[s] # "cropped" /\ UNCHANGED <<remote, surf>>
        /\ \E c \in {None, job[p].part[s]} :
             /\ SetsPart(p, s, c, "failed")
             /\ IF job[p].restored THEN c = job[p].part[s] ELSE c = None
    BY <1>4, <1>t, BreaksFields DEF cache
  <2>2. CASE job[p].restored
    BY <2>1, <2>2, <1>d DEF SetsPart, SamePart
  <2>3. CASE ~job[p].restored
    <3>1. job[p].at # "surfCopy"
      BY <2>1, <2>3, <1>t DEF PartsOfJobs, HasCrop
    <3> QED
      BY <2>1, <3>1, <1>b DEF SetsPart
  <2> QED
    BY <2>2, <2>3
<1>5. ASSUME NEW p \in Instances, Begin(p) PROVE SurfaceNote'
  <2>1. job[p].at = "idle" /\ Others(p) /\ UNCHANGED <<remote, surf>>
    BY <1>5, <1>t, BeginFields DEF Renews, cache
  <2> QED
    BY <2>1, <1>b
<1>6. ASSUME NEW p \in Instances, RestoreCrop(p) PROVE SurfaceNote'
  <2>1. job[p].at = "start" /\ Others(p) /\ UNCHANGED <<remote, surf>>
    BY <1>6, <1>t, RestoreFields DEF cache
  <2> QED
    BY <2>1, <1>b
<1>7. ASSUME NEW p \in Instances,
             \/ RestoreMiss(p) \/ Fail(p) \/ PersistGround(p) \/ GroundCopied(p)
             \/ PersistVeg(p) \/ VegCopied(p) \/ PersistMeta(p)
      PROVE SurfaceNote'
  BY <1>7, <1>b, <1>t, GotoFields, PointsTyped
     DEF RestoreMiss, Fail, PersistGround, GroundCopied, PersistVeg, VegCopied, PersistMeta,
         Moves, Stays, cache
<1>8. ASSUME NEW p \in Instances, Raise(p) \/ End(p) \/ Kill(p) PROVE SurfaceNote'
  <2>1. ~MainAtRisk(p) /\ Others(p) /\ UNCHANGED <<remote, surf>>
    <3>1. CASE Raise(p)
      BY <3>1, <1>t, GotoFields, PointsTyped DEF Raise, Moves, Stays, cache
    <3>2. CASE End(p) \/ Kill(p)
      BY <3>2, <1>t, LeaveFields DEF AtRisk, Renews, cache
    <3> QED
      BY <1>8, <3>1, <3>2
  <2> QED
    BY <2>1, <1>a DEF MainAtRisk, Copies
<1>9. ASSUME NEW p \in Instances, RestoreSurfaces(p) \/ Record(p) PROVE SurfaceNote'
  <2>1. job[p].at \in {"surf", "wait"} /\ Others(p) /\ UNCHANGED <<remote, surf>>
    BY <1>9, <1>t, RestoreSurfacesFields, SaysFields DEF SetsDem, cache
  <2> QED
    BY <2>1, <1>b
<1>10. ASSUME NEW p \in Instances, BuildSurfaces(p) PROVE SurfaceNote'
  <2> DEFINE c == job[p].part["dmr"]
  <2>1. /\ job[p].at = "surf" /\ remote' = remote /\ SetsDem(p, c, "surfCopy")
        /\ surf' = [surf EXCEPT !.of = Cut(c)]
    BY <1>10, <1>t, BuildSurfacesFields
  <2>2. surf'.of = Cut(c) /\ surf'.fp = surf.fp /\ job'[p].part["dmr"] = c /\ job'[p].at = "surfCopy"
    BY <2>1, <1>c, <1>t DEF SetsDem, SamePart
  <2>3. aoi.part["dmr"] = c /\ c # None /\ Sound(c, "DMR") /\ c \in Content /\ c.ver \in Nat
    BY <2>1, <1>p
  <2> HIDE DEF c
  <2>4. surf'.of # None /\ surf'.of.ver = c.ver
    BY <2>2, <2>3, CutTyped DEF ConstantsOK
  <2>5. ASSUME surf.fp["dmr"] # None
        PROVE  Sound(surf.fp["dmr"], "DMR") /\ surf.fp["dmr"].ver <= c.ver
    <3>1. ASSUME NEW q \in Instances PROVE ~Copies(q)
      BY <2>1, <1>f DEF Copies
    <3>2. surf.of # None /\ surf.of.ver <= c.ver
      BY <2>3, <2>5 DEF SurfaceNote, TerrainInOrder, NotAfter
    <3> QED
      BY <2>3, <2>5, <3>1, <3>2, <1>t, AreaContent DEF SurfaceNote, Copies
  <2>6. ASSUME surf.fp["dmr"] # None, surf.fp["dmr"].ver = c.ver
        PROVE  surf.fp["dmr"] = c
    <3>1. surf.fp["dmr"] \in Content
      BY <2>6, <1>t, AreaContent
    <3> QED
      BY <2>3, <2>5, <2>6, <3>1, SameContent, ContentFields DEF Sound
  <2>7. ASSUME surf.fp["dmr"] # None, surf.fp["dmr"] # c
        PROVE  surf.fp["dmr"].ver < c.ver
    BY <2>3, <2>5, <2>6, <2>7, <1>t, AreaContent
  <2> QED
    BY <2>1, <2>2, <2>4, <2>5, <2>7 DEF SurfaceNote, Sound
<1>11. ASSUME NEW p \in Instances, SurfacesCopied(p) PROVE SurfaceNote'
  <2> DEFINE c == job[p].part["dmr"]
  <2>1. /\ job[p].at = "surfCopy" /\ remote' = remote
        /\ surf' = [surf EXCEPT !.of = job[p].dem]
    BY <1>11 DEF SurfacesCopied
  <2>2. surf'.of = c /\ surf'.fp = surf.fp /\ surf.of = Cut(c)
    BY <2>1, <1>c DEF SurfacesOfJob
  <2>3. c # None /\ Sound(c, "DMR") /\ c \in Content
    BY <2>1, <1>p
  <2>4. \A q \in Instances : Copies(q) => surf.fp["dmr"] = c
    BY <2>1, <1>f DEF Copies
  <2> HIDE DEF c
  <2>5. surf.of.ver = c.ver /\ ~surf.of.whole
    BY <2>2, <2>3, CutTyped
  <2> QED
    BY <2>1, <2>2, <2>3, <2>4, <2>5 DEF SurfaceNote, Sound, Copies
<1>12. ASSUME NEW p \in Instances, SurfMeta(p) PROVE SurfaceNote'
  <2>1. /\ job[p].at = "surfMeta" /\ remote' = remote
        /\ surf'.of = surf.of /\ surf'.fp = job[p].part
    BY <1>12, <1>c DEF SurfMeta
  <2>2. surf.of = job[p].part["dmr"]
    BY <2>1 DEF SurfacesOfJob
  <2> QED
    BY <2>1, <2>2, <1>p DEF SurfaceNote, Sound
<1>13. ASSUME NEW k \in Kinds, Publish(k) PROVE SurfaceNote'
  <2>1. /\ remote'["DMR"] >= remote["DMR"] /\ remote'["DMR"] \in Nat
        /\ surf' = surf /\ job' = job
    BY <1>13, <1>c, <1>t, NotesTyped DEF Publish, cache
  <2> QED
    BY <2>1, <1>t, AreaContent DEF SurfaceNote, Sound
<1>14. ASSUME Prune PROVE SurfaceNote'
  BY <1>14, <1>e DEF Prune, PruneSheet, PruneArea
<1>15. CASE UNCHANGED vars
  BY <1>15, <1>e DEF vars, cache
<1> QED
  BY <1>1, <1>2, <1>3, <1>4, <1>5, <1>6, <1>7, <1>8, <1>9, <1>10, <1>11, <1>12, <1>13,
        <1>14, <1>15
     DEF Next, Main, Download, CropStep

\* What a job took the elevation model from, and what it wrote down.
LEMMA SurfacesOfJobStep ==
  ASSUME ConstantsOK, SheetInv, TerrainInOrder, SurfaceNote, SurfacesOfJob,
         SurfacesFitCrop, NewlyRecordedIsUsed, [Next]_vars
  PROVE  SurfacesOfJob' /\ SurfacesFitCrop' /\ NewlyRecordedIsUsed'
<1> DEFINE Goal == SurfacesOfJob' /\ SurfacesFitCrop' /\ NewlyRecordedIsUsed'
           Good(p) ==
             /\ job[p].at = "surfCopy" => surf.of = Cut(job[p].dem)
             /\ job[p].at = "surfMeta" => surf.of = job[p].dem
             /\ job[p].at \in {"surfCopy", "surfMeta"} => job[p].dem = job[p].part["dmr"]
             /\ job[p].dem # None => job[p].at \in {"surfCopy", "surfMeta", "wait", "end"}
             /\ job[p].dem # None => job[p].restored \/ job[p].dl["dmr"] = "cropped"
             /\ job[p].dem # None => job[p].dem = job[p].part["dmr"]
             /\ job[p].says # None => job[p].at = "end"
             /\ job[p].says # None /\ ~job[p].restored => job[p].says = job[p].part["dmp"].kind
<1>t. /\ TypeOK /\ SlotIsHeld /\ AreaOfJob /\ PartsOfJobs
      /\ "dmr" \in Sides /\ "dmp" \in Sides /\ "OK" \in Kinds
  BY PointsTyped DEF SheetInv, NotesInv
<1>a. ASSUME NEW p \in Instances, job[p].at # "idle" \/ holder = Nobody, Others(p), Good(p)'
      PROVE  Goal
  <2>1. ASSUME NEW q \in Instances, q # p PROVE Good(q)'
    <3>1. job'[q] = job[q] /\ Idle(q)
      BY <1>a, <1>t, <2>1, Alone DEF Others
    <3> QED
      BY <3>1 DEF Idle, Fresh
  <2>2. \A q \in Instances : Good(q)'
    BY <1>a, <2>1
  <2> QED
    BY <2>2 DEF SurfacesOfJob, SurfacesFitCrop, NewlyRecordedIsUsed
<1>b. ASSUME NEW p \in Instances PROVE Good(p)
  BY DEF SurfacesOfJob, SurfacesFitCrop, NewlyRecordedIsUsed
<1>c. ASSUME NEW p \in Instances,
             job[p].at \notin {"idle", "surfCopy", "surfMeta", "wait", "end"}, Others(p),
             SameEnd(p), job'[p].at \notin {"surfCopy", "surfMeta"}
      PROVE  Goal
  BY <1>a, <1>b, <1>c DEF SameEnd
<1>d. ASSUME NEW p \in Instances, job[p].at # "idle", Others(p), SamePart(p), SameEnd(p),
             SameRun(p), job'[p].at = job[p].at, surf' = surf,
             job[p].dl["dmr"] = "cropped" => job'[p].dl["dmr"] = "cropped"
      PROVE  Goal
  BY <1>a, <1>b, <1>d, <1>t DEF SameEnd, SamePart, SameRun
<1>e. ASSUME UNCHANGED <<job, surf>> PROVE Goal
  BY <1>e DEF SurfacesOfJob, SurfacesFitCrop, NewlyRecordedIsUsed
<1>f. surf \in [of : Maybe(Content), fp : [Sides -> Maybe(Content)]]
  BY <1>t DEF TypeOK
<1> HIDE DEF Goal, Good
<1>1. ASSUME NEW p \in Instances, NEW s \in Sides,
             \/ UseCached(p, s) \/ UseChecked(p, s) \/ FetchStart(p, s) \/ FetchDone(p, s)
             \/ WriteMeta(p, s) \/ CropCopied(p, s) \/ CropMeta(p, s)
      PROVE Goal
  <2>1. /\ job[p].at # "idle" /\ surf' = surf /\ job[p].dl[s] # "cropped"
        /\ \E d : DlMoves(p, s, d)
    BY <1>1, <1>t, DlFields, PointsTyped
    DEF UseCached, UseChecked, FetchStart, FetchDone, WriteMeta, CropCopied, CropMeta, MustFetch,
        At, cache
  <2> QED
    BY <2>1, <1>d, <1>t DEF DlMoves
<1>2. ASSUME NEW p \in Instances, NEW s \in Sides, FetchFails(p, s) PROVE Goal
  <2>1. /\ job[p].at # "idle" /\ surf' = surf /\ job[p].dl[s] # "cropped"
        /\ DlMoves(p, s, "look") \/ LooksFor1G(p, s) \/ DlMoves(p, s, "failed")
    BY <1>2, <1>t, FetchFailsFields DEF MustFetch, At
  <2> QED
    BY <2>1, <1>d, <1>t DEF DlMoves, LooksFor1G
<1>3. ASSUME NEW p \in Instances, NEW s \in Sides, CropHit(p, s) \/ CropBuild(p, s) \/ CropForced(p, s)
      PROVE Goal
  <2>1. job[p].at = "crop" /\ \E c, d : SetsPart(p, s, c, d)
    BY <1>3, <1>t, CropHitFields, CropBuildFields, CropForcedFields DEF Cropping
  <2> QED
    BY <2>1, <1>c DEF SetsPart
<1>4. ASSUME NEW p \in Instances, Begin(p) PROVE Goal
  <2>1. holder = Nobody /\ Others(p) /\ Fresh(p)' /\ job'[p].at = "start"
    BY <1>4, <1>t, BeginFields DEF Renews
  <2> QED
    BY <2>1, <1>a DEF Good, Fresh
<1>5. ASSUME NEW p \in Instances, RestoreCrop(p) PROVE Goal
  <2>1. job[p].at = "start" /\ Others(p) /\ SameEnd(p) /\ job'[p].at = "surf"
    BY <1>5, <1>t, RestoreFields
  <2> QED
    BY <2>1, <1>c
<1>6. ASSUME NEW p \in Instances,
             \/ RestoreMiss(p) \/ PersistGround(p) \/ GroundCopied(p) \/ PersistVeg(p)
             \/ VegCopied(p) \/ PersistMeta(p)
      PROVE Goal
  BY <1>6, <1>c, <1>t, GotoFields, PointsTyped
  DEF RestoreMiss, PersistGround, GroundCopied, PersistVeg, VegCopied, PersistMeta, Moves, Stays
<1>7. ASSUME NEW p \in Instances, Fail(p) \/ Raise(p) PROVE Goal
  <2>1. job[p].at # "idle" /\ job[p].at # "end" /\ Moves(p, "end")
    BY <1>7, <1>t, GotoFields, PointsTyped DEF Fail, Raise
  <2>2. Good(p)'
    BY <2>1, <1>b, <1>t DEF Moves, Stays, SameEnd, SamePart, SameRun, Good
  <2> QED
    BY <2>1, <2>2, <1>a DEF Moves, Stays
<1>8. ASSUME NEW p \in Instances, SurfacesCopied(p) \/ SurfMeta(p) PROVE Goal
  <2>1. CASE SurfacesCopied(p)
    <3>1. /\ job[p].at = "surfCopy" /\ Moves(p, "surfMeta")
          /\ surf'.of = job[p].dem
      BY <2>1, <1>t, <1>f, GotoFields, PointsTyped DEF SurfacesCopied
    <3>2. Good(p)'
      BY <3>1, <1>b, <1>t DEF Moves, Stays, SameEnd, SamePart, SameRun, Good
    <3> QED
      BY <3>1, <3>2, <1>a DEF Moves, Stays
  <2>2. CASE SurfMeta(p)
    <3>1. job[p].at = "surfMeta" /\ Moves(p, "wait")
      BY <2>2, <1>t, GotoFields, PointsTyped DEF SurfMeta
    <3>2. Good(p)'
      BY <3>1, <1>b, <1>t DEF Moves, Stays, SameEnd, SamePart, SameRun, Good
    <3> QED
      BY <3>1, <3>2, <1>a DEF Moves, Stays
  <2> QED
    BY <1>8, <2>1, <2>2
<1>9. ASSUME NEW p \in Instances, RestoreSurfaces(p) PROVE Goal
  <2>1. /\ job[p].at = "surf" /\ SetsDem(p, surf.of, "wait")
        /\ surf.of # None /\ surf.fp = job[p].part
    BY <1>9, <1>t, RestoreSurfacesFields
  <2>2. job[p].part["dmr"] # None /\ aoi.part["dmr"] = job[p].part["dmr"]
    BY <2>1, <1>t DEF AreaOfJob, HasVeg, HasGround, HasCrop
  <2>3. surf.fp["dmr"].ver >= surf.of.ver
    BY <2>1, <2>2, <1>t, AreaContent DEF TerrainInOrder, NotAfter
  <2>4. \A q \in Instances : job[q].at # "surfCopy"
    BY <2>1, <1>t, Alone DEF Idle
  <2>5. surf.of = job[p].part["dmr"]
    BY <2>1, <2>2, <2>3, <2>4, <1>t, AreaContent DEF SurfaceNote
  <2>6. job[p].restored \/ job[p].dl["dmr"] = "cropped"
    BY <2>1, <1>t DEF PartsOfJobs, HasCrop
  <2>7. Good(p)'
    BY <2>1, <2>5, <2>6, <1>b, <1>t DEF SetsDem, SamePart, SameRun, Good
  <2> QED
    BY <2>1, <2>7, <1>a DEF SetsDem
<1>10. ASSUME NEW p \in Instances, BuildSurfaces(p) PROVE Goal
  <2>1. /\ job[p].at = "surf" /\ SetsDem(p, job[p].part["dmr"], "surfCopy")
        /\ surf' = [surf EXCEPT !.of = Cut(job[p].part["dmr"])]
    BY <1>10, <1>t, BuildSurfacesFields
  <2>2. surf'.of = Cut(job[p].part["dmr"])
    BY <2>1, <1>f
  <2>3. job[p].restored \/ job[p].dl["dmr"] = "cropped"
    BY <2>1, <1>t DEF PartsOfJobs, HasCrop
  <2>4. Good(p)'
    BY <2>1, <2>2, <2>3, <1>b, <1>t DEF SetsDem, SamePart, SameRun, Good
  <2> QED
    BY <2>1, <2>4, <1>a DEF SetsDem
<1>11. ASSUME NEW p \in Instances, Record(p) PROVE Goal
  <2>1. /\ job[p].at = "wait" /\ Others(p) /\ SamePart(p) /\ SameRun(p)
        /\ \A s \in Sides : job'[p].dl[s] = job[p].dl[s]
        /\ job'[p].at = "end" /\ job'[p].dem = job[p].dem
        /\ job'[p].says = IF sheet["OK"] # None THEN "OK" ELSE "1G"
    BY <1>11, <1>t, SaysFields
  <2>2. ASSUME ~job[p].restored PROVE job'[p].says = job[p].part["dmp"].kind
    <3>1. job[p].part["dmp"] # None
      BY <2>1, <2>2, <1>t DEF PartsOfJobs, HasCrop
    <3>2. PICK k \in Kinds : k = Kind(p, "dmp")
      BY <1>t, KindTyped
    <3>3. job[p].part["dmp"] = sheet[k] /\ sheet[k] # None
      BY <3>1, <3>2, <2>2, <1>t DEF SheetInv, CropOfCurrentSheet
    <3>4. sheet[k].kind = k
      BY <3>3 DEF SheetInv, CropsOfSheets
    <3>5. k \in {"OK", "1G"} /\ (k = "1G" => sheet["OK"] = None)
      BY <3>2 DEF SheetInv, KindsOfSides, Kinds
    <3> QED
      BY <2>1, <3>3, <3>4, <3>5
  <2>3. Good(p)'
    BY <2>1, <2>2, <1>b, <1>t DEF SamePart, SameRun, Good
  <2> QED
    BY <2>1, <2>3, <1>a
<1>12. ASSUME NEW p \in Instances, End(p) \/ Kill(p) PROVE Goal
  <2>1. job[p].at # "idle" /\ Others(p) /\ Fresh(p)' /\ job'[p].at = "idle"
    BY <1>12, <1>t, LeaveFields DEF Renews
  <2> QED
    BY <2>1, <1>a DEF Good, Fresh
<1>13. ASSUME NEW k \in Kinds, Publish(k) PROVE Goal
  BY <1>13, <1>e DEF Publish, cache
<1>14. ASSUME Prune PROVE Goal
  <2>1. job' = job /\ \A p \in Instances : Idle(p)
    BY <1>14, <1>t, AllIdle DEF Prune
  <2>2. \A p \in Instances : job'[p].at = "idle" /\ job'[p].dem = None /\ job'[p].says = None
    BY <2>1 DEF Idle, Fresh
  <2> QED
    BY <2>2 DEF Goal, SurfacesOfJob, SurfacesFitCrop, NewlyRecordedIsUsed
<1>15. CASE UNCHANGED vars
  BY <1>15, <1>e DEF vars, cache, Goal
<1>16. ASSUME NEW p \in Instances, NEW s \in Sides, ThreadBreaks(p, s) PROVE Goal
  <2>1. /\ job[p].at # "idle" /\ job[p].dl[s] # "cropped" /\ surf' = surf
        /\ \E c \in {None, job[p].part[s]} :
             /\ SetsPart(p, s, c, "failed")
             /\ IF job[p].restored THEN c = job[p].part[s] ELSE c = None
    BY <1>16, <1>t, BreaksFields DEF cache
  <2>2. CASE job[p].restored
    <3>1. Others(p) /\ SamePart(p) /\ SameEnd(p) /\ SameRun(p) /\ job'[p].at = job[p].at
      BY <2>1, <2>2 DEF SetsPart, SamePart
    <3>2. job[p].dl["dmr"] = "cropped" => job'[p].dl["dmr"] = "cropped"
      BY <2>1, <1>t DEF SetsPart
    <3> QED
      BY <2>1, <3>1, <3>2, <1>d
  <2>3. CASE ~job[p].restored
    <3>1. job[p].at \notin HasCrop /\ job[p].says = None
      BY <2>1, <2>3, <1>t DEF PartsOfJobs
    <3>2. job[p].dem # None => s # "dmr"
      BY <2>1, <2>3, <1>b DEF Good
    <3>3. Good(p)'
      BY <2>1, <3>1, <3>2, <1>b, <1>t DEF SetsPart, SameEnd, SameRun, Good, HasCrop
    <3> QED
      BY <2>1, <3>3, <1>a DEF SetsPart
  <2> QED
    BY <2>2, <2>3
<1> QED
  BY <1>1, <1>2, <1>3, <1>4, <1>5, <1>6, <1>7, <1>8, <1>9, <1>10, <1>11, <1>12, <1>13,
        <1>14, <1>15, <1>16
     DEF Next, Main, Download, CropStep, Goal

LEMMA SurfInit == ASSUME ConstantsOK, ~HitAnywhere PROVE Init => SurfInv
<1> SUFFICES ASSUME Init PROVE SurfInv
  OBVIOUS
<1>1. SheetInv
  BY SheetInit
<1>2. \A p \in Instances : Idle(p)
  BY IdleFields DEF Init
<1>3. surf.of = None /\ surf.fp["dmr"] = None /\ aoi.part["dmr"] = None
  BY PointsTyped DEF Init
<1>4. TerrainInOrder /\ SurfaceNote
  BY <1>3 DEF TerrainInOrder, SurfaceNote
<1>5. TerrainOfJobs /\ SurfacesOfJob /\ SurfacesFitCrop /\ NewlyRecordedIsUsed
  BY <1>2, PointsTyped
     DEF TerrainOfJobs, SurfacesOfJob, SurfacesFitCrop, NewlyRecordedIsUsed, Idle, Fresh
<1> QED
  BY <1>1, <1>4, <1>5 DEF SurfInv

LEMMA SurfStep == ASSUME ConstantsOK PROVE SurfInv /\ [Next]_vars => SurfInv'
BY SheetStep, TerrainOfJobsStep, TerrainStep, SurfaceNoteStep, SurfacesOfJobStep DEF SurfInv

\* SurfacesFitCrop and NewlyRecordedIsUsed: the elevation model and the metadata of a
\* job are those of the points it works with, where no kill and no error of the disk
\* hits at the points of AtRisk.
THEOREM SurfacesAreTrue ==
  ASSUME ConstantsOK, ~HitAnywhere
  PROVE  Spec => [](SurfacesFitCrop /\ NewlyRecordedIsUsed)
<1>1. SurfInv => SurfacesFitCrop /\ NewlyRecordedIsUsed
  BY DEF SurfInv
<1> QED
  BY <1>1, SurfInit, SurfStep, PTL DEF Spec

=============================================================================
