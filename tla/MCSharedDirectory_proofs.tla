----------------------- MODULE MCSharedDirectory_proofs -----------------------
(***************************************************************************)
(* The theorems about what the instances on one machine share.             *)
(*                                                                         *)
(* The slot, for every set of instances and probing threads and any number *)
(* of crashes: SlotInv is inductive; the safety properties and the         *)
(* refinement of SlotMutex follow from it.                                 *)
(*                                                                         *)
(* The downloads: a step of one part leaves the variables of the others    *)
(* alone, so the inductive invariants of DownloadCache and of OsmDownload  *)
(* are kept by every step of MCSpec.  They hold for all instances and      *)
(* versions; the OSM theorem here for the tiles of MCSharedDirectory, in   *)
(* OsmDownload_proofs for any.                                             *)
(***************************************************************************)
EXTENDS MCSharedDirectory, Sequences, TLAPS

-----------------------------------------------------------------------------
(* The slot. *)

LEMMA SlotInitially == Init => SlotInv
BY SlotConstantsOK DEF Init, SlotInv, TypeOK, Holders, RunnerPoints, ProberPoints

\* The runner's steps keep the invariant.
LEMMA RunnerKeeps ==
  ASSUME SlotInv, NEW p \in Instances, Run(p) PROVE SlotInv'
<1> USE SlotConstantsOK DEF SlotInv, TypeOK, Holders, RunnerPoints, ProberPoints, Goto
<1>1. CASE Begin(p)
  BY <1>1 DEF Begin
<1>2. CASE TryAcquire(p)
  BY <1>2 DEF TryAcquire
<1>3. CASE TryRefused(p)
  BY <1>3 DEF TryRefused
<1>4. CASE Leave(p)
  BY <1>4 DEF Leave
<1>5. CASE ReleaseNothing(p)
  BY <1>5 DEF ReleaseNothing
<1>6. CASE ReleaseUnlock(p)
  BY <1>6 DEF ReleaseUnlock
<1>7. CASE ReleaseClose(p)
  BY <1>7 DEF ReleaseClose
<1>8. QED
  BY <1>1, <1>2, <1>3, <1>4, <1>5, <1>6, <1>7 DEF Run

\* So do the steps of a probe ...
LEMMA ProbeKeeps ==
  ASSUME SlotInv, NEW t \in Probers, Probe(t) PROVE SlotInv'
<1> USE SlotConstantsOK DEF SlotInv, TypeOK, Holders, RunnerPoints, ProberPoints, Goto
<1>1. CASE ProbeLook(t)
  BY <1>1 DEF ProbeLook
<1>2. CASE ProbeLock(t)
  BY <1>2 DEF ProbeLock
<1>3. CASE ProbeBusy(t)
  BY <1>3 DEF ProbeBusy
<1>4. CASE ProbeUnlock(t)
  BY <1>4 DEF ProbeUnlock
<1>5. QED
  BY <1>1, <1>2, <1>3, <1>4 DEF Probe

\* ... and the death of a process.
LEMMA CrashKeeps ==
  ASSUME SlotInv, NEW p \in Instances, Crash(p) PROVE SlotInv'
BY SlotConstantsOK DEF SlotInv, TypeOK, Holders, RunnerPoints, ProberPoints, Crash

LEMMA SlotInductive == SlotInv /\ [Next]_vars => SlotInv'
<1> SUFFICES ASSUME SlotInv, [Next]_vars PROVE SlotInv'
  OBVIOUS
<1>1. CASE \E p \in Instances : Run(p)
  BY <1>1, RunnerKeeps
<1>2. CASE \E p \in Instances : Crash(p)
  BY <1>2, CrashKeeps
<1>3. CASE \E t \in Probers : Probe(t)
  BY <1>3, ProbeKeeps
<1>4. CASE UNCHANGED vars
  BY <1>4 DEF vars, SlotInv, TypeOK
<1>5. QED
  BY <1>1, <1>2, <1>3, <1>4 DEF Next

THEOREM SlotInvariant == Spec => []SlotInv
BY SlotInitially, SlotInductive, PTL DEF Spec

\* An instance computes only under its own lock (worker._run after acquire).
THEOREM OneInstanceComputes == Spec => []ComputesWithLock
<1>1. SlotInv => ComputesWithLock
  BY DEF SlotInv, ComputesWithLock
<1>2. QED
  BY <1>1, SlotInvariant, PTL

\* Whoever has the file locked is on the way to unlock it (slot_lock.release,
\* the finally branch of held_by_other).
THEOREM SlotIsNeverLost == Spec => []LockHasOwner
<1>1. SlotInv => LockHasOwner
  BY DEF SlotInv, LockHasOwner, TypeOK, RunnerPoints
<1>2. QED
  BY <1>1, SlotInvariant, PTL

\* A job never goes back to 'queued' because its own server was just asked whether
\* the other instance computes: a probe keeps the mutex while it has the file locked
\* (held_by_other, acquire).
THEOREM OwnProbeIsInvisible == Spec => NotRefusedByOwnProbe
<1> DEFINE Refuses == \A p \in Instances, t \in Probers :
                        pc[p] = "try" /\ pc'[p] = "wait" /\ HomeOf[t] = p => owner # t
<1>1. SlotInv /\ [Next]_vars => Refuses
  <2> SUFFICES ASSUME SlotInv, [Next]_vars, NEW p \in Instances, NEW t \in Probers,
                      pc[p] = "try", pc'[p] = "wait", HomeOf[t] = p
               PROVE  owner # t
    OBVIOUS
  <2>a. pc \in [Holders -> RunnerPoints \cup ProberPoints] /\ p \in Holders /\ p # Nobody
    BY SlotConstantsOK DEF SlotInv, TypeOK, Holders
  <2>b. owner = t => mutex[p] = t /\ t # Nobody
    BY SlotConstantsOK DEF SlotInv, Holders
  <2>1. ASSUME NEW q \in Instances, Run(q) PROVE owner # t
    <3>1. CASE TryRefused(q)
      <4>1. q = p /\ mutex[q] = Nobody
        BY <2>a, <3>1 DEF TryRefused, Goto, Holders
      <4>2. QED
        BY <2>b, <4>1
    <3>2. CASE Begin(q) \/ TryAcquire(q) \/ Leave(q) \/ ReleaseNothing(q)
               \/ ReleaseUnlock(q) \/ ReleaseClose(q)
      BY <2>a, <3>2 DEF Begin, TryAcquire, Leave, ReleaseNothing, ReleaseUnlock,
                        ReleaseClose, Goto, Holders
    <3>3. QED
      BY <2>1, <3>1, <3>2 DEF Run
  <2>2. ASSUME NEW q \in Instances, Crash(q) PROVE owner # t
    BY <2>2, <2>a DEF Crash, Holders
  <2>3. ASSUME NEW u \in Probers, Probe(u) PROVE owner # t
    BY <2>3, <2>a DEF Probe, ProbeLook, ProbeLock, ProbeBusy, ProbeUnlock, Goto, Holders
  <2>4. CASE UNCHANGED vars
    BY <2>4 DEF vars
  <2>5. QED
    BY <2>1, <2>2, <2>3, <2>4 DEF Next
<1>2. QED
  BY <1>1, SlotInvariant, PTL DEF Spec, NotRefusedByOwnProbe

\* Whose lock the file has, and that this is whose turn it is.
lockedBy == IF owner \in Instances THEN owner ELSE Nobody

LEMMA LockedByComputes == SlotInv => holderOf = lockedBy
<1> SUFFICES ASSUME SlotInv PROVE holderOf = lockedBy
  OBVIOUS
<1>1. \A p \in Instances : Computes(p) <=> owner = p
  BY DEF SlotInv, TypeOK, RunnerPoints, Computes
<1>2. CASE owner \in Instances
  <2>1. \A p \in Instances : Computes(p) <=> p = owner
    BY <1>1
  <2>2. (CHOOSE p \in Instances : Computes(p)) = owner
    BY <1>2, <2>1
  <2>3. QED
    BY <1>2, <2>1, <2>2 DEF holderOf, lockedBy
<1>3. CASE owner \notin Instances
  BY <1>1, <1>3 DEF holderOf, lockedBy
<1>4. QED
  BY <1>2, <1>3

Takes(p) == lockedBy = Nobody /\ lockedBy' = p
Drops(p) == lockedBy = p /\ lockedBy' = Nobody

\* A runner's step takes, drops or leaves the lock.
LEMMA RunnerImplements ==
  ASSUME SlotInv, NEW p \in Instances, Run(p)
  PROVE Takes(p) \/ Drops(p) \/ UNCHANGED lockedBy
<1> USE SlotConstantsOK DEF lockedBy, Holders
<1>1. CASE TryAcquire(p)
  BY <1>1 DEF TryAcquire, Takes, SlotInv, TypeOK
<1>2. CASE ReleaseUnlock(p)
  BY <1>2 DEF ReleaseUnlock, Drops, SlotInv
<1>3. CASE Begin(p) \/ TryRefused(p) \/ Leave(p) \/ ReleaseNothing(p) \/ ReleaseClose(p)
  BY <1>3 DEF Begin, TryRefused, Leave, ReleaseNothing, ReleaseClose
<1>4. QED
  BY <1>1, <1>2, <1>3 DEF Run

LEMMA ProbeStutters ==
  ASSUME SlotInv, NEW t \in Probers, Probe(t) PROVE UNCHANGED lockedBy
<1> USE SlotConstantsOK DEF lockedBy, Holders
<1>1. CASE ProbeLock(t)
  BY <1>1 DEF ProbeLock
<1>2. CASE ProbeUnlock(t)
  BY <1>2 DEF ProbeUnlock, SlotInv
<1>3. CASE ProbeLook(t) \/ ProbeBusy(t)
  BY <1>3 DEF ProbeLook, ProbeBusy
<1>4. QED
  BY <1>1, <1>2, <1>3 DEF Probe

LEMMA CrashImplements ==
  ASSUME SlotInv, NEW p \in Instances, Crash(p)
  PROVE Drops(p) \/ UNCHANGED lockedBy
BY SlotConstantsOK DEF lockedBy, Holders, Crash, Drops, SlotInv, TypeOK

\* The lock file, the descriptor and the mutex implement the abstract slot.
THEOREM SlotRefinement == Spec => ImplementsSlotMutex
<1>1. Init => Slot!Init
  BY DEF Init, Slot!Init, holderOf, Computes, Holders
<1>2. (SlotInv => holderOf = lockedBy)'
  BY LockedByComputes, PTL
<1>3. SlotInv /\ SlotInv' /\ [Next]_vars => [Slot!Next]_holderOf
  <2> SUFFICES ASSUME SlotInv, SlotInv', [Next]_vars PROVE [Slot!Next]_holderOf
    OBVIOUS
  <2>1. holderOf = lockedBy /\ holderOf' = lockedBy'
    BY <1>2, LockedByComputes
  <2>2. (\E p \in Instances : Takes(p) \/ Drops(p)) \/ UNCHANGED lockedBy
    <3>1. CASE \E p \in Instances : Run(p)
      BY <3>1, RunnerImplements
    <3>2. CASE \E p \in Instances : Crash(p)
      BY <3>2, CrashImplements
    <3>3. CASE \E t \in Probers : Probe(t)
      BY <3>3, ProbeStutters
    <3>4. CASE UNCHANGED vars
      BY <3>4 DEF vars, lockedBy
    <3>5. QED
      BY <3>1, <3>2, <3>3, <3>4 DEF Next
  <2>3. QED
    BY <2>1, <2>2 DEF Takes, Drops, Slot!Next, Slot!Take, Slot!Drop
<1>4. QED
  BY <1>1, <1>3, SlotInvariant, PTL DEF Spec, ImplementsSlotMutex, Slot!Spec

-----------------------------------------------------------------------------
(* The parts do not touch each other. *)

LEMMA CacheSteps ==
  ASSUME [MCNext]_<<vars, cacheVars, osmVars, part>>
  PROVE  [Cache!Next]_(Cache!vars)
<1>1. UNCHANGED cacheVars => UNCHANGED Cache!vars
  BY DEF cacheVars, Cache!vars, Cache!cache
<1>2. QED
  BY <1>1 DEF MCNext

LEMMA OsmSteps ==
  ASSUME [MCNext]_<<vars, cacheVars, osmVars, part>>
  PROVE  [Osm!Next]_(Osm!vars)
<1>1. UNCHANGED osmVars => UNCHANGED Osm!vars
  BY DEF osmVars, Osm!vars
<1>2. QED
  BY <1>1 DEF MCNext

\* The tiles of this module are tiles.
LEMMA TilesOK == Osm!ConstantsOK
<1> DEFINE T == {"way", "node", "relation"}
<1>1. TileContents \in Seq(SUBSET Osm!Elements) /\ TileContents # <<>>
  BY DEF TileContents, Osm!Elements, Osm!Tiles
<1>2. Osm!Elements = TileContents[1] \cup TileContents[2]
  BY DEF Osm!Elements, Osm!Tiles, TileContents
<1>3. Osm!Elements = {OsmElement("way", 1, 1), OsmElement("relation", 2, 2),
                      OsmElement("node", 3, 3), OsmElement("node", 4, 3)}
  BY <1>2 DEF TileContents
<1>4. \A e \in Osm!Elements : e.type \in T /\ e.id \in Nat /\ e.tags \in Nat
  BY <1>3 DEF OsmElement
<1>5. \A e, f \in Osm!Elements : e.type = f.type /\ e.id = f.id => e = f
  BY <1>3 DEF OsmElement
<1>6. QED
  BY <1>1, <1>4, <1>5 DEF Osm!ConstantsOK

-----------------------------------------------------------------------------
(* The theorems about the downloads. *)

\* The variables of both downloads keep their types.
THEOREM DownloadTypes == MCSpec => []DownloadsTypeOK
<1>1. MCInit => Cache!TypeOK /\ Osm!OsmInv
  BY PeersAndVersionsOK, TilesOK, Cache!TypeInit, Osm!OsmInit DEF MCInit
<1>2. ASSUME Cache!TypeOK, Osm!OsmInv, [MCNext]_<<vars, cacheVars, osmVars, part>>
      PROVE  Cache!TypeOK' /\ Osm!OsmInv'
  BY <1>2, PeersAndVersionsOK, TilesOK, CacheSteps, OsmSteps, Cache!TypeStep, Osm!OsmStep
<1>3. Cache!TypeOK /\ Osm!OsmInv => DownloadsTypeOK
  BY DEF DownloadsTypeOK, Osm!OsmInv
<1>4. QED
  BY <1>1, <1>2, <1>3, PTL DEF MCSpec

\* No sheet is noted as of a version newer than its content, which the check for
\* updates would believe for ever (_remote_is_newer, _note_remote_state and the order of
\* writes in the download of a sheet); unless a kill or an error of the disk hits at a
\* point of AtRisk, see there.
THEOREM NoUpdateIsMissed ==
  ASSUME ~HitAnywhere PROVE MCSpec => []NeverBelievesNewer
<1>1. MCInit => Cache!SheetInv
  BY PeersAndVersionsOK, Cache!SheetInit DEF MCInit
<1>2. ASSUME Cache!SheetInv, [MCNext]_<<vars, cacheVars, osmVars, part>>
      PROVE  Cache!SheetInv'
  BY <1>2, PeersAndVersionsOK, CacheSteps, Cache!SheetStep
<1>3. Cache!SheetInv => NeverBelievesNewer
  BY DEF NeverBelievesNewer, Cache!SheetInv
<1>4. QED
  BY <1>1, <1>2, <1>3, PTL DEF MCSpec

\* Unless a kill or an error of the disk hits at a point of AtRisk, see there, a job
\* works with whole sheets and crops, with the points of the sheets it took, with the
\* surfaces of these points, and its metadata name what it used.
THEOREM JobsUseWhatTheyRecord ==
  ASSUME ~HitAnywhere
  PROVE  MCSpec => [](/\ SheetWhole /\ CropOfCurrentSheet
                      /\ SurfacesFitCrop /\ NewlyRecordedIsUsed)
<1>1. MCInit => Cache!SurfInv
  BY PeersAndVersionsOK, Cache!SurfInit DEF MCInit
<1>2. ASSUME Cache!SurfInv, [MCNext]_<<vars, cacheVars, osmVars, part>>
      PROVE  Cache!SurfInv'
  BY <1>2, PeersAndVersionsOK, CacheSteps, Cache!SurfStep
<1>3. Cache!SurfInv => /\ SheetWhole /\ CropOfCurrentSheet
                       /\ SurfacesFitCrop /\ NewlyRecordedIsUsed
  BY DEF Cache!SurfInv, Cache!SheetInv, Cache!PartsOfJobs, Cache!SheetWhole,
         SheetWhole, CropOfCurrentSheet, SurfacesFitCrop, NewlyRecordedIsUsed
<1>4. QED
  BY <1>1, <1>2, <1>3, PTL DEF MCSpec

\* Only whole OSM responses are cached; and a job without an issue in the log has each
\* element of its area, and once, unless a tile came from the map API, which leaves out
\* the relations and logs no issue.
THEOREM OsmIsWhole == MCSpec => [](CachedIsWhole /\ QuietResultIsWhole)
<1>1. MCInit => Osm!OsmInv
  BY TilesOK, Osm!OsmInit DEF MCInit
<1>2. ASSUME Osm!OsmInv, [MCNext]_<<vars, cacheVars, osmVars, part>>
      PROVE  Osm!OsmInv'
  BY <1>2, TilesOK, OsmSteps, Osm!OsmStep
<1>3. Osm!OsmInv => CachedIsWhole /\ QuietResultIsWhole
  BY DEF Osm!OsmInv, CachedIsWhole, QuietResultIsWhole
<1>4. QED
  BY <1>1, <1>2, <1>3, PTL DEF MCSpec
=============================================================================
