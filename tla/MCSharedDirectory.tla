-------------------------- MODULE MCSharedDirectory --------------------------
(***************************************************************************)
(* What the instances on one machine share: the slot (SharedSlot, which    *)
(* this module extends) and the directory of downloads, with LiDAR data    *)
(* (DownloadCache) and OSM data (OsmDownload).  The downloads see of the   *)
(* slot only what SlotMutex says of it, which SharedSlot is shown to       *)
(* implement, and nothing of each other; so each behaviour explores one    *)
(* part, while the others stay in their initial states.  The downloads are *)
(* taken with their theorems, which MCSharedDirectory_proofs cites.        *)
(***************************************************************************)
EXTENDS SharedSlot, TLC

CONSTANTS
  Peers,   \* the instances, where they are all alike
  None, MaxVer, HitAnywhere, MaxEvents

VARIABLES
  part,   \* which part this behaviour explores
  holder, remote, sheet, seen, stored, crops, aoi, surf, job, events,
  osmPc, force, tile, attempt, todo, cooling, failed, fallback, merged, response, told

cacheVars == <<holder, remote, sheet, seen, stored, crops, aoi, surf, job, events>>

Cache == INSTANCE DownloadCache_proofs WITH Instances <- Peers

ASSUME PeersAndVersionsOK == Cache!ConstantsOK

osmVars == <<osmPc, force, tile, attempt, todo, cooling, failed, fallback, merged, response, told>>

\* A way that crosses the border of two tiles, a relation in the first tile, and
\* two nodes with the same tags in the second.
OsmElement(type, id, tags) == [type |-> type, id |-> id, tags |-> tags]
TileContents ==
  << {OsmElement("way", 1, 1), OsmElement("relation", 2, 2)},
     {OsmElement("way", 1, 1), OsmElement("node", 3, 3), OsmElement("node", 4, 3)} >>

Osm == INSTANCE OsmDownload_proofs
         WITH Mirrors <- 2, Contents <- TileContents, Rounds <- 3,
              pc <- osmPc, cache <- response

Sym == Permutations(Peers)

\* The first prober belongs to the first instance, all others to the second.
HomeOfFirst == LET t == CHOOSE t \in Probers : TRUE
                   p == CHOOSE p \in Instances : TRUE
               IN [u \in Probers |-> IF u = t THEN p ELSE CHOOSE q \in Instances : q # p]

MCInit == Init /\ Cache!Init /\ Osm!Init /\ part \in {"slot", "cache", "osm"}

MCNext ==
  \/ part = "slot" /\ Next /\ UNCHANGED <<cacheVars, osmVars, part>>
  \/ part = "cache" /\ Cache!Next /\ UNCHANGED <<vars, osmVars, part>>
  \/ part = "osm" /\ Osm!Next /\ UNCHANGED <<vars, cacheVars, part>>

MCSpec == MCInit /\ [][MCNext]_<<vars, cacheVars, osmVars, part>>

-----------------------------------------------------------------------------
\* The properties of DownloadCache and OsmDownload, see there.

\* The variables of both downloads have their types.
DownloadsTypeOK == Cache!TypeOK /\ Osm!TypeOK
\* A job works only with completely extracted sheets and whole crops.
SheetWhole == Cache!SheetWhole
\* No file is noted as of a version newer than its content.
NeverBelievesNewer == Cache!NeverBelievesNewer
\* A job that crops has the points of the sheets it downloaded or checked.
CropOfCurrentSheet == Cache!CropOfCurrentSheet
\* The elevation model is that of the job's terrain points, and whole.
SurfacesFitCrop == Cache!SurfacesFitCrop
\* The metadata of a job that cropped name the surface model it used.
NewlyRecordedIsUsed == Cache!NewlyRecordedIsUsed
\* Only complete OSM responses are cached.
CachedIsWhole == Osm!CachedIsWhole
\* Without an issue in the log, and without a tile of the map API, which leaves out
\* the relations and logs no issue, a job has each OSM element of its area once.
QuietResultIsWhole == Osm!QuietResultIsWhole
\* An OSM element on the border of two tiles is drawn once.
BorderElementsOnce == Osm!BorderElementsOnce
=============================================================================
