----------------------------- MODULE OsmDownload -----------------------------
(***************************************************************************)
(* The OSM data of one area (pipeline/osm_paths.py): a thread of the job   *)
(* (start_osm_prefetch) takes them from the cache or fetches them tile by  *)
(* tile.  Each tile is tried in rounds; a round asks the Overpass mirrors  *)
(* one after the other and then the map API, which knows no relations and  *)
(* gives an element another key.  Jobs of the same area follow one         *)
(* another, and each may be killed.                                        *)
(***************************************************************************)
EXTENDS Naturals, Sequences

CONSTANTS
  Mirrors,   \* how many Overpass mirrors there are, in the order of preference
  Contents,  \* sequence: the elements [type, id, tags] of each tile
  Rounds     \* OSM_FETCH_ROUNDS

Tiles == DOMAIN Contents
Elements == UNION {Contents[t] : t \in Tiles}

\* Type and number tell the elements of OSM apart.
ConstantsOK ==
  /\ Mirrors \in Nat \ {0} /\ Rounds \in Nat \ {0}
  /\ Contents \in Seq(SUBSET Elements) /\ Contents # <<>>
  /\ \A e \in Elements :
       e.type \in {"way", "node", "relation"} /\ e.id \in Nat /\ e.tags \in Nat
  /\ \A e, f \in Elements : e.type = f.type /\ e.id = f.id => e = f

VARIABLES
  pc,        \* "idle", "look", "round", "mirrors", "api", "merged", "have", "raised", "given"
  force,     \* force_refresh of the job
  tile, attempt,
  todo,      \* the mirrors that are still to be asked in this round: first those
             \*   that were healthy when it began, then those that were cooling
  cooling,   \* _MIRROR_FAILED_AT: mirrors that failed in the last five minutes
  failed,    \* number of tiles that no source gave
  fallback,  \* status["fallback"]
  merged,    \* elements collected so far, each with its key and its tile
  cache,     \* the cached response of the area, {} if there is none
  told       \* the job has logged an issue

vars == <<pc, force, tile, attempt, todo, cooling, failed, fallback, merged, cache, told>>

\* _osm_element_key: Overpass numbers its elements; the map API gives ways the
\* number as text, and nodes none, so that their tags are the key.
Key(e, source) ==
  CASE source = "overpass" -> [type |-> e.type, by |-> "number", is |-> e.id]
    [] source = "api" /\ e.type = "way" -> [type |-> "way", by |-> "text", is |-> e.id]
    [] OTHER -> [type |-> e.type, by |-> "tags", is |-> e.tags]

\* What a source gives of a tile.
Given(t, source) ==
  IF source = "overpass" THEN Contents[t] ELSE {e \in Contents[t] : e.type # "relation"}

Item(e, source, t) == [el |-> e, key |-> Key(e, source), tile |-> t]

\* Mutant of Merge: elements that are there already are added again.
MergeAll(t, source) == merged \cup {Item(e, source, t) : e \in Given(t, source)}

\* The elements of a tile whose keys are not there yet are added, one for each key.
Merge(t, source) ==
  LET Keys == {Key(e, source) : e \in Given(t, source)}
      One(k) == CHOOSE e \in Given(t, source) : Key(e, source) = k
  IN merged \cup {Item(One(k), source, t) : k \in Keys \ {x.key : x \in merged}}

\* Mirrors that failed lately are asked last.
MirrorOrder == [healthy |-> (1..Mirrors) \ cooling, cooled |-> cooling]

Asked(m) ==
  \/ m \in todo.healthy /\ \A n \in todo.healthy : m <= n
  \/ todo.healthy = {} /\ m \in todo.cooled /\ \A n \in todo.cooled : m <= n

NoMirrors == [healthy |-> {}, cooled |-> {}]

-----------------------------------------------------------------------------
Init ==
  /\ pc = "idle" /\ force = FALSE
  /\ tile = 1 /\ attempt = 1
  /\ todo = NoMirrors /\ cooling = {}
  /\ failed = 0 /\ fallback = FALSE /\ merged = {}
  /\ cache = {} /\ told = FALSE

\* A job starts the download; its process knows nothing of mirrors yet.
Begin ==
  /\ pc \in {"idle", "given"} /\ pc' = "look"
  /\ force' \in BOOLEAN
  /\ tile' = 1 /\ attempt' = 1 /\ todo' = NoMirrors /\ cooling' = {}
  /\ failed' = 0 /\ fallback' = FALSE /\ merged' = {} /\ told' = FALSE
  /\ UNCHANGED cache

\* A response that is not older than PODKLADARNA_OSM_CACHE_HOURS.
CacheHit ==
  /\ pc = "look" /\ cache # {} /\ ~force
  /\ merged' = cache /\ pc' = "have"
  /\ UNCHANGED <<force, tile, attempt, todo, cooling, failed, fallback, cache, told>>

\* No response, an expired one, or one that is not to be used.
CacheMiss ==
  /\ pc = "look" /\ pc' = "round"
  /\ UNCHANGED <<force, tile, attempt, todo, cooling, failed, fallback, merged, cache, told>>

\* The order of the mirrors is settled for the round.
BeginRound ==
  /\ pc = "round" /\ pc' = "mirrors"
  /\ todo' = MirrorOrder
  /\ UNCHANGED <<force, tile, attempt, cooling, failed, fallback, merged, cache, told>>

\* Five minutes later a mirror is as good as any.
CoolDown ==
  /\ \E m \in cooling : cooling' = cooling \ {m}
  /\ UNCHANGED <<pc, force, tile, attempt, todo, failed, fallback, merged, cache, told>>

NextTile ==
  IF tile < Len(Contents)
  THEN tile' = tile + 1 /\ attempt' = 1 /\ pc' = "round"
  ELSE pc' = "merged" /\ UNCHANGED <<tile, attempt>>

\* An answer that is accepted is taken to have every element: a server that leaves
\* the list out, or nulls in it, is not told from one that has no more.
MirrorAnswers(m) ==
  /\ pc = "mirrors" /\ Asked(m)
  /\ merged' = Merge(tile, "overpass")
  /\ cooling' = cooling \ {m}
  /\ NextTile
  /\ UNCHANGED <<force, todo, failed, fallback, cache, told>>

\* An HTTP error, a timeout, a body that is no object, or a "runtime error".
MirrorFails(m) ==
  /\ pc = "mirrors" /\ Asked(m)
  /\ cooling' = cooling \cup {m}
  /\ todo' = [healthy |-> todo.healthy \ {m}, cooled |-> todo.cooled \ {m}]
  /\ pc' = IF todo' = NoMirrors THEN "api" ELSE "mirrors"
  /\ UNCHANGED <<force, tile, attempt, failed, fallback, merged, cache, told>>

ApiAnswers ==
  /\ pc = "api"
  /\ merged' = Merge(tile, "api")
  /\ fallback' = TRUE
  /\ NextTile
  /\ UNCHANGED <<force, todo, cooling, failed, cache, told>>

\* After the last round the tile has failed; the others are fetched all the same.
ApiFails ==
  /\ pc = "api"
  /\ IF attempt < Rounds
     THEN attempt' = attempt + 1 /\ pc' = "round" /\ UNCHANGED <<tile, failed>>
     ELSE failed' = failed + 1 /\ NextTile
  /\ UNCHANGED <<force, todo, cooling, fallback, merged, cache, told>>

\* A connection that breaks within the body (IncompleteRead) is none of the
\* errors that are caught: it ends the whole download.
ConnectionCut ==
  /\ pc \in {"mirrors", "api"} /\ pc' = "raised"
  /\ UNCHANGED <<force, tile, attempt, todo, cooling, failed, fallback, merged, cache, told>>

\* Mutant of Complete: what the map API gave is taken for complete.
CompleteIfFetched == failed = 0

Complete == failed = 0 /\ ~fallback

\* The file is written beside the old one and takes its place at once.
Store ==
  /\ pc = "merged" /\ pc' = "have"
  /\ cache' = IF merged # {} /\ Complete THEN merged ELSE cache
  /\ told' = (told \/ failed > 0)
  /\ UNCHANGED <<force, tile, attempt, todo, cooling, failed, fallback, merged>>

\* The file cannot be written (OSError): the job goes on without.
StoreFails ==
  /\ pc = "merged" /\ pc' = "have"
  /\ told' = (told \/ failed > 0)
  /\ UNCHANGED <<force, tile, attempt, todo, cooling, failed, fallback, merged, cache>>

\* prepare_osm_paths takes the result of the thread; an error of it is an issue
\* of the job, which goes on without OSM.
TakeResult ==
  /\ \/ pc = "have" /\ UNCHANGED <<merged, told>>
     \/ pc = "raised" /\ merged' = {} /\ told' = TRUE
  /\ pc' = "given"
  /\ UNCHANGED <<force, tile, attempt, todo, cooling, failed, fallback, cache>>

\* The process of the job is killed; the cache stays.
Kill ==
  /\ pc \notin {"idle", "given"} /\ pc' = "idle"
  /\ UNCHANGED <<force, tile, attempt, todo, cooling, failed, fallback, merged, cache, told>>

Next ==
  \/ Begin \/ CacheHit \/ CacheMiss \/ BeginRound \/ CoolDown
  \/ \E m \in 1..Mirrors : MirrorAnswers(m) \/ MirrorFails(m)
  \/ ApiAnswers \/ ApiFails \/ ConnectionCut
  \/ Store \/ StoreFails \/ TakeResult \/ Kill

Spec == Init /\ [][Next]_vars

-----------------------------------------------------------------------------
Items == [el : Elements,
          key : [type : {"way", "node", "relation"}, by : {"number", "text", "tags"}, is : Nat],
          tile : Tiles]

TypeOK ==
  /\ pc \in {"idle", "look", "round", "mirrors", "api", "merged", "have", "raised", "given"}
  /\ force \in BOOLEAN /\ fallback \in BOOLEAN /\ told \in BOOLEAN
  /\ tile \in Tiles /\ attempt \in 1..Rounds /\ failed \in 0..Len(Contents)
  /\ todo \in [healthy : SUBSET (1..Mirrors), cooled : SUBSET (1..Mirrors)]
  /\ cooling \subseteq 1..Mirrors
  /\ merged \subseteq Items /\ cache \subseteq Items

\* Every element is there, and only once.
Once(items) == \A a, b \in items : a.el = b.el => a = b
Whole(items) == {x.el : x \in items} = Elements /\ Once(items)

\* Only complete responses are cached (fetch_osm_path_elements,
\* status["complete"]): a job that was killed, a tile that failed and one that
\* came from the map API leave no cached response, or the older whole one.
CachedIsWhole == cache # {} => Whole(cache)

\* What the pipeline gets with no issue in the log is the whole area, with the
\* elements on the border of two tiles only once, from the cache or from any
\* order of failures.  Tiles from the map API are left out here.
QuietResultIsWhole == pc = "given" /\ ~told /\ ~fallback => Whole(merged)

\* "duplicita pres hranici dlazdic sloucena" (tests/test_osm_paths.py): an element
\* on the border of two tiles is drawn once, also if the tiles came from different
\* sources.
BorderElementsOnce == pc = "given" => Once(merged)

-----------------------------------------------------------------------------
\* The inductive invariant for CachedIsWhole and QuietResultIsWhole.

\* A tile fails once.
FailedFew ==
  /\ failed <= tile
  /\ pc \in {"look", "round", "mirrors", "api"} => failed < tile

\* The tiles that are done, while the map API and failures are out of it.
Done == {t \in Tiles : t < tile \/ pc = "merged"}
Quiet == ~fallback /\ failed = 0
CollectedSoFar ==
  pc \in {"look", "round", "mirrors", "api", "merged"} /\ Quiet =>
    /\ {x.el : x \in merged} = UNION {Contents[t] : t \in Done}
    /\ \A x \in merged : x.key = Key(x.el, "overpass")
    /\ Once(merged)
FetchBegins == pc = "look" => tile = 1 /\ merged = {} /\ Quiet /\ ~told
LastTile == pc = "merged" => tile = Len(Contents)

\* Failures are told when the result is there.
ToldOfResult ==
  pc = "have" /\ ~told /\ ~fallback => Whole(merged)

OsmInv ==
  /\ TypeOK /\ FailedFew /\ CollectedSoFar /\ FetchBegins /\ LastTile /\ ToldOfResult
  /\ CachedIsWhole /\ QuietResultIsWhole
=============================================================================
