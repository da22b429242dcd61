-------------------------- MODULE OsmDownload_proofs --------------------------
(***************************************************************************)
(* Proofs about OsmDownload: the inductive invariant OsmInv, from which    *)
(* follow CachedIsWhole and QuietResultIsWhole.  They hold for any number  *)
(* of mirrors, any tiles and any number of rounds.                         *)
(***************************************************************************)
EXTENDS OsmDownload, TLAPS

Sources == {"overpass", "api"}

-----------------------------------------------------------------------------
(* Keys and merging.                                                       *)

\* Type and number tell the elements apart that Overpass gives.
LEMMA OverpassKeys ==
  ASSUME ConstantsOK, NEW e \in Elements, NEW f \in Elements,
         Key(e, "overpass") = Key(f, "overpass")
  PROVE  e = f
<1>1. e.type = f.type /\ e.id = f.id
  BY DEF Key
<1>2. QED
  BY <1>1 DEF ConstantsOK

LEMMA TileTyped ==
  ASSUME ConstantsOK, NEW t \in Tiles
  PROVE  /\ t \in 1..Len(Contents)
         /\ Contents[t] \subseteq Elements
  BY DEF ConstantsOK, Tiles, Elements

LEMMA GivenTyped ==
  ASSUME ConstantsOK, NEW t \in Tiles, NEW s \in Sources
  PROVE  Given(t, s) \subseteq Elements
  BY TileTyped DEF Given

LEMMA ItemTyped ==
  ASSUME ConstantsOK, NEW t \in Tiles, NEW s \in Sources, NEW e \in Elements
  PROVE  Item(e, s, t) \in Items
<1>1. e.type \in {"way", "node", "relation"} /\ e.id \in Nat /\ e.tags \in Nat
  BY DEF ConstantsOK
<1>2. Key(e, s) \in [type : {"way", "node", "relation"},
                     by : {"number", "text", "tags"}, is : Nat]
  BY <1>1 DEF Key, Sources
<1>3. QED
  BY <1>2 DEF Item, Items

\* What Merge adds: an item for each key that is not there yet.
LEMMA MergeItems ==
  ASSUME NEW t, NEW s
  PROVE  /\ merged \subseteq Merge(t, s)
         /\ \A x \in Merge(t, s) : x \in merged
              \/ \E e \in Given(t, s) : /\ x = Item(e, s, t)
                                        /\ \A y \in merged : y.key # Key(e, s)
         /\ \A e \in Given(t, s) : \E x \in Merge(t, s) : x.key = Key(e, s)
         /\ \A x, y \in Merge(t, s) :
              x \notin merged /\ y \notin merged /\ x.key = y.key => x = y
<1> DEFINE Keys == {Key(e, s) : e \in Given(t, s)}
           One(k) == CHOOSE e \in Given(t, s) : Key(e, s) = k
           New == Keys \ {x.key : x \in merged}
<1>1. Merge(t, s) = merged \cup {Item(One(k), s, t) : k \in New}
  BY DEF Merge
<1>2. \A k \in Keys : One(k) \in Given(t, s) /\ Key(One(k), s) = k
  OBVIOUS
<1>3. \A k \in Keys : Item(One(k), s, t).key = k
  BY <1>2 DEF Item
<1> HIDE DEF One
<1>4. merged \subseteq Merge(t, s)
  BY <1>1
<1>5. ASSUME NEW x \in Merge(t, s), x \notin merged
      PROVE  \E e \in Given(t, s) : x = Item(e, s, t) /\ \A y \in merged : y.key # Key(e, s)
  <2>1. PICK k \in New : x = Item(One(k), s, t)
    BY <1>1, <1>5
  <2>2. k \in Keys /\ \A y \in merged : y.key # k
    OBVIOUS
  <2>3. One(k) \in Given(t, s) /\ Key(One(k), s) = k
    BY <1>2, <2>2
  <2>4. QED
    BY <2>1, <2>2, <2>3
<1>6. ASSUME NEW e \in Given(t, s)
      PROVE  \E x \in Merge(t, s) : x.key = Key(e, s)
  <2>1. Key(e, s) \in Keys
    OBVIOUS
  <2>2. CASE Key(e, s) \in New
    <3>1. Item(One(Key(e, s)), s, t) \in Merge(t, s)
      BY <1>1, <2>2
    <3>2. QED
      BY <1>3, <2>1, <3>1
  <2>3. CASE Key(e, s) \notin New
    BY <1>4, <2>1, <2>3
  <2>4. QED
    BY <2>2, <2>3
<1>7. ASSUME NEW x \in Merge(t, s), NEW y \in Merge(t, s),
             x \notin merged, y \notin merged, x.key = y.key
      PROVE  x = y
  <2>1. PICK k \in New : x = Item(One(k), s, t)
    BY <1>1, <1>7
  <2>2. PICK l \in New : y = Item(One(l), s, t)
    BY <1>1, <1>7
  <2>3. k = l
    BY <1>3, <1>7, <2>1, <2>2
  <2>4. QED
    BY <2>1, <2>2, <2>3
<1>8. QED
  BY <1>4, <1>5, <1>6, <1>7

LEMMA MergeTyped ==
  ASSUME ConstantsOK, merged \subseteq Items, NEW t \in Tiles, NEW s \in Sources
  PROVE  Merge(t, s) \subseteq Items
<1> SUFFICES ASSUME NEW x \in Merge(t, s), x \notin merged
             PROVE  x \in Items
  OBVIOUS
<1>1. PICK e \in Given(t, s) : x = Item(e, s, t)
  BY MergeItems
<1>2. QED
  BY <1>1, GivenTyped, ItemTyped

\* Once all that is collected has the keys of Overpass, a tile from Overpass adds
\* those of its elements that were not there, and each once.
LEMMA MergeCollects ==
  ASSUME ConstantsOK, merged \subseteq Items, Once(merged),
         \A x \in merged : x.key = Key(x.el, "overpass"),
         NEW t \in Tiles
  PROVE  /\ {x.el : x \in Merge(t, "overpass")} = {x.el : x \in merged} \cup Contents[t]
         /\ \A x \in Merge(t, "overpass") : x.key = Key(x.el, "overpass")
         /\ Once(Merge(t, "overpass"))
<1> DEFINE M == Merge(t, "overpass")
           G == Contents[t]
<1>1. Given(t, "overpass") = G
  BY DEF Given
<1>2. /\ merged \subseteq M
      /\ \A x \in M : x \in merged
           \/ \E e \in G : /\ x = Item(e, "overpass", t)
                           /\ \A y \in merged : y.key # Key(e, "overpass")
      /\ \A e \in G : \E x \in M : x.key = Key(e, "overpass")
      /\ \A x, y \in M : x \notin merged /\ y \notin merged /\ x.key = y.key => x = y
  BY <1>1, MergeItems
<1>3. G \subseteq Elements
  BY TileTyped
<1>4. M \subseteq Items
  BY MergeTyped DEF Sources
<1> HIDE DEF M, G
<1>5. \A x \in M : x.el \in Elements
  BY <1>4 DEF Items
<1>6. \A x \in M : x.key = Key(x.el, "overpass")
  <2> SUFFICES ASSUME NEW x \in M, x \notin merged
               PROVE  x.key = Key(x.el, "overpass")
    OBVIOUS
  <2>1. PICK e \in G : x = Item(e, "overpass", t)
    BY <1>2
  <2>2. x.el = e /\ x.key = Key(e, "overpass")
    BY <2>1 DEF Item
  <2>3. QED
    BY <2>2
<1>7. \A x \in M : x.el \in {y.el : y \in merged} \cup G
  <2> SUFFICES ASSUME NEW x \in M, x \notin merged
               PROVE  x.el \in G
    OBVIOUS
  <2>1. PICK e \in G : x = Item(e, "overpass", t)
    BY <1>2
  <2>2. QED
    BY <2>1 DEF Item
<1>8. \A e \in G : e \in {x.el : x \in M}
  <2> TAKE e \in G
  <2>1. PICK x \in M : x.key = Key(e, "overpass")
    BY <1>2
  <2>2. x.el = e
    BY <1>3, <1>5, <1>6, <2>1, OverpassKeys
  <2>3. QED
    BY <2>2
<1>9. Once(M)
  <2> SUFFICES ASSUME NEW x \in M, NEW y \in M, x.el = y.el
               PROVE  x = y
    BY DEF Once
  <2>1. x.key = y.key
    BY <1>6
  <2>2. ASSUME NEW u \in M, NEW v \in M, u \in merged, v \notin merged
        PROVE  u.key # v.key
    <3>1. PICK e \in G : /\ v = Item(e, "overpass", t)
                         /\ \A z \in merged : z.key # Key(e, "overpass")
      BY <1>2, <2>2
    <3>2. v.key = Key(e, "overpass")
      BY <3>1 DEF Item
    <3>3. QED
      BY <2>2, <3>1, <3>2
  <2>3. CASE x \in merged /\ y \in merged
    BY <2>3 DEF Once
  <2>4. CASE x \notin merged /\ y \notin merged
    BY <1>2, <2>1, <2>4
  <2>5. QED
    BY <2>1, <2>2, <2>3, <2>4
<1>10. {x.el : x \in M} = {x.el : x \in merged} \cup G
  BY <1>2, <1>7, <1>8
<1>11. QED
  BY <1>6, <1>9, <1>10 DEF M, G

\* A tile is done, whichever way it ended.
LEMMA NextTileDone ==
  ASSUME ConstantsOK, tile \in Tiles, pc # "merged", NextTile,
         pc \in {"mirrors", "api"}
  PROVE  /\ pc' \in {"round", "merged"}
         /\ tile' \in Tiles
         /\ Done' = Done \cup {tile}
         /\ pc' = "merged" => tile' = Len(Contents) /\ tile' = tile
         /\ pc' = "round" => tile' = tile + 1
<1>1. Tiles = 1..Len(Contents) /\ Len(Contents) \in Nat
  BY DEF ConstantsOK, Tiles
<1>2. CASE tile < Len(Contents)
  BY <1>1, <1>2 DEF NextTile, Done
<1>3. CASE ~(tile < Len(Contents))
  BY <1>1, <1>3 DEF NextTile, Done
<1>4. QED
  BY <1>2, <1>3

\* All tiles together are all elements.
LEMMA AllTiles ==
  ASSUME pc = "merged"
  PROVE  UNION {Contents[t] : t \in Done} = Elements
<1>1. Done = Tiles
  BY DEF Done
<1>2. QED
  BY <1>1 DEF Elements

-----------------------------------------------------------------------------
(* The initial states.                                                     *)

LEMMA OsmInit ==
  ASSUME ConstantsOK, Init
  PROVE  OsmInv
<1> USE DEF Init
<1>1. /\ Len(Contents) \in Nat \ {0} /\ Tiles = 1..Len(Contents)
      /\ 1 \in 1..Rounds
  BY DEF ConstantsOK, Tiles
<1>2. /\ tile \in Tiles /\ attempt \in 1..Rounds /\ failed \in 0..Len(Contents)
      /\ todo \in [healthy : SUBSET (1..Mirrors), cooled : SUBSET (1..Mirrors)]
  BY <1>1 DEF NoMirrors
<1>3. TypeOK
  BY <1>2 DEF TypeOK
<1>4. QED
  BY <1>3 DEF OsmInv, FailedFew, CollectedSoFar, FetchBegins, LastTile, ToldOfResult,
              CachedIsWhole, QuietResultIsWhole

-----------------------------------------------------------------------------
(* Every step keeps the invariant: what the actions do to the conjuncts.   *)

LEMMA TypeStep ==
  ASSUME ConstantsOK, TypeOK, FailedFew, [Next]_vars
  PROVE  TypeOK'
<1>0. Len(Contents) \in Nat \ {0} /\ Tiles = 1..Len(Contents) /\ 1 \in 1..Rounds
  BY DEF ConstantsOK, Tiles
<1> USE DEF TypeOK
<1>1. CASE Begin
  <2>1. tile' \in Tiles /\ attempt' \in 1..Rounds /\ failed' \in 0..Len(Contents)
    BY <1>0, <1>1 DEF Begin
  <2>2. todo' \in [healthy : SUBSET (1..Mirrors), cooled : SUBSET (1..Mirrors)]
    BY <1>1 DEF Begin, NoMirrors
  <2>3. QED
    BY <1>1, <2>1, <2>2 DEF Begin
<1>2. CASE CacheHit
  BY <1>2 DEF CacheHit
<1>3. CASE CacheMiss
  BY <1>3 DEF CacheMiss
<1>4. CASE BeginRound
  BY <1>4 DEF BeginRound, MirrorOrder
<1>5. CASE CoolDown
  BY <1>5 DEF CoolDown
<1>6. ASSUME NEW m \in 1..Mirrors, MirrorAnswers(m)
      PROVE  TypeOK'
  <2>1. merged' \subseteq Items
    BY <1>6, MergeTyped DEF MirrorAnswers, Sources
  <2>2. pc' \in {"round", "merged"} /\ tile' \in Tiles
    BY <1>6, NextTileDone DEF MirrorAnswers
  <2>3. attempt' \in 1..Rounds
    BY <1>0, <1>6 DEF MirrorAnswers, NextTile
  <2>4. QED
    BY <1>6, <2>1, <2>2, <2>3 DEF MirrorAnswers
<1>7. ASSUME NEW m \in 1..Mirrors, MirrorFails(m)
      PROVE  TypeOK'
  <2>1. todo' \in [healthy : SUBSET (1..Mirrors), cooled : SUBSET (1..Mirrors)]
    BY <1>7 DEF MirrorFails
  <2>2. pc' \in {"api", "mirrors"} /\ cooling' \subseteq 1..Mirrors
    BY <1>7 DEF MirrorFails
  <2>3. UNCHANGED <<force, tile, attempt, failed, fallback, merged, cache, told>>
    BY <1>7 DEF MirrorFails
  <2>4. QED
    BY <2>1, <2>2, <2>3
<1>8. CASE ApiAnswers
  <2>1. merged' \subseteq Items
    BY <1>8, MergeTyped DEF ApiAnswers, Sources
  <2>2. pc' \in {"round", "merged"} /\ tile' \in Tiles
    BY <1>8, NextTileDone DEF ApiAnswers
  <2>3. attempt' \in 1..Rounds
    BY <1>0, <1>8 DEF ApiAnswers, NextTile
  <2>4. QED
    BY <1>8, <2>1, <2>2, <2>3 DEF ApiAnswers
<1>9. CASE ApiFails
  <2>1. CASE attempt < Rounds
    <3>1. attempt' \in 1..Rounds
      BY <1>9, <2>1 DEF ApiFails, ConstantsOK
    <3>2. QED
      BY <1>9, <2>1, <3>1 DEF ApiFails
  <2>2. CASE ~(attempt < Rounds)
    <3>1. NextTile /\ pc = "api" /\ failed' = failed + 1
      BY <1>9, <2>2 DEF ApiFails
    <3>2. pc' \in {"round", "merged"} /\ tile' \in Tiles
      BY <3>1, NextTileDone
    <3>3. attempt' \in 1..Rounds
      BY <1>0, <3>1 DEF NextTile
    <3>4. failed' \in 0..Len(Contents)
      BY <1>0, <3>1 DEF FailedFew
    <3>5. QED
      BY <1>9, <3>2, <3>3, <3>4 DEF ApiFails
  <2>3. QED
    BY <2>1, <2>2
<1>10. CASE ConnectionCut
  BY <1>10 DEF ConnectionCut
<1>11. CASE Store
  BY <1>11 DEF Store
<1>12. CASE StoreFails
  BY <1>12 DEF StoreFails
<1>13. CASE TakeResult
  BY <1>13 DEF TakeResult
<1>14. CASE Kill
  BY <1>14 DEF Kill
<1>15. CASE UNCHANGED vars
  BY <1>15 DEF vars
<1>16. QED
  BY <1>1, <1>2, <1>3, <1>4, <1>5, <1>6, <1>7, <1>8, <1>9, <1>10, <1>11, <1>12,
     <1>13, <1>14, <1>15 DEF Next

\* The counts: a tile fails once, and the last tile is the last.
LEMMA CountStep ==
  ASSUME ConstantsOK, TypeOK, FailedFew, LastTile, [Next]_vars
  PROVE  FailedFew' /\ LastTile'
<1>0. tile \in 1..Len(Contents) /\ Len(Contents) \in Nat /\ failed \in Nat
  BY DEF ConstantsOK, Tiles, TypeOK
<1> USE DEF FailedFew, LastTile
<1>1. CASE Begin
  BY <1>1 DEF Begin
<1>2. CASE CacheHit \/ CacheMiss \/ BeginRound \/ CoolDown
  BY <1>2 DEF CacheHit, CacheMiss, BeginRound, CoolDown
<1>3. ASSUME NEW m \in 1..Mirrors, MirrorAnswers(m)
      PROVE  FailedFew' /\ LastTile'
  BY <1>0, <1>3 DEF MirrorAnswers, NextTile
<1>4. ASSUME NEW m \in 1..Mirrors, MirrorFails(m)
      PROVE  FailedFew' /\ LastTile'
  <2>1. pc = "mirrors" /\ pc' \in {"api", "mirrors"} /\ UNCHANGED <<tile, failed>>
    BY <1>4 DEF MirrorFails
  <2>2. QED
    BY <2>1
<1>5. CASE ApiAnswers
  BY <1>0, <1>5 DEF ApiAnswers, NextTile
<1>6. CASE ApiFails
  <2>1. CASE attempt < Rounds
    BY <1>6, <2>1 DEF ApiFails
  <2>2. CASE ~(attempt < Rounds)
    BY <1>0, <1>6, <2>2 DEF ApiFails, NextTile
  <2>3. QED
    BY <2>1, <2>2
<1>7. CASE ConnectionCut \/ Store \/ StoreFails \/ TakeResult \/ Kill
  BY <1>7 DEF ConnectionCut, Store, StoreFails, TakeResult, Kill
<1>8. CASE UNCHANGED vars
  BY <1>8 DEF vars
<1>9. QED
  BY <1>1, <1>2, <1>3, <1>4, <1>5, <1>6, <1>7, <1>8 DEF Next

LEMMA BeginningStep ==
  ASSUME FetchBegins, [Next]_vars
  PROVE  FetchBegins'
<1> USE DEF FetchBegins
<1>1. CASE Begin
  BY <1>1 DEF Begin, Quiet
<1>2. CASE CacheHit \/ CacheMiss \/ BeginRound \/ ApiAnswers \/ ApiFails
  BY <1>2 DEF CacheHit, CacheMiss, BeginRound, ApiAnswers, ApiFails, NextTile
<1>3. CASE CoolDown
  BY <1>3 DEF CoolDown, Quiet
<1>4. ASSUME NEW m \in 1..Mirrors, MirrorAnswers(m) \/ MirrorFails(m)
      PROVE  FetchBegins'
  <2>1. pc' # "look"
    BY <1>4 DEF MirrorAnswers, MirrorFails, NextTile
  <2>2. QED
    BY <2>1
<1>5. CASE ConnectionCut \/ Store \/ StoreFails \/ TakeResult \/ Kill
  BY <1>5 DEF ConnectionCut, Store, StoreFails, TakeResult, Kill
<1>6. CASE UNCHANGED vars
  BY <1>6 DEF vars, Quiet
<1>7. QED
  BY <1>1, <1>2, <1>3, <1>4, <1>5, <1>6 DEF Next

\* Steps that neither add elements nor finish a tile leave what is collected.
LEMMA SameCollected ==
  ASSUME CollectedSoFar, UNCHANGED <<tile, failed, fallback, merged>>,
         pc # "merged", pc \in {"look", "round", "mirrors", "api"},
         pc' # "merged"
  PROVE  CollectedSoFar'
<1>1. Done' = Done /\ Quiet' = Quiet
  BY DEF Done, Quiet
<1>2. QED
  BY <1>1 DEF CollectedSoFar, Once

LEMMA CollectStep ==
  ASSUME ConstantsOK, TypeOK, FailedFew, CollectedSoFar, [Next]_vars
  PROVE  CollectedSoFar'
<1>0. Tiles = 1..Len(Contents) /\ Len(Contents) \in Nat
  BY DEF ConstantsOK, Tiles
<1>1. CASE Begin
  <2>1. pc' = "look" /\ tile' = 1 /\ merged' = {}
    BY <1>1 DEF Begin
  <2>2. Done' = {}
    BY <1>0, <2>1 DEF Done
  <2>3. QED
    BY <2>1, <2>2 DEF CollectedSoFar, Once
<1>2. CASE CacheMiss \/ BeginRound
  BY <1>2, SameCollected DEF CacheMiss, BeginRound
<1>3. CASE CoolDown
  <2>1. Done' = Done /\ Quiet' = Quiet
    BY <1>3 DEF CoolDown, Done, Quiet
  <2>2. QED
    BY <1>3, <2>1 DEF CoolDown, CollectedSoFar, Once
<1>4. ASSUME NEW m \in 1..Mirrors, MirrorAnswers(m)
      PROVE  CollectedSoFar'
  <2>1. /\ pc = "mirrors" /\ merged' = Merge(tile, "overpass") /\ NextTile
        /\ UNCHANGED <<failed, fallback>>
    BY <1>4 DEF MirrorAnswers
  <2>2. pc' \in {"round", "merged"} /\ Done' = Done \cup {tile}
    BY <2>1, NextTileDone DEF TypeOK
  <2> SUFFICES ASSUME Quiet
               PROVE  /\ {x.el : x \in merged'} = UNION {Contents[t] : t \in Done'}
                      /\ \A x \in merged' : x.key = Key(x.el, "overpass")
                      /\ Once(merged')
    BY <2>1 DEF CollectedSoFar, Quiet, Once
  <2>3. /\ {x.el : x \in merged} = UNION {Contents[t] : t \in Done}
        /\ \A x \in merged : x.key = Key(x.el, "overpass")
        /\ Once(merged)
    BY <2>1 DEF CollectedSoFar
  <2>4. /\ {x.el : x \in merged'} = {x.el : x \in merged} \cup Contents[tile]
        /\ \A x \in merged' : x.key = Key(x.el, "overpass")
        /\ Once(merged')
    BY <2>1, <2>3, MergeCollects DEF TypeOK
  <2>5. UNION {Contents[t] : t \in Done'} = (UNION {Contents[t] : t \in Done}) \cup Contents[tile]
    BY <2>2
  <2>6. QED
    BY <2>3, <2>4, <2>5
<1>5. ASSUME NEW m \in 1..Mirrors, MirrorFails(m)
      PROVE  CollectedSoFar'
  <2>1. /\ pc = "mirrors" /\ pc' \in {"api", "mirrors"}
        /\ UNCHANGED <<tile, failed, fallback, merged>>
    BY <1>5 DEF MirrorFails
  <2>2. QED
    BY <2>1, SameCollected
<1>6. CASE ApiAnswers
  BY <1>6 DEF ApiAnswers, CollectedSoFar, Quiet
<1>7. CASE ApiFails
  <2>1. CASE attempt < Rounds
    BY <1>7, <2>1, SameCollected DEF ApiFails
  <2>2. CASE ~(attempt < Rounds)
    <3>1. failed' = failed + 1 /\ failed \in Nat
      BY <1>7, <2>2 DEF ApiFails, TypeOK
    <3>2. QED
      BY <3>1 DEF CollectedSoFar, Quiet
  <2>3. QED
    BY <2>1, <2>2
<1>8. CASE CacheHit \/ ConnectionCut \/ Store \/ StoreFails \/ TakeResult \/ Kill
  <2>1. pc' \notin {"look", "round", "mirrors", "api", "merged"}
    BY <1>8 DEF CacheHit, ConnectionCut, Store, StoreFails, TakeResult, Kill
  <2>2. QED
    BY <2>1 DEF CollectedSoFar
<1>9. CASE UNCHANGED vars
  <2>1. UNCHANGED <<pc, tile, failed, fallback, merged>>
    BY <1>9 DEF vars
  <2>2. Done' = Done /\ Quiet' = Quiet
    BY <2>1 DEF Done, Quiet
  <2>3. QED
    BY <2>1, <2>2 DEF CollectedSoFar, Once
<1>10. QED
  BY <1>1, <1>2, <1>3, <1>4, <1>5, <1>6, <1>7, <1>8, <1>9 DEF Next

\* When all tiles are there, with no failure and nothing of the map API, what was
\* collected is whole.
LEMMA CollectedIsWhole ==
  ASSUME pc = "merged", CollectedSoFar, Quiet
  PROVE  Whole(merged)
  BY AllTiles DEF CollectedSoFar, Whole

LEMMA CacheStep ==
  ASSUME CollectedSoFar, CachedIsWhole, [Next]_vars
  PROVE  CachedIsWhole'
<1>1. CASE Store /\ merged # {} /\ Complete
  <2>1. pc = "merged" /\ cache' = merged /\ Quiet
    BY <1>1 DEF Store, Complete, Quiet
  <2>2. QED
    BY <2>1, CollectedIsWhole DEF CachedIsWhole, Whole, Once
<1>2. CASE cache' = cache
  BY <1>2 DEF CachedIsWhole, Whole, Once
<1>3. CASE Store /\ ~(merged # {} /\ Complete)
  BY <1>2, <1>3 DEF Store
<1>4. CASE CacheHit \/ CacheMiss \/ BeginRound \/ CoolDown \/ Begin
  BY <1>2, <1>4 DEF CacheHit, CacheMiss, BeginRound, CoolDown, Begin
<1>5. ASSUME NEW m \in 1..Mirrors, MirrorAnswers(m) \/ MirrorFails(m)
      PROVE  CachedIsWhole'
  BY <1>2, <1>5 DEF MirrorAnswers, MirrorFails
<1>6. CASE ApiAnswers \/ ApiFails \/ ConnectionCut \/ StoreFails \/ TakeResult \/ Kill
  BY <1>2, <1>6 DEF ApiAnswers, ApiFails, ConnectionCut, StoreFails, TakeResult, Kill
<1>7. CASE UNCHANGED vars
  BY <1>2, <1>7 DEF vars
<1>8. QED
  BY <1>1, <1>3, <1>4, <1>5, <1>6, <1>7 DEF Next

LEMMA ResultStep ==
  ASSUME TypeOK, CollectedSoFar, CachedIsWhole, ToldOfResult, QuietResultIsWhole,
         [Next]_vars
  PROVE  ToldOfResult' /\ QuietResultIsWhole'
<1> USE DEF ToldOfResult, QuietResultIsWhole
<1>1. CASE CacheHit
  <2>1. pc' = "have" /\ merged' = cache /\ Whole(cache)
    BY <1>1 DEF CacheHit, CachedIsWhole
  <2>2. QED
    BY <2>1 DEF Whole, Once
<1>2. CASE Store \/ StoreFails
  <2>1. /\ pc = "merged" /\ pc' = "have"
        /\ UNCHANGED <<merged, fallback>>
        /\ told' = (told \/ failed > 0)
    BY <1>2 DEF Store, StoreFails
  <2>2. ~told' /\ ~fallback' => Quiet
    <3>1. failed \in 0..Len(Contents)
      BY DEF TypeOK
    <3>2. ~(failed > 0) => failed = 0
      BY <3>1
    <3>3. QED
      BY <2>1, <3>2 DEF Quiet
  <2>3. ~told' /\ ~fallback' => Whole(merged)
    BY <2>1, <2>2, CollectedIsWhole
  <2>4. QED
    BY <2>1, <2>3 DEF Whole, Once
<1>3. CASE TakeResult
  <2>1. CASE pc = "have" /\ UNCHANGED <<merged, told>>
    BY <1>3, <2>1 DEF TakeResult, Whole, Once
  <2>2. CASE pc = "raised" /\ merged' = {} /\ told' = TRUE
    BY <1>3, <2>2 DEF TakeResult
  <2>3. QED
    BY <1>3, <2>1, <2>2 DEF TakeResult
<1>4. CASE pc' \notin {"have", "given"}
  BY <1>4
<1>5. CASE UNCHANGED <<pc, told, fallback, merged>>
  BY <1>5 DEF Whole, Once
<1>6. CASE Begin \/ CacheMiss \/ BeginRound \/ ApiAnswers \/ ApiFails \/ ConnectionCut \/ Kill
  <2>1. pc' \notin {"have", "given"}
    BY <1>6 DEF Begin, CacheMiss, BeginRound, ApiAnswers, ApiFails, NextTile,
                ConnectionCut, Kill
  <2>2. QED
    BY <1>4, <2>1
<1>7. ASSUME NEW m \in 1..Mirrors, MirrorAnswers(m) \/ MirrorFails(m)
      PROVE  ToldOfResult' /\ QuietResultIsWhole'
  <2>1. pc' \notin {"have", "given"}
    BY <1>7 DEF MirrorAnswers, MirrorFails, NextTile
  <2>2. QED
    BY <1>4, <2>1
<1>8. CASE CoolDown
  BY <1>5, <1>8 DEF CoolDown
<1>9. CASE UNCHANGED vars
  BY <1>5, <1>9 DEF vars
<1>10. QED
  BY <1>1, <1>2, <1>3, <1>6, <1>7, <1>8, <1>9 DEF Next

LEMMA OsmStep ==
  ASSUME ConstantsOK, OsmInv, [Next]_vars
  PROVE  OsmInv'
<1> USE DEF OsmInv
<1>1. TypeOK'
  BY TypeStep
<1>2. FailedFew' /\ LastTile'
  BY CountStep
<1>3. CollectedSoFar'
  BY CollectStep
<1>4. FetchBegins'
  BY BeginningStep
<1>5. CachedIsWhole'
  BY CacheStep
<1>6. ToldOfResult' /\ QuietResultIsWhole'
  BY ResultStep
<1>7. QED
  BY <1>1, <1>2, <1>3, <1>4, <1>5, <1>6

-----------------------------------------------------------------------------
(* The theorem.                                                            *)

\* Whatever fails, and whenever a job is killed: only whole responses are cached,
\* and a job whose log names no issue has each element of its area, and once,
\* unless a tile came from the map API, which leaves out the relations and is no
\* issue (fetch_osm_path_elements, prepare_osm_paths).
THEOREM ResponsesAreWhole ==
  ASSUME ConstantsOK
  PROVE  Spec => [](CachedIsWhole /\ QuietResultIsWhole)
<1>1. Init => OsmInv
  BY OsmInit
<1>2. OsmInv /\ [Next]_vars => OsmInv'
  BY OsmStep
<1>3. OsmInv => CachedIsWhole /\ QuietResultIsWhole
  BY DEF OsmInv
<1>4. QED
  BY <1>1, <1>2, <1>3, PTL DEF Spec
=============================================================================
