-------------------------- MODULE GalleryStoreProofs --------------------------
(***************************************************************************)
(* What holds of the gallery for any number of images, clips, scans and    *)
(* deletions: types, that deleted images have no file left and do not come *)
(* back, that a scan loses and doubles nothing, and that boards are kept.  *)
(*                                                                         *)
(* The heart is what no later step takes back: a file that was written is  *)
(* not written again, an image that is settled has nothing under way that  *)
(* could write one, and an object on show has its file or its save has     *)
(* been asked for.                                                         *)
(***************************************************************************)
EXTENDS GalleryStore, TLAPS

Written(n) ==
  /\ n \in Generated => saves[n] \in {"written", "saved", "lost"}
  /\ n \in Videos => clips[n] # "none"

Settled(n) ==
  /\ n \in Generated => saves[n] \notin {"none", "queued", "written"}
  /\ n \in Videos => clips[n] # "none"

OnShow(o) == o \in page.filed \/ (o.made = "live" /\ saves[o.name] # "none")

FilesSound == \A n \in disk : Written(n)

PageSound ==
  /\ \A o \in page.filed : Written(o.name) /\ Settled(o.name)
  /\ \A o \in page.images : OnShow(o)

SavesSound == \A n \in Generated : saves[n] = "saved" <=> Live(n) \in page.filed

(* What was saved when the scan began is in the listing, or has no file,   *)
(* and every listed file whose save is under way is waited for.            *)
ScanSound ==
  /\ \A n \in scan.listed :
       Written(n) /\ (scan.pc = "saves" => Settled(n) \/ n \in scan.waits)
  /\ \A o \in Objects :
       Before(o) => /\ o \in page.filed
                    /\ scan.pc \in {"parse", "saves"} /\ o.name \in disk =>
                         o.name \in scan.listed

(* A file stays only if the page does not know of it, or could not delete it. *)
LeftOver(n) == n \in disk => AnswerLost(n) \/ n \in sweep.failed

RemovalSound ==
  \A o \in Objects :
    /\ removal[o] # "none" => OnShow(o)
    /\ removal[o] = "answered" => Settled(o.name) /\ o.name \notin disk

SweepSound ==
  /\ \A o \in sweep.targets : OnShow(o)
  /\ sweep.pc \in {"resolve", "answered"} => sweep.at \in sweep.targets \ sweep.todo
  /\ \A o \in sweep.targets \ sweep.todo :
       (sweep.pc = "resolve" /\ o = sweep.at) \/ (Settled(o.name) /\ LeftOver(o.name))
  /\ sweep.pc = "answered" =>
       sweep.at.name \notin disk \/ (sweep.at.made = "live" /\ AnswerLost(sweep.at.name))

DeletedSound == \A n \in deleted : Settled(n) /\ LeftOver(n)

IInv ==
  /\ TypeOK
  /\ FilesSound
  /\ PageSound
  /\ SavesSound
  /\ ScanSound
  /\ RemovalSound
  /\ SweepSound
  /\ DeletedSound

Underway == scan.pc \in {"list", "parse", "saves"}

(* While a scan is under way: what a scan has made was on show when this   *)
(* one began, and so was a saved image of a file that was on show.         *)
BeforeSound ==
  Underway =>
    /\ \A o \in page.images : o.made = "scan" => Before(o)
    /\ \A o \in page.images : o.made = "live" /\ o.name \in BeforeNames =>
                                Before(o) \/ AnswerLost(o.name)

(* What is listed and was deleted since is not on show, but for late clips.*)
ListingSound ==
  scan.pc \in {"parse", "saves"} =>
    \A o \in page.images \cap page.filed :
      o.name \in scan.listed \cap Gone => o.made = "posted"

ShowInv == IInv /\ BeforeSound /\ ListingSound

-----------------------------------------------------------------------------
(* An object is known by its name and the way it was made.                 *)
LEMMA ObjectsKnown ==
  /\ \A o \in Objects : /\ o.name \in Names
                         /\ o.made = "live" => o.name \in Generated
  /\ \A n \in Generated : Live(n) \in Objects /\ Live(n).name = n /\ Live(n).made = "live"
  /\ \A n \in Videos : Posted(n) \in Objects /\ Posted(n).name = n /\ Posted(n).made = "posted"
  /\ \A n \in Names : Scanned(n) \in Objects /\ Scanned(n).name = n /\ Scanned(n).made = "scan"
  /\ \A o \in Objects : o.made = "live" => o = Live(o.name)
  /\ None \notin Names
BY GalleryAssumption DEF Objects, Live, Posted, Scanned, Names

LEMMA NameKnown ==
  ASSUME NEW o \in Objects
  PROVE  o.name \in Names /\ (o.made = "live" => o.name \in Generated)
BY DEF Objects, Names

(* What the scan remembers of the page.                                    *)
LEMMA SnapshotType ==
  ASSUME NEW S, NEW F, NEW T, S \subseteq T
  PROVE  {<<o, o \in F>> : o \in S} \in SUBSET (T \X BOOLEAN)
<1>1. ASSUME NEW x \in {<<o, o \in F>> : o \in S}
      PROVE  x \in T \X BOOLEAN
  <2>1. PICK o \in S : x = <<o, o \in F>>
    BY <1>1
  <2>2. (o \in F) \in BOOLEAN /\ o \in T
    OBVIOUS
  <2> QED
    BY <2>1, <2>2, Zenon
<1> QED
  BY <1>1

LEMMA InitType == Init => TypeOK
<1> SUFFICES ASSUME Init PROVE TypeOK
  OBVIOUS
<1>1. Stored \subseteq Names /\ {Scanned(n) : n \in Stored} \subseteq Objects
  BY ObjectsKnown DEF Names
<1>2. page \in PageType /\ page.session \subseteq page.images
  BY <1>1 DEF Init, PageType
<1>3. scan \in ScanType /\ sweep \in SweepType /\ sweep.todo \subseteq sweep.targets
  BY DEF Init, ScanType, SweepType, NoScan
<1>4. /\ saves \in [Generated -> SaveStages] /\ clips \in [Videos -> {"none", "sent", "told"}]
      /\ reading \in [on : BOOLEAN, todo : SUBSET Objects]
      /\ removal \in [Objects -> {"none", "resolve", "answered"}]
      /\ bounds \in [{"scans", "deletes", "moves", "faults"} -> Nat]
  BY DEF Init, SaveStages
<1> QED
  BY <1>1, <1>2, <1>3, <1>4 DEF Init, TypeOK

(* What a scan leaves on show are objects.                                 *)
LEMMA ReconciledType ==
  ASSUME TypeOK
  PROVE  Reconciled \subseteq Objects /\ Retained \subseteq page.images
BY ObjectsKnown DEF TypeOK, PageType, ScanType, Reconciled, Existing, Retained

LEMMA TypeStep == TypeOK /\ [Next]_vars => TypeOK'
<1> SUFFICES ASSUME TypeOK, [Next]_vars PROVE TypeOK'
  OBVIOUS
<1> USE ObjectsKnown
<1>1. ASSUME NEW batch \in Batches, NEW save \in BOOLEAN, AddImages(batch, save) PROVE TypeOK'
  <2>1. batch \subseteq Generated /\ {Live(n) : n \in batch} \subseteq Objects
    BY GalleryAssumption
  <2>2. page' \in PageType /\ page'.session \subseteq page'.images
    BY <1>1, <2>1 DEF AddImages, TypeOK, PageType
  <2>3. saves' \in [Generated -> SaveStages]
    BY <1>1 DEF AddImages, TypeOK, SaveStages
  <2> QED
    BY <1>1, <2>2, <2>3 DEF AddImages, TypeOK
<1>2. ASSUME NEW n \in Generated, SaveWrites(n) PROVE TypeOK'
  BY <1>2 DEF SaveWrites, TypeOK, SaveStages, Names
<1>3. ASSUME NEW n \in Generated, SaveEnds(n) PROVE TypeOK'
  <2>1. page' \in PageType /\ page'.session \subseteq page'.images
    BY <1>3, ObjectsKnown DEF SaveEnds, TypeOK, PageType
  <2>2. saves' \in [Generated -> SaveStages]
    BY <1>3 DEF SaveEnds, TypeOK, SaveStages
  <2> QED
    BY <1>3, <2>1, <2>2 DEF SaveEnds, TypeOK
<1>4. ASSUME NEW n \in Generated, SaveFails(n) PROVE TypeOK'
  BY <1>4 DEF SaveFails, TypeOK, PageType, ScanType, SweepType, SaveStages, NoScan, Spend, Hydrate, Unread, Keys, BoardKey, File, Outdated
<1>5. ASSUME NEW n \in Videos, VideoSaved(n) PROVE TypeOK'
  BY <1>5 DEF VideoSaved, TypeOK, SaveStages, Names
<1>6. ASSUME NEW n \in Videos, EventLost(n) PROVE TypeOK'
  BY <1>6 DEF EventLost, TypeOK, PageType, ScanType, SweepType, SaveStages, NoScan, Spend, Hydrate, Unread, Keys, BoardKey, File, Outdated
<1>7. ASSUME NEW n \in Videos, AddPersistedImage(n) PROVE TypeOK'
  <2>1. Posted(n) \in Objects
    OBVIOUS
  <2>2. page' \in PageType /\ page'.session \subseteq page'.images
    <3>1. page' = [page EXCEPT !.images  = page.images \cup {Posted(n)},
                               !.session = page.session \cup {Posted(n)},
                               !.filed   = page.filed \cup {Posted(n)}]
      BY <1>7 DEF AddPersistedImage
    <3>2. ASSUME NEW i \in Objects,
                 page' = [page EXCEPT !.images  = page.images \cup {i},
                                      !.session = page.session \cup {i},
                                      !.filed   = page.filed \cup {i}]
          PROVE  page' \in PageType /\ page'.session \subseteq page'.images
      <4> HIDE ObjectsKnown
      <4>1. /\ page.images \cup {i} \in SUBSET Objects
            /\ page.session \cup {i} \in SUBSET (page.images \cup {i})
            /\ page.filed \cup {i} \in SUBSET Objects
        BY DEF TypeOK, PageType
      <4>2. page' \in PageType
        BY <3>2, <4>1 DEF TypeOK, PageType
      <4>3. page'.session = page.session \cup {i} /\ page'.images = page.images \cup {i}
        BY <3>2 DEF TypeOK, PageType
      <4> QED
        BY <4>1, <4>2, <4>3
    <3> QED
      BY <2>1, <3>1, <3>2
  <2>3. reading' \in [on : BOOLEAN, todo : SUBSET Objects]
    BY <1>7, <2>2 DEF AddPersistedImage, TypeOK, PageType, Hydrate, Unread
  <2> QED
    BY <1>7, <2>2, <2>3 DEF AddPersistedImage, TypeOK
<1>8. ASSUME NEW o \in Objects, ReadMetadata(o) PROVE TypeOK'
  <2>1. page' \in PageType /\ page'.session \subseteq page'.images
    <3>1. \/ page' = page
          \/ page' = [page EXCEPT !.known = page.known \cup {o}]
          \/ page' = [page EXCEPT !.misses = page.misses \cup {o.name}]
      BY <1>8 DEF ReadMetadata
    <3>2. o.name \in Names
      BY NameKnown
    <3> QED
      BY <3>1, <3>2 DEF TypeOK, PageType
  <2>2. reading' \in [on : BOOLEAN, todo : SUBSET Objects]
    BY <1>8 DEF ReadMetadata, TypeOK
  <2> QED
    BY <1>8, <2>1, <2>2 DEF ReadMetadata, TypeOK
<1>9. CASE ReadingEnds
  BY <1>9 DEF ReadingEnds, TypeOK, PageType, ScanType, SweepType, SaveStages, NoScan, Spend, Hydrate, Unread, Keys, BoardKey, File, Outdated
<1>10. ASSUME NEW refresh \in BOOLEAN, LoadFromDisk(refresh) PROVE TypeOK'
  <2> DEFINE shown == {<<o, o \in page.filed>> : o \in page.images}
  <2>1. shown \in SUBSET (Objects \X BOOLEAN)
    BY SnapshotType DEF TypeOK, PageType
  <2>2. scan' = [pc |-> "list", refresh |-> refresh, before |-> shown, listed |-> {},
                 waits |-> {}]
    BY <1>10 DEF LoadFromDisk, NoScan
  <2> HIDE DEF shown
  <2>3. scan' \in ScanType
    BY <2>1, <2>2 DEF ScanType
  <2>4. bounds' \in [{"scans", "deletes", "moves", "faults"} -> Nat]
    BY <1>10 DEF LoadFromDisk, TypeOK, Spend
  <2> QED
    BY <1>10, <2>3, <2>4 DEF LoadFromDisk, TypeOK
<1>11. CASE List
  BY <1>11 DEF List, TypeOK, PageType, ScanType, SweepType, SaveStages, NoScan, Spend, Hydrate, Unread, Keys, BoardKey, File, Outdated
<1>12. CASE ListFails
  BY <1>12 DEF ListFails, TypeOK, PageType, ScanType, SweepType, SaveStages, NoScan, Spend, Hydrate, Unread, Keys, BoardKey, File, Outdated
<1>13. CASE AwaitSaves
  BY <1>13 DEF AwaitSaves, TypeOK, PageType, ScanType, SweepType, SaveStages, NoScan, Spend, Hydrate, Unread, Keys, BoardKey, File, Outdated
<1>14. CASE Reconcile
  BY <1>14, ReconciledType DEF Reconcile, TypeOK, PageType, ScanType, SweepType, SaveStages, NoScan, Spend, Hydrate, Unread, Keys, BoardKey, File, Outdated
<1>15. CASE RefreshEnds
  BY <1>15 DEF RefreshEnds, TypeOK, PageType, ScanType, SweepType, SaveStages, NoScan, Spend, Hydrate, Unread, Keys, BoardKey, File, Outdated
<1>16. ASSUME NEW o \in Objects, DeleteImage(o) PROVE TypeOK'
  BY <1>16 DEF DeleteImage, TypeOK, PageType, ScanType, SweepType, SaveStages, NoScan, Spend, Hydrate, Unread, Keys, BoardKey, File, Outdated
<1>17. ASSUME NEW o \in Objects, DeleteUnsaved(o) PROVE TypeOK'
  <2>1. page' \in PageType /\ page'.session \subseteq page'.images
    BY <1>17 DEF DeleteUnsaved, TypeOK, PageType
  <2>2. removal' \in [Objects -> {"none", "resolve", "answered"}] /\ deleted' \subseteq Names
    <3>1. removal' = [removal EXCEPT ![o] = "none"] /\ deleted' = deleted \cup {o.name}
      BY <1>17 DEF DeleteUnsaved
    <3>2. o.name \in Names
      BY NameKnown
    <3> QED
      BY <3>1, <3>2 DEF TypeOK
  <2> QED
    BY <1>17, <2>1, <2>2 DEF DeleteUnsaved, TypeOK
<1>18. ASSUME NEW o \in Objects, DeleteFile(o) PROVE TypeOK'
  BY <1>18 DEF DeleteFile, TypeOK, PageType, ScanType, SweepType, SaveStages, NoScan, Spend, Hydrate, Unread, Keys, BoardKey, File, Outdated
<1>19. ASSUME NEW o \in Objects, DeleteFails(o) PROVE TypeOK'
  BY <1>19 DEF DeleteFails, TypeOK, PageType, ScanType, SweepType, SaveStages, NoScan, Spend, Hydrate, Unread, Keys, BoardKey, File, Outdated
<1>20. ASSUME NEW o \in Objects, DeleteEnds(o) PROVE TypeOK'
  <2>1. page' \in PageType /\ page'.session \subseteq page'.images
    BY <1>20 DEF DeleteEnds, TypeOK, PageType
  <2>2. removal' \in [Objects -> {"none", "resolve", "answered"}] /\ deleted' \subseteq Names
    <3>1. removal' = [removal EXCEPT ![o] = "none"] /\ deleted' = deleted \cup {o.name}
      BY <1>20 DEF DeleteEnds
    <3>2. o.name \in Names
      BY NameKnown
    <3> QED
      BY <3>1, <3>2 DEF TypeOK
  <2> QED
    BY <1>20, <2>1, <2>2 DEF DeleteEnds, TypeOK
<1>21. CASE SweepStarts
  BY <1>21 DEF SweepStarts, TypeOK, PageType, ScanType, SweepType, SaveStages, NoScan, Spend, Hydrate, Unread, Keys, BoardKey, File, Outdated
<1>22. ASSUME NEW o \in Objects, SweepNext(o) PROVE TypeOK'
  BY <1>22 DEF SweepNext, TypeOK, PageType, ScanType, SweepType, SaveStages, NoScan, Spend, Hydrate, Unread, Keys, BoardKey, File, Outdated
<1>23. CASE SweepDeletes
  BY <1>23 DEF SweepDeletes, TypeOK, PageType, ScanType, SweepType, SaveStages, NoScan, Spend, Hydrate, Unread, Keys, BoardKey, File, Outdated
<1>24. CASE SweepGoesOn
  BY <1>24 DEF SweepGoesOn, TypeOK, PageType, ScanType, SweepType, SaveStages, NoScan, Spend, Hydrate, Unread, Keys, BoardKey, File, Outdated
<1>25. CASE SweepFails
  <2>1. sweep' \in SweepType /\ sweep'.todo \subseteq sweep'.targets
    BY <1>25 DEF SweepFails, TypeOK, SweepType
  <2>2. bounds' \in [{"scans", "deletes", "moves", "faults"} -> Nat]
    BY <1>25 DEF SweepFails, TypeOK, Spend
  <2> QED
    BY <1>25, <2>1, <2>2 DEF SweepFails, TypeOK
<1>26. CASE SweepEnds
  <2>1. sweep' \in SweepType /\ sweep'.todo \subseteq sweep'.targets
    BY <1>26 DEF SweepEnds, TypeOK, SweepType
  <2>2. page' \in PageType /\ page'.session \subseteq page'.images
    BY <1>26 DEF SweepEnds, TypeOK, PageType, SweepType
  <2>3. deleted' \subseteq Names
    <3>1. \A o \in sweep.targets : o.name \in Names
      BY NameKnown DEF TypeOK, SweepType
    <3>2. \A n \in deleted' \ deleted : \E o \in sweep.targets : n = o.name
      BY <1>26 DEF SweepEnds
    <3> QED
      BY <3>1, <3>2 DEF TypeOK
  <2> QED
    BY <1>26, <2>1, <2>2, <2>3 DEF SweepEnds, TypeOK
<1>27. ASSUME NEW o \in Objects, SetBoard(o) PROVE TypeOK'
  <2>1. BoardKey(o) \in Keys
    <3>1. o.name \in Names /\ (IF o \in page.filed THEN "file" ELSE "unsaved") \in {"file", "unsaved"}
      BY NameKnown
    <3> QED
      BY <3>1, Zenon DEF BoardKey, Keys
  <2>2. page' \in PageType /\ page'.session \subseteq page'.images
    BY <1>27, <2>1 DEF SetBoard, TypeOK, PageType
  <2>3. bounds' \in [{"scans", "deletes", "moves", "faults"} -> Nat]
    BY <1>27 DEF SetBoard, TypeOK, Spend
  <2> QED
    BY <1>27, <2>2, <2>3 DEF SetBoard, TypeOK
<1>28. ASSUME NEW n \in Names, DeletedElsewhere(n) PROVE TypeOK'
  BY <1>28 DEF DeletedElsewhere, TypeOK, PageType, ScanType, SweepType, SaveStages, NoScan, Spend, Hydrate, Unread, Keys, BoardKey, File, Outdated
<1>29. CASE UNCHANGED vars
  BY <1>29 DEF TypeOK, PageType, ScanType, SweepType, vars
<1> QED
  BY <1>1, <1>2, <1>3, <1>4, <1>5, <1>6, <1>7, <1>8, <1>9, <1>10, <1>11, <1>12, <1>13, <1>14, <1>15, <1>16, <1>17, <1>18, <1>19, <1>20, <1>21, <1>22, <1>23, <1>24, <1>25, <1>26, <1>27, <1>28, <1>29
  DEF Next, Saving, Reading, Scanning, Sweeping, Deleting

-----------------------------------------------------------------------------
(* What no step takes back: files become known to the page, saves go on,   *)
(* and a file is written once, and not of what is settled.                 *)
Grows ==
  /\ page.filed \subseteq page'.filed
  /\ \A n \in Generated :
       /\ saves[n] # "none" => saves'[n] # "none"
       /\ saves[n] \notin {"none", "queued", "written"} =>
            saves'[n] \notin {"none", "queued", "written"}
       /\ saves[n] \in {"written", "saved", "lost"} => saves'[n] \in {"written", "saved", "lost"}
       /\ saves[n] = "lost" => saves'[n] = "lost"
       /\ saves[n] = "saved" => saves'[n] = "saved"
       /\ saves'[n] = "saved" => saves[n] = "saved" \/ Live(n) \in page'.filed
       /\ Live(n) \in page'.filed => Live(n) \in page.filed \/ saves'[n] = "saved"
  /\ \A n \in Videos : clips[n] # "none" => clips'[n] # "none"
  /\ \A n \in disk' \ disk : ~ Written(n) /\ ~ Settled(n) /\ Written(n)'

LEMMA LivesApart ==
  /\ \A n, m \in Generated : Live(n) = Live(m) => n = m
  /\ \A n \in Generated, m \in Videos : Live(n) # Posted(m)
BY ObjectsKnown

LEMMA ScanMakes ==
  ASSUME TypeOK
  PROVE  \A n \in Generated : Live(n) \notin Reconciled \ page.images
BY ObjectsKnown DEF TypeOK, ScanType, Reconciled, Existing

LEMMA Growth == TypeOK /\ [Next]_vars => Grows
<1> SUFFICES ASSUME TypeOK, [Next]_vars PROVE Grows
  OBVIOUS
<1>0. page \in PageType /\ saves \in [Generated -> SaveStages]
      /\ clips \in [Videos -> {"none", "sent", "told"}]
  BY DEF TypeOK
<1> USE LivesApart
<1>1. ASSUME NEW batch \in Batches, NEW save \in BOOLEAN, AddImages(batch, save) PROVE Grows
  BY <1>0, <1>1 DEF AddImages, Grows, PageType, SaveStages
<1>2. ASSUME NEW n \in Generated, SaveWrites(n) PROVE Grows
  BY <1>0, <1>2, GalleryAssumption DEF SaveWrites, Grows, PageType, SaveStages, Settled, Written
<1>3. ASSUME NEW n \in Generated, SaveEnds(n) PROVE Grows
  BY <1>0, <1>3 DEF SaveEnds, Grows, PageType, SaveStages
<1>4. ASSUME NEW n \in Generated, SaveFails(n) PROVE Grows
  BY <1>0, <1>4 DEF SaveFails, Grows, PageType, SaveStages, Pending
<1>5. ASSUME NEW n \in Videos, VideoSaved(n) PROVE Grows
  BY <1>0, <1>5, GalleryAssumption DEF VideoSaved, Grows, PageType, SaveStages, Settled, Written
<1>6. ASSUME NEW n \in Videos, EventLost(n) PROVE Grows
  BY <1>0, <1>6 DEF EventLost, Grows, PageType, SaveStages
<1>7. ASSUME NEW n \in Videos, AddPersistedImage(n) PROVE Grows
  BY <1>0, <1>7 DEF AddPersistedImage, Grows, PageType, SaveStages
<1>8. ASSUME NEW o \in Objects, ReadMetadata(o) PROVE Grows
  BY <1>0, <1>8 DEF ReadMetadata, Grows, PageType, SaveStages
<1>9. CASE ReadingEnds
  BY <1>0, <1>9 DEF ReadingEnds, Grows, PageType, SaveStages
<1>10. ASSUME NEW refresh \in BOOLEAN, LoadFromDisk(refresh) PROVE Grows
  BY <1>0, <1>10 DEF LoadFromDisk, Grows, PageType, SaveStages
<1>11. CASE List
  BY <1>0, <1>11 DEF List, Grows, PageType, SaveStages
<1>12. CASE ListFails
  BY <1>0, <1>12 DEF ListFails, Grows, PageType, SaveStages
<1>13. CASE AwaitSaves
  BY <1>0, <1>13 DEF AwaitSaves, Grows, PageType, SaveStages
<1>14. CASE Reconcile
  BY <1>0, <1>14, ScanMakes DEF Reconcile, Grows, PageType, SaveStages
<1>15. CASE RefreshEnds
  BY <1>0, <1>15 DEF RefreshEnds, Grows, PageType, SaveStages
<1>16. ASSUME NEW o \in Objects, DeleteImage(o) PROVE Grows
  BY <1>0, <1>16 DEF DeleteImage, Grows, PageType, SaveStages
<1>17. ASSUME NEW o \in Objects, DeleteUnsaved(o) PROVE Grows
  BY <1>0, <1>17 DEF DeleteUnsaved, Grows, PageType, SaveStages
<1>18. ASSUME NEW o \in Objects, DeleteFile(o) PROVE Grows
  BY <1>0, <1>18 DEF DeleteFile, Grows, PageType, SaveStages
<1>19. ASSUME NEW o \in Objects, DeleteFails(o) PROVE Grows
  BY <1>0, <1>19 DEF DeleteFails, Grows, PageType, SaveStages
<1>20. ASSUME NEW o \in Objects, DeleteEnds(o) PROVE Grows
  BY <1>0, <1>20 DEF DeleteEnds, Grows, PageType, SaveStages
<1>21. CASE SweepStarts
  BY <1>0, <1>21 DEF SweepStarts, Grows, PageType, SaveStages
<1>22. ASSUME NEW o \in Objects, SweepNext(o) PROVE Grows
  BY <1>0, <1>22 DEF SweepNext, Grows, PageType, SaveStages
<1>23. CASE SweepDeletes
  BY <1>0, <1>23 DEF SweepDeletes, Grows, PageType, SaveStages
<1>24. CASE SweepGoesOn
  BY <1>0, <1>24 DEF SweepGoesOn, Grows, PageType, SaveStages
<1>25. CASE SweepFails
  BY <1>0, <1>25 DEF SweepFails, Grows, PageType, SaveStages
<1>26. CASE SweepEnds
  BY <1>0, <1>26 DEF SweepEnds, Grows, PageType, SaveStages
<1>27. ASSUME NEW o \in Objects, SetBoard(o) PROVE Grows
  BY <1>0, <1>27 DEF SetBoard, Grows, PageType, SaveStages
<1>28. ASSUME NEW n \in Names, DeletedElsewhere(n) PROVE Grows
  BY <1>0, <1>28 DEF DeletedElsewhere, Grows, PageType, SaveStages
<1>29. CASE UNCHANGED vars
  BY <1>29 DEF vars, Grows
<1> QED
  BY <1>1, <1>2, <1>3, <1>4, <1>5, <1>6, <1>7, <1>8, <1>9, <1>10, <1>11, <1>12, <1>13, <1>14, <1>15, <1>16, <1>17, <1>18, <1>19, <1>20, <1>21, <1>22, <1>23, <1>24, <1>25, <1>26, <1>27, <1>28, <1>29
  DEF Next, Saving, Reading, Scanning, Sweeping, Deleting

LEMMA GrowthKeeps ==
  ASSUME TypeOK, Grows
  PROVE  /\ \A n : Settled(n) => Settled(n)' /\ (n \notin disk => n \notin disk')
         /\ \A n : Written(n) => Written(n)' /\ (n \notin disk => n \notin disk')
         /\ \A o \in Objects : OnShow(o) => OnShow(o)'
<1>1. \A n : Settled(n) => Settled(n)'
  BY DEF Grows, Settled
<1>2. \A n : Written(n) => Written(n)'
  BY DEF Grows, Written
<1>3. \A n : Settled(n) \/ Written(n) => (n \notin disk => n \notin disk')
  BY DEF Grows
<1>4. \A o \in Objects : OnShow(o) => OnShow(o)'
  BY NameKnown DEF Grows, OnShow
<1> QED
  BY <1>1, <1>2, <1>3, <1>4

(* Which steps change what the invariant is about.                         *)
Touched ==
  /\ scan' = scan \/ Scanning \/ \E refresh \in BOOLEAN : LoadFromDisk(refresh)
  /\ removal' = removal \/ \E o \in Objects : DeleteImage(o) \/ Deleting(o)
  /\ sweep' = sweep \/ SweepStarts \/ Sweeping
  /\ deleted' = deleted \/ SweepEnds \/ \E o \in Objects : DeleteUnsaved(o) \/ DeleteEnds(o)
  /\ \/ page'.images \subseteq page.images /\ page'.filed = page.filed
     \/ \E batch \in Batches, save \in BOOLEAN : AddImages(batch, save)
     \/ \E n \in Generated : SaveEnds(n)
     \/ \E n \in Videos : AddPersistedImage(n)
     \/ Reconcile

LEMMA Touching == TypeOK /\ [Next]_vars => Touched
<1> SUFFICES ASSUME TypeOK, [Next]_vars PROVE Touched
  OBVIOUS
<1>0. page \in PageType
  BY DEF TypeOK
<1>1. ASSUME NEW batch \in Batches, NEW save \in BOOLEAN, AddImages(batch, save) PROVE Touched
  BY <1>0, <1>1 DEF AddImages, Touched, PageType
<1>2. ASSUME NEW n \in Generated, SaveWrites(n) PROVE Touched
  BY <1>0, <1>2 DEF SaveWrites, Touched, PageType
<1>3. ASSUME NEW n \in Generated, SaveEnds(n) PROVE Touched
  BY <1>0, <1>3 DEF SaveEnds, Touched, PageType
<1>4. ASSUME NEW n \in Generated, SaveFails(n) PROVE Touched
  BY <1>0, <1>4 DEF SaveFails, Touched, PageType
<1>5. ASSUME NEW n \in Videos, VideoSaved(n) PROVE Touched
  BY <1>0, <1>5 DEF VideoSaved, Touched, PageType
<1>6. ASSUME NEW n \in Videos, EventLost(n) PROVE Touched
  BY <1>0, <1>6 DEF EventLost, Touched, PageType
<1>7. ASSUME NEW n \in Videos, AddPersistedImage(n) PROVE Touched
  BY <1>0, <1>7 DEF AddPersistedImage, Touched, PageType
<1>8. ASSUME NEW o \in Objects, ReadMetadata(o) PROVE Touched
  BY <1>0, <1>8 DEF ReadMetadata, Touched, PageType
<1>9. CASE ReadingEnds
  BY <1>0, <1>9 DEF ReadingEnds, Touched, PageType
<1>10. ASSUME NEW refresh \in BOOLEAN, LoadFromDisk(refresh) PROVE Touched
  BY <1>0, <1>10 DEF LoadFromDisk, Touched, PageType
<1>11. CASE List
  BY <1>0, <1>11 DEF List, Touched, PageType, Scanning
<1>12. CASE ListFails
  BY <1>0, <1>12 DEF ListFails, Touched, PageType, Scanning
<1>13. CASE AwaitSaves
  BY <1>0, <1>13 DEF AwaitSaves, Touched, PageType, Scanning
<1>14. CASE Reconcile
  BY <1>0, <1>14 DEF Reconcile, Touched, PageType, Scanning
<1>15. CASE RefreshEnds
  BY <1>0, <1>15 DEF RefreshEnds, Touched, PageType, Scanning
<1>16. ASSUME NEW o \in Objects, DeleteImage(o) PROVE Touched
  BY <1>0, <1>16 DEF DeleteImage, Touched, PageType
<1>17. ASSUME NEW o \in Objects, DeleteUnsaved(o) PROVE Touched
  BY <1>0, <1>17 DEF DeleteUnsaved, Touched, PageType, Deleting
<1>18. ASSUME NEW o \in Objects, DeleteFile(o) PROVE Touched
  BY <1>0, <1>18 DEF DeleteFile, Touched, PageType, Deleting
<1>19. ASSUME NEW o \in Objects, DeleteFails(o) PROVE Touched
  BY <1>0, <1>19 DEF DeleteFails, Touched, PageType, Deleting
<1>20. ASSUME NEW o \in Objects, DeleteEnds(o) PROVE Touched
  BY <1>0, <1>20 DEF DeleteEnds, Touched, PageType, Deleting
<1>21. CASE SweepStarts
  BY <1>0, <1>21 DEF SweepStarts, Touched, PageType
<1>22. ASSUME NEW o \in Objects, SweepNext(o) PROVE Touched
  BY <1>0, <1>22 DEF SweepNext, Touched, PageType, Sweeping
<1>23. CASE SweepDeletes
  BY <1>0, <1>23 DEF SweepDeletes, Touched, PageType, Sweeping
<1>24. CASE SweepGoesOn
  BY <1>0, <1>24 DEF SweepGoesOn, Touched, PageType, Sweeping
<1>25. CASE SweepFails
  BY <1>0, <1>25 DEF SweepFails, Touched, PageType, Sweeping
<1>26. CASE SweepEnds
  BY <1>0, <1>26 DEF SweepEnds, Touched, PageType, Sweeping
<1>27. ASSUME NEW o \in Objects, SetBoard(o) PROVE Touched
  BY <1>0, <1>27 DEF SetBoard, Touched, PageType
<1>28. ASSUME NEW n \in Names, DeletedElsewhere(n) PROVE Touched
  BY <1>0, <1>28 DEF DeletedElsewhere, Touched, PageType
<1>29. CASE UNCHANGED vars
  BY <1>29 DEF vars, Touched
<1> QED
  BY <1>1, <1>2, <1>3, <1>4, <1>5, <1>6, <1>7, <1>8, <1>9, <1>10, <1>11, <1>12, <1>13, <1>14, <1>15, <1>16, <1>17, <1>18, <1>19, <1>20, <1>21, <1>22, <1>23, <1>24, <1>25, <1>26, <1>27, <1>28, <1>29
  DEF Next, Saving, Reading, Scanning, Sweeping, Deleting

-----------------------------------------------------------------------------
(* The parts of the invariant, each with the steps that change what it is  *)
(* about; of every other step it is enough that nothing is taken back.     *)

LEMMA FilesStep ==
  ASSUME IInv, [Next]_vars
  PROVE  FilesSound' /\ SavesSound'
<1>1. Grows
  BY Growth DEF IInv
<1>2. FilesSound'
  BY <1>1, GrowthKeeps DEF IInv, FilesSound, Grows
<1>3. SavesSound'
  BY <1>1 DEF IInv, SavesSound, Grows
<1> QED
  BY <1>2, <1>3

(* When a scan is reconciled, the saves of the listed files are over.      *)
LEMMA ListedSettled ==
  ASSUME IInv, Reconcile
  PROVE  \A n \in scan.listed : Written(n) /\ Settled(n)
<1> SUFFICES ASSUME NEW n \in scan.listed
             PROVE  Written(n) /\ Settled(n)
  OBVIOUS
<1>1. Written(n) /\ (Settled(n) \/ n \in scan.waits)
  BY DEF IInv, ScanSound, Reconcile
<1>2. n \in scan.waits => ~ Pending(n)
  BY DEF Reconcile
<1> QED
  BY <1>1, <1>2 DEF Written, Settled, Pending

LEMMA ReconciledSettled ==
  ASSUME IInv, Reconcile
  PROVE  \A o \in Reconciled : /\ Written(o.name) /\ Settled(o.name)
                               /\ o \in page.images => o \in page.filed
<1> SUFFICES ASSUME NEW o \in Reconciled
             PROVE  /\ Written(o.name) /\ Settled(o.name)
                    /\ o \in page.images => o \in page.filed
  OBVIOUS
<1>1. PICK n \in scan.listed : o \in Existing(n) \/ (Existing(n) = {} /\ o = Scanned(n))
  BY DEF Reconciled
<1>2. Written(n) /\ Settled(n)
  BY ListedSettled
<1>3. CASE o \in Existing(n)
  BY <1>3, <1>2 DEF Existing
<1>4. CASE Existing(n) = {} /\ o = Scanned(n)
  <2>1. o.name = n /\ o.made # "live" /\ o \in Objects
    BY <1>4, ObjectsKnown DEF IInv, TypeOK, ScanType
  <2>2. o \in page.images => OnShow(o)
    BY DEF IInv, PageSound
  <2> QED
    BY <1>2, <2>1, <2>2 DEF OnShow
<1> QED
  BY <1>1, <1>3, <1>4

LEMMA PageStep ==
  ASSUME IInv, [Next]_vars
  PROVE  PageSound'
<1>1. Grows /\ Touched
  BY Growth, Touching DEF IInv
<1>2. /\ \A o \in page.filed : Written(o.name)' /\ Settled(o.name)'
      /\ \A o \in page.images : OnShow(o)'
  <2>1. page.images \subseteq Objects
    BY DEF IInv, TypeOK, PageType
  <2> QED
    BY <1>1, <2>1, GrowthKeeps DEF IInv, PageSound
<1>3. SUFFICES /\ \A o \in page'.filed \ page.filed : Written(o.name)' /\ Settled(o.name)'
               /\ \A o \in page'.images \ page.images : OnShow(o)'
  BY <1>2 DEF PageSound
<1>4. page \in PageType /\ saves \in [Generated -> SaveStages]
      /\ clips \in [Videos -> {"none", "sent", "told"}]
  BY DEF IInv, TypeOK
<1>5. CASE page'.images \subseteq page.images /\ page'.filed = page.filed
  BY <1>5
<1>6. ASSUME NEW batch \in Batches, NEW save \in BOOLEAN, AddImages(batch, save)
      PROVE  /\ \A o \in page'.filed \ page.filed : Written(o.name)' /\ Settled(o.name)'
             /\ \A o \in page'.images \ page.images : OnShow(o)'
  <2>1. page'.filed = page.filed /\ page'.images = page.images \cup {Live(n) : n \in batch}
    BY <1>4, <1>6 DEF AddImages, PageType
  <2>2. \A n \in batch : n \in Generated /\ saves'[n] # "none"
    BY <1>6, GalleryAssumption DEF AddImages
  <2>3. ASSUME NEW n \in batch
        PROVE  OnShow(Live(n))'
    BY <2>2, ObjectsKnown DEF OnShow
  <2> QED
    BY <2>1, <2>3
<1>7. ASSUME NEW n \in Generated, SaveEnds(n)
      PROVE  /\ \A o \in page'.filed \ page.filed : Written(o.name)' /\ Settled(o.name)'
             /\ \A o \in page'.images \ page.images : OnShow(o)'
  <2>1. page'.filed = page.filed \cup {Live(n)} /\ page'.images = page.images
    BY <1>4, <1>7 DEF SaveEnds, PageType
  <2>2. saves'[n] = "saved" /\ clips' = clips
    BY <1>4, <1>7 DEF SaveEnds
  <2>3. Written(n)' /\ Settled(n)'
    BY <2>2, GalleryAssumption DEF Written, Settled
  <2> QED
    BY <2>1, <2>3, ObjectsKnown
<1>8. ASSUME NEW n \in Videos, AddPersistedImage(n)
      PROVE  /\ \A o \in page'.filed \ page.filed : Written(o.name)' /\ Settled(o.name)'
             /\ \A o \in page'.images \ page.images : OnShow(o)'
  <2>1. page'.filed = page.filed \cup {Posted(n)} /\ page'.images = page.images \cup {Posted(n)}
    BY <1>4, <1>8 DEF AddPersistedImage, PageType
  <2>2. clips'[n] = "told"
    BY <1>4, <1>8 DEF AddPersistedImage
  <2>3. Written(n)' /\ Settled(n)'
    BY <2>2, GalleryAssumption DEF Written, Settled
  <2> QED
    BY <2>1, <2>3, ObjectsKnown DEF OnShow
<1>9. ASSUME Reconcile
      PROVE  /\ \A o \in page'.filed \ page.filed : Written(o.name)' /\ Settled(o.name)'
             /\ \A o \in page'.images \ page.images : OnShow(o)'
  <2>1. /\ page'.filed = page.filed \cup (Reconciled \ page.images)
        /\ page'.images = Retained \cup Reconciled
    BY <1>4, <1>9 DEF Reconcile, PageType
  <2>2. \A n : (Settled(n) => Settled(n)') /\ (Written(n) => Written(n)')
    BY <1>1, GrowthKeeps DEF IInv
  <2>3. Retained \subseteq page.images
    BY DEF Retained
  <2> QED
    BY <1>9, <2>1, <2>2, <2>3, ReconciledSettled DEF OnShow
<1> QED
  BY <1>1, <1>5, <1>6, <1>7, <1>8, <1>9 DEF Touched

LEMMA ScanStep ==
  ASSUME IInv, [Next]_vars
  PROVE  ScanSound'
<1>1. Grows /\ Touched
  BY Growth, Touching DEF IInv
<1>2. /\ \A n : Settled(n) => Settled(n)' /\ (n \notin disk => n \notin disk')
      /\ \A n : Written(n) => Written(n)'
      /\ page.filed \subseteq page'.filed
  BY <1>1, GrowthKeeps DEF IInv, Grows
<1>3. scan \in ScanType /\ disk \subseteq Names
  BY DEF IInv, TypeOK
<1>4. \A o \in page.filed : Settled(o.name)
  BY DEF IInv, PageSound
<1>5. CASE scan' = scan
  BY <1>2, <1>4, <1>5 DEF IInv, ScanSound, Before
<1>6. ASSUME NEW refresh \in BOOLEAN, LoadFromDisk(refresh) PROVE ScanSound'
  <2>1. /\ scan'.pc = "list" /\ scan'.listed = {}
        /\ scan'.before = {<<o, o \in page.filed>> : o \in page.images}
    BY <1>6 DEF LoadFromDisk, NoScan
  <2>2. ASSUME NEW o \in Objects, Before(o)' PROVE o \in page.filed
    <3>1. PICK i \in page.images : <<o, TRUE>> = <<i, i \in page.filed>>
      BY <2>1, <2>2 DEF Before
    <3> QED
      BY <3>1, Zenon
  <2> QED
    BY <1>2, <2>1, <2>2 DEF ScanSound
<1>7. CASE List
  <2>1. /\ scan'.before = scan.before /\ scan'.listed = disk /\ disk' = disk
        /\ scan'.pc = "parse"
    BY <1>3, <1>7 DEF List, ScanType
  <2>2. \A n \in disk : Written(n)
    BY DEF IInv, FilesSound
  <2> QED
    BY <1>2, <2>1, <2>2 DEF IInv, ScanSound, Before
<1>8. CASE AwaitSaves
  <2>1. /\ scan'.before = scan.before /\ scan'.listed = scan.listed /\ scan.pc = "parse"
        /\ scan'.waits = {n \in Generated : Pending(n)} /\ disk' = disk
    BY <1>3, <1>8 DEF AwaitSaves, ScanType
  <2>2. \A n \in scan.listed : Settled(n) \/ n \in scan'.waits
    BY <2>1 DEF IInv, ScanSound, Written, Settled, Pending
  <2> QED
    BY <1>2, <2>1, <2>2 DEF IInv, ScanSound, Before
<1>9. CASE scan' = NoScan \/ scan' = [NoScan EXCEPT !.pc = "refresh", !.refresh = TRUE]
  <2>1. NoScan.before = {} /\ NoScan.listed = {}
    BY DEF NoScan
  <2>2. LET again == [NoScan EXCEPT !.pc = "refresh", !.refresh = TRUE]
        IN  again.before = {} /\ again.listed = {}
    BY DEF NoScan
  <2>3. scan'.before = {} /\ scan'.listed = {}
    BY <1>9, <2>1, <2>2
  <2>4. \A o \in Objects : ~ Before(o)'
    BY <2>3 DEF Before
  <2> QED
    BY <2>3, <2>4 DEF ScanSound
<1>10. ListFails \/ Reconcile \/ RefreshEnds =>
         scan' = NoScan \/ scan' = [NoScan EXCEPT !.pc = "refresh", !.refresh = TRUE]
  BY DEF ListFails, Reconcile, RefreshEnds
<1> QED
  BY <1>1, <1>5, <1>6, <1>7, <1>8, <1>9, <1>10 DEF Touched, Scanning

LEMMA RemovalStep ==
  ASSUME IInv, [Next]_vars
  PROVE  RemovalSound'
<1>1. Grows /\ Touched
  BY Growth, Touching DEF IInv
<1>2. /\ \A n : Settled(n) => Settled(n)' /\ (n \notin disk => n \notin disk')
      /\ \A o \in Objects : OnShow(o) => OnShow(o)'
  BY <1>1, GrowthKeeps DEF IInv
<1>3. removal \in [Objects -> {"none", "resolve", "answered"}] /\ page.images \subseteq Objects
  BY DEF IInv, TypeOK, PageType
<1>4. ASSUME NEW o \in Objects, \A d \in Objects \ {o} : removal'[d] = removal[d],
             removal'[o] # "none" => OnShow(o),
             removal'[o] = "answered" => Settled(o.name) /\ o.name \notin disk'
      PROVE  RemovalSound'
  BY <1>2, <1>4 DEF IInv, RemovalSound
<1>5. ASSUME NEW o \in Objects, DeleteImage(o) PROVE RemovalSound'
  <2>1. removal' = [removal EXCEPT ![o] = "resolve"] /\ OnShow(o)
    BY <1>5 DEF DeleteImage, IInv, PageSound
  <2> QED
    BY <1>3, <1>4, <2>1
<1>6. ASSUME NEW o \in Objects, Deleting(o) PROVE RemovalSound'
  <2>1. CASE removal' = [removal EXCEPT ![o] = "none"]
    BY <1>3, <1>4, <2>1
  <2>2. CASE DeleteFile(o)
    <3>1. removal' = [removal EXCEPT ![o] = "answered"] /\ disk' = disk \ {o.name}
      BY <2>2 DEF DeleteFile
    <3>2. o \in page.filed
      BY <2>2 DEF DeleteFile, File
    <3>3. Settled(o.name) /\ OnShow(o)
      BY <3>2 DEF IInv, PageSound, OnShow
    <3> QED
      BY <1>3, <1>4, <3>1, <3>3
  <2> QED
    BY <1>6, <2>1, <2>2 DEF Deleting, DeleteUnsaved, DeleteFails, DeleteEnds
<1>7. CASE removal' = removal
  BY <1>2, <1>7 DEF IInv, RemovalSound
<1> QED
  BY <1>1, <1>5, <1>6, <1>7 DEF Touched

(* Whoever waits for the name of an object on show learns it, or that no   *)
(* file will come.                                                         *)
LEMMA ResolvedSettled ==
  ASSUME IInv, NEW o \in Objects, OnShow(o), ResolvedName(o)
  PROVE  /\ Settled(o.name)
         /\ o \notin page.filed => o.name \notin disk \/ AnswerLost(o.name)
<1>1. o.name \in Names /\ o.name # None /\ (o.made = "live" => o = Live(o.name) /\ o.name \in Generated)
  BY ObjectsKnown, NameKnown
<1>2. CASE o \in page.filed
  BY <1>2 DEF IInv, PageSound
<1>3. CASE o \notin page.filed
  <2>1. /\ o.name \in Generated /\ saves[o.name] # "none"
        /\ saves[o.name] \notin {"queued", "written"} /\ o = Live(o.name)
    BY <1>1, <1>3 DEF OnShow, ResolvedName, File, Pending
  <2>2. saves[o.name] \in {"shown", "failed", "lost"}
    <3>1. saves[o.name] # "saved"
      BY <1>3, <2>1 DEF IInv, SavesSound
    <3> QED
      BY <2>1, <3>1 DEF IInv, TypeOK, SaveStages
  <2>3. Settled(o.name)
    BY <2>1, GalleryAssumption DEF Settled
  <2>4. o.name \in disk => AnswerLost(o.name)
    BY <2>1, <2>2 DEF IInv, FilesSound, Written, AnswerLost
  <2> QED
    BY <2>3, <2>4
<1> QED
  BY <1>2, <1>3

(* What a sweep could not delete stays recorded, and what is left over of  *)
(* a settled name stays so.                                                *)
LEMMA LeftOverStays ==
  ASSUME IInv, [Next]_vars
  PROVE  /\ sweep.failed \subseteq sweep'.failed
         /\ \A n : Settled(n) /\ LeftOver(n) => LeftOver(n)'
<1>1. Grows /\ Touched /\ sweep \in SweepType
  BY Growth, Touching DEF IInv, TypeOK
<1>2. sweep.failed \subseteq sweep'.failed
  <2>1. CASE SweepStarts
    BY <2>1 DEF SweepStarts
  <2>2. ASSUME NEW o \in Objects, SweepNext(o) PROVE sweep'.failed = sweep.failed
    BY <1>1, <2>2 DEF SweepNext, SweepType
  <2>3. CASE SweepDeletes
    BY <1>1, <2>3 DEF SweepDeletes, SweepType
  <2>4. CASE SweepGoesOn
    BY <1>1, <2>4 DEF SweepGoesOn, SweepType
  <2>5. CASE SweepFails
    BY <1>1, <2>5 DEF SweepFails, SweepType
  <2>6. CASE SweepEnds
    BY <1>1, <2>6 DEF SweepEnds, SweepType
  <2> QED
    BY <1>1, <2>1, <2>2, <2>3, <2>4, <2>5, <2>6 DEF Touched, Sweeping
<1>3. \A n : Settled(n) => (n \notin disk => n \notin disk')
  BY <1>1, GrowthKeeps DEF IInv
<1>4. \A n : AnswerLost(n) => AnswerLost(n)'
  BY <1>1 DEF Grows, AnswerLost
<1> QED
  BY <1>2, <1>3, <1>4 DEF LeftOver

LEMMA SweepStep ==
  ASSUME IInv, [Next]_vars
  PROVE  SweepSound'
<1>1. Grows /\ Touched
  BY Growth, Touching DEF IInv
<1>2. /\ \A n : Settled(n) => Settled(n)' /\ (n \notin disk => n \notin disk')
      /\ \A n : Settled(n) /\ LeftOver(n) => LeftOver(n)'
      /\ \A o \in Objects : OnShow(o) => OnShow(o)'
  BY <1>1, GrowthKeeps, LeftOverStays DEF IInv
<1>3. sweep \in SweepType /\ page.session \subseteq page.images /\ page.images \subseteq Objects
  BY DEF IInv, TypeOK, PageType
<1>4. \A o \in sweep.targets : OnShow(o) /\ o \in Objects
  BY <1>3 DEF IInv, SweepSound, SweepType
<1>5. CASE sweep' = sweep
  <2>1. \A n : AnswerLost(n) => AnswerLost(n)'
    BY <1>1 DEF Grows, AnswerLost
  <2> QED
    BY <1>2, <1>4, <1>5, <2>1 DEF IInv, SweepSound
<1>6. CASE SweepStarts
  <2>1. /\ sweep'.targets = page.session /\ sweep'.todo = page.session /\ sweep'.pc = "next"
    BY <1>6 DEF SweepStarts
  <2>2. \A o \in page.session : OnShow(o) /\ o \in Objects
    BY <1>3 DEF IInv, PageSound
  <2> QED
    BY <1>2, <2>1, <2>2 DEF SweepSound
<1>7. ASSUME NEW o \in Objects, SweepNext(o) PROVE SweepSound'
  <2>1. /\ sweep'.targets = sweep.targets /\ sweep'.todo = sweep.todo \ {o}
        /\ sweep'.pc = "resolve" /\ sweep'.at = o /\ o \in sweep.todo /\ sweep.pc = "next"
    BY <1>3, <1>7 DEF SweepNext, SweepType
  <2>2. o \in sweep.targets
    BY <2>1 DEF IInv, TypeOK
  <2> QED
    BY <1>2, <1>4, <2>1, <2>2 DEF IInv, SweepSound
<1>8. CASE SweepDeletes
  <2>1. /\ sweep'.targets = sweep.targets /\ sweep'.todo = sweep.todo
        /\ sweep'.pc = "answered" /\ sweep'.at = sweep.at /\ sweep.pc = "resolve"
        /\ disk' = disk \ {File(sweep.at)} /\ saves' = saves /\ ResolvedName(sweep.at)
    BY <1>3, <1>8 DEF SweepDeletes, SweepType
  <2>2. sweep.at \in sweep.targets \ sweep.todo
    BY <2>1 DEF IInv, SweepSound
  <2>3. /\ Settled(sweep.at.name)
        /\ sweep.at \notin page.filed =>
             sweep.at.name \notin disk \/ (sweep.at.made = "live" /\ AnswerLost(sweep.at.name))
    BY <1>4, <2>1, <2>2, ResolvedSettled DEF OnShow
  <2>4. sweep.at.name \notin disk' \/ (sweep.at.made = "live" /\ AnswerLost(sweep.at.name)')
    BY <2>1, <2>3 DEF File, AnswerLost
  <2>5. \A n : n = sweep.at.name => LeftOver(n)'
    BY <2>1, <2>4 DEF LeftOver, AnswerLost
  <2> QED
    BY <1>2, <1>4, <2>1, <2>2, <2>3, <2>4, <2>5 DEF IInv, SweepSound
<1>9. CASE SweepGoesOn
  <2>1. /\ sweep'.targets = sweep.targets /\ sweep'.todo = sweep.todo
        /\ sweep'.pc = "next" /\ sweep.pc = "answered"
    BY <1>3, <1>9 DEF SweepGoesOn, SweepType
  <2> QED
    BY <1>2, <1>4, <2>1 DEF IInv, SweepSound
<1>10. CASE SweepFails
  <2>1. /\ sweep'.targets = sweep.targets /\ sweep'.todo = sweep.todo
        /\ sweep'.pc = "next" /\ sweep.pc = "resolve"
        /\ sweep'.failed = sweep.failed \cup ({sweep.at.name} \cap disk')
    BY <1>3, <1>10 DEF SweepFails, SweepType
  <2>2. sweep.at \in sweep.targets \ sweep.todo
    BY <2>1 DEF IInv, SweepSound
  <2>3. Settled(sweep.at.name)
    BY <1>4, <1>10, <2>2, ResolvedSettled DEF SweepFails
  <2>4. \A n : n = sweep.at.name => LeftOver(n)'
    BY <2>1 DEF LeftOver
  <2> QED
    BY <1>2, <1>4, <2>1, <2>2, <2>3, <2>4 DEF IInv, SweepSound
<1>11. CASE SweepEnds
  <2>1. sweep'.targets = {} /\ sweep'.pc = "idle"
    BY <1>3, <1>11 DEF SweepEnds, SweepType
  <2> QED
    BY <2>1 DEF SweepSound
<1> QED
  BY <1>1, <1>5, <1>6, <1>7, <1>8, <1>9, <1>10, <1>11 DEF Touched, Sweeping

LEMMA DeletedStep ==
  ASSUME IInv, [Next]_vars
  PROVE  DeletedSound'
<1>1. Grows /\ Touched
  BY Growth, Touching DEF IInv
<1>2. \A n : Settled(n) => Settled(n)' /\ (n \notin disk => n \notin disk')
  BY <1>1, GrowthKeeps DEF IInv
<1>3. \A n : Settled(n) /\ LeftOver(n) => LeftOver(n)'
  BY LeftOverStays
<1>4. ASSUME \A n \in deleted' \ deleted : Settled(n) /\ LeftOver(n)
      PROVE  DeletedSound'
  BY <1>2, <1>3, <1>4 DEF IInv, DeletedSound
<1>5. CASE deleted' = deleted
  BY <1>4, <1>5
<1>6. CASE SweepEnds
  <2>1. /\ sweep.pc = "next" /\ sweep.todo = {}
        /\ \A n \in deleted' \ deleted : \E o \in sweep.targets : n = o.name
    BY <1>6 DEF SweepEnds
  <2>2. \A o \in sweep.targets : Settled(o.name) /\ LeftOver(o.name)
    BY <2>1 DEF IInv, SweepSound
  <2> QED
    BY <1>4, <2>1, <2>2
<1>7. ASSUME NEW o \in Objects, DeleteUnsaved(o) PROVE DeletedSound'
  <2>1. /\ deleted' = deleted \cup {o.name} /\ removal[o] # "none"
        /\ ResolvedName(o) /\ File(o) = None
    BY <1>7 DEF DeleteUnsaved
  <2>2. OnShow(o)
    BY <2>1 DEF IInv, RemovalSound
  <2>3. o \notin page.filed
    BY <2>1, ObjectsKnown, NameKnown DEF File
  <2> QED
    BY <1>4, <2>1, <2>2, <2>3, ResolvedSettled DEF LeftOver
<1>8. ASSUME NEW o \in Objects, DeleteEnds(o) PROVE DeletedSound'
  BY <1>4, <1>8 DEF DeleteEnds, IInv, RemovalSound, LeftOver
<1> QED
  BY <1>1, <1>5, <1>6, <1>7, <1>8 DEF Touched

-----------------------------------------------------------------------------
LEMMA InitIInv == Init => IInv
<1> SUFFICES ASSUME Init PROVE IInv
  OBVIOUS
<1>1. TypeOK
  BY InitType
<1>2. \A n \in Stored : Written(n) /\ Settled(n) /\ n \notin Generated
  BY GalleryAssumption DEF Written, Settled
<1>3. /\ page.filed = {Scanned(n) : n \in Stored} /\ page.images = page.filed
      /\ \A n \in Stored : Scanned(n).name = n
  BY ObjectsKnown DEF Init, Names
<1>4. FilesSound /\ PageSound /\ DeletedSound
  BY <1>2, <1>3 DEF Init, FilesSound, PageSound, DeletedSound, OnShow
<1>5. SavesSound
  BY <1>2, <1>3, ObjectsKnown DEF Init, SavesSound
<1>6. ScanSound /\ RemovalSound /\ SweepSound
  BY DEF Init, NoScan, ScanSound, RemovalSound, SweepSound, Before
<1> QED
  BY <1>1, <1>4, <1>5, <1>6 DEF IInv

LEMMA Invariance == Spec => []IInv
<1>1. IInv /\ [Next]_vars => IInv'
  BY TypeStep, FilesStep, PageStep, ScanStep, RemovalStep, SweepStep, DeletedStep DEF IInv
<1> QED
  BY InitIInv, <1>1, PTL DEF Spec

(* Every variable of the gallery keeps to its type, whatever the listings, *)
(* saves and deletions that are under way at the same time.                *)
THEOREM TypeCorrect == Spec => []TypeOK
<1>1. IInv => TypeOK
  BY DEF IInv
<1> QED
  BY Invariance, <1>1, PTL

(* deleteImage and deleteAllSessionImages: an image the user saw deleted   *)
(* has no file, and gets none, also one that was deleted during its save.  *)
THEOREM DeletedHasNoFile == Spec => []DeletedIsGone
<1>1. IInv => DeletedIsGone
  BY DEF IInv, DeletedSound, DeletedIsGone, Gone, LeftOver
<1> QED
  BY Invariance, <1>1, PTL

-----------------------------------------------------------------------------
(* The steps after which an image may be gone from the page.               *)
Leaves ==
  \/ page.images \subseteq page'.images
  \/ Reconcile
  \/ SweepEnds
  \/ \E o \in Objects : DeleteUnsaved(o) \/ DeleteEnds(o)

LEMMA Leaving == TypeOK /\ [Next]_vars => Leaves
<1> SUFFICES ASSUME TypeOK, [Next]_vars PROVE Leaves
  OBVIOUS
<1>0. page \in PageType
  BY DEF TypeOK
<1>1. ASSUME NEW batch \in Batches, NEW save \in BOOLEAN, AddImages(batch, save) PROVE Leaves
  BY <1>0, <1>1 DEF AddImages, Leaves, PageType
<1>2. ASSUME NEW n \in Generated, SaveWrites(n) PROVE Leaves
  BY <1>0, <1>2 DEF SaveWrites, Leaves, PageType
<1>3. ASSUME NEW n \in Generated, SaveEnds(n) PROVE Leaves
  BY <1>0, <1>3 DEF SaveEnds, Leaves, PageType
<1>4. ASSUME NEW n \in Generated, SaveFails(n) PROVE Leaves
  BY <1>0, <1>4 DEF SaveFails, Leaves, PageType
<1>5. ASSUME NEW n \in Videos, VideoSaved(n) PROVE Leaves
  BY <1>0, <1>5 DEF VideoSaved, Leaves, PageType
<1>6. ASSUME NEW n \in Videos, EventLost(n) PROVE Leaves
  BY <1>0, <1>6 DEF EventLost, Leaves, PageType
<1>7. ASSUME NEW n \in Videos, AddPersistedImage(n) PROVE Leaves
  BY <1>0, <1>7 DEF AddPersistedImage, Leaves, PageType
<1>8. ASSUME NEW o \in Objects, ReadMetadata(o) PROVE Leaves
  BY <1>0, <1>8 DEF ReadMetadata, Leaves, PageType
<1>9. CASE ReadingEnds
  BY <1>0, <1>9 DEF ReadingEnds, Leaves, PageType
<1>10. ASSUME NEW refresh \in BOOLEAN, LoadFromDisk(refresh) PROVE Leaves
  BY <1>0, <1>10 DEF LoadFromDisk, Leaves, PageType
<1>11. CASE List
  BY <1>0, <1>11 DEF List, Leaves, PageType, Scanning
<1>12. CASE ListFails
  BY <1>0, <1>12 DEF ListFails, Leaves, PageType, Scanning
<1>13. CASE AwaitSaves
  BY <1>0, <1>13 DEF AwaitSaves, Leaves, PageType, Scanning
<1>14. CASE Reconcile
  BY <1>0, <1>14 DEF Reconcile, Leaves, PageType, Scanning
<1>15. CASE RefreshEnds
  BY <1>0, <1>15 DEF RefreshEnds, Leaves, PageType, Scanning
<1>16. ASSUME NEW o \in Objects, DeleteImage(o) PROVE Leaves
  BY <1>0, <1>16 DEF DeleteImage, Leaves, PageType
<1>17. ASSUME NEW o \in Objects, DeleteUnsaved(o) PROVE Leaves
  BY <1>0, <1>17 DEF DeleteUnsaved, Leaves, PageType, Deleting
<1>18. ASSUME NEW o \in Objects, DeleteFile(o) PROVE Leaves
  BY <1>0, <1>18 DEF DeleteFile, Leaves, PageType, Deleting
<1>19. ASSUME NEW o \in Objects, DeleteFails(o) PROVE Leaves
  BY <1>0, <1>19 DEF DeleteFails, Leaves, PageType, Deleting
<1>20. ASSUME NEW o \in Objects, DeleteEnds(o) PROVE Leaves
  BY <1>0, <1>20 DEF DeleteEnds, Leaves, PageType, Deleting
<1>21. CASE SweepStarts
  BY <1>0, <1>21 DEF SweepStarts, Leaves, PageType
<1>22. ASSUME NEW o \in Objects, SweepNext(o) PROVE Leaves
  BY <1>0, <1>22 DEF SweepNext, Leaves, PageType, Sweeping
<1>23. CASE SweepDeletes
  BY <1>0, <1>23 DEF SweepDeletes, Leaves, PageType, Sweeping
<1>24. CASE SweepGoesOn
  BY <1>0, <1>24 DEF SweepGoesOn, Leaves, PageType, Sweeping
<1>25. CASE SweepFails
  BY <1>0, <1>25 DEF SweepFails, Leaves, PageType, Sweeping
<1>26. CASE SweepEnds
  BY <1>0, <1>26 DEF SweepEnds, Leaves, PageType, Sweeping
<1>27. ASSUME NEW o \in Objects, SetBoard(o) PROVE Leaves
  BY <1>0, <1>27 DEF SetBoard, Leaves, PageType
<1>28. ASSUME NEW n \in Names, DeletedElsewhere(n) PROVE Leaves
  BY <1>0, <1>28 DEF DeletedElsewhere, Leaves, PageType
<1>29. CASE UNCHANGED vars
  BY <1>29 DEF vars, Leaves
<1> QED
  BY <1>1, <1>2, <1>3, <1>4, <1>5, <1>6, <1>7, <1>8, <1>9, <1>10, <1>11, <1>12, <1>13, <1>14, <1>15, <1>16, <1>17, <1>18, <1>19, <1>20, <1>21, <1>22, <1>23, <1>24, <1>25, <1>26, <1>27, <1>28, <1>29
  DEF Next, Saving, Reading, Scanning, Sweeping, Deleting

(* _loadFromDisk, deleteImage and deleteAllSessionImages: what leaves the  *)
(* page is what the user had deleted, or a saved image whose file is gone, *)
(* or another object of the same file stays.                               *)
THEOREM ScanLosesNothing == Spec => NothingLost
<1> DEFINE Kept ==
      \A o \in page.images \ page'.images :
        \/ LeavesByUser(o)
        \/ File(o) # None /\ (o.name \notin disk \/ o.name \in Files(page'.images))
<1>1. ASSUME IInv, [Next]_vars PROVE Kept
  <2> SUFFICES ASSUME NEW o \in page.images, o \notin page'.images
               PROVE  \/ LeavesByUser(o)
                      \/ File(o) # None /\ (o.name \notin disk \/ o.name \in Files(page'.images))
    OBVIOUS
  <2>1. page \in PageType /\ o \in Objects /\ sweep \in SweepType
    BY <1>1 DEF IInv, TypeOK, PageType
  <2>2. CASE Reconcile
    <3>1. page'.images = Retained \cup Reconciled /\ scan.pc = "saves"
      BY <2>1, <2>2 DEF Reconcile, PageType
    <3>2. File(o) # None /\ Before(o)
      BY <3>1 DEF Retained
    <3>3. o \in page.filed
      BY <3>2 DEF File
    <3>4. ASSUME o.name \in disk PROVE o.name \in Files(page'.images)
      <4>1. o.name \in scan.listed
        BY <1>1, <2>1, <3>1, <3>2, <3>4 DEF IInv, ScanSound
      <4>2. PICK i \in Existing(o.name) : i \in page.filed /\ i.name = o.name
        BY <3>3 DEF Existing
      <4>3. i \in Reconciled
        BY <4>1, <4>2 DEF Reconciled
      <4> QED
        BY <3>1, <4>2, <4>3 DEF Files
    <3> QED
      BY <3>2, <3>4
  <2>3. CASE page.images \subseteq page'.images
    BY <2>3
  <2>4. ASSUME NEW d \in Objects, DeleteUnsaved(d) \/ DeleteEnds(d) PROVE LeavesByUser(o)
    <3>1. removal[d] # "none" /\ removal'[d] = "none"
      BY <1>1, <2>4 DEF DeleteUnsaved, DeleteEnds, IInv, TypeOK
    <3>2. IsTarget(o, d)
      BY <2>1, <2>4 DEF DeleteUnsaved, DeleteEnds, IsTarget, PageType
    <3> QED
      BY <3>1, <3>2 DEF LeavesByUser
  <2>5. CASE SweepEnds
    BY <2>1, <2>5 DEF SweepEnds, LeavesByUser, PageType, SweepType
  <2> QED
    BY <1>1, <2>2, <2>3, <2>4, <2>5, Leaving DEF IInv, Leaves
<1>2. IInv /\ IInv' /\ [Next]_vars => [Kept]_vars
  BY <1>1
<1> QED
  BY Invariance, <1>2, PTL DEF Spec, NothingLost

-----------------------------------------------------------------------------
(* The steps after which an image may be gone from a board, or from the    *)
(* copy of a sweep.                                                        *)
BoardsLeave ==
  \/ /\ page.boards \subseteq page'.boards
     /\ sweep.pc = "idle" \/ sweep'.boards = sweep.boards
  \/ SweepGoesOn
  \/ SweepEnds
  \/ \E o \in Objects : DeleteEnds(o)

LEMMA BoardsLeaving == TypeOK /\ [Next]_vars => BoardsLeave
<1> SUFFICES ASSUME TypeOK, [Next]_vars PROVE BoardsLeave
  OBVIOUS
<1>0. page \in PageType /\ sweep \in SweepType
  BY DEF TypeOK
<1>1. ASSUME NEW batch \in Batches, NEW save \in BOOLEAN, AddImages(batch, save) PROVE BoardsLeave
  BY <1>0, <1>1 DEF AddImages, BoardsLeave, PageType, SweepType
<1>2. ASSUME NEW n \in Generated, SaveWrites(n) PROVE BoardsLeave
  BY <1>0, <1>2 DEF SaveWrites, BoardsLeave, PageType, SweepType
<1>3. ASSUME NEW n \in Generated, SaveEnds(n) PROVE BoardsLeave
  BY <1>0, <1>3 DEF SaveEnds, BoardsLeave, PageType, SweepType
<1>4. ASSUME NEW n \in Generated, SaveFails(n) PROVE BoardsLeave
  BY <1>0, <1>4 DEF SaveFails, BoardsLeave, PageType, SweepType
<1>5. ASSUME NEW n \in Videos, VideoSaved(n) PROVE BoardsLeave
  BY <1>0, <1>5 DEF VideoSaved, BoardsLeave, PageType, SweepType
<1>6. ASSUME NEW n \in Videos, EventLost(n) PROVE BoardsLeave
  BY <1>0, <1>6 DEF EventLost, BoardsLeave, PageType, SweepType
<1>7. ASSUME NEW n \in Videos, AddPersistedImage(n) PROVE BoardsLeave
  BY <1>0, <1>7 DEF AddPersistedImage, BoardsLeave, PageType, SweepType
<1>8. ASSUME NEW o \in Objects, ReadMetadata(o) PROVE BoardsLeave
  BY <1>0, <1>8 DEF ReadMetadata, BoardsLeave, PageType, SweepType
<1>9. CASE ReadingEnds
  BY <1>0, <1>9 DEF ReadingEnds, BoardsLeave, PageType, SweepType
<1>10. ASSUME NEW refresh \in BOOLEAN, LoadFromDisk(refresh) PROVE BoardsLeave
  BY <1>0, <1>10 DEF LoadFromDisk, BoardsLeave, PageType, SweepType
<1>11. CASE List
  BY <1>0, <1>11 DEF List, BoardsLeave, PageType, SweepType, Scanning
<1>12. CASE ListFails
  BY <1>0, <1>12 DEF ListFails, BoardsLeave, PageType, SweepType, Scanning
<1>13. CASE AwaitSaves
  BY <1>0, <1>13 DEF AwaitSaves, BoardsLeave, PageType, SweepType, Scanning
<1>14. CASE Reconcile
  BY <1>0, <1>14 DEF Reconcile, BoardsLeave, PageType, SweepType, Scanning
<1>15. CASE RefreshEnds
  BY <1>0, <1>15 DEF RefreshEnds, BoardsLeave, PageType, SweepType, Scanning
<1>16. ASSUME NEW o \in Objects, DeleteImage(o) PROVE BoardsLeave
  BY <1>0, <1>16 DEF DeleteImage, BoardsLeave, PageType, SweepType
<1>17. ASSUME NEW o \in Objects, DeleteUnsaved(o) PROVE BoardsLeave
  BY <1>0, <1>17 DEF DeleteUnsaved, BoardsLeave, PageType, SweepType, Deleting
<1>18. ASSUME NEW o \in Objects, DeleteFile(o) PROVE BoardsLeave
  BY <1>0, <1>18 DEF DeleteFile, BoardsLeave, PageType, SweepType, Deleting
<1>19. ASSUME NEW o \in Objects, DeleteFails(o) PROVE BoardsLeave
  BY <1>0, <1>19 DEF DeleteFails, BoardsLeave, PageType, SweepType, Deleting
<1>20. ASSUME NEW o \in Objects, DeleteEnds(o) PROVE BoardsLeave
  BY <1>0, <1>20 DEF DeleteEnds, BoardsLeave, PageType, SweepType, Deleting
<1>21. CASE SweepStarts
  BY <1>0, <1>21 DEF SweepStarts, BoardsLeave, PageType, SweepType
<1>22. ASSUME NEW o \in Objects, SweepNext(o) PROVE BoardsLeave
  BY <1>0, <1>22 DEF SweepNext, BoardsLeave, PageType, SweepType, Sweeping
<1>23. CASE SweepDeletes
  BY <1>0, <1>23 DEF SweepDeletes, BoardsLeave, PageType, SweepType, Sweeping
<1>24. CASE SweepGoesOn
  BY <1>0, <1>24 DEF SweepGoesOn, BoardsLeave, PageType, SweepType, Sweeping
<1>25. CASE SweepFails
  BY <1>0, <1>25 DEF SweepFails, BoardsLeave, PageType, SweepType, Sweeping
<1>26. CASE SweepEnds
  BY <1>0, <1>26 DEF SweepEnds, BoardsLeave, PageType, SweepType, Sweeping
<1>27. ASSUME NEW o \in Objects, SetBoard(o) PROVE BoardsLeave
  BY <1>0, <1>27 DEF SetBoard, BoardsLeave, PageType, SweepType
<1>28. ASSUME NEW n \in Names, DeletedElsewhere(n) PROVE BoardsLeave
  BY <1>0, <1>28 DEF DeletedElsewhere, BoardsLeave, PageType, SweepType
<1>29. CASE UNCHANGED vars
  BY <1>29 DEF vars, BoardsLeave
<1> QED
  BY <1>1, <1>2, <1>3, <1>4, <1>5, <1>6, <1>7, <1>8, <1>9, <1>10, <1>11, <1>12, <1>13, <1>14, <1>15, <1>16, <1>17, <1>18, <1>19, <1>20, <1>21, <1>22, <1>23, <1>24, <1>25, <1>26, <1>27, <1>28, <1>29
  DEF Next, Saving, Reading, Scanning, Sweeping, Deleting

(* deleteImage and deleteAllSessionImages: a board is taken from a file    *)
(* that has been deleted, in the sweep's copy as well.                     *)
THEOREM BoardsStay == Spec => BoardsKept
<1> DEFINE Kept ==
      /\ \A key \in page.boards \ page'.boards :
           \/ key[1] \notin disk
           \/ sweep.pc # "idle" /\ key \notin sweep.boards
      /\ sweep.pc # "idle" /\ sweep'.pc # "idle" =>
           \A key \in sweep.boards \ sweep'.boards : key[1] \notin disk
<1>1. ASSUME IInv, [Next]_vars PROVE Kept
  <2>1. page \in PageType /\ sweep \in SweepType /\ disk \subseteq Names
    BY <1>1 DEF IInv, TypeOK
  <2>2. CASE /\ page.boards \subseteq page'.boards
             /\ sweep.pc = "idle" \/ sweep'.boards = sweep.boards
    BY <2>2
  <2>3. CASE SweepEnds
    <3>1. sweep'.pc = "idle" /\ sweep.pc = "next"
      BY <2>1, <2>3 DEF SweepEnds, SweepType
    <3>2. page'.boards = sweep.boards \/ page'.boards = page.boards
      BY <2>1, <2>3 DEF SweepEnds, PageType
    <3> QED
      BY <3>1, <3>2
  <2>4. ASSUME NEW o \in Objects, DeleteEnds(o) PROVE Kept
    <3>1. /\ page'.boards = page.boards \ {<<o.name, "file">>} /\ sweep' = sweep
          /\ removal[o] = "answered"
      BY <2>1, <2>4 DEF DeleteEnds, PageType
    <3>2. o.name \notin disk
      BY <1>1, <3>1 DEF IInv, RemovalSound
    <3> QED
      BY <3>1, <3>2
  <2>5. CASE SweepGoesOn
    <3>1. /\ sweep'.boards = sweep.boards \ {<<File(sweep.at), "file">>}
          /\ page' = page /\ sweep.pc = "answered"
      BY <2>1, <2>5 DEF SweepGoesOn, SweepType
    <3>2. sweep.at.name \notin disk \/ (sweep.at.made = "live" /\ AnswerLost(sweep.at.name))
      BY <1>1, <3>1 DEF IInv, SweepSound
    <3>3. sweep.at \in Objects
      BY <1>1, <2>1, <3>1 DEF IInv, SweepSound, SweepType
    <3>4. File(sweep.at) \notin disk
      <4>1. CASE sweep.at \notin page.filed
        BY <2>1, <4>1, ObjectsKnown DEF File
      <4>2. CASE sweep.at \in page.filed
        <5>1. ~ (sweep.at.made = "live" /\ AnswerLost(sweep.at.name))
          BY <1>1, <3>3, <4>2, ObjectsKnown, NameKnown DEF IInv, SavesSound, AnswerLost
        <5> QED
          BY <3>2, <4>2, <5>1 DEF File
      <4> QED
        BY <4>1, <4>2
    <3> QED
      BY <3>1, <3>4
  <2> QED
    BY <1>1, <2>2, <2>3, <2>4, <2>5, BoardsLeaving DEF IInv, BoardsLeave
<1>2. IInv /\ IInv' /\ [Next]_vars => [Kept]_vars
  BY <1>1
<1> QED
  BY Invariance, <1>2, PTL DEF Spec, BoardsKept

-----------------------------------------------------------------------------
(* What comes back, and what is shown twice.                               *)

LEMMA NamesOfPairs ==
  ASSUME NEW S \in SUBSET (Objects \X BOOLEAN), NEW n \in {b[1].name : b \in {c \in S : c[2]}}
  PROVE  \E o \in Objects : <<o, TRUE>> \in S /\ o.name = n
<1>1. PICK b \in S : b[2] /\ b[1].name = n
  OBVIOUS
<1>2. PICK o \in Objects, t \in BOOLEAN : b = <<o, t>>
  <2>1. b \in Objects \X BOOLEAN
    BY <1>1
  <2> QED
    BY <2>1
<1>3. b[1] = o /\ b[2] = t
  BY <1>2
<1>4. t = TRUE
  BY <1>1, <1>3, Zenon
<1>5. <<o, TRUE>> \in S
  BY <1>2, <1>4, Zenon
<1> QED
  BY <1>1, <1>3, <1>5

LEMMA BeforeNamesKnown ==
  ASSUME TypeOK
  PROVE  \A n \in BeforeNames : \E o \in Objects : Before(o) /\ o.name = n
<1>1. scan.before \in SUBSET (Objects \X BOOLEAN)
  BY DEF TypeOK, ScanType
<1> QED
  BY <1>1, NamesOfPairs DEF BeforeNames, Before

(* How scans end.                                                          *)
LEMMA EndsIdle ==
  ASSUME ListFails \/ Reconcile \/ RefreshEnds
  PROVE  scan'.pc \in {"idle", "refresh"}
<1>1. NoScan.pc = "idle" /\ [NoScan EXCEPT !.pc = "refresh", !.refresh = TRUE].pc = "refresh"
  BY DEF NoScan
<1>2. scan' = NoScan \/ scan' = [NoScan EXCEPT !.pc = "refresh", !.refresh = TRUE]
  BY DEF ListFails, Reconcile, RefreshEnds
<1> QED
  BY <1>1, <1>2

LEMMA BeforeStep ==
  ASSUME ShowInv, [Next]_vars
  PROVE  BeforeSound'
<1>1. Grows /\ Touched
  BY Growth, Touching DEF ShowInv, IInv
<1>2. scan \in ScanType /\ page \in PageType
  BY DEF ShowInv, IInv, TypeOK
<1>3. \A n : AnswerLost(n) => AnswerLost(n)'
  BY <1>1 DEF Grows, AnswerLost
<1>4. ASSUME scan'.before = scan.before, Underway' => Underway,
             \A o \in page'.images \ page.images :
               o.made # "scan" /\ (o.made = "live" => o.name \notin BeforeNames)
      PROVE  BeforeSound'
  BY <1>3, <1>4 DEF ShowInv, BeforeSound, Before, BeforeNames
<1>5. CASE scan' = scan
  <2>1. CASE page'.images \subseteq page.images
    BY <1>4, <1>5, <2>1 DEF Underway
  <2>2. ASSUME NEW batch \in Batches, NEW save \in BOOLEAN, AddImages(batch, save)
        PROVE  BeforeSound'
    <3>1. page'.images = page.images \cup {Live(n) : n \in batch}
      BY <1>2, <2>2 DEF AddImages, PageType
    <3>2. \A n \in batch : n \in Generated /\ saves[n] = "none"
      BY <2>2, GalleryAssumption DEF AddImages
    <3>3. \A n \in batch : n \notin BeforeNames
      BY <3>2, BeforeNamesKnown DEF ShowInv, IInv, ScanSound, PageSound, Written
    <3> QED
      BY <1>4, <1>5, <3>1, <3>2, <3>3, ObjectsKnown DEF Underway
  <2>3. ASSUME NEW n \in Generated, SaveEnds(n) PROVE BeforeSound'
    BY <1>2, <2>1, <2>3 DEF SaveEnds, PageType
  <2>4. ASSUME NEW n \in Videos, AddPersistedImage(n) PROVE BeforeSound'
    <3>1. page'.images = page.images \cup {Posted(n)}
      BY <1>2, <2>4 DEF AddPersistedImage, PageType
    <3> QED
      BY <1>4, <1>5, <3>1, ObjectsKnown DEF Underway
  <2>5. ~ Reconcile
    BY <1>5, EndsIdle DEF Reconcile
  <2> QED
    BY <1>1, <2>1, <2>2, <2>3, <2>4, <2>5 DEF Touched
<1>6. ASSUME NEW refresh \in BOOLEAN, LoadFromDisk(refresh) PROVE BeforeSound'
  <2>1. /\ scan'.before = {<<o, o \in page.filed>> : o \in page.images}
        /\ page' = page /\ saves' = saves
    BY <1>6 DEF LoadFromDisk, NoScan
  <2>2. ASSUME NEW o \in page.images, o \in page.filed PROVE Before(o)'
    <3>1. <<o, TRUE>> = <<o, o \in page.filed>>
      BY <2>2, Zenon
    <3> QED
      BY <2>1, <2>2, <3>1, Zenon DEF Before
  <2>3. \A n \in BeforeNames' : \E o \in page.filed : o.name = n
    <3>1. TypeOK'
      BY TypeStep DEF ShowInv, IInv
    <3>2. ScanSound'
      BY ScanStep DEF ShowInv
    <3>3. \A n \in BeforeNames' : \E o \in Objects : Before(o)' /\ o.name = n
      <4>1. scan'.before \in SUBSET (Objects \X BOOLEAN)
        BY <3>1 DEF TypeOK, ScanType
      <4> QED
        BY <4>1, NamesOfPairs DEF BeforeNames, Before
    <3> QED
      BY <2>1, <3>2, <3>3 DEF ScanSound
  <2>4. \A o \in page.images : o.made = "scan" => o \in page.filed
    BY DEF ShowInv, IInv, PageSound, OnShow
  <2>5. ASSUME NEW o \in page.images, o.made = "live", o.name \in BeforeNames'
        PROVE  o \in page.filed \/ AnswerLost(o.name)
    <3>1. Written(o.name) /\ Settled(o.name)
      BY <2>3, <2>5 DEF ShowInv, IInv, PageSound
    <3>2. o.name \in Generated /\ o = Live(o.name)
      BY <1>2, <2>5, ObjectsKnown, NameKnown DEF PageType
    <3>3. saves[o.name] \in {"saved", "lost"}
      BY <3>1, <3>2 DEF Written, Settled
    <3> QED
      BY <3>2, <3>3 DEF ShowInv, IInv, SavesSound, AnswerLost
  <2> QED
    BY <1>3, <2>1, <2>2, <2>4, <2>5 DEF BeforeSound
<1>7. CASE List \/ AwaitSaves
  BY <1>2, <1>4, <1>7 DEF List, AwaitSaves, ScanType, Underway
<1>8. CASE ListFails \/ Reconcile \/ RefreshEnds
  <2>1. scan'.pc \in {"idle", "refresh"}
    BY <1>8, EndsIdle
  <2> QED
    BY <2>1 DEF BeforeSound, Underway
<1> QED
  BY <1>1, <1>5, <1>6, <1>7, <1>8 DEF Touched, Scanning

LEMMA ListingStep ==
  ASSUME ShowInv, [Next]_vars
  PROVE  ListingSound'
<1>1. Grows /\ Touched
  BY Growth, Touching DEF ShowInv, IInv
<1>2. scan \in ScanType /\ page \in PageType /\ page.images \subseteq Objects
  BY DEF ShowInv, IInv, TypeOK, PageType
<1>3. \A n : AnswerLost(n) => AnswerLost(n)'
  BY <1>1 DEF Grows, AnswerLost
<1>0. sweep.failed \subseteq sweep'.failed
  BY LeftOverStays DEF ShowInv
<1>4. ASSUME scan'.listed = scan.listed,
             scan'.pc \in {"parse", "saves"} => scan.pc \in {"parse", "saves"},
             \A o \in page'.images \cap page'.filed :
               o.name \in scan.listed \cap Gone' =>
                 \/ o.made = "posted"
                 \/ o \in page.images \cap page.filed /\ o.name \in deleted
      PROVE  ListingSound'
  BY <1>0, <1>3, <1>4 DEF ShowInv, ListingSound, Gone
<1>5. CASE scan' = scan /\ deleted' = deleted
  <2>1. CASE page'.images \subseteq page.images /\ page'.filed = page.filed
    BY <1>4, <1>5, <2>1 DEF Gone
  <2>2. ASSUME NEW batch \in Batches, NEW save \in BOOLEAN, AddImages(batch, save)
        PROVE  ListingSound'
    <3>1. page'.images = page.images \cup {Live(n) : n \in batch} /\ page'.filed = page.filed
      BY <1>2, <2>2 DEF AddImages, PageType
    <3>2. \A n \in batch : n \in Generated /\ saves[n] = "none"
      BY <2>2, GalleryAssumption DEF AddImages
    <3>3. \A n \in batch : Live(n) \notin page.filed
      BY <3>2 DEF ShowInv, IInv, SavesSound
    <3> QED
      BY <1>4, <1>5, <3>1, <3>3 DEF Gone
  <2>3. ASSUME NEW n \in Generated, SaveEnds(n) PROVE ListingSound'
    <3>1. /\ page'.images = page.images /\ page'.filed = page.filed \cup {Live(n)}
          /\ saves[n] = "written"
      BY <1>2, <2>3 DEF SaveEnds, PageType
    <3>2. n \notin deleted
      BY <3>1 DEF ShowInv, IInv, DeletedSound, Settled
    <3> QED
      BY <1>4, <1>5, <3>1, <3>2, ObjectsKnown DEF Gone
  <2>4. ASSUME NEW n \in Videos, AddPersistedImage(n) PROVE ListingSound'
    <3>1. /\ page'.images = page.images \cup {Posted(n)}
          /\ page'.filed = page.filed \cup {Posted(n)}
      BY <1>2, <2>4 DEF AddPersistedImage, PageType
    <3> QED
      BY <1>4, <1>5, <3>1, ObjectsKnown DEF Gone
  <2>5. ~ Reconcile
    BY <1>5, EndsIdle DEF Reconcile
  <2> QED
    BY <1>1, <2>1, <2>2, <2>3, <2>4, <2>5 DEF Touched
<1>6. CASE SweepEnds
  <2>1. /\ scan' = scan /\ page'.images = page.images \ sweep.targets
        /\ page'.filed = page.filed
        /\ \A n \in deleted' \ deleted : n \notin Files(page.images \ sweep.targets)
    BY <1>2, <1>6 DEF SweepEnds, PageType
  <2> QED
    BY <1>4, <2>1 DEF Gone, Files
<1>7. ASSUME NEW d \in Objects, DeleteEnds(d) PROVE ListingSound'
  <2>1. /\ scan' = scan /\ page'.images = {i \in page.images : ~ IsTarget(i, d)}
        /\ page'.filed = page.filed /\ deleted' = deleted \cup {d.name}
    BY <1>2, <1>7 DEF DeleteEnds, PageType
  <2> QED
    BY <1>4, <2>1 DEF Gone, IsTarget
<1>8. ASSUME NEW d \in Objects, DeleteUnsaved(d) PROVE ListingSound'
  <2>1. /\ scan' = scan /\ page'.images = page.images \ {d} /\ saves' = saves
        /\ page'.filed = page.filed /\ deleted' = deleted \cup {d.name}
        /\ removal[d] # "none" /\ ResolvedName(d) /\ File(d) = None
    BY <1>2, <1>8 DEF DeleteUnsaved, PageType
  <2>2. OnShow(d) /\ d \notin page.filed
    BY <2>1, ObjectsKnown, NameKnown DEF File, ShowInv, IInv, RemovalSound
  <2>3. ASSUME d.name \in scan.listed PROVE AnswerLost(d.name)
    <3>1. Written(d.name) /\ Settled(d.name)
      BY <2>1, <2>2, <2>3, ResolvedSettled DEF ShowInv, IInv, ScanSound
    <3>2. d.name \in Generated /\ d = Live(d.name)
      BY <2>2, ObjectsKnown, NameKnown DEF OnShow
    <3>3. saves[d.name] \in {"saved", "lost"}
      BY <3>1, <3>2 DEF Written, Settled
    <3> QED
      BY <2>2, <3>2, <3>3 DEF ShowInv, IInv, SavesSound, AnswerLost
  <2> QED
    BY <1>3, <1>4, <2>1, <2>3 DEF Gone
<1>9. CASE List
  <2>1. scan'.listed = disk /\ disk' = disk /\ deleted' = deleted
    BY <1>2, <1>9 DEF List, ScanType
  <2>2. \A n \in disk : n \notin Gone'
    BY <1>0, <1>3, <2>1 DEF ShowInv, IInv, DeletedSound, LeftOver, Gone
  <2> QED
    BY <2>1, <2>2 DEF ListingSound
<1>10. CASE AwaitSaves
  BY <1>2, <1>4, <1>10 DEF AwaitSaves, ScanType, Gone
<1>11. ASSUME scan'.pc \in {"idle", "list", "refresh"} PROVE ListingSound'
  BY <1>11 DEF ListingSound
<1>12. ListFails \/ Reconcile \/ RefreshEnds \/ (\E refresh \in BOOLEAN : LoadFromDisk(refresh))
       => scan'.pc \in {"idle", "list", "refresh"}
  BY EndsIdle DEF LoadFromDisk, NoScan
<1>13. scan' # scan => deleted' = deleted
  BY <1>1, <1>6, <1>7, <1>8 DEF Touched, SweepEnds, DeleteEnds, DeleteUnsaved
<1> QED
  BY <1>1, <1>5, <1>6, <1>7, <1>8, <1>9, <1>10, <1>11, <1>12, <1>13 DEF Touched, Scanning

LEMMA ShowInvariance == Spec => []ShowInv
<1>1. Init => BeforeSound /\ ListingSound
  BY DEF Init, NoScan, BeforeSound, ListingSound, Underway
<1>2. IInv /\ [Next]_vars => IInv'
  BY TypeStep, FilesStep, PageStep, ScanStep, RemovalStep, SweepStep, DeletedStep DEF IInv
<1>3. ShowInv /\ [Next]_vars => ShowInv'
  BY <1>2, BeforeStep, ListingStep DEF ShowInv
<1>4. Init => ShowInv
  BY <1>1, InitIInv DEF ShowInv
<1> QED
  BY <1>3, <1>4, PTL DEF Spec

(* Only the reconciling ends a scan that waits for saves.                  *)
LEMMA EndReconciles ==
  ASSUME TypeOK, [Next]_vars, ScanEnds
  PROVE  /\ Reconcile
         /\ page'.images = Retained \cup Reconciled
<1>1. Touched /\ page \in PageType
  BY Touching DEF TypeOK
<1>2. Reconcile
  BY <1>1 DEF Touched, ScanEnds, Scanning, LoadFromDisk, List, ListFails, AwaitSaves, RefreshEnds
<1> QED
  BY <1>1, <1>2 DEF Reconcile, PageType

(* _loadFromDisk: an image that was on show with its file name when the    *)
(* scan began and has been deleted since does not come back, however old   *)
(* the listing is.                                                         *)
THEOREM DeletedStays == Spec => StaysDeleted
<1> DEFINE Stays ==
      ScanEnds => Gone \cap BeforeNames \cap
                  Files({o \in page.images : o.made # "posted"})' = {}
<1>1. ASSUME ShowInv, [Next]_vars PROVE Stays
  <2> SUFFICES ASSUME ScanEnds, NEW o \in page'.images, o.made # "posted", o \in page'.filed,
                      o.name \in Gone, o.name \in BeforeNames
               PROVE  FALSE
    BY DEF Files
  <2>1. /\ Reconcile /\ page'.images = Retained \cup Reconciled
        /\ scan.pc = "saves" /\ (o \in page.images => o \in page.filed)
    <3>1. /\ Reconcile /\ page'.images = Retained \cup Reconciled
          /\ scan.pc = "saves" /\ page \in PageType
      BY <1>1, EndReconciles DEF ShowInv, IInv, TypeOK, ScanEnds
    <3>2. page'.filed = page.filed \cup (Reconciled \ page.images)
      BY <3>1 DEF Reconcile, PageType
    <3> QED
      BY <3>1, <3>2
  <2>2. CASE o \in Retained
    <3>1. o \in page.images /\ ~ Before(o) /\ o \in Objects
      BY <1>1, <2>1, <2>2, ObjectsKnown, NameKnown DEF Retained, File, ShowInv, IInv, TypeOK, PageType
    <3>2. o.made \in {"live", "scan"}
      BY <3>1 DEF Objects
    <3> QED
      BY <1>1, <2>1, <3>1, <3>2 DEF ShowInv, BeforeSound, Underway, Gone
  <2>3. CASE o \in Reconciled
    <3>1. PICK n \in scan.listed :
            o \in Existing(n) \/ (n \notin BeforeNames /\ o = Scanned(n))
      BY <2>3 DEF Reconciled
    <3>2. CASE o \in Existing(n)
      BY <1>1, <2>1, <3>1, <3>2 DEF Existing, ShowInv, ListingSound
    <3>3. CASE n \notin BeforeNames /\ o = Scanned(n)
      BY <1>1, <3>3, ObjectsKnown DEF ShowInv, IInv, TypeOK, ScanType
    <3> QED
      BY <3>1, <3>2, <3>3
  <2> QED
    BY <2>1, <2>2, <2>3
<1>2. ShowInv /\ ShowInv' /\ [Next]_vars => [Stays]_vars
  BY <1>1
<1> QED
  BY ShowInvariance, <1>2, PTL DEF Spec, StaysDeleted

(* An object a scan has made stands beside another one of its file only if *)
(* the answer to the save was lost.                                        *)
LEMMA ScannedAlone ==
  ASSUME ShowInv, Reconcile, page'.images = Retained \cup Reconciled,
         NEW n \in Names, Scanned(n) \in page'.images,
         NEW a \in page'.images, a \in Objects, a.name = n, a.made # "scan"
  PROVE  AnswerLost(n)
<1>1. scan.pc = "saves" /\ Scanned(n) \in Objects /\ Scanned(n).name = n /\ Scanned(n).made = "scan"
  BY ObjectsKnown DEF Reconcile
<1>2. Scanned(n) \notin Retained
  <2>1. Scanned(n) \in page.images => Scanned(n) \in page.filed /\ Before(Scanned(n))
    BY <1>1 DEF ShowInv, IInv, PageSound, OnShow, BeforeSound, Underway
  <2> QED
    BY <1>1, <2>1, ObjectsKnown, NameKnown DEF Retained, File
<1>3. PICK m \in scan.listed :
        Scanned(n) \in Existing(m) \/ (Existing(m) = {} /\ Scanned(n) = Scanned(m))
  BY <1>2 DEF Reconciled
<1>4. m = n
  BY <1>1, <1>3, ObjectsKnown DEF Existing, ShowInv, IInv, TypeOK, ScanType
<1>5. a \in page.images
  <2>1. ASSUME a \in Reconciled PROVE a \in page.images
    <3>1. PICK k \in scan.listed : a \in Existing(k) \/ a = Scanned(k)
      BY <2>1 DEF Reconciled
    <3>2. a # Scanned(k)
      BY ObjectsKnown DEF ShowInv, IInv, TypeOK, ScanType
    <3> QED
      BY <3>1, <3>2 DEF Existing
  <2> QED
    BY <2>1 DEF Retained
<1>6. a \notin page.filed
  BY <1>1, <1>3, <1>4, <1>5 DEF Existing
<1>7. n \in Generated /\ a = Live(n)
  BY <1>5, <1>6, ObjectsKnown, NameKnown DEF ShowInv, IInv, PageSound, OnShow
<1>8. saves[n] \in {"saved", "lost"}
  BY <1>4, <1>7, ListedSettled DEF ShowInv, Written, Settled
<1> QED
  BY <1>6, <1>7, <1>8 DEF ShowInv, IInv, SavesSound, AnswerLost

(* _loadFromDisk: after a scan no file is shown by two objects, unless the *)
(* answer to its save was lost.                                            *)
THEOREM OneObjectEach == Spec => ShownOnce
<1> DEFINE Once ==
      ScanEnds => \A a, b \in page'.images :
                    a.name = b.name => a = b \/ AnswerLost(a.name)
<1>1. ASSUME ShowInv, [Next]_vars PROVE Once
  <2> SUFFICES ASSUME ScanEnds, NEW a \in page'.images, NEW b \in page'.images,
                      a.name = b.name, ~ AnswerLost(a.name)
               PROVE  a = b
    OBVIOUS
  <2>1. Reconcile /\ page'.images = Retained \cup Reconciled
    BY <1>1, EndReconciles DEF ShowInv, IInv
  <2>2. a \in Objects /\ b \in Objects
    <3>1. TypeOK'
      BY <1>1, TypeStep DEF ShowInv, IInv
    <3> QED
      BY <3>1 DEF TypeOK, PageType
  <2>3. ASSUME NEW x \in page'.images, NEW y \in page'.images, x \in Objects, y \in Objects,
               x.name = y.name, ~ AnswerLost(x.name), y.made = "scan"
        PROVE  x.made = "scan"
    <3>1. x.name \in Names /\ y = Scanned(x.name)
      BY <2>3, NameKnown DEF Objects, Scanned
    <3> QED
      BY <1>1, <2>1, <2>3, <3>1, ScannedAlone
  <2>4. a.made = b.made
    BY <2>2, <2>3, GalleryAssumption DEF Objects
  <2> QED
    BY <2>2, <2>4 DEF Objects
<1>2. ShowInv /\ ShowInv' /\ [Next]_vars => [Once]_vars
  BY <1>1
<1> QED
  BY ShowInvariance, <1>2, PTL DEF Spec, ShownOnce

-----------------------------------------------------------------------------
(* A save that is under way can go on, or one that is saved before it can: *)
(* a batch is saved in order.                                              *)
LEMMA SomeSaveGoesOn ==
  ASSUME TypeOK, NEW n \in Generated, Pending(n)
  PROVE  SavingGoesOn
<1> DEFINE S == {m \in Generated : Pending(m)}
<1>1. S \in SUBSET Generated /\ S # {}
  OBVIOUS
<1>2. PICK m \in S : Earlier(m) \cap S = {}
  BY <1>1, GalleryAssumption
<1>3. IsNext(m)
  BY <1>2, GalleryAssumption DEF IsNext
<1> QED
  BY <1>2, <1>3 DEF SavingGoesOn, Pending

(* Scans, deletions and sweeps wait for saves and for metadata only, and   *)
(* those wait for nobody: as long as one of them is under way, some        *)
(* answer is due or can be taken up.                                       *)
THEOREM NobodyIsStuck == Spec => []NeverStuck
<1>1. ASSUME TypeOK, Busy PROVE NeverStuck
  <2> SUFFICES ASSUME ~ SavingGoesOn, ~ reading.on
               PROVE  \/ ScanGoesOn \/ SweepingGoesOn
                      \/ \E o \in Objects : DeletionGoesOn(o)
    BY DEF NeverStuck
  <2>1. \A n : ~ Pending(n)
    BY <1>1, SomeSaveGoesOn DEF Pending
  <2>2. \A o : ResolvedName(o)
    BY <2>1 DEF ResolvedName
  <2>3. CASE scan.pc # "idle"
    BY <1>1, <2>1, <2>3 DEF TypeOK, ScanType, ScanGoesOn
  <2>4. CASE sweep.pc # "idle"
    BY <1>1, <2>2, <2>4 DEF TypeOK, SweepType, SweepingGoesOn
  <2>5. CASE \E o \in Objects : removal[o] # "none"
    BY <1>1, <2>2, <2>5 DEF TypeOK, DeletionGoesOn
  <2> QED
    BY <1>1, <2>3, <2>4, <2>5 DEF Busy
<1>2. TypeOK => NeverStuck
  BY <1>1 DEF NeverStuck
<1> QED
  BY TypeCorrect, <1>2, PTL

=============================================================================
