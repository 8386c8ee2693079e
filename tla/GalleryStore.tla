----------------------------- MODULE GalleryStore -----------------------------
(***************************************************************************)
(* The gallery of the frontend (gallery.svelte.ts) against the directory   *)
(* on the server: results are shown at once and saved one after the other, *)
(* scans of the directory are reconciled with what is shown, images are    *)
(* deleted one by one or all of a session, boards are assigned by file     *)
(* name, and metadata is read in the background.  Every call to the server *)
(* takes effect at some time between the request and the answer.           *)
(*                                                                         *)
(* An image object is its name, which stands for the file it is saved as,  *)
(* and the way it was made: shown from its pixels (live), inserted by      *)
(* addPersistedImage (posted), or read from the directory (scan).          *)
(***************************************************************************)
EXTENDS Integers, FiniteSets

CONSTANTS
  Stored,      \* the files that are there when the page opens
  Generated,   \* the images that come from prompts, saved by the page
  Videos,      \* the files the server saves by itself and tells the page of
  Batches,     \* the sets of images that belong to one prompt
  Earlier(_),  \* the images of the same batch that are saved before one
  Tagged,      \* the files that carry metadata
  None,        \* no file; no request
  MaxScans,    \* bound: scans
  MaxDeletes,  \* bound: single deletions, and sweeps
  MaxMoves,    \* bound: changes of the boards
  MaxFaults    \* bound: failed calls, and files deleted by somebody else

Names == Stored \cup Generated \cup Videos

Objects == [name : Generated, made : {"live"}] \cup [name : Videos, made : {"posted"}]
           \cup [name : Names, made : {"scan"}]

Live(n) == [name |-> n, made |-> "live"]
Posted(n) == [name |-> n, made |-> "posted"]
Scanned(n) == [name |-> n, made |-> "scan"]

ASSUME GalleryAssumption ==
  /\ Stored \cap Generated = {} /\ Stored \cap Videos = {} /\ Generated \cap Videos = {}
  /\ None \notin Names
  /\ Tagged \subseteq Names
  /\ Batches \subseteq SUBSET Generated
  /\ \A n \in Generated : Earlier(n) \in SUBSET (Generated \ {n})
  /\ \A S \in SUBSET Generated : S # {} => \E n \in S : Earlier(n) \cap S = {}
  /\ {MaxScans, MaxDeletes, MaxMoves, MaxFaults} \subseteq Nat

VARIABLES
  disk,     \* the files of the gallery directory
  page,     \* the store: images, sessionImages, files, boardAssignments
  saves,    \* persistImages: where each generated image is
  clips,    \* the output_video event of each clip
  scan,     \* _loadFromDisk
  reading,  \* _runMetadataHydration
  removal,  \* deleteImage: the request for each object
  sweep,    \* deleteAllSessionImages
  deleted,  \* history: the images the user saw deleted
  bounds    \* what has been used up of the bounds

vars == <<disk, page, saves, clips, scan, reading, removal, sweep, deleted, bounds>>

(* boardAssignments has an entry under the file's name, or under another   *)
(* key for an image without a file.                                        *)
Keys == Names \X {"file", "unsaved"}

SaveStages == {"none", "shown", "queued", "written", "saved", "failed", "lost"}

NoScan == [pc |-> "idle", refresh |-> FALSE, before |-> {}, listed |-> {}, waits |-> {}]

PageType ==
  [images : SUBSET Objects, session : SUBSET Objects, filed : SUBSET Objects,
   sized : SUBSET Objects, known : SUBSET Objects, misses : SUBSET Names,
   boards : SUBSET Keys]

ScanType ==
  [pc : {"idle", "list", "parse", "saves", "refresh"}, refresh : BOOLEAN,
   before : SUBSET (Objects \X BOOLEAN), listed : SUBSET Names, waits : SUBSET Generated]

SweepType ==
  [pc : {"idle", "next", "resolve", "answered"}, targets : SUBSET Objects,
   todo : SUBSET Objects, at : Objects \cup {None}, boards : SUBSET Keys, changed : BOOLEAN,
   failed : SUBSET Names]

TypeOK ==
  /\ disk \in SUBSET Names
  /\ page \in PageType
  /\ saves \in [Generated -> SaveStages]
  /\ clips \in [Videos -> {"none", "sent", "told"}]
  /\ scan \in ScanType
  /\ reading \in [on : BOOLEAN, todo : SUBSET Objects]
  /\ removal \in [Objects -> {"none", "resolve", "answered"}]
  /\ sweep \in SweepType
  /\ deleted \in SUBSET Names
  /\ bounds \in [{"scans", "deletes", "moves", "faults"} -> Nat]
  /\ page.session \subseteq page.images /\ sweep.todo \subseteq sweep.targets

(* The page has been opened and has loaded the directory. *)
Init ==
  /\ disk = Stored
  /\ LET first == {Scanned(n) : n \in Stored}
     IN  page = [images |-> first, session |-> {}, filed |-> first, sized |-> first,
                 known |-> {o \in first : o.name \in Tagged}, misses |-> Stored \ Tagged,
                 boards |-> {}]
  /\ saves = [n \in Generated |-> "none"]
  /\ scan = NoScan
  /\ reading = [on |-> FALSE, todo |-> {}]
  /\ removal = [o \in Objects |-> "none"]
  /\ sweep = [pc |-> "idle", targets |-> {}, todo |-> {}, at |-> None, boards |-> {},
              changed |-> FALSE, failed |-> {}]
  /\ clips = [n \in Videos |-> "none"]
  /\ deleted = {}
  /\ bounds = [scans |-> 0, deletes |-> 0, moves |-> 0, faults |-> 0]

Spend(b) == bounds' = [bounds EXCEPT ![b] = @ + 1]

(* image.gallery_filename *)
File(o) == IF o \in page.filed THEN o.name ELSE None

(* A fault to test with: a failed save leaves its promise behind. *)
PendingWhenFailed(n) == n \in Generated /\ saves[n] \notin {"none", "shown", "saved"}

(* _persistPromises has the save of the image. *)
Pending(n) == n \in Generated /\ saves[n] \in {"queued", "written"}

Files(objects) == {o.name : o \in objects \cap page.filed}

-----------------------------------------------------------------------------
(* Results. *)

(* finalizeOutputImages: a batch is shown, and saved unless the user saves *)
(* by hand; all its save promises exist from the start.                    *)
AddImages(batch, save) ==
  /\ \A n \in batch : saves[n] = "none"
  /\ page' = [page EXCEPT !.images  = @ \cup {Live(n) : n \in batch},
                          !.session = @ \cup {Live(n) : n \in batch},
                          !.known   = @ \cup {Live(n) : n \in batch}]
  /\ saves' = [n \in Generated |-> IF n \in batch THEN IF save THEN "queued" ELSE "shown"
                                                  ELSE saves[n]]
  /\ UNCHANGED <<clips, disk, scan, reading, removal, sweep, deleted, bounds>>

(* persistImages awaits one save of the batch after the other. *)
IsNext(n) == \A m \in Earlier(n) : ~ Pending(m)

(* The server writes the file of the next image of the batch. *)
SaveWrites(n) ==
  /\ saves[n] = "queued"
  /\ IsNext(n)
  /\ saves' = [saves EXCEPT ![n] = "written"]
  /\ disk' = disk \cup {n}
  /\ UNCHANGED <<clips, page, scan, reading, removal, sweep, deleted, bounds>>

(* persistImages: the answer. *)
SaveEnds(n) ==
  /\ saves[n] = "written"
  /\ saves' = [saves EXCEPT ![n] = "saved"]
  /\ page' = [page EXCEPT !.filed = @ \cup {Live(n)}]
  /\ UNCHANGED <<clips, disk, scan, reading, removal, sweep, deleted, bounds>>

(* A save fails, before or after the file was written.  Saving the pixels  *)
(* when saving the temporary file failed is part of the save: what a first *)
(* attempt with a lost answer leaves is a file under another name that no  *)
(* image of the page has, like that of a clip whose event was lost.        *)
SaveFails(n) ==
  /\ Pending(n)
  /\ IsNext(n)
  /\ bounds.faults < MaxFaults
  /\ Spend("faults")
  /\ saves' = [saves EXCEPT ![n] = IF @ = "queued" THEN "failed" ELSE "lost"]
  /\ UNCHANGED <<clips, disk, page, scan, reading, removal, sweep, deleted>>

(* MooshieSaveVideo: the server moves a clip into the directory and sends  *)
(* an event, which is not repeated for a client that misses it.            *)
VideoSaved(n) ==
  /\ clips[n] = "none"
  /\ disk' = disk \cup {n}
  /\ clips' = [clips EXCEPT ![n] = "sent"]
  /\ UNCHANGED <<page, saves, scan, reading, removal, sweep, deleted, bounds>>

EventLost(n) ==
  /\ clips[n] = "sent"
  /\ bounds.faults < MaxFaults
  /\ Spend("faults")
  /\ clips' = [clips EXCEPT ![n] = "told"]
  /\ UNCHANGED <<disk, page, saves, scan, reading, removal, sweep, deleted>>

(* _runMetadataHydration takes the listed files without metadata; a second *)
(* caller gets the promise of the run that is under way.                   *)
Unread(p) == {o \in p.images \cap p.filed : o \notin p.known /\ o.name \notin p.misses}

Hydrate(p) ==
  reading' = IF reading.on THEN reading ELSE [on |-> TRUE, todo |-> Unread(p)]

(* comfyui:output_video: addPersistedImage. *)
AddPersistedImage(n) ==
  /\ clips[n] = "sent"
  /\ clips' = [clips EXCEPT ![n] = "told"]
  /\ LET p == [page EXCEPT !.images = @ \cup {Posted(n)}, !.session = @ \cup {Posted(n)},
                           !.filed  = @ \cup {Posted(n)}]
     IN  page' = p /\ Hydrate(p)
  /\ UNCHANGED <<disk, saves, scan, removal, sweep, deleted, bounds>>

(* One answer of readImageMetadata: metadata, or that there is none. *)
ReadMetadata(o) ==
  /\ reading.on
  /\ o \in reading.todo
  /\ reading' = [reading EXCEPT !.todo = @ \ {o}]
  /\ page' = IF o \in page.known THEN page
             ELSE IF o.name \in Tagged \cap disk THEN [page EXCEPT !.known = @ \cup {o}]
             ELSE [page EXCEPT !.misses = @ \cup {o.name}]
  /\ UNCHANGED <<clips, disk, saves, scan, removal, sweep, deleted, bounds>>

ReadingEnds ==
  /\ reading.on
  /\ reading.todo = {}
  /\ reading' = [on |-> FALSE, todo |-> {}]
  /\ UNCHANGED <<clips, disk, page, saves, scan, removal, sweep, deleted, bounds>>

-----------------------------------------------------------------------------
(* _loadFromDisk.  Scans are serialised by _diskLoadPromise, so there is   *)
(* one at a time; refresh() is one that reads the metadata again.          *)

LoadFromDisk(refresh) ==
  /\ scan.pc = "idle"
  /\ bounds.scans < MaxScans
  /\ ~ reading.on
  /\ Spend("scans")
  /\ scan' = [NoScan EXCEPT !.pc = "list", !.refresh = refresh,
                            !.before = {<<o, o \in page.filed>> : o \in page.images}]
  /\ UNCHANGED <<clips, disk, page, saves, reading, removal, sweep, deleted>>

(* The server lists the directory. *)
List ==
  /\ scan.pc = "list"
  /\ scan' = [scan EXCEPT !.pc = "parse", !.listed = disk]
  /\ UNCHANGED <<clips, disk, page, saves, reading, removal, sweep, deleted, bounds>>

ListFails ==
  /\ scan.pc = "list"
  /\ bounds.faults < MaxFaults
  /\ Spend("faults")
  /\ scan' = NoScan
  /\ UNCHANGED <<clips, disk, page, saves, reading, removal, sweep, deleted>>

(* A fault to test with: saves that are under way are not waited for. *)
AwaitNoSaves ==
  /\ scan.pc = "parse"
  /\ ~ reading.on
  /\ scan' = [scan EXCEPT !.pc = "saves"]
  /\ UNCHANGED <<clips, disk, page, saves, reading, removal, sweep, deleted, bounds>>

(* The answer is parsed, metadata under way has been read, and the saves   *)
(* under way are waited for.                                               *)
AwaitSaves ==
  /\ scan.pc = "parse"
  /\ ~ reading.on
  /\ scan' = [scan EXCEPT !.pc = "saves", !.waits = {n \in Generated : Pending(n)}]
  /\ UNCHANGED <<clips, disk, page, saves, reading, removal, sweep, deleted, bounds>>

Before(o) == <<o, TRUE>> \in scan.before

BeforeNames == {b[1].name : b \in {c \in scan.before : c[2]}}

(* The object that shows a file already: the page's own before a scanned one. *)
Existing(n) ==
  LET shown == {o \in page.images \cap page.filed : o.name = n}
  IN  IF \E o \in shown : o.made # "scan" THEN {o \in shown : o.made # "scan"} ELSE shown

(* A fault to test with: what the directory lists is shown, whatever was   *)
(* known of it.                                                            *)
ReconciledAnew ==
  UNION {IF Existing(n) # {} THEN Existing(n) ELSE {Scanned(n)} : n \in scan.listed}

(* Listed files keep their object or get one, unless they were deleted     *)
(* during the scan.                                                        *)
Reconciled ==
  UNION {IF Existing(n) # {} THEN Existing(n)
         ELSE IF n \in BeforeNames THEN {} ELSE {Scanned(n)} : n \in scan.listed}

(* A fault to test with: only unsaved images outlive a scan that does not  *)
(* list them.                                                              *)
RetainedUnsaved == {o \in page.images : File(o) = None}

(* What the listing can say nothing about: images without a file, and      *)
(* images that were shown or saved since the scan began.                   *)
Retained == {o \in page.images : File(o) = None \/ ~ Before(o)}

(* The metadata to read again: of files that look changed, or all.         *)
Outdated ==
  {o \in Reconciled \cap page.images : Before(o) /\ (scan.refresh \/ o \notin page.sized)}

Reconcile ==
  /\ scan.pc = "saves"
  /\ \A n \in scan.waits : ~ Pending(n)
  /\ LET fresh == Reconciled \ page.images
         next  == Retained \cup Reconciled
         p     == [page EXCEPT !.images  = next,
                               !.session = @ \cap next,
                               !.filed   = @ \cup fresh,
                               !.known   = @ \ (Outdated \cup fresh),
                               !.sized   = @ \cup Reconciled,
                               !.misses  = IF scan.refresh THEN {}
                                           ELSE @ \ {o.name : o \in Outdated}]
     IN  /\ page' = p
         /\ Hydrate(p)
  /\ scan' = IF scan.refresh THEN [NoScan EXCEPT !.pc = "refresh", !.refresh = TRUE]
                             ELSE NoScan
  /\ UNCHANGED <<clips, disk, saves, removal, sweep, deleted, bounds>>

(* refresh() waits for the metadata. *)
RefreshEnds ==
  /\ scan.pc = "refresh"
  /\ ~ reading.on
  /\ scan' = NoScan
  /\ UNCHANGED <<clips, disk, page, saves, reading, removal, sweep, deleted, bounds>>

-----------------------------------------------------------------------------
(* deleteImage: the name is resolved, which waits for a save, the file is  *)
(* deleted, and then the objects and the board of that file.               *)

DeleteImage(o) ==
  /\ o \in page.images
  /\ removal[o] = "none"
  /\ bounds.deletes < MaxDeletes
  /\ Spend("deletes")
  /\ removal' = [removal EXCEPT ![o] = "resolve"]
  /\ UNCHANGED <<clips, disk, page, saves, scan, reading, sweep, deleted>>

(* A fault to test with: nobody waits for a save. *)
ResolvedAtOnce(o) == TRUE

(* resolveGalleryFilename has a name, or knows that there is none. *)
ResolvedName(o) == File(o) # None \/ ~ Pending(o.name)

(* An image without a file only leaves the lists. *)
DeleteUnsaved(o) ==
  /\ removal[o] = "resolve"
  /\ ResolvedName(o)
  /\ File(o) = None
  /\ removal' = [removal EXCEPT ![o] = "none"]
  /\ page' = [page EXCEPT !.images = @ \ {o}, !.session = @ \ {o}]
  /\ deleted' = deleted \cup {o.name}
  /\ UNCHANGED <<clips, disk, saves, scan, reading, sweep, bounds>>

(* The server deletes the file; one that is gone already is no error. *)
DeleteFile(o) ==
  /\ removal[o] = "resolve"
  /\ ResolvedName(o)
  /\ File(o) # None
  /\ removal' = [removal EXCEPT ![o] = "answered"]
  /\ disk' = disk \ {o.name}
  /\ UNCHANGED <<clips, page, saves, scan, reading, sweep, deleted, bounds>>

(* A fault to test with: the board is dropped before the file. *)
DeleteFailsLate(o) ==
  /\ removal[o] = "resolve"
  /\ ResolvedName(o)
  /\ File(o) # None
  /\ bounds.faults < MaxFaults
  /\ Spend("faults")
  /\ removal' = [removal EXCEPT ![o] = "none"]
  /\ disk' \in {disk, disk \ {o.name}}
  /\ page' = [page EXCEPT !.boards = @ \ {<<o.name, "file">>}]
  /\ UNCHANGED <<saves, clips, scan, reading, sweep, deleted>>

(* The call fails, before or after the file was deleted. *)
DeleteFails(o) ==
  /\ removal[o] = "resolve"
  /\ ResolvedName(o)
  /\ File(o) # None
  /\ bounds.faults < MaxFaults
  /\ Spend("faults")
  /\ removal' = [removal EXCEPT ![o] = "none"]
  /\ disk' \in {disk, disk \ {o.name}}
  /\ UNCHANGED <<clips, page, saves, scan, reading, sweep, deleted>>

IsTarget(i, o) == i = o \/ (i \in page.filed /\ i.name = o.name)

DeleteEnds(o) ==
  /\ removal[o] = "answered"
  /\ removal' = [removal EXCEPT ![o] = "none"]
  /\ page' = [page EXCEPT !.images  = {i \in @ : ~ IsTarget(i, o)},
                          !.session = {i \in @ : ~ IsTarget(i, o)},
                          !.boards  = @ \ {<<o.name, "file">>}]
  /\ deleted' = deleted \cup {o.name}
  /\ UNCHANGED <<clips, disk, saves, scan, reading, sweep, bounds>>

-----------------------------------------------------------------------------
(* deleteAllSessionImages: one after the other, with the boards copied at  *)
(* the start and written back at the end.                                  *)

SweepStarts ==
  /\ sweep.pc = "idle"
  /\ page.session # {}
  /\ bounds.deletes < MaxDeletes
  /\ Spend("deletes")
  /\ sweep' = [pc |-> "next", targets |-> page.session, todo |-> page.session, at |-> None,
               boards |-> page.boards, changed |-> FALSE, failed |-> sweep.failed]
  /\ UNCHANGED <<clips, disk, page, saves, scan, reading, removal, deleted>>

SweepNext(o) ==
  /\ sweep.pc = "next"
  /\ o \in sweep.todo
  /\ sweep' = [sweep EXCEPT !.pc = "resolve", !.at = o, !.todo = @ \ {o}]
  /\ UNCHANGED <<clips, disk, page, saves, scan, reading, removal, deleted, bounds>>

(* The file is deleted, if there is one, and its board in the copy. *)
SweepDeletes ==
  /\ sweep.pc = "resolve"
  /\ ResolvedName(sweep.at)
  /\ disk' = disk \ {File(sweep.at)}
  /\ sweep' = [sweep EXCEPT !.pc = "answered"]
  /\ UNCHANGED <<clips, page, saves, scan, reading, removal, deleted, bounds>>

SweepGoesOn ==
  /\ sweep.pc = "answered"
  /\ LET key == <<File(sweep.at), "file">>
     IN  sweep' = [sweep EXCEPT !.pc = "next", !.at = None, !.boards = @ \ {key},
                                !.changed = @ \/ key \in sweep.boards]
  /\ UNCHANGED <<clips, disk, page, saves, scan, reading, removal, deleted, bounds>>

(* A failed deletion is logged, and the sweep goes on.  As a history, the  *)
(* files it left are recorded.                                             *)
SweepFails ==
  /\ sweep.pc = "resolve"
  /\ ResolvedName(sweep.at)
  /\ File(sweep.at) # None
  /\ bounds.faults < MaxFaults
  /\ Spend("faults")
  /\ disk' \in {disk, disk \ {sweep.at.name}}
  /\ sweep' = [sweep EXCEPT !.pc = "next", !.at = None,
                            !.failed = @ \cup ({sweep.at.name} \cap disk')]
  /\ UNCHANGED <<clips, page, saves, scan, reading, removal, deleted>>

(* All targets leave the lists, also those whose file could not be deleted. *)
SweepEnds ==
  /\ sweep.pc = "next"
  /\ sweep.todo = {}
  /\ page' = [page EXCEPT !.images  = @ \ sweep.targets,
                          !.session = @ \ sweep.targets,
                          !.boards  = IF sweep.changed THEN sweep.boards ELSE @]
  /\ deleted' = deleted \cup ({o.name : o \in sweep.targets}
                              \ Files(page.images \ sweep.targets))
  /\ sweep' = [sweep EXCEPT !.pc = "idle", !.targets = {}, !.boards = {}, !.changed = FALSE]
  /\ UNCHANGED <<clips, disk, saves, scan, reading, removal, bounds>>

-----------------------------------------------------------------------------
(* setBoard, and somebody else who deletes a file (another tab, the expiry *)
(* of the server's storage).                                               *)

BoardKey(o) == <<o.name, IF o \in page.filed THEN "file" ELSE "unsaved">>

SetBoard(o) ==
  /\ o \in page.images
  /\ bounds.moves < MaxMoves
  /\ Spend("moves")
  /\ page' = [page EXCEPT !.boards = @ \cup {BoardKey(o)}]
  /\ UNCHANGED <<disk, saves, clips, scan, reading, removal, sweep, deleted>>

DeletedElsewhere(n) ==
  /\ n \in disk
  /\ bounds.faults < MaxFaults
  /\ Spend("faults")
  /\ disk' = disk \ {n}
  /\ UNCHANGED <<page, saves, clips, scan, reading, removal, sweep, deleted>>

-----------------------------------------------------------------------------
Saving == \E n \in Generated : SaveWrites(n) \/ SaveEnds(n) \/ SaveFails(n)

Reading == (\E o \in Objects : ReadMetadata(o)) \/ ReadingEnds

Scanning == List \/ ListFails \/ AwaitSaves \/ Reconcile \/ RefreshEnds

Deleting(o) == DeleteUnsaved(o) \/ DeleteFile(o) \/ DeleteFails(o) \/ DeleteEnds(o)

Sweeping ==
  \/ \E o \in Objects : SweepNext(o)
  \/ SweepDeletes \/ SweepGoesOn \/ SweepFails \/ SweepEnds

Next ==
  \/ \E batch \in Batches, save \in BOOLEAN : AddImages(batch, save)
  \/ Saving
  \/ \E n \in Videos : VideoSaved(n) \/ EventLost(n) \/ AddPersistedImage(n)
  \/ Reading
  \/ \E refresh \in BOOLEAN : LoadFromDisk(refresh)
  \/ Scanning
  \/ \E o \in Objects : DeleteImage(o) \/ Deleting(o)
  \/ SweepStarts \/ Sweeping
  \/ \E o \in Objects : SetBoard(o)
  \/ \E n \in Names : DeletedElsewhere(n)

Spec == Init /\ [][Next]_vars

-----------------------------------------------------------------------------
(* Properties. *)

(* The user has this object deleted in this step.                          *)
LeavesByUser(o) ==
  \/ \E d \in Objects : removal[d] # "none" /\ removal'[d] = "none" /\ IsTarget(o, d)
  \/ sweep.pc # "idle" /\ sweep'.pc = "idle" /\ o \in sweep.targets

(* A scan takes nothing away that is not saved yet, or whose file is in    *)
(* the directory by now, however old its listing is.                       *)
NothingLost ==
  [][\A o \in page.images \ page'.images :
       \/ LeavesByUser(o)
       \/ File(o) # None /\ (o.name \notin disk \/ o.name \in Files(page'.images))]_vars

(* The answer to its save was lost, so the page does not know of the file. *)
AnswerLost(n) == n \in Generated /\ saves[n] = "lost"

(* What the user saw deleted, except what a sweep took off the lists while *)
(* its file could not be deleted.                                          *)
Gone == {n \in deleted : ~ AnswerLost(n) /\ n \notin sweep.failed}

(* An image the user saw deleted, also one whose save was under way, has   *)
(* no file left to come back from.  What a sweep takes off the lists       *)
(* although the deletion failed keeps its file, and is left out.           *)
DeletedIsGone == Gone \cap disk = {}

ScanEnds == scan.pc = "saves" /\ scan'.pc # "saves"

(* However old its listing is, a scan brings no file back that was known   *)
(* by its name when the scan began and has been deleted since; only a late *)
(* event about a clip does.  An image that was still unsaved then is not   *)
(* covered, see NothingComesBack.                                          *)
StaysDeleted ==
  [][ScanEnds => Gone \cap BeforeNames \cap
                 Files({o \in page.images : o.made # "posted"})' = {}]_vars

(* Stronger, and not so: an image that was on show without a file when the *)
(* scan began, then saved, listed and deleted, comes back, since only the  *)
(* names known at the start are remembered (NothingComesBack.cfg).         *)
NothingComesBack ==
  [][ScanEnds => Gone \cap {b[1].name : b \in scan.before} \cap
                 Files({o \in page.images : o.made # "posted"})' = {}]_vars

(* A scan leaves every image on show once, also one whose save was under   *)
(* way when the directory was read, and one the server told of meanwhile.  *)
(* An event about a clip that comes after the scan has shown its file adds *)
(* a second object, until the next scan.                                   *)
ShownOnce ==
  [][ScanEnds => \A a, b \in page'.images :
                   a.name = b.name => a = b \/ AnswerLost(a.name)]_vars

(* A file keeps its place on the boards until it is deleted, also when the *)
(* deletion fails or other files are deleted meanwhile, and in the copy of *)
(* a sweep as well.  What is put on a board while a sweep runs is left     *)
(* out: the sweep writes its copy back.                                    *)
BoardsKept ==
  [][/\ \A key \in page.boards \ page'.boards :
          \/ key[1] \notin disk
          \/ sweep.pc # "idle" /\ key \notin sweep.boards
     /\ sweep.pc # "idle" /\ sweep'.pc # "idle" =>
          \A key \in sweep.boards \ sweep'.boards : key[1] \notin disk]_vars

Busy ==
  \/ scan.pc # "idle"
  \/ sweep.pc # "idle"
  \/ \E o \in Objects : removal[o] # "none"

(* Some answer is due, or has come and is taken up: a save, metadata, a     *)
(* scan, a deletion or a sweep goes on without the user and without a      *)
(* failure.                                                                *)
SavingGoesOn == \E n \in Generated : saves[n] = "written" \/ (saves[n] = "queued" /\ IsNext(n))

ScanGoesOn ==
  \/ scan.pc = "list"
  \/ scan.pc \in {"parse", "refresh"} /\ ~ reading.on
  \/ scan.pc = "saves" /\ \A n \in scan.waits : ~ Pending(n)

DeletionGoesOn(o) == removal[o] = "answered" \/ (removal[o] = "resolve" /\ ResolvedName(o))

SweepingGoesOn ==
  \/ sweep.pc \in {"next", "answered"}
  \/ sweep.pc = "resolve" /\ ResolvedName(sweep.at)

(* Scans wait for saves and for metadata, metadata is read after scans,    *)
(* deletions wait for saves: nobody waits for what will not come, and the  *)
(* spinner stops.                                                          *)
NeverStuck ==
  Busy => \/ SavingGoesOn \/ reading.on \/ ScanGoesOn \/ SweepingGoesOn
          \/ \E o \in Objects : DeletionGoesOn(o)

=============================================================================
