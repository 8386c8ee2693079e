----------------------------- MODULE ImageViewer -----------------------------
(***************************************************************************)
(* The lightbox and the A/B comparison of the gallery store: which image   *)
(* each shows, by which URL, and who revokes the blobs behind the URLs.    *)
(* A call runs up to its await; when that is answered it goes on, unless a *)
(* later call bumped the token meanwhile: then it is stale.                *)
(*                                                                         *)
(* A session image has a blob URL of its own, and a URL of its file once   *)
(* it is saved; a JXL image of the gallery is decoded to a fresh blob each *)
(* time it is opened; a video is played from the URL of its file, which is *)
(* itself awaited.  There is no image without a URL or a file.             *)
(***************************************************************************)
EXTENDS Integers, FiniteSets

CONSTANTS
  Images,
  Session,   \* the images of this session
  Videos,    \* the saved videos; the other images are saved JXL files
  Blobs,     \* bound: decoded blobs there are at once
  Slots,     \* bound: calls that await an answer at once
  MaxCalls,  \* bound: calls that may have to wait for an answer
  None

VARIABLES
  listed,   \* the images the gallery lists
  saved,    \* the session images with a gallery_filename
  alive,    \* the session images whose blob URL was not revoked
  decoded,  \* the image that each decoded blob was made of
  light,    \* [image, url, owned, open, loading] of the lightbox
  compare,  \* [image, url, owned, open, loading] of the comparison
  calls,    \* the calls that await an answer
  begun,    \* how many calls were made that may have to wait
  swapped   \* sides were swapped while one was loading

vars == <<listed, saved, alive, decoded, light, compare, calls, begun, swapped>>
files == <<listed, saved>>

Sides == {"a", "b"}

Stored == Images \ (Session \cup Videos)

Url ==
  [kind : {"session", "file"}, image : Session \cup Videos]
    \cup [kind : {"blob"}, blob : Blobs]

SessionUrl(i) == [kind |-> "session", image |-> i]
FileUrl(i) == [kind |-> "file", image |-> i]
BlobUrl(b) == [kind |-> "blob", blob |-> b]

Call ==
  [op : {"light"}, image : Images, stale : BOOLEAN]
    \cup [op : {"side"}, side : Sides, image : Images, previous : Url \cup {None},
          stale : BOOLEAN]
    \cup [op : {"open"}, images : [Sides -> Images], got : [Sides -> Url \cup {None}],
          todo : SUBSET Sides, stale : BOOLEAN]

(* None stands for nothing of each kind. *)
ASSUME ViewerAssumption ==
  /\ Session \subseteq Images /\ Videos \subseteq Images \ Session
  /\ Blobs \subseteq Nat /\ MaxCalls \in Nat
  /\ None \notin Images \cup Blobs \cup Url \cup Call

TypeOK ==
  /\ listed \subseteq Images /\ saved \subseteq Session
  /\ alive \subseteq Session
  /\ decoded \in [Blobs -> Images \cup {None}]
  /\ light \in [image : Images \cup {None}, url : Url \cup {None},
                owned : Blobs \cup {None}, open : BOOLEAN, loading : BOOLEAN]
  /\ compare \in [image : [Sides -> Images \cup {None}], url : [Sides -> Url \cup {None}],
                  owned : SUBSET Blobs, open : BOOLEAN, loading : BOOLEAN]
  /\ calls \in [Slots -> Call \cup {None}]
  /\ begun \in 0..MaxCalls /\ swapped \in BOOLEAN

ClosedLight ==
  [image |-> None, url |-> None, owned |-> None, open |-> FALSE, loading |-> FALSE]

Init ==
  /\ listed = Images /\ saved = {} /\ alive = Session
  /\ decoded = [b \in Blobs |-> None]
  /\ light = ClosedLight
  /\ compare = [image |-> [s \in Sides |-> None], url |-> [s \in Sides |-> None],
                owned |-> {}, open |-> FALSE, loading |-> FALSE]
  /\ calls = [c \in Slots |-> None]
  /\ begun = 0 /\ swapped = FALSE

-----------------------------------------------------------------------------
(***************************************************************************)
(* Blobs.                                                                  *)
(***************************************************************************)
Pending(c) == calls[c] # None

Referenced(b) ==
  \/ light.url = BlobUrl(b)
  \/ \E s \in Sides : compare.url[s] = BlobUrl(b)
  \/ \E c \in Slots : Pending(c) /\ CASE calls[c].op = "side" -> calls[c].previous = BlobUrl(b)
                                      [] calls[c].op = "open" -> \E s \in Sides : calls[c].got[s] = BlobUrl(b)
                                      [] OTHER -> FALSE

(* createObjectURL: a URL nobody had before. *)
Unused(b) == decoded[b] = None /\ ~Referenced(b)

Fresh(b) == Unused(b) /\ \A d \in Blobs : Unused(d) => b <= d

Revoke(map, bs) == [b \in Blobs |-> IF b \in bs THEN None ELSE map[b]]

BlobsOf(urls) == {b \in Blobs : BlobUrl(b) \in urls}

(* A later call makes the pending ones of the same viewer stale. *)
Bump(ops) ==
  [c \in Slots |-> IF Pending(c) /\ calls[c].op \in ops
                   THEN [calls[c] EXCEPT !.stale = TRUE] ELSE calls[c]]

Later == {"open", "side"}

Begins(c) ==
  /\ ~Pending(c) /\ begun < MaxCalls
  /\ begun' = begun + 1

(* The answer of resolveCompareUrl for image i, given a fresh blob b. *)
Resolved(i, b) ==
  IF i \in Stored THEN BlobUrl(b)
  ELSE IF i \in saved \cup Videos THEN FileUrl(i) ELSE SessionUrl(i)

-----------------------------------------------------------------------------
(***************************************************************************)
(* The lightbox.                                                           *)
(***************************************************************************)
(* setLightboxUrl: the blob that was decoded for the last image goes. *)
ReleasedLight == IF light.owned = None THEN {} ELSE {light.owned}

OpenLightbox(i, c) ==
  /\ i \in listed \ Videos /\ Begins(c)
  /\ LET waits == i \notin saved
     IN  calls' = [Bump({"light"}) EXCEPT
                     ![c] = IF waits THEN [op |-> "light", image |-> i, stale |-> FALSE]
                            ELSE None]
  /\ light' = [image |-> i, owned |-> None, open |-> TRUE, loading |-> i \in Stored,
               url |-> IF i \in Stored THEN None
                       ELSE IF i \in saved THEN FileUrl(i) ELSE SessionUrl(i)]
  /\ decoded' = Revoke(decoded, ReleasedLight)
  /\ UNCHANGED <<files, alive, compare, swapped>>

(* A video is selected at once; what was on show stays until its URL is    *)
(* here.                                                                   *)
OpenVideo(i, c) ==
  /\ i \in listed \cap Videos /\ Begins(c)
  /\ calls' = [Bump({"light"}) EXCEPT ![c] = [op |-> "light", image |-> i, stale |-> FALSE]]
  /\ light' = [light EXCEPT !.image = i, !.open = TRUE]
  /\ UNCHANGED <<files, alive, decoded, compare, swapped>>

VideoShown(c) ==
  /\ Pending(c) /\ calls[c].op = "light" /\ calls[c].image \in Videos
  /\ IF calls[c].stale THEN UNCHANGED <<light, decoded>>
     ELSE /\ light' = [light EXCEPT !.url = FileUrl(calls[c].image), !.owned = None,
                                    !.loading = FALSE]
          /\ decoded' = Revoke(decoded, ReleasedLight)
  /\ calls' = [calls EXCEPT ![c] = None]
  /\ UNCHANGED <<files, alive, compare, begun, swapped>>

(* A fault to test with: whatever was selected since is replaced. *)
LightboxLoadedLate(c) ==
  /\ Pending(c) /\ calls[c].op = "light" /\ calls[c].image \in Stored
  /\ \E b \in Blobs :
       /\ Fresh(b)
       /\ light' = [light EXCEPT !.url = BlobUrl(b), !.owned = b, !.loading = FALSE]
       /\ decoded' = [Revoke(decoded, ReleasedLight) EXCEPT ![b] = calls[c].image]
  /\ calls' = [calls EXCEPT ![c] = None]
  /\ UNCHANGED <<files, alive, compare, begun, swapped>>

(* loadFullImage has decoded the file: for a stale call the blob goes.     *)
LightboxLoaded(c) ==
  /\ Pending(c) /\ calls[c].op = "light" /\ calls[c].image \in Stored
  /\ \/ calls[c].stale /\ UNCHANGED <<light, decoded>>
     \/ /\ ~calls[c].stale
        /\ \E b \in Blobs :
             /\ Fresh(b)
             /\ light' = [light EXCEPT !.url = BlobUrl(b), !.owned = b, !.loading = FALSE]
             /\ decoded' = [Revoke(decoded, ReleasedLight) EXCEPT ![b] = calls[c].image]
  /\ calls' = [calls EXCEPT ![c] = None]
  /\ UNCHANGED <<files, alive, compare, begun, swapped>>

LightboxFails(c) ==
  /\ Pending(c) /\ calls[c].op = "light" /\ calls[c].image \in Stored
  /\ light' = IF calls[c].stale THEN light ELSE [light EXCEPT !.loading = FALSE]
  /\ calls' = [calls EXCEPT ![c] = None]
  /\ UNCHANGED <<files, alive, decoded, compare, begun, swapped>>

(* The session image was saved while the lightbox shows it. *)
Upgrade(c) ==
  /\ Pending(c) /\ calls[c].op = "light" /\ calls[c].image \in saved
  /\ LET i == calls[c].image
         current == ~calls[c].stale /\ light.open /\ light.image = i
     IN  /\ light' = IF current THEN [light EXCEPT !.url = FileUrl(i), !.owned = None] ELSE light
         /\ decoded' = IF current THEN Revoke(decoded, ReleasedLight) ELSE decoded
  /\ calls' = [calls EXCEPT ![c] = None]
  /\ UNCHANGED <<files, alive, compare, begun, swapped>>

(* Its save failed, or there was none to wait for. *)
NeverSaved(c) ==
  /\ Pending(c) /\ calls[c].op = "light" /\ calls[c].image \in Session \ saved
  /\ calls' = [calls EXCEPT ![c] = None]
  /\ UNCHANGED <<files, alive, decoded, light, compare, begun, swapped>>

(* The preview of the last output is opened by its URL. *)
OpenLightboxUrl(i) ==
  /\ i \in Session \cap alive
  /\ light' = [image |-> None, url |-> SessionUrl(i), owned |-> None, open |-> TRUE,
               loading |-> FALSE]
  /\ decoded' = Revoke(decoded, ReleasedLight)
  /\ calls' = Bump({"light"})
  /\ UNCHANGED <<files, alive, compare, begun, swapped>>

(* A blob of a session image that is listed, or that the comparison shows, *)
(* is not the lightbox's to revoke.                                        *)
Shared(i, list) == i \in list \/ \E s \in Sides : compare.url[s] = SessionUrl(i)

(* A fault to test with: the blob on show is always revoked. *)
AliveAfterEveryClose(list) == alive \ {i \in Session : light.url = SessionUrl(i)}

AliveAfterClose(list) == {i \in alive : light.url = SessionUrl(i) => Shared(i, list)}

DecodedAfterClose == Revoke(decoded, BlobsOf({light.url}))

(* A fault to test with: an open call goes on loading. *)
CloseLightboxWhileLoading ==
  /\ light.open
  /\ alive' = AliveAfterClose(listed)
  /\ decoded' = DecodedAfterClose
  /\ light' = [ClosedLight EXCEPT !.loading = light.loading]
  /\ calls' = Bump({"light"})
  /\ UNCHANGED <<files, compare, begun, swapped>>

CloseLightbox ==
  /\ light.open
  /\ alive' = AliveAfterClose(listed)
  /\ decoded' = DecodedAfterClose
  /\ light' = ClosedLight
  /\ calls' = Bump({"light"})
  /\ UNCHANGED <<files, compare, begun, swapped>>

-----------------------------------------------------------------------------
(***************************************************************************)
(* The comparison.                                                         *)
(***************************************************************************)
(* releaseCompareUrl *)
Released(urls) == BlobsOf(urls) \cap compare.owned

BothUrls == {compare.url[s] : s \in Sides}

OpenCompare(i, j, c) ==
  /\ i \in listed /\ j \in listed /\ i # j /\ Begins(c)
  /\ calls' = [Bump(Later) EXCEPT
                 ![c] = [op |-> "open", images |-> [s \in Sides |-> IF s = "a" THEN i ELSE j],
                         got |-> [s \in Sides |-> None], todo |-> Sides, stale |-> FALSE]]
  /\ compare' = [image |-> [s \in Sides |-> IF s = "a" THEN i ELSE j],
                 url |-> [s \in Sides |-> None],
                 owned |-> compare.owned \ Released(BothUrls), open |-> TRUE, loading |-> TRUE]
  /\ decoded' = Revoke(decoded, Released(BothUrls))
  /\ UNCHANGED <<files, alive, light, swapped>>

(* Both images are here: they go on show, or, when the call is stale, the  *)
(* blobs that were decoded for it go.                                      *)
BothHere(c, got, made) ==
  IF calls[c].stale
  THEN compare' = compare /\ decoded' = Revoke(made, BlobsOf({got[s] : s \in Sides}))
  ELSE /\ compare' = [compare EXCEPT !.url = got, !.loading = FALSE,
                                     !.owned = @ \cup BlobsOf({got[s] : s \in Sides})]
       /\ decoded' = made

(* One of the two images of a comparison is resolved, or fails to decode.  *)
CompareResolves(c, s) ==
  /\ Pending(c) /\ calls[c].op = "open" /\ s \in calls[c].todo
  /\ \E b \in Blobs : \E url \in {None, Resolved(calls[c].images[s], b)} :
       /\ Fresh(b)
       /\ LET i == calls[c].images[s]
              got == [calls[c].got EXCEPT ![s] = url]
              made == IF url = BlobUrl(b) THEN [decoded EXCEPT ![b] = i] ELSE decoded
          IN  /\ i \notin Stored => url # None
              /\ IF calls[c].todo = {s}
                 THEN BothHere(c, got, made) /\ calls' = [calls EXCEPT ![c] = None]
                 ELSE /\ calls' = [calls EXCEPT ![c].got = got, ![c].todo = @ \ {s}]
                      /\ decoded' = made
                      /\ UNCHANGED compare
  /\ UNCHANGED <<files, alive, light, begun, swapped>>

SetCompareSide(s, i, c) ==
  /\ compare.open /\ i \in listed /\ i # compare.image[s] /\ Begins(c)
  /\ calls' = [Bump(Later) EXCEPT
                 ![c] = [op |-> "side", side |-> s, image |-> i, previous |-> compare.url[s],
                         stale |-> FALSE]]
  /\ compare' = [compare EXCEPT !.image[s] = i, !.loading = TRUE]
  /\ UNCHANGED <<files, alive, decoded, light, swapped>>

(* A fault to test with: what the side showed is left to be released. *)
SideResolvesOrLeaks(c) ==
  /\ Pending(c) /\ calls[c].op = "side"
  /\ \E b \in Blobs :
       LET call == calls[c]
           url == Resolved(call.image, b)
           made == IF url = BlobUrl(b) THEN [decoded EXCEPT ![b] = call.image] ELSE decoded
       IN  /\ Fresh(b)
           /\ decoded' = IF call.stale THEN Revoke(made, BlobsOf({url})) ELSE made
           /\ compare' = IF call.stale THEN compare
                         ELSE [compare EXCEPT !.url[call.side] = url, !.loading = FALSE,
                                              !.owned = @ \cup BlobsOf({url})]
  /\ calls' = [calls EXCEPT ![c] = None]
  /\ UNCHANGED <<files, alive, light, begun, swapped>>

(* What the side showed when the call began is released. *)
SideResolves(c) ==
  /\ Pending(c) /\ calls[c].op = "side"
  /\ \E b \in Blobs : \E url \in {None, Resolved(calls[c].image, b)} :
       LET call == calls[c]
           made == IF url = BlobUrl(b) THEN [decoded EXCEPT ![b] = call.image] ELSE decoded
       IN  /\ Fresh(b)
           /\ call.image \notin Stored => url # None
           /\ decoded' = IF call.stale THEN Revoke(made, BlobsOf({url}))
                         ELSE Revoke(made, Released({call.previous}))
           /\ compare' = IF call.stale THEN compare
                         ELSE [compare EXCEPT !.url[call.side] = url, !.loading = FALSE,
                                !.owned = (@ \ Released({call.previous})) \cup BlobsOf({url})]
  /\ calls' = [calls EXCEPT ![c] = None]
  /\ UNCHANGED <<files, alive, light, begun, swapped>>

Other(s) == CHOOSE t \in Sides : t # s

SwapCompare ==
  /\ compare.open
  /\ compare' = [compare EXCEPT !.image = [s \in Sides |-> compare.image[Other(s)]],
                                !.url = [s \in Sides |-> compare.url[Other(s)]]]
  /\ swapped' = (swapped \/ compare.loading)
  /\ UNCHANGED <<files, alive, decoded, light, calls, begun>>

ClosedCompare ==
  [image |-> [s \in Sides |-> None], url |-> [s \in Sides |-> None],
   owned |-> compare.owned \ Released(BothUrls), open |-> FALSE, loading |-> FALSE]

CloseCompare ==
  /\ compare.open
  /\ compare' = ClosedCompare
  /\ decoded' = Revoke(decoded, Released(BothUrls))
  /\ calls' = Bump(Later)
  /\ UNCHANGED <<files, alive, light, begun, swapped>>

-----------------------------------------------------------------------------
(***************************************************************************)
(* The images.                                                             *)
(***************************************************************************)
(* persistImages has saved a session image; a deletion waits for a save    *)
(* that is under way, so none comes after it.  The file's URL follows      *)
(* within the same turn of the event loop.                                 *)
Persist(i) ==
  /\ i \in (Session \cap listed) \ saved
  /\ saved' = saved \cup {i}
  /\ UNCHANGED <<listed, alive, decoded, light, compare, calls, begun, swapped>>

(* deleteImage, when its awaits are answered and the file, where there is  *)
(* one, is gone.  A scan may have dropped the image meanwhile.  Only the   *)
(* lightbox is closed.                                                     *)
DeleteImage(i) ==
  /\ listed' = listed \ {i}
  /\ alive' = (IF light.image = i THEN AliveAfterClose(listed \ {i}) ELSE alive) \ {i}
  /\ IF light.image = i
     THEN light' = ClosedLight /\ decoded' = DecodedAfterClose /\ calls' = Bump({"light"})
     ELSE UNCHANGED <<light, decoded, calls>>
  /\ UNCHANGED <<saved, compare, begun, swapped>>

(* A scan of the disk does not find the file of an image: whatever shows   *)
(* the image is closed, and its blob is revoked if nothing else uses it.   *)
ScanMisses(i) ==
  /\ i \in listed \cap (saved \cup (Images \ Session))
  /\ listed' = listed \ {i}
  /\ LET lit == light.image = i
         compared == \E s \in Sides : compare.image[s] = i
         url == IF lit THEN None ELSE light.url
         urls == IF compared THEN {} ELSE BothUrls
     IN  /\ light' = IF lit THEN ClosedLight ELSE light
         /\ compare' = IF compared THEN ClosedCompare ELSE compare
         /\ decoded' = Revoke(IF lit THEN DecodedAfterClose ELSE decoded,
                              IF compared THEN Released(BothUrls) ELSE {})
         /\ calls' = Bump((IF lit THEN {"light"} ELSE {}) \cup (IF compared THEN Later ELSE {}))
         /\ alive' = (IF lit THEN AliveAfterClose(listed \ {i}) ELSE alive) \
                       (IF SessionUrl(i) \in {url} \cup urls THEN {} ELSE {i})
  /\ UNCHANGED <<saved, begun, swapped>>

-----------------------------------------------------------------------------
Answers(c) ==
  \/ LightboxLoaded(c) \/ LightboxFails(c) \/ VideoShown(c)
  \/ Upgrade(c) \/ NeverSaved(c) \/ SideResolves(c)
  \/ \E s \in Sides : CompareResolves(c, s)

Next ==
  \/ CloseLightbox \/ SwapCompare \/ CloseCompare
  \/ \E i \in Images : \/ OpenLightboxUrl(i) \/ Persist(i)
                       \/ DeleteImage(i) \/ ScanMisses(i)
  \/ \E c \in Slots :
       \/ Answers(c)
       \/ \E i \in Images : \/ OpenLightbox(i, c) \/ OpenVideo(i, c)
                            \/ \E s \in Sides : SetCompareSide(s, i, c)
                            \/ \E j \in Images : OpenCompare(i, j, c)

Spec == Init /\ [][Next]_vars

-----------------------------------------------------------------------------
ImageOf(url) == IF url.kind = "blob" THEN decoded[url.blob] ELSE url.image

OnShow ==
  BlobsOf({light.url} \cup BothUrls)

Delivered ==
  UNION {BlobsOf({calls[c].got[s] : s \in Sides}) : c \in {d \in Slots : Pending(d) /\ calls[d].op = "open"}}

(* A blob the viewers decoded lives as long as it is on show: the ones of  *)
(* earlier images and of stale calls do not leak, and none is revoked      *)
(* under a viewer.  The sides must not be swapped while one is loading.    *)
DecodedIsOnShow ==
  swapped \/ {b \in Blobs : decoded[b] # None} \ Delivered = OnShow

(* The URL of the video that was selected last is not here yet.            *)
AwaitsVideo ==
  \E c \in Slots : /\ Pending(c) /\ calls[c].op = "light" /\ ~calls[c].stale
                    /\ calls[c].image \in Videos

(* A lightbox that is not loading shows the image that was selected last,  *)
(* by a URL that still works, whatever the user moved past; only while the *)
(* URL of a video is awaited what was on show before is still there.       *)
LightboxShowsSelected ==
  light.image # None /\ ~light.loading /\ light.url # None /\ ~AwaitsVideo =>
    /\ ImageOf(light.url) = light.image
    /\ light.url.kind = "session" => light.image \in alive

(* Each viewer that is loading awaits the answer to its latest call.       *)
LoadingIsUnderWay ==
  /\ light.loading => \E c \in Slots : Pending(c) /\ calls[c].op = "light" /\ ~calls[c].stale
  /\ compare.loading => \E c \in Slots : Pending(c) /\ calls[c].op \in Later /\ ~calls[c].stale

(* Closing the lightbox leaves the blob of an image that is still listed.  *)
ListedIsAlive == listed \cap Session \subseteq alive

(* setCompareSide is to "[r]eplace one side of the comparison, keeping the *)
(* other in place", and the URLs move with the images in swapCompare: a    *)
(* comparison that is not loading shows what it says it shows.             *)
CompareShowsItsImages ==
  compare.open /\ ~compare.loading =>
    \A s \in Sides : compare.url[s] # None => ImageOf(compare.url[s]) = compare.image[s]

=============================================================================
