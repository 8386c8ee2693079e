-------------------------- MODULE ImageViewerProofs ---------------------------
(***************************************************************************)
(* What holds of the lightbox and the comparison for any images, any       *)
(* number of calls that wait at once, and any order of their answers.      *)
(*                                                                         *)
(* Every decoded blob has one owner: the lightbox, the comparison, or a    *)
(* call that was answered one of its two images.  As long as nothing is    *)
(* swapped while a side loads, there are no other decoded blobs.           *)
(***************************************************************************)
EXTENDS ImageViewer, TLAPS

(* A pending call no later one has made stale. *)
Latest(c, ops) == Pending(c) /\ calls[c].op \in ops /\ ~calls[c].stale

(* A call that opens a comparison has been answered this blob. *)
Holds(c, s, b) == Pending(c) /\ calls[c].op = "open" /\ calls[c].got[s] = BlobUrl(b)

LightSound ==
  /\ light.owned # None => /\ light.url = BlobUrl(light.owned)
                           /\ decoded[light.owned] # None /\ light.image # None
                           /\ ~AwaitsVideo => decoded[light.owned] = light.image
  /\ \A b \in Blobs : light.url = BlobUrl(b) => light.owned = b
  /\ light.image # None /\ light.owned = None /\ light.url # None =>
       \/ light.url = SessionUrl(light.image) /\ light.image \in alive
       \/ light.url = FileUrl(light.image)
       \/ AwaitsVideo
  /\ \A c \in Slots : Latest(c, {"light"}) => light.image = calls[c].image
  /\ light.loading => light.image \notin Session /\ \E c \in Slots : Latest(c, {"light"})

CompareSound ==
  /\ \A c, d \in Slots : Latest(c, Later) /\ Latest(d, Later) => c = d
  /\ compare.loading <=> \E c \in Slots : Latest(c, Later)

(* No blob has two owners. *)
OwnersSound ==
  /\ light.owned \notin compare.owned
  /\ \A b \in compare.owned : decoded[b] # None
  /\ \A c \in Slots, s \in Sides, b \in Blobs :
       Holds(c, s, b) => decoded[b] # None /\ b \notin compare.owned /\ b # light.owned
  /\ \A c, d \in Slots, s, t \in Sides, b \in Blobs :
       Holds(c, s, b) /\ Holds(d, t, b) => c = d /\ s = t
  /\ \A c \in Slots : Pending(c) /\ calls[c].op = "open" =>
       \A s \in calls[c].todo : calls[c].got[s] = None

(* The comparison owns what its sides show, and nothing is decoded that    *)
(* has no owner.                                                           *)
SidesSound ==
  /\ \A s \in Sides, b \in Blobs : compare.url[s] = BlobUrl(b) => b \in compare.owned
  /\ \A b \in compare.owned : \E s \in Sides : compare.url[s] = BlobUrl(b)
  /\ \A b \in Blobs, s, t \in Sides :
       compare.url[s] = BlobUrl(b) /\ compare.url[t] = BlobUrl(b) => s = t
  /\ \A b \in Blobs : decoded[b] # None =>
       \/ b = light.owned
       \/ b \in compare.owned
       \/ \E c \in Slots, s \in Sides : Holds(c, s, b)
  /\ \A c \in Slots : Latest(c, {"side"}) => calls[c].previous = compare.url[calls[c].side]
  /\ \A c \in Slots : Latest(c, {"open"}) => \A s \in Sides : compare.url[s] = None

IInv ==
  /\ TypeOK
  /\ ListedIsAlive
  /\ LightSound
  /\ CompareSound
  /\ OwnersSound
  /\ swapped \/ SidesSound

-----------------------------------------------------------------------------
(***************************************************************************)
(* What URLs, calls and blobs are like.                                    *)
(***************************************************************************)
LEMMA UrlsKnown ==
  /\ \A b \in Blobs : BlobUrl(b) \in Url /\ BlobUrl(b) # None /\ BlobUrl(b).kind = "blob"
                      /\ BlobUrl(b).blob = b
  /\ \A b, d \in Blobs : BlobUrl(b) = BlobUrl(d) => b = d
  /\ \A i \in Session \cup Videos :
                        /\ SessionUrl(i) \in Url /\ SessionUrl(i) # None
                        /\ SessionUrl(i).kind = "session" /\ SessionUrl(i).image = i
                        /\ FileUrl(i) \in Url /\ FileUrl(i) # None
                        /\ FileUrl(i).kind = "file" /\ FileUrl(i).image = i
  /\ \A b \in Blobs : \A i : BlobUrl(b) # SessionUrl(i) /\ BlobUrl(b) # FileUrl(i)
  /\ None \notin Images /\ None \notin Blobs /\ None \notin Call /\ Session \subseteq Images
<1>1. \A b \in Blobs : BlobUrl(b) \in Url /\ BlobUrl(b).kind = "blob" /\ BlobUrl(b).blob = b
  BY DEF BlobUrl, Url
<1>2. \A i \in Session \cup Videos :
                         /\ SessionUrl(i) \in Url
                         /\ SessionUrl(i).kind = "session" /\ SessionUrl(i).image = i
                         /\ FileUrl(i) \in Url
                         /\ FileUrl(i).kind = "file" /\ FileUrl(i).image = i
  BY DEF SessionUrl, FileUrl, Url
<1>3. \A b \in Blobs : \A i : BlobUrl(b) # SessionUrl(i) /\ BlobUrl(b) # FileUrl(i)
  <2>1. \A i : SessionUrl(i).kind = "session" /\ FileUrl(i).kind = "file"
    BY DEF SessionUrl, FileUrl
  <2> QED
    BY <1>1, <2>1
<1> QED
  BY <1>1, <1>2, <1>3, ViewerAssumption

LEMMA NoneApart ==
  None \notin Images /\ None \notin Blobs /\ None \notin Call /\ None \notin Url
BY ViewerAssumption

LEMMA CallKnown ==
  ASSUME NEW x \in Call
  PROVE  /\ x.op \in {"light", "side", "open"} /\ x.stale \in BOOLEAN
         /\ x.op \in {"light", "side"} => x.image \in Images
         /\ x.op = "side" => x.side \in Sides /\ x.previous \in Url \cup {None}
         /\ x.op = "open" => /\ x.images \in [Sides -> Images]
                             /\ x.got \in [Sides -> Url \cup {None}]
                             /\ x.todo \in SUBSET Sides
BY DEF Call

LEMMA MadeStale ==
  ASSUME NEW x \in Call, NEW y, y = [x EXCEPT !.stale = TRUE]
  PROVE  /\ y \in Call /\ y.stale = TRUE /\ y.op = x.op
         /\ x.op \in {"light", "side"} => y.image = x.image
         /\ x.op = "side" => y.side = x.side /\ y.previous = x.previous
         /\ x.op = "open" => y.images = x.images /\ y.got = x.got /\ y.todo = x.todo
BY DEF Call

(* A call that is left alone, but that a later one of these may outdate.   *)
Kept(d, ops) ==
  /\ Pending(d)' <=> Pending(d)
  /\ Pending(d) => /\ calls'[d] \in Call
                   /\ calls'[d].op = calls[d].op
                   /\ calls'[d].stale <=> (calls[d].stale \/ calls[d].op \in ops)
                   /\ calls[d].op \in {"light", "side"} => calls'[d].image = calls[d].image
                   /\ calls[d].op = "side" => /\ calls'[d].side = calls[d].side
                                              /\ calls'[d].previous = calls[d].previous
                   /\ calls[d].op = "open" => /\ calls'[d].got = calls[d].got
                                              /\ calls'[d].todo = calls[d].todo

LEMMA SameKept ==
  ASSUME TypeOK, NEW d \in Slots, calls'[d] = calls[d]
  PROVE  Kept(d, {})
<1>1. Pending(d) => calls[d] \in Call
  BY DEF TypeOK, Pending
<1> QED
  BY <1>1, CallKnown DEF Kept, Pending

LEMMA BumpKept ==
  ASSUME TypeOK, NEW ops, NEW d \in Slots, calls'[d] = Bump(ops)[d]
  PROVE  Kept(d, ops) /\ Bump(ops)[d] \in Call \cup {None}
<1>1. Pending(d) => calls[d] \in Call
  BY DEF TypeOK, Pending
<1>2. Bump(ops)[d] = IF Pending(d) /\ calls[d].op \in ops
                     THEN [calls[d] EXCEPT !.stale = TRUE] ELSE calls[d]
  BY DEF Bump
<1>3. CASE Pending(d) /\ calls[d].op \in ops
  <2>1. calls'[d] = [calls[d] EXCEPT !.stale = TRUE]
    BY <1>2, <1>3
  <2>2. calls'[d] \in Call
    BY <2>1, <1>1, <1>3, MadeStale
  <2>3. calls'[d] # None
    BY <2>2, NoneApart
  <2> QED
    BY <2>1, <2>2, <2>3, <1>1, <1>3, MadeStale DEF Kept, Pending
<1>4. CASE ~(Pending(d) /\ calls[d].op \in ops)
  <2>1. calls'[d] = calls[d]
    BY <1>2, <1>4
  <2> QED
    BY <2>1, <1>1, <1>2, <1>4, CallKnown DEF Kept, Pending
<1> QED
  BY <1>3, <1>4

(* What is left alone of a call.                                           *)
LEMMA KeptFacts ==
  ASSUME NEW d \in Slots, NEW ops, Kept(d, ops)
  PROVE  /\ \A X : Latest(d, X)' <=> (Latest(d, X) /\ calls[d].op \notin ops)
         /\ \A s, b : Holds(d, s, b)' <=> Holds(d, s, b)
         /\ Latest(d, {"light"}) => calls'[d].image = calls[d].image
         /\ Latest(d, {"side"}) => /\ calls'[d].side = calls[d].side
                                   /\ calls'[d].previous = calls[d].previous
BY DEF Kept, Latest, Holds, Pending

LEMMA BumpType ==
  ASSUME TypeOK, NEW ops
  PROVE  Bump(ops) \in [Slots -> Call \cup {None}]
<1>1. ASSUME NEW d \in Slots
      PROVE  (IF Pending(d) /\ calls[d].op \in ops THEN [calls[d] EXCEPT !.stale = TRUE]
              ELSE calls[d]) \in Call \cup {None}
  <2>1. calls[d] \in Call \cup {None}
    BY DEF TypeOK
  <2>2. CASE Pending(d) /\ calls[d].op \in ops
    <3>1. calls[d] \in Call
      BY <2>1, <2>2 DEF Pending
    <3> QED
      BY <3>1, <2>2, MadeStale
  <2> QED
    BY <2>1, <2>2
<1> QED
  BY <1>1 DEF Bump

LEMMA RevokeKnown ==
  ASSUME NEW map \in [Blobs -> Images \cup {None}], NEW bs
  PROVE  /\ Revoke(map, bs) \in [Blobs -> Images \cup {None}]
         /\ \A b \in Blobs : Revoke(map, bs)[b] = IF b \in bs THEN None ELSE map[b]
BY DEF Revoke

LEMMA LightKnown ==
  ASSUME TypeOK
  PROVE  /\ light.image \in Images \cup {None} /\ light.url \in Url \cup {None}
         /\ light.owned \in Blobs \cup {None}
         /\ light.open \in BOOLEAN /\ light.loading \in BOOLEAN
BY DEF TypeOK

LEMMA CompareKnown ==
  ASSUME TypeOK
  PROVE  /\ compare.image \in [Sides -> Images \cup {None}]
         /\ compare.url \in [Sides -> Url \cup {None}]
         /\ compare.owned \subseteq Blobs
         /\ compare.open \in BOOLEAN /\ compare.loading \in BOOLEAN
BY DEF TypeOK

LEMMA PendingKnown ==
  ASSUME TypeOK, NEW c \in Slots, Pending(c)
  PROVE  calls[c] \in Call
BY DEF TypeOK, Pending

(* The blobs that closing a viewer releases.                               *)
LEMMA ReleasedKnown ==
  /\ \A b \in Blobs : b \in Released(BothUrls) <=>
       b \in compare.owned /\ \E s \in Sides : compare.url[s] = BlobUrl(b)
  /\ \A url : \A b \in Blobs :
       /\ b \in BlobsOf({url}) <=> url = BlobUrl(b)
       /\ b \in Released({url}) <=> b \in compare.owned /\ url = BlobUrl(b)
  /\ \A urls : BlobsOf(urls) \subseteq Blobs
BY DEF Released, BlobsOf, BothUrls

LEMMA OthersKnown == Other("a") = "b" /\ Other("b") = "a"
BY DEF Other, Sides

LEMMA ClosedTypes ==
  ASSUME TypeOK
  PROVE  /\ ClosedLight \in [image : Images \cup {None}, url : Url \cup {None},
                              owned : Blobs \cup {None}, open : BOOLEAN, loading : BOOLEAN]
         /\ ClosedCompare \in [image : [Sides -> Images \cup {None}],
                               url : [Sides -> Url \cup {None}],
                               owned : SUBSET Blobs, open : BOOLEAN, loading : BOOLEAN]
BY CompareKnown DEF ClosedLight, ClosedCompare

LEMMA CloseTypes ==
  ASSUME TypeOK, NEW list
  PROVE  /\ AliveAfterClose(list) \subseteq alive
         /\ DecodedAfterClose \in [Blobs -> Images \cup {None}]
BY RevokeKnown DEF TypeOK, AliveAfterClose, DecodedAfterClose

LEMMA InitType == Init => TypeOK
<1> SUFFICES ASSUME Init PROVE TypeOK
  OBVIOUS
<1>1. listed \subseteq Images /\ saved \subseteq Session /\ alive \subseteq Session
  BY Zenon DEF Init
<1>5. swapped \in BOOLEAN
  BY Zenon DEF Init
<1>6. begun \in 0..MaxCalls
  <2>1. begun = 0 /\ MaxCalls \in Nat
    BY ViewerAssumption DEF Init
  <2> QED
    BY <2>1
<1>4. decoded \in [Blobs -> Images \cup {None}] /\ calls \in [Slots -> Call \cup {None}]
  BY DEF Init
<1>2. light \in [image : Images \cup {None}, url : Url \cup {None},
                 owned : Blobs \cup {None}, open : BOOLEAN, loading : BOOLEAN]
  BY DEF Init, ClosedLight
<1>3. compare \in [image : [Sides -> Images \cup {None}], url : [Sides -> Url \cup {None}],
                   owned : SUBSET Blobs, open : BOOLEAN, loading : BOOLEAN]
  BY DEF Init
<1> QED
  BY <1>1, <1>2, <1>3, <1>4, <1>5, <1>6 DEF TypeOK

LEMMA ResolvedType ==
  ASSUME NEW i \in Images, NEW b \in Blobs
  PROVE  Resolved(i, b) \in Url
BY UrlsKnown DEF Resolved, Stored

(* The types of the part of the state that a call may change.              *)
LightType(x) ==
  x \in [image : Images \cup {None}, url : Url \cup {None},
         owned : Blobs \cup {None}, open : BOOLEAN, loading : BOOLEAN]
CompareType(x) ==
  x \in [image : [Sides -> Images \cup {None}], url : [Sides -> Url \cup {None}],
         owned : SUBSET Blobs, open : BOOLEAN, loading : BOOLEAN]

LEMMA ViewTypes == TypeOK => LightType(light) /\ CompareType(compare)
BY DEF TypeOK, LightType, CompareType

(* What an answer to a call of the comparison does, by URL.                *)
Made(i, b, url) == IF url = BlobUrl(b) THEN [decoded EXCEPT ![b] = i] ELSE decoded

SideStep(c, b, url) ==
  /\ Pending(c) /\ calls[c].op = "side" /\ Fresh(b)
  /\ decoded' = IF calls[c].stale THEN Revoke(Made(calls[c].image, b, url), BlobsOf({url}))
                ELSE Revoke(Made(calls[c].image, b, url), Released({calls[c].previous}))
  /\ compare' = IF calls[c].stale THEN compare
                ELSE [compare EXCEPT
                        !.url = [compare.url EXCEPT ![calls[c].side] = url],
                        !.loading = FALSE,
                        !.owned = (compare.owned \ Released({calls[c].previous}))
                                    \cup BlobsOf({url})]
  /\ calls' = [calls EXCEPT ![c] = None]
  /\ UNCHANGED <<files, alive, light, begun, swapped>>

GotNow(c, s, url) == [calls[c].got EXCEPT ![s] = url]
GotBlobs(c, s, url) == BlobsOf({GotNow(c, s, url)[t] : t \in Sides})

OpenStep(c, s, b, url) ==
  /\ Pending(c) /\ calls[c].op = "open" /\ s \in calls[c].todo /\ Fresh(b)
  /\ IF calls[c].todo = {s}
     THEN /\ calls' = [calls EXCEPT ![c] = None]
          /\ IF calls[c].stale
             THEN /\ compare' = compare
                  /\ decoded' = Revoke(Made(calls[c].images[s], b, url), GotBlobs(c, s, url))
             ELSE /\ compare' = [compare EXCEPT !.url = GotNow(c, s, url), !.loading = FALSE,
                                   !.owned = compare.owned \cup GotBlobs(c, s, url)]
                  /\ decoded' = Made(calls[c].images[s], b, url)
     ELSE /\ calls' = [calls EXCEPT ![c] = [calls[c] EXCEPT !.got = GotNow(c, s, url),
                                                           !.todo = calls[c].todo \ {s}]]
          /\ decoded' = Made(calls[c].images[s], b, url)
          /\ compare' = compare
  /\ UNCHANGED <<files, alive, light, begun, swapped>>

LEMMA SideStepTaken ==
  ASSUME TypeOK, NEW c \in Slots, SideResolves(c)
  PROVE  \E b \in Blobs : \E url \in {None, Resolved(calls[c].image, b)} : SideStep(c, b, url)
<1>1. PICK b \in Blobs : \E url \in {None, Resolved(calls[c].image, b)} :
        /\ Fresh(b)
        /\ decoded' = IF calls[c].stale THEN Revoke(Made(calls[c].image, b, url), BlobsOf({url}))
                      ELSE Revoke(Made(calls[c].image, b, url), Released({calls[c].previous}))
        /\ compare' = IF calls[c].stale THEN compare
                      ELSE [compare EXCEPT !.url[calls[c].side] = url, !.loading = FALSE,
                             !.owned = (@ \ Released({calls[c].previous})) \cup BlobsOf({url})]
  BY DEF SideResolves, Made
<1>2. PICK url \in {None, Resolved(calls[c].image, b)} :
        /\ Fresh(b)
        /\ decoded' = IF calls[c].stale THEN Revoke(Made(calls[c].image, b, url), BlobsOf({url}))
                      ELSE Revoke(Made(calls[c].image, b, url), Released({calls[c].previous}))
        /\ compare' = IF calls[c].stale THEN compare
                      ELSE [compare EXCEPT !.url[calls[c].side] = url, !.loading = FALSE,
                             !.owned = (@ \ Released({calls[c].previous})) \cup BlobsOf({url})]
  BY <1>1
<1>3. ~calls[c].stale => compare' = [compare EXCEPT
                        !.url = [compare.url EXCEPT ![calls[c].side] = url],
                        !.loading = FALSE,
                        !.owned = (compare.owned \ Released({calls[c].previous}))
                                    \cup BlobsOf({url})]
  BY <1>2, ViewTypes DEF CompareType
<1>4. SideStep(c, b, url)
  BY <1>2, <1>3 DEF SideStep, SideResolves
<1> QED
  BY <1>4

LEMMA OpenStepTaken ==
  ASSUME TypeOK, NEW c \in Slots, NEW s \in Sides, CompareResolves(c, s)
  PROVE  \E b \in Blobs : \E url \in {None, Resolved(calls[c].images[s], b)} :
           OpenStep(c, s, b, url)
<1>1. PICK b \in Blobs : \E url \in {None, Resolved(calls[c].images[s], b)} :
        /\ Fresh(b)
        /\ IF calls[c].todo = {s}
           THEN /\ BothHere(c, GotNow(c, s, url), Made(calls[c].images[s], b, url))
                /\ calls' = [calls EXCEPT ![c] = None]
           ELSE /\ calls' = [calls EXCEPT ![c].got = GotNow(c, s, url), ![c].todo = @ \ {s}]
                /\ decoded' = Made(calls[c].images[s], b, url)
                /\ UNCHANGED compare
  BY DEF CompareResolves, Made, GotNow
<1>2. PICK url \in {None, Resolved(calls[c].images[s], b)} :
        /\ Fresh(b)
        /\ IF calls[c].todo = {s}
           THEN /\ BothHere(c, GotNow(c, s, url), Made(calls[c].images[s], b, url))
                /\ calls' = [calls EXCEPT ![c] = None]
           ELSE /\ calls' = [calls EXCEPT ![c].got = GotNow(c, s, url), ![c].todo = @ \ {s}]
                /\ decoded' = Made(calls[c].images[s], b, url)
                /\ UNCHANGED compare
  BY <1>1
<1>3. calls[c].todo # {s} =>
        calls' = [calls EXCEPT ![c] = [calls[c] EXCEPT !.got = GotNow(c, s, url),
                                                     !.todo = calls[c].todo \ {s}]]
  <2>1. calls[c] \in Call /\ calls[c].op = "open"
    BY PendingKnown DEF CompareResolves
  <2>2. calls[c] \in [op : {"open"}, images : [Sides -> Images], got : [Sides -> Url \cup {None}],
          todo : SUBSET Sides, stale : BOOLEAN]
    BY <2>1 DEF Call
  <2>3. calls[c].todo # {s} =>
          calls' = [calls EXCEPT ![c].got = GotNow(c, s, url), ![c].todo = @ \ {s}]
    BY <1>2
  <2> QED
    BY <2>2, <2>3 DEF TypeOK
<1>4. OpenStep(c, s, b, url)
  BY <1>2, <1>3, ViewTypes DEF OpenStep, CompareResolves, BothHere, GotBlobs, CompareType
<1> QED
  BY <1>4

LEMMA TypeStep == TypeOK /\ [Next]_vars => TypeOK'
<1> SUFFICES ASSUME TypeOK, [Next]_vars PROVE TypeOK'
  OBVIOUS
<1> USE ViewerAssumption
<1>c. \A c \in Slots : [calls EXCEPT ![c] = None] \in [Slots -> Call \cup {None}]
  BY DEF TypeOK
<1>t. ASSUME /\ listed' \subseteq Images /\ saved' \subseteq Session
             /\ alive' \subseteq Session
             /\ decoded' \in [Blobs -> Images \cup {None}]
             /\ LightType(light') /\ CompareType(compare')
             /\ calls' \in [Slots -> Call \cup {None}]
             /\ begun' \in 0..MaxCalls /\ swapped' \in BOOLEAN
      PROVE  TypeOK'
  BY <1>t DEF TypeOK, LightType, CompareType
<1>b. ASSUME NEW c \in Slots, Begins(c) PROVE begun' \in 0..MaxCalls
  BY <1>b DEF Begins, TypeOK
<1>1. ASSUME CloseLightbox PROVE TypeOK'
  BY <1>1, <1>t, BumpType, CloseTypes, ClosedTypes, ViewTypes
     DEF CloseLightbox, TypeOK, files, LightType
<1>2. ASSUME SwapCompare PROVE TypeOK'
  <2>1. compare' = [compare EXCEPT !.image = [s \in Sides |-> compare.image[Other(s)]],
                                   !.url = [s \in Sides |-> compare.url[Other(s)]]]
    BY <1>2 DEF SwapCompare
  <2>2. \A s \in Sides : Other(s) \in Sides
    BY OthersKnown DEF Sides
  <2>3. /\ [s \in Sides |-> compare.image[Other(s)]] \in [Sides -> Images \cup {None}]
        /\ [s \in Sides |-> compare.url[Other(s)]] \in [Sides -> Url \cup {None}]
    BY <2>2, CompareKnown
  <2>4. CompareType(compare')
    BY <2>1, <2>3, ViewTypes DEF CompareType
  <2> QED
    BY <1>2, <1>t, <2>4, ViewTypes DEF SwapCompare, TypeOK, files
<1>3. ASSUME CloseCompare PROVE TypeOK'
  BY <1>3, <1>t, BumpType, ClosedTypes, RevokeKnown, ViewTypes
     DEF CloseCompare, TypeOK, files, CompareType
<1>4. ASSUME NEW i \in Images, OpenLightboxUrl(i) PROVE TypeOK'
  <2>1. LightType(light')
    BY <1>4, UrlsKnown DEF OpenLightboxUrl, LightType
  <2> QED
    BY <1>4, <1>t, <2>1, BumpType, RevokeKnown, ViewTypes DEF OpenLightboxUrl, TypeOK, files
<1>5. ASSUME NEW i \in Images, Persist(i) PROVE TypeOK'
  BY <1>5, <1>t, ViewTypes DEF Persist, TypeOK
<1>6. ASSUME NEW c \in Slots, NeverSaved(c) PROVE TypeOK'
  BY <1>6, <1>c, <1>t, ViewTypes DEF NeverSaved, TypeOK, files
<1>7. ASSUME NEW i \in Images, DeleteImage(i) PROVE TypeOK'
  <2>1. alive' \subseteq Session /\ listed' \subseteq Images
    BY <1>7, CloseTypes DEF DeleteImage, TypeOK
  <2>2. /\ LightType(light') /\ decoded' \in [Blobs -> Images \cup {None}]
        /\ calls' \in [Slots -> Call \cup {None}]
    BY <1>7, CloseTypes, ClosedTypes, BumpType, ViewTypes DEF DeleteImage, TypeOK, LightType
  <2> QED
    BY <1>7, <1>t, <2>1, <2>2, ViewTypes DEF DeleteImage, TypeOK
<1>8. ASSUME NEW i \in Images, ScanMisses(i) PROVE TypeOK'
  <2>1. alive' \subseteq Session /\ listed' \subseteq Images
    BY <1>8, CloseTypes DEF ScanMisses, TypeOK
  <2>2. /\ LightType(light') /\ CompareType(compare')
        /\ calls' \in [Slots -> Call \cup {None}]
    BY <1>8, CloseTypes, ClosedTypes, BumpType, ViewTypes
       DEF ScanMisses, TypeOK, LightType, CompareType
  <2>3. decoded' \in [Blobs -> Images \cup {None}]
    BY <1>8, CloseTypes, RevokeKnown DEF ScanMisses, TypeOK
  <2> QED
    BY <1>8, <1>t, <2>1, <2>2, <2>3, ViewTypes DEF ScanMisses, TypeOK
<1>9. ASSUME NEW c \in Slots, LightboxLoaded(c) PROVE TypeOK'
  <2>1. Pending(c) /\ calls[c].op = "light" /\ calls[c] \in Call /\ calls[c].image \in Images
    BY <1>9, PendingKnown, CallKnown DEF LightboxLoaded
  <2>2. CASE UNCHANGED <<light, decoded>>
    BY <1>9, <1>c, <1>t, <2>2, ViewTypes DEF LightboxLoaded, TypeOK, files
  <2>3. CASE ~UNCHANGED <<light, decoded>>
    <3>1. PICK b \in Blobs :
            /\ light' = [light EXCEPT !.url = BlobUrl(b), !.owned = b, !.loading = FALSE]
            /\ decoded' = [Revoke(decoded, ReleasedLight) EXCEPT ![b] = calls[c].image]
      BY <1>9, <2>3 DEF LightboxLoaded
    <3>2. LightType(light')
      BY <3>1, ViewTypes, UrlsKnown DEF LightType
    <3>3. decoded' \in [Blobs -> Images \cup {None}]
      BY <3>1, <2>1, RevokeKnown DEF TypeOK
    <3> QED
      BY <1>9, <1>c, <1>t, <3>2, <3>3, ViewTypes DEF LightboxLoaded, TypeOK, files
  <2> QED
    BY <2>2, <2>3
<1>10. ASSUME NEW c \in Slots, LightboxFails(c) PROVE TypeOK'
  <2>1. LightType(light')
    BY <1>10, ViewTypes DEF LightboxFails, LightType
  <2> QED
    BY <1>10, <1>c, <1>t, <2>1, ViewTypes DEF LightboxFails, TypeOK, files
<1>11. ASSUME NEW c \in Slots, Upgrade(c) PROVE TypeOK'
  <2>1. calls[c].image \in Session
    BY <1>11 DEF Upgrade, TypeOK
  <2>2. LightType(light')
    BY <1>11, <2>1, ViewTypes, UrlsKnown DEF Upgrade, LightType
  <2>3. decoded' \in [Blobs -> Images \cup {None}]
    BY <1>11, RevokeKnown DEF Upgrade, TypeOK
  <2> QED
    BY <1>11, <1>c, <1>t, <2>2, <2>3, ViewTypes DEF Upgrade, TypeOK, files
<1>12. ASSUME NEW c \in Slots, SideResolves(c) PROVE TypeOK'
  <2>1. Pending(c) /\ calls[c].op = "side" /\ calls[c] \in Call /\ calls[c].image \in Images
    BY <1>12, PendingKnown, CallKnown DEF SideResolves
  <2>2. PICK b \in Blobs : \E url \in {None, Resolved(calls[c].image, b)} : SideStep(c, b, url)
    BY <1>12, SideStepTaken
  <2>3. PICK url \in {None, Resolved(calls[c].image, b)} : SideStep(c, b, url)
    BY <2>2
  <2>4. Made(calls[c].image, b, url) \in [Blobs -> Images \cup {None}]
    BY <2>1 DEF TypeOK, Made
  <2>5. decoded' \in [Blobs -> Images \cup {None}]
    BY <2>3, <2>4, RevokeKnown DEF SideStep
  <2>6. /\ [compare.url EXCEPT ![calls[c].side] = url] \in [Sides -> Url \cup {None}]
        /\ (compare.owned \ Released({calls[c].previous})) \cup BlobsOf({url}) \in SUBSET Blobs
    <3>1. url \in Url \cup {None}
      BY <2>1, ResolvedType
    <3>2. [compare.url EXCEPT ![calls[c].side] = url] \in [Sides -> Url \cup {None}]
      BY <3>1, CompareKnown
    <3> QED
      BY <3>2, CompareKnown, ReleasedKnown
  <2>7. CompareType(compare')
    BY <2>3, <2>6, ViewTypes DEF CompareType, SideStep
  <2> QED
    BY <2>3, <1>c, <1>t, <2>5, <2>7, ViewTypes DEF SideStep, TypeOK, files
<1>13. ASSUME NEW c \in Slots, NEW s \in Sides, CompareResolves(c, s) PROVE TypeOK'
  <2>1. /\ Pending(c) /\ calls[c].op = "open" /\ calls[c] \in Call /\ calls[c].images[s] \in Images
        /\ calls[c].got \in [Sides -> Url \cup {None}] /\ calls[c].todo \in SUBSET Sides
    BY <1>13, PendingKnown, CallKnown DEF CompareResolves
  <2>2. PICK b \in Blobs : \E url \in {None, Resolved(calls[c].images[s], b)} :
          OpenStep(c, s, b, url)
    BY <1>13, OpenStepTaken
  <2>3. PICK url \in {None, Resolved(calls[c].images[s], b)} : OpenStep(c, s, b, url)
    BY <2>2
  <2>4. Made(calls[c].images[s], b, url) \in [Blobs -> Images \cup {None}]
    BY <2>1 DEF TypeOK, Made
  <2>5. /\ GotNow(c, s, url) \in [Sides -> Url \cup {None}]
        /\ GotBlobs(c, s, url) \in SUBSET Blobs
    BY <2>1, ResolvedType, ReleasedKnown DEF GotNow, GotBlobs
  <2>6. decoded' \in [Blobs -> Images \cup {None}]
    BY <2>3, <2>4, RevokeKnown DEF OpenStep
  <2>7. CompareType(compare')
    <3>1. \/ compare' = compare
          \/ compare' = [compare EXCEPT !.url = GotNow(c, s, url), !.loading = FALSE,
                                        !.owned = compare.owned \cup GotBlobs(c, s, url)]
      BY <2>3 DEF OpenStep
    <3>2. compare.owned \cup GotBlobs(c, s, url) \in SUBSET Blobs
      BY <2>5, CompareKnown
    <3> QED
      BY <3>1, <3>2, <2>5, ViewTypes DEF CompareType
  <2>8. calls' \in [Slots -> Call \cup {None}]
    <3>1. [calls[c] EXCEPT !.got = GotNow(c, s, url), !.todo = calls[c].todo \ {s}] \in Call
      BY <2>1, <2>5 DEF Call
    <3> QED
      BY <2>3, <3>1, <1>c DEF TypeOK, OpenStep
  <2> QED
    BY <2>3, <1>t, <2>6, <2>7, <2>8, ViewTypes DEF OpenStep, TypeOK, files
<1>14. ASSUME NEW c \in Slots, NEW i \in Images, OpenLightbox(i, c) PROVE TypeOK'
  <2>1. LightType(light')
    BY <1>14, UrlsKnown DEF OpenLightbox, LightType, Stored
  <2>2. [op |-> "light", image |-> i, stale |-> FALSE] \in Call
    BY DEF Call
  <2>3. calls' \in [Slots -> Call \cup {None}]
    BY <1>14, <2>2, BumpType DEF OpenLightbox
  <2> QED
    BY <1>14, <1>b, <1>t, <2>1, <2>3, RevokeKnown, ViewTypes DEF OpenLightbox, TypeOK, files
<1>15. ASSUME NEW c \in Slots, NEW i \in Images, NEW s \in Sides, SetCompareSide(s, i, c)
       PROVE  TypeOK'
  <2>1. [op |-> "side", side |-> s, image |-> i, previous |-> compare.url[s], stale |-> FALSE]
          \in Call
    BY CompareKnown DEF Call
  <2>2. calls' \in [Slots -> Call \cup {None}]
    BY <1>15, <2>1, BumpType DEF SetCompareSide
  <2>3. CompareType(compare')
    BY <1>15, ViewTypes DEF SetCompareSide, CompareType
  <2> QED
    BY <1>15, <1>b, <1>t, <2>2, <2>3, ViewTypes DEF SetCompareSide, TypeOK, files
<1>16. ASSUME NEW c \in Slots, NEW i \in Images, NEW j \in Images, OpenCompare(i, j, c)
       PROVE  TypeOK'
  <2> DEFINE images == [s \in Sides |-> IF s = "a" THEN i ELSE j]
  <2>1. [op |-> "open", images |-> images, got |-> [s \in Sides |-> None],
         todo |-> Sides, stale |-> FALSE] \in Call
    BY DEF Call
  <2>2. calls' \in [Slots -> Call \cup {None}]
    BY <1>16, <2>1, BumpType DEF OpenCompare
  <2>3. CompareType(compare')
    BY <1>16, CompareKnown DEF OpenCompare, CompareType
  <2> QED
    BY <1>16, <1>b, <1>t, <2>2, <2>3, RevokeKnown, ViewTypes DEF OpenCompare, TypeOK, files
<1>17. ASSUME NEW c \in Slots, VideoShown(c) PROVE TypeOK'
  <2>1. calls[c].image \in Videos
    BY <1>17 DEF VideoShown
  <2>2. LightType(light')
    <3>1. \/ light' = light
          \/ light' = [light EXCEPT !.url = FileUrl(calls[c].image), !.owned = None,
                                    !.loading = FALSE]
      BY <1>17 DEF VideoShown
    <3>2. FileUrl(calls[c].image) \in Url
      BY <2>1, UrlsKnown
    <3> QED
      BY <3>1, <3>2, ViewTypes DEF LightType
  <2>3. decoded' \in [Blobs -> Images \cup {None}]
    BY <1>17, RevokeKnown DEF VideoShown, TypeOK
  <2> QED
    BY <1>17, <1>c, <1>t, <2>2, <2>3, ViewTypes DEF VideoShown, TypeOK, files
<1>18. ASSUME NEW c \in Slots, NEW i \in Images, OpenVideo(i, c) PROVE TypeOK'
  <2>1. LightType(light')
    BY <1>18, ViewTypes DEF OpenVideo, LightType
  <2>2. [op |-> "light", image |-> i, stale |-> FALSE] \in Call
    BY DEF Call
  <2>3. calls' \in [Slots -> Call \cup {None}]
    BY <1>18, <2>2, BumpType DEF OpenVideo
  <2> QED
    BY <1>18, <1>b, <1>t, <2>1, <2>3, ViewTypes DEF OpenVideo, TypeOK, files
<1>19. ASSUME UNCHANGED vars PROVE TypeOK'
  BY <1>19 DEF TypeOK, vars
<1> QED
  BY <1>1, <1>2, <1>3, <1>4, <1>5, <1>6, <1>7, <1>8, <1>9, <1>10, <1>11, <1>12, <1>13, <1>14,
     <1>15, <1>16, <1>17, <1>18, <1>19 DEF Next, Answers

-----------------------------------------------------------------------------
(***************************************************************************)
(* What a step leaves of the pending calls.                                *)
(***************************************************************************)
LightCallAlone(d) ==
  /\ Latest(d, {"light"})' <=> Latest(d, {"light"})
  /\ Latest(d, {"light"}) => calls'[d].image = calls[d].image

LaterCallAlone(d) ==
  /\ Latest(d, Later)' <=> Latest(d, Later)
  /\ Latest(d, {"side"})' <=> Latest(d, {"side"})
  /\ Latest(d, {"open"})' <=> Latest(d, {"open"})
  /\ Latest(d, {"side"}) => /\ calls'[d].side = calls[d].side
                            /\ calls'[d].previous = calls[d].previous

(* What the calls that open a comparison hold does not change.             *)
HeldAlone(d) ==
  /\ \A s, b : Holds(d, s, b)' <=> Holds(d, s, b)
  /\ Pending(d)' /\ calls'[d].op = "open" =>
       /\ Pending(d) /\ calls[d].op = "open"
       /\ calls'[d].todo = calls[d].todo /\ calls'[d].got = calls[d].got

LEMMA Alone ==
  ASSUME NEW d \in Slots, NEW ops, Kept(d, ops)
  PROVE  /\ "light" \notin ops => LightCallAlone(d)
         /\ ops \cap Later = {} => LaterCallAlone(d)
         /\ HeldAlone(d)
         /\ "light" \in ops => ~Latest(d, {"light"})'
         /\ Later \subseteq ops => ~Latest(d, Later)' /\ ~Latest(d, {"side"})' /\ ~Latest(d, {"open"})'
<1>1. ASSUME "light" \notin ops PROVE LightCallAlone(d)
  <2>1. Latest(d, {"light"})' <=> (Latest(d, {"light"}) /\ calls[d].op \notin ops)
    BY KeptFacts
  <2>2. Latest(d, {"light"}) => calls[d].op \notin ops
    BY <1>1 DEF Latest
  <2>3. Latest(d, {"light"}) => calls'[d].image = calls[d].image
    BY KeptFacts
  <2> QED
    BY <2>1, <2>2, <2>3 DEF LightCallAlone
<1>2. ASSUME ops \cap Later = {} PROVE LaterCallAlone(d)
  <2>1. /\ Latest(d, Later)' <=> (Latest(d, Later) /\ calls[d].op \notin ops)
        /\ Latest(d, {"side"})' <=> (Latest(d, {"side"}) /\ calls[d].op \notin ops)
        /\ Latest(d, {"open"})' <=> (Latest(d, {"open"}) /\ calls[d].op \notin ops)
    BY KeptFacts
  <2>2. /\ Latest(d, Later) => calls[d].op \in Later
        /\ Latest(d, {"side"}) => calls[d].op \in Later
        /\ Latest(d, {"open"}) => calls[d].op \in Later
    BY DEF Latest, Later
  <2>3. calls[d].op \in Later => calls[d].op \notin ops
    BY <1>2
  <2> QED
    BY <2>1, <2>2, <2>3, KeptFacts DEF LaterCallAlone
<1>3. HeldAlone(d)
  BY KeptFacts DEF HeldAlone, Kept, Pending
<1>4. "light" \in ops => ~Latest(d, {"light"})'
  BY KeptFacts DEF Latest
<1>5. Later \subseteq ops => ~Latest(d, Later)' /\ ~Latest(d, {"side"})' /\ ~Latest(d, {"open"})'
  BY KeptFacts DEF Latest, Later
<1> QED
  BY <1>1, <1>2, <1>3, <1>4, <1>5

LEMMA SameCalls ==
  ASSUME TypeOK, calls' = calls, NEW d \in Slots
  PROVE  LightCallAlone(d) /\ LaterCallAlone(d) /\ HeldAlone(d)
BY SameKept, Alone

LEMMA BumpCalls ==
  ASSUME TypeOK, NEW ops, calls' = Bump(ops), NEW d \in Slots
  PROVE  Kept(d, ops)
BY BumpKept

LEMMA AnswerCalls ==
  ASSUME TypeOK, NEW c \in Slots, calls' = [calls EXCEPT ![c] = None]
  PROVE  /\ ~Pending(c)' /\ (\A X : ~Latest(c, X)') /\ (\A s, b : ~Holds(c, s, b)')
         /\ \A d \in Slots : d # c => Kept(d, {})
<1>1. calls'[c] = None
  BY DEF TypeOK
<1>2. ASSUME NEW d \in Slots, d # c PROVE Kept(d, {})
  <2>1. calls'[d] = calls[d]
    BY <1>2 DEF TypeOK
  <2> QED
    BY <2>1, SameKept
<1> QED
  BY <1>1, <1>2 DEF Pending, Latest, Holds

LEMMA NewCalls ==
  ASSUME TypeOK, NEW c \in Slots, NEW ops, NEW x, calls' = [Bump(ops) EXCEPT ![c] = x]
  PROVE  /\ calls'[c] = x
         /\ \A d \in Slots : d # c => Kept(d, ops)
<1>1. Bump(ops) \in [Slots -> Call \cup {None}]
  BY BumpType
<1>2. ASSUME NEW d \in Slots, d # c PROVE Kept(d, ops)
  <2>1. calls'[d] = Bump(ops)[d]
    BY <1>1, <1>2
  <2> QED
    BY <2>1, BumpKept
<1> QED
  BY <1>1, <1>2

-----------------------------------------------------------------------------
(***************************************************************************)
(* What a step leaves of the decoded blobs.                                *)
(***************************************************************************)
LEMMA FreshKnown ==
  ASSUME NEW b \in Blobs, Fresh(b)
  PROVE  /\ decoded[b] = None /\ light.url # BlobUrl(b)
         /\ \A s \in Sides : compare.url[s] # BlobUrl(b)
         /\ \A c \in Slots : Pending(c) /\ calls[c].op = "side" => calls[c].previous # BlobUrl(b)
         /\ \A c \in Slots, s \in Sides : ~Holds(c, s, b)
<1>1. decoded[b] = None /\ ~Referenced(b)
  BY DEF Fresh, Unused
<1>2. \A c \in Slots : Pending(c) /\ calls[c].op = "side" => calls[c].previous # BlobUrl(b)
  BY <1>1 DEF Referenced
<1>3. \A c \in Slots, s \in Sides : ~Holds(c, s, b)
  BY <1>1 DEF Referenced, Holds
<1> QED
  BY <1>1, <1>2, <1>3 DEF Referenced

(* The answer is the fresh blob, or it is no blob.                         *)
LEMMA AnswerUrl ==
  ASSUME NEW i \in Images, NEW b \in Blobs, NEW url \in {None, Resolved(i, b)}
  PROVE  \A d \in Blobs : url = BlobUrl(d) => d = b
BY UrlsKnown DEF Resolved, Stored

SideLeaves(c, b, url, d) ==
  decoded'[d] =
    IF calls[c].stale THEN decoded[d]
    ELSE IF url = BlobUrl(b) /\ d = b THEN calls[c].image
    ELSE IF d \in Released({calls[c].previous}) THEN None ELSE decoded[d]

LEMMA SideDecoded ==
  ASSUME TypeOK, NEW c \in Slots, NEW b \in Blobs,
         NEW url \in {None, Resolved(calls[c].image, b)}, SideStep(c, b, url), NEW d \in Blobs
  PROVE  SideLeaves(c, b, url, d)
<1> SUFFICES decoded'[d] =
             IF calls[c].stale THEN decoded[d]
             ELSE IF url = BlobUrl(b) /\ d = b THEN calls[c].image
             ELSE IF d \in Released({calls[c].previous}) THEN None ELSE decoded[d]
  BY DEF SideLeaves
<1>1. Pending(c) /\ calls[c].op = "side" /\ calls[c] \in Call /\ calls[c].image \in Images
  BY PendingKnown, CallKnown DEF SideStep
<1>2. Made(calls[c].image, b, url) \in [Blobs -> Images \cup {None}]
  BY <1>1 DEF TypeOK, Made
<1>3. Made(calls[c].image, b, url)[d] =
        IF url = BlobUrl(b) /\ d = b THEN calls[c].image ELSE decoded[d]
  BY DEF Made, TypeOK
<1>4. decoded[b] = None /\ calls[c].previous # BlobUrl(b)
  BY <1>1, FreshKnown DEF SideStep
<1>5. url = BlobUrl(d) => d = b
  BY <1>1, AnswerUrl
<1>6. d \in BlobsOf({url}) <=> url = BlobUrl(d)
  BY ReleasedKnown
<1>7. b \notin Released({calls[c].previous})
  BY <1>4, ReleasedKnown
<1>8. CASE calls[c].stale
  <2>1. decoded'[d] = IF d \in BlobsOf({url}) THEN None ELSE Made(calls[c].image, b, url)[d]
    BY <1>2, <1>8, RevokeKnown DEF SideStep
  <2> QED
    BY <2>1, <1>3, <1>4, <1>5, <1>6, <1>8
<1>9. CASE ~calls[c].stale
  <2>1. decoded'[d] = IF d \in Released({calls[c].previous}) THEN None
                      ELSE Made(calls[c].image, b, url)[d]
    BY <1>2, <1>9, RevokeKnown DEF SideStep
  <2> QED
    BY <2>1, <1>3, <1>7, <1>9
<1> QED
  BY <1>8, <1>9

LEMMA OpenDecoded ==
  ASSUME TypeOK, NEW c \in Slots, NEW s \in Sides, NEW b \in Blobs,
         NEW url \in {None, Resolved(calls[c].images[s], b)}, OpenStep(c, s, b, url), NEW d \in Blobs
  PROVE  decoded'[d] =
           IF calls[c].todo = {s} /\ calls[c].stale
           THEN IF \E t \in Sides : GotNow(c, s, url)[t] = BlobUrl(d) THEN None ELSE decoded[d]
           ELSE IF url = BlobUrl(b) /\ d = b THEN calls[c].images[s] ELSE decoded[d]
<1>1. /\ Pending(c) /\ calls[c].op = "open" /\ calls[c] \in Call /\ calls[c].images[s] \in Images
      /\ calls[c].got \in [Sides -> Url \cup {None}]
  BY PendingKnown, CallKnown DEF OpenStep
<1>2. Made(calls[c].images[s], b, url) \in [Blobs -> Images \cup {None}]
  BY <1>1 DEF TypeOK, Made
<1>3. Made(calls[c].images[s], b, url)[d] =
        IF url = BlobUrl(b) /\ d = b THEN calls[c].images[s] ELSE decoded[d]
  BY DEF Made, TypeOK
<1>4. CASE calls[c].todo = {s} /\ calls[c].stale
  <2>1. decoded'[d] = IF d \in GotBlobs(c, s, url) THEN None
                      ELSE Made(calls[c].images[s], b, url)[d]
    BY <1>2, <1>4, RevokeKnown DEF OpenStep
  <2>2. d \in GotBlobs(c, s, url) <=> \E t \in Sides : GotNow(c, s, url)[t] = BlobUrl(d)
    BY DEF GotBlobs, BlobsOf
  <2>3. GotNow(c, s, url)[s] = url
    BY <1>1 DEF GotNow
  <2> QED
    BY <2>1, <2>2, <2>3, <1>3, <1>4
<1>5. CASE ~(calls[c].todo = {s} /\ calls[c].stale)
  <2>1. decoded' = Made(calls[c].images[s], b, url)
    BY <1>5 DEF OpenStep
  <2> QED
    BY <2>1, <1>3, <1>5
<1> QED
  BY <1>4, <1>5

LEMMA CompareReleased ==
  ASSUME TypeOK, decoded' = Revoke(decoded, Released(BothUrls)), NEW d \in Blobs
  PROVE  decoded'[d] = IF d \in compare.owned /\ \E s \in Sides : compare.url[s] = BlobUrl(d)
                       THEN None ELSE decoded[d]
<1>1. decoded \in [Blobs -> Images \cup {None}]
  BY DEF TypeOK
<1>2. decoded'[d] = IF d \in Released(BothUrls) THEN None ELSE decoded[d]
  BY <1>1, RevokeKnown
<1> QED
  BY <1>2, ReleasedKnown

(* The blob of the lightbox is the one that closing it revokes.            *)
LEMMA LightReleased ==
  ASSUME TypeOK, LightSound
  PROVE  /\ DecodedAfterClose \in [Blobs -> Images \cup {None}]
         /\ \A d \in Blobs : DecodedAfterClose[d] = IF d = light.owned THEN None ELSE decoded[d]
         /\ Revoke(decoded, ReleasedLight) \in [Blobs -> Images \cup {None}]
         /\ \A d \in Blobs : Revoke(decoded, ReleasedLight)[d] =
                               IF d = light.owned THEN None ELSE decoded[d]
<1>1. decoded \in [Blobs -> Images \cup {None}]
  BY DEF TypeOK
<1>2. \A d \in Blobs : d \in BlobsOf({light.url}) <=> d = light.owned
  <2> SUFFICES ASSUME NEW d \in Blobs PROVE d \in BlobsOf({light.url}) <=> d = light.owned
    OBVIOUS
  <2>1. d \in BlobsOf({light.url}) <=> light.url = BlobUrl(d)
    BY ReleasedKnown
  <2>2. light.url = BlobUrl(d) <=> d = light.owned
    BY NoneApart DEF LightSound
  <2> QED
    BY <2>1, <2>2
<1>3. \A d \in Blobs : d \in ReleasedLight <=> d = light.owned
  BY NoneApart DEF ReleasedLight
<1>4. /\ DecodedAfterClose \in [Blobs -> Images \cup {None}]
      /\ \A d \in Blobs : DecodedAfterClose[d] = IF d \in BlobsOf({light.url}) THEN None
                                                ELSE decoded[d]
  BY <1>1, RevokeKnown DEF DecodedAfterClose
<1>5. /\ Revoke(decoded, ReleasedLight) \in [Blobs -> Images \cup {None}]
      /\ \A d \in Blobs : Revoke(decoded, ReleasedLight)[d] =
                            IF d \in ReleasedLight THEN None ELSE decoded[d]
  BY <1>1, RevokeKnown
<1> QED
  BY <1>2, <1>3, <1>4, <1>5

(* One of the two images of a comparison was resolved.                     *)
LEMMA OpenCalls ==
  ASSUME TypeOK, NEW c \in Slots, NEW s \in Sides, NEW b \in Blobs,
         NEW url \in {None, Resolved(calls[c].images[s], b)}, OpenStep(c, s, b, url)
  PROVE  /\ \A d \in Slots : d # c => Kept(d, {})
         /\ calls[c].todo = {s} => /\ ~Pending(c)'
                                   /\ \A X : ~Latest(c, X)'
                                   /\ \A t, e : ~Holds(c, t, e)'
         /\ calls[c].todo # {s} =>
              /\ Pending(c)' /\ calls'[c].op = "open"
              /\ calls'[c].stale = calls[c].stale
              /\ calls'[c].got = GotNow(c, s, url)
              /\ calls'[c].todo = calls[c].todo \ {s}
              /\ LightCallAlone(c) /\ LaterCallAlone(c)
<1>1. Pending(c) /\ calls[c].op = "open" /\ calls[c] \in Call
  BY PendingKnown DEF OpenStep
<1>2. CASE calls[c].todo = {s}
  <2>1. calls' = [calls EXCEPT ![c] = None]
    BY <1>2 DEF OpenStep
  <2> QED
    BY <2>1, <1>2, AnswerCalls
<1>3. CASE calls[c].todo # {s}
  <2> DEFINE x == [calls[c] EXCEPT !.got = GotNow(c, s, url), !.todo = calls[c].todo \ {s}]
  <2>1. calls' = [calls EXCEPT ![c] = x]
    BY <1>3 DEF OpenStep
  <2>2. ASSUME NEW d \in Slots, d # c PROVE Kept(d, {})
    <3>1. calls'[d] = calls[d]
      BY <2>1, <2>2 DEF TypeOK
    <3> QED
      BY <3>1, SameKept
  <2>3. calls'[c] = x
    BY <2>1 DEF TypeOK
  <2>4. /\ x \in Call /\ x.op = "open" /\ x.stale = calls[c].stale
        /\ x.got = GotNow(c, s, url) /\ x.todo = calls[c].todo \ {s}
    <3>1. calls[c] \in [op : {"open"}, images : [Sides -> Images], got : [Sides -> Url \cup {None}],
                        todo : SUBSET Sides, stale : BOOLEAN]
      BY <1>1 DEF Call
    <3>2. GotNow(c, s, url) \in [Sides -> Url \cup {None}]
      BY <1>1, CallKnown, ResolvedType DEF GotNow
    <3>3. x \in [op : {"open"}, images : [Sides -> Images], got : [Sides -> Url \cup {None}],
                 todo : SUBSET Sides, stale : BOOLEAN]
      BY <3>1, <3>2
    <3> QED
      BY <3>1, <3>3 DEF Call
  <2>5. calls'[c] # None /\ calls[c] # None
    BY <2>3, <2>4, <1>1, NoneApart
  <2> QED
    BY <1>1, <1>3, <2>2, <2>3, <2>4, <2>5
       DEF Pending, LightCallAlone, LaterCallAlone, Latest, Later
<1> QED
  BY <1>2, <1>3

(* What it was answered is what it held, or the fresh blob.                *)
LEMMA OpenForgets ==
  ASSUME TypeOK, NEW c \in Slots, NEW s \in Sides, NEW b \in Blobs,
         NEW url \in {None, Resolved(calls[c].images[s], b)}, OpenStep(c, s, b, url),
         NEW t \in Sides, NEW d \in Blobs
  PROVE  /\ GotNow(c, s, url)[t] = BlobUrl(d) <=>
              IF t = s THEN url = BlobUrl(d) ELSE Holds(c, t, d)
         /\ url = BlobUrl(d) => d = b
<1>1. /\ Pending(c) /\ calls[c].op = "open" /\ calls[c] \in Call /\ calls[c].images[s] \in Images
      /\ calls[c].got \in [Sides -> Url \cup {None}]
  BY PendingKnown, CallKnown DEF OpenStep
<1>2. GotNow(c, s, url)[t] = IF t = s THEN url ELSE calls[c].got[t]
  BY <1>1 DEF GotNow
<1> QED
  BY <1>1, <1>2, AnswerUrl DEF Holds

LEMMA AnswerAlone ==
  ASSUME TypeOK, NEW c \in Slots, calls' = [calls EXCEPT ![c] = None]
  PROVE  /\ ~Pending(c)' /\ (\A X : ~Latest(c, X)') /\ (\A s, b : ~Holds(c, s, b)')
         /\ \A d \in Slots : d # c => LightCallAlone(d) /\ LaterCallAlone(d) /\ HeldAlone(d)
<1>1. ASSUME NEW d \in Slots, d # c
      PROVE  LightCallAlone(d) /\ LaterCallAlone(d) /\ HeldAlone(d)
  <2>1. Kept(d, {})
    BY <1>1, AnswerCalls
  <2> QED
    BY <2>1, Alone
<1>2. ~Pending(c)' /\ (\A X : ~Latest(c, X)') /\ (\A s, b : ~Holds(c, s, b)')
  BY AnswerCalls
<1> QED
  BY <1>1, <1>2

-----------------------------------------------------------------------------
(* No image that stays listed loses its blob.                              *)
LEMMA ListedStep == TypeOK /\ ListedIsAlive /\ [Next]_vars => ListedIsAlive'
<1> SUFFICES ASSUME TypeOK, ListedIsAlive, [Next]_vars PROVE ListedIsAlive'
  OBVIOUS
<1>a. ASSUME listed' = listed, alive' = alive PROVE ListedIsAlive'
  BY <1>a DEF ListedIsAlive
<1>b. \A list : \A i \in list \cap Session : i \in alive => i \in AliveAfterClose(list)
  BY DEF AliveAfterClose, Shared
<1>1. ASSUME CloseLightbox PROVE ListedIsAlive'
  BY <1>1, <1>b DEF CloseLightbox, ListedIsAlive, files
<1>2. ASSUME NEW i \in Images, DeleteImage(i) PROVE ListedIsAlive'
  BY <1>2, <1>b DEF DeleteImage, ListedIsAlive
<1>3. ASSUME NEW i \in Images, ScanMisses(i) PROVE ListedIsAlive'
  BY <1>3, <1>b DEF ScanMisses, ListedIsAlive
<1> QED
  <2>1. ASSUME SwapCompare \/ CloseCompare PROVE ListedIsAlive'
    BY <2>1, <1>a DEF SwapCompare, CloseCompare, files
  <2>2. ASSUME NEW i \in Images, OpenLightboxUrl(i) \/ Persist(i)
        PROVE  ListedIsAlive'
    BY <2>2, <1>a DEF OpenLightboxUrl, Persist, files
  <2>3. ASSUME NEW c \in Slots, Answers(c) PROVE ListedIsAlive'
    BY <2>3, <1>a DEF Answers, LightboxLoaded, LightboxFails, VideoShown, Upgrade, NeverSaved,
                      SideResolves, CompareResolves, files
  <2>4. ASSUME NEW c \in Slots, NEW i \in Images, OpenLightbox(i, c) \/ OpenVideo(i, c)
        PROVE  ListedIsAlive'
    BY <2>4, <1>a DEF OpenLightbox, OpenVideo, files
  <2>5. ASSUME NEW c \in Slots, NEW i \in Images, NEW s \in Sides, SetCompareSide(s, i, c)
        PROVE  ListedIsAlive'
    BY <2>5, <1>a DEF SetCompareSide, files
  <2>6. ASSUME NEW c \in Slots, NEW i \in Images, NEW j \in Images, OpenCompare(i, j, c)
        PROVE  ListedIsAlive'
    BY <2>6, <1>a DEF OpenCompare, files
  <2>7. ASSUME UNCHANGED vars PROVE ListedIsAlive'
    BY <2>7, <1>a DEF vars
  <2> QED
    BY <1>1, <1>2, <1>3, <2>1, <2>2, <2>3, <2>4, <2>5, <2>6, <2>7 DEF Next

-----------------------------------------------------------------------------
(***************************************************************************)
(* The lightbox.                                                           *)
(***************************************************************************)
(* The URL of a video is awaited by the latest call.                       *)
LEMMA Awaiting ==
  AwaitsVideo <=> \E c \in Slots : Latest(c, {"light"}) /\ calls[c].image \in Videos
BY DEF AwaitsVideo, Latest

LEMMA AwaitingAlone ==
  ASSUME \A d \in Slots : LightCallAlone(d)
  PROVE  AwaitsVideo => AwaitsVideo'
BY DEF AwaitsVideo, LightCallAlone, Latest

(* A step of something else leaves the lightbox sound.                     *)
LEMMA LightFrame ==
  ASSUME TypeOK, LightSound, light' = light,
         \A i \in alive : i = light.image => i \in alive',
         \A d \in Slots : Latest(d, {"light"})' =>
                            Latest(d, {"light"}) /\ calls'[d].image = calls[d].image,
         light.loading => \E d \in Slots : Latest(d, {"light"})',
         AwaitsVideo => AwaitsVideo',
         light.owned # None => decoded'[light.owned] = decoded[light.owned]
  PROVE  LightSound'
<1>1. /\ light'.owned # None => /\ light'.url = BlobUrl(light'.owned)
                                /\ decoded'[light'.owned] # None /\ light'.image # None
                                /\ ~AwaitsVideo' => decoded'[light'.owned] = light'.image
      /\ \A b \in Blobs : light'.url = BlobUrl(b) => light'.owned = b
  BY DEF LightSound
<1>2. light'.image # None /\ light'.owned = None /\ light'.url # None =>
        \/ light'.url = SessionUrl(light'.image) /\ light'.image \in alive'
        \/ light'.url = FileUrl(light'.image)
        \/ AwaitsVideo'
  BY DEF LightSound
<1>3. \A c \in Slots : Latest(c, {"light"})' => light'.image = calls'[c].image
  BY DEF LightSound
<1>4. light'.loading => light'.image \notin Session /\ \E c \in Slots : Latest(c, {"light"})'
  BY DEF LightSound
<1> QED
  BY <1>1, <1>2, <1>3, <1>4 DEF LightSound

LEMMA LightUndisturbed ==
  ASSUME TypeOK, LightSound, light' = light,
         \A i \in alive : i = light.image => i \in alive',
         \A d \in Slots : LightCallAlone(d),
         light.owned # None => decoded'[light.owned] = decoded[light.owned]
  PROVE  LightSound'
<1>1. \A d \in Slots : Latest(d, {"light"})' =>
                         Latest(d, {"light"}) /\ calls'[d].image = calls[d].image
  BY DEF LightCallAlone
<1>2. light.loading => \E d \in Slots : Latest(d, {"light"})'
  BY DEF LightCallAlone, LightSound
<1>3. AwaitsVideo => AwaitsVideo'
  BY AwaitingAlone
<1> QED
  BY <1>1, <1>2, <1>3, LightFrame

LEMMA LightClosed ==
  ASSUME light' = ClosedLight, \A d \in Slots : ~Latest(d, {"light"})'
  PROVE  LightSound'
<1>1. /\ light'.image = None /\ light'.url = None /\ light'.owned = None
      /\ light'.loading = FALSE
  BY DEF ClosedLight
<1>2. \A b \in Blobs : light'.url # BlobUrl(b)
  BY <1>1, UrlsKnown
<1> QED
  BY <1>1, <1>2 DEF LightSound

LEMMA LightStep == IInv /\ [Next]_vars => LightSound'
<1> SUFFICES ASSUME IInv, [Next]_vars PROVE LightSound'
  OBVIOUS
<1>a. TypeOK /\ ListedIsAlive /\ LightSound /\ OwnersSound
  BY DEF IInv
<1>o. /\ light.owned \in Blobs \cup {None} /\ light.owned \notin compare.owned
      /\ light.owned # None => light.owned \in Blobs /\ decoded[light.owned] # None
                               /\ light.url = BlobUrl(light.owned)
  BY <1>a, LightKnown DEF OwnersSound, LightSound
<1>r. decoded' = Revoke(decoded, Released(BothUrls)) =>
        (light.owned # None => decoded'[light.owned] = decoded[light.owned])
  BY <1>a, <1>o, CompareReleased
<1>1. ASSUME CloseLightbox PROVE LightSound'
  <2>1. \A d \in Slots : Kept(d, {"light"})
    BY <1>1, <1>a, BumpCalls DEF CloseLightbox
  <2>2. \A d \in Slots : ~Latest(d, {"light"})'
    BY <2>1, Alone
  <2> QED
    BY <1>1, <2>2, LightClosed DEF CloseLightbox
<1>2. ASSUME SwapCompare PROVE LightSound'
  <2>1. \A d \in Slots : LightCallAlone(d)
    BY <1>2, <1>a, SameCalls DEF SwapCompare
  <2> QED
    BY <1>2, <1>a, <2>1, LightUndisturbed DEF SwapCompare
<1>3. ASSUME CloseCompare PROVE LightSound'
  <2>1. \A d \in Slots : Kept(d, Later)
    BY <1>3, <1>a, BumpCalls DEF CloseCompare
  <2>2. \A d \in Slots : LightCallAlone(d)
    BY <2>1, Alone DEF Later
  <2> QED
    BY <1>3, <1>a, <1>r, <2>2, LightUndisturbed DEF CloseCompare
<1>4. ASSUME NEW i \in Images, OpenLightboxUrl(i) PROVE LightSound'
  <2>1. \A d \in Slots : Kept(d, {"light"})
    BY <1>4, <1>a, BumpCalls DEF OpenLightboxUrl
  <2>2. \A d \in Slots : ~Latest(d, {"light"})'
    BY <2>1, Alone
  <2>3. /\ light'.image = None /\ light'.url = SessionUrl(i) /\ light'.owned = None
        /\ light'.loading = FALSE
    BY <1>4 DEF OpenLightboxUrl
  <2>4. \A b \in Blobs : light'.url # BlobUrl(b)
    BY <2>3, UrlsKnown
  <2> QED
    BY <2>2, <2>3, <2>4 DEF LightSound
<1>5. ASSUME NEW i \in Images, Persist(i) PROVE LightSound'
  <2>1. light' = light /\ decoded' = decoded /\ alive' = alive /\ calls' = calls
    BY <1>5 DEF Persist
  <2>2. \A d \in Slots : LightCallAlone(d)
    BY <2>1, <1>a, SameCalls
  <2> QED
    BY <1>a, <2>1, <2>2, LightUndisturbed
<1>6. ASSUME NEW i \in Images, DeleteImage(i) PROVE LightSound'
  <2>1. CASE light.image = i
    <3>1. light' = ClosedLight /\ calls' = Bump({"light"})
      BY <1>6, <2>1 DEF DeleteImage
    <3>2. \A d \in Slots : Kept(d, {"light"})
      BY <3>1, <1>a, BumpCalls
    <3>3. \A d \in Slots : ~Latest(d, {"light"})'
      BY <3>2, Alone
    <3> QED
      BY <3>1, <3>3, LightClosed
  <2>2. CASE light.image # i
    <3>1. light' = light /\ decoded' = decoded /\ calls' = calls /\ alive' = alive \ {i}
      BY <1>6, <2>2 DEF DeleteImage
    <3>2. \A d \in Slots : LightCallAlone(d)
      BY <3>1, <1>a, SameCalls
    <3> QED
      BY <1>a, <2>2, <3>1, <3>2, LightUndisturbed
  <2> QED
    BY <2>1, <2>2
<1>7. ASSUME NEW i \in Images, ScanMisses(i) PROVE LightSound'
  <2>1. CASE light.image = i
    <3>1. light' = ClosedLight /\ \E ops : "light" \in ops /\ calls' = Bump(ops)
      BY <1>7, <2>1 DEF ScanMisses
    <3>2. \A d \in Slots : \E ops : "light" \in ops /\ Kept(d, ops)
      BY <3>1, <1>a, BumpCalls
    <3>3. \A d \in Slots : ~Latest(d, {"light"})'
      BY <3>2, Alone
    <3> QED
      BY <3>1, <3>3, LightClosed
  <2>2. CASE light.image # i
    <3> DEFINE compared == \E s \in Sides : compare.image[s] = i
    <3>1. /\ light' = light /\ calls' = Bump({} \cup (IF compared THEN Later ELSE {}))
          /\ decoded' = Revoke(decoded, IF compared THEN Released(BothUrls) ELSE {})
          /\ \A j \in alive : j # i => j \in alive'
      BY <1>7, <2>2 DEF ScanMisses
    <3>2. \A d \in Slots : Kept(d, {} \cup (IF compared THEN Later ELSE {}))
      BY <3>1, <1>a, BumpCalls
    <3>3. \A d \in Slots : LightCallAlone(d)
      BY <3>2, Alone DEF Later
    <3>4. light.owned # None => decoded'[light.owned] = decoded[light.owned]
      <4>1. CASE compared
        BY <3>1, <4>1, <1>r
      <4>2. CASE ~compared
        BY <3>1, <4>2, <1>a, <1>o, RevokeKnown DEF TypeOK
      <4> QED
        BY <4>1, <4>2
    <3> QED
      BY <1>a, <2>2, <3>1, <3>3, <3>4, LightUndisturbed
  <2> QED
    BY <2>1, <2>2
<1>8. ASSUME NEW c \in Slots, LightboxLoaded(c) PROVE LightSound'
  <2>1. /\ Pending(c) /\ calls[c].op = "light" /\ calls[c].image \in Stored
        /\ alive' = alive /\ calls' = [calls EXCEPT ![c] = None]
    BY <1>8, <1>a DEF LightboxLoaded
  <2>2. ~Latest(c, {"light"})' /\ \A d \in Slots : d # c => LightCallAlone(d)
    BY <2>1, <1>a, AnswerAlone
  <2>3. CASE calls[c].stale
    <3>1. light' = light /\ decoded' = decoded
      BY <1>8, <2>3 DEF LightboxLoaded
    <3>2. LightCallAlone(c)
      BY <2>2, <2>3 DEF LightCallAlone, Latest
    <3> QED
      BY <1>a, <2>1, <2>2, <3>1, <3>2, LightUndisturbed
  <2>4. CASE ~calls[c].stale
    <3>1. PICK b \in Blobs :
            /\ Fresh(b)
            /\ light' = [light EXCEPT !.url = BlobUrl(b), !.owned = b, !.loading = FALSE]
            /\ decoded' = [Revoke(decoded, ReleasedLight) EXCEPT ![b] = calls[c].image]
      BY <1>8, <2>4 DEF LightboxLoaded
    <3>2. /\ light'.url = BlobUrl(b) /\ light'.owned = b /\ light'.loading = FALSE
          /\ light'.image = light.image
      BY <1>a, <3>1, ViewTypes DEF LightType
    <3>3. light.image = calls[c].image
      BY <1>a, <2>1, <2>4 DEF LightSound, Latest
    <3>4. decoded'[b] = calls[c].image
      BY <1>a, <3>1, LightReleased
    <3>5. \A d \in Slots : Latest(d, {"light"})' => light'.image = calls'[d].image
      BY <1>a, <2>2, <3>2 DEF LightCallAlone, LightSound
    <3>6. calls[c].image # None
      BY <2>1, NoneApart DEF Stored
    <3> QED
      BY <3>2, <3>3, <3>4, <3>5, <3>6, UrlsKnown DEF LightSound
  <2> QED
    BY <2>3, <2>4
<1>9. ASSUME NEW c \in Slots, LightboxFails(c) PROVE LightSound'
  <2>1. /\ Pending(c) /\ calls[c].op = "light" /\ alive' = alive /\ decoded' = decoded
        /\ calls' = [calls EXCEPT ![c] = None] /\ calls[c].image \notin Videos
    BY <1>9 DEF LightboxFails, Stored
  <2>2. ~Latest(c, {"light"})' /\ \A d \in Slots : d # c => LightCallAlone(d)
    BY <2>1, <1>a, AnswerAlone
  <2>3. CASE calls[c].stale
    <3>1. light' = light
      BY <1>9, <2>3 DEF LightboxFails
    <3>2. LightCallAlone(c)
      BY <2>2, <2>3 DEF LightCallAlone, Latest
    <3> QED
      BY <1>a, <2>1, <2>2, <3>1, <3>2, LightUndisturbed
  <2>4. CASE ~calls[c].stale
    <3>1. light' = [light EXCEPT !.loading = FALSE]
      BY <1>9, <2>4 DEF LightboxFails
    <3>2. /\ light'.url = light.url /\ light'.owned = light.owned /\ light'.loading = FALSE
          /\ light'.image = light.image
      BY <1>a, <3>1, ViewTypes DEF LightType
    <3>3. \A d \in Slots : Latest(d, {"light"})' => light'.image = calls'[d].image
      BY <1>a, <2>2, <3>2 DEF LightCallAlone, LightSound
    <3>4. ~AwaitsVideo
      BY <1>a, <2>1, <2>4, Awaiting DEF LightSound, Latest
    <3> QED
      BY <1>a, <2>1, <3>2, <3>3, <3>4 DEF LightSound
  <2> QED
    BY <2>3, <2>4
<1>10. ASSUME NEW c \in Slots, Upgrade(c) PROVE LightSound'
  <2>1. /\ Pending(c) /\ calls[c].op = "light" /\ alive' = alive /\ calls[c].image \in Session
        /\ calls' = [calls EXCEPT ![c] = None]
    BY <1>10, <1>a DEF Upgrade, TypeOK
  <2>2. ~Latest(c, {"light"})' /\ \A d \in Slots : d # c => LightCallAlone(d)
    BY <2>1, <1>a, AnswerAlone
  <2> DEFINE current == ~calls[c].stale /\ light.open /\ light.image = calls[c].image
  <2>3. CASE ~current
    <3>1. light' = light /\ decoded' = decoded
      BY <1>10, <2>3 DEF Upgrade
    <3>2. \A d \in Slots : Latest(d, {"light"})' =>
                             Latest(d, {"light"}) /\ calls'[d].image = calls[d].image
      BY <2>2 DEF LightCallAlone
    <3>3. ASSUME light.loading PROVE \E d \in Slots : Latest(d, {"light"})'
      <4>1. PICK d \in Slots : Latest(d, {"light"})
        BY <1>a, <3>3 DEF LightSound
      <4>2. calls[d].image \notin Session
        BY <1>a, <3>3, <4>1 DEF LightSound
      <4> QED
        BY <2>1, <2>2, <4>1, <4>2 DEF LightCallAlone
    <3>4. AwaitsVideo => AwaitsVideo'
      BY <2>1, <2>2, Awaiting, ViewerAssumption DEF LightCallAlone, AwaitsVideo, Latest
    <3> QED
      BY <1>a, <2>1, <3>1, <3>2, <3>3, <3>4, LightFrame
  <2>4. CASE current
    <3>1. light' = [light EXCEPT !.url = FileUrl(calls[c].image), !.owned = None]
      BY <1>10, <2>4 DEF Upgrade
    <3>2. /\ light'.url = FileUrl(light.image) /\ light'.owned = None
          /\ light'.loading = light.loading /\ light'.image = light.image
      BY <1>a, <2>4, <3>1, ViewTypes DEF LightType
    <3>3. \A d \in Slots : Latest(d, {"light"})' => light'.image = calls'[d].image
      BY <1>a, <2>2, <3>2 DEF LightCallAlone, LightSound
    <3>4. ~light.loading
      BY <1>a, <2>1, <2>4 DEF LightSound
    <3> QED
      BY <2>1, <2>4, <3>2, <3>3, <3>4, UrlsKnown DEF LightSound
  <2> QED
    BY <2>3, <2>4
<1>11. ASSUME NEW c \in Slots, SideResolves(c) PROVE LightSound'
  <2>1. PICK b \in Blobs : \E url \in {None, Resolved(calls[c].image, b)} : SideStep(c, b, url)
    BY <1>11, <1>a, SideStepTaken
  <2>2. PICK url \in {None, Resolved(calls[c].image, b)} : SideStep(c, b, url)
    BY <2>1
  <2>3. /\ Pending(c) /\ calls[c].op = "side" /\ alive' = alive /\ light' = light
        /\ calls' = [calls EXCEPT ![c] = None] /\ decoded[b] = None
    BY <2>2, FreshKnown DEF SideStep
  <2>4. LightCallAlone(c) /\ \A d \in Slots : d # c => LightCallAlone(d)
    BY <2>3, <1>a, AnswerAlone DEF LightCallAlone, Latest
  <2>5. ASSUME light.owned # None PROVE decoded'[light.owned] = decoded[light.owned]
    <3>1. light.owned \in Blobs /\ light.owned # b
      BY <2>3, <2>5, <1>o
    <3>2. light.owned \notin Released({calls[c].previous})
      BY <3>1, <1>o, ReleasedKnown
    <3> QED
      BY <2>2, <3>1, <3>2, <1>a, SideDecoded DEF SideLeaves
  <2> QED
    BY <1>a, <2>3, <2>4, <2>5, LightUndisturbed
<1>12. ASSUME NEW c \in Slots, NEW s \in Sides, CompareResolves(c, s) PROVE LightSound'
  <2>1. PICK b \in Blobs : \E url \in {None, Resolved(calls[c].images[s], b)} :
          OpenStep(c, s, b, url)
    BY <1>12, <1>a, OpenStepTaken
  <2>2. PICK url \in {None, Resolved(calls[c].images[s], b)} : OpenStep(c, s, b, url)
    BY <2>1
  <2>3. /\ Pending(c) /\ calls[c].op = "open" /\ alive' = alive /\ light' = light
        /\ decoded[b] = None /\ calls[c] \in Call
    BY <2>2, <1>a, FreshKnown, PendingKnown DEF OpenStep
  <2>4. \A d \in Slots : LightCallAlone(d)
    BY <2>2, <2>3, <1>a, OpenCalls, Alone DEF LightCallAlone, Latest
  <2>5. ASSUME light.owned # None PROVE decoded'[light.owned] = decoded[light.owned]
    BY <2>2, <2>3, <2>5, <1>a, <1>o, OpenDecoded, OpenForgets DEF OwnersSound
  <2> QED
    BY <1>a, <2>3, <2>4, <2>5, LightUndisturbed
<1>13. ASSUME NEW c \in Slots, NEW i \in Images, OpenLightbox(i, c) PROVE LightSound'
  <2>1. /\ i \in listed
        /\ light' = [image |-> i, owned |-> None, open |-> TRUE, loading |-> i \in Stored,
                     url |-> IF i \in Stored THEN None
                             ELSE IF i \in saved THEN FileUrl(i) ELSE SessionUrl(i)]
        /\ calls' = [Bump({"light"}) EXCEPT
                       ![c] = IF i \notin saved
                              THEN [op |-> "light", image |-> i, stale |-> FALSE] ELSE None]
        /\ alive' = alive /\ i \notin Videos
    BY <1>13 DEF OpenLightbox
  <2>2. /\ calls'[c] = IF i \notin saved THEN [op |-> "light", image |-> i, stale |-> FALSE]
                       ELSE None
        /\ \A d \in Slots : d # c => ~Latest(d, {"light"})'
    BY <2>1, <1>a, NewCalls, Alone
  <2>3. Latest(c, {"light"})' => calls'[c].image = i
    BY <2>2 DEF Latest, Pending
  <2>4. i \in Stored => Latest(c, {"light"})'
    <3>1. i \in Stored => calls'[c] = [op |-> "light", image |-> i, stale |-> FALSE]
      BY <2>2, <1>a DEF TypeOK, Stored
    <3>2. [op |-> "light", image |-> i, stale |-> FALSE] \in Call
      BY DEF Call
    <3> QED
      BY <3>1, <3>2, NoneApart DEF Latest, Pending
  <2>5. /\ light'.image = i /\ light'.owned = None /\ light'.loading = (i \in Stored)
        /\ i \in Stored => light'.url = None
        /\ i \notin Stored => i \in Session /\ light'.url \in {FileUrl(i), SessionUrl(i)}
    BY <2>1 DEF Stored
  <2>6. \A b \in Blobs : light'.url # BlobUrl(b)
    BY <2>5, UrlsKnown
  <2>7. i \in Session => i \in alive
    BY <2>1, <1>a DEF ListedIsAlive
  <2> QED
    BY <2>1, <2>2, <2>3, <2>4, <2>5, <2>6, <2>7 DEF LightSound, Stored
<1>14. ASSUME NEW c \in Slots, NEW i \in Images, NEW s \in Sides, SetCompareSide(s, i, c)
       PROVE  LightSound'
  <2>1. /\ ~Pending(c) /\ light' = light /\ alive' = alive /\ decoded' = decoded
        /\ calls' = [Bump(Later) EXCEPT
                       ![c] = [op |-> "side", side |-> s, image |-> i,
                               previous |-> compare.url[s], stale |-> FALSE]]
    BY <1>14 DEF SetCompareSide, Begins
  <2> DEFINE x == [op |-> "side", side |-> s, image |-> i, previous |-> compare.url[s],
                   stale |-> FALSE]
  <2>5. calls'[c] = x /\ \A d \in Slots : d # c => Kept(d, Later)
    <3> HIDE DEF x
    <3> QED
      BY <2>1, <1>a, NewCalls DEF x
  <2>2. calls'[c].op = "side" /\ \A d \in Slots : d # c => Kept(d, Later)
    BY <2>5
  <2>3. LightCallAlone(c)
    BY <2>1, <2>2 DEF LightCallAlone, Latest
  <2>4. \A d \in Slots : d # c => LightCallAlone(d)
    BY <2>2, Alone DEF Later
  <2> QED
    BY <1>a, <2>1, <2>3, <2>4, LightUndisturbed
<1>15. ASSUME NEW c \in Slots, NEW i \in Images, NEW j \in Images, OpenCompare(i, j, c)
       PROVE  LightSound'
  <2>1. /\ ~Pending(c) /\ light' = light /\ alive' = alive
        /\ decoded' = Revoke(decoded, Released(BothUrls))
        /\ calls' = [Bump(Later) EXCEPT
                       ![c] = [op |-> "open",
                               images |-> [s \in Sides |-> IF s = "a" THEN i ELSE j],
                               got |-> [s \in Sides |-> None], todo |-> Sides, stale |-> FALSE]]
    BY <1>15 DEF OpenCompare, Begins
  <2>2. calls'[c].op = "open" /\ \A d \in Slots : d # c => Kept(d, Later)
    BY <2>1, <1>a, NewCalls
  <2>3. LightCallAlone(c)
    BY <2>1, <2>2 DEF LightCallAlone, Latest
  <2>4. \A d \in Slots : d # c => LightCallAlone(d)
    BY <2>2, Alone DEF Later
  <2> QED
    BY <1>a, <1>r, <2>1, <2>3, <2>4, LightUndisturbed
<1>16. ASSUME UNCHANGED vars PROVE LightSound'
  <2>1. \A d \in Slots : LightCallAlone(d)
    BY <1>16, <1>a, SameCalls DEF vars
  <2> QED
    BY <1>16, <1>a, <2>1, LightUndisturbed DEF vars
<1>17. ASSUME NEW c \in Slots, NeverSaved(c) PROVE LightSound'
  <2>1. /\ light' = light /\ decoded' = decoded /\ alive' = alive
        /\ calls' = [calls EXCEPT ![c] = None] /\ calls[c].image \in Session
    BY <1>17 DEF NeverSaved
  <2>2. ~Latest(c, {"light"})' /\ \A d \in Slots : d # c => LightCallAlone(d)
    BY <2>1, <1>a, AnswerAlone
  <2>3. \A d \in Slots : Latest(d, {"light"})' =>
                           Latest(d, {"light"}) /\ calls'[d].image = calls[d].image
    BY <2>2 DEF LightCallAlone
  <2>4. ASSUME light.loading PROVE \E d \in Slots : Latest(d, {"light"})'
    <3>1. PICK d \in Slots : Latest(d, {"light"})
      BY <1>a, <2>4 DEF LightSound
    <3>2. calls[d].image \notin Session
      BY <1>a, <2>4, <3>1 DEF LightSound
    <3> QED
      BY <2>1, <2>2, <3>1, <3>2 DEF LightCallAlone
  <2>5. AwaitsVideo => AwaitsVideo'
    BY <2>1, <2>2, Awaiting, ViewerAssumption DEF LightCallAlone, AwaitsVideo, Latest
  <2> QED
    BY <1>a, <2>1, <2>3, <2>4, <2>5, LightFrame
<1>18. ASSUME NEW c \in Slots, VideoShown(c) PROVE LightSound'
  <2>1. /\ Pending(c) /\ calls[c].op = "light" /\ calls[c].image \in Videos
        /\ alive' = alive /\ calls' = [calls EXCEPT ![c] = None]
    BY <1>18 DEF VideoShown
  <2>2. ~Latest(c, {"light"})' /\ \A d \in Slots : d # c => LightCallAlone(d)
    BY <2>1, <1>a, AnswerAlone
  <2>3. CASE calls[c].stale
    <3>1. light' = light /\ decoded' = decoded
      BY <1>18, <2>3 DEF VideoShown
    <3>2. LightCallAlone(c)
      BY <2>2, <2>3 DEF LightCallAlone, Latest
    <3> QED
      BY <1>a, <2>1, <2>2, <3>1, <3>2, LightUndisturbed
  <2>4. CASE ~calls[c].stale
    <3>1. light' = [light EXCEPT !.url = FileUrl(calls[c].image), !.owned = None,
                                 !.loading = FALSE]
      BY <1>18, <2>4 DEF VideoShown
    <3>2. light.image = calls[c].image
      BY <1>a, <2>1, <2>4 DEF LightSound, Latest
    <3>3. /\ light'.url = FileUrl(light.image) /\ light'.owned = None
          /\ light'.loading = FALSE /\ light'.image = light.image
      BY <1>a, <3>1, <3>2, ViewTypes DEF LightType
    <3>4. \A d \in Slots : Latest(d, {"light"})' => light'.image = calls'[d].image
      BY <1>a, <2>2, <3>3 DEF LightCallAlone, LightSound
    <3> QED
      BY <3>3, <3>4, UrlsKnown DEF LightSound
  <2> QED
    BY <2>3, <2>4
<1>19. ASSUME NEW c \in Slots, NEW i \in Images, OpenVideo(i, c) PROVE LightSound'
  <2>1. /\ i \in Videos /\ light' = [light EXCEPT !.image = i, !.open = TRUE]
        /\ calls' = [Bump({"light"}) EXCEPT ![c] = [op |-> "light", image |-> i, stale |-> FALSE]]
        /\ decoded' = decoded
    BY <1>19 DEF OpenVideo
  <2>2. /\ calls'[c] = [op |-> "light", image |-> i, stale |-> FALSE]
        /\ \A d \in Slots : d # c => ~Latest(d, {"light"})'
    BY <2>1, <1>a, NewCalls, Alone
  <2>3. [op |-> "light", image |-> i, stale |-> FALSE] \in Call
    BY DEF Call
  <2>4. Latest(c, {"light"})' /\ calls'[c].image = i
    <3>1. calls'[c] \in Call
      BY <2>2, <2>3
    <3>2. calls'[c].op = "light" /\ calls'[c].stale = FALSE /\ calls'[c].image = i
      BY <2>2
    <3> QED
      BY <3>1, <3>2, NoneApart DEF Latest, Pending
  <2>5. AwaitsVideo'
    BY <2>1, <2>4 DEF AwaitsVideo, Latest
  <2>6. /\ light'.image = i /\ light'.url = light.url /\ light'.owned = light.owned
        /\ light'.loading = light.loading
    BY <1>a, <2>1, ViewTypes DEF LightType
  <2>7. i \notin Session /\ i # None
    BY <2>1, ViewerAssumption, NoneApart
  <2> QED
    BY <1>a, <2>1, <2>2, <2>4, <2>5, <2>6, <2>7 DEF LightSound
<1> QED
  BY <1>1, <1>2, <1>3, <1>4, <1>5, <1>6, <1>7, <1>8, <1>9, <1>10, <1>11, <1>12, <1>13, <1>14,
     <1>15, <1>16, <1>17, <1>18, <1>19 DEF Next, Answers

-----------------------------------------------------------------------------
(***************************************************************************)
(* The steps that leave the comparison alone, and the ones that close it.  *)
(***************************************************************************)
Compared(i) == \E s \in Sides : compare.image[s] = i

LightOnly ==
  \/ CloseLightbox
  \/ \E i \in Images : \/ OpenLightboxUrl(i) \/ Persist(i) \/ DeleteImage(i)
                       \/ ScanMisses(i) /\ ~Compared(i)
  \/ \E c \in Slots : \/ LightboxLoaded(c) \/ LightboxFails(c) \/ VideoShown(c)
                      \/ Upgrade(c) \/ NeverSaved(c)
                      \/ \E i \in Images : OpenLightbox(i, c) \/ OpenVideo(i, c)
  \/ UNCHANGED vars

Closing == CloseCompare \/ \E i \in Images : ScanMisses(i) /\ Compared(i)

(* What a step does that leaves the comparison alone. *)
CompareAlone ==
  /\ compare' = compare /\ swapped' = swapped
  /\ \A d \in Slots : LaterCallAlone(d) /\ HeldAlone(d)
  /\ \A b \in Blobs :
       /\ decoded[b] # None /\ b # light.owned => decoded'[b] # None /\ b # light'.owned
       /\ decoded'[b] # None => b = light'.owned \/ (decoded[b] # None /\ b # light.owned)

OnSide(b) == \E s \in Sides : compare.url[s] = BlobUrl(b)

(* What a step does that closes the comparison. *)
CompareClosed ==
  /\ compare' = ClosedCompare /\ swapped' = swapped
  /\ \A d \in Slots : /\ HeldAlone(d)
                      /\ ~Latest(d, Later)' /\ ~Latest(d, {"side"})' /\ ~Latest(d, {"open"})'
  /\ light'.owned \in {None, light.owned}
  /\ \A b \in Blobs :
       decoded'[b] = IF (b \in compare.owned /\ OnSide(b)) \/ (b = light.owned /\ b # light'.owned)
                     THEN None ELSE decoded[b]

LEMMA LightOnlyCalls ==
  ASSUME TypeOK, LightOnly, NEW d \in Slots
  PROVE  compare' = compare /\ swapped' = swapped /\ LaterCallAlone(d) /\ HeldAlone(d)
<1>a. ASSUME NEW ops, calls' = Bump(ops), ops \cap Later = {}
      PROVE  LaterCallAlone(d) /\ HeldAlone(d)
  <2>1. Kept(d, ops)
    BY <1>a, BumpCalls
  <2> QED
    BY <1>a, <2>1, Alone
<1>l. {"light"} \cap Later = {} /\ {} \cap Later = {}
  BY DEF Later
<1>b. ASSUME NEW c \in Slots, Pending(c), calls[c].op = "light",
             calls' = [calls EXCEPT ![c] = None]
      PROVE  LaterCallAlone(d) /\ HeldAlone(d)
  <2>1. CASE d = c
    BY <1>b, <2>1, AnswerAlone DEF LaterCallAlone, HeldAlone, Latest, Later, Holds
  <2>2. CASE d # c
    BY <1>b, <2>2, AnswerAlone
  <2> QED
    BY <2>1, <2>2
<1>1. ASSUME CloseLightbox
      PROVE  compare' = compare /\ swapped' = swapped /\ LaterCallAlone(d) /\ HeldAlone(d)
  BY <1>1, <1>a, <1>l DEF CloseLightbox
<1>2. ASSUME NEW i \in Images, OpenLightboxUrl(i)
      PROVE  compare' = compare /\ swapped' = swapped /\ LaterCallAlone(d) /\ HeldAlone(d)
  BY <1>2, <1>a, <1>l DEF OpenLightboxUrl
<1>3. ASSUME NEW i \in Images, Persist(i)
      PROVE  compare' = compare /\ swapped' = swapped /\ LaterCallAlone(d) /\ HeldAlone(d)
  BY <1>3, SameCalls DEF Persist
<1>4. ASSUME NEW i \in Images, DeleteImage(i)
      PROVE  compare' = compare /\ swapped' = swapped /\ LaterCallAlone(d) /\ HeldAlone(d)
  <2>1. compare' = compare /\ swapped' = swapped /\ (calls' = Bump({"light"}) \/ calls' = calls)
    BY <1>4 DEF DeleteImage
  <2> QED
    BY <2>1, <1>a, <1>l, SameCalls
<1>5. ASSUME NEW i \in Images, ScanMisses(i), ~Compared(i)
      PROVE  compare' = compare /\ swapped' = swapped /\ LaterCallAlone(d) /\ HeldAlone(d)
  <2>1. \/ calls' = Bump({"light"} \cup {}) 
        \/ calls' = Bump({} \cup {})
    BY <1>5 DEF ScanMisses, Compared
  <2>2. compare' = compare /\ swapped' = swapped
    BY <1>5 DEF ScanMisses, Compared
  <2>3. ({"light"} \cup {}) \cap Later = {} /\ ({} \cup {}) \cap Later = {}
    BY DEF Later
  <2> QED
    BY <2>1, <2>2, <2>3, <1>a
<1>6. ASSUME NEW c \in Slots, \/ LightboxLoaded(c) \/ LightboxFails(c) \/ VideoShown(c)
                              \/ Upgrade(c) \/ NeverSaved(c)
      PROVE  compare' = compare /\ swapped' = swapped /\ LaterCallAlone(d) /\ HeldAlone(d)
  <2>1. /\ compare' = compare /\ swapped' = swapped /\ Pending(c) /\ calls[c].op = "light"
        /\ calls' = [calls EXCEPT ![c] = None]
    BY <1>6 DEF LightboxLoaded, LightboxFails, VideoShown, Upgrade, NeverSaved
  <2> QED
    BY <2>1, <1>b
<1>7. ASSUME NEW c \in Slots, NEW i \in Images, OpenLightbox(i, c) \/ OpenVideo(i, c)
      PROVE  compare' = compare /\ swapped' = swapped /\ LaterCallAlone(d) /\ HeldAlone(d)
  <2>1. PICK x \in {[op |-> "light", image |-> i, stale |-> FALSE], None} :
          /\ compare' = compare /\ swapped' = swapped /\ ~Pending(c)
          /\ calls' = [Bump({"light"}) EXCEPT ![c] = x]
    BY <1>7 DEF OpenLightbox, OpenVideo, Begins
  <2>2. calls'[c] = x /\ \A e \in Slots : e # c => Kept(e, {"light"})
    BY <2>1, NewCalls
  <2>3. Pending(c)' => calls'[c].op = "light"
    BY <2>2 DEF Pending
  <2>4. LaterCallAlone(c) /\ HeldAlone(c)
    <3>1. LaterCallAlone(c)
      BY <2>1, <2>3 DEF LaterCallAlone, Latest, Later
    <3>2. HeldAlone(c)
      BY <2>1, <2>3 DEF HeldAlone, Holds
    <3> QED
      BY <3>1, <3>2
  <2>5. d # c => LaterCallAlone(d) /\ HeldAlone(d)
    BY <2>2, <1>l, Alone
  <2> QED
    BY <2>1, <2>4, <2>5
<1>8. ASSUME UNCHANGED vars
      PROVE  compare' = compare /\ swapped' = swapped /\ LaterCallAlone(d) /\ HeldAlone(d)
  BY <1>8, SameCalls DEF vars
<1> QED
  BY <1>1, <1>2, <1>3, <1>4, <1>5, <1>6, <1>7, <1>8 DEF LightOnly

LEMMA LightOnlyBlobs ==
  ASSUME TypeOK, LightSound, LightOnly, NEW b \in Blobs
  PROVE  /\ decoded[b] # None /\ b # light.owned => decoded'[b] # None /\ b # light'.owned
         /\ decoded'[b] # None => b = light'.owned \/ (decoded[b] # None /\ b # light.owned)
<1> DEFINE Goal == /\ decoded[b] # None /\ b # light.owned => decoded'[b] # None /\ b # light'.owned
                   /\ decoded'[b] # None =>
                        b = light'.owned \/ (decoded[b] # None /\ b # light.owned)
<1>a. light' = light /\ decoded' = decoded => Goal
  OBVIOUS
<1>b. ASSUME light'.owned = None, \/ decoded' = DecodedAfterClose
                                  \/ decoded' = Revoke(decoded, ReleasedLight)
      PROVE  Goal
  BY <1>b, LightReleased, NoneApart
<1>c. ClosedLight.owned = None
  BY DEF ClosedLight
<1>1. CloseLightbox => Goal
  BY <1>b, <1>c DEF CloseLightbox
<1>2. ASSUME NEW i \in Images, OpenLightboxUrl(i) PROVE Goal
  BY <1>2, <1>b DEF OpenLightboxUrl
<1>3. ASSUME NEW i \in Images, Persist(i) PROVE Goal
  BY <1>3, <1>a DEF Persist
<1>4. ASSUME NEW i \in Images, DeleteImage(i) PROVE Goal
  BY <1>4, <1>a, <1>b, <1>c DEF DeleteImage
<1>5. ASSUME NEW i \in Images, ScanMisses(i), ~Compared(i) PROVE Goal
  <2>1. /\ light' = IF light.image = i THEN ClosedLight ELSE light
        /\ decoded' = Revoke(IF light.image = i THEN DecodedAfterClose ELSE decoded, {})
    BY <1>5 DEF ScanMisses, Compared
  <2>2. (IF light.image = i THEN DecodedAfterClose ELSE decoded) \in [Blobs -> Images \cup {None}]
    BY LightReleased DEF TypeOK
  <2>3. decoded'[b] = (IF light.image = i THEN DecodedAfterClose ELSE decoded)[b]
    BY <2>1, <2>2, RevokeKnown
  <2> QED
    BY <2>1, <2>3, <1>c, LightReleased, NoneApart
<1>6. ASSUME NEW c \in Slots, LightboxLoaded(c) PROVE Goal
  <2>1. CASE light' = light /\ decoded' = decoded
    BY <2>1, <1>a
  <2>2. CASE ~(light' = light /\ decoded' = decoded)
    <3>1. PICK e \in Blobs :
            /\ Fresh(e)
            /\ light' = [light EXCEPT !.url = BlobUrl(e), !.owned = e, !.loading = FALSE]
            /\ decoded' = [Revoke(decoded, ReleasedLight) EXCEPT ![e] = calls[c].image]
      BY <1>6, <2>2 DEF LightboxLoaded
    <3>2. light'.owned = e
      BY <3>1, ViewTypes DEF LightType
    <3>3. decoded[e] = None
      BY <3>1, FreshKnown
    <3>4. b # e => decoded'[b] = IF b = light.owned THEN None ELSE decoded[b]
      BY <3>1, LightReleased
    <3> QED
      BY <3>2, <3>3, <3>4
  <2> QED
    BY <2>1, <2>2
<1>7. ASSUME NEW c \in Slots, LightboxFails(c) PROVE Goal
  <2>1. decoded' = decoded /\ light'.owned = light.owned
    BY <1>7, ViewTypes DEF LightboxFails, LightType
  <2> QED
    BY <2>1
<1>8. ASSUME NEW c \in Slots, Upgrade(c) PROVE Goal
  <2>1. \/ light' = light /\ decoded' = decoded
        \/ /\ light' = [light EXCEPT !.url = FileUrl(calls[c].image), !.owned = None]
           /\ decoded' = Revoke(decoded, ReleasedLight)
    BY <1>8 DEF Upgrade
  <2>2. \/ light' = light /\ decoded' = decoded
        \/ light'.owned = None /\ decoded' = Revoke(decoded, ReleasedLight)
    BY <2>1, ViewTypes DEF LightType
  <2> QED
    BY <2>2, <1>a, <1>b
<1>9. ASSUME NEW c \in Slots, NEW i \in Images, OpenLightbox(i, c) PROVE Goal
  BY <1>9, <1>b DEF OpenLightbox
<1>10. ASSUME UNCHANGED vars PROVE Goal
  BY <1>10, <1>a DEF vars
<1>11. ASSUME NEW c \in Slots, NeverSaved(c) PROVE Goal
  BY <1>11, <1>a DEF NeverSaved
<1>12. ASSUME NEW c \in Slots, VideoShown(c) PROVE Goal
  <2>1. \/ light' = light /\ decoded' = decoded
        \/ /\ light' = [light EXCEPT !.url = FileUrl(calls[c].image), !.owned = None,
                                      !.loading = FALSE]
           /\ decoded' = Revoke(decoded, ReleasedLight)
    BY <1>12 DEF VideoShown
  <2>2. \/ light' = light /\ decoded' = decoded
        \/ light'.owned = None /\ decoded' = Revoke(decoded, ReleasedLight)
    BY <2>1, ViewTypes DEF LightType
  <2> QED
    BY <2>2, <1>a, <1>b
<1>13. ASSUME NEW c \in Slots, NEW i \in Images, OpenVideo(i, c) PROVE Goal
  <2>1. decoded' = decoded /\ light'.owned = light.owned
    BY <1>13, ViewTypes DEF OpenVideo, LightType
  <2> QED
    BY <2>1
<1> QED
  BY <1>1, <1>2, <1>3, <1>4, <1>5, <1>6, <1>7, <1>8, <1>9, <1>10, <1>11, <1>12, <1>13
     DEF LightOnly

LEMMA LightOnlyAlone ==
  ASSUME TypeOK, LightSound, LightOnly
  PROVE  CompareAlone
<1>1. compare' = compare /\ swapped' = swapped
  <2>1. CASE Slots = {}
    BY <2>1 DEF LightOnly, CloseLightbox, OpenLightboxUrl, Persist, DeleteImage,
                ScanMisses, Compared, vars
  <2>2. CASE Slots # {}
    BY <2>2, LightOnlyCalls
  <2> QED
    BY <2>1, <2>2
<1>2. \A d \in Slots : LaterCallAlone(d) /\ HeldAlone(d)
  BY LightOnlyCalls
<1> QED
  BY <1>1, <1>2, LightOnlyBlobs DEF CompareAlone

LEMMA ClosingCloses ==
  ASSUME TypeOK, LightSound, OwnersSound, Closing
  PROVE  CompareClosed
<1>1. CASE CloseCompare
  <2>1. /\ compare' = ClosedCompare /\ swapped' = swapped /\ light' = light
        /\ decoded' = Revoke(decoded, Released(BothUrls)) /\ calls' = Bump(Later)
    BY <1>1 DEF CloseCompare
  <2>2. \A d \in Slots : Kept(d, Later)
    BY <2>1, BumpCalls
  <2>3. \A d \in Slots : /\ HeldAlone(d)
                         /\ ~Latest(d, Later)' /\ ~Latest(d, {"side"})' /\ ~Latest(d, {"open"})'
    BY <2>2, Alone
  <2>4. \A b \in Blobs :
          decoded'[b] = IF b \in compare.owned /\ OnSide(b) THEN None ELSE decoded[b]
    BY <2>1, CompareReleased DEF OnSide
  <2> QED
    BY <2>1, <2>3, <2>4 DEF CompareClosed
<1>2. ASSUME NEW i \in Images, ScanMisses(i), Compared(i) PROVE CompareClosed
  <2> DEFINE lit == light.image = i
             kept == IF lit THEN DecodedAfterClose ELSE decoded
  <2>1. /\ compare' = ClosedCompare /\ swapped' = swapped
        /\ light' = IF lit THEN ClosedLight ELSE light
        /\ decoded' = Revoke(kept, Released(BothUrls))
    BY <1>2 DEF ScanMisses, Compared
  <2>2. PICK ops : calls' = Bump(ops) /\ Later \subseteq ops
    BY <1>2 DEF ScanMisses, Compared
  <2>3. \A d \in Slots : Kept(d, ops)
    BY <2>2, BumpCalls
  <2>4. \A d \in Slots : /\ HeldAlone(d)
                         /\ ~Latest(d, Later)' /\ ~Latest(d, {"side"})' /\ ~Latest(d, {"open"})'
    BY <2>2, <2>3, Alone
  <2>5. kept \in [Blobs -> Images \cup {None}]
    BY LightReleased DEF TypeOK
  <2>6. ASSUME NEW b \in Blobs
        PROVE  /\ kept[b] = IF lit /\ b = light.owned THEN None ELSE decoded[b]
               /\ decoded'[b] = IF b \in compare.owned /\ OnSide(b) THEN None ELSE kept[b]
    <3>1. kept[b] = IF lit /\ b = light.owned THEN None ELSE decoded[b]
      BY LightReleased
    <3>2. decoded'[b] = IF b \in Released(BothUrls) THEN None ELSE kept[b]
      <4> HIDE DEF kept
      <4> QED
        BY <2>1, <2>5, RevokeKnown
    <3>3. b \in Released(BothUrls) <=> b \in compare.owned /\ OnSide(b)
      BY ReleasedKnown DEF OnSide
    <3> QED
      BY <3>1, <3>2, <3>3
  <2>7. ClosedLight.owned = None
    BY DEF ClosedLight
  <2>8. light'.owned = IF lit THEN None ELSE light.owned
    BY <2>1, <2>7
  <2>9. \A b \in Blobs :
       decoded'[b] = IF (b \in compare.owned /\ OnSide(b)) \/ (b = light.owned /\ b # light'.owned)
                     THEN None ELSE decoded[b]
    BY <2>6, <2>8, NoneApart
  <2> QED
    BY <2>1, <2>4, <2>8, <2>9 DEF CompareClosed
<1> QED
  BY <1>1, <1>2 DEF Closing

(* A new call of the comparison makes the others stale.                    *)
LEMMA SideCalls ==
  ASSUME TypeOK, NEW c \in Slots, NEW i \in Images, NEW s \in Sides, SetCompareSide(s, i, c)
  PROVE  /\ ~Pending(c) /\ Latest(c, Later)' /\ Latest(c, {"side"})' /\ ~Latest(c, {"open"})'
         /\ calls'[c].side = s /\ calls'[c].previous = compare.url[s] /\ HeldAlone(c)
         /\ \A d \in Slots : d # c => /\ HeldAlone(d) /\ ~Latest(d, Later)'
                                      /\ ~Latest(d, {"side"})' /\ ~Latest(d, {"open"})'
<1> DEFINE x == [op |-> "side", side |-> s, image |-> i, previous |-> compare.url[s],
                 stale |-> FALSE]
<1>1. ~Pending(c) /\ calls' = [Bump(Later) EXCEPT ![c] = x]
  BY DEF SetCompareSide, Begins
<1>2. x \in Call
  BY CompareKnown DEF Call
<1>3. calls'[c] = x /\ \A d \in Slots : d # c => Kept(d, Later)
  <2> HIDE DEF x
  <2> QED
    BY <1>1, NewCalls
<1>4. /\ calls'[c].op = "side" /\ calls'[c].stale = FALSE /\ calls'[c].side = s
      /\ calls'[c].previous = compare.url[s]
  BY <1>3
<1>5. calls'[c] # None
  BY <1>2, <1>3, NoneApart
<1>6. HeldAlone(c)
  BY <1>1, <1>4 DEF HeldAlone, Holds
<1>7. \A d \in Slots : d # c => /\ HeldAlone(d) /\ ~Latest(d, Later)'
                                /\ ~Latest(d, {"side"})' /\ ~Latest(d, {"open"})'
  BY <1>3, Alone
<1> HIDE DEF x
<1>8. Latest(c, Later)' /\ Latest(c, {"side"})' /\ ~Latest(c, {"open"})'
  BY <1>4, <1>5 DEF Latest, Later, Pending
<1> QED
  BY <1>1, <1>4, <1>6, <1>7, <1>8

LEMMA BothCalls ==
  ASSUME TypeOK, NEW c \in Slots, NEW i \in Images, NEW j \in Images, OpenCompare(i, j, c)
  PROVE  /\ ~Pending(c) /\ Latest(c, Later)' /\ ~Latest(c, {"side"})' /\ Latest(c, {"open"})'
         /\ \A s \in Sides : calls'[c].got[s] = None
         /\ \A d \in Slots : d # c => /\ HeldAlone(d) /\ ~Latest(d, Later)'
                                      /\ ~Latest(d, {"side"})' /\ ~Latest(d, {"open"})'
<1> DEFINE images == [s \in Sides |-> IF s = "a" THEN i ELSE j]
           x == [op |-> "open", images |-> images, got |-> [s \in Sides |-> None],
                 todo |-> Sides, stale |-> FALSE]
<1>1. ~Pending(c) /\ calls' = [Bump(Later) EXCEPT ![c] = x]
  BY DEF OpenCompare, Begins
<1>2. x \in Call
  <2>1. images \in [Sides -> Images]
    OBVIOUS
  <2> HIDE DEF images
  <2> QED
    BY <2>1 DEF Call
<1>3. calls'[c] = x /\ \A d \in Slots : d # c => Kept(d, Later)
  <2> HIDE DEF x
  <2> QED
    BY <1>1, NewCalls
<1>4. /\ calls'[c].op = "open" /\ calls'[c].stale = FALSE
      /\ \A s \in Sides : calls'[c].got[s] = None
  BY <1>3
<1>5. calls'[c] # None
  BY <1>2, <1>3, NoneApart
<1>7. \A d \in Slots : d # c => /\ HeldAlone(d) /\ ~Latest(d, Later)'
                                /\ ~Latest(d, {"side"})' /\ ~Latest(d, {"open"})'
  BY <1>3, Alone
<1> HIDE DEF x
<1>8. Latest(c, Later)' /\ ~Latest(c, {"side"})' /\ Latest(c, {"open"})'
  BY <1>4, <1>5 DEF Latest, Later, Pending
<1> QED
  BY <1>1, <1>4, <1>7, <1>8

-----------------------------------------------------------------------------
(***************************************************************************)
(* The comparison.                                                         *)
(***************************************************************************)
LEMMA Steps ==
  ASSUME [Next]_vars
  PROVE  \/ LightOnly \/ Closing \/ SwapCompare
         \/ \E c \in Slots : \/ SideResolves(c)
                             \/ \E s \in Sides : CompareResolves(c, s)
                             \/ \E i \in Images : \/ \E s \in Sides : SetCompareSide(s, i, c)
                                                  \/ \E j \in Images : OpenCompare(i, j, c)
BY DEF Next, Answers, LightOnly, Closing

LEMMA CompareFrame ==
  ASSUME CompareSound, compare'.loading = compare.loading,
         \A d \in Slots : Latest(d, Later)' <=> Latest(d, Later)
  PROVE  CompareSound'
BY DEF CompareSound

LEMMA CompareStep == IInv /\ [Next]_vars => CompareSound'
<1> SUFFICES ASSUME IInv, [Next]_vars PROVE CompareSound'
  OBVIOUS
<1>a. TypeOK /\ LightSound /\ OwnersSound /\ CompareSound
  BY DEF IInv
<1>n. ASSUME compare'.loading = FALSE, \A d \in Slots : ~Latest(d, Later)'
      PROVE  CompareSound'
  BY <1>n DEF CompareSound
<1>1. CASE LightOnly
  <2>1. compare' = compare /\ \A d \in Slots : Latest(d, Later)' <=> Latest(d, Later)
    BY <1>a, <1>1, LightOnlyAlone DEF CompareAlone, LaterCallAlone
  <2> QED
    BY <1>a, <2>1, CompareFrame
<1>2. CASE Closing
  <2>1. compare' = ClosedCompare /\ \A d \in Slots : ~Latest(d, Later)'
    BY <1>a, <1>2, ClosingCloses DEF CompareClosed
  <2> QED
    BY <2>1, <1>n DEF ClosedCompare
<1>3. CASE SwapCompare
  <2>1. compare'.loading = compare.loading
    BY <1>3, <1>a, ViewTypes DEF SwapCompare, CompareType
  <2>2. \A d \in Slots : Latest(d, Later)' <=> Latest(d, Later)
    BY <1>3, <1>a, SameCalls DEF SwapCompare, LaterCallAlone
  <2> QED
    BY <1>a, <2>1, <2>2, CompareFrame
<1>4. ASSUME NEW c \in Slots, SideResolves(c) PROVE CompareSound'
  <2>1. PICK b \in Blobs : \E url \in {None, Resolved(calls[c].image, b)} : SideStep(c, b, url)
    BY <1>4, <1>a, SideStepTaken
  <2>2. PICK url \in {None, Resolved(calls[c].image, b)} : SideStep(c, b, url)
    BY <2>1
  <2>3. /\ ~Latest(c, Later)'
        /\ \A d \in Slots : d # c => (Latest(d, Later)' <=> Latest(d, Later))
    BY <2>2, <1>a, AnswerAlone DEF SideStep, LaterCallAlone
  <2>4. CASE calls[c].stale
    <3>1. compare' = compare /\ ~Latest(c, Later)
      BY <2>2, <2>4 DEF SideStep, Latest
    <3> QED
      BY <1>a, <2>3, <3>1, CompareFrame
  <2>5. CASE ~calls[c].stale
    <3>1. Latest(c, Later)
      BY <2>2, <2>5 DEF SideStep, Latest, Later
    <3>2. compare'.loading = FALSE
      BY <2>2, <2>5, <1>a, ViewTypes DEF SideStep, CompareType
    <3> QED
      BY <1>a, <2>3, <3>1, <3>2, <1>n DEF CompareSound
  <2> QED
    BY <2>4, <2>5
<1>5. ASSUME NEW c \in Slots, NEW s \in Sides, CompareResolves(c, s) PROVE CompareSound'
  <2>1. PICK b \in Blobs : \E url \in {None, Resolved(calls[c].images[s], b)} :
          OpenStep(c, s, b, url)
    BY <1>5, <1>a, OpenStepTaken
  <2>2. PICK url \in {None, Resolved(calls[c].images[s], b)} : OpenStep(c, s, b, url)
    BY <2>1
  <2>3. \A d \in Slots : d # c => Kept(d, {})
    BY <2>2, <1>a, OpenCalls
  <2>4. \A d \in Slots : d # c => (Latest(d, Later)' <=> Latest(d, Later))
    BY <2>3, Alone DEF LaterCallAlone
  <2>5. CASE calls[c].todo # {s}
    <3>1. compare' = compare /\ (Latest(c, Later)' <=> Latest(c, Later))
      BY <2>2, <2>5, <1>a, OpenCalls DEF OpenStep, LaterCallAlone
    <3> QED
      BY <1>a, <2>4, <3>1, CompareFrame
  <2>6. CASE calls[c].todo = {s} /\ calls[c].stale
    <3>1. compare' = compare /\ ~Latest(c, Later) /\ ~Latest(c, Later)'
      BY <2>2, <2>6, <1>a, OpenCalls DEF OpenStep, Latest
    <3> QED
      BY <1>a, <2>4, <3>1, CompareFrame
  <2>7. CASE calls[c].todo = {s} /\ ~calls[c].stale
    <3>1. Latest(c, Later)
      BY <2>2, <2>7 DEF OpenStep, Latest, Later
    <3>2. compare'.loading = FALSE
      BY <2>2, <2>7, <1>a, ViewTypes DEF OpenStep, CompareType
    <3>3. ~Latest(c, Later)'
      BY <2>2, <2>7, <1>a, OpenCalls
    <3> QED
      BY <1>a, <2>4, <3>1, <3>2, <3>3, <1>n DEF CompareSound
  <2> QED
    BY <2>5, <2>6, <2>7
<1>o. ASSUME NEW c \in Slots, compare'.loading = TRUE, Latest(c, Later)',
             \A d \in Slots : d # c => ~Latest(d, Later)'
      PROVE  CompareSound'
  BY <1>o DEF CompareSound
<1>6. ASSUME NEW c \in Slots, NEW i \in Images, NEW s \in Sides, SetCompareSide(s, i, c)
      PROVE  CompareSound'
  <2>1. /\ Latest(c, Later)'
        /\ \A d \in Slots : d # c => ~Latest(d, Later)'
    BY <1>6, <1>a, SideCalls
  <2>2. compare'.loading = TRUE
    BY <1>6, <1>a, ViewTypes DEF SetCompareSide, CompareType
  <2> QED
    BY <2>1, <2>2, <1>o
<1>7. ASSUME NEW c \in Slots, NEW i \in Images, NEW j \in Images, OpenCompare(i, j, c)
      PROVE  CompareSound'
  <2>1. /\ Latest(c, Later)'
        /\ \A d \in Slots : d # c => ~Latest(d, Later)'
    BY <1>7, <1>a, BothCalls
  <2>2. compare'.loading = TRUE
    BY <1>7 DEF OpenCompare
  <2> QED
    BY <2>1, <2>2, <1>o
<1> QED
  BY <1>1, <1>2, <1>3, <1>4, <1>5, <1>6, <1>7, Steps

-----------------------------------------------------------------------------
(***************************************************************************)
(* No blob has two owners.                                                 *)
(***************************************************************************)
LEMMA OwnersFrame ==
  ASSUME TypeOK', OwnersSound,
         \A b \in Blobs : b \in compare'.owned =>
                            b \in compare.owned /\ decoded'[b] # None /\ b # light'.owned,
         \A c \in Slots, s \in Sides, b \in Blobs :
           Holds(c, s, b)' => Holds(c, s, b) /\ decoded'[b] # None /\ b # light'.owned,
         \A c \in Slots : Pending(c)' /\ calls'[c].op = "open" =>
           \A s \in calls'[c].todo : calls'[c].got[s] = None
  PROVE  OwnersSound'
<1>1. compare'.owned \subseteq Blobs
  BY DEF TypeOK
<1>2. light'.owned \notin compare'.owned
  BY <1>1
<1>3. \A b \in compare'.owned : decoded'[b] # None
  BY <1>1
<1>4. \A c \in Slots, s \in Sides, b \in Blobs :
        Holds(c, s, b)' => decoded'[b] # None /\ b \notin compare'.owned /\ b # light'.owned
  BY DEF OwnersSound
<1>5. \A c, d \in Slots, s, t \in Sides, b \in Blobs :
        Holds(c, s, b)' /\ Holds(d, t, b)' => c = d /\ s = t
  BY DEF OwnersSound
<1> QED
  BY <1>2, <1>3, <1>4, <1>5 DEF OwnersSound

LEMMA TodoKept ==
  ASSUME OwnersSound, NEW d \in Slots, HeldAlone(d)
  PROVE  Pending(d)' /\ calls'[d].op = "open" =>
           \A s \in calls'[d].todo : calls'[d].got[s] = None
BY DEF HeldAlone, OwnersSound

LEMMA OwnedKnown ==
  ASSUME TypeOK, OwnersSound, NEW b \in Blobs
  PROVE  /\ b \in compare.owned => decoded[b] # None /\ b # light.owned
         /\ \A c \in Slots, s \in Sides :
              Holds(c, s, b) => decoded[b] # None /\ b # light.owned /\ b \notin compare.owned
BY DEF OwnersSound

LEMMA FreshApart ==
  ASSUME LightSound, OwnersSound, NEW b \in Blobs, decoded[b] = None
  PROVE  b \notin compare.owned /\ b # light.owned
BY NoneApart DEF LightSound, OwnersSound

LEMMA OwnersStep == IInv /\ TypeOK' /\ [Next]_vars => OwnersSound'
<1> SUFFICES ASSUME IInv, TypeOK', [Next]_vars PROVE OwnersSound'
  OBVIOUS
<1>a. TypeOK /\ LightSound /\ OwnersSound
  BY DEF IInv
<1>1. CASE LightOnly
  <2>1. CompareAlone
    BY <1>a, <1>1, LightOnlyAlone
  <2>2. \A b \in Blobs : b \in compare'.owned =>
                           b \in compare.owned /\ decoded'[b] # None /\ b # light'.owned
    BY <1>a, <2>1, OwnedKnown DEF CompareAlone
  <2>3. \A c \in Slots, s \in Sides, b \in Blobs :
          Holds(c, s, b)' => Holds(c, s, b) /\ decoded'[b] # None /\ b # light'.owned
    BY <1>a, <2>1, OwnedKnown DEF CompareAlone, HeldAlone
  <2> QED
    BY <1>a, <2>1, <2>2, <2>3, TodoKept, OwnersFrame DEF CompareAlone
<1>2. CASE Closing
  <2>1. CompareClosed
    BY <1>a, <1>2, ClosingCloses
  <2>2. compare'.owned = compare.owned \ Released(BothUrls)
    BY <2>1 DEF CompareClosed, ClosedCompare
  <2>3. \A b \in Blobs : b \in compare'.owned =>
                           b \in compare.owned /\ decoded'[b] # None /\ b # light'.owned
    <3> SUFFICES ASSUME NEW b \in Blobs, b \in compare'.owned
                 PROVE  b \in compare.owned /\ decoded'[b] # None /\ b # light'.owned
      OBVIOUS
    <3>1. b \in compare.owned /\ ~OnSide(b)
      BY <2>2, ReleasedKnown DEF OnSide
    <3>2. decoded[b] # None /\ b # light.owned
      BY <1>a, <3>1, OwnedKnown
    <3> QED
      BY <2>1, <3>1, <3>2, NoneApart DEF CompareClosed
  <2>4. \A c \in Slots, s \in Sides, b \in Blobs :
          Holds(c, s, b)' => Holds(c, s, b) /\ decoded'[b] # None /\ b # light'.owned
    <3> SUFFICES ASSUME NEW c \in Slots, NEW s \in Sides, NEW b \in Blobs, Holds(c, s, b)'
                 PROVE  Holds(c, s, b) /\ decoded'[b] # None /\ b # light'.owned
      OBVIOUS
    <3>1. Holds(c, s, b)
      BY <2>1 DEF CompareClosed, HeldAlone
    <3>2. decoded[b] # None /\ b # light.owned /\ b \notin compare.owned
      BY <1>a, <3>1, OwnedKnown
    <3> QED
      BY <2>1, <3>1, <3>2, NoneApart DEF CompareClosed
  <2> QED
    BY <1>a, <2>1, <2>3, <2>4, TodoKept, OwnersFrame DEF CompareClosed
<1>3. CASE SwapCompare
  <2>1. /\ compare'.owned = compare.owned /\ decoded' = decoded /\ light' = light
        /\ calls' = calls
    BY <1>3, <1>a, ViewTypes DEF SwapCompare, CompareType
  <2>2. \A d \in Slots : HeldAlone(d)
    BY <2>1, <1>a, SameCalls
  <2>3. \A b \in Blobs : b \in compare'.owned =>
                           b \in compare.owned /\ decoded'[b] # None /\ b # light'.owned
    BY <1>a, <2>1, OwnedKnown
  <2>4. \A c \in Slots, s \in Sides, b \in Blobs :
          Holds(c, s, b)' => Holds(c, s, b) /\ decoded'[b] # None /\ b # light'.owned
    BY <1>a, <2>1, <2>2, OwnedKnown DEF HeldAlone
  <2> QED
    BY <1>a, <2>2, <2>3, <2>4, TodoKept, OwnersFrame
<1>4. ASSUME NEW c \in Slots, SideResolves(c) PROVE OwnersSound'
  <2>1. PICK b \in Blobs : \E url \in {None, Resolved(calls[c].image, b)} : SideStep(c, b, url)
    BY <1>4, <1>a, SideStepTaken
  <2>2. PICK url \in {None, Resolved(calls[c].image, b)} : SideStep(c, b, url)
    BY <2>1
  <2>3. /\ Pending(c) /\ calls[c].op = "side" /\ light' = light
        /\ calls' = [calls EXCEPT ![c] = None] /\ decoded[b] = None
        /\ calls[c] \in Call /\ calls[c].image \in Images
        /\ \A d \in Slots, t \in Sides : ~Holds(d, t, b)
    BY <2>2, <1>a, FreshKnown, PendingKnown, CallKnown DEF SideStep
  <2>4. /\ ~Pending(c)' /\ (\A s, e : ~Holds(c, s, e)')
        /\ \A d \in Slots : d # c => HeldAlone(d)
    BY <2>3, <1>a, AnswerAlone
  <2>5. \A d \in Slots, s \in Sides, e \in Blobs : Holds(d, s, e)' => Holds(d, s, e)
    BY <2>4 DEF HeldAlone
  <2>6. \A d \in Slots : Pending(d)' /\ calls'[d].op = "open" =>
          \A s \in calls'[d].todo : calls'[d].got[s] = None
    BY <1>a, <2>4, TodoKept
  <2>7. CASE calls[c].stale
    <3>1. \A e \in Blobs : decoded'[e] = decoded[e]
      <4>1. \A e \in Blobs : SideLeaves(c, b, url, e)
        BY <1>a, <2>2, SideDecoded
      <4> QED
        BY <2>7, <4>1 DEF SideLeaves
    <3>2. compare' = compare
      BY <2>2, <2>7 DEF SideStep
    <3>3. \A e \in Blobs : e \in compare'.owned =>
                             e \in compare.owned /\ decoded'[e] # None /\ e # light'.owned
      BY <1>a, <2>3, <3>1, <3>2, OwnedKnown
    <3>4. \A d \in Slots, s \in Sides, e \in Blobs :
            Holds(d, s, e)' => Holds(d, s, e) /\ decoded'[e] # None /\ e # light'.owned
      BY <1>a, <2>3, <2>5, <3>1, OwnedKnown
    <3> QED
      BY <1>a, <2>6, <3>3, <3>4, OwnersFrame
  <2>8. CASE ~calls[c].stale
    <3>1. compare'.owned = (compare.owned \ Released({calls[c].previous})) \cup BlobsOf({url})
      BY <2>2, <2>8, <1>a, ViewTypes DEF SideStep, CompareType
    <3>2. ASSUME NEW e \in Blobs
          PROVE  /\ e \in compare'.owned <=>
                      \/ url = BlobUrl(b) /\ e = b
                      \/ e \in compare.owned /\ e \notin Released({calls[c].previous})
                 /\ decoded'[e] = IF url = BlobUrl(b) /\ e = b THEN calls[c].image
                                  ELSE IF e \in Released({calls[c].previous}) THEN None
                                  ELSE decoded[e]
                 /\ e \in Released({calls[c].previous}) => e \in compare.owned
      <4>1. e \in BlobsOf({url}) <=> url = BlobUrl(b) /\ e = b
        <5>1. e \in BlobsOf({url}) <=> url = BlobUrl(e)
          BY ReleasedKnown
        <5>2. url = BlobUrl(e) => e = b
          BY <2>3, AnswerUrl
        <5> QED
          BY <5>1, <5>2
      <4>2. /\ url = BlobUrl(b) /\ e = b => decoded'[e] = calls[c].image
            /\ ~(url = BlobUrl(b) /\ e = b) =>
                 decoded'[e] = IF e \in Released({calls[c].previous}) THEN None ELSE decoded[e]
        <5>1. SideLeaves(c, b, url, e)
          BY <1>a, <2>2, SideDecoded
        <5> QED
          BY <5>1, <2>8 DEF SideLeaves
      <4> QED
        BY <3>1, <4>1, <4>2, ReleasedKnown
    <3>3. \A e \in Blobs : e \in compare'.owned => decoded'[e] # None /\ e # light'.owned
      <4> SUFFICES ASSUME NEW e \in Blobs, e \in compare'.owned
                   PROVE  decoded'[e] # None /\ e # light'.owned
        OBVIOUS
      <4>1. CASE url = BlobUrl(b) /\ e = b
        <5>1. decoded'[e] = calls[c].image
          BY <3>2, <4>1
        <5>2. b # light.owned
          BY <1>a, <2>3, FreshApart
        <5> QED
          BY <2>3, <4>1, <5>1, <5>2, NoneApart
      <4>2. CASE ~(url = BlobUrl(b) /\ e = b)
        BY <1>a, <2>3, <3>2, <4>2, OwnedKnown
      <4> QED
        BY <4>1, <4>2
    <3>4. ASSUME NEW d \in Slots, NEW s \in Sides, NEW e \in Blobs, Holds(d, s, e)'
          PROVE  decoded'[e] # None /\ e \notin compare'.owned /\ e # light'.owned
      <4>1. Holds(d, s, e) /\ e # b
        BY <2>3, <2>5, <3>4
      <4>2. decoded[e] # None /\ e # light.owned /\ e \notin compare.owned
        BY <1>a, <4>1, OwnedKnown
      <4> QED
        BY <2>3, <3>2, <4>1, <4>2
    <3>5. light'.owned \notin compare'.owned /\ \A e \in compare'.owned : decoded'[e] # None
      <4>1. compare'.owned \subseteq Blobs
        BY DEF TypeOK
      <4> QED
        BY <3>3, <4>1
    <3>6. \A d, f \in Slots, s, t \in Sides, e \in Blobs :
            Holds(d, s, e)' /\ Holds(f, t, e)' => d = f /\ s = t
      BY <1>a, <2>5 DEF OwnersSound
    <3> QED
      BY <2>6, <3>4, <3>5, <3>6 DEF OwnersSound
  <2> QED
    BY <2>7, <2>8
<1>5. ASSUME NEW c \in Slots, NEW s \in Sides, CompareResolves(c, s) PROVE OwnersSound'
  <2>1. PICK b \in Blobs : \E url \in {None, Resolved(calls[c].images[s], b)} :
          OpenStep(c, s, b, url)
    BY <1>5, <1>a, OpenStepTaken
  <2>2. PICK url \in {None, Resolved(calls[c].images[s], b)} : OpenStep(c, s, b, url)
    BY <2>1
  <2>3. /\ Pending(c) /\ calls[c].op = "open" /\ light' = light /\ decoded[b] = None
        /\ calls[c] \in Call /\ calls[c].images[s] \in Images /\ s \in calls[c].todo
        /\ \A d \in Slots, t \in Sides : ~Holds(d, t, b)
    BY <2>2, <1>a, FreshKnown, PendingKnown, CallKnown DEF OpenStep
  <2>4. b \notin compare.owned /\ b # light.owned
    BY <1>a, <2>3, FreshApart
  <2>5. \A d \in Slots : d # c => HeldAlone(d)
    <3>1. \A d \in Slots : d # c => Kept(d, {})
      BY <1>a, <2>2, OpenCalls
    <3> QED
      BY <3>1, Alone
  <2>6. \A d \in Slots : d # c =>
          (Pending(d)' /\ calls'[d].op = "open" =>
             \A t \in calls'[d].todo : calls'[d].got[t] = None)
    BY <1>a, <2>5, TodoKept
  <2>7. \A d \in Slots, t \in Sides, e \in Blobs : d # c => (Holds(d, t, e)' <=> Holds(d, t, e))
    BY <2>5 DEF HeldAlone
  <2>8. CASE calls[c].todo # {s}
    <3>1. /\ compare' = compare /\ Pending(c)' /\ calls'[c].op = "open"
          /\ calls'[c].got = GotNow(c, s, url) /\ calls'[c].todo = calls[c].todo \ {s}
      BY <1>a, <2>2, <2>8, OpenCalls DEF OpenStep
    <3>2. \A t \in Sides, e \in Blobs : Holds(c, t, e)' =>
            (t = s /\ url = BlobUrl(b) /\ e = b) \/ (t # s /\ Holds(c, t, e))
      BY <1>a, <2>2, <3>1, OpenForgets DEF Holds
    <3>3. \A e \in Blobs : decoded'[e] = IF url = BlobUrl(b) /\ e = b THEN calls[c].images[s]
                                         ELSE decoded[e]
      BY <1>a, <2>2, <2>8, OpenDecoded
    <3>4. ASSUME NEW d \in Slots, NEW t \in Sides, NEW e \in Blobs, Holds(d, t, e)'
          PROVE  decoded'[e] # None /\ e \notin compare'.owned /\ e # light'.owned
      <4>1. CASE d = c /\ t = s
        BY <2>3, <2>4, <3>1, <3>2, <3>3, <3>4, <4>1, NoneApart
      <4>2. CASE ~(d = c /\ t = s)
        <5>1. Holds(d, t, e)
          BY <2>7, <3>2, <3>4, <4>2
        <5>2. decoded[e] # None /\ e # light.owned /\ e \notin compare.owned
          BY <1>a, <5>1, OwnedKnown
        <5> QED
          BY <2>3, <3>1, <3>3, <5>2
      <4> QED
        BY <4>1, <4>2
    <3>5. \A d, f \in Slots, t, u \in Sides, e \in Blobs :
            Holds(d, t, e)' /\ Holds(f, u, e)' => d = f /\ t = u
      <4> SUFFICES ASSUME NEW d \in Slots, NEW f \in Slots, NEW t \in Sides, NEW u \in Sides,
                          NEW e \in Blobs, Holds(d, t, e)', Holds(f, u, e)'
                   PROVE  d = f /\ t = u
        OBVIOUS
      <4>1. /\ Holds(d, t, e) \/ (d = c /\ t = s /\ e = b)
            /\ Holds(f, u, e) \/ (f = c /\ u = s /\ e = b)
        BY <2>7, <3>2
      <4> QED
        BY <1>a, <2>3, <4>1 DEF OwnersSound
    <3>6. \A e \in compare'.owned : decoded'[e] # None
      BY <1>a, <2>4, <3>1, <3>3, CompareKnown DEF OwnersSound
    <3>7. \A t \in calls'[c].todo : calls'[c].got[t] = None
      <4> SUFFICES ASSUME NEW t \in calls[c].todo \ {s} PROVE calls'[c].got[t] = None
        BY <3>1
      <4>1. calls[c].got \in [Sides -> Url \cup {None}] /\ t \in Sides
        BY <2>3, CallKnown
      <4>2. GotNow(c, s, url)[t] = calls[c].got[t]
        BY <4>1 DEF GotNow
      <4> QED
        BY <1>a, <2>3, <3>1, <4>2 DEF OwnersSound
    <3>8. light'.owned \notin compare'.owned
      BY <1>a, <2>3, <3>1 DEF OwnersSound
    <3>9. \A d \in Slots : Pending(d)' /\ calls'[d].op = "open" =>
            \A t \in calls'[d].todo : calls'[d].got[t] = None
      BY <2>6, <3>7
    <3> QED
      BY <3>4, <3>5, <3>6, <3>8, <3>9 DEF OwnersSound
  <2>9. CASE calls[c].todo = {s}
    <3>1. ~Pending(c)' /\ \A t, e : ~Holds(c, t, e)'
      BY <1>a, <2>2, <2>9, OpenCalls
    <3>2. \A d \in Slots : Pending(d)' /\ calls'[d].op = "open" =>
            \A t \in calls'[d].todo : calls'[d].got[t] = None
      BY <2>6, <3>1
    <3>3. \A d, f \in Slots, t, u \in Sides, e \in Blobs :
            Holds(d, t, e)' /\ Holds(f, u, e)' => d = f /\ t = u
      BY <1>a, <2>7, <3>1 DEF OwnersSound
    <3>g. \A e \in Blobs : (\E t \in Sides : GotNow(c, s, url)[t] = BlobUrl(e)) <=>
            (url = BlobUrl(b) /\ e = b) \/ \E t \in Sides : t # s /\ Holds(c, t, e)
      BY <1>a, <2>2, OpenForgets
    <3>h. ASSUME NEW d \in Slots, NEW t \in Sides, NEW e \in Blobs, Holds(d, t, e)'
          PROVE  /\ Holds(d, t, e) /\ e # b /\ decoded[e] # None /\ e # light.owned
                 /\ e \notin compare.owned
                 /\ ~\E u \in Sides : GotNow(c, s, url)[u] = BlobUrl(e)
      <4>1. d # c /\ Holds(d, t, e)
        BY <2>7, <3>1, <3>h
      <4>2. \A u \in Sides : ~Holds(c, u, e)
        BY <1>a, <4>1 DEF OwnersSound
      <4> QED
        BY <1>a, <2>3, <3>g, <4>1, <4>2, OwnedKnown
    <3>4. CASE calls[c].stale
      <4>1. compare' = compare
        BY <2>2, <2>9, <3>4 DEF OpenStep
      <4>2. \A e \in Blobs : decoded'[e] =
              IF \E t \in Sides : GotNow(c, s, url)[t] = BlobUrl(e) THEN None ELSE decoded[e]
        BY <1>a, <2>2, <2>9, <3>4, OpenDecoded
      <4>3. \A e \in Blobs : e \in compare'.owned =>
                               e \in compare.owned /\ decoded'[e] # None /\ e # light'.owned
        BY <1>a, <2>3, <2>4, <3>g, <4>1, <4>2, OwnedKnown
      <4>4. \A d \in Slots, t \in Sides, e \in Blobs :
              Holds(d, t, e)' => Holds(d, t, e) /\ decoded'[e] # None /\ e # light'.owned
        BY <2>3, <3>h, <4>2
      <4> QED
        BY <1>a, <3>2, <4>3, <4>4, OwnersFrame
    <3>5. CASE ~calls[c].stale
      <4>1. compare'.owned = compare.owned \cup GotBlobs(c, s, url)
        BY <2>2, <2>9, <3>5, <1>a, ViewTypes DEF OpenStep, CompareType
      <4>2. \A e \in Blobs : decoded'[e] = IF url = BlobUrl(b) /\ e = b THEN calls[c].images[s]
                                           ELSE decoded[e]
        BY <1>a, <2>2, <3>5, OpenDecoded
      <4>3. \A e \in Blobs : e \in compare'.owned <=>
              e \in compare.owned \/ \E t \in Sides : GotNow(c, s, url)[t] = BlobUrl(e)
        BY <4>1 DEF GotBlobs, BlobsOf
      <4>4. \A e \in Blobs : e \in compare'.owned => decoded'[e] # None /\ e # light'.owned
        BY <1>a, <2>3, <2>4, <3>g, <4>2, <4>3, OwnedKnown, NoneApart
      <4>5. \A d \in Slots, t \in Sides, e \in Blobs :
              Holds(d, t, e)' => decoded'[e] # None /\ e \notin compare'.owned /\ e # light'.owned
        BY <2>3, <3>h, <4>2, <4>3
      <4>6. compare'.owned \subseteq Blobs
        BY DEF TypeOK
      <4>7. light'.owned \notin compare'.owned /\ \A e \in compare'.owned : decoded'[e] # None
        BY <4>4, <4>6
      <4> QED
        BY <3>2, <3>3, <4>5, <4>7 DEF OwnersSound
    <3> QED
      BY <3>4, <3>5
  <2> QED
    BY <2>8, <2>9
<1>6. ASSUME NEW c \in Slots, NEW i \in Images, NEW s \in Sides, SetCompareSide(s, i, c)
      PROVE  OwnersSound'
  <2>1. compare'.owned = compare.owned /\ decoded' = decoded /\ light' = light
    BY <1>6, <1>a, ViewTypes DEF SetCompareSide, CompareType
  <2>2. \A d \in Slots : HeldAlone(d)
    BY <1>6, <1>a, SideCalls
  <2>3. \A b \in Blobs : b \in compare'.owned =>
                           b \in compare.owned /\ decoded'[b] # None /\ b # light'.owned
    BY <1>a, <2>1, OwnedKnown
  <2>4. \A d \in Slots, t \in Sides, b \in Blobs :
          Holds(d, t, b)' => Holds(d, t, b) /\ decoded'[b] # None /\ b # light'.owned
    BY <1>a, <2>1, <2>2, OwnedKnown DEF HeldAlone
  <2> QED
    BY <1>a, <2>2, <2>3, <2>4, TodoKept, OwnersFrame
<1>7. ASSUME NEW c \in Slots, NEW i \in Images, NEW j \in Images, OpenCompare(i, j, c)
      PROVE  OwnersSound'
  <2>1. /\ compare'.owned = compare.owned \ Released(BothUrls) /\ light' = light
        /\ decoded' = Revoke(decoded, Released(BothUrls))
    BY <1>7 DEF OpenCompare
  <2>2. /\ \A t \in Sides : calls'[c].got[t] = None
        /\ \A d \in Slots : d # c => HeldAlone(d)
    BY <1>7, <1>a, BothCalls
  <2>3. \A t \in Sides, b \in Blobs : ~Holds(c, t, b)'
    BY <2>2, UrlsKnown DEF Holds
  <2>4. \A b \in Blobs : decoded'[b] = IF b \in compare.owned /\ OnSide(b) THEN None ELSE decoded[b]
    BY <1>a, <2>1, CompareReleased DEF OnSide
  <2>5. \A b \in Blobs : b \in compare'.owned =>
                           b \in compare.owned /\ decoded'[b] # None /\ b # light'.owned
    BY <1>a, <2>1, <2>4, OwnedKnown, ReleasedKnown DEF OnSide
  <2>6. \A d \in Slots, t \in Sides, b \in Blobs :
          Holds(d, t, b)' => Holds(d, t, b) /\ decoded'[b] # None /\ b # light'.owned
    BY <1>a, <2>1, <2>2, <2>3, <2>4, OwnedKnown DEF HeldAlone
  <2>7. \A d \in Slots : Pending(d)' /\ calls'[d].op = "open" =>
          \A t \in calls'[d].todo : calls'[d].got[t] = None
    <3>1. Pending(c)' /\ calls'[c].op = "open" => calls'[c].todo \subseteq Sides
      BY CallKnown DEF TypeOK, Pending
    <3> QED
      BY <1>a, <2>2, <3>1, TodoKept
  <2> QED
    BY <1>a, <2>5, <2>6, <2>7, OwnersFrame
<1> QED
  BY <1>1, <1>2, <1>3, <1>4, <1>5, <1>6, <1>7, Steps

-----------------------------------------------------------------------------
(***************************************************************************)
(* What is decoded is owned, as long as no loading side is swapped.        *)
(***************************************************************************)
HeldBy(b) == \E c \in Slots, s \in Sides : Holds(c, s, b)

LEMMA SidesKnown ==
  ASSUME SidesSound, NEW b \in Blobs
  PROVE  /\ b \in compare.owned <=> OnSide(b)
         /\ decoded[b] # None => b = light.owned \/ b \in compare.owned \/ HeldBy(b)
BY DEF SidesSound, OnSide, HeldBy

(* The comparison shows nothing of which a blob could be left. *)
LEMMA SidesEmpty ==
  ASSUME compare'.owned \cap Blobs = {}, compare'.owned \subseteq Blobs,
         \A s \in Sides : compare'.url[s] = None,
         \A b \in Blobs : decoded'[b] # None => b = light'.owned \/ HeldBy(b)',
         \A d \in Slots : ~Latest(d, {"side"})'
  PROVE  SidesSound'
BY UrlsKnown DEF SidesSound, HeldBy

LEMMA SidesFrame ==
  ASSUME SidesSound, compare'.url = compare.url, compare'.owned = compare.owned,
         \A b \in Blobs : decoded'[b] # None =>
                            b = light'.owned \/ b \in compare.owned \/ HeldBy(b)',
         \A d \in Slots : Latest(d, {"side"})' =>
           /\ Latest(d, {"side"})
           /\ calls'[d].side = calls[d].side /\ calls'[d].previous = calls[d].previous,
         \A d \in Slots : Latest(d, {"open"})' => Latest(d, {"open"})
  PROVE  SidesSound'
<1>1. \A b \in Blobs : decoded'[b] # None =>
         \/ b = light'.owned
         \/ b \in compare'.owned
         \/ \E c \in Slots, s \in Sides : Holds(c, s, b)'
  BY DEF HeldBy
<1>2. /\ \A s \in Sides, b \in Blobs : compare'.url[s] = BlobUrl(b) => b \in compare'.owned
      /\ \A b \in compare'.owned : \E s \in Sides : compare'.url[s] = BlobUrl(b)
      /\ \A b \in Blobs, s, t \in Sides :
           compare'.url[s] = BlobUrl(b) /\ compare'.url[t] = BlobUrl(b) => s = t
  BY DEF SidesSound
<1>3. \A c \in Slots : Latest(c, {"side"})' => calls'[c].previous = compare'.url[calls'[c].side]
  BY DEF SidesSound
<1>4. \A c \in Slots : Latest(c, {"open"})' => \A s \in Sides : compare'.url[s] = None
  BY DEF SidesSound
<1> QED
  BY <1>1, <1>2, <1>3, <1>4 DEF SidesSound

LEMMA HeldKept ==
  ASSUME NEW b, \A d \in Slots : HeldAlone(d)
  PROVE  HeldBy(b)' <=> HeldBy(b)
BY DEF HeldBy, HeldAlone

LEMMA SidesStep == IInv /\ TypeOK' /\ [Next]_vars => swapped' \/ SidesSound'
<1> SUFFICES ASSUME IInv, TypeOK', [Next]_vars, ~swapped' PROVE SidesSound'
  OBVIOUS
<1>a. TypeOK /\ LightSound /\ CompareSound /\ OwnersSound /\ (swapped \/ SidesSound)
  BY DEF IInv
<1>1. CASE LightOnly
  <2>1. CompareAlone /\ SidesSound
    BY <1>a, <1>1, LightOnlyAlone DEF CompareAlone
  <2>2. \A b \in Blobs : HeldBy(b)' <=> HeldBy(b)
    BY <2>1, HeldKept DEF CompareAlone
  <2>3. \A b \in Blobs : decoded'[b] # None =>
                           b = light'.owned \/ b \in compare.owned \/ HeldBy(b)'
    BY <2>1, <2>2, SidesKnown DEF CompareAlone
  <2> QED
    BY <2>1, <2>3, SidesFrame DEF CompareAlone, LaterCallAlone
<1>2. CASE Closing
  <2>1. CompareClosed /\ SidesSound
    BY <1>a, <1>2, ClosingCloses DEF CompareClosed
  <2>2. \A b \in Blobs : HeldBy(b)' <=> HeldBy(b)
    BY <2>1, HeldKept DEF CompareClosed
  <2>3. \A b \in Blobs : decoded'[b] # None => b = light'.owned \/ HeldBy(b)'
    BY <2>1, <2>2, SidesKnown DEF CompareClosed
  <2>4. /\ compare'.owned = compare.owned \ Released(BothUrls)
        /\ \A s \in Sides : compare'.url[s] = None
    BY <2>1 DEF CompareClosed, ClosedCompare
  <2>5. compare'.owned \cap Blobs = {} /\ compare'.owned \subseteq Blobs
    BY <1>a, <2>1, <2>4, SidesKnown, CompareKnown, ReleasedKnown DEF OnSide
  <2> QED
    BY <2>1, <2>3, <2>4, <2>5, SidesEmpty DEF CompareClosed
<1>3. CASE SwapCompare
  <2>1. /\ ~swapped /\ ~compare.loading /\ decoded' = decoded /\ light' = light /\ calls' = calls
        /\ compare' = [compare EXCEPT !.image = [s \in Sides |-> compare.image[Other(s)]],
                                      !.url = [s \in Sides |-> compare.url[Other(s)]]]
    BY <1>3, <1>a, CompareKnown DEF SwapCompare, TypeOK
  <2>2. SidesSound
    BY <1>a, <2>1
  <2>3. /\ compare'.owned = compare.owned
        /\ compare'.url = [s \in Sides |-> compare.url[Other(s)]]
    BY <1>a, <2>1, ViewTypes DEF CompareType
  <2>4. compare'.url["a"] = compare.url["b"] /\ compare'.url["b"] = compare.url["a"]
    BY <2>3, OthersKnown DEF Sides
  <2>5. \A d \in Slots : ~Latest(d, Later)' /\ HeldAlone(d)
    BY <1>a, <2>1, SameCalls DEF CompareSound, LaterCallAlone
  <2>6. \A d \in Slots : ~Latest(d, {"side"})' /\ ~Latest(d, {"open"})'
    BY <2>5 DEF Latest, Later
  <2>7. \A b \in Blobs : HeldBy(b)' <=> HeldBy(b)
    BY <2>5, HeldKept
  <2>8. \A b \in Blobs : decoded'[b] # None =>
         \/ b = light'.owned
         \/ b \in compare'.owned
         \/ \E c \in Slots, s \in Sides : Holds(c, s, b)'
    BY <2>1, <2>2, <2>3, <2>7, SidesKnown DEF HeldBy
  <2>9. /\ \A s \in Sides, b \in Blobs : compare'.url[s] = BlobUrl(b) => b \in compare'.owned
        /\ \A b \in compare'.owned : \E s \in Sides : compare'.url[s] = BlobUrl(b)
        /\ \A b \in Blobs, s, t \in Sides :
             compare'.url[s] = BlobUrl(b) /\ compare'.url[t] = BlobUrl(b) => s = t
    BY <2>2, <2>3, <2>4 DEF SidesSound, Sides
  <2> QED
    BY <2>6, <2>8, <2>9 DEF SidesSound
<1>4. ASSUME NEW c \in Slots, SideResolves(c) PROVE SidesSound'
  <2>1. PICK b \in Blobs : \E url \in {None, Resolved(calls[c].image, b)} : SideStep(c, b, url)
    BY <1>4, <1>a, SideStepTaken
  <2>2. PICK url \in {None, Resolved(calls[c].image, b)} : SideStep(c, b, url)
    BY <2>1
  <2>3. /\ Pending(c) /\ calls[c].op = "side" /\ light' = light /\ swapped' = swapped
        /\ calls' = [calls EXCEPT ![c] = None] /\ decoded[b] = None
        /\ calls[c] \in Call /\ calls[c].image \in Images /\ calls[c].side \in Sides
        /\ \A d \in Slots, t \in Sides : ~Holds(d, t, b)
    BY <2>2, <1>a, FreshKnown, PendingKnown, CallKnown DEF SideStep
  <2>4. /\ ~Latest(c, {"side"})' /\ ~Latest(c, {"open"})' /\ ~Latest(c, Later)'
        /\ \A d \in Slots : d # c => HeldAlone(d) /\ LaterCallAlone(d)
    BY <2>3, <1>a, AnswerAlone
  <2>5. SidesSound
    BY <1>a, <2>3
  <2>6. \A e \in Blobs : HeldBy(e) => HeldBy(e)'
    <3>1. \A e, t : ~Holds(c, t, e)
      BY <2>3 DEF Holds
    <3> QED
      BY <2>4, <3>1 DEF HeldBy, HeldAlone
  <2>7. CASE calls[c].stale
    <3>1. \A e \in Blobs : decoded'[e] = decoded[e]
      <4>1. \A e \in Blobs : SideLeaves(c, b, url, e)
        BY <1>a, <2>2, SideDecoded
      <4> QED
        BY <2>7, <4>1 DEF SideLeaves
    <3>2. compare' = compare
      BY <2>2, <2>7 DEF SideStep
    <3>3. \A e \in Blobs : decoded'[e] # None =>
                             e = light'.owned \/ e \in compare.owned \/ HeldBy(e)'
      BY <2>3, <2>5, <2>6, <3>1, SidesKnown
    <3>4. /\ \A d \in Slots : Latest(d, {"side"})' =>
             /\ Latest(d, {"side"})
             /\ calls'[d].side = calls[d].side /\ calls'[d].previous = calls[d].previous
          /\ \A d \in Slots : Latest(d, {"open"})' => Latest(d, {"open"})
      BY <2>4 DEF LaterCallAlone
    <3> QED
      BY <2>5, <3>2, <3>3, <3>4, SidesFrame
  <2>8. CASE ~calls[c].stale
    <3> DEFINE mine == calls[c].side
               before == calls[c].previous
    <3>1. /\ compare'.owned = (compare.owned \ Released({before})) \cup BlobsOf({url})
          /\ compare'.url = [compare.url EXCEPT ![mine] = url]
      BY <2>2, <2>8, <1>a, ViewTypes DEF SideStep, CompareType
    <3>2. \A t \in Sides : compare'.url[t] = IF t = mine THEN url ELSE compare.url[t]
      BY <1>a, <3>1, CompareKnown
    <3>3. Latest(c, {"side"}) /\ Latest(c, Later)
      BY <2>3, <2>8 DEF Latest, Later
    <3>4. before = compare.url[mine]
      BY <2>5, <3>3 DEF SidesSound
    <3>5. \A d \in Slots : ~Latest(d, {"side"})' /\ ~Latest(d, {"open"})'
      BY <1>a, <2>4, <3>3 DEF CompareSound, LaterCallAlone, Latest, Later
    <3>6. ASSUME NEW e \in Blobs
          PROVE  /\ e \in compare'.owned <=>
                      \/ url = BlobUrl(b) /\ e = b
                      \/ e \in compare.owned /\ before # BlobUrl(e)
                 /\ url = BlobUrl(e) => e = b
                 /\ decoded'[e] # None =>
                      \/ url = BlobUrl(b) /\ e = b
                      \/ decoded[e] # None /\ ~(e \in compare.owned /\ before = BlobUrl(e))
      <4>1. e \in BlobsOf({url}) <=> url = BlobUrl(b) /\ e = b
        <5>1. e \in BlobsOf({url}) <=> url = BlobUrl(e)
          BY ReleasedKnown
        <5>2. url = BlobUrl(e) => e = b
          BY <2>3, AnswerUrl
        <5> QED
          BY <5>1, <5>2
      <4>2. SideLeaves(c, b, url, e)
        BY <1>a, <2>2, SideDecoded
      <4>3. e \in Released({before}) <=> e \in compare.owned /\ before = BlobUrl(e)
        BY ReleasedKnown
      <4>4. url = BlobUrl(e) => e = b
        BY <2>3, AnswerUrl
      <4> QED
        BY <2>8, <3>1, <4>1, <4>2, <4>3, <4>4 DEF SideLeaves
    <3>7. b \notin compare.owned
      BY <1>a, <2>3, FreshApart
    <3>8. \A e \in Blobs : decoded'[e] # None =>
         \/ e = light'.owned
         \/ e \in compare'.owned
         \/ \E d \in Slots, s \in Sides : Holds(d, s, e)'
      BY <2>3, <2>5, <2>6, <3>6, SidesKnown DEF HeldBy
    <3>9. \A s \in Sides, e \in Blobs : compare'.url[s] = BlobUrl(e) => e \in compare'.owned
      <4> SUFFICES ASSUME NEW s \in Sides, NEW e \in Blobs, compare'.url[s] = BlobUrl(e)
                   PROVE  e \in compare'.owned
        OBVIOUS
      <4>1. CASE s = mine
        BY <3>2, <3>6, <4>1
      <4>2. CASE s # mine
        <5>1. compare.url[s] = BlobUrl(e)
          BY <3>2, <4>2
        <5>2. e \in compare.owned /\ before # BlobUrl(e)
          BY <2>3, <2>5, <3>4, <4>2, <5>1 DEF SidesSound
        <5> QED
          BY <3>6, <5>2
      <4> QED
        BY <4>1, <4>2
    <3>10. \A e \in compare'.owned : \E s \in Sides : compare'.url[s] = BlobUrl(e)
      <4> SUFFICES ASSUME NEW e \in Blobs, e \in compare'.owned
                   PROVE  \E s \in Sides : compare'.url[s] = BlobUrl(e)
        BY DEF TypeOK
      <4>1. CASE url = BlobUrl(b) /\ e = b
        BY <2>3, <3>2, <4>1
      <4>2. CASE e \in compare.owned /\ before # BlobUrl(e)
        <5>1. PICK s \in Sides : compare.url[s] = BlobUrl(e)
          BY <2>5, <4>2 DEF SidesSound
        <5>2. s # mine
          BY <3>4, <4>2, <5>1
        <5> QED
          BY <3>2, <5>1, <5>2
      <4> QED
        BY <3>6, <4>1, <4>2
    <3>11. \A e \in Blobs, s, t \in Sides :
             compare'.url[s] = BlobUrl(e) /\ compare'.url[t] = BlobUrl(e) => s = t
      <4> SUFFICES ASSUME NEW e \in Blobs, NEW s \in Sides, NEW t \in Sides,
                          compare'.url[s] = BlobUrl(e), compare'.url[t] = BlobUrl(e), s # t
                   PROVE  FALSE
        OBVIOUS
      <4>1. \E u \in Sides : compare.url[u] = BlobUrl(e)
        BY <3>2
      <4>2. CASE s = mine \/ t = mine
        <5>1. e = b
          BY <3>2, <3>6, <4>2
        <5> QED
          BY <2>5, <3>7, <4>1, <5>1 DEF SidesSound
      <4>3. CASE s # mine /\ t # mine
        BY <2>5, <3>2, <4>3 DEF SidesSound
      <4> QED
        BY <4>2, <4>3
    <3> QED
      BY <3>5, <3>8, <3>9, <3>10, <3>11 DEF SidesSound
  <2> QED
    BY <2>7, <2>8
<1>5. ASSUME NEW c \in Slots, NEW s \in Sides, CompareResolves(c, s) PROVE SidesSound'
  <2>1. PICK b \in Blobs : \E url \in {None, Resolved(calls[c].images[s], b)} :
          OpenStep(c, s, b, url)
    BY <1>5, <1>a, OpenStepTaken
  <2>2. PICK url \in {None, Resolved(calls[c].images[s], b)} : OpenStep(c, s, b, url)
    BY <2>1
  <2>3. /\ Pending(c) /\ calls[c].op = "open" /\ light' = light /\ decoded[b] = None
        /\ calls[c] \in Call /\ calls[c].images[s] \in Images /\ s \in calls[c].todo
        /\ swapped' = swapped /\ calls[c].got \in [Sides -> Url \cup {None}]
        /\ \A d \in Slots, t \in Sides : ~Holds(d, t, b)
    BY <2>2, <1>a, FreshKnown, PendingKnown, CallKnown DEF OpenStep
  <2>4. SidesSound
    BY <1>a, <2>3
  <2>5. \A d \in Slots : d # c => HeldAlone(d) /\ LaterCallAlone(d)
    <3>1. \A d \in Slots : d # c => Kept(d, {})
      BY <1>a, <2>2, OpenCalls
    <3>2. {} \cap Later = {}
      OBVIOUS
    <3> QED
      BY <3>1, <3>2, Alone
  <2>6. calls[c].got[s] = None
    BY <1>a, <2>3 DEF OwnersSound
  <2>g. \A t \in Sides, e \in Blobs :
          /\ GotNow(c, s, url)[t] = BlobUrl(e) <=>
               IF t = s THEN url = BlobUrl(e) ELSE Holds(c, t, e)
          /\ url = BlobUrl(e) => e = b
    BY <1>a, <2>2, OpenForgets
  <2>h. \A e : ~Holds(c, s, e) \/ e \notin Blobs
    BY <2>6, UrlsKnown DEF Holds
  <2>7. CASE calls[c].todo # {s}
    <3>1. /\ compare' = compare /\ Pending(c)' /\ calls'[c].op = "open"
          /\ calls'[c].got = GotNow(c, s, url) /\ LaterCallAlone(c)
      BY <1>a, <2>2, <2>7, OpenCalls DEF OpenStep
    <3>2. \A t \in Sides, e \in Blobs : Holds(c, t, e)' <=>
            IF t = s THEN url = BlobUrl(e) ELSE Holds(c, t, e)
      BY <2>g, <3>1 DEF Holds
    <3>3. \A e \in Blobs : decoded'[e] = IF url = BlobUrl(b) /\ e = b THEN calls[c].images[s]
                                         ELSE decoded[e]
      BY <1>a, <2>2, <2>7, OpenDecoded
    <3>4. \A e \in Blobs : HeldBy(e) \/ (url = BlobUrl(b) /\ e = b) => HeldBy(e)'
      <4>1. ASSUME NEW e \in Blobs, HeldBy(e) PROVE HeldBy(e)'
        <5>1. PICK d \in Slots, t \in Sides : Holds(d, t, e)
          BY <4>1 DEF HeldBy
        <5>2. Holds(d, t, e)'
          BY <2>5, <2>h, <3>2, <5>1 DEF HeldAlone
        <5> QED
          BY <5>2 DEF HeldBy
      <4>2. url = BlobUrl(b) => HeldBy(b)'
        BY <3>2 DEF HeldBy
      <4> QED
        BY <4>1, <4>2
    <3>5. \A e \in Blobs : decoded'[e] # None =>
                             e = light'.owned \/ e \in compare.owned \/ HeldBy(e)'
      BY <2>3, <2>4, <3>3, <3>4, SidesKnown
    <3>6. /\ \A d \in Slots : Latest(d, {"side"})' =>
             /\ Latest(d, {"side"})
             /\ calls'[d].side = calls[d].side /\ calls'[d].previous = calls[d].previous
          /\ \A d \in Slots : Latest(d, {"open"})' => Latest(d, {"open"})
      BY <2>5, <3>1 DEF LaterCallAlone
    <3> QED
      BY <2>4, <3>1, <3>5, <3>6, SidesFrame
  <2>8. CASE calls[c].todo = {s}
    <3>1. /\ \A t, e : ~Holds(c, t, e)'
          /\ ~Latest(c, {"side"})' /\ ~Latest(c, {"open"})' /\ ~Latest(c, Later)'
      BY <1>a, <2>2, <2>8, OpenCalls
    <3>g. \A e \in Blobs : (\E t \in Sides : GotNow(c, s, url)[t] = BlobUrl(e)) <=>
            (url = BlobUrl(b) /\ e = b) \/ \E t \in Sides : t # s /\ Holds(c, t, e)
      BY <2>g
    <3>2. ASSUME NEW e \in Blobs, HeldBy(e)
          PROVE  HeldBy(e)' \/ \E t \in Sides : GotNow(c, s, url)[t] = BlobUrl(e)
      <4>1. PICK d \in Slots, t \in Sides : Holds(d, t, e)
        BY <3>2 DEF HeldBy
      <4>2. CASE d = c
        BY <2>h, <3>g, <4>1, <4>2
      <4>3. CASE d # c
        BY <2>5, <4>1, <4>3 DEF HeldAlone, HeldBy
      <4> QED
        BY <4>2, <4>3
    <3>3. CASE calls[c].stale
      <4>1. compare' = compare
        BY <2>2, <2>8, <3>3 DEF OpenStep
      <4>2. \A e \in Blobs : decoded'[e] =
              IF \E t \in Sides : GotNow(c, s, url)[t] = BlobUrl(e) THEN None ELSE decoded[e]
        BY <1>a, <2>2, <2>8, <3>3, OpenDecoded
      <4>3. \A e \in Blobs : decoded'[e] # None =>
                               e = light'.owned \/ e \in compare.owned \/ HeldBy(e)'
        BY <2>3, <2>4, <3>2, <4>2, SidesKnown
      <4>4. /\ \A d \in Slots : Latest(d, {"side"})' =>
               /\ Latest(d, {"side"})
               /\ calls'[d].side = calls[d].side /\ calls'[d].previous = calls[d].previous
            /\ \A d \in Slots : Latest(d, {"open"})' => Latest(d, {"open"})
        BY <2>5, <3>1 DEF LaterCallAlone
      <4> QED
        BY <2>4, <4>1, <4>3, <4>4, SidesFrame
    <3>4. CASE ~calls[c].stale
      <4>1. /\ compare'.owned = compare.owned \cup GotBlobs(c, s, url)
            /\ compare'.url = GotNow(c, s, url)
        BY <2>2, <2>8, <3>4, <1>a, ViewTypes DEF OpenStep, CompareType
      <4>2. Latest(c, {"open"}) /\ Latest(c, Later)
        BY <2>3, <3>4 DEF Latest, Later
      <4>3. \A d \in Slots : ~Latest(d, {"side"})' /\ ~Latest(d, {"open"})'
        BY <1>a, <2>5, <3>1, <4>2 DEF CompareSound, LaterCallAlone, Latest, Later
      <4>4. \A e \in Blobs : e \notin compare.owned
        BY <2>4, <4>2, UrlsKnown DEF SidesSound
      <4>5. \A e \in Blobs : e \in compare'.owned <=>
                               \E t \in Sides : compare'.url[t] = BlobUrl(e)
        BY <4>1, <4>4 DEF GotBlobs, BlobsOf
      <4>6. \A e \in Blobs : decoded'[e] = IF url = BlobUrl(b) /\ e = b THEN calls[c].images[s]
                                           ELSE decoded[e]
        BY <1>a, <2>2, <3>4, OpenDecoded
      <4>7. \A e \in Blobs : decoded'[e] # None =>
         \/ e = light'.owned
         \/ e \in compare'.owned
         \/ \E d \in Slots, t \in Sides : Holds(d, t, e)'
        <5> SUFFICES ASSUME NEW e \in Blobs, decoded'[e] # None
                     PROVE  e = light'.owned \/ e \in compare'.owned \/ HeldBy(e)'
          BY DEF HeldBy
        <5>1. (url = BlobUrl(b) /\ e = b) \/ decoded[e] # None
          BY <4>6
        <5>2. (url = BlobUrl(b) /\ e = b) \/ e = light.owned \/ HeldBy(e)
          BY <2>4, <4>4, <5>1, SidesKnown
        <5> QED
          BY <2>3, <3>2, <3>g, <4>1, <4>5, <5>2
      <4>8. \A e \in Blobs, t, u \in Sides :
              compare'.url[t] = BlobUrl(e) /\ compare'.url[u] = BlobUrl(e) => t = u
        <5> SUFFICES ASSUME NEW e \in Blobs, NEW t \in Sides, NEW u \in Sides,
                            compare'.url[t] = BlobUrl(e), compare'.url[u] = BlobUrl(e)
                     PROVE  t = u
          OBVIOUS
        <5>1. /\ IF t = s THEN e = b ELSE Holds(c, t, e)
              /\ IF u = s THEN e = b ELSE Holds(c, u, e)
          BY <2>g, <4>1
        <5> QED
          BY <1>a, <2>3, <5>1 DEF OwnersSound
      <4>9. \A e \in compare'.owned : \E t \in Sides : compare'.url[t] = BlobUrl(e)
        BY <4>5 DEF TypeOK
      <4> QED
        BY <4>3, <4>5, <4>7, <4>8, <4>9 DEF SidesSound
    <3> QED
      BY <3>3, <3>4
  <2> QED
    BY <2>7, <2>8
<1>6. ASSUME NEW c \in Slots, NEW i \in Images, NEW s \in Sides, SetCompareSide(s, i, c)
      PROVE  SidesSound'
  <2>1. /\ compare'.owned = compare.owned /\ compare'.url = compare.url /\ swapped' = swapped
        /\ decoded' = decoded /\ light' = light
    BY <1>6, <1>a, ViewTypes DEF SetCompareSide, CompareType
  <2>2. /\ ~Latest(c, {"open"})' /\ calls'[c].side = s /\ calls'[c].previous = compare.url[s]
        /\ \A d \in Slots : HeldAlone(d)
        /\ \A d \in Slots : d # c => ~Latest(d, {"side"})' /\ ~Latest(d, {"open"})'
    BY <1>6, <1>a, SideCalls
  <2>3. SidesSound
    BY <1>a, <2>1
  <2>4. \A b \in Blobs : decoded'[b] # None =>
         \/ b = light'.owned
         \/ b \in compare'.owned
         \/ \E d \in Slots, t \in Sides : Holds(d, t, b)'
    BY <2>1, <2>2, <2>3, SidesKnown, HeldKept DEF HeldBy
  <2>5. \A d \in Slots : Latest(d, {"side"})' => calls'[d].previous = compare'.url[calls'[d].side]
    BY <2>1, <2>2
  <2>6. \A d \in Slots : ~Latest(d, {"open"})'
    BY <2>2
  <2>7. /\ \A t \in Sides, b \in Blobs : compare'.url[t] = BlobUrl(b) => b \in compare'.owned
        /\ \A b \in compare'.owned : \E t \in Sides : compare'.url[t] = BlobUrl(b)
        /\ \A b \in Blobs, t, u \in Sides :
             compare'.url[t] = BlobUrl(b) /\ compare'.url[u] = BlobUrl(b) => t = u
    BY <2>1, <2>3 DEF SidesSound
  <2> QED
    BY <2>4, <2>5, <2>6, <2>7 DEF SidesSound
<1>7. ASSUME NEW c \in Slots, NEW i \in Images, NEW j \in Images, OpenCompare(i, j, c)
      PROVE  SidesSound'
  <2>1. /\ compare'.owned = compare.owned \ Released(BothUrls) /\ light' = light
        /\ decoded' = Revoke(decoded, Released(BothUrls)) /\ swapped' = swapped
        /\ \A s \in Sides : compare'.url[s] = None
    BY <1>7 DEF OpenCompare
  <2>2. /\ ~Pending(c)
        /\ \A d \in Slots : ~Latest(d, {"side"})'
        /\ \A d \in Slots : d # c => HeldAlone(d)
    BY <1>7, <1>a, BothCalls
  <2>3. SidesSound
    BY <1>a, <2>1
  <2>4. \A b \in Blobs : decoded'[b] = IF b \in compare.owned /\ OnSide(b) THEN None ELSE decoded[b]
    BY <1>a, <2>1, CompareReleased DEF OnSide
  <2>5. \A b \in Blobs : HeldBy(b) => HeldBy(b)'
    BY <2>2 DEF HeldBy, HeldAlone, Holds
  <2>6. \A b \in Blobs : decoded'[b] # None => b = light'.owned \/ HeldBy(b)'
    BY <2>1, <2>3, <2>4, <2>5, SidesKnown
  <2>7. compare'.owned \cap Blobs = {} /\ compare'.owned \subseteq Blobs
    BY <1>a, <2>1, <2>3, SidesKnown, CompareKnown, ReleasedKnown DEF OnSide
  <2> QED
    BY <2>1, <2>2, <2>6, <2>7, SidesEmpty
<1> QED
  BY <1>1, <1>2, <1>3, <1>4, <1>5, <1>6, <1>7, Steps

-----------------------------------------------------------------------------
(***************************************************************************)
(* The theorems.                                                           *)
(***************************************************************************)
LEMMA InitInv == Init => IInv
<1> SUFFICES ASSUME Init PROVE IInv
  OBVIOUS
<1>1. TypeOK
  BY InitType
<1>2. ListedIsAlive
  BY DEF Init, ListedIsAlive
<1>3. /\ light.image = None /\ light.url = None /\ light.owned = None /\ light.loading = FALSE
      /\ compare.owned = {} /\ compare.loading = FALSE
      /\ \A s \in Sides : compare.url[s] = None
      /\ \A c \in Slots : calls[c] = None
      /\ \A b \in Blobs : decoded[b] = None
  BY DEF Init, ClosedLight
<1>4. \A c \in Slots : ~Pending(c)
  BY <1>3 DEF Pending
<1>5. LightSound
  BY <1>3, <1>4, UrlsKnown DEF LightSound, Latest
<1>6. CompareSound
  BY <1>3, <1>4 DEF CompareSound, Latest
<1>7. OwnersSound
  BY <1>3, <1>4 DEF OwnersSound, Holds
<1>8. SidesSound
  BY <1>3, <1>4, UrlsKnown DEF SidesSound, Latest
<1> QED
  BY <1>1, <1>2, <1>5, <1>6, <1>7, <1>8 DEF IInv

LEMMA Invariant == Spec => []IInv
<1>1. Init => IInv
  BY InitInv
<1>2. IInv /\ [Next]_vars => IInv'
  <2> SUFFICES ASSUME IInv, [Next]_vars PROVE IInv'
    OBVIOUS
  <2>1. TypeOK'
    BY TypeStep DEF IInv
  <2>2. ListedIsAlive'
    BY ListedStep DEF IInv
  <2>3. LightSound' /\ CompareSound'
    BY LightStep, CompareStep
  <2>4. OwnersSound' /\ (swapped' \/ SidesSound')
    BY <2>1, OwnersStep, SidesStep
  <2> QED
    BY <2>1, <2>2, <2>3, <2>4 DEF IInv
<1> QED
  BY <1>1, <1>2, PTL DEF Spec

(* The state of the viewers keeps its types, whatever calls are under way. *)
THEOREM TypeCorrect == Spec => []TypeOK
<1>1. IInv => TypeOK
  BY DEF IInv
<1> QED
  BY <1>1, Invariant, PTL

(* No order in which the calls are answered leaks a decoded blob or        *)
(* revokes one that is on show, unless a loading side is swapped:          *)
(* setLightboxUrl, releaseCompareUrl and the stale branches revoke what    *)
(* nothing shows any more, and only that.                                  *)
THEOREM BlobsAreOnShow == Spec => []DecodedIsOnShow
<1>1. IInv => DecodedIsOnShow
  <2> SUFFICES ASSUME IInv, ~swapped
               PROVE  {b \in Blobs : decoded[b] # None} \ Delivered = OnShow
    BY DEF DecodedIsOnShow
  <2>1. TypeOK /\ LightSound /\ OwnersSound /\ SidesSound
    BY DEF IInv
  <2>2. \A b \in Blobs : b \in OnShow <=> light.url = BlobUrl(b) \/ OnSide(b)
    BY DEF OnShow, BlobsOf, BothUrls, OnSide
  <2>3. OnShow \subseteq Blobs
    BY DEF OnShow, BlobsOf
  <2>4. ASSUME NEW b \in Blobs PROVE b \in Delivered <=> HeldBy(b)
    <3>1. b \in Delivered <=>
            \E c \in {d \in Slots : Pending(d) /\ calls[d].op = "open"} :
              b \in BlobsOf({calls[c].got[s] : s \in Sides})
      BY DEF Delivered
    <3> QED
      BY <3>1 DEF HeldBy, Holds, BlobsOf
  <2>5. ASSUME NEW b \in Blobs PROVE light.url = BlobUrl(b) <=> b = light.owned
    BY <2>1, NoneApart DEF LightSound
  <2>6. ASSUME NEW b \in Blobs
        PROVE  decoded[b] # None /\ b \notin Delivered <=> b \in OnShow
    <3>1. b \in compare.owned <=> OnSide(b)
      BY <2>1, SidesKnown
    <3>2. decoded[b] # None => b = light.owned \/ b \in compare.owned \/ HeldBy(b)
      BY <2>1, SidesKnown
    <3>3. b \in compare.owned \/ b = light.owned => decoded[b] # None /\ ~HeldBy(b)
      BY <2>1, NoneApart DEF OwnersSound, LightSound, HeldBy
    <3> QED
      BY <2>2, <2>4, <2>5, <3>1, <3>2, <3>3
  <2> QED
    BY <2>3, <2>6
<1> QED
  BY <1>1, Invariant, PTL

(* Whatever the user moved past while files were being decoded, a lightbox *)
(* that neither loads nor awaits the URL of a video shows the image that   *)
(* was selected last, and its URL still works: a late loadFullImage finds  *)
(* its token outdated, and a session image's blob is not revoked while the *)
(* lightbox shows it.                                                      *)
THEOREM SelectedIsShown == Spec => []LightboxShowsSelected
<1>1. IInv => LightboxShowsSelected
  <2> SUFFICES ASSUME IInv, light.image # None, light.url # None, ~AwaitsVideo
               PROVE  /\ ImageOf(light.url) = light.image
                      /\ light.url.kind = "session" => light.image \in alive
    BY DEF LightboxShowsSelected
  <2>1. TypeOK /\ LightSound
    BY DEF IInv
  <2>2. CASE light.owned # None
    <3>1. /\ light.owned \in Blobs /\ light.url = BlobUrl(light.owned)
          /\ decoded[light.owned] = light.image
      BY <2>1, <2>2, LightKnown DEF LightSound
    <3> QED
      BY <3>1, UrlsKnown DEF ImageOf
  <2>3. CASE light.owned = None
    <3>1. \/ light.url = SessionUrl(light.image) /\ light.image \in alive
          \/ light.url = FileUrl(light.image)
      BY <2>1, <2>3 DEF LightSound
    <3>2. /\ SessionUrl(light.image).kind = "session" /\ SessionUrl(light.image).image = light.image
          /\ FileUrl(light.image).kind = "file" /\ FileUrl(light.image).image = light.image
      BY DEF SessionUrl, FileUrl
    <3> QED
      BY <3>1, <3>2 DEF ImageOf
  <2> QED
    BY <2>2, <2>3
<1> QED
  BY <1>1, Invariant, PTL

(* A viewer that shows its spinner has a call under way that will end it:  *)
(* the token never outlives the last call, however calls overlap.          *)
THEOREM SpinnerHasItsCall == Spec => []LoadingIsUnderWay
<1>1. IInv => LoadingIsUnderWay
  BY DEF IInv, LightSound, CompareSound, LoadingIsUnderWay, Latest
<1> QED
  BY <1>1, Invariant, PTL

(* Closing a viewer, deleting an image and a scan that misses one leave    *)
(* the blobs of the other images in the gallery alone.                     *)
THEOREM ListedStaysAlive == Spec => []ListedIsAlive
<1>1. IInv => ListedIsAlive
  BY DEF IInv
<1> QED
  BY <1>1, Invariant, PTL
=============================================================================
