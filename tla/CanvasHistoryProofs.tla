------------------------- MODULE CanvasHistoryProofs -------------------------
(***************************************************************************)
(* The entries of CanvasHistory bring back the documents they stand for,   *)
(* and with them the history implements LinearHistory, for any number of   *)
(* layers, contents, settings and any limit of the stacks, also when the   *)
(* keys are used in the middle of a gesture: what goes astray then are the *)
(* pixels of the layers an interrupted gesture painted on, and no others.  *)
(*                                                                         *)
(* The heart is the lemma InverseComesBack: what captureInverse saves      *)
(* before an entry is restored is enough to come back, whatever the entry  *)
(* holds.                                                                  *)
(***************************************************************************)
EXTENDS CanvasHistory, FiniteSetTheorems, FunctionTheorems, SequenceTheorems, TLAPS

(* A gesture that paints has its layer in the document. *)
StrokeInv(g, d) ==
  g # None => g \in Strokes /\ (g.how = "live" => g.layer \in d.list)

(* What every step keeps of the stacks: their limit, one document for each *)
(* entry, every copy accounted for.                                        *)
StackInv ==
  /\ doc \in Docs
  /\ undoStack \in Seq(HistoryEntry)
  /\ redoStack \in Seq(HistoryEntry)
  /\ past \in Seq(Docs) /\ Len(past) = Len(undoStack)
  /\ future \in Seq(Docs) /\ Len(future) = Len(redoStack)
  /\ StrokeInv(stroke, doc)
  /\ strayed \subseteq Spatial
  /\ Len(undoStack) + Len(redoStack) <= MaxHistory
  /\ CopiesAccounted

(* The invariant.  Its last conjunct is about a gesture that nothing has   *)
(* interrupted: the entry recorded when it began is still on top and saves *)
(* the layer.                                                              *)
IInv ==
  /\ StackInv
  /\ Linked(undoStack, past, doc, strayed)
  /\ Linked(redoStack, future, doc, strayed)
  /\ Open =>
       /\ stroke.layer \in doc.list
       /\ redoStack = <<>>
       /\ undoStack # <<>>
       /\ Top(undoStack).document = None
       /\ Top(undoStack).layers[stroke.layer] # None

-----------------------------------------------------------------------------
(* Documents and entries. *)

(* Restoring an entry over a document gives a document. *)
LEMMA RestoreIsDoc ==
  ASSUME NEW d \in Docs, NEW e \in HistoryEntry
  PROVE  Restore(d, e) \in Docs
<1> USE LayersAssumption
<1>1. CASE e.document = None
  BY <1>1 DEF Restore, RestoreLayers, Docs, HistoryEntry, Pixels
<1>2. CASE e.document # None
  <2> DEFINE r == RestoreDocument(d, e)
  <2>1. e.document.list \in SUBSET Layers /\ e.document.settings \in Settings
    BY <1>2 DEF HistoryEntry, DocumentState
  <2>2. r.pix \in Pixels /\ r.list = e.document.list /\ r.settings = e.document.settings
    BY DEF RestoreDocument, Docs, HistoryEntry, Pixels
  <2>3. \A l \in Spatial : r.pix[l] # None <=> l \in r.list
    BY DEF RestoreDocument, Docs, HistoryEntry, Pixels
  <2>4. r \in [list : SUBSET Layers, settings : Settings, pix : Pixels]
    BY <2>1, <2>2 DEF RestoreDocument
  <2> QED
    BY <1>2, <2>3, <2>4 DEF Restore, Docs
<1> QED
  BY <1>1, <1>2

(* What is captured is an entry. *)
LEMMA CaptureIsEntry ==
  ASSUME NEW d \in Docs, NEW ids
  PROVE  Capture(d, ids) \in HistoryEntry /\ CaptureDocument(d, ids) \in HistoryEntry
BY DEF Capture, CaptureDocument, PixelsOf, HistoryEntry, Docs, Pixels, DocumentState

LEMMA InverseIsEntry ==
  ASSUME NEW d \in Docs, NEW e \in HistoryEntry
  PROVE  CaptureInverse(d, e) \in HistoryEntry
BY CaptureIsEntry DEF CaptureInverse

(* Two documents with the same list, settings and pixels are the same.     *)
LEMMA SameDoc ==
  ASSUME NEW d \in Docs, NEW f \in Docs,
         d.list = f.list, d.settings = f.settings,
         \A l \in Spatial : d.pix[l] = f.pix[l]
  PROVE  d = f
<1>1. d.pix = f.pix
  BY DEF Docs, Pixels
<1> QED
  BY <1>1 DEF Docs

(* Undoing an entry can itself be undone, whatever the entry holds: the    *)
(* copies made before it is restored bring back every pixel it replaces    *)
(* and every layer it removes.                                             *)
LEMMA InverseComesBack ==
  ASSUME NEW d \in Docs, NEW e \in HistoryEntry
  PROVE  Restore(Restore(d, e), CaptureInverse(d, e)) = d
<1> DEFINE r == Restore(d, e)
           i == CaptureInverse(d, e)
           b == Restore(r, i)
<1>1. r \in Docs /\ i \in HistoryEntry /\ b \in Docs
  BY RestoreIsDoc, InverseIsEntry
<1> HIDE DEF r, i, b
<1>2. CASE e.document = None
  <2>1. i.document = None /\ i.layers = PixelsOf(d, SavedIn(e))
    BY <1>2 DEF CaptureInverse, Capture, i
  <2>2. r = RestoreLayers(d, e) /\ b = RestoreLayers(r, i)
    BY <1>2, <2>1 DEF Restore, r, b
  <2>3. b.list = d.list /\ b.settings = d.settings
    BY <2>2 DEF RestoreLayers, Docs
  <2>4. ASSUME NEW l \in Spatial PROVE b.pix[l] = d.pix[l]
    <3>1. r.pix[l] = IF d.pix[l] # None /\ e.layers[l] # None THEN e.layers[l] ELSE d.pix[l]
      BY <2>2 DEF RestoreLayers, Docs, Pixels
    <3>2. b.pix[l] = IF r.pix[l] # None /\ i.layers[l] # None THEN i.layers[l] ELSE r.pix[l]
      BY <2>2, <1>1 DEF RestoreLayers, Docs
    <3>3. i.layers[l] = IF e.layers[l] # None THEN d.pix[l] ELSE None
      BY <2>1 DEF PixelsOf, SavedIn
    <3> QED
      BY <3>1, <3>2, <3>3
  <2> QED
    BY <1>1, <2>3, <2>4, SameDoc DEF b, r, i
<1>3. CASE e.document # None
  <2> DEFINE ids == (d.list \ e.document.list) \cup SavedIn(e)
  <2>1. i = CaptureDocument(d, ids)
    BY <1>3 DEF CaptureInverse, i
  <2>2. /\ i.document = [list |-> d.list, settings |-> d.settings]
        /\ i.layers = PixelsOf(d, ids)
    BY <2>1 DEF CaptureDocument
  <2>3. i.document # None
    BY <2>2, LayersAssumption DEF Docs
  <2>4. r = RestoreDocument(d, e) /\ b = RestoreDocument(r, i)
    BY <1>3, <2>3 DEF Restore, r, b
  <2>5. b.list = d.list /\ b.settings = d.settings
    BY <2>2, <2>4 DEF RestoreDocument
  <2>6. ASSUME NEW l \in Spatial PROVE b.pix[l] = d.pix[l]
    <3>1. d.pix[l] # None <=> l \in d.list
      BY DEF Docs
    <3>2. b.pix[l] = CASE l \notin d.list -> None
                       [] l \in d.list /\ i.layers[l] # None -> i.layers[l]
                       [] OTHER -> IF r.pix[l] # None THEN r.pix[l] ELSE Blank
      BY <2>2, <2>4 DEF RestoreDocument
    <3>3. i.layers[l] = IF l \in ids THEN d.pix[l] ELSE None
      BY <2>2 DEF PixelsOf
    <3>4. CASE l \notin d.list
      BY <3>1, <3>2, <3>4
    <3>5. CASE l \in d.list /\ l \in ids
      BY <3>1, <3>2, <3>3, <3>5
    <3>6. CASE l \in d.list /\ l \notin ids
      <4>1. l \in e.document.list /\ e.layers[l] = None
        BY <3>6 DEF SavedIn
      <4>2. r.pix[l] = d.pix[l]
        BY <2>4, <3>1, <3>6, <4>1 DEF RestoreDocument
      <4> QED
        BY <3>1, <3>2, <3>3, <3>6, <4>2
    <3> QED
      BY <3>4, <3>5, <3>6
  <2> QED
    BY <1>1, <2>5, <2>6, SameDoc DEF b, r, i
<1> QED
  BY <1>2, <1>3

(* Documents that are alike but for the layers in S stay so when the same  *)
(* entry is restored over them.                                            *)
LEMMA AlikeRestored ==
  ASSUME NEW d \in Docs, NEW f \in Docs, NEW e \in HistoryEntry, NEW S, Alike(d, f, S)
  PROVE  Alike(Restore(d, e), Restore(f, e), S)
<1>1. CASE e.document = None
  BY <1>1 DEF Alike, Restore, RestoreLayers, Docs
<1>2. CASE e.document # None
  <2>1. /\ Restore(d, e) = RestoreDocument(d, e)
        /\ Restore(f, e) = RestoreDocument(f, e)
    BY <1>2 DEF Restore
  <2>2. ASSUME NEW l \in Spatial \ S
        PROVE  RestoreDocument(d, e).pix[l] = RestoreDocument(f, e).pix[l]
    BY DEF RestoreDocument, Alike
  <2> QED
    BY <2>1, <2>2 DEF RestoreDocument, Alike
<1> QED
  BY <1>1, <1>2

(* Likeness is reflexive and transitive, and holds but for more layers. *)
LEMMA AlikeOrder ==
  /\ \A d, S : Alike(d, d, S)
  /\ \A d, f, g, S : Alike(d, f, S) /\ Alike(f, g, S) => Alike(d, g, S)
  /\ \A d, f, S, T : Alike(d, f, S) /\ S \subseteq T => Alike(d, f, T)
BY DEF Alike

-----------------------------------------------------------------------------
(* The stacks. *)

(* How many elements fall off s when one is pushed. *)
Lost(s) == IF Len(s) < MaxHistory THEN 0 ELSE 1

(* Push appends to what is left of the stack when the oldest has fallen    *)
(* off.                                                                    *)
LEMMA PushIndexes ==
  ASSUME NEW S, NEW s \in Seq(S), NEW x \in S
  PROVE  /\ Lost(s) \in {0, 1}
         /\ Push(s, x) \in Seq(S)
         /\ Len(Push(s, x)) = Len(s) - Lost(s) + 1
         /\ Len(s) - Lost(s) \in Nat
         /\ \A i \in 1..(Len(s) - Lost(s)) : Push(s, x)[i] = s[i + Lost(s)]
         /\ Push(s, x)[Len(s) - Lost(s) + 1] = x
<1>1. CASE Len(s) < MaxHistory
  BY <1>1 DEF Push, Lost
<1>2. CASE ~(Len(s) < MaxHistory)
  <2>1. s # <<>>
    BY <1>2, HistoryAssumption
  <2>2. /\ Tail(s) \in Seq(S)
        /\ Len(Tail(s)) = Len(s) - 1
        /\ Len(s) - 1 \in Nat
        /\ \A i \in 1..(Len(s) - 1) : Tail(s)[i] = s[i + 1]
    BY <2>1
  <2> QED
    BY <1>2, <2>2 DEF Push, Lost
<1> QED
  BY <1>1, <1>2

LEMMA PopIndexes ==
  ASSUME NEW S, NEW s \in Seq(S), s # <<>>
  PROVE  /\ Pop(s) \in Seq(S)
         /\ Len(Pop(s)) = Len(s) - 1
         /\ \A i \in 1..(Len(s) - 1) : Pop(s)[i] = s[i]
         /\ Top(s) \in S
<1>1. Len(s) \in Nat /\ Len(s) >= 1 /\ Len(s) \in 1..Len(s)
  OBVIOUS
<1>2. \A i \in 1..Len(s) : s[i] \in S
  OBVIOUS
<1>3. Top(s) \in S
  BY <1>1, <1>2 DEF Top
<1>4. /\ SubSeq(s, 1, Len(s) - 1) \in Seq(S)
      /\ Len(SubSeq(s, 1, Len(s) - 1)) =
           IF 1 <= Len(s) - 1 THEN Len(s) - 1 - 1 + 1 ELSE 0
      /\ \A i \in 1..(Len(s) - 1 - 1 + 1) :
           SubSeq(s, 1, Len(s) - 1)[i] = s[1 + i - 1]
  <2>1. 1 \in Int /\ Len(s) - 1 \in Int /\ \A i \in 1..(Len(s) - 1) : s[i] \in S
    BY <1>1, <1>2
  <2> QED
    BY <2>1, SubSeqProperties
<1>5. Pop(s) \in Seq(S) /\ Len(Pop(s)) = Len(s) - 1
  <2> DEFINE p == SubSeq(s, 1, Len(s) - 1)
  <2>1. p \in Seq(S) /\ Len(p) = IF 1 <= Len(s) - 1 THEN Len(s) - 1 - 1 + 1 ELSE 0
    BY <1>4
  <2>2. Pop(s) = p
    BY DEF Pop
  <2> HIDE DEF p
  <2>3. Len(p) = Len(s) - 1
    <3>1. CASE Len(s) = 1
      BY <2>1, <3>1
    <3>2. CASE Len(s) # 1
      <4>1. 1 <= Len(s) - 1 /\ Len(s) \in Int
        <5>1. \A n \in Nat : n >= 1 /\ n # 1 => 1 <= n - 1 /\ n \in Int
          OBVIOUS
        <5> QED
          BY <1>1, <3>2, <5>1
      <4> QED
        BY <2>1, <4>1
    <3> QED
      BY <3>1, <3>2
  <2> QED
    BY <2>1, <2>2, <2>3
<1>6. ASSUME NEW i \in 1..(Len(s) - 1) PROVE Pop(s)[i] = s[i]
  <2>1. i \in 1..(Len(s) - 1 - 1 + 1) /\ 1 + i - 1 = i
    BY <1>1
  <2> QED
    BY <1>4, <2>1 DEF Pop
<1> QED
  BY <1>3, <1>5, <1>6

(* Popping what was just pushed leaves the stack, but for what fell off.   *)
LEMMA PopOfPush ==
  ASSUME NEW S, NEW s \in Seq(S), NEW x \in S
  PROVE  LET p == Pop(Push(s, x))
         IN /\ p \in Seq(S)
            /\ Len(p) = Len(s) - Lost(s)
            /\ \A i \in 1..Len(p) : p[i] = s[i + Lost(s)]
<1> DEFINE q == Push(s, x)
<1>1. /\ q \in Seq(S)
      /\ Len(q) = Len(s) - Lost(s) + 1
      /\ Len(s) - Lost(s) \in Nat
      /\ \A i \in 1..(Len(s) - Lost(s)) : q[i] = s[i + Lost(s)]
  BY PushIndexes
<1> HIDE DEF q
<1>2. q # <<>>
  BY <1>1
<1>3. /\ Pop(q) \in Seq(S)
      /\ Len(Pop(q)) = Len(q) - 1
      /\ \A i \in 1..(Len(q) - 1) : Pop(q)[i] = q[i]
  BY <1>1, <1>2, PopIndexes
<1> QED
  BY <1>1, <1>3 DEF q

(* An entry that brings back d from the new document continues the chain.  *)
LEMMA PushLinks ==
  ASSUME NEW s \in Seq(HistoryEntry), NEW ds \in Seq(Docs),
         NEW d \in Docs, NEW d2 \in Docs, NEW e \in HistoryEntry,
         NEW S, Linked(s, ds, d, S), Alike(Restore(d2, e), d, S)
  PROVE  Linked(Push(s, e), Push(ds, d), d2, S)
<1> DEFINE k == Lost(s)
           t == Push(s, e)
           ts == Push(ds, d)
<1>1. /\ Len(t) = Len(s) - k + 1
      /\ \A i \in 1..(Len(s) - k) : t[i] = s[i + k]
      /\ t[Len(s) - k + 1] = e
  BY PushIndexes
<1>2. Len(ds) = Len(s)
  BY DEF Linked
<1>0. Lost(ds) = Lost(s) /\ k \in {0, 1} /\ Len(s) \in Nat
  BY <1>2 DEF Lost
<1>3. /\ Len(ts) = Len(s) - k + 1
      /\ \A i \in 1..(Len(s) - k) : ts[i] = ds[i + k]
      /\ ts[Len(s) - k + 1] = d
      /\ Len(s) - k \in Nat
  <2>1. /\ Len(ts) = Len(ds) - Lost(ds) + 1
        /\ Len(ds) - Lost(ds) \in Nat
        /\ \A i \in 1..(Len(ds) - Lost(ds)) : ts[i] = ds[i + Lost(ds)]
        /\ ts[Len(ds) - Lost(ds) + 1] = d
    BY PushIndexes
  <2> HIDE DEF ts
  <2> QED
    BY <1>0, <1>2, <2>1
<1> HIDE DEF k, t, ts
<1>4. ASSUME NEW i \in 1..Len(t) PROVE Alike(Restore(Above(ts, i, d2), t[i]), ts[i], S)
  <2>1. CASE i = Len(s) - k + 1
    <3>1. Above(ts, i, d2) = d2
      BY <1>0, <1>3, <2>1 DEF Above
    <3>2. t[i] = e /\ ts[i] = d
      BY <1>1, <1>3, <2>1
    <3> QED
      BY <3>1, <3>2
  <2>2. CASE i = Len(s) - k /\ i # 0
    <3>1. Above(ts, i, d2) = d
      BY <1>0, <1>3, <2>2 DEF Above
    <3>2. i + k = Len(s) /\ i + k \in 1..Len(s)
      BY <1>0, <2>2, <1>3
    <3>3. Alike(Restore(Above(ds, i + k, d), s[i + k]), ds[i + k], S) /\ Above(ds, i + k, d) = d
      BY <1>0, <1>2, <3>2 DEF Linked, Above
    <3>4. t[i] = s[i + k] /\ ts[i] = ds[i + k]
      BY <1>0, <1>1, <1>3, <2>2
    <3> QED
      BY <3>1, <3>3, <3>4
  <2>3. CASE i < Len(s) - k
    <3>1. Above(ts, i, d2) = ts[i + 1] /\ ts[i + 1] = ds[i + k + 1]
      BY <1>0, <1>3, <2>3 DEF Above
    <3>2. i + k \in 1..Len(s) /\ i + k # Len(s)
      BY <1>0, <2>3, <1>3
    <3>3. Alike(Restore(Above(ds, i + k, d), s[i + k]), ds[i + k], S) /\ Above(ds, i + k, d) = ds[i + k + 1]
      BY <1>0, <1>2, <3>2 DEF Linked, Above
    <3>4. t[i] = s[i + k] /\ ts[i] = ds[i + k]
      BY <1>0, <1>1, <1>3, <2>3
    <3> QED
      BY <3>1, <3>3, <3>4
  <2> QED
    BY <1>0, <1>1, <1>3, <2>1, <2>2, <2>3
<1>5. Linked(t, ts, d2, S)
  BY <1>1, <1>3, <1>4 DEF Linked
<1> QED
  BY <1>5 DEF t, ts

(* Restoring the entry on top steps down the chain.                        *)
LEMMA PopLinks ==
  ASSUME NEW s \in Seq(HistoryEntry), NEW ds \in Seq(Docs), NEW d \in Docs,
         NEW S, Linked(s, ds, d, S), s # <<>>
  PROVE  /\ ds # <<>>
         /\ Alike(Restore(d, Top(s)), Top(ds), S)
         /\ Linked(Pop(s), Pop(ds), Top(ds), S)
<1>1. Len(ds) = Len(s) /\ Len(s) \in Nat /\ Len(s) >= 1
  BY DEF Linked
<1>2. ds # <<>>
  BY <1>1
<1>3. Alike(Restore(d, Top(s)), Top(ds), S)
  BY <1>1 DEF Linked, Above, Top
<1>4. /\ Len(Pop(s)) = Len(s) - 1 /\ \A i \in 1..(Len(s) - 1) : Pop(s)[i] = s[i]
      /\ Len(Pop(ds)) = Len(s) - 1 /\ \A i \in 1..(Len(s) - 1) : Pop(ds)[i] = ds[i]
  BY <1>1, <1>2, PopIndexes
<1>5. ASSUME NEW i \in 1..(Len(s) - 1)
      PROVE  Alike(Restore(Above(Pop(ds), i, Top(ds)), Pop(s)[i]), Pop(ds)[i], S)
  <2>1. i \in 1..Len(s) /\ i # Len(ds)
    BY <1>1
  <2>2. Alike(Restore(ds[i + 1], s[i]), ds[i], S)
    BY <2>1 DEF Linked, Above
  <2>3. Above(Pop(ds), i, Top(ds)) = ds[i + 1]
    <3>1. CASE i = Len(s) - 1
      BY <1>1, <1>4, <3>1 DEF Above, Top
    <3>2. CASE i # Len(s) - 1
      BY <1>1, <1>4, <3>2 DEF Above
    <3> QED
      BY <3>1, <3>2
  <2> QED
    BY <1>4, <2>2, <2>3
<1>6. Linked(Pop(s), Pop(ds), Top(ds), S)
  BY <1>1, <1>4, <1>5 DEF Linked
<1> QED
  BY <1>2, <1>3, <1>6

(* A chain that loses its first link is still one.                         *)
LEMMA RollBackLinks ==
  ASSUME NEW s \in Seq(HistoryEntry), NEW ds \in Seq(Docs), NEW d \in Docs,
         NEW e \in HistoryEntry, NEW S, Linked(s, ds, d, S)
  PROVE  Linked(Pop(Push(s, e)), Pop(Push(ds, d)), d, S)
<1> DEFINE k == Lost(s)
           t == Pop(Push(s, e))
           ts == Pop(Push(ds, d))
<1>1. Len(ds) = Len(s)
  BY DEF Linked
<1>0. Lost(ds) = Lost(s) /\ k \in {0, 1}
  BY <1>1 DEF Lost
<1>2. /\ Len(t) = Len(s) - k
      /\ \A i \in 1..Len(t) : t[i] = s[i + k]
  BY PopOfPush
<1>3. /\ Len(ts) = Len(s) - k
      /\ \A i \in 1..Len(ts) : ts[i] = ds[i + k]
      /\ ts \in Seq(Docs)
  BY <1>1, <1>0, PopOfPush
<1> HIDE DEF k, t, ts
<1>4. ASSUME NEW i \in 1..Len(t) PROVE Alike(Restore(Above(ts, i, d), t[i]), ts[i], S)
  <2>1. i + k \in 1..Len(s) /\ Len(s) \in Nat /\ k \in {0, 1}
    BY <1>0, <1>2
  <2>2. Alike(Restore(Above(ds, i + k, d), s[i + k]), ds[i + k], S)
    BY <2>1 DEF Linked
  <2>3. Above(ts, i, d) = Above(ds, i + k, d)
    <3>1. CASE i = Len(ts)
      BY <1>1, <1>3, <2>1, <3>1 DEF Above
    <3>2. CASE i # Len(ts)
      <4>1. i + 1 \in 1..Len(ts) /\ i + k # Len(ds)
        BY <1>1, <1>2, <1>3, <2>1, <3>2
      <4>2. ts[i + 1] = ds[i + k + 1]
        BY <1>3, <4>1, <2>1
      <4> QED
        BY <3>2, <4>1, <4>2 DEF Above
    <3> QED
      BY <3>1, <3>2
  <2> QED
    BY <1>2, <1>3, <2>2, <2>3
<1>5. Linked(t, ts, d, S)
  BY <1>2, <1>3, <1>4 DEF Linked
<1> QED
  BY <1>5 DEF t, ts

(* A chain holds for every document that is like the last one. *)
LEMMA LinkedToAlike ==
  ASSUME NEW s \in Seq(HistoryEntry), NEW ds \in Seq(Docs), NEW d \in Docs,
         NEW S, Linked(s, ds, d, S), NEW d2 \in Docs, Alike(d2, d, S)
  PROVE  Linked(s, ds, d2, S)
<1>1. Len(ds) = Len(s)
  BY DEF Linked
<1>2. ASSUME NEW i \in 1..Len(s) PROVE Alike(Restore(Above(ds, i, d2), s[i]), ds[i], S)
  <2>1. Alike(Restore(Above(ds, i, d), s[i]), ds[i], S)
    BY DEF Linked
  <2>2. CASE i = Len(ds)
    <3>1. Alike(Restore(d2, s[i]), Restore(d, s[i]), S)
      BY AlikeRestored
    <3> QED
      BY <2>1, <2>2, <3>1, AlikeOrder DEF Above
  <2>3. CASE i # Len(ds)
    BY <2>1, <2>3 DEF Above
  <2> QED
    BY <2>2, <2>3
<1> QED
  BY <1>1, <1>2 DEF Linked

(* ... and but for more layers. *)
LEMMA LinkedButFor ==
  ASSUME NEW s, NEW ds, NEW d, NEW S, NEW T, Linked(s, ds, d, S), S \subseteq T
  PROVE  Linked(s, ds, d, T)
BY AlikeOrder DEF Linked

-----------------------------------------------------------------------------
(* What the operations change. *)

(* An operation may change the list and the settings as it likes, and the  *)
(* pixels of the layers it has saved.                                      *)
LEMMA OperationComesBack ==
  ASSUME NEW d \in Docs, NEW d2 \in Docs, NEW ids,
         \A l \in Spatial : l \in d.list /\ l \notin ids => d2.pix[l] = d.pix[l]
  PROVE  Restore(d2, CaptureDocument(d, ids)) = d
<1> DEFINE e == CaptureDocument(d, ids)
           b == Restore(d2, e)
<1>1. /\ e.document = [list |-> d.list, settings |-> d.settings]
      /\ e.layers = PixelsOf(d, ids)
      /\ e \in HistoryEntry
  BY CaptureIsEntry DEF CaptureDocument
<1>2. e.document # None
  BY <1>1, LayersAssumption DEF Docs
<1> HIDE DEF e
<1>3. b = RestoreDocument(d2, e) /\ b \in Docs
  BY <1>1, <1>2, RestoreIsDoc DEF Restore
<1>4. b.list = d.list /\ b.settings = d.settings
  BY <1>1, <1>3 DEF RestoreDocument
<1>5. ASSUME NEW l \in Spatial PROVE b.pix[l] = d.pix[l]
  <2>1. d.pix[l] # None <=> l \in d.list
    BY DEF Docs
  <2>2. b.pix[l] = CASE l \notin d.list -> None
                     [] l \in d.list /\ e.layers[l] # None -> e.layers[l]
                     [] OTHER -> IF d2.pix[l] # None THEN d2.pix[l] ELSE Blank
    BY <1>1, <1>3 DEF RestoreDocument
  <2>3. e.layers[l] = IF l \in ids THEN d.pix[l] ELSE None
    BY <1>1 DEF PixelsOf
  <2>4. CASE l \notin d.list
    BY <2>1, <2>2, <2>4
  <2>5. CASE l \in d.list /\ l \in ids
    BY <2>1, <2>2, <2>3, <2>5
  <2>6. CASE l \in d.list /\ l \notin ids
    BY <2>1, <2>2, <2>3, <2>6
  <2> QED
    BY <2>4, <2>5, <2>6
<1>6. b = d
  <2> HIDE DEF b
  <2> QED
    BY <1>3, <1>4, <1>5, SameDoc
<1> QED
  BY <1>6 DEF e

(* Painting a layer leaves a document. *)
LEMMA PaintIsDoc ==
  ASSUME NEW d \in Docs, NEW l \in Spatial, l \in d.list, NEW c \in Contents
  PROVE  /\ [d EXCEPT !.pix[l] = c] \in Docs
         /\ Alike([d EXCEPT !.pix[l] = c], d, {l})
BY LayersAssumption DEF Docs, Pixels, Alike

(* The layer a gesture begins to paint on comes back. *)
LEMMA StrokeComesBack ==
  ASSUME NEW d \in Docs, NEW l \in Spatial, l \in d.list, NEW c \in Contents
  PROVE  Restore([d EXCEPT !.pix[l] = c], Capture(d, {l})) = d
<1> DEFINE d2 == [d EXCEPT !.pix[l] = c]
           e == Capture(d, {l})
           b == RestoreLayers(d2, e)
<1>1. e.document = None /\ e.layers = PixelsOf(d, {l}) /\ e \in HistoryEntry
  BY CaptureIsEntry DEF Capture
<1>2. /\ d2 \in Docs /\ d2.list = d.list /\ d2.settings = d.settings
      /\ \A k \in Spatial : d2.pix[k] = IF k = l THEN c ELSE d.pix[k]
  BY PaintIsDoc DEF Docs, Pixels
<1> HIDE DEF e, d2
<1>3. Restore(d2, e) = b /\ b \in Docs
  BY <1>1, <1>2, RestoreIsDoc DEF Restore
<1>4. b.list = d.list /\ b.settings = d.settings
  BY <1>2 DEF RestoreLayers, Docs
<1>5. ASSUME NEW k \in Spatial PROVE b.pix[k] = d.pix[k]
  <2>1. b.pix[k] = IF d2.pix[k] # None /\ e.layers[k] # None THEN e.layers[k] ELSE d2.pix[k]
    BY <1>2 DEF RestoreLayers, Docs
  <2>2. e.layers[k] = IF k = l THEN d.pix[k] ELSE None
    BY <1>1 DEF PixelsOf
  <2>3. d.pix[l] # None /\ c # None
    BY LayersAssumption DEF Docs
  <2> QED
    BY <1>2, <2>1, <2>2, <2>3
<1>6. b = d
  <2> HIDE DEF b
  <2> QED
    BY <1>3, <1>4, <1>5, SameDoc
<1> QED
  BY <1>3, <1>6 DEF e, d2

(* The chain still holds when a layer is painted that the entry on top has *)
(* saved.                                                                  *)
LEMMA PaintKeepsLinks ==
  ASSUME NEW s \in Seq(HistoryEntry), NEW ds \in Seq(Docs), NEW d \in Docs,
         NEW l \in Spatial, l \in d.list, NEW c \in Contents,
         NEW S, Linked(s, ds, d, S), s # <<>>,
         Top(s).document = None, Top(s).layers[l] # None
  PROVE  Linked(s, ds, [d EXCEPT !.pix[l] = c], S)
<1> DEFINE d2 == [d EXCEPT !.pix[l] = c]
           n == Len(s)
           e == Top(s)
<1>1. d2 \in Docs
  BY PaintIsDoc
<1>2. /\ d2.list = d.list /\ d2.settings = d.settings
      /\ \A k \in Spatial : d2.pix[k] = IF k = l THEN c ELSE d.pix[k]
  BY DEF Docs, Pixels
<1>3. n \in 1..n /\ Len(ds) = n /\ e = s[n] /\ e \in HistoryEntry
  <2>1. n \in 1..n /\ \A i \in 1..n : s[i] \in HistoryEntry
    OBVIOUS
  <2> QED
    BY <2>1 DEF Linked, Top
<1> HIDE DEF d2, e
<1>4. Restore(d2, e) = Restore(d, e)
  <2>1. Restore(d2, e) = RestoreLayers(d2, e) /\ Restore(d, e) = RestoreLayers(d, e)
    BY DEF Restore, e
  <2>2. Restore(d2, e) \in Docs /\ Restore(d, e) \in Docs
    BY <1>1, <1>3, RestoreIsDoc
  <2>3. /\ RestoreLayers(d2, e).list = RestoreLayers(d, e).list
        /\ RestoreLayers(d2, e).settings = RestoreLayers(d, e).settings
    BY <1>1, <1>2 DEF RestoreLayers, Docs
  <2>4. ASSUME NEW k \in Spatial
        PROVE  RestoreLayers(d2, e).pix[k] = RestoreLayers(d, e).pix[k]
    <3>1. RestoreLayers(d2, e).pix[k] =
            IF d2.pix[k] # None /\ e.layers[k] # None THEN e.layers[k] ELSE d2.pix[k]
      BY <1>1 DEF RestoreLayers, Docs
    <3>2. RestoreLayers(d, e).pix[k] =
            IF d.pix[k] # None /\ e.layers[k] # None THEN e.layers[k] ELSE d.pix[k]
      BY DEF RestoreLayers, Docs
    <3>3. c # None /\ (d.pix[l] # None)
      BY LayersAssumption DEF Docs
    <3>4. e.layers[l] # None
      BY DEF e
    <3> QED
      BY <1>2, <3>1, <3>2, <3>3, <3>4
  <2> QED
    BY <2>1, <2>2, <2>3, <2>4, SameDoc
<1>5. ASSUME NEW i \in 1..Len(s) PROVE Alike(Restore(Above(ds, i, d2), s[i]), ds[i], S)
  <2>1. Alike(Restore(Above(ds, i, d), s[i]), ds[i], S)
    BY DEF Linked
  <2>2. CASE i = n
    BY <1>3, <1>4, <2>1, <2>2 DEF Above
  <2>3. CASE i # n
    BY <1>3, <2>1, <2>3 DEF Above
  <2> QED
    BY <2>2, <2>3
<1>6. Linked(s, ds, d2, S)
  BY <1>3, <1>5 DEF Linked
<1> QED
  BY <1>6 DEF d2

-----------------------------------------------------------------------------
(* The copies the stacks hold. *)

(* The copies a stack holds, as cells: an entry and a layer it saves. *)
Cells(s) == {c \in (1..Len(s)) \X Spatial : s[c[1]].layers[c[2]] # None}

(* The cells of a stack are finitely many, and what CopiesIn counts.       *)
LEMMA CellsAreFinite ==
  ASSUME NEW s \in Seq(HistoryEntry)
  PROVE  IsFiniteSet(Cells(s)) /\ CopiesIn(s) = Cardinality(Cells(s)) /\ CopiesIn(s) \in Nat
<1>1. IsFiniteSet(1..Len(s))
  BY FS_Interval
<1>2. IsFiniteSet(Spatial)
  BY LayersAssumption, FS_Subset
<1>3. IsFiniteSet((1..Len(s)) \X Spatial)
  BY <1>1, <1>2, FS_Product
<1>4. Cells(s) \in SUBSET ((1..Len(s)) \X Spatial)
  BY DEF Cells
<1>5. IsFiniteSet(Cells(s))
  BY <1>3, <1>4, FS_Subset
<1>6. CopiesIn(s) = Cardinality(Cells(s))
  BY DEF CopiesIn, Cells
<1> QED
  BY <1>5, <1>6, FS_CardinalityType

(* The copies of one entry are counted in integers. *)
LEMMA EntryCopiesType ==
  ASSUME NEW e \in HistoryEntry
  PROVE  CopiesIn(<<e>>) \in Int
<1>1. <<e>> \in Seq(HistoryEntry)
  OBVIOUS
<1>2. CopiesIn(<<e>>) \in Nat
  BY <1>1, CellsAreFinite
<1> QED
  BY <1>2

(* The cells of an entry are as many wherever it stands in a stack. *)
LEMMA CellsOfEntry ==
  ASSUME NEW e \in HistoryEntry, NEW n \in Nat
  PROVE  /\ IsFiniteSet({n} \X SavedIn(e))
         /\ Cardinality({n} \X SavedIn(e)) = CopiesIn(<<e>>)
<1>1. IsFiniteSet(Spatial)
  BY LayersAssumption, FS_Subset
<1>2. IsFiniteSet(SavedIn(e))
  BY <1>1, FS_Subset DEF SavedIn
<1>3. ASSUME NEW k \in Nat
      PROVE  IsFiniteSet({k} \X SavedIn(e)) /\ Cardinality({k} \X SavedIn(e)) = Cardinality(SavedIn(e))
  <2>1. IsFiniteSet({k}) /\ Cardinality({k}) = 1
    BY FS_Singleton
  <2>2. /\ IsFiniteSet({k} \X SavedIn(e))
        /\ Cardinality({k} \X SavedIn(e)) = 1 * Cardinality(SavedIn(e))
    BY <1>2, <2>1, FS_Product
  <2>3. Cardinality(SavedIn(e)) \in Nat
    BY <1>2, FS_CardinalityType
  <2> QED
    BY <2>2, <2>3
<1>4. <<e>> \in Seq(HistoryEntry)
  OBVIOUS
<1>5. Cells(<<e>>) = {1} \X SavedIn(e)
  <2>1. <<e>>[1] = e /\ 1..Len(<<e>>) = {1}
    OBVIOUS
  <2>2. Cells(<<e>>) = {c \in {1} \X Spatial : e.layers[c[2]] # None}
    BY <2>1 DEF Cells
  <2> QED
    BY <2>2 DEF SavedIn
<1>6. CopiesIn(<<e>>) = Cardinality(SavedIn(e))
  <2>1. Cardinality({1} \X SavedIn(e)) = Cardinality(SavedIn(e))
    BY <1>3
  <2>2. CopiesIn(<<e>>) = Cardinality(Cells(<<e>>))
    BY <1>4, CellsAreFinite
  <2> QED
    BY <1>5, <2>1, <2>2
<1> QED
  BY <1>3, <1>6

(* A finite set split in two is as large as both parts together.           *)
LEMMA SumOfParts ==
  ASSUME NEW A, NEW B, IsFiniteSet(A), IsFiniteSet(B), A \cap B = {}
  PROVE  Cardinality(A \cup B) = Cardinality(A) + Cardinality(B)
<1>1. Cardinality(A) \in Nat /\ Cardinality(B) \in Nat
  BY FS_CardinalityType
<1>2. Cardinality(A \cup B) = Cardinality(A) + Cardinality(B) - 0
  BY FS_Union, FS_EmptySet
<1> QED
  BY <1>1, <1>2

(* The copies of a stack are those of its entries: appending, taking the   *)
(* newest away and letting the oldest fall off change their number by the  *)
(* number of that entry.                                                   *)
LEMMA CopiesOfAppend ==
  ASSUME NEW s \in Seq(HistoryEntry), NEW e \in HistoryEntry
  PROVE  CopiesIn(Append(s, e)) = CopiesIn(s) + CopiesIn(<<e>>)
<1> DEFINE t == Append(s, e)
           n == Len(s) + 1
<1>1. t \in Seq(HistoryEntry) /\ Len(t) = n /\ n \in Nat /\ t[n] = e
      /\ \A i \in 1..Len(s) : t[i] = s[i]
  OBVIOUS
<1>2. 1..n = (1..Len(s)) \cup {n} /\ n \notin 1..Len(s)
  OBVIOUS
<1> HIDE DEF t, n
<1>3. Cells(t) = Cells(s) \cup ({n} \X SavedIn(e))
  BY <1>1, <1>2 DEF Cells, SavedIn
<1>4. Cells(s) \cap ({n} \X SavedIn(e)) = {}
  BY <1>2 DEF Cells
<1>5. /\ IsFiniteSet({n} \X SavedIn(e))
      /\ Cardinality({n} \X SavedIn(e)) = CopiesIn(<<e>>)
  BY <1>1, CellsOfEntry
<1>6. IsFiniteSet(Cells(s)) /\ CopiesIn(s) = Cardinality(Cells(s)) 
  BY CellsAreFinite
<1>7. CopiesIn(t) = Cardinality(Cells(t))
  BY <1>1, CellsAreFinite
<1>8. Cardinality(Cells(t)) = Cardinality(Cells(s)) + Cardinality({n} \X SavedIn(e))
  BY <1>3, <1>4, <1>5, <1>6, SumOfParts
<1> QED
  BY <1>5, <1>6, <1>7, <1>8 DEF t

LEMMA CopiesOfPop ==
  ASSUME NEW s \in Seq(HistoryEntry), s # <<>>
  PROVE  CopiesIn(s) = CopiesIn(Pop(s)) + CopiesIn(<<Top(s)>>)
<1>1. /\ Pop(s) \in Seq(HistoryEntry) /\ Len(Pop(s)) = Len(s) - 1
      /\ \A i \in 1..(Len(s) - 1) : Pop(s)[i] = s[i]
      /\ Top(s) \in HistoryEntry
  BY PopIndexes
<1>2. Append(Pop(s), Top(s)) = s
  BY <1>1, AppendProperties, SeqEqual DEF Top
<1> QED
  BY <1>1, <1>2, CopiesOfAppend

LEMMA CopiesOfTail ==
  ASSUME NEW s \in Seq(HistoryEntry), s # <<>>
  PROVE  CopiesIn(s) = CopiesIn(<<Head(s)>>) + CopiesIn(Tail(s))
<1> DEFINE r == Tail(s)
           e == Head(s)
           Later == {c \in Cells(s) : c[1] # 1}
           f == [c \in Cells(r) |-> <<c[1] + 1, c[2]>>]
<1>1. /\ r \in Seq(HistoryEntry) /\ Len(r) = Len(s) - 1 /\ Len(s) \in Nat /\ Len(s) >= 1
      /\ \A i \in 1..Len(r) : r[i] = s[i + 1]
      /\ e = s[1] /\ e \in HistoryEntry
  OBVIOUS
<1> HIDE DEF r, e
<1>2. Cells(s) = ({1} \X SavedIn(e)) \cup Later
  BY <1>1 DEF Cells, SavedIn
<1>3. ({1} \X SavedIn(e)) \cap Later = {}
  OBVIOUS
<1>4. ASSUME NEW c \in Cells(r) PROVE <<c[1] + 1, c[2]>> \in Later
  <2>1. c[1] \in 1..Len(r) /\ c[2] \in Spatial /\ r[c[1]].layers[c[2]] # None
    BY DEF Cells
  <2>2. c[1] + 1 \in 1..Len(s) /\ c[1] + 1 # 1 /\ r[c[1]] = s[c[1] + 1]
    BY <1>1, <2>1
  <2> QED
    BY <2>1, <2>2 DEF Cells
<1>5. f \in [Cells(r) -> Later]
  BY <1>4
<1>6. ASSUME NEW c \in Cells(r), NEW d \in Cells(r), f[c] = f[d] PROVE c = d
  <2>1. c[1] \in 1..Len(r) /\ d[1] \in 1..Len(r) /\ c = <<c[1], c[2]>> /\ d = <<d[1], d[2]>>
    BY DEF Cells
  <2>2. c[1] + 1 = d[1] + 1 /\ c[2] = d[2]
    BY <1>6
  <2>3. c[1] = d[1]
    BY <1>1, <2>1, <2>2
  <2> QED
    BY <2>1, <2>2, <2>3
<1>7. ASSUME NEW d \in Later PROVE \E c \in Cells(r) : f[c] = d
  <2>1. d[1] \in 1..Len(s) /\ d[1] # 1 /\ d[2] \in Spatial /\ s[d[1]].layers[d[2]] # None
        /\ d = <<d[1], d[2]>>
    BY DEF Cells
  <2>2. d[1] - 1 \in 1..Len(r) /\ (d[1] - 1) + 1 = d[1] 
    BY <1>1, <2>1
  <2>3. r[d[1] - 1] = s[d[1]]
    BY <1>1, <2>2
  <2>4. <<d[1] - 1, d[2]>> \in Cells(r)
    BY <2>1, <2>2, <2>3 DEF Cells
  <2>5. f[<<d[1] - 1, d[2]>>] = d
    BY <2>1, <2>2, <2>4
  <2> QED
    BY <2>4, <2>5
<1> HIDE DEF f
<1>8. f \in Bijection(Cells(r), Later)
  BY <1>5, <1>6, <1>7, Fun_IsBij
<1>9. ExistsBijection(Cells(r), Later)
  BY <1>8 DEF ExistsBijection
<1>10. IsFiniteSet(Cells(r)) /\ CopiesIn(r) = Cardinality(Cells(r))
  BY <1>1, CellsAreFinite
<1>11. IsFiniteSet(Later) /\ Cardinality(Later) = CopiesIn(r)
  BY <1>9, <1>10, FS_Bijection
<1>12. IsFiniteSet({1} \X SavedIn(e)) /\ Cardinality({1} \X SavedIn(e)) = CopiesIn(<<e>>)
  BY <1>1, CellsOfEntry
<1> HIDE DEF Later
<1>13. Cardinality(Cells(s)) = CopiesIn(<<e>>) + CopiesIn(r)
  BY <1>2, <1>3, <1>11, <1>12, SumOfParts
<1> QED
  BY <1>13, CellsAreFinite DEF r, e

LEMMA CopiesOfPush ==
  ASSUME NEW s \in Seq(HistoryEntry), NEW e \in HistoryEntry
  PROVE  /\ CopiesIn(Push(s, e)) = CopiesIn(s) - Dropped(s) + CopiesIn(<<e>>)
         /\ Dropped(s) \in Int
<1>1. CopiesIn(s) \in Nat 
  BY CellsAreFinite
<1>2. CASE Len(s) < MaxHistory
  BY <1>1, <1>2, CopiesOfAppend DEF Push, Dropped
<1>3. CASE ~(Len(s) < MaxHistory)
  <2>1. s # <<>> 
    BY <1>3, HistoryAssumption
  <2>2. Tail(s) \in Seq(HistoryEntry) /\ Head(s) \in HistoryEntry
    BY <2>1
  <2>3. CopiesIn(s) = CopiesIn(<<Head(s)>>) + CopiesIn(Tail(s))
    BY <2>1, CopiesOfTail
  <2>4. CopiesIn(Push(s, e)) = CopiesIn(Tail(s)) + CopiesIn(<<e>>)
    BY <1>3, <2>2, CopiesOfAppend DEF Push
  <2>5. CopiesIn(Tail(s)) \in Nat
    BY <2>2, CellsAreFinite
  <2>6. CopiesIn(<<Head(s)>>) \in Int /\ CopiesIn(<<e>>) \in Int
    BY <2>2, EntryCopiesType
  <2>7. Dropped(s) = CopiesIn(<<Head(s)>>)
    BY <1>3 DEF Dropped
  <2> QED
    BY <2>3, <2>4, <2>5, <2>6, <2>7
<1> QED
  BY <1>2, <1>3

(* An empty stack holds none. *)
LEMMA NoCopies == CopiesIn(<<>>) = 0
<1>1. Cells(<<>>) = {} /\ <<>> \in Seq(HistoryEntry)
  BY DEF Cells
<1> QED
  BY <1>1, CellsAreFinite, FS_EmptySet

-----------------------------------------------------------------------------
(* What every step keeps of the stacks. *)

LEMMA StackInvLengths ==
  ASSUME StackInv
  PROVE  /\ Len(undoStack) \in Nat /\ Len(redoStack) \in Nat
         /\ CopiesIn(undoStack) \in Nat /\ CopiesIn(redoStack) \in Nat
         /\ copies = CopiesIn(undoStack) + CopiesIn(redoStack)
BY CellsAreFinite DEF StackInv, CopiesAccounted

(* Recording an entry keeps StackInv. *)
LEMMA RecordStacks ==
  ASSUME StackInv, NEW e \in HistoryEntry, Record(e), doc' \in Docs,
         StrokeInv(stroke', doc'), strayed' \subseteq Spatial
  PROVE  StackInv'
<1>1. /\ undoStack' = Push(undoStack, e) /\ past' = Push(past, doc)
      /\ redoStack' = <<>> /\ future' = <<>>
      /\ copies' = copies - Dropped(undoStack) - CopiesIn(redoStack) + CopiesIn(<<e>>)
  BY DEF Record
<1>2. /\ undoStack' \in Seq(HistoryEntry) /\ past' \in Seq(Docs)
      /\ Len(undoStack') = Len(undoStack) - Lost(undoStack) + 1
      /\ Len(past') = Len(undoStack')
      /\ Lost(undoStack) \in {0, 1}
  <2>1. /\ undoStack' \in Seq(HistoryEntry)
        /\ Len(undoStack') = Len(undoStack) - Lost(undoStack) + 1
        /\ Lost(undoStack) \in {0, 1}
    BY <1>1, PushIndexes DEF StackInv
  <2>2. past' \in Seq(Docs) /\ Len(past') = Len(past) - Lost(past) + 1
    BY <1>1, PushIndexes DEF StackInv
  <2>3. Lost(past) = Lost(undoStack) /\ Len(past) = Len(undoStack)
    BY DEF StackInv, Lost
  <2> QED
    BY <2>1, <2>2, <2>3
<1>3. Len(undoStack') <= MaxHistory
  BY <1>2, StackInvLengths, HistoryAssumption DEF StackInv, Lost
<1>4. CopiesIn(<<e>>) \in Int
  BY EntryCopiesType
<1>5. CopiesIn(undoStack') = CopiesIn(undoStack) - Dropped(undoStack) + CopiesIn(<<e>>)
      /\ Dropped(undoStack) \in Int
  BY <1>1, CopiesOfPush DEF StackInv
<1>6. CopiesIn(redoStack') = 0
  BY <1>1, NoCopies
<1>7. CopiesAccounted'
  BY <1>1, <1>4, <1>5, <1>6, StackInvLengths DEF CopiesAccounted
<1>8. Len(undoStack') + Len(redoStack') <= MaxHistory
  BY <1>1, <1>2, <1>3
<1> QED
  BY <1>1, <1>2, <1>7, <1>8 DEF StackInv

(* A gesture that is interrupted is so for good, and what paints still has *)
(* its layer if the layers that are gone are among the replaced ones.      *)
LEMMA InterruptedStroke ==
  ASSUME StackInv, NEW d2, NEW replaced, doc.list \cap Spatial \subseteq d2.list \cup replaced
  PROVE  /\ StrokeInv(Interrupted(replaced), d2)
         /\ Interrupted(replaced) # None => Interrupted(replaced).recorded = FALSE
<1>1. CASE stroke = None
  BY <1>1 DEF Interrupted, StrokeInv
<1>2. CASE stroke # None
  <2> DEFINE g == Interrupted(replaced)
  <2>1. /\ stroke \in Strokes
        /\ stroke.how = "live" => stroke.layer \in doc.list
    BY <1>2 DEF StackInv, StrokeInv
  <2>2. g = [stroke EXCEPT !.recorded = FALSE,
               !.how = IF @ = "live" /\ stroke.layer \in replaced THEN "cut" ELSE @]
    BY <1>2 DEF Interrupted
  <2> HIDE DEF g
  <2>3. /\ g \in Strokes /\ g.recorded = FALSE /\ g.layer = stroke.layer
        /\ g.how = "live" => stroke.how = "live" /\ stroke.layer \notin replaced
    BY <2>1, <2>2 DEF Strokes
  <2>4. stroke.layer \in Spatial
    BY <2>1 DEF Strokes
  <2> QED
    BY <2>1, <2>3, <2>4 DEF StrokeInv, g
<1> QED
  BY <1>1, <1>2

(* The layers that are gone when an entry is restored are replaced ones.   *)
LEMMA RestoreReplaces ==
  ASSUME NEW d \in Docs, NEW e \in HistoryEntry
  PROVE  d.list \cap Spatial \subseteq Restore(d, e).list \cup Replaced(e)
BY DEF Restore, RestoreLayers, RestoreDocument, Replaced, Docs

(* The layers an operation takes away are among those it replaces. *)
LEMMA OperationStacks ==
  ASSUME StackInv, NEW ids, NEW d2 \in Docs, NEW replaced, Operation(ids, d2, replaced),
         doc.list \cap Spatial \subseteq d2.list \cup replaced
  PROVE  StackInv'
<1>1. doc \in Docs /\ CaptureDocument(doc, ids) \in HistoryEntry
  BY CaptureIsEntry DEF StackInv
<1>2. StrokeInv(stroke', doc') /\ strayed' \subseteq Spatial
  BY InterruptedStroke DEF Operation, StackInv
<1> QED
  BY <1>1, <1>2, RecordStacks DEF Operation

(* What painting keeps of the stacks. *)
LEMMA PaintedStacks ==
  ASSUME StackInv, NEW l \in Spatial, l \in doc.list, NEW c \in Contents, Painted(l, c),
         StrokeInv(stroke', doc)
  PROVE  StackInv'
<1>1. doc \in Docs
  BY DEF StackInv
<1>2. doc' \in Docs /\ doc'.list = doc.list
  BY <1>1, PaintIsDoc DEF Painted, Alike
<1>3. StrokeInv(stroke', doc')
  BY <1>2 DEF StrokeInv
<1>4. strayed' \subseteq Spatial
  BY DEF Painted, StackInv
<1> QED
  BY <1>2, <1>3, <1>4 DEF Painted, StackInv, CopiesAccounted

(* The entry on top of s is restored, and its inverse i pushed on t.       *)
RestoredStacks(s, ds, t, ts, d, i) ==
  /\ Pop(s) \in Seq(HistoryEntry) /\ Pop(ds) \in Seq(Docs)
  /\ Len(Pop(ds)) = Len(Pop(s))
  /\ Push(t, i) \in Seq(HistoryEntry) /\ Push(ts, d) \in Seq(Docs)
  /\ Len(Push(ts, d)) = Len(Push(t, i))
  /\ Len(Pop(s)) + Len(Push(t, i)) <= MaxHistory
  /\ CopiesIn(Pop(s)) + CopiesIn(Push(t, i)) =
       (CopiesIn(s) + CopiesIn(t)) - Dropped(t) + CopiesIn(<<i>>) - CopiesIn(<<Top(s)>>)

(* The stacks after the entry on top of s was restored. *)
LEMMA RestoreStacks ==
  ASSUME NEW s \in Seq(HistoryEntry), NEW ds \in Seq(Docs), Len(ds) = Len(s),
         NEW t \in Seq(HistoryEntry), NEW ts \in Seq(Docs), Len(ts) = Len(t),
         NEW d \in Docs, NEW i \in HistoryEntry,
         s # <<>>, Len(s) + Len(t) <= MaxHistory
  PROVE  RestoredStacks(s, ds, t, ts, d, i)
<1>1. Len(s) \in Nat /\ Len(t) \in Nat /\ Len(s) # 0 /\ ds # <<>>
  OBVIOUS
<1>2. Pop(s) \in Seq(HistoryEntry) /\ Len(Pop(s)) = Len(s) - 1 /\ Top(s) \in HistoryEntry
  BY PopIndexes
<1>3. Pop(ds) \in Seq(Docs) /\ Len(Pop(ds)) = Len(s) - 1
  BY <1>1, PopIndexes
<1>4. Lost(t) = 0 /\ Lost(ts) = 0
  BY <1>1, HistoryAssumption DEF Lost
<1>5. Push(t, i) \in Seq(HistoryEntry) /\ Len(Push(t, i)) = Len(t) + 1
  <2>1. Push(t, i) \in Seq(HistoryEntry) /\ Len(Push(t, i)) = Len(t) - Lost(t) + 1
    BY PushIndexes
  <2> QED
    BY <1>1, <1>4, <2>1
<1>6. Push(ts, d) \in Seq(Docs) /\ Len(Push(ts, d)) = Len(t) + 1
  <2>1. Push(ts, d) \in Seq(Docs) /\ Len(Push(ts, d)) = Len(ts) - Lost(ts) + 1
    BY PushIndexes
  <2> QED
    BY <1>1, <1>4, <2>1
<1>7. CopiesIn(s) = CopiesIn(Pop(s)) + CopiesIn(<<Top(s)>>)
  BY CopiesOfPop
<1>8. /\ CopiesIn(Push(t, i)) = CopiesIn(t) - Dropped(t) + CopiesIn(<<i>>)
      /\ Dropped(t) \in Int
  BY CopiesOfPush
<1>9. /\ CopiesIn(Pop(s)) \in Nat /\ CopiesIn(t) \in Nat
      /\ CopiesIn(<<i>>) \in Int /\ CopiesIn(<<Top(s)>>) \in Int
  BY <1>2, CellsAreFinite, EntryCopiesType
<1>10. Len(Pop(s)) + Len(Push(t, i)) <= MaxHistory
  BY <1>1, <1>2, <1>5, HistoryAssumption
<1>11. CopiesIn(Pop(s)) + CopiesIn(Push(t, i)) =
         (CopiesIn(s) + CopiesIn(t)) - Dropped(t) + CopiesIn(<<i>>) - CopiesIn(<<Top(s)>>)
  BY <1>7, <1>8, <1>9
<1> QED
  BY <1>2, <1>3, <1>5, <1>6, <1>10, <1>11 DEF RestoredStacks

LEMMA NextStackInv ==
  ASSUME StackInv, [Next]_vars
  PROVE  StackInv'
<1>0. doc \in Docs
  BY DEF StackInv
<1>1. ASSUME NEW l \in Spatial, NEW how \in {"live", "shape"}, NEW c \in Contents,
             BeginStroke(l, how, c)
      PROVE  StackInv'
  <2>1. Capture(doc, {l}) \in HistoryEntry
    BY <1>0, CaptureIsEntry
  <2>2. /\ doc' \in Docs /\ doc'.list = doc.list
        /\ stroke' = [layer |-> l, how |-> how, recorded |-> TRUE] /\ l \in doc.list
    BY <1>0, <1>1, PaintIsDoc DEF BeginStroke, Alike
  <2>3. StrokeInv(stroke', doc')
    BY <2>2 DEF StrokeInv, Strokes
  <2> QED
    BY <1>1, <2>1, <2>2, <2>3, RecordStacks DEF BeginStroke, StackInv
<1>2. ASSUME NEW c \in Contents, MoveStroke(c) PROVE StackInv'
  <2>1. stroke.layer \in Spatial /\ stroke.layer \in doc.list /\ StrokeInv(stroke', doc)
    BY <1>2 DEF MoveStroke, StackInv, StrokeInv, Strokes
  <2> QED
    BY <1>2, <2>1, PaintedStacks DEF MoveStroke
<1>15. ASSUME NEW l \in Spatial, NEW c \in Contents, DrawShape(l, c) PROVE StackInv'
  BY <1>15, PaintedStacks DEF DrawShape, StrokeInv
<1>3. ASSUME EndStroke PROVE StackInv'
  BY <1>3 DEF EndStroke, StackInv, StrokeInv, CopiesAccounted
<1>4. ASSUME NEW s \in Settings, EditSettings(s) PROVE StackInv'
  <2>1. [doc EXCEPT !.settings = s] \in Docs /\ [doc EXCEPT !.settings = s].list = doc.list
    BY <1>0 DEF Docs
  <2> QED
    BY <1>4, <2>1, OperationStacks DEF EditSettings
<1>5. ASSUME NEW l \in Layers, l \notin doc.list, NEW c,
             l \in Spatial => c \in Contents
      PROVE  WithLayer(doc, l, c) \in Docs /\ doc.list \subseteq WithLayer(doc, l, c).list
  BY <1>0, <1>5, LayersAssumption DEF WithLayer, Docs, Pixels
<1>6. ASSUME NEW l \in Layers, AddLayer(l) PROVE StackInv'
  <2>1. WithLayer(doc, l, Blank) \in Docs /\ doc.list \subseteq WithLayer(doc, l, Blank).list
    BY <1>5, <1>6, LayersAssumption DEF AddLayer
  <2> QED
    BY <1>6, <2>1, OperationStacks DEF AddLayer
<1>7. ASSUME NEW l \in Layers, NEW n \in Layers, DuplicateLayer(l, n) PROVE StackInv'
  <2> DEFINE c == IF l \in Spatial THEN doc.pix[l] ELSE None
  <2>1. /\ l \in doc.list /\ n \notin doc.list /\ (l \in Spatial <=> n \in Spatial)
        /\ Operation({}, WithLayer(doc, n, c), {})
    BY <1>7 DEF DuplicateLayer
  <2>2. n \in Spatial => c \in Contents
    BY <1>0, <2>1 DEF Docs, Pixels
  <2> HIDE DEF c
  <2>3. WithLayer(doc, n, c) \in Docs /\ doc.list \subseteq WithLayer(doc, n, c).list
    BY <1>5, <2>1, <2>2
  <2> QED
    BY <2>1, <2>3, OperationStacks
<1>8. ASSUME NEW l \in Layers, RemoveLayer(l) PROVE StackInv'
  <2>1. /\ WithoutLayer(doc, l) \in Docs
        /\ doc.list \cap Spatial \subseteq WithoutLayer(doc, l).list \cup {l}
    BY <1>0 DEF WithoutLayer, Docs, Pixels
  <2> QED
    BY <1>8, <2>1, OperationStacks DEF RemoveLayer
<1>9. ASSUME NEW l \in Layers, NEW c \in Contents, NEW replaced \in SUBSET Spatial,
             RepaintLayer(l, c, replaced)
      PROVE  StackInv'
  <2>1. l \in Spatial /\ l \in doc.list
    BY <1>9 DEF RepaintLayer
  <2>2. [doc EXCEPT !.pix[l] = c] \in Docs /\ [doc EXCEPT !.pix[l] = c].list = doc.list
    BY <1>0, <2>1, PaintIsDoc DEF Alike
  <2> QED
    BY <1>9, <2>2, OperationStacks DEF RepaintLayer
<1>10. ASSUME NEW s \in Settings, NEW q \in Pixels, NEW replaced \in SUBSET Spatial,
              ResizeDocument(s, q, replaced)
       PROVE  StackInv'
  <2>1. [doc EXCEPT !.settings = s, !.pix = q].list = doc.list
    BY <1>0 DEF Docs
  <2> QED
    BY <1>10, <2>1, OperationStacks DEF ResizeDocument
<1>11. ASSUME NEW half \in Docs, ResizeFails(half) PROVE StackInv'
  <2>1. PICK e \in HistoryEntry :
           /\ undoStack' = Pop(Push(undoStack, e)) /\ past' = Pop(Push(past, doc))
           /\ redoStack' = <<>> /\ future' = <<>>
           /\ doc' = Restore(half, e) /\ stroke' = Interrupted(Replaced(e))
           /\ copies' = copies - Dropped(undoStack) - CopiesIn(redoStack)
    BY <1>0, <1>11, CaptureIsEntry DEF ResizeFails, RecordAndRollBack
  <2>10. doc' \in Docs /\ StrokeInv(stroke', doc') /\ strayed' \subseteq Spatial
    <3>1. doc' \in Docs /\ half.list = doc.list
      BY <1>11, <2>1, RestoreIsDoc DEF ResizeFails
    <3>2. doc.list \cap Spatial \subseteq doc'.list \cup Replaced(e)
      BY <2>1, <3>1, RestoreReplaces
    <3> QED
      BY <1>11, <2>1, <3>1, <3>2, InterruptedStroke DEF ResizeFails, StackInv
  <2>2. /\ undoStack' \in Seq(HistoryEntry) /\ past' \in Seq(Docs)
        /\ Len(undoStack') = Len(undoStack) - Lost(undoStack)
        /\ Len(past') = Len(undoStack')
        /\ Lost(undoStack) \in {0, 1}
    <3>1. /\ undoStack' \in Seq(HistoryEntry)
          /\ Len(undoStack') = Len(undoStack) - Lost(undoStack)
      BY <2>1, PopOfPush DEF StackInv
    <3>2. past' \in Seq(Docs) /\ Len(past') = Len(past) - Lost(past)
      BY <1>0, <2>1, PopOfPush DEF StackInv
    <3>3. /\ Lost(past) = Lost(undoStack) /\ Len(past) = Len(undoStack)
          /\ Lost(undoStack) \in {0, 1}
      BY DEF StackInv, Lost
    <3> QED
      BY <3>1, <3>2, <3>3
  <2>3. Len(undoStack') + Len(redoStack') <= MaxHistory
    BY <2>1, <2>2, StackInvLengths, HistoryAssumption DEF StackInv
  <2> DEFINE q == Push(undoStack, e)
  <2>4. q \in Seq(HistoryEntry) /\ q # <<>> /\ Top(q) = e
    <3>1. /\ q \in Seq(HistoryEntry) /\ Len(undoStack) - Lost(undoStack) \in Nat
          /\ Len(q) = Len(undoStack) - Lost(undoStack) + 1
          /\ q[Len(undoStack) - Lost(undoStack) + 1] = e
      BY PushIndexes DEF StackInv
    <3> QED
      BY <3>1 DEF Top
  <2>5. CopiesIn(q) = CopiesIn(undoStack) - Dropped(undoStack) + CopiesIn(<<e>>)
        /\ Dropped(undoStack) \in Int
    BY CopiesOfPush DEF StackInv
  <2> HIDE DEF q
  <2>6. CopiesIn(q) = CopiesIn(Pop(q)) + CopiesIn(<<e>>)
    BY <2>4, CopiesOfPop
  <2>7. CopiesIn(redoStack') = 0 /\ CopiesIn(<<e>>) \in Int
    BY <2>1, NoCopies, EntryCopiesType
  <2>8. undoStack' = Pop(q) /\ CopiesIn(undoStack') \in Nat
    BY <2>1, <2>2, CellsAreFinite DEF q
  <2>9. CopiesAccounted'
    BY <2>1, <2>5, <2>6, <2>7, <2>8, StackInvLengths DEF CopiesAccounted
  <2> QED
    BY <2>1, <2>2, <2>3, <2>9, <2>10 DEF StackInv
<1>12. ASSUME NEW d \in Docs, NEW keeps \in BOOLEAN, ClearHistory(d, keeps) PROVE StackInv'
  <2>1. /\ undoStack' = <<>> /\ redoStack' = <<>> /\ past' = <<>> /\ future' = <<>>
        /\ doc' = d /\ strayed' = {}
        /\ copies' = copies - CopiesIn(undoStack) - CopiesIn(redoStack)
    BY <1>12 DEF ClearHistory
  <2>2. CopiesAccounted'
    BY <2>1, NoCopies, StackInvLengths DEF CopiesAccounted
  <2>3. StrokeInv(stroke', doc')
    <3>1. doc.list \cap Spatial \subseteq d.list \cup (IF keeps THEN Spatial \ d.list ELSE Spatial)
      OBVIOUS
    <3> QED
      BY <1>12, <2>1, <3>1, InterruptedStroke DEF ClearHistory
  <2> QED
    BY <2>1, <2>2, <2>3, HistoryAssumption DEF StackInv
<1>13. ASSUME Undo PROVE StackInv'
  <2>1. PICK i : i = CaptureInverse(doc, Top(undoStack))
    OBVIOUS
  <2>2. /\ stroke' = Interrupted(Replaced(Top(undoStack))) /\ undoStack # <<>> /\ strayed' = strayed
        /\ redoStack' = Push(redoStack, i) /\ undoStack' = Pop(undoStack)
        /\ doc' = Restore(doc, Top(undoStack))
        /\ copies' = copies - Dropped(redoStack) + CopiesIn(<<i>>) - CopiesIn(<<Top(undoStack)>>)
        /\ past' = Pop(past) /\ future' = Push(future, doc)
    BY <1>13, <2>1 DEF Undo
  <2>3. Top(undoStack) \in HistoryEntry
    BY <2>2, PopIndexes DEF StackInv
  <2>4. i \in HistoryEntry /\ doc' \in Docs
    BY <1>0, <2>1, <2>2, <2>3, InverseIsEntry, RestoreIsDoc
  <2>8. StrokeInv(stroke', doc') /\ strayed' \subseteq Spatial
    BY <1>0, <2>2, <2>3, RestoreReplaces, InterruptedStroke DEF StackInv
  <2>5. /\ undoStack' \in Seq(HistoryEntry) /\ past' \in Seq(Docs)
        /\ Len(past') = Len(undoStack')
        /\ redoStack' \in Seq(HistoryEntry) /\ future' \in Seq(Docs)
        /\ Len(future') = Len(redoStack')
        /\ Len(undoStack') + Len(redoStack') <= MaxHistory
        /\ CopiesIn(undoStack') + CopiesIn(redoStack') = copies'
    <3>1. /\ undoStack \in Seq(HistoryEntry) /\ past \in Seq(Docs) /\ Len(past) = Len(undoStack)
          /\ redoStack \in Seq(HistoryEntry) /\ future \in Seq(Docs)
          /\ Len(future) = Len(redoStack)
          /\ Len(undoStack) + Len(redoStack) <= MaxHistory
          /\ copies = CopiesIn(undoStack) + CopiesIn(redoStack)
      BY DEF StackInv, CopiesAccounted
    <3>2. undoStack # <<>> /\ i \in HistoryEntry
      BY <2>2, <2>4
    <3>3. RestoredStacks(undoStack, past, redoStack, future, doc, i)
      BY <1>0, <3>1, <3>2, RestoreStacks
    <3>4. /\ undoStack' = Pop(undoStack) /\ redoStack' = Push(redoStack, i)
          /\ past' = Pop(past) /\ future' = Push(future, doc)
          /\ copies' = copies - Dropped(redoStack) + CopiesIn(<<i>>) - CopiesIn(<<Top(undoStack)>>)
      BY <2>2
    <3> QED
      BY <3>1, <3>3, <3>4 DEF RestoredStacks
  <2> QED
    BY <2>2, <2>4, <2>5, <2>8 DEF StackInv, CopiesAccounted
<1>14. ASSUME Redo PROVE StackInv'
  <2>1. PICK i : i = CaptureInverse(doc, Top(redoStack))
    OBVIOUS
  <2>2. /\ stroke' = Interrupted(Replaced(Top(redoStack))) /\ redoStack # <<>> /\ strayed' = strayed
        /\ undoStack' = Push(undoStack, i) /\ redoStack' = Pop(redoStack)
        /\ doc' = Restore(doc, Top(redoStack))
        /\ copies' = copies - Dropped(undoStack) + CopiesIn(<<i>>) - CopiesIn(<<Top(redoStack)>>)
        /\ future' = Pop(future) /\ past' = Push(past, doc)
    BY <1>14, <2>1 DEF Redo
  <2>3. Top(redoStack) \in HistoryEntry
    BY <2>2, PopIndexes DEF StackInv
  <2>4. i \in HistoryEntry /\ doc' \in Docs
    BY <1>0, <2>1, <2>2, <2>3, InverseIsEntry, RestoreIsDoc
  <2>8. StrokeInv(stroke', doc') /\ strayed' \subseteq Spatial
    BY <1>0, <2>2, <2>3, RestoreReplaces, InterruptedStroke DEF StackInv
  <2>5. Len(redoStack) + Len(undoStack) <= MaxHistory /\ copies = CopiesIn(redoStack) + CopiesIn(undoStack)
    BY StackInvLengths DEF StackInv
  <2>6. /\ redoStack' \in Seq(HistoryEntry) /\ future' \in Seq(Docs)
        /\ Len(future') = Len(redoStack')
        /\ undoStack' \in Seq(HistoryEntry) /\ past' \in Seq(Docs)
        /\ Len(past') = Len(undoStack')
        /\ Len(redoStack') + Len(undoStack') <= MaxHistory
        /\ CopiesIn(redoStack') + CopiesIn(undoStack') = copies'
    <3>1. /\ undoStack \in Seq(HistoryEntry) /\ past \in Seq(Docs) /\ Len(past) = Len(undoStack)
          /\ redoStack \in Seq(HistoryEntry) /\ future \in Seq(Docs)
          /\ Len(future) = Len(redoStack)
      BY DEF StackInv
    <3>2. redoStack # <<>> /\ i \in HistoryEntry
      BY <2>2, <2>4
    <3>3. RestoredStacks(redoStack, future, undoStack, past, doc, i)
      BY <1>0, <2>5, <3>1, <3>2, RestoreStacks
    <3>4. /\ redoStack' = Pop(redoStack) /\ undoStack' = Push(undoStack, i)
          /\ future' = Pop(future) /\ past' = Push(past, doc)
          /\ copies' = copies - Dropped(undoStack) + CopiesIn(<<i>>) - CopiesIn(<<Top(redoStack)>>)
      BY <2>2
    <3> QED
      BY <2>5, <3>3, <3>4 DEF RestoredStacks
  <2>7. /\ Len(undoStack') + Len(redoStack') = Len(redoStack') + Len(undoStack')
        /\ CopiesIn(undoStack') + CopiesIn(redoStack') = CopiesIn(redoStack') + CopiesIn(undoStack')
    BY <2>6, CellsAreFinite
  <2> QED
    BY <2>2, <2>4, <2>6, <2>7, <2>8 DEF StackInv, CopiesAccounted
<1>16. ASSUME UNCHANGED vars PROVE StackInv'
  BY <1>16 DEF vars, StackInv, CopiesAccounted
<1> QED
  BY <1>1, <1>2, <1>3, <1>4, <1>6, <1>7, <1>8, <1>9, <1>10, <1>11, <1>12,
     <1>13, <1>14, <1>15, <1>16 DEF Next

LEMMA InitStackInv == Init => StackInv
<1> SUFFICES ASSUME Init PROVE StackInv
  OBVIOUS
<1>1. CopiesAccounted
  BY NoCopies DEF Init, CopiesAccounted
<1> QED
  BY <1>1, HistoryAssumption DEF Init, StackInv, StrokeInv

(* Every state satisfies it. *)
LEMMA StackInvariance == Spec => []StackInv
<1>1. Init => StackInv
  BY InitStackInv
<1>2. StackInv /\ [Next]_vars => StackInv'
  BY NextStackInv
<1> QED
  BY <1>1, <1>2, PTL DEF Spec

-----------------------------------------------------------------------------
(* The invariant. *)

LEMMA InitIInv == Init => IInv
BY InitStackInv DEF Init, Linked, IInv, Open

(* What recording an entry keeps, for the document d2 it is recorded for.  *)
LEMMA RecordKeeps ==
  ASSUME IInv, StackInv', NEW e \in HistoryEntry, Record(e),
         Restore(doc', e) = doc, strayed' = strayed,
         Open' =>
            stroke'.layer \in doc'.list /\ e.document = None /\ e.layers[stroke'.layer] # None
  PROVE  IInv'
<1>1. /\ undoStack \in Seq(HistoryEntry) /\ past \in Seq(Docs) /\ doc \in Docs
      /\ Linked(undoStack, past, doc, strayed) /\ doc' \in Docs
  BY DEF IInv, StackInv
<1>2. /\ undoStack' = Push(undoStack, e) /\ past' = Push(past, doc)
      /\ redoStack' = <<>> /\ future' = <<>>
  BY DEF Record
<1>3. /\ undoStack' \in Seq(HistoryEntry)
      /\ Len(undoStack') = Len(undoStack) - Lost(undoStack) + 1
      /\ Len(undoStack) - Lost(undoStack) \in Nat
      /\ undoStack'[Len(undoStack) - Lost(undoStack) + 1] = e
  BY <1>1, <1>2, PushIndexes
<1>4. Linked(undoStack', past', doc', strayed')
  <2>1. Alike(Restore(doc', e), doc, strayed)
    BY AlikeOrder
  <2> QED
    BY <1>1, <1>2, <2>1, PushLinks
<1>5. Linked(redoStack', future', doc', strayed')
  BY <1>2 DEF Linked
<1>6. undoStack' # <<>> /\ Top(undoStack') = e
  BY <1>3 DEF Top
<1> QED
  BY <1>2, <1>4, <1>5, <1>6 DEF IInv

LEMMA OperationKeeps ==
  ASSUME IInv, StackInv', NEW ids, NEW d2 \in Docs, NEW replaced,
         Operation(ids, d2, replaced),
         \A l \in Spatial : l \in doc.list /\ l \notin ids => d2.pix[l] = doc.pix[l]
  PROVE  IInv'
<1> DEFINE e == CaptureDocument(doc, ids)
<1>1. /\ stroke' = Interrupted(replaced) /\ doc' = d2 /\ strayed' = strayed
      /\ Record(e) /\ doc \in Docs
  BY DEF Operation, IInv, StackInv
<1>2. e \in HistoryEntry
  BY <1>1, CaptureIsEntry
<1>3. Restore(d2, e) = doc
  BY <1>1, OperationComesBack
<1>4. ~Open'
  BY <1>1 DEF Open, Interrupted
<1> HIDE DEF e
<1> QED
  BY <1>1, <1>2, <1>3, <1>4, RecordKeeps

(* Undo, with the two stacks given as the one popped and the one pushed.   *)
LEMMA RestoreKeeps ==
  ASSUME NEW s \in Seq(HistoryEntry), NEW ds \in Seq(Docs),
         NEW t \in Seq(HistoryEntry), NEW ts \in Seq(Docs),
         doc \in Docs, s # <<>>, NEW S,
         Linked(s, ds, doc, S), Linked(t, ts, doc, S),
         NEW d2, d2 = Restore(doc, Top(s)),
         NEW i, i = CaptureInverse(doc, Top(s))
  PROVE  /\ Linked(Pop(s), Pop(ds), d2, S)
         /\ Linked(Push(t, i), Push(ts, doc), d2, S)
<1>1. Top(s) \in HistoryEntry
  BY PopIndexes
<1>2. d2 \in Docs /\ i \in HistoryEntry
  BY <1>1, RestoreIsDoc, InverseIsEntry
<1>3. Linked(Pop(s), Pop(ds), d2, S)
  <2>1. /\ ds # <<>> /\ Alike(d2, Top(ds), S)
        /\ Linked(Pop(s), Pop(ds), Top(ds), S)
    BY PopLinks
  <2>2. Pop(s) \in Seq(HistoryEntry) /\ Pop(ds) \in Seq(Docs) /\ Top(ds) \in Docs
    BY <2>1, PopIndexes
  <2> QED
    BY <1>2, <2>1, <2>2, LinkedToAlike
<1>4. Restore(d2, i) = doc
  BY <1>1, InverseComesBack
<1>5. Linked(Push(t, i), Push(ts, doc), d2, S)
  BY <1>2, <1>4, AlikeOrder, PushLinks
<1> QED
  BY <1>3, <1>5

(* What painting keeps: everything while the entry of the gesture is on    *)
(* top, and everything but the pixels of the layer afterwards.             *)
LEMMA PaintedKeeps ==
  ASSUME IInv, StackInv', NEW l \in Spatial, l \in doc.list, NEW c \in Contents,
         Painted(l, c), stroke # None, stroke.recorded => l = stroke.layer,
         Open' => Open /\ stroke' = stroke
  PROVE  IInv'
<1> DEFINE d2 == [doc EXCEPT !.pix[l] = c]
<1>1. /\ undoStack \in Seq(HistoryEntry) /\ past \in Seq(Docs) /\ doc \in Docs
      /\ redoStack \in Seq(HistoryEntry) /\ future \in Seq(Docs)
      /\ Linked(undoStack, past, doc, strayed) /\ Linked(redoStack, future, doc, strayed)
  BY DEF IInv, StackInv
<1>2. /\ doc' = d2 /\ UNCHANGED <<undoStack, redoStack, past, future>>
      /\ strayed' = IF stroke.recorded THEN strayed ELSE strayed \cup {l}
  BY DEF Painted
<1>3. d2 \in Docs /\ Alike(d2, doc, {l}) /\ d2.list = doc.list
  BY <1>1, PaintIsDoc DEF Alike
<1>4. CASE stroke.recorded
  <2>1. /\ l = stroke.layer /\ redoStack = <<>> /\ undoStack # <<>>
        /\ Top(undoStack).document = None /\ Top(undoStack).layers[l] # None
    BY <1>4 DEF IInv, Open
  <2>2. Linked(undoStack, past, d2, strayed)
    BY <1>1, <2>1, PaintKeepsLinks
  <2>3. Linked(redoStack, future, d2, strayed)
    BY <1>1, <2>1 DEF Linked
  <2> QED
    BY <1>2, <1>3, <1>4, <2>1, <2>2, <2>3 DEF IInv
<1>5. CASE ~stroke.recorded
  <2> DEFINE S == strayed \cup {l}
  <2>1. Linked(undoStack, past, doc, S) /\ Linked(redoStack, future, doc, S)
    BY <1>1, LinkedButFor
  <2>2. Alike(d2, doc, S)
    BY <1>3, AlikeOrder
  <2> HIDE DEF S, d2
  <2>3. Linked(undoStack, past, d2, S) /\ Linked(redoStack, future, d2, S)
    BY <1>1, <1>3, <2>1, <2>2, LinkedToAlike
  <2>4. ~Open'
    BY <1>5 DEF Open
  <2> QED
    BY <1>2, <1>5, <2>3, <2>4 DEF IInv, S
<1> QED
  BY <1>4, <1>5

LEMMA NextIInv ==
  ASSUME IInv, [Next]_vars
  PROVE  IInv'
<1> USE DEF IInv
<1>0. /\ StackInv' /\ StackInv
      /\ doc \in Docs /\ undoStack \in Seq(HistoryEntry) /\ redoStack \in Seq(HistoryEntry)
      /\ past \in Seq(Docs) /\ future \in Seq(Docs) /\ StrokeInv(stroke, doc)
  BY NextStackInv DEF StackInv
<1>1. ASSUME NEW l \in Spatial, NEW how \in {"live", "shape"}, NEW c \in Contents,
             BeginStroke(l, how, c)
      PROVE  IInv'
  <2> DEFINE e == Capture(doc, {l})
  <2>1. /\ Record(e) /\ doc' = [doc EXCEPT !.pix[l] = c] /\ l \in doc.list
        /\ strayed' = strayed /\ stroke'.layer = l
    BY <1>1 DEF BeginStroke
  <2>2. /\ e \in HistoryEntry /\ e.document = None
        /\ e.layers[l] = doc.pix[l] /\ doc.pix[l] # None
    BY <1>0, <2>1, CaptureIsEntry DEF Capture, PixelsOf, Docs
  <2>3. Restore(doc', e) = doc
    BY <1>0, <2>1, StrokeComesBack
  <2>4. doc'.list = doc.list
    BY <1>0, <2>1, PaintIsDoc DEF Alike
  <2> HIDE DEF e, IInv
  <2> QED
    BY <1>0, <2>1, <2>2, <2>3, <2>4, RecordKeeps
<1>2. ASSUME NEW c \in Contents, MoveStroke(c) PROVE IInv'
  <2>1. /\ stroke.layer \in Spatial /\ stroke.layer \in doc.list /\ stroke # None
        /\ stroke' = stroke /\ Painted(stroke.layer, c)
    BY <1>0, <1>2 DEF MoveStroke, StrokeInv, Strokes
  <2>2. Open' => Open
    BY <2>1 DEF Open
  <2> HIDE DEF IInv
  <2> QED
    BY <1>0, <2>1, <2>2, PaintedKeeps
<1>3. ASSUME NEW l \in Spatial, NEW c \in Contents, DrawShape(l, c) PROVE IInv'
  <2>1. /\ l \in doc.list /\ Painted(l, c) /\ stroke # None
        /\ stroke.recorded => l = stroke.layer
        /\ ~Open'
    BY <1>3 DEF DrawShape, Open
  <2> HIDE DEF IInv
  <2> QED
    BY <1>0, <2>1, PaintedKeeps
<1>4. ASSUME EndStroke PROVE IInv'
  BY <1>0, <1>4 DEF EndStroke, Open
<1>5. ASSUME NEW s \in Settings, EditSettings(s) PROVE IInv'
  <2> DEFINE d2 == [doc EXCEPT !.settings = s]
  <2>1. d2 \in Docs /\ \A l \in Spatial : d2.pix[l] = doc.pix[l]
    BY <1>0 DEF Docs
  <2>2. Operation({}, d2, {})
    BY <1>5 DEF EditSettings
  <2> HIDE DEF d2, IInv
  <2> QED
    BY <1>0, <2>1, <2>2, OperationKeeps
<1>6. ASSUME NEW l \in Layers, l \notin doc.list, NEW c,
             l \in Spatial => c \in Contents,
             Operation({}, WithLayer(doc, l, c), {})
      PROVE  IInv'
  <2> DEFINE d2 == WithLayer(doc, l, c)
  <2>1. d2 \in Docs /\ \A k \in Spatial : k \in doc.list => d2.pix[k] = doc.pix[k]
    BY <1>0, <1>6, LayersAssumption DEF WithLayer, Docs, Pixels
  <2> HIDE DEF d2, IInv
  <2> QED
    BY <1>0, <1>6, <2>1, OperationKeeps DEF d2
<1>7. ASSUME NEW l \in Layers, AddLayer(l) PROVE IInv'
  <2> HIDE DEF IInv
  <2> QED
    BY <1>6, <1>7, LayersAssumption DEF AddLayer
<1>8. ASSUME NEW l \in Layers, NEW n \in Layers, DuplicateLayer(l, n) PROVE IInv'
  <2> DEFINE c == IF l \in Spatial THEN doc.pix[l] ELSE None
  <2>1. /\ l \in doc.list /\ n \notin doc.list /\ (l \in Spatial <=> n \in Spatial)
        /\ Operation({}, WithLayer(doc, n, c), {})
    BY <1>8 DEF DuplicateLayer
  <2>2. n \in Spatial => c \in Contents
    BY <1>0, <2>1 DEF Docs, Pixels
  <2> HIDE DEF c, IInv
  <2> QED
    BY <1>6, <2>1, <2>2
<1>9. ASSUME NEW l \in Layers, RemoveLayer(l) PROVE IInv'
  <2> DEFINE d2 == WithoutLayer(doc, l)
  <2>1. d2 \in Docs /\ \A k \in Spatial : k # l => d2.pix[k] = doc.pix[k]
    BY <1>0 DEF WithoutLayer, Docs, Pixels
  <2>2. Operation({l}, d2, {l})
    BY <1>9 DEF RemoveLayer
  <2> HIDE DEF d2, IInv
  <2> QED
    BY <1>0, <2>1, <2>2, OperationKeeps
<1>10. ASSUME NEW l \in Layers, NEW c \in Contents, NEW replaced \in SUBSET Spatial,
              RepaintLayer(l, c, replaced)
       PROVE  IInv'
  <2> DEFINE d2 == [doc EXCEPT !.pix[l] = c]
  <2>1. l \in Spatial /\ l \in doc.list /\ Operation({l}, d2, replaced)
    BY <1>10 DEF RepaintLayer
  <2>2. d2 \in Docs /\ \A k \in Spatial : k # l => d2.pix[k] = doc.pix[k]
    BY <1>0, <2>1, LayersAssumption DEF Docs, Pixels
  <2> HIDE DEF d2, IInv
  <2> QED
    BY <1>0, <2>1, <2>2, OperationKeeps
<1>11. ASSUME NEW s \in Settings, NEW q \in Pixels, NEW replaced \in SUBSET Spatial,
              ResizeDocument(s, q, replaced)
       PROVE  IInv'
  <2> DEFINE d2 == [doc EXCEPT !.settings = s, !.pix = q]
  <2>1. d2 \in Docs /\ Operation(doc.list, d2, replaced)
    BY <1>11 DEF ResizeDocument
  <2> HIDE DEF d2, IInv
  <2> QED
    BY <1>0, <2>1, OperationKeeps
<1>12. ASSUME NEW half \in Docs, ResizeFails(half) PROVE IInv'
  <2> DEFINE e == CaptureDocument(doc, doc.list)
  <2>1. e \in HistoryEntry /\ Restore(half, e) = doc
    BY <1>0, CaptureIsEntry, OperationComesBack
  <2>2. /\ undoStack' = Pop(Push(undoStack, e)) /\ past' = Pop(Push(past, doc))
        /\ redoStack' = <<>> /\ future' = <<>> /\ doc' = Restore(half, e)
        /\ stroke' = Interrupted(Replaced(e)) /\ strayed' = strayed
    BY <1>12 DEF ResizeFails, RecordAndRollBack
  <2> HIDE DEF e
  <2>3. Linked(undoStack', past', doc', strayed')
    BY <1>0, <2>1, <2>2, RollBackLinks
  <2>4. Linked(redoStack', future', doc', strayed')
    BY <2>2 DEF Linked
  <2>5. ~Open'
    BY <2>2 DEF Open, Interrupted
  <2> QED
    BY <1>0, <2>3, <2>4, <2>5
<1>13. ASSUME NEW d \in Docs, NEW keeps \in BOOLEAN, ClearHistory(d, keeps) PROVE IInv'
  <2>1. /\ undoStack' = <<>> /\ redoStack' = <<>> /\ past' = <<>> /\ future' = <<>>
        /\ ~Open'
    BY <1>13 DEF ClearHistory, Open, Interrupted
  <2>2. Linked(undoStack', past', doc', strayed') /\ Linked(redoStack', future', doc', strayed')
    BY <2>1 DEF Linked
  <2> QED
    BY <1>0, <2>1, <2>2
<1>14. ASSUME Undo PROVE IInv'
  <2>1. PICK i : i = CaptureInverse(doc, Top(undoStack))
    OBVIOUS
  <2>2. /\ ~Open' /\ undoStack # <<>> /\ strayed' = strayed
        /\ redoStack' = Push(redoStack, i) /\ undoStack' = Pop(undoStack)
        /\ doc' = Restore(doc, Top(undoStack))
        /\ past' = Pop(past) /\ future' = Push(future, doc)
    BY <1>14, <2>1 DEF Undo, Open, Interrupted
  <2>3. /\ Linked(undoStack', past', doc', strayed')
        /\ Linked(redoStack', future', doc', strayed')
    BY <1>0, <2>1, <2>2, RestoreKeeps
  <2> QED
    BY <1>0, <2>2, <2>3
<1>15. ASSUME Redo PROVE IInv'
  <2>1. PICK i : i = CaptureInverse(doc, Top(redoStack))
    OBVIOUS
  <2>2. /\ ~Open' /\ redoStack # <<>> /\ strayed' = strayed
        /\ undoStack' = Push(undoStack, i) /\ redoStack' = Pop(redoStack)
        /\ doc' = Restore(doc, Top(redoStack))
        /\ future' = Pop(future) /\ past' = Push(past, doc)
    BY <1>15, <2>1 DEF Redo, Open, Interrupted
  <2>3. /\ Linked(redoStack', future', doc', strayed')
        /\ Linked(undoStack', past', doc', strayed')
    BY <1>0, <2>1, <2>2, RestoreKeeps
  <2> QED
    BY <1>0, <2>2, <2>3
<1>16. ASSUME UNCHANGED vars PROVE IInv'
  BY <1>0, <1>16 DEF vars, Linked, Above, Open
<1> HIDE DEF IInv
<1> QED
  BY <1>1, <1>2, <1>3, <1>4, <1>5, <1>7, <1>8, <1>9, <1>10, <1>11, <1>12,
     <1>13, <1>14, <1>15, <1>16 DEF Next

(* Every state satisfies the invariant. *)
LEMMA Invariance == Spec => []IInv
<1>1. Init => IInv
  BY InitIInv
<1>2. IInv /\ [Next]_vars => IInv'
  BY NextIInv
<1> QED
  BY <1>1, <1>2, PTL DEF Spec

-----------------------------------------------------------------------------
(* The theorems. *)

(* The document has pixels exactly for its listed layers, and both stacks  *)
(* hold entries and stay within MAX_HISTORY, whatever the operations and   *)
(* whenever the keys are used.                                             *)
THEOREM TypeCorrect == Spec => []TypeOK
<1>1. StackInv => TypeOK
  <2> SUFFICES ASSUME StackInv PROVE TypeOK
    OBVIOUS
  <2>1. Len(undoStack) <= MaxHistory /\ Len(redoStack) <= MaxHistory
    BY StackInvLengths, HistoryAssumption DEF StackInv
  <2>2. copies \in Int
    BY StackInvLengths
  <2>3. stroke \in Strokes \cup {None}
    BY DEF StackInv, StrokeInv
  <2> QED
    BY <2>1, <2>2, <2>3 DEF StackInv, TypeOK
<1> QED
  BY <1>1, StackInvariance, PTL

(* Exactly the copies that an entry of one of the stacks still holds are   *)
(* alive: none is leaked when an entry falls off, is replaced, cleared or  *)
(* rolled back, and none is destroyed before.                              *)
THEOREM NoCopyLeaks == Spec => []CopiesAccounted
<1>1. StackInv => CopiesAccounted
  BY DEF StackInv
<1> QED
  BY <1>1, StackInvariance, PTL

(* The redo stack never overflows: undoing drops nothing.                  *)
THEOREM RedoHasRoom == Spec => []RoomToRedo
<1>1. StackInv => RoomToRedo
  BY DEF StackInv, RoomToRedo
<1> QED
  BY <1>1, StackInvariance, PTL

(* Every undo brings back the document before the undone change, and every *)
(* redo the one after it, along the whole of both stacks and whenever the  *)
(* keys are used: all of it but the pixels of those layers an interrupted  *)
(* gesture has painted on.                                                 *)
THEOREM UndoAlwaysReturns == Spec => []UndoReturns
<1>1. IInv => UndoReturns
  BY DEF IInv, UndoReturns
<1> QED
  BY <1>1, Invariance, PTL

-----------------------------------------------------------------------------
(* The refinement. *)

(* Pushing, popping and the top of a stack are those of LinearHistory.     *)
LEMMA SameStacks ==
  /\ \A s, x : LH!Push(s, x) = Push(s, x)
  /\ \A s : LH!Pop(s) = Pop(s) /\ LH!Top(s) = Top(s)
BY DEF LH!Push, Push, LH!Pop, Pop, LH!Top, Top

(* What the top of a stack brings back, as long as nothing went astray.    *)
LEMMA TopComesBack ==
  ASSUME NEW s \in Seq(HistoryEntry), NEW ds \in Seq(Docs), doc \in Docs,
         Linked(s, ds, doc, {}), s # <<>>
  PROVE  Restore(doc, Top(s)) = Top(ds) /\ ds # <<>>
<1>1. ds # <<>> /\ Alike(Restore(doc, Top(s)), Top(ds), {})
  BY PopLinks
<1>2. Top(s) \in HistoryEntry /\ Top(ds) \in Docs
  BY <1>1, PopIndexes
<1>3. Restore(doc, Top(s)) \in Docs
  BY <1>2, RestoreIsDoc
<1> QED
  BY <1>1, <1>2, <1>3, SameDoc DEF Alike

(* Every step of the canvas is a step of the ideal history, or changes     *)
(* nothing it sees.                                                        *)
LEMMA StepRefines ==
  ASSUME IInv, IInv', [Next]_vars, strayed' = {}
  PROVE  [LH!Next]_<<doc, past, future, Open>>
<1> USE SameStacks
<1>0. doc \in Docs /\ doc' \in Docs /\ Open' \in BOOLEAN
  BY DEF IInv, StackInv, Open, StrokeInv, Strokes
<1>1. ASSUME NEW l \in Spatial, NEW how \in {"live", "shape"}, NEW c \in Contents,
             BeginStroke(l, how, c)
      PROVE LH!Do
  BY <1>0, <1>1 DEF BeginStroke, Record, LH!Do, LH!Record
<1>2. ASSUME NEW l, NEW c, Painted(l, c), stroke # None PROVE LH!GoOn
  <2>1. strayed' # {} \/ stroke.recorded
    BY <1>2 DEF Painted
  <2> QED
    BY <1>0, <1>2, <2>1 DEF Painted, LH!GoOn, Open
<1>3. ASSUME EndStroke PROVE LH!GoOn \/ UNCHANGED <<doc, past, future, Open>>
  BY <1>0, <1>3 DEF EndStroke, LH!GoOn, Open
<1>4. ASSUME NEW ids, NEW d, NEW replaced, Operation(ids, d, replaced) PROVE LH!Do
  BY <1>0, <1>4 DEF Operation, Record, LH!Do, LH!Record
<1>5. ASSUME NEW half \in Docs, ResizeFails(half) PROVE LH!Fail
  <2>1. doc' = doc
    BY <1>0, <1>5, OperationComesBack DEF ResizeFails
  <2>2. Open' = FALSE
    BY <1>5 DEF ResizeFails, Open, Interrupted
  <2> QED
    BY <1>5, <2>1, <2>2 DEF ResizeFails, RecordAndRollBack, LH!Fail
<1>6. ASSUME NEW d \in Docs, NEW keeps \in BOOLEAN, ClearHistory(d, keeps) PROVE LH!Reset
  BY <1>6 DEF ClearHistory, LH!Reset, Open, Interrupted
<1>7. ASSUME Undo PROVE LH!Undo
  <2>1. undoStack # <<>> /\ strayed = {}
    BY <1>7 DEF Undo
  <2>2. Restore(doc, Top(undoStack)) = Top(past) /\ past # <<>>
    BY <2>1, TopComesBack DEF IInv, StackInv
  <2>3. Open' = FALSE
    BY <1>7 DEF Undo, Open, Interrupted
  <2> QED
    BY <1>7, <2>2, <2>3 DEF Undo, LH!Undo
<1>8. ASSUME Redo PROVE LH!Redo
  <2>1. redoStack # <<>> /\ strayed = {}
    BY <1>8 DEF Redo
  <2>2. Restore(doc, Top(redoStack)) = Top(future) /\ future # <<>>
    BY <2>1, TopComesBack DEF IInv, StackInv
  <2>3. Open' = FALSE
    BY <1>8 DEF Redo, Open, Interrupted
  <2> QED
    BY <1>8, <2>2, <2>3 DEF Redo, LH!Redo
<1>9. ASSUME UNCHANGED vars PROVE UNCHANGED <<doc, past, future, Open>>
  BY <1>9 DEF vars, Open
<1> QED
  BY <1>1, <1>2, <1>3, <1>4, <1>5, <1>6, <1>7, <1>8, <1>9
  DEF Next, LH!Next, MoveStroke, DrawShape, EditSettings, AddLayer, DuplicateLayer,
      RemoveLayer, RepaintLayer, ResizeDocument

(* The history of partial copies implements the history of whole documents *)
(* until an interrupted gesture paints, and again when another document is *)
(* opened.                                                                 *)
THEOREM HistoryIsLinear == Spec => ImplementsLinearHistory
<1>1. Init => LH!Init
  BY DEF Init, LH!Init, Open
<1>2. IInv /\ IInv' /\ [Next]_vars => [LH!Next \/ strayed' # {}]_<<doc, past, future, Open>>
  BY StepRefines
<1> QED
  BY <1>1, <1>2, Invariance, PTL DEF Spec, ImplementsLinearHistory

=============================================================================
