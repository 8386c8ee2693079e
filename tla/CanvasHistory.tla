---------------------------- MODULE CanvasHistory ----------------------------
(***************************************************************************)
(* The undo history of the canvas, lib/stores/canvasHistory.svelte.ts, and *)
(* the operations of lib/stores/canvas.svelte.ts and of the stage that     *)
(* record into it.                                                         *)
(*                                                                         *)
(* An entry does not hold the document: a stroke saves the pixels of the   *)
(* layer it is about to paint on, an operation on the document saves the   *)
(* list of layers with their settings and the pixels of those layers it    *)
(* replaces or removes.  What undo puts on the redo stack is captured from *)
(* the entry it is about to restore.  The variables past and future are    *)
(* the documents an ideal history would hold; the module shows that the    *)
(* partial entries bring back exactly those.                               *)
(*                                                                         *)
(* A document is its list of layers, the pixels of each layer that has     *)
(* some (a control layer has none) and its settings: names, order, groups, *)
(* geometry.  Settings that change without an entry (what is collapsed,    *)
(* the prompt of a region) are left out.                                   *)
(***************************************************************************)
EXTENDS Integers, Sequences, FiniteSets

CONSTANTS
  Layers,      \* the ids of layers
  Spatial,     \* those with a Konva layer: all but the control layers
  Contents,    \* what may be painted on a layer
  Blank,       \* the content of a new layer
  Settings,    \* the settings of a document
  MaxHistory,  \* MAX_HISTORY
  None         \* no pixels, no document, no gesture

(* A gesture of the pointer.  The brush, the eraser and the move tool are  *)
(* live: they change the nodes of the layer while the pointer moves.  The  *)
(* tools for shapes draw a preview, and the shape when the pointer goes    *)
(* up.  A live gesture is cut when the nodes it holds are destroyed; what  *)
(* it does to them is seen no more.  It is recorded as long as the entry   *)
(* it began with is the last thing that happened to the history.           *)
Strokes ==
  [layer : Spatial, how : {"live", "shape", "cut"}, recorded : BOOLEAN]

ASSUME LayersAssumption ==
  /\ Spatial \subseteq Layers
  /\ None \notin Layers
  /\ IsFiniteSet(Layers)
  /\ Blank \in Contents
  /\ None \notin Contents
  /\ None \notin [list : SUBSET Layers, settings : Settings]
  /\ None \notin Strokes

ASSUME HistoryAssumption == MaxHistory \in Nat /\ MaxHistory >= 2

VARIABLES
  doc,        \* the document: canvas.layers with the nodes of konvaLayers
  undoStack,
  redoStack,
  stroke,     \* the gesture under way
  copies,     \* how many copies of a layer's pixels have not been destroyed
  past,       \* the documents the undo stack stands for
  future,     \* the documents the redo stack stands for
  strayed     \* the layers painted on while no entry was recorded for it

vars == <<doc, undoStack, redoStack, stroke, copies, past, future, strayed>>

Pixels == [Spatial -> Contents \cup {None}]

DocumentState == [list : SUBSET Layers, settings : Settings]

(* A document as the user sees it: exactly the listed layers have pixels. *)
Docs ==
  {d \in [list : SUBSET Layers, settings : Settings, pix : Pixels] :
     \A l \in Spatial : d.pix[l] # None <=> l \in d.list}

HistoryEntry == [layers : Pixels, document : DocumentState \cup {None}]

-----------------------------------------------------------------------------
(* Capturing and restoring. *)

SavedIn(e) == {l \in Spatial : e.layers[l] # None}

PixelsOf(d, ids) == [l \in Spatial |-> IF l \in ids THEN d.pix[l] ELSE None]

Capture(d, ids) == [layers |-> PixelsOf(d, ids), document |-> None]

CaptureDocument(d, ids) ==
  [layers   |-> PixelsOf(d, ids),
   document |-> [list |-> d.list, settings |-> d.settings]]

(* A fault to test with: what the entry replaces is not copied again. *)
CaptureRemoved(d, e) ==
  IF e.document = None THEN Capture(d, SavedIn(e))
  ELSE CaptureDocument(d, d.list \ e.document.list)

CaptureInverse(d, e) ==
  IF e.document = None THEN Capture(d, SavedIn(e))
  ELSE CaptureDocument(d, (d.list \ e.document.list) \cup SavedIn(e))

RestoreLayers(d, e) ==
  [d EXCEPT !.pix = [l \in Spatial |->
     IF d.pix[l] # None /\ e.layers[l] # None THEN e.layers[l] ELSE d.pix[l]]]

RestoreDocument(d, e) ==
  [list     |-> e.document.list,
   settings |-> e.document.settings,
   pix      |-> [l \in Spatial |->
      CASE l \notin e.document.list -> None
        [] l \in e.document.list /\ e.layers[l] # None -> e.layers[l]
        [] OTHER -> IF d.pix[l] # None THEN d.pix[l] ELSE Blank]]

Restore(d, e) ==
  IF e.document = None THEN RestoreLayers(d, e) ELSE RestoreDocument(d, e)

-----------------------------------------------------------------------------
(* The stacks. *)

CopiesIn(s) ==
  Cardinality({c \in (1..Len(s)) \X Spatial : s[c[1]].layers[c[2]] # None})

Top(s) == s[Len(s)]
Pop(s) == SubSeq(s, 1, Len(s) - 1)

Push(s, x) == Append(IF Len(s) < MaxHistory THEN s ELSE Tail(s), x)

(* A fault to test with: the entry that falls off the stack is kept alive. *)
NothingDropped(s) == 0

(* The copies destroyed when an entry is appended to s. *)
Dropped(s) == IF Len(s) < MaxHistory THEN 0 ELSE CopiesIn(<<Head(s)>>)

(* A fault to test with: what was undone can still be redone. *)
RecordAndKeepRedo(e) ==
  /\ undoStack' = Push(undoStack, e)
  /\ past' = Push(past, doc)
  /\ copies' = copies - Dropped(undoStack) + CopiesIn(<<e>>)
  /\ UNCHANGED <<redoStack, future>>

(* snapshotLayers and snapshotDocument. *)
Record(e) ==
  /\ undoStack' = Push(undoStack, e)
  /\ redoStack' = <<>>
  /\ past' = Push(past, doc)
  /\ future' = <<>>
  /\ copies' = copies - Dropped(undoStack) - CopiesIn(redoStack) + CopiesIn(<<e>>)

(* What other changes do to a gesture under way: nothing keeps the keys,   *)
(* or a layer that arrives, from working in the middle of it.              *)
Interrupted(replaced) ==
  IF stroke = None THEN None
  ELSE [stroke EXCEPT !.recorded = FALSE,
                      !.how = IF @ = "live" /\ stroke.layer \in replaced THEN "cut" ELSE @]

(* The layers whose nodes are destroyed when e is restored. *)
Replaced(e) ==
  SavedIn(e) \cup (IF e.document = None THEN {} ELSE Spatial \ e.document.list)

Undo ==
  /\ undoStack # <<>>
  /\ LET e == Top(undoStack)
         inverse == CaptureInverse(doc, e)
     IN /\ redoStack' = Push(redoStack, inverse)
        /\ undoStack' = Pop(undoStack)
        /\ doc' = Restore(doc, e)
        /\ copies' = copies - Dropped(redoStack) + CopiesIn(<<inverse>>)
                            - CopiesIn(<<e>>)
        /\ stroke' = Interrupted(Replaced(e))
  /\ past' = Pop(past)
  /\ future' = Push(future, doc)
  /\ UNCHANGED strayed

Redo ==
  /\ redoStack # <<>>
  /\ LET e == Top(redoStack)
         inverse == CaptureInverse(doc, e)
     IN /\ undoStack' = Push(undoStack, inverse)
        /\ redoStack' = Pop(redoStack)
        /\ doc' = Restore(doc, e)
        /\ copies' = copies - Dropped(undoStack) + CopiesIn(<<inverse>>)
                            - CopiesIn(<<e>>)
        /\ stroke' = Interrupted(Replaced(e))
  /\ future' = Pop(future)
  /\ past' = Push(past, doc)
  /\ UNCHANGED strayed

(* The operation failed after its entry was recorded; the entry is on top. *)
RecordAndRollBack(e) ==
  /\ undoStack' = Pop(Push(undoStack, e))
  /\ redoStack' = <<>>
  /\ past' = Pop(Push(past, doc))
  /\ future' = <<>>
  /\ copies' = copies - Dropped(undoStack) - CopiesIn(redoStack)

-----------------------------------------------------------------------------
(* What the user does. *)

(* The pointer goes down: the layer is recorded, and a line begins on it,  *)
(* or a shape, a move or a transformation.  One gesture at a time.         *)
BeginStroke(l, how, c) ==
  /\ stroke = None
  /\ l \in doc.list
  /\ how \in {"live", "shape"}
  /\ how = "shape" => c = doc.pix[l]
  /\ Record(Capture(doc, {l}))
  /\ stroke' = [layer |-> l, how |-> how, recorded |-> TRUE]
  /\ doc' = [doc EXCEPT !.pix[l] = c]
  /\ UNCHANGED strayed

Painted(l, c) ==
  /\ doc' = [doc EXCEPT !.pix[l] = c]
  /\ strayed' = IF stroke.recorded THEN strayed ELSE strayed \cup {l}
  /\ UNCHANGED <<undoStack, redoStack, copies, past, future>>

(* The pointer moves.  A gesture that was cut moves nodes of no layer.     *)
MoveStroke(c) ==
  /\ stroke # None
  /\ stroke.how = "live"
  /\ Painted(stroke.layer, c)
  /\ UNCHANGED stroke

(* The pointer goes up, or leaves the stage, which ends what is live and   *)
(* drops a shape, as does too small a shape or Escape.                     *)
EndStroke ==
  /\ stroke # None
  /\ stroke' = None
  /\ UNCHANGED <<doc, undoStack, redoStack, copies, past, future, strayed>>

(* The pointer goes up: the shape is drawn on the layer that is active by  *)
(* now, which is another one only if something happened meanwhile.         *)
DrawShape(l, c) ==
  /\ stroke # None
  /\ stroke.how = "shape"
  /\ l \in doc.list
  /\ stroke.recorded => l = stroke.layer
  /\ Painted(l, c)
  /\ stroke' = None

(* An operation on the document: its entry saves the pixels of ids, and it *)
(* puts other nodes in place of those of the layers in replaced.           *)
Operation(ids, d, replaced) ==
  /\ Record(CaptureDocument(doc, ids))
  /\ doc' = d
  /\ stroke' = Interrupted(replaced)
  /\ UNCHANGED strayed

(* Renaming, grouping, reordering, locking, and the other settings.        *)
EditSettings(s) ==
  /\ s # doc.settings
  /\ Operation({}, [doc EXCEPT !.settings = s], {})

WithLayer(d, l, c) ==
  [d EXCEPT !.list = @ \cup {l},
            !.pix = [k \in Spatial |-> IF k = l THEN c ELSE d.pix[k]]]

AddLayer(l) ==
  /\ l \in Layers \ doc.list
  /\ Operation({}, WithLayer(doc, l, Blank), {})

DuplicateLayer(l, n) ==
  /\ l \in doc.list
  /\ n \in Layers \ doc.list
  /\ l \in Spatial <=> n \in Spatial
  /\ Operation({}, WithLayer(doc, n, IF l \in Spatial THEN doc.pix[l] ELSE None), {})

WithoutLayer(d, l) ==
  [d EXCEPT !.list = @ \ {l},
            !.pix = [k \in Spatial |-> IF k = l THEN None ELSE d.pix[k]]]

(* A fault to test with: the pixels of the layer are not saved. *)
RemoveUnsaved(l) ==
  /\ l \in doc.list
  /\ Operation({}, WithoutLayer(doc, l), {l})

RemoveLayer(l) ==
  /\ l \in doc.list
  /\ Operation({l}, WithoutLayer(doc, l), {l})

(* clearLayer takes the nodes away, fillActiveLayer adds one. *)
RepaintLayer(l, c, replaced) ==
  /\ l \in doc.list \cap Spatial
  /\ replaced \subseteq {l}
  /\ Operation({l}, [doc EXCEPT !.pix[l] = c], replaced)

(* Every layer is brought to the new size, some by new nodes.              *)
ResizeDocument(s, p, replaced) ==
  /\ [doc EXCEPT !.settings = s, !.pix = p] \in Docs
  /\ replaced \subseteq doc.list
  /\ Operation(doc.list, [doc EXCEPT !.settings = s, !.pix = p], replaced)

(* The resize throws when the settings and pixels are those of half, and   *)
(* is rolled back to what its entry saved.                                 *)
ResizeFails(half) ==
  LET e == CaptureDocument(doc, doc.list)
  IN  /\ half.list = doc.list
      /\ RecordAndRollBack(e)
      /\ doc' = Restore(half, e)
      /\ stroke' = Interrupted(Replaced(e))
      /\ UNCHANGED strayed

(* Another document: a project or a base image, which comes with layers of *)
(* its own, or another canvas size, which keeps the nodes.                 *)
ClearHistory(d, keeps) ==
  /\ undoStack' = <<>>
  /\ redoStack' = <<>>
  /\ past' = <<>>
  /\ future' = <<>>
  /\ copies' = copies - CopiesIn(undoStack) - CopiesIn(redoStack)
  /\ doc' = d
  /\ stroke' = Interrupted(IF keeps THEN Spatial \ d.list ELSE Spatial)
  /\ strayed' = {}

-----------------------------------------------------------------------------

Init ==
  /\ doc \in Docs
  /\ undoStack = <<>>
  /\ redoStack = <<>>
  /\ stroke = None
  /\ copies = 0
  /\ past = <<>>
  /\ future = <<>>
  /\ strayed = {}

Next ==
  \/ \E l \in Spatial, how \in {"live", "shape"}, c \in Contents : BeginStroke(l, how, c)
  \/ \E c \in Contents : MoveStroke(c)
  \/ \E l \in Spatial, c \in Contents : DrawShape(l, c)
  \/ EndStroke
  \/ \E s \in Settings : EditSettings(s)
  \/ \E l \in Layers : AddLayer(l)
  \/ \E l, n \in Layers : DuplicateLayer(l, n)
  \/ \E l \in Layers : RemoveLayer(l)
  \/ \E l \in Layers, c \in Contents, replaced \in SUBSET Spatial :
       RepaintLayer(l, c, replaced)
  \/ \E s \in Settings, p \in Pixels, replaced \in SUBSET Spatial :
       ResizeDocument(s, p, replaced)
  \/ \E half \in Docs : ResizeFails(half)
  \/ \E d \in Docs, keeps \in BOOLEAN : ClearHistory(d, keeps)
  \/ Undo
  \/ Redo

Spec == Init /\ [][Next]_vars

-----------------------------------------------------------------------------
(* Properties. *)

TypeOK ==
  /\ doc \in Docs
  /\ undoStack \in Seq(HistoryEntry) /\ Len(undoStack) <= MaxHistory
  /\ redoStack \in Seq(HistoryEntry) /\ Len(redoStack) <= MaxHistory
  /\ stroke \in Strokes \cup {None}
  /\ strayed \subseteq Spatial
  /\ copies \in Int
  /\ past \in Seq(Docs) /\ future \in Seq(Docs)

Above(docs, i, d) == IF i = Len(docs) THEN d ELSE docs[i + 1]

(* The same document, but for the pixels of the layers in S. *)
Alike(d, f, S) ==
  /\ d.list = f.list
  /\ d.settings = f.settings
  /\ \A l \in Spatial \ S : d.pix[l] = f.pix[l]

Linked(stack, docs, d, S) ==
  /\ Len(docs) = Len(stack)
  /\ \A i \in 1..Len(stack) : Alike(Restore(Above(docs, i, d), stack[i]), docs[i], S)

(* Undo brings back the document that was recorded, and redo the document  *)
(* that was undone, pixel for pixel, although their entries hold only a    *)
(* part of it and other operations came in between; and so does everything *)
(* further down, each entry over the document the one above it brings back *)
(* (the test "one legacy-signature snapshot restores group membership,     *)
(* scope, selections and removed pixels together" asks it of one entry).   *)
(* The keys work in the middle of a gesture.  What the gesture then paints *)
(* no entry was recorded for, and the pixels of that layer are not brought *)
(* back any more; everything else is.                                      *)
UndoReturns ==
  /\ Linked(undoStack, past, doc, strayed)
  /\ Linked(redoStack, future, doc, strayed)

(* Every copy of a layer's pixels is destroyed when the last entry that    *)
(* holds it goes, and none while one does (dispose).                       *)
CopiesAccounted == copies = CopiesIn(undoStack) + CopiesIn(redoStack)

(* Undoing never drops what was undone: the two stacks together hold no    *)
(* more than the limit of one.                                             *)
RoomToRedo == Len(undoStack) + Len(redoStack) <= MaxHistory

(* What a gesture paints can be undone: the entry recorded when it began   *)
(* is still on top when the shape is drawn ("Snapshot for undo before rect *)
(* fill", the comment of the pointer handler).                             *)
StrokeCanBeUndone ==
  [][stroke # None /\ stroke' = None /\ doc' # doc /\ undoStack' = undoStack
       => /\ undoStack # <<>>
          /\ Restore(doc', Top(undoStack)) = doc]_vars

(* The history behaves as one of whole documents, in which a change may    *)
(* interrupt a gesture, until a gesture that was interrupted paints on.    *)
Open == stroke # None /\ stroke.recorded

LH == INSTANCE LinearHistory WITH open <- Open

ImplementsLinearHistory ==
  LH!Init /\ [][LH!Next \/ strayed' # {}]_<<doc, past, future, Open>>

=============================================================================
