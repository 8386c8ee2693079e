---------------------------- MODULE MCImageViewer ----------------------------
(***************************************************************************)
(* A small instance of ImageViewer: an image of the session, a JXL file of *)
(* the gallery and a video.                                                *)
(***************************************************************************)
EXTENDS ImageViewer, TLC

CONSTANTS img1, img2, vid, s1, s2

Interchangeable == Permutations(Slots)

=============================================================================
