--------------------------- MODULE CaptureFiles ---------------------------
(***************************************************************************)
(* The capture files (proto/pcapio.rs).  A file is written frame by frame  *)
(* and never atomically, so a reader may find only the first frames of it. *)
(* A file cut inside a frame cannot be read, as one that is empty.         *)
(***************************************************************************)
EXTENDS L3, Functions

VARIABLE source \* the frames on disk, per capture
=============================================================================
