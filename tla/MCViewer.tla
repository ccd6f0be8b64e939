------------------------------ MODULE MCViewer ------------------------------
(* Instances of Viewer for TLC: three dumps, batches of at most two files,  *)
(* two posted messages and three nested handlers.                           *)
EXTENDS Viewer
=============================================================================
