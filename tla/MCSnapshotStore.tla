--------------------------- MODULE MCSnapshotStore ---------------------------
(****************************************************************************)
(* A small instance of SnapshotStore for TLC.                               *)
(****************************************************************************)
EXTENDS SnapshotStore
==============================================================================
