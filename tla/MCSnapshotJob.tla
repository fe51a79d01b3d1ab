---------------------------- MODULE MCSnapshotJob ----------------------------
(***************************************************************************)
(* One name for the node's own archives, so that each one overwrites the   *)
(* last, and one snapshot to download: two files whose mtimes may be in    *)
(* either order.                                                           *)
(***************************************************************************)
EXTENDS SnapshotJob

CONSTANT a

MCIds == {a}

=============================================================================
