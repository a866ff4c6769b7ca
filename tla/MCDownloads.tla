---------------------------- MODULE MCDownloads ----------------------------
(* Downloads on small instances. *)
EXTENDS Downloads
CONSTANTS here, there
=============================================================================
