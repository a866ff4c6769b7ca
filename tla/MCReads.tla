------------------------------ MODULE MCReads ------------------------------
(* Reads on small instances. *)
EXTENDS Reads
CONSTANTS all, some
============================================================================
