----------------------------- MODULE MCExport -----------------------------
(* Export on small instances. *)
EXTENDS Export
CONSTANTS a, b
============================================================================
