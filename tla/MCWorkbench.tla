---------------------------- MODULE MCWorkbench ----------------------------
(* Workbench on small instances: a READ ONLY profile, live, and a READ / WRITE *)
(* one, local; a statement that reads and one that writes.                     *)
EXTENDS Workbench

CONSTANTS local, live, read, write, none

BothProfiles == {local, live}
OneProfile == {local}
WritableProfiles == {local}
BothStatements == {read, write}
OneStatement == {read}
TwoRows == {"run", "new"}
============================================================================
