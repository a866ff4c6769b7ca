---------------------------- MODULE MCResultSet ----------------------------
(* ResultSet over the three drivers, with statements of up to three rows, a *)
(* cap of one and of two, and the stream that has none.                     *)
EXTENDS ResultSet

EveryDriver == {"postgres", "mssql", "sqlite"}
SomeLimits == {0, 1, 2}
============================================================================
