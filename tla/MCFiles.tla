------------------------------ MODULE MCFiles ------------------------------
(* Files on small instances. *)
EXTENDS Files, TLC
CONSTANTS here, there, a
Either == Permutations({here, there})

\* A behaviour is followed until something happened behind the back of a tab:
\* the properties then say nothing of its file any more.
Sure == unsure = {}
============================================================================
