------------------------------ MODULE MCChats ------------------------------
(* Chats on small instances: the slots of jobs are alike, the rest are numbers. *)
EXTENDS Chats, TLC
CONSTANTS one, other
Alike == Permutations({one, other})
============================================================================
