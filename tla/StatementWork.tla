--------------------------- MODULE StatementWork ---------------------------
(***************************************************************************)
(* What a driver promises about the work one statement does: a READ ONLY   *)
(* profile keeps nothing, and a statement that is said to have worked has  *)
(* had its work kept on a READ / WRITE profile, unless the run was given   *)
(* up on, and thrown away on a READ ONLY one.  A statement said to have    *)
(* failed promises nothing more: a commit whose answer was lost may have   *)
(* happened.                                                               *)
(***************************************************************************)
CONSTANT Modes   \* "readonly" and "readwrite"

VARIABLES mode,  \* the access mode of the profile
          work,  \* what became of the transaction
          given, \* whether the run was given up on
          told   \* what the caller was told

vars == <<mode, work, given, told>>

Init == mode \in Modes /\ work = "none" /\ given = FALSE /\ told = "waiting"

Begin ==
  /\ work = "none" /\ told = "waiting"
  /\ work' = "pending"
  /\ UNCHANGED <<mode, given, told>>

GiveUp ==
  /\ told = "waiting"
  /\ given' = TRUE
  /\ UNCHANGED <<mode, work, told>>

Work ==
  /\ work = "pending" /\ told = "waiting"
  /\ told' = "worked"
  /\ \/ mode = "readonly" /\ work' = "thrown"
     \/ mode = "readwrite" /\ (work' = "kept" \/ (given /\ work' = "thrown"))
  /\ UNCHANGED <<mode, given>>

Fail ==
  /\ told = "waiting"
  /\ told' = "failed"
  /\ \/ work = "none" /\ work' = "none"
     \/ work = "pending" /\ work' = "thrown"
     \/ work = "pending" /\ mode = "readwrite" /\ work' = "kept"
  /\ UNCHANGED <<mode, given>>

Next == Begin \/ GiveUp \/ Work \/ Fail

Spec == Init /\ [][Next]_vars /\ WF_vars(Work \/ Fail)
============================================================================
