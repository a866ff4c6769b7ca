------------------------------ MODULE Consent ------------------------------
(***************************************************************************)
(* What the assistant promises the person it works for: a class of things  *)
(* leaves the machine only once they said it may, and a statement reaches  *)
(* the database only when it reads and they said so of that statement,     *)
(* each time anew.                                                         *)
(***************************************************************************)
CONSTANTS Classes,  \* the kinds of things a request carries
          Reading   \* the statements that only read

VARIABLES agreed,  \* classes the person agreed to
          sent,    \* classes that left the machine
          granted, \* the statement the person has just agreed to, if any
          ran      \* statements that reached the database

vars == <<agreed, sent, granted, ran>>

Init == agreed = {} /\ sent = {} /\ granted = {} /\ ran = {}

Agree ==
  /\ \E classes \in SUBSET Classes : agreed' = agreed \cup classes
  /\ UNCHANGED <<sent, granted, ran>>

Send ==
  /\ \E classes \in SUBSET agreed : sent' = sent \cup classes
  /\ UNCHANGED <<agreed, granted, ran>>

Grant ==
  /\ \E statement \in Reading : granted' = {statement}
  /\ UNCHANGED <<agreed, sent, ran>>

\* What was agreed to is run once, or not at all.
Spend ==
  /\ granted' = {}
  /\ ran' = ran \cup granted \/ UNCHANGED ran
  /\ UNCHANGED <<agreed, sent>>

Next == Agree \/ Send \/ Grant \/ Spend

Spec == Init /\ [][Next]_vars
============================================================================
