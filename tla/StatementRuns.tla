--------------------------- MODULE StatementRuns ---------------------------
(***************************************************************************)
(* What the editor promises about the statements it sends, whatever tabs   *)
(* and connections do meanwhile: a statement is sent once to one           *)
(* connection, its answer is taken once or dropped, never both, and what   *)
(* is taken is written to the history under the connection it ran through. *)
(***************************************************************************)
EXTENDS Naturals

CONSTANTS Tokens,       \* what stamps a run
          Connections   \* what a run can go through

VARIABLES fate,   \* where each run is
          ranOn,  \* the connection it was sent to, 0 before
          filed   \* the lines of the history

vars == <<fate, ranOn, filed>>

Init ==
  /\ fate = [token \in Tokens |-> "unsent"]
  /\ ranOn = [token \in Tokens |-> 0]
  /\ filed = {}

Send(token, on) ==
  /\ fate[token] = "unsent"
  /\ fate' = [fate EXCEPT ![token] = "out"]
  /\ ranOn' = [ranOn EXCEPT ![token] = on]
  /\ UNCHANGED filed

Land(token) ==
  /\ fate[token] = "out"
  /\ fate' = [fate EXCEPT ![token] = "landed"]
  /\ filed' = filed \union {[token |-> token, on |-> ranOn[token]]}
  /\ UNCHANGED ranOn

Drop(token) ==
  /\ fate[token] = "out"
  /\ fate' = [fate EXCEPT ![token] = "dropped"]
  /\ UNCHANGED <<ranOn, filed>>

Next ==
  \E token \in Tokens :
    \/ \E on \in Connections : Send(token, on)
    \/ Land(token) \/ Drop(token)

Spec ==
  /\ Init
  /\ [][Next]_vars
  /\ \A token \in Tokens : WF_vars(Land(token) \/ Drop(token))
============================================================================
