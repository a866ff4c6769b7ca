------------------------------ MODULE MCAgent ------------------------------
(* Agent over a tool that reads the catalogue, the two that take a statement, *)
(* and a statement of either kind.                                            *)
EXTENDS Agent

SomeTools == {"list_tables", "explain_query", "run_select"}
FewTools == {"list_tables", "run_select"}
SomeStatements == {"read", "write"}
SomeReading == {"read"}
SomeNone == "none"

Kept(of, role, called, tool, holds) ==
  [turn |-> of, role |-> role, calls |-> called, tool |-> tool, holds |-> holds]

\* No conversation, which is what beginning another one resumes.
OnlyNew == {<<>>}

RunsOne == <<[tool |-> "run_select", statement |-> "read"]>>

\* That, one in which a statement was run, and one whose only turn was stopped
\* before its statement was.
SomeSaved ==
  {<<>>,
   << Kept(EndedBefore, "user", <<>>, "none", "question"),
      Kept(EndedBefore, "assistant", RunsOne, "none", "answer"),
      Kept(EndedBefore, "tool", <<>>, "run_select", "rows"),
      Kept(EndedBefore, "assistant", <<>>, "none", "answer") >>,
   << Kept(StoppedBefore, "user", <<>>, "none", "question"),
      Kept(StoppedBefore, "assistant", RunsOne, "none", "answer") >>}
============================================================================
