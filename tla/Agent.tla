------------------------------- MODULE Agent -------------------------------
(***************************************************************************)
(* One conversation with a model: Ask appends the question and goes round  *)
(* asking for consent, sending the conversation, and running the tools the *)
(* model called, until it calls none or the rounds are used up.            *)
(*                                                                         *)
(* The environment is the model (what it calls, whether its request fails  *)
(* or is too long), the database (whether it can be read) and the person,  *)
(* who answers at the gate, stops a turn at any moment, and opens a kept   *)
(* conversation in the place of this one.  Events are taken as they come:  *)
(* what becomes of a turn nobody reads is the screen's.                    *)
(***************************************************************************)
EXTENDS Naturals, Sequences

CONSTANTS
  Tools,       \* tool names a model may call, offered or not
  Statements,  \* statements it may write
  NoStatement, \* the argument that was left out
  Reading,     \* the statements the guard finds to read only
  Writable,    \* whether the connection is READ / WRITE
  Local,       \* whether the model runs on this machine
  Rounds,      \* how often it is asked in one turn (DefaultRounds)
  MaxCalls,    \* bound: calls in one answer
  MaxAsks,     \* bound: questions
  Saved,       \* kept conversations that may be opened
  Overlaps     \* whether one may be opened while a turn is running

Catalogue == {"list_schemas", "list_tables", "describe_table", "list_indexes",
              "health_findings"}

StatementTools == {"explain_query", "run_select"}

ToolCalls ==
  {call \in [tool : Tools, statement : Statements \cup {NoStatement}] :
     call.tool \notin StatementTools => call.statement = NoStatement}

Classes == {"question", "schema", "rows"}

\* What a message really holds.
Holdings == Classes \cup {"answer", "nothing", "dropped"}

\* What a kept conversation says was said in turns before the program was started,
\* which ended by themselves or were stopped.
EndedBefore == 0
StoppedBefore == MaxAsks + 1

Message == [turn : 0..(MaxAsks + 1), role : {"user", "assistant", "tool"},
            calls : Seq(ToolCalls), tool : Tools \cup {"none"}, holds : Holdings]

\* The k-th call of the i-th message has its result, in its place.
AnsweredIn(said, i, k) ==
  /\ i + k \in DOMAIN said
  /\ said[i + k].role = "tool"
  /\ said[i + k].tool = said[i].calls[k].tool

\* The tool something came from says what it is.
Truthful(message) ==
  /\ message.holds = "schema" => message.role = "tool" /\ message.tool # "run_select"
  /\ message.holds = "rows" => message.role = "tool" /\ message.tool = "run_select"

\* No result is kept before one that was emptied.
OldestFirst(said) ==
  \A i, j \in DOMAIN said :
    i < j /\ said[i].role = "tool" /\ said[j].holds = "dropped"
      => said[i].holds = "dropped"

ASSUME StatementsAssumption == Reading \subseteq Statements /\ NoStatement \notin Statements
ASSUME SettingAssumption == {Writable, Local, Overlaps} \subseteq BOOLEAN
ASSUME BoundsAssumption == Rounds \in Nat \ {0} /\ {MaxCalls, MaxAsks} \subseteq Nat
\* Kept conversations are ones this code had before it was started: also one is kept
\* whose turn was stopped, with the calls that had no result by then.
ASSUME SavedAssumption ==
  \A said \in Saved :
    /\ said \in Seq(Message) /\ OldestFirst(said)
    /\ \A i \in DOMAIN said :
         /\ said[i].turn \in {EndedBefore, StoppedBefore} /\ Truthful(said[i])
         /\ said[i].turn = EndedBefore =>
              \A k \in DOMAIN said[i].calls : AnsweredIn(said, i, k)

VARIABLES
  messages,  \* the conversation so far
  approved,  \* classes the agent takes as approved
  phase,     \* where the goroutine of the turn is
  round,     \* the rounds before this one
  calls, at, \* the calls being worked, and which of them
  fresh,     \* classes the gate is asked about
  cancelled, \* whether the context of the turn is over
  turn,      \* the turn running, or the last one
  agreed,    \* classes the person said may be sent
  sent,      \* classes that left the machine
  granted,   \* the statement the person just agreed to
  ran,       \* statements run_select sent to the database
  stopped    \* turns that were stopped

asking == <<fresh, approved, agreed>>
working == <<calls, at>>
database == <<granted, ran>>
vars == <<messages, phase, round, cancelled, turn, sent, asking, working, database,
          stopped>>

Phases == {"rest", "permit", "asking", "request", "stream", "call", "tool",
           "approve", "query", "result", "done"}

\* The phases in which the calls of an answer are worked.
Working == {"call", "tool", "approve", "query", "result"}

TypeOK ==
  /\ messages \in Seq(Message)
  /\ approved \subseteq Classes /\ fresh \subseteq Classes
  /\ phase \in Phases
  /\ round \in 0..(Rounds - 1)
  /\ calls \in Seq(ToolCalls) /\ at \in Nat
  /\ phase \in Working => at \in DOMAIN calls
  /\ cancelled \in BOOLEAN
  /\ turn \in 0..MaxAsks /\ stopped \subseteq 0..MaxAsks
  /\ agreed \subseteq Classes /\ sent \subseteq Classes
  /\ granted \subseteq Statements /\ ran \subseteq Statements

Init ==
  /\ messages = <<>> /\ approved = {}
  /\ phase = "rest" /\ round = 0
  /\ calls = <<>> /\ at = 0 /\ fresh = {}
  /\ cancelled = FALSE
  /\ turn = 0 /\ stopped = {}
  /\ agreed = {} /\ sent = {} /\ granted = {} /\ ran = {}

-----------------------------------------------------------------------------
(* What the conversation carries. *)

\* Mutant: rows are taken for the shape of the database.
RowsFromNone(tool) == tool = "select"

RowsFrom(tool) == tool = "run_select"

\* What a request would carry, as permit reads it off the names of the tools.
Carrying(said) ==
  {"question"} \cup {IF RowsFrom(said[i].tool) THEN "rows" ELSE "schema" :
                       i \in {j \in DOMAIN said : said[j].role = "tool"}}

\* What it does carry.
Carried(said) == {said[i].holds : i \in DOMAIN said} \cap Classes

\* Mutant: a result that was emptied is emptied again.
RoomInAny(said) == {i \in DOMAIN said : said[i].role = "tool"}

\* The results compact can empty to make room.
RoomIn(said) == {i \in DOMAIN said : said[i].role = "tool" /\ said[i].holds # "dropped"}

\* Mutant: the newest result goes first.
CompactedNewest(said) ==
  LET newest == CHOOSE i \in RoomIn(said) : \A j \in RoomIn(said) : j <= i
  IN  [said EXCEPT ![newest].holds = "dropped"]

Compacted(said) ==
  LET oldest == CHOOSE i \in RoomIn(said) : \A j \in RoomIn(said) : i <= j
  IN  [said EXCEPT ![oldest].holds = "dropped"]

Question == [turn |-> turn', role |-> "user", calls |-> <<>>, tool |-> "none",
             holds |-> "question"]

Answered(called) == [turn |-> turn, role |-> "assistant", calls |-> called,
                     tool |-> "none", holds |-> "answer"]

Result(holds) == [turn |-> turn, role |-> "tool", calls |-> <<>>,
                  tool |-> calls[at].tool, holds |-> holds]

-----------------------------------------------------------------------------
(* Ask and run: one turn, round by round. *)

Ask ==
  /\ phase = "rest" /\ turn < MaxAsks
  /\ turn' = turn + 1
  /\ messages' = Append(messages, Question)
  /\ phase' = "permit" /\ round' = 0
  /\ cancelled' = FALSE
  /\ UNCHANGED <<sent, asking, working, database, stopped>>

\* Ask returns to the screen.
Returns ==
  /\ phase' = "rest"
  /\ fresh' = {} /\ calls' = <<>> /\ at' = 0
  /\ UNCHANGED <<messages, round, cancelled, turn, sent, approved, agreed, database>>

\* It has an answer, or an error.
Over == Returns /\ UNCHANGED stopped

\* The error is that its context is over.
OverStopped == Returns /\ cancelled /\ stopped' = stopped \cup {turn}

\* The classes nobody approved yet; a model on this machine needs none.
Unapproved == IF Local THEN {} ELSE Carrying(messages) \ approved

Permit ==
  /\ phase = "permit"
  /\ fresh' = Unapproved
  /\ phase' = IF Unapproved = {} THEN "request" ELSE "asking"
  /\ UNCHANGED <<messages, round, cancelled, turn, sent, approved, agreed,
                 working, database, stopped>>

Allow ==
  /\ phase = "asking"
  /\ phase' = "request"
  /\ approved' = approved \cup fresh
  /\ agreed' = agreed \cup fresh
  /\ fresh' = {}
  /\ UNCHANGED <<messages, round, cancelled, turn, sent, working,
                 database, stopped>>

Refuse == phase = "asking" /\ Over

\* Mutant: the gate waits for the person and for nothing else.
AskGivenUpNever == phase = "asking" /\ cancelled /\ UNCHANGED vars

AskGivenUp == phase = "asking" /\ OverStopped

\* A request goes out; one on a context that is over does not.
Chat ==
  /\ phase = "request" /\ ~cancelled
  /\ phase' = "stream"
  /\ sent' = IF Local THEN sent ELSE sent \cup Carried(messages)
  /\ UNCHANGED <<messages, round, cancelled, turn, asking, working, database, stopped>>

ChatFails ==
  /\ phase \in {"request", "stream"}
  /\ Over \/ OverStopped

\* The conversation is too long: the oldest result is emptied, and it is sent again.
Overflow ==
  /\ phase = "stream"
  /\ RoomIn(messages) # {}
  /\ messages' = Compacted(messages)
  /\ phase' = "request"
  /\ UNCHANGED <<round, cancelled, turn, sent, asking, working, database, stopped>>

Answer ==
  /\ phase = "stream"
  /\ \E called \in UNION {[1..n -> ToolCalls] : n \in 0..MaxCalls} :
       /\ messages' = Append(messages, Answered(called))
       /\ calls' = called /\ at' = 1
       /\ phase' = IF called = <<>> THEN "done" ELSE "call"
  /\ UNCHANGED <<round, cancelled, turn, sent, asking, database, stopped>>

\* The last event is sent, whether or not the model had more to ask for.
Done == phase = "done" /\ (Over \/ OverStopped)

-----------------------------------------------------------------------------
(* work, and Call of the tools: one call after the other. *)

Call ==
  /\ phase = "call" /\ ~cancelled
  /\ phase' = "tool"
  /\ UNCHANGED <<messages, round, cancelled, turn, sent, asking, working,
                 database, stopped>>

CallStopped == phase = "call" /\ OverStopped

\* A failure is an answer too.
Gives(holds) ==
  /\ messages' = Append(messages, Result(holds))
  /\ phase' = "result"
  /\ UNCHANGED <<round, cancelled, turn, sent, asking, working, stopped>>

\* Reading the catalogue, or a tool there is not.
Read ==
  /\ phase = "tool" /\ calls[at].tool \notin StatementTools
  /\ \/ calls[at].tool \in Catalogue /\ Gives("schema")
     \/ Gives("nothing")
  /\ UNCHANGED database

\* What the guard says of a statement, by the mode of the connection.
Verdict(statement) ==
  IF statement \in Reading THEN "allowed"
  ELSE IF Writable /\ statement # NoStatement THEN "needs confirmation"
  ELSE "blocked"

\* allowed: only a statement that reads, in either mode.
Allowed == Verdict(calls[at].statement) = "allowed"

GuardRefuses ==
  /\ phase = "tool" /\ calls[at].tool \in StatementTools /\ ~Allowed
  /\ Gives("nothing")
  /\ UNCHANGED database

\* A plan is read without running the statement, and nobody is asked.
Explain ==
  /\ phase = "tool" /\ calls[at].tool = "explain_query" /\ Allowed
  /\ Gives("schema") \/ Gives("nothing")
  /\ UNCHANGED database

RunSelect ==
  /\ phase = "tool" /\ calls[at].tool = "run_select" /\ Allowed
  /\ phase' = "approve"
  /\ UNCHANGED <<messages, round, cancelled, turn, sent, asking, working,
                 database, stopped>>

Grant ==
  /\ phase = "approve"
  /\ phase' = "query"
  /\ granted' = {calls[at].statement}
  /\ UNCHANGED <<messages, round, cancelled, turn, sent, asking, working, ran,
                 stopped>>

\* Mutant: what was not allowed to run is passed over without a word.
DenySilently ==
  /\ phase = "approve"
  /\ phase' = "result"
  /\ UNCHANGED <<messages, round, cancelled, turn, sent, asking, working,
                 database, stopped>>

Deny ==
  /\ phase = "approve"
  /\ Gives("nothing")
  /\ UNCHANGED database

GrantGivenUp ==
  /\ phase = "approve" /\ cancelled
  /\ Gives("nothing")
  /\ UNCHANGED database

\* The statement runs; an error of the server may quote the rows.
Query ==
  /\ phase = "query"
  /\ Gives("rows")
  /\ ran' = ran \cup granted /\ granted' = {}

\* It does not get as far as the server.
QueryFails ==
  /\ phase = "query"
  /\ Gives("nothing")
  /\ granted' = {} /\ UNCHANGED ran

\* Mutant: one round more than there are.
LastRoundLate == round = Rounds

LastRound == round = Rounds - 1

\* The result is told, and it is the turn of the next call, or of the next round.
Tell ==
  /\ phase = "result"
  /\ \/ /\ at < Len(calls)
        /\ at' = at + 1
        /\ phase' = "call" /\ UNCHANGED <<calls, round>>
     \/ /\ at = Len(calls)
        /\ calls' = <<>> /\ at' = 0
        /\ \/ LastRound /\ phase' = "done" /\ UNCHANGED round
           \/ ~LastRound /\ phase' = "permit" /\ round' = round + 1
  /\ UNCHANGED <<messages, cancelled, turn, sent, asking, database, stopped>>

TellStopped == phase = "result" /\ OverStopped

-----------------------------------------------------------------------------
(* The screen's part: stopping a turn, and opening a kept conversation. *)

Stop ==
  /\ phase # "rest" /\ ~cancelled
  /\ cancelled' = TRUE
  /\ UNCHANGED <<messages, phase, round, turn, sent, asking, working, database,
                 stopped>>

\* Resume does not ask whether a turn is running.
Resume ==
  /\ Overlaps \/ phase = "rest"
  /\ messages' \in Saved
  /\ UNCHANGED <<phase, round, cancelled, turn, sent, asking, working, database,
                 stopped>>

\* The goroutine of the turn.
Step ==
  \/ Permit \/ AskGivenUp \/ Chat \/ ChatFails \/ Overflow \/ Answer \/ Done
  \/ Call \/ CallStopped \/ Read \/ GuardRefuses \/ Explain \/ RunSelect
  \/ GrantGivenUp \/ Query \/ QueryFails \/ Tell \/ TellStopped

Person == Ask \/ Allow \/ Refuse \/ Grant \/ Deny \/ Stop \/ Resume

Next == Step \/ Person

\* The goroutine runs on: the model and the database answer or fail, or the context
\* ends them.  Of the person nothing is assumed.
Spec == Init /\ [][Next]_vars /\ WF_vars(Step)

-----------------------------------------------------------------------------
(* What must hold. *)

\* The promise to the person: what leaves the machine is of a class they agreed to,
\* by what the messages hold and not by what their tool is called, and every
\* statement that reaches the database reads and was agreed to for that one time.
Promise == INSTANCE Consent

NothingUnasked == Promise!Spec

\* Every call the model made has its result, in its place, or the conversation has
\* not got there yet, or the turn was stopped on the way, now or before the
\* conversation was kept: a tool that is refused, denied or fails says so in it.
CallsAreAnswered ==
  \A i \in DOMAIN messages : \A k \in DOMAIN messages[i].calls :
    \/ AnsweredIn(messages, i, k)
    \/ i + k > Len(messages) /\ phase \in Working
    \/ messages[i].turn \in stopped \cup {StoppedBefore}

\* Making room takes the oldest results first: no result is kept before one that
\* was emptied.
OldestGoesFirst == OldestFirst(messages)

\* A turn waits for nobody but the person: it comes to its end or to a question,
\* however often the conversation turns out to be too long.
OnlyThePersonIsWaitedFor == []<>(phase \in {"rest", "asking", "approve"})

\* A turn that was stopped ends, even while the person is being asked something.
StoppedTurnsEnd == cancelled ~> phase = "rest"

(* What the documentation says and the code does not keep.                  *)

\* agent.go: permit asks for consent when a turn would leave the machine.  Nothing
\* is sent of a class the person was not asked about.
AskedBeforeSent == sent \subseteq agreed

\* agent.go: the agent asks a model, runs the tools the model asks for, and asks
\* again with what they returned.  Whatever is sent answers every call in it.
AsksWithWhatTheyReturned ==
  phase = "stream" =>
    \A i \in DOMAIN messages : \A k \in DOMAIN messages[i].calls :
      AnsweredIn(messages, i, k)
==============================================================================
