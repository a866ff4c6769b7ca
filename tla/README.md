# OpenDBA in TLA+

OpenDBA is a terminal program in Go for working with PostgreSQL, SQL Server and
SQLite: an editor with tabs, a schema tree, dashboards, an assistant, exports.
This directory models the parts of it in which the order of events decides what
is right, checks them with TLC on small instances, and proves the invariants that
matter most with TLAPS for every size.

Paths below are relative to `src/cli/`.

## How the program works

The interface is one loop, `Model.Update` (`internal/app/model.go:387`), that
takes one message at a time and answers with commands. Every command runs in a
goroutine of its own and comes back as another message, in any order and between
any two keys. There are no locks around the model, so there are no data races in
it: what goes wrong is a handler that finds a tab, a connection or a dialog other
than the one its message was sent from. Below the loop, `internal/driver` runs one
statement inside one transaction per call, and its context may be cancelled from
the loop at any moment. Three kinds of work outlive one command: a turn of the
assistant, an export and a download. Each is a goroutine that hands what it has to
say through channels, read by a command that the loop sends again after each piece.

## Inventory

| Component | State it keeps | Operations | What makes it correct |
|---|---|---|---|
| Editor workbench (`internal/app`: model, tabs, links, switcher, connections, modal, history, crash) | the strip of tabs with a stowed copy of the front one, the open connections and the one in front, the dialog, a token and a cancel per tab | run, halt, type, open, close and move between tabs, open, switch and close connections, answer a question, choose in the palette | an answer lands in the tab that asked; the tab in front is on the connection in front; nothing abandoned runs on uncancelled; the history names the connection that ran; a question is about what it named |
| Driver result set (`internal/driver/*/query.go`) | a transaction, a cursor, a cap, the first error, a deadline context | open, Next, Close, Finish | nothing left open; what was given up on is not kept; a READ ONLY profile keeps nothing; the cut is said when there is one; failures are reported |
| Driver connections, health, plans, sessions | a pool | catalogue reads | conversions of rows |
| SQL guard and dialects (`pkg/sqlguard`, `pkg/sqldialect`) | none | classify a statement in a mode | deny unless every statement of the text is understood and reads |
| Assistant: agent and tools (`internal/ai/agent`, `internal/ai/tool`) | the messages, the classes approved, the round | ask, permit, send, compact, work the calls, resume | nothing leaves the machine and nothing is run unasked; every call has its result; a turn ends |
| Assistant: the conversation screen (`internal/app/ask.go`) | per connection: an agent, a running turn, a question waiting at the gate, a token | ask, stop, approve, refuse, load, unload, switch away, close | every approval reaches the turn it was about; the agent is never left blocked |
| Kept conversations and query history (`internal/chats`, `internal/history`) | SQLite tables trimmed to a limit | save, list, remove, clear, trim | no message without its conversation; the newest are kept |
| Saved statements (`internal/app/files.go`, `internal/sqlfiles`) | a directory for each connection; per tab a name and the saved text | save, name, overwrite, open, delete | a tab not marked as changed shows what its file holds; nothing is written over unasked |
| Export (`internal/app/export.go`) | a job with a progress channel, a dialog that may close, a temporary file | start, progress, cancel, end | a whole file or none; a dialog that says it writes is told the end; what is given up on is thrown away |
| Reads of a connection (`catalog.go`, `databases.go`, `activity.go`) | loading and read flags, a beat and its generation | read, filter, refresh, stop a session | a read answers to the connection it was asked of |
| Settings, secrets, configuration (`internal/config`, `pkg/secretref`, `internal/cli/setup.go`) | TOML files, a vault file, a cached passphrase | load, save, set, delete | no secret without a profile, no lost update |
| Local models (`internal/ai/providers/local`) | part files, manifests, one loaded session | download, resume, verify, load, close | what is in place is whole and verified |
| Hosted providers, transport (`internal/ai`) | none across requests | send with retries, read a stream | bounded retries, the context is obeyed |
| Command line, terminal kit, reports, generated parsers, development tools | | | sequential, drawing, or generated |

The hard behaviours are listed with their lines under `hazards` in
`PROJECT.json`. They fall in four families: a message that comes back to a loop
whose front has changed (most of `internal/app`); a context that ends between two
steps of a statement; a store or file written in two steps without a transaction;
a goroutine that waits for somebody who has gone.

Nearly all of the lines of the source are parsers generated from the grammars of the
three databases (`internal/parser/generated`); they hold no logic of this program.

## Modules

| Module | What it is |
|---|---|
| `Workbench` | the editor: tabs, connections, statements out, dialogs, palette |
| `StatementRuns` | abstract: the life of a statement, implemented by `Workbench` |
| `MCWorkbench` | the small instances of `Workbench` |
| `WorkbenchProofs` | theorems about `Workbench` |
| `ResultSet` | one statement through a driver, for the three drivers |
| `StatementWork` | abstract: what becomes of a statement's work, implemented by `ResultSet` |
| `MCResultSet` | the small instance of `ResultSet` |
| `Agent` | a conversation with a model: rounds, consent, tools, approval |
| `Consent` | abstract: what leaves the machine and what is run, implemented by `Agent` |
| `MCAgent` | the small instances of `Agent` |
| `AgentProofs` | theorems about `Agent` |
| `Conversation` | the Ask screens of the open connections and the turns beside them |
| `ConversationProofs` | theorems about `Conversation` |
| `Chats` | kept conversations: the screens over the store they are kept in |
| `ChatsProofs` | theorems about `Chats` |
| `Files` | saved statements: the tabs over the directories they are saved in |
| `FilesProofs` | theorems about `Files` |
| `Reads` | what is read of each connection, and the form that filters it |
| `ReadsProofs` | theorems about `Reads` |
| `Export` | the dialog, the goroutine that writes a file, and the watchers between |
| `ExportProofs` | theorems about `Export`, and about `ResultSet` |
| `Downloads` | models fetched to this machine, and the screens that ask for them |
| `DownloadsProofs` | theorems about `Downloads` |
| `MCConversation`, `MCChats`, `MCFiles`, `MCReads`, `MCExport`, `MCDownloads` | their small instances |

The detailed modules meet at the tab (`Workbench`, `Files`), the connection
(`Workbench`, `Conversation`, `Chats`, `Reads`) and the conversation (`Agent`,
`Conversation`, `Chats`); each takes from the others only what its own handlers
look at, so that each can be checked by itself.

### Workbench

| TLA+ | Code |
|---|---|
| `sheets`, `sheet` | `Model.sheets`, `Model.sheet`, `Model.worksheet`; a tab is a record of `on`, `text`, `token`, `stop` (whose cancel it holds), `inflight` and `shown` (whose result it shows) |
| `links`, `link` | `Model.links`, `Model.linked`; a connection is known by its `sessionID` |
| `commands` | what runs in a goroutine: queries out, connections being opened, and what a dialog or the palette returns as a command (`modalKey`, `paletteKey`) |
| `modal` | `Model.modal`, as the question it asks |
| `sent` | the calls of `Model.run`; the place in the sequence is `Model.runs`, which is the token |
| `cancelled` | the contexts whose cancel was called |
| `history` | what `wroteDown` hands to the history store |
| `Run`, `Attempt`, `Halt`, `Returned` | `run`, `attempt`, `halt`, `returned` |
| `OpenSheet`, `New`, `Move`, `CloseSheet`, `Reopen`, `OpenTable` | `openSheet`, `onSheet`, `closeSheet`, `reopen`, `openTable` |
| `Through` | `through`: a tab comes in front with its connection |
| `Open`, `Switched`, `Troubled`, `Went`, `Aim` | `answered4Switch`, `switched`, `troubled4Switch`, `went4Switch`, `aimed4Switch` |
| `AskToDisconnect`, `Disconnected` | `askToDisconnect`, `disconnected` with `closed4Link` |
| `Choose`, `Chosen` | the palette closes and returns its row as a command; the row is acted on when that comes back |
| `AnswerYes`, `AnswerNo`, `RunConfirmed`, `CloseConfirmed`, `DisconnectConfirmed` | `modalKey`, and the handlers of `runMsg`, `closeSheetMsg`, `disconnectMsg` |
| `Crashed` | `crashed`, the message of a guarded job that panicked |

What is abstracted: tabs and connections are named by the identity they are minted
with, so the order of the strip, the position of a tab in it and the front tab's
second copy are left out (which tab comes in front when one closes is any of those
that stay); a statement is a member of a small set, and the guard's verdict a
function of whether it only reads and of the profile's mode; drawing, toasts and
the other screens are left out. A key works only while no dialog is up, as in
`Model.key`; messages are handled whatever is up.

### ResultSet

One statement from `BeginTx` to `driver.Finish`, with the driver, the mode, the
cap, the number of rows and whether the statement fails behind its last row as the
parameters chosen in `Init` (`config`). The actions are the calls of `open`, `Next`
and `Close`; `Over`, the end of the context, may come between any two of them. The
three drivers differ in that only PostgreSQL lifts the statement timeout for a
stream (`Lifts`), only SQL Server holds a deadline context (`Watches`), PostgreSQL
refuses to commit a transaction in which a statement failed (`Refuses`), and only
its rollback is sent on the context of the run (`Hears`). That the server may lose
the answer of a commit, or end the rows early when the context ends, is the
environment. `Explain`, and the export's reader, which ignores the error of
`Close`, are not modelled.

### Agent

The goroutine of a turn (`Agent.Ask`), as one variable `phase` that says which call
it is in, with the model, the database and the person as the environment.

| TLA+ | Code |
|---|---|
| `messages` | `Agent.messages`; a message keeps its role, its calls, the tool a result came from, and what it really holds, which the code does not know |
| `approved`, `round` | `Agent.approved`, the loop variable of `run` |
| `calls`, `at` | the argument and the loop variable of `work` |
| `fresh` | the classes in the question at the gate |
| `cancelled` | the context of the turn; a new one with every `Ask` |
| `turn` | the turns of the screen, counted |
| `agreed`, `sent`, `granted`, `ran`, `stopped` | what happened, for the properties: nothing in the code reads them |
| `Ask`, `Permit`, `Chat`, `ChatFails`, `Overflow`, `Answer`, `Done` | `Ask`, `permit`, `stream`, `turn`, `compact`, `run` |
| `Call`, `CallStopped`, `Tell`, `TellStopped` | `work`, with its look at the context and its two sends |
| `Read`, `GuardRefuses`, `Explain`, `RunSelect`, `Query`, `QueryFails` | `Set.run` of the tools; `Gives` is `Set.Call` with the append in `work` |
| `Allow`, `Refuse`, `Grant`, `Deny` | the two keys of `decide`, through the gate |
| `AskGivenUp`, `GrantGivenUp` | the context that ends while `gate.ask` waits |
| `Over`, `OverStopped` | `Ask` returns to the goroutine of `started`, with its answer or an error, or because its context is over |
| `Stop`, `Resume` | `halted`; `Agent.Resume`, from `openedChat` and `startChat` |

What is abstracted: texts, and the size of what is sent; the pieces of a stream
(it is answered, or it fails, or it is too long); who reads the events, which are
taken as they come. The plan of a statement and the catalogue are one class, as in
the code. `Resume` replaces the messages in one step: that it runs beside the
turn's goroutine without a lock, so that a read may see half of it, is left out. A
question can be put only when no turn is running (`send` looks at `busy`);
`Resume` has no such guard in the code, and `Overlaps` says whether it is used
under a turn.

### Conversation

One record per connection, as `chat` of `ask.go`; `turns` are the goroutines of
`started`, each in one of its stages: working, blocked on an event (`telling`) or
at the gate (`asking`), waiting for the answer to a question that was read, or
over. `readers` are the `waitForAsk` commands under way and `messages` what they
read; nothing is read for a screen unless a handler sends the command again, which
is what `RunningIsFollowed` is about. `Ready` hands a loaded model to whichever
screen is in front, as `ready` does, whichever it was loaded for. An agent is told
by the connection it was built over, at whose gate its turns ask; which model it is
of is left out. What a turn says and asks, and what an answer at the gate
makes of it, is `Agent`'s.

### Chats

`updated` and `words` are the two tables of `internal/chats`, an id with no row or
no messages being 0 and the empty set; `owner` is kept for the properties and says
which conversation an id was inserted for. A job is one call of the store, of
which each action is one statement or one transaction: `Write` is the transaction
of `Save`, `TrimWords` and `TrimRows` the two deletes behind it, `TakeWords` and
`TakeRows` those of `Remove` and `Clear`, `ReadRow` and `ReadWords` the two queries
of `Load`. `Cut` ends a job at any of them and `Restart` the program. A screen is
its id, its thread counter, what its agent holds and whether there is one. A save
that waited for the store while another job ran may carry a time from before what was
written meanwhile (`Times`): the time is taken in front of the transaction
(`chats.go:145`). Two saves of one conversation, a turn or a key apart, are taken to
come to the store in the order of their times. A turn whose model was let go of while
it answered keeps nothing, and changes nothing here. `Slots` are the places of jobs
under way, one beside another and all alike.
`Elsewhere` says whether a save may be answered with another connection in front.

### Files

A tab is the connection it is worked through, its file, its text and what it takes
its file to hold; `disk` and `temp` are the files and the temporary ones beside
them. A job goes through `Stat` (`Create`), `Fill` and `Rename` (`Write`), or is a
reading or a removal, and lands as a message; so does the answer to a question,
which carries the position of a tab where the code's message does. `now` and
`over` are kept for the properties: where the tab is by then, and which directory
the one who was asked agreed to write in. `unsure` are the files something
happened to that their tab was not told of (another tab wrote or removed it, two
calls on one file at once, a tab closed under its write, a tab aimed at another
connection); the properties say nothing of those, and the run does not follow a
behaviour further than to the first. Positions are real here: tabs are a sequence.

### Reads

`links` holds what each open connection was read to hold; `jobs` is a bag of what is under way. A read of the catalogue carries the
schemas it was asked for. Nothing bars a change of the front connection, at any
moment. Two sets are kept for the properties alone. `crossed` are the connections whose
tables nothing is said of: reads of two sets of schemas were under way at once, of which
either may land last, or it was narrowed and not read, or its read failed, and it was
not read alone since. `lent` are those whose loading mark stands for something else
than a read of their own: a connection that is being opened, or the read of another.
What a guarded job that falls over does to the marks (`crash.go:95`) is not part of it.

### Export

`exporter` is the dialog and `runs` the goroutines of `startExport`, one step of
`write4Export` at a time; `watchers` is the bag of `watchExport` commands, with the
token they carry. A dialog counts its tokens from one, so the word of a run that
was given up on may be taken for a word about the next: `Exporting` then watches
the next in its place, and `Exported` takes the end of one for the end of the other, as
the code does. A run that is cancelled may still come to the end of its rows
(`Pour`): rows in memory are written without a look at the context, and a driver may
hand over what it has and end cleanly. `Switched` is a connection that comes in front
under the dialog: `here` says whether the one in front is still the one whose result is
on the screen, and `rows` of a run where it reads. `Crashed` is a guarded job that falls
over and takes the dialog with it, while what was begun goes on. The program itself ending
in the middle, which leaves the temporary file, is left out.

### Downloads

`contents` are files and `part`, `final` the names they have, so that a file that
was removed or renamed while a download writes it is still the file it writes. A
download is one goroutine, a step for each thing it waits for or does to the disk:
`ResumeAt`, `Open` (the answer of the hub, which may be the whole file), `Rehash`,
`Chunk`, `EndOfBody`, `Verify`, `Rename`, `Record`. A chunk is a number, its place
in the model; what belongs to another revision or was never written is `Strange`.
`hub` says whether the checksum is vouched for, whether ranges are answered and
whether the length of a body is said: where it is not, a body that is cut short ends as
a whole one does (`EndOfBody`). `Carried` says whether the build carries the inference
library; without it there is nothing to install. `Removes` is for a removal agreed to
while a download begins: only with `Overlaps` do the two meet.
`screens` are what the two screens know: what is busy, what is wanted once the
library has come, what they last read of the disk. `Crash` ends a program anywhere,
`CrashRemoving` in the middle of a removal.

## Runs

| Run | Bounds | Checks and shows |
|---|---|---|
| `workbench` | 2 connections of one profile, 3 tabs, both statements, 1 out, 1 answer on its way, jobs may fall over | the safety invariants and action properties below |
| `promise` | 2 connections of two profiles, 2 tabs, 2 statements out | `Workbench` implements `StatementRuns`; what was abandoned was cancelled; a running tab settles |
| `result_set` | 3 drivers, 2 modes, caps none, 1, 2, up to 3 rows | the driver's invariants, and `ResultSet` implements `StatementWork` |
| `agent` | 3 tools, statements that read and write, 2 rounds of at most 2 calls, 1 question, in a new conversation, a kept one, and a kept one whose turn was stopped | `Agent` implements `Consent`; every call of a turn that was not stopped is answered in its place; room is made from the oldest result; turns end or wait for the person |
| `conversation` | 2 connections, 2 turns with 2 events or questions between them, a model that runs here, chosen anew at any time, 1 job that falls over | a running turn is followed, in one way only; what is agreed to is asked there; a stopped turn gives its screen back |
| `chats` | 2 connections, a limit of 1, 2 conversations, 2 turns, 2 jobs at once, 1 wish, 1 cut | the halves of a conversation go together; a trim mends; ids stay with their own |
| `kept_whole` | 1 connection, 2 turns, 1 wish | a violation, see Findings |
| `files` | 2 directories, 1 name, 2 texts, 2 tabs, 2 calls at once | closing loses nothing; nothing is written over unasked |
| `reads` | 2 connections, 2 sets of schemas, 3 reads at once | what is shown was read there; tables follow the filter where reads did not cross; a mark of a connection's own read is followed |
| `export` | 2 paths, 2 exports | a file is whole; while the dialog says it writes, its own run is waited for |
| `downloads` | 1 program, a model of 2 chunks, 3 downloads | what is here is whole, of a hub that says a length or a hash; the hash is of the file; stopping ends |
| `stuck_part` | the same | a violation, see Findings |

`workbench` checks: `TabsStandOnOpenConnections`, `AnswersBelongToTheirTab`,
`RunningMeansOut`, and for steps `HoldsStill` (a tab holding something is never
aimed at another server) and `TabsGoOnlyOnAnAnswer` (a tab goes only when an answer to
close, which takes the one in front, or to disconnect, which takes those of its
connection, is handled); `promise` `FiledWhereItRan`
and `AbandonedIsCancelled`, which hold only while no job falls over, the refinement
`RunsKeepTheirPromise` and `EveryRunSettles`. `result_set` checks `NothingLeftOpen`,
`TruncationIsHonest` (what worked while its context was not over says whether it was
cut off), `GivenUpIsThrown` (work given up on is not kept) and the
refinement `WorkIsSettled`. Every module states its type invariant; `TypeOK` is
checked and proved for `Workbench`, `ResultSet` and `Agent`, proved for `Files`,
and holds in the others within the bounds of their runs, whose configurations list
only the deeper properties.

Why the bounds are enough. Every hazard of the workbench is about one thing that
changed while one message was out: two statements give a run and one that
overtakes it or is written over, two connections give one in front and one that is
not, with one of them closing, three tabs give the one in front, one that is asked
about and one left behind. `opened` and `minted` count what was ever made, so with
three tabs ever made closing the last tab and being given a new one is among the
behaviours. Rows and answers that were chosen and have not come back are a set:
with `MaxSaid = 1` two equal ones never have to be told apart. Both modes of a
profile, and two statements out at once, are in `promise`. For the result set, a
cap below, at and above the number of rows, and none, are all among caps 0 to 2 and
rows 0 to 3. For the agent two rounds give one before and one after a tool has
returned something, two calls in an answer one that is worked and one that waits,
and the kept conversation a request that carries rows before any tool was called;
the program uses eight rounds (`DefaultRounds`). More questions than one are in
the proofs. `MaxCalls` and `MaxAsks` are bounds
of the model, not of the code. Only hosted models are checked: with `Local` no
consent is asked for and nothing leaves the machine; the proofs cover both.

The other modules follow the same rule: two of whatever can be confused, and one
of what only has to happen. Two turns are one that is left behind by a crash, a
closed connection or another model, and the one that is followed now; their two
events may both be questions. A limit of one conversation makes every second save
a trim, and two jobs at once are a save beside any other call. Two tabs on two
connections with one name are two files of that name; one text besides the empty
one tells a changed tab from a saved one. Three reads are the health and the
catalogue of one connection and something of the other. Two exports are the one
given up on and the one that follows. Two chunks give a part that is neither empty
nor whole; three downloads one given up on, the library, and one that carries on.
Symmetry is used in `files`, over the two connections, and in `chats`, over the places
of jobs: both are alike in the model and in the properties.

Deadlock is checked in `workbench`, `promise`, `agent`, `files`, `reads` and
`export`. It is not in `result_set` (a statement that is done takes no further
step), `conversation`, `chats` and `downloads`, where the bounds on turns, cuts and
downloads stop the model, nor in the two that are violated.

Fairness. `Workbench` assumes only that each statement's command comes back
(`WF_vars(Returned(token))`): a statement ends when the server answers, when its
statement timeout passes, or when its context is cancelled, and the loop handles
what comes back. Nothing is assumed of the person: no key, no answer and no new
connection has to come. `ResultSet` assumes that the goroutine of the statement
takes its next step (`WF_vars(Step)`), for the same reason; the context need never
end. `Agent` assumes the same of the goroutine of its turn: a request is answered
or fails, a tool returns, and a wait at the gate ends when its context does. That
the person ever answers, or stops a turn, is not assumed. `Conversation` assumes
that turns run and give up when their context is over, that a command that waits
for something that is there reads it, and that the loop handles what lands. In
`Downloads` the goroutine does what it can do alone, notices that it was given up
on wherever it waits, and is read by the command that watches it; the hub owes no
answer. The other modules have safety properties only, and assume nothing.

## Proofs

All theorems hold for every set of profiles, statements and palette rows and every
bound, from the assumptions named in the modules.

`WorkbenchProofs`. The inductive invariant `IInv` is the type invariant with
`TabsStandOnOpenConnections`, `AnswersBelongToTheirTab` and `RunningMeansOut`,
which need each other (an answer may be filed where its tab sits only because the
tab does not move while it runs), and four facts that carry the rest: `HistoryIsSent`
(a line is about a statement that was sent), `RunsWhereItSits` (a tab whose statement
is out is marked running and still on the connection it was sent through),
`FiledIfCalm` and `CancelledIfCalm`. The last three hold only while no guarded
job has fallen over (`~Panics`): `Crashed` breaks them, which is a finding. Most
handlers neither send nor hear a statement; the lemma `MoveKeeps` shows once that
such a step (`Moves`: the tabs that stay keep their runs, those that go are
cancelled) keeps the invariant, and each handler is then shown to be one.
`Run` and `Returned` are proved one by one. Theorems: `TypeCorrect`, `TabsStand`,
`AnswersBelong`, `TheMarkIsTrue`, and for `~Panics` `FiledTruly` and
`TheAbandonedAreCancelled`. Three more follow from the same
invariant. `TabsHoldStill` and `TabsGoOnAnAnswer` say what a step may do to the
strip: `Through` moves a tab only when the connection it is on is not held, and
`TabsStandOnOpenConnections` says that it is. `StatementsLiveOnce` (for `~Panics`) is
the safety part of the refinement of `StatementRuns`: every step sends one statement,
hears one, or does neither (`StepSpeaks`), and the abstract step follows. It needs
`Tallied`: a statement in the history is out no more, so that none is taken twice,
and the connections that are open or being opened stay within the bound.

The second half of `ExportProofs` is about `ResultSet`, which runs the statement of an
export that reads it again (the specification of `Export` is `ExportSpec` so that one
module can extend both; the two share no variable). `Shape` ties the transaction, the deadline and the answer
to the phase, `Counted` the rows to the cap. From them `DriverTypeCorrect`,
`NothingIsLeftOpen`, `TheCutIsHonest` (of what worked while its context was not over),
`GivenUpKeepsNothing` (an action property:
once `Lost`, always `Lost`), and `TheWorkIsSettled`, the safety part of the
refinement of `StatementWork`.

`AgentProofs`. `Asked` says what has been agreed to by each phase: at the gate the
conversation carries nothing beyond what was approved and what is being asked, and
on its way out nothing beyond what was approved. It speaks of the names of tools,
as `permit` does, so it needs `Honest`: what a message holds is what the tool it
came from may return. `Judged` says that only a read is put to the person. `InPlace`
says where the answer being worked stands and that everything before it is settled;
`CallsAreAnswered` alone is not inductive because it does not say which call a
result belongs to. From these `TypeCorrect`, `TheOldestGoFirst`, and for
`~Overlaps` `NothingIsUnasked`, which is the refinement of `Consent`, and
`EveryCallIsAnswered`. With `Overlaps` the first is false, which is a finding. The
kept conversations are assumed to be ones this code could have had (`SavedAssumption`):
of a turn that ended by itself every call is answered, of one that was stopped
(`StoppedBefore`) any may be missing.

`ExportProofs`. Two facts carry everything. `Told` says of each run how far it is:
one that is about to take its name is whole, and one that has ended left no temporary
file, unless it fell over. `Filed` says that what a file is of has ended and is whole;
without it the run of an earlier file could still be cut short. `WholeOrNothingHolds`
follows. For `BusyIsFollowedHolds` the invariant also says that a watcher waits only
for an export that was begun, and that the run the busy dialog is about is waited
for under the dialog's own token alone; without the second half the word of an
older run could end the wait.

`ConversationProofs`. `Chains` says that a turn that runs is followed by a command,
a message or a question under the token of its screen and, until a job falls over, by
one alone. For one to stay one, nothing may be under way under the token a screen
will have next (`Behindhand`: no token is ahead of its screen's), and a question that
waits for a model to be read in must wait on a screen with no turn (`Waiting`). From
these `RunningIsFollowedHolds`, which counts the three with `Cardinality` as the
property does. `AgreedToWhereItIsAskedHolds` needs that a question on its way names a
turn that was begun, where it was begun (`Asking`), which stays so because a turn takes
a number no turn had (`Numbered`). It holds although the
assistant may be another connection's: a question is read at the gate of the connection
its agent was built over, and by nobody where that is another.

`ChatsProofs`. An id is given to the screen in front when the thread it was asked
for is still the screen's. So the invariant says that no job and no save is of a
thread ahead of its screen's, and that while the two are equal they are about the
same conversation. It needs `~Elsewhere`: a save answered with another connection
in front compares the threads of two connections, which is a finding.
`IdsAreTheirOwnHolds` follows. The other two theorems hold with `Elsewhere` as well.
`HalvesGoTogether` speaks of the store at rest, so `Matched` says what it is like
while jobs are under way: what is kept past the limit, or of a conversation that is not
listed, is about to be taken by a save, and a conversation listed of which nothing is
kept is about to be taken by a save or a removal. `Whole` is that until a job is cut
short or crosses another. `TrimMends` needs `Undisturbed`: a save that has run alone so
far is alone, and once it has taken the words past the limit none are left there; and
that dropping the oldest leaves no more than the limit (`FewNewest`). A save that ran alone has the latest time, and no save is older than its
own row was, so what it wrote stays among the newest (`RowInFront`).

`FilesProofs`. That a tab which is not marked as changed shows what its file holds is
not inductive: between the rename of a write and its answer the file is ahead of the
tab, and the answer then goes to whichever tab is in the place the write was asked
from. So `IInv` says what each call knows at its step: the temporary file is its own
until it is renamed (`Filled`), what it wrote is still there when it is answered, and
no tab but the one in its place has the file (`Wrote`), what it read is still there
(`ReadIt`); and that a tab knows what its file holds until a write is about to tell it
otherwise (`Knows`). All of it is said of the files that are not `unsure` (removed, written by another tab or
by two calls at once, or of a tab that was aimed elsewhere or lost its answer to another: the
cases the last findings on `Files` are about), which `Met`
makes enough: of two calls at work on one file where one could disturb the other, the
file is unsure. Closing a tab shifts the places of the others and of every call, the
longest case (`CloseSheetIInv`). `TypeCorrect` and `ATabLosesNothing` follow, for
`Wanders` as well. `NotThere`, that a save under a new name which found no file still
has none in its way, gives `CreatingReplacesNothing`, also without a condition.
`NothingIsWrittenOverUnasked` needs `~Wanders`: then the question and the calls that go
before it are one at a time and about the tab and the directory in front (`OneAtATime`),
and a write that may replace a file was allowed to (`Allowed`). With `Wanders` it is
false, which is a finding.

`DownloadsProofs`. Four invariants, each for fewer instances than the one before. `Base`
(`Waited`: what a screen says is arriving is a download it watches) gives
`BusyIsFollowedHolds` for any number of programs. `Alone` needs `~Overlaps`: what goes
on is watched, so a program has one download at most. `Hashed` needs `One` program as
well, since two write one part file: it follows the length a download asks from, the
re-hashing of that much and the hash of what is written. `Kept` is about the files that
no later download writes over, and gives `HasIsWholeHolds` with `~Strangers`: what is put in place is all of the model if the
hub says a length or vouches for a hash (`Whole`). What each condition leaves out is a
finding.

`ReadsProofs`. `ShownWhereItIsHolds` needs only that a read carries the connection
it was asked of. `LoadingIsFollowedHolds` needs that a mark which is not `lent` has its
read under way, and `TablesFollowTheFilterHolds` that the catalogues under way of a
connection that is not `crossed` are all of the schemas it is filtered by, and its tables
too once none is. None has a condition on the constants; the two sets leave out what the
findings are about.

Only model-checked: liveness (`EveryRunSettles`, `OnlyThePersonIsWaitedFor`,
`StoppedTurnsEnd`, `StoppedScreensClear`, `StoppedDownloadsEnd`, and the fairness of
the first two refinements), which the prover does not reach. `ExportTypeOK` and `TypeOK` of `Reads` say with
`BagCardinality` how many there are of something; the library defines that by recursion, so the
proofs leave it out.

## Findings

Each is a run that TLC refutes; the counterexample is the sequence described.

- `KeptWhole` (`kept_whole`): a turn ends and is kept; the model is let go of; another
  turn is asked, of an agent that is built anew and holds nothing; what is kept under
  the id is that turn alone, and the first is deleted (`ask.go:313`,
  `chats.go:162`, `chats/chats.go:167`; `help.md:71`: "A conversation is kept whole").
- `PartsCarryOn` (`stuck_part`): a download is given up on behind its last chunk; the
  part is as long as the model, the range behind it is refused, and nothing removes it
  (`download.go:124`; `settings.go:615`: "pressing enter again continues rather than
  starts over").

Also met while modelling, for which no run is kept. The properties named are
defined in the modules and TLC refutes them when they are added to the configuration
with the constants given (a statement about a state as an `INVARIANT`, one about steps
or about what must happen as a `PROPERTY`):

- `JudgedWhereItRuns` (`MCWorkbenchPromise.cfg` with `Statements <- BothStatements`, `MaxRuns = 1`): a statement agreed to in the dialog of
  one connection is sent to another when that comes up before the answer lands
  (`model.go:494`; `links.go:96`: "each statement answers to its own").
- `EveryAnswerIsHeard` (the same): running again in a tab that is running drops the
  first answer (`model.go:347`; `tabs.go:337`: "A failure always says so").
- `ClosesWhatItNamed` (`MCWorkbench.cfg`): the tab closed is the one in front when the
  answer lands (`model.go:544`; `tabs.go:382`).
- `FiledWhereItRan` with `Panics`: a guarded job of any screen that falls over clears
  the running mark of the front tab (`crash.go:95`), which is then taken for idle, may
  be aimed elsewhere, and its answer is filed there (`history.go:35`). The theorem has
  `~Panics` as its condition.
- `FailureIsReported` (`MCResultSet.cfg`): at the cap the error behind the last row is
  not read (`driver/postgres/query.go:43` and the other two; `driver.go:365`).
- `WorkedMeansKept` (the same): a write whose context ends after its rows is rolled back
  and may be reported as having worked (`driver/sqlite/query.go:133`; `driver.go:365`).
- `AskedBeforeSent` with `Overlaps = TRUE`: a kept conversation opened while a turn runs
  is sent on the consent given for another (`chats.go:163`; `agent.go:162`).
- `AsksWithWhatTheyReturned` with `MaxAsks = 2`, `MaxCalls = 1`: a stopped turn leaves calls without
  results, which the next question sends (`agent.go:296`; `agent.go:1`).
- `NobodyIsLeftHanging` (`MCConversation.cfg`): a turn that waits at the gate, or to be
  heard, when its connection is closed is left there: nothing cancels it and nobody reads
  it (`links.go:276`, `ask.go:363`: "refused rather than left hanging").
- `AssistantIsItsOwn` (`MCConversation.cfg`): a model read into memory for one connection
  is installed in the one in front when it is ready (`ask.go:273`; `links.go:62-65`: "asking
  it about another server would be asking the wrong one"). Likewise the load of a model
  goes on when another is chosen (`picker4ai.go:810-834`), and what it brings is installed
  over the choice.
- A turn that was stopped while its question was on its way to the screen still puts it
  there, and it is answered for nothing (`ask.go:365-377`).
- `IdsAreTheirOwn` with `Elsewhere = TRUE`: a save answered with another connection in
  front gives that one the id, as thread numbers of two connections are often equal
  (`ask.go:464`; `links.go:339`).
- A conversation begun anew before the id of its first save came back is kept a second
  time by the save that puts it away (`chats.go:205`); one that is forgotten while it is
  being saved leaves what was said on the disk until the next trim (`chats.go:176`).
- `WrittenOverWhenAsked` with `Wanders = TRUE`: the answer to "overwrite it?" writes in
  the directory of the connection in front when it lands (`files.go:199`; `help.md:28`).
- A write whose tab was closed marks the tab that took its place as saved
  (`files.go:170`); a file that was removed or written by another tab leaves its tab
  unmarked, and closing it does lose what it shows (`tabs.go:410`: "closing the tab loses
  nothing"); a file is looked for among the tabs of all connections (`files.go:93`).
- Of what failed only one part of a connection is remembered (`failing`), so the second
  part that fails writes over the first and its coming back clears both
  (`model.go:301-319`; `model.go:38-40`: "not cleared by the other coming back").
- `TickingRereads` (`MCReads.cfg`): the form marks its own connection as loading and
  starts a read of the one in front (`catalog.go:213`; `help.md:136`: "Ticking schemas only
  re-reads"). The mark, being `lent`, is then left on for good. The same comes of a
  connection being opened: the one in front is marked (`switcher.go:320`), another is
  moved to, and it is that one's mark which `switched` takes away (`connections.go:125`);
  the first is not read again, as it is marked (`tabs.go:357`).
- `CutIsSaid` (`MCResultSet.cfg`): a context that ends at the cap leaves a statement that
  is read only said to have worked, and rows behind the cap said of nobody
  (`driver/sqlite/query.go:108-129`).
- `GivenUpIsThrownAway` (`MCExport.cfg`): `pour` looks at no context, so what is on the
  screen is written to its end after esc, and so is a statement run again whose driver
  ends cleanly, or one that is at its last steps (`export.go:326-369`; `export.go:422-423`:
  "What has been written so far is thrown away").
- `OnlyItsOwnEnd` (`MCExport.cfg`): the end of a run that was given up on is taken by the
  next dialog for its own, whose token is one as well (`export.go:406-425`). The dialog then
  closes, or says that it failed, while its own run writes on.
- `RunAgainWhereItRan` (`MCExport.cfg`): a connection that comes up under the dialog puts
  itself in front (`connections.go:124`), and the statement is run again on that one
  (`export.go:223-276`).
- `NothingIsReplaced` (`MCExport.cfg`): the path is looked at when an export begins and
  replaced by a rename when it ends (`export.go:300`; `export.go:219`: "Nothing is written
  where something already is").
- `HasIsWholeAnyway` (`MCDownloads.cfg`): of a hub that says neither a length nor a hash, a
  body that was cut short is put in place as a model (`download.go:189-196`; `store.go:78`).
- `HasIsWhole` with two `Programs`, or with `Overlaps = TRUE` (a model agreed to "anyway"
  while another arrives, `picker4ai.go:667`): two downloads write one part file, and the
  hash of each is right; or with `Strangers = TRUE`: a part of another revision is carried
  on from when the hub vouches for nothing (`store.go:78`: "Has reports whether a model has
  been downloaded and is whole").
- A turn that was refused in a later round is said to have sent nothing
  (`ask.go:728`), although its first round was sent.
- On a READ / WRITE connection the model is told that the person has to agree to
  each write (`assistant.go:61`); `allowed` refuses every write without asking
  (`tool.go:363`), as its tests expect.

## Plan

1. Done: `Workbench`, `ResultSet`, `Agent` with their abstract specifications and
   proofs, the refinements among them; `Conversation`, `Chats`, `Files`, `Reads`,
   `Export`, `Downloads` with proofs of all the safety properties the runs check.
2. What the runs check and no theorem states is liveness, and the conjuncts that count
   a bag. The candidates for a model that are left are the hazards without a property.

## Not modelled

- Drawing and layout, key tables, reports, encoders of exports, wire formats of
  providers, the SQL of catalogue reads and the conversion of its rows: conversions
  without state that more than one actor sees.
- The guard's walk over a statement (`sqlguard`, `sqldialect`): it is a function of one
  text and of the tree a generated parser makes of it; a model of the trees without the
  grammars would say nothing about what is let through. Its verdict is a parameter of
  `Workbench` and `Agent`.
- Configuration files, the vault and the setup wizard: loaded, changed and saved whole
  by one program. Two programs at once lose one another's changes, which the code does
  not set out to handle; the hazards are listed.
- The query history: one insert and one trim per statement, as in `Chats`; nothing is
  written under an id that was given before.
- The retries of the transport: a loop over one request that keeps nothing.
- Sessions of a server and the stopping of one, the columns of a table, plans: reads
  like those of `Reads`. The session that runs a local model is a C library's.
- The generated parsers, the development tools, the tests and the release pipeline.
