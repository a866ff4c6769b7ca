------------------------------ MODULE Workbench ------------------------------
(***************************************************************************)
(* The editor screen of the program: tabs, the connections they are worked *)
(* through, the statements they have out, and the questions that are up.   *)
(*                                                                         *)
(* The program is one loop that takes a message at a time (Model.Update)   *)
(* and answers with commands.  Every command runs in a goroutine of its    *)
(* own and its message comes back whenever it is done, in any order and    *)
(* between any two keys, so a handler may find a tab, a connection or a    *)
(* dialog other than the one it was sent from.  What is out is "commands". *)
(*                                                                         *)
(* A tab and a connection are named here by the identity they are minted   *)
(* with.  The places of the strip, by which the code names a tab, and the  *)
(* second copy it keeps of the front one are abstracted.                   *)
(***************************************************************************)
EXTENDS Naturals, Sequences, FiniteSets, Functions

CONSTANTS
  Profiles,        \* the configured connections
  Writable,        \* the profiles opened READ / WRITE
  Statements,      \* what an editor may hold, besides nothing
  Reads,           \* the statements that only read
  Preview,         \* the statement the schema tree opens a table with
  Blank,           \* an empty editor
  ConfirmQueries,  \* settings.Safety.ConfirmQueries
  Panics,          \* whether a guarded background job may fall over
  Palette,         \* the commands that are chosen in the palette
  MaxLinks, MaxSheets, MaxRuns,  \* bounds: connections, tabs and runs ever made
  MaxSaid          \* bound: answers and palette rows on their way at once

ASSUME ProfilesAssumption == Writable \subseteq Profiles /\ Profiles # {}
ASSUME StatementsAssumption ==
  Reads \subseteq Statements /\ Preview \in Reads /\ Blank \notin Statements
ASSUME SettingsAssumption == ConfirmQueries \in BOOLEAN /\ Panics \in BOOLEAN
\* The program starts with a connection open, so one is the least there may be.
ASSUME BoundsAssumption ==
  MaxLinks \in Nat \ {0} /\ MaxSheets \in Nat /\ MaxRuns \in Nat /\ MaxSaid \in Nat

VARIABLES
  links,      \* the open connections: the profile each was opened from
  link,       \* the connection in front
  sheets,     \* the tabs
  sheet,      \* the tab in front
  modal,      \* the question that is up
  commands,   \* what runs in a goroutine and has not come back
  sent,       \* every statement sent, in order: its place is its token
  cancelled,  \* the tokens whose context has been cancelled
  history,    \* what the history store was told
  minted,     \* how many connections were ever opened
  opened      \* how many tabs were ever opened

vars == <<links, link, sheets, sheet, modal, commands, sent, cancelled,
          history, minted, opened>>

Texts == Statements \union {Blank}

\* The commands a person can give by a key or by choosing them in the palette.
Does == {"run", "halt", "new", "move", "close"}

ASSUME PaletteAssumption == Palette \subseteq Does

Sheet == [on : Nat, text : Texts, token : Nat, stop : Nat,
          inflight : BOOLEAN, shown : Nat]

Question == [kind : {"run"}, statement : Texts, on : Nat]
    \union [kind : {"close"}, tab : Nat]
    \union [kind : {"disconnect"}, on : Nat]

NoModal == [kind |-> "none"]

Command == Question
    \union [kind : {"query"}, token : Nat]
    \union [kind : {"open"}, profile : Profiles, nth : Nat]
    \union [kind : {"chosen"}, does : Does]

TypeOK ==
  /\ links \in [DOMAIN links -> Profiles] /\ DOMAIN links \subseteq 1..minted
  /\ link \in Nat
  /\ sheets \in [DOMAIN sheets -> Sheet] /\ DOMAIN sheets \subseteq 1..opened
  /\ sheet \in DOMAIN sheets
  /\ modal \in Question \union {NoModal}
  /\ commands \subseteq Command
  /\ sent \in Seq([tab : Nat, on : Nat, statement : Texts, agreed : Nat])
  /\ cancelled \subseteq Nat
  /\ history \subseteq [token : Nat, on : Nat]
  /\ minted \in Nat /\ opened \in Nat

-----------------------------------------------------------------------------
(* What the handlers are built from. *)

With(f, x, y) == [z \in DOMAIN f \union {x} |-> IF z = x THEN y ELSE f[z]]

NewSheet(on, text) ==
  [on |-> on, text |-> text, token |-> 0, stop |-> 0, inflight |-> FALSE, shown |-> 0]

\* What the guard of a connection makes of a statement.
Verdict(profile, statement) ==
  IF statement = Blank THEN "blocked"
  ELSE IF statement \in Reads THEN "allowed"
  ELSE IF profile \in Writable THEN "warned"
  ELSE "blocked"

\* Mutant: an answer leaves the mark of the running tab on.
FinishedStillMarked(tab) == [tab EXCEPT !.stop = 0]

Finished(tab) == [tab EXCEPT !.stop = 0, !.inflight = FALSE]

\* Mutant: a tab that goes leaves its statement running.
StopsNone(tabs) == {}

\* The contexts that a set of tabs still holds the cancel of.
Stops(tabs) == {sheets[t].stop : t \in tabs} \ {0}

Holding(on) == {t \in DOMAIN sheets : sheets[t].on = on}

Keys == modal.kind = "none"

Init ==
  /\ \E p \in Profiles : links = [i \in {1} |-> p]
  /\ link = 1
  /\ sheets = [i \in {1} |-> NewSheet(1, Blank)]
  /\ sheet = 1
  /\ modal = NoModal
  /\ commands = {}
  /\ sent = <<>>
  /\ cancelled = {}
  /\ history = {}
  /\ minted = 1
  /\ opened = 1

-----------------------------------------------------------------------------
(* Sending a statement and what comes back.  "rest" is what is out besides  *)
(* the message being handled.                                               *)

\* Nothing looks at a run the tab already has out: its token and its cancel
\* are written over.
Run(tabs, tab, on, statement, agreed, rest) ==
  LET token == Len(sent) + 1 IN
  /\ Len(sent) < MaxRuns
  /\ sent' = Append(sent, [tab |-> tab, on |-> on, statement |-> statement,
                           agreed |-> agreed])
  /\ sheets' = [tabs EXCEPT ![tab] = [@ EXCEPT !.token = token, !.stop = token,
                                               !.inflight = TRUE]]
  /\ commands' = rest \union {[kind |-> "query", token |-> token]}

\* The statement in the editor, through the guard of the connection in front.
Attempt(rest) ==
  LET statement == sheets[sheet].text
      verdict == Verdict(links[link], statement)
      asks == verdict = "warned" /\ ConfirmQueries
  IN
  /\ \/ /\ verdict = "blocked"
        /\ commands' = rest
        /\ UNCHANGED <<sheets, modal, sent>>
     \/ /\ asks
        /\ modal' = [kind |-> "run", statement |-> statement, on |-> link]
        /\ commands' = rest
        /\ UNCHANGED <<sheets, sent>>
     \/ /\ verdict # "blocked" /\ ~asks
        /\ Run(sheets, sheet, link, statement, link, rest)
        /\ UNCHANGED modal
  /\ UNCHANGED <<links, link, sheet, cancelled, history, minted, opened>>

Halt(rest) ==
  /\ cancelled' = cancelled \union Stops({sheet})
  /\ commands' = rest
  /\ UNCHANGED <<links, link, sheets, sheet, modal, sent, history, minted, opened>>

\* Mutant: an answer goes to the tab in front, whoever asked.
AskerInFront(token) == {sheet}

\* Mutant: only the tab in front is asked whether the answer is its own.
AskerOnlyInFront(token) == IF sheets[sheet].token = token THEN {sheet} ELSE {}

\* The tab an answer belongs to: the one in front when it asked for it, then
\* any other; none when the run was written over or its tab has gone.
Asker(token) ==
  IF sheets[sheet].token = token THEN {sheet}
  ELSE {t \in DOMAIN sheets \ {sheet} : sheets[t].token = token}

\* Mutant: the history line takes the connection in front when the answer lands.
FiledInFront(on) == link

Filed(on) == IF on \in DOMAIN links THEN on ELSE link

Returned(token) ==
  LET query == [kind |-> "query", token |-> token] IN
  /\ query \in commands
  /\ commands' = commands \ {query}
  /\ \/ /\ Asker(token) = {}
        /\ UNCHANGED <<sheets, cancelled, history>>
     \/ \E t \in Asker(token) :
          /\ cancelled' = cancelled \union Stops({t})
          /\ sheets' = [sheets EXCEPT ![t] = [Finished(@) EXCEPT !.shown = token]]
          /\ history' = history \union
                          {[token |-> token, on |-> Filed(sheets[t].on)]}
  /\ UNCHANGED <<links, link, sheet, modal, sent, minted, opened>>

-----------------------------------------------------------------------------
(* Tabs. *)

Type(text) ==
  /\ Keys
  /\ text # sheets[sheet].text
  /\ sheets' = [sheets EXCEPT ![sheet].text = text]
  /\ UNCHANGED <<links, link, sheet, modal, commands, sent, cancelled, history,
                 minted, opened>>

\* Mutant: the index of the tab in front is left where it was.
ThroughIndexStays(tabs, tab, held, behind) ==
  /\ UNCHANGED sheet
  /\ sheets' = tabs
  /\ link' = tabs[tab].on

\* Mutant: a tab comes in front without its connection.
ThroughWithoutItsLink(tabs, tab, held, behind) ==
  /\ sheet' = tab
  /\ sheets' = tabs
  /\ link' = behind

\* A tab comes in front, and the connection it is on with it.  A tab on a
\* connection that is not held is moved to the one that was in front, "behind".
Through(tabs, tab, held, behind) ==
  /\ sheet' = tab
  /\ IF tabs[tab].on \in held
       THEN sheets' = tabs /\ link' = tabs[tab].on
       ELSE sheets' = [tabs EXCEPT ![tab].on = behind] /\ link' = behind

\* Mutant: a new tab takes the place of the one in front.
OpenSheetOver(on, text, held, behind) ==
  /\ opened < MaxSheets
  /\ opened' = opened + 1
  /\ Through(With(Restrict(sheets, DOMAIN sheets \ {sheet}), opened', NewSheet(on, text)),
             opened', held, behind)

OpenSheet(on, text, held, behind) ==
  /\ opened < MaxSheets
  /\ opened' = opened + 1
  /\ Through(With(sheets, opened', NewSheet(on, text)), opened', held, behind)

New(text, rest) ==
  /\ OpenSheet(link, text, DOMAIN links, link)
  /\ commands' = rest
  /\ UNCHANGED <<links, modal, sent, cancelled, history, minted>>

\* A statement of the history in a tab of its own.
Reopen ==
  /\ Keys
  /\ \E entry \in history : New(sent[entry.token].statement, commands)

\* A table of the schema tree in a tab of its own, read at once.
OpenTable ==
  /\ Keys
  /\ opened < MaxSheets
  /\ opened' = opened + 1
  /\ sheet' = opened'
  /\ Run(With(sheets, opened', NewSheet(link, Preview)), opened', link, Preview,
         link, commands)
  /\ UNCHANGED <<links, link, modal, cancelled, history, minted>>

Move(rest) ==
  /\ \E t \in DOMAIN sheets \ {sheet} : Through(sheets, t, DOMAIN links, link)
  /\ commands' = rest
  /\ UNCHANGED <<links, modal, sent, cancelled, history, minted, opened>>

ConfirmClose(rest) ==
  /\ modal' = [kind |-> "close", tab |-> sheet]
  /\ commands' = rest
  /\ UNCHANGED <<links, link, sheets, sheet, sent, cancelled, history, minted, opened>>

\* The tab in front goes, whichever tab the dialog named.  The last one is
\* emptied instead.
CloseSheet(rest) ==
  /\ cancelled' = cancelled \union Stops({sheet})
  /\ commands' = rest
  /\ IF DOMAIN sheets = {sheet}
       THEN /\ opened < MaxSheets
            /\ opened' = opened + 1
            /\ sheets' = [t \in {opened'} |-> NewSheet(link, Blank)]
            /\ sheet' = opened'
            /\ UNCHANGED link
       ELSE LET kept == DOMAIN sheets \ {sheet} IN
            /\ \E t \in kept : Through(Restrict(sheets, kept), t, DOMAIN links, link)
            /\ UNCHANGED opened
  /\ UNCHANGED <<links, modal, sent, history, minted>>

\* A guarded job of another screen falls over: the tab in front is told it has
\* nothing out, whether it had or not.
Crashed ==
  /\ Panics
  /\ sheets' = [sheets EXCEPT ![sheet] = Finished(@)]
  /\ UNCHANGED <<links, link, sheet, modal, commands, sent, cancelled, history,
                 minted, opened>>

-----------------------------------------------------------------------------
(* Connections. *)

\* Mutant: a tab holds nothing but a statement.
HoldsText(tab) == tab.text # Blank

\* A tab is aimed at a connection: the one in front when it is empty and idle,
\* a new one otherwise.
Holds(tab) == tab.shown # 0 \/ tab.inflight \/ tab.text # Blank

Aim(on, held, behind) ==
  IF Holds(sheets[sheet])
    THEN OpenSheet(on, Blank, held, behind)
    ELSE /\ Through([sheets EXCEPT ![sheet].on = on], sheet, held, behind)
         /\ UNCHANGED opened

\* One profile may be opened again while it is being opened: "nth" tells the two apart.
Opening(profile, nth) == [kind |-> "open", profile |-> profile, nth |-> nth]

Open(profile, nth) ==
  /\ Keys
  /\ minted + Cardinality({c \in commands : c.kind = "open"}) < MaxLinks
  /\ nth > minted
  /\ Opening(profile, nth) \notin commands
  /\ commands' = commands \union {Opening(profile, nth)}
  /\ UNCHANGED <<links, link, sheets, sheet, modal, sent, cancelled, history,
                 minted, opened>>

\* The connection came up: it is minted an id and put in front.
Switched(profile, nth) ==
  /\ Opening(profile, nth) \in commands
  /\ commands' = commands \ {Opening(profile, nth)}
  /\ minted' = minted + 1
  /\ links' = With(links, minted', profile)
  /\ Aim(minted', DOMAIN links', minted')
  /\ UNCHANGED <<modal, sent, cancelled, history>>

\* It would not open: nothing but the switcher changes.
Troubled(profile, nth) ==
  /\ Opening(profile, nth) \in commands
  /\ commands' = commands \ {Opening(profile, nth)}
  /\ UNCHANGED <<links, link, sheets, sheet, modal, sent, cancelled, history,
                 minted, opened>>

Went(on) ==
  /\ Keys
  /\ on \in DOMAIN links
  /\ ~(on = link /\ sheets[sheet].on = on)
  /\ Aim(on, DOMAIN links, link)
  /\ UNCHANGED <<links, modal, commands, sent, cancelled, history, minted>>

\* One connection is closed, and the tabs on it with it.  The last connection
\* is not, and nor is one that has gone already.
Disconnected(on, rest) ==
  /\ commands' = rest
  /\ IF on \notin DOMAIN links \/ DOMAIN links = {on}
       THEN UNCHANGED <<links, link, sheets, sheet, cancelled, opened>>
       ELSE LET kept == DOMAIN sheets \ Holding(on) IN
            /\ links' = Restrict(links, DOMAIN links \ {on})
            /\ cancelled' = cancelled \union Stops(Holding(on))
            /\ \E behind \in DOMAIN links' :
                 /\ link # on => behind = link
                 /\ \/ /\ kept = {}
                       /\ opened < MaxSheets
                       /\ opened' = opened + 1
                       /\ Through([t \in {opened'} |-> NewSheet(behind, Blank)],
                                  opened', DOMAIN links', behind)
                    \/ \E t \in kept :
                         /\ sheet \in kept => t = sheet
                         /\ Through(Restrict(sheets, kept), t, DOMAIN links', behind)
                         /\ UNCHANGED opened
  /\ UNCHANGED <<sent, history, minted>>

AskToDisconnect(on) ==
  /\ Keys
  /\ on \in DOMAIN links /\ DOMAIN links # {on}
  /\ IF Holding(on) = {}
       THEN Disconnected(on, commands) /\ UNCHANGED modal
       ELSE /\ modal' = [kind |-> "disconnect", on |-> on]
            /\ UNCHANGED <<links, link, sheets, sheet, commands, sent, cancelled,
                           history, minted, opened>>

-----------------------------------------------------------------------------
(* Questions, and the messages that answers and palette rows become.  Both  *)
(* come back through a command, so anything may land in between.            *)

Do(does, rest) ==
  \/ does = "run"   /\ Attempt(rest)
  \/ does = "halt"  /\ Halt(rest)
  \/ does = "new"   /\ New(Blank, rest)
  \/ does = "move"  /\ Move(rest)
  \/ does = "close" /\ ConfirmClose(rest)

Key(does) == Keys /\ Do(does, commands)

\* The bound on what a person said that has not come back to the loop yet.
SaidRoom == Cardinality({c \in commands : c.kind \notin {"query", "open"}}) < MaxSaid

Choose(does) ==
  /\ Keys
  /\ SaidRoom
  /\ commands' = commands \union {[kind |-> "chosen", does |-> does]}
  /\ UNCHANGED <<links, link, sheets, sheet, modal, sent, cancelled, history,
                 minted, opened>>

Chosen(does) ==
  LET command == [kind |-> "chosen", does |-> does] IN
  /\ command \in commands
  /\ Do(does, commands \ {command})

AnswerYes ==
  /\ ~Keys
  /\ SaidRoom
  /\ modal' = NoModal
  /\ commands' = commands \union {modal}
  /\ UNCHANGED <<links, link, sheets, sheet, sent, cancelled, history, minted, opened>>

AnswerNo ==
  /\ ~Keys
  /\ modal' = NoModal
  /\ UNCHANGED <<links, link, sheets, sheet, commands, sent, cancelled, history,
                 minted, opened>>

\* The confirmed statement goes to whatever is in front when the answer lands.
RunConfirmed ==
  \E c \in commands :
    /\ c.kind = "run"
    /\ Run(sheets, sheet, link, c.statement, c.on, commands \ {c})
    /\ UNCHANGED <<links, link, sheet, modal, cancelled, history, minted, opened>>

CloseConfirmed ==
  \E c \in commands : c.kind = "close" /\ CloseSheet(commands \ {c})

DisconnectConfirmed ==
  \E c \in commands :
    /\ c.kind = "disconnect"
    /\ Disconnected(c.on, commands \ {c})
    /\ UNCHANGED modal

Next ==
  \/ \E does \in Does : Key(does)
  \/ \E does \in Palette : Choose(does) \/ Chosen(does)
  \/ \E text \in Texts : Type(text)
  \/ Reopen \/ OpenTable \/ Crashed
  \/ \E profile \in Profiles, nth \in 1..MaxLinks :
       Open(profile, nth) \/ Switched(profile, nth) \/ Troubled(profile, nth)
  \/ \E on \in 1..minted : Went(on) \/ AskToDisconnect(on)
  \/ AnswerYes \/ AnswerNo
  \/ RunConfirmed \/ CloseConfirmed \/ DisconnectConfirmed
  \/ \E token \in 1..Len(sent) : Returned(token)

\* A statement ends: the server answers, its own timeout ends it, or the
\* context does.  Nothing else is promised.
Fairness == \A token \in 1..MaxRuns : WF_vars(Returned(token))

Spec == Init /\ [][Next]_vars /\ Fairness

-----------------------------------------------------------------------------
(* What must hold. *)

Out(token) == [kind |-> "query", token |-> token] \in commands

\* The tab in front is worked through the connection in front, and no tab is
\* left on a connection that was closed: every statement, guard verdict and
\* history line reads the connection in front and means the tab's.
TabsStandOnOpenConnections ==
  /\ link \in DOMAIN links
  /\ sheets[sheet].on = link
  /\ \A t \in DOMAIN sheets : sheets[t].on \in DOMAIN links

\* A tab only ever shows, waits for and can cancel a run it sent itself, so an
\* answer that lands late lands in the tab it was typed in, or nowhere.
AnswersBelongToTheirTab ==
  \A t \in DOMAIN sheets :
    \A token \in {sheets[t].token, sheets[t].shown, sheets[t].stop} \ {0} :
      token \in 1..Len(sent) /\ sent[token].tab = t

\* A history line names the connection its statement ran through, whatever tab
\* and connection were in front when the answer landed.
FiledWhereItRan ==
  \A entry \in history : entry.on = sent[entry.token].on

\* A tab that says it is running has its answer on the way: the mark in the
\* strip and the warnings that count on it never stay for good.
RunningMeansOut ==
  \A t \in DOMAIN sheets : sheets[t].inflight => Out(sheets[t].token)

\* A statement nobody can cancel any more, because its tab or its connection
\* was closed, was cancelled then.  Only a later run from the same tab leaves
\* one running.
AbandonedIsCancelled ==
  \A token \in 1..Len(sent) :
    Out(token) =>
      \/ token \in cancelled
      \/ \E t \in DOMAIN sheets : sheets[t].stop = token
      \/ \E later \in token + 1..Len(sent) : sent[later].tab = sent[token].tab

\* A tab that holds a statement, a result or a run is never aimed at another
\* server while it does.
HoldsStill ==
  [][\A t \in DOMAIN sheets \intersect DOMAIN sheets' :
       sheets[t].text # Blank \/ sheets[t].inflight \/ sheets[t].shown # 0
         => sheets'[t].on = sheets[t].on]_vars

\* A tab goes only in the step that handles an answer: one to close takes the tab
\* in front, whichever the question named (see ClosesWhatItNamed), and one to
\* disconnect the tabs of the connection it named.  Switching, moving, opening and
\* what lands take none away (closeSheet, disconnected).
TabsGoOnlyOnAnAnswer ==
  [][\A t \in DOMAIN sheets \ DOMAIN sheets' :
       \E c \in commands \ commands' :
         \/ c.kind = "close" /\ t = sheet
         \/ c.kind = "disconnect" /\ c.on = sheets[t].on]_vars

\* A tab that is running stops running: its answer lands, or the tab goes.
EveryRunSettles ==
  \A t \in 1..MaxSheets :
    (t \in DOMAIN sheets /\ sheets[t].inflight)
      ~> ~(t \in DOMAIN sheets /\ sheets[t].inflight)

(* What the documentation says of the program and the code does not keep.   *)

\* links.go: two tabs on two connections are two modes, and each statement
\* answers to its own.  The connection whose guard judged a statement, and
\* whose mode the dialog showed, is the one it is sent to.
JudgedWhereItRuns ==
  \A token \in 1..Len(sent) : sent[token].agreed = sent[token].on

\* tabs_test.go and tabs.go: a failure always says so.  The answer of a
\* statement whose tab is still open reaches the tab.
EveryAnswerIsHeard ==
  [][\A token \in 1..Len(sent) :
       Out(token) /\ ~Out(token)' /\ sent[token].tab \in DOMAIN sheets =>
         sheets'[sent[token].tab].shown = token]_vars

\* tabs.go: confirmClose names the tab and says what closing it costs.  The tab
\* that goes is that one.
ClosesWhatItNamed ==
  [][\A c \in commands \ commands' :
       c.kind = "close" => c.tab \notin DOMAIN sheets']_vars

-----------------------------------------------------------------------------
(* The promise about a single run, which this module implements. *)

Fate(token) ==
  IF token > Len(sent) THEN "unsent"
  ELSE IF Out(token) THEN "out"
  ELSE IF \E entry \in history : entry.token = token THEN "landed"
  ELSE "dropped"

Runs == INSTANCE StatementRuns WITH
  Tokens <- 1..MaxRuns,
  Connections <- 1..MaxLinks,
  fate <- [token \in 1..MaxRuns |-> Fate(token)],
  ranOn <- [token \in 1..MaxRuns |-> IF token > Len(sent) THEN 0 ELSE sent[token].on],
  filed <- history

\* Each statement is sent once, its answer is taken at most once and written
\* down under the connection it ran through, and in the end it is taken or
\* dropped.
RunsKeepTheirPromise == Runs!Spec
==============================================================================
