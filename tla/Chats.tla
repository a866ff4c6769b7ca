------------------------------- MODULE Chats -------------------------------
(***************************************************************************)
(* Kept conversations: the Ask screen of every open connection over one    *)
(* store, whose two tables hold the conversations and what was said.       *)
(*                                                                         *)
(* Saving, reading back and forgetting run beside the screen, a statement  *)
(* at a time, and the store has one connection: statements and             *)
(* transactions do not overlap but jobs do.  Any of them can be cut short  *)
(* by its deadline, and the program can stop between any two.  A turn is   *)
(* seen when it ends; what it does before that is Agent's.                 *)
(***************************************************************************)
EXTENDS Naturals, FiniteSets

CONSTANTS
  Connections, \* how many are open
  Limit,       \* conversations kept, 0 for all of them (settings.Chats.Limit)
  Elsewhere,   \* whether a save may be answered with another connection in front
  MaxIds,      \* bound: conversations inserted
  MaxTurns,    \* bound: turns that end
  MaxThreads,  \* bound: conversations begun or opened on one screen
  Slots,       \* bound: one for each job that may be under way at once
  MaxWishes,   \* bound: conversations asked to be opened or forgotten
  MaxCuts      \* bound: deadlines that pass, and stops of the program

ASSUME ConnectionsAssumption == Connections \in Nat \ {0} /\ Elsewhere \in BOOLEAN
ASSUME BoundsAssumption ==
  {Limit, MaxIds, MaxTurns, MaxThreads, MaxWishes, MaxCuts} \subseteq Nat

Links == 1..Connections
Ids == 1..MaxIds
Turns == 1..MaxTurns

VARIABLES
  updated, \* chats: when a row was saved last, 0 where there is none
  words,   \* chat_messages: the turns kept under an id
  last,    \* the id inserted last (AUTOINCREMENT)
  clock,   \* the latest time a save was given
  owner,   \* which conversation an id was inserted for
  talks,   \* what each screen knows of its conversation
  front,   \* the connection in front
  turns,   \* turns that ended
  begun,   \* conversations begun
  wishes,  \* conversations asked to be opened or forgotten
  jobs,    \* jobs under way
  cuts,    \* deadlines that passed, and stops
  crossed  \* whether something was taken away while something was saved

tables == <<updated, words, last, clock, owner>>
screens == <<talks, front, turns, begun, wishes>>
vars == <<tables, screens, jobs, cuts, crossed>>

\* A screen: the id its conversation is kept under and the thread that counts
\* it, whether there is an agent and what it holds, whether anything is shown,
\* and which conversation it is.
Talk == [id : 0..MaxIds, thread : 0..MaxThreads, held : BOOLEAN,
         said : SUBSET Turns, shown : BOOLEAN, conv : Nat]

None == [kind |-> "none"]

Job == [kind : {"save", "load", "remove", "clear"}, step : {"first", "second", "third", "answer"},
        id : 0..MaxIds, said : SUBSET Turns, failed : BOOLEAN, alone : BOOLEAN,
        on : Links, thread : 0..MaxThreads, conv : Nat]

TypeOK ==
  /\ updated \in [Ids -> Nat] /\ words \in [Ids -> SUBSET Turns]
  /\ last \in 0..MaxIds /\ clock \in Nat /\ owner \in [Ids -> Nat]
  /\ \A id \in Ids : id > last => updated[id] = 0 /\ words[id] = {}
  /\ talks \in [Links -> Talk] /\ front \in Links
  /\ \A on \in Links : ~talks[on].held => talks[on].said = {}
  /\ turns \in 0..MaxTurns /\ begun \in Nat /\ wishes \in 0..MaxWishes
  /\ jobs \in [Slots -> Job \cup {None}]
  /\ cuts \in 0..MaxCuts /\ crossed \in BOOLEAN

\* A conversation nothing was said in, before there is an agent.
Blank(conv) ==
  [id |-> 0, thread |-> 0, held |-> FALSE, said |-> {}, shown |-> FALSE, conv |-> conv]

Init ==
  /\ updated = [id \in Ids |-> 0] /\ words = [id \in Ids |-> {}]
  /\ last = 0 /\ clock = 0 /\ owner = [id \in Ids |-> 0]
  /\ talks = [on \in Links |-> Blank(on)] /\ front = 1
  /\ turns = 0 /\ begun = Connections /\ wishes = 0
  /\ jobs = [n \in Slots |-> None]
  /\ cuts = 0 /\ crossed = FALSE

-----------------------------------------------------------------------------
(* Jobs. *)

Listed == {id \in Ids : updated[id] # 0}

\* ORDER BY updated_at DESC, id DESC: how many come before an id.
Newer(id) ==
  {other \in Listed : \/ updated[other] > updated[id]
                      \/ updated[other] = updated[id] /\ other > id}

\* Mutant: one more than the limit.
NewestAndOne == {id \in Listed : Cardinality(Newer(id)) =< Limit}

\* The ones within the limit.
Newest == {id \in Listed : Cardinality(Newer(id)) < Limit}
Free(n) == jobs[n] = None

Busy(n) == jobs[n] # None /\ jobs[n].step # "answer"

TakesAway(kind) == kind \in {"remove", "clear"}

\* A job goes off, from the connection in front or the one a turn ended on;
\* from then on none of those under way is alone.
Start(kind, on, id, said) ==
  \E n \in Slots :
    /\ Free(n)
    /\ LET job == [kind |-> kind, step |-> "first", id |-> id, said |-> said,
                   failed |-> FALSE, alone |-> \A m \in Slots : ~Busy(m),
                   on |-> on, thread |-> talks[on].thread, conv |-> talks[on].conv]
       IN jobs' = [m \in Slots |-> IF m = n THEN job
                     ELSE IF Busy(m) THEN [jobs[m] EXCEPT !.alone = FALSE] ELSE jobs[m]]
    /\ crossed' = (crossed \/ \E m \in Slots :
         /\ Busy(m)
         /\ \/ kind = "save" /\ TakesAway(jobs[m].kind)
            \/ TakesAway(kind) /\ jobs[m].kind = "save")

To(n, step) == jobs' = [jobs EXCEPT ![n].step = step]

End(n) == jobs' = [jobs EXCEPT ![n] = None]

At(n, kind, step) == jobs[n] # None /\ jobs[n].kind = kind /\ jobs[n].step = step

\* The deadline of a job passes, or its statement fails: a transaction is
\* rolled back, and what was done before is not undone.
Cut(n) ==
  /\ Busy(n) /\ cuts < MaxCuts
  /\ jobs' = [jobs EXCEPT ![n].step = "answer", ![n].failed = TRUE]
  /\ cuts' = cuts + 1
  /\ UNCHANGED <<tables, screens, crossed>>

-----------------------------------------------------------------------------
(* The store. *)

\* UPDATE chats ... WHERE id = ?: a row that is gone stays gone.
Row(id, now) == [updated EXCEPT ![id] = IF @ = 0 THEN 0 ELSE now]

\* INSERT INTO chats: an id that was never given before.
Insert(id, now, conv) ==
  updated' = [updated EXCEPT ![id] = now] /\ owner' = [owner EXCEPT ![id] = conv]
  /\ last' = id

\* The time of a save is taken before it waits for the store: where another job ran
\* beside it, what was saved meanwhile may be newer.  Saves of one conversation, a
\* turn or a key apart, are taken to wait in the order of their times.
Times(n, id) ==
  {now \in 1..(clock + 1) : now >= updated[id] /\ (jobs[n].alone => now = clock + 1)}

\* Save, up to Commit: the row, and everything that was said in the place of
\* what was there.
Write(n) ==
  /\ At(n, "save", "first")
  /\ LET job == jobs[n]
         id == IF job.id = 0 THEN last + 1 ELSE job.id
     IN /\ id \in Ids
        /\ \E now \in Times(n, id) :
             /\ clock' = IF now > clock THEN now ELSE clock
             /\ IF job.id = 0
                THEN Insert(id, now, job.conv)
                ELSE updated' = Row(id, now) /\ UNCHANGED <<last, owner>>
        /\ words' = [words EXCEPT ![id] = job.said]
        /\ jobs' = [jobs EXCEPT ![n].id = id,
                                ![n].step = IF Limit = 0 THEN "answer" ELSE "second"]
  /\ UNCHANGED <<screens, cuts, crossed>>

\* Mutant: only what was said in the oldest listed one past the limit goes.
KeptWordsOfListed == [id \in Ids |-> IF id \in Listed \ Newest THEN {} ELSE words[id]]

KeptWords == [id \in Ids |-> IF id \in Newest THEN words[id] ELSE {}]

KeptRows == [id \in Ids |-> IF id \in Newest THEN updated[id] ELSE 0]

\* trim, past the limit: first what was said, then the rows.
TrimWords(n) ==
  /\ At(n, "save", "second") /\ To(n, "third")
  /\ words' = KeptWords
  /\ UNCHANGED <<updated, last, clock, owner, screens, cuts, crossed>>

TrimRows(n) ==
  /\ At(n, "save", "third") /\ To(n, "answer")
  /\ updated' = KeptRows
  /\ UNCHANGED <<words, last, clock, owner, screens, cuts, crossed>>

\* The ids a removal or a clearing is about.
Doomed(n) == IF jobs[n].kind = "clear" THEN Ids ELSE {jobs[n].id}

\* Remove and Clear: first what was said, then the rows.
TakeWords(n) ==
  /\ At(n, "remove", "first") \/ At(n, "clear", "first")
  /\ To(n, "second")
  /\ words' = [id \in Ids |-> IF id \in Doomed(n) THEN {} ELSE words[id]]
  /\ UNCHANGED <<updated, last, clock, owner, screens, cuts, crossed>>

TakeRows(n) ==
  /\ At(n, "remove", "second") \/ At(n, "clear", "second")
  /\ To(n, "answer")
  /\ updated' = [id \in Ids |-> IF id \in Doomed(n) THEN 0 ELSE updated[id]]
  /\ UNCHANGED <<words, last, clock, owner, screens, cuts, crossed>>

\* Load: the row, then what was said.
ReadRow(n) ==
  /\ At(n, "load", "first")
  /\ jobs' = [jobs EXCEPT ![n].step = IF updated[jobs[n].id] = 0 THEN "answer" ELSE "second",
                          ![n].failed = updated[jobs[n].id] = 0]
  /\ UNCHANGED <<tables, screens, cuts, crossed>>

ReadWords(n) ==
  /\ At(n, "load", "second")
  /\ jobs' = [jobs EXCEPT ![n].step = "answer", ![n].said = words[jobs[n].id]]
  /\ UNCHANGED <<tables, screens, cuts, crossed>>

-----------------------------------------------------------------------------
(* The screen. *)

\* keep: what the agent of a connection holds goes to the store, unless there is
\* no agent or it holds nothing.
Keep(on, said) ==
  IF said = {} THEN UNCHANGED <<jobs, crossed>>
  ELSE Start("save", on, talks[on].id, said)

\* A turn ends, of the conversation of whichever connection it was asked on;
\* a first question, or one after the model was let go, is of a new agent.  The
\* model may have been let go while it was answering, and then nothing is kept:
\* one that ends so below others changes nothing here.
Finished(on) ==
  /\ turns < MaxTurns
  /\ turns' = turns + 1
  /\ \/ LET said == talks[on].said \cup {turns + 1}
        IN /\ talks' = [talks EXCEPT ![on].said = said, ![on].held = TRUE, ![on].shown = TRUE]
           /\ Keep(on, said)
     \/ /\ ~talks[on].held /\ ~talks[on].shown
        /\ talks' = [talks EXCEPT ![on].shown = TRUE] /\ Keep(on, {})
  /\ UNCHANGED <<tables, front, begun, wishes, cuts>>

\* Mutant: an answer is taken for the conversation that is on screen now.
TakesAny(job) == ~job.failed

\* A save that failed, or one of a conversation since put away, changes nothing.
Takes(job) == ~job.failed /\ job.thread = talks[front].thread

\* keptMsg lands on the connection in front, whichever the save was of.
WasKept(n) ==
  /\ At(n, "save", "answer")
  /\ Elsewhere \/ jobs[n].on = front
  /\ talks' = IF Takes(jobs[n]) THEN [talks EXCEPT ![front].id = jobs[n].id] ELSE talks
  /\ End(n)
  /\ UNCHANGED <<tables, front, turns, begun, wishes, cuts, crossed>>

\* ctrl+n: the conversation on screen is kept once more, and another begins.
StartChat ==
  LET talk == talks[front]
  IN /\ talk.shown /\ talk.thread < MaxThreads
     /\ Keep(front, talk.said)
     /\ begun' = begun + 1
     /\ talks' = [talks EXCEPT ![front] =
          [talk EXCEPT !.id = 0, !.thread = @ + 1, !.said = {}, !.shown = FALSE,
                       !.conv = begun + 1]]
     /\ UNCHANGED <<tables, front, turns, wishes, cuts>>

Wish == wishes < MaxWishes /\ wishes' = wishes + 1

\* enter in the list, which may have been read a while ago.
OpenChat(id) ==
  /\ id =< last /\ Wish
  /\ Start("load", front, id, {})
  /\ UNCHANGED <<tables, talks, front, turns, begun, cuts>>

\* openedChatMsg lands on the connection in front; an agent that is not there
\* yet is not told what was said.
OpenedChat(n) ==
  /\ At(n, "load", "answer")
  /\ LET job == jobs[n]
         talk == talks[front]
     IN IF job.failed THEN UNCHANGED talks
        ELSE /\ talk.thread < MaxThreads
             /\ talks' = [talks EXCEPT ![front] =
                  [talk EXCEPT !.id = job.id, !.thread = @ + 1, !.shown = job.said # {},
                               !.said = IF talk.held THEN job.said ELSE {},
                               !.conv = owner[job.id]]]
  /\ End(n)
  /\ UNCHANGED <<tables, front, turns, begun, wishes, cuts, crossed>>

\* ctrl+x, confirmed.
ForgetChat(id) ==
  /\ id =< last /\ Wish
  /\ talks' = IF talks[front].id = id THEN [talks EXCEPT ![front].id = 0] ELSE talks
  /\ Start("remove", front, id, {})
  /\ UNCHANGED <<tables, front, turns, begun, cuts>>

\* Forgetting all of them, from the settings.
ForgetChats ==
  /\ Wish /\ Start("clear", front, 0, {})
  /\ UNCHANGED <<tables, talks, front, turns, begun, cuts>>

\* clearedMsg, or openChatsMsg and what a removal that failed says, which only
\* show the list again.
Forgotten(n) ==
  /\ At(n, "remove", "answer") \/ At(n, "clear", "answer")
  /\ talks' = IF jobs[n].kind = "clear" /\ ~jobs[n].failed
              THEN [talks EXCEPT ![front].id = 0] ELSE talks
  /\ End(n)
  /\ UNCHANGED <<tables, front, turns, begun, wishes, cuts, crossed>>

\* The model is let go of: of the connection in front, or of all of them when
\* another was chosen.  The transcript and the id stay.
Released ==
  /\ \E gone \in {{front}, Links} :
       /\ \E on \in gone : talks[on].held
       /\ talks' = [on \in Links |-> IF on \in gone
                      THEN [talks[on] EXCEPT !.held = FALSE, !.said = {}] ELSE talks[on]]
  /\ UNCHANGED <<tables, front, turns, begun, wishes, jobs, cuts, crossed>>

Switch ==
  /\ front' \in Links \ {front}
  /\ UNCHANGED <<tables, talks, turns, begun, wishes, jobs, cuts, crossed>>

\* The program stops, with jobs half done, and is started again.
Restart ==
  /\ cuts < MaxCuts
  /\ cuts' = cuts + 1
  /\ talks' = [on \in Links |-> Blank(begun + on)] /\ begun' = begun + Connections
  /\ jobs' = [n \in Slots |-> None]
  /\ UNCHANGED <<tables, front, turns, wishes, crossed>>

Step(n) ==
  \/ Write(n) \/ TrimWords(n) \/ TrimRows(n) \/ TakeWords(n) \/ TakeRows(n)
  \/ ReadRow(n) \/ ReadWords(n) \/ Cut(n)
  \/ WasKept(n) \/ OpenedChat(n) \/ Forgotten(n)

Next ==
  \/ \E n \in Slots : Step(n)
  \/ \E on \in Links : Finished(on)
  \/ \E id \in Ids : OpenChat(id) \/ ForgetChat(id)
  \/ StartChat \/ ForgetChats \/ Released \/ Switch \/ Restart

Spec == Init /\ [][Next]_vars

-----------------------------------------------------------------------------
(* Properties. *)

\* Nothing is being written or taken away.
Quiet == \A n \in Slots : Busy(n) => jobs[n].kind = "load"

\* However many saves overlap, once they have ended every conversation listed
\* has what was said in it and nothing is kept of any other, unless a job was
\* cut short or something was taken away in the middle of a save (chats.go
\* 137-248, 362-382: two tables, a transaction and two separate deletes).
HalvesGoTogether ==
  Limit > 0 /\ Quiet /\ cuts = 0 /\ ~crossed
    => \A id \in Ids : (updated[id] # 0) <=> (words[id] # {})

\* A save nothing else ran beside mends, at its end, what an earlier stop,
\* deadline or crossing left: nothing is kept of a conversation that is not
\* listed, and no more are listed than the limit (chats.go 235-248).
TrimMends ==
  [][\A n \in Slots :
       /\ At(n, "save", "third") /\ jobs[n].alone
       /\ jobs'[n] # None /\ jobs'[n].step = "answer" /\ ~jobs'[n].failed
       => /\ \A id \in Ids : updated'[id] = 0 => words'[id] = {}
          /\ Cardinality(Listed') =< Limit]_vars

\* A screen only goes on under the id of its own conversation: it never writes
\* over another one (ask.go 464-473, chats.go 153-167, 186-223).
IdsAreTheirOwn ==
  \A on \in Links : talks[on].id # 0 => owner[talks[on].id] = talks[on].conv

\* What help.md says of a conversation, that it is kept whole: a save never
\* throws away words that were kept.
KeptWhole ==
  [][\A n \in Slots : At(n, "save", "first") /\ jobs'[n] # None /\ jobs'[n].step = "second"
       => \A id \in Ids : words[id] \subseteq words'[id]]_vars
============================================================================
