---------------------------- MODULE Conversation ----------------------------
(***************************************************************************)
(* The Ask screens of the open connections, and the goroutines that answer *)
(* beside them.  A turn hands over its events and its questions to the     *)
(* person through channels without room; the screen reads one thing at a   *)
(* time, by a command it has to send again after each (waitForAsk).        *)
(* Meanwhile connections are switched and closed, a model is read into     *)
(* memory, let go of or replaced, and a guarded job may fall over.         *)
(* What a turn says and asks is Agent's; here it takes so many steps.      *)
(***************************************************************************)
EXTENDS Naturals, FiniteSets

CONSTANTS
  Links,     \* connections
  Local,     \* whether the model runs here, and is read into memory first
  MaxTurns,  \* bound: turns
  MaxSteps,  \* bound: events and questions of all turns
  MaxPanics  \* bound: guarded jobs that fall over

ASSUME LinksAssumption == IsFiniteSet(Links) /\ Links # {} /\ Local \in BOOLEAN
ASSUME BoundsAssumption == {MaxTurns, MaxSteps, MaxPanics} \subseteq Nat

VARIABLES
  open,     \* connections that are open
  front,    \* the one in front
  talks,    \* their screens
  turns,    \* the turns there were, by number
  steps,    \* events and questions they came to
  readers,  \* waitForAsk commands under way
  messages, \* what they read, on its way to the screen
  loads,    \* connections a model is on its way into memory for
  panics    \* guarded jobs that fell over

screen == <<open, front, talks>>
channels == <<turns, steps, readers, messages>>
vars == <<screen, channels, loads, panics>>

Turns == 1..MaxTurns

\* An agent is told by the connection it was built over, whose gate it asks at.
Agent == Links
NoAgent == "none"

\* A screen: its agent; a model loading for it and a question waiting for that;
\* whether a turn is running, which, and which one can be stopped; the token of
\* the turn, and the question to the person of a turn that waits.
Talk == [agent : Agent \cup {NoAgent}, loading : BOOLEAN, waiting : BOOLEAN,
         busy : BOOLEAN, token : 0..MaxTurns, running : 0..MaxTurns,
         stop : 0..MaxTurns, pending : 0..MaxTurns]

Stages == {"none", "working", "telling", "asking", "waiting", "over"}

NewTalk == [agent |-> NoAgent, loading |-> FALSE, waiting |-> FALSE, busy |-> FALSE,
            token |-> 0, running |-> 0, stop |-> 0, pending |-> 0]

\* A turn, of an agent that asks at the gate of one connection.
Turn == [stage : Stages, at : Links \cup {"none"}, cancelled : BOOLEAN]

Reader == [turn : Turns, on : Links, token : 0..MaxTurns]

Message == [kind : {"event", "approval", "ended"}, turn : Turns, on : Links,
            token : 0..MaxTurns]

\* A load is told by the connection whose agent it is to be.
Load == Links

TypeOK ==
  /\ open \subseteq Links /\ front \in open
  /\ talks \in [Links -> Talk]
  /\ turns \in [Turns -> Turn] /\ steps \in 0..MaxSteps
  /\ readers \subseteq Reader /\ messages \subseteq Message
  /\ loads \subseteq Load /\ panics \in 0..MaxPanics
  /\ \A t \in Turns : (turns[t].stage = "none") <=> (turns[t].at = "none")
  /\ \A on \in Links : talks[on].busy => talks[on].running # 0

Init ==
  /\ open = Links /\ front = CHOOSE on \in Links : TRUE
  /\ talks = [on \in Links |-> NewTalk]
  /\ turns = [t \in Turns |->
       [stage |-> "none", at |-> "none", cancelled |-> FALSE]]
  /\ steps = 0
  /\ readers = {} /\ messages = {}
  /\ loads = {}
  /\ panics = 0

-----------------------------------------------------------------------------
(* A turn, beside the screen. *)

Begun == {t \in Turns : turns[t].stage # "none"}

\* It comes to an event, to a question, or to its end.
Work(t) ==
  /\ turns[t].stage = "working"
  /\ \/ /\ steps < MaxSteps /\ steps' = steps + 1
        /\ \E stage \in {"telling", "asking"} : turns' = [turns EXCEPT ![t].stage = stage]
     \/ turns' = [turns EXCEPT ![t].stage = "over"] /\ UNCHANGED steps
  /\ UNCHANGED <<screen, readers, messages, loads, panics>>

\* A turn whose context is over waits for nobody, and ends.
GivesUp(t) ==
  /\ turns[t].cancelled /\ turns[t].stage \in {"telling", "asking", "waiting"}
  /\ turns' = [turns EXCEPT ![t].stage = "over"]
  /\ UNCHANGED <<steps, screen, readers, messages, loads, panics>>

\* What a command has read, in the place of the command.
Reads(r, kind, t) ==
  /\ readers' = readers \ {r}
  /\ messages' = messages \cup {[kind |-> kind, turn |-> t, on |-> r.on, token |-> r.token]}

\* waitForAsk: an event of the turn it was sent for, the end of it, or a question
\* of whoever asks at the gate of its connection.
Tell(r) ==
  /\ turns[r.turn].stage = "telling"
  /\ turns' = [turns EXCEPT ![r.turn].stage = "working"]
  /\ Reads(r, "event", r.turn)
  /\ UNCHANGED <<steps, screen, loads, panics>>

TellEnd(r) ==
  /\ turns[r.turn].stage = "over"
  /\ Reads(r, "ended", r.turn)
  /\ UNCHANGED <<turns, steps, screen, loads, panics>>

AskAt(r, t) ==
  /\ turns[t].stage = "asking" /\ turns[t].at = r.on
  /\ turns' = [turns EXCEPT ![t].stage = "waiting"]
  /\ Reads(r, "approval", t)
  /\ UNCHANGED <<steps, screen, loads, panics>>

\* An answer at the gate, for a turn that still waits for one: it goes on, or
\* ends, which a refusal may make it do.
Answered(t) ==
  IF turns[t].stage = "waiting"
  THEN \E stage \in {"working", "over"} : turns' = [turns EXCEPT ![t].stage = stage]
  ELSE UNCHANGED turns

-----------------------------------------------------------------------------
(* What lands on the screen. *)

\* A message is for a turn nobody is waiting for.
Stale(m) == m.on \notin open \/ m.token # talks[m.on].token

Follow(on) == [turn |-> talks[on].running, on |-> on, token |-> talks[on].token]

\* Mutant: only the connection in front asks for the next piece.
AgainInFront(m) == IF m.on = front THEN readers \cup {Follow(m.on)} ELSE readers

\* The next piece is asked for, on the connection of the turn.
Again(m) == readers \cup {Follow(m.on)}

Asked(m) ==
  /\ m.kind = "event"
  /\ readers' = IF Stale(m) THEN readers ELSE Again(m)
  /\ UNCHANGED <<turns, talks>>

\* Mutant: the question is put on the screen in front.
PutInFront(m) == [talks EXCEPT ![front].pending = m.turn]

Put(m) == [talks EXCEPT ![m.on].pending = m.turn]

\* A turn nobody is waiting for is refused.
Approving(m) ==
  /\ m.kind = "approval"
  /\ IF Stale(m) THEN Answered(m.turn) /\ UNCHANGED talks
     ELSE talks' = Put(m) /\ UNCHANGED turns
  /\ UNCHANGED readers

Finished(m) ==
  /\ m.kind = "ended"
  /\ talks' = IF Stale(m) THEN talks ELSE [talks EXCEPT ![m.on].busy = FALSE, ![m.on].stop = 0]
  /\ UNCHANGED <<turns, readers>>

Land(m) ==
  /\ Asked(m) \/ Approving(m) \/ Finished(m)
  /\ messages' = messages \ {m}
  /\ UNCHANGED <<open, front, steps, loads, panics>>

-----------------------------------------------------------------------------
(* The screen in front. *)

\* started, with an agent: a turn of it is followed from now on.
Start(agent, talk) ==
  LET t == Cardinality(Begun) + 1
  IN /\ t \in Turns
     /\ turns' = [turns EXCEPT ![t].stage = "working", ![t].at = agent]
     /\ talks' = [talks EXCEPT ![front] =
          [talk EXCEPT !.agent = agent, !.busy = TRUE, !.token = @ + 1, !.running = t,
                       !.stop = t]]
     /\ readers' = readers \cup {[turn |-> t, on |-> front, token |-> talk.token + 1]}

\* Neither a question of a turn nor a load is in the way of the keys.
Clear == talks[front].pending = 0

\* send: a model that runs here is read into memory first, any other is built at
\* once.
Send ==
  LET talk == talks[front]
  IN /\ Clear /\ ~talk.busy /\ ~talk.loading
     /\ IF talk.agent = NoAgent /\ Local
        THEN /\ loads' = loads \cup {front}
             /\ talks' = [talks EXCEPT ![front].loading = TRUE, ![front].waiting = TRUE]
             /\ UNCHANGED <<turns, readers>>
        ELSE /\ Start(IF talk.agent = NoAgent THEN front ELSE talk.agent, talk)
             /\ UNCHANGED loads
  /\ UNCHANGED <<open, front, steps, messages, panics>>

\* ready: the model is taken by the screen in front, whichever connection it was
\* read in for, and is asked the question that waits there.
\* It may not have been made ready, because it was given up on (stoppedLoading) or
\* for another reason.
Ready(load) ==
  LET talk == [talks[front] EXCEPT !.loading = FALSE, !.waiting = FALSE]
  IN /\ loads' = loads \ {load}
     /\ \/ /\ talks' = [talks EXCEPT ![front] = talk]
           /\ UNCHANGED <<turns, readers>>
        \/ IF talks[front].waiting THEN Start(load, talk)
           ELSE /\ talks' = [talks EXCEPT ![front] = [talk EXCEPT !.agent = load]]
                /\ UNCHANGED <<turns, readers>>
  /\ UNCHANGED <<open, front, steps, messages, panics>>

\* esc while a turn is running.
Halt ==
  /\ Clear /\ ~talks[front].loading /\ talks[front].busy /\ talks[front].stop # 0
  /\ turns' = [turns EXCEPT ![talks[front].stop].cancelled = TRUE]
  /\ UNCHANGED <<steps, screen, readers, messages, loads, panics>>

\* Mutant: a turn that was answered is not read on.
DecideSilently ==
  /\ ~Clear
  /\ Answered(talks[front].pending)
  /\ talks' = [talks EXCEPT ![front].pending = 0]
  /\ readers' = readers
  /\ UNCHANGED <<open, front, steps, messages, loads, panics>>

\* enter or esc while a turn waits to be let out: the answer is given, and the
\* turn is read on.
Decide ==
  /\ ~Clear
  /\ Answered(talks[front].pending)
  /\ talks' = [talks EXCEPT ![front].pending = 0]
  /\ readers' = readers \cup {Follow(front)}
  /\ UNCHANGED <<open, front, steps, messages, loads, panics>>

\* The model of the connection in front is let go of.
Released ==
  /\ talks[front].agent # NoAgent
  /\ talks' = [talks EXCEPT ![front].agent = NoAgent, ![front].loading = FALSE]
  /\ UNCHANGED <<open, front, channels, loads, panics>>

\* answering4Links: another model was chosen, and every connection builds anew;
\* a load under way goes on.
Unbuilt == [on \in Links |-> [talks[on] EXCEPT !.agent = NoAgent]]

Choose ==
  /\ talks' = Unbuilt
  /\ UNCHANGED <<open, front, channels, loads, panics>>

Switch ==
  /\ front' \in open \ {front}
  /\ UNCHANGED <<open, talks, channels, loads, panics>>

\* What may be in front once a connection is closed.
Behind(on) == IF on = front THEN open \ {on} ELSE {front}

\* A connection is closed under whatever it has running, and its screen is gone.
Disconnect(on) ==
  /\ on \in open /\ open # {on}
  /\ open' = open \ {on}
  /\ front' \in Behind(on)
  /\ talks' = [talks EXCEPT ![on] = NewTalk]
  /\ UNCHANGED <<channels, loads, panics>>

\* crashed: a guarded job fell over, of any screen, a load among them.
Crashed ==
  /\ panics < MaxPanics /\ panics' = panics + 1
  /\ \/ UNCHANGED loads
     \/ \E load \in loads : loads' = loads \ {load}
  /\ talks' = [talks EXCEPT ![front].busy = FALSE, ![front].loading = FALSE,
                            ![front].stop = 0]
  /\ UNCHANGED <<open, front, channels>>

-----------------------------------------------------------------------------
Hand(r) == Tell(r) \/ TellEnd(r) \/ \E t \in Turns : AskAt(r, t)

Beside ==
  \/ \E t \in Turns : Work(t) \/ GivesUp(t)
  \/ \E r \in readers : Hand(r)
  \/ \E m \in messages : Land(m)
  \/ \E load \in loads : Ready(load)

Person ==
  \/ Send \/ Halt \/ Released \/ Choose \/ Switch
  \/ Decide
  \/ \E on \in Links : Disconnect(on)

Next == Beside \/ Person \/ Crashed

\* Goroutines run, and the screen takes what lands; nobody has to press a key.
Fairness ==
  /\ \A t \in Turns : WF_vars(Work(t) \/ GivesUp(t))
  /\ \A t \in Turns : \A on \in Links : \A token \in 0..MaxTurns :
       LET r == [turn |-> t, on |-> on, token |-> token]
       IN WF_vars(r \in readers /\ Hand(r))
  /\ WF_vars(\E m \in messages : Land(m))

Spec == Init /\ [][Next]_vars /\ Fairness

-----------------------------------------------------------------------------
(* Properties. *)

\* How many ways the turn of a connection is followed in: it is being read, what
\* was read is on its way, or it waits for the person.
Followers(on) ==
  Cardinality({r \in readers : r.on = on /\ r.token = talks[on].token})
    + Cardinality({m \in messages : m.on = on /\ m.token = talks[on].token})
    + (IF talks[on].pending = 0 THEN 0 ELSE 1)

\* A turn that runs is always followed, and in one way only as long as no job
\* fell over (ask.go 352-396: each piece asks for the next, and a question holds
\* that up until it is answered).
RunningIsFollowed ==
  \A on \in open : talks[on].busy =>
    Followers(on) >= 1 /\ (panics = 0 => Followers(on) = 1)

\* What is agreed to on a connection is asked by an agent of that connection
\* (links.go 62-65, ask.go 365-396).
AgreedToWhereItIsAsked ==
  \A on \in open : talks[on].pending # 0 => turns[talks[on].pending].at = on

\* A turn that was stopped ends and its screen is free again, unless the
\* connection was closed, or a question it had already put is still to be
\* answered, for nothing (ask.go 598-605, 399-408, 365-377).
StoppedScreensClear ==
  \A on \in Links :
    (talks[on].busy /\ talks[on].stop # 0 /\ turns[talks[on].stop].cancelled)
      ~> (~talks[on].busy \/ talks[on].pending # 0 \/ on \notin open)

(* What the comments say and the code does not keep.                        *)

\* "An agent is built over one connection's guard, ... and asking it about another
\* server would be asking the wrong one" (links.go 62-65): ready takes the agent in
\* front, whichever connection it was built over (ask.go 273).
AssistantIsItsOwn ==
  \A on \in Links : talks[on].agent # NoAgent => talks[on].agent = on

\* What approving says it sees to: no turn is left hanging at the gate or on a
\* channel once nobody is waiting for it.
NobodyIsLeftHanging ==
  \A t \in Turns :
    (turns[t].stage # "none" /\ turns[t].at \notin open) ~> (turns[t].stage = "over")
============================================================================
