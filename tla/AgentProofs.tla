---------------------------- MODULE AgentProofs ----------------------------
(***************************************************************************)
(* What Agent promises for every set of tools and statements, every number *)
(* of rounds, of calls and of questions, and every kept conversation.      *)
(* The inductive invariant says of the phase what has been agreed to so    *)
(* far (Asked), and of the answer being worked where its calls and their   *)
(* results stand in the conversation (InPlace).                            *)
(***************************************************************************)
EXTENDS Agent, WellFoundedInduction, SequenceTheorems, TLAPS

Honest == \A i \in DOMAIN messages : Truthful(messages[i])

\* What the person was asked by now covers what the next request carries.
Asked ==
  /\ approved \subseteq agreed /\ sent \subseteq agreed
  /\ phase = "asking" => Carrying(messages) \subseteq approved \cup fresh
  /\ phase \in {"request", "stream"} /\ ~Local => Carrying(messages) \subseteq approved

\* Only a statement that reads is put to the person, and run.
Judged ==
  phase \in {"approve", "query"} =>
    calls[at].tool = "run_select" /\ calls[at].statement \in Reading

\* All calls of a message have their results, or its turn was stopped.
Settled(i) ==
  \/ messages[i].turn \in stopped \cup {StoppedBefore}
  \/ \A k \in DOMAIN messages[i].calls : AnsweredIn(messages, i, k)

\* Where the answer stands whose calls are being worked.
Base == IF phase = "result" THEN Len(messages) - at ELSE (Len(messages) - at) + 1

\* Its results follow it one by one, and everything before it is settled.
InPlace ==
  IF phase \in Working
  THEN /\ Base \in DOMAIN messages
       /\ messages[Base].calls = calls /\ messages[Base].turn = turn
       /\ \A k \in 1..(Len(messages) - Base) : AnsweredIn(messages, Base, k)
       /\ \A i \in DOMAIN messages : i # Base => Settled(i)
  ELSE \A i \in DOMAIN messages : Settled(i)

SafeInv == TypeOK /\ Judged /\ Honest /\ OldestGoesFirst

IInv == SafeInv /\ Asked /\ InPlace

-----------------------------------------------------------------------------
(* Conversations: what a message more, or an emptied one, leaves of them.  *)

(* A conversation is extended at its end, and the rest of it stays.        *)
LEMMA Extended ==
  ASSUME NEW said \in Seq(Message), NEW message \in Message
  PROVE  /\ Append(said, message) \in Seq(Message)
         /\ Len(Append(said, message)) = Len(said) + 1
         /\ DOMAIN Append(said, message) = 1..(Len(said) + 1)
         /\ DOMAIN said = 1..Len(said)
         /\ \A i \in DOMAIN said : Append(said, message)[i] = said[i]
         /\ Append(said, message)[Len(said) + 1] = message
BY AppendProperties, LenProperties

(* Compact empties one result that held something, and it is the first.    *)
LEMMA Emptied ==
  ASSUME NEW said \in Seq(Message), RoomIn(said) # {}
  PROVE  \E o \in RoomIn(said) :
           /\ \A j \in RoomIn(said) : o <= j
           /\ Compacted(said) = [said EXCEPT ![o].holds = "dropped"]
           /\ Compacted(said) \in Seq(Message)
           /\ Len(Compacted(said)) = Len(said)
           /\ DOMAIN Compacted(said) = DOMAIN said
           /\ \A i \in DOMAIN said :
                Compacted(said)[i] = IF i = o THEN [said[i] EXCEPT !.holds = "dropped"]
                                     ELSE said[i]
<1>1. RoomIn(said) \in SUBSET Nat BY LenProperties DEF RoomIn
<1>2. \E o \in RoomIn(said) : \A j \in RoomIn(said) : o <= j
  <2> DEFINE less == OpToRel(<, Nat)
  <2>1. PICK o \in RoomIn(said) : \A j \in RoomIn(said) : <<j, o>> \notin less
    BY <1>1, WFMin, NatLessThanWellFounded
  <2>2. \A j, k \in Nat : j < k => <<j, k>> \in less BY DEF OpToRel
  <2> HIDE DEF less
  <2>3. \A j \in RoomIn(said) : ~(j < o) BY <1>1, <2>1, <2>2
  <2>4. QED BY <1>1, <2>3
<1> DEFINE o == CHOOSE i \in RoomIn(said) : \A j \in RoomIn(said) : i <= j
<1>3. o \in RoomIn(said) /\ \A j \in RoomIn(said) : o <= j BY <1>2
<1>4. Compacted(said) = [said EXCEPT ![o].holds = "dropped"] BY DEF Compacted
<1>5. o \in 1..Len(said) /\ said[o] \in Message
  BY <1>3, LenProperties, ElementOfSeq DEF RoomIn
<1> HIDE DEF o
<1>6. [said[o] EXCEPT !.holds = "dropped"] \in Message
  BY <1>5 DEF Message, Holdings
<1>7. Compacted(said) = [said EXCEPT ![o] = [said[o] EXCEPT !.holds = "dropped"]]
  BY <1>4
<1>8. /\ Compacted(said) \in Seq(Message)
      /\ Len(Compacted(said)) = Len(said)
  BY <1>5, <1>6, <1>7, ExceptSeq
<1>9. DOMAIN Compacted(said) = DOMAIN said BY <1>4
<1>10. \A i \in DOMAIN said :
         Compacted(said)[i] = IF i = o THEN [said[i] EXCEPT !.holds = "dropped"]
                              ELSE said[i]
  BY <1>7
<1>11. QED BY <1>3, <1>4, <1>8, <1>9, <1>10

(* What a request carries is what permit reads off it, if the tools say    *)
(* what their results are.                                                 *)
LEMMA CarriedIsCarrying ==
  ASSUME NEW said \in Seq(Message), \A i \in DOMAIN said : Truthful(said[i])
  PROVE  Carried(said) \subseteq Carrying(said)
<1> SUFFICES ASSUME NEW i \in DOMAIN said, said[i].holds \in Classes
             PROVE  said[i].holds \in Carrying(said)
  BY DEF Carried
<1>1. CASE said[i].holds = "question" BY <1>1 DEF Carrying
<1>2. CASE said[i].holds = "schema"
  BY <1>2 DEF Carrying, Truthful, RowsFrom
<1>3. CASE said[i].holds = "rows"
  BY <1>3 DEF Carrying, Truthful, RowsFrom
<1>4. QED BY <1>1, <1>2, <1>3 DEF Classes

(* Making room adds nothing to what is carried.                            *)
LEMMA RoomCarriesNoMore ==
  ASSUME NEW said \in Seq(Message), RoomIn(said) # {}
  PROVE  Carrying(Compacted(said)) \subseteq Carrying(said)
<1>1. PICK o \in RoomIn(said) :
        /\ DOMAIN Compacted(said) = DOMAIN said
        /\ \A i \in DOMAIN said :
             Compacted(said)[i] = IF i = o THEN [said[i] EXCEPT !.holds = "dropped"]
                                  ELSE said[i]
  BY Emptied
<1>2. \A i \in DOMAIN said : said[i] \in Message BY ElementOfSeq, LenProperties
<1>3. \A i \in DOMAIN said : /\ Compacted(said)[i].role = said[i].role
                             /\ Compacted(said)[i].tool = said[i].tool
  BY <1>1, <1>2 DEF Message
<1>4. QED BY <1>1, <1>3 DEF Carrying

-----------------------------------------------------------------------------
(* The type, and what messages say of themselves.                          *)

\* What a step must leave of the conversation for SafeInv to stand.
Sound == messages' \in Seq(Message) /\ Honest' /\ OldestGoesFirst'

(* A message that came from where it says may be added.                    *)
LEMMA SaidMore ==
  ASSUME SafeInv, NEW message \in Message, Truthful(message),
         message.holds # "dropped", messages' = Append(messages, message)
  PROVE  Sound
<1> USE DEF SafeInv, TypeOK, Sound
<1>1. /\ messages' \in Seq(Message)
      /\ DOMAIN messages' = 1..(Len(messages) + 1)
      /\ DOMAIN messages = 1..Len(messages)
      /\ \A i \in DOMAIN messages : messages'[i] = messages[i]
      /\ messages'[Len(messages) + 1] = message
      /\ Len(messages) \in Nat
  BY Extended, LenProperties
<1>2. Honest' BY <1>1 DEF Honest
<1>3. OldestGoesFirst'
  <2> SUFFICES ASSUME NEW i \in DOMAIN messages', NEW j \in DOMAIN messages', i < j,
                      messages'[i].role = "tool", messages'[j].holds = "dropped"
               PROVE  messages'[i].holds = "dropped"
    BY DEF OldestGoesFirst, OldestFirst
  <2>1. j \in DOMAIN messages /\ i \in DOMAIN messages BY <1>1
  <2>2. QED BY <1>1, <2>1 DEF OldestGoesFirst, OldestFirst
<1>4. QED BY <1>1, <1>2, <1>3

(* Emptying the oldest result keeps the order.                             *)
LEMMA MadeRoom ==
  ASSUME SafeInv, RoomIn(messages) # {}, messages' = Compacted(messages)
  PROVE  Sound
<1>0. messages \in Seq(Message) BY DEF SafeInv, TypeOK
<1>1. PICK o \in RoomIn(messages) :
        /\ \A j \in RoomIn(messages) : o <= j
        /\ messages' \in Seq(Message)
        /\ DOMAIN messages' = DOMAIN messages
        /\ \A i \in DOMAIN messages :
             messages'[i] = IF i = o THEN [messages[i] EXCEPT !.holds = "dropped"]
                            ELSE messages[i]
  <2>1. PICK o \in RoomIn(messages) :
          /\ \A j \in RoomIn(messages) : o <= j
          /\ Compacted(messages) \in Seq(Message)
          /\ DOMAIN Compacted(messages) = DOMAIN messages
          /\ \A i \in DOMAIN messages :
               Compacted(messages)[i] = IF i = o
                                        THEN [messages[i] EXCEPT !.holds = "dropped"]
                                        ELSE messages[i]
    BY <1>0, Emptied
  <2>2. QED BY <2>1, Zenon
<1> USE DEF SafeInv, TypeOK, Sound
<1>2. /\ DOMAIN messages = 1..Len(messages) /\ Len(messages) \in Nat
      /\ \A i \in DOMAIN messages : messages[i] \in Message
  BY LenProperties, ElementOfSeq
<1>3. \A i \in DOMAIN messages :
        /\ messages'[i].role = messages[i].role /\ messages'[i].tool = messages[i].tool
        /\ messages'[i].holds = IF i = o THEN "dropped" ELSE messages[i].holds
  BY <1>1, <1>2 DEF Message
<1>4. Honest' BY <1>1, <1>3 DEF Honest, Truthful
<1>5. OldestGoesFirst'
  <2> SUFFICES ASSUME NEW i \in DOMAIN messages, NEW j \in DOMAIN messages, i < j,
                      messages'[i].role = "tool", messages'[j].holds = "dropped"
               PROVE  messages'[i].holds = "dropped"
    BY <1>1 DEF OldestGoesFirst, OldestFirst
  <2>1. CASE messages[j].holds = "dropped"
    BY <1>3, <2>1 DEF OldestGoesFirst, OldestFirst
  <2>2. CASE messages[j].holds # "dropped"
    <3>1. j = o BY <1>3, <2>2
    <3>2. i \notin RoomIn(messages) BY <1>1, <1>2, <3>1
    <3>3. QED BY <1>3, <3>2 DEF RoomIn
  <2>3. QED BY <2>1, <2>2
<1>6. QED BY <1>1, <1>4, <1>5

(* What a tool gives back keeps the type: it is the result of the call     *)
(* being worked.                                                           *)
LEMMA Given ==
  ASSUME SafeInv, phase \in Working, NEW holds \in {"nothing", "schema", "rows"},
         Gives(holds),
         holds = "schema" => calls[at].tool # "run_select",
         holds = "rows" => calls[at].tool = "run_select"
  PROVE  Sound /\ Result(holds) \in Message
<1> USE DEF SafeInv, TypeOK
<1>1. calls[at] \in ToolCalls BY ElementOfSeq, LenProperties
<1>2. calls[at].tool \in Tools BY <1>1 DEF ToolCalls
<1>3. Result(holds) \in Message
  BY <1>2, EmptySeq, BoundsAssumption DEF Result, Message, Holdings, Classes
<1>4. Truthful(Result(holds)) BY DEF Truthful, Result
<1>5. QED BY <1>3, <1>4, SaidMore DEF Gives, Result

(* However a turn ends, the invariant stands.                              *)
LEMMA OverSafe == SafeInv /\ (Over \/ OverStopped) => SafeInv'
<1> SUFFICES ASSUME SafeInv, Over \/ OverStopped PROVE SafeInv' OBVIOUS
<1>1. Returns BY DEF Over, OverStopped
<1>2. Sound
  BY <1>1 DEF Returns, SafeInv, TypeOK, Sound, Honest, OldestGoesFirst
<1>3. calls' \in Seq(ToolCalls) /\ at' \in Nat /\ phase' \notin Working /\ phase' \in Phases
  BY <1>1, EmptySeq DEF Returns, Working, Phases
<1>4. stopped' \subseteq 0..MaxAsks /\ fresh' \subseteq Classes
  BY <1>1 DEF Returns, Over, OverStopped, SafeInv, TypeOK
<1>5. TypeOK'
  BY <1>1, <1>2, <1>3, <1>4 DEF Returns, SafeInv, TypeOK, Sound, database
<1>6. Judged' BY <1>3 DEF Judged, Working
<1>7. QED BY <1>2, <1>5, <1>6 DEF SafeInv, Sound

(* No step of the turn but those of the tools breaks it.                   *)
LEMMA TurnSafe ==
  SafeInv /\ (Ask \/ Permit \/ Allow \/ Refuse \/ AskGivenUp \/ Chat \/ ChatFails
             \/ Overflow \/ Answer \/ Done \/ Stop \/ Resume) => SafeInv'
<1> SUFFICES ASSUME SafeInv,
                    Ask \/ Permit \/ Allow \/ Refuse \/ AskGivenUp \/ Chat \/ ChatFails
                    \/ Overflow \/ Answer \/ Done \/ Stop \/ Resume
             PROVE  SafeInv'
  OBVIOUS
<1> USE BoundsAssumption
<1>0. messages' = messages => Sound
  BY DEF SafeInv, TypeOK, Sound, Honest, OldestGoesFirst
<1> USE DEF Working, Phases, asking, working, database
<1>1. CASE Ask
  <2>1. Question \in Message /\ Truthful(Question)
    BY <1>1, EmptySeq DEF Ask, SafeInv, TypeOK, Question, Message, Holdings, Classes, Truthful
  <2>2. Sound BY <1>1, <2>1, SaidMore DEF Ask, Question
  <2>3. TypeOK'
    <3>1. turn' \in 0..MaxAsks /\ round' \in 0..(Rounds - 1)
      BY <1>1 DEF Ask, SafeInv, TypeOK
    <3>2. QED BY <1>1, <2>2, <3>1 DEF Ask, SafeInv, TypeOK, Sound
  <2>4. Judged' BY <1>1 DEF Ask, Judged
  <2>5. QED BY <2>2, <2>3, <2>4 DEF SafeInv, Sound
<1>2. CASE Permit
  <2>1. Unapproved \subseteq Classes BY DEF Unapproved, Carrying, Classes
  <2>2. QED BY <1>0, <1>2, <2>1 DEF Permit, SafeInv, TypeOK, Sound, Judged
<1>3. CASE Allow BY <1>0, <1>3 DEF Allow, SafeInv, TypeOK, Sound, Judged
<1>4. CASE Refuse \/ AskGivenUp \/ ChatFails \/ Done
  BY <1>4, OverSafe DEF Refuse, AskGivenUp, ChatFails, Done
<1>5. CASE Chat
  BY <1>0, <1>5 DEF Chat, Carried, SafeInv, TypeOK, Sound, Judged
<1>6. CASE Overflow
  <2>1. Sound BY <1>6, MadeRoom DEF Overflow
  <2>2. QED BY <1>6, <2>1 DEF Overflow, SafeInv, TypeOK, Sound, Judged
<1>7. CASE Answer
  <2>1. PICK n \in 0..MaxCalls : \E called \in [1..n -> ToolCalls] :
          /\ messages' = Append(messages, Answered(called))
          /\ calls' = called /\ at' = 1
          /\ phase' = IF called = <<>> THEN "done" ELSE "call"
    BY <1>7 DEF Answer
  <2>9. PICK called \in [1..n -> ToolCalls] :
          /\ messages' = Append(messages, Answered(called))
          /\ calls' = called /\ at' = 1
          /\ phase' = IF called = <<>> THEN "done" ELSE "call"
    BY <2>1
  <2>2. called \in Seq(ToolCalls) /\ DOMAIN called = 1..n /\ n \in Nat BY <2>9
  <2>3. called # <<>> => 1 \in DOMAIN called BY <2>2, EmptySeq, LenProperties
  <2>4. Answered(called) \in Message /\ Truthful(Answered(called))
    BY <2>2 DEF SafeInv, TypeOK, Answered, Message, Holdings, Classes, Truthful
  <2>5. Sound BY <2>9, <2>4, SaidMore DEF Answered
  <2>6. TypeOK' BY <1>7, <2>9, <2>2, <2>3, <2>5 DEF Answer, SafeInv, TypeOK, Sound
  <2>7. Judged' BY <2>9 DEF Judged
  <2>8. QED BY <2>5, <2>6, <2>7 DEF SafeInv, Sound
<1>8. CASE Stop BY <1>0, <1>8 DEF Stop, SafeInv, TypeOK, Sound, Judged
<1>9. CASE Resume
  BY <1>9, SavedAssumption
     DEF Resume, SafeInv, TypeOK, Honest, OldestGoesFirst, Judged
<1>10. QED BY <1>1, <1>2, <1>3, <1>4, <1>5, <1>6, <1>7, <1>8, <1>9

(* Nor do those of the tools.                                              *)
LEMMA ToolSafe ==
  SafeInv /\ (Call \/ CallStopped \/ Read \/ GuardRefuses \/ Explain \/ RunSelect
             \/ Grant \/ Deny \/ GrantGivenUp \/ Query \/ QueryFails \/ Tell
             \/ TellStopped) => SafeInv'
<1> SUFFICES ASSUME SafeInv,
                    Call \/ CallStopped \/ Read \/ GuardRefuses \/ Explain \/ RunSelect
                    \/ Grant \/ Deny \/ GrantGivenUp \/ Query \/ QueryFails \/ Tell
                    \/ TellStopped
             PROVE  SafeInv'
  OBVIOUS
<1> USE BoundsAssumption
<1>0. messages' = messages => Sound
  BY DEF SafeInv, TypeOK, Sound, Honest, OldestGoesFirst
<1> USE DEF Working, Phases, asking, working, database
<1>1. CASE Call BY <1>0, <1>1 DEF Call, SafeInv, TypeOK, Sound, Judged
<1>2. CASE CallStopped \/ TellStopped
  BY <1>2, OverSafe DEF CallStopped, TellStopped
<1>3. CASE Read \/ GuardRefuses \/ Explain \/ Deny \/ GrantGivenUp
  <2>1. PICK holds \in {"nothing", "schema"} :
          /\ Gives(holds)
          /\ holds = "schema" => calls[at].tool # "run_select"
          /\ UNCHANGED database /\ phase \in Working
    BY <1>3 DEF SafeInv, Judged, Read, GuardRefuses, Explain, Deny, GrantGivenUp, StatementTools, Catalogue
  <2>2. Sound BY <2>1, Given
  <2>3. QED BY <2>1, <2>2 DEF Gives, SafeInv, TypeOK, Sound, Judged
<1>4. CASE RunSelect
  <2>1. calls[at].statement \in Reading BY <1>4 DEF RunSelect, Allowed, Verdict
  <2>2. QED BY <1>0, <1>4, <2>1 DEF RunSelect, SafeInv, TypeOK, Sound, Judged
<1>5. CASE Grant
  BY <1>0, <1>5, StatementsAssumption DEF Grant, SafeInv, TypeOK, Sound, Judged
<1>6. CASE Query \/ QueryFails
  <2>1. PICK holds \in {"nothing", "rows"} :
          /\ Gives(holds) /\ phase = "query"
          /\ holds = "rows" => calls[at].tool = "run_select"
          /\ granted' = {} /\ ran' \subseteq ran \cup granted
    BY <1>6 DEF SafeInv, Judged, Query, QueryFails
  <2>2. Sound BY <2>1, Given
  <2>3. QED BY <2>1, <2>2 DEF Gives, SafeInv, TypeOK, Sound, Judged
<1>7. CASE Tell
  <2>1. DOMAIN calls = 1..Len(calls) /\ Len(calls) \in Nat
    BY LenProperties DEF SafeInv, TypeOK
  <2>0. at \in Nat BY DEF SafeInv, TypeOK
  <2>2. CASE at < Len(calls)
    <3>0. at' = at + 1 /\ phase' = "call" /\ calls' = calls /\ round' = round
      <4>0. \A n \in Nat : at < n => at # n BY <2>0
      <4>1. at # Len(calls) BY <2>1, <2>2, <4>0, Zenon
      <4>2. QED BY <1>7, <4>1, Zenon DEF Tell
    <3>1. at' = at + 1 /\ at' \in DOMAIN calls' /\ phase' = "call" /\ calls' = calls
          /\ round' = round
      BY <2>0, <2>1, <2>2, <3>0
    <3>2. QED BY <1>0, <1>7, <3>1 DEF Tell, SafeInv, TypeOK, Sound, Judged
  <2>3. CASE at = Len(calls)
    <3>1. calls' \in Seq(ToolCalls) /\ at' = 0 /\ phase' \in {"done", "permit"}
      <4>1. calls' = <<>> /\ at' = 0 /\ phase' \in {"done", "permit"}
        BY <1>7, <2>0, <2>1, <2>3 DEF Tell
      <4>2. QED BY <4>1, EmptySeq
    <3>2. round' \in 0..(Rounds - 1)
      BY <1>7, <2>1, <2>3 DEF Tell, LastRound, SafeInv, TypeOK
    <3>3. QED BY <1>0, <1>7, <3>1, <3>2 DEF Tell, SafeInv, TypeOK, Sound, Judged
  <2>4. QED BY <1>7, <2>2, <2>3 DEF Tell
<1>8. QED BY <1>1, <1>2, <1>3, <1>4, <1>5, <1>6, <1>7

(* The invariant holds at the start.                                       *)
LEMMA InitIInv == Init => IInv
<1> SUFFICES ASSUME Init PROVE IInv OBVIOUS
<1>1. messages \in Seq(Message) /\ calls \in Seq(ToolCalls) /\ DOMAIN messages = {}
  BY EmptySeq DEF Init
<1>2. TypeOK
  <2>1. 0 \in 0..(Rounds - 1) /\ 0 \in 0..MaxAsks BY BoundsAssumption
  <2>2. QED BY <1>1, <2>1 DEF Init, TypeOK, Phases, Working
<1>3. Judged /\ Honest /\ OldestGoesFirst
  BY <1>1 DEF Init, Judged, Honest, OldestGoesFirst, OldestFirst
<1>4. Asked BY DEF Init, Asked
<1>5. InPlace BY <1>1 DEF Init, InPlace, Working
<1>6. QED BY <1>2, <1>3, <1>4, <1>5 DEF IInv, SafeInv

(* Nor does any step break the part of it that needs no calm.              *)
LEMMA NextSafe == SafeInv /\ [Next]_vars => SafeInv'
<1> SUFFICES ASSUME SafeInv, [Next]_vars PROVE SafeInv' OBVIOUS
<1>1. CASE Next BY <1>1, TurnSafe, ToolSafe DEF Next, Step, Person
<1>2. CASE UNCHANGED vars
  BY <1>2 DEF vars, asking, working, database, SafeInv, TypeOK, Judged,
              Honest, OldestGoesFirst
<1>3. QED BY <1>1, <1>2

-----------------------------------------------------------------------------
(* Consent.                                                                *)

(* What was asked covers what is sent next, as long as nobody exchanges    *)
(* the conversation under a turn.                                          *)
LEMMA NextAsked == ~Overlaps /\ SafeInv /\ Asked /\ [Next]_vars => Asked'
<1> SUFFICES ASSUME ~Overlaps, SafeInv, Asked, [Next]_vars PROVE Asked' OBVIOUS
<1> USE DEF asking
<1>1. ASSUME UNCHANGED <<approved, agreed, sent>>,
             phase' \notin {"asking", "request", "stream"}
      PROVE  Asked'
  BY <1>1 DEF Asked
<1>2. CASE Ask BY <1>1, <1>2 DEF Ask
<1>3. CASE Permit BY <1>3 DEF Permit, Unapproved, Asked
<1>4. CASE Allow BY <1>4 DEF Allow, Asked
<1>5. CASE Chat
  <2>1. Carried(messages) \subseteq Carrying(messages)
    BY CarriedIsCarrying DEF SafeInv, TypeOK, Honest
  <2>2. QED BY <1>5, <2>1 DEF Chat, Asked
<1>6. CASE Overflow
  <2>1. Carrying(messages') \subseteq Carrying(messages)
    BY <1>6, RoomCarriesNoMore DEF Overflow, SafeInv, TypeOK
  <2>2. QED BY <1>6, <2>1 DEF Overflow, Asked
<1>7. CASE Answer BY <1>1, <1>7 DEF Answer
<1>8. CASE Refuse \/ AskGivenUp \/ ChatFails \/ Done \/ CallStopped \/ TellStopped
  BY <1>1, <1>8 DEF Refuse, AskGivenUp, ChatFails, Done, CallStopped, TellStopped,
              Over, OverStopped, Returns
<1>9. CASE Call \/ RunSelect \/ Grant \/ Tell
  BY <1>1, <1>9 DEF Call, RunSelect, Grant, Tell
<1>10. CASE Read \/ GuardRefuses \/ Explain \/ Deny \/ GrantGivenUp \/ Query \/ QueryFails
  BY <1>1, <1>10
     DEF Read, GuardRefuses, Explain, Deny, GrantGivenUp, Query, QueryFails, Gives
<1>11. CASE Stop BY <1>11 DEF Stop, Asked
<1>12. CASE Resume BY <1>1, <1>12 DEF Resume
<1>13. CASE UNCHANGED vars BY <1>13 DEF vars, Asked
<1>14. QED BY <1>2, <1>3, <1>4, <1>5, <1>6, <1>7, <1>8, <1>9, <1>10, <1>11, <1>12, <1>13
           DEF Next, Step, Person

(* Every step keeps the promise, or is none of its business.               *)
LEMMA StepKeepsPromise ==
  SafeInv /\ Asked /\ [Next]_vars => [Promise!Next]_(Promise!vars)
<1> SUFFICES ASSUME SafeInv, Asked, [Next]_vars PROVE [Promise!Next]_(Promise!vars)
  OBVIOUS
<1> USE DEF asking, database, Promise!Next, Promise!vars
<1>1. ASSUME UNCHANGED <<agreed, sent, granted, ran>> PROVE UNCHANGED Promise!vars
  BY <1>1
<1>2. CASE Allow
  <2>1. fresh \in SUBSET Classes BY DEF SafeInv, TypeOK
  <2>2. Promise!Agree BY <1>2, <2>1 DEF Allow, Promise!Agree
  <2>3. QED BY <2>2
<1>3. CASE Chat
  <2>1. CASE Local BY <1>1, <1>3, <2>1 DEF Chat
  <2>2. CASE ~Local
    <3>1. Carried(messages) \in SUBSET agreed
      BY <1>3, <2>2, CarriedIsCarrying DEF Chat, SafeInv, TypeOK, Honest, Asked
    <3>2. Promise!Send BY <1>3, <2>2, <3>1 DEF Chat, Promise!Send
    <3>3. QED BY <3>2
  <2>3. QED BY <2>1, <2>2
<1>4. CASE Grant
  <2>1. Promise!Grant BY <1>4 DEF Grant, SafeInv, Judged, Promise!Grant
  <2>2. QED BY <2>1
<1>5. CASE Query \/ QueryFails
  <2>1. Promise!Spend BY <1>5 DEF Query, QueryFails, Gives, Promise!Spend
  <2>2. QED BY <2>1
<1>6. CASE Refuse \/ AskGivenUp \/ ChatFails \/ Done \/ CallStopped \/ TellStopped
  BY <1>1, <1>6 DEF Refuse, AskGivenUp, ChatFails, Done, CallStopped, TellStopped,
              Over, OverStopped, Returns
<1>7. CASE Ask \/ Permit \/ Overflow \/ Answer \/ Call \/ RunSelect \/ Tell \/ Stop \/ Resume
  BY <1>1, <1>7 DEF Ask, Permit, Overflow, Answer, Call, RunSelect, Tell, Stop, Resume
<1>8. CASE Read \/ GuardRefuses \/ Explain \/ Deny \/ GrantGivenUp
  BY <1>1, <1>8 DEF Read, GuardRefuses, Explain, Deny, GrantGivenUp, Gives
<1>9. CASE UNCHANGED vars BY <1>1, <1>9 DEF vars
<1>10. QED BY <1>2, <1>3, <1>4, <1>5, <1>6, <1>7, <1>8, <1>9 DEF Next, Step, Person

(* The type: a call being worked is one of the calls, and there are never  *)
(* more rounds than were allowed.                                          *)
THEOREM TypeCorrect == Spec => []TypeOK
<1>1. Init => SafeInv BY InitIInv DEF IInv
<1>2. SafeInv => TypeOK BY DEF SafeInv
<1>3. QED BY <1>1, <1>2, NextSafe, PTL DEF Spec

(* Room is made from the oldest result on.                                 *)
THEOREM TheOldestGoFirst == Spec => []OldestGoesFirst
<1>1. Init => SafeInv BY InitIInv DEF IInv
<1>2. SafeInv => OldestGoesFirst BY DEF SafeInv
<1>3. QED BY <1>1, <1>2, NextSafe, PTL DEF Spec

(* Nothing leaves the machine and nothing is run that the person did not   *)
(* agree to, as long as no kept conversation is opened under a turn.       *)
THEOREM NothingIsUnasked == ~Overlaps => (Spec => NothingUnasked)
<1> SUFFICES ASSUME ~Overlaps PROVE Spec => NothingUnasked OBVIOUS
<1>1. Init => SafeInv /\ Asked /\ Promise!Init
  BY InitIInv DEF IInv, Init, Promise!Init
<1>2. SafeInv /\ Asked /\ [Next]_vars => (SafeInv /\ Asked)' BY NextSafe, NextAsked
<1>3. QED BY <1>1, <1>2, StepKeepsPromise, PTL DEF Spec, NothingUnasked, Promise!Spec

-----------------------------------------------------------------------------
(* Calls and their results.                                                *)

(* What was settled stays settled when a message more is said.             *)
LEMMA StaysSettled ==
  ASSUME messages \in Seq(Message), NEW message \in Message,
         messages' = Append(messages, message), stopped \subseteq stopped'
  PROVE  /\ \A i \in DOMAIN messages : Settled(i) => Settled(i)'
         /\ \A i, k \in Nat : i \in DOMAIN messages /\ AnsweredIn(messages, i, k)
                             => AnsweredIn(messages', i, k)
<1>1. /\ DOMAIN messages' = 1..(Len(messages) + 1)
      /\ DOMAIN messages = 1..Len(messages)
      /\ \A i \in DOMAIN messages : messages'[i] = messages[i]
      /\ Len(messages) \in Nat
  BY Extended, LenProperties
<1>2. ASSUME NEW i \in DOMAIN messages, NEW k, AnsweredIn(messages, i, k)
      PROVE  AnsweredIn(messages', i, k)
  BY <1>1, <1>2 DEF AnsweredIn
<1>3. ASSUME NEW i \in DOMAIN messages, Settled(i) PROVE Settled(i)'
  BY <1>1, <1>2, <1>3 DEF Settled
<1>4. QED BY <1>2, <1>3

(* Ending a turn settles what it leaves: it was stopped, or had nothing    *)
(* to work.                                                                *)
LEMMA OverInPlace ==
  ASSUME SafeInv, InPlace, OverStopped \/ (Over /\ phase \notin Working)
  PROVE  InPlace'
<1>1. messages' = messages /\ stopped \subseteq stopped' /\ phase' \notin Working
  BY DEF Over, OverStopped, Returns, Working
<1>2. ASSUME NEW i \in DOMAIN messages PROVE Settled(i)'
  <2>1. CASE Settled(i) BY <1>1, <2>1 DEF Settled
  <2>2. CASE ~Settled(i)
    <3>1. phase \in Working /\ i = Base BY <2>2 DEF InPlace
    <3>2. messages[i].turn = turn /\ turn \in stopped' BY <3>1 DEF InPlace, OverStopped, Returns
    <3>3. QED BY <1>1, <3>2 DEF Settled
  <2>3. QED BY <2>1, <2>2
<1>3. QED BY <1>1, <1>2 DEF InPlace

(* What a tool gives back goes behind the results before it.               *)
LEMMA GivesInPlace ==
  ASSUME SafeInv, InPlace, phase \in Working \ {"result"},
         NEW holds, Gives(holds), Result(holds) \in Message
  PROVE  InPlace'
<1> DEFINE n == Len(messages)
<1>1. /\ messages \in Seq(Message) /\ n \in Nat /\ at \in Nat
      /\ messages' \in Seq(Message) /\ Len(messages') = n + 1
      /\ DOMAIN messages' = 1..(n + 1) /\ DOMAIN messages = 1..n
      /\ \A i \in DOMAIN messages : messages'[i] = messages[i]
      /\ messages'[n + 1] = Result(holds)
  BY Extended, LenProperties DEF SafeInv, TypeOK, Gives
<1>2. /\ phase' = "result" /\ phase' \in Working
      /\ calls' = calls /\ at' = at /\ turn' = turn /\ stopped' = stopped
      /\ messages' = Append(messages, Result(holds))
  BY DEF Gives, Working, working
<1>3. Base = (n - at) + 1 /\ Base' = (n + 1) - at BY <1>1, <1>2 DEF Base
<1>4. Base' = Base /\ Base \in 1..n
  BY <1>1, <1>3 DEF InPlace
<1>5. messages'[Base].calls = calls /\ messages'[Base].turn = turn
  BY <1>1, <1>4 DEF InPlace
<1>6. ASSUME NEW k \in 1..((n + 1) - Base) PROVE AnsweredIn(messages', Base, k)
  <2>1. CASE k \in 1..(n - Base)
    <3>1. AnsweredIn(messages, Base, k) BY <2>1 DEF InPlace
    <3>2. QED BY <1>1, <1>2, <1>4, <3>1, StaysSettled
  <2>2. CASE k = (n + 1) - Base
    <3>1. k = at /\ Base + k = n + 1 BY <1>1, <1>3, <1>4, <2>2
    <3>2. QED BY <1>1, <1>4, <1>5, <3>1 DEF AnsweredIn, Result
  <2>3. QED BY <1>1, <1>4, <2>1, <2>2
<1>7. ASSUME NEW i \in DOMAIN messages', i # Base PROVE Settled(i)'
  <2>1. CASE i \in DOMAIN messages
    <3>1. Settled(i) BY <1>7, <2>1 DEF InPlace
    <3>2. QED BY <1>1, <1>2, <2>1, <3>1, StaysSettled
  <2>2. CASE i = n + 1
    <3>1. messages'[i].calls = <<>> BY <1>1, <2>2 DEF Result
    <3>2. QED BY <3>1, EmptySeq DEF Settled
  <2>3. QED BY <1>1, <2>1, <2>2
<1>8. QED BY <1>1, <1>2, <1>4, <1>5, <1>6, <1>7 DEF InPlace

(* A message without calls is settled from the start.                      *)
LEMMA SaysInPlace ==
  ASSUME SafeInv, InPlace, NEW message \in Message, phase \notin Working,
         messages' = Append(messages, message), stopped' = stopped,
         \/ message.calls = <<>> /\ phase' \notin Working
         \/ /\ phase' = "call" /\ message.calls = calls' /\ at' = 1
            /\ message.turn = turn'
  PROVE  InPlace'
<1> DEFINE n == Len(messages)
<1>1. /\ messages \in Seq(Message) /\ n \in Nat
      /\ messages' \in Seq(Message) /\ Len(messages') = n + 1
      /\ DOMAIN messages' = 1..(n + 1) /\ DOMAIN messages = 1..n
      /\ \A i \in DOMAIN messages : messages'[i] = messages[i]
      /\ messages'[n + 1] = message
  BY Extended, LenProperties DEF SafeInv, TypeOK
<1>2. ASSUME NEW i \in DOMAIN messages PROVE Settled(i)'
  <2>1. Settled(i) BY DEF InPlace
  <2>2. QED BY <1>1, <2>1, StaysSettled
<1>3. CASE message.calls = <<>> /\ phase' \notin Working
  <2>1. messages'[n + 1].calls = <<>> BY <1>1, <1>3
  <2>2. ASSUME NEW i \in DOMAIN messages' PROVE Settled(i)'
    <3>1. CASE i \in DOMAIN messages BY <1>2, <3>1
    <3>2. CASE i = n + 1
      <4>1. messages'[i].calls = <<>> BY <2>1, <3>2
      <4>2. QED BY <4>1, EmptySeq DEF Settled
    <3>3. QED BY <1>1, <3>1, <3>2
  <2>3. QED BY <1>3, <2>2 DEF InPlace
<1>4. CASE phase' = "call" /\ message.calls = calls' /\ at' = 1 /\ message.turn = turn'
  <2>1. Base' = n + 1 BY <1>1, <1>4 DEF Base
  <2>2. \A k \in 1..(Len(messages') - Base') : AnsweredIn(messages', Base', k)
    BY <1>1, <2>1
  <2>3. \A i \in DOMAIN messages' : i # Base' => Settled(i)' BY <1>1, <1>2, <2>1
  <2>4. phase' \in Working BY <1>4 DEF Working
  <2>5. QED BY <1>1, <1>4, <2>1, <2>2, <2>3, <2>4 DEF InPlace
<1>5. QED BY <1>3, <1>4

(* A step that leaves the conversation and the calls where they are leaves *)
(* the results in place.                                                   *)
LEMMA SameInPlace ==
  ASSUME SafeInv, InPlace, UNCHANGED <<messages, stopped, turn>>,
         \/ phase \notin Working /\ phase' \notin Working
         \/ /\ phase \in Working /\ phase' \in Working
            /\ UNCHANGED <<calls, at>> /\ (phase = "result" <=> phase' = "result")
  PROVE  InPlace'
<1>1. \A i \in DOMAIN messages : Settled(i) => Settled(i)' BY DEF Settled
<1>2. CASE phase \notin Working /\ phase' \notin Working
  BY <1>1, <1>2 DEF InPlace
<1>3. CASE /\ phase \in Working /\ phase' \in Working
           /\ UNCHANGED <<calls, at>> /\ (phase = "result" <=> phase' = "result")
  <2>1. Base' = Base BY <1>3 DEF Base
  <2>2. QED BY <1>1, <1>3, <2>1 DEF InPlace
<1>4. QED BY <1>2, <1>3

(* When a result was told, the next call is worked, or all have theirs.    *)
LEMMA TellInPlace == SafeInv /\ InPlace /\ Tell => InPlace'
<1> SUFFICES ASSUME SafeInv, InPlace, Tell PROVE InPlace' OBVIOUS
<1> DEFINE n == Len(messages)
<1>1. /\ messages \in Seq(Message) /\ n \in Nat /\ at \in Nat /\ phase = "result"
      /\ DOMAIN calls = 1..Len(calls) /\ Len(calls) \in Nat
      /\ UNCHANGED <<messages, stopped, turn>>
  BY LenProperties DEF SafeInv, TypeOK, Tell
<1>2. \A i \in DOMAIN messages : Settled(i) => Settled(i)' BY <1>1 DEF Settled
<1>3. /\ Base \in DOMAIN messages /\ Base = n - at
      /\ messages[Base].calls = calls /\ messages[Base].turn = turn
      /\ \A k \in 1..(n - Base) : AnsweredIn(messages, Base, k)
      /\ \A i \in DOMAIN messages : i # Base => Settled(i)
  BY <1>1 DEF InPlace, Base, Working
<1>4. CASE phase' = "call" /\ at' = at + 1 /\ calls' = calls
  <2>1. Base' = Base BY <1>1, <1>3, <1>4 DEF Base
  <2>2. QED BY <1>1, <1>2, <1>3, <1>4, <2>1 DEF InPlace, Working
<1>5. CASE at = Len(calls) /\ phase' \in {"done", "permit"}
  <2>1. 1..(n - Base) = DOMAIN calls BY <1>1, <1>3, <1>5, LenProperties
  <2>2. Settled(Base) BY <1>3, <2>1 DEF Settled
  <2>3. QED BY <1>1, <1>2, <1>3, <1>5, <2>2 DEF InPlace, Working
<1>6. QED BY <1>4, <1>5 DEF Tell

(* Every call keeps its place, as long as nobody exchanges the             *)
(* conversation under a turn.                                              *)
LEMMA NextInPlace == ~Overlaps /\ SafeInv /\ InPlace /\ [Next]_vars => InPlace'
<1> SUFFICES ASSUME ~Overlaps, SafeInv, InPlace, [Next]_vars PROVE InPlace' OBVIOUS
<1> USE DEF asking, working
<1>1. CASE Ask
  <2>1. Question \in Message
    BY <1>1, BoundsAssumption, EmptySeq
       DEF Ask, SafeInv, TypeOK, Question, Message, Holdings, Classes
  <2>2. QED BY <1>1, <2>1, SaysInPlace DEF Ask, Question, Working
<1>2. CASE Answer
  <2>1. PICK m \in 0..MaxCalls : \E called \in [1..m -> ToolCalls] :
          /\ messages' = Append(messages, Answered(called))
          /\ calls' = called /\ at' = 1
          /\ phase' = IF called = <<>> THEN "done" ELSE "call"
    BY <1>2 DEF Answer
  <2>2. PICK called \in [1..m -> ToolCalls] :
          /\ messages' = Append(messages, Answered(called))
          /\ calls' = called /\ at' = 1
          /\ phase' = IF called = <<>> THEN "done" ELSE "call"
    BY <2>1
  <2>3. called \in Seq(ToolCalls) BY BoundsAssumption
  <2>4. Answered(called) \in Message
    BY <2>3, BoundsAssumption DEF SafeInv, TypeOK, Answered, Message, Holdings, Classes
  <2>5. Answered(called).calls = called /\ Answered(called).turn = turn BY DEF Answered
  <2>6. stopped' = stopped /\ turn' = turn /\ phase \notin Working
    BY <1>2 DEF Answer, Working
  <2>7. CASE called = <<>> BY <2>2, <2>4, <2>5, <2>6, <2>7, SaysInPlace DEF Working
  <2>8. CASE called # <<>> BY <2>2, <2>4, <2>5, <2>6, <2>8, SaysInPlace
  <2>9. QED BY <2>7, <2>8
<1>3. CASE Overflow
  <2>1. PICK o \in RoomIn(messages) :
          /\ DOMAIN messages' = DOMAIN messages
          /\ \A i \in DOMAIN messages :
               messages'[i] = IF i = o THEN [messages[i] EXCEPT !.holds = "dropped"]
                              ELSE messages[i]
    <3>1. messages \in Seq(Message) /\ RoomIn(messages) # {}
      BY <1>3 DEF Overflow, SafeInv, TypeOK
    <3>2. messages' = Compacted(messages) BY <1>3 DEF Overflow
    <3>3. PICK o \in RoomIn(messages) :
            /\ DOMAIN Compacted(messages) = DOMAIN messages
            /\ \A i \in DOMAIN messages :
                 Compacted(messages)[i] = IF i = o
                                          THEN [messages[i] EXCEPT !.holds = "dropped"]
                                          ELSE messages[i]
      BY <3>1, Emptied
    <3>4. QED BY <3>2, <3>3, Zenon
  <2>2. \A i \in DOMAIN messages : messages[i] \in Message
    BY ElementOfSeq, LenProperties DEF SafeInv, TypeOK
  <2>3. \A i \in DOMAIN messages :
          /\ messages'[i].role = messages[i].role /\ messages'[i].tool = messages[i].tool
          /\ messages'[i].calls = messages[i].calls /\ messages'[i].turn = messages[i].turn
    BY <2>1, <2>2 DEF Message
  <2>4. ASSUME NEW i \in DOMAIN messages PROVE Settled(i)'
    <3>1. Settled(i) /\ stopped' = stopped
      BY <1>3 DEF InPlace, Overflow, Working
    <3>2. \A k : AnsweredIn(messages, i, k) => AnsweredIn(messages', i, k)
      BY <2>1, <2>3 DEF AnsweredIn
    <3>3. QED BY <2>3, <3>1, <3>2 DEF Settled
  <2>5. QED BY <1>3, <2>1, <2>4 DEF InPlace, Overflow, Working
<1>4. CASE Refuse \/ AskGivenUp \/ ChatFails \/ Done \/ CallStopped \/ TellStopped
  BY <1>4, OverInPlace
     DEF Refuse, AskGivenUp, ChatFails, Done, CallStopped, TellStopped, Working
<1>5. CASE Read \/ GuardRefuses \/ Explain \/ Deny \/ GrantGivenUp \/ Query \/ QueryFails
  <2>1. PICK holds \in {"nothing", "schema", "rows"} :
          /\ Gives(holds) /\ phase \in Working \ {"result"}
          /\ holds = "schema" => calls[at].tool # "run_select"
          /\ holds = "rows" => calls[at].tool = "run_select"
    BY <1>5 DEF Read, GuardRefuses, Explain, Deny, GrantGivenUp, Query, QueryFails,
                StatementTools, Catalogue, Working, SafeInv, Judged
  <2>2. Result(holds) \in Message BY <2>1, Given
  <2>3. QED BY <2>1, <2>2, GivesInPlace
<1>6. CASE Permit \/ Allow \/ Chat \/ Call \/ RunSelect \/ Grant \/ Stop
  BY <1>6, SameInPlace DEF Permit, Allow, Chat, Call, RunSelect, Grant, Stop, Working
<1>7. CASE Tell BY <1>7, TellInPlace
<1>8. CASE Resume
  <2>1. \A i \in DOMAIN messages' :
          \/ messages'[i].turn = StoppedBefore
          \/ \A k \in DOMAIN messages'[i].calls : AnsweredIn(messages', i, k)
    BY <1>8, SavedAssumption DEF Resume
  <2>2. phase' \notin Working BY <1>8 DEF Resume, Working
  <2>3. QED BY <2>1, <2>2 DEF InPlace, Settled
<1>9. CASE UNCHANGED vars BY <1>9, SameInPlace DEF vars
<1>10. QED BY <1>1, <1>2, <1>3, <1>4, <1>5, <1>6, <1>7, <1>8, <1>9 DEF Next, Step, Person

(* Every call has its result in its place, unless its turn was stopped, as *)
(* long as no kept conversation is opened under a turn.                    *)
THEOREM EveryCallIsAnswered == ~Overlaps => (Spec => []CallsAreAnswered)
<1> SUFFICES ASSUME ~Overlaps PROVE Spec => []CallsAreAnswered OBVIOUS
<1>1. Init => SafeInv /\ InPlace BY InitIInv DEF IInv
<1>2. SafeInv /\ InPlace /\ [Next]_vars => (SafeInv /\ InPlace)'
  BY NextSafe, NextInPlace
<1>3. SafeInv /\ InPlace => CallsAreAnswered
  <2> SUFFICES ASSUME SafeInv, InPlace, NEW i \in DOMAIN messages,
                      NEW k \in DOMAIN messages[i].calls,
                      ~AnsweredIn(messages, i, k),
                      messages[i].turn \notin stopped \cup {StoppedBefore}
               PROVE  i + k > Len(messages) /\ phase \in Working
    BY DEF CallsAreAnswered
  <2>1. phase \in Working /\ i = Base BY DEF InPlace, Settled
  <2>2. messages[i].calls \in Seq(ToolCalls)
    <3>1. messages \in Seq(Message) BY DEF SafeInv, TypeOK
    <3>2. i \in 1..Len(messages) BY <3>1, LenProperties
    <3>3. messages[i] \in Message BY <3>1, <3>2, ElementOfSeq
    <3>4. QED BY <3>3 DEF Message
  <2>3. k \in Nat \ {0} /\ i \in Nat /\ Len(messages) \in Nat
    BY <2>2, LenProperties DEF SafeInv, TypeOK
  <2>4. k \notin 1..(Len(messages) - i) BY <2>1 DEF InPlace
  <2>5. QED BY <2>1, <2>3, <2>4
<1>4. QED BY <1>1, <1>2, <1>3, PTL DEF Spec
============================================================================
