--------------------------- MODULE WorkbenchProofs ---------------------------
(***************************************************************************)
(* What Workbench keeps true for every number of tabs, connections and     *)
(* statements.  An action is either a run, an answer, or a move (Moves):   *)
(* one that sends nothing, hears nothing and leaves every tab it keeps     *)
(* with the run it has.  That the first keep the invariant is shown one by *)
(* one; for a move it is shown once, and then that each action is one.     *)
(* From the invariant it follows that a step leaves a tab that holds       *)
(* anything on its connection, takes a tab only when asked, and is a step  *)
(* of StatementRuns or none.                                               *)
(***************************************************************************)
EXTENDS Workbench, FiniteSetTheorems, TLAPS

\* Every history line is about a statement that was sent.
HistoryIsSent == \A entry \in history : entry.token \in 1..Len(sent)

\* A tab whose statement is out is running it, where it was sent.  It is so as long
\* as no background job falls over.
RunsWhereItSits ==
  ~Panics => \A t \in DOMAIN sheets :
               sheets[t].token # 0 /\ Out(sheets[t].token) =>
                 sheets[t].inflight /\ sheets[t].on = sent[sheets[t].token].on

FiledIfCalm == ~Panics => FiledWhereItRan

CancelledIfCalm == ~Panics => AbandonedIsCancelled

IInv ==
  /\ TypeOK
  /\ TabsStandOnOpenConnections
  /\ AnswersBelongToTheirTab
  /\ RunningMeansOut
  /\ HistoryIsSent
  /\ RunsWhereItSits
  /\ FiledIfCalm
  /\ CancelledIfCalm

-----------------------------------------------------------------------------
(* Functions and tabs.                                                     *)

(* A function restricted is a function on the smaller set.                 *)
LEMMA RestrictIsFunction ==
  ASSUME NEW S, NEW T, NEW f \in [S -> T], NEW R \in SUBSET S
  PROVE  /\ Restrict(f, R) \in [R -> T]
         /\ DOMAIN Restrict(f, R) = R
         /\ \A z \in R : Restrict(f, R)[z] = f[z]
BY DEF Restrict

(* A new tab is a tab, and waits for nothing.                              *)
LEMMA NewSheetIsSheet ==
  ASSUME NEW on \in Nat, NEW text \in Texts
  PROVE  /\ NewSheet(on, text) \in Sheet
         /\ NewSheet(on, text).on = on
         /\ NewSheet(on, text).token = 0 /\ NewSheet(on, text).stop = 0
         /\ NewSheet(on, text).shown = 0 /\ NewSheet(on, text).inflight = FALSE
BY DEF NewSheet, Sheet

(* A tab that was told its run ended is a tab, on its connection.          *)
LEMMA FinishedIsSheet ==
  ASSUME NEW tab \in Sheet
  PROVE  /\ Finished(tab) \in Sheet
         /\ Finished(tab).on = tab.on /\ Finished(tab).text = tab.text
         /\ Finished(tab).token = tab.token /\ Finished(tab).shown = tab.shown
         /\ Finished(tab).stop = 0 /\ Finished(tab).inflight = FALSE
BY DEF Finished, Sheet
-----------------------------------------------------------------------------
(* Moves.                                                                  *)

\* A tab of the next state that is a tab of this one, with its run or without.
Keeps(t, tab) ==
  /\ t \in DOMAIN sheets
  /\ tab.token = sheets[t].token /\ tab.shown = sheets[t].shown
  /\ tab.stop \in {0, sheets[t].stop}
  /\ tab.inflight => sheets[t].inflight
  /\ sheets[t].inflight => tab.on = sheets[t].on
  /\ ~Panics => tab.stop = sheets[t].stop
  /\ ~Panics /\ sheets[t].inflight => tab.inflight

\* A tab that never ran anything.
Fresh(tab) == tab.token = 0 /\ tab.shown = 0 /\ tab.stop = 0 /\ ~tab.inflight

\* What a step may make of the tab called t.
Carries(t, tab) == IF t \in DOMAIN sheets THEN Keeps(t, tab) ELSE Fresh(tab)

\* Tabs other than these go only once their statements are cancelled.
Leaves(tabs) ==
  /\ cancelled \subseteq cancelled'
  /\ \A t \in DOMAIN sheets \ tabs : sheets[t].stop \in cancelled' \union {0}

\* A step that sends nothing and hears nothing.
Moves ==
  /\ sent' = sent /\ history' = history
  /\ \A token : [kind |-> "query", token |-> token] \in commands' <=>
                [kind |-> "query", token |-> token] \in commands
  /\ Leaves(DOMAIN sheets')
  /\ \A t \in DOMAIN sheets' : Carries(t, sheets'[t])

\* The strip after a step, on the connections "held".
Arranged(held) ==
  /\ sheets' \in [DOMAIN sheets' -> Sheet] /\ DOMAIN sheets' \subseteq 1..opened'
  /\ opened' \in Nat /\ Leaves(DOMAIN sheets')
  /\ sheet' \in DOMAIN sheets' /\ link' = sheets'[sheet'].on
  /\ \A t \in DOMAIN sheets' :
       sheets'[t].on \in held /\ Carries(t, sheets'[t])

(* A move keeps every answer with its tab.                                 *)
LEMMA MoveKeeps ==
  ASSUME IInv, Moves
  PROVE  /\ AnswersBelongToTheirTab' /\ RunningMeansOut' /\ HistoryIsSent'
         /\ RunsWhereItSits' /\ FiledIfCalm' /\ CancelledIfCalm'
<1>1. AnswersBelongToTheirTab'
  <2> SUFFICES ASSUME NEW t \in DOMAIN sheets',
                      NEW token \in {sheets'[t].token, sheets'[t].shown,
                                     sheets'[t].stop} \ {0}
               PROVE  token \in 1..Len(sent) /\ sent[token].tab = t
    BY DEF AnswersBelongToTheirTab, Moves
  <2>1. Keeps(t, sheets'[t]) BY DEF Moves, Carries, Fresh
  <2>2. QED BY <2>1 DEF Keeps, IInv, AnswersBelongToTheirTab
<1>2. RunningMeansOut'
  <2> SUFFICES ASSUME NEW t \in DOMAIN sheets', sheets'[t].inflight
               PROVE  [kind |-> "query", token |-> sheets'[t].token] \in commands'
    BY DEF RunningMeansOut, Out
  <2>1. Keeps(t, sheets'[t]) BY DEF Moves, Carries, Fresh
  <2>2. QED BY <2>1 DEF Keeps, Moves, IInv, RunningMeansOut, Out
<1>3. HistoryIsSent' BY DEF HistoryIsSent, Moves, IInv
<1>4. RunsWhereItSits'
  <2> SUFFICES ASSUME ~Panics, NEW t \in DOMAIN sheets', sheets'[t].token # 0,
                      [kind |-> "query", token |-> sheets'[t].token] \in commands'
               PROVE  sheets'[t].inflight /\ sheets'[t].on = sent'[sheets'[t].token].on
    BY DEF RunsWhereItSits, Out
  <2>1. Keeps(t, sheets'[t]) BY DEF Moves, Carries, Fresh
  <2>2. sheets[t].inflight /\ sheets[t].on = sent[sheets[t].token].on
    BY <2>1 DEF Keeps, Moves, IInv, RunsWhereItSits, Out
  <2>3. QED BY <2>1, <2>2 DEF Keeps, Moves
<1>5. FiledIfCalm' BY DEF FiledIfCalm, FiledWhereItRan, Moves, IInv
<1>6. CancelledIfCalm'
  <2> SUFFICES ASSUME ~Panics, NEW token \in 1..Len(sent),
                      [kind |-> "query", token |-> token] \in commands'
               PROVE  \/ token \in cancelled'
                      \/ \E t \in DOMAIN sheets' : sheets'[t].stop = token
                      \/ \E later \in token + 1..Len(sent) : sent[later].tab = sent[token].tab
    BY DEF CancelledIfCalm, AbandonedIsCancelled, Out, Moves
  <2>1. \/ token \in cancelled
        \/ \E t \in DOMAIN sheets : sheets[t].stop = token
        \/ \E later \in token + 1..Len(sent) : sent[later].tab = sent[token].tab
    BY DEF IInv, CancelledIfCalm, AbandonedIsCancelled, Out, Moves
  <2>2. ASSUME NEW t \in DOMAIN sheets, sheets[t].stop = token
        PROVE  token \in cancelled' \/ \E u \in DOMAIN sheets' : sheets'[u].stop = token
    <3>1. token # 0 BY DEF IInv, TypeOK
    <3>2. QED BY <2>2, <3>1 DEF Moves, Leaves, Carries, Keeps
  <2>3. QED BY <2>1, <2>2 DEF Moves, Leaves
<1>7. QED BY <1>1, <1>2, <1>3, <1>4, <1>5, <1>6

(* The strip when a tab comes in front.                                    *)
LEMMA ThroughArranges ==
  ASSUME NEW tabs, NEW tab, NEW held, NEW behind,
         tabs \in [DOMAIN tabs -> Sheet], DOMAIN tabs \subseteq 1..opened',
         opened' \in Nat, tab \in DOMAIN tabs, Leaves(DOMAIN tabs),
         \A t \in DOMAIN tabs :
           tabs[t].on \in held /\ Carries(t, tabs[t]),
         Through(tabs, tab, held, behind)
  PROVE  Arranged(held)
BY DEF Through, Arranged

(* The tabs stay what they are when the strip is left alone.               *)
LEMMA TabsKeepThemselves ==
  \A t \in DOMAIN sheets : Keeps(t, sheets[t]) /\ Carries(t, sheets[t])
BY DEF Keeps, Carries

(* The strip when a new tab is put in front.                               *)
LEMMA OpenSheetArranges ==
  ASSUME TypeOK, NEW on \in Nat, NEW text \in Texts, NEW held, NEW behind, on \in held,
         \A t \in DOMAIN sheets : sheets[t].on \in held,
         cancelled \subseteq cancelled', OpenSheet(on, text, held, behind)
  PROVE  Arranged(held)
<1> DEFINE tabs == With(sheets, opened', NewSheet(on, text))
<1>1. opened' = opened + 1 /\ opened \in Nat /\ opened' \notin DOMAIN sheets
  BY DEF OpenSheet, TypeOK
<1>2. /\ tabs \in [DOMAIN sheets \union {opened'} -> Sheet]
      /\ DOMAIN tabs = DOMAIN sheets \union {opened'}
      /\ tabs[opened'] = NewSheet(on, text)
      /\ \A t \in DOMAIN sheets : tabs[t] = sheets[t]
  <2>1. sheets \in [DOMAIN sheets -> Sheet] BY DEF TypeOK
  <2>2. NewSheet(on, text) \in Sheet BY NewSheetIsSheet
  <2>3. QED BY <1>1, <2>1, <2>2 DEF With
<1> HIDE DEF tabs
<1>3. ASSUME NEW t \in DOMAIN tabs
      PROVE  tabs[t].on \in held /\ Carries(t, tabs[t])
  <2>1. CASE t = opened'
    <3>1. tabs[t] = NewSheet(on, text) BY <1>2, <2>1
    <3>2. Fresh(NewSheet(on, text)) /\ NewSheet(on, text).on = on
      BY NewSheetIsSheet DEF Fresh
    <3>3. QED BY <1>1, <2>1, <3>1, <3>2 DEF Carries
  <2>2. CASE t \in DOMAIN sheets BY <1>2, <2>2, TabsKeepThemselves DEF Carries
  <2>3. QED BY <1>2, <2>1, <2>2
<1>4. DOMAIN tabs \subseteq 1..opened'
  <2>1. DOMAIN sheets \subseteq 1..opened BY DEF TypeOK
  <2>2. 1..opened \subseteq 1..opened' /\ opened' \in 1..opened' BY <1>1
  <2>3. QED BY <1>2, <2>1, <2>2
<1>5. Through(tabs, opened', held, behind) BY DEF OpenSheet, tabs
<1>6. opened' \in Nat /\ opened' \in DOMAIN tabs /\ tabs \in [DOMAIN tabs -> Sheet]
  BY <1>1, <1>2
<1>7. Leaves(DOMAIN tabs) BY <1>2 DEF Leaves
<1>8. QED BY <1>3, <1>4, <1>5, <1>6, <1>7, ThroughArranges

(* The strip when a tab is aimed at a connection.                          *)
LEMMA AimArranges ==
  ASSUME TypeOK, NEW on \in Nat, NEW held, NEW behind, on \in held,
         \A t \in DOMAIN sheets : sheets[t].on \in held,
         cancelled \subseteq cancelled', Aim(on, held, behind)
  PROVE  Arranged(held)
<1>1. CASE Holds(sheets[sheet])
  <2>1. OpenSheet(on, Blank, held, behind) BY <1>1 DEF Aim
  <2>2. Blank \in Texts BY DEF Texts
  <2>3. QED BY <2>1, <2>2, OpenSheetArranges
<1>2. CASE ~Holds(sheets[sheet])
  <2> DEFINE tabs == [sheets EXCEPT ![sheet].on = on]
  <2>1. Through(tabs, sheet, held, behind) /\ opened' = opened
    BY <1>2 DEF Aim
  <2>2. /\ tabs \in [DOMAIN tabs -> Sheet] /\ DOMAIN tabs = DOMAIN sheets
        /\ tabs[sheet].on = on
    BY DEF TypeOK, Sheet
  <2>3. ASSUME NEW t \in DOMAIN tabs
        PROVE  tabs[t].on \in held /\ Keeps(t, tabs[t])
    <3>1. CASE t = sheet
      <4>1. sheets[sheet] \in Sheet BY DEF TypeOK
      <4>2. tabs[t] = [sheets[sheet] EXCEPT !.on = on] BY <3>1 DEF TypeOK
      <4>3. ~sheets[t].inflight BY <1>2, <3>1 DEF Holds
      <4>4. QED BY <3>1, <4>1, <4>2, <4>3 DEF Keeps, Sheet, TypeOK
    <3>2. CASE t # sheet BY <3>2, <2>2, TabsKeepThemselves
    <3>3. QED BY <3>1, <3>2
  <2> HIDE DEF tabs
  <2>4. sheet \in DOMAIN tabs /\ opened' \in Nat /\ DOMAIN tabs \subseteq 1..opened'
    BY <2>1, <2>2 DEF TypeOK
  <2>5. Leaves(DOMAIN tabs) BY <2>2 DEF Leaves
  <2>6. \A t \in DOMAIN tabs : Carries(t, tabs[t]) BY <2>2, <2>3 DEF Carries
  <2>7. QED BY <2>1, <2>2, <2>3, <2>4, <2>5, <2>6, ThroughArranges
<1>3. QED BY <1>1, <1>2

(* The strip when nothing of it changes.                                   *)
LEMMA StillArranged ==
  ASSUME IInv, UNCHANGED <<links, link, sheets, sheet, opened>>,
         cancelled \subseteq cancelled'
  PROVE  Arranged(DOMAIN links')
<1> USE DEF IInv, TypeOK, TabsStandOnOpenConnections
<1>1. \A t \in DOMAIN sheets' : Keeps(t, sheets'[t]) BY TabsKeepThemselves
<1>2. QED BY <1>1 DEF Arranged, Leaves, Carries

\* What is left out once a message that is not an answer has been handled.
Spares(rest) ==
  /\ rest \subseteq commands
  /\ \A token : [kind |-> "query", token |-> token] \in commands =>
                [kind |-> "query", token |-> token] \in rest

\* Commands that are what was out, with nothing new but what a person said.
SameQueries ==
  \A token : [kind |-> "query", token |-> token] \in commands' <=>
            [kind |-> "query", token |-> token] \in commands

(* What spares every answer has the same answers on their way.             *)
LEMMA SparesQueries == ASSUME NEW rest, Spares(rest), commands' = rest PROVE SameQueries
BY DEF Spares, SameQueries

(* A move that leaves the strip well arranged keeps the invariant.         *)
LEMMA MoveSafe ==
  ASSUME IInv, Arranged(DOMAIN links'), SameQueries,
         links' \in [DOMAIN links' -> Profiles], DOMAIN links' \subseteq 1..minted',
         minted' \in Nat, modal' \in Question \union {NoModal}, commands' \subseteq Command,
         sent' = sent, history' = history, cancelled' \subseteq Nat
  PROVE  IInv'
<1>1. Moves BY DEF Moves, SameQueries, Arranged
<1>2. /\ AnswersBelongToTheirTab' /\ RunningMeansOut' /\ HistoryIsSent'
      /\ RunsWhereItSits' /\ FiledIfCalm' /\ CancelledIfCalm'
  BY <1>1, MoveKeeps
<1>3. link' \in DOMAIN links' /\ link' \in Nat
  <2>1. link' = sheets'[sheet'].on /\ sheets'[sheet'] \in Sheet BY DEF Arranged
  <2>2. QED BY <2>1 DEF Arranged, Sheet
<1>4. TabsStandOnOpenConnections'
  BY <1>3 DEF Arranged, TabsStandOnOpenConnections
<1>5. TypeOK' BY <1>3 DEF Arranged, TypeOK, IInv
<1>6. QED BY <1>2, <1>4, <1>5 DEF IInv

(* Sending a statement from a tab that is there keeps the invariant.       *)
LEMMA RunSafe ==
  ASSUME IInv, NEW tabs, NEW tab, NEW on \in Nat, NEW statement \in Texts,
         NEW agreed \in Nat, NEW rest, Spares(rest),
         tabs \in [DOMAIN tabs -> Sheet], DOMAIN tabs \subseteq 1..opened',
         opened' \in Nat, tab \in DOMAIN tabs, sheet' \in DOMAIN tabs,
         DOMAIN sheets \subseteq DOMAIN tabs,
         link = tabs[sheet'].on, on = tabs[tab].on, modal' \in Question \union {NoModal},
         \A t \in DOMAIN tabs :
           tabs[t].on \in DOMAIN links /\ Carries(t, tabs[t]),
         Run(tabs, tab, on, statement, agreed, rest),
         UNCHANGED <<links, link, minted, cancelled, history>>
  PROVE  IInv'
<1> DEFINE token == Len(sent) + 1
           said == [tab |-> tab, on |-> on, statement |-> statement, agreed |-> agreed]
           ran == [tabs[tab] EXCEPT !.token = token, !.stop = token, !.inflight = TRUE]
<1>1. /\ sent \in Seq([tab : Nat, on : Nat, statement : Texts, agreed : Nat])
      /\ Len(sent) \in Nat
  BY DEF IInv, TypeOK
<1>2. tab \in Nat /\ said \in [tab : Nat, on : Nat, statement : Texts, agreed : Nat]
  OBVIOUS
<1>3. /\ sent' \in Seq([tab : Nat, on : Nat, statement : Texts, agreed : Nat])
      /\ Len(sent') = token /\ sent'[token] = said
      /\ \A i \in 1..Len(sent) : sent'[i] = sent[i]
  <2>1. sent' = Append(sent, said) BY DEF Run
  <2> HIDE DEF said
  <2>2. QED BY <1>1, <1>2, <2>1
<1>4. /\ ran \in Sheet /\ ran.token = token /\ ran.stop = token
      /\ ran.on = tabs[tab].on /\ ran.shown = tabs[tab].shown
  <2>1. token \in Nat BY <1>1
  <2>2. tabs[tab] \in Sheet OBVIOUS
  <2> HIDE DEF token
  <2>3. QED BY <2>1, <2>2 DEF Sheet
<1>5. /\ sheets' \in [DOMAIN tabs -> Sheet] /\ DOMAIN sheets' = DOMAIN tabs
      /\ sheets'[tab] = ran /\ \A t \in DOMAIN tabs \ {tab} : sheets'[t] = tabs[t]
  <2>1. sheets' = [tabs EXCEPT ![tab] = ran] BY DEF Run
  <2> HIDE DEF ran
  <2>2. QED BY <1>4, <2>1
<1>6. commands' = rest \union {[kind |-> "query", token |-> token]} BY DEF Run
<1> HIDE DEF token, said, ran
<1>7. AnswersBelongToTheirTab'
  <2> SUFFICES ASSUME NEW t \in DOMAIN sheets',
                      NEW any \in {sheets'[t].token, sheets'[t].shown,
                                   sheets'[t].stop} \ {0}
               PROVE  any \in 1..Len(sent') /\ sent'[any].tab = t
    BY DEF AnswersBelongToTheirTab
  <2>1. CASE any = token /\ t = tab
    BY <1>1, <1>3, <2>1 DEF token, said
  <2>2. CASE ~(any = token /\ t = tab)
    <3>1. any \in {tabs[t].token, tabs[t].shown, tabs[t].stop}
      BY <1>4, <1>5, <2>2
    <3>2. Keeps(t, tabs[t])
      <4>1. any # 0 /\ t \in DOMAIN tabs BY <1>5
      <4>2. ~Fresh(tabs[t]) BY <3>1, <4>1 DEF Fresh
      <4>3. QED BY <4>1, <4>2 DEF Carries
    <3>3. t \in DOMAIN sheets
          /\ any \in {sheets[t].token, sheets[t].shown, sheets[t].stop} \ {0}
      BY <3>1, <3>2 DEF Keeps
    <3>4. any \in 1..Len(sent) /\ sent[any].tab = t
      BY <3>3 DEF IInv, AnswersBelongToTheirTab
    <3>5. any \in 1..Len(sent') BY <1>1, <1>3, <3>4 DEF token
    <3>6. sent'[any] = sent[any] BY <1>3, <3>4
    <3>7. QED BY <3>4, <3>5, <3>6
  <2>3. QED BY <2>1, <2>2
<1>8. RunningMeansOut'
  <2> SUFFICES ASSUME NEW t \in DOMAIN sheets', sheets'[t].inflight
               PROVE  [kind |-> "query", token |-> sheets'[t].token] \in commands'
    BY DEF RunningMeansOut, Out
  <2>1. CASE t = tab BY <1>4, <1>5, <1>6, <2>1
  <2>2. CASE t # tab
    <3>1. sheets'[t] = tabs[t] /\ Keeps(t, tabs[t]) BY <1>5, <2>2 DEF Carries, Fresh
    <3>2. [kind |-> "query", token |-> sheets'[t].token] \in commands
      BY <3>1 DEF Keeps, IInv, RunningMeansOut, Out
    <3>3. QED BY <1>6, <3>2 DEF Spares
  <2>3. QED BY <2>1, <2>2
<1>9. HistoryIsSent' BY <1>1, <1>3 DEF IInv, HistoryIsSent, token
<1>10. \A t \in DOMAIN sheets' : sheets'[t].on = tabs[t].on BY <1>4, <1>5
<1>11. TabsStandOnOpenConnections'
  BY <1>5, <1>10 DEF IInv, TabsStandOnOpenConnections
<1>12. TypeOK'
  <2>1. [kind |-> "query", token |-> token] \in Command BY <1>1 DEF Command, token
  <2>2. commands' \subseteq Command BY <1>6, <2>1 DEF Spares, IInv, TypeOK
  <2>3. QED BY <1>3, <1>5, <2>2 DEF IInv, TypeOK
<1>13. RunsWhereItSits'
  <2> SUFFICES ASSUME ~Panics, NEW t \in DOMAIN sheets', sheets'[t].token # 0,
                      [kind |-> "query", token |-> sheets'[t].token] \in commands'
               PROVE  sheets'[t].inflight /\ sheets'[t].on = sent'[sheets'[t].token].on
    BY DEF RunsWhereItSits, Out
  <2>1. CASE t = tab
    <3>1. ran.inflight BY <1>1 DEF ran, Sheet
    <3>2. QED BY <1>3, <1>4, <1>5, <2>1, <3>1 DEF said
  <2>2. CASE t # tab
    <3>1. sheets'[t] = tabs[t] /\ Keeps(t, tabs[t]) BY <1>5, <2>2 DEF Carries, Fresh
    <3>2. sheets[t].token # 0 /\ sheets[t].token = sheets'[t].token /\ t \in DOMAIN sheets
      BY <3>1 DEF Keeps
    <3>3. sheets[t].token \in 1..Len(sent)
      BY <3>2 DEF IInv, AnswersBelongToTheirTab
    <3>4. sheets[t].token # token BY <1>1, <3>3 DEF token
    <3>5. [kind |-> "query", token |-> sheets[t].token] \in commands
      BY <1>6, <3>2, <3>4 DEF Spares
    <3>6. sheets[t].inflight /\ sheets[t].on = sent[sheets[t].token].on
      BY <3>2, <3>5 DEF IInv, RunsWhereItSits, Out
    <3>7. QED BY <1>3, <3>1, <3>2, <3>3, <3>6 DEF Keeps
  <2>3. QED BY <2>1, <2>2
<1>14. FiledIfCalm'
  BY <1>3 DEF IInv, FiledIfCalm, FiledWhereItRan, HistoryIsSent
<1>15. CancelledIfCalm'
  <2> SUFFICES ASSUME ~Panics, NEW any \in 1..Len(sent'),
                      [kind |-> "query", token |-> any] \in commands'
               PROVE  \/ any \in cancelled'
                      \/ \E t \in DOMAIN sheets' : sheets'[t].stop = any
                      \/ \E later \in any + 1..Len(sent') : sent'[later].tab = sent'[any].tab
    BY DEF CancelledIfCalm, AbandonedIsCancelled, Out
  <2>1. CASE any = token BY <1>4, <1>5, <2>1
  <2>2. CASE any # token
    <3>1. any \in 1..Len(sent) BY <1>1, <1>3, <2>2 DEF token
    <3>2. [kind |-> "query", token |-> any] \in commands BY <1>6, <2>2 DEF Spares
    <3>3. \/ any \in cancelled
          \/ \E t \in DOMAIN sheets : sheets[t].stop = any
          \/ \E later \in any + 1..Len(sent) : sent[later].tab = sent[any].tab
      BY <3>1, <3>2 DEF IInv, CancelledIfCalm, AbandonedIsCancelled, Out
    <3>4. ASSUME NEW t \in DOMAIN sheets, sheets[t].stop = any, t # tab
          PROVE  \E u \in DOMAIN sheets' : sheets'[u].stop = any
      <4>1. sheets'[t] = tabs[t] /\ Keeps(t, tabs[t]) BY <1>5, <3>4 DEF Carries
      <4>2. QED BY <1>5, <3>4, <4>1 DEF Keeps
    <3>5. ASSUME sheets[tab].stop = any, tab \in DOMAIN sheets
          PROVE  \E later \in any + 1..Len(sent') : sent'[later].tab = sent'[any].tab
      <4>1. any # 0 BY <1>1, <3>1
      <4>2. sent[any].tab = tab BY <3>5, <4>1 DEF IInv, AnswersBelongToTheirTab
      <4>3. token \in any + 1..Len(sent') BY <1>1, <1>3, <3>1 DEF token
      <4>4. sent'[token].tab = tab /\ sent'[any].tab = tab
        BY <1>3, <3>1, <4>2 DEF said
      <4>5. QED BY <4>3, <4>4
    <3>6. ASSUME NEW later \in any + 1..Len(sent), sent[later].tab = sent[any].tab
          PROVE  \E later2 \in any + 1..Len(sent') : sent'[later2].tab = sent'[any].tab
      <4> DEFINE n == Len(sent)
      <4>1. n \in Nat /\ Len(sent') = n + 1 /\ any \in 1..n /\ later \in any + 1..n
        BY <1>1, <1>3, <3>1, <3>6 DEF token
      <4> HIDE DEF n
      <4>2. later \in any + 1..Len(sent') /\ later \in 1..n BY <4>1
      <4>3. sent'[later].tab = sent'[any].tab BY <1>3, <3>1, <3>6, <4>2 DEF n
      <4>4. QED BY <4>2, <4>3
    <3>7. CASE any \in cancelled BY <3>7
    <3>8. CASE \E t \in DOMAIN sheets : sheets[t].stop = any BY <3>4, <3>5, <3>8
    <3>9. CASE \E later \in any + 1..Len(sent) : sent[later].tab = sent[any].tab
      BY <3>6, <3>9
    <3>10. QED BY <3>3, <3>7, <3>8, <3>9
  <2>3. QED BY <2>1, <2>2
<1>16. QED BY <1>7, <1>8, <1>9, <1>11, <1>12, <1>13, <1>14, <1>15 DEF IInv

(* An answer, wherever it lands, keeps the invariant.                      *)
LEMMA ReturnedSafe ==
  ASSUME IInv, NEW token \in 1..Len(sent), Returned(token)
  PROVE  IInv'
<1> DEFINE query == [kind |-> "query", token |-> token]
<1>1. commands' = commands \ {query} /\ token \in Nat /\ token # 0
  BY DEF Returned, IInv, TypeOK
<1>2. commands' \subseteq Command BY <1>1 DEF IInv, TypeOK
<1>3. UNCHANGED <<links, link, sheet, modal, sent, minted, opened>> BY DEF Returned
<1>4. ASSUME NEW t \in DOMAIN sheets, sheets[t].inflight, sheets[t].token # token
      PROVE  [kind |-> "query", token |-> sheets[t].token] \in commands'
  <2>1. [kind |-> "query", token |-> sheets[t].token] \in commands
    BY <1>4 DEF IInv, RunningMeansOut, Out
  <2>2. [kind |-> "query", token |-> sheets[t].token] # query
    BY <1>4
  <2>3. QED BY <1>1, <2>1, <2>2
<1>5. ASSUME NEW t \in DOMAIN sheets, sheets[t].token = token
      PROVE  sent[token].tab = t
  BY <1>1, <1>5 DEF IInv, AnswersBelongToTheirTab
<1>6. CASE Asker(token) = {}
  <2>1. UNCHANGED <<sheets, cancelled, history>> BY <1>6 DEF Returned
  <2>2. \A t \in DOMAIN sheets : sheets[t].token # token
    BY <1>6 DEF Asker, IInv, TypeOK
  <2>3. RunningMeansOut' BY <1>4, <2>1, <2>2 DEF RunningMeansOut, Out
  <2>4. RunsWhereItSits' BY <1>1, <1>3, <2>1 DEF IInv, RunsWhereItSits, Out
  <2>5. CancelledIfCalm'
    BY <1>1, <1>3, <2>1 DEF IInv, CancelledIfCalm, AbandonedIsCancelled, Out
  <2>6. QED BY <1>2, <1>3, <2>1, <2>3, <2>4, <2>5, ZenonT(60)
    DEF IInv, TypeOK, TabsStandOnOpenConnections, AnswersBelongToTheirTab, HistoryIsSent,
        FiledIfCalm, FiledWhereItRan
<1>7. CASE Asker(token) # {}
  <2>1. PICK t \in Asker(token) :
          /\ cancelled' = cancelled \union Stops({t})
          /\ sheets' = [sheets EXCEPT ![t] = [Finished(@) EXCEPT !.shown = token]]
          /\ history' = history \union {[token |-> token, on |-> Filed(sheets[t].on)]}
    BY <1>7 DEF Returned
  <2> DEFINE heard == [Finished(sheets[t]) EXCEPT !.shown = token]
  <2>2. t \in DOMAIN sheets /\ sheets[t].token = token /\ sheets[t] \in Sheet
    BY DEF Asker, IInv, TypeOK
  <2>3. /\ heard \in Sheet /\ heard.on = sheets[t].on /\ heard.token = token
        /\ heard.stop = 0 /\ heard.shown = token /\ ~heard.inflight
    BY <1>1, <2>2, FinishedIsSheet DEF Sheet
  <2>4. /\ sheets' \in [DOMAIN sheets -> Sheet] /\ DOMAIN sheets' = DOMAIN sheets
        /\ sheets'[t] = heard
        /\ \A other \in DOMAIN sheets \ {t} : sheets'[other] = sheets[other]
    <3>1. sheets' = [sheets EXCEPT ![t] = heard] BY <2>1
    <3>2. sheets \in [DOMAIN sheets -> Sheet] BY DEF IInv, TypeOK
    <3> HIDE DEF heard
    <3>3. QED BY <2>2, <2>3, <3>1, <3>2
  <2> HIDE DEF heard
  <2>5. cancelled' \subseteq Nat
    <3>1. sheets[t].stop \in Nat BY <2>2 DEF Sheet
    <3>2. QED BY <2>1, <3>1 DEF Stops, IInv, TypeOK
  <2>6. Filed(sheets[t].on) \in Nat
    BY <2>2 DEF Filed, IInv, TypeOK, Sheet
  <2>7. history' \subseteq [token : Nat, on : Nat] /\ HistoryIsSent'
    <3> DEFINE on == Filed(sheets[t].on)
    <3> HIDE DEF on
    <3>1. history' = history \union {[token |-> token, on |-> on]} /\ on \in Nat
      BY <2>1, <2>6 DEF on
    <3>2. QED BY <1>1, <1>3, <3>1 DEF IInv, TypeOK, HistoryIsSent
  <2>8. TypeOK' BY <1>2, <1>3, <2>4, <2>5, <2>7 DEF IInv, TypeOK
  <2>9. TabsStandOnOpenConnections'
    BY <1>3, <2>2, <2>3, <2>4 DEF IInv, TypeOK, TabsStandOnOpenConnections
  <2>10. AnswersBelongToTheirTab'
    BY <1>1, <1>3, <1>5, <2>2, <2>3, <2>4 DEF IInv, AnswersBelongToTheirTab
  <2>11. RunningMeansOut'
    <3> SUFFICES ASSUME NEW other \in DOMAIN sheets, sheets'[other].inflight
                 PROVE  [kind |-> "query", token |-> sheets'[other].token] \in commands'
      BY <2>4 DEF RunningMeansOut, Out
    <3>1. other # t BY <2>3, <2>4
    <3>2. sheets'[other] = sheets[other] BY <2>4, <3>1
    <3>3. sheets[other].token # token BY <1>5, <2>2, <3>1
    <3>4. QED BY <1>4, <3>2, <3>3
  <2>12. RunsWhereItSits'
    <3> SUFFICES ASSUME ~Panics, NEW other \in DOMAIN sheets, sheets'[other].token # 0,
                        [kind |-> "query", token |-> sheets'[other].token] \in commands'
                 PROVE  /\ sheets'[other].inflight
                        /\ sheets'[other].on = sent'[sheets'[other].token].on
      BY <2>4 DEF RunsWhereItSits, Out
    <3>1. other # t BY <1>1, <2>3, <2>4
    <3>2. sheets'[other] = sheets[other] BY <2>4, <3>1
    <3>3. QED BY <1>1, <1>3, <3>2 DEF IInv, RunsWhereItSits, Out
  <2>13. FiledIfCalm'
    <3> SUFFICES ASSUME ~Panics PROVE FiledWhereItRan' BY DEF FiledIfCalm
    <3>1. sheets[t].on = sent[token].on /\ sheets[t].on \in DOMAIN links
      <4>1. query \in commands BY DEF Returned
      <4>2. QED BY <1>1, <2>2, <4>1
        DEF IInv, RunsWhereItSits, Out, TabsStandOnOpenConnections
    <3>2. history' = history \union {[token |-> token, on |-> sent[token].on]}
      BY <2>1, <3>1 DEF Filed
    <3>3. QED BY <1>3, <3>2 DEF FiledWhereItRan, FiledIfCalm, IInv
  <2>14. CancelledIfCalm'
    <3> SUFFICES ASSUME ~Panics, NEW any \in 1..Len(sent),
                        [kind |-> "query", token |-> any] \in commands'
                 PROVE  \/ any \in cancelled'
                        \/ \E u \in DOMAIN sheets' : sheets'[u].stop = any
                        \/ \E later \in any + 1..Len(sent) : sent[later].tab = sent[any].tab
      BY <1>3 DEF CancelledIfCalm, AbandonedIsCancelled, Out
    <3>1. \/ any \in cancelled
          \/ \E u \in DOMAIN sheets : sheets[u].stop = any
          \/ \E later \in any + 1..Len(sent) : sent[later].tab = sent[any].tab
      BY <1>1 DEF IInv, CancelledIfCalm, AbandonedIsCancelled, Out
    <3>2. ASSUME NEW u \in DOMAIN sheets, sheets[u].stop = any
          PROVE  any \in cancelled' \/ \E v \in DOMAIN sheets' : sheets'[v].stop = any
      <4>1. CASE u = t
        <5>1. any # 0 OBVIOUS
        <5>2. any \in Stops({t}) BY <3>2, <4>1, <5>1, Zenon DEF Stops
        <5>3. QED BY <2>1, <5>2
      <4>2. CASE u # t BY <2>4, <3>2, <4>2
      <4>3. QED BY <4>1, <4>2
    <3>3. QED BY <2>1, <3>1, <3>2
  <2>15. QED BY <2>7, <2>8, <2>9, <2>10, <2>11, <2>12, <2>13, <2>14 DEF IInv
<1>8. QED BY <1>6, <1>7

-----------------------------------------------------------------------------
(* What a key or a palette row does, with "rest" still out.                *)

(* What is left out is commands.                                           *)
LEMMA SparesTypes == ASSUME IInv, NEW rest, Spares(rest) PROVE rest \subseteq Command
BY DEF Spares, IInv, TypeOK

(* The cancels tabs hold are tokens.                                       *)
LEMMA StopsAreTokens ==
  ASSUME TypeOK, NEW tabs \in SUBSET DOMAIN sheets
  PROVE  Stops(tabs) \subseteq Nat
<1>1. \A t \in DOMAIN sheets : sheets[t].stop \in Nat BY DEF TypeOK, Sheet
<1>2. QED BY <1>1 DEF Stops

(* What stands on open connections is where it is.                         *)
LEMMA TabsAreHeld ==
  ASSUME IInv
  PROVE  /\ \A t \in DOMAIN sheets : sheets[t].on \in DOMAIN links /\ sheets[t] \in Sheet
         /\ link \in DOMAIN links /\ link = sheets[sheet].on
         /\ DOMAIN links \subseteq Nat /\ sheet \in DOMAIN sheets
BY DEF IInv, TypeOK, TabsStandOnOpenConnections

(* Trying to run what the editor holds.                                    *)
LEMMA AttemptSafe == ASSUME IInv, NEW rest, Spares(rest), Attempt(rest) PROVE IInv'
<1> DEFINE statement == sheets[sheet].text
<1>1. UNCHANGED <<links, link, sheet, cancelled, history, minted, opened>>
  BY DEF Attempt
<1>2. statement \in Texts /\ link \in Nat BY TabsAreHeld DEF Sheet
<1>3. CASE commands' = rest /\ UNCHANGED <<sheets, sent>>
           /\ (modal' = modal \/ modal' = [kind |-> "run", statement |-> statement, on |-> link])
  <2>1. modal' \in Question \union {NoModal}
    BY <1>2, <1>3 DEF Question, IInv, TypeOK
  <2>2. Arranged(DOMAIN links') BY <1>1, <1>3, StillArranged
  <2>3. SameQueries /\ commands' \subseteq Command BY <1>3, SparesQueries, SparesTypes
  <2>4. QED BY <1>1, <1>3, <2>1, <2>2, <2>3, MoveSafe DEF IInv, TypeOK
<1>4. CASE Run(sheets, sheet, link, statement, link, rest) /\ UNCHANGED modal
  <2>1. \A t \in DOMAIN sheets : sheets[t].on \in DOMAIN links /\ Carries(t, sheets[t])
    BY TabsAreHeld, TabsKeepThemselves
  <2> HIDE DEF statement
  <2>2. QED BY <1>1, <1>2, <1>4, <2>1, TabsAreHeld, RunSafe DEF IInv, TypeOK
<1>5. QED BY <1>3, <1>4 DEF Attempt

(* Giving up on the statement in front.                                    *)
LEMMA HaltSafe == ASSUME IInv, NEW rest, Spares(rest), Halt(rest) PROVE IInv'
<1>1. UNCHANGED <<links, link, sheets, sheet, modal, sent, history, minted, opened>>
  BY DEF Halt
<1>2. cancelled' \subseteq Nat /\ cancelled \subseteq cancelled'
  <2>1. Stops({sheet}) \subseteq Nat BY TabsAreHeld, StopsAreTokens DEF IInv
  <2>2. QED BY <2>1 DEF Halt, IInv, TypeOK
<1>3. SameQueries /\ commands' \subseteq Command
  BY SparesQueries, SparesTypes DEF Halt
<1>4. QED BY <1>1, <1>2, <1>3, StillArranged, MoveSafe DEF IInv, TypeOK

(* A new tab on the connection in front.                                   *)
LEMMA NewSafe ==
  ASSUME IInv, NEW text \in Texts, NEW rest, Spares(rest), New(text, rest) PROVE IInv'
<1>1. UNCHANGED <<links, modal, sent, cancelled, history, minted>> BY DEF New
<1>2. Arranged(DOMAIN links')
  BY <1>1, TabsAreHeld, OpenSheetArranges DEF New, IInv
<1>3. SameQueries /\ commands' \subseteq Command
  BY SparesQueries, SparesTypes DEF New
<1>4. QED BY <1>1, <1>2, <1>3, MoveSafe DEF IInv, TypeOK

(* Another tab in front.                                                   *)
LEMMA MoveToSafe == ASSUME IInv, NEW rest, Spares(rest), Move(rest) PROVE IInv'
<1>1. UNCHANGED <<links, modal, sent, cancelled, history, minted, opened>> BY DEF Move
<1>2. Arranged(DOMAIN links')
  <2>1. PICK t \in DOMAIN sheets \ {sheet} : Through(sheets, t, DOMAIN links, link)
    BY DEF Move
  <2>2. sheets \in [DOMAIN sheets -> Sheet] /\ DOMAIN sheets \subseteq 1..opened'
        /\ opened' \in Nat
    BY <1>1 DEF IInv, TypeOK
  <2>3. Leaves(DOMAIN sheets) BY <1>1 DEF Leaves
  <2>4. QED BY <1>1, <2>1, <2>2, <2>3, TabsAreHeld, TabsKeepThemselves, ThroughArranges
<1>3. SameQueries /\ commands' \subseteq Command
  BY SparesQueries, SparesTypes DEF Move
<1>4. QED BY <1>1, <1>2, <1>3, MoveSafe DEF IInv, TypeOK

(* The question about the tab in front.                                    *)
LEMMA ConfirmCloseSafe ==
  ASSUME IInv, NEW rest, Spares(rest), ConfirmClose(rest) PROVE IInv'
<1>1. UNCHANGED <<links, link, sheets, sheet, sent, cancelled, history, minted, opened>>
  BY DEF ConfirmClose
<1>2. modal' \in Question \union {NoModal}
  <2>1. sheet \in Nat BY DEF IInv, TypeOK
  <2>2. QED BY <2>1 DEF ConfirmClose, Question
<1>3. SameQueries /\ commands' \subseteq Command
  BY SparesQueries, SparesTypes DEF ConfirmClose
<1>4. QED BY <1>1, <1>2, <1>3, StillArranged, MoveSafe DEF IInv, TypeOK

(* Whatever a key or a palette row does.                                   *)
LEMMA DoSafe ==
  ASSUME IInv, NEW does, NEW rest, Spares(rest), Do(does, rest) PROVE IInv'
<1>1. Blank \in Texts BY DEF Texts
<1>2. QED BY <1>1, AttemptSafe, HaltSafe, NewSafe, MoveToSafe, ConfirmCloseSafe DEF Do

-----------------------------------------------------------------------------
(* Tabs and connections that go.                                           *)

(* The strip when some tabs go and one of the rest comes in front.         *)
LEMMA KeptArranges ==
  ASSUME IInv, NEW kept \in SUBSET DOMAIN sheets, NEW tab \in kept, NEW held, NEW behind,
         \A t \in kept : sheets[t].on \in held, opened' = opened, Leaves(kept),
         Through(Restrict(sheets, kept), tab, held, behind)
  PROVE  Arranged(held)
<1> DEFINE tabs == Restrict(sheets, kept)
<1>1. sheets \in [DOMAIN sheets -> Sheet] /\ DOMAIN sheets \subseteq 1..opened
      /\ opened \in Nat
  BY DEF IInv, TypeOK
<1>2. /\ tabs \in [kept -> Sheet] /\ DOMAIN tabs = kept
      /\ \A t \in kept : tabs[t] = sheets[t]
  BY <1>1 DEF Restrict
<1> HIDE DEF tabs
<1>3. \A t \in DOMAIN tabs : tabs[t].on \in held /\ Carries(t, tabs[t])
  BY <1>2, TabsKeepThemselves
<1>4. Through(tabs, tab, held, behind) BY DEF tabs
<1>5. QED BY <1>1, <1>2, <1>3, <1>4, ThroughArranges

(* The strip when an empty tab is all that is left.                        *)
LEMMA OnlyArranges ==
  ASSUME IInv, NEW on \in Nat, NEW held, NEW behind, on \in held, opened' = opened + 1,
         Leaves({}),
         Through([t \in {opened'} |-> NewSheet(on, Blank)], opened', held, behind)
  PROVE  Arranged(held)
<1> DEFINE tabs == [t \in {opened'} |-> NewSheet(on, Blank)]
<1>1. opened \in Nat /\ opened' \in 1..opened' /\ opened' \in Nat BY DEF IInv, TypeOK
<1>2. Blank \in Texts BY DEF Texts
<1>3. NewSheet(on, Blank) \in Sheet /\ NewSheet(on, Blank).on = on
      /\ Fresh(NewSheet(on, Blank))
  BY <1>2, NewSheetIsSheet DEF Fresh
<1>4. tabs \in [{opened'} -> Sheet] /\ DOMAIN tabs = {opened'}
      /\ \A t \in DOMAIN tabs : tabs[t] = NewSheet(on, Blank)
  BY <1>3
<1> HIDE DEF tabs
<1>5. Through(tabs, opened', held, behind) BY DEF tabs
<1>6. opened' \notin DOMAIN sheets BY <1>1 DEF IInv, TypeOK
<1>7. \A t \in DOMAIN tabs : tabs[t].on \in held /\ Carries(t, tabs[t])
  BY <1>3, <1>4, <1>6 DEF Carries
<1>8. Leaves(DOMAIN tabs) BY DEF Leaves
<1>9. QED BY <1>1, <1>4, <1>5, <1>7, <1>8, ThroughArranges

(* A tab that is closed.                                                   *)
LEMMA CloseSheetSafe ==
  ASSUME IInv, NEW rest, Spares(rest), CloseSheet(rest) PROVE IInv'
<1>1. UNCHANGED <<links, modal, sent, history, minted>> BY DEF CloseSheet
<1>2. cancelled' \subseteq Nat
  <2>1. Stops({sheet}) \subseteq Nat BY TabsAreHeld, StopsAreTokens DEF IInv
  <2>2. QED BY <2>1 DEF CloseSheet, IInv, TypeOK
<1> DEFINE kept == DOMAIN sheets \ {sheet}
<1>3. Leaves(kept)
  <2>1. cancelled' = cancelled \union Stops({sheet}) BY DEF CloseSheet
  <2>2. QED BY <2>1 DEF Leaves, Stops
<1>4. Arranged(DOMAIN links')
  <2>1. CASE DOMAIN sheets = {sheet}
    <3>1. sheets' = [t \in {opened'} |-> NewSheet(link, Blank)] /\ sheet' = opened'
          /\ link' = link /\ opened' = opened + 1
      BY <2>1 DEF CloseSheet
    <3>2. NewSheet(link, Blank).on = link
      BY TabsAreHeld, NewSheetIsSheet DEF Texts
    <3>3. Through([t \in {opened'} |-> NewSheet(link, Blank)], opened', DOMAIN links, link)
      BY <3>1, <3>2, TabsAreHeld DEF Through
    <3>4. kept = {} BY <2>1
    <3>5. QED BY <1>1, <1>3, <3>1, <3>3, <3>4, TabsAreHeld, OnlyArranges
  <2>2. CASE DOMAIN sheets # {sheet}
    <3>1. PICK t \in kept : Through(Restrict(sheets, kept), t, DOMAIN links, link)
      BY <2>2 DEF CloseSheet
    <3>2. opened' = opened BY <2>2 DEF CloseSheet
    <3>3. QED BY <1>1, <1>3, <3>1, <3>2, TabsAreHeld, KeptArranges
  <2>3. QED BY <2>1, <2>2
<1>5. SameQueries /\ commands' \subseteq Command
  BY SparesQueries, SparesTypes DEF CloseSheet
<1>6. QED BY <1>1, <1>2, <1>4, <1>5, MoveSafe DEF IInv, TypeOK

(* A connection that is closed, its tabs with it.                          *)
LEMMA DisconnectedSafe ==
  ASSUME IInv, NEW on, NEW rest, Spares(rest), Disconnected(on, rest), UNCHANGED modal
  PROVE  IInv'
<1>1. UNCHANGED <<modal, sent, history, minted>> BY DEF Disconnected
<1>2. SameQueries /\ commands' \subseteq Command
  BY SparesQueries, SparesTypes DEF Disconnected
<1>3. CASE on \notin DOMAIN links \/ DOMAIN links = {on}
  <2>1. UNCHANGED <<links, link, sheets, sheet, cancelled, opened>>
    BY <1>3 DEF Disconnected
  <2>2. QED BY <1>1, <1>2, <2>1, StillArranged, MoveSafe DEF IInv, TypeOK
<1>4. CASE ~(on \notin DOMAIN links \/ DOMAIN links = {on})
  <2> DEFINE kept == DOMAIN sheets \ Holding(on)
  <2>1. links' = Restrict(links, DOMAIN links \ {on})
        /\ cancelled' = cancelled \union Stops(Holding(on))
    BY <1>4 DEF Disconnected
  <2>2. links' \in [DOMAIN links' -> Profiles] /\ DOMAIN links' = DOMAIN links \ {on}
    <3>1. links \in [DOMAIN links -> Profiles] BY DEF IInv, TypeOK
    <3>2. QED BY <2>1, <3>1, RestrictIsFunction
  <2>3. DOMAIN links' \subseteq 1..minted' /\ DOMAIN links' \subseteq Nat
    BY <1>1, <2>2, TabsAreHeld DEF IInv, TypeOK
  <2>4. cancelled' \subseteq Nat
    BY <2>1, StopsAreTokens DEF Holding, IInv, TypeOK
  <2>5. Leaves(kept) BY <2>1 DEF Leaves, Stops, Holding
  <2>6. \A t \in kept : sheets[t].on \in DOMAIN links'
    BY <2>2, TabsAreHeld DEF Holding
  <2>7. PICK behind \in DOMAIN links' :
          \/ /\ opened' = opened + 1 /\ kept = {}
             /\ Through([t \in {opened'} |-> NewSheet(behind, Blank)], opened',
                        DOMAIN links', behind)
          \/ \E t \in kept :
               Through(Restrict(sheets, kept), t, DOMAIN links', behind) /\ opened' = opened
    BY <1>4 DEF Disconnected
  <2>8. CASE /\ opened' = opened + 1 /\ kept = {}
             /\ Through([t \in {opened'} |-> NewSheet(behind, Blank)], opened',
                        DOMAIN links', behind)
    <3>1. Arranged(DOMAIN links') BY <2>3, <2>5, <2>8, OnlyArranges
    <3>2. QED BY <1>1, <1>2, <2>2, <2>3, <2>4, <3>1, MoveSafe DEF IInv, TypeOK
  <2>9. CASE \E t \in kept :
               Through(Restrict(sheets, kept), t, DOMAIN links', behind) /\ opened' = opened
    <3>1. Arranged(DOMAIN links') BY <2>6, <2>5, <2>9, KeptArranges
    <3>2. QED BY <1>1, <1>2, <2>2, <2>3, <2>4, <3>1, MoveSafe DEF IInv, TypeOK
  <2>10. QED BY <2>7, <2>8, <2>9
<1>5. QED BY <1>3, <1>4

-----------------------------------------------------------------------------
(* The other handlers.                                                     *)

(* Everything that is out is spared when nothing is handled.               *)
LEMMA NothingHandled == Spares(commands)
BY DEF Spares

(* Every answer is spared when what a person said is handled.              *)
LEMMA SaidHandled ==
  ASSUME NEW c, c.kind # "query" PROVE Spares(commands \ {c})
BY DEF Spares

(* A statement typed in.                                                   *)
LEMMA TypeSafe == ASSUME IInv, NEW text \in Texts, Type(text) PROVE IInv'
<1>1. UNCHANGED <<links, link, sheet, modal, commands, sent, cancelled, history, minted,
                  opened>>
      /\ sheets' = [sheets EXCEPT ![sheet].text = text]
  BY DEF Type
<1>2. sheets \in [DOMAIN sheets -> Sheet] /\ sheet \in DOMAIN sheets BY DEF IInv, TypeOK
<1>3. sheets' \in [DOMAIN sheets' -> Sheet] /\ DOMAIN sheets' = DOMAIN sheets
  BY <1>1, <1>2 DEF Sheet
<1>4. ASSUME NEW t \in DOMAIN sheets
      PROVE  sheets'[t].on = sheets[t].on /\ Keeps(t, sheets'[t])
  <2>1. sheets[t] \in Sheet BY <1>2
  <2>2. sheets'[t] = sheets[t] \/ sheets'[t] = [sheets[t] EXCEPT !.text = text]
    BY <1>1, <1>2
  <2>3. QED BY <2>1, <2>2 DEF Keeps, Sheet
<1>5. Arranged(DOMAIN links')
  BY <1>1, <1>2, <1>3, <1>4, TabsAreHeld DEF Arranged, Carries, Leaves, IInv, TypeOK
<1>6. SameQueries BY <1>1 DEF SameQueries
<1>7. QED BY <1>1, <1>5, <1>6, MoveSafe DEF IInv, TypeOK

(* A statement of the history in a tab of its own.                         *)
LEMMA ReopenSafe == ASSUME IInv, Reopen PROVE IInv'
<1>1. PICK entry \in history : New(sent[entry.token].statement, commands) BY DEF Reopen
<1>2. entry.token \in 1..Len(sent) BY DEF IInv, HistoryIsSent
<1>3. sent[entry.token].statement \in Texts
  <2> DEFINE lines == [tab : Nat, on : Nat, statement : Texts, agreed : Nat]
  <2>1. sent \in Seq(lines) BY DEF IInv, TypeOK
  <2> HIDE DEF lines
  <2>2. sent[entry.token] \in lines BY <1>2, <2>1
  <2>3. QED BY <2>2 DEF lines
<1>4. QED BY <1>1, <1>3, NothingHandled, NewSafe

(* A table of the schema tree, opened and read at once.                    *)
LEMMA OpenTableSafe == ASSUME IInv, OpenTable PROVE IInv'
<1> DEFINE tabs == With(sheets, opened', NewSheet(link, Preview))
<1>1. UNCHANGED <<links, link, modal, cancelled, history, minted>>
      /\ opened' = opened + 1 /\ sheet' = opened'
      /\ Run(tabs, opened', link, Preview, link, commands)
  BY DEF OpenTable
<1>2. Preview \in Texts BY StatementsAssumption DEF Texts
<1>3. opened \in Nat /\ opened' \notin DOMAIN sheets /\ opened' \in Nat
      /\ sheets \in [DOMAIN sheets -> Sheet] /\ DOMAIN sheets \subseteq 1..opened
  BY <1>1 DEF IInv, TypeOK
<1>4. /\ NewSheet(link, Preview) \in Sheet /\ NewSheet(link, Preview).on = link
      /\ Fresh(NewSheet(link, Preview))
  BY <1>2, TabsAreHeld, NewSheetIsSheet DEF Fresh
<1>5. /\ tabs \in [DOMAIN sheets \union {opened'} -> Sheet]
      /\ DOMAIN tabs = DOMAIN sheets \union {opened'}
      /\ tabs[opened'] = NewSheet(link, Preview)
      /\ \A t \in DOMAIN sheets : tabs[t] = sheets[t]
  BY <1>3, <1>4 DEF With
<1> HIDE DEF tabs
<1>6. DOMAIN tabs \subseteq 1..opened'
  <2>1. 1..opened \subseteq 1..opened' /\ opened' \in 1..opened' BY <1>1, <1>3
  <2>2. QED BY <1>3, <1>5, <2>1
<1>7. ASSUME NEW t \in DOMAIN tabs
      PROVE  tabs[t].on \in DOMAIN links /\ Carries(t, tabs[t])
  <2>1. CASE t = opened' BY <1>3, <1>4, <1>5, <2>1, TabsAreHeld DEF Carries
  <2>2. CASE t \in DOMAIN sheets BY <1>5, <2>2, TabsAreHeld, TabsKeepThemselves
  <2>3. QED BY <1>5, <2>1, <2>2
<1>8. /\ tabs \in [DOMAIN tabs -> Sheet] /\ opened' \in DOMAIN tabs
      /\ sheet' \in DOMAIN tabs /\ link = tabs[sheet'].on
  BY <1>1, <1>4, <1>5
<1>9. link \in Nat /\ modal' \in Question \union {NoModal}
  BY <1>1 DEF IInv, TypeOK
<1>10. DOMAIN sheets \subseteq DOMAIN tabs /\ tabs[opened'].on = link BY <1>4, <1>5
<1>11. QED BY <1>10, <1>1, <1>2, <1>3, <1>6, <1>7, <1>8, <1>9, NothingHandled, RunSafe

(* A background job that falls over.                                       *)
LEMMA CrashedSafe == ASSUME IInv, Crashed PROVE IInv'
<1>1. UNCHANGED <<links, link, sheet, modal, commands, sent, cancelled, history, minted,
                  opened>>
      /\ sheets' = [sheets EXCEPT ![sheet] = Finished(@)] /\ Panics
  BY DEF Crashed
<1>2. sheets \in [DOMAIN sheets -> Sheet] /\ sheet \in DOMAIN sheets BY DEF IInv, TypeOK
<1>3. Finished(sheets[sheet]) \in Sheet
  <2>1. sheets[sheet] \in Sheet BY <1>2
  <2>2. QED BY <2>1, FinishedIsSheet
<1>4. sheets' \in [DOMAIN sheets' -> Sheet] /\ DOMAIN sheets' = DOMAIN sheets
  BY <1>1, <1>2, <1>3
<1>5. ASSUME NEW t \in DOMAIN sheets
      PROVE  sheets'[t].on = sheets[t].on /\ Keeps(t, sheets'[t])
  <2>1. sheets[t] \in Sheet BY <1>2
  <2>2. sheets'[t] = sheets[t] \/ sheets'[t] = Finished(sheets[t])
    BY <1>1, <1>2
  <2>3. QED BY <1>1, <2>1, <2>2, FinishedIsSheet DEF Keeps
<1>6. Arranged(DOMAIN links')
  BY <1>1, <1>2, <1>4, <1>5, TabsAreHeld DEF Arranged, Carries, Leaves, IInv, TypeOK
<1>7. SameQueries BY <1>1 DEF SameQueries
<1>8. QED BY <1>1, <1>6, <1>7, MoveSafe DEF IInv, TypeOK

(* A profile that is being opened.                                         *)
LEMMA OpenSafe ==
  ASSUME IInv, NEW profile \in Profiles, NEW nth \in Nat, Open(profile, nth)
  PROVE  IInv'
<1>1. UNCHANGED <<links, link, sheets, sheet, modal, sent, cancelled, history, minted,
                  opened>>
      /\ commands' = commands \union {Opening(profile, nth)}
  BY DEF Open
<1>2. SameQueries BY <1>1 DEF SameQueries, Opening
<1>3. commands' \subseteq Command BY <1>1 DEF Command, Opening, IInv, TypeOK
<1>4. QED BY <1>1, <1>2, <1>3, StillArranged, MoveSafe DEF IInv, TypeOK

(* A connection that came up.                                              *)
LEMMA SwitchedSafe ==
  ASSUME IInv, NEW profile \in Profiles, NEW nth \in Nat, Switched(profile, nth)
  PROVE  IInv'
<1> DEFINE command == Opening(profile, nth)
<1>1. commands' = commands \ {command} /\ minted' = minted + 1 /\ minted \in Nat
      /\ links' = With(links, minted', profile)
      /\ Aim(minted', DOMAIN links', minted')
      /\ UNCHANGED <<modal, sent, cancelled, history>>
  BY DEF Switched, IInv, TypeOK
<1>2. links \in [DOMAIN links -> Profiles] /\ DOMAIN links \subseteq 1..minted
  BY DEF IInv, TypeOK
<1>3. links' \in [DOMAIN links' -> Profiles] /\ DOMAIN links' = DOMAIN links \union {minted'}
  BY <1>1, <1>2 DEF With
<1>4. DOMAIN links' \subseteq 1..minted' /\ minted' \in Nat
  <2>1. 1..minted \subseteq 1..minted' /\ minted' \in 1..minted' BY <1>1
  <2>2. QED BY <1>1, <1>2, <1>3, <2>1
<1>5. Arranged(DOMAIN links')
  <2>1. \A t \in DOMAIN sheets : sheets[t].on \in DOMAIN links'
    BY <1>3, TabsAreHeld
  <2>2. minted' \in DOMAIN links' BY <1>3
  <2>3. QED BY <1>1, <1>4, <2>1, <2>2, AimArranges DEF IInv
<1>6. Spares(commands \ {command}) BY SaidHandled DEF Opening
<1>7. SameQueries /\ commands' \subseteq Command
  BY <1>1, <1>6, SparesQueries, SparesTypes
<1>8. QED BY <1>1, <1>3, <1>4, <1>5, <1>7, MoveSafe DEF IInv, TypeOK

(* A connection that would not open.                                       *)
LEMMA TroubledSafe ==
  ASSUME IInv, NEW profile \in Profiles, NEW nth \in Nat, Troubled(profile, nth)
  PROVE  IInv'
<1> DEFINE command == Opening(profile, nth)
<1>1. UNCHANGED <<links, link, sheets, sheet, modal, sent, cancelled, history, minted,
                  opened>>
      /\ commands' = commands \ {command}
  BY DEF Troubled
<1>2. Spares(commands \ {command}) BY SaidHandled DEF Opening
<1>3. SameQueries /\ commands' \subseteq Command
  BY <1>1, <1>2, SparesQueries, SparesTypes
<1>4. QED BY <1>1, <1>3, StillArranged, MoveSafe DEF IInv, TypeOK

(* A connection that is already open and is gone to.                       *)
LEMMA WentSafe == ASSUME IInv, NEW on, Went(on) PROVE IInv'
<1>1. UNCHANGED <<links, modal, commands, sent, cancelled, history, minted>>
      /\ on \in DOMAIN links /\ Aim(on, DOMAIN links, link)
  BY DEF Went
<1>2. Arranged(DOMAIN links') BY <1>1, TabsAreHeld, AimArranges DEF IInv
<1>3. SameQueries BY <1>1 DEF SameQueries
<1>4. QED BY <1>1, <1>2, <1>3, MoveSafe DEF IInv, TypeOK

(* A question about closing a connection, or its closing unasked.          *)
LEMMA AskToDisconnectSafe == ASSUME IInv, NEW on \in Nat, AskToDisconnect(on) PROVE IInv'
<1>1. CASE Disconnected(on, commands) /\ UNCHANGED modal
  BY <1>1, NothingHandled, DisconnectedSafe
<1>2. CASE /\ modal' = [kind |-> "disconnect", on |-> on]
           /\ UNCHANGED <<links, link, sheets, sheet, commands, sent, cancelled, history,
                          minted, opened>>
  <2>1. modal' \in Question \union {NoModal} BY <1>2 DEF Question
  <2>2. SameQueries BY <1>2 DEF SameQueries
  <2>3. QED BY <1>2, <2>1, <2>2, StillArranged, MoveSafe DEF IInv, TypeOK
<1>3. QED BY <1>1, <1>2 DEF AskToDisconnect

(* A palette row that is chosen.                                           *)
LEMMA ChooseSafe == ASSUME IInv, NEW does \in Palette, Choose(does) PROVE IInv'
<1>1. UNCHANGED <<links, link, sheets, sheet, modal, sent, cancelled, history, minted,
                  opened>>
      /\ commands' = commands \union {[kind |-> "chosen", does |-> does]}
  BY DEF Choose
<1>2. SameQueries BY <1>1 DEF SameQueries
<1>3. commands' \subseteq Command
  BY <1>1, PaletteAssumption DEF Command, IInv, TypeOK
<1>4. QED BY <1>1, <1>2, <1>3, StillArranged, MoveSafe DEF IInv, TypeOK

(* A question that is answered.                                            *)
LEMMA AnswerSafe == ASSUME IInv, AnswerYes \/ AnswerNo PROVE IInv'
<1>1. UNCHANGED <<links, link, sheets, sheet, sent, cancelled, history, minted, opened>>
      /\ modal' = NoModal
  BY DEF AnswerYes, AnswerNo
<1>2. commands' = commands \/ (commands' = commands \union {modal} /\ modal \in Question)
  BY DEF AnswerYes, AnswerNo, Keys, NoModal, IInv, TypeOK
<1>3. commands' \subseteq Command BY <1>2 DEF Command, IInv, TypeOK
<1>4. SameQueries
  <2>1. \A token : [kind |-> "query", token |-> token] \notin Question BY DEF Question
  <2>2. QED BY <1>2, <2>1 DEF SameQueries
<1>5. QED BY <1>1, <1>3, <1>4, StillArranged, MoveSafe DEF IInv, TypeOK

(* The confirmed statement, sent to what is in front.                      *)
LEMMA RunConfirmedSafe == ASSUME IInv, RunConfirmed PROVE IInv'
<1>1. PICK c \in commands :
        /\ c.kind = "run"
        /\ Run(sheets, sheet, link, c.statement, c.on, commands \ {c})
        /\ UNCHANGED <<links, link, sheet, modal, cancelled, history, minted, opened>>
  BY DEF RunConfirmed
<1>2. c.statement \in Texts /\ c.on \in Nat
  <2>1. c \in Command BY DEF IInv, TypeOK
  <2>2. QED BY <1>1, <2>1 DEF Command, Question
<1>3. Spares(commands \ {c}) BY <1>1, SaidHandled
<1>4. \A t \in DOMAIN sheets : sheets[t].on \in DOMAIN links /\ Carries(t, sheets[t])
  BY TabsAreHeld, TabsKeepThemselves
<1>5. QED BY <1>1, <1>2, <1>3, <1>4, TabsAreHeld, RunSafe DEF IInv, TypeOK

(* The other confirmed questions and the chosen palette row.               *)
LEMMA ConfirmedSafe ==
  ASSUME IInv,
         CloseConfirmed \/ DisconnectConfirmed \/ (\E does \in Palette : Chosen(does))
  PROVE  IInv'
<1>1. CASE CloseConfirmed BY <1>1, SaidHandled, CloseSheetSafe DEF CloseConfirmed
<1>2. CASE DisconnectConfirmed
  BY <1>2, SaidHandled, DisconnectedSafe DEF DisconnectConfirmed
<1>3. CASE \E does \in Palette : Chosen(does) BY <1>3, SaidHandled, DoSafe DEF Chosen
<1>4. QED BY <1>1, <1>2, <1>3

-----------------------------------------------------------------------------
(* The invariant, and what it is for.                                      *)

(* The program starts with one connection and one empty tab on it.         *)
LEMMA InitSafe == Init => IInv
<1> SUFFICES ASSUME Init PROVE IInv OBVIOUS
<1>1. Blank \in Texts BY DEF Texts
<1>2. NewSheet(1, Blank) \in Sheet /\ NewSheet(1, Blank).on = 1
      /\ Fresh(NewSheet(1, Blank))
  BY <1>1, NewSheetIsSheet DEF Fresh
<1>3. sheets = [i \in {1} |-> NewSheet(1, Blank)] /\ sheet = 1 /\ link = 1 BY DEF Init
<1>4. DOMAIN sheets = {1} /\ sheets[1] = NewSheet(1, Blank)
      /\ sheets \in [DOMAIN sheets -> Sheet]
  BY <1>2, <1>3
<1>5. links \in [{1} -> Profiles] /\ DOMAIN links = {1} BY DEF Init
<1>6. TypeOK BY <1>3, <1>4, <1>5 DEF Init, TypeOK
<1>7. TabsStandOnOpenConnections
  BY <1>2, <1>3, <1>4, <1>5 DEF TabsStandOnOpenConnections
<1>8. AnswersBelongToTheirTab BY <1>2, <1>4 DEF Fresh, AnswersBelongToTheirTab
<1>9. RunningMeansOut BY <1>2, <1>4 DEF Fresh, RunningMeansOut
<1>10. HistoryIsSent /\ FiledIfCalm
  BY DEF Init, HistoryIsSent, FiledIfCalm, FiledWhereItRan
<1>11. RunsWhereItSits
  <2>1. \A t \in DOMAIN sheets : sheets[t].token = 0 BY <1>2, <1>4 DEF Fresh
  <2>2. QED BY <2>1 DEF RunsWhereItSits
<1>12. CancelledIfCalm BY DEF Init, CancelledIfCalm, AbandonedIsCancelled
<1>13. QED BY <1>6, <1>7, <1>8, <1>9, <1>10, <1>11, <1>12 DEF IInv

(* Every handler keeps the invariant.                                      *)
LEMMA NextSafe == IInv /\ [Next]_vars => IInv'
<1> SUFFICES ASSUME IInv, [Next]_vars PROVE IInv' OBVIOUS
<1>1. CASE UNCHANGED vars
  <2>1. TypeOK' BY <1>1 DEF vars, IInv, TypeOK
  <2>2. TabsStandOnOpenConnections' BY <1>1 DEF vars, IInv, TabsStandOnOpenConnections
  <2>3. Moves BY <1>1, TabsKeepThemselves DEF vars, Moves, Leaves
  <2>4. QED BY <2>1, <2>2, <2>3, MoveKeeps DEF IInv
<1>2. ASSUME NEW does \in Does, Key(does) PROVE IInv'
  BY <1>2, NothingHandled, DoSafe DEF Key
<1>3. ASSUME NEW on \in 1..minted, Went(on) \/ AskToDisconnect(on) PROVE IInv'
  <2>1. on \in Nat BY DEF IInv, TypeOK
  <2>2. QED BY <1>3, <2>1, WentSafe, AskToDisconnectSafe
<1>4. ASSUME NEW profile \in Profiles, NEW nth \in 1..MaxLinks,
             Open(profile, nth) \/ Switched(profile, nth) \/ Troubled(profile, nth)
      PROVE  IInv'
  <2>1. nth \in Nat BY BoundsAssumption
  <2>2. QED BY <1>4, <2>1, OpenSafe, SwitchedSafe, TroubledSafe
<1>5. ASSUME NEW does \in Palette, Choose(does) \/ Chosen(does) PROVE IInv'
  BY <1>5, ChooseSafe, ConfirmedSafe
<1>6. CASE Reopen \/ OpenTable \/ Crashed
  BY <1>6, ReopenSafe, OpenTableSafe, CrashedSafe
<1>7. CASE AnswerYes \/ AnswerNo BY <1>7, AnswerSafe
<1>8. CASE RunConfirmed \/ CloseConfirmed \/ DisconnectConfirmed
  BY <1>8, RunConfirmedSafe, ConfirmedSafe
<1>9. QED
  BY <1>1, <1>2, <1>3, <1>4, <1>5, <1>6, <1>7, <1>8, TypeSafe, ReturnedSafe DEF Next

(* The inductive invariant holds throughout.                               *)
LEMMA AlwaysSafe == Spec => []IInv
BY InitSafe, NextSafe, PTL DEF Spec

(* Every variable keeps its type: a tab is always there to be in front, and *)
(* no message that comes back finds the strip without one (tabs.go).       *)
THEOREM TypeCorrect == Spec => []TypeOK
<1>1. IInv => TypeOK BY DEF IInv
<1>2. QED BY <1>1, AlwaysSafe, PTL

(* The tab in front is on the connection in front and no tab is on one     *)
(* that was closed, however connections come and go (links.go through and  *)
(* disconnected, switcher.go aimed4Switch).                                *)
THEOREM TabsStand == Spec => []TabsStandOnOpenConnections
<1>1. IInv => TabsStandOnOpenConnections BY DEF IInv
<1>2. QED BY <1>1, AlwaysSafe, PTL

(* An answer lands in the tab its statement was sent from or nowhere, for  *)
(* any number of tabs and of answers out at once (tabs.go returned).       *)
THEOREM AnswersBelong == Spec => []AnswersBelongToTheirTab
<1>1. IInv => AnswersBelongToTheirTab BY DEF IInv
<1>2. QED BY <1>1, AlwaysSafe, PTL

(* The mark of a running tab never outlives its statement (tabs.go         *)
(* finished).                                                              *)
THEOREM TheMarkIsTrue == Spec => []RunningMeansOut
<1>1. IInv => RunningMeansOut BY DEF IInv
<1>2. QED BY <1>1, AlwaysSafe, PTL

(* As long as no background job falls over, a history line names the       *)
(* connection its statement ran through, whatever was in front when the    *)
(* answer landed (history.go wroteDown, links.go linked4Sheet).             *)
THEOREM FiledTruly == ASSUME ~Panics PROVE Spec => []FiledWhereItRan
<1>1. IInv => FiledWhereItRan BY DEF IInv, FiledIfCalm
<1>2. QED BY <1>1, AlwaysSafe, PTL

(* As long as no background job falls over, closing a tab or a connection  *)
(* leaves no statement running that nobody gave up on or ran another over  *)
(* (tabs.go closeSheet, links.go disconnected).                            *)
THEOREM TheAbandonedAreCancelled == ASSUME ~Panics PROVE Spec => []AbandonedIsCancelled
<1>1. IInv => AbandonedIsCancelled BY DEF IInv, CancelledIfCalm
<1>2. QED BY <1>1, AlwaysSafe, PTL

-----------------------------------------------------------------------------
(* What a step leaves of the strip.                                        *)

\* Every tab is there, and one that holds anything is on its connection.
Stays ==
  \A t \in DOMAIN sheets :
    t \in DOMAIN sheets' /\ (Holds(sheets[t]) => sheets'[t].on = sheets[t].on)

(* A tab whose connection is held comes in front and nothing moves.        *)
LEMMA ThroughStays ==
  ASSUME NEW tabs, NEW tab, NEW held, NEW behind, Through(tabs, tab, held, behind),
         tabs[tab].on \in held
  PROVE  sheets' = tabs
BY DEF Through

(* A new tab on a connection that is held moves none.                      *)
LEMMA OpenSheetStays ==
  ASSUME TypeOK, NEW on, NEW text, NEW held, NEW behind, on \in held,
         OpenSheet(on, text, held, behind)
  PROVE  Stays
<1> DEFINE tabs == With(sheets, opened', NewSheet(on, text))
<1>1. opened' \notin DOMAIN sheets BY DEF OpenSheet, TypeOK
<1>2. tabs[opened'].on = on BY DEF With, NewSheet
<1>3. \A t \in DOMAIN sheets : t \in DOMAIN tabs /\ tabs[t] = sheets[t] BY <1>1 DEF With
<1>4. Through(tabs, opened', held, behind) BY DEF OpenSheet
<1> HIDE DEF tabs
<1>5. sheets' = tabs BY <1>2, <1>4, ThroughStays
<1>6. QED BY <1>3, <1>5 DEF Stays

(* Aiming a tab moves it only when it holds nothing.                       *)
LEMMA AimStays ==
  ASSUME TypeOK, NEW on, NEW held, NEW behind, on \in held, Aim(on, held, behind)
  PROVE  Stays
<1>1. CASE Holds(sheets[sheet]) BY <1>1, OpenSheetStays DEF Aim
<1>2. CASE ~Holds(sheets[sheet])
  <2> DEFINE tabs == [sheets EXCEPT ![sheet].on = on]
  <2>1. Through(tabs, sheet, held, behind) BY <1>2 DEF Aim
  <2>2. DOMAIN tabs = DOMAIN sheets /\ tabs[sheet].on = on
        /\ \A t \in DOMAIN sheets \ {sheet} : tabs[t] = sheets[t]
    BY DEF TypeOK, Sheet
  <2> HIDE DEF tabs
  <2>3. sheets' = tabs BY <2>1, <2>2, ThroughStays
  <2>4. QED BY <1>2, <2>2, <2>3 DEF Stays
<1>3. QED BY <1>1, <1>2

(* Sending a statement moves no tab.                                       *)
LEMMA RunStays ==
  ASSUME NEW tabs, NEW tab \in DOMAIN tabs, NEW on, NEW statement, NEW agreed, NEW rest,
         tabs \in [DOMAIN tabs -> Sheet],
         \A t \in DOMAIN sheets : t \in DOMAIN tabs /\ tabs[t] = sheets[t],
         Run(tabs, tab, on, statement, agreed, rest)
  PROVE  Stays
<1> DEFINE token == Len(sent) + 1
           ran == [tabs[tab] EXCEPT !.token = token, !.stop = token, !.inflight = TRUE]
<1>1. sheets' = [tabs EXCEPT ![tab] = ran] BY DEF Run
<1>2. tabs[tab] \in Sheet OBVIOUS
<1> HIDE DEF token
<1>3. ran.on = tabs[tab].on BY <1>2 DEF Sheet
<1> HIDE DEF ran
<1>4. QED BY <1>1, <1>3 DEF Stays

(* A key or a palette row moves none that holds anything, and closes none.  *)
LEMMA DoStays ==
  ASSUME IInv, NEW does \in Does, NEW rest, Do(does, rest)
  PROVE  Stays
<1>0. /\ sheets \in [DOMAIN sheets -> Sheet] /\ sheet \in DOMAIN sheets
      /\ link \in DOMAIN links /\ \A t \in DOMAIN sheets : sheets[t].on \in DOMAIN links
  BY TabsAreHeld DEF IInv, TypeOK
<1>1. CASE sheets' = sheets BY <1>1 DEF Stays
<1>2. ASSUME NEW statement, Run(sheets, sheet, link, statement, link, rest) PROVE Stays
  BY <1>0, <1>2, RunStays
<1>3. CASE Attempt(rest) BY <1>1, <1>2, <1>3 DEF Attempt
<1>4. CASE New(Blank, rest) BY <1>0, <1>4, OpenSheetStays DEF New, IInv
<1>5. CASE Move(rest) BY <1>0, <1>1, <1>5, ThroughStays DEF Move
<1>6. QED BY <1>1, <1>3, <1>4, <1>5 DEF Do, Halt, ConfirmClose

(* Closing a tab takes the one in front, and moves none.                   *)
LEMMA CloseLeaves ==
  ASSUME IInv, NEW rest, CloseSheet(rest), NEW t \in DOMAIN sheets
  PROVE  IF t \in DOMAIN sheets' THEN sheets'[t] = sheets[t] ELSE t = sheet
<1> DEFINE kept == DOMAIN sheets \ {sheet}
<1>1. CASE DOMAIN sheets = {sheet} BY <1>1 DEF CloseSheet, IInv, TypeOK
<1>2. CASE DOMAIN sheets # {sheet}
  <2> DEFINE tabs == Restrict(sheets, kept)
  <2>1. PICK tab \in kept : Through(tabs, tab, DOMAIN links, link) BY <1>2 DEF CloseSheet
  <2>2. DOMAIN tabs = kept /\ \A other \in kept : tabs[other] = sheets[other] BY DEF Restrict
  <2>3. tabs[tab].on \in DOMAIN links BY <2>2, TabsAreHeld
  <2> HIDE DEF tabs
  <2>4. sheets' = tabs BY <2>1, <2>3, ThroughStays
  <2>5. QED BY <2>2, <2>4
<1>3. QED BY <1>1, <1>2

(* Closing a connection takes the tabs on it, and moves none.              *)
LEMMA DisconnectedLeaves ==
  ASSUME IInv, NEW on, NEW rest, Disconnected(on, rest), NEW t \in DOMAIN sheets
  PROVE  IF t \in DOMAIN sheets' THEN sheets'[t] = sheets[t] ELSE sheets[t].on = on
<1> DEFINE kept == DOMAIN sheets \ Holding(on)
<1>1. CASE on \notin DOMAIN links \/ DOMAIN links = {on} BY <1>1 DEF Disconnected
<1>2. CASE ~(on \notin DOMAIN links \/ DOMAIN links = {on})
  <2>1. links' = Restrict(links, DOMAIN links \ {on}) BY <1>2 DEF Disconnected
  <2>2. DOMAIN links' = DOMAIN links \ {on} BY <2>1 DEF Restrict
  <2>3. \A other \in kept : sheets[other].on \in DOMAIN links'
    BY <2>2, TabsAreHeld DEF Holding
  <2>4. PICK behind \in DOMAIN links' :
          \/ /\ kept = {} /\ opened' = opened + 1
             /\ Through([u \in {opened'} |-> NewSheet(behind, Blank)],
                        opened', DOMAIN links', behind)
          \/ \E tab \in kept : Through(Restrict(sheets, kept), tab, DOMAIN links', behind)
    BY <1>2 DEF Disconnected
  <2>5. CASE /\ kept = {} /\ opened' = opened + 1
             /\ Through([u \in {opened'} |-> NewSheet(behind, Blank)],
                        opened', DOMAIN links', behind)
    <3>1. sheets[t].on = on BY <2>5 DEF Holding
    <3> DEFINE tabs == [u \in {opened'} |-> NewSheet(behind, Blank)]
    <3>2. DOMAIN tabs = {opened'} /\ tabs[opened'].on = behind BY DEF NewSheet
    <3>3. Through(tabs, opened', DOMAIN links', behind) BY <2>5
    <3> HIDE DEF tabs
    <3>4. sheets' = tabs BY <3>2, <3>3, ThroughStays
    <3>5. t \notin DOMAIN sheets' BY <2>5, <3>2, <3>4 DEF IInv, TypeOK
    <3>6. QED BY <3>1, <3>5
  <2>6. ASSUME NEW tab \in kept, Through(Restrict(sheets, kept), tab, DOMAIN links', behind)
        PROVE  IF t \in DOMAIN sheets' THEN sheets'[t] = sheets[t] ELSE sheets[t].on = on
    <3> DEFINE tabs == Restrict(sheets, kept)
    <3>1. DOMAIN tabs = kept /\ \A other \in kept : tabs[other] = sheets[other]
      BY DEF Restrict
    <3>2. Through(tabs, tab, DOMAIN links', behind) BY <2>6
    <3>3. tabs[tab].on \in DOMAIN links' BY <2>3, <3>1
    <3> HIDE DEF tabs
    <3>4. sheets' = tabs BY <3>2, <3>3, ThroughStays
    <3>5. QED BY <3>1, <3>4 DEF Holding
  <2>7. QED BY <2>4, <2>5, <2>6
<1>3. QED BY <1>1, <1>2

\* What HoldsStill and TabsGoOnlyOnAnAnswer say of a step.
Still ==
  \A t \in DOMAIN sheets \intersect DOMAIN sheets' :
    sheets[t].text # Blank \/ sheets[t].inflight \/ sheets[t].shown # 0
      => sheets'[t].on = sheets[t].on

Asked ==
  \A t \in DOMAIN sheets \ DOMAIN sheets' :
    \E c \in commands \ commands' :
      \/ c.kind = "close" /\ t = sheet
      \/ c.kind = "disconnect" /\ c.on = sheets[t].on

(* A step that leaves every tab does what both properties ask.             *)
LEMMA StaysStill == Stays => Still /\ Asked
BY DEF Stays, Still, Asked, Holds

(* Every step moves no tab that holds anything, and takes only those it    *)
(* was asked to.                                                           *)
LEMMA StepStill == IInv /\ [Next]_vars => Still /\ Asked
<1> SUFFICES ASSUME IInv, [Next]_vars PROVE Still /\ Asked OBVIOUS
<1>0. /\ TypeOK /\ sheets \in [DOMAIN sheets -> Sheet] /\ sheet \in DOMAIN sheets
      /\ link \in DOMAIN links /\ \A t \in DOMAIN sheets : sheets[t].on \in DOMAIN links
  BY TabsAreHeld DEF IInv, TypeOK
<1>1. CASE sheets' = sheets
  <2>1. Stays BY <1>1 DEF Stays
  <2>2. QED BY <2>1, StaysStill
<1>2. CASE (\E does \in Does : Key(does)) \/ (\E does \in Palette : Chosen(does))
  BY <1>2, DoStays, StaysStill, PaletteAssumption DEF Key, Chosen
<1>3. CASE Reopen BY <1>0, <1>3, OpenSheetStays, StaysStill DEF Reopen, New
<1>4. CASE OpenTable
  <2> DEFINE tabs == With(sheets, opened', NewSheet(link, Preview))
  <2>1. opened' \notin DOMAIN sheets BY <1>4 DEF OpenTable, IInv, TypeOK
  <2>2. NewSheet(link, Preview) \in Sheet
    <3>1. link \in Nat /\ Preview \in Texts BY StatementsAssumption DEF IInv, TypeOK, Texts
    <3>2. QED BY <3>1, NewSheetIsSheet
  <2>3. /\ tabs \in [DOMAIN tabs -> Sheet] /\ opened' \in DOMAIN tabs
        /\ \A t \in DOMAIN sheets : t \in DOMAIN tabs /\ tabs[t] = sheets[t]
    BY <1>0, <2>1, <2>2 DEF With
  <2>4. Run(tabs, opened', link, Preview, link, commands) BY <1>4 DEF OpenTable
  <2> HIDE DEF tabs
  <2>5. Stays BY <2>3, <2>4, RunStays
  <2>6. QED BY <2>5, StaysStill
<1>5. CASE RunConfirmed BY <1>0, <1>5, RunStays, StaysStill DEF RunConfirmed
<1>6. ASSUME NEW t \in DOMAIN sheets, NEW tab, tab.on = sheets[t].on,
             sheets' = [sheets EXCEPT ![t] = tab]
      PROVE  Still /\ Asked
  <2>1. Stays BY <1>0, <1>6 DEF Stays
  <2>2. QED BY <2>1, StaysStill
<1>7. CASE Crashed BY <1>0, <1>6, <1>7, FinishedIsSheet DEF Crashed
<1>8. ASSUME NEW text, Type(text) PROVE Still /\ Asked
  <2> DEFINE tab == [sheets[sheet] EXCEPT !.text = text]
  <2>1. sheets' = [sheets EXCEPT ![sheet] = tab] BY <1>8 DEF Type
  <2>2. tab.on = sheets[sheet].on BY <1>0 DEF Sheet
  <2> HIDE DEF tab
  <2>3. QED BY <1>0, <1>6, <2>1, <2>2
<1>9. ASSUME NEW token, Returned(token) PROVE Still /\ Asked
  <2>1. CASE sheets' = sheets BY <1>1, <2>1
  <2>2. ASSUME NEW t \in Asker(token),
               sheets' = [sheets EXCEPT ![t] = [Finished(@) EXCEPT !.shown = token]]
        PROVE  Still /\ Asked
    <3> DEFINE tab == [Finished(sheets[t]) EXCEPT !.shown = token]
    <3>1. t \in DOMAIN sheets /\ sheets[t] \in Sheet BY <1>0 DEF Asker
    <3>2. tab.on = sheets[t].on BY <3>1, FinishedIsSheet DEF Sheet
    <3>3. sheets' = [sheets EXCEPT ![t] = tab] BY <2>2
    <3> HIDE DEF tab
    <3>4. QED BY <1>6, <3>1, <3>2, <3>3
  <2>3. QED BY <1>9, <2>1, <2>2 DEF Returned
<1>10. ASSUME NEW profile, NEW nth, Switched(profile, nth) PROVE Still /\ Asked
  <2>1. minted' \in DOMAIN links' BY <1>10 DEF Switched, With
  <2>2. QED BY <1>0, <1>10, <2>1, AimStays, StaysStill DEF Switched
<1>11. ASSUME NEW on, Went(on) PROVE Still /\ Asked
  BY <1>0, <1>11, AimStays, StaysStill DEF Went
<1>12. ASSUME NEW on, AskToDisconnect(on) PROVE Still /\ Asked
  <2>1. CASE Holding(on) = {} /\ Disconnected(on, commands)
    <3>1. \A t \in DOMAIN sheets : sheets[t].on # on BY <2>1 DEF Holding
    <3>2. Stays BY <2>1, <3>1, DisconnectedLeaves DEF Stays
    <3>3. QED BY <3>2, StaysStill
  <2>2. QED BY <1>1, <1>12, <2>1 DEF AskToDisconnect
<1>13. CASE CloseConfirmed
  <2>1. PICK c \in commands : c.kind = "close" /\ CloseSheet(commands \ {c})
    BY <1>13 DEF CloseConfirmed
  <2>2. c \in commands \ commands' BY <2>1 DEF CloseSheet
  <2>3. QED BY <2>1, <2>2, CloseLeaves DEF Still, Asked
<1>14. CASE DisconnectConfirmed
  <2>1. PICK c \in commands : c.kind = "disconnect" /\ Disconnected(c.on, commands \ {c})
    BY <1>14 DEF DisconnectConfirmed
  <2>2. c \in commands \ commands' BY <2>1 DEF Disconnected
  <2>3. QED BY <2>1, <2>2, DisconnectedLeaves DEF Still, Asked
<1>15. ASSUME NEW does, Choose(does) PROVE Still /\ Asked BY <1>1, <1>15 DEF Choose
<1>16. ASSUME NEW profile, NEW nth, Open(profile, nth) \/ Troubled(profile, nth)
       PROVE  Still /\ Asked
  BY <1>1, <1>16 DEF Open, Troubled
<1>17. CASE AnswerYes \/ AnswerNo \/ UNCHANGED vars
  BY <1>1, <1>17 DEF AnswerYes, AnswerNo, vars
<1>18. QED
  BY <1>2, <1>3, <1>4, <1>5, <1>7, <1>8, <1>9, <1>10, <1>11, <1>12, <1>13, <1>14, <1>15,
     <1>16, <1>17
  DEF Next

(* A tab that holds a statement, a result or a run stays on its connection  *)
(* while it does, whatever is switched to, opened, closed or lands         *)
(* (switcher.go aimed4Switch, links.go through).                           *)
THEOREM TabsHoldStill == Spec => HoldsStill
<1>1. IInv /\ [Next]_vars => [Still]_vars BY StepStill
<1>2. QED BY <1>1, AlwaysSafe, PTL DEF Spec, HoldsStill, Still

(* A tab goes only in the step that handles an answer: to close, the tab   *)
(* that is in front then, and to disconnect, those of the connection it    *)
(* named (tabs.go closeSheet, links.go disconnected).                      *)
THEOREM TabsGoOnAnAnswer == Spec => TabsGoOnlyOnAnAnswer
<1>1. IInv /\ [Next]_vars => [Asked]_vars BY StepStill
<1>2. QED BY <1>1, AlwaysSafe, PTL DEF Spec, TabsGoOnlyOnAnAnswer, Asked

-----------------------------------------------------------------------------
(* The life of a statement.  A step sends one, hears one, or does neither. *)

Opens == {c \in commands : c.kind = "open"}

\* Nothing is sent beyond the bound, no more connections come up than the bound
\* says, and a statement in the history is out no more.
Tallied ==
  /\ Len(sent) <= MaxRuns
  /\ IsFiniteSet(Opens) /\ minted + Cardinality(Opens) <= MaxLinks
  /\ \A entry \in history : ~Out(entry.token)

\* No statement is sent or heard.
Quiet == SameQueries /\ sent' = sent /\ history' = history

\* One statement is sent, to "on".
Sends(on) ==
  /\ Len(sent) < MaxRuns /\ history' = history
  /\ \E said : sent' = Append(sent, said) /\ said.on = on
  /\ \A token : [kind |-> "query", token |-> token] \in commands' <=>
       [kind |-> "query", token |-> token] \in commands \/ token = Len(sent) + 1

\* The connections being opened are those that were.
SameOpens == Opens' = Opens /\ minted' = minted

Speaks == SameOpens /\ (Quiet \/ \E on \in DOMAIN links : Sends(on))

\* What is left out once something has been handled that is neither an answer nor
\* a connection.
SparesAll(rest) == Spares(rest) /\ Opens = {c \in rest : c.kind = "open"}

(* What a person said is neither an answer nor a connection.               *)
LEMMA SaidHandledAll ==
  ASSUME NEW c, c.kind \notin {"query", "open"} PROVE SparesAll(commands \ {c})
BY SaidHandled DEF SparesAll, Opens

(* Everything that is out is left when nothing is handled.                 *)
LEMMA NothingHandledAll == SparesAll(commands)
BY NothingHandled DEF SparesAll, Opens

(* Handling something that sends nothing.                                  *)
LEMMA RestSpeaks ==
  ASSUME NEW rest, SparesAll(rest), commands' = rest, UNCHANGED <<sent, history, minted>>
  PROVE  Speaks
BY SparesQueries DEF SparesAll, Speaks, SameOpens, Opens, Quiet

(* Sending from any tab through a connection that is open.                 *)
LEMMA RunSpeaks ==
  ASSUME NEW tabs, NEW tab, NEW on \in DOMAIN links, NEW statement, NEW agreed, NEW rest,
         SparesAll(rest), Run(tabs, tab, on, statement, agreed, rest),
         UNCHANGED <<history, minted>>
  PROVE  Speaks
<1> DEFINE token == Len(sent) + 1
           said == [tab |-> tab, on |-> on, statement |-> statement, agreed |-> agreed]
<1>1. /\ Len(sent) < MaxRuns /\ sent' = Append(sent, said)
      /\ commands' = rest \union {[kind |-> "query", token |-> token]}
  BY DEF Run
<1>2. said.on = on OBVIOUS
<1> HIDE DEF token, said
<1>3. SameOpens BY <1>1 DEF SameOpens, SparesAll, Opens
<1>4. \A any : [kind |-> "query", token |-> any] \in commands' <=>
        [kind |-> "query", token |-> any] \in commands \/ any = token
  BY <1>1 DEF SparesAll, Spares
<1>5. Sends(on) BY <1>1, <1>2, <1>4 DEF Sends, token
<1>6. QED BY <1>3, <1>5 DEF Speaks

(* A key or a palette row.                                                 *)
LEMMA DoSpeaks ==
  ASSUME IInv, NEW does, NEW rest, SparesAll(rest), Do(does, rest) PROVE Speaks
<1>1. link \in DOMAIN links BY TabsAreHeld
<1>2. CASE Attempt(rest) BY <1>1, <1>2, RestSpeaks, RunSpeaks DEF Attempt
<1>3. CASE Halt(rest) \/ New(Blank, rest) \/ Move(rest) \/ ConfirmClose(rest)
  BY <1>3, RestSpeaks DEF Halt, New, Move, ConfirmClose
<1>4. QED BY <1>2, <1>3 DEF Do

(* What a step that neither hears a statement nor opens a connection does. *)
LEMMA StepSpeaks ==
  ASSUME IInv, [Next]_vars
  PROVE  \/ Speaks
         \/ \E token \in 1..Len(sent) : Returned(token)
         \/ \E profile \in Profiles, nth \in 1..MaxLinks :
              Open(profile, nth) \/ Switched(profile, nth) \/ Troubled(profile, nth)
<1>0. link \in DOMAIN links /\ SparesAll(commands) BY TabsAreHeld, NothingHandledAll
<1>1. CASE UNCHANGED <<commands, sent, history, minted>> BY <1>0, <1>1, RestSpeaks
<1>2. CASE \E does \in Does : Key(does) BY <1>0, <1>2, DoSpeaks DEF Key
<1>3. CASE \E does \in Palette : Chosen(does) BY <1>3, SaidHandledAll, DoSpeaks DEF Chosen
<1>4. CASE Reopen BY <1>0, <1>4, RestSpeaks DEF Reopen, New
<1>5. CASE OpenTable BY <1>0, <1>5, RunSpeaks DEF OpenTable
<1>6. CASE RunConfirmed BY <1>0, <1>6, SaidHandledAll, RunSpeaks DEF RunConfirmed
<1>7. CASE CloseConfirmed BY <1>7, SaidHandledAll, RestSpeaks DEF CloseConfirmed, CloseSheet
<1>8. CASE DisconnectConfirmed
  BY <1>8, SaidHandledAll, RestSpeaks DEF DisconnectConfirmed, Disconnected
<1>9. ASSUME NEW on, AskToDisconnect(on) PROVE Speaks
  BY <1>0, <1>1, <1>9, RestSpeaks DEF AskToDisconnect, Disconnected
<1>10. ASSUME NEW c, c.kind \notin {"query", "open"}, commands' = commands \union {c},
              UNCHANGED <<sent, history, minted>>
       PROVE  Speaks
  BY <1>10 DEF Speaks, SameOpens, Opens, Quiet, SameQueries
<1>11. ASSUME NEW does, Choose(does) PROVE Speaks BY <1>10, <1>11 DEF Choose
<1>12. CASE AnswerYes
  <2>1. modal.kind \notin {"query", "open"} BY <1>12 DEF IInv, TypeOK, Question, NoModal
  <2>2. QED BY <1>10, <1>12, <2>1 DEF AnswerYes
<1>13. QED
  BY <1>1, <1>2, <1>3, <1>4, <1>5, <1>6, <1>7, <1>8, <1>9, <1>11, <1>12
  DEF Next, vars, Type, Crashed, Went, AnswerNo

(* The program starts with one connection and nothing sent.                *)
LEMMA InitTallied == Init => Tallied
<1> SUFFICES ASSUME Init PROVE Tallied OBVIOUS
<1>1. Opens = {} BY DEF Init, Opens
<1>2. QED BY <1>1, FS_EmptySet, BoundsAssumption DEF Init, Tallied

(* Every step keeps the tally.                                             *)
LEMMA NextTallied == IInv /\ Tallied /\ [Next]_vars => Tallied'
<1> SUFFICES ASSUME IInv, Tallied, [Next]_vars PROVE Tallied' OBVIOUS
<1>0. /\ minted \in Nat /\ Len(sent) \in Nat /\ MaxLinks \in Nat /\ MaxRuns \in Nat
      /\ Cardinality(Opens) \in Nat
      /\ sent \in Seq([tab : Nat, on : Nat, statement : Texts, agreed : Nat])
  BY FS_CardinalityType, BoundsAssumption DEF IInv, TypeOK, Tallied
<1>1. CASE Speaks
  <2>1. CASE Quiet BY <1>1, <2>1 DEF Speaks, SameOpens, Quiet, SameQueries, Tallied, Out
  <2>2. ASSUME NEW on, Sends(on) PROVE Tallied'
    <3>1. PICK said : sent' = Append(sent, said) BY <2>2 DEF Sends
    <3>2. Len(sent') = Len(sent) + 1 BY <1>0, <3>1
    <3>3. \A entry \in history : entry.token # Len(sent) + 1
      BY <1>0 DEF IInv, HistoryIsSent
    <3>4. QED BY <1>0, <1>1, <2>2, <3>2, <3>3 DEF Speaks, SameOpens, Sends, Tallied, Out
  <2>3. QED BY <1>1, <2>1, <2>2 DEF Speaks
<1>2. ASSUME NEW token \in 1..Len(sent), Returned(token) PROVE Tallied'
  <2>1. /\ commands' = commands \ {[kind |-> "query", token |-> token]}
        /\ sent' = sent /\ minted' = minted
        /\ \/ history' = history
           \/ \E on : history' = history \union {[token |-> token, on |-> on]}
    BY <1>2 DEF Returned
  <2>2. Opens' = Opens BY <2>1 DEF Opens
  <2>3. QED BY <2>1, <2>2 DEF Tallied, Out
<1>3. ASSUME NEW profile, NEW nth, Open(profile, nth) PROVE Tallied'
  <2>1. Opens' = Opens \union {Opening(profile, nth)} BY <1>3 DEF Open, Opens, Opening
  <2>2. minted + Cardinality(Opens) < MaxLinks BY <1>3 DEF Open, Opens
  <2>3. IsFiniteSet(Opens') /\ Cardinality(Opens') <= Cardinality(Opens) + 1
        /\ Cardinality(Opens') \in Nat
    <3>1. IsFiniteSet(Opens) BY DEF Tallied
    <3>2. /\ IsFiniteSet(Opens \union {Opening(profile, nth)})
          /\ Cardinality(Opens \union {Opening(profile, nth)}) =
               IF Opening(profile, nth) \in Opens THEN Cardinality(Opens)
               ELSE Cardinality(Opens) + 1
      BY <3>1, FS_AddElement
    <3>3. QED BY <1>0, <2>1, <3>2
  <2>4. minted' + Cardinality(Opens') <= MaxLinks BY <1>0, <1>3, <2>2, <2>3 DEF Open
  <2>5. \A entry \in history' : ~Out(entry.token)' BY <1>3 DEF Open, Opening, Tallied, Out
  <2>6. QED BY <1>3, <2>3, <2>4, <2>5 DEF Open, Tallied
<1>4. ASSUME NEW profile, NEW nth, Switched(profile, nth) \/ Troubled(profile, nth)
      PROVE  Tallied'
  <2>1. /\ Opening(profile, nth) \in Opens /\ Opens' = Opens \ {Opening(profile, nth)}
        /\ commands' \subseteq commands /\ sent' = sent /\ history' = history
        /\ minted' \in {minted, minted + 1}
    BY <1>4 DEF Switched, Troubled, Opens, Opening
  <2>2. IsFiniteSet(Opens') /\ Cardinality(Opens') = Cardinality(Opens) - 1
    BY <2>1, FS_RemoveElement DEF Tallied
  <2>3. minted' + Cardinality(Opens') <= MaxLinks BY <1>0, <2>1, <2>2 DEF Tallied
  <2>4. QED BY <2>1, <2>2, <2>3 DEF Tallied, Out
<1>5. QED BY <1>1, <1>2, <1>3, <1>4, StepSpeaks

(* The invariant and the tally hold throughout.                            *)
LEMMA AlwaysTallied == Spec => [](IInv /\ Tallied)
<1>1. Init => IInv /\ Tallied BY InitSafe, InitTallied
<1>2. IInv /\ Tallied /\ [Next]_vars => IInv' /\ Tallied' BY NextSafe, NextTallied
<1>3. QED BY <1>1, <1>2, PTL DEF Spec

\* The abstract state, as functions of the token.
Fates == [token \in 1..MaxRuns |-> Fate(token)]

RanOns == [token \in 1..MaxRuns |-> IF token > Len(sent) THEN 0 ELSE sent[token].on]

(* A step that sends and hears nothing leaves every run where it is.       *)
LEMMA QuietStutters == ASSUME Quiet PROVE UNCHANGED <<Fates, RanOns, history>>
BY DEF Quiet, SameQueries, Fates, RanOns, Fate, Out

(* A statement that is sent was never sent before, and no other moves.     *)
LEMMA SendsIsSend ==
  ASSUME IInv, Tallied, NEW on \in DOMAIN links, Sends(on)
  PROVE  \E token \in 1..MaxRuns : on \in 1..MaxLinks /\ Runs!Send(token, on)
<1>1. /\ sent \in Seq([tab : Nat, on : Nat, statement : Texts, agreed : Nat])
      /\ Len(sent) \in Nat /\ MaxRuns \in Nat
  BY BoundsAssumption DEF IInv, TypeOK
<1> PICK token \in Nat : token = Len(sent) + 1 BY <1>1
<1>2. PICK said : sent' = Append(sent, said) /\ said.on = on BY DEF Sends
<1>3. /\ Len(sent') = token /\ sent'[token] = said
      /\ \A any \in 1..Len(sent) : sent'[any] = sent[any]
  BY <1>1, <1>2
<1>4. token \in 1..MaxRuns BY <1>1 DEF Sends
<1>5. on \in 1..MaxLinks
  <2>1. minted \in Nat /\ Cardinality(Opens) \in Nat /\ MaxLinks \in Nat
    BY FS_CardinalityType, BoundsAssumption DEF IInv, TypeOK, Tallied
  <2>2. on \in 1..minted BY DEF IInv, TypeOK
  <2>3. QED BY <2>1, <2>2 DEF Tallied
<1>6. \A entry \in history : entry.token \in 1..Len(sent) BY DEF IInv, HistoryIsSent
<1>7. Fate(token) = "unsent" /\ Fate(token)' = "out"
  <2>1. token > Len(sent) /\ ~(token > Len(sent')) BY <1>1, <1>3
  <2>2. [kind |-> "query", token |-> token] \in commands' BY DEF Sends
  <2>3. QED BY <2>1, <2>2 DEF Fate, Out
<1>8. ASSUME NEW any \in 1..MaxRuns, any # token PROVE Fate(any)' = Fate(any)
  <2>1. any > Len(sent) <=> any > Len(sent') BY <1>1, <1>3, <1>8
  <2>2. QED BY <1>8, <2>1 DEF Fate, Sends, Out
<1>9. Fates' = [Fates EXCEPT ![token] = "out"] BY <1>4, <1>7, <1>8 DEF Fates
<1>10. RanOns' = [RanOns EXCEPT ![token] = on]
  <2>1. ASSUME NEW any \in 1..MaxRuns, any # token
        PROVE  (IF any > Len(sent') THEN 0 ELSE sent'[any].on) =
               (IF any > Len(sent) THEN 0 ELSE sent[any].on)
    <3>1. any > Len(sent) <=> any > Len(sent') BY <1>1, <1>3, <2>1
    <3>2. ~(any > Len(sent)) => any \in 1..Len(sent) BY <1>1
    <3>3. QED BY <1>3, <3>1, <3>2
  <2>2. ~(token > Len(sent')) BY <1>1, <1>3
  <2>3. QED BY <1>2, <1>3, <1>4, <2>1, <2>2 DEF RanOns
<1>11. Fates[token] = "unsent" BY <1>4, <1>7 DEF Fates
<1>12. QED
  BY <1>4, <1>5, <1>9, <1>10, <1>11 DEF Runs!Send, Fates, RanOns, Sends

(* An answer that comes back is taken, under the connection its statement   *)
(* ran through, or dropped.                                                *)
LEMMA ReturnedLands ==
  ASSUME ~Panics, IInv, Tallied, NEW token \in 1..Len(sent), Returned(token)
  PROVE  token \in 1..MaxRuns /\ (Runs!Land(token) \/ Runs!Drop(token))
<1> DEFINE query == [kind |-> "query", token |-> token]
<1>1. /\ Len(sent) \in Nat /\ MaxRuns \in Nat /\ token \in 1..MaxRuns
      /\ ~(token > Len(sent))
  BY BoundsAssumption DEF IInv, TypeOK, Tallied
<1>2. /\ query \in commands /\ commands' = commands \ {query} /\ sent' = sent
  BY DEF Returned
<1>3. Fate(token) = "out" BY <1>1, <1>2 DEF Fate, Out
<1>4. \A entry \in history : entry.token # token BY <1>2 DEF Tallied, Out
<1>5. RanOns' = RanOns BY <1>2 DEF RanOns
<1>6. Fates[token] = "out" BY <1>1, <1>3 DEF Fates
<1>7. ASSUME NEW any \in 1..MaxRuns, any # token,
             (\E entry \in history' : entry.token = any) <=>
               (\E entry \in history : entry.token = any)
      PROVE  Fate(any)' = Fate(any)
  BY <1>2, <1>7 DEF Fate, Out
<1>8. CASE Asker(token) = {}
  <2>1. history' = history BY <1>8 DEF Returned
  <2>2. Fate(token)' = "dropped" BY <1>1, <1>2, <1>4, <2>1 DEF Fate, Out
  <2>3. Fates' = [Fates EXCEPT ![token] = "dropped"]
    BY <1>1, <1>7, <2>1, <2>2 DEF Fates
  <2>4. Runs!Drop(token) BY <1>5, <1>6, <2>1, <2>3 DEF Runs!Drop, Fates, RanOns
  <2>5. QED BY <1>1, <2>4
<1>9. CASE Asker(token) # {}
  <2>1. PICK t \in Asker(token) :
          history' = history \union {[token |-> token, on |-> Filed(sheets[t].on)]}
    BY <1>9 DEF Returned
  <2>2. t \in DOMAIN sheets /\ sheets[t].token = token
    BY DEF Asker, IInv, TypeOK
  <2>3. Filed(sheets[t].on) = sent[token].on
    BY <1>1, <1>2, <2>2 DEF IInv, RunsWhereItSits, TabsStandOnOpenConnections, Out, Filed
  <2>4. history' = history \union {[token |-> token, on |-> RanOns[token]]}
    BY <1>1, <2>1, <2>3 DEF RanOns
  <2>5. Fate(token)' = "landed"
    <3>1. [token |-> token, on |-> RanOns[token]] \in history' BY <2>4
    <3>2. QED BY <1>1, <1>2, <3>1 DEF Fate, Out
  <2>6. Fates' = [Fates EXCEPT ![token] = "landed"]
    <3>1. \A any : any # token => ((\E entry \in history' : entry.token = any) <=>
                                   (\E entry \in history : entry.token = any))
      BY <2>4
    <3>2. QED BY <1>1, <1>7, <2>5, <3>1 DEF Fates
  <2>7. Runs!Land(token) BY <1>5, <1>6, <2>4, <2>6 DEF Runs!Land, Fates, RanOns
  <2>8. QED BY <1>1, <2>7
<1>10. QED BY <1>8, <1>9

(* As long as no background job falls over, every step of the editor is a  *)
(* step in the life of one statement, or none: it is sent once, to one     *)
(* connection that was open, and its answer is taken once and filed under  *)
(* that connection, or dropped (model.go run, tabs.go returned, history.go *)
(* wroteDown).                                                             *)
THEOREM StatementsLiveOnce ==
  ASSUME ~Panics PROVE Spec => Runs!Init /\ [][Runs!Next]_(Runs!vars)
<1>1. Init => Runs!Init
  <2> SUFFICES ASSUME Init PROVE Runs!Init OBVIOUS
  <2>1. sent = <<>> /\ history = {} BY DEF Init
  <2>2. \A token \in 1..MaxRuns : token > Len(sent) BY <2>1, BoundsAssumption
  <2>3. QED BY <2>1, <2>2 DEF Runs!Init, Fate
<1>2. ASSUME IInv, Tallied, [Next]_vars PROVE Runs!Next \/ UNCHANGED Runs!vars
  <2>1. CASE Quiet
    BY <2>1, QuietStutters DEF Runs!vars, Fates, RanOns
  <2>2. ASSUME NEW on \in DOMAIN links, Sends(on) PROVE Runs!Next
    BY <1>2, <2>2, SendsIsSend DEF Runs!Next
  <2>3. ASSUME NEW token \in 1..Len(sent), Returned(token) PROVE Runs!Next
    BY <1>2, <2>3, ReturnedLands DEF Runs!Next
  <2>4. ASSUME NEW profile, NEW nth, Open(profile, nth) \/ Switched(profile, nth)
                                     \/ Troubled(profile, nth)
        PROVE  Quiet
    BY <2>4 DEF Open, Switched, Troubled, Opening, Quiet, SameQueries
  <2>5. QED BY <1>2, <2>1, <2>2, <2>3, <2>4, StepSpeaks DEF Speaks
<1>3. IInv /\ Tallied /\ [Next]_vars => [Runs!Next]_(Runs!vars) BY <1>2
<1>4. QED BY <1>1, <1>3, AlwaysTallied, PTL DEF Spec
=============================================================================
