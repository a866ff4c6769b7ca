---------------------------- MODULE ChatsProofs ----------------------------
(***************************************************************************)
(* What Chats promises for every number of connections, jobs, turns and    *)
(* stops.  Where a save is answered with its own connection in front, no   *)
(* screen goes on under the id of another conversation; and however jobs   *)
(* overlap, the two tables of the store end up with the same conversations *)
(* unless a job was cut short or crossed another, which the next save that *)
(* runs alone mends.                                                       *)
(*                                                                         *)
(* The inductive invariant says what a job still knows of its screen: the  *)
(* thread it was given is never ahead of it, and as long as they agree so  *)
(* do the conversations.  Whole and Undisturbed say what the jobs under    *)
(* way have still to do to the tables.                                     *)
(***************************************************************************)
EXTENDS Chats, FiniteSetTheorems, WellFoundedInduction, TLAPS

Typed ==
  /\ words \in [Ids -> SUBSET Turns] /\ last \in 0..MaxIds /\ owner \in [Ids -> Nat]
  /\ talks \in [Links -> Talk] /\ front \in Links
  /\ turns \in 0..MaxTurns /\ begun \in Nat
  /\ jobs \in [Slots -> Job \cup {None}]

\* A screen has an id that was given, and where saves are answered in front it was
\* given to its own conversation.
Own(talk) == talk.id # 0 => talk.id =< last /\ (Elsewhere \/ owner[talk.id] = talk.conv)

\* A job is about an id that was given, and a save about one of its conversation;
\* while its thread is the one of its screen its conversation is too.
Owns(job) ==
  /\ job.id =< last
  /\ job.thread =< talks[job.on].thread
  /\ job.thread = talks[job.on].thread => job.conv = talks[job.on].conv
  /\ job.kind = "save" /\ job.id # 0 => Elsewhere \/ owner[job.id] = job.conv
  /\ job.kind = "load" => job.id # 0

IInv ==
  /\ Typed
  /\ \A on \in Links : Own(talks[on])
  /\ \A n \in Slots : jobs[n] # None => Owns(jobs[n])

\* The fields of a job that no step but an insertion changes.
Same(job, was) ==
  /\ job.id = was.id /\ job.thread = was.thread /\ job.on = was.on
  /\ job.conv = was.conv /\ job.kind = was.kind

(* A slot that is taken holds a job.                                       *)
LEMMA SlotIsJob ==
  ASSUME Typed, NEW n \in Slots, jobs[n] # None
  PROVE  jobs[n] \in Job
BY DEF Typed

LEMMA JobIsSome == \A job \in Job : job # None
<1>1. \A job \in Job : job.kind # "none" BY DEF Job
<1>2. QED BY <1>1 DEF None

(* A screen on which nothing was said.                                     *)
LEMMA BlankIsTalk == \A conv \in Nat : Blank(conv) \in Talk /\ Blank(conv).id = 0
BY BoundsAssumption DEF Blank, Talk

(* The invariant holds at the start.                                       *)
LEMMA InitIInv == Init => IInv
<1> SUFFICES ASSUME Init PROVE IInv OBVIOUS
<1>1. \A on \in Links : on \in Nat BY ConnectionsAssumption DEF Links
<1>2. talks \in [Links -> Talk] /\ \A on \in Links : talks[on].id = 0
  BY <1>1, BlankIsTalk DEF Init
<1>3. front \in Links BY ConnectionsAssumption DEF Init, Links
<1>4. Typed
  BY <1>2, <1>3, BoundsAssumption, ConnectionsAssumption DEF Init, Typed
<1>5. \A n \in Slots : jobs[n] = None BY DEF Init
<1>6. QED BY <1>2, <1>4, <1>5 DEF IInv, Own

(* Jobs that only go on, or end, keep it, whatever becomes of the words.   *)
LEMMA GoesOnIInv ==
  ASSUME IInv, words' \in [Ids -> SUBSET Turns],
         jobs' \in [Slots -> Job \cup {None}],
         \A m \in Slots : jobs'[m] # None => jobs[m] # None /\ Same(jobs'[m], jobs[m]),
         UNCHANGED <<last, owner, talks, front, turns, begun>>
  PROVE  IInv'
<1>1. Typed' BY DEF IInv, Typed
<1>2. \A on \in Links : Own(talks[on])' BY DEF IInv, Own
<1>3. \A m \in Slots : jobs'[m] # None => Owns(jobs'[m])
  BY DEF IInv, Owns, Same
<1>4. QED BY <1>1, <1>2, <1>3 DEF IInv, Owns

(* Screens that keep their conversation, or begin another thread, keep it. *)
LEMMA ScreenIInv ==
  ASSUME IInv, jobs' \in [Slots -> Job \cup {None}],
         \A m \in Slots : jobs'[m] # None => Owns(jobs'[m]),
         talks' \in [Links -> Talk], front' \in Links, turns' \in 0..MaxTurns, begun' \in Nat,
         \A on \in Links : Own(talks'[on]),
         \A on \in Links :
           \/ talks'[on].thread = talks[on].thread /\ talks'[on].conv = talks[on].conv
           \/ talks'[on].thread = talks[on].thread + 1,
         UNCHANGED <<words, last, owner>>
  PROVE  IInv'
<1>1. Typed' BY DEF IInv, Typed
<1>2. \A on \in Links : Own(talks[on])' BY DEF Own
<1>3. ASSUME NEW m \in Slots, jobs'[m] # None PROVE Owns(jobs[m])'
  <2> DEFINE job == jobs'[m]
  <2>1. job \in Job /\ Owns(job) BY <1>3
  <2>2. job.on \in Links /\ job.thread \in Nat BY <2>1, BoundsAssumption DEF Job
  <2>3. talks[job.on].thread \in Nat BY <2>2, BoundsAssumption DEF IInv, Typed, Talk
  <2> HIDE DEF job
  <2>4. /\ job.thread =< talks'[job.on].thread
        /\ job.thread = talks'[job.on].thread => job.conv = talks'[job.on].conv
    BY <2>1, <2>2, <2>3 DEF Owns
  <2>5. job = jobs'[m] BY DEF job
  <2>6. QED BY <2>1, <2>4, <2>5 DEF Owns
<1>4. QED BY <1>1, <1>2, <1>3 DEF IInv

(* A job that goes off knows its screen as it is.                          *)
LEMMA StartOwns ==
  ASSUME IInv, NEW kind \in {"save", "load", "remove", "clear"}, NEW on \in Links,
         NEW id \in 0..last, NEW said \in SUBSET Turns, Start(kind, on, id, said),
         kind = "save" => id = talks[on].id, kind = "load" => id # 0
  PROVE  /\ jobs' \in [Slots -> Job \cup {None}]
         /\ \A m \in Slots : jobs'[m] # None => Owns(jobs'[m])
<1> DEFINE alone == \A m \in Slots : ~Busy(m)
           job == [kind |-> kind, step |-> "first", id |-> id, said |-> said,
                   failed |-> FALSE, alone |-> alone,
                   on |-> on, thread |-> talks[on].thread, conv |-> talks[on].conv]
<1>0. talks[on] \in Talk /\ last \in Nat /\ last =< MaxIds
  BY BoundsAssumption DEF IInv, Typed
<1>1. PICK n \in Slots :
        jobs' = [m \in Slots |-> IF m = n THEN job
                   ELSE IF Busy(m) THEN [jobs[m] EXCEPT !.alone = FALSE] ELSE jobs[m]]
  BY DEF Start
<1>2. job \in Job
  <2>1. alone \in BOOLEAN OBVIOUS
  <2> HIDE DEF alone
  <2>2. id \in 0..MaxIds BY <1>0, BoundsAssumption
  <2>3. talks[on].thread \in 0..MaxThreads /\ talks[on].conv \in Nat BY <1>0 DEF Talk
  <2>4. QED BY <2>1, <2>2, <2>3 DEF Job
<1>3. Owns(job)
  <2>1. job.id = id /\ job.on = on /\ job.thread = talks[on].thread
        /\ job.conv = talks[on].conv /\ job.kind = kind
    OBVIOUS
  <2> HIDE DEF job
  <2>2. talks[on].thread \in Nat BY <1>0, BoundsAssumption DEF Talk
  <2>3. Own(talks[on]) BY DEF IInv
  <2>4. QED BY <1>0, <2>1, <2>2, <2>3 DEF Owns, Own
<1> HIDE DEF job
<1>4. ASSUME NEW m \in Slots
      PROVE  jobs'[m] \in Job \cup {None} /\ (jobs'[m] # None => Owns(jobs'[m]))
  <2>1. CASE m = n BY <1>1, <1>2, <1>3, <2>1
  <2>2. CASE m # n /\ ~Busy(m) BY <1>1, <2>2 DEF IInv, Typed
  <2>3. CASE m # n /\ Busy(m)
    <3>1. jobs[m] \in Job /\ Owns(jobs[m]) BY <2>3, SlotIsJob DEF Busy, IInv
    <3> DEFINE r == [jobs[m] EXCEPT !.alone = FALSE]
    <3>2. r \in Job /\ Same(r, jobs[m]) BY <3>1 DEF Job, Same
    <3>3. jobs'[m] = r BY <1>1, <2>3
    <3> HIDE DEF r
    <3>4. Owns(r) BY <3>1, <3>2 DEF Owns, Same
    <3>5. QED BY <3>2, <3>3, <3>4
  <2>4. QED BY <2>1, <2>2, <2>3
<1>5. QED BY <1>1, <1>4

(* Keeping what was said does too, and so does keeping nothing.            *)
LEMMA KeepOwns ==
  ASSUME IInv, NEW on \in Links, NEW said \in SUBSET Turns, Keep(on, said)
  PROVE  /\ jobs' \in [Slots -> Job \cup {None}]
         /\ \A m \in Slots : jobs'[m] # None => Owns(jobs'[m])
<1>1. CASE said = {} BY <1>1 DEF Keep, IInv, Typed
<1>2. CASE said # {}
  <2>1. talks[on].id \in 0..last
    <3>1. talks[on] \in Talk /\ Own(talks[on]) BY DEF IInv, Typed
    <3>2. last \in Nat /\ MaxIds \in Nat BY BoundsAssumption DEF IInv, Typed
    <3>3. QED BY <3>1, <3>2 DEF Own, Talk
  <2>2. Start("save", on, talks[on].id, said) BY <1>2 DEF Keep
  <2>3. QED BY <2>1, <2>2, StartOwns
<1>3. QED BY <1>1, <1>2

(* An id is given to the conversation it was inserted for, and the ones    *)
(* given before stay where they are.                                       *)
LEMMA WriteIInv == ASSUME IInv, NEW n \in Slots, Write(n) PROVE IInv'
<1> DEFINE job == jobs[n]
           id == IF job.id = 0 THEN last + 1 ELSE job.id
           step == IF Limit = 0 THEN "answer" ELSE "second"
           r == [job EXCEPT !.id = id, !.step = step]
<1>0. last \in Nat /\ MaxIds \in Nat BY BoundsAssumption DEF IInv, Typed
<1>1. job \in Job /\ Owns(job) /\ job.kind = "save" BY SlotIsJob DEF Write, At, IInv
<1>2. job.id \in Nat /\ job.conv \in Nat /\ job.said \in SUBSET Turns
  BY <1>0, <1>1 DEF Job
<1>3. /\ id \in Ids /\ words' = [words EXCEPT ![id] = job.said]
      /\ jobs' = [jobs EXCEPT ![n] = r] /\ UNCHANGED screens
  BY DEF Write
<1>4. /\ job.id = 0 => last' = id /\ owner' = [owner EXCEPT ![id] = job.conv]
      /\ job.id # 0 => last' = last /\ owner' = owner
  BY DEF Write, Insert
<1>5. id \in Nat /\ id # 0 /\ (job.id = 0 => id = last + 1) /\ (job.id # 0 => id = job.id)
  BY <1>0, <1>2
<1>6. id \in 0..MaxIds /\ step \in {"second", "answer"} BY <1>0, <1>3 DEF Ids
<1> HIDE DEF id, step
<1>7. r \in Job /\ r.id = id /\ r.thread = job.thread /\ r.on = job.on
      /\ r.conv = job.conv /\ r.kind = "save"
  BY <1>1, <1>6 DEF Job
<1> HIDE DEF r
<1>8. last' \in 0..MaxIds /\ last =< last' /\ id =< last' /\ owner' \in [Ids -> Nat]
  <2>1. CASE job.id = 0
    <3>1. id \in Ids /\ id = last + 1 /\ last' = id BY <1>3, <1>4, <1>5, <2>1
    <3>2. owner' \in [Ids -> Nat] BY <1>2, <1>4, <2>1 DEF IInv, Typed
    <3>3. QED BY <1>0, <3>1, <3>2 DEF Ids
  <2>2. CASE job.id # 0 BY <1>0, <1>1, <1>4, <1>5, <2>2 DEF IInv, Typed, Owns
  <2>3. QED BY <2>1, <2>2
<1>9. \A old \in Ids : old =< last => owner'[old] = owner[old]
  BY <1>0, <1>4, <1>5 DEF IInv, Typed
<1>10. Elsewhere \/ owner'[id] = job.conv
  BY <1>1, <1>3, <1>4, <1>5 DEF IInv, Typed, Owns
<1>11. Typed' BY <1>1, <1>2, <1>3, <1>7, <1>8 DEF IInv, Typed, screens
<1>12. ASSUME NEW on \in Links PROVE Own(talks[on])'
  <2>1. Own(talks[on]) /\ talks[on].id \in 0..MaxIds /\ talks' = talks
    BY <1>3 DEF IInv, Typed, Talk, screens
  <2>2. QED BY <1>0, <1>8, <1>9, <2>1 DEF Own, Ids
<1>13. ASSUME NEW m \in Slots, jobs'[m] # None PROVE Owns(jobs[m])'
  <2>0. talks' = talks BY <1>3 DEF screens
  <2>1. CASE m = n
    <3>1. jobs'[m] = r BY <1>3, <2>1 DEF IInv, Typed
    <3>2. QED BY <1>1, <1>7, <1>8, <1>10, <2>0, <3>1 DEF Owns
  <2>2. CASE m # n
    <3>1. jobs'[m] = jobs[m] BY <1>3, <2>2 DEF IInv, Typed
    <3>2. jobs[m] \in Job /\ Owns(jobs[m]) BY <1>13, <3>1, SlotIsJob DEF IInv
    <3>3. jobs[m].id \in 0..MaxIds BY <3>2 DEF Job
    <3>4. QED BY <1>0, <1>8, <1>9, <2>0, <3>1, <3>2, <3>3 DEF Owns, Ids
  <2>3. QED BY <2>1, <2>2
<1>14. QED BY <1>11, <1>12, <1>13 DEF IInv

(* The other statements of a job, and a deadline, only move it on.         *)
LEMMA StatementIInv ==
  ASSUME IInv, NEW n \in Slots,
         \/ TrimWords(n) \/ TrimRows(n) \/ TakeWords(n) \/ TakeRows(n)
         \/ ReadRow(n) \/ ReadWords(n) \/ Cut(n)
  PROVE  IInv'
<1>0. jobs[n] # None
  BY DEF TrimWords, TrimRows, TakeWords, TakeRows, ReadRow, ReadWords, Cut, At, Busy
<1>1. jobs[n] \in Job /\ Owns(jobs[n]) BY <1>0, SlotIsJob DEF IInv
<1>2. jobs[n].id \in Ids \/ ~ReadWords(n)
  BY <1>1, BoundsAssumption DEF ReadWords, At, Job, Owns, Ids
<1>3. words' \in [Ids -> SUBSET Turns]
  BY DEF IInv, Typed, TrimWords, TrimRows, TakeWords, TakeRows, ReadRow, ReadWords, Cut,
         KeptWords, tables
<1>4. UNCHANGED <<last, owner, talks, front, turns, begun>>
  BY DEF TrimWords, TrimRows, TakeWords, TakeRows, ReadRow, ReadWords, Cut, screens, tables
<1>5. \E r \in Job : Same(r, jobs[n]) /\ jobs' = [jobs EXCEPT ![n] = r]
  <2>1. CASE \E step \in {"second", "third", "answer"} : To(n, step)
    <3> PICK step \in {"second", "third", "answer"} : To(n, step) BY <2>1
    <3>1. [jobs[n] EXCEPT !.step = step] \in Job BY <1>1 DEF Job
    <3>2. Same([jobs[n] EXCEPT !.step = step], jobs[n]) BY <1>1 DEF Job, Same
    <3>3. QED BY <3>1, <3>2 DEF To
  <2>2. CASE ReadRow(n)
    <3> DEFINE none == updated[jobs[n].id] = 0
               r == [jobs[n] EXCEPT !.step = IF none THEN "answer" ELSE "second",
                                    !.failed = none]
    <3>1. none \in BOOLEAN OBVIOUS
    <3>2. jobs' = [jobs EXCEPT ![n] = r] BY <2>2 DEF ReadRow
    <3> HIDE DEF none
    <3>3. r \in Job /\ Same(r, jobs[n]) BY <1>1, <3>1 DEF Job, Same
    <3>4. QED BY <3>2, <3>3
  <2>3. CASE ReadWords(n)
    <3> DEFINE r == [jobs[n] EXCEPT !.step = "answer", !.said = words[jobs[n].id]]
    <3>1. words[jobs[n].id] \in SUBSET Turns BY <1>2, <2>3 DEF IInv, Typed
    <3>2. r \in Job /\ Same(r, jobs[n]) BY <1>1, <3>1 DEF Job, Same
    <3>3. jobs' = [jobs EXCEPT ![n] = r] BY <2>3 DEF ReadWords
    <3>4. QED BY <3>2, <3>3
  <2>4. CASE Cut(n)
    <3> DEFINE r == [jobs[n] EXCEPT !.step = "answer", !.failed = TRUE]
    <3>1. r \in Job /\ Same(r, jobs[n]) BY <1>1 DEF Job, Same
    <3>2. jobs' = [jobs EXCEPT ![n] = r] BY <2>4 DEF Cut
    <3>3. QED BY <3>1, <3>2
  <2>5. QED BY <2>1, <2>2, <2>3, <2>4 DEF TrimWords, TrimRows, TakeWords, TakeRows
<1>6. PICK r \in Job : Same(r, jobs[n]) /\ jobs' = [jobs EXCEPT ![n] = r] BY <1>5
<1>7. jobs' \in [Slots -> Job \cup {None}] BY <1>6 DEF IInv, Typed
<1>8. \A m \in Slots : jobs'[m] = IF m = n THEN r ELSE jobs[m] BY <1>6 DEF IInv, Typed
<1>9. \A m \in Slots : jobs'[m] # None => jobs[m] # None /\ Same(jobs'[m], jobs[m])
  BY <1>0, <1>6, <1>8 DEF Same
<1>10. QED BY <1>3, <1>4, <1>7, <1>9, GoesOnIInv

(* A job whose answer has landed is gone, and the others are as they were. *)
LEMMA EndOwns ==
  ASSUME IInv, NEW n \in Slots, End(n)
  PROVE  /\ jobs' \in [Slots -> Job \cup {None}]
         /\ \A m \in Slots : jobs'[m] # None => Owns(jobs'[m])
BY DEF End, IInv, Typed

(* A save that is answered gives its id to the conversation it was of when *)
(* its connection is in front, or to none.                                 *)
LEMMA AnswersIInv ==
  ASSUME IInv, NEW n \in Slots, WasKept(n) \/ OpenedChat(n) \/ Forgotten(n)
  PROVE  IInv'
<1>0. jobs[n] \in Job /\ Owns(jobs[n]) /\ talks[front] \in Talk /\ front \in Links
      /\ Own(talks[front])
  <2>1. jobs[n] # None BY DEF WasKept, OpenedChat, Forgotten, At
  <2>2. QED BY <2>1, SlotIsJob DEF IInv, Typed
<1>1. /\ jobs' \in [Slots -> Job \cup {None}]
      /\ \A m \in Slots : jobs'[m] # None => Owns(jobs'[m])
  BY EndOwns DEF WasKept, OpenedChat, Forgotten
<1>2. CASE talks' = talks
  <2>1. /\ talks' \in [Links -> Talk] /\ \A on \in Links : Own(talks'[on])
        /\ front' \in Links /\ turns' \in 0..MaxTurns /\ begun' \in Nat
        /\ UNCHANGED <<words, last, owner>>
    BY <1>2 DEF IInv, Typed, WasKept, OpenedChat, Forgotten, tables
  <2>2. QED BY <1>1, <1>2, <2>1, ScreenIInv
<1>3. ASSUME NEW talk \in Talk, talks' = [talks EXCEPT ![front] = talk], Own(talk),
             \/ talk.thread = talks[front].thread /\ talk.conv = talks[front].conv
             \/ talk.thread = talks[front].thread + 1
      PROVE  IInv'
  <2>1. \A on \in Links : talks'[on] = IF on = front THEN talk ELSE talks[on]
    BY <1>3 DEF IInv, Typed
  <2>2. talks' \in [Links -> Talk] BY <1>3 DEF IInv, Typed
  <2>3. \A on \in Links : Own(talks'[on]) BY <1>3, <2>1 DEF IInv
  <2>4. /\ front' \in Links /\ turns' \in 0..MaxTurns /\ begun' \in Nat
        /\ UNCHANGED <<words, last, owner>>
    BY DEF IInv, Typed, WasKept, OpenedChat, Forgotten, tables
  <2>5. QED BY <1>1, <1>3, <2>1, <2>2, <2>3, <2>4, ScreenIInv
<1>4. CASE WasKept(n) /\ Takes(jobs[n])
  <2> DEFINE talk == [talks[front] EXCEPT !.id = jobs[n].id]
  <2>1. /\ Elsewhere \/ jobs[n].on = front
        /\ jobs[n].kind = "save" /\ talks' = [talks EXCEPT ![front] = talk]
    BY <1>4 DEF WasKept, At
  <2>2. talk \in Talk /\ talk.id = jobs[n].id /\ talk.thread = talks[front].thread
        /\ talk.conv = talks[front].conv
    BY <1>0 DEF Talk, Job
  <2>3. Own(talk)
    <3>1. Elsewhere \/ jobs[n].conv = talks[front].conv BY <1>0, <1>4, <2>1 DEF Takes, Owns
    <3> HIDE DEF talk
    <3>2. QED BY <1>0, <2>1, <2>2, <3>1 DEF Own, Owns
  <2> HIDE DEF talk
  <2>4. QED BY <1>3, <2>1, <2>2, <2>3
<1>5. CASE OpenedChat(n) /\ ~jobs[n].failed
  <2> DEFINE shown == jobs[n].said # {}
             said == IF talks[front].held THEN jobs[n].said ELSE {}
             talk == [talks[front] EXCEPT !.id = jobs[n].id, !.thread = @ + 1,
                        !.shown = shown, !.said = said, !.conv = owner[jobs[n].id]]
  <2>1. talks' = [talks EXCEPT ![front] = talk] /\ talks[front].thread < MaxThreads
    BY <1>5 DEF OpenedChat
  <2>2. jobs[n].id \in Ids /\ jobs[n].id =< last
    BY <1>0, <1>5, BoundsAssumption DEF OpenedChat, At, Owns, Job, Ids
  <2>3. owner[jobs[n].id] \in Nat BY <2>2 DEF IInv, Typed
  <2>4. shown \in BOOLEAN /\ said \in SUBSET Turns BY <1>0 DEF Job
  <2>5. talks[front].thread + 1 \in 0..MaxThreads BY <1>0, <2>1, BoundsAssumption DEF Talk
  <2>6. jobs[n].id \in 0..MaxIds BY <1>0 DEF Job
  <2> HIDE DEF shown, said
  <2>7. talk \in Talk BY <1>0, <2>3, <2>4, <2>5, <2>6 DEF Talk
  <2>8. talk.id = jobs[n].id /\ talk.thread = talks[front].thread + 1
        /\ talk.conv = owner[jobs[n].id]
    BY <1>0 DEF Talk
  <2> HIDE DEF talk
  <2>9. Own(talk) BY <2>2, <2>8 DEF Own
  <2>10. QED BY <1>3, <2>1, <2>7, <2>8, <2>9
<1>6. CASE Forgotten(n)
  <2>1. CASE jobs[n].kind = "clear" /\ ~jobs[n].failed
    <3> DEFINE talk == [talks[front] EXCEPT !.id = 0]
    <3>1. talks' = [talks EXCEPT ![front] = talk] BY <1>6, <2>1 DEF Forgotten
    <3>2. talk \in Talk /\ talk.id = 0 /\ talk.thread = talks[front].thread
          /\ talk.conv = talks[front].conv
      BY <1>0, BoundsAssumption DEF Talk
    <3> HIDE DEF talk
    <3>3. QED BY <1>3, <3>1, <3>2 DEF Own
  <2>2. QED BY <1>2, <1>6, <2>1 DEF Forgotten
<1>7. QED BY <1>2, <1>4, <1>5, <1>6 DEF WasKept, OpenedChat

(* What the screen does by itself keeps it.                                *)
LEMMA KeysIInv ==
  ASSUME IInv, \/ \E on \in Links : Finished(on)
               \/ StartChat
               \/ \E id \in Ids : OpenChat(id) \/ ForgetChat(id)
               \/ ForgetChats
  PROVE  IInv'
<1>0. /\ last \in Nat /\ talks \in [Links -> Talk] /\ front \in Links
      /\ turns \in 0..MaxTurns /\ begun \in Nat
      /\ \A on \in Links : Own(talks[on])
  BY BoundsAssumption DEF IInv, Typed
<1>1. CASE \E on \in Links : Finished(on)
  <2> PICK on \in Links : Finished(on) BY <1>1
  <2> DEFINE said == talks[on].said \cup {turns + 1}
             talk == [talks[on] EXCEPT !.said = said, !.held = TRUE, !.shown = TRUE]
             gone == [talks[on] EXCEPT !.shown = TRUE]
  <2>1. talks[on] \in Talk BY <1>0
  <2>2. turns' = turns + 1 /\ turns' \in 0..MaxTurns /\ turns + 1 \in Turns
    <3>1. MaxTurns \in Nat /\ turns < MaxTurns /\ turns' = turns + 1
      BY BoundsAssumption DEF Finished
    <3>2. QED BY <1>0, <3>1 DEF Turns
  <2>3. said \in SUBSET Turns BY <2>1, <2>2 DEF Talk
  <2>4. PICK now \in {talk, gone} : talks' = [talks EXCEPT ![on] = now]
    BY DEF Finished
  <2>5. Keep(on, said) \/ Keep(on, {}) BY DEF Finished
  <2> HIDE DEF said
  <2>6. now \in Talk /\ now.id = talks[on].id /\ now.thread = talks[on].thread
        /\ now.conv = talks[on].conv
    BY <2>1, <2>3, <2>4 DEF Talk
  <2> HIDE DEF talk, gone
  <2>7. \A x \in Links : talks'[x] = IF x = on THEN now ELSE talks[x] BY <1>0, <2>4
  <2>8. talks' \in [Links -> Talk] /\ \A x \in Links : Own(talks'[x])
    BY <1>0, <2>4, <2>6, <2>7 DEF Own
  <2>9. /\ jobs' \in [Slots -> Job \cup {None}]
        /\ \A m \in Slots : jobs'[m] # None => Owns(jobs'[m])
    BY <2>3, <2>5, KeepOwns
  <2>10. UNCHANGED <<words, last, owner, front, begun>> BY DEF Finished, tables
  <2>11. QED BY <1>0, <2>2, <2>6, <2>7, <2>8, <2>9, <2>10, ScreenIInv
<1>2. CASE StartChat
  <2> DEFINE thread == talks[front].thread + 1
             conv == begun + 1
             talk == [talks[front] EXCEPT !.id = 0, !.thread = thread, !.said = {},
                        !.shown = FALSE, !.conv = conv]
  <2>1. talks[front] \in Talk /\ talks[front].thread < MaxThreads BY <1>0, <1>2 DEF StartChat
  <2>2. talks' = [talks EXCEPT ![front] = talk] BY <1>2 DEF StartChat
  <2>3. thread \in 0..MaxThreads /\ conv \in Nat
    BY <1>0, <2>1, BoundsAssumption DEF Talk
  <2>4. 0 \in 0..MaxIds BY BoundsAssumption
  <2> HIDE DEF thread, conv
  <2>5. talk \in Talk /\ talk.id = 0 /\ talk.thread = thread
    BY <2>1, <2>3, <2>4 DEF Talk
  <2> HIDE DEF talk
  <2>6. \A x \in Links : talks'[x] = IF x = front THEN talk ELSE talks[x] BY <1>0, <2>2
  <2>7. talks' \in [Links -> Talk] /\ \A x \in Links : Own(talks'[x])
    BY <1>0, <2>2, <2>5, <2>6 DEF Own
  <2>8. /\ jobs' \in [Slots -> Job \cup {None}]
        /\ \A m \in Slots : jobs'[m] # None => Owns(jobs'[m])
    BY <1>0, <1>2, <2>1, KeepOwns DEF StartChat, Talk
  <2>9. begun' = begun + 1 /\ UNCHANGED <<words, last, owner, front, turns>>
    BY <1>2 DEF StartChat, tables
  <2>10. \A x \in Links :
          \/ talks'[x].thread = talks[x].thread /\ talks'[x].conv = talks[x].conv
          \/ talks'[x].thread = talks[x].thread + 1
    BY <2>5, <2>6 DEF thread
  <2>11. begun' \in Nat BY <2>3, <2>9 DEF conv
  <2>12. QED BY <1>0, <2>7, <2>8, <2>9, <2>10, <2>11, ScreenIInv
<1>3. CASE \E id \in Ids : OpenChat(id)
  <2> PICK id \in Ids : OpenChat(id) BY <1>3
  <2>1. id \in 0..last /\ id # 0 BY <1>0, BoundsAssumption DEF OpenChat, Ids
  <2>2. Start("load", front, id, {}) BY DEF OpenChat
  <2>3. /\ jobs' \in [Slots -> Job \cup {None}]
        /\ \A m \in Slots : jobs'[m] # None => Owns(jobs'[m])
    BY <1>0, <2>1, <2>2, StartOwns
  <2>4. UNCHANGED <<words, last, owner, talks, front, turns, begun>> BY DEF OpenChat, tables
  <2>5. QED BY <1>0, <2>3, <2>4, ScreenIInv
<1>4. CASE \E id \in Ids : ForgetChat(id)
  <2> PICK id \in Ids : ForgetChat(id) BY <1>4
  <2> DEFINE talk == IF talks[front].id = id THEN [talks[front] EXCEPT !.id = 0]
                     ELSE talks[front]
  <2>1. id \in 0..last BY <1>0, BoundsAssumption DEF ForgetChat, Ids
  <2>2. Start("remove", front, id, {}) BY DEF ForgetChat
  <2>3. /\ jobs' \in [Slots -> Job \cup {None}]
        /\ \A m \in Slots : jobs'[m] # None => Owns(jobs'[m])
    BY <1>0, <2>1, <2>2, StartOwns
  <2>4. \A x \in Links : talks'[x] = IF x = front THEN talk ELSE talks[x]
    BY <1>0 DEF ForgetChat
  <2>5. talks' \in [Links -> Talk]
    <3>1. [talks[front] EXCEPT !.id = 0] \in Talk BY <1>0, BoundsAssumption DEF Talk
    <3>2. QED BY <1>0, <3>1 DEF ForgetChat
  <2>6. Own(talk) /\ talk.thread = talks[front].thread /\ talk.conv = talks[front].conv
    BY <1>0 DEF Own, Talk
  <2> HIDE DEF talk
  <2>7. UNCHANGED <<words, last, owner, front, turns, begun>> BY DEF ForgetChat, tables
  <2>8. QED BY <1>0, <2>3, <2>4, <2>5, <2>6, <2>7, ScreenIInv
<1>5. CASE ForgetChats
  <2>1. Start("clear", front, 0, {}) /\ 0 \in 0..last BY <1>0, <1>5 DEF ForgetChats
  <2>2. /\ jobs' \in [Slots -> Job \cup {None}]
        /\ \A m \in Slots : jobs'[m] # None => Owns(jobs'[m])
    BY <1>0, <2>1, StartOwns
  <2>3. UNCHANGED <<words, last, owner, talks, front, turns, begun>>
    BY <1>5 DEF ForgetChats, tables
  <2>4. QED BY <1>0, <2>2, <2>3, ScreenIInv
<1>6. QED BY <1>1, <1>2, <1>3, <1>4, <1>5

(* Letting a model go, looking at another connection and starting again    *)
(* give no id to anything.                                                 *)
LEMMA AroundIInv == IInv /\ (Released \/ Switch \/ Restart) => IInv'
<1> SUFFICES ASSUME IInv, Released \/ Switch \/ Restart PROVE IInv' OBVIOUS
<1>0. /\ talks \in [Links -> Talk] /\ front \in Links
      /\ turns \in 0..MaxTurns /\ begun \in Nat
      /\ jobs \in [Slots -> Job \cup {None}]
      /\ \A on \in Links : Own(talks[on])
      /\ \A m \in Slots : jobs[m] # None => Owns(jobs[m])
  BY DEF IInv, Typed
<1>1. CASE Released
  <2> PICK gone \in {{front}, Links} :
        talks' = [on \in Links |-> IF on \in gone
                    THEN [talks[on] EXCEPT !.held = FALSE, !.said = {}] ELSE talks[on]]
    BY <1>1 DEF Released
  <2>1. ASSUME NEW on \in Links
        PROVE  /\ talks'[on] \in Talk /\ talks'[on].thread = talks[on].thread
               /\ talks'[on].conv = talks[on].conv /\ talks'[on].id = talks[on].id
    BY <1>0 DEF Talk
  <2>2. talks' \in [Links -> Talk] BY <2>1
  <2>3. ASSUME NEW on \in Links PROVE Own(talks'[on])
    <3>1. Own(talks[on]) BY <1>0
    <3>2. QED BY <2>1, <3>1 DEF Own
  <2>4. UNCHANGED <<words, last, owner, front, turns, begun, jobs>>
    BY <1>1 DEF Released, tables
  <2>5. QED BY <1>0, <2>1, <2>2, <2>3, <2>4, ScreenIInv
<1>2. CASE Switch BY <1>0, <1>2, ScreenIInv DEF Switch, tables
<1>3. CASE Restart
  <2>1. /\ talks' = [on \in Links |-> Blank(begun + on)] /\ begun' = begun + Connections
        /\ jobs' = [n \in Slots |-> None]
        /\ UNCHANGED <<words, last, owner, front, turns>>
    BY <1>3 DEF Restart, tables
  <2>2. begun' \in Nat /\ \A on \in Links : begun + on \in Nat
    BY <1>0, <2>1, ConnectionsAssumption DEF Links
  <2>3. talks' \in [Links -> Talk] /\ \A on \in Links : talks'[on].id = 0
    BY <2>1, <2>2, BlankIsTalk
  <2>4. Typed' BY <1>0, <2>1, <2>2, <2>3 DEF IInv, Typed
  <2>5. \A n \in Slots : jobs'[n] = None BY <2>1
  <2>6. QED BY <2>3, <2>4, <2>5 DEF IInv, Own
<1>4. QED BY <1>1, <1>2, <1>3

(* Every step keeps it.                                                    *)
LEMMA StepIInv == IInv /\ [Next]_vars => IInv'
<1> SUFFICES ASSUME IInv, [Next]_vars PROVE IInv' OBVIOUS
<1>1. ASSUME NEW n \in Slots, Step(n) PROVE IInv'
  BY <1>1, WriteIInv, StatementIInv, AnswersIInv DEF Step
<1>2. CASE UNCHANGED vars
  <2>1. /\ words' \in [Ids -> SUBSET Turns] /\ jobs' \in [Slots -> Job \cup {None}]
        /\ UNCHANGED <<last, owner, talks, front, turns, begun>>
    BY <1>2 DEF vars, tables, screens, IInv, Typed
  <2>2. \A m \in Slots : jobs'[m] # None => jobs[m] # None /\ Same(jobs'[m], jobs[m])
    BY <1>2 DEF vars, Same
  <2>3. QED BY <2>1, <2>2, GoesOnIInv
<1>3. QED BY <1>1, <1>2, KeysIInv, AroundIInv DEF Next

(* A screen goes on only under the id of its own conversation, whatever    *)
(* saves, openings, removals, deadlines and restarts overlap, provided a   *)
(* save is answered with its own connection in front (ask.go keptMsg).     *)
THEOREM IdsAreTheirOwnHolds == ASSUME ~Elsewhere PROVE Spec => []IdsAreTheirOwn
<1>1. ASSUME IInv PROVE IdsAreTheirOwn BY <1>1 DEF IInv, Own, IdsAreTheirOwn
<1>2. IInv /\ [Next]_vars => IInv' BY StepIInv
<1>3. QED BY <1>1, <1>2, InitIInv, PTL DEF Spec

-----------------------------------------------------------------------------
(* The two tables. *)

\* No row was saved later than the clock.
Stored ==
  /\ updated \in [Ids -> Nat] /\ clock \in Nat /\ cuts \in Nat
  /\ \A id \in Ids : updated[id] =< clock

Saving(n) == Busy(n) /\ jobs[n].kind = "save"

Taking(n) == Busy(n) /\ TakesAway(jobs[n].kind)

\* A removal that took what was said and not yet the rows.
Emptying(n) == At(n, "remove", "second") \/ At(n, "clear", "second")

Apart == \A n, m \in Slots : ~(Saving(n) /\ Taking(m))

\* What is kept of a conversation past the limit, or of one that is not listed,
\* is about to be taken by a save; a conversation listed of which nothing is
\* kept by a save or by the removal it is about.
Extra(id) == words[id] # {} /\ id \notin Newest => \E n \in Slots : At(n, "save", "second")

Lacking(id) ==
  id \in Listed /\ words[id] = {} =>
    \/ id \notin Newest /\ \E n \in Slots : At(n, "save", "third")
    \/ \E n \in Slots : Emptying(n) /\ id \in Doomed(n)

Matched ==
  /\ Apart
  /\ \A n \in Slots : At(n, "save", "first") => jobs[n].said # {}
  /\ \A n \in Slots : Emptying(n) => \A id \in Doomed(n) \cap Ids : words[id] = {}
  /\ \A id \in Ids : Extra(id) /\ Lacking(id)

Whole == cuts = 0 /\ ~crossed => Matched

\* A save alone is alone, and when it has taken the words past the limit no
\* others are left there.
Undisturbed ==
  \A n \in Slots : Busy(n) /\ jobs[n].alone =>
    /\ \A m \in Slots : Busy(m) => m = n
    /\ At(n, "save", "third") => \A id \in Ids : words[id] # {} => id \in Newest

(* A statement ages no row past the clock.                                 *)
LEMMA InitStored == Init => Stored
<1> SUFFICES ASSUME Init PROVE Stored OBVIOUS
<1>1. updated = [id \in Ids |-> 0] BY DEF Init
<1>2. clock = 0 /\ cuts = 0 BY DEF Init
<1>3. updated \in [Ids -> Nat] /\ \A id \in Ids : updated[id] = 0 BY <1>1
<1>4. QED BY <1>2, <1>3 DEF Stored

LEMMA StoredStep == IInv /\ Stored /\ [Next]_vars => Stored'
<1> SUFFICES ASSUME IInv, Stored, [Next]_vars PROVE Stored' OBVIOUS
<1>0. /\ updated \in [Ids -> Nat] /\ clock \in Nat /\ cuts \in Nat
      /\ \A id \in Ids : updated[id] =< clock
  BY DEF Stored
<1>1. CASE \E n \in Slots : Write(n)
  <2> PICK n \in Slots : Write(n) BY <1>1
  <2> DEFINE id == IF jobs[n].id = 0 THEN last + 1 ELSE jobs[n].id
  <2>1. id \in Ids /\ cuts' = cuts BY DEF Write
  <2>2. PICK now \in 1..(clock + 1) :
          /\ clock' = IF now > clock THEN now ELSE clock
          /\ \/ updated' = [updated EXCEPT ![id] = now]
             \/ updated' = [updated EXCEPT ![id] = IF updated[id] = 0 THEN 0 ELSE now]
    BY DEF Write, Times, Insert, Row
  <2> HIDE DEF id
  <2>3. QED BY <1>0, <2>1, <2>2 DEF Stored
<1>2. CASE \E n \in Slots : TrimRows(n) \/ TakeRows(n)
  BY <1>0, <1>2 DEF TrimRows, TakeRows, KeptRows, Stored
<1>3. CASE UNCHANGED <<updated, clock>> /\ cuts' \in {cuts, cuts + 1}
  BY <1>0, <1>3 DEF Stored
<1>4. QED
  BY <1>1, <1>2, <1>3
  DEF Next, Step, TrimWords, TakeWords, ReadRow, ReadWords, Cut, WasKept, OpenedChat,
      Forgotten, Finished, OpenChat, ForgetChat, StartChat, ForgetChats, Released, Switch,
      Restart, tables, vars

(* Fewer rows, or the same, are no more; how many is a number.             *)
LEMMA CountIds ==
  ASSUME NEW S, S \subseteq Ids, NEW T, T \subseteq S
  PROVE  Cardinality(S) \in Nat /\ Cardinality(T) \in Nat /\ Cardinality(T) =< Cardinality(S)
<1>1. IsFiniteSet(Ids) BY BoundsAssumption, FS_Interval DEF Ids
<1>2. IsFiniteSet(S) BY <1>1, FS_Subset
<1>3. QED BY <1>2, FS_Subset, FS_CardinalityType

LEMMA NewestAreListed == Newest \subseteq Listed
BY DEF Newest

LEMMA SameNewest == UNCHANGED updated => UNCHANGED <<Listed, Newest>>
BY DEF Listed, Newest, Newer

(* Taking rows away leaves those within the limit that stay within it.     *)
LEMMA FewerRows ==
  ASSUME Stored, NEW S, updated' = [id \in Ids |-> IF id \in S THEN updated[id] ELSE 0]
  PROVE  Listed' = Listed \cap S /\ Newest \cap S \subseteq Newest'
<1>1. Listed' = Listed \cap S BY DEF Listed
<1>2. \A id \in Listed \cap S : updated'[id] = updated[id] BY DEF Listed
<1>3. ASSUME NEW id \in Newest \cap S PROVE id \in Newest'
  <2>1. id \in Listed \cap S BY DEF Newest
  <2>2. Newer(id)' \subseteq Newer(id) BY <1>1, <1>2, <2>1 DEF Newer
  <2>3. Newer(id) \subseteq Ids BY DEF Newer, Listed
  <2>4. Cardinality(Newer(id)') =< Cardinality(Newer(id)) BY <2>2, <2>3, CountIds
  <2>5. Cardinality(Newer(id)') \in Nat /\ Cardinality(Newer(id)) \in Nat
    BY <2>2, <2>3, CountIds
  <2>6. Cardinality(Newer(id)) < Limit /\ Limit \in Nat BY BoundsAssumption DEF Newest
  <2>7. Cardinality(Newer(id)') < Limit BY <2>4, <2>5, <2>6
  <2>8. QED BY <1>1, <2>1, <2>7 DEF Newest
<1>4. QED BY <1>1, <1>3

(* Another row that is saved, and no older for it, brings no one back within *)
(* the limit.                                                              *)
LEMMA RowInFront ==
  ASSUME Stored, NEW id \in Ids, updated'[id] \in Nat, updated'[id] >= updated[id],
         \A other \in Ids \ {id} : updated'[other] = updated[other],
         NEW o \in Listed \ Newest, o # id
  PROVE  o \notin Newest'
<1>1. /\ updated \in [Ids -> Nat] /\ clock \in Nat /\ o \in Ids
      /\ \A other \in Ids : updated[other] =< clock
  BY DEF Stored, Listed
<1>2. \A other \in Newer(o) : other \in Listed' BY <1>1 DEF Newer, Listed
<1>3. ASSUME NEW other \in Newer(o) PROVE other \in Newer(o)'
  <2>1. other \in Ids /\ updated'[o] = updated[o] BY <1>1 DEF Newer, Listed
  <2>2. CASE other # id
    <3>1. updated'[other] = updated[other] BY <2>1, <2>2
    <3>2. QED BY <1>2, <2>1, <3>1 DEF Newer
  <2>3. CASE other = id
    <3>1. updated[other] \in Nat /\ updated[o] \in Nat /\ other \in Nat /\ o \in Nat
      BY <1>1, <2>1 DEF Ids
    <3>2. \/ updated[other] > updated[o]
          \/ updated[other] = updated[o] /\ other > o
      BY DEF Newer
    <3>3. \/ updated'[other] > updated'[o]
          \/ updated'[other] = updated'[o] /\ other > o
      BY <2>1, <2>3, <3>1, <3>2
    <3>4. QED BY <1>2, <3>3 DEF Newer
  <2>4. QED BY <2>2, <2>3
<1>4. Newer(o) \subseteq Newer(o)' /\ Newer(o)' \subseteq Ids BY <1>3 DEF Newer, Listed
<1>5. /\ Cardinality(Newer(o)) =< Cardinality(Newer(o)')
      /\ Cardinality(Newer(o)) \in Nat /\ Cardinality(Newer(o)') \in Nat
  BY <1>4, CountIds
<1>6. ~(Cardinality(Newer(o)) < Limit) BY DEF Newest
<1>7. Limit \in Nat BY BoundsAssumption
<1>8. ~(Cardinality(Newer(o)') < Limit) BY <1>5, <1>6, <1>7
<1>9. QED BY <1>8 DEF Newest

(* Some natural numbers have a least one.                                  *)
LEMMA LeastOf ==
  ASSUME NEW T, T \subseteq Nat, T # {}
  PROVE  \E x \in T : \A y \in T : x =< y
<1> DEFINE less == OpToRel(<, Nat)
<1>1. IsWellFoundedOn(less, Nat) BY NatLessThanWellFounded
<1>2. \A x, y \in Nat : y < x => <<y, x>> \in less BY DEF OpToRel
<1> HIDE DEF less
<1>3. \E x \in T : \A y \in T : ~(<<y, x>> \in less) BY <1>1, WFMin
<1>4. PICK x \in T : \A y \in T : ~(<<y, x>> \in less) BY <1>3
<1>5. \A y \in T : ~(y < x) BY <1>2, <1>4
<1>6. QED BY <1>5

(* No more are within the limit than the limit: before the oldest of them  *)
(* come all the others.                                                    *)
LEMMA FewNewest == ASSUME Stored PROVE Cardinality(Newest) =< Limit
<1>0. /\ updated \in [Ids -> Nat] /\ Newest \subseteq Listed /\ Listed \subseteq Ids
      /\ Ids \subseteq Nat /\ Limit \in Nat
  BY BoundsAssumption DEF Stored, Newest, Listed, Ids
<1>1. CASE Newest = {} BY <1>0, <1>1, FS_EmptySet
<1>2. CASE Newest # {}
  <2> DEFINE ages == {updated[id] : id \in Newest}
  <2>1. ages \subseteq Nat /\ ages # {} BY <1>0, <1>2
  <2>2. PICK age \in ages : \A other \in ages : age =< other
    <3> HIDE DEF ages
    <3>1. QED BY <2>1, LeastOf
  <2> DEFINE olds == {id \in Newest : updated[id] = age}
  <2>3. olds \subseteq Nat /\ olds # {} BY <1>0
  <2>4. PICK o \in olds : \A other \in olds : o =< other
    <3> HIDE DEF olds
    <3>1. QED BY <2>3, LeastOf
  <2>5. o \in Newest /\ o \in Nat /\ updated[o] = age BY <1>0
  <2>6. ASSUME NEW other \in Newest \ {o} PROVE other \in Newer(o)
    <3>1. updated[other] \in Nat /\ age \in Nat /\ age =< updated[other] BY <1>0, <2>2
    <3>2. updated[other] = age => o =< other BY <2>4
    <3>3. other \in Listed /\ other \in Nat /\ other # o BY <1>0
    <3> HIDE DEF ages, olds
    <3>4. QED BY <2>5, <3>1, <3>2, <3>3 DEF Newer
  <2> HIDE DEF ages, olds
  <2>7. Newest \ {o} \subseteq Newer(o) /\ Newer(o) \subseteq Ids
    BY <1>0, <2>6 DEF Newer
  <2>8. Cardinality(Newest \ {o}) =< Cardinality(Newer(o)) /\ Cardinality(Newer(o)) < Limit
    BY <2>5, <2>7, CountIds DEF Newest
  <2>9. Cardinality(Newest) = Cardinality(Newest \ {o}) + 1
    <3>a. 1 \in Int /\ MaxIds \in Int BY BoundsAssumption
    <3>0. IsFiniteSet(Ids) BY <3>a, FS_Interval DEF Ids
    <3>1. IsFiniteSet(Newest)
      <4>1. Newest \subseteq Ids BY <1>0
      <4>2. QED BY <3>0, <4>1, FS_Subset
    <3>2. IsFiniteSet(Newest \ {o}) BY <3>1, FS_Subset
    <3>3. Newest = (Newest \ {o}) \cup {o} BY <2>5
    <3>4. Cardinality((Newest \ {o}) \cup {o}) = Cardinality(Newest \ {o}) + 1
      BY <3>2, FS_AddElement
    <3>5. QED BY <3>3, <3>4
  <2>10. Cardinality(Newest \ {o}) \in Nat /\ Cardinality(Newer(o)) \in Nat
    BY <1>0, <2>7, CountIds
  <2>11. QED BY <1>0, <2>8, <2>9, <2>10
<1>3. QED BY <1>1, <1>2

\* One job goes on, of its kind and as alone as it was.
OneJob(n) ==
  /\ jobs[n] # None /\ jobs'[n] # None
  /\ jobs'[n].kind = jobs[n].kind /\ jobs'[n].alone = jobs[n].alone
  /\ \A m \in Slots \ {n} : jobs'[m] = jobs[m]

LEMMA BecomesJob ==
  ASSUME IInv, NEW n \in Slots, jobs[n] # None, NEW r, jobs' = [jobs EXCEPT ![n] = r],
         r.kind = jobs[n].kind, r.alone = jobs[n].alone
  PROVE  OneJob(n) /\ jobs'[n] = r
<1>1. jobs[n] \in Job /\ jobs \in [Slots -> Job \cup {None}] BY SlotIsJob DEF IInv, Typed
<1>2. jobs'[n] = r /\ \A m \in Slots \ {n} : jobs'[m] = jobs[m] BY <1>1
<1>3. r # None
  <2>1. None.kind = "none" /\ jobs[n].kind # "none" BY <1>1 DEF None, Job
  <2>2. QED BY <2>1
<1>4. QED BY <1>2, <1>3 DEF OneJob

(* The statements of a job, and its deadline, each by the step it comes to. *)
LEMMA ToJob ==
  ASSUME IInv, NEW n \in Slots, jobs[n] # None, NEW step, To(n, step)
  PROVE  /\ OneJob(n) /\ jobs'[n].step = step
         /\ jobs'[n].id = jobs[n].id /\ jobs'[n].said = jobs[n].said
<1> DEFINE r == [jobs[n] EXCEPT !.step = step]
<1>1. jobs' = [jobs EXCEPT ![n] = r] BY DEF To
<1>2. jobs[n] \in Job BY SlotIsJob DEF IInv
<1>3. r.step = step /\ r.kind = jobs[n].kind /\ r.alone = jobs[n].alone
      /\ r.id = jobs[n].id /\ r.said = jobs[n].said
  BY <1>2 DEF Job
<1> HIDE DEF r
<1>4. QED BY <1>1, <1>3, BecomesJob

LEMMA WriteJob ==
  ASSUME IInv, NEW n \in Slots, Write(n)
  PROVE  OneJob(n) /\ jobs'[n].step = IF Limit = 0 THEN "answer" ELSE "second"
<1> DEFINE id == IF jobs[n].id = 0 THEN last + 1 ELSE jobs[n].id
           step == IF Limit = 0 THEN "answer" ELSE "second"
           r == [jobs[n] EXCEPT !.id = id, !.step = step]
<1>1. jobs' = [jobs EXCEPT ![n] = r] /\ jobs[n] # None BY DEF Write, At
<1>2. jobs[n] \in Job BY <1>1, SlotIsJob DEF IInv
<1> HIDE DEF id
<1>3. r.step = step /\ r.kind = jobs[n].kind /\ r.alone = jobs[n].alone BY <1>2 DEF Job
<1> HIDE DEF r
<1>4. QED BY <1>1, <1>3, BecomesJob

LEMMA ReadJob ==
  ASSUME IInv, NEW n \in Slots, ReadRow(n) \/ ReadWords(n)
  PROVE  OneJob(n) /\ jobs[n].kind = "load"
<1>1. jobs[n] # None /\ jobs[n].kind = "load" BY DEF ReadRow, ReadWords, At
<1>2. jobs[n] \in Job BY <1>1, SlotIsJob DEF IInv
<1>3. CASE ReadRow(n)
  <2> DEFINE none == updated[jobs[n].id] = 0
             step == IF none THEN "answer" ELSE "second"
             r == [jobs[n] EXCEPT !.step = step, !.failed = none]
  <2>1. jobs' = [jobs EXCEPT ![n] = r] BY <1>3 DEF ReadRow
  <2> HIDE DEF none, step
  <2>2. r.kind = jobs[n].kind /\ r.alone = jobs[n].alone BY <1>2 DEF Job
  <2> HIDE DEF r
  <2>3. QED BY <1>1, <2>1, <2>2, BecomesJob
<1>4. CASE ReadWords(n)
  <2> DEFINE r == [jobs[n] EXCEPT !.step = "answer", !.said = words[jobs[n].id]]
  <2>1. jobs' = [jobs EXCEPT ![n] = r] BY <1>4 DEF ReadWords
  <2>2. r.kind = jobs[n].kind /\ r.alone = jobs[n].alone BY <1>2 DEF Job
  <2> HIDE DEF r
  <2>3. QED BY <1>1, <2>1, <2>2, BecomesJob
<1>5. QED BY <1>3, <1>4

LEMMA CutJob ==
  ASSUME IInv, NEW n \in Slots, Cut(n)
  PROVE  OneJob(n) /\ jobs'[n].step = "answer" /\ jobs'[n].failed
<1> DEFINE r == [jobs[n] EXCEPT !.step = "answer", !.failed = TRUE]
<1>1. jobs' = [jobs EXCEPT ![n] = r] /\ jobs[n] # None BY DEF Cut, Busy
<1>2. jobs[n] \in Job BY <1>1, SlotIsJob DEF IInv
<1>3. r.kind = jobs[n].kind /\ r.alone = jobs[n].alone /\ r.step = "answer" /\ r.failed
  BY <1>2 DEF Job
<1> HIDE DEF r
<1>4. QED BY <1>1, <1>3, BecomesJob

(* An answer that lands leaves the other jobs.                             *)
LEMMA EndJob ==
  ASSUME IInv, NEW n \in Slots, WasKept(n) \/ OpenedChat(n) \/ Forgotten(n)
  PROVE  /\ ~Busy(n) /\ jobs'[n] = None /\ \A m \in Slots \ {n} : jobs'[m] = jobs[m]
         /\ UNCHANGED <<tables, cuts, crossed>>
<1>1. ~Busy(n) BY DEF WasKept, OpenedChat, Forgotten, At, Busy
<1>2. End(n) /\ UNCHANGED <<tables, cuts, crossed>> BY DEF WasKept, OpenedChat, Forgotten
<1>3. QED BY <1>1, <1>2 DEF End, IInv, Typed

\* A job is where it was, whether it still is alone or not.
Still(n) ==
  /\ jobs[n] # None /\ jobs'[n] # None /\ jobs'[n].kind = jobs[n].kind
  /\ jobs'[n].step = jobs[n].step /\ jobs'[n].id = jobs[n].id /\ jobs'[n].said = jobs[n].said

\* The jobs that write or take away are where they were, but for one that goes off.
Stay ==
  \A n \in Slots :
    /\ Busy(n) /\ jobs[n].kind # "load" => Still(n)
    /\ Busy(n)' /\ jobs'[n].kind # "load" =>
         \/ Busy(n) /\ Still(n)
         \/ jobs'[n].step = "first" /\ (jobs'[n].kind = "save" => jobs'[n].said # {})

(* Where the tables do not change either they go together as they did.     *)
LEMMA StayWhole ==
  ASSUME Whole, Stay, UNCHANGED <<updated, words, cuts>>, ~crossed' => ~crossed /\ (Apart => Apart')
  PROVE  Whole'
<1> SUFFICES ASSUME cuts' = 0, ~crossed' PROVE Matched' BY DEF Whole
<1>0. Matched BY DEF Whole
<1>1. UNCHANGED <<Listed, Newest>> BY SameNewest
<1>2. Apart' BY <1>0 DEF Matched
<1>3. ASSUME NEW kind \in {"save", "remove", "clear"}, NEW step \in {"first", "second", "third"},
             NEW n \in Slots, At(n, kind, step)
      PROVE  Still(n) /\ At(n, kind, step)' /\ Doomed(n)' = Doomed(n)
  <2>1. Still(n) BY <1>3 DEF Stay, At, Busy
  <2>2. QED BY <1>3, <2>1 DEF Still, At, Doomed
<1>4. ASSUME NEW kind \in {"save", "remove", "clear"}, NEW step \in {"first", "second", "third"},
             NEW n \in Slots, At(n, kind, step)'
      PROVE  \/ At(n, kind, step) /\ jobs'[n].said = jobs[n].said /\ Doomed(n)' = Doomed(n)
             \/ step = "first" /\ (kind = "save" => jobs'[n].said # {})
  BY <1>4 DEF Stay, Still, At, Busy, Doomed
<1>5. ASSUME NEW n \in Slots, At(n, "save", "first")' PROVE jobs'[n].said # {}
  BY <1>0, <1>4, <1>5 DEF Matched
<1>6. ASSUME NEW n \in Slots, Emptying(n)'
      PROVE  Emptying(n) /\ Doomed(n)' = Doomed(n)
  BY <1>4, <1>6 DEF Emptying
<1>7. \A n \in Slots : Emptying(n)' => \A id \in Doomed(n)' \cap Ids : words'[id] = {}
  BY <1>0, <1>6 DEF Matched
<1>8. \A n \in Slots : Emptying(n) => Emptying(n)' /\ Doomed(n)' = Doomed(n)
  BY <1>3 DEF Emptying
<1>9. ASSUME NEW id \in Ids PROVE Extra(id)' /\ Lacking(id)'
  <2>1. Extra(id) /\ Lacking(id) BY <1>0 DEF Matched
  <2>2. Extra(id)' BY <1>1, <1>3, <2>1 DEF Extra
  <2>3. Lacking(id)' BY <1>1, <1>3, <1>8, <2>1 DEF Lacking
  <2>4. QED BY <2>2, <2>3
<1>10. QED BY <1>2, <1>5, <1>7, <1>9 DEF Matched

(* A job that goes off leaves those under way where they were.             *)
LEMMA StartLeaves ==
  ASSUME IInv, NEW kind, NEW on, NEW id, NEW said, Start(kind, on, id, said),
         NEW m \in Slots, Busy(m)
  PROVE  Busy(m)' /\ Still(m) /\ ~jobs'[m].alone
<1> DEFINE r == [jobs[m] EXCEPT !.alone = FALSE]
<1>1. jobs'[m] = r BY DEF Start, Free, Busy
<1>2. jobs[m] \in Job /\ jobs[m] # None BY SlotIsJob DEF Busy, IInv
<1>3. /\ r \in Job /\ r.kind = jobs[m].kind /\ r.step = jobs[m].step /\ r.id = jobs[m].id
      /\ r.said = jobs[m].said /\ ~r.alone
  BY <1>2 DEF Job
<1> HIDE DEF r
<1>4. r # None BY <1>3, JobIsSome
<1>5. QED BY <1>1, <1>2, <1>3, <1>4 DEF Still, Busy

(* A job goes off at its first statement, and with it nobody else is alone. *)
LEMMA StartStays ==
  ASSUME IInv, Undisturbed, NEW kind, NEW on, NEW id, NEW said, Start(kind, on, id, said),
         kind = "save" => said # {}, UNCHANGED <<updated, words, cuts>>
  PROVE  /\ Stay /\ (~crossed' => ~crossed /\ (Apart => Apart'))
         /\ Undisturbed'
<1> DEFINE alone == \A m \in Slots : ~Busy(m)
           job == [kind |-> kind, step |-> "first", id |-> id, said |-> said,
                   failed |-> FALSE, alone |-> alone,
                   on |-> on, thread |-> talks[on].thread, conv |-> talks[on].conv]
<1>1. PICK n \in Slots :
        /\ Free(n)
        /\ jobs' = [m \in Slots |-> IF m = n THEN job
                      ELSE IF Busy(m) THEN [jobs[m] EXCEPT !.alone = FALSE] ELSE jobs[m]]
  BY DEF Start
<1>2. jobs[n] = None /\ ~Busy(n) BY <1>1 DEF Free, Busy
<1>3. /\ jobs'[n] = job /\ job.kind = kind /\ job.step = "first" /\ job.said = said
      /\ job.alone = alone
  BY <1>1
<1> HIDE DEF job
<1>4. ASSUME NEW m \in Slots, m # n
      PROVE  /\ Busy(m)' <=> Busy(m)
             /\ Busy(m) => Still(m) /\ ~jobs'[m].alone
  <2>1. CASE ~Busy(m)
    <3>1. jobs'[m] = jobs[m] BY <1>1, <1>4, <2>1
    <3>2. QED BY <2>1, <3>1 DEF Busy
  <2>2. CASE Busy(m) BY <2>2, StartLeaves
  <2>3. QED BY <2>1, <2>2
<1>5. Stay
  <2> USE DEF Stay
  <2> TAKE m \in Slots
  <2>1. CASE m = n BY <1>2, <1>3, <2>1
  <2>2. CASE m # n BY <1>4, <2>2
  <2>3. QED BY <2>1, <2>2
<1>6. ASSUME ~crossed' PROVE ~crossed /\ (Apart => Apart')
  <2>1. ~crossed /\ \A m \in Slots : Busy(m) =>
          /\ ~(kind = "save" /\ TakesAway(jobs[m].kind))
          /\ ~(TakesAway(kind) /\ jobs[m].kind = "save")
    BY <1>6 DEF Start
  <2>2. ASSUME Apart, NEW m \in Slots, NEW o \in Slots, Saving(m)', Taking(o)' PROVE FALSE
    <3>1. /\ m # n => Saving(m)
          /\ o # n => Taking(o)
          /\ m = n => kind = "save"
          /\ o = n => TakesAway(kind)
      BY <1>3, <1>4, <2>2 DEF Saving, Taking, Still
    <3>2. ~(kind = "save" /\ TakesAway(kind)) BY DEF TakesAway
    <3>3. QED BY <2>1, <2>2, <3>1, <3>2 DEF Apart, Saving, Taking
  <2>3. QED BY <2>1, <2>2 DEF Apart
<1>7. Undisturbed'
  <2>1. ASSUME NEW m \in Slots, Busy(m)', jobs'[m].alone PROVE m = n /\ alone
    BY <1>3, <1>4, <2>1
  <2>2. ASSUME alone, NEW o \in Slots, Busy(o)' PROVE o = n BY <1>4, <2>2
  <2>3. ~At(n, "save", "third")' BY <1>3 DEF At
  <2> HIDE DEF alone
  <2>4. QED BY <2>1, <2>2, <2>3 DEF Undisturbed
<1>8. QED BY <1>5, <1>6, <1>7

(* Keeping what a screen holds, and every other wish of a screen, is one    *)
(* job more or none.                                                       *)
LEMMA KeysStay ==
  ASSUME IInv, Undisturbed,
         \/ \E on \in Links : Finished(on)
         \/ StartChat
         \/ \E id \in Ids : OpenChat(id) \/ ForgetChat(id)
         \/ ForgetChats
  PROVE  /\ Stay /\ (~crossed' => ~crossed /\ (Apart => Apart'))
         /\ Undisturbed' /\ UNCHANGED <<updated, words, cuts>>
<1>1. UNCHANGED <<updated, words, cuts>>
  BY DEF Finished, StartChat, OpenChat, ForgetChat, ForgetChats, tables
<1>2. CASE UNCHANGED <<jobs, crossed>>
  <2>1. Stay BY <1>2 DEF Stay, Still, Busy
  <2>2. Apart => Apart' BY <1>2 DEF Apart, Saving, Taking, Busy
  <2>3. Undisturbed' BY <1>1, <1>2, SameNewest DEF Undisturbed, Busy, At
  <2>4. QED BY <1>1, <1>2, <2>1, <2>2, <2>3
<1>3. CASE \E kind, on, id, said : Start(kind, on, id, said) /\ (kind = "save" => said # {})
  BY <1>1, <1>3, StartStays
<1>4. ASSUME NEW on, NEW said, Keep(on, said)
      PROVE  \/ UNCHANGED <<jobs, crossed>>
             \/ \E kind, o, id, s : Start(kind, o, id, s) /\ (kind = "save" => s # {})
  BY <1>4 DEF Keep
<1>5. CASE \E on \in Links : Finished(on) BY <1>2, <1>3, <1>4, <1>5 DEF Finished
<1>6. CASE StartChat BY <1>2, <1>3, <1>4, <1>6 DEF StartChat
<1>7. CASE \E id \in Ids : OpenChat(id) BY <1>3, <1>7 DEF OpenChat
<1>8. CASE \E id \in Ids : ForgetChat(id) BY <1>3, <1>8 DEF ForgetChat
<1>9. CASE ForgetChats BY <1>3, <1>9 DEF ForgetChats
<1>10. QED BY <1>5, <1>6, <1>7, <1>8, <1>9

(* A statement beside a save alone is one of that save, which alone it is   *)
(* only while nothing else runs.                                           *)
LEMMA OneJobUndisturbed ==
  ASSUME Undisturbed, NEW n \in Slots, Busy(n), OneJob(n),
         \/ jobs[n].kind = "load" \/ jobs'[n].step # "third"
         \/ \A id \in Ids : words'[id] # {} => id \in Newest'
  PROVE  Undisturbed'
<1>1. ASSUME NEW m \in Slots, Busy(m)', jobs'[m].alone
      PROVE  m = n /\ \A o \in Slots : Busy(o)' => o = m
  <2>1. Busy(m) /\ jobs[m].alone BY <1>1 DEF OneJob, Busy
  <2>2. \A o \in Slots : Busy(o) => o = m BY <2>1 DEF Undisturbed
  <2>3. \A o \in Slots : Busy(o)' => Busy(o) BY DEF OneJob, Busy
  <2>4. QED BY <2>2, <2>3
<1>2. CASE \A id \in Ids : words'[id] # {} => id \in Newest'
  BY <1>1, <1>2 DEF Undisturbed
<1>3. CASE jobs[n].kind = "load" \/ jobs'[n].step # "third"
  <2>1. ~At(n, "save", "third")' BY <1>3 DEF OneJob, At
  <2>2. QED BY <1>1, <2>1 DEF Undisturbed
<1>4. QED BY <1>2, <1>3

LEMMA UndisturbedStep == IInv /\ Undisturbed /\ [Next]_vars => Undisturbed'
<1> SUFFICES ASSUME IInv, Undisturbed, [Next]_vars PROVE Undisturbed' OBVIOUS
<1>1. ASSUME NEW n \in Slots,
             Write(n) \/ TrimRows(n) \/ TakeWords(n) \/ TakeRows(n) \/ Cut(n)
      PROVE  Undisturbed'
  <2>1. Busy(n) BY <1>1 DEF Write, TrimRows, TakeWords, TakeRows, Cut, At, Busy
  <2>2. CASE Write(n) BY <2>1, <2>2, WriteJob, OneJobUndisturbed
  <2>3. CASE \E step \in {"second", "answer"} : To(n, step)
    <3>1. jobs[n] # None BY <2>1 DEF Busy
    <3>2. OneJob(n) /\ jobs'[n].step # "third" BY <2>3, <3>1, ToJob
    <3>3. QED BY <2>1, <3>2, OneJobUndisturbed
  <2>4. CASE Cut(n) BY <2>1, <2>4, CutJob, OneJobUndisturbed
  <2>5. QED BY <1>1, <2>2, <2>3, <2>4 DEF TrimRows, TakeWords, TakeRows
<1>2. ASSUME NEW n \in Slots, TrimWords(n) PROVE Undisturbed'
  <2>1. Busy(n) /\ jobs[n] # None /\ To(n, "third") BY <1>2 DEF TrimWords, At, Busy
  <2>2. words' = KeptWords /\ Newest' = Newest BY <1>2, SameNewest DEF TrimWords
  <2>3. \A id \in Ids : words'[id] # {} => id \in Newest' BY <2>2 DEF KeptWords
  <2>4. QED BY <2>1, <2>3, ToJob, OneJobUndisturbed
<1>3. ASSUME NEW n \in Slots, ReadRow(n) \/ ReadWords(n) PROVE Undisturbed'
  <2>1. Busy(n) BY <1>3 DEF ReadRow, ReadWords, At, Busy
  <2>2. QED BY <1>3, <2>1, ReadJob, OneJobUndisturbed
<1>4. ASSUME NEW n \in Slots, WasKept(n) \/ OpenedChat(n) \/ Forgotten(n)
      PROVE  Undisturbed'
  <2>1. /\ jobs'[n] = None /\ \A m \in Slots \ {n} : jobs'[m] = jobs[m]
        /\ UNCHANGED tables
    BY <1>4, EndJob
  <2>2. \A m \in Slots : Busy(m)' => Busy(m) /\ jobs'[m] = jobs[m] BY <2>1 DEF Busy
  <2>3. UNCHANGED <<words, Newest>> BY <2>1, SameNewest DEF tables
  <2>4. QED BY <2>2, <2>3 DEF Undisturbed, At
<1>5. CASE \/ \E on \in Links : Finished(on)
           \/ StartChat
           \/ \E id \in Ids : OpenChat(id) \/ ForgetChat(id)
           \/ ForgetChats
  BY <1>5, KeysStay
<1>6. CASE Released \/ Switch \/ UNCHANGED vars
  <2>1. UNCHANGED <<jobs, words, updated>> BY <1>6 DEF Released, Switch, vars, tables
  <2>2. QED BY <2>1, SameNewest DEF Undisturbed, Busy, At
<1>7. CASE Restart BY <1>7 DEF Restart, Undisturbed, Busy
<1>8. QED BY <1>1, <1>2, <1>3, <1>4, <1>5, <1>6, <1>7 DEF Next, Step

(* The two tables go together, one statement at a time. *)

(* A job that goes on starts nothing.                                      *)
LEMMA OneJobApart == ASSUME Apart, NEW n \in Slots, Busy(n), OneJob(n) PROVE Apart'
BY DEF Apart, OneJob, Saving, Taking, Busy

\* While something is saved nothing is taken away, and the other way about.
LEMMA SavesApart ==
  ASSUME Apart, NEW n \in Slots, Busy(n), jobs[n].kind = "save"
  PROVE  \A m \in Slots : ~Emptying(m)
BY DEF Apart, Saving, Taking, Emptying, TakesAway, At, Busy

LEMMA TakesApart ==
  ASSUME Apart, NEW n \in Slots, Busy(n), TakesAway(jobs[n].kind)
  PROVE  \A m \in Slots : \A step \in {"first", "second", "third"} : ~At(m, "save", step)
BY DEF Apart, Saving, Taking, At, Busy

(* A save that wrote one goes on to take what is past the limit.           *)
LEMMA WriteMatched ==
  ASSUME Limit > 0, IInv, Stored, Matched, NEW n \in Slots, Write(n)
  PROVE  Matched'
<1> DEFINE id == IF jobs[n].id = 0 THEN last + 1 ELSE jobs[n].id
<1>0. Busy(n) /\ jobs[n].kind = "save" /\ Apart BY DEF Write, At, Busy, Matched
<1>1. OneJob(n) /\ jobs'[n].step = "second" BY WriteJob, BoundsAssumption
<1>2. /\ id \in Ids /\ words' = [words EXCEPT ![id] = jobs[n].said]
      /\ jobs[n].said # {}
      /\ updated'[id] \in Nat /\ updated'[id] >= updated[id]
      /\ \A other \in Ids \ {id} : updated'[other] = updated[other]
  <2>1. id \in Ids /\ words' = [words EXCEPT ![id] = jobs[n].said] BY DEF Write
  <2>0. PICK now \in 1..(clock + 1) :
          /\ now >= updated[id]
          /\ \/ updated' = [updated EXCEPT ![id] = now]
             \/ updated' = [updated EXCEPT ![id] = IF updated[id] = 0 THEN 0 ELSE now]
    BY DEF Write, Times, Insert, Row
  <2>2. jobs[n].said # {} BY DEF Matched, Write
  <2>3. updated \in [Ids -> Nat] /\ clock \in Nat BY DEF Stored
  <2> HIDE DEF id
  <2>4. QED BY <2>0, <2>1, <2>2, <2>3
<1> HIDE DEF id
<1>3. \A m \in Slots : ~Emptying(m) BY <1>0, SavesApart
<1>4. \A m \in Slots : ~Emptying(m)' BY <1>0, <1>1, <1>3 DEF OneJob, Emptying, At
<1>5. At(n, "save", "second")' BY <1>0, <1>1 DEF OneJob, At
<1>6. ASSUME NEW o \in Ids PROVE Extra(o)' /\ Lacking(o)'
  <2>1. Extra(o)' BY <1>5 DEF Extra
  <2>2. ASSUME o \in Listed', words'[o] = {}
        PROVE  o \notin Newest' /\ \E m \in Slots : At(m, "save", "third")'
    <3>1. o # id /\ words[o] = {} BY <1>2, <2>2 DEF IInv, Typed
    <3>2. o \in Listed BY <1>2, <2>2, <3>1 DEF Listed
    <3>3. o \notin Newest /\ \E m \in Slots : At(m, "save", "third")
      BY <1>3, <3>1, <3>2 DEF Matched, Lacking
    <3>4. o \notin Newest' BY <1>2, <3>1, <3>2, <3>3, RowInFront
    <3>5. \A m \in Slots : At(m, "save", "third") => m # n BY DEF Write, At
    <3>6. QED BY <1>1, <3>3, <3>4, <3>5 DEF OneJob, At
  <2>3. QED BY <2>1, <2>2 DEF Lacking
<1>7. \A m \in Slots : At(m, "save", "first")' => jobs'[m].said # {}
  BY <1>1 DEF OneJob, At, Matched
<1>8. Apart' BY <1>0, <1>1, OneJobApart
<1>9. QED BY <1>4, <1>6, <1>7, <1>8 DEF Matched

(* Then the words go, and at last the rows.                                *)
LEMMA TrimWordsMatched ==
  ASSUME IInv, Matched, NEW n \in Slots, TrimWords(n)
  PROVE  Matched'
<1>0. Busy(n) /\ jobs[n] # None /\ jobs[n].kind = "save" /\ Apart
  BY DEF TrimWords, At, Busy, Matched
<1>1. OneJob(n) /\ jobs'[n].step = "third" BY <1>0, ToJob DEF TrimWords
<1>2. words' = KeptWords /\ UNCHANGED <<Listed, Newest>> BY SameNewest DEF TrimWords
<1>3. \A m \in Slots : ~Emptying(m) BY <1>0, SavesApart
<1>4. \A m \in Slots : ~Emptying(m)' BY <1>0, <1>1, <1>3 DEF OneJob, Emptying, At
<1>5. At(n, "save", "third")' BY <1>0, <1>1 DEF OneJob, At
<1>6. ASSUME NEW o \in Ids PROVE Extra(o)' /\ Lacking(o)'
  <2>1. Extra(o)' BY <1>2 DEF Extra, KeptWords
  <2>2. o \in Newest => words'[o] = words[o] BY <1>2 DEF KeptWords
  <2>3. Lacking(o)' BY <1>2, <1>3, <1>5, <2>2 DEF Lacking, Matched
  <2>4. QED BY <2>1, <2>3
<1>7. \A m \in Slots : At(m, "save", "first")' => jobs'[m].said # {}
  BY <1>1 DEF OneJob, At, Matched
<1>8. Apart' BY <1>0, <1>1, OneJobApart
<1>9. QED BY <1>4, <1>6, <1>7, <1>8 DEF Matched

LEMMA TrimRowsMatched ==
  ASSUME IInv, Stored, Matched, NEW n \in Slots, TrimRows(n)
  PROVE  Matched'
<1>0. Busy(n) /\ jobs[n] # None /\ jobs[n].kind = "save" /\ Apart
  BY DEF TrimRows, At, Busy, Matched
<1>1. OneJob(n) /\ jobs'[n].step = "answer" BY <1>0, ToJob DEF TrimRows
<1>2. words' = words /\ Listed' = Listed \cap Newest /\ Newest \subseteq Newest'
  BY FewerRows DEF TrimRows, KeptRows
<1>3. \A m \in Slots : ~Emptying(m) BY <1>0, SavesApart
<1>4. \A m \in Slots : ~Emptying(m)' BY <1>0, <1>1, <1>3 DEF OneJob, Emptying, At
<1>5. \A m \in Slots : At(m, "save", "second") => At(m, "save", "second")'
  BY <1>1 DEF OneJob, At, TrimRows
<1>6. ASSUME NEW o \in Ids PROVE Extra(o)' /\ Lacking(o)'
  <2>1. Extra(o)' BY <1>2, <1>5 DEF Extra, Matched
  <2>2. Lacking(o)' BY <1>2, <1>3 DEF Lacking, Matched
  <2>3. QED BY <2>1, <2>2
<1>7. \A m \in Slots : At(m, "save", "first")' => jobs'[m].said # {}
  BY <1>1 DEF OneJob, At, Matched
<1>8. Apart' BY <1>0, <1>1, OneJobApart
<1>9. QED BY <1>4, <1>6, <1>7, <1>8 DEF Matched

(* A removal takes the words of what it is about, and then the rows.       *)
LEMMA TakeWordsMatched ==
  ASSUME IInv, Matched, NEW n \in Slots, TakeWords(n)
  PROVE  Matched'
<1>0. Busy(n) /\ jobs[n] # None /\ TakesAway(jobs[n].kind) /\ Apart
  BY DEF TakeWords, TakesAway, At, Busy, Matched
<1>1. OneJob(n) /\ jobs'[n].step = "second" /\ Doomed(n)' = Doomed(n)
  BY <1>0, ToJob DEF TakeWords, OneJob, Doomed
<1>2. /\ words' = [id \in Ids |-> IF id \in Doomed(n) THEN {} ELSE words[id]]
      /\ UNCHANGED <<Listed, Newest>>
  BY SameNewest DEF TakeWords
<1>3. \A m \in Slots : \A step \in {"first", "second", "third"} : ~At(m, "save", step)
  BY <1>0, TakesApart
<1>4. Emptying(n)' BY <1>0, <1>1 DEF TakeWords, OneJob, Emptying, At
<1>5. \A m \in Slots \ {n} : (Emptying(m)' <=> Emptying(m)) /\ Doomed(m)' = Doomed(m)
  BY <1>1 DEF OneJob, Emptying, At, Doomed
<1>6. ASSUME NEW o \in Ids PROVE Extra(o)' /\ Lacking(o)'
  <2>1. Extra(o)' BY <1>2, <1>3 DEF Extra, Matched
  <2>2. ASSUME o \in Listed', words'[o] = {}
        PROVE  \E m \in Slots : Emptying(m)' /\ o \in Doomed(m)'
    <3>1. CASE o \in Doomed(n) BY <1>1, <1>4, <3>1
    <3>2. CASE o \notin Doomed(n)
      <4>1. o \in Listed /\ words[o] = {} BY <1>2, <2>2, <3>2
      <4>2. PICK m \in Slots : Emptying(m) /\ o \in Doomed(m)
        BY <1>3, <4>1 DEF Lacking, Matched
      <4>3. m # n BY <3>2, <4>2
      <4>4. QED BY <1>5, <4>2, <4>3
    <3>3. QED BY <3>1, <3>2
  <2>3. QED BY <2>1, <2>2 DEF Lacking
<1>7. \A m \in Slots : ~At(m, "save", "first")' BY <1>1, <1>3 DEF OneJob, At
<1>8. ASSUME NEW m \in Slots, Emptying(m)', NEW id \in Doomed(m)' \cap Ids
      PROVE  words'[id] = {}
  <2>1. CASE m = n BY <1>1, <1>2, <1>8, <2>1
  <2>2. CASE m # n BY <1>2, <1>5, <1>8, <2>2 DEF Matched
  <2>3. QED BY <2>1, <2>2
<1>9. Apart' BY <1>0, <1>1, OneJobApart
<1>10. QED BY <1>6, <1>7, <1>8, <1>9 DEF Matched

LEMMA TakeRowsMatched ==
  ASSUME IInv, Stored, Matched, NEW n \in Slots, TakeRows(n)
  PROVE  Matched'
<1> DEFINE rest == Ids \ Doomed(n)
<1>0. Busy(n) /\ jobs[n] # None /\ TakesAway(jobs[n].kind) /\ Emptying(n) /\ Apart
  BY DEF TakeRows, TakesAway, Emptying, At, Busy, Matched
<1>1. OneJob(n) /\ jobs'[n].step = "answer" BY <1>0, ToJob DEF TakeRows
<1>2. words' = words /\ Listed' = Listed \cap rest /\ Newest \cap rest \subseteq Newest'
  <2>1. updated' = [id \in Ids |-> IF id \in rest THEN updated[id] ELSE 0]
    BY DEF TakeRows
  <2> HIDE DEF rest
  <2>2. QED BY <2>1, FewerRows DEF TakeRows
<1>3. \A m \in Slots : \A step \in {"first", "second", "third"} : ~At(m, "save", step)
  BY <1>0, TakesApart
<1>4. ~Emptying(n)' BY <1>1 DEF Emptying, At
<1>5. \A m \in Slots \ {n} : (Emptying(m)' <=> Emptying(m)) /\ Doomed(m)' = Doomed(m)
  BY <1>1 DEF OneJob, Emptying, At, Doomed
<1>6. ASSUME NEW o \in Ids PROVE Extra(o)' /\ Lacking(o)'
  <2>1. o \in Doomed(n) => words[o] = {} BY <1>0 DEF Matched
  <2>2. words[o] # {} => o \in Newest BY <1>3 DEF Extra, Matched
  <2>3. Extra(o)' BY <1>2, <2>1, <2>2 DEF Extra
  <2>4. ASSUME o \in Listed', words'[o] = {}
        PROVE  \E m \in Slots : Emptying(m)' /\ o \in Doomed(m)'
    <3>1. o \in Listed /\ words[o] = {} /\ o \notin Doomed(n) BY <1>2, <2>4
    <3>2. PICK m \in Slots : Emptying(m) /\ o \in Doomed(m)
      BY <1>3, <3>1 DEF Lacking, Matched
    <3>3. m # n BY <3>1, <3>2
    <3>4. QED BY <1>5, <3>2, <3>3
  <2>5. QED BY <2>3, <2>4 DEF Lacking
<1>7. \A m \in Slots : ~At(m, "save", "first")' BY <1>1, <1>3 DEF OneJob, At
<1>8. \A m \in Slots : Emptying(m)' => \A id \in Doomed(m)' \cap Ids : words'[id] = {}
  BY <1>2, <1>4, <1>5 DEF Matched
<1>9. Apart' BY <1>0, <1>1, OneJobApart
<1>10. QED BY <1>6, <1>7, <1>8, <1>9 DEF Matched

LEMMA InitWhole == Init => Whole /\ Undisturbed
<1> SUFFICES ASSUME Init PROVE Whole /\ Undisturbed OBVIOUS
<1>1. \A n \in Slots : jobs[n] = None BY DEF Init
<1>2. \A id \in Ids : words[id] = {} /\ id \notin Listed BY DEF Init, Listed
<1>3. Matched
  BY <1>1, <1>2
  DEF Matched, Apart, Saving, Taking, Busy, Emptying, At, Extra, Lacking
<1>4. QED BY <1>1, <1>3 DEF Whole, Undisturbed, Busy

(* Every step leaves them together, until something is cut short or taken  *)
(* away in the middle of a save.                                           *)
LEMMA WholeStep ==
  ASSUME Limit > 0, IInv, Stored, Undisturbed, Whole, [Next]_vars
  PROVE  Whole'
<1>1. ASSUME NEW n \in Slots,
             Write(n) \/ TrimWords(n) \/ TrimRows(n) \/ TakeWords(n) \/ TakeRows(n)
      PROVE  Whole'
  <2>1. UNCHANGED <<cuts, crossed>>
    BY <1>1 DEF Write, TrimWords, TrimRows, TakeWords, TakeRows
  <2>2. Matched => Matched'
    BY <1>1, WriteMatched, TrimWordsMatched, TrimRowsMatched, TakeWordsMatched, TakeRowsMatched
  <2>3. QED BY <2>1, <2>2 DEF Whole
<1>2. CASE Restart \/ \E n \in Slots : Cut(n)
  <2>1. cuts' = cuts + 1 BY <1>2 DEF Restart, Cut
  <2>2. cuts \in Nat BY DEF Stored
  <2>3. QED BY <2>1, <2>2 DEF Whole
<1>3. ASSUME NEW n \in Slots, ReadRow(n) \/ ReadWords(n) PROVE Whole'
  <2>1. OneJob(n) /\ jobs[n].kind = "load" BY <1>3, ReadJob
  <2>2. UNCHANGED <<updated, words, cuts, crossed>> BY <1>3 DEF ReadRow, ReadWords, tables
  <2>3. Stay BY <2>1 DEF Stay, Still, OneJob, Busy
  <2>4. Busy(n) BY <1>3 DEF ReadRow, ReadWords, At, Busy
  <2>5. Apart => Apart' BY <2>1, <2>4, OneJobApart
  <2>6. QED BY <2>2, <2>3, <2>5, StayWhole
<1>4. ASSUME NEW n \in Slots, WasKept(n) \/ OpenedChat(n) \/ Forgotten(n) PROVE Whole'
  <2>1. /\ ~Busy(n) /\ jobs'[n] = None /\ \A m \in Slots \ {n} : jobs'[m] = jobs[m]
        /\ UNCHANGED <<updated, words, cuts, crossed>>
    BY <1>4, EndJob DEF tables
  <2>2. Stay BY <2>1 DEF Stay, Still, Busy
  <2>3. Apart => Apart' BY <2>1 DEF Apart, Saving, Taking, Busy
  <2>4. QED BY <2>1, <2>2, <2>3, StayWhole
<1>5. CASE \/ \E on \in Links : Finished(on)
           \/ StartChat
           \/ \E id \in Ids : OpenChat(id) \/ ForgetChat(id)
           \/ ForgetChats
  BY <1>5, KeysStay, StayWhole
<1>6. CASE Released \/ Switch \/ UNCHANGED vars
  <2>1. UNCHANGED <<updated, words, jobs, cuts, crossed>>
    BY <1>6 DEF Released, Switch, vars, tables
  <2>2. Stay BY <2>1 DEF Stay, Still, Busy
  <2>3. Apart => Apart' BY <2>1 DEF Apart, Saving, Taking, Busy
  <2>4. QED BY <2>1, <2>2, <2>3, StayWhole
<1>7. QED BY <1>1, <1>2, <1>3, <1>4, <1>5, <1>6 DEF Next, Step

(* When nothing is under way, nothing is left to be done.                  *)
LEMMA WholeHalves ==
  ASSUME Whole, Quiet, cuts = 0, ~crossed, NEW id \in Ids
  PROVE  (updated[id] # 0) <=> (words[id] # {})
<1>1. Extra(id) /\ Lacking(id) BY DEF Whole, Matched
<1>2. \A n \in Slots : Busy(n) => jobs[n].kind = "load" BY DEF Quiet
<1>3. ASSUME NEW n \in Slots, NEW kind \in {"save", "remove", "clear"},
             NEW step \in {"second", "third"}
      PROVE  ~At(n, kind, step)
  BY <1>2 DEF At, Busy
<1>4. QED BY <1>1, <1>3, NewestAreListed DEF Extra, Lacking, Emptying, Listed

(* Once every save and removal has ended, every conversation listed has    *)
(* what was said in it and nothing is kept of any other, however many of   *)
(* them overlapped, unless one was cut short or something was taken away   *)
(* in the middle of a save (chats.go 137-248, 362-382).                    *)
THEOREM HalvesGoTogetherHolds == Spec => []HalvesGoTogether
<1> DEFINE Inv == IInv /\ Stored /\ Undisturbed /\ (Limit > 0 => Whole)
<1>1. Init => Inv BY InitIInv, InitStored, InitWhole
<1>2. Inv /\ [Next]_vars => Inv' BY StepIInv, StoredStep, UndisturbedStep, WholeStep
<1>3. Inv => HalvesGoTogether BY WholeHalves DEF HalvesGoTogether
<1> HIDE DEF Inv
<1>4. QED BY <1>1, <1>2, <1>3, PTL DEF Spec

(* Only taking the rows ends a save at its last statement.                 *)
LEMMA MendsAtRows ==
  ASSUME IInv, [Next]_vars, NEW n \in Slots, At(n, "save", "third"),
         jobs'[n] # None, jobs'[n].step = "answer", ~jobs'[n].failed
  PROVE  TrimRows(n)
<1>1. jobs[n] # None /\ Busy(n) /\ jobs[n].step = "third" /\ jobs[n].kind = "save"
  BY DEF At, Busy
<1>2. ~Still(n) BY <1>1 DEF Still
<1>3. ASSUME NEW m \in Slots, Step(m) PROVE m = n
  <2>1. ASSUME m # n PROVE jobs'[n] = jobs[n]
    <3>1. CASE \E step : To(m, step) BY <2>1, <3>1 DEF To, IInv, Typed
    <3>2. CASE End(m) BY <2>1, <3>2 DEF End, IInv, Typed
    <3>3. CASE Write(m) \/ ReadRow(m) \/ ReadWords(m) \/ Cut(m)
      BY <2>1, <3>3 DEF Write, ReadRow, ReadWords, Cut, IInv, Typed
    <3>4. QED
      BY <1>3, <3>1, <3>2, <3>3
      DEF Step, TrimWords, TrimRows, TakeWords, TakeRows, WasKept, OpenedChat, Forgotten
  <2>2. QED BY <1>1, <2>1
<1>4. Step(n) => TrimRows(n)
  <2>1. ~Cut(n) BY CutJob
  <2>2. QED
    BY <1>1, <2>1
    DEF Step, Write, TrimWords, TakeWords, TakeRows, ReadRow, ReadWords, WasKept, OpenedChat,
        Forgotten, At
<1>5. ASSUME NEW kind, NEW on, NEW id, NEW said, Start(kind, on, id, said) PROVE Still(n)
  BY <1>1, <1>5, StartLeaves
<1>6. ASSUME UNCHANGED jobs PROVE FALSE BY <1>1, <1>6
<1>7. ASSUME NEW on, NEW said, Keep(on, said) PROVE FALSE BY <1>2, <1>5, <1>6, <1>7 DEF Keep
<1>8. ~Restart BY DEF Restart
<1>9. QED
  BY <1>2, <1>3, <1>4, <1>5, <1>6, <1>7, <1>8
  DEF Next, Finished, OpenChat, ForgetChat, StartChat, ForgetChats, Released, Switch, vars

(* A save nothing else ran beside leaves, at its end, nothing kept of a    *)
(* conversation that is not listed and no more listed than the limit,      *)
(* whatever an earlier stop, deadline or crossing had left                 *)
(* (chats.go 235-248).                                                     *)
THEOREM TrimMendsHolds == Spec => TrimMends
<1> DEFINE Inv == IInv /\ Stored /\ Undisturbed
           Ends(n) == /\ At(n, "save", "third") /\ jobs[n].alone
                      /\ jobs'[n] # None /\ jobs'[n].step = "answer" /\ ~jobs'[n].failed
           Mended == /\ \A id \in Ids : updated'[id] = 0 => words'[id] = {}
                     /\ Cardinality(Listed') =< Limit
<1>1. Init => Inv BY InitIInv, InitStored, InitWhole
<1>2. Inv /\ [Next]_vars => Inv' BY StepIInv, StoredStep, UndisturbedStep
<1>3. ASSUME Inv, [Next]_vars, NEW n \in Slots, Ends(n)
      PROVE  Mended
  <2>1. TrimRows(n) BY <1>3, MendsAtRows
  <2>2. Busy(n) BY <1>3 DEF At, Busy
  <2>3. \A id \in Ids : words[id] # {} => id \in Newest BY <1>3, <2>2 DEF Undisturbed
  <2>4. words' = words /\ Newest \subseteq Listed /\ Listed' = Listed \cap Newest
    BY <1>3, <2>1, FewerRows DEF TrimRows, KeptRows, Newest
  <2>5. Listed' = Newest BY <2>4
  <2>6. \A id \in Ids : updated'[id] = 0 => words'[id] = {} BY <2>3, <2>4 DEF Listed
  <2>7. QED BY <1>3, <2>5, <2>6, FewNewest
<1>4. Inv /\ [Next]_vars => [\A n \in Slots : Ends(n) => Mended]_vars
  BY <1>3
<1> HIDE DEF Inv
<1>5. QED BY <1>1, <1>2, <1>4, PTL DEF Spec, TrimMends
=============================================================================
