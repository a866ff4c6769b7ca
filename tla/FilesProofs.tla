----------------------------- MODULE FilesProofs -----------------------------
(***************************************************************************)
(* What Files promises of saved statements, for every set of connections   *)
(* and names, every number of tabs and of calls under way: closing a tab   *)
(* loses nothing, wherever the person goes meanwhile; and nothing is       *)
(* written over unasked, as long as nobody wanders before the answer.      *)
(***************************************************************************)
EXTENDS Files, SequenceTheorems, WellFoundedInduction, TLAPS

Live == {n \in Slots : jobs[n] # None}

\* The place a call is for, and the one a tab has.
Target(job) == <<job.root, job.name>>
Home(t) == <<t.on, t.file>>

Writes(job) == job.kind \in {"create", "write"}
Written(job) == Writes(job) /\ job.step = "answer"

Typed ==
  /\ disk \in [Roots \X Names -> Texts \cup {Absent}]
  /\ temp \in [Roots \X Names -> Texts \cup {Absent}]
  /\ tabs \in Seq(Tab) /\ Len(tabs) \in 1..MaxTabs /\ sheet \in 1..Len(tabs)
  /\ dialog \in Dialog \cup {None} /\ (dialog # None => dialog.now =< Len(tabs))
  /\ jobs \in [Slots -> Job \cup {None}] /\ \A n \in Live : jobs[n].now =< Len(tabs)
  /\ unsure \subseteq Roots \X Names

\* How far a call can have got says which call it is.
Shaped(job) ==
  /\ job.step \in {"stat", "there"} => job.kind = "create"
  /\ job.step = "rename" => Writes(job)
  /\ job.kind \in Answers => job.step = "answer"

\* Two calls that meet made their file unsure when the later one began.
Met == \A n, m \in Live : n # m /\ Meet(jobs[n], jobs[m]) => Target(jobs[n]) \in unsure

\* The temporary file is the one of the write that is about to use it.
Filled(job) == Writes(job) /\ job.step = "rename" => temp[Target(job)] = job.body

\* What was written is there until its tab hears of it, and no other tab has it.
Wrote(job) ==
  Written(job) =>
    /\ disk[Target(job)] = job.body
    /\ \A j \in DOMAIN tabs : Home(tabs[j]) = Target(job) => j = job.now

\* What was read is still there.
ReadIt(job) == job.kind = "read" /\ job.step = "answer" => disk[Target(job)] = job.body

\* What a tab takes its file to hold is what it holds, unless a write is about to
\* tell it otherwise.
Knows(t) ==
  t.file # NoName /\ (\A n \in Live : Written(jobs[n]) => Target(jobs[n]) # Home(t))
    => disk[Home(t)] = t.saved

Shapes == \A n \in Live : Shaped(jobs[n])

Sound ==
  \A n \in Live : Target(jobs[n]) \notin unsure =>
    Filled(jobs[n]) /\ Wrote(jobs[n]) /\ ReadIt(jobs[n])

Known == \A j \in DOMAIN tabs : Home(tabs[j]) \notin unsure => Knows(tabs[j])

IInv == Typed /\ Shapes /\ Met /\ Sound /\ Known

\* What is asked or asked for before anything else may be.
Asking == {n \in Live : jobs[n].kind \in {"read", "create", "remove"} \cup Answers}

\* A file is created where there is none.
NotThere ==
  \A n \in Live :
    jobs[n].kind = "create" /\ jobs[n].step \in {"fill", "rename"}
      /\ Target(jobs[n]) \notin unsure => disk[Target(jobs[n])] = Absent

\* One thing is asked at a time, through the connection in front.
OneAtATime ==
  /\ dialog # None => Asking = {} /\ dialog.root = Root
  /\ \A n, m \in Asking : n = m
  /\ \A n \in Asking : jobs[n].root = Root

\* A file is written over where that was agreed to, or by the tab that had it.
Allowed ==
  \A n \in Live : jobs[n].kind \in {"agreed", "write"} => jobs[n].root \in jobs[n].over

\* What holds besides where nobody wanders.
Asked == OneAtATime /\ Allowed

(* The places a call and a tab of a file have are places there are.        *)
LEMMA Places ==
  ASSUME Typed
  PROVE  /\ \A n \in Live : jobs[n] \in Job /\ Target(jobs[n]) \in Roots \X Names
         /\ \A j \in 1..Len(tabs) :
              tabs[j] \in Tab /\ (tabs[j].file # NoName => Home(tabs[j]) \in Roots \X Names)
         /\ DOMAIN tabs = 1..Len(tabs) /\ Len(tabs) \in Nat
         /\ Root \in Roots /\ Front \in Tab /\ Front = tabs[sheet] /\ sheet \in DOMAIN tabs
         /\ AnyName \in Names
<1>1. Len(tabs) \in Nat /\ DOMAIN tabs = 1..Len(tabs) /\ \A j \in 1..Len(tabs) : tabs[j] \in Tab
  BY DEF Typed
<1>2. \A n \in Live : jobs[n] \in Job BY DEF Typed, Live
<1>3. \A n \in Live : Target(jobs[n]) \in Roots \X Names BY <1>2 DEF Job, Target
<1>4. \A j \in 1..Len(tabs) : tabs[j].file # NoName => Home(tabs[j]) \in Roots \X Names
  BY <1>1 DEF Tab, Home
<1>5. sheet \in 1..Len(tabs) /\ Front \in Tab BY <1>1 DEF Typed, Front
<1>6. Root \in Roots BY <1>5 DEF Root, Tab
<1>7. AnyName \in Names BY FilesAssumption DEF AnyName
<1>8. QED BY <1>1, <1>2, <1>3, <1>4, <1>5, <1>6, <1>7 DEF Front

(* A call that goes on is the call it was, and all the others are.         *)
LEMMA Went ==
  ASSUME Typed, NEW n \in Slots, jobs[n] # None,
         NEW step \in {"stat", "fill", "rename", "answer", "there", "failed"}, Goes(n, step)
  PROVE  /\ jobs' \in [Slots -> Job \cup {None}]
         /\ jobs'[n] = [jobs[n] EXCEPT !.step = step]
         /\ jobs'[n].step = step /\ Target(jobs'[n]) = Target(jobs[n])
         /\ jobs'[n].kind = jobs[n].kind /\ jobs'[n].body = jobs[n].body
         /\ jobs'[n].at = jobs[n].at /\ jobs'[n].now = jobs[n].now
         /\ jobs'[n].over = jobs[n].over
         /\ jobs'[n].root = jobs[n].root /\ jobs'[n].name = jobs[n].name
         /\ \A m \in Slots : m # n => jobs'[m] = jobs[m]
         /\ Live' = Live
<1>1. jobs[n] \in Job BY DEF Typed
<1>2. jobs' = [jobs EXCEPT ![n] = [jobs[n] EXCEPT !.step = step]] BY DEF Goes
<1>3. [jobs[n] EXCEPT !.step = step] \in Job BY <1>1 DEF Job
<1>4. jobs' \in [Slots -> Job \cup {None}] BY <1>2, <1>3 DEF Typed
<1>5. jobs'[n] = [jobs[n] EXCEPT !.step = step] BY <1>2 DEF Typed
<1>6. \A m \in Slots : m # n => jobs'[m] = jobs[m] BY <1>2 DEF Typed
<1>7. None \notin Job BY DEF None, Job
<1>8. Live' = Live BY <1>3, <1>5, <1>6, <1>7 DEF Live
<1>9. QED BY <1>1, <1>4, <1>5, <1>6, <1>8 DEF Job, Target

(* A call that began in an empty slot, or in that of the answer it follows, *)
(* leaves what is known of all the others as it was.                       *)
LEMMA StartedIInv ==
  ASSUME IInv, NEW n \in Slots, NEW job \in Job, Started(n, job),
         jobs[n] = None \/ jobs[n].kind \in Answers,
         Shaped(job), job.step \in {"stat", "fill"} \/ job.kind \in Answers,
         job.now =< Len(tabs), UNCHANGED <<disk, temp, tabs, sheet>>,
         dialog' = dialog \/ dialog' = None
  PROVE  IInv'
<1> USE DEF Answers
<1>1. Typed /\ Shapes /\ Met /\ Sound /\ Known BY DEF IInv
<1>2. jobs' = [jobs EXCEPT ![n] = job] /\ unsure \subseteq unsure'
  BY DEF Started
<1>3. jobs'[n] = job /\ \A m \in Slots : m # n => jobs'[m] = jobs[m]
  BY <1>1, <1>2 DEF Typed
<1>4. None \notin Job BY DEF None, Job
<1>5. n \in Live' /\ \A m \in Slots : m # n => (m \in Live' <=> m \in Live)
  BY <1>3, <1>4 DEF Live
<1>6. <<job.root, job.name>> \in Roots \X Names BY DEF Job
<1>7. Typed'
  <2>1. jobs' \in [Slots -> Job \cup {None}] BY <1>1, <1>2 DEF Typed
  <2>2. unsure' \subseteq Roots \X Names BY <1>1, <1>6 DEF Started, Typed
  <2>3. \A m \in Live' : jobs'[m].now =< Len(tabs) BY <1>1, <1>3, <1>5 DEF Typed, Live
  <2>4. dialog' \in Dialog \cup {None} /\ (dialog' # None => dialog'.now =< Len(tabs))
    BY <1>1 DEF Typed
  <2>5. QED BY <1>1, <2>1, <2>2, <2>3, <2>4 DEF Typed
<1>8. Shapes' BY <1>1, <1>3, <1>5 DEF Shapes, Live, Shaped, Writes
<1>9. Met'
  <2> SUFFICES ASSUME NEW k \in Live', NEW m \in Live', k # m, Meet(jobs'[k], jobs'[m])
               PROVE  Target(jobs'[k]) \in unsure'
    BY DEF Met, Meet, Target
  <2>1. CASE k # n /\ m # n BY <1>1, <1>2, <1>3, <1>5, <2>1 DEF Met, Live
  <2>2. CASE k = n
    <3>1. Meet(jobs[m], job) BY <1>3, <2>2 DEF Meet, Live
    <3>2. jobs[m] # None BY <1>3, <2>2 DEF Live
    <3>3. QED BY <1>3, <2>2, <3>1, <3>2 DEF Started, Target, Live
  <2>3. CASE m = n
    <3>1. Meet(jobs[k], job) BY <1>3, <2>3 DEF Meet, Live
    <3>2. jobs[k] # None BY <1>3, <2>3 DEF Live
    <3>3. <<job.root, job.name>> \in unsure' BY <2>3, <3>1, <3>2 DEF Started, Live
    <3>4. Target(jobs'[k]) = <<job.root, job.name>> BY <1>3, <2>3, <3>1 DEF Meet, Target, Live
    <3>5. QED BY <3>3, <3>4
  <2>4. QED BY <2>1, <2>2, <2>3
<1>10. Sound'
  <2> SUFFICES ASSUME NEW m \in Live', Target(jobs'[m]) \notin unsure'
               PROVE  Filled(jobs[m])' /\ Wrote(jobs[m])' /\ ReadIt(jobs[m])'
    BY DEF Sound, Target
  <2>1. CASE m = n BY <1>3, <2>1 DEF Filled, Wrote, ReadIt, Written, Writes, Shaped
  <2>2. CASE m # n
    <3>1. m \in Live /\ jobs'[m] = jobs[m] /\ Target(jobs[m]) \notin unsure
      BY <1>2, <1>3, <1>5, <2>2 DEF Live
    <3>2. Filled(jobs[m]) /\ Wrote(jobs[m]) /\ ReadIt(jobs[m]) BY <1>1, <3>1 DEF Sound
    <3>3. QED BY <3>1, <3>2 DEF Filled, Wrote, ReadIt, Written, Writes, Target
  <2>3. QED BY <2>1, <2>2
<1>11. Known'
  <2> SUFFICES ASSUME NEW j \in DOMAIN tabs, Home(tabs[j]) \notin unsure', tabs[j].file # NoName,
                      \A m \in Live' : Written(jobs'[m]) => Target(jobs'[m]) # Home(tabs[j])
               PROVE  disk[Home(tabs[j])] = tabs[j].saved
    BY DEF Known, Knows, Home, Written, Writes, Target
  <2>1. \A m \in Live : Written(jobs[m]) => m \in Live' /\ jobs'[m] = jobs[m]
    BY <1>3, <1>5 DEF Written, Writes, Live
  <2>2. \A m \in Live : Written(jobs[m]) => Target(jobs[m]) # Home(tabs[j]) BY <2>1
  <2>3. QED BY <1>1, <1>2, <2>2 DEF Known, Knows
<1>12. QED BY <1>7, <1>8, <1>9, <1>10, <1>11 DEF IInv

(* An answer that is taken and that wrote nothing leaves the rest as it    *)
(* was, whatever is asked next.                                            *)
LEMMA ClearedIInv ==
  ASSUME IInv, NEW n \in Live, ~Written(jobs[n]), Cleared(n),
         UNCHANGED <<disk, temp, tabs, sheet, unsure>>,
         dialog' \in Dialog \cup {None}, dialog' # None => dialog'.now =< Len(tabs)
  PROVE  IInv'
<1>1. Typed /\ Shapes /\ Met /\ Sound /\ Known BY DEF IInv
<1>2. jobs' \in [Slots -> Job \cup {None}] /\ jobs'[n] = None
      /\ \A m \in Slots : m # n => jobs'[m] = jobs[m]
  BY <1>1 DEF Typed, Cleared, Live
<1>3. Live' = Live \ {n} /\ \A m \in Live' : jobs'[m] = jobs[m] BY <1>2 DEF Live
<1>4. Typed' BY <1>1, <1>2, <1>3 DEF Typed
<1>5. Shapes' BY <1>1, <1>3 DEF Shapes, Shaped, Writes
<1>6. Met'
  <2>1. Met /\ Live' \subseteq Live /\ \A m \in Live' : jobs'[m] = jobs[m] BY <1>1, <1>3
  <2>2. QED BY <2>1 DEF Met, Meet, Target
<1>7. Sound'
  <2> SUFFICES ASSUME NEW m \in Live', Target(jobs'[m]) \notin unsure
               PROVE  Filled(jobs[m])' /\ Wrote(jobs[m])' /\ ReadIt(jobs[m])'
    BY DEF Sound, Target
  <2>1. m \in Live /\ jobs'[m] = jobs[m] /\ Target(jobs[m]) \notin unsure BY <1>3
  <2>2. Filled(jobs[m]) /\ Wrote(jobs[m]) /\ ReadIt(jobs[m]) BY <1>1, <2>1 DEF Sound
  <2>3. Filled(jobs[m])' BY <2>1, <2>2 DEF Filled, Writes, Target
  <2>4. Wrote(jobs[m])' BY <2>1, <2>2 DEF Wrote, Written, Writes, Home, Target
  <2>5. ReadIt(jobs[m])' BY <2>1, <2>2 DEF ReadIt, Target
  <2>6. QED BY <2>3, <2>4, <2>5
<1>8. Known'
  <2> SUFFICES ASSUME NEW j \in DOMAIN tabs, Home(tabs[j]) \notin unsure, tabs[j].file # NoName,
                      \A m \in Live' : Written(jobs'[m]) => Target(jobs'[m]) # Home(tabs[j])
               PROVE  disk[Home(tabs[j])] = tabs[j].saved
    BY DEF Known, Knows, Home, Written, Writes, Target
  <2>1. \A m \in Live : Written(jobs[m]) => Target(jobs[m]) # Home(tabs[j]) BY <1>3
  <2>2. QED BY <1>1, <2>1 DEF Known, Knows
<1>9. QED BY <1>4, <1>5, <1>6, <1>7, <1>8 DEF IInv

(* A call that goes on to a step at which nothing is known of the disk     *)
(* keeps what is known of the others.                                      *)
LEMMA WentIInv ==
  ASSUME IInv, NEW n \in Live, jobs[n].step # "answer",
         NEW step \in {"fill", "there", "failed"}, Goes(n, step),
         step = "there" => jobs[n].kind = "create",
         UNCHANGED <<disk, temp, tabs, sheet, dialog, unsure>>
  PROVE  IInv'
<1>1. Typed /\ Shapes /\ Met /\ Sound /\ Known BY DEF IInv
<1>2. n \in Slots /\ jobs[n] # None BY DEF Live
<1>3. /\ jobs' \in [Slots -> Job \cup {None}] /\ Live' = Live
      /\ jobs'[n].step = step /\ Target(jobs'[n]) = Target(jobs[n])
      /\ jobs'[n].kind = jobs[n].kind /\ jobs'[n].now = jobs[n].now
      /\ jobs'[n].root = jobs[n].root /\ jobs'[n].name = jobs[n].name
      /\ \A m \in Live : m # n => jobs'[m] = jobs[m]
  BY <1>1, <1>2, Went DEF Live
<1>4. Typed' BY <1>1, <1>3 DEF Typed
<1>5. Shapes' BY <1>1, <1>3 DEF Shapes, Shaped, Writes
<1>6. Met' BY <1>1, <1>3 DEF Met, Meet, Target
<1>7. Sound'
  <2> SUFFICES ASSUME NEW m \in Live, Target(jobs'[m]) \notin unsure
               PROVE  Filled(jobs[m])' /\ Wrote(jobs[m])' /\ ReadIt(jobs[m])'
    BY <1>3 DEF Sound, Target
  <2>1. CASE m = n BY <1>3, <2>1 DEF Filled, Wrote, ReadIt, Written, Writes
  <2>2. CASE m # n
    BY <1>1, <1>3, <2>2 DEF Sound, Filled, Wrote, ReadIt, Written, Writes, Target
  <2>3. QED BY <2>1, <2>2
<1>8. Known'
  <2> SUFFICES ASSUME NEW j \in DOMAIN tabs, Home(tabs[j]) \notin unsure, tabs[j].file # NoName,
                      \A m \in Live' : Written(jobs'[m]) => Target(jobs'[m]) # Home(tabs[j])
               PROVE  disk[Home(tabs[j])] = tabs[j].saved
    BY DEF Known, Knows, Home, Written, Writes, Target
  <2>1. \A m \in Live : Written(jobs[m]) => Target(jobs[m]) # Home(tabs[j])
    BY <1>3 DEF Written
  <2>2. QED BY <1>1, <2>1 DEF Known, Knows
<1>9. QED BY <1>4, <1>5, <1>6, <1>7, <1>8 DEF IInv

(* Two writes, or a write and a read or removal of its file, meet.         *)
LEMMA Meeting ==
  ASSUME IInv, NEW n \in Live, NEW m \in Live, n # m, Target(jobs[n]) = Target(jobs[m]),
         jobs[n].kind \notin Answers, jobs[m].kind \notin Answers,
         jobs[n].kind # "read" \/ jobs[m].kind # "read"
  PROVE  Target(jobs[n]) \in unsure
<1>1. Meet(jobs[n], jobs[m]) BY DEF Meet, Target
<1>2. QED BY <1>1 DEF IInv, Met

(* Looking whether the file is there breaks nothing.                       *)
LEMMA StatIInv == \A n \in Slots : IInv /\ Stat(n) => IInv'
<1> SUFFICES ASSUME NEW n \in Slots, IInv, Stat(n) PROVE IInv' OBVIOUS
<1>1. n \in Live /\ jobs[n].step = "stat" BY DEF Stat, Live
<1>2. jobs[n].kind = "create" BY <1>1 DEF IInv, Shapes, Shaped
<1>3. QED BY <1>1, <1>2, WentIInv DEF Stat

(* Nor does the temporary file: another call on this file would meet.      *)
LEMMA FillIInv == \A n \in Slots : IInv /\ Fill(n) => IInv'
<1> SUFFICES ASSUME NEW n \in Slots, IInv, Fill(n) PROVE IInv' OBVIOUS
<1>1. n \in Live /\ Writes(jobs[n]) /\ jobs[n].step = "fill" BY DEF Fill, Live, Writes
<1>2. CASE Goes(n, "failed") /\ UNCHANGED temp BY <1>1, <1>2, WentIInv DEF Fill
<1>3. CASE /\ Goes(n, "rename")
           /\ temp' = [temp EXCEPT ![<<jobs[n].root, jobs[n].name>>] = jobs[n].body]
  <2>1. Typed /\ Shapes /\ Met /\ Sound /\ Known BY DEF IInv
  <2>2. temp' = [temp EXCEPT ![Target(jobs[n])] = jobs[n].body] BY <1>3 DEF Target
  <2>3. Target(jobs[n]) \in Roots \X Names /\ jobs[n].body \in Texts
    BY <1>1, <2>1, Places DEF Job
  <2>4. /\ jobs' \in [Slots -> Job \cup {None}] /\ Live' = Live
        /\ jobs'[n].step = "rename" /\ Target(jobs'[n]) = Target(jobs[n])
        /\ jobs'[n].kind = jobs[n].kind /\ jobs'[n].now = jobs[n].now
        /\ jobs'[n].root = jobs[n].root /\ jobs'[n].name = jobs[n].name
        /\ jobs'[n].body = jobs[n].body /\ \A m \in Live : m # n => jobs'[m] = jobs[m]
    BY <1>1, <1>3, <2>1, Went DEF Live
  <2>5. UNCHANGED <<disk, tabs, sheet, dialog, unsure>> BY DEF Fill
  <2>6. temp' \in [Roots \X Names -> Texts \cup {Absent}] BY <2>1, <2>2, <2>3 DEF Typed
  <2>7. Typed' BY <2>1, <2>4, <2>5, <2>6 DEF Typed
  <2>8. Shapes' BY <1>1, <2>1, <2>4 DEF Shapes, Shaped, Writes, Answers
  <2>9. Met' BY <2>1, <2>4, <2>5 DEF Met, Meet, Target
  <2>10. Sound'
    <3> SUFFICES ASSUME NEW m \in Live, Target(jobs'[m]) \notin unsure
                 PROVE  Filled(jobs[m])' /\ Wrote(jobs[m])' /\ ReadIt(jobs[m])'
      BY <2>4, <2>5 DEF Sound, Target
    <3>1. CASE m = n
      <4>1. temp'[Target(jobs[n])] = jobs[n].body BY <2>1, <2>2, <2>3 DEF Typed
      <4>2. Filled(jobs[m])' BY <2>4, <3>1, <4>1 DEF Filled, Target
      <4>3. QED BY <2>4, <3>1, <4>2 DEF Wrote, ReadIt, Written
    <3>2. CASE m # n
      <4>1. jobs'[m] = jobs[m] BY <2>4, <3>2
      <4>2. Filled(jobs[m]) /\ Wrote(jobs[m]) /\ ReadIt(jobs[m])
        BY <2>1, <4>1 DEF Sound
      <4>3. (Wrote(jobs[m]) /\ ReadIt(jobs[m]))'
        BY <2>5, <4>1, <4>2 DEF Wrote, ReadIt, Written, Writes, Target
      <4>4. Writes(jobs[m]) => Target(jobs[m]) # Target(jobs[n])
        BY <1>1, <3>2, <4>1, Meeting DEF Writes, Answers
      <4>5. Target(jobs[m]) \in Roots \X Names BY <2>1, Places
      <4>6. Writes(jobs[m]) => temp'[Target(jobs[m])] = temp[Target(jobs[m])]
        BY <2>1, <2>2, <4>4, <4>5 DEF Typed
      <4>7. Filled(jobs[m])' BY <4>1, <4>2, <4>6 DEF Filled, Writes, Target
      <4>8. QED BY <4>3, <4>7
    <3>3. QED BY <3>1, <3>2
  <2>11. Known'
    <3> SUFFICES ASSUME NEW j \in DOMAIN tabs, Home(tabs[j]) \notin unsure, tabs[j].file # NoName,
                        \A m \in Live : Written(jobs'[m]) => Target(jobs'[m]) # Home(tabs[j])
                 PROVE  disk[Home(tabs[j])] = tabs[j].saved
      BY <2>4, <2>5 DEF Known, Knows, Home, Written, Writes, Target
    <3>1. \A m \in Live : Written(jobs[m]) => Target(jobs[m]) # Home(tabs[j])
      BY <1>1, <2>4 DEF Written
    <3>2. QED BY <2>1, <3>1 DEF Known, Knows
  <2>12. QED BY <2>7, <2>8, <2>9, <2>10, <2>11 DEF IInv
<1>4. QED BY <1>2, <1>3 DEF Fill

(* The file in its place is what its tab asked to write, and no other tab  *)
(* with the file is still sure of it.                                      *)
LEMMA RenameIInv == \A n \in Slots : IInv /\ Rename(n) => IInv'
<1> SUFFICES ASSUME NEW n \in Slots, IInv, Rename(n) PROVE IInv' OBVIOUS
<1> DEFINE place == Target(jobs[n])
<1>1. Typed /\ Shapes /\ Met /\ Sound /\ Known BY DEF IInv
<1>2. n \in Live /\ jobs[n].step = "rename" BY DEF Rename, Live
<1>3. Writes(jobs[n]) BY <1>1, <1>2 DEF Shapes, Shaped
<1>4. place \in Roots \X Names BY <1>1, <1>2, Places
<1>5. /\ temp' = [temp EXCEPT ![place] = Absent]
      /\ \/ temp[place] = Absent /\ Goes(n, "failed") /\ UNCHANGED <<disk, unsure>>
         \/ /\ temp[place] # Absent /\ Goes(n, "answer")
            /\ disk' = [disk EXCEPT ![place] = temp[place]]
            /\ unsure' = unsure \cup
                 IF \E i \in DOMAIN tabs \ {jobs[n].now} : Home(tabs[i]) = place
                 THEN {place} ELSE {}
      /\ UNCHANGED <<tabs, sheet, dialog>>
  BY DEF Rename, Target, Home
<1>6. CASE temp[place] = Absent
  <2>1. temp' = temp BY <1>1, <1>4, <1>5, <1>6 DEF Typed
  <2>2. QED BY <1>2, <1>5, <1>6, <2>1, WentIInv
<1>7. CASE temp[place] # Absent
  <2>1. /\ jobs' \in [Slots -> Job \cup {None}] /\ Live' = Live
        /\ jobs'[n].step = "answer" /\ Target(jobs'[n]) = Target(jobs[n])
        /\ jobs'[n].kind = jobs[n].kind /\ jobs'[n].now = jobs[n].now
        /\ jobs'[n].root = jobs[n].root /\ jobs'[n].name = jobs[n].name
        /\ jobs'[n].body = jobs[n].body /\ \A m \in Live : m # n => jobs'[m] = jobs[m]
    BY <1>1, <1>2, <1>5, <1>7, Went DEF Live
  <2>2. /\ disk' = [disk EXCEPT ![place] = temp[place]]
        /\ unsure \subseteq unsure' /\ unsure' \subseteq Roots \X Names
        /\ place \notin unsure' =>
             \A i \in DOMAIN tabs : Home(tabs[i]) = place => i = jobs[n].now
    BY <1>1, <1>4, <1>5, <1>7 DEF Typed
  <2>3. disk' \in [Roots \X Names -> Texts \cup {Absent}]
        /\ temp' \in [Roots \X Names -> Texts \cup {Absent}]
        /\ disk'[place] = temp[place]
        /\ \A p \in Roots \X Names : p # place => disk'[p] = disk[p] /\ temp'[p] = temp[p]
    BY <1>1, <1>4, <1>5, <2>2 DEF Typed
  <2>4. Typed' BY <1>1, <1>5, <2>1, <2>2, <2>3 DEF Typed
  <2>5. Shapes' BY <1>1, <1>3, <2>1 DEF Shapes, Shaped, Writes, Answers
  <2>6. Met' BY <1>1, <2>1, <2>2 DEF Met, Meet, Target
  <2>7. Sound'
    <3> SUFFICES ASSUME NEW m \in Live, Target(jobs'[m]) \notin unsure'
                 PROVE  Filled(jobs[m])' /\ Wrote(jobs[m])' /\ ReadIt(jobs[m])'
      BY <2>1 DEF Sound, Target
    <3>0. Target(jobs'[m]) = Target(jobs[m]) BY <2>1
    <3>1. Filled(jobs[m]) /\ Wrote(jobs[m]) /\ ReadIt(jobs[m])
      BY <1>1, <2>2, <3>0 DEF Sound
    <3>2. CASE m = n
      <4>1. disk'[place] = jobs[n].body BY <1>2, <1>3, <2>3, <3>1, <3>2 DEF Filled
      <4>2. Wrote(jobs[m])' BY <1>5, <2>1, <2>2, <3>0, <3>2, <4>1 DEF Wrote, Target, Home
      <4>3. QED BY <1>3, <2>1, <3>2, <4>2 DEF Filled, ReadIt, Writes
    <3>3. CASE m # n
      <4>1. jobs'[m] = jobs[m] BY <2>1, <3>3
      <4>2. jobs[m].kind \notin Answers => Target(jobs[m]) # place
        BY <1>2, <1>3, <2>2, <3>0, <3>3, Meeting DEF Writes, Answers
      <4>3. Target(jobs[m]) \in Roots \X Names BY <1>1, Places
      <4>4. jobs[m].kind \notin Answers => disk'[Target(jobs[m])] = disk[Target(jobs[m])]
                                     /\ temp'[Target(jobs[m])] = temp[Target(jobs[m])]
        BY <2>3, <4>2, <4>3
      <4>5. Filled(jobs[m])'
        BY <3>1, <4>1, <4>4 DEF Filled, Writes, Answers, Target
      <4>6. Wrote(jobs[m])'
        BY <1>5, <3>1, <4>1, <4>4 DEF Wrote, Written, Writes, Answers, Target, Home
      <4>7. ReadIt(jobs[m])' BY <3>1, <4>1, <4>4 DEF ReadIt, Answers, Target
      <4>8. QED BY <4>5, <4>6, <4>7
    <3>4. QED BY <3>2, <3>3
  <2>8. Known'
    <3> SUFFICES ASSUME NEW j \in DOMAIN tabs, Home(tabs[j]) \notin unsure', tabs[j].file # NoName,
                        \A m \in Live : Written(jobs'[m]) => Target(jobs'[m]) # Home(tabs[j])
                 PROVE  disk'[Home(tabs[j])] = tabs[j].saved
      BY <1>5, <2>1 DEF Known, Knows, Home, Written, Writes, Target
    <3>1. Home(tabs[j]) # place BY <1>2, <1>3, <2>1 DEF Written, Writes
    <3>2. \A m \in Live : Written(jobs[m]) => Target(jobs[m]) # Home(tabs[j])
      BY <1>2, <2>1 DEF Written
    <3>3. disk[Home(tabs[j])] = tabs[j].saved BY <1>1, <2>2, <3>2 DEF Known, Knows
    <3>4. Home(tabs[j]) \in Roots \X Names BY <1>1, Places
    <3>5. QED BY <2>3, <3>1, <3>3, <3>4
  <2>9. QED BY <2>4, <2>5, <2>6, <2>7, <2>8 DEF IInv
<1>8. QED BY <1>6, <1>7

(* What was read is what is there, until something happens to it.          *)
LEMMA ReadBackIInv == \A n \in Slots : IInv /\ ReadBack(n) => IInv'
<1> SUFFICES ASSUME NEW n \in Slots, IInv, ReadBack(n) PROVE IInv' OBVIOUS
<1>1. Typed /\ Shapes /\ Met /\ Sound /\ Known BY DEF IInv
<1>2. n \in Live /\ jobs[n].kind = "read" /\ jobs[n].step = "fill" BY DEF ReadBack, Live
<1>3. UNCHANGED <<disk, temp, tabs, sheet, dialog, unsure>> BY DEF ReadBack
<1>4. CASE disk[Target(jobs[n])] = Absent
  <2>1. Goes(n, "failed") BY <1>4 DEF ReadBack, Goes, Target
  <2>2. QED BY <1>2, <1>3, <2>1, WentIInv
<1>5. CASE disk[Target(jobs[n])] # Absent
  <2> DEFINE job == [jobs[n] EXCEPT !.step = "answer", !.body = disk[Target(jobs[n])]]
  <2>0. jobs[n] \in Job /\ Target(jobs[n]) \in Roots \X Names BY <1>1, <1>2, Places
  <2>1. jobs' = [jobs EXCEPT ![n] = job] BY <1>5 DEF ReadBack, Target
  <2>2. disk[Target(jobs[n])] \in Texts BY <1>1, <1>5, <2>0 DEF Typed
  <2>3. job \in Job BY <2>0, <2>2 DEF Job
  <2>4. None \notin Job BY DEF None, Job
  <2>5. jobs'[n] = job /\ \A m \in Slots : m # n => jobs'[m] = jobs[m]
    BY <1>1, <2>1 DEF Typed
  <2>6. /\ jobs' \in [Slots -> Job \cup {None}] /\ Live' = Live
        /\ \A m \in Live : m # n => jobs'[m] = jobs[m]
    BY <1>1, <1>2, <2>1, <2>3, <2>4, <2>5 DEF Typed, Live
  <2>7. /\ jobs'[n].kind = "read" /\ jobs'[n].now = jobs[n].now
        /\ jobs'[n].step = "answer" /\ jobs'[n].body = disk[Target(jobs[n])]
        /\ jobs'[n].root = jobs[n].root /\ jobs'[n].name = jobs[n].name
        /\ Target(jobs'[n]) = Target(jobs[n])
    BY <1>2, <2>0, <2>5 DEF Job, Target
  <2> HIDE DEF job
  <2>8. Typed' BY <1>1, <1>3, <2>6, <2>7 DEF Typed
  <2>9. Shapes' BY <1>1, <2>6, <2>7 DEF Shapes, Shaped, Writes, Answers
  <2>10. Met' BY <1>1, <1>2, <1>3, <2>6, <2>7 DEF Met, Meet, Target
  <2>11. Sound'
    <3> SUFFICES ASSUME NEW m \in Live, Target(jobs'[m]) \notin unsure
                 PROVE  Filled(jobs[m])' /\ Wrote(jobs[m])' /\ ReadIt(jobs[m])'
      BY <1>3, <2>6 DEF Sound, Target
    <3>1. CASE m = n
      BY <1>3, <2>7, <3>1 DEF Filled, Wrote, ReadIt, Written, Writes, Target
    <3>2. CASE m # n
      BY <1>1, <1>3, <2>6, <3>2 DEF Sound, Filled, Wrote, ReadIt, Written, Writes, Target
    <3>3. QED BY <3>1, <3>2
  <2>12. Known'
    <3> SUFFICES ASSUME NEW j \in DOMAIN tabs, Home(tabs[j]) \notin unsure, tabs[j].file # NoName,
                        \A m \in Live : Written(jobs'[m]) => Target(jobs'[m]) # Home(tabs[j])
                 PROVE  disk[Home(tabs[j])] = tabs[j].saved
      BY <1>3, <2>6 DEF Known, Knows, Home, Written, Writes, Target
    <3>1. \A m \in Live : Written(jobs[m]) => Target(jobs[m]) # Home(tabs[j])
      BY <1>2, <2>6 DEF Written
    <3>2. QED BY <1>1, <3>1 DEF Known, Knows
  <2>13. QED BY <2>8, <2>9, <2>10, <2>11, <2>12 DEF IInv
<1>6. QED BY <1>4, <1>5

(* A file that goes makes the tab that has it unsure of it.                *)
LEMMA RemoveIInv == \A n \in Slots : IInv /\ Remove(n) => IInv'
<1> SUFFICES ASSUME NEW n \in Slots, IInv, Remove(n) PROVE IInv' OBVIOUS
<1> DEFINE place == Target(jobs[n])
<1>1. Typed /\ Shapes /\ Met /\ Sound /\ Known BY DEF IInv
<1>2. n \in Live /\ jobs[n].kind = "remove" /\ jobs[n].step = "fill" BY DEF Remove, Live
<1>3. place \in Roots \X Names BY <1>1, <1>2, Places
<1>4. /\ disk' = [disk EXCEPT ![place] = Absent]
      /\ unsure' = unsure \cup
           IF \E i \in DOMAIN tabs : Home(tabs[i]) = place THEN {place} ELSE {}
      /\ Goes(n, "failed") \/ Goes(n, "answer")
      /\ UNCHANGED <<temp, tabs, sheet, dialog>>
  BY DEF Remove, Target, Home
<1>5. /\ jobs' \in [Slots -> Job \cup {None}] /\ Live' = Live
      /\ jobs'[n].step \in {"failed", "answer"} /\ Target(jobs'[n]) = Target(jobs[n])
      /\ jobs'[n].kind = jobs[n].kind /\ jobs'[n].now = jobs[n].now
      /\ jobs'[n].root = jobs[n].root /\ jobs'[n].name = jobs[n].name
      /\ \A m \in Live : m # n => jobs'[m] = jobs[m]
  BY <1>1, <1>2, <1>4, Went DEF Live
<1>6. /\ unsure \subseteq unsure' /\ unsure' \subseteq Roots \X Names
      /\ place \notin unsure' => \A i \in DOMAIN tabs : Home(tabs[i]) # place
  BY <1>1, <1>3, <1>4 DEF Typed
<1>7. disk' \in [Roots \X Names -> Texts \cup {Absent}]
      /\ \A p \in Roots \X Names : p # place => disk'[p] = disk[p]
  BY <1>1, <1>3, <1>4 DEF Typed
<1>8. Typed' BY <1>1, <1>4, <1>5, <1>6, <1>7 DEF Typed
<1>9. Shapes' BY <1>1, <1>2, <1>5 DEF Shapes, Shaped, Writes, Answers
<1>10. Met' BY <1>1, <1>5, <1>6 DEF Met, Meet, Target
<1>11. Sound'
  <2> SUFFICES ASSUME NEW m \in Live, Target(jobs'[m]) \notin unsure'
               PROVE  Filled(jobs[m])' /\ Wrote(jobs[m])' /\ ReadIt(jobs[m])'
    BY <1>5 DEF Sound, Target
  <2>1. CASE m = n BY <1>2, <1>5, <2>1 DEF Filled, Wrote, ReadIt, Written, Writes
  <2>2. CASE m # n
    <3>1. jobs'[m] = jobs[m] BY <1>5, <2>2
    <3>2. Filled(jobs[m]) /\ Wrote(jobs[m]) /\ ReadIt(jobs[m])
      BY <1>1, <1>6, <3>1 DEF Sound
    <3>3. jobs[m].kind \notin Answers => Target(jobs[m]) # place
      BY <1>2, <1>6, <2>2, <3>1, Meeting DEF Answers
    <3>4. Target(jobs[m]) \in Roots \X Names BY <1>1, Places
    <3>5. jobs[m].kind \notin Answers => disk'[Target(jobs[m])] = disk[Target(jobs[m])]
      BY <1>7, <3>3, <3>4
    <3>6. Filled(jobs[m])' BY <1>4, <3>1, <3>2 DEF Filled, Writes, Target
    <3>7. Wrote(jobs[m])'
      BY <1>4, <3>1, <3>2, <3>5 DEF Wrote, Written, Writes, Answers, Target, Home
    <3>8. ReadIt(jobs[m])' BY <3>1, <3>2, <3>5 DEF ReadIt, Answers, Target
    <3>9. QED BY <3>6, <3>7, <3>8
  <2>3. QED BY <2>1, <2>2
<1>12. Known'
  <2> SUFFICES ASSUME NEW j \in DOMAIN tabs, Home(tabs[j]) \notin unsure', tabs[j].file # NoName,
                      \A m \in Live : Written(jobs'[m]) => Target(jobs'[m]) # Home(tabs[j])
               PROVE  disk'[Home(tabs[j])] = tabs[j].saved
    BY <1>4, <1>5 DEF Known, Knows, Home, Written, Writes, Target
  <2>1. \A m \in Live : Written(jobs[m]) => Target(jobs[m]) # Home(tabs[j])
    BY <1>2, <1>5 DEF Written, Writes
  <2>2. disk[Home(tabs[j])] = tabs[j].saved BY <1>1, <1>6, <2>1 DEF Known, Knows
  <2>3. Home(tabs[j]) \in Roots \X Names /\ Home(tabs[j]) # place BY <1>1, <1>6, Places
  <2>4. QED BY <1>7, <2>2, <2>3
<1>13. QED BY <1>8, <1>9, <1>10, <1>11, <1>12 DEF IInv

\* The same call, wherever its tab is by now.
Same(a, b) == /\ a.kind = b.kind /\ a.step = b.step /\ a.body = b.body
              /\ a.root = b.root /\ a.name = b.name

(* When only the tabs change, and calls are answered that wrote nothing,   *)
(* a tab knows its file if it is new, unsure, right, or was a tab before.  *)
LEMMA StillKnown ==
  ASSUME IInv, UNCHANGED disk, unsure \subseteq unsure',
         \A m \in Live' : m \in Live /\ Same(jobs'[m], jobs[m]),
         \A m \in Live : Written(jobs[m]) => m \in Live',
         \A j \in DOMAIN tabs' :
           \/ tabs'[j].file = NoName \/ Home(tabs'[j]) \in unsure'
           \/ disk[Home(tabs'[j])] = tabs'[j].saved
           \/ \E i \in DOMAIN tabs : /\ Home(tabs'[j]) = Home(tabs[i])
                                     /\ tabs'[j].saved = tabs[i].saved
  PROVE  Known'
<1> SUFFICES ASSUME NEW j \in DOMAIN tabs', Home(tabs'[j]) \notin unsure', tabs'[j].file # NoName,
                    \A m \in Live' : Written(jobs'[m]) => Target(jobs'[m]) # Home(tabs'[j]),
                    NEW i \in DOMAIN tabs,
                    Home(tabs'[j]) = Home(tabs[i]), tabs'[j].saved = tabs[i].saved
             PROVE  disk[Home(tabs[i])] = tabs[i].saved
  BY DEF Known, Knows, Home, Written, Writes, Target
<1>1. \A m \in Live : Written(jobs[m]) => Target(jobs[m]) # Home(tabs[i])
  BY DEF Written, Writes, Same, Target
<1>2. tabs[i].file # NoName BY DEF Home
<1>3. QED BY <1>1, <1>2 DEF IInv, Known, Knows

(* And the calls know what they knew, when no other tab got their file.    *)
LEMMA TabsIInv ==
  ASSUME IInv, Typed', Known', UNCHANGED <<disk, temp>>, unsure \subseteq unsure',
         \A m \in Live' : m \in Live /\ Same(jobs'[m], jobs[m]),
         \A m \in Live', j \in DOMAIN tabs' :
           /\ Written(jobs[m]) /\ Home(tabs'[j]) = Target(jobs[m])
           /\ Target(jobs[m]) \notin unsure'
           => j = jobs'[m].now
  PROVE  IInv'
<1>1. Shapes /\ Met /\ Sound BY DEF IInv
<1>2. Shapes' BY <1>1 DEF Shapes, Shaped, Writes, Same
<1>3. Met' BY <1>1 DEF Met, Meet, Target, Same
<1>4. Sound'
  <2> SUFFICES ASSUME NEW m \in Live', Target(jobs'[m]) \notin unsure'
               PROVE  Filled(jobs[m])' /\ Wrote(jobs[m])' /\ ReadIt(jobs[m])'
    BY DEF Sound, Target
  <2>1. m \in Live /\ Target(jobs'[m]) = Target(jobs[m]) /\ Target(jobs[m]) \notin unsure
    BY DEF Same, Target
  <2>2. Filled(jobs[m]) /\ Wrote(jobs[m]) /\ ReadIt(jobs[m]) BY <1>1, <2>1 DEF Sound
  <2>3. Filled(jobs[m])' BY <2>2 DEF Filled, Writes, Target, Same
  <2>4. ReadIt(jobs[m])' BY <2>2 DEF ReadIt, Target, Same
  <2>5. Written(jobs'[m]) => Written(jobs[m]) /\ disk[Target(jobs[m])] = jobs'[m].body
    BY <2>2 DEF Wrote, Written, Writes, Same
  <2>6. Wrote(jobs[m])' BY <2>1, <2>5 DEF Wrote, Written, Writes, Target, Home
  <2>7. QED BY <2>3, <2>4, <2>6
<1>5. QED BY <1>2, <1>3, <1>4 DEF IInv

(* A new tab comes behind the others, and in front.                        *)
LEMMA Grown ==
  ASSUME Typed, NEW new \in Tab, OpenSheet(new)
  PROVE  /\ tabs' \in Seq(Tab) /\ Len(tabs') = Len(tabs) + 1 /\ Len(tabs') \in 1..MaxTabs
         /\ sheet' = Len(tabs) + 1 /\ DOMAIN tabs' = 1..(Len(tabs) + 1)
         /\ \A j \in 1..Len(tabs) : tabs'[j] = tabs[j]
         /\ tabs'[Len(tabs) + 1] = new
<1>1. tabs \in Seq(Tab) /\ Len(tabs) \in Nat BY DEF Typed
<1>2. tabs' = Append(tabs, new) /\ sheet' = Len(tabs) + 1 /\ Len(tabs) < MaxTabs BY DEF OpenSheet
<1>3. Len(tabs') = Len(tabs) + 1 /\ tabs' \in Seq(Tab) BY <1>1, <1>2, AppendProperties
<1>4. QED BY <1>1, <1>2, <1>3, FilesAssumption, AppendProperties

(* What the screen does to its tabs, but for the answers, breaks nothing.  *)
LEMMA KeysIInv ==
  IInv /\ (Edit \/ NewSheet \/ GotoSheet \/ Aim \/ ConfirmDeleteFile \/ ConfirmClose \/ Back)
    => IInv'
<1> SUFFICES ASSUME IInv,
                    Edit \/ NewSheet \/ GotoSheet \/ Aim \/ ConfirmDeleteFile \/ ConfirmClose
                      \/ Back
             PROVE  IInv'
  OBVIOUS
<1>1. Typed /\ Shapes /\ Met /\ Sound /\ Known BY DEF IInv
<1>2. UNCHANGED <<disk, temp, jobs>> /\ Live' = Live
  BY DEF Edit, NewSheet, GotoSheet, Aim, ConfirmDeleteFile, ConfirmClose, Back, Live
<1>3. \A m \in Live' : m \in Live /\ Same(jobs'[m], jobs[m]) /\ jobs'[m].now = jobs[m].now
  BY <1>2 DEF Same
<1>4. /\ \A m \in Live : jobs[m].now =< Len(tabs)
      /\ \A m \in Live, j \in DOMAIN tabs :
           /\ Written(jobs[m]) /\ Home(tabs[j]) = Target(jobs[m])
           /\ Target(jobs[m]) \notin unsure
           => j = jobs[m].now
  BY <1>1 DEF Typed, Sound, Wrote
<1>5. Len(tabs) \in Nat /\ DOMAIN tabs = 1..Len(tabs) /\ Root \in Roots /\ Front \in Tab
      /\ Front = tabs[sheet] /\ sheet \in DOMAIN tabs /\ AnyName \in Names
  BY <1>1, Places
<1>6. \A m \in Live : jobs[m].name # NoName /\ Target(jobs[m])[2] # NoName
  BY <1>1, Places, FilesAssumption DEF Job, Target
<1>7. \A on \in Roots : NewWorksheet(on) \in Tab /\ NewWorksheet(on).file = NoName
  BY FilesAssumption DEF NewWorksheet, Tab, Texts
<1>8. ASSUME NEW on \in Roots, OpenSheet(NewWorksheet(on)), UNCHANGED <<dialog, unsure>>
      PROVE  IInv'
  <2> DEFINE new == NewWorksheet(on)
  <2>1. /\ tabs' \in Seq(Tab) /\ Len(tabs') = Len(tabs) + 1 /\ Len(tabs') \in 1..MaxTabs
        /\ sheet' = Len(tabs) + 1 /\ DOMAIN tabs' = 1..(Len(tabs) + 1)
        /\ \A j \in 1..Len(tabs) : tabs'[j] = tabs[j]
        /\ tabs'[Len(tabs) + 1] = new
    BY <1>1, <1>7, <1>8, Grown
  <2>2. tabs'[Len(tabs) + 1].file = NoName BY <1>7, <2>1
  <2>3. \A j \in DOMAIN tabs' : j # Len(tabs) + 1 => j \in DOMAIN tabs /\ tabs'[j] = tabs[j]
    BY <1>5, <2>1
  <2>4. Typed'
    <3>1. dialog # None => dialog \in Dialog /\ dialog.now \in Nat /\ dialog.now =< Len(tabs)
      BY <1>1, FilesAssumption DEF Typed, Dialog
    <3>2. \A m \in Live : jobs[m].now \in Nat /\ jobs[m].now =< Len(tabs)
      BY <1>1, Places, FilesAssumption DEF Typed, Job
    <3>3. sheet' \in 1..Len(tabs') BY <1>5, <2>1
    <3>4. QED BY <1>1, <1>2, <1>5, <1>8, <2>1, <3>1, <3>2, <3>3 DEF Typed
  <2>5. Known' BY <1>2, <1>3, <1>8, <2>2, <2>3, StillKnown
  <2>6. ASSUME NEW m \in Live, NEW j \in DOMAIN tabs', Written(jobs[m]),
               Home(tabs'[j]) = Target(jobs[m]), Target(jobs[m]) \notin unsure
        PROVE  j = jobs[m].now
    <3>1. j # Len(tabs) + 1 BY <1>6, <2>2, <2>6 DEF Home, Target
    <3>2. QED BY <1>4, <2>3, <2>6, <3>1
  <2>7. QED BY <1>2, <1>3, <1>8, <2>4, <2>5, <2>6, TabsIInv
<1>9. ASSUME NEW new \in Tab, tabs' = [tabs EXCEPT ![sheet] = new], UNCHANGED <<sheet, dialog>>,
             new.saved = Front.saved, new.file = Front.file,
             unsure \subseteq unsure', unsure' \subseteq Roots \X Names,
             new.file = NoName \/ Home(new) \in unsure' \/ Home(new) = Home(Front)
      PROVE  IInv'
  <2>1. tabs' \in Seq(Tab) /\ Len(tabs') = Len(tabs) /\ DOMAIN tabs' = DOMAIN tabs
    BY <1>1, <1>5, <1>9 DEF Typed
  <2>2. tabs'[sheet] = new /\ \A j \in DOMAIN tabs : j # sheet => tabs'[j] = tabs[j]
    BY <1>1, <1>5, <1>9 DEF Typed
  <2>3. Typed' BY <1>1, <1>2, <1>4, <1>9, <2>1 DEF Typed
  <2>4. Known' BY <1>2, <1>3, <1>5, <1>9, <2>1, <2>2, StillKnown
  <2>5. ASSUME NEW m \in Live, NEW j \in DOMAIN tabs', Written(jobs[m]),
               Home(tabs'[j]) = Target(jobs[m]), Target(jobs[m]) \notin unsure'
        PROVE  j = jobs[m].now
    <3>1. Home(tabs'[j]) = Home(tabs[j])
      BY <1>5, <1>6, <1>9, <2>1, <2>2, <2>5 DEF Home, Target
    <3>2. QED BY <1>4, <1>9, <2>1, <2>5, <3>1
  <2>6. QED BY <1>2, <1>3, <1>9, <2>3, <2>4, <2>5, TabsIInv
<1>10. ASSUME UNCHANGED <<tabs, unsure>>, sheet' \in DOMAIN tabs,
              dialog' \in Dialog \cup {None}, dialog' # None => dialog'.now =< Len(tabs)
       PROVE  IInv'
  <2>1. Typed' BY <1>1, <1>2, <1>4, <1>5, <1>10 DEF Typed
  <2>2. Known' BY <1>2, <1>3, <1>10, StillKnown
  <2>3. QED BY <1>2, <1>3, <1>4, <1>10, <2>1, <2>2, TabsIInv
<1>11. CASE Edit
  <2>1. PICK text \in Texts : tabs' = [tabs EXCEPT ![sheet].text = text] BY <1>11 DEF Edit
  <2> DEFINE new == [Front EXCEPT !.text = text]
  <2>2. tabs' = [tabs EXCEPT ![sheet] = new] BY <1>5, <2>1
  <2>3. new \in Tab /\ new.saved = Front.saved /\ new.file = Front.file /\ Home(new) = Home(Front)
    BY <1>5 DEF Tab, Home
  <2> HIDE DEF new
  <2>4. unsure \subseteq Roots \X Names BY <1>1 DEF Typed
  <2>5. QED BY <1>9, <1>11, <2>2, <2>3, <2>4 DEF Edit
<1>12. CASE NewSheet BY <1>5, <1>8, <1>12 DEF NewSheet
<1>13. CASE GotoSheet BY <1>1, <1>10, <1>13 DEF GotoSheet, Typed
<1>14. CASE Aim
  <2>1. PICK on \in Roots \ {Root} :
          \/ OpenSheet(NewWorksheet(on)) /\ UNCHANGED unsure
          \/ /\ tabs' = [tabs EXCEPT ![sheet].on = on]
             /\ unsure' = unsure \cup (IF Front.file = NoName THEN {} ELSE {<<on, Front.file>>})
             /\ UNCHANGED sheet
    BY <1>14 DEF Aim
  <2>2. CASE OpenSheet(NewWorksheet(on)) /\ UNCHANGED unsure
    BY <1>8, <1>14, <2>2 DEF Aim
  <2>3. CASE /\ tabs' = [tabs EXCEPT ![sheet].on = on]
             /\ unsure' = unsure \cup (IF Front.file = NoName THEN {} ELSE {<<on, Front.file>>})
             /\ UNCHANGED sheet
    <3> DEFINE new == [Front EXCEPT !.on = on]
    <3>1. tabs' = [tabs EXCEPT ![sheet] = new] BY <1>5, <2>3
    <3>2. new \in Tab /\ new.saved = Front.saved /\ new.file = Front.file
          /\ Home(new) = <<on, Front.file>>
      BY <1>5 DEF Tab, Home
    <3> HIDE DEF new
    <3>3. unsure' \subseteq Roots \X Names
      BY <1>1, <1>5, <2>3 DEF Typed, Tab
    <3>4. UNCHANGED dialog BY <1>14 DEF Aim
    <3>5. new.file = NoName \/ Home(new) \in unsure' BY <2>3, <3>2
    <3>6. QED BY <1>9, <2>3, <3>1, <3>2, <3>3, <3>4, <3>5
  <2>4. QED BY <2>1, <2>2, <2>3
<1>15. CASE ConfirmDeleteFile
  <2>1. PICK name \in Names : Ask("unwanted", Root, name, 1, 1) BY <1>15 DEF ConfirmDeleteFile
  <2>2. dialog' \in Dialog /\ dialog'.now =< Len(tabs)
    BY <1>1, <1>5, <2>1, FilesAssumption DEF Ask, Dialog, Answers, Typed
  <2>3. QED BY <1>5, <1>10, <1>15, <2>2 DEF ConfirmDeleteFile
<1>16. CASE ConfirmClose
  <2>1. dialog' \in Dialog /\ dialog'.now =< Len(tabs)
    BY <1>1, <1>5, <1>16, FilesAssumption DEF ConfirmClose, Ask, Dialog, Answers, Typed
  <2>2. QED BY <1>5, <1>10, <1>16, <2>1 DEF ConfirmClose
<1>17. CASE Back BY <1>5, <1>10, <1>17 DEF Back
<1>18. QED BY <1>11, <1>12, <1>13, <1>14, <1>15, <1>16, <1>17

(* What is asked for begins with the file and the tab it is for.           *)
LEMMA StartsIInv ==
  IInv /\ (Choose \/ SaveSheet \/ ReadFile) => IInv'
<1> SUFFICES ASSUME IInv, Choose \/ SaveSheet \/ ReadFile PROVE IInv' OBVIOUS
<1>1. Typed BY DEF IInv
<1>2. Len(tabs) \in Nat /\ DOMAIN tabs = 1..Len(tabs) /\ Root \in Roots /\ Front \in Tab
      /\ Front = tabs[sheet] /\ sheet \in DOMAIN tabs /\ AnyName \in Names
      /\ Len(tabs) \in 1..MaxTabs /\ MaxTabs \in Nat
  BY <1>1, Places, FilesAssumption DEF Typed
<1>3. 0 \in Texts BY FilesAssumption DEF Texts
<1>4. ASSUME NEW job \in Job, Start(job), Shaped(job), job.now =< Len(tabs),
             job.step \in {"stat", "fill"} \/ job.kind \in Answers,
             UNCHANGED <<disk, temp, tabs, sheet>>, dialog' = dialog \/ dialog' = None
      PROVE  IInv'
  <2>1. PICK n \in Slots : Free(n) /\ Started(n, job) BY <1>4 DEF Start
  <2>2. jobs[n] = None BY <2>1 DEF Free
  <2>3. QED BY <1>4, <2>1, <2>2, StartedIInv
<1>5. CASE Choose
  <2>1. dialog \in Dialog /\ dialog.now =< Len(tabs) BY <1>1, <1>5 DEF Choose, Typed
  <2> DEFINE job(name) == [Call(dialog.kind, "answer", name, 0, dialog.at, dialog.now, {dialog.root})
                             EXCEPT !.root = dialog.root]
  <2>2. PICK name \in IF dialog.kind = "named" THEN Names ELSE {dialog.name} : Start(job(name))
    BY <1>5 DEF Choose
  <2>3. name \in Names BY <2>1, <2>2 DEF Dialog
  <2>4. job(name) = [kind |-> dialog.kind, step |-> "answer", root |-> dialog.root, name |-> name,
                     body |-> 0, at |-> dialog.at, now |-> dialog.now, over |-> {dialog.root}]
    BY DEF Call
  <2>5. job(name) \in Job
    <3>1. dialog.kind \in Answers /\ dialog.root \in Roots /\ {dialog.root} \in SUBSET Roots
          /\ dialog.at \in 1..MaxTabs /\ dialog.now \in 0..MaxTabs
      BY <2>1 DEF Dialog
    <3>2. QED BY <1>3, <2>3, <2>4, <3>1 DEF Job
  <2>6. job(name).kind \in Answers /\ job(name).step = "answer" /\ job(name).now =< Len(tabs)
    BY <2>1, <2>4 DEF Dialog
  <2>7. Shaped(job(name)) BY <2>6 DEF Shaped
  <2>8. QED BY <1>4, <1>5, <2>2, <2>5, <2>6, <2>7 DEF Choose
<1>6. CASE SaveSheet /\ Front.file # NoName
  <2> DEFINE job == WriteFile(sheet, Front.file, Front.text, sheet, {Root})
  <2>1. Start(job) /\ UNCHANGED <<disk, temp, tabs, sheet, dialog>> BY <1>6 DEF SaveSheet
  <2>2. job = [kind |-> "write", step |-> "fill", root |-> Root, name |-> Front.file,
               body |-> Front.text, at |-> sheet, now |-> sheet, over |-> {Root}]
    BY DEF WriteFile, Call
  <2>3. Front.file \in Names /\ Front.text \in Texts
        /\ sheet \in 1..MaxTabs /\ sheet \in 0..MaxTabs /\ {Root} \in SUBSET Roots
    BY <1>2, <1>6 DEF Tab
  <2>4. job \in Job
    <3> HIDE DEF job
    <3>1. Root \in Roots BY <1>2
    <3>2. QED BY <2>2, <2>3, <3>1 DEF Job
  <2>5. job.step = "fill" /\ job.now =< Len(tabs) /\ Shaped(job)
    BY <1>2, <2>2 DEF Shaped, Writes, Answers
  <2>6. QED BY <1>4, <2>1, <2>4, <2>5
<1>7. CASE SaveSheet /\ Front.file = NoName
  <2>1. Ask("named", Root, AnyName, 1, 1)
        /\ UNCHANGED <<disk, temp, tabs, sheet, jobs, unsure>>
    BY <1>7 DEF SaveSheet
  <2>2. dialog' \in Dialog /\ dialog'.now =< Len(tabs)
    BY <1>2, <2>1 DEF Ask, Dialog, Answers
  <2>3. Live' = Live /\ \A m \in Live : Same(jobs'[m], jobs[m]) /\ jobs'[m].now = jobs[m].now
    BY <2>1 DEF Live, Same
  <2>4. Typed' BY <1>1, <2>1, <2>2, <2>3 DEF Typed
  <2>5. Known' BY <2>1, <2>3, StillKnown
  <2>6. \A m \in Live, j \in DOMAIN tabs :
          /\ Written(jobs[m]) /\ Home(tabs[j]) = Target(jobs[m])
          /\ Target(jobs[m]) \notin unsure
          => j = jobs[m].now
    BY DEF IInv, Sound, Wrote
  <2>7. QED BY <2>1, <2>3, <2>4, <2>5, <2>6, TabsIInv
<1>8. CASE ReadFile
  <2>1. PICK name \in Names : Start(Call("read", "fill", name, 0, 1, 1, {})) BY <1>8 DEF ReadFile
  <2> DEFINE job == Call("read", "fill", name, 0, 1, 1, {})
  <2>2. job = [kind |-> "read", step |-> "fill", root |-> Root, name |-> name, body |-> 0,
               at |-> 1, now |-> 1, over |-> {}]
    BY DEF Call
  <2>3. job \in Job BY <1>2, <1>3, <2>2 DEF Job
  <2>4. job.step = "fill" /\ job.now =< Len(tabs) /\ Shaped(job)
    BY <1>2, <2>2 DEF Shaped, Writes, Answers
  <2>5. QED BY <1>4, <1>8, <2>1, <2>3, <2>4 DEF ReadFile
<1>9. QED BY <1>5, <1>6, <1>7, <1>8

(* So do the calls that follow an answer.                                  *)
LEMMA FollowsIInv ==
  \A n \in Slots : IInv /\ (SaveNamed(n) \/ Overwritten(n) \/ RemoveFile(n)) => IInv'
<1> SUFFICES ASSUME NEW n \in Slots, IInv, SaveNamed(n) \/ Overwritten(n) \/ RemoveFile(n)
             PROVE  IInv'
  OBVIOUS
<1>1. Typed BY DEF IInv
<1>2. n \in Live /\ jobs[n].kind \in Answers
  BY DEF SaveNamed, Overwritten, RemoveFile, Lands, Live, Answers
<1>3. jobs[n] \in Job /\ jobs[n].now =< Len(tabs) BY <1>1, <1>2, Places DEF Typed
<1>4. Len(tabs) \in Nat /\ DOMAIN tabs = 1..Len(tabs) /\ Root \in Roots /\ Front \in Tab
      /\ Front = tabs[sheet] /\ sheet \in DOMAIN tabs
      /\ Len(tabs) \in 1..MaxTabs /\ MaxTabs \in Nat
  BY <1>1, Places, FilesAssumption DEF Typed
<1>5. 0 \in Texts BY FilesAssumption DEF Texts
<1>6. UNCHANGED <<disk, temp, tabs, sheet, dialog>> BY DEF SaveNamed, Overwritten, RemoveFile
<1>7. CASE SaveNamed(n)
  <2> DEFINE job == Call("create", "stat", jobs[n].name, Front.text, sheet, sheet, {})
  <2>1. job = [kind |-> "create", step |-> "stat", root |-> Root, name |-> jobs[n].name,
               body |-> Front.text, at |-> sheet, now |-> sheet, over |-> {}]
    BY DEF Call
  <2>2. Front.text \in Texts /\ jobs[n].name \in Names BY <1>3, <1>4 DEF Tab, Job
  <2>3. job \in Job BY <1>4, <2>1, <2>2 DEF Job
  <2>4. job.step = "stat" /\ job.now =< Len(tabs) /\ Shaped(job)
    BY <1>4, <2>1 DEF Shaped, Writes, Answers
  <2>5. Started(n, job) BY <1>7 DEF SaveNamed
  <2>6. QED BY <1>2, <1>6, <2>3, <2>4, <2>5, StartedIInv
<1>8. CASE Overwritten(n)
  <2> DEFINE at == jobs[n].at
             body == IF at \in DOMAIN tabs THEN tabs[at].text ELSE 0
             job == WriteFile(at, jobs[n].name, body, jobs[n].now, jobs[n].over)
  <2>1. job = [kind |-> "write", step |-> "fill", root |-> Root, name |-> jobs[n].name,
               body |-> body, at |-> at, now |-> jobs[n].now, over |-> jobs[n].over]
    BY DEF WriteFile, Call
  <2>2. body \in Texts
    <3>1. at \in DOMAIN tabs => tabs[at] \in Tab BY <1>1, <1>4, Places
    <3>2. QED BY <1>5, <3>1 DEF Tab
  <2>3. job \in Job BY <1>3, <1>4, <2>1, <2>2 DEF Job
  <2>4. job.step = "fill" /\ job.now =< Len(tabs) /\ Shaped(job)
    BY <1>3, <2>1 DEF Shaped, Writes, Answers
  <2>5. Started(n, job) BY <1>8 DEF Overwritten
  <2>6. QED BY <1>2, <1>6, <2>3, <2>4, <2>5, StartedIInv
<1>9. CASE RemoveFile(n)
  <2> DEFINE job == Call("remove", "fill", jobs[n].name, 0, 1, 1, {})
  <2>1. job = [kind |-> "remove", step |-> "fill", root |-> Root, name |-> jobs[n].name,
               body |-> 0, at |-> 1, now |-> 1, over |-> {}]
    BY DEF Call
  <2>2. job \in Job BY <1>3, <1>4, <1>5, <2>1 DEF Job
  <2>3. job.step = "fill" /\ job.now =< Len(tabs) /\ Shaped(job)
    BY <1>4, <2>1 DEF Shaped, Writes, Answers
  <2>4. Started(n, job) BY <1>9 DEF RemoveFile
  <2>5. QED BY <1>2, <1>6, <2>2, <2>3, <2>4, StartedIInv
<1>10. QED BY <1>7, <1>8, <1>9

(* And the question that follows a file that is there, and what is said.   *)
LEMMA SaysIInv == \A n \in Slots : IInv /\ (ConfirmOverwrite(n) \/ Told(n)) => IInv'
<1> SUFFICES ASSUME NEW n \in Slots, IInv, ConfirmOverwrite(n) \/ Told(n) PROVE IInv' OBVIOUS
<1>1. Typed BY DEF IInv
<1>2. n \in Live BY DEF ConfirmOverwrite, Told, Lands, Live
<1>3. jobs[n] \in Job /\ jobs[n].now =< Len(tabs) BY <1>1, <1>2, Places DEF Typed
<1>4. CASE ConfirmOverwrite(n)
  <2>1. dialog' = [kind |-> "agreed", root |-> jobs[n].root, name |-> jobs[n].name,
                   at |-> jobs[n].at, now |-> jobs[n].now]
    BY <1>4 DEF ConfirmOverwrite, Ask
  <2>2. dialog' \in Dialog /\ dialog'.now =< Len(tabs)
    BY <1>3, <2>1 DEF Dialog, Job, Answers
  <2>3. ~Written(jobs[n]) BY <1>4 DEF ConfirmOverwrite, Lands, Written
  <2>4. QED BY <1>2, <1>4, <2>2, <2>3, ClearedIInv DEF ConfirmOverwrite
<1>5. CASE Told(n)
  <2>1. ~Written(jobs[n]) BY <1>5 DEF Told, Lands, Written, Writes
  <2>2. dialog' \in Dialog \cup {None} /\ (dialog' # None => dialog'.now =< Len(tabs))
    BY <1>1, <1>5 DEF Told, Typed
  <2>3. QED BY <1>2, <1>5, <2>1, <2>2, ClearedIInv DEF Told
<1>6. QED BY <1>4, <1>5

(* The tab that hears of its write has its file and what the file holds.   *)
LEMMA WroteFileIInv == \A n \in Slots : IInv /\ WroteFile(n) => IInv'
<1> SUFFICES ASSUME NEW n \in Slots, IInv, WroteFile(n) PROVE IInv' OBVIOUS
<1> DEFINE at == jobs[n].at
<1>1. Typed /\ Shapes /\ Met /\ Sound /\ Known BY DEF IInv
<1>2. n \in Live /\ Written(jobs[n]) BY DEF WroteFile, Lands, Live, Written, Writes
<1>3. jobs[n] \in Job /\ Target(jobs[n]) \in Roots \X Names
      /\ jobs[n].now =< Len(tabs) /\ jobs[n].now \in Nat /\ at \in Nat /\ at >= 1
      /\ jobs[n].name \in Names /\ jobs[n].body \in Texts
  BY <1>1, <1>2, Places, FilesAssumption DEF Typed, Job
<1>4. Len(tabs) \in Nat /\ DOMAIN tabs = 1..Len(tabs) /\ \A j \in DOMAIN tabs : tabs[j] \in Tab
  BY <1>1, Places
<1>5. UNCHANGED <<disk, temp, sheet, dialog>> /\ Cleared(n) BY DEF WroteFile
<1>6. jobs' \in [Slots -> Job \cup {None}] /\ Live' = Live \ {n}
      /\ \A m \in Live' : jobs'[m] = jobs[m]
  BY <1>1, <1>5 DEF Typed, Cleared, Live
<1>7. \A m \in Live' : m \in Live /\ Same(jobs'[m], jobs[m]) /\ jobs'[m].now = jobs[m].now
  BY <1>6 DEF Same
<1>8. IF at \in DOMAIN tabs
      THEN tabs' = [tabs EXCEPT ![at].file = jobs[n].name, ![at].saved = jobs[n].body]
      ELSE UNCHANGED tabs
  BY DEF WroteFile, Saved
<1>9. unsure' = unsure \cup
        IF at = jobs[n].now /\ tabs[at].on = jobs[n].root
        THEN {}
        ELSE {Target(jobs[n])}
             \cup {<<tabs[i].on, jobs[n].name>> : i \in {at} \cap DOMAIN tabs}
  BY DEF WroteFile, Target
<1>10. unsure \subseteq unsure' /\ unsure' \subseteq Roots \X Names
  <2>1. {<<tabs[i].on, jobs[n].name>> : i \in {at} \cap DOMAIN tabs} \subseteq Roots \X Names
    BY <1>3, <1>4 DEF Tab
  <2>2. QED BY <1>1, <1>3, <1>9, <2>1 DEF Typed
<1>11. tabs' \in Seq(Tab) /\ Len(tabs') = Len(tabs) /\ DOMAIN tabs' = DOMAIN tabs
       /\ \A j \in DOMAIN tabs : j # at => tabs'[j] = tabs[j]
  <2>1. CASE at \in DOMAIN tabs
    <3> DEFINE new == [tabs[at] EXCEPT !.file = jobs[n].name, !.saved = jobs[n].body]
    <3>1. tabs' = [tabs EXCEPT ![at] = new] BY <1>4, <1>8, <2>1
    <3>2. new \in Tab BY <1>3, <1>4, <2>1 DEF Tab
    <3> HIDE DEF new
    <3>3. QED BY <1>1, <1>4, <2>1, <3>1, <3>2 DEF Typed
  <2>2. CASE at \notin DOMAIN tabs BY <1>1, <1>8, <2>2 DEF Typed
  <2>3. QED BY <2>1, <2>2
<1>12. at \in DOMAIN tabs =>
         tabs'[at].saved = jobs[n].body /\ Home(tabs'[at]) = <<tabs[at].on, jobs[n].name>>
  <2> SUFFICES ASSUME at \in DOMAIN tabs
               PROVE  /\ tabs'[at].saved = jobs[n].body
                      /\ Home(tabs'[at]) = <<tabs[at].on, jobs[n].name>>
    OBVIOUS
  <2>1. tabs'[at] = [tabs[at] EXCEPT !.file = jobs[n].name, !.saved = jobs[n].body]
    BY <1>1, <1>4, <1>8 DEF Typed
  <2>2. tabs[at] \in Tab BY <1>4
  <2>3. QED BY <2>1, <2>2 DEF Tab, Home
\* Where nothing became unsure, it is its own tab that hears of it.
<1>13. at \in DOMAIN tabs /\ Home(tabs'[at]) \notin unsure' =>
         /\ at = jobs[n].now /\ Home(tabs'[at]) = Target(jobs[n])
         /\ Target(jobs[n]) \notin unsure'
  <2> SUFFICES ASSUME at \in DOMAIN tabs, Home(tabs'[at]) \notin unsure'
               PROVE  at = jobs[n].now /\ tabs[at].on = jobs[n].root
    BY <1>9, <1>12 DEF Target
  <2>1. <<tabs[at].on, jobs[n].name>>
          \in {<<tabs[i].on, jobs[n].name>> : i \in {at} \cap DOMAIN tabs}
    OBVIOUS
  <2>2. QED BY <1>9, <1>12, <2>1
<1>14. Target(jobs[n]) \notin unsure' => at = jobs[n].now BY <1>9
<1>15. Typed' BY <1>1, <1>5, <1>6, <1>10, <1>11 DEF Typed
<1>16. Target(jobs[n]) \notin unsure => Wrote(jobs[n]) BY <1>1, <1>2 DEF Sound
<1>17. Known'
  <2> SUFFICES ASSUME NEW j \in DOMAIN tabs, Home(tabs'[j]) \notin unsure', tabs'[j].file # NoName,
                      \A m \in Live' : Written(jobs[m]) => Target(jobs[m]) # Home(tabs'[j])
               PROVE  disk[Home(tabs'[j])] = tabs'[j].saved
    BY <1>5, <1>6, <1>11 DEF Known, Knows, Home, Written, Writes, Target
  <2>1. CASE j = at
    <3>1. Target(jobs[n]) = Home(tabs'[at]) /\ Target(jobs[n]) \notin unsure
      BY <1>10, <1>13, <2>1
    <3>2. disk[Target(jobs[n])] = jobs[n].body BY <1>2, <1>16, <3>1 DEF Wrote
    <3>3. QED BY <1>12, <2>1, <3>1, <3>2
  <2>2. CASE j # at
    <3>1. tabs'[j] = tabs[j] BY <1>11, <2>2
    <3>2. Home(tabs[j]) # Target(jobs[n])
      BY <1>2, <1>10, <1>14, <1>16, <2>2, <3>1 DEF Wrote
    <3>3. \A m \in Live : Written(jobs[m]) => Target(jobs[m]) # Home(tabs[j])
      BY <1>6, <3>1, <3>2
    <3>4. QED BY <1>1, <1>10, <3>1, <3>3 DEF Known, Knows
  <2>3. QED BY <2>1, <2>2
<1>18. ASSUME NEW m \in Live', NEW j \in DOMAIN tabs, Written(jobs[m]),
              Home(tabs'[j]) = Target(jobs[m]), Target(jobs[m]) \notin unsure'
       PROVE  j = jobs[m].now
  <2>1. m \in Live /\ m # n BY <1>6
  <2>2. Target(jobs[m]) # Target(jobs[n])
    BY <1>2, <1>10, <1>18, <2>1, Meeting DEF Written, Writes, Answers
  <2>3. j # at BY <1>13, <1>18, <2>2
  <2>4. tabs'[j] = tabs[j] BY <1>11, <2>3
  <2>5. Wrote(jobs[m]) BY <1>1, <1>10, <1>18, <2>1 DEF Sound
  <2>6. QED BY <1>18, <2>4, <2>5 DEF Wrote
<1>19. QED BY <1>5, <1>7, <1>10, <1>11, <1>15, <1>17, <1>18, TabsIInv

(* A set of numbers that is not empty has a least one.                     *)
LEMMA FirstOf ==
  ASSUME NEW T, T \subseteq Nat, T # {}
  PROVE  \E i \in T : \A j \in T : i =< j
<1> DEFINE less == OpToRel(<, Nat)
<1>1. IsWellFoundedOn(less, Nat) BY NatLessThanWellFounded
<1>2. \A i, j \in Nat : j < i => <<j, i>> \in less BY DEF OpToRel
<1> HIDE DEF less
<1>3. \E i \in T : \A j \in T : ~(<<j, i>> \in less) BY <1>1, WFMin
<1>4. PICK i \in T : \A j \in T : ~(<<j, i>> \in less) BY <1>3
<1>5. \A j \in T : ~(j < i) BY <1>2, <1>4
<1>6. QED BY <1>5

(* A file that was read comes in the tab that has it, or in a new one,     *)
(* which knows it if it is of the connection it was read through.          *)
LEMMA OpenedFileIInv == \A n \in Slots : IInv /\ OpenedFile(n) => IInv'
<1> SUFFICES ASSUME NEW n \in Slots, IInv, OpenedFile(n) PROVE IInv' OBVIOUS
<1>1. Typed /\ Shapes /\ Met /\ Sound /\ Known BY DEF IInv
<1>2. n \in Live /\ jobs[n].kind = "read" /\ jobs[n].step = "answer"
  BY DEF OpenedFile, Lands, Live
<1>3. ~Written(jobs[n]) BY <1>2 DEF Written, Writes
<1>4. jobs[n] \in Job /\ Target(jobs[n]) \in Roots \X Names
      /\ jobs[n].name \in Names /\ jobs[n].body \in Texts
  BY <1>1, <1>2, Places DEF Job
<1>5. Len(tabs) \in Nat /\ DOMAIN tabs = 1..Len(tabs) /\ Root \in Roots BY <1>1, Places
<1>6. UNCHANGED <<disk, temp, dialog>> /\ Cleared(n) BY DEF OpenedFile
<1>7. jobs' \in [Slots -> Job \cup {None}] /\ Live' = Live \ {n}
      /\ \A m \in Live' : jobs'[m] = jobs[m]
  BY <1>1, <1>6 DEF Typed, Cleared, Live
<1>8. /\ \A m \in Live' : m \in Live /\ Same(jobs'[m], jobs[m]) /\ jobs'[m].now = jobs[m].now
      /\ \A m \in Live : Written(jobs[m]) => m \in Live'
  BY <1>3, <1>7 DEF Same
<1>9. \A m \in Live, j \in DOMAIN tabs :
        /\ Written(jobs[m]) /\ Home(tabs[j]) = Target(jobs[m])
        /\ Target(jobs[m]) \notin unsure
        => j = jobs[m].now
  BY <1>1 DEF Sound, Wrote
<1> DEFINE having == {i \in DOMAIN tabs : tabs[i].file = jobs[n].name}
<1>10. CASE having # {}
  <2>1. UNCHANGED <<tabs, unsure>> /\ sheet' = CHOOSE i \in having : \A j \in having : i =< j
    BY <1>10 DEF OpenedFile
  <2>2. \E i \in having : \A j \in having : i =< j
    <3>1. having \subseteq Nat BY <1>5
    <3>2. QED BY <1>10, <3>1, FirstOf
  <2>3. sheet' \in DOMAIN tabs BY <2>1, <2>2
  <2>4. Typed' BY <1>1, <1>5, <1>6, <1>7, <2>1, <2>3 DEF Typed
  <2>5. Known' BY <1>6, <1>8, <2>1, StillKnown
  <2>6. QED BY <1>6, <1>8, <1>9, <2>1, <2>4, <2>5, TabsIInv
<1>11. CASE having = {}
  <2> DEFINE new == [NewWorksheet(Root) EXCEPT
                       !.file = jobs[n].name, !.text = jobs[n].body, !.saved = jobs[n].body]
  <2>1. OpenSheet(new)
        /\ unsure' = unsure \cup IF Root # jobs[n].root THEN {<<Root, jobs[n].name>>} ELSE {}
    BY <1>11 DEF OpenedFile
  <2>2. NewWorksheet(Root) \in Tab /\ NewWorksheet(Root).on = Root
    BY <1>5, FilesAssumption DEF NewWorksheet, Tab, Texts
  <2>3. new \in Tab /\ new.on = Root BY <1>4, <2>2 DEF Tab
  <2>4. Home(new) = <<Root, jobs[n].name>> /\ new.saved = jobs[n].body BY <2>2, <2>3 DEF Home, Tab
  <2> HIDE DEF new
  <2>5. /\ tabs' \in Seq(Tab) /\ Len(tabs') = Len(tabs) + 1 /\ Len(tabs') \in 1..MaxTabs
        /\ sheet' = Len(tabs) + 1 /\ DOMAIN tabs' = 1..(Len(tabs) + 1)
        /\ \A j \in 1..Len(tabs) : tabs'[j] = tabs[j]
        /\ tabs'[Len(tabs) + 1] = new
    BY <1>1, <2>1, <2>3, Grown
  <2>6. \A j \in DOMAIN tabs' : j # Len(tabs) + 1 => j \in DOMAIN tabs /\ tabs'[j] = tabs[j]
    BY <1>5, <2>5
  <2>7. unsure \subseteq unsure' /\ unsure' \subseteq Roots \X Names
    BY <1>1, <1>4, <1>5, <2>1 DEF Typed
  <2>8. Home(new) \notin unsure' => Home(new) = Target(jobs[n]) BY <2>1, <2>4 DEF Target
  <2>9. Typed'
    <3>1. dialog # None => dialog \in Dialog /\ dialog.now \in Nat /\ dialog.now =< Len(tabs)
      BY <1>1, FilesAssumption DEF Typed, Dialog
    <3>2. \A m \in Live : jobs[m].now \in Nat /\ jobs[m].now =< Len(tabs)
      BY <1>1, Places, FilesAssumption DEF Typed, Job
    <3>3. sheet' \in 1..Len(tabs') BY <1>5, <2>5
    <3>4. QED BY <1>1, <1>5, <1>6, <1>7, <2>5, <2>7, <3>1, <3>2, <3>3 DEF Typed
  <2>10. Known'
    <3>1. Home(new) \notin unsure' => disk[Home(new)] = new.saved
      BY <1>1, <1>2, <2>4, <2>7, <2>8 DEF Sound, ReadIt
    <3>2. QED BY <1>6, <1>8, <2>5, <2>6, <2>7, <3>1, StillKnown
  <2>11. ASSUME NEW m \in Live', NEW j \in DOMAIN tabs', Written(jobs[m]),
                Home(tabs'[j]) = Target(jobs[m]), Target(jobs[m]) \notin unsure'
         PROVE  j = jobs[m].now
    <3>1. m \in Live /\ m # n BY <1>7
    <3>2. Target(jobs[m]) # Target(jobs[n])
      BY <1>2, <2>7, <2>11, <3>1, Meeting DEF Written, Writes, Answers
    <3>3. j # Len(tabs) + 1 BY <2>5, <2>8, <2>11, <3>2
    <3>4. QED BY <1>9, <2>6, <2>7, <2>11, <3>1, <3>3
  <2>12. QED BY <1>6, <1>8, <2>7, <2>9, <2>10, <2>11, TabsIInv
<1>12. QED BY <1>10, <1>11

(* What is left of a sequence when one is taken out of it.                 *)
LEMMA TakenOut ==
  ASSUME NEW T, NEW s \in Seq(T), NEW k \in 1..Len(s)
  PROVE  LET rest == SubSeq(s, 1, k - 1) \o SubSeq(s, k + 1, Len(s)) IN
         /\ rest \in Seq(T) /\ Len(rest) = Len(s) - 1
         /\ \A j \in 1..(Len(s) - 1) : rest[j] = IF j < k THEN s[j] ELSE s[j + 1]
<1> DEFINE a == SubSeq(s, 1, k - 1)
           b == SubSeq(s, k + 1, Len(s))
<1>1. Len(s) \in Nat /\ k \in Int /\ \A i \in 1..Len(s) : s[i] \in T OBVIOUS
<1>2. \A i \in 1..(k - 1) : s[i] \in T BY <1>1
<1>3. \A i \in (k + 1)..Len(s) : s[i] \in T BY <1>1
<1>4. /\ a \in Seq(T) /\ Len(a) = k - 1
      /\ \A i \in 1..(k - 1) : a[i] = s[i]
  <2>1. /\ a \in Seq(T) /\ Len(a) = IF 1 <= k - 1 THEN k - 1 - 1 + 1 ELSE 0
        /\ \A i \in 1..(k - 1 - 1 + 1) : a[i] = s[1 + i - 1]
    BY <1>1, <1>2, SubSeqProperties
  <2> HIDE DEF a
  <2>2. QED BY <1>1, <2>1
<1>5. /\ b \in Seq(T) /\ Len(b) = Len(s) - k
      /\ \A i \in 1..(Len(s) - k) : b[i] = s[k + i]
  <2>1. /\ b \in Seq(T) /\ Len(b) = IF k + 1 <= Len(s) THEN Len(s) - (k + 1) + 1 ELSE 0
        /\ \A i \in 1..(Len(s) - (k + 1) + 1) : b[i] = s[k + 1 + i - 1]
    BY <1>1, <1>3, SubSeqProperties
  <2> HIDE DEF b
  <2>2. QED BY <1>1, <2>1
<1> HIDE DEF a, b
<1>6. /\ a \o b \in Seq(T) /\ Len(a \o b) = Len(a) + Len(b)
      /\ \A i \in 1..(Len(a) + Len(b)) : (a \o b)[i] = IF i <= Len(a) THEN a[i] ELSE b[i - Len(a)]
  BY <1>4, <1>5, ConcatProperties
<1>7. Len(a \o b) = Len(s) - 1 BY <1>1, <1>4, <1>5, <1>6
<1>8. ASSUME NEW j \in 1..(Len(s) - 1)
      PROVE  (a \o b)[j] = IF j < k THEN s[j] ELSE s[j + 1]
  <2>1. CASE j < k BY <1>1, <1>4, <1>5, <1>6, <2>1
  <2>2. CASE j >= k
    <3>1. (a \o b)[j] = b[j - (k - 1)] BY <1>1, <1>4, <1>5, <1>6, <2>2
    <3>2. j - (k - 1) \in 1..(Len(s) - k) BY <1>1, <2>2
    <3>3. b[j - (k - 1)] = s[k + (j - (k - 1))] BY <1>5, <3>2
    <3>4. k + (j - (k - 1)) = j + 1 BY <1>1
    <3>5. QED BY <1>1, <2>2, <3>1, <3>3, <3>4
  <2>3. j < k \/ j >= k BY <1>1
  <2>4. QED BY <2>1, <2>2, <2>3
<1>9. QED BY <1>6, <1>7, <1>8 DEF a, b

(* Where a tab is once the one in front is gone is where its calls, and    *)
(* the question on the screen, take it to be.                              *)
LEMMA CloseSheetIInv == \A n \in Slots : IInv /\ CloseSheet(n) => IInv'
<1> SUFFICES ASSUME NEW n \in Slots, IInv, CloseSheet(n) PROVE IInv' OBVIOUS
<1>1. Typed /\ Shapes /\ Met /\ Sound /\ Known BY DEF IInv
<1>2. n \in Live /\ ~Written(jobs[n])
  BY DEF CloseSheet, Lands, Live, Written, Writes
<1>3. Len(tabs) \in Nat /\ Len(tabs) >= 1 /\ Len(tabs) =< MaxTabs /\ MaxTabs \in Nat
      /\ DOMAIN tabs = 1..Len(tabs) /\ Root \in Roots
      /\ sheet \in Nat /\ sheet >= 1 /\ sheet =< Len(tabs)
  BY <1>1, Places, FilesAssumption DEF Typed
<1>4. UNCHANGED <<disk, temp, unsure>> BY DEF CloseSheet
\* The calls but for the place of their tab.
<1>5. ASSUME NEW m \in Slots, m # n, jobs[m] # None
      PROVE  /\ jobs'[m] = [jobs[m] EXCEPT !.now = Shifted(jobs[m].now)]
             /\ jobs[m] \in Job /\ jobs[m].now =< Len(tabs)
             /\ Shifted(jobs[m].now) \in 0..MaxTabs
             /\ Shifted(jobs[m].now) =< (IF Len(tabs) = 1 THEN 1 ELSE Len(tabs) - 1)
  <2>1. jobs' = [k \in Slots |-> IF k = n \/ jobs[k] = None THEN None
                                 ELSE [jobs[k] EXCEPT !.now = Shifted(@)]]
    BY DEF CloseSheet
  <2>2. jobs'[m] = [jobs[m] EXCEPT !.now = Shifted(jobs[m].now)] BY <1>5, <2>1
  <2>3. m \in Live BY <1>5 DEF Live
  <2>4. jobs[m] \in Job /\ jobs[m].now =< Len(tabs) BY <1>1, <2>3, Places DEF Typed
  <2>5. jobs[m].now \in Nat /\ jobs[m].now =< MaxTabs BY <1>3, <2>4 DEF Job
  <2>6. QED BY <1>3, <2>2, <2>4, <2>5 DEF Shifted
<1>6. \A m \in Slots : m = n \/ jobs[m] = None => jobs'[m] = None
  BY DEF CloseSheet
<1>7. ASSUME NEW m \in Slots, m # n, jobs[m] # None
      PROVE  /\ jobs'[m] \in Job /\ jobs'[m].now = Shifted(jobs[m].now)
             /\ Same(jobs'[m], jobs[m])
  <2>1. jobs'[m] = [jobs[m] EXCEPT !.now = Shifted(jobs[m].now)]
        /\ jobs[m] \in Job /\ Shifted(jobs[m].now) \in 0..MaxTabs
    BY <1>5, <1>7
  <2>2. jobs'[m] \in Job /\ jobs'[m].now = Shifted(jobs[m].now) BY <2>1 DEF Job
  <2>3. Same(jobs'[m], jobs[m]) BY <2>1 DEF Job, Same
  <2>4. QED BY <2>2, <2>3
<1>8. None \notin Job BY DEF None, Job
<1>9. Live' = Live \ {n} BY <1>6, <1>7, <1>8 DEF Live
<1>10. jobs' \in [Slots -> Job \cup {None}]
  <2>1. \A m \in Slots : jobs'[m] \in Job \cup {None} BY <1>6, <1>7
  <2>2. jobs' = [m \in Slots |-> IF m = n \/ jobs[m] = None THEN None
                                 ELSE [jobs[m] EXCEPT !.now = Shifted(@)]]
    BY DEF CloseSheet
  <2>3. DOMAIN jobs' = Slots /\ jobs' = [m \in Slots |-> jobs'[m]] BY <2>2
  <2>4. QED BY <2>1, <2>3
<1>11. /\ dialog' \in Dialog \cup {None}
       /\ dialog' # None => dialog'.now =< (IF Len(tabs) = 1 THEN 1 ELSE Len(tabs) - 1)
  <2>1. CASE dialog = None BY <2>1 DEF CloseSheet
  <2>2. CASE dialog # None
    <3>1. dialog \in Dialog /\ dialog.now =< Len(tabs) BY <1>1, <2>2 DEF Typed
    <3>2. dialog.now \in Nat /\ dialog.now =< MaxTabs BY <1>3, <3>1 DEF Dialog
    <3>3. Shifted(dialog.now) \in 0..MaxTabs
          /\ Shifted(dialog.now) =< (IF Len(tabs) = 1 THEN 1 ELSE Len(tabs) - 1)
      BY <1>3, <3>1, <3>2 DEF Shifted
    <3>4. dialog' = [dialog EXCEPT !.now = Shifted(dialog.now)] BY <2>2 DEF CloseSheet
    <3>5. dialog' \in Dialog /\ dialog'.now = Shifted(dialog.now)
      BY <3>1, <3>3, <3>4 DEF Dialog
    <3>6. QED BY <3>3, <3>5
  <2>3. QED BY <2>1, <2>2
<1>12. /\ \A m \in Live' : m \in Live /\ Same(jobs'[m], jobs[m])
       /\ \A m \in Live : Written(jobs[m]) => m \in Live'
       /\ \A m \in Live' : jobs'[m].now = Shifted(jobs[m].now) /\ jobs[m].now \in Nat
            /\ jobs[m].now =< Len(tabs)
            /\ jobs'[m].now =< (IF Len(tabs) = 1 THEN 1 ELSE Len(tabs) - 1)
  <2>1. \A m \in Live' : m \in Slots /\ m \in Live /\ m # n /\ jobs[m] # None
    BY <1>9 DEF Live
  <2>2. \A m \in Live' : Same(jobs'[m], jobs[m]) BY <1>7, <2>1
  <2>3. \A m \in Live : Written(jobs[m]) => m \in Live' BY <1>2, <1>9
  <2>4. \A m \in Live' : jobs'[m].now = Shifted(jobs[m].now) BY <1>7, <2>1
  <2>5. \A m \in Live' : jobs[m].now \in Nat /\ jobs[m].now =< Len(tabs)
    BY <1>1, <2>1, Places, FilesAssumption DEF Typed, Job
  <2>6. \A m \in Live' :
          Shifted(jobs[m].now) =< (IF Len(tabs) = 1 THEN 1 ELSE Len(tabs) - 1)
    BY <1>5, <2>1
  <2>7. QED BY <2>1, <2>2, <2>3, <2>4, <2>5, <2>6
<1>13. \A m \in Live, j \in DOMAIN tabs :
         /\ Written(jobs[m]) /\ Home(tabs[j]) = Target(jobs[m])
         /\ Target(jobs[m]) \notin unsure
         => j = jobs[m].now
  BY <1>1 DEF Sound, Wrote
<1>14. CASE Len(tabs) = 1
  <2>1. tabs' = <<NewWorksheet(Root)>> /\ sheet' = sheet BY <1>14 DEF CloseSheet
  <2>2. NewWorksheet(Root) \in Tab /\ NewWorksheet(Root).file = NoName
    BY <1>3, FilesAssumption DEF NewWorksheet, Tab, Texts
  <2>3. tabs' \in Seq(Tab) /\ Len(tabs') = 1 /\ DOMAIN tabs' = {1} /\ tabs'[1].file = NoName
    BY <2>1, <2>2
  <2>4. Typed'
    <3>1. \A m \in Live' : jobs'[m].now =< Len(tabs') BY <1>12, <1>14, <2>3
    <3>2. dialog' # None => dialog'.now =< Len(tabs') BY <1>11, <1>14, <2>3
    <3>3. QED BY <1>1, <1>3, <1>4, <1>10, <1>11, <1>14, <2>1, <2>3, <3>1, <3>2 DEF Typed
  <2>5. Known' BY <1>4, <1>12, <2>3, StillKnown
  <2>6. \A m \in Live : Target(jobs[m])[2] # NoName
    BY <1>1, Places, FilesAssumption DEF Job, Target
  <2>7. \A m \in Live', j \in DOMAIN tabs' : Home(tabs'[j]) # Target(jobs[m])
    BY <1>12, <2>3, <2>6 DEF Home
  <2>8. QED BY <1>4, <1>12, <2>4, <2>5, <2>7, TabsIInv
<1>15. CASE Len(tabs) # 1
  <2>1. tabs' = SubSeq(tabs, 1, sheet - 1) \o SubSeq(tabs, sheet + 1, Len(tabs))
        /\ sheet' = Beside
    BY <1>15 DEF CloseSheet
  <2>2. /\ tabs' \in Seq(Tab) /\ Len(tabs') = Len(tabs) - 1
        /\ \A j \in 1..(Len(tabs) - 1) :
             tabs'[j] = IF j < sheet THEN tabs[j] ELSE tabs[j + 1]
    <3>1. tabs \in Seq(Tab) /\ sheet \in 1..Len(tabs) BY <1>1 DEF Typed
    <3>2. QED BY <2>1, <3>1, TakenOut
  <2>3. DOMAIN tabs' = 1..(Len(tabs) - 1) BY <2>2
  <2>4. Typed'
    <3>0. Len(tabs') = (IF Len(tabs) = 1 THEN 1 ELSE Len(tabs) - 1) BY <1>15, <2>2
    <3>1. \A m \in Live' : jobs'[m].now =< Len(tabs') BY <1>12, <3>0
    <3>2. dialog' # None => dialog'.now =< Len(tabs') BY <1>11, <3>0
    <3>3. sheet' \in 1..Len(tabs')
      <4>1. sheet' = IF sheet = Len(tabs) THEN sheet - 1 ELSE sheet BY <2>1 DEF Beside
      <4>2. /\ Len(tabs) \in Nat /\ Len(tabs) > 1 /\ Len(tabs') = Len(tabs) - 1
            /\ sheet \in Nat /\ sheet >= 1 /\ sheet =< Len(tabs)
        BY <1>3, <1>15, <2>2
      <4>3. CASE sheet = Len(tabs) BY <4>1, <4>2, <4>3
      <4>4. CASE sheet # Len(tabs) BY <4>1, <4>2, <4>4
      <4>5. QED BY <4>3, <4>4
    <3>4. Len(tabs') \in 1..MaxTabs BY <1>3, <1>15, <2>2
    <3>5. QED BY <1>1, <1>4, <1>10, <1>11, <2>2, <3>1, <3>2, <3>3, <3>4 DEF Typed
  \* The tab in a place, and the place it was in.
  <2>5. ASSUME NEW j \in DOMAIN tabs'
        PROVE  \E i \in DOMAIN tabs : tabs'[j] = tabs[i] /\ Shifted(i) = j
    <3>1. CASE j < sheet
      <4>1. j \in DOMAIN tabs /\ tabs'[j] = tabs[j] BY <1>3, <2>2, <2>3, <3>1
      <4>2. Shifted(j) = j BY <1>3, <3>1, <4>1 DEF Shifted
      <4>3. QED BY <4>1, <4>2
    <3>2. CASE ~(j < sheet)
      <4>1. j + 1 \in DOMAIN tabs /\ tabs'[j] = tabs[j + 1] BY <1>3, <2>2, <2>3, <3>2
      <4>2. Shifted(j + 1) = j BY <1>3, <2>3, <3>2 DEF Shifted
      <4>3. QED BY <4>1, <4>2
    <3>3. QED BY <3>1, <3>2
  <2>6. Known' BY <1>4, <1>12, <2>5, StillKnown
  <2>7. ASSUME NEW m \in Live', NEW j \in DOMAIN tabs', Written(jobs[m]),
               Home(tabs'[j]) = Target(jobs[m]), Target(jobs[m]) \notin unsure
        PROVE  j = jobs'[m].now
    <3>1. PICK i \in DOMAIN tabs : tabs'[j] = tabs[i] /\ Shifted(i) = j BY <2>5
    <3>2. i = jobs[m].now BY <1>12, <1>13, <2>7, <3>1
    <3>3. QED BY <1>12, <3>1, <3>2
  <2>8. QED BY <1>4, <1>12, <2>4, <2>6, <2>7, TabsIInv
<1>16. QED BY <1>14, <1>15

(* Nothing is under way at the start, and no tab has a file.               *)
LEMMA InitIInv == Init => IInv
<1> SUFFICES ASSUME Init PROVE IInv OBVIOUS
<1>1. Live = {} BY DEF Init, Live
<1>2. PICK on \in Roots : tabs = <<NewWorksheet(on)>> BY DEF Init
<1>3. NewWorksheet(on) \in Tab /\ NewWorksheet(on).file = NoName
  BY FilesAssumption DEF NewWorksheet, Tab, Texts
<1>4. tabs \in Seq(Tab) /\ Len(tabs) = 1 /\ DOMAIN tabs = {1} /\ tabs[1].file = NoName
  BY <1>2, <1>3
<1>5. Typed BY <1>1, <1>4, FilesAssumption DEF Init, Typed, Texts
<1>6. Known BY <1>4 DEF Known, Knows
<1>7. QED BY <1>1, <1>5, <1>6 DEF IInv, Shapes, Met, Sound

(* The invariant is inductive.                                             *)
LEMMA NextIInv == IInv /\ [Next]_vars => IInv'
<1> SUFFICES ASSUME IInv, [Next]_vars PROVE IInv' OBVIOUS
<1>1. CASE Edit \/ NewSheet \/ GotoSheet \/ Aim \/ ConfirmDeleteFile \/ ConfirmClose \/ Back
  BY <1>1, KeysIInv
<1>2. CASE Choose \/ SaveSheet \/ ReadFile BY <1>2, StartsIInv
<1>3. CASE Disk
  <2>1. PICK n \in Slots : Stat(n) \/ Fill(n) \/ Rename(n) \/ ReadBack(n) \/ Remove(n)
    BY <1>3 DEF Disk
  <2>2. QED BY <2>1, StatIInv, FillIInv, RenameIInv, ReadBackIInv, RemoveIInv
<1>4. CASE Update
  <2>1. PICK n \in Slots :
          \/ SaveNamed(n) \/ Overwritten(n) \/ RemoveFile(n) \/ ConfirmOverwrite(n)
          \/ WroteFile(n) \/ OpenedFile(n) \/ CloseSheet(n) \/ Told(n)
    BY <1>4 DEF Update
  <2>2. QED BY <2>1, FollowsIInv, SaysIInv, WroteFileIInv, OpenedFileIInv, CloseSheetIInv
<1>5. CASE UNCHANGED vars
  BY <1>5 DEF vars, IInv, Typed, Shapes, Met, Sound, Known, Live, Meet, Target, Filled,
              Wrote, ReadIt, Knows, Home
<1>6. QED BY <1>1, <1>2, <1>3, <1>4, <1>5 DEF Next

LEMMA AlwaysIInv == Spec => []IInv
BY InitIInv, NextIInv, PTL DEF Spec

(* Every variable keeps its type: among others, a tab is always in front.  *)
THEOREM TypeCorrect == Spec => []TypeOK
<1>1. IInv => TypeOK
  <2> SUFFICES ASSUME IInv PROVE TypeOK OBVIOUS
  <2>1. Typed BY DEF IInv
  <2>2. \A i \in DOMAIN tabs : tabs[i] \in Tab BY <2>1, Places
  <2>3. sheet \in DOMAIN tabs BY <2>1, Places
  <2>4. QED BY <2>1, <2>2, <2>3 DEF Typed, TypeOK
<1>2. QED BY <1>1, AlwaysIInv, PTL

(* A tab that is not marked as changed shows what its file holds once its  *)
(* writes are answered (loss in files.go, with wroteFile, openedFile and   *)
(* closeSheet), wherever the person went before they were.                 *)
THEOREM ATabLosesNothing == Spec => []ClosingLosesNothing
<1>1. IInv => ClosingLosesNothing
  <2> SUFFICES ASSUME IInv, NEW i \in DOMAIN tabs, tabs[i].file # NoName, ~Dirty(tabs[i]),
                      ~BeingWritten(Home(tabs[i])), Home(tabs[i]) \notin unsure
               PROVE  disk[Home(tabs[i])] = tabs[i].text
    BY DEF ClosingLosesNothing, Home
  <2>1. \A n \in Live : Written(jobs[n]) => Target(jobs[n]) # Home(tabs[i])
    BY DEF BeingWritten, Live, Written, Writes, Target
  <2>2. disk[Home(tabs[i])] = tabs[i].saved BY <2>1 DEF IInv, Known, Knows
  <2>3. QED BY <2>2 DEF Dirty
<1>2. QED BY <1>1, AlwaysIInv, PTL

-----------------------------------------------------------------------------
(* Files that are created. *)

\* The same call to the same place, however far it is.
Like(a, b) == a.kind = b.kind /\ a.root = b.root /\ a.name = b.name /\ a.over = b.over

(* A call that is answered is gone, and every other one is where it was.   *)
LEMMA AnswersLike ==
  ASSUME Typed, NEW n \in Slots,
         \/ ConfirmOverwrite(n) \/ WroteFile(n) \/ OpenedFile(n)
         \/ CloseSheet(n) \/ Told(n)
  PROVE  /\ n \in Live /\ UNCHANGED disk /\ unsure \subseteq unsure'
         /\ Live' \subseteq Live \ {n}
         /\ \A m \in Live' : Like(jobs'[m], jobs[m]) /\ jobs'[m].step = jobs[m].step
<1>1. n \in Live /\ UNCHANGED disk /\ unsure \subseteq unsure'
  BY DEF ConfirmOverwrite, WroteFile, OpenedFile, CloseSheet, Told, Lands, Live
<1>2. jobs'[n] = None /\
      \A m \in Slots : m # n => IF jobs[m] = None THEN jobs'[m] = None
                                ELSE Like(jobs'[m], jobs[m]) /\ jobs'[m].step = jobs[m].step
  <2>1. CASE CloseSheet(n)
    <3>1. jobs' = [m \in Slots |-> IF m = n \/ jobs[m] = None THEN None
                                   ELSE [jobs[m] EXCEPT !.now = Shifted(@)]]
      BY <2>1 DEF CloseSheet
    <3>2. \A m \in Slots : jobs[m] # None => jobs[m] \in Job BY DEF Typed
    <3>3. ASSUME NEW m \in Slots, m # n, jobs[m] # None
          PROVE  Like(jobs'[m], jobs[m]) /\ jobs'[m].step = jobs[m].step
      <4>1. jobs'[m] = [jobs[m] EXCEPT !.now = Shifted(jobs[m].now)] BY <3>1, <3>3
      <4>2. QED BY <3>2, <3>3, <4>1 DEF Job, Like
    <3>4. QED BY <3>1, <3>3
  <2>2. CASE ~CloseSheet(n)
    <3>1. Cleared(n) BY <2>2 DEF ConfirmOverwrite, WroteFile, OpenedFile, Told
    <3>2. QED BY <3>1 DEF Cleared, Typed, Like
  <2>3. QED BY <2>1, <2>2
<1>3. Live' \subseteq Live \ {n}
      /\ \A m \in Live' : Like(jobs'[m], jobs[m]) /\ jobs'[m].step = jobs[m].step
  BY <1>2 DEF Live
<1>4. QED BY <1>1, <1>3

(* A step of the disk is a step of one call, which stays the call it was.  *)
LEMMA DiskLike ==
  ASSUME Typed, NEW n \in Slots,
         Stat(n) \/ Fill(n) \/ Rename(n) \/ ReadBack(n) \/ Remove(n)
  PROVE  /\ n \in Live /\ jobs[n] \in Job /\ Target(jobs[n]) \in Roots \X Names
         /\ UNCHANGED <<tabs, sheet, dialog>> /\ unsure \subseteq unsure' /\ Root' = Root
         /\ Live' = Live /\ \A m \in Live : Like(jobs'[m], jobs[m])
         /\ \A m \in Live : m # n => jobs'[m] = jobs[m]
<1> DEFINE place == Target(jobs[n])
<1>1. n \in Live BY DEF Stat, Fill, Rename, ReadBack, Remove, Live
<1>2. n \in Slots /\ jobs[n] # None /\ jobs[n] \in Job /\ place \in Roots \X Names
  BY <1>1, Places DEF Live
<1>3. UNCHANGED <<tabs, sheet, dialog>> /\ unsure \subseteq unsure' /\ Root' = Root
  BY DEF Stat, Fill, Rename, ReadBack, Remove, Root, Front
<1>4. /\ Live' = Live /\ Like(jobs'[n], jobs[n])
      /\ \A m \in Live : m # n => jobs'[m] = jobs[m]
  <2>1. CASE Stat(n) \/ Fill(n) \/ Rename(n) \/ Remove(n)
    <3>1. \E step \in {"stat", "fill", "rename", "answer", "there", "failed"} : Goes(n, step)
      BY <2>1 DEF Stat, Fill, Rename, Remove
    <3>2. PICK step \in {"stat", "fill", "rename", "answer", "there", "failed"} : Goes(n, step)
      BY <3>1
    <3>3. QED BY <1>2, <3>2, Went DEF Like, Live
  <2>2. CASE ReadBack(n)
    <3>1. \/ jobs' = [jobs EXCEPT ![n].step = "failed"]
          \/ jobs' = [jobs EXCEPT ![n].step = "answer", ![n].body = disk[place]]
      BY <2>2 DEF ReadBack, Target
    <3>2. jobs'[n] \in {[jobs[n] EXCEPT !.step = "failed"],
                        [jobs[n] EXCEPT !.step = "answer", !.body = disk[place]]}
      BY <1>2, <3>1 DEF Typed
    <3>3. \A m \in Slots : m # n => jobs'[m] = jobs[m] BY <3>1 DEF Typed
    <3>4. jobs'[n].kind = jobs[n].kind /\ Like(jobs'[n], jobs[n]) BY <1>2, <3>2 DEF Job, Like
    <3>5. jobs[n].kind # "none" BY <1>2 DEF Job, Answers
    <3>6. jobs'[n] # None BY <3>4, <3>5 DEF None
    <3>7. QED BY <1>2, <3>3, <3>4, <3>6 DEF Live
  <2>3. QED BY <2>1, <2>2
<1>5. \A m \in Live' : m \in Live /\ Like(jobs'[m], jobs[m]) BY <1>4 DEF Like
<1>6. QED BY <1>1, <1>2, <1>3, <1>4, <1>5

(* Where the disk is as it was, and no call got as far as to create a      *)
(* file, none came where there was to be none.                             *)
LEMMA StillNotThere ==
  ASSUME NotThere, UNCHANGED disk, unsure \subseteq unsure',
         \A m \in Live' :
           \/ m \in Live /\ Like(jobs'[m], jobs[m]) /\ jobs'[m].step = jobs[m].step
           \/ jobs'[m].kind # "create" \/ jobs'[m].step \notin {"fill", "rename"}
  PROVE  NotThere'
BY DEF NotThere, Like, Target

(* Nothing that begins creates a file before it looked.                    *)
LEMMA StartedNotThere ==
  ASSUME Typed, NotThere, NEW n \in Slots, NEW job, Started(n, job), UNCHANGED disk,
         job.kind # "create" \/ job.step = "stat"
  PROVE  NotThere'
<1>1. jobs'[n] = job /\ \A m \in Slots : m # n => jobs'[m] = jobs[m]
  BY DEF Typed, Started
<1>2. \A m \in Live' : m # n => m \in Live /\ jobs'[m] = jobs[m] BY <1>1 DEF Live
<1>3. unsure \subseteq unsure' BY DEF Started
<1>4. QED BY <1>1, <1>2, <1>3, StillNotThere DEF Like

(* What is done to the disk is done to files that no other call, of which  *)
(* anything is known, is about to create.                                  *)
LEMMA DiskNotThere == IInv /\ NotThere /\ Disk => NotThere'
<1> SUFFICES ASSUME IInv, NotThere, NEW n \in Slots,
                    Stat(n) \/ Fill(n) \/ Rename(n) \/ ReadBack(n) \/ Remove(n)
             PROVE  NotThere'
  BY DEF Disk
<1> DEFINE place == Target(jobs[n])
<1>0. Typed BY DEF IInv
<1>1. n \in Live /\ jobs[n] \in Job /\ place \in Roots \X Names BY <1>0, DiskLike
<1>2. n \in Slots /\ jobs[n] # None BY <1>1 DEF Live
<1>3. /\ unsure \subseteq unsure' /\ Live' = Live
      /\ \A m \in Live : Like(jobs'[m], jobs[m])
      /\ \A m \in Live : m # n => jobs'[m] = jobs[m]
  BY <1>0, DiskLike
<1> SUFFICES ASSUME NEW m \in Live, jobs'[m].kind = "create",
                    jobs'[m].step \in {"fill", "rename"}, Target(jobs'[m]) \notin unsure'
             PROVE  disk'[Target(jobs'[m])] = Absent
  BY <1>3 DEF NotThere, Target
<1>4. jobs[m].kind = "create" /\ Target(jobs[m]) = Target(jobs'[m])
      /\ Target(jobs[m]) \notin unsure /\ Target(jobs[m]) \in Roots \X Names
  <2>1. Like(jobs'[m], jobs[m]) BY <1>3
  <2>2. Target(jobs[m]) = Target(jobs'[m]) BY <2>1 DEF Like, Target
  <2>3. Target(jobs[m]) \in Roots \X Names BY <1>0, Places
  <2>4. QED BY <1>3, <2>1, <2>2, <2>3 DEF Like
<1>5. CASE m = n
  <2>1. CASE Stat(n)
    <3>1. disk[place] # Absent => jobs'[n].step = "there"
      BY <1>0, <1>2, <2>1, Went DEF Stat, Target
    <3>2. QED BY <1>4, <1>5, <2>1, <3>1 DEF Stat
  <2>2. CASE Fill(n)
    <3>1. jobs[n].step = "fill" /\ disk' = disk BY <2>2 DEF Fill
    <3>2. QED BY <1>1, <1>4, <1>5, <3>1 DEF NotThere
  <2>3. CASE Rename(n)
    <3>1. \E step \in {"answer", "failed"} : Goes(n, step) BY <2>3 DEF Rename
    <3>2. PICK step \in {"answer", "failed"} : Goes(n, step) BY <3>1
    <3>3. jobs'[n].step = step BY <1>0, <1>2, <3>2, Went
    <3>4. QED BY <1>5, <3>3
  <2>4. CASE ReadBack(n) \/ Remove(n) BY <1>4, <1>5, <2>4 DEF ReadBack, Remove
  <2>5. QED BY <2>1, <2>2, <2>3, <2>4
<1>6. CASE m # n
  <2>1. jobs'[m] = jobs[m] BY <1>3, <1>6
  <2>2. disk[Target(jobs[m])] = Absent BY <1>4, <2>1 DEF NotThere
  <2>3. CASE Stat(n) \/ Fill(n) \/ ReadBack(n)
    BY <1>4, <2>2, <2>3 DEF Stat, Fill, ReadBack
  <2>4. CASE Remove(n)
    <3>1. disk' = [disk EXCEPT ![place] = Absent] BY <2>4 DEF Remove, Target
    <3>2. QED BY <1>0, <1>4, <2>2, <3>1 DEF Typed
  <2>5. CASE Rename(n)
    <3>1. jobs[n].kind \in {"create", "write"} /\ jobs[n].kind \notin Answers
      BY <1>1, <2>5 DEF Rename, IInv, Shapes, Shaped, Writes, Answers
    <3>2. jobs[m].kind \notin Answers BY <1>4 DEF Answers
    <3>3. Target(jobs[m]) # place BY <1>1, <1>4, <1>6, <3>1, <3>2, Meeting
    <3>4. disk' = disk \/ disk' = [disk EXCEPT ![place] = temp[place]]
      BY <2>5 DEF Rename, Target
    <3>5. QED BY <1>0, <1>4, <2>2, <3>3, <3>4 DEF Typed
  <2>6. QED BY <2>3, <2>4, <2>5
<1>7. QED BY <1>5, <1>6

(* Wherever the person goes, what is about to be created is not there yet. *)
LEMMA NextNotThere == IInv /\ NotThere /\ [Next]_vars => NotThere'
<1> SUFFICES ASSUME IInv, NotThere, [Next]_vars PROVE NotThere' OBVIOUS
<1>0. Typed BY DEF IInv
<1>1. ASSUME UNCHANGED <<disk, jobs>>, unsure \subseteq unsure' PROVE NotThere'
  <2>1. Live' = Live BY <1>1 DEF Live
  <2>2. QED BY <1>1, <2>1, StillNotThere DEF Like
<1>2. ASSUME NEW job, Start(job), UNCHANGED disk, job.kind # "create" PROVE NotThere'
  <2>1. PICK n \in Slots : Started(n, job) BY <1>2 DEF Start
  <2>2. QED BY <1>0, <1>2, <2>1, StartedNotThere
<1>3. CASE Edit \/ NewSheet \/ GotoSheet \/ Aim \/ ConfirmDeleteFile \/ ConfirmClose \/ Back
  BY <1>1, <1>3 DEF Edit, NewSheet, GotoSheet, Aim, ConfirmDeleteFile, ConfirmClose, Back
<1>4. CASE Choose
  <2>1. dialog \in Dialog BY <1>0, <1>4 DEF Choose, Typed
  <2> DEFINE job(name) == [Call(dialog.kind, "answer", name, 0, dialog.at, dialog.now, {dialog.root})
                             EXCEPT !.root = dialog.root]
  <2>2. PICK name : Start(job(name)) BY <1>4 DEF Choose
  <2>3. job(name).kind = dialog.kind BY DEF Call
  <2>4. job(name).kind # "create" BY <2>1, <2>3 DEF Dialog, Answers
  <2>5. UNCHANGED disk BY <1>4 DEF Choose
  <2> HIDE DEF job
  <2>6. QED BY <1>2, <2>2, <2>4, <2>5
<1>5. CASE ReadFile
  <2>1. PICK name : Start(Call("read", "fill", name, 0, 1, 1, {})) BY <1>5 DEF ReadFile
  <2>2. Call("read", "fill", name, 0, 1, 1, {}).kind = "read" BY DEF Call
  <2>3. QED BY <1>2, <1>5, <2>1, <2>2 DEF ReadFile
<1>6. CASE SaveSheet
  <2>1. WriteFile(sheet, Front.file, Front.text, sheet, {Root}).kind = "write"
    BY DEF WriteFile, Call
  <2>2. QED BY <1>1, <1>2, <1>6, <2>1 DEF SaveSheet
<1>7. CASE Disk BY <1>7, DiskNotThere
<1>8. CASE Update
  <2>1. PICK n \in Slots :
          \/ SaveNamed(n) \/ Overwritten(n) \/ RemoveFile(n) \/ ConfirmOverwrite(n)
          \/ WroteFile(n) \/ OpenedFile(n) \/ CloseSheet(n) \/ Told(n)
    BY <1>8 DEF Update
  <2>2. CASE SaveNamed(n)
    <3>1. Call("create", "stat", jobs[n].name, Front.text, sheet, sheet, {}).step = "stat"
      BY DEF Call
    <3>2. QED BY <1>0, <2>2, <3>1, StartedNotThere DEF SaveNamed
  <2>3. CASE Overwritten(n)
    <3> DEFINE at == jobs[n].at
               body == IF at \in DOMAIN tabs THEN tabs[at].text ELSE 0
               job == WriteFile(at, jobs[n].name, body, jobs[n].now, jobs[n].over)
    <3>1. job.kind = "write" BY DEF WriteFile, Call
    <3>2. Started(n, job) /\ UNCHANGED disk BY <2>3 DEF Overwritten
    <3> HIDE DEF job
    <3>3. QED BY <1>0, <3>1, <3>2, StartedNotThere
  <2>4. CASE RemoveFile(n)
    <3>1. Call("remove", "fill", jobs[n].name, 0, 1, 1, {}).kind = "remove" BY DEF Call
    <3>2. QED BY <1>0, <2>4, <3>1, StartedNotThere DEF RemoveFile
  <2>5. CASE \/ ConfirmOverwrite(n) \/ WroteFile(n) \/ OpenedFile(n)
             \/ CloseSheet(n) \/ Told(n)
    <3>1. /\ UNCHANGED disk /\ unsure \subseteq unsure' /\ Live' \subseteq Live
          /\ \A m \in Live' : Like(jobs'[m], jobs[m]) /\ jobs'[m].step = jobs[m].step
      BY <1>0, <2>5, AnswersLike
    <3>2. QED BY <3>1, StillNotThere
  <2>6. QED BY <2>1, <2>2, <2>3, <2>4, <2>5
<1>9. CASE UNCHANGED vars BY <1>1, <1>9 DEF vars
<1>10. QED BY <1>3, <1>4, <1>5, <1>6, <1>7, <1>8, <1>9 DEF Next

LEMMA AlwaysNotThere == Spec => [](IInv /\ NotThere)
<1>1. Init => NotThere BY DEF Init, NotThere, Live
<1>2. QED BY <1>1, InitIInv, NextIInv, NextNotThere, PTL DEF Spec

(* A write that creates a file replaces none, wherever the person went     *)
(* since it looked (Create in store.go), unless another call was at work   *)
(* on the file or a tab lost track of it.                                  *)
THEOREM CreatingReplacesNothing ==
  Spec => [][\A n \in Slots : Rename(n) /\ jobs[n].kind = "create" =>
               disk[Target(jobs[n])] = Absent \/ Target(jobs[n]) \in unsure]_vars
<1>1. ASSUME NotThere, NEW n \in Slots, Rename(n), jobs[n].kind = "create"
      PROVE  disk[Target(jobs[n])] = Absent \/ Target(jobs[n]) \in unsure
  BY <1>1 DEF Rename, NotThere, Live
<1>2. NotThere => [\A n \in Slots : Rename(n) /\ jobs[n].kind = "create" =>
                     disk[Target(jobs[n])] = Absent \/ Target(jobs[n]) \in unsure]_vars
  BY <1>1
<1>3. QED BY <1>2, AlwaysNotThere, PTL

-----------------------------------------------------------------------------
(* Where nobody wanders. *)

(* Nothing is asked but what was, and the one tab or the other comes in    *)
(* front only when nothing is.                                             *)
LEMMA FewerAsked ==
  ASSUME Asked, \A m \in Live' : m \in Live /\ Like(jobs'[m], jobs[m]),
         \/ Root' = Root /\ dialog' \in {dialog, None}
         \/ Asking' = {} /\ (dialog' # None => dialog'.root = Root')
  PROVE  OneAtATime' /\ Allowed'
<1>1. OneAtATime /\ Allowed BY DEF Asked
<1>2. \A m \in Asking' : m \in Asking /\ jobs'[m].root = jobs[m].root BY DEF Asking, Like
<1>3. OneAtATime' BY <1>1, <1>2 DEF OneAtATime
<1>4. Allowed' BY <1>1 DEF Allowed, Like
<1>5. QED BY <1>3, <1>4

(* Where nobody wanders, what may move waits for what was asked.           *)
LEMMA Waits == ~Wanders /\ MayMove => Asking = {}
BY DEF MayMove, UnderWay, Asking, Live

(* A call that began is the only thing asked, or writes where it may.      *)
LEMMA StartedAsked ==
  ASSUME IInv, Asked, NEW n \in Slots, NEW job \in Job, Started(n, job),
         jobs[n] = None \/ n \in Asking,
         UNCHANGED <<disk, tabs, sheet>>, dialog' = None,
         job.kind # "write" => Asking \subseteq {n} /\ job.root = Root,
         job.kind \in {"agreed", "write"} => job.root \in job.over
  PROVE  Asked'
<1>1. Typed BY DEF IInv
<1>2. jobs'[n] = job /\ \A m \in Slots : m # n => jobs'[m] = jobs[m]
  BY <1>1 DEF Typed, Started
<1>3. None \notin Job BY DEF None, Job
<1>4. n \in Live' /\ \A m \in Slots : m # n => (m \in Live' <=> m \in Live)
  BY <1>2, <1>3 DEF Live
<1>5. Root' = Root BY DEF Root, Front
<1>6. OneAtATime'
  <2>1. \A m \in Asking' : m # n => m \in Asking /\ jobs'[m] = jobs[m]
    BY <1>2, <1>4 DEF Asking, Live
  <2>2. n \in Asking' => job.kind # "write" BY <1>2 DEF Asking, Answers
  <2>3. QED BY <1>2, <1>5, <2>1, <2>2 DEF OneAtATime, Asked
<1>7. Allowed' BY <1>2, <1>4 DEF Allowed, Asked, Live
<1>8. QED BY <1>6, <1>7 DEF Asked

(* What the screen does to its tabs, or asks, it does when nothing is.     *)
LEMMA KeysAsked ==
  /\ ~Wanders /\ IInv /\ Asked
  /\ \/ Edit \/ NewSheet \/ GotoSheet \/ Aim \/ ConfirmDeleteFile \/ ConfirmClose \/ Back
     \/ (SaveSheet /\ Front.file = NoName)
  => Asked'
<1> SUFFICES ASSUME ~Wanders, IInv, Asked,
                    \/ Edit \/ NewSheet \/ GotoSheet \/ Aim \/ ConfirmDeleteFile \/ ConfirmClose
                    \/ Back \/ (SaveSheet /\ Front.file = NoName)
             PROVE  Asked'
  OBVIOUS
<1>1. UNCHANGED jobs
  BY DEF Edit, NewSheet, GotoSheet, Aim, ConfirmDeleteFile, ConfirmClose, Back, SaveSheet
<1>2. Live' = Live /\ Asking' = Asking /\ \A m \in Live' : Like(jobs'[m], jobs[m])
  BY <1>1 DEF Live, Asking, Like
<1>3. \/ Root' = Root /\ dialog' \in {dialog, None}
      \/ Asking' = {} /\ (dialog' # None => dialog'.root = Root')
  <2>1. CASE Edit
    <3>1. PICK text \in Texts : tabs' = [tabs EXCEPT ![sheet].text = text] BY <2>1 DEF Edit
    <3>2. Front \in Tab /\ Front = tabs[sheet] /\ sheet \in DOMAIN tabs BY Places DEF IInv
    <3>3. tabs'[sheet] = [tabs[sheet] EXCEPT !.text = text] BY <3>1, <3>2
    <3>4. tabs'[sheet].on = tabs[sheet].on BY <3>2, <3>3 DEF Tab
    <3>5. QED BY <2>1, <3>4 DEF Edit, Root, Front
  <2>2. CASE NewSheet \/ GotoSheet \/ Aim
    BY <1>2, <2>2, Waits DEF NewSheet, GotoSheet, Aim
  <2>3. CASE ConfirmDeleteFile \/ ConfirmClose \/ (SaveSheet /\ Front.file = NoName)
    <3>1. MayMove /\ UNCHANGED <<tabs, sheet>>
      BY <2>3 DEF ConfirmDeleteFile, ConfirmClose, SaveSheet
    <3>2. dialog'.root = Root
      BY <2>3 DEF ConfirmDeleteFile, ConfirmClose, SaveSheet, Ask
    <3>3. Root' = Root BY <3>1 DEF Root, Front
    <3>4. QED BY <1>2, <3>1, <3>2, <3>3, Waits
  <2>4. CASE Back BY <2>4 DEF Back, Root, Front
  <2>5. QED BY <2>1, <2>2, <2>3, <2>4
<1>4. QED BY <1>2, <1>3, FewerAsked DEF Asked

(* What is asked for is asked for alone, or writes where it may.           *)
LEMMA StartsAsked ==
  /\ ~Wanders /\ IInv /\ Asked
  /\ Choose \/ ReadFile \/ (SaveSheet /\ Front.file # NoName)
  => Asked'
<1> SUFFICES ASSUME ~Wanders, IInv, Asked,
                    Choose \/ ReadFile \/ (SaveSheet /\ Front.file # NoName)
             PROVE  Asked'
  OBVIOUS
<1>0. Typed BY DEF IInv
<1>1. Len(tabs) \in Nat /\ Root \in Roots /\ Front \in Tab
      /\ Front = tabs[sheet] /\ sheet \in DOMAIN tabs
      /\ Len(tabs) \in 1..MaxTabs /\ MaxTabs \in Nat /\ 0 \in Texts
  BY <1>0, Places, FilesAssumption DEF Typed, Texts
<1>2. ASSUME NEW job \in Job, Start(job), UNCHANGED <<disk, tabs, sheet>>, dialog' = None,
             job.kind # "write" => Asking = {} /\ job.root = Root,
             job.kind \in {"agreed", "write"} => job.root \in job.over
      PROVE  Asked'
  <2>1. PICK n \in Slots : Free(n) /\ Started(n, job) BY <1>2 DEF Start
  <2>2. jobs[n] = None BY <2>1 DEF Free
  <2>3. job.kind # "write" => Asking \subseteq {n} /\ job.root = Root BY <1>2
  <2>4. QED BY <1>2, <2>1, <2>2, <2>3, StartedAsked
<1>3. CASE Choose
  <2>1. dialog \in Dialog /\ dialog # None /\ dialog' = None BY <1>0, <1>3 DEF Choose, Typed
  <2> DEFINE job(name) == [Call(dialog.kind, "answer", name, 0, dialog.at, dialog.now, {dialog.root})
                             EXCEPT !.root = dialog.root]
  <2>2. PICK name \in IF dialog.kind = "named" THEN Names ELSE {dialog.name} : Start(job(name))
    BY <1>3 DEF Choose
  <2>3. name \in Names BY <2>1, <2>2 DEF Dialog
  <2>4. job(name) = [kind |-> dialog.kind, step |-> "answer", root |-> dialog.root, name |-> name,
                     body |-> 0, at |-> dialog.at, now |-> dialog.now, over |-> {dialog.root}]
    BY DEF Call
  <2>5. job(name) \in Job
    <3>1. dialog.kind \in Answers /\ dialog.root \in Roots /\ {dialog.root} \in SUBSET Roots
          /\ dialog.at \in 1..MaxTabs /\ dialog.now \in 0..MaxTabs
      BY <2>1 DEF Dialog
    <3>2. QED BY <1>1, <2>3, <2>4, <3>1 DEF Job
  <2>6. job(name).kind = dialog.kind /\ job(name).root = dialog.root
        /\ job(name).over = {dialog.root} /\ dialog.kind \in Answers
    BY <2>1, <2>4 DEF Dialog
  <2>7. Asking = {} /\ dialog.root = Root BY <2>1 DEF Asked, OneAtATime
  <2>8. UNCHANGED <<disk, tabs, sheet>> BY <1>3 DEF Choose
  <2> HIDE DEF job
  <2>9. job(name).kind # "write" BY <2>6 DEF Answers
  <2>10. QED BY <1>2, <2>1, <2>2, <2>5, <2>6, <2>7, <2>8, <2>9
<1>4. CASE ReadFile
  <2>1. PICK name \in Names : Start(Call("read", "fill", name, 0, 1, 1, {})) BY <1>4 DEF ReadFile
  <2> DEFINE job == Call("read", "fill", name, 0, 1, 1, {})
  <2>2. job = [kind |-> "read", step |-> "fill", root |-> Root, name |-> name, body |-> 0,
               at |-> 1, now |-> 1, over |-> {}]
    BY DEF Call
  <2>3. job \in Job BY <1>1, <2>2 DEF Job
  <2>4. job.kind = "read" /\ job.root = Root BY <2>2
  <2>5. dialog' = None /\ UNCHANGED <<disk, tabs, sheet>> /\ Asking = {}
    BY <1>4, Waits DEF ReadFile
  <2> HIDE DEF job
  <2>6. Start(job) BY <2>1 DEF job
  <2>7. QED BY <1>2, <2>3, <2>4, <2>5, <2>6
<1>5. CASE SaveSheet /\ Front.file # NoName
  <2> DEFINE job == WriteFile(sheet, Front.file, Front.text, sheet, {Root})
  <2>1. Start(job) /\ UNCHANGED <<disk, tabs, sheet>> /\ dialog' = None BY <1>5 DEF SaveSheet
  <2>2. job = [kind |-> "write", step |-> "fill", root |-> Root, name |-> Front.file,
               body |-> Front.text, at |-> sheet, now |-> sheet, over |-> {Root}]
    BY DEF WriteFile, Call
  <2>3. Front.file \in Names /\ Front.text \in Texts
        /\ sheet \in 1..MaxTabs /\ sheet \in 0..MaxTabs /\ {Root} \in SUBSET Roots
    BY <1>0, <1>1, <1>5 DEF Tab, Typed
  <2> HIDE DEF job
  <2>4. job \in Job
    <3>1. Root \in Roots BY <1>1
    <3>2. QED BY <2>2, <2>3, <3>1 DEF Job
  <2>5. job.kind = "write" /\ job.root \in job.over BY <2>2
  <2>6. QED BY <1>2, <2>1, <2>4, <2>5
<1>6. QED BY <1>3, <1>4, <1>5

(* So is what follows an answer.                                           *)
LEMMA FollowsAsked ==
  \A n \in Slots :
    IInv /\ Asked /\ (SaveNamed(n) \/ Overwritten(n) \/ RemoveFile(n)) => Asked'
<1> SUFFICES ASSUME NEW n \in Slots, IInv, Asked, SaveNamed(n) \/ Overwritten(n) \/ RemoveFile(n)
             PROVE  Asked'
  OBVIOUS
<1>0. Typed BY DEF IInv
<1>1. n \in Live /\ n \in Asking
  BY DEF SaveNamed, Overwritten, RemoveFile, Lands, Live, Answers, Asking
<1>2. Asking \subseteq {n} /\ dialog = None /\ jobs[n].root = Root
  BY <1>1 DEF Asked, OneAtATime
<1>3. jobs[n] \in Job /\ jobs[n].name \in Names /\ jobs[n].now \in 0..MaxTabs
      /\ jobs[n].at \in 1..MaxTabs /\ jobs[n].over \in SUBSET Roots
  BY <1>0, <1>1, Places DEF Job
<1>4. Root \in Roots /\ Front \in Tab /\ DOMAIN tabs = 1..Len(tabs)
      /\ sheet \in 1..MaxTabs /\ sheet \in 0..MaxTabs /\ MaxTabs \in Nat \ {0}
      /\ 0 \in Texts /\ \A j \in DOMAIN tabs : tabs[j] \in Tab
  BY <1>0, Places, FilesAssumption DEF Typed, Texts
<1>5. UNCHANGED <<disk, tabs, sheet>> /\ dialog' = None
  BY <1>2 DEF SaveNamed, Overwritten, RemoveFile
<1>6. CASE SaveNamed(n)
  <2> DEFINE job == Call("create", "stat", jobs[n].name, Front.text, sheet, sheet, {})
  <2>1. job = [kind |-> "create", step |-> "stat", root |-> Root, name |-> jobs[n].name,
               body |-> Front.text, at |-> sheet, now |-> sheet, over |-> {}]
    BY DEF Call
  <2>2. Started(n, job) BY <1>6 DEF SaveNamed
  <2> HIDE DEF job
  <2>3. Front.text \in Texts BY <1>4 DEF Tab
  <2>4. job \in Job BY <1>3, <1>4, <2>1, <2>3 DEF Job
  <2>5. job.kind = "create" /\ job.step = "stat" /\ job.root = Root BY <2>1
  <2>6. QED BY <1>1, <1>2, <1>5, <2>2, <2>4, <2>5, StartedAsked
<1>7. CASE Overwritten(n)
  <2> DEFINE at == jobs[n].at
             body == IF at \in DOMAIN tabs THEN tabs[at].text ELSE 0
             job == WriteFile(at, jobs[n].name, body, jobs[n].now, jobs[n].over)
  <2>1. job = [kind |-> "write", step |-> "fill", root |-> Root, name |-> jobs[n].name,
               body |-> body, at |-> at, now |-> jobs[n].now, over |-> jobs[n].over]
    BY DEF WriteFile, Call
  <2>2. Started(n, job) BY <1>7 DEF Overwritten
  <2>3. body \in Texts BY <1>4 DEF Tab
  <2> HIDE DEF job, body
  <2>4. job \in Job BY <1>3, <1>4, <2>1, <2>3 DEF Job
  <2>5. jobs[n].kind = "agreed" BY <1>7 DEF Overwritten, Lands
  <2>6. Root \in jobs[n].over BY <1>1, <1>2, <2>5 DEF Asked, Allowed
  <2>7. job.kind = "write" /\ job.root \in job.over BY <2>1, <2>6
  <2>8. QED BY <1>1, <1>5, <2>2, <2>4, <2>7, StartedAsked
<1>8. CASE RemoveFile(n)
  <2> DEFINE job == Call("remove", "fill", jobs[n].name, 0, 1, 1, {})
  <2>1. job = [kind |-> "remove", step |-> "fill", root |-> Root, name |-> jobs[n].name,
               body |-> 0, at |-> 1, now |-> 1, over |-> {}]
    BY DEF Call
  <2>2. Started(n, job) BY <1>8 DEF RemoveFile
  <2> HIDE DEF job
  <2>3. job \in Job
    <3>1. 1 \in 1..MaxTabs /\ 1 \in 0..MaxTabs BY <1>4
    <3>2. QED BY <1>3, <1>4, <2>1, <3>1 DEF Job
  <2>4. job.kind = "remove" /\ job.root = Root BY <2>1
  <2>5. QED BY <1>1, <1>2, <1>5, <2>2, <2>3, <2>4, StartedAsked
<1>9. QED BY <1>6, <1>7, <1>8

(* An answer that is taken leaves nothing asked, or is none to a question. *)
LEMMA AnswersAsked ==
  \A n \in Slots :
    /\ IInv /\ Asked
    /\ ConfirmOverwrite(n) \/ WroteFile(n) \/ OpenedFile(n) \/ CloseSheet(n) \/ Told(n)
    => Asked'
<1> SUFFICES ASSUME NEW n \in Slots, IInv, Asked,
                    \/ ConfirmOverwrite(n) \/ WroteFile(n) \/ OpenedFile(n)
                    \/ CloseSheet(n) \/ Told(n)
             PROVE  Asked'
  OBVIOUS
<1>0. Typed BY DEF IInv
<1>1. n \in Live /\ Live' \subseteq Live \ {n} /\ \A m \in Live' : Like(jobs'[m], jobs[m])
  BY <1>0, AnswersLike
<1>2. Asking' \subseteq Asking \ {n} BY <1>1 DEF Asking, Like
<1>3. n \in Asking => Asking' = {} /\ dialog = None /\ jobs[n].root = Root
  BY <1>2 DEF Asked, OneAtATime
<1>4. \/ Root' = Root /\ dialog' \in {dialog, None}
      \/ Asking' = {} /\ (dialog' # None => dialog'.root = Root')
  <2>1. CASE ConfirmOverwrite(n)
    <3>1. n \in Asking BY <1>1, <2>1 DEF ConfirmOverwrite, Lands, Asking
    <3>2. dialog'.root = jobs[n].root /\ Root' = Root
      BY <2>1 DEF ConfirmOverwrite, Ask, Root, Front
    <3>3. QED BY <1>3, <3>1, <3>2
  <2>2. CASE WroteFile(n)
    <3> DEFINE at == jobs[n].at
    <3>1. UNCHANGED <<sheet, dialog>> BY <2>2 DEF WroteFile
    <3>2. sheet \in DOMAIN tabs /\ DOMAIN tabs = 1..Len(tabs)
          /\ \A j \in DOMAIN tabs : tabs[j] \in Tab
      BY <1>0, Places
    <3>3. CASE at \in DOMAIN tabs
      <4>1. tabs' = [tabs EXCEPT ![at].file = jobs[n].name, ![at].saved = jobs[n].body]
        BY <2>2, <3>3 DEF WroteFile, Saved
      <4>2. \A j \in DOMAIN tabs : tabs'[j].on = tabs[j].on
        BY <1>0, <3>2, <3>3, <4>1 DEF Typed, Tab
      <4>3. QED BY <3>1, <3>2, <4>2 DEF Root, Front
    <3>4. CASE at \notin DOMAIN tabs BY <2>2, <3>1, <3>4 DEF WroteFile, Root, Front
    <3>5. QED BY <3>3, <3>4
  <2>3. CASE OpenedFile(n) \/ CloseSheet(n)
    <3>1. n \in Asking BY <1>1, <2>3 DEF OpenedFile, CloseSheet, Lands, Asking, Answers
    <3>2. dialog' = None BY <1>3, <2>3, <3>1 DEF OpenedFile, CloseSheet
    <3>3. QED BY <1>3, <3>1, <3>2
  <2>4. CASE Told(n) BY <2>4 DEF Told, Root, Front
  <2>5. QED BY <2>1, <2>2, <2>3, <2>4
<1>5. QED BY <1>1, <1>4, FewerAsked DEF Asked

(* What is done to the disk asks nothing.                                  *)
LEMMA DiskAsked == IInv /\ Asked /\ Disk => Asked'
<1> SUFFICES ASSUME IInv, Asked, NEW n \in Slots,
                    Stat(n) \/ Fill(n) \/ Rename(n) \/ ReadBack(n) \/ Remove(n)
             PROVE  Asked'
  BY DEF Disk
<1>1. UNCHANGED dialog /\ Root' = Root /\ Live' = Live
      /\ \A m \in Live : Like(jobs'[m], jobs[m])
  BY DiskLike DEF IInv
<1>2. QED BY <1>1, FewerAsked DEF Asked

LEMMA NextAsked == ~Wanders /\ IInv /\ Asked /\ [Next]_vars => Asked'
<1> SUFFICES ASSUME ~Wanders, IInv, Asked, [Next]_vars PROVE Asked' OBVIOUS
<1>1. CASE Edit \/ NewSheet \/ GotoSheet \/ Aim \/ ConfirmDeleteFile \/ ConfirmClose \/ Back
  BY <1>1, KeysAsked
<1>2. CASE Choose \/ ReadFile BY <1>2, StartsAsked
<1>3. CASE SaveSheet BY <1>3, KeysAsked, StartsAsked
<1>4. CASE Disk BY <1>4, DiskAsked
<1>5. CASE Update
  <2>1. PICK n \in Slots :
          \/ SaveNamed(n) \/ Overwritten(n) \/ RemoveFile(n) \/ ConfirmOverwrite(n)
          \/ WroteFile(n) \/ OpenedFile(n) \/ CloseSheet(n) \/ Told(n)
    BY <1>5 DEF Update
  <2>2. QED BY <2>1, FollowsAsked, AnswersAsked
<1>6. CASE UNCHANGED vars
  BY <1>6 DEF vars, Asked, OneAtATime, Allowed, Live, Asking, Root, Front
<1>7. QED BY <1>1, <1>2, <1>3, <1>4, <1>5, <1>6 DEF Next

(* What is in a file goes only when the one who wrote over it was asked    *)
(* about this file, or had it open (Create and Write in store.go, with     *)
(* confirmOverwrite and overwritten), where nobody goes elsewhere before   *)
(* what he was asked is answered.                                          *)
THEOREM NothingIsWrittenOverUnasked ==
  ASSUME ~Wanders PROVE Spec => WrittenOverWhenAsked
<1> DEFINE Over(n) == /\ disk[Target(jobs[n])] # Absent /\ Target(jobs[n]) \notin unsure
                      => jobs[n].root \in jobs[n].over
<1>1. Init => Asked
  BY DEF Init, Asked, OneAtATime, Allowed, Live, Asking
<1>2. ~Wanders OBVIOUS
<1>3. IInv /\ Asked /\ [Next]_vars => Asked' BY <1>2, NextAsked
<1>4. ASSUME IInv, NotThere, Asked, NEW n \in Slots, Rename(n) PROVE Over(n)
  <2>1. n \in Live /\ jobs[n].step = "rename" BY <1>4 DEF Rename, Live
  <2>2. jobs[n].kind \in {"create", "write"}
    BY <1>4, <2>1 DEF IInv, Shapes, Shaped, Writes
  <2>3. QED BY <1>4, <2>1, <2>2 DEF Asked, Allowed, NotThere
<1>5. IInv /\ NotThere /\ Asked /\ [Next]_vars => [\A n \in Slots : Rename(n) =>
        LET place == <<jobs[n].root, jobs[n].name>> IN
        (disk[place] # Absent /\ place \notin unsure) => jobs[n].root \in jobs[n].over]_vars
  BY <1>4 DEF Target
<1>6. QED BY <1>1, <1>3, <1>5, AlwaysNotThere, PTL DEF Spec, WrittenOverWhenAsked
=============================================================================
