------------------------------- MODULE Files -------------------------------
(***************************************************************************)
(* Saved statements: the tabs of the editor and the files they were read   *)
(* from and are written to, one directory a connection.                    *)
(*                                                                         *)
(* Reading, writing and removing run beside the screen and answer later,   *)
(* and so does the key that chooses in a dialog.  A write is a temporary   *)
(* file, one for each name, put in the place of the file.                  *)
(***************************************************************************)
EXTENDS Naturals, Sequences

CONSTANTS
  Roots,   \* the open connections; each keeps its statements in its own place
  Names,   \* the names a file can have
  Absent,  \* what a file that is not there holds
  NoName,  \* the file of a tab that never was one
  Wanders, \* whether another tab may come in front before a question is answered
  MaxText, \* bound: what may be typed; 0 is nothing
  MaxTabs, \* bound: tabs at once
  MaxJobs  \* bound: calls and answers under way at once

ASSUME FilesAssumption ==
  /\ Roots # {} /\ Names # {} /\ Wanders \in BOOLEAN
  /\ MaxText \in Nat /\ MaxTabs \in Nat \ {0} /\ MaxJobs \in Nat
  /\ Absent \notin 0..MaxText /\ NoName \notin Names

Texts == 0..MaxText
Slots == 1..MaxJobs

None == [kind |-> "none"]

VARIABLES
  disk,   \* what every file holds
  temp,   \* what the temporary file of every name holds
  tabs,   \* the tabs, in the order they are shown
  sheet,  \* the one in front
  dialog, \* the question on the screen
  jobs,   \* what is under way
  unsure  \* the files something happened to behind the back of their tab

vars == <<disk, temp, tabs, sheet, dialog, jobs, unsure>>

\* A tab: the connection it is worked through, its file, what it holds and what
\* it takes its file to hold.
Tab == [on : Roots, file : Names \cup {NoName}, text : Texts, saved : Texts]

Answers == {"named", "agreed", "unwanted", "close"}

\* A call or an answer under way: where and what it writes or read, the place
\* of the tab it is for, and then what the code does not keep: where that tab is
\* now, 0 when it is gone, and where what is there may be written over.
Job == [kind : {"read", "create", "write", "remove"} \cup Answers,
        step : {"stat", "fill", "rename", "answer", "there", "failed"},
        root : Roots, name : Names, body : Texts, at : 1..MaxTabs,
        now : 0..MaxTabs, over : SUBSET Roots]

Dialog == [kind : Answers, root : Roots, name : Names, at : 1..MaxTabs,
           now : 0..MaxTabs]

TypeOK ==
  /\ disk \in [Roots \X Names -> Texts \cup {Absent}]
  /\ temp \in [Roots \X Names -> Texts \cup {Absent}]
  /\ Len(tabs) \in 1..MaxTabs /\ \A i \in DOMAIN tabs : tabs[i] \in Tab
  /\ sheet \in DOMAIN tabs
  /\ dialog \in Dialog \cup {None}
  /\ jobs \in [Slots -> Job \cup {None}]
  /\ unsure \subseteq Roots \X Names

NewWorksheet(on) ==
  [on |-> on, file |-> NoName, text |-> 0, saved |-> 0]

Init ==
  /\ disk \in [Roots \X Names -> {0, Absent}]
  /\ temp = [place \in Roots \X Names |-> Absent]
  /\ \E on \in Roots : tabs = <<NewWorksheet(on)>>
  /\ sheet = 1 /\ dialog = None
  /\ jobs = [n \in Slots |-> None] /\ unsure = {}

Front == tabs[sheet]

\* The directory of the connection in front, which is the one of the tab there.
Root == Front.on

Dirty(t) == t.file # NoName /\ t.text # t.saved

-----------------------------------------------------------------------------
(* Calls and answers. *)

Free(n) == jobs[n] = None /\ \A m \in 1..(n - 1) : jobs[m] # None

UnderWay(kinds) == \E n \in Slots : jobs[n] # None /\ jobs[n].kind \in kinds

\* Two calls on one file, one of which changes it.
Meet(a, b) == /\ {a.kind, b.kind} \cap Answers = {}
              /\ a.root = b.root /\ a.name = b.name
              /\ {a.kind, b.kind} # {"read"}

Started(n, job) ==
  /\ jobs' = [jobs EXCEPT ![n] = job]
  /\ unsure' = unsure \cup
       IF \E m \in Slots \ {n} : jobs[m] # None /\ Meet(jobs[m], job)
       THEN {<<job.root, job.name>>} ELSE {}

Start(job) == \E n \in Slots : Free(n) /\ Started(n, job)

Call(kind, step, name, body, at, now, over) ==
  [kind |-> kind, step |-> step, root |-> Root, name |-> name, body |-> body,
   at |-> at, now |-> now, over |-> over]

\* writeFile: to the directory of the connection in front when it is called.
WriteFile(at, name, body, now, over) == Call("write", "fill", name, body, at, now, over)

\* The key that chooses takes the dialog down and sends its answer.
Choose ==
  /\ dialog # None
  /\ \E name \in IF dialog.kind = "named" THEN Names ELSE {dialog.name} :
       Start([Call(dialog.kind, "answer", name, 0, dialog.at, dialog.now, {dialog.root})
                EXCEPT !.root = dialog.root])
  /\ dialog' = None
  /\ UNCHANGED <<disk, temp, tabs, sheet>>

Back ==
  /\ dialog # None /\ dialog' = None
  /\ UNCHANGED <<disk, temp, tabs, sheet, jobs, unsure>>

Ask(kind, root, name, at, now) ==
  dialog' = [kind |-> kind, root |-> root, name |-> name, at |-> at, now |-> now]

\* A name where the question has none.
AnyName == CHOOSE name \in Names : TRUE

-----------------------------------------------------------------------------
(* The disk. *)

Goes(n, step) == jobs' = [jobs EXCEPT ![n].step = step]

\* Mutant: Create does not look.
StatBlind(n) ==
  /\ jobs[n] # None /\ jobs[n].step = "stat"
  /\ Goes(n, "fill")
  /\ UNCHANGED <<disk, temp, tabs, sheet, dialog, unsure>>

\* Create: refuses to replace a file that is there.
Stat(n) ==
  /\ jobs[n] # None /\ jobs[n].step = "stat"
  /\ Goes(n, IF disk[<<jobs[n].root, jobs[n].name>>] = Absent THEN "fill" ELSE "there")
  /\ UNCHANGED <<disk, temp, tabs, sheet, dialog, unsure>>

\* Write: the temporary file, or the write fails.
Fill(n) ==
  /\ jobs[n] # None /\ jobs[n].kind \in {"create", "write"} /\ jobs[n].step = "fill"
  /\ \/ /\ Goes(n, "rename")
        /\ temp' = [temp EXCEPT ![<<jobs[n].root, jobs[n].name>>] = jobs[n].body]
     \/ Goes(n, "failed") /\ UNCHANGED temp
  /\ UNCHANGED <<disk, tabs, sheet, dialog, unsure>>

\* The temporary file takes the place of the file, when it is still there.
\* A tab other than the one it is written for that has this file is not told.
Rename(n) ==
  /\ jobs[n] # None /\ jobs[n].step = "rename"
  /\ LET place == <<jobs[n].root, jobs[n].name>> IN
     /\ temp' = [temp EXCEPT ![place] = Absent]
     /\ IF temp[place] = Absent
        THEN Goes(n, "failed") /\ UNCHANGED <<disk, unsure>>
        ELSE /\ Goes(n, "answer")
             /\ disk' = [disk EXCEPT ![place] = temp[place]]
             /\ unsure' = unsure \cup
                  IF \E i \in DOMAIN tabs \ {jobs[n].now} : <<tabs[i].on, tabs[i].file>> = place
                  THEN {place} ELSE {}
  /\ UNCHANGED <<tabs, sheet, dialog>>

ReadBack(n) ==
  /\ jobs[n] # None /\ jobs[n].kind = "read" /\ jobs[n].step = "fill"
  /\ LET held == disk[<<jobs[n].root, jobs[n].name>>] IN
     jobs' = IF held = Absent THEN [jobs EXCEPT ![n].step = "failed"]
             ELSE [jobs EXCEPT ![n].step = "answer", ![n].body = held]
  /\ UNCHANGED <<disk, temp, tabs, sheet, dialog, unsure>>

\* Remove; a tab that has the file is not told.
Remove(n) ==
  /\ jobs[n] # None /\ jobs[n].kind = "remove" /\ jobs[n].step = "fill"
  /\ LET place == <<jobs[n].root, jobs[n].name>> IN
     /\ disk' = [disk EXCEPT ![place] = Absent]
     /\ unsure' = unsure \cup
          IF \E i \in DOMAIN tabs : <<tabs[i].on, tabs[i].file>> = place THEN {place} ELSE {}
     /\ Goes(n, IF disk[place] = Absent THEN "failed" ELSE "answer")
  /\ UNCHANGED <<temp, tabs, sheet, dialog>>

Disk == \E n \in Slots : Stat(n) \/ Fill(n) \/ Rename(n) \/ ReadBack(n) \/ Remove(n)

-----------------------------------------------------------------------------
(* Keys. *)

\* Another tab comes in front, or something else is asked; where nobody wanders,
\* not while a question, its answer or what was asked for is on its way.  What a
\* tab writes to its own file is waited for by nobody.
MayMove == Wanders \/ ~UnderWay({"read", "create", "remove"} \cup Answers)

Edit ==
  /\ dialog = None
  /\ \E text \in Texts \ {Front.text} : tabs' = [tabs EXCEPT ![sheet].text = text]
  /\ UNCHANGED <<disk, temp, sheet, dialog, jobs, unsure>>

\* openSheet
OpenSheet(new) ==
  /\ Len(tabs) < MaxTabs
  /\ tabs' = Append(tabs, new)
  /\ sheet' = Len(tabs) + 1

NewSheet ==
  /\ dialog = None /\ MayMove
  /\ OpenSheet(NewWorksheet(Root))
  /\ UNCHANGED <<disk, temp, dialog, jobs, unsure>>

GotoSheet ==
  /\ dialog = None /\ MayMove
  /\ sheet' \in DOMAIN tabs \ {sheet}
  /\ UNCHANGED <<disk, temp, tabs, dialog, jobs, unsure>>

\* aimed4Switch: an empty tab is worked through another connection from now on,
\* and keeps its file; any other stays, as does an empty one with a result.
Aim ==
  /\ dialog = None /\ MayMove
  /\ \E on \in Roots \ {Root} :
       \/ OpenSheet(NewWorksheet(on)) /\ UNCHANGED unsure
       \/ /\ Front.text = 0
          /\ tabs' = [tabs EXCEPT ![sheet].on = on]
          /\ unsure' = unsure \cup (IF Front.file = NoName THEN {} ELSE {<<on, Front.file>>})
          /\ UNCHANGED sheet
  /\ UNCHANGED <<disk, temp, dialog, jobs>>

\* saveSheet: to the tab's file, or a name is asked for.
SaveSheet ==
  /\ dialog = None
  /\ IF Front.file # NoName
     THEN /\ Start(WriteFile(sheet, Front.file, Front.text, sheet, {Root}))
          /\ UNCHANGED dialog
     ELSE MayMove /\ Ask("named", Root, AnyName, 1, 1) /\ UNCHANGED <<jobs, unsure>>
  /\ UNCHANGED <<disk, temp, tabs, sheet>>

\* readFile, of the file chosen in the sidebar.
ReadFile ==
  /\ dialog = None /\ MayMove
  /\ \E name \in Names : Start(Call("read", "fill", name, 0, 1, 1, {}))
  /\ UNCHANGED <<disk, temp, tabs, sheet, dialog>>

ConfirmDeleteFile ==
  /\ dialog = None /\ MayMove
  /\ \E name \in Names : Ask("unwanted", Root, name, 1, 1)
  /\ UNCHANGED <<disk, temp, tabs, sheet, jobs, unsure>>

ConfirmClose ==
  /\ dialog = None /\ MayMove
  /\ Ask("close", Root, AnyName, 1, 1)
  /\ UNCHANGED <<disk, temp, tabs, sheet, jobs, unsure>>

-----------------------------------------------------------------------------
(* What comes back. *)

Lands(n, kind, steps) == jobs[n] # None /\ jobs[n].kind = kind /\ jobs[n].step \in steps

Cleared(n) == jobs' = [jobs EXCEPT ![n] = None]

\* saveNamed: the tab in front now, where it is now.
SaveNamed(n) ==
  /\ Lands(n, "named", {"answer"})
  /\ Started(n, Call("create", "stat", jobs[n].name, Front.text, sheet, sheet, {}))
  /\ UNCHANGED <<disk, temp, tabs, sheet, dialog>>

\* overwritten, with body4Sheet: what the tab in that place holds now, to the
\* directory of the connection in front now.
Overwritten(n) ==
  /\ Lands(n, "agreed", {"answer"})
  /\ LET at == jobs[n].at
         body == IF at \in DOMAIN tabs THEN tabs[at].text ELSE 0
     IN Started(n, WriteFile(at, jobs[n].name, body, jobs[n].now, jobs[n].over))
  /\ UNCHANGED <<disk, temp, tabs, sheet, dialog>>

RemoveFile(n) ==
  /\ Lands(n, "unwanted", {"answer"})
  /\ Started(n, Call("remove", "fill", jobs[n].name, 0, 1, 1, {}))
  /\ UNCHANGED <<disk, temp, tabs, sheet, dialog>>

\* wroteFile with ErrThere, and confirmOverwrite.
ConfirmOverwrite(n) ==
  /\ Lands(n, "create", {"there"})
  /\ Ask("agreed", jobs[n].root, jobs[n].name, jobs[n].at, jobs[n].now)
  /\ Cleared(n)
  /\ UNCHANGED <<disk, temp, tabs, sheet, unsure>>

\* Mutant: what the tab holds by now counts as saved.
SavedAsItIs(n, at) ==
  tabs' = [tabs EXCEPT ![at].file = jobs[n].name, ![at].saved = tabs[at].text]

\* The tab of a write that reached its file: the one in the place it was in.
Saved(n, at) ==
  tabs' = [tabs EXCEPT ![at].file = jobs[n].name, ![at].saved = jobs[n].body]

\* wroteFile
WroteFile(n) ==
  /\ Lands(n, "write", {"answer"}) \/ Lands(n, "create", {"answer"})
  /\ LET at == jobs[n].at IN
     /\ IF at \in DOMAIN tabs THEN Saved(n, at) ELSE UNCHANGED tabs
     /\ unsure' = unsure \cup
          IF at = jobs[n].now /\ tabs[at].on = jobs[n].root
          THEN {}
          ELSE {<<jobs[n].root, jobs[n].name>>}
               \cup {<<tabs[i].on, jobs[n].name>> : i \in {at} \cap DOMAIN tabs}
  /\ Cleared(n)
  /\ UNCHANGED <<disk, temp, sheet, dialog>>

\* openedFile: the tab that has the name, whichever connection it is of, or a
\* new one through the connection in front now.
OpenedFile(n) ==
  /\ Lands(n, "read", {"answer"})
  /\ LET having == {i \in DOMAIN tabs : tabs[i].file = jobs[n].name} IN
     IF having # {}
     THEN /\ sheet' = CHOOSE i \in having : \A j \in having : i =< j
          /\ UNCHANGED <<tabs, unsure>>
     ELSE /\ OpenSheet([NewWorksheet(Root) EXCEPT
               !.file = jobs[n].name, !.text = jobs[n].body, !.saved = jobs[n].body])
          /\ unsure' = unsure \cup
               IF Root # jobs[n].root THEN {<<Root, jobs[n].name>>} ELSE {}
  /\ Cleared(n)
  /\ UNCHANGED <<disk, temp, dialog>>

\* Where a tab is once the one in front is gone.
Shifted(at) == IF at = sheet THEN 0 ELSE IF at > sheet THEN at - 1 ELSE at

\* The tab that comes in front instead.
Beside == IF sheet = Len(tabs) THEN sheet - 1 ELSE sheet

\* closeSheet of the tab in front now; the last one is emptied instead.
CloseSheet(n) ==
  /\ Lands(n, "close", {"answer"})
  /\ IF Len(tabs) = 1
     THEN tabs' = <<NewWorksheet(Root)>> /\ UNCHANGED sheet
     ELSE /\ tabs' = SubSeq(tabs, 1, sheet - 1) \o SubSeq(tabs, sheet + 1, Len(tabs))
          /\ sheet' = Beside
  /\ jobs' = [m \in Slots |-> IF m = n \/ jobs[m] = None THEN None
                              ELSE [jobs[m] EXCEPT !.now = Shifted(@)]]
  /\ dialog' = IF dialog = None THEN None ELSE [dialog EXCEPT !.now = Shifted(@)]
  /\ UNCHANGED <<disk, temp, unsure>>

\* What failed is only said, and what was removed too.
Told(n) ==
  /\ jobs[n] # None
  /\ jobs[n].step = "failed" \/ Lands(n, "remove", {"answer"})
  /\ Cleared(n)
  /\ UNCHANGED <<disk, temp, tabs, sheet, dialog, unsure>>

Update ==
  \E n \in Slots :
    \/ SaveNamed(n) \/ Overwritten(n) \/ RemoveFile(n) \/ ConfirmOverwrite(n)
    \/ WroteFile(n) \/ OpenedFile(n) \/ CloseSheet(n) \/ Told(n)

Next ==
  \/ Edit \/ NewSheet \/ GotoSheet \/ Aim \/ SaveSheet \/ ReadFile
  \/ ConfirmDeleteFile \/ ConfirmClose \/ Choose \/ Back
  \/ Disk \/ Update

Spec == Init /\ [][Next]_vars

-----------------------------------------------------------------------------
(* Properties. *)

BeingWritten(place) ==
  \E n \in Slots : /\ jobs[n] # None /\ jobs[n].kind \in {"create", "write"}
                    /\ <<jobs[n].root, jobs[n].name>> = place

\* "... keeps what is below, so closing the tab loses nothing" (loss): once its
\* writes are answered, a tab that is not marked as changed shows what its file
\* holds, whatever was typed during them.  Not so of a file that was removed,
\* written by another tab, or by two calls at once, of a tab aimed elsewhere,
\* and of one whose answer another tab took because one was closed.
ClosingLosesNothing ==
  \A i \in DOMAIN tabs :
    LET place == <<tabs[i].on, tabs[i].file>> IN
    (tabs[i].file # NoName /\ ~Dirty(tabs[i]) /\ ~BeingWritten(place) /\ place \notin unsure)
      => disk[place] = tabs[i].text

\* What is in a file goes only when the one who wrote over it was asked, about
\* this file, or had it open; two tabs creating one file at once are not.
WrittenOverWhenAsked ==
  [][\A n \in Slots : Rename(n) =>
       LET place == <<jobs[n].root, jobs[n].name>> IN
       (disk[place] # Absent /\ place \notin unsure) => jobs[n].root \in jobs[n].over]_vars
=============================================================================
