------------------------------- MODULE Export -------------------------------
(***************************************************************************)
(* A result written to a file: the dialog, the goroutine that writes, and  *)
(* the watching of one by the other.                                       *)
(*                                                                         *)
(* A file is written beside the one it is meant to be and renamed when it  *)
(* is whole.  Progress is only told to a watcher that listens; the end is  *)
(* kept until one asks.  Esc closes the dialog and cancels the writing,    *)
(* which goes on until it notices, or to its end if it never does.         *)
(***************************************************************************)
EXTENDS Naturals, Bags, FiniteSets

CONSTANTS
  Paths,   \* names a file can be given
  MaxRuns  \* bound: files written

ASSUME ExportAssumption ==
  Paths # {} /\ IsFiniteSet(Paths) /\ MaxRuns \in Nat

Runs == 1..MaxRuns

\* No run: nothing to stop, or a path with no file, or one that others wrote.
NoRun == 0
Others == MaxRuns + 1

VARIABLES
  exporter, \* the dialog
  asking,   \* whether the question is on the screen
  asked,    \* answers on their way (writeExportMsg)
  runs,     \* the exports begun, in order
  stopExport, \* what the cancel held in the model stops
  watchers, \* commands that wait for a run, each with its token: a bag
  disk      \* who wrote the file of a path

exportVars == <<exporter, asking, asked, runs, stopExport, watchers, disk>>

Scopes == {"everything", "on screen"}

NoDialog == [token |-> NoRun, busy |-> FALSE, path |-> CHOOSE p \in Paths : TRUE,
             scope |-> "on screen", reads |-> FALSE, here |-> TRUE, run |-> NoRun,
             open |-> FALSE]

\* What is written, and whether the connection it is the result of is in front.
Dialog == [token : 0..MaxRuns, busy : BOOLEAN, path : Paths, scope : Scopes,
           reads : BOOLEAN, here : BOOLEAN, run : 0..MaxRuns, open : BOOLEAN]

Unused == [step |-> "unused"]

\* Where rows come from: memory, or the statement run again, on the connection
\* the result is of or on another.
Sources == {"memory", "here", "elsewhere"}

\* A run: how far it has got, where its rows come from, whether it was cancelled,
\* whether its rows are all there, whether its partial file is, how it ended and
\* whether somebody took that.
Run == [step : {"stat", "pour", "rename", "ended"}, rows : Sources, path : Paths,
        cancelled : BOOLEAN, whole : BOOLEAN, partial : BOOLEAN,
        failed : BOOLEAN, fell : BOOLEAN, taken : BOOLEAN]

ExportTypeOK ==
  /\ exporter \in Dialog /\ asking \in BOOLEAN /\ asked \in 0..2
  /\ runs \in [Runs -> Run \cup {Unused}]
  /\ stopExport \in 0..MaxRuns
  /\ BagToSet(watchers) \subseteq [run : Runs, token : Runs]
  /\ BagCardinality(watchers) =< MaxRuns
  /\ disk \in [Paths -> 0..(MaxRuns + 1)]
  /\ exporter.busy => exporter.run # NoRun

ExportInit ==
  /\ exporter = NoDialog /\ asking = FALSE /\ asked = 0
  /\ runs = [n \in Runs |-> Unused] /\ stopExport = NoRun
  /\ watchers = EmptyBag /\ disk \in [Paths -> {NoRun, Others}]

Going(n) == runs[n] # Unused /\ runs[n].step # "ended"

-----------------------------------------------------------------------------
(* The dialog. *)

\* export4Result: a statement that changes data is not run again.
Export4Result ==
  /\ ~exporter.open /\ ~asking
  /\ \E reads \in BOOLEAN, path \in Paths :
       exporter' = [NoDialog EXCEPT !.open = TRUE, !.reads = reads, !.path = path,
                      !.scope = IF reads THEN "everything" ELSE "on screen"]
  /\ UNCHANGED <<asking, asked, runs, stopExport, watchers, disk>>

\* exportKey: another name or scope, when nothing is being written.
Choose ==
  /\ exporter.open /\ ~exporter.busy /\ ~asking
  /\ \E path \in Paths, scope \in IF exporter.reads THEN Scopes ELSE {"on screen"} :
       exporter' = [exporter EXCEPT !.path = path, !.scope = scope]
  /\ UNCHANGED <<asking, asked, runs, stopExport, watchers, disk>>

\* confirmExport
ConfirmExport ==
  /\ exporter.open /\ ~exporter.busy /\ ~asking
  /\ asking' = TRUE
  /\ UNCHANGED <<exporter, asked, runs, stopExport, watchers, disk>>

\* The key that chooses, and the one that goes back.
Answer ==
  /\ asking /\ asking' = FALSE
  /\ asked' \in {asked, asked + 1} /\ asked' =< 2
  /\ UNCHANGED <<exporter, runs, stopExport, watchers, disk>>

Cancelled(n) ==
  IF n = NoRun \/ ~Going(n) THEN runs ELSE [runs EXCEPT ![n].cancelled = TRUE]

\* Esc, and stopExporting when something is being written.
Back ==
  /\ exporter.open /\ ~asking
  /\ exporter' = NoDialog
  /\ IF exporter.busy
     THEN runs' = Cancelled(stopExport) /\ stopExport' = NoRun
     ELSE UNCHANGED <<runs, stopExport>>
  /\ UNCHANGED <<asking, asked, watchers, disk>>

\* switched: a connection that was opened comes to the front under the dialog.
Switched ==
  /\ exporter.open
  /\ \E here \in BOOLEAN : exporter' = [exporter EXCEPT !.here = here]
  /\ UNCHANGED <<asking, asked, runs, stopExport, watchers, disk>>

\* crashed: a guarded job fell over, and the dialog is gone.
Crashed ==
  /\ exporter' = NoDialog /\ stopExport' = NoRun
  /\ UNCHANGED <<asking, asked, runs, watchers, disk>>

Source ==
  CASE exporter.scope = "on screen" -> "memory"
    [] exporter.scope = "everything" /\ exporter.here -> "here"
    [] OTHER -> "elsewhere"

\* startExport, when the answer lands: what the dialog says by then, on the
\* connection in front by then.
StartExport ==
  /\ asked > 0 /\ asked' = asked - 1
  /\ IF ~exporter.open THEN UNCHANGED <<exporter, runs, stopExport, watchers>>
     ELSE \E n \in Runs :
       /\ runs[n] = Unused /\ \A m \in 1..(n - 1) : runs[m] # Unused
       /\ runs' = [runs EXCEPT ![n] =
            [step |-> "stat", rows |-> Source, path |-> exporter.path,
             cancelled |-> FALSE, whole |-> FALSE, partial |-> FALSE,
             failed |-> FALSE, fell |-> FALSE, taken |-> FALSE]]
       /\ exporter' = [exporter EXCEPT !.token = @ + 1, !.busy = TRUE, !.run = n]
       /\ stopExport' = n
       /\ watchers' = watchers (+) SetToBag({[run |-> n, token |-> exporter.token + 1]})
  /\ UNCHANGED <<asking, disk>>

-----------------------------------------------------------------------------
(* write4Export, in a goroutine of its own. *)

Ended(n, failed, partial) ==
  runs' = [runs EXCEPT ![n].step = "ended", ![n].failed = failed, ![n].partial = partial]

\* Nothing is written where something is; otherwise a file is made beside it.
Stat(n) ==
  /\ runs[n] # Unused /\ runs[n].step = "stat"
  /\ \/ /\ disk[runs[n].path] # NoRun
        /\ Ended(n, TRUE, FALSE)
     \/ /\ disk[runs[n].path] = NoRun
        /\ runs' = [runs EXCEPT ![n].step = "pour", ![n].partial = TRUE]
  /\ UNCHANGED disk

\* Mutant: rows that stopped coming are taken for all of them.
FailedQuietly(n) == runs' = [runs EXCEPT ![n].step = "rename"]

\* What failed throws away what it wrote.
FailedPour(n) == Ended(n, TRUE, FALSE)

\* pour: rows in memory are written whatever was cancelled, and of a statement
\* run again what the driver still hands over, which may be all of it.
Pour(n) ==
  /\ runs[n] # Unused /\ runs[n].step = "pour"
  /\ \/ runs' = [runs EXCEPT ![n].step = "rename", ![n].whole = TRUE]
     \/ FailedPour(n)
  /\ UNCHANGED disk

\* A panic ends the run with a report, and leaves the partial file.
Falls(n) ==
  /\ runs[n] # Unused /\ runs[n].step = "pour"
  /\ runs' = [runs EXCEPT ![n].step = "ended", ![n].failed = TRUE, ![n].fell = TRUE]
  /\ UNCHANGED disk

\* The file is closed, and put where it belongs or thrown away.
Rename(n) ==
  /\ runs[n] # Unused /\ runs[n].step = "rename"
  /\ \/ Ended(n, FALSE, FALSE) /\ disk' = [disk EXCEPT ![runs[n].path] = n]
     \/ Ended(n, TRUE, FALSE) /\ UNCHANGED disk

Writes ==
  /\ \E n \in Runs : Stat(n) \/ Pour(n) \/ Falls(n) \/ Rename(n)
  /\ UNCHANGED <<exporter, asking, asked, stopExport, watchers>>

-----------------------------------------------------------------------------
(* What the watchers bring. *)

Without(w) == watchers (-) SetToBag({w})

\* The dialog takes it for a word about what it is writing.
Ours(w) == exporter.open /\ w.token = exporter.token

\* Mutant: it is not waited for again.
WatchNoMore(w) == Without(w)

\* What the dialog is writing is waited for again.
Watch(w) == Without(w) (+) SetToBag({[run |-> exporter.run, token |-> exporter.token]})

\* exporting: a word from a run that is going on.
Exporting(w) ==
  /\ runs[w.run].step = "pour"
  /\ watchers' = IF Ours(w) THEN Watch(w) ELSE Without(w)
  /\ UNCHANGED <<exporter, asking, asked, runs, stopExport, disk>>

\* exported; a second watcher of one run waits for ever.
Exported(w) ==
  /\ runs[w.run].step = "ended" /\ ~runs[w.run].taken
  /\ runs' = [runs EXCEPT ![w.run].taken = TRUE]
  /\ watchers' = Without(w)
  /\ IF Ours(w)
     THEN /\ stopExport' = NoRun
          /\ exporter' = IF runs[w.run].failed THEN [exporter EXCEPT !.busy = FALSE] ELSE NoDialog
     ELSE UNCHANGED <<exporter, stopExport>>
  /\ UNCHANGED <<asking, asked, disk>>

ExportNext ==
  \/ Export4Result \/ Choose \/ ConfirmExport \/ Answer \/ Back \/ StartExport
  \/ Switched \/ Crashed
  \/ Writes
  \/ \E w \in BagToSet(watchers) : Exporting(w) \/ Exported(w)

ExportSpec == ExportInit /\ [][ExportNext]_exportVars

-----------------------------------------------------------------------------
(* Properties. *)

\* The file of an export has its name and every row, and is not one that was said
\* to have failed; one that has ended has left no part of one beside it unless it
\* fell (write4Export).
WholeOrNothing ==
  \A n \in Runs : runs[n] # Unused =>
    /\ \A path \in Paths : disk[path] = n =>
         runs[n].path = path /\ runs[n].whole /\ ~runs[n].failed
    /\ (~Going(n) /\ ~runs[n].fell) => ~runs[n].partial

\* While the dialog says that a file is being written, the end of it is waited
\* for in its name, and esc stops it (startExport, exporting, exported).  It may
\* stop saying so before: see OnlyItsOwnEnd.
BusyIsFollowed ==
  exporter.busy =>
    /\ \E w \in BagToSet(watchers) : w.run = exporter.run /\ Ours(w)
    /\ ~runs[exporter.run].taken /\ stopExport = exporter.run

(* What the comments say, or the dialog shows, and the code does not keep.  *)

\* "Nothing is written where something already is" (startExport).
NothingIsReplaced ==
  [][\A path \in Paths : disk[path] # NoRun => disk'[path] = disk[path]]_exportVars

\* "What has been written so far is thrown away" (stopExporting): what was given up
\* on never becomes a file.
GivenUpIsThrownAway ==
  \A n \in Runs : \A path \in Paths : disk[path] = n => ~runs[n].cancelled

\* The end that the dialog takes is that of the run it began (exported compares
\* tokens, which begin again with every dialog).
OnlyItsOwnEnd ==
  \A w \in BagToSet(watchers) : Ours(w) => w.run = exporter.run

\* "every row the statement returns" (said4Export): the statement is run again on
\* the connection whose result is on the screen.
RunAgainWhereItRan ==
  \A n \in Runs : runs[n] # Unused => runs[n].rows # "elsewhere"
=============================================================================
