----------------------------- MODULE Downloads -----------------------------
(***************************************************************************)
(* A model fetched to this machine: the screen and the list that ask for   *)
(* it, the goroutine that fetches, and the directory it ends up in.        *)
(*                                                                         *)
(* What arrives is appended to a part file, hashed as it comes, and put in *)
(* place with a manifest beside it once the hash is right.  A download may *)
(* be given up on, fail or die with its program between any two of these   *)
(* steps; what is left is carried on from.                                 *)
(***************************************************************************)
EXTENDS Naturals, Sequences, FiniteSets

CONSTANTS
  Programs,   \* the programs that keep their models in one directory
  Size,       \* of the model, in chunks
  MaxFetches, \* bound: downloads begun
  Strangers,  \* whether a part of another build may be there where nothing is vouched for
  Carried,    \* whether the build carries the inference library
  Overlaps    \* whether keys are pressed while an answer is on its way

ASSUME DownloadsAssumption ==
  /\ Programs # {} /\ IsFiniteSet(Programs) /\ Size \in Nat \ {0}
  /\ MaxFetches \in Nat /\ Strangers \in BOOLEAN
  /\ Carried \in BOOLEAN /\ Overlaps \in BOOLEAN

Fetches == 1..MaxFetches
NoFetch == 0
Files == 0..MaxFetches
NoFile == MaxFetches + 1

\* The model, and what is not of it: another revision's bytes, or a hole.
Model == [n \in 1..Size |-> n]
Strange == 0

VARIABLES
  hub,      \* whether it says what the hash should be and how long a body is,
            \* and answers ranges
  contents, \* of every file ever made in the directory
  part, final, \* the files under the two names
  manifest, \* the size written down, or 0
  library,  \* whether the inference library is there
  fetches,  \* the downloads begun
  screens   \* of the programs

vars == <<hub, contents, part, final, manifest, library, fetches, screens>>

NoScreen == [token |-> NoFetch, busy |-> FALSE, pending |-> FALSE, anyway |-> FALSE,
             present |-> FALSE, listed |-> FALSE, trouble |-> FALSE, warmed |-> FALSE]

Screen == [token : 0..MaxFetches, busy : BOOLEAN, pending : BOOLEAN, anyway : BOOLEAN,
           present : BOOLEAN, listed : BOOLEAN, trouble : BOOLEAN, warmed : BOOLEAN]

Unused == [step |-> "unused"]

Fetch ==
  [by : Programs, job : {"library", "model"}, over : BOOLEAN, watched : BOOLEAN,
   step : {"begin", "ask", "rehash", "read", "tell", "verify", "rename", "record",
           "say", "ended", "gone"},
   from : 0..Size, at : 0..Size, sent : 0..Size, seen : Seq(0..Size),
   file : Files \cup {NoFile}, failed : BOOLEAN]

TypeOK ==
  /\ hub \in [vouches : BOOLEAN, measures : BOOLEAN, ranges : BOOLEAN]
  /\ contents \in [Files -> Seq(0..Size)]
  /\ part \in Files \cup {NoFile} /\ final \in Files \cup {NoFile}
  /\ manifest \in 0..Size /\ library \in BOOLEAN
  /\ fetches \in [Fetches -> Fetch \cup {Unused}]
  /\ screens \in [Programs -> Screen]

\* Nothing is there yet, or a part that a build pinned to another revision left.
Init ==
  /\ hub \in [vouches : BOOLEAN, measures : BOOLEAN, ranges : BOOLEAN]
  /\ \/ part = NoFile /\ contents = [i \in Files |-> <<>>]
     \/ /\ hub.vouches \/ Strangers
        /\ part = 0 /\ contents = [i \in Files |-> IF i = 0 THEN <<Strange>> ELSE <<>>]
  /\ final = NoFile /\ manifest = 0 /\ library = FALSE
  /\ fetches = [f \in Fetches |-> Unused]
  /\ screens = [p \in Programs |-> NoScreen]

-----------------------------------------------------------------------------
(* The store. *)

\* Store.Find: written down, there, and as long as it was written down to be.
Has == manifest # 0 /\ final # NoFile /\ Len(contents[final]) = manifest

\* read4AI: what the screen knows of the disk, and no trouble of the library but
\* that the build carries none.
Read(s) == [s EXCEPT !.present = library, !.listed = Has, !.trouble = ~Carried]

Disk == <<hub, contents, part, final, manifest>>

-----------------------------------------------------------------------------
(* Asking for a model. *)

Used == {f \in Fetches : fetches[f] # Unused}
Going(f) == fetches[f] # Unused /\ fetches[f].step \notin {"ended", "gone"}
Watched(f) == fetches[f] # Unused /\ fetches[f].watched

\* The bound leaves room for the model that follows the library.
Room(job) ==
  Cardinality(Used) + (IF job = "library" THEN 2 ELSE 1)
    + Cardinality({f \in Used : Watched(f) /\ fetches[f].job = "library"}) =< MaxFetches

Fresh(p, job) ==
  [by |-> p, job |-> job, over |-> FALSE, watched |-> TRUE, step |-> "begin",
   from |-> 0, at |-> 0, sent |-> 0, seen |-> <<>>, file |-> NoFile, failed |-> FALSE]

\* started4AI: begun is what is known of the downloads by then, and s of the screen.
Starting(p, job, begun, s) ==
  \E f \in Fetches \ Used :
    /\ \A g \in Fetches \ Used : f =< g
    /\ fetches' = [begun EXCEPT ![f] = Fresh(p, job)]
    /\ screens' = [screens EXCEPT ![p] = [s EXCEPT !.token = f, !.busy = TRUE]]

Start(p, job, s) == Room(job) /\ Starting(p, job, fetches, s)

\* fetchLibrary does nothing when the library is in trouble.
FetchLibrary(p, s) ==
  IF s.trouble THEN screens' = [screens EXCEPT ![p] = s] /\ UNCHANGED fetches
  ELSE Start(p, "library", s)

\* chose4Model: a model that is there is used; the library comes first.
Chosen(p, s) ==
  IF Has THEN screens' = [screens EXCEPT ![p] = Read(s)] /\ UNCHANGED fetches
  ELSE IF ~library THEN FetchLibrary(p, [s EXCEPT !.pending = TRUE])
  ELSE Start(p, "model", [s EXCEPT !.pending = TRUE])

Keys(p) == Overlaps \/ ~screens[p].anyway

\* chose4Chooser; a model that does not fit is asked about first.
Choose(p) ==
  /\ Keys(p) /\ ~screens[p].busy
  /\ \/ Chosen(p, screens[p])
     \/ screens' = [screens EXCEPT ![p].anyway = TRUE] /\ UNCHANGED fetches
  /\ UNCHANGED <<Disk, library>>

\* anyway: that question answered yes.
Anyway(p) ==
  /\ screens[p].anyway
  /\ Chosen(p, [screens[p] EXCEPT !.anyway = FALSE])
  /\ UNCHANGED <<Disk, library>>

\* chose4AI: enter on the screen of models goes by what it read last.
Enter(p) ==
  /\ Keys(p) /\ ~screens[p].busy
  /\ IF ~screens[p].present THEN FetchLibrary(p, screens[p])
     ELSE ~screens[p].listed /\ Start(p, "model", screens[p])
  /\ UNCHANGED <<Disk, library>>

\* stopFetching, from the screen or from the list, which also forgets what was wanted.
Stop(p) ==
  /\ screens[p].busy /\ Keys(p)
  /\ fetches' = [fetches EXCEPT ![screens[p].token].over = TRUE]
  /\ \E pending \in {FALSE, screens[p].pending} :
       screens' = [screens EXCEPT ![p].pending = pending]
  /\ UNCHANGED <<Disk, library>>

\* The screen is opened: it reads the disk.
Visit(p) ==
  /\ Keys(p) /\ screens' = [screens EXCEPT ![p] = Read(screens[p])]
  /\ UNCHANGED <<Disk, library, fetches>>

\* warming and warmed: the library is unpacked when a conversation is first opened.
Warm(p) ==
  LET s == [Read(screens[p]) EXCEPT !.warmed = TRUE] IN
  /\ ~screens[p].warmed
  /\ \/ /\ Carried /\ library' = TRUE
        /\ screens' = [screens EXCEPT ![p] = [s EXCEPT !.present = TRUE]]
     \/ /\ ~library /\ library' = FALSE
        /\ screens' = [screens EXCEPT ![p] = [s EXCEPT !.trouble = TRUE]]
  /\ UNCHANGED <<Disk, fetches>>

\* forgot, which is answered by a message of its own, looks at no download:  a key
\* pressed before that message lands may have begun one.
Removes(p) == Overlaps \/ ~screens[p].busy

\* remove4AI and forgot: only what was written down can be removed.
Remove(p) ==
  /\ Keys(p) /\ Removes(p) /\ manifest # 0
  /\ screens[p].listed \/ Has
  /\ manifest' = 0 /\ part' = NoFile /\ final' = NoFile
  /\ screens' = [screens EXCEPT ![p] = [Read(screens[p]) EXCEPT !.listed = FALSE]]
  /\ UNCHANGED <<hub, contents, library, fetches>>

-----------------------------------------------------------------------------
(* Fetching, in a goroutine of its own. *)

On(f, step) == fetches[f] # Unused /\ fetches[f].step = step

To(f, step) == fetches' = [fetches EXCEPT ![f].step = step]

\* What is left of one that has ended.
Ended(f, failed) ==
  [Fresh(fetches[f].by, fetches[f].job) EXCEPT !.step = "ended", !.failed = failed,
     !.over = fetches[f].over, !.watched = fetches[f].watched]

\* Library.Install looks at the context before it writes what the build carries.
Install(f) ==
  /\ On(f, "begin") /\ fetches[f].job = "library" /\ ~fetches[f].over /\ Carried
  /\ library' = TRUE /\ To(f, "say")
  /\ UNCHANGED Disk

\* resumeAt: how much is here, before the hub is asked.
ResumeAt(f) ==
  /\ On(f, "begin") /\ fetches[f].job = "model"
  /\ fetches' = [fetches EXCEPT ![f].step = "ask",
       ![f].from = IF part = NoFile THEN 0 ELSE Len(contents[part])]
  /\ UNCHANGED <<Disk, library>>

\* A hub that does not answer ranges sends the whole file.
From(f) == IF hub.ranges THEN fetches[f].from ELSE 0

\* open, and the part opened to be appended to or written over; a range that
\* begins where the file ends is refused.
Open(f) ==
  /\ On(f, "ask") /\ ~fetches[f].over
  /\ hub.ranges => fetches[f].from < Size
  /\ LET file == IF part = NoFile THEN f ELSE part IN
       /\ part' = file
       /\ contents' = IF From(f) = 0 THEN [contents EXCEPT ![file] = <<>>] ELSE contents
       /\ fetches' = [fetches EXCEPT ![f].step = "rehash", ![f].file = file,
            ![f].from = From(f), ![f].at = From(f),
            ![f].sent = IF hub.ranges THEN fetches[f].from ELSE 0]
  /\ UNCHANGED <<hub, final, manifest, library>>

\* Mutant: only what arrives this time is hashed.
RehashedNone(f) == <<>>

Rehashed(f) == SubSeq(contents[fetches[f].file], 1, fetches[f].from)

\* rehash: what was here is read back.
Rehash(f) ==
  /\ On(f, "rehash") /\ Len(contents[fetches[f].file]) >= fetches[f].from
  /\ fetches' = [fetches EXCEPT ![f].step = "read", ![f].seen = Rehashed(f)]
  /\ UNCHANGED <<Disk, library>>

\* One write: to the end of a part that is carried on, in its place otherwise.
Written(s, f, chunk) ==
  LET at == fetches[f].at IN
  IF fetches[f].from > 0 THEN Append(s, chunk)
  ELSE [n \in 1..(IF Len(s) > at THEN Len(s) ELSE at + 1) |->
          IF n = at + 1 THEN chunk ELSE IF n =< Len(s) THEN s[n] ELSE Strange]

\* write: a chunk arrives; every so often the screen is told.
Chunk(f) ==
  /\ On(f, "read") /\ fetches[f].sent < Size
  /\ LET chunk == fetches[f].sent + 1 IN
       /\ contents' = [contents EXCEPT ![fetches[f].file] = Written(@, f, chunk)]
       /\ \E step \in {"read", "tell"} :
            fetches' = [fetches EXCEPT ![f].at = @ + 1, ![f].sent = chunk,
                          ![f].step = step, ![f].seen = Append(@, chunk)]
  /\ UNCHANGED <<hub, part, final, manifest, library>>

\* The body ends, wherever the connection closed when nobody said how long it is:
\* what came is not compared with what was expected.  Whether it was given up on is
\* not asked here.
EndOfBody(f) ==
  /\ On(f, "read") /\ (fetches[f].sent = Size \/ ~hub.measures)
  /\ To(f, "verify")
  /\ UNCHANGED <<Disk, library>>

\* Mutant: what the hub vouches for is not compared.
VouchedAnyway(f) == TRUE

Vouched(f) == hub.vouches => fetches[f].seen = Model

\* verify: a part that is not what was asked for is thrown away.
Verify(f) ==
  /\ On(f, "verify")
  /\ IF Vouched(f) THEN To(f, "rename") /\ UNCHANGED part
     ELSE fetches' = [fetches EXCEPT ![f] = Ended(f, TRUE)] /\ part' = NoFile
  /\ UNCHANGED <<hub, contents, final, manifest, library>>

\* The part is put in place.
Rename(f) ==
  /\ On(f, "rename") /\ part # NoFile
  /\ final' = part /\ part' = NoFile /\ To(f, "record")
  /\ UNCHANGED <<hub, contents, manifest, library>>

\* Store.Write
Record(f) ==
  /\ On(f, "record") /\ manifest' = fetches[f].at /\ To(f, "say")
  /\ UNCHANGED <<hub, contents, part, final, library>>

Failed(f) == fetches' = [fetches EXCEPT ![f] = Ended(f, TRUE)]

\* Whatever goes wrong ends it: the hub, the disk, a panic, or the context.
GivesUp(f) == Going(f) /\ Failed(f) /\ UNCHANGED <<Disk, library>>

Work(f) ==
  /\ \/ Install(f) \/ ResumeAt(f) \/ Open(f) \/ Rehash(f) \/ Chunk(f) \/ EndOfBody(f)
     \/ Verify(f) \/ Rename(f) \/ Record(f) \/ GivesUp(f)
  /\ UNCHANGED screens

-----------------------------------------------------------------------------
(* What the watching command brings. *)

Ours(f) == screens[fetches[f].by].token = f

\* Mutant: the screen is told once.
WatchOnce(f) == FALSE

\* What the screen is fetching is waited for again.
Watch(f) == Ours(f)

\* fetched: a word, and the goroutine that said it goes on.
Fetched(f) ==
  /\ Watched(f) /\ fetches[f].step \in {"tell", "say"}
  /\ LET told == IF fetches[f].step = "say" THEN Ended(f, FALSE)
                 ELSE [fetches[f] EXCEPT !.step = "read"]
     IN fetches' = [fetches EXCEPT ![f] = [told EXCEPT !.watched = Watch(f)]]
  /\ UNCHANGED <<Disk, library, screens>>

\* continued: what was wanted is there, or failed, or comes next.
Continued(p, heard, s) ==
  IF Has \/ fetches[s.token].job = "model"
  THEN /\ screens' = [screens EXCEPT ![p] = [Read(s) EXCEPT !.pending = FALSE]]
       /\ fetches' = heard
  ELSE Starting(p, "model", heard, s)

\* doneFetching
DoneFetching(f) ==
  /\ Watched(f) /\ fetches[f].step = "ended"
  /\ LET p == fetches[f].by
         s == [screens[p] EXCEPT !.busy = FALSE]
         heard == [fetches EXCEPT ![f] =
           [Fresh(p, fetches[f].job) EXCEPT !.step = "ended", !.watched = FALSE]]
     IN CASE ~Ours(f) -> fetches' = heard /\ UNCHANGED screens
          [] Ours(f) /\ screens[p].pending /\ ~fetches[f].failed -> Continued(p, heard, s)
          [] OTHER -> /\ fetches' = heard
                      /\ screens' = [screens EXCEPT ![p] = [Read(s) EXCEPT !.pending = FALSE]]
  /\ UNCHANGED <<Disk, library>>

-----------------------------------------------------------------------------
(* A program dies, perhaps while it removes a directory. *)

Dies(p) ==
  /\ fetches' = [f \in Fetches |->
       IF f \in Used /\ fetches[f].by = p
       THEN [Fresh(p, fetches[f].job) EXCEPT !.step = "gone", !.watched = FALSE]
       ELSE fetches[f]]
  /\ screens' = [screens EXCEPT ![p] = NoScreen]

Crash(p) == Dies(p) /\ UNCHANGED <<Disk, library>>

CrashRemoving(p) ==
  /\ Removes(p) /\ manifest # 0 /\ Dies(p)
  /\ manifest' \in {0, manifest} /\ part' \in {NoFile, part} /\ final' \in {NoFile, final}
  /\ UNCHANGED <<hub, contents, library>>

Next ==
  \/ \E p \in Programs :
       \/ Choose(p) \/ Anyway(p) \/ Enter(p) \/ Stop(p) \/ Visit(p) \/ Warm(p) \/ Remove(p)
       \/ Crash(p) \/ CrashRemoving(p)
  \/ \E f \in Fetches : Work(f) \/ Fetched(f) \/ DoneFetching(f)

\* Mutant: the body is read without the context.
NoticesUnlessReading(f) ==
  /\ fetches[f] # Unused /\ fetches[f].over
  /\ fetches[f].job = "library" \/ fetches[f].step \in {"ask", "tell", "say"}
  /\ GivesUp(f)

\* Wherever it waits for the hub or for the screen, one that is given up on notices.
Notices(f) ==
  /\ fetches[f] # Unused /\ fetches[f].over
  /\ fetches[f].job = "library" \/ fetches[f].step \in {"ask", "read", "tell", "say"}
  /\ GivesUp(f)

\* What waits for nobody, or fails because its file is another by now.
Local(f) ==
  \/ ResumeAt(f) \/ Rehash(f) \/ Verify(f) \/ Rename(f) \/ Record(f)
  \/ /\ fetches[f] # Unused /\ fetches[f].step \in {"rehash", "rename"}
     /\ GivesUp(f)

\* The goroutines run, and what they say is read; the hub owes nobody an answer.
Fairness ==
  \A f \in Fetches :
    /\ WF_vars(Notices(f) /\ UNCHANGED screens)
    /\ WF_vars(Local(f) /\ UNCHANGED screens)
    /\ WF_vars(Fetched(f) \/ DoneFetching(f))

Spec == Init /\ [][Next]_vars /\ Fairness

-----------------------------------------------------------------------------
(* Properties. *)

\* "Has reports whether a model has been downloaded and is whole" (store.go): it
\* does where the hub says how long a body is or what its hash should be.
HasIsWhole == Has /\ (hub.measures \/ hub.vouches) => contents[final] = Model

\* As that is said, of any hub.  It does not hold: a body without a length that is
\* cut short ends like one that is whole, and is put in place (write).
HasIsWholeAnyway == Has => contents[final] = Model

\* The hash a download is judged by is the hash of the file that it writes, over
\* every resumption and every refused range (write, rehash).
TheHashIsOfTheFile ==
  \A f \in Fetches : Going(f) /\ fetches[f].step \in {"read", "tell", "verify", "rename"} =>
    fetches[f].seen = contents[fetches[f].file] /\ part = fetches[f].file

\* While a screen says that something is arriving, what it says is waited for.
BusyIsFollowed ==
  \A p \in Programs : screens[p].busy => Watched(screens[p].token)

\* A download that is given up on ends, and the screen hears of it (stopFetching).
StoppedDownloadsEnd ==
  \A f \in Fetches :
    (Watched(f) /\ fetches[f].over) ~> (fetches[f] # Unused /\ ~Watched(f))

\* "What is here is kept, so choosing it again carries on from where it stopped":
\* what a download that was given up on leaves can be carried on from.
PartsCarryOn ==
  \A f \in Fetches :
    (/\ On(f, "ended") /\ fetches[f].over /\ fetches[f].job = "model"
     /\ part # NoFile /\ hub.ranges /\ \A g \in Fetches : ~Going(g))
    => Len(contents[part]) < Size
=============================================================================
