------------------------------- MODULE Reads -------------------------------
(***************************************************************************)
(* What is read out of the servers: the health, the catalogue and the      *)
(* databases behind every open connection, and the form that filters the   *)
(* schemas.                                                                *)
(*                                                                         *)
(* Reads go beside the screen and come back, or fail, in any order; each   *)
(* has a deadline.  Opening a connection is one of them.  What was read    *)
(* is told apart by the connection it came from, and the tables by the     *)
(* schemas they were asked for.                                            *)
(***************************************************************************)
EXTENDS Integers, Bags, FiniteSets

CONSTANTS
  MaxLinks, \* bound: connections opened
  MaxJobs,  \* bound: reads under way at once
  Filters   \* the sets of schemas a connection can be narrowed to

ASSUME ReadsAssumption ==
  /\ MaxLinks \in Nat \ {0} /\ MaxJobs \in Nat
  /\ Filters # {} /\ IsFiniteSet(Filters)

Links == 1..MaxLinks

\* Where nothing was read from, and no connection.
Nowhere == 0

VARIABLES
  links,   \* the open connections and what each was read to hold
  linked,  \* the one in front
  minted,  \* connections opened
  form,    \* the databases and schemas of one connection, on screen
  jobs,    \* reads under way, a bag
  \* What nothing in the code keeps, and only the properties look at:
  crossed, \* the connections that had reads of two sets of schemas under way at
           \* once, or were narrowed and not read, or could not be read, and were
           \* not read alone since
  lent     \* the connections marked as loading for something else than a read of
           \* their own: a connection being opened, or the read of another

vars == <<links, linked, minted, form, jobs, crossed, lent>>

Parts == {"health", "catalogue"}

\* No tables were read yet.
NoTables == [no |-> "tables"]

\* A connection: the schemas it is narrowed to, which connections its findings and
\* tables were read from and the schemas its tables are of.
Link == [filter : Filters, read : BOOLEAN, loading : BOOLEAN,
         shown : SUBSET Links, scope : Filters \cup {NoTables}]

Gone == [gone |-> TRUE]

NoForm == [on |-> Nowhere, known |-> Nowhere]

Job == [kind : Parts \cup {"databases", "open"}, on : Links, scope : Filters]

IsOpen(on) == on \in Links /\ links[on] # Gone

TypeOK ==
  /\ links \in [Links -> Link \cup {Gone}]
  /\ IsOpen(linked) /\ minted \in Links
  /\ \A on \in Links : on > minted => links[on] = Gone
  /\ form \in [on : 0..MaxLinks, known : 0..MaxLinks]
  /\ BagToSet(jobs) \subseteq Job /\ BagCardinality(jobs) =< MaxJobs
  /\ crossed \subseteq Links /\ lent \subseteq Links

\* The schemas a connection is narrowed to when it is opened, whichever those are.
AsOpened == CHOOSE filter \in Filters : TRUE

\* newLink
NewLink ==
  [filter |-> AsOpened, read |-> FALSE, loading |-> FALSE, shown |-> {},
   scope |-> NoTables]

-----------------------------------------------------------------------------
(* Reads. *)

\* Only the catalogue depends on the schemas.
Read(kind, on, scope) ==
  [kind |-> kind, on |-> on, scope |-> IF kind = "catalogue" THEN scope ELSE AsOpened]

UnderWay(kind, on) == {job \in BagToSet(jobs) : job.kind = kind /\ job.on = on}

\* Mutant: the schemas it was narrowed to before.
StartedAsItWas(from, on, kinds) ==
  SetToBag({Read(kind, on, (IF IsOpen(on) THEN links[on] ELSE from[on]).filter)
              : kind \in kinds})

\* Reads of a connection as it is in `from`.
Started(from, on, kinds) == SetToBag({Read(kind, on, from[on].filter) : kind \in kinds})

\* The catalogue of one is read besides what is under way already.
Crossed(from, on, rest) ==
  LET others == {job \in BagToSet(rest) : job.kind = "catalogue" /\ job.on = on}
  IN IF \E job \in others : job.scope # from[on].filter THEN crossed \cup {on}
     ELSE IF others = {} THEN crossed \ {on} ELSE crossed

Room == BagCardinality(jobs') =< MaxJobs

\* load: the health and the catalogue of a connection.
Load(from, on, rest) ==
  /\ jobs' = rest (+) Started(from, on, Parts) /\ Room
  /\ crossed' = Crossed(from, on, rest)

\* A connection is marked as loading without a read of its own; if it is being
\* read already the mark goes with that.
Lent(on) == IF links[on].loading THEN lent ELSE lent \cup {on}

Init ==
  /\ links = [on \in Links |-> IF on = 1 THEN [NewLink EXCEPT !.loading = TRUE] ELSE Gone]
  /\ linked = 1 /\ minted = 1 /\ form = NoForm /\ crossed = {} /\ lent = {}
  /\ jobs = SetToBag({Read(kind, 1, AsOpened) : kind \in Parts})

-----------------------------------------------------------------------------
(* Keys. *)

\* reloadMsg and the key for it.
Reload ==
  /\ links' = [links EXCEPT ![linked].loading = TRUE]
  /\ Load(links', linked, jobs)
  /\ lent' = lent \ {linked}
  /\ UNCHANGED <<linked, minted, form>>

\* beats: the health, when its turn comes.
Beats ==
  /\ jobs' = jobs (+) Started(links, linked, {"health"}) /\ Room
  /\ UNCHANGED <<links, linked, minted, form, crossed, lent>>

\* focused: a tab through another connection, which is read the first time.
Focused ==
  /\ linked' \in {on \in Links \ {linked} : IsOpen(on)}
  /\ IF links[linked'].read \/ links[linked'].loading
     THEN UNCHANGED <<links, jobs, crossed, lent>>
     ELSE /\ links' = [links EXCEPT ![linked'].loading = TRUE]
          /\ Load(links', linked', jobs)
          /\ lent' = lent \ {linked'}
  /\ UNCHANGED <<minted, form>>

\* went4Switch, and a file that was read into a tab of another connection.
Through ==
  /\ linked' \in {on \in Links \ {linked} : IsOpen(on)}
  /\ UNCHANGED <<links, minted, form, jobs, crossed, lent>>

\* What is in front is loading until another connection has opened.
Opens ==
  /\ links' = [links EXCEPT ![linked].loading = TRUE]
  /\ jobs' = jobs (+) SetToBag({Read("open", linked, AsOpened)}) /\ Room
  /\ lent' = Lent(linked)
  /\ UNCHANGED <<linked, minted, crossed>>

\* answered4Switch, and created.
Answered4Switch == Opens /\ UNCHANGED form

\* The one that comes in front when one goes: those after it move up.
Nearest(on) ==
  LET after == {other \in Links : IsOpen(other) /\ other > on}
      before == {other \in Links : IsOpen(other) /\ other < on}
  IN IF after # {} THEN CHOOSE l \in after : \A o \in after : l =< o
     ELSE CHOOSE l \in before : \A o \in before : o =< l

\* disconnected: any but the last.
Disconnected ==
  /\ \E on \in Links :
       /\ IsOpen(on) /\ \E other \in Links \ {on} : IsOpen(other)
       /\ links' = [links EXCEPT ![on] = Gone]
       /\ linked' = IF linked = on THEN Nearest(on) ELSE linked
       /\ crossed' = crossed \ {on} /\ lent' = lent \ {on}
  /\ UNCHANGED <<minted, form, jobs>>

\* openCatalog: the form belongs to the connection in front.
OpenCatalog ==
  /\ form = NoForm
  /\ form' = [on |-> linked, known |-> Nowhere]
  /\ jobs' = jobs (+) Started(links, linked, {"databases"}) /\ Room
  /\ UNCHANGED <<links, linked, minted, crossed, lent>>

CloseCatalog ==
  /\ form # NoForm /\ form' = NoForm
  /\ UNCHANGED <<links, linked, minted, jobs, crossed, lent>>

\* filtered4Catalog: the connection of the form is narrowed and marked as being
\* read, and what goes off is the reading of the one in front.
Filtered4Catalog ==
  /\ form # NoForm /\ form.known # Nowhere
  /\ form' = NoForm
  /\ IF ~IsOpen(form.on) THEN UNCHANGED <<links, jobs, crossed, lent>>
     ELSE \E filter \in Filters \ {links[form.on].filter} :
       /\ links' = [links EXCEPT ![form.on].filter = filter,
                                 ![form.on].loading = TRUE, ![form.on].read = FALSE]
       /\ jobs' = jobs (+) Started(links', linked, Parts) /\ Room
       /\ crossed' = Crossed(links', linked, jobs) \cup ({form.on} \ {linked})
       /\ lent' = IF form.on = linked THEN lent \ {linked} ELSE Lent(form.on)
  /\ UNCHANGED <<linked, minted>>

\* openDatabase4Catalog: another database is another connection.
OpenDatabase4Catalog ==
  /\ form # NoForm /\ form.known # Nowhere
  /\ IsOpen(form.on)
  /\ form' = NoForm
  /\ Opens

-----------------------------------------------------------------------------
(* What comes back. *)

Without(job) == jobs (-) SetToBag({job})

\* What a part that came back leaves on a connection, which has read by then.
Took(link, job) ==
  LET back == [link EXCEPT !.loading = FALSE, !.read = TRUE, !.shown = @ \cup {job.on}]
  IN IF job.kind = "health" THEN back ELSE [back EXCEPT !.scope = job.scope]

\* Mutant: a part that could not be read leaves it loading.
FailedSilently(link) == link

Failed(link) == [link EXCEPT !.loading = FALSE]

\* Mutant: wrote4Link puts it back in front.
PlaceInFront(job) == linked

\* linked4Sheet and wrote4Link: the connection it was read from.
Place(job) == job.on

\* loaded; what was read from a connection that is gone goes nowhere.
Loaded(job) ==
  /\ job.kind \in Parts
  /\ LET on == Place(job) IN
     IF ~IsOpen(on) THEN UNCHANGED <<links, crossed>>
     ELSE \/ links' = [links EXCEPT ![on] = Took(@, job)] /\ UNCHANGED crossed
          \/ /\ links' = [links EXCEPT ![on] = Failed(@)]
             /\ crossed' = crossed \cup (IF job.kind = "catalogue" THEN {on} ELSE {})
  /\ jobs' = Without(job)
  /\ lent' = lent \ {Place(job)}
  /\ UNCHANGED <<linked, minted, form>>

\* catalogMsg: only the form of the connection that was asked takes it.
FormOf(job) == form.on = job.on

\* withCatalog
Databases(job) ==
  /\ job.kind = "databases"
  /\ \E known \in {form.known, job.on} :
       form' = IF FormOf(job) THEN [form EXCEPT !.known = known] ELSE form
  /\ jobs' = Without(job)
  /\ UNCHANGED <<links, linked, minted, crossed, lent>>

\* switched: whatever is in front stops loading; what opened comes in front.
Switched(job) ==
  /\ job.kind = "open"
  /\ LET stopped == [links EXCEPT ![linked].loading = FALSE] IN
     \/ /\ minted < MaxLinks
        /\ minted' = minted + 1 /\ linked' = minted + 1
        /\ links' = [stopped EXCEPT ![minted + 1] = [NewLink EXCEPT !.loading = TRUE]]
        /\ Load(links', minted + 1, Without(job))
     \/ /\ links' = stopped
        /\ jobs' = Without(job)
        /\ UNCHANGED <<linked, minted, crossed>>
  /\ lent' = lent \ {linked}
  /\ UNCHANGED form

Returns(job) == Loaded(job) \/ Databases(job) \/ Switched(job)

Next ==
  \/ Reload \/ Beats \/ Focused \/ Through \/ Answered4Switch \/ Disconnected
  \/ OpenCatalog \/ CloseCatalog \/ Filtered4Catalog \/ OpenDatabase4Catalog
  \/ \E job \in BagToSet(jobs) : Returns(job)

Spec == Init /\ [][Next]_vars

-----------------------------------------------------------------------------
(* Properties. *)

\* What is shown of a connection was read from it, whichever was in front when
\* it landed, and the form shows the databases of the one it belongs to
\* (loaded, catalogMsg).
ShownWhereItIs ==
  /\ \A on \in Links : IsOpen(on) => links[on].shown \subseteq {on}
  /\ form.known \in {Nowhere, form.on}

\* Once the catalogue of a connection was read, the tables shown are those of
\* the schemas it is narrowed to: ticking schemas re-reads (filtered4Catalog).
\* Two reads of different schemas at once may land in either order, one that is
\* narrowed behind another is not read, and a read may fail: those are crossed.
TablesFollowTheFilter ==
  \A on \in Links :
    (/\ IsOpen(on) /\ links[on].scope # NoTables
     /\ UnderWay("catalogue", on) = {} /\ on \notin crossed)
      => links[on].scope = links[on].filter

\* What is marked as being read is being read, however often it is read again, what
\* else lands or goes, and what was in front: as every read has a deadline, the mark
\* goes.  Nothing else takes it away, and focused does not read what has it.  A mark
\* that stands for no read of its own connection is lent.
LoadingIsFollowed ==
  \A on \in Links :
    (IsOpen(on) /\ links[on].loading /\ on \notin lent)
      => \E kind \in Parts : UnderWay(kind, on) # {}

\* "Ticking schemas only re-reads" (help.md): what is narrowed is read.
TickingRereads ==
  [][\A on \in Links :
       IsOpen(on) /\ IsOpen(on)' /\ links'[on].filter # links[on].filter
         => Read("catalogue", on, links'[on].filter) \in BagToSet(jobs')]_vars
=============================================================================
