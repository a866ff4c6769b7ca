----------------------------- MODULE ReadsProofs -----------------------------
(***************************************************************************)
(* What Reads promises for every number of connections, reads and sets of  *)
(* schemas, wherever anybody wanders and whatever is opened and closed.    *)
(*                                                                         *)
(* Typed is what every state looks like.  Kept is what is promised of one  *)
(* connection: what it shows is its own, what is marked as being read is,  *)
(* and the catalogues on their way to it are of the schemas it is narrowed *)
(* to unless others crossed them.  A step is about one connection or two;  *)
(* each of the others is Unmoved.                                          *)
(***************************************************************************)
EXTENDS Reads, WellFoundedInduction, TLAPS

Typed ==
  /\ links \in [Links -> Link \cup {Gone}]
  /\ minted \in Links /\ IsOpen(linked)
  /\ form \in [on : 0..MaxLinks, known : 0..MaxLinks]
  /\ form.known \in {Nowhere, form.on}
  /\ IsABag(jobs) /\ BagToSet(jobs) \subseteq Job

\* The reads of a connection under way among some, and the catalogues of those.
ReadsOf(reads, on) == {job \in BagToSet(reads) : job.kind \in Parts /\ job.on = on}

Catalogues(reads, on) == {job \in ReadsOf(reads, on) : job.kind = "catalogue"}

Kept(on) ==
  /\ links[on].shown \subseteq {on}
  /\ links[on].loading /\ on \notin lent => ReadsOf(jobs, on) # {}
  /\ on \notin crossed =>
       /\ \A job \in Catalogues(jobs, on) : job.scope = links[on].filter
       /\ Catalogues(jobs, on) = {} /\ links[on].scope # NoTables
            => links[on].scope = links[on].filter

IInv == Typed /\ \A on \in Links : IsOpen(on) => Kept(on)

(* One copy taken out of a bag leaves everything else in it, and takes the *)
(* element out when there was no other copy.                               *)
LEMMA TakenOut ==
  ASSUME NEW B, IsABag(B), NEW e
  PROVE  /\ IsABag(B (-) SetToBag({e}))
         /\ BagToSet(B (-) SetToBag({e})) \subseteq BagToSet(B)
         /\ BagToSet(B) \ {e} \subseteq BagToSet(B (-) SetToBag({e}))
         /\ \A d \in BagToSet(B) \ {e} : (B (-) SetToBag({e}))[d] = B[d]
         /\ e \in BagToSet(B) /\ B[e] = 1 => e \notin BagToSet(B (-) SetToBag({e}))
<1> DEFINE C == [d \in DOMAIN B |-> IF d \in DOMAIN SetToBag({e})
                                    THEN B[d] - SetToBag({e})[d] ELSE B[d]]
<1>1. B (-) SetToBag({e}) = [d \in {x \in DOMAIN C : C[x] > 0} |-> C[d]]
  BY DEF (-)
<1>2. DOMAIN C = DOMAIN B OBVIOUS
<1>3. \A d \in DOMAIN B : B[d] \in Nat /\ B[d] > 0 BY DEF IsABag
<1>4. DOMAIN SetToBag({e}) = {e} /\ SetToBag({e})[e] = 1 BY DEF SetToBag
<1>5. \A d \in DOMAIN B : d # e => C[d] = B[d] BY <1>4
<1>6. \A d \in DOMAIN B : C[d] \in Int BY <1>3, <1>4
<1>7. e \in DOMAIN B => C[e] = B[e] - 1 BY <1>4
<1> HIDE DEF C
<1>8. DOMAIN (B (-) SetToBag({e})) = {x \in DOMAIN B : C[x] > 0} BY <1>1, <1>2
<1>9. B (-) SetToBag({e}) \in [{x \in DOMAIN B : C[x] > 0} -> {n \in Nat : n > 0}]
  BY <1>1, <1>2, <1>6
<1>10. \A d \in DOMAIN B \ {e} : (B (-) SetToBag({e}))[d] = B[d]
  BY <1>1, <1>2, <1>3, <1>5
<1>11. e \in DOMAIN B /\ B[e] = 1 => e \notin DOMAIN (B (-) SetToBag({e}))
  BY <1>7, <1>8
<1>12. QED BY <1>3, <1>5, <1>8, <1>9, <1>10, <1>11 DEF IsABag, BagToSet

(* One copy of each of some elements put into a bag adds nothing else to   *)
(* it.                                                                     *)
LEMMA PutIn ==
  ASSUME NEW B, IsABag(B), NEW S
  PROVE  /\ IsABag(B (+) SetToBag(S))
         /\ BagToSet(B (+) SetToBag(S)) = BagToSet(B) \cup S
         /\ \A d \in BagToSet(B) \ S : (B (+) SetToBag(S))[d] = B[d]
         /\ \A d \in S \ BagToSet(B) : (B (+) SetToBag(S))[d] = 1
<1>1. DOMAIN SetToBag(S) = S /\ \A e \in S : SetToBag(S)[e] = 1 BY DEF SetToBag
<1>2. \A d \in DOMAIN B : B[d] \in Nat /\ B[d] > 0 BY DEF IsABag
<1>3. B (+) SetToBag(S) =
        [d \in DOMAIN B \cup S |-> (IF d \in DOMAIN B THEN B[d] ELSE 0)
                                     + (IF d \in S THEN SetToBag(S)[d] ELSE 0)]
  BY <1>1 DEF (+)
<1>4. \A d \in DOMAIN B \cup S :
        (IF d \in DOMAIN B THEN B[d] ELSE 0)
          + (IF d \in S THEN SetToBag(S)[d] ELSE 0) \in {n \in Nat : n > 0}
  BY <1>1, <1>2
<1>5. \A d \in DOMAIN B \ S : (B (+) SetToBag(S))[d] = B[d] BY <1>2, <1>3
<1>6. \A d \in S \ DOMAIN B : (B (+) SetToBag(S))[d] = 1 BY <1>1, <1>3
<1>7. QED BY <1>3, <1>4, <1>5, <1>6 DEF IsABag, BagToSet

(* A set, as a bag, holds each of its elements once.                       *)
LEMMA BagOf ==
  ASSUME NEW S
  PROVE  /\ IsABag(SetToBag(S)) /\ BagToSet(SetToBag(S)) = S
         /\ \A e \in S : SetToBag(S)[e] = 1
BY DEF IsABag, SetToBag, BagToSet

(* A connection is told from one that is gone.                             *)
LEMMA LinkIsThere == \A link \in Link : link # Gone
<1>1. \A link \in Link : "filter" \in DOMAIN link BY DEF Link
<1>2. "filter" \notin DOMAIN Gone BY DEF Gone
<1>3. QED BY <1>1, <1>2

LEMMA OpenIsLink == ASSUME Typed, NEW on, IsOpen(on) PROVE on \in Links /\ links[on] \in Link
BY DEF Typed, IsOpen

(* A connection that was just opened shows nothing, whether it is being    *)
(* read or not.                                                            *)
LEMMA NewIsLink ==
  /\ AsOpened \in Filters
  /\ NewLink \in Link /\ NewLink.shown = {} /\ NewLink.scope = NoTables
  /\ [NewLink EXCEPT !.loading = TRUE] \in Link
  /\ [NewLink EXCEPT !.loading = TRUE].shown = {}
  /\ [NewLink EXCEPT !.loading = TRUE].scope = NoTables
<1>1. AsOpened \in Filters BY ReadsAssumption DEF AsOpened
<1>2. QED BY <1>1 DEF NewLink, Link

(* What goes off is added to what is under way, and concerns no connection *)
(* but its own.                                                            *)
LEMMA StartedJobs ==
  ASSUME NEW from, NEW on \in Links, from[on].filter \in Filters,
         NEW kinds \in SUBSET (Parts \cup {"databases"}), NEW rest,
         IsABag(rest), BagToSet(rest) \subseteq Job,
         jobs' = rest (+) Started(from, on, kinds)
  PROVE  /\ IsABag(jobs') /\ BagToSet(jobs') \subseteq Job
         /\ \A l \in Links : ReadsOf(rest, l) \subseteq ReadsOf(jobs', l)
         /\ \A l \in Links \ {on} : ReadsOf(jobs', l) = ReadsOf(rest, l)
         /\ "catalogue" \notin kinds => Catalogues(jobs', on) = Catalogues(rest, on)
         /\ "catalogue" \in kinds =>
              Catalogues(jobs', on)
                = Catalogues(rest, on) \cup {Read("catalogue", on, from[on].filter)}
<1> DEFINE filter == from[on].filter
           starting == {Read(kind, on, filter) : kind \in kinds}
           new == Read("catalogue", on, filter)
<1>1. jobs' = rest (+) SetToBag(starting) BY DEF Started
<1>2. IsABag(jobs') /\ BagToSet(jobs') = BagToSet(rest) \cup starting BY <1>1, PutIn
<1>3. \A kind : Read(kind, on, filter).kind = kind /\ Read(kind, on, filter).on = on
  BY DEF Read
<1>4. \A job \in starting : job \in Job /\ job.on = on
  BY NewIsLink DEF Read, Job
<1>5. \A job \in starting : job.kind \in kinds
                             /\ (job.kind = "catalogue" => job = new)
  BY <1>3
<1>6. "catalogue" \in kinds => new \in starting OBVIOUS
<1>7. new.kind = "catalogue" /\ new.on = on BY <1>3
<1> HIDE DEF starting, new
<1>8. \A l \in Links : ReadsOf(rest, l) \subseteq ReadsOf(jobs', l) BY <1>2 DEF ReadsOf
<1>9. \A l \in Links \ {on} : ReadsOf(jobs', l) = ReadsOf(rest, l)
  BY <1>2, <1>4 DEF ReadsOf
<1>10. "catalogue" \notin kinds => Catalogues(jobs', on) = Catalogues(rest, on)
  BY <1>2, <1>5 DEF Catalogues, ReadsOf
<1>11. "catalogue" \in kinds => Catalogues(jobs', on) = Catalogues(rest, on) \cup {new}
  BY <1>2, <1>5, <1>6, <1>7 DEF Catalogues, ReadsOf, Parts
<1>12. QED BY <1>2, <1>4, <1>8, <1>9, <1>10, <1>11 DEF new

(* Both parts of a connection as it is now, with reads that are under way. *)
LEMMA PartsJobs ==
  ASSUME NEW on \in Links, links'[on].filter \in Filters,
         NEW rest, IsABag(rest), BagToSet(rest) \subseteq Job,
         jobs' = rest (+) Started(links', on, Parts)
  PROVE  /\ IsABag(jobs') /\ BagToSet(jobs') \subseteq Job
         /\ \A l \in Links : ReadsOf(rest, l) \subseteq ReadsOf(jobs', l)
         /\ \A l \in Links \ {on} : ReadsOf(jobs', l) = ReadsOf(rest, l)
         /\ Catalogues(jobs', on)
              = Catalogues(rest, on) \cup {Read("catalogue", on, links'[on].filter)}
<1>1. Parts \in SUBSET (Parts \cup {"databases"}) /\ "catalogue" \in Parts BY DEF Parts
<1>2. QED BY <1>1, StartedJobs

(* The catalogue that goes off crosses the ones of other schemas, or all   *)
(* are of the same.                                                        *)
LEMMA CrossedIs ==
  ASSUME NEW from, NEW on \in Links, NEW rest,
         Catalogues(jobs', on)
           = Catalogues(rest, on) \cup {Read("catalogue", on, from[on].filter)},
         on \notin Crossed(from, on, rest)
  PROVE  /\ Catalogues(jobs', on) # {}
         /\ \A job \in Catalogues(jobs', on) : job.scope = from[on].filter
<1> DEFINE others == {job \in BagToSet(rest) : job.kind = "catalogue" /\ job.on = on}
<1>1. Catalogues(rest, on) = others BY DEF Catalogues, ReadsOf, Parts
<1>2. \A job \in others : job.scope = from[on].filter BY DEF Crossed
<1>3. Read("catalogue", on, from[on].filter).scope = from[on].filter BY DEF Read
<1>4. QED BY <1>1, <1>2, <1>3

LEMMA CrossedElsewhere ==
  ASSUME NEW from, NEW on, NEW rest, NEW l, l # on
  PROVE  l \in Crossed(from, on, rest) <=> l \in crossed
BY DEF Crossed

(* Some natural numbers have a least one, and below a bound a greatest.    *)
LEMMA LeastOf ==
  ASSUME NEW T, T \subseteq Nat, T # {}
  PROVE  \E x \in T : \A y \in T : x =< y
<1> DEFINE less == OpToRel(<, Nat)
<1>1. IsWellFoundedOn(less, Nat) BY NatLessThanWellFounded
<1>2. \A x, y \in Nat : y < x => <<y, x>> \in less BY DEF OpToRel
<1> HIDE DEF less
<1>3. \E x \in T : \A y \in T : ~(<<y, x>> \in less) BY <1>1, WFMin
<1>4. PICK x \in T : \A y \in T : ~(<<y, x>> \in less) BY <1>3
<1>5. \A y \in T : ~(y < x) BY <1>2, <1>4
<1>6. \A y \in T : x =< y BY <1>5
<1>7. QED BY <1>6

LEMMA GreatestOf ==
  ASSUME NEW bound \in Nat, NEW T, T \subseteq 0..bound, T # {}
  PROVE  \E x \in T : \A y \in T : y =< x
<1> DEFINE below == {bound - y : y \in T}
<1>1. below \subseteq Nat /\ below # {}
  <2>1. \A y \in T : y \in 0..bound OBVIOUS
  <2>2. \A y \in T : bound - y \in Nat BY <2>1
  <2>3. QED BY <2>2
<1>2. PICK x \in T : \A z \in below : bound - x =< z BY <1>1, LeastOf
<1>3. \A y \in T : bound - x =< bound - y BY <1>2
<1>4. QED BY <1>3

(* Where there is another connection there is one to come in front.        *)
LEMMA NearestIsOpen ==
  ASSUME Typed, NEW on \in Links, \E other \in Links \ {on} : IsOpen(other)
  PROVE  Nearest(on) \in Links /\ Nearest(on) # on /\ IsOpen(Nearest(on))
<1> DEFINE after == {other \in Links : IsOpen(other) /\ other > on}
           before == {other \in Links : IsOpen(other) /\ other < on}
<1>1. Links \subseteq 0..MaxLinks /\ MaxLinks \in Nat BY ReadsAssumption DEF Links
<1>2. after \subseteq Nat /\ before \subseteq 0..MaxLinks
  <2>1. after \subseteq Links /\ before \subseteq Links OBVIOUS
  <2>2. 0..MaxLinks \subseteq Nat OBVIOUS
  <2> HIDE DEF after, before
  <2>3. QED BY <1>1, <2>1, <2>2
<1>3. after # {} \/ before # {}
  <2>1. PICK other \in Links \ {on} : IsOpen(other) OBVIOUS
  <2>2. other \in Int /\ on \in Int BY DEF Links
  <2>3. other > on \/ other < on BY <2>2
  <2>4. QED BY <2>1, <2>3
<1>4. \A l \in after \cup before : l \in Links /\ l # on /\ IsOpen(l)
  BY DEF Links
<1>5. Nearest(on) = IF after # {} THEN CHOOSE l \in after : \A o \in after : l =< o
                    ELSE CHOOSE l \in before : \A o \in before : o =< l
  BY DEF Nearest
<1> HIDE DEF after, before
<1>6. CASE after # {} BY <1>2, <1>4, <1>5, <1>6, LeastOf
<1>7. CASE after = {} BY <1>1, <1>2, <1>3, <1>4, <1>5, <1>7, GreatestOf
<1>8. QED BY <1>6, <1>7

-----------------------------------------------------------------------------
(* One connection. *)

(* A connection that a step says nothing of, or only that it is read or    *)
(* marked, keeps what was promised of it.                                  *)
LEMMA Unmoved ==
  ASSUME NEW on \in Links, Kept(on),
         links'[on].shown = links[on].shown, links'[on].filter = links[on].filter,
         links'[on].scope = links[on].scope,
         links'[on].loading /\ on \notin lent' => links[on].loading /\ on \notin lent,
         ReadsOf(jobs, on) \subseteq ReadsOf(jobs', on),
         Catalogues(jobs', on) = Catalogues(jobs, on),
         on \in crossed => on \in crossed'
  PROVE  Kept(on)'
<1>1. links'[on].loading /\ on \notin lent' => ReadsOf(jobs', on) # {} BY DEF Kept
<1>2. on \notin crossed' =>
        /\ \A job \in Catalogues(jobs', on) : job.scope = links'[on].filter
        /\ Catalogues(jobs', on) = {} /\ links'[on].scope # NoTables
             => links'[on].scope = links'[on].filter
  BY DEF Kept
<1>3. links'[on].shown \subseteq {on} BY DEF Kept
<1>4. QED BY <1>1, <1>2, <1>3 DEF Kept, Catalogues, ReadsOf

(* A connection both of whose parts go off is read.                        *)
LEMMA LoadKept ==
  ASSUME NEW on \in Links, links'[on].shown \subseteq {on}, NEW rest,
         ReadsOf(rest, on) \subseteq ReadsOf(jobs', on),
         Catalogues(jobs', on)
           = Catalogues(rest, on) \cup {Read("catalogue", on, links'[on].filter)},
         on \notin crossed' => on \notin Crossed(links', on, rest)
  PROVE  Kept(on)'
<1>1. ReadsOf(jobs', on) # {} BY DEF Catalogues
<1>2. on \notin crossed' =>
        /\ Catalogues(jobs', on) # {}
        /\ \A job \in Catalogues(jobs', on) : job.scope = links'[on].filter
  <2> SUFFICES ASSUME on \notin crossed'
               PROVE  /\ Catalogues(jobs', on) # {}
                      /\ \A job \in Catalogues(jobs', on) : job.scope = links'[on].filter
    OBVIOUS
  <2>1. QED BY CrossedIs
<1>3. QED BY <1>1, <1>2 DEF Kept, Catalogues, ReadsOf

(* A connection in front is marked as loading, or stops being.             *)
LEMMA MarkedIsLink ==
  ASSUME NEW link \in Link, NEW mark \in BOOLEAN
  PROVE  /\ [link EXCEPT !.loading = mark] \in Link
         /\ [link EXCEPT !.loading = mark].loading = mark
         /\ [link EXCEPT !.loading = mark].shown = link.shown
         /\ [link EXCEPT !.loading = mark].filter = link.filter
         /\ [link EXCEPT !.loading = mark].scope = link.scope
BY DEF Link

(* What a read leaves on a connection is a connection, that shows what it  *)
(* showed and what was read.                                               *)
LEMMA TookIsLink ==
  ASSUME NEW link \in Link, NEW job \in Job, job.kind \in Parts
  PROVE  /\ Took(link, job) \in Link /\ ~Took(link, job).loading
         /\ Took(link, job).shown = link.shown \cup {job.on}
         /\ Took(link, job).filter = link.filter
         /\ Took(link, job).scope = IF job.kind = "health" THEN link.scope ELSE job.scope
<1> DEFINE shown == link.shown \cup {job.on}
           back == [link EXCEPT !.loading = FALSE, !.read = TRUE, !.shown = shown]
<1>1. shown \in SUBSET Links BY DEF Link, Job
<1>2. Took(link, job) = IF job.kind = "health" THEN back ELSE [back EXCEPT !.scope = job.scope]
  BY DEF Took
<1> HIDE DEF shown
<1>3. /\ back \in Link /\ back.shown = shown /\ back.filter = link.filter
      /\ back.scope = link.scope /\ ~back.loading
  BY <1>1 DEF Link
<1> HIDE DEF back
<1>4. /\ [back EXCEPT !.scope = job.scope] \in Link
      /\ [back EXCEPT !.scope = job.scope].shown = shown
      /\ [back EXCEPT !.scope = job.scope].filter = link.filter
      /\ ~[back EXCEPT !.scope = job.scope].loading
      /\ [back EXCEPT !.scope = job.scope].scope = job.scope
  BY <1>3 DEF Link, Job
<1>5. QED BY <1>2, <1>3, <1>4 DEF shown

(* Where one connection is as another link, the rest are as they were.     *)
LEMMA OneChanged ==
  ASSUME Typed, NEW on \in Links, NEW link \in Link, links' = [links EXCEPT ![on] = link]
  PROVE  /\ links' \in [Links -> Link \cup {Gone}]
         /\ \A l \in Links : links'[l] = IF l = on THEN link ELSE links[l]
         /\ \A l \in Links : IsOpen(l)' <=> (l = on \/ IsOpen(l))
<1>1. link # Gone BY LinkIsThere
<1>2. links' \in [Links -> Link \cup {Gone}] BY DEF Typed
<1>3. \A l \in Links : links'[l] = IF l = on THEN link ELSE links[l] BY DEF Typed
<1>4. QED BY <1>1, <1>2, <1>3 DEF IsOpen

(* A read that came back is under way once less, or no more.               *)
LEMMA WithoutJobs ==
  ASSUME Typed, NEW job \in BagToSet(jobs), jobs' = Without(job)
  PROVE  /\ IsABag(jobs') /\ BagToSet(jobs') \subseteq Job
         /\ \A l \in Links : Catalogues(jobs', l) \subseteq Catalogues(jobs, l)
         /\ \A l \in Links : l # job.on \/ job.kind \notin Parts
                               => ReadsOf(jobs', l) = ReadsOf(jobs, l)
         /\ \A l \in Links : l # job.on \/ job.kind # "catalogue"
                               => Catalogues(jobs', l) = Catalogues(jobs, l)
<1>1. IsABag(jobs) /\ BagToSet(jobs) \subseteq Job BY DEF Typed
<1>2. /\ IsABag(jobs') /\ BagToSet(jobs') \subseteq BagToSet(jobs)
      /\ BagToSet(jobs) \ {job} \subseteq BagToSet(jobs')
  BY <1>1, TakenOut DEF Without
<1>3. QED BY <1>1, <1>2 DEF Catalogues, ReadsOf, Parts

(* Where nothing of the connections or of their reads changes but marks of *)
(* the crossed that are added, what was promised of them is kept.          *)
LEMMA AllUnmoved ==
  ASSUME IInv, UNCHANGED <<links, lent>>, crossed \subseteq crossed',
         \A l \in Links : /\ ReadsOf(jobs, l) \subseteq ReadsOf(jobs', l)
                          /\ Catalogues(jobs', l) = Catalogues(jobs, l)
  PROVE  \A l \in Links : IsOpen(l)' => Kept(l)'
<1> SUFFICES ASSUME NEW l \in Links, IsOpen(l) PROVE Kept(l)'
  BY DEF IsOpen
<1>1. Kept(l) BY DEF IInv
<1>2. QED BY <1>1, Unmoved

LEMMA InitIInv == Init => IInv
<1> SUFFICES ASSUME Init PROVE IInv OBVIOUS
<1> DEFINE first == {Read(kind, 1, AsOpened) : kind \in Parts}
           fresh == [NewLink EXCEPT !.loading = TRUE]
<1>1. 1 \in Links BY ReadsAssumption DEF Links
<1>2. jobs = SetToBag(first) BY DEF Init
<1>3. \A job \in first : job \in Job /\ job.scope = AsOpened
  BY <1>1, NewIsLink DEF Read, Job
<1>4. Read("catalogue", 1, AsOpened) \in first BY DEF Parts
<1>5. Read("catalogue", 1, AsOpened).kind = "catalogue" /\ Read("catalogue", 1, AsOpened).on = 1
  BY DEF Read
<1>6. fresh \in Link /\ fresh.shown = {} /\ fresh.scope = NoTables /\ fresh # Gone
  BY NewIsLink, LinkIsThere
<1>7. fresh.filter = AsOpened BY DEF NewLink
<1>8. links = [on \in Links |-> IF on = 1 THEN fresh ELSE Gone] BY DEF Init
<1> HIDE DEF first, fresh
<1>9. IsABag(jobs) /\ BagToSet(jobs) = first BY <1>2, BagOf
<1>10. /\ linked = 1 /\ minted = 1 /\ form = [on |-> 0, known |-> 0] /\ Nowhere = 0
  BY DEF Init, NoForm, Nowhere
<1>11. links \in [Links -> Link \cup {Gone}] BY <1>6, <1>8
<1>12. links[1] = fresh BY <1>1, <1>8
<1>13. form \in [on : 0..MaxLinks, known : 0..MaxLinks] BY <1>10, ReadsAssumption
<1>14. Typed BY <1>1, <1>3, <1>6, <1>9, <1>10, <1>11, <1>12, <1>13 DEF Typed, IsOpen
<1>15. Catalogues(jobs, 1) # {} BY <1>4, <1>5, <1>9 DEF Catalogues, ReadsOf, Parts
<1>16. \A job \in Catalogues(jobs, 1) : job.scope = AsOpened
  BY <1>3, <1>9 DEF Catalogues, ReadsOf
<1>17. ReadsOf(jobs, 1) # {} BY <1>15 DEF Catalogues
<1>18. Kept(1) BY <1>6, <1>7, <1>12, <1>15, <1>16, <1>17 DEF Kept
<1>19. \A on \in Links : IsOpen(on) => on = 1 BY <1>8 DEF IsOpen
<1>20. QED BY <1>14, <1>18, <1>19 DEF IInv

-----------------------------------------------------------------------------
(* Keys. *)

(* A connection is marked, and both of its parts go off, with another in   *)
(* front or the same.                                                      *)
LEMMA LoadIInv ==
  ASSUME IInv, NEW on \in Links, IsOpen(on),
         links' = [links EXCEPT ![on].loading = TRUE], Load(links', on, jobs),
         lent' = lent \ {on}, IsOpen(linked'), UNCHANGED <<minted, form>>
  PROVE  IInv'
<1> DEFINE link == [links[on] EXCEPT !.loading = TRUE]
<1>0. Typed /\ \A l \in Links : IsOpen(l) => Kept(l) BY DEF IInv
<1>1. links[on] \in Link BY <1>0, OpenIsLink
<1>2. /\ link \in Link /\ link.shown = links[on].shown /\ link.filter = links[on].filter
  BY <1>1, MarkedIsLink
<1>3. links' = [links EXCEPT ![on] = link] OBVIOUS
<1> HIDE DEF link
<1>4. /\ links' \in [Links -> Link \cup {Gone}]
      /\ \A l \in Links : links'[l] = IF l = on THEN link ELSE links[l]
      /\ \A l \in Links : IsOpen(l)' <=> (l = on \/ IsOpen(l))
  BY <1>0, <1>2, <1>3, OneChanged
<1>5. links'[on].filter \in Filters BY <1>2, <1>4 DEF Link
<1>6. /\ jobs' = jobs (+) Started(links', on, Parts) /\ crossed' = Crossed(links', on, jobs)
  BY DEF Load
<1>7. /\ IsABag(jobs) /\ BagToSet(jobs) \subseteq Job /\ "catalogue" \in Parts
      /\ Parts \in SUBSET (Parts \cup {"databases"})
  BY <1>0 DEF Typed, Parts
<1>8. /\ IsABag(jobs') /\ BagToSet(jobs') \subseteq Job
      /\ \A l \in Links : ReadsOf(jobs, l) \subseteq ReadsOf(jobs', l)
      /\ \A l \in Links \ {on} : ReadsOf(jobs', l) = ReadsOf(jobs, l)
      /\ Catalogues(jobs', on)
           = Catalogues(jobs, on) \cup {Read("catalogue", on, links'[on].filter)}
  BY <1>5, <1>6, <1>7, PartsJobs
<1>9. Kept(on)'
  <2>1. links'[on].shown \subseteq {on} BY <1>0, <1>2, <1>4 DEF Kept
  <2>2. QED BY <1>6, <1>8, <2>1, LoadKept
<1>10. ASSUME NEW l \in Links, l # on, IsOpen(l) PROVE Kept(l)'
  <2>1. Kept(l) /\ links'[l] = links[l] BY <1>0, <1>4, <1>10
  <2>2. l \in crossed' <=> l \in crossed BY <1>6, <1>10, CrossedElsewhere
  <2>3. ReadsOf(jobs', l) = ReadsOf(jobs, l) BY <1>8, <1>10
  <2>4. Catalogues(jobs', l) = Catalogues(jobs, l) BY <2>3 DEF Catalogues
  <2>5. l \in lent' <=> l \in lent BY <1>10
  <2>6. QED BY <2>1, <2>2, <2>3, <2>4, <2>5, Unmoved
<1>11. Typed'
  <2>1. IsOpen(linked)' BY <1>4 DEF IsOpen
  <2>2. QED BY <1>0, <1>4, <1>8, <2>1 DEF Typed
<1>12. QED BY <1>4, <1>9, <1>10, <1>11 DEF IInv

(* Reads that are no catalogues go off, with the form as it will be.       *)
LEMMA StartsIInv ==
  ASSUME IInv, NEW on \in Links, IsOpen(on), NEW kinds \in SUBSET {"health", "databases"},
         jobs' = jobs (+) Started(links, on, kinds),
         UNCHANGED <<links, linked, minted, crossed, lent>>,
         form' \in [on : 0..MaxLinks, known : 0..MaxLinks],
         form'.known \in {Nowhere, form'.on}
  PROVE  IInv'
<1>0. Typed /\ IsABag(jobs) /\ BagToSet(jobs) \subseteq Job /\ "catalogue" \notin kinds
      /\ kinds \in SUBSET (Parts \cup {"databases"})
  BY DEF IInv, Typed, Parts
<1>1. links[on].filter \in Filters BY <1>0, OpenIsLink DEF Link
<1>2. /\ IsABag(jobs') /\ BagToSet(jobs') \subseteq Job
      /\ \A l \in Links : ReadsOf(jobs, l) \subseteq ReadsOf(jobs', l)
      /\ \A l \in Links \ {on} : ReadsOf(jobs', l) = ReadsOf(jobs, l)
      /\ Catalogues(jobs', on) = Catalogues(jobs, on)
  BY <1>0, <1>1, StartedJobs
<1>3. \A l \in Links : Catalogues(jobs', l) = Catalogues(jobs, l)
  BY <1>2 DEF Catalogues
<1>4. \A l \in Links : IsOpen(l)' => Kept(l)' BY <1>2, <1>3, AllUnmoved
<1>5. Typed' BY <1>0, <1>2 DEF Typed, IsOpen
<1>6. QED BY <1>4, <1>5 DEF IInv

(* Nothing is read, and another connection may come in front.              *)
LEMMA GoesIInv ==
  ASSUME IInv, IsOpen(linked'), UNCHANGED <<links, minted, jobs, crossed, lent>>,
         form' \in [on : 0..MaxLinks, known : 0..MaxLinks],
         form'.known \in {Nowhere, form'.on}
  PROVE  IInv'
<1>1. \A l \in Links : IsOpen(l)' => Kept(l)' BY AllUnmoved
<1>2. Typed' BY DEF IInv, Typed, IsOpen
<1>3. QED BY <1>1, <1>2 DEF IInv

(* What is in front is marked while another is opened.                     *)
LEMMA OpensIInv ==
  ASSUME IInv, Opens, form' \in {form, NoForm}
  PROVE  IInv'
<1> DEFINE link == [links[linked] EXCEPT !.loading = TRUE]
           new == Read("open", linked, AsOpened)
<1>0. Typed /\ \A l \in Links : IsOpen(l) => Kept(l) BY DEF IInv
<1>1. linked \in Links /\ IsOpen(linked) /\ links[linked] \in Link
  BY <1>0, OpenIsLink DEF Typed
<1>2. /\ link \in Link /\ link.shown = links[linked].shown
      /\ link.filter = links[linked].filter /\ link.scope = links[linked].scope
  BY <1>1, MarkedIsLink
<1>3. links' = [links EXCEPT ![linked] = link] BY DEF Opens
<1> HIDE DEF link
<1>4. /\ links' \in [Links -> Link \cup {Gone}]
      /\ \A l \in Links : links'[l] = IF l = linked THEN link ELSE links[l]
      /\ \A l \in Links : IsOpen(l)' <=> IsOpen(l)
  BY <1>0, <1>1, <1>2, <1>3, OneChanged
<1>5. new \in Job /\ new.kind = "open" BY <1>1, NewIsLink DEF Read, Job
<1>6. jobs' = jobs (+) SetToBag({new}) BY DEF Opens
<1> HIDE DEF new
<1>7. IsABag(jobs') /\ BagToSet(jobs') = BagToSet(jobs) \cup {new}
  BY <1>0, <1>6, PutIn DEF Typed
<1>8. \A l \in Links : ReadsOf(jobs', l) = ReadsOf(jobs, l)
  BY <1>5, <1>7 DEF ReadsOf, Parts
<1>9. /\ crossed' = crossed /\ UNCHANGED <<linked, minted>>
      /\ lent' = IF links[linked].loading THEN lent ELSE lent \cup {linked}
  BY DEF Opens, Lent
<1>10. ASSUME NEW l \in Links, IsOpen(l) PROVE Kept(l)'
  <2>1. /\ links'[l].shown = links[l].shown /\ links'[l].filter = links[l].filter
        /\ links'[l].scope = links[l].scope
    BY <1>2, <1>4
  <2>2. links'[l].loading /\ l \notin lent' => links[l].loading /\ l \notin lent
    BY <1>4, <1>9
  <2>3. QED BY <1>0, <1>8, <1>9, <1>10, <2>1, <2>2, Unmoved DEF Catalogues
<1>11. Typed'
  <2>1. IsOpen(linked)' BY <1>1, <1>4, <1>9 DEF IsOpen
  <2>2. form' \in [on : 0..MaxLinks, known : 0..MaxLinks] /\ form'.known \in {Nowhere, form'.on}
    BY <1>0, ReadsAssumption DEF Typed, NoForm, Nowhere
  <2>3. QED BY <1>0, <1>4, <1>5, <1>7, <1>9, <2>1, <2>2 DEF Typed
<1>12. QED BY <1>4, <1>10, <1>11 DEF IInv

(* A connection goes.                                                      *)
LEMMA DisconnectedIInv == ASSUME IInv, Disconnected PROVE IInv'
<1>0. Typed /\ \A l \in Links : IsOpen(l) => Kept(l) BY DEF IInv
<1> PICK on \in Links :
      /\ IsOpen(on) /\ \E other \in Links \ {on} : IsOpen(other)
      /\ links' = [links EXCEPT ![on] = Gone]
      /\ linked' = IF linked = on THEN Nearest(on) ELSE linked
      /\ crossed' = crossed \ {on} /\ lent' = lent \ {on}
  BY DEF Disconnected
<1>1. UNCHANGED <<minted, form, jobs>> BY DEF Disconnected
<1>2. /\ links' \in [Links -> Link \cup {Gone}]
      /\ \A l \in Links : links'[l] = IF l = on THEN Gone ELSE links[l]
  BY <1>0 DEF Typed
<1>3. \A l \in Links : IsOpen(l)' <=> (l # on /\ IsOpen(l)) BY <1>2 DEF IsOpen
<1>4. IsOpen(linked)'
  <2>1. linked' \in Links /\ linked' # on /\ IsOpen(linked')
    BY <1>0, NearestIsOpen DEF Typed, IsOpen
  <2>2. QED BY <1>2, <2>1 DEF IsOpen
<1>5. Typed' BY <1>0, <1>1, <1>2, <1>4 DEF Typed
<1>6. ASSUME NEW l \in Links, l # on, IsOpen(l) PROVE Kept(l)'
  BY <1>0, <1>1, <1>2, <1>6, Unmoved
<1>7. QED BY <1>3, <1>5, <1>6 DEF IInv

(* The connection of the form is narrowed, and the one in front is read.   *)
LEMMA FilteredIInv == ASSUME IInv, Filtered4Catalog PROVE IInv'
<1>0. /\ Typed /\ \A l \in Links : IsOpen(l) => Kept(l)
      /\ linked \in Links /\ IsOpen(linked)
  BY Zenon DEF IInv, Typed, IsOpen
<1>1. form' = NoForm /\ UNCHANGED <<linked, minted>> BY DEF Filtered4Catalog
<1> NoForm \in [on : 0..MaxLinks, known : 0..MaxLinks] /\ NoForm.known = Nowhere
  BY ReadsAssumption DEF NoForm, Nowhere
<1> PICK front \in Links : front = linked BY <1>0
<1>2. CASE ~IsOpen(form.on)
  <2>1. UNCHANGED <<links, jobs, crossed, lent>> BY <1>2 DEF Filtered4Catalog
  <2>2. QED BY <1>0, <1>1, <2>1, GoesIInv
<1>3. CASE IsOpen(form.on)
  <2>0. form.on \in Links BY <1>3, Zenon DEF IsOpen
  <2> PICK on \in Links : on = form.on BY <2>0, Zenon
  <2> PICK filter \in Filters :
        /\ links' = [links EXCEPT ![on].filter = filter, ![on].loading = TRUE,
                                  ![on].read = FALSE]
        /\ jobs' = jobs (+) Started(links', front, Parts)
        /\ crossed' = Crossed(links', front, jobs) \cup ({on} \ {front})
        /\ lent' = IF on = front THEN lent \ {front} ELSE Lent(on)
    BY <1>3 DEF Filtered4Catalog
  <2> DEFINE link == [links[on] EXCEPT !.filter = filter, !.loading = TRUE, !.read = FALSE]
  <2>1. on \in Links /\ links[on] \in Link BY <1>0, <1>3, OpenIsLink
  <2>2. link \in Link /\ link.shown = links[on].shown BY <2>1 DEF Link
  <2>3. links' = [links EXCEPT ![on] = link] OBVIOUS
  <2> HIDE DEF link
  <2>4. /\ links' \in [Links -> Link \cup {Gone}]
        /\ \A l \in Links : links'[l] = IF l = on THEN link ELSE links[l]
        /\ \A l \in Links : IsOpen(l)' <=> (l = on \/ IsOpen(l))
    BY <1>0, <2>1, <2>2, <2>3, OneChanged
  <2>5. IsOpen(on) BY <1>3
  <2>6. links'[front].filter \in Filters
    <3>1. links'[front] \in Link BY <1>0, <2>2, <2>4, OpenIsLink
    <3>2. QED BY <3>1 DEF Link
  <2>7. /\ IsABag(jobs) /\ BagToSet(jobs) \subseteq Job /\ "catalogue" \in Parts
        /\ Parts \in SUBSET (Parts \cup {"databases"})
    BY <1>0 DEF Typed, Parts
  <2>8. /\ IsABag(jobs') /\ BagToSet(jobs') \subseteq Job
        /\ \A l \in Links : ReadsOf(jobs, l) \subseteq ReadsOf(jobs', l)
        /\ \A l \in Links \ {front} : ReadsOf(jobs', l) = ReadsOf(jobs, l)
        /\ Catalogues(jobs', front)
             = Catalogues(jobs, front) \cup {Read("catalogue", front, links'[front].filter)}
    BY <1>0, <2>6, <2>7, PartsJobs
  <2>9. Kept(front)'
    <3>1. links'[front].shown \subseteq {front} BY <1>0, <2>2, <2>4 DEF Kept
    <3>2. front \notin crossed' => front \notin Crossed(links', front, jobs) OBVIOUS
    <3>3. QED BY <1>0, <2>8, <3>1, <3>2, LoadKept
  <2>10. ASSUME NEW l \in Links, l # front, l # on, IsOpen(l) PROVE Kept(l)'
    <3>1. Kept(l) /\ links'[l] = links[l] BY <1>0, <2>4, <2>10
    <3>2. l \in crossed => l \in crossed' BY <2>10, CrossedElsewhere
    <3>3. ReadsOf(jobs', l) = ReadsOf(jobs, l) BY <2>8, <2>10
    <3>4. Catalogues(jobs', l) = Catalogues(jobs, l) BY <3>3 DEF Catalogues
    <3>5. l \in lent' <=> l \in lent BY <2>10 DEF Lent
    <3>6. QED BY <3>1, <3>2, <3>3, <3>4, <3>5, Unmoved
  <2>11. ASSUME on # front PROVE Kept(on)'
    <3>1. Kept(on) BY <1>0, <2>1, <2>5
    <3>2. on \in crossed' BY <2>11
    <3>3. lent' = Lent(on) BY <2>11
    <3>4. on \in lent' \/ (links[on].loading /\ on \notin lent)
      BY <3>3, Zenon DEF Lent
    <3>5. links'[on].shown \subseteq {on} BY <2>1, <2>2, <2>4, <3>1 DEF Kept
    <3>6. ReadsOf(jobs, on) \subseteq ReadsOf(jobs', on) BY <2>1, <2>8
    <3>7. on \notin lent' => ReadsOf(jobs', on) # {} BY <3>1, <3>4, <3>6 DEF Kept
    <3>8. QED BY <3>2, <3>5, <3>7 DEF Kept, ReadsOf, Catalogues
  <2>12. Typed'
    <3>1. IsOpen(linked)' BY <1>0, <1>1, <2>4 DEF IsOpen
    <3>2. QED BY <1>0, <1>1, <2>4, <2>8, <3>1 DEF Typed
  <2>13. QED BY <2>4, <2>5, <2>9, <2>10, <2>11, <2>12 DEF IInv
<1>4. QED BY <1>2, <1>3

(* Every key keeps what was promised.                                      *)
LEMMA KeysIInv ==
  ASSUME IInv, \/ Reload \/ Beats \/ Focused \/ Through \/ Answered4Switch \/ Disconnected
               \/ OpenCatalog \/ CloseCatalog \/ Filtered4Catalog \/ OpenDatabase4Catalog
  PROVE  IInv'
<1>0. /\ Typed /\ linked \in Links /\ IsOpen(linked)
      /\ form \in [on : 0..MaxLinks, known : 0..MaxLinks] /\ form.known \in {Nowhere, form.on}
      /\ NoForm \in [on : 0..MaxLinks, known : 0..MaxLinks] /\ NoForm.known = Nowhere
  BY OpenIsLink, ReadsAssumption DEF IInv, Typed, NoForm, Nowhere
<1>1. CASE Reload BY <1>0, <1>1, LoadIInv DEF Reload
<1>2. CASE Beats BY <1>0, <1>2, StartsIInv DEF Beats
<1>3. CASE Focused
  <2>1. /\ linked' \in Links /\ IsOpen(linked') /\ UNCHANGED <<minted, form>>
        /\ \/ UNCHANGED <<links, jobs, crossed, lent>>
           \/ /\ links' = [links EXCEPT ![linked'].loading = TRUE]
              /\ Load(links', linked', jobs)
              /\ lent' = lent \ {linked'}
    BY <1>3 DEF Focused
  <2>2. QED BY <1>0, <2>1, LoadIInv, GoesIInv
<1>4. CASE Through BY <1>0, <1>4, GoesIInv DEF Through
<1>5. CASE Answered4Switch \/ OpenDatabase4Catalog
  BY <1>5, OpensIInv DEF Answered4Switch, OpenDatabase4Catalog
<1>6. CASE Disconnected BY <1>6, DisconnectedIInv
<1>7. CASE OpenCatalog
  <2>1. /\ form' = [on |-> linked, known |-> Nowhere]
        /\ jobs' = jobs (+) Started(links, linked, {"databases"})
        /\ UNCHANGED <<links, linked, minted, crossed, lent>>
    BY <1>7 DEF OpenCatalog
  <2>2. form' \in [on : 0..MaxLinks, known : 0..MaxLinks] /\ form'.known = Nowhere
    BY <1>0, <2>1, ReadsAssumption DEF Links, Nowhere
  <2>3. QED BY <1>0, <2>1, <2>2, StartsIInv
<1>8. CASE CloseCatalog BY <1>0, <1>8, GoesIInv DEF CloseCatalog
<1>9. CASE Filtered4Catalog BY <1>9, FilteredIInv
<1>10. QED BY <1>1, <1>2, <1>3, <1>4, <1>5, <1>6, <1>7, <1>8, <1>9

-----------------------------------------------------------------------------
(* What comes back. *)

(* A part that came back takes the mark away, and the tables are of the    *)
(* schemas it was asked for.                                               *)
LEMMA LoadedIInv == ASSUME IInv, NEW job \in BagToSet(jobs), Loaded(job) PROVE IInv'
<1>0. /\ Typed /\ \A l \in Links : IsOpen(l) => Kept(l)
      /\ job \in Job /\ job.kind \in Parts /\ job.on \in Links /\ job.scope \in Filters
      /\ linked \in Links /\ IsOpen(linked)
  BY OpenIsLink DEF IInv, Typed, Loaded, Job
<1> PICK on \in Links : on = job.on BY <1>0
<1>1. /\ jobs' = Without(job) /\ lent' = lent \ {on} /\ UNCHANGED <<linked, minted, form>>
  BY DEF Loaded, Place
<1>2. /\ IsABag(jobs') /\ BagToSet(jobs') \subseteq Job
      /\ \A l \in Links : Catalogues(jobs', l) \subseteq Catalogues(jobs, l)
      /\ \A l \in Links : l # on => ReadsOf(jobs', l) = ReadsOf(jobs, l)
      /\ \A l \in Links : l # on \/ job.kind # "catalogue"
                            => Catalogues(jobs', l) = Catalogues(jobs, l)
  BY <1>0, <1>1, WithoutJobs
<1>3. job.kind = "catalogue" => job \in Catalogues(jobs, on)
  BY <1>0 DEF Catalogues, ReadsOf
<1>4. CASE ~IsOpen(on)
  <2>1. UNCHANGED <<links, crossed>> BY <1>4 DEF Loaded, Place
  <2>2. ASSUME NEW l \in Links, IsOpen(l) PROVE Kept(l)'
    <3>1. Kept(l) /\ l # on BY <1>0, <1>4, <2>2
    <3>2. QED BY <1>1, <1>2, <2>1, <3>1, Unmoved
  <2>3. Typed' BY <1>0, <1>1, <1>2, <2>1 DEF Typed, IsOpen
  <2>4. QED BY <2>1, <2>2, <2>3 DEF IInv, IsOpen
<1>5. CASE IsOpen(on)
  <2>1. links[on] \in Link /\ Kept(on) BY <1>0, <1>5, OpenIsLink
  <2>2. \/ links' = [links EXCEPT ![on] = Took(links[on], job)] /\ UNCHANGED crossed
        \/ /\ links' = [links EXCEPT ![on] = Failed(links[on])]
           /\ crossed' = crossed \cup (IF job.kind = "catalogue" THEN {on} ELSE {})
    BY <1>0, <1>5 DEF Loaded, Place
  <2>3. PICK link : /\ links' = [links EXCEPT ![on] = link]
                    /\ \/ link = Took(links[on], job) /\ crossed' = crossed
                       \/ /\ link = Failed(links[on])
                          /\ crossed' = crossed \cup (IF job.kind = "catalogue" THEN {on} ELSE {})
    BY <2>2
  <2>4. /\ link \in Link /\ ~link.loading /\ link.filter = links[on].filter
        /\ link.shown \subseteq {on}
        /\ \/ /\ crossed' = crossed
              /\ link.scope = IF job.kind = "health" THEN links[on].scope ELSE job.scope
           \/ /\ crossed' = crossed \cup (IF job.kind = "catalogue" THEN {on} ELSE {})
              /\ link.scope = links[on].scope
    <3>1. links[on].shown \subseteq {on} BY <2>1 DEF Kept
    <3>2. CASE link = Took(links[on], job) /\ crossed' = crossed
      <4>1. /\ link \in Link /\ ~link.loading /\ link.filter = links[on].filter
            /\ link.shown = links[on].shown \cup {job.on}
            /\ link.scope = IF job.kind = "health" THEN links[on].scope ELSE job.scope
        BY <1>0, <2>1, <3>2, TookIsLink
      <4>2. QED BY <3>1, <3>2, <4>1
    <3>3. CASE /\ link = Failed(links[on])
               /\ crossed' = crossed \cup (IF job.kind = "catalogue" THEN {on} ELSE {})
      BY <2>1, <3>1, <3>3, MarkedIsLink DEF Failed
    <3>4. QED BY <2>3, <3>2, <3>3
  <2>5. /\ links' \in [Links -> Link \cup {Gone}]
        /\ \A l \in Links : links'[l] = IF l = on THEN link ELSE links[l]
        /\ \A l \in Links : IsOpen(l)' <=> IsOpen(l)
    BY <1>0, <1>5, <2>3, <2>4, OneChanged
  <2>6. Kept(on)'
    <3>1. on \notin crossed' =>
            /\ \A other \in Catalogues(jobs', on) : other.scope = link.filter
            /\ Catalogues(jobs', on) = {} /\ link.scope # NoTables
                 => link.scope = link.filter
      <4> SUFFICES ASSUME on \notin crossed' PROVE
            /\ \A other \in Catalogues(jobs', on) : other.scope = link.filter
            /\ Catalogues(jobs', on) = {} /\ link.scope # NoTables
                 => link.scope = link.filter
        OBVIOUS
      <4>1. on \notin crossed BY <2>4
      <4>2. \A other \in Catalogues(jobs, on) : other.scope = link.filter
        BY <2>1, <2>4, <4>1 DEF Kept
      <4>3. \A other \in Catalogues(jobs', on) : other.scope = link.filter
        BY <1>2, <4>2
      <4>4. CASE job.kind = "health"
        <5>1. link.scope = links[on].scope BY <2>4, <4>4
        <5>2. Catalogues(jobs', on) = Catalogues(jobs, on) BY <1>2, <4>4
        <5>3. QED BY <2>1, <2>4, <4>1, <4>3, <5>1, <5>2 DEF Kept
      <4>5. CASE job.kind = "catalogue"
        <5>1. link.scope = job.scope BY <2>4, <4>5
        <5>2. QED BY <1>3, <4>2, <4>3, <4>5, <5>1
      <4>6. QED BY <1>0, <4>4, <4>5 DEF Parts
    <3>2. QED BY <2>4, <2>5, <3>1 DEF Kept, Catalogues, ReadsOf
  <2>7. ASSUME NEW l \in Links, l # on, IsOpen(l) PROVE Kept(l)'
    <3>1. Kept(l) /\ links'[l] = links[l] BY <1>0, <2>5, <2>7
    <3>2. l \in crossed => l \in crossed' BY <2>4
    <3>3. QED BY <1>1, <1>2, <2>7, <3>1, <3>2, Unmoved
  <2>8. IsOpen(linked)' BY <1>0, <1>1, <2>5 DEF IsOpen
  <2>9. Typed' BY <1>0, <1>1, <1>2, <2>5, <2>8 DEF Typed
  <2>10. QED BY <2>5, <2>6, <2>7, <2>9 DEF IInv
<1>6. QED BY <1>4, <1>5

(* What the form is told is of its own connection.                         *)
LEMMA DatabasesIInv == ASSUME IInv, NEW job \in BagToSet(jobs), Databases(job) PROVE IInv'
<1>0. Typed /\ job \in Job /\ job.on \in Links /\ Links \subseteq 0..MaxLinks
  BY DEF IInv, Typed, Job, Links
<1>1. /\ jobs' = Without(job) /\ job.kind = "databases"
      /\ UNCHANGED <<links, linked, minted, crossed, lent>>
  BY DEF Databases
<1>2. /\ IsABag(jobs') /\ BagToSet(jobs') \subseteq Job
      /\ \A l \in Links : /\ ReadsOf(jobs', l) = ReadsOf(jobs, l)
                          /\ Catalogues(jobs', l) = Catalogues(jobs, l)
  BY <1>0, <1>1, WithoutJobs DEF Parts
<1>3. form' \in [on : 0..MaxLinks, known : 0..MaxLinks] /\ form'.known \in {Nowhere, form'.on}
  <2>1. PICK known \in {form.known, job.on} :
          form' = IF FormOf(job) THEN [form EXCEPT !.known = known] ELSE form
    BY DEF Databases
  <2>2. form \in [on : 0..MaxLinks, known : 0..MaxLinks] /\ form.known \in {Nowhere, form.on}
    BY <1>0 DEF Typed
  <2>3. CASE form' = form BY <2>2, <2>3
  <2>4. CASE FormOf(job) /\ form' = [form EXCEPT !.known = known]
    <3>1. job.on = form.on BY <2>4 DEF FormOf
    <3>2. known \in 0..MaxLinks /\ known \in {Nowhere, form.on} BY <1>0, <2>2, <3>1
    <3>3. form'.on = form.on /\ form'.known = known BY <2>2, <2>4
    <3>4. QED BY <2>2, <2>4, <3>2, <3>3
  <2>5. QED BY <2>1, <2>3, <2>4
<1>4. \A l \in Links : IsOpen(l)' => Kept(l)' BY <1>1, <1>2, AllUnmoved
<1>5. Typed' BY <1>0, <1>1, <1>2, <1>3 DEF Typed, IsOpen
<1>6. QED BY <1>4, <1>5 DEF IInv

(* A connection that opened, or did not, ends the mark of the one that is  *)
(* in front by now, and is read from the start.                            *)
LEMMA SwitchedIInv == ASSUME IInv, NEW job \in BagToSet(jobs), Switched(job) PROVE IInv'
<1> DEFINE link == [links[linked] EXCEPT !.loading = FALSE]
           fresh == [NewLink EXCEPT !.loading = TRUE]
<1>0. /\ Typed /\ \A l \in Links : IsOpen(l) => Kept(l)
      /\ linked \in Links /\ IsOpen(linked) /\ links[linked] \in Link
  BY OpenIsLink DEF IInv, Typed
<1> PICK front \in Links : front = linked BY <1>0
<1> PICK rest : rest = Without(job) OBVIOUS
<1>1. /\ job.kind = "open" /\ lent' = lent \ {front} /\ form' = form BY DEF Switched
<1>2. /\ IsABag(rest) /\ BagToSet(rest) \subseteq Job
      /\ \A l \in Links : ReadsOf(rest, l) = ReadsOf(jobs, l)
  <2>1. IsABag(jobs) /\ BagToSet(jobs) \subseteq Job BY <1>0 DEF Typed
  <2>2. /\ IsABag(rest) /\ BagToSet(rest) \subseteq BagToSet(jobs)
        /\ BagToSet(jobs) \ {job} \subseteq BagToSet(rest)
    BY <2>1, TakenOut DEF Without
  <2>3. QED BY <1>1, <2>1, <2>2 DEF ReadsOf, Parts
<1>3. /\ link \in Link /\ link # Gone /\ ~link.loading /\ link.shown = links[linked].shown
      /\ link.filter = links[linked].filter /\ link.scope = links[linked].scope
  BY <1>0, MarkedIsLink, LinkIsThere
<1> PICK stopped : stopped = [links EXCEPT ![front] = link] OBVIOUS
<1>4. /\ stopped \in [Links -> Link \cup {Gone}]
      /\ \A l \in Links : stopped[l] = IF l = front THEN link ELSE links[l]
  BY <1>0, <1>3 DEF Typed
<1>5. \/ /\ minted < MaxLinks
         /\ minted' = minted + 1 /\ linked' = minted + 1
         /\ links' = [stopped EXCEPT ![minted + 1] = fresh]
         /\ Load(links', minted + 1, rest)
      \/ /\ links' = stopped /\ jobs' = rest
         /\ UNCHANGED <<linked, minted, crossed>>
  BY DEF Switched
\* A connection that was there is as it was, but for its mark.
<1>6. ASSUME NEW l \in Links, IsOpen(l), links'[l] = stopped[l],
             ReadsOf(jobs', l) = ReadsOf(rest, l), l \in crossed => l \in crossed'
      PROVE  Kept(l)'
  <2>1. /\ links'[l].shown = links[l].shown /\ links'[l].filter = links[l].filter
        /\ links'[l].scope = links[l].scope
        /\ links'[l].loading /\ l \notin lent' => links[l].loading /\ l \notin lent
    BY <1>1, <1>3, <1>4, <1>6
  <2>2. QED BY <1>0, <1>2, <1>6, <2>1, Unmoved DEF Catalogues
<1>7. CASE links' = stopped /\ jobs' = rest /\ UNCHANGED <<linked, minted, crossed>>
  <2> HIDE DEF link
  <2>1. \A l \in Links : IsOpen(l)' <=> IsOpen(l) BY <1>0, <1>3, <1>4, <1>7 DEF IsOpen
  <2>2. \A l \in Links : IsOpen(l) => Kept(l)' BY <1>6, <1>7
  <2>3. IsOpen(linked)' BY <1>0, <1>7, <2>1 DEF IsOpen
  <2>4. Typed' BY <1>0, <1>1, <1>2, <1>4, <1>7, <2>3 DEF Typed
  <2>5. QED BY <2>1, <2>2, <2>4 DEF IInv
<1>8. CASE /\ minted < MaxLinks
           /\ minted' = minted + 1 /\ linked' = minted + 1
           /\ links' = [stopped EXCEPT ![minted + 1] = fresh]
           /\ Load(links', minted + 1, rest)
  <2> PICK on \in Links : on = minted + 1
    BY <1>0, <1>8, ReadsAssumption DEF Typed, Links
  <2>1. fresh \in Link /\ fresh # Gone /\ fresh.shown = {}
    BY NewIsLink, LinkIsThere
  <2> HIDE DEF link, fresh
  <2>2. /\ links' \in [Links -> Link \cup {Gone}]
        /\ \A l \in Links : links'[l] = IF l = on THEN fresh ELSE stopped[l]
    BY <1>4, <1>8, <2>1
  <2>3. \A l \in Links : IsOpen(l)' <=> (l = on \/ IsOpen(l))
    BY <1>0, <1>3, <1>4, <2>1, <2>2 DEF IsOpen
  <2>4. links'[on].filter \in Filters BY <2>1, <2>2 DEF Link
  <2>5. jobs' = rest (+) Started(links', on, Parts) /\ crossed' = Crossed(links', on, rest)
    BY <1>8 DEF Load
  <2>6. /\ IsABag(jobs') /\ BagToSet(jobs') \subseteq Job
        /\ \A l \in Links : ReadsOf(rest, l) \subseteq ReadsOf(jobs', l)
        /\ \A l \in Links \ {on} : ReadsOf(jobs', l) = ReadsOf(rest, l)
        /\ Catalogues(jobs', on)
             = Catalogues(rest, on) \cup {Read("catalogue", on, links'[on].filter)}
    BY <1>2, <2>4, <2>5, PartsJobs
  <2>7. Kept(on)'
    <3>1. links'[on].shown \subseteq {on} BY <2>1, <2>2
    <3>2. QED BY <2>5, <2>6, <3>1, LoadKept
  <2>8. ASSUME NEW l \in Links, l # on, IsOpen(l) PROVE Kept(l)'
    <3>1. l \in crossed' <=> l \in crossed BY <2>5, <2>8, CrossedElsewhere
    <3>2. QED BY <1>6, <2>2, <2>6, <2>8, <3>1
  <2>9. minted' \in Links /\ IsOpen(linked)' BY <1>8, <2>3 DEF IsOpen
  <2>10. Typed' BY <1>0, <1>1, <2>2, <2>6, <2>9 DEF Typed
  <2>11. QED BY <2>3, <2>7, <2>8, <2>10 DEF IInv
<1>9. QED BY <1>5, <1>7, <1>8

LEMMA StepIInv == IInv /\ [Next]_vars => IInv'
<1> SUFFICES ASSUME IInv, [Next]_vars PROVE IInv' OBVIOUS
<1>1. CASE UNCHANGED vars
  BY <1>1 DEF vars, IInv, Typed, Kept, IsOpen, ReadsOf, Catalogues
<1>2. QED BY <1>1, KeysIInv, LoadedIInv, DatabasesIInv, SwitchedIInv DEF Next, Returns

(* What is shown of a connection was read from it, and the form shows the  *)
(* databases of its own, however connections and reads overtake one        *)
(* another (loaded, withCatalog).                                          *)
THEOREM ShownWhereItIsHolds == Spec => []ShownWhereItIs
<1>1. IInv => ShownWhereItIs BY DEF IInv, Typed, Kept, ShownWhereItIs
<1>2. QED BY <1>1, InitIInv, StepIInv, PTL DEF Spec

(* What is marked as being read is being read, unless the mark was lent:   *)
(* given for a connection being opened, or for the read of another         *)
(* (answered4Switch, filtered4Catalog).                                    *)
THEOREM LoadingIsFollowedHolds == Spec => []LoadingIsFollowed
<1>1. IInv => LoadingIsFollowed
  BY DEF IInv, Kept, LoadingIsFollowed, ReadsOf, UnderWay
<1>2. QED BY <1>1, InitIInv, StepIInv, PTL DEF Spec

(* The tables shown are those of the schemas a connection is narrowed to,  *)
(* once nothing that could change them is under way and unless reads of    *)
(* two sets of schemas crossed, one failed, or none was started            *)
(* (readCatalogue, filtered4Catalog).                                      *)
THEOREM TablesFollowTheFilterHolds == Spec => []TablesFollowTheFilter
<1>1. IInv => TablesFollowTheFilter
  BY DEF IInv, Kept, TablesFollowTheFilter, UnderWay, Catalogues, ReadsOf, Parts
<1>2. QED BY <1>1, InitIInv, StepIInv, PTL DEF Spec
=============================================================================
