--------------------------- MODULE DownloadsProofs ---------------------------
(***************************************************************************)
(* What Downloads promises for a model of any size and any number of       *)
(* downloads.  What a screen says is arriving is always waited for.  Where *)
(* one program keeps its models in the directory and no key is pressed     *)
(* while an answer is on its way, the hash is that of the file and a model *)
(* that is there is whole; the second needs that what the hub does not     *)
(* vouch for was left by no other build.                                   *)
(*                                                                         *)
(* Alone says that the downloads that go on are those a screen waits for,  *)
(* so that one program has one at most.  Hashed follows that one from the  *)
(* length it asks to carry on from to the file it puts in place; Kept is   *)
(* about the files it leaves behind, which no later one writes over.       *)
(***************************************************************************)
EXTENDS Downloads, SequenceTheorems, TLAPS

\* A download that reads or writes has a file.
Fetching == {fetch \in
  [by : Programs, job : {"library", "model"}, over : BOOLEAN, watched : BOOLEAN,
   step : {"begin", "ask", "rehash", "read", "tell", "verify", "rename", "record",
           "say", "ended", "gone"},
   from : Nat, at : Nat, sent : 0..Size, seen : Seq(Nat),
   file : Files \cup {NoFile}, failed : BOOLEAN] :
   fetch.step \in {"rehash", "read", "tell"} => fetch.file \in Files}

Typed ==
  /\ hub \in [vouches : BOOLEAN, measures : BOOLEAN, ranges : BOOLEAN]
  /\ contents \in [Files -> Seq(Nat)]
  /\ part \in Files \cup {NoFile} /\ final \in Files \cup {NoFile}
  /\ manifest \in Nat /\ library \in BOOLEAN
  /\ fetches \in [Fetches -> Fetching \cup {Unused}]
  /\ screens \in [Programs -> Screen]

Waited ==
  \A p \in Programs : screens[p].busy =>
    /\ screens[p].token \in Fetches /\ Watched(screens[p].token)
    /\ fetches[screens[p].token].by = p

Base == Typed /\ Waited

\* Only what a screen waits for goes on, and it asks nothing meanwhile.
Alone ==
  /\ \A p \in Programs : screens[p].anyway => ~screens[p].busy
  /\ \A f \in Fetches : Going(f) => Watched(f)
  /\ \A f \in Fetches : Watched(f) => screens[fetches[f].by].busy /\ Ours(f)

\* How much of the part there is, and what of it was hashed, at each step of a download.
Hashes(fetch) ==
  /\ fetch.step = "ask" => fetch.from = IF part = NoFile THEN 0 ELSE Len(contents[part])
  /\ fetch.step = "rehash" =>
       /\ fetch.file \in Files /\ part = fetch.file
       /\ fetch.at = fetch.from /\ fetch.sent = fetch.from
       /\ Len(contents[fetch.file]) = fetch.from
  /\ fetch.step \in {"read", "tell", "verify", "rename"} =>
       /\ fetch.file \in Files /\ part = fetch.file
       /\ fetch.at = fetch.sent /\ fetch.seen = contents[fetch.file]
       /\ Len(fetch.seen) = fetch.at
  /\ fetch.step \in {"verify", "rename"} => fetch.sent = Size \/ ~hub.measures

Hashed == \A f \in Fetches : fetches[f] # Unused => Hashes(fetches[f])

\* What there is of a model that is so much of it.
Begins(s) == Len(s) =< Size /\ \A n \in 1..Len(s) : s[n] = n

\* What the hub says something of is all of the model.
Whole(s) == hub.measures \/ hub.vouches => s = Model

\* A part that nobody vouches for is of the model, what was put in place is all of
\* it, and a download that has no file yet finds none under its own number.
Kept ==
  /\ ~hub.vouches /\ part # NoFile => Begins(contents[part])
  /\ final # NoFile => Whole(contents[final]) /\ part # final
  /\ \A f \in Fetches : fetches[f] = Unused \/ fetches[f].step \in {"begin", "ask"} =>
       f \notin {part, final}
  /\ \A f \in Fetches : On(f, "rename") => Whole(fetches[f].seen)

One == \A p, q \in Programs : p = q

\* A step that keeps what it finds, where that holds at all.
Safe ==
  /\ Base'
  /\ Alone /\ ~Overlaps => Alone'
  /\ Alone /\ ~Overlaps /\ One /\ Hashed => Hashed'
  /\ Alone /\ ~Overlaps /\ One /\ Hashed /\ Kept => Kept'

(* A download is told from none.                                           *)
LEMMA FetchIsSome == \A fetch \in Fetching : fetch # Unused
<1>1. \A fetch \in Fetching : fetch.step # "unused" BY DEF Fetching
<1>2. Unused.step = "unused" BY DEF Unused
<1>3. QED BY <1>1, <1>2

LEMMA UsedIsFetch ==
  ASSUME Typed, NEW f \in Fetches, fetches[f] # Unused
  PROVE  fetches[f] \in Fetching
BY DEF Typed

LEMMA Numbers == /\ Fetches \subseteq Nat /\ Files \subseteq Nat /\ Fetches \subseteq Files
                 /\ NoFile \notin Files /\ NoFetch \notin Fetches
BY DownloadsAssumption DEF Fetches, Files, NoFile, NoFetch

LEMMA FreshIsFetch ==
  ASSUME NEW p \in Programs, NEW job \in {"library", "model"}
  PROVE  /\ Fresh(p, job) \in Fetching /\ Fresh(p, job).step = "begin"
         /\ Fresh(p, job).watched /\ Fresh(p, job).by = p
<1>1. <<>> \in Seq(Nat) /\ 0 \in 0..Size BY DownloadsAssumption
<1>2. QED BY <1>1 DEF Fresh, Fetching

LEMMA EndedIsFetch ==
  ASSUME Typed, NEW f \in Fetches, fetches[f] # Unused, NEW failed \in BOOLEAN
  PROVE  /\ Ended(f, failed) \in Fetching /\ Ended(f, failed).step = "ended"
         /\ Ended(f, failed).by = fetches[f].by
         /\ Ended(f, failed).watched = fetches[f].watched
<1>1. fetches[f] \in Fetching BY UsedIsFetch
<1>2. fetches[f].by \in Programs /\ fetches[f].job \in {"library", "model"}
      /\ fetches[f].over \in BOOLEAN /\ fetches[f].watched \in BOOLEAN
  BY <1>1 DEF Fetching
<1>3. Fresh(fetches[f].by, fetches[f].job) \in Fetching
      /\ Fresh(fetches[f].by, fetches[f].job).by = fetches[f].by
  BY <1>2, FreshIsFetch
<1>4. QED BY <1>2, <1>3 DEF Ended, Fetching

(* Where one program is alone, one download at most goes on.               *)
LEMMA OneGoes ==
  ASSUME Base, Alone, One, NEW f \in Fetches, NEW g \in Fetches, Going(f), Going(g)
  PROVE  f = g
<1>1. fetches[f].by \in Programs /\ fetches[g].by \in Programs
  BY UsedIsFetch DEF Base, Going, Fetching
<1>2. fetches[f].by = fetches[g].by BY <1>1 DEF One
<1>3. QED BY <1>2 DEF Alone, Ours

LEMMA NoneGoes ==
  ASSUME Base, Alone, One, NEW p \in Programs, ~screens[p].busy, NEW f \in Fetches
  PROVE  ~Watched(f) /\ ~Going(f)
<1>1. fetches[f] # Unused => fetches[f].by = p
  BY UsedIsFetch DEF Base, One, Fetching
<1>2. QED BY <1>1 DEF Alone, Watched, Going

(* The invariants hold at the start.                                       *)
LEMMA InitBase == Init => Base /\ Alone /\ Hashed
<1> SUFFICES ASSUME Init PROVE Base /\ Alone /\ Hashed OBVIOUS
<1>1. \A f \in Fetches : fetches[f] = Unused BY DEF Init
<1>2. fetches \in [Fetches -> Fetching \cup {Unused}] BY DEF Init
<1>3. NoScreen \in Screen BY DownloadsAssumption DEF NoScreen, Screen, NoFetch
<1>4. screens \in [Programs -> Screen] /\ \A p \in Programs : screens[p] = NoScreen
  BY <1>3 DEF Init
<1>5. <<>> \in Seq(Nat) /\ <<Strange>> \in Seq(Nat) BY DEF Strange
<1>6. contents \in [Files -> Seq(Nat)] BY <1>5 DEF Init
<1>7. part \in Files \cup {NoFile} /\ final \in Files \cup {NoFile}
  BY DownloadsAssumption DEF Init, Files
<1>8. Typed BY <1>2, <1>4, <1>6, <1>7 DEF Init, Typed
<1>9. Base BY <1>4, <1>8 DEF Base, Waited, NoScreen
<1>10. Alone BY <1>1, <1>4 DEF Alone, NoScreen, Going, Watched
<1>11. Hashed BY <1>1 DEF Hashed
<1>12. QED BY <1>9, <1>10, <1>11

LEMMA InitKept == ~Strangers /\ Init => Kept
<1> SUFFICES ASSUME ~Strangers, Init PROVE Kept OBVIOUS
<1>1. final = NoFile /\ \A f \in Fetches : fetches[f] = Unused BY DEF Init
<1>2. part # NoFile => hub.vouches /\ part = 0 BY DEF Init
<1>3. \A f \in Fetches : f # 0 /\ f # NoFile BY DownloadsAssumption DEF Fetches, NoFile
<1>4. QED BY <1>1, <1>2, <1>3 DEF Kept, On

(* One download changes, and the others are as they were.                  *)
LEMMA OneFetch ==
  ASSUME Typed, NEW f \in Fetches, NEW new \in Fetching, fetches' = [fetches EXCEPT ![f] = new]
  PROVE  /\ fetches' \in [Fetches -> Fetching \cup {Unused}]
         /\ \A g \in Fetches : fetches'[g] = IF g = f THEN new ELSE fetches[g]
         /\ new # Unused
BY FetchIsSome DEF Typed

(* A download that goes on takes a step, and is waited for as it was.      *)
LEMMA WorkBase ==
  ASSUME Base, NEW f \in Fetches, NEW new \in Fetching, Going(f),
         fetches' = [fetches EXCEPT ![f] = new],
         new.by = fetches[f].by, new.watched = fetches[f].watched, UNCHANGED <<hub, screens>>,
         contents' \in [Files -> Seq(Nat)], part' \in Files \cup {NoFile},
         final' \in Files \cup {NoFile}, manifest' \in Nat, library' \in BOOLEAN
  PROVE  Base' /\ (Alone => Alone')
<1>1. /\ fetches' \in [Fetches -> Fetching \cup {Unused}]
      /\ \A g \in Fetches : fetches'[g] = IF g = f THEN new ELSE fetches[g]
      /\ new # Unused
  BY OneFetch DEF Base
<1>2. Typed' BY <1>1 DEF Base, Typed
<1>3. \A g \in Fetches : Watched(g)' <=> Watched(g)
  BY <1>1 DEF Watched, Going
<1>4. Waited' BY <1>1, <1>3 DEF Base, Waited
<1>5. \A g \in Fetches : Going(g)' => Going(g) BY <1>1 DEF Going
<1>6. \A g \in Fetches : Watched(g) => fetches'[g].by = fetches[g].by BY <1>1
<1>7. Alone => Alone' BY <1>3, <1>5, <1>6 DEF Alone, Ours
<1>8. QED BY <1>2, <1>4, <1>7 DEF Base

LEMMA WorkHashed ==
  ASSUME Base, Alone, One, NEW f \in Fetches, NEW new \in Fetching, Going(f),
         fetches' = [fetches EXCEPT ![f] = new], Hashes(new)'
  PROVE  Hashed'
<1>1. \A g \in Fetches : fetches'[g] = IF g = f THEN new ELSE fetches[g]
  BY OneFetch DEF Base
<1>2. ASSUME NEW g \in Fetches, g # f, fetches[g] # Unused
      PROVE  Hashes(fetches[g])'
  <2>1. fetches[g].step \in {"ended", "gone"} BY <1>2, OneGoes DEF Going
  <2>2. QED BY <2>1 DEF Hashes
<1>3. QED BY <1>1, <1>2 DEF Hashed

(* A download goes on without touching a file.                             *)
LEMMA QuietSafe ==
  ASSUME Base, NEW f \in Fetches, NEW new \in Fetching, Going(f),
         fetches' = [fetches EXCEPT ![f] = new],
         new.by = fetches[f].by, new.watched = fetches[f].watched,
         UNCHANGED <<hub, contents, part, final, screens>>,
         manifest' \in Nat, library' \in BOOLEAN,
         Alone /\ One /\ Hashed => Hashes(new),
         new.step \in {"begin", "ask"} => fetches[f].step \in {"begin", "ask"},
         Alone /\ One /\ Hashed /\ Kept /\ new.step = "rename" => Whole(new.seen)
  PROVE  Safe
<1>1. Base' /\ (Alone => Alone') BY WorkBase DEF Base, Typed
<1>2. Hashes(new)' <=> Hashes(new) BY DEF Hashes
<1>3. Alone /\ One /\ Hashed => Hashed' BY <1>2, WorkHashed
<1>4. \A g \in Fetches : fetches'[g] = IF g = f THEN new ELSE fetches[g]
  BY OneFetch DEF Base
<1>5. new # Unused BY FetchIsSome
<1>6. ASSUME Alone, One, Hashed, Kept PROVE Kept'
  <2>1. \A g \in Fetches : fetches'[g] = Unused \/ fetches'[g].step \in {"begin", "ask"} =>
          fetches[g] = Unused \/ fetches[g].step \in {"begin", "ask"}
    BY <1>4, <1>5
  <2>2. \A g \in Fetches : On(g, "rename")' => Whole(fetches[g].seen)'
    BY <1>4, <1>6 DEF Kept, On, Whole
  <2>3. QED BY <1>6, <2>1, <2>2 DEF Kept, Whole
<1>7. QED BY <1>1, <1>3, <1>6 DEF Safe

\* A download that only comes to another step.
Stepped(f, step) == [fetches[f] EXCEPT !.step = step]

LEMMA StepIsFetch ==
  ASSUME Typed, NEW f \in Fetches, fetches[f] # Unused,
         NEW step \in {"begin", "ask", "rehash", "read", "tell", "verify", "rename", "record",
                       "say", "ended", "gone"},
         step \in {"rehash", "read", "tell"} => fetches[f].file \in Files
  PROVE  /\ Stepped(f, step) \in Fetching /\ Stepped(f, step).step = step
         /\ Stepped(f, step).by = fetches[f].by
         /\ Stepped(f, step).watched = fetches[f].watched
         /\ Stepped(f, step).from = fetches[f].from /\ Stepped(f, step).at = fetches[f].at
         /\ Stepped(f, step).sent = fetches[f].sent
         /\ Stepped(f, step).seen = fetches[f].seen
         /\ Stepped(f, step).file = fetches[f].file
         /\ To(f, step) => fetches' = [fetches EXCEPT ![f] = Stepped(f, step)]
<1>1. fetches[f] \in Fetching BY UsedIsFetch
<1>2. QED BY <1>1 DEF Fetching, To, Stepped

LEMMA InstallSafe == ASSUME Base, NEW f \in Fetches, Install(f), UNCHANGED screens PROVE Safe
<1> DEFINE new == Stepped(f, "say")
<1>1. /\ fetches[f] # Unused /\ Going(f) /\ To(f, "say") /\ library' = TRUE
      /\ UNCHANGED <<hub, contents, part, final, manifest>>
  BY DEF Install, On, Going, Disk
<1>2. /\ new \in Fetching /\ new.step = "say" /\ new.by = fetches[f].by
      /\ new.watched = fetches[f].watched /\ fetches' = [fetches EXCEPT ![f] = new]
  BY <1>1, StepIsFetch DEF Base
<1> HIDE DEF new
<1>3. Hashes(new) BY <1>2 DEF Hashes
<1>4. QED BY <1>1, <1>2, <1>3, QuietSafe DEF Base, Typed

LEMMA ResumeAtSafe == ASSUME Base, NEW f \in Fetches, ResumeAt(f), UNCHANGED screens PROVE Safe
<1> DEFINE length == IF part = NoFile THEN 0 ELSE Len(contents[part])
           new == [fetches[f] EXCEPT !.step = "ask", !.from = length]
<1>1. /\ fetches[f] # Unused /\ fetches[f].step = "begin" /\ Going(f)
      /\ fetches' = [fetches EXCEPT ![f].step = "ask", ![f].from = length]
      /\ UNCHANGED <<hub, contents, part, final, manifest, library>>
  BY DEF ResumeAt, On, Going, Disk
<1>2. fetches[f] \in Fetching BY <1>1, UsedIsFetch DEF Base
<1>3. length \in Nat
  <2>1. part # NoFile => contents[part] \in Seq(Nat) BY DEF Base, Typed
  <2>2. QED BY <2>1, LenProperties
<1>4. fetches' = [fetches EXCEPT ![f] = new] BY <1>1
<1>5. /\ new \in Fetching /\ new.step = "ask" /\ new.by = fetches[f].by
      /\ new.watched = fetches[f].watched /\ new.from = length
  <2> HIDE DEF length
  <2>1. QED BY <1>2, <1>3 DEF Fetching
<1>6. Hashes(new) BY <1>5 DEF Hashes
<1> HIDE DEF new
<1>7. QED BY <1>1, <1>4, <1>5, <1>6, QuietSafe DEF Base, Typed
LEMMA RehashSafe == ASSUME Base, NEW f \in Fetches, Rehash(f), UNCHANGED screens PROVE Safe
<1> DEFINE fetch == fetches[f]
           new == [fetch EXCEPT !.step = "read", !.seen = Rehashed(f)]
<1>1. /\ fetch # Unused /\ fetch.step = "rehash" /\ Going(f)
      /\ Len(contents[fetch.file]) >= fetch.from
      /\ fetches' = [fetches EXCEPT ![f].step = "read", ![f].seen = Rehashed(f)]
      /\ UNCHANGED <<hub, contents, part, final, manifest, library>>
  BY DEF Rehash, On, Going, Disk
<1>2. fetch \in Fetching BY <1>1, UsedIsFetch DEF Base
<1>3. fetch.file \in Files /\ fetch.from \in Nat BY <1>1, <1>2 DEF Fetching
<1>4. contents[fetch.file] \in Seq(Nat) BY <1>3 DEF Base, Typed
<1>5. Rehashed(f) \in Seq(Nat)
  <2>1. \A i \in 1..fetch.from : contents[fetch.file][i] \in Nat
    BY <1>1, <1>3, <1>4, LenProperties
  <2>2. 1 \in Int /\ fetch.from \in Int BY <1>3
  <2>3. QED BY <2>1, <2>2, SubSeqProperties DEF Rehashed
<1>6. fetches' = [fetches EXCEPT ![f] = new] BY <1>1
<1>7. /\ new \in Fetching /\ new.step = "read" /\ new.by = fetch.by
      /\ new.watched = fetch.watched /\ new.seen = Rehashed(f)
      /\ new.file = fetch.file /\ new.at = fetch.at /\ new.sent = fetch.sent
  BY <1>2, <1>3, <1>5 DEF Fetching
<1> HIDE DEF new
<1>8. ASSUME Hashed PROVE Hashes(new)
  <2>1. /\ part = fetch.file /\ fetch.at = fetch.from /\ fetch.sent = fetch.from
        /\ Len(contents[fetch.file]) = fetch.from
    BY <1>1, <1>8 DEF Hashed, Hashes
  <2>2. Rehashed(f) = contents[fetch.file] BY <1>4, <2>1, SubSeqFull DEF Rehashed
  <2>3. QED BY <1>3, <1>7, <2>1, <2>2 DEF Hashes
<1>9. QED BY <1>1, <1>6, <1>7, <1>8, QuietSafe DEF Base, Typed

LEMMA EndOfBodySafe == ASSUME Base, NEW f \in Fetches, EndOfBody(f), UNCHANGED screens PROVE Safe
<1> DEFINE new == Stepped(f, "verify")
<1>1. /\ fetches[f] # Unused /\ fetches[f].step = "read" /\ Going(f) /\ To(f, "verify")
      /\ fetches[f].sent = Size \/ ~hub.measures
      /\ UNCHANGED <<hub, contents, part, final, manifest, library>>
  BY DEF EndOfBody, On, Going, Disk
<1>2. /\ new \in Fetching /\ new.step = "verify" /\ new.by = fetches[f].by
      /\ new.watched = fetches[f].watched /\ new.at = fetches[f].at
      /\ new.sent = fetches[f].sent /\ new.seen = fetches[f].seen
      /\ new.file = fetches[f].file /\ fetches' = [fetches EXCEPT ![f] = new]
  BY <1>1, StepIsFetch DEF Base
<1> HIDE DEF new
<1>3. Hashed => Hashes(new) BY <1>1, <1>2 DEF Hashed, Hashes
<1>4. QED BY <1>1, <1>2, <1>3, QuietSafe DEF Base, Typed

(* One that has failed, or was given up on.                                *)
LEMMA GivesUpSafe == ASSUME Base, NEW f \in Fetches, GivesUp(f), UNCHANGED screens PROVE Safe
<1>1. /\ Going(f) /\ fetches[f] # Unused /\ fetches' = [fetches EXCEPT ![f] = Ended(f, TRUE)]
      /\ UNCHANGED <<hub, contents, part, final, manifest, library>>
  BY DEF GivesUp, Failed, Going, Disk
<1>2. /\ Ended(f, TRUE) \in Fetching /\ Ended(f, TRUE).step = "ended"
      /\ Ended(f, TRUE).by = fetches[f].by /\ Ended(f, TRUE).watched = fetches[f].watched
  BY <1>1, EndedIsFetch DEF Base
<1>3. Hashes(Ended(f, TRUE)) BY <1>2 DEF Hashes
<1>4. QED BY <1>1, <1>2, <1>3, QuietSafe DEF Base, Typed

LEMMA RecordSafe == ASSUME Base, NEW f \in Fetches, Record(f), UNCHANGED screens PROVE Safe
<1> DEFINE new == Stepped(f, "say")
<1>1. /\ fetches[f] # Unused /\ Going(f) /\ To(f, "say") /\ manifest' = fetches[f].at
      /\ UNCHANGED <<hub, contents, part, final, library>>
  BY DEF Record, On, Going
<1>2. /\ new \in Fetching /\ new.step = "say" /\ new.by = fetches[f].by
      /\ new.watched = fetches[f].watched /\ fetches' = [fetches EXCEPT ![f] = new]
  BY <1>1, StepIsFetch DEF Base
<1> HIDE DEF new
<1>3. Hashes(new) BY <1>2 DEF Hashes
<1>4. manifest' \in Nat BY <1>1, UsedIsFetch DEF Base, Fetching
<1>5. QED BY <1>1, <1>2, <1>3, <1>4, QuietSafe DEF Base, Typed

LEMMA ModelIsSeq ==
  /\ Model \in Seq(Nat) /\ Len(Model) = Size /\ \A n \in 1..Size : Model[n] = n
<1>1. Size \in Nat BY DownloadsAssumption
<1>2. Model \in [1..Size -> Nat] BY <1>1 DEF Model
<1>3. Model \in Seq(Nat) /\ Len(Model) = Size BY <1>1, <1>2, LenProperties
<1>4. QED BY <1>3 DEF Model

(* As much as the model is all of it.                                      *)
LEMMA WholeIsModel ==
  ASSUME NEW s \in Seq(Nat), Begins(s), Len(s) = Size
  PROVE  s = Model
<1>1. \A i \in 1..Len(s) : s[i] = Model[i] BY ModelIsSeq DEF Begins
<1>2. QED BY <1>1, ModelIsSeq, SeqEqual

LEMMA VerifySafe == ASSUME Base, NEW f \in Fetches, Verify(f), UNCHANGED screens PROVE Safe
<1>1. /\ fetches[f] # Unused /\ fetches[f].step = "verify" /\ Going(f)
      /\ UNCHANGED <<hub, contents, final, manifest, library>>
  BY DEF Verify, On, Going
<1>2. fetches[f] \in Fetching BY <1>1, UsedIsFetch DEF Base
<1>3. CASE Vouched(f)
  <2> DEFINE new == Stepped(f, "rename")
  <2>1. To(f, "rename") /\ UNCHANGED part BY <1>3 DEF Verify
  <2>2. /\ new \in Fetching /\ new.step = "rename" /\ new.by = fetches[f].by
        /\ new.watched = fetches[f].watched /\ new.at = fetches[f].at
        /\ new.sent = fetches[f].sent /\ new.seen = fetches[f].seen
        /\ new.file = fetches[f].file /\ fetches' = [fetches EXCEPT ![f] = new]
    BY <1>1, <2>1, StepIsFetch DEF Base
  <2> HIDE DEF new
  <2>3. Hashed => Hashes(new) BY <1>1, <2>2 DEF Hashed, Hashes
  <2>4. ASSUME Hashed, Kept PROVE Whole(new.seen)
    <3>1. CASE hub.vouches BY <1>3, <2>2, <3>1 DEF Vouched, Whole
    <3>2. CASE ~hub.vouches /\ ~hub.measures BY <3>2 DEF Whole
    <3>3. CASE ~hub.vouches /\ hub.measures
      <4>1. /\ fetches[f].file \in Files /\ part = fetches[f].file
            /\ fetches[f].seen = contents[part] /\ Len(contents[part]) = Size
        BY <1>1, <2>4, <3>3 DEF Hashed, Hashes
      <4>2. part # NoFile /\ contents[part] \in Seq(Nat) BY <4>1, Numbers DEF Base, Typed
      <4>3. Begins(contents[part]) BY <2>4, <3>3, <4>2 DEF Kept
      <4>4. QED BY <2>2, <4>1, <4>2, <4>3, WholeIsModel DEF Whole
    <3>4. QED BY <3>1, <3>2, <3>3
  <2>5. QED BY <1>1, <2>1, <2>2, <2>3, <2>4, QuietSafe DEF Base, Typed
<1>4. CASE ~Vouched(f)
  <2> DEFINE new == Ended(f, TRUE)
  <2>1. fetches' = [fetches EXCEPT ![f] = new] /\ part' = NoFile BY <1>4 DEF Verify
  <2>2. /\ new \in Fetching /\ new.step = "ended" /\ new.by = fetches[f].by
        /\ new.watched = fetches[f].watched
    BY <1>1, EndedIsFetch DEF Base
  <2> HIDE DEF new
  <2>3. Base' /\ (Alone => Alone') BY <1>1, <2>1, <2>2, WorkBase DEF Base, Typed
  <2>4. Alone /\ One => Hashed' BY <1>1, <2>1, <2>2, WorkHashed DEF Hashes
  <2>5. \A g \in Fetches : fetches'[g] = IF g = f THEN new ELSE fetches[g]
    BY <2>1, <2>2, OneFetch DEF Base
  <2>6. new # Unused BY <2>2, FetchIsSome
  <2>7. ASSUME Kept PROVE Kept'
    <3>1. \A g \in Fetches : fetches'[g] = Unused \/ fetches'[g].step \in {"begin", "ask"} =>
            g \notin {part', final'}
      BY <1>1, <2>1, <2>2, <2>5, <2>6, <2>7, Numbers DEF Kept
    <3>2. \A g \in Fetches : On(g, "rename")' => Whole(fetches[g].seen)'
      BY <1>1, <2>2, <2>5, <2>7 DEF Kept, On, Whole
    <3>3. QED BY <1>1, <2>1, <2>7, <3>1, <3>2 DEF Kept, Whole
  <2>8. QED BY <2>3, <2>4, <2>7 DEF Safe
<1>5. QED BY <1>3, <1>4

(* The part is put in place: what its hash said is what is there.          *)
LEMMA RenameSafe == ASSUME Base, NEW f \in Fetches, Rename(f), UNCHANGED screens PROVE Safe
<1> DEFINE new == Stepped(f, "record")
<1>1. /\ fetches[f] # Unused /\ fetches[f].step = "rename" /\ Going(f) /\ To(f, "record")
      /\ part # NoFile /\ final' = part /\ part' = NoFile
      /\ UNCHANGED <<hub, contents, manifest, library>>
  BY DEF Rename, On, Going
<1>2. /\ new \in Fetching /\ new.step = "record" /\ new.by = fetches[f].by
      /\ new.watched = fetches[f].watched /\ fetches' = [fetches EXCEPT ![f] = new]
  BY <1>1, StepIsFetch DEF Base
<1> HIDE DEF new
<1>3. Base' /\ (Alone => Alone') BY <1>1, <1>2, WorkBase DEF Base, Typed
<1>4. Alone /\ One => Hashed' BY <1>1, <1>2, WorkHashed DEF Hashes
<1>5. \A g \in Fetches : fetches'[g] = IF g = f THEN new ELSE fetches[g]
  BY <1>2, OneFetch DEF Base
<1>6. new # Unused BY <1>2, FetchIsSome
<1>7. ASSUME Hashed, Kept PROVE Kept'
  <2>1. Whole(contents[part])
    BY <1>1, <1>7 DEF Hashed, Hashes, Kept, On
  <2>2. \A g \in Fetches : fetches'[g] = Unused \/ fetches'[g].step \in {"begin", "ask"} =>
          g \notin {part', final'}
    BY <1>1, <1>2, <1>5, <1>6, <1>7, Numbers DEF Kept
  <2>3. \A g \in Fetches : On(g, "rename")' => Whole(fetches[g].seen)'
    BY <1>1, <1>2, <1>5, <1>7 DEF Kept, On, Whole
  <2>4. QED BY <1>1, <2>1, <2>2, <2>3 DEF Kept, Whole
<1>8. QED BY <1>3, <1>4, <1>7 DEF Safe

(* The part is opened where the download asked to carry on, or from the    *)
(* start; a new one is under the number of its download.                   *)
LEMMA OpenSafe == ASSUME Base, NEW f \in Fetches, Open(f), UNCHANGED screens PROVE Safe
<1> DEFINE file == IF part = NoFile THEN f ELSE part
           sent == IF hub.ranges THEN fetches[f].from ELSE 0
           next == [fetches[f] EXCEPT !.step = "rehash", !.file = file, !.from = From(f),
                                      !.at = From(f), !.sent = sent]
<1>1. /\ fetches[f] # Unused /\ fetches[f].step = "ask" /\ Going(f)
      /\ hub.ranges => fetches[f].from < Size
      /\ part' = file
      /\ contents' = IF From(f) = 0 THEN [contents EXCEPT ![file] = <<>>] ELSE contents
      /\ UNCHANGED <<hub, final, manifest, library>>
  BY DEF Open, On, Going
<1>2. fetches' = [fetches EXCEPT ![f] = next] BY DEF Open
<1>3. fetches[f] \in Fetching BY <1>1, UsedIsFetch DEF Base
<1>4. /\ fetches[f].from \in Nat /\ From(f) = sent /\ From(f) \in Nat /\ sent \in 0..Size
  <2>1. fetches[f].from \in Nat BY <1>3 DEF Fetching
  <2>2. QED BY <1>1, <2>1, DownloadsAssumption DEF From
<1>5. file \in Files BY Numbers DEF Base, Typed
<1> HIDE DEF file, sent
<1>6. PICK new \in Fetching :
        /\ fetches' = [fetches EXCEPT ![f] = new] /\ new.step = "rehash"
        /\ new.by = fetches[f].by /\ new.watched = fetches[f].watched /\ new.file = file
        /\ new.from = From(f) /\ new.at = From(f) /\ new.sent = sent
  <2> DEFINE start == [fetches[f] EXCEPT !.step = "rehash", !.file = file]
  <2>1. /\ start \in Fetching /\ start.step = "rehash" /\ start.by = fetches[f].by
        /\ start.watched = fetches[f].watched /\ start.file = file
    BY <1>3, <1>5 DEF Fetching
  <2>2. next = [start EXCEPT !.from = From(f), !.at = From(f), !.sent = sent] OBVIOUS
  <2> HIDE DEF start, next
  <2>3. /\ next \in Fetching /\ next.step = "rehash"
        /\ next.by = fetches[f].by /\ next.watched = fetches[f].watched /\ next.file = file
        /\ next.from = From(f) /\ next.at = From(f) /\ next.sent = sent
    BY <1>4, <2>1, <2>2 DEF Fetching
  <2>4. QED BY <1>2, <2>3
<1> HIDE DEF next
<1>7. /\ contents' \in [Files -> Seq(Nat)]
      /\ contents'[file] = IF From(f) = 0 THEN <<>> ELSE contents[file]
      /\ \A g \in Files : g # file => contents'[g] = contents[g]
  BY <1>1, <1>5 DEF Base, Typed
<1>8. Base' /\ (Alone => Alone')
  BY <1>1, <1>5, <1>6, <1>7, WorkBase DEF Base, Typed
<1>9. ASSUME Hashed PROVE Len(contents'[file]) = From(f)
  <2>1. CASE From(f) = 0 BY <1>7, <2>1
  <2>2. CASE From(f) # 0
    <3>1. From(f) = fetches[f].from BY <2>2 DEF From
    <3>2. fetches[f].from = IF part = NoFile THEN 0 ELSE Len(contents[part])
      BY <1>1, <1>9 DEF Hashed, Hashes
    <3>3. file = part BY <2>2, <3>1, <3>2 DEF file
    <3>4. QED BY <1>7, <2>2, <3>1, <3>2, <3>3
  <2>3. QED BY <2>1, <2>2
<1>10. ASSUME Alone, One, Hashed PROVE Hashed'
  <2>1. Hashes(new)' BY <1>1, <1>4, <1>5, <1>6, <1>9, <1>10 DEF Hashes
  <2>2. QED BY <1>1, <1>6, <1>10, <2>1, WorkHashed
<1>11. \A g \in Fetches : fetches'[g] = IF g = f THEN new ELSE fetches[g]
  BY <1>6, OneFetch DEF Base
<1>12. new # Unused BY <1>6, FetchIsSome
<1>13. ASSUME Hashed, Kept PROVE Kept'
  <2>1. final # NoFile => file # final BY <1>1, <1>13 DEF Kept, file
  <2>2. final' # NoFile => Whole(contents[final])' /\ part' # final'
    BY <1>1, <1>7, <1>13, <2>1 DEF Kept, Base, Typed, Whole
  <2>3. ASSUME ~hub.vouches PROVE Begins(contents'[file])
    <3>1. CASE From(f) = 0
      <4>1. contents'[file] = <<>> BY <1>7, <3>1
      <4>2. QED BY <4>1, DownloadsAssumption DEF Begins
    <3>2. CASE From(f) # 0
      <4>1. part # NoFile BY <1>1, <1>13, <3>2 DEF From, Hashed, Hashes
      <4>2. QED BY <1>7, <1>13, <2>3, <3>2, <4>1 DEF Kept, file
    <3>3. QED BY <3>1, <3>2
  <2>4. ~hub'.vouches /\ part' # NoFile => Begins(contents[part])'
    BY <1>1, <2>3 DEF Begins
  <2>5. \A g \in Fetches : fetches'[g] = Unused \/ fetches'[g].step \in {"begin", "ask"} =>
          g # f /\ g \notin {part, final}
    BY <1>6, <1>11, <1>12, <1>13 DEF Kept
  <2>6. \A g \in Fetches : fetches'[g] = Unused \/ fetches'[g].step \in {"begin", "ask"} =>
          g \notin {part', final'}
    BY <1>1, <2>5 DEF file
  <2>7. \A g \in Fetches : On(g, "rename")' => Whole(fetches[g].seen)'
    BY <1>1, <1>6, <1>11, <1>13 DEF Kept, On, Whole
  <2>8. QED BY <2>2, <2>4, <2>6, <2>7 DEF Kept
<1>14. QED BY <1>8, <1>10, <1>13 DEF Safe

(* A write is to the end, wherever the download is.                        *)
LEMMA WrittenIsSeq ==
  ASSUME NEW f \in Fetches, NEW s \in Seq(Nat), NEW chunk \in Nat, fetches[f].at \in Nat
  PROVE  /\ Written(s, f, chunk) \in Seq(Nat)
         /\ fetches[f].at = Len(s) => Written(s, f, chunk) = Append(s, chunk)
<1> DEFINE at == fetches[f].at
           k == IF Len(s) > at THEN Len(s) ELSE at + 1
           w == [n \in 1..k |-> IF n = at + 1 THEN chunk ELSE IF n =< Len(s) THEN s[n] ELSE Strange]
<1>1. Append(s, chunk) \in Seq(Nat) BY AppendProperties
<1>2. CASE fetches[f].from > 0 BY <1>1, <1>2 DEF Written
<1>3. CASE ~(fetches[f].from > 0)
  <2>1. Written(s, f, chunk) = w BY <1>3 DEF Written
  <2>2. Len(s) \in Nat /\ \A n \in 1..Len(s) : s[n] \in Nat BY LenProperties
  <2>3. k \in Nat BY <2>2
  <2>4. \A n \in 1..k : w[n] \in Nat BY <2>2, <2>3 DEF Strange
  <2>5. w \in [1..k -> Nat] BY <2>4
  <2>6. w \in Seq(Nat) /\ Len(w) = k
    <3> HIDE DEF w, k
    <3>1. QED BY <2>3, <2>5, LenProperties
  <2>7. ASSUME at = Len(s) PROVE w = Append(s, chunk)
    <3>1. k = Len(s) + 1 BY <2>2, <2>7
    <3>2. Len(Append(s, chunk)) = Len(s) + 1 /\ \A i \in 1..Len(s) : Append(s, chunk)[i] = s[i]
          /\ Append(s, chunk)[Len(s) + 1] = chunk
      BY AppendProperties
    <3>3. \A i \in 1..Len(w) : w[i] = Append(s, chunk)[i] BY <2>2, <2>6, <2>7, <3>1, <3>2
    <3> HIDE DEF w, k
    <3>4. QED BY <1>1, <2>6, <3>1, <3>2, <3>3, SeqEqual
  <2>8. QED BY <2>1, <2>6, <2>7
<1>4. QED BY <1>2, <1>3

LEMMA ChunkSafe == ASSUME Base, NEW f \in Fetches, Chunk(f), UNCHANGED screens PROVE Safe
<1> DEFINE fetch == fetches[f]
           chunk == fetch.sent + 1
           was == contents[fetch.file]
<1> PICK step \in {"read", "tell"} :
      fetches' = [fetches EXCEPT ![f].at = @ + 1, ![f].sent = chunk,
                                 ![f].step = step, ![f].seen = Append(@, chunk)]
  BY DEF Chunk
<1> DEFINE next == [fetch EXCEPT !.at = @ + 1, !.sent = chunk, !.step = step,
                                 !.seen = Append(@, chunk)]
<1>1. /\ fetch # Unused /\ fetch.step = "read" /\ Going(f) /\ fetch.sent < Size
      /\ contents' = [contents EXCEPT ![fetch.file] = Written(@, f, chunk)]
      /\ UNCHANGED <<hub, part, final, manifest, library>>
  BY DEF Chunk, On, Going
<1>2. fetches' = [fetches EXCEPT ![f] = next] OBVIOUS
<1>3. fetch \in Fetching BY <1>1, UsedIsFetch DEF Base
<1>4. /\ fetch.file \in Files /\ fetch.at \in Nat /\ fetch.sent \in 0..Size
      /\ fetch.seen \in Seq(Nat)
  BY <1>1, <1>3 DEF Fetching
<1>5. chunk \in Nat /\ chunk \in 0..Size /\ was \in Seq(Nat)
  BY <1>1, <1>4, DownloadsAssumption, SMTT(30) DEF Base, Typed
<1>6. Append(fetch.seen, chunk) \in Seq(Nat) BY <1>4, <1>5, AppendProperties
<1> HIDE DEF chunk
<1>7. PICK new \in Fetching :
        /\ fetches' = [fetches EXCEPT ![f] = new] /\ new.step = step
        /\ new.by = fetch.by /\ new.watched = fetch.watched /\ new.file = fetch.file
        /\ new.at = fetch.at + 1 /\ new.sent = chunk /\ new.seen = Append(fetch.seen, chunk)
  <2> DEFINE at == fetch.at + 1
             told == [fetch EXCEPT !.at = at, !.sent = chunk]
  <2>1. next = [told EXCEPT !.step = step, !.seen = Append(fetch.seen, chunk)]
    BY <1>3 DEF Fetching
  <2>0. at \in Nat BY <1>4
  <2> HIDE DEF fetch, at
  <2>2. /\ told \in Fetching /\ told.step = fetch.step /\ told.by = fetch.by
        /\ told.watched = fetch.watched /\ told.file = fetch.file
        /\ told.at = at /\ told.sent = chunk
    BY <1>3, <1>5, <2>0 DEF Fetching
  <2> HIDE DEF told, next
  <2>3. /\ next \in Fetching /\ next.step = step
        /\ next.by = fetch.by /\ next.watched = fetch.watched /\ next.file = fetch.file
        /\ next.at = at /\ next.sent = chunk /\ next.seen = Append(fetch.seen, chunk)
    BY <1>4, <1>6, <2>1, <2>2 DEF Fetching
  <2>4. QED BY <1>2, <2>3 DEF fetch, at
<1> HIDE DEF next
<1>8. Written(was, f, chunk) \in Seq(Nat) BY <1>4, <1>5, WrittenIsSeq
<1>9. /\ contents' \in [Files -> Seq(Nat)] /\ contents'[fetch.file] = Written(was, f, chunk)
      /\ \A g \in Files : g # fetch.file => contents'[g] = contents[g]
  BY <1>1, <1>4, <1>8 DEF Base, Typed
<1>10. Base' /\ (Alone => Alone')
  BY <1>1, <1>7, <1>9, WorkBase DEF Base, Typed
<1>11. ASSUME Hashed
       PROVE  /\ part = fetch.file /\ fetch.at = fetch.sent /\ fetch.seen = was
              /\ Len(was) = fetch.at /\ contents'[fetch.file] = Append(was, chunk)
              /\ Len(Append(was, chunk)) = chunk
  <2>1. /\ part = fetch.file /\ fetch.at = fetch.sent /\ fetch.seen = was
        /\ Len(was) = fetch.at
    BY <1>1, <1>11 DEF Hashed, Hashes
  <2>2. Written(was, f, chunk) = Append(was, chunk)
    BY <1>4, <1>5, <2>1, WrittenIsSeq
  <2>3. Len(Append(was, chunk)) = Len(was) + 1 BY <1>5, AppendProperties
  <2>4. QED BY <1>9, <2>1, <2>2, <2>3 DEF chunk
<1>12. ASSUME Alone, One, Hashed PROVE Hashed'
  <2>1. Hashes(new)'
    BY <1>1, <1>4, <1>7, <1>11, <1>12, SMTT(30) DEF Hashes, chunk
  <2>2. QED BY <1>1, <1>7, <1>12, <2>1, WorkHashed
<1>13. \A g \in Fetches : fetches'[g] = IF g = f THEN new ELSE fetches[g]
  BY <1>7, OneFetch DEF Base
<1>14. new # Unused BY <1>7, FetchIsSome
<1>15. ASSUME Hashed, Kept PROVE Kept'
  <2>1. final' # NoFile => Whole(contents[final])' /\ part' # final'
    BY <1>1, <1>9, <1>11, <1>15 DEF Kept, Base, Typed, Whole
  <2>2. ASSUME ~hub.vouches PROVE Begins(Append(was, chunk))
    <3>1. Begins(was) BY <1>4, <1>11, <1>15, <2>2, Numbers DEF Kept
    <3>2. /\ \A i \in 1..Len(was) : Append(was, chunk)[i] = was[i]
          /\ Append(was, chunk)[Len(was) + 1] = chunk
          /\ Len(was) + 1 = chunk /\ Len(was) \in Nat
      BY <1>4, <1>5, <1>11, <1>15, AppendProperties DEF chunk
    <3> HIDE DEF was
    <3>3. \A n \in 1..chunk : n \in 1..Len(was) \/ n = chunk BY <1>5, <3>2
    <3>4. \A n \in 1..chunk : Append(was, chunk)[n] = n BY <3>1, <3>2, <3>3 DEF Begins
    <3>5. QED BY <1>5, <1>11, <1>15, <3>4 DEF Begins, was
  <2>3. ~hub'.vouches /\ part' # NoFile => Begins(contents[part])'
    BY <1>1, <1>11, <1>15, <2>2 DEF Begins
  <2>4. \A g \in Fetches : fetches'[g] = Unused \/ fetches'[g].step \in {"begin", "ask"} =>
          g \notin {part', final'}
    BY <1>1, <1>7, <1>13, <1>14, <1>15 DEF Kept
  <2>5. \A g \in Fetches : On(g, "rename")' => Whole(fetches[g].seen)'
    BY <1>1, <1>7, <1>13, <1>15 DEF Kept, On, Whole
  <2>6. QED BY <2>1, <2>3, <2>4, <2>5 DEF Kept
<1>16. QED BY <1>10, <1>12, <1>15 DEF Safe

LEMMA WorkSafe == ASSUME Base, NEW f \in Fetches, Work(f) PROVE Safe
BY InstallSafe, ResumeAtSafe, OpenSafe, RehashSafe, ChunkSafe, EndOfBodySafe, VerifySafe,
   RenameSafe, RecordSafe, GivesUpSafe DEF Work

LEMMA OneScreen ==
  ASSUME Typed, NEW p \in Programs, NEW s \in Screen, screens' = [screens EXCEPT ![p] = s]
  PROVE  /\ screens' \in [Programs -> Screen]
         /\ \A q \in Programs : screens'[q] = IF q = p THEN s ELSE screens[q]
BY DEF Typed

\* Two screens that say alike what they wait for.
Alike(s, was) == s.token = was.token /\ s.busy = was.busy /\ s.anyway = was.anyway

LEMMA ReadIsScreen ==
  ASSUME Typed, NEW s \in Screen
  PROVE  Read(s) \in Screen /\ Alike(Read(s), s) /\ Read(s).pending = s.pending
<1>1. Has \in BOOLEAN BY DEF Has
<1>2. library \in BOOLEAN BY DEF Typed
<1>3. QED BY <1>1, <1>2 DEF Read, Screen, Alike

(* A screen shows another thing, and nothing begins: a download may be     *)
(* given up on, and, where none goes on, its files be taken away.          *)
LEMMA ScreenSafe ==
  ASSUME Base, NEW p \in Programs, NEW s \in Screen, screens' = [screens EXCEPT ![p] = s],
         s.token = screens[p].token, s.busy = screens[p].busy,
         Alone /\ ~Overlaps /\ s.anyway => ~s.busy,
         fetches' \in [Fetches -> Fetching \cup {Unused}],
         \A f \in Fetches :
           \/ fetches'[f] = fetches[f]
           \/ fetches[f] # Unused /\ fetches'[f] = [fetches[f] EXCEPT !.over = TRUE],
         UNCHANGED <<hub, contents>>, library' \in BOOLEAN, manifest' \in Nat,
         part' \in {part, NoFile}, final' \in {final, NoFile},
         part' = part \/ Overlaps \/ ~screens[p].busy
  PROVE  Safe
<1>1. /\ screens' \in [Programs -> Screen]
      /\ \A q \in Programs : screens'[q] = IF q = p THEN s ELSE screens[q]
  BY OneScreen DEF Base
<1>2. ASSUME NEW f \in Fetches
      PROVE  /\ fetches'[f] = Unused <=> fetches[f] = Unused
             /\ fetches[f] # Unused =>
                  /\ fetches'[f].by = fetches[f].by /\ fetches'[f].watched = fetches[f].watched
                  /\ fetches'[f].step = fetches[f].step /\ fetches'[f].from = fetches[f].from
                  /\ fetches'[f].at = fetches[f].at /\ fetches'[f].sent = fetches[f].sent
                  /\ fetches'[f].seen = fetches[f].seen /\ fetches'[f].file = fetches[f].file
  <2>1. CASE fetches'[f] = fetches[f] BY <2>1
  <2>2. CASE fetches[f] # Unused /\ fetches'[f] = [fetches[f] EXCEPT !.over = TRUE]
    <3>1. fetches[f] \in Fetching BY <2>2, UsedIsFetch DEF Base
    <3>2. fetches'[f] \in Fetching BY <2>2, <3>1 DEF Fetching
    <3>3. QED BY <2>2, <3>1, <3>2, FetchIsSome DEF Fetching
  <2>3. QED BY <2>1, <2>2
<1>3. Typed' BY <1>1 DEF Base, Typed
<1>4. \A f \in Fetches : /\ Watched(f)' <=> Watched(f)
                         /\ Going(f)' <=> Going(f)
  BY <1>2 DEF Watched, Going
<1>5. \A q \in Programs : screens'[q].token = screens[q].token
                          /\ screens'[q].busy = screens[q].busy
  BY <1>1
<1>6. Waited'
  <2>1. ASSUME NEW q \in Programs, screens'[q].busy
        PROVE  /\ screens'[q].token \in Fetches /\ Watched(screens[q].token)'
               /\ fetches'[screens'[q].token].by = q
    <3>1. /\ screens[q].token \in Fetches /\ Watched(screens[q].token)
          /\ fetches[screens[q].token].by = q
      BY <1>5, <2>1 DEF Base, Waited
    <3>2. fetches[screens[q].token] # Unused BY <3>1 DEF Watched
    <3>3. QED BY <1>2, <1>5, <3>1, <3>2 DEF Watched
  <2>2. QED BY <2>1 DEF Waited
<1>7. ASSUME Alone, ~Overlaps PROVE Alone'
  <2>1. \A q \in Programs : screens'[q].anyway => ~screens'[q].busy
    BY <1>1, <1>7 DEF Alone
  <2>2. ASSUME NEW f \in Fetches, Watched(f)
        PROVE  screens'[fetches'[f].by].busy /\ Ours(f)'
    <3>1. fetches[f] # Unused BY <2>2 DEF Watched
    <3>2. fetches[f].by \in Programs BY <3>1, UsedIsFetch DEF Base, Fetching
    <3>3. QED BY <1>2, <1>5, <1>7, <2>2, <3>1, <3>2 DEF Alone, Ours
  <2>3. QED BY <1>4, <1>7, <2>1, <2>2 DEF Alone
<1>8. ASSUME Alone, ~Overlaps, One, Hashed PROVE Hashed'
  <2> SUFFICES ASSUME NEW f \in Fetches, fetches[f] # Unused PROVE Hashes(fetches[f])'
    BY <1>2 DEF Hashed
  <2>1. CASE part' = part
    <3>1. Hashes(fetches[f]) BY <1>8 DEF Hashed
    <3>2. QED BY <1>2, <2>1, <3>1 DEF Hashes
  <2>2. CASE ~screens[p].busy
    <3>1. ~Going(f) BY <1>8, <2>2, NoneGoes
    <3>2. fetches'[f].step \in {"ended", "gone"} BY <1>2, <3>1 DEF Going
    <3>3. QED BY <3>2 DEF Hashes
  <2>3. QED BY <1>8, <2>1, <2>2
<1>9. ASSUME Kept PROVE Kept'
  <2>1. \A f \in Fetches : fetches'[f] = Unused \/ fetches'[f].step \in {"begin", "ask"} =>
          f \notin {part', final'}
    BY <1>2, <1>9, Numbers DEF Kept
  <2>2. \A f \in Fetches : On(f, "rename")' => Whole(fetches[f].seen)'
    BY <1>2, <1>9 DEF Kept, On, Whole
  <2>3. ~hub'.vouches /\ part' # NoFile => Begins(contents[part])'
    BY <1>9 DEF Kept, Begins
  <2>4. final' # NoFile => Whole(contents[final])' /\ part' # final' BY <1>9 DEF Kept, Whole
  <2>5. QED BY <2>1, <2>2, <2>3, <2>4 DEF Kept
<1>10. QED BY <1>3, <1>6, <1>7, <1>8, <1>9 DEF Safe, Base

(* A download begins, for a screen that waits for it from then on.  The    *)
(* one it follows on may have been heard of in the same step.              *)
LEMMA StartSafe ==
  ASSUME Base, NEW p \in Programs, NEW job \in {"library", "model"}, NEW begun,
         begun \in [Fetches -> Fetching \cup {Unused}],
         \A g \in Fetches :
           \/ begun[g] = fetches[g]
           \/ /\ fetches[g] # Unused /\ begun[g] # Unused /\ fetches[g].by = p
              /\ begun[g].step = "ended" /\ ~begun[g].watched,
         NEW s \in Screen, Starting(p, job, begun, s),
         Alone /\ ~Overlaps => ~s.anyway,
         Alone /\ ~Overlaps => \A g \in Fetches :
           begun[g] # Unused /\ begun[g].watched => begun[g].by # p,
         UNCHANGED <<Disk, library>>
  PROVE  Safe
<1>1. UNCHANGED <<hub, contents, part, final, manifest>> BY DEF Disk
<1> PICK f \in Fetches \ Used :
      /\ fetches' = [begun EXCEPT ![f] = Fresh(p, job)]
      /\ screens' = [screens EXCEPT ![p] = [s EXCEPT !.token = f, !.busy = TRUE]]
  BY DEF Starting
<1> DEFINE now == [s EXCEPT !.token = f, !.busy = TRUE]
<1>2. f \in Fetches /\ fetches[f] = Unused /\ begun[f] = Unused BY DEF Used
<1>3. /\ Fresh(p, job) \in Fetching /\ Fresh(p, job).step = "begin"
      /\ Fresh(p, job).watched /\ Fresh(p, job).by = p /\ Fresh(p, job) # Unused
  BY FreshIsFetch, FetchIsSome
<1>4. now \in Screen /\ now.token = f /\ now.busy /\ now.anyway = s.anyway
  <2>1. f \in 0..MaxFetches BY <1>2, DownloadsAssumption DEF Fetches
  <2>2. QED BY <2>1 DEF Screen
<1> HIDE DEF now
<1>5. /\ screens' \in [Programs -> Screen]
      /\ \A q \in Programs : screens'[q] = IF q = p THEN now ELSE screens[q]
  BY <1>4, OneScreen DEF Base, now
<1>6. /\ fetches' \in [Fetches -> Fetching \cup {Unused}]
      /\ \A g \in Fetches : fetches'[g] = IF g = f THEN Fresh(p, job) ELSE begun[g]
  BY <1>2, <1>3
<1>7. Typed' BY <1>1, <1>5, <1>6 DEF Base, Typed
<1>8. Waited'
  <2>1. ASSUME NEW q \in Programs, screens'[q].busy
        PROVE  /\ screens'[q].token \in Fetches /\ Watched(screens[q].token)'
               /\ fetches'[screens'[q].token].by = q
    <3>1. CASE q = p BY <1>2, <1>3, <1>4, <1>5, <1>6, <3>1 DEF Watched
    <3>2. CASE q # p
      <4>1. screens'[q] = screens[q] BY <1>5, <3>2
      <4>2. /\ screens[q].token \in Fetches /\ Watched(screens[q].token)
            /\ fetches[screens[q].token].by = q
        BY <2>1, <4>1 DEF Base, Waited
      <4>3. screens[q].token # f /\ begun[screens[q].token] = fetches[screens[q].token]
        BY <1>2, <3>2, <4>2 DEF Watched
      <4>4. fetches'[screens[q].token] = fetches[screens[q].token] BY <1>6, <4>2, <4>3
      <4>5. QED BY <4>1, <4>2, <4>4 DEF Watched
    <3>3. QED BY <3>1, <3>2
  <2>2. QED BY <2>1 DEF Waited
<1>9. ASSUME Alone, ~Overlaps PROVE Alone'
  <2>1. \A q \in Programs : screens'[q].anyway => ~screens'[q].busy
    BY <1>4, <1>5, <1>9 DEF Alone
  <2>2. ASSUME NEW g \in Fetches
        PROVE  /\ Going(g)' => Watched(g)'
               /\ Watched(g)' => screens'[fetches'[g].by].busy /\ Ours(g)'
    <3>1. CASE g = f BY <1>3, <1>4, <1>5, <1>6, <3>1 DEF Watched, Going, Ours
    <3>2. CASE g # f /\ begun[g] # Unused
      <4>1. fetches'[g] = begun[g] /\ begun[g] \in Fetching BY <1>6, <3>2
      <4>2. CASE begun[g] = fetches[g]
        <5>1. Going(g) => Watched(g) BY <1>9 DEF Alone
        <5>2. Watched(g) => screens[fetches[g].by].busy /\ Ours(g) BY <1>9 DEF Alone
        <5>3. Watched(g) => fetches[g].by # p BY <1>9, <3>2, <4>2 DEF Watched
        <5>4. fetches[g].by \in Programs BY <4>1, <4>2 DEF Fetching
        <5>5. fetches[g].by # p => screens'[fetches[g].by] = screens[fetches[g].by]
          BY <1>5, <5>4
        <5>6. QED BY <4>1, <4>2, <5>1, <5>2, <5>3, <5>5 DEF Watched, Going, Ours
      <4>3. CASE begun[g].step = "ended" /\ ~begun[g].watched
        BY <4>1, <4>3 DEF Watched, Going
      <4>4. QED BY <4>2, <4>3
    <3>3. CASE g # f /\ begun[g] = Unused BY <1>6, <3>3 DEF Watched, Going
    <3>4. QED BY <3>1, <3>2, <3>3
  <2>3. QED BY <2>1, <2>2 DEF Alone
<1>10. ASSUME Alone, ~Overlaps, One PROVE Hashed'
  <2> SUFFICES ASSUME NEW g \in Fetches, fetches'[g] # Unused PROVE Hashes(fetches[g])'
    BY DEF Hashed
  <2>1. fetches'[g].step \in {"begin", "ended", "gone"}
    <3>1. CASE g = f BY <1>3, <1>6, <3>1
    <3>2. CASE g # f
      <4>1. fetches'[g] = begun[g] /\ begun[g] \in Fetching BY <1>6, <3>2
      <4>2. begun[g].by = p BY <4>1, <1>10 DEF One, Fetching
      <4>3. ~begun[g].watched BY <1>10, <4>1, <4>2, FetchIsSome
      <4>4. CASE begun[g] = fetches[g]
        <5>1. ~Going(g) BY <1>10, <4>3, <4>4 DEF Alone, Watched
        <5>2. QED BY <4>1, <4>4, <5>1, FetchIsSome DEF Going
      <4>5. QED BY <4>1, <4>4
    <3>3. QED BY <3>1, <3>2
  <2>2. QED BY <2>1 DEF Hashes
<1>11. ASSUME Kept PROVE Kept'
  <2>1. \A g \in Fetches : fetches'[g] = Unused \/ fetches'[g].step \in {"begin", "ask"} =>
          fetches[g] = Unused \/ fetches[g].step \in {"begin", "ask"}
    BY <1>2, <1>6
  <2>2. \A g \in Fetches : On(g, "rename")' => Whole(fetches[g].seen)'
    BY <1>1, <1>2, <1>3, <1>6, <1>11 DEF Kept, On, Whole
  <2>3. QED BY <1>1, <1>11, <2>1, <2>2 DEF Kept, Begins, Whole
<1>12. QED BY <1>7, <1>8, <1>9, <1>10, <1>11 DEF Safe, Base

(* A model is asked for, on a screen that shows nothing arriving.          *)
LEMMA AsksSafe ==
  ASSUME Base, NEW p \in Programs, NEW job \in {"library", "model"}, NEW s \in Screen,
         Start(p, job, s), Alone /\ ~Overlaps => ~s.anyway /\ ~screens[p].busy,
         UNCHANGED <<Disk, library>>
  PROVE  Safe
<1>1. Starting(p, job, fetches, s) BY DEF Start
<1>2. ASSUME Alone, ~Overlaps, NEW g \in Fetches, fetches[g] # Unused, fetches[g].watched
      PROVE  fetches[g].by # p
  BY <1>2 DEF Alone, Watched
<1>3. fetches \in [Fetches -> Fetching \cup {Unused}] BY DEF Base, Typed
<1>4. QED BY <1>1, <1>2, <1>3, StartSafe

LEMMA ShowsSafe ==
  ASSUME Base, NEW p \in Programs, NEW s \in Screen, screens' = [screens EXCEPT ![p] = s],
         s.token = screens[p].token, s.busy = screens[p].busy,
         Alone /\ ~Overlaps /\ s.anyway => ~s.busy,
         library' \in BOOLEAN, UNCHANGED <<Disk, fetches>>
  PROVE  Safe
<1>1. UNCHANGED <<hub, contents, part, final, manifest>> BY DEF Disk
<1>2. QED BY <1>1, ScreenSafe DEF Base, Typed

LEMMA FetchLibrarySafe ==
  ASSUME Base, NEW p \in Programs, NEW s \in Screen, FetchLibrary(p, s),
         s.token = screens[p].token, s.busy = screens[p].busy,
         Alone /\ ~Overlaps => ~s.anyway /\ ~screens[p].busy,
         UNCHANGED <<Disk, library>>
  PROVE  Safe
<1>1. CASE s.trouble BY <1>1, ShowsSafe DEF FetchLibrary, Base, Typed
<1>2. CASE ~s.trouble BY <1>2, AsksSafe DEF FetchLibrary
<1>3. QED BY <1>1, <1>2

LEMMA ChosenSafe ==
  ASSUME Base, NEW p \in Programs, NEW s \in Screen, Chosen(p, s),
         s.token = screens[p].token, s.busy = screens[p].busy,
         Alone /\ ~Overlaps => ~s.anyway /\ ~screens[p].busy,
         UNCHANGED <<Disk, library>>
  PROVE  Safe
<1> DEFINE wanted == [s EXCEPT !.pending = TRUE]
<1>1. wanted \in Screen /\ Alike(wanted, s) BY DEF Screen, Alike
<1>2. CASE Has
  <2>1. screens' = [screens EXCEPT ![p] = Read(s)] /\ UNCHANGED fetches
    BY <1>2 DEF Chosen
  <2>2. Read(s) \in Screen /\ Alike(Read(s), s) BY ReadIsScreen DEF Base
  <2>3. QED BY <2>1, <2>2, ShowsSafe DEF Alike, Base, Typed
<1>3. CASE ~Has /\ ~library
  <2>1. FetchLibrary(p, wanted) BY <1>3 DEF Chosen
  <2> HIDE DEF wanted
  <2>2. QED BY <1>1, <2>1, FetchLibrarySafe DEF Alike
<1>4. CASE ~Has /\ library
  <2>1. Start(p, "model", wanted) BY <1>4 DEF Chosen
  <2> HIDE DEF wanted
  <2>2. QED BY <1>1, <2>1, AsksSafe DEF Alike
<1>5. QED BY <1>2, <1>3, <1>4

LEMMA ChooseSafe == ASSUME Base, NEW p \in Programs, Choose(p) PROVE Safe
<1>1. screens[p] \in Screen /\ ~screens[p].busy /\ UNCHANGED <<Disk, library>>
  BY DEF Choose, Base, Typed
<1>2. ~Overlaps => ~screens[p].anyway BY DEF Choose, Keys
<1>3. CASE Chosen(p, screens[p]) BY <1>1, <1>2, <1>3, ChosenSafe
<1>4. CASE screens' = [screens EXCEPT ![p].anyway = TRUE] /\ UNCHANGED fetches
  <2> DEFINE s == [screens[p] EXCEPT !.anyway = TRUE]
  <2>1. screens' = [screens EXCEPT ![p] = s] BY <1>4
  <2>2. s \in Screen /\ s.token = screens[p].token /\ s.busy = screens[p].busy
    BY <1>1 DEF Screen
  <2> HIDE DEF s
  <2>3. QED BY <1>1, <1>4, <2>1, <2>2, ShowsSafe DEF Base, Typed
<1>5. QED BY <1>3, <1>4 DEF Choose

LEMMA AnywaySafe == ASSUME Base, NEW p \in Programs, Anyway(p) PROVE Safe
<1> DEFINE s == [screens[p] EXCEPT !.anyway = FALSE]
<1>1. screens[p] \in Screen /\ screens[p].anyway /\ UNCHANGED <<Disk, library>>
  BY DEF Anyway, Base, Typed
<1>2. s \in Screen /\ s.token = screens[p].token /\ s.busy = screens[p].busy /\ ~s.anyway
  BY <1>1 DEF Screen
<1>3. Alone => ~screens[p].busy BY <1>1 DEF Alone
<1>4. Chosen(p, s) BY DEF Anyway
<1> HIDE DEF s
<1>5. QED BY <1>1, <1>2, <1>3, <1>4, ChosenSafe

LEMMA EnterSafe == ASSUME Base, NEW p \in Programs, Enter(p) PROVE Safe
<1>1. screens[p] \in Screen /\ ~screens[p].busy /\ UNCHANGED <<Disk, library>>
  BY DEF Enter, Base, Typed
<1>2. ~Overlaps => ~screens[p].anyway BY DEF Enter, Keys
<1>3. FetchLibrary(p, screens[p]) \/ Start(p, "model", screens[p]) BY DEF Enter
<1>4. QED BY <1>1, <1>2, <1>3, FetchLibrarySafe, AsksSafe

LEMMA StopSafe == ASSUME Base, NEW p \in Programs, Stop(p) PROVE Safe
<1> PICK pending \in {FALSE, screens[p].pending} :
      screens' = [screens EXCEPT ![p].pending = pending]
  BY DEF Stop
<1> DEFINE s == [screens[p] EXCEPT !.pending = pending]
<1>1. /\ screens[p] \in Screen /\ screens[p].busy
      /\ UNCHANGED <<hub, contents, part, final, manifest, library>>
      /\ fetches' = [fetches EXCEPT ![screens[p].token].over = TRUE]
  BY DEF Stop, Base, Typed, Disk
<1>2. pending \in BOOLEAN BY <1>1 DEF Screen
<1>3. /\ s \in Screen /\ s.token = screens[p].token /\ s.busy = screens[p].busy
      /\ s.anyway = screens[p].anyway
  BY <1>1, <1>2 DEF Screen
<1>4. screens' = [screens EXCEPT ![p] = s] OBVIOUS
<1> HIDE DEF s
<1> DEFINE f == screens[p].token
<1>5. f \in Fetches /\ fetches[f] # Unused BY <1>1 DEF Base, Waited, Watched
<1>6. fetches[f] \in Fetching BY <1>5, UsedIsFetch DEF Base
<1>7. [fetches[f] EXCEPT !.over = TRUE] \in Fetching BY <1>6 DEF Fetching
<1>8. \A g \in Fetches :
        fetches'[g] = IF g = f THEN [fetches[f] EXCEPT !.over = TRUE] ELSE fetches[g]
  BY <1>1 DEF Base, Typed
<1>9. fetches' \in [Fetches -> Fetching \cup {Unused}]
  BY <1>1, <1>5, <1>7 DEF Base, Typed
<1>10. Alone => ~s.anyway BY <1>1, <1>3 DEF Alone
<1>11. \A g \in Fetches :
         \/ fetches'[g] = fetches[g]
         \/ fetches[g] # Unused /\ fetches'[g] = [fetches[g] EXCEPT !.over = TRUE]
  BY <1>5, <1>8
<1>12. part' \in {part, NoFile} /\ final' \in {final, NoFile} /\ part' = part
  BY <1>1
<1>13. library' \in BOOLEAN /\ manifest' \in Nat /\ UNCHANGED <<hub, contents>>
  BY <1>1 DEF Base, Typed
<1>14. QED BY <1>3, <1>4, <1>9, <1>10, <1>11, <1>12, <1>13, ScreenSafe

LEMMA VisitSafe == ASSUME Base, NEW p \in Programs, Visit(p) PROVE Safe
<1>1. /\ screens[p] \in Screen /\ UNCHANGED <<Disk, library, fetches>>
      /\ screens' = [screens EXCEPT ![p] = Read(screens[p])]
  BY DEF Visit, Base, Typed
<1>2. Read(screens[p]) \in Screen /\ Alike(Read(screens[p]), screens[p])
  BY <1>1, ReadIsScreen DEF Base
<1>3. QED BY <1>1, <1>2, ShowsSafe DEF Alike, Base, Typed, Alone

LEMMA WarmSafe == ASSUME Base, NEW p \in Programs, Warm(p) PROVE Safe
<1> DEFINE s == [Read(screens[p]) EXCEPT !.warmed = TRUE]
<1>1. screens[p] \in Screen /\ UNCHANGED <<Disk, fetches>> BY DEF Warm, Base, Typed
<1>2. Read(screens[p]) \in Screen /\ Alike(Read(screens[p]), screens[p])
  BY <1>1, ReadIsScreen DEF Base
<1>3. s \in Screen /\ Alike(s, screens[p]) BY <1>2 DEF Screen, Alike
<1> HIDE DEF s
<1>4. \/ library' = TRUE /\ screens' = [screens EXCEPT ![p] = [s EXCEPT !.present = TRUE]]
      \/ library' = FALSE /\ screens' = [screens EXCEPT ![p] = [s EXCEPT !.trouble = TRUE]]
  BY DEF Warm, s
<1>5. PICK now \in Screen : screens' = [screens EXCEPT ![p] = now] /\ Alike(now, s)
  <2>1. [s EXCEPT !.present = TRUE] \in Screen /\ Alike([s EXCEPT !.present = TRUE], s)
    BY <1>3 DEF Screen, Alike
  <2>2. [s EXCEPT !.trouble = TRUE] \in Screen /\ Alike([s EXCEPT !.trouble = TRUE], s)
    BY <1>3 DEF Screen, Alike
  <2>3. QED BY <1>4, <2>1, <2>2
<1>6. library' \in BOOLEAN BY <1>4
<1>7. QED BY <1>1, <1>3, <1>5, <1>6, ShowsSafe DEF Alike, Alone

LEMMA RemoveSafe == ASSUME Base, NEW p \in Programs, Remove(p) PROVE Safe
<1> DEFINE s == [Read(screens[p]) EXCEPT !.listed = FALSE]
<1>1. /\ screens[p] \in Screen /\ (Overlaps \/ ~screens[p].busy) /\ manifest' = 0
      /\ part' = NoFile /\ final' = NoFile /\ screens' = [screens EXCEPT ![p] = s]
      /\ UNCHANGED <<hub, contents, library, fetches>>
  BY DEF Remove, Removes, Base, Typed
<1>2. Read(screens[p]) \in Screen /\ Alike(Read(screens[p]), screens[p])
  BY <1>1, ReadIsScreen DEF Base
<1>3. s \in Screen /\ Alike(s, screens[p]) BY <1>2 DEF Screen, Alike
<1> HIDE DEF s
<1>4. QED BY <1>1, <1>3, ScreenSafe DEF Alike, Base, Typed

(* A word from the download, which goes on or is over.                     *)
LEMMA FetchedSafe == ASSUME Base, NEW f \in Fetches, Fetched(f) PROVE Safe
<1> DEFINE told == IF fetches[f].step = "say" THEN Ended(f, FALSE)
                   ELSE [fetches[f] EXCEPT !.step = "read"]
           next == [told EXCEPT !.watched = Ours(f)]
<1>1. /\ Watched(f) /\ fetches[f] # Unused /\ fetches[f].step \in {"tell", "say"}
      /\ UNCHANGED <<hub, contents, part, final, manifest, library, screens>>
  BY DEF Fetched, Watched, Disk
<1>2. fetches' = [fetches EXCEPT ![f] = next] BY DEF Fetched, Watch
<1>3. fetches[f] \in Fetching BY <1>1, UsedIsFetch DEF Base
<1>4. Going(f) BY <1>1 DEF Going
<1>5. Ours(f) \in BOOLEAN BY DEF Ours
<1>6. PICK new \in Fetching :
        /\ fetches' = [fetches EXCEPT ![f] = new] /\ new.by = fetches[f].by
        /\ new.watched = Ours(f)
        /\ \/ new.step = "ended"
           \/ /\ fetches[f].step = "tell" /\ new.step = "read"
              /\ new.at = fetches[f].at /\ new.sent = fetches[f].sent
              /\ new.seen = fetches[f].seen /\ new.file = fetches[f].file
  <2>1. CASE fetches[f].step = "say"
    <3>1. /\ Ended(f, FALSE) \in Fetching /\ Ended(f, FALSE).step = "ended"
          /\ Ended(f, FALSE).by = fetches[f].by
      BY <1>1, EndedIsFetch DEF Base
    <3>2. next = [Ended(f, FALSE) EXCEPT !.watched = Ours(f)] BY <2>1
    <3>3. /\ next \in Fetching /\ next.step = "ended" /\ next.by = fetches[f].by
          /\ next.watched = Ours(f)
      BY <1>5, <3>1, <3>2 DEF Fetching
    <3>4. QED BY <1>2, <3>3
  <2>2. CASE fetches[f].step = "tell"
    <3>1. next = [fetches[f] EXCEPT !.step = "read", !.watched = Ours(f)] BY <2>2
    <3> HIDE DEF next
    <3>2. /\ next \in Fetching /\ next.by = fetches[f].by /\ next.watched = Ours(f)
          /\ next.step = "read" /\ next.at = fetches[f].at /\ next.sent = fetches[f].sent
          /\ next.seen = fetches[f].seen /\ next.file = fetches[f].file
      BY <1>3, <1>5, <2>2, <3>1 DEF Fetching
    <3>3. QED BY <1>2, <2>2, <3>2
  <2>3. QED BY <1>1, <2>1, <2>2
<1> HIDE DEF told, next
<1>7. /\ fetches' \in [Fetches -> Fetching \cup {Unused}]
      /\ \A g \in Fetches : fetches'[g] = IF g = f THEN new ELSE fetches[g]
      /\ new # Unused
  BY <1>6, OneFetch DEF Base
<1>8. Base'
  <2>1. Typed' BY <1>1, <1>7 DEF Base, Typed
  <2>2. ASSUME NEW q \in Programs, screens[q].busy
        PROVE  /\ screens[q].token \in Fetches /\ Watched(screens[q].token)'
               /\ fetches'[screens[q].token].by = q
    <3>1. /\ screens[q].token \in Fetches /\ Watched(screens[q].token)
          /\ fetches[screens[q].token].by = q
      BY <2>2 DEF Base, Waited
    <3>2. CASE screens[q].token = f
      <4>1. Ours(f) BY <3>1, <3>2 DEF Ours
      <4>2. new.watched /\ new.by = q BY <1>6, <3>1, <3>2, <4>1
      <4>3. QED BY <1>1, <1>7, <3>1, <3>2, <4>2 DEF Watched
    <3>3. CASE screens[q].token # f BY <1>1, <1>7, <3>1, <3>3 DEF Watched
    <3>4. QED BY <3>2, <3>3
  <2>3. Waited' BY <1>1, <2>2 DEF Waited
  <2>4. QED BY <2>1, <2>3 DEF Base
<1>9. ASSUME Alone PROVE Safe
  <2>1. Ours(f) BY <1>1, <1>9 DEF Alone
  <2>2. new.watched = fetches[f].watched
    <3>1. fetches[f].watched \in BOOLEAN /\ fetches[f].watched
      BY <1>1, <1>3 DEF Watched, Fetching
    <3>2. QED BY <1>6, <2>1, <3>1
  <2>3. Hashed => Hashes(new) BY <1>1, <1>6 DEF Hashed, Hashes
  <2>4. QED BY <1>1, <1>4, <1>6, <2>2, <2>3, QuietSafe DEF Base, Typed
<1>10. QED BY <1>8, <1>9 DEF Safe

(* The end of a download is heard, on a screen that waits for nothing then. *)
LEMMA HeardSafe ==
  ASSUME Base, NEW f \in Fetches, Watched(f), Ours(f), NEW new \in Fetching,
         new.by = fetches[f].by, new.step = "ended", ~new.watched,
         fetches' = [fetches EXCEPT ![f] = new],
         NEW s \in Screen, screens' = [screens EXCEPT ![fetches[f].by] = s], ~s.busy,
         UNCHANGED <<Disk, library>>
  PROVE  Safe
<1> DEFINE p == fetches[f].by
<1>1. /\ UNCHANGED <<hub, contents, part, final, manifest, library>>
      /\ fetches[f] # Unused /\ fetches[f] \in Fetching
  BY UsedIsFetch DEF Disk, Watched, Base
<1>2. p \in Programs BY <1>1 DEF Fetching
<1>3. /\ fetches' \in [Fetches -> Fetching \cup {Unused}]
      /\ \A g \in Fetches : fetches'[g] = IF g = f THEN new ELSE fetches[g]
      /\ new # Unused
  BY OneFetch DEF Base
<1>4. /\ screens' \in [Programs -> Screen]
      /\ \A q \in Programs : screens'[q] = IF q = p THEN s ELSE screens[q]
  BY <1>2, OneScreen DEF Base
<1>5. Typed' BY <1>1, <1>3, <1>4 DEF Base, Typed
<1>6. ASSUME NEW q \in Programs, screens'[q].busy
      PROVE  /\ screens'[q].token \in Fetches /\ Watched(screens[q].token)'
             /\ fetches'[screens'[q].token].by = q
  <2>1. q # p /\ screens'[q] = screens[q] BY <1>4, <1>6
  <2>2. /\ screens[q].token \in Fetches /\ Watched(screens[q].token)
        /\ fetches[screens[q].token].by = q
    BY <1>6, <2>1 DEF Base, Waited
  <2>3. screens[q].token # f BY <2>1, <2>2
  <2>4. QED BY <1>3, <2>1, <2>2, <2>3 DEF Watched
<1>7. Waited' BY <1>6 DEF Waited
<1>8. ASSUME Alone PROVE Alone'
  <2>1. \A q \in Programs : screens'[q].anyway => ~screens'[q].busy
    BY <1>4, <1>8 DEF Alone
  <2>2. ASSUME NEW g \in Fetches
        PROVE  /\ Going(g)' => Watched(g)'
               /\ Watched(g)' => screens'[fetches'[g].by].busy /\ Ours(g)'
    <3>1. CASE g = f BY <1>3, <3>1 DEF Going, Watched
    <3>2. CASE g # f /\ fetches[g] # Unused
      <4>1. fetches'[g] = fetches[g] /\ fetches[g].by \in Programs
        BY <1>3, <3>2, UsedIsFetch DEF Base, Fetching
      <4>2. /\ Going(g) => Watched(g)
            /\ Watched(g) => screens[fetches[g].by].busy /\ Ours(g)
        BY <1>8 DEF Alone
      <4>3. Watched(g) => fetches[g].by # p BY <3>2, <4>2 DEF Ours
      <4>4. fetches[g].by # p => screens'[fetches[g].by] = screens[fetches[g].by]
        BY <1>4, <4>1
      <4>5. QED BY <4>1, <4>2, <4>3, <4>4 DEF Going, Watched, Ours
    <3>3. CASE g # f /\ fetches[g] = Unused BY <1>3, <3>3 DEF Going, Watched
    <3>4. QED BY <3>1, <3>2, <3>3
  <2>3. QED BY <2>1, <2>2 DEF Alone
<1>9. ASSUME Hashed PROVE Hashed'
  <2> SUFFICES ASSUME NEW g \in Fetches, fetches'[g] # Unused PROVE Hashes(fetches[g])'
    BY DEF Hashed
  <2>1. CASE g = f BY <1>3, <2>1 DEF Hashes
  <2>2. CASE g # f
    <3>1. fetches'[g] = fetches[g] /\ Hashes(fetches[g]) BY <1>3, <1>9, <2>2 DEF Hashed
    <3>2. QED BY <1>1, <3>1 DEF Hashes
  <2>3. QED BY <2>1, <2>2
<1>10. ASSUME Kept PROVE Kept'
  <2>1. \A g \in Fetches : fetches'[g] = Unused \/ fetches'[g].step \in {"begin", "ask"} =>
          fetches[g] = Unused \/ fetches[g].step \in {"begin", "ask"}
    BY <1>3
  <2>2. \A g \in Fetches : On(g, "rename")' => Whole(fetches[g].seen)'
    BY <1>1, <1>3, <1>10 DEF Kept, On, Whole
  <2>3. QED BY <1>1, <1>10, <2>1, <2>2 DEF Kept, Begins, Whole
<1>11. QED BY <1>5, <1>7, <1>8, <1>9, <1>10 DEF Safe, Base

\* What is left of a download whose end was heard.
Over(f) == [Fresh(fetches[f].by, fetches[f].job) EXCEPT !.step = "ended", !.watched = FALSE]

LEMMA OverIsFetch ==
  ASSUME Typed, NEW f \in Fetches, fetches[f] # Unused
  PROVE  /\ Over(f) \in Fetching /\ Over(f).by = fetches[f].by
         /\ Over(f).step = "ended" /\ ~Over(f).watched
<1>1. fetches[f].by \in Programs /\ fetches[f].job \in {"library", "model"}
  BY UsedIsFetch DEF Fetching
<1>2. /\ Fresh(fetches[f].by, fetches[f].job) \in Fetching
      /\ Fresh(fetches[f].by, fetches[f].job).by = fetches[f].by
  BY <1>1, FreshIsFetch
<1>3. QED BY <1>2 DEF Over, Fetching

LEMMA DoneFetchingSafe == ASSUME Base, NEW f \in Fetches, DoneFetching(f) PROVE Safe
<1> DEFINE p == fetches[f].by
           s == [screens[p] EXCEPT !.busy = FALSE]
           heard == [fetches EXCEPT ![f] = Over(f)]
           quiet == [Read(s) EXCEPT !.pending = FALSE]
<1>1. Watched(f) /\ UNCHANGED <<Disk, library>> BY DEF DoneFetching
<1>2. fetches[f] # Unused /\ p \in Programs /\ screens[p] \in Screen
  <2>1. fetches[f] # Unused BY <1>1 DEF Watched
  <2>2. QED BY <2>1, UsedIsFetch DEF Base, Fetching, Typed
<1>3. \/ ~Ours(f) /\ fetches' = heard /\ UNCHANGED screens
      \/ Ours(f) /\ fetches' = heard /\ screens' = [screens EXCEPT ![p] = quiet]
      \/ Ours(f) /\ Starting(p, "model", heard, s)
  BY DEF DoneFetching, Continued, Over
<1>4. /\ Over(f) \in Fetching /\ Over(f).by = p
      /\ Over(f).step = "ended" /\ ~Over(f).watched
  BY <1>2, OverIsFetch DEF Base
<1>5. s \in Screen /\ ~s.busy /\ s.anyway = screens[p].anyway BY <1>2 DEF Screen
<1> HIDE DEF s
<1>6. CASE ~Ours(f) /\ fetches' = heard /\ UNCHANGED screens
  <2>1. /\ UNCHANGED <<hub, contents, part, final, manifest, library>>
        /\ fetches' \in [Fetches -> Fetching \cup {Unused}]
        /\ \A g \in Fetches : fetches'[g] = IF g = f THEN Over(f) ELSE fetches[g]
    BY <1>1, <1>4, <1>6, OneFetch DEF Base, Disk
  <2>2. Typed' BY <1>6, <2>1 DEF Base, Typed
  <2>3. ASSUME NEW q \in Programs, screens[q].busy
        PROVE  /\ screens[q].token \in Fetches /\ Watched(screens[q].token)'
               /\ fetches'[screens[q].token].by = q
    <3>1. /\ screens[q].token \in Fetches /\ Watched(screens[q].token)
          /\ fetches[screens[q].token].by = q
      BY <2>3 DEF Base, Waited
    <3>2. screens[q].token # f BY <1>6, <3>1 DEF Ours
    <3>3. QED BY <1>6, <2>1, <3>1, <3>2 DEF Watched
  <2>4. Waited' BY <1>6, <2>3 DEF Waited
  <2>5. ~Alone BY <1>1, <1>6 DEF Alone
  <2>6. QED BY <2>2, <2>4, <2>5 DEF Safe, Base
<1>7. CASE Ours(f) /\ fetches' = heard /\ screens' = [screens EXCEPT ![p] = quiet]
  <2>1. Read(s) \in Screen /\ Alike(Read(s), s) BY <1>5, ReadIsScreen DEF Base
  <2>2. quiet \in Screen /\ ~quiet.busy BY <1>5, <2>1 DEF Screen, Alike
  <2> HIDE DEF quiet
  <2>3. QED BY <1>1, <1>4, <1>7, <2>2, HeardSafe
<1>8. CASE Ours(f) /\ Starting(p, "model", heard, s)
  <2>1. /\ heard \in [Fetches -> Fetching \cup {Unused}]
        /\ \A g \in Fetches : heard[g] = IF g = f THEN Over(f) ELSE fetches[g]
    BY <1>4 DEF Base, Typed
  <2>2. Over(f) # Unused BY <1>4, FetchIsSome
  <2>3. Alone => ~s.anyway BY <1>1, <1>2, <1>5 DEF Alone
  <2>4. ASSUME Alone, NEW g \in Fetches, heard[g] # Unused, heard[g].watched
        PROVE  heard[g].by # p
    <3>1. g # f /\ heard[g] = fetches[g] BY <1>4, <2>1, <2>4
    <3>2. Watched(g) BY <2>4, <3>1 DEF Watched
    <3>3. Ours(g) BY <2>4, <3>2 DEF Alone
    <3>4. QED BY <1>8, <3>1, <3>3 DEF Ours
  <2>5. \A g \in Fetches :
          \/ heard[g] = fetches[g]
          \/ /\ fetches[g] # Unused /\ heard[g] # Unused /\ fetches[g].by = p
             /\ heard[g].step = "ended" /\ ~heard[g].watched
    BY <1>2, <1>4, <2>1, <2>2
  <2> HIDE DEF heard, p
  <2>6. QED BY <1>1, <1>2, <1>5, <1>8, <2>1, <2>3, <2>4, <2>5, StartSafe
<1>9. QED BY <1>3, <1>6, <1>7, <1>8

(* A program dies with all that it fetches.                                *)
LEMMA DiesSafe ==
  ASSUME Base, NEW p \in Programs, Dies(p), UNCHANGED <<hub, contents, library>>,
         part' \in {part, NoFile}, final' \in {final, NoFile}, manifest' \in Nat
  PROVE  Safe
<1> DEFINE Left(f) == [Fresh(p, fetches[f].job) EXCEPT !.step = "gone", !.watched = FALSE]
<1>1. ASSUME NEW f \in Fetches, fetches[f] # Unused
      PROVE  /\ Left(f) \in Fetching /\ Left(f).step = "gone" /\ ~Left(f).watched
             /\ Left(f) # Unused
  <2>1. fetches[f].job \in {"library", "model"}
    BY <1>1, UsedIsFetch DEF Base, Fetching
  <2>2. Fresh(p, fetches[f].job) \in Fetching BY <2>1, FreshIsFetch
  <2>3. Left(f) \in Fetching /\ Left(f).step = "gone" /\ ~Left(f).watched
    BY <2>2 DEF Fetching
  <2>4. QED BY <2>3, FetchIsSome
<1>2. fetches' = [f \in Fetches |-> IF f \in Used /\ fetches[f].by = p THEN Left(f)
                                    ELSE fetches[f]]
  BY DEF Dies
<1> HIDE DEF Left
<1>3. \A f \in Fetches :
        fetches'[f] = IF fetches[f] # Unused /\ fetches[f].by = p THEN Left(f) ELSE fetches[f]
  BY <1>2 DEF Used
<1>4. fetches' \in [Fetches -> Fetching \cup {Unused}]
  <2>1. \A f \in Fetches : fetches'[f] \in Fetching \cup {Unused}
    BY <1>1, <1>3 DEF Base, Typed
  <2>2. QED BY <1>2, <2>1
<1>5. /\ NoScreen \in Screen /\ ~NoScreen.busy /\ ~NoScreen.anyway
  BY DownloadsAssumption DEF NoScreen, Screen, NoFetch
<1>6. /\ screens' \in [Programs -> Screen]
      /\ \A q \in Programs : screens'[q] = IF q = p THEN NoScreen ELSE screens[q]
  BY <1>5, OneScreen DEF Base, Dies
<1>7. Typed' BY <1>4, <1>6 DEF Base, Typed
<1>8. ASSUME NEW q \in Programs, screens'[q].busy
      PROVE  /\ screens'[q].token \in Fetches /\ Watched(screens[q].token)'
             /\ fetches'[screens'[q].token].by = q
  <2>1. q # p /\ screens'[q] = screens[q] BY <1>5, <1>6, <1>8
  <2>2. /\ screens[q].token \in Fetches /\ Watched(screens[q].token)
        /\ fetches[screens[q].token].by = q
    BY <1>8, <2>1 DEF Base, Waited
  <2>3. fetches'[screens[q].token] = fetches[screens[q].token] BY <1>3, <2>1, <2>2
  <2>4. QED BY <2>1, <2>2, <2>3 DEF Watched
<1>9. Waited' BY <1>8 DEF Waited
<1>10. ASSUME Alone PROVE Alone'
  <2>1. \A q \in Programs : screens'[q].anyway => ~screens'[q].busy
    BY <1>5, <1>6, <1>10 DEF Alone
  <2>2. ASSUME NEW g \in Fetches
        PROVE  /\ Going(g)' => Watched(g)'
               /\ Watched(g)' => screens'[fetches'[g].by].busy /\ Ours(g)'
    <3>1. CASE fetches[g] # Unused /\ fetches[g].by = p
      BY <1>1, <1>3, <3>1 DEF Going, Watched
    <3>2. CASE fetches[g] # Unused /\ fetches[g].by # p
      <4>1. fetches'[g] = fetches[g] /\ fetches[g].by \in Programs
        BY <1>3, <3>2, UsedIsFetch DEF Base, Fetching
      <4>2. screens'[fetches[g].by] = screens[fetches[g].by] BY <1>6, <3>2, <4>1
      <4>3. QED BY <1>10, <4>1, <4>2 DEF Alone, Going, Watched, Ours
    <3>3. CASE fetches[g] = Unused BY <1>3, <3>3 DEF Going, Watched
    <3>4. QED BY <3>1, <3>2, <3>3
  <2>3. QED BY <2>1, <2>2 DEF Alone
<1>11. ASSUME One PROVE Hashed'
  <2>1. ASSUME NEW f \in Fetches, fetches'[f] # Unused PROVE fetches'[f].step = "gone"
    <3>1. fetches[f] # Unused BY <1>3, <2>1
    <3>2. fetches[f].by = p BY <1>11, <3>1, UsedIsFetch DEF Base, Fetching, One
    <3>3. QED BY <1>1, <1>3, <3>1, <3>2
  <2>2. QED BY <2>1 DEF Hashed, Hashes
<1>12. ASSUME Kept PROVE Kept'
  <2>1. \A g \in Fetches : fetches'[g] = Unused \/ fetches'[g].step \in {"begin", "ask"} =>
          fetches[g] = Unused \/ fetches[g].step \in {"begin", "ask"}
    BY <1>1, <1>3
  <2>2. \A g \in Fetches : fetches'[g] = Unused \/ fetches'[g].step \in {"begin", "ask"} =>
          g \notin {part', final'}
    BY <1>12, <2>1, Numbers DEF Kept
  <2>3. \A g \in Fetches : On(g, "rename")' => Whole(fetches[g].seen)'
    BY <1>1, <1>3, <1>12 DEF Kept, On, Whole
  <2>4. QED BY <1>12, <2>2, <2>3 DEF Kept, Begins, Whole
<1>13. QED BY <1>7, <1>9, <1>10, <1>11, <1>12 DEF Safe, Base

(* Every step keeps what it finds.                                         *)
LEMMA NextSafe == Base /\ [Next]_vars => Safe
<1> SUFFICES ASSUME Base, [Next]_vars PROVE Safe OBVIOUS
<1>1. ASSUME NEW p \in Programs, Crash(p) PROVE Safe
  BY <1>1, DiesSafe DEF Crash, Disk, Base, Typed
<1>2. ASSUME NEW p \in Programs, CrashRemoving(p) PROVE Safe
  <2>1. /\ Dies(p) /\ manifest' \in {0, manifest} /\ UNCHANGED <<hub, contents, library>>
        /\ part' \in {part, NoFile} /\ final' \in {final, NoFile}
    BY <1>2 DEF CrashRemoving
  <2>2. manifest' \in Nat BY <2>1 DEF Base, Typed
  <2>3. QED BY <2>1, <2>2, DiesSafe
<1>3. CASE UNCHANGED vars
  <2>1. UNCHANGED <<hub, contents, part, final, manifest, library, fetches, screens>>
    BY <1>3 DEF vars
  <2>2. Base' BY <2>1 DEF Base, Typed, Waited, Watched
  <2>3. Alone => Alone' BY <2>1 DEF Alone, Going, Watched, Ours
  <2>4. Hashed => Hashed' BY <2>1 DEF Hashed, Hashes
  <2>5. Kept => Kept' BY <2>1 DEF Kept, Begins, Whole, On
  <2>6. QED BY <2>2, <2>3, <2>4, <2>5 DEF Safe
<1>4. QED
  BY <1>1, <1>2, <1>3, ChooseSafe, AnywaySafe, EnterSafe, StopSafe, VisitSafe, WarmSafe,
     RemoveSafe, WorkSafe, FetchedSafe, DoneFetchingSafe DEF Next

LEMMA AlwaysBase == Spec => []Base
<1>1. Base /\ [Next]_vars => Base' BY NextSafe DEF Safe
<1>2. QED BY <1>1, InitBase, PTL DEF Spec

(* What a screen says is arriving is waited for, whatever is stopped,      *)
(* begun again, removed or killed meanwhile (settings.go fetched,          *)
(* doneFetching, continued).                                               *)
THEOREM BusyIsFollowedHolds == Spec => []BusyIsFollowed
<1>1. Base => BusyIsFollowed BY DEF Base, Waited, BusyIsFollowed
<1>2. QED BY <1>1, AlwaysBase, PTL

LEMMA AlwaysHashed == ASSUME ~Overlaps, One PROVE Spec => [](Base /\ Alone /\ Hashed)
<1>1. Base /\ Alone /\ Hashed /\ [Next]_vars => (Base /\ Alone /\ Hashed)'
  BY NextSafe DEF Safe
<1>2. QED BY <1>1, InitBase, PTL DEF Spec

(* The hash a download is judged by is that of the file it writes, over    *)
(* every resumption, range refused and death of the program, where one     *)
(* program has the directory (download.go open, rehash, write).            *)
THEOREM TheHashIsOfTheFileHolds == ASSUME ~Overlaps, One PROVE Spec => []TheHashIsOfTheFile
<1>1. Hashed => TheHashIsOfTheFile BY DEF Hashed, Hashes, Going, TheHashIsOfTheFile
<1>2. QED BY <1>1, AlwaysHashed, PTL

LEMMA AlwaysKept == ASSUME ~Overlaps, One, ~Strangers PROVE Spec => []Kept
<1>1. Base /\ Alone /\ Hashed /\ Kept /\ [Next]_vars => Kept' BY NextSafe DEF Safe
<1>2. QED BY <1>1, InitKept, AlwaysHashed, PTL DEF Spec

(* "Has reports whether a model has been downloaded and is whole", where   *)
(* one program has the directory and no other build left a part the hub    *)
(* does not vouch for (store.go Find, download.go verify).                 *)
THEOREM HasIsWholeHolds == ASSUME ~Overlaps, One, ~Strangers PROVE Spec => []HasIsWhole
<1>1. Kept => HasIsWhole BY DEF Kept, Whole, Has, HasIsWhole
<1>2. QED BY <1>1, AlwaysKept, PTL
=============================================================================
