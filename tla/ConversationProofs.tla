------------------------- MODULE ConversationProofs -------------------------
(***************************************************************************)
(* What Conversation promises for every set of connections and any number  *)
(* of turns, steps and jobs that fall over: a turn that runs is followed,  *)
(* and what is agreed to on a connection is asked there, also where a      *)
(* model was taken by another screen than the one it was read in for.      *)
(*                                                                         *)
(* A turn is followed by a chain of one command, message or question at a  *)
(* time, told apart from those of earlier turns by its token.  That only   *)
(* one goes on needs that no token is ahead of its screen, and that a      *)
(* question that waits for a model waits on a screen with no turn.  What   *)
(* is asked stays at its connection because a turn that begins takes a     *)
(* number no turn had.                                                     *)
(***************************************************************************)
EXTENDS Conversation, FiniteSetTheorems, TLAPS

Screens == [agent : Agent \cup {NoAgent}, loading : BOOLEAN, waiting : BOOLEAN,
            busy : BOOLEAN, token : Nat, running : Nat, stop : Nat,
            pending : Turns \cup {0}]

Typed ==
  /\ open \subseteq Links /\ front \in open
  /\ talks \in [Links -> Screens]
  /\ turns \in [Turns -> Turn]
  /\ readers \subseteq [turn : Nat, on : Links, token : Nat]
  /\ messages \subseteq [kind : {"event", "approval", "ended"}, turn : Nat, on : Links,
                         token : Nat]
  /\ IsFiniteSet(readers) /\ IsFiniteSet(messages)
  /\ loads \subseteq Load /\ panics \in Nat

\* The turns there were have the first numbers.
Numbered == \E n \in Nat : Begun = 1..n

\* A question is asked where its turn asks.
Asking ==
  /\ \A m \in messages : m.kind = "approval" => m.turn \in Begun /\ turns[m.turn].at = m.on
  /\ \A on \in Links : talks[on].pending # 0 =>
       talks[on].pending \in Begun /\ turns[talks[on].pending].at = on

\* A question waits for a model on a screen with neither an assistant nor a turn.
Waiting ==
  \A on \in Links : talks[on].waiting => talks[on].agent = NoAgent /\ ~talks[on].busy /\ Local

\* Nothing is ahead of the screen it is for.
Behindhand ==
  \A x \in readers \cup messages : x.on \in open => x.token =< talks[x.on].token

\* What follows the turn that a screen is at.
Mine(x, on) == x.on = on /\ x.token = talks[on].token

Followed(on) ==
  talks[on].busy => \/ \E r \in readers : Mine(r, on)
                    \/ \E m \in messages : Mine(m, on)
                    \/ talks[on].pending # 0

OneWay(on) ==
  /\ \A r, s \in readers : Mine(r, on) /\ Mine(s, on) => r = s
  /\ \A m, l \in messages : Mine(m, on) /\ Mine(l, on) => m = l
  /\ \A r \in readers : \A m \in messages : ~(Mine(r, on) /\ Mine(m, on))
  /\ talks[on].pending # 0 => \A x \in readers \cup messages : ~Mine(x, on)
  /\ ~talks[on].busy =>
       talks[on].pending = 0 /\ \A x \in readers \cup messages : ~Mine(x, on)

Chains == \A on \in open : Followed(on) /\ (panics = 0 => OneWay(on))

IInv == Typed /\ Numbered /\ Asking /\ Waiting /\ Behindhand /\ Chains

\* Every turn there was is still there, and asks where it asked.
TurnsKept ==
  /\ turns' \in [Turns -> Turn] /\ Numbered'
  /\ \A t \in Begun : t \in Begun' /\ turns'[t].at = turns[t].at

(* The invariant holds at the start.                                       *)
LEMMA InitIInv == Init => IInv
<1> SUFFICES ASSUME Init PROVE IInv OBVIOUS
<1>1. front \in open BY LinksAssumption DEF Init
<1>2. NewTalk \in Screens BY DEF NewTalk, Screens
<1>3. talks \in [Links -> Screens] /\ \A on \in Links : talks[on] = NewTalk
  BY <1>2 DEF Init
<1>4. turns \in [Turns -> Turn] BY DEF Init, Turn, Stages
<1>5. readers = {} /\ messages = {} /\ IsFiniteSet({}) BY FS_EmptySet DEF Init
<1>6. Typed BY <1>1, <1>3, <1>4, <1>5, BoundsAssumption DEF Init, Typed
<1>7. Begun = {} BY DEF Init, Begun
<1>8. Begun = 1..0 BY <1>7
<1>9. Numbered BY <1>8 DEF Numbered
<1>10. \A on \in Links : talks[on].pending = 0 /\ ~talks[on].waiting /\ ~talks[on].busy
  BY <1>3 DEF NewTalk
<1>11. open = Links BY DEF Init
<1>12. Asking /\ Waiting /\ Behindhand BY <1>5, <1>10 DEF Asking, Waiting, Behindhand
<1>13. Chains BY <1>5, <1>10, <1>11 DEF Chains, Followed, OneWay
<1>14. QED BY <1>6, <1>9, <1>12, <1>13 DEF IInv

(* A turn that there was comes to another stage.                           *)
LEMMA TurnGoesOn ==
  ASSUME Typed, Numbered, NEW t, t \in Turns => t \in Begun,
         NEW stage \in Stages \ {"none"}, turns' = [turns EXCEPT ![t].stage = stage]
  PROVE  TurnsKept
<1>1. turns \in [Turns -> Turn] BY DEF Typed
<1>2. \A u \in Turns : turns'[u] = IF u = t THEN [turns[t] EXCEPT !.stage = stage] ELSE turns[u]
  BY <1>1
<1>3. turns' \in [Turns -> Turn]
  <2>1. t \in Turns => [turns[t] EXCEPT !.stage = stage] \in Turn BY <1>1 DEF Turn
  <2>2. QED BY <1>1, <1>2, <2>1
<1>4. \A u \in Turns : /\ turns'[u].at = turns[u].at
                       /\ (turns'[u].stage # "none") <=> (turns[u].stage # "none")
  BY <1>1, <1>2 DEF Turn, Begun
<1>5. Begun' = Begun BY <1>4 DEF Begun
<1>6. QED BY <1>3, <1>4, <1>5 DEF TurnsKept, Numbered, Begun

LEMMA TurnIsCancelled ==
  ASSUME Typed, Numbered, NEW t, turns' = [turns EXCEPT ![t].cancelled = TRUE]
  PROVE  TurnsKept
<1>1. turns \in [Turns -> Turn] BY DEF Typed
<1>2. \A u \in Turns : turns'[u] = IF u = t THEN [turns[t] EXCEPT !.cancelled = TRUE] ELSE turns[u]
  BY <1>1
<1>3. turns' \in [Turns -> Turn]
  <2>1. t \in Turns => [turns[t] EXCEPT !.cancelled = TRUE] \in Turn BY <1>1 DEF Turn
  <2>2. QED BY <1>1, <1>2, <2>1
<1>4. \A u \in Turns : turns'[u].at = turns[u].at /\ turns'[u].stage = turns[u].stage
  BY <1>1, <1>2 DEF Turn
<1>5. Begun' = Begun BY <1>4 DEF Begun
<1>6. QED BY <1>3, <1>4, <1>5 DEF TurnsKept, Numbered, Begun

LEMMA TurnsStay == ASSUME Typed, Numbered, UNCHANGED turns PROVE TurnsKept
BY DEF TurnsKept, Typed, Numbered, Begun

(* A turn that begins takes a number that no turn had.                     *)
LEMMA TurnBegins ==
  ASSUME Typed, Numbered, NEW t, t = Cardinality(Begun) + 1, t \in Turns, NEW on \in Links,
         turns' = [turns EXCEPT ![t].stage = "working", ![t].at = on]
  PROVE  TurnsKept
<1> PICK n \in Nat : Begun = 1..n BY DEF Numbered
<1>1. Cardinality(Begun) = n
  BY FS_Interval
<1>2. t = n + 1 /\ t \notin Begun BY <1>1
<1>3. turns \in [Turns -> Turn] BY DEF Typed
<1>4. \A u \in Turns : turns'[u] =
        IF u = t THEN [turns[t] EXCEPT !.stage = "working", !.at = on] ELSE turns[u]
  BY <1>3
<1>5. turns' \in [Turns -> Turn]
  <2>1. [turns[t] EXCEPT !.stage = "working", !.at = on] \in Turn BY <1>3 DEF Turn, Stages
  <2>2. QED BY <1>3, <1>4, <2>1
<1>6. turns'[t].stage = "working" BY <1>3, <1>4 DEF Turn
<1>7. Begun' = Begun \cup {t} BY <1>4, <1>6 DEF Begun
<1>8. Begun' = 1..(n + 1) BY <1>2, <1>7
<1>9. Numbered' BY <1>8 DEF Numbered
<1>10. \A u \in Begun : u \in Begun' /\ turns'[u].at = turns[u].at
  BY <1>2, <1>4, <1>7 DEF Begun
<1>11. QED BY <1>5, <1>9, <1>10 DEF TurnsKept

(* An answer at the gate.                                                  *)
LEMMA AnsweredKeeps == ASSUME Typed, Numbered, NEW t \in Begun, Answered(t) PROVE TurnsKept
<1>1. CASE UNCHANGED turns BY <1>1, TurnsStay
<1>2. CASE \E stage \in {"working", "over"} : turns' = [turns EXCEPT ![t].stage = stage]
  BY <1>2, TurnGoesOn DEF Stages
<1>3. QED BY <1>1, <1>2 DEF Answered

(* What turns do beside the screens disturbs nothing on them.              *)
LEMMA BesideIInv ==
  ASSUME IInv, TurnsKept, UNCHANGED <<screen, readers, messages, loads, panics>>
  PROVE  IInv'
<1>1. UNCHANGED <<open, front, talks, readers, messages, loads, panics>>
  BY DEF screen
<1>2. Typed' BY <1>1 DEF IInv, Typed, TurnsKept
<1>3. Asking' BY <1>1 DEF IInv, Asking, TurnsKept
<1>4. Waiting' /\ Behindhand' BY <1>1 DEF IInv, Waiting, Behindhand
<1>5. Chains' BY <1>1 DEF IInv, Chains, Followed, OneWay, Mine
<1>6. QED BY <1>2, <1>3, <1>4, <1>5 DEF IInv, TurnsKept

(* A command that has read something is what it read from then on.         *)
LEMMA ReadsIInv ==
  ASSUME IInv, TurnsKept, NEW r \in readers, NEW t \in Nat,
         NEW kind \in {"event", "approval", "ended"}, Reads(r, kind, t),
         kind = "approval" => t \in Begun /\ turns[t].at = r.on,
         UNCHANGED <<screen, loads, panics>>
  PROVE  IInv'
<1> DEFINE m == [kind |-> kind, turn |-> t, on |-> r.on, token |-> r.token]
<1>1. /\ readers' = readers \ {r} /\ messages' = messages \cup {m}
      /\ UNCHANGED <<open, front, talks, loads, panics>>
  BY DEF Reads, screen
<1>2. r.on \in Links /\ r.token \in Nat BY DEF IInv, Typed
<1>3. m \in [kind : {"event", "approval", "ended"}, turn : Nat, on : Links, token : Nat]
  BY <1>2
<1>4. m.on = r.on /\ m.token = r.token /\ m.kind = kind /\ m.turn = t OBVIOUS
<1> HIDE DEF m
<1>5. IsFiniteSet(readers') /\ IsFiniteSet(messages')
  BY <1>1, FS_RemoveElement, FS_AddElement DEF IInv, Typed
<1>6. Typed' BY <1>1, <1>3, <1>5 DEF IInv, Typed, TurnsKept
<1>7. Asking' BY <1>1, <1>4 DEF IInv, Asking, TurnsKept
<1>8. Waiting' BY <1>1 DEF IInv, Waiting
<1>9. Behindhand' BY <1>1, <1>4 DEF IInv, Behindhand
<1>10. ASSUME NEW on \in open PROVE Followed(on)' /\ (panics = 0 => OneWay(on)')
  <2>1. \A x : Mine(x, on)' <=> Mine(x, on) BY <1>1 DEF Mine
  <2>2. Mine(m, on) <=> Mine(r, on) BY <1>4 DEF Mine
  <2>3. Followed(on) /\ (panics = 0 => OneWay(on)) BY <1>10 DEF IInv, Chains
  <2>4. Followed(on)' BY <1>1, <2>1, <2>2, <2>3 DEF Followed
  <2>5. OneWay(on) => OneWay(on)' BY <1>1, <2>1, <2>2 DEF OneWay
  <2>6. QED BY <2>3, <2>4, <2>5
<1>11. Chains' BY <1>1, <1>10 DEF Chains
<1>12. QED BY <1>6, <1>7, <1>8, <1>9, <1>11 DEF IInv, TurnsKept

LEMMA HandIInv == ASSUME IInv, NEW r \in readers, Hand(r) PROVE IInv'
<1>1. r.turn \in Nat /\ r.on \in Links BY DEF IInv, Typed
<1>2. r.turn \in Turns /\ turns[r.turn].stage # "none" => r.turn \in Begun BY DEF Begun
<1>3. CASE Tell(r)
  <2>1. TurnsKept BY <1>2, <1>3, TurnGoesOn DEF Tell, IInv, Stages
  <2>2. QED BY <1>1, <1>3, <2>1, ReadsIInv DEF Tell
<1>4. CASE TellEnd(r) BY <1>1, <1>4, TurnsStay, ReadsIInv DEF TellEnd, IInv
<1>5. CASE \E t \in Turns : AskAt(r, t)
  <2> PICK t \in Turns : AskAt(r, t) BY <1>5
  <2>1. t \in Begun /\ turns[t].at = r.on /\ t \in Nat
    BY BoundsAssumption DEF AskAt, Begun, Turns
  <2>2. TurnsKept BY <2>1, TurnGoesOn DEF AskAt, IInv, Stages
  <2>3. QED BY <2>1, <2>2, ReadsIInv DEF AskAt
<1>6. QED BY <1>3, <1>4, <1>5 DEF Hand

(* A message that lands is taken by the screen that waits for it, which    *)
(* asks for the next piece, has a question on it or is free; or by nobody. *)
LEMMA StaleIInv ==
  ASSUME IInv, TurnsKept, NEW m \in messages, Stale(m), messages' = messages \ {m},
         UNCHANGED <<screen, readers, loads, panics>>
  PROVE  IInv'
<1>1. UNCHANGED <<open, front, talks, readers, loads, panics>>
  BY DEF screen
<1>2. IsFiniteSet(messages') BY FS_RemoveElement DEF IInv, Typed
<1>3. Typed' BY <1>1, <1>2 DEF IInv, Typed, TurnsKept
<1>4. Asking' BY <1>1 DEF IInv, Asking, TurnsKept
<1>5. Waiting' BY <1>1 DEF IInv, Waiting
<1>6. Behindhand' BY <1>1 DEF IInv, Behindhand
<1>7. ASSUME NEW on \in open PROVE Followed(on)' /\ (panics = 0 => OneWay(on)')
  <2>1. \A x : Mine(x, on)' <=> Mine(x, on) BY <1>1 DEF Mine
  <2>2. ~Mine(m, on) BY <1>7 DEF Stale, Mine
  <2>3. Followed(on) /\ (panics = 0 => OneWay(on)) BY <1>7 DEF IInv, Chains
  <2>4. Followed(on)' BY <1>1, <2>1, <2>2, <2>3 DEF Followed
  <2>5. OneWay(on) => OneWay(on)' BY <1>1, <2>1, <2>2 DEF OneWay
  <2>6. QED BY <2>3, <2>4, <2>5
<1>8. Chains' BY <1>1, <1>7 DEF Chains
<1>9. QED BY <1>3, <1>4, <1>5, <1>6, <1>8 DEF IInv, TurnsKept

LEMMA FollowIsReader ==
  ASSUME Typed, NEW on \in Links
  PROVE  /\ Follow(on) \in [turn : Nat, on : Links, token : Nat]
         /\ Follow(on).on = on /\ Follow(on).token = talks[on].token
BY DEF Typed, Follow, Screens

LEMMA AskedIInv ==
  ASSUME IInv, NEW m \in messages, ~Stale(m), readers' = Again(m), messages' = messages \ {m},
         UNCHANGED <<turns, screen, loads, panics>>
  PROVE  IInv'
<1>1. UNCHANGED <<open, front, talks, loads, panics>> BY DEF screen
<1>2. TurnsKept BY TurnsStay DEF IInv
<1>3. m.on \in open /\ m.on \in Links /\ Mine(m, m.on) BY DEF IInv, Typed, Stale, Mine
<1> DEFINE r == Follow(m.on)
<1>4. r \in [turn : Nat, on : Links, token : Nat] /\ r.on = m.on /\ Mine(r, m.on)
  BY <1>3, FollowIsReader DEF IInv, Mine
<1> HIDE DEF r
<1>5. readers' = readers \cup {r} BY DEF Again, r
<1>6. IsFiniteSet(readers') /\ IsFiniteSet(messages')
  BY <1>5, FS_AddElement, FS_RemoveElement, SMTT(30) DEF IInv, Typed
<1>7. Typed' BY <1>1, <1>2, <1>4, <1>5, <1>6 DEF IInv, Typed, TurnsKept
<1>8. Asking' BY <1>1, <1>2 DEF IInv, Asking, TurnsKept
<1>9. Waiting' BY <1>1 DEF IInv, Waiting
<1>10. talks[m.on].token \in Nat /\ r.token = talks[m.on].token
  BY <1>3, <1>4 DEF IInv, Typed, Screens, Mine
<1>11. Behindhand' BY <1>1, <1>4, <1>5, <1>10 DEF IInv, Behindhand
<1>12. ASSUME NEW on \in open PROVE Followed(on)' /\ (panics = 0 => OneWay(on)')
  <2>1. \A x : Mine(x, on)' <=> Mine(x, on) BY <1>1 DEF Mine
  <2>2. Mine(r, on) <=> on = m.on BY <1>4 DEF Mine
  <2>3. Mine(m, on) <=> on = m.on BY <1>3 DEF Mine
  <2>4. Followed(on) /\ (panics = 0 => OneWay(on)) BY <1>12 DEF IInv, Chains
  <2>5. Followed(on)' BY <1>1, <1>5, <2>1, <2>2, <2>3, <2>4 DEF Followed
  <2>6. OneWay(on) => OneWay(on)' BY <1>1, <1>5, <2>1, <2>2, <2>3 DEF OneWay
  <2>7. QED BY <2>4, <2>5, <2>6
<1>13. Chains' BY <1>1, <1>12 DEF Chains
<1>14. QED BY <1>2, <1>7, <1>8, <1>9, <1>11, <1>13 DEF IInv, TurnsKept

(* One screen changes, and the others are as they were.                    *)
LEMMA OneScreen ==
  ASSUME Typed, NEW on \in Links, NEW talk \in Screens, talks' = [talks EXCEPT ![on] = talk]
  PROVE  /\ talks' \in [Links -> Screens]
         /\ \A l \in Links : talks'[l] = IF l = on THEN talk ELSE talks[l]
BY DEF Typed

LEMMA PutIInv ==
  ASSUME IInv, NEW m \in messages, m.kind = "approval", ~Stale(m), talks' = Put(m),
         messages' = messages \ {m}, UNCHANGED <<open, front, turns, readers, loads, panics>>
  PROVE  IInv'
<1>1. UNCHANGED loads OBVIOUS
<1>2. TurnsKept BY TurnsStay DEF IInv
<1>3. m.on \in open /\ m.on \in Links /\ Mine(m, m.on) BY DEF IInv, Typed, Stale, Mine
<1>4. m.turn \in Begun /\ m.turn \in Turns /\ turns[m.turn].at = m.on
  BY DEF IInv, Asking, Begun
<1> DEFINE talk == [talks[m.on] EXCEPT !.pending = m.turn]
<1>5. talks[m.on] \in Screens BY <1>3 DEF IInv, Typed
<1>6. /\ talk \in Screens /\ talk.pending = m.turn /\ talk.token = talks[m.on].token
      /\ talk.busy = talks[m.on].busy /\ talk.waiting = talks[m.on].waiting
      /\ talk.agent = talks[m.on].agent
  BY <1>4, <1>5 DEF Screens
<1>7. talks' = [talks EXCEPT ![m.on] = talk] BY DEF Put
<1> HIDE DEF talk
<1>8. /\ talks' \in [Links -> Screens]
      /\ \A l \in Links : talks'[l] = IF l = m.on THEN talk ELSE talks[l]
  BY <1>3, <1>6, <1>7, OneScreen DEF IInv
<1>9. IsFiniteSet(messages') BY FS_RemoveElement DEF IInv, Typed
<1>10. Typed' BY <1>1, <1>2, <1>8, <1>9 DEF IInv, Typed, TurnsKept
<1>11. Asking' BY <1>2, <1>4, <1>6, <1>8 DEF IInv, Asking, TurnsKept
<1>12. Waiting' BY <1>6, <1>8 DEF IInv, Waiting
<1>13. \A on \in Links : talks'[on].token = talks[on].token /\ talks'[on].busy = talks[on].busy
  BY <1>6, <1>8
<1>14. Behindhand' BY <1>13 DEF IInv, Behindhand, Typed
<1>15. ASSUME NEW on \in open PROVE Followed(on)' /\ (panics = 0 => OneWay(on)')
  <2>0. on \in Links BY <1>15 DEF IInv, Typed
  <2>1. \A x : Mine(x, on)' <=> Mine(x, on) BY <1>13, <2>0 DEF Mine
  <2>2. Mine(m, on) <=> on = m.on BY <1>3 DEF Mine
  <2>3. Followed(on) /\ (panics = 0 => OneWay(on)) BY <1>15 DEF IInv, Chains
  <2>4. m.turn # 0 BY <1>4, BoundsAssumption DEF Turns
  <2>5. talks'[on].pending = IF on = m.on THEN m.turn ELSE talks[on].pending
    BY <1>6, <1>8, <2>0
  <2>6. Followed(on)' BY <1>13, <2>0, <2>1, <2>2, <2>3, <2>4, <2>5 DEF Followed
  <2>7. OneWay(on) => OneWay(on)' BY <1>13, <2>0, <2>1, <2>2, <2>4, <2>5 DEF OneWay
  <2>8. QED BY <2>3, <2>6, <2>7
<1>16. Chains' BY <1>15 DEF Chains
<1>17. QED BY <1>2, <1>10, <1>11, <1>12, <1>14, <1>16 DEF IInv, TurnsKept

LEMMA FinishedIInv ==
  ASSUME IInv, NEW m \in messages, ~Stale(m),
         talks' = [talks EXCEPT ![m.on].busy = FALSE, ![m.on].stop = 0],
         messages' = messages \ {m}, UNCHANGED <<open, front, turns, readers, loads, panics>>
  PROVE  IInv'
<1>1. UNCHANGED loads OBVIOUS
<1>2. TurnsKept BY TurnsStay DEF IInv
<1>3. m.on \in open /\ m.on \in Links /\ Mine(m, m.on) BY DEF IInv, Typed, Stale, Mine
<1> DEFINE talk == [talks[m.on] EXCEPT !.busy = FALSE, !.stop = 0]
<1>5. talks[m.on] \in Screens BY <1>3 DEF IInv, Typed
<1>6. /\ talk \in Screens /\ talk.pending = talks[m.on].pending
      /\ talk.token = talks[m.on].token /\ ~talk.busy
      /\ talk.waiting = talks[m.on].waiting /\ talk.agent = talks[m.on].agent
  BY <1>5 DEF Screens
<1>7. talks' = [talks EXCEPT ![m.on] = talk] BY <1>3 DEF IInv, Typed
<1> HIDE DEF talk
<1>8. /\ talks' \in [Links -> Screens]
      /\ \A l \in Links : talks'[l] = IF l = m.on THEN talk ELSE talks[l]
  BY <1>3, <1>6, <1>7, OneScreen DEF IInv
<1>9. IsFiniteSet(messages') BY FS_RemoveElement DEF IInv, Typed
<1>10. Typed' BY <1>1, <1>2, <1>8, <1>9 DEF IInv, Typed, TurnsKept
<1>11. \A on \in Links : /\ talks'[on].token = talks[on].token
                         /\ talks'[on].pending = talks[on].pending
                         /\ talks'[on].busy <=> (on # m.on /\ talks[on].busy)
  BY <1>6, <1>8
<1>12. Asking'
  <2>1. \A l \in messages' : l.kind = "approval" => l.turn \in Begun' /\ turns'[l.turn].at = l.on
    BY <1>2 DEF IInv, Asking, TurnsKept
  <2>2. \A on \in Links : talks'[on].pending = talks[on].pending BY <1>11
  <2>3. QED BY <1>2, <2>1, <2>2 DEF IInv, Asking, TurnsKept
<1>13. Waiting' BY <1>6, <1>8 DEF IInv, Waiting
<1>14. Behindhand' BY <1>11 DEF IInv, Behindhand, Typed
<1>15. ASSUME NEW on \in open PROVE Followed(on)' /\ (panics = 0 => OneWay(on)')
  <2>0. on \in Links BY <1>15 DEF IInv, Typed
  <2>1. \A x : Mine(x, on)' <=> Mine(x, on) BY <1>11, <2>0 DEF Mine
  <2>2. Mine(m, on) <=> on = m.on BY <1>3 DEF Mine
  <2>3. Followed(on) /\ (panics = 0 => OneWay(on)) BY <1>15 DEF IInv, Chains
  <2>4. Followed(on)' BY <1>11, <2>0, <2>1, <2>2, <2>3 DEF Followed
  <2>5. OneWay(on) => OneWay(on)' BY <1>11, <2>0, <2>1, <2>2 DEF OneWay
  <2>6. QED BY <2>3, <2>4, <2>5
<1>16. Chains' BY <1>15 DEF Chains
<1>17. QED BY <1>2, <1>10, <1>12, <1>13, <1>14, <1>16 DEF IInv, TurnsKept

LEMMA LandIInv == ASSUME IInv, NEW m \in messages, Land(m) PROVE IInv'
<1>1. /\ messages' = messages \ {m}
      /\ UNCHANGED <<open, front, loads, panics>>
  BY DEF Land
<1>2. CASE Asked(m)
  <2>1. CASE Stale(m)
    <3>1. UNCHANGED <<turns, readers, screen>> BY <1>1, <1>2, <2>1 DEF Asked, screen
    <3>2. QED BY <1>1, <2>1, <3>1, TurnsStay, StaleIInv DEF IInv
  <2>2. CASE ~Stale(m)
    <3>1. readers' = Again(m) /\ UNCHANGED <<turns, screen>>
      BY <1>1, <1>2, <2>2 DEF Asked, screen
    <3>2. QED BY <1>1, <2>2, <3>1, AskedIInv
  <2>3. QED BY <2>1, <2>2
<1>3. CASE Approving(m)
  <2>1. CASE Stale(m)
    <3>1. Answered(m.turn) /\ UNCHANGED <<readers, screen>>
      BY <1>1, <1>3, <2>1 DEF Approving, screen
    <3>2. m.turn \in Begun BY <1>3 DEF Approving, IInv, Asking
    <3>3. TurnsKept BY <3>1, <3>2, AnsweredKeeps DEF IInv
    <3>4. QED BY <1>1, <2>1, <3>1, <3>3, StaleIInv
  <2>2. CASE ~Stale(m) BY <1>1, <1>3, <2>2, PutIInv DEF Approving
  <2>3. QED BY <2>1, <2>2
<1>4. CASE Finished(m)
  <2>1. CASE Stale(m)
    <3>1. UNCHANGED <<turns, readers, screen>> BY <1>1, <1>4, <2>1 DEF Finished, screen
    <3>2. QED BY <1>1, <2>1, <3>1, TurnsStay, StaleIInv DEF IInv
  <2>2. CASE ~Stale(m) BY <1>1, <1>4, <2>2, FinishedIInv DEF Finished
  <2>3. QED BY <2>1, <2>2
<1>5. QED BY <1>2, <1>3, <1>4 DEF Land

(* What neither begins a turn nor hands anything over: screens keep their  *)
(* turns and what follows them, unless they are gone or a job fell over.   *)
LEMMA QuietIInv ==
  ASSUME IInv, UNCHANGED <<turns, readers, messages>>,
         open' \subseteq open, front' \in open', talks' \in [Links -> Screens],
         loads' \subseteq Load, panics' \in Nat,
         \A on \in Links : talks'[on].pending \in {0, talks[on].pending},
         \A on \in Links : talks'[on].waiting =>
           talks'[on].agent = NoAgent /\ ~talks'[on].busy /\ Local,
         \A on \in open' : /\ talks'[on].token = talks[on].token
                           /\ talks'[on].pending = talks[on].pending
                           /\ talks'[on].busy => talks[on].busy,
         panics' = 0 => panics = 0 /\ \A on \in open' : talks'[on].busy = talks[on].busy
  PROVE  IInv'
<1>1. TurnsKept BY TurnsStay DEF IInv
<1>2. Typed' BY <1>1 DEF IInv, Typed, TurnsKept
<1>3. Asking' BY <1>1 DEF IInv, Asking, TurnsKept
<1>4. Waiting' BY DEF Waiting
<1>5. Behindhand' BY DEF IInv, Behindhand
<1>6. ASSUME NEW on \in open' PROVE Followed(on)' /\ (panics' = 0 => OneWay(on)')
  <2>1. \A x : Mine(x, on)' <=> Mine(x, on) BY <1>6 DEF Mine
  <2>2. Followed(on) /\ (panics = 0 => OneWay(on)) BY <1>6 DEF IInv, Chains
  <2>3. Followed(on)' BY <1>6, <2>1, <2>2 DEF Followed
  <2>4. panics' = 0 => OneWay(on)' BY <1>6, <2>1, <2>2 DEF OneWay
  <2>5. QED BY <2>3, <2>4
<1>7. Chains' BY <1>6 DEF Chains
<1>8. QED BY <1>1, <1>2, <1>3, <1>4, <1>5, <1>7 DEF IInv, TurnsKept

(* A turn begins on a screen with none, and is followed in one way: its    *)
(* token is ahead of all that was handed over.                             *)
LEMMA StartIInv ==
  ASSUME IInv, NEW agent \in Agent, NEW talk \in Screens, Start(agent, talk),
         ~talks[front].busy, talk.pending = talks[front].pending,
         talk.token = talks[front].token, ~talk.waiting, loads' \subseteq Load,
         UNCHANGED <<open, front, messages, panics>>
  PROVE  IInv'
<1> DEFINE t == Cardinality(Begun) + 1
           now == [talk EXCEPT !.agent = agent, !.busy = TRUE, !.token = @ + 1, !.running = t,
                               !.stop = t]
           r == [turn |-> t, on |-> front, token |-> talk.token + 1]
<1>1. /\ t \in Turns
      /\ turns' = [turns EXCEPT ![t].stage = "working", ![t].at = agent]
      /\ talks' = [talks EXCEPT ![front] = now] /\ readers' = readers \cup {r}
  BY DEF Start
<1>2. agent \in Links /\ front \in Links /\ front \in open BY DEF Agent, IInv, Typed
<1>3. TurnsKept BY <1>1, <1>2, TurnBegins DEF IInv
<1>4. t \in Nat BY <1>1, BoundsAssumption DEF Turns
<1> HIDE DEF t
<1>5. /\ now \in Screens /\ now.token = talk.token + 1 /\ now.pending = talk.pending
      /\ now.busy /\ ~now.waiting /\ talk.token \in Nat
  <2>1. talk.token \in Nat BY DEF Screens
  <2> DEFINE busy == [talk EXCEPT !.agent = agent, !.busy = TRUE]
             next == [busy EXCEPT !.token = talk.token + 1]
  <2>2. /\ busy \in Screens /\ busy.token = talk.token /\ busy.pending = talk.pending
        /\ busy.busy /\ ~busy.waiting
    BY DEF Screens
  <2> HIDE DEF busy
  <2>3. /\ next \in Screens /\ next.token = talk.token + 1 /\ next.pending = talk.pending
        /\ next.busy /\ ~next.waiting
    BY <2>1, <2>2 DEF Screens
  <2>4. now = [next EXCEPT !.running = t, !.stop = t] BY DEF busy
  <2> HIDE DEF now, next
  <2>5. QED BY <1>4, <2>1, <2>3, <2>4 DEF Screens
<1>6. r \in [turn : Nat, on : Links, token : Nat] /\ r.on = front /\ r.token = talk.token + 1
  BY <1>2, <1>4, <1>5
<1> HIDE DEF now, r
<1>7. /\ talks' \in [Links -> Screens]
      /\ \A l \in Links : talks'[l] = IF l = front THEN now ELSE talks[l]
  BY <1>1, <1>2, <1>5, OneScreen DEF IInv
<1>8. IsFiniteSet(readers') BY <1>1, FS_AddElement DEF IInv, Typed
<1>9. Typed' BY <1>1, <1>3, <1>6, <1>7, <1>8 DEF IInv, Typed, TurnsKept
<1>10. \A on \in Links : talks'[on].pending = talks[on].pending BY <1>5, <1>7
<1>11. Asking'
  <2>1. \A l \in messages' : l.kind = "approval" => l.turn \in Begun' /\ turns'[l.turn].at = l.on
    BY <1>3 DEF IInv, Asking, TurnsKept
  <2>2. QED BY <1>3, <1>10, <2>1 DEF IInv, Asking, TurnsKept
<1>12. Waiting' BY <1>5, <1>7 DEF IInv, Waiting
<1>13. Behindhand'
  <2>1. ASSUME NEW x \in readers \cup messages, x.on \in open
        PROVE  x.token =< talks'[x.on].token
    <3>1. x.token =< talks[x.on].token /\ x.token \in Nat /\ x.on \in Links
      BY <2>1 DEF IInv, Behindhand, Typed
    <3>2. CASE x.on = front BY <1>5, <1>7, <3>1, <3>2
    <3>3. CASE x.on # front BY <1>7, <3>1, <3>3
    <3>4. QED BY <3>2, <3>3
  <2>2. r.token =< talks'[r.on].token BY <1>2, <1>5, <1>6, <1>7
  <2>3. QED BY <1>1, <2>1, <2>2 DEF Behindhand
<1>14. \A x \in readers \cup messages : ~Mine(x, front)'
  <2>1. ASSUME NEW x \in readers \cup messages, Mine(x, front)' PROVE FALSE
    <3>1. x.on = front /\ x.token = talk.token + 1 BY <1>2, <1>5, <1>7, <2>1 DEF Mine
    <3>2. x.token =< talk.token BY <1>2, <3>1 DEF IInv, Behindhand
    <3>3. QED BY <1>5, <3>1, <3>2
  <2>2. QED BY <2>1
<1>15. r.on = front /\ r.token = talks'[front].token BY <1>2, <1>5, <1>6, <1>7
<1>16. ASSUME NEW on \in open PROVE Followed(on)' /\ (panics = 0 => OneWay(on)')
  <2>0. on \in Links BY <1>16 DEF IInv, Typed
  <2>1. Followed(on) /\ (panics = 0 => OneWay(on)) BY <1>16 DEF IInv, Chains
  <2>2. CASE on = front
    <3>1. panics = 0 => talks'[on].pending = 0 BY <1>10, <2>0, <2>1, <2>2 DEF OneWay
    <3>2. talks'[on].busy BY <1>5, <1>7, <2>0, <2>2
    <3>3. Followed(on)' BY <1>1, <1>15, <2>2 DEF Followed, Mine
    <3>4. panics = 0 => OneWay(on)' BY <1>1, <1>14, <2>2, <3>1, <3>2 DEF OneWay
    <3>5. QED BY <3>3, <3>4
  <2>3. CASE on # front
    <3>1. talks'[on] = talks[on] BY <1>7, <2>0, <2>3
    <3>2. \A x : Mine(x, on)' <=> Mine(x, on) BY <3>1 DEF Mine
    <3>3. ~Mine(r, on) BY <1>6, <2>3 DEF Mine
    <3>4. Followed(on)' BY <1>1, <2>1, <3>1, <3>2 DEF Followed
    <3>5. OneWay(on) => OneWay(on)' BY <1>1, <3>1, <3>2, <3>3 DEF OneWay
    <3>6. QED BY <2>1, <3>4, <3>5
  <2>4. QED BY <2>2, <2>3
<1>17. Chains' BY <1>16 DEF Chains
<1>18. QED BY <1>3, <1>9, <1>11, <1>12, <1>13, <1>17 DEF IInv, TurnsKept

(* An answer lets the turn be read on, in the place of its question.       *)
LEMMA DecideIInv == ASSUME IInv, Decide PROVE IInv'
<1>1. /\ talks[front].pending # 0 /\ Answered(talks[front].pending)
      /\ talks' = [talks EXCEPT ![front].pending = 0]
      /\ readers' = readers \cup {Follow(front)}
      /\ UNCHANGED <<open, front, messages, loads, panics>>
  BY DEF Decide, Clear
<1>2. front \in Links /\ front \in open BY DEF IInv, Typed
<1>3. talks[front].pending \in Begun BY <1>1, <1>2 DEF IInv, Asking
<1>4. TurnsKept BY <1>1, <1>3, AnsweredKeeps DEF IInv
<1> DEFINE r == Follow(front)
           talk == [talks[front] EXCEPT !.pending = 0]
<1>5. r \in [turn : Nat, on : Links, token : Nat] /\ r.on = front /\ Mine(r, front)
  BY <1>2, FollowIsReader DEF IInv, Mine
<1>6. talks[front] \in Screens BY <1>2 DEF IInv, Typed
<1>7. /\ talk \in Screens /\ talk.pending = 0 /\ talk.token = talks[front].token
      /\ talk.busy = talks[front].busy /\ talk.waiting = talks[front].waiting
      /\ talk.agent = talks[front].agent
  BY <1>6 DEF Screens
<1>8. talks' = [talks EXCEPT ![front] = talk] /\ readers' = readers \cup {r} BY <1>1
<1> HIDE DEF r, talk
<1>9. /\ talks' \in [Links -> Screens]
      /\ \A l \in Links : talks'[l] = IF l = front THEN talk ELSE talks[l]
  BY <1>2, <1>7, <1>8, OneScreen DEF IInv
<1>10. IsFiniteSet(readers') BY <1>8, FS_AddElement DEF IInv, Typed
<1>11. Typed' BY <1>1, <1>4, <1>5, <1>8, <1>9, <1>10 DEF IInv, Typed, TurnsKept
<1>12. \A on \in Links : /\ talks'[on].token = talks[on].token
                         /\ talks'[on].busy = talks[on].busy
                         /\ talks'[on].pending = IF on = front THEN 0 ELSE talks[on].pending
  BY <1>7, <1>9
<1>13. Asking'
  <2>1. \A l \in messages' : l.kind = "approval" => l.turn \in Begun' /\ turns'[l.turn].at = l.on
    BY <1>1, <1>4 DEF IInv, Asking, TurnsKept
  <2>2. QED BY <1>4, <1>12, <2>1 DEF IInv, Asking, TurnsKept
<1>14. Waiting' BY <1>7, <1>9 DEF IInv, Waiting
<1>15. r.token = talks[front].token /\ talks[front].token \in Nat
  BY <1>5, <1>6 DEF Mine, Screens
<1>16. Behindhand' BY <1>1, <1>2, <1>5, <1>8, <1>12, <1>15 DEF IInv, Behindhand, Typed
<1>17. ASSUME NEW on \in open PROVE Followed(on)' /\ (panics = 0 => OneWay(on)')
  <2>0. on \in Links BY <1>17 DEF IInv, Typed
  <2>1. \A x : Mine(x, on)' <=> Mine(x, on) BY <1>12, <2>0 DEF Mine
  <2>2. Mine(r, on) <=> on = front BY <1>5 DEF Mine
  <2>3. Followed(on) /\ (panics = 0 => OneWay(on)) BY <1>17 DEF IInv, Chains
  <2>4. Followed(on)' BY <1>1, <1>8, <1>12, <2>0, <2>1, <2>2, <2>3 DEF Followed
  <2>5. OneWay(on) => OneWay(on)' BY <1>1, <1>8, <1>12, <2>0, <2>1, <2>2 DEF OneWay
  <2>6. QED BY <2>3, <2>4, <2>5
<1>18. Chains' BY <1>1, <1>17 DEF Chains
<1>19. QED BY <1>4, <1>11, <1>13, <1>14, <1>16, <1>18 DEF IInv, TurnsKept

LEMMA ReadyIInv == ASSUME IInv, NEW load \in loads, Ready(load) PROVE IInv'
<1> DEFINE talk == [talks[front] EXCEPT !.loading = FALSE, !.waiting = FALSE]
           agent == load
<1>1. front \in Links /\ front \in open /\ talks[front] \in Screens BY DEF IInv, Typed
<1>2. loads' = loads \ {load} /\ UNCHANGED <<open, front, messages, panics>>
  BY DEF Ready
<1>3. agent \in Agent BY DEF IInv, Typed, Load, Agent
<1>4. /\ talk \in Screens /\ talk.pending = talks[front].pending
      /\ talk.token = talks[front].token /\ ~talk.waiting /\ talk.busy = talks[front].busy
  BY <1>1 DEF Screens
<1>5. loads' \subseteq Load BY <1>2 DEF IInv, Typed
<1>6. \/ talks' = [talks EXCEPT ![front] = talk] /\ UNCHANGED <<turns, readers>>
      \/ talks[front].waiting /\ Start(agent, talk)
      \/ /\ talks' = [talks EXCEPT ![front] = [talk EXCEPT !.agent = agent]]
         /\ UNCHANGED <<turns, readers>>
  BY DEF Ready
<1>7. /\ [talk EXCEPT !.agent = agent] \in Screens
      /\ [talk EXCEPT !.agent = agent].pending = talk.pending
      /\ [talk EXCEPT !.agent = agent].token = talk.token
      /\ [talk EXCEPT !.agent = agent].waiting = talk.waiting
      /\ [talk EXCEPT !.agent = agent].busy = talk.busy
  BY <1>3, <1>4 DEF Screens
<1> HIDE DEF talk, agent
<1>8. ASSUME NEW now \in Screens, talks' = [talks EXCEPT ![front] = now],
             UNCHANGED <<turns, readers>>, now.pending = talk.pending,
             now.token = talk.token, now.waiting = talk.waiting, now.busy = talk.busy
      PROVE  IInv'
  <2>1. /\ talks' \in [Links -> Screens]
        /\ \A l \in Links : talks'[l] = IF l = front THEN now ELSE talks[l]
    BY <1>1, <1>8, OneScreen DEF IInv
  <2>2. \A on \in Links : talks'[on].pending \in {0, talks[on].pending}
    BY <1>4, <1>8, <2>1
  <2>3. \A on \in Links : talks'[on].waiting =>
          talks'[on].agent = NoAgent /\ ~talks'[on].busy /\ Local
    BY <1>4, <1>8, <2>1 DEF IInv, Waiting
  <2>4. \A on \in Links : /\ talks'[on].token = talks[on].token
                          /\ talks'[on].pending = talks[on].pending
                          /\ talks'[on].busy = talks[on].busy
    BY <1>4, <1>8, <2>1
  <2>5. open \subseteq Links BY DEF IInv, Typed
  <2>6. front' \in open' /\ panics' \in Nat
    BY <1>2 DEF IInv, Typed
  <2>7. QED BY <1>2, <1>5, <1>8, <2>1, <2>2, <2>3, <2>4, <2>5, <2>6, QuietIInv
<1>9. CASE talks[front].waiting /\ Start(agent, talk)
  <2>1. ~talks[front].busy BY <1>1, <1>9 DEF IInv, Waiting
  <2>2. QED BY <1>2, <1>3, <1>4, <1>5, <1>9, <2>1, StartIInv
<1>10. QED BY <1>4, <1>6, <1>7, <1>8, <1>9

LEMMA SendIInv == ASSUME IInv, Send PROVE IInv'
<1> DEFINE talk == talks[front]
           new == front
<1>1. front \in Links /\ front \in open /\ talk \in Screens
  BY DEF IInv, Typed
<1>2. /\ talk.pending = 0 /\ ~talk.busy
      /\ UNCHANGED <<open, front, messages, panics>>
  BY DEF Send, Clear
<1>3. new \in Agent /\ new \in Load BY <1>1 DEF Agent, Load
<1>4. CASE talk.agent = NoAgent /\ Local
  <2> DEFINE now == [talk EXCEPT !.loading = TRUE, !.waiting = TRUE]
  <2>1. /\ loads' = loads \cup {new} /\ UNCHANGED <<turns, readers>>
        /\ talks' = [talks EXCEPT ![front].loading = TRUE, ![front].waiting = TRUE]
    BY <1>4 DEF Send
  <2>2. talks' = [talks EXCEPT ![front] = now] BY <1>1, <2>1 DEF IInv, Typed
  <2>3. /\ now \in Screens /\ now.pending = talk.pending /\ now.token = talk.token
        /\ now.busy = talk.busy /\ now.agent = talk.agent
    BY <1>1 DEF Screens
  <2> HIDE DEF now
  <2>4. /\ talks' \in [Links -> Screens]
        /\ \A l \in Links : talks'[l] = IF l = front THEN now ELSE talks[l]
    BY <1>1, <2>2, <2>3, OneScreen DEF IInv
  <2>5. \A on \in Links : talks'[on].pending \in {0, talks[on].pending}
    BY <2>3, <2>4
  <2>6. \A on \in Links : talks'[on].waiting =>
          talks'[on].agent = NoAgent /\ ~talks'[on].busy /\ Local
    BY <1>2, <1>4, <2>3, <2>4 DEF IInv, Waiting
  <2>7. \A on \in Links : /\ talks'[on].token = talks[on].token
                          /\ talks'[on].pending = talks[on].pending
                          /\ talks'[on].busy = talks[on].busy
    BY <2>3, <2>4
  <2>8. open \subseteq Links /\ loads' \subseteq Load /\ panics' \in Nat
    BY <1>2, <1>3, <2>1 DEF IInv, Typed
  <2>9. QED BY <1>1, <1>2, <2>1, <2>4, <2>5, <2>6, <2>7, <2>8, QuietIInv
<1>5. CASE ~(talk.agent = NoAgent /\ Local)
  <2>1. Start(IF talk.agent = NoAgent THEN new ELSE talk.agent, talk) /\ UNCHANGED loads
    BY <1>5 DEF Send
  <2>2. (IF talk.agent = NoAgent THEN new ELSE talk.agent) \in Agent
    BY <1>1, <1>3 DEF Screens
  <2>3. ~talk.waiting BY <1>1, <1>5 DEF IInv, Waiting
  <2>4. loads' \subseteq Load BY <2>1 DEF IInv, Typed
  <2>5. QED BY <1>1, <1>2, <2>1, <2>2, <2>3, <2>4, StartIInv
<1>6. QED BY <1>4, <1>5

(* The other keys, and a job that falls over.                              *)
LEMMA ReleasedIInv == ASSUME IInv, Released PROVE IInv'
<1> DEFINE now == [talks[front] EXCEPT !.agent = NoAgent, !.loading = FALSE]
<1>1. front \in Links /\ front \in open /\ talks[front] \in Screens BY DEF IInv, Typed
<1>2. /\ talks' = [talks EXCEPT ![front].agent = NoAgent, ![front].loading = FALSE]
      /\ talks[front].agent # NoAgent
      /\ UNCHANGED <<open, front, turns, readers, messages, loads, panics>>
  BY DEF Released, channels
<1>3. talks' = [talks EXCEPT ![front] = now] BY <1>1, <1>2 DEF IInv, Typed
<1>4. /\ now \in Screens /\ now.pending = talks[front].pending
      /\ now.token = talks[front].token /\ now.busy = talks[front].busy
      /\ now.waiting = talks[front].waiting
  BY <1>1 DEF Screens
<1> HIDE DEF now
<1>5. /\ talks' \in [Links -> Screens]
      /\ \A l \in Links : talks'[l] = IF l = front THEN now ELSE talks[l]
  BY <1>1, <1>3, <1>4, OneScreen DEF IInv
<1>6. \A on \in Links : talks'[on].pending \in {0, talks[on].pending} BY <1>4, <1>5
<1>7. \A on \in Links : talks'[on].waiting =>
        talks'[on].agent = NoAgent /\ ~talks'[on].busy /\ Local
  BY <1>1, <1>2, <1>4, <1>5 DEF IInv, Waiting
<1>8. \A on \in Links : /\ talks'[on].token = talks[on].token
                        /\ talks'[on].pending = talks[on].pending
                        /\ talks'[on].busy = talks[on].busy
  BY <1>4, <1>5
<1>9. open \subseteq Links /\ loads \subseteq Load /\ panics \in Nat
  BY DEF IInv, Typed
<1>10. QED BY <1>1, <1>2, <1>5, <1>6, <1>7, <1>8, <1>9, QuietIInv

LEMMA ChooseIInv == ASSUME IInv, Choose PROVE IInv'
<1>1. /\ talks' = Unbuilt
      /\ UNCHANGED <<open, front, turns, readers, messages, loads, panics>>
  BY DEF Choose, channels
<1>2. ASSUME NEW on \in Links
      PROVE  /\ talks'[on] \in Screens /\ talks'[on].pending = talks[on].pending
             /\ talks'[on].token = talks[on].token /\ talks'[on].busy = talks[on].busy
             /\ talks'[on].waiting = talks[on].waiting /\ talks'[on].agent = NoAgent
  <2>1. talks[on] \in Screens /\ talks'[on] = [talks[on] EXCEPT !.agent = NoAgent]
    BY <1>1 DEF IInv, Typed, Unbuilt
  <2>2. QED BY <2>1 DEF Screens
<1>3. talks' \in [Links -> Screens] BY <1>1, <1>2 DEF Unbuilt
<1>5. \A on \in Links : talks'[on].waiting =>
        talks'[on].agent = NoAgent /\ ~talks'[on].busy /\ Local
  BY <1>2 DEF IInv, Waiting
<1>6. open \subseteq Links /\ loads \subseteq Load /\ panics \in Nat /\ front \in open
  BY DEF IInv, Typed
<1>7. QED BY <1>1, <1>2, <1>3, <1>5, <1>6, QuietIInv

LEMMA LinksIInv ==
  ASSUME IInv, Switch \/ \E on \in Links : Disconnect(on)
  PROVE  IInv'
<1>1. /\ open \subseteq Links /\ loads \subseteq Load /\ panics \in Nat
      /\ talks \in [Links -> Screens]
  BY DEF IInv, Typed
<1>2. \A on \in Links : talks[on].waiting =>
        talks[on].agent = NoAgent /\ ~talks[on].busy /\ Local
  BY DEF IInv, Waiting
<1>3. CASE Switch
  <2>1. /\ front' \in open
        /\ UNCHANGED <<open, talks, turns, readers, messages, loads, panics>>
    BY <1>3 DEF Switch, channels
  <2>2. QED BY <1>1, <1>2, <2>1, QuietIInv
<1>4. CASE \E on \in Links : Disconnect(on)
  <2> PICK gone \in Links : Disconnect(gone) BY <1>4
  <2>1. /\ open' = open \ {gone} /\ talks' = [talks EXCEPT ![gone] = NewTalk]
        /\ UNCHANGED <<turns, readers, messages, loads, panics>>
    BY DEF Disconnect, channels
  <2>2. front' \in open' BY <2>1 DEF Disconnect, Behind, IInv, Typed
  <2>3. /\ NewTalk \in Screens /\ NewTalk.pending = 0 /\ ~NewTalk.waiting
    BY DEF NewTalk, Screens
  <2>4. /\ talks' \in [Links -> Screens]
        /\ \A l \in Links : talks'[l] = IF l = gone THEN NewTalk ELSE talks[l]
    BY <1>1, <2>1, <2>3
  <2>5. \A on \in Links : talks'[on].pending \in {0, talks[on].pending} BY <2>3, <2>4
  <2>6. \A on \in Links : talks'[on].waiting =>
          talks'[on].agent = NoAgent /\ ~talks'[on].busy /\ Local
    BY <1>2, <2>3, <2>4
  <2>7. \A on \in open' : talks'[on] = talks[on] BY <1>1, <2>1, <2>4
  <2>8. QED BY <1>1, <2>1, <2>2, <2>4, <2>5, <2>6, <2>7, QuietIInv
<1>5. QED BY <1>3, <1>4

LEMMA CrashedIInv == ASSUME IInv, Crashed PROVE IInv'
<1> DEFINE now == [talks[front] EXCEPT !.busy = FALSE, !.loading = FALSE, !.stop = 0]
<1>1. front \in Links /\ front \in open /\ talks[front] \in Screens BY DEF IInv, Typed
<1>2. /\ talks' = [talks EXCEPT ![front].busy = FALSE, ![front].loading = FALSE,
                                ![front].stop = 0]
      /\ loads' \subseteq loads /\ panics' = panics + 1
      /\ UNCHANGED <<open, front, turns, readers, messages>>
  BY DEF Crashed, channels
<1>3. talks' = [talks EXCEPT ![front] = now] BY <1>1, <1>2 DEF IInv, Typed
<1>4. /\ now \in Screens /\ now.pending = talks[front].pending
      /\ now.token = talks[front].token /\ ~now.busy
      /\ now.waiting = talks[front].waiting /\ now.agent = talks[front].agent
  BY <1>1 DEF Screens
<1> HIDE DEF now
<1>5. /\ talks' \in [Links -> Screens]
      /\ \A l \in Links : talks'[l] = IF l = front THEN now ELSE talks[l]
  BY <1>1, <1>3, <1>4, OneScreen DEF IInv
<1>6. \A on \in Links : talks'[on].pending \in {0, talks[on].pending} BY <1>4, <1>5
<1>7. \A on \in Links : talks'[on].waiting =>
        talks'[on].agent = NoAgent /\ ~talks'[on].busy /\ Local
  BY <1>1, <1>4, <1>5 DEF IInv, Waiting
<1>8. \A on \in Links : /\ talks'[on].token = talks[on].token
                        /\ talks'[on].pending = talks[on].pending
                        /\ talks'[on].busy => talks[on].busy
  BY <1>4, <1>5
<1>9. open \subseteq Links /\ loads' \subseteq Load
  BY <1>2 DEF IInv, Typed
<1>10. panics' \in Nat /\ panics' # 0 BY <1>2 DEF IInv, Typed
<1>11. QED BY <1>1, <1>2, <1>5, <1>6, <1>7, <1>8, <1>9, <1>10, QuietIInv

(* Every step keeps it.                                                    *)
LEMMA StepIInv == IInv /\ [Next]_vars => IInv'
<1> SUFFICES ASSUME IInv, [Next]_vars PROVE IInv' OBVIOUS
<1>1. ASSUME NEW t \in Turns, Work(t) PROVE IInv'
  <2>1. t \in Begun BY <1>1 DEF Work, Begun
  <2>2. TurnsKept
    BY <1>1, <2>1, TurnGoesOn DEF Work, IInv, Stages
  <2>3. QED BY <1>1, <2>2, BesideIInv DEF Work
<1>2. ASSUME NEW t \in Turns, GivesUp(t) PROVE IInv'
  <2>1. t \in Begun BY <1>2 DEF GivesUp, Begun
  <2>2. TurnsKept BY <1>2, <2>1, TurnGoesOn DEF GivesUp, IInv, Stages
  <2>3. QED BY <1>2, <2>2, BesideIInv DEF GivesUp
<1>3. CASE Beside BY <1>1, <1>2, <1>3, HandIInv, LandIInv, ReadyIInv DEF Beside
<1>4. CASE Halt
  <2>1. TurnsKept BY <1>4, TurnIsCancelled DEF Halt, IInv
  <2>2. QED BY <1>4, <2>1, BesideIInv DEF Halt
<1>5. CASE Person
  BY <1>4, <1>5, SendIInv, ReleasedIInv, ChooseIInv, LinksIInv, DecideIInv DEF Person
<1>6. CASE UNCHANGED vars
  <2>1. UNCHANGED <<turns, screen, readers, messages, loads, panics>>
    BY <1>6 DEF vars, channels
  <2>2. QED BY <2>1, TurnsStay, BesideIInv DEF IInv
<1>7. QED BY <1>3, <1>5, <1>6, CrashedIInv DEF Next

LEMMA AlwaysIInv == Spec => []IInv
BY InitIInv, StepIInv, PTL DEF Spec

(* A chain that goes on in one way has one follower, and one that goes on  *)
(* at all has some.                                                        *)
LEMMA ChainsAreCounted == IInv => RunningIsFollowed
<1> SUFFICES ASSUME IInv, NEW on \in open, talks[on].busy
             PROVE  Followers(on) >= 1 /\ (panics = 0 => Followers(on) = 1)
  BY DEF RunningIsFollowed
<1> DEFINE R == {r \in readers : r.on = on /\ r.token = talks[on].token}
           M == {m \in messages : m.on = on /\ m.token = talks[on].token}
           P == IF talks[on].pending = 0 THEN 0 ELSE 1
<1>1. Followers(on) = Cardinality(R) + Cardinality(M) + P BY DEF Followers
<1>2. IsFiniteSet(readers) /\ IsFiniteSet(messages) BY DEF IInv, Typed
<1>3. R \subseteq readers /\ M \subseteq messages OBVIOUS
<1>4. IsFiniteSet(R) /\ IsFiniteSet(M) BY <1>2, <1>3, FS_Subset
<1>5. Cardinality(R) \in Nat /\ Cardinality(M) \in Nat BY <1>4, FS_CardinalityType
<1>6. (R # {} => Cardinality(R) # 0) /\ (M # {} => Cardinality(M) # 0)
  BY <1>4, FS_EmptySet
<1>7. P \in {0, 1} /\ (talks[on].pending # 0 => P = 1) OBVIOUS
<1>8. R # {} \/ M # {} \/ talks[on].pending # 0
  BY DEF IInv, Chains, Followed, Mine
<1>9. ASSUME panics = 0 PROVE Cardinality(R) + Cardinality(M) + P = 1
  <2>1. /\ \A r, s \in R : r = s
        /\ \A m, l \in M : m = l
        /\ R = {} \/ M = {}
        /\ talks[on].pending # 0 => R = {} /\ M = {}
    BY <1>9 DEF IInv, Chains, OneWay, Mine
  <2>2. Cardinality({}) = 0 /\ \A x : Cardinality({x}) = 1 BY FS_EmptySet, FS_Singleton
  <2> HIDE DEF R, M
  <2>3. CASE talks[on].pending # 0 BY <2>1, <2>2, <2>3
  <2>4. CASE talks[on].pending = 0 /\ R # {}
    <3> PICK r \in R : TRUE BY <2>4
    <3>1. R = {r} /\ M = {} BY <2>1
    <3>2. Cardinality(R) = 1 /\ Cardinality(M) = 0 BY <2>2, <3>1
    <3>3. QED BY <2>4, <3>2
  <2>5. CASE talks[on].pending = 0 /\ M # {}
    <3> PICK m \in M : TRUE BY <2>5
    <3>1. M = {m} /\ R = {} BY <2>1
    <3>2. Cardinality(M) = 1 /\ Cardinality(R) = 0 BY <2>2, <3>1
    <3>3. QED BY <2>5, <3>2
  <2>6. QED BY <1>8, <2>3, <2>4, <2>5 DEF R, M
<1> HIDE DEF R, M, P
<1>10. Cardinality(R) + Cardinality(M) + P >= 1 BY <1>5, <1>6, <1>7, <1>8
<1>11. QED BY <1>1, <1>9, <1>10

(* A turn that runs is always followed, and in one way only as long as no  *)
(* job fell over, however turns, questions, keys, loads, switches and      *)
(* closings interleave (ask.go waitForAsk, asked, approving).              *)
THEOREM RunningIsFollowedHolds == Spec => []RunningIsFollowed
BY AlwaysIInv, ChainsAreCounted, PTL

(* What is agreed to on a connection is asked by a turn of that            *)
(* connection, however late a question comes (ask.go approving, decide).   *)
THEOREM AgreedToWhereItIsAskedHolds == Spec => []AgreedToWhereItIsAsked
<1>1. IInv => AgreedToWhereItIsAsked
  BY DEF IInv, Typed, Asking, AgreedToWhereItIsAsked
<1>2. QED BY <1>1, AlwaysIInv, PTL
=============================================================================
