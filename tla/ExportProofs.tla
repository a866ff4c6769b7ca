---------------------------- MODULE ExportProofs ----------------------------
(***************************************************************************)
(* What Export promises of the files it writes, for every set of names and *)
(* every number of exports begun one over the other: nothing that is not   *)
(* whole, or was said to have failed, becomes a file, and nothing is left  *)
(* beside one.  None of it depends on what the dialog or its watchers do,  *)
(* which only begin exports, cancel them and hear how they ended.          *)
(*                                                                         *)
(* And what ResultSet promises of the statement an export may run again,   *)
(* as every other statement is run: nothing it opened stays open, and its  *)
(* rows and its work are what the caller was told.                         *)
(***************************************************************************)
EXTENDS Export, ResultSet, Integers, TLAPS

Typed ==
  /\ stopExport \in 0..MaxRuns
  /\ runs \in [Runs -> Run \cup {Unused}]
  /\ disk \in [Paths -> 0..(MaxRuns + 1)]

\* The dialog is a record of the fields a dialog has.
Formed == exporter \in
  [token : Nat, busy : BOOLEAN, path : Paths, scope : Scopes, reads : BOOLEAN,
   here : BOOLEAN, run : 0..MaxRuns, open : BOOLEAN]

\* How far a run has got says what there is of it: no part before it writes
\* or once it has ended, and at the end of the rows all of them.
Told(r) ==
  /\ r.step = "stat" => ~r.partial
  /\ r.step = "ended" /\ ~r.fell => ~r.partial
  /\ r.step = "rename" => r.whole

\* What became a file of that name has ended well and is whole.
Filed(r, path) == r # Unused /\ r.step = "ended" /\ r.whole /\ ~r.failed /\ r.path = path

IInv ==
  /\ Typed /\ Formed
  /\ \A n \in Runs : runs[n] # Unused => Told(runs[n])
  /\ \A path \in Paths : disk[path] \in Runs => Filed(runs[disk[path]], path)

(* One copy taken out of a bag leaves everything else in it, and takes the *)
(* element out when there was no other copy.                               *)
LEMMA TakenOut ==
  ASSUME NEW B, IsABag(B), NEW e
  PROVE  /\ IsABag(B (-) SetToBag({e}))
         /\ BagToSet(B (-) SetToBag({e})) \subseteq BagToSet(B)
         /\ BagToSet(B) \ {e} \subseteq BagToSet(B (-) SetToBag({e}))
         /\ \A d \in BagToSet(B) \ {e} : (B (-) SetToBag({e}))[d] = B[d]
         /\ e \in BagToSet(B) /\ B[e] = 1 => e \notin BagToSet(B (-) SetToBag({e}))
<1> DEFINE C == [d \in DOMAIN B |-> IF d \in DOMAIN SetToBag({e})
                                    THEN B[d] - SetToBag({e})[d] ELSE B[d]]
<1>1. B (-) SetToBag({e}) = [d \in {x \in DOMAIN C : C[x] > 0} |-> C[d]]
  BY DEF (-)
<1>2. DOMAIN C = DOMAIN B OBVIOUS
<1>3. \A d \in DOMAIN B : B[d] \in Nat /\ B[d] > 0 BY DEF IsABag
<1>4. DOMAIN SetToBag({e}) = {e} /\ SetToBag({e})[e] = 1 BY DEF SetToBag
<1>5. \A d \in DOMAIN B : d # e => C[d] = B[d] BY <1>4
<1>6. \A d \in DOMAIN B : C[d] \in Int BY <1>3, <1>4
<1>7. e \in DOMAIN B => C[e] = B[e] - 1 BY <1>4
<1> HIDE DEF C
<1>8. DOMAIN (B (-) SetToBag({e})) = {x \in DOMAIN B : C[x] > 0} BY <1>1, <1>2
<1>9. B (-) SetToBag({e}) \in [{x \in DOMAIN B : C[x] > 0} -> {n \in Nat : n > 0}]
  BY <1>1, <1>2, <1>6
<1>10. \A d \in DOMAIN B \ {e} : (B (-) SetToBag({e}))[d] = B[d]
  BY <1>1, <1>2, <1>3, <1>5
<1>11. e \in DOMAIN B /\ B[e] = 1 => e \notin DOMAIN (B (-) SetToBag({e}))
  BY <1>7, <1>8
<1>12. QED BY <1>3, <1>5, <1>8, <1>9, <1>10, <1>11 DEF IsABag, BagToSet

(* One copy of each of some elements put into a bag adds nothing else to   *)
(* it.                                                                     *)
LEMMA PutIn ==
  ASSUME NEW B, IsABag(B), NEW S
  PROVE  /\ IsABag(B (+) SetToBag(S))
         /\ BagToSet(B (+) SetToBag(S)) = BagToSet(B) \cup S
         /\ \A d \in BagToSet(B) \ S : (B (+) SetToBag(S))[d] = B[d]
         /\ \A d \in S \ BagToSet(B) : (B (+) SetToBag(S))[d] = 1
<1>1. DOMAIN SetToBag(S) = S /\ \A e \in S : SetToBag(S)[e] = 1 BY DEF SetToBag
<1>2. \A d \in DOMAIN B : B[d] \in Nat /\ B[d] > 0 BY DEF IsABag
<1>3. B (+) SetToBag(S) =
        [d \in DOMAIN B \cup S |-> (IF d \in DOMAIN B THEN B[d] ELSE 0)
                                     + (IF d \in S THEN SetToBag(S)[d] ELSE 0)]
  BY <1>1 DEF (+)
<1>4. \A d \in DOMAIN B \cup S :
        (IF d \in DOMAIN B THEN B[d] ELSE 0)
          + (IF d \in S THEN SetToBag(S)[d] ELSE 0) \in {n \in Nat : n > 0}
  BY <1>1, <1>2
<1>5. \A d \in DOMAIN B \ S : (B (+) SetToBag(S))[d] = B[d] BY <1>2, <1>3
<1>6. \A d \in S \ DOMAIN B : (B (+) SetToBag(S))[d] = 1 BY <1>1, <1>3
<1>7. QED BY <1>3, <1>4, <1>5, <1>6 DEF IsABag, BagToSet

(* The dialog that is not there is a dialog.                               *)
LEMMA NoDialogFormed == NoDialog \in
  [token : Nat, busy : BOOLEAN, path : Paths, scope : Scopes, reads : BOOLEAN,
   here : BOOLEAN, run : 0..MaxRuns, open : BOOLEAN]
<1>1. (CHOOSE p \in Paths : TRUE) \in Paths BY ExportAssumption
<1>2. 0 \in 0..MaxRuns BY ExportAssumption
<1>3. QED BY <1>1, <1>2 DEF NoDialog, NoRun, Scopes

(* The invariant holds at the start.                                       *)
LEMMA InitIInv == ExportInit => IInv
<1> SUFFICES ASSUME ExportInit PROVE IInv OBVIOUS
<1>1. Formed BY NoDialogFormed DEF ExportInit, Formed
<1>3. stopExport \in 0..MaxRuns BY ExportAssumption DEF ExportInit, NoRun
<1>4. runs \in [Runs -> Run \cup {Unused}] BY DEF ExportInit
<1>5. \A path \in Paths : disk[path] \in {0, MaxRuns + 1} BY DEF ExportInit, NoRun, Others
<1>6. disk \in [Paths -> 0..(MaxRuns + 1)]
  <2>1. {0, MaxRuns + 1} \subseteq 0..(MaxRuns + 1) BY ExportAssumption
  <2>2. QED BY <2>1 DEF ExportInit, NoRun, Others
<1>7. \A n \in Runs : runs[n] = Unused BY DEF ExportInit
<1>8. \A path \in Paths : disk[path] \notin Runs BY <1>5, ExportAssumption DEF Runs
<1>9. QED BY <1>1, <1>3, <1>4, <1>6, <1>7, <1>8 DEF IInv, Typed

(* A run is told apart from one that was not begun by any of its steps.    *)
LEMMA RunIsUsed ==
  ASSUME NEW r \in Run \cup {Unused}, r # Unused
  PROVE r \in Run
OBVIOUS

(* A step of the dialog that begins nothing changes no file, and of the    *)
(* exports at most that one was cancelled.                                 *)
LEMMA CancelledIInv ==
  ASSUME IInv, runs' = runs \/ \E m \in 0..MaxRuns : runs' = Cancelled(m),
         disk' = disk, Formed', stopExport' \in 0..MaxRuns
  PROVE IInv'
<1>0. Typed' <=> runs' \in [Runs -> Run \cup {Unused}]
  BY DEF Typed, IInv
<1>1. CASE runs' = runs BY <1>0, <1>1 DEF IInv, Typed, Formed, Told, Filed
<1>2. CASE \E m \in 0..MaxRuns : runs' = Cancelled(m)
  <2> PICK m \in 0..MaxRuns : runs' = Cancelled(m) BY <1>2
  <2>1. CASE m = NoRun \/ ~Going(m)
    <3>1. runs' = runs BY <2>1 DEF Cancelled
    <3>2. QED BY <1>1, <3>1
  <2>2. CASE ~(m = NoRun \/ ~Going(m))
    <3> DEFINE r == [runs[m] EXCEPT !.cancelled = TRUE]
    <3>1. m \in Runs BY <2>2, ExportAssumption DEF NoRun, Runs
    <3>2. runs[m] \in Run /\ runs[m].step # "ended" /\ Told(runs[m]) /\ runs[m] # Unused
      BY <2>2, <3>1, RunIsUsed DEF Going, IInv, Typed
    <3>3. runs' = [runs EXCEPT ![m] = r] BY <2>2 DEF Cancelled
    <3>4. r \in Run /\ r.step = runs[m].step /\ r.step # "ended" /\ Told(r)
      BY <3>2 DEF Run, Told
    <3>5. runs' \in [Runs -> Run \cup {Unused}] BY <3>1, <3>3, <3>4 DEF IInv, Typed
    <3>6. \A n \in Runs : runs'[n] = IF n = m THEN r ELSE runs[n]
      BY <3>1, <3>3 DEF IInv, Typed
    <3> HIDE DEF r
    <3>7. \A path \in Paths : disk[path] # m BY <3>1, <3>2 DEF IInv, Filed
    <3>8. \A path \in Paths : disk'[path] \in Runs => Filed(runs'[disk'[path]], path)
      BY <3>6, <3>7 DEF IInv
    <3>9. \A n \in Runs : runs'[n] # Unused => Told(runs'[n])
      BY <3>4, <3>6 DEF IInv
    <3>10. QED BY <1>0, <3>5, <3>8, <3>9 DEF IInv, Filed, Told
  <2>3. QED BY <2>1, <2>2
<1>3. QED BY <1>1, <1>2

(* A run that takes a step goes on to the next, and becomes the file of its *)
(* path if that is how it ends; no other is touched.                       *)
LEMMA SteppedIInv ==
  ASSUME IInv, NEW n \in Runs, Going(n), NEW r \in Run, Told(r),
         runs' = [runs EXCEPT ![n] = r],
         \/ disk' = disk
         \/ Filed(r, runs[n].path) /\ disk' = [disk EXCEPT ![runs[n].path] = n],
         exporter' = exporter, stopExport' = stopExport
  PROVE IInv'
<1>1. runs[n] \in Run /\ runs[n].step # "ended"
  BY RunIsUsed DEF Going, IInv, Typed
<1>2. Typed'
  <2>1. runs' \in [Runs -> Run \cup {Unused}] BY DEF IInv, Typed
  <2>2. disk' \in [Paths -> 0..(MaxRuns + 1)]
    BY <1>1, ExportAssumption DEF IInv, Typed, Runs, Run
  <2>3. QED BY <2>1, <2>2 DEF IInv, Typed
<1>3. \A m \in Runs : runs'[m] = IF m = n THEN r ELSE runs[m] BY DEF IInv, Typed
<1>4. \A path \in Paths : disk[path] # n BY <1>1 DEF IInv, Filed
<1>5. \A m \in Runs : runs'[m] # Unused => Told(runs'[m]) BY <1>3 DEF IInv
<1>6. \A path \in Paths : disk'[path] \in Runs => Filed(runs'[disk'[path]], path)
  <2>1. CASE disk' = disk BY <1>3, <1>4, <2>1 DEF IInv
  <2>2. CASE Filed(r, runs[n].path) /\ disk' = [disk EXCEPT ![runs[n].path] = n]
    <3>1. \A path \in Paths : (disk'[path] = n /\ path = runs[n].path) \/ disk'[path] = disk[path]
      BY <2>2 DEF IInv, Typed
    <3>2. QED BY <1>3, <1>4, <2>2, <3>1 DEF IInv
  <2>3. QED BY <2>1, <2>2
<1>7. QED BY <1>2, <1>5, <1>6 DEF IInv, Formed, Told, Filed

(* Every step of the goroutine that writes keeps the invariant.            *)
LEMMA WritesIInv == IInv /\ Writes => IInv'
<1> SUFFICES ASSUME IInv, NEW n \in Runs, Stat(n) \/ Pour(n) \/ Falls(n) \/ Rename(n),
                    exporter' = exporter, stopExport' = stopExport
             PROVE IInv'
  BY DEF Writes
<1>1. Going(n) /\ runs[n] \in Run /\ Told(runs[n])
  BY RunIsUsed DEF Stat, Pour, Falls, Rename, Going, IInv, Typed
<1>2. CASE Stat(n)
  <2>1. CASE Ended(n, TRUE, FALSE) /\ disk' = disk
    <3> DEFINE r == [runs[n] EXCEPT !.step = "ended", !.failed = TRUE, !.partial = FALSE]
    <3>1. r \in Run /\ Told(r) BY <1>1 DEF Run, Told
    <3>2. runs' = [runs EXCEPT ![n] = r] BY <2>1 DEF Ended
    <3> HIDE DEF r
    <3>3. QED BY <1>1, <2>1, <3>1, <3>2, SteppedIInv
  <2>2. CASE runs' = [runs EXCEPT ![n].step = "pour", ![n].partial = TRUE] /\ disk' = disk
    <3> DEFINE r == [runs[n] EXCEPT !.step = "pour", !.partial = TRUE]
    <3>1. r \in Run /\ Told(r) BY <1>1 DEF Run, Told
    <3>2. runs' = [runs EXCEPT ![n] = r] BY <2>2
    <3> HIDE DEF r
    <3>3. QED BY <1>1, <2>2, <3>1, <3>2, SteppedIInv
  <2>3. QED BY <1>2, <2>1, <2>2 DEF Stat
<1>3. CASE Pour(n)
  <2>1. CASE runs' = [runs EXCEPT ![n].step = "rename", ![n].whole = TRUE] /\ disk' = disk
    <3> DEFINE r == [runs[n] EXCEPT !.step = "rename", !.whole = TRUE]
    <3>1. r \in Run /\ Told(r) BY <1>1 DEF Run, Told
    <3>2. runs' = [runs EXCEPT ![n] = r] BY <2>1
    <3> HIDE DEF r
    <3>3. QED BY <1>1, <2>1, <3>1, <3>2, SteppedIInv
  <2>2. CASE FailedPour(n) /\ disk' = disk
    <3> DEFINE r == [runs[n] EXCEPT !.step = "ended", !.failed = TRUE, !.partial = FALSE]
    <3>1. r \in Run /\ Told(r) BY <1>1 DEF Run, Told
    <3>2. runs' = [runs EXCEPT ![n] = r] BY <2>2 DEF FailedPour, Ended
    <3> HIDE DEF r
    <3>3. QED BY <1>1, <2>2, <3>1, <3>2, SteppedIInv
  <2>3. QED BY <1>3, <2>1, <2>2 DEF Pour
<1>4. CASE Falls(n)
  <2> DEFINE r == [runs[n] EXCEPT !.step = "ended", !.failed = TRUE, !.fell = TRUE]
  <2>1. r \in Run /\ Told(r) BY <1>1 DEF Run, Told
  <2>2. runs' = [runs EXCEPT ![n] = r] /\ disk' = disk BY <1>4 DEF Falls
  <2> HIDE DEF r
  <2>3. QED BY <1>1, <2>1, <2>2, SteppedIInv
<1>5. CASE Rename(n)
  <2>1. runs[n].step = "rename" BY <1>5 DEF Rename
  <2>2. CASE Ended(n, FALSE, FALSE) /\ disk' = [disk EXCEPT ![runs[n].path] = n]
    <3> DEFINE r == [runs[n] EXCEPT !.step = "ended", !.failed = FALSE, !.partial = FALSE]
    <3>1. r \in Run /\ Told(r) BY <1>1 DEF Run, Told
    <3>2. r # Unused
      <4>1. r.step = "ended" BY <1>1 DEF Run
      <4>2. QED BY <4>1 DEF Unused
    <3>3. Filed(r, runs[n].path) BY <1>1, <2>1, <3>2 DEF Run, Told, Filed
    <3>4. runs' = [runs EXCEPT ![n] = r] BY <2>2 DEF Ended
    <3> HIDE DEF r
    <3>5. QED BY <1>1, <2>2, <3>1, <3>3, <3>4, SteppedIInv
  <2>3. CASE Ended(n, TRUE, FALSE) /\ disk' = disk
    <3> DEFINE r == [runs[n] EXCEPT !.step = "ended", !.failed = TRUE, !.partial = FALSE]
    <3>1. r \in Run /\ Told(r) BY <1>1 DEF Run, Told
    <3>2. runs' = [runs EXCEPT ![n] = r] BY <2>3 DEF Ended
    <3> HIDE DEF r
    <3>3. QED BY <1>1, <2>3, <3>1, <3>2, SteppedIInv
  <2>4. QED BY <1>5, <2>2, <2>3 DEF Rename
<1>6. QED BY <1>2, <1>3, <1>4, <1>5

(* An export that begins is another than those that became files.          *)
LEMMA BegunIInv == IInv /\ StartExport => IInv'
<1> SUFFICES ASSUME IInv, StartExport PROVE IInv' OBVIOUS
<1>1. CASE ~exporter.open
  <2>1. exporter' = exporter /\ runs' = runs /\ stopExport' = stopExport /\ disk' = disk
    BY <1>1 DEF StartExport
  <2>2. QED BY <2>1, CancelledIInv DEF IInv, Formed, Typed
<1>2. CASE exporter.open
  <2> DEFINE r == [step |-> "stat", rows |-> Source, path |-> exporter.path,
             cancelled |-> FALSE, whole |-> FALSE, partial |-> FALSE,
             failed |-> FALSE, fell |-> FALSE, taken |-> FALSE]
  <2> PICK n \in Runs :
        /\ runs[n] = Unused /\ runs' = [runs EXCEPT ![n] = r]
        /\ exporter' = [exporter EXCEPT !.token = @ + 1, !.busy = TRUE, !.run = n]
        /\ stopExport' = n
    BY <1>2 DEF StartExport
  <2>0. disk' = disk BY DEF StartExport
  <2>1. r \in Run /\ Told(r) BY DEF Run, Told, IInv, Formed, Source, Sources
  <2> HIDE DEF r
  <2>2. n \in 0..MaxRuns BY ExportAssumption DEF Runs
  <2>3. Formed'
    <3>1. exporter.token \in Nat BY DEF IInv, Formed
    <3>2. exporter.token + 1 \in Nat BY <3>1
    <3>3. exporter' = [exporter EXCEPT !.token = exporter.token + 1, !.busy = TRUE, !.run = n]
      OBVIOUS
    <3>4. QED BY <2>2, <3>2, <3>3 DEF IInv, Formed
  <2>4. Typed' BY <2>0, <2>1, <2>2 DEF IInv, Typed
  <2>5. \A m \in Runs : runs'[m] = IF m = n THEN r ELSE runs[m] BY DEF IInv, Typed
  <2>6. \A path \in Paths : disk[path] # n BY DEF IInv, Filed
  <2>7. QED BY <2>0, <2>1, <2>3, <2>4, <2>5, <2>6 DEF IInv, Told, Filed
<1>3. QED BY <1>1, <1>2

(* The end of an export that is heard changes nothing it is judged by.     *)
LEMMA HeardIInv ==
  ASSUME IInv, NEW w \in BagToSet(watchers), Exporting(w) \/ Exported(w)
  PROVE IInv'
<1>1. CASE Exporting(w)
  <2>1. exporter' = exporter /\ runs' = runs /\ stopExport' = stopExport /\ disk' = disk
    BY <1>1 DEF Exporting
  <2>2. QED BY <2>1, CancelledIInv DEF IInv, Formed, Typed
<1>2. CASE Exported(w)
  <2> DEFINE n == w.run
             r == [runs[n] EXCEPT !.taken = TRUE]
  <2>0. disk' = disk /\ runs[n].step = "ended" /\ runs' = [runs EXCEPT ![n] = r]
    BY <1>2 DEF Exported
  <2>1. Formed'
    <3>1. CASE Ours(w) BY <1>2, <3>1, NoDialogFormed DEF Exported, IInv, Formed
    <3>2. CASE ~Ours(w) BY <1>2, <3>2 DEF Exported, IInv, Formed
    <3>3. QED BY <3>1, <3>2
  <2>2. stopExport' \in 0..MaxRuns
    BY <1>2, ExportAssumption DEF Exported, IInv, Typed, NoRun
  <2>3. CASE n \notin Runs
    <3>1. runs' = runs BY <2>0, <2>3 DEF IInv, Typed
    <3> HIDE DEF n, r
    <3>2. QED BY <2>0, <2>1, <2>2, <3>1, CancelledIInv
  <2>4. CASE n \in Runs
    <3>1. runs[n] # Unused
      <4>1. Unused.step = "unused" BY DEF Unused
      <4>2. QED BY <2>0, <4>1
    <3>2. runs[n] \in Run /\ Told(runs[n]) BY <2>4, <3>1, RunIsUsed DEF IInv, Typed
    <3>3. r \in Run /\ Told(r) BY <3>2 DEF Run, Told
    <3>4. \A path : Filed(runs[n], path) => Filed(r, path)
      <4>1. r.step = runs[n].step /\ r.whole = runs[n].whole /\ r.failed = runs[n].failed
            /\ r.path = runs[n].path
        BY <3>2 DEF Run
      <4>2. r # Unused
        <5>1. r.step = "ended" /\ Unused.step = "unused" BY <2>0, <4>1 DEF Unused
        <5>2. QED BY <5>1
      <4> HIDE DEF r
      <4>3. QED BY <4>1, <4>2 DEF Filed
    <3> HIDE DEF r
    <3>5. Typed' BY <2>0, <2>2, <2>4, <3>3 DEF IInv, Typed
    <3>6. \A m \in Runs : runs'[m] = IF m = n THEN r ELSE runs[m]
      BY <2>0, <2>4 DEF IInv, Typed
    <3>7. QED BY <2>0, <2>1, <2>4, <3>3, <3>4, <3>5, <3>6 DEF IInv, Told, Filed
  <2>5. QED BY <2>3, <2>4
<1>3. QED BY <1>1, <1>2

(* Every step keeps the invariant.                                         *)
LEMMA StepIInv == IInv /\ [ExportNext]_exportVars => IInv'
<1> SUFFICES ASSUME IInv, [ExportNext]_exportVars PROVE IInv' OBVIOUS
<1> USE DEF IInv, Typed, Formed
<1>1. CASE Export4Result
  <2>1. Formed' BY <1>1, NoDialogFormed DEF Export4Result, Scopes
  <2>2. QED BY <1>1, <2>1, CancelledIInv DEF Export4Result
<1>2. CASE Choose
  <2>1. Formed' BY <1>2 DEF Choose, Scopes
  <2>2. QED BY <1>2, <2>1, CancelledIInv DEF Choose
<1>3. CASE ConfirmExport BY <1>3, CancelledIInv DEF ConfirmExport
<1>4. CASE Answer BY <1>4, CancelledIInv DEF Answer
<1>5. CASE Back
  <2>1. Formed' BY <1>5, NoDialogFormed DEF Back
  <2>2. stopExport' \in 0..MaxRuns BY <1>5, ExportAssumption DEF Back, NoRun
  <2>3. runs' = runs \/ \E m \in 0..MaxRuns : runs' = Cancelled(m) BY <1>5 DEF Back
  <2>4. QED BY <1>5, <2>1, <2>2, <2>3, CancelledIInv DEF Back
<1>6. CASE StartExport BY <1>6, BegunIInv
<1>7. CASE Writes BY <1>7, WritesIInv
<1>8. CASE \E w \in BagToSet(watchers) : Exporting(w) \/ Exported(w) BY <1>8, HeardIInv
<1>9. CASE Switched
  <2>1. Formed' BY <1>9 DEF Switched
  <2>2. QED BY <1>9, <2>1, CancelledIInv DEF Switched
<1>10. CASE Crashed
  <2>1. Formed' BY <1>10, NoDialogFormed DEF Crashed
  <2>2. stopExport' \in 0..MaxRuns BY <1>10, ExportAssumption DEF Crashed, NoRun
  <2>3. QED BY <1>10, <2>1, <2>2, CancelledIInv DEF Crashed
<1>11. CASE UNCHANGED exportVars BY <1>11, CancelledIInv DEF exportVars
<1>12. QED
  BY <1>1, <1>2, <1>3, <1>4, <1>5, <1>6, <1>7, <1>8, <1>9, <1>10, <1>11 DEF ExportNext

(* The file of an export has its name and every row, and is not one that   *)
(* was said to have failed; one that has ended leaves no part of one beside *)
(* it unless it fell, however many are begun and given up on over each     *)
(* other (write4Export).                                                   *)
THEOREM WholeOrNothingHolds == ExportSpec => []WholeOrNothing
<1>1. IInv => WholeOrNothing
  <2> SUFFICES ASSUME IInv, NEW n \in Runs, runs[n] # Unused
               PROVE  /\ \A path \in Paths : disk[path] = n =>
                           runs[n].path = path /\ runs[n].whole /\ ~runs[n].failed
                      /\ (~Going(n) /\ ~runs[n].fell) => ~runs[n].partial
    BY DEF WholeOrNothing
  <2>1. QED BY DEF IInv, Filed, Told, Going
<1>2. QED BY <1>1, InitIInv, StepIInv, PTL DEF ExportSpec

-----------------------------------------------------------------------------
(* What the dialog says of the run it began. *)

Ticket == [run |-> exporter.run, token |-> exporter.token]

\* Watchers wait for exports that were begun, and the dialog has the number of one
\* of its own; while it is busy its run is waited for under that number only, is
\* not taken, and is what a cancel stops.
Followed ==
  /\ IsABag(watchers)
  /\ BagToSet(watchers) \subseteq [run : Runs, token : Nat \ {0}]
  /\ \A w \in BagToSet(watchers) : runs[w.run] # Unused
  /\ exporter.token # 0 => exporter.run \in Runs /\ runs[exporter.run] # Unused
  /\ exporter.busy =>
       /\ exporter.open /\ exporter.token # 0 /\ Ticket \in BagToSet(watchers)
       /\ ~runs[exporter.run].taken /\ stopExport = exporter.run
       /\ \A w \in BagToSet(watchers) : w.run = exporter.run => w.token = exporter.token

JInv == IInv /\ Followed

\* No export is unbegun, and none is taken or given back.
Kept ==
  \A n \in Runs : runs[n] # Unused => runs'[n] # Unused /\ runs'[n].taken = runs[n].taken

(* Nothing is taken by a cancel, nor by the goroutine that writes.         *)
LEMMA NothingTaken ==
  ASSUME IInv, (\E m \in 0..MaxRuns : runs' = Cancelled(m)) \/ Writes
  PROVE  Kept
<1>0. \A n \in Runs : runs[n] # Unused => runs[n] \in Run BY RunIsUsed DEF IInv, Typed
<1>1. \A r \in Run : r # Unused
  <2>1. \A r \in Run : r.step # "unused" BY DEF Run
  <2>2. QED BY <2>1 DEF Unused
<1>2. ASSUME NEW m \in Runs, NEW r \in Run, runs[m] # Unused, r.taken = runs[m].taken,
             runs' = [runs EXCEPT ![m] = r]
      PROVE  Kept
  BY <1>1, <1>2 DEF Kept, IInv, Typed
<1>3. CASE \E m \in 0..MaxRuns : runs' = Cancelled(m)
  <2> PICK m \in 0..MaxRuns : runs' = Cancelled(m) BY <1>3
  <2>1. CASE m = NoRun \/ ~Going(m) BY <2>1 DEF Cancelled, Kept
  <2>2. CASE ~(m = NoRun \/ ~Going(m))
    <3> DEFINE r == [runs[m] EXCEPT !.cancelled = TRUE]
    <3>1. m \in Runs /\ runs[m] # Unused
      BY <2>2, ExportAssumption DEF NoRun, Runs, Going
    <3>2. r \in Run /\ r.taken = runs[m].taken BY <1>0, <3>1, ZenonT(60) DEF Run
    <3>3. runs' = [runs EXCEPT ![m] = r] BY <2>2 DEF Cancelled
    <3> HIDE DEF r
    <3>4. QED BY <1>2, <3>1, <3>2, <3>3
  <2>3. QED BY <2>1, <2>2
<1>4. CASE Writes
  <2> PICK n \in Runs : Stat(n) \/ Pour(n) \/ Falls(n) \/ Rename(n) BY <1>4 DEF Writes
  <2>0. runs[n] # Unused /\ runs[n] \in Run BY <1>0 DEF Stat, Pour, Falls, Rename
  <2>1. CASE \E failed \in BOOLEAN : Ended(n, failed, FALSE)
    <3> PICK failed \in BOOLEAN : Ended(n, failed, FALSE) BY <2>1
    <3> DEFINE r == [runs[n] EXCEPT !.step = "ended", !.failed = failed, !.partial = FALSE]
    <3>1. r \in Run /\ r.taken = runs[n].taken BY <2>0 DEF Run
    <3>2. runs' = [runs EXCEPT ![n] = r] BY DEF Ended
    <3> HIDE DEF r
    <3>3. QED BY <1>2, <2>0, <3>1, <3>2
  <2>2. CASE runs' = [runs EXCEPT ![n].step = "pour", ![n].partial = TRUE]
    <3> DEFINE r == [runs[n] EXCEPT !.step = "pour", !.partial = TRUE]
    <3>1. r \in Run /\ r.taken = runs[n].taken BY <2>0 DEF Run
    <3>2. runs' = [runs EXCEPT ![n] = r] BY <2>2
    <3> HIDE DEF r
    <3>3. QED BY <1>2, <2>0, <3>1, <3>2
  <2>3. CASE runs' = [runs EXCEPT ![n].step = "rename", ![n].whole = TRUE]
    <3> DEFINE r == [runs[n] EXCEPT !.step = "rename", !.whole = TRUE]
    <3>1. r \in Run /\ r.taken = runs[n].taken BY <2>0 DEF Run
    <3>2. runs' = [runs EXCEPT ![n] = r] BY <2>3
    <3> HIDE DEF r
    <3>3. QED BY <1>2, <2>0, <3>1, <3>2
  <2>4. CASE Falls(n)
    <3> DEFINE r == [runs[n] EXCEPT !.step = "ended", !.failed = TRUE, !.fell = TRUE]
    <3>1. r \in Run /\ r.taken = runs[n].taken BY <2>0 DEF Run
    <3>2. runs' = [runs EXCEPT ![n] = r] BY <2>4 DEF Falls
    <3> HIDE DEF r
    <3>3. QED BY <1>2, <2>0, <3>1, <3>2
  <2>5. QED BY <2>1, <2>2, <2>3, <2>4 DEF Stat, Pour, FailedPour, Rename
<1>5. QED BY <1>3, <1>4

(* What keeps the exports keeps what the dialog says of them, unless it    *)
(* becomes busy.                                                           *)
LEMMA KeptFollowed ==
  ASSUME IInv, Followed, Kept, watchers' = watchers,
         \/ /\ stopExport' = stopExport
            /\ exporter'.token = exporter.token /\ exporter'.run = exporter.run
            /\ exporter'.open = exporter.open /\ exporter'.busy = exporter.busy
         \/ exporter'.token = 0 /\ ~exporter'.busy
  PROVE  Followed'
<1>0. \A w \in BagToSet(watchers) : w.run \in Runs BY DEF Followed
<1>1. IsABag(watchers') /\ BagToSet(watchers') \subseteq [run : Runs, token : Nat \ {0}]
      /\ \A w \in BagToSet(watchers') : runs'[w.run] # Unused
  BY <1>0 DEF Followed, Kept
<1>2. exporter'.token # 0 => exporter'.run \in Runs /\ runs'[exporter'.run] # Unused
  BY DEF Followed, Kept
<1>3. QED BY <1>1, <1>2 DEF Followed, Kept, Ticket

(* An export that begins is waited for under the number it was given.      *)
LEMMA BegunFollowed == JInv /\ StartExport => Followed'
<1> SUFFICES ASSUME IInv, Followed, StartExport PROVE Followed' BY DEF JInv
<1>1. CASE ~exporter.open BY <1>1, KeptFollowed DEF StartExport, Kept
<1>2. CASE exporter.open
  <2> DEFINE r == [step |-> "stat", rows |-> Source, path |-> exporter.path,
             cancelled |-> FALSE, whole |-> FALSE, partial |-> FALSE,
             failed |-> FALSE, fell |-> FALSE, taken |-> FALSE]
             token == exporter.token + 1
  <2> PICK n \in Runs :
        /\ runs[n] = Unused /\ runs' = [runs EXCEPT ![n] = r]
        /\ exporter' = [exporter EXCEPT !.token = token, !.busy = TRUE, !.run = n]
        /\ stopExport' = n
        /\ watchers' = watchers (+) SetToBag({[run |-> n, token |-> token]})
    BY <1>2 DEF StartExport
  <2>1. r # Unused /\ ~r.taken
    <3>1. r.step # Unused.step BY DEF Unused
    <3>2. QED BY <3>1
  <2>2. token \in Nat \ {0}
    <3>1. exporter.token \in Nat BY DEF IInv, Formed
    <3>2. QED BY <3>1
  <2>3. /\ exporter'.token = token /\ exporter'.run = n
        /\ exporter'.open /\ exporter'.busy
    BY <1>2 DEF IInv, Formed
  <2> HIDE DEF r, token
  <2>4. \A m \in Runs : runs'[m] = IF m = n THEN r ELSE runs[m] BY DEF IInv, Typed
  <2>5. IsABag(watchers')
        /\ BagToSet(watchers') = BagToSet(watchers) \cup {[run |-> n, token |-> token]}
    BY PutIn DEF Followed
  <2>6. \A w \in BagToSet(watchers) : w.run \in Runs /\ w.run # n BY DEF Followed
  <2>7. BagToSet(watchers') \subseteq [run : Runs, token : Nat \ {0}]
    BY <2>2, <2>5, SMTT(30) DEF Followed
  <2>8. \A w \in BagToSet(watchers') : runs'[w.run] # Unused
    BY <2>1, <2>4, <2>5, <2>6, SMTT(30) DEF Followed
  <2>9. Ticket' = [run |-> n, token |-> token] BY <2>3 DEF Ticket
  <2>10. \A w \in BagToSet(watchers') : w.run = n => w.token = token BY <2>5, <2>6
  <2>11. QED BY <2>1, <2>2, <2>3, <2>4, <2>5, <2>7, <2>8, <2>9, <2>10 DEF Followed
<1>3. QED BY <1>1, <1>2

(* A word about another run leaves the watcher of the dialog's own, and the *)
(* end of its own run, which is no longer waited for, ends its being busy. *)
LEMMA HeardFollowed ==
  ASSUME JInv, NEW w \in BagToSet(watchers), Exporting(w) \/ Exported(w)
  PROVE  Followed'
<1> USE DEF JInv
<1>1. w \in [run : Runs, token : Nat \ {0}] /\ runs[w.run] # Unused BY DEF Followed
<1>2. /\ IsABag(Without(w))
      /\ BagToSet(Without(w)) \subseteq BagToSet(watchers)
      /\ BagToSet(watchers) \ {w} \subseteq BagToSet(Without(w))
  BY TakenOut DEF Followed, Without
<1>3. CASE Exporting(w)
  <2>0. UNCHANGED <<exporter, runs, stopExport>> BY <1>3 DEF Exporting
  <2>1. CASE Ours(w)
    <3>1. Ticket \in [run : Runs, token : Nat \ {0}] /\ runs[exporter.run] # Unused
      BY <1>1, <2>1 DEF Ours, Ticket, Followed, IInv, Formed
    <3>2. IsABag(watchers') /\ BagToSet(watchers') = BagToSet(Without(w)) \cup {Ticket}
      BY <1>2, <1>3, <2>1, PutIn DEF Exporting, Watch, Ticket
    <3>3. \A x \in BagToSet(watchers') : x \in BagToSet(watchers) \/ x = Ticket
      BY <1>2, <3>2
    <3>4. Ticket.run = exporter.run /\ Ticket.token = exporter.token BY DEF Ticket
    <3>5. QED BY <2>0, <3>1, <3>2, <3>3, <3>4 DEF Followed, Ticket
  <2>2. CASE ~Ours(w)
    <3>1. watchers' = Without(w) BY <1>3, <2>2 DEF Exporting
    <3>2. exporter.busy => Ticket # w BY <2>2 DEF Ours, Followed, Ticket
    <3>3. QED BY <1>2, <2>0, <3>1, <3>2 DEF Followed, Ticket
  <2>3. QED BY <2>1, <2>2
<1>4. CASE Exported(w)
  <2> DEFINE r == [runs[w.run] EXCEPT !.taken = TRUE]
  <2>1. watchers' = Without(w) /\ runs' = [runs EXCEPT ![w.run] = r] BY <1>4 DEF Exported
  <2>2. r # Unused
    <3>1. runs[w.run] \in Run BY <1>1, RunIsUsed DEF IInv, Typed
    <3>2. r.step # "unused" BY <3>1 DEF Run
    <3>3. QED BY <3>2 DEF Unused
  <2> HIDE DEF r
  <2>3. \A m \in Runs : runs'[m] = IF m = w.run THEN r ELSE runs[m]
    BY <1>1, <2>1 DEF IInv, Typed
  <2>4. /\ IsABag(watchers') /\ BagToSet(watchers') \subseteq [run : Runs, token : Nat \ {0}]
        /\ \A x \in BagToSet(watchers') : runs'[x.run] # Unused
    BY <1>2, <2>1, <2>2, <2>3 DEF Followed
  <2>5. CASE Ours(w)
    <3>0. exporter' = [exporter EXCEPT !.busy = FALSE] \/ exporter' = NoDialog
      BY <1>4, <2>5 DEF Exported
    <3>1. CASE exporter' = [exporter EXCEPT !.busy = FALSE]
      <4>1. /\ ~exporter'.busy /\ exporter'.token = exporter.token
            /\ exporter'.run = exporter.run
        BY <3>1 DEF IInv, Formed
      <4>2. QED BY <2>2, <2>3, <2>4, <4>1 DEF Followed
    <3>2. CASE exporter' = NoDialog
      <4>1. ~exporter'.busy /\ exporter'.token = 0 BY <3>2 DEF NoDialog, NoRun
      <4>2. QED BY <2>4, <4>1 DEF Followed
    <3>3. QED BY <3>0, <3>1, <3>2
  <2>6. CASE ~Ours(w)
    <3>1. exporter' = exporter /\ stopExport' = stopExport BY <1>4, <2>6 DEF Exported
    <3>2. exporter.busy => w.run # exporter.run /\ Ticket # w
      BY <2>6 DEF Ours, Followed, Ticket
    <3>3. QED BY <1>2, <2>1, <2>2, <2>3, <2>4, <3>1, <3>2 DEF Followed, Ticket
  <2>7. QED BY <2>5, <2>6
<1>5. QED BY <1>3, <1>4

(* The stronger invariant holds at the start, and every step keeps it.     *)
LEMMA InitJInv == ExportInit => JInv
<1> SUFFICES ASSUME ExportInit PROVE Followed BY InitIInv DEF JInv
<1>1. DOMAIN watchers = {} BY DEF ExportInit, EmptyBag, SetToBag
<1>2. IsABag(watchers) BY DEF ExportInit, EmptyBag, SetToBag, IsABag
<1>3. exporter.token = 0 /\ ~exporter.busy BY DEF ExportInit, NoDialog, NoRun
<1>4. QED BY <1>1, <1>2, <1>3 DEF Followed, BagToSet

LEMMA StepJInv == JInv /\ [ExportNext]_exportVars => JInv'
<1> SUFFICES ASSUME JInv, [ExportNext]_exportVars PROVE Followed' BY StepIInv DEF JInv
<1>0. IInv /\ Followed BY DEF JInv
<1>a. ASSUME runs' = runs PROVE Kept BY <1>a DEF Kept
<1>1. CASE Export4Result
  <2>1. exporter'.token = 0 /\ ~exporter'.busy BY <1>1 DEF Export4Result, NoDialog, NoRun
  <2>2. QED BY <1>0, <1>1, <1>a, <2>1, KeptFollowed DEF Export4Result
<1>2. CASE Choose
  <2>1. /\ exporter'.token = exporter.token /\ exporter'.run = exporter.run
        /\ exporter'.open = exporter.open /\ exporter'.busy = exporter.busy
    BY <1>0, <1>2 DEF Choose, IInv, Formed
  <2>2. QED BY <1>0, <1>2, <1>a, <2>1, KeptFollowed DEF Choose
<1>3. CASE ConfirmExport BY <1>0, <1>3, <1>a, KeptFollowed DEF ConfirmExport
<1>4. CASE Answer BY <1>0, <1>4, <1>a, KeptFollowed DEF Answer
<1>5. CASE Back
  <2>1. exporter'.token = 0 /\ ~exporter'.busy BY <1>5 DEF Back, NoDialog, NoRun
  <2>2. Kept BY <1>0, <1>5, <1>a, NothingTaken DEF Back, IInv, Typed
  <2>3. QED BY <1>0, <1>5, <2>1, <2>2, KeptFollowed DEF Back
<1>6. CASE StartExport BY <1>6, BegunFollowed
<1>7. CASE Writes BY <1>0, <1>7, NothingTaken, KeptFollowed DEF Writes
<1>8. CASE \E w \in BagToSet(watchers) : Exporting(w) \/ Exported(w) BY <1>8, HeardFollowed
<1>9. CASE Switched
  <2>1. /\ exporter'.token = exporter.token /\ exporter'.run = exporter.run
        /\ exporter'.open = exporter.open /\ exporter'.busy = exporter.busy
    BY <1>0, <1>9 DEF Switched, IInv, Formed
  <2>2. QED BY <1>0, <1>9, <1>a, <2>1, KeptFollowed DEF Switched
<1>10. CASE Crashed
  <2>1. exporter'.token = 0 /\ ~exporter'.busy BY <1>10 DEF Crashed, NoDialog, NoRun
  <2>2. QED BY <1>0, <1>10, <1>a, <2>1, KeptFollowed DEF Crashed
<1>11. CASE UNCHANGED exportVars BY <1>0, <1>11, <1>a, KeptFollowed DEF exportVars
<1>12. QED
  BY <1>1, <1>2, <1>3, <1>4, <1>5, <1>6, <1>7, <1>8, <1>9, <1>10, <1>11 DEF ExportNext

(* While the dialog says that a file is being written the end of it is     *)
(* waited for in its name, and esc stops it, although its numbers begin    *)
(* again with every dialog (exporting, exported).                          *)
THEOREM BusyIsFollowedHolds == ExportSpec => []BusyIsFollowed
<1>1. JInv => BusyIsFollowed
  <2> SUFFICES ASSUME Followed, exporter.busy
               PROVE  /\ \E w \in BagToSet(watchers) : w.run = exporter.run /\ Ours(w)
                      /\ ~runs[exporter.run].taken /\ stopExport = exporter.run
    BY DEF JInv, BusyIsFollowed
  <2>1. Ticket.run = exporter.run /\ Ticket.token = exporter.token BY DEF Ticket
  <2>2. QED BY <2>1 DEF Followed, Ours
<1>2. QED BY <1>1, InitJInv, StepJInv, PTL DEF ExportSpec
-----------------------------------------------------------------------------
(* The result set an export reads, for every set of drivers, every cap and *)
(* every number of rows.  The inductive invariant ties the transaction,    *)
(* the deadline and the answer to the phase (Shape), and the rows to the   *)
(* cap (Counted).                                                          *)

Reading == phase \in {"idle", "begun", "lifted", "open"}

\* Between Begin and the end the transaction is open and nobody was told anything.
Shape ==
  /\ phase = "idle" => tx = "none" /\ watch = "none"
  /\ phase \notin {"idle", "done"} => tx = "pending"
  /\ phase = "done" => tx # "pending" /\ watch # "held"
  /\ phase = "done" <=> told # "waiting"
  /\ phase = "committing" => Writable /\ err = "nil"
  /\ told = "worked" => err = "nil"
  /\ phase = "rolling" => ~Writable \/ err = "failed" \/ ctx = "over"

\* Until the rows end they are either seen or left; afterwards all were seen up to
\* the cap unless the run failed, and the cut is said unless it was given up on.
Counted ==
  /\ Reading => left + seen = config.total /\ truncated = "no"
  /\ truncated = "yes" => seen < config.total
  /\ ~Reading /\ err = "nil" /\ told # "failed" =>
       /\ seen = config.total \/ seen = config.limit
       /\ ctx = "live" /\ seen < config.total => truncated = "yes"

DriverIInv == TypeOK /\ Shape /\ Counted

(* The invariant holds at the start.                                       *)
LEMMA DriverInitIInv == Init => DriverIInv
<1> SUFFICES ASSUME Init PROVE DriverIInv OBVIOUS
<1>0. config.total \in 0..MaxRows /\ config.limit \in Nat
  BY BoundsAssumption DEF Init, Configs
<1>1. TypeOK BY <1>0, BoundsAssumption DEF Init, TypeOK
<1>2. Shape BY DEF Init, Shape
<1>3. Counted BY <1>0, BoundsAssumption DEF Init, Counted, Reading
<1>4. QED BY <1>1, <1>2, <1>3 DEF DriverIInv

(* No step that opens a statement breaks it.                               *)
LEMMA DriverOpenIInv ==
  DriverIInv /\ (Begin \/ BeginFails \/ Lift \/ Execute) => DriverIInv'
<1> SUFFICES ASSUME DriverIInv, Begin \/ BeginFails \/ Lift \/ Execute
             PROVE  DriverIInv'
  OBVIOUS
<1> USE BoundsAssumption
<1> USE DEF DriverIInv, TypeOK, Shape, Counted, Reading, Writable
<1>1. CASE Begin BY <1>1 DEF Begin, Watches
<1>2. CASE BeginFails BY <1>2 DEF BeginFails, Watches
<1>3. CASE Lift BY <1>3 DEF Lift, GivenBack
<1>4. CASE Execute BY <1>4 DEF Execute, GivenBack, Lifts
<1>5. QED BY <1>1, <1>2, <1>3, <1>4

(* No row, and no end of the rows, breaks it.                              *)
LEMMA DriverNextIInv == DriverIInv /\ (Row \/ RowFails \/ RowsEnd \/ AtCap) => DriverIInv'
<1> SUFFICES ASSUME DriverIInv, Row \/ RowFails \/ RowsEnd \/ AtCap PROVE DriverIInv'
  OBVIOUS
<1> USE BoundsAssumption
<1>0. config.total \in 0..MaxRows /\ config.limit \in Nat
  BY BoundsAssumption DEF DriverIInv, TypeOK, Configs
<1> USE DEF DriverIInv, TypeOK, Shape, Counted, Reading, Writable, Capped
<1>1. CASE Row
  <2>1. TypeOK' BY <1>0, <1>1 DEF Row
  <2>2. Shape' BY <1>1 DEF Row
  <2>3. Counted' BY <1>1 DEF Row
  <2>4. QED BY <2>1, <2>2, <2>3
<1>2. CASE RowFails BY <1>2 DEF RowFails
<1>3. CASE RowsEnd BY <1>3 DEF RowsEnd, Breaks
<1>4. CASE AtCap
  <2>1. TypeOK' BY <1>4 DEF AtCap, Breaks
  <2>2. Shape' BY <1>4 DEF AtCap, Breaks
  <2>3. Counted' BY <1>0, <1>4 DEF AtCap, Breaks
  <2>4. QED BY <2>1, <2>2, <2>3
<1>5. QED BY <1>1, <1>2, <1>3, <1>4

(* No step of Close breaks it, and nor does the end of the context.        *)
LEMMA DriverCloseIInv ==
  DriverIInv /\ (CloseRows \/ Decide \/ Commit \/ Rollback \/ Over) => DriverIInv'
<1> SUFFICES ASSUME DriverIInv, CloseRows \/ Decide \/ Commit \/ Rollback \/ Over
             PROVE  DriverIInv'
  OBVIOUS
<1> USE BoundsAssumption
<1> USE DEF DriverIInv, TypeOK, Shape, Counted, Reading, Writable
<1>1. CASE CloseRows BY <1>1 DEF CloseRows
<1>2. CASE Decide BY <1>2 DEF Decide, Commits
<1>3. CASE Commit BY <1>3 DEF Commit, Released, Refuses
<1>4. CASE Rollback BY <1>4 DEF Rollback, Released, Hears
<1>5. CASE Over BY <1>5 DEF Over
<1>6. QED BY <1>1, <1>2, <1>3, <1>4, <1>5

(* The invariant is inductive.                                             *)
LEMMA DriverStepIInv == DriverIInv /\ [Next]_vars => DriverIInv'
<1>1. DriverIInv /\ UNCHANGED vars => DriverIInv'
  BY DEF DriverIInv, TypeOK, Shape, Counted, Reading, Writable, vars
<1>2. QED BY <1>1, DriverOpenIInv, DriverNextIInv, DriverCloseIInv DEF Next, Step

(* The inductive invariant holds throughout.                               *)
LEMMA DriverAlwaysIInv == Spec => []DriverIInv
BY DriverInitIInv, DriverStepIInv, PTL DEF Spec

(* Every variable keeps its type, and no result set hands over more rows   *)
(* than its cap (Next in the three query.go).                              *)
THEOREM DriverTypeCorrect == Spec => []TypeOK
<1>1. DriverIInv => TypeOK BY DEF DriverIInv
<1>2. QED BY <1>1, DriverAlwaysIInv, PTL

(* No way out of open or Close leaves a transaction open or a deadline     *)
(* running (open and Close in the three query.go).                         *)
THEOREM NothingIsLeftOpen == Spec => []NothingLeftOpen
<1>1. DriverIInv => NothingLeftOpen BY DEF DriverIInv, Shape, NothingLeftOpen
<1>2. QED BY <1>1, DriverAlwaysIInv, PTL

(* What worked showed every row up to the cap, and the cut is said only    *)
(* when rows were cut, and always while the context is not over (Next).    *)
THEOREM TheCutIsHonest == Spec => []TruncationIsHonest
<1>1. DriverIInv => TruncationIsHonest
  <2> SUFFICES ASSUME DriverIInv PROVE TruncationIsHonest OBVIOUS
  <2>1. told = "worked" => phase = "done" /\ err = "nil" BY DEF DriverIInv, TypeOK, Shape
  <2>2. QED BY <2>1 DEF DriverIInv, Counted, Reading, TruncationIsHonest
<1>2. QED BY <1>1, DriverAlwaysIInv, PTL

\* Given up on, before anything was asked to be kept.
Lost == ctx = "over" /\ phase # "committing" /\ tx # "kept"

(* A run that was given up on in time keeps nothing, whatever follows      *)
(* (commits in the three query.go).                                        *)
THEOREM GivenUpKeepsNothing == Spec => GivenUpIsThrown
<1>1. DriverIInv /\ ctx = "over" /\ phase \notin {"committing", "done"} => Lost
  BY DEF DriverIInv, TypeOK, Shape, Lost
<1>2. Lost /\ [Next]_vars => Lost'
  BY DEF Lost, Next, Step, vars, Begin, BeginFails, Lift, Execute, GivenBack, Row,
         RowFails, RowsEnd, AtCap, CloseRows, Decide, Commits, Commit, Rollback, Over
<1>3. Lost => tx # "kept" BY DEF Lost
<1>4. QED BY <1>1, <1>2, <1>3, DriverAlwaysIInv, PTL DEF Spec, GivenUpIsThrown

(* Every step of a driver is a step of the promise: a READ ONLY profile    *)
(* keeps nothing, and what is said to have worked was kept unless the run  *)
(* was given up on.                                                        *)
THEOREM TheWorkIsSettled ==
  Spec => Promise!Init /\ [][Promise!Next]_(Promise!vars)
<1> USE DEF Promise!vars
<1>1. Init => Promise!Init
  BY DEF Init, Promise!Init, Configs, Modes
<1>2. ASSUME DriverIInv, Begin PROVE Promise!Begin
  BY <1>2 DEF Begin, Promise!Begin, DriverIInv, Shape
<1>3. ASSUME DriverIInv, GivenBack, phase \notin {"idle", "done"} PROVE Promise!Fail
  BY <1>3 DEF GivenBack, Promise!Fail, DriverIInv, Shape
<1>4. ASSUME DriverIInv, BeginFails PROVE Promise!Fail
  BY <1>4 DEF BeginFails, Promise!Fail, DriverIInv, Shape
<1>5. ASSUME DriverIInv, Lift \/ Execute
      PROVE  Promise!Fail \/ UNCHANGED Promise!vars
  BY <1>3, <1>5 DEF Lift, Execute, Lifts
<1>6. ASSUME Row \/ RowFails \/ RowsEnd \/ AtCap \/ CloseRows \/ Decide
      PROVE  UNCHANGED Promise!vars
  BY <1>6 DEF Row, RowFails, RowsEnd, AtCap, CloseRows, Decide
<1>7. ASSUME DriverIInv, Commit PROVE Promise!Work \/ Promise!Fail
  BY <1>7 DEF Commit, Promise!Work, Promise!Fail, DriverIInv, Shape, Writable
<1>8. ASSUME DriverIInv, Rollback PROVE Promise!Work \/ Promise!Fail
  <2>1. config.mode \in Modes BY <1>8 DEF DriverIInv, TypeOK, Configs
  <2>2. QED BY <1>8, <2>1
    DEF Rollback, Promise!Work, Promise!Fail, DriverIInv, TypeOK, Shape, Writable, Modes
<1>9. ASSUME DriverIInv, Over PROVE Promise!GiveUp
  BY <1>9 DEF Over, Promise!GiveUp, DriverIInv, Shape
<1>10. DriverIInv /\ [Next]_vars => [Promise!Next]_(Promise!vars)
  <2>1. UNCHANGED vars => UNCHANGED Promise!vars BY DEF vars
  <2>2. QED BY <1>2, <1>4, <1>5, <1>6, <1>7, <1>8, <1>9, <2>1
    DEF Next, Step, Promise!Next
<1>11. QED BY <1>1, <1>10, DriverAlwaysIInv, PTL DEF Spec
==============================================================================
