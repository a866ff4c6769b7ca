------------------------------ MODULE ResultSet ------------------------------
(***************************************************************************)
(* One statement through a driver: the transaction it runs in, the rows it *)
(* hands back up to the cap, and what becomes of its work.  The three      *)
(* drivers have the same shape and differ in what config.driver picks out  *)
(* below.                                                                  *)
(*                                                                         *)
(* The server, and the way a context ends while anything is going on, are  *)
(* the environment: the context may be over at any moment, because the run *)
(* was given up on or because a deadline passed.  The reader is one that   *)
(* reads to the end and closes with driver.Finish, as the editor and the   *)
(* query command do.                                                       *)
(***************************************************************************)
EXTENDS Naturals

CONSTANTS Drivers,  \* the drivers there are
          Limits,   \* row caps, 0 being the none of a stream
          MaxRows   \* bound: rows a statement has

ASSUME DriversAssumption == Drivers \subseteq {"postgres", "mssql", "sqlite"}
ASSUME BoundsAssumption == Limits \subseteq Nat /\ MaxRows \in Nat

VARIABLES
  config,     \* driver, mode, cap and statement: fixed once it is sent
  phase,      \* where the goroutine running it is
  ctx,        \* whether its context is over
  left,       \* rows the server has not handed over
  ending,     \* how the server ended the rows, "broken" or "sound"
  seen,       \* rows handed to the caller
  truncated,  \* whether the cap cut rows off
  err,        \* what the result set noticed, "failed" or "nil"
  tx,         \* what became of the transaction
  watch,      \* the deadline context of mssql
  told        \* what the caller was told

vars == <<config, phase, ctx, left, ending, seen, truncated, err, tx, watch, told>>

Modes == {"readonly", "readwrite"}

\* "fails" is a statement that ends in a failure once its rows are read.
Configs == [driver : Drivers, mode : Modes, limit : Limits, total : 0..MaxRows,
            fails : BOOLEAN]

TypeOK ==
  /\ config \in Configs
  /\ phase \in {"idle", "begun", "lifted", "open", "ended", "closing", "committing",
                "rolling", "done"}
  /\ ctx \in {"live", "over"}
  /\ left \in 0..MaxRows
  /\ seen \in 0..MaxRows /\ (config.limit > 0 => seen <= config.limit)
  /\ ending \in {"sound", "broken"}
  /\ truncated \in {"no", "yes"} /\ err \in {"nil", "failed"}
  /\ tx \in {"none", "pending", "kept", "thrown"}
  /\ watch \in {"none", "held", "released"}
  /\ told \in {"waiting", "worked", "failed"}

Writable == config.mode = "readwrite"

\* Only PostgreSQL lifts the statement timeout, and only to stream.
Lifts == config.driver = "postgres" /\ config.limit = 0

\* Only SQL Server puts the deadline on a context of its own.
Watches == config.driver = "mssql"

\* PostgreSQL refuses to keep a transaction in which a statement failed.
Refuses == config.driver = "postgres" /\ ending = "broken"

Init ==
  /\ config \in Configs
  /\ phase = "idle" /\ ctx = "live"
  /\ left = config.total
  /\ seen = 0
  /\ ending = "sound" /\ truncated = "no" /\ err = "nil"
  /\ tx = "none" /\ watch = "none" /\ told = "waiting"

-----------------------------------------------------------------------------
(* open: every way out but the last takes the transaction back. *)

Begin ==
  /\ phase = "idle" /\ ctx = "live"
  /\ phase' = "begun" /\ tx' = "pending"
  /\ watch' = IF Watches THEN "held" ELSE "none"
  /\ UNCHANGED <<config, ctx, left, ending, seen, truncated, err, told>>

BeginFails ==
  /\ phase = "idle"
  /\ phase' = "done" /\ told' = "failed"
  /\ watch' = IF Watches THEN "released" ELSE "none"
  /\ UNCHANGED <<config, ctx, left, ending, seen, truncated, err, tx>>

\* Mutant: a way out of open that forgets the deadline.
GivenBackHeld ==
  /\ phase' = "done" /\ told' = "failed"
  /\ tx' = "thrown"
  /\ UNCHANGED <<config, ctx, left, ending, seen, truncated, err, watch>>

\* A statement that never gave a result set: its transaction is thrown away.
GivenBack ==
  /\ phase' = "done" /\ told' = "failed"
  /\ tx' = "thrown"
  /\ watch' = IF watch = "held" THEN "released" ELSE watch
  /\ UNCHANGED <<config, ctx, left, ending, seen, truncated, err>>

Lift ==
  /\ phase = "begun" /\ Lifts
  /\ \/ GivenBack
     \/ /\ phase' = "lifted"
        /\ UNCHANGED <<config, ctx, left, ending, seen, truncated, err, tx, watch, told>>

\* The statement is sent and its columns described; either may fail.
Execute ==
  /\ phase = IF Lifts THEN "lifted" ELSE "begun"
  /\ \/ GivenBack
     \/ /\ phase' = "open"
        /\ UNCHANGED <<config, ctx, left, ending, seen, truncated, err, tx, watch, told>>

-----------------------------------------------------------------------------
(* Next: one row, or the end. *)

\* Mutant: one row more than the cap is handed over.
CappedLate == config.limit > 0 /\ seen > config.limit

Capped == config.limit > 0 /\ seen >= config.limit

Row ==
  /\ phase = "open" /\ err = "nil" /\ ~Capped
  /\ left > 0
  /\ left' = left - 1 /\ seen' = seen + 1
  /\ UNCHANGED <<config, phase, ctx, ending, truncated, err, tx, watch, told>>

\* A row arrives that cannot be read.
RowFails ==
  /\ phase = "open" /\ err = "nil" /\ ~Capped
  /\ left > 0
  /\ left' = left - 1
  /\ phase' = "ended" /\ err' = "failed"
  /\ UNCHANGED <<config, ctx, ending, seen, truncated, tx, watch, told>>

\* The rows break off: the statement fails behind them or the context is over.
Breaks == (left = 0 /\ config.fails) \/ ctx = "over"

RowsEnd ==
  /\ phase = "open" /\ err = "nil" /\ ~Capped
  /\ phase' = "ended"
  /\ \/ left = 0 /\ ~config.fails /\ UNCHANGED <<ending, err>>
     \/ Breaks /\ ending' = "broken" /\ err' = "failed"
  /\ UNCHANGED <<config, ctx, left, seen, truncated, tx, watch, told>>

\* Mutant: at the cap the rows are said to be cut without asking for one more.
AtCapGuessing ==
  /\ phase = "open" /\ err = "nil" /\ Capped
  /\ phase' = "ended" /\ truncated' = "yes"
  /\ UNCHANGED <<config, ctx, left, ending, seen, err, tx, watch, told>>

\* At the cap one more row is asked for, only to know whether there was one.
\* How the rows ended is not asked.
AtCap ==
  /\ phase = "open" /\ err = "nil" /\ Capped
  /\ phase' = "ended"
  /\ \/ /\ left > 0
        /\ left' = left - 1
        /\ truncated' = "yes"
        /\ UNCHANGED ending
     \/ /\ left = 0 \/ ctx = "over"
        /\ ending' = IF Breaks THEN "broken" ELSE "sound"
        /\ UNCHANGED <<left, truncated>>
  /\ UNCHANGED <<config, ctx, seen, err, tx, watch, told>>

-----------------------------------------------------------------------------
(* Finish: Err, then Close, which keeps the work or throws it away. *)

\* rows.Close: what is left of the statement runs out, unseen.
CloseRows ==
  /\ phase = "ended"
  /\ phase' = "closing"
  /\ \/ UNCHANGED ending
     \/ truncated = "yes" /\ config.fails /\ ending' = "broken"
  /\ UNCHANGED <<config, ctx, left, seen, truncated, err, tx, watch, told>>

\* Mutant: a READ ONLY profile keeps its work too.
CommitsReadOnly == err = "nil" /\ ctx = "live"

\* Mutant: nobody looks whether the run was given up on.
CommitsAnyway == Writable /\ err = "nil"

Commits == Writable /\ err = "nil" /\ ctx = "live"

Decide ==
  /\ phase = "closing"
  /\ phase' = IF Commits THEN "committing" ELSE "rolling"
  /\ UNCHANGED <<config, ctx, left, ending, seen, truncated, err, tx, watch, told>>

Released == IF watch = "held" THEN "released" ELSE watch

\* The commit is answered, refused, or its answer is lost on the way.
Commit ==
  /\ phase = "committing"
  /\ phase' = "done" /\ watch' = Released
  /\ \/ ~Refuses /\ tx' = "kept" /\ told' = "worked"
     \/ ~Refuses /\ tx' = "kept" /\ told' = "failed"
     \/ tx' = "thrown" /\ told' = "failed"
  /\ UNCHANGED <<config, ctx, left, ending, seen, truncated, err>>

\* PostgreSQL sends the rollback on the context of the run, so an ended one is an
\* error.  The other two send it on none, and are only told of the end when the
\* library threw the transaction away first.
Hears == config.driver = "postgres" /\ ctx = "over"

\* A rollback that cannot be sent ends the connection, and the work with it.
Rollback ==
  /\ phase = "rolling"
  /\ phase' = "done" /\ watch' = Released
  /\ tx' = "thrown"
  /\ told' \in IF err = "failed" \/ Hears THEN {"failed"} ELSE {"worked", "failed"}
  /\ UNCHANGED <<config, ctx, left, ending, seen, truncated, err>>

\* The run is given up on, or a deadline passes.
Over ==
  /\ ctx = "live" /\ phase # "done"
  /\ ctx' = "over"
  /\ UNCHANGED <<config, phase, left, ending, seen, truncated, err, tx, watch, told>>

Step ==
  \/ Begin \/ BeginFails \/ Lift \/ Execute
  \/ Row \/ RowFails \/ RowsEnd \/ AtCap
  \/ CloseRows \/ Decide \/ Commit \/ Rollback

Next == Step \/ Over

\* The goroutine runs on: every call it makes into the server is answered, or
\* ended by a timeout or by the context.
Spec == Init /\ [][Next]_vars /\ WF_vars(Step)

-----------------------------------------------------------------------------
(* What must hold. *)

\* Whichever way a statement comes to its end, in open or in Close, no
\* transaction is left open on the pooled connection and no deadline running.
NothingLeftOpen == phase = "done" => tx # "pending" /\ watch # "held"

\* Work is not kept once the run was given up on, unless the commit was already
\* on its way.
GivenUpIsThrown ==
  [](ctx = "over" /\ phase \notin {"committing", "done"} => [](tx # "kept"))

\* What is said to have worked showed every row up to the cap; rows that were not
\* cut off are never said to be; and those that were are said to be, as long as the
\* context is not over.  With the context over at the cap the row that would tell is
\* refused, and a statement of a READ ONLY profile has worked without a word of it.
TruncationIsHonest ==
  /\ told = "worked" => seen = config.total \/ seen = config.limit
  /\ truncated = "yes" => seen < config.total
  /\ told = "worked" /\ ctx = "live" /\ seen < config.total => truncated = "yes"

\* The promise of every driver about the work of a statement, and that it is told.
Promise == INSTANCE StatementWork WITH
  mode <- config.mode, work <- tx, given <- ctx = "over"

WorkIsSettled == Promise!Spec

(* What is said of the drivers, or taken for granted, and not kept.         *)

\* driver.go: Finish returns the first thing that went wrong, a statement that
\* failed.  What is said to have worked did not fail behind its last row.
FailureIsReported == told = "worked" /\ ctx = "live" => ending = "sound"

\* What the editor, the command line and the assistant take Truncated for: a result
\* that says nothing is all there is, also when the context ended at the cap.
CutIsSaid == told = "worked" /\ seen < config.total => truncated = "yes"

\* driver.go: Finish returns the first thing that went wrong, work that was not
\* kept.  What is said to have worked on a READ / WRITE profile was kept.
WorkedMeansKept == told = "worked" /\ Writable => tx = "kept"
==============================================================================
