------------------------------- MODULE TilePool -------------------------------
(***************************************************************************)
(* The worker pool of cog.File.ReadWindow, which tiles.Fetch repeats: one  *)
(* goroutine per covering tile, at most Conc of them at a time, a context  *)
(* of the pool's own that the first error cancels, and a wait for all of   *)
(* them before the raster or the error is returned.                        *)
(*                                                                         *)
(* The caller's context may be done at any moment: the build's timeout has *)
(* passed or the client has gone.  Workers see either context as ctx.      *)
(* Jobs are queued in raster order; here any order, tiles being alike.     *)
(***************************************************************************)
EXTENDS Naturals, FiniteSets

CONSTANTS
    Tiles,     \* the tiles that cover the window
    Conc,      \* how many workers run at a time
    None

ASSUME TilesAssumption == IsFiniteSet(Tiles)
ASSUME ConcAssumption == Conc \in Nat \ {0}
ASSUME NoneAssumption == None \notin {"upstream", "ctx"}

VARIABLES
    mpc,         \* the caller's goroutine: "spawn", "wait", "done"
    wpc,         \* wpc[t]: the worker of tile t
    slots,       \* taken slots of the channel sem
    err,         \* err[t]: the error worker t has met
    firstErr,    \* the first error reported
    canceled,    \* the pool's context was canceled
    parentDone,  \* the caller's context is done
    settled,     \* tiles whose pixels are final: drawn, or known to be blank
    result       \* what the call returned: "ok" or the kind of its error

vars == <<mpc, wpc, slots, err, firstErr, canceled, parentDone, settled, result>>

\* Workers that hold a slot of the pool.
Busy == {"check", "read", "draw", "report", "release"}

Errors == {"upstream", "ctx"}

Init ==
    /\ mpc = "spawn"
    /\ wpc = [t \in Tiles |-> "queued"]
    /\ slots = 0
    /\ err = [t \in Tiles |-> None]
    /\ firstErr = None
    /\ canceled = FALSE
    /\ parentDone \in BOOLEAN
    /\ settled = {}
    /\ result = "none"

\* ctx.Err() # nil
CtxDone == parentDone \/ canceled

ParentEnds ==
    /\ ~parentDone
    /\ mpc # "done"
    /\ parentDone' = TRUE
    /\ UNCHANGED <<mpc, wpc, slots, err, firstErr, canceled, settled, result>>

Goto(t, p) == wpc' = [wpc EXCEPT ![t] = p]

-----------------------------------------------------------------------------
(* The loop over the jobs.                                                 *)

\* Faulty variant: the slot is counted and not waited for.
SpawnAlways(t) ==
    /\ mpc = "spawn"
    /\ wpc[t] = "queued"
    /\ slots' = slots + 1
    /\ Goto(t, "check")
    /\ UNCHANGED <<mpc, err, firstErr, canceled, parentDone, settled, result>>

\* wg.Add(1); sem <- struct{}{}; go func
Spawn(t) ==
    /\ mpc = "spawn"
    /\ wpc[t] = "queued"
    /\ slots < Conc
    /\ slots' = slots + 1
    /\ Goto(t, "check")
    /\ UNCHANGED <<mpc, err, firstErr, canceled, parentDone, settled, result>>

AllSpawned ==
    /\ mpc = "spawn"
    /\ \A t \in Tiles : wpc[t] # "queued"
    /\ mpc' = "wait"
    /\ UNCHANGED <<wpc, slots, err, firstErr, canceled, parentDone, settled, result>>

-----------------------------------------------------------------------------
(* A worker.                                                               *)

\* if ctx.Err() != nil { return }
SkipTile(t) ==
    /\ wpc[t] = "check"
    /\ CtxDone
    /\ Goto(t, "release")
    /\ UNCHANGED <<mpc, slots, err, firstErr, canceled, parentDone, settled, result>>

StartRead(t) ==
    /\ wpc[t] = "check"
    /\ ~CtxDone
    /\ Goto(t, "read")
    /\ UNCHANGED <<mpc, slots, err, firstErr, canceled, parentDone, settled, result>>

\* The bytes arrive, also when a context ends right after.
ReadOK(t) ==
    /\ wpc[t] = "read"
    /\ Goto(t, "draw")
    /\ UNCHANGED <<mpc, slots, err, firstErr, canceled, parentDone, settled, result>>

\* The request fails, its answer is truncated or cannot be decoded; under a
\* context that is done the error is the context's.
ReadErr(t) ==
    /\ wpc[t] = "read"
    /\ \/ err' = [err EXCEPT ![t] = "upstream"]
       \/ CtxDone /\ err' = [err EXCEPT ![t] = "ctx"]
    /\ Goto(t, "report")
    /\ UNCHANGED <<mpc, slots, firstErr, canceled, parentDone, settled, result>>

\* A sparse tile of a COG (byte count 0) is zeros and is never requested.
Sparse(t) ==
    /\ wpc[t] = "read"
    /\ settled' = settled \cup {t}
    /\ Goto(t, "release")
    /\ UNCHANGED <<mpc, slots, err, firstErr, canceled, parentDone, result>>

\* A tile server answers 404 or 204: outside its coverage, stays black.
OutsideCoverage(t) ==
    /\ wpc[t] = "read"
    /\ settled' = settled \cup {t}
    /\ Goto(t, "release")
    /\ UNCHANGED <<mpc, slots, err, firstErr, canceled, parentDone, result>>

\* The decoded tile is copied into the raster.
Draw(t) ==
    /\ wpc[t] = "draw"
    /\ settled' = settled \cup {t}
    /\ Goto(t, "release")
    /\ UNCHANGED <<mpc, slots, err, firstErr, canceled, parentDone, result>>

\* Faulty variant: the siblings are canceled and the error is lost.
ReportCancelsOnly(t) ==
    /\ wpc[t] = "report"
    /\ canceled' = TRUE
    /\ Goto(t, "release")
    /\ UNCHANGED <<mpc, slots, err, firstErr, parentDone, settled, result>>

\* Faulty variant: the last error is kept.
ReportOverwrites(t) ==
    /\ wpc[t] = "report"
    /\ firstErr' = err[t]
    /\ canceled' = TRUE
    /\ Goto(t, "release")
    /\ UNCHANGED <<mpc, slots, err, parentDone, settled, result>>

\* Under mu the first error is kept and cancels the others.
Report(t) ==
    /\ wpc[t] = "report"
    /\ IF firstErr = None
       THEN firstErr' = err[t] /\ canceled' = TRUE
       ELSE UNCHANGED <<firstErr, canceled>>
    /\ Goto(t, "release")
    /\ UNCHANGED <<mpc, slots, err, parentDone, settled, result>>

\* Faulty variant: nothing receives from sem.
ReleaseForgotten(t) ==
    /\ wpc[t] = "release"
    /\ Goto(t, "finish")
    /\ UNCHANGED <<mpc, slots, err, firstErr, canceled, parentDone, settled, result>>

\* The deferred <-sem.
Release(t) ==
    /\ wpc[t] = "release"
    /\ slots' = slots - 1
    /\ Goto(t, "finish")
    /\ UNCHANGED <<mpc, err, firstErr, canceled, parentDone, settled, result>>

\* The deferred wg.Done().
Finish(t) ==
    /\ wpc[t] = "finish"
    /\ Goto(t, "gone")
    /\ UNCHANGED <<mpc, slots, err, firstErr, canceled, parentDone, settled, result>>

-----------------------------------------------------------------------------
\* Faulty variant: wg.Add comes inside the goroutines, and Wait returns early.
JoinEarly ==
    /\ mpc = "wait"
    /\ mpc' = "done"
    /\ result' = IF firstErr # None THEN firstErr ELSE "ok"
    /\ canceled' = TRUE
    /\ UNCHANGED <<wpc, slots, err, firstErr, parentDone, settled>>

\* wg.Wait(), the test of firstErr and the deferred cancel.
Join ==
    /\ mpc = "wait"
    /\ \A t \in Tiles : wpc[t] = "gone"
    /\ mpc' = "done"
    /\ result' = IF firstErr # None THEN firstErr ELSE "ok"
    /\ canceled' = TRUE
    /\ UNCHANGED <<wpc, slots, err, firstErr, parentDone, settled>>

Work(t) ==
    \/ SkipTile(t) \/ StartRead(t)
    \/ ReadOK(t) \/ ReadErr(t) \/ Sparse(t) \/ OutsideCoverage(t)
    \/ Draw(t) \/ Report(t) \/ Release(t) \/ Finish(t)

Next ==
    \/ ParentEnds
    \/ \E t \in Tiles : Spawn(t)
    \/ AllSpawned
    \/ \E t \in Tiles : Work(t)
    \/ Join

Spec == Init /\ [][Next]_vars

\* Goroutines run and requests end: each has the client's timeout.
Fairness ==
    /\ WF_vars(\E t \in Tiles : Spawn(t))
    /\ WF_vars(AllSpawned)
    /\ WF_vars(Join)
    /\ \A t \in Tiles : WF_vars(Work(t))

FairSpec == Spec /\ Fairness

-----------------------------------------------------------------------------
(* Properties.                                                             *)

\* Every variable has its type.
TypeOK ==
    /\ mpc \in {"spawn", "wait", "done"}
    /\ wpc \in [Tiles -> Busy \cup {"queued", "finish", "gone"}]
    /\ slots \in 0 .. Conc
    /\ err \in [Tiles -> Errors \cup {None}]
    /\ firstErr \in Errors \cup {None}
    /\ canceled \in BOOLEAN
    /\ parentDone \in BOOLEAN
    /\ settled \in SUBSET Tiles
    /\ result \in {"none", "ok"} \cup Errors

\* No more than Conc tiles are in the works at a time, and every slot taken
\* is somebody's.
Running == {t \in Tiles : wpc[t] \in Busy}

SlotsCounted == slots = Cardinality(Running)

\* A raster returned while the caller's context was alive has every tile:
\* what a worker leaves out, because a sibling failed, never passes for a
\* success.
OkIsComplete == result = "ok" /\ ~parentDone => settled = Tiles

\* The error returned is the cause of the failure: a worker that was merely
\* canceled because a sibling failed does not hide the sibling's error.
RootCause == result = "ctx" => parentDone

\* Nobody draws into a raster that was returned, or reports to a call that is
\* over.
NoLateWrite == [][mpc = "done" => UNCHANGED <<settled, firstErr>>]_vars

\* The call returns, however many tiles fail and whenever the context ends.
Returns == <>(mpc = "done")

\* "ReadWindow decodes the given pixel window of a level, fetching only the
\* covering tiles" (reader.go:65-66): a raster returned without an error has
\* every tile.  When the caller's context ends while no request is under way,
\* the remaining workers return silently and the raster is handed out with
\* black tiles.
OkIsWhole == result = "ok" => settled = Tiles

=============================================================================
