---------------------------- MODULE TilePoolProofs ----------------------------
(***************************************************************************)
(* Proofs about TilePool.tla, for any finite set of tiles and any size of  *)
(* the pool.  The invariant follows an unfinished tile backwards: a worker *)
(* that ends without settling its tile leaves a reason behind, either an   *)
(* error the call will return or a caller whose context is done.           *)
(***************************************************************************)
EXTENDS TilePool, FiniteSetTheorems, TLAPS

\* Places of a worker that is through with its tile.
Through == {"release", "finish", "gone"}

\* A tile nobody will settle any more has a reason.
LeftForReason ==
    \A t \in Tiles : wpc[t] \in Through /\ t \notin settled =>
        firstErr # None \/ parentDone

\* The pool's context is canceled by an error, or by the end of the call.
CanceledForReason == canceled => firstErr # None \/ mpc = "done"

\* An error of the context, met by a worker, is the caller's doing unless an
\* earlier error was reported.
CtxForReason ==
    /\ \A t \in Tiles : err[t] = "ctx" => parentDone \/ firstErr # None
    /\ \A t \in Tiles : wpc[t] = "report" => err[t] # None
    /\ firstErr = "ctx" => parentDone

\* The call waits for every worker, and its result is what they reported.
JoinsAll ==
    /\ mpc # "spawn" => \A t \in Tiles : wpc[t] # "queued"
    /\ mpc = "done" => \A t \in Tiles : wpc[t] = "gone"
    /\ mpc = "done" => result = IF firstErr # None THEN firstErr ELSE "ok"
    /\ mpc # "done" => result = "none"

IInv ==
    /\ TypeOK
    /\ SlotsCounted
    /\ LeftForReason
    /\ CanceledForReason
    /\ CtxForReason
    /\ JoinsAll

-----------------------------------------------------------------------------

\* The running workers are finitely many.
LEMMA RunningFinite == IsFiniteSet(Running)
  BY TilesAssumption, FS_Subset DEF Running

\* A worker that starts is one more.
LEMMA WorkerStarts ==
  ASSUME TypeOK, SlotsCounted, NEW t \in Tiles, t \notin Running,
         slots < Conc, slots' = slots + 1, Running' = Running \cup {t}
  PROVE  SlotsCounted' /\ slots' \in 0 .. Conc
  <1>1. Cardinality(Running \cup {t}) = Cardinality(Running) + 1
    BY RunningFinite, FS_AddElement
  <1> QED
    BY <1>1, ConcAssumption DEF SlotsCounted, TypeOK

\* A worker that leaves was one of them.
LEMMA WorkerLeaves ==
  ASSUME TypeOK, SlotsCounted, NEW t \in Running,
         slots' = slots - 1, Running' = Running \ {t}
  PROVE  SlotsCounted' /\ slots' \in 0 .. Conc
  <1>1. Cardinality(Running \ {t}) = Cardinality(Running) - 1
    BY RunningFinite, FS_RemoveElement
  <1>2. Cardinality(Running \ {t}) \in Nat
    BY RunningFinite, FS_RemoveElement, FS_CardinalityType
  <1> QED
    BY <1>1, <1>2, ConcAssumption DEF SlotsCounted, TypeOK

-----------------------------------------------------------------------------

LEMMA InitIInv == Init => IInv
  <1> SUFFICES ASSUME Init PROVE IInv
    OBVIOUS
  <1> USE NoneAssumption
  <1>1. TypeOK
    <2>1. slots \in 0 .. Conc
      BY ConcAssumption DEF Init
    <2>2. wpc \in [Tiles -> Busy \cup {"queued", "finish", "gone"}]
      BY DEF Init
    <2>3. err \in [Tiles -> Errors \cup {None}] /\ firstErr \in Errors \cup {None}
      BY DEF Init
    <2> QED
      BY <2>1, <2>2, <2>3, Zenon DEF Init, TypeOK
  <1>2. Running = {}
    BY DEF Init, Running, Busy
  <1>3. SlotsCounted
    BY <1>2, FS_EmptySet DEF Init, SlotsCounted
  <1>4. LeftForReason /\ CanceledForReason /\ CtxForReason /\ JoinsAll
    BY DEF Init, LeftForReason, CanceledForReason, CtxForReason, JoinsAll, Through
  <1> QED
    BY <1>1, <1>3, <1>4 DEF IInv

LEMMA NextIInv == IInv /\ [Next]_vars => IInv'
  <1> SUFFICES ASSUME IInv, [Next]_vars PROVE IInv'
    OBVIOUS
  <1> USE NoneAssumption
  <1> USE DEF IInv, Goto, CtxDone, Busy, Errors
  <1> DEFINE Reasons == LeftForReason /\ CanceledForReason /\ CtxForReason /\ JoinsAll
  <1>1. CASE ParentEnds
    <2>1. TypeOK'
      BY <1>1 DEF ParentEnds, TypeOK
    <2>2. SlotsCounted'
      BY <1>1 DEF ParentEnds, SlotsCounted, Running
    <2>3. Reasons'
      BY <1>1 DEF ParentEnds, LeftForReason, CanceledForReason, CtxForReason, JoinsAll
    <2> QED
      BY <2>1, <2>2, <2>3
  <1>2. ASSUME NEW t \in Tiles, Spawn(t) PROVE IInv'
    <2>1. t \notin Running /\ Running' = Running \cup {t}
      BY <1>2 DEF Spawn, Running, TypeOK
    <2>2. SlotsCounted' /\ slots' \in 0 .. Conc
      BY <1>2, <2>1, WorkerStarts DEF Spawn
    <2>3. TypeOK'
      BY <1>2, <2>2 DEF Spawn, TypeOK
    <2>4. Reasons'
      BY <1>2 DEF Spawn, TypeOK, LeftForReason, CanceledForReason, CtxForReason,
                  JoinsAll, Through
    <2> QED
      BY <2>2, <2>3, <2>4
  <1>3. CASE AllSpawned
    <2>1. TypeOK'
      BY <1>3 DEF AllSpawned, TypeOK
    <2>2. SlotsCounted'
      BY <1>3 DEF AllSpawned, SlotsCounted, Running
    <2>3. Reasons'
      BY <1>3 DEF AllSpawned, LeftForReason, CanceledForReason, CtxForReason, JoinsAll
    <2> QED
      BY <2>1, <2>2, <2>3
  <1>4. ASSUME NEW t \in Tiles, SkipTile(t) PROVE IInv'
    <2>1. TypeOK'
      BY <1>4 DEF SkipTile, TypeOK
    <2>2. Running' = Running
      BY <1>4 DEF SkipTile, Running, TypeOK
    <2>3. SlotsCounted'
      BY <1>4, <2>2 DEF SkipTile, SlotsCounted
    <2>4. mpc # "done"
      BY <1>4 DEF SkipTile, JoinsAll
    <2>5. Reasons'
      BY <1>4, <2>4 DEF SkipTile, TypeOK, LeftForReason, CanceledForReason,
                        CtxForReason, JoinsAll, Through
    <2> QED
      BY <2>1, <2>3, <2>5
  <1>5. ASSUME NEW t \in Tiles,
               StartRead(t) \/ ReadOK(t) \/ Sparse(t) \/ OutsideCoverage(t) \/ Draw(t)
        PROVE IInv'
    <2> USE DEF StartRead, ReadOK, Sparse, OutsideCoverage, Draw
    <2>1. TypeOK'
      BY <1>5 DEF TypeOK
    <2>2. Running' = Running
      BY <1>5 DEF Running, TypeOK
    <2>3. SlotsCounted'
      BY <1>5, <2>2 DEF SlotsCounted
    <2>4. Reasons'
      BY <1>5 DEF TypeOK, LeftForReason, CanceledForReason, CtxForReason, JoinsAll,
                  Through
    <2> QED
      BY <2>1, <2>3, <2>4
  <1>6. ASSUME NEW t \in Tiles, ReadErr(t) PROVE IInv'
    <2>1. TypeOK'
      BY <1>6 DEF ReadErr, TypeOK
    <2>2. Running' = Running
      BY <1>6 DEF ReadErr, Running, TypeOK
    <2>3. SlotsCounted'
      BY <1>6, <2>2 DEF ReadErr, SlotsCounted
    <2>4. mpc # "done"
      BY <1>6 DEF ReadErr, JoinsAll
    <2>5. Reasons'
      BY <1>6, <2>4 DEF ReadErr, TypeOK, LeftForReason, CanceledForReason,
                        CtxForReason, JoinsAll, Through
    <2> QED
      BY <2>1, <2>3, <2>5
  <1>7. ASSUME NEW t \in Tiles, Report(t) PROVE IInv'
    <2>1. TypeOK'
      BY <1>7 DEF Report, TypeOK
    <2>2. Running' = Running
      BY <1>7 DEF Report, Running, TypeOK
    <2>3. SlotsCounted'
      BY <1>7, <2>2 DEF Report, SlotsCounted
    <2>4. mpc # "done"
      BY <1>7 DEF Report, JoinsAll
    <2>5. Reasons'
      BY <1>7, <2>4 DEF Report, TypeOK, LeftForReason, CanceledForReason,
                        CtxForReason, JoinsAll, Through
    <2> QED
      BY <2>1, <2>3, <2>5
  <1>8. ASSUME NEW t \in Tiles, Release(t) PROVE IInv'
    <2>1. t \in Running /\ Running' = Running \ {t}
      BY <1>8 DEF Release, Running, TypeOK
    <2>2. SlotsCounted' /\ slots' \in 0 .. Conc
      BY <1>8, <2>1, WorkerLeaves DEF Release
    <2>3. TypeOK'
      BY <1>8, <2>2 DEF Release, TypeOK
    <2>4. Reasons'
      BY <1>8 DEF Release, TypeOK, LeftForReason, CanceledForReason, CtxForReason,
                  JoinsAll, Through
    <2> QED
      BY <2>2, <2>3, <2>4
  <1>9. ASSUME NEW t \in Tiles, Finish(t) PROVE IInv'
    <2>1. TypeOK'
      BY <1>9 DEF Finish, TypeOK
    <2>2. Running' = Running
      BY <1>9 DEF Finish, Running, TypeOK
    <2>3. SlotsCounted'
      BY <1>9, <2>2 DEF Finish, SlotsCounted
    <2>4. Reasons'
      BY <1>9 DEF Finish, TypeOK, LeftForReason, CanceledForReason, CtxForReason,
                  JoinsAll, Through
    <2> QED
      BY <2>1, <2>3, <2>4
  <1>10. CASE Join
    <2>1. TypeOK'
      BY <1>10 DEF Join, TypeOK
    <2>2. SlotsCounted'
      BY <1>10 DEF Join, SlotsCounted, Running
    <2>3. Reasons'
      BY <1>10 DEF Join, LeftForReason, CanceledForReason, CtxForReason, JoinsAll
    <2> QED
      BY <2>1, <2>2, <2>3
  <1>11. CASE UNCHANGED vars
    BY <1>11 DEF vars, TypeOK, SlotsCounted, Running, LeftForReason,
                 CanceledForReason, CtxForReason, JoinsAll
  <1> QED
    BY <1>1, <1>2, <1>3, <1>4, <1>5, <1>6, <1>7, <1>8, <1>9, <1>10, <1>11
    DEF Next, Work

LEMMA Invariance == Spec => []IInv
  BY InitIInv, NextIInv, PTL DEF Spec

-----------------------------------------------------------------------------

\* Every variable keeps its type: ReadWindow and Fetch never take more slots
\* than the channel has.
THEOREM TypeCorrect == Spec => []TypeOK
  <1>1. IInv => TypeOK
    BY DEF IInv
  <1> QED
    BY <1>1, Invariance, PTL

\* The slots taken are the workers that run, for any number of tiles.
THEOREM SlotsHold == Spec => []SlotsCounted
  <1>1. IInv => SlotsCounted
    BY DEF IInv
  <1> QED
    BY <1>1, Invariance, PTL

\* A raster handed out under a living context has every covering tile.
THEOREM CompleteHolds == Spec => []OkIsComplete
  <1>1. IInv => OkIsComplete
    BY NoneAssumption
    DEF IInv, TypeOK, OkIsComplete, JoinsAll, LeftForReason, Through, Errors
  <1> QED
    BY <1>1, Invariance, PTL

\* The error of a failed window is the one that made it fail.
THEOREM RootCauseHolds == Spec => []RootCause
  <1>1. IInv => RootCause
    BY DEF IInv, TypeOK, RootCause, JoinsAll, CtxForReason
  <1> QED
    BY <1>1, Invariance, PTL

\* No worker touches the raster or the error once the call has returned.
THEOREM NoLateWriteHolds == Spec => NoLateWrite
  <1>1. IInv /\ [Next]_vars => [mpc = "done" => UNCHANGED <<settled, firstErr>>]_vars
    <2> SUFFICES ASSUME IInv, Next, mpc = "done"
                 PROVE  UNCHANGED <<settled, firstErr>>
      BY DEF vars
    <2>1. \A t \in Tiles : ~Work(t) \/ UNCHANGED <<settled, firstErr>>
      BY DEF IInv, JoinsAll, Work, SkipTile, StartRead, ReadOK, ReadErr, Sparse,
             OutsideCoverage, Draw, Report, Release, Finish
    <2> QED
      BY <2>1 DEF Next, ParentEnds, Spawn, AllSpawned, Join
  <1> QED
    BY <1>1, Invariance, PTL DEF Spec, NoLateWrite

=============================================================================
