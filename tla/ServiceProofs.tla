---------------------------- MODULE ServiceProofs ----------------------------
(***************************************************************************)
(* Proofs about Service.tla, for any finite sets of callers and keys, any  *)
(* number of slots and any bounds.                                         *)
(*                                                                         *)
(* Every step of the service is a step of the disk cache or leaves it      *)
(* alone, and every step but the end of the process is one of BuildFlight  *)
(* over the files that are there: so what is proved of either holds of the *)
(* whole, across crashes.  The two invariants of the composition rest on   *)
(* both, and on the link between a caller's place in the one and in the    *)
(* other.                                                                  *)
(***************************************************************************)
EXTENDS Service, FiniteSetTheorems, TLAPS

DP == INSTANCE DiskCacheProofs WITH Readers <- Callers, Writers <- Callers

FP == INSTANCE BuildFlightProofs WITH cached <- D!Present

\* A Put is inside the build of its caller, for the same key.  A caller in its
\* call has a process that serves, and its handler opens nothing meanwhile.
Link ==
    \A c \in Callers :
        /\ wpc[c] # "idle" => pc[c] = "build" /\ wkey[c] = key[c]
        /\ pc[c] # "idle" => serving /\ rpc[c] = "idle"

\* A caller that need not build has its product and does not.
ThereIsPresent ==
    /\ there \in [Callers -> BOOLEAN]
    /\ \A c \in Callers : there[c] =>
        /\ pc[c] \in {"idle", "get", "wait"}
        /\ pc[c] # "idle" => key[c] \in D!Present

JunkBounded == junk <= crashes * MaxBuilds + stuck

IInv == DP!IInv /\ FP!IInv /\ Link /\ ThereIsPresent /\ JunkBounded

-----------------------------------------------------------------------------
(* The parts' own lemmas, with the assumptions of the service.             *)

LEMMA DiskAssumptions ==
  /\ DP!IsFiniteSet(Callers) /\ DP!IsFiniteSet(Keys)
  /\ FP!IsFiniteSet(Callers)
  BY CallersAssumption, KeysAssumption DEF DP!IsFiniteSet, FP!IsFiniteSet, IsFiniteSet

LEMMA SameDiskNext == ([D!Next]_(D!vars)) <=> [DP!Next]_(DP!vars)
  <1>1. D!Next <=> DP!Next
    BY DEF D!Next, D!Read, D!Write, D!EvictStep, D!StatHit, D!StatMiss, D!ReadClock, D!Touch, D!OpenHit,
           D!Stamped, D!RemoveTemp, D!NotListed, D!VisitFails, D!OpenBuilt, D!CreateTemp, D!WriteOK, D!WriteFail, D!Rename, D!RenameFail,
           D!Discard, D!WritePanics, D!Open, D!TickerFires, D!BeginPass, D!Forget, D!Visit,
           D!WalkEnd, D!Oldest, D!Prune, D!PruneFail, D!PassEnd, D!Close, D!LoopStops,
           D!Crash, D!Present, D!Temps, D!Seen, D!Tick, D!readerVars, D!writerVars,
           D!evictVars, D!procVars, D!leftVars, D!useVars, D!Passing, D!Cardinality,
           DP!Next, DP!Read, DP!Write, DP!EvictStep, DP!StatHit, DP!StatMiss, DP!ReadClock, DP!Touch, DP!OpenHit,
           DP!Stamped, DP!RemoveTemp, DP!NotListed, DP!VisitFails, DP!OpenBuilt, DP!CreateTemp, DP!WriteOK, DP!WriteFail, DP!Rename, DP!RenameFail,
           DP!Discard, DP!WritePanics, DP!Open, DP!TickerFires, DP!BeginPass, DP!Forget, DP!Visit,
           DP!WalkEnd, DP!Oldest, DP!Prune, DP!PruneFail, DP!PassEnd, DP!Close, DP!LoopStops,
           DP!Crash, DP!Present, DP!Temps, DP!Seen, DP!Tick, DP!readerVars, DP!writerVars,
           DP!evictVars, DP!procVars, DP!leftVars, DP!useVars, DP!Passing, DP!Cardinality
  <1> QED
    BY <1>1 DEF D!vars, DP!vars

LEMMA SameFlightNext == ([F!Next]_(F!vars)) <=> [FP!Next]_(FP!vars)
  <1>1. F!Next <=> FP!Next
    BY DEF F!Next, F!Call, F!Disconnect, F!Run, F!CacheHit, F!CacheMiss, F!JoinFlight,
           F!StartFlight, F!WaitClosed, F!WaitCanceled, F!AcquireSlot, F!SlotCanceled,
           F!BuildOK, F!BuildFail, F!ReleaseSlot, F!DeleteFlight, F!CloseFlight, F!Waiting,
           F!BuildPanic, F!Evict, F!Goto, F!Record, F!callerVars,
           FP!Next, FP!Call, FP!Disconnect, FP!Run, FP!CacheHit, FP!CacheMiss, FP!JoinFlight,
           FP!StartFlight, FP!WaitClosed, FP!WaitCanceled, FP!AcquireSlot, FP!SlotCanceled,
           FP!BuildOK, FP!BuildFail, FP!ReleaseSlot, FP!DeleteFlight, FP!CloseFlight, FP!Waiting,
           FP!BuildPanic, FP!Evict, FP!Goto, FP!Record, FP!callerVars
  <1> QED
    BY <1>1 DEF F!vars, FP!vars

LEMMA DiskInit == D!Init => DP!IInv
  <1>1. D!Init <=> DP!Init
    BY DEF D!Init, DP!Init
  <1> QED
    BY <1>1, DP!InitTypes, DP!InitWhole, DP!InitJunk, DP!InitPass, DP!InitStamps, DiskAssumptions,
       BoundsAssumption, NoneAssumption
    DEF DP!IInv

LEMMA DiskNext == DP!IInv /\ [D!Next]_(D!vars) => DP!IInv'
  BY SameDiskNext, DP!NextTypes, DP!NextWhole, DP!NextJunk, DP!NextPass, DP!NextStamps,
     DiskAssumptions, BoundsAssumption, NoneAssumption
  DEF DP!IInv, DP!Whole

LEMMA FlightNext == FP!IInv /\ [F!Next]_(F!vars) => FP!IInv'
  BY SameFlightNext, FP!NextIInv, DiskAssumptions, MaxBuildsAssumption, PanicKeysAssumption,
     NoneAssumption, ClosedAssumption

\* The process as New makes it, over the files that earlier ones left.
Fresh ==
    /\ pc = [c \in Callers |-> "idle"]
    /\ key = [c \in Callers |-> None]
    /\ ctxDone = [c \in Callers |-> FALSE]
    /\ ch = [c \in Callers |-> None]
    /\ outcome = [c \in Callers |-> "none"]
    /\ flight = [k \in Keys |-> None]
    /\ sem = 0

LEMMA FreshFlight == Fresh => FP!IInv
  <1>1. D!Present \in SUBSET Keys
    BY DEF D!Present
  <1>2. Fresh => FP!Init
    BY <1>1 DEF Fresh, FP!Init
  <1> QED
    BY <1>2, FP!InitIInv, DiskAssumptions, MaxBuildsAssumption, PanicKeysAssumption,
       NoneAssumption, ClosedAssumption

-----------------------------------------------------------------------------
(* Every step of the service is one of its parts.                          *)

\* What the steps of callers do to the cache.
LEMMA DiskStep == Link /\ FP!TypeOK /\ [Next]_vars => [D!Next]_(D!vars)
  <1> SUFFICES ASSUME Link, FP!TypeOK, [Next]_vars PROVE [D!Next]_(D!vars)
    OBVIOUS
  <1>1. ASSUME UNCHANGED diskVars PROVE [D!Next]_(D!vars)
    BY <1>1 DEF diskVars, D!vars
  <1>2. ASSUME NEW c \in Callers, NEW k \in Keys, Call(c, k) PROVE [D!Next]_(D!vars)
    BY <1>1, <1>2 DEF Call
  <1>3. ASSUME NEW c \in Callers, Disconnect(c) \/ Coordinate(c) PROVE [D!Next]_(D!vars)
    BY <1>1, <1>3 DEF Disconnect, Coordinate
  <1>4. ASSUME NEW c \in Callers, Hit(c) \/ Miss(c) \/ TouchHit(c) \/ OpenPath(c)
        PROVE  [D!Next]_(D!vars)
    <2>1. Hit(c) \/ Miss(c) => key[c] \in Keys
      BY DEF Hit, Miss, FP!TypeOK
    <2>2. D!Read(c)
      BY <1>4, <2>1 DEF Hit, Miss, TouchHit, OpenPath, D!Read
    <2> QED
      BY <2>2 DEF D!Next
  <1>5. ASSUME NEW c \in Callers, BeginPut(c) \/ InPut(c) \/ Publish(c) PROVE [D!Next]_(D!vars)
    <2>1. BeginPut(c) => key[c] \in Keys
      BY DEF BeginPut, FP!TypeOK
    <2>2. D!Write(c)
      BY <1>5, <2>1 DEF BeginPut, InPut, Publish, D!Write
    <2> QED
      BY <2>2 DEF D!Next
  <1>6. ASSUME NEW c \in Callers, Fail(c) \/ Panic(c) PROVE [D!Next]_(D!vars)
    <2>1. UNCHANGED diskVars \/ D!Discard(c) \/ D!WritePanics(c)
      BY <1>6 DEF Fail, Panic
    <2> QED
      BY <1>1, <2>1 DEF D!Next, D!Write
  <1>7. ASSUME NEW c \in Callers, Return(c) PROVE [D!Next]_(D!vars)
    <2>1. key[c] \in Keys
      BY <1>7 DEF Return, F!CloseFlight, FP!TypeOK
    <2>2. UNCHANGED diskVars \/ D!OpenBuilt(c, key[c])
      BY <1>7 DEF Return
    <2> QED
      BY <1>1, <2>1, <2>2 DEF D!Next, D!Read
  <1>8. ASSUME NEW k \in Keys, Evict(k) PROVE [D!Next]_(D!vars)
    BY <1>8 DEF Evict, D!Next, D!EvictStep
  <1>9. ASSUME Housekeep PROVE [D!Next]_(D!vars)
    BY <1>9 DEF Housekeep, D!Next, D!EvictStep
  <1>10. ASSUME Crash PROVE [D!Next]_(D!vars)
    BY <1>10 DEF Crash, D!Next
  <1>11. ASSUME UNCHANGED vars PROVE [D!Next]_(D!vars)
    BY <1>1, <1>11 DEF vars
  <1> QED
    BY <1>2, <1>3, <1>4, <1>5, <1>6, <1>7, <1>8, <1>9, <1>10, <1>11 DEF Next

\* Only a rename and a removal change which files are there.
LEMMA PresentKept ==
  ASSUME DP!TypeOK, DP!Keyed
  PROVE  /\ file' = file => D!Present' = D!Present
         /\ \A c \in Callers : D!ReadClock(c) \/ D!Touch(c) => D!Present' = D!Present
  <1>1. file' = file => D!Present' = D!Present
    BY DEF D!Present
  <1>2. ASSUME NEW c \in Callers, D!Touch(c) PROVE D!Present' = D!Present
    <2>1. None \notin DP!File
      BY NoneAssumption, BoundsAssumption DEF DP!File
    <2>2. CASE file' = file
      BY <1>1, <2>2
    <2>3. CASE file[rkey[c]] # None /\ file' = [file EXCEPT ![rkey[c]].time = now[c]]
      <3>1. rkey[c] \in Keys /\ file[rkey[c]] \in DP!File /\ now[c] \in 0 .. MaxTime
        BY <1>2, <2>3 DEF D!Touch, DP!TypeOK, DP!Keyed
      <3>2. file'[rkey[c]] \in DP!File
        BY <2>3, <3>1 DEF DP!TypeOK, DP!File
      <3> QED
        BY <2>1, <2>3, <3>1, <3>2 DEF D!Present, DP!TypeOK
    <2> QED
      BY <1>2, <2>2, <2>3 DEF D!Touch
  <1>3. ASSUME NEW c \in Callers, D!ReadClock(c) PROVE D!Present' = D!Present
    BY <1>1, <1>3 DEF D!ReadClock
  <1> QED
    BY <1>1, <1>2, <1>3

\* Every step but the end of the process is one of the flights, over the files
\* that are there.
LEMMA FlightStep == DP!TypeOK /\ DP!Keyed /\ [Next]_vars => ([F!Next]_(F!vars)) \/ Fresh'
  <1> SUFFICES ASSUME DP!TypeOK, DP!Keyed, [Next]_vars PROVE ([F!Next]_(F!vars)) \/ Fresh'
    OBVIOUS
  <1>1. ASSUME UNCHANGED flightVars, D!Present' = D!Present PROVE [F!Next]_(F!vars)
    BY <1>1 DEF flightVars, F!vars
  <1>2. ASSUME NEW c \in Callers, NEW k \in Keys, Call(c, k) PROVE [F!Next]_(F!vars)
    BY <1>2 DEF Call, F!Next
  <1>3. ASSUME NEW c \in Callers, Disconnect(c) PROVE [F!Next]_(F!vars)
    BY <1>3 DEF Disconnect, F!Next
  <1>4. ASSUME NEW c \in Callers, Hit(c) \/ Miss(c) \/ Coordinate(c) \/ Publish(c) \/ Fail(c) \/ Return(c)
        PROVE  [F!Next]_(F!vars)
    <2>1. F!Run(c)
      BY <1>4 DEF Hit, Miss, Coordinate, Publish, Fail, Return, F!Run
    <2> QED
      BY <2>1 DEF F!Next
  <1>5. ASSUME NEW c \in Callers, TouchHit(c) PROVE [F!Next]_(F!vars)
    BY <1>1, <1>5, PresentKept DEF TouchHit
  <1>6. ASSUME NEW c \in Callers, OpenPath(c) \/ BeginPut(c) \/ InPut(c) PROVE [F!Next]_(F!vars)
    <2>1. file' = file /\ UNCHANGED flightVars
      BY <1>6
      DEF OpenPath, BeginPut, InPut, D!OpenHit, D!CreateTemp, D!WriteOK, D!WriteFail, D!RenameFail
    <2> QED
      BY <1>1, <2>1, PresentKept
  <1>7. ASSUME NEW c \in Callers, Panic(c) PROVE [F!Next]_(F!vars)
    BY <1>7 DEF Panic, F!Next
  <1>8. ASSUME NEW k \in Keys, Evict(k) PROVE [F!Next]_(F!vars)
    BY <1>8 DEF Evict, F!Next
  <1>9. ASSUME Housekeep PROVE [F!Next]_(F!vars)
    <2>1. file' = file /\ UNCHANGED flightVars
      BY <1>9
      DEF Housekeep, D!Open, D!TickerFires, D!WalkEnd, D!PassEnd, D!Visit, D!NotListed, D!VisitFails, D!PruneFail,
          D!Close, D!LoopStops
    <2> QED
      BY <1>1, <2>1, PresentKept
  <1>10. ASSUME Crash PROVE Fresh'
    BY <1>10 DEF Crash, Fresh
  <1>11. ASSUME UNCHANGED vars PROVE [F!Next]_(F!vars)
    <2>1. file' = file /\ UNCHANGED flightVars
      BY <1>11 DEF vars, diskVars
    <2> QED
      BY <1>1, <2>1, PresentKept
  <1> QED
    BY <1>2, <1>3, <1>4, <1>5, <1>6, <1>7, <1>8, <1>9, <1>10, <1>11 DEF Next

-----------------------------------------------------------------------------
(* The link between the parts.                                             *)

LEMMA InitLink == Init => Link /\ ThereIsPresent /\ JunkBounded
  <1> SUFFICES ASSUME Init PROVE Link /\ ThereIsPresent /\ JunkBounded
    OBVIOUS
  <1>1. Link /\ ThereIsPresent
    BY DEF Init, D!Init, Link, ThereIsPresent
  <1>2. JunkBounded
    BY MaxBuildsAssumption DEF Init, D!Init, JunkBounded
  <1> QED
    BY <1>1, <1>2

LEMMA LinkStep == Link /\ DP!TypeOK /\ FP!TypeOK /\ [Next]_vars => Link'
  <1> SUFFICES ASSUME Link, DP!TypeOK, FP!TypeOK, [Next]_vars PROVE Link'
    OBVIOUS
  <1> USE DEF Link, DP!TypeOK, FP!TypeOK, D!readerVars, D!writerVars, D!evictVars, D!procVars, D!leftVars,
              D!useVars,               F!Goto, F!Record, flightVars, diskVars
  <1>1. ASSUME NEW c \in Callers, NEW k \in Keys, Call(c, k) PROVE Link'
    BY <1>1 DEF Call, F!Call
  <1>2. ASSUME NEW c \in Callers, Disconnect(c) PROVE Link'
    BY <1>2 DEF Disconnect, F!Disconnect
  <1>3. ASSUME NEW c \in Callers, Hit(c) \/ Miss(c) PROVE Link'
    BY <1>3 DEF Hit, Miss, D!StatHit, D!StatMiss, F!CacheHit, F!CacheMiss
  <1>4. ASSUME NEW c \in Callers, TouchHit(c) \/ OpenPath(c) PROVE Link'
    BY <1>4 DEF TouchHit, OpenPath, D!ReadClock, D!Touch, D!OpenHit
  <1>5. ASSUME NEW c \in Callers, Coordinate(c) PROVE Link'
    <2>1. /\ UNCHANGED <<wpc, wkey, rpc, serving, key>>
          /\ pc[c] \notin {"idle", "build"}
          /\ \E p \in FP!Places : pc' = [pc EXCEPT ![c] = p]
      BY <1>5
      DEF Coordinate, F!JoinFlight, F!StartFlight, F!WaitClosed, F!WaitCanceled, F!AcquireSlot,
          F!SlotCanceled, F!ReleaseSlot, F!DeleteFlight, FP!Places, FP!Owning
    <2> QED
      BY <2>1
  <1>6. ASSUME NEW c \in Callers, BeginPut(c) \/ InPut(c) PROVE Link'
    BY <1>6 DEF BeginPut, InPut, D!CreateTemp, D!WriteOK, D!WriteFail, D!RenameFail
  <1>7. ASSUME NEW c \in Callers, Publish(c) PROVE Link'
    BY <1>7 DEF Publish, D!Rename, F!BuildOK
  <1>8. ASSUME NEW c \in Callers, Fail(c) PROVE Link'
    BY <1>8 DEF Fail, D!Discard, D!RemoveTemp, F!BuildFail
  <1>9. ASSUME NEW c \in Callers, Panic(c) PROVE Link'
    BY <1>9 DEF Panic, D!WritePanics, D!RemoveTemp, F!BuildPanic
  <1>10. ASSUME NEW c \in Callers, Return(c) PROVE Link'
    BY <1>10 DEF Return, D!OpenBuilt, F!CloseFlight
  <1>11. ASSUME NEW k \in Keys, Evict(k) PROVE Link'
    BY <1>11 DEF Evict, D!Prune, F!Evict, F!callerVars
  <1>12. ASSUME Housekeep PROVE Link'
    BY <1>12
    DEF Housekeep, D!Open, D!TickerFires, D!BeginPass, D!WalkEnd, D!PassEnd, D!Forget, D!Visit,
        D!NotListed, D!VisitFails, D!PruneFail, D!Close, D!LoopStops
  <1>13. ASSUME Crash PROVE Link'
    BY <1>13 DEF Crash, D!Crash
  <1>14. ASSUME UNCHANGED vars PROVE Link'
    BY <1>14 DEF vars
  <1> QED
    BY <1>1, <1>2, <1>3, <1>4, <1>5, <1>6, <1>7, <1>8, <1>9, <1>10, <1>11, <1>12, <1>13, <1>14
    DEF Next

\* What is renamed is there afterwards.
LEMMA PublishedIsPresent ==
  ASSUME DP!TypeOK, DP!Keyed, DP!Whole, NEW c \in Callers, D!Rename(c)
  PROVE  D!Present' = D!Present \cup {wkey[c]}
  BY DEF D!Rename, D!Present, DP!TypeOK, DP!Keyed, DP!Whole, DP!WholeBeforeRename

LEMMA ThereStep == IInv /\ [Next]_vars => ThereIsPresent'
  <1> SUFFICES ASSUME IInv, [Next]_vars PROVE ThereIsPresent'
    OBVIOUS
  <1> USE DEF IInv, DP!IInv, FP!IInv, ThereIsPresent, F!Goto, F!Record, F!Owning
  <1>0. ASSUME file' = file PROVE D!Present' = D!Present
    BY <1>0, PresentKept
  <1>1. ASSUME NEW c \in Callers, NEW k \in Keys, Call(c, k) PROVE ThereIsPresent'
    <2>1. /\ D!Present' = D!Present
          /\ pc' = [pc EXCEPT ![c] = "get"]
          /\ key' = [key EXCEPT ![c] = k]
          /\ there' = [there EXCEPT ![c] = k \in D!Present]
      BY <1>0, <1>1 DEF Call, F!Call, diskVars
    <2>2. (k \in D!Present) \in BOOLEAN
      OBVIOUS
    <2>3. ASSUME NEW d \in Callers, there'[d]
          PROVE  /\ pc'[d] \in {"idle", "get", "wait"}
                 /\ pc'[d] # "idle" => key'[d] \in D!Present'
      BY <2>1, <2>3 DEF FP!TypeOK
    <2> QED
      BY <2>1, <2>2, <2>3
  <1>2. ASSUME NEW c \in Callers, Disconnect(c) PROVE ThereIsPresent'
    BY <1>0, <1>2 DEF Disconnect, F!Disconnect, diskVars
  <1>3. ASSUME NEW c \in Callers, Hit(c) PROVE ThereIsPresent'
    BY <1>0, <1>3 DEF Hit, D!StatHit, F!CacheHit, FP!TypeOK
  <1>4. ASSUME NEW c \in Callers, Miss(c) PROVE ThereIsPresent'
    BY <1>0, <1>4 DEF Miss, D!StatMiss, F!CacheMiss, FP!TypeOK
  <1>5. ASSUME NEW c \in Callers, TouchHit(c) PROVE ThereIsPresent'
    BY <1>5, PresentKept DEF TouchHit, flightVars
  <1>6. ASSUME NEW c \in Callers, OpenPath(c) \/ BeginPut(c) \/ InPut(c) PROVE ThereIsPresent'
    BY <1>0, <1>6
    DEF OpenPath, BeginPut, InPut, D!OpenHit, D!CreateTemp, D!WriteOK, D!WriteFail,
        D!RenameFail, flightVars
  <1>7. ASSUME NEW c \in Callers, Coordinate(c) PROVE ThereIsPresent'
    <2>1. /\ UNCHANGED <<key, there>> /\ D!Present' = D!Present
          /\ \/ ~there[c]
             \/ pc[c] = "wait" /\ pc' = [pc EXCEPT ![c] = "get"]
             \/ pc[c] = "wait" /\ pc' = [pc EXCEPT ![c] = "idle"]
          /\ \E p \in FP!Places : pc' = [pc EXCEPT ![c] = p]
      BY <1>0, <1>7
      DEF Coordinate, F!JoinFlight, F!StartFlight, F!WaitClosed, F!WaitCanceled, F!AcquireSlot,
          F!SlotCanceled, F!ReleaseSlot, F!DeleteFlight, FP!Places, FP!Owning, diskVars
    <2> QED
      BY <2>1 DEF FP!TypeOK
  <1>8. ASSUME NEW c \in Callers, Publish(c) PROVE ThereIsPresent'
    <2>1. D!Present' = D!Present \cup {key[c]}
      BY <1>8, PublishedIsPresent DEF Publish, D!Rename, Link
    <2>2. pc' = [pc EXCEPT ![c] = "release"] /\ pc[c] = "build" /\ key' = key
      BY <1>8 DEF Publish, F!BuildOK
    <2> QED
      BY <1>8, <2>1, <2>2 DEF Publish, FP!TypeOK
  <1>9. ASSUME NEW c \in Callers, Fail(c) PROVE ThereIsPresent'
    BY <1>0, <1>9 DEF Fail, D!Discard, D!RemoveTemp, F!BuildFail, diskVars, FP!TypeOK
  <1>10. ASSUME NEW c \in Callers, Panic(c) PROVE ThereIsPresent'
    BY <1>0, <1>10 DEF Panic, D!WritePanics, D!RemoveTemp, F!BuildPanic, diskVars, FP!TypeOK
  <1>11. ASSUME NEW c \in Callers, Return(c) PROVE ThereIsPresent'
    BY <1>0, <1>11 DEF Return, D!OpenBuilt, F!CloseFlight, diskVars, FP!TypeOK
  <1>12. ASSUME NEW k \in Keys, Evict(k) PROVE ThereIsPresent'
    <2>1. D!Present' = D!Present \ {k} /\ UNCHANGED <<pc, key>>
      BY <1>12 DEF Evict, F!Evict, F!callerVars
    <2> QED
      BY <1>12, <2>1 DEF Evict
  <1>13. ASSUME Housekeep PROVE ThereIsPresent'
    BY <1>0, <1>13
    DEF Housekeep, D!Open, D!TickerFires, D!WalkEnd, D!PassEnd, D!Visit, D!NotListed, D!VisitFails, D!PruneFail, D!Close,
        D!LoopStops, flightVars
  <1>14. ASSUME Crash PROVE ThereIsPresent'
    BY <1>14 DEF Crash
  <1>15. ASSUME UNCHANGED vars PROVE ThereIsPresent'
    BY <1>0, <1>15 DEF vars, flightVars, diskVars
  <1> QED
    BY <1>1, <1>2, <1>3, <1>4, <1>5, <1>6, <1>7, <1>8, <1>9, <1>10, <1>11, <1>12, <1>13, <1>14,
       <1>15
    DEF Next

-----------------------------------------------------------------------------
(* Temporaries and slots.                                                  *)

\* A temporary belongs to a Put, a Put to a build, and a build to a slot.
LEMMA TempsAreHeld ==
  ASSUME Link, DP!TempsGone, FP!TypeOK, FP!SlotsCounted,
         DP!TypeOK
  PROVE  /\ Cardinality(D!Temps) \in Nat
         /\ Cardinality(D!Temps) <= MaxBuilds
  <1>1. D!Temps \subseteq FP!Holders
    BY DEF Link, DP!TempsGone, D!Temps, FP!Holders, FP!Holding
  <1>2. IsFiniteSet(FP!Holders)
    BY CallersAssumption, FS_Subset DEF FP!Holders
  <1>3. Cardinality(D!Temps) \in Nat /\ Cardinality(D!Temps) <= Cardinality(FP!Holders)
    BY <1>1, <1>2, FS_Subset, FS_CardinalityType
  <1>4. Cardinality(FP!Holders) = sem
    BY DEF FP!SlotsCounted, FP!Cardinality, Cardinality
  <1> QED
    BY <1>3, <1>4, MaxBuildsAssumption DEF FP!TypeOK

\* The end of a process leaves what it held, a failed removal one temporary
\* more, and nothing else adds to that.
LEMMA JunkStep == IInv /\ [Next]_vars => JunkBounded'
  <1> SUFFICES ASSUME IInv, [Next]_vars PROVE JunkBounded'
    OBVIOUS
  <1> DEFINE t == Cardinality(D!Temps)
             per == crashes * MaxBuilds
  <1>1. DP!TypeOK /\ Link /\ FP!TypeOK
    BY DEF IInv, DP!IInv, FP!IInv
  <1>2. junk \in Nat /\ crashes \in Nat /\ stuck \in Nat /\ junk <= per + stuck
    BY BoundsAssumption DEF IInv, JunkBounded, DP!IInv, DP!TypeOK
  <1>3. [D!Next]_(D!vars)
    BY <1>1, DiskStep
  <1>4. t \in Nat /\ t <= MaxBuilds
    BY TempsAreHeld DEF IInv, DP!IInv, DP!Whole, FP!IInv
  <1>5. per \in Nat /\ (crashes + 1) * MaxBuilds = per + MaxBuilds /\ MaxBuilds \in Nat
    BY <1>2, MaxBuildsAssumption
  <1>6. \/ UNCHANGED <<junk, stuck, crashes>>
        \/ junk' = junk + 1 /\ stuck' = stuck + 1 /\ crashes' = crashes
        \/ junk' = junk + t /\ stuck' = stuck /\ crashes' = crashes + 1
    BY <1>3
    DEF D!vars, D!Next, D!Read, D!Write, D!EvictStep, D!StatHit, D!StatMiss, D!ReadClock, D!Touch,
        D!OpenHit, D!OpenBuilt, D!CreateTemp, D!WriteOK, D!WriteFail, D!Rename, D!RenameFail,
        D!Discard, D!WritePanics, D!RemoveTemp, D!Open, D!TickerFires, D!Visit, D!NotListed,
        D!VisitFails, D!WalkEnd, D!Prune, D!PruneFail, D!PassEnd, D!Close, D!LoopStops, D!Crash,
        D!procVars, D!leftVars, D!Cardinality, Cardinality
  <1>7. JunkBounded' <=> junk' <= crashes' * MaxBuilds + stuck'
    BY DEF JunkBounded
  <1>8. UNCHANGED <<junk, stuck, crashes>> => JunkBounded'
    BY <1>2, <1>7
  <1> HIDE DEF t
  <1>9. junk' = junk + 1 /\ stuck' = stuck + 1 /\ crashes' = crashes => JunkBounded'
    BY <1>2, <1>5, <1>7
  <1> HIDE DEF per
  <1>10. junk' = junk + t /\ stuck' = stuck /\ crashes' = crashes + 1 => JunkBounded'
    BY <1>2, <1>4, <1>5, <1>7
  <1> QED
    BY <1>6, <1>8, <1>9, <1>10

-----------------------------------------------------------------------------
(* The inductive invariant, and what it gives.                             *)

LEMMA InitIInv == Init => IInv
  <1>1. Init => DP!IInv
    BY DiskInit DEF Init
  <1>2. Init => FP!IInv
    BY FreshFlight DEF Init, Fresh
  <1> QED
    BY <1>1, <1>2, InitLink DEF IInv

LEMMA Invariance == Spec => []IInv
  <1>1. IInv /\ [Next]_vars => DP!IInv'
    BY DiskStep, DiskNext DEF IInv, FP!IInv
  <1>2. IInv /\ [Next]_vars => ([F!Next]_(F!vars)) \/ Fresh'
    BY FlightStep DEF IInv, DP!IInv
  <1>3. Fresh' => FP!IInv'
    BY FreshFlight, PTL
  <1>4. IInv /\ [Next]_vars => FP!IInv'
    BY <1>2, <1>3, FlightNext DEF IInv
  <1>5. IInv /\ [Next]_vars => Link'
    BY LinkStep DEF IInv, DP!IInv, FP!IInv
  <1>6. IInv /\ [Next]_vars => IInv'
    BY <1>1, <1>4, <1>5, ThereStep, JunkStep DEF IInv
  <1> QED
    BY InitIInv, <1>6, PTL DEF Spec

\* What the service does to the cache is what DiskCache.tla says: a process
\* whose Puts and reads are those of the callers implements the disk cache,
\* crashes included (Server.buildCached over internal/cache).
THEOREM ServiceIsDiskCache == Spec => D!Spec
  <1>1. Init => D!Init
    BY DEF Init
  <1>2. IInv /\ [Next]_vars => [D!Next]_(D!vars)
    BY DiskStep DEF IInv, FP!IInv
  <1> QED
    BY <1>1, <1>2, Invariance, PTL DEF Spec, D!Spec

\* A caller whose product was in the cache when it called, or was published
\* while it waited, does not build it unless it is evicted first: the loop of
\* buildCached looks into the cache again after every wait.
THEOREM NeedlessBuildsExcluded == Spec => []NoNeedlessBuild
  <1>1. IInv => NoNeedlessBuild
    BY DEF IInv, ThereIsPresent, NoNeedlessBuild, F!Owning
  <1> QED
    BY <1>1, Invariance, PTL

\* No more temporaries in the making than build slots, as Put's are inside the
\* build, whatever fails or panics in it.  What is left behind is that of ended
\* processes, as many at most for each, and of removals that failed.
THEOREM TempsHold == Spec => []TempsWithinSlots
  <1>1. IInv => TempsWithinSlots
    BY TempsAreHeld DEF IInv, DP!IInv, DP!Whole, FP!IInv, JunkBounded, TempsWithinSlots
  <1> QED
    BY <1>1, Invariance, PTL

\* What is served from the cache is whole, though the processes that built it
\* panicked, failed or ended in the middle of a Put.
THEOREM ServedWhole == Spec => []D!OnlyWholeProducts
  <1>1. IInv => D!OnlyWholeProducts
    BY DEF IInv, DP!IInv, DP!Whole, DP!OnlyWholeProducts, D!OnlyWholeProducts, D!Present,
           DP!Present
  <1> QED
    BY <1>1, Invariance, PTL

\* One build per key at a time, slots counted and no lost wake-up: also over
\* the files of earlier processes, with products coming and going.
THEOREM FlightsHold == Spec => [](F!AtMostOneBuild /\ F!SlotsCounted /\ F!NoLostWakeup)
  <1>1. FP!IInv => FP!AtMostOneBuild
    BY FP!OwnersExclude, DiskAssumptions, MaxBuildsAssumption, PanicKeysAssumption,
       NoneAssumption, ClosedAssumption
    DEF FP!IInv
  <1>2. IInv => F!AtMostOneBuild
    BY <1>1 DEF IInv, FP!AtMostOneBuild, FP!Owning, F!AtMostOneBuild, F!Owning
  <1>3. IInv => F!SlotsCounted
    BY DEF IInv, FP!IInv, FP!SlotsCounted, F!SlotsCounted, FP!Holders, F!Holders, FP!Holding,
           F!Holding, FP!Cardinality, F!Cardinality
  <1>4. IInv => F!NoLostWakeup
    BY DEF IInv, FP!IInv, FP!NoLostWakeup, F!NoLostWakeup
  <1> QED
    BY <1>2, <1>3, <1>4, Invariance, PTL

=============================================================================
