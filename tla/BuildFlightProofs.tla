-------------------------- MODULE BuildFlightProofs --------------------------
(***************************************************************************)
(* Proofs about BuildFlight.tla, for any finite set of callers, any keys   *)
(* and any capacity of the semaphore.  The inductive invariant adds to the *)
(* checked properties that a caller between registration and removal is    *)
(* the one its key's flight names: the map entry is what excludes others.  *)
(***************************************************************************)
EXTENDS BuildFlight, FiniteSetTheorems, TLAPS

\* A caller that has registered a flight is the one the map names.
Owns == \A c \in Callers : pc[c] \in Owning => flight[key[c]] = c

\* A caller waits on a channel, never on nil.
WaitsOnChannel == \A c \in Callers : pc[c] = "wait" => ch[c] # None

IInv ==
    /\ TypeOK
    /\ Owns
    /\ WaitsOnChannel
    /\ NoLostWakeup
    /\ SlotsCounted

-----------------------------------------------------------------------------

\* The holders of a slot are finitely many.
LEMMA HoldersFinite == IsFiniteSet(Holders)
  BY CallersAssumption, FS_Subset DEF Holders

\* Registration excludes: two callers of a key cannot both own its flight.
LEMMA OwnersExclude == TypeOK /\ Owns => AtMostOneBuild
  BY DEF TypeOK, Owns, AtMostOneBuild

\* A caller that enters the semaphore is one more holder.
LEMMA HolderEnters ==
  ASSUME TypeOK, SlotsCounted, NEW c \in Callers,
         pc[c] \notin Holding, sem' = sem + 1,
         Holders' = Holders \cup {c}
  PROVE  SlotsCounted'
  <1>1. IsFiniteSet(Holders)
    BY HoldersFinite
  <1>2. c \notin Holders
    BY DEF Holders
  <1>3. Cardinality(Holders \cup {c}) = Cardinality(Holders) + 1
    BY <1>1, <1>2, FS_AddElement
  <1> QED
    BY <1>3 DEF SlotsCounted

\* A caller that leaves the semaphore was one of its holders.
LEMMA HolderLeaves ==
  ASSUME TypeOK, SlotsCounted, NEW c \in Callers,
         pc[c] \in Holding, sem' = sem - 1,
         Holders' = Holders \ {c}
  PROVE  SlotsCounted' /\ sem' \in 0 .. MaxBuilds
  <1>1. IsFiniteSet(Holders)
    BY HoldersFinite
  <1>2. c \in Holders
    BY DEF Holders
  <1>3. Cardinality(Holders \ {c}) = Cardinality(Holders) - 1
    BY <1>1, <1>2, FS_RemoveElement
  <1>4. Cardinality(Holders \ {c}) \in Nat
    BY <1>1, FS_RemoveElement, FS_CardinalityType
  <1>5. SlotsCounted'
    BY <1>3 DEF SlotsCounted
  <1>6. sem' \in 0 .. MaxBuilds
    BY <1>3, <1>4, MaxBuildsAssumption DEF SlotsCounted, TypeOK
  <1> QED
    BY <1>5, <1>6

\* A step that leaves the slots and their holders alone keeps the count.
LEMMA HoldersKept ==
  ASSUME SlotsCounted, sem' = sem, Holders' = Holders
  PROVE  SlotsCounted'
  BY DEF SlotsCounted

-----------------------------------------------------------------------------

LEMMA InitIInv == Init => IInv
  <1> SUFFICES ASSUME Init PROVE IInv
    OBVIOUS
  <1>1. TypeOK
    BY MaxBuildsAssumption
    DEF Init, TypeOK, Places, Owning, Outcomes
  <1>2. Holders = {}
    BY DEF Init, Holders, Holding
  <1>3. SlotsCounted
    BY <1>2, FS_EmptySet DEF Init, SlotsCounted
  <1>4. Owns /\ WaitsOnChannel /\ NoLostWakeup
    BY DEF Init, Owns, Owning, WaitsOnChannel, NoLostWakeup
  <1> QED
    BY <1>1, <1>3, <1>4 DEF IInv

LEMMA NextIInv == IInv /\ [Next]_vars => IInv'
  <1> SUFFICES ASSUME IInv, [Next]_vars PROVE IInv'
    OBVIOUS
  <1> USE NoneAssumption, ClosedAssumption
  <1> USE DEF IInv, Owning, Places, Outcomes, Goto, Record
  <1>1. ASSUME NEW c \in Callers, NEW k \in Keys, Call(c, k)
        PROVE  IInv'
    <2>1. TypeOK'
      BY <1>1 DEF Call, TypeOK
    <2>2. Owns' /\ WaitsOnChannel'
      BY <1>1 DEF Call, TypeOK, Owns, WaitsOnChannel
    <2>3. NoLostWakeup'
      BY <1>1 DEF Call, TypeOK, NoLostWakeup
    <2>4. Holders' = Holders
      BY <1>1 DEF Call, TypeOK, Holders, Holding
    <2> QED
      BY <1>1, <2>1, <2>2, <2>3, <2>4, HoldersKept DEF Call
  <1>2. ASSUME NEW c \in Callers, Disconnect(c)
        PROVE  IInv'
    <2>1. TypeOK'
      BY <1>2 DEF Disconnect, TypeOK
    <2>2. Owns' /\ WaitsOnChannel' /\ NoLostWakeup'
      BY <1>2 DEF Disconnect, Owns, WaitsOnChannel, NoLostWakeup
    <2>3. SlotsCounted'
      BY <1>2 DEF Disconnect, SlotsCounted, Holders
    <2> QED
      BY <2>1, <2>2, <2>3
  <1>3. ASSUME NEW c \in Callers, CacheHit(c)
        PROVE  IInv'
    <2>1. TypeOK'
      BY <1>3 DEF CacheHit, TypeOK
    <2>2. Owns' /\ WaitsOnChannel'
      BY <1>3 DEF CacheHit, TypeOK, Owns, WaitsOnChannel
    <2>3. NoLostWakeup'
      BY <1>3 DEF CacheHit, TypeOK, NoLostWakeup
    <2>4. Holders' = Holders
      BY <1>3 DEF CacheHit, TypeOK, Holders, Holding
    <2> QED
      BY <1>3, <2>1, <2>2, <2>3, <2>4, HoldersKept DEF CacheHit
  <1>4. ASSUME NEW c \in Callers, CacheMiss(c)
        PROVE  IInv'
    <2>1. TypeOK'
      BY <1>4 DEF CacheMiss, TypeOK
    <2>2. Owns' /\ WaitsOnChannel'
      BY <1>4 DEF CacheMiss, TypeOK, Owns, WaitsOnChannel
    <2>3. NoLostWakeup'
      BY <1>4 DEF CacheMiss, TypeOK, NoLostWakeup
    <2>4. Holders' = Holders
      BY <1>4 DEF CacheMiss, TypeOK, Holders, Holding
    <2> QED
      BY <1>4, <2>1, <2>2, <2>3, <2>4, HoldersKept DEF CacheMiss
  <1>5. ASSUME NEW c \in Callers, JoinFlight(c)
        PROVE  IInv'
    <2>1. TypeOK'
      BY <1>5 DEF JoinFlight, TypeOK
    <2>2. Owns' /\ WaitsOnChannel'
      BY <1>5 DEF JoinFlight, TypeOK, Owns, WaitsOnChannel
    <2>3. NoLostWakeup'
      BY <1>5 DEF JoinFlight, TypeOK, NoLostWakeup
    <2>4. Holders' = Holders
      BY <1>5 DEF JoinFlight, TypeOK, Holders, Holding
    <2> QED
      BY <1>5, <2>1, <2>2, <2>3, <2>4, HoldersKept DEF JoinFlight
  <1>6. ASSUME NEW c \in Callers, StartFlight(c)
        PROVE  IInv'
    <2>0. key[c] \in Keys
      BY <1>6 DEF StartFlight, TypeOK
    <2>1. TypeOK'
      BY <1>6, <2>0 DEF StartFlight, TypeOK
    <2>2. Owns'
      BY <1>6, <2>0 DEF StartFlight, TypeOK, Owns
    <2>3. WaitsOnChannel'
      BY <1>6 DEF StartFlight, TypeOK, WaitsOnChannel
    <2>4. NoLostWakeup'
      BY <1>6, <2>0 DEF StartFlight, TypeOK, NoLostWakeup, WaitsOnChannel
    <2>5. Holders' = Holders
      BY <1>6 DEF StartFlight, TypeOK, Holders, Holding
    <2> QED
      BY <1>6, <2>1, <2>2, <2>3, <2>4, <2>5, HoldersKept DEF StartFlight
  <1>7. ASSUME NEW c \in Callers, WaitClosed(c)
        PROVE  IInv'
    <2>1. TypeOK'
      BY <1>7 DEF WaitClosed, TypeOK
    <2>2. Owns' /\ WaitsOnChannel'
      BY <1>7 DEF WaitClosed, TypeOK, Owns, WaitsOnChannel
    <2>3. NoLostWakeup'
      BY <1>7 DEF WaitClosed, TypeOK, NoLostWakeup
    <2>4. Holders' = Holders
      BY <1>7 DEF WaitClosed, TypeOK, Holders, Holding
    <2> QED
      BY <1>7, <2>1, <2>2, <2>3, <2>4, HoldersKept DEF WaitClosed
  <1>8. ASSUME NEW c \in Callers, WaitCanceled(c)
        PROVE  IInv'
    <2>1. TypeOK'
      BY <1>8 DEF WaitCanceled, TypeOK
    <2>2. Owns' /\ WaitsOnChannel'
      BY <1>8 DEF WaitCanceled, TypeOK, Owns, WaitsOnChannel
    <2>3. NoLostWakeup'
      BY <1>8 DEF WaitCanceled, TypeOK, NoLostWakeup
    <2>4. Holders' = Holders
      BY <1>8 DEF WaitCanceled, TypeOK, Holders, Holding
    <2> QED
      BY <1>8, <2>1, <2>2, <2>3, <2>4, HoldersKept DEF WaitCanceled
  <1>9. ASSUME NEW c \in Callers, AcquireSlot(c)
        PROVE  IInv'
    <2>1. TypeOK'
      BY <1>9, MaxBuildsAssumption DEF AcquireSlot, TypeOK
    <2>2. Owns' /\ WaitsOnChannel'
      BY <1>9 DEF AcquireSlot, TypeOK, Owns, WaitsOnChannel
    <2>3. NoLostWakeup'
      BY <1>9 DEF AcquireSlot, TypeOK, NoLostWakeup
    <2>4. Holders' = Holders \cup {c} /\ pc[c] \notin Holding
      BY <1>9 DEF AcquireSlot, TypeOK, Holders, Holding
    <2> QED
      BY <1>9, <2>1, <2>2, <2>3, <2>4, HolderEnters DEF AcquireSlot
  <1>10. ASSUME NEW c \in Callers, SlotCanceled(c)
         PROVE  IInv'
    <2>1. TypeOK'
      BY <1>10 DEF SlotCanceled, TypeOK
    <2>2. Owns' /\ WaitsOnChannel'
      BY <1>10 DEF SlotCanceled, TypeOK, Owns, WaitsOnChannel
    <2>3. NoLostWakeup'
      BY <1>10 DEF SlotCanceled, TypeOK, NoLostWakeup
    <2>4. Holders' = Holders
      BY <1>10 DEF SlotCanceled, TypeOK, Holders, Holding
    <2> QED
      BY <1>10, <2>1, <2>2, <2>3, <2>4, HoldersKept DEF SlotCanceled
  <1>11. ASSUME NEW c \in Callers, BuildOK(c)
         PROVE  IInv'
    <2>1. TypeOK'
      BY <1>11 DEF BuildOK, TypeOK
    <2>2. Owns' /\ WaitsOnChannel'
      BY <1>11 DEF BuildOK, TypeOK, Owns, WaitsOnChannel
    <2>3. NoLostWakeup'
      BY <1>11 DEF BuildOK, TypeOK, NoLostWakeup
    <2>4. Holders' = Holders
      BY <1>11 DEF BuildOK, TypeOK, Holders, Holding
    <2> QED
      BY <1>11, <2>1, <2>2, <2>3, <2>4, HoldersKept DEF BuildOK
  <1>12. ASSUME NEW c \in Callers, BuildFail(c)
         PROVE  IInv'
    <2>1. TypeOK'
      BY <1>12 DEF BuildFail, TypeOK
    <2>2. Owns' /\ WaitsOnChannel'
      BY <1>12 DEF BuildFail, TypeOK, Owns, WaitsOnChannel
    <2>3. NoLostWakeup'
      BY <1>12 DEF BuildFail, TypeOK, NoLostWakeup
    <2>4. Holders' = Holders
      BY <1>12 DEF BuildFail, TypeOK, Holders, Holding
    <2> QED
      BY <1>12, <2>1, <2>2, <2>3, <2>4, HoldersKept DEF BuildFail
  <1>13. ASSUME NEW c \in Callers, BuildPanic(c)
         PROVE  IInv'
    <2>1. Holders' = Holders \ {c} /\ pc[c] \in Holding
      BY <1>13 DEF BuildPanic, TypeOK, Holders, Holding
    <2>2. SlotsCounted' /\ sem' \in 0 .. MaxBuilds
      BY <1>13, <2>1, HolderLeaves DEF BuildPanic
    <2>3. TypeOK'
      BY <1>13, <2>2 DEF BuildPanic, TypeOK
    <2>4. Owns' /\ WaitsOnChannel'
      BY <1>13 DEF BuildPanic, TypeOK, Owns, WaitsOnChannel
    <2>5. NoLostWakeup'
      BY <1>13 DEF BuildPanic, TypeOK, NoLostWakeup
    <2> QED
      BY <2>2, <2>3, <2>4, <2>5
  <1>14. ASSUME NEW c \in Callers, ReleaseSlot(c)
         PROVE  IInv'
    <2>1. Holders' = Holders \ {c} /\ pc[c] \in Holding
      BY <1>14 DEF ReleaseSlot, TypeOK, Holders, Holding
    <2>2. SlotsCounted' /\ sem' \in 0 .. MaxBuilds
      BY <1>14, <2>1, HolderLeaves DEF ReleaseSlot
    <2>3. TypeOK'
      BY <1>14, <2>2 DEF ReleaseSlot, TypeOK
    <2>4. Owns' /\ WaitsOnChannel'
      BY <1>14 DEF ReleaseSlot, TypeOK, Owns, WaitsOnChannel
    <2>5. NoLostWakeup'
      BY <1>14 DEF ReleaseSlot, TypeOK, NoLostWakeup
    <2> QED
      BY <2>2, <2>3, <2>4, <2>5
  <1>15. ASSUME NEW c \in Callers, DeleteFlight(c)
         PROVE  IInv'
    <2>0. key[c] \in Keys /\ flight[key[c]] = c
      BY <1>15 DEF DeleteFlight, TypeOK, Owns
    <2>1. TypeOK'
      BY <1>15, <2>0 DEF DeleteFlight, TypeOK
    <2>2. Owns'
      BY <1>15, <2>0 DEF DeleteFlight, TypeOK, Owns
    <2>3. WaitsOnChannel'
      BY <1>15 DEF DeleteFlight, TypeOK, WaitsOnChannel
    <2>4. NoLostWakeup'
      BY <1>15, <2>0 DEF DeleteFlight, TypeOK, NoLostWakeup
    <2>5. Holders' = Holders
      BY <1>15 DEF DeleteFlight, TypeOK, Holders, Holding
    <2> QED
      BY <1>15, <2>1, <2>2, <2>3, <2>4, <2>5, HoldersKept DEF DeleteFlight
  <1>16. ASSUME NEW c \in Callers, CloseFlight(c)
         PROVE  IInv'
    <2>1. TypeOK'
      BY <1>16 DEF CloseFlight, TypeOK
    <2>2. Owns' /\ WaitsOnChannel'
      BY <1>16 DEF CloseFlight, TypeOK, Owns, WaitsOnChannel
    <2>3. NoLostWakeup'
      BY <1>16 DEF CloseFlight, Waiting, TypeOK, NoLostWakeup
    <2>4. Holders' = Holders
      BY <1>16 DEF CloseFlight, TypeOK, Holders, Holding
    <2> QED
      BY <1>16, <2>1, <2>2, <2>3, <2>4, HoldersKept DEF CloseFlight
  <1>17. ASSUME NEW k \in Keys, Evict(k)
         PROVE  IInv'
    <2>1. TypeOK'
      BY <1>17 DEF Evict, callerVars, TypeOK
    <2>2. Owns' /\ WaitsOnChannel' /\ NoLostWakeup'
      BY <1>17 DEF Evict, callerVars, Owns, WaitsOnChannel, NoLostWakeup
    <2>3. SlotsCounted'
      BY <1>17 DEF Evict, callerVars, SlotsCounted, Holders
    <2> QED
      BY <2>1, <2>2, <2>3
  <1>18. ASSUME UNCHANGED vars
         PROVE  IInv'
    BY <1>18
    DEF vars, TypeOK, Owns, WaitsOnChannel, NoLostWakeup, SlotsCounted, Holders
  <1> QED
    BY <1>1, <1>2, <1>3, <1>4, <1>5, <1>6, <1>7, <1>8, <1>9, <1>10, <1>11,
       <1>12, <1>13, <1>14, <1>15, <1>16, <1>17, <1>18
    DEF Next, Run

LEMMA Invariance == Spec => []IInv
  BY InitIInv, NextIInv, PTL DEF Spec

-----------------------------------------------------------------------------

\* Every variable keeps its type; in particular no more builds run than the
\* semaphore admits.
THEOREM TypeCorrect == Spec => []TypeOK
  BY Invariance, PTL DEF IInv

\* buildCached never runs two builds of a key at once.
THEOREM SingleFlightHolds == Spec => []AtMostOneBuild
  <1>1. IInv => AtMostOneBuild
    BY OwnersExclude DEF IInv
  <1> QED
    BY <1>1, Invariance, PTL

\* The semaphore counts the running builds on every path out of a build.
THEOREM SlotsHold == Spec => []SlotsCounted
  BY Invariance, PTL DEF IInv

\* No waiter is left on a channel that nobody will close, builds that panic
\* before the removal of their flight aside.
THEOREM WakeupsHold == Spec => []NoLostWakeup
  BY Invariance, PTL DEF IInv

\* How a call ends is the caller's own doing: it never inherits the failure
\* or the cancellation of the build it waited for.
THEOREM OutcomesAreOwn == Spec => OutcomeIsOwn
  <1>1. IInv /\ [Next]_vars =>
          [\A c \in Callers : outcome'[c] # outcome[c] =>
             /\ outcome'[c] \in {"failed", "built", "panic"} => flight[key[c]] = c
             /\ outcome'[c] = "canceled" => ctxDone[c]
             /\ outcome'[c] = "hit" => key[c] \in cached]_vars
    <2> SUFFICES ASSUME IInv, Next, NEW c \in Callers, outcome'[c] # outcome[c]
                 PROVE  /\ outcome'[c] \in {"failed", "built", "panic"} => flight[key[c]] = c
                        /\ outcome'[c] = "canceled" => ctxDone[c]
                        /\ outcome'[c] = "hit" => key[c] \in cached
      OBVIOUS
    <2> USE DEF IInv, TypeOK, Record
    <2>1. CASE \E d \in Callers, k \in Keys : Call(d, k)
      BY <2>1 DEF Call
    <2>2. CASE \E d \in Callers : CacheHit(d)
      BY <2>2 DEF CacheHit
    <2>3. CASE \E d \in Callers : WaitCanceled(d) \/ SlotCanceled(d)
      BY <2>3 DEF WaitCanceled, SlotCanceled
    <2>4. CASE \E d \in Callers : BuildOK(d) \/ BuildFail(d) \/ BuildPanic(d)
      BY <2>4 DEF BuildOK, BuildFail, BuildPanic, Owns, Owning
    <2>5. CASE UNCHANGED outcome
      BY <2>5
    <2> QED
      BY <2>1, <2>2, <2>3, <2>4, <2>5
      DEF Next, Run, Disconnect, CacheMiss, JoinFlight, StartFlight, WaitClosed,
          AcquireSlot, ReleaseSlot, DeleteFlight, CloseFlight, Evict, callerVars
  <1> QED
    BY <1>1, Invariance, PTL DEF Spec, OutcomeIsOwn

-----------------------------------------------------------------------------

\* A registered flight has a caller that will remove it, unless it is for a
\* key whose builds may panic: the damage of a panic is confined to its key.
THEOREM BuildersHold == Spec => []FlightsHaveBuilder
  <1>1. Init => FlightsHaveBuilder
    BY DEF Init, FlightsHaveBuilder
  <1>2. IInv /\ FlightsHaveBuilder /\ [Next]_vars => FlightsHaveBuilder'
    <2> SUFFICES ASSUME IInv, FlightsHaveBuilder, [Next]_vars
                 PROVE  FlightsHaveBuilder'
      OBVIOUS
    <2> USE NoneAssumption DEF IInv, TypeOK, FlightsHaveBuilder, Owning, Goto
    <2>1. CASE \E c \in Callers, k \in Keys : Call(c, k)
      BY <2>1 DEF Call
    <2>2. CASE \E c \in Callers : Disconnect(c)
      BY <2>2 DEF Disconnect
    <2>3. CASE \E c \in Callers : CacheHit(c) \/ CacheMiss(c)
      BY <2>3 DEF CacheHit, CacheMiss
    <2>4. CASE \E c \in Callers : JoinFlight(c) \/ WaitClosed(c) \/ WaitCanceled(c)
      BY <2>4 DEF JoinFlight, WaitClosed, WaitCanceled
    <2>5. CASE \E c \in Callers : StartFlight(c)
      BY <2>5 DEF StartFlight
    <2>6. CASE \E c \in Callers : AcquireSlot(c) \/ SlotCanceled(c) \/ ReleaseSlot(c)
      BY <2>6 DEF AcquireSlot, SlotCanceled, ReleaseSlot
    <2>7. CASE \E c \in Callers : BuildOK(c) \/ BuildFail(c)
      BY <2>7 DEF BuildOK, BuildFail
    <2>8. CASE \E c \in Callers : DeleteFlight(c)
      BY <2>8 DEF DeleteFlight, Owns
    <2>9. CASE \E c \in Callers : CloseFlight(c)
      BY <2>9 DEF CloseFlight
    <2>10. CASE \E k \in Keys : Evict(k)
      BY <2>10 DEF Evict, callerVars
    <2>11. CASE \E c \in Callers : BuildPanic(c)
      \* The panicking caller's only flight is for a key that may panic.
      BY <2>11 DEF BuildPanic, Owns
    <2>12. CASE UNCHANGED vars
      BY <2>12 DEF vars
    <2> QED
      BY <2>1, <2>2, <2>3, <2>4, <2>5, <2>6, <2>7, <2>8, <2>9, <2>10, <2>11, <2>12
      DEF Next, Run
  <1> QED
    BY <1>1, <1>2, Invariance, PTL DEF Spec

-----------------------------------------------------------------------------
(* The refinement: buildCached implements SingleFlight.tla.                *)


\* The end of a call is undecided up to the end of its build, and decided
\* from there on.
Decided ==
    \A c \in Callers :
        /\ pc[c] \in {"get", "lock", "wait", "sem", "build"} => outcome[c] = "none"
        /\ pc[c] \in {"release", "unflight", "close"} => outcome[c] # "none"

LEMMA DecidedHolds == Spec => []Decided
  <1>1. Init => Decided
    BY DEF Init, Decided
  <1>2. TypeOK /\ Decided /\ [Next]_vars => Decided'
    <2> SUFFICES ASSUME TypeOK, Decided, [Next]_vars
                 PROVE  Decided'
      OBVIOUS
    <2> USE DEF TypeOK, Decided, Goto, Record
    <2>1. CASE \E c \in Callers, k \in Keys : Call(c, k)
      BY <2>1 DEF Call
    <2>2. CASE \E c \in Callers : Disconnect(c) \/ CacheHit(c) \/ CacheMiss(c)
      BY <2>2 DEF Disconnect, CacheHit, CacheMiss
    <2>3. CASE \E c \in Callers : JoinFlight(c) \/ WaitClosed(c) \/ WaitCanceled(c)
      BY <2>3 DEF JoinFlight, WaitClosed, WaitCanceled
    <2>4. CASE \E c \in Callers : StartFlight(c) \/ AcquireSlot(c) \/ SlotCanceled(c)
      BY <2>4 DEF StartFlight, AcquireSlot, SlotCanceled
    <2>5. CASE \E c \in Callers : BuildOK(c) \/ BuildFail(c) \/ BuildPanic(c)
      BY <2>5 DEF BuildOK, BuildFail, BuildPanic
    <2>6. CASE \E c \in Callers : ReleaseSlot(c) \/ DeleteFlight(c) \/ CloseFlight(c)
      BY <2>6 DEF ReleaseSlot, DeleteFlight, CloseFlight
    <2>7. CASE \E k \in Keys : Evict(k)
      BY <2>7 DEF Evict, callerVars
    <2>8. CASE UNCHANGED vars
      BY <2>8 DEF vars
    <2> QED
      BY <2>1, <2>2, <2>3, <2>4, <2>5, <2>6, <2>7, <2>8 DEF Next, Run
  <1> QED
    BY <1>1, <1>2, TypeCorrect, PTL DEF Spec

LEMMA InitPromise == Init => Promise!Init
  <1> SUFFICES ASSUME Init PROVE Promise!Init
    OBVIOUS
  <1>1. \A c \in Callers : (pc[c] \in Owning) = FALSE
    BY DEF Init, Owning
  <1>2. workingBar = [c \in Callers |-> FALSE]
    BY <1>1, Zenon DEF workingBar
  <1> QED
    BY <1>2 DEF Init, Promise!Init, wantBar

LEMMA StepPromise == IInv /\ Decided /\ [Next]_vars => [Promise!Next]_(Promise!vars)
  <1> SUFFICES ASSUME IInv, Decided, [Next]_vars
               PROVE  Promise!Next \/ UNCHANGED Promise!vars
    OBVIOUS
  <1> USE NoneAssumption
      DEF IInv, TypeOK, Decided, Goto, Record, Owning, Promise!Next, Promise!Step
  <1>1. ASSUME NEW c \in Callers, NEW k \in Keys, Call(c, k)
        PROVE  Promise!Ask(c, k)
    <2>1. wantBar' = [wantBar EXCEPT ![c] = k]
      BY <1>1 DEF Call, wantBar
    <2>2. workingBar' = workingBar
      BY <1>1 DEF Call, workingBar
    <2> QED
      BY <1>1, <2>1, <2>2 DEF Call, Promise!Ask, wantBar, workingBar
  <1>2. ASSUME NEW c \in Callers, Disconnect(c)
        PROVE  Promise!Withdraw(c)
    <2>1. wantBar' = wantBar
      BY <1>2 DEF Disconnect, wantBar
    <2>2. workingBar' = workingBar
      BY <1>2 DEF Disconnect, workingBar
    <2> QED
      BY <1>2, <2>1, <2>2 DEF Disconnect, Promise!Withdraw, wantBar, workingBar
  <1>3. ASSUME NEW c \in Callers, CacheHit(c)
        PROVE  Promise!Serve(c)
    <2>1. wantBar' = [wantBar EXCEPT ![c] = None]
      BY <1>3 DEF CacheHit, wantBar
    <2>2. workingBar' = workingBar
      BY <1>3 DEF CacheHit, workingBar
    <2> QED
      BY <1>3, <2>1, <2>2 DEF CacheHit, Promise!Serve, wantBar, workingBar
  <1>4. ASSUME NEW c \in Callers, WaitCanceled(c)
        PROVE  Promise!Leave(c)
    <2>1. wantBar' = [wantBar EXCEPT ![c] = None]
      BY <1>4 DEF WaitCanceled, wantBar
    <2>2. workingBar' = workingBar
      BY <1>4 DEF WaitCanceled, workingBar
    <2> QED
      BY <1>4, <2>1, <2>2 DEF WaitCanceled, Promise!Leave, wantBar, workingBar
  <1>5. ASSUME NEW c \in Callers, StartFlight(c)
        PROVE  Promise!Begin(c)
    <2>1. wantBar' = wantBar
      BY <1>5 DEF StartFlight, wantBar
    <2>2. workingBar' = [workingBar EXCEPT ![c] = TRUE]
      BY <1>5 DEF StartFlight, workingBar
    <2> QED
      BY <1>5, <2>1, <2>2 DEF StartFlight, Promise!Begin, wantBar, workingBar, Owns
  <1>6. ASSUME NEW c \in Callers, BuildOK(c)
        PROVE  Promise!Publish(c)
    <2>1. wantBar' = wantBar
      BY <1>6 DEF BuildOK, wantBar
    <2>2. workingBar' = workingBar
      BY <1>6 DEF BuildOK, workingBar
    <2> QED
      BY <1>6, <2>1, <2>2 DEF BuildOK, Promise!Publish, wantBar, workingBar
  <1>7. ASSUME NEW c \in Callers, BuildFail(c)
        PROVE  Promise!Break(c)
    <2>1. wantBar' = wantBar
      BY <1>7 DEF BuildFail, wantBar
    <2>2. workingBar' = workingBar
      BY <1>7 DEF BuildFail, workingBar
    <2> QED
      BY <1>7, <2>1, <2>2 DEF BuildFail, Promise!Break, wantBar, workingBar
  <1>8. ASSUME NEW c \in Callers, SlotCanceled(c)
        PROVE  Promise!Break(c)
    <2>1. wantBar' = wantBar
      BY <1>8 DEF SlotCanceled, wantBar
    <2>2. workingBar' = workingBar
      BY <1>8 DEF SlotCanceled, workingBar
    <2> QED
      BY <1>8, <2>1, <2>2 DEF SlotCanceled, Promise!Break, wantBar, workingBar
  <1>9. ASSUME NEW c \in Callers, BuildPanic(c)
        PROVE  Promise!Panic(c)
    <2>1. wantBar' = [wantBar EXCEPT ![c] = None]
      BY <1>9 DEF BuildPanic, wantBar
    <2>2. workingBar' = [workingBar EXCEPT ![c] = FALSE]
      <3>1. \A d \in Callers \ {c} : pc'[d] = pc[d]
        BY <1>9 DEF BuildPanic
      <3>2. (pc'[c] \in Owning) = FALSE
        BY <1>9 DEF BuildPanic
      <3> QED
        BY <3>1, <3>2, Zenon DEF workingBar
    <2> QED
      BY <1>9, <2>1, <2>2 DEF BuildPanic, Promise!Panic, wantBar, workingBar
  <1>10. ASSUME NEW c \in Callers, DeleteFlight(c)
         PROVE  Promise!Finish(c)
    <2>1. wantBar' = wantBar
      BY <1>10 DEF DeleteFlight, wantBar
    <2>2. workingBar' = [workingBar EXCEPT ![c] = FALSE]
      <3>1. \A d \in Callers \ {c} : pc'[d] = pc[d]
        BY <1>10 DEF DeleteFlight
      <3>2. (pc'[c] \in Owning) = FALSE
        BY <1>10 DEF DeleteFlight
      <3> QED
        BY <3>1, <3>2, Zenon DEF workingBar
    <2> QED
      BY <1>10, <2>1, <2>2 DEF DeleteFlight, Promise!Finish, wantBar, workingBar
  <1>11. ASSUME NEW c \in Callers, CloseFlight(c)
         PROVE  Promise!Return(c)
    <2>1. wantBar' = [wantBar EXCEPT ![c] = None]
      BY <1>11 DEF CloseFlight, wantBar
    <2>2. workingBar' = workingBar
      BY <1>11 DEF CloseFlight, workingBar
    <2> QED
      BY <1>11, <2>1, <2>2 DEF CloseFlight, Promise!Return, wantBar, workingBar
  <1>12. ASSUME NEW k \in Keys, Evict(k)
         PROVE  Promise!Forget(k)
    BY <1>12 DEF Evict, callerVars, Promise!Forget, wantBar, workingBar
  <1>13. ASSUME NEW c \in Callers,
                \/ CacheMiss(c) \/ JoinFlight(c) \/ WaitClosed(c)
                \/ AcquireSlot(c) \/ ReleaseSlot(c)
         PROVE  UNCHANGED Promise!vars
    <2>1. wantBar' = wantBar
      BY <1>13
      DEF CacheMiss, JoinFlight, WaitClosed, AcquireSlot, ReleaseSlot, wantBar
    <2>2. workingBar' = workingBar
      BY <1>13
      DEF CacheMiss, JoinFlight, WaitClosed, AcquireSlot, ReleaseSlot, workingBar
    <2> QED
      BY <1>13, <2>1, <2>2
      DEF CacheMiss, JoinFlight, WaitClosed, AcquireSlot, ReleaseSlot, Promise!vars
  <1>14. CASE UNCHANGED vars
    BY <1>14 DEF vars, Promise!vars, wantBar, workingBar
  <1> QED
    BY <1>1, <1>2, <1>3, <1>4, <1>5, <1>6, <1>7, <1>8, <1>9, <1>10, <1>11,
       <1>12, <1>13, <1>14
    DEF Next, Run

\* buildCached implements the single-flight promise, panics included.
THEOREM PromiseKept == Spec => KeepsPromise
  BY InitPromise, StepPromise, Invariance, DecidedHolds, PTL
  DEF Spec, KeepsPromise, Promise!Spec

=============================================================================
