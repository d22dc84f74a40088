---------------------------- MODULE DiskCacheProofs ----------------------------
(***************************************************************************)
(* Proofs about DiskCache.tla, for any finite sets of keys and writers,    *)
(* any number of readers, any cap and any bounds.  Three arguments: a      *)
(* product is whole because it was whole before the rename; a pass may     *)
(* trust its total because the total never falls below what it has left in *)
(* the directory or has still to look at; and the stamp of a product is    *)
(* that of its last use unless that use was overtaken.                     *)
(***************************************************************************)
EXTENDS DiskCache, FiniteSetTheorems, TLAPS

\* A request or a Put under way has a key.
Keyed ==
    /\ \A r \in Readers : rpc[r] # "idle" => rkey[r] \in Keys
    /\ \A w \in Writers : wpc[w] # "idle" => wkey[w] \in Keys

\* What is about to be renamed is whole.
WholeBeforeRename ==
    \A w \in Writers : wpc[w] = "rename" => temp[w] # None /\ temp[w].whole

\* Whoever is not in a Put has no temporary.
TempsGone == \A w \in Writers : wpc[w] = "idle" => temp[w] = None

JunkAccounted == junk <= crashes * Cardinality(Writers) + stuck

\* The files of the present pass: those it has walked past and left, and
\* those it has seen.  Files that unlisted since it began, or were left out
\* for an error, are not its own.
Passed == ((Present \ unlisted) \ todo) \cup Seen

\* Between passes the locals are as new; what is to be visited is not seen.
PassLocals ==
    /\ epc = "walk" => Seen \cap todo = {}
    /\ epc = "prune" => todo = {}
    /\ epc \notin {"walk", "prune"} => Seen = {} /\ total = 0

PassCounts == epc \in {"walk", "prune"} => Cardinality(Passed) <= total

Whole == OnlyWholeProducts /\ WholeBeforeRename /\ TempsGone

Pass == PassLocals /\ PassCounts

-----------------------------------------------------------------------------
(* Types.                                                                  *)

LEMMA FileType == None \notin File
  BY NoneAssumption, MaxTimeAssumption DEF File

LEMMA TickType ==
  ASSUME clock \in 0 .. MaxTime, Tick
  PROVE  clock' \in 0 .. MaxTime
  BY MaxTimeAssumption DEF Tick

LEMMA StampedType ==
  ASSUME TypeOK, NEW k \in Keys, NEW t \in 0 .. MaxTime, Stamped(k, t)
  PROVE  /\ used' \in [Keys -> 0 .. MaxTime]
         /\ overtaken' \in SUBSET Keys
         /\ late' \in SUBSET Keys
  BY DEF TypeOK, Stamped

LEMMA InitTypes == Init => TypeOK /\ Keyed
  <1> SUFFICES ASSUME Init PROVE TypeOK /\ Keyed
    OBVIOUS
  <1>1. 0 \in 0 .. MaxTime /\ 0 \in 0 .. MaxMishaps /\ 0 \in Nat
    BY MaxTimeAssumption, MaxMishapsAssumption
  <1>2. [time |-> 0, whole |-> TRUE] \in File
    BY <1>1 DEF File
  <1>3. file \in [Keys -> File \cup {None}]
    BY <1>2 DEF Init
  <1>4. TypeOK
    BY <1>1, <1>3, Zenon DEF Init, TypeOK
  <1> QED
    BY <1>4 DEF Init, Keyed

LEMMA NextTypes ==
  TypeOK /\ Keyed /\ WholeBeforeRename /\ [Next]_vars => TypeOK' /\ Keyed'
  <1> SUFFICES ASSUME TypeOK, Keyed, WholeBeforeRename, [Next]_vars PROVE TypeOK' /\ Keyed'
    OBVIOUS
  <1> USE DEF TypeOK, Keyed, readerVars, writerVars, evictVars, procVars, leftVars, useVars
  <1>1. ASSUME NEW r \in Readers, NEW k \in Keys, StatHit(r, k) \/ StatMiss(r, k) \/ OpenBuilt(r, k)
        PROVE  TypeOK' /\ Keyed'
    BY <1>1 DEF StatHit, StatMiss, OpenBuilt
  <1>2. ASSUME NEW r \in Readers, ReadClock(r) \/ Touch(r) PROVE TypeOK' /\ Keyed'
    <2>1. CASE ReadClock(r)
      <3>1. clock' \in 0 .. MaxTime
        BY <2>1, TickType DEF ReadClock
      <3> QED
        BY <2>1, <3>1 DEF ReadClock
    <2>2. CASE Touch(r)
      <3>1. rkey[r] \in Keys /\ now[r] \in 0 .. MaxTime
        BY <2>2 DEF Touch
      <3>2. file' \in [Keys -> File \cup {None}]
        BY <2>2, <3>1, FileType DEF Touch, File
      <3>3. /\ used' \in [Keys -> 0 .. MaxTime]
            /\ overtaken' \in SUBSET Keys
            /\ late' \in SUBSET Keys
        BY <2>2, <3>1, StampedType DEF Touch
      <3>4. now' \in [Readers -> 0 .. MaxTime]
        BY <2>2, MaxTimeAssumption DEF Touch
      <3> QED
        BY <2>2, <3>2, <3>3, <3>4 DEF Touch
    <2> QED
      BY <1>2, <2>1, <2>2
  <1>3. ASSUME NEW r \in Readers, OpenHit(r) PROVE TypeOK' /\ Keyed'
    BY <1>3 DEF OpenHit
  <1>4. ASSUME NEW w \in Writers, NEW k \in Keys, CreateTemp(w, k)
        PROVE  TypeOK' /\ Keyed'
    <2>1. temp' \in [Writers -> File \cup {None}]
      BY <1>4, MaxTimeAssumption DEF CreateTemp, File
    <2> QED
      BY <1>4, <2>1 DEF CreateTemp
  <1>5. ASSUME NEW w \in Writers, WriteOK(w) PROVE TypeOK' /\ Keyed'
    <2>1. temp' \in [Writers -> File \cup {None}]
      BY <1>5 DEF WriteOK, File
    <2>2. clock' \in 0 .. MaxTime
      BY <1>5, TickType DEF WriteOK
    <2> QED
      BY <1>5, <2>1, <2>2 DEF WriteOK
  <1>6. ASSUME NEW w \in Writers, WriteFail(w) \/ RenameFail(w)
        PROVE  TypeOK' /\ Keyed'
    BY <1>6 DEF WriteFail, RenameFail
  <1>7. ASSUME NEW w \in Writers, Rename(w) PROVE TypeOK' /\ Keyed'
    <2>1. wkey[w] \in Keys /\ temp[w] \in File
      BY <1>7 DEF Rename, WholeBeforeRename
    <2>2. temp[w].time \in 0 .. MaxTime
      BY <2>1 DEF File
    <2>3. /\ used' \in [Keys -> 0 .. MaxTime]
          /\ overtaken' \in SUBSET Keys
          /\ late' \in SUBSET Keys
      BY <1>7, <2>1, <2>2, StampedType DEF Rename
    <2> QED
      BY <1>7, <2>1, <2>3 DEF Rename
  <1>8. ASSUME NEW w \in Writers, Discard(w) \/ WritePanics(w)
        PROVE  TypeOK' /\ Keyed'
    <2>1. stuck' \in 0 .. MaxMishaps /\ junk' \in Nat
      BY <1>8, MaxMishapsAssumption DEF Discard, WritePanics, RemoveTemp
    <2> QED
      BY <1>8, <2>1 DEF Discard, WritePanics, RemoveTemp
  <1>9. CASE Open \/ TickerFires
    BY <1>9 DEF Open, TickerFires, BeginPass
  <1>10. ASSUME NEW k \in Keys, Visit(k) PROVE TypeOK' /\ Keyed'
    <2>1. snap' \in [Keys -> 0 .. MaxTime \cup {None}]
      BY <1>10, FileType DEF Visit, File
    <2>2. total' \in Nat
      BY <1>10 DEF Visit
    <2> QED
      BY <1>10, <2>1, <2>2 DEF Visit
  <1>11. CASE WalkEnd
    BY <1>11 DEF WalkEnd
  <1>18. ASSUME NEW k \in Keys, NotListed(k) \/ VisitFails(k) PROVE TypeOK' /\ Keyed'
    BY <1>18 DEF NotListed, VisitFails
  <1>12. ASSUME NEW k \in Keys, Prune(k) PROVE TypeOK' /\ Keyed'
    <2>1. total' \in Nat
      BY <1>12, MaxFilesAssumption DEF Prune
    <2>2. used' \in [Keys -> 0 .. MaxTime]
      BY <1>12, MaxTimeAssumption DEF Prune
    <2> QED
      BY <1>12, <2>1, <2>2 DEF Prune
  <1>13. ASSUME NEW k \in Keys, PruneFail(k) PROVE TypeOK' /\ Keyed'
    BY <1>13 DEF PruneFail
  <1>14. CASE PassEnd
    BY <1>14 DEF PassEnd, Forget
  <1>15. CASE Close \/ LoopStops
    BY <1>15 DEF Close, LoopStops
  <1>16. CASE Crash
    <2>1. Cardinality(Temps) \in Nat
      BY WritersAssumption, FS_Subset, FS_CardinalityType DEF Temps
    <2>2. crashes' \in 0 .. MaxMishaps /\ junk' \in Nat
      BY <1>16, <2>1, MaxMishapsAssumption DEF Crash
    <2>5. now' \in [Readers -> 0 .. MaxTime]
      BY <1>16, MaxTimeAssumption DEF Crash
    <2>3. epc' \in {"off", "walk", "prune", "idle", "stopped"}
      BY <1>16 DEF Crash
    <2>4. total' \in Nat
      BY <1>16 DEF Crash, Forget
    <2> QED
      BY <1>16, <2>2, <2>3, <2>4, <2>5 DEF Crash, Forget
  <1>17. CASE UNCHANGED vars
    BY <1>17 DEF vars
  <1> QED
    BY <1>18, <1>1, <1>2, <1>3, <1>4, <1>5, <1>6, <1>7, <1>8, <1>9, <1>10, <1>11,
       <1>12, <1>13, <1>14, <1>15, <1>16, <1>17
    DEF Next, Read, Write, EvictStep

-----------------------------------------------------------------------------
(* Whole products.                                                         *)

LEMMA InitWhole == Init => Whole
  <1> SUFFICES ASSUME Init PROVE Whole
    OBVIOUS
  <1>1. \A k \in Keys : file[k] \in {None, [time |-> 0, whole |-> TRUE]}
    BY DEF Init
  <1>2. OnlyWholeProducts
    BY <1>1 DEF OnlyWholeProducts, Present
  <1> QED
    BY <1>2 DEF Init, Whole, OnlyWholeProducts, WholeBeforeRename, TempsGone, Present

LEMMA NextWhole == TypeOK /\ Keyed /\ Whole /\ [Next]_vars => Whole'
  <1> SUFFICES ASSUME TypeOK, Keyed, Whole, [Next]_vars PROVE Whole'
    OBVIOUS
  <1> USE FileType
  <1> USE DEF TypeOK, Keyed, Whole, OnlyWholeProducts, WholeBeforeRename,
              TempsGone, Present, readerVars, writerVars, evictVars, procVars,
              leftVars, useVars
  <1>1. ASSUME NEW r \in Readers, NEW k \in Keys, StatHit(r, k) \/ StatMiss(r, k) \/ OpenBuilt(r, k)
        PROVE  Whole'
    BY <1>1 DEF StatHit, StatMiss, OpenBuilt
  <1>2. ASSUME NEW r \in Readers, ReadClock(r) \/ Touch(r) PROVE Whole'
    <2>1. OnlyWholeProducts'
      BY <1>2 DEF ReadClock, Touch, File
    <2> QED
      BY <1>2, <2>1 DEF ReadClock, Touch
  <1>3. ASSUME NEW r \in Readers, OpenHit(r) PROVE Whole'
    BY <1>3 DEF OpenHit
  <1>4. ASSUME NEW w \in Writers, NEW k \in Keys, CreateTemp(w, k) PROVE Whole'
    BY <1>4 DEF CreateTemp
  <1>5. ASSUME NEW w \in Writers, WriteOK(w) PROVE Whole'
    <2>1. temp'[w] = [time |-> clock, whole |-> TRUE]
      BY <1>5 DEF WriteOK
    <2>2. temp'[w] \in File
      BY <2>1 DEF File
    <2>3. temp'[w].whole
      BY <2>1
    <2> QED
      BY <1>5, <2>2, <2>3 DEF WriteOK
  <1>6. ASSUME NEW w \in Writers, WriteFail(w) \/ RenameFail(w) PROVE Whole'
    BY <1>6 DEF WriteFail, RenameFail
  <1>7. ASSUME NEW w \in Writers, Rename(w) PROVE Whole'
    BY <1>7 DEF Rename
  <1>8. ASSUME NEW w \in Writers, Discard(w) \/ WritePanics(w)
        PROVE  Whole'
    BY <1>8 DEF Discard, WritePanics, RemoveTemp
  <1>9. CASE Open \/ TickerFires
    BY <1>9 DEF Open, TickerFires, BeginPass
  <1>10. ASSUME NEW k \in Keys, Visit(k) \/ NotListed(k) \/ VisitFails(k) \/ PruneFail(k)
         PROVE  Whole'
    BY <1>10 DEF Visit, NotListed, VisitFails, PruneFail
  <1>11. ASSUME NEW k \in Keys, Prune(k) PROVE Whole'
    BY <1>11 DEF Prune
  <1>12. CASE WalkEnd \/ PassEnd \/ Close \/ LoopStops
    BY <1>12 DEF WalkEnd, PassEnd, Forget, Close, LoopStops
  <1>13. CASE Crash
    BY <1>13 DEF Crash, Forget
  <1>14. CASE UNCHANGED vars
    BY <1>14 DEF vars
  <1> QED
    BY <1>1, <1>2, <1>3, <1>4, <1>5, <1>6, <1>7, <1>8, <1>9, <1>10, <1>11,
       <1>12, <1>13, <1>14
    DEF Next, Read, Write, EvictStep

-----------------------------------------------------------------------------
(* The temporaries that nobody removes.                                    *)

LEMMA InitJunk == Init => JunkAccounted
  <1>1. Cardinality(Writers) \in Nat
    BY WritersAssumption, FS_CardinalityType
  <1> QED
    BY <1>1 DEF Init, JunkAccounted

LEMMA NextJunk == TypeOK /\ JunkAccounted /\ [Next]_vars => JunkAccounted'
  <1> SUFFICES ASSUME TypeOK, JunkAccounted, [Next]_vars PROVE JunkAccounted'
    OBVIOUS
  <1> DEFINE n == Cardinality(Writers)
             t == Cardinality(Temps)
             per == crashes * n
  <1>1. n \in Nat /\ t \in Nat /\ t <= n
    BY WritersAssumption, FS_Subset, FS_CardinalityType DEF Temps
  <1>2. junk \in Nat /\ stuck \in Nat /\ crashes \in Nat /\ junk <= per + stuck
    BY MaxMishapsAssumption DEF TypeOK, JunkAccounted
  <1>3. per \in Nat /\ (crashes + 1) * n = per + n
    BY <1>1, <1>2
  <1>4. \/ UNCHANGED <<junk, stuck, crashes>>
        \/ junk' = junk + 1 /\ stuck' = stuck + 1 /\ crashes' = crashes
        \/ junk' = junk + t /\ stuck' = stuck /\ crashes' = crashes + 1
    BY DEF vars, Next, Read, Write, EvictStep, StatHit, StatMiss, ReadClock, Touch, OpenHit,
           OpenBuilt, CreateTemp, WriteOK, WriteFail, Rename, RenameFail, Discard,
           WritePanics, RemoveTemp, Open, TickerFires, Visit, NotListed, VisitFails, WalkEnd,
           Prune, PruneFail, PassEnd, Close, LoopStops, Crash, procVars, leftVars
  <1>5. /\ UNCHANGED <<junk, stuck, crashes>> => JunkAccounted'
        /\ junk' = junk + 1 /\ stuck' = stuck + 1 /\ crashes' = crashes => JunkAccounted'
    <2> HIDE DEF n, t
    <2>1. JunkAccounted' <=> junk' <= crashes' * n + stuck'
      BY DEF JunkAccounted, n
    <2> QED
      BY <1>1, <1>2, <1>3, <2>1
  <1>6. junk' = junk + t /\ stuck' = stuck /\ crashes' = crashes + 1 => JunkAccounted'
    <2>1. JunkAccounted' <=> junk' <= crashes' * n + stuck'
      BY DEF JunkAccounted
    <2> HIDE DEF n, t, per
    <2> QED
      BY <1>1, <1>2, <1>3, <2>1
  <1> QED
    BY <1>4, <1>5, <1>6

-----------------------------------------------------------------------------
(* The count of a pass.                                                    *)

LEMMA PassedFinite == IsFiniteSet(Passed)
  BY KeysAssumption, FS_Subset DEF Passed, Present, Seen

\* A step that adds nothing to what the pass has left does not spoil its count.
LEMMA PassedShrinks ==
  ASSUME TypeOK, PassCounts, epc \in {"walk", "prune"},
         Passed' \subseteq Passed, total' = total
  PROVE  PassCounts'
  <1>1. Cardinality(Passed') <= Cardinality(Passed)
    BY PassedFinite, FS_Subset
  <1>2. Cardinality(Passed) \in Nat /\ Cardinality(Passed') \in Nat
    BY PassedFinite, FS_Subset, FS_CardinalityType
  <1> QED
    BY <1>1, <1>2 DEF PassCounts, TypeOK

\* A file that is seen is counted.
LEMMA PassedGrows ==
  ASSUME TypeOK, PassCounts, epc \in {"walk", "prune"}, NEW k,
         Passed' \subseteq Passed \cup {k}, total' = total + 1
  PROVE  PassCounts'
  <1>1. \/ Cardinality(Passed \cup {k}) = Cardinality(Passed)
        \/ Cardinality(Passed \cup {k}) = Cardinality(Passed) + 1
    BY PassedFinite, FS_AddElement, Zenon
  <1>2. IsFiniteSet(Passed \cup {k})
    BY PassedFinite, FS_AddElement
  <1>3. Cardinality(Passed') <= Cardinality(Passed \cup {k})
    BY <1>2, FS_Subset
  <1>4. /\ Cardinality(Passed) \in Nat
        /\ Cardinality(Passed') \in Nat
        /\ Cardinality(Passed \cup {k}) \in Nat
    BY <1>2, PassedFinite, FS_Subset, FS_CardinalityType
  <1> QED
    BY <1>1, <1>3, <1>4 DEF PassCounts, TypeOK

\* A file that is removed is taken off the total, for it was counted.
LEMMA PassedLoses ==
  ASSUME TypeOK, PassCounts, epc \in {"walk", "prune"}, NEW k \in Passed,
         Passed' \subseteq Passed \ {k}, total' = total - 1
  PROVE  PassCounts'
  <1>1. Cardinality(Passed \ {k}) = Cardinality(Passed) - 1
    BY PassedFinite, FS_RemoveElement
  <1>2. IsFiniteSet(Passed \ {k})
    BY PassedFinite, FS_RemoveElement
  <1>3. Cardinality(Passed') <= Cardinality(Passed \ {k})
    BY <1>2, FS_Subset
  <1>4. /\ Cardinality(Passed) \in Nat
        /\ Cardinality(Passed') \in Nat
        /\ Cardinality(Passed \ {k}) \in Nat
    BY <1>2, PassedFinite, FS_Subset, FS_CardinalityType
  <1> QED
    BY <1>1, <1>3, <1>4 DEF PassCounts, TypeOK

LEMMA InitPass == Init => Pass
  BY DEF Init, Pass, PassLocals, PassCounts, Seen

LEMMA NextPass == TypeOK /\ Keyed /\ Pass /\ [Next]_vars => Pass'
  <1> SUFFICES ASSUME TypeOK, Keyed, Pass, [Next]_vars PROVE Pass'
    OBVIOUS
  <1> USE FileType
  <1> USE DEF Pass, readerVars, writerVars, evictVars, procVars,
              leftVars, useVars
  <1>a. ASSUME UNCHANGED <<epc, todo, snap, total>>, Passed' \subseteq Passed
        PROVE  Pass'
    <2>1. PassLocals'
      BY <1>a DEF PassLocals, Seen
    <2>2. PassCounts'
      BY <1>a, PassedShrinks DEF PassCounts
    <2> QED
      BY <2>1, <2>2
  <1>1. ASSUME NEW r \in Readers, NEW k \in Keys, StatHit(r, k) \/ StatMiss(r, k) \/ OpenBuilt(r, k)
        PROVE  Pass'
    BY <1>1, <1>a DEF StatHit, StatMiss, OpenBuilt, Passed, Present, Seen
  <1>2. ASSUME NEW r \in Readers, ReadClock(r) \/ Touch(r) PROVE Pass'
    <2>1. Present' = Present
      BY <1>2 DEF ReadClock, Touch, Present, TypeOK, Keyed, File
    <2> QED
      BY <1>2, <1>a, <2>1 DEF ReadClock, Touch, Passed, Seen
  <1>3. ASSUME NEW r \in Readers, OpenHit(r) PROVE Pass'
    BY <1>3, <1>a DEF OpenHit, Passed, Present, Seen
  <1>4. ASSUME NEW w \in Writers, NEW k \in Keys, CreateTemp(w, k) PROVE Pass'
    BY <1>4, <1>a DEF CreateTemp, Passed, Present, Seen
  <1>5. ASSUME NEW w \in Writers, WriteOK(w) \/ WriteFail(w) \/ RenameFail(w)
        PROVE  Pass'
    BY <1>5, <1>a DEF WriteOK, WriteFail, RenameFail, Passed, Present, Seen
  <1>6. ASSUME NEW w \in Writers, Rename(w) PROVE Pass'
    <2>1. Present' \subseteq Present \cup {wkey[w]}
      BY <1>6 DEF Rename, Present, TypeOK
    <2>2. CASE epc \in {"walk", "prune"}
      <3>1. Passed' \subseteq Passed
        BY <1>6, <2>1, <2>2 DEF Rename, Passed, Seen, Passing
      <3> QED
        BY <1>6, <1>a, <3>1 DEF Rename
    <2>3. CASE epc \notin {"walk", "prune"}
      BY <1>6, <2>3 DEF Rename, PassLocals, PassCounts, Seen
    <2> QED
      BY <2>2, <2>3
  <1>7. ASSUME NEW w \in Writers, Discard(w) \/ WritePanics(w)
        PROVE  Pass'
    BY <1>7, <1>a DEF Discard, WritePanics, RemoveTemp, Passed, Present, Seen
  <1>8. CASE Open \/ TickerFires
    <2>1. Seen' = {} /\ todo' = Keys /\ total' = 0 /\ epc' = "walk"
      BY <1>8 DEF Open, TickerFires, BeginPass, PassLocals, Seen
    <2>2. Passed' = {}
      BY <2>1 DEF Passed, Present
    <2> QED
      BY <2>1, <2>2, FS_EmptySet DEF PassLocals, PassCounts
  <1>9. ASSUME NEW k \in Keys, Visit(k) PROVE Pass'
    <2>1. file[k].time # None
      BY <1>9, NoneAssumption DEF Visit, TypeOK, File
    <2>2. Seen' = Seen \cup {k}
      BY <1>9, <2>1 DEF Visit, Seen, TypeOK
    <2>3. Passed' \subseteq Passed \cup {k}
      BY <1>9, <2>2 DEF Visit, Passed, Present
    <2>4. PassCounts'
      BY <1>9, <2>3, PassedGrows DEF Visit
    <2>5. PassLocals'
      BY <1>9, <2>2 DEF Visit, PassLocals
    <2> QED
      BY <2>4, <2>5
  <1>18. ASSUME NEW k \in Keys, NotListed(k) \/ VisitFails(k) PROVE Pass'
    <2>1. Passed' \subseteq Passed
      BY <1>18 DEF NotListed, VisitFails, Passed, Present, Seen
    <2>2. PassCounts'
      BY <1>18, <2>1, PassedShrinks DEF NotListed, VisitFails
    <2>3. PassLocals'
      BY <1>18 DEF NotListed, VisitFails, PassLocals, Seen
    <2> QED
      BY <2>2, <2>3
  <1>10. CASE WalkEnd
    <2>1. Passed' \subseteq Passed
      BY <1>10 DEF WalkEnd, Passed, Present, Seen
    <2>2. PassCounts'
      BY <1>10, <2>1, PassedShrinks DEF WalkEnd
    <2>3. PassLocals'
      BY <1>10 DEF WalkEnd, PassLocals, Seen
    <2> QED
      BY <2>2, <2>3
  <1>11. ASSUME NEW k \in Keys, Prune(k) PROVE Pass'
    <2>1. k \in Seen /\ Seen' = Seen \ {k} /\ Present' = Present \ {k}
      BY <1>11 DEF Prune, Oldest, Seen, Present, TypeOK
    <2>2. k \in Passed /\ Passed' \subseteq Passed \ {k}
      BY <1>11, <2>1 DEF Prune, Passed
    <2>3. PassCounts'
      BY <1>11, <2>2, PassedLoses DEF Prune
    <2>4. PassLocals'
      BY <1>11, <2>1 DEF Prune, PassLocals
    <2> QED
      BY <2>3, <2>4
  <1>12. ASSUME NEW k \in Keys, PruneFail(k) PROVE Pass'
    <2>1. Seen' \subseteq Seen
      BY <1>12 DEF PruneFail, Seen, TypeOK
    <2>2. Passed' \subseteq Passed
      BY <1>12, <2>1 DEF PruneFail, Passed, Present
    <2>3. PassCounts'
      BY <1>12, <2>2, PassedShrinks DEF PruneFail
    <2>4. PassLocals'
      BY <1>12, <2>1 DEF PruneFail, PassLocals
    <2> QED
      BY <2>3, <2>4
  <1>13. CASE PassEnd
    BY <1>13 DEF PassEnd, Forget, PassLocals, PassCounts, Seen
  <1>14. CASE Crash
    BY <1>14 DEF Crash, Forget, PassLocals, PassCounts, Seen
  <1>15. CASE Close
    BY <1>15, <1>a DEF Close, Passed, Present, Seen
  <1>16. CASE LoopStops
    BY <1>16 DEF LoopStops, PassLocals, PassCounts, Seen
  <1>17. CASE UNCHANGED vars
    BY <1>17, <1>a DEF vars, Passed, Present, Seen
  <1> QED
    BY <1>1, <1>2, <1>3, <1>4, <1>5, <1>6, <1>7, <1>8, <1>9, <1>10, <1>11,
       <1>12, <1>13, <1>14, <1>15, <1>16, <1>17, <1>18
    DEF Next, Read, Write, EvictStep

-----------------------------------------------------------------------------
(* Time stamps.                                                            *)

\* A product's stamp is that of its latest use, or of one that overtook it.
UsesStamped ==
    \A k \in Present :
        /\ file[k].time <= used[k]
        /\ k \notin overtaken => file[k].time = used[k]

\* What the walk read is the stamp the product had, and has unless it was
\* stamped since.
SnapsLag ==
    \A k \in Seen :
        /\ snap[k] <= used[k]
        /\ k \notin late => file[k] # None /\ snap[k] = file[k].time

Stamps == UsesStamped /\ SnapsLag

LEMMA InitStamps == Init => Stamps
  <1> SUFFICES ASSUME Init PROVE Stamps
    OBVIOUS
  <1>1. Seen = {}
    BY DEF Init, Seen
  <1>2. \A k \in Keys : file[k] \in {None, [time |-> 0, whole |-> TRUE]} /\ used[k] = 0
    BY DEF Init
  <1>3. \A k \in Present : file[k].time = 0 /\ used[k] = 0
    BY <1>2 DEF Present
  <1> QED
    BY <1>1, <1>3 DEF Stamps, UsesStamped, SnapsLag

LEMMA Times ==
  ASSUME TypeOK
  PROVE  /\ \A k \in Present : file[k].time \in Nat
         /\ \A k \in Seen : snap[k] \in Nat
         /\ \A k \in Keys : used[k] \in Nat
         /\ \A w \in Writers : temp[w] # None => temp[w].time \in Nat
         /\ \A r \in Readers : now[r] \in Nat
  BY MaxTimeAssumption DEF TypeOK, File, Present, Seen

\* A file that gets a stamp, of a Get or of a Put: the latest use is never
\* forgotten, and an older stamp is known to be one.
LEMMA StampedStamps ==
  ASSUME TypeOK, Stamps, NEW k \in Keys, NEW t \in Nat, Stamped(k, t),
         Present' = Present \cup {k}, file'[k].time = t, file'[k] # None,
         \A j \in Keys \ {k} : file'[j] = file[j], snap' = snap
  PROVE  Stamps'
  <1>1. /\ used'[k] = IF t < used[k] THEN used[k] ELSE t
        /\ \A j \in Keys \ {k} : used'[j] = used[j]
    BY DEF Stamped, TypeOK
  <1>2. overtaken' = IF t < used[k] THEN overtaken \cup {k} ELSE overtaken \ {k}
    BY DEF Stamped
  <1>3. late' = IF snap[k] # None THEN late \cup {k} ELSE late
    BY DEF Stamped
  <1>4. Seen' = Seen /\ Seen \subseteq Keys /\ Present \subseteq Keys
    BY DEF Seen, Present
  <1>5. used[k] \in Nat
    BY Times
  <1>6. ASSUME NEW j \in Present'
        PROVE  /\ file'[j].time <= used'[j]
               /\ j \notin overtaken' => file'[j].time = used'[j]
    <2>1. CASE j = k
      BY <1>1, <1>2, <1>5, <2>1
    <2>2. CASE j # k
      <3>1. j \in Present /\ (j \in overtaken' <=> j \in overtaken)
        BY <1>2, <1>6, <2>2
      <3> QED
        BY <1>1, <1>4, <2>2, <3>1 DEF Stamps, UsesStamped
    <2> QED
      BY <2>1, <2>2
  <1>7. ASSUME NEW j \in Seen'
        PROVE  /\ snap'[j] <= used'[j]
               /\ j \notin late' => file'[j] # None /\ snap'[j] = file'[j].time
    <2>1. j \in Seen /\ j \in Keys /\ snap[j] \in Nat /\ snap[j] <= used[j]
      BY <1>4, <1>7, Times DEF Stamps, SnapsLag
    <2>2. CASE j = k
      <3>1. j \in late'
        BY <1>3, <2>1, <2>2 DEF Seen
      <3> QED
        BY <1>1, <1>5, <2>1, <2>2, <3>1
    <2>3. CASE j # k
      <3>1. j \notin late' => j \notin late
        BY <1>3
      <3> QED
        BY <1>1, <2>1, <2>3, <3>1 DEF Stamps, SnapsLag
    <2> QED
      BY <2>2, <2>3
  <1> QED
    BY <1>6, <1>7 DEF Stamps, UsesStamped, SnapsLag

LEMMA NextStamps == TypeOK /\ Keyed /\ Whole /\ Pass /\ Stamps /\ [Next]_vars => Stamps'
  <1> SUFFICES ASSUME TypeOK, Keyed, Whole, Pass, Stamps, [Next]_vars PROVE Stamps'
    OBVIOUS
  <1> USE FileType, MaxTimeAssumption
  <1>a. ASSUME UNCHANGED <<file, snap, used, overtaken, late>> PROVE Stamps'
    BY <1>a DEF Stamps, UsesStamped, SnapsLag, Present, Seen
  <1>b. ASSUME UNCHANGED <<file, used, overtaken>>, Seen' = {} PROVE Stamps'
    BY <1>b DEF Stamps, UsesStamped, SnapsLag, Present
  <1> USE DEF readerVars, writerVars, evictVars, procVars, leftVars, useVars
  <1>1. ASSUME NEW r \in Readers, NEW k \in Keys, StatHit(r, k) \/ StatMiss(r, k) \/ OpenBuilt(r, k)
        PROVE  Stamps'
    BY <1>1, <1>a DEF StatHit, StatMiss, OpenBuilt
  <1>2. ASSUME NEW r \in Readers, ReadClock(r) \/ OpenHit(r) PROVE Stamps'
    BY <1>2, <1>a DEF ReadClock, OpenHit
  <1>3. ASSUME NEW r \in Readers, Touch(r) PROVE Stamps'
    <2>1. rkey[r] \in Keys /\ now[r] \in Nat /\ snap' = snap
      BY <1>3, Times DEF Touch, Keyed
    <2>2. CASE UNCHANGED <<file, used, overtaken, late>>
      BY <1>a, <2>1, <2>2
    <2>3. CASE /\ file[rkey[r]] # None
               /\ file' = [file EXCEPT ![rkey[r]].time = now[r]]
               /\ Stamped(rkey[r], now[r])
      <3>1. file \in [Keys -> File \cup {None}] /\ file[rkey[r]] \in File
        BY <2>1, <2>3 DEF TypeOK
      <3>2. /\ file'[rkey[r]] = [file[rkey[r]] EXCEPT !.time = now[r]]
            /\ \A j \in Keys \ {rkey[r]} : file'[j] = file[j]
        BY <2>1, <2>3, <3>1
      <3>3. file'[rkey[r]].time = now[r] /\ file'[rkey[r]] # None
        BY <3>1, <3>2, <2>1, <1>3 DEF File, TypeOK
      <3>4. Present' = Present \cup {rkey[r]}
        BY <2>1, <2>3, <3>2, <3>3 DEF Present
      <3> QED
        BY <2>1, <2>3, <3>2, <3>3, <3>4, StampedStamps
    <2> QED
      BY <1>3, <2>2, <2>3 DEF Touch
  <1>4. ASSUME NEW w \in Writers, NEW k \in Keys, CreateTemp(w, k) PROVE Stamps'
    BY <1>4, <1>a DEF CreateTemp
  <1>5. ASSUME NEW w \in Writers, WriteOK(w) \/ WriteFail(w) \/ RenameFail(w) PROVE Stamps'
    BY <1>5, <1>a DEF WriteOK, WriteFail, RenameFail
  <1>6. ASSUME NEW w \in Writers, Rename(w) PROVE Stamps'
    <2>1. wkey[w] \in Keys /\ temp[w] # None /\ temp[w].time \in Nat /\ snap' = snap
      BY <1>6, Times DEF Rename, Keyed, Whole, WholeBeforeRename
    <2>2. /\ file'[wkey[w]] = temp[w]
          /\ \A j \in Keys \ {wkey[w]} : file'[j] = file[j]
      BY <1>6, <2>1 DEF Rename, TypeOK
    <2>3. Present' = Present \cup {wkey[w]}
      BY <2>1, <2>2 DEF Present
    <2>4. Stamped(wkey[w], temp[w].time)
      BY <1>6 DEF Rename
    <2> QED
      BY <2>1, <2>2, <2>3, <2>4, StampedStamps
  <1>7. ASSUME NEW w \in Writers, Discard(w) \/ WritePanics(w) PROVE Stamps'
    BY <1>7, <1>a DEF Discard, WritePanics
  <1>8. CASE Open \/ TickerFires
    BY <1>8, <1>a DEF Open, TickerFires, BeginPass
  <1>9. ASSUME NEW k \in Keys, Visit(k) PROVE Stamps'
    <2>1. /\ k \in Present /\ snap' = [snap EXCEPT ![k] = file[k].time]
          /\ UNCHANGED <<file, used, overtaken, late>>
      BY <1>9 DEF Visit, Present
    <2>2. UsesStamped'
      BY <2>1 DEF Stamps, UsesStamped, Present
    <2>3. ASSUME NEW j \in Seen'
          PROVE  /\ snap'[j] <= used'[j]
                 /\ j \notin late' => file'[j] # None /\ snap'[j] = file'[j].time
      <3>1. CASE j = k
        BY <2>1, <3>1 DEF Stamps, UsesStamped, Present, TypeOK
      <3>2. CASE j # k
        <4>1. j \in Seen /\ snap'[j] = snap[j]
          BY <2>1, <2>3, <3>2 DEF Seen, TypeOK
        <4> QED
          BY <2>1, <4>1 DEF Stamps, SnapsLag
      <3> QED
        BY <3>1, <3>2
    <2> QED
      BY <2>2, <2>3 DEF Stamps, SnapsLag
  <1>10. ASSUME NEW k \in Keys, NotListed(k) \/ VisitFails(k) PROVE Stamps'
    BY <1>10, <1>a DEF NotListed, VisitFails
  <1>11. ASSUME NEW k \in Keys, Prune(k) PROVE Stamps'
    <2>1. Present' = Present \ {k} /\ Seen' = Seen \ {k}
      BY <1>11 DEF Prune, Present, Seen, TypeOK
    <2>2. \A j \in Keys \ {k} : /\ file'[j] = file[j] /\ snap'[j] = snap[j]
                                /\ used'[j] = used[j]
                                /\ j \in overtaken' <=> j \in overtaken
                                /\ j \in late' <=> j \in late
      BY <1>11 DEF Prune, TypeOK
    <2>3. Present \subseteq Keys /\ Seen \subseteq Keys
      BY DEF Present, Seen
    <2> QED
      BY <2>1, <2>2, <2>3 DEF Stamps, UsesStamped, SnapsLag
  <1>12. ASSUME NEW k \in Keys, PruneFail(k) PROVE Stamps'
    <2>1. Present' = Present /\ Seen' = Seen \ {k} /\ Seen \subseteq Keys
      BY <1>12 DEF PruneFail, Present, Seen, TypeOK
    <2>2. /\ \A j \in Keys \ {k} : snap'[j] = snap[j]
          /\ UNCHANGED <<file, used, overtaken, late>>
      BY <1>12 DEF PruneFail, TypeOK
    <2> QED
      BY <2>1, <2>2 DEF Stamps, UsesStamped, SnapsLag
  <1>13. CASE WalkEnd \/ Close \/ LoopStops
    BY <1>13, <1>a DEF WalkEnd, Close, LoopStops
  <1>14. CASE PassEnd \/ Crash
    BY <1>14, <1>b DEF PassEnd, Crash, Forget, Seen
  <1>15. CASE UNCHANGED vars
    BY <1>15, <1>a DEF vars
  <1> QED
    BY <1>1, <1>2, <1>3, <1>4, <1>5, <1>6, <1>7, <1>8, <1>9, <1>10, <1>11,
       <1>12, <1>13, <1>14, <1>15
    DEF Next, Read, Write, EvictStep

-----------------------------------------------------------------------------

IInv == TypeOK /\ Keyed /\ Whole /\ JunkAccounted /\ Pass /\ Stamps

LEMMA Invariance == Spec => []IInv
  <1>1. Init => IInv
    BY InitTypes, InitWhole, InitJunk, InitPass, InitStamps DEF IInv
  <1>2. IInv /\ [Next]_vars => IInv'
    BY NextTypes, NextWhole, NextJunk, NextPass, NextStamps DEF IInv, Whole
  <1> QED
    BY <1>1, <1>2, PTL DEF Spec

\* Every variable keeps its type; the size a pass believes in never drops
\* below zero.
THEOREM TypeCorrect == Spec => []TypeOK
  <1>1. IInv => TypeOK
    BY DEF IInv
  <1> QED
    BY <1>1, Invariance, PTL

\* Whatever fails and whenever the process ends, a product under its path is
\* whole.
THEOREM WholeHolds == Spec => []OnlyWholeProducts
  <1>1. IInv => OnlyWholeProducts
    BY DEF IInv, Whole
  <1> QED
    BY <1>1, Invariance, PTL

\* A Put that is over keeps no temporary, and those that lie about are of Puts
\* cut short by the end of their process, or of removals that failed.
THEOREM NoTempLeakHolds == Spec => []NoTempLeak
  <1>1. IInv => NoTempLeak
    BY DEF IInv, Whole, TempsGone, JunkAccounted, NoTempLeak
  <1> QED
    BY <1>1, Invariance, PTL

\* A pass that ends because it thinks the cache fits is right about the files
\* that were there when it began and that no error of its walk left out.
THEOREM FitsAfterPassHolds == Spec => FitsAfterPass
  <1>1. IInv /\ [Next]_vars =>
          [PassEnds /\ total <= MaxFiles =>
             Cardinality(Present \ unlisted) <= MaxFiles]_vars
    <2> SUFFICES ASSUME IInv, Next, PassEnds, total <= MaxFiles
                 PROVE  Cardinality(Present \ unlisted) <= MaxFiles
      BY DEF vars
    <2>1. PassEnd
      BY DEF PassEnds, Passing, Next, Read, Write, EvictStep, StatHit, StatMiss, ReadClock,
             Touch, OpenHit, OpenBuilt, CreateTemp, WriteOK, WriteFail, Rename, RenameFail,
             Discard, WritePanics, Open, TickerFires, BeginPass, Visit, NotListed, VisitFails,
             WalkEnd, Prune, PruneFail, Close, LoopStops, Crash, readerVars, writerVars,
             evictVars, procVars
    <2>2. todo = {}
      BY <2>1 DEF PassEnd, IInv, Pass, PassLocals
    <2>3. Present \ unlisted \subseteq Passed
      BY <2>2 DEF Passed
    <2>4. Cardinality(Present \ unlisted) <= Cardinality(Passed)
      BY <2>3, PassedFinite, FS_Subset
    <2>5. Cardinality(Passed) <= total
      BY DEF IInv, Pass, PassCounts, PassEnds, Passing
    <2>6. Cardinality(Present \ unlisted) \in Nat /\ Cardinality(Passed) \in Nat
      BY <2>3, PassedFinite, FS_Subset, FS_CardinalityType
    <2> QED
      BY <2>4, <2>5, <2>6, MaxFilesAssumption DEF IInv, TypeOK
  <1> QED
    BY <1>1, Invariance, PTL DEF Spec, FitsAfterPass

\* Of what its walk saw, a pass keeps no product that was last used before the
\* one it removes, unless that one was stamped after the walk read its mtime
\* or its last use was overtaken by an earlier one.
THEOREM LruHolds == Spec => LruUpToRaces
  <1> DEFINE Evicted(k) == epc = "prune" /\ file[k] # None /\ file'[k] = None
  <1>1. IInv /\ [Next]_vars =>
          [\A k \in Keys : Evicted(k) =>
             \A j \in Seen \ {k} : used[k] <= used[j] \/ k \in late \cup overtaken]_vars
    <2> SUFFICES ASSUME IInv, Next, NEW k \in Keys, Evicted(k),
                        NEW j \in Seen \ {k}, k \notin late, k \notin overtaken
                 PROVE  used[k] <= used[j]
      BY DEF vars
    <2> USE DEF IInv, TypeOK
    <2>1. ASSUME NEW i \in Keys, Prune(i) PROVE Prune(k)
      BY <2>1 DEF Prune
    <2>2. ASSUME NEW r \in Readers, Touch(r) PROVE FALSE
      <3>1. \/ file' = file
            \/ /\ file' = [file EXCEPT ![rkey[r]].time = now[r]]
               /\ file[rkey[r]] # None /\ rkey[r] \in Keys /\ now[r] \in 0 .. MaxTime
        BY <2>2 DEF Touch, Keyed
      <3> QED
        BY <3>1, FileType DEF File
    <2>3. ASSUME NEW w \in Writers, Rename(w) PROVE FALSE
      BY <2>3 DEF Rename, Keyed, Whole, WholeBeforeRename
    <2>4. Prune(k)
      <3>1. file' # file
        OBVIOUS
      <3> QED
        BY <2>1, <2>2, <2>3, <3>1
        DEF Next, Read, Write, EvictStep, StatHit, StatMiss, ReadClock,
            OpenHit, OpenBuilt, CreateTemp, WriteOK, WriteFail, RenameFail,
            Discard, WritePanics, Open, TickerFires, Visit, NotListed, VisitFails, WalkEnd,
            PruneFail, PassEnd, Close, LoopStops, Crash, readerVars,
            writerVars, evictVars, procVars
    <2>5. k \in Seen /\ snap[k] <= snap[j]
      BY <2>4 DEF Prune, Oldest, Seen
    <2>6. snap[j] <= used[j]
      BY DEF Stamps, SnapsLag
    <2>7. snap[k] = file[k].time /\ k \in Present
      BY <2>5 DEF Stamps, SnapsLag, Present
    <2>8. file[k].time = used[k]
      BY <2>7 DEF Stamps, UsesStamped
    <2>9. snap[k] \in Nat /\ snap[j] \in Nat /\ used[k] \in Nat /\ used[j] \in Nat
      <3>1. j \in Seen /\ j \in Keys
        BY DEF Seen
      <3> QED
        BY <2>5, <3>1, Times
    <2> QED
      BY <2>5, <2>6, <2>7, <2>8, <2>9
  <1> QED
    BY <1>1, Invariance, PTL DEF Spec, LruUpToRaces

=============================================================================
