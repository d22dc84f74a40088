------------------------------- MODULE Service -------------------------------
(***************************************************************************)
(* One process of satfetch: buildCached of satfetch.go over the disk cache *)
(* of internal/cache, and the handler that opens what it was answered.     *)
(*                                                                         *)
(* BuildFlight.tla and DiskCache.tla are composed on the product files:    *)
(* what the former calls `cached` is the set of keys whose file the latter *)
(* has.  Every caller is a reader of the cache when it looks its key up    *)
(* and a writer when its build reaches Put.  The end of the process takes  *)
(* the flights, the slots and the calls with it and leaves the files.      *)
(***************************************************************************)
EXTENDS Naturals, FiniteSets

CONSTANTS
    Callers, Keys, MaxBuilds, PanicKeys, Closed,    \* see BuildFlight
    MaxFiles, MaxTime, MaxMishaps, None             \* see DiskCache

ASSUME CallersAssumption == IsFiniteSet(Callers)
ASSUME KeysAssumption == IsFiniteSet(Keys)
ASSUME MaxBuildsAssumption == MaxBuilds \in Nat \ {0}
ASSUME PanicKeysAssumption == PanicKeys \subseteq Keys
ASSUME BoundsAssumption ==
    MaxFiles \in Nat \ {0} /\ MaxTime \in Nat /\ MaxMishaps \in Nat
ASSUME NoneAssumption ==
    None \notin Callers \cup Keys \cup Nat \cup [time : Nat, whole : BOOLEAN]
ASSUME ClosedAssumption == Closed \notin Callers \cup {None}

VARIABLES
    pc, key, ctxDone, ch, outcome, flight, sem,     \* see BuildFlight
    file, temp, junk, stuck, clock, rpc, rkey, now, wpc, wkey,
    epc, todo, snap, total, unlisted, used, overtaken, late,
    serving, closed, crashes,                       \* see DiskCache
    there       \* there[c]: c need not build.  Its product was in the cache
                \* when it called, or appeared while it waited, and has not
                \* been evicted since (history)

flightVars == <<pc, key, ctxDone, ch, outcome, flight, sem>>
diskVars == <<file, temp, junk, stuck, clock, rpc, rkey, now, wpc, wkey,
              epc, todo, snap, total, unlisted, used, overtaken, late,
              serving, closed, crashes>>
vars == <<flightVars, diskVars, there>>

D == INSTANCE DiskCache WITH Readers <- Callers, Writers <- Callers

F == INSTANCE BuildFlight WITH cached <- D!Present

Init ==
    /\ D!Init
    /\ pc = [c \in Callers |-> "idle"]
    /\ key = [c \in Callers |-> None]
    /\ ctxDone = [c \in Callers |-> FALSE]
    /\ ch = [c \in Callers |-> None]
    /\ outcome = [c \in Callers |-> "none"]
    /\ flight = [k \in Keys |-> None]
    /\ sem = 0
    /\ there = [c \in Callers |-> FALSE]

-----------------------------------------------------------------------------
(* Calls and lookups.  The conjunct of the cache is the first: it decides  *)
(* what becomes of the files.                                              *)

\* A goroutine makes its next call once its handler is done with the last.
Call(c, k) ==
    /\ serving
    /\ rpc[c] = "idle"
    /\ UNCHANGED diskVars
    /\ F!Call(c, k)
    /\ there' = [there EXCEPT ![c] = k \in D!Present]

\* The client goes away.  Only the two selects of the call look at it, so
\* that is where it matters.
Disconnect(c) ==
    /\ pc[c] \in {"wait", "sem"}
    /\ UNCHANGED <<diskVars, there>>
    /\ F!Disconnect(c)

\* Get finds the file; the caller has its answer before the file is touched.
Hit(c) ==
    /\ pc[c] = "get"
    /\ D!StatHit(c, key[c])
    /\ F!CacheHit(c)
    /\ UNCHANGED there

Miss(c) ==
    /\ pc[c] = "get"
    /\ D!StatMiss(c, key[c])
    /\ F!CacheMiss(c)
    /\ UNCHANGED there

\* The rest of Get, and the handler's os.Open of the path.
TouchHit(c) == (D!ReadClock(c) \/ D!Touch(c)) /\ UNCHANGED <<flightVars, there>>
OpenPath(c) == D!OpenHit(c) /\ UNCHANGED <<flightVars, there>>

-----------------------------------------------------------------------------
(* Flights and builds.                                                     *)

\* Steps that touch no file.
Coordinate(c) ==
    /\ UNCHANGED <<diskVars, there>>
    /\ \/ F!JoinFlight(c) \/ F!StartFlight(c)
       \/ F!WaitClosed(c) \/ F!WaitCanceled(c)
       \/ F!AcquireSlot(c) \/ F!SlotCanceled(c) \/ F!ReleaseSlot(c)
       \/ F!DeleteFlight(c)

\* The product is rendered and the build calls Put, or streams into it.
BeginPut(c) ==
    /\ pc[c] = "build"
    /\ D!CreateTemp(c, key[c])
    /\ UNCHANGED <<flightVars, there>>

InPut(c) ==
    /\ D!WriteOK(c) \/ D!WriteFail(c) \/ D!RenameFail(c)
    /\ UNCHANGED <<flightVars, there>>

\* The rename publishes the product: whoever waits for it need not build.
Publish(c) ==
    /\ D!Rename(c)
    /\ F!BuildOK(c)
    /\ there' = [d \in Callers |->
                    there[d] \/ (pc[d] = "wait" /\ key[d] = key[c])]

\* The build fails before Put, or in it.
Fail(c) ==
    /\ \/ wpc[c] = "idle" /\ UNCHANGED diskVars
       \/ D!Discard(c)
    /\ F!BuildFail(c)
    /\ UNCHANGED there

\* The build panics before Put, or in its write callback.
Panic(c) ==
    /\ \/ wpc[c] = "idle" /\ UNCHANGED diskVars
       \/ D!WritePanics(c)
    /\ F!BuildPanic(c)
    /\ UNCHANGED there

\* buildCached returns.  The handler opens the path of a built product too.
Return(c) ==
    /\ IF outcome[c] = "built" THEN D!OpenBuilt(c, key[c]) ELSE UNCHANGED diskVars
    /\ F!CloseFlight(c)
    /\ UNCHANGED there

-----------------------------------------------------------------------------
(* The eviction loop and the life of the process.                          *)

Evict(k) ==
    /\ D!Prune(k)
    /\ F!Evict(k)
    /\ there' = [c \in Callers |-> there[c] /\ key[c] # k]

Housekeep ==
    /\ \/ D!Open \/ D!TickerFires \/ D!WalkEnd \/ D!PassEnd
       \/ \E k \in Keys : D!Visit(k) \/ D!NotListed(k) \/ D!VisitFails(k) \/ D!PruneFail(k)
       \/ D!Close \/ D!LoopStops
    /\ UNCHANGED <<flightVars, there>>

\* The memory of the process is gone; New makes it afresh.
Crash ==
    /\ D!Crash
    /\ pc' = [c \in Callers |-> "idle"]
    /\ key' = [c \in Callers |-> None]
    /\ ctxDone' = [c \in Callers |-> FALSE]
    /\ ch' = [c \in Callers |-> None]
    /\ outcome' = [c \in Callers |-> "none"]
    /\ flight' = [k \in Keys |-> None]
    /\ sem' = 0
    /\ there' = [c \in Callers |-> FALSE]

Next ==
    \/ \E c \in Callers, k \in Keys : Call(c, k)
    \/ \E c \in Callers :
        \/ Disconnect(c)
        \/ Hit(c) \/ Miss(c) \/ TouchHit(c) \/ OpenPath(c)
        \/ Coordinate(c)
        \/ BeginPut(c) \/ InPut(c) \/ Publish(c) \/ Fail(c) \/ Panic(c)
        \/ Return(c)
    \/ \E k \in Keys : Evict(k)
    \/ Housekeep
    \/ Crash

Spec == Init /\ [][Next]_vars

-----------------------------------------------------------------------------
(* Properties.                                                             *)

\* A caller whose product was in the cache when it called, or was published
\* while it waited for it, never builds unless the product is evicted first:
\* buildCached looks into the cache again after every wait.  The only builds
\* of a product that is there are those of callers that missed it before it
\* appeared and take s.mu after its flight is over.
NoNeedlessBuild == \A c \in Callers : there[c] => pc[c] \notin F!Owning

\* No more temporaries are in the making than there are build slots: Put's
\* are inside the build, on every path of its failures.  Those that no Put
\* will remove any more, and no pass counts or removes, are at most as many
\* for every process that ended, and one for every removal that failed.
TempsWithinSlots ==
    /\ Cardinality(D!Temps) <= MaxBuilds
    /\ junk <= crashes * MaxBuilds + stuck

=============================================================================
