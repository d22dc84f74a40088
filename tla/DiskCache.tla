------------------------------ MODULE DiskCache ------------------------------
(***************************************************************************)
(* The disk cache of internal/cache: Get and Put as the steps they take on *)
(* the file system, the eviction pass with the snapshot it decides from,   *)
(* the loop that runs it, and the end and restart of the process.          *)
(*                                                                         *)
(* A reader is one request: Cache.Get (stat, read the clock, set the mtime *)
(* to it) and then the handler's os.Open of the path it got, or of the     *)
(* path of a product it built.  A writer is one Put.                       *)
(* There is one evictor: New runs a pass before it starts the loop.        *)
(*                                                                         *)
(* Every product counts one unit of the size cap.  Time is the order of    *)
(* the time stamps; it stops at MaxTime and later stamps tie.              *)
(* Calls of the file system whose errors the code ignores may fail:        *)
(* os.Chtimes, os.Remove, and WalkDir and Info at a file that is there.    *)
(***************************************************************************)
EXTENDS Naturals, FiniteSets

CONSTANTS
    Keys,        \* the products' keys
    Readers,     \* requests that look products up
    Writers,     \* builds that put products
    MaxFiles,    \* the size cap: Config.CacheMaxMB
    MaxTime,     \* bound of the clock
    MaxMishaps,  \* bound of how often the process ends or a temporary stays
    None         \* no file, no key

ASSUME KeysAssumption == IsFiniteSet(Keys)
ASSUME WritersAssumption == IsFiniteSet(Writers)
ASSUME MaxFilesAssumption == MaxFiles \in Nat \ {0}
ASSUME MaxTimeAssumption == MaxTime \in Nat
ASSUME MaxMishapsAssumption == MaxMishaps \in Nat
ASSUME NoneAssumption ==
    None \notin Keys \cup Nat \cup [time : Nat, whole : BOOLEAN]

VARIABLES
    file,       \* file[k]: the product under k's path, with its mtime
    temp,       \* temp[w]: the .tmp- file of writer w
    junk,       \* how many .tmp- files no Put will remove any more
    stuck,      \* how many of them a Put failed to remove (history)
    clock,      \* the next time stamp
    rpc, rkey,  \* the readers: place, key
    now,        \* now[r]: what time.Now told reader r
    wpc, wkey,  \* the writers: place, key
    epc,        \* the evictor: place
    todo,       \* what the walk of the pass has still to visit
    snap,       \* snap[k]: the mtime the walk saw, until the file is dealt with
    total,      \* the pass's idea of the size of the cache
    unlisted,   \* the keys the present pass may not know of: put since it
                \* began, or left out by an error of its walk (history)
    used,       \* used[k]: the latest stamp that a hit or a Put gave k (history)
    overtaken,  \* the keys whose stamp was then set back by a use that had
                \* read the clock before (history)
    late,       \* the keys stamped since the walk read their mtime (history)
    serving,    \* New has returned
    closed,     \* Close was called
    crashes

readerVars == <<rpc, rkey, now>>
writerVars == <<wpc, wkey, temp>>
evictVars == <<epc, todo, snap, total, unlisted>>
leftVars == <<junk, stuck>>
useVars == <<used, overtaken, late>>
procVars == <<serving, closed, crashes>>
vars == <<file, temp, junk, stuck, clock, rpc, rkey, now, wpc, wkey, epc, todo,
          snap, total, unlisted, used, overtaken, late,
          serving, closed, crashes>>

File == [time : 0 .. MaxTime, whole : BOOLEAN]

Present == {k \in Keys : file[k] # None}

Temps == {w \in Writers : temp[w] # None}

Seen == {k \in Keys : snap[k] # None}

\* The directory may hold the products of earlier processes.
Init ==
    /\ file \in [Keys -> {None, [time |-> 0, whole |-> TRUE]}]
    /\ temp = [w \in Writers |-> None]
    /\ junk = 0
    /\ stuck = 0
    /\ clock = 0
    /\ rpc = [r \in Readers |-> "idle"]
    /\ rkey = [r \in Readers |-> None]
    /\ now = [r \in Readers |-> 0]
    /\ wpc = [w \in Writers |-> "idle"]
    /\ wkey = [w \in Writers |-> None]
    /\ epc = "off"
    /\ todo = {}
    /\ snap = [k \in Keys |-> None]
    /\ total = 0
    /\ unlisted = {}
    /\ used = [k \in Keys |-> 0]
    /\ overtaken = {}
    /\ late = {}
    /\ serving = FALSE
    /\ closed = FALSE
    /\ crashes = 0

\* time.Now, and the mtime the system gives a file that is written.
Tick == clock' = IF clock < MaxTime THEN clock + 1 ELSE clock

Passing == epc \in {"walk", "prune"}

\* The file of k gets the stamp t, which may be older than the one it has.
Stamped(k, t) ==
    /\ used' = [used EXCEPT ![k] = IF t < @ THEN @ ELSE t]
    /\ overtaken' = IF t < used[k] THEN overtaken \cup {k} ELSE overtaken \ {k}
    /\ late' = IF snap[k] # None THEN late \cup {k} ELSE late

-----------------------------------------------------------------------------
(* Get, and the handler that opens what it returned.                       *)

StatHit(r, k) ==
    /\ serving
    /\ rpc[r] = "idle"
    /\ file[k] # None
    /\ rpc' = [rpc EXCEPT ![r] = "clock"]
    /\ rkey' = [rkey EXCEPT ![r] = k]
    /\ UNCHANGED <<file, now, leftVars, useVars, clock, writerVars, evictVars, procVars>>

StatMiss(r, k) ==
    /\ serving
    /\ rpc[r] = "idle"
    /\ file[k] = None
    /\ UNCHANGED <<file, leftVars, useVars, clock,
                   readerVars, writerVars, evictVars, procVars>>

\* Get reads the clock, ...
ReadClock(r) ==
    /\ rpc[r] = "clock"
    /\ rpc' = [rpc EXCEPT ![r] = "touch"]
    /\ now' = [now EXCEPT ![r] = clock]
    /\ Tick
    /\ UNCHANGED <<file, leftVars, useVars, rkey, writerVars, evictVars, procVars>>

\* Faulty variant: the file keeps the mtime of its Put.
TouchForgets(r) ==
    /\ rpc[r] = "touch"
    /\ rpc' = [rpc EXCEPT ![r] = "open"]
    /\ now' = [now EXCEPT ![r] = 0]
    /\ IF file[rkey[r]] # None THEN Stamped(rkey[r], now[r]) ELSE UNCHANGED useVars
    /\ UNCHANGED <<file, leftVars, clock, rkey, writerVars, evictVars, procVars>>

\* ... and os.Chtimes sets the mtime to what it read.  Its error is ignored:
\* the file may be gone.
Touch(r) ==
    /\ rpc[r] = "touch"
    /\ rpc' = [rpc EXCEPT ![r] = "open"]
    /\ now' = [now EXCEPT ![r] = 0]
    /\ \/ /\ file[rkey[r]] # None
          /\ file' = [file EXCEPT ![rkey[r]].time = now[r]]
          /\ Stamped(rkey[r], now[r])
       \/ UNCHANGED <<file, useVars>>
    /\ UNCHANGED <<leftVars, clock, rkey, writerVars, evictVars, procVars>>

\* serveResult opens the path: the product, or the 500 of a product that an
\* eviction pass has removed since the stat.
OpenHit(r) ==
    /\ rpc[r] = "open"
    /\ rpc' = [rpc EXCEPT ![r] = "idle"]
    /\ rkey' = [rkey EXCEPT ![r] = None]
    /\ UNCHANGED <<file, now, leftVars, useVars, clock, writerVars, evictVars, procVars>>

\* A handler has the path of a product it built itself, without a Get.
OpenBuilt(r, k) ==
    /\ serving
    /\ rpc[r] = "idle"
    /\ rpc' = [rpc EXCEPT ![r] = "open"]
    /\ rkey' = [rkey EXCEPT ![r] = k]
    /\ UNCHANGED <<file, now, leftVars, useVars, clock, writerVars, evictVars, procVars>>

-----------------------------------------------------------------------------
(* Put.                                                                    *)

\* The mtime of the temporary is that of the last write.
CreateTemp(w, k) ==
    /\ serving
    /\ wpc[w] = "idle"
    /\ wpc' = [wpc EXCEPT ![w] = "write"]
    /\ wkey' = [wkey EXCEPT ![w] = k]
    /\ temp' = [temp EXCEPT ![w] = [time |-> 0, whole |-> FALSE]]
    /\ UNCHANGED <<file, leftVars, useVars, clock, readerVars, evictVars, procVars>>

\* The write callback succeeds and the file closes without an error.
WriteOK(w) ==
    /\ wpc[w] = "write"
    /\ wpc' = [wpc EXCEPT ![w] = "rename"]
    /\ temp' = [temp EXCEPT ![w] = [time |-> clock, whole |-> TRUE]]
    /\ Tick
    /\ UNCHANGED <<file, leftVars, useVars, wkey, readerVars, evictVars, procVars>>

\* Faulty variant: the error of the write or the close is dropped.
WriteFailIgnored(w) ==
    /\ wpc[w] = "write"
    /\ wpc' = [wpc EXCEPT ![w] = "rename"]
    /\ UNCHANGED <<file, temp, leftVars, useVars, clock, wkey,
                   readerVars, evictVars, procVars>>

\* It fails, perhaps after part of the content, or the close does.
WriteFail(w) ==
    /\ wpc[w] = "write"
    /\ wpc' = [wpc EXCEPT ![w] = "discard"]
    /\ UNCHANGED <<file, temp, leftVars, useVars, clock, wkey,
                   readerVars, evictVars, procVars>>

\* The temporary takes the product's place, whole, in one step.
Rename(w) ==
    /\ wpc[w] = "rename"
    /\ wpc' = [wpc EXCEPT ![w] = "idle"]
    /\ file' = [file EXCEPT ![wkey[w]] = temp[w]]
    /\ temp' = [temp EXCEPT ![w] = None]
    /\ wkey' = [wkey EXCEPT ![w] = None]
    /\ unlisted' = IF Passing THEN unlisted \cup {wkey[w]} ELSE {}
    /\ Stamped(wkey[w], temp[w].time)
    /\ UNCHANGED <<leftVars, clock, epc, todo, snap, total, readerVars, procVars>>

\* Faulty variant: a failed rename returns without removing the temporary.
RenameFailLeaves(w) ==
    /\ wpc[w] = "rename"
    /\ wpc' = [wpc EXCEPT ![w] = "idle"]
    /\ wkey' = [wkey EXCEPT ![w] = None]
    /\ UNCHANGED <<file, temp, leftVars, useVars, clock, readerVars, evictVars, procVars>>

RenameFail(w) ==
    /\ wpc[w] = "rename"
    /\ wpc' = [wpc EXCEPT ![w] = "discard"]
    /\ UNCHANGED <<file, temp, leftVars, useVars, clock, wkey,
                   readerVars, evictVars, procVars>>

\* The deferred os.Remove of the temporary.  Nobody looks at its error, and
\* nobody removes the file later.
RemoveTemp(w) ==
    /\ temp' = [temp EXCEPT ![w] = None]
    /\ \/ UNCHANGED <<junk, stuck>>
       \/ /\ crashes + stuck < MaxMishaps
          /\ stuck' = stuck + 1
          /\ junk' = junk + 1

\* It is run by a Put that failed, ...
Discard(w) ==
    /\ wpc[w] = "discard"
    /\ wpc' = [wpc EXCEPT ![w] = "idle"]
    /\ wkey' = [wkey EXCEPT ![w] = None]
    /\ RemoveTemp(w)
    /\ UNCHANGED <<file, clock, useVars, readerVars, evictVars, procVars>>

\* ... and on the way out when the write callback panics.
WritePanics(w) ==
    /\ wpc[w] = "write"
    /\ wpc' = [wpc EXCEPT ![w] = "idle"]
    /\ wkey' = [wkey EXCEPT ![w] = None]
    /\ RemoveTemp(w)
    /\ UNCHANGED <<file, clock, useVars, readerVars, evictVars, procVars>>

-----------------------------------------------------------------------------
(* The eviction pass.                                                      *)

BeginPass ==
    /\ epc' = "walk"
    /\ todo' = Keys
    /\ UNCHANGED <<snap, total, unlisted>>

\* The locals of a pass end with it.
Forget ==
    /\ todo' = {}
    /\ snap' = [k \in Keys |-> None]
    /\ total' = 0
    /\ unlisted' = {}
    /\ late' = {}
    /\ UNCHANGED <<used, overtaken>>

\* New: the pass runs before New returns.
Open ==
    /\ epc = "off"
    /\ BeginPass
    /\ UNCHANGED <<file, leftVars, useVars, clock, readerVars, writerVars, procVars>>

\* The loop's ticker fires.  After Close the select may still choose it.
TickerFires ==
    /\ epc = "idle"
    /\ BeginPass
    /\ UNCHANGED <<file, leftVars, useVars, clock, readerVars, writerVars, procVars>>

\* WalkDir reaches a file: its mtime and size are read now and kept.
Visit(k) ==
    /\ epc = "walk"
    /\ k \in todo
    /\ file[k] # None
    /\ todo' = todo \ {k}
    /\ snap' = [snap EXCEPT ![k] = file[k].time]
    /\ total' = total + 1
    /\ UNCHANGED <<file, leftVars, useVars, clock, epc, unlisted,
                   readerVars, writerVars, procVars>>

\* There is none, or it came after its directory was listed.
NotListed(k) ==
    /\ epc = "walk"
    /\ k \in todo
    /\ file[k] = None \/ k \in unlisted
    /\ todo' = todo \ {k}
    /\ UNCHANGED <<file, leftVars, useVars, clock, epc, snap, total, unlisted,
                   readerVars, writerVars, procVars>>

\* Its directory cannot be read, or Info fails: the pass goes on without it.
VisitFails(k) ==
    /\ epc = "walk"
    /\ k \in todo
    /\ file[k] # None
    /\ todo' = todo \ {k}
    /\ unlisted' = unlisted \cup {k}
    /\ UNCHANGED <<file, leftVars, useVars, clock, epc, snap, total,
                   readerVars, writerVars, procVars>>

WalkEnd ==
    /\ epc = "walk"
    /\ todo = {}
    /\ total > MaxFiles
    /\ epc' = "prune"
    /\ UNCHANGED <<file, leftVars, useVars, clock, todo, snap, total, unlisted,
                   readerVars, writerVars, procVars>>

\* The next entry of the list sorted by the mtimes the walk saw.
Oldest(k) ==
    /\ snap[k] # None
    /\ \A j \in Seen : snap[k] <= snap[j]

Prune(k) ==
    /\ epc = "prune"
    /\ total > MaxFiles
    /\ Oldest(k)
    /\ file[k] # None
    /\ file' = [file EXCEPT ![k] = None]
    /\ snap' = [snap EXCEPT ![k] = None]
    /\ total' = total - 1
    /\ used' = [used EXCEPT ![k] = 0]
    /\ overtaken' = overtaken \ {k}
    /\ late' = late \ {k}
    /\ UNCHANGED <<leftVars, clock, epc, todo, unlisted,
                   readerVars, writerVars, procVars>>

\* Faulty variant: a file that could not be removed is taken off the total.
PruneFailCounted(k) ==
    /\ epc = "prune"
    /\ total > MaxFiles
    /\ Oldest(k)
    /\ snap' = [snap EXCEPT ![k] = None]
    /\ total' = total - 1
    /\ UNCHANGED <<file, leftVars, useVars, clock, epc, todo, unlisted,
                   readerVars, writerVars, procVars>>

\* os.Remove fails: the file still counts.
PruneFail(k) ==
    /\ epc = "prune"
    /\ total > MaxFiles
    /\ Oldest(k)
    /\ snap' = [snap EXCEPT ![k] = None]
    /\ UNCHANGED <<file, leftVars, useVars, clock, epc, todo, total, unlisted,
                   readerVars, writerVars, procVars>>

\* The pass returns: everything fitted, enough was removed, or the list of
\* files is at its end.  After the first pass New returns.
PassEnd ==
    /\ \/ epc = "walk" /\ todo = {} /\ total <= MaxFiles
       \/ epc = "prune" /\ total <= MaxFiles
       \/ epc = "prune" /\ Seen = {}
    /\ epc' = "idle"
    /\ serving' = TRUE
    /\ Forget
    /\ UNCHANGED <<file, leftVars, clock, closed, crashes, readerVars, writerVars>>

-----------------------------------------------------------------------------
(* Close, and the end of the process.                                      *)

Close ==
    /\ serving
    /\ ~closed
    /\ closed' = TRUE
    /\ UNCHANGED <<file, leftVars, useVars, clock, serving, crashes,
                   readerVars, writerVars, evictVars>>

\* Faulty variant: the loop ends after a pass.
LoopStopsUnasked ==
    /\ epc = "idle"
    /\ epc' = "stopped"
    /\ UNCHANGED <<file, leftVars, useVars, clock, todo, snap, total, unlisted, procVars,
                   readerVars, writerVars>>

LoopStops ==
    /\ closed
    /\ epc = "idle"
    /\ epc' = "stopped"
    /\ UNCHANGED <<file, leftVars, useVars, clock, todo, snap, total, unlisted, procVars,
                   readerVars, writerVars>>

\* The process ends at any moment; the files stay, the .tmp- files as well.
Crash ==
    /\ epc # "off"
    /\ crashes + stuck < MaxMishaps
    /\ crashes' = crashes + 1
    /\ junk' = junk + Cardinality(Temps)
    /\ temp' = [w \in Writers |-> None]
    /\ wpc' = [w \in Writers |-> "idle"]
    /\ rpc' = [r \in Readers |-> "idle"]
    /\ rkey' = [r \in Readers |-> None]
    /\ now' = [r \in Readers |-> 0]
    /\ wkey' = [w \in Writers |-> None]
    /\ epc' = "off"
    /\ Forget
    /\ serving' = FALSE
    /\ closed' = FALSE
    /\ UNCHANGED <<file, stuck, clock>>

-----------------------------------------------------------------------------
Read(r) ==
    \/ \E k \in Keys : StatHit(r, k) \/ StatMiss(r, k) \/ OpenBuilt(r, k)
    \/ ReadClock(r) \/ Touch(r)
    \/ OpenHit(r)

Write(w) ==
    \/ \E k \in Keys : CreateTemp(w, k)
    \/ WriteOK(w) \/ WriteFail(w)
    \/ Rename(w) \/ RenameFail(w)
    \/ Discard(w) \/ WritePanics(w)

EvictStep ==
    \/ TickerFires
    \/ \E k \in Keys :
        \/ Visit(k) \/ NotListed(k) \/ VisitFails(k)
        \/ Prune(k) \/ PruneFail(k)
    \/ WalkEnd
    \/ PassEnd

Next ==
    \/ \E r \in Readers : Read(r)
    \/ \E w \in Writers : Write(w)
    \/ Open
    \/ EvictStep
    \/ Close
    \/ LoopStops
    \/ Crash

Spec == Init /\ [][Next]_vars

\* The evictor's goroutine runs, the process is started again, and removing a
\* file does not fail for ever.
Fairness ==
    /\ WF_vars(Open)
    /\ WF_vars(EvictStep)
    /\ SF_vars(\E k \in Keys : Prune(k))

FairSpec == Spec /\ Fairness

-----------------------------------------------------------------------------
(* Properties.                                                             *)

\* Every variable has its type.
TypeOK ==
    /\ file \in [Keys -> File \cup {None}]
    /\ temp \in [Writers -> File \cup {None}]
    /\ junk \in Nat
    /\ stuck \in 0 .. MaxMishaps
    /\ clock \in 0 .. MaxTime
    /\ rpc \in [Readers -> {"idle", "clock", "touch", "open"}]
    /\ rkey \in [Readers -> Keys \cup {None}]
    /\ now \in [Readers -> 0 .. MaxTime]
    /\ wpc \in [Writers -> {"idle", "write", "rename", "discard"}]
    /\ wkey \in [Writers -> Keys \cup {None}]
    /\ epc \in {"off", "walk", "prune", "idle", "stopped"}
    /\ todo \in SUBSET Keys
    /\ snap \in [Keys -> 0 .. MaxTime \cup {None}]
    /\ total \in Nat
    /\ unlisted \in SUBSET Keys
    /\ used \in [Keys -> 0 .. MaxTime]
    /\ overtaken \in SUBSET Keys
    /\ late \in SUBSET Keys
    /\ serving \in BOOLEAN
    /\ closed \in BOOLEAN
    /\ crashes \in 0 .. MaxMishaps

\* What stands under a product's path is a whole product, whatever fails and
\* whenever the process ends (Put: "builds a product into the cache
\* atomically"), also when two builds of a key overlap.
OnlyWholeProducts == \A k \in Present : file[k].whole

\* Whatever fails in it, a Put that is over keeps no temporary; what lies
\* about are those of Puts that the end of the process cut short, and those
\* whose own removal failed.
NoTempLeak ==
    /\ \A w \in Writers : wpc[w] = "idle" => temp[w] = None
    /\ junk <= crashes * Cardinality(Writers) + stuck

\* A pass that ends because it thinks the cache fits is right about all that
\* it could see: the products that were there when it began, still are and
\* were not skipped for an error, fit the cap.  Files that come, are touched
\* or cannot be removed meanwhile do not mislead it.
PassEnds == Passing /\ epc' = "idle"

FitsAfterPass ==
    [][PassEnds /\ total <= MaxFiles =>
         Cardinality(Present \ unlisted) <= MaxFiles]_vars

\* "A hit refreshes the file's mtime so eviction is least-recently-used": of
\* what its walk saw, a pass keeps no product that was last used before the
\* one it removes, but for two races.  The removed product was stamped after
\* the walk had read its mtime; or its last use was overtaken by one that
\* had read the clock before, and set the mtime back.
LruUpToRaces ==
    [][\A k \in Keys : epc = "prune" /\ file[k] # None /\ file'[k] = None =>
         \A j \in Seen \ {k} : used[k] <= used[j] \/ k \in late \cup overtaken]_vars

\* When no more products arrive and no walk skips one any more, the loop
\* brings the cache under its cap and it stays there.
EventuallyFits ==
    /\ <>[](~closed)
    /\ <>[][\A w \in Writers : ~Rename(w)]_vars
    /\ <>[][\A k \in Keys : ~VisitFails(k)]_vars
    => <>[](Cardinality(Present) <= MaxFiles)

=============================================================================
