----------------------------- MODULE BuildFlight -----------------------------
(***************************************************************************)
(* Service.buildCached of satfetch.go, the build semaphore its build       *)
(* callbacks take first, and the cache it answers from.                    *)
(*                                                                         *)
(* Every caller is one goroutine (an HTTP handler or a library call).  A   *)
(* caller looks the key up in the cache, and on a miss takes s.mu to find  *)
(* the key's flight: it either waits on the channel of the caller that     *)
(* builds, or makes the channel, registers it and builds itself.  A build  *)
(* first takes a slot of s.sem, releases it when it ends, and only then is *)
(* the flight removed and its channel closed, in two steps.                *)
(*                                                                         *)
(* A channel is named by the caller that made it: at any moment a caller   *)
(* has made at most one open channel for its key.                          *)
(***************************************************************************)
EXTENDS Naturals, FiniteSets

CONSTANTS
    Callers,      \* the goroutines inside the service
    Keys,         \* the cache keys they ask for
    MaxBuilds,    \* capacity of s.sem: Config.Concurrency
    PanicKeys,    \* the keys whose builds may panic
    None,         \* no key, no flight, no channel
    Closed        \* a channel that was closed

ASSUME CallersAssumption == IsFiniteSet(Callers)
ASSUME MaxBuildsAssumption == MaxBuilds \in Nat \ {0}
ASSUME PanicKeysAssumption == PanicKeys \subseteq Keys
ASSUME NoneAssumption == None \notin Callers \cup Keys
ASSUME ClosedAssumption == Closed \notin Callers \cup {None}

VARIABLES
    pc,         \* where caller c is; "idle" between calls
    key,        \* the key of its present or last call
    ctxDone,    \* its context is done: the client has disconnected
    ch,         \* the channel it waits on
    outcome,    \* how its call ends, "none" before
    flight,     \* s.flight: for every key the maker of its channel
    sem,        \* how many slots of s.sem are taken
    cached      \* the keys whose product the disk cache holds

callerVars == <<pc, key, ctxDone, ch, outcome>>
vars == <<pc, key, ctxDone, ch, outcome, flight, sem, cached>>

\* Places of a caller that has registered a flight it has not yet removed.
Owning == {"sem", "build", "release", "unflight"}

\* Places of a caller that holds a slot of the semaphore.
Holding == {"build", "release"}

Places == {"idle", "get", "lock", "wait", "close"} \cup Owning

Outcomes == {"none", "hit", "built", "failed", "canceled", "panic"}

Init ==
    /\ pc = [c \in Callers |-> "idle"]
    /\ key = [c \in Callers |-> None]
    /\ ctxDone = [c \in Callers |-> FALSE]
    /\ ch = [c \in Callers |-> None]
    /\ outcome = [c \in Callers |-> "none"]
    /\ flight = [k \in Keys |-> None]
    /\ sem = 0
    /\ cached \in SUBSET Keys     \* what earlier processes left

-----------------------------------------------------------------------------
(* Callers and their clients.                                              *)

Goto(c, p) == pc' = [pc EXCEPT ![c] = p]

Record(c, o) == outcome' = [outcome EXCEPT ![c] = o]

Call(c, k) ==
    /\ pc[c] = "idle"
    /\ Goto(c, "get")
    /\ key' = [key EXCEPT ![c] = k]
    /\ ctxDone' = [ctxDone EXCEPT ![c] = FALSE]
    /\ Record(c, "none")
    /\ UNCHANGED <<ch, flight, sem, cached>>

\* The client goes away at any moment of its call.
Disconnect(c) ==
    /\ pc[c] # "idle"
    /\ ~ctxDone[c]
    /\ ctxDone' = [ctxDone EXCEPT ![c] = TRUE]
    /\ UNCHANGED <<pc, key, ch, outcome, flight, sem, cached>>

-----------------------------------------------------------------------------
(* The loop of buildCached.                                                *)

\* cache.Get finds the product: the call returns its path.
CacheHit(c) ==
    /\ pc[c] = "get"
    /\ key[c] \in cached
    /\ Goto(c, "idle")
    /\ Record(c, "hit")
    /\ UNCHANGED <<key, ctxDone, ch, flight, sem, cached>>

CacheMiss(c) ==
    /\ pc[c] = "get"
    /\ key[c] \notin cached
    /\ Goto(c, "lock")
    /\ UNCHANGED <<key, ctxDone, ch, outcome, flight, sem, cached>>

\* Under s.mu the key has a flight: wait on its channel.
JoinFlight(c) ==
    /\ pc[c] = "lock"
    /\ flight[key[c]] # None
    /\ ch' = [ch EXCEPT ![c] = flight[key[c]]]
    /\ Goto(c, "wait")
    /\ UNCHANGED <<key, ctxDone, outcome, flight, sem, cached>>

\* Faulty variant: the lock is given up between the test and the registration.
StartFlightUnchecked(c) ==
    /\ pc[c] = "lock"
    /\ flight' = [flight EXCEPT ![key[c]] = c]
    /\ Goto(c, "sem")
    /\ UNCHANGED <<key, ctxDone, ch, outcome, sem, cached>>

\* Under s.mu the key has no flight: register one and build.
StartFlight(c) ==
    /\ pc[c] = "lock"
    /\ flight[key[c]] = None
    /\ flight' = [flight EXCEPT ![key[c]] = c]
    /\ Goto(c, "sem")
    /\ UNCHANGED <<key, ctxDone, ch, outcome, sem, cached>>

\* Faulty variant: the waiter takes over the builder's failure.
WaitClosedFails(c) ==
    /\ pc[c] = "wait"
    /\ ch[c] = Closed
    /\ ch' = [ch EXCEPT ![c] = None]
    /\ Goto(c, "idle")
    /\ Record(c, "failed")
    /\ UNCHANGED <<key, ctxDone, flight, sem, cached>>

\* Faulty variant: a woken waiter goes on without another look.
WaitClosedLocks(c) ==
    /\ pc[c] = "wait"
    /\ ch[c] = Closed
    /\ ch' = [ch EXCEPT ![c] = None]
    /\ Goto(c, "lock")
    /\ UNCHANGED <<key, ctxDone, outcome, flight, sem, cached>>

\* case <-ch: look into the cache again, whatever became of the build.
WaitClosed(c) ==
    /\ pc[c] = "wait"
    /\ ch[c] = Closed
    /\ ch' = [ch EXCEPT ![c] = None]
    /\ Goto(c, "get")
    /\ UNCHANGED <<key, ctxDone, outcome, flight, sem, cached>>

\* Faulty variant: a waiter that leaves removes the flight it waited for.
WaitCanceledRemoves(c) ==
    /\ pc[c] = "wait"
    /\ ctxDone[c]
    /\ ch' = [ch EXCEPT ![c] = None]
    /\ flight' = [flight EXCEPT ![key[c]] = None]
    /\ Goto(c, "idle")
    /\ Record(c, "canceled")
    /\ UNCHANGED <<key, ctxDone, sem, cached>>

\* case <-ctx.Done(): chosen at random when the channel is closed too.
WaitCanceled(c) ==
    /\ pc[c] = "wait"
    /\ ctxDone[c]
    /\ ch' = [ch EXCEPT ![c] = None]
    /\ Goto(c, "idle")
    /\ Record(c, "canceled")
    /\ UNCHANGED <<key, ctxDone, flight, sem, cached>>

-----------------------------------------------------------------------------
(* The build callback: the select on s.sem, the product, the deferred      *)
(* release.                                                                *)

\* Faulty variant: the semaphore is counted and not waited for.
AcquireSlotAlways(c) ==
    /\ pc[c] = "sem"
    /\ sem' = sem + 1
    /\ Goto(c, "build")
    /\ UNCHANGED <<key, ctxDone, ch, outcome, flight, cached>>

AcquireSlot(c) ==
    /\ pc[c] = "sem"
    /\ sem < MaxBuilds
    /\ sem' = sem + 1
    /\ Goto(c, "build")
    /\ UNCHANGED <<key, ctxDone, ch, outcome, flight, cached>>

\* Faulty variant: the early return skips the end of the flight.
SlotCanceledReturns(c) ==
    /\ pc[c] = "sem"
    /\ ctxDone[c]
    /\ Goto(c, "idle")
    /\ Record(c, "canceled")
    /\ UNCHANGED <<key, ctxDone, ch, flight, sem, cached>>

\* The client goes away while the build queues: it fails without a slot.
SlotCanceled(c) ==
    /\ pc[c] = "sem"
    /\ ctxDone[c]
    /\ Goto(c, "unflight")
    /\ Record(c, "canceled")
    /\ UNCHANGED <<key, ctxDone, ch, flight, sem, cached>>

\* cache.Put renames the finished product into place.
BuildOK(c) ==
    /\ pc[c] = "build"
    /\ cached' = cached \cup {key[c]}
    /\ Goto(c, "release")
    /\ Record(c, "built")
    /\ UNCHANGED <<key, ctxDone, ch, flight, sem>>

\* Faulty variant: the slot is released by hand, and not on this path.
BuildFailKeepsSlot(c) ==
    /\ pc[c] = "build"
    /\ Goto(c, "unflight")
    /\ Record(c, "failed")
    /\ UNCHANGED <<key, ctxDone, ch, flight, sem, cached>>

\* An upstream error, the build timeout, a gone client or a failing Put.
BuildFail(c) ==
    /\ pc[c] = "build"
    /\ Goto(c, "release")
    /\ Record(c, "failed")
    /\ UNCHANGED <<key, ctxDone, ch, flight, sem, cached>>

\* Faulty variant: the release of the slot is not deferred.
BuildPanicKeepsSlot(c) ==
    /\ key[c] \in PanicKeys
    /\ pc[c] = "build"
    /\ Goto(c, "idle")
    /\ Record(c, "panic")
    /\ UNCHANGED <<key, ctxDone, ch, flight, sem, cached>>

\* A panic runs the deferred release of the slot and unwinds through
\* buildCached, whose cleanup is not deferred, to the handler's recover.
BuildPanic(c) ==
    /\ key[c] \in PanicKeys
    /\ pc[c] = "build"
    /\ sem' = sem - 1
    /\ Goto(c, "idle")
    /\ Record(c, "panic")
    /\ UNCHANGED <<key, ctxDone, ch, flight, cached>>

\* defer func() { <-s.sem }()
ReleaseSlot(c) ==
    /\ pc[c] = "release"
    /\ sem' = sem - 1
    /\ Goto(c, "unflight")
    /\ UNCHANGED <<key, ctxDone, ch, outcome, flight, cached>>

-----------------------------------------------------------------------------
(* The end of a flight.                                                    *)

\* delete(s.flight, key) under s.mu.
DeleteFlight(c) ==
    /\ pc[c] = "unflight"
    /\ flight' = [flight EXCEPT ![key[c]] = None]
    /\ Goto(c, "close")
    /\ UNCHANGED <<key, ctxDone, ch, outcome, sem, cached>>

Waiting(d, c) == pc[d] = "wait" /\ ch[d] = c /\ key[d] = key[c]

\* Faulty variant: the channel is dropped with the flight and never closed.
CloseFlightForgotten(c) ==
    /\ pc[c] = "close"
    /\ Goto(c, "idle")
    /\ UNCHANGED <<key, ctxDone, ch, outcome, flight, sem, cached>>

\* close(ch) wakes every caller that waits on it; the call returns.
CloseFlight(c) ==
    /\ pc[c] = "close"
    /\ ch' = [d \in Callers |-> IF Waiting(d, c) THEN Closed ELSE ch[d]]
    /\ Goto(c, "idle")
    /\ UNCHANGED <<key, ctxDone, outcome, flight, sem, cached>>

\* The eviction loop of the cache removes a product at any moment.
Evict(k) ==
    /\ k \in cached
    /\ cached' = cached \ {k}
    /\ UNCHANGED <<callerVars, flight, sem>>

-----------------------------------------------------------------------------
\* The steps the code takes on its own once a call is made.
Run(c) ==
    \/ CacheHit(c) \/ CacheMiss(c)
    \/ JoinFlight(c) \/ StartFlight(c)
    \/ WaitClosed(c) \/ WaitCanceled(c)
    \/ AcquireSlot(c) \/ SlotCanceled(c)
    \/ BuildOK(c) \/ BuildFail(c) \/ ReleaseSlot(c)
    \/ DeleteFlight(c) \/ CloseFlight(c)

Next ==
    \/ \E c \in Callers, k \in Keys : Call(c, k)
    \/ \E c \in Callers : Disconnect(c)
    \/ \E c \in Callers : Run(c)
    \/ \E c \in Callers : BuildPanic(c)
    \/ \E k \in Keys : Evict(k)

Spec == Init /\ [][Next]_vars

\* Goroutines run, builds end (each has its own timeout), and the senders
\* blocked on s.sem are served first in, first out, so that none is passed
\* over forever.
Fairness == \A c \in Callers : WF_vars(Run(c)) /\ SF_vars(AcquireSlot(c))

FairSpec == Spec /\ Fairness

-----------------------------------------------------------------------------
(* Properties.                                                             *)

\* Every variable has its type; a waiting caller has a channel and a caller
\* inside a call has a key.
TypeOK ==
    /\ pc \in [Callers -> Places]
    /\ key \in [Callers -> Keys \cup {None}]
    /\ ctxDone \in [Callers -> BOOLEAN]
    /\ ch \in [Callers -> Callers \cup {None, Closed}]
    /\ outcome \in [Callers -> Outcomes]
    /\ flight \in [Keys -> Callers \cup {None}]
    /\ sem \in 0 .. MaxBuilds
    /\ cached \in SUBSET Keys
    /\ \A c \in Callers : pc[c] # "idle" => key[c] \in Keys

\* buildCached runs one build per key at a time: no two callers of the same
\* key are ever both between registering a flight and removing it.
AtMostOneBuild ==
    \A c, d \in Callers :
        /\ pc[c] \in Owning
        /\ pc[d] \in Owning
        /\ key[c] = key[d]
        => c = d

\* The semaphore counts exactly the builds that run: no failure, cancellation
\* or panic leaks a slot or gives one back that was not taken.
Holders == {c \in Callers : pc[c] \in Holding}

SlotsCounted == sem = Cardinality(Holders)

\* A caller waits on a channel somebody can still close: it is the registered
\* flight of the caller's key, or its maker stands right before close(ch), or
\* it is closed already.  Otherwise the wake-up would be lost.
NoLostWakeup ==
    \A c \in Callers : pc[c] = "wait" =>
        \/ ch[c] = Closed
        \/ ch[c] = flight[key[c]]
        \/ /\ ch[c] \in Callers
           /\ pc[ch[c]] = "close"
           /\ key[ch[c]] = key[c]

\* A registered flight has a caller that will remove it.  A panic in a build
\* breaks this for the key of that build, where the entry stays and nobody is
\* left to close its channel, and for no other key.
FlightsHaveBuilder ==
    \A k \in Keys \ PanicKeys : flight[k] # None =>
        /\ pc[flight[k]] \in Owning
        /\ key[flight[k]] = k

\* A waiter never inherits the end of somebody else's build: a call ends
\* "failed" or "built" only by a build of its own, "canceled" only when its
\* own client is gone.
OutcomeIsOwn ==
    [][\A c \in Callers : outcome'[c] # outcome[c] =>
        /\ outcome'[c] \in {"failed", "built", "panic"} => flight[key[c]] = c
        /\ outcome'[c] = "canceled" => ctxDone[c]
        /\ outcome'[c] = "hit" => key[c] \in cached]_vars

\* Every call for a product whose builds do not panic returns, also while the
\* builds of other products do: the slot comes back and only the key is stuck.
\* The exception is that products keep being lost: each time the caller is
\* woken its product must be missing again, because a build failed or the
\* cache evicted it, for the caller to go on waiting.
LoseProduct ==
    \/ \E c \in Callers : BuildFail(c) \/ SlotCanceled(c)
    \/ \E k \in Keys : Evict(k)

CallsReturn ==
    \A c \in Callers :
        []<>(pc[c] = "idle" \/ key[c] \in PanicKeys) \/ []<><<LoseProduct>>_vars

\* buildCached implements the single-flight promise of SingleFlight.tla.
wantBar == [c \in Callers |-> IF pc[c] = "idle" THEN None ELSE key[c]]

workingBar == [c \in Callers |-> pc[c] \in Owning]

Promise == INSTANCE SingleFlight WITH
    want <- wantBar,
    working <- workingBar,
    gone <- ctxDone,
    answer <- outcome,
    store <- cached

KeepsPromise == Promise!Spec

\* "serves key/ext from the cache, or runs build" (satfetch.go:382): every call
\* comes to an end or its client disconnects.
Answered == \A c \in Callers : pc[c] = "wait" ~> (pc[c] # "wait" \/ ctxDone[c])

=============================================================================
