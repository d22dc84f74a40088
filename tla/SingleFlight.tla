---------------------------- MODULE SingleFlight ----------------------------
(***************************************************************************)
(* What Service.buildCached promises its callers, without saying how: for  *)
(* every key at most one caller works on the product at a time, a caller   *)
(* is served a product only while the store holds it, and whatever goes    *)
(* wrong with one caller's work is reported to that caller alone.          *)
(*                                                                         *)
(* BuildFlight.tla, the translation of the code, implements this module.   *)
(***************************************************************************)

CONSTANTS
    Callers,    \* the goroutines that ask for products
    Keys,       \* the cache keys of the products
    None        \* "no key"

VARIABLES
    want,       \* want[c]: the key caller c asks for, None between calls
    working,    \* working[c]: caller c is the one that produces want[c]
    gone,       \* gone[c]: the client of caller c has given up
    answer,     \* answer[c]: how the call of c ended, "none" before
    store       \* the keys whose product can be served

vars == <<want, working, gone, answer, store>>

Init ==
    /\ want = [c \in Callers |-> None]
    /\ working = [c \in Callers |-> FALSE]
    /\ gone = [c \in Callers |-> FALSE]
    /\ answer = [c \in Callers |-> "none"]
    /\ store \in SUBSET Keys

Ask(c, k) ==
    /\ want[c] = None
    /\ want' = [want EXCEPT ![c] = k]
    /\ gone' = [gone EXCEPT ![c] = FALSE]
    /\ answer' = [answer EXCEPT ![c] = "none"]
    /\ UNCHANGED <<working, store>>

Withdraw(c) ==
    /\ want[c] # None
    /\ gone' = [gone EXCEPT ![c] = TRUE]
    /\ UNCHANGED <<want, working, answer, store>>

\* The product is in the store: the call ends with it.
Serve(c) ==
    /\ want[c] \in store
    /\ ~working[c]
    /\ answer[c] = "none"
    /\ answer' = [answer EXCEPT ![c] = "hit"]
    /\ want' = [want EXCEPT ![c] = None]
    /\ UNCHANGED <<working, gone, store>>

\* A caller whose client is gone may stop waiting for somebody's work.
Leave(c) ==
    /\ want[c] # None
    /\ ~working[c]
    /\ gone[c]
    /\ answer[c] = "none"
    /\ answer' = [answer EXCEPT ![c] = "canceled"]
    /\ want' = [want EXCEPT ![c] = None]
    /\ UNCHANGED <<working, gone, store>>

\* A caller takes the work on a key on itself: nobody else may be at it.
Begin(c) ==
    /\ want[c] # None
    /\ answer[c] = "none"
    /\ \A d \in Callers : ~(working[d] /\ want[d] = want[c])
    /\ working' = [working EXCEPT ![c] = TRUE]
    /\ UNCHANGED <<want, gone, answer, store>>

Publish(c) ==
    /\ working[c]
    /\ answer[c] = "none"
    /\ answer' = [answer EXCEPT ![c] = "built"]
    /\ store' = store \cup {want[c]}
    /\ UNCHANGED <<want, working, gone>>

Break(c) ==
    /\ working[c]
    /\ answer[c] = "none"
    /\ \/ answer' = [answer EXCEPT ![c] = "failed"]
       \/ gone[c] /\ answer' = [answer EXCEPT ![c] = "canceled"]
    /\ UNCHANGED <<want, working, gone, store>>

\* The work is over; only now may another caller begin on the same key.
Finish(c) ==
    /\ working[c]
    /\ answer[c] # "none"
    /\ working' = [working EXCEPT ![c] = FALSE]
    /\ UNCHANGED <<want, gone, answer, store>>

Return(c) ==
    /\ want[c] # None
    /\ ~working[c]
    /\ answer[c] # "none"
    /\ want' = [want EXCEPT ![c] = None]
    /\ UNCHANGED <<working, gone, answer, store>>

Panic(c) ==
    /\ working[c]
    /\ answer[c] = "none"
    /\ answer' = [answer EXCEPT ![c] = "panic"]
    /\ want' = [want EXCEPT ![c] = None]
    /\ working' = [working EXCEPT ![c] = FALSE]
    /\ UNCHANGED <<gone, store>>

Forget(k) ==
    /\ k \in store
    /\ store' = store \ {k}
    /\ UNCHANGED <<want, working, gone, answer>>

Step(c) ==
    \/ \E k \in Keys : Ask(c, k)
    \/ Withdraw(c) \/ Serve(c) \/ Leave(c) \/ Begin(c) \/ Publish(c)
    \/ Break(c) \/ Finish(c) \/ Return(c) \/ Panic(c)

Next ==
    \/ \E c \in Callers : Step(c)
    \/ \E k \in Keys : Forget(k)

Spec == Init /\ [][Next]_vars

=============================================================================
