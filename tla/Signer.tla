-------------------------------- MODULE Signer --------------------------------
(***************************************************************************)
(* The token cache of internal/pcsign and the life of a signature after it *)
(* was handed out.  A search for an orthophoto item signs its asset URLs;  *)
(* the URL is read only when the build has got its slot, which may take    *)
(* any time, and the build itself is bounded by its timeout.               *)
(*                                                                         *)
(* Time is counted in units.  A token request and a build take at most     *)
(* FetchLimit and BuildLimit of them; waiting for the slot has no limit.   *)
(* A caller signs the one URL it will read; other assets are alike.        *)
(***************************************************************************)
EXTENDS Integers

CONSTANTS
    Callers,      \* requests for orthophotos of a signed catalog
    Margin,       \* refreshMargin
    FetchLimit,   \* fetchTimeout
    BuildLimit,   \* Options.BuildTimeout
    Lives,        \* for how long the endpoint issues tokens
    MaxTime,      \* bound of the clock
    None

ASSUME TimesAssumption ==
    /\ Margin \in Nat \ {0}
    /\ FetchLimit \in Nat
    /\ BuildLimit \in Nat
    /\ BuildLimit <= Margin
    /\ Lives \subseteq Nat
    /\ MaxTime \in Nat

ASSUME NoneAssumption ==
    /\ None \notin Callers
    /\ None \notin [born : Nat, got : Nat, dies : Nat, exp : Nat, dated : BOOLEAN]

VARIABLES
    now,      \* the clock
    mu,       \* who holds s.mu
    token,    \* s.token with s.exp, and what the endpoint knows of it
    pc,       \* pc[c]: where caller c is
    sig,      \* sig[c]: the token c's URL was signed with
    handed,   \* handed[c]: when it was
    since     \* since[c]: when c's token request or build began

vars == <<now, mu, token, pc, sig, handed, since>>

\* A token is issued at born, arrives at got and dies at dies; exp is the
\* expiry the cache keeps, the endpoint's own when the answer was dated.
Token == [born : Nat, got : Nat, dies : Nat, exp : Nat, dated : BOOLEAN]

Places == {"idle", "lock", "get", "fetch", "queue", "read"}

Init ==
    /\ now = 0
    /\ mu = None
    /\ token = None
    /\ pc = [c \in Callers |-> "idle"]
    /\ sig = [c \in Callers |-> None]
    /\ handed = [c \in Callers |-> 0]
    /\ since = [c \in Callers |-> 0]

Goto(c, p) == pc' = [pc EXCEPT ![c] = p]

\* The request of c is over, and its signed URL with it.
Return(c) ==
    /\ Goto(c, "idle")
    /\ sig' = [sig EXCEPT ![c] = None]
    /\ handed' = [handed EXCEPT ![c] = 0]
    /\ since' = [since EXCEPT ![c] = 0]

\* The limits on requests and builds are kept by not letting time pass.
Tick ==
    /\ now < MaxTime
    /\ \A c \in Callers :
         /\ pc[c] = "fetch" => now < since[c] + FetchLimit
         /\ pc[c] = "read" => now < since[c] + BuildLimit
    /\ now' = now + 1
    /\ UNCHANGED <<mu, token, pc, sig, handed, since>>

-----------------------------------------------------------------------------
(* Sign, get and fetch.                                                    *)

\* Sign is called with a URL of the blob store.
Sign(c) ==
    /\ pc[c] = "idle"
    /\ Goto(c, "lock")
    /\ UNCHANGED <<now, mu, token, sig, handed, since>>

Lock(c) ==
    /\ pc[c] = "lock"
    /\ mu = None
    /\ mu' = c
    /\ Goto(c, "get")
    /\ UNCHANGED <<now, token, sig, handed, since>>

\* Faulty variant: a token is good until it expires.
UsableToTheEnd == token # None /\ token.exp > now

\* s.token != "" && time.Until(s.exp) > refreshMargin
Usable == token # None /\ token.exp - now > Margin

\* get returns t: its URL is signed and the search goes on.
HandOut(c, t) ==
    /\ sig' = [sig EXCEPT ![c] = t]
    /\ handed' = [handed EXCEPT ![c] = now]
    /\ mu' = None
    /\ Goto(c, "queue")

Cached(c) ==
    /\ pc[c] = "get"
    /\ Usable
    /\ HandOut(c, token)
    /\ UNCHANGED <<now, token, since>>

\* The request is sent with the mutex held.
Request(c) ==
    /\ pc[c] = "get"
    /\ ~Usable
    /\ since' = [since EXCEPT ![c] = now]
    /\ Goto(c, "fetch")
    /\ UNCHANGED <<now, mu, token, sig, handed>>

\* Faulty variant: an undated token is kept for the margin only.
ExpiryAtMargin(dies, dated) == IF dated THEN dies ELSE now + Margin

\* An answer without an expiry that parses gets a short life.
Expiry(dies, dated) == IF dated THEN dies ELSE now + 2 * Margin

\* The endpoint issues the token when it gets the request.
Issue(c, life, dated) ==
    [born |-> since[c], got |-> now, dies |-> since[c] + life,
     exp |-> Expiry(since[c] + life, dated), dated |-> dated]

Reply(c) ==
    /\ pc[c] = "fetch"
    /\ \E life \in Lives, dated \in BOOLEAN :
         /\ token' = Issue(c, life, dated)
         /\ HandOut(c, Issue(c, life, dated))
    /\ since' = [since EXCEPT ![c] = 0]
    /\ UNCHANGED now

\* Faulty variant: the error path leaves the mutex locked.
ReplyFailsLocked(c) ==
    /\ pc[c] = "fetch"
    /\ Return(c)
    /\ UNCHANGED <<now, mu, token>>

\* The request fails, or its answer carries no token: the search fails, and
\* an old token stays.
ReplyFails(c) ==
    /\ pc[c] = "fetch"
    /\ mu' = None
    /\ Return(c)
    /\ UNCHANGED <<now, token>>

-----------------------------------------------------------------------------
(* What becomes of the signed URL.                                         *)

\* The build has its slot and opens the asset.
StartRead(c) ==
    /\ pc[c] = "queue"
    /\ since' = [since EXCEPT ![c] = now]
    /\ Goto(c, "read")
    /\ UNCHANGED <<now, mu, token, sig, handed>>

\* The product is cached, another caller builds it, or the client has gone.
Drop(c) ==
    /\ pc[c] = "queue"
    /\ Return(c)
    /\ UNCHANGED <<now, mu, token>>

EndRead(c) ==
    /\ pc[c] = "read"
    /\ Return(c)
    /\ UNCHANGED <<now, mu, token>>

Next ==
    \/ Tick
    \/ \E c \in Callers :
         \/ Sign(c) \/ Lock(c) \/ Cached(c) \/ Request(c)
         \/ Reply(c) \/ ReplyFails(c)
         \/ StartRead(c) \/ Drop(c) \/ EndRead(c)

Spec == Init /\ [][Next]_vars

\* A caller inside get goes on, its request ends at the latest by the client's
\* timeout, and sync.Mutex starves nobody.
Fairness ==
    \A c \in Callers :
        /\ SF_vars(Lock(c))
        /\ WF_vars(Cached(c) \/ Request(c))
        /\ WF_vars(Reply(c) \/ ReplyFails(c))

FairSpec == Spec /\ Fairness

-----------------------------------------------------------------------------
(* Properties.                                                             *)

\* Every variable has its type, and whoever looks at the token has the mutex.
TypeOK ==
    /\ now \in 0 .. MaxTime
    /\ mu \in Callers \cup {None}
    /\ token \in Token \cup {None}
    /\ pc \in [Callers -> Places]
    /\ sig \in [Callers -> Token \cup {None}]
    /\ handed \in [Callers -> 0 .. MaxTime]
    /\ since \in [Callers -> 0 .. MaxTime]
    /\ \A c \in Callers : pc[c] \in {"get", "fetch"} => mu = c

\* The endpoint issues such tokens that the margin means something.
LongLived(t) == t.dies - t.born > Margin + FetchLimit

\* A signature survives a build that gets its slot soon: when the read starts
\* so early that margin is left for the whole build, the token is alive to the
\* end of it.
SurvivesPromptRead ==
    \A c \in Callers :
        /\ pc[c] = "read"
        /\ sig[c].dated
        /\ LongLived(sig[c])
        /\ since[c] - handed[c] <= Margin - BuildLimit
        => now < sig[c].dies

\* A burst of searches costs one token request: a token that lives twice the
\* margin, or has no date, is not replaced before a margin has passed, however
\* many callers found the old one stale at once.
Lasting(t) == ~t.dated \/ t.dies - t.got >= 2 * Margin

OneFetchPerMargin ==
    [][\A c \in Callers : Reply(c) =>
         token = None \/ (Lasting(token) => now - token.got >= Margin)]_vars

\* Every Sign comes to an end, also when requests fail.
SignReturns == \A c \in Callers : pc[c] = "lock" ~> pc[c] \in {"queue", "idle"}

=============================================================================
