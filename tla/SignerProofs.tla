----------------------------- MODULE SignerProofs -----------------------------
(***************************************************************************)
(* Proofs about Signer.tla, for any callers, any times and any lifetimes   *)
(* of tokens.  The invariant bounds where the clock can be relative to the *)
(* time stamps of whoever is under way, and says that the holder of the    *)
(* mutex who fetches still faces the token it found stale.                 *)
(***************************************************************************)
EXTENDS Signer, TLAPS

\* The cached token came within the limit, and its expiry is what get decides.
TokenDates ==
    token # None =>
        /\ token.got <= now
        /\ token.exp = IF token.dated THEN token.dies ELSE token.got + 2 * Margin

\* A signature under way was handed out with a margin left.
SignedInTime ==
    \A c \in Callers : pc[c] \in {"queue", "read"} =>
        /\ sig[c] # None
        /\ handed[c] <= now
        /\ sig[c].dated /\ LongLived(sig[c]) => handed[c] + Margin < sig[c].dies

\* Requests and builds under way are within their limits.
WithinLimits ==
    \A c \in Callers :
        /\ pc[c] = "fetch" => since[c] <= now /\ now <= since[c] + FetchLimit
        /\ pc[c] = "read" => since[c] <= now /\ now <= since[c] + BuildLimit

\* Nobody has replaced the token the fetching caller found stale.
StaleWhileFetching ==
    \A c \in Callers : pc[c] = "fetch" => ~Usable

IInv ==
    /\ TypeOK
    /\ TokenDates
    /\ SignedInTime
    /\ WithinLimits
    /\ StaleWhileFetching

-----------------------------------------------------------------------------

\* The token of an answer has its type, and a margin if it is long-lived.
LEMMA IssueShape ==
  ASSUME TypeOK, WithinLimits, NEW c \in Callers, pc[c] = "fetch",
         NEW life \in Lives, NEW dated \in BOOLEAN
  PROVE  LET t == Issue(c, life, dated)
         IN  /\ t \in Token
             /\ t # None
             /\ t.got = now
             /\ t.dated = dated
             /\ t.exp = IF dated THEN t.dies ELSE now + 2 * Margin
             /\ LongLived(t) => now + Margin < t.dies
  <1> DEFINE t == Issue(c, life, dated)
  <1>1. since[c] + life \in Nat /\ now \in Nat /\ since[c] \in Nat
    BY TimesAssumption DEF TypeOK
  <1>2. Expiry(since[c] + life, dated) \in Nat
    BY <1>1, TimesAssumption DEF Expiry
  <1>3. t \in Token
    BY <1>1, <1>2 DEF Issue, Token
  <1>4. t # None
    BY <1>3, NoneAssumption DEF Token
  <1>5. LongLived(t) => now + Margin < t.dies
    BY <1>1, TimesAssumption DEF Issue, LongLived, WithinLimits
  <1> QED
    BY <1>3, <1>4, <1>5 DEF Issue, Expiry

LEMMA InitIInv == Init => IInv
  <1> SUFFICES ASSUME Init PROVE IInv
    OBVIOUS
  <1>1. 0 \in 0 .. MaxTime
    BY TimesAssumption
  <1>2. TypeOK
    BY <1>1, Zenon DEF Init, TypeOK, Places
  <1>3. \A c \in Callers : pc[c] = "idle"
    BY DEF Init
  <1> QED
    BY <1>2, <1>3 DEF Init, IInv, TokenDates, SignedInTime, WithinLimits,
                      StaleWhileFetching

LEMMA NextIInv == IInv /\ [Next]_vars => IInv'
  <1> SUFFICES ASSUME IInv, [Next]_vars PROVE IInv'
    OBVIOUS
  <1> USE TimesAssumption, NoneAssumption
  <1> USE DEF IInv, Goto, Places
  <1>1. CASE Tick
    <2>1. TypeOK'
      BY <1>1 DEF Tick, TypeOK
    <2>2. TokenDates' /\ StaleWhileFetching'
      BY <1>1 DEF Tick, TypeOK, TokenDates, StaleWhileFetching, Usable, Token
    <2>3. SignedInTime'
      BY <1>1 DEF Tick, TypeOK, SignedInTime, LongLived
    <2>4. WithinLimits'
      BY <1>1 DEF Tick, TypeOK, WithinLimits
    <2> QED
      BY <2>1, <2>2, <2>3, <2>4
  <1>2. ASSUME NEW c \in Callers, Sign(c) \/ Lock(c) PROVE IInv'
    <2>1. TypeOK'
      BY <1>2 DEF Sign, Lock, TypeOK
    <2>2. TokenDates' /\ SignedInTime' /\ WithinLimits'
      BY <1>2 DEF Sign, Lock, TypeOK, TokenDates, SignedInTime, WithinLimits, LongLived
    <2>3. StaleWhileFetching'
      BY <1>2 DEF Sign, Lock, TypeOK, StaleWhileFetching, Usable
    <2> QED
      BY <2>1, <2>2, <2>3
  <1>3. ASSUME NEW c \in Callers, Cached(c) PROVE IInv'
    <2>1. token \in Token /\ token.exp > now + Margin
      BY <1>3 DEF Cached, Usable, TypeOK, Token
    <2>2. TypeOK'
      BY <1>3 DEF Cached, HandOut, TypeOK
    <2>3. SignedInTime'
      BY <1>3, <2>1
      DEF Cached, HandOut, TypeOK, SignedInTime, LongLived, TokenDates, Token
    <2>4. TokenDates' /\ WithinLimits'
      BY <1>3 DEF Cached, HandOut, TypeOK, TokenDates, WithinLimits
    <2>5. StaleWhileFetching'
      BY <1>3 DEF Cached, HandOut, TypeOK, StaleWhileFetching, Usable
    <2> QED
      BY <2>2, <2>3, <2>4, <2>5
  <1>4. ASSUME NEW c \in Callers, Request(c) PROVE IInv'
    <2>1. TypeOK'
      BY <1>4 DEF Request, TypeOK
    <2>2. TokenDates' /\ SignedInTime'
      BY <1>4 DEF Request, TypeOK, TokenDates, SignedInTime, LongLived
    <2>3. WithinLimits'
      BY <1>4 DEF Request, TypeOK, WithinLimits
    <2>4. StaleWhileFetching'
      BY <1>4 DEF Request, TypeOK, StaleWhileFetching, Usable
    <2> QED
      BY <2>1, <2>2, <2>3, <2>4
  <1>5. ASSUME NEW c \in Callers, Reply(c) PROVE IInv'
    <2>1. PICK life \in Lives, dated \in BOOLEAN :
            /\ token' = Issue(c, life, dated)
            /\ HandOut(c, Issue(c, life, dated))
      BY <1>5 DEF Reply
    <2> DEFINE t == Issue(c, life, dated)
    <2>2. /\ t \in Token
          /\ t # None
          /\ t.got = now
          /\ t.dated = dated
          /\ t.exp = IF dated THEN t.dies ELSE now + 2 * Margin
          /\ LongLived(t) => now + Margin < t.dies
      BY <1>5, IssueShape DEF Reply
    <2> HIDE DEF t
    <2>3. \A d \in Callers \ {c} : pc[d] \notin {"get", "fetch"}
      BY <1>5 DEF Reply, TypeOK
    <2>4. /\ token' = t /\ sig' = [sig EXCEPT ![c] = t]
          /\ handed' = [handed EXCEPT ![c] = now]
          /\ mu' = None /\ pc' = [pc EXCEPT ![c] = "queue"]
          /\ since' = [since EXCEPT ![c] = 0] /\ now' = now
      BY <1>5, <2>1 DEF Reply, HandOut, t
    <2>5. TypeOK'
      BY <2>2, <2>3, <2>4 DEF TypeOK
    <2>6. TokenDates'
      BY <2>2, <2>4 DEF TokenDates, TypeOK
    <2>7. SignedInTime'
      BY <2>2, <2>4 DEF SignedInTime, TypeOK, LongLived
    <2>8. WithinLimits' /\ StaleWhileFetching'
      BY <2>3, <2>4 DEF WithinLimits, StaleWhileFetching, TypeOK
    <2> QED
      BY <2>5, <2>6, <2>7, <2>8
  <1>6. ASSUME NEW c \in Callers, ReplyFails(c) \/ Drop(c) \/ EndRead(c)
        PROVE  IInv'
    <2> USE DEF ReplyFails, Drop, EndRead, Return
    <2>1. TypeOK'
      BY <1>6 DEF TypeOK
    <2>2. TokenDates' /\ SignedInTime' /\ WithinLimits'
      BY <1>6 DEF TypeOK, TokenDates, SignedInTime, WithinLimits, LongLived
    <2>3. StaleWhileFetching'
      BY <1>6 DEF TypeOK, StaleWhileFetching, Usable
    <2> QED
      BY <2>1, <2>2, <2>3
  <1>7. ASSUME NEW c \in Callers, StartRead(c) PROVE IInv'
    <2>1. TypeOK'
      BY <1>7 DEF StartRead, TypeOK
    <2>2. TokenDates' /\ SignedInTime'
      BY <1>7 DEF StartRead, TypeOK, TokenDates, SignedInTime, LongLived
    <2>3. WithinLimits'
      BY <1>7 DEF StartRead, TypeOK, WithinLimits
    <2>4. StaleWhileFetching'
      BY <1>7 DEF StartRead, TypeOK, StaleWhileFetching, Usable
    <2> QED
      BY <2>1, <2>2, <2>3, <2>4
  <1>8. CASE UNCHANGED vars
    BY <1>8 DEF vars, TypeOK, TokenDates, SignedInTime, WithinLimits,
                StaleWhileFetching, Usable, LongLived
  <1> QED
    BY <1>1, <1>2, <1>3, <1>4, <1>5, <1>6, <1>7, <1>8 DEF Next

LEMMA Invariance == Spec => []IInv
  BY InitIInv, NextIInv, PTL DEF Spec

-----------------------------------------------------------------------------

\* Every variable keeps its type, and the token is touched only under s.mu.
THEOREM TypeCorrect == Spec => []TypeOK
  <1>1. IInv => TypeOK
    BY DEF IInv
  <1> QED
    BY <1>1, Invariance, PTL

\* The refresh margin covers every build that starts soon after the signing.
THEOREM SurvivesHolds == Spec => []SurvivesPromptRead
  <1>1. IInv => SurvivesPromptRead
    <2> SUFFICES ASSUME IInv, NEW c \in Callers, pc[c] = "read", sig[c].dated,
                        LongLived(sig[c]), since[c] - handed[c] <= Margin - BuildLimit
                 PROVE  now < sig[c].dies
      BY DEF SurvivesPromptRead
    <2>1. sig[c] \in Token /\ sig[c].dies \in Nat
      BY DEF IInv, TypeOK, SignedInTime, Token
    <2>2. now <= since[c] + BuildLimit /\ handed[c] + Margin < sig[c].dies
      BY DEF IInv, SignedInTime, WithinLimits
    <2>3. now \in Int /\ since[c] \in Int /\ handed[c] \in Int
      BY DEF IInv, TypeOK
    <2> QED
      BY <2>1, <2>2, <2>3, TimesAssumption
  <1> QED
    BY <1>1, Invariance, PTL

\* However many searches find the token stale, it is replaced once a margin.
THEOREM OneFetchHolds == Spec => OneFetchPerMargin
  <1>1. IInv /\ [Next]_vars =>
          [\A c \in Callers : Reply(c) =>
             token = None \/ (Lasting(token) => now - token.got >= Margin)]_vars
    <2> SUFFICES ASSUME IInv, NEW c \in Callers, Reply(c), token # None, Lasting(token)
                 PROVE  now - token.got >= Margin
      BY DEF vars
    <2>1. token \in Token /\ now \in Int
      BY DEF IInv, TypeOK
    <2>2. token.exp - now <= Margin
      BY <2>1, TimesAssumption DEF IInv, StaleWhileFetching, Usable, Reply, Token
    <2>3. token.exp = IF token.dated THEN token.dies ELSE token.got + 2 * Margin
      BY DEF IInv, TokenDates
    <2> QED
      BY <2>1, <2>2, <2>3, TimesAssumption DEF Lasting, Token
  <1> QED
    BY <1>1, Invariance, PTL DEF Spec, OneFetchPerMargin

=============================================================================
