--------------------------- MODULE RequestKeyProofs ---------------------------
(***************************************************************************)
(* Proofs about ProductRequest.tla and RequestKey.tla, for any finite set  *)
(* of requests, any queries and any configured sources.                    *)
(*                                                                         *)
(* Of the first: the status a request gets is tied to its cause at the     *)
(* moment it is answered, and the counters are followed through the one    *)
(* step between the answer and the endpoint's count.  Of the second, whose *)
(* steps are all steps of the first: what is taken of a query is its       *)
(* number or a default within the limits, a product on the shelf is one    *)
(* that some sound query leads to, and the fields of a key give back what  *)
(* the product has to share with the request.                              *)
(***************************************************************************)
EXTENDS RequestKey, FiniteSetTheorems, TLAPS

Uncovered == {"noscene", "outside"}

\* What is known of a request at each stage.
Sound(r) ==
    /\ stage[r] \in Passing \cup {"serve"} => status[r] = 0 /\ cause[r] = "none"
    /\ stage[r] = "fail" =>
         /\ status[r] = 0
         /\ cause[r] \notin {"none", "panic"}
         /\ cause[r] = "coverage" <=> class[r] \in Uncovered
    /\ stage[r] \in {"count", "end"} =>
         /\ status[r] # 0
         /\ status[r] = 404 <=> cause[r] = "coverage"
    /\ stage[r] = "count" => cause[r] # "panic"

AllSound == \A r \in Requests : Sound(r)

\* The statuses of requests that came to serveResult.
Received == Served \cup {500}

TotalReceived ==
    total[200] + total[206] + total[304] + total[412] + total[416] + total[500]

\* Requests counted as a hit or a build and not yet by the endpoint.
Between == {r \in Requests : stage[r] = "count" /\ status[r] \in Received}

Balanced == hits + builds = TotalReceived + Cardinality(Between)

IInv == TypeOK /\ AllSound /\ TotalsMatch /\ Balanced

-----------------------------------------------------------------------------

LEMMA CountedFinite == \A s : IsFiniteSet(Counted(s)) /\ Cardinality(Counted(s)) \in Nat
  BY RequestsAssumption, FS_Subset, FS_CardinalityType DEF Counted

LEMMA BetweenFinite == IsFiniteSet(Between) /\ Cardinality(Between) \in Nat
  BY RequestsAssumption, FS_Subset, FS_CardinalityType DEF Between

\* Every way to fail has a class, and the classes answered with 404 are those
\* of a place that is not covered.
LEMMA FailureShape ==
  ASSUME NEW r \in Requests, stage[r] \in Passing, NEW f \in Failures(r)
  PROVE  /\ f.cause \in Causes \ {"none", "panic"}
         /\ f.class \in Classes
         /\ f.cause = "coverage" <=> f.class \in Uncovered
  <1> USE DEF Failure, Causes, Classes, Uncovered
  <1>1. CASE stage[r] \in {"params", "normalize", "aoi", "render", "put"}
    BY <1>1 DEF Failures, ParamsFailures, NormalizeFailures, AoiFailures
  <1>2. CASE stage[r] = "resolve"
    BY <1>2 DEF Failures, ResolveFailures, Canceled
  <1>3. CASE stage[r] \in {"lookup", "slot"}
    BY <1>3 DEF Failures, Canceled
  <1>4. CASE stage[r] \in {"open", "read"}
    BY <1>4 DEF Failures, FetchFailures
  <1>5. CASE stage[r] = "window"
    BY <1>5 DEF Failures, WindowFailures
  <1>6. CASE stage[r] \in {"fetch", "stream"}
    BY <1>6 DEF Failures, TileFailures, StreamFailures, FetchFailures
  <1> QED
    BY <1>1, <1>2, <1>3, <1>4, <1>5, <1>6 DEF Passing, BuildStages

LEMMA StatusShape ==
  ASSUME NEW cl
  PROVE  /\ StatusOf(cl) \in {400, 404, 502, 504}
         /\ StatusOf(cl) = 404 <=> cl \in Uncovered
  BY DEF StatusOf, Uncovered

LEMMA FollowingShape ==
  ASSUME NEW k, NEW s \in Passing
  PROVE  Following(k, s) \in Passing \cup {"serve"}
  BY DEF Following, Passing, BuildStages

-----------------------------------------------------------------------------

LEMMA InitIInv == Init => IInv
  <1> SUFFICES ASSUME Init PROVE IInv
    OBVIOUS
  <1>1. TypeOK
    BY Zenon DEF Init, TypeOK, Places, Passing, Causes, Classes
  <1>2. AllSound
    BY DEF Init, AllSound, Sound, Passing, BuildStages
  <1>3. TotalsMatch
    <2>1. \A s \in Statuses : Counted(s) = {}
      BY DEF Init, Counted
    <2> QED
      BY <2>1, FS_EmptySet DEF Init, TotalsMatch
  <1>4. Balanced
    <2>1. Between = {}
      BY DEF Init, Between
    <2> QED
      BY <2>1, FS_EmptySet DEF Init, Balanced, TotalReceived, Statuses, Served
  <1> QED
    BY <1>1, <1>2, <1>3, <1>4 DEF IInv

\* A step that leaves the counters and what they count alone.
LEMMA CountersKept ==
  ASSUME TotalsMatch, Balanced, UNCHANGED metricVars,
         \A s \in Statuses : Counted(s)' = Counted(s),
         Between' = Between
  PROVE  TotalsMatch' /\ Balanced'
  BY DEF TotalsMatch, Balanced, TotalReceived, metricVars

LEMMA NextIInv == IInv /\ [Next]_vars => IInv'
  <1> SUFFICES ASSUME IInv, [Next]_vars PROVE IInv'
    OBVIOUS
  <1> USE DEF IInv, Goto, Answer
  <1>1. ASSUME NEW r \in Requests, Disconnect(r) PROVE IInv'
    <2>1. TypeOK' /\ AllSound'
      BY <1>1 DEF Disconnect, metricVars, TypeOK, AllSound, Sound
    <2>2. (\A s \in Statuses : Counted(s)' = Counted(s)) /\ Between' = Between
      BY <1>1 DEF Disconnect, Counted, Between
    <2> QED
      BY <1>1, <2>1, <2>2, CountersKept DEF Disconnect
  <1>2. ASSUME NEW r \in Requests, Pass(r) \/ Hit(r) PROVE IInv'
    <2>1. stage[r] \in Passing
      BY <1>2 DEF Pass, Hit, Passing
    <2>2. stage' = [stage EXCEPT ![r] = stage'[r]] /\ stage'[r] \in Passing \cup {"serve"}
      BY <1>2, <2>1, FollowingShape DEF Pass, Hit, TypeOK
    <2>3. TypeOK'
      BY <1>2, <2>2 DEF Pass, Hit, metricVars, TypeOK, Places
    <2>4. AllSound'
      BY <1>2, <2>1, <2>2 DEF Pass, Hit, AllSound, Sound, TypeOK, Passing, BuildStages
    <2>5. (\A s \in Statuses : Counted(s)' = Counted(s)) /\ Between' = Between
      BY <1>2, <2>1, <2>2
      DEF Pass, Hit, Counted, Between, TypeOK, Passing, BuildStages
    <2> QED
      BY <1>2, <2>3, <2>4, <2>5, CountersKept DEF Pass, Hit
  <1>3. ASSUME NEW r \in Requests, Fail(r) PROVE IInv'
    <2>1. PICK f \in Failures(r) :
            /\ cause' = [cause EXCEPT ![r] = f.cause]
            /\ class' = [class EXCEPT ![r] = f.class]
      BY <1>3 DEF Fail
    <2>2. /\ f.cause \in Causes \ {"none", "panic"}
          /\ f.class \in Classes
          /\ f.cause = "coverage" <=> f.class \in Uncovered
      BY <1>3, FailureShape DEF Fail
    <2>3. TypeOK'
      BY <1>3, <2>1, <2>2 DEF Fail, metricVars, TypeOK, Places
    <2>4. AllSound'
      BY <1>3, <2>1, <2>2 DEF Fail, AllSound, Sound, TypeOK, Passing, BuildStages
    <2>5. (\A s \in Statuses : Counted(s)' = Counted(s)) /\ Between' = Between
      BY <1>3, <2>1 DEF Fail, Counted, Between, TypeOK, Passing, BuildStages
    <2> QED
      BY <1>3, <2>3, <2>4, <2>5, CountersKept DEF Fail
  <1>4. ASSUME NEW r \in Requests, Panic(r) PROVE IInv'
    <2>1. TypeOK'
      BY <1>4 DEF Panic, metricVars, TypeOK, Places, Causes, Statuses
    <2>2. AllSound'
      BY <1>4 DEF Panic, AllSound, Sound, TypeOK, Passing, BuildStages
    <2>3. (\A s \in Statuses : Counted(s)' = Counted(s)) /\ Between' = Between
      BY <1>4 DEF Panic, Counted, Between, TypeOK, BuildStages
    <2> QED
      BY <1>4, <2>1, <2>2, <2>3, CountersKept DEF Panic
  <1>5. ASSUME NEW r \in Requests, Serve(r) PROVE IInv'
    <2>1. PICK s \in Received : /\ status' = [status EXCEPT ![r] = s]
                                /\ cause'[r] \in {"none", "disk"}
                                /\ cause' = [cause EXCEPT ![r] = cause'[r]]
      <3>1. cause[r] = "none"
        BY <1>5 DEF Serve, AllSound, Sound
      <3> QED
        BY <1>5, <3>1 DEF Serve, Received, TypeOK
    <2>2. s \in Statuses \ {0, 404}
      BY DEF Received, Served, Statuses
    <2>3. hits' \in Nat /\ builds' \in Nat /\ hits' + builds' = hits + builds + 1
      BY <1>5 DEF Serve, TypeOK
    <2>4. TypeOK'
      BY <1>5, <2>1, <2>2, <2>3 DEF Serve, TypeOK, Places, Causes
    <2>5. AllSound'
      BY <1>5, <2>1, <2>2 DEF Serve, AllSound, Sound, TypeOK, Passing, BuildStages
    <2>6. \A t \in Statuses : Counted(t)' = Counted(t)
      BY <1>5, <2>1 DEF Serve, Counted, TypeOK
    <2>7. TotalsMatch'
      BY <1>5, <2>6 DEF Serve, TotalsMatch
    <2>8. r \notin Between /\ Between' = Between \cup {r}
      BY <1>5, <2>1 DEF Serve, Between, TypeOK
    <2>9. Cardinality(Between') = Cardinality(Between) + 1
      BY <2>8, BetweenFinite, FS_AddElement
    <2>10. TotalReceived' = TotalReceived /\ TotalReceived \in Nat
      BY <1>5 DEF Serve, TotalReceived, TypeOK, Statuses, Served
    <2>11. Balanced'
      BY <2>3, <2>9, <2>10, BetweenFinite DEF Balanced
    <2> QED
      BY <2>4, <2>5, <2>7, <2>11
  <1>6. ASSUME NEW r \in Requests, WriteError(r) PROVE IInv'
    <2>1. /\ StatusOf(class[r]) \in {400, 404, 502, 504}
          /\ StatusOf(class[r]) = 404 <=> class[r] \in Uncovered
      BY StatusShape
    <2>2. TypeOK'
      BY <1>6, <2>1 DEF WriteError, TypeOK, Places, Statuses
    <2>3. AllSound'
      BY <1>6, <2>1 DEF WriteError, AllSound, Sound, TypeOK, Passing, BuildStages
    <2>4. (\A s \in Statuses : Counted(s)' = Counted(s)) /\ Between' = Between
      BY <1>6, <2>1 DEF WriteError, Counted, Between, Received, Served, TypeOK
    <2>5. TotalsMatch' /\ Balanced'
      BY <1>6, <2>4 DEF WriteError, TotalsMatch, Balanced, TotalReceived
    <2> QED
      BY <2>2, <2>3, <2>5
  <1>7. ASSUME NEW r \in Requests, Count(r) PROVE IInv'
    <2> DEFINE s == status[r]
    <2>1. s \in Statuses /\ cause[r] # "panic"
      BY <1>7 DEF Count, AllSound, Sound, TypeOK
    <2>2. TypeOK'
      BY <1>7, <2>1 DEF Count, TypeOK, Places
    <2>3. AllSound'
      BY <1>7 DEF Count, AllSound, Sound, TypeOK, Passing, BuildStages
    <2>4. r \notin Counted(s) /\ Counted(s)' = Counted(s) \cup {r}
      BY <1>7, <2>1 DEF Count, Counted, TypeOK
    <2>5. \A t \in Statuses \ {s} : Counted(t)' = Counted(t)
      BY <1>7 DEF Count, Counted, TypeOK
    <2>6. Cardinality(Counted(s) \cup {r}) = Cardinality(Counted(s)) + 1
      BY <2>4, CountedFinite, FS_AddElement
    <2>7. TotalsMatch'
      <3> SUFFICES ASSUME NEW t \in Statuses PROVE (total[t] = Cardinality(Counted(t)))'
        BY DEF TotalsMatch
      <3>1. CASE t = s
        BY <1>7, <2>1, <2>4, <2>6, <3>1 DEF Count, TotalsMatch, TypeOK
      <3>2. CASE t # s
        BY <1>7, <2>5, <3>2 DEF Count, TotalsMatch, TypeOK
      <3> QED
        BY <3>1, <3>2
    <2>8. CASE s \in Received
      <3>1. r \in Between /\ Between' = Between \ {r}
        BY <1>7, <2>8 DEF Count, Between, TypeOK
      <3>2. Cardinality(Between') = Cardinality(Between) - 1
        BY <3>1, BetweenFinite, FS_RemoveElement
      <3>3. TotalReceived' = TotalReceived + 1 /\ TotalReceived \in Nat
        BY <1>7, <2>8 DEF Count, TotalReceived, TypeOK, Statuses, Served, Received
      <3>4. Balanced'
        BY <1>7, <3>2, <3>3, BetweenFinite DEF Count, Balanced
      <3> QED
        BY <2>2, <2>3, <2>7, <3>4
    <2>9. CASE s \notin Received
      <3>1. Between' = Between
        BY <1>7, <2>9 DEF Count, Between, TypeOK
      <3>2. TotalReceived' = TotalReceived
        BY <1>7, <2>9 DEF Count, TotalReceived, TypeOK, Statuses, Served, Received
      <3>3. Balanced'
        BY <1>7, <3>1, <3>2 DEF Count, Balanced
      <3> QED
        BY <2>2, <2>3, <2>7, <3>3
    <2> QED
      BY <2>8, <2>9
  <1>8. CASE UNCHANGED vars
    <2>1. (\A s \in Statuses : Counted(s)' = Counted(s)) /\ Between' = Between
      BY <1>8 DEF vars, Counted, Between
    <2> QED
      BY <1>8, <2>1, CountersKept DEF vars, metricVars, TypeOK, AllSound, Sound
  <1> QED
    BY <1>1, <1>2, <1>3, <1>4, <1>5, <1>6, <1>7, <1>8 DEF Next

LEMMA Invariance == Spec => []IInv
  BY InitIInv, NextIInv, PTL DEF Spec

-----------------------------------------------------------------------------

\* Every variable keeps its type: no failure gets a status outside the API's.
THEOREM TypeCorrect == Spec => []TypeOK
  <1>1. IInv => TypeOK
    BY DEF IInv
  <1> QED
    BY <1>1, Invariance, PTL

\* /metrics counts every request that did not panic once, under its status.
THEOREM TotalsHold == Spec => []TotalsMatch
  <1>1. IInv => TotalsMatch
    BY DEF IInv
  <1> QED
    BY <1>1, Invariance, PTL

\* Hits and builds add up to the requests that came to serveResult.
THEOREM BooksHold == Spec => []BooksBalance
  <1>1. IInv => BooksBalance
    <2> SUFFICES ASSUME IInv, \A r \in Requests : stage[r] # "count"
                 PROVE  hits + builds = TotalReceived
      BY DEF BooksBalance, TotalReceived
    <2>1. Between = {}
      BY DEF Between
    <2>2. TotalReceived \in Nat
      BY DEF IInv, TypeOK, TotalReceived, Statuses, Served
    <2> QED
      BY <2>1, <2>2, FS_EmptySet DEF IInv, Balanced
  <1> QED
    BY <1>1, Invariance, PTL

\* 404 is the answer to what is not covered, and to nothing else.
THEOREM CoverageHolds == Spec => []CoverageIs404
  <1>1. IInv => CoverageIs404
    BY DEF IInv, TypeOK, AllSound, Sound, CoverageIs404, Places
  <1> QED
    BY <1>1, Invariance, PTL

-----------------------------------------------------------------------------
(* The numbers of a query.                                                 *)

SceneNumbers == {"lat", "lon", "size", "cloud", "days", "maxPx"}

OrthoNumbers == {"lat", "lon", "size", "px"}

Numbers(path) == IF path = "ortho" THEN OrthoNumbers ELSE SceneNumbers

Paths == {"image", "ndvi", "ortho"}

LEMMA LimitsShape ==
  ASSUME NEW path \in Paths
  PROVE  /\ DOMAIN HttpLimits(path) = Numbers(path)
         /\ Numbers(path) \subseteq DOMAIN ServiceLimits(path)
         /\ DOMAIN ServiceLimits(path) \subseteq Numbers(path) \cup {"quality"}
         /\ \A f \in Numbers(path) : ServiceLimits(path)[f] = HttpLimits(path)[f]
         /\ path # "ortho" => /\ "quality" \in DOMAIN ServiceLimits(path)
                              /\ ServiceLimits(path).quality = Limit(85, 1, 100)
  <1>1. CASE path = "ortho"
    BY <1>1 DEF HttpLimits, ServiceLimits, Numbers, OrthoNumbers
  <1>2. CASE path # "ortho"
    BY <1>2 DEF HttpLimits, ServiceLimits, Numbers, SceneNumbers
  <1> QED
    BY <1>1, <1>2

\* A number within a limit.
Within(v, limit) == v \in Int /\ limit.lo <= v /\ v <= limit.hi

\* Every default lies within its limits, and zero stands for no other number
\* than the default, except of the cloud cover.
LEMMA Defaults ==
  ASSUME NEW path \in Paths, NEW f \in Numbers(path)
  PROVE  LET limit == HttpLimits(path)[f]
         IN  /\ limit.lo \in Int /\ limit.hi \in Int
             /\ Within(limit.def, limit)
             /\ Within(0, limit) /\ limit.def # 0 => f = "cloud"
  <1> USE DEF Limit, Lat, Lon, Km, Degree, Within
  <1>1. CASE path = "ortho"
    BY <1>1 DEF HttpLimits, Numbers, OrthoNumbers
  <1>2. CASE path # "ortho"
    BY <1>2 DEF HttpLimits, Numbers, SceneNumbers
  <1> QED
    BY <1>1, <1>2

\* What the handler makes of a query it takes.
LEMMA FilledShape ==
  ASSUME NEW q \in Queries, ParamsOK(q), NEW n, n = Filled(q)
  PROVE  /\ q.path \in Paths
         /\ DOMAIN n = Numbers(q.path) \cup {"path", "source", "sceneID", "format", "quality"}
         /\ n.path = q.path /\ n.source = q.source /\ n.quality = 0 /\ n.format = q.format
         /\ \A f \in Numbers(q.path) :
               /\ n[f] = ReadValue(q, f)
               /\ n[f] = NaN \/ Within(n[f], HttpLimits(q.path)[f])
               /\ q[f] \in {Absent, n[f]}
  <1>1. q.path \in Paths
    BY DEF Queries, Paths
  <1>2. DOMAIN HttpLimits(q.path) = Numbers(q.path)
    BY <1>1, LimitsShape
  <1>3. Numbers(q.path) \cap {"path", "source", "sceneID", "format", "quality"} = {}
    BY DEF Numbers, SceneNumbers, OrthoNumbers
  <1>4. /\ DOMAIN n = Numbers(q.path) \cup {"path", "source", "sceneID", "format", "quality"}
        /\ n.path = q.path /\ n.source = q.source /\ n.quality = 0 /\ n.format = q.format
        /\ \A f \in Numbers(q.path) : n[f] = ReadValue(q, f)
    BY <1>2, <1>3 DEF Filled
  <1>5. ASSUME NEW f \in Numbers(q.path)
        PROVE  n[f] = NaN \/ Within(n[f], HttpLimits(q.path)[f])
    <2>1. ReadOK(q, f)
      BY <1>2 DEF ParamsOK
    <2>2. q[f] \in Floats
      BY <1>5 DEF Queries, Floats, Wholes, Numbers, SceneNumbers, OrthoNumbers
    <2>3. CASE q[f] = Absent
      BY <1>1, <1>4, <2>3, Defaults DEF ReadValue
    <2>4. CASE q[f] # Absent
      <3>1. n[f] = q[f] /\ n[f] \in Int \cup {NaN} /\ ~OutOfRange(n[f], HttpLimits(q.path)[f])
        BY <1>4, <2>1, <2>2, <2>4 DEF ReadOK, ReadValue, Floats
      <3>2. HttpLimits(q.path)[f].lo \in Int /\ HttpLimits(q.path)[f].hi \in Int
        BY <1>1, Defaults
      <3> QED
        BY <3>1, <3>2 DEF OutOfRange, Within
    <2> QED
      BY <2>3, <2>4
  <1> QED
    BY <1>1, <1>4, <1>5 DEF ReadValue

\* A number that is a default or within the limits, of which the service makes
\* another only where it is the zero of a cloud cover.
LEMMA NormalNumbers ==
  ASSUME NEW path \in Paths, NEW n, n.path = path,
         Numbers(path) \cup {"path", "source", "sceneID", "format", "quality"} = DOMAIN n,
         n.quality \in {0, 85},
         \A f \in Numbers(path) : n[f] = NaN \/ Within(n[f], HttpLimits(path)[f]),
         NEW m, m = Normal(n)
  PROVE  /\ DOMAIN m = DOMAIN n
         /\ m.path = path /\ m.source = n.source /\ m.quality \in {0, 85}
         /\ IF path = "ortho" THEN m.quality = n.quality ELSE m.quality = 85
         /\ \A f \in Numbers(path) :
               /\ m[f] = NaN \/ Within(m[f], HttpLimits(path)[f])
               /\ m[f] # n[f] => n[f] = 0 /\ f = "cloud"
         /\ m.lat = n.lat /\ m.lon = n.lon
         /\ m.lat # NaN /\ m.lon # NaN => NumbersOK(m)
  <1>1. \A f \in Numbers(path) : f \in DOMAIN ServiceLimits(path) /\ f # "format" /\ f # "quality"
    BY LimitsShape DEF Numbers, SceneNumbers, OrthoNumbers
  <1>2. {"path", "source", "sceneID", "format"} \cap DOMAIN ServiceLimits(path) = {}
    BY LimitsShape DEF Numbers, SceneNumbers, OrthoNumbers
  <1>3. DOMAIN m = DOMAIN n /\ m.path = path /\ m.source = n.source
    BY <1>2 DEF Normal
  <1>0. ASSUME NEW f \in DOMAIN n, f # "format"
        PROVE  m[f] = IF f \in DOMAIN ServiceLimits(path) /\ n[f] = 0
                      THEN ServiceLimits(path)[f].def ELSE n[f]
    <2>1. m[f] = CASE f \in DOMAIN ServiceLimits(path) /\ n[f] = 0 -> ServiceLimits(path)[f].def
                   [] f = "format" /\ n[f] = "" -> IF n.path = "ortho" THEN "jpeg" ELSE "png"
                   [] OTHER -> n[f]
      BY DEF Normal
    <2>2. CASE f \in DOMAIN ServiceLimits(path) /\ n[f] = 0
      BY <1>0, <2>1, <2>2
    <2>3. CASE ~(f \in DOMAIN ServiceLimits(path) /\ n[f] = 0)
      BY <1>0, <2>1, <2>3
    <2> QED
      BY <2>2, <2>3
  <1>4. m.quality \in {0, 85} /\ IF path = "ortho" THEN m.quality = n.quality ELSE m.quality = 85
    <2>1. m["quality"] = IF "quality" \in DOMAIN ServiceLimits(path) /\ n["quality"] = 0
                         THEN ServiceLimits(path)["quality"].def ELSE n["quality"]
      BY <1>0
    <2>2. path = "ortho" => "quality" \notin DOMAIN ServiceLimits(path)
      BY DEF ServiceLimits
    <2>3. path # "ortho" => /\ "quality" \in DOMAIN ServiceLimits(path)
                            /\ ServiceLimits(path)["quality"].def = 85
      BY LimitsShape DEF Limit
    <2> QED
      BY <2>1, <2>2, <2>3
  <1>5. ASSUME NEW f \in Numbers(path)
        PROVE  /\ m[f] = NaN \/ Within(m[f], HttpLimits(path)[f])
               /\ m[f] # n[f] => n[f] = 0 /\ f = "cloud"
    <2>1. m[f] = IF n[f] = 0 THEN HttpLimits(path)[f].def ELSE n[f]
      BY <1>0, <1>1, LimitsShape
    <2>2. n[f] = 0 => Within(n[f], HttpLimits(path)[f])
      BY ValuesAssumption
    <2> QED
      BY <2>1, <2>2, Defaults
  <1>6. {"lat", "lon"} \subseteq Numbers(path)
    BY DEF Numbers, SceneNumbers, OrthoNumbers
  <1>7. m.lat = n.lat /\ m.lon = n.lon
    BY <1>5, <1>6
  <1>8. ASSUME NEW f \in DOMAIN ServiceLimits(path)
        PROVE  ~OutOfRange(m[f], ServiceLimits(path)[f])
    <2>1. CASE f \in Numbers(path)
      <3>1. ServiceLimits(path)[f] = HttpLimits(path)[f]
        BY <2>1, LimitsShape
      <3>2. HttpLimits(path)[f].lo \in Int /\ HttpLimits(path)[f].hi \in Int
        BY <2>1, Defaults
      <3> QED
        BY <1>5, <2>1, <3>1, <3>2 DEF OutOfRange, Within
    <2>2. CASE f \notin Numbers(path)
      <3>1. f = "quality" /\ path # "ortho"
        BY <1>8, <2>2, LimitsShape DEF ServiceLimits, Numbers, OrthoNumbers
      <3> QED
        BY <1>4, <3>1, LimitsShape DEF OutOfRange, Limit
    <2> QED
      BY <2>1, <2>2
  <1> QED
    BY <1>3, <1>4, <1>5, <1>7, <1>8 DEF NumbersOK

\* What is served: the numbers of a query after both.
LEMMA NormalShape ==
  ASSUME NEW q \in Queries, ParamsOK(q), NEW n, n = Filled(q), NEW m, m = Normal(n)
  PROVE  /\ m.path = q.path /\ m.path \in Paths /\ m.source = q.source
         /\ q.path = "ortho" => m.quality = 0
         /\ \A f \in Numbers(q.path) :
               /\ m[f] = NaN \/ Within(m[f], HttpLimits(q.path)[f])
               /\ q[f] \notin {Absent, m[f]} => q[f] = 0 /\ f = "cloud"
         /\ m.lat # NaN /\ m.lon # NaN => NumbersOK(m) /\ NumbersOK(Normal(m))
         /\ m.lat = n.lat /\ m.lon = n.lon
  <1> DEFINE rest == {"path", "source", "sceneID", "format", "quality"}
  <1>1. /\ q.path \in Paths /\ n.path = q.path /\ n.source = q.source /\ n.quality = 0
        /\ DOMAIN n = Numbers(q.path) \cup rest
        /\ \A f \in Numbers(q.path) :
              /\ n[f] = NaN \/ Within(n[f], HttpLimits(q.path)[f])
              /\ q[f] \in {Absent, n[f]}
    BY FilledShape
  <1>2. /\ DOMAIN m = DOMAIN n
        /\ m.path = q.path /\ m.source = n.source /\ m.quality \in {0, 85}
        /\ IF q.path = "ortho" THEN m.quality = n.quality ELSE m.quality = 85
        /\ \A f \in Numbers(q.path) :
              /\ m[f] = NaN \/ Within(m[f], HttpLimits(q.path)[f])
              /\ m[f] # n[f] => n[f] = 0 /\ f = "cloud"
        /\ m.lat = n.lat /\ m.lon = n.lon
        /\ m.lat # NaN /\ m.lon # NaN => NumbersOK(m)
    BY <1>1, NormalNumbers
  <1>3. Normal(m).lat = m.lat /\ Normal(m).lon = m.lon
        /\ (Normal(m).lat # NaN /\ Normal(m).lon # NaN => NumbersOK(Normal(m)))
    BY <1>1, <1>2, NormalNumbers
  <1>4. \A f \in Numbers(q.path) : q[f] \notin {Absent, m[f]} => q[f] = 0 /\ f = "cloud"
    BY <1>1, <1>2
  <1> QED
    BY <1>1, <1>2, <1>3, <1>4

-----------------------------------------------------------------------------
(* What a key gives back.                                                  *)

LEMMA FixedNear ==
  ASSUME NEW a \in Int \cup {NaN}, NEW b \in Int \cup {NaN}, Fixed(a) = Fixed(b)
  PROVE  Near(a, b)
  <1>1. CASE a = NaN \/ b = NaN
    <2>1. \A v \in Int \cup {NaN} : Fixed(v) = NaN => v = NaN
      BY ValuesAssumption DEF Fixed
    <2> QED
      BY <1>1, <2>1 DEF Fixed, Near
  <1>2. CASE a # NaN /\ b # NaN
    <2>1. (a + 5) \div 10 = (b + 5) \div 10 /\ a \in Int /\ b \in Int
      BY <1>2 DEF Fixed
    <2>2. a - b \in -10 .. 10
      BY <2>1
    <2> QED
      BY <1>2, <2>2 DEF Near
  <1> QED
    BY <1>1, <1>2

\* A request that was taken: what it was made of, and the product it is to get.
Asks(q, m, k, sc) ==
    /\ q \in Queries
    /\ q.path # "ortho" => q.source = ""
    /\ ParamsOK(q)
    /\ m = Normal(Filled(q)) /\ Valid(m)
    /\ k = KindOf(q)
    /\ k \notin FromScene => sc = "none"

LEMMA AskedShape ==
  ASSUME NEW q, NEW m, NEW k, NEW sc, Asks(q, m, k, sc)
  PROVE  /\ m.path \in Paths /\ m.path = q.path /\ m.source = q.source
         /\ (\A f \in {"lat", "lon", "size"} : m[f] \in Int \cup {NaN})
         /\ m.path = "ortho" => /\ m.quality = 0
                                /\ m.source \in DOMAIN Sources
                                /\ k = Sources[m.source].kind /\ k # "image" /\ k # "ndvi"
         /\ m.path # "ortho" => m.source = "" /\ k = m.path
  <1>1. /\ m.path \in Paths /\ m.path = q.path /\ m.source = q.source
        /\ m.path = "ortho" => m.quality = 0
        /\ \A f \in Numbers(q.path) : m[f] = NaN \/ Within(m[f], HttpLimits(q.path)[f])
    <2>1. q \in Queries /\ ParamsOK(q)
      BY DEF Asks
    <2>2. m = Normal(Filled(q))
      BY DEF Asks
    <2>3. Filled(q).path = q.path /\ q.path \in Paths
      BY <2>1, FilledShape
    <2> QED
      BY <2>1, <2>2, <2>3, NormalShape
  <1>2. {"lat", "lon", "size"} \subseteq Numbers(q.path)
    BY DEF Numbers, SceneNumbers, OrthoNumbers
  <1>3. (\A f \in {"lat", "lon", "size"} : m[f] \in Int \cup {NaN})
    BY <1>1, <1>2 DEF Within
  <1>4. m.path = "ortho" => m.source \in DOMAIN Sources
    BY DEF Asks, Valid
  <1> QED
    BY <1>1, <1>3, <1>4, SourcesAssumption DEF Asks, KindOf

\* Suits, of the request, the kind and the scene of either.
Alike(m, j, sd, n, k, sc) ==
    /\ j = k /\ sd = sc /\ m.source = n.source
    /\ m.format = n.format /\ m.format = "jpeg" => m.quality = n.quality
    /\ Near(m.lat, n.lat) /\ Near(m.lon, n.lon) /\ Near(m.size, n.size)
    /\ IF n.path = "ortho" THEN Px(m, j) = Px(n, k) ELSE m.maxPx = n.maxPx

\* Two requests of one key agree on the product.
LEMMA KeyTells ==
  ASSUME NEW p, NEW m, NEW j, NEW sd, Asks(p, m, j, sd),
         NEW q, NEW n, NEW k, NEW sc, Asks(q, n, k, sc),
         KeyOf(m, j, sd) = KeyOf(n, k, sc)
  PROVE  Alike(m, j, sd, n, k, sc)
  <1>0. /\ m.path \in Paths /\ m.path = p.path /\ m.source = p.source
        /\ (\A f \in {"lat", "lon", "size"} : m[f] \in Int \cup {NaN})
        /\ m.path = "ortho" => /\ m.quality = 0
                               /\ m.source \in DOMAIN Sources
                               /\ j = Sources[m.source].kind /\ j # "image" /\ j # "ndvi"
        /\ m.path # "ortho" => m.source = "" /\ j = m.path
    BY AskedShape
  <1>1. /\ n.path \in Paths /\ n.path = q.path /\ n.source = q.source
        /\ (\A f \in {"lat", "lon", "size"} : n[f] \in Int \cup {NaN})
        /\ n.path = "ortho" => /\ n.quality = 0
                               /\ n.source \in DOMAIN Sources
                               /\ k = Sources[n.source].kind /\ k # "image" /\ k # "ndvi"
        /\ n.path # "ortho" => n.source = "" /\ k = n.path
    BY AskedShape
  <1>2. (j \notin FromScene => sd = "none") /\ (k \notin FromScene => sc = "none")
    BY DEF Asks
  <1>3. m.path = "ortho" <=> n.path = "ortho"
    <2>1. KeyOf(m, j, sd)[1] = IF m.path = "ortho" THEN "v1-ortho" ELSE "v1"
      BY DEF KeyOf
    <2>2. KeyOf(n, k, sc)[1] = IF n.path = "ortho" THEN "v1-ortho" ELSE "v1"
      BY DEF KeyOf
    <2> QED
      BY <2>1, <2>2
  <1>4. ASSUME Fixed(m.lat) = Fixed(n.lat), Fixed(m.lon) = Fixed(n.lon), Fixed(m.size) = Fixed(n.size)
        PROVE  Near(m.lat, n.lat) /\ Near(m.lon, n.lon) /\ Near(m.size, n.size)
    BY <1>0, <1>1, <1>4, FixedNear
  <1>5. CASE n.path # "ortho"
    <2>1. /\ sd = sc /\ m.path = n.path
          /\ Fixed(m.lat) = Fixed(n.lat) /\ Fixed(m.lon) = Fixed(n.lon) /\ Fixed(m.size) = Fixed(n.size)
          /\ m.maxPx = n.maxPx /\ m.format = n.format
          /\ (IF m.format = "jpeg" THEN m.quality ELSE 0) = (IF n.format = "jpeg" THEN n.quality ELSE 0)
      BY <1>3, <1>5 DEF KeyOf
    <2> QED
      BY <1>0, <1>1, <1>3, <1>4, <1>5, <2>1 DEF Alike
  <1>6. CASE n.path = "ortho"
    <2>1. m.source = n.source
      <3>1. KeyOf(m, j, sd)[2] = m.source /\ KeyOf(n, k, sc)[2] = n.source
        BY <1>3, <1>6 DEF KeyOf
      <3> QED
        BY <3>1
    <2>2. j = k
      BY <1>0, <1>1, <1>3, <1>6, <2>1
    <2>3. /\ k = "stac" => sd = sc
          /\ Fixed(m.lat) = Fixed(n.lat) /\ Fixed(m.lon) = Fixed(n.lon) /\ Fixed(m.size) = Fixed(n.size)
          /\ Px(m, j) = Px(n, k) /\ m.format = n.format
      BY <1>3, <1>6, <2>2 DEF KeyOf
    <2>4. sd = sc
      BY <1>0, <1>1, <1>2, <1>3, <1>6, <2>2, <2>3 DEF FromScene
    <2> QED
      BY <1>0, <1>1, <1>3, <1>4, <1>6, <2>1, <2>2, <2>3, <2>4 DEF Alike
  <1> QED
    BY <1>5, <1>6

-----------------------------------------------------------------------------
(* The inductive invariant.                                                *)

Beyond == {"resolve", "lookup", "slot", "serve"} \cup BuildStages

TakenAt(r) ==
    /\ kind[r] = KindOf(asked[r])
    /\ kind[r] \notin FromScene => scene[r] = "none"
    /\ taken[r] # None =>
         /\ ParamsOK(asked[r])
         /\ taken[r] = Filled(asked[r]) \/ taken[r] = Normal(Filled(asked[r]))
    /\ stage[r] = "normalize" => ParamsOK(asked[r]) /\ taken[r] = Filled(asked[r])
    /\ stage[r] = "resolve" => kind[r] \in FromScene
    /\ stage[r] \in Beyond => Asks(asked[r], taken[r], kind[r], scene[r])

\* What is on the shelf was made for a request that was taken.
Genuine(p) ==
    /\ \E q : Asks(q, p.request, p.kind, p.scene)
    /\ p.key = KeyOf(p.request, p.kind, p.scene)

KeyInv ==
    /\ asked \in Bursts
    /\ taken = [r \in Requests |-> taken[r]]
    /\ scene = [r \in Requests |-> scene[r]]
    /\ \A r \in Requests : TakenAt(r)
    /\ \A p \in shelf : Genuine(p)
    /\ \A r \in Requests : stage[r] = "serve" => OnShelf(r)

LEMMA AskedTypes ==
  ASSUME asked \in Bursts, NEW r \in Requests
  PROVE  asked[r] \in Queries /\ (asked[r].path # "ortho" => asked[r].source = "")
  BY BurstsAssumption, SourceAssumption

\* Every step on the data is a step through the stages.
LEMMA KeyStep == [KeyNext]_allVars => [Next]_vars
  <1> SUFFICES ASSUME [KeyNext]_allVars PROVE [Next]_vars
    OBVIOUS
  <1>1. ASSUME NEW r \in Requests,
               Read(r) \/ Normalize(r) \/ Resolve(r) \/ LookUp(r)
               \/ BuildOn(r) \/ Publish(r) \/ Answered(r)
        PROVE  Next
    <2>1. Disconnect(r) \/ Pass(r) \/ Hit(r) \/ Fail(r) \/ Panic(r)
          \/ Serve(r) \/ WriteError(r) \/ Count(r)
      BY <1>1 DEF Read, Normalize, Resolve, LookUp, BuildOn, Publish, Answered
    <2> QED
      BY <2>1 DEF Next
  <1> QED
    BY <1>1 DEF KeyNext, allVars

\* A step of a request leaves the others alone.
LEMMA OthersKept ==
  ASSUME KeyInv, NEW r \in Requests, UNCHANGED <<asked, kind>>,
         NEW s, stage \in [Requests -> Places], stage' = [stage EXCEPT ![r] = s],
         NEW t, taken' = [taken EXCEPT ![r] = t],
         NEW c, scene' = [scene EXCEPT ![r] = c],
         TakenAt(r)'
  PROVE  /\ asked' \in Bursts
         /\ taken' = [q \in Requests |-> taken'[q]]
         /\ scene' = [q \in Requests |-> scene'[q]]
         /\ \A q \in Requests : TakenAt(q)'
         /\ \A q \in Requests \ {r} : Key(q)' = Key(q) /\ stage'[q] = stage[q]
  <1>1. \A q \in Requests \ {r} : /\ stage'[q] = stage[q]
                                  /\ taken'[q] = taken[q] /\ scene'[q] = scene[q]
    BY DEF KeyInv
  <1>2. \A q \in Requests \ {r} : TakenAt(q)'
    BY <1>1 DEF KeyInv, TakenAt
  <1>3. \A q \in Requests \ {r} : Key(q)' = Key(q)
    BY <1>1 DEF Key
  <1> QED
    BY <1>1, <1>2, <1>3 DEF KeyInv

\* The shelf and what is being served, when nothing is published.
LEMMA ShelfKept ==
  ASSUME KeyInv, NEW r \in Requests, UNCHANGED shelf,
         \A q \in Requests \ {r} : Key(q)' = Key(q) /\ stage'[q] = stage[q],
         stage'[r] = "serve" => stage[r] = "serve" /\ Key(r)' = Key(r)
  PROVE  /\ (\A p \in shelf : Genuine(p))'
         /\ (\A q \in Requests : stage[q] = "serve" => OnShelf(q))'
  <1>1. (\A p \in shelf : Genuine(p))'
    BY DEF KeyInv, Genuine
  <1>2. \A q \in Requests : stage'[q] = "serve" => stage[q] = "serve" /\ Key(q)' = Key(q)
    OBVIOUS
  <1>3. (\A q \in Requests : stage[q] = "serve" => OnShelf(q))'
    BY <1>2 DEF KeyInv, OnShelf
  <1> QED
    BY <1>1, <1>3

LEMMA KeyInitInv == KeyInit => KeyInv
  <1> SUFFICES ASSUME KeyInit PROVE KeyInv
    OBVIOUS
  <1>1. \A r \in Requests : stage[r] = "params" /\ taken[r] = None /\ scene[r] = "none"
    BY DEF KeyInit, Init
  <1>2. \A r \in Requests : TakenAt(r)
    BY <1>1 DEF KeyInit, TakenAt, Beyond, BuildStages
  <1> QED
    BY <1>1, <1>2 DEF KeyInit, KeyInv

\* A stage that was failed, answered or left by its client is none of the
\* product's.
LEMMA LeavingKept ==
  ASSUME KeyInv, TypeOK, NEW r \in Requests, UNCHANGED <<keyVars, kind>>,
         NEW s \in Places, stage' = [stage EXCEPT ![r] = s],
         s \in {"fail", "count", "end", stage[r]}
  PROVE  KeyInv'
  <1>1. UNCHANGED <<asked, taken, scene, shelf>>
    BY DEF keyVars
  <1>2. stage'[r] = s
    BY DEF TypeOK
  <1>3. TakenAt(r)'
    BY <1>1, <1>2 DEF KeyInv, TakenAt, Beyond, BuildStages
  <1>4. taken' = [taken EXCEPT ![r] = taken[r]] /\ scene' = [scene EXCEPT ![r] = scene[r]]
    BY <1>1 DEF KeyInv
  <1>5. Key(r)' = Key(r)
    BY <1>1 DEF Key
  <1>6. stage'[r] = "serve" => stage[r] = "serve"
    BY <1>2
  <1> QED
    BY <1>1, <1>3, <1>4, <1>5, <1>6, OthersKept, ShelfKept DEF TypeOK, KeyInv

LEMMA KeyNextInv == KeyInv /\ TypeOK /\ TypeOK' /\ [KeyNext]_allVars => KeyInv'
  <1> SUFFICES ASSUME KeyInv, TypeOK, TypeOK', [KeyNext]_allVars PROVE KeyInv'
    OBVIOUS
  <1>0. stage \in [Requests -> Places] /\ \A r \in Requests : TakenAt(r)
    BY DEF TypeOK, KeyInv
  <1>1. ASSUME NEW r \in Requests, Fail(r), UNCHANGED keyVars PROVE KeyInv'
    BY <1>1, LeavingKept DEF Fail, Goto, Places
  <1>2. ASSUME NEW r \in Requests, Read(r) PROVE KeyInv'
    <2>1. CASE ParamsOK(asked[r])
      <3>1. /\ stage[r] = "params" /\ stage' = [stage EXCEPT ![r] = "normalize"]
            /\ taken' = [taken EXCEPT ![r] = Filled(asked[r])]
            /\ UNCHANGED <<asked, kind, scene, shelf>>
        BY <1>2, <2>1 DEF Read, Pass, Goto, Following
      <3>2. stage'[r] = "normalize" /\ taken'[r] = Filled(asked[r])
        BY <1>0, <3>1 DEF KeyInv
      <3>3. TakenAt(r)'
        BY <1>0, <2>1, <3>1, <3>2 DEF TakenAt, Beyond, BuildStages
      <3>4. scene' = [scene EXCEPT ![r] = scene[r]]
        BY <3>1 DEF KeyInv
      <3>5. \A p \in Requests \ {r} : Key(p)' = Key(p) /\ stage'[p] = stage[p]
        BY <1>0, <3>1, <3>3, <3>4, OthersKept
      <3>6. /\ asked' \in Bursts
            /\ taken' = [p \in Requests |-> taken'[p]]
            /\ scene' = [p \in Requests |-> scene'[p]]
            /\ \A p \in Requests : TakenAt(p)'
        BY <1>0, <3>1, <3>3, <3>4, OthersKept
      <3>7. /\ (\A p \in shelf : Genuine(p))'
            /\ (\A p \in Requests : stage[p] = "serve" => OnShelf(p))'
        BY <3>1, <3>2, <3>5, ShelfKept
      <3> QED
        BY <3>6, <3>7 DEF KeyInv
    <2>2. CASE ~ParamsOK(asked[r])
      BY <1>1, <1>2, <2>2 DEF Read, keyVars
    <2> QED
      BY <2>1, <2>2
  <1>3. ASSUME NEW r \in Requests, Normalize(r) PROVE KeyInv'
    <2>1. CASE Valid(Normal(taken[r]))
      <3> DEFINE next == IF kind[r] \in FromScene THEN "resolve" ELSE "lookup"
                 m == Normal(Filled(asked[r]))
      <3>1. /\ stage[r] = "normalize" /\ stage' = [stage EXCEPT ![r] = next]
            /\ UNCHANGED <<asked, kind, scene, shelf>>
        BY <1>3, <2>1 DEF Normalize, Pass, Goto, Following
      <3>2. taken[r] = Filled(asked[r]) /\ ParamsOK(asked[r])
        BY <1>0, <3>1 DEF TakenAt
      <3>3. taken' = [taken EXCEPT ![r] = m]
        BY <1>3, <2>1, <3>2 DEF Normalize
      <3>4. stage'[r] = next /\ taken'[r] = m
        BY <1>0, <3>1, <3>3 DEF KeyInv
      <3>5. Asks(asked[r], m, kind[r], scene[r])
        BY <1>0, <2>1, <3>2, AskedTypes DEF Asks, TakenAt, KeyInv
      <3>6. TakenAt(r)'
        BY <1>0, <3>1, <3>2, <3>4, <3>5 DEF TakenAt
      <3>7. scene' = [scene EXCEPT ![r] = scene[r]] /\ stage'[r] # "serve"
        BY <3>1, <3>4 DEF KeyInv
      <3> QED
        <4>1. \A p \in Requests \ {r} : Key(p)' = Key(p) /\ stage'[p] = stage[p]
          BY <1>0, <3>1, <3>3, <3>6, <3>7, OthersKept
        <4>2. /\ asked' \in Bursts
              /\ taken' = [p \in Requests |-> taken'[p]]
              /\ scene' = [p \in Requests |-> scene'[p]]
              /\ \A p \in Requests : TakenAt(p)'
          BY <1>0, <3>1, <3>3, <3>6, <3>7, OthersKept
        <4>3. /\ (\A p \in shelf : Genuine(p))'
              /\ (\A p \in Requests : stage[p] = "serve" => OnShelf(p))'
          BY <3>1, <3>7, <4>1, ShelfKept
        <4> QED
          BY <4>2, <4>3 DEF KeyInv
    <2>2. CASE ~Valid(Normal(taken[r]))
      BY <1>1, <1>3, <2>2 DEF Normalize, keyVars
    <2> QED
      BY <2>1, <2>2
  <1>4. ASSUME NEW r \in Requests, Resolve(r) PROVE KeyInv'
    <2>1. CASE \E sc : Pass(r) /\ scene' = [scene EXCEPT ![r] = sc]
      <3>1. PICK sc : scene' = [scene EXCEPT ![r] = sc]
        BY <2>1
      <3>2. /\ stage[r] = "resolve" /\ stage' = [stage EXCEPT ![r] = "lookup"]
            /\ UNCHANGED <<asked, kind, taken, shelf>>
        BY <1>4, <2>1 DEF Resolve, Pass, Goto, Following
      <3>3. kind[r] \in FromScene /\ Asks(asked[r], taken[r], kind[r], scene[r])
        BY <1>0, <3>2 DEF TakenAt, Beyond
      <3>4. stage'[r] = "lookup" /\ scene'[r] = sc
        BY <1>0, <3>1, <3>2 DEF KeyInv
      <3>5. Asks(asked[r], taken[r], kind[r], sc)
        BY <3>3 DEF Asks
      <3>6. TakenAt(r)'
        BY <1>0, <3>2, <3>3, <3>4, <3>5 DEF TakenAt
      <3>7. taken' = [taken EXCEPT ![r] = taken[r]]
        BY <3>2 DEF KeyInv
      <3> QED
        BY <1>0, <3>1, <3>2, <3>4, <3>6, <3>7, OthersKept, ShelfKept DEF KeyInv
    <2>2. CASE Fail(r) /\ UNCHANGED scene
      BY <1>1, <1>4, <2>2 DEF Resolve, keyVars
    <2> QED
      BY <1>4, <2>1, <2>2 DEF Resolve
  <1>5. ASSUME NEW r \in Requests, stage[r] \in Beyond, UNCHANGED <<keyVars, kind>>,
               NEW s \in Places, stage' = [stage EXCEPT ![r] = s],
               s \in Beyond \ {"resolve"}, s = "serve" => OnShelf(r)
        PROVE  KeyInv'
    <2>1. UNCHANGED <<asked, taken, scene, shelf>> /\ stage'[r] = s
      BY <1>0, <1>5 DEF keyVars
    <2>2. TakenAt(r)'
      BY <1>0, <1>5, <2>1 DEF TakenAt, Beyond, BuildStages
    <2>3. taken' = [taken EXCEPT ![r] = taken[r]] /\ scene' = [scene EXCEPT ![r] = scene[r]]
      BY <2>1 DEF KeyInv
    <2>4. asked' \in Bursts /\ \A q \in Requests : TakenAt(q)'
      BY <1>0, <1>5, <2>1, <2>2, <2>3, OthersKept
    <2>5. \A p \in shelf' : Genuine(p)'
      BY <2>1 DEF KeyInv, Genuine
    <2>6. \A q \in Requests : stage'[q] = "serve" => OnShelf(q)'
      <3>1. \A q \in Requests : OnShelf(q)' <=> OnShelf(q)
        BY <1>5, <2>1 DEF OnShelf, Key
      <3> QED
        BY <1>0, <1>5, <2>1, <3>1 DEF KeyInv
    <2> QED
      BY <2>1, <2>4, <2>5, <2>6 DEF KeyInv
  <1>6. ASSUME NEW r \in Requests, LookUp(r) PROVE KeyInv'
    <2>1. CASE Hit(r) /\ OnShelf(r)
      BY <1>5, <1>6, <2>1 DEF LookUp, Hit, Goto, Beyond, Places
    <2>2. CASE Pass(r)
      <3>1. stage' = [stage EXCEPT ![r] = "slot"] /\ stage[r] = "lookup" /\ kind' = kind
        BY <1>6, <2>2 DEF LookUp, Pass, Goto, Following
      <3> QED
        BY <1>5, <1>6, <3>1 DEF LookUp, Beyond, Places, Passing
    <2>3. CASE Fail(r)
      BY <1>1, <1>6, <2>3 DEF LookUp
    <2> QED
      BY <1>6, <2>1, <2>2, <2>3 DEF LookUp
  <1>7. ASSUME NEW r \in Requests, BuildOn(r) PROVE KeyInv'
    <2>1. CASE Pass(r)
      <3>1. stage' = [stage EXCEPT ![r] = Following(kind[r], stage[r])] /\ kind' = kind
        BY <2>1 DEF Pass, Goto
      <3>2. stage[r] \in Beyond /\ Following(kind[r], stage[r]) \in BuildStages
        BY <1>7 DEF BuildOn, Following, Beyond, BuildStages
      <3> QED
        BY <1>5, <1>7, <3>1, <3>2 DEF BuildOn, Beyond, BuildStages, Places, Passing
    <2>2. CASE Fail(r)
      BY <1>1, <1>7, <2>2 DEF BuildOn
    <2> QED
      BY <1>7, <2>1, <2>2 DEF BuildOn
  <1>8. ASSUME NEW r \in Requests, Publish(r) PROVE KeyInv'
    <2>1. CASE Pass(r) /\ shelf' = {p \in shelf : p.key # Key(r)} \cup {Made(r)}
      <3>1. /\ stage[r] \in Beyond /\ stage' = [stage EXCEPT ![r] = "serve"]
            /\ UNCHANGED <<asked, kind, taken, scene>>
        BY <1>8, <2>1 DEF Publish, Pass, Goto, Following, Beyond, BuildStages
      <3>2. stage'[r] = "serve"
        BY <1>0, <3>1
      <3>3. TakenAt(r)'
        BY <1>0, <3>1, <3>2 DEF TakenAt, Beyond, BuildStages
      <3>4. taken' = [taken EXCEPT ![r] = taken[r]] /\ scene' = [scene EXCEPT ![r] = scene[r]]
        BY <3>1 DEF KeyInv
      <3>5. asked' \in Bursts /\ \A q \in Requests : TakenAt(q)'
        BY <1>0, <3>1, <3>3, <3>4, OthersKept
      <3>6. Genuine(Made(r)) /\ Made(r).key = Key(r)
        <4>1. Asks(asked[r], taken[r], kind[r], scene[r])
          BY <1>0, <3>1 DEF TakenAt
        <4> QED
          BY <4>1 DEF Genuine, Made, Key
      <3>7. \A p \in shelf' : Genuine(p)'
        BY <2>1, <3>6 DEF KeyInv, Genuine
      <3>8. \A q \in Requests : Key(q)' = Key(q)
        BY <3>1 DEF Key
      <3>9. ASSUME NEW q \in Requests, stage'[q] = "serve" PROVE OnShelf(q)'
        <4>1. CASE Key(q) = Key(r)
          BY <2>1, <3>6, <3>8, <4>1 DEF OnShelf
        <4>2. CASE Key(q) # Key(r)
          <5>1. stage[q] = "serve"
            BY <1>0, <3>1, <3>9, <4>2
          <5>2. PICK p \in shelf : p.key = Key(q)
            BY <5>1 DEF KeyInv, OnShelf
          <5> QED
            BY <2>1, <3>8, <4>2, <5>2 DEF OnShelf
        <4> QED
          BY <4>1, <4>2
      <3> QED
        BY <3>1, <3>5, <3>7, <3>9 DEF KeyInv
    <2>2. CASE Fail(r) /\ UNCHANGED shelf
      BY <1>1, <1>8, <2>2 DEF Publish, keyVars
    <2> QED
      BY <1>8, <2>1, <2>2 DEF Publish
  <1>9. ASSUME NEW r \in Requests, Answered(r) PROVE KeyInv'
    <2>1. UNCHANGED <<keyVars, kind>>
      BY <1>9 DEF Answered, Panic, Serve, WriteError, Count, Disconnect
    <2>2. \E s \in {"count", "end", stage[r]} : stage' = [stage EXCEPT ![r] = s]
      BY <1>0, <1>9 DEF Answered, Panic, Serve, WriteError, Count, Disconnect, Goto
    <2>3. {"count", "end", stage[r]} \subseteq Places
      BY <1>0 DEF Places
    <2> QED
      BY <2>1, <2>2, <2>3, LeavingKept
  <1>10. CASE UNCHANGED allVars
    BY <1>10 DEF allVars, vars, keyVars, KeyInv, TakenAt, OnShelf, Key, Genuine
  <1> QED
    BY <1>2, <1>3, <1>4, <1>6, <1>7, <1>8, <1>9, <1>10 DEF KeyNext

-----------------------------------------------------------------------------

\* The requests with their data go through the stages as those without: what is
\* proved of ProductRequest holds of RequestKey.
THEOREM KeysAreRequests == KeySpec => Spec
  <1>1. KeyInit => Init
    BY DEF KeyInit
  <1> QED
    BY <1>1, KeyStep, PTL DEF KeySpec, Spec

LEMMA KeyInvariance == KeySpec => []KeyInv
  <1>1. KeySpec => []TypeOK
    BY KeysAreRequests, TypeCorrect, PTL
  <1> QED
    BY <1>1, KeyInitInv, KeyNextInv, PTL DEF KeySpec

\* Whoever built it and for whom, the product a request is served is one for
\* what was asked: the key gives back the scene or source, the format, the size
\* and, to its last digit, the place.
THEOREM ServedHolds == KeySpec => []ServedAsAsked
  <1>1. KeyInv => ServedAsAsked
    <2> SUFFICES ASSUME KeyInv, NEW r \in Requests, stage[r] = "serve"
                 PROVE  \E p \in shelf : p.key = Key(r) /\ Suits(p, r)
      BY DEF ServedAsAsked
    <2>1. PICK p \in shelf : p.key = Key(r)
      BY DEF KeyInv, OnShelf
    <2>2. PICK q : Asks(q, p.request, p.kind, p.scene)
      BY <2>1 DEF KeyInv, Genuine
    <2>3. KeyOf(p.request, p.kind, p.scene) = KeyOf(taken[r], kind[r], scene[r])
      BY <2>1 DEF KeyInv, Genuine, Key
    <2>4. Asks(asked[r], taken[r], kind[r], scene[r])
      BY DEF KeyInv, TakenAt, Beyond
    <2>5. Alike(p.request, p.kind, p.scene, taken[r], kind[r], scene[r])
      BY <2>2, <2>3, <2>4, KeyTells
    <2>6. Suits(p, r)
      BY <2>5 DEF Alike, Suits
    <2> QED
      BY <2>1, <2>6
  <1> QED
    BY <1>1, KeyInvariance, PTL

\* A number the handler takes is the one the product is made with, a zero cloud
\* cover aside, and none that it takes is refused by the service, a NaN
\* coordinate aside.
THEOREM TakenHolds == KeySpec => []TakenAsGiven
  <1>1. KeyInv => TakenAsGiven
    <2> SUFFICES ASSUME KeyInv, NEW r \in Requests, taken[r] # None
                 PROVE  /\ \A f \in DOMAIN HttpLimits(asked[r].path) :
                             asked[r][f] \notin {Absent, taken[r][f]} => asked[r][f] = 0 /\ f = "cloud"
                        /\ taken[r].lat # NaN /\ taken[r].lon # NaN => NumbersOK(Normal(taken[r]))
      BY DEF TakenAsGiven
    <2> DEFINE q == asked[r]
    <2>1. q \in Queries /\ ParamsOK(q)
      BY AskedTypes DEF KeyInv, TakenAt
    <2>2. DOMAIN HttpLimits(q.path) = Numbers(q.path)
      BY <2>1, FilledShape, LimitsShape
    <2>3. CASE taken[r] = Filled(q)
      <3>1. \A f \in Numbers(q.path) : q[f] \in {Absent, taken[r][f]}
        BY <2>1, <2>3, FilledShape
      <3>2. LET m == Normal(taken[r])
            IN  /\ m.lat # NaN /\ m.lon # NaN => NumbersOK(m)
                /\ m.lat = taken[r].lat /\ m.lon = taken[r].lon
        BY <2>1, <2>3, NormalShape
      <3> QED
        BY <2>2, <3>1, <3>2
    <2>4. CASE taken[r] = Normal(Filled(q))
      <3>1. /\ \A f \in Numbers(q.path) : q[f] \notin {Absent, taken[r][f]} => q[f] = 0 /\ f = "cloud"
            /\ taken[r].lat # NaN /\ taken[r].lon # NaN => NumbersOK(Normal(taken[r]))
        BY <2>1, <2>4, NormalShape
      <3> QED
        BY <2>2, <3>1
    <2> QED
      BY <2>3, <2>4 DEF KeyInv, TakenAt
  <1> QED
    BY <1>1, KeyInvariance, PTL

=============================================================================
