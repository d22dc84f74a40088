------------------------------ MODULE RequestKey ------------------------------
(***************************************************************************)
(* What a request asks for: the query's values as params reads them, the   *)
(* request as normalize leaves it, the scene or source it resolves to, the *)
(* key its product has in the cache, and the product it is served.  The    *)
(* stages and failures on the way are those of ProductRequest.tla, whose   *)
(* actions these refine: here they depend on what was asked.               *)
(*                                                                         *)
(* Coordinates are in units of 10^-7 degrees and sizes of 10^-4 km, one    *)
(* digit more than the key has.  A key is the sequence of its fields; the  *)
(* code joins them with "|", which tells the same apart if no scene id or  *)
(* source name contains one.  Nothing leaves the cache here.               *)
(***************************************************************************)
EXTENDS ProductRequest, Integers

CONSTANTS
    Bursts,     \* what the requests ask for, together
    Sources,    \* the configured sources by name, with their defaults filled in
    Scenes,     \* what a catalog may come up with
    Absent,     \* a parameter the query does not have
    Garbage,    \* one that is no number
    NaN         \* one that ParseFloat takes for a number

\* The values of a query: params.float takes NaN, params.integer does not.
Floats == Int \cup {Absent, Garbage, NaN}

Wholes == Int \cup {Absent, Garbage}

Queries ==
    [path : {"image", "ndvi", "ortho"}, source : STRING, sceneID : STRING, format : STRING,
     lat : Floats, lon : Floats, size : Floats, cloud : Floats,
     days : Wholes, maxPx : Wholes, px : Wholes]

ASSUME BurstsAssumption == Bursts \subseteq [Requests -> Queries]
\* Only the orthophotos have a source.
ASSUME SourceAssumption ==
    \A b \in Bursts : \A r \in Requests : b[r].path # "ortho" => b[r].source = ""
ASSUME SourcesAssumption ==
    \A s \in DOMAIN Sources :
        Sources[s].kind \in {"stac", "wms", "arcgis", "tiles"} /\ Sources[s].maxPx \in Nat
ASSUME ValuesAssumption ==
    /\ Absent \notin Int /\ Garbage \notin Int /\ NaN \notin Int
    /\ Absent # Garbage /\ Absent # NaN /\ Garbage # NaN

VARIABLES
    asked,      \* asked[r]: the query of request r
    taken,      \* taken[r]: the request made of it
    scene,      \* scene[r]: the catalog item of its product
    shelf       \* the products in the cache, by key

keyVars == <<asked, taken, scene, shelf>>
allVars == <<vars, keyVars>>

None == [path |-> "none"]

-----------------------------------------------------------------------------
(* The limits of the numbers, in the handlers and in the service.          *)

Limit(def, lo, hi) == [def |-> def, lo |-> lo, hi |-> hi]

Degree == 10000000
Km == 10000

Lat == Limit(0, -90 * Degree, 90 * Degree)

Lon == Limit(0, -180 * Degree, 180 * Degree)

\* Faulty variant: the handler's own idea of how far back a search may go.
HttpLimitsLonger(path) ==
    IF path = "ortho"
    THEN [lat |-> Lat, lon |-> Lon,
          size |-> Limit(Km, Km \div 10, 10 * Km), px |-> Limit(1024, 64, 4096)]
    ELSE [lat |-> Lat, lon |-> Lon,
          size |-> Limit(5 * Km, Km \div 2, 50 * Km), cloud |-> Limit(20, 0, 100),
          days |-> Limit(30, 1, 366), maxPx |-> Limit(0, 0, 16384)]

HttpLimits(path) ==
    IF path = "ortho"
    THEN [lat |-> Lat, lon |-> Lon,
          size |-> Limit(Km, Km \div 10, 10 * Km), px |-> Limit(1024, 64, 4096)]
    ELSE [lat |-> Lat, lon |-> Lon,
          size |-> Limit(5 * Km, Km \div 2, 50 * Km), cloud |-> Limit(20, 0, 100),
          days |-> Limit(30, 1, 365), maxPx |-> Limit(0, 0, 16384)]

ServiceLimits(path) ==
    IF path = "ortho"
    THEN [lat |-> Lat, lon |-> Lon,
          size |-> Limit(Km, Km \div 10, 10 * Km), px |-> Limit(1024, 64, 4096)]
    ELSE [lat |-> Lat, lon |-> Lon,
          size |-> Limit(5 * Km, Km \div 2, 50 * Km), cloud |-> Limit(20, 0, 100),
          days |-> Limit(30, 1, 365), maxPx |-> Limit(0, 0, 16384), quality |-> Limit(85, 1, 100)]

\* Every comparison with NaN is false, so a NaN is never out of range.
OutOfRange(v, limit) == v # NaN /\ (v < limit.lo \/ v > limit.hi)

\* params.float, params.integer and requiredFloat.
ReadOK(q, f) ==
    LET v == q[f]
    IN  IF v = Absent THEN f \notin {"lat", "lon"}
        ELSE v # Garbage /\ ~OutOfRange(v, HttpLimits(q.path)[f])

ReadValue(q, f) == IF q[f] = Absent THEN HttpLimits(q.path)[f].def ELSE q[f]

ParamsOK(q) == \A f \in DOMAIN HttpLimits(q.path) : ReadOK(q, f)

\* The struct the handler fills in.  It leaves the JPEG quality to the service.
Filled(q) ==
    LET numbers == DOMAIN HttpLimits(q.path)
    IN  [f \in numbers \cup {"path", "source", "sceneID", "format", "quality"} |->
            CASE f \in numbers -> ReadValue(q, f)
              [] f = "quality" -> 0
              [] OTHER -> q[f]]

Formats(path) ==
    CASE path = "image" -> {"png", "jpeg", "gtiff"}
      [] path = "ndvi" -> {"png", "gtiff"}
      [] path = "ortho" -> {"png", "jpeg"}

\* normalize: zero stands for the default.  A coordinate has none.
Normal(n) ==
    LET limits == ServiceLimits(n.path)
    IN  [f \in DOMAIN n |->
            CASE f \in DOMAIN limits /\ n[f] = 0 -> limits[f].def
              [] f = "format" /\ n[f] = "" -> IF n.path = "ortho" THEN "jpeg" ELSE "png"
              [] OTHER -> n[f]]

NumbersOK(n) ==
    /\ n.lat # NaN /\ n.lon # NaN
    /\ \A f \in DOMAIN ServiceLimits(n.path) : ~OutOfRange(n[f], ServiceLimits(n.path)[f])

\* normalize's verdict, and Ortho's on the source.
Valid(n) ==
    /\ NumbersOK(n)
    /\ n.format \in Formats(n.path)
    /\ n.path = "ortho" => n.source \in DOMAIN Sources

\* The kind of product; of an unknown source none is ever made.
KindOf(q) ==
    IF q.path # "ortho" THEN q.path
    ELSE IF q.source \in DOMAIN Sources THEN Sources[q.source].kind ELSE "wms"

-----------------------------------------------------------------------------
(* The key of a product.                                                   *)

\* A number with a digit less: "%.6f" of a coordinate, "%.3f" of a size.
Fixed(v) == IF v = NaN THEN NaN ELSE (v + 5) \div 10

\* The output's size in pixels: map servers and catalogs have a limit of their
\* own, tile servers none.
Px(n, k) ==
    IF k = "tiles" \/ n.px <= Sources[n.source].maxPx THEN n.px ELSE Sources[n.source].maxPx

\* Faulty variant: the size in pixels is left out.
KeyOfAnyPx(n, k, sc) ==
    LET quality == IF n.format = "jpeg" THEN n.quality ELSE 0
    IN  IF n.path # "ortho"
        THEN <<"v1", sc, n.path, Fixed(n.lat), Fixed(n.lon), Fixed(n.size),
               n.format, quality>>
        ELSE IF k = "stac"
        THEN <<"v1-ortho", n.source, sc, Fixed(n.lat), Fixed(n.lon), Fixed(n.size),
               n.format>>
        ELSE <<"v1-ortho", n.source, Fixed(n.lat), Fixed(n.lon), Fixed(n.size),
               n.format>>

KeyOf(n, k, sc) ==
    LET quality == IF n.format = "jpeg" THEN n.quality ELSE 0
    IN  IF n.path # "ortho"
        THEN <<"v1", sc, n.path, Fixed(n.lat), Fixed(n.lon), Fixed(n.size),
               n.maxPx, n.format, quality>>
        ELSE IF k = "stac"
        THEN <<"v1-ortho", n.source, sc, Fixed(n.lat), Fixed(n.lon), Fixed(n.size),
               Px(n, k), n.format>>
        ELSE <<"v1-ortho", n.source, Fixed(n.lat), Fixed(n.lon), Fixed(n.size),
               Px(n, k), n.format>>

Key(r) == KeyOf(taken[r], kind[r], scene[r])

OnShelf(r) == \E p \in shelf : p.key = Key(r)

\* The product that is built for a request.
Made(r) == [key |-> Key(r), request |-> taken[r], kind |-> kind[r], scene |-> scene[r]]

-----------------------------------------------------------------------------
KeyInit ==
    /\ Init
    /\ asked \in Bursts
    /\ \A r \in Requests : kind[r] = KindOf(asked[r])
    /\ taken = [r \in Requests |-> None]
    /\ scene = [r \in Requests |-> "none"]
    /\ shelf = {}

\* The handler reads the query: the first value it cannot take is its answer.
Read(r) ==
    /\ stage[r] = "params"
    /\ IF ParamsOK(asked[r])
       THEN Pass(r) /\ taken' = [taken EXCEPT ![r] = Filled(asked[r])]
       ELSE Fail(r) /\ UNCHANGED taken
    /\ UNCHANGED <<asked, scene, shelf>>

Normalize(r) ==
    /\ stage[r] = "normalize"
    /\ IF Valid(Normal(taken[r]))
       THEN Pass(r) /\ taken' = [taken EXCEPT ![r] = Normal(taken[r])]
       ELSE Fail(r) /\ UNCHANGED taken
    /\ UNCHANGED <<asked, scene, shelf>>

\* A pinned scene is that one; a search may find any.
Resolve(r) ==
    /\ stage[r] = "resolve"
    /\ \/ \E sc \in (IF taken[r].sceneID # "" THEN {taken[r].sceneID} ELSE Scenes) :
            Pass(r) /\ scene' = [scene EXCEPT ![r] = sc]
       \/ Fail(r) /\ UNCHANGED scene
    /\ UNCHANGED <<asked, taken, shelf>>

\* Another request is building the product.
InFlight(r) ==
    \E q \in Requests \ {r} : stage[q] \in BuildStages \cup {"slot"} /\ Key(q) = Key(r)

\* buildCached: the product is there, or it is built unless somebody does.
LookUp(r) ==
    /\ stage[r] = "lookup"
    /\ \/ Hit(r) /\ OnShelf(r)
       \/ Pass(r) /\ ~OnShelf(r) /\ ~InFlight(r)
       \/ Fail(r)
    /\ UNCHANGED keyVars

BuildOn(r) ==
    /\ stage[r] \in (BuildStages \cup {"slot"}) \ {"put", "stream"}
    /\ Pass(r) \/ Fail(r)
    /\ UNCHANGED keyVars

\* Put publishes the product under the key.
Publish(r) ==
    /\ stage[r] \in {"put", "stream"}
    /\ \/ Pass(r) /\ shelf' = {p \in shelf : p.key # Key(r)} \cup {Made(r)}
       \/ Fail(r) /\ UNCHANGED shelf
    /\ UNCHANGED <<asked, taken, scene>>

Answered(r) ==
    /\ Panic(r) \/ Serve(r) \/ WriteError(r) \/ Count(r) \/ Disconnect(r)
    /\ UNCHANGED keyVars

KeyNext ==
    \E r \in Requests :
        \/ Read(r) \/ Normalize(r) \/ Resolve(r) \/ LookUp(r)
        \/ BuildOn(r) \/ Publish(r) \/ Answered(r)

KeySpec == KeyInit /\ [][KeyNext]_allVars

-----------------------------------------------------------------------------
(* Properties.                                                             *)

\* Two numbers that the key does not tell apart.
Near(a, b) == IF NaN \in {a, b} THEN a = b ELSE a - b \in -10 .. 10

\* What a product served to a request must have in common with it.
Suits(p, r) ==
    LET n == taken[r]
        m == p.request
    IN  /\ p.kind = kind[r] /\ p.scene = scene[r] /\ m.source = n.source
        /\ m.format = n.format /\ m.format = "jpeg" => m.quality = n.quality
        /\ Near(m.lat, n.lat) /\ Near(m.lon, n.lon) /\ Near(m.size, n.size)
        /\ IF n.path = "ortho" THEN Px(m, p.kind) = Px(n, kind[r]) ELSE m.maxPx = n.maxPx

\* Whoever built it and for whom, the product that is served is one for what
\* was asked: of the scene or source, in the format, at the size, and at the
\* place to within the key's last digit.  The key tells all of these apart.
ServedAsAsked ==
    \A r \in Requests : stage[r] = "serve" => \E p \in shelf : p.key = Key(r) /\ Suits(p, r)

\* A number the client gives and the handler takes is the number the product is
\* made with, and none that the handler takes is refused by the service behind
\* it, with its own copy of the limits.  Two values slip through: an explicit
\* zero is the default (of max_cloud: 20, although 0 is in its range), and a
\* NaN for a size or a cloud cover is in every range; for a coordinate it is
\* caught by the service.
TakenAsGiven ==
    \A r \in Requests : taken[r] # None =>
        /\ \A f \in DOMAIN HttpLimits(asked[r].path) :
            asked[r][f] \notin {Absent, taken[r][f]} => asked[r][f] = 0 /\ f = "cloud"
        /\ taken[r].lat # NaN /\ taken[r].lon # NaN => NumbersOK(Normal(taken[r]))

=============================================================================
