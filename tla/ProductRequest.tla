---------------------------- MODULE ProductRequest ----------------------------
(***************************************************************************)
(* One HTTP request for a product from the query string to the counters of *)
(* /metrics: the stages it passes for each kind of product, where each can *)
(* fail, the error the failure becomes on its way up, and the status the   *)
(* handler makes of it.                                                    *)
(*                                                                         *)
(* Every failure has a cause, which the client or the operator would name, *)
(* and a class, which is all that errors.Is can find out at the top: most  *)
(* call sites wrap with "%w: %v", which keeps the class and drops what it  *)
(* was made of.  The wait for another build, the slot and the cache are    *)
(* stages here; BuildFlight.tla and DiskCache.tla have their detail.       *)
(***************************************************************************)
EXTENDS Naturals, FiniteSets

CONSTANTS
    Requests,   \* requests, each handled once
    Kinds       \* of "image", "ndvi", "stac", "wms", "arcgis", "tiles"

ASSUME RequestsAssumption == IsFiniteSet(Requests)
ASSUME KindsAssumption ==
    Kinds \subseteq {"image", "ndvi", "stac", "wms", "arcgis", "tiles"}

VARIABLES
    kind,       \* kind[r]: what request r asks for
    stage,      \* stage[r]: where it is
    cause,      \* cause[r]: what went wrong with it, "none" if nothing did
    class,      \* class[r]: the sentinel error its error wraps
    hit,        \* hit[r]: the product came from the cache
    gone,       \* gone[r]: its client has disconnected
    status,     \* status[r]: the status written, 0 before
    total,      \* satfetch_requests_total by status
    hits, builds, stacErrors    \* the other counters

vars == <<kind, stage, cause, class, hit, gone, status,
          total, hits, builds, stacErrors>>

metricVars == <<total, hits, builds, stacErrors>>

\* What http.ServeContent answers about a product, by the request's headers: all
\* of it or a range, that it has not changed, that it is not the one meant
\* (If-Match, If-Unmodified-Since), or that there is no such range.
Served == {200, 206, 304, 412, 416}

Statuses == Served \cup {400, 404, 500, 502, 504}

Causes == {"none", "input", "coverage", "upstream", "timeout", "client", "disk", "panic"}

Classes == {"none", "invalid", "noscene", "outside", "deadline", "canceled", "upstream", "other"}

-----------------------------------------------------------------------------
(* The stages of the products.                                             *)

\* Products of a catalog scene: image, ndvi and the STAC orthophotos.
FromScene == {"image", "ndvi", "stac"}

\* Orthophotos a server renders, streamed into the cache.
Rendered == {"wms", "arcgis"}

Following(k, s) ==
    CASE s = "params" -> "normalize"
      [] s = "normalize" -> IF k \in FromScene THEN "resolve" ELSE "lookup"
      [] s = "resolve" -> "lookup"
      [] s = "lookup" -> "slot"
      [] s = "slot" -> IF k \in FromScene THEN "open" ELSE "aoi"
      [] s = "open" -> "window"
      [] s = "window" -> "read"
      [] s = "read" -> "render"
      [] s = "render" -> "put"
      [] s = "aoi" -> IF k \in Rendered THEN "stream" ELSE "fetch"
      [] s = "fetch" -> "put"
      [] s = "stream" -> "serve"
      [] s = "put" -> "serve"

BuildStages == {"open", "window", "read", "render", "put", "aoi", "fetch", "stream"}

Passing == {"params", "normalize", "resolve", "lookup", "slot"} \cup BuildStages

Places == Passing \cup {"serve", "fail", "count", "end"}

Failure(ca, cl) == [cause |-> ca, class |-> cl]

\* A fetch inside a build: the upstream fails, the build's timeout passes or
\* the client goes.  All of it is wrapped into ErrUpstream.
FetchFailures(g) ==
    {Failure("upstream", "upstream"), Failure("timeout", "upstream")}
    \cup (IF g THEN {Failure("client", "upstream")} ELSE {})

\* A wait outside a build returns ctx.Err() as it is.
Canceled(g) == IF g THEN {Failure("client", "canceled")} ELSE {}

ParamsFailures == {Failure("input", "invalid")}

NormalizeFailures == {Failure("input", "invalid")}

\* Faulty variant: a search without a match is an upstream error.
ResolveFailuresUniform(g) ==
    {Failure("upstream", "upstream"), Failure("coverage", "upstream")}
    \cup Canceled(g)

ResolveFailures(g) ==
    {Failure("upstream", "upstream"), Failure("coverage", "noscene")}
    \cup Canceled(g)
    \cup (IF g THEN {Failure("client", "upstream")} ELSE {})

\* No CRS, or grids that differ; a box across the antimeridian; a CRS the
\* projection does not support; a box outside the scene.
WindowFailures ==
    {Failure("upstream", "upstream"), Failure("input", "invalid"),
     Failure("upstream", "invalid"), Failure("coverage", "outside")}

AoiFailures == {Failure("input", "invalid")}

\* tiles.Fetch checks the latitude itself; its caller wraps every error alike.
TileFailures(g) == FetchFailures(g) \cup {Failure("input", "upstream")}

\* The callback of Put wraps whatever the fetch reports, failing writes too.
StreamFailures(g) ==
    FetchFailures(g) \cup {Failure("disk", "upstream"), Failure("disk", "other")}

\* How request r can fail at its present stage.
Failures(r) ==
    CASE stage[r] = "params" -> ParamsFailures
      [] stage[r] = "normalize" -> NormalizeFailures
      [] stage[r] = "resolve" -> ResolveFailures(gone[r])
      [] stage[r] \in {"lookup", "slot"} -> Canceled(gone[r])
      [] stage[r] \in {"open", "read"} -> FetchFailures(gone[r])
      [] stage[r] = "window" -> WindowFailures
      [] stage[r] = "render" -> {Failure("upstream", "other")}
      [] stage[r] = "aoi" -> AoiFailures
      [] stage[r] = "fetch" -> TileFailures(gone[r])
      [] stage[r] = "stream" -> StreamFailures(gone[r])
      [] stage[r] = "put" -> {Failure("disk", "other")}

Init ==
    /\ kind \in [Requests -> Kinds]
    /\ stage = [r \in Requests |-> "params"]
    /\ cause = [r \in Requests |-> "none"]
    /\ class = [r \in Requests |-> "none"]
    /\ hit = [r \in Requests |-> FALSE]
    /\ gone = [r \in Requests |-> FALSE]
    /\ status = [r \in Requests |-> 0]
    /\ total = [s \in Statuses |-> 0]
    /\ hits = 0
    /\ builds = 0
    /\ stacErrors = 0

Goto(r, s) == stage' = [stage EXCEPT ![r] = s]

Answer(r, s) == status' = [status EXCEPT ![r] = s]

-----------------------------------------------------------------------------
Disconnect(r) ==
    /\ stage[r] # "end"
    /\ ~gone[r]
    /\ gone' = [gone EXCEPT ![r] = TRUE]
    /\ UNCHANGED <<kind, stage, cause, class, hit, status, metricVars>>

Pass(r) ==
    /\ stage[r] \in Passing
    /\ Goto(r, Following(kind[r], stage[r]))
    /\ UNCHANGED <<kind, cause, class, hit, gone, status, metricVars>>

\* buildCached finds the product.
Hit(r) ==
    /\ stage[r] = "lookup"
    /\ hit' = [hit EXCEPT ![r] = TRUE]
    /\ Goto(r, "serve")
    /\ UNCHANGED <<kind, cause, class, gone, status, metricVars>>

Fail(r) ==
    /\ stage[r] \in Passing
    /\ \E f \in Failures(r) :
         /\ cause' = [cause EXCEPT ![r] = f.cause]
         /\ class' = [class EXCEPT ![r] = f.class]
    /\ Goto(r, "fail")
    /\ UNCHANGED <<kind, hit, gone, status, metricVars>>

\* A build panics: ServeHTTP recovers and answers, but the counter of the
\* endpoint is skipped on the way.
Panic(r) ==
    /\ stage[r] \in BuildStages
    /\ cause' = [cause EXCEPT ![r] = "panic"]
    /\ Answer(r, 500)
    /\ Goto(r, "end")
    /\ UNCHANGED <<kind, class, hit, gone, metricVars>>

\* Faulty variant: a hit is counted as a build too.
ServeCountsBoth(r) ==
    /\ stage[r] = "serve"
    /\ hits' = IF hit[r] THEN hits + 1 ELSE hits
    /\ builds' = builds + 1
    /\ \/ \E s \in Served : Answer(r, s) /\ UNCHANGED cause
       \/ Answer(r, 500) /\ cause' = [cause EXCEPT ![r] = "disk"]
    /\ Goto(r, "count")
    /\ UNCHANGED <<kind, class, hit, gone, total, stacErrors>>

\* serveResult: count the hit or the build, then open the product.
Serve(r) ==
    /\ stage[r] = "serve"
    /\ IF hit[r]
       THEN hits' = hits + 1 /\ UNCHANGED builds
       ELSE builds' = builds + 1 /\ UNCHANGED hits
    /\ \/ \E s \in Served : Answer(r, s) /\ UNCHANGED cause
       \/ Answer(r, 500) /\ cause' = [cause EXCEPT ![r] = "disk"]
    /\ Goto(r, "count")
    /\ UNCHANGED <<kind, class, hit, gone, total, stacErrors>>

\* Faulty variant: a status /metrics has no row for.
StatusOfUnavailable(cl) ==
    CASE cl = "invalid" -> 400
      [] cl \in {"noscene", "outside"} -> 404
      [] OTHER -> 503

StatusOf(cl) ==
    CASE cl = "invalid" -> 400
      [] cl \in {"noscene", "outside"} -> 404
      [] cl = "deadline" -> 504
      [] OTHER -> 502

\* writeProductError, and writeError(400) for bad parameters.
WriteError(r) ==
    /\ stage[r] = "fail"
    /\ Answer(r, StatusOf(class[r]))
    /\ stacErrors' = IF class[r] = "upstream" THEN stacErrors + 1 ELSE stacErrors
    /\ Goto(r, "count")
    /\ UNCHANGED <<kind, cause, class, hit, gone, total, hits, builds>>

\* Faulty variant: the status is read before the handler has set it.
CountDefault(r) ==
    /\ stage[r] = "count"
    /\ total' = [total EXCEPT ![200] = total[200] + 1]
    /\ Goto(r, "end")
    /\ UNCHANGED <<kind, cause, class, hit, gone, status, hits, builds, stacErrors>>

\* endpoint: the handler has returned.
Count(r) ==
    /\ stage[r] = "count"
    /\ total' = [total EXCEPT ![status[r]] = total[status[r]] + 1]
    /\ Goto(r, "end")
    /\ UNCHANGED <<kind, cause, class, hit, gone, status, hits, builds, stacErrors>>

Next ==
    \E r \in Requests :
        \/ Disconnect(r) \/ Pass(r) \/ Hit(r) \/ Fail(r) \/ Panic(r)
        \/ Serve(r) \/ WriteError(r) \/ Count(r)

Spec == Init /\ [][Next]_vars

-----------------------------------------------------------------------------
(* Properties.                                                             *)

\* Every variable has its type.
TypeOK ==
    /\ kind \in [Requests -> Kinds]
    /\ stage \in [Requests -> Places]
    /\ cause \in [Requests -> Causes]
    /\ class \in [Requests -> Classes]
    /\ hit \in [Requests -> BOOLEAN]
    /\ gone \in [Requests -> BOOLEAN]
    /\ status \in [Requests -> Statuses \cup {0}]
    /\ total \in [Statuses -> Nat]
    /\ hits \in Nat
    /\ builds \in Nat
    /\ stacErrors \in Nat

\* /metrics counts every finished request once, under the status it was sent,
\* those that panicked aside.
Counted(s) ==
    {r \in Requests : stage[r] = "end" /\ cause[r] # "panic" /\ status[r] = s}

TotalsMatch == \A s \in Statuses : total[s] = Cardinality(Counted(s))

\* The counters agree with each other: when no request is between two of
\* them, hits and builds add up to the requests that got a product or found
\* it gone.
BooksBalance ==
    (\A r \in Requests : stage[r] # "count") =>
        hits + builds =
            total[200] + total[206] + total[304] + total[412] + total[416] + total[500]

\* 404 is the answer to a request for what is not covered, and to no other:
\* no failure on the way to a product passes for a missing scene, and no
\* missing scene for a failure.
CoverageIs404 ==
    \A r \in Requests : status[r] # 0 =>
        (status[r] = 404 <=> cause[r] = "coverage")

\* "504 build timeout" (SPEC.md:114).  Every fetch of a build wraps its error
\* with %v, so DeadlineExceeded is lost and the answer is 502.
TimeoutIs504 == \A r \in Requests : cause[r] = "timeout" /\ status[r] # 0 => status[r] = 504

=============================================================================
