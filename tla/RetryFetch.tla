------------------------------ MODULE RetryFetch ------------------------------
(***************************************************************************)
(* The retry loop every upstream request goes through.  The code has it    *)
(* five times: the STAC search, the range reads of a COG, the tiles of a   *)
(* tile server, the WMS map and the ArcGIS export.  The loops are alike;   *)
(* what an answer means (done, an error, try again) differs and is one     *)
(* operator for each.                                                      *)
(*                                                                         *)
(* A map or an export streams its body into the file cache.Put writes, so  *)
(* the bytes of a failed attempt are not taken back: sink names the        *)
(* attempts whose bytes are in it.                                         *)
(***************************************************************************)
EXTENDS Naturals, FiniteSets

CONSTANTS
    Kinds,         \* the loops to run, of "search", "range", "tile", "map", "export"
    MaxAttempts    \* 4 in the code

ASSUME KindsAssumption ==
    Kinds \subseteq {"search", "range", "tile", "map", "export"}
ASSUME MaxAttemptsAssumption == MaxAttempts \in Nat \ {0}

VARIABLES
    kind,        \* which loop this is
    atZero,      \* a range read starts at offset 0
    pastEnd,     \* a range read extends past the end of the source
    pc,          \* "send", "reply", "backoff", "done"
    attempt,     \* the loop's counter
    ctxDone,     \* the build's context is done
    live,        \* the context was alive when the attempt began
    late,        \* attempts begun after the context was done (history)
    sink,        \* attempts whose body bytes were streamed to the file
    result       \* what the call returned

vars == <<kind, atZero, pastEnd, pc, attempt, ctxDone, live, late, sink, result>>

(* How an attempt can go: client.Do fails; the answer is a status with no  *)
(* use for its body; or a body comes, in full, cut short of its announced  *)
(* length, broken off with another error, or not what was asked for.       *)
Statuses == {"5xx", "4xx", "absent", "unsatisfiable"}
Bodies == {"full", "short", "broken", "wrongtype"}
Replies == {"neterr"} \cup Statuses \cup Bodies

Results == {"none", "ok", "short", "eof", "skip", "error", "transient", "ctx"}

Init ==
    /\ kind \in Kinds
    /\ atZero \in BOOLEAN
    /\ pastEnd \in BOOLEAN
    /\ pc = "send"
    /\ attempt = 0
    /\ ctxDone = FALSE
    /\ live = FALSE
    /\ late = 0
    /\ sink = {}
    /\ result = "none"

-----------------------------------------------------------------------------
(* What an attempt means to its loop: "retry" or the result of the call.   *)

\* trySearch: everything but 200 with a JSON body of good items is an error.
JudgeSearch(reply) ==
    IF reply = "full" THEN "ok"
    ELSE IF reply \in {"neterr", "5xx"} THEN "retry"
    ELSE "error"

\* tryRange: 200 answers the prefix only; a body that ends early is taken for
\* the end of the source.
JudgeRange(reply) ==
    CASE reply = "full" -> IF pastEnd THEN "short" ELSE "ok"
      [] reply = "short" -> "short"
      [] reply = "unsatisfiable" -> "eof"
      [] reply = "wrongtype" /\ atZero -> IF pastEnd THEN "short" ELSE "ok"
      [] reply \in {"neterr", "5xx", "broken"} -> "retry"
      [] OTHER -> "error"

\* tryTile: 404 and 204 are no error.
JudgeTile(reply) ==
    CASE reply \in {"full", "wrongtype"} -> "ok"
      [] reply = "absent" -> "skip"
      [] reply \in {"neterr", "5xx", "short", "broken"} -> "retry"
      [] OTHER -> "error"

\* Faulty variant: a body that breaks off is tried again.
JudgeMapRetriesBody(reply) ==
    IF reply = "full" THEN "ok"
    ELSE IF reply \in {"neterr", "5xx", "broken"} THEN "retry"
    ELSE "error"

\* tryFetch of wms: only an image is a success, and an error of its body is
\* final, for part of it may be written.
JudgeMap(reply) ==
    IF reply = "full" THEN "ok"
    ELSE IF reply \in {"neterr", "5xx"} THEN "retry"
    ELSE "error"

\* tryFetch of arcgis, the same.
JudgeExport(reply) ==
    IF reply = "full" THEN "ok"
    ELSE IF reply \in {"neterr", "5xx"} THEN "retry"
    ELSE "error"

Judge(reply) ==
    CASE kind = "search" -> JudgeSearch(reply)
      [] kind = "range" -> JudgeRange(reply)
      [] kind = "tile" -> JudgeTile(reply)
      [] kind = "map" -> JudgeMap(reply)
      [] kind = "export" -> JudgeExport(reply)

\* Faulty variant: the context is never asked.
CtxErrorUnasked(reply) == FALSE

\* Faulty variant: the client's own timeout is taken for the context's.
CtxErrorByTimeout(reply) == reply = "neterr"

\* Errors of the transport and of the body are the context's when it is done.
\* The search decodes its body without asking.
CtxError(reply) ==
    /\ ctxDone
    /\ \/ reply = "neterr"
       \/ kind # "search" /\ reply = "broken"
       \/ kind \in {"tile", "map", "export"} /\ reply = "short"

-----------------------------------------------------------------------------
CtxEnds ==
    /\ pc # "done"
    /\ ~ctxDone
    /\ ctxDone' = TRUE
    /\ UNCHANGED <<kind, atZero, pastEnd, pc, attempt, live, late, sink, result>>

\* client.Do is called.
Send ==
    /\ pc = "send"
    /\ pc' = "reply"
    /\ live' = ~ctxDone
    /\ late' = IF ctxDone THEN late + 1 ELSE late
    /\ UNCHANGED <<kind, atZero, pastEnd, attempt, ctxDone, sink, result>>

\* What a map or an export has streamed by the end of the attempt.
Streamed(reply) ==
    IF kind \in {"map", "export"} /\ reply \in {"full", "short", "broken"}
    THEN sink \cup {attempt}
    ELSE sink

\* The attempt ends the call, well or with an error that is not retried.
Finish(reply) ==
    /\ pc = "reply"
    /\ live \/ reply = "neterr"
    /\ CtxError(reply) \/ Judge(reply) # "retry"
    /\ pc' = "done"
    /\ sink' = Streamed(reply)
    /\ result' = IF CtxError(reply) THEN "ctx" ELSE Judge(reply)
    /\ UNCHANGED <<kind, atZero, pastEnd, attempt, ctxDone, live, late>>

\* Faulty variant: one attempt too many.
TransientOnceMore(reply) ==
    /\ pc = "reply"
    /\ live \/ reply = "neterr"
    /\ ~CtxError(reply)
    /\ Judge(reply) = "retry"
    /\ sink' = Streamed(reply)
    /\ attempt' = attempt + 1
    /\ IF attempt <= MaxAttempts
       THEN pc' = "backoff" /\ UNCHANGED result
       ELSE pc' = "done" /\ result' = "transient"
    /\ UNCHANGED <<kind, atZero, pastEnd, ctxDone, live, late>>

\* Faulty variant: attempts are not counted.
TransientForever(reply) ==
    /\ pc = "reply"
    /\ live \/ reply = "neterr"
    /\ ~CtxError(reply)
    /\ Judge(reply) = "retry"
    /\ sink' = Streamed(reply)
    /\ pc' = "backoff"
    /\ UNCHANGED <<kind, atZero, pastEnd, attempt, ctxDone, live, late, result>>

\* A transient failure: back off, or give up after the last attempt.
Transient(reply) ==
    /\ pc = "reply"
    /\ live \/ reply = "neterr"
    /\ ~CtxError(reply)
    /\ Judge(reply) = "retry"
    /\ sink' = Streamed(reply)
    /\ attempt' = attempt + 1
    /\ IF attempt' < MaxAttempts
       THEN pc' = "backoff" /\ UNCHANGED result
       ELSE pc' = "done" /\ result' = "transient"
    /\ UNCHANGED <<kind, atZero, pastEnd, ctxDone, live, late>>

\* case <-time.After(delay)
BackoffElapsed ==
    /\ pc = "backoff"
    /\ pc' = "send"
    /\ UNCHANGED <<kind, atZero, pastEnd, attempt, ctxDone, live, late, sink, result>>

\* case <-ctx.Done(); with both ready either is taken.
BackoffCanceled ==
    /\ pc = "backoff"
    /\ ctxDone
    /\ pc' = "done"
    /\ result' = "ctx"
    /\ UNCHANGED <<kind, atZero, pastEnd, attempt, ctxDone, live, late, sink>>

Next ==
    \/ CtxEnds
    \/ Send
    \/ \E reply \in Replies : Finish(reply) \/ Transient(reply)
    \/ BackoffElapsed
    \/ BackoffCanceled

Spec == Init /\ [][Next]_vars

\* A request ends, by its answer or the client's timeout, and timers fire.
FairSpec ==
    /\ Spec
    /\ WF_vars(Send)
    /\ WF_vars(\E reply \in Replies : Finish(reply) \/ Transient(reply))
    /\ WF_vars(BackoffElapsed \/ BackoffCanceled)

-----------------------------------------------------------------------------
(* Properties.                                                             *)

\* Every variable has its type, and the loop makes at most four attempts.
TypeOK ==
    /\ kind \in Kinds
    /\ atZero \in BOOLEAN
    /\ pastEnd \in BOOLEAN
    /\ pc \in {"send", "reply", "backoff", "done"}
    /\ attempt \in 0 .. MaxAttempts
    /\ ctxDone \in BOOLEAN
    /\ live \in BOOLEAN
    /\ late \in Nat
    /\ sink \in SUBSET (0 .. MaxAttempts - 1)
    /\ result \in Results

\* The file a map or an export is streamed into never holds the bytes of two
\* attempts, and a success is the body of the last one alone: a retry never
\* appends to what a failed attempt left.
NoMixedBody ==
    /\ Cardinality(sink) <= 1
    /\ kind \in {"map", "export"} /\ result = "ok" => sink = {attempt}

\* A call whose context is done makes at most one more attempt, the one whose
\* timer fired together with the cancellation, and that one fails.
StopsWhenCanceled == late <= 1 /\ (late = 1 => result \in {"none", "ctx"})

\* "ctx" is reported only when the context is done, and a call is given up for
\* a transient failure only after its last attempt.
HonestResult ==
    /\ result = "ctx" => ctxDone
    /\ result = "transient" => attempt = MaxAttempts

\* The call returns, whatever the upstream answers.
Returns == <>(pc = "done")

\* "n < len(p) only when the range extends past the end of the source"
\* (source.go:16-18).  A connection that drops inside the body ends ReadFull
\* with ErrUnexpectedEOF, and the bytes so far are returned as a success.
ShortOnlyPastEnd == kind = "range" /\ result = "short" => pastEnd

=============================================================================
