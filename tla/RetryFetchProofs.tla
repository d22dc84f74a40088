--------------------------- MODULE RetryFetchProofs ---------------------------
(***************************************************************************)
(* Proofs about RetryFetch.tla, for any number of attempts.  The invariant *)
(* says what a call that is still retrying must not have done: streamed a  *)
(* byte, begun a second attempt under a dead context, or run out of        *)
(* attempts.                                                               *)
(***************************************************************************)
EXTENDS RetryFetch, FiniteSetTheorems, TLAPS

\* An unfinished call has attempts left and no result.
Unfinished ==
    pc # "done" => attempt < MaxAttempts /\ result = "none"

\* Only the attempt that ends the call has streamed anything.
StreamedLast ==
    /\ pc # "done" => sink = {}
    /\ sink \subseteq {attempt}
    /\ kind \in {"map", "export"} /\ result = "ok" => sink = {attempt}

\* An attempt begun under a dead context is the last.
LateIsLast ==
    \/ late = 0 /\ (pc = "reply" => live)
    \/ /\ late = 1
       /\ ctxDone
       /\ \/ pc = "reply" /\ ~live
          \/ pc = "done" /\ result = "ctx"

IInv ==
    /\ TypeOK
    /\ Unfinished
    /\ StreamedLast
    /\ LateIsLast
    /\ HonestResult

-----------------------------------------------------------------------------
(* What the loops make of an answer.                                       *)

\* Judge has a verdict for every answer.
LEMMA JudgeType ==
  ASSUME kind \in Kinds, NEW reply \in Replies
  PROVE  Judge(reply) \in {"ok", "short", "eof", "skip", "error", "retry"}
  <1> USE KindsAssumption
      DEF Replies, Statuses, Bodies, Judge, JudgeSearch, JudgeRange, JudgeTile,
          JudgeMap, JudgeExport
  <1>1. CASE kind = "search"
    BY <1>1
  <1>2. CASE kind = "range"
    BY <1>2
  <1>3. CASE kind = "tile"
    BY <1>3
  <1>4. CASE kind \in {"map", "export"}
    BY <1>4
  <1> QED
    BY <1>1, <1>2, <1>3, <1>4

\* The loops that stream never retry an attempt whose body has begun.
LEMMA StreamsAreFinal ==
  ASSUME kind \in {"map", "export"}, NEW reply \in {"full", "short", "broken"}
  PROVE  Judge(reply) # "retry"
  BY DEF Judge, JudgeMap, JudgeExport

\* A transport error is worth another attempt in every loop.
LEMMA NetErrIsTransient ==
  ASSUME kind \in Kinds
  PROVE  Judge("neterr") = "retry"
  BY KindsAssumption
  DEF Judge, JudgeSearch, JudgeRange, JudgeTile, JudgeMap, JudgeExport

\* A map or an export is a success only with a body in full.
LEMMA OkIsFull ==
  ASSUME kind \in {"map", "export"}, NEW reply \in Replies, Judge(reply) = "ok"
  PROVE  reply = "full"
  BY DEF Judge, JudgeMap, JudgeExport

-----------------------------------------------------------------------------

LEMMA InitIInv == Init => IInv
  <1> SUFFICES ASSUME Init PROVE IInv
    OBVIOUS
  <1>1. TypeOK
    <2>1. attempt \in 0 .. MaxAttempts /\ late \in Nat
      BY MaxAttemptsAssumption DEF Init
    <2> QED
      BY <2>1, Zenon DEF Init, TypeOK, Results
  <1> QED
    BY <1>1, MaxAttemptsAssumption
    DEF Init, IInv, Unfinished, StreamedLast, LateIsLast, HonestResult

LEMMA NextIInv == IInv /\ [Next]_vars => IInv'
  <1> SUFFICES ASSUME IInv, [Next]_vars PROVE IInv'
    OBVIOUS
  <1> USE MaxAttemptsAssumption DEF IInv
  <1>1. CASE CtxEnds
    BY <1>1 DEF CtxEnds, TypeOK, Unfinished, StreamedLast, LateIsLast, HonestResult
  <1>2. CASE Send
    <2>1. TypeOK'
      BY <1>2 DEF Send, TypeOK
    <2>2. Unfinished' /\ StreamedLast' /\ HonestResult'
      BY <1>2 DEF Send, Unfinished, StreamedLast, HonestResult
    <2>3. LateIsLast'
      <3>1. late = 0
        BY <1>2 DEF Send, LateIsLast
      <3>2. CASE ctxDone
        <4>1. pc' = "reply" /\ ~live' /\ ctxDone'
          BY <1>2, <3>2 DEF Send
        <4>2. late' = 1
          BY <1>2, <3>1, <3>2 DEF Send
        <4> QED
          BY <4>1, <4>2 DEF LateIsLast
      <3>3. CASE ~ctxDone
        <4>1. live'
          BY <1>2, <3>3 DEF Send
        <4> QED
          BY <1>2, <3>1, <3>3, <4>1 DEF Send, LateIsLast
      <3> QED
        BY <3>2, <3>3
    <2> QED
      BY <2>1, <2>2, <2>3
  <1>3. ASSUME NEW reply \in Replies, Finish(reply) PROVE IInv'
    <2>1. Judge(reply) \in {"ok", "short", "eof", "skip", "error", "retry"}
      BY JudgeType DEF TypeOK
    <2>2. result' \in {"ok", "short", "eof", "skip", "error", "ctx"}
      BY <1>3, <2>1 DEF Finish
    <2>3. sink' \subseteq {attempt} /\ attempt \in 0 .. MaxAttempts - 1
      BY <1>3 DEF Finish, Streamed, StreamedLast, Unfinished, TypeOK
    <2>4. TypeOK'
      BY <1>3, <2>2, <2>3 DEF Finish, TypeOK, Results
    <2>5. Unfinished' /\ HonestResult'
      BY <1>3, <2>1, <2>2 DEF Finish, Unfinished, HonestResult, CtxError
    <2>6. StreamedLast'
      <3>1. kind \in {"map", "export"} /\ result' = "ok" => reply = "full"
        BY <1>3, OkIsFull DEF Finish
      <3>2. kind \in {"map", "export"} /\ result' = "ok" => sink' = {attempt}
        BY <1>3, <3>1 DEF Finish, Streamed, StreamedLast
      <3> QED
        BY <1>3, <2>3, <3>2 DEF Finish, StreamedLast
    <2>7. LateIsLast'
      BY <1>3 DEF Finish, LateIsLast, CtxError
    <2> QED
      BY <2>4, <2>5, <2>6, <2>7
  <1>4. ASSUME NEW reply \in Replies, Transient(reply) PROVE IInv'
    <2>1. sink' = {}
      BY <1>4, StreamsAreFinal DEF Transient, Streamed, StreamedLast
    <2>2. attempt' \in 0 .. MaxAttempts
      BY <1>4 DEF Transient, TypeOK, Unfinished
    <2>3. TypeOK'
      BY <1>4, <2>1, <2>2 DEF Transient, TypeOK, Results
    <2>4. Unfinished' /\ HonestResult'
      BY <1>4, <2>2 DEF Transient, Unfinished, HonestResult
    <2>5. StreamedLast'
      BY <1>4, <2>1 DEF Transient, StreamedLast, Unfinished
    <2>6. LateIsLast'
      <3>1. live
        BY <1>4 DEF Transient, LateIsLast, CtxError
      <3> QED
        BY <1>4, <3>1 DEF Transient, LateIsLast
    <2> QED
      BY <2>3, <2>4, <2>5, <2>6
  <1>5. CASE BackoffElapsed
    BY <1>5 DEF BackoffElapsed, TypeOK, Unfinished, StreamedLast, LateIsLast,
                HonestResult
  <1>6. CASE BackoffCanceled
    BY <1>6 DEF BackoffCanceled, TypeOK, Results, Unfinished, StreamedLast,
                LateIsLast, HonestResult
  <1>7. CASE UNCHANGED vars
    BY <1>7 DEF vars, TypeOK, Unfinished, StreamedLast, LateIsLast, HonestResult
  <1> QED
    BY <1>1, <1>2, <1>3, <1>4, <1>5, <1>6, <1>7 DEF Next

LEMMA Invariance == Spec => []IInv
  BY InitIInv, NextIInv, PTL DEF Spec

-----------------------------------------------------------------------------

\* The loops make at most MaxAttempts attempts and keep their types.
THEOREM TypeCorrect == Spec => []TypeOK
  <1>1. IInv => TypeOK
    BY DEF IInv
  <1> QED
    BY <1>1, Invariance, PTL

\* The file of a map or an export never mixes the bodies of two attempts.
THEOREM NoMixedBodyHolds == Spec => []NoMixedBody
  <1>1. IInv => NoMixedBody
    <2> SUFFICES ASSUME IInv PROVE NoMixedBody
      OBVIOUS
    <2>1. sink = {} \/ sink = {attempt}
      BY DEF IInv, StreamedLast
    <2>2. Cardinality({attempt}) = 1 /\ Cardinality({}) = 0
      BY FS_EmptySet, FS_Singleton
    <2>3. Cardinality(sink) <= 1
      BY <2>1, <2>2
    <2> QED
      BY <2>3 DEF IInv, StreamedLast, NoMixedBody
  <1> QED
    BY <1>1, Invariance, PTL

\* A canceled call makes at most one more attempt, whose error is its result.
THEOREM StopsHolds == Spec => []StopsWhenCanceled
  <1>1. IInv => StopsWhenCanceled
    BY DEF IInv, LateIsLast, Unfinished, StopsWhenCanceled
  <1> QED
    BY <1>1, Invariance, PTL

\* A call reports the context only when it is done, and gives up for a
\* transient failure only after MaxAttempts attempts.
THEOREM HonestHolds == Spec => []HonestResult
  <1>1. IInv => HonestResult
    BY DEF IInv
  <1> QED
    BY <1>1, Invariance, PTL

=============================================================================
