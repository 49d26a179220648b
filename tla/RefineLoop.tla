----------------------------- MODULE RefineLoop -----------------------------
(***************************************************************************)
(* Refine (refine.py) on the LoopRunner (loop_runner.py): produce, judge,  *)
(* stop when the score is high enough, otherwise go on and return the best *)
(* candidate in the end.  An iteration collects the traces of its two      *)
(* calls in a collector of its own and pushes one parent trace when both   *)
(* are over.                                                               *)
(***************************************************************************)
EXTENDS Integers, Sequences

CONSTANTS
  MaxIterations,
  MinScore,
  QualityScores   \* what the judge may say

VARIABLES
  at,        \* where the loop is
  history,   \* the scores of its candidates, one per iteration
  answered,  \* calls that came back
  traced,    \* calls in the traces pushed to the program's collector
  chosen     \* the iteration whose candidate is returned, or 0

vars == <<at, history, answered, traced, chosen>>

Init ==
  /\ at = "producing"
  /\ history = <<>>
  /\ answered = 0
  /\ traced = 0
  /\ chosen = 0

\* The producer, told about the critique of the last candidate.
Produce ==
  /\ at = "producing"
  /\ at' = "judging"
  /\ answered' = answered + 1
  /\ UNCHANGED <<history, traced, chosen>>

\* max(history, key=score): the first of the highest.
\* A bug: the last of the highest.
LastHighest(h) == CHOOSE k \in DOMAIN h : \A j \in DOMAIN h :
  h[k] > h[j] \/ (h[k] = h[j] /\ k >= j)
Highest(h) == CHOOSE k \in DOMAIN h : \A j \in DOMAIN h :
  h[k] > h[j] \/ (h[k] = h[j] /\ k <= j)

\* The judge scores the candidate; the loop stops for its quality or because
\* it was the last.
JudgeIt ==
  /\ at = "judging"
  /\ \E score \in QualityScores :
       LET h == Append(history, score) IN
         /\ history' = h
         /\ \/ /\ score >= MinScore
               /\ at' = "returned" /\ chosen' = Len(h)
            \/ /\ score < MinScore /\ Len(h) = MaxIterations
               /\ at' = "returned" /\ chosen' = Highest(h)
            \/ /\ score < MinScore /\ Len(h) < MaxIterations
               /\ at' = "producing" /\ UNCHANGED chosen
  /\ answered' = answered + 1
  /\ traced' = traced + 2

\* The producer or the judge raises, and with propagate_errors so does the
\* loop: earlier candidates are gone, and the collector of the iteration too.
Raises ==
  /\ at \in {"producing", "judging"}
  /\ at' = "raised"
  /\ UNCHANGED <<history, answered, traced, chosen>>

Next == Produce \/ JudgeIt \/ Raises

Spec == Init /\ [][Next]_vars

-----------------------------------------------------------------------------
TypeOK ==
  /\ at \in {"producing", "judging", "returned", "raised"}
  /\ history \in Seq(QualityScores) /\ Len(history) <= MaxIterations
  /\ answered \in 0..(2 * MaxIterations)
  /\ traced \in 0..(2 * MaxIterations)
  /\ chosen \in 0..MaxIterations

\* The candidate that is returned has the best score of all that were judged,
\* and no earlier one has as good a score, on the early exit as well as when
\* the iterations are used up; its program has a trace of every call the loop
\* made.
ReturnsBest ==
  at = "returned" =>
    /\ \A k \in DOMAIN history :
         history[k] <= history[chosen] /\ (k < chosen => history[k] < history[chosen])
    /\ traced = answered

-----------------------------------------------------------------------------
(* Why it holds: the inductive invariant *)

\* While the loop runs, an iteration has the trace of the producer still to
\* push when its judge is asked, and no candidate so far was good enough.
LoopGoesOn ==
  /\ at = "producing" => traced = answered
  /\ at = "judging" => traced + 1 = answered
  /\ at \in {"producing", "judging"} =>
       /\ traced = 2 * Len(history)
       /\ Len(history) < MaxIterations
       /\ \A k \in DOMAIN history : history[k] < MinScore

RefineInv ==
  /\ TypeOK /\ LoopGoesOn
  /\ at = "returned" => chosen \in DOMAIN history /\ ReturnsBest
=============================================================================
