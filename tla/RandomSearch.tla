------------------------------ MODULE RandomSearch ----------------------------
(***************************************************************************)
(* The random search of MiproLiteOptimizer (optimization/mipro_lite.py):   *)
(* sets of demonstrations and instructions are collected, pairs of them    *)
(* drawn, each measured on one minibatch, and the best few of them on the  *)
(* whole validation set.  A step that fails is left out and not charged.   *)
(***************************************************************************)
EXTENDS Integers, Sequences, FiniteSets, FiniteSetsExt

CONSTANTS
  None,
  Caps,            \* max_trials of the budget, None for no budget
  NumDemos, NumInstructions,
  NumTrials, NumPromoted,
  BatchScores, FullScores

VARIABLES
  at,
  cap,
  spent,      \* what the tracker has been charged, in trials
  round,      \* steps taken in this phase
  demos,      \* number of demo_candidates, the call's own being the first
  instrs,     \* number of instruction_candidates
  pairs,      \* pairs drawn so far
  candidates, \* the pairs that were measured: [pair, score]
  full,       \* the promoted candidates: [place, score], None if that failed
  held,       \* the pair that the call has
  before,     \* metric_before
  stop

sampling == <<demos, instrs>>
vars == <<at, cap, spent, round, sampling, pairs, candidates, full, held, before, stop>>

Original == <<0, 0>>
Exhausted(charged) == cap # None /\ charged >= cap

\* A step is charged or fails; what was left of the budget is not looked at.
Charge == spent' = spent + 1
Free == UNCHANGED spent

Init ==
  /\ at = "baseline"
  /\ cap \in Caps
  /\ spent = 0 /\ round = 0
  /\ demos = 1 /\ instrs = 1
  /\ pairs = {} /\ candidates = <<>> /\ full = <<>>
  /\ held = Original
  /\ before = None
  /\ stop = "completed"

\* An exhausted budget is noted and every later phase finds it again.
Baseline(score) ==
  /\ at = "baseline"
  /\ before' = score
  /\ Charge
  /\ stop' = IF Exhausted(spent') THEN "budget" ELSE stop
  /\ at' = "bootstrapping"
  /\ UNCHANGED <<cap, round, sampling, pairs, candidates, full, held>>
BaselineRaises ==
  /\ at = "baseline"
  /\ at' = "raised"
  /\ UNCHANGED <<cap, spent, round, sampling, pairs, candidates, full, held, before, stop>>

\* The head of each loop: how far it goes and what comes after it.
Rounds == [bootstrapping |-> NumDemos, proposing |-> NumInstructions,
           sampling |-> NumTrials, promoting |-> NumPromoted]
After == [bootstrapping |-> "proposing", proposing |-> "sampling",
          sampling |-> "promoting", promoting |-> "applying"]
Available ==
  CASE at = "sampling" -> instrs * demos
    [] at = "promoting" -> Len(candidates)
    [] OTHER -> Rounds[at]
Goes == round < Rounds[at] /\ round < Available /\ ~Exhausted(spent)
\* A bug: the loop of a used up budget ends without a word.
SilentReason == stop
ReasonAfter == IF round < Rounds[at] /\ round < Available THEN "budget" ELSE stop
LeavePhase ==
  /\ at \in DOMAIN Rounds
  /\ ~Goes
  /\ at' = After[at] /\ round' = 0
  /\ stop' = ReasonAfter
  /\ UNCHANGED <<cap, spent, sampling, pairs, candidates, full, held, before>>

Bootstrap ==
  /\ at = "bootstrapping" /\ Goes
  /\ round' = round + 1
  /\ \/ Charge /\ demos' \in {demos, demos + 1}
     \/ Free /\ UNCHANGED demos
  /\ UNCHANGED <<at, cap, instrs, pairs, candidates, full, held, before, stop>>
Propose ==
  /\ at = "proposing" /\ Goes
  /\ round' = round + 1
  /\ \/ Charge /\ instrs' = instrs + 1
     \/ Free /\ UNCHANGED instrs
  /\ UNCHANGED <<at, cap, demos, pairs, candidates, full, held, before, stop>>

\* A pair that was not drawn yet.
Draw(pair) ==
  /\ at = "sampling" /\ Goes
  /\ pair \in ((0..(instrs-1)) \X (0..(demos-1))) \ pairs
  /\ pairs' = pairs \union {pair}
  /\ held' = pair
  /\ round' = round + 1
  /\ at' = "measuring"
  /\ UNCHANGED <<cap, spent, sampling, candidates, full, before, stop>>
Measured(score) ==
  /\ at = "measuring"
  /\ candidates' = Append(candidates, [pair |-> held, score |-> score])
  /\ Charge
  /\ held' = Original /\ at' = "sampling"
  /\ UNCHANGED <<cap, round, sampling, pairs, full, before, stop>>

\* The candidates come by their score on the minibatch, the earlier of equals
\* first: the next is ahead of all that have not come yet.
AheadOf(i, j) ==
  \/ candidates[i].score > candidates[j].score
  \/ candidates[i].score = candidates[j].score /\ i < j
Waiting == DOMAIN candidates \ {full[k].place : k \in DOMAIN full}
NextInRank == {i \in Waiting : \A j \in Waiting \ {i} : AheadOf(i, j)}
PairAt(k) == candidates[full[k].place].pair
Promote ==
  /\ at = "promoting" /\ Goes
  /\ \E i \in NextInRank :
       /\ full' = Append(full, [place |-> i, score |-> None])
       /\ held' = candidates[i].pair
  /\ round' = round + 1
  /\ at' = "evaluating"
  /\ UNCHANGED <<cap, spent, sampling, pairs, candidates, before, stop>>
Promoted(score) ==
  /\ at = "evaluating"
  /\ full' = [full EXCEPT ![Len(full)].score = score]
  /\ Charge
  /\ held' = Original /\ at' = "promoting"
  /\ UNCHANGED <<cap, round, sampling, pairs, candidates, before, stop>>

\* A failed evaluation is passed over, a cancelled one is not; either way the
\* call has its own configuration back.
EvaluationFails ==
  /\ at \in {"measuring", "evaluating"}
  /\ held' = Original
  /\ at' = IF at = "evaluating" THEN "promoting" ELSE "sampling"
  /\ UNCHANGED <<cap, spent, round, sampling, pairs, candidates, full, before, stop>>
Interrupted ==
  /\ at \in {"measuring", "evaluating"}
  /\ held' = Original
  /\ at' = "raised"
  /\ UNCHANGED <<cap, spent, round, sampling, pairs, candidates, full, before, stop>>

\* The best of the promoted; a score of 0 counts as the baseline's.
\* A bug: the best on the minibatch is taken.
Scored == {k \in DOMAIN full : full[k].score # None}
FirstPromoted == Min(Scored)
BestPromoted ==
  CHOOSE k \in Scored : \A l \in Scored :
    full[l].score < full[k].score \/ (full[l].score = full[k].score /\ k <= l)
AfterScore == IF full[BestPromoted].score = 0 THEN before ELSE full[BestPromoted].score
Accepted == Scored # {} /\ AfterScore > before
Applied == IF Accepted THEN PairAt(BestPromoted) ELSE Original
Apply ==
  /\ at = "applying"
  /\ held' = Applied
  /\ at' = "returned"
  /\ UNCHANGED <<cap, spent, round, sampling, pairs, candidates, full, before, stop>>

Next ==
  \/ \E score \in FullScores : Baseline(score) \/ Promoted(score)
  \/ \E score \in BatchScores : Measured(score)
  \/ \E pair \in (0..(instrs-1)) \X (0..(demos-1)) : Draw(pair)
  \/ Bootstrap \/ Propose \/ LeavePhase \/ Promote \/ Apply
  \/ BaselineRaises \/ EvaluationFails \/ Interrupted

Spec == Init /\ [][Next]_vars

-----------------------------------------------------------------------------
TypeOK ==
  /\ at \in DOMAIN Rounds \union {"baseline", "measuring", "evaluating", "applying", "returned", "raised"}
  /\ demos \in 1..(NumDemos + 1) /\ instrs \in 1..(NumInstructions + 1)
  /\ {candidates[i].pair : i \in DOMAIN candidates} \subseteq pairs
  /\ Len(candidates) <= NumTrials /\ Len(full) <= NumPromoted
  /\ stop \in {"completed", "budget"}

\* The call has a drawn pair only while it is measured and, in the end, if that
\* did better on the validation set than the call did and than every other
\* promoted pair; and a pair that was measured and not promoted did no better on
\* the minibatch than those that were.
DrawKeepsBest ==
  /\ at \notin {"measuring", "evaluating", "returned"} => held = Original
  /\ at = "returned" =>
       LET scores == {full[k].score : k \in Scored} IN
         IF \E s \in scores : s > before
         THEN \E k \in DOMAIN full : held = PairAt(k) /\ full[k].score = Max(scores)
         ELSE held = Original
  /\ \A k \in DOMAIN full, i \in DOMAIN candidates :
       candidates[i].score > candidates[full[k].place].score =>
         \E l \in 1..(k-1) : full[l].place = i

\* A run that left something out for want of budget says so.
OmissionIsReported ==
  at = "returned" /\ stop = "completed" =>
    /\ Cardinality(pairs) = Min({NumTrials, instrs * demos})
    /\ Len(full) = Min({NumPromoted, Len(candidates)})

-----------------------------------------------------------------------------
(* Why what is left out is reported: the inductive invariant *)

\* A phase has taken as many steps as it has drawn or promoted pairs, and a
\* later one that is reached without a word found all of them.
StepsAreCounted ==
  /\ demos \in Nat /\ instrs \in Nat /\ round \in Nat
  /\ IsFiniteSet(pairs) /\ (at # "returned" => held \in Nat \X Nat)
  /\ candidates \in Seq([pair : Nat \X Nat, score : BatchScores])
  /\ full \in Seq([place : Nat, score : FullScores \union {None}])
  /\ at \in {"baseline", "bootstrapping", "proposing"} => pairs = {}
  /\ at = "baseline" => round = 0
  /\ at \notin {"promoting", "evaluating", "applying", "returned", "raised"} => full = <<>>
  /\ at \in {"sampling", "measuring"} =>
       Cardinality(pairs) = round /\ round <= NumTrials /\ round <= instrs * demos
  /\ at \in {"promoting", "evaluating"} =>
       /\ Len(full) = round /\ (at = "evaluating" => round > 0)
       /\ round <= NumPromoted /\ round <= Len(candidates)
  /\ at \in {"promoting", "evaluating", "applying", "returned"} /\ stop = "completed" =>
       Cardinality(pairs) = Min({NumTrials, instrs * demos})
  /\ at \in {"applying", "returned"} /\ stop = "completed" =>
       Len(full) = Min({NumPromoted, Len(candidates)})

(* Why the best is kept: the inductive invariant *)

\* What is promoted was ahead of all that waited, and what the call has in the
\* end is the best promoted if that is accepted.
RankedAndApplied ==
  /\ at \notin {"measuring", "evaluating", "returned"} => held = Original
  /\ at = "returned" => held = Applied
  /\ at \notin {"baseline", "raised"} => before \in FullScores
  /\ \A k \in DOMAIN full, i \in DOMAIN candidates :
       candidates[i].score > candidates[full[k].place].score =>
         \E l \in 1..(k-1) : full[l].place = i
=============================================================================
