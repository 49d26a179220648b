------------------------------ MODULE JointSearch -----------------------------
(***************************************************************************)
(* The joint search over instructions and demonstrations of                *)
(* MiproV2Optimizer (optimization/mipro_v2.py): a baseline, sets of        *)
(* bootstrapped demonstrations, instructions proposed from a summary of    *)
(* the data (optimization/proposers/grounded.py), trials on minibatches at *)
(* the points that the searcher suggests (optimization/search/tpe.py) and  *)
(* from time to time the best of them measured on the whole validation     *)
(* set.  A configuration is <<instruction, demonstrations>>, both indices; *)
(* <<0, 0>> is what the call came with.                                    *)
(***************************************************************************)
EXTENDS Integers, Sequences, FiniteSets, FiniteSetsExt, Functions

CONSTANTS
  None,
  Caps,          \* max_trials of the budget, None for no budget
  NumCandidates, NumTrials,
  FullEvalSteps, \* minibatch_full_eval_steps
  BatchScores,   \* what a minibatch may score
  FullScores     \* what the validation set may score

VARIABLES
  at,       \* where optimize() is
  options,  \* [cap, minibatch, zeroshot]
  round,    \* bootstraps made, then trials begun
  spent,    \* what the tracker has been charged, in trials
  demos,    \* number of demo_candidates
  instrs,   \* number of instruction_candidates
  tried,    \* param_score_dict, as the trials in their order: [key, score]
  promoted, \* promoted_keys and their full scores, None if that failed
  held,     \* the configuration that the call has
  best,     \* best_config and best_full_score
  before,   \* metric_before
  stop      \* stop_reason

sampling == <<demos, instrs>>
vars == <<at, options, round, spent, sampling, tried, promoted, held, best, before, stop>>

Original == <<0, 0>>
Space == (0..(instrs-1)) \X (0..(demos-1))

-----------------------------------------------------------------------------
Exhausted(charged) == options.cap # None /\ charged >= options.cap

\* A step that ended is charged and sets the stop reason if that was the last.
\* A bug: it does not set the stop reason.
ChargeSilently == spent' = spent + 1 /\ UNCHANGED stop
Charge ==
  /\ spent' = spent + 1
  /\ stop' = IF Exhausted(spent') THEN "budget" ELSE stop
Free == UNCHANGED <<spent, stop>>

Init ==
  /\ at = "baseline"
  /\ options \in [cap : Caps, minibatch : BOOLEAN, zeroshot : BOOLEAN]
  /\ round = 0 /\ spent = 0
  /\ demos = 1 /\ instrs = 1
  /\ tried = <<>>
  /\ promoted = <<>>
  /\ held = Original
  /\ best = [key |-> Original, score |-> None]
  /\ before = None
  /\ stop = "completed"

\* The call as it is; the result of an aborted run is the baseline.
Baseline(score) ==
  /\ at = "baseline"
  /\ before' = score
  /\ best' = [key |-> Original, score |-> score]
  /\ Charge
  /\ at' = IF Exhausted(spent') THEN "returned" ELSE IF options.zeroshot THEN "summarizing" ELSE "bootstrapping"
  /\ UNCHANGED <<options, round, sampling, tried, promoted, held>>

\* One set of demonstrations: none may pass the threshold, and a failure is
\* neither charged nor the end.
Bootstrap ==
  /\ at = "bootstrapping"
  /\ round < NumCandidates - 1 /\ ~Exhausted(spent)
  /\ round' = round + 1
  /\ \/ Charge /\ demos' \in {demos, demos + 1}
     \/ Free /\ UNCHANGED demos
  /\ UNCHANGED <<at, options, instrs, tried, promoted, held, best, before>>
Bootstrapped ==
  /\ at = "bootstrapping"
  /\ round = NumCandidates - 1 \/ Exhausted(spent)
  /\ at' = "summarizing" /\ round' = 0
  /\ UNCHANGED <<options, spent, sampling, tried, promoted, held, best, before, stop>>

\* The dataset and the program are described even if the budget is used up; a
\* failure ends the run with the baseline.
Summarize ==
  /\ at = "summarizing"
  /\ \/ Charge /\ at' = "proposing"
     \/ Free /\ at' = "returned"
  /\ UNCHANGED <<options, round, sampling, tried, promoted, held, best, before>>

\* All instructions or, if one call fails, none.
Propose ==
  /\ at = "proposing"
  /\ at' = "searching"
  /\ \/ ~Exhausted(spent) /\ Charge /\ instrs' = instrs + NumCandidates - 1
     \/ Free /\ UNCHANGED instrs
  /\ UNCHANGED <<options, round, demos, tried, promoted, held, best, before>>

\* suggest: at first uniformly, later by the densities of the good and the bad
\* observations, which leave no point out.
Suggest(key) ==
  /\ at = "searching"
  /\ round < NumTrials /\ ~Exhausted(spent)
  /\ key \in Space
  /\ round' = round + 1
  /\ held' = key
  /\ at' = "measuring"
  /\ UNCHANGED <<options, spent, sampling, tried, promoted, best, before, stop>>

\* _promote_best_mean: of what has not been promoted the best mean, the first
\* tried of equals.
Keys(trials) == {trials[i].key : i \in DOMAIN trials}
ScoresOf(trials, key) == SelectSeq(trials, LAMBDA t : t.key = key)
Total(trials) == FoldFunction(LAMBDA t, sum : t.score + sum, 0, trials)
FirstTry(trials, key) == Min({i \in DOMAIN trials : trials[i].key = key})
AheadOf(trials, k, l) ==
  LET a == ScoresOf(trials, k)
      b == ScoresOf(trials, l)
      x == Total(a) * Len(b)
      y == Total(b) * Len(a)
  IN x > y \/ (x = y /\ FirstTry(trials, k) <= FirstTry(trials, l))
\* A bug: what was promoted before may be promoted again.
AllTried(trials) == Keys(trials)
Eligible(trials) == Keys(trials) \ DOMAIN promoted
BestMean(trials) == {k \in Eligible(trials) : \A l \in Eligible(trials) : AheadOf(trials, k, l)}
Promotes == options.minibatch /\ (round % (FullEvalSteps + 1) = 0 \/ round = NumTrials)

\* What a trial scored; if that used up the budget nothing is promoted.
Measured(score) ==
  /\ at = "measuring"
  /\ tried' = Append(tried, [key |-> held, score |-> score])
  /\ Charge
  /\ \/ /\ Exhausted(spent') \/ ~Promotes \/ Eligible(tried') = {}
        /\ at' = "searching" /\ held' = Original /\ UNCHANGED promoted
     \/ /\ ~Exhausted(spent') /\ Promotes
        /\ \E k \in BestMean(tried') :
             /\ at' = "promoting" /\ held' = k
             /\ promoted' = [l \in DOMAIN promoted \union {k} |-> IF l = k THEN None ELSE promoted[l]]
  /\ UNCHANGED <<options, round, sampling, best, before>>

\* A later configuration must be better than the best so far.
Better(score) == score > best.score
Promoted(score) ==
  /\ at = "promoting"
  /\ promoted' = [promoted EXCEPT ![held] = score]
  /\ best' = IF Better(score) THEN [key |-> held, score |-> score] ELSE best
  /\ Charge
  /\ at' = "searching" /\ held' = Original
  /\ UNCHANGED <<options, round, sampling, tried, before>>
PromotionFails ==
  /\ at = "promoting"
  /\ at' = "searching" /\ held' = Original
  /\ UNCHANGED <<options, round, spent, sampling, tried, promoted, best, before, stop>>

\* The end of the search: the call gets the best configuration if that was
\* better than the baseline, and what it had if not.
Applied == IF best.score > before THEN best.key ELSE Original
Apply ==
  /\ at = "searching"
  /\ round = NumTrials \/ Exhausted(spent)
  /\ held' = Applied
  /\ at' = "returned"
  /\ UNCHANGED <<options, round, spent, sampling, tried, promoted, best, before, stop>>

\* An evaluation that raises, or a cancellation: the finally clause of the
\* trial gives the call its configuration back.
Raises ==
  /\ at \in {"baseline", "measuring", "promoting"}
  /\ at' = "raised" /\ held' = Original
  /\ UNCHANGED <<options, round, spent, sampling, tried, promoted, best, before, stop>>

Next ==
  \/ \E score \in FullScores : Baseline(score) \/ Promoted(score)
  \/ Bootstrap \/ Bootstrapped \/ Summarize \/ Propose
  \/ \E key \in Space : Suggest(key)
  \/ \E score \in BatchScores : Measured(score)
  \/ PromotionFails \/ Apply \/ Raises

Spec == Init /\ [][Next]_vars

-----------------------------------------------------------------------------
TypeOK ==
  /\ at \in {"baseline", "bootstrapping", "summarizing", "proposing", "searching",
             "measuring", "promoting", "returned", "raised"}
  /\ demos \in 1..NumCandidates /\ instrs \in {1, NumCandidates}
  /\ held \in Space /\ best.key \in Space
  /\ DOMAIN promoted \subseteq Keys(tried)
  /\ stop \in {"completed", "budget"}

\* The call has a foreign configuration only while that is measured and, in the
\* end, if no other that was measured on the whole validation set was better
\* and it beat the baseline there.
SearchKeepsBest ==
  /\ at \notin {"measuring", "promoting", "returned"} => held = Original
  /\ at = "returned" =>
       LET scores == {promoted[k] : k \in DOMAIN promoted} \ {None} IN
         /\ \A s \in scores : s <= best.score
         /\ IF \E s \in scores : s > before
            THEN held \in DOMAIN promoted /\ promoted[held] = best.score /\ best.score = Max(scores)
            ELSE held = Original /\ best.score = before

\* The run says that the budget ended it if and only if the tracker says so.
StopReasonIsTrue == at = "returned" => (stop = "budget" <=> Exhausted(spent))

-----------------------------------------------------------------------------
(* Why the reason is true: the inductive invariant *)

\* From the baseline on the reason is the budget as soon as it is used up.
ReasonFollowsBudget ==
  /\ options.cap \in Caps /\ spent \in Nat /\ stop \in {"completed", "budget"}
  /\ at = "baseline" => stop = "completed"
  /\ at \notin {"baseline", "raised"} => (stop = "budget" <=> Exhausted(spent))

(* Why the best is kept: the inductive invariant *)

\* The best so far is the baseline or was promoted, and nothing promoted did
\* better; what is being measured on the whole validation set is new there.
BestSoFar ==
  /\ at \notin {"measuring", "promoting", "returned"} => held = Original
  /\ at = "returned" => held = Applied
  /\ at \notin {"searching", "measuring", "promoting", "returned", "raised"} => promoted = <<>>
  /\ at = "promoting" => held \in DOMAIN promoted /\ promoted[held] = None
  /\ at \notin {"baseline", "raised"} =>
       /\ before \in FullScores /\ best.score \in FullScores /\ best.score >= before
       /\ \A k \in DOMAIN promoted :
            promoted[k] = None \/ (promoted[k] \in FullScores /\ promoted[k] <= best.score)
       /\ best.score > before => best.key \in DOMAIN promoted /\ promoted[best.key] = best.score
=============================================================================
