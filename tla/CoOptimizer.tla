----------------------------- MODULE CoOptimizer ----------------------------
(***************************************************************************)
(* optimization/co_optimizer.py: bootstrap, instruction and hyperparameter *)
(* stages, each with its own baseline, on one call and under one shared    *)
(* budget tracker.  A variant is a setting of the call (demos,             *)
(* instructions, parameters), named by the trial that proposed it, stage   *)
(* and step; AsPassed is what the caller passed in.  Evaluations are       *)
(* noisy: the score of a variant is new every time.  One action is one     *)
(* trial.                                                                  *)
(***************************************************************************)
EXTENDS Integers, FiniteSets

CONSTANTS
  Scores,        \* the scores of an evaluation; Perfect is the best
  Perfect,
  Caps,          \* values of Budget.max_trials, None among them perhaps
  None,
  TimeCap,       \* does the budget have a wall-clock cap that may pass?
  MaxProposals,  \* max_instruction_trials
  Patience,      \* patience of the instruction stage
  MaxConfigs,    \* configurations of the hyperparameter stage
  MayRaise       \* may an evaluation or the proposer raise?

VARIABLES
  cap,        \* Budget.max_trials, or None
  strategies, \* the stages asked for
  stage,     \* where optimize() is
  step,      \* trials done in this stage
  held,      \* the variant the call holds
  best,      \* best variant and score of this stage
  original,  \* the variant and score of its baseline
  barren,    \* trials_without_improvement
  spent,     \* tracker.trials
  late,      \* has the wall-clock cap passed?
  stop,      \* stop_reason of the composite
  seen       \* what this stage measured: variant and score

stageVars == <<step, best, original, barren, seen>>
arguments == <<cap, strategies>>
vars == <<arguments, stage, held, spent, late, stop, stageVars>>

Stages == <<"bootstrap", "instruction", "hyperparameter">>
Variants == (0..3) \X Nat
AsPassed == <<0, 0>>
Measured == [variant : Variants, score : Scores]
Nothing == [variant |-> AsPassed, score |-> 0]

Init ==
  /\ cap \in Caps
  /\ strategies \in SUBSET {"bootstrap", "instruction", "hyperparameter"}
  /\ stage = "baseline"
  /\ step = 0
  /\ held = AsPassed
  /\ best = Nothing
  /\ original = Nothing
  /\ barren = 0
  /\ spent = 0
  /\ late = FALSE
  /\ stop = "completed"
  /\ seen = {}

-----------------------------------------------------------------------------
(* Budget *)

HasTracker == cap # None \/ TimeCap
ExhaustedAt(n, l) == (cap # None /\ n >= cap) \/ l
Reason(n) == IF cap # None /\ n >= cap THEN "trials" ELSE "time"

\* _consume_trial: one trial more; the clock has gone on.
Consume ==
  /\ spent' = IF HasTracker THEN spent + 1 ELSE spent
  /\ late' \in {late, TimeCap}
ExhaustedNow == ExhaustedAt(spent', late')

\* A bug: a child that hit the cap with its last trial returned "completed".
ReasonOnly(s) == HasTracker /\ s # "completed"
BudgetHit(s) == HasTracker /\ (s # "completed" \/ ExhaustedNow)

\* The next stage that was asked for, unless the budget is hit.
StageAfter(n, s) ==
  LET left == {i \in (n + 1)..3 : Stages[i] \in strategies}
  IN  IF left = {} \/ BudgetHit(s) THEN "final"
      ELSE Stages[CHOOSE i \in left : \A j \in left : i <= j]

\* The stage returns with a stop reason; the composite keeps the last one
\* that is not "completed".
Leave(n, reason) ==
  LET s == IF reason = "completed" THEN stop ELSE reason
  IN  /\ stop' = s
      /\ stage' = StageAfter(n, s)
      /\ step' = 0

Stay(n) == stage' = Stages[n] /\ UNCHANGED stop

\* The evaluation raises (the metric did) or is cancelled, and optimize() with
\* it: the call keeps what it holds.
Raises(v) ==
  /\ MayRaise
  /\ stage' = "raised"
  /\ held' = v
  /\ UNCHANGED <<spent, late, stop, stageVars>>

-----------------------------------------------------------------------------
(* Trials of every stage *)

\* The baseline of a stage measures what the call holds.
Baseline(score) ==
  LET m == [variant |-> held, score |-> score]
  IN  best' = m /\ original' = m /\ seen' = {m} /\ barren' = 0

\* The composite's own baseline.
FirstEvaluation ==
  /\ stage = "baseline"
  /\ \/ /\ Consume
        /\ LET s == IF ExhaustedNow THEN Reason(spent') ELSE "completed"
           IN  stop' = s /\ stage' = StageAfter(0, s)
        /\ UNCHANGED <<held, stageVars>>
     \/ Raises(held)

\* A stage's own baseline.  Only bootstrap returns when it exhausts the
\* budget; the other two find out at the top of their loops.
StageBaseline(n) ==
  /\ stage = Stages[n]
  /\ step = 0
  /\ \/ /\ Consume
        /\ UNCHANGED held
        /\ \E score \in Scores : Baseline(score)
        /\ \/ n = 1 /\ ExhaustedNow /\ Leave(n, Reason(spent'))
           \/ ~(n = 1 /\ ExhaustedNow) /\ Stay(n) /\ step' = 1
     \/ Raises(held)

\* The variant proposed by this trial.
Fresh(n) == <<n, step>>

\* A trial measures the variant v and keeps it if it beats the best so far.
Better(m) == m.score > best.score

\* Where it does not, the instruction stage puts the best back at once, the
\* hyperparameter stage leaves that to the end.
Measure(v, score) ==
  LET m == [variant |-> v, score |-> score]
  IN  /\ seen' = seen \union {m}
      /\ best' = IF Better(m) THEN m ELSE best
      /\ barren' = IF Better(m) THEN 0 ELSE barren + 1

\* A bug: the variant tried last stays.
KeepLast(n) == held
\* What a loop leaves on the call when it is over.
Kept(n) == IF best.score > original.score THEN best.variant ELSE original.variant

-----------------------------------------------------------------------------
(* Bootstrap *)

\* bootstrap_one_demo_set: the cost is consumed and the verdict of the
\* tracker dropped.  Without a passing example the stage is over.
Train ==
  /\ stage = "bootstrap"
  /\ step = 1
  /\ \/ /\ Consume
        /\ \/ Stay(1) /\ step' = 2
           \/ Leave(1, "completed")
        /\ UNCHANGED <<held, best, original, barren, seen>>
     \/ Raises(held)

\* The call is evaluated with the demos; they stay if the score improved.
WithDemos ==
  /\ stage = "bootstrap"
  /\ step = 2
  /\ \/ \E score \in Scores :
          /\ Consume
          /\ Measure(Fresh(1), score)
          /\ held' = IF score > best.score THEN Fresh(1) ELSE held
          /\ Leave(1, IF ExhaustedNow THEN Reason(spent') ELSE "completed")
          /\ UNCHANGED original
     \/ Raises(Fresh(1))

-----------------------------------------------------------------------------
(* Instruction *)

\* A bug: the loop counts its trials and forgets the budget.
Counted(limit) == step > limit
LoopOver(limit) == step > limit \/ ExhaustedAt(spent, late)

\* Why a loop over so many trials ends: the tracker is asked before a trial.
LoopReason(limit) ==
  IF step <= limit /\ ExhaustedAt(spent, late) THEN Reason(spent) ELSE "completed"

\* The loop is over, or the best evaluation has no failures to learn from: a
\* perfect one has none, and in any other all that failed may be errors.
InstructionEnds ==
  /\ stage = "instruction"
  /\ step > 0
  /\ held' = Kept(2)
  /\ UNCHANGED <<spent, late, best, original, barren, seen>>
  /\ Leave(2, LoopReason(MaxProposals))

Propose ==
  /\ stage = "instruction"
  /\ step > 0
  /\ ~LoopOver(MaxProposals)
  /\ best.score # Perfect
  /\ \/ \E score \in Scores :
          /\ Consume
          /\ Measure(Fresh(2), score)
          /\ held' = best'.variant
          /\ IF barren' >= Patience THEN Leave(2, "patience")
                                    ELSE Stay(2) /\ step' = step + 1
          /\ UNCHANGED original
     \/ Raises(held)          \* the proposer
     \/ Raises(Fresh(2))      \* the evaluation of its proposal

-----------------------------------------------------------------------------
(* Hyperparameters *)

ConfigsEnd ==
  /\ stage = "hyperparameter"
  /\ step > 0
  /\ LoopOver(MaxConfigs)
  /\ held' = Kept(3)
  /\ UNCHANGED <<spent, late, best, original, barren, seen>>
  /\ Leave(3, LoopReason(MaxConfigs))

TryConfig ==
  /\ stage = "hyperparameter"
  /\ step > 0
  /\ ~LoopOver(MaxConfigs)
  /\ \/ \E score \in Scores :
          /\ Consume
          /\ Measure(Fresh(3), score)
          /\ held' = Fresh(3)
          /\ step' = step + 1
          /\ Stay(3)
          /\ UNCHANGED original
     \/ Raises(Fresh(3))

-----------------------------------------------------------------------------
FinalEvaluation ==
  /\ stage = "final"
  /\ \/ Consume /\ stage' = "returned" /\ UNCHANGED <<held, stop, stageVars>>
     \/ Raises(held)

Next ==
  /\ \/ FirstEvaluation
     \/ \E n \in 1..3 : StageBaseline(n)
     \/ Train
     \/ WithDemos
     \/ InstructionEnds
     \/ Propose
     \/ ConfigsEnd
     \/ TryConfig
     \/ FinalEvaluation
  /\ UNCHANGED arguments

Spec == Init /\ [][Next]_vars

-----------------------------------------------------------------------------
(* Properties *)

InStage == \E n \in 1..3 : stage = Stages[n]

TypeOK ==
  /\ cap \in Caps
  /\ strategies \subseteq {"bootstrap", "instruction", "hyperparameter"}
  /\ InStage \/ stage \in {"baseline", "final", "returned", "raised"}
  /\ step \in Nat
  /\ held \in Variants
  /\ best \in Measured /\ original \in Measured
  /\ barren \in Nat
  /\ spent \in Nat
  /\ late \in BOOLEAN
  /\ stop \in {"completed", "trials", "time", "patience"}
  /\ seen \subseteq Measured

\* The cap on trials holds for all stages together, not for each: it is
\* exceeded at most by the demos of a bootstrap whose training run hit it and
\* by the evaluation at the end.
TrialsBounded == cap # None => spent <= cap + 2

\* No stage begins with the budget used up, although a stage that hits the cap
\* with its last trial reports "completed".
NoStageAfterExhaustion ==
  [][InStage' /\ stage' # stage => ~ExhaustedAt(spent', late')]_vars

\* When a stage is over, the call holds a variant that scored as high as
\* anything the stage measured, whichever way the stage ended.  Where an
\* evaluation raises, nothing is put back: the call is left with such a variant
\* or with the one that was about to be scored and never was; and before
\* anything was measured, with what the caller passed in.
StageKeepsBest ==
  /\ seen = {} => held = AsPassed
  /\ (step = 0 \/ stage = "raised") /\ seen # {} =>
       \/ \E k \in seen : k.variant = held /\ \A m \in seen : m.score <= k.score
       \/ stage = "raised" /\ step > 0 /\ \A m \in seen : m.variant # held
=============================================================================
