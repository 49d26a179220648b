------------------------------ MODULE Reflection ------------------------------
(***************************************************************************)
(* ReflectiveOptimizer (optimization/reflective.py): a critic grades what  *)
(* the call says to some samples, a proposer rewrites the instruction from *)
(* the critiques, and the new instruction is kept if it is graded higher.  *)
(* Grades are tenths; instruction 0 is what the call came with.            *)
(***************************************************************************)
EXTENDS Integers, Sequences

CONSTANTS
  None,
  Caps,             \* max_trials of the budget, None for no budget
  SampleCount,          \* sample_count
  Grades,           \* what the critic gives
  QualityThreshold, MaxTrials, Patience

VARIABLES
  at,
  cap,
  spent,            \* what the tracker has been charged, in trials
  round,            \* 0 for the baseline, then the number of the trial
  grades,           \* of the samples so far in this round, and their sum
  critiques,        \* those that the next proposal is made from, a round's
  scores,           \* the sum of the grades of every round so far
  best,             \* the round whose instruction is best
  held,             \* the instruction that the call has: the round it is from
  barren,           \* trials_without_improvement
  stop

vars == <<at, cap, spent, round, grades, critiques, scores, best, held, barren, stop>>

-----------------------------------------------------------------------------
Exhausted(charged) == cap # None /\ charged >= cap
Ungraded == [given |-> <<>>, sum |-> 0]
GoodEnough(total) == total >= QualityThreshold * SampleCount
ScoreOf(k) == scores[k + 1]
BestScore == ScoreOf(best)

Init ==
  /\ at = "critiquing"
  /\ cap \in Caps
  /\ spent = 0 /\ round = 0
  /\ grades = Ungraded /\ critiques = Ungraded
  /\ scores = <<>>
  /\ best = 0 /\ held = 0 /\ barren = 0
  /\ stop = "completed"

\* A sample that the call fails on is graded 0, one that the critic fails on 5.
Graded(grade) ==
  /\ at = "critiquing"
  /\ Len(grades.given) < SampleCount
  /\ grade \in Grades \union {0, 5}
  /\ grades' = [given |-> Append(grades.given, grade), sum |-> grades.sum + grade]
  /\ UNCHANGED <<at, cap, spent, round, critiques, scores, best, held, barren, stop>>

\* The end of the baseline: nothing to do if it is good enough.
BaselineEnds ==
  /\ at = "critiquing" /\ round = 0
  /\ Len(grades.given) = SampleCount
  /\ scores' = <<grades.sum>>
  /\ critiques' = grades
  /\ grades' = Ungraded
  /\ spent' = spent + 1
  /\ at' = IF GoodEnough(grades.sum) THEN "returned" ELSE "proposing"
  /\ UNCHANGED <<cap, round, best, held, barren, stop>>

\* Only what was graded badly is shown to the proposer, or all of it.
LowScoring(list) ==
  LET low == SelectSeq(list, LAMBDA g : g < 8)
  IN IF low = <<>> THEN list ELSE low
Propose ==
  /\ at = "proposing"
  /\ round < MaxTrials /\ ~Exhausted(spent)
  /\ LowScoring(critiques.given) # <<>>
  /\ round' = round + 1
  /\ held' = round + 1
  /\ at' = "critiquing"
  /\ UNCHANGED <<cap, spent, grades, critiques, scores, best, barren, stop>>

\* An instruction that is graded higher is kept and its critiques are the next
\* to work on; any other is taken back.
\* A bug: an equal grade is enough.
NotWorse(total) == total >= BestScore
Improves(total) == total > BestScore
TrialEnds ==
  /\ at = "critiquing" /\ round > 0
  /\ Len(grades.given) = SampleCount
  /\ LET total == grades.sum
         left == IF Improves(total) THEN 0 ELSE barren + 1
     IN /\ scores' = Append(scores, total)
        /\ IF Improves(total)
           THEN best' = round /\ critiques' = grades /\ UNCHANGED held
           ELSE held' = best /\ UNCHANGED <<best, critiques>>
        /\ barren' = left
        /\ stop' = IF left >= Patience THEN "patience" ELSE stop
        /\ at' = IF left >= Patience \/ (Improves(total) /\ GoodEnough(total)) THEN "ending" ELSE "proposing"
  /\ grades' = Ungraded
  /\ spent' = spent + 1
  /\ UNCHANGED <<cap, round>>

\* The budget is looked at before every trial.
Stops ==
  /\ at = "proposing"
  /\ round = MaxTrials \/ Exhausted(spent)
  /\ stop' = IF round < MaxTrials THEN "budget" ELSE stop
  /\ at' = "ending"
  /\ UNCHANGED <<cap, spent, round, grades, critiques, scores, best, held, barren>>

Accepted == BestScore > ScoreOf(0)
Ends ==
  /\ at = "ending"
  /\ held' = IF Accepted THEN best ELSE 0
  /\ at' = "returned"
  /\ UNCHANGED <<cap, spent, round, grades, critiques, scores, best, barren, stop>>

\* The proposer fails, or the run is cancelled: nothing is put back, and what
\* this round spent is not charged.
Raises ==
  /\ at \in {"proposing", "critiquing"}
  /\ at' = "raised"
  /\ UNCHANGED <<cap, spent, round, grades, critiques, scores, best, held, barren, stop>>

Next ==
  \/ \E grade \in Grades \union {0, 5} : Graded(grade)
  \/ BaselineEnds \/ Propose \/ TrialEnds \/ Stops \/ Ends \/ Raises

Spec == Init /\ [][Next]_vars

-----------------------------------------------------------------------------
TypeOK ==
  /\ at \in {"critiquing", "proposing", "ending", "returned", "raised"}
  /\ round \in 0..MaxTrials /\ best \in 0..round /\ held \in 0..round
  /\ Len(grades.given) <= SampleCount /\ Len(scores) \in round..(round + 1)
  /\ barren \in 0..Patience
  /\ stop \in {"completed", "patience", "budget"}

\* A run that returns leaves the call with the first instruction that was graded
\* highest; between two trials it has the best so far, and the critiques to work
\* on are those of that instruction.  A run that raises puts nothing back: it
\* leaves the best so far or the instruction of this round, not yet graded.
ReflectionKeepsBest ==
  LET highest == /\ \A k \in DOMAIN scores : scores[k] <= BestScore
                 /\ \A k \in 1..best : scores[k] < BestScore
  IN /\ at \in {"proposing", "ending", "returned"} => held = best /\ highest
     /\ at \in {"proposing", "ending"} => critiques.sum = BestScore
     /\ at = "raised" => /\ scores # <<>> => highest
                         /\ held # best => held = round /\ Len(scores) = round
     /\ at = "returned" /\ stop = "patience" =>
          \A k \in DOMAIN scores : k > Len(scores) - Patience => scores[k] <= BestScore /\ k # best + 1

-----------------------------------------------------------------------------
(* Why the best is kept: the inductive invariant *)

\* No earlier instruction was graded as high as the best and no later one
\* higher; the trials without improvement are those since then.
HighestSoFar ==
  /\ round \in Nat /\ best \in Nat /\ barren \in Nat
  /\ scores \in Seq(Int) /\ grades.sum \in Int /\ critiques.sum \in Int
  /\ at = "critiquing" => held = round /\ Len(scores) = round
  /\ at \in {"proposing", "ending", "returned"} => held = best /\ Len(scores) = round + 1
  /\ at = "raised" /\ held # best => held = round /\ Len(scores) = round
  /\ scores = <<>> => best = 0 /\ barren = 0
  /\ scores # <<>> =>
       /\ critiques.sum = BestScore
       /\ best + 1 \in DOMAIN scores /\ barren = Len(scores) - (best + 1)
       /\ \A k \in DOMAIN scores : scores[k] <= BestScore
       /\ \A k \in 1..best : scores[k] < BestScore
  /\ stop = "patience" => at \in {"ending", "returned"} /\ barren >= Patience
=============================================================================
