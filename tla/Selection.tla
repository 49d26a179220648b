------------------------------- MODULE Selection ------------------------------
(***************************************************************************)
(* The optimizers that try one field of a call, its model                  *)
(* (optimization/model_optimizer.py) or its codec                          *)
(* (optimization/codec_optimizer.py), and ParetoOptimizer                  *)
(* (optimization/pareto.py), which runs one of them and sorts out the      *)
(* trials that no other beats.  The instance, and with it its mutation     *)
(* log, is used again.                                                     *)
(***************************************************************************)
EXTENDS Integers, Sequences, FiniteSets

CONSTANTS
  None,
  Candidates,  \* how many models or codecs
  Caps,        \* max_trials of the budget; 0 for one that is used up at once
  Scores, MinScore,
  Costs,       \* 0 is what an unknown price costs
  Estimates,   \* [candidate -> its estimated cost]
  MaxRuns

VARIABLES
  at, kind, cap,
  runs,        \* optimize() calls so far
  next,        \* the candidate that comes next
  scores,      \* [candidate -> [score, cost]] of those that were measured
  held,        \* what the call has; 0 is what it came with
  original,    \* what it had when this run began
  log,         \* mutation_log of the instance
  trials,      \* all_trials of the result
  frontier     \* frontier of the result

vars == <<at, kind, cap, runs, next, scores, held, original, log, trials, frontier>>

-----------------------------------------------------------------------------
Measured == DOMAIN scores
Exhausted == cap # None /\ Cardinality(Measured) >= cap

Init ==
  /\ at = "idle"
  /\ kind \in {"model", "codec"}
  /\ cap \in Caps
  /\ runs = 0 /\ next = 1
  /\ scores = <<>>
  /\ held = 0 /\ original = 0
  /\ log = <<>> /\ trials = <<>> /\ frontier = <<>>

Begin ==
  /\ at \in {"idle", "returned", "raised"}
  /\ runs < MaxRuns
  /\ runs' = runs + 1
  /\ original' = held
  /\ next' = 1 /\ scores' = <<>> /\ trials' = <<>> /\ frontier' = <<>>
  /\ at' = "trying"
  /\ UNCHANGED <<kind, cap, held, log>>

\* One candidate is measured; a model whose cost is not known is charged an
\* estimate.
Try(score, cost) ==
  /\ at = "trying"
  /\ next <= Candidates /\ ~Exhausted
  /\ LET charged == IF kind = "model" /\ cost = 0 THEN Estimates[next] ELSE cost
         mutation == [run |-> runs, candidate |-> next, score |-> score, cost |-> charged]
     IN /\ scores' = [c \in Measured \union {next} |->
                        IF c = next THEN [score |-> score, cost |-> charged] ELSE scores[c]]
        /\ log' = Append(log, mutation)
  /\ held' = next
  /\ next' = next + 1
  /\ UNCHANGED <<at, kind, cap, runs, original, trials, frontier>>

\* A codec that cannot be built is passed over.
Skip ==
  /\ at = "trying" /\ kind = "codec"
  /\ next <= Candidates /\ ~Exhausted
  /\ next' = next + 1
  /\ UNCHANGED <<at, kind, cap, runs, scores, held, original, log, trials, frontier>>

\* The cheapest model that is good enough or, if none is, the best; the codec
\* with the best score; the earlier one of equals.
Qualifying == {c \in Measured : scores[c].score >= MinScore}
Cheapest == CHOOSE c \in Qualifying : \A d \in Qualifying :
              scores[c].cost < scores[d].cost \/ (scores[c].cost = scores[d].cost /\ c <= d)
BestScore == CHOOSE c \in Measured : \A d \in Measured :
               scores[d].score < scores[c].score \/ (scores[d].score = scores[c].score /\ c <= d)
\* A bug: the best model is taken although a cheaper one would do.
Dearest == BestScore
Chosen == IF kind = "model" /\ Qualifying # {} THEN Cheapest ELSE BestScore

\* What the frontier is drawn from: the mutations of the result or, if there
\* are none, the whole log, in its order.
OfThisRun == {k \in DOMAIN log : log[k].run = runs}
Source == IF OfThisRun # {} THEN OfThisRun ELSE DOMAIN log
InLogOrder ==
  {p \in [1..Cardinality(Source) -> Source] :
     {p[k] : k \in DOMAIN p} = Source /\ \A i, j \in DOMAIN p : i < j => p[i] < p[j]}
Trials == {[k \in DOMAIN p |-> log[p[k]]] : p \in InLogOrder}

\* A bug: a trial that costs the same is dominated only by a cheaper one.
Cheaper(a, b) == a.score >= b.score /\ a.cost < b.cost
Dominates(a, b) == /\ a.score >= b.score /\ a.cost <= b.cost
                   /\ a.score > b.score \/ a.cost < b.cost
Undominated(list) == {k \in DOMAIN list : \A j \in DOMAIN list : ~Dominates(list[j], list[k])}
\* The cheapest first, the better of equally cheap, the earlier of equals.
Precedes(list, i, j) ==
  \/ list[i].cost < list[j].cost
  \/ list[i].cost = list[j].cost /\ list[i].score > list[j].score
  \/ list[i].cost = list[j].cost /\ list[i].score = list[j].score /\ i < j
Sorted(list, S) ==
  {p \in [1..Cardinality(S) -> S] :
     {p[k] : k \in DOMAIN p} = S /\ \A i, j \in DOMAIN p : i < j => Precedes(list, p[i], p[j])}
Frontier(list) == {[k \in DOMAIN p |-> list[p[k]]] : p \in Sorted(list, Undominated(list))}

\* Without a score the model optimizer raises, the codec optimizer keeps the
\* codec.
Finish ==
  /\ at = "trying"
  /\ next > Candidates \/ Exhausted
  /\ held' = IF Measured = {} THEN original ELSE Chosen
  /\ IF kind = "model" /\ Measured = {}
     THEN at' = "raised" /\ UNCHANGED <<trials, frontier>>
     ELSE at' = "returned" /\ trials' \in Trials /\ frontier' \in Frontier(trials')
  /\ UNCHANGED <<kind, cap, runs, next, scores, original, log>>

\* An evaluation that raises, or a cancellation: the finally clause gives the
\* call its model back, or the best codec so far.
Raises ==
  /\ at = "trying"
  /\ next <= Candidates /\ ~Exhausted
  /\ held' = IF kind = "codec" /\ Measured # {} THEN BestScore ELSE original
  /\ at' = "raised"
  /\ UNCHANGED <<kind, cap, runs, next, scores, original, log, trials, frontier>>

Next ==
  \/ Begin \/ Skip \/ Finish \/ Raises
  \/ \E score \in Scores, cost \in Costs : Try(score, cost)

Spec == Init /\ [][Next]_vars

-----------------------------------------------------------------------------
TypeOK ==
  /\ at \in {"idle", "trying", "returned", "raised"}
  /\ held \in 0..Candidates /\ original \in 0..Candidates
  /\ Measured \subseteq 1..Candidates
  /\ \A i \in DOMAIN log : log[i].run \in 1..runs

\* A run that returns leaves the call with what it should: no model that is good
\* enough is cheaper, no codec scored better, and if nothing is good enough
\* nothing scored better.  A model that has no price costs 0 and so is taken,
\* if it is good enough, before any that has one.  If nothing was measured the
\* call has what it came with.  A run that raises leaves no model behind that it
\* tried, and no codec that did worse than another.
SelectionIsBest ==
  /\ at = "returned" /\ Measured # {} =>
       /\ held \in Measured
       /\ \A c \in Measured :
            \/ scores[c].score <= scores[held].score /\ ~(kind = "model" /\ scores[held].score >= MinScore)
            \/ kind = "model" /\ scores[held].score >= MinScore
               /\ (scores[c].score >= MinScore => scores[c].cost >= scores[held].cost)
  /\ at = "returned" /\ Measured = {} => held = original
  /\ at = "raised" =>
       \/ held = original
       \/ kind = "codec" /\ held \in Measured /\ \A c \in Measured : scores[c].score <= scores[held].score

\* The frontier of a run that measured something is of that run alone; dearer is
\* better along it, but for trials that are equal, and every trial that is not
\* on it is beaten by one that is.
FrontierIsOptimal ==
  at = "returned" /\ Measured # {} =>
    /\ \A i, j \in DOMAIN frontier :
         i < j => \/ frontier[i].cost < frontier[j].cost /\ frontier[i].score < frontier[j].score
                  \/ frontier[i].cost = frontier[j].cost /\ frontier[i].score = frontier[j].score
    /\ \A k \in DOMAIN trials :
         \E i \in DOMAIN frontier :
           \/ frontier[i] = trials[k]
           \/ frontier[i].score >= trials[k].score /\ frontier[i].cost <= trials[k].cost
    /\ \A k \in DOMAIN trials : trials[k].run = runs

-----------------------------------------------------------------------------
(* Why the choice is the best: the inductive invariant *)

Trial == [run : Nat, candidate : Nat, score : Int, cost : Int]

\* The candidates that were measured are in the log of this run, the call has
\* what was chosen among them or what it had, and the frontier is that of the
\* trials.
ChosenAmongMeasured ==
  /\ next \in Nat \ {0} /\ runs \in Nat /\ log \in Seq(Trial)
  /\ Measured \subseteq 1..(next - 1)
  /\ \A c \in Measured : scores[c].score \in Int /\ scores[c].cost \in Int
  /\ Measured # {} => OfThisRun # {}
  /\ at = "returned" =>
       /\ held = IF Measured = {} THEN original ELSE Chosen
       /\ trials \in Trials /\ frontier \in Frontier(trials)
  /\ at = "raised" => held = original \/ (kind = "codec" /\ Measured # {} /\ held = BestScore)
=============================================================================
