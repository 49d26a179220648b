------------------------------ MODULE Sampling ------------------------------
(***************************************************************************)
(* Programs that run samples side by side and pick from those that came    *)
(* back: BestOfN (best_of_n.py) scores the survivors, Ensemble             *)
(* (ensemble.py) counts votes, MultiChainComparison                        *)
(* (multi_chain_comparison.py) hands the survivors to one more call.       *)
(* gather keeps the order of the samples whatever order they end in; what  *)
(* can go wrong is the bookkeeping between samples and survivors.          *)
(***************************************************************************)
EXTENDS Integers, Sequences, FiniteSets

CONSTANTS
  N,        \* samples, or voters
  Answers,  \* what a sample may answer: the value of the vote field
  Scores,   \* what a scorer may say
  Failed,   \* a sample or a scoring that raised
  Cancelled,  \* a sample that raised CancelledError, which is no Exception
  Pending,  \* ... that is not over
  NoScore   \* float("-inf"), below every score

VARIABLES
  kind,      \* the program: BestOfN, Ensemble (with and without a vote), chains
  stage,     \* "sampling", "scoring", "synthesis", "returned", "raised"
  sample,    \* the answer of each sample
  score,     \* per survivor, in the order of the samples: its score
  selected   \* selected_index, into the survivors; 0 when there is none

vars == <<kind, stage, sample, score, selected>>

Kinds == {"best of n", "ensemble", "first", "chains"}
Samples == 1..N

\* The samples that answered, and survivor_indices: the k-th of them in order.
\* BestOfN leaves out what is a BaseException, Ensemble what is an Exception:
\* a CancelledError goes on as if it were an answer, with a vote of its own.
Survivors == {i \in Samples : sample[i] # Failed /\ (sample[i] = Cancelled => kind \in {"ensemble", "first"})}
Rank(i) == Cardinality({j \in Survivors : j <= i})
Survivor(k) == CHOOSE i \in Survivors : Rank(i) = k
Places == 1..Cardinality(Survivors)

Init ==
  /\ kind \in Kinds
  /\ stage = "sampling"
  /\ sample = [i \in Samples |-> Pending]
  /\ score = <<>>
  /\ selected = 0

\* A chain returns its Exception; its CancelledError ends the gather at once.
SampleEnds(i) ==
  /\ stage = "sampling"
  /\ sample[i] = Pending
  /\ \E a \in Answers \union {Failed, Cancelled} :
       /\ sample' = [sample EXCEPT ![i] = a]
       /\ stage' = IF kind = "chains" /\ a = Cancelled THEN "raised" ELSE stage
  /\ UNCHANGED <<kind, score, selected>>

\* Counter.most_common(1): the most votes, the value met first on a tie.
Votes(v) == Cardinality({i \in Survivors : sample[i] = v})
FirstWinner == CHOOSE k \in Places : \A j \in Places :
  LET mine == Votes(sample[Survivor(k)]) theirs == Votes(sample[Survivor(j)])
  IN  mine > theirs \/ (mine = theirs /\ k <= j)

\* gather returns: no survivor is an error, otherwise on to what picks one.
Gathered ==
  /\ stage = "sampling"
  /\ \A i \in Samples : sample[i] # Pending
  /\ \/ /\ Survivors = {}
        /\ stage' = "raised"
        /\ UNCHANGED <<score, selected>>
     \/ /\ Survivors # {}
        /\ kind = "best of n"
        /\ stage' = "scoring"
        /\ score' = [k \in Places |-> Pending]
        /\ UNCHANGED selected
     \/ /\ Survivors # {}
        /\ kind = "ensemble"
        /\ stage' = "returned"
        /\ selected' = FirstWinner
        /\ UNCHANGED score
     \/ /\ Survivors # {}
        /\ kind = "first"
        /\ stage' = "returned"
        /\ selected' = 1
        /\ UNCHANGED score
     \/ /\ Survivors # {}
        /\ kind = "chains"
        /\ stage' = "synthesis"
        /\ UNCHANGED <<score, selected>>
  /\ UNCHANGED <<kind, sample>>

\* The judge or the metric scores survivor k, or raises.
ScoringEnds(k) ==
  /\ stage = "scoring"
  /\ score[k] = Pending
  /\ \E s \in Scores \union {NoScore} : score' = [score EXCEPT ![k] = s]
  /\ UNCHANGED <<kind, stage, sample, selected>>

\* max over the scores: the first of the highest.
\* A bug: the last of the highest.
LastBest == CHOOSE k \in DOMAIN score : \A j \in DOMAIN score :
  score[k] > score[j] \/ (score[k] = score[j] /\ k >= j)
Best == CHOOSE k \in DOMAIN score : \A j \in DOMAIN score :
  score[k] > score[j] \/ (score[k] = score[j] /\ k <= j)

\* candidates[selected_index].
\* A bug: the index of a survivor used on the samples.
OutputOfSample == sample[selected]
Output == sample[Survivor(selected)]

Select ==
  /\ stage = "scoring"
  /\ \A k \in DOMAIN score : score[k] # Pending
  /\ selected' = Best
  /\ stage' = "returned"
  /\ UNCHANGED <<kind, sample, score>>

\* The aggregator call reads every chain.
Synthesize ==
  /\ stage = "synthesis"
  /\ stage' \in {"returned", "raised"}
  /\ UNCHANGED <<kind, sample, score, selected>>

Next ==
  \/ \E i \in Samples : SampleEnds(i)
  \/ Gathered
  \/ \E k \in DOMAIN score : ScoringEnds(k)
  \/ Select
  \/ Synthesize

Spec == Init /\ [][Next]_vars

-----------------------------------------------------------------------------
(* Properties *)

TypeOK ==
  /\ kind \in Kinds
  /\ stage \in {"sampling", "scoring", "synthesis", "returned", "raised"}
  /\ sample \in [Samples -> Answers \union {Failed, Cancelled, Pending}]
  /\ score \in Seq(Scores \union {NoScore, Pending}) /\ Len(score) <= N
  /\ selected \in 0..N

VotesFor(v) == Cardinality({i \in Samples : sample[i] = v})

\* What BestOfN and Ensemble return is the answer of a sample that did not
\* fail, whichever of the samples and scorings failed: in BestOfN no other has
\* a better score, and none before it as good a one; in Ensemble no answer has
\* more votes, and none that came before it as many; without a vote it is the
\* first.  Ensemble may return a CancelledError in place of an answer.
SelectedIsBest ==
  stage = "returned" /\ kind # "chains" =>
    /\ Output \in Answers \/ (Output = Cancelled /\ kind \in {"ensemble", "first"})
    /\ \E i \in Samples :
         /\ sample[i] = Output
         /\ kind = "best of n" =>
              \E k \in DOMAIN score :
                /\ Cardinality({j \in 1..i : sample[j] \notin {Failed, Cancelled}}) = k
                /\ \A j \in DOMAIN score : score[j] <= score[k] /\ (j < k => score[j] < score[k])
         /\ kind = "ensemble" =>
              /\ \A a \in Answers \union {Cancelled} : VotesFor(a) <= VotesFor(Output)
              /\ \A j \in Samples : j < i /\ sample[j] # Failed => VotesFor(sample[j]) < VotesFor(Output)
         /\ kind = "first" => \A j \in Samples : j < i => sample[j] = Failed

-----------------------------------------------------------------------------
(* Why it holds: the inductive invariant *)

\* Every sample is over once gather has returned, and every survivor has a
\* score, or waits for it.
SurvivorsAreScored ==
  /\ stage \notin {"sampling", "raised"} => \A i \in Samples : sample[i] # Pending
  /\ stage \in {"scoring", "synthesis", "returned"} => Survivors # {}
  /\ stage = "scoring" => kind = "best of n"
  /\ stage = "synthesis" => kind = "chains"
  /\ stage \in {"scoring", "returned"} /\ kind = "best of n" => DOMAIN score = Places

\* What is selected is the first of the best, or just the first.
SelectionIsFirst ==
  stage = "returned" /\ kind # "chains" =>
    /\ selected \in Places
    /\ kind = "best of n" => \A k \in Places :
         /\ score[k] # Pending /\ score[k] <= score[selected]
         /\ k < selected => score[k] < score[selected]
    /\ kind = "ensemble" => \A k \in Places :
         /\ Votes(sample[Survivor(k)]) <= Votes(sample[Survivor(selected)])
         /\ k < selected => Votes(sample[Survivor(k)]) < Votes(sample[Survivor(selected)])
    /\ kind = "first" => selected = 1

SamplesInv == TypeOK /\ SurvivorsAreScored /\ SelectionIsFirst
=============================================================================
