------------------------------- MODULE RagMetrics -----------------------------
(***************************************************************************)
(* The metrics of a retrieval pipeline (metrics/retrieval.py) on one       *)
(* prediction and its gold example, their weighted sum, and the judge and  *)
(* embedding calls that two of them make (metrics/llm_judge.py, text.py).  *)
(* A score of 1.0 is Full; a weighted sum is over the sum of the weights.  *)
(***************************************************************************)
EXTENDS Integers, Sequences, FiniteSets, SequencesExt, FiniteSetsExt, Functions, TLC

CONSTANTS
  Refs,        \* passages
  MaxRetrieved,
  Full,        \* divisible by every count of passages and of claims
  Scores,      \* what a judge or a similarity may say, also outside 0..Full
  WeightSets,  \* the weights that a user may give
  None

VARIABLES
  prediction, \* [kind, claims, retrieved]
  gold,       \* [relevant, retrieved]
  corpus,     \* whether one is given
  judge,      \* whether a judge model is given
  weights,
  at,         \* "new", "raised", or the next metric, or "done"
  scores,     \* of the metrics that have been computed
  composite

vars == <<prediction, gold, corpus, judge, weights, at, scores, composite>>

Metrics == {"faithfulness", "context_precision", "context_recall", "answer_relevancy"}

\* A field with references: absent, of a kind that cannot be iterated, a single
\* text, or a list, in which a passage may come twice.
Lists == UNION {[1..n -> Refs] : n \in 0..MaxRetrieved}
Fields == {None} \cup Lists
Claims == UNION {[1..n -> BOOLEAN] : n \in 0..2}

Init ==
  /\ prediction \in
         {[kind |-> "answer", claims |-> c, retrieved |-> None] : c \in Claims}
    \cup {[kind |-> "refusal", claims |-> <<>>, retrieved |-> None]}
    \cup {[kind |-> "plain", claims |-> <<>>, retrieved |-> r] : r \in Fields}
  /\ gold \in [relevant : Fields, retrieved : {None, <<CHOOSE r \in Refs : TRUE>>}]
  /\ corpus \in BOOLEAN
  /\ judge \in BOOLEAN
  /\ weights \in WeightSets
  /\ at = "new"
  /\ scores = [m \in {} |-> 0]
  /\ composite = None

-----------------------------------------------------------------------------
\* The references as a set: what is not there is None, not the empty set.
Extracted(field) == IF field = None THEN None ELSE Range(field)
Retrieved == IF prediction.retrieved # None THEN Extracted(prediction.retrieved)
             ELSE Extracted(gold.retrieved)
Relevant == Extracted(gold.relevant)

Share(part, whole) ==
  IF whole = {} THEN 0
  ELSE (Cardinality(part \cap whole) * Full) \div Cardinality(whole)
Clamped(s) == Max({0, Min({Full, s})})

\* The share of claims without an error; an answer without a claim has none.
\* A bug: one verified claim is enough.
AnyVerified(claims) == IF \E k \in DOMAIN claims : claims[k] THEN Full ELSE 0
Structural(claims) ==
  IF claims = <<>> THEN 0
  ELSE (Cardinality({k \in DOMAIN claims : claims[k]}) * Full) \div Len(claims)

\* The weights must name the four metrics and add up to something.
Total == FoldFunction(+, 0, weights)
Configure ==
  /\ at = "new"
  /\ at' = IF DOMAIN weights = Metrics /\ Total > 0 THEN "faithfulness" ELSE "raised"
  /\ UNCHANGED <<prediction, gold, corpus, judge, weights, scores, composite>>

Scored(m, s, next) ==
  /\ at = m
  /\ scores' = (m :> s) @@ scores
  /\ at' = next
  /\ UNCHANGED <<prediction, gold, corpus, judge, weights, composite>>

\* Spans are compared with the corpus; a refusal is faithful; anything else is
\* judged, and a judge that fails says 0.
Faithfulness ==
  \E said \in Scores :
    Scored("faithfulness",
           CASE prediction.kind = "answer" -> IF corpus THEN Structural(prediction.claims) ELSE 0
             [] prediction.kind = "refusal" -> Full
             [] prediction.kind = "plain" -> IF judge THEN Clamped(said) ELSE 0,
           "context_precision")
ContextPrecision ==
  Scored("context_precision",
         IF None \in {Retrieved, Relevant} THEN 0 ELSE Share(Relevant, Retrieved),
         "context_recall")
ContextRecall ==
  Scored("context_recall",
         IF None \in {Retrieved, Relevant} THEN 0 ELSE Share(Retrieved, Relevant),
         "answer_relevancy")
\* Without a question, without embeddings or when they fail it is 0.
AnswerRelevancy ==
  \E said \in Scores \cup {0} : Scored("answer_relevancy", Clamped(said), "combine")

Combine ==
  /\ at = "combine"
  /\ composite' = FoldSet(LAMBDA m, s : s + weights[m] * scores[m], 0, Metrics)
  /\ at' = "done"
  /\ UNCHANGED <<prediction, gold, corpus, judge, weights, scores>>

Next ==
  Configure \/ Faithfulness \/ ContextPrecision \/ ContextRecall \/ AnswerRelevancy \/ Combine

Spec == Init /\ [][Next]_vars

-----------------------------------------------------------------------------
TypeOK ==
  /\ at \in Metrics \cup {"new", "raised", "combine", "done"}
  /\ DOMAIN scores \subseteq Metrics
  /\ \A m \in DOMAIN scores : scores[m] \in 0..Full

\* What the scores of a prediction mean together: precision and recall are both
\* full just when the retrieved passages are the relevant ones, an answer is fully
\* faithful just when every claim of it was verified, and with weights that are
\* not negative the sum is full just when every metric that counts is.
ScoresMeanTheirWords ==
  at = "done" =>
    /\ /\ scores["context_precision"] = Full
       /\ scores["context_recall"] = Full
       <=> Retrieved # None /\ Relevant # None /\ Retrieved = Relevant /\ Relevant # {}
    /\ prediction.kind = "answer" =>
         (scores["faithfulness"] = Full
            <=> corpus /\ prediction.claims # <<>> /\ FALSE \notin Range(prediction.claims))
    /\ prediction.kind = "refusal" => scores["faithfulness"] = Full
    /\ (\A m \in Metrics : weights[m] >= 0) =>
         /\ composite \in 0..(Full * Total)
         /\ composite = Full * Total <=> \A m \in Metrics : weights[m] > 0 => scores[m] = Full
=============================================================================
