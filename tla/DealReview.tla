------------------------------- MODULE DealReview -----------------------------
(***************************************************************************)
(* The review of a set of contracts (programs/deal_review.py): a schema is *)
(* designed (programs/designers.py), each document is extracted into a     *)
(* row, a rubric is designed, every row is scored at the same time         *)
(* (programs/scoring.py, signatures/rubric.py), and one last call          *)
(* recommends.  Scores are integers out of Scale, weights out of Weights.  *)
(***************************************************************************)
EXTENDS Integers, Sequences, FiniteSets, SequencesExt, FiniteSetsExt, Functions

CONSTANTS
  Documents, \* how many there are
  Designs,   \* the sequences of column names that the designer may propose
  Cells,     \* what an extraction may find: numbers, Text or None
  Text,      \* a text, which compares with no number
  Rubrics,   \* [criteria, guided, hard, soft]; a criterion is [column, op, value, weight]
  Judgements,\* the score that a judge may give, in or out of 0..Scale
  Scale,
  Weights,
  None

VARIABLES
  at,      \* the phase: "schema", "extract", "rubric", "score", "recommend", "done", "raised"
  columns, \* the columns after doc_id
  rows,    \* the extracted cells, one sequence for each document read
  rubric,
  judged,  \* the soft score of each row, None while its judge has not answered
  ended,   \* the rows whose judge has answered, in that order
  scores

vars == <<at, columns, rows, rubric, judged, ended, scores>>

Init ==
  /\ at = "schema"
  /\ columns = <<>>
  /\ rows = <<>>
  /\ rubric = None
  /\ judged = [d \in 1..Documents |-> None]
  /\ ended = <<>>
  /\ scores = <<>>

-----------------------------------------------------------------------------
\* Ids that are not as many as the documents, an input that is missing, and a
\* call that fails in any phase but the judges' end the review.
Fail ==
  /\ at \in {"schema", "extract", "rubric", "recommend"}
  /\ at' = "raised"
  /\ UNCHANGED <<columns, rows, rubric, judged, ended, scores>>

DesignSchema ==
  /\ at = "schema"
  /\ columns' \in Designs
  /\ at' = "extract"
  /\ UNCHANGED <<rows, rubric, judged, ended, scores>>

\* The documents are extracted one after the other; what was not found is None.
Extract ==
  /\ at = "extract" /\ Len(rows) < Documents
  /\ \E found \in [DOMAIN columns -> Cells] : rows' = Append(rows, found)
  /\ UNCHANGED <<at, columns, rubric, judged, ended, scores>>
Extracted ==
  /\ at = "extract" /\ Len(rows) = Documents
  /\ at' = "rubric"
  /\ UNCHANGED <<columns, rows, rubric, judged, ended, scores>>

\* HybridRubric: the weights of the two channels add up to one, and a channel
\* that has nothing in it has no weight.
Sound(r) ==
  /\ r.hard + r.soft = Weights
  /\ r.criteria = {} => r.hard = 0 /\ r.guided
  /\ ~r.guided => r.soft = 0
DesignRubric ==
  /\ at = "rubric"
  /\ rubric' \in Rubrics
  /\ at' = IF Sound(rubric') THEN "score" ELSE "raised"
  /\ UNCHANGED <<columns, rows, judged, ended, scores>>

-----------------------------------------------------------------------------
\* The row as a dict: a designed column called doc_id hides the document's id,
\* and a criterion may be about a column that is not there.
CellOf(row, column) ==
  LET of == {k \in DOMAIN columns : columns[k] = column}
  IN  CASE of # {} -> row[Max(of)]
        [] column = "doc_id" -> Text
        [] OTHER -> None

\* _evaluate_criterion, where value is the set of the values named: nothing matches a cell that is empty but "not_in"
\* and "falsy", and a comparison that raises is no match.
Matches(c, cell) ==
  CASE c.op = "truthy" -> cell # None /\ cell # 0
    [] c.op = "falsy" -> cell = None \/ cell = 0
    [] cell = None -> c.op = "not_in"
    [] c.op \in {"eq", "in"} -> cell \in c.value
    [] c.op \in {"neq", "not_in"} -> cell \notin c.value
    [] c.op = "lt" -> cell # Text /\ \A v \in c.value : cell < v

Matched(row) == {c \in rubric.criteria : Matches(c, CellOf(row, c.column))}
Magnitude == FoldSet(LAMBDA c, s : s + (IF c.weight < 0 THEN -c.weight ELSE c.weight), 0, rubric.criteria)
HardScore(row) ==
  LET raw == FoldSet(LAMBDA c, s : s + c.weight, 0, Matched(row))
  IN  IF Magnitude = 0 THEN Scale \div 2 ELSE ((raw * Scale) \div Magnitude + Scale) \div 2

Clamped(s) == Min({Scale * Weights, Max({0, s})})
\* The score of a row out of Scale * Weights.  A bug: the whole is not held
\* within the limits, so a judge may give more than all criteria together.
ScoreUnclamped(d) == rubric.hard * HardScore(rows[d]) + rubric.soft * judged[d]
ScoreOf(d) == Clamped(rubric.hard * HardScore(rows[d]) + rubric.soft * judged[d])

\* The judges work at the same time and end in any order; one that fails, or a
\* rubric without guidance, gives the middle.
Judge(d) ==
  /\ at = "score" /\ judged[d] = None
  /\ judged' \in {[judged EXCEPT ![d] = s] :
                    s \in {Scale \div 2} \cup IF rubric.guided THEN Judgements ELSE {}}
  /\ ended' = Append(ended, d)
  /\ UNCHANGED <<at, columns, rows, rubric, scores>>

\* gather returns in the order of the rows.  A bug: in the order of the answers.
AsTheyEnd == ended
InOrder == [d \in 1..Documents |-> d]
Gather ==
  /\ at = "score" /\ Len(ended) = Documents
  /\ scores' = [d \in 1..Documents |-> ScoreOf(InOrder[d])]
  /\ at' = "recommend"
  /\ UNCHANGED <<columns, rows, rubric, judged, ended>>

\* The recommendation names ids of its own: nothing compares them with the rows.
Recommend ==
  /\ at = "recommend"
  /\ at' = "done"
  /\ UNCHANGED <<columns, rows, rubric, judged, ended, scores>>

Next ==
  \/ Fail \/ DesignSchema \/ Extract \/ Extracted \/ DesignRubric
  \/ \E d \in 1..Documents : Judge(d)
  \/ Gather \/ Recommend

Spec == Init /\ [][Next]_vars

-----------------------------------------------------------------------------
TypeOK ==
  /\ at \in {"schema", "extract", "rubric", "score", "recommend", "done", "raised"}
  /\ Len(rows) <= Documents /\ Len(scores) \in {0, Documents}
  /\ \A d \in DOMAIN rows : DOMAIN rows[d] = DOMAIN columns

\* Every score is in its range and is that of its own row: a row that does at
\* least as well as another on every criterion, and whose judge likes it at least
\* as much, does not score less.  With a hard channel alone, the full score needs
\* that no criterion has a negative weight, and none that none has a positive one.
Rewarded(d) == {c \in Matched(rows[d]) : c.weight > 0}
Penalised(d) == {c \in Matched(rows[d]) : c.weight < 0}
ScoresFollowTheRubric ==
  scores # <<>> =>
    /\ \A d \in 1..Documents : scores[d] \in 0..(Scale * Weights)
    /\ \A d, e \in 1..Documents :
         /\ Rewarded(e) \subseteq Rewarded(d)
         /\ Penalised(d) \subseteq Penalised(e)
         /\ judged[e] <= judged[d]
         => scores[e] <= scores[d]
    /\ rubric.hard = Weights /\ Magnitude > 0 => \A d \in 1..Documents :
         /\ scores[d] = Scale * Weights <=> \A c \in rubric.criteria :
              IF c.weight > 0 THEN c \in Rewarded(d) ELSE c.weight = 0
         /\ scores[d] = 0 <=> \A c \in rubric.criteria :
              IF c.weight < 0 THEN c \in Penalised(d) ELSE c.weight = 0
=============================================================================
