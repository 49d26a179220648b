------------------------------- MODULE Calibration ----------------------------
(***************************************************************************)
(* The calibration of a model (calibration/core.py and io.py): questions   *)
(* are read from a file, asked one after the other of a RAG program, and   *)
(* counted into a report, whose table gives the precision on the questions *)
(* with an answer and the recall of the refusals on those without one.     *)
(***************************************************************************)
EXTENDS Integers, Sequences, FiniteSets, SequencesExt, FiniteSetsExt, Functions

CONSTANTS
  Lines,       \* what a line may be: "blank", "broken", "answerable" or "unanswerable"
  MaxLines,
  Confidences, \* the confidence that an answer states
  Costs,       \* what asking a question costs, as an integer
  None

VARIABLES
  lines,
  at,        \* "reading", "asking", "reported", "skipped", "written" or "raised"
  questions, \* whether the question that was read has an answer
  results,   \* [answerable, outcome, verified, confidence, cost]
  tally,     \* the counters of the report
  spent,     \* what the provider was paid
  dry,       \* a dry run asks nothing
  table      \* the rates and the rows of the markdown file

vars == <<lines, at, questions, results, tally, spent, dry, table>>

Classes == {"verified", "unverified", "refused", "rightly refused", "wrongly answered", "error"}
NothingCounted == [c \in Classes |-> 0]

Init ==
  /\ lines \in UNION {[1..n -> Lines] : n \in 0..MaxLines}
  /\ at = "reading"
  /\ questions = <<>>
  /\ results = <<>>
  /\ tally = NothingCounted
  /\ spent = 0
  /\ dry \in BOOLEAN
  /\ table = None

-----------------------------------------------------------------------------
\* load_questions_jsonl: one line that cannot be read ends everything.
Broken == "broken" \in Range(lines)
Read ==
  /\ at = "reading" /\ ~Broken
  /\ questions' = LET asked == SelectSeq(lines, LAMBDA l : l # "blank")
                  IN  [k \in DOMAIN asked |-> asked[k] = "answerable"]
  /\ at' = "asking"
  /\ UNCHANGED <<lines, results, tally, spent, dry, table>>
ReadFails ==
  /\ at = "reading" /\ Broken
  /\ at' = "raised"
  /\ UNCHANGED <<lines, questions, results, tally, spent, dry, table>>

\* A model without an API key is left out.
SkipModel ==
  /\ at = "asking" /\ results = <<>> /\ ~dry
  /\ at' = "skipped"
  /\ UNCHANGED <<lines, questions, results, tally, spent, dry, table>>

-----------------------------------------------------------------------------
\* What a question may give; a question that fails costs nothing in its result.
Result(answerable, outcome, verified, confidence, cost) ==
  [answerable |-> answerable, outcome |-> outcome, verified |-> verified,
   confidence |-> confidence, cost |-> cost]
Outcomes(a, cost) ==
       {Result(a, "answer", v, c, cost) : v \in BOOLEAN, c \in Confidences}
  \cup {Result(a, "insufficient_evidence", FALSE, 0, cost), Result(a, "error", FALSE, 0, 0)}

\* The counter of a result.  A bug: a question that failed is also a refusal.
ClassWithErrors(r) ==
  CASE r.outcome = "answer" /\ r.answerable /\ r.verified -> "verified"
    [] r.outcome = "answer" /\ r.answerable /\ ~r.verified -> "unverified"
    [] r.outcome = "answer" /\ ~r.answerable -> "wrongly answered"
    [] r.outcome # "answer" /\ r.answerable -> "refused"
    [] OTHER -> "rightly refused"
Class(r) ==
  CASE r.outcome = "error" -> "error"
    [] r.outcome = "answer" /\ r.answerable /\ r.verified -> "verified"
    [] r.outcome = "answer" /\ r.answerable /\ ~r.verified -> "unverified"
    [] r.outcome = "answer" /\ ~r.answerable -> "wrongly answered"
    [] r.outcome = "insufficient_evidence" /\ r.answerable -> "refused"
    [] OTHER -> "rightly refused"

Count(r) ==
  /\ results' = Append(results, r)
  /\ tally' = [tally EXCEPT ![Class(r)] = @ + 1]

Unasked == at = "asking" /\ Len(results) < Len(questions)
Ask ==
  /\ Unasked /\ ~dry
  /\ \E cost \in Costs :
       /\ spent' = spent + cost
       /\ \E r \in Outcomes(questions[Len(results) + 1], cost) : Count(r)
  /\ UNCHANGED <<lines, at, questions, dry, table>>
\* A dry run has every answer right.
Pretend ==
  /\ Unasked /\ dry
  /\ LET a == questions[Len(results) + 1]
     IN  Count(IF a THEN Result(TRUE, "answer", TRUE, 9, 0)
               ELSE Result(FALSE, "insufficient_evidence", FALSE, 0, 0))
  /\ UNCHANGED <<lines, at, questions, spent, dry, table>>

-----------------------------------------------------------------------------
Answerable == Cardinality({k \in DOMAIN questions : questions[k]})
Unanswerable == Len(questions) - Answerable
Answered == {k \in DOMAIN results : results[k].outcome = "answer"}
CostOf(rs) == FoldLeft(LAMBDA s, r : s + r.cost, 0, rs)

\* The rates, as a numerator over a denominator; of nothing it is 0, but in a
\* dry run 1.
Rate(n, of) == CASE dry -> <<1, 1>> [] ~dry /\ of = 0 -> <<0, 1>> [] OTHER -> <<n, of>>

Report ==
  /\ at = "asking" /\ Len(results) = Len(questions)
  /\ at' = "reported"
  /\ UNCHANGED <<lines, questions, results, tally, spent, dry, table>>

\* write_markdown: a row of rates for the model and one row for each result.
Row(r) == [outcome |-> r.outcome, verified |-> r.verified, cost |-> r.cost]
Write ==
  /\ at \in {"reported", "skipped"}
  /\ table' =
       IF at = "skipped" THEN [rates |-> None, rows |-> <<>>]
       ELSE [rates |-> [precision |-> Rate(tally["verified"], Answerable),
                        recall |-> Rate(tally["rightly refused"], Unanswerable),
                        errors |-> tally["error"],
                        confidence |-> FoldSet(LAMBDA k, s : s + results[k].confidence, 0, Answered),
                        cost |-> CostOf(results)],
             rows |-> [k \in DOMAIN results |-> Row(results[k])]]
  /\ at' = "written"
  /\ UNCHANGED <<lines, questions, results, tally, spent, dry>>

Next == Read \/ ReadFails \/ SkipModel \/ Ask \/ Pretend \/ Report \/ Write

Spec == Init /\ [][Next]_vars

-----------------------------------------------------------------------------
TypeOK ==
  /\ at \in {"reading", "asking", "reported", "skipped", "written", "raised"}
  /\ DOMAIN tally = Classes /\ Len(results) <= Len(questions) /\ spent \in Nat

\* Every question is in exactly one class, that of its own kind: a question
\* that failed is in the denominator of its rate and nowhere in the numerator.
\* The rates of the table are those of the rows below them, and its cost is what
\* was paid unless a question failed.
ReportTellsTheResults ==
  /\ tally["verified"] + tally["unverified"] + tally["refused"] <= Answerable
  /\ tally["rightly refused"] + tally["wrongly answered"] <= Unanswerable
  /\ FoldFunction(+, 0, tally) = Len(results)
  /\ CostOf(results) <= spent
  /\ at = "written" /\ table.rates # None =>
       LET rows == table.rows
           failed == {k \in DOMAIN rows : rows[k].outcome = "error"}
           right == {k \in DOMAIN rows : questions[k] /\ rows[k].verified}
           refused == {k \in DOMAIN rows :
                         ~questions[k] /\ rows[k].outcome = "insufficient_evidence"}
       IN  /\ Len(rows) = Len(questions)
           /\ table.rates.errors = Cardinality(failed)
           /\ Answerable > 0 =>
                table.rates.precision[1] * Answerable
                  = Cardinality(right) * table.rates.precision[2]
           /\ Unanswerable > 0 =>
                table.rates.recall[1] * Unanswerable
                  = Cardinality(refused) * table.rates.recall[2]
           /\ failed = {} => table.rates.cost = spent
=============================================================================
