------------------------------ MODULE Grounding -----------------------------
(***************************************************************************)
(* Answers that cite their sources: the verification of a span             *)
(* (signatures/grounding.py), the corpus of tagged paragraphs              *)
(* (signatures/span_tagging.py) and the retries of Grounded                *)
(* (programs/grounded.py), which tells the producer what failed and keeps  *)
(* the attempt with the fewest errors.  A character stands for a word      *)
(* where a strategy compares words.                                        *)
(***************************************************************************)
EXTENDS Integers, Sequences, FiniteSets, FiniteSetsExt, Functions

CONSTANTS
  Documents,       \* [uri -> text], a uri of a document being <<name>>
  Tagged,          \* the document that tag_paragraphs got
  MinParagraph,    \* min_paragraph_chars
  Lower,           \* [character -> character], what case folding does
  StrategyChoices, \* the tuples of strategies a program is built with
  Threshold,       \* in percent
  Candidates,      \* what the producer may return
  MaxRetries

VARIABLES
  at,         \* where forward() is
  strategies, \* _match_strategies
  span_map,   \* _span_map: the paragraphs of Tagged, or none
  outputs,    \* what the producer has returned, oldest first
  best,       \* which of them is best_output
  feedback    \* the failed citations that the producer is told about

arguments == <<strategies, span_map>>
vars == <<at, arguments, outputs, best, feedback>>

-----------------------------------------------------------------------------
(* A paragraph is what lies between two runs of blank lines; "n" is the     *)
(* newline.  Those that are long enough get the next number.               *)

\* A slice of Python: from start up to, not including, end.
Slice(text, start, end) == SubSeq(text, start + 1, end)

Breaks(text) == {i \in DOMAIN text : /\ text[i] = "n"
                                     /\ \E j \in {i - 1, i + 1} \cap DOMAIN text : text[j] = "n"}
Bounds(text) ==
  {b \in (0..Len(text)) \X (0..Len(text)) :
     /\ b[1] < b[2]
     /\ (b[1]+1)..b[2] \cap Breaks(text) = {}
     /\ b[1] > 0 => b[1] \in Breaks(text)
     /\ b[2] < Len(text) => b[2] + 1 \in Breaks(text)
     /\ Cardinality({i \in (b[1]+1)..b[2] : text[i] # "n"}) >= MinParagraph}
SpanMap(text) ==
  CHOOSE s \in [1..Cardinality(Bounds(text)) -> Bounds(text)] :
    \A i, j \in DOMAIN s : i < j => s[i][1] < s[j][1]

\* The text a uri names: that of a document or, for values that are Cited, of
\* a paragraph.  An Answer is verified without the span map.
Paragraph(k) == Slice(Documents[Tagged], span_map[k + 1][1], span_map[k + 1][2])
Corpus(enriched) ==
  LET paragraphs == IF enriched THEN {<<Tagged[1], k>> : k \in 0..(Len(span_map) - 1)} ELSE {}
  IN [uri \in DOMAIN Documents \union paragraphs |->
        IF uri \in paragraphs THEN Paragraph(uri[2]) ELSE Documents[uri]]

-----------------------------------------------------------------------------
(* Span.verify *)

InRange(span, text) == 0 <= span.start /\ span.start <= span.end /\ span.end <= Len(text)
Folded(text) == [i \in DOMAIN text |-> Lower[text[i]]]
Occurs(quote, text) ==
  \E i \in 0..(Len(text) - Len(quote)) : Slice(text, i, i + Len(quote)) = quote
LongestCommon(quote, text) ==
  Max({0} \union {b[2] - b[1] : b \in
    {b \in (0..Len(quote)) \X (0..Len(quote)) : b[1] < b[2] /\ Occurs(Slice(quote, b[1], b[2]), text)}})

Hit(span, text, strategy) ==
  CASE strategy = "strict" -> InRange(span, text) /\ Slice(text, span.start, span.end) = span.quote
    [] strategy = "substring" -> Occurs(span.quote, text)
    [] strategy \in {"case_insensitive", "normalized_token"} -> Occurs(Folded(span.quote), Folded(text))
    [] strategy = "fuzzy_char" ->
         100 * LongestCommon(span.quote, text) >= Threshold * Len(span.quote)
    [] strategy = "fuzzy_token" ->
         LET q == Range(Folded(span.quote))
             t == Range(Folded(text))
         IN 100 * Cardinality(q \cap t) >= Threshold * Cardinality(q \union t)

\* One strategy that finds the quote is enough.
Verifies(span, corpus) ==
  /\ span.source \in DOMAIN corpus
  /\ \E k \in DOMAIN strategies : Hit(span, corpus[span.source], strategies[k])

Reason(span, corpus) ==
  CASE span.source \notin DOMAIN corpus -> "source_missing"
    [] span.source \in DOMAIN corpus /\ strategies # <<>>
       /\ strategies[Len(strategies)] \in {"fuzzy_char", "fuzzy_token"} -> "similarity_below_threshold"
    [] OTHER -> IF InRange(span, corpus[span.source]) THEN "quote_mismatch" ELSE "out_of_range"

\* The errors of the k-th claim or Cited value, one for each span that no
\* strategy finds.
\* A bug: a source that is not in the corpus is skipped without an error.
KnownErrors(k, spans, corpus) ==
  {[part |-> k, index |-> i - 1, reason |-> Reason(spans[i], corpus)] :
     i \in {i \in DOMAIN spans : spans[i].source \in DOMAIN corpus /\ ~Verifies(spans[i], corpus)}}
SpanErrors(k, spans, corpus) ==
  {[part |-> k, index |-> i - 1, reason |-> Reason(spans[i], corpus)] :
     i \in {i \in DOMAIN spans : ~Verifies(spans[i], corpus)}}

\* Grounded._verify: every claim of a bare Answer; nothing of
\* InsufficientEvidence; of another output the values that are Cited, however
\* deep, and nothing of an Answer inside it.
Looked(output) ==
  CASE output.kind = "answer" -> DOMAIN output.parts
    [] output.kind = "insufficient" -> {}
    [] output.kind = "model" -> {k \in DOMAIN output.parts : output.parts[k].cited}
CorpusOf(output) == Corpus(output.kind = "model")
Errors(output) ==
  UNION {SpanErrors(k, output.parts[k].spans, CorpusOf(output)) : k \in Looked(output)}

\* Claim.verify asks for at least one strategy, Cited.verify does not.
NoStrategy(output) == output.kind = "answer" /\ strategies = <<>>

-----------------------------------------------------------------------------
(* Grounded.forward *)

Init ==
  /\ at = "asking"
  /\ strategies \in StrategyChoices
  /\ span_map \in {<<>>, SpanMap(Documents[Tagged])}
  /\ outputs = <<>>
  /\ best = 0
  /\ feedback = {}

\* A later attempt must have fewer errors than the best so far.
\* A bug: the latest attempt replaces an equally good one.
NotWorse(errors) == best = 0 \/ Cardinality(errors) <= Cardinality(Errors(outputs[best]))
Improves(errors) == best = 0 \/ Cardinality(errors) < Cardinality(Errors(outputs[best]))

\* The producer, or its clone with the feedback, answers.
Answered(output) ==
  /\ at = "asking"
  /\ ~NoStrategy(output)
  /\ outputs' = Append(outputs, output)
  /\ best' = IF Improves(Errors(output)) THEN Len(outputs') ELSE best
  /\ LET errors == Errors(outputs'[best']) IN
       IF errors = {} \/ Len(outputs') > MaxRetries
       THEN at' = "returned" /\ UNCHANGED feedback
       ELSE at' = at /\ feedback' = errors
  /\ UNCHANGED arguments

\* The first call and its verification may raise, so may a later verification;
\* the failure of a retry ends the retries.
Fails ==
  /\ at = "asking"
  /\ at' = IF outputs = <<>> THEN "raised" ELSE "returned"
  /\ UNCHANGED <<arguments, outputs, best, feedback>>
CannotVerify(output) ==
  /\ at = "asking"
  /\ NoStrategy(output)
  /\ at' = "raised"
  /\ outputs' = Append(outputs, output)
  /\ UNCHANGED <<arguments, best, feedback>>

Next ==
  \/ \E output \in Candidates : Answered(output) \/ CannotVerify(output)
  \/ Fails

Spec == Init /\ [][Next]_vars

-----------------------------------------------------------------------------
TypeOK ==
  /\ at \in {"asking", "returned", "raised"}
  /\ strategies \in StrategyChoices
  /\ outputs \in Seq(Candidates) /\ Len(outputs) <= MaxRetries + 1
  /\ best \in 0..Len(outputs)
  /\ \A error \in feedback :
       error.reason \in {"source_missing", "similarity_below_threshold", "quote_mismatch", "out_of_range"}

FirstOfTheFewest ==
  \A k \in DOMAIN outputs :
    \/ Cardinality(Errors(outputs[best])) < Cardinality(Errors(outputs[k]))
    \/ Cardinality(Errors(outputs[best])) = Cardinality(Errors(outputs[k])) /\ best <= k

\* What is returned is the earliest attempt with the fewest errors; nobody is
\* asked again after an attempt without an error; and what the producer was
\* last told is what is wrong with the attempt that is returned if it fails.
ReturnsBestAttempt ==
  /\ at = "returned" => FirstOfTheFewest
  /\ \A k \in DOMAIN outputs : Errors(outputs[k]) = {} => k = Len(outputs) \/ NoStrategy(outputs[k])
  /\ at = "asking" /\ outputs # <<>> => feedback = Errors(outputs[best])

\* With the strategies STRICT and SUBSTRING, the default, an output without an
\* error quotes nothing that its sources do not say, letter for letter, where
\* a paragraph of a tagged document is part of that document.
QuotesAreReal ==
  at = "returned" /\ Range(strategies) \subseteq {"strict", "substring"} /\ Errors(outputs[best]) = {} =>
    \A k \in Looked(outputs[best]) :
      \A i \in DOMAIN outputs[best].parts[k].spans :
        LET span == outputs[best].parts[k].spans[i] IN
          /\ <<span.source[1]>> \in DOMAIN Documents
          /\ Occurs(span.quote, Documents[<<span.source[1]>>])

-----------------------------------------------------------------------------
(* Why the best is returned: the inductive invariant *)

\* Until an exception leaves the loop its best is the best of all outputs, and
\* while it goes on none of them is without errors.
LoopKeepsBest ==
  /\ at # "raised" => FirstOfTheFewest /\ (outputs # <<>> => best # 0)
  /\ at = "asking" => /\ Len(outputs) <= MaxRetries
                      /\ \A k \in DOMAIN outputs : Errors(outputs[k]) # {}

AttemptsInv == TypeOK /\ LoopKeepsBest /\ ReturnsBestAttempt
=============================================================================
