---------------------------- MODULE FocusedSummary --------------------------
(***************************************************************************)
(* Summaries of chosen sentences (programs/summarize): ExtractiveSummary   *)
(* takes the sentences a ranker puts first, CitedSummary verifies what the *)
(* model cites, HybridSummary and QueryFocusedSummary do one after the     *)
(* other.  A text is its sentences 1..n, a position counts sentences.  The *)
(* ranker and the embedder are external: they order sentences by a score.  *)
(***************************************************************************)
EXTENDS Integers, Sequences, FiniteSets, SequencesExt, FiniteSetsExt

CONSTANTS
  MaxSentences, SentenceScores, TopKs,
  CostCaps,      \* of the budget, or None
  None,
  ClaimChoices,  \* what the model may cite: sequences of claims, a claim
                 \* being a sequence of spans [start, quote]
  RefuseBelow    \* in percent

VARIABLES
  at,       \* where forward() is
  kind,     \* the program: "extractive", "cited", "hybrid", "query_focused"
  top_k,
  cap,      \* Budget.max_cost_usd of a hybrid or a query-focused summary
  scores,   \* the score of every sentence
  picks,    \* the chosen sentences, in the order of the text
  claims,   \* what the model cites in its answer
  spans,    \* source_spans of the result
  text      \* where its text comes from: "none", "picks" or "model"

arguments == <<kind, top_k, cap, scores>>
vars == <<at, arguments, picks, claims, spans, text>>

-----------------------------------------------------------------------------
Sentences == DOMAIN scores

\* The best top_k of the sentences; those with equal scores as it happens.
\* A bug: as many as top_k, without a look at the scores.
AnyPicks(ss) == Cardinality(ss) = Min({top_k, Cardinality(Sentences)})
BestPicks(ss) ==
  /\ Cardinality(ss) = Min({top_k, Cardinality(Sentences)})
  /\ \A i \in ss, j \in Sentences \ ss : scores[i] >= scores[j]

SpanOfPick(i) == <<i - 1, i>>
SpanOfClaim(span) == <<span.start, span.start + 1>>

\* The sentences the model gets to see, one after the other.
Passage == picks

\* Answer.verify with the strategies STRICT and SUBSTRING: where the span says,
\* or anywhere.
SpanHolds(span) == Contains(Passage, span.quote)
\* A bug: a span counts although another one of its claim fails.
AnySpan(claim) == \E k \in DOMAIN claim : SpanHolds(claim[k])
Verified(claim) == \A k \in DOMAIN claim : SpanHolds(claim[k])

VerifiedSpans(cs) == FlattenSeq([c \in DOMAIN cs |->
  IF Verified(cs[c]) THEN [k \in DOMAIN cs[c] |-> SpanOfClaim(cs[c][k])] ELSE <<>>])
Refused(cs) ==
  /\ cs # <<>>
  /\ 100 * Cardinality({c \in DOMAIN cs : Verified(cs[c])}) < RefuseBelow * Len(cs)

\* Spans of the picks, then those of the claims, each once.
Pooled(ss) == FoldLeft(LAMBDA acc, s : IF Contains(acc, s) THEN acc ELSE Append(acc, s), <<>>, ss)
PickSpans == [k \in DOMAIN picks' |-> SpanOfPick(picks'[k])]

-----------------------------------------------------------------------------
Init ==
  /\ at = "choosing"
  /\ kind \in {"extractive", "cited", "hybrid", "query_focused"}
  /\ top_k \in TopKs
  /\ cap \in IF kind \in {"hybrid", "query_focused"} THEN CostCaps ELSE {None}
  /\ scores \in UNION {[1..n -> SentenceScores] : n \in 0..MaxSentences}
  /\ picks = <<>>
  /\ claims = <<>>
  /\ spans = <<>>
  /\ text = "none"

\* The sentences are chosen.  Without one, or with a budget that is used up
\* already, the model is not asked.
Choose ==
  /\ at = "choosing"
  /\ \E ss \in SUBSET Sentences :
       /\ IF kind = "cited" THEN ss = Sentences ELSE BestPicks(ss)
       /\ picks' = SetToSortSeq(ss, <)
  /\ IF kind = "extractive" \/ (picks' = <<>> /\ kind # "cited") \/ cap = 0
     THEN at' = "returned" /\ spans' = PickSpans
     ELSE at' = "asking" /\ UNCHANGED spans
  /\ text' = IF kind = "extractive" /\ picks' # <<>> THEN "picks" ELSE "none"
  /\ UNCHANGED <<arguments, claims>>

\* The model answers, or refuses to (then there are no claims).
Answered(cs) ==
  /\ at = "asking"
  /\ at' = "returned"
  /\ claims' = cs
  /\ text' = IF cs = <<>> \/ Refused(cs) THEN "none" ELSE "model"
  /\ spans' = Pooled((IF kind = "cited" THEN <<>> ELSE [k \in DOMAIN picks |-> SpanOfPick(picks[k])])
                     \o (IF Refused(cs) THEN <<>> ELSE VerifiedSpans(cs)))
  /\ UNCHANGED <<arguments, picks>>

\* The ranker, the embedder or the model raises.
Raises ==
  /\ at \in {"choosing", "asking"}
  /\ at' = "raised"
  /\ UNCHANGED <<arguments, picks, claims, spans, text>>

Next == Choose \/ (\E cs \in ClaimChoices : Answered(cs)) \/ Raises

Spec == Init /\ [][Next]_vars

-----------------------------------------------------------------------------
TypeOK ==
  /\ at \in {"choosing", "asking", "returned", "raised"}
  /\ kind \in {"extractive", "cited", "hybrid", "query_focused"}
  /\ picks \in Seq(Sentences)
  /\ claims = <<>> \/ claims \in ClaimChoices
  /\ spans \in Seq(Nat \X Nat)
  /\ text \in {"none", "picks", "model"}

\* The text handed on is the best sentences in their order; a result keeps the
\* spans of all of them, and besides only spans of claims whose every quote is
\* in that text, and each span once; the model's own text is there only if
\* enough of its claims hold, and never when the budget did not let it speak.
FocusIsVerified ==
  at = "returned" =>
    /\ \A j, k \in DOMAIN picks : j < k => picks[j] < picks[k]
    /\ kind # "cited" =>
         /\ \A i \in Range(picks), j \in Sentences \ Range(picks) : scores[i] >= scores[j]
         /\ \A i \in Range(picks) : Contains(spans, SpanOfPick(i))
    /\ IsInjective(spans)
    /\ \A s \in Range(spans) :
         \/ kind # "cited" /\ \E i \in Range(picks) : s = SpanOfPick(i)
         \/ \E c \in DOMAIN claims : /\ \A k \in DOMAIN claims[c] : claims[c][k].quote \in Range(picks)
                                     /\ \E k \in DOMAIN claims[c] : SpanOfClaim(claims[c][k]) = s
    /\ text = "model" => cap # 0 /\ ~Refused(claims) /\ claims # <<>>
=============================================================================
