---------------------------------- MODULE Rag ---------------------------------
(***************************************************************************)
(* Question answering over retrieved passages (programs/rag.py): the       *)
(* question is expanded to several queries (programs/query_expander.py),   *)
(* their hits are merged, scored again by a judge (programs/reranker.py),  *)
(* put into a context that fits, and an answer whose citations do not      *)
(* verify is asked for once more.  Retrievers and search_corpus are        *)
(* another package's.  One program answers several questions.              *)
(***************************************************************************)
EXTENDS Integers, Sequences, FiniteSets, SequencesExt, FiniteSetsExt, Functions

CONSTANTS
  None,
  Corpora,       \* what "documents" may be: objects that are a Corpus
  Plain,         \* and lists of documents, which are searched each time
  HitChoices,    \* [Corpora \union Plain -> what a retriever finds for a query]
  Expansions,    \* what the model offers as queries besides the question
  MaxQueries,    \* max_queries
  TopK, MaxContext,
  Ranks,         \* the scores of the reranker
  Outcomes,      \* what the call returns
  MaxRetries, MaxQuestions

VARIABLES
  at,
  options,       \* [reranks, expands]
  retriever,     \* _retriever: of which corpus, or None
  asked,         \* the documents of each question so far
  queries,       \* the queries of this question that have to be asked yet
  hits,          \* the hits of those that were, a sequence for each
  passages,      \* retrieved
  outcomes       \* what the call has returned for this question

question == <<queries, hits, passages, outcomes>>
vars == <<at, options, retriever, asked, question>>

-----------------------------------------------------------------------------
(* Passages *)

\* What names a passage: the uri that the retriever gives it, the block it is,
\* where it begins, or its text.
Uri(h) ==
  CASE h.uri # None -> h.uri
    [] h.uri = None /\ h.block # None -> <<h.doc, "block", h.block>>
    [] h.uri = None /\ h.block = None /\ h.start # None -> <<h.doc, "at", h.start>>
    [] OTHER -> <<h.doc, "text", h.text>>

\* The first of every uri, in order.
FirstOfEach(list) ==
  LET first == SelectSeq([i \in DOMAIN list |-> i],
                 LAMBDA i : \A j \in 1..(i-1) : Uri(list[j]) # Uri(list[i]))
  IN [k \in DOMAIN first |-> list[first[k]]]

\* Python's sort: stable, by a key that is a number.
Sorted(list, key(_)) ==
  LET order == SortSeq([i \in DOMAIN list |-> i],
                 LAMBDA i, j : key(list[i]) < key(list[j]) \/ (key(list[i]) = key(list[j]) /\ i < j))
  IN [k \in DOMAIN order |-> list[order[k]]]
FirstOf(list, n) == SubSeq(list, 1, Min({n, Len(list)}))

\* _merge_retrieval_results: a passage that several queries find stays where it
\* was found first, with its best score.
\* A bug: it keeps the score of the query that found it last.
LastHit(list, uri) ==
  list[Max({i \in DOMAIN list : Uri(list[i]) = uri})]
BestHit(list, uri) ==
  LET found == {i \in DOMAIN list : Uri(list[i]) = uri}
  IN list[CHOOSE i \in found : \A j \in found :
            list[j].score < list[i].score \/ (list[j].score = list[i].score /\ i <= j)]
Merged(list) ==
  LET uris == FirstOfEach(list)
      best == [k \in DOMAIN uris |-> BestHit(list, Uri(uris[k]))]
  IN FirstOf(Sorted(best, LAMBDA h : -h.score), TopK)
Retrieved(found) == IF Len(found) > 1 THEN Merged(FlattenSeq(found)) ELSE FlattenSeq(found)

\* build_passage_context: one entry a uri, in the order of the documents, up
\* to the first that does not fit; the first always does.
StartOf(h) == IF h.start = None THEN 0 ELSE h.start
InDocumentOrder(list) == Sorted(Sorted(FirstOfEach(list), StartOf), LAMBDA h : h.doc)
SizeTo(list, n) == FoldFunction(LAMBDA h, total : h.size + total, 0, FirstOf(list, n))
Fits(list, n) == n = 1 \/ MaxContext = 0 \/ SizeTo(list, n) <= MaxContext
Context(list) ==
  LET ordered == InDocumentOrder(list)
  IN FirstOf(ordered, Max({0} \union {n \in DOMAIN ordered : \A m \in 1..n : Fits(ordered, m)}))
Shown == Range(Context(passages))
SourceMap == {Uri(h) : h \in Shown}

-----------------------------------------------------------------------------
(* Answers.  A span names its source and quotes the passage "quoted", None   *)
(* for a quote that is nowhere, Across for one that only the whole context   *)
(* has: of a header, or over the end of a passage.                           *)

Spans(outcome) == Range(outcome.spans)
AtSource(span) == span.source \in SourceMap /\ span.quoted = span.source
Across == <<"across">>
Anywhere(span) == span.quoted \in SourceMap \/ (span.quoted = Across /\ Shown # {})

\* The errors of the first answer are forgiven if the quote is somewhere in
\* the context, those of the second are not.
FirstErrors(outcome) == IF outcome.answers THEN {s \in Spans(outcome) : ~AtSource(s) /\ ~Anywhere(s)} ELSE {}
SecondErrors(outcome) == {s \in Spans(outcome) : ~AtSource(s)}

\* A second answer is taken if it has fewer errors.
\* A bug: any second answer is taken.
AnyAnswer == Len(outcomes) = 2 /\ outcomes[2].answers
Better == /\ Len(outcomes) = 2
          /\ outcomes[2].answers
          /\ Cardinality(SecondErrors(outcomes[2])) < Cardinality(FirstErrors(outcomes[1]))
Outcome == IF Better THEN outcomes[2] ELSE outcomes[1]
VerificationErrors == IF Better THEN SecondErrors(outcomes[2]) ELSE FirstErrors(outcomes[1])
IsVerified == Outcome.answers /\ VerificationErrors = {}

-----------------------------------------------------------------------------
(* LLMQueryExpander.expand: the question first, nothing empty, nothing twice,
   never more than max_queries.  A query is what is left of it in lower case
   without the spaces around it. *)
Original == "question"
Expand(offered) ==
  LET named == SelectSeq(offered, LAMBDA q : q # "")
      unique == SelectSeq([i \in DOMAIN named |-> i],
                  LAMBDA i : /\ named[i] # Original
                             /\ \A j \in 1..(i-1) : named[j] # named[i])
  IN FirstOf(<<Original>> \o [k \in DOMAIN unique |-> named[unique[k]]], MaxQueries)

Init ==
  /\ at = "idle"
  /\ options \in [reranks : BOOLEAN, expands : BOOLEAN]
  /\ retriever = None
  /\ asked = <<>>
  /\ queries = <<>> /\ hits = <<>> /\ passages = <<>> /\ outcomes = <<>>

\* forward: the retriever of the first Corpus serves all later questions.
Ask(documents) ==
  /\ at \in {"idle", "returned"}
  /\ Len(asked) < MaxQuestions
  /\ asked' = Append(asked, documents)
  /\ retriever' = IF retriever = None /\ documents \in Corpora THEN documents ELSE retriever
  /\ IF options.expands
     THEN \E offered \in Expansions : queries' = Expand(offered)
     ELSE queries' = <<Original>>
  /\ hits' = <<>> /\ passages' = <<>> /\ outcomes' = <<>>
  /\ at' = "retrieving"
  /\ UNCHANGED options

Searched == IF retriever = None THEN Last(asked) ELSE retriever

\* The queries are asked one after the other.
Retrieve ==
  /\ at = "retrieving"
  /\ queries # <<>>
  /\ queries' = Tail(queries)
  /\ \E found \in HitChoices[Searched] : hits' = Append(hits, FirstOf(found, TopK))
  /\ UNCHANGED <<at, options, retriever, asked, passages, outcomes>>

\* The judge scores every passage; a passage it fails on scores 0 and the
\* failure of the whole reranking leaves the passages as they were.
Reranked(list, ranks) ==
  FirstOf(LET order == Sorted([i \in DOMAIN list |-> i],
                         LAMBDA i : IF ranks[i] = None THEN 0 ELSE -ranks[i])
          IN [k \in DOMAIN order |-> list[order[k]]], TopK)
Assemble ==
  /\ at = "retrieving"
  /\ queries = <<>>
  /\ LET found == Retrieved(hits) IN
       \/ /\ options.reranks
          /\ \E ranks \in [DOMAIN found -> Ranks \union {None}] : passages' = Reranked(found, ranks)
       \/ passages' = found
  /\ at' = "calling"
  /\ UNCHANGED <<options, retriever, asked, queries, hits, outcomes>>

\* The first answer, and the second if the first has errors.
Answered(outcome) ==
  /\ at \in {"calling", "retrying"}
  /\ outcomes' = Append(outcomes, outcome)
  /\ at' = IF at = "calling" /\ FirstErrors(outcome) # {} /\ MaxRetries > 0 THEN "retrying" ELSE "returned"
  /\ UNCHANGED <<options, retriever, asked, queries, hits, passages>>

\* An expander, a retriever or a call that fails, the second call too, fails
\* the question; the retriever stays.
Fails ==
  /\ at \in {"retrieving", "calling", "retrying"}
  /\ at' = "idle"
  /\ queries' = <<>> /\ hits' = <<>> /\ passages' = <<>> /\ outcomes' = <<>>
  /\ UNCHANGED <<options, retriever, asked>>

Next ==
  \/ \E documents \in Corpora \union Plain : Ask(documents)
  \/ Retrieve
  \/ Assemble
  \/ \E outcome \in Outcomes : Answered(outcome)
  \/ Fails

Spec == Init /\ [][Next]_vars

-----------------------------------------------------------------------------
TypeOK ==
  /\ at \in {"idle", "retrieving", "calling", "retrying", "returned"}
  /\ options \in [reranks : BOOLEAN, expands : BOOLEAN]
  /\ retriever \in Corpora \union {None}
  /\ asked \in Seq(Corpora \union Plain)
  /\ Len(queries) + Len(hits) <= MaxQueries
  /\ \A k \in DOMAIN hits : Len(hits[k]) <= TopK
  /\ outcomes \in Seq(Outcomes)

\* When several queries find a passage, it is ranked by the best of its scores:
\* no passage that was left out, or comes later, was found with a better score
\* than one that was taken, unless the judge put it there.
RankedByBestScore ==
  at \in {"calling", "retrying", "returned"} /\ Len(hits) > 1 =>
    LET found == Range(FlattenSeq(hits))
        taken == Range(passages)
    IN /\ \A h \in found, p \in taken :
            Uri(h) = Uri(p) => h.score <= p.score
       /\ \A p, q \in taken : Uri(p) = Uri(q) => p = q
       /\ \A h \in found, p \in taken :
            h.score > p.score => \E q \in taken : Uri(q) = Uri(h)
       /\ Len(passages) = Min({TopK, Cardinality({Uri(h) : h \in found})})

\* A verified answer quotes only passages that the model was shown, a first
\* answer perhaps the headers and seams between them too; the context fits but
\* for a first passage that is too large, and the errors that are returned are
\* those of the answer that is returned and never more than the first answer had.
AnswerIsAccountedFor ==
  at = "returned" =>
    /\ IsVerified => \A s \in Spans(Outcome) :
                       s.quoted \in SourceMap \/ (s.quoted = Across /\ Shown # {} /\ ~Better)
    /\ \A s \in VerificationErrors : s \in Spans(Outcome) /\ ~AtSource(s)
    /\ Cardinality(VerificationErrors) <= Cardinality(FirstErrors(outcomes[1]))
    /\ outcomes[1].answers => Outcome.answers
    /\ passages # <<>> => Shown # {}
    /\ MaxContext > 0 /\ Cardinality(Shown) > 1 =>
         MapThenSumSet(LAMBDA h : h.size, Shown) <= MaxContext
=============================================================================
