------------------------------ MODULE Extraction ----------------------------
(***************************************************************************)
(* Extract (programs/extract.py): the model fills the columns of a schema, *)
(* rules find values in the text of their own (extract/merge.py), the      *)
(* columns that are still refused are asked for again chunk by chunk       *)
(* (programs/chunk_retry.py), and the refusal policy has the last word.    *)
(* A value is a sequence of keys: of one for a scalar; Odd is a key no     *)
(* rule can read, and what a list column holds that is no list.            *)
(***************************************************************************)
EXTENDS Integers, Sequences, FiniteSets, FiniteSetsExt, Functions

CONSTANTS
  Columns,         \* [column -> [type, required]]; type "scalar" and "list"
                   \* have a rule, "text" has none
  Fields,          \* what the model may answer: [column -> value], Nothing,
                   \* or Insufficient
  HitChoices,      \* what the rules may find: [column -> Seq(key)]
  Odd, Nothing, Insufficient,
  ChunkCounts,     \* numbers of chunks a text may have
  MaxChunks,       \* max_chunks_per_doc
  MaxCost, Costs   \* max_total_cost_usd, and what a chunk may cost

VARIABLES
  at,         \* where extract() is
  refusal,    \* the policy: "field", "row" or "never"
  chunks,     \* the chunks of the text, or 0 when chunk retry is disabled
  hits,       \* the spans of the rules
  answer,     \* the model's answer to the whole text
  cells,      \* [column -> [status, value, by]]
  heard,      \* the answers to the chunks, Nothing for one that failed
  spent,      \* cumulative_cost of the retry
  paid,       \* what its chunks cost, those that failed included
  refused     \* refused_columns of the result

arguments == <<refusal, chunks, hits>>
vars == <<at, arguments, answer, cells, heard, spent, paid, refused>>

-----------------------------------------------------------------------------
Cols == DOMAIN Columns
Cell(status, value, by) == [status |-> status, value |-> value, by |-> by]

\* _cell_for_column: a required column without a value counts as extracted.
Projected(c, value) ==
  IF value = Insufficient \/ (value = Nothing /\ ~Columns[c].required)
  THEN Cell("not_in_document", Nothing, "model")
  ELSE Cell("extracted", value, "model")

IsList(c, value) == Columns[c].type = "list" /\ value \notin {Nothing, Odd}

\* The hits of a list that are not there yet, in order.
NewIn(values, found) ==
  {k \in DOMAIN found : found[k] \notin Range(values) /\ \A j \in 1..(k - 1) : found[j] # found[k]}
Nth(places, i) == CHOOSE k \in places : Cardinality({j \in places : j <= k}) = i
Union(values, found) ==
  LET places == NewIn(values, found)
  IN  values \o [i \in 1..Cardinality(places) |-> found[Nth(places, i)]]

\* AlphaLLMMerger._merge_one.  A scalar is taken from the rules only if they
\* found one span.
\* A bug: several spans, and the first is taken.
First(found) == found # <<>>
Unambiguous(found) == Len(found) = 1
Merged(c, cell, found) ==
  CASE cell.status = "error" \/ Columns[c].type = "text" -> cell
    [] cell.status # "error" /\ Columns[c].type = "scalar" ->
         IF cell.status # "extracted" /\ Unambiguous(found)
         THEN Cell("extracted", found, "rule") ELSE cell
    [] cell.status # "error" /\ Columns[c].type = "list" ->
         IF cell.status = "extracted" /\ IsList(c, cell.value)
         THEN [cell EXCEPT !.value = Union(@, found)]
         ELSE IF found # <<>> THEN Cell("extracted", Union(<<>>, found), "rule") ELSE cell

RefusedIn(cs) == {c \in Cols : cs[c].status # "extracted"}
Errors == [c \in Cols |-> Cell("error", Nothing, "none")]

-----------------------------------------------------------------------------
Init ==
  /\ at = "asking"
  /\ refusal \in {"field", "row", "never"}
  /\ chunks \in ChunkCounts
  /\ hits \in HitChoices
  /\ answer = Nothing
  /\ cells = Nothing
  /\ heard = <<>>
  /\ spent = 0 /\ paid = 0
  /\ refused = {}

\* Every cell that is not extracted is in refused_columns; "never" and "row"
\* turn all cells into errors for one of them.
\* A bug: "row" leaves the cells that were extracted.
OnlyRefused(cs) == [c \in Cols |-> IF c \in RefusedIn(cs) THEN Errors[c] ELSE cs[c]]
WholeRow(cs) == Errors
Finish(cs) ==
  /\ at' = "returned"
  /\ cells' = IF RefusedIn(cs) # {} /\ refusal # "field" THEN WholeRow(cs) ELSE cs
  /\ refused' = IF RefusedIn(cs) # {} /\ refusal = "never" THEN Cols ELSE RefusedIn(cs)

Retries(cs) == RefusedIn(cs) # {} /\ chunks \in 2..MaxChunks

\* The model answers; with "grounded", after its retries.
Answered(fields) ==
  /\ at = "asking"
  /\ answer' = fields
  /\ LET merged == [c \in Cols |-> Merged(c, Projected(c, fields[c]), hits[c])] IN
       IF Retries(merged)
       THEN at' = "retrying" /\ cells' = merged /\ UNCHANGED refused
       ELSE Finish(merged)
  /\ UNCHANGED <<arguments, heard, spent, paid>>

\* CallError and ValidationRetryExhaustedError are a result, too; what else
\* the provider raises is not.
AnswerFails ==
  /\ at = "asking"
  /\ \/ at' = "returned" /\ cells' = Errors /\ refused' = Cols
     \/ at' = "raised" /\ UNCHANGED <<cells, refused>>
  /\ UNCHANGED <<arguments, answer, heard, spent, paid>>

\* One chunk after the other while the budget lasts.
\* A bug: the budget is not looked at.
MoreChunks == Len(heard) < chunks
InBudget == Len(heard) < chunks /\ spent < MaxCost

ChunkAnswered(fields) ==
  /\ at = "retrying" /\ InBudget
  /\ heard' = Append(heard, fields)
  /\ \E cost \in Costs : spent' = spent + cost /\ paid' = paid + cost
  /\ UNCHANGED <<at, arguments, answer, cells, refused>>

\* A chunk that fails may have cost as much as any, with its own retries, or
\* nothing; the budget does not learn of it.
ChunkFails ==
  /\ at = "retrying" /\ InBudget
  /\ heard' = Append(heard, Nothing)
  /\ \E cost \in Costs \union {0} : paid' = paid + cost
  /\ UNCHANGED <<at, arguments, answer, cells, spent, refused>>

\* _promote_candidates: the leftmost value that a chunk gave for a column.
CandidatesFor(c) ==
  {k \in DOMAIN heard : heard[k] # Nothing /\ Projected(c, heard[k][c]).status = "extracted"}
Promoted(c) == [Projected(c, heard[Min(CandidatesFor(c))][c]) EXCEPT !.by = "chunk"]
RetryEnds ==
  /\ at = "retrying" /\ ~InBudget
  /\ Finish([c \in Cols |->
       IF c \in RefusedIn(cells) /\ CandidatesFor(c) # {} THEN Promoted(c) ELSE cells[c]])
  /\ UNCHANGED <<arguments, answer, heard, spent, paid>>

Next ==
  \/ \E fields \in Fields : Answered(fields) \/ ChunkAnswered(fields)
  \/ AnswerFails \/ ChunkFails \/ RetryEnds

Spec == Init /\ [][Next]_vars

-----------------------------------------------------------------------------
TypeOK ==
  /\ at \in {"asking", "retrying", "returned", "raised"}
  /\ cells = Nothing \/ \A c \in Cols :
       /\ cells[c].status \in {"extracted", "not_in_document", "error"}
       /\ cells[c].by \in {"model", "rule", "chunk", "none"}
  /\ heard \in Seq(Fields \union {Nothing})
  /\ spent \in Nat /\ paid \in Nat
  /\ refused \subseteq Cols

Gave(c) == answer[c] # Insufficient /\ (answer[c] # Nothing \/ Columns[c].required)

\* Where a value of the result comes from.  What the model said is kept, a
\* list with all that the rules found besides, each once; the rules answer for
\* the model when they are unambiguous; and a chunk answers for both.
Sourced(c) ==
  LET cell == cells[c] IN
    CASE cell.by = "model" /\ cell.status = "extracted" ->
           /\ Gave(c)
           /\ \/ cell.value = answer[c]
              \/ /\ Len(answer[c]) <= Len(cell.value)
                 /\ \A k \in DOMAIN answer[c] : cell.value[k] = answer[c][k]
                 /\ Range(hits[c]) \subseteq Range(cell.value)
                 /\ \A j, k \in (Len(answer[c]) + 1)..Len(cell.value) : cell.value[j] = cell.value[k] => j = k
      [] cell.by = "rule" ->
           /\ ~Gave(c) \/ ~IsList(c, answer[c])
           /\ \A j, k \in DOMAIN cell.value : cell.value[j] = cell.value[k] => j = k
           /\ Range(cell.value) = Range(hits[c])
           /\ Columns[c].type = "scalar" => Len(hits[c]) = 1
      [] cell.by = "chunk" ->
           /\ ~Gave(c) /\ ~(Columns[c].type = "scalar" /\ Len(hits[c]) = 1)
           /\ \E k \in DOMAIN heard :
                /\ heard[k] # Nothing /\ heard[k][c] = cell.value
                /\ \A j \in 1..(k - 1) : heard[j] = Nothing \/ Projected(c, heard[j][c]).status # "extracted"
      [] OTHER -> ~Gave(c) /\ \A k \in DOMAIN heard :
                    heard[k] = Nothing \/ Projected(c, heard[k][c]).status # "extracted"

\* c is what the dearest chunk costs.
NoChunkCostsMore(c) == \A x \in Costs : x <= c
FailedChunks == {k \in DOMAIN heard : heard[k] = Nothing}

\* What is returned comes from where it says; a row or an extraction that must
\* not be refused is whole or not there; refused_columns name the cells without
\* a value.  The counter of the retry goes less than one chunk over its budget;
\* what the provider is paid goes over that by the chunks that failed, as many
\* as there are, and by nothing else.
ExtractionIsHonest ==
  /\ at = "returned" =>
       /\ cells = Errors \/ \A c \in Cols : cells[c].status # "error" /\ Sourced(c)
       /\ refusal # "field" => cells = Errors \/ RefusedIn(cells) = {}
       /\ refusal = "field" /\ answer # Nothing => cells # Errors
       /\ cells # Errors => refused = RefusedIn(cells)
       /\ cells = Errors => refused # {}
  /\ \A c \in Costs : NoChunkCostsMore(c) =>
       /\ spent = 0 \/ spent < MaxCost + c
       /\ spent <= paid /\ paid - spent <= c * Cardinality(FailedChunks)

-----------------------------------------------------------------------------
(* Why the table is honest: the inductive invariant *)

\* The cells that wait for the chunks are those of the model and the rules, one
\* of them refused; before the model has answered there are none, and nothing
\* was heard.
MergedBeforeRetry ==
  /\ at \in {"asking", "retrying", "returned", "raised"}
  /\ hits \in HitChoices /\ spent \in Nat /\ paid \in Nat
  /\ heard \in Seq(Fields \union {Nothing})
  /\ at = "asking" => answer = Nothing /\ heard = <<>> /\ spent = 0 /\ paid = 0
  /\ at = "retrying" =>
       /\ answer \in Fields
       /\ cells = [c \in Cols |-> Merged(c, Projected(c, answer[c]), hits[c])]
  /\ ExtractionIsHonest
=============================================================================
