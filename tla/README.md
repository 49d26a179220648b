# Formal models of kaos-llm-core

TLA+ models of the parts of kaos-llm-core whose correctness depends on the
order in which things happen: the resumable batch runner, the workspace rows
and MCP requests around it, the semantic response cache, the accounting of
calls, programs and optimizers, the loops, samplers, extractors, summarizers,
classifiers and retrieval programs built on calls, the codecs and verifiers
they trust, and the files that they leave behind. TLC checks the models on
small instances; TLAPS proves theorems for every instance: about the batch
runner, the batch workspace and the semantic cache, and about the call pipeline,
ReAct, sampling, Refine and grounded answers, the optimizers, one batch's
requests and sources, the classifiers, extraction from a document and from a
corpus, what runs on request (MCP tools, programs of thought, envelopes,
one-line functions, tool schemas), and the files that trials and calls leave.
All paths below are relative to `src/kaos_llm_core/`.

1. [The system](#1-the-system)
2. [What is modelled, and how the models correspond to the code](#2-models-and-code)
3. [What each run checks](#3-runs)
4. [What is proved](#4-theorems)
5. [Where code and documentation disagree](#5-disagreements)
6. [What is not modelled, and the plan](#6-not-modelled-and-plan)

## 1. The system

kaos-llm-core is a Python library of typed LLM programs. A `Call` turns a
signature into a prompt, sends it to a provider, parses and validates the
answer and retries on validation errors. Programs compose calls (loops,
samplers, extractors, summarizers, routers). Optimizers run programs on data
sets under a budget. A batch runner applies a program to a stream of items and
can be resumed; MCP tools expose everything to an agent. Everything runs on one
asyncio event loop per process: a coroutine gives way to another only at an
`await` that really suspends.

| component | state | operations | talks to | what is hard | correct when |
|---|---|---|---|---|---|
| batch runner (`programs/batch/runner.py`, `writer.py`, `resume.py`, `records.py`, `sources.py`) | `items.jsonl`, `manifest.json`; per run: skip set, counters, `stop_requested`, the list of tasks, one task per item | `batch_run`, `_process_item`, `_scan_existing_log`, `_write_record`, `_write_manifest` | `Program.invoke`, input source, progress callback | tasks interleave at the semaphore, the program and the callback; crash, torn write, cancellation, failing source or callback; two runs on one directory | one outcome per item over all runs, nothing paid twice, counters equal to the log, bounded overshoot of the error limit, bounded backlog, every run ends |
| batch workspace and MCP tools (`workspace/metadata.py`, `integrations/mcp/batch_*.py`, `_batch_helpers.py`) | a SQLite row per batch, `envelope.json` per directory, a connection per request | batch-create, batch-run, batch-status, batch-results, `cancel_batch`, `update_status`, `update_progress` | batch runner through the progress callback | requests race between check and mark; tasks outlive their request; server dies; client cancels | "completed" backed by the log and the manifest, at most one runner per batch, no row "running" for ever |
| semantic cache (`cache/semantic.py`) | list of entries, exact-key index, stampede lock per key, JSONL log | `call`, `clear`, replay at start | embedding call, LLM call | requests queue on a lock while others store, evict, clear, fail | index and entries agree, right answer, one LLM call per key, bounded, log mirrors memory |
| chunk cache (`cache/chunk.py`) | bounded FIFO dict | `get`, `set` | chunk loops | concurrent leaves | bounded, last write wins |
| call pipeline (`programs/call.py`, `_invocation.py`, `hooks.py`) | per call: attempt, messages, accumulated usage; context variables for trace and trial | retry loop, `_execute_*`, finalizers | provider, codec, trial, collector | errors between attempts, cancellation | each answered attempt is charged once |
| program base (`programs/base.py`, `graph.py`, `cloning.py`) | registered calls and sub-programs | `invoke`, `clone`, `set_model` | call pipeline | nested collectors | every nested call is in the trace once |
| routers (`router/`) | none | `execute_cascade`, rules | call pipeline | accounting over several models | cheapest acceptable answer, cost of all of them |
| iterating programs (`loop_runner.py`, `refine.py`, `react.py`, `program_of_thought.py`) | iteration records | step, stop, build result | calls, tools | a step that raises, wall-clock limits | bounded iterations, best candidate kept |
| sampling programs (`best_of_n.py`, `ensemble.py`, `multi_chain_comparison.py`) | candidates, votes | fan out, filter failures, select | calls, scorers | some of the siblings fail | the selected candidate is the best of those that succeeded |
| extraction and chunk retry (`programs/extract.py`, `chunk_retry.py`, `extract/merge.py`, `deal_review.py`) | cells with their source, chunk budget, refused columns; the log of a corpus | answer, merge with deterministic hits, retry refused cells by chunk, refuse, resume a corpus | calls, rules, batch runner | budget against failing chunks, ambiguous hits, crash between two documents, rows judged at the same time | every value comes from where it says, one row per document, a score is its row's |
| summarizers (`summarize/`, `composition/reduce.py`) | leaves, groups of a round, picked sentences, chunk cache | chunk, map, merge, pick, verify | calls, chunk cache, budget | concurrent leaves and merges, early exit | order kept, nothing lost, quotes were shown |
| classifiers (`classify/`, `composition/aggregate.py`, `labels.py`) | classifications of the members, path in a hierarchy | score, pick, aggregate, descend, judge a claim | models, embedders | members end in any order, abstain, fail | declared labels only, paths descend, verdicts say who gave them |
| retrieval (`rag.py`, `grounded.py`, `metrics/retrieval.py`, `calibration/`) | hits, passages, source map, a lazily built retriever, retries | expand, merge, cut, answer, verify, measure | retriever, judge, calls | a retriever of an earlier corpus, a worse second answer | ranked by best score, verified means quoted, figures mean their names |
| codecs and signatures (`codecs/`, `signatures/`) | scanner state of a repair | encode, repair, decode, verify a span | calls | an answer cut off anywhere, unescaped quotes, markers inside values | a repair changes nothing that was meant |
| optimizers (`optimization/`) | budget, trials, best candidate, demos or prompts on the calls, mutation log | evaluate, trial, promote, accept or revert, record | programs | failing evaluation between apply and revert, exhausted budget, a torn log | best kept, calls restored, budget respected, log true |
| envelope and tools (`programs/envelope/`, `tool.py`, `integrations/mcp/`, `starter.py`, `program_of_thought.py`) | outputs of earlier steps, schemas, a worker thread with its scratch directory | validate, build, ask steps in order, bind arguments, run code | programs, sandbox, VFS | refusals after an effect, cancelled threads, files that change | nothing runs unasked, a refusal is free |
| observability (`observability/`) | trace stack, a file per process | push, record, fork | calls | threads, a fork, a write in pieces | a line per call, whole |
| CLI, server, settings, vision, search | none of their own | entry points, I/O, sampling | | | |

`PROJECT.json` lists every component with its sources, and under `hazards` the
places where these behaviours bite, each at its line.

## 2. Models and code

An action is the code between two awaits that can suspend. An `asyncio.Lock`
whose body holds no such await (the writer's `write_lock`, the cache's
`self._lock`) is never contended, so the code around it is part of the same
action. Text, costs, tokens and durations are abstracted; identities, statuses,
counters and order are kept. Calls, requests and restarts are numbered, and
their number is the bound of every instance.

### BatchRun: one output directory, several calls of `batch_run`

`log` and `manifest` are the two files. A run `r` has `phase` (where its
coroutine is), `skip`, `nSucceeded`, `nErrored`, `stopRequested`, `listed` (the
list `tasks`), `pos` and a task per position of the source.

| action | code |
|---|---|
| `StartRun`, `RefuseRun` | `runner.py` 102-207: scan (`resume.py` 15-74), header check, open in append mode, header |
| `SkipItem`, `CreateTask`, `LeaveWait`, `LeaveLoop` | the loop 256-269 with back-pressure |
| `AbandonTasks` | the source raises (`sources.py`), or cancellation outside `gather`: tasks live on |
| `CancelDrain`, `Finish` | `gather`, final status and manifest, 270-333 |
| `AcquireSlot`, `DropTask` | semaphore and the two looks at `stop_requested`, 215-220 |
| `InvokeSucceeds`, `InvokeFails` | the program, its record and counter, 221-247 |
| `ReportSuccess`, `ReportSuccessRaises`, `ReportError`, `ReportErrorRaises` | the progress callback, which may suspend and may raise; the error policy after it, 237-254 |
| `Crash`, `CrashWritingItem`, `CrashWritingHeader` | the process dies, perhaps inside a write (`writer.py` 33-40) |

A log line carries whether it ends in a newline; `AppendLine` shows what an
append to a torn line does. `BatchLedger` is the abstract specification: each
item gets at most one outcome, for ever, and "completed" is announced only when
all have one. `LedgerSpec` is the refinement: `outcome` is read off the log,
`announced` off the manifest.

### BatchWorkspace: rows, directories and requests

`row` is the SQLite table, `envelope`, `log` and `manifest` the files of each
directory; a request `q` has `phase`, `target`, `resume`, `program`, `todo`,
`inflight`, `tally` and `stopped`. `Create` and `CreateRejected` are
`batch_create.py` 156-280; `Check`, `LoadFails`, `Launch`, `LaunchMismatch`,
`SourceRaises`, `Finish`, `Cancel` are `batch_run.py` 101-269; `ReadItem`,
`LeaveLoop`, `ItemDropped` and `Record` are what `batch_run` does seen from
here. `ItemEnds` writes the counters to the row through the progress callback;
`OrphanEnds` is the same task after its request has returned and closed the
connection: the callback raises, and a success is recorded again as an error.
`LoadSuspends` says whether another request can run while the envelope is read.

### SemanticCache: one cache, concurrent requests

`entries`, `index`, `inFlight` and the JSONL `disk` are the fields of the
object; `queue[l]` holds the request that has stampede lock `l` and those
waiting for it, in order. A lock is named by the request whose `setdefault`
created it. `Ask` is tier 1, `SimilarHit` and `SimilarMiss` tier 2 after the
embedding, `LockGranted` the second look at the index, `CallReturns` the store
with FIFO eviction and the append to disk, `AppendFails`, `CallFails` and
`EmbedFails` and `CancelQueued` the ways out of it, each through the `finally`
that pops the lock (`Leave`). `Restart` replays the log. `Similar` stands for embeddings: which
texts may pass the threshold.

`disk` holds the records of the log that a replay can read, and `tail` how its
last line ends. A process that dies in `_append_disk_log`, or an append that
raises on the way (`TearLine`), leaves a part of a record, or a whole one without
its newline; what is written next comes behind it on the same line, and neither
can be read (`Glued`). So the first answer that a new process stores after such a
death is in memory and not in the log. `mirrored` observes how many of the newest
entries the log must still share with memory: all of them after a restart, none
after a failed append, a `clear` or a record that was glued, one more with each
record that is whole. `DiskMirrorsMemory` is about those.

### Programs and optimizers: small models side by side

Each of these is a module of its own. They do not interact beyond what each
contains, so `MCPrograms` checks them side by side: `which` names the one that
runs, and its variables are the slots `v1` to `v12`. A property of `MCPrograms`
says of each of the components that share a hazard what its module states.
`ProgramSlots` holds the instances of the components about which theorems are
proved, on the same slots, with their constants and the assumptions that the
code justifies (`ConstantsAssumption`, in parts per component); `MCPrograms`
extends it with the other components, the inputs of the run and the properties.

**CallPipeline**: who pays for a call. An evaluation runs one program per
example inside a trial, a program gathers sub-calls inside a trace collector, a
call retries or goes through the models of a cascade. A provider answer costs
one token; `usage`, `trial`, `pushed`, `rollup` and `charged` are the
accumulators that see it.

| action | code |
|---|---|
| `StartProgram` | `evaluation.py` 128-163: the semaphore; `forward` gathers its sub-calls |
| `AnswerValid`, `AnswerInvalid`, `AttemptsExhausted`, `ProviderRaises`, `Rejected` | `call.py` 456-636: the ends of an attempt; `Publish` is `publish_invocation`, `Push` is `push_trace` |
| `NextStep`, `Accept` (parts of the above) | `router/cascade.py` 119-203: on to the next model, or the end |
| `ProgramReturns`, `ProgramRaises`, `RollUp` | `base.py` 220-295: the `finally` block sums the traces that are there; a strict `gather` raises while siblings run (`orphans`) |
| `ConsumeTrial`, `Cancel` | `optimization/base.py` 186-231; cancellation of the optimizer |

**CoOptimizer**: bootstrap, instruction and hyperparameter stages on one call
with one `BudgetTracker`. `held` is the variant the call holds, `best` and
`original` those of the stage. `FirstEvaluation` and `FinalEvaluation` frame
the stages; `StageBaseline` opens each; `Train` and `WithDemos`
(`bootstrap.py`), `Propose` and `InstructionEnds` (`instruction.py`),
`TryConfig` and `ConfigsEnd` (`hyperparameter.py`) are their trials and ends.
Scores are chosen anew at each evaluation. Caps on cost and tokens behave like
the cap on time: they are reached after any trial (`late`).

**ChunkedLeaves**: the loop over chunks that `summarize/long_doc.py` and
`classify/chunked.py` share, on one `InMemoryChunkCache`. `StartLeaf` looks the
chunk up, `LeafReturns` charges and stores, `LeafRaises` and `ReduceRaises` are
the ways out, `Return` tags the result.

**Sampling**: `best_of_n.py`, `ensemble.py`, `multi_chain_comparison.py`:
samples end in any order (`SampleEnds`), `Gathered` filters, `ScoringEnds`,
`Select` and `Synthesize` pick. `Cancelled` is a sample that raised
`CancelledError`: BestOfN leaves it out, Ensemble counts it as an answer, and the
gather of the chains ends with it (`Survivors`, `SampleEnds`).

**RefineLoop** and **ReActLoop**: `refine.py` and `react.py` on
`loop_runner.py`. `Produce` and `JudgeIt` are one iteration of Refine. In ReAct
`FinalAnswer`, `InvalidAnswer`, `ToolCalls` and `ProviderRaises` are what the
provider may do, `ToolEnds` and `ToolRaises` the tools of one answer;
`messages` is the conversation as the provider sees it.

### Long inputs: Chunking, Reducing, FocusedSummary

**Chunking** is `_chunk_text` (`chunk_retry.py`): `NextSegment` closes a chunk
that the sentence would overflow, `TextEnds` merges a small tail. **Reducing**
is `composition/reduce.py`: the merges of a round are concurrent
(`MergeReturns`, `MergeRaises`, in any order), `RoundOver` gathers them, feeds
the next round of the tree, of the refining chain or of the clusters, and stops
at the depth. **FocusedSummary** is the three programs of `programs/summarize`
that pick sentences: `Choose`, `Answered` with the verification and the refusal
of poorly cited text, `Raises`.

### Extraction: Extraction, CorpusExtraction, DealReview

**Extraction** is one document in `Extract.extract`: `Answered` projects the
model's answer on the columns and merges the hits of the rules
(`extract/merge.py`), `ChunkAnswered` and `ChunkFails` are the retry with its
budget, `RetryEnds` applies the refusal policy. `heard` keeps what each chunk
said, so that the property can tell where a value came from. `spent` is the
counter that the budget looks at, `paid` what the chunks cost: a chunk that
fails may have cost something, and only `paid` knows.
**CorpusExtraction** is `extract_corpus`: `Call` scans the log and writes the
header, `Item` runs a document, `Crash` may tear the line, to which the next
record is glued, `ReadBack` builds the table and `CannotRead` is the reader that
stops at a line no parser reads. **DealReview**
chains extraction, a rubric and the concurrent scoring of rows (`Judge`, in any
order, `Gather`).

### Grounded answers: Grounding, Rag, ClaimChecking, RagMetrics, Calibration

**Grounding**: `Hit` is `Span.verify` strategy by strategy, `SpanErrors` is
`Cited.verify`, `Answered` one attempt of `Grounded` with the comparison of
attempts. **Rag**: `Ask` (with the lazily built retriever), `Retrieve` (the
merge of the queries), `Assemble` (the context cut), `Answered` (verification
and the one retry). **ClaimChecking**: `verify_claims`; `Trust`, `TooFar` and
`Judge` are what happens to the next claim. **RagMetrics** computes four metrics
of one prediction in integers out of `Full`; **Calibration** counts outcomes of
questions into a report (`Class`, `Report`, `Write`).

### Classification and codecs: Classifying, JsonCodec, MarkedCodecs

**Classifying**: each member of an ensemble starts under the semaphore, ends or
raises; `Combine` is the aggregator; `Descend` and `Walked` walk a hierarchy.
What models and embedders say is chosen. **JsonCodec**: the model writes
character classes one at a time (`OpenString`, `InlineQuote`, `Backslash`, ...)
and may stop anywhere; `Closure` and `Repaired` are the two repairs as folds
over the text, `Decode` chooses between text and structured output.
**MarkedCodecs**: `Encode` builds the messages of chat, XML or JSON with
binaries attached, `Answer` lets the model write any sequence of markers and
pieces, `Decode` cuts it up.

### Optimizers: JointSearch, RandomSearch, Selection, Reflection, TrialLog

**JointSearch** is MIPRO v2 (`Bootstrap`, `Propose`, `Suggest`, `Measured`,
`Promoted`, `Apply`; the suggestion is chosen), **RandomSearch** MIPRO lite,
**Selection** the model and codec optimizers and the frontier of Pareto,
**Reflection** the loop of critiques and rewrites. In all of them `held` is what
the call holds, and scores are chosen anew at each evaluation. **TrialLog** is
the mutation log in memory and in the file (`Record`, `RecordFails`, `Crash`,
`Load`) and what `analysis.py` counts in it.

### What runs on request: Starter, ToolServer, ProgramOfThought, Envelope, ToolSchema, EnvRecorder, BatchSources, BatchRequest

**Starter** resolves a request to a route and shapes the result. **ToolServer**
gives each MCP tool its list of steps (reads, checks, model calls, effects) in
the order of the handler; what is wrong with a request is chosen, and a file
may change between two reads. **ProgramOfThought** has one worker thread and two
requests: `Begin`, `Audited`, `Ended` are the thread, `Cancel` leaves it behind.
**Envelope** validates, builds and asks steps with their pointers. **ToolSchema**
derives a JSON schema from a signature and binds arguments. **EnvRecorder** has
calls of two threads and of a forked child writing lines in pieces under a
lock. **BatchSources** reads a source, edits it and reads it again.
**BatchRequest** is one batch from batch-create to batch-results: the checks in
their order with the files written between them, the count hint, runs that are
resumed (and skip what the log has, errors as well) or not, that rerun what
completed if the client says resume, that may raise at any time, and answers
at any time.

## 3. Runs

Bounds: items, requests and runs are few because every hazard of the code needs
two or three of them: one to hold a resource, one to queue, one to come late.

| run | instance | checks |
|---|---|---|
| `BatchRun_resume` | 3 items, 2 programs, 2 runs in sequence, 2 slots, everything may crash, raise or be cancelled | `TypeOK`; `CountersMatchLog`: the counters of the latest run are the counts of the file; `SingleProgramLog`; `ManifestHonest`: "completed" only with a record for every item; `NoRepeatedSpend`: nothing recorded is invoked again; `LedgerSpec` |
| `BatchRun_backpressure` | 6 items, 1 slot: the backlog of 4 fills and the loop waits | `NothingOutlivesResult`; `BoundedBacklog`; `EveryRunEnds` |
| `BatchRun_overlap` | 2 runs at the same time, 3 items, 2 slots, torn writes | `LinesAreForever`: a complete line never changes; `ErrorOvershoot` and `ValveInvariant`: at most limit - 1 + `max_concurrency` errors |
| `BatchRun_torn` | finding | `CompletedIsRecorded` is violated |
| `BatchWorkspace_rows` | 3 requests, 1 batch, 2 items, everything may raise, be cancelled or die | `TypeOK`; `RowMatchesManifest`; `OneRunner` (when the load does not suspend) |
| `BatchWorkspace_race` | 2 requests that may both pass the check, 2 programs, a late-rejected create | `CompletedIsComplete`: a completed row has every item in the log; `RunningEnds` |
| `BatchWorkspace_two_runners` | finding | `OneRunner` is violated when the load suspends |
| `SemanticCache_store` | 4 requests, 2 calls, 2 inputs, 2 entries, a restart, failures | `TypeOK`; `IndexMatchesEntries`; `RightAnswer`; `CallsAreShared` |
| `SemanticCache_live` | 3 requests, 2 entries, clear, failing appends, 2 restarts, deaths in mid-append | `SizeBounded`; `DiskMirrorsMemory`; `EveryRequestEnds` |
| `SemanticCache_herd` | finding | `OneCallPerKey` is violated |
| `Programs_side_by_side` | the 33 components below, about 1.62 million states | see the next table |
| `ReAct_uncharged` | finding | `TrialSeesIterations` is violated |

The properties of `Programs_side_by_side`; in brackets the definitions of the
modules that each stands for.

| property | of | instance |
|---|---|---|
| `SpendIsCharged` | CallPipeline (`ChargedOnce`, `TrackerSeesAll`, `PlainRollupExact`) | 2 programs of 2 calls, one with a cascade of 2 models, 2 attempts, cancellation |
| `BudgetIsKept`, `NoStageAfterExhaustion` | CoOptimizer (`TrialsBounded`), JointSearch (`StopReasonIsTrue`), RandomSearch (`OmissionIsReported`) | caps from 1 to 12 or none and all sets of stages; caps none, 1, 4, 6 for the searches |
| `BestIsKept` | CoOptimizer (`StageKeepsBest`), JointSearch (`SearchKeepsBest`), RandomSearch (`DrawKeepsBest`), Selection (`SelectionIsBest`, `FrontierIsOptimal`), Reflection (`ReflectionKeepsBest`) | 3 trials a stage; 2 candidates of each kind and 3 trials; 2 promoted of 2 draws; 2 models or codecs, 2 runs of one instance; 3 rewrites |
| `BestIsReturned` | Sampling (`SelectedIsBest`), RefineLoop (`ReturnsBest`), Grounding (`ReturnsBestAttempt`) | 4 samples, 3 answers, 3 scores, cancelled samples; 4 iterations; 2 retries, 9 outputs |
| `AnswersAreAccountedFor` | ReActLoop (`EveryCallHasItsResult`, `ResultIsWhole`) | 4 turns, 2 tools, 1 retry |
| `NothingIsLeftOut` | ChunkedLeaves (`CoversPrefix`, `CacheIsAMap`), Chunking (`ChunksTile`), Reducing (`ReduceKeepsAll`) | 2 documents of 3 chunks, one with a budget, 2 cache entries; 4 sentences of up to 9 in chunks of 4; 5 leaves, groups of 2 |
| `ExtractionIsHonest` | Extraction, CorpusExtraction (`TableCountsDocuments`) | 3 columns, 4 chunks of which 3 are asked; 2 calls over 2 of 3 documents, crashes |
| `CitationsAreReal` | Grounding (`QuotesAreReal`), FocusedSummary (`FocusIsVerified`), Rag (`AnswerIsAccountedFor`, `RankedByBestScore`), ClaimChecking (`VerdictsAreAccountedFor`) | 2 documents with tagged paragraphs; 3 sentences; 2 questions, 3 queries, top 2; 2 claims |
| `LabelsAreDeclared` | Classifying (with `PathsDescend`) | 3 labels in a tree of depth 2, ensembles of 2 |
| `CodecsAreFaithful` | JsonCodec (`RepairsAreFaithful`, `CompleteSourceIsUsed`), MarkedCodecs (`EachInputOnce`, `ValuesAreQuoted`) | 6 characters; 5 markers or pieces |
| `NothingRunsUnasked` | ToolServer (`RefusedIsFree`), ProgramOfThought, Envelope (`EnvelopeRunsAsWritten`), Starter (`StarterKeepsItsWord`), ToolSchema (`SchemaCallsBind`) | 2 faults in a request; 2 requests on 1 thread; 2 steps; 3 labels of which two differ in case; 3 parameters |
| `ScoresMeanTheirWords` | Calibration (`ReportTellsTheResults`), DealReview (`ScoresFollowTheRubric`), RagMetrics | 3 questions; 2 documents, 7 rubrics; 2 passages, 5 weightings |
| `RecordsAreTrue` | TrialLog (`LogTellsTheRuns`), EnvRecorder (`LinesAreWhole`) | 2 runs of 2 trials, 2 faults; 2 threads and a forked child |
| `RequestsAgree` | BatchRequest, BatchSources (`IdsMeanTheirInputs`) | 2 entries, 2 runs, resumed or not, errors, runs that raise; 3 entries read twice; 3 page ranges, 1 row of a table |

The bounds are enough to reach what matters: six items with one slot exceed the
backlog of four; with three items and two slots one task is queued while a stop
is requested; two runs are needed for resume and overlap, and a third request
for a batch whose first two left tasks or a row behind. Four requests in a
cache of two entries give two in a queue, one newcomer and one that evicts; two
restarts are a death that tears a line and the replay of what was glued to it.
Two programs of two calls are enough for a call that outlives its program while
another program, and the trial, go on; the caps on trials from 1 to 12 end the
budget at every trial the three stages can make. Two draws, documents, claims,
requests or members are one that comes first and one that disturbs it; three
entries or labels are the least in which order and ties differ; six characters
hold a string in an object, cut off at each of its places. The tie-breaking and
failing cases are in the sets of inputs on purpose: equal scores, duplicate
labels, an unknown source, a quote that is elsewhere, a weight below zero.

`CHECK_DEADLOCK FALSE` everywhere: runs, requests and restarts are bounded, so
every model stops when they are used up.

Each property, and each component that shares one, is backed by a mutant of the
code (listed in `PROJECT.json`, defined next to the operator it mutates): for
instance a resume that re-runs
errors, a missing second look at `stop_requested`, an index rebuilt only for
the keys that were dropped.

**Fairness.** `FairSpec` of BatchRun has weak fairness on the loop and on each
task: the event loop runs every coroutine that can move, and every
`program.invoke` and callback eventually returns or raises (providers have
timeouts). Crash, cancellation and the start of runs have none. BatchWorkspace
and SemanticCache make the same assumption for accepted requests and for their
items, embeddings and LLM calls. `RunningEnds` is checked without crashes and
cancellations, because the code has nothing that takes a row out of "running"
after one (section 5).

## 4. Theorems

A theorem holds for every value of the constants that its hypotheses allow; the
hypotheses are the named assumptions of the model and the conditions listed
with each theorem, which are faults left out, never bounds. Every inductive
invariant below was first checked by TLC on the instance of its run.

### The batch runner

From `ConstantsAssumption` (finite set of ids, a sequence of ids as source,
positive numbers of runs and slots, one of the three policies). Torn writes,
crashes, cancellation, failing sources and callbacks, overlapping runs and both
values of `resume` are allowed where the table does not say otherwise.

| theorem | module | condition |
|---|---|---|
| `TypeCorrectness` (`TypeOK`) | BatchRunProofs | |
| `ValveInvariantHolds`, `OvershootBounded` (`ErrorOvershoot`) | BatchRunProofs | a stop policy, callbacks do not raise |
| `BoundedBacklogHolds`, `NothingOutlivesResultHolds`, `LinesAreForeverHolds` | BatchRunProofs | |
| `ManifestHonestHolds` | BatchRunProofs | no torn write |
| `SingleProgramLogHolds` | BatchRunProofs | no torn write, `resume=True` |
| `CountersMatchLogHolds` | BatchRunProofs | no torn write, no overlap, `resume=True` |
| `NoRepeatedSpendHolds` | BatchRunProofs | no overlap, `resume=True`, distinct ids |
| `LedgerImplemented` (`LedgerSpec`) | BatchRunProofs | no torn write, no overlap, `resume=True`, distinct ids |

The conditions are where the code really stops keeping its promise: after a torn
write the next record is lost (`BatchRun_torn`), `resume=False` appends to the
log of another run, and two runs on one directory read their skip sets before
the other writes. `DistinctSource` is a condition on the source: `models.py`
16-35 calls `custom_id` content-addressed, and nothing checks it; two equal rows
are paid for twice. The arguments:

* *Valve.* `ErrorOvershoot` is not inductive: that few errors are recorded says
  nothing about how many more may come. `ValveInvariant` separates the errors
  that have evaluated the policy (`Failed`) from those still holding a slot
  (`SlotsHeld`): until something stops the run the former are below the limit
  (the one that reaches it sets `stopRequested` in the same action), and once it
  is stopped no task obtains a slot, so `Failed \cup SlotsHeld`, which bounds all
  present and future errors, can only shrink. Its size at that moment is at most
  limit - 1 + `max_concurrency`.
* *Back-pressure.* `Backlog`: every live task is in `listed`, whose size is below
  the bound whenever the loop goes on to read, and a run with a result has no
  live task.
* *Log and manifest.* `LoopInvariant` says what the position of the loop tells of
  the tasks (all before it are decided, none is dropped unless the run was
  stopped or cancelled); `LogInvariant`, that a log no crash tears is a header
  and items, and that whatever a run counts as done or skips is recorded in it.
  "completed" is written when no item is left undecided, so all are recorded.
* *Programs.* `ProgramInvariant`: all lines, and all runs that went past the
  header check, have the program of the first line.
* *One run after the other.* `Sequential`: when a run is called the earlier ones
  are over and have no live task, so that only the newest run writes. With it
  the counters, which start from the scan, stay the counts of the log.
* *Paying once.* `FreshInvariant`: an item that is about to be paid for is not
  recorded, and an item still to be read is recorded only if it is in the skip
  set. It needs distinct ids, and no two runs.
* *Refinement.* `RereadInvariant` adds that after "completed" a further run
  neither creates a task nor stops, so that what was announced stays. Each
  action is then a `Record`, an `Announce` or a stutter of `BatchLedger`; two
  lemmas on the log (`OutcomeRecorded`, `WholeStep`) carry the mapping.

### The batch workspace

`BatchWorkspaceProofs`, from `WorkspaceAssumption` and `AbsentRow` (no row is the
absent row).

* `WorkspaceTypes` (`TypeOK`), with `Known`: a row has an envelope, a request
  past its check has an existing row, and only requests past the loading have
  tasks.
* `CompletedIsCompleteHolds`, without conditions: under all races, orphaned
  tasks, cancellations and deaths of the server. `Accounted`: until something
  stops a request, each item is yet to be read, in a task, or in the log of the
  directory; records are never removed from a directory.
* `OneRunnerHolds`, if a request loads its envelope without giving way
  (`LoadSuspends = FALSE`; `BatchWorkspace_two_runners` shows the other case).
  `RunnerInvariant`: at most one request is between check and mark, and its
  batch is not marked running.
* `RowMatchesManifestHolds`, if in addition no directory is shared
  (`ShareDirs = FALSE`). `OwnDirectory`: two rows never have one directory.

### The semantic cache

`SemanticCacheProofs`, from `CacheAssumption`, for any number of calls, inputs,
requests, entries and restarts, any similarity and all faults unless stated.

* `CacheTypes` (`TypeOK`), together with `Queues`: in the queue of a lock are the
  requests that use it, each once, and only its head is inside the LLM call. A
  request that ends removes itself from a queue, which is well defined only if it
  is there.
* `IndexMatchesEntriesHolds`. The lemmas: an entry that is appended takes over its
  key in `IndexOf` (`IndexOfAppend`), and a key with an entry has a newest one
  (`LargestExists`, from the well-foundedness of the naturals).
* `SizeBoundedHolds`, unless `max_entries` is 0 and the process restarts: the
  replay of `loaded[-0:]` is the one way past the limit.
* `DiskMirrorsMemoryHolds`, if the cache has a log and `max_entries` is positive,
  whatever tears a line, fails or clears; it rests on `LastNAppend`: what is kept
  of a list does not depend on what was dropped before. `Mirrored` is the
  invariant: the newest `mirrored` entries are the same in both, and the line
  that the next record will be written to is torn just when the last append
  stopped on the way.
* `RightAnswerHolds`: follows from the index, as `AnswerSteps` lists all the
  places an answer can come from.
* `CallsAreSharedHolds`, if `clear` is not called (it empties the dict of locks
  under a running call). `Provenance`: every entry was stored by the request it
  names, which has ended. `Sharing`: as long as no request for a key has failed
  and no answer for it was evicted, all that wait for it or call it use the one
  lock in the dict, or the call has returned and nobody is inside it. The first
  form of the property excused two callers only while the index had no entry; it
  held for the four requests of the run, and seven break it: of three callers
  that evictions let in, one stores its answer while two go on.

### Programs and optimizers: the scheme

A property of `MCPrograms` speaks of every component that shares a hazard. It is
proved in three layers.

1. In `ProgramSlotsProofs` and `OptimizerSlotsProofs`: for each component, that
   an inductive invariant of its own (the last definition of its module, or at
   the head of its section) holds initially, is kept by every step, and implies
   what the module states. These lemmas assume that component's part of
   `ConstantsAssumption` and nothing else. A lemma such as `CallsCounts` says that
   the `Cardinality` of an instance is that of `FiniteSets`.
2. In `MCProgramsProofs`, a lemma per component (`CallsAlone`, `CoOptAlone`, ...):
   while `which` names it, a step of `MCPrograms` is a step of that component or a
   stutter; and `WhichStays`.
3. The theorem combines, per component, initial state, step and implication under
   the hypothesis that `which` names it; for the other values of `which` the
   component's property says nothing.

What is assumed of the constants is in `ProgramSlots`, each part with the code it
comes from: caps are numbers or absent (`Budget.__post_init__`), at least one
iteration and one attempt, scores are numbers, an exception is no answer. None of
it bounds a size; a set is finite where the code counts or ranks its members.

### Calls, loops and samples

* `SpendIsChargedHolds` (CallPipeline), from `CallsInv`: `ChargedOnce`,
  `TrackerSeesAll` and `PlainRollupExact` with `StepsInOrder` (where a call stands
  determines which attempts it has paid for), `PlainTracedOnce` and
  `ProgramsWait`. The accumulators are sums over calls; a sum for every number of
  calls would need induction over data, so the model keeps the *set* of answers
  each accumulator has seen, and its cardinality is the sum. The lemmas from
  `AnswersFinite` to `OneMoreAnswer` are the arithmetic of these sets.
* `AnswersAreAccountedForHolds` (ReActLoop), from `LoopInv`: the messages after
  which the provider may be asked have a result for each tool call
  (`ResultsFollowCalls`, extended message by message in `PlainMessageFollows`,
  `CallsFollow`, `ToolResultFollows`), and turns add up (`TurnsAddUp`).
* `BestIsReturnedHolds`: Sampling (`SamplesInv`: who survived is scored, and the
  selected one is the first of the highest, with less before it; `RankIsUnique` and `EveryRankIsTaken`
  show by a least counterexample that the survivors have consecutive ranks, which
  replaces the filtered list of the code), RefineLoop (`RefineInv`) and Grounding
  (`AttemptsInv`, `LoopKeepsBest`; a better attempt has fewer errors, counted
  as a set, so that an attempt without errors is never beaten).

### Optimizers

* `NoStageAfterExhaustionHolds` (an action property) and `BudgetIsKeptHolds`.
  CoOptimizer: `BudgetInv` records that a stage, and the training run of
  bootstrap, begin below the cap, that a stage stays at or below it, and that only
  the evaluation of the demos and the one at the end come on top; a stage is
  entered only through `StageAfter`, which asks the tracker; so the cap is
  exceeded by two trials at most (`TrialsBoundedHolds`). JointSearch:
  `ReasonFollowsBudget`, from the baseline on the reason is "budget" exactly when
  the budget is used up. RandomSearch: `StepsAreCounted`, a phase has taken as
  many steps as it has drawn or promoted pairs, and one that is reached without a
  word found all of them.
* `BestIsKeptHolds`. CoOptimizer: `KeepsInv`, a stage knows its best, which it
  measured itself, and a variant is named by its stage and step, so that what is
  held when an evaluation raises is that best or was never measured
  (`StageAfterIsLater`: no stage comes back). JointSearch: `BestSoFar`, the best is the baseline or was
  promoted, nothing promoted did better. RandomSearch: `RankedAndApplied`, what is
  promoted was ahead of all that waited. Selection: `ChosenAmongMeasured`; the
  frontier of Pareto is that of the trials of this run (`FrontierIs`). Reflection:
  `HighestSoFar`, no earlier instruction was graded as high as the best and no
  later one higher, and the patience counts the rounds since then.

### One batch from request to result

`RequestsAgreeHolds`. BatchSources: `YieldedInOrder`, what was yielded stands at a
position that was passed, an unedited source yields the same again, and a pass
has yielded as many items as it came by. BatchRequest: `CreatedInOrder` (what is on
disk tells how far batch-create came), `RowAndManifest` (the manifest says what
the row says or will say, or is of an earlier run, when this one has failed; a
total is of a run that is over) and `RunsAreCounted`
(what a run has seen are the items behind it). The proof found an overlap in the
model of the count hint, two guards of one CASE that held together: TLC takes the
first, the semantics leave the choice open. The guards are disjoint now.

### Classifiers

`LabelsAreDeclaredHolds` (Classifying, with `PathsDescend`), from `MembersAreSound`:
what a member that is done has given is sound for its kind (labels of the
ontology, one if it is exclusive, abstaining only where it may), nothing is
returned before all are done, and a walk has one program and no members. There is
a lemma per kind of member (`EntailedSound`, `NearSound`, ...) and one per
aggregator (in `CombinedDeclares`). Ranked lists of labels are the set of their
ascending orderings instead of a sort.

### What runs on request

`NothingRunsUnaskedHolds`, five components.

* ToolServer: `HandledInOrder`. A handler is a list of steps; what is left of it is
  a suffix, what it took or needed so far was not wrong, and its effects are its
  *last* steps. That is why a refusal is free, and it is a fact about every
  handler, proved handler by handler (`HandlersAreMade`, from `MadeIsWellMade`).
* ProgramOfThought: `WorkInv`, the thread works for the request that was granted
  it, and what it runs was audited for that request; for any number of requests
  and threads.
* Envelope: `FirstStepsAreDone`. Nothing is asked before the envelope is valid and
  built; while it runs, the first steps are behind, and the outputs are theirs
  (unless a step hides a method of the program: then none is asked). For
  envelopes of any length.
* Starter: `RouteBeforePay`, nobody has paid without a route; the budget of the
  caller is the one of the route; the labels are the declared ones.
* ToolSchema: `SchemaIsOfParams`; arguments that satisfy the schema bind, but for
  three signatures: an optional parameter without a default that is left out, a
  positional-only one, and one that is called `self`.

### Extraction

`ExtractionIsHonestHolds`, two components.

* Extraction: `MergedBeforeRetry`, the cells that wait for the chunks are what the
  merge made of the model's answer and the hits of the rules, so that a cell is
  replaced by a chunk only if neither of them had a value. What is paid above the
  counter is at most the dearest chunk for each that failed: one more failure adds
  one to that set and no more than that to the cost. That a merged list has
  all the hits and each new one once (`UnionHas`) rests on `NthIsPlace` and
  `PlaceIsNth`: the places of the new hits are enumerated in order. For every
  schema, answer, list of hits, number of chunks, budget and cost of a chunk.
* CorpusExtraction: `OneRecordEach`. If all calls so far were to resume, the log has
  one record of a document, of the header's schema, and (`CallCounts`) the counters
  of the running call are those of the log: what failed are the errors in it, what
  this call paid for and what it skipped are the documents in it, the others are
  still to do. This breaks at a torn line, to which the next record is glued
  (`Spoilt`), and so it is stated for logs without one; a log that had one is
  never read back. `ReadBack` then
  counts documents instead of records (`DocumentsCount`: a function that takes no
  value twice has as many values as places). For every corpus, number of calls and
  crashes.

### Records

`RecordsAreTrueHolds`, two components.

* TrialLog: `LogInv`. A trial was made once and behind the one before it in its run
  (`MadeInOrder`), a run that goes on knows its latest (`RunsGoOn`), and every line
  begins with a trial that was made, one behind the other (`LinesInOrder`). That a
  fault costs at most two trials needs `AtStake`, what the *next* line can still
  destroy: two records while a whole record stands in a line without an end, one
  behind a torn one. `LineCounts` adds it up for a line on its own and for one
  behind the rest of another. For every number of runs, trials, faults and crashes.
* EnvRecorder: `RecorderInv`. Who writes holds the lock of the own process; what a
  call has written is at the end of the file for as long as it is writing
  (`PiecesInOrder`, `LinesAreBlocks`), so that the next piece lengthens the block and
  a line that begins finds the file at the end of a line. For every number of calls,
  pieces and failing writes. `NothingWritten` is the lemma for all steps but `Write`.

### What the proofs changed in the models

A model that counts by folding over a sequence cannot be reasoned about here, so
the definitions above were rewritten where they did, each time to the same
values, which the run still checks: sets of answers and errors instead of sums
over sequences; `Rank`, `Survivor` and `Places` instead of filtered lists; running
sums in Reflection; the set of ascending listings instead of a sort; the
frontier of Selection as a variable that an action sets; the missing pointers of
an envelope as positions; the handlers of ToolServer as flat lists of steps; the
new hits of a list, the candidates of the chunks and the records of a log as sets
of positions instead of filtered sequences; the numbers of a summary as the sets
of the trials that they count.

Two models had been too kind to the code, which no proof tells: the semantic
cache never died in mid-append, and a batch that had completed was never run
again. Both are modelled now, and the theorems cover them. One model was wrong.
EnvRecorder let the parent fork again after its child was
killed, and the child's calls then went on where they had stopped, without the
lock they held: a call could write that does not hold the lock, which no step of
the proof could exclude. TLC had not found a violation, because with one call in
the child nothing tells the difference. `Fork` now asks that no call of the child
has begun: a child that is forked makes its calls from the start.

### Only model-checked

* Liveness (`EveryRunEnds`, `RunningEnds`, `EveryRequestEnds`): the provers have
  neither fairness nor ENABLED.
* `NothingIsLeftOut`: that the merged text contains every leaf is a statement about
  flattened sequences of sequences, an induction over the data. So is
  `CodecsAreFaithful`: what the two repairs return is a fold over the text.
  `ScoresMeanTheirWords` is about weighted sums and ratios over any number of
  questions and criteria, and `CitationsAreReal` about lists of hits that are
  merged, sorted and cut.
* `MCPrograms.TypeOK`: the types of all 33 components at once. The types of the
  components with a theorem are part of their inductive invariants.
* What the findings of section 5 violate.

## 5. Disagreements

Four runs show the code doing what a comment or docstring excludes:

* `BatchRun_torn`: `writer.py` says "Crash-safe to the last completed item";
  after a torn write the next record is glued to the torn line and lost.
* `BatchWorkspace_two_runners`: two requests pass the check before either marks
  the row.
* `SemanticCache_herd`: the `finally` block pops whatever lock is stored under
  the key although its comment says it only removes its own; after a failure two
  requests call the LLM for one key.
* `ReAct_uncharged`: ReAct talks to the provider itself and never publishes to
  the trial, although `trial_runner.py` names it among the programs that do, so
  the budget of an optimizer does not see what a ReAct program spends.

Met while modelling and left without a run of their own.

*Batches and cache.* A progress callback that raises while an error is reported
ends the task before the error policy is evaluated, so `error_policy="stop"`
does not stop (`ErrorOvershoot` fails when `CallbackMayRaise` is set in an
instance with that policy). `resume=False` appends
to an existing log (the docstring of `batch_run` says it errors out); a resume
skips items recorded as errors, although the tool promises to continue from the
last successful item; a callback that raises after a success records the item
again as an error; `cancel_requested_at` is written and never read; after a
crash or a cancelled request the row says "running" for ever and every later
request is turned away; `envelope.json` is written before the arguments of
batch-create are validated and is shared by all batches of a directory;
`max_entries=0` replays the whole log (`[-0:]`); the text of the inputs drops
their names, so different inputs can share an exact key. The cache's log is
"Append-only, atomic per line" and its replay is to survive a "corrupt last line"
(`semantic.py:329`, `345-349`), but the next process appends to that line, and the
answer it had just paid for is dropped with it at the following replay. A
completed batch that is run again with `resume=true` and raises is "failed" in
its row beside a manifest that says "completed" (`batch_run.py:124`, `203-217`).

*Calls and programs.* A cascade counts the answer it returns twice in the usage
of its program, and `model_used` names the last model whenever none was
accepted. A strict `gather` (`MultiChainComparison` guards against it, a program
of one's own may not) leaves calls running that are charged to a trial which has
been consumed already. With traces disabled no cost is computed, so a cap on
cost never bites. Ensemble says "Filter out exceptions" (`ensemble.py:88`) and
counts a returned `CancelledError` as an answer, with a vote.
Refine and ReAct lose the traces of the iteration that raises. `ChunkCacheKey`
says that two programs should not share an entry; its key has the class of the
program and its model, so two classifiers with different labels do. A result is
tagged `partial` whenever the budget is used up at its end, also when all chunks
were done, and a cap on trials never bites in the chunk loops (they consume
`trials=0`).

*Optimizers.* The composite takes any stop reason of a stage, `patience`
included, for an exhausted budget, and then skips the hyperparameter stage.
`BootstrapResult.metric_after` is the score of demos that were rejected. A stage
whose evaluation raises leaves the unmeasured variant on the call. MIPRO v2
without minibatches never promotes and never accepts anything
(`mipro_v2.py:655`); failed bootstraps and promotions are charged to nobody; the
lite one reports the score and instruction of the best promoted pair also when
it was rejected. CodecOptimizer leaves the best codec so far when an evaluation
raises, ModelOptimizer restores the old model; a model without a price costs
nothing and wins whenever it meets the threshold, although "unpriced models win
ties only when no priced candidate meets" it (`model_optimizer.py:10-11`, `225-228`); ParetoOptimizer falls back on the
log of earlier runs of its instance; `changes_made` of the reflective one is the
last rewrite's, accepted or not. The docstring of `RunContext.make_mutation`
lets explicit ids win, which raises TypeError (`mutations.py:66-79`);
`load_mutations` forgives only the last line, so a record glued to a torn one is
lost, and `MutationLog.load` refuses the log for good.

*Grounding and retrieval.* A signature derived with provenance "grounded" wraps
its columns so that `Grounded._verify` finds no `Cited` and verifies nothing.
The summaries that pool picked sentences keep spans whose offsets are into the
joined picks, and a span verified by SUBSTRING keeps the offsets the model made
up. The retriever of the first corpus answers for later ones (`rag.py:431`);
`max_retries` above 1 still gives one retry; the context is cut in document
order and drops well-ranked passages. `ClaimVerdict.confidence` is documented as
"the max of the three-class distribution", a judge's may be below a third
(`nli.py:464-467`). `ragas_composite` accepts negative weights, so its result may
leave the documented [0, 1]. A calibration report without an unanswerable
question has recall 1.0, a failed question costs nothing in it.

*Extraction.* `chunk_retry.py` is "Cost-bounded by design" (`35-45`, `117-120`),
but a chunk that fails adds nothing to the cost it looks at (`378-389`), whatever
its attempts have cost: what is paid exceeds the budget by less than a chunk
and by every failed one. `ExtractionResult.cost_usd` omits the retries; `backoff_divisor`
and `max_retry_depth` are never used; a required column with None counts as
extracted; a chunk exceeds `max_chars` by its merged tail. `extract_corpus`
promises that a killed run is resumed to identical output, but a torn line that
the resume forgives makes the reader raise at every later call
(`extract.py:886`); model failures become rows of errors recorded as successes
and are never tried again; with `resume=False` it mixes schemas and duplicates
rows although the docstring announces an error. A rubric with a negative
criterion can never reach the full hard score; a designed column named `doc_id`
hides the document; a judge's score is not bounded, only the sum is.

*Classification, codecs, composition.* With `allow_abstain=False` multi-label,
vote, majority and retrieval over an empty corpus still abstain (`labels.py:83`
says "must assign at least one label"); `max_score` counts the scores of members
that abstained. The cluster reducer says that empty leaves get a cluster of
their own, and puts them into the first. The closure of an answer that ends in a
backslash escapes its own quote (`json_codec.py:239`).

*Tools, envelopes, records.* The refine tool turns an explicit 0 into its
default (`integrations/mcp/refine.py:123-124`); the alpha tools say `has_more` at
exactly the cap; `recipe_tune` trains and validates on one set; `save_load`
returns the path that its comment says is never exposed; `summarize_doc` drops a
budget for short texts. ProgramOfThought hands a failed or timed-out execution
to the interpreter all the same, and a cancelled request's process runs on. An
envelope step named like a method of `Program` hides it, a type that refers to
itself raises RecursionError, and `InputSpec.default` is never used. An
`Optional` parameter without a default is not "required", so a call that
satisfies the schema may not bind. After `os.fork` the recorder's file and lock
are shared, although the comment trusts in a file per process. Two equal rows of
a source share an id, and the ids of pages survive an edit of the file. The ETA
of batch-status needs a total that no first run has, although its docstring
speaks of the count hint (`batch_status.py:45-46`); the "per-item rows" of
batch-results include the header; a stopped batch is "failed" in its row and
"stopped" in its manifest.

## 6. Not modelled and plan

Numeric code (TPE sampling, text-overlap metrics, cost tables, embeddings) and
the regular expressions of the deterministic extractors compute values that the
models choose freely. Prompt wording, the export of programs to envelopes and
the construction of schemas beyond tools are conversions of text. Entry points
(CLI, server, settings) keep no state. `PROJECT.json` gives the reason per
component. Left out inside the modelled ones: costs and tokens of a batch,
`errors_by_type`, checkpoint records (the runner writes none), legacy records in
the cache log, `clear_disk`, several processes on one cache log, the weighted
aggregator, hit counters.

Done: all modules of section 2 and the theorems of section 4. What is left, most
important first:

1. Deal review and corpus extraction on top of BatchRun itself rather than of
   its log; several servers on one workspace.
2. A run of a server that dies between marking a row and the first progress
   callback, once the code has something that takes such a row out of "running".
