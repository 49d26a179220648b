------------------------------ MODULE BatchRequest ----------------------------
(***************************************************************************)
(* The requests about one batch: batch-create checks its arguments in an   *)
(* order and writes files between two checks (batch_create.py,             *)
(* _batch_helpers.py), batch-run reads the source again and reports, and   *)
(* batch-status and batch-results answer at any time between.  How several *)
(* batches and requests meet is in module BatchWorkspace.                  *)
(***************************************************************************)
EXTENDS Integers, Sequences, FiniteSets, FiniteSetsExt, Functions

CONSTANTS
  MaxEntries, \* entries of a source
  Ranges,     \* page_range, [from, to]
  MaxRows,
  InlineCap,  \* _INLINE_THRESHOLD, in lines of the log
  MaxRuns,
  None

VARIABLES
  request, \* [envelope, type, readable, range, outdir, policy]
  entries, \* what the source holds: "item", "blank" or "broken"
  at,      \* the next check, or "pending", "running", "over", "refused"
  files,   \* what batch-create has made: "dir", "envelope"
  hint,    \* inputs_count_hint
  row,     \* [status, total, done, timed], or None while there is none
  next,    \* the next entry of the run
  seen,    \* n_total_seen
  log,     \* the lines of items.jsonl: 0 for the header, k for a success
           \* and -k for an error of the item at position k
  manifest,\* the status that the manifest has, or None
  run,     \* [number, resume, from]: the run, whether it resumes, and how many
           \* lines the log had when it began
  reply    \* the answer of batch-status or batch-results

vars == <<request, entries, at, files, hint, row, next, seen, log, manifest, run, reply>>

Envelopes == {"inline", "path", "both", "neither", "unreadable", "not json", "rejected"}
Types == {"list", "jsonl", "pdf_pages", "tabular_rows"}
Policies == {"valid", "unknown", "without max_errors"}
Outdirs == {"relative", "absolute", "not on disk"}

Init ==
  /\ request \in [envelope : Envelopes, type : Types \cup {"unknown"}, readable : BOOLEAN,
                  range : Ranges \cup {None}, outdir : Outdirs, policy : Policies]
  /\ request.type # "pdf_pages" => request.range = None
  /\ request.type = "list" => request.readable
  /\ entries \in UNION {[1..n -> {"item", "blank", "broken"}] : n \in 0..MaxEntries}
  /\ (request.type # "jsonl" => "broken" \notin Range(entries))
  /\ (request.type \in {"list", "tabular_rows"} => "blank" \notin Range(entries))
  /\ at = "envelope"
  /\ files = {}
  /\ hint = None
  /\ row = None
  /\ next = 0
  /\ seen = 0
  /\ log = <<>>
  /\ manifest = None
  /\ run = [number |-> 0, resume |-> FALSE, from |-> 0]
  /\ reply = None

-----------------------------------------------------------------------------
(* batch-create *)

Untouched == UNCHANGED <<request, entries, next, seen, log, manifest, run, reply>>
Check(name, holds, after) ==
  /\ at = name
  /\ at' = IF holds THEN after ELSE "refused"

LoadEnvelope ==
  /\ Check("envelope", request.envelope \in {"inline", "path"}, "source")
  /\ Untouched /\ UNCHANGED <<files, hint, row>>

\* The pages or rows that are within the range, as items or not.
Within ==
  CASE request.type = "pdf_pages" /\ request.range # None ->
         (Max({0, request.range.from}) + 1)..Min({Len(entries), request.range.to})
    [] request.type = "tabular_rows" -> 1..Min({Len(entries), MaxRows})
    [] OTHER -> DOMAIN entries

\* How many items are expected; a line or page is counted without being read.
\* A bug: the empty lines of a file and the pages out of the range as well.
CountOfAll == IF request.type = "tabular_rows" \/ ~request.readable THEN None ELSE Len(entries)
CountHint ==
  IF request.type = "tabular_rows" \/ ~request.readable THEN None
  ELSE Cardinality(IF request.type = "jsonl" THEN {k \in DOMAIN entries : entries[k] # "blank"}
                   ELSE Within)

BuildSource ==
  /\ Check("source", request.type \in Types, "outdir")
  /\ hint' = IF request.type \in Types THEN CountHint ELSE None
  /\ Untouched /\ UNCHANGED <<files, row>>
ResolveOutdir ==
  /\ Check("outdir", request.outdir = "relative", "save")
  /\ files' = IF request.outdir = "relative" THEN {"dir"} ELSE {}
  /\ Untouched /\ UNCHANGED <<hint, row>>
\* An inline envelope is written for the run to read.
SaveEnvelope ==
  /\ Check("save", TRUE, "policy")
  /\ files' = files \cup (IF request.envelope = "inline" THEN {"envelope"} ELSE {})
  /\ Untouched /\ UNCHANGED <<hint, row>>
CheckPolicy ==
  /\ Check("policy", request.policy = "valid", "insert")
  /\ Untouched /\ UNCHANGED <<files, hint, row>>
Insert ==
  /\ at = "insert"
  /\ row' = [status |-> "pending", total |-> None, done |-> 0, timed |-> FALSE]
  /\ at' = "pending"
  /\ Untouched /\ UNCHANGED <<files, hint>>

-----------------------------------------------------------------------------
(* batch-run *)

\* A failed or cancelled batch is resumed unless the client says otherwise, one
\* that completed is run again only if the client says resume.
Start(resume) ==
  /\ at \in {"pending", "over"} /\ run.number < MaxRuns
  /\ row.status = "completed" => resume
  /\ at' = "running"
  /\ row' = [row EXCEPT !.status = "running"]
  /\ log' = IF log = <<>> THEN <<0>> ELSE log
  /\ run' = [number |-> run.number + 1, resume |-> resume, from |-> Len(log)]
  /\ next' = IF Within = {} THEN 1 ELSE Min(Within)
  /\ seen' = 0
  /\ UNCHANGED <<request, entries, files, hint, manifest, reply>>

Position == at = "running" /\ next \in Within /\ request.readable
\* The skip set: what the log had when the run began, errors as well.
Recorded(k) == run.resume /\ \E i \in 1..run.from : log[i] \in {k, -k}
\* An item is run and recorded, unless it is skipped; either way it is seen.
RunItem ==
  /\ Position /\ entries[next] = "item"
  /\ seen' = seen + 1
  /\ next' = next + 1
  /\ IF Recorded(next) THEN UNCHANGED <<log, row>>
     ELSE /\ log' \in {Append(log, next), Append(log, -next)}
          /\ row' = [row EXCEPT !.done = @ + 1, !.timed = TRUE]
  /\ UNCHANGED <<request, entries, at, files, hint, manifest, run, reply>>
SkipBlank ==
  /\ Position /\ entries[next] = "blank"
  /\ next' = next + 1
  /\ UNCHANGED <<request, entries, at, files, hint, row, seen, log, manifest, run, reply>>

\* A run ends without a manifest and without a total of its own: always when a
\* line is not JSON or the source cannot be opened, and at any time when the
\* program is another by now, or the log or the manifest cannot be written.
RunRaises ==
  /\ at = "running"
  /\ row' = [row EXCEPT !.status = "failed"]
  /\ at' = "over"
  /\ UNCHANGED <<request, entries, files, hint, next, seen, log, manifest, run, reply>>
\* After an error the policy may ask for a stop; what is skipped is still seen
\* then, the next item that is not ends the run.
Stopped ==
  /\ Len(log) > run.from /\ log[Len(log)] < 0
  /\ next \in Within => entries[next] = "item" /\ ~Recorded(next)
\* The manifest is written first, then the row; what the policy stopped is a
\* failed batch, and its manifest says stopped.
WriteManifest ==
  /\ at = "running" /\ request.readable
  /\ \/ next \notin Within /\ manifest' = "completed"
     \/ Stopped /\ manifest' = "stopped"
  /\ at' = "written"
  /\ UNCHANGED <<request, entries, files, hint, row, next, seen, log, run, reply>>
RunEnds ==
  /\ at = "written"
  /\ row' = [row EXCEPT !.status = IF manifest = "stopped" THEN "failed" ELSE manifest,
                        !.total = seen]
  /\ at' = "over"
  /\ UNCHANGED <<request, entries, files, hint, next, seen, log, manifest, run, reply>>

-----------------------------------------------------------------------------
(* batch-status and batch-results *)

\* The remaining time needs a total, which only an earlier run has left.
Eta == row.status = "running" /\ row.total # None /\ row.total > 0 /\ row.done > 0 /\ row.timed
Status ==
  /\ row # None /\ reply = None
  /\ reply' = [kind |-> "status", status |-> row.status, eta |-> Eta]
  /\ UNCHANGED <<request, entries, at, files, hint, row, next, seen, log, manifest, run>>
\* The log is returned whole or not at all, with its header.
Results(format) ==
  /\ row # None /\ reply = None
  /\ reply' =
       CASE format = "manifest" -> [kind |-> format, status |-> row.status, manifest |-> manifest]
         [] format = "jsonl" ->
              IF log = <<>> \/ Len(log) > InlineCap THEN [kind |-> "error"]
              ELSE [kind |-> format, rows |-> log]
  /\ UNCHANGED <<request, entries, at, files, hint, row, next, seen, log, manifest, run>>
\* The next request of a client.
Again ==
  /\ reply # None
  /\ reply' = None
  /\ UNCHANGED <<request, entries, at, files, hint, row, next, seen, log, manifest, run>>

Next ==
  \/ LoadEnvelope \/ BuildSource \/ ResolveOutdir \/ SaveEnvelope \/ CheckPolicy \/ Insert
  \/ \E resume \in BOOLEAN : Start(resume)
  \/ RunItem \/ SkipBlank \/ RunRaises \/ WriteManifest \/ RunEnds
  \/ Status \/ Again
  \/ \E format \in {"manifest", "jsonl"} : Results(format)

Spec == Init /\ [][Next]_vars

-----------------------------------------------------------------------------
TypeOK ==
  /\ at \in {"envelope", "source", "outdir", "save", "policy", "insert", "pending",
             "running", "written", "over", "refused"}
  /\ files \subseteq {"dir", "envelope"} /\ run.number \in 0..MaxRuns
  /\ row # None => row.status \in {"pending", "running", "completed", "failed"}

\* A batch that completes has seen as many items as batch-create expected, but
\* for the blank pages of a PDF, whatever was refused or raised before; what was
\* refused has no row, though it may leave a directory and an envelope behind.
\* There is no remaining time in a first run, however many items were expected.
\* The manifest and the row that a client gets together differ while a run goes
\* on, in the name for a batch that its policy stopped, and where a later run
\* has raised: it fails the row and leaves the manifest of an earlier one,
\* completed perhaps.
RequestsAgree ==
  /\ at = "refused" => row = None /\ ("envelope" \in files => request.policy # "valid")
  /\ row # None /\ row.status = "completed" =>
       \/ hint = None
       \/ row.total = hint
       \/ request.type = "pdf_pages" /\ row.total < hint /\ "blank" \in Range(entries)
  /\ reply # None /\ reply.kind = "status" /\ reply.eta => run.number > 1
  /\ reply # None /\ reply.kind = "manifest" /\ reply.manifest # None =>
       \/ reply.status \in {reply.manifest, "running"}
       \/ reply.status = "failed" /\ (reply.manifest = "stopped" \/ run.number > 1)

-----------------------------------------------------------------------------
(* Why the requests agree: the inductive invariant *)

Rows == [status : {"pending", "running", "completed", "failed"}, total : Nat \union {None},
         done : Nat, timed : BOOLEAN]
Refused == at \in {"envelope", "source", "outdir", "save", "policy", "insert", "refused"}
Running == at \in {"running", "written"}

\* The items before the next entry.
Behind == {k \in Within : k < next /\ entries[k] = "item"}

\* What a source holds, and what batch-create has made and counted.
CreatedInOrder ==
  /\ entries \in Seq({"item", "blank", "broken"})
  /\ request.type # "jsonl" => "broken" \notin Range(entries)
  /\ request.type \in {"list", "tabular_rows"} => "blank" \notin Range(entries)
  /\ request.range \in Ranges \union {None}
  /\ hint \in {None, CountHint} /\ (hint # None => request.type \in Types)
  /\ "envelope" \in files => at \notin {"envelope", "source", "outdir", "save"}
  /\ at = "refused" /\ "envelope" \in files => request.policy # "valid"

\* A total and, but for the moment between the two, a manifest is of a run that
\* is over; a row that completed has both from the same run.
RowAndManifest ==
  /\ run.number \in Nat
  /\ manifest \in {None, "completed", "stopped"}
  /\ Refused => row = None /\ manifest = None /\ reply = None
  /\ ~Refused =>
       /\ row \in Rows
       /\ at \in {"pending", "running", "written", "over"}
       /\ row.total # None => run.number > IF Running THEN 1 ELSE 0
       /\ Running <=> row.status = "running"
       /\ at = "pending" => manifest = None /\ row.status = "pending"
       /\ at = "running" /\ manifest # None => run.number > 1
       /\ at = "written" => manifest \in {"completed", "stopped"}
       /\ at = "over" => \/ row.status = "completed" /\ manifest = "completed" /\ row.total = seen
                         \/ row.status = "failed" /\ (manifest = "completed" => run.number > 1)
       /\ at # "pending" => run.number > 0
  /\ reply # None /\ reply.kind = "status" /\ reply.eta => run.number > 1
  /\ reply # None /\ reply.kind = "manifest" /\ reply.manifest # None =>
       \/ reply.status \in {reply.manifest, "running"}
       \/ reply.status = "failed" /\ (reply.manifest = "stopped" \/ run.number > 1)

\* A run has seen the items behind it and nothing broken, and all of them when
\* it completes.
RunsAreCounted ==
  at \in {"running", "written", "over"} =>
    /\ next \in Nat
    /\ seen = Cardinality(Behind)
    /\ \A k \in Within : k < next => entries[k] # "broken"
    /\ next \notin Within => \A k \in Within : k < next
    /\ at = "written" /\ manifest = "completed" => next \notin Within
    /\ at = "over" /\ row.status = "completed" => next \notin Within
=============================================================================
