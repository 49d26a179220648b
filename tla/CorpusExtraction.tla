---------------------------- MODULE CorpusExtraction --------------------------
(***************************************************************************)
(* extract_corpus (programs/extract.py): an Extract program is run over a  *)
(* corpus by batch_run, as module BatchRun has it, and the log is read     *)
(* back into one table.  Another call on the same directory resumes the    *)
(* batch, perhaps after a crash, perhaps with another corpus or schema.    *)
(***************************************************************************)
EXTENDS Integers, Sequences, FiniteSets, Functions

CONSTANTS
  Collections,  \* the sets of documents that a call may be about
  SchemaIds,\* what is part of the program's hash
  Settings, \* provenance and refusal, which are not
  MaxCalls, \* how many calls there are
  None

VARIABLES
  log,     \* items.jsonl
  call,    \* [corpus, schema, setting, resume, todo, ok, failed, skipped, cost]
  at,      \* "idle", "running", "reading", "returned" or "raised"
  calls,   \* how many calls have begun
  resumed, \* whether every call so far was to resume
  result   \* of the last call that returned

vars == <<log, call, at, calls, resumed, result>>

\* A line of the log: the header, a record of a document, or what no parser reads:
\* a torn last line, or that line with the record that was written to it after.
HeaderOf(schema) == [kind |-> "header", schema |-> schema]
RecordOf(d, status, cells) ==
  [kind |-> "item", doc |-> d, status |-> status, cells |-> cells,
   schema |-> call.schema, setting |-> call.setting]
Torn == [kind |-> "torn"]
Glued == [kind |-> "glued"]
IsTorn(lines) == lines # <<>> /\ lines[Len(lines)] = Torn
Written(lines, line) ==
  IF IsTorn(lines) THEN [lines EXCEPT ![Len(lines)] = IF line = Torn THEN Torn ELSE Glued]
  ELSE Append(lines, line)
Readable == {Torn, Glued} \intersect Range(log) = {}

\* Where the log has a record, and of which documents.
Records == {k \in DOMAIN log : log[k].kind = "item"}
OfStatus(s) == {k \in Records : log[k].status = s}
Recorded == {log[k].doc : k \in Records}

\* _scan_existing_log.  A bug: what failed is tried again beside its record.
SkipSuccesses(resume) == IF resume THEN {log[k].doc : k \in OfStatus("success")} ELSE {}
Skipped(resume) == IF resume THEN Recorded ELSE {}
Counted(resume, found) == IF resume THEN Cardinality(found) ELSE 0

Init ==
  /\ log = <<>>
  /\ call = None
  /\ at = "idle"
  /\ calls = 0
  /\ resumed = TRUE
  /\ result = None

-----------------------------------------------------------------------------
\* A directory that does not exist, and when resuming a header with another hash,
\* refuse the call.
Refused(c) == c.resume /\ \E k \in DOMAIN log : log[k].kind = "header" /\ log[k].schema # c.schema
MayCall == at \in {"idle", "returned", "raised"} /\ calls < MaxCalls
Call ==
  /\ MayCall
  /\ \E corpus \in Collections, schema \in SchemaIds, setting \in Settings, resume \in BOOLEAN :
       LET c == [corpus |-> corpus, schema |-> schema, setting |-> setting, resume |-> resume,
                 todo |-> corpus \ Skipped(resume), cost |-> 0,
                 ok |-> Counted(resume, OfStatus("success")),
                 failed |-> Counted(resume, OfStatus("error")), skipped |-> Counted(resume, Recorded)]
       IN  /\ call' = c
           /\ resumed' = (resumed /\ resume)
           /\ at' = IF Refused(c) THEN "raised" ELSE "running"
           /\ log' = IF Refused(c) \/ log # <<>> THEN log ELSE <<HeaderOf(schema)>>
  /\ calls' = calls + 1
  /\ UNCHANGED result
NoDirectory ==
  /\ MayCall /\ log = <<>>
  /\ at' = "raised"
  /\ calls' = calls + 1
  /\ UNCHANGED <<log, call, resumed, result>>

\* A document: its cells, or cells that hold an error, when the model could not
\* be called (Extract.extract catches it); both are a success of the batch.  Only
\* a timeout or another exception is an error of it.
Ends(d, status, cells) ==
  /\ log' = Written(log, RecordOf(d, status, cells))
  /\ call' = [call EXCEPT !.todo = @ \ {d}, !.cost = @ + 1,
                          !.ok = IF status = "success" THEN @ + 1 ELSE @,
                          !.failed = IF status = "error" THEN @ + 1 ELSE @]
  /\ UNCHANGED <<at, calls, resumed, result>>
Item(d) ==
  /\ at = "running" /\ d \in call.todo
  /\ \/ Ends(d, "success", "values")
     \/ Ends(d, "success", "errors")
     \/ Ends(d, "error", None)

\* Every document has been through, or an error has stopped the batch.
BatchEnds ==
  /\ at = "running" /\ (call.todo = {} \/ call.failed > 0)
  /\ at' = "reading"
  /\ UNCHANGED <<log, call, calls, resumed, result>>

\* The process dies, perhaps in the middle of a line.
Crash ==
  /\ at = "running"
  /\ log' \in {log, Written(log, Torn)}
  /\ at' = "idle"
  /\ call' = None
  /\ UNCHANGED <<calls, resumed, result>>

-----------------------------------------------------------------------------
\* Every success in the log is a row, of whichever call it is.
\* A bug: the errors are rows as well.
AllRecords == [k \in Records |-> log[k]]
Rows == [k \in OfStatus("success") |-> log[k]]

ReadBack ==
  /\ at = "reading" /\ Readable
  /\ result' = [rows |-> Rows, errored |-> call.failed, skipped |-> call.skipped,
                cost |-> call.cost, call |-> call]
  /\ at' = "returned"
  /\ UNCHANGED <<log, call, calls, resumed>>
\* json.loads raises at the line that batch_run has forgiven.
CannotRead ==
  /\ at = "reading" /\ ~Readable
  /\ at' = "raised"
  /\ UNCHANGED <<log, call, calls, resumed, result>>

Next ==
  \/ Call \/ NoDirectory
  \/ call # None /\ \E d \in call.corpus : Item(d)
  \/ BatchEnds \/ Crash \/ ReadBack \/ CannotRead

Spec == Init /\ [][Next]_vars

-----------------------------------------------------------------------------
TypeOK ==
  /\ at \in {"idle", "running", "reading", "returned", "raised"} /\ calls \in 0..MaxCalls
  /\ \A k \in DOMAIN log : log[k].kind \in {"header", "item", "torn", "glued"}

\* When every call was to resume, a document has one record whatever crashed: the
\* table has one row of each document that ever succeeded, of one schema, and the
\* errors that are reported are the documents without a row.  A row of another
\* setting, of a document that is no longer in the corpus, or one whose cells are
\* all errors, stays as it is.
TableCountsDocuments ==
  at = "returned" =>
    LET rows == result.rows
        docs == {rows[k].doc : k \in DOMAIN rows}
    IN  /\ \A k \in DOMAIN rows : rows[k].cells # None
        /\ resumed =>
             /\ Cardinality(docs) = Cardinality(DOMAIN rows)
             /\ \A k \in DOMAIN rows : rows[k].schema = result.call.schema
             /\ Cardinality(Recorded \ docs) = result.errored
             /\ result.call.corpus \subseteq Recorded \/ result.errored > 0
             /\ result.cost <= Cardinality(DOMAIN rows) + result.errored
             /\ result.cost = Cardinality(Recorded) - result.skipped

-----------------------------------------------------------------------------
(* Why the table counts documents: the inductive invariant *)

Lines ==
  [kind : {"header"}, schema : SchemaIds]
    \union [kind : {"item"}, doc : UNION Collections, status : {"success", "error"},
             cells : {"values", "errors", None}, schema : SchemaIds, setting : Settings]
    \union {Torn, Glued}

\* The counters of the call are those of the log as long as its lines can be
\* read, and
\* what is not in the log is still to do.
CallCounts ==
  /\ call.schema = log[1].schema
  /\ call.todo \intersect Recorded = {}
  /\ Readable =>
       /\ call.failed = Cardinality(OfStatus("error"))
       /\ call.cost + call.skipped = Cardinality(Recorded)
       /\ call.corpus \subseteq Recorded \union call.todo

\* A log begins with its header; with calls that all resume, it has one record of
\* a document, all of the header's schema.
LogIsWhole ==
  /\ log \in Seq(Lines) /\ (log # <<>> => log[1].kind = "header")
  /\ \A k \in Records : log[k].status = "success" => log[k].cells # None
  /\ resumed => /\ \A j, k \in Records : log[j].doc = log[k].doc => j = k
                /\ \A k \in Records : log[k].schema = log[1].schema

Calls ==
  [corpus : Collections, schema : SchemaIds, setting : Settings, resume : BOOLEAN,
   todo : SUBSET UNION Collections, cost : Nat, ok : Nat, failed : Nat, skipped : Nat]
CallIsCounted ==
  at \in {"running", "reading"} =>
    /\ log # <<>> /\ call \in Calls
    /\ resumed => CallCounts

OneRecordEach ==
  /\ at \in {"idle", "running", "reading", "returned", "raised"} /\ resumed \in BOOLEAN
  /\ LogIsWhole
  /\ CallIsCounted
  /\ at = "reading" => call.todo = {} \/ call.failed > 0
  /\ TableCountsDocuments
=============================================================================
