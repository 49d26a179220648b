--------------------------- MODULE BatchWorkspace ---------------------------
(***************************************************************************)
(* The MCP batch tools (integrations/mcp/batch_create.py, batch_run.py,    *)
(* _batch_helpers.py) over the workspace store (workspace/metadata.py):    *)
(* the row of each batch in SQLite, the output directories, and the        *)
(* batch-run requests that work on them.                                   *)
(*                                                                         *)
(* A request holds its own database connection while it is being served.   *)
(* batch_run itself is modelled in BatchRun; here only what it does to the *)
(* log, the manifest and, through the progress callback, to the row.       *)
(***************************************************************************)
EXTENDS Integers, Sequences, FiniteSets

CONSTANTS
  Batches,       \* batch_ids
  Dirs,          \* output directories
  Programs,      \* envelopes, by their program hash
  Ids,           \* custom_ids of every batch's source
  MaxRequests,   \* how many batch-run requests are sent (a bound)
  MaxRejected,   \* how many batch-create requests fail late (a bound)
  None,          \* an absent value
  StopOnError,   \* error_policy is "stop" (else "continue")
  ShareDirs,     \* may a batch be created in a directory already in use?
  LoadSuspends,  \* may vfs.read suspend, or another process serve a request?
  SourceMayFail, \* may the input source raise?
  MayCancel,     \* may a client cancel its request?
  MayCancelBatch,\* may cancel_batch be called?
  MayCrash       \* may the server die?

ASSUME WorkspaceAssumption ==
  /\ IsFiniteSet(Ids)
  /\ MaxRequests \in Nat \ {0}
  /\ MaxRejected \in Nat
  /\ None \notin Batches \cup Dirs \cup Programs \cup BOOLEAN
  /\ {StopOnError, ShareDirs, LoadSuspends, SourceMayFail, MayCancel,
    MayCancelBatch, MayCrash} \subseteq BOOLEAN

Requests == 1..MaxRequests

VARIABLES
  row,       \* table "batches": a record per batch_id, or None
  envelope,  \* envelope.json of each directory
  log,       \* items.jsonl of each directory: its header and item lines
  manifest,  \* manifest.json of each directory, or None
  rejected,  \* batch-create requests refused after they wrote the envelope
  phase,     \* where each batch-run request is
  target,    \* its batch_id
  resume,    \* its resume flag
  program,   \* the envelope it loaded
  todo,      \* items its source has yet to yield and that are not skipped
  inflight,  \* its _process_item tasks that have not recorded an outcome
  tally,     \* its n_succeeded and n_errored
  stopped    \* its stop_requested

files == <<envelope, log, manifest>>
request == <<target, resume, program>>
run == <<todo, inflight, tally, stopped>>
vars == <<row, files, rejected, phase, request, run>>

-----------------------------------------------------------------------------
Serving == {"loading", "reading", "draining", "cancelling"}  \* connection open
Running == Serving \ {"loading"}                             \* inside batch_run

NoCount == [succeeded |-> 0, errored |-> 0]
Dir(q) == row[target[q]].dir

CountOutcome(outcomes, o) == Cardinality({ k \in DOMAIN outcomes : outcomes[k] = o })
Scan(lines) ==
  LET outcomes == [k \in DOMAIN lines |-> lines[k].outcome] IN
  [succeeded |-> CountOutcome(outcomes, "success"),
   errored   |-> CountOutcome(outcomes, "error")]
Recorded(lines) == { lines[k].id : k \in DOMAIN lines }

Init ==
  /\ row = [b \in Batches |-> None]
  /\ envelope = [d \in Dirs |-> None]
  /\ log = [d \in Dirs |-> [header |-> None, items |-> << >>]]
  /\ manifest = [d \in Dirs |-> None]
  /\ rejected = 0
  /\ phase = [q \in Requests |-> "idle"]
  /\ target = [q \in Requests |-> None]
  /\ resume = [q \in Requests |-> FALSE]
  /\ program = [q \in Requests |-> None]
  /\ todo = [q \in Requests |-> {}]
  /\ inflight = [q \in Requests |-> {}]
  /\ tally = [q \in Requests |-> NoCount]
  /\ stopped = [q \in Requests |-> FALSE]

-----------------------------------------------------------------------------
(* batch-create with an inline envelope.                                   *)

Free(d) == ShareDirs \/ envelope[d] = None

Create(b, d, p) ==
  /\ row[b] = None
  /\ Free(d)
  /\ envelope' = [envelope EXCEPT ![d] = p]
  /\ row' = [row EXCEPT ![b] =
       [status |-> "pending", dir |-> d, hash |-> p, count |-> NoCount,
        cancelRequested |-> FALSE]]
  /\ UNCHANGED <<log, manifest, rejected, phase, request, run>>

\* error_policy, max_errors and the batch_id are checked after the envelope
\* has been written.
CreateRejected(d, p) ==
  /\ rejected < MaxRejected
  /\ Free(d)
  /\ rejected' = rejected + 1
  /\ envelope' = [envelope EXCEPT ![d] = p]
  /\ UNCHANGED <<row, log, manifest, phase, request, run>>

\* WorkspaceMetadata.cancel_batch, whatever the status.
CancelBatch(b) ==
  /\ MayCancelBatch
  /\ row[b] # None
  /\ ~row[b].cancelRequested
  /\ row' = [row EXCEPT ![b].cancelRequested = TRUE]
  /\ UNCHANGED <<files, rejected, phase, request, run>>

-----------------------------------------------------------------------------
(* batch-run.                                                              *)

\* Mutant: a running batch is not turned away.
AdmitsRunning(status, res) == status = "completed" => res
\* The rejections of a running batch and of a completed one without resume.
Admits(status, res) == status # "running" /\ (status = "completed" => res)

Resumes(status, arg) ==
  IF arg = None THEN status \in {"failed", "cancelled"} ELSE arg

\* The row is read and checked; the envelope is about to be read.
Check(q, b, arg) ==
  /\ phase[q] = "idle"
  /\ \A p \in Requests : p < q => phase[p] # "idle"
  /\ LoadSuspends \/ \A p \in Requests : phase[p] # "loading"
  /\ row[b] # None
  /\ target' = [target EXCEPT ![q] = b]
  /\ resume' = [resume EXCEPT ![q] = Resumes(row[b].status, arg)]
  /\ phase' = [phase EXCEPT ![q] =
       IF Admits(row[b].status, resume'[q]) THEN "loading" ELSE "returned"]
  /\ UNCHANGED <<row, files, rejected, program, run>>

\* The envelope or the source cannot be loaded; the row is left alone.
LoadFails(q) ==
  /\ phase[q] = "loading"
  /\ phase' = [phase EXCEPT ![q] = "returned"]
  /\ UNCHANGED <<row, files, rejected, request, run>>

SetStatus(b, status) == row' = [row EXCEPT ![b].status = status]

\* Marked as running; batch_run scans or opens the log.
Launch(q) ==
  LET d == Dir(q)
      p == envelope[d]
      scan == resume[q]
  IN
  /\ phase[q] = "loading"
  /\ ~(scan /\ log[d].header \notin {None, p})
  /\ program' = [program EXCEPT ![q] = p]
  /\ SetStatus(target[q], "running")
  /\ log' = [log EXCEPT ![d].header = IF @ = None THEN p ELSE @]
  /\ todo' = [todo EXCEPT ![q] =
       IF scan THEN Ids \ Recorded(log[d].items) ELSE Ids]
  /\ tally' = [tally EXCEPT ![q] = IF scan THEN Scan(log[d].items) ELSE NoCount]
  /\ phase' = [phase EXCEPT ![q] = "reading"]
  /\ UNCHANGED <<envelope, manifest, rejected, target, resume, inflight, stopped>>

\* Marked as running; the scan raises BatchResumeMismatchError; marked as
\* failed: nothing suspends in between.
LaunchMismatch(q) ==
  LET d == Dir(q) IN
  /\ phase[q] = "loading"
  /\ resume[q] /\ log[d].header \notin {None, envelope[d]}
  /\ program' = [program EXCEPT ![q] = envelope[d]]
  /\ SetStatus(target[q], "failed")
  /\ phase' = [phase EXCEPT ![q] = "returned"]
  /\ UNCHANGED <<files, rejected, target, resume, run>>

ReadItem(q, id) ==
  /\ phase[q] = "reading"
  /\ id \in todo[q]
  /\ ~stopped[q]
  /\ todo' = [todo EXCEPT ![q] = @ \ {id}]
  /\ inflight' = [inflight EXCEPT ![q] = @ \cup {id}]
  /\ UNCHANGED <<row, files, rejected, phase, request, tally, stopped>>

LeaveLoop(q) ==
  /\ phase[q] = "reading"
  /\ stopped[q] \/ todo[q] = {}
  /\ phase' = [phase EXCEPT ![q] = "draining"]
  /\ UNCHANGED <<row, files, rejected, request, run>>

\* Mutant: the workspace is left open when the request returns.
LeakedConnection(q) == TRUE
\* workspace_or_error closes the connection when the handler ends.
ConnectionOpen(q) == phase[q] \in Serving

\* The task appends one line for each outcome it sees.
Record(q, id, outcomes) ==
  /\ id \in inflight[q]
  /\ inflight' = [inflight EXCEPT ![q] = @ \ {id}]
  /\ log' = [log EXCEPT ![Dir(q)].items =
       @ \o [k \in DOMAIN outcomes |->
               [id |-> id, outcome |-> outcomes[k], prog |-> program[q]]]]
  /\ tally' = [tally EXCEPT ![q] =
       [succeeded |-> @.succeeded + CountOutcome(outcomes, "success"),
        errored   |-> @.errored + CountOutcome(outcomes, "error")]]

\* A task of a request that is being served: the outcome is recorded,
\* update_progress writes the counters, the error policy is evaluated.
ItemEnds(q, id, outcome) ==
  /\ ConnectionOpen(q)
  /\ outcome = "success" => phase[q] # "cancelling"
  /\ Record(q, id, <<outcome>>)
  /\ row' = [row EXCEPT ![target[q]].count = tally'[q]]
  /\ stopped' = [stopped EXCEPT ![q] = @ \/ (StopOnError /\ outcome = "error")]
  /\ UNCHANGED <<envelope, manifest, rejected, phase, request, todo>>

\* A task whose request has returned: update_progress raises on the closed
\* connection, so that a success is recorded again, as an error.
OrphanEnds(q, id, outcome) ==
  /\ ~ConnectionOpen(q)
  /\ Record(q, id, IF outcome = "success" THEN <<"success", "error">> ELSE <<"error">>)
  /\ UNCHANGED <<row, envelope, manifest, rejected, phase, request, todo, stopped>>

\* A queued task finds stop_requested, or is cancelled in the queue.
ItemDropped(q, id) ==
  /\ id \in inflight[q]
  /\ stopped[q] \/ phase[q] = "cancelling"
  /\ inflight' = [inflight EXCEPT ![q] = @ \ {id}]
  /\ UNCHANGED <<row, files, rejected, phase, request, todo, tally, stopped>>

\* Mutant: the exception leaves the row as it is.
KeepStatus(q) == UNCHANGED row
\* The branch "except Exception".
MarkFailed(q) == SetStatus(target[q], "failed")

SourceRaises(q) ==
  /\ SourceMayFail
  /\ phase[q] = "reading" /\ todo[q] # {}
  /\ MarkFailed(q)
  /\ phase' = [phase EXCEPT ![q] = "returned"]
  /\ UNCHANGED <<files, rejected, request, run>>

\* Mutant: "stopped" is not told from "completed".
AlwaysCompleted(q) == "completed"
\* Mutant: the status of the result is stored as it is.
StatusOfResult(q) == IF stopped[q] THEN "stopped" ELSE "completed"
\* terminal_status: "stopped" becomes "failed".
TerminalStatus(q) == IF stopped[q] THEN "failed" ELSE "completed"

WriteManifest(q) ==
  manifest' = [manifest EXCEPT ![Dir(q)] =
    [batch |-> target[q], status |-> IF stopped[q] THEN "stopped" ELSE "completed",
     count |-> tally[q]]]

\* batch_run writes the manifest and returns; the row gets its final values.
Finish(q) ==
  /\ phase[q] = "draining"
  /\ inflight[q] = {}
  /\ WriteManifest(q)
  /\ row' = [row EXCEPT ![target[q]].status = TerminalStatus(q),
                        ![target[q]].count = tally[q]]
  /\ phase' = [phase EXCEPT ![q] = "returned"]
  /\ UNCHANGED <<envelope, log, rejected, request, run>>

\* CancelledError passes by "except Exception": the row is left alone.  Only
\* gather() passes the cancellation on to the tasks and waits for them.
Cancel(q) ==
  /\ MayCancel
  /\ \/ phase[q] \in {"loading", "reading"} /\ phase' = [phase EXCEPT ![q] = "returned"]
     \/ /\ phase[q] = "draining" /\ inflight[q] # {}
        /\ phase' = [phase EXCEPT ![q] = "cancelling"]
  /\ UNCHANGED <<row, files, rejected, request, run>>

FinishCancelled(q) ==
  /\ phase[q] = "cancelling"
  /\ inflight[q] = {}
  /\ phase' = [phase EXCEPT ![q] = "returned"]
  /\ UNCHANGED <<row, files, rejected, request, run>>

\* The server dies, perhaps after a manifest was written and before the row was.
Crash ==
  /\ MayCrash
  /\ \E q \in Requests : phase[q] \in Serving \/ inflight[q] # {}
  /\ \/ UNCHANGED manifest
     \/ \E q \in Requests :
          phase[q] = "draining" /\ inflight[q] = {} /\ WriteManifest(q)
  /\ phase' = [q \in Requests |-> IF phase[q] \in Serving THEN "lost" ELSE phase[q]]
  /\ inflight' = [q \in Requests |-> {}]
  /\ UNCHANGED <<row, envelope, log, rejected, request, todo, tally, stopped>>

-----------------------------------------------------------------------------
Tools ==
  \/ \E b \in Batches, d \in Dirs, p \in Programs : Create(b, d, p)
  \/ \E d \in Dirs, p \in Programs : CreateRejected(d, p)
  \/ \E b \in Batches : CancelBatch(b)
  \/ \E q \in Requests, b \in Batches, arg \in BOOLEAN \cup {None} : Check(q, b, arg)

Serve(q) ==
  \/ LoadFails(q) \/ Launch(q) \/ LaunchMismatch(q)
  \/ \E id \in Ids : ReadItem(q, id)
  \/ LeaveLoop(q) \/ Finish(q) \/ FinishCancelled(q)

Work(q) ==
  \E id \in Ids :
    \/ ItemDropped(q, id)
    \/ \E outcome \in {"success", "error"} :
         ItemEnds(q, id, outcome) \/ OrphanEnds(q, id, outcome)

Next ==
  \/ Tools \/ Crash
  \/ \E q \in Requests : Serve(q) \/ Work(q) \/ SourceRaises(q) \/ Cancel(q)

Spec == Init /\ [][Next]_vars

\* Requests that have been accepted are served and every item ends.
FairSpec == Spec /\ \A q \in Requests : WF_vars(Serve(q)) /\ WF_vars(Work(q))

-----------------------------------------------------------------------------
(* Properties.                                                             *)

Count == [succeeded : Nat, errored : Nat]
Row == [status : {"pending", "running", "completed", "failed"}, dir : Dirs,
        hash : Programs, count : Count, cancelRequested : BOOLEAN]
Line == [id : Ids, outcome : {"success", "error"}, prog : Programs]

ASSUME AbsentRow == None \notin Row

\* The rows, the files of each directory and the state of each request keep
\* their types; "cancelled" is a status no row ever has.
TypeOK ==
  /\ row \in [Batches -> Row \cup {None}]
  /\ envelope \in [Dirs -> Programs \cup {None}]
  /\ log \in [Dirs -> [header : Programs \cup {None}, items : Seq(Line)]]
  /\ manifest \in [Dirs -> [batch : Batches, status : {"stopped", "completed"},
                            count : Count] \cup {None}]
  /\ rejected \in 0..MaxRejected
  /\ phase \in [Requests -> Serving \cup {"idle", "returned", "lost"}]
  /\ target \in [Requests -> Batches \cup {None}]
  /\ resume \in [Requests -> BOOLEAN]
  /\ program \in [Requests -> Programs \cup {None}]
  /\ todo \in [Requests -> SUBSET Ids]
  /\ inflight \in [Requests -> SUBSET Ids]
  /\ tally \in [Requests -> Count]
  /\ stopped \in [Requests -> BOOLEAN]

HasStatus(b, status) == row[b] # None /\ row[b].status = status

\* A row that says "completed" is backed by the log: every item of the batch
\* has a record there, whatever requests raced, died or were cancelled.
CompletedIsComplete ==
  \A b \in Batches : HasStatus(b, "completed") =>
    Ids \subseteq Recorded(log[row[b].dir].items)

\* A row that says "completed" agrees with the manifest beside the log: tasks
\* left behind by an earlier, failed request no longer reach the row.
RowMatchesManifest ==
  \A b \in Batches : HasStatus(b, "completed") =>
    manifest[row[b].dir] =
      [batch |-> b, status |-> "completed", count |-> row[b].count]

\* "Batch ... is already running": a batch is executed by at most one request
\* at a time, and its row says so for as long as it is.
OneRunner ==
  /\ \A p, q \in Requests :
       phase[p] \in Running /\ phase[q] \in Running /\ target[p] = target[q] => p = q
  /\ \A q \in Requests : phase[q] \in Running => HasStatus(target[q], "running")

\* Liveness, "wait for the prior run to finish": a row that says "running"
\* eventually stops saying so.
RunningEnds ==
  \A b \in Batches : HasStatus(b, "running") ~> ~HasStatus(b, "running")
=============================================================================
