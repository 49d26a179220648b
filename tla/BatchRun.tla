------------------------------ MODULE BatchRun ------------------------------
(***************************************************************************)
(* kaos_llm_core/programs/batch: batch_run (runner.py), the JSONL log      *)
(* writer (writer.py) and the resume scan (resume.py).                     *)
(*                                                                         *)
(* Several calls of batch_run ("runs") share one output directory, one     *)
(* after the other (resume) or, with Overlap, at the same time.  The log   *)
(* and the manifest are on disk and survive a crash; everything else       *)
(* belongs to one call and is lost with the process.  An asyncio task      *)
(* switches only at an await that suspends, so one action is the code      *)
(* between two such awaits.                                                *)
(***************************************************************************)
EXTENDS Integers, Sequences, FiniteSets

CONSTANTS
  Ids,             \* custom_ids
  Programs,        \* program hashes
  Source,          \* the custom_ids the input source yields, in order
  MaxRuns,         \* how many times batch_run is called (a bound)
  MaxConcurrency,  \* max_concurrency
  ErrorPolicy,     \* "continue", "stop" or "stop_after_n"
  MaxErrors,       \* max_errors, read only by "stop_after_n"
  ResumeModes,     \* the values callers pass as resume
  Overlap,         \* may a call start while tasks of another are alive?
  MayCrash,        \* may the process die?
  MayTear,         \* may it die in the middle of a write to the log?
  MayCancel,       \* may the caller cancel the coroutine?
  SourceMayFail,   \* may the source raise (JsonlInputSource, BatchError)?
  CallbackMayRaise \* may progress_callback raise?

ASSUME ConstantsAssumption ==
  /\ IsFiniteSet(Ids)
  /\ Source \in Seq(Ids)
  /\ MaxRuns \in Nat \ {0}
  /\ MaxConcurrency \in Nat \ {0}
  /\ ErrorPolicy \in {"continue", "stop", "stop_after_n"}
  /\ MaxErrors \in Nat
  /\ ResumeModes \subseteq BOOLEAN
  /\ {Overlap, MayCrash, MayTear, MayCancel, SourceMayFail, CallbackMayRaise}
       \subseteq BOOLEAN

Runs  == 1..MaxRuns
Items == 1..Len(Source)   \* positions in the source; one task per position

VARIABLES
  log,           \* items.jsonl: a sequence of lines
  manifest,      \* manifest.json: the set holding its content, or {}
  phase,         \* where each run's batch_run coroutine is
  prog,          \* program_hash_value
  pos,           \* n_total_seen + 1
  skip,          \* skip_set
  nSucceeded,    \* n_succeeded
  nErrored,      \* n_errored
  stopRequested, \* stop_requested
  cancelled,     \* gather() has passed a cancellation on to the tasks
  listed,        \* the list "tasks"
  task           \* where each _process_item task is

disk == <<log, manifest>>
loop == <<phase, pos, listed>>
scan == <<prog, skip>>
counts == <<nSucceeded, nErrored>>
flags == <<stopRequested, cancelled>>
vars == <<disk, loop, scan, counts, flags, task>>

-----------------------------------------------------------------------------
(* The log file.  A line that does not end in a newline can only be the    *)
(* last one; whatever is appended next becomes part of it, and the joined  *)
(* line is not JSON any more.                                              *)

HeaderLine(p) ==
  [kind |-> "header", prog |-> p, id |-> "", status |-> "", newline |-> TRUE]
ItemLine(p, id, status) ==
  [kind |-> "item", prog |-> p, id |-> id, status |-> status, newline |-> TRUE]
CorruptLine(nl) ==
  [kind |-> "corrupt", prog |-> "", id |-> "", status |-> "", newline |-> nl]

Torn(lines) == Len(lines) > 0 /\ ~lines[Len(lines)].newline

\* JsonlBatchWriter._write_record: append mode, no look at what is there.
AppendLine(lines, line) ==
  IF Torn(lines)
  THEN [lines EXCEPT ![Len(lines)] = CorruptLine(line.newline)]
  ELSE Append(lines, line)

\* What a crash inside _write_record may leave, complete writes aside.
TornAppends(lines, line) ==
  { AppendLine(lines, CorruptLine(FALSE)),
    AppendLine(lines, [line EXCEPT !.newline = FALSE]) }

\* _scan_existing_log: the item lines that still parse.
ItemLines == { k \in DOMAIN log : log[k].kind = "item" }
Recorded == { log[k].id : k \in ItemLines }
SuccessLines == { k \in ItemLines : log[k].status = "success" }
ErrorLines == { k \in ItemLines : log[k].status # "success" }
\* Mutant: only the last line is checked, as if it were the header.
ForeignLastLine(p) ==
  Len(log) > 0 /\ log[Len(log)].kind = "header" /\ log[Len(log)].prog # p
ForeignHeader(p) ==
  \E k \in DOMAIN log : log[k].kind = "header" /\ log[k].prog # p

-----------------------------------------------------------------------------
Active  == {"reading", "waiting", "draining"}
Holding == {"invoking", "reportOk", "reportErr"}   \* tasks inside "async with sem"
Alive   == Holding \cup {"created"}
Ended   == {"succeeded", "failed", "dropped"}
TaskState == Alive \cup Ended \cup {"none", "skipped", "lost"}

LiveTasks(r) == { i \in Items : task[r][i] \in Alive }
SlotsHeld(r) == { i \in Items : task[r][i] \in Holding }

Init ==
  /\ log = << >>
  /\ manifest = {}
  /\ phase = [r \in Runs |-> "idle"]
  /\ prog \in [Runs -> Programs]
  /\ pos = [r \in Runs |-> 1]
  /\ skip = [r \in Runs |-> {}]
  /\ nSucceeded = [r \in Runs |-> 0]
  /\ nErrored = [r \in Runs |-> 0]
  /\ stopRequested = [r \in Runs |-> FALSE]
  /\ cancelled = [r \in Runs |-> FALSE]
  /\ listed = [r \in Runs |-> {}]
  /\ task = [r \in Runs |-> [i \in Items |-> "none"]]

MayStart(r) ==
  /\ phase[r] = "idle"
  /\ \A q \in Runs : q < r => phase[q] # "idle"
  /\ \A q \in Runs : Overlap \/ (phase[q] \notin Active /\ LiveTasks(q) = {})

\* Mutant: a resume re-runs the items recorded as errors.
SkipSetOfSuccesses(resume) ==
  IF resume THEN { log[k].id : k \in SuccessLines } ELSE {}
SkipSet(resume) == IF resume THEN Recorded ELSE {}

\* Mutant: the resume scan does not restore the counters.
CountFromZero(lines, resume) == 0
ScanCount(lines, resume) == IF resume THEN Cardinality(lines) ELSE 0

\* Mutant: the writer truncates the file it opens.
OpenTruncating(p) == << HeaderLine(p) >>
\* JsonlBatchWriter opens in append mode; an empty file gets a header.
OpenLog(p) == IF log = << >> THEN << HeaderLine(p) >> ELSE log

\* batch_run up to its task loop.
StartRun(r, resume) ==
  /\ MayStart(r)
  /\ ~(resume /\ ForeignHeader(prog[r]))
  /\ skip' = [skip EXCEPT ![r] = SkipSet(resume)]
  /\ nSucceeded' = [nSucceeded EXCEPT ![r] = ScanCount(SuccessLines, resume)]
  /\ nErrored' = [nErrored EXCEPT ![r] = ScanCount(ErrorLines, resume)]
  /\ log' = OpenLog(prog[r])
  /\ phase' = [phase EXCEPT ![r] = "reading"]
  /\ UNCHANGED <<manifest, pos, listed, prog, flags, task>>

\* BatchResumeMismatchError: the log belongs to another program.
RefuseRun(r) ==
  /\ MayStart(r)
  /\ TRUE \in ResumeModes
  /\ ForeignHeader(prog[r])
  /\ phase' = [phase EXCEPT ![r] = "refused"]
  /\ UNCHANGED <<disk, pos, listed, scan, counts, flags, task>>

-----------------------------------------------------------------------------
(* The loop "async for item in source".                                    *)

SkipItem(r) ==
  /\ phase[r] = "reading"
  /\ pos[r] \in Items
  /\ Source[pos[r]] \in skip[r]
  /\ pos' = [pos EXCEPT ![r] = @ + 1]
  /\ task' = [task EXCEPT ![r][pos[r]] = "skipped"]
  /\ UNCHANGED <<disk, phase, listed, scan, counts, flags>>

\* Mutant: the comparison is off by one.
BacklogOver(tasks) == Cardinality(tasks) > 4 * MaxConcurrency
BacklogFull(tasks) == Cardinality(tasks) >= 4 * MaxConcurrency

CreateTask(r) ==
  /\ phase[r] = "reading"
  /\ pos[r] \in Items
  /\ Source[pos[r]] \notin skip[r]
  /\ ~stopRequested[r]
  /\ pos' = [pos EXCEPT ![r] = @ + 1]
  /\ task' = [task EXCEPT ![r][pos[r]] = "created"]
  /\ listed' = [listed EXCEPT ![r] = @ \cup {pos[r]}]
  /\ phase' = [phase EXCEPT ![r] =
                 IF BacklogFull(listed'[r]) THEN "waiting" ELSE "reading"]
  /\ UNCHANGED <<disk, scan, counts, flags>>

\* Mutant: the list keeps the tasks that are done instead of the pending ones.
ListDone(r) == { i \in listed[r] : task[r][i] \in Ended }
ListPending(r) == { i \in listed[r] : task[r][i] \notin Ended }

\* asyncio.wait(FIRST_COMPLETED) returns.
LeaveWait(r) ==
  /\ phase[r] = "waiting"
  /\ \E i \in listed[r] : task[r][i] \in Ended
  /\ listed' = [listed EXCEPT ![r] = ListPending(r)]
  /\ phase' = [phase EXCEPT ![r] = "reading"]
  /\ UNCHANGED <<disk, pos, scan, counts, flags, task>>

\* The source is exhausted, or the loop sees stop_requested.
LeaveLoop(r) ==
  /\ phase[r] = "reading"
  /\ pos[r] \in Items => Source[pos[r]] \notin skip[r] /\ stopRequested[r]
  /\ phase' = [phase EXCEPT ![r] = "draining"]
  /\ UNCHANGED <<disk, pos, listed, scan, counts, flags, task>>

\* The source raises, or batch_run is cancelled outside gather(): the
\* exception leaves batch_run and the tasks already created live on.
AbandonTasks(r) ==
  /\ \/ SourceMayFail /\ phase[r] = "reading" /\ pos[r] \in Items
     \/ MayCancel /\ phase[r] \in {"reading", "waiting"}
  /\ phase' = [phase EXCEPT ![r] = "raised"]
  /\ UNCHANGED <<disk, pos, listed, scan, counts, flags, task>>

\* batch_run is cancelled inside gather(), which cancels every pending task.
CancelDrain(r) ==
  /\ MayCancel
  /\ phase[r] = "draining"
  /\ listed[r] # {}
  /\ cancelled' = [cancelled EXCEPT ![r] = TRUE]
  /\ UNCHANGED <<disk, loop, scan, counts, stopRequested, task>>

\* Mutant: a run stopped by its error policy counts as completed.
AlwaysCompleted(r) == "completed"
FinalStatus(r) == IF stopRequested[r] THEN "stopped" ELSE "completed"

Summary(r) ==
  [status |-> FinalStatus(r), run |-> r, nTotal |-> pos[r] - 1,
   nSucceeded |-> nSucceeded[r], nErrored |-> nErrored[r],
   nSkipped |-> Cardinality(skip[r])]

\* Mutant: manifests pile up instead of replacing each other.
AddManifest(r) == manifest \cup {Summary(r)}
\* _write_manifest: written aside, then renamed over the old one.
WriteManifest(r) == {Summary(r)}

\* gather() returns, or raises CancelledError once every task has ended.
Finish(r) ==
  /\ phase[r] = "draining"
  /\ \A i \in listed[r] : task[r][i] \in Ended
  /\ IF cancelled[r]
     THEN /\ phase' = [phase EXCEPT ![r] = "raised"]
          /\ UNCHANGED manifest
     ELSE /\ phase' = [phase EXCEPT ![r] = FinalStatus(r)]
          /\ manifest' = WriteManifest(r)
  /\ UNCHANGED <<log, pos, listed, scan, counts, flags, task>>

-----------------------------------------------------------------------------
(* The task _process_item.  The semaphore is FIFO.  write_lock is never    *)
(* contended: the body it protects has no suspending await, so a record    *)
(* and the counters that go with it change in one action.                  *)

MoveTask(r, i, state) ==
  /\ task' = [task EXCEPT ![r][i] = state]
  /\ UNCHANGED <<disk, loop, scan, counts, flags>>

\* Mutant: stop_requested is not looked at again once the slot is there.
GoesOnUnchecked(r) == ~cancelled[r]
GoesOn(r) == ~stopRequested[r] /\ ~cancelled[r]

\* Mutant: a queued task does not notice stop_requested.
ReturnsIfCancelled(r) == cancelled[r]
Returns(r) == stopRequested[r] \/ cancelled[r]

\* The semaphore is obtained and stop_requested is not set.
AcquireSlot(r, i) ==
  /\ task[r][i] = "created"
  /\ \A j \in Items : j < i => task[r][j] # "created"
  /\ Cardinality(SlotsHeld(r)) < MaxConcurrency
  /\ GoesOn(r)
  /\ MoveTask(r, i, "invoking")

\* Either check of stop_requested, or the cancellation of a queued task.
DropTask(r, i) ==
  /\ task[r][i] = "created"
  /\ Returns(r)
  /\ MoveTask(r, i, "dropped")

\* The "except BaseException" branch up to its progress report.
RecordError(r, i) ==
  /\ log' = AppendLine(log, ItemLine(prog[r], Source[i], "error"))
  /\ nErrored' = [nErrored EXCEPT ![r] = @ + 1]
  /\ task' = [task EXCEPT ![r][i] = "reportErr"]
  /\ UNCHANGED <<manifest, loop, scan, nSucceeded, flags>>

InvokeSucceeds(r, i) ==
  /\ task[r][i] = "invoking"
  /\ ~cancelled[r]
  /\ log' = AppendLine(log, ItemLine(prog[r], Source[i], "success"))
  /\ nSucceeded' = [nSucceeded EXCEPT ![r] = @ + 1]
  /\ task' = [task EXCEPT ![r][i] = "reportOk"]
  /\ UNCHANGED <<manifest, loop, scan, nErrored, flags>>

\* program.invoke raises, times out or is cancelled.
InvokeFails(r, i) ==
  /\ task[r][i] = "invoking"
  /\ RecordError(r, i)

ReportSuccess(r, i) ==
  /\ task[r][i] = "reportOk"
  /\ ~cancelled[r]
  /\ MoveTask(r, i, "succeeded")

\* The progress report of a success sits inside the same try block.
ReportSuccessRaises(r, i) ==
  /\ task[r][i] = "reportOk"
  /\ CallbackMayRaise \/ cancelled[r]
  /\ RecordError(r, i)

PolicyStops(r) ==
  \/ ErrorPolicy = "stop"
  \/ ErrorPolicy = "stop_after_n" /\ nErrored[r] >= MaxErrors

ReportError(r, i) ==
  /\ task[r][i] = "reportErr"
  /\ task' = [task EXCEPT ![r][i] = "failed"]
  /\ stopRequested' = [stopRequested EXCEPT ![r] = @ \/ PolicyStops(r)]
  /\ UNCHANGED <<disk, loop, scan, counts, cancelled>>

\* The exception ends the task before it evaluates the error policy.
ReportErrorRaises(r, i) ==
  /\ task[r][i] = "reportErr"
  /\ CallbackMayRaise \/ cancelled[r]
  /\ MoveTask(r, i, "failed")

-----------------------------------------------------------------------------
(* The process dies: every call in progress and every task is lost.        *)

LoseProcess(starting) ==
  /\ phase' = [r \in Runs |-> IF phase[r] \in Active \/ r \in starting
                              THEN "crashed" ELSE phase[r]]
  /\ task' = [r \in Runs |-> [i \in Items |->
                IF task[r][i] \in Alive THEN "lost" ELSE task[r][i]]]
  /\ UNCHANGED <<manifest, pos, listed, scan, counts, flags>>

Running == \E r \in Runs : phase[r] \in Active \/ LiveTasks(r) # {}

Crash ==
  /\ MayCrash /\ Running
  /\ UNCHANGED log
  /\ LoseProcess({})

CrashWritingItem(r, i) ==
  /\ MayCrash /\ MayTear
  /\ \E status \in {"success", "error"} :
       /\ \/ task[r][i] = "invoking"
          \/ /\ task[r][i] = "reportOk" /\ status = "error"
             /\ CallbackMayRaise \/ cancelled[r]
       /\ log' \in TornAppends(log, ItemLine(prog[r], Source[i], status))
  /\ LoseProcess({})

CrashWritingHeader(r) ==
  /\ MayCrash /\ MayTear
  /\ MayStart(r) /\ log = << >>
  /\ log' \in TornAppends(log, HeaderLine(prog[r]))
  /\ LoseProcess({r})

-----------------------------------------------------------------------------
Start(r) == RefuseRun(r) \/ \E resume \in ResumeModes : StartRun(r, resume)

Loop(r) == SkipItem(r) \/ CreateTask(r) \/ LeaveWait(r) \/ LeaveLoop(r) \/ Finish(r)

Process(r, i) ==
  \/ AcquireSlot(r, i) \/ DropTask(r, i)
  \/ InvokeSucceeds(r, i) \/ InvokeFails(r, i)
  \/ ReportSuccess(r, i) \/ ReportSuccessRaises(r, i)
  \/ ReportError(r, i) \/ ReportErrorRaises(r, i)

Environment ==
  \/ Crash
  \/ \E r \in Runs : AbandonTasks(r) \/ CancelDrain(r) \/ CrashWritingHeader(r)
  \/ \E r \in Runs, i \in Items : CrashWritingItem(r, i)

Next ==
  \/ \E r \in Runs : Start(r) \/ Loop(r)
  \/ \E r \in Runs, i \in Items : Process(r, i)
  \/ Environment

Spec == Init /\ [][Next]_vars

\* The event loop runs every coroutine that can move, and every
\* program.invoke and progress report eventually returns or raises.
FairSpec ==
  /\ Spec
  /\ \A r \in Runs : WF_vars(Loop(r))
  /\ \A r \in Runs, i \in Items : WF_vars(Process(r, i))

-----------------------------------------------------------------------------
(* Properties.                                                             *)

Phase == Active \cup {"idle", "completed", "stopped", "raised", "refused", "crashed"}
Line ==
  [kind : {"header"}, prog : Programs, id : {""}, status : {""}, newline : BOOLEAN]
  \cup
  [kind : {"item"}, prog : Programs, id : Ids, status : {"success", "error"},
   newline : BOOLEAN]
  \cup
  [kind : {"corrupt"}, prog : {""}, id : {""}, status : {""}, newline : BOOLEAN]
Manifest == [status : {"completed", "stopped"}, run : Runs, nTotal : Nat,
             nSucceeded : Nat, nErrored : Nat, nSkipped : Nat]

\* Every variable of the two files and of the batch_run coroutines keeps its
\* type; counters never go below zero and at most one manifest exists.
TypeOK ==
  /\ log \in Seq(Line)
  /\ manifest \subseteq Manifest /\ \A m, n \in manifest : m = n
  /\ phase \in [Runs -> Phase]
  /\ prog \in [Runs -> Programs]
  /\ pos \in [Runs -> 1..(Len(Source) + 1)]
  /\ skip \in [Runs -> SUBSET Ids]
  /\ nSucceeded \in [Runs -> Nat]
  /\ nErrored \in [Runs -> Nat]
  /\ stopRequested \in [Runs -> BOOLEAN]
  /\ cancelled \in [Runs -> BOOLEAN]
  /\ listed \in [Runs -> SUBSET Items]
  /\ task \in [Runs -> [Items -> TaskState]]

Latest(r) ==
  /\ phase[r] \notin {"idle", "refused"}
  /\ \A q \in Runs : q > r => phase[q] \in {"idle", "refused"}

\* "n_succeeded is cumulative across the log ... items the log records as
\* successes" (tests/unit/test_batch_resume.py, test_batch_run.py): whatever
\* crashes, cancellations and raising callbacks lie between the runs, the
\* counters of the latest run are the counts of the file.
CountersMatchLog ==
  \A r \in Runs : Latest(r) =>
    /\ nSucceeded[r] = Cardinality(SuccessLines)
    /\ nErrored[r] = Cardinality(ErrorLines)

\* A program is never invoked (and paid) for an item the log already holds:
\* the skip set, read once at the start, cannot be stale when a slot is
\* obtained much later.
NoRepeatedSpend ==
  [][ \A r \in Runs, i \in Items :
        task[r][i] # "invoking" /\ task'[r][i] = "invoking"
          => Source[i] \notin Recorded ]_vars

\* Resuming never mixes the results of two programs in one log.
SingleProgramLog ==
  \A k, l \in ItemLines : log[k].prog = log[l].prog

\* A manifest that says "completed" is on disk only when the log holds a
\* record for every item of the source, in whichever run it was made.
ManifestHonest ==
  \A m \in manifest : m.status = "completed" =>
    \A i \in Items : Source[i] \in Recorded

\* The errors this run has recorded (scanned ones not counted).
ErrorsOf(r) == { i \in Items : task[r][i] \in {"reportErr", "failed"} }
ErrorLimit == IF ErrorPolicy = "stop" \/ MaxErrors = 0 THEN 1 ELSE MaxErrors

\* The money-safety valve: with "stop" or "stop_after_n" a run overshoots its
\* error limit by less than the number of items that were in flight.
ErrorOvershoot ==
  ErrorPolicy # "continue" =>
    \A r \in Runs :
      Cardinality(ErrorsOf(r)) <= ErrorLimit - 1 + MaxConcurrency

\* Why it holds.  Every recorded error sits in an item that still holds its
\* slot or has evaluated the policy; while nothing stopped the run the latter
\* are below the limit, and once it is stopped no item obtains a slot.
Failed(r) == { i \in Items : task[r][i] = "failed" }
ValveInv(r) ==
  /\ Cardinality(SlotsHeld(r)) <= MaxConcurrency
  /\ Cardinality(ErrorsOf(r)) <= nErrored[r]
  /\ IF stopRequested[r] \/ cancelled[r]
     THEN Cardinality(Failed(r) \cup SlotsHeld(r)) <= ErrorLimit - 1 + MaxConcurrency
     ELSE Cardinality(Failed(r)) <= ErrorLimit - 1
  /\ phase[r] = "idle" => \A i \in Items : task[r][i] = "none"

ValveInvariant == ErrorPolicy # "continue" => \A r \in Runs : ValveInv(r)

\* batch_run that returns a result has no task left: nothing is invoked or
\* written on its behalf once the manifest is there.
NothingOutlivesResult ==
  \A r \in Runs : phase[r] \in {"completed", "stopped"} => LiveTasks(r) = {}

\* The run implements BatchLedger: the log decides each item's outcome.
Outcome(id) ==
  IF id \in { log[k].id : k \in SuccessLines } THEN "success"
  ELSE IF id \in Recorded THEN "error" ELSE "missing"
Ledger == INSTANCE BatchLedger WITH
  Ids <- { Source[i] : i \in Items },
  outcome <- [id \in { Source[i] : i \in Items } |-> Outcome(id)],
  announced <- \E m \in manifest : m.status = "completed"

\* At most one outcome per item over any sequence of runs, crashes and
\* resumes; outcomes never change; "completed" only when all are there.
LedgerSpec == Ledger!Spec

\* Back-pressure: however long the source, at most 4 * max_concurrency tasks
\* exist at a time.
BoundedBacklog ==
  \A r \in Runs : Cardinality(LiveTasks(r)) <= 4 * MaxConcurrency

\* Bytes another run may depend on stay: a complete line is never changed.
LinesAreForever ==
  [][ \A k \in DOMAIN log : log[k].newline =>
        k \in DOMAIN log' /\ log'[k] = log[k] ]_vars

\* Liveness: a run that has started ends (returns, raises or crashes): the
\* semaphore, the back-pressure wait and the drain never wait on each other.
EveryRunEnds ==
  \A r \in Runs : phase[r] \in Active ~> phase[r] \notin Active

-----------------------------------------------------------------------------
(* What comments and docstrings say and the code does not do.              *)

\* writer.py: "Crash-safe to the last completed item": an item whose record
\* has been written and flushed is one the next resume scan finds.
CompletedIsRecorded ==
  \A r \in Runs, i \in Items : task[r][i] = "reportOk" => Source[i] \in Recorded

-----------------------------------------------------------------------------
(* The sources of the runs: a configuration file has no sequences.         *)

Source2 == <<"a", "b">>
Source3 == <<"a", "b", "c">>
Source6 == <<"a", "b", "c", "d", "e", "f">>
=============================================================================
