--------------------------- MODULE BatchRunProofs ---------------------------
(***************************************************************************)
(* Theorems about BatchRun for every source, every number of runs, every   *)
(* concurrency and every fault, in three parts: one run (types, and the    *)
(* bound on the errors recorded past the limit of the error policy); what  *)
(* runs leave on disk and in their counters (back-pressure, complete       *)
(* lines, honest manifests, the programs of a log that is resumed); and    *)
(* runs that follow one another in one output directory (the counters of   *)
(* the latest are those of the file, no item of the log is invoked again,  *)
(* and the whole sequence implements BatchLedger).                         *)
(***************************************************************************)
EXTENDS BatchRun, FiniteSetTheorems, SequenceTheorems, TLAPS

LEMMA ItemsFinite ==
  /\ IsFiniteSet(Items)
  /\ \A S \in SUBSET Items : IsFiniteSet(S) /\ Cardinality(S) \in Nat
<1>1. Len(Source) \in Nat
  BY ConstantsAssumption
<1>2. IsFiniteSet(Items)
  BY <1>1, FS_Interval DEF Items
<1>3. ASSUME NEW S \in SUBSET Items
      PROVE  IsFiniteSet(S) /\ Cardinality(S) \in Nat
  <2>1. IsFiniteSet(S)
    BY <1>2, FS_Subset
  <2>2. QED BY <2>1, FS_CardinalityType
<1>4. QED BY <1>2, <1>3

LEMMA SourceType == \A i \in Items : Source[i] \in Ids
BY ConstantsAssumption DEF Items

LEMMA AppendLineType ==
  ASSUME NEW lines \in Seq(Line), NEW line \in Line
  PROVE  AppendLine(lines, line) \in Seq(Line)
<1>1. CorruptLine(line.newline) \in Line
  BY DEF CorruptLine, Line
<1>2. CASE Torn(lines)
  <2>1. Len(lines) \in Nat /\ Len(lines) > 0
    BY <1>2 DEF Torn
  <2>2. QED BY <1>1, <1>2, <2>1 DEF AppendLine
<1>3. CASE ~Torn(lines)
  BY <1>3 DEF AppendLine
<1>4. QED BY <1>2, <1>3

LEMMA LineTypes ==
  /\ \A p \in Programs : HeaderLine(p) \in Line
  /\ \A p \in Programs, id \in Ids, s \in {"success", "error"} : ItemLine(p, id, s) \in Line
  /\ \A nl \in BOOLEAN : CorruptLine(nl) \in Line
BY DEF HeaderLine, ItemLine, CorruptLine, Line

LEMMA TornAppendsType ==
  ASSUME NEW lines \in Seq(Line), NEW line \in Line
  PROVE  TornAppends(lines, line) \subseteq Seq(Line)
<1>1. [line EXCEPT !.newline = FALSE] \in Line
  BY DEF Line
<1>2. CorruptLine(FALSE) \in Line
  BY LineTypes
<1>3. QED BY <1>1, <1>2, AppendLineType DEF TornAppends

\* What the resume scan reads from the log has the type of what it is assigned to.
LEMMA ScanTypes ==
  ASSUME log \in Seq(Line)
  PROVE  /\ Cardinality(SuccessLines) \in Nat
         /\ Cardinality(ErrorLines) \in Nat
<1>1. IsFiniteSet(DOMAIN log)
  BY FS_Interval, Len(log) \in Nat, DOMAIN log = 1..Len(log)
<1>2. IsFiniteSet(SuccessLines) /\ IsFiniteSet(ErrorLines)
  BY <1>1, FS_Subset DEF SuccessLines, ErrorLines, ItemLines
<1>3. QED BY <1>2, FS_CardinalityType

LEMMA RecordedType ==
  ASSUME log \in Seq(Line)
  PROVE  Recorded \subseteq Ids
<1>1. \A k \in DOMAIN log : log[k] \in Line
  OBVIOUS
<1>2. \A k \in DOMAIN log : log[k].kind = "item" => log[k].id \in Ids
  BY <1>1 DEF Line
<1>3. QED BY <1>2 DEF Recorded, ItemLines

-----------------------------------------------------------------------------
(* Type correctness.                                                       *)

LEMMA InitType == Init => TypeOK
<1>1. 1 \in 1..(Len(Source) + 1)
  BY ConstantsAssumption
<1>2. QED
  BY <1>1 DEF Init, TypeOK, Phase, Active, TaskState, Alive, Holding, Ended

LEMMA LoseProcessType ==
  ASSUME TypeOK, NEW starting, LoseProcess(starting), log' \in Seq(Line)
  PROVE  TypeOK'
<1>1. phase' \in [Runs -> Phase]
  BY DEF LoseProcess, TypeOK, Phase
<1>2. task' \in [Runs -> [Items -> TaskState]]
  BY DEF LoseProcess, TypeOK, TaskState
<1>3. QED
  BY <1>1, <1>2 DEF LoseProcess, TypeOK, scan, counts, flags

LEMMA RecordType ==
  ASSUME TypeOK, NEW r \in Runs, NEW i \in Items, NEW s \in {"success", "error"}
  PROVE  /\ AppendLine(log, ItemLine(prog[r], Source[i], s)) \in Seq(Line)
         /\ TornAppends(log, ItemLine(prog[r], Source[i], s)) \subseteq Seq(Line)
<1>1. ItemLine(prog[r], Source[i], s) \in Line
  BY SourceType, LineTypes DEF TypeOK
<1>2. QED BY <1>1, AppendLineType, TornAppendsType DEF TypeOK

\* One step of the batch_run coroutine.
LEMMA CoroutineType ==
  ASSUME TypeOK, NEW r \in Runs,
         Start(r) \/ Loop(r) \/ AbandonTasks(r) \/ CancelDrain(r)
  PROVE  TypeOK'
<1> USE DEF TypeOK, disk, loop, scan, counts, flags, Phase, Active, TaskState,
            Ended, Alive
<1>1. ASSUME NEW resume \in ResumeModes, StartRun(r, resume) PROVE TypeOK'
  <2>1. OpenLog(prog[r]) \in Seq(Line)
    BY LineTypes DEF OpenLog
  <2>2. SkipSet(resume) \in SUBSET Ids
    BY RecordedType DEF SkipSet
  <2>3. ScanCount(SuccessLines, resume) \in Nat /\ ScanCount(ErrorLines, resume) \in Nat
    BY ScanTypes DEF ScanCount
  <2>4. QED BY <1>1, <2>1, <2>2, <2>3 DEF StartRun
<1>2. CASE RefuseRun(r)
  BY <1>2 DEF RefuseRun
<1>3. CASE SkipItem(r)
  BY <1>3, ConstantsAssumption DEF SkipItem, Items
<1>4. CASE CreateTask(r)
  BY <1>4, ConstantsAssumption DEF CreateTask, Items
<1>5. CASE LeaveWait(r)
  BY <1>5 DEF LeaveWait, ListPending
<1>6. CASE LeaveLoop(r)
  BY <1>6 DEF LeaveLoop
<1>7. CASE Finish(r)
  <2>1. Cardinality(skip[r]) \in Nat
    BY ConstantsAssumption, FS_Subset, FS_CardinalityType
  <2>2. Summary(r) \in Manifest
    BY <2>1, ConstantsAssumption DEF Summary, Manifest, FinalStatus
  <2>3. QED BY <1>7, <2>2 DEF Finish, WriteManifest, FinalStatus
<1>8. CASE AbandonTasks(r)
  BY <1>8 DEF AbandonTasks
<1>9. CASE CancelDrain(r)
  BY <1>9 DEF CancelDrain
<1>10. QED
  BY <1>1, <1>2, <1>3, <1>4, <1>5, <1>6, <1>7, <1>8, <1>9 DEF Start, Loop

\* One step of a _process_item task.
LEMMA TaskType ==
  ASSUME TypeOK, NEW r \in Runs, NEW i \in Items, Process(r, i)
  PROVE  TypeOK'
<1> USE DEF TypeOK, disk, loop, scan, counts, flags, TaskState, Alive, Holding, Ended
<1>1. ASSUME NEW s \in TaskState, MoveTask(r, i, s) PROVE TypeOK'
  BY <1>1 DEF MoveTask
<1>2. CASE RecordError(r, i)
  BY <1>2, RecordType DEF RecordError
<1>3. CASE InvokeSucceeds(r, i)
  BY <1>3, RecordType DEF InvokeSucceeds
<1>4. CASE ReportError(r, i)
  BY <1>4 DEF ReportError, PolicyStops
<1>5. QED
  BY <1>1, <1>2, <1>3, <1>4
     DEF Process, AcquireSlot, DropTask, InvokeFails, ReportSuccess,
         ReportSuccessRaises, ReportErrorRaises

LEMMA CrashType ==
  ASSUME TypeOK,
         \/ Crash
         \/ \E r \in Runs : CrashWritingHeader(r)
         \/ \E r \in Runs, i \in Items : CrashWritingItem(r, i)
  PROVE  TypeOK'
<1>1. CASE Crash
  BY <1>1, LoseProcessType DEF Crash, TypeOK
<1>2. ASSUME NEW r \in Runs, CrashWritingHeader(r) PROVE TypeOK'
  <2>1. HeaderLine(prog[r]) \in Line
    BY LineTypes DEF TypeOK
  <2>2. log' \in Seq(Line)
    BY <1>2, <2>1, TornAppendsType DEF CrashWritingHeader, TypeOK
  <2>3. QED BY <1>2, <2>2, LoseProcessType DEF CrashWritingHeader
<1>3. ASSUME NEW r \in Runs, NEW i \in Items, CrashWritingItem(r, i) PROVE TypeOK'
  <2>1. log' \in Seq(Line)
    BY <1>3, RecordType DEF CrashWritingItem
  <2>2. QED BY <1>3, <2>1, LoseProcessType DEF CrashWritingItem
<1>4. QED BY <1>1, <1>2, <1>3

\* Every reachable state is well typed, under every fault the constants allow.
THEOREM TypeCorrectness == Spec => []TypeOK
<1>1. TypeOK /\ [Next]_vars => TypeOK'
  <2> SUFFICES ASSUME TypeOK, [Next]_vars PROVE TypeOK'
    OBVIOUS
  <2>1. CASE UNCHANGED vars
    BY <2>1 DEF TypeOK, vars, disk, loop, scan, counts, flags
  <2>2. CASE Next
    BY <2>2, CoroutineType, TaskType, CrashType DEF Next, Environment
  <2>3. QED BY <2>1, <2>2
<1>2. QED BY InitType, <1>1, PTL DEF Spec

-----------------------------------------------------------------------------
(* The money-safety valve.  A call whose progress callback does not raise  *)
(* records at most ErrorLimit - 1 + MaxConcurrency errors.                 *)

LEMMA TaskSets ==
  ASSUME NEW r \in Runs
  PROVE  /\ IsFiniteSet(SlotsHeld(r)) /\ Cardinality(SlotsHeld(r)) \in Nat
         /\ IsFiniteSet(ErrorsOf(r)) /\ Cardinality(ErrorsOf(r)) \in Nat
         /\ IsFiniteSet(Failed(r)) /\ Cardinality(Failed(r)) \in Nat
         /\ IsFiniteSet(Failed(r) \cup SlotsHeld(r))
         /\ Cardinality(Failed(r) \cup SlotsHeld(r)) \in Nat
BY ItemsFinite DEF SlotsHeld, ErrorsOf, Failed

LEMMA TaskSetsNext ==
  ASSUME NEW r \in Runs
  PROVE  /\ Cardinality(SlotsHeld(r)') \in Nat
         /\ Cardinality(ErrorsOf(r)') \in Nat
         /\ IsFiniteSet(Failed(r)') /\ Cardinality(Failed(r)') \in Nat
         /\ Cardinality((Failed(r) \cup SlotsHeld(r))') \in Nat
BY ItemsFinite DEF SlotsHeld, ErrorsOf, Failed

LEMMA LimitType == ErrorLimit \in Nat /\ ErrorLimit >= 1 /\ MaxConcurrency \in Nat
BY ConstantsAssumption DEF ErrorLimit

\* The items that failed and those in flight together, when the run has not stopped.
LEMMA FailedOrHeld ==
  ASSUME NEW r \in Runs
  PROVE  Cardinality(Failed(r) \cup SlotsHeld(r))
           <= Cardinality(Failed(r)) + Cardinality(SlotsHeld(r))
<1>1. Failed(r) \cap SlotsHeld(r) = {}
  BY DEF Failed, SlotsHeld, Holding
<1>2. Cardinality(Failed(r) \cap SlotsHeld(r)) = 0
  BY <1>1, FS_EmptySet
<1>3. Cardinality(Failed(r) \cup SlotsHeld(r)) = Cardinality(Failed(r))
        + Cardinality(SlotsHeld(r)) - Cardinality(Failed(r) \cap SlotsHeld(r))
  BY TaskSets, FS_Union
<1>4. Cardinality(Failed(r)) \in Nat /\ Cardinality(SlotsHeld(r)) \in Nat
  BY TaskSets
<1>5. QED BY <1>2, <1>3, <1>4

LEMMA ValveHeld ==
  ASSUME NEW r \in Runs, ValveInv(r)
  PROVE  Cardinality(Failed(r) \cup SlotsHeld(r)) <= ErrorLimit - 1 + MaxConcurrency
BY FailedOrHeld, TaskSets, LimitType DEF ValveInv

\* A step under which the three sets of a run only lose elements.
LEMMA ShrinkStep ==
  ASSUME NEW r \in Runs, ValveInv(r),
         SlotsHeld(r)' \subseteq SlotsHeld(r),
         ErrorsOf(r)' \subseteq ErrorsOf(r),
         Failed(r)' \subseteq Failed(r),
         nErrored[r] \in Nat, nErrored'[r] = nErrored[r],
         stopRequested'[r] = stopRequested[r],
         cancelled'[r] = cancelled[r],
         phase'[r] = "idle" => \A i \in Items : task'[r][i] = "none"
  PROVE  ValveInv(r)'
<1>1. /\ Cardinality(SlotsHeld(r)') <= Cardinality(SlotsHeld(r))
      /\ Cardinality(ErrorsOf(r)') <= Cardinality(ErrorsOf(r))
      /\ Cardinality(Failed(r)') <= Cardinality(Failed(r))
      /\ Cardinality((Failed(r) \cup SlotsHeld(r))')
           <= Cardinality(Failed(r) \cup SlotsHeld(r))
  BY TaskSets, FS_Subset
<1> DEFINE h == Cardinality(SlotsHeld(r))  hn == Cardinality(SlotsHeld(r)')
           e == Cardinality(ErrorsOf(r))   en == Cardinality(ErrorsOf(r)')
           f == Cardinality(Failed(r))     fn == Cardinality(Failed(r)')
<1>n. {h, hn, e, en, f, fn} \subseteq Nat /\ MaxConcurrency \in Nat /\ ErrorLimit \in Nat
  BY TaskSets, TaskSetsNext, LimitType
<1>2. hn <= MaxConcurrency /\ en <= nErrored'[r]
  BY <1>1, <1>n DEF ValveInv
<1>3. CASE stopRequested[r] \/ cancelled[r]
  <2>1. Cardinality((Failed(r) \cup SlotsHeld(r))') <= ErrorLimit - 1 + MaxConcurrency
    BY <1>1, <1>3, TaskSets, TaskSetsNext, LimitType DEF ValveInv
  <2>2. QED BY <1>2, <1>3, <2>1 DEF ValveInv
<1>4. CASE ~(stopRequested[r] \/ cancelled[r])
  <2>1. fn <= ErrorLimit - 1
    BY <1>1, <1>n, <1>4 DEF ValveInv
  <2>2. QED BY <1>2, <1>4, <2>1 DEF ValveInv
<1>5. QED BY <1>3, <1>4

\* Runs that do not take the step.
LEMMA OtherRun ==
  ASSUME NEW q \in Runs, ValveInv(q),
         nErrored'[q] = nErrored[q], stopRequested'[q] = stopRequested[q],
         cancelled'[q] = cancelled[q], phase'[q] = phase[q], task'[q] = task[q]
  PROVE  ValveInv(q)'
BY DEF ValveInv, SlotsHeld, ErrorsOf, Failed

LEMMA CoroutineValve ==
  ASSUME TypeOK, \A q \in Runs : ValveInv(q), NEW r \in Runs,
         Start(r) \/ Loop(r) \/ AbandonTasks(r) \/ CancelDrain(r)
  PROVE  \A q \in Runs : ValveInv(q)'
<1> SUFFICES ASSUME NEW q \in Runs PROVE ValveInv(q)'
  OBVIOUS
<1> USE DEF TypeOK, disk, loop, scan, counts, flags
<1>1. ASSUME NEW resume \in ResumeModes, StartRun(r, resume) PROVE ValveInv(q)'
  <2>1. CASE q # r
    BY <1>1, <2>1, OtherRun DEF StartRun
  <2>2. CASE q = r
    <3>1. /\ nErrored'[r] \in Nat /\ phase'[r] = "reading" /\ task' = task
          /\ stopRequested' = stopRequested /\ cancelled' = cancelled
      BY <1>1, ScanTypes DEF StartRun, ScanCount
    <3>2. \A i \in Items : task[r][i] = "none"
      BY <1>1 DEF StartRun, MayStart, ValveInv
    <3>3. SlotsHeld(r)' = {} /\ ErrorsOf(r)' = {} /\ Failed(r)' = {}
      BY <3>1, <3>2 DEF SlotsHeld, ErrorsOf, Failed, Holding
    <3>4. {} \cup {} = {} /\ Cardinality({}) = 0
      BY FS_EmptySet
    <3>5. Failed(r)' \cup SlotsHeld(r)' = {}
      BY <3>3
    <3>6. QED BY <2>2, <3>1, <3>3, <3>4, <3>5, LimitType DEF ValveInv
  <2>3. QED BY <2>1, <2>2
<1>2. ASSUME \/ RefuseRun(r) \/ LeaveWait(r) \/ LeaveLoop(r) \/ Finish(r)
             \/ AbandonTasks(r)
      PROVE  ValveInv(q)'
  <2>1. /\ task' = task /\ nErrored' = nErrored /\ stopRequested' = stopRequested
        /\ cancelled' = cancelled /\ phase'[r] # "idle"
        /\ q # r => phase'[q] = phase[q]
    BY <1>2 DEF RefuseRun, LeaveWait, LeaveLoop, Finish, AbandonTasks, FinalStatus
  <2>2. CASE q # r
    BY <2>1, <2>2, OtherRun
  <2>3. CASE q = r
    BY <2>1, <2>3, ShrinkStep DEF SlotsHeld, ErrorsOf, Failed
  <2>4. QED BY <2>2, <2>3
<1>3. ASSUME SkipItem(r) \/ CreateTask(r) PROVE ValveInv(q)'
  <2>1. PICK s \in {"skipped", "created"} :
          /\ task' = [task EXCEPT ![r][pos[r]] = s]
          /\ nErrored' = nErrored /\ stopRequested' = stopRequested
          /\ cancelled' = cancelled /\ phase'[r] # "idle"
          /\ q # r => phase'[q] = phase[q]
    BY <1>3 DEF SkipItem, CreateTask
  <2>2. CASE q # r
    BY <2>1, <2>2, OtherRun
  <2>3. CASE q = r
    <3>1. \A i \in Items : task'[r][i] = task[r][i] \/ task'[r][i] \in {"skipped", "created"}
      BY <2>1
    <3>2. /\ SlotsHeld(r)' \subseteq SlotsHeld(r)
          /\ ErrorsOf(r)' \subseteq ErrorsOf(r)
          /\ Failed(r)' \subseteq Failed(r)
      BY <3>1 DEF SlotsHeld, ErrorsOf, Failed, Holding
    <3>3. QED BY <2>1, <2>3, <3>2, ShrinkStep
  <2>4. QED BY <2>2, <2>3
<1>4. CASE CancelDrain(r)
  <2>1. /\ task' = task /\ nErrored' = nErrored /\ stopRequested' = stopRequested
        /\ phase' = phase /\ cancelled'[r] = TRUE
        /\ q # r => cancelled'[q] = cancelled[q]
    BY <1>4 DEF CancelDrain
  <2>2. CASE q # r
    BY <2>1, <2>2, OtherRun
  <2>3. CASE q = r
    <3>1. /\ SlotsHeld(r)' = SlotsHeld(r) /\ ErrorsOf(r)' = ErrorsOf(r)
          /\ Failed(r)' = Failed(r)
      BY <2>1 DEF SlotsHeld, ErrorsOf, Failed
    <3>2. Cardinality(Failed(r) \cup SlotsHeld(r)) <= ErrorLimit - 1 + MaxConcurrency
      BY ValveHeld
    <3>3. QED BY <2>1, <2>3, <3>1, <3>2 DEF ValveInv
  <2>4. QED BY <2>2, <2>3
<1>5. QED BY <1>1, <1>2, <1>3, <1>4 DEF Start, Loop

\* The task of item i of run r moves on; nothing else about the run changes
\* but, perhaps, nErrored and stopRequested.
LEMMA TaskValve ==
  ASSUME TypeOK, \A q \in Runs : ValveInv(q), ErrorPolicy # "continue",
         CallbackMayRaise = FALSE, NEW r \in Runs, NEW i \in Items, Process(r, i)
  PROVE  \A q \in Runs : ValveInv(q)'
<1> SUFFICES ASSUME NEW q \in Runs PROVE ValveInv(q)'
  OBVIOUS
<1> USE DEF TypeOK, disk, loop, scan, counts, flags
<1>1. ASSUME q # r PROVE ValveInv(q)'
  <2>1. /\ task'[q] = task[q] /\ nErrored'[q] = nErrored[q]
        /\ stopRequested'[q] = stopRequested[q] /\ cancelled'[q] = cancelled[q]
        /\ phase'[q] = phase[q]
    BY <1>1 DEF Process, AcquireSlot, DropTask, InvokeSucceeds, InvokeFails,
         ReportSuccess, ReportSuccessRaises, ReportError, ReportErrorRaises,
         RecordError, MoveTask
  <2>2. QED BY <2>1, OtherRun
<1> SUFFICES ValveInv(r)'
  BY <1>1
<1> DEFINE held == SlotsHeld(r)  errs == ErrorsOf(r)  bad == Failed(r)
<1>2. {Cardinality(held), Cardinality(errs), Cardinality(bad), Cardinality(bad \cup held)}
        \subseteq Nat
  BY TaskSets
<1>3. IsFiniteSet(held) /\ IsFiniteSet(errs) /\ IsFiniteSet(bad)
  BY TaskSets
<1>4. ErrorLimit \in Nat /\ ErrorLimit >= 1 /\ MaxConcurrency \in Nat /\ nErrored[r] \in Nat
  BY LimitType
<1>5. phase'[r] # "idle"
  BY DEF Process, AcquireSlot, DropTask, InvokeSucceeds, InvokeFails,
         ReportSuccess, ReportSuccessRaises, ReportError, ReportErrorRaises,
         RecordError, MoveTask, ValveInv
<1>6. ASSUME DropTask(r, i) \/ ReportSuccess(r, i) PROVE ValveInv(r)'
  <2>1. \A j \in Items : task'[r][j] = task[r][j] \/ task'[r][j] \in {"dropped", "succeeded"}
    BY <1>6 DEF DropTask, ReportSuccess, MoveTask
  <2>2. held' \subseteq held /\ errs' \subseteq errs /\ bad' \subseteq bad
    BY <2>1 DEF SlotsHeld, ErrorsOf, Failed, Holding
  <2>3. QED BY <1>5, <1>6, <2>2, ShrinkStep DEF DropTask, ReportSuccess, MoveTask
<1>7. CASE InvokeSucceeds(r, i)
  <2>1. \A j \in Items : \/ task'[r][j] = task[r][j]
                         \/ task[r][j] = "invoking" /\ task'[r][j] = "reportOk"
    BY <1>7 DEF InvokeSucceeds
  <2>2. held' = held /\ errs' \subseteq errs /\ bad' \subseteq bad
    BY <2>1 DEF SlotsHeld, ErrorsOf, Failed, Holding
  <2>3. QED BY <1>5, <1>7, <2>2, ShrinkStep DEF InvokeSucceeds
<1>8. CASE AcquireSlot(r, i)
  <2>1. /\ \A j \in Items \ {i} : task'[r][j] = task[r][j]
        /\ task[r][i] = "created" /\ task'[r][i] = "invoking"
    BY <1>8 DEF AcquireSlot, MoveTask
  <2>2. held' = held \cup {i} /\ errs' = errs /\ bad' = bad
    BY <2>1 DEF SlotsHeld, ErrorsOf, Failed, Holding
  <2>3. Cardinality(held') <= Cardinality(held) + 1
    <3>1. Cardinality(held \cup {i})
            = IF i \in held THEN Cardinality(held) ELSE Cardinality(held) + 1
      BY <1>3, FS_AddElement
    <3>2. Cardinality(held) \in Nat
      BY <1>2
    <3>3. QED BY <2>2, <3>1, <3>2
  <2>4. Cardinality(held') \in Nat
    BY TaskSetsNext
  <2>5. /\ Cardinality(held) < MaxConcurrency
        /\ ~stopRequested[r] /\ ~cancelled[r]
        /\ stopRequested' = stopRequested /\ cancelled' = cancelled
        /\ nErrored' = nErrored
    BY <1>8 DEF AcquireSlot, GoesOn, MoveTask
  <2>6. Cardinality(held') <= MaxConcurrency
    BY <1>2, <1>4, <2>3, <2>4, <2>5
  <2>7. QED BY <1>5, <2>2, <2>5, <2>6 DEF ValveInv
<1>9. ASSUME RecordError(r, i), task[r][i] \in {"invoking", "reportOk"} PROVE ValveInv(r)'
  <2>1. /\ \A j \in Items \ {i} : task'[r][j] = task[r][j]
        /\ task'[r][i] = "reportErr"
    BY <1>9 DEF RecordError
  <2>2. held' = held /\ errs' = errs \cup {i} /\ bad' = bad
    BY <2>1, <1>9 DEF SlotsHeld, ErrorsOf, Failed, Holding
  <2>3. Cardinality(errs') <= Cardinality(errs) + 1
    <3>1. Cardinality(errs \cup {i})
            = IF i \in errs THEN Cardinality(errs) ELSE Cardinality(errs) + 1
      BY <1>3, FS_AddElement
    <3>2. Cardinality(errs) \in Nat
      BY <1>2
    <3>3. QED BY <2>2, <3>1, <3>2
  <2>4. Cardinality(errs') \in Nat
    BY TaskSetsNext
  <2>5. /\ nErrored'[r] = nErrored[r] + 1
        /\ stopRequested' = stopRequested /\ cancelled' = cancelled
    BY <1>9 DEF RecordError
  <2>6. Cardinality(errs) <= nErrored[r]
    BY DEF ValveInv
  <2>7. Cardinality(errs') <= nErrored'[r]
    BY <1>2, <1>4, <2>3, <2>4, <2>5, <2>6
  <2>8. QED BY <1>5, <2>2, <2>5, <2>7 DEF ValveInv
<1>10. ASSUME ReportError(r, i) \/ ReportErrorRaises(r, i) PROVE ValveInv(r)'
  <2>1. /\ \A j \in Items \ {i} : task'[r][j] = task[r][j]
        /\ task[r][i] = "reportErr" /\ task'[r][i] = "failed"
    BY <1>10 DEF ReportError, ReportErrorRaises, MoveTask
  <2>2. /\ held' = held \ {i} /\ errs' = errs /\ bad' = bad \cup {i} /\ i \in held
        /\ i \in errs /\ bad \subseteq errs
    BY <2>1 DEF SlotsHeld, ErrorsOf, Failed, Holding
  <2>3. bad' \cup held' = bad \cup held
    BY <2>2
  <2>4. /\ nErrored' = nErrored /\ cancelled' = cancelled
        /\ stopRequested[r] => stopRequested'[r]
    BY <1>10 DEF ReportError, ReportErrorRaises, MoveTask
  <2>5. Cardinality(held') <= Cardinality(held) /\ Cardinality(held') \in Nat
    BY <2>2, <1>2, <1>3, FS_Subset, TaskSetsNext
  <2>6. Cardinality(held') <= MaxConcurrency
    BY <1>2, <1>4, <2>5 DEF ValveInv
  <2>7. Cardinality(bad \cup held) <= ErrorLimit - 1 + MaxConcurrency
    BY ValveHeld
  <2>8. ASSUME ~stopRequested'[r], ~cancelled'[r]
        PROVE  Cardinality(bad') <= ErrorLimit - 1
    <3>1. ReportError(r, i) /\ ~PolicyStops(r)
      BY <1>10, <2>4, <2>8 DEF ReportError, ReportErrorRaises
    <3>2. nErrored[r] < MaxErrors /\ ErrorPolicy = "stop_after_n" /\ MaxErrors \in Nat
      BY <3>1, <1>4, ConstantsAssumption DEF PolicyStops
    <3>3. ErrorLimit = MaxErrors
      BY <3>2, <1>4 DEF ErrorLimit
    <3>4. bad' \subseteq errs
      BY <2>2
    <3>5. Cardinality(bad') <= Cardinality(errs) /\ Cardinality(bad') \in Nat
      BY <3>4, <1>3, FS_Subset, TaskSetsNext
    <3>6. Cardinality(errs) <= nErrored[r]
      BY DEF ValveInv
    <3>7. QED BY <3>2, <3>3, <3>5, <3>6, <1>2, <1>4
  <2>9. QED BY <1>5, <2>2, <2>3, <2>4, <2>6, <2>7, <2>8 DEF ValveInv
<1>11. QED
  BY <1>6, <1>7, <1>8, <1>9, <1>10
     DEF Process, InvokeFails, ReportSuccessRaises

LEMMA CrashValve ==
  ASSUME TypeOK, \A q \in Runs : ValveInv(q), NEW starting, LoseProcess(starting)
  PROVE  \A q \in Runs : ValveInv(q)'
<1> SUFFICES ASSUME NEW q \in Runs PROVE ValveInv(q)'
  OBVIOUS
<1>1. \A i \in Items : task'[q][i] = task[q][i] \/ task'[q][i] = "lost"
  BY DEF LoseProcess
<1>2. /\ SlotsHeld(q)' \subseteq SlotsHeld(q) /\ ErrorsOf(q)' \subseteq ErrorsOf(q)
      /\ Failed(q)' \subseteq Failed(q)
  BY <1>1 DEF SlotsHeld, ErrorsOf, Failed, Holding
<1>3. phase'[q] = "idle" => \A i \in Items : task'[q][i] = "none"
  BY DEF LoseProcess, ValveInv, Alive, Holding
<1>4. QED
  BY <1>2, <1>3, ShrinkStep DEF LoseProcess, TypeOK, counts, flags

LEMMA InitValve == Init => \A r \in Runs : ValveInv(r)
<1> SUFFICES ASSUME Init, NEW r \in Runs PROVE ValveInv(r)
  OBVIOUS
<1>1. SlotsHeld(r) = {} /\ ErrorsOf(r) = {} /\ Failed(r) = {}
  BY DEF Init, SlotsHeld, ErrorsOf, Failed, Holding
<1>2. Cardinality({}) = 0
  BY FS_EmptySet
<1>3. QED BY <1>1, <1>2, LimitType DEF Init, ValveInv

\* The inductive invariant behind the bound, for every source, concurrency,
\* number of runs and error policy.
THEOREM ValveInvariantHolds ==
  ASSUME CallbackMayRaise = FALSE
  PROVE  Spec => []ValveInvariant
<1> USE DEF ValveInvariant
<1>1. Init => ValveInvariant
  BY InitValve
<1>2. TypeOK /\ ValveInvariant /\ [Next]_vars => ValveInvariant'
  <2> SUFFICES ASSUME TypeOK, ErrorPolicy # "continue", \A r \in Runs : ValveInv(r),
                      [Next]_vars
               PROVE  \A r \in Runs : ValveInv(r)'
    OBVIOUS
  <2>1. CASE UNCHANGED vars
    BY <2>1, OtherRun DEF vars, disk, loop, scan, counts, flags
  <2>2. CASE Next
    BY <2>2, CoroutineValve, TaskValve, CrashValve
       DEF Next, Environment, Crash, CrashWritingHeader, CrashWritingItem
  <2>3. QED BY <2>1, <2>2
<1>3. QED BY TypeCorrectness, <1>1, <1>2, PTL DEF Spec

\* A run overshoots the error limit of its policy by less than its
\* concurrency, as long as no progress callback raises.
THEOREM OvershootBounded ==
  ASSUME CallbackMayRaise = FALSE
  PROVE  Spec => []ErrorOvershoot
<1>1. ValveInvariant => ErrorOvershoot
  <2> SUFFICES ASSUME NEW r \in Runs, ValveInv(r)
               PROVE  Cardinality(ErrorsOf(r)) <= ErrorLimit - 1 + MaxConcurrency
    BY DEF ValveInvariant, ErrorOvershoot
  <2>1. ErrorsOf(r) \subseteq Failed(r) \cup SlotsHeld(r)
    BY DEF ErrorsOf, Failed, SlotsHeld, Holding
  <2>2. Cardinality(ErrorsOf(r)) <= Cardinality(Failed(r) \cup SlotsHeld(r))
    BY <2>1, TaskSets, FS_Subset
  <2>3. Cardinality(ErrorsOf(r)) \in Nat /\ Cardinality(Failed(r) \cup SlotsHeld(r)) \in Nat
    BY TaskSets
  <2>4. QED BY <2>2, <2>3, ValveHeld, LimitType
<1>2. QED BY <1>1, ValveInvariantHolds, PTL

-----------------------------------------------------------------------------
(* What runs leave on disk and in their counters: first, what a step of    *)
(* one coroutine or task leaves alone.                                     *)

\* A task only moves among the states of a task that was created.
LEMMA TaskStep ==
  ASSUME TypeOK, NEW r \in Runs, NEW i \in Items, Process(r, i)
  PROVE  /\ task[r][i] \in Alive
         /\ task'[r][i] \in Alive \cup Ended
         /\ task'[r][i] # "created"
         /\ \A j \in Items : j # i => task'[r][j] = task[r][j]
         /\ \A q \in Runs : q # r =>
              /\ task'[q] = task[q]
              /\ nSucceeded'[q] = nSucceeded[q] /\ nErrored'[q] = nErrored[q]
              /\ stopRequested'[q] = stopRequested[q]
         /\ UNCHANGED <<manifest, loop, scan, cancelled>>
<1> USE DEF TypeOK, disk, counts, flags, Alive, Holding, Ended
<1>1. ASSUME NEW s \in Ended \cup {"invoking"}, task[r][i] \in Alive, MoveTask(r, i, s)
      PROVE  /\ task'[r][i] \in Alive \cup Ended
             /\ task'[r][i] # "created"
             /\ \A j \in Items : j # i => task'[r][j] = task[r][j]
             /\ \A q \in Runs : q # r =>
                  /\ task'[q] = task[q]
                  /\ nSucceeded'[q] = nSucceeded[q] /\ nErrored'[q] = nErrored[q]
                  /\ stopRequested'[q] = stopRequested[q]
             /\ UNCHANGED <<manifest, loop, scan, cancelled>>
  BY <1>1 DEF MoveTask
<1>2. CASE AcquireSlot(r, i) \/ DropTask(r, i) \/ ReportSuccess(r, i) \/ ReportErrorRaises(r, i)
  BY <1>1, <1>2 DEF AcquireSlot, DropTask, ReportSuccess, ReportErrorRaises
<1>3. CASE InvokeSucceeds(r, i)
  BY <1>3 DEF InvokeSucceeds
<1>4. CASE InvokeFails(r, i) \/ ReportSuccessRaises(r, i)
  BY <1>4 DEF InvokeFails, ReportSuccessRaises, RecordError
<1>5. CASE ReportError(r, i)
  BY <1>5 DEF ReportError
<1>6. QED
  BY <1>2, <1>3, <1>4, <1>5 DEF Process

\* The coroutine of a run touches nothing of another run.
LEMMA CoroutineStep ==
  ASSUME TypeOK, NEW r \in Runs,
         Start(r) \/ Loop(r) \/ AbandonTasks(r) \/ CancelDrain(r),
         NEW q \in Runs, q # r
  PROVE  /\ phase'[q] = phase[q] /\ pos'[q] = pos[q] /\ listed'[q] = listed[q]
         /\ prog' = prog /\ skip'[q] = skip[q] /\ task'[q] = task[q]
         /\ nSucceeded'[q] = nSucceeded[q] /\ nErrored'[q] = nErrored[q]
         /\ stopRequested'[q] = stopRequested[q] /\ cancelled'[q] = cancelled[q]
BY DEF TypeOK, Start, Loop, StartRun, RefuseRun, SkipItem, CreateTask, LeaveWait,
       LeaveLoop, Finish, AbandonTasks, CancelDrain, disk, loop, scan, counts, flags

\* A crash leaves no task alive and no coroutine running.
LEMMA CrashStep ==
  ASSUME TypeOK, NEW starting, LoseProcess(starting), NEW r \in Runs
  PROVE  /\ LiveTasks(r)' = {}
         /\ phase'[r] \notin Active
         /\ phase'[r] = "idle" => phase[r] = "idle"
         /\ phase'[r] # "crashed" => phase'[r] = phase[r]
         /\ \A i \in Items : task'[r][i] = task[r][i] \/ task'[r][i] = "lost"
BY DEF LoseProcess, LiveTasks, Active, Alive, Holding, TypeOK

-----------------------------------------------------------------------------
(* Back-pressure: the tasks of a run are in its list, and the list is      *)
(* bounded because the loop stops reading when it is full.                 *)

Backlog(r) ==
  /\ LiveTasks(r) \subseteq listed[r]
  /\ Cardinality(listed[r]) <= 4 * MaxConcurrency
  /\ phase[r] = "reading" => Cardinality(listed[r]) < 4 * MaxConcurrency
  /\ phase[r] = "idle" => listed[r] = {}
  /\ phase[r] \in {"completed", "stopped"} => LiveTasks(r) = {}

BacklogInvariant == \A r \in Runs : Backlog(r)

LEMMA BacklogUnchanged ==
  ASSUME NEW r \in Runs, Backlog(r), LiveTasks(r)' \subseteq LiveTasks(r),
         listed'[r] = listed[r],
         phase'[r] = phase[r] \/ phase'[r] \in {"refused", "draining", "raised", "crashed"}
  PROVE  Backlog(r)'
BY DEF Backlog

LEMMA CoroutineBacklog ==
  ASSUME TypeOK, NEW r \in Runs, Backlog(r),
         Start(r) \/ Loop(r) \/ AbandonTasks(r) \/ CancelDrain(r)
  PROVE  Backlog(r)'
<1> DEFINE n == Cardinality(listed[r])
<1>n. n \in Nat /\ IsFiniteSet(listed[r]) /\ MaxConcurrency \in Nat \ {0} /\ listed[r] \subseteq Items
  BY ItemsFinite, ConstantsAssumption DEF TypeOK
<1> USE DEF TypeOK, loop, Active
<1>1. ASSUME NEW resume \in ResumeModes, StartRun(r, resume) PROVE Backlog(r)'
  <2>1. listed[r] = {} /\ Cardinality({}) = 0
    BY <1>1, FS_EmptySet DEF StartRun, MayStart, Backlog
  <2>2. LiveTasks(r)' = LiveTasks(r) /\ listed'[r] = listed[r] /\ phase'[r] = "reading"
    BY <1>1 DEF StartRun, LiveTasks
  <2>3. QED BY <1>n, <2>1, <2>2 DEF Backlog
<1>2. CASE RefuseRun(r) \/ LeaveLoop(r) \/ AbandonTasks(r) \/ CancelDrain(r)
  <2>1. LiveTasks(r)' = LiveTasks(r) /\ listed'[r] = listed[r]
    BY <1>2 DEF RefuseRun, LeaveLoop, AbandonTasks, CancelDrain, LiveTasks
  <2>2. phase'[r] = phase[r] \/ phase'[r] \in {"refused", "draining", "raised"}
    BY <1>2 DEF RefuseRun, LeaveLoop, AbandonTasks, CancelDrain
  <2>3. QED BY <2>1, <2>2, BacklogUnchanged
<1>3. CASE SkipItem(r)
  <2>1. LiveTasks(r)' \subseteq LiveTasks(r) /\ listed'[r] = listed[r] /\ phase'[r] = phase[r]
    BY <1>3 DEF SkipItem, LiveTasks, Alive, Holding
  <2>2. QED BY <2>1, BacklogUnchanged
<1>4. CASE CreateTask(r)
  <2>1. /\ listed'[r] = listed[r] \cup {pos[r]} /\ pos[r] \in Items
        /\ phase[r] = "reading" /\ phase'[r] \in {"reading", "waiting"}
        /\ phase'[r] = "reading" => ~(Cardinality(listed'[r]) >= 4 * MaxConcurrency)
    BY <1>4 DEF CreateTask, BacklogFull
  <2>2. LiveTasks(r)' \subseteq LiveTasks(r) \cup {pos[r]}
    BY <1>4 DEF CreateTask, LiveTasks
  <2>3. Cardinality(listed'[r]) <= n + 1 /\ Cardinality(listed'[r]) \in Nat
    <3>1. Cardinality(listed[r] \cup {pos[r]}) = IF pos[r] \in listed[r] THEN n ELSE n + 1
      BY <1>n, FS_AddElement
    <3>2. QED BY <1>n, <2>1, <3>1
  <2>4. n < 4 * MaxConcurrency
    BY <2>1 DEF Backlog
  <2>5. Cardinality(listed'[r]) <= 4 * MaxConcurrency
    BY <1>n, <2>3, <2>4
  <2>6. LiveTasks(r)' \subseteq listed'[r]
    BY <2>1, <2>2 DEF Backlog
  <2>7. phase'[r] = "reading" => Cardinality(listed'[r]) < 4 * MaxConcurrency
    BY <1>n, <2>1, <2>3
  <2>8. QED BY <2>1, <2>5, <2>6, <2>7 DEF Backlog
<1>5. CASE LeaveWait(r)
  <2>1. PICK i \in listed[r] : task[r][i] \in Ended
    BY <1>5 DEF LeaveWait
  <2>2. listed'[r] \subseteq listed[r] \ {i} /\ phase'[r] = "reading" /\ task' = task
    BY <1>5, <2>1 DEF LeaveWait, ListPending
  <2>3. Cardinality(listed[r] \ {i}) = n - 1
    <3>1. ASSUME NEW S, IsFiniteSet(S), NEW x \in S
          PROVE  Cardinality(S \ {x}) = Cardinality(S) - 1
      BY <3>1, FS_RemoveElement
    <3>2. QED BY <1>n, <2>1, <3>1
  <2>4. IsFiniteSet(listed[r] \ {i})
    BY <1>n, FS_Subset
  <2>5. Cardinality(listed'[r]) <= n - 1 /\ Cardinality(listed'[r]) \in Nat
    BY <2>2, <2>3, <2>4, FS_Subset, FS_CardinalityType
  <2>6. n <= 4 * MaxConcurrency
    BY DEF Backlog
  <2>7. LiveTasks(r)' \subseteq listed'[r]
    BY <1>5, <2>2 DEF LeaveWait, ListPending, LiveTasks, Backlog, Alive, Holding, Ended
  <2>8. Cardinality(listed'[r]) < 4 * MaxConcurrency
    BY <1>n, <2>5, <2>6
  <2>9. Cardinality(listed'[r]) <= 4 * MaxConcurrency
    BY <1>n, <2>5, <2>8
  <2>10. QED BY <2>2, <2>7, <2>8, <2>9 DEF Backlog
<1>6. CASE Finish(r)
  <2>1. LiveTasks(r) = {} /\ task' = task /\ listed' = listed
    BY <1>6 DEF Finish, Backlog, LiveTasks, Alive, Holding, Ended
  <2>2. phase'[r] \in {"raised", "stopped", "completed"}
    BY <1>6 DEF Finish, FinalStatus
  <2>3. LiveTasks(r)' = {}
    BY <2>1 DEF LiveTasks
  <2>4. QED BY <2>1, <2>2, <2>3 DEF Backlog
<1>7. QED
  BY <1>1, <1>2, <1>3, <1>4, <1>5, <1>6 DEF Start, Loop

LEMMA BacklogNext ==
  ASSUME TypeOK, BacklogInvariant, [Next]_vars
  PROVE  BacklogInvariant'
<1> SUFFICES ASSUME NEW q \in Runs PROVE Backlog(q)'
  BY DEF BacklogInvariant
<1>q. Backlog(q)
  BY DEF BacklogInvariant
<1>1. CASE UNCHANGED vars
  BY <1>1, <1>q, BacklogUnchanged DEF vars, disk, loop, LiveTasks
<1>2. ASSUME NEW r \in Runs, Start(r) \/ Loop(r) \/ AbandonTasks(r) \/ CancelDrain(r)
      PROVE  Backlog(q)'
  <2>1. CASE q = r
    BY <1>2, <1>q, <2>1, CoroutineBacklog
  <2>2. CASE q # r
    <3>1. listed'[q] = listed[q] /\ phase'[q] = phase[q] /\ task'[q] = task[q]
      BY <1>2, <2>2, CoroutineStep
    <3>2. QED BY <1>q, <3>1, BacklogUnchanged DEF LiveTasks
  <2>3. QED BY <2>1, <2>2
<1>3. ASSUME NEW r \in Runs, NEW i \in Items, Process(r, i) PROVE Backlog(q)'
  <2>1. UNCHANGED loop /\ LiveTasks(q)' \subseteq LiveTasks(q)
    BY <1>3, TaskStep DEF LiveTasks
  <2>2. QED BY <1>q, <2>1, BacklogUnchanged DEF loop
<1>4. ASSUME NEW starting, LoseProcess(starting) PROVE Backlog(q)'
  <2>1. LiveTasks(q)' = {} /\ listed' = listed
    BY <1>4, CrashStep DEF LoseProcess
  <2>2. phase'[q] = phase[q] \/ phase'[q] = "crashed"
    BY <1>4, CrashStep
  <2>3. QED BY <1>q, <2>1, <2>2, BacklogUnchanged
<1>5. QED
  BY <1>1, <1>2, <1>3, <1>4
     DEF Next, Environment, Crash, CrashWritingHeader, CrashWritingItem

\* The list "tasks" of a run holds every task that is alive, and is below its
\* bound whenever the loop reads on (runner.py, the loop and its wait).
THEOREM BacklogInvariantHolds == Spec => []BacklogInvariant
<1>1. Init => BacklogInvariant
  BY FS_EmptySet, ConstantsAssumption
     DEF Init, BacklogInvariant, Backlog, LiveTasks, Alive, Holding
<1>2. QED BY <1>1, BacklogNext, TypeCorrectness, PTL DEF Spec

\* The backlog of a run never exceeds four times its concurrency, whatever the
\* length of the source (runner.py, the wait on FIRST_COMPLETED).
THEOREM BoundedBacklogHolds == Spec => []BoundedBacklog
<1>1. TypeOK /\ BacklogInvariant => BoundedBacklog
  <2> SUFFICES ASSUME TypeOK, NEW r \in Runs, Backlog(r)
               PROVE  Cardinality(LiveTasks(r)) <= 4 * MaxConcurrency
    BY DEF BacklogInvariant, BoundedBacklog
  <2>1. IsFiniteSet(listed[r]) /\ Cardinality(listed[r]) \in Nat
    BY ItemsFinite DEF TypeOK
  <2>2. Cardinality(LiveTasks(r)) <= Cardinality(listed[r]) /\ Cardinality(LiveTasks(r)) \in Nat
    BY <2>1, FS_Subset, FS_CardinalityType DEF Backlog
  <2>3. QED BY <2>1, <2>2, ConstantsAssumption DEF Backlog
<1>2. QED BY <1>1, TypeCorrectness, BacklogInvariantHolds, PTL

\* A batch_run that has returned its result has no task left to spend money.
THEOREM NothingOutlivesResultHolds == Spec => []NothingOutlivesResult
<1>1. BacklogInvariant => NothingOutlivesResult
  BY DEF BacklogInvariant, Backlog, NothingOutlivesResult
<1>2. QED BY <1>1, BacklogInvariantHolds, PTL

-----------------------------------------------------------------------------
(* The log.  A complete line is never changed; what a step adds is at most *)
(* one line.                                                               *)

LEMMA AppendLineKeeps ==
  ASSUME NEW lines \in Seq(Line), NEW line \in Line
  PROVE  /\ \A k \in DOMAIN lines : lines[k].newline =>
              k \in DOMAIN AppendLine(lines, line) /\ AppendLine(lines, line)[k] = lines[k]
         /\ \A k \in DOMAIN AppendLine(lines, line) :
              \/ k \in DOMAIN lines /\ AppendLine(lines, line)[k] = lines[k]
              \/ AppendLine(lines, line)[k] = line
              \/ AppendLine(lines, line)[k].kind = "corrupt"
<1>1. CASE Torn(lines)
  <2>1. Len(lines) \in Nat /\ Len(lines) > 0 /\ ~lines[Len(lines)].newline
    BY <1>1 DEF Torn
  <2>2. AppendLine(lines, line) = [lines EXCEPT ![Len(lines)] = CorruptLine(line.newline)]
    BY <1>1 DEF AppendLine
  <2>3. CorruptLine(line.newline).kind = "corrupt"
    BY DEF CorruptLine
  <2>4. /\ DOMAIN AppendLine(lines, line) = DOMAIN lines
        /\ \A k \in DOMAIN lines : k # Len(lines) => AppendLine(lines, line)[k] = lines[k]
        /\ Len(lines) \in DOMAIN lines =>
             AppendLine(lines, line)[Len(lines)] = CorruptLine(line.newline)
    BY <2>2
  <2>5. QED BY <2>1, <2>3, <2>4
<1>2. CASE ~Torn(lines)
  <2>1. AppendLine(lines, line) = Append(lines, line)
    BY <1>2 DEF AppendLine
  <2>2. QED BY <2>1, AppendProperties
<1>3. QED BY <1>1, <1>2

\* A torn write leaves the complete lines, and nothing that is not part of it.
LEMMA TornAppendKeeps ==
  ASSUME NEW lines \in Seq(Line), NEW line \in Line, NEW torn \in TornAppends(lines, line)
  PROVE  /\ \A k \in DOMAIN lines : lines[k].newline =>
              k \in DOMAIN torn /\ torn[k] = lines[k]
         /\ \A k \in DOMAIN torn :
              \/ k \in DOMAIN lines /\ torn[k] = lines[k]
              \/ torn[k].kind = line.kind /\ torn[k].id = line.id
              \/ torn[k].kind = "corrupt"
<1>1. [line EXCEPT !.newline = FALSE] \in Line /\ CorruptLine(FALSE) \in Line
  BY LineTypes DEF Line
<1>2. \/ torn = AppendLine(lines, CorruptLine(FALSE))
      \/ torn = AppendLine(lines, [line EXCEPT !.newline = FALSE])
  BY DEF TornAppends
<1>3. CASE torn = AppendLine(lines, CorruptLine(FALSE))
  <2>1. CorruptLine(FALSE).kind = "corrupt"
    BY DEF CorruptLine
  <2>2. QED BY <1>1, <1>3, <2>1, AppendLineKeeps
<1>4. CASE torn = AppendLine(lines, [line EXCEPT !.newline = FALSE])
  <2>1. /\ [line EXCEPT !.newline = FALSE].kind = line.kind
        /\ [line EXCEPT !.newline = FALSE].id = line.id
    BY DEF Line
  <2>2. QED BY <1>1, <1>4, <2>1, AppendLineKeeps
<1>5. QED BY <1>2, <1>3, <1>4

\* What one step may do to the log.
Opens == log = << >> /\ \E p \in Programs : log' = << HeaderLine(p) >>
Records(r, i, status) ==
  /\ task[r][i] \in {"invoking", "reportOk"}
  /\ log' = AppendLine(log, ItemLine(prog[r], Source[i], status))
TearsItem(r, i, status) ==
  /\ MayTear
  /\ task[r][i] \in {"invoking", "reportOk"}
  /\ log' \in TornAppends(log, ItemLine(prog[r], Source[i], status))
TearsHeader(r) ==
  MayTear /\ log = << >> /\ log' \in TornAppends(log, HeaderLine(prog[r]))

LEMMA TaskLogStep ==
  ASSUME TypeOK, NEW r \in Runs, NEW i \in Items, Process(r, i)
  PROVE  log' = log \/ \E s \in {"success", "error"} : Records(r, i, s)
<1>1. CASE AcquireSlot(r, i) \/ DropTask(r, i) \/ ReportSuccess(r, i)
           \/ ReportError(r, i) \/ ReportErrorRaises(r, i)
  BY <1>1 DEF AcquireSlot, DropTask, ReportSuccess, ReportError, ReportErrorRaises,
              MoveTask, disk
<1>2. CASE InvokeSucceeds(r, i)
  BY <1>2 DEF InvokeSucceeds, Records
<1>3. CASE InvokeFails(r, i) \/ ReportSuccessRaises(r, i)
  BY <1>3 DEF InvokeFails, ReportSuccessRaises, RecordError, Records
<1>4. QED BY <1>1, <1>2, <1>3 DEF Process

LEMMA CoroutineLogStep ==
  ASSUME TypeOK, NEW r \in Runs, Start(r) \/ Loop(r) \/ AbandonTasks(r) \/ CancelDrain(r)
  PROVE  log' = log \/ Opens
BY DEF Start, StartRun, RefuseRun, OpenLog, Opens, Loop, SkipItem, CreateTask, LeaveWait,
       LeaveLoop, Finish, AbandonTasks, CancelDrain, disk, TypeOK

LEMMA LogStep ==
  ASSUME TypeOK, [Next]_vars
  PROVE  \/ log' = log
         \/ Opens
         \/ \E r \in Runs, i \in Items, s \in {"success", "error"} :
              Process(r, i) /\ Records(r, i, s)
         \/ \E r \in Runs, i \in Items, s \in {"success", "error"} :
              CrashWritingItem(r, i) /\ TearsItem(r, i, s)
         \/ \E r \in Runs : CrashWritingHeader(r) /\ TearsHeader(r)
<1>1. CASE UNCHANGED vars
  BY <1>1 DEF vars, disk
<1>2. ASSUME NEW r \in Runs, Start(r) \/ Loop(r) \/ AbandonTasks(r) \/ CancelDrain(r)
      PROVE  log' = log \/ Opens
  BY <1>2, CoroutineLogStep
<1>3. ASSUME NEW r \in Runs, NEW i \in Items, Process(r, i)
      PROVE  log' = log \/ \E s \in {"success", "error"} : Records(r, i, s)
  BY <1>3, TaskLogStep
<1>4. CASE Crash
  BY <1>4 DEF Crash
<1>5. ASSUME NEW r \in Runs, CrashWritingHeader(r) PROVE TearsHeader(r)
  BY <1>5 DEF CrashWritingHeader, TearsHeader
<1>6. ASSUME NEW r \in Runs, NEW i \in Items, CrashWritingItem(r, i)
      PROVE  \E s \in {"success", "error"} : TearsItem(r, i, s)
  BY <1>6 DEF CrashWritingItem, TearsItem
<1>7. QED
  BY <1>1, <1>2, <1>3, <1>4, <1>5, <1>6 DEF Next, Environment

\* A complete line of the log stays as it is for ever, under every fault.
THEOREM LinesAreForeverHolds == Spec => LinesAreForever
<1>1. ASSUME TypeOK, [Next]_vars, NEW k \in DOMAIN log, log[k].newline
      PROVE  k \in DOMAIN log' /\ log'[k] = log[k]
  <2>1. log \in Seq(Line)
    BY <1>1 DEF TypeOK
  <2>2. CASE log' = log
    BY <2>2
  <2>3. CASE log = << >>
    BY <1>1, <2>3
  <2>4. ASSUME NEW r \in Runs, NEW i \in Items, NEW s \in {"success", "error"},
               \/ log' = AppendLine(log, ItemLine(prog[r], Source[i], s))
               \/ log' \in TornAppends(log, ItemLine(prog[r], Source[i], s))
        PROVE  k \in DOMAIN log' /\ log'[k] = log[k]
    <3>1. ItemLine(prog[r], Source[i], s) \in Line
      BY <1>1, SourceType, LineTypes DEF TypeOK
    <3>2. QED BY <1>1, <2>1, <2>4, <3>1, AppendLineKeeps, TornAppendKeeps
  <2>5. QED
    BY <1>1, <2>2, <2>3, <2>4, LogStep DEF Opens, Records, TearsItem, TearsHeader
<1>2. TypeOK /\ [Next]_vars =>
        [\A k \in DOMAIN log : log[k].newline => k \in DOMAIN log' /\ log'[k] = log[k]]_vars
  BY <1>1
<1>3. QED BY <1>2, TypeCorrectness, PTL DEF Spec, LinesAreForever
-----------------------------------------------------------------------------
(* Where the loop is: every position before it has a task, none after it.  *)

LoopInv(r) ==
  /\ phase[r] \in {"idle", "refused"} => pos[r] = 1
  /\ \A i \in Items : i >= pos[r] <=> task[r][i] = "none"
  /\ phase[r] = "draining" => pos[r] \notin Items \/ stopRequested[r]
  /\ \A i \in Items : task[r][i] = "lost" => phase[r] \notin Active
  /\ \A i \in Items : task[r][i] = "dropped" => stopRequested[r] \/ cancelled[r]

LoopInvariant == \A r \in Runs : LoopInv(r)

LEMMA LoopUnchanged ==
  ASSUME NEW r \in Runs, LoopInv(r), pos'[r] = pos[r], phase'[r] = phase[r],
         task'[r] = task[r], stopRequested'[r] = stopRequested[r],
         cancelled'[r] = cancelled[r]
  PROVE  LoopInv(r)'
BY DEF LoopInv

LEMMA CoroutineLoop ==
  ASSUME TypeOK, NEW r \in Runs, LoopInv(r),
         Start(r) \/ Loop(r) \/ AbandonTasks(r) \/ CancelDrain(r)
  PROVE  LoopInv(r)'
<1> USE DEF LoopInv, TypeOK, loop, flags, Active
<1>1. CASE Start(r) \/ LeaveWait(r) \/ LeaveLoop(r) \/ AbandonTasks(r) \/ Finish(r)
  <2>1. /\ task' = task /\ pos' = pos /\ stopRequested' = stopRequested
        /\ cancelled' = cancelled
    BY <1>1 DEF Start, StartRun, RefuseRun, LeaveWait, LeaveLoop, AbandonTasks, Finish
  <2>2. CASE Start(r)
    <3>1. phase[r] = "idle" /\ phase'[r] \in {"reading", "refused"} /\ pos[r] = 1
      BY <2>2 DEF Start, StartRun, RefuseRun, MayStart
    <3>2. \A i \in Items : i >= 1
      BY ConstantsAssumption DEF Items
    <3>3. \A i \in Items : task[r][i] = "none"
      BY <3>1, <3>2
    <3>4. QED BY <2>1, <3>1, <3>3
  <2>3. CASE LeaveLoop(r)
    BY <2>1, <2>3 DEF LeaveLoop
  <2>4. CASE LeaveWait(r) \/ AbandonTasks(r) \/ Finish(r)
    BY <2>1, <2>4 DEF LeaveWait, AbandonTasks, Finish, FinalStatus
  <2>5. QED BY <1>1, <2>2, <2>3, <2>4
<1>2. CASE SkipItem(r) \/ CreateTask(r)
  <2>1. /\ pos'[r] = pos[r] + 1 /\ pos[r] \in Items /\ pos[r] \in Nat
        /\ \A i \in Items : i # pos[r] => task'[r][i] = task[r][i]
        /\ task'[r][pos[r]] \in {"skipped", "created"}
        /\ phase[r] = "reading" /\ phase'[r] \in {"reading", "waiting"}
        /\ stopRequested' = stopRequested /\ cancelled' = cancelled
    BY <1>2, ConstantsAssumption DEF SkipItem, CreateTask
  <2>2. \A i \in Items : i \in Nat
    BY ConstantsAssumption DEF Items
  <2>3. \A i \in Items : i >= pos'[r] <=> task'[r][i] = "none"
    <3> TAKE i \in Items
    <3>1. CASE i = pos[r]
      BY <2>1, <2>2, <3>1
    <3>2. CASE i # pos[r]
      <4>1. i >= pos[r] + 1 <=> i >= pos[r]
        BY <2>1, <2>2, <3>2
      <4>2. QED BY <2>1, <3>2, <4>1
    <3>3. QED BY <3>1, <3>2
  <2>4. QED BY <2>1, <2>3
<1>3. CASE CancelDrain(r)
  BY <1>3 DEF CancelDrain
<1>4. QED BY <1>1, <1>2, <1>3 DEF Loop

LEMMA TaskLoop ==
  ASSUME TypeOK, NEW r \in Runs, NEW i \in Items, LoopInv(r), Process(r, i)
  PROVE  LoopInv(r)'
<1>1. /\ task[r][i] # "none" /\ task'[r][i] \notin {"none", "lost"}
      /\ \A j \in Items : j # i => task'[r][j] = task[r][j]
      /\ phase' = phase /\ pos' = pos /\ cancelled' = cancelled
  BY TaskStep DEF Alive, Holding, Ended, loop
<1>2. stopRequested[r] => stopRequested'[r]
  BY DEF Process, AcquireSlot, DropTask, InvokeSucceeds, InvokeFails, ReportSuccess,
         ReportSuccessRaises, ReportError, ReportErrorRaises, RecordError, MoveTask, flags, TypeOK
<1>3. task'[r][i] = "dropped" => stopRequested[r] \/ cancelled[r]
  BY DEF Process, AcquireSlot, DropTask, Returns, InvokeSucceeds, InvokeFails, ReportSuccess,
         ReportSuccessRaises, ReportError, ReportErrorRaises, RecordError, MoveTask, TypeOK
<1>4. QED BY <1>1, <1>2, <1>3 DEF LoopInv

LEMMA LoopNext ==
  ASSUME TypeOK, LoopInvariant, [Next]_vars
  PROVE  LoopInvariant'
<1> SUFFICES ASSUME NEW q \in Runs PROVE LoopInv(q)'
  BY DEF LoopInvariant
<1>q. LoopInv(q)
  BY DEF LoopInvariant
<1>1. CASE UNCHANGED vars
  BY <1>1, <1>q, LoopUnchanged DEF vars, loop, flags
<1>2. ASSUME NEW r \in Runs, Start(r) \/ Loop(r) \/ AbandonTasks(r) \/ CancelDrain(r)
      PROVE  LoopInv(q)'
  <2>1. CASE q = r
    BY <1>2, <1>q, <2>1, CoroutineLoop
  <2>2. CASE q # r
    BY <1>2, <1>q, <2>2, CoroutineStep, LoopUnchanged
  <2>3. QED BY <2>1, <2>2
<1>3. ASSUME NEW r \in Runs, NEW i \in Items, Process(r, i) PROVE LoopInv(q)'
  <2>1. CASE q = r
    BY <1>3, <1>q, <2>1, TaskLoop
  <2>2. CASE q # r
    BY <1>3, <1>q, <2>2, TaskStep, LoopUnchanged DEF loop
  <2>3. QED BY <2>1, <2>2
<1>4. ASSUME NEW starting, LoseProcess(starting) PROVE LoopInv(q)'
  <2>1. /\ pos' = pos /\ stopRequested' = stopRequested /\ cancelled' = cancelled
        /\ phase'[q] \notin Active
    BY <1>4, CrashStep DEF LoseProcess, flags
  <2>2. \A i \in Items : /\ task'[q][i] = "none" <=> task[q][i] = "none"
                         /\ task'[q][i] = "dropped" => task[q][i] = "dropped"
    BY <1>4 DEF LoseProcess, Alive, Holding
  <2>3. phase'[q] \in {"idle", "refused"} => phase[q] \in {"idle", "refused"}
    BY <1>4 DEF LoseProcess
  <2>4. QED BY <1>q, <2>1, <2>2, <2>3 DEF LoopInv, Active
<1>5. QED
  BY <1>1, <1>2, <1>3, <1>4
     DEF Next, Environment, Crash, CrashWritingHeader, CrashWritingItem

LEMMA LoopInvariantHolds == Spec => []LoopInvariant
<1>1. Init => LoopInvariant
  BY ConstantsAssumption DEF Init, LoopInvariant, LoopInv, Active, Items
<1>2. QED BY <1>1, LoopNext, TypeCorrectness, PTL DEF Spec

-----------------------------------------------------------------------------
(* The log no crash tears: a header, then items only.                      *)

WholeLog ==
  \A k \in DOMAIN log :
    log[k].newline /\ log[k].kind = IF k = 1 THEN "header" ELSE "item"

Done == {"skipped", "reportOk", "reportErr", "succeeded", "failed"}

SuccessIds == { log[k].id : k \in SuccessLines }

\* What a run takes as done is in the log.
LogInv(r) ==
  /\ phase[r] \notin {"idle", "refused"} => log # << >>
  /\ skip[r] \subseteq Recorded
  /\ \A i \in Items : task[r][i] \in Done => Source[i] \in Recorded
  /\ \A i \in Items : task[r][i] \in {"reportOk", "succeeded"} => Source[i] \in SuccessIds

LogInvariant == WholeLog /\ \A r \in Runs : LogInv(r)

\* What one record changes in the sets the resume scan reads.
RecordsLine(r, i, status) ==
  /\ log' = Append(log, ItemLine(prog[r], Source[i], status))
  /\ ItemLines' = ItemLines \cup {Len(log) + 1}
  /\ Recorded' = Recorded \cup {Source[i]}
  /\ SuccessIds' = SuccessIds \cup (IF status = "success" THEN {Source[i]} ELSE {})
  /\ SuccessLines' = SuccessLines \cup (IF status = "success" THEN {Len(log) + 1} ELSE {})
  /\ ErrorLines' = ErrorLines \cup (IF status = "success" THEN {} ELSE {Len(log) + 1})

LEMMA AppendRecord ==
  ASSUME TypeOK, WholeLog, NEW r \in Runs, NEW i \in Items,
         NEW s \in {"success", "error"}, Records(r, i, s)
  PROVE  RecordsLine(r, i, s)
<1> DEFINE line == ItemLine(prog[r], Source[i], s)
           n == Len(log) + 1
<1>1. line \in Line /\ log \in Seq(Line) /\ Len(log) \in Nat
  BY SourceType, LineTypes DEF TypeOK
<1>2. log' = Append(log, line)
  BY <1>1 DEF Records, AppendLine, Torn, WholeLog
<1>3. line.kind = "item" /\ line.id = Source[i] /\ line.status = s
  BY DEF ItemLine
<1> HIDE DEF line
<1>4. /\ DOMAIN log' = DOMAIN log \cup {n} /\ n \notin DOMAIN log
      /\ \A k \in DOMAIN log : log'[k] = log[k]
      /\ log'[n] = line
  BY <1>1, <1>2, AppendProperties
<1> HIDE DEF n
<1>5. ItemLines' = ItemLines \cup {n}
  BY <1>3, <1>4 DEF ItemLines
<1>6. ItemLines \subseteq DOMAIN log
  BY DEF ItemLines
<1>7. Recorded' = Recorded \cup {Source[i]}
  BY <1>3, <1>4, <1>5, <1>6 DEF Recorded
<1>8. /\ SuccessLines' = SuccessLines \cup (IF s = "success" THEN {n} ELSE {})
      /\ ErrorLines' = ErrorLines \cup (IF s = "success" THEN {} ELSE {n})
  BY <1>3, <1>4, <1>5, <1>6 DEF SuccessLines, ErrorLines
<1>9. SuccessIds' = SuccessIds \cup (IF s = "success" THEN {Source[i]} ELSE {})
  <2>1. SuccessLines \subseteq DOMAIN log
    BY <1>6 DEF SuccessLines
  <2>2. CASE s = "success"
    BY <1>3, <1>4, <1>8, <2>1, <2>2 DEF SuccessIds
  <2>3. CASE s # "success"
    BY <1>3, <1>4, <1>8, <2>1, <2>3 DEF SuccessIds
  <2>4. QED BY <2>2, <2>3
<1>10. QED BY <1>2, <1>5, <1>7, <1>8, <1>9 DEF RecordsLine, line, n

\* A step that adds no item line leaves what the scan reads.
SameScan ==
  /\ ItemLines' = ItemLines /\ Recorded' = Recorded /\ SuccessIds' = SuccessIds
  /\ SuccessLines' = SuccessLines /\ ErrorLines' = ErrorLines

LEMMA ScanUnchanged ==
  ASSUME log' = log \/ Opens
  PROVE  SameScan
<1>1. CASE log' = log
  BY <1>1 DEF SameScan, ItemLines, Recorded, SuccessIds, SuccessLines, ErrorLines
<1>2. CASE Opens
  <2>1. ItemLines = {}
    BY <1>2 DEF Opens, ItemLines
  <2>2. PICK p \in Programs : log' = << HeaderLine(p) >>
    BY <1>2 DEF Opens
  <2>3. HeaderLine(p).kind # "item"
    BY DEF HeaderLine
  <2>4. DOMAIN log' = {1} /\ log'[1] = HeaderLine(p)
    BY <2>2
  <2>5. ItemLines' = {}
    BY <2>3, <2>4 DEF ItemLines
  <2>6. QED
    BY <2>1, <2>5 DEF SameScan, Recorded, SuccessIds, SuccessLines, ErrorLines
<1>3. QED BY <1>1, <1>2

\* Without torn writes a step opens the log, adds a whole record, or leaves it.
LEMMA WholeStep ==
  ASSUME TypeOK, LoopInvariant, LogInvariant, MayTear = FALSE, [Next]_vars
  PROVE  /\ WholeLog'
         /\ \/ (log' = log \/ Opens) /\ SameScan
            \/ \E r \in Runs, i \in Items, s \in {"success", "error"} :
                 Process(r, i) /\ Records(r, i, s) /\ RecordsLine(r, i, s)
<1>1. CASE log' = log
  BY <1>1, ScanUnchanged DEF LogInvariant, WholeLog
<1>2. CASE Opens
  <2>1. PICK p \in Programs : log' = << HeaderLine(p) >>
    BY <1>2 DEF Opens
  <2>2. HeaderLine(p).newline /\ HeaderLine(p).kind = "header"
    BY DEF HeaderLine
  <2>3. DOMAIN log' = {1} /\ log'[1] = HeaderLine(p)
    BY <2>1
  <2>4. WholeLog'
    BY <2>2, <2>3 DEF WholeLog
  <2>5. QED BY <1>2, <2>4, ScanUnchanged
<1>3. ASSUME NEW r \in Runs, NEW i \in Items, NEW s \in {"success", "error"},
             Process(r, i), Records(r, i, s)
      PROVE  WholeLog' /\ RecordsLine(r, i, s)
  <2>1. RecordsLine(r, i, s)
    BY <1>3, AppendRecord DEF LogInvariant
  <2>2. log # << >>
    <3>1. phase[r] \notin {"idle", "refused"}
      <4>1. \A j \in Items : j >= 1
        BY ConstantsAssumption DEF Items
      <4>2. task[r][i] # "none"
        BY <1>3 DEF Records
      <4>3. QED BY <4>1, <4>2 DEF LoopInvariant, LoopInv
    <3>2. QED BY <3>1 DEF LogInvariant, LogInv
  <2>3. /\ ItemLine(prog[r], Source[i], s) \in Line /\ log \in Seq(Line)
        /\ Len(log) \in Nat /\ Len(log) # 0
    BY <2>2, SourceType, LineTypes DEF TypeOK
  <2>4. /\ ItemLine(prog[r], Source[i], s).kind = "item"
        /\ ItemLine(prog[r], Source[i], s).newline
    BY DEF ItemLine
  <2>5. /\ DOMAIN log' = DOMAIN log \cup {Len(log) + 1}
        /\ \A k \in DOMAIN log : log'[k] = log[k]
        /\ log'[Len(log) + 1] = ItemLine(prog[r], Source[i], s)
    BY <2>1, <2>3, AppendProperties DEF RecordsLine
  <2>6. WholeLog'
    BY <2>3, <2>4, <2>5 DEF LogInvariant, WholeLog
  <2>7. QED BY <2>1, <2>6
<1>4. QED
  BY <1>1, <1>2, <1>3, LogStep, ScanUnchanged DEF TearsItem, TearsHeader

\* No step forgets a record.
LEMMA RecordsStay ==
  ASSUME TypeOK, LoopInvariant, LogInvariant, MayTear = FALSE, [Next]_vars
  PROVE  /\ Recorded \subseteq Recorded' /\ SuccessIds \subseteq SuccessIds'
         /\ log # << >> => log' # << >>
<1>1. CASE (log' = log \/ Opens) /\ SameScan
  BY <1>1 DEF SameScan, Opens
<1>2. ASSUME NEW r \in Runs, NEW i \in Items, NEW s \in {"success", "error"},
             RecordsLine(r, i, s)
      PROVE  /\ Recorded \subseteq Recorded' /\ SuccessIds \subseteq SuccessIds'
             /\ log' # << >>
  <2>1. ItemLine(prog[r], Source[i], s) \in Line /\ log \in Seq(Line)
    BY <1>2, SourceType, LineTypes DEF TypeOK
  <2>2. log' # << >>
    BY <1>2, <2>1, AppendProperties DEF RecordsLine
  <2>3. QED BY <1>2, <2>2 DEF RecordsLine
<1>3. QED BY <1>1, <1>2, WholeStep

LEMMA LogUnchanged ==
  ASSUME NEW r \in Runs, LogInv(r),
         Recorded \subseteq Recorded', SuccessIds \subseteq SuccessIds',
         log # << >> => log' # << >>,
         skip'[r] = skip[r],
         phase[r] \in {"idle", "refused"} => phase'[r] \in {"idle", "refused"},
         \A i \in Items : /\ task'[r][i] \in Done => task[r][i] \in Done
                          /\ task'[r][i] \in {"reportOk", "succeeded"}
                               => task[r][i] \in {"reportOk", "succeeded"}
  PROVE  LogInv(r)'
BY DEF LogInv

LEMMA CoroutineLog ==
  ASSUME TypeOK, LoopInvariant, LogInvariant, MayTear = FALSE, Next, NEW r \in Runs,
         Start(r) \/ Loop(r) \/ AbandonTasks(r) \/ CancelDrain(r)
  PROVE  LogInv(r)'
<1>q. LogInv(r)
  BY DEF LogInvariant
<1>r. /\ Recorded \subseteq Recorded' /\ SuccessIds \subseteq SuccessIds'
      /\ log # << >> => log' # << >>
  BY RecordsStay
<1> USE DEF TypeOK, loop, scan, disk
<1>1. ASSUME NEW resume \in ResumeModes, StartRun(r, resume) PROVE LogInv(r)'
  <2>1. skip'[r] \subseteq Recorded
    BY <1>1 DEF StartRun, SkipSet
  <2>2. log' # << >>
    BY <1>1 DEF StartRun, OpenLog
  <2>3. task' = task
    BY <1>1 DEF StartRun
  <2>4. QED BY <1>q, <1>r, <2>1, <2>2, <2>3 DEF LogInv
<1>2. CASE RefuseRun(r) \/ LeaveWait(r) \/ LeaveLoop(r) \/ Finish(r) \/ AbandonTasks(r)
           \/ CancelDrain(r)
  <2>1. task' = task /\ skip' = skip
    BY <1>2 DEF RefuseRun, LeaveWait, LeaveLoop, Finish, AbandonTasks, CancelDrain
  <2>2. phase[r] \in {"idle", "refused"} => phase'[r] \in {"idle", "refused"}
    BY <1>2 DEF RefuseRun, LeaveWait, LeaveLoop, Finish, AbandonTasks, CancelDrain
  <2>3. QED BY <1>q, <1>r, <2>1, <2>2, LogUnchanged
<1>3. CASE SkipItem(r)
  <2>1. /\ skip' = skip /\ phase' = phase /\ pos[r] \in Items
        /\ Source[pos[r]] \in skip[r] /\ task'[r][pos[r]] = "skipped"
        /\ \A i \in Items : i # pos[r] => task'[r][i] = task[r][i]
    BY <1>3 DEF SkipItem
  <2>2. Source[pos[r]] \in Recorded'
    BY <1>q, <1>r, <2>1 DEF LogInv
  <2>3. QED BY <1>q, <1>r, <2>1, <2>2 DEF LogInv
<1>4. CASE CreateTask(r)
  <2>1. /\ skip' = skip /\ phase[r] = "reading"
        /\ \A i \in Items : task'[r][i] = task[r][i] \/ task'[r][i] = "created"
    BY <1>4 DEF CreateTask
  <2>2. QED BY <1>q, <1>r, <2>1, LogUnchanged DEF Done
<1>5. QED
  BY <1>1, <1>2, <1>3, <1>4 DEF Start, Loop

\* A task is done only with its record in the log.
LEMMA TaskLog ==
  ASSUME TypeOK, LoopInvariant, LogInvariant, MayTear = FALSE, Next,
         NEW r \in Runs, NEW i \in Items, Process(r, i)
  PROVE  LogInv(r)'
<1>q. LogInv(r) /\ WholeLog
  BY DEF LogInvariant
<1>r. /\ Recorded \subseteq Recorded' /\ SuccessIds \subseteq SuccessIds'
      /\ log # << >> => log' # << >>
  BY RecordsStay
<1>f. /\ \A j \in Items : j # i => task'[r][j] = task[r][j]
      /\ phase' = phase /\ skip' = skip
  BY TaskStep DEF loop, scan
<1>d. SUFFICES /\ task'[r][i] \in Done => Source[i] \in Recorded'
               /\ task'[r][i] \in {"reportOk", "succeeded"} => Source[i] \in SuccessIds'
  BY <1>q, <1>r, <1>f DEF LogInv
<1> USE DEF TypeOK, Done
<1>1. CASE AcquireSlot(r, i) \/ DropTask(r, i)
  BY <1>1 DEF AcquireSlot, DropTask, MoveTask
<1>2. CASE InvokeSucceeds(r, i)
  <2>1. Records(r, i, "success")
    BY <1>2 DEF InvokeSucceeds, Records
  <2>2. RecordsLine(r, i, "success")
    BY <1>q, <2>1, AppendRecord
  <2>3. QED BY <2>2 DEF RecordsLine
<1>3. CASE InvokeFails(r, i) \/ ReportSuccessRaises(r, i)
  <2>1. Records(r, i, "error") /\ task'[r][i] = "reportErr"
    BY <1>3 DEF InvokeFails, ReportSuccessRaises, RecordError, Records
  <2>2. RecordsLine(r, i, "error")
    BY <1>q, <2>1, AppendRecord
  <2>3. QED BY <2>1, <2>2 DEF RecordsLine
<1>4. CASE ReportSuccess(r, i)
  BY <1>4, <1>q, <1>r DEF ReportSuccess, MoveTask, LogInv
<1>5. CASE ReportError(r, i) \/ ReportErrorRaises(r, i)
  BY <1>5, <1>q, <1>r DEF ReportError, ReportErrorRaises, MoveTask, LogInv
<1>6. QED
  BY <1>1, <1>2, <1>3, <1>4, <1>5 DEF Process

LEMMA LogNext ==
  ASSUME TypeOK, LoopInvariant, LogInvariant, MayTear = FALSE, [Next]_vars
  PROVE  LogInvariant'
<1>w. WholeLog'
  BY WholeStep
<1> SUFFICES ASSUME NEW q \in Runs PROVE LogInv(q)'
  BY <1>w DEF LogInvariant
<1>q. LogInv(q)
  BY DEF LogInvariant
<1>r. /\ Recorded \subseteq Recorded' /\ SuccessIds \subseteq SuccessIds'
      /\ log # << >> => log' # << >>
  BY RecordsStay
<1>1. CASE UNCHANGED vars
  BY <1>1, <1>q, <1>r, LogUnchanged DEF vars, loop, scan
<1>2. ASSUME NEW r \in Runs, Next, Start(r) \/ Loop(r) \/ AbandonTasks(r) \/ CancelDrain(r)
      PROVE  LogInv(q)'
  <2>1. CASE q = r
    BY <1>2, <2>1, CoroutineLog
  <2>2. CASE q # r
    BY <1>2, <1>q, <1>r, <2>2, CoroutineStep, LogUnchanged
  <2>3. QED BY <2>1, <2>2
<1>3. ASSUME NEW r \in Runs, NEW i \in Items, Next, Process(r, i) PROVE LogInv(q)'
  <2>1. CASE q = r
    BY <1>3, <2>1, TaskLog
  <2>2. CASE q # r
    <3>1. task'[q] = task[q] /\ phase' = phase /\ skip' = skip
      BY <1>3, <2>2, TaskStep DEF loop, scan
    <3>2. QED BY <1>q, <1>r, <3>1, LogUnchanged
  <2>3. QED BY <2>1, <2>2
<1>4. CASE Crash
  <2>1. /\ skip' = skip
        /\ phase'[q] \in {"idle", "refused"} \/ phase[q] \notin {"idle", "refused"}
        /\ \A i \in Items : task'[q][i] = task[q][i] \/ task'[q][i] = "lost"
    BY <1>4 DEF Crash, LoseProcess, scan, Active
  <2>2. QED BY <1>q, <1>r, <2>1, LogUnchanged DEF Done
<1>5. QED
  BY <1>1, <1>2, <1>3, <1>4
     DEF Next, Environment, CrashWritingHeader, CrashWritingItem

LEMMA LogInvariantHolds ==
  ASSUME MayTear = FALSE
  PROVE  Spec => []LogInvariant
<1>1. Init => LogInvariant
  BY DEF Init, LogInvariant, WholeLog, LogInv, Done
<1>2. TypeOK /\ LoopInvariant /\ LogInvariant /\ [Next]_vars => LogInvariant'
  BY LogNext
<1>3. QED BY <1>1, <1>2, TypeCorrectness, LoopInvariantHolds, PTL DEF Spec

-----------------------------------------------------------------------------
(* The manifest.                                                           *)

\* A run that drains without having been stopped or cancelled has seen every
\* item of the source to its record.
LEMMA DrainedIsRecorded ==
  ASSUME TypeOK, BacklogInvariant, LoopInvariant, LogInvariant, NEW r \in Runs,
         Finish(r), ~stopRequested[r], ~cancelled[r], NEW i \in Items
  PROVE  Source[i] \in Recorded
<1>1. phase[r] = "draining" /\ \A j \in listed[r] : task[r][j] \in Ended
  BY DEF Finish
<1>2. task[r][i] # "none"
  <2>1. pos[r] \notin Items
    BY <1>1 DEF LoopInvariant, LoopInv
  <2>2. i < pos[r]
    BY <2>1, ConstantsAssumption DEF TypeOK, Items
  <2>3. QED BY <2>2, ConstantsAssumption DEF LoopInvariant, LoopInv, TypeOK, Items
<1>3. task[r][i] \notin Alive
  BY <1>1 DEF BacklogInvariant, Backlog, LiveTasks, Alive, Holding, Ended
<1>4. task[r][i] \notin {"lost", "dropped"}
  BY <1>1 DEF LoopInvariant, LoopInv, Active
<1>5. task[r][i] \in Done
  BY <1>2, <1>3, <1>4 DEF TypeOK, TaskState, Alive, Holding, Ended, Done
<1>6. QED BY <1>5 DEF LogInvariant, LogInv

\* Only the end of a run writes the manifest.
LEMMA ManifestStep ==
  ASSUME TypeOK, [Next]_vars
  PROVE  \/ manifest' = manifest
         \/ \E r \in Runs : Finish(r) /\ ~cancelled[r] /\ manifest' = {Summary(r)}
<1>1. CASE UNCHANGED vars
  BY <1>1 DEF vars, disk
<1>2. ASSUME NEW r \in Runs, Start(r) \/ Loop(r) \/ AbandonTasks(r) \/ CancelDrain(r)
      PROVE  \/ manifest' = manifest
             \/ Finish(r) /\ ~cancelled[r] /\ manifest' = {Summary(r)}
  BY <1>2 DEF Start, StartRun, RefuseRun, Loop, SkipItem, CreateTask, LeaveWait,
              LeaveLoop, Finish, WriteManifest, AbandonTasks, CancelDrain, disk
<1>3. ASSUME NEW r \in Runs, NEW i \in Items, Process(r, i) PROVE manifest' = manifest
  BY <1>3, TaskStep
<1>4. ASSUME NEW starting, LoseProcess(starting) PROVE manifest' = manifest
  BY <1>4 DEF LoseProcess
<1>5. QED
  BY <1>1, <1>2, <1>3, <1>4
     DEF Next, Environment, Crash, CrashWritingHeader, CrashWritingItem

\* "completed" is never on disk while an item of the source has no record,
\* whichever runs crashed, were cancelled, stopped or refused before, for
\* overlapping runs too, as long as no write to the log is torn (runner.py, the
\* manifest after gather).
THEOREM ManifestHonestHolds ==
  ASSUME MayTear = FALSE
  PROVE  Spec => []ManifestHonest
<1>1. Init => ManifestHonest
  BY DEF Init, ManifestHonest
<1>2. TypeOK /\ BacklogInvariant /\ LoopInvariant /\ LogInvariant /\ ManifestHonest
        /\ [Next]_vars => ManifestHonest'
  <2> SUFFICES ASSUME TypeOK, BacklogInvariant, LoopInvariant, LogInvariant,
                      ManifestHonest, [Next]_vars,
                      NEW m \in manifest', m.status = "completed", NEW i \in Items
               PROVE  Source[i] \in Recorded'
    BY DEF ManifestHonest
  <2>1. Recorded \subseteq Recorded'
    BY RecordsStay
  <2>2. CASE manifest' = manifest
    BY <2>1, <2>2 DEF ManifestHonest
  <2>3. ASSUME NEW r \in Runs, Finish(r), ~cancelled[r], manifest' = {Summary(r)}
        PROVE  Source[i] \in Recorded'
    <3>1. ~stopRequested[r]
      BY <2>3 DEF Summary, FinalStatus
    <3>2. QED BY <2>1, <2>3, <3>1, DrainedIsRecorded
  <2>4. QED BY <2>2, <2>3, ManifestStep
<1>3. QED
  BY <1>1, <1>2, TypeCorrectness, BacklogInvariantHolds, LoopInvariantHolds,
     LogInvariantHolds, PTL DEF Spec
-----------------------------------------------------------------------------
(* The programs of the log.                                                *)

Started(r) == phase[r] \notin {"idle", "refused"}

\* The log belongs to the program of its header, and so does whoever works on it.
ProgramInvariant ==
  /\ \A k \in DOMAIN log : log[k].prog = log[1].prog
  /\ \A r \in Runs : Started(r) => prog[r] = log[1].prog

\* A resuming run that is not refused has the program of the header.
LEMMA StartProgram ==
  ASSUME TypeOK, LogInvariant, ProgramInvariant, NEW r \in Runs, StartRun(r, TRUE)
  PROVE  ProgramInvariant'
<1>1. /\ prog' = prog /\ log' = OpenLog(prog[r])
      /\ \A q \in Runs : q # r => phase'[q] = phase[q]
  BY DEF StartRun, TypeOK
<1>2. CASE log = << >>
  <2>1. \A q \in Runs : ~Started(q)
    BY <1>2 DEF LogInvariant, LogInv, Started
  <2>2. \A q \in Runs : q # r => ~Started(q)'
    BY <1>1, <2>1 DEF Started
  <2>3. log' = << HeaderLine(prog[r]) >>
    BY <1>1, <1>2 DEF OpenLog
  <2>4. HeaderLine(prog[r]).prog = prog[r]
    BY DEF HeaderLine
  <2>5. DOMAIN log' = {1} /\ log'[1] = HeaderLine(prog[r])
    BY <2>3
  <2>6. QED BY <1>1, <2>2, <2>4, <2>5 DEF ProgramInvariant
<1>3. CASE log # << >>
  <2>1. log' = log
    BY <1>1, <1>3 DEF OpenLog
  <2>2. 1 \in DOMAIN log /\ log[1].kind = "header"
    BY <1>3 DEF LogInvariant, WholeLog, TypeOK
  <2>3. prog[r] = log[1].prog
    BY <2>2 DEF StartRun, ForeignHeader
  <2>4. \A q \in Runs : q # r /\ Started(q)' => Started(q)
    BY <1>1 DEF Started
  <2>5. QED BY <1>1, <2>1, <2>3, <2>4 DEF ProgramInvariant
<1>4. QED BY <1>2, <1>3

LEMMA RecordProgram ==
  ASSUME TypeOK, LoopInvariant, LogInvariant, ProgramInvariant, NEW r \in Runs,
         NEW i \in Items, NEW s \in {"success", "error"}, Process(r, i), Records(r, i, s)
  PROVE  ProgramInvariant'
<1>1. Started(r)
  <2>1. \A j \in Items : j >= 1
    BY ConstantsAssumption DEF Items
  <2>2. task[r][i] # "none"
    BY DEF Records
  <2>3. QED BY <2>1, <2>2 DEF LoopInvariant, LoopInv, Started
<1>2. ItemLine(prog[r], Source[i], s).prog = log[1].prog
  BY <1>1 DEF ProgramInvariant, ItemLine
<1>3. /\ ItemLine(prog[r], Source[i], s) \in Line /\ log \in Seq(Line) /\ log # << >>
  BY <1>1, SourceType, LineTypes DEF TypeOK, LogInvariant, LogInv, Started
<1>4. log' = Append(log, ItemLine(prog[r], Source[i], s))
  BY AppendRecord DEF LogInvariant, RecordsLine
<1>5. /\ DOMAIN log' = DOMAIN log \cup {Len(log) + 1}
      /\ \A k \in DOMAIN log : log'[k] = log[k]
      /\ log'[Len(log) + 1] = ItemLine(prog[r], Source[i], s)
      /\ 1 \in DOMAIN log
  BY <1>3, <1>4, AppendProperties
<1>6. \A k \in DOMAIN log' : log'[k].prog = log'[1].prog
  BY <1>2, <1>5 DEF ProgramInvariant
<1>7. \A q \in Runs : Started(q)' => prog'[q] = log'[1].prog
  BY <1>5, TaskStep DEF ProgramInvariant, Started, loop, scan
<1>8. QED BY <1>6, <1>7 DEF ProgramInvariant

LEMMA ProgramNext ==
  ASSUME TypeOK, LoopInvariant, LogInvariant, ProgramInvariant, MayTear = FALSE,
         ResumeModes \subseteq {TRUE}, [Next]_vars
  PROVE  ProgramInvariant'
<1> DEFINE Quiet == /\ log' = log /\ prog' = prog
                    /\ \A q \in Runs : Started(q)' => Started(q)
<1>0. ASSUME Quiet PROVE ProgramInvariant'
  BY <1>0 DEF ProgramInvariant
<1>1. CASE UNCHANGED vars
  <2>1. Quiet
    BY <1>1 DEF vars, disk, loop, scan, Started
  <2>2. QED BY <1>0, <2>1
<1>2. ASSUME NEW r \in Runs, Start(r) \/ Loop(r) \/ AbandonTasks(r) \/ CancelDrain(r)
      PROVE  ProgramInvariant'
  <2>1. ASSUME NEW resume \in ResumeModes, StartRun(r, resume) PROVE ProgramInvariant'
    <3>1. resume = TRUE
      OBVIOUS
    <3>2. QED BY <2>1, <3>1, StartProgram
  <2>2. CASE RefuseRun(r) \/ Loop(r) \/ AbandonTasks(r) \/ CancelDrain(r)
    <3>1. log' = log /\ prog' = prog
      BY <2>2 DEF RefuseRun, Loop, SkipItem, CreateTask, LeaveWait, LeaveLoop, Finish,
                  AbandonTasks, CancelDrain, disk, scan
    <3>2. Started(r)' => Started(r)
      BY <2>2 DEF RefuseRun, Loop, SkipItem, CreateTask, LeaveWait, LeaveLoop, Finish,
                  AbandonTasks, CancelDrain, loop, TypeOK, Started
    <3>3. \A q \in Runs : q # r => phase'[q] = phase[q]
      BY <1>2, CoroutineStep
    <3>4. Quiet
      BY <3>1, <3>2, <3>3 DEF Started
    <3>5. QED BY <1>0, <3>4
  <2>3. QED BY <1>2, <2>1, <2>2 DEF Start
<1>3. ASSUME NEW r \in Runs, NEW i \in Items, Process(r, i) PROVE ProgramInvariant'
  <2>1. CASE log' = log
    <3>1. Quiet
      BY <1>3, <2>1, TaskStep DEF loop, scan, Started
    <3>2. QED BY <1>0, <3>1
  <2>2. QED BY <1>3, <2>1, TaskLogStep, RecordProgram
<1>4. CASE Crash
  <2>1. Quiet
    BY <1>4 DEF Crash, LoseProcess, scan, Started, Active
  <2>2. QED BY <1>0, <2>1
<1>5. QED
  BY <1>1, <1>2, <1>3, <1>4
     DEF Next, Environment, CrashWritingHeader, CrashWritingItem

\* Resuming never mixes the results of two programs in one log: a run of another
\* program is refused before it writes, runs that overlap included (resume.py,
\* the comparison of the header's program_hash).
THEOREM SingleProgramLogHolds ==
  ASSUME MayTear = FALSE, ResumeModes \subseteq {TRUE}
  PROVE  Spec => []SingleProgramLog
<1>1. Init => ProgramInvariant
  BY DEF Init, ProgramInvariant, Started
<1>2. TypeOK /\ LoopInvariant /\ LogInvariant /\ ProgramInvariant /\ [Next]_vars
        => ProgramInvariant'
  BY ProgramNext
<1>3. ProgramInvariant => SingleProgramLog
  BY DEF ProgramInvariant, SingleProgramLog, ItemLines
<1>4. QED
  BY <1>1, <1>2, <1>3, TypeCorrectness, LoopInvariantHolds, LogInvariantHolds, PTL DEF Spec

-----------------------------------------------------------------------------
(* Runs that follow one another: Overlap = FALSE.                          *)

\* Content-addressed custom_ids: the source yields no two items of one id.
DistinctSource == \A i, j \in Items : Source[i] = Source[j] => i = j

-----------------------------------------------------------------------------
(* One run after the other: when a run has been called, the earlier ones   *)
(* are over and have no task left.                                         *)

Over(r) == phase[r] \notin Active \cup {"idle"} /\ LiveTasks(r) = {}

Sequential == \A q, r \in Runs : q < r /\ phase[r] # "idle" => Over(q)

\* A run that is over takes no step of its own.
LEMMA OverIsIdle ==
  ASSUME NEW r \in Runs, Over(r)
  PROVE  /\ ~(Start(r) \/ Loop(r) \/ AbandonTasks(r) \/ CancelDrain(r))
         /\ \A i \in Items : ~Process(r, i)
BY DEF Over, Active, LiveTasks, Alive, Holding, Start, StartRun, RefuseRun, MayStart, Loop,
       SkipItem, CreateTask, LeaveWait, LeaveLoop, Finish, AbandonTasks, CancelDrain,
       Process, AcquireSlot, DropTask, InvokeSucceeds, InvokeFails, ReportSuccess,
       ReportSuccessRaises, ReportError, ReportErrorRaises

\* Whoever moves, the runs before are over and the runs after have not been called.
LEMMA Alone ==
  ASSUME TypeOK, LoopInvariant, Sequential, Overlap = FALSE, NEW r \in Runs,
         \/ Start(r) \/ Loop(r) \/ AbandonTasks(r) \/ CancelDrain(r)
         \/ \E i \in Items : Process(r, i)
  PROVE  \A q \in Runs : /\ q < r => Over(q)
                         /\ r < q => phase[q] = "idle"
<1>1. ~Over(r)
  BY OverIsIdle
<1>2. \A q \in Runs : r < q => phase[q] = "idle"
  BY <1>1 DEF Sequential
<1>3. ASSUME NEW q \in Runs, q < r PROVE Over(q)
  <2>1. CASE phase[r] # "idle"
    BY <1>3, <2>1 DEF Sequential
  <2>2. CASE phase[r] = "idle"
    <3>1. \A i \in Items : task[r][i] = "none"
      <4>1. \A i \in Items : i >= 1
        BY ConstantsAssumption DEF Items
      <4>2. QED BY <2>2, <4>1 DEF LoopInvariant, LoopInv
    <3>2. \A i \in Items : ~Process(r, i)
      BY <3>1, TaskStep DEF Alive, Holding
    <3>3. MayStart(r)
      BY <2>2, <3>2 DEF Start, StartRun, RefuseRun, Loop, SkipItem, CreateTask, LeaveWait,
                        LeaveLoop, Finish, AbandonTasks, CancelDrain
    <3>4. QED BY <1>3, <3>3 DEF MayStart, Over
  <2>3. QED BY <2>1, <2>2
<1>4. QED BY <1>2, <1>3

LEMMA SequentialNext ==
  ASSUME TypeOK, LoopInvariant, Sequential, Overlap = FALSE, [Next]_vars
  PROVE  Sequential'
<1>1. CASE UNCHANGED vars
  BY <1>1 DEF vars, loop, Sequential, Over, LiveTasks
<1>2. ASSUME NEW r \in Runs,
             \/ Start(r) \/ Loop(r) \/ AbandonTasks(r) \/ CancelDrain(r)
             \/ \E i \in Items : Process(r, i)
      PROVE  Sequential'
  <2>1. \A q \in Runs : q # r => phase'[q] = phase[q] /\ task'[q] = task[q]
    BY <1>2, CoroutineStep, TaskStep DEF loop
  <2>2. SUFFICES ASSUME NEW p \in Runs, NEW q \in Runs, p < q, phase'[q] # "idle"
                 PROVE  Over(p)'
    BY DEF Sequential
  <2>3. \A k \in Runs : k \in Int
    BY ConstantsAssumption DEF Runs
  <2>4. ~(r < q)
    <3>1. ASSUME r < q PROVE FALSE
      <4>1. q # r
        BY <3>1, <2>3
      <4>2. phase[q] = "idle"
        BY <1>2, <3>1, Alone
      <4>3. QED BY <2>1, <2>2, <4>1, <4>2
    <3>2. QED BY <3>1
  <2>5. p < r /\ p # r
    BY <2>2, <2>3, <2>4
  <2>6. Over(p)
    BY <1>2, <2>5, Alone
  <2>7. QED BY <2>1, <2>5, <2>6 DEF Over, LiveTasks
<1>3. ASSUME NEW starting \in SUBSET Runs, LoseProcess(starting),
             \A r \in starting : MayStart(r)
      PROVE  Sequential'
  <2>1. SUFFICES ASSUME NEW p \in Runs, NEW q \in Runs, p < q, phase'[q] # "idle"
                 PROVE  Over(p)'
    BY DEF Sequential
  <2>2. phase[p] # "idle"
    <3>1. CASE phase[q] # "idle"
      BY <2>1, <3>1 DEF Sequential, Over
    <3>2. CASE phase[q] = "idle"
      BY <1>3, <2>1, <3>2 DEF LoseProcess, MayStart, Active
    <3>3. QED BY <3>1, <3>2
  <2>3. phase'[p] \notin Active \cup {"idle"} /\ LiveTasks(p)' = {}
    BY <1>3, <2>2, CrashStep
  <2>4. QED BY <2>3 DEF Over
<1>4. QED
  BY <1>1, <1>2, <1>3
     DEF Next, Environment, Crash, CrashWritingHeader, CrashWritingItem

LEMMA SequentialHolds ==
  ASSUME Overlap = FALSE
  PROVE  Spec => []Sequential
<1>1. Init => Sequential
  BY DEF Init, Sequential
<1>2. QED BY <1>1, SequentialNext, TypeCorrectness, LoopInvariantHolds, PTL DEF Spec
\* The other runs when one moves: over, or not yet called.
LEMMA OthersRest ==
  ASSUME TypeOK, LoopInvariant, Sequential, Overlap = FALSE, NEW r \in Runs,
         \/ Start(r) \/ Loop(r) \/ AbandonTasks(r) \/ CancelDrain(r)
         \/ \E i \in Items : Process(r, i),
         NEW q \in Runs, q # r
  PROVE  /\ phase'[q] = phase[q] /\ task'[q] = task[q]
         /\ phase[q] \notin Active /\ LiveTasks(q) = {}
<1>1. phase'[q] = phase[q] /\ task'[q] = task[q]
  BY CoroutineStep, TaskStep DEF loop
<1>2. q < r \/ r < q
  BY ConstantsAssumption DEF Runs
<1>3. CASE q < r
  BY <1>1, <1>3, Alone DEF Over
<1>4. CASE r < q
  <2>1. phase[q] = "idle"
    BY <1>4, Alone
  <2>2. \A i \in Items : i >= 1
    BY ConstantsAssumption DEF Items
  <2>3. \A i \in Items : task[q][i] = "none"
    BY <2>1, <2>2 DEF LoopInvariant, LoopInv
  <2>4. QED BY <1>1, <2>1, <2>3 DEF Active, LiveTasks, Alive, Holding
<1>5. QED BY <1>2, <1>3, <1>4

-----------------------------------------------------------------------------
(* The counters.                                                           *)

LEMMA ScanFinite ==
  ASSUME log \in Seq(Line)
  PROVE  /\ IsFiniteSet(SuccessLines) /\ IsFiniteSet(ErrorLines)
         /\ Cardinality(SuccessLines) \in Nat /\ Cardinality(ErrorLines) \in Nat
         /\ Len(log) + 1 \notin SuccessLines /\ Len(log) + 1 \notin ErrorLines
<1>1. DOMAIN log = 1..Len(log) /\ Len(log) \in Nat
  OBVIOUS
<1>2. IsFiniteSet(DOMAIN log)
  BY <1>1, FS_Interval
<1>3. SuccessLines \subseteq DOMAIN log /\ ErrorLines \subseteq DOMAIN log
  BY DEF SuccessLines, ErrorLines, ItemLines
<1>4. IsFiniteSet(SuccessLines) /\ IsFiniteSet(ErrorLines)
  BY <1>2, <1>3, FS_Subset
<1>5. Len(log) + 1 \notin DOMAIN log
  BY <1>1
<1>6. QED BY <1>3, <1>4, <1>5, FS_CardinalityType

\* What a task adds to the log it adds to the counters.
LEMMA TaskCounts ==
  ASSUME TypeOK, WholeLog, NEW r \in Runs, NEW i \in Items, Process(r, i),
         nSucceeded[r] = Cardinality(SuccessLines), nErrored[r] = Cardinality(ErrorLines)
  PROVE  nSucceeded'[r] = Cardinality(SuccessLines') /\ nErrored'[r] = Cardinality(ErrorLines')
<1> DEFINE n == Len(log) + 1
<1>f. /\ IsFiniteSet(SuccessLines) /\ IsFiniteSet(ErrorLines)
      /\ n \notin SuccessLines /\ n \notin ErrorLines
  BY ScanFinite DEF TypeOK
<1>a. /\ Cardinality(SuccessLines \cup {n}) = Cardinality(SuccessLines) + 1
      /\ Cardinality(ErrorLines \cup {n}) = Cardinality(ErrorLines) + 1
  BY <1>f, FS_AddElement
<1> USE DEF TypeOK
<1>1. CASE InvokeSucceeds(r, i)
  <2>1. Records(r, i, "success") /\ nSucceeded'[r] = nSucceeded[r] + 1 /\ nErrored' = nErrored
    BY <1>1 DEF InvokeSucceeds, Records
  <2>2. RecordsLine(r, i, "success")
    BY <2>1, AppendRecord
  <2>3. SuccessLines' = SuccessLines \cup {n} /\ ErrorLines' = ErrorLines
    BY <2>2 DEF RecordsLine
  <2>4. QED BY <1>a, <2>1, <2>3
<1>2. CASE InvokeFails(r, i) \/ ReportSuccessRaises(r, i)
  <2>1. Records(r, i, "error") /\ nErrored'[r] = nErrored[r] + 1 /\ nSucceeded' = nSucceeded
    BY <1>2 DEF InvokeFails, ReportSuccessRaises, RecordError, Records
  <2>2. RecordsLine(r, i, "error")
    BY <2>1, AppendRecord
  <2>3. ErrorLines' = ErrorLines \cup {n} /\ SuccessLines' = SuccessLines
    BY <2>2 DEF RecordsLine
  <2>4. QED BY <1>a, <2>1, <2>3
<1>3. CASE AcquireSlot(r, i) \/ DropTask(r, i) \/ ReportSuccess(r, i)
           \/ ReportError(r, i) \/ ReportErrorRaises(r, i)
  <2>1. log' = log /\ nSucceeded' = nSucceeded /\ nErrored' = nErrored
    BY <1>3 DEF AcquireSlot, DropTask, ReportSuccess, ReportError, ReportErrorRaises,
                MoveTask, disk, counts
  <2>2. SuccessLines' = SuccessLines /\ ErrorLines' = ErrorLines
    BY <2>1, ScanUnchanged DEF SameScan
  <2>3. QED BY <2>1, <2>2
<1>4. QED BY <1>1, <1>2, <1>3 DEF Process

LEMMA CountersNext ==
  ASSUME TypeOK, LoopInvariant, LogInvariant, Sequential, CountersMatchLog,
         MayTear = FALSE, Overlap = FALSE, ResumeModes \subseteq {TRUE}, [Next]_vars
  PROVE  CountersMatchLog'
<1> DEFINE Quiet ==
      /\ SuccessLines' = SuccessLines /\ ErrorLines' = ErrorLines
      /\ nSucceeded' = nSucceeded /\ nErrored' = nErrored
      /\ \A q \in Runs : phase'[q] \in {"idle", "refused"} <=> phase[q] \in {"idle", "refused"}
<1>0. ASSUME Quiet PROVE CountersMatchLog'
  <2>1. \A q \in Runs : Latest(q)' => Latest(q)
    BY <1>0 DEF Latest
  <2>2. QED BY <1>0, <2>1 DEF CountersMatchLog
<1>1. CASE UNCHANGED vars
  <2>1. Quiet
    BY <1>1, ScanUnchanged DEF vars, disk, loop, counts, SameScan
  <2>2. QED BY <1>0, <2>1
\* The latest run after a step of r that has started is r.
<1>l. ASSUME NEW r \in Runs, phase'[r] \notin {"idle", "refused"},
             \/ Start(r) \/ Loop(r) \/ AbandonTasks(r) \/ CancelDrain(r)
             \/ \E i \in Items : Process(r, i),
             NEW q \in Runs, Latest(q)'
      PROVE  q = r
  <2>1. CASE q < r
    BY <1>l, <2>1, ConstantsAssumption DEF Latest, Runs
  <2>2. CASE r < q
    <3>1. q # r
      BY <2>2, ConstantsAssumption DEF Runs
    <3>2. phase[q] = "idle"
      BY <1>l, <2>2, Alone
    <3>3. phase'[q] = "idle"
      BY <1>l, <3>1, <3>2, OthersRest
    <3>4. QED BY <1>l, <3>3 DEF Latest
  <2>3. QED BY <2>1, <2>2, ConstantsAssumption DEF Runs
<1>2. ASSUME NEW r \in Runs, NEW resume \in ResumeModes, StartRun(r, resume)
      PROVE  CountersMatchLog'
  <2>1. resume = TRUE /\ Start(r) /\ phase'[r] = "reading"
    BY <1>2 DEF Start, StartRun, TypeOK
  <2>2. SuccessLines' = SuccessLines /\ ErrorLines' = ErrorLines
    BY <2>1, CoroutineLogStep, ScanUnchanged DEF SameScan
  <2>3. /\ nSucceeded'[r] = Cardinality(SuccessLines')
        /\ nErrored'[r] = Cardinality(ErrorLines')
    BY <1>2, <2>1, <2>2 DEF StartRun, ScanCount, TypeOK
  <2>4. QED BY <1>l, <2>1, <2>3 DEF CountersMatchLog
<1>3. ASSUME NEW r \in Runs, RefuseRun(r) \/ Loop(r) \/ AbandonTasks(r) \/ CancelDrain(r)
      PROVE  CountersMatchLog'
  <2>1. /\ log' = log /\ nSucceeded' = nSucceeded /\ nErrored' = nErrored
        /\ phase'[r] \in {"idle", "refused"} <=> phase[r] \in {"idle", "refused"}
        /\ \A q \in Runs : q # r => phase'[q] = phase[q]
    BY <1>3 DEF RefuseRun, Loop, SkipItem, CreateTask, LeaveWait, LeaveLoop, Finish, FinalStatus,
                MayStart, AbandonTasks, CancelDrain, disk, loop, counts, TypeOK
  <2>2. Quiet
    BY <2>1, ScanUnchanged DEF SameScan
  <2>3. QED BY <1>0, <2>2
<1>4. ASSUME NEW r \in Runs, NEW i \in Items, Process(r, i)
      PROVE  CountersMatchLog'
  <2>1. phase' = phase
    BY <1>4, TaskStep DEF loop
  <2>2. phase[r] \notin {"idle", "refused"}
    <3>1. task[r][i] # "none" /\ i >= 1
      BY <1>4, TaskStep, ConstantsAssumption DEF Items, Alive, Holding
    <3>2. QED BY <3>1 DEF LoopInvariant, LoopInv
  <2>3. ASSUME Latest(r)' PROVE /\ nSucceeded'[r] = Cardinality(SuccessLines')
                                /\ nErrored'[r] = Cardinality(ErrorLines')
    <3>1. Latest(r)
      BY <2>1, <2>3 DEF Latest
    <3>2. nSucceeded[r] = Cardinality(SuccessLines) /\ nErrored[r] = Cardinality(ErrorLines)
      BY <3>1 DEF CountersMatchLog
    <3>3. QED BY <1>4, <3>2, TaskCounts DEF LogInvariant
  <2>4. QED BY <1>4, <1>l, <2>1, <2>2, <2>3 DEF CountersMatchLog
<1>5. CASE Crash
  <2>1. Quiet
    BY <1>5, ScanUnchanged DEF Crash, LoseProcess, counts, SameScan, Active
  <2>2. QED BY <1>0, <2>1
<1>6. QED
  BY <1>1, <1>2, <1>3, <1>4, <1>5
     DEF Next, Start, Environment, CrashWritingHeader, CrashWritingItem

\* "n_succeeded is cumulative across the log": whatever crashes, cancellations,
\* raising sources and raising callbacks lie between the runs, the counters of
\* the latest run are the counts of the file (runner.py, the scan's counters).
THEOREM CountersMatchLogHolds ==
  ASSUME MayTear = FALSE, Overlap = FALSE, ResumeModes \subseteq {TRUE}
  PROVE  Spec => []CountersMatchLog
<1>1. Init => CountersMatchLog
  BY DEF Init, CountersMatchLog, Latest
<1>2. TypeOK /\ LoopInvariant /\ LogInvariant /\ Sequential /\ CountersMatchLog /\ [Next]_vars
        => CountersMatchLog'
  BY CountersNext
<1>3. QED
  BY <1>1, <1>2, TypeCorrectness, LoopInvariantHolds, LogInvariantHolds, SequentialHolds,
     PTL DEF Spec
-----------------------------------------------------------------------------
(* Nothing is paid for twice.                                              *)

\* A task that has not invoked its program, or is about to end the invocation,
\* is for an item without a record; so are the items the loop has yet to see,
\* those of the skip set aside.
Fresh(r) ==
  /\ \A i \in Items : task[r][i] \in {"created", "invoking"} => Source[i] \notin Recorded
  /\ phase[r] \in Active =>
       \A i \in Items : i >= pos[r] => Source[i] \in skip[r] \/ Source[i] \notin Recorded

FreshInvariant == \A r \in Runs : Fresh(r)

\* A record adds one id to those the scan finds; if it repairs nothing it may
\* still destroy the unfinished line before it.
LEMMA RecordAdds ==
  ASSUME TypeOK, NEW r \in Runs, NEW i \in Items, NEW s \in {"success", "error"},
         Records(r, i, s)
  PROVE  Recorded' \subseteq Recorded \cup {Source[i]}
<1> DEFINE line == ItemLine(prog[r], Source[i], s)
<1>1. line \in Line /\ log \in Seq(Line) /\ log' = AppendLine(log, line)
  BY SourceType, LineTypes DEF TypeOK, Records
<1>2. line.id = Source[i]
  BY DEF ItemLine
<1> HIDE DEF line
<1>3. \A k \in DOMAIN log' : \/ k \in DOMAIN log /\ log'[k] = log[k]
                            \/ log'[k] = line
                            \/ log'[k].kind = "corrupt"
  BY <1>1, AppendLineKeeps
<1>4. QED BY <1>2, <1>3 DEF Recorded, ItemLines

LEMMA CoroutineFresh ==
  ASSUME TypeOK, LoopInvariant, NEW r \in Runs, Fresh(r), ResumeModes \subseteq {TRUE},
         Start(r) \/ Loop(r) \/ AbandonTasks(r) \/ CancelDrain(r)
  PROVE  Fresh(r)'
<1>1. Recorded' = Recorded
  BY CoroutineLogStep, ScanUnchanged DEF SameScan
<1> USE DEF TypeOK, loop, scan
<1>2. ASSUME NEW resume \in ResumeModes, StartRun(r, resume) PROVE Fresh(r)'
  <2>1. resume = TRUE /\ skip'[r] = Recorded /\ task' = task
    BY <1>2 DEF StartRun, SkipSet
  <2>2. QED BY <1>1, <2>1 DEF Fresh
<1>3. CASE RefuseRun(r) \/ LeaveWait(r) \/ LeaveLoop(r) \/ Finish(r) \/ AbandonTasks(r)
           \/ CancelDrain(r)
  <2>1. task' = task /\ skip' = skip /\ pos' = pos
    BY <1>3 DEF RefuseRun, LeaveWait, LeaveLoop, Finish, AbandonTasks, CancelDrain
  <2>2. phase'[r] \in Active => phase[r] \in Active
    BY <1>3 DEF RefuseRun, LeaveWait, LeaveLoop, Finish, FinalStatus, AbandonTasks, CancelDrain,
                Active
  <2>3. QED BY <1>1, <2>1, <2>2 DEF Fresh
<1>4. CASE SkipItem(r) \/ CreateTask(r)
  <2>1. /\ skip' = skip /\ pos[r] \in Items /\ pos'[r] = pos[r] + 1 /\ phase[r] \in Active
        /\ \A i \in Items :
             \/ task'[r][i] \in {task[r][i], "skipped"}
             \/ i = pos[r] /\ Source[i] \notin skip[r]
    BY <1>4 DEF SkipItem, CreateTask, Active
  <2>2. \A i \in Items : i >= pos'[r] => i >= pos[r]
    BY <2>1, ConstantsAssumption DEF Items
  <2>3. pos[r] >= pos[r]
    BY <2>1, ConstantsAssumption DEF Items
  <2>4. QED BY <1>1, <2>1, <2>2, <2>3 DEF Fresh
<1>5. QED BY <1>2, <1>3, <1>4 DEF Start, Loop

LEMMA TaskFresh ==
  ASSUME TypeOK, LoopInvariant, NEW r \in Runs, Fresh(r), DistinctSource,
         NEW i \in Items, Process(r, i)
  PROVE  Fresh(r)'
<1>1. /\ phase' = phase /\ pos' = pos /\ skip' = skip
      /\ task[r][i] # "none"
      /\ \A j \in Items : j # i => task'[r][j] = task[r][j]
  BY TaskStep DEF loop, scan, Alive, Holding
<1>2. ~(i >= pos[r])
  BY <1>1 DEF LoopInvariant, LoopInv
<1>3. CASE log' = log
  <2>1. Recorded' = Recorded
    BY <1>3, ScanUnchanged DEF SameScan
  <2>2. task'[r][i] \in {"created", "invoking"} => task[r][i] \in {"created", "invoking"}
    BY DEF Process, AcquireSlot, DropTask, InvokeSucceeds, InvokeFails, ReportSuccess,
           ReportSuccessRaises, ReportError, ReportErrorRaises, RecordError, MoveTask, TypeOK
  <2>3. QED BY <1>1, <2>1, <2>2 DEF Fresh
<1>4. ASSUME NEW s \in {"success", "error"}, Records(r, i, s) PROVE Fresh(r)'
  <2>1. Recorded' \subseteq Recorded \cup {Source[i]}
    BY <1>4, RecordAdds
  <2>2. task'[r][i] \notin {"created", "invoking"}
    <3>1. task[r][i] \in {"invoking", "reportOk"}
      BY <1>4 DEF Records
    <3>2. QED
      BY <3>1 DEF Process, AcquireSlot, DropTask, InvokeSucceeds, InvokeFails, ReportSuccess,
             ReportSuccessRaises, ReportError, ReportErrorRaises, RecordError, MoveTask, TypeOK
  <2>3. \A j \in Items : j # i => Source[j] # Source[i]
    BY DEF DistinctSource
  <2>4. \A j \in Items : j >= pos'[r] => j # i
    BY <1>1, <1>2
  <2>5. QED BY <1>1, <2>1, <2>2, <2>3, <2>4 DEF Fresh
<1>5. QED BY <1>3, <1>4, TaskLogStep

LEMMA FreshNext ==
  ASSUME TypeOK, LoopInvariant, Sequential, FreshInvariant, DistinctSource,
         Overlap = FALSE, ResumeModes \subseteq {TRUE}, [Next]_vars
  PROVE  FreshInvariant'
<1> SUFFICES ASSUME NEW q \in Runs PROVE Fresh(q)'
  BY DEF FreshInvariant
<1>q. Fresh(q)
  BY DEF FreshInvariant
\* A run at rest has nothing to invoke.
<1>0. ASSUME phase'[q] \notin Active, LiveTasks(q)' = {} PROVE Fresh(q)'
  BY <1>0 DEF Fresh, LiveTasks, Alive, Holding
<1>1. CASE UNCHANGED vars
  <2>1. Recorded' = Recorded
    BY <1>1, ScanUnchanged DEF vars, disk, SameScan
  <2>2. QED BY <1>1, <1>q, <2>1 DEF vars, loop, scan, Fresh
<1>2. ASSUME NEW r \in Runs, q # r,
             \/ Start(r) \/ Loop(r) \/ AbandonTasks(r) \/ CancelDrain(r)
             \/ \E i \in Items : Process(r, i)
      PROVE  Fresh(q)'
  BY <1>0, <1>2, OthersRest DEF LiveTasks
<1>3. ASSUME NEW starting, LoseProcess(starting) PROVE Fresh(q)'
  BY <1>0, <1>3, CrashStep
<1>4. QED
  BY <1>q, <1>1, <1>2, <1>3, CoroutineFresh, TaskFresh
     DEF Next, Environment, Crash, CrashWritingHeader, CrashWritingItem

LEMMA FreshInvariantHolds ==
  ASSUME Overlap = FALSE, ResumeModes \subseteq {TRUE}, DistinctSource
  PROVE  Spec => []FreshInvariant
<1>1. Init => FreshInvariant
  BY DEF Init, FreshInvariant, Fresh, Active
<1>2. TypeOK /\ LoopInvariant /\ Sequential /\ FreshInvariant /\ [Next]_vars => FreshInvariant'
  BY FreshNext
<1>3. QED
  BY <1>1, <1>2, TypeCorrectness, LoopInvariantHolds, SequentialHolds, PTL DEF Spec

\* No program is invoked for an item the log already holds, however long ago
\* the skip set was read, and even when crashes tear the log: an item whose
\* record is lost may be paid for again, one whose record is there may not.
THEOREM NoRepeatedSpendHolds ==
  ASSUME Overlap = FALSE, ResumeModes \subseteq {TRUE}, DistinctSource
  PROVE  Spec => NoRepeatedSpend
<1>1. ASSUME TypeOK, FreshInvariant, Next, NEW r \in Runs, NEW i \in Items,
             task[r][i] # "invoking", task'[r][i] = "invoking"
      PROVE  Source[i] \notin Recorded
  <2>1. ASSUME NEW q \in Runs,
               Start(q) \/ Loop(q) \/ AbandonTasks(q) \/ CancelDrain(q)
        PROVE  FALSE
    <3>1. q = r
      BY <1>1, <2>1, CoroutineStep
    <3>2. task'[r][i] \in {task[r][i], "skipped", "created"}
      <4>1. CASE SkipItem(r) \/ CreateTask(r)
        <5>1. PICK s \in {"skipped", "created"} : task' = [task EXCEPT ![r][pos[r]] = s]
          BY <4>1 DEF SkipItem, CreateTask
        <5>2. QED BY <5>1 DEF TypeOK
      <4>2. CASE ~(SkipItem(r) \/ CreateTask(r))
        <5>1. task' = task
          BY <2>1, <3>1, <4>2 DEF Start, StartRun, RefuseRun, Loop, LeaveWait, LeaveLoop, Finish,
                                  AbandonTasks, CancelDrain
        <5>2. QED BY <5>1
      <4>3. QED BY <4>1, <4>2
    <3>3. QED BY <1>1, <3>2
  <2>2. ASSUME NEW q \in Runs, NEW j \in Items, Process(q, j) PROVE task[r][i] = "created"
    <3>1. q = r /\ j = i
      BY <1>1, <2>2, TaskStep
    <3>2. CASE AcquireSlot(r, i)
      BY <3>2 DEF AcquireSlot
    <3>3. CASE ~AcquireSlot(r, i)
      BY <1>1, <2>2, <3>1, <3>3
         DEF Process, DropTask, InvokeSucceeds, InvokeFails, ReportSuccess,
             ReportSuccessRaises, ReportError, ReportErrorRaises, RecordError, MoveTask, TypeOK
    <3>4. QED BY <3>2, <3>3
  <2>3. ASSUME NEW starting, LoseProcess(starting) PROVE FALSE
    BY <1>1, <2>3 DEF LoseProcess
  <2>4. task[r][i] = "created"
    BY <1>1, <2>1, <2>2, <2>3
       DEF Next, Environment, Crash, CrashWritingHeader, CrashWritingItem
  <2>5. QED BY <1>1, <2>4 DEF FreshInvariant, Fresh
<1>2. TypeOK /\ FreshInvariant /\ [Next]_vars =>
        [\A r \in Runs, i \in Items :
           task[r][i] # "invoking" /\ task'[r][i] = "invoking"
             => Source[i] \notin Recorded]_vars
  BY <1>1
<1>3. QED
  BY <1>2, TypeCorrectness, FreshInvariantHolds, PTL DEF Spec, NoRepeatedSpend
-----------------------------------------------------------------------------
(* The runs of one directory implement BatchLedger.                        *)

Announced == \E m \in manifest : m.status = "completed"

\* Once "completed" is on disk a further run skips every item and is never
\* stopped, so that it can only announce the same again.
Reread(r) ==
  /\ phase[r] = "idle" => ~stopRequested[r]
  /\ Announced /\ phase[r] \in Active =>
       /\ ~stopRequested[r]
       /\ \A i \in Items : Source[i] \in skip[r] /\ task[r][i] \in {"none", "skipped"}

RereadInvariant == \A r \in Runs : Reread(r)

LEMMA CoroutineReread ==
  ASSUME TypeOK, LoopInvariant, ManifestHonest, NEW r \in Runs, Reread(r),
         ResumeModes \subseteq {TRUE},
         Start(r) \/ Loop(r) \/ AbandonTasks(r) \/ CancelDrain(r)
  PROVE  Reread(r)'
<1> USE DEF TypeOK, loop, scan, disk, flags
<1>1. ASSUME NEW resume \in ResumeModes, StartRun(r, resume) PROVE Reread(r)'
  <2>1. /\ resume = TRUE /\ skip'[r] = Recorded /\ task' = task /\ manifest' = manifest
        /\ stopRequested' = stopRequested /\ phase[r] = "idle" /\ phase'[r] = "reading"
    BY <1>1 DEF StartRun, SkipSet, MayStart
  <2>2. \A i \in Items : i >= 1
    BY ConstantsAssumption DEF Items
  <2>3. \A i \in Items : task[r][i] = "none"
    BY <2>1, <2>2 DEF LoopInvariant, LoopInv
  <2>4. Announced => \A i \in Items : Source[i] \in Recorded
    BY DEF Announced, ManifestHonest
  <2>5. QED BY <2>1, <2>3, <2>4 DEF Reread, Announced
<1>2. CASE RefuseRun(r) \/ AbandonTasks(r) \/ Finish(r)
  <2>1. phase'[r] \notin Active \cup {"idle"}
    BY <1>2 DEF RefuseRun, AbandonTasks, Finish, FinalStatus, Active
  <2>2. QED BY <2>1 DEF Reread
<1>3. CASE LeaveWait(r) \/ LeaveLoop(r) \/ CancelDrain(r)
  <2>1. /\ task' = task /\ skip' = skip /\ manifest' = manifest
        /\ stopRequested' = stopRequested
        /\ phase[r] \in Active /\ phase'[r] # "idle"
    BY <1>3 DEF LeaveWait, LeaveLoop, CancelDrain, Active
  <2>2. QED BY <2>1 DEF Reread, Announced
<1>4. CASE SkipItem(r)
  <2>1. /\ skip' = skip /\ manifest' = manifest /\ stopRequested' = stopRequested
        /\ phase' = phase /\ phase[r] = "reading"
        /\ \A i \in Items : task'[r][i] \in {task[r][i], "skipped"}
    BY <1>4 DEF SkipItem
  <2>2. QED BY <2>1 DEF Reread, Announced, Active
<1>5. CASE CreateTask(r)
  <2>1. /\ manifest' = manifest /\ phase[r] \in Active /\ phase'[r] # "idle"
        /\ pos[r] \in Items /\ Source[pos[r]] \notin skip[r]
    BY <1>5 DEF CreateTask, Active
  <2>2. ~Announced'
    BY <2>1 DEF Reread, Announced
  <2>3. QED BY <2>1, <2>2 DEF Reread
<1>6. QED
  BY <1>1, <1>2, <1>3, <1>4, <1>5 DEF Start, Loop

LEMMA RereadNext ==
  ASSUME TypeOK, LoopInvariant, Sequential, ManifestHonest, RereadInvariant,
         Overlap = FALSE, ResumeModes \subseteq {TRUE}, [Next]_vars
  PROVE  RereadInvariant'
<1> SUFFICES ASSUME NEW q \in Runs PROVE Reread(q)'
  BY DEF RereadInvariant
<1>q. Reread(q)
  BY DEF RereadInvariant
<1>1. CASE UNCHANGED vars
  BY <1>1, <1>q DEF vars, disk, loop, scan, flags, Reread, Announced
<1>2. ASSUME NEW r \in Runs, Start(r) \/ Loop(r) \/ AbandonTasks(r) \/ CancelDrain(r)
      PROVE  Reread(q)'
  <2>1. CASE q = r
    BY <1>2, <1>q, <2>1, CoroutineReread
  <2>2. CASE q # r
    <3>1. phase'[q] = phase[q] /\ phase[q] \notin Active
      BY <1>2, <2>2, OthersRest
    <3>2. stopRequested'[q] = stopRequested[q]
      BY <1>2, <2>2, CoroutineStep
    <3>3. QED BY <1>q, <3>1, <3>2 DEF Reread
  <2>3. QED BY <2>1, <2>2
<1>3. ASSUME NEW r \in Runs, NEW i \in Items, Process(r, i) PROVE Reread(q)'
  <2>1. phase' = phase /\ skip' = skip /\ manifest' = manifest /\ task[r][i] \in Alive
    BY <1>3, TaskStep DEF loop, scan
  <2>2. CASE q = r
    <3>1. phase[r] # "idle"
      <4>1. i >= 1
        BY ConstantsAssumption DEF Items
      <4>2. QED BY <2>1, <4>1 DEF LoopInvariant, LoopInv, Alive, Holding
    <3>2. ~(Announced /\ phase[r] \in Active)
      BY <1>q, <2>1, <2>2 DEF Reread, Alive, Holding
    <3>3. QED BY <2>1, <2>2, <3>1, <3>2 DEF Reread, Announced
  <2>3. CASE q # r
    <3>1. task'[q] = task[q] /\ stopRequested'[q] = stopRequested[q]
      BY <1>3, <2>3, TaskStep
    <3>2. QED BY <1>q, <2>1, <3>1 DEF Reread, Announced
  <2>4. QED BY <2>2, <2>3
<1>4. ASSUME NEW starting, LoseProcess(starting) PROVE Reread(q)'
  BY <1>4, <1>q, CrashStep DEF LoseProcess, flags, Reread
<1>5. QED
  BY <1>1, <1>2, <1>3, <1>4
     DEF Next, Environment, Crash, CrashWritingHeader, CrashWritingItem

LEMMA RereadInvariantHolds ==
  ASSUME MayTear = FALSE, Overlap = FALSE, ResumeModes \subseteq {TRUE}
  PROVE  Spec => []RereadInvariant
<1>1. Init => RereadInvariant
  BY DEF Init, RereadInvariant, Reread, Active
<1>2. TypeOK /\ LoopInvariant /\ Sequential /\ ManifestHonest /\ RereadInvariant /\ [Next]_vars
        => RereadInvariant'
  BY RereadNext
<1>3. QED
  BY <1>1, <1>2, TypeCorrectness, LoopInvariantHolds, SequentialHolds, ManifestHonestHolds,
     PTL DEF Spec

-----------------------------------------------------------------------------
(* The refinement mapping.                                                 *)

SourceIds == { Source[i] : i \in Items }

LEMMA SuccessIsRecorded == SuccessIds \subseteq Recorded
BY DEF SuccessIds, SuccessLines, Recorded

LEMMA OutcomeIs ==
  ASSUME NEW id
  PROVE  Outcome(id) = IF id \in SuccessIds THEN "success"
                       ELSE IF id \in Recorded THEN "error" ELSE "missing"
BY DEF Outcome, SuccessIds

LEMMA OutcomeKept ==
  ASSUME SameScan
  PROVE  \A id : Outcome(id)' = Outcome(id)
BY DEF SameScan, Outcome, SuccessIds

\* A record gives its item an outcome, or repeats the item's success.
LEMMA OutcomeRecorded ==
  ASSUME TypeOK, LogInvariant, FreshInvariant, NEW r \in Runs, NEW i \in Items,
         NEW s \in {"success", "error"}, Records(r, i, s), RecordsLine(r, i, s)
  PROVE  /\ \A id : id # Source[i] => Outcome(id)' = Outcome(id)
         /\ \/ Outcome(Source[i]) = "missing" /\ Outcome(Source[i])' = s
            \/ Outcome(Source[i])' = Outcome(Source[i])
<1>1. /\ Recorded' = Recorded \cup {Source[i]}
      /\ SuccessIds' = SuccessIds \cup (IF s = "success" THEN {Source[i]} ELSE {})
  BY DEF RecordsLine
<1>2. \A id : Outcome(id)' = IF id \in SuccessIds' THEN "success"
                             ELSE IF id \in Recorded' THEN "error" ELSE "missing"
  BY DEF Outcome, SuccessIds
<1>3. \A id : id # Source[i] => Outcome(id)' = Outcome(id)
  BY <1>1, <1>2, OutcomeIs
<1>4. CASE task[r][i] = "invoking"
  <2>1. Source[i] \notin Recorded /\ Source[i] \notin SuccessIds
    BY <1>4, SuccessIsRecorded DEF FreshInvariant, Fresh
  <2>2. Outcome(Source[i]) = "missing" /\ Outcome(Source[i])' = s
    BY <1>1, <1>2, <2>1, OutcomeIs
  <2>3. QED BY <1>3, <2>2
<1>5. CASE task[r][i] = "reportOk"
  <2>1. Source[i] \in SuccessIds
    BY <1>5 DEF LogInvariant, LogInv
  <2>2. Outcome(Source[i]) = "success" /\ Outcome(Source[i])' = "success"
    BY <1>1, <1>2, <2>1, OutcomeIs
  <2>3. QED BY <1>3, <2>2
<1>6. QED BY <1>4, <1>5 DEF Records

LEMMA LedgerInit == Init => Ledger!Init
<1> SUFFICES ASSUME Init PROVE Ledger!Init
  OBVIOUS
<1>1. ItemLines = {}
  BY DEF Init, ItemLines
<1>2. \A id : Outcome(id) = "missing"
  BY <1>1 DEF Outcome, SuccessLines, Recorded
<1>3. QED BY <1>2 DEF Init, Ledger!Init

LEMMA LedgerNext ==
  ASSUME TypeOK, BacklogInvariant, LoopInvariant, LogInvariant, FreshInvariant,
         RereadInvariant, MayTear = FALSE, [Next]_vars
  PROVE  [Ledger!Next]_(Ledger!vars)
<1> DEFINE outcome == [id \in SourceIds |-> Outcome(id)]
<1>1. ASSUME SameScan PROVE [Ledger!Next]_(Ledger!vars)
  <2>1. outcome' = outcome
    BY <1>1, OutcomeKept
  <2>2. CASE manifest' = manifest
    BY <2>1, <2>2 DEF Ledger!vars, SourceIds
  <2>3. ASSUME NEW r \in Runs, Finish(r), ~cancelled[r], manifest' = {Summary(r)},
               stopRequested[r]
        PROVE  [Ledger!Next]_(Ledger!vars)
    <3>1. ~Announced
      BY <2>3 DEF RereadInvariant, Reread, Finish, Active
    <3>2. ~Announced'
      BY <2>3 DEF Announced, Summary, FinalStatus
    <3>3. QED BY <2>1, <3>1, <3>2 DEF Ledger!vars, SourceIds, Announced
  <2>4. ASSUME NEW r \in Runs, Finish(r), ~cancelled[r], manifest' = {Summary(r)},
               ~stopRequested[r]
        PROVE  [Ledger!Next]_(Ledger!vars)
    <3>1. Announced'
      BY <2>4 DEF Announced, Summary, FinalStatus
    <3>2. \A id \in SourceIds : id \in Recorded
      BY <2>4, DrainedIsRecorded DEF SourceIds
    <3>3. \A id \in SourceIds : Outcome(id) # "missing"
      BY <3>2, OutcomeIs
    <3>4. Ledger!Announce
      BY <2>1, <3>1, <3>3 DEF Ledger!Announce, SourceIds, Announced
    <3>5. QED BY <3>4 DEF Ledger!Next
  <2>5. QED BY <2>2, <2>3, <2>4, ManifestStep
<1>2. ASSUME NEW r \in Runs, NEW i \in Items, NEW s \in {"success", "error"},
             Process(r, i), Records(r, i, s), RecordsLine(r, i, s)
      PROVE  [Ledger!Next]_(Ledger!vars)
  <2>1. manifest' = manifest
    BY <1>2, TaskStep
  <2>2. Source[i] \in SourceIds
    BY DEF SourceIds
  <2>3. \A id : id # Source[i] => Outcome(id)' = Outcome(id)
    BY <1>2, OutcomeRecorded
  <2>4. CASE Outcome(Source[i])' = Outcome(Source[i])
    <3>1. outcome' = outcome
      BY <2>3, <2>4
    <3>2. QED BY <2>1, <3>1 DEF Ledger!vars, SourceIds
  <2>5. CASE Outcome(Source[i]) = "missing" /\ Outcome(Source[i])' = s
    <3>1. outcome' = [outcome EXCEPT ![Source[i]] = s]
      BY <2>2, <2>3, <2>5
    <3>2. Ledger!Record(Source[i])
      BY <2>1, <2>2, <2>5, <3>1 DEF Ledger!Record, SourceIds
    <3>3. QED BY <2>2, <3>2 DEF Ledger!Next, SourceIds
  <2>6. QED BY <1>2, <2>4, <2>5, OutcomeRecorded
<1>3. QED BY <1>1, <1>2, WholeStep

\* Whatever crashes, cancellations and resumes lie between them, the runs of one
\* directory give every item at most one outcome, never change it, and announce
\* completion only when all have one, and then for good.
THEOREM LedgerImplemented ==
  ASSUME MayTear = FALSE, Overlap = FALSE, ResumeModes \subseteq {TRUE}, DistinctSource
  PROVE  Spec => LedgerSpec
<1>1. TypeOK /\ BacklogInvariant /\ LoopInvariant /\ LogInvariant /\ FreshInvariant
        /\ RereadInvariant /\ [Next]_vars => [Ledger!Next]_(Ledger!vars)
  BY LedgerNext
<1>2. QED
  BY <1>1, LedgerInit, TypeCorrectness, BacklogInvariantHolds, LoopInvariantHolds,
     LogInvariantHolds, FreshInvariantHolds, RereadInvariantHolds, PTL
     DEF Spec, LedgerSpec, Ledger!Spec
=============================================================================
