------------------------ MODULE BatchWorkspaceProofs ------------------------
(***************************************************************************)
(* Theorems about the MCP batch tools over one workspace, for every number *)
(* of batches, directories and requests: types, a "completed" row backed   *)
(* by the log, and, while a batch-run loads its envelope without giving    *)
(* way to another, one runner for each batch and rows that agree with the  *)
(* manifests.                                                              *)
(***************************************************************************)
EXTENDS BatchWorkspace, FiniteSetTheorems, SequenceTheorems, TLAPS

-----------------------------------------------------------------------------
(* The counts.                                                             *)

LEMMA CountType ==
  ASSUME NEW outcomes, NEW n \in Nat, DOMAIN outcomes = 1..n, NEW o
  PROVE  CountOutcome(outcomes, o) \in Nat
<1> DEFINE K == { k \in DOMAIN outcomes : outcomes[k] = o }
<1>1. IsFiniteSet(1..n)
  BY FS_Interval
<1>2. IsFiniteSet(K)
  BY <1>1, FS_Subset
<1>3. QED BY <1>2, FS_CardinalityType DEF CountOutcome

LEMMA ScanType ==
  ASSUME NEW lines \in Seq(Line)
  PROVE  Scan(lines) \in Count
<1> DEFINE outcomes == [k \in DOMAIN lines |-> lines[k].outcome]
<1>1. Len(lines) \in Nat /\ DOMAIN outcomes = 1..Len(lines)
  OBVIOUS
<1> HIDE DEF outcomes
<1>2. CountOutcome(outcomes, "success") \in Nat /\ CountOutcome(outcomes, "error") \in Nat
  BY <1>1, CountType
<1>3. Scan(lines) = [succeeded |-> CountOutcome(outcomes, "success"),
                     errored |-> CountOutcome(outcomes, "error")]
  BY DEF Scan, outcomes
<1>4. QED BY <1>2, <1>3 DEF Count

\* The outcome sequences a task may record.
Outcomes == { <<"success">>, <<"error">>, <<"success", "error">> }

LEMMA OutcomesDomain ==
  ASSUME NEW outcomes \in Outcomes
  PROVE  /\ \E n \in {1, 2} : DOMAIN outcomes = 1..n
         /\ \A k \in DOMAIN outcomes : outcomes[k] \in {"success", "error"}
         /\ CountOutcome(outcomes, "success") \in Nat
         /\ CountOutcome(outcomes, "error") \in Nat
<1>1. /\ \E n \in {1, 2} : DOMAIN outcomes = 1..n
      /\ \A k \in DOMAIN outcomes : outcomes[k] \in {"success", "error"}
  BY DEF Outcomes
<1>2. PICK n \in Nat : DOMAIN outcomes = 1..n
  BY <1>1
<1>3. QED BY <1>1, <1>2, CountType

\* The lines a task appends.
NewLines(id, outcomes, p) ==
  [k \in DOMAIN outcomes |-> [id |-> id, outcome |-> outcomes[k], prog |-> p]]

LEMMA NewLinesType ==
  ASSUME NEW id \in Ids, NEW outcomes \in Outcomes, NEW p \in Programs,
         NEW lines \in Seq(Line)
  PROVE  /\ lines \o NewLines(id, outcomes, p) \in Seq(Line)
         /\ Recorded(lines \o NewLines(id, outcomes, p)) = Recorded(lines) \cup {id}
<1> DEFINE new == NewLines(id, outcomes, p)
<1>1. PICK n \in {1, 2} : DOMAIN outcomes = 1..n
  BY OutcomesDomain
<1>2. \A k \in DOMAIN outcomes :
        [id |-> id, outcome |-> outcomes[k], prog |-> p] \in Line
  BY OutcomesDomain DEF Line
<1>3. new \in Seq(Line) /\ Len(new) = n
  BY <1>1, <1>2 DEF NewLines
<1>4. \A k \in 1..n : new[k].id = id
  BY <1>1 DEF NewLines
<1> HIDE DEF new
<1>5. /\ lines \o new \in Seq(Line)
      /\ Len(lines \o new) = Len(lines) + n
      /\ \A k \in 1..Len(lines) : (lines \o new)[k] = lines[k]
      /\ \A k \in 1..n : (lines \o new)[Len(lines) + k] = new[k]
  BY <1>3
<1>6. Recorded(lines \o new) \subseteq Recorded(lines) \cup {id}
  <2> SUFFICES ASSUME NEW k \in DOMAIN (lines \o new)
               PROVE  (lines \o new)[k].id \in Recorded(lines) \cup {id}
    BY DEF Recorded
  <2>1. CASE k \in 1..Len(lines)
    BY <1>5, <2>1 DEF Recorded
  <2>2. CASE k \notin 1..Len(lines)
    <3>1. k - Len(lines) \in 1..n /\ k = Len(lines) + (k - Len(lines))
      BY <1>5, <2>2
    <3>2. QED BY <1>4, <1>5, <3>1
  <2>3. QED BY <2>1, <2>2
<1>7. Recorded(lines) \subseteq Recorded(lines \o new)
  <2> SUFFICES ASSUME NEW k \in DOMAIN lines
               PROVE  lines[k].id \in Recorded(lines \o new)
    BY DEF Recorded
  <2>1. k \in DOMAIN (lines \o new) /\ (lines \o new)[k] = lines[k]
    BY <1>5
  <2>2. QED BY <2>1 DEF Recorded
<1>8. id \in Recorded(lines \o new)
  <2>1. Len(lines) + 1 \in DOMAIN (lines \o new) /\ (lines \o new)[Len(lines) + 1].id = id
    BY <1>4, <1>5
  <2>2. QED BY <2>1 DEF Recorded
<1>9. QED BY <1>5, <1>6, <1>7, <1>8 DEF new

-----------------------------------------------------------------------------
(* Types.  A request that has been accepted knows a batch that exists, and *)
(* only requests that went past the loading have tasks.                    *)

Known ==
  /\ \A b \in Batches : row[b] # None => envelope[row[b].dir] # None
  /\ \A q \in Requests : phase[q] # "idle" => target[q] \in Batches /\ row[target[q]] # None
  /\ \A q \in Requests : phase[q] \in Running \/ inflight[q] # {} =>
       program[q] # None /\ phase[q] \notin {"idle", "loading"}

\* The row of b becomes r, a row of the same directory.
RowBecomes(b, r) ==
  /\ r \in Row /\ r.dir = row[b].dir
  /\ row' \in [Batches -> Row \cup {None}]
  /\ row'[b] = r
  /\ \A c \in Batches : c # b => row'[c] = row[c]

\* A row that exists goes on existing in its directory.
KeepsRows ==
  /\ row' \in [Batches -> Row \cup {None}]
  /\ \A b \in Batches : row[b] # None => row'[b] # None /\ row'[b].dir = row[b].dir

\* ... and no other row appears.
SameRows == KeepsRows /\ \A b \in Batches : row'[b] # None => row[b] # None

LEMMA BecomesKeeps ==
  ASSUME TypeOK, NEW b \in Batches, row[b] # None, NEW r, RowBecomes(b, r)
  PROVE  SameRows
BY AbsentRow DEF SameRows, KeepsRows, RowBecomes, TypeOK

LEMMA StatusUpdate ==
  ASSUME TypeOK, NEW b \in Batches, row[b] # None,
         NEW s \in {"pending", "running", "completed", "failed"}, SetStatus(b, s)
  PROVE  /\ RowBecomes(b, [row[b] EXCEPT !.status = s])
         /\ SameRows
         /\ row'[b].status = s /\ row'[b].count = row[b].count
<1>1. row[b] \in Row
  BY DEF TypeOK
<1>2. [row[b] EXCEPT !.status = s] \in Row
  BY <1>1 DEF Row
<1>3. row' = [row EXCEPT ![b] = [row[b] EXCEPT !.status = s]]
  BY DEF SetStatus
<1>4. RowBecomes(b, [row[b] EXCEPT !.status = s]) /\ row[b] # None
  BY <1>1, <1>2, <1>3, AbsentRow DEF RowBecomes, TypeOK, Row
<1>5. SameRows
  BY <1>4, BecomesKeeps
<1>6. QED BY <1>1, <1>3, <1>4, <1>5 DEF TypeOK, Row

LEMMA CountUpdate ==
  ASSUME TypeOK, NEW b \in Batches, row[b] # None, NEW c \in Count,
         row' = [row EXCEPT ![b].count = c]
  PROVE  /\ RowBecomes(b, [row[b] EXCEPT !.count = c])
         /\ SameRows
         /\ row'[b].status = row[b].status /\ row'[b].count = c
<1>1. row[b] \in Row
  BY DEF TypeOK
<1>2. [row[b] EXCEPT !.count = c] \in Row
  BY <1>1 DEF Row
<1>3. row' = [row EXCEPT ![b] = [row[b] EXCEPT !.count = c]]
  OBVIOUS
<1>4. RowBecomes(b, [row[b] EXCEPT !.count = c]) /\ row[b] # None
  BY <1>1, <1>2, <1>3, AbsentRow DEF RowBecomes, TypeOK, Row
<1>5. SameRows
  BY <1>4, BecomesKeeps
<1>6. QED BY <1>1, <1>3, <1>4, <1>5 DEF TypeOK, Row

LEMMA FinalUpdate ==
  ASSUME TypeOK, NEW b \in Batches, row[b] # None, NEW c \in Count,
         NEW s \in {"pending", "running", "completed", "failed"},
         row' = [row EXCEPT ![b].status = s, ![b].count = c]
  PROVE  /\ RowBecomes(b, [row[b] EXCEPT !.status = s, !.count = c])
         /\ SameRows
         /\ row'[b].status = s /\ row'[b].count = c
<1>1. row[b] \in Row
  BY DEF TypeOK
<1>2. [row[b] EXCEPT !.status = s, !.count = c] \in Row
  BY <1>1 DEF Row
<1>3. row' = [row EXCEPT ![b] = [row[b] EXCEPT !.status = s, !.count = c]]
  BY DEF TypeOK
<1>4. RowBecomes(b, [row[b] EXCEPT !.status = s, !.count = c]) /\ row[b] # None
  BY <1>1, <1>2, <1>3, AbsentRow DEF RowBecomes, TypeOK, Row
<1>5. SameRows
  BY <1>4, BecomesKeeps
<1>6. QED BY <1>1, <1>3, <1>4, <1>5 DEF TypeOK, Row

LEMMA CancelUpdate ==
  ASSUME TypeOK, NEW b \in Batches, CancelBatch(b)
  PROVE  /\ RowBecomes(b, [row[b] EXCEPT !.cancelRequested = TRUE])
         /\ SameRows
         /\ row'[b].status = row[b].status /\ row'[b].count = row[b].count
<1>1. row[b] \in Row
  BY DEF TypeOK, CancelBatch
<1>2. [row[b] EXCEPT !.cancelRequested = TRUE] \in Row
  BY <1>1 DEF Row
<1>3. row' = [row EXCEPT ![b] = [row[b] EXCEPT !.cancelRequested = TRUE]]
  BY DEF CancelBatch
<1>4. RowBecomes(b, [row[b] EXCEPT !.cancelRequested = TRUE]) /\ row[b] # None
  BY <1>1, <1>2, <1>3, AbsentRow DEF RowBecomes, TypeOK, Row
<1>5. SameRows
  BY <1>4, BecomesKeeps
<1>6. QED BY <1>1, <1>3, <1>4, <1>5 DEF TypeOK, Row

\* What is known goes on being known when the rows are kept.
LEMMA KnownKept ==
  ASSUME TypeOK, Known, KeepsRows, envelope' = envelope,
         \A q \in Requests :
           /\ phase'[q] # "idle" => phase[q] # "idle" /\ target'[q] = target[q]
           /\ phase'[q] \in Running \/ inflight'[q] # {} =>
                /\ program'[q] = program[q]
                /\ phase[q] \in Running \/ inflight[q] # {}
                /\ phase'[q] \notin {"idle", "loading"},
         \A b \in Batches : row'[b] # None => row[b] # None
  PROVE  Known'
BY DEF Known, KeepsRows

LEMMA RowsUnchanged ==
  ASSUME TypeOK, row' = row
  PROVE  KeepsRows
BY DEF KeepsRows, TypeOK

LEMMA ToolsTypes ==
  ASSUME TypeOK, Known, Tools
  PROVE  TypeOK' /\ Known' /\ KeepsRows
<1> USE DEF TypeOK, files, request, run
<1>1. ASSUME NEW b \in Batches, NEW d \in Dirs, NEW p \in Programs, Create(b, d, p)
      PROVE  TypeOK' /\ Known' /\ KeepsRows
  <2> DEFINE new == [status |-> "pending", dir |-> d, hash |-> p, count |-> NoCount,
                     cancelRequested |-> FALSE]
  <2>0. NoCount \in Count
    BY DEF NoCount, Count
  <2>1. new \in Row /\ new # None /\ new.dir = d
    <3>1. new \in Row
      BY <2>0 DEF Row
    <3>2. QED BY <3>1, AbsentRow
  <2> HIDE DEF new
  <2>2. row' = [row EXCEPT ![b] = new] /\ envelope' = [envelope EXCEPT ![d] = p]
    BY <1>1 DEF Create, new
  <2>3. row[b] = None
    BY <1>1 DEF Create
  <2>4. KeepsRows
    BY <2>1, <2>2, <2>3 DEF KeepsRows
  <2>5. p # None
    BY WorkspaceAssumption
  <2>6. \A c \in Batches : row'[c] # None => envelope'[row'[c].dir] # None
    <3> SUFFICES ASSUME NEW c \in Batches, row'[c] # None PROVE envelope'[row'[c].dir] # None
      OBVIOUS
    <3>1. CASE c = b
      BY <2>1, <2>2, <2>5, <3>1
    <3>2. CASE c # b
      <4>1. row'[c] = row[c] /\ row[c] # None /\ row[c] \in Row
        BY <2>2, <3>2
      <4>2. row[c].dir \in Dirs /\ envelope[row[c].dir] # None
        BY <4>1 DEF Known, Row
      <4>3. QED BY <2>2, <2>5, <4>1, <4>2
    <3>3. QED BY <3>1, <3>2
  <2>7. Known'
    BY <1>1, <2>1, <2>2, <2>6 DEF Create, Known
  <2>8. TypeOK'
    <3>1. row' \in [Batches -> Row \cup {None}]
      BY <2>1, <2>2
    <3>2. envelope' \in [Dirs -> Programs \cup {None}]
      BY <2>2
    <3>3. QED BY <1>1, <3>1, <3>2 DEF Create
  <2>9. QED BY <2>4, <2>7, <2>8
<1>2. ASSUME NEW d \in Dirs, NEW p \in Programs, CreateRejected(d, p)
      PROVE  TypeOK' /\ Known' /\ KeepsRows
  <2>1. p # None
    BY WorkspaceAssumption
  <2>2. TypeOK'
    BY <1>2, WorkspaceAssumption DEF CreateRejected
  <2>3. \A b \in Batches : row[b] # None => row[b].dir \in Dirs
    BY DEF Row
  <2>4. Known'
    BY <1>2, <2>1, <2>3 DEF CreateRejected, Known
  <2>5. QED BY <1>2, <2>2, <2>4, RowsUnchanged DEF CreateRejected
<1>3. ASSUME NEW b \in Batches, CancelBatch(b)
      PROVE  TypeOK' /\ Known' /\ KeepsRows
  <2>1. SameRows
    BY <1>3, CancelUpdate
  <2>2. KeepsRows
    BY <2>1 DEF SameRows
  <2>3. \A c \in Batches : row'[c] # None => row[c] # None
    BY <2>1 DEF SameRows
  <2>4. Known'
    BY <1>3, <2>2, <2>3, KnownKept DEF CancelBatch, Known
  <2>5. TypeOK'
    BY <1>3, <2>2 DEF CancelBatch, KeepsRows
  <2>6. QED BY <2>2, <2>4, <2>5
<1>4. ASSUME NEW q \in Requests, NEW b \in Batches, NEW arg \in BOOLEAN \cup {None},
             Check(q, b, arg)
      PROVE  TypeOK' /\ Known' /\ KeepsRows
  <2>1. Resumes(row[b].status, arg) \in BOOLEAN
    <3>1. CASE arg = None
      BY <3>1 DEF Resumes
    <3>2. CASE arg # None
      BY <3>2 DEF Resumes
    <3>3. QED BY <3>1, <3>2
  <2>2. /\ row' = row /\ row[b] # None /\ target' = [target EXCEPT ![q] = b]
        /\ phase[q] = "idle" /\ phase'[q] \in {"loading", "returned"}
        /\ \A p \in Requests : p # q => phase'[p] = phase[p]
        /\ phase' \in [Requests -> Serving \cup {"idle", "returned", "lost"}]
    BY <1>4 DEF Check, Serving
  <2>3. Known'
    BY <1>4, <2>2 DEF Check, Known, Running, Serving
  <2>4. TypeOK'
    BY <1>4, <2>1, <2>2 DEF Check
  <2>5. QED BY <2>2, <2>3, <2>4, RowsUnchanged
<1>5. QED BY <1>1, <1>2, <1>3, <1>4 DEF Tools

\* The directory of a request that has been accepted.
LEMMA DirType ==
  ASSUME TypeOK, Known, NEW q \in Requests, phase[q] # "idle"
  PROVE  /\ target[q] \in Batches /\ row[target[q]] \in Row /\ row[target[q]] # None
         /\ Dir(q) \in Dirs /\ envelope[Dir(q)] \in Programs
<1>1. target[q] \in Batches /\ row[target[q]] # None
  BY DEF Known
<1>2. row[target[q]] \in Row
  BY <1>1 DEF TypeOK
<1>3. Dir(q) \in Dirs
  BY <1>2 DEF Row, Dir
<1>4. envelope[Dir(q)] # None
  BY <1>1 DEF Known, Dir
<1>5. QED BY <1>1, <1>2, <1>3, <1>4 DEF TypeOK

LEMMA ServeTypes ==
  ASSUME TypeOK, Known, NEW q \in Requests, Serve(q) \/ SourceRaises(q) \/ Cancel(q)
  PROVE  TypeOK' /\ Known' /\ KeepsRows
<1> USE DEF TypeOK, files, request, run
<1>1. CASE LoadFails(q) \/ LeaveLoop(q) \/ FinishCancelled(q) \/ Cancel(q)
  <2>1. /\ UNCHANGED <<row, files, rejected, request, run>>
        /\ phase[q] \in Serving
        /\ phase'[q] \in Serving \cup {"returned"} /\ phase'[q] # "loading"
        /\ phase'[q] \in Running => phase[q] \in Running
        /\ \A p \in Requests : p # q => phase'[p] = phase[p]
        /\ phase' \in [Requests -> Serving \cup {"idle", "returned", "lost"}]
    BY <1>1 DEF LoadFails, LeaveLoop, FinishCancelled, Cancel, Serving, Running
  <2>2. KeepsRows
    BY <2>1, RowsUnchanged
  <2>3. Known'
    BY <2>1 DEF Known, Serving
  <2>4. QED BY <2>1, <2>2, <2>3
<1>2. ASSUME NEW id \in Ids, ReadItem(q, id) PROVE TypeOK' /\ Known' /\ KeepsRows
  <2>1. /\ row' = row /\ envelope' = envelope /\ phase' = phase /\ program' = program
        /\ target' = target /\ phase[q] = "reading"
        /\ \A p \in Requests : p # q => inflight'[p] = inflight[p]
    BY <1>2 DEF ReadItem
  <2>2. TypeOK'
    BY <1>2 DEF ReadItem
  <2>3. Known'
    BY <2>1 DEF Known, Running, Serving
  <2>4. QED BY <2>1, <2>2, <2>3, RowsUnchanged
<1>3. CASE Launch(q)
  <2>1. phase[q] = "loading"
    BY <1>3 DEF Launch
  <2>2. /\ target[q] \in Batches /\ row[target[q]] # None /\ Dir(q) \in Dirs
        /\ envelope[Dir(q)] \in Programs
    BY <2>1, DirType
  <2>3. /\ SetStatus(target[q], "running")
        /\ program' = [program EXCEPT ![q] = envelope[Dir(q)]]
        /\ envelope' = envelope /\ target' = target /\ inflight' = inflight
        /\ phase' = [phase EXCEPT ![q] = "reading"]
    BY <1>3 DEF Launch
  <2>4. KeepsRows /\ SameRows
    <3>1. SameRows
      BY <2>2, <2>3, StatusUpdate
    <3>2. QED BY <3>1 DEF SameRows
  <2>5. Known'
    <3>1. program'[q] # None /\ phase'[q] = "reading"
      BY <2>2, <2>3, WorkspaceAssumption
    <3>2. \A p \in Requests : p # q => /\ phase'[p] = phase[p] /\ program'[p] = program[p]
      BY <2>3
    <3>3. QED BY <2>1, <2>2, <2>3, <2>4, <3>1, <3>2 DEF Known, KeepsRows, SameRows
  <2>6. log' = [log EXCEPT ![Dir(q)].header = IF @ = None THEN envelope[Dir(q)] ELSE @]
    BY <1>3 DEF Launch
  <2>7. log' \in [Dirs -> [header : Programs \cup {None}, items : Seq(Line)]]
    <3> DEFINE h == IF log[Dir(q)].header = None THEN envelope[Dir(q)]
                    ELSE log[Dir(q)].header
    <3>1. h \in Programs \cup {None}
      BY <2>2
    <3>2. [log[Dir(q)] EXCEPT !.header = h]
            \in [header : Programs \cup {None}, items : Seq(Line)]
      BY <2>2, <3>1
    <3>3. log' = [log EXCEPT ![Dir(q)] = [log[Dir(q)] EXCEPT !.header = h]]
      BY <2>6
    <3>4. QED BY <2>2, <3>2, <3>3
  <2>8. /\ todo' \in [Requests -> SUBSET Ids]
        /\ tally' \in [Requests -> Count]
    <3>1. Scan(log[Dir(q)].items) \in Count /\ NoCount \in Count
      BY <2>2, ScanType DEF Count, NoCount
    <3>2. QED BY <1>3, <3>1 DEF Launch
  <2>9. TypeOK'
    BY <1>3, <2>2, <2>3, <2>4, <2>7, <2>8 DEF Launch, KeepsRows, Serving
  <2>10. QED BY <2>4, <2>5, <2>9
<1>4. CASE LaunchMismatch(q)
  <2>1. phase[q] = "loading"
    BY <1>4 DEF LaunchMismatch
  <2>2. target[q] \in Batches /\ row[target[q]] # None /\ envelope[Dir(q)] \in Programs
    BY <2>1, DirType
  <2>3. KeepsRows /\ SameRows
    <3>1. SetStatus(target[q], "failed")
      BY <1>4 DEF LaunchMismatch
    <3>2. SameRows
      BY <2>2, <3>1, StatusUpdate
    <3>3. QED BY <3>2 DEF SameRows
  <2>4. Known'
    <3>1. /\ phase'[q] = "returned" /\ inflight' = inflight /\ target' = target
          /\ envelope' = envelope
          /\ \A p \in Requests : p # q => phase'[p] = phase[p] /\ program'[p] = program[p]
      BY <1>4 DEF LaunchMismatch
    <3>2. inflight[q] = {}
      BY <2>1 DEF Known
    <3>3. QED BY <2>1, <2>3, <3>1, <3>2 DEF Known, KeepsRows, SameRows, Running, Serving
  <2>5. TypeOK'
    BY <1>4, <2>2, <2>3 DEF LaunchMismatch, KeepsRows
  <2>6. QED BY <2>3, <2>4, <2>5
<1>5. CASE Finish(q) \/ SourceRaises(q)
  <2>1. phase[q] \in {"reading", "draining"}
    BY <1>5 DEF Finish, SourceRaises
  <2>2. target[q] \in Batches /\ row[target[q]] # None /\ Dir(q) \in Dirs
    BY <2>1, DirType
  <2>3. /\ envelope' = envelope /\ target' = target /\ inflight' = inflight
        /\ program' = program /\ phase' = [phase EXCEPT ![q] = "returned"]
        /\ log' = log /\ rejected' = rejected /\ UNCHANGED run /\ resume' = resume
    BY <1>5 DEF Finish, SourceRaises
  <2>r. SameRows
    <3>1. CASE Finish(q)
      <4>1. TerminalStatus(q) \in {"completed", "failed"} /\ tally[q] \in Count
        BY DEF TerminalStatus
      <4>2. row' = [row EXCEPT ![target[q]].status = TerminalStatus(q),
                               ![target[q]].count = tally[q]]
        BY <3>1 DEF Finish
      <4>3. QED BY <2>2, <4>1, <4>2, FinalUpdate
    <3>2. CASE SourceRaises(q)
      <4>1. SetStatus(target[q], "failed")
        BY <3>2 DEF SourceRaises, MarkFailed
      <4>2. QED BY <2>2, <4>1, StatusUpdate
    <3>3. QED BY <1>5, <3>1, <3>2
  <2>4. KeepsRows /\ SameRows
    BY <2>r DEF SameRows
  <2>5. manifest' \in [Dirs -> [batch : Batches, status : {"stopped", "completed"},
                                count : Count] \cup {None}]
    BY <1>5, <2>2 DEF Finish, WriteManifest, SourceRaises
  <2>6. Known'
    BY <2>1, <2>3, <2>4 DEF Known, KeepsRows, SameRows, Running, Serving
  <2>7. TypeOK'
    BY <2>3, <2>4, <2>5 DEF KeepsRows
  <2>8. QED BY <2>4, <2>6, <2>7
<1>6. QED BY <1>1, <1>2, <1>3, <1>4, <1>5 DEF Serve

LEMMA WorkRecords ==
  ASSUME NEW q \in Requests, NEW id \in Ids, NEW o \in {"success", "error"},
         ItemEnds(q, id, o) \/ OrphanEnds(q, id, o)
  PROVE  \E outcomes \in Outcomes : Record(q, id, outcomes)
BY DEF ItemEnds, OrphanEnds, Outcomes

\* What one record changes.
LEMMA RecordTypes ==
  ASSUME TypeOK, Known, NEW q \in Requests, NEW id \in Ids, NEW outcomes \in Outcomes,
         Record(q, id, outcomes)
  PROVE  /\ Dir(q) \in Dirs /\ target[q] \in Batches /\ row[target[q]] # None
         /\ log' \in [Dirs -> [header : Programs \cup {None}, items : Seq(Line)]]
         /\ tally' \in [Requests -> Count]
         /\ inflight' = [inflight EXCEPT ![q] = @ \ {id}]
         /\ Recorded(log'[Dir(q)].items) = Recorded(log[Dir(q)].items) \cup {id}
         /\ \A d \in Dirs : d # Dir(q) => log'[d] = log[d]
<1>1. phase[q] # "idle" /\ program[q] \in Programs
  BY DEF Record, Known, TypeOK
<1>2. target[q] \in Batches /\ row[target[q]] # None /\ Dir(q) \in Dirs
  BY <1>1, DirType
<1> DEFINE lines == log[Dir(q)].items
           new == NewLines(id, outcomes, program[q])
<1>3. lines \in Seq(Line)
  BY <1>2 DEF TypeOK
<1>4. lines \o new \in Seq(Line) /\ Recorded(lines \o new) = Recorded(lines) \cup {id}
  BY <1>1, <1>3, NewLinesType
<1>5. log' = [log EXCEPT ![Dir(q)].items = @ \o new]
  BY DEF Record, NewLines
<1> HIDE DEF new
<1>6. /\ log' \in [Dirs -> [header : Programs \cup {None}, items : Seq(Line)]]
      /\ log'[Dir(q)].items = lines \o new
      /\ \A d \in Dirs : d # Dir(q) => log'[d] = log[d]
  BY <1>2, <1>4, <1>5 DEF TypeOK
<1>7. CountOutcome(outcomes, "success") \in Nat /\ CountOutcome(outcomes, "error") \in Nat
  BY OutcomesDomain
<1>8. tally' \in [Requests -> Count]
  BY <1>7 DEF Record, TypeOK, Count
<1>9. QED BY <1>2, <1>4, <1>6, <1>8 DEF Record

LEMMA WorkTypes ==
  ASSUME TypeOK, Known, NEW q \in Requests, Work(q)
  PROVE  TypeOK' /\ Known' /\ KeepsRows
<1> USE DEF TypeOK, files, request, run
<1>1. ASSUME NEW id \in Ids, ItemDropped(q, id) PROVE TypeOK' /\ Known' /\ KeepsRows
  <2>1. TypeOK'
    BY <1>1 DEF ItemDropped
  <2>2. KeepsRows
    BY <1>1, RowsUnchanged DEF ItemDropped
  <2>3. Known'
    BY <1>1 DEF ItemDropped, Known
  <2>4. QED BY <2>1, <2>2, <2>3
<1>2. ASSUME NEW id \in Ids, NEW o \in {"success", "error"},
             ItemEnds(q, id, o) \/ OrphanEnds(q, id, o)
      PROVE  TypeOK' /\ Known' /\ KeepsRows
  <2>1. PICK outcomes \in Outcomes : Record(q, id, outcomes)
    BY <1>2, WorkRecords
  <2>2. /\ target[q] \in Batches /\ row[target[q]] # None
        /\ log' \in [Dirs -> [header : Programs \cup {None}, items : Seq(Line)]]
        /\ tally' \in [Requests -> Count]
        /\ inflight' = [inflight EXCEPT ![q] = @ \ {id}]
    BY <2>1, RecordTypes
  <2>3. /\ envelope' = envelope /\ manifest' = manifest /\ rejected' = rejected
        /\ phase' = phase /\ target' = target /\ resume' = resume /\ program' = program
        /\ todo' = todo /\ stopped' \in [Requests -> BOOLEAN]
    BY <1>2 DEF ItemEnds, OrphanEnds
  <2>4. KeepsRows /\ SameRows
    <3>1. CASE ItemEnds(q, id, o)
      <4>1. row' = [row EXCEPT ![target[q]].count = tally'[q]] /\ tally'[q] \in Count
        BY <2>2, <3>1 DEF ItemEnds
      <4>2. SameRows
        BY <2>2, <4>1, CountUpdate
      <4>3. QED BY <4>2 DEF SameRows
    <3>2. CASE OrphanEnds(q, id, o)
      BY <3>2, RowsUnchanged DEF OrphanEnds, SameRows
    <3>3. QED BY <1>2, <3>1, <3>2
  <2>5. Known'
    BY <2>2, <2>3, <2>4 DEF Known, KeepsRows, SameRows
  <2>6. TypeOK'
    BY <2>2, <2>3, <2>4 DEF KeepsRows
  <2>7. QED BY <2>4, <2>5, <2>6
<1>3. QED BY <1>1, <1>2 DEF Work

LEMMA CrashTypes ==
  ASSUME TypeOK, Known, Crash
  PROVE  TypeOK' /\ Known' /\ KeepsRows
<1> USE DEF TypeOK, request
<1>1. /\ row' = row /\ envelope' = envelope /\ target' = target
      /\ inflight' = [q \in Requests |-> {}]
      /\ phase' = [q \in Requests |-> IF phase[q] \in Serving THEN "lost" ELSE phase[q]]
  BY DEF Crash
<1>2. KeepsRows
  BY <1>1, RowsUnchanged
<1>3. Known'
  BY <1>1 DEF Known, Running, Serving
<1>4. manifest' \in [Dirs -> [batch : Batches, status : {"stopped", "completed"},
                              count : Count] \cup {None}]
  <2>1. CASE UNCHANGED manifest
    BY <2>1
  <2>2. ASSUME NEW q \in Requests, phase[q] = "draining", WriteManifest(q)
        PROVE  manifest' \in [Dirs -> [batch : Batches, status : {"stopped", "completed"},
                                       count : Count] \cup {None}]
    <3>1. Dir(q) \in Dirs /\ target[q] \in Batches
      BY <2>2, DirType
    <3>2. QED BY <2>2, <3>1 DEF WriteManifest
  <2>3. QED BY <2>1, <2>2 DEF Crash
<1>5. TypeOK'
  BY <1>1, <1>4 DEF Crash, Serving
<1>6. QED BY <1>2, <1>3, <1>5

LEMMA TypesNext ==
  ASSUME TypeOK, Known, [Next]_vars
  PROVE  TypeOK' /\ Known' /\ KeepsRows
<1>1. CASE UNCHANGED vars
  BY <1>1, RowsUnchanged DEF vars, files, request, run, TypeOK, Known
<1>2. QED BY <1>1, ToolsTypes, ServeTypes, WorkTypes, CrashTypes DEF Next

LEMMA KnownHolds == Spec => [](TypeOK /\ Known)
<1>1. Init => TypeOK /\ Known
  BY WorkspaceAssumption
     DEF Init, TypeOK, Known, NoCount, Count, Running, Serving
<1>2. TypeOK /\ Known /\ [Next]_vars => (TypeOK /\ Known)'
  BY TypesNext
<1>3. QED BY <1>1, <1>2, PTL DEF Spec

\* Rows, files and requests keep their types under every fault; "cancelled" is a
\* status no row ever has.
THEOREM WorkspaceTypes == Spec => []TypeOK
BY KnownHolds, PTL
-----------------------------------------------------------------------------
(* "completed" is backed by the log.                                       *)

\* A request accounts for every item until something stops it: the item is yet
\* to be read, in a task, or in the log.
Accounted(q) ==
  /\ phase[q] \in Running =>
       \/ stopped[q] \/ phase[q] = "cancelling"
       \/ Ids \subseteq todo[q] \cup inflight[q] \cup Recorded(log[Dir(q)].items)
  /\ phase[q] = "draining" => stopped[q] \/ todo[q] = {}

CompleteInvariant == CompletedIsComplete /\ \A q \in Requests : Accounted(q)

\* Records stay in their directory.
LEMMA RecordsKept ==
  ASSUME TypeOK, Known, [Next]_vars
  PROVE  \A d \in Dirs : Recorded(log[d].items) \subseteq Recorded(log'[d].items)
<1>1. CASE log' = log
  BY <1>1
<1>2. ASSUME NEW q \in Requests, Launch(q)
      PROVE  \A d \in Dirs : Recorded(log[d].items) \subseteq Recorded(log'[d].items)
  <2>1. log' = [log EXCEPT ![Dir(q)].header = IF @ = None THEN envelope[Dir(q)] ELSE @]
    BY <1>2 DEF Launch
  <2>2. \A d \in Dirs : log'[d].items = log[d].items
    BY <2>1 DEF TypeOK
  <2>3. QED BY <2>2
<1>3. ASSUME NEW q \in Requests, NEW id \in Ids, NEW o \in {"success", "error"},
             ItemEnds(q, id, o) \/ OrphanEnds(q, id, o)
      PROVE  \A d \in Dirs : Recorded(log[d].items) \subseteq Recorded(log'[d].items)
  <2>1. PICK outcomes \in Outcomes : Record(q, id, outcomes)
    BY <1>3, WorkRecords
  <2>2. /\ Recorded(log'[Dir(q)].items) = Recorded(log[Dir(q)].items) \cup {id}
        /\ \A d \in Dirs : d # Dir(q) => log'[d] = log[d]
    BY <2>1, RecordTypes
  <2>3. QED BY <2>2
<1>4. QED
  BY <1>1, <1>2, <1>3
     DEF Next, vars, files, Tools, Create, CreateRejected, CancelBatch, Check, Crash, Serve,
         LoadFails, LaunchMismatch, ReadItem, LeaveLoop, Finish, FinishCancelled, Work,
         ItemDropped, SourceRaises, Cancel

\* The directory of a request does not change.
LEMMA DirKept ==
  ASSUME TypeOK, Known, KeepsRows, NEW q \in Requests, phase[q] # "idle",
         target'[q] = target[q]
  PROVE  Dir(q)' = Dir(q)
BY DEF Known, KeepsRows, Dir

LEMMA AccountedKept ==
  ASSUME TypeOK, Known, [Next]_vars, NEW q \in Requests, Accounted(q),
         target'[q] = target[q],
         phase'[q] \in Running => phase[q] \in Running,
         phase'[q] = "draining" => phase[q] = "draining",
         phase[q] = "cancelling" /\ phase'[q] \in Running => phase'[q] = "cancelling",
         stopped[q] => stopped'[q], todo'[q] = todo[q], inflight'[q] = inflight[q]
  PROVE  Accounted(q)'
<1>1. phase'[q] \in Running =>
        Recorded(log[Dir(q)].items) \subseteq Recorded(log'[Dir(q)'].items)
  <2> SUFFICES ASSUME phase'[q] \in Running
               PROVE  Recorded(log[Dir(q)].items) \subseteq Recorded(log'[Dir(q)'].items)
    OBVIOUS
  <2>1. phase[q] # "idle"
    BY DEF Running, Serving
  <2>2. Dir(q) \in Dirs /\ Dir(q)' = Dir(q)
    BY <2>1, DirType, DirKept, TypesNext
  <2>3. QED BY <2>2, RecordsKept
<1>2. QED BY <1>1 DEF Accounted

\* What a step of a request leaves of another.
LEMMA OtherRequest ==
  ASSUME TypeOK, NEW p \in Requests,
         Serve(p) \/ Work(p) \/ SourceRaises(p) \/ Cancel(p),
         NEW q \in Requests, q # p
  PROVE  /\ phase'[q] = phase[q] /\ todo'[q] = todo[q] /\ inflight'[q] = inflight[q]
         /\ stopped'[q] = stopped[q] /\ target' = target /\ tally'[q] = tally[q]
<1> USE DEF TypeOK, files, request, run
<1>1. CASE Serve(p)
  BY <1>1 DEF Serve, LoadFails, Launch, LaunchMismatch, ReadItem, LeaveLoop, Finish,
              FinishCancelled
<1>2. CASE Work(p)
  BY <1>2 DEF Work, ItemDropped, ItemEnds, OrphanEnds, Record
<1>3. CASE SourceRaises(p) \/ Cancel(p)
  BY <1>3 DEF SourceRaises, Cancel
<1>4. QED BY <1>1, <1>2, <1>3

LEMMA AccountedStep ==
  ASSUME TypeOK, Known, Next, NEW q \in Requests, Accounted(q),
         Serve(q) \/ Work(q) \/ SourceRaises(q) \/ Cancel(q)
  PROVE  Accounted(q)'
<1> USE DEF TypeOK, files, request, run
<1>k. KeepsRows /\ [Next]_vars
  BY TypesNext
<1>1. CASE LoadFails(q) \/ LaunchMismatch(q) \/ Finish(q) \/ FinishCancelled(q) \/ SourceRaises(q)
  <2>1. phase'[q] = "returned"
    BY <1>1 DEF LoadFails, LaunchMismatch, Finish, FinishCancelled, SourceRaises
  <2>2. QED BY <2>1 DEF Accounted, Running, Serving
<1>2. CASE Cancel(q)
  <2>1. phase'[q] \in {"returned", "cancelling"}
    BY <1>2 DEF Cancel
  <2>2. QED BY <2>1 DEF Accounted, Running, Serving
<1>3. CASE Launch(q)
  <2>1. /\ target' = target /\ phase[q] = "loading" /\ phase'[q] = "reading"
        /\ Ids \subseteq todo'[q] \cup Recorded(log[Dir(q)].items)
    BY <1>3 DEF Launch
  <2>2. Dir(q) \in Dirs /\ Dir(q)' = Dir(q)
    BY <1>k, <2>1, DirType, DirKept
  <2>3. Recorded(log[Dir(q)].items) \subseteq Recorded(log'[Dir(q)'].items)
    BY <1>k, <2>2, RecordsKept
  <2>4. QED BY <2>1, <2>3 DEF Accounted
<1>4. ASSUME NEW id \in Ids, ReadItem(q, id) PROVE Accounted(q)'
  <2>1. /\ target' = target /\ phase[q] = "reading" /\ phase'[q] = "reading"
        /\ stopped' = stopped /\ log' = log /\ row' = row
        /\ todo'[q] \cup inflight'[q] = todo[q] \cup inflight[q]
    BY <1>4 DEF ReadItem
  <2>2. Dir(q)' = Dir(q)
    BY <2>1 DEF Dir
  <2>3. QED BY <2>1, <2>2 DEF Accounted, Running, Serving
<1>5. CASE LeaveLoop(q)
  <2>1. /\ phase[q] = "reading" /\ phase'[q] = "draining" /\ todo' = todo
        /\ inflight' = inflight /\ log' = log /\ row' = row /\ target' = target
        /\ stopped' = stopped
        /\ stopped[q] \/ todo[q] = {}
    BY <1>5 DEF LeaveLoop
  <2>2. Dir(q)' = Dir(q)
    BY <2>1 DEF Dir
  <2>3. QED BY <2>1, <2>2 DEF Accounted, Running, Serving
<1>6. ASSUME NEW id \in Ids, ItemDropped(q, id) PROVE Accounted(q)'
  <2>1. /\ phase' = phase /\ stopped' = stopped /\ todo' = todo
        /\ stopped[q] \/ phase[q] = "cancelling"
    BY <1>6 DEF ItemDropped
  <2>2. QED BY <2>1 DEF Accounted
<1>7. ASSUME NEW id \in Ids, NEW o \in {"success", "error"},
             ItemEnds(q, id, o) \/ OrphanEnds(q, id, o)
      PROVE  Accounted(q)'
  <2>1. PICK outcomes \in Outcomes : Record(q, id, outcomes)
    BY <1>7, WorkRecords
  <2>2. /\ inflight' = [inflight EXCEPT ![q] = @ \ {id}]
        /\ Recorded(log'[Dir(q)].items) = Recorded(log[Dir(q)].items) \cup {id}
    BY <2>1, RecordTypes
  <2>3. /\ phase' = phase /\ todo' = todo /\ target' = target
        /\ stopped[q] => stopped'[q]
    BY <1>7 DEF ItemEnds, OrphanEnds
  <2>4. ASSUME phase[q] \in Running PROVE Dir(q)' = Dir(q)
    <3>1. phase[q] # "idle"
      BY <2>4 DEF Running, Serving
    <3>2. QED BY <1>k, <2>3, <3>1, DirKept
  <2>5. QED BY <2>2, <2>3, <2>4 DEF Accounted
<1>8. QED
  BY <1>1, <1>2, <1>3, <1>4, <1>5, <1>6, <1>7 DEF Serve, Work

\* Only the end of a request makes a row "completed".
LEMMA CompletedStep ==
  ASSUME TypeOK, Known, [Next]_vars, NEW b \in Batches, HasStatus(b, "completed")'
  PROVE  \/ HasStatus(b, "completed")
         \/ \E q \in Requests : Finish(q) /\ target[q] = b /\ ~stopped[q]
<1> USE DEF HasStatus
<1>1. CASE row' = row
  BY <1>1
<1>2. ASSUME NEW c \in Batches, NEW d \in Dirs, NEW p \in Programs, Create(c, d, p)
      PROVE  HasStatus(b, "completed")
  BY <1>2 DEF Create, TypeOK
<1>3. ASSUME NEW c \in Batches, CancelBatch(c) PROVE HasStatus(b, "completed")
  BY <1>3, CancelUpdate DEF CancelBatch, RowBecomes
<1>4. ASSUME NEW q \in Requests, Launch(q) \/ LaunchMismatch(q) \/ SourceRaises(q)
      PROVE  HasStatus(b, "completed")
  <2>1. phase[q] \in {"loading", "reading"}
    BY <1>4 DEF Launch, LaunchMismatch, SourceRaises
  <2>2. target[q] \in Batches /\ row[target[q]] # None
    BY <2>1, DirType
  <2>3. PICK s \in {"running", "failed"} : SetStatus(target[q], s)
    BY <1>4 DEF Launch, LaunchMismatch, SourceRaises, MarkFailed
  <2>4. /\ row'[target[q]].status = s
        /\ \A c \in Batches : c # target[q] => row'[c] = row[c]
    BY <2>2, <2>3, StatusUpdate DEF RowBecomes
  <2>5. QED BY <2>3, <2>4
<1>5. ASSUME NEW q \in Requests, NEW id \in Ids, NEW o \in {"success", "error"},
             ItemEnds(q, id, o)
      PROVE  HasStatus(b, "completed")
  <2>1. PICK outcomes \in Outcomes : Record(q, id, outcomes)
    BY <1>5, WorkRecords
  <2>2. target[q] \in Batches /\ row[target[q]] # None /\ tally'[q] \in Count
    BY <2>1, RecordTypes
  <2>3. row' = [row EXCEPT ![target[q]].count = tally'[q]]
    BY <1>5 DEF ItemEnds
  <2>4. /\ row'[target[q]].status = row[target[q]].status
        /\ \A c \in Batches : c # target[q] => row'[c] = row[c]
    BY <2>2, <2>3, CountUpdate DEF RowBecomes
  <2>5. QED BY <2>2, <2>4
<1>6. ASSUME NEW q \in Requests, Finish(q), ~HasStatus(b, "completed")
      PROVE  target[q] = b /\ ~stopped[q]
  <2>1. target[q] \in Batches /\ row[target[q]] # None
    BY <1>6, DirType DEF Finish
  <2>2. TerminalStatus(q) \in {"completed", "failed"} /\ tally[q] \in Count
    BY DEF TerminalStatus, TypeOK
  <2>3. row' = [row EXCEPT ![target[q]].status = TerminalStatus(q),
                           ![target[q]].count = tally[q]]
    BY <1>6 DEF Finish
  <2>4. /\ row'[target[q]].status = TerminalStatus(q)
        /\ \A c \in Batches : c # target[q] => row'[c] = row[c]
    BY <2>1, <2>2, <2>3, FinalUpdate DEF RowBecomes
  <2>5. target[q] = b
    BY <1>6, <2>4
  <2>6. TerminalStatus(q) = "completed"
    BY <2>4, <2>5
  <2>7. QED BY <2>5, <2>6 DEF TerminalStatus
<1>7. QED
  BY <1>1, <1>2, <1>3, <1>4, <1>5, <1>6
     DEF Next, vars, files, Tools, CreateRejected, Check, Crash, Serve, LoadFails, ReadItem,
         LeaveLoop, FinishCancelled, Work, ItemDropped, OrphanEnds, Cancel

LEMMA CompleteNext ==
  ASSUME TypeOK, Known, CompleteInvariant, [Next]_vars
  PROVE  CompleteInvariant'
<1>k. KeepsRows
  BY TypesNext
<1>1. ASSUME NEW b \in Batches, HasStatus(b, "completed")'
      PROVE  Ids \subseteq Recorded(log'[row'[b].dir].items)
  <2>1. CASE HasStatus(b, "completed")
    <3>1. /\ row[b] # None /\ row'[b].dir = row[b].dir
          /\ Ids \subseteq Recorded(log[row[b].dir].items)
      BY <1>k, <2>1 DEF HasStatus, KeepsRows, CompleteInvariant, CompletedIsComplete
    <3>2. row[b].dir \in Dirs
      BY <3>1 DEF TypeOK, Row
    <3>3. QED BY <3>1, <3>2, RecordsKept
  <2>2. ASSUME NEW q \in Requests, Finish(q), target[q] = b, ~stopped[q]
        PROVE  Ids \subseteq Recorded(log'[row'[b].dir].items)
    <3>1. phase[q] = "draining" /\ inflight[q] = {} /\ log' = log
      BY <2>2 DEF Finish
    <3>2. Ids \subseteq Recorded(log[Dir(q)].items)
      BY <2>2, <3>1 DEF CompleteInvariant, Accounted, Running, Serving
    <3>3. row'[b].dir = Dir(q)
      BY <1>k, <2>2, <3>1, DirType DEF KeepsRows, Dir
    <3>4. QED BY <3>1, <3>2, <3>3
  <2>3. QED BY <1>1, <2>1, <2>2, CompletedStep
<1>2. ASSUME NEW q \in Requests PROVE Accounted(q)'
  <2>q. Accounted(q)
    BY DEF CompleteInvariant
  <2>1. CASE UNCHANGED vars
    BY <2>1, <2>q, AccountedKept DEF vars, request, run
  <2>2. CASE Tools
    <3>1. CASE phase[q] # "idle"
      <4>1. /\ target'[q] = target[q] /\ phase'[q] = phase[q] /\ stopped' = stopped
            /\ todo' = todo /\ inflight' = inflight
        BY <2>2, <3>1 DEF Tools, Create, CreateRejected, CancelBatch, Check, request, run, TypeOK
      <4>2. QED BY <2>q, <4>1, AccountedKept
    <3>2. CASE phase[q] = "idle"
      <4>1. phase'[q] \in {"idle", "loading", "returned"}
        BY <2>2, <3>2 DEF Tools, Create, CreateRejected, CancelBatch, Check, TypeOK
      <4>2. QED BY <4>1 DEF Accounted, Running, Serving
    <3>3. QED BY <3>1, <3>2
  <2>3. CASE Crash
    <3>1. phase'[q] \notin Serving
      BY <2>3 DEF Crash, Serving
    <3>2. QED BY <3>1 DEF Accounted, Running, Serving
  <2>4. ASSUME NEW p \in Requests, Serve(p) \/ Work(p) \/ SourceRaises(p) \/ Cancel(p)
        PROVE  Accounted(q)'
    <3>1. CASE p = q
      BY <2>4, <2>q, <3>1, AccountedStep DEF Next
    <3>2. CASE p # q
      BY <2>4, <2>q, <3>2, OtherRequest, AccountedKept
    <3>3. QED BY <3>1, <3>2
  <2>5. QED BY <2>1, <2>2, <2>3, <2>4 DEF Next
<1>3. QED BY <1>1, <1>2 DEF CompleteInvariant, CompletedIsComplete

\* A row that says "completed" is backed by the log: every item of the batch has
\* a record in its directory, whatever requests raced, shared the directory,
\* died or were cancelled.
THEOREM CompletedIsCompleteHolds == Spec => []CompletedIsComplete
<1>1. Init => CompleteInvariant
  BY DEF Init, CompleteInvariant, CompletedIsComplete, HasStatus, Accounted, Running, Serving
<1>2. TypeOK /\ Known /\ CompleteInvariant /\ [Next]_vars => CompleteInvariant'
  BY CompleteNext
<1>3. CompleteInvariant => CompletedIsComplete
  BY DEF CompleteInvariant
<1>4. QED BY <1>1, <1>2, <1>3, KnownHolds, PTL DEF Spec
-----------------------------------------------------------------------------
(* One runner.  What Check read of the row is still true when the request  *)
(* is launched, because no other request is loading in between.            *)

IsRunning(b) == HasStatus(b, "running")

RunnerInvariant ==
  /\ OneRunner
  /\ \A p, q \in Requests : phase[p] = "loading" /\ phase[q] = "loading" => p = q
  /\ \A q \in Requests : phase[q] = "loading" => ~IsRunning(target[q])

\* Steps that start no request and no batch.
LEMMA RunnerKept ==
  ASSUME TypeOK, Known, RunnerInvariant,
         \A b \in Batches : row[b] # None => (IsRunning(b)' <=> IsRunning(b)),
         \A q \in Requests :
           /\ phase'[q] \in Running => phase[q] \in Running /\ target'[q] = target[q]
           /\ phase'[q] = "loading" => phase[q] = "loading" /\ target'[q] = target[q]
  PROVE  RunnerInvariant'
<1>1. \A q \in Requests : phase'[q] \in Running \cup {"loading"} =>
        /\ target[q] \in Batches /\ row[target[q]] # None /\ target'[q] = target[q]
        /\ IsRunning(target[q])' <=> IsRunning(target[q])
  BY DEF Known, Running, Serving
<1>2. OneRunner'
  BY <1>1 DEF RunnerInvariant, OneRunner, IsRunning
<1>3. \A q \in Requests : phase'[q] = "loading" => ~IsRunning(target[q])'
  BY <1>1 DEF RunnerInvariant
<1>4. QED BY <1>2, <1>3 DEF RunnerInvariant

LEMMA ToolsRunner ==
  ASSUME TypeOK, Known, RunnerInvariant, LoadSuspends = FALSE, Tools
  PROVE  RunnerInvariant'
<1>1. ASSUME NEW b \in Batches, NEW d \in Dirs, NEW p \in Programs, Create(b, d, p)
      PROVE  RunnerInvariant'
  <2>1. \A c \in Batches : row[c] # None => row'[c] = row[c]
    BY <1>1 DEF Create
  <2>2. phase' = phase /\ target' = target
    BY <1>1 DEF Create, request
  <2>3. QED BY <2>1, <2>2, RunnerKept DEF IsRunning, HasStatus
<1>2. ASSUME NEW d \in Dirs, NEW p \in Programs, CreateRejected(d, p) PROVE RunnerInvariant'
  BY <1>2, RunnerKept DEF CreateRejected, request, IsRunning, HasStatus
<1>3. ASSUME NEW b \in Batches, CancelBatch(b) PROVE RunnerInvariant'
  <2>1. \A c \in Batches : row[c] # None => row'[c] # None /\ row'[c].status = row[c].status
    BY <1>3, CancelUpdate, AbsentRow DEF RowBecomes
  <2>2. phase' = phase /\ target' = target
    BY <1>3 DEF CancelBatch, request
  <2>3. QED BY <2>1, <2>2, RunnerKept DEF IsRunning, HasStatus
<1>4. ASSUME NEW q \in Requests, NEW b \in Batches, NEW arg \in BOOLEAN \cup {None},
             Check(q, b, arg)
      PROVE  RunnerInvariant'
  <2>1. /\ row' = row /\ target'[q] = b /\ phase'[q] \in {"loading", "returned"}
        /\ phase'[q] = "loading" => ~IsRunning(b)
        /\ \A p \in Requests : p # q => phase'[p] = phase[p] /\ target'[p] = target[p]
        /\ \A p \in Requests : phase[p] # "loading"
    BY <1>4 DEF Check, Admits, IsRunning, HasStatus, TypeOK
  <2>2. \A p \in Requests : p # q \/ phase'[p] \notin Running
    BY <2>1 DEF Running, Serving
  <2>3. OneRunner'
    BY <2>1, <2>2 DEF RunnerInvariant, OneRunner, HasStatus
  <2>4. \A p \in Requests : phase'[p] = "loading" => p = q
    BY <2>1
  <2>5. QED BY <2>1, <2>3, <2>4 DEF RunnerInvariant, IsRunning, HasStatus
<1>5. QED BY <1>1, <1>2, <1>3, <1>4 DEF Tools

\* A request that is launched, or ends with a status for its row.
LEMMA ServeRunner ==
  ASSUME TypeOK, Known, RunnerInvariant, NEW q \in Requests,
         Serve(q) \/ SourceRaises(q) \/ Cancel(q)
  PROVE  RunnerInvariant'
<1>o. \A p \in Requests : p # q => phase'[p] = phase[p] /\ target' = target
  BY OtherRequest
<1>1. CASE LoadFails(q) \/ LeaveLoop(q) \/ FinishCancelled(q) \/ Cancel(q)
           \/ \E id \in Ids : ReadItem(q, id)
  <2>1. /\ row' = row /\ target' = target
        /\ phase'[q] \in Running => phase[q] \in Running
        /\ phase'[q] # "loading"
    BY <1>1 DEF LoadFails, LeaveLoop, FinishCancelled, Cancel, ReadItem, request, Running,
                Serving, TypeOK
  <2>2. QED BY <1>o, <2>1, RunnerKept DEF IsRunning, HasStatus
<1>2. CASE Launch(q)
  <2>1. /\ phase[q] = "loading" /\ phase'[q] = "reading" /\ target' = target
        /\ SetStatus(target[q], "running")
    BY <1>2 DEF Launch, TypeOK
  <2>2. target[q] \in Batches /\ row[target[q]] # None
    BY <2>1, DirType
  <2>3. /\ row'[target[q]] # None /\ row'[target[q]].status = "running"
        /\ \A c \in Batches : c # target[q] => row'[c] = row[c]
    BY <2>1, <2>2, StatusUpdate DEF RowBecomes, SameRows, KeepsRows
  <2>4. \A p \in Requests : p # q => phase'[p] = phase[p] /\ phase'[p] # "loading"
    BY <1>o, <2>1 DEF RunnerInvariant
  <2>5. \A p \in Requests : p # q /\ phase'[p] \in Running =>
          target[p] # target[q] /\ target[p] \in Batches
    BY <2>1, <2>4 DEF RunnerInvariant, OneRunner, IsRunning, Known, Running, Serving
  <2>6. OneRunner'
    <3>1. \A p \in Requests : phase'[p] \in Running => HasStatus(target[p], "running")'
      BY <2>1, <2>2, <2>3, <2>4, <2>5 DEF RunnerInvariant, OneRunner, HasStatus
    <3>2. \A p, p2 \in Requests :
            phase'[p] \in Running /\ phase'[p2] \in Running /\ target[p] = target[p2] => p = p2
      BY <2>4, <2>5 DEF RunnerInvariant, OneRunner
    <3>3. QED BY <2>1, <3>1, <3>2 DEF OneRunner, HasStatus
  <2>7. QED BY <2>1, <2>4, <2>6 DEF RunnerInvariant
<1>3. CASE LaunchMismatch(q) \/ Finish(q) \/ SourceRaises(q)
  <2>1. /\ phase[q] \in {"loading", "reading", "draining"} /\ phase'[q] = "returned"
        /\ target' = target
    BY <1>3 DEF LaunchMismatch, Finish, SourceRaises, request, TypeOK
  <2>2. target[q] \in Batches /\ row[target[q]] # None
    BY <2>1, DirType
  <2>3. \A c \in Batches : c # target[q] => row'[c] = row[c]
    <3>1. CASE LaunchMismatch(q) \/ SourceRaises(q)
      <4>1. SetStatus(target[q], "failed")
        BY <3>1 DEF LaunchMismatch, SourceRaises, MarkFailed
      <4>2. QED BY <2>2, <4>1, StatusUpdate DEF RowBecomes
    <3>2. CASE Finish(q)
      <4>1. TerminalStatus(q) \in {"completed", "failed"} /\ tally[q] \in Count
        BY DEF TerminalStatus, TypeOK
      <4>2. QED BY <2>2, <3>2, <4>1, FinalUpdate DEF Finish, RowBecomes
    <3>3. QED BY <1>3, <3>1, <3>2
  <2>r. ~IsRunning(target[q])'
    <3>1. CASE LaunchMismatch(q) \/ SourceRaises(q)
      <4>1. SetStatus(target[q], "failed")
        BY <3>1 DEF LaunchMismatch, SourceRaises, MarkFailed
      <4>2. row'[target[q]].status = "failed"
        BY <2>2, <4>1, StatusUpdate
      <4>3. QED BY <2>1, <4>2 DEF IsRunning, HasStatus
    <3>2. CASE Finish(q)
      <4>1. TerminalStatus(q) \in {"completed", "failed"} /\ tally[q] \in Count
        BY DEF TerminalStatus, TypeOK
      <4>2. row'[target[q]].status = TerminalStatus(q)
        BY <2>2, <3>2, <4>1, FinalUpdate DEF Finish
      <4>3. QED BY <2>1, <4>1, <4>2 DEF IsRunning, HasStatus
    <3>3. QED BY <1>3, <3>1, <3>2
  \* A request that runs works on another batch.
  <2>4. \A p \in Requests : phase'[p] \in Running =>
          /\ p # q /\ phase[p] \in Running
          /\ target[p] # target[q] /\ target[p] \in Batches
    <3>1. ASSUME NEW p \in Requests, phase'[p] \in Running
          PROVE  /\ p # q /\ phase[p] \in Running
                 /\ target[p] # target[q] /\ target[p] \in Batches
      <4>1. p # q /\ phase[p] \in Running
        BY <1>o, <2>1, <3>1 DEF Running, Serving
      <4>2. target[p] \in Batches
        BY <4>1 DEF Known, Running, Serving
      <4>3. target[p] # target[q]
        <5>1. CASE phase[q] = "loading"
          BY <4>1, <5>1 DEF RunnerInvariant, OneRunner, IsRunning
        <5>2. CASE phase[q] # "loading"
          BY <2>1, <4>1, <5>2 DEF RunnerInvariant, OneRunner, Running, Serving
        <5>3. QED BY <5>1, <5>2
      <4>4. QED BY <4>1, <4>2, <4>3
    <3>2. QED BY <3>1
  <2>5. OneRunner'
    <3>1. \A p \in Requests : phase'[p] \in Running => HasStatus(target[p], "running")'
      BY <2>1, <2>3, <2>4 DEF RunnerInvariant, OneRunner, HasStatus
    <3>2. QED BY <2>1, <2>4, <3>1 DEF RunnerInvariant, OneRunner, HasStatus
  <2>6. \A p \in Requests : phase'[p] = "loading" => phase[p] = "loading" /\ p # q
    BY <1>o, <2>1
  <2>7. \A p \in Requests : phase'[p] = "loading" => ~IsRunning(target[p])'
    <3>1. ASSUME NEW p \in Requests, phase'[p] = "loading" PROVE ~IsRunning(target[p])'
      <4>1. phase[p] = "loading" /\ target[p] \in Batches
        BY <2>6, <3>1 DEF Known
      <4>2. CASE target[p] = target[q]
        BY <2>1, <2>r, <4>2 DEF IsRunning
      <4>3. CASE target[p] # target[q]
        BY <2>1, <2>3, <4>1, <4>3 DEF RunnerInvariant, IsRunning, HasStatus
      <4>4. QED BY <4>2, <4>3
    <3>2. QED BY <3>1
  <2>8. QED BY <2>1, <2>5, <2>6, <2>7 DEF RunnerInvariant, IsRunning
<1>4. QED BY <1>1, <1>2, <1>3 DEF Serve

LEMMA WorkRunner ==
  ASSUME TypeOK, Known, RunnerInvariant, NEW q \in Requests, Work(q)
  PROVE  RunnerInvariant'
<1>1. phase' = phase /\ target' = target
  BY DEF Work, ItemDropped, ItemEnds, OrphanEnds, request
<1>2. \A b \in Batches : row[b] # None => row'[b] # None /\ row'[b].status = row[b].status
  <2>1. CASE row' = row
    BY <2>1
  <2>2. ASSUME NEW id \in Ids, NEW o \in {"success", "error"}, ItemEnds(q, id, o)
        PROVE  \A b \in Batches :
                 row[b] # None => row'[b] # None /\ row'[b].status = row[b].status
    <3>1. PICK outcomes \in Outcomes : Record(q, id, outcomes)
      BY <2>2, WorkRecords
    <3>2. target[q] \in Batches /\ row[target[q]] # None /\ tally'[q] \in Count
      BY <3>1, RecordTypes
    <3>3. row' = [row EXCEPT ![target[q]].count = tally'[q]]
      BY <2>2 DEF ItemEnds
    <3>4. /\ row'[target[q]] # None /\ row'[target[q]].status = row[target[q]].status
          /\ \A b \in Batches : b # target[q] => row'[b] = row[b]
      BY <3>2, <3>3, CountUpdate DEF RowBecomes, SameRows, KeepsRows
    <3>5. QED BY <3>4
  <2>3. QED BY <2>1, <2>2 DEF Work, ItemDropped, OrphanEnds
<1>3. QED BY <1>1, <1>2, RunnerKept DEF IsRunning, HasStatus

LEMMA RunnerNext ==
  ASSUME TypeOK, Known, RunnerInvariant, LoadSuspends = FALSE, [Next]_vars
  PROVE  RunnerInvariant'
<1>1. CASE UNCHANGED vars
  BY <1>1, RunnerKept DEF vars, request, IsRunning, HasStatus
<1>2. CASE Crash
  <2>1. row' = row /\ \A q \in Requests : phase'[q] \notin Serving
    BY <1>2 DEF Crash, Serving
  <2>2. QED BY <2>1, RunnerKept DEF IsRunning, HasStatus, Running, Serving
<1>3. QED BY <1>1, <1>2, ToolsRunner, ServeRunner, WorkRunner DEF Next

LEMMA RunnerInvariantHolds ==
  ASSUME LoadSuspends = FALSE
  PROVE  Spec => []RunnerInvariant
<1>1. Init => RunnerInvariant
  BY DEF Init, RunnerInvariant, OneRunner, Running, Serving
<1>2. TypeOK /\ Known /\ RunnerInvariant /\ [Next]_vars => RunnerInvariant'
  BY RunnerNext
<1>3. QED BY <1>1, <1>2, KnownHolds, PTL DEF Spec

\* "Batch ... is already running": as long as the envelope is loaded without
\* giving way to another request, a batch is executed by at most one request at a
\* time, and its row says so (batch_run.py, the status check).
THEOREM OneRunnerHolds ==
  ASSUME LoadSuspends = FALSE
  PROVE  Spec => []OneRunner
<1>1. RunnerInvariant => OneRunner
  BY DEF RunnerInvariant
<1>2. QED BY <1>1, RunnerInvariantHolds, PTL
-----------------------------------------------------------------------------
(* Rows and manifests.                                                     *)

\* Batches created in free directories only do not share one.
OwnDirectory ==
  \A b, c \in Batches :
    row[b] # None /\ row[c] # None /\ row[b].dir = row[c].dir => b = c

RowInvariant == RowMatchesManifest /\ OwnDirectory

LEMMA OwnDirectoryNext ==
  ASSUME TypeOK, Known, OwnDirectory, ShareDirs = FALSE, [Next]_vars
  PROVE  OwnDirectory'
<1>k. KeepsRows
  BY TypesNext
<1>1. CASE \A b \in Batches : row'[b] # None => row[b] # None
  BY <1>k, <1>1 DEF KeepsRows, OwnDirectory
<1>2. ASSUME NEW b \in Batches, NEW d \in Dirs, NEW p \in Programs, Create(b, d, p)
      PROVE  OwnDirectory'
  <2>1. envelope[d] = None
    BY <1>2 DEF Create, Free
  <2>2. \A c \in Batches : row[c] # None => row[c].dir # d
    BY <2>1 DEF Known
  <2>3. row'[b].dir = d /\ \A c \in Batches : c # b => row'[c] = row[c]
    BY <1>2 DEF Create, TypeOK
  <2>4. QED BY <2>2, <2>3 DEF OwnDirectory
<1>3. CASE row' = row
  BY <1>1, <1>3
<1>4. ASSUME NEW b \in Batches, CancelBatch(b) PROVE OwnDirectory'
  BY <1>1, <1>4, CancelUpdate DEF SameRows
<1>5. ASSUME NEW q \in Requests, Launch(q) \/ LaunchMismatch(q) \/ SourceRaises(q)
      PROVE  OwnDirectory'
  <2>1. target[q] \in Batches /\ row[target[q]] # None
    BY <1>5, DirType DEF Launch, LaunchMismatch, SourceRaises
  <2>2. PICK s \in {"running", "failed"} : SetStatus(target[q], s)
    BY <1>5 DEF Launch, LaunchMismatch, SourceRaises, MarkFailed
  <2>3. SameRows
    BY <2>1, <2>2, StatusUpdate
  <2>4. QED BY <1>1, <2>3 DEF SameRows
<1>6. ASSUME NEW q \in Requests, Finish(q) PROVE OwnDirectory'
  <2>1. target[q] \in Batches /\ row[target[q]] # None
    BY <1>6, DirType DEF Finish
  <2>2. TerminalStatus(q) \in {"completed", "failed"} /\ tally[q] \in Count
    BY DEF TerminalStatus, TypeOK
  <2>3. SameRows
    BY <1>6, <2>1, <2>2, FinalUpdate DEF Finish
  <2>4. QED BY <1>1, <2>3 DEF SameRows
<1>7. ASSUME NEW q \in Requests, NEW id \in Ids, NEW o \in {"success", "error"},
             ItemEnds(q, id, o)
      PROVE  OwnDirectory'
  <2>1. PICK outcomes \in Outcomes : Record(q, id, outcomes)
    BY <1>7, WorkRecords
  <2>2. target[q] \in Batches /\ row[target[q]] # None /\ tally'[q] \in Count
    BY <2>1, RecordTypes
  <2>3. SameRows
    BY <1>7, <2>2, CountUpdate DEF ItemEnds
  <2>4. QED BY <1>1, <2>3 DEF SameRows
<1>8. QED
  BY <1>2, <1>3, <1>4, <1>5, <1>6, <1>7
     DEF Next, vars, files, Tools, CreateRejected, Check, Crash, Serve, LoadFails, ReadItem,
         LeaveLoop, FinishCancelled, Work, ItemDropped, OrphanEnds, Cancel

\* The manifest is written by requests that work on the batch of its directory.
LEMMA ManifestStep ==
  ASSUME TypeOK, Known, RunnerInvariant, [Next]_vars
  PROVE  \/ manifest' = manifest
         \/ \E q \in Requests : /\ phase[q] = "draining" /\ WriteManifest(q)
                                /\ Finish(q) \/ row' = row
BY DEF Next, vars, files, Tools, Create, CreateRejected, CancelBatch, Check, Crash, Serve,
       LoadFails, Launch, LaunchMismatch, ReadItem, LeaveLoop, Finish, FinishCancelled,
       Work, ItemDropped, ItemEnds, OrphanEnds, SourceRaises, Cancel

\* What a completed row shows changes only with the end of a run of its batch.
LEMMA CompletedRowKept ==
  ASSUME TypeOK, Known, RunnerInvariant, [Next]_vars, NEW b \in Batches,
         HasStatus(b, "completed"), HasStatus(b, "completed")',
         \A q \in Requests : Finish(q) => target[q] # b
  PROVE  row'[b].count = row[b].count
<1>1. CASE row' = row
  BY <1>1
<1>2. ASSUME NEW c \in Batches, NEW d \in Dirs, NEW p \in Programs, Create(c, d, p)
      PROVE  row'[b].count = row[b].count
  BY <1>2 DEF Create, HasStatus
<1>3. ASSUME NEW c \in Batches, CancelBatch(c) PROVE row'[b].count = row[b].count
  BY <1>3, CancelUpdate DEF RowBecomes
<1>4. ASSUME NEW q \in Requests, Launch(q) \/ LaunchMismatch(q) \/ SourceRaises(q)
      PROVE  row'[b].count = row[b].count
  <2>1. target[q] \in Batches /\ row[target[q]] # None
    BY <1>4, DirType DEF Launch, LaunchMismatch, SourceRaises
  <2>2. PICK s \in {"running", "failed"} : SetStatus(target[q], s)
    BY <1>4 DEF Launch, LaunchMismatch, SourceRaises, MarkFailed
  <2>3. /\ row'[target[q]].count = row[target[q]].count
        /\ \A c \in Batches : c # target[q] => row'[c] = row[c]
    BY <2>1, <2>2, StatusUpdate DEF RowBecomes
  <2>4. QED BY <2>3
<1>5. ASSUME NEW q \in Requests, Finish(q) PROVE row'[b].count = row[b].count
  <2>1. target[q] \in Batches /\ row[target[q]] # None /\ target[q] # b
    BY <1>5, DirType DEF Finish
  <2>2. TerminalStatus(q) \in {"completed", "failed"} /\ tally[q] \in Count
    BY DEF TerminalStatus, TypeOK
  <2>3. \A c \in Batches : c # target[q] => row'[c] = row[c]
    BY <1>5, <2>1, <2>2, FinalUpdate DEF Finish, RowBecomes
  <2>4. QED BY <2>1, <2>3
<1>6. ASSUME NEW q \in Requests, NEW id \in Ids, NEW o \in {"success", "error"},
             ItemEnds(q, id, o)
      PROVE  row'[b].count = row[b].count
  <2>1. PICK outcomes \in Outcomes : Record(q, id, outcomes)
    BY <1>6, WorkRecords
  <2>2. target[q] \in Batches /\ row[target[q]] # None /\ tally'[q] \in Count
    BY <2>1, RecordTypes
  <2>3. phase[q] \in Running
    BY <1>6, <2>1 DEF ItemEnds, ConnectionOpen, Record, Known, Running
  <2>4. target[q] # b
    BY <2>3 DEF RunnerInvariant, OneRunner, HasStatus
  <2>5. row' = [row EXCEPT ![target[q]].count = tally'[q]]
    BY <1>6 DEF ItemEnds
  <2>6. row'[b] = row[b]
    BY <2>2, <2>4, <2>5, CountUpdate DEF RowBecomes
  <2>7. QED BY <2>6
<1>7. QED
  BY <1>1, <1>2, <1>3, <1>4, <1>5, <1>6
     DEF Next, vars, files, Tools, CreateRejected, Check, Crash, Serve, LoadFails, ReadItem,
         LeaveLoop, FinishCancelled, Work, ItemDropped, OrphanEnds, Cancel

LEMMA RowNext ==
  ASSUME TypeOK, Known, RunnerInvariant, RowInvariant, ShareDirs = FALSE, [Next]_vars
  PROVE  RowInvariant'
<1>k. KeepsRows
  BY TypesNext
<1>o. OwnDirectory'
  BY OwnDirectoryNext DEF RowInvariant
<1>1. ASSUME NEW b \in Batches, HasStatus(b, "completed")'
      PROVE  manifest'[row'[b].dir] =
               [batch |-> b, status |-> "completed", count |-> row'[b].count]
  <2>1. ASSUME NEW q \in Requests, Finish(q), target[q] = b
        PROVE  manifest'[row'[b].dir] =
                 [batch |-> b, status |-> "completed", count |-> row'[b].count]
    <3>1. row[b] # None /\ Dir(q) = row[b].dir /\ Dir(q) \in Dirs
      BY <2>1, DirType DEF Finish, Dir
    <3>2. TerminalStatus(q) \in {"completed", "failed"} /\ tally[q] \in Count
      BY DEF TerminalStatus, TypeOK
    <3>3. row'[b].status = TerminalStatus(q) /\ row'[b].count = tally[q]
      BY <2>1, <3>1, <3>2, FinalUpdate DEF Finish
    <3>4. ~stopped[q]
      BY <1>1, <3>3 DEF HasStatus, TerminalStatus
    <3>5. manifest'[Dir(q)] = [batch |-> b, status |-> "completed", count |-> tally[q]]
      BY <2>1, <3>1, <3>4 DEF Finish, WriteManifest, TypeOK
    <3>6. row'[b].dir = row[b].dir
      BY <1>k, <3>1 DEF KeepsRows
    <3>7. QED BY <3>1, <3>3, <3>5, <3>6
  <2>2. ASSUME \A q \in Requests : Finish(q) => target[q] # b
        PROVE  manifest'[row'[b].dir] =
                 [batch |-> b, status |-> "completed", count |-> row'[b].count]
    <3>1. HasStatus(b, "completed")
      BY <1>1, <2>2, CompletedStep
    <3>2. /\ row[b] # None /\ row'[b].dir = row[b].dir /\ row[b].dir \in Dirs
      BY <1>k, <3>1 DEF HasStatus, KeepsRows, TypeOK, Row
    <3>3. row'[b].count = row[b].count
      BY <1>1, <2>2, <3>1, CompletedRowKept
    <3>4. manifest'[row[b].dir] = manifest[row[b].dir]
      <4>1. ASSUME NEW q \in Requests, phase[q] = "draining", WriteManifest(q)
            PROVE  manifest'[row[b].dir] = manifest[row[b].dir]
        <5>1. target[q] \in Batches /\ row[target[q]] # None /\ Dir(q) = row[target[q]].dir
          BY <4>1, DirType DEF Dir
        <5>2. HasStatus(target[q], "running")
          BY <4>1 DEF RunnerInvariant, OneRunner, Running, Serving
        <5>3. target[q] # b
          BY <3>1, <5>2 DEF HasStatus
        <5>4. Dir(q) # row[b].dir
          BY <3>2, <5>1, <5>3 DEF RowInvariant, OwnDirectory
        <5>5. QED BY <3>2, <4>1, <5>4 DEF WriteManifest, TypeOK
      <4>2. QED BY <4>1, ManifestStep
    <3>5. QED BY <3>1, <3>2, <3>3, <3>4 DEF RowInvariant, RowMatchesManifest
  <2>3. QED BY <2>1, <2>2
<1>2. QED BY <1>o, <1>1 DEF RowInvariant, RowMatchesManifest

\* A row that says "completed" agrees with the manifest beside the log, through
\* crashes between the two writes and with the tasks of failed requests still at
\* work, as long as batches have directories of their own and no request is
\* served while another loads its envelope (batch_run.py, the final update).
THEOREM RowMatchesManifestHolds ==
  ASSUME LoadSuspends = FALSE, ShareDirs = FALSE
  PROVE  Spec => []RowMatchesManifest
<1>1. Init => RowInvariant
  BY DEF Init, RowInvariant, RowMatchesManifest, OwnDirectory, HasStatus
<1>2. TypeOK /\ Known /\ RunnerInvariant /\ RowInvariant /\ [Next]_vars => RowInvariant'
  BY RowNext
<1>3. RowInvariant => RowMatchesManifest
  BY DEF RowInvariant
<1>4. QED BY <1>1, <1>2, <1>3, KnownHolds, RunnerInvariantHolds, PTL DEF Spec
=============================================================================
