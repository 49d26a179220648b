-------------------------- MODULE ProgramOfThought --------------------------
(***************************************************************************)
(* A program that answers with the output of code that a model writes      *)
(* (programs/program_of_thought.py).  forward() asks the writer, runs the  *)
(* code on a worker thread and hands the output to the interpreter.  The   *)
(* thread cannot be cancelled: a request that is cancelled leaves it       *)
(* behind, with the process and its scratch directory.                     *)
(***************************************************************************)
EXTENDS Integers, FiniteSets

CONSTANTS
  Requests,
  Threads,  \* of the default executor, which asyncio.to_thread uses
  Bodies,   \* programs, one of which is empty
  Empty,
  None

VARIABLES
  allowed,    \* allow_code_execution
  audit,      \* what audit_callback does: None, "accepts" or "raises"
  at,         \* where forward() is, per request
  program,    \* the code that was written, without its fence
  thread,     \* its worker: None, "queued", "auditing", "running", "over", "raised" or "dropped"
  shown,      \* the requests whose code the callback has seen
  scratch,    \* the requests that have a scratch directory
  execution,  \* [code, ending] of the process, or None
  given       \* the execution whose output the interpreter got

vars == <<allowed, audit, at, program, thread, shown, scratch, execution, given>>

-----------------------------------------------------------------------------
Init ==
  /\ allowed \in BOOLEAN
  /\ audit \in {None, "accepts", "raises"}
  /\ at = [r \in Requests |-> "received"]
  /\ program = [r \in Requests |-> None]
  /\ thread = [r \in Requests |-> None]
  /\ shown = {}
  /\ scratch = {}
  /\ execution = [r \in Requests |-> None]
  /\ given = [r \in Requests |-> None]

Goes(r, to) == at' = [at EXCEPT ![r] = to]
Works(r, as) == thread' = [thread EXCEPT ![r] = as]
Busy == {r \in Requests : thread[r] \in {"auditing", "running"}}

AskWriter(r) ==
  /\ at[r] = "received"
  /\ Goes(r, "writing")
  /\ UNCHANGED <<allowed, audit, program, thread, shown, scratch, execution, given>>

\* The empty text is refused before its fence is removed, so that a fence
\* around nothing is run.
Text == [fenced : BOOLEAN, body : Bodies]
Blank(text) == ~text.fenced /\ text.body = Empty
Written(r, text) ==
  /\ at[r] = "writing"
  /\ IF Blank(text)
       THEN Goes(r, "raised") /\ UNCHANGED <<program, thread>>
       ELSE /\ Goes(r, "executing")
            /\ program' = [program EXCEPT ![r] = text.body]
            /\ Works(r, "queued")
  /\ UNCHANGED <<allowed, audit, shown, scratch, execution, given>>

\* _execute_code on the thread: the permission, the callback, the process.
Spawn(r) == Works(r, "running") /\ scratch' = scratch \union {r}
Begin(r) ==
  /\ thread[r] = "queued" /\ Cardinality(Busy) < Threads
  /\ CASE ~allowed -> Works(r, "raised") /\ UNCHANGED scratch
       [] allowed /\ audit = None -> Spawn(r)
       [] allowed /\ audit # None -> Works(r, "auditing") /\ UNCHANGED scratch
  /\ UNCHANGED <<allowed, audit, at, program, shown, execution, given>>
Audited(r) ==
  /\ thread[r] = "auditing"
  /\ shown' = shown \union {r}
  /\ IF audit = "raises" THEN Works(r, "raised") /\ UNCHANGED scratch ELSE Spawn(r)
  /\ UNCHANGED <<allowed, audit, at, program, execution, given>>

\* The code ends by itself, with an error or in time, or is killed at the
\* timeout; the result says which.  The limits of the process may not be set.
Ending == {"exit_0", "exit_1", "timed_out"}
Ended(r, ending) ==
  /\ thread[r] = "running"
  /\ execution' = [execution EXCEPT ![r] = [code |-> program[r], ending |-> ending]]
  /\ Works(r, "over")
  /\ scratch' = scratch \ {r}
  /\ UNCHANGED <<allowed, audit, at, program, shown, given>>
LimitsFail(r) ==
  /\ thread[r] = "running"
  /\ Works(r, "raised")
  /\ scratch' = scratch \ {r}
  /\ UNCHANGED <<allowed, audit, at, program, shown, execution, given>>

\* The output goes to the interpreter however the process ended.
\* A bug: the interpreter gets the output of whatever ran last.
AnyExecution(r) == LET done == {q \in Requests : execution[q] # None} IN execution[CHOOSE q \in done : TRUE]
Execution(r) == execution[r]
AskInterpreter(r) ==
  /\ at[r] = "executing" /\ thread[r] = "over"
  /\ given' = [given EXCEPT ![r] = Execution(r)]
  /\ Goes(r, "interpreting")
  /\ UNCHANGED <<allowed, audit, program, thread, shown, scratch, execution>>
ThreadRaised(r) ==
  /\ at[r] = "executing" /\ thread[r] = "raised"
  /\ Goes(r, "raised")
  /\ UNCHANGED <<allowed, audit, program, thread, shown, scratch, execution, given>>

Interpreted(r) ==
  /\ at[r] = "interpreting"
  /\ Goes(r, "returned")
  /\ UNCHANGED <<allowed, audit, program, thread, shown, scratch, execution, given>>
CallFails(r) ==
  /\ at[r] \in {"writing", "interpreting"}
  /\ Goes(r, "raised")
  /\ UNCHANGED <<allowed, audit, program, thread, shown, scratch, execution, given>>

\* Only a thread that waits for its turn is cancelled with the request.
\* A bug: the thread that was left behind counts as over.
Forgotten(r) == IF thread[r] \in {"queued", "auditing", "running"} THEN "dropped" ELSE thread[r]
LeftBehind(r) == IF thread[r] = "queued" THEN "dropped" ELSE thread[r]
Cancel(r) ==
  /\ at[r] \in {"writing", "executing", "interpreting"}
  /\ Goes(r, "cancelled")
  /\ Works(r, LeftBehind(r))
  /\ UNCHANGED <<allowed, audit, program, shown, scratch, execution, given>>

Next == \E r \in Requests :
  \/ AskWriter(r)
  \/ \E text \in Text : Written(r, text)
  \/ Begin(r)
  \/ Audited(r)
  \/ \E ending \in Ending : Ended(r, ending)
  \/ LimitsFail(r)
  \/ AskInterpreter(r)
  \/ ThreadRaised(r)
  \/ Interpreted(r)
  \/ CallFails(r)
  \/ Cancel(r)

Spec == Init /\ [][Next]_vars

-----------------------------------------------------------------------------
TypeOK ==
  /\ \A r \in Requests :
       /\ at[r] \in {"received", "writing", "executing", "interpreting", "returned", "raised", "cancelled"}
       /\ program[r] \in Bodies \union {None}
       /\ thread[r] \in {None, "queued", "auditing", "running", "over", "raised", "dropped"}
  /\ shown \subseteq Requests /\ scratch \subseteq Requests

\* Nothing runs that the caller did not allow or the callback did not see
\* first; a scratch directory lives as long as the process in it, whatever
\* becomes of the request; a request that was cancelled in the queue never
\* runs; and the answer was read from the output of the request's own code.
NothingRunsUnasked == \A r \in Requests :
  /\ thread[r] = "running" \/ execution[r] # None => allowed /\ audit # "raises" /\ (audit = "accepts" => r \in shown)
  /\ r \in scratch <=> thread[r] = "running"
  /\ thread[r] = "dropped" => at[r] = "cancelled" /\ execution[r] = None /\ r \notin shown
  /\ at[r] = "returned" => given[r].code = program[r] /\ thread[r] = "over"

-----------------------------------------------------------------------------
(* Why nothing runs unasked: the inductive invariant *)

Statuses == {"queued", "auditing", "running", "over", "raised", "dropped"}
Executions == [code : Bodies \union {None}, ending : Ending]

\* Where a request is and where its thread is go together: a thread waits only
\* while its request does, is shown the code only if there is a callback, and
\* what it leaves is of the code of its request.
ThreadFollowsRequest ==
  /\ at \in [Requests -> {"received", "writing", "executing", "interpreting",
                         "returned", "raised", "cancelled"}]
  /\ thread \in [Requests -> Statuses \union {None}]
  /\ program \in [Requests -> Bodies \union {None}]
  /\ execution \in [Requests -> Executions \union {None}] /\ DOMAIN given = Requests
  /\ \A r \in Requests :
       /\ at[r] \in {"received", "writing"} => thread[r] = None
       /\ thread[r] \in {None, "queued", "dropped"} => execution[r] = None /\ r \notin shown
       /\ thread[r] = "queued" => at[r] = "executing"
       /\ thread[r] = "auditing" => allowed /\ audit # None
       /\ execution[r] # None => thread[r] = "over"
       /\ thread[r] = "over" => execution[r] # None /\ execution[r].code = program[r]
       /\ at[r] \in {"interpreting", "returned"} => thread[r] = "over" /\ given[r] = execution[r]

WorkInv == ThreadFollowsRequest /\ NothingRunsUnasked
=============================================================================
