------------------------------ MODULE ReActLoop -----------------------------
(***************************************************************************)
(* ReAct (react.py) on the LoopRunner (loop_runner.py): the model answers  *)
(* with tool calls, which run one after the other and whose results are    *)
(* shown to it, or with a final answer, which is retried when it does not  *)
(* validate.  ReAct talks to the provider itself: none of this goes        *)
(* through the pipeline of Call.  Every answer costs one token.            *)
(***************************************************************************)
EXTENDS Integers, Sequences, FiniteSets

CONSTANTS
  MaxTurns,      \* max_iterations
  MaxRetries,    \* max_validation_retries
  MaxTools,      \* tool calls in one answer (a bound)
  RaiseOnError   \* on_tool_error = "raise"

VARIABLES
  at,          \* "asking", "tools", "returned", "raised"
  turn,        \* iterations_used of the runner: steps begun
  messages,    \* the conversation: who speaks, and how many tools it calls
  pending,     \* tool calls of the last answer still to run
  retries,     \* validation_retries
  records,     \* iteration traces the runner holds
  trajectory,  \* len(state.trajectory)
  answers,     \* answers the provider gave, in tokens
  usage,       \* usage of the invocation that is returned or attached
  trial,       \* tokens charged to the trial around it
  stop,        \* stop_reason of the result
  outputs      \* are there outputs?

vars == <<at, turn, messages, pending, retries, records, trajectory, answers,
          usage, trial, stop, outputs>>

Says(who) == [role |-> who, calls |-> 0]

Init ==
  /\ at = "asking"
  /\ turn = 1
  /\ messages = <<Says("user")>>
  /\ pending = 0
  /\ retries = 0
  /\ records = 0
  /\ trajectory = 0
  /\ answers = 0
  /\ usage = 0
  /\ trial = 0
  /\ stop = "none"
  /\ outputs = FALSE

-----------------------------------------------------------------------------
(* Ways out *)

\* The loop is over: the parent trace sums the iteration traces.
Return(reason, traces) ==
  /\ at' = "returned"
  /\ stop' = reason
  /\ usage' = traces

\* An exception: the traces stay with the runner, whose result never arrives.
Raise ==
  /\ at' = "raised"
  /\ usage' = 0
  /\ UNCHANGED <<turn, stop, outputs>>

\* The step is over without a reason to stop: the next one, or, after the
\* last, one more attempt to read an answer out of the last response.
NextTurn(readable) ==
  \/ /\ turn < MaxTurns
     /\ turn' = turn + 1
     /\ at' = "asking"
     /\ UNCHANGED <<usage, stop, outputs>>
  \/ /\ turn = MaxTurns
     /\ Return("MAX_ITERATIONS", records')
     /\ outputs' \in (IF readable THEN BOOLEAN ELSE {FALSE})
     /\ UNCHANGED turn

Record ==
  /\ records' = records + 1
  /\ trajectory' = trajectory + 1

-----------------------------------------------------------------------------
(* The provider *)

\* chat_async came back; the answer joins the conversation.  Nothing of it is
\* published to a trial.
Answered ==
  /\ at = "asking"
  /\ answers' = answers + 1
  /\ UNCHANGED trial

FinalAnswer ==
  /\ Answered
  /\ messages' = Append(messages, Says("assistant"))
  /\ Record
  /\ Return("TERMINATED", records')
  /\ outputs' = TRUE
  /\ UNCHANGED <<turn, pending, retries>>

\* A bug: one more retry than allowed.
OneTooMany(n) == n > MaxRetries + 1
TooMany(n) == n > MaxRetries

\* A final answer that does not validate: the model is told so, unless that
\* was one time too many.
InvalidAnswer ==
  /\ Answered
  /\ retries' = retries + 1
  /\ Record
  /\ \/ /\ TooMany(retries')
        /\ messages' = Append(messages, Says("assistant"))
        /\ Return("ERROR", records')
        /\ UNCHANGED <<turn, outputs>>
     \/ /\ ~TooMany(retries')
        /\ messages' = messages \o <<Says("assistant"), Says("user")>>
        /\ NextTurn(FALSE)
  /\ UNCHANGED pending

ToolCalls ==
  /\ Answered
  /\ pending' \in 1..MaxTools
  /\ messages' = Append(messages, [role |-> "assistant", calls |-> pending'])
  /\ at' = "tools"
  /\ UNCHANGED <<turn, retries, records, trajectory, usage, stop, outputs>>

\* The provider raises; when it looks like a context overflow the partial
\* result is returned.
ProviderRaises ==
  /\ at = "asking"
  /\ \/ Raise
     \/ Return("ERROR", records) /\ UNCHANGED <<turn, outputs>>
  /\ UNCHANGED <<messages, pending, retries, records, trajectory, answers, trial>>

-----------------------------------------------------------------------------
(* Tools *)

\* A tool returns, reports an error, is unknown, or raises and on_tool_error
\* is "continue": in each case its result joins the conversation.
\* A bug: an error ends the turn and the other tools are not run.
SkipRest(n) == {0, n - 1}
OneLess(n) == {n - 1}

ToolEnds ==
  /\ at = "tools"
  /\ messages' = Append(messages, Says("tool"))
  /\ pending' \in OneLess(pending)
  /\ \/ /\ pending' > 0
        /\ UNCHANGED <<at, turn, records, trajectory, usage, stop, outputs>>
     \/ /\ pending' = 0
        /\ Record
        /\ NextTurn(TRUE)
  /\ UNCHANGED <<retries, answers, trial>>

\* The exception of a tool leaves the step with "raise", a cancellation
\* always: what was answered in this turn has no record, also when the text of
\* the exception looks like an overflow.
ToolRaises ==
  /\ at = "tools"
  /\ \/ Raise
     \/ RaiseOnError /\ Return("ERROR", records) /\ UNCHANGED <<turn, outputs>>
  /\ UNCHANGED <<messages, pending, retries, records, trajectory, answers, trial>>

Next ==
  \/ FinalAnswer \/ InvalidAnswer \/ ToolCalls \/ ProviderRaises
  \/ ToolEnds \/ ToolRaises

Spec == Init /\ [][Next]_vars

-----------------------------------------------------------------------------
(* Properties *)

TypeOK ==
  /\ at \in {"asking", "tools", "returned", "raised"}
  /\ turn \in 1..MaxTurns
  /\ messages \in Seq([role : {"user", "assistant", "tool"}, calls : 0..MaxTools])
  /\ pending \in 0..MaxTools
  /\ retries \in 0..(MaxRetries + 1)
  /\ records \in 0..MaxTurns /\ trajectory \in 0..MaxTurns
  /\ answers \in 0..MaxTurns /\ usage \in 0..MaxTurns /\ trial \in 0..MaxTurns
  /\ stop \in {"none", "TERMINATED", "MAX_ITERATIONS", "ERROR"}
  /\ outputs \in BOOLEAN

\* The model is never asked to go on before every tool call of its answers
\* has its result, next to the answer: a provider rejects such a conversation.
EveryCallHasItsResult ==
  \A i \in DOMAIN messages : \A k \in 1..messages[i].calls :
    IF i + k <= Len(messages) THEN messages[i + k].role = "tool"
                              ELSE at # "asking"

\* A result that is returned accounts for the tokens of every answer, unless a
\* tool raised in the turn; and it says TERMINATED, and has outputs, only when
\* the last thing in the conversation is an answer without tool calls.
ResultIsWhole ==
  at = "returned" =>
    /\ usage = records /\ records = trajectory
    /\ answers - usage \in (IF stop = "ERROR" /\ RaiseOnError THEN {0, 1} ELSE {0})
    /\ stop = "TERMINATED" => outputs /\ messages[Len(messages)] = Says("assistant")
    /\ retries > MaxRetries => stop = "ERROR" /\ ~outputs

\* A trial is charged with what the loop inside it spent.
\* trial_runner.py:123 says so of ReAct; nothing in react.py does it.
TrialSeesIterations ==
  at = "returned" => trial = answers

-----------------------------------------------------------------------------
(* Why they hold: the inductive invariant *)

\* While the loop runs it has recorded every turn but this one, and the model
\* has answered in this turn if tools are running.
TurnsAddUp ==
  at \in {"asking", "tools"} =>
    /\ records = turn - 1 /\ trajectory = records
    /\ answers = IF at = "tools" THEN turn ELSE turn - 1
    /\ retries <= MaxRetries
    /\ stop = "none" /\ ~outputs

\* The tool calls that have no result yet are those that are pending.
ResultsFollowCalls ==
  /\ at = "tools" => pending > 0
  /\ \A i \in DOMAIN messages :
       /\ at = "asking" => i + messages[i].calls <= Len(messages)
       /\ at = "tools" => i + messages[i].calls <= Len(messages) + pending
       /\ \A k \in 1..messages[i].calls :
            i + k <= Len(messages) => messages[i + k].role = "tool"

LoopInv == TypeOK /\ TurnsAddUp /\ ResultsFollowCalls /\ ResultIsWhole
=============================================================================
