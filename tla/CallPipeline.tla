---------------------------- MODULE CallPipeline ----------------------------
(***************************************************************************)
(* Who pays for a call.  An optimizer opens a trial (trial_runner.py) and  *)
(* evaluates one program per example (evaluation.py); each program fans    *)
(* out sub-calls with asyncio.gather under a trace collector (base.py); a  *)
(* sub-call retries invalid answers (call.py), perhaps as one step of a    *)
(* cascade of models (cascade.py).  Every provider answer costs tokens,    *)
(* here one; the question is which accumulators see it.                    *)
(***************************************************************************)
EXTENDS Integers, Sequences, FiniteSets

CONSTANTS
  Programs,       \* the examples of the evaluation, one program run each
  Width,          \* sub-calls gathered by forward()
  Routed,         \* the calls that have a CascadeRouter
  Models,         \* how many models its cascade has
  MaxAttempts,    \* max_retries + 1
  MaxConcurrent,  \* programs evaluated at the same time
  Tolerant,       \* the programs that gather with return_exceptions=True
  MayCancel,      \* may the optimizer be cancelled?
  MetricMayRaise  \* may the metric raise?

VARIABLES
  program,  \* where each program run is
  phase,    \* where each sub-call is
  at,       \* the cascade step of each sub-call
  kept,     \* last_invocation of its cascade: a step, or 0
  usage,    \* invocation.usage of each step
  ended,    \* how the invocation of each step ended
  pushed,   \* how often its trace is in the collector of its program
  rollup,   \* usage of each program's invocation, once it is over
  trial,    \* Trial: tokens and n_invocations
  scope,    \* the with block of the trial
  charged,  \* tokens the budget tracker took from the trial
  orphans   \* calls that were still running when their program was over

calls == <<phase, at, kept, usage, ended, pushed>>
scopes == <<program, rollup, scope, charged, orphans>>
vars == <<calls, trial, scopes>>

-----------------------------------------------------------------------------
Calls == Programs \X (1..Width)
CallsOf(p) == {p} \X (1..Width)
Traces == Calls \X (1..Models)     \* one invocation per step of a call
Steps(c) == IF c \in Routed THEN Models ELSE 1
Current(c) == <<c, at[c]>>
TracesOf(C) == C \X (1..Models)

\* What the provider answered in these invocations, a token each.
AnswersOf(u, T) == {a \in T \X (1..MaxAttempts) : a[2] <= u[a[1]]}
Tokens(T) == Cardinality(AnswersOf(usage, T))
Spent(C) == Tokens(TracesOf(C))
Over(c) == phase[c] \in {"done", "failed", "cancelled"}
ProgramOver(p) == program[p] \in {"returned", "raised", "cancelled"}

\* Invocations that reached the end of _run_pipeline, one way or the other.
Finished == {t \in Traces : ended[t] # "no"}

Init ==
  /\ program = [p \in Programs |-> "queued"]
  /\ phase = [c \in Calls |-> "queued"]
  /\ at = [c \in Calls |-> 1]
  /\ kept = [c \in Calls |-> 0]
  /\ usage = [t \in Traces |-> 0]
  /\ ended = [t \in Traces |-> "no"]
  /\ pushed = [t \in Traces |-> 0]
  /\ rollup = [p \in Programs |-> 0]
  /\ trial = [tokens |-> 0, n |-> 0]
  /\ scope = "open"
  /\ charged = 0
  /\ orphans = {}

-----------------------------------------------------------------------------
(* One sub-call *)

\* publish_invocation: the task's context still names the trial when its
\* with block is over.
Publish(tokens) ==
  trial' = [tokens |-> trial.tokens + tokens, n |-> trial.n + 1]

\* push_trace appends to the collector of the task's context.
Push(ts) ==
  pushed' = [t \in Traces |->
    pushed[t] + Cardinality({i \in DOMAIN ts : ts[i] = t})]

\* execute_cascade goes on after a step that it did not accept: last is
\* last_invocation.  A call without a router has one step and keeps nothing.
NextStep(c, last, traced) ==
  /\ kept' = [kept EXCEPT ![c] = last]
  /\ \/ /\ at[c] < Steps(c)
        /\ at' = [at EXCEPT ![c] = @ + 1]
        /\ Push(traced)
        /\ UNCHANGED phase
     \/ /\ at[c] = Steps(c)
        /\ phase' = [phase EXCEPT ![c] = IF last = 0 THEN "failed" ELSE "done"]
        /\ Push(IF last = 0 THEN traced ELSE Append(traced, <<c, last>>))
        /\ UNCHANGED at

\* The call returns this step: its own _execute pushes the trace, and for a
\* cascade the _execute of the call that owns the router pushes it again.
Accept(c) ==
  /\ phase' = [phase EXCEPT ![c] = "done"]
  /\ Push(IF c \in Routed THEN <<Current(c), Current(c)>> ELSE <<Current(c)>>)
  /\ UNCHANGED <<at, kept>>

\* The answer validates.  The escalation check of a cascade may accept it,
\* refuse it or raise, which is caught like a failed step.
AnswerValid(c) ==
  /\ phase[c] = "asking"
  /\ usage' = [usage EXCEPT ![Current(c)] = @ + 1]
  /\ ended' = [ended EXCEPT ![Current(c)] = "ok"]
  /\ Publish(usage[Current(c)] + 1)
  /\ \/ Accept(c)
     \/ c \in Routed /\ NextStep(c, at[c], <<Current(c)>>)
  /\ UNCHANGED scopes

\* A bug: only answers that validate are charged.
PublishNothing(tokens) == UNCHANGED trial
PublishFailed(tokens) == Publish(tokens)

\* A bug: the trace of a failed call is dropped.
NoTrace(c) == <<>>
FailedTrace(c) == <<Current(c)>>

\* decode or model_validate raises and an attempt is left.
AnswerInvalid(c) ==
  /\ phase[c] = "asking"
  /\ usage[Current(c)] + 1 < MaxAttempts
  /\ usage' = [usage EXCEPT ![Current(c)] = @ + 1]
  /\ UNCHANGED <<phase, at, kept, ended, pushed, trial, scopes>>

\* ... and none is left.
AttemptsExhausted(c) ==
  /\ phase[c] = "asking"
  /\ usage[Current(c)] + 1 = MaxAttempts
  /\ usage' = [usage EXCEPT ![Current(c)] = @ + 1]
  /\ ended' = [ended EXCEPT ![Current(c)] = "exhausted"]
  /\ PublishFailed(usage[Current(c)] + 1)
  /\ NextStep(c, kept[c], FailedTrace(c))
  /\ UNCHANGED scopes

\* The provider raises: no retry, but earlier attempts are paid for.
ProviderRaises(c) ==
  /\ phase[c] = "asking"
  /\ ended' = [ended EXCEPT ![Current(c)] = "provider error"]
  /\ PublishFailed(usage[Current(c)])
  /\ NextStep(c, kept[c], FailedTrace(c))
  /\ UNCHANGED <<usage, scopes>>

\* Inputs, model, client or encoding raise before the first attempt: there is
\* no invocation to charge or to trace.
Rejected(c) ==
  /\ phase[c] = "asking"
  /\ usage[Current(c)] = 0
  /\ NextStep(c, kept[c], <<>>)
  /\ UNCHANGED <<usage, ended, trial, scopes>>

-----------------------------------------------------------------------------
(* One program run *)

Running == {p \in Programs : program[p] = "running"}

\* eval_one gets a slot; forward() gathers its sub-calls.
StartProgram(p) ==
  /\ program[p] = "queued"
  /\ scope # "cancelled"
  /\ Cardinality(Running) < MaxConcurrent
  /\ program' = [program EXCEPT ![p] = "running"]
  /\ phase' = [c \in Calls |-> IF c \in CallsOf(p) THEN "asking" ELSE phase[c]]
  /\ UNCHANGED <<at, kept, usage, ended, pushed, trial, rollup, scope, charged, orphans>>

\* The finally block of Program.invoke sums whatever the collector holds: every
\* answer as often as the trace that it belongs to.
Collected(p) ==
  UNION {{a} \X (1..pushed[a[1]]) : a \in AnswersOf(usage, TracesOf(CallsOf(p)))}
RollUp(P) ==
  rollup' = [p \in Programs |-> IF p \in P THEN Cardinality(Collected(p)) ELSE rollup[p]]

AllOver(p) == \A c \in CallsOf(p) : Over(c)
HasFailed(p) == \E c \in CallsOf(p) : phase[c] = "failed"

ProgramReturns(p) ==
  /\ program[p] = "running"
  /\ AllOver(p)
  /\ p \in Tolerant \/ ~HasFailed(p)
  /\ program' = [program EXCEPT ![p] = "returned"]
  /\ RollUp({p})
  /\ scope' \in {scope} \union (IF MetricMayRaise /\ scope = "open" THEN {"abandoned"} ELSE {})
  /\ UNCHANGED <<calls, trial, charged, orphans>>

\* A bug: gather forgets return_exceptions=True.
StrictGather(p) == TRUE
\* gather raises at the first failure and leaves the siblings running.
RaisesEarly(p) == p \notin Tolerant

ProgramRaises(p) ==
  /\ program[p] = "running"
  /\ HasFailed(p)
  /\ AllOver(p) \/ RaisesEarly(p)
  /\ program' = [program EXCEPT ![p] = "raised"]
  /\ RollUp({p})
  /\ orphans' = orphans \union {c \in CallsOf(p) : ~Over(c)}
  /\ UNCHANGED <<calls, trial, scope, charged>>

-----------------------------------------------------------------------------
(* The trial *)

\* evaluate has gathered every example; _consume_trial reads the trial.
ConsumeTrial ==
  /\ scope = "open"
  /\ \A p \in Programs : ProgramOver(p)
  /\ scope' = "consumed"
  /\ charged' = trial.tokens
  /\ UNCHANGED <<calls, trial, program, rollup, orphans>>

\* CancelledError is no Exception: what is asked is neither charged nor
\* traced.  Orphans belong to a gather that is over and are not reached.
Cancel ==
  /\ MayCancel
  /\ scope = "open"
  /\ scope' = "cancelled"
  /\ program' = [p \in Programs |-> IF ProgramOver(p) THEN program[p] ELSE "cancelled"]
  /\ RollUp(Running)
  /\ phase' = [c \in Calls |->
       IF phase[c] = "asking" /\ c \notin orphans THEN "cancelled" ELSE phase[c]]
  /\ UNCHANGED <<at, kept, usage, ended, pushed, trial, charged, orphans>>

CallStep(c) ==
  \/ AnswerValid(c)
  \/ AnswerInvalid(c)
  \/ AttemptsExhausted(c)
  \/ ProviderRaises(c)
  \/ Rejected(c)

Next ==
  \/ \E c \in Calls : CallStep(c)
  \/ \E p \in Programs : StartProgram(p) \/ ProgramReturns(p) \/ ProgramRaises(p)
  \/ ConsumeTrial
  \/ Cancel

Spec == Init /\ [][Next]_vars

-----------------------------------------------------------------------------
(* Properties *)

Statuses == {"queued", "asking", "done", "failed", "cancelled"}

TypeOK ==
  /\ program \in [Programs -> {"queued", "running", "returned", "raised", "cancelled"}]
  /\ phase \in [Calls -> Statuses]
  /\ at \in [Calls -> 1..Models]
  /\ kept \in [Calls -> 0..Models]
  /\ usage \in [Traces -> 0..MaxAttempts]
  /\ ended \in [Traces -> {"no", "ok", "exhausted", "provider error"}]
  /\ pushed \in [Traces -> Nat]
  /\ rollup \in [Programs -> Nat]
  /\ trial \in [tokens : Nat, n : Nat]
  /\ scope \in {"open", "consumed", "abandoned", "cancelled"}
  /\ charged \in Nat
  /\ orphans \subseteq Calls

\* A trial is charged with the tokens of every invocation that reached its
\* end, failed attempts included, once each: whether it is a step of a cascade,
\* is left behind by a gather that raised, or ends after the trial is over.
ChargedOnce ==
  /\ trial.tokens = Tokens(Finished)
  /\ trial.n = Cardinality(Finished)

\* What the budget tracker takes from a trial is all that its evaluation
\* spent; only programs that raised before all their calls were over (a strict
\* gather) may spend more, and no more than their own calls.
RaisedEarly == {c \in Calls : c[1] \notin Tolerant /\ HasFailed(c[1])}
TrackerSeesAll ==
  scope = "consumed" =>
    LET missing == Spent(Calls) - charged
    IN  0 <= missing /\ missing <= Spent(RaisedEarly)

\* The usage of a program's invocation is what its calls spent, failed ones
\* included, unless some of them were cancelled or outlived it.
RollupExactFor(p) ==
  /\ program[p] \in {"returned", "raised"}
  /\ orphans \intersect CallsOf(p) = {}
  => rollup[p] = Spent(CallsOf(p))

\* ... in programs without a cascade: a cascade counts the answer it returns
\* twice.
PlainRollupExact ==
  \A p \in Programs : CallsOf(p) \intersect Routed = {} => RollupExactFor(p)

-----------------------------------------------------------------------------
(* Why they hold: the inductive invariant *)

\* The steps of a cascade are taken in their order: a later one has nothing yet,
\* an earlier one is over, and a call that is over was charged for what it asked.
StepsInOrder ==
  \A c \in Calls :
    /\ at[c] <= Steps(c)
    /\ phase[c] = "queued" => at[c] = 1 /\ usage[Current(c)] = 0
    /\ phase[c] \in {"queued", "asking"} =>
         usage[Current(c)] < MaxAttempts /\ \A i \in at[c]..Models : ended[<<c, i>>] = "no"
    /\ \A i \in 1..Models :
         /\ i > at[c] => usage[<<c, i>>] = 0
         /\ usage[<<c, i>>] > 0 /\ ended[<<c, i>>] = "no" =>
              phase[c] \in {"asking", "cancelled"} /\ i = at[c]

\* A call without a router has one step, whose trace is collected once if it
\* asked anything.
PlainTracedOnce ==
  \A c \in Calls \ Routed :
    /\ kept[c] = 0
    /\ phase[c] \in {"queued", "asking"} => pushed[<<c, 1>>] = 0
    /\ phase[c] \in {"done", "failed"} /\ usage[<<c, 1>>] > 0 => pushed[<<c, 1>>] = 1

\* What is still running when its program is over are the orphans, and only a
\* strict gather leaves any.
ProgramsWait ==
  /\ \A p \in Programs :
       /\ program[p] = "cancelled" => scope = "cancelled"
       /\ \A c \in CallsOf(p) :
            /\ program[p] = "queued" => phase[c] = "queued"
            /\ program[p] \in {"returned", "raised"} => Over(c) \/ c \in orphans
            /\ phase[c] = "cancelled" => program[p] = "cancelled"
            /\ c \in orphans => program[p] = "raised" /\ c \in RaisedEarly
  /\ scope = "consumed" => \A p \in Programs : ProgramOver(p)

CallsInv ==
  TypeOK /\ StepsInOrder /\ PlainTracedOnce /\ ProgramsWait
  /\ ChargedOnce /\ TrackerSeesAll /\ PlainRollupExact
=============================================================================
