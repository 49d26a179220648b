------------------------------- MODULE TrialLog ------------------------------
(***************************************************************************)
(* The mutation log of the optimizers (optimization/mutations.py) and what *)
(* analysis.py reads from it.  Runs that share a log append a line per     *)
(* trial; the process may die, and a write may fail, within a line, and    *)
(* the next line is then written behind the rest of it.                    *)
(***************************************************************************)
EXTENDS Integers, Sequences, FiniteSets, Functions

CONSTANTS
  Runs,        \* optimize() calls, which make a RunContext each
  Strategy,    \* [run -> the name of its optimizer], a number for its place among them
  Gains,       \* improvements of the metric
  MaxTrials,   \* of a run
  MaxFaults,
  None

VARIABLES
  up,
  context,   \* [run -> [trial, last]] or None: RunContext, while the run goes on
  mutations, \* MutationLog._mutations
  file,      \* lines, each the records it was made of: [record, whole]
  open,      \* whether the last line lacks its end
  loaded,    \* what happened to MutationLog.load: None, "loaded" or "refused"
  made,      \* every mutation so far, oldest first
  own,       \* those of the present process
  faults

vars == <<up, context, mutations, file, open, loaded, made, own, faults>>

-----------------------------------------------------------------------------
(* Readers *)

\* A line parses if it is one whole record.  A list that is read from a log is
\* a function on the places of its lines.
Parses(line) == Len(line) = 1 /\ line[1].whole
Whole(lines) == {k \in DOMAIN lines : Parses(lines[k])}
RecordsOf(lines, places) == [k \in places |-> lines[k][1].record]

\* load_mutations goes on behind a broken line, MutationLog.load does not.
\* A bug: what is behind a broken line is lost.
UntilBroken(lines) == RecordsOf(lines, {k \in Whole(lines) : 1..k \subseteq Whole(lines)})
Readable(lines) == RecordsOf(lines, Whole(lines))
Loads(lines) == Whole(lines) = DOMAIN lines

\* strategy_contributions and summarize_run: the trials that they count; their
\* sums of gains, costs and tokens are over the same trials.
Of(records, strategy) == {k \in DOMAIN records : records[k].strategy = strategy}
Wins(records, trials) == {k \in trials : records[k].gain > 0}
Contribution(records, strategy) ==
  [strategy |-> strategy, trials |-> Of(records, strategy), wins |-> Wins(records, Of(records, strategy))]
Contributions(records) == {Contribution(records, records[k].strategy) : k \in DOMAIN records}
SummarizeRun(records) ==
  [trials |-> DOMAIN records, wins |-> Wins(records, DOMAIN records), strategies |-> Contributions(records)]

-----------------------------------------------------------------------------
Init ==
  /\ up = TRUE
  /\ context = [r \in Runs |-> None]
  /\ mutations = <<>>
  /\ file = <<>>
  /\ open = FALSE
  /\ loaded = None
  /\ made = <<>>
  /\ own = {}
  /\ faults = 0

Start(r) ==
  /\ up /\ context[r] = None /\ \A m \in Range(made) : m.run # r
  /\ context' = [context EXCEPT ![r] = [trial |-> 0, last |-> None]]
  /\ UNCHANGED <<up, mutations, file, open, loaded, made, own, faults>>

\* RunContext.make_mutation: the parent is the mutation before it.
Mutation(r, gain) ==
  [run |-> r, trial |-> context[r].trial, parent |-> context[r].last, strategy |-> Strategy[r], gain |-> gain]
Counted(r) == [trial |-> context[r].trial + 1, last |-> context[r].trial]

\* The text that reaches the file, at the end of a line that was left open.
Written(record, whole) ==
  IF open THEN [file EXCEPT ![Len(file)] = Append(@, [record |-> record, whole |-> whole])]
  ELSE Append(file, <<[record |-> record, whole |-> whole]>>)

MayTry(r) == up /\ context[r] # None /\ context[r].trial < MaxTrials
Remember(m) == made' = Append(made, m)
Record(r, gain) ==
  /\ MayTry(r)
  /\ LET m == Mutation(r, gain) IN
       /\ Remember(m)
       /\ mutations' = Append(mutations, m)
       /\ own' = own \union {m}
       /\ file' = Written(m, TRUE)
  /\ open' = FALSE
  /\ context' = [context EXCEPT ![r] = Counted(r)]
  /\ UNCHANGED <<up, loaded, faults>>

\* The write fails before, within or at the end of the line; the list has the
\* record, the run ends.
RecordFails(r, gain) ==
  /\ MayTry(r) /\ faults < MaxFaults
  /\ faults' = faults + 1
  /\ LET m == Mutation(r, gain) IN
       /\ Remember(m)
       /\ mutations' = Append(mutations, m)
       /\ own' = own \union {m}
       /\ \/ UNCHANGED <<file, open>>
          \/ \E whole \in BOOLEAN : file' = Written(m, whole) /\ open' = TRUE
  /\ context' = [context EXCEPT ![r] = None]
  /\ UNCHANGED <<up, loaded>>

Crash(r, gain) ==
  /\ MayTry(r) /\ faults < MaxFaults
  /\ faults' = faults + 1
  /\ LET m == Mutation(r, gain) IN
       /\ Remember(m)
       /\ \/ UNCHANGED <<file, open>>
          \/ \E whole \in BOOLEAN : file' = Written(m, whole) /\ open' = TRUE
  /\ up' = FALSE
  /\ context' = [q \in Runs |-> None]
  /\ mutations' = <<>>
  /\ own' = {}
  /\ loaded' = None
Ends(r) ==
  /\ up /\ context[r] # None
  /\ context' = [context EXCEPT ![r] = None]
  /\ UNCHANGED <<up, mutations, file, open, loaded, made, own, faults>>

\* The next process makes a new log over the file, or loads the old one; where
\* that is refused it goes on with a new one.
New ==
  /\ ~up
  /\ up' = TRUE
  /\ UNCHANGED <<context, mutations, file, open, loaded, made, own, faults>>
Load ==
  /\ ~up
  /\ up' = TRUE
  /\ IF Loads(file) THEN mutations' = RecordsOf(file, DOMAIN file) /\ loaded' = "loaded"
                    ELSE loaded' = "refused" /\ UNCHANGED mutations
  /\ UNCHANGED <<context, file, open, made, own, faults>>

Next ==
  \/ \E r \in Runs : Start(r) \/ Ends(r)
  \/ \E r \in Runs, gain \in Gains : Record(r, gain) \/ RecordFails(r, gain) \/ Crash(r, gain)
  \/ New \/ Load

Spec == Init /\ [][Next]_vars

-----------------------------------------------------------------------------
TypeOK ==
  /\ up \in BOOLEAN /\ open \in BOOLEAN
  /\ \A r \in Runs : context[r] # None => context[r].trial \in 0..MaxTrials
  /\ Range(mutations) \subseteq Range(made)
  /\ faults \in 0..MaxFaults

IsSubsequence(small, large) ==
  \E at \in [DOMAIN small -> DOMAIN large] :
    /\ \A k \in DOMAIN small : large[at[k]] = small[k]
    /\ \A j, k \in DOMAIN small : j < k => at[j] < at[k]

\* What is read of a log is true and nearly all of it: every trial at most
\* once and in its order, none that did not happen, and a fault costs at most
\* its own record and the next; a trial points to the one before it in its
\* run, even where that one is lost; a trial and a win of the summary are those
\* of one strategy; and the log in memory has all of its process's trials.
LogTellsTheRuns ==
  LET records == Readable(file)
      summary == SummarizeRun(records)
  IN /\ IsSubsequence(records, made)
     /\ Len(made) - Cardinality(DOMAIN records) <= 2 * faults
     /\ \A m \in Range(made) :
          IF m.trial = 0 THEN m.parent = None
          ELSE m.parent = m.trial - 1 /\ \E p \in Range(made) : p.run = m.run /\ p.trial = m.parent
     /\ \A k \in summary.trials : \E c \in summary.strategies :
          /\ k \in c.trials /\ (k \in summary.wins <=> k \in c.wins)
          /\ \A d \in summary.strategies \ {c} : k \notin d.trials \union d.wins
     /\ own \subseteq Range(mutations)
     /\ loaded = "loaded" /\ own = {} => mutations = records

-----------------------------------------------------------------------------
(* Why the log tells the runs: the inductive invariant *)

Trials ==
  [run : Runs, trial : Nat, parent : Nat \union {None}, strategy : Range(Strategy), gain : Gains]

\* A trial was made once, behind the trial before it in its run.
MadeInOrder ==
  /\ made \in Seq(Trials)
  /\ \A i, j \in DOMAIN made : made[i].run = made[j].run /\ made[i].trial = made[j].trial => i = j
  /\ \A i \in DOMAIN made :
       IF made[i].trial = 0 THEN made[i].parent = None
       ELSE /\ made[i].parent = made[i].trial - 1
            /\ \E j \in DOMAIN made : made[j].run = made[i].run /\ made[j].trial = made[i].parent

\* A run that goes on knows its latest trial.
RunsGoOn ==
  /\ DOMAIN context = Runs
  /\ \A r \in Runs : context[r] # None =>
       /\ context[r] \in [trial : Nat, last : Nat \union {None}]
       /\ \A i \in DOMAIN made : made[i].run = r => made[i].trial < context[r].trial
       /\ IF context[r].trial = 0 THEN context[r].last = None
          ELSE /\ context[r].last = context[r].trial - 1
               /\ \E j \in DOMAIN made : made[j].run = r /\ made[j].trial = context[r].last

Parts == [record : Trials, whole : BOOLEAN]
\* Lines are of trials that were made, one line behind the other, and what is
\* missing is paid for by faults: two records if what is left open is a record.
AtStake == IF ~open THEN 0 ELSE IF Len(file) \in Whole(file) THEN 2 ELSE 1
LinesInOrder ==
  /\ open \in BOOLEAN /\ (open => file # <<>>) /\ faults \in Nat
  /\ file \in Seq(Seq(Parts))
  /\ \A k \in DOMAIN file : file[k] # <<>> /\ file[k][1].record \in Range(made)
  /\ \A j, k \in DOMAIN file : j < k => \A a, b \in DOMAIN made :
       made[a] = file[j][1].record /\ made[b] = file[k][1].record => a < b
  /\ Len(made) - Cardinality(Whole(file)) + AtStake <= 2 * faults

MemoryIsWhole ==
  /\ mutations \in Seq(Trials) /\ own \subseteq Range(mutations) /\ (~up => own = {})
  /\ loaded = "loaded" /\ own = {} => mutations = Readable(file)

LogInv == MadeInOrder /\ RunsGoOn /\ LinesInOrder /\ MemoryIsWhole
=============================================================================
