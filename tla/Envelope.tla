------------------------------- MODULE Envelope -------------------------------
(***************************************************************************)
(* Programs that are written down as JSON (programs/envelope): the checks  *)
(* of the envelope, the programs built for its steps, and the execution,   *)
(* which asks the steps in their order and resolves pointers into the      *)
(* inputs and the outputs of the steps before.                             *)
(***************************************************************************)
EXTENDS Integers, Sequences, FiniteSets, FiniteSetsExt, Functions

CONSTANTS
  Steps,       \* [id, kind, client, reads, fields, type]
  MaxSteps,
  Outputs,     \* the output mappings, each a sequence of pointers
  Inputs,      \* the names that an envelope declares
  Capable,     \* the sets of capabilities that an envelope may declare
  Clients,     \* the names of its clients
  Types,       \* [name -> what it is made of], a name or None
  Methods,     \* attributes of a Program that an id may hide
  Protected,   \* those that cannot be set
  None

VARIABLES
  at,        \* "received", "building", "running", "returned" or "raised"
  steps, output, capabilities,
  given,     \* the inputs that the caller passes
  done,      \* the outputs of the steps so far: [id -> the names of its fields]
  asked,     \* the ids of the steps that were asked, oldest first
  unresolved \* the pointer that could not be resolved, or None

envelope == <<steps, output, capabilities, given>>
vars == <<at, envelope, done, asked, unresolved>>

Input(name) == [source |-> "inputs", name |-> name, part |-> None, field |-> None]
StepOutput(id, part, field) == [source |-> "steps", name |-> id, part |-> part, field |-> field]

-----------------------------------------------------------------------------
(* ProgramEnvelope._validate_envelope *)

Supported == {"call", "reason", "judge", "react", "refine", "best_of_n",
              "multi_chain_comparison", "program_of_thought"}

\* A pointer needs a field, even where the whole output is meant.
PointerValid(pointer, seen) ==
  CASE pointer.source = "inputs" -> pointer.name \in Inputs
    [] pointer.source = "steps" -> pointer.field # None /\ pointer.name \in seen /\ pointer.part = "output"
    [] OTHER -> FALSE

\* The steps a step may point to.
\* A bug: a step may point to every step.
AnySteps(k) == {steps[j].id : j \in DOMAIN steps}
Earlier(k) == {steps[j].id : j \in 1..(k - 1)}

\* A reference of a field is checked, what the type it names refers to is not.
TypeKnown(type) == type = None \/ type \in DOMAIN Types
CapabilitiesValid == capabilities \subseteq Supported /\ \A k \in DOMAIN steps : steps[k].kind \in capabilities
IdsValid == \A j, k \in DOMAIN steps : j # k => steps[j].id # steps[k].id
ClientsValid == \A k \in DOMAIN steps : steps[k].client \in Clients
PointersValid ==
  /\ \A k \in DOMAIN steps : \A pointer \in Range(steps[k].reads) : PointerValid(pointer, Earlier(k))
  /\ \A pointer \in Range(output) : PointerValid(pointer, {steps[k].id : k \in DOMAIN steps})
TypesValid == \A k \in DOMAIN steps : TypeKnown(steps[k].type)
Valid == CapabilitiesValid /\ IdsValid /\ ClientsValid /\ PointersValid /\ TypesValid

-----------------------------------------------------------------------------
(* The programs of the steps: some kinds are only reserved, a type that     *)
(* refers to itself is followed for ever, and the program of a step         *)
(* becomes the attribute of its id.                                         *)

Reserved == {"react", "refine", "best_of_n"}
TypeEnds[type \in DOMAIN Types \union {None}, n \in 0..(Cardinality(DOMAIN Types) + 1)] ==
  \/ type = None
  \/ type # None /\ n > 0 /\ Types[type] \in DOMAIN Types \union {None} /\ TypeEnds[Types[type], n - 1]
Buildable(step) ==
  /\ step.kind \notin Reserved
  /\ TypeEnds[step.type, Cardinality(DOMAIN Types) + 1]
  /\ step.id \notin Protected
Hidden == {k \in DOMAIN steps : steps[k].id \in Methods}

Init ==
  /\ at = "received"
  /\ steps \in UNION {[1..n -> Steps] : n \in 1..MaxSteps}
  /\ output \in Outputs
  /\ capabilities \in Capable
  /\ given \in SUBSET Inputs
  /\ done = <<>>
  /\ asked = <<>>
  /\ unresolved = None

Validate ==
  /\ at = "received"
  /\ at' = IF Valid THEN "building" ELSE "raised"
  /\ UNCHANGED <<envelope, done, asked, unresolved>>
Build ==
  /\ at = "building"
  /\ at' = IF \A k \in DOMAIN steps : Buildable(steps[k]) THEN "running" ELSE "raised"
  /\ UNCHANGED <<envelope, done, asked, unresolved>>

\* An input that was not passed is missing, whatever its default; a field of
\* an output is there if its step declares it.
Resolves(pointer) ==
  IF pointer.source = "inputs" THEN pointer.name \in given
  ELSE pointer.name \in DOMAIN done /\ pointer.field \in done[pointer.name]
Missing(pointers) == {k \in DOMAIN pointers : ~Resolves(pointers[k])}

Now == Len(asked) + 1
Running == at = "running" /\ Hidden = {}
Unresolved(pointers) ==
  /\ Missing(pointers) # {}
  /\ unresolved' = pointers[Min(Missing(pointers))]
  /\ at' = "raised"
  /\ UNCHANGED <<envelope, done, asked>>
CannotAsk == Running /\ Now <= Len(steps) /\ Unresolved(steps[Now].reads)
AskStep ==
  /\ Running /\ Now <= Len(steps) /\ Missing(steps[Now].reads) = {}
  /\ asked' = Append(asked, steps[Now].id)
  /\ done' = [id \in DOMAIN done \union {steps[Now].id} |->
                IF id = steps[Now].id THEN steps[Now].fields ELSE done[id]]
  /\ UNCHANGED <<at, envelope, unresolved>>
StepFails ==
  /\ Running /\ Now <= Len(steps) /\ Missing(steps[Now].reads) = {}
  /\ asked' = Append(asked, steps[Now].id)
  /\ at' = "raised"
  /\ UNCHANGED <<envelope, done, unresolved>>
CannotReturn == Running /\ Now > Len(steps) /\ Unresolved(output)
Return ==
  /\ Running /\ Now > Len(steps) /\ Missing(output) = {}
  /\ at' = "returned"
  /\ UNCHANGED <<envelope, done, asked, unresolved>>

\* A step whose id is "forward" takes the place of the program.
Usurped ==
  /\ at = "running" /\ Hidden # {}
  /\ asked' = Append(asked, steps[CHOOSE k \in Hidden : TRUE].id)
  /\ at' \in {"returned", "raised"}
  /\ UNCHANGED <<envelope, done, unresolved>>

Next == Validate \/ Build \/ CannotAsk \/ AskStep \/ StepFails \/ CannotReturn \/ Return \/ Usurped

Spec == Init /\ [][Next]_vars

-----------------------------------------------------------------------------
TypeOK ==
  /\ at \in {"received", "building", "running", "returned", "raised"}
  /\ DOMAIN done \subseteq Range(asked) /\ given \subseteq Inputs
  /\ Len(asked) <= Len(steps)

Ids == [k \in DOMAIN steps |-> steps[k].id]

\* An envelope that is refused asks nothing, one that is accepted asks its
\* steps in their order, each once and never of a reserved kind; a pointer
\* that cannot be resolved is never one to a later or an unknown step; and
\* all steps are behind an answer, unless one has the name of a method.
EnvelopeRunsAsWritten ==
  /\ asked # <<>> => Valid /\ \A k \in DOMAIN steps : steps[k].kind \notin Reserved
  /\ Hidden = {} => (\A k \in DOMAIN asked : asked[k] = Ids[k]) /\ (at = "returned" => asked = Ids)
  /\ unresolved # None =>
       IF unresolved.source = "inputs" THEN unresolved.name \in Inputs \ given
       ELSE /\ unresolved.name \in DOMAIN done
            /\ unresolved.field \notin done[unresolved.name]

-----------------------------------------------------------------------------
(* Why it runs as written: the inductive invariant *)

\* Nothing is asked before the envelope is valid and built; while its steps
\* run, the first of them are behind, and the outputs are theirs.
FirstStepsAreDone ==
  /\ steps \in Seq(Steps) /\ output \in Outputs /\ asked \in Seq(Range(Ids))
  /\ at \in {"received", "building", "running", "returned", "raised"}
  /\ at \in {"received", "building"} => asked = <<>> /\ done = <<>>
  /\ at \in {"building", "running"} => Valid
  /\ at \in {"received", "building", "running"} => unresolved = None
  /\ at = "running" =>
       /\ \A k \in DOMAIN steps : steps[k].kind \notin Reserved
       /\ Hidden = {} => /\ Len(asked) <= Len(steps)
                        /\ DOMAIN done = {steps[j].id : j \in 1..Len(asked)}
       /\ Hidden # {} => asked = <<>>
  /\ EnvelopeRunsAsWritten
=============================================================================
