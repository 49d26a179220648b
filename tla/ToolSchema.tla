------------------------------- MODULE ToolSchema -----------------------------
(***************************************************************************)
(* A tool made of a Python callable (programs/tool.py): the parameters     *)
(* become a JSON schema, a model writes arguments that satisfy the schema, *)
(* and the executor is called with them as keyword arguments.              *)
(***************************************************************************)
EXTENDS Integers, Sequences, FiniteSets

CONSTANTS
  Hints,     \* "none", "primitive", "optional", "list", "model", "union" or "other"
  MaxParams,
  None

VARIABLES
  params,  \* [name, kind, hint, default] of each parameter
  at,      \* "new", "raised", "described", "called", "answered" or "failed"
  schema,  \* [properties, required], positions of parameters
  given    \* the parameters that the arguments of the call name

vars == <<params, at, schema, given>>

Kinds == {"keyword", "positional", "star"}

\* "self" may be the name of a parameter of a plain function.
Params == [name : {"self", "named"}, kind : Kinds, hint : Hints, default : BOOLEAN]
\* Python's own rules: no default before a parameter without one, and
\* positional-only parameters first; *args has no default.
Legal(ps) ==
  /\ \A k \in DOMAIN ps : ps[k].kind = "star" => k = Len(ps) /\ ~ps[k].default
  /\ \A k, l \in DOMAIN ps : k < l =>
       /\ ps[l].kind = "positional" => ps[k].kind = "positional"
       /\ ps[k].default => ps[l].default \/ ps[l].kind = "star"
  /\ Cardinality({k \in DOMAIN ps : ps[k].name = "self"}) <= 1

Init ==
  /\ params \in {ps \in UNION {[1..n -> Params] : n \in 0..MaxParams} : Legal(ps)}
  /\ at = "new"
  /\ schema = None
  /\ given = {}

-----------------------------------------------------------------------------
\* Parameters called self or cls, *args and **kwargs are left out of the schema.
Described(ps) == {k \in DOMAIN ps : ps[k].name # "self" /\ ps[k].kind # "star"}
Supported(p) == p.hint \in {"primitive", "optional", "list", "model"}

\* What the model must give.  A bug: every parameter without a default but the
\* optional ones and the first.
NotTheFirst(p, k) == ~p.default /\ p.hint # "optional" /\ k > 1
Required(p, k) == ~p.default /\ p.hint # "optional"

FromCallable ==
  /\ at = "new" /\ \A k \in Described(params) : Supported(params[k])
  /\ schema' = [properties |-> Described(params),
                required |-> {k \in Described(params) : Required(params[k], k)}]
  /\ at' = "described"
  /\ UNCHANGED <<params, given>>
\* A parameter without a hint, or with one that has no schema.
NoSchema ==
  /\ at = "new" /\ \E k \in Described(params) : ~Supported(params[k])
  /\ at' = "raised"
  /\ UNCHANGED <<params, schema, given>>

\* The arguments that a provider checks against the schema.
Invoke ==
  /\ at = "described"
  /\ \E names \in SUBSET schema.properties :
       schema.required \subseteq names /\ given' = names
  /\ at' = "called"
  /\ UNCHANGED <<params, schema>>

\* Python binds the keyword arguments: every parameter needs a value, and a
\* positional-only one takes none by its name.
Binds(names) ==
  /\ \A k \in names : params[k].kind = "keyword"
  /\ \A k \in DOMAIN params :
       k \in names \/ params[k].default \/ params[k].kind = "star"
Execute ==
  /\ at = "called" /\ Binds(given)
  /\ at' \in {"answered", "failed"}
  /\ UNCHANGED <<params, schema, given>>
CannotBind ==
  /\ at = "called" /\ ~Binds(given)
  /\ at' = "failed"
  /\ UNCHANGED <<params, schema, given>>

Next == FromCallable \/ NoSchema \/ Invoke \/ Execute \/ CannotBind

Spec == Init /\ [][Next]_vars

-----------------------------------------------------------------------------
TypeOK ==
  /\ at \in {"new", "raised", "described", "called", "answered", "failed"}
  /\ given \subseteq DOMAIN params

\* Arguments that satisfy the schema can be bound, but for three signatures: one
\* with an optional parameter that has no default and is left out, one with a
\* positional-only parameter, and a plain function with a parameter called self.
\* The schema asks for nothing that a call could do without.
SchemaCallsBind ==
  /\ at = "called" /\ ~Binds(given) =>
       \/ \E k \in schema.properties \ given : params[k].hint = "optional" /\ ~params[k].default
       \/ \E k \in DOMAIN params : params[k].kind = "positional"
       \/ \E k \in DOMAIN params : params[k].name = "self"
  /\ at = "described" =>
       \A k \in schema.required : ~Binds(schema.properties \ {k})

-----------------------------------------------------------------------------
(* Why arguments bind: the inductive invariant *)

\* The schema is that of the parameters, and the arguments satisfy it.
SchemaIsOfParams ==
  /\ \A k \in DOMAIN params : params[k] \in Params
  /\ at \in {"described", "called"} =>
       schema = [properties |-> Described(params),
                 required |-> {k \in Described(params) : Required(params[k], k)}]
  /\ at = "called" => schema.required \subseteq given /\ given \subseteq schema.properties
=============================================================================
