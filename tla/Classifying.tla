------------------------------ MODULE Classifying -----------------------------
(***************************************************************************)
(* The classifiers of programs/classify over a set of labels (labels.py):  *)
(* by entailment (nli.py), by nearness to the labels (prototype.py) or to  *)
(* labelled texts (retrieval.py), by what a model picks (zero_shot.py,     *)
(* multi_label.py), level by level (hierarchical.py), and by several of    *)
(* them at once (ensemble.py) whose classifications are aggregated         *)
(* (composition/aggregate.py).  What the models, the embedders and the     *)
(* aggregation functions of kaos_nlp_core say is chosen.                   *)
(***************************************************************************)
EXTENDS Integers, Sequences, FiniteSets, FiniteSetsExt, Functions

CONSTANTS
  None, Unknown,
  Labels,       \* 1..n, as they are declared
  Parent,       \* [label -> its parent, None for a root]
  Similarities, \* what an embedder or an entailment model may say
  Threshold,    \* threshold of prototype.py
  MinScores,    \* min_score
  Corpus,       \* the labels of the texts of retrieval.py
  K, Margin,    \* k and, in percent, tie_break_margin
  Picks,        \* what a model lists as labels that apply
  Members,      \* the tuples of kinds that an ensemble is made of
  Aggregators,
  MaxConcurrency, MaxDepth

VARIABLES
  at,
  options,      \* [exclusive, allow_abstain, min_score, empty (no text)]
  members,      \* the kinds that run, the program on its own if it is one
  aggregator,
  state,        \* of each member: "waiting", "running", "raised" or "done"
  results,      \* what each member classified
  path,         \* of the hierarchical classifier
  result        \* what the program returns

choices == <<options, members, aggregator>>
vars == <<at, choices, state, results, path, result>>

ABSTAIN_LABEL == 0
Nothing == [labels |-> <<>>, scores |-> [l \in {ABSTAIN_LABEL} |-> 0], abstained |-> TRUE]
Pick(list, scores) == [labels |-> list, scores |-> scores, abstained |-> list = <<>>]

\* The lists of the labels of a set: the one that has them as they are declared.
Listings(names) == {list \in [1..Cardinality(names) -> names] : Range(list) = names}
\* A bug: in an order of their own.
LastFirst(names) == {list \in Listings(names) : \A i, j \in DOMAIN list : i < j => list[i] > list[j]}
Ordered(names) == {list \in Listings(names) : \A i, j \in DOMAIN list : i < j => list[i] < list[j]}
Zeros == [l \in Labels |-> 0]

-----------------------------------------------------------------------------
(* Each classifier: the classifications it may return. *)

\* Without a text, the first label if there has to be one.
OnNoText == IF options.allow_abstain THEN {Nothing} ELSE {Pick(<<Min(Labels)>>, Zeros)}

\* The highest score, the label declared first of equals.
Tops(scores) == {l \in Labels : \A m \in Labels :
                   scores[m] < scores[l] \/ (scores[m] = scores[l] /\ l <= m)}
TooLow(score) == options.min_score # None /\ score < options.min_score /\ options.allow_abstain

Entailed(scores) ==
  {IF TooLow(scores[l]) THEN Pick(<<>>, scores) ELSE Pick(<<l>>, scores) : l \in Tops(scores)}

Near(scores) ==
  LET above == {l \in Labels : scores[l] >= Threshold}
  IN IF options.exclusive THEN Entailed(scores)
     ELSE IF above # {} THEN {Pick(list, scores) : list \in Ordered(above)}
     ELSE IF options.allow_abstain THEN {Pick(<<>>, scores)}
     ELSE {Pick(<<l>>, scores) : l \in Tops(scores)}

\* Sums over the k nearest texts, or how many they are if none is similar; a
\* close call goes to another program, whose label must be one of the set.
Nearest(sims) ==
  {s \in SUBSET DOMAIN Corpus :
     /\ Cardinality(s) = Min({K, Len(Corpus)})
     /\ \A i \in s, j \in DOMAIN Corpus \ s : sims[j] <= sims[i]}
SumOf(sims, near, l) == MapThenSumSet(LAMBDA i : IF Corpus[i] = l THEN Max({0, sims[i]}) ELSE 0, near)
Weights(sims, near) ==
  LET sums == [l \in Labels |-> SumOf(sims, near, l)]
  IN IF \E l \in Labels : sums[l] > 0 THEN sums
     ELSE [l \in Labels |-> Cardinality({i \in near : Corpus[i] = l})]
RunnerUp(weights, top) == Max({0} \union {weights[l] : l \in Labels \ {top}})
CloseCall(weights, top) ==
  100 * (weights[top] - RunnerUp(weights, top)) < Margin * MapThenSumSet(LAMBDA l : weights[l], Labels)
ByNeighbours(weights) ==
  {Pick(<<l>>, weights) : l \in
     {l \in Labels : \E top \in Tops(weights) : l = top \/ CloseCall(weights, top)}}

\* A model's label, and a model's list of labels.
Named(l) == IF l \in Labels THEN Pick(<<l>>, [m \in {l} |-> 1]) ELSE Nothing
Listed(list) ==
  LET names == Range(list) \intersect Labels
  IN {Pick(listed, [l \in names |-> 1]) : listed \in Ordered(names)}

Classifications(kind) ==
  CASE kind = "nli" ->
         IF options.empty THEN OnNoText ELSE UNION {Entailed(s) : s \in [Labels -> Similarities]}
    [] kind = "prototype" ->
         IF options.empty THEN OnNoText ELSE UNION {Near(s) : s \in [Labels -> Similarities]}
    [] kind = "retrieval" ->
         IF Corpus = <<>> THEN {Nothing} ELSE IF options.empty THEN OnNoText
         ELSE UNION {UNION {ByNeighbours(Weights(sims, near)) : near \in Nearest(sims)} :
                       sims \in [DOMAIN Corpus -> Similarities]}
    [] kind = "zero_shot" ->
         {Named(l) : l \in Labels \union (IF options.allow_abstain THEN {ABSTAIN_LABEL} ELSE {})}
    [] kind = "multi_label" -> UNION {Listed(list) : list \in Picks}

\* Those that want labels of which one applies, and the one that does not.
Takes(kind, exclusive) ==
  CASE kind \in {"nli", "retrieval", "zero_shot"} -> exclusive
    [] kind = "multi_label" -> ~exclusive
    [] OTHER -> TRUE

-----------------------------------------------------------------------------
(* Aggregation *)

Done == {results[i] : i \in DOMAIN results}
Votes(l) == Cardinality({i \in DOMAIN results : l \in Range(results[i].labels)})
Given == {l \in Labels : Votes(l) > 0}

\* The best score of a name, over all members, those that abstain too.
Pooled ==
  LET names == UNION {DOMAIN r.scores : r \in Done}
  IN [l \in names |-> Max({r.scores[l] : r \in {s \in Done : l \in DOMAIN s.scores}})]
BestPooled == {l \in DOMAIN Pooled : \A m \in DOMAIN Pooled : Pooled[m] <= Pooled[l]}

\* What kaos_nlp_core may return: one name or None, or a set of names.
Winners ==
  CASE aggregator = "vote" ->
         IF Given = {} THEN {None} ELSE {l \in Given : \A m \in Given : Votes(m) <= Votes(l)}
    [] aggregator = "majority" ->
         {l \in Given : 2 * Votes(l) > Len(results)}
           \union (IF \A l \in Given : 2 * Votes(l) <= Len(results) THEN {None} ELSE {})
    [] aggregator = "max_score" -> BestPooled
Unions ==
  CASE aggregator = "union" -> Given
    [] aggregator = "intersection" -> {l \in Given : Votes(l) = Len(results)}
    [] aggregator = "max_score" -> BestPooled

\* A winner outside the set, the mark of abstention too, is none.
Scored == IF aggregator = "max_score" THEN Pooled ELSE <<>>
Exclusive(winner) == IF winner \in Labels THEN Pick(<<winner>>, Scored) ELSE Pick(<<>>, Scored)
Multi(names) == {Pick(list, Scored) : list \in Ordered(names \intersect Labels)}
OneWinner == aggregator \in {"vote", "majority"} \/ (aggregator = "max_score" /\ options.exclusive)
Combined == IF OneWinner THEN {Exclusive(w) : w \in Winners} ELSE Multi(Unions)

-----------------------------------------------------------------------------
Init ==
  /\ options \in [exclusive : BOOLEAN, allow_abstain : BOOLEAN, min_score : MinScores, empty : BOOLEAN]
  /\ \/ at = "walking" /\ members = <<>> /\ options.exclusive /\ aggregator = None
     \/ at = "running" /\ members \in Members /\ aggregator \in Aggregators
  /\ \A i \in DOMAIN members : Takes(members[i], options.exclusive)
  /\ state = [i \in DOMAIN members |-> "waiting"]
  /\ results = [i \in DOMAIN members |-> Nothing]
  /\ path = <<>>
  /\ result = Nothing

\* gather: the members run as far as the semaphore lets them.
Start(i) ==
  /\ at = "running" /\ state[i] = "waiting"
  /\ Cardinality({j \in DOMAIN state : state[j] = "running"}) < MaxConcurrency
  /\ state' = [state EXCEPT ![i] = "running"]
  /\ UNCHANGED <<at, choices, results, path, result>>
Classified(i) ==
  /\ at = "running" /\ state[i] = "running"
  /\ \E c \in Classifications(members[i]) : results' = [results EXCEPT ![i] = c]
  /\ state' = [state EXCEPT ![i] = "done"]
  /\ UNCHANGED <<at, choices, path, result>>

\* The first failure is the ensemble's.
MemberRaises(i) ==
  /\ at = "running" /\ state[i] = "running"
  /\ state' = [state EXCEPT ![i] = "raised"]
  /\ at' = "raised"
  /\ UNCHANGED <<choices, results, path, result>>
Combine ==
  /\ at = "running"
  /\ \A i \in DOMAIN state : state[i] = "done"
  /\ IF Len(members) = 1 THEN result' = results[1] ELSE result' \in Combined
  /\ at' = "returned"
  /\ UNCHANGED <<choices, state, results, path>>

\* hierarchical.py: from the roots down, to a leaf, an abstention or max_depth.
Children(parent) == {l \in Labels : Parent[l] = parent}
Under == IF path = <<>> THEN None ELSE path[Len(path)]
\* A bug: the walk goes on from the root.
Roots == Children(None)
Level == Children(Under)
Descend(l) ==
  /\ at = "walking"
  /\ Len(path) < MaxDepth
  /\ l \in Level
  /\ path' = Append(path, l)
  /\ UNCHANGED <<at, choices, state, results, result>>
Walked ==
  /\ at = "walking"
  /\ Len(path) = MaxDepth \/ Level = {} \/ options.allow_abstain
  /\ result' = IF path = <<>> THEN Nothing ELSE Pick(<<path[Len(path)]>>, [l \in {path[Len(path)]} |-> 1])
  /\ at' = "returned"
  /\ UNCHANGED <<choices, state, results, path>>

Next ==
  \/ \E i \in DOMAIN state : Start(i) \/ Classified(i) \/ MemberRaises(i)
  \/ Combine
  \/ \E l \in Labels : Descend(l)
  \/ Walked

Spec == Init /\ [][Next]_vars

-----------------------------------------------------------------------------
IsClassification(c) ==
  /\ c.labels \in Seq(Labels)
  /\ c.abstained \in BOOLEAN
  /\ DOMAIN c.scores \subseteq Labels \union {ABSTAIN_LABEL}
TypeOK ==
  /\ at \in {"walking", "running", "returned", "raised"}
  /\ members = <<>> \/ members \in Members
  /\ \A i \in DOMAIN state : state[i] \in {"waiting", "running", "raised", "done"}
  /\ \A c \in Done \union {result} : IsClassification(c)
  /\ path \in Seq(Labels)

\* A classification names labels of the set once each and in their order, none
\* exactly if it abstains, and one if only one may apply.  A label that an
\* ensemble names was named by a member, except by max_score, which also counts
\* the scores of members that abstained; all members were heard.
LabelsAreDeclared ==
  at = "returned" =>
    /\ \A i, j \in DOMAIN result.labels : i < j => result.labels[i] < result.labels[j]
    /\ result.abstained <=> result.labels = <<>>
    /\ options.exclusive /\ (OneWinner \/ Len(members) < 2) => Len(result.labels) <= 1
    /\ members # <<>> /\ aggregator # "max_score" => Range(result.labels) \subseteq Given
    /\ \A i \in DOMAIN state : state[i] = "done"

\* Where abstention is not allowed a program that measures never abstains; and
\* a path of the hierarchy goes from a root to a child each time.
PathsDescend ==
  /\ at = "returned" /\ Len(members) = 1 /\ ~options.allow_abstain
     /\ members[1] \in {"nli", "prototype", "zero_shot"} => ~result.abstained
  /\ \A k \in DOMAIN path : Parent[path[k]] = IF k = 1 THEN None ELSE path[k - 1]
  /\ at = "returned" /\ path # <<>> /\ ~options.allow_abstain =>
       Len(path) = MaxDepth \/ Children(path[Len(path)]) = {}

-----------------------------------------------------------------------------
(* Why the labels can be relied on: the inductive invariant *)

Kinds == {"nli", "prototype", "retrieval", "zero_shot", "multi_label"}
Measures(kind) == kind \in {"nli", "prototype", "zero_shot"}

\* What a classifier of a kind gives.
Sound(kind, c) ==
  /\ c.labels \in Seq(Labels)
  /\ \A i, j \in DOMAIN c.labels : i < j => c.labels[i] < c.labels[j]
  /\ c.abstained <=> c.labels = <<>>
  /\ options.exclusive => Len(c.labels) <= 1
  /\ ~options.allow_abstain /\ Measures(kind) => ~c.abstained

\* What a member that is done has given is sound, nothing is returned before
\* all are, and a walk has one program and no members.
MembersAreSound ==
  /\ at \in {"walking", "running", "returned", "raised"}
  /\ members \in Seq(Kinds) /\ DOMAIN state = DOMAIN members /\ DOMAIN results = DOMAIN members
  /\ \A i \in DOMAIN members :
       /\ Takes(members[i], options.exclusive)
       /\ state[i] = "done" => Sound(members[i], results[i])
  /\ at \in {"running", "raised"} => members # <<>> /\ aggregator \in Aggregators
  /\ at = "walking" => members = <<>>
  /\ members # <<>> => path = <<>>
  /\ path \in Seq(Labels)
  /\ LabelsAreDeclared /\ PathsDescend
=============================================================================
