------------------------------ MODULE Reducing ------------------------------
(***************************************************************************)
(* The reducers of composition/reduce.py: from the summaries of the chunks *)
(* to one summary, by rounds of merges.  The merges of a round run at the  *)
(* same time (gather) and end in any order.  A summary is the sequence of  *)
(* the leaves in it.  The merge is the one of the long-document programs   *)
(* (long_doc.py _merge_group), which costs nothing for one summary.        *)
(***************************************************************************)
EXTENDS Integers, Sequences, FiniteSets, SequencesExt, FiniteSetsExt

CONSTANTS
  MaxLeaves,
  Branching, Depths,    \* of Tree: branching, and values of max_depth
  KRequests,            \* k of Cluster, 0 for "auto"
  MayRaise              \* may a merge raise?

VARIABLES
  at,      \* where reduce() is
  kind,    \* the reducer
  depth,   \* max_depth
  leaves,  \* how many there are
  rest,    \* leaves that Refine has not merged
  groups,  \* the merges of this round
  ended,   \* those that are over, in the order they ended
  level,   \* rounds over
  paid,    \* merges the model was asked for
  result

arguments == <<kind, depth, leaves>>
vars == <<at, arguments, rest, groups, ended, level, paid, result>>

-----------------------------------------------------------------------------
Leaf(i) == <<i>>
AllLeaves(n) == [i \in 1..n |-> Leaf(i)]

\* Tree: groups of Branching; a last group of one joins the one before.
Sliced(current) ==
  [g \in 1..((Len(current) + Branching - 1) \div Branching) |->
     SubSeq(current, (g - 1) * Branching + 1, Min({g * Branching, Len(current)}))]
TreeGroups(current) ==
  LET gs == Sliced(current) IN
    IF Len(gs) >= 2 /\ Len(Last(gs)) = 1
    THEN Append(SubSeq(gs, 1, Len(gs) - 2), gs[Len(gs) - 1] \o Last(gs))
    ELSE gs

\* Cluster: _resolve_k, and what an assignment of the leaves makes of it.  A
\* leaf without text is put into the first cluster.
Root(n) == CHOOSE r \in 0..n : (2 * r - 1) * (2 * r - 1) < 4 * n /\ 4 * n < (2 * r + 1) * (2 * r + 1)
ResolvedK(n, request) == IF request = 0 THEN Max({2, Min({Root(n), 8})}) ELSE Min({request, n})
ClusterGroups(n, k, assignment) ==
  SelectSeq([c \in 1..k |-> SelectSeq(AllLeaves(n), LAMBDA leaf : assignment[leaf[1]] = c)],
            LAMBDA cluster : cluster # <<>>)

\* The first round of every reducer, for two leaves or more.
FirstRounds(n) ==
  CASE kind = "map_reduce" -> {<<AllLeaves(n)>>}
    [] kind = "refine" -> {<<SubSeq(AllLeaves(n), 1, 2)>>}
    [] kind = "tree" -> {TreeGroups(AllLeaves(n))}
    [] kind = "cluster" ->
         {<<AllLeaves(n)>>} \union
         UNION {LET k == ResolvedK(Cardinality(texts), request) IN
                  {ClusterGroups(n, k, f) : f \in {g \in [1..n -> 1..k] : \A i \in (1..n) \ texts : g[i] = 1}}
                : texts \in (SUBSET (1..n)) \ {{}}, request \in KRequests}

Init ==
  /\ kind \in {"map_reduce", "refine", "tree", "cluster"}
  /\ depth \in Depths
  /\ leaves \in 0..MaxLeaves
  /\ rest = IF kind = "refine" THEN SubSeq(AllLeaves(leaves), 3, leaves) ELSE <<>>
  /\ ended = <<>> /\ level = 0 /\ paid = 0
  /\ \/ /\ leaves = 0 /\ at = "raised"
        /\ groups = <<>> /\ result = <<>>
     \/ /\ leaves = 1 /\ kind # "map_reduce" /\ at = "returned"
        /\ groups = <<>> /\ result = Leaf(1)
     \/ /\ leaves > 1 \/ (leaves = 1 /\ kind = "map_reduce")
        /\ at = "merging" /\ groups \in FirstRounds(leaves) /\ result = <<>>

MergeReturns(g) ==
  /\ at = "merging"
  /\ g \in DOMAIN groups /\ ~Contains(ended, g)
  /\ ended' = Append(ended, g)
  /\ paid' = IF Len(groups[g]) > 1 THEN paid + 1 ELSE paid
  /\ UNCHANGED <<at, arguments, rest, groups, level, result>>

\* reduce() raises; the other merges of the round go on.
MergeRaises(g) ==
  /\ MayRaise
  /\ at = "merging"
  /\ g \in DOMAIN groups /\ ~Contains(ended, g) /\ Len(groups[g]) > 1
  /\ at' = "raised"
  /\ UNCHANGED <<arguments, rest, groups, ended, level, paid, result>>

\* gather gives the results in the order of the groups, whoever ends first.
\* A bug: in the order in which they end.
AsTheyEnd == [k \in DOMAIN groups |-> FlattenSeq(groups[ended[k]])]
Gathered == [g \in DOMAIN groups |-> FlattenSeq(groups[g])]

\* The merges that are still to be made.
NextRound(current) ==
  CASE kind = "refine" -> IF rest = <<>> THEN <<>> ELSE <<<<current[1], Head(rest)>>>>
    [] kind = "tree" -> IF Len(current) = 1 THEN <<>>
                        ELSE IF level + 1 < depth THEN TreeGroups(current) ELSE <<current>>
    [] kind \in {"map_reduce", "cluster"} -> IF Len(current) = 1 THEN <<>> ELSE <<current>>

RoundOver ==
  /\ at = "merging" /\ Len(ended) = Len(groups)
  /\ level' = level + 1
  /\ groups' = NextRound(Gathered)
  /\ ended' = <<>>
  /\ rest' = IF rest = <<>> THEN rest ELSE Tail(rest)
  /\ IF groups' = <<>>
     THEN at' = "returned" /\ result' = Gathered[1]
     ELSE UNCHANGED <<at, result>>
  /\ UNCHANGED <<arguments, paid>>

Next ==
  \/ \E g \in DOMAIN groups : MergeReturns(g) \/ MergeRaises(g)
  \/ RoundOver

Spec == Init /\ [][Next]_vars

-----------------------------------------------------------------------------
TypeOK ==
  /\ at \in {"merging", "returned", "raised"}
  /\ kind \in {"map_reduce", "refine", "tree", "cluster"}
  /\ depth \in Depths
  /\ leaves \in 0..MaxLeaves
  /\ Range(rest) \subseteq Range(AllLeaves(leaves))
  /\ IsInjective(ended) /\ Range(ended) \subseteq DOMAIN groups
  /\ level \in 0..MaxLeaves
  /\ paid \in 0..MaxLeaves
  /\ result \in Seq(1..leaves)

\* No leaf is lost or merged twice on the way to the result, which has the
\* leaves in the order of the text unless they were clustered; no more merges
\* are paid for than it takes to join the leaves one by one; and the tree stops
\* at its depth with at most one merge more.
ReduceKeepsAll ==
  /\ at = "returned" =>
       /\ IsInjective(result) /\ Range(result) = 1..leaves
       /\ kind # "cluster" => \A i \in DOMAIN result : result[i] = i
  /\ paid <= IF leaves > 1 THEN leaves - 1 ELSE 0
  /\ kind = "tree" => level <= depth + 1
=============================================================================
