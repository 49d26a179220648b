---------------------------- MODULE ChunkedLeaves ---------------------------
(***************************************************************************)
(* Long documents, chunk by chunk: summarize/long_doc.py and               *)
(* classify/chunked.py, which share their loop, over one InMemoryChunkCache*)
(* (cache/chunk.py).  A document with a budget goes through its chunks one *)
(* after the other and stops when the budget is used up; without one its   *)
(* leaves run at the same time, as many as the semaphore lets.  The cache  *)
(* never suspends while it holds its lock, so a lookup belongs to the      *)
(* action that makes it.                                                   *)
(***************************************************************************)
EXTENDS Integers, Sequences, FiniteSets, SequencesExt

CONSTANTS
  Docs,
  Chunks,          \* [Docs -> Seq(chunk)]: the chunker's output; a chunk
                   \* stands for its ChunkCacheKey
  Budgeted,        \* the documents with a budget
  Cap,             \* its cap on cost
  Costs,           \* what a leaf may cost
  MaxConcurrency,
  MaxEntries,      \* max_entries of the cache
  MayRaise         \* may a leaf raise?

VARIABLES
  entries,   \* _entries of the cache: its keys, oldest first
  doc,       \* where forward() of each document is
  leaf,      \* where each of its leaves is
  spent,     \* the cost its tracker has seen
  partial    \* metadata["partial"] of its result

vars == <<entries, doc, leaf, spent, partial>>

-----------------------------------------------------------------------------
Positions(d) == DOMAIN Chunks[d]
In(d, status) == {i \in Positions(d) : leaf[d][i] = status}
Done(d) == In(d, "cached") \union In(d, "called")
First(d) == CHOOSE i \in In(d, "waiting") : \A j \in In(d, "waiting") : i <= j

Exhausted(d) == d \in Budgeted /\ spent[d] >= Cap

Init ==
  /\ entries = <<>>
  /\ doc = [d \in Docs |-> "running"]
  /\ leaf = [d \in Docs |-> [i \in Positions(d) |-> "waiting"]]
  /\ spent = [d \in Docs |-> 0]
  /\ partial = [d \in Docs |-> FALSE]

\* The budget drops the loop to one leaf at a time and is looked at before
\* each.
\* A bug: a leaf is started although the one before it used up the budget.
Unchecked(d) == In(d, "calling") = {}
HasBudget(d) == In(d, "calling") = {} /\ ~Exhausted(d)

\* The next leaf.  asyncio's semaphore is fair, so leaves start in order; the
\* tasks of a gather that raised go on.
MayStart(d) ==
  /\ In(d, "waiting") # {}
  /\ IF d \in Budgeted
     THEN doc[d] = "running" /\ HasBudget(d)
     ELSE Cardinality(In(d, "calling")) < MaxConcurrency

StartLeaf(d) ==
  /\ MayStart(d)
  /\ leaf' = [leaf EXCEPT ![d][First(d)] =
       IF Contains(entries, Chunks[d][First(d)]) THEN "cached" ELSE "calling"]
  /\ UNCHANGED <<entries, doc, spent, partial>>

\* InMemoryChunkCache.set: a key that is there moves to the tail; the oldest
\* go when there are too many.
Without(s, k) == SelectSeq(s, LAMBDA x : x # k)
Newest(s) == IF Len(s) > MaxEntries THEN Tail(s) ELSE s
\* A bug: another leaf may have stored the key since it was looked up.
Store(s, k) == Newest(Append(s, k))
Put(s, k) == Newest(Append(Without(s, k), k))

LeafReturns(d, i) ==
  /\ leaf[d][i] = "calling"
  /\ leaf' = [leaf EXCEPT ![d][i] = "called"]
  /\ \E cost \in Costs :
       spent' = [spent EXCEPT ![d] = IF d \in Budgeted THEN @ + cost ELSE @]
  /\ entries' = Put(entries, Chunks[d][i])
  /\ UNCHANGED <<doc, partial>>

\* Nothing is charged or cached; forward() raises, out of its loop or out of
\* gather, which leaves the other leaves running.
LeafRaises(d, i) ==
  /\ MayRaise
  /\ leaf[d][i] = "calling"
  /\ leaf' = [leaf EXCEPT ![d][i] = "failed"]
  /\ doc' = [doc EXCEPT ![d] = "raised"]
  /\ UNCHANGED <<entries, spent, partial>>

\* Every leaf that is to be is there.
LeavesOver(d) ==
  /\ doc[d] = "running"
  /\ In(d, "calling") = {}
  /\ In(d, "waiting") = {} \/ Exhausted(d)

\* The leaves get reduced and tagged.  A budget that was used up before the
\* first leaf gives an empty result without the tag.
Return(d) ==
  /\ LeavesOver(d)
  /\ doc' = [doc EXCEPT ![d] = "returned"]
  /\ partial' = [partial EXCEPT ![d] = Exhausted(d) /\ Done(d) # {}]
  /\ UNCHANGED <<entries, leaf, spent>>

\* A merge of the reducer raises.
ReduceRaises(d) ==
  /\ MayRaise
  /\ LeavesOver(d)
  /\ Cardinality(Done(d)) > 1
  /\ doc' = [doc EXCEPT ![d] = "raised"]
  /\ UNCHANGED <<entries, leaf, spent, partial>>

Next ==
  \E d \in Docs :
    \/ StartLeaf(d)
    \/ \E i \in Positions(d) : LeafReturns(d, i) \/ LeafRaises(d, i)
    \/ Return(d)
    \/ ReduceRaises(d)

Spec == Init /\ [][Next]_vars

-----------------------------------------------------------------------------
(* Properties *)

TypeOK ==
  /\ entries \in Seq(UNION {Range(Chunks[d]) : d \in Docs})
  /\ doc \in [Docs -> {"running", "returned", "raised"}]
  /\ \A d \in Docs : leaf[d] \in
       [Positions(d) -> {"waiting", "calling", "cached", "called", "failed"}]
  /\ spent \in [Docs -> Nat]
  /\ partial \in [Docs -> BOOLEAN]

\* The leaves of two documents may miss together and store one chunk one after
\* the other: the cache still holds each key once, and never too many.
CacheIsAMap == Len(entries) <= MaxEntries /\ IsInjective(entries)

\* A result covers all chunks of its document, or, when the budget was used
\* up, the first of them without a gap; and no document spends more than one
\* leaf over its cap.
CoversPrefix ==
  \A d \in Docs :
    /\ doc[d] = "returned" =>
         /\ \A i \in Done(d) : 1..i \subseteq Done(d)
         /\ Done(d) # Positions(d) => Exhausted(d)
    /\ \A c \in Costs : (\A x \in Costs : x <= c) => spent[d] < Cap + c
=============================================================================
