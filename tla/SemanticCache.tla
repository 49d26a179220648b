--------------------------- MODULE SemanticCache ----------------------------
(***************************************************************************)
(* kaos_llm_core/cache/semantic.py: SemanticCache shared by concurrent     *)
(* calls.  self._lock never protects an await that suspends, so whatever   *)
(* it protects is one action together with the code around it; a request   *)
(* suspends at the embedding, at its stampede lock and at the LLM call.    *)
(***************************************************************************)
EXTENDS Integers, Sequences, FiniteSets, SequencesExt

CONSTANTS
  Configs,      \* (signature_name, model, config_fingerprint)
  Inputs,       \* the inputs of a call
  Texts,        \* what _inputs_to_text makes of them
  Text,         \* [Inputs -> Texts]
  Similar,      \* pairs of texts whose embeddings may pass the threshold
  MaxRequests,  \* how many times the cache is called (a bound)
  MaxEntries,   \* max_entries
  MaxRestarts,  \* how often the process dies and starts again (a bound)
  None,         \* an absent value
  OnDisk,       \* is disk_path given?
  MayFail,      \* may the embedding or the LLM call raise or be cancelled?
  DiskMayFail,  \* may the append to the log raise, perhaps half-way?
  MayClear      \* may clear() be called?

ASSUME CacheAssumption ==
  /\ Text \in [Inputs -> Texts]
  /\ Similar \subseteq Texts \X Texts
  /\ MaxRequests \in Nat \ {0}
  /\ MaxEntries \in Nat
  /\ MaxRestarts \in Nat
  /\ None \notin 1..MaxRequests
  /\ None \notin [config : Configs, input : Inputs, by : 1..MaxRequests]
  /\ {OnDisk, MayFail, DiskMayFail, MayClear} \subseteq BOOLEAN

Requests == 1..MaxRequests

VARIABLES
  entries,   \* _entries, oldest first
  index,     \* _exact_index: an entry per exact key, or None
  inFlight,  \* _in_flight: a stampede lock per exact key, or None
  queue,     \* per lock: the requests holding (head) or awaiting it
  disk,      \* the records of the JSONL log that can be read back
  tail,      \* its last line: "ended", or a "partial" or "whole" record
             \* without its newline
  torn,      \* observed, no part of the code: did the last append stop on
             \* the way, and
  mirrored,  \* how many of the newest entries must memory and log share?
  restarts,
  phase,     \* where each request is
  config,    \* the call of each request
  input,     \* its inputs
  lock,      \* the stampede lock it uses, or None
  answer     \* the entry it was served from or stored, or None

memory == <<entries, index>>
observed == <<torn, mirrored>>
log == <<disk, tail, observed>>
locks == <<inFlight, queue, lock>>
asked == <<config, input>>
vars == <<memory, locks, log, restarts, phase, asked, answer>>

-----------------------------------------------------------------------------
Keys == Configs \X Texts           \* exact_key
Key(q) == <<config[q], Text[input[q]]>>
\* The answer is named by the inputs that produced it; the request that
\* stored an entry tells it from others like it.
Entry(q) == [config |-> config[q], input |-> input[q], by |-> q]
KeyOf(e) == <<e.config, Text[e.input]>>

Locks == Requests     \* a lock is named by the request whose setdefault made it
Waiting == {"embedding", "queued", "calling"}
Done == {"hit", "called", "failed", "lost"}

LastN(s, n) == IF Len(s) > n THEN SubSeq(s, Len(s) - n + 1, Len(s)) ELSE s

Init ==
  /\ entries = << >>
  /\ index = [k \in Keys |-> None]
  /\ inFlight = [k \in Keys |-> None]
  /\ queue = [l \in Locks |-> << >>]
  /\ disk = << >>
  /\ tail = "ended"
  /\ torn = FALSE
  /\ mirrored = MaxEntries
  /\ restarts = 0
  /\ phase = [q \in Requests |-> "idle"]
  /\ config \in [Requests -> Configs]
  /\ input \in [Requests -> Inputs]
  /\ lock = [q \in Requests |-> None]
  /\ answer = [q \in Requests |-> None]

-----------------------------------------------------------------------------
\* The entry under key k in es that was added last.
IndexOf(es) ==
  [k \in Keys |->
    LET found == { i \in DOMAIN es : KeyOf(es[i]) = k } IN
    IF found = {} THEN None
    ELSE es[CHOOSE i \in found : \A j \in found : j <= i]]

\* Mutant: only the keys of the entries dropped are removed.
RebuildByRemoval(es, dropped) ==
  [k \in Keys |-> IF \E i \in DOMAIN dropped : KeyOf(dropped[i]) = k
                  THEN None ELSE IndexOf(es)[k]]
\* _rebuild_exact_index after the entries "dropped" were deleted.
Rebuild(es, dropped) == IndexOf(es)

\* The entries that _find_similar may return with a passing similarity.
\* Mutant: entries are compared whatever call they belong to.
CandidatesOfAnyCall(q) ==
  { i \in DOMAIN entries : <<Text[input[q]], Text[entries[i].input]>> \in Similar }
Candidates(q) ==
  { i \in DOMAIN entries :
      /\ entries[i].config = config[q]
      /\ <<Text[input[q]], Text[entries[i].input]>> \in Similar }

Answer(q, entry, how) ==
  /\ answer' = [answer EXCEPT ![q] = entry]
  /\ phase' = [phase EXCEPT ![q] = how]

\* Tier 1, and the start of the embedding call on a miss.
Ask(q) ==
  /\ phase[q] = "idle"
  /\ \A p \in Requests : p < q => phase[p] # "idle"
  /\ IF index[Key(q)] # None
     THEN Answer(q, index[Key(q)], "hit")
     ELSE /\ phase' = [phase EXCEPT ![q] = "embedding"]
          /\ UNCHANGED answer
  /\ UNCHANGED <<memory, locks, log, restarts, asked>>

\* Tier 2 finds an entry.
SimilarHit(q, i) ==
  /\ phase[q] = "embedding"
  /\ i \in Candidates(q)
  /\ Answer(q, entries[i], "hit")
  /\ UNCHANGED <<memory, locks, log, restarts, asked>>

\* Mutant: an entry stays behind in the dict of locks.
PopToZero(q) == 0
\* finally: self._in_flight.pop(exact_key, None), whatever lock is there.
Pop(q) == None

\* Mutant: no second look at the index.
SkipCheck(q) == None
DoubleCheck(q) == index[Key(q)]

\* What a request that has obtained stampede lock l does first: it looks
\* again, and either leaves with the entry or makes the call.
Proceed(q, l, waiters, locksByKey) ==
  IF DoubleCheck(q) # None
  THEN /\ Answer(q, DoubleCheck(q), "hit")
       /\ queue' = [queue EXCEPT ![l] = waiters]
       /\ inFlight' = [locksByKey EXCEPT ![Key(q)] = Pop(q)]
  ELSE /\ phase' = [phase EXCEPT ![q] = "calling"]
       /\ queue' = [queue EXCEPT ![l] = <<q>> \o waiters]
       /\ inFlight' = locksByKey
       /\ UNCHANGED answer

\* Tier 2 finds nothing (the threshold is missed, or nothing is there): the
\* request takes the stampede lock of its key, or queues for it.
SimilarMiss(q) ==
  LET l == IF inFlight[Key(q)] = None THEN q ELSE inFlight[Key(q)]
      locksByKey == [inFlight EXCEPT ![Key(q)] = l]
  IN
  /\ phase[q] = "embedding"
  /\ lock' = [lock EXCEPT ![q] = l]
  /\ IF queue[l] = << >>
     THEN Proceed(q, l, << >>, locksByKey)
     ELSE /\ queue' = [queue EXCEPT ![l] = Append(@, q)]
          /\ inFlight' = locksByKey
          /\ phase' = [phase EXCEPT ![q] = "queued"]
          /\ UNCHANGED answer
  /\ UNCHANGED <<memory, log, restarts, asked>>

\* The lock comes free for the first request in its queue.
LockGranted(q) ==
  /\ phase[q] = "queued"
  /\ Head(queue[lock[q]]) = q
  /\ Proceed(q, lock[q], Tail(queue[lock[q]]), inFlight)
  /\ UNCHANGED <<memory, lock, log, restarts, asked>>

\* Mutant: a request that fails keeps its place in the queue.
ReleaseIfDone(q) ==
  IF phase'[q] = "failed" THEN queue[lock[q]] ELSE Tail(queue[lock[q]])
\* The holder gives the lock up, a waiter leaves the queue.
Release(q) ==
  LET waiting == queue[lock[q]] IN
  RemoveAt(waiting, CHOOSE i \in DOMAIN waiting : waiting[i] = q)

Leave(q) ==
  /\ queue' = [queue EXCEPT ![lock[q]] = Release(q)]
  /\ inFlight' = [inFlight EXCEPT ![Key(q)] = Pop(q)]
  /\ UNCHANGED lock

\* Mutant: one entry too many is kept.
TrimLate(all) == LastN(all, MaxEntries + 1)
\* FIFO eviction.
Trim(all) == LastN(all, MaxEntries)

Store(e) ==
  LET all == Append(entries, e) IN
  /\ entries' = Trim(all)
  /\ index' = IF entries' = all THEN [index EXCEPT ![KeyOf(e)] = e]
              ELSE Rebuild(entries', SubSeq(all, 1, Len(all) - Len(entries')))

\* What can still be read when more text is written on the last line: one
\* that had no newline holds two records now, or parts of two, and is dropped.
Glued == IF tail = "whole" THEN Front(disk) ELSE disk
Appended(e) == IF tail = "ended" THEN Append(disk, e) ELSE Glued

\* The first append after one that stopped on the way may be lost.
Observe ==
  /\ torn' = FALSE
  /\ mirrored' = IF torn THEN 0
                 ELSE IF mirrored < MaxEntries THEN mirrored + 1 ELSE mirrored

\* Mutant: the newline is left out.
WriteBare(e) == disk' = Appended(e) /\ tail' = "whole" /\ Observe
\* _append_disk_log, to its end.
WriteLine(e) == disk' = Appended(e) /\ tail' = "ended" /\ Observe

\* _append_disk_log, stopped on the way: a part of the line is written, or
\* all of it but the newline.
TearLine(e) ==
  /\ \/ disk' = Glued /\ tail' = "partial"
     \/ disk' = Appended(e) /\ tail' = IF tail = "ended" THEN "whole" ELSE "partial"
  /\ torn' = TRUE

CallReturns(q) ==
  /\ phase[q] = "calling"
  /\ Store(Entry(q))
  /\ IF OnDisk THEN WriteLine(Entry(q)) ELSE UNCHANGED log
  /\ Answer(q, Entry(q), "called")
  /\ Leave(q)
  /\ UNCHANGED <<restarts, asked>>

\* The entry is stored in memory, and then the append to the log raises,
\* before or after some of it is written.
AppendFails(q) ==
  /\ OnDisk /\ DiskMayFail
  /\ phase[q] = "calling"
  /\ Store(Entry(q))
  /\ UNCHANGED <<disk, tail, torn>> \/ TearLine(Entry(q))
  /\ mirrored' = 0
  /\ phase' = [phase EXCEPT ![q] = "failed"]
  /\ Leave(q)
  /\ UNCHANGED <<restarts, asked, answer>>

\* The LLM call raises, or the request is cancelled during it.
CallFails(q) ==
  /\ MayFail
  /\ phase[q] = "calling"
  /\ phase' = [phase EXCEPT ![q] = "failed"]
  /\ Leave(q)
  /\ UNCHANGED <<memory, log, restarts, asked, answer>>

\* The request is cancelled while it waits for the lock.
CancelQueued(q) ==
  /\ MayFail
  /\ phase[q] = "queued"
  /\ phase' = [phase EXCEPT ![q] = "failed"]
  /\ Leave(q)
  /\ UNCHANGED <<memory, log, restarts, asked, answer>>

EmbedFails(q) ==
  /\ MayFail
  /\ phase[q] = "embedding"
  /\ phase' = [phase EXCEPT ![q] = "failed"]
  /\ UNCHANGED <<memory, locks, log, restarts, asked, answer>>

Clear ==
  /\ MayClear
  /\ entries' = << >>
  /\ index' = [k \in Keys |-> None]
  /\ inFlight' = [k \in Keys |-> None]
  /\ mirrored' = 0
  /\ UNCHANGED <<queue, lock, disk, tail, torn, restarts, phase, asked, answer>>

\* Mutant: the oldest entries of the log are kept.
KeepOldest(all) == SubSeq(all, 1, MaxEntries)
\* loaded[-max_entries:], which is all of the list when max_entries is 0.
Newest(all) == IF MaxEntries = 0 THEN all ELSE LastN(all, MaxEntries)
Replayed(all) == IF Len(all) > MaxEntries THEN Newest(all) ELSE all

\* Where the process dies: outside of an append, or during the append of a
\* request whose call has returned.
DieWriting(q) ==
  /\ OnDisk /\ phase[q] = "calling"
  /\ \/ TearLine(Entry(q))
     \/ disk' = Appended(Entry(q)) /\ tail' = "ended" /\ torn' = FALSE

\* The process dies; a new one replays the log.
Restart ==
  /\ restarts < MaxRestarts
  /\ restarts' = restarts + 1
  /\ UNCHANGED <<disk, tail, torn>> \/ \E q \in Requests : DieWriting(q)
  /\ mirrored' = MaxEntries
  /\ entries' = Replayed(disk')
  /\ index' = IndexOf(entries')
  /\ inFlight' = [k \in Keys |-> None]
  /\ queue' = [l \in Locks |-> << >>]
  /\ phase' = [q \in Requests |-> IF phase[q] \in Waiting THEN "lost" ELSE phase[q]]
  /\ UNCHANGED <<lock, asked, answer>>

-----------------------------------------------------------------------------
Serve(q) ==
  \/ SimilarMiss(q) \/ \E i \in DOMAIN entries : SimilarHit(q, i)
  \/ LockGranted(q) \/ CallReturns(q) \/ AppendFails(q)
  \/ CallFails(q) \/ EmbedFails(q)

Next == Clear \/ Restart \/ \E q \in Requests : Ask(q) \/ Serve(q) \/ CancelQueued(q)

Spec == Init /\ [][Next]_vars

\* Every embedding and every call returns or raises, and the event loop runs
\* the request whose turn it is.
FairSpec == Spec /\ \A q \in Requests : WF_vars(Serve(q))

-----------------------------------------------------------------------------
(* Properties.                                                             *)

EntryType == [config : Configs, input : Inputs, by : Requests]

\* The cache, its locks and its requests keep their types.
TypeOK ==
  /\ entries \in Seq(EntryType)
  /\ index \in [Keys -> EntryType \cup {None}]
  /\ inFlight \in [Keys -> Locks \cup {None}]
  /\ queue \in [Locks -> Seq(Requests)]
  /\ disk \in Seq(EntryType)
  /\ tail \in {"ended", "partial", "whole"}
  /\ tail = "whole" => disk # << >>
  /\ torn \in BOOLEAN
  /\ mirrored \in 0..MaxEntries
  /\ restarts \in 0..MaxRestarts
  /\ phase \in [Requests -> Waiting \cup Done \cup {"idle"}]
  /\ config \in [Requests -> Configs]
  /\ input \in [Requests -> Inputs]
  /\ lock \in [Requests -> Locks \cup {None}]
  /\ answer \in [Requests -> EntryType \cup {None}]

\* Tier 1 sees exactly what is stored: the index holds, under each key, the
\* newest entry with that key, also when duplicates are evicted one by one.
IndexMatchesEntries == index = IndexOf(entries)

\* "Audit finding F": a request is never served the answer of another call,
\* nor of inputs that are neither equal in text nor similar.
RightAnswer ==
  \A q \in Requests : answer[q] # None =>
    /\ answer[q].config = config[q]
    /\ \/ KeyOf(answer[q]) = Key(q)
       \/ <<Text[input[q]], Text[answer[q].input]>> \in Similar

\* What a restart would replay is what the process has in memory, whatever
\* was evicted, and in the same order.  They part when an append raises, when
\* the cache is cleared, and when the first append of a process is glued to
\* the line that a death left without its newline, which costs that answer
\* its record: the log is not "atomic per line".  Every answer stored after
\* that is in both again, as one of the same newest entries.
DiskMirrorsMemory == LastN(entries, mirrored) = LastN(Replayed(disk), mirrored)

\* "Only one request actually calls the LLM": no two requests for the same
\* exact key are inside their LLM call at once.
OneCallPerKey ==
  \A p, q \in Requests :
    phase[p] = "calling" /\ phase[q] = "calling" /\ Key(p) = Key(q) => p = q

Evicted(r) == \A i \in DOMAIN entries : entries[i].by # r

\* What the code does guarantee of it: requests make the same call at once
\* only after one of them has failed, or its answer has been evicted.
CallsAreShared ==
  \A p, q \in Requests :
    phase[p] = "calling" /\ phase[q] = "calling" /\ Key(p) = Key(q) /\ p # q =>
      \E r \in Requests :
        /\ Key(r) = Key(p)
        /\ \/ phase[r] \in {"failed", "lost"}
           \/ phase[r] = "called" /\ Evicted(r)

\* "Honor max_entries on replay": the cache never holds more than it may.
SizeBounded == Len(entries) <= MaxEntries

\* Liveness: no request waits for ever on a stampede lock, whoever fails, is
\* cancelled or clears the cache meanwhile.
EveryRequestEnds == \A q \in Requests : phase[q] \in Waiting ~> phase[q] \in Done
=============================================================================
