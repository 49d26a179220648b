------------------------ MODULE SemanticCacheProofs -------------------------
(***************************************************************************)
(* Theorems about the semantic cache, for every number of requests, of     *)
(* entries and of restarts: types, the index, the answers, the log on      *)
(* disk, the size, and which calls are shared.                             *)
(***************************************************************************)
EXTENDS SemanticCache, SequenceTheorems, WellFoundedInduction, TLAPS

-----------------------------------------------------------------------------
(* Sequences.                                                              *)

LEMMA LargestExists ==
  ASSUME NEW n \in Nat, NEW T, T \subseteq 1..n, T # {}
  PROVE  \E i \in T : \A j \in T : j <= i
<1>1. \A i \in T : i \in Nat /\ n - i \in Nat
  OBVIOUS
<1> DEFINE R == OpToRel(<, Nat)
           D == { n - i : i \in T }
<1>2. D \subseteq Nat /\ D # {}
  BY <1>1
<1>3. PICK x \in D : \A y \in D : ~ (<<y, x>> \in R)
  BY <1>2, NatLessThanWellFounded, WFMin
<1>4. \A y \in D : ~ (y < x)
  BY <1>2, <1>3 DEF OpToRel
<1>5. PICK i \in T : x = n - i
  BY <1>3
<1>6. \A j \in T : ~ (n - j < n - i)
  BY <1>4, <1>5
<1> HIDE DEF D, R
<1>7. \A j \in T : j <= i
  BY <1>1, <1>6
<1>8. QED BY <1>7

\* t is s without its i-th element.
Without(s, t, i) ==
  /\ Len(t) = Len(s) - 1
  /\ \A j \in 1..Len(t) : t[j] = IF j < i THEN s[j] ELSE s[j + 1]

LEMMA RemoveAtDrops ==
  ASSUME NEW S, NEW s \in Seq(S), NEW i \in 1..Len(s)
  PROVE  RemoveAt(s, i) \in Seq(S) /\ Without(s, RemoveAt(s, i), i)
<1> DEFINE a == SubSeq(s, 1, i - 1)
           b == SubSeq(s, i + 1, Len(s))
<1>1. Len(s) \in Nat /\ i \in Nat /\ 1 <= i /\ i <= Len(s)
  OBVIOUS
<1>2. (\A j \in 1..(i - 1) : s[j] \in S) /\ (\A j \in (i + 1)..Len(s) : s[j] \in S)
  BY <1>1
<1>3. /\ a \in Seq(S) /\ Len(a) = i - 1
      /\ \A j \in 1..(i - 1) : a[j] = s[j]
  BY <1>1, <1>2, SubSeqProperties
<1>4. /\ b \in Seq(S) /\ Len(b) = Len(s) - i
      /\ \A j \in 1..(Len(s) - i) : b[j] = s[i + j]
  BY <1>1, <1>2, SubSeqProperties
<1>5. RemoveAt(s, i) = a \o b
  BY DEF RemoveAt
<1> HIDE DEF a, b
<1>6. /\ a \o b \in Seq(S)
      /\ Len(a \o b) = Len(s) - 1
      /\ \A j \in 1..(Len(s) - 1) :
           (a \o b)[j] = IF j <= i - 1 THEN a[j] ELSE b[j - (i - 1)]
  <2>1. /\ a \o b \in Seq(S)
        /\ Len(a \o b) = Len(a) + Len(b)
        /\ \A j \in 1..(Len(a) + Len(b)) :
             (a \o b)[j] = IF j <= Len(a) THEN a[j] ELSE b[j - Len(a)]
    BY <1>3, <1>4, ConcatProperties
  <2>2. Len(a) = i - 1 /\ Len(a) + Len(b) = Len(s) - 1
    BY <1>1, <1>3, <1>4
  <2>3. QED BY <2>1, <2>2
<1>7. ASSUME NEW j \in 1..(Len(s) - 1)
      PROVE  (a \o b)[j] = IF j < i THEN s[j] ELSE s[j + 1]
  <2>1. CASE j < i
    BY <1>1, <1>3, <1>6, <2>1
  <2>2. CASE ~ (j < i)
    <3>1. j - (i - 1) \in 1..(Len(s) - i) /\ ~ (j <= i - 1) /\ i + (j - (i - 1)) = j + 1
      BY <1>1, <2>2
    <3>2. QED BY <1>4, <1>6, <2>2, <3>1
  <2>3. QED BY <2>1, <2>2
<1>8. QED BY <1>5, <1>6, <1>7 DEF Without

LEMMA TailDrops ==
  ASSUME NEW S, NEW s \in Seq(S), s # << >>
  PROVE  Tail(s) \in Seq(S) /\ Without(s, Tail(s), 1)
BY HeadTailProperties DEF Without

LEMMA LastNProperties ==
  ASSUME NEW S, NEW s \in Seq(S), NEW n \in Nat
  PROVE  /\ LastN(s, n) \in Seq(S)
         /\ Len(LastN(s, n)) = IF Len(s) > n THEN n ELSE Len(s)
         /\ \A i \in 1..Len(LastN(s, n)) :
              /\ i + (Len(s) - Len(LastN(s, n))) \in 1..Len(s)
              /\ LastN(s, n)[i] = s[i + (Len(s) - Len(LastN(s, n)))]
<1>1. Len(s) \in Nat /\ DOMAIN s = 1..Len(s)
  OBVIOUS
<1>2. CASE Len(s) > n
  <2> DEFINE t == SubSeq(s, Len(s) - n + 1, Len(s))
  <2>1. \A i \in (Len(s) - n + 1)..Len(s) : s[i] \in S
    BY <1>1, <1>2
  <2>2. Len(s) - (Len(s) - n + 1) + 1 = n /\ (Len(s) - n + 1 <= Len(s) <=> n > 0)
    BY <1>1, <1>2
  <2>3. /\ t \in Seq(S)
        /\ Len(t) = IF Len(s) - n + 1 <= Len(s) THEN Len(s) - (Len(s) - n + 1) + 1 ELSE 0
        /\ \A i \in 1..(Len(s) - (Len(s) - n + 1) + 1) :
             t[i] = s[(Len(s) - n + 1) + i - 1]
    BY <1>1, <1>2, <2>1, SubSeqProperties
  <2> HIDE DEF t
  <2>4. t \in Seq(S) /\ Len(t) = n
    BY <2>2, <2>3
  <2>5. ASSUME NEW i \in 1..n
        PROVE  i + (Len(s) - n) \in 1..Len(s) /\ t[i] = s[i + (Len(s) - n)]
    <3>1. (Len(s) - n + 1) + i - 1 = i + (Len(s) - n) /\ i + (Len(s) - n) \in 1..Len(s)
      BY <1>1, <1>2
    <3>2. QED BY <2>2, <2>3, <3>1
  <2>6. LastN(s, n) = t
    BY <1>2 DEF LastN, t
  <2>7. QED BY <1>2, <2>4, <2>5, <2>6
<1>3. CASE ~ (Len(s) > n)
  BY <1>1, <1>3 DEF LastN
<1>4. QED BY <1>2, <1>3

-----------------------------------------------------------------------------
(* The index of a list of entries.                                         *)

LEMMA Questions ==
  ASSUME TypeOK, NEW q \in Requests
  PROVE  /\ Key(q) \in Keys
         /\ Entry(q) \in EntryType
         /\ KeyOf(Entry(q)) = Key(q)
         /\ Entry(q).by = q
BY CacheAssumption DEF TypeOK, Key, Keys, Entry, EntryType, KeyOf, Requests

LEMMA EntryKey ==
  ASSUME NEW e \in EntryType
  PROVE  KeyOf(e) \in Keys /\ e # None /\ e.by \in Requests /\ e.config = KeyOf(e)[1]
BY CacheAssumption DEF EntryType, KeyOf, Keys, Requests

\* Where es holds key k.
Found(es, k) == { i \in DOMAIN es : KeyOf(es[i]) = k }

\* i is the last of the positions P.
IsLast(i, P) == i \in P /\ \A j \in P : j <= i

LEMMA IndexOfAt ==
  ASSUME NEW es \in Seq(EntryType), NEW k \in Keys
  PROVE  /\ Found(es, k) = {} => IndexOf(es)[k] = None
         /\ \A i : IsLast(i, Found(es, k)) => IndexOf(es)[k] = es[i]
         /\ Found(es, k) # {} => \E i : IsLast(i, Found(es, k))
<1>1. Found(es, k) \subseteq 1..Len(es) /\ Len(es) \in Nat
  BY DEF Found
<1>2. Found(es, k) # {} => \E i : IsLast(i, Found(es, k))
  BY <1>1, LargestExists DEF IsLast
<1>3. IndexOf(es)[k] =
        IF Found(es, k) = {} THEN None
        ELSE es[CHOOSE i \in Found(es, k) : \A j \in Found(es, k) : j <= i]
  BY DEF IndexOf, Found
<1>4. ASSUME NEW i, IsLast(i, Found(es, k))
      PROVE  IndexOf(es)[k] = es[i]
  <2> DEFINE c == CHOOSE x \in Found(es, k) : \A j \in Found(es, k) : j <= x
  <2>1. c \in Found(es, k) /\ \A j \in Found(es, k) : j <= c
    BY <1>4 DEF IsLast
  <2> HIDE DEF c
  <2>2. i <= c /\ c <= i /\ i \in Nat /\ c \in Nat
    BY <1>1, <1>4, <2>1 DEF IsLast
  <2>3. i = c /\ Found(es, k) # {}
    BY <1>4, <2>2 DEF IsLast
  <2>4. QED BY <1>3, <2>3 DEF c
<1>5. QED BY <1>2, <1>3, <1>4

LEMMA IndexOfType ==
  ASSUME NEW es \in Seq(EntryType)
  PROVE  /\ IndexOf(es) \in [Keys -> EntryType \cup {None}]
         /\ \A k \in Keys : IndexOf(es)[k] # None =>
              \E i \in DOMAIN es : KeyOf(es[i]) = k /\ IndexOf(es)[k] = es[i]
         /\ \A i \in DOMAIN es : IndexOf(es)[KeyOf(es[i])] # None
<1>1. \A i \in DOMAIN es : es[i] \in EntryType
  OBVIOUS
<1>2. ASSUME NEW k \in Keys
      PROVE  /\ IndexOf(es)[k] \in EntryType \cup {None}
             /\ IndexOf(es)[k] # None =>
                  \E i \in DOMAIN es : KeyOf(es[i]) = k /\ IndexOf(es)[k] = es[i]
             /\ Found(es, k) # {} => IndexOf(es)[k] # None
  <2>1. CASE Found(es, k) = {}
    BY <2>1, IndexOfAt
  <2>2. CASE Found(es, k) # {}
    <3>1. PICK i : IsLast(i, Found(es, k))
      BY <2>2, IndexOfAt
    <3>2. IndexOf(es)[k] = es[i] /\ i \in DOMAIN es /\ KeyOf(es[i]) = k
      BY <3>1, IndexOfAt DEF IsLast, Found
    <3>3. QED BY <1>1, <3>2, EntryKey
  <2>3. QED BY <2>1, <2>2
<1>3. IndexOf(es) = [k \in Keys |-> IndexOf(es)[k]]
  BY DEF IndexOf
<1>4. \A i \in DOMAIN es : i \in Found(es, KeyOf(es[i])) /\ KeyOf(es[i]) \in Keys
  BY <1>1, EntryKey DEF Found
<1>5. QED BY <1>2, <1>3, <1>4

LEMMA IndexOfEmpty == IndexOf(<< >>) = [k \in Keys |-> None]
BY DEF IndexOf

\* An entry that is added takes its key over.
LEMMA IndexOfAppend ==
  ASSUME NEW es \in Seq(EntryType), NEW e \in EntryType
  PROVE  IndexOf(Append(es, e)) = [IndexOf(es) EXCEPT ![KeyOf(e)] = e]
<1> DEFINE new == Append(es, e)
           n == Len(es)
<1>1. /\ new \in Seq(EntryType) /\ n \in Nat
      /\ DOMAIN es = 1..n /\ DOMAIN new = 1..(n + 1)
      /\ \A i \in 1..n : new[i] = es[i]
      /\ new[n + 1] = e
  OBVIOUS
<1> HIDE DEF new, n
<1>2. ASSUME NEW k \in Keys
      PROVE  IndexOf(new)[k] = IF k = KeyOf(e) THEN e ELSE IndexOf(es)[k]
  <2>1. CASE k = KeyOf(e)
    <3>1. IsLast(n + 1, Found(new, k))
      BY <1>1, <2>1 DEF IsLast, Found
    <3>2. QED BY <1>1, <2>1, <3>1, IndexOfAt
  <2>2. CASE k # KeyOf(e)
    <3>1. Found(new, k) = Found(es, k)
      BY <1>1, <2>2 DEF Found
    <3>2. CASE Found(es, k) = {}
      BY <1>1, <2>2, <3>1, <3>2, IndexOfAt
    <3>3. CASE Found(es, k) # {}
      <4>1. PICK i : IsLast(i, Found(es, k))
        BY <3>3, IndexOfAt
      <4>2. IndexOf(es)[k] = es[i] /\ IndexOf(new)[k] = new[i]
        BY <1>1, <3>1, <4>1, IndexOfAt
      <4>3. i \in 1..n
        BY <1>1, <4>1 DEF IsLast, Found
      <4>4. QED BY <1>1, <2>2, <4>2, <4>3
    <3>4. QED BY <3>2, <3>3
  <2>3. QED BY <2>1, <2>2
<1>3. IndexOf(new) = [k \in Keys |-> IndexOf(new)[k]]
  BY DEF IndexOf
<1>4. [IndexOf(es) EXCEPT ![KeyOf(e)] = e]
        = [k \in Keys |-> IF k = KeyOf(e) THEN e ELSE IndexOf(es)[k]]
  BY EntryKey, IndexOfType
<1>5. QED BY <1>2, <1>3, <1>4 DEF new

-----------------------------------------------------------------------------
(* The queues of the stampede locks.                                       *)

Held == {"queued", "calling"}

\* In the queue of a lock are the requests that use it, each once, and only
\* its head is inside the LLM call.
Queues ==
  /\ \A l \in Locks : \A i \in DOMAIN queue[l] :
       /\ lock[queue[l][i]] = l
       /\ phase[queue[l][i]] \in Held
       /\ phase[queue[l][i]] = "calling" => i = 1
  /\ \A l \in Locks : \A i, j \in DOMAIN queue[l] : queue[l][i] = queue[l][j] => i = j
  /\ \A q \in Requests : phase[q] \in Held =>
       /\ lock[q] \in Locks
       /\ \E i \in DOMAIN queue[lock[q]] : queue[lock[q]][i] = q

LEMMA QueueType ==
  ASSUME TypeOK, NEW l \in Locks
  PROVE  /\ queue[l] \in Seq(Requests)
         /\ Len(queue[l]) \in Nat
         /\ DOMAIN queue[l] = 1..Len(queue[l])
         /\ \A i \in DOMAIN queue[l] : queue[l][i] \in Requests
<1>1. queue[l] \in Seq(Requests)
  BY DEF TypeOK
<1>2. QED BY <1>1

\* A request that neither holds a lock nor waits for one goes elsewhere.
LEMMA PassesBy ==
  ASSUME TypeOK, Queues, NEW q \in Requests, NEW ph, phase[q] \notin Held, ph \notin Held,
         phase' = [phase EXCEPT ![q] = ph], queue' = queue,
         \A p \in Requests \ {q} : lock'[p] = lock[p]
  PROVE  Queues'
<1>1. \A p \in Requests : p # q => phase'[p] = phase[p] /\ lock'[p] = lock[p]
  BY DEF TypeOK
<1>2. phase'[q] = ph
  BY DEF TypeOK
<1>3. \A l \in Locks : \A i \in DOMAIN queue[l] : queue[l][i] \in Requests /\ queue[l][i] # q
  BY QueueType DEF Queues
<1>4. \A l \in Locks : \A i \in DOMAIN queue'[l] :
        /\ lock'[queue'[l][i]] = l
        /\ phase'[queue'[l][i]] \in Held
        /\ phase'[queue'[l][i]] = "calling" => i = 1
  BY <1>1, <1>3 DEF Queues
<1>5. \A p \in Requests : phase'[p] \in Held =>
        /\ lock'[p] \in Locks
        /\ \E i \in DOMAIN queue'[lock'[p]] : queue'[lock'[p]][i] = p
  BY <1>1, <1>2 DEF Queues
<1>6. QED BY <1>4, <1>5 DEF Queues

\* A request joins the queue of l, and holds the lock when it is the first.
LEMMA Joins ==
  ASSUME TypeOK, Queues, NEW q \in Requests, NEW l \in Locks, NEW ph \in Held,
         phase[q] \notin Held, ph = "calling" => queue[l] = << >>,
         phase' = [phase EXCEPT ![q] = ph],
         queue' = [queue EXCEPT ![l] = Append(queue[l], q)],
         lock' = [lock EXCEPT ![q] = l]
  PROVE  Queues'
<1> DEFINE s == queue[l]
           t == Append(s, q)
<1>1. /\ \A p \in Requests : p # q => phase'[p] = phase[p] /\ lock'[p] = lock[p]
      /\ phase'[q] = ph /\ lock'[q] = l
      /\ \A m \in Locks : queue'[m] = IF m = l THEN t ELSE queue[m]
  BY DEF TypeOK
<1>2. \A m \in Locks : \A i \in DOMAIN queue[m] : queue[m][i] \in Requests /\ queue[m][i] # q
  BY QueueType DEF Queues
<1>3. s \in Seq(Requests) /\ Len(s) \in Nat /\ DOMAIN s = 1..Len(s)
  BY QueueType
<1>4. /\ DOMAIN t = 1..(Len(s) + 1)
      /\ \A i \in 1..Len(s) : t[i] = s[i]
      /\ t[Len(s) + 1] = q
  BY <1>3
<1>5. ph = "calling" => Len(s) = 0
  BY <1>3
<1> HIDE DEF t
<1>6. ASSUME NEW m \in Locks, NEW i \in DOMAIN queue'[m]
      PROVE  /\ lock'[queue'[m][i]] = m
             /\ phase'[queue'[m][i]] \in Held
             /\ phase'[queue'[m][i]] = "calling" => i = 1
  <2>1. CASE m # l \/ i \in 1..Len(s)
    <3>1. i \in DOMAIN queue[m] /\ queue'[m][i] = queue[m][i]
      BY <1>1, <1>3, <1>4, <1>6, <2>1
    <3>2. QED BY <1>1, <1>2, <3>1 DEF Queues
  <2>2. CASE m = l /\ i \notin 1..Len(s)
    <3>1. i = Len(s) + 1 /\ queue'[m][i] = q
      BY <1>1, <1>3, <1>4, <1>6, <2>2
    <3>2. QED BY <1>1, <1>5, <2>2, <3>1
  <2>3. QED BY <2>1, <2>2
<1>7. ASSUME NEW m \in Locks, NEW i \in DOMAIN queue'[m], NEW j \in DOMAIN queue'[m],
             queue'[m][i] = queue'[m][j]
      PROVE  i = j
  <2>1. CASE m # l
    BY <1>1, <1>7, <2>1 DEF Queues
  <2>2. CASE m = l
    <3>1. i \in 1..(Len(s) + 1) /\ j \in 1..(Len(s) + 1) /\ t[i] = t[j]
      BY <1>1, <1>4, <1>7, <2>2
    <3>2. CASE i \in 1..Len(s) /\ j \in 1..Len(s)
      BY <1>3, <1>4, <3>1, <3>2 DEF Queues
    <3>3. CASE i = Len(s) + 1 \/ j = Len(s) + 1
      BY <1>2, <1>3, <1>4, <3>1, <3>3
    <3>4. QED BY <1>3, <3>1, <3>2, <3>3
  <2>3. QED BY <2>1, <2>2
<1>8. ASSUME NEW p \in Requests, phase'[p] \in Held
      PROVE  /\ lock'[p] \in Locks
             /\ \E i \in DOMAIN queue'[lock'[p]] : queue'[lock'[p]][i] = p
  <2>1. CASE p = q
    <3>1. Len(s) + 1 \in DOMAIN queue'[l] /\ queue'[l][Len(s) + 1] = q
      BY <1>1, <1>3, <1>4
    <3>2. QED BY <1>1, <2>1, <3>1
  <2>2. CASE p # q
    <3>1. lock[p] \in Locks /\ lock'[p] = lock[p]
      BY <1>1, <1>8, <2>2 DEF Queues
    <3>2. PICK i \in DOMAIN queue[lock[p]] : queue[lock[p]][i] = p
      BY <1>1, <1>8, <2>2 DEF Queues
    <3>3. i \in DOMAIN queue'[lock[p]] /\ queue'[lock[p]][i] = p
      BY <1>1, <1>3, <1>4, <3>1, <3>2
    <3>4. QED BY <3>1, <3>3
  <2>3. QED BY <2>1, <2>2
<1>9. QED BY <1>6, <1>7, <1>8 DEF Queues

\* The request at the i-th place of its queue leaves it.
LEMMA Departs ==
  ASSUME TypeOK, Queues, NEW q \in Requests, NEW ph, phase[q] \in Held, ph \notin Held,
         NEW i \in DOMAIN queue[lock[q]], queue[lock[q]][i] = q,
         NEW t \in Seq(Requests), Without(queue[lock[q]], t, i),
         phase' = [phase EXCEPT ![q] = ph],
         queue' = [queue EXCEPT ![lock[q]] = t],
         lock' = lock
  PROVE  Queues'
<1> DEFINE l == lock[q]
           s == queue[l]
<1>1. l \in Locks
  BY DEF Queues
<1>2. s \in Seq(Requests) /\ Len(s) \in Nat /\ DOMAIN s = 1..Len(s)
  BY <1>1, QueueType
<1>3. /\ \A p \in Requests : p # q => phase'[p] = phase[p]
      /\ phase'[q] = ph
      /\ \A m \in Locks : queue'[m] = IF m = l THEN t ELSE queue[m]
  BY DEF TypeOK
<1>4. /\ Len(t) \in Nat /\ DOMAIN t = 1..Len(t) /\ Len(t) = Len(s) - 1
      /\ \A j \in 1..Len(t) : t[j] = IF j < i THEN s[j] ELSE s[j + 1]
  BY DEF Without
\* Where the j-th of those left was before.
<1> DEFINE Old(j) == IF j < i THEN j ELSE j + 1
<1>5. \A j \in 1..Len(t) : Old(j) \in 1..Len(s) /\ t[j] = s[Old(j)] /\ Old(j) # i
  BY <1>2, <1>4
<1>6. s[i] = q /\ i \in 1..Len(s)
  BY <1>2
<1>7. \A j \in 1..Len(t) : t[j] # q
  BY <1>1, <1>2, <1>5, <1>6 DEF Queues
<1>8. \A m \in Locks : \A j \in DOMAIN queue[m] :
        /\ queue[m][j] \in Requests
        /\ m # l => queue[m][j] # q
  BY QueueType DEF Queues
<1>9. ASSUME NEW m \in Locks, NEW j \in DOMAIN queue'[m]
      PROVE  /\ lock'[queue'[m][j]] = m
             /\ phase'[queue'[m][j]] \in Held
             /\ phase'[queue'[m][j]] = "calling" => j = 1
  <2>1. CASE m # l
    <3>1. j \in DOMAIN queue[m] /\ queue'[m][j] = queue[m][j] /\ queue[m][j] # q
      BY <1>3, <1>8, <1>9, <2>1
    <3>2. QED BY <1>3, <1>8, <3>1 DEF Queues
  <2>2. CASE m = l
    <3>1. j \in 1..Len(t) /\ queue'[m][j] = t[j]
      BY <1>3, <1>4, <1>9, <2>2
    <3>2. Old(j) \in DOMAIN s /\ t[j] = s[Old(j)] /\ t[j] # q /\ t[j] \in Requests
      BY <1>1, <1>2, <1>5, <1>7, <1>8, <3>1
    <3>3. /\ lock[t[j]] = l
          /\ phase[t[j]] \in Held
          /\ phase[t[j]] = "calling" => Old(j) = 1
      BY <1>1, <3>2 DEF Queues
    <3>4. Old(j) = 1 => j = 1
      BY <1>2, <1>4, <1>6, <3>1
    <3>5. QED BY <1>3, <2>2, <3>1, <3>2, <3>3, <3>4
  <2>3. QED BY <2>1, <2>2
<1>10. ASSUME NEW m \in Locks, NEW j \in DOMAIN queue'[m], NEW k \in DOMAIN queue'[m],
              queue'[m][j] = queue'[m][k]
       PROVE  j = k
  <2>1. CASE m # l
    BY <1>3, <1>10, <2>1 DEF Queues
  <2>2. CASE m = l
    <3>1. j \in 1..Len(t) /\ k \in 1..Len(t) /\ t[j] = t[k]
      BY <1>3, <1>4, <1>10, <2>2
    <3>2. Old(j) \in DOMAIN s /\ Old(k) \in DOMAIN s /\ s[Old(j)] = s[Old(k)]
      BY <1>2, <1>5, <3>1
    <3>3. Old(j) = Old(k)
      BY <1>1, <3>2 DEF Queues
    <3>4. QED BY <1>2, <1>4, <1>6, <3>1, <3>3
  <2>3. QED BY <2>1, <2>2
<1>11. ASSUME NEW p \in Requests, phase'[p] \in Held
       PROVE  /\ lock'[p] \in Locks
              /\ \E j \in DOMAIN queue'[lock'[p]] : queue'[lock'[p]][j] = p
  <2>1. p # q /\ phase[p] \in Held
    BY <1>3, <1>11
  <2>2. lock[p] \in Locks
    BY <2>1 DEF Queues
  <2>3. PICK j \in DOMAIN queue[lock[p]] : queue[lock[p]][j] = p
    BY <2>1 DEF Queues
  <2>4. CASE lock[p] # l
    BY <1>3, <2>2, <2>3, <2>4
  <2>5. CASE lock[p] = l
    <3>1. j \in 1..Len(s) /\ s[j] = p /\ j # i
      BY <1>2, <1>6, <2>1, <2>3, <2>5
    <3>2. PICK k \in 1..Len(t) : Old(k) = j
      <4>1. CASE j < i
        <5>1. j \in 1..Len(t) /\ Old(j) = j
          BY <1>2, <1>4, <1>6, <3>1, <4>1
        <5>2. QED BY <5>1
      <4>2. CASE ~ (j < i)
        <5>1. i \in Nat /\ j \in Nat /\ 1 <= i /\ i < j /\ j <= Len(s)
          BY <1>2, <1>6, <3>1, <4>2
        <5>2. j - 1 \in 1..Len(t) /\ ~ (j - 1 < i) /\ (j - 1) + 1 = j
          BY <1>2, <1>4, <5>1
        <5>3. QED BY <5>2
      <4>3. QED BY <4>1, <4>2
    <3>3. k \in DOMAIN queue'[l] /\ queue'[l][k] = p
      BY <1>1, <1>3, <1>4, <1>5, <3>1, <3>2
    <3>4. QED BY <1>1, <2>5, <3>3
  <2>6. QED BY <2>4, <2>5
<1>12. QED BY <1>9, <1>10, <1>11 DEF Queues

\* The head of the queue goes from waiting to its call.
LEMMA Holds ==
  ASSUME TypeOK, Queues, NEW q \in Requests, phase[q] = "queued",
         queue[lock[q]] # << >>, Head(queue[lock[q]]) = q,
         phase' = [phase EXCEPT ![q] = "calling"], queue' = queue, lock' = lock
  PROVE  Queues'
<1>1. /\ \A p \in Requests : p # q => phase'[p] = phase[p]
      /\ phase'[q] = "calling" /\ "calling" \in Held /\ phase[q] \in Held
  BY DEF TypeOK, Held
<1>2. lock[q] \in Locks
  BY <1>1 DEF Queues
<1>3. 1 \in DOMAIN queue[lock[q]] /\ queue[lock[q]][1] = q
  BY <1>2, QueueType
<1>4. \A l \in Locks : \A i \in DOMAIN queue[l] :
        queue[l][i] \in Requests /\ (queue[l][i] = q => i = 1)
  BY <1>2, <1>3, QueueType DEF Queues
<1>5. \A l \in Locks : \A i \in DOMAIN queue'[l] :
        /\ lock'[queue'[l][i]] = l
        /\ phase'[queue'[l][i]] \in Held
        /\ phase'[queue'[l][i]] = "calling" => i = 1
  BY <1>1, <1>4 DEF Queues
<1>6. \A p \in Requests : phase'[p] \in Held => phase[p] \in Held
  BY <1>1
<1>7. QED BY <1>5, <1>6 DEF Queues

-----------------------------------------------------------------------------
(* Types.                                                                  *)

\* What the cache is like after an entry has been stored.
LEMMA StoreEffect ==
  ASSUME TypeOK, NEW e \in EntryType, Store(e)
  PROVE  /\ entries' \in Seq(EntryType)
         /\ index' \in [Keys -> EntryType \cup {None}]
         /\ Len(entries') <= MaxEntries
         /\ IndexMatchesEntries => IndexMatchesEntries'
         /\ \A i \in DOMAIN entries' :
              entries'[i] = e \/ \E j \in DOMAIN entries : entries'[i] = entries[j]
<1> DEFINE all == Append(entries, e)
<1>1. entries \in Seq(EntryType) /\ MaxEntries \in Nat
  BY CacheAssumption DEF TypeOK
<1>2. /\ all \in Seq(EntryType)
      /\ Len(all) = Len(entries) + 1
      /\ \A i \in 1..Len(all) : all[i] = e \/ \E j \in DOMAIN entries : all[i] = entries[j]
  BY <1>1
<1>3. entries' = LastN(all, MaxEntries)
  BY DEF Store, Trim
<1>4. IndexOf(all) = [IndexOf(entries) EXCEPT ![KeyOf(e)] = e]
  BY <1>1, IndexOfAppend
<1>5. index' = IF entries' = all THEN [index EXCEPT ![KeyOf(e)] = e] ELSE IndexOf(entries')
  BY DEF Store, Rebuild
<1> HIDE DEF all
<1>6. /\ entries' \in Seq(EntryType)
      /\ Len(entries') <= MaxEntries
      /\ \A i \in DOMAIN entries' : \E j \in 1..Len(all) : entries'[i] = all[j]
  <2>1. /\ LastN(all, MaxEntries) \in Seq(EntryType)
        /\ Len(LastN(all, MaxEntries)) = IF Len(all) > MaxEntries THEN MaxEntries ELSE Len(all)
        /\ \A i \in 1..Len(LastN(all, MaxEntries)) :
             \E j \in 1..Len(all) : LastN(all, MaxEntries)[i] = all[j]
    BY <1>1, <1>2, LastNProperties
  <2>2. Len(all) \in Nat /\ DOMAIN entries' = 1..Len(entries')
    BY <1>2, <1>3, <2>1
  <2>3. QED BY <1>1, <1>3, <2>1, <2>2
<1>7. index' \in [Keys -> EntryType \cup {None}]
  <2>1. KeyOf(e) \in Keys /\ index \in [Keys -> EntryType \cup {None}]
    BY EntryKey DEF TypeOK
  <2>2. [index EXCEPT ![KeyOf(e)] = e] \in [Keys -> EntryType \cup {None}]
    BY <2>1
  <2>3. IndexOf(entries') \in [Keys -> EntryType \cup {None}]
    BY <1>6, IndexOfType
  <2>4. QED BY <1>5, <2>2, <2>3
<1>8. IndexMatchesEntries => IndexMatchesEntries'
  BY <1>4, <1>5 DEF IndexMatchesEntries
<1>9. QED BY <1>2, <1>6, <1>7, <1>8

\* What a new process reads from a log.
LEMMA ReplayedProperties ==
  ASSUME NEW d \in Seq(EntryType)
  PROVE  /\ Replayed(d) \in Seq(EntryType)
         /\ MaxEntries > 0 => Replayed(d) = LastN(d, MaxEntries)
         /\ MaxEntries > 0 => Len(Replayed(d)) <= MaxEntries
         /\ \A i \in DOMAIN Replayed(d) : \E j \in DOMAIN d : Replayed(d)[i] = d[j]
<1>1. MaxEntries \in Nat /\ Len(d) \in Nat /\ DOMAIN d = 1..Len(d)
  BY CacheAssumption
<1>2. MaxEntries > 0 => Replayed(d) = LastN(d, MaxEntries)
  BY <1>1 DEF Replayed, Newest, LastN
<1>3. MaxEntries = 0 => Replayed(d) = d
  BY DEF Replayed, Newest
<1>4. /\ LastN(d, MaxEntries) \in Seq(EntryType)
      /\ Len(LastN(d, MaxEntries)) = IF Len(d) > MaxEntries THEN MaxEntries ELSE Len(d)
      /\ \A i \in 1..Len(LastN(d, MaxEntries)) :
           \E j \in DOMAIN d : LastN(d, MaxEntries)[i] = d[j]
  BY <1>1, LastNProperties
<1>5. DOMAIN LastN(d, MaxEntries) = 1..Len(LastN(d, MaxEntries))
  BY <1>4
<1>6. CASE MaxEntries = 0
  BY <1>1, <1>3, <1>6
<1>7. CASE MaxEntries > 0
  BY <1>1, <1>2, <1>4, <1>5, <1>7
<1>8. QED BY <1>1, <1>6, <1>7

LEMMA FrontProperties ==
  ASSUME NEW S, NEW s \in Seq(S), s # << >>
  PROVE  /\ Front(s) \in Seq(S)
         /\ \A i \in DOMAIN Front(s) : i \in DOMAIN s /\ Front(s)[i] = s[i]
<1>1. Len(s) \in Nat /\ Len(s) > 0 /\ DOMAIN s = 1..Len(s)
  OBVIOUS
<1>2. \A i \in 1..(Len(s) - 1) : s[i] \in S
  BY <1>1
<1>3. /\ SubSeq(s, 1, Len(s) - 1) \in Seq(S)
      /\ Len(SubSeq(s, 1, Len(s) - 1)) = Len(s) - 1
      /\ \A i \in 1..(Len(s) - 1) : SubSeq(s, 1, Len(s) - 1)[i] = s[i]
  BY <1>1, <1>2, SubSeqProperties
<1>4. QED BY <1>1, <1>3 DEF Front

\* The log of TypeOK.
LogType ==
  /\ disk \in Seq(EntryType)
  /\ tail \in {"ended", "partial", "whole"}
  /\ tail = "whole" => disk # << >>
  /\ torn \in BOOLEAN
  /\ mirrored \in 0..MaxEntries

\* What an append, finished or not, leaves of the log.
LEMMA LogEffect ==
  ASSUME TypeOK, NEW e \in EntryType
  PROVE  /\ Glued \in Seq(EntryType) /\ Appended(e) \in Seq(EntryType)
         /\ \A i \in DOMAIN Glued : \E j \in DOMAIN disk : Glued[i] = disk[j]
         /\ \A i \in DOMAIN Appended(e) :
              Appended(e)[i] = e \/ \E j \in DOMAIN disk : Appended(e)[i] = disk[j]
         /\ tail = "ended" => Appended(e) = Append(disk, e) /\ Appended(e) # << >>
<1>1. disk \in Seq(EntryType) /\ (tail = "whole" => disk # << >>)
  BY DEF TypeOK
<1>2. Glued \in Seq(EntryType) /\ \A i \in DOMAIN Glued : \E j \in DOMAIN disk : Glued[i] = disk[j]
  <2>1. CASE tail = "whole"
    BY <1>1, <2>1, FrontProperties DEF Glued
  <2>2. CASE tail # "whole"
    BY <1>1, <2>2 DEF Glued
  <2>3. QED BY <2>1, <2>2
<1>3. CASE tail = "ended"
  <2>1. /\ Append(disk, e) \in Seq(EntryType)
        /\ Append(disk, e) # << >>
        /\ \A i \in DOMAIN Append(disk, e) :
             Append(disk, e)[i] = e \/ \E j \in DOMAIN disk : Append(disk, e)[i] = disk[j]
    BY <1>1
  <2>2. QED BY <1>2, <1>3, <2>1 DEF Appended
<1>4. CASE tail # "ended"
  BY <1>2, <1>4 DEF Appended
<1>5. QED BY <1>3, <1>4, <1>2

LEMMA LogTypes ==
  ASSUME TypeOK, NEW e \in EntryType, WriteLine(e)
  PROVE  LogType'
<1>1. mirrored \in 0..MaxEntries /\ MaxEntries \in Nat
  BY CacheAssumption DEF TypeOK
<1>2. mirrored' = 0 \/ (mirrored < MaxEntries /\ mirrored' = mirrored + 1) \/ mirrored' = mirrored
  BY DEF WriteLine, Observe
<1>3. mirrored' \in 0..MaxEntries
  BY <1>1, <1>2
<1>4. disk' \in Seq(EntryType) /\ tail' = "ended" /\ torn' = FALSE
  BY LogEffect DEF WriteLine, Observe
<1>5. QED BY <1>3, <1>4 DEF LogType

LEMMA LogStops ==
  ASSUME TypeOK, NEW e \in EntryType, mirrored' \in 0..MaxEntries,
         \/ TearLine(e)
         \/ UNCHANGED <<disk, tail, torn>>
         \/ disk' = Appended(e) /\ tail' = "ended" /\ torn' = FALSE
  PROVE  LogType'
<1>1. CASE TearLine(e)
  <2>1. torn' \in BOOLEAN
    BY <1>1 DEF TearLine
  <2>2. CASE disk' = Glued /\ tail' = "partial"
    BY <2>1, <2>2, LogEffect DEF LogType
  <2>3. CASE disk' = Appended(e) /\ tail' = IF tail = "ended" THEN "whole" ELSE "partial"
    <3>1. disk' \in Seq(EntryType) /\ (tail' = "whole" => disk' # << >>)
      BY <2>3, LogEffect
    <3>2. tail' \in {"ended", "partial", "whole"}
      BY <2>3
    <3>3. QED BY <2>1, <3>1, <3>2 DEF LogType
  <2>4. QED BY <1>1, <2>2, <2>3 DEF TearLine
<1>2. CASE UNCHANGED <<disk, tail, torn>>
  BY <1>2 DEF TypeOK, LogType
<1>3. CASE disk' = Appended(e) /\ tail' = "ended" /\ torn' = FALSE
  BY <1>3, LogEffect DEF LogType
<1>4. QED BY <1>1, <1>2, <1>3

\* What a request with lock l does: it leaves, and is where it was, or it
\* begins its call as the head of the queue.
LEMMA ProceedEffect ==
  ASSUME TypeOK, NEW q \in Requests, NEW l \in Locks, NEW waiters \in Seq(Requests),
         NEW locksByKey \in [Keys -> Locks \cup {None}], Proceed(q, l, waiters, locksByKey)
  PROVE  \/ /\ index[Key(q)] # None
            /\ phase' = [phase EXCEPT ![q] = "hit"]
            /\ queue' = [queue EXCEPT ![l] = waiters]
            /\ inFlight' = [locksByKey EXCEPT ![Key(q)] = None]
            /\ answer' = [answer EXCEPT ![q] = index[Key(q)]]
         \/ /\ index[Key(q)] = None
            /\ phase' = [phase EXCEPT ![q] = "calling"]
            /\ queue' = [queue EXCEPT ![l] = <<q>> \o waiters]
            /\ inFlight' = locksByKey
            /\ answer' = answer
BY DEF Proceed, DoubleCheck, Answer, Pop

\* What leaving means for a request with a place in a queue.
LEMMA LeaveEffect ==
  ASSUME TypeOK, Queues, NEW q \in Requests, phase[q] \in Held, Leave(q)
  PROVE  /\ lock[q] \in Locks
         /\ inFlight' = [inFlight EXCEPT ![Key(q)] = None]
         /\ lock' = lock
         /\ \E i \in DOMAIN queue[lock[q]] : \E t \in Seq(Requests) :
              /\ queue[lock[q]][i] = q
              /\ Without(queue[lock[q]], t, i)
              /\ queue' = [queue EXCEPT ![lock[q]] = t]
<1> DEFINE s == queue[lock[q]]
           i == CHOOSE j \in DOMAIN s : s[j] = q
<1>1. lock[q] \in Locks /\ \E j \in DOMAIN s : s[j] = q
  BY DEF Queues
<1>2. s \in Seq(Requests) /\ DOMAIN s = 1..Len(s)
  BY <1>1, QueueType
<1>3. i \in DOMAIN s /\ s[i] = q
  BY <1>1
<1>4. Release(q) = RemoveAt(s, i)
  BY DEF Release
<1>5. queue' = [queue EXCEPT ![lock[q]] = Release(q)]
  BY DEF Leave
<1>6. inFlight' = [inFlight EXCEPT ![Key(q)] = None] /\ lock' = lock
  BY DEF Leave, Pop
<1> HIDE DEF i
<1>7. RemoveAt(s, i) \in Seq(Requests) /\ Without(s, RemoveAt(s, i), i)
  BY <1>2, <1>3, RemoveAtDrops
<1>8. QED BY <1>1, <1>3, <1>4, <1>5, <1>6, <1>7

\* The end of tier 2: the request leaves with an entry, calls, or waits.
LEMMA MissEffect ==
  ASSUME TypeOK, Queues, NEW q \in Requests, SimilarMiss(q)
  PROVE  \E l \in Locks : \E ph \in {"hit", "calling", "queued"} :
           /\ l = IF inFlight[Key(q)] = None THEN q ELSE inFlight[Key(q)]
           /\ lock' = [lock EXCEPT ![q] = l]
           /\ phase' = [phase EXCEPT ![q] = ph]
           /\ ph = "hit" =>
                /\ index[Key(q)] # None
                /\ queue' = queue
                /\ inFlight' = [inFlight EXCEPT ![Key(q)] = None]
                /\ answer' = [answer EXCEPT ![q] = index[Key(q)]]
           /\ ph # "hit" =>
                /\ queue' = [queue EXCEPT ![l] = Append(queue[l], q)]
                /\ inFlight' = [inFlight EXCEPT ![Key(q)] = l]
                /\ answer' = answer
           /\ ph = "calling" => queue[l] = << >> /\ index[Key(q)] = None
<1> DEFINE l == IF inFlight[Key(q)] = None THEN q ELSE inFlight[Key(q)]
           byKey == [inFlight EXCEPT ![Key(q)] = l]
<1>1. Key(q) \in Keys /\ inFlight \in [Keys -> Locks \cup {None}]
  BY Questions DEF TypeOK
<1>2. l \in Locks
  BY <1>1 DEF Locks
<1>3. byKey \in [Keys -> Locks \cup {None}] /\ [byKey EXCEPT ![Key(q)] = None] = [inFlight EXCEPT ![Key(q)] = None]
  BY <1>1, <1>2
<1>4. /\ lock' = [lock EXCEPT ![q] = l]
      /\ IF queue[l] = << >> THEN Proceed(q, l, << >>, byKey)
         ELSE /\ queue' = [queue EXCEPT ![l] = Append(queue[l], q)]
              /\ inFlight' = byKey
              /\ phase' = [phase EXCEPT ![q] = "queued"]
              /\ UNCHANGED answer
  BY DEF SimilarMiss
<1>5. << >> \in Seq(Requests) /\ Append(<< >>, q) = <<q>> \o << >>
  OBVIOUS
<1>6. queue[l] = << >> => [queue EXCEPT ![l] = << >>] = queue
  BY <1>2 DEF TypeOK
<1> HIDE DEF l, byKey
<1>7. CASE queue[l] = << >>
  <2>1. Proceed(q, l, << >>, byKey)
    BY <1>4, <1>7
  <2>2. \/ /\ index[Key(q)] # None
           /\ phase' = [phase EXCEPT ![q] = "hit"]
           /\ queue' = [queue EXCEPT ![l] = << >>]
           /\ inFlight' = [byKey EXCEPT ![Key(q)] = None]
           /\ answer' = [answer EXCEPT ![q] = index[Key(q)]]
        \/ /\ index[Key(q)] = None
           /\ phase' = [phase EXCEPT ![q] = "calling"]
           /\ queue' = [queue EXCEPT ![l] = <<q>> \o << >>]
           /\ inFlight' = byKey
           /\ answer' = answer
    BY <1>2, <1>3, <1>5, <2>1, ProceedEffect
  <2>3. CASE /\ index[Key(q)] # None
             /\ phase' = [phase EXCEPT ![q] = "hit"]
             /\ queue' = [queue EXCEPT ![l] = << >>]
             /\ inFlight' = [byKey EXCEPT ![Key(q)] = None]
             /\ answer' = [answer EXCEPT ![q] = index[Key(q)]]
    <3>1. /\ phase' = [phase EXCEPT ![q] = "hit"]
          /\ index[Key(q)] # None
          /\ queue' = queue
          /\ inFlight' = [inFlight EXCEPT ![Key(q)] = None]
          /\ answer' = [answer EXCEPT ![q] = index[Key(q)]]
      BY <1>3, <1>6, <1>7, <2>3
    <3>2. QED BY <1>2, <1>4, <3>1 DEF l
  <2>4. CASE /\ index[Key(q)] = None
             /\ phase' = [phase EXCEPT ![q] = "calling"]
             /\ queue' = [queue EXCEPT ![l] = <<q>> \o << >>]
             /\ inFlight' = byKey
             /\ answer' = answer
    <3>1. /\ phase' = [phase EXCEPT ![q] = "calling"]
          /\ queue' = [queue EXCEPT ![l] = Append(queue[l], q)]
          /\ inFlight' = [inFlight EXCEPT ![Key(q)] = l]
          /\ answer' = answer
          /\ queue[l] = << >> /\ index[Key(q)] = None
      BY <1>5, <1>7, <2>4 DEF byKey
    <3>2. QED BY <1>2, <1>4, <3>1 DEF l
  <2>5. QED BY <2>2, <2>3, <2>4
<1>8. CASE queue[l] # << >>
  <2>1. /\ phase' = [phase EXCEPT ![q] = "queued"]
        /\ queue' = [queue EXCEPT ![l] = Append(queue[l], q)]
        /\ inFlight' = [inFlight EXCEPT ![Key(q)] = l]
        /\ answer' = answer
    BY <1>4, <1>8 DEF byKey
  <2>2. QED BY <1>2, <1>4, <2>1 DEF l
<1>9. QED BY <1>7, <1>8

\* The lock comes free: the request leaves with an entry, or calls.
LEMMA GrantEffect ==
  ASSUME TypeOK, Queues, NEW q \in Requests, LockGranted(q)
  PROVE  /\ phase[q] = "queued" /\ lock[q] \in Locks /\ lock' = lock
         /\ queue[lock[q]] # << >> /\ Head(queue[lock[q]]) = q
         /\ \/ /\ index[Key(q)] # None
               /\ phase' = [phase EXCEPT ![q] = "hit"]
               /\ queue' = [queue EXCEPT ![lock[q]] = Tail(queue[lock[q]])]
               /\ inFlight' = [inFlight EXCEPT ![Key(q)] = None]
               /\ answer' = [answer EXCEPT ![q] = index[Key(q)]]
            \/ /\ index[Key(q)] = None
               /\ phase' = [phase EXCEPT ![q] = "calling"]
               /\ queue' = queue
               /\ inFlight' = inFlight
               /\ answer' = answer
<1> DEFINE s == queue[lock[q]]
<1>1. phase[q] = "queued" /\ Head(s) = q /\ lock' = lock /\ Proceed(q, lock[q], Tail(s), inFlight)
  BY DEF LockGranted
<1>2. lock[q] \in Locks /\ \E i \in DOMAIN s : s[i] = q
  BY <1>1 DEF Queues, Held
<1>3. s \in Seq(Requests) /\ s # << >>
  BY <1>2, QueueType
<1>4. Tail(s) \in Seq(Requests) /\ <<q>> \o Tail(s) = s
  <2>1. /\ Tail(s) \in Seq(Requests) /\ Len(Tail(s)) = Len(s) - 1
        /\ \A i \in 1..Len(Tail(s)) : Tail(s)[i] = s[i + 1]
        /\ s[1] = q /\ Len(s) \in Nat /\ Len(s) > 0
    BY <1>1, <1>3, HeadTailProperties
  <2>2. <<q>> \in Seq(Requests) /\ Len(<<q>>) = 1 /\ <<q>>[1] = q
    OBVIOUS
  <2> DEFINE t == <<q>> \o Tail(s)
             h == <<q>>
             r == Tail(s)
  <2> HIDE DEF h, r
  <2>3. /\ h \o r \in Seq(Requests)
        /\ Len(h \o r) = Len(h) + Len(r)
        /\ \A i \in 1..(Len(h) + Len(r)) : (h \o r)[i] = IF i <= Len(h) THEN h[i] ELSE r[i - Len(h)]
    BY <2>1, <2>2, ConcatProperties DEF h, r
  <2>4. Len(h \o r) = Len(s)
    BY <2>1, <2>2, <2>3 DEF h, r
  <2>5. ASSUME NEW i \in 1..Len(s)
        PROVE  (h \o r)[i] = s[i]
    <3>1. CASE i = 1
      BY <2>1, <2>2, <2>3, <3>1 DEF h, r
    <3>2. CASE i # 1
      <4>1. i - 1 \in 1..Len(r) /\ ~ (i <= Len(h)) /\ (i - 1) + 1 = i /\ i - Len(h) = i - 1
        BY <2>1, <2>2, <3>2 DEF h, r
      <4>2. r[i - 1] = s[i]
        BY <2>1, <4>1 DEF r
      <4>3. QED BY <2>3, <2>4, <4>1, <4>2
    <3>3. QED BY <3>1, <3>2
  <2>6. h \o r = s
    BY <1>3, <2>3, <2>4, <2>5, SeqEqual
  <2>7. QED BY <2>1, <2>6 DEF h, r
<1>5. [queue EXCEPT ![lock[q]] = s] = queue
  BY <1>2 DEF TypeOK
<1>6. inFlight \in [Keys -> Locks \cup {None}]
  BY DEF TypeOK
<1>7. \/ /\ index[Key(q)] # None
         /\ phase' = [phase EXCEPT ![q] = "hit"]
         /\ queue' = [queue EXCEPT ![lock[q]] = Tail(s)]
         /\ inFlight' = [inFlight EXCEPT ![Key(q)] = None]
         /\ answer' = [answer EXCEPT ![q] = index[Key(q)]]
      \/ /\ index[Key(q)] = None
         /\ phase' = [phase EXCEPT ![q] = "calling"]
         /\ queue' = [queue EXCEPT ![lock[q]] = <<q>> \o Tail(s)]
         /\ inFlight' = inFlight
         /\ answer' = answer
  <2>1. Proceed(q, lock[q], Tail(s), inFlight) /\ Tail(s) \in Seq(Requests)
    BY <1>1, <1>4
  <2> HIDE DEF s
  <2>2. QED BY <1>2, <1>6, <2>1, ProceedEffect
<1>8. queue' = [queue EXCEPT ![lock[q]] = <<q>> \o Tail(s)] => queue' = queue
  BY <1>4, <1>5
<1>9. QED BY <1>1, <1>2, <1>3, <1>7, <1>8

LEMMA AskTypes ==
  ASSUME TypeOK, Queues, NEW q \in Requests, Ask(q)
  PROVE  TypeOK' /\ Queues'
<1>1. /\ phase[q] = "idle"
      /\ UNCHANGED <<entries, index, inFlight, queue, lock, disk, tail, torn, mirrored, restarts, config, input>>
  BY DEF Ask, memory, locks, asked, log, observed
<1>2. PICK ph \in {"hit", "embedding"} : phase' = [phase EXCEPT ![q] = ph]
  BY DEF Ask, Answer
<1>3. answer' \in [Requests -> EntryType \cup {None}]
  <2>1. index[Key(q)] \in EntryType \cup {None}
    BY Questions DEF TypeOK
  <2>2. answer' = answer \/ answer' = [answer EXCEPT ![q] = index[Key(q)]]
    BY DEF Ask, Answer
  <2>3. QED BY <2>1, <2>2 DEF TypeOK
<1>4. phase' \in [Requests -> Waiting \cup Done \cup {"idle"}]
  BY <1>2 DEF TypeOK, Waiting, Done
<1>5. TypeOK'
  BY <1>1, <1>3, <1>4 DEF TypeOK
<1>6. Queues'
  BY <1>1, <1>2, PassesBy DEF Held
<1>7. QED BY <1>5, <1>6

LEMMA HitTypes ==
  ASSUME TypeOK, Queues, NEW q \in Requests, NEW i \in DOMAIN entries, SimilarHit(q, i)
  PROVE  TypeOK' /\ Queues'
<1>1. /\ phase[q] = "embedding"
      /\ phase' = [phase EXCEPT ![q] = "hit"]
      /\ answer' = [answer EXCEPT ![q] = entries[i]]
      /\ UNCHANGED <<entries, index, inFlight, queue, lock, disk, tail, torn, mirrored, restarts, config, input>>
  BY DEF SimilarHit, Answer, memory, locks, asked, log, observed
<1>2. entries[i] \in EntryType
  BY DEF TypeOK
<1>3. phase' \in [Requests -> Waiting \cup Done \cup {"idle"}]
  BY <1>1 DEF TypeOK, Waiting, Done
<1>4. TypeOK'
  BY <1>1, <1>2, <1>3 DEF TypeOK
<1>5. Queues'
  BY <1>1, PassesBy DEF Held
<1>6. QED BY <1>4, <1>5

LEMMA EmbedTypes ==
  ASSUME TypeOK, Queues, NEW q \in Requests, EmbedFails(q)
  PROVE  TypeOK' /\ Queues'
<1>1. /\ phase[q] = "embedding"
      /\ phase' = [phase EXCEPT ![q] = "failed"]
      /\ UNCHANGED <<entries, index, inFlight, queue, lock, disk, tail, torn, mirrored, restarts, config, input, answer>>
  BY DEF EmbedFails, memory, locks, asked, log, observed
<1>2. phase' \in [Requests -> Waiting \cup Done \cup {"idle"}]
  BY <1>1 DEF TypeOK, Waiting, Done
<1>3. TypeOK'
  BY <1>1, <1>2 DEF TypeOK
<1>4. Queues'
  BY <1>1, PassesBy DEF Held
<1>5. QED BY <1>3, <1>4

LEMMA MissTypes ==
  ASSUME TypeOK, Queues, NEW q \in Requests, SimilarMiss(q)
  PROVE  TypeOK' /\ Queues'
<1>1. phase[q] = "embedding" /\ UNCHANGED <<entries, index, disk, tail, torn, mirrored, restarts, config, input>>
  BY DEF SimilarMiss, memory, asked, log, observed
<1>2. PICK l \in Locks, ph \in {"hit", "calling", "queued"} :
        /\ lock' = [lock EXCEPT ![q] = l]
        /\ phase' = [phase EXCEPT ![q] = ph]
        /\ ph = "hit" =>
             /\ queue' = queue
             /\ inFlight' = [inFlight EXCEPT ![Key(q)] = None]
             /\ answer' = [answer EXCEPT ![q] = index[Key(q)]]
        /\ ph # "hit" =>
             /\ queue' = [queue EXCEPT ![l] = Append(queue[l], q)]
             /\ inFlight' = [inFlight EXCEPT ![Key(q)] = l]
             /\ answer' = answer
        /\ ph = "calling" => queue[l] = << >>
  BY MissEffect
<1>3. Key(q) \in Keys /\ index[Key(q)] \in EntryType \cup {None}
  BY Questions DEF TypeOK
<1>4. phase' \in [Requests -> Waiting \cup Done \cup {"idle"}]
  BY <1>2 DEF TypeOK, Waiting, Done
<1>5. lock' \in [Requests -> Locks \cup {None}]
  BY <1>2 DEF TypeOK
<1>6. /\ inFlight' \in [Keys -> Locks \cup {None}]
      /\ queue' \in [Locks -> Seq(Requests)]
      /\ answer' \in [Requests -> EntryType \cup {None}]
  <2>1. CASE ph = "hit"
    BY <1>2, <1>3, <2>1 DEF TypeOK
  <2>2. CASE ph # "hit"
    <3>1. Append(queue[l], q) \in Seq(Requests)
      BY QueueType
    <3>2. QED BY <1>2, <1>3, <2>2, <3>1 DEF TypeOK
  <2>3. QED BY <2>1, <2>2
<1>7. TypeOK'
  BY <1>1, <1>4, <1>5, <1>6 DEF TypeOK
<1>8. Queues'
  <2>1. phase[q] \notin Held
    BY <1>1 DEF Held
  <2>2. CASE ph = "hit"
    <3>1. \A p \in Requests \ {q} : lock'[p] = lock[p]
      BY <1>2 DEF TypeOK
    <3>2. QED BY <1>2, <2>1, <2>2, <3>1, PassesBy DEF Held
  <2>3. CASE ph # "hit"
    BY <1>2, <2>1, <2>3, Joins DEF Held
  <2>4. QED BY <2>2, <2>3
<1>9. QED BY <1>7, <1>8

LEMMA GrantTypes ==
  ASSUME TypeOK, Queues, NEW q \in Requests, LockGranted(q)
  PROVE  TypeOK' /\ Queues'
<1> DEFINE s == queue[lock[q]]
<1>1. UNCHANGED <<entries, index, lock, disk, tail, torn, mirrored, restarts, config, input>>
  BY DEF LockGranted, memory, asked, log, observed
<1>2. /\ phase[q] = "queued" /\ lock[q] \in Locks
      /\ s # << >> /\ Head(s) = q
  BY GrantEffect
<1>3. Key(q) \in Keys /\ index[Key(q)] \in EntryType \cup {None}
  BY Questions DEF TypeOK
<1>4. s \in Seq(Requests) /\ DOMAIN s = 1..Len(s)
  BY <1>2, QueueType
<1>5. Tail(s) \in Seq(Requests) /\ Without(s, Tail(s), 1)
  BY <1>2, <1>4, TailDrops
<1>6. 1 \in DOMAIN s /\ s[1] = q
  BY <1>2, <1>4
<1>7. CASE /\ phase' = [phase EXCEPT ![q] = "hit"]
           /\ queue' = [queue EXCEPT ![lock[q]] = Tail(s)]
           /\ inFlight' = [inFlight EXCEPT ![Key(q)] = None]
           /\ answer' = [answer EXCEPT ![q] = index[Key(q)]]
  <2>1. phase' \in [Requests -> Waiting \cup Done \cup {"idle"}]
    BY <1>7 DEF TypeOK, Waiting, Done
  <2>2. TypeOK'
    BY <1>1, <1>2, <1>3, <1>5, <1>7, <2>1 DEF TypeOK
  <2>3. Queues'
    <3>1. phase[q] \in Held /\ "hit" \notin Held /\ lock' = lock
      BY <1>1, <1>2 DEF Held
    <3> HIDE DEF Held
    <3>2. QED BY <1>5, <1>6, <1>7, <3>1, Departs
  <2>4. QED BY <2>2, <2>3
<1>8. CASE /\ phase' = [phase EXCEPT ![q] = "calling"]
           /\ queue' = queue /\ inFlight' = inFlight /\ answer' = answer
  <2>1. phase' \in [Requests -> Waiting \cup Done \cup {"idle"}]
    BY <1>8 DEF TypeOK, Waiting, Done
  <2>2. TypeOK'
    BY <1>1, <1>8, <2>1 DEF TypeOK
  <2>3. Queues'
    BY <1>1, <1>2, <1>8, Holds
  <2>4. QED BY <2>2, <2>3
<1>9. QED BY <1>7, <1>8, GrantEffect

\* The finally block of a request that ends as ph.
LEMMA LeaveTypes ==
  ASSUME TypeOK, Queues, NEW q \in Requests, phase[q] \in Held, Leave(q),
         NEW ph \in Done, phase' = [phase EXCEPT ![q] = ph]
  PROVE  /\ lock' \in [Requests -> Locks \cup {None}]
         /\ inFlight' \in [Keys -> Locks \cup {None}]
         /\ queue' \in [Locks -> Seq(Requests)]
         /\ phase' \in [Requests -> Waiting \cup Done \cup {"idle"}]
         /\ Queues'
<1>1. PICK i \in DOMAIN queue[lock[q]], t \in Seq(Requests) :
        /\ queue[lock[q]][i] = q
        /\ Without(queue[lock[q]], t, i)
        /\ queue' = [queue EXCEPT ![lock[q]] = t]
  BY LeaveEffect
<1>2. /\ lock[q] \in Locks /\ lock' = lock
      /\ inFlight' = [inFlight EXCEPT ![Key(q)] = None]
  BY LeaveEffect
<1>3. ph \notin Held
  BY DEF Held, Done
<1>4. Queues'
  BY <1>1, <1>2, <1>3, Departs
<1>5. QED BY <1>1, <1>2, <1>4 DEF TypeOK

LEMMA ReturnTypes ==
  ASSUME TypeOK, Queues, NEW q \in Requests, CallReturns(q)
  PROVE  TypeOK' /\ Queues'
<1>1. phase[q] \in Held /\ "called" \in Done
  BY DEF CallReturns, Held, Done
<1>2. /\ Store(Entry(q)) /\ Leave(q)
      /\ phase' = [phase EXCEPT ![q] = "called"]
      /\ answer' = [answer EXCEPT ![q] = Entry(q)]
      /\ WriteLine(Entry(q)) \/ UNCHANGED <<disk, tail, torn, mirrored>>
      /\ UNCHANGED <<restarts, config, input>>
  BY DEF CallReturns, Answer, asked, log, observed
<1>3. Entry(q) \in EntryType
  BY Questions
<1>4. entries' \in Seq(EntryType) /\ index' \in [Keys -> EntryType \cup {None}]
  BY <1>2, <1>3, StoreEffect
<1>5. LogType' /\ answer' \in [Requests -> EntryType \cup {None}]
  <2>1. UNCHANGED <<disk, tail, torn, mirrored>> => LogType'
    BY DEF TypeOK, LogType
  <2>2. QED BY <1>2, <1>3, <2>1, LogTypes DEF TypeOK
<1>6. /\ lock' \in [Requests -> Locks \cup {None}]
      /\ inFlight' \in [Keys -> Locks \cup {None}]
      /\ queue' \in [Locks -> Seq(Requests)]
      /\ phase' \in [Requests -> Waiting \cup Done \cup {"idle"}]
      /\ Queues'
  BY <1>1, <1>2, LeaveTypes
<1>7. QED BY <1>2, <1>4, <1>5, <1>6 DEF TypeOK, LogType

LEMMA AppendTypes ==
  ASSUME TypeOK, Queues, NEW q \in Requests, AppendFails(q)
  PROVE  TypeOK' /\ Queues'
<1>1. phase[q] \in Held /\ "failed" \in Done
  BY DEF AppendFails, Held, Done
<1>2. /\ Store(Entry(q)) /\ Leave(q)
      /\ phase' = [phase EXCEPT ![q] = "failed"]
      /\ mirrored' = 0
      /\ TearLine(Entry(q)) \/ UNCHANGED <<disk, tail, torn>>
      /\ UNCHANGED <<answer, restarts, config, input>>
  BY DEF AppendFails, asked
<1>3. entries' \in Seq(EntryType) /\ index' \in [Keys -> EntryType \cup {None}]
  BY <1>2, Questions, StoreEffect
<1>4. /\ lock' \in [Requests -> Locks \cup {None}]
      /\ inFlight' \in [Keys -> Locks \cup {None}]
      /\ queue' \in [Locks -> Seq(Requests)]
      /\ phase' \in [Requests -> Waiting \cup Done \cup {"idle"}]
      /\ Queues'
  BY <1>1, <1>2, LeaveTypes
<1>5. LogType'
  <2>1. mirrored' \in 0..MaxEntries /\ Entry(q) \in EntryType
    BY <1>2, Questions, CacheAssumption
  <2>2. CASE TearLine(Entry(q))
    BY <2>1, <2>2, LogStops
  <2>3. CASE UNCHANGED <<disk, tail, torn>>
    BY <2>1, <2>3, LogStops
  <2>4. QED BY <1>2, <2>2, <2>3
<1>6. QED BY <1>2, <1>3, <1>4, <1>5 DEF TypeOK, LogType

LEMMA FailTypes ==
  ASSUME TypeOK, Queues, NEW q \in Requests, CallFails(q) \/ CancelQueued(q)
  PROVE  TypeOK' /\ Queues'
<1>1. phase[q] \in Held /\ "failed" \in Done
  BY DEF CallFails, CancelQueued, Held, Done
<1>2. /\ Leave(q)
      /\ phase' = [phase EXCEPT ![q] = "failed"]
      /\ UNCHANGED <<entries, index, disk, tail, torn, mirrored, answer, restarts, config, input>>
  BY DEF CallFails, CancelQueued, memory, asked, log, observed
<1>3. /\ lock' \in [Requests -> Locks \cup {None}]
      /\ inFlight' \in [Keys -> Locks \cup {None}]
      /\ queue' \in [Locks -> Seq(Requests)]
      /\ phase' \in [Requests -> Waiting \cup Done \cup {"idle"}]
      /\ Queues'
  BY <1>1, <1>2, LeaveTypes
<1>4. QED BY <1>2, <1>3 DEF TypeOK

LEMMA ClearTypes ==
  ASSUME TypeOK, Queues, Clear
  PROVE  TypeOK' /\ Queues'
<1>1. /\ entries' = << >>
      /\ index' = [k \in Keys |-> None]
      /\ inFlight' = [k \in Keys |-> None]
      /\ mirrored' = 0
      /\ UNCHANGED <<queue, lock, disk, tail, torn, restarts, phase, config, input, answer>>
  BY DEF Clear, asked
<1>2. << >> \in Seq(EntryType) /\ 0 \in 0..MaxEntries
  BY CacheAssumption
<1>3. TypeOK'
  BY <1>1, <1>2 DEF TypeOK
<1>4. Queues'
  BY <1>1 DEF Queues
<1>5. QED BY <1>3, <1>4

LEMMA RestartTypes ==
  ASSUME TypeOK, Queues, Restart
  PROVE  TypeOK' /\ Queues'
<1>1. /\ restarts' \in 0..MaxRestarts
      /\ entries' = Replayed(disk')
      /\ index' = IndexOf(entries')
      /\ inFlight' = [k \in Keys |-> None]
      /\ queue' = [l \in Locks |-> << >>]
      /\ phase' = [q \in Requests |-> IF phase[q] \in Waiting THEN "lost" ELSE phase[q]]
      /\ UNCHANGED <<lock, config, input, answer>>
  BY CacheAssumption DEF Restart, TypeOK, asked
<1>2. LogType' /\ entries' \in Seq(EntryType)
  <2>1. UNCHANGED <<disk, tail, torn>> /\ mirrored' = MaxEntries => LogType'
    BY CacheAssumption DEF TypeOK, LogType
  <2>2. ASSUME NEW q \in Requests, DieWriting(q), mirrored' = MaxEntries
        PROVE  LogType'
    <3>1. mirrored' \in 0..MaxEntries /\ Entry(q) \in EntryType
      BY <2>2, Questions, CacheAssumption
    <3>2. CASE TearLine(Entry(q))
      BY <3>1, <3>2, LogStops
    <3>3. CASE disk' = Appended(Entry(q)) /\ tail' = "ended" /\ torn' = FALSE
      BY <3>1, <3>3, LogStops
    <3>4. QED BY <2>2, <3>2, <3>3 DEF DieWriting
  <2>3. LogType'
    BY <2>1, <2>2 DEF Restart
  <2>4. QED BY <1>1, <2>3, ReplayedProperties DEF LogType
<1>3. index' \in [Keys -> EntryType \cup {None}]
  BY <1>1, <1>2, IndexOfType
<1>4. phase' \in [Requests -> Waiting \cup Done \cup {"idle"}] /\ \A q \in Requests : phase'[q] \notin Held
  BY <1>1 DEF TypeOK, Waiting, Done, Held
<1>5. << >> \in Seq(Requests) /\ DOMAIN << >> = {}
  OBVIOUS
<1>6. TypeOK'
  BY <1>1, <1>2, <1>3, <1>4, <1>5 DEF TypeOK, LogType
<1>7. Queues'
  BY <1>1, <1>4, <1>5 DEF Queues
<1>8. QED BY <1>6, <1>7

LEMMA InitTypes ==
  ASSUME Init
  PROVE  TypeOK /\ Queues
<1>1. << >> \in Seq(EntryType) /\ << >> \in Seq(Requests) /\ DOMAIN << >> = {}
  OBVIOUS
<1>2. 0 \in 0..MaxRestarts /\ MaxEntries \in 0..MaxEntries
  BY CacheAssumption
<1>3. TypeOK
  BY <1>1, <1>2 DEF Init, TypeOK
<1>4. Queues
  BY <1>1 DEF Init, Queues, Held
<1>5. QED BY <1>3, <1>4

LEMMA StepTypes ==
  ASSUME TypeOK, Queues, [Next]_vars
  PROVE  TypeOK' /\ Queues'
<1>1. CASE Clear
  BY <1>1, ClearTypes
<1>2. CASE Restart
  BY <1>2, RestartTypes
<1>3. ASSUME NEW q \in Requests, Ask(q) \/ Serve(q) \/ CancelQueued(q)
      PROVE  TypeOK' /\ Queues'
  <2>1. CASE Ask(q)
    BY <2>1, AskTypes
  <2>2. CASE SimilarMiss(q)
    BY <2>2, MissTypes
  <2>3. ASSUME NEW i \in DOMAIN entries, SimilarHit(q, i)
        PROVE  TypeOK' /\ Queues'
    BY <2>3, HitTypes
  <2>4. CASE LockGranted(q)
    BY <2>4, GrantTypes
  <2>5. CASE CallReturns(q)
    BY <2>5, ReturnTypes
  <2>6. CASE AppendFails(q)
    BY <2>6, AppendTypes
  <2>7. CASE CallFails(q) \/ CancelQueued(q)
    BY <2>7, FailTypes
  <2>8. CASE EmbedFails(q)
    BY <2>8, EmbedTypes
  <2>9. QED BY <1>3, <2>1, <2>2, <2>3, <2>4, <2>5, <2>6, <2>7, <2>8 DEF Serve
<1>4. CASE UNCHANGED vars
  BY <1>4 DEF vars, memory, locks, asked, log, observed, TypeOK, Queues
<1>5. QED BY <1>1, <1>2, <1>3, <1>4 DEF Next

\* semantic.py 160-275: the cache, its locks and its requests keep their
\* types.  A request gives its lock up by finding itself in the queue, so the
\* types hold only together with what is known of the queues.
THEOREM CacheTypes == Spec => [](TypeOK /\ Queues)
<1>1. Init => TypeOK /\ Queues
  BY InitTypes
<1>2. TypeOK /\ Queues /\ [Next]_vars => TypeOK' /\ Queues'
  BY StepTypes
<1>3. QED BY <1>1, <1>2, PTL DEF Spec

-----------------------------------------------------------------------------
(* What a step does to the memory and to the log on disk.                  *)

LEMMA MemorySteps ==
  ASSUME [Next]_vars
  PROVE  \/ UNCHANGED <<entries, index, disk, tail, torn, mirrored>>
         \/ /\ entries' = << >> /\ index' = [k \in Keys |-> None]
            /\ mirrored' = 0 /\ UNCHANGED <<disk, tail, torn>>
         \/ Restart
         \/ \E q \in Requests :
              /\ Store(Entry(q))
              /\ IF OnDisk THEN WriteLine(Entry(q)) ELSE UNCHANGED log
         \/ \E q \in Requests :
              /\ Store(Entry(q))
              /\ mirrored' = 0
              /\ TearLine(Entry(q)) \/ UNCHANGED <<disk, tail, torn>>
<1>1. CASE Clear
  BY <1>1 DEF Clear
<1>2. ASSUME NEW q \in Requests, CallReturns(q)
      PROVE  /\ Store(Entry(q))
             /\ IF OnDisk THEN WriteLine(Entry(q)) ELSE UNCHANGED log
  BY <1>2 DEF CallReturns
<1>3. ASSUME NEW q \in Requests, AppendFails(q)
      PROVE  /\ Store(Entry(q))
             /\ mirrored' = 0
             /\ TearLine(Entry(q)) \/ UNCHANGED <<disk, tail, torn>>
  BY <1>3 DEF AppendFails
<1>4. ASSUME NEW q \in Requests,
             \/ Ask(q) \/ SimilarMiss(q) \/ \E i \in DOMAIN entries : SimilarHit(q, i)
             \/ LockGranted(q) \/ CallFails(q) \/ CancelQueued(q) \/ EmbedFails(q)
      PROVE  UNCHANGED <<entries, index, disk, tail, torn, mirrored>>
  BY <1>4 DEF Ask, SimilarMiss, SimilarHit, LockGranted, CallFails, CancelQueued,
              EmbedFails, memory, log, observed
<1>5. CASE UNCHANGED vars
  BY <1>5 DEF vars, memory, log, observed
<1>6. QED BY <1>1, <1>2, <1>3, <1>4, <1>5 DEF Next, Serve

LEMMA IndexKept ==
  ASSUME TypeOK, IndexMatchesEntries, [Next]_vars
  PROVE  IndexMatchesEntries'
<1>1. CASE UNCHANGED <<entries, index>>
  BY <1>1 DEF IndexMatchesEntries
<1>2. CASE entries' = << >> /\ index' = [k \in Keys |-> None]
  BY <1>2, IndexOfEmpty DEF IndexMatchesEntries
<1>3. CASE Restart
  BY <1>3 DEF Restart, IndexMatchesEntries
<1>4. CASE \E q \in Requests : Store(Entry(q))
  BY <1>4, Questions, StoreEffect
<1>5. QED BY <1>1, <1>2, <1>3, <1>4, MemorySteps

\* semantic.py 224-262, _rebuild_exact_index: whatever is stored, evicted one
\* by one with its duplicates, cleared or replayed, the exact index holds under
\* each key the newest entry with that key, and nothing else.
THEOREM IndexMatchesEntriesHolds == Spec => []IndexMatchesEntries
<1>1. Init => IndexMatchesEntries
  BY IndexOfEmpty DEF Init, IndexMatchesEntries
<1>2. (TypeOK /\ Queues) /\ IndexMatchesEntries /\ [Next]_vars => IndexMatchesEntries'
  BY IndexKept
<1>3. QED BY <1>1, <1>2, CacheTypes, PTL DEF Spec

\* semantic.py 250-257 and the replay at start: the cache never holds more
\* entries than it may.  The hypothesis excludes what loaded[-0:] does: with
\* max_entries = 0 a restart replays the whole log.
THEOREM SizeBoundedHolds ==
  ASSUME MaxEntries > 0 \/ MaxRestarts = 0
  PROVE  Spec => []SizeBounded
<1>1. Init => SizeBounded
  BY CacheAssumption DEF Init, SizeBounded
<1>2. ASSUME TypeOK, TypeOK', SizeBounded, [Next]_vars
      PROVE  SizeBounded'
  <2>1. CASE UNCHANGED <<entries, index>>
    BY <1>2, <2>1 DEF SizeBounded
  <2>2. CASE entries' = << >>
    BY <2>2, CacheAssumption DEF SizeBounded
  <2>3. CASE Restart
    <3>1. restarts < MaxRestarts /\ restarts \in 0..MaxRestarts /\ entries' = Replayed(disk')
      BY <1>2, <2>3 DEF Restart, TypeOK
    <3>2. MaxEntries > 0
      BY <3>1, CacheAssumption
    <3>3. disk' \in Seq(EntryType)
      BY <1>2 DEF TypeOK
    <3>4. QED BY <3>1, <3>2, <3>3, ReplayedProperties DEF SizeBounded
  <2>4. CASE \E q \in Requests : Store(Entry(q))
    BY <1>2, <2>4, Questions, StoreEffect DEF SizeBounded
  <2>5. QED BY <1>2, <2>1, <2>2, <2>3, <2>4, MemorySteps
<1>3. (TypeOK /\ Queues) /\ SizeBounded /\ [Next]_vars => SizeBounded'
  BY <1>2, StepTypes
<1>4. QED BY <1>1, <1>3, CacheTypes, PTL DEF Spec

-----------------------------------------------------------------------------
(* Memory and log.                                                         *)

LEMMA LastNLastN ==
  ASSUME NEW S, NEW d \in Seq(S), NEW n \in Nat, NEW m \in Nat, m <= n
  PROVE  LastN(LastN(d, n), m) = LastN(d, m)
<1> DEFINE a == LastN(d, n)
           b == LastN(a, m)
           c == LastN(d, m)
<1>1. /\ a \in Seq(S) /\ Len(d) \in Nat
      /\ Len(a) = IF Len(d) > n THEN n ELSE Len(d)
      /\ \A i \in 1..Len(a) : a[i] = d[i + (Len(d) - Len(a))]
  <2>1. /\ LastN(d, n) \in Seq(S)
        /\ Len(LastN(d, n)) = IF Len(d) > n THEN n ELSE Len(d)
        /\ \A i \in 1..Len(LastN(d, n)) :
             /\ i + (Len(d) - Len(LastN(d, n))) \in 1..Len(d)
             /\ LastN(d, n)[i] = d[i + (Len(d) - Len(LastN(d, n)))]
    BY LastNProperties
  <2>2. Len(d) \in Nat
    OBVIOUS
  <2> HIDE DEF a
  <2>3. QED BY <2>1, <2>2 DEF a
<1>2. /\ c \in Seq(S)
      /\ Len(c) = IF Len(d) > m THEN m ELSE Len(d)
      /\ \A i \in 1..Len(c) : c[i] = d[i + (Len(d) - Len(c))]
  <2>1. /\ LastN(d, m) \in Seq(S)
        /\ Len(LastN(d, m)) = IF Len(d) > m THEN m ELSE Len(d)
        /\ \A i \in 1..Len(LastN(d, m)) :
             /\ i + (Len(d) - Len(LastN(d, m))) \in 1..Len(d)
             /\ LastN(d, m)[i] = d[i + (Len(d) - Len(LastN(d, m)))]
    BY LastNProperties
  <2>2. QED BY <2>1
<1> HIDE DEF a
<1>3. /\ b \in Seq(S)
      /\ Len(b) = IF Len(a) > m THEN m ELSE Len(a)
      /\ \A i \in 1..Len(b) : b[i] = a[i + (Len(a) - Len(b))]
  <2>1. /\ LastN(a, m) \in Seq(S)
        /\ Len(LastN(a, m)) = IF Len(a) > m THEN m ELSE Len(a)
        /\ \A i \in 1..Len(LastN(a, m)) :
             /\ i + (Len(a) - Len(LastN(a, m))) \in 1..Len(a)
             /\ LastN(a, m)[i] = a[i + (Len(a) - Len(LastN(a, m)))]
    BY <1>1, LastNProperties
  <2>2. QED BY <2>1
<1> HIDE DEF b, c
<1>4. Len(b) = Len(c) /\ Len(b) <= Len(a) /\ Len(a) <= Len(d) /\ Len(a) \in Nat /\ Len(b) \in Nat
  BY <1>1, <1>2, <1>3
<1>5. ASSUME NEW i \in 1..Len(b)
      PROVE  b[i] = c[i]
  <2> DEFINE j == i + (Len(a) - Len(b))
  <2>1. j \in 1..Len(a) /\ j + (Len(d) - Len(a)) = i + (Len(d) - Len(c))
    <3>1. i \in Nat /\ 1 <= i /\ i <= Len(b) /\ Len(c) \in Nat /\ Len(d) \in Nat
      BY <1>1, <1>4
    <3>2. j \in Int /\ 1 <= j /\ j <= Len(a)
      BY <1>4, <3>1
    <3>3. j + (Len(d) - Len(a)) = i + (Len(d) - Len(c))
      BY <1>4, <3>1
    <3> HIDE DEF j
    <3>4. QED BY <1>4, <3>2, <3>3
  <2>2. b[i] = a[j]
    BY <1>3
  <2> HIDE DEF j
  <2>3. a[j] = d[i + (Len(d) - Len(c))]
    BY <1>1, <2>1
  <2>4. QED BY <1>2, <1>4, <2>2, <2>3
<1>6. b = c
  BY <1>2, <1>3, <1>4, <1>5, SeqEqual
<1>7. QED BY <1>6 DEF a, b, c

LEMMA LastNNone ==
  ASSUME NEW S, NEW d \in Seq(S)
  PROVE  LastN(d, 0) = << >>
<1>1. LastN(d, 0) \in Seq(S) /\ Len(LastN(d, 0)) = 0
  BY LastNProperties
<1>2. QED BY <1>1

\* The end of a list after an append depends only on its end before.
LEMMA LastNAppend ==
  ASSUME NEW S, NEW d \in Seq(S), NEW e \in S, NEW m \in Nat, NEW n \in Nat \ {0}, n <= m + 1
  PROVE  LastN(Append(LastN(d, m), e), n) = LastN(Append(d, e), n)
<1> DEFINE a == LastN(d, m)
           b == Append(a, e)
           c == LastN(b, n)
           f == Append(d, e)
           g == LastN(f, n)
<1>1. /\ a \in Seq(S) /\ Len(d) \in Nat /\ n \in Nat /\ n > 0 /\ m \in Nat /\ n <= m + 1
      /\ Len(a) = IF Len(d) > m THEN m ELSE Len(d)
      /\ \A i \in 1..Len(a) : a[i] = d[i + (Len(d) - Len(a))]
  <2>1. n \in Nat /\ n > 0 /\ Len(d) \in Nat
    OBVIOUS
  <2>2. /\ LastN(d, m) \in Seq(S)
        /\ Len(LastN(d, m)) = IF Len(d) > m THEN m ELSE Len(d)
        /\ \A i \in 1..Len(LastN(d, m)) :
             /\ i + (Len(d) - Len(LastN(d, m))) \in 1..Len(d)
             /\ LastN(d, m)[i] = d[i + (Len(d) - Len(LastN(d, m)))]
    BY LastNProperties
  <2>3. QED BY <2>1, <2>2
<1>2. /\ f \in Seq(S) /\ Len(f) = Len(d) + 1
      /\ \A i \in 1..Len(d) : f[i] = d[i]
      /\ f[Len(d) + 1] = e
  OBVIOUS
<1> HIDE DEF a
<1>3. /\ b \in Seq(S) /\ Len(b) = Len(a) + 1
      /\ \A i \in 1..Len(a) : b[i] = a[i]
      /\ b[Len(a) + 1] = e
  BY <1>1
<1> HIDE DEF b, f
<1>4. /\ c \in Seq(S) /\ Len(c) = IF Len(b) > n THEN n ELSE Len(b)
      /\ \A i \in 1..Len(c) : c[i] = b[i + (Len(b) - Len(c))]
  <2>1. /\ LastN(b, n) \in Seq(S)
        /\ Len(LastN(b, n)) = IF Len(b) > n THEN n ELSE Len(b)
        /\ \A i \in 1..Len(LastN(b, n)) :
             /\ i + (Len(b) - Len(LastN(b, n))) \in 1..Len(b)
             /\ LastN(b, n)[i] = b[i + (Len(b) - Len(LastN(b, n)))]
    BY <1>1, <1>3, LastNProperties
  <2>2. QED BY <2>1
<1>5. /\ g \in Seq(S) /\ Len(g) = IF Len(f) > n THEN n ELSE Len(f)
      /\ \A i \in 1..Len(g) : g[i] = f[i + (Len(f) - Len(g))]
  <2>1. /\ LastN(f, n) \in Seq(S)
        /\ Len(LastN(f, n)) = IF Len(f) > n THEN n ELSE Len(f)
        /\ \A i \in 1..Len(LastN(f, n)) :
             /\ i + (Len(f) - Len(LastN(f, n))) \in 1..Len(f)
             /\ LastN(f, n)[i] = f[i + (Len(f) - Len(LastN(f, n)))]
    BY <1>1, <1>2, LastNProperties
  <2>2. QED BY <2>1
<1> HIDE DEF c, g
<1>6. Len(c) = Len(g) /\ Len(c) \in Nat /\ Len(c) > 0 /\ Len(c) <= Len(a) + 1 /\ Len(a) <= Len(d)
  BY <1>1, <1>2, <1>3, <1>4, <1>5
<1>7. ASSUME NEW i \in 1..Len(c)
      PROVE  c[i] = g[i]
  <2>1. CASE i = Len(c)
    <3>1. c[i] = e
      <4>1. i + (Len(b) - Len(c)) = Len(a) + 1
        BY <1>1, <1>3, <1>6, <2>1
      <4>2. QED BY <1>3, <1>4, <4>1
    <3>2. g[i] = e
      <4>1. i \in 1..Len(g) /\ i + (Len(f) - Len(g)) = Len(d) + 1
        BY <1>1, <1>2, <1>6, <2>1
      <4>2. QED BY <1>2, <1>5, <4>1
    <3>3. QED BY <3>1, <3>2
  <2>2. CASE i # Len(c)
    <3> DEFINE j == i + (Len(b) - Len(c))
               k == i + (Len(f) - Len(g))
    <3>1. j \in 1..Len(a) /\ i \in 1..Len(g) /\ k \in 1..Len(d) /\ j + (Len(d) - Len(a)) = k
      <4>1. /\ Len(a) \in Nat /\ Len(b) \in Nat /\ Len(c) \in Nat /\ Len(d) \in Nat
            /\ Len(b) = Len(a) + 1 /\ Len(f) = Len(d) + 1 /\ Len(g) = Len(c)
            /\ Len(a) <= Len(d) /\ Len(c) <= Len(a) + 1
        BY <1>1, <1>2, <1>3, <1>6
      <4>2. i \in Nat /\ 1 <= i /\ i < Len(c)
        BY <2>2, <4>1
      <4>3. j = i + (Len(a) + 1 - Len(c)) /\ k = i + (Len(d) + 1 - Len(c))
        BY <4>1
      <4>4. 1 <= j /\ j <= Len(a) /\ 1 <= k /\ k <= Len(d) /\ j \in Int /\ k \in Int
        BY <4>1, <4>2, <4>3
      <4>5. j + (Len(d) - Len(a)) = k
        BY <4>1, <4>2, <4>3
      <4> HIDE DEF j, k
      <4>6. QED BY <4>1, <4>4, <4>5
    <3>2. c[i] = b[j] /\ g[i] = f[k]
      BY <1>4, <1>5, <3>1
    <3> HIDE DEF j, k
    <3>3. c[i] = a[j] /\ a[j] = d[k] /\ g[i] = d[k]
      BY <1>1, <1>2, <1>3, <3>1, <3>2
    <3>4. QED BY <3>3
  <2>3. QED BY <2>1, <2>2
<1>8. c = g
  BY <1>4, <1>5, <1>6, <1>7, SeqEqual
<1>9. QED BY <1>8 DEF a, b, c, f, g

\* Memory and log agree on what is observed of them.
Mirrored ==
  /\ torn = (tail # "ended")
  /\ DiskMirrorsMemory

LEMMA MirrorGrows ==
  ASSUME TypeOK, Mirrored, MaxEntries > 0, ~ torn,
         NEW e \in EntryType, Store(e), WriteLine(e)
  PROVE  DiskMirrorsMemory'
<1> DEFINE m == mirrored
           n == IF mirrored < MaxEntries THEN mirrored + 1 ELSE mirrored
           all == Append(entries, e)
           lines == Append(disk, e)
<1>1. /\ m \in Nat /\ n \in Nat \ {0} /\ n <= m + 1 /\ m <= MaxEntries /\ n <= MaxEntries
      /\ MaxEntries \in Nat
  BY CacheAssumption DEF TypeOK
<1>2. entries \in Seq(EntryType) /\ disk \in Seq(EntryType)
  BY DEF TypeOK
<1>3. all \in Seq(EntryType) /\ lines \in Seq(EntryType)
  BY <1>2
<1>4. entries' = LastN(all, MaxEntries) /\ disk' = lines /\ mirrored' = n
  BY LogEffect DEF Store, Trim, WriteLine, Observe, Mirrored
<1>5. Replayed(disk') = LastN(lines, MaxEntries) /\ Replayed(disk) = LastN(disk, MaxEntries)
  BY <1>2, <1>3, <1>4, ReplayedProperties
<1>6. LastN(entries, m) = LastN(disk, m)
  BY <1>1, <1>2, <1>5, LastNLastN DEF Mirrored, DiskMirrorsMemory
<1> HIDE DEF m, n
<1>7. LastN(all, n) = LastN(lines, n)
  BY <1>1, <1>2, <1>6, LastNAppend
<1> HIDE DEF all, lines
<1>8. LastN(LastN(all, MaxEntries), n) = LastN(LastN(lines, MaxEntries), n)
  BY <1>1, <1>3, <1>7, LastNLastN
<1>9. QED BY <1>4, <1>5, <1>8 DEF DiskMirrorsMemory

\* semantic.py 246-264, 327-340 and the replay at start: the newest entries in
\* memory are the newest that a restart would replay, in the same order,
\* whatever was evicted before and after earlier restarts, and wherever in an
\* append a process died or an append raised.  What they are not bound to
\* share is counted by Observe: the record glued to a line that was left
\* without its newline, an entry whose append raised, what clear() drops.
\* With max_entries = 0 the replay brings back what was evicted.
THEOREM DiskMirrorsMemoryHolds ==
  ASSUME OnDisk, MaxEntries > 0
  PROVE  Spec => []DiskMirrorsMemory
<1>1. Init => Mirrored
  <2>1. SUFFICES ASSUME Init PROVE Mirrored
    OBVIOUS
  <2>2. Replayed(<< >>) = << >>
    BY CacheAssumption DEF Replayed, Newest, LastN
  <2>3. QED BY <2>1, <2>2 DEF Init, Mirrored, DiskMirrorsMemory
<1>2. ASSUME TypeOK, TypeOK', Mirrored, [Next]_vars
      PROVE  Mirrored'
  <2>1. ASSUME mirrored' = 0 PROVE DiskMirrorsMemory'
    <3>1. entries' \in Seq(EntryType) /\ Replayed(disk') \in Seq(EntryType)
      BY <1>2, ReplayedProperties DEF TypeOK
    <3>2. QED BY <2>1, <3>1, LastNNone DEF DiskMirrorsMemory
  <2>2. CASE UNCHANGED <<entries, index, disk, tail, torn, mirrored>>
    BY <1>2, <2>2 DEF Mirrored, DiskMirrorsMemory
  <2>3. CASE mirrored' = 0 /\ UNCHANGED <<disk, tail, torn>>
    BY <1>2, <2>1, <2>3 DEF Mirrored
  <2>4. CASE Restart
    <3>1. DiskMirrorsMemory'
      BY <2>4 DEF Restart, DiskMirrorsMemory
    <3>2. (torn = (tail # "ended"))'
      BY <1>2, <2>4 DEF Restart, DieWriting, TearLine, Mirrored
    <3>3. QED BY <3>1, <3>2 DEF Mirrored
  <2>5. ASSUME NEW q \in Requests, Store(Entry(q)), WriteLine(Entry(q))
        PROVE  Mirrored'
    <3>1. (torn = (tail # "ended"))'
      BY <2>5 DEF WriteLine, Observe
    <3>2. CASE torn
      BY <2>1, <2>5, <3>1, <3>2 DEF WriteLine, Observe, Mirrored
    <3>3. CASE ~ torn
      BY <1>2, <2>5, <3>1, <3>3, Questions, MirrorGrows DEF Mirrored
    <3>4. QED BY <1>2, <3>2, <3>3 DEF TypeOK
  <2>6. ASSUME NEW q \in Requests, mirrored' = 0, TearLine(Entry(q))
        PROVE  Mirrored'
    BY <2>1, <2>6 DEF TearLine, Mirrored
  <2>7. QED BY <1>2, <2>2, <2>3, <2>4, <2>5, <2>6, MemorySteps
<1>3. (TypeOK /\ Queues) /\ Mirrored /\ [Next]_vars => Mirrored'
  BY <1>2, StepTypes
<1>4. Mirrored => DiskMirrorsMemory
  BY DEF Mirrored
<1>5. QED BY <1>1, <1>3, <1>4, CacheTypes, PTL DEF Spec

-----------------------------------------------------------------------------
(* Answers.                                                                *)

\* What is asked does not change, and who has ended stays where it is.
LEMMA Ended ==
  ASSUME TypeOK, Queues, [Next]_vars
  PROVE  /\ config' = config /\ input' = input
         /\ \A p \in Requests : phase[p] \in Done => phase'[p] = phase[p]
<1>1. CASE Clear \/ Restart \/ UNCHANGED vars
  BY <1>1 DEF Clear, Restart, vars, asked, TypeOK, Waiting, Done
<1>2. ASSUME NEW q \in Requests, NEW ph, phase[q] \notin Done, phase' = [phase EXCEPT ![q] = ph]
      PROVE  \A p \in Requests : phase[p] \in Done => phase'[p] = phase[p]
  BY <1>2 DEF TypeOK
<1>3. ASSUME NEW q \in Requests, Ask(q) \/ Serve(q) \/ CancelQueued(q)
      PROVE  /\ config' = config /\ input' = input
             /\ phase[q] \notin Done
             /\ \E ph : phase' = [phase EXCEPT ![q] = ph]
  <2>1. CASE SimilarMiss(q)
    <3>1. \E ph : phase' = [phase EXCEPT ![q] = ph]
      BY <2>1, MissEffect
    <3>2. QED BY <2>1, <3>1 DEF SimilarMiss, asked, Done
  <2>2. CASE LockGranted(q)
    <3>1. \E ph : phase' = [phase EXCEPT ![q] = ph]
      BY <2>2, GrantEffect
    <3>2. QED BY <2>2, <3>1 DEF LockGranted, asked, Done
  <2>3. CASE Ask(q)
    BY <2>3 DEF Ask, Answer, asked, Done
  <2>4. CASE \E i \in DOMAIN entries : SimilarHit(q, i)
    BY <2>4 DEF SimilarHit, Answer, asked, Done
  <2>5. CASE CallReturns(q) \/ AppendFails(q)
    BY <2>5 DEF CallReturns, AppendFails, Answer, asked, Done
  <2>6. CASE CallFails(q) \/ EmbedFails(q) \/ CancelQueued(q)
    BY <2>6 DEF CallFails, EmbedFails, CancelQueued, asked, Done
  <2>7. QED BY <1>3, <2>1, <2>2, <2>3, <2>4, <2>5, <2>6 DEF Serve
<1>4. QED BY <1>1, <1>2, <1>3 DEF Next

\* a answers what q asked.
Answers(a, q) ==
  /\ a.config = config[q]
  /\ \/ KeyOf(a) = Key(q)
     \/ <<Text[input[q]], Text[a.input]>> \in Similar

LEMMA IndexAnswers ==
  ASSUME TypeOK, IndexMatchesEntries, NEW q \in Requests, index[Key(q)] # None
  PROVE  Answers(index[Key(q)], q)
<1>1. Key(q) \in Keys /\ Key(q)[1] = config[q]
  BY Questions DEF Key
<1>2. PICK i \in DOMAIN entries : KeyOf(entries[i]) = Key(q) /\ index[Key(q)] = entries[i]
  BY <1>1, IndexOfType DEF TypeOK, IndexMatchesEntries
<1>3. entries[i] \in EntryType
  BY DEF TypeOK
<1>4. QED BY <1>1, <1>2, <1>3, EntryKey DEF Answers

\* Who gets an answer gets one of its own.
LEMMA AnswerSteps ==
  ASSUME TypeOK, Queues, IndexMatchesEntries, [Next]_vars
  PROVE  \/ answer' = answer
         \/ \E q \in Requests : \E a : Answers(a, q) /\ answer' = [answer EXCEPT ![q] = a]
<1>1. CASE Clear \/ Restart \/ UNCHANGED vars
  BY <1>1 DEF Clear, Restart, vars
<1>2. ASSUME NEW q \in Requests, Ask(q) \/ Serve(q) \/ CancelQueued(q)
      PROVE  answer' = answer \/ \E a : Answers(a, q) /\ answer' = [answer EXCEPT ![q] = a]
  <2>1. CASE Ask(q)
    BY <2>1, IndexAnswers DEF Ask, Answer
  <2>2. CASE SimilarMiss(q)
    <3>1. \/ answer' = answer
          \/ index[Key(q)] # None /\ answer' = [answer EXCEPT ![q] = index[Key(q)]]
      BY <2>2, MissEffect
    <3>2. QED BY <3>1, IndexAnswers
  <2>3. CASE LockGranted(q)
    <3>1. \/ answer' = answer
          \/ index[Key(q)] # None /\ answer' = [answer EXCEPT ![q] = index[Key(q)]]
      BY <2>3, GrantEffect
    <3>2. QED BY <3>1, IndexAnswers
  <2>4. ASSUME NEW i \in DOMAIN entries, SimilarHit(q, i)
        PROVE  \E a : Answers(a, q) /\ answer' = [answer EXCEPT ![q] = a]
    <3>1. answer' = [answer EXCEPT ![q] = entries[i]] /\ Answers(entries[i], q)
      BY <2>4 DEF SimilarHit, Answer, Candidates, Answers
    <3>2. QED BY <3>1
  <2>5. CASE CallReturns(q)
    <3>1. answer' = [answer EXCEPT ![q] = Entry(q)]
      BY <2>5 DEF CallReturns, Answer
    <3>2. Answers(Entry(q), q)
      BY Questions DEF Answers, Entry
    <3>3. QED BY <3>1, <3>2
  <2>6. CASE AppendFails(q) \/ CallFails(q) \/ EmbedFails(q) \/ CancelQueued(q)
    BY <2>6 DEF AppendFails, CallFails, EmbedFails, CancelQueued
  <2>7. QED BY <1>2, <2>1, <2>2, <2>3, <2>4, <2>5, <2>6 DEF Serve
<1>3. QED BY <1>1, <1>2 DEF Next

LEMMA AnswersStay ==
  ASSUME TypeOK, Queues, IndexMatchesEntries, RightAnswer, [Next]_vars
  PROVE  RightAnswer'
<1>1. config' = config /\ input' = input
  BY Ended
<1>2. ASSUME NEW p \in Requests, NEW a, Answers(a, p)
      PROVE  Answers(a, p)'
  BY <1>1, <1>2 DEF Answers, Key
<1>3. \A p \in Requests : answer[p] # None => Answers(answer[p], p)
  BY DEF RightAnswer, Answers
<1>4. ASSUME NEW p \in Requests, answer'[p] # None
      PROVE  Answers(answer'[p], p)
  <2>1. CASE answer' = answer
    BY <1>3, <1>4, <2>1
  <2>2. ASSUME NEW q \in Requests, NEW a, Answers(a, q), answer' = [answer EXCEPT ![q] = a]
        PROVE  Answers(answer'[p], p)
    <3>1. answer'[p] = IF p = q THEN a ELSE answer[p]
      BY <2>2 DEF TypeOK
    <3>2. QED BY <1>3, <1>4, <2>2, <3>1
  <2>3. QED BY <2>1, <2>2, AnswerSteps
<1>5. ASSUME NEW p \in Requests, answer'[p] # None
      PROVE  /\ answer'[p].config = config'[p]
             /\ \/ KeyOf(answer'[p]) = Key(p)'
                \/ <<Text[input'[p]], Text[answer'[p].input]>> \in Similar
  BY <1>1, <1>4, <1>5 DEF Answers, Key
<1>6. QED BY <1>5 DEF RightAnswer, KeyOf

\* semantic.py 166-232, "Audit finding F": whatever is stored or evicted while
\* a request waits, it is served an entry of its own call whose inputs are equal
\* in text to its own or similar to them.
THEOREM RightAnswerHolds == Spec => []RightAnswer
<1>1. Init => RightAnswer
  BY DEF Init, RightAnswer
<1>2. (TypeOK /\ Queues) /\ IndexMatchesEntries /\ RightAnswer /\ [Next]_vars => RightAnswer'
  BY AnswersStay
<1>3. QED BY <1>1, <1>2, CacheTypes, IndexMatchesEntriesHolds, PTL DEF Spec

-----------------------------------------------------------------------------
(* Which calls are shared.                                                 *)

\* Every entry was stored by the request it names, at the end of its call, or
\* was on its way to the log when the process died.
Signed(es) ==
  \A i \in DOMAIN es :
    /\ es[i] = Entry(es[i].by)
    /\ phase[es[i].by] \in {"called", "failed", "lost"}

Provenance == Signed(entries) /\ Signed(disk)

Called(k) == \E r \in Requests : phase[r] = "called" /\ Key(r) = k

\* Why two requests may make the call k.
Excused(k) ==
  \E r \in Requests :
    /\ Key(r) = k
    /\ \/ phase[r] \in {"failed", "lost"}
       \/ phase[r] = "called" /\ Evicted(r)

\* All who want k queue for the one lock that is in the dict, until the call
\* has returned; then nobody is inside it, and those in a queue find its entry.
OneQueue(k) ==
  \A q \in Requests : Key(q) = k /\ phase[q] \in Held =>
    IF Called(k) THEN phase[q] = "queued" ELSE lock[q] = inFlight[k]

Sharing == \A k \in Keys : Excused(k) \/ OneQueue(k)

LEMMA EntryStays ==
  ASSUME config' = config, input' = input
  PROVE  /\ \A q : Entry(q)' = Entry(q)
         /\ \A q : Key(q)' = Key(q)
BY DEF Entry, Key

LEMMA SignedStays ==
  ASSUME TypeOK, Queues, [Next]_vars, NEW es \in Seq(EntryType), Signed(es)
  PROVE  \A i \in DOMAIN es :
           es[i] = Entry(es[i].by) /\ phase'[es[i].by] \in {"called", "failed", "lost"}
<1>1. \A i \in DOMAIN es : es[i].by \in Requests
  BY EntryKey
<1>2. QED BY <1>1, Ended DEF Signed, Done

LEMMA StoredIsSigned ==
  ASSUME TypeOK, Queues, NEW q \in Requests,
         CallReturns(q) \/ AppendFails(q) \/ (Restart /\ DieWriting(q))
  PROVE  /\ Entry(q).by = q
         /\ phase'[q] \in {"called", "failed", "lost"}
<1>1. CASE CallReturns(q) \/ AppendFails(q)
  <2>1. phase' = [phase EXCEPT ![q] = "called"] \/ phase' = [phase EXCEPT ![q] = "failed"]
    BY <1>1 DEF CallReturns, AppendFails, Answer
  <2>2. QED BY <2>1, Questions DEF TypeOK
<1>2. CASE Restart /\ DieWriting(q)
  BY <1>2, Questions DEF Restart, DieWriting, Waiting
<1>3. QED BY <1>1, <1>2

LEMMA ProvenanceStays ==
  ASSUME TypeOK, Queues, Provenance, [Next]_vars
  PROVE  Provenance'
<1> DEFINE Good(e) == e = Entry(e.by) /\ phase'[e.by] \in {"called", "failed", "lost"}
<1>1. (\A i \in DOMAIN entries : Good(entries[i])) /\ (\A i \in DOMAIN disk : Good(disk[i]))
  BY SignedStays DEF Provenance, TypeOK
<1> SUFFICES (\A i \in DOMAIN entries' : Good(entries'[i])) /\ (\A i \in DOMAIN disk' : Good(disk'[i]))
  BY Ended DEF Provenance, Signed, Entry
<1>2. ASSUME NEW q \in Requests, CallReturns(q) \/ AppendFails(q)
      PROVE  (\A i \in DOMAIN entries' : Good(entries'[i])) /\ (\A i \in DOMAIN disk' : Good(disk'[i]))
  <2>1. Good(Entry(q)) /\ Entry(q) \in EntryType
    BY <1>2, StoredIsSigned, Questions
  <2>2. Store(Entry(q)) /\ (disk' = disk \/ disk' = Glued \/ disk' = Appended(Entry(q)))
    BY <1>2 DEF CallReturns, AppendFails, WriteLine, TearLine, log
  <2> HIDE DEF Good
  <2>3. \A i \in DOMAIN entries' : Good(entries'[i])
    BY <1>1, <2>1, <2>2, StoreEffect
  <2>4. \A i \in DOMAIN disk' : Good(disk'[i])
    <3>1. CASE disk' = Glued
      <4>1. \A i \in DOMAIN disk' : \E j \in DOMAIN disk : disk'[i] = disk[j]
        BY <2>1, <3>1, LogEffect
      <4>2. QED BY <1>1, <4>1
    <3>2. CASE disk' = Appended(Entry(q))
      <4>1. \A i \in DOMAIN disk' : disk'[i] = Entry(q) \/ \E j \in DOMAIN disk : disk'[i] = disk[j]
        BY <2>1, <3>2, LogEffect
      <4>2. QED BY <1>1, <2>1, <4>1
    <3>3. QED BY <1>1, <2>2, <3>1, <3>2
  <2>5. QED BY <2>3, <2>4
<1>3. CASE Restart
  <2>1. entries' = Replayed(disk') /\ disk' \in Seq(EntryType)
    BY <1>3, RestartTypes DEF Restart, TypeOK
  <2>2. ASSUME NEW q \in Requests, DieWriting(q)
        PROVE  \A i \in DOMAIN disk' : Good(disk'[i])
    <3>1. Good(Entry(q)) /\ Entry(q) \in EntryType
      BY <1>3, <2>2, StoredIsSigned, Questions
    <3>2. disk' = Glued \/ disk' = Appended(Entry(q))
      BY <2>2 DEF DieWriting, TearLine
    <3> HIDE DEF Good
    <3>3. QED BY <1>1, <3>1, <3>2, LogEffect
  <2> HIDE DEF Good
  <2>3. \A i \in DOMAIN disk' : Good(disk'[i])
    <3>1. disk' = disk \/ \E q \in Requests : DieWriting(q)
      BY <1>3 DEF Restart
    <3>2. QED BY <1>1, <2>2, <3>1
  <2>4. QED BY <2>1, <2>3, ReplayedProperties
<1>4. CASE Clear
  BY <1>1, <1>4 DEF Clear
<1>5. CASE UNCHANGED <<entries, disk>>
  BY <1>1, <1>5
<1>6. QED
  <2>1. ASSUME NEW q \in Requests, Ask(q) \/ Serve(q) \/ CancelQueued(q)
        PROVE  CallReturns(q) \/ AppendFails(q) \/ UNCHANGED <<entries, disk>>
    BY <2>1 DEF Serve, Ask, SimilarMiss, SimilarHit, LockGranted, CallFails, CancelQueued,
                EmbedFails, memory, log
  <2>2. UNCHANGED vars => UNCHANGED <<entries, disk>>
    BY DEF vars, memory, log
  <2> HIDE DEF Good
  <2>3. QED BY <1>2, <1>3, <1>4, <1>5, <2>1, <2>2 DEF Next

\* An entry under k was stored by a request for k ...
LEMMA IndexedWasCalled ==
  ASSUME TypeOK, IndexMatchesEntries, Provenance, NEW k \in Keys, index[k] # None
  PROVE  Excused(k) \/ Called(k)
<1>1. PICK i \in DOMAIN entries : KeyOf(entries[i]) = k
  BY IndexOfType DEF TypeOK, IndexMatchesEntries
<1>2. entries[i] \in EntryType
  BY DEF TypeOK
<1>3. PICK r \in Requests : entries[i] = Entry(r) /\ phase[r] \in {"called", "failed", "lost"}
  BY <1>2, EntryKey DEF Provenance, Signed
<1>4. Key(r) = k
  BY <1>1, <1>3, Questions
<1>5. QED BY <1>3, <1>4 DEF Excused, Called

\* ... and is there until it is evicted.
LEMMA CalledIsIndexed ==
  ASSUME TypeOK, IndexMatchesEntries, Provenance, NEW k \in Keys, Called(k), ~ Excused(k)
  PROVE  index[k] # None
<1>1. PICK r \in Requests : phase[r] = "called" /\ Key(r) = k
  BY DEF Called
<1>2. PICK i \in DOMAIN entries : entries[i].by = r
  BY <1>1 DEF Excused, Evicted
<1>3. KeyOf(entries[i]) = k
  BY <1>1, <1>2, Questions DEF Provenance, Signed
<1>4. QED BY <1>3, IndexOfType DEF TypeOK, IndexMatchesEntries

\* An excuse lasts as long as the process.
LEMMA ExcusedStays ==
  ASSUME TypeOK, Queues, Provenance, [Next]_vars, ~ Restart, NEW k \in Keys, Excused(k)
  PROVE  Excused(k)'
<1>1. PICK r \in Requests :
        /\ Key(r) = k
        /\ phase[r] \in {"failed", "lost"} \/ (phase[r] = "called" /\ Evicted(r))
  BY DEF Excused
<1>2. Key(r)' = k /\ phase'[r] = phase[r]
  BY <1>1, Ended, EntryStays DEF Done
<1>3. ASSUME phase[r] = "called", Evicted(r)
      PROVE  Evicted(r)'
  <2>1. ASSUME NEW q \in Requests, CallReturns(q) \/ AppendFails(q)
        PROVE  Evicted(r)'
    <3>1. q # r /\ Store(Entry(q)) /\ Entry(q) \in EntryType /\ Entry(q).by = q
      BY <1>3, <2>1, Questions DEF CallReturns, AppendFails
    <3>2. \A i \in DOMAIN entries' : entries'[i].by # r
      BY <1>3, <3>1, StoreEffect DEF Evicted
    <3>3. QED BY <3>2 DEF Evicted
  <2>2. CASE Clear
    BY <2>2 DEF Clear, Evicted
  <2>3. ASSUME NEW q \in Requests, Ask(q) \/ Serve(q) \/ CancelQueued(q)
        PROVE  CallReturns(q) \/ AppendFails(q) \/ UNCHANGED entries
    BY <2>3 DEF Serve, Ask, SimilarMiss, SimilarHit, LockGranted, CallFails, CancelQueued,
                EmbedFails, memory
  <2>4. UNCHANGED vars => UNCHANGED entries
    BY DEF vars, memory
  <2>5. UNCHANGED entries => Evicted(r)'
    BY <1>3 DEF Evicted
  <2>6. QED BY <2>1, <2>2, <2>3, <2>4, <2>5 DEF Next
<1>4. QED BY <1>1, <1>2, <1>3 DEF Excused

\* With one queue there is one caller.
LEMMA OneCaller ==
  ASSUME TypeOK, Queues, NEW k \in Keys, OneQueue(k),
         NEW p \in Requests, NEW q \in Requests,
         Key(p) = k, Key(q) = k, phase[p] = "calling", phase[q] = "calling"
  PROVE  p = q
<1>1. ~ Called(k) /\ lock[p] = inFlight[k] /\ lock[q] = inFlight[k]
  BY DEF OneQueue, Held
<1>2. lock[p] \in Locks /\ lock[q] \in Locks
  BY DEF Queues, Held
<1>3. PICK i \in DOMAIN queue[lock[p]] : queue[lock[p]][i] = p
  BY DEF Queues, Held
<1>4. PICK j \in DOMAIN queue[lock[p]] : queue[lock[p]][j] = q
  BY <1>1 DEF Queues, Held
<1>5. i = 1 /\ j = 1
  BY <1>2, <1>3, <1>4 DEF Queues
<1>6. QED BY <1>3, <1>4, <1>5

\* A step of q that neither takes a place in a queue for k nor ends a call.
LEMMA OneQueueStays ==
  ASSUME TypeOK, config' = config, input' = input,
         NEW k \in Keys, OneQueue(k), inFlight'[k] = inFlight[k],
         NEW q \in Requests, NEW ph, phase' = [phase EXCEPT ![q] = ph],
         \A p \in Requests : p # q => lock'[p] = lock[p],
         Key(q) = k => phase[q] # "called" /\ ph \notin Held \cup {"called"}
  PROVE  OneQueue(k)'
<1>1. \A p \in Requests : p # q => phase'[p] = phase[p]
  BY DEF TypeOK
<1>2. phase'[q] = ph
  BY DEF TypeOK
<1>3. \A p \in Requests : Key(p)' = Key(p)
  BY EntryStays
<1>4. Called(k)' <=> Called(k)
  <2>1. \A r \in Requests : Key(r) = k => (phase'[r] = "called" <=> phase[r] = "called")
    BY <1>1, <1>2
  <2>2. QED BY <1>3, <2>1 DEF Called
<1>5. ASSUME NEW p \in Requests, Key(p) = k, phase'[p] \in Held
      PROVE  IF Called(k) THEN phase'[p] = "queued" ELSE lock'[p] = inFlight'[k]
  <2>1. p # q
    BY <1>2, <1>5
  <2>2. QED BY <1>1, <1>5, <2>1 DEF OneQueue
<1>6. QED BY <1>3, <1>4, <1>5 DEF OneQueue

\* A request goes with an entry of its key: the call had returned.
LEMMA OneQueueHit ==
  ASSUME TypeOK, config' = config, input' = input,
         NEW k \in Keys, OneQueue(k), Called(k),
         NEW q \in Requests, Key(q) = k, phase[q] # "called",
         phase' = [phase EXCEPT ![q] = "hit"]
  PROVE  OneQueue(k)'
<1>1. \A p \in Requests : p # q => phase'[p] = phase[p]
  BY DEF TypeOK
<1>2. phase'[q] = "hit" /\ "hit" \notin Held
  BY DEF TypeOK, Held
<1>3. \A p \in Requests : Key(p)' = Key(p)
  BY EntryStays
<1>4. Called(k)'
  <2>1. PICK r \in Requests : phase[r] = "called" /\ Key(r) = k
    BY DEF Called
  <2>2. phase'[r] = "called" /\ Key(r)' = k
    BY <1>1, <1>3, <2>1
  <2>3. QED BY <2>2 DEF Called
<1>5. ASSUME NEW p \in Requests, Key(p) = k, phase'[p] \in Held
      PROVE  phase'[p] = "queued"
  <2>1. p # q
    BY <1>2, <1>5
  <2>2. QED BY <1>1, <1>5, <2>1 DEF OneQueue
<1>6. QED BY <1>3, <1>4, <1>5 DEF OneQueue

\* A request takes a place with the lock of its key; it calls only if nobody
\* has called.
LEMMA OneQueueGrows ==
  ASSUME TypeOK, Queues, config' = config, input' = input,
         NEW k \in Keys, OneQueue(k),
         NEW q \in Requests, Key(q) = k, phase[q] # "called", NEW ph \in Held,
         Called(k) => ph = "queued",
         phase' = [phase EXCEPT ![q] = ph],
         \A p \in Requests : p # q => lock'[p] = lock[p],
         inFlight[k] # None => inFlight'[k] = inFlight[k],
         ~ Called(k) => lock'[q] = inFlight'[k]
  PROVE  OneQueue(k)'
<1>1. \A p \in Requests : p # q => phase'[p] = phase[p]
  BY DEF TypeOK
<1>2. phase'[q] = ph /\ ph # "called"
  BY DEF TypeOK, Held
<1>3. \A p \in Requests : Key(p)' = Key(p)
  BY EntryStays
<1>4. Called(k)' <=> Called(k)
  <2>1. \A r \in Requests : phase'[r] = "called" <=> phase[r] = "called"
    BY <1>1, <1>2
  <2>2. QED BY <1>3, <2>1 DEF Called
<1>5. ASSUME NEW p \in Requests, Key(p) = k, phase'[p] \in Held
      PROVE  IF Called(k) THEN phase'[p] = "queued" ELSE lock'[p] = inFlight'[k]
  <2>1. CASE p = q
    BY <1>2, <2>1
  <2>2. CASE p # q
    <3>1. phase[p] \in Held /\ phase'[p] = phase[p] /\ lock'[p] = lock[p]
      BY <1>1, <1>5, <2>2
    <3>2. lock[p] \in Locks /\ lock[p] # None
      BY <3>1, CacheAssumption DEF Queues, Locks, Requests
    <3>3. QED BY <1>5, <3>1, <3>2 DEF OneQueue
  <2>3. QED BY <2>1, <2>2
<1>6. QED BY <1>3, <1>4, <1>5 DEF OneQueue

\* The one call returns.
LEMMA OneQueueCalled ==
  ASSUME TypeOK, Queues, config' = config, input' = input,
         NEW k \in Keys, OneQueue(k),
         NEW q \in Requests, Key(q) = k, phase[q] = "calling",
         phase' = [phase EXCEPT ![q] = "called"]
  PROVE  OneQueue(k)'
<1>1. \A p \in Requests : p # q => phase'[p] = phase[p]
  BY DEF TypeOK
<1>2. phase'[q] = "called" /\ "called" \notin Held
  BY DEF TypeOK, Held
<1>3. \A p \in Requests : Key(p)' = Key(p)
  BY EntryStays
<1>4. Called(k)'
  BY <1>2, <1>3 DEF Called
<1>5. ASSUME NEW p \in Requests, Key(p) = k, phase'[p] \in Held
      PROVE  phase'[p] = "queued"
  <2>1. p # q /\ phase'[p] = phase[p]
    BY <1>1, <1>2, <1>5
  <2>2. phase[p] # "calling"
    BY <1>5, <2>1, OneCaller
  <2>3. QED BY <1>5, <2>1, <2>2 DEF Held
<1>6. QED BY <1>3, <1>4, <1>5 DEF OneQueue

\* A request that fails excuses its key.
LEMMA FailureExcuses ==
  ASSUME TypeOK, config' = config, input' = input,
         NEW k \in Keys, NEW q \in Requests, Key(q) = k,
         phase' = [phase EXCEPT ![q] = "failed"]
  PROVE  Excused(k)'
<1>1. phase'[q] = "failed" /\ Key(q)' = k
  BY EntryStays DEF TypeOK
<1>2. QED BY <1>1 DEF Excused

LEMMA SharingMiss ==
  ASSUME TypeOK, Queues, IndexMatchesEntries, Provenance, NEW k \in Keys,
         ~ Excused(k), OneQueue(k), NEW q \in Requests, SimilarMiss(q)
  PROVE  OneQueue(k)'
<1>1. phase[q] = "embedding" /\ config' = config /\ input' = input
  BY DEF SimilarMiss, asked
<1>2. PICK l \in Locks, ph \in {"hit", "calling", "queued"} :
        /\ l = IF inFlight[Key(q)] = None THEN q ELSE inFlight[Key(q)]
        /\ lock' = [lock EXCEPT ![q] = l]
        /\ phase' = [phase EXCEPT ![q] = ph]
        /\ ph = "hit" => index[Key(q)] # None /\ inFlight' = [inFlight EXCEPT ![Key(q)] = None]
        /\ ph # "hit" => inFlight' = [inFlight EXCEPT ![Key(q)] = l]
        /\ ph = "calling" => index[Key(q)] = None
  BY MissEffect
<1>3. lock'[q] = l /\ \A p \in Requests : p # q => lock'[p] = lock[p]
  BY <1>2 DEF TypeOK
<1>4. Key(q) \in Keys /\ inFlight \in [Keys -> Locks \cup {None}]
  BY Questions DEF TypeOK
<1>5. CASE Key(q) # k
  <2>1. inFlight'[k] = inFlight[k]
    BY <1>2, <1>4, <1>5
  <2>2. QED BY <1>1, <1>2, <1>3, <1>5, <2>1, OneQueueStays
<1>6. CASE Key(q) = k /\ ph = "hit"
  <2>1. Called(k)
    BY <1>2, <1>6, IndexedWasCalled
  <2>2. QED BY <1>1, <1>2, <1>6, <2>1, OneQueueHit
<1>7. CASE Key(q) = k /\ ph # "hit"
  <2>1. inFlight'[k] = l /\ (inFlight[k] # None => inFlight'[k] = inFlight[k])
    BY <1>2, <1>4, <1>7
  <2>2. Called(k) => ph = "queued"
    BY <1>2, <1>7, CalledIsIndexed
  <2>3. ph \in Held
    BY <1>7 DEF Held
  <2>4. QED BY <1>1, <1>2, <1>3, <1>7, <2>1, <2>2, <2>3, OneQueueGrows
<1>8. QED BY <1>5, <1>6, <1>7

LEMMA SharingGrant ==
  ASSUME TypeOK, Queues, IndexMatchesEntries, Provenance, NEW k \in Keys,
         ~ Excused(k), OneQueue(k), NEW q \in Requests, LockGranted(q)
  PROVE  OneQueue(k)'
<1>1. config' = config /\ input' = input
  BY DEF LockGranted, asked
<1>2. PICK ph \in {"hit", "calling"} :
        /\ phase' = [phase EXCEPT ![q] = ph]
        /\ ph = "hit" => index[Key(q)] # None /\ inFlight' = [inFlight EXCEPT ![Key(q)] = None]
        /\ ph = "calling" => index[Key(q)] = None /\ inFlight' = inFlight
  BY GrantEffect
<1>3. phase[q] = "queued" /\ lock' = lock
  BY GrantEffect
<1>4. Key(q) \in Keys /\ inFlight \in [Keys -> Locks \cup {None}]
  BY Questions DEF TypeOK
<1>5. CASE Key(q) # k
  <2>1. inFlight'[k] = inFlight[k]
    BY <1>2, <1>4, <1>5
  <2>2. QED BY <1>1, <1>2, <1>3, <1>5, <2>1, OneQueueStays
<1>6. CASE Key(q) = k /\ ph = "hit"
  <2>1. Called(k)
    BY <1>2, <1>6, IndexedWasCalled
  <2>2. QED BY <1>1, <1>2, <1>3, <1>6, <2>1, OneQueueHit
<1>7. CASE Key(q) = k /\ ph = "calling"
  <2>1. ~ Called(k)
    BY <1>2, <1>7, CalledIsIndexed
  <2>2. lock[q] = inFlight[k] /\ inFlight' = inFlight
    BY <1>2, <1>3, <1>7, <2>1 DEF OneQueue, Held
  <2>3. ph \in Held
    BY <1>7 DEF Held
  <2>4. QED BY <1>1, <1>2, <1>3, <1>7, <2>1, <2>2, <2>3, OneQueueGrows
<1>8. QED BY <1>2, <1>5, <1>6, <1>7

LEMMA SharingReturn ==
  ASSUME TypeOK, Queues, NEW k \in Keys, OneQueue(k), NEW q \in Requests, CallReturns(q)
  PROVE  OneQueue(k)'
<1>1. /\ phase[q] = "calling" /\ config' = config /\ input' = input
      /\ phase' = [phase EXCEPT ![q] = "called"]
      /\ Leave(q)
  BY DEF CallReturns, asked, Answer
<1>2. lock' = lock /\ inFlight' = [inFlight EXCEPT ![Key(q)] = None]
  BY <1>1, LeaveEffect DEF Held
<1>3. Key(q) \in Keys /\ inFlight \in [Keys -> Locks \cup {None}]
  BY Questions DEF TypeOK
<1>4. CASE Key(q) # k
  <2>1. inFlight'[k] = inFlight[k]
    BY <1>2, <1>3, <1>4
  <2>2. QED BY <1>1, <1>2, <1>4, <2>1, OneQueueStays
<1>5. CASE Key(q) = k
  BY <1>1, <1>5, OneQueueCalled
<1>6. QED BY <1>4, <1>5

LEMMA SharingFails ==
  ASSUME TypeOK, Queues, NEW k \in Keys, OneQueue(k), NEW q \in Requests,
         AppendFails(q) \/ CallFails(q) \/ CancelQueued(q) \/ EmbedFails(q)
  PROVE  Excused(k)' \/ OneQueue(k)'
<1>1. /\ config' = config /\ input' = input
      /\ phase' = [phase EXCEPT ![q] = "failed"]
  BY DEF AppendFails, CallFails, CancelQueued, EmbedFails, asked
<1>2. lock' = lock /\ (inFlight' = inFlight \/ inFlight' = [inFlight EXCEPT ![Key(q)] = None])
  BY LeaveEffect DEF AppendFails, CallFails, CancelQueued, EmbedFails, locks, Held
<1>3. Key(q) \in Keys /\ inFlight \in [Keys -> Locks \cup {None}]
  BY Questions DEF TypeOK
<1>4. CASE Key(q) # k
  <2>1. inFlight'[k] = inFlight[k]
    BY <1>2, <1>3, <1>4
  <2>2. QED BY <1>1, <1>2, <1>4, <2>1, OneQueueStays
<1>5. CASE Key(q) = k
  BY <1>1, <1>5, FailureExcuses
<1>6. QED BY <1>4, <1>5

LEMMA SharingElse ==
  ASSUME TypeOK, Queues, NEW k \in Keys, OneQueue(k), NEW q \in Requests,
         Ask(q) \/ \E i \in DOMAIN entries : SimilarHit(q, i)
  PROVE  OneQueue(k)'
<1>1. /\ config' = config /\ input' = input /\ lock' = lock /\ inFlight' = inFlight
      /\ phase[q] \in {"idle", "embedding"}
      /\ \E ph \in {"hit", "embedding"} : phase' = [phase EXCEPT ![q] = ph]
  BY DEF Ask, SimilarHit, Answer, asked, locks
<1>2. PICK ph \in {"hit", "embedding"} : phase' = [phase EXCEPT ![q] = ph]
  BY <1>1
<1>3. ph \notin Held \cup {"called"} /\ phase[q] # "called"
  BY <1>1 DEF Held
<1>4. QED BY <1>1, <1>2, <1>3, OneQueueStays

LEMMA SharingStays ==
  ASSUME ~ MayClear, TypeOK, Queues, IndexMatchesEntries, Provenance, Sharing, [Next]_vars
  PROVE  Sharing'
<1> SUFFICES ASSUME NEW k \in Keys, ~ Excused(k)'
             PROVE  OneQueue(k)'
  BY DEF Sharing
<1>1. CASE Restart
  <2>1. \A q \in Requests : phase'[q] \notin Held
    BY <1>1 DEF Restart, Waiting, Held, TypeOK
  <2>2. QED BY <2>1 DEF OneQueue
<1>2. CASE ~ Restart
  <2>1. ~ Excused(k)
    BY <1>2, ExcusedStays
  <2>2. OneQueue(k)
    BY <2>1 DEF Sharing
  <2>3. ASSUME NEW q \in Requests, Ask(q) \/ Serve(q) \/ CancelQueued(q)
        PROVE  OneQueue(k)'
    <3>1. CASE SimilarMiss(q)
      BY <2>1, <2>2, <3>1, SharingMiss
    <3>2. CASE LockGranted(q)
      BY <2>1, <2>2, <3>2, SharingGrant
    <3>3. CASE CallReturns(q)
      BY <2>2, <3>3, SharingReturn
    <3>4. CASE AppendFails(q) \/ CallFails(q) \/ CancelQueued(q) \/ EmbedFails(q)
      BY <2>2, <3>4, SharingFails
    <3>5. CASE Ask(q) \/ \E i \in DOMAIN entries : SimilarHit(q, i)
      BY <2>2, <3>5, SharingElse
    <3>6. QED BY <2>3, <3>1, <3>2, <3>3, <3>4, <3>5 DEF Serve
  <2>4. CASE UNCHANGED vars
    <3>1. UNCHANGED <<phase, config, input, lock, inFlight>>
      BY <2>4 DEF vars, locks, asked
    <3>2. QED BY <2>2, <3>1 DEF OneQueue, Called, Key
  <2>5. ~ Clear
    BY DEF Clear
  <2>6. QED BY <1>2, <2>3, <2>4, <2>5 DEF Next
<1>3. QED BY <1>1, <1>2

\* semantic.py 209-275: requests for one key are inside their LLM call at the
\* same time only when one for that key has failed, or was lost in a crash, or
\* its answer has been evicted.  The argument is in Sharing: until then all of
\* them queue for one lock.  clear() empties the dict of locks under a call.
THEOREM CallsAreSharedHolds ==
  ASSUME ~ MayClear
  PROVE  Spec => []CallsAreShared
<1>1. Init => Provenance /\ Sharing
  <2>1. SUFFICES ASSUME Init PROVE Provenance /\ Sharing
    OBVIOUS
  <2>2. \A q \in Requests : phase[q] \notin Held
    BY <2>1 DEF Init, Held
  <2>3. QED BY <2>1, <2>2 DEF Init, Provenance, Signed, Sharing, OneQueue
<1>2. (TypeOK /\ Queues) /\ Provenance /\ [Next]_vars => Provenance'
  BY ProvenanceStays
<1>3. (TypeOK /\ Queues) /\ IndexMatchesEntries /\ Provenance /\ Sharing /\ [Next]_vars
        => Sharing'
  BY SharingStays
<1>4. (TypeOK /\ Queues) /\ Sharing => CallsAreShared
  <2> SUFFICES ASSUME TypeOK, Queues, Sharing, NEW p \in Requests, NEW q \in Requests,
                      phase[p] = "calling", phase[q] = "calling", Key(p) = Key(q), p # q
               PROVE  Excused(Key(p))
    BY DEF CallsAreShared, Excused
  <2>1. Key(p) \in Keys
    BY Questions
  <2>2. QED BY <2>1, OneCaller DEF Sharing
<1>5. QED BY <1>1, <1>2, <1>3, <1>4, CacheTypes, IndexMatchesEntriesHolds, PTL DEF Spec
=============================================================================
