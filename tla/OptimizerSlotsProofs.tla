------------------------ MODULE OptimizerSlotsProofs ------------------------
(***************************************************************************)
(* Theorems about the optimizers, about the calls that they pay for, and   *)
(* about the files in which trials and calls are recorded, on the slots of *)
(* ProgramSlots, for every value of the constants that satisfies           *)
(* ConstantsAssumption.  Each section is about one component and begins    *)
(* with what the slots are in it; X!Name is the definition Name of the     *)
(* module that the section names.                                          *)
(***************************************************************************)
EXTENDS ProgramSlots, FiniteSetTheorems, SequenceTheorems, NaturalsInduction,
        WellFoundedInduction, TLAPS

\* What an instance means by Cardinality is what the library does.
LEMMA CallsCounts == \A S : Calls!Cardinality(S) = Cardinality(S)
BY DEF Calls!Cardinality, Cardinality
LEMMA DrawsCounts == \A S : Draws!Cardinality(S) = Cardinality(S) /\ Draws!IsFiniteSet(S) = IsFiniteSet(S)
BY DEF Draws!Cardinality, Cardinality, Draws!IsFiniteSet, IsFiniteSet
LEMMA TrialsCounts == \A S : Trials!Cardinality(S) = Cardinality(S)
BY DEF Trials!Cardinality, Cardinality

-----------------------------------------------------------------------------
(* Numbers: the first of the highest                                       *)

\* The first of the highest of finitely many numbers exists.
FirstHighestOf(f, T, k) ==
  k \in T /\ \A j \in T : f[j] < f[k] \/ (f[j] = f[k] /\ k <= j)

LEMMA FirstHighestOfExists ==
  ASSUME NEW n \in Nat, NEW T, T \subseteq 1..n, T # {}, NEW f, \A k \in T : f[k] \in Int
  PROVE  \E k : FirstHighestOf(f, T, k)
<1> DEFINE Without(m, U) == U \subseteq 1..m /\ U \subseteq T /\ U # {} /\ ~ \E k : FirstHighestOf(f, U, k)
<1> DEFINE Bad == {m \in Nat : \E U : Without(m, U)}
<1> SUFFICES ASSUME Bad # {} PROVE FALSE
  <2>1. ~(\E k : FirstHighestOf(f, T, k)) => n \in Bad
    OBVIOUS
  <2> QED BY <2>1
<1>1. PICK m \in Bad : \A y \in Bad : m <= y
  <2> DEFINE R == OpToRel(<, Nat)
  <2>1. Bad \subseteq Nat
    OBVIOUS
  <2> HIDE DEF Bad
  <2>2. PICK x \in Bad : \A y \in Bad : ~ (<<y, x>> \in R)
    BY <2>1, NatLessThanWellFounded, WFMin
  <2>3. \A y \in Bad : ~ (y < x)
    BY <2>1, <2>2 DEF OpToRel
  <2> HIDE DEF R
  <2> QED BY <2>1, <2>3
<1>2. PICK U : Without(m, U)
  BY <1>1
<1>3. m \in Nat /\ U \subseteq 1..m /\ U # {} /\ \A k \in U : f[k] \in Int
  BY <1>1, <1>2
<1>4. m # 0
  BY <1>3
<1>5. m - 1 \in Nat /\ m - 1 \notin Bad
  BY <1>1, <1>3, <1>4
<1>6. \A V : ~Without(m - 1, V)
  BY <1>5
<1>7. CASE U \subseteq {m}
  <2>1. U = {m}
    BY <1>3, <1>7
  <2>2. f[m] \in Int
    BY <1>3, <2>1
  <2>3. FirstHighestOf(f, U, m)
    BY <1>3, <2>1, <2>2 DEF FirstHighestOf
  <2> QED BY <1>2, <2>3
<1>8. CASE ~(U \subseteq {m})
  <2> DEFINE V == U \ {m}
  <2>1. V \subseteq 1..(m - 1) /\ V \subseteq T /\ V # {}
    BY <1>2, <1>3, <1>8
  <2>2. PICK k : FirstHighestOf(f, V, k)
    BY <1>6, <2>1
  <2>3. k \in U /\ k < m /\ k \in Int /\ m \in Int /\ f[k] \in Int
        /\ \A j \in U : j # m => f[j] < f[k] \/ (f[j] = f[k] /\ k <= j)
    BY <1>3, <2>1, <2>2 DEF FirstHighestOf
  <2>4. CASE m \notin U
    BY <1>2, <2>2, <2>4
  <2>5. CASE m \in U /\ f[m] > f[k]
    <3>1. f[m] \in Int /\ \A j \in U : f[j] \in Int
      BY <1>3, <2>5
    <3>2. \A j \in U : f[j] < f[m] \/ (f[j] = f[m] /\ m <= j)
      <4> TAKE j \in U
      <4>1. CASE j = m
        BY <2>3, <3>1, <4>1
      <4>2. CASE j # m
        BY <2>3, <2>5, <3>1, <4>2
      <4> QED BY <4>1, <4>2
    <3>3. FirstHighestOf(f, U, m)
      BY <2>5, <3>2 DEF FirstHighestOf
    <3> QED BY <1>2, <3>3
  <2>6. CASE m \in U /\ ~(f[m] > f[k])
    <3>1. f[m] \in Int
      BY <1>3, <2>6
    <3>2. FirstHighestOf(f, U, k)
      BY <2>3, <2>6, <3>1 DEF FirstHighestOf
    <3> QED BY <1>2, <3>2
  <2> QED BY <2>4, <2>5, <2>6
<1> QED BY <1>7, <1>8

-----------------------------------------------------------------------------
(* The calls of an evaluation (CallPipeline):                              *)
(* v1 program; v2 phase; v3 at; v4 kept; v5 usage; v6 ended; v7 pushed;    *)
(* v8 rollup; v9 trial; v10 scope; v11 charged; v12 orphans.               *)

(* Sets of answers, and what they count                                    *)

LEMMA TracesFinite == ASSUME CallsConstants PROVE IsFiniteSet(Calls!Calls) /\ IsFiniteSet(Calls!Traces)
<1>1. IsFiniteSet(1..Width) /\ IsFiniteSet(1..Models)
  BY FS_Interval DEF CallsConstants
<1>2. IsFiniteSet(Calls!Calls)
  BY <1>1, FS_Product DEF CallsConstants, Calls!Calls
<1> QED BY <1>1, <1>2, FS_Product DEF Calls!Traces

LEMMA AnswersFinite ==
  ASSUME CallsConstants, NEW T \in SUBSET Calls!Traces, NEW u
  PROVE  /\ IsFiniteSet(Calls!AnswersOf(u, T))
         /\ Cardinality(Calls!AnswersOf(u, T)) \in Nat
<1>1. IsFiniteSet(T) /\ IsFiniteSet(1..MaxAttempts)
  BY TracesFinite, FS_Subset, FS_Interval DEF CallsConstants
<1>2. IsFiniteSet(T \X (1..MaxAttempts))
  BY <1>1, FS_Product
<1>3. Calls!AnswersOf(u, T) \subseteq T \X (1..MaxAttempts)
  BY DEF Calls!AnswersOf
<1> QED BY <1>2, <1>3, FS_Subset, FS_CardinalityType

LEMMA AnswersMonotone ==
  ASSUME CallsConstants, NEW T \in SUBSET Calls!Traces, NEW S \in SUBSET T, NEW u, NEW w,
         \A t \in S : u[t] \in Int /\ w[t] \in Int /\ u[t] <= w[t]
  PROVE  Cardinality(Calls!AnswersOf(u, S)) <= Cardinality(Calls!AnswersOf(w, T))
<1>1. Calls!AnswersOf(u, S) \subseteq Calls!AnswersOf(w, T)
  <2> SUFFICES ASSUME NEW a \in Calls!AnswersOf(u, S) PROVE a \in Calls!AnswersOf(w, T)
    OBVIOUS
  <2>1. a \in S \X (1..MaxAttempts) /\ a[2] <= u[a[1]]
    BY DEF Calls!AnswersOf
  <2>2. a[1] \in S /\ a[2] \in Int
    BY <2>1
  <2>3. a[2] <= w[a[1]]
    BY <2>1, <2>2
  <2> QED BY <2>1, <2>3 DEF Calls!AnswersOf
<1> QED BY <1>1, AnswersFinite, FS_Subset

\* Two disjoint parts of the invocations.
LEMMA AnswersOfParts ==
  ASSUME CallsConstants, NEW S \in SUBSET Calls!Traces, NEW T \in SUBSET Calls!Traces, S \cap T = {}, NEW u
  PROVE  Cardinality(Calls!AnswersOf(u, S \union T)) =
           Cardinality(Calls!AnswersOf(u, S)) + Cardinality(Calls!AnswersOf(u, T))
<1> DEFINE A == Calls!AnswersOf(u, S)
           B == Calls!AnswersOf(u, T)
<1>1. Calls!AnswersOf(u, S \union T) = A \union B
  BY DEF Calls!AnswersOf
<1>2. A \cap B = {}
  BY DEF Calls!AnswersOf
<1>3. IsFiniteSet(A) /\ IsFiniteSet(B) /\ Cardinality(A) \in Nat /\ Cardinality(B) \in Nat
  BY AnswersFinite
<1> HIDE DEF A, B
<1>4. Cardinality(A \union B) = Cardinality(A) + Cardinality(B) - Cardinality({})
  BY <1>2, <1>3, FS_Union
<1>5. Cardinality(A \union B) = Cardinality(A) + Cardinality(B)
  BY <1>3, <1>4, FS_EmptySet
<1> QED BY <1>1, <1>5 DEF A, B

LEMMA AnswersOfOne ==
  ASSUME CallsConstants, NEW t \in Calls!Traces, NEW u, u[t] \in 0..MaxAttempts
  PROVE  Cardinality(Calls!AnswersOf(u, {t})) = u[t]
<1>1. Calls!AnswersOf(u, {t}) = {t} \X (1..u[t])
  BY DEF Calls!AnswersOf, CallsConstants
<1>2. IsFiniteSet({t}) /\ Cardinality({t}) = 1
  BY FS_Singleton
<1>3. IsFiniteSet(1..u[t]) /\ Cardinality(1..u[t]) = u[t]
  BY FS_Interval
<1>4. Cardinality({t} \X (1..u[t])) = Cardinality({t}) * Cardinality(1..u[t])
  BY <1>2, <1>3, FS_Product
<1>5. 1 * u[t] = u[t]
  OBVIOUS
<1> QED BY <1>1, <1>2, <1>3, <1>4, <1>5

\* The same answers in T.
LEMMA AnswersSame ==
  ASSUME NEW T, NEW u, NEW w, \A t \in T : u[t] = w[t]
  PROVE  Calls!AnswersOf(u, T) = Calls!AnswersOf(w, T)
<1>1. \A a \in T \X (1..MaxAttempts) : u[a[1]] = w[a[1]]
  OBVIOUS
<1> QED BY <1>1 DEF Calls!AnswersOf

LEMMA OneMoreAnswer ==
  ASSUME CallsConstants, NEW T \in SUBSET Calls!Traces, NEW t \in Calls!Traces,
         NEW u \in [Calls!Traces -> 0..MaxAttempts], u[t] < MaxAttempts
  PROVE  Cardinality(Calls!AnswersOf([u EXCEPT ![t] = @ + 1], T)) =
           Cardinality(Calls!AnswersOf(u, T)) + (IF t \in T THEN 1 ELSE 0)
<1> DEFINE w == [u EXCEPT ![t] = @ + 1]
<1>1. CASE t \notin T
  <2>1. \A s \in T : u[s] = w[s]
    BY <1>1
  <2>2. Cardinality(Calls!AnswersOf(w, T)) = Cardinality(Calls!AnswersOf(u, T))
    BY <2>1, AnswersSame
  <2> QED BY <1>1, <2>2, AnswersFinite
<1>2. CASE t \in T
  <2> DEFINE R == T \ {t}
  <2>1. R \in SUBSET Calls!Traces /\ {t} \in SUBSET Calls!Traces /\ R \cap {t} = {} /\ R \union {t} = T
    BY <1>2
  <2>2. \A s \in R : u[s] = w[s]
    BY <2>1
  <2>3. Cardinality(Calls!AnswersOf(w, R)) = Cardinality(Calls!AnswersOf(u, R))
    BY <2>2, AnswersSame
  <2>4. w[t] = u[t] + 1 /\ u[t] \in 0..MaxAttempts /\ w[t] \in 0..MaxAttempts
    BY DEF CallsConstants
  <2>5. Cardinality(Calls!AnswersOf(w, {t})) = u[t] + 1 /\ Cardinality(Calls!AnswersOf(u, {t})) = u[t]
    BY <2>4, AnswersOfOne
  <2>6. /\ Cardinality(Calls!AnswersOf(w, T)) = Cardinality(Calls!AnswersOf(w, R)) + Cardinality(Calls!AnswersOf(w, {t}))
        /\ Cardinality(Calls!AnswersOf(u, T)) = Cardinality(Calls!AnswersOf(u, R)) + Cardinality(Calls!AnswersOf(u, {t}))
    <3> HIDE DEF w, R
    <3> QED BY <2>1, AnswersOfParts
  <2>7. Cardinality(Calls!AnswersOf(u, R)) \in Nat
    BY <2>1, AnswersFinite
  <2> QED BY <1>2, <2>3, <2>4, <2>5, <2>6, <2>7
<1> QED BY <1>1, <1>2

-----------------------------------------------------------------------------
LEMMA PushedOnce ==
  ASSUME NEW x, NEW t
  PROVE  Cardinality({i \in DOMAIN <<x>> : <<x>>[i] = t}) = IF x = t THEN 1 ELSE 0
<1>1. {i \in DOMAIN <<x>> : <<x>>[i] = t} = IF x = t THEN {1} ELSE {}
  OBVIOUS
<1> QED BY <1>1, FS_Singleton, FS_EmptySet

LEMMA PushedCount ==
  ASSUME NEW ts \in Seq(Calls!Traces), NEW t
  PROVE  Cardinality({i \in DOMAIN ts : ts[i] = t}) \in Nat
<1>1. IsFiniteSet(1..Len(ts))
  BY FS_Interval
<1>2. {i \in DOMAIN ts : ts[i] = t} \subseteq 1..Len(ts)
  OBVIOUS
<1> QED BY <1>1, <1>2, FS_Subset, FS_CardinalityType

-----------------------------------------------------------------------------
(* A step of one call                                                      *)

\* What the ways on of a call have in common: nothing of another call changes.
Moves(c) ==
  /\ v2' \in [Calls!Calls -> Calls!Statuses]
  /\ v3' \in [Calls!Calls -> 1..Models]
  /\ v4' \in [Calls!Calls -> 0..Models]
  /\ v7' \in [Calls!Traces -> Nat]
  /\ \A d \in Calls!Calls \ {c} : v2'[d] = v2[d] /\ v3'[d] = v3[d] /\ v4'[d] = v4[d]
  /\ \A s \in Calls!Traces : s[1] # c => v7'[s] = v7[s]
  /\ \/ v2'[c] = "asking" /\ v3'[c] = v3[c] + 1 /\ v3'[c] <= Calls!Steps(c)
     \/ v2'[c] \in {"done", "failed"} /\ v3'[c] = v3[c]
  /\ c \notin Routed => v4'[c] = 0

LEMMA CurrentIsTrace ==
  ASSUME Calls!TypeOK, NEW c \in Calls!Calls
  PROVE  Calls!Current(c) \in Calls!Traces
BY DEF Calls!TypeOK, Calls!Current, Calls!Traces

LEMMA PushTyped ==
  ASSUME Calls!TypeOK, NEW ts \in Seq(Calls!Traces), Calls!Push(ts)
  PROVE  /\ v7' \in [Calls!Traces -> Nat]
         /\ \A s \in Calls!Traces : (\A i \in DOMAIN ts : ts[i] # s) => v7'[s] = v7[s]
<1>0. v7 \in [Calls!Traces -> Nat]
  BY DEF Calls!TypeOK
<1>1. \A s \in Calls!Traces : Cardinality({i \in DOMAIN ts : ts[i] = s}) \in Nat
  BY PushedCount
<1>2. \A s \in Calls!Traces : (\A i \in DOMAIN ts : ts[i] # s) =>
        Cardinality({i \in DOMAIN ts : ts[i] = s}) = 0
  <2> SUFFICES ASSUME NEW s \in Calls!Traces, \A i \in DOMAIN ts : ts[i] # s
               PROVE  Cardinality({i \in DOMAIN ts : ts[i] = s}) = 0
    OBVIOUS
  <2>1. {i \in DOMAIN ts : ts[i] = s} = {}
    OBVIOUS
  <2> QED BY <2>1, FS_EmptySet
<1> QED BY <1>0, <1>1, <1>2, CallsCounts DEF Calls!Push

LEMMA NextStepMoves ==
  ASSUME CallsConstants, Calls!TypeOK, Calls!StepsInOrder, Calls!PlainTracedOnce,
         NEW c \in Calls!Calls, v2[c] = "asking",
         NEW last \in 0..Models, c \notin Routed => last = 0,
         NEW ts \in Seq(Calls!Traces), \A i \in DOMAIN ts : ts[i][1] = c,
         Calls!NextStep(c, last, ts)
  PROVE  /\ Moves(c)
         /\ c \notin Routed => Calls!Push(ts) /\ v2'[c] = "failed"
<1>0. v3 \in [Calls!Calls -> 1..Models] /\ v2 \in [Calls!Calls -> Calls!Statuses]
  BY DEF Calls!TypeOK
<1>1. v3[c] \in 1..Models /\ Calls!Steps(c) \in 1..Models
  BY <1>0 DEF Calls!Steps, CallsConstants
<1>2. v4' = [v4 EXCEPT ![c] = last] /\ v4' \in [Calls!Calls -> 0..Models]
  BY DEF Calls!NextStep, Calls!TypeOK
<1>3. CASE v3[c] < Calls!Steps(c)
  <2>1. v3' = [v3 EXCEPT ![c] = @ + 1] /\ Calls!Push(ts) /\ v2' = v2
    BY <1>1, <1>3 DEF Calls!NextStep
  <2>2. v3' \in [Calls!Calls -> 1..Models] /\ v3'[c] = v3[c] + 1
    <3>1. v3[c] + 1 \in 1..Models
      BY <1>1, <1>3 DEF CallsConstants
    <3> QED BY <2>1, <1>0, <3>1
  <2>3. c \in Routed
    BY <1>1, <1>3 DEF Calls!Steps
  <2>4. /\ v7' \in [Calls!Traces -> Nat]
        /\ \A s \in Calls!Traces : (\A i \in DOMAIN ts : ts[i] # s) => v7'[s] = v7[s]
    BY <2>1, PushTyped
  <2>5. \A s \in Calls!Traces : s[1] # c => v7'[s] = v7[s]
    BY <2>4
  <2>6. \A d \in Calls!Calls \ {c} : v2'[d] = v2[d] /\ v3'[d] = v3[d] /\ v4'[d] = v4[d]
    BY <1>0, <1>2, <2>1 DEF Calls!TypeOK
  <2> QED BY <1>0, <1>1, <1>2, <1>3, <2>1, <2>2, <2>3, <2>4, <2>5, <2>6 DEF Moves
<1>4. CASE v3[c] = Calls!Steps(c)
  <2> DEFINE all == IF last = 0 THEN ts ELSE Append(ts, <<c, last>>)
  <2>1. /\ v2' = [v2 EXCEPT ![c] = IF last = 0 THEN "failed" ELSE "done"]
        /\ Calls!Push(all) /\ v3' = v3
    BY <1>1, <1>4 DEF Calls!NextStep
  <2>2. last # 0 => <<c, last>> \in Calls!Traces
    BY DEF Calls!Traces
  <2>3. all \in Seq(Calls!Traces)
    BY <2>2
  <2>4. \A i \in DOMAIN all : all[i][1] = c
    OBVIOUS
  <2> HIDE DEF all
  <2>5. /\ v7' \in [Calls!Traces -> Nat]
        /\ \A s \in Calls!Traces : (\A i \in DOMAIN all : all[i] # s) => v7'[s] = v7[s]
    BY <2>1, <2>3, PushTyped
  <2>6. \A s \in Calls!Traces : s[1] # c => v7'[s] = v7[s]
    BY <2>4, <2>5
  <2>7. v2' \in [Calls!Calls -> Calls!Statuses] /\ v2'[c] \in {"done", "failed"}
    BY <2>1 DEF Calls!TypeOK, Calls!Statuses
  <2>8. c \notin Routed => Calls!Push(ts) /\ v2'[c] = "failed"
    BY <2>1 DEF Calls!TypeOK, all
  <2> QED BY <1>1, <1>2, <2>1, <2>5, <2>6, <2>7, <2>8 DEF Moves, Calls!TypeOK
<1> QED BY <1>1, <1>3, <1>4 DEF Calls!StepsInOrder

LEMMA AcceptMoves ==
  ASSUME CallsConstants, Calls!TypeOK, Calls!StepsInOrder, Calls!PlainTracedOnce,
         NEW c \in Calls!Calls, v2[c] = "asking", Calls!Accept(c)
  PROVE  /\ Moves(c)
         /\ c \notin Routed => Calls!Push(<<Calls!Current(c)>>)
<1> DEFINE all == IF c \in Routed THEN <<Calls!Current(c), Calls!Current(c)>> ELSE <<Calls!Current(c)>>
<1>1. all \in Seq(Calls!Traces)
  BY CurrentIsTrace
<1>2. \A i \in DOMAIN all : all[i][1] = c
  BY DEF Calls!Current
<1>3. Calls!Push(all) /\ v2' = [v2 EXCEPT ![c] = "done"] /\ v3' = v3 /\ v4' = v4
  BY DEF Calls!Accept
<1>4. c \notin Routed => Calls!Push(<<Calls!Current(c)>>)
  BY <1>3
<1> HIDE DEF all
<1>5. /\ v7' \in [Calls!Traces -> Nat]
      /\ \A s \in Calls!Traces : (\A i \in DOMAIN all : all[i] # s) => v7'[s] = v7[s]
  BY <1>1, <1>3, PushTyped
<1>6. \A s \in Calls!Traces : s[1] # c => v7'[s] = v7[s]
  BY <1>2, <1>5
<1>7. v2' \in [Calls!Calls -> Calls!Statuses] /\ v2'[c] = "done"
  BY <1>3 DEF Calls!TypeOK, Calls!Statuses
<1>8. c \notin Routed => v4'[c] = 0
  BY <1>3 DEF Calls!PlainTracedOnce
<1> QED BY <1>3, <1>4, <1>5, <1>6, <1>7, <1>8 DEF Moves, Calls!TypeOK

\* The invocation of the current step of a call ends, or never began.
Closes(c) ==
  /\ v5' \in {v5, [v5 EXCEPT ![Calls!Current(c)] = @ + 1]}
  /\ \/ /\ \E e \in {"ok", "exhausted", "provider error"} : v6' = [v6 EXCEPT ![Calls!Current(c)] = e]
        /\ v9' = [tokens |-> v9.tokens + v5'[Calls!Current(c)], n |-> v9.n + 1]
     \/ v5[Calls!Current(c)] = 0 /\ UNCHANGED <<v5, v6, v9>>

\* What the answers of one call leave alone.
LEMMA OtherCallsKept ==
  ASSUME Calls!TypeOK, NEW c \in Calls!Calls, v2[c] = "asking",
         v5' \in {v5, [v5 EXCEPT ![Calls!Current(c)] = @ + 1]}
  PROVE  \A s \in Calls!Traces : s # Calls!Current(c) => v5'[s] = v5[s]
BY DEF Calls!TypeOK

LEMMA AskingHasRoom ==
  ASSUME CallsConstants, Calls!TypeOK, Calls!StepsInOrder, NEW c \in Calls!Calls, v2[c] = "asking"
  PROVE  /\ Calls!Current(c) \in Calls!Traces
         /\ v5[Calls!Current(c)] \in 0..MaxAttempts /\ v5[Calls!Current(c)] < MaxAttempts
         /\ v6[Calls!Current(c)] = "no"
         /\ v3[c] \in 1..Models
<1>1. Calls!Current(c) \in Calls!Traces /\ v3[c] \in 1..Models
  BY CurrentIsTrace DEF Calls!TypeOK
<1>2. v5[Calls!Current(c)] \in 0..MaxAttempts
  BY <1>1 DEF Calls!TypeOK
<1>3. \A i \in v3[c]..Models : v6[<<c, i>>] = "no"
  BY DEF Calls!StepsInOrder
<1>4. v3[c] \in v3[c]..Models
  BY <1>1 DEF CallsConstants
<1> QED BY <1>1, <1>2, <1>3, <1>4 DEF Calls!StepsInOrder, Calls!Current

LEMMA MoreUsageTyped ==
  ASSUME CallsConstants, Calls!TypeOK, Calls!StepsInOrder, NEW c \in Calls!Calls, v2[c] = "asking",
         v5' \in {v5, [v5 EXCEPT ![Calls!Current(c)] = @ + 1]}
  PROVE  /\ v5' \in [Calls!Traces -> 0..MaxAttempts]
         /\ v5'[Calls!Current(c)] \in 0..MaxAttempts
<1>1. v5 \in [Calls!Traces -> 0..MaxAttempts]
  BY DEF Calls!TypeOK
<1>2. v5[Calls!Current(c)] + 1 \in 0..MaxAttempts
  BY AskingHasRoom DEF CallsConstants
<1> QED BY <1>1, <1>2, AskingHasRoom

LEMMA ClosingKeepsTypes ==
  ASSUME CallsConstants, Calls!TypeOK, Calls!StepsInOrder, NEW c \in Calls!Calls, v2[c] = "asking",
         Moves(c), Closes(c), UNCHANGED Calls!scopes
  PROVE  Calls!TypeOK'
<1>1. v5' \in [Calls!Traces -> 0..MaxAttempts] /\ v5'[Calls!Current(c)] \in Nat
  <2>1. v5' \in {v5, [v5 EXCEPT ![Calls!Current(c)] = @ + 1]}
    BY DEF Closes
  <2>2. v5'[Calls!Current(c)] \in 0..MaxAttempts
    BY <2>1, MoreUsageTyped
  <2> QED BY <2>1, <2>2, MoreUsageTyped
<1>2. v6' \in [Calls!Traces -> {"no", "ok", "exhausted", "provider error"}]
  BY DEF Closes, Calls!TypeOK
<1>3. v9' \in [tokens : Nat, n : Nat]
  <2>1. v9 \in [tokens : Nat, n : Nat]
    BY DEF Calls!TypeOK
  <2>2. v9.tokens \in Nat /\ v9.n \in Nat
    BY <2>1
  <2>3. CASE v9' = [tokens |-> v9.tokens + v5'[Calls!Current(c)], n |-> v9.n + 1]
    BY <1>1, <2>2, <2>3
  <2> QED BY <2>1, <2>3 DEF Closes
<1> QED BY <1>1, <1>2, <1>3 DEF Calls!TypeOK, Moves, Calls!scopes, Calls!Calls, Calls!Traces

LEMMA ClosingKeepsOrder ==
  ASSUME CallsConstants, Calls!TypeOK, Calls!StepsInOrder, NEW c \in Calls!Calls, v2[c] = "asking",
         Moves(c), Closes(c)
  PROVE  Calls!StepsInOrder'
<1>1. \A s \in Calls!Traces : s # Calls!Current(c) => v5'[s] = v5[s] /\ v6'[s] = v6[s]
  BY OtherCallsKept DEF Closes, Calls!TypeOK
<1>2. SUFFICES ASSUME NEW d \in Calls!Calls
               PROVE  /\ v3'[d] <= Calls!Steps(d)
                      /\ v2'[d] = "queued" => v3'[d] = 1 /\ v5'[<<d, v3'[d]>>] = 0
                      /\ v2'[d] \in {"queued", "asking"} =>
                           /\ v5'[<<d, v3'[d]>>] < MaxAttempts
                           /\ \A i \in v3'[d]..Models : v6'[<<d, i>>] = "no"
                      /\ \A i \in 1..Models :
                           /\ i > v3'[d] => v5'[<<d, i>>] = 0
                           /\ v5'[<<d, i>>] > 0 /\ v6'[<<d, i>>] = "no" =>
                                v2'[d] \in {"asking", "cancelled"} /\ i = v3'[d]
  BY DEF Calls!StepsInOrder, Calls!Current
<1>3. CASE d # c
  <2>1. v2'[d] = v2[d] /\ v3'[d] = v3[d]
    BY <1>3 DEF Moves
  <2>2. \A i \in 1..Models : <<d, i>> \in Calls!Traces /\ <<d, i>> # Calls!Current(c)
    BY <1>3 DEF Calls!Traces, Calls!Current
  <2>3. \A i \in 1..Models : v5'[<<d, i>>] = v5[<<d, i>>] /\ v6'[<<d, i>>] = v6[<<d, i>>]
    BY <1>1, <2>2
  <2>4. v3[d] \in 1..Models
    BY DEF Calls!TypeOK
  <2>5. \A i \in v3[d]..Models : i \in 1..Models
    BY <2>4 DEF CallsConstants
  <2> QED BY <2>1, <2>3, <2>4, <2>5 DEF Calls!StepsInOrder, Calls!Current
<1>4. CASE d = c
  <2>1. v3[c] \in 1..Models /\ v3'[c] \in 1..Models /\ Calls!Steps(c) \in 1..Models /\ v3[c] <= Calls!Steps(c)
    <3>1. v3[c] \in 1..Models
      BY DEF Calls!TypeOK
    <3>2. v3'[c] \in 1..Models
      BY DEF Moves
    <3>3. Calls!Steps(c) \in 1..Models
      BY DEF Calls!Steps, CallsConstants
    <3> QED BY <3>1, <3>2, <3>3 DEF Calls!StepsInOrder
  <2>2. \A i \in 1..Models : <<c, i>> \in Calls!Traces /\ (i # v3[c] => <<c, i>> # Calls!Current(c))
    BY DEF Calls!Traces, Calls!Current
  <2>3. \A i \in 1..Models : i # v3[c] =>
          v5'[<<c, i>>] = v5[<<c, i>>] /\ v6'[<<c, i>>] = v6[<<c, i>>]
    BY <1>1, <2>2
  <2>4. \A i \in 1..Models : i > v3[c] => v5[<<c, i>>] = 0 /\ v6[<<c, i>>] = "no"
    BY <2>1 DEF Calls!StepsInOrder, CallsConstants
  <2>5. \A i \in 1..Models : i < v3[c] /\ v5[<<c, i>>] > 0 => v6[<<c, i>>] # "no"
    BY <2>1 DEF Calls!StepsInOrder
  <2>6. v5'[<<c, v3[c]>>] > 0 => v6'[<<c, v3[c]>>] # "no"
    <3>1. <<c, v3[c]>> = Calls!Current(c) /\ Calls!Current(c) \in Calls!Traces
      BY CurrentIsTrace DEF Calls!Current
    <3>2. CASE \E e \in {"ok", "exhausted", "provider error"} : v6' = [v6 EXCEPT ![Calls!Current(c)] = e]
      BY <3>1, <3>2 DEF Calls!TypeOK
    <3>3. CASE v5[Calls!Current(c)] = 0 /\ UNCHANGED v5
      BY <3>1, <3>3
    <3> QED BY <3>2, <3>3 DEF Closes
  <2>7. CASE v2'[c] = "asking" /\ v3'[c] = v3[c] + 1 /\ v3'[c] <= Calls!Steps(c)
    <3>1. v5'[<<c, v3'[c]>>] = 0 /\ 0 < MaxAttempts
      BY <2>1, <2>3, <2>4, <2>7 DEF CallsConstants
    <3>2. \A i \in v3'[c]..Models : i \in 1..Models /\ i > v3[c]
      BY <2>1, <2>7 DEF CallsConstants
    <3>3. \A i \in 1..Models : v5'[<<c, i>>] > 0 => i <= v3[c]
      BY <2>1, <2>3, <2>4
    <3>4. \A i \in 1..Models : v5'[<<c, i>>] > 0 => v6'[<<c, i>>] # "no"
      BY <2>1, <2>3, <2>5, <2>6, <3>3
    <3>5. \A i \in v3'[c]..Models : v6'[<<c, i>>] = "no"
      BY <2>1, <2>3, <2>4, <3>2
    <3>6. \A i \in 1..Models : i > v3'[c] => v5'[<<c, i>>] = 0
      BY <2>1, <2>3, <2>4, <2>7
    <3> QED BY <1>4, <2>7, <3>1, <3>4, <3>5, <3>6
  <2>8. CASE v2'[c] \in {"done", "failed"} /\ v3'[c] = v3[c]
    <3>1. \A i \in 1..Models : i > v3[c] => v5'[<<c, i>>] = 0
      BY <2>1, <2>3, <2>4
    <3>2. \A i \in 1..Models : v5'[<<c, i>>] > 0 => v6'[<<c, i>>] # "no"
      BY <2>1, <2>3, <2>5, <2>6, <3>1
    <3> QED BY <1>4, <2>1, <2>8, <3>1, <3>2
  <2> QED BY <2>7, <2>8 DEF Moves
<1> QED BY <1>3, <1>4

LEMMA ClosingKeepsPlainTraces ==
  ASSUME CallsConstants, Calls!TypeOK, Calls!StepsInOrder, Calls!PlainTracedOnce, NEW c \in Calls!Calls, v2[c] = "asking",
         Moves(c), Closes(c),
         c \notin Routed => /\ v2'[c] \in {"done", "failed"}
                            /\ v5'[Calls!Current(c)] > 0 => Calls!Push(<<Calls!Current(c)>>)
  PROVE  Calls!PlainTracedOnce'
<1>1. SUFFICES ASSUME NEW d \in Calls!Calls \ Routed
               PROVE  /\ v4'[d] = 0
                      /\ v2'[d] \in {"queued", "asking"} => v7'[<<d, 1>>] = 0
                      /\ v2'[d] \in {"done", "failed"} /\ v5'[<<d, 1>>] > 0 => v7'[<<d, 1>>] = 1
  BY DEF Calls!PlainTracedOnce
<1>2. <<d, 1>> \in Calls!Traces
  BY DEF Calls!Traces, CallsConstants
<1>3. CASE d # c
  <2>1. <<d, 1>> # Calls!Current(c)
    BY <1>3 DEF Calls!Current
  <2>2. v5'[<<d, 1>>] = v5[<<d, 1>>]
    BY <1>2, <2>1, OtherCallsKept DEF Closes
  <2>3. v7'[<<d, 1>>] = v7[<<d, 1>>]
    BY <1>2, <1>3 DEF Moves
  <2> QED BY <1>3, <2>2, <2>3 DEF Moves, Calls!PlainTracedOnce
<1>4. CASE d = c
  <2>1. Calls!Current(c) = <<c, 1>>
    <3>1. v3[c] \in 1..Models /\ v3[c] <= 1
      BY <1>4 DEF Calls!TypeOK, Calls!StepsInOrder, Calls!Steps
    <3> QED BY <3>1 DEF Calls!Current
  <2>2. v2'[c] \in {"done", "failed"} /\ v4'[c] = 0
    BY <1>4 DEF Moves
  <2>3. ASSUME v5'[<<c, 1>>] > 0 PROVE v7'[<<c, 1>>] = 1
    <3>1. Calls!Push(<<Calls!Current(c)>>)
      BY <1>4, <2>1, <2>3
    <3>2. v7'[Calls!Current(c)] = v7[Calls!Current(c)]
             + Cardinality({i \in DOMAIN <<Calls!Current(c)>> : <<Calls!Current(c)>>[i] = Calls!Current(c)})
      BY <1>2, <1>4, <2>1, <3>1, CallsCounts DEF Calls!Push
    <3>3. v7[Calls!Current(c)] = 0
      BY <1>4, <2>1 DEF Calls!PlainTracedOnce
    <3>4. Cardinality({i \in DOMAIN <<Calls!Current(c)>> : <<Calls!Current(c)>>[i] = Calls!Current(c)}) = 1
      BY PushedOnce
    <3>5. v7'[Calls!Current(c)] = 1
      BY <3>2, <3>3, <3>4
    <3> QED BY <2>1, <3>5
  <2> QED BY <1>4, <2>2, <2>3
<1> QED BY <1>3, <1>4

\* Nobody else fails or is orphaned by a step of a call.
LEMMA StepKeepsPrograms ==
  ASSUME Calls!TypeOK, Calls!ProgramsWait, NEW c \in Calls!Calls, v2[c] = "asking", UNCHANGED Calls!scopes,
         v2' \in [Calls!Calls -> Calls!Statuses], \A d \in Calls!Calls \ {c} : v2'[d] = v2[d],
         v2'[c] \in {"asking", "done", "failed"}
  PROVE  /\ Calls!ProgramsWait'
         /\ \A d \in Calls!RaisedEarly : d \in Calls!RaisedEarly'
         /\ v10 = "consumed" => c \in Calls!RaisedEarly /\ Calls!RaisedEarly' = Calls!RaisedEarly
<1>1. \A p \in Programs : Calls!HasFailed(p) => Calls!HasFailed(p)'
  BY DEF Calls!HasFailed, Calls!CallsOf, Calls!Calls
<1>2. \A d \in Calls!RaisedEarly : d \in Calls!RaisedEarly'
  BY <1>1 DEF Calls!RaisedEarly, Calls!Calls
<1>3. UNCHANGED <<v1, v10, v12>>
  BY DEF Calls!scopes
<1>4. \A d \in Calls!Calls : /\ Calls!Over(d) => Calls!Over(d)'
                             /\ v2[d] # "queued" => v2'[d] # "queued"
                             /\ v2'[d] = "cancelled" => v2[d] = "cancelled"
                             /\ v2[d] = "queued" => v2'[d] = "queued"
  BY DEF Calls!Over
<1>5. \A p \in Programs : \A d \in Calls!CallsOf(p) : d \in Calls!Calls /\ d[1] = p
  BY DEF Calls!Calls, Calls!CallsOf
<1>6. Calls!ProgramsWait'
  <2>1. \A p \in Programs : v1'[p] = "cancelled" => v10' = "cancelled"
    BY <1>3 DEF Calls!ProgramsWait
  <2>2. ASSUME NEW p \in Programs, NEW d \in Calls!CallsOf(p)
        PROVE  /\ v1'[p] = "queued" => v2'[d] = "queued"
               /\ v1'[p] \in {"returned", "raised"} => Calls!Over(d)' \/ d \in v12'
               /\ v2'[d] = "cancelled" => v1'[p] = "cancelled"
               /\ d \in v12' => v1'[p] = "raised" /\ d \in Calls!RaisedEarly'
    BY <1>2, <1>3, <1>4, <1>5, <2>2 DEF Calls!ProgramsWait
  <2>3. v10' = "consumed" => \A p \in Programs : Calls!ProgramOver(p)'
    BY <1>3 DEF Calls!ProgramsWait, Calls!ProgramOver
  <2> QED BY <2>1, <2>2, <2>3 DEF Calls!ProgramsWait, Calls!CallsOf
<1>7. ASSUME v10 = "consumed" PROVE c \in Calls!RaisedEarly /\ Calls!RaisedEarly' = Calls!RaisedEarly
  <2>1. c[1] \in Programs /\ c \in Calls!CallsOf(c[1])
    BY DEF Calls!Calls, Calls!CallsOf
  <2>2. v1[c[1]] \in {"returned", "raised"}
    BY <1>7, <2>1 DEF Calls!ProgramsWait, Calls!ProgramOver
  <2>3. ~Calls!Over(c)
    BY DEF Calls!Over
  <2>4. c \in Calls!RaisedEarly
    BY <2>1, <2>2, <2>3 DEF Calls!ProgramsWait
  <2>5. Calls!HasFailed(c[1]) /\ c[1] \notin Tolerant
    BY <2>4 DEF Calls!RaisedEarly
  <2>6. \A p \in Programs : Calls!HasFailed(p)' => Calls!HasFailed(p)
    <3>1. ASSUME NEW p \in Programs, p # c[1], Calls!HasFailed(p)' PROVE Calls!HasFailed(p)
      BY <1>5, <3>1 DEF Calls!HasFailed, Calls!CallsOf
    <3> QED BY <2>5, <3>1
  <2>7. \A d \in Calls!RaisedEarly' : d \in Calls!RaisedEarly
    BY <2>6 DEF Calls!RaisedEarly, Calls!Calls
  <2> QED BY <1>2, <2>4, <2>7 DEF Calls!RaisedEarly
<1> QED BY <1>2, <1>6, <1>7

LEMMA ClosingIsCharged ==
  ASSUME CallsConstants, Calls!TypeOK, Calls!StepsInOrder, Calls!ChargedOnce, NEW c \in Calls!Calls, v2[c] = "asking",
         Closes(c)
  PROVE  Calls!ChargedOnce'
<1> DEFINE t == Calls!Current(c)
<1>1. t \in Calls!Traces /\ v6[t] = "no"
  BY AskingHasRoom
<1>2. CASE UNCHANGED <<v5, v6, v9>>
  BY <1>2, CallsCounts DEF Calls!ChargedOnce, Calls!Tokens, Calls!AnswersOf, Calls!Finished
<1>3. CASE /\ \E e \in {"ok", "exhausted", "provider error"} : v6' = [v6 EXCEPT ![t] = e]
           /\ v9' = [tokens |-> v9.tokens + v5'[t], n |-> v9.n + 1]
  <2>1. v5' \in [Calls!Traces -> 0..MaxAttempts] /\ v5'[t] \in 0..MaxAttempts
    BY MoreUsageTyped DEF Closes
  <2>2. Calls!Finished' = Calls!Finished \union {t} /\ t \notin Calls!Finished
    BY <1>1, <1>3 DEF Calls!Finished, Calls!TypeOK
  <2>3. Calls!Finished \in SUBSET Calls!Traces /\ {t} \in SUBSET Calls!Traces /\ Calls!Finished \cap {t} = {}
    BY <1>1, <2>2 DEF Calls!Finished
  <2>4. \A s \in Calls!Finished : v5'[s] = v5[s]
    BY <2>2, <2>3, OtherCallsKept DEF Closes
  <2>5. Calls!AnswersOf(v5', Calls!Finished) = Calls!AnswersOf(v5, Calls!Finished)
    BY <2>4, AnswersSame
  <2>6. Cardinality(Calls!AnswersOf(v5', {t})) = v5'[t]
    BY <1>1, <2>1, AnswersOfOne
  <2>7. Cardinality(Calls!AnswersOf(v5', Calls!Finished \union {t})) =
          Cardinality(Calls!AnswersOf(v5', Calls!Finished)) + Cardinality(Calls!AnswersOf(v5', {t}))
    BY <2>3, AnswersOfParts
  <2>8. Calls!Tokens(Calls!Finished)' = Cardinality(Calls!AnswersOf(v5', Calls!Finished \union {t}))
    BY <2>2, CallsCounts DEF Calls!Tokens, Calls!AnswersOf
  <2>9. v9.tokens = Cardinality(Calls!AnswersOf(v5, Calls!Finished)) /\ v9.n = Cardinality(Calls!Finished)
    BY CallsCounts DEF Calls!ChargedOnce, Calls!Tokens
  <2>10. Cardinality(Calls!Finished') = Cardinality(Calls!Finished) + 1
    <3>1. IsFiniteSet(Calls!Finished)
      BY <2>3, TracesFinite, FS_Subset
    <3> QED BY <2>2, <3>1, FS_AddElement
  <2> HIDE DEF t
  <2>11. v9'.tokens = Calls!Tokens(Calls!Finished)'
    BY <1>3, <2>5, <2>6, <2>7, <2>8, <2>9
  <2>12. v9'.n = Cardinality(Calls!Finished')
    BY <1>3, <2>9, <2>10
  <2> QED BY <2>11, <2>12, CallsCounts DEF Calls!ChargedOnce
<1> QED BY <1>2, <1>3 DEF Closes

\* What a call asks once more it asks of a program that raised early, or
\* before anything is read from the trial.
LEMMA AskingIsSeen ==
  ASSUME CallsConstants, Calls!TypeOK, Calls!StepsInOrder, Calls!TrackerSeesAll, NEW c \in Calls!Calls, v2[c] = "asking",
         v5' \in {v5, [v5 EXCEPT ![Calls!Current(c)] = @ + 1]}, UNCHANGED Calls!scopes,
         v10 = "consumed" => c \in Calls!RaisedEarly /\ Calls!RaisedEarly' = Calls!RaisedEarly
  PROVE  Calls!TrackerSeesAll'
<1> SUFFICES ASSUME v10' = "consumed"
             PROVE  0 <= Calls!Spent(Calls!Calls)' - v11' /\ Calls!Spent(Calls!Calls)' - v11' <= Calls!Spent(Calls!RaisedEarly)'
  BY DEF Calls!TrackerSeesAll
<1>1. v10 = "consumed" /\ v11' = v11
  BY DEF Calls!scopes
<1>2. c \in Calls!RaisedEarly /\ Calls!RaisedEarly' = Calls!RaisedEarly
  BY <1>1
<1> DEFINE E == Calls!TracesOf(Calls!RaisedEarly)
           A == Calls!TracesOf(Calls!Calls)
           more == IF v5' = v5 THEN 0 ELSE 1
<1>3. E \in SUBSET Calls!Traces /\ A \in SUBSET Calls!Traces /\ Calls!Current(c) \in E /\ Calls!Current(c) \in A
  BY <1>2, AskingHasRoom DEF Calls!TracesOf, Calls!Traces, Calls!RaisedEarly, Calls!Current
<1>4. v5 \in [Calls!Traces -> 0..MaxAttempts]
  BY DEF Calls!TypeOK
<1>5. /\ Cardinality(Calls!AnswersOf(v5, E)) \in Nat /\ Cardinality(Calls!AnswersOf(v5, A)) \in Nat
  BY <1>3, AnswersFinite
<1>6. /\ Cardinality(Calls!AnswersOf(v5', E)) = Cardinality(Calls!AnswersOf(v5, E)) + more
      /\ Cardinality(Calls!AnswersOf(v5', A)) = Cardinality(Calls!AnswersOf(v5, A)) + more
  <2>1. CASE v5' = v5
    BY <1>5, <2>1
  <2>2. CASE v5' # v5
    <3>1. v5' = [v5 EXCEPT ![Calls!Current(c)] = @ + 1]
      BY <2>2
    <3>2. ASSUME NEW T \in SUBSET Calls!Traces, Calls!Current(c) \in T
          PROVE  Cardinality(Calls!AnswersOf([v5 EXCEPT ![Calls!Current(c)] = @ + 1], T))
                   = Cardinality(Calls!AnswersOf(v5, T)) + 1
      BY <1>4, <3>2, AskingHasRoom, OneMoreAnswer
    <3> HIDE DEF E, A
    <3> QED BY <1>3, <2>2, <3>1, <3>2
  <2> QED BY <2>1, <2>2
<1>7. /\ Calls!Spent(Calls!Calls) = Cardinality(Calls!AnswersOf(v5, A))
      /\ Calls!Spent(Calls!RaisedEarly) = Cardinality(Calls!AnswersOf(v5, E))
      /\ Calls!Spent(Calls!Calls)' = Cardinality(Calls!AnswersOf(v5', A))
      /\ Calls!Spent(Calls!RaisedEarly)' = Cardinality(Calls!AnswersOf(v5', E))
  BY <1>2, CallsCounts DEF Calls!Spent, Calls!Tokens, Calls!AnswersOf, Calls!TracesOf
<1>8. 0 <= Calls!Spent(Calls!Calls) - v11 /\ Calls!Spent(Calls!Calls) - v11 <= Calls!Spent(Calls!RaisedEarly)
  BY <1>1 DEF Calls!TrackerSeesAll
<1>9. v11 \in Nat /\ more \in {0, 1}
  BY DEF Calls!TypeOK
<1> HIDE DEF E, A, more
<1> QED BY <1>1, <1>5, <1>6, <1>7, <1>8, <1>9

\* A program that is over without orphans has no call left that asks.
LEMMA AskingKeepsRollups ==
  ASSUME Calls!TypeOK, Calls!ProgramsWait, Calls!PlainRollupExact, NEW c \in Calls!Calls, v2[c] = "asking",
         v5' \in {v5, [v5 EXCEPT ![Calls!Current(c)] = @ + 1]}, UNCHANGED Calls!scopes
  PROVE  Calls!PlainRollupExact'
<1> SUFFICES ASSUME NEW p \in Programs, Calls!CallsOf(p) \cap Routed = {},
                    v1'[p] \in {"returned", "raised"}, v12' \cap Calls!CallsOf(p) = {}
             PROVE  v8'[p] = Calls!Spent(Calls!CallsOf(p))'
  BY DEF Calls!PlainRollupExact, Calls!RollupExactFor, Calls!CallsOf
<1>1. UNCHANGED <<v1, v12, v8>>
  BY DEF Calls!scopes
<1>2. c \notin Calls!CallsOf(p)
  BY <1>1 DEF Calls!ProgramsWait, Calls!Over
<1>3. \A s \in Calls!TracesOf(Calls!CallsOf(p)) : s \in Calls!Traces /\ s # Calls!Current(c)
  BY <1>2 DEF Calls!TracesOf, Calls!Traces, Calls!Current, Calls!CallsOf, Calls!Calls
<1>4. \A s \in Calls!TracesOf(Calls!CallsOf(p)) : v5'[s] = v5[s]
  BY <1>3, OtherCallsKept
<1>5. Calls!AnswersOf(v5', Calls!TracesOf(Calls!CallsOf(p))) = Calls!AnswersOf(v5, Calls!TracesOf(Calls!CallsOf(p)))
  BY <1>4, AnswersSame
<1>6. v8[p] = Calls!Spent(Calls!CallsOf(p))
  BY <1>1 DEF Calls!PlainRollupExact, Calls!RollupExactFor
<1>7. Calls!Spent(Calls!CallsOf(p))' = Cardinality(Calls!AnswersOf(v5', Calls!TracesOf(Calls!CallsOf(p))))
  BY CallsCounts DEF Calls!Spent, Calls!Tokens, Calls!AnswersOf, Calls!TracesOf, Calls!CallsOf
<1> QED BY <1>1, <1>5, <1>6, <1>7, CallsCounts DEF Calls!Spent, Calls!Tokens

LEMMA CallStepInv ==
  ASSUME CallsConstants, Calls!CallsInv, NEW c \in Calls!Calls, Calls!CallStep(c)
  PROVE  Calls!CallsInv'
<1> USE DEF Calls!CallsInv
<1>1. v2[c] = "asking" /\ UNCHANGED Calls!scopes
  BY DEF Calls!CallStep, Calls!AnswerValid, Calls!AnswerInvalid, Calls!AttemptsExhausted,
     Calls!ProviderRaises, Calls!Rejected, Calls!scopes
<1>2. Calls!Current(c) \in Calls!Traces /\ <<Calls!Current(c)>> \in Seq(Calls!Traces) /\ <<>> \in Seq(Calls!Traces)
      /\ v3[c] \in 0..Models /\ v4[c] \in 0..Models
      /\ \A i \in DOMAIN <<Calls!Current(c)>> : <<Calls!Current(c)>>[i][1] = c
  <2>1. Calls!Current(c) \in Calls!Traces
    BY CurrentIsTrace
  <2>2. v3[c] \in 1..Models /\ v4[c] \in 0..Models
    BY DEF Calls!TypeOK
  <2> QED BY <2>1, <2>2 DEF Calls!Current
<1>3. ASSUME Moves(c), Closes(c),
             c \notin Routed => /\ v2'[c] \in {"done", "failed"}
                                /\ v5'[Calls!Current(c)] > 0 => Calls!Push(<<Calls!Current(c)>>)
      PROVE  Calls!CallsInv'
  <2>1. v5' \in {v5, [v5 EXCEPT ![Calls!Current(c)] = @ + 1]}
    BY <1>3 DEF Closes
  <2>2. Calls!TypeOK' /\ Calls!StepsInOrder' /\ Calls!PlainTracedOnce'
    BY <1>1, <1>3, ClosingKeepsTypes, ClosingKeepsOrder, ClosingKeepsPlainTraces
  <2>3. /\ Calls!ProgramsWait'
        /\ v10 = "consumed" => c \in Calls!RaisedEarly /\ Calls!RaisedEarly' = Calls!RaisedEarly
    BY <1>1, <1>3, StepKeepsPrograms DEF Moves
  <2>4. Calls!ChargedOnce'
    BY <1>1, <1>3, ClosingIsCharged
  <2>5. Calls!TrackerSeesAll'
    BY <1>1, <2>1, <2>3, AskingIsSeen
  <2>6. Calls!PlainRollupExact'
    BY <1>1, <2>1, AskingKeepsRollups
  <2> QED BY <2>2, <2>3, <2>4, <2>5, <2>6
<1>4. CASE Calls!AnswerValid(c)
  <2>1. v5' = [v5 EXCEPT ![Calls!Current(c)] = @ + 1] /\ v5'[Calls!Current(c)] = v5[Calls!Current(c)] + 1
    BY <1>2, <1>4 DEF Calls!AnswerValid, Calls!TypeOK
  <2>2. Closes(c)
    BY <1>4, <2>1 DEF Closes, Calls!AnswerValid, Calls!Publish
  <2>3. CASE Calls!Accept(c)
    <3>1. Moves(c) /\ (c \notin Routed => Calls!Push(<<Calls!Current(c)>>))
      BY <1>1, <2>3, AcceptMoves
    <3>2. v2'[c] = "done"
      BY <2>3 DEF Calls!Accept, Calls!TypeOK
    <3> QED BY <1>3, <2>2, <3>1, <3>2
  <2>4. CASE c \in Routed /\ Calls!NextStep(c, v3[c], <<Calls!Current(c)>>)
    <3>1. Moves(c)
      BY <1>1, <1>2, <2>4, NextStepMoves
    <3> QED BY <1>3, <2>2, <2>4, <3>1
  <2> QED BY <1>4, <2>3, <2>4 DEF Calls!AnswerValid
<1>5. CASE Calls!AttemptsExhausted(c)
  <2>1. v5' = [v5 EXCEPT ![Calls!Current(c)] = @ + 1] /\ v5'[Calls!Current(c)] = v5[Calls!Current(c)] + 1
    BY <1>2, <1>5 DEF Calls!AttemptsExhausted, Calls!TypeOK
  <2>2. Closes(c)
    BY <1>5, <2>1 DEF Closes, Calls!AttemptsExhausted, Calls!PublishFailed, Calls!Publish
  <2>3. Calls!NextStep(c, v4[c], <<Calls!Current(c)>>) /\ (c \notin Routed => v4[c] = 0)
    BY <1>5 DEF Calls!AttemptsExhausted, Calls!FailedTrace, Calls!PlainTracedOnce
  <2>4. Moves(c) /\ (c \notin Routed => Calls!Push(<<Calls!Current(c)>>) /\ v2'[c] = "failed")
    BY <1>1, <1>2, <2>3, NextStepMoves
  <2> QED BY <1>3, <2>2, <2>4
<1>6. CASE Calls!ProviderRaises(c)
  <2>1. Closes(c)
    BY <1>6 DEF Closes, Calls!ProviderRaises, Calls!PublishFailed, Calls!Publish
  <2>2. Calls!NextStep(c, v4[c], <<Calls!Current(c)>>) /\ (c \notin Routed => v4[c] = 0)
    BY <1>6 DEF Calls!ProviderRaises, Calls!FailedTrace, Calls!PlainTracedOnce
  <2>3. Moves(c) /\ (c \notin Routed => Calls!Push(<<Calls!Current(c)>>) /\ v2'[c] = "failed")
    BY <1>1, <1>2, <2>2, NextStepMoves
  <2> QED BY <1>3, <2>1, <2>3
<1>7. CASE Calls!Rejected(c)
  <2>1. Closes(c) /\ v5'[Calls!Current(c)] = 0
    BY <1>7 DEF Closes, Calls!Rejected
  <2>2. Calls!NextStep(c, v4[c], <<>>) /\ (c \notin Routed => v4[c] = 0)
    BY <1>7 DEF Calls!Rejected, Calls!PlainTracedOnce
  <2>3. Moves(c) /\ (c \notin Routed => v2'[c] = "failed")
    <3>1. <<>> \in Seq(Calls!Traces) /\ \A i \in DOMAIN <<>> : <<>>[i][1] = c
      OBVIOUS
    <3> QED BY <1>1, <1>2, <2>2, <3>1, NextStepMoves
  <2> QED BY <1>3, <2>1, <2>3
<1>8. CASE Calls!AnswerInvalid(c)
  <2>1. /\ v5' = [v5 EXCEPT ![Calls!Current(c)] = @ + 1]
        /\ UNCHANGED <<v2, v3, v4, v6, v7, v9>>
        /\ v5[Calls!Current(c)] + 1 < MaxAttempts
    BY <1>8 DEF Calls!AnswerInvalid
  <2>2. v5' \in {v5, [v5 EXCEPT ![Calls!Current(c)] = @ + 1]}
    BY <2>1
  <2>3. Calls!TypeOK'
    <3>1. v5' \in [Calls!Traces -> 0..MaxAttempts]
      BY <1>1, <2>2, MoreUsageTyped
    <3> QED BY <1>1, <2>1, <3>1 DEF Calls!TypeOK, Calls!scopes, Calls!Calls, Calls!Traces
  <2>4. \A s \in Calls!Traces : s # Calls!Current(c) => v5'[s] = v5[s]
    BY <1>1, <2>2, OtherCallsKept
  <2>5. v5'[Calls!Current(c)] = v5[Calls!Current(c)] + 1 /\ v5[Calls!Current(c)] \in 0..MaxAttempts
    BY <1>2, <2>1 DEF Calls!TypeOK
  <2>6. \A d \in Calls!Calls, i \in 1..Models : <<d, i>> \in Calls!Traces /\ (<<d, i>> = Calls!Current(c) <=> d = c /\ i = v3[c])
    BY DEF Calls!Traces, Calls!Current
  <2>7. v3 \in [Calls!Calls -> 1..Models]
    BY DEF Calls!TypeOK
  <2>8. Calls!StepsInOrder'
    <3>1. ASSUME NEW d \in Calls!Calls
          PROVE  /\ v3[d] <= Calls!Steps(d)
                 /\ v2[d] = "queued" => v3[d] = 1 /\ v5'[<<d, v3[d]>>] = 0
                 /\ v2[d] \in {"queued", "asking"} =>
                      v5'[<<d, v3[d]>>] < MaxAttempts /\ \A i \in v3[d]..Models : v6[<<d, i>>] = "no"
                 /\ \A i \in 1..Models :
                      /\ i > v3[d] => v5'[<<d, i>>] = 0
                      /\ v5'[<<d, i>>] > 0 /\ v6[<<d, i>>] = "no" =>
                           v2[d] \in {"asking", "cancelled"} /\ i = v3[d]
      <4>1. CASE d # c
        <5>1. \A i \in 1..Models : v5'[<<d, i>>] = v5[<<d, i>>]
          BY <2>4, <2>6, <4>1
        <5> QED BY <2>7, <5>1 DEF Calls!StepsInOrder, Calls!Current
      <4>2. CASE d = c
        <5>1. \A i \in 1..Models : i # v3[c] => v5'[<<c, i>>] = v5[<<c, i>>]
          BY <2>4, <2>6
        <5>2. v5'[<<c, v3[c]>>] < MaxAttempts
          BY <2>1, <2>5 DEF Calls!Current
        <5> QED BY <1>1, <2>7, <4>2, <5>1, <5>2 DEF Calls!StepsInOrder
      <4> QED BY <4>1, <4>2
    <3> QED BY <2>1, <3>1 DEF Calls!StepsInOrder, Calls!Current
  <2>9. Calls!PlainTracedOnce'
    <3>1. ASSUME NEW d \in Calls!Calls \ Routed, v2[d] \in {"done", "failed"}
          PROVE  v5'[<<d, 1>>] = v5[<<d, 1>>]
      BY <1>1, <2>4, <3>1 DEF Calls!Current, Calls!Traces, CallsConstants
    <3> QED BY <2>1, <3>1 DEF Calls!PlainTracedOnce
  <2>10. Calls!ChargedOnce'
    <3>1. Calls!Finished' = Calls!Finished /\ Calls!Finished \subseteq Calls!Traces /\ Calls!Current(c) \notin Calls!Finished
      BY <1>1, <2>1, AskingHasRoom DEF Calls!Finished
    <3>2. \A s \in Calls!Finished : v5'[s] = v5[s]
      BY <2>4, <3>1
    <3>3. Calls!AnswersOf(v5', Calls!Finished) = Calls!AnswersOf(v5, Calls!Finished)
      BY <3>2, AnswersSame
    <3>4. Calls!Tokens(Calls!Finished)' = Cardinality(Calls!AnswersOf(v5', Calls!Finished))
      BY <3>1, CallsCounts DEF Calls!Tokens, Calls!AnswersOf
    <3> QED BY <2>1, <3>1, <3>3, <3>4, CallsCounts DEF Calls!ChargedOnce, Calls!Tokens
  <2>11. /\ Calls!ProgramsWait'
         /\ v10 = "consumed" => c \in Calls!RaisedEarly /\ Calls!RaisedEarly' = Calls!RaisedEarly
    <3>1. v2' \in [Calls!Calls -> Calls!Statuses] /\ v2'[c] = "asking"
      BY <1>1, <2>1 DEF Calls!TypeOK
    <3>2. \A d \in Calls!Calls \ {c} : v2'[d] = v2[d]
      BY <2>1
    <3> QED BY <1>1, <3>1, <3>2, StepKeepsPrograms
  <2>12. Calls!TrackerSeesAll'
    BY <1>1, <2>2, <2>11, AskingIsSeen
  <2>13. Calls!PlainRollupExact'
    BY <1>1, <2>2, AskingKeepsRollups
  <2> QED BY <2>3, <2>8, <2>9, <2>10, <2>11, <2>12, <2>13
<1> QED BY <1>4, <1>5, <1>6, <1>7, <1>8 DEF Calls!CallStep

-----------------------------------------------------------------------------
(* A step of a program or of the trial                                     *)

\* The accounts are those of before: nothing was asked.
LEMMA NothingAsked ==
  ASSUME UNCHANGED <<v5, v6>>
  PROVE  /\ UNCHANGED v9 /\ Calls!ChargedOnce => Calls!ChargedOnce'
         /\ \A C : Calls!Spent(C)' = Cardinality(Calls!AnswersOf(v5, Calls!TracesOf(C)))
<1>1. UNCHANGED v9 /\ Calls!ChargedOnce => Calls!ChargedOnce'
  BY CallsCounts DEF Calls!ChargedOnce, Calls!Tokens, Calls!AnswersOf, Calls!Finished
<1>2. \A C : Calls!Spent(C)' = Cardinality(Calls!AnswersOf(v5, Calls!TracesOf(C)))
  BY CallsCounts DEF Calls!Spent, Calls!Tokens, Calls!AnswersOf, Calls!TracesOf
<1> QED BY <1>1, <1>2

LEMMA RollupsKept ==
  ASSUME Calls!PlainRollupExact, UNCHANGED <<v5, v6>>, v12 \subseteq v12',
         NEW p \in Programs, v1'[p] = v1[p], v8'[p] = v8[p],
         Calls!CallsOf(p) \cap Routed = {}
  PROVE  Calls!RollupExactFor(p)'
<1> SUFFICES ASSUME v1'[p] \in {"returned", "raised"}, v12' \cap Calls!CallsOf(p) = {}
             PROVE  v8'[p] = Calls!Spent(Calls!CallsOf(p))'
  BY DEF Calls!RollupExactFor, Calls!CallsOf
<1>1. v8[p] = Calls!Spent(Calls!CallsOf(p))
  BY DEF Calls!PlainRollupExact, Calls!RollupExactFor
<1>2. Calls!Spent(Calls!CallsOf(p))' = Calls!Spent(Calls!CallsOf(p))
  BY CallsCounts DEF Calls!Spent, Calls!Tokens, Calls!AnswersOf, Calls!TracesOf, Calls!CallsOf
<1> QED BY <1>1, <1>2

\* A program of plain calls that are over sums up what they spent.
LEMMA CollectedIsSpent ==
  ASSUME CallsConstants, Calls!TypeOK, Calls!StepsInOrder, Calls!PlainTracedOnce, NEW p \in Programs,
         Calls!CallsOf(p) \cap Routed = {}, \A c \in Calls!CallsOf(p) : v2[c] \in {"done", "failed"}
  PROVE  Cardinality(Calls!Collected(p)) = Calls!Spent(Calls!CallsOf(p))
<1> DEFINE A == Calls!AnswersOf(v5, Calls!TracesOf(Calls!CallsOf(p)))
<1>1. Calls!TracesOf(Calls!CallsOf(p)) \in SUBSET Calls!Traces
  BY DEF Calls!TracesOf, Calls!Traces, Calls!CallsOf, Calls!Calls
<1>2. \A a \in A : v7[a[1]] = 1
  <2> SUFFICES ASSUME NEW a \in A PROVE v7[a[1]] = 1
    OBVIOUS
  <2>1. PICK c \in Calls!CallsOf(p), i \in 1..Models : a[1] = <<c, i>>
    BY DEF Calls!AnswersOf, Calls!TracesOf
  <2>2. a[2] \in 1..MaxAttempts /\ a[2] <= v5[a[1]] /\ v5[a[1]] \in 0..MaxAttempts
    BY <1>1 DEF Calls!AnswersOf, Calls!TypeOK
  <2>3. c \in Calls!Calls \ Routed
    BY DEF Calls!CallsOf, Calls!Calls
  <2>4. v3[c] \in 1..Models /\ v3[c] <= 1
    BY <2>3 DEF Calls!TypeOK, Calls!StepsInOrder, Calls!Steps
  <2>5. v5[<<c, i>>] > 0
    BY <2>1, <2>2 DEF CallsConstants
  <2>6. i = 1
    BY <2>3, <2>4, <2>5 DEF Calls!StepsInOrder, CallsConstants
  <2> QED BY <2>1, <2>3, <2>5, <2>6 DEF Calls!PlainTracedOnce
<1>3. Calls!Collected(p) = A \X {1}
  <2>1. \A a \in A : 1..v7[a[1]] = {1}
    BY <1>2
  <2> QED BY <2>1, CallsCounts DEF Calls!Collected
<1>4. IsFiniteSet(A) /\ Cardinality(A) \in Nat
  BY <1>1, AnswersFinite
<1>5. IsFiniteSet({1}) /\ Cardinality({1}) = 1
  BY FS_Singleton
<1> HIDE DEF A
<1>6. Cardinality(A \X {1}) = Cardinality(A) * Cardinality({1})
  BY <1>4, <1>5, FS_Product
<1>7. Cardinality(A) * 1 = Cardinality(A)
  BY <1>4
<1> QED BY <1>3, <1>5, <1>6, <1>7, CallsCounts DEF A, Calls!Spent, Calls!Tokens

LEMMA CollectedIsNat ==
  ASSUME CallsConstants, Calls!TypeOK, NEW q \in Programs
  PROVE  Cardinality(Calls!Collected(q)) \in Nat
<1> DEFINE A == Calls!AnswersOf(v5, Calls!TracesOf(Calls!CallsOf(q)))
<1>1. IsFiniteSet(A) /\ \A a \in A : a[1] \in Calls!Traces
  <2>1. Calls!TracesOf(Calls!CallsOf(q)) \in SUBSET Calls!Traces
    BY DEF Calls!TracesOf, Calls!Traces, Calls!CallsOf, Calls!Calls
  <2> QED BY <2>1, AnswersFinite DEF Calls!AnswersOf
<1>2. \A a \in A : IsFiniteSet({a} \X (1..v7[a[1]]))
  <2> SUFFICES ASSUME NEW a \in A PROVE IsFiniteSet({a} \X (1..v7[a[1]]))
    OBVIOUS
  <2>1. v7[a[1]] \in Nat
    BY <1>1 DEF Calls!TypeOK
  <2>2. IsFiniteSet({a})
    BY FS_Singleton
  <2>3. IsFiniteSet(1..v7[a[1]])
    BY <2>1, FS_Interval
  <2> QED BY <2>2, <2>3, FS_Product
<1> DEFINE Part(a) == {a} \X (1..v7[a[1]])
           Parts == {Part(a) : a \in A}
<1>3. IsFiniteSet(Parts)
  <2> HIDE DEF A, Part
  <2>1. [a \in A |-> Part(a)] \in Surjection(A, Parts)
    BY DEF Surjection
  <2> QED BY <1>1, <2>1, FS_Surjection
<1>4. \A B \in Parts : IsFiniteSet(B)
  BY <1>2
<1>5. IsFiniteSet(UNION Parts)
  <2> HIDE DEF Parts
  <2> QED BY <1>3, <1>4, FS_UNION
<1>6. Calls!Collected(q) = UNION Parts
  BY CallsCounts DEF Calls!Collected
<1> QED BY <1>5, <1>6, FS_CardinalityType

LEMMA StartProgramInv ==
  ASSUME CallsConstants, Calls!CallsInv, NEW p \in Programs, Calls!StartProgram(p)
  PROVE  Calls!CallsInv'
<1> USE DEF Calls!CallsInv
<1>1. /\ v1[p] = "queued" /\ v1' = [v1 EXCEPT ![p] = "running"]
      /\ v2' = [c \in Calls!Calls |-> IF c \in Calls!CallsOf(p) THEN "asking" ELSE v2[c]]
      /\ UNCHANGED <<v3, v4, v5, v6, v7, v9, v8, v10, v11, v12>>
  BY DEF Calls!StartProgram
<1>2. v1 \in [Programs -> {"queued", "running", "returned", "raised", "cancelled"}]
      /\ v2 \in [Calls!Calls -> Calls!Statuses]
  BY DEF Calls!TypeOK
<1>3. \A c \in Calls!CallsOf(p) : c \in Calls!Calls /\ c[1] = p /\ v2[c] = "queued" /\ v2'[c] = "asking"
  BY <1>1 DEF Calls!CallsOf, Calls!Calls, Calls!ProgramsWait
<1>4. \A c \in Calls!Calls : c \notin Calls!CallsOf(p) => v2'[c] = v2[c] /\ c[1] # p
  BY <1>1 DEF Calls!CallsOf, Calls!Calls
<1>5. Calls!TypeOK'
  <2>1. v1' \in [Programs -> {"queued", "running", "returned", "raised", "cancelled"}]
    BY <1>1, <1>2
  <2>2. v2' \in [Calls!Calls -> Calls!Statuses]
    BY <1>1, <1>2 DEF Calls!Statuses
  <2> QED BY <1>1, <2>1, <2>2 DEF Calls!TypeOK, Calls!Calls, Calls!Traces
<1>6. Calls!StepsInOrder'
  <2>1. ASSUME NEW c \in Calls!Calls
        PROVE  /\ v2'[c] \in {"queued", "asking"} <=> v2[c] \in {"queued", "asking"}
               /\ v2'[c] = "queued" => v2[c] = "queued"
               /\ v2[c] \in {"asking", "cancelled"} => v2'[c] \in {"asking", "cancelled"}
    BY <1>3, <1>4
  <2> QED BY <1>1, <2>1 DEF Calls!StepsInOrder, Calls!Current
<1>7. Calls!PlainTracedOnce'
  <2>1. ASSUME NEW c \in Calls!Calls
        PROVE  /\ v2'[c] \in {"queued", "asking"} <=> v2[c] \in {"queued", "asking"}
               /\ v2'[c] \in {"done", "failed"} <=> v2[c] \in {"done", "failed"}
    BY <1>3, <1>4
  <2> QED BY <1>1, <2>1 DEF Calls!PlainTracedOnce
<1>8. \A d \in Calls!RaisedEarly : d \in Calls!RaisedEarly'
  <2>1. \A q \in Programs : Calls!HasFailed(q) => Calls!HasFailed(q)'
    BY <1>3, <1>4 DEF Calls!HasFailed, Calls!CallsOf, Calls!Calls
  <2> QED BY <2>1 DEF Calls!RaisedEarly, Calls!Calls
<1>9. v10 # "consumed"
  BY <1>1 DEF Calls!ProgramsWait, Calls!ProgramOver
<1>10. Calls!ProgramsWait'
  <2>1. ASSUME NEW q \in Programs
        PROVE  /\ v1'[q] = "cancelled" => v10' = "cancelled"
               /\ \A c \in Calls!CallsOf(q) :
                    /\ v1'[q] = "queued" => v2'[c] = "queued"
                    /\ v1'[q] \in {"returned", "raised"} => Calls!Over(c)' \/ c \in v12'
                    /\ v2'[c] = "cancelled" => v1'[q] = "cancelled"
                    /\ c \in v12' => v1'[q] = "raised" /\ c \in Calls!RaisedEarly'
    <3>1. CASE q = p
      BY <1>1, <1>2, <1>3, <3>1 DEF Calls!ProgramsWait
    <3>2. CASE q # p
      <4>1. v1'[q] = v1[q]
        BY <1>1, <1>2, <3>2
      <4>2. \A c \in Calls!CallsOf(q) : c \in Calls!Calls /\ v2'[c] = v2[c]
        BY <1>3, <1>4, <3>2 DEF Calls!CallsOf, Calls!Calls
      <4> QED BY <1>1, <1>8, <4>1, <4>2 DEF Calls!ProgramsWait, Calls!Over
    <3> QED BY <3>1, <3>2
  <2> QED BY <1>1, <1>9, <2>1 DEF Calls!ProgramsWait, Calls!CallsOf
<1>11. Calls!TrackerSeesAll'
  BY <1>1, <1>9 DEF Calls!TrackerSeesAll
<1>12. Calls!ChargedOnce'
  BY <1>1, NothingAsked
<1>13. Calls!PlainRollupExact'
  <2>1. ASSUME NEW q \in Programs, Calls!CallsOf(q) \cap Routed = {} PROVE Calls!RollupExactFor(q)'
    <3>1. CASE q = p
      BY <1>1, <1>2, <3>1 DEF Calls!RollupExactFor
    <3>2. CASE q # p
      BY <1>1, <1>2, <2>1, <3>2, RollupsKept
    <3> QED BY <3>1, <3>2
  <2> QED BY <2>1 DEF Calls!PlainRollupExact, Calls!CallsOf
<1> QED BY <1>5, <1>6, <1>7, <1>10, <1>11, <1>12, <1>13

LEMMA ProgramEndsInv ==
  ASSUME CallsConstants, Calls!CallsInv, NEW p \in Programs, Calls!ProgramReturns(p) \/ Calls!ProgramRaises(p)
  PROVE  Calls!CallsInv'
<1> USE DEF Calls!CallsInv
<1>1. /\ v1[p] = "running" /\ UNCHANGED <<Calls!calls, v9, v11>>
      /\ \/ v1' = [v1 EXCEPT ![p] = "returned"] /\ Calls!AllOver(p)
            /\ v12' = v12
            /\ v10' \in {v10, "abandoned"} /\ (v10 # "open" => v10' = v10)
         \/ v1' = [v1 EXCEPT ![p] = "raised"] /\ Calls!HasFailed(p) /\ v10' = v10
            /\ v12' = v12 \union {c \in Calls!CallsOf(p) : ~Calls!Over(c)}
            /\ (Calls!AllOver(p) \/ p \notin Tolerant)
      /\ Calls!RollUp({p})
  BY DEF Calls!ProgramReturns, Calls!ProgramRaises, Calls!RaisesEarly
<1>2. UNCHANGED <<v2, v3, v4, v5, v6, v7>>
  BY <1>1 DEF Calls!calls
<1>3. v1 \in [Programs -> {"queued", "running", "returned", "raised", "cancelled"}]
      /\ v8 \in [Programs -> Nat]
  BY DEF Calls!TypeOK
<1>4. v10 # "consumed" /\ v10' # "consumed"
  BY <1>1 DEF Calls!ProgramsWait, Calls!ProgramOver
<1>5. Calls!TypeOK'
  <2>1. v1' \in [Programs -> {"queued", "running", "returned", "raised", "cancelled"}]
    BY <1>1, <1>3
  <2>2. v10' \in {"open", "consumed", "abandoned", "cancelled"}
    BY <1>1 DEF Calls!TypeOK
  <2>3. v12' \subseteq Calls!Calls
    BY <1>1 DEF Calls!TypeOK, Calls!CallsOf, Calls!Calls
  <2>5. v8' \in [Programs -> Nat]
    BY <1>1, <1>3, CollectedIsNat, CallsCounts DEF Calls!RollUp
  <2> QED BY <1>1, <1>2, <2>1, <2>2, <2>3, <2>5 DEF Calls!TypeOK, Calls!Calls, Calls!Traces
<1>6. Calls!StepsInOrder' /\ Calls!PlainTracedOnce'
  BY <1>2 DEF Calls!StepsInOrder, Calls!PlainTracedOnce, Calls!Current
<1>7. Calls!RaisedEarly' = Calls!RaisedEarly
  BY <1>2 DEF Calls!RaisedEarly, Calls!HasFailed, Calls!CallsOf, Calls!Calls
<1>8. \A c \in Calls!CallsOf(p) : c \in Calls!Calls /\ c[1] = p /\ Calls!Over(c)' = Calls!Over(c)
  BY <1>2 DEF Calls!CallsOf, Calls!Calls, Calls!Over
<1>9. Calls!ProgramsWait'
  <2>1. ASSUME NEW q \in Programs, q # p
        PROVE  /\ v1'[q] = "cancelled" => v10' = "cancelled"
               /\ \A c \in Calls!CallsOf(q) :
                    /\ v1'[q] = "queued" => v2'[c] = "queued"
                    /\ v1'[q] \in {"returned", "raised"} => Calls!Over(c)' \/ c \in v12'
                    /\ v2'[c] = "cancelled" => v1'[q] = "cancelled"
                    /\ c \in v12' => v1'[q] = "raised" /\ c \in Calls!RaisedEarly'
    <3>1. v1'[q] = v1[q]
      BY <1>1, <1>3, <2>1
    <3>2. v1[q] = "cancelled" => v10 = "cancelled"
      BY DEF Calls!ProgramsWait
    <3>3. v10 = "cancelled" => v10' = "cancelled"
      BY <1>1
    <3>4. \A c \in Calls!CallsOf(q) : c \notin Calls!CallsOf(p)
      BY <2>1 DEF Calls!CallsOf
    <3>5. \A c \in Calls!CallsOf(q) : c \in v12' <=> c \in v12
      BY <1>1, <3>4
    <3> QED BY <1>2, <1>7, <3>1, <3>2, <3>3, <3>5 DEF Calls!ProgramsWait, Calls!Over
  <2>2. /\ v1'[p] \in {"returned", "raised"}
        /\ \A c \in Calls!CallsOf(p) :
             /\ Calls!Over(c)' \/ c \in v12'
             /\ v2'[c] # "cancelled"
             /\ c \notin v12
             /\ c \in v12' => v1'[p] = "raised" /\ c \in Calls!RaisedEarly'
    <3>1. v1'[p] \in {"returned", "raised"}
      BY <1>1, <1>3
    <3>2. \A c \in Calls!CallsOf(p) : v2'[c] # "cancelled" /\ c \notin v12
      BY <1>1, <1>2 DEF Calls!ProgramsWait
    <3>3. CASE Calls!AllOver(p)
      <4>1. \A c \in Calls!CallsOf(p) : c \notin v12'
        BY <1>1, <3>2, <3>3 DEF Calls!AllOver
      <4> QED BY <1>8, <3>1, <3>2, <3>3, <4>1 DEF Calls!AllOver
    <3>4. CASE ~Calls!AllOver(p)
      <4>1. /\ v1'[p] = "raised" /\ Calls!HasFailed(p) /\ p \notin Tolerant
            /\ v12' = v12 \union {c \in Calls!CallsOf(p) : ~Calls!Over(c)}
        BY <1>1, <1>3, <3>4
      <4>2. \A c \in Calls!CallsOf(p) : c \in Calls!RaisedEarly'
        BY <1>7, <1>8, <4>1 DEF Calls!RaisedEarly
      <4> QED BY <1>8, <3>1, <3>2, <4>1, <4>2
    <3> QED BY <3>3, <3>4
  <2> QED BY <1>4, <2>1, <2>2 DEF Calls!ProgramsWait, Calls!CallsOf
<1>10. Calls!TrackerSeesAll'
  BY <1>4 DEF Calls!TrackerSeesAll
<1>11. Calls!ChargedOnce'
  BY <1>1, <1>2, NothingAsked
<1>12. Calls!PlainRollupExact'
  <2>1. ASSUME NEW q \in Programs, Calls!CallsOf(q) \cap Routed = {} PROVE Calls!RollupExactFor(q)'
    <3>1. CASE q = p
      <4> SUFFICES ASSUME v12' \cap Calls!CallsOf(p) = {}
                   PROVE  v8'[p] = Calls!Spent(Calls!CallsOf(p))'
        BY <3>1 DEF Calls!RollupExactFor, Calls!CallsOf
      <4>1. \A c \in Calls!CallsOf(p) : Calls!Over(c) /\ v2[c] # "cancelled"
        BY <1>1, <1>2, <1>8, <1>9 DEF Calls!AllOver, Calls!ProgramsWait
      <4>2. \A c \in Calls!CallsOf(p) : v2[c] \in {"done", "failed"}
        BY <4>1 DEF Calls!Over
      <4>3. v8'[p] = Cardinality(Calls!Collected(p))
        BY <1>1, CallsCounts DEF Calls!RollUp
      <4>4. Calls!Spent(Calls!CallsOf(p))' = Calls!Spent(Calls!CallsOf(p))
        BY <1>2, CallsCounts DEF Calls!Spent, Calls!Tokens, Calls!AnswersOf, Calls!TracesOf,
           Calls!CallsOf
      <4> QED BY <2>1, <3>1, <4>2, <4>3, <4>4, CollectedIsSpent
    <3>2. CASE q # p
      <4>1. v8'[q] = v8[q]
        BY <1>1, <3>2, CallsCounts DEF Calls!RollUp
      <4>2. v1'[q] = v1[q] /\ v12 \subseteq v12'
        BY <1>1, <1>3, <3>2
      <4> QED BY <1>2, <2>1, <4>1, <4>2, RollupsKept
    <3> QED BY <3>1, <3>2
  <2> QED BY <2>1 DEF Calls!PlainRollupExact, Calls!CallsOf
<1> QED BY <1>5, <1>6, <1>9, <1>10, <1>11, <1>12

LEMMA ConsumeTrialInv ==
  ASSUME CallsConstants, Calls!CallsInv, Calls!ConsumeTrial
  PROVE  Calls!CallsInv'
<1> USE DEF Calls!CallsInv
<1>1. /\ v10 = "open" /\ \A p \in Programs : Calls!ProgramOver(p)
      /\ v10' = "consumed" /\ v11' = v9.tokens
      /\ UNCHANGED <<v1, v2, v3, v4, v5, v6, v7, v9, v8, v12>>
  BY DEF Calls!ConsumeTrial, Calls!calls
<1>2. Calls!TypeOK'
  BY <1>1 DEF Calls!TypeOK, Calls!Calls, Calls!Traces
<1>3. Calls!StepsInOrder' /\ Calls!PlainTracedOnce'
  BY <1>1 DEF Calls!StepsInOrder, Calls!PlainTracedOnce, Calls!Current
<1>4. Calls!RaisedEarly' = Calls!RaisedEarly
  BY <1>1 DEF Calls!RaisedEarly, Calls!HasFailed, Calls!CallsOf, Calls!Calls
<1>5. Calls!ProgramsWait'
  BY <1>1, <1>4 DEF Calls!ProgramsWait, Calls!ProgramOver, Calls!Over
<1>6. Calls!ChargedOnce'
  BY <1>1, NothingAsked
<1>7. Calls!PlainRollupExact'
  <2>1. ASSUME NEW q \in Programs, Calls!CallsOf(q) \cap Routed = {} PROVE Calls!RollupExactFor(q)'
    BY <1>1, <2>1, RollupsKept
  <2> QED BY <2>1 DEF Calls!PlainRollupExact, Calls!CallsOf
<1>8. Calls!TrackerSeesAll'
  <2> DEFINE A == Calls!TracesOf(Calls!Calls)
             E == Calls!TracesOf(Calls!RaisedEarly)
             R == A \ E
  <2>1. A \in SUBSET Calls!Traces /\ E \in SUBSET Calls!Traces /\ R \in SUBSET Calls!Traces
        /\ E \cap R = {} /\ E \union R = A /\ Calls!Finished \in SUBSET A
    BY DEF Calls!TracesOf, Calls!Traces, Calls!RaisedEarly, Calls!Finished
  <2>2. Calls!AnswersOf(v5, R) \subseteq Calls!AnswersOf(v5, Calls!Finished)
    <3> SUFFICES ASSUME NEW a \in Calls!AnswersOf(v5, R) PROVE a[1] \in Calls!Finished
      BY DEF Calls!AnswersOf
    <3>1. PICK c \in Calls!Calls, i \in 1..Models : a[1] = <<c, i>>
      BY DEF Calls!AnswersOf, Calls!TracesOf
    <3>2. c \notin Calls!RaisedEarly
      BY <3>1 DEF Calls!AnswersOf, Calls!TracesOf
    <3>3. v5[<<c, i>>] > 0
      <4>1. a[2] \in 1..MaxAttempts /\ a[2] <= v5[<<c, i>>] /\ <<c, i>> \in Calls!Traces
        BY <3>1 DEF Calls!AnswersOf, Calls!Traces
      <4>2. v5[<<c, i>>] \in 0..MaxAttempts
        BY <4>1 DEF Calls!TypeOK
      <4> QED BY <4>1, <4>2 DEF CallsConstants
    <3>4. c[1] \in Programs /\ c \in Calls!CallsOf(c[1])
      BY DEF Calls!Calls, Calls!CallsOf
    <3>5. v1[c[1]] \in {"returned", "raised"}
      BY <1>1, <3>4 DEF Calls!ProgramsWait, Calls!ProgramOver
    <3>6. Calls!Over(c) /\ v2[c] # "cancelled"
      BY <3>2, <3>4, <3>5 DEF Calls!ProgramsWait
    <3>7. v6[<<c, i>>] # "no"
      BY <3>3, <3>6 DEF Calls!StepsInOrder, Calls!Over
    <3> QED BY <3>1, <3>7 DEF Calls!Finished, Calls!Traces
  <2>3. /\ Cardinality(Calls!AnswersOf(v5, R)) <= Cardinality(Calls!AnswersOf(v5, Calls!Finished))
        /\ Cardinality(Calls!AnswersOf(v5, Calls!Finished)) <= Cardinality(Calls!AnswersOf(v5, A))
    <3>1. Calls!AnswersOf(v5, Calls!Finished) \subseteq Calls!AnswersOf(v5, A)
      BY <2>1 DEF Calls!AnswersOf
    <3>2. IsFiniteSet(Calls!AnswersOf(v5, Calls!Finished)) /\ IsFiniteSet(Calls!AnswersOf(v5, A))
      BY <2>1, AnswersFinite
    <3> HIDE DEF A, R
    <3> QED BY <2>2, <3>1, <3>2, FS_Subset
  <2>4. Cardinality(Calls!AnswersOf(v5, A)) =
          Cardinality(Calls!AnswersOf(v5, E)) + Cardinality(Calls!AnswersOf(v5, R))
    <3> HIDE DEF A, E, R
    <3> QED BY <2>1, AnswersOfParts
  <2>5. /\ Cardinality(Calls!AnswersOf(v5, A)) \in Nat /\ Cardinality(Calls!AnswersOf(v5, E)) \in Nat
        /\ Cardinality(Calls!AnswersOf(v5, R)) \in Nat /\ Cardinality(Calls!AnswersOf(v5, Calls!Finished)) \in Nat
    BY <2>1, AnswersFinite
  <2>6. v11' = Cardinality(Calls!AnswersOf(v5, Calls!Finished))
    BY <1>1, CallsCounts DEF Calls!ChargedOnce, Calls!Tokens
  <2>7. Calls!Spent(Calls!Calls)' = Cardinality(Calls!AnswersOf(v5, A)) /\ Calls!Spent(Calls!RaisedEarly)' = Cardinality(Calls!AnswersOf(v5, E))
    BY <1>1, <1>4, CallsCounts DEF Calls!Spent, Calls!Tokens, Calls!AnswersOf, Calls!TracesOf
  <2> HIDE DEF A, E, R
  <2>8. 0 <= Calls!Spent(Calls!Calls)' - v11' /\ Calls!Spent(Calls!Calls)' - v11' <= Calls!Spent(Calls!RaisedEarly)'
    BY <2>3, <2>4, <2>5, <2>6, <2>7
  <2> QED BY <2>8 DEF Calls!TrackerSeesAll
<1> QED BY <1>2, <1>3, <1>5, <1>6, <1>7, <1>8

LEMMA CancelInv ==
  ASSUME CallsConstants, Calls!CallsInv, Calls!Cancel
  PROVE  Calls!CallsInv'
<1> USE DEF Calls!CallsInv
<1>1. /\ v10 = "open" /\ v10' = "cancelled"
      /\ v1' = [p \in Programs |-> IF Calls!ProgramOver(p) THEN v1[p] ELSE "cancelled"]
      /\ Calls!RollUp(Calls!Running)
      /\ v2' = [c \in Calls!Calls |->
           IF v2[c] = "asking" /\ c \notin v12 THEN "cancelled" ELSE v2[c]]
      /\ UNCHANGED <<v3, v4, v5, v6, v7, v9, v11, v12>>
  BY DEF Calls!Cancel
<1>2. v1 \in [Programs -> {"queued", "running", "returned", "raised", "cancelled"}]
      /\ v2 \in [Calls!Calls -> Calls!Statuses] /\ v8 \in [Programs -> Nat]
  BY DEF Calls!TypeOK
<1>3. Calls!TypeOK'
  <2>1. v1' \in [Programs -> {"queued", "running", "returned", "raised", "cancelled"}]
    BY <1>1, <1>2
  <2>2. v2' \in [Calls!Calls -> Calls!Statuses]
    BY <1>1, <1>2 DEF Calls!Statuses
  <2>3. v8' \in [Programs -> Nat]
    BY <1>1, <1>2, CollectedIsNat, CallsCounts DEF Calls!RollUp
  <2> QED BY <1>1, <2>1, <2>2, <2>3 DEF Calls!TypeOK, Calls!Calls, Calls!Traces
<1>4. \A c \in Calls!Calls : /\ v2[c] # "asking" => v2'[c] = v2[c]
                             /\ v2'[c] \in {"queued", "asking", "done", "failed"} => v2[c] = v2'[c]
                             /\ v2[c] = "asking" => v2'[c] \in {"asking", "cancelled"}
  BY <1>1, <1>2 DEF Calls!Statuses
<1>5. Calls!StepsInOrder'
  BY <1>1, <1>4 DEF Calls!StepsInOrder, Calls!Current
<1>6. Calls!PlainTracedOnce'
  BY <1>1, <1>4 DEF Calls!PlainTracedOnce
<1>7. \A c \in Calls!RaisedEarly : c \in Calls!RaisedEarly'
  <2>1. \A p \in Programs : Calls!HasFailed(p) => Calls!HasFailed(p)'
    BY <1>4 DEF Calls!HasFailed, Calls!CallsOf, Calls!Calls
  <2> QED BY <2>1 DEF Calls!RaisedEarly, Calls!Calls
<1>8. Calls!ProgramsWait'
  <2>1. ASSUME NEW p \in Programs, NEW c \in Calls!CallsOf(p)
        PROVE  /\ v1'[p] = "queued" => v2'[c] = "queued"
               /\ v1'[p] \in {"returned", "raised"} => Calls!Over(c)' \/ c \in v12'
               /\ v2'[c] = "cancelled" => v1'[p] = "cancelled"
               /\ c \in v12' => v1'[p] = "raised" /\ c \in Calls!RaisedEarly'
    <3>1. c \in Calls!Calls
      BY DEF Calls!Calls, Calls!CallsOf
    <3>2. v1'[p] # "queued"
      BY <1>1 DEF Calls!ProgramOver
    <3>3. v1[p] # "cancelled" /\ v2[c] # "cancelled"
      BY <1>1 DEF Calls!ProgramsWait
    <3>4. v1'[p] \in {"returned", "raised"} => v1'[p] = v1[p]
      BY <1>1
    <3>5. v1'[p] \in {"returned", "raised"} => Calls!Over(c)' \/ c \in v12'
      BY <1>1, <1>4, <3>1, <3>4 DEF Calls!ProgramsWait, Calls!Over
    <3>6. ASSUME v2'[c] = "cancelled" PROVE v1'[p] = "cancelled"
      <4>1. v2[c] = "asking" /\ c \notin v12
        BY <1>1, <3>1, <3>3, <3>6
      <4>2. ~Calls!ProgramOver(p)
        BY <3>3, <4>1 DEF Calls!ProgramsWait, Calls!ProgramOver, Calls!Over
      <4> QED BY <1>1, <4>2
    <3>7. c \in v12' => v1'[p] = "raised" /\ c \in Calls!RaisedEarly'
      BY <1>1, <1>7 DEF Calls!ProgramsWait, Calls!ProgramOver
    <3> QED BY <3>2, <3>5, <3>6, <3>7
  <2> QED BY <1>1, <2>1 DEF Calls!ProgramsWait, Calls!CallsOf
<1>9. Calls!TrackerSeesAll'
  BY <1>1 DEF Calls!TrackerSeesAll
<1>10. Calls!ChargedOnce'
  BY <1>1, NothingAsked
<1>11. Calls!PlainRollupExact'
  <2>1. ASSUME NEW p \in Programs, Calls!CallsOf(p) \cap Routed = {} PROVE Calls!RollupExactFor(p)'
    <3>1. CASE Calls!ProgramOver(p)
      <4>1. v1'[p] = v1[p] /\ p \notin Calls!Running
        BY <1>1, <3>1 DEF Calls!Running, Calls!ProgramOver
      <4>2. v8'[p] = v8[p]
        BY <1>1, <4>1, CallsCounts DEF Calls!RollUp
      <4> QED BY <1>1, <2>1, <4>1, <4>2, RollupsKept
    <3>2. CASE ~Calls!ProgramOver(p)
      BY <1>1, <3>2 DEF Calls!RollupExactFor
    <3> QED BY <3>1, <3>2
  <2> QED BY <2>1 DEF Calls!PlainRollupExact, Calls!CallsOf
<1> QED BY <1>3, <1>5, <1>6, <1>8, <1>9, <1>10, <1>11

LEMMA CallsInvNext ==
  ASSUME CallsConstants, Calls!CallsInv, [Calls!Next]_(Calls!vars)
  PROVE  Calls!CallsInv'
<1>1. CASE \E c \in Calls!Calls : Calls!CallStep(c)
  BY <1>1, CallStepInv
<1>2. CASE \E p \in Programs : Calls!StartProgram(p) \/ Calls!ProgramReturns(p) \/ Calls!ProgramRaises(p)
  BY <1>2, StartProgramInv, ProgramEndsInv
<1>3. CASE Calls!ConsumeTrial
  BY <1>3, ConsumeTrialInv
<1>4. CASE Calls!Cancel
  BY <1>4, CancelInv
<1>5. CASE UNCHANGED Calls!vars
  <2> USE <1>5 DEF Calls!vars, Calls!calls, Calls!scopes
  <2>1. Calls!TypeOK'
    BY DEF Calls!CallsInv, Calls!TypeOK, Calls!Calls, Calls!Traces
  <2>4. Calls!StepsInOrder' /\ Calls!PlainTracedOnce'
    BY DEF Calls!CallsInv, Calls!StepsInOrder, Calls!PlainTracedOnce, Calls!Current
  <2>2. Calls!ProgramsWait'
    BY DEF Calls!CallsInv, Calls!ProgramsWait, Calls!CallsOf, Calls!Over, Calls!RaisedEarly,
       Calls!Calls, Calls!HasFailed, Calls!ProgramOver
  <2>3. Calls!ChargedOnce' /\ Calls!TrackerSeesAll' /\ Calls!PlainRollupExact'
    BY CallsCounts DEF Calls!CallsInv, Calls!ChargedOnce, Calls!TrackerSeesAll,
       Calls!PlainRollupExact, Calls!RollupExactFor, Calls!Finished, Calls!Tokens,
           Calls!Spent, Calls!AnswersOf, Calls!TracesOf, Calls!RaisedEarly, Calls!HasFailed, Calls!CallsOf, Calls!Calls
  <2> QED BY <2>1, <2>2, <2>3, <2>4 DEF Calls!CallsInv
<1> QED BY <1>1, <1>2, <1>3, <1>4, <1>5 DEF Calls!Next

LEMMA CallsInvInit ==
  ASSUME CallsConstants, Calls!Init
  PROVE  Calls!CallsInv
<1>1. Calls!TypeOK
  BY DEF Calls!Init, Calls!TypeOK, Calls!Statuses, CallsConstants
<1>2. \A c \in Calls!Calls, i \in 1..Models : v5[<<c, i>>] = 0 /\ v6[<<c, i>>] = "no" /\ v7[<<c, i>>] = 0
  BY DEF Calls!Init, Calls!Traces
<1>3. \A c \in Calls!Calls : v2[c] = "queued" /\ v3[c] = 1 /\ v4[c] = 0 /\ 1 <= Calls!Steps(c)
  BY DEF Calls!Init, Calls!Steps, CallsConstants
<1>4. Calls!StepsInOrder /\ Calls!PlainTracedOnce
  BY <1>2, <1>3 DEF Calls!StepsInOrder, Calls!PlainTracedOnce, Calls!Current, CallsConstants
<1>5. Calls!ProgramsWait
  BY <1>3 DEF Calls!Init, Calls!ProgramsWait, Calls!CallsOf, Calls!Calls
<1>6. Calls!ChargedOnce
  <2>1. Calls!Finished = {}
    BY DEF Calls!Init, Calls!Finished
  <2>2. Calls!AnswersOf(v5, {}) = {}
    BY DEF Calls!AnswersOf
  <2> QED BY <2>1, <2>2, FS_EmptySet, CallsCounts DEF Calls!Init, Calls!ChargedOnce, Calls!Tokens
<1>7. Calls!TrackerSeesAll /\ Calls!PlainRollupExact
  BY DEF Calls!Init, Calls!TrackerSeesAll, Calls!PlainRollupExact, Calls!RollupExactFor
<1> QED BY <1>1, <1>4, <1>5, <1>6, <1>7 DEF Calls!CallsInv

\* What the calls of an evaluation spend is charged once to the trial, and what
\* was asked is accounted for whoever fails, retries or is cancelled (call.py,
\* trial_runner.py, base.py): the inductive invariant of the pipeline.
THEOREM CallsInvHolds == CallsConstants /\ Calls!Spec => []Calls!CallsInv
<1> SUFFICES ASSUME CallsConstants PROVE Calls!Spec => []Calls!CallsInv
  OBVIOUS
<1>1. Calls!Init => Calls!CallsInv
  BY CallsInvInit
<1>2. Calls!CallsInv /\ [Calls!Next]_(Calls!vars) => Calls!CallsInv'
  BY CallsInvNext
<1> QED BY <1>1, <1>2, PTL DEF Calls!Spec

-----------------------------------------------------------------------------
(* The composite optimizer (CoOptimizer):                                  *)
(* v1 cap; v2 strategies; v3 stage; v4 step; v5 held; v6 best;             *)
(* v7 original; v8 barren; v9 spent; v10 late; v11 stop; v12 seen.         *)

\* What may have been spent in each stage.  A stage begins with budget left,
\* and so does the training run of bootstrap; its demos are evaluated even if
\* that run used up the budget, and so is the result at the end.
WithinCap ==
  /\ v3 = "baseline" => v9 = 0
  /\ CoOpt!InStage /\ v4 = 0 => v9 < v1
  /\ v3 = "bootstrap" /\ v4 = 1 => v9 < v1
  /\ CoOpt!InStage => v9 <= v1
  /\ v3 = "final" => v9 <= v1 + 1
  /\ v9 <= v1 + 2

BudgetInv ==
  /\ v1 \in Caps
  /\ v9 \in Nat
  /\ v4 \in Nat
  /\ v3 = "baseline" => v4 = 0
  /\ v10 => TimeCap
  /\ v1 # None => WithinCap

-----------------------------------------------------------------------------
LEMMA StageNames ==
  /\ CoOpt!Stages[1] = "bootstrap" /\ CoOpt!Stages[2] = "instruction" /\ CoOpt!Stages[3] = "hyperparameter"
  /\ CoOpt!InStage <=> v3 \in {"bootstrap", "instruction", "hyperparameter"}
BY DEF CoOpt!Stages, CoOpt!InStage

LEMMA StageNamesPrimed ==
  CoOpt!InStage' <=> v3' \in {"bootstrap", "instruction", "hyperparameter"}
BY DEF CoOpt!Stages, CoOpt!InStage

LEMMA StagesDiffer == ASSUME NEW i \in 1..3, NEW j \in 1..3, CoOpt!Stages[i] = CoOpt!Stages[j] PROVE i = j
<1>1. i \in {1, 2, 3} /\ j \in {1, 2, 3}
  OBVIOUS
<1> QED BY <1>1 DEF CoOpt!Stages

\* The stage after stage n is a later one, or the end.
LEMMA StageAfterIsLaterOrEnd ==
  ASSUME NEW n \in 0..3, NEW s
  PROVE  CoOpt!StageAfter(n, s) = "final" \/ \E k \in (n + 1)..3 : CoOpt!StageAfter(n, s) = CoOpt!Stages[k]
<1> DEFINE left == {i \in (n + 1)..3 : CoOpt!Stages[i] \in v2}
<1>1. CASE left = {} \/ CoOpt!BudgetHit(s)
  BY <1>1 DEF CoOpt!StageAfter
<1>2. CASE ~(left = {} \/ CoOpt!BudgetHit(s))
  <2>1. \E i \in left : \A j \in left : i <= j
    <3>1. left \subseteq 1..3
      OBVIOUS
    <3>2. CASE 1 \in left
      BY <3>1, <3>2
    <3>3. CASE 1 \notin left /\ 2 \in left
      BY <3>1, <3>3
    <3>4. CASE 1 \notin left /\ 2 \notin left
      BY <1>2, <3>1, <3>4
    <3> QED BY <3>2, <3>3, <3>4
  <2> DEFINE k == CHOOSE i \in left : \A j \in left : i <= j
  <2>2. k \in left
    BY <2>1
  <2>3. CoOpt!StageAfter(n, s) = CoOpt!Stages[k]
    BY <1>2 DEF CoOpt!StageAfter
  <2> HIDE DEF k
  <2> QED BY <2>2, <2>3
<1> QED BY <1>1, <1>2

LEMMA StageAfterIsStage ==
  ASSUME NEW n \in 0..3, NEW s
  PROVE  CoOpt!StageAfter(n, s) \in {"bootstrap", "instruction", "hyperparameter", "final"}
<1>1. CASE CoOpt!StageAfter(n, s) = "final"
  BY <1>1
<1>2. ASSUME NEW k \in (n + 1)..3, CoOpt!StageAfter(n, s) = CoOpt!Stages[k] PROVE CoOpt!StageAfter(n, s) \in {"bootstrap", "instruction", "hyperparameter"}
  <2>1. k = 1 \/ k = 2 \/ k = 3
    OBVIOUS
  <2> QED BY <1>2, <2>1, StageNames
<1> QED BY <1>1, <1>2, StageAfterIsLaterOrEnd

LEMMA StageAfterIsLater ==
  ASSUME NEW n \in 0..3, NEW s, NEW k \in 1..3, CoOpt!StageAfter(n, s) = CoOpt!Stages[k]
  PROVE  n < k
<1>1. k = 1 \/ k = 2 \/ k = 3
  OBVIOUS
<1>2. CoOpt!Stages[k] # "final"
  BY <1>1, StageNames
<1>3. PICK j \in (n + 1)..3 : CoOpt!StageAfter(n, s) = CoOpt!Stages[j]
  BY <1>2, StageAfterIsLaterOrEnd
<1>4. j \in 1..3 /\ CoOpt!Stages[j] = CoOpt!Stages[k] /\ j > n
  BY <1>3
<1> QED BY <1>4, StagesDiffer

\* ... which, if it is a stage, begins with budget left.
LEMMA StageAfterHasBudget ==
  ASSUME NEW n \in 0..3, NEW s, CoOpt!StageAfter(n, s) # "final"
  PROVE  ~CoOpt!BudgetHit(s)
BY DEF CoOpt!StageAfter

\* A stage that is left leads to a stage with budget left, or to the end.
LEMMA LeaveHasBudget ==
  ASSUME NEW n \in 1..3, NEW reason, CoOpt!Leave(n, reason)
  PROVE  /\ v4' = 0
         /\ \/ v3' = "final"
            \/ /\ v3' \in {"bootstrap", "instruction", "hyperparameter"}
               /\ CoOpt!HasTracker => ~CoOpt!ExhaustedNow
<1> DEFINE s == IF reason = "completed" THEN v11 ELSE reason
<1>1. v3' = CoOpt!StageAfter(n, s) /\ v4' = 0
  BY DEF CoOpt!Leave
<1> HIDE DEF s
<1>2. n \in 0..3
  OBVIOUS
<1>3. v3' # "final" => ~CoOpt!BudgetHit(s)
  BY <1>1, <1>2, StageAfterHasBudget
<1>4. v3' \in {"bootstrap", "instruction", "hyperparameter", "final"}
  BY <1>1, <1>2, StageAfterIsStage
<1> QED BY <1>1, <1>3, <1>4 DEF CoOpt!BudgetHit

-----------------------------------------------------------------------------
(* The budget                                                              *)

\* What a trial that is consumed does to the counters.
LEMMA ConsumeCounts ==
  ASSUME CapsAreNumbers, BudgetInv, CoOpt!Consume, UNCHANGED v1
  PROVE  /\ v9' \in Nat
         /\ v10' => TimeCap
         /\ v1 # None => /\ v1 \in Nat /\ CoOpt!HasTracker
                         /\ v9' = v9 + 1
                         /\ ~CoOpt!ExhaustedNow => v9' < v1
BY DEF CapsAreNumbers, BudgetInv, CoOpt!Consume, CoOpt!HasTracker, CoOpt!ExhaustedNow,
   CoOpt!ExhaustedAt

LEMMA BudgetInvInit == ASSUME CapsAreNumbers, CoOpt!Init PROVE BudgetInv
BY StageNames DEF CapsAreNumbers, CoOpt!Init, BudgetInv, WithinCap

\* Raising changes nothing but the stage.
LEMMA RaisesKeepsBudget ==
  ASSUME CapsAreNumbers, BudgetInv, NEW v, CoOpt!Raises(v), UNCHANGED CoOpt!arguments
  PROVE  BudgetInv'
BY StageNamesPrimed DEF CoOpt!Raises, CoOpt!arguments, CoOpt!stageVars, BudgetInv, WithinCap

\* A stage is left: what it spent, one beyond the cap at most, is below the
\* cap if another stage follows.
LEMMA LeaveKeepsBudget ==
  ASSUME CapsAreNumbers, BudgetInv, NEW n \in 1..3, NEW reason,
         CoOpt!Leave(n, reason), UNCHANGED CoOpt!arguments,
         v9' \in Nat, v10' => TimeCap,
         v1 # None => v9' <= v1 + 1
  PROVE  BudgetInv'
<1>1. v1' = v1 /\ (v1 # None => v1 \in Nat /\ CoOpt!HasTracker)
  BY DEF CapsAreNumbers, BudgetInv, CoOpt!HasTracker, CoOpt!arguments
<1>2. v4' = 0 /\ v3' # "baseline"
  BY LeaveHasBudget
<1>3. CASE v3' = "final"
  BY <1>1, <1>2, <1>3, StageNamesPrimed DEF BudgetInv, WithinCap
<1>4. CASE v3' # "final"
  <2>1. v1 # None => v9' < v1
    BY <1>1, <1>4, LeaveHasBudget DEF CoOpt!ExhaustedNow, CoOpt!ExhaustedAt
  <2> QED BY <1>1, <1>2, <1>4, <2>1, StageNamesPrimed, LeaveHasBudget
          DEF BudgetInv, WithinCap
<1> QED BY <1>3, <1>4

-----------------------------------------------------------------------------
(* One lemma per action                                                    *)

LEMMA FirstEvaluationKeepsBudget ==
  ASSUME CapsAreNumbers, BudgetInv, CoOpt!FirstEvaluation, UNCHANGED CoOpt!arguments
  PROVE  BudgetInv'
<1>1. CASE CoOpt!Raises(v5)
  BY <1>1, RaisesKeepsBudget
<1>2. CASE ~CoOpt!Raises(v5)
  <2> DEFINE s == IF CoOpt!ExhaustedNow THEN CoOpt!Reason(v9') ELSE "completed"
  <2>1. /\ v3 = "baseline" /\ CoOpt!Consume /\ v4' = v4 /\ v1' = v1
        /\ v3' = CoOpt!StageAfter(0, s)
    BY <1>2 DEF CoOpt!FirstEvaluation, CoOpt!stageVars, CoOpt!arguments
  <2> HIDE DEF s
  <2>2. /\ v9' \in Nat /\ (v10' => TimeCap)
        /\ v1 # None => v1 \in Nat /\ CoOpt!HasTracker /\ v9' = 1
    BY <2>1, ConsumeCounts DEF BudgetInv, WithinCap, CoOpt!arguments
  <2>3. v3' \in {"bootstrap", "instruction", "hyperparameter", "final"}
    BY <2>1, StageAfterIsStage
  <2>4. v1 # None /\ v3' # "final" => v9' < v1
    BY <2>1, <2>2, StageAfterHasBudget DEF CoOpt!BudgetHit, CoOpt!ExhaustedNow, CoOpt!ExhaustedAt
  <2> QED BY <2>1, <2>2, <2>3, <2>4, StageNamesPrimed DEF BudgetInv, WithinCap
<1> QED BY <1>1, <1>2

LEMMA StageBaselineKeepsBudget ==
  ASSUME CapsAreNumbers, BudgetInv, NEW n \in 1..3, CoOpt!StageBaseline(n),
         UNCHANGED CoOpt!arguments
  PROVE  BudgetInv'
<1>1. CASE CoOpt!Raises(v5)
  BY <1>1, RaisesKeepsBudget
<1>2. CASE ~CoOpt!Raises(v5)
  <2>1. /\ v3 = CoOpt!Stages[n] /\ v4 = 0 /\ CoOpt!Consume
        /\ \/ CoOpt!Leave(n, CoOpt!Reason(v9'))
           \/ ~(n = 1 /\ CoOpt!ExhaustedNow) /\ v3' = CoOpt!Stages[n] /\ v4' = 1
    BY <1>2 DEF CoOpt!StageBaseline, CoOpt!Stay
  <2>2. v1' = v1 /\ CoOpt!InStage
    BY <2>1 DEF CoOpt!arguments, CoOpt!InStage
  <2>3. /\ v9' \in Nat /\ (v10' => TimeCap)
        /\ v1 # None => v1 \in Nat /\ v9' <= v1
    BY <2>1, <2>2, ConsumeCounts DEF BudgetInv, WithinCap
  <2>4. CASE CoOpt!Leave(n, CoOpt!Reason(v9'))
    BY <2>3, <2>4, LeaveKeepsBudget
  <2>5. CASE ~(n = 1 /\ CoOpt!ExhaustedNow) /\ v3' = CoOpt!Stages[n] /\ v4' = 1
    <3>1. v3' \in {"bootstrap", "instruction", "hyperparameter"}
      BY <2>5, StageNames
    <3>2. v3' = "bootstrap" => n = 1
      <4>1. n = 1 \/ n = 2 \/ n = 3
        OBVIOUS
      <4> QED BY <2>5, <4>1, StageNames
    <3>3. v1 # None /\ v3' = "bootstrap" => v9' < v1
      BY <2>1, <2>2, <2>5, <3>2, ConsumeCounts
    <3> QED BY <2>2, <2>3, <2>5, <3>1, <3>3, StageNamesPrimed DEF BudgetInv, WithinCap
  <2> QED BY <2>1, <2>4, <2>5
<1> QED BY <1>1, <1>2

\* The training run begins with budget left; its demos are evaluated whatever
\* it used up.
LEMMA TrainKeepsBudget ==
  ASSUME CapsAreNumbers, BudgetInv, CoOpt!Train, UNCHANGED CoOpt!arguments
  PROVE  BudgetInv'
<1>1. CASE CoOpt!Raises(v5)
  BY <1>1, RaisesKeepsBudget
<1>2. CASE ~CoOpt!Raises(v5)
  <2>1. /\ v3 = "bootstrap" /\ v4 = 1 /\ CoOpt!Consume
        /\ \/ v3' = "bootstrap" /\ v4' = 2
           \/ CoOpt!Leave(1, "completed")
    BY <1>2, StageNames DEF CoOpt!Train, CoOpt!Stay
  <2>2. /\ v1' = v1 /\ v9' \in Nat /\ (v10' => TimeCap)
        /\ v1 # None => v1 \in Nat /\ v9' <= v1
    BY <2>1, ConsumeCounts DEF BudgetInv, WithinCap, CoOpt!arguments
  <2>3. CASE CoOpt!Leave(1, "completed")
    BY <2>2, <2>3, LeaveKeepsBudget
  <2>4. CASE v3' = "bootstrap" /\ v4' = 2
    BY <2>2, <2>4, StageNamesPrimed DEF BudgetInv, WithinCap
  <2> QED BY <2>1, <2>3, <2>4
<1> QED BY <1>1, <1>2

LEMMA WithDemosKeepsBudget ==
  ASSUME CapsAreNumbers, BudgetInv, CoOpt!WithDemos, UNCHANGED CoOpt!arguments
  PROVE  BudgetInv'
<1>1. CASE CoOpt!Raises(CoOpt!Fresh(1))
  BY <1>1, RaisesKeepsBudget
<1>2. CASE ~CoOpt!Raises(CoOpt!Fresh(1))
  <2>1. /\ CoOpt!InStage /\ CoOpt!Consume
        /\ \E reason : CoOpt!Leave(1, reason)
    BY <1>2, StageNames DEF CoOpt!WithDemos
  <2>2. /\ v9' \in Nat /\ (v10' => TimeCap)
        /\ v1 # None => v9' <= v1 + 1
    BY <2>1, ConsumeCounts DEF BudgetInv, WithinCap, CoOpt!arguments
  <2> QED BY <2>1, <2>2, LeaveKeepsBudget
<1> QED BY <1>1, <1>2

\* A loop that ends spends nothing.
LEMMA LoopEndKeepsBudget ==
  ASSUME CapsAreNumbers, BudgetInv, NEW n \in 1..3, NEW reason, CoOpt!InStage,
         UNCHANGED <<v9, v10>>, CoOpt!Leave(n, reason), UNCHANGED CoOpt!arguments
  PROVE  BudgetInv'
<1>1. /\ v9' \in Nat /\ (v10' => TimeCap)
      /\ v1 # None => v9' <= v1 + 1
  BY DEF BudgetInv, WithinCap, CapsAreNumbers
<1> QED BY <1>1, LeaveKeepsBudget

\* A loop asks the tracker before every trial.
LEMMA LoopTrialKeepsBudget ==
  ASSUME CapsAreNumbers, BudgetInv, NEW n \in {2, 3}, NEW limit, NEW reason,
         ~CoOpt!LoopOver(limit), CoOpt!Consume, UNCHANGED CoOpt!arguments,
         CoOpt!Leave(n, reason) \/ (CoOpt!Stay(n) /\ v4' = v4 + 1)
  PROVE  BudgetInv'
<1>1. /\ v1' = v1 /\ v9' \in Nat /\ (v10' => TimeCap)
      /\ v1 # None => v1 \in Nat /\ v9' <= v1
  BY ConsumeCounts DEF BudgetInv, CoOpt!LoopOver, CoOpt!ExhaustedAt, CoOpt!arguments
<1>2. CASE CoOpt!Leave(n, reason)
  BY <1>1, <1>2, LeaveKeepsBudget
<1>3. CASE CoOpt!Stay(n) /\ v4' = v4 + 1
  <2>1. v3' \in {"instruction", "hyperparameter"}
    BY <1>3, StageNames DEF CoOpt!Stay
  <2>2. v4' \in Nat /\ v4' # 0
    BY <1>3 DEF BudgetInv
  <2> QED BY <1>1, <2>1, <2>2, StageNamesPrimed DEF BudgetInv, WithinCap
<1> QED BY <1>2, <1>3

LEMMA InstructionEndsKeepsBudget ==
  ASSUME CapsAreNumbers, BudgetInv, CoOpt!InstructionEnds, UNCHANGED CoOpt!arguments
  PROVE  BudgetInv'
BY LoopEndKeepsBudget, StageNames DEF CoOpt!InstructionEnds

LEMMA ProposeKeepsBudget ==
  ASSUME CapsAreNumbers, BudgetInv, CoOpt!Propose, UNCHANGED CoOpt!arguments
  PROVE  BudgetInv'
<1>1. CASE CoOpt!Raises(v5) \/ CoOpt!Raises(CoOpt!Fresh(2))
  BY <1>1, RaisesKeepsBudget
<1>2. CASE ~(CoOpt!Raises(v5) \/ CoOpt!Raises(CoOpt!Fresh(2)))
  <2>1. /\ ~CoOpt!LoopOver(MaxProposals) /\ CoOpt!Consume
        /\ CoOpt!Leave(2, "patience") \/ (CoOpt!Stay(2) /\ v4' = v4 + 1)
    BY <1>2 DEF CoOpt!Propose
  <2> QED BY <2>1, LoopTrialKeepsBudget
<1> QED BY <1>1, <1>2

LEMMA ConfigsEndKeepsBudget ==
  ASSUME CapsAreNumbers, BudgetInv, CoOpt!ConfigsEnd, UNCHANGED CoOpt!arguments
  PROVE  BudgetInv'
BY LoopEndKeepsBudget, StageNames DEF CoOpt!ConfigsEnd

LEMMA TryConfigKeepsBudget ==
  ASSUME CapsAreNumbers, BudgetInv, CoOpt!TryConfig, UNCHANGED CoOpt!arguments
  PROVE  BudgetInv'
<1>1. CASE CoOpt!Raises(CoOpt!Fresh(3))
  BY <1>1, RaisesKeepsBudget
<1>2. CASE ~CoOpt!Raises(CoOpt!Fresh(3))
  <2>1. /\ ~CoOpt!LoopOver(MaxConfigs) /\ CoOpt!Consume /\ CoOpt!Stay(3) /\ v4' = v4 + 1
    BY <1>2 DEF CoOpt!TryConfig
  <2> QED BY <2>1, LoopTrialKeepsBudget
<1> QED BY <1>1, <1>2

LEMMA FinalEvaluationKeepsBudget ==
  ASSUME CapsAreNumbers, BudgetInv, CoOpt!FinalEvaluation, UNCHANGED CoOpt!arguments
  PROVE  BudgetInv'
<1>1. CASE CoOpt!Raises(v5)
  BY <1>1, RaisesKeepsBudget
<1>2. CASE ~CoOpt!Raises(v5)
  <2>1. /\ v3 = "final" /\ CoOpt!Consume /\ v3' = "returned"
        /\ v4' = v4 /\ v1' = v1
    BY <1>2 DEF CoOpt!FinalEvaluation, CoOpt!stageVars, CoOpt!arguments
  <2>2. /\ v9' \in Nat /\ (v10' => TimeCap)
        /\ v1 # None => v9' <= v1 + 2
    BY <2>1, ConsumeCounts DEF BudgetInv, WithinCap
  <2> QED BY <2>1, <2>2, StageNamesPrimed DEF BudgetInv, WithinCap
<1> QED BY <1>1, <1>2

-----------------------------------------------------------------------------
(* The theorems                                                            *)

LEMMA BudgetInvNext ==
  ASSUME CapsAreNumbers, BudgetInv, [CoOpt!Next]_(CoOpt!vars)
  PROVE  BudgetInv'
<1>1. CASE UNCHANGED CoOpt!vars
  BY <1>1 DEF CoOpt!vars, CoOpt!arguments, CoOpt!stageVars, BudgetInv, WithinCap, CoOpt!InStage
<1>2. CASE CoOpt!Next
  BY <1>2, FirstEvaluationKeepsBudget, StageBaselineKeepsBudget, TrainKeepsBudget,
     WithDemosKeepsBudget, InstructionEndsKeepsBudget, ProposeKeepsBudget,
     ConfigsEndKeepsBudget, TryConfigKeepsBudget, FinalEvaluationKeepsBudget
  DEF CoOpt!Next
<1> QED BY <1>1, <1>2

\* The inductive invariant: what each stage may have spent.
THEOREM BudgetInvariantHolds == CapsAreNumbers /\ CoOpt!Spec => []BudgetInv
<1> SUFFICES ASSUME CapsAreNumbers PROVE CoOpt!Spec => []BudgetInv
  OBVIOUS
<1>1. CoOpt!Init => BudgetInv
  BY BudgetInvInit
<1>2. BudgetInv /\ [CoOpt!Next]_(CoOpt!vars) => BudgetInv'
  BY BudgetInvNext
<1> QED BY <1>1, <1>2, PTL DEF CoOpt!Spec

\* The three optimizers that share a tracker exceed a cap on trials by two at
\* most, whatever the cap, the stages asked for and the trials a stage may do
\* (co_optimizer.py's one tracker for all children).
THEOREM TrialsBoundedHolds == CapsAreNumbers /\ CoOpt!Spec => []CoOpt!TrialsBounded
<1> SUFFICES ASSUME CapsAreNumbers PROVE CoOpt!Spec => []CoOpt!TrialsBounded
  OBVIOUS
<1>1. BudgetInv => CoOpt!TrialsBounded
  BY DEF BudgetInv, WithinCap, CoOpt!TrialsBounded
<1>2. CoOpt!Spec => []BudgetInv
  BY BudgetInvariantHolds
<1> QED BY <1>1, <1>2, PTL

\* A stage is entered only by leaving another one, or after the first
\* evaluation.
LEMMA StageBeginsWithBudget ==
  ASSUME CoOpt!Next, CoOpt!InStage', v3' # v3
  PROVE  CoOpt!HasTracker => ~CoOpt!ExhaustedNow
<1>1. v3' \in {"bootstrap", "instruction", "hyperparameter"}
  BY StageNamesPrimed
<1>2. ~CoOpt!Raises(v5) /\ ~CoOpt!Raises(CoOpt!Fresh(1)) /\ ~CoOpt!Raises(CoOpt!Fresh(2)) /\ ~CoOpt!Raises(CoOpt!Fresh(3))
  BY <1>1 DEF CoOpt!Raises
<1>3. CASE CoOpt!FirstEvaluation
  <2>1. \E s : v3' = CoOpt!StageAfter(0, s)
    BY <1>2, <1>3 DEF CoOpt!FirstEvaluation
  <2> QED BY <1>1, <2>1, StageAfterHasBudget DEF CoOpt!BudgetHit
<1>4. ASSUME NEW n \in 1..3, CoOpt!StageBaseline(n)
      PROVE  CoOpt!Leave(n, CoOpt!Reason(v9'))
  BY <1>2, <1>4 DEF CoOpt!StageBaseline, CoOpt!Stay
<1>5. CoOpt!Train => CoOpt!Leave(1, "completed")
  BY <1>2, StageNames DEF CoOpt!Train, CoOpt!Stay
<1>6. CoOpt!WithDemos => \E reason : CoOpt!Leave(1, reason)
  BY <1>2 DEF CoOpt!WithDemos
<1>7. CoOpt!InstructionEnds \/ CoOpt!Propose => \E reason : CoOpt!Leave(2, reason)
  BY <1>2, StageNames DEF CoOpt!InstructionEnds, CoOpt!Propose, CoOpt!Stay
<1>8. CoOpt!ConfigsEnd \/ CoOpt!TryConfig => \E reason : CoOpt!Leave(3, reason)
  BY <1>2, StageNames DEF CoOpt!ConfigsEnd, CoOpt!TryConfig, CoOpt!Stay
<1>9. ~CoOpt!FinalEvaluation
  BY <1>1, <1>2 DEF CoOpt!FinalEvaluation
<1>10. CASE \E n \in 1..3 : \E reason : CoOpt!Leave(n, reason)
  BY <1>1, <1>10, LeaveHasBudget
<1> QED BY <1>3, <1>4, <1>5, <1>6, <1>7, <1>8, <1>9, <1>10 DEF CoOpt!Next

LEMMA StageEnteredWithBudget ==
  ASSUME CapsAreNumbers, BudgetInv, [CoOpt!Next]_(CoOpt!vars), CoOpt!InStage', v3' # v3
  PROVE  ~CoOpt!ExhaustedAt(v9', v10')
<1>1. CoOpt!Next
  BY DEF CoOpt!vars
<1>2. v1' = v1 /\ BudgetInv'
  BY <1>1, BudgetInvNext DEF CoOpt!Next, CoOpt!arguments
<1>3. CoOpt!HasTracker => ~CoOpt!ExhaustedNow
  BY <1>1, StageBeginsWithBudget
<1> QED BY <1>2, <1>3 DEF CoOpt!HasTracker, CoOpt!ExhaustedNow, CoOpt!ExhaustedAt, BudgetInv

\* Proposed before this trial of stage n.
Before(v, n) ==
  /\ v[1] \in Int /\ v[2] \in Int
  /\ v[1] < n \/ (v[1] = n /\ v[2] < v4)

\* A stage knows its best: it measured it and nothing better.  Bootstrap and the
\* instruction stage have it on the call all the time.  What a stage has
\* measured is from an earlier stage or an earlier trial, so that what it
\* proposes next is new.
KeepsInv ==
  /\ v4 \in Nat
  /\ v6.score \in Int /\ v7.score \in Int
  /\ \A m \in v12 : m.score \in Int
  /\ v3 = "baseline" => v12 = {}
  /\ v3 \in {"baseline", "final"} => v4 = 0
  /\ CoOpt!InStage /\ v4 > 0 => \A n \in 1..3 : v3 = CoOpt!Stages[n] => \A m \in v12 : Before(m.variant, n)
  /\ CoOpt!InStage /\ v4 = 0 => \A n \in 1..3 : v3 = CoOpt!Stages[n] =>
       v5[1] \in Int /\ v5[2] \in Int /\ v5[1] < n
  /\ CoOpt!InStage /\ v4 > 0 =>
       /\ v6 \in v12 /\ v7 \in v12
       /\ \A m \in v12 : m.score <= v6.score
       /\ v3 # "hyperparameter" => v5 = v6.variant
  /\ CoOpt!StageKeepsBest

LEMMA KeepsInit == ASSUME CoOpt!Init PROVE KeepsInv
BY DEF CoOpt!Init, KeepsInv, CoOpt!StageKeepsBest, CoOpt!Nothing, CoOpt!InStage, CoOpt!Stages,
   CoOpt!AsPassed

LEMMA KeepsMeasure ==
  ASSUME ScoresAreNumbers, KeepsInv, CoOpt!InStage, v4 > 0, NEW v, NEW score \in Scores, CoOpt!Measure(v, score),
         UNCHANGED v7
  PROVE  /\ v6'.score \in Int /\ v7'.score \in Int /\ \A m \in v12' : m.score \in Int
         /\ v6' \in v12' /\ v7' \in v12'
         /\ \A m \in v12' : m.score <= v6'.score
         /\ v6' = IF score > v6.score THEN [variant |-> v, score |-> score] ELSE v6
         /\ v12' = v12 \union {[variant |-> v, score |-> score]}
<1> DEFINE new == [variant |-> v, score |-> score]
<1>1. /\ v6.score \in Int /\ v7.score \in Int /\ \A m \in v12 : m.score \in Int
      /\ v6 \in v12 /\ v7 \in v12 /\ \A m \in v12 : m.score <= v6.score
  BY DEF KeepsInv
<1>2. new.score = score /\ score \in Int
  BY DEF ScoresAreNumbers
<1>3. v12' = v12 \union {new} /\ v6' = IF new.score > v6.score THEN new ELSE v6
  BY DEF CoOpt!Measure, CoOpt!Better
<1> HIDE DEF new
<1>4. v6'.score \in Int /\ v6' \in v12' /\ \A m \in v12' : m.score \in Int /\ m.score <= v6'.score
  BY <1>1, <1>2, <1>3
<1> QED BY <1>1, <1>2, <1>3, <1>4 DEF new

LEMMA KeepsNext == ASSUME ScoresAreNumbers, KeepsInv, [CoOpt!Next]_(CoOpt!vars) PROVE KeepsInv'
<1>0. /\ v4 \in Nat /\ v6.score \in Int /\ v7.score \in Int /\ \A m \in v12 : m.score \in Int
      /\ CoOpt!InStage /\ v4 > 0 => /\ v6 \in v12 /\ v7 \in v12
                                    /\ \A m \in v12 : m.score <= v6.score
                                    /\ v3 # "hyperparameter" => v5 = v6.variant
  BY DEF KeepsInv
<1>a. /\ CoOpt!InStage <=> v3 \in {"bootstrap", "instruction", "hyperparameter"}
      /\ CoOpt!InStage' <=> v3' \in {"bootstrap", "instruction", "hyperparameter"}
      /\ CoOpt!Stages[1] = "bootstrap" /\ CoOpt!Stages[2] = "instruction" /\ CoOpt!Stages[3] = "hyperparameter"
  BY StageNames, StageNamesPrimed
<1>b. ASSUME NEW n \in 0..3, NEW s, NEW k \in 1..3, CoOpt!StageAfter(n, s) = CoOpt!Stages[k] PROVE n < k
  BY <1>b, StageAfterIsLater
\* What a stage that ends owes.
<1>c. ASSUME NEW n \in 1..3, NEW reason, CoOpt!Leave(n, reason),
             v6'.score \in Int, v7'.score \in Int, \A m \in v12' : m.score \in Int,
             v5'[1] \in Int, v5'[2] \in Int, v5'[1] <= n,
             \E k \in v12' : k.variant = v5' /\ \A m \in v12' : m.score <= k.score
      PROVE  KeepsInv'
  <2>1. v4' = 0 /\ \E s : v3' = CoOpt!StageAfter(n, s)
    BY <1>c DEF CoOpt!Leave
  <2>0. PICK s : v3' = CoOpt!StageAfter(n, s)
    BY <2>1
  <2>2. v3' # "baseline"
    BY <2>0, StageAfterIsStage
  <2>3. \A k \in 1..3 : v3' = CoOpt!Stages[k] => n < k
    <3> TAKE k \in 1..3
    <3> HAVE v3' = CoOpt!Stages[k]
    <3>1. CoOpt!StageAfter(n, s) = CoOpt!Stages[k]
      BY <2>0
    <3> QED BY <1>b, <3>1
  <2>4. \A k \in 1..3 : v3' = CoOpt!Stages[k] => v5'[1] < k
    BY <1>c, <2>3
  <2>5. CoOpt!StageKeepsBest'
    BY <1>c, <2>1 DEF CoOpt!StageKeepsBest
  <2> QED BY <1>c, <2>1, <2>2, <2>4, <2>5 DEF KeepsInv
\* What a stage that goes on owes.
<1>d. ASSUME NEW n \in 1..3, v3' = CoOpt!Stages[n], v4' \in Nat, v4' > 0,
             v6'.score \in Int, v7'.score \in Int, \A m \in v12' : m.score \in Int,
             v6' \in v12', v7' \in v12',
             \A m \in v12' : m.score <= v6'.score,
             \A m \in v12' : Before(m.variant, n)',
             n # 3 => v5' = v6'.variant
      PROVE  KeepsInv'
  <2>1. v3' \notin {"baseline", "final", "raised"} /\ (v3' # "hyperparameter" => v5' = v6'.variant)
    BY <1>a, <1>d
  <2>2. \A k \in 1..3 : v3' = CoOpt!Stages[k] => k = n
    BY <1>d, StagesDiffer
  <2> QED BY <1>d, <2>1, <2>2 DEF KeepsInv, CoOpt!StageKeepsBest
\* An optimizer that raises leaves the best or what was never measured.
<1>e. ASSUME NEW v, CoOpt!Raises(v), v12 = {} => v = CoOpt!AsPassed,
             v12 # {} => \/ \E k \in v12 : k.variant = v /\ \A m \in v12 : m.score <= k.score
                         \/ v4 > 0 /\ \A m \in v12 : m.variant # v
      PROVE  KeepsInv'
  <2>1. v3' = "raised" /\ v5' = v /\ UNCHANGED <<v4, v6, v7, v12>>
    BY <1>e DEF CoOpt!Raises, CoOpt!stageVars
  <2> QED BY <1>0, <1>a, <1>e, <2>1 DEF KeepsInv, CoOpt!StageKeepsBest
<1>g. ASSUME NEW n \in 1..3, v3 = CoOpt!Stages[n], v4 > 0, CoOpt!Raises(CoOpt!Fresh(n)) PROVE KeepsInv'
  <2>1. v12 # {} /\ \A m \in v12 : Before(m.variant, n)
    BY <1>0, <1>a, <1>g DEF KeepsInv
  <2>2. CoOpt!Fresh(n)[1] = n /\ CoOpt!Fresh(n)[2] = v4
    BY DEF CoOpt!Fresh
  <2>3. \A m \in v12 : m.variant # CoOpt!Fresh(n)
    <3> TAKE m \in v12
    <3>1. /\ m.variant[1] \in Int /\ m.variant[2] \in Int
          /\ m.variant[1] < n \/ (m.variant[1] = n /\ m.variant[2] < v4)
      BY <2>1 DEF Before
    <3>2. m.variant[1] # n \/ m.variant[2] # v4
      BY <1>0, <3>1
    <3> QED BY <2>2, <3>2
  <2> QED BY <1>e, <1>g, <2>1, <2>3
<1>h. ASSUME CoOpt!InStage, v4 > 0, v3 # "hyperparameter", CoOpt!Raises(v5) PROVE KeepsInv'
  <2>1. v6 \in v12 /\ v5 = v6.variant /\ \A m \in v12 : m.score <= v6.score
    BY <1>0, <1>h
  <2> QED BY <1>e, <1>h, <2>1
<1>i. ASSUME v3 # "raised", v4 = 0, CoOpt!Raises(v5) PROVE KeepsInv'
  <2>1. /\ v12 = {} => v5 = CoOpt!AsPassed
        /\ v12 # {} => \E k \in v12 : k.variant = v5 /\ \A m \in v12 : m.score <= k.score
    BY <1>i DEF KeepsInv, CoOpt!StageKeepsBest
  <2> QED BY <1>e, <1>i, <2>1
\* What a stage leaves on the call it has measured.
<1>j. ASSUME NEW n \in 1..3, v3 = CoOpt!Stages[n], v4 > 0, NEW m \in v12
      PROVE  m.variant[1] \in Int /\ m.variant[2] \in Int /\ m.variant[1] <= n
  <2>1. Before(m.variant, n)
    BY <1>a, <1>j DEF KeepsInv
  <2> QED BY <2>1 DEF Before
<1>f. ASSUME NEW n \in 1..3, v3 = CoOpt!Stages[n], v4 > 0, UNCHANGED <<v6, v7, v12>>,
             NEW reason, CoOpt!Leave(n, reason), v5' = v6.variant \/ v5' = CoOpt!Kept(1)
      PROVE  KeepsInv'
  <2>0. CoOpt!InStage
    BY <1>a, <1>f
  <2>1. PICK k \in {v6, v7} : k.variant = v5' /\ k.score >= v6.score
    BY <1>0, <1>f, <2>0 DEF CoOpt!Kept
  <2>2. k \in v12 /\ k \in v12' /\ k.variant = v5' /\ \A m \in v12' : m.score <= k.score
    BY <1>0, <1>f, <2>0, <2>1
  <2>3. v5'[1] \in Int /\ v5'[2] \in Int /\ v5'[1] <= n
    BY <1>f, <1>j, <2>2
  <2> QED BY <1>0, <1>c, <1>f, <2>2, <2>3
\* What a trial of stage n measured is older than the next trial of it.
<1>k. ASSUME NEW n \in 1..3, v3 = CoOpt!Stages[n], v4 > 0, v4' = v4 + 1, NEW score,
             v12' = v12 \union {[variant |-> CoOpt!Fresh(n), score |-> score]}
      PROVE  \A m \in v12' : Before(m.variant, n)'
  <2> TAKE m \in v12'
  <2>1. CASE m \in v12
    <3>1. Before(m.variant, n)
      BY <1>a, <1>k, <2>1 DEF KeepsInv
    <3> QED BY <1>0, <1>k, <3>1 DEF Before
  <2>2. CASE m.variant = <<n, v4>>
    <3>1. m.variant[1] = n /\ m.variant[2] = v4
      BY <2>2
    <3> QED BY <1>0, <1>k, <3>1 DEF Before
  <2> QED BY <1>k, <2>1, <2>2 DEF CoOpt!Fresh
<1>1. CASE CoOpt!FirstEvaluation
  <2>1. CASE CoOpt!Raises(v5)
    BY <1>1, <1>i, <2>1 DEF CoOpt!FirstEvaluation, KeepsInv
  <2>2. CASE ~CoOpt!Raises(v5)
    <3>1. /\ v3 = "baseline" /\ UNCHANGED <<v5, v12, v4, v6, v7>>
          /\ \E s : v3' = CoOpt!StageAfter(0, s)
      BY <1>1, <2>2 DEF CoOpt!FirstEvaluation, CoOpt!stageVars
    <3>2. v3' \in {"bootstrap", "instruction", "hyperparameter", "final"}
      BY <3>1, StageAfterIsStage
    <3>3. v12 = {} /\ v4 = 0 /\ v5 = CoOpt!AsPassed
      BY <3>1 DEF KeepsInv, CoOpt!StageKeepsBest
    <3>4. v5'[1] = 0 /\ v5'[2] = 0
      BY <3>1, <3>3 DEF CoOpt!AsPassed
    <3>5. CoOpt!StageKeepsBest'
      BY <3>1, <3>3 DEF CoOpt!StageKeepsBest
    <3> QED BY <1>0, <3>1, <3>2, <3>3, <3>4, <3>5 DEF KeepsInv
  <2> QED BY <2>1, <2>2
<1>2. ASSUME NEW n \in 1..3, CoOpt!StageBaseline(n) PROVE KeepsInv'
  <2>1. CASE CoOpt!Raises(v5)
    <3>1. v3 # "raised" /\ v4 = 0
      BY <1>2, <1>a DEF CoOpt!StageBaseline
    <3> QED BY <1>i, <2>1, <3>1
  <2>2. CASE ~CoOpt!Raises(v5)
    <3>1. /\ v3 = CoOpt!Stages[n] /\ v4 = 0 /\ v5' = v5
          /\ \E score \in Scores : CoOpt!Baseline(score)
          /\ CoOpt!Leave(n, CoOpt!Reason(v9')) \/ (CoOpt!Stay(n) /\ v4' = 1)
      BY <1>2, <2>2 DEF CoOpt!StageBaseline
    <3>2. PICK score \in Scores : CoOpt!Baseline(score)
      BY <3>1
    <3> DEFINE m == [variant |-> v5, score |-> score]
    <3>3. v6' = m /\ v7' = m /\ v12' = {m} /\ m.score \in Int /\ m.score <= m.score /\ m.variant = v5'
      BY <3>1, <3>2 DEF CoOpt!Baseline, ScoresAreNumbers
    <3> HIDE DEF m
    <3>4. v5'[1] \in Int /\ v5'[2] \in Int /\ v5'[1] < n
      BY <1>a, <3>1 DEF KeepsInv
    <3>5. CASE CoOpt!Leave(n, CoOpt!Reason(v9'))
      <4>2. \E k \in v12' : k.variant = v5' /\ \A j \in v12' : j.score <= k.score
        BY <3>3
      <4> QED BY <1>c, <3>3, <3>4, <3>5, <4>2
    <3>6. CASE CoOpt!Stay(n) /\ v4' = 1
      <4>1. \A j \in v12' : Before(j.variant, n)'
        BY <3>3, <3>4 DEF Before
      <4>2. v3' = CoOpt!Stages[n]
        BY <3>6 DEF CoOpt!Stay
      <4> QED BY <1>d, <3>3, <3>6, <4>1, <4>2
    <3> QED BY <3>1, <3>5, <3>6
  <2> QED BY <2>1, <2>2
<1>3. CASE CoOpt!Train
  <2>1. CASE CoOpt!Raises(v5)
    BY <1>3, <1>a, <1>h, <2>1 DEF CoOpt!Train
  <2>2. CASE ~CoOpt!Raises(v5)
    <3>1. /\ v3 = "bootstrap" /\ v4 = 1 /\ UNCHANGED <<v5, v6, v7, v12>>
          /\ (CoOpt!Stay(1) /\ v4' = 2) \/ CoOpt!Leave(1, "completed")
      BY <1>3, <2>2 DEF CoOpt!Train
    <3>0. /\ v6 \in v12 /\ v7 \in v12 /\ \A m \in v12 : m.score <= v6.score
          /\ v5 = v6.variant
      BY <1>0, <1>a, <3>1
    <3>2. CASE CoOpt!Stay(1) /\ v4' = 2
      <4>1. \A m \in v12' : Before(m.variant, 1)'
        <5> TAKE m \in v12'
        <5>1. Before(m.variant, 1)
          BY <1>a, <3>1 DEF KeepsInv
        <5> QED BY <3>1, <3>2, <5>1 DEF Before
      <4>2. v3' = CoOpt!Stages[1]
        BY <3>2 DEF CoOpt!Stay
      <4> QED BY <1>0, <1>d, <3>0, <3>1, <3>2, <4>1, <4>2
    <3>3. CASE CoOpt!Leave(1, "completed")
      BY <1>a, <1>f, <3>0, <3>1, <3>3
    <3> QED BY <3>1, <3>2, <3>3
  <2> QED BY <2>1, <2>2
<1>4. CASE CoOpt!WithDemos
  <2>0. v3 = CoOpt!Stages[1] /\ CoOpt!InStage /\ v4 = 2
    BY <1>4, <1>a DEF CoOpt!WithDemos
  <2>1. CASE CoOpt!Raises(CoOpt!Fresh(1))
    BY <1>g, <2>0, <2>1
  <2>2. CASE ~CoOpt!Raises(CoOpt!Fresh(1))
    <3>1. PICK score \in Scores :
            /\ CoOpt!Measure(CoOpt!Fresh(1), score) /\ UNCHANGED v7
            /\ v5' = IF score > v6.score THEN CoOpt!Fresh(1) ELSE v5
            /\ CoOpt!Leave(1, IF CoOpt!ExhaustedNow THEN CoOpt!Reason(v9') ELSE "completed")
      BY <1>4, <2>2 DEF CoOpt!WithDemos
    <3>4. /\ v6'.score \in Int /\ v7'.score \in Int /\ \A m \in v12' : m.score \in Int
          /\ v6' \in v12' /\ \A m \in v12' : m.score <= v6'.score
          /\ v6' = IF score > v6.score THEN [variant |-> CoOpt!Fresh(1), score |-> score] ELSE v6
      BY <2>0, <3>1, KeepsMeasure
    <3>5. v6'.variant = v5' /\ (v5' = CoOpt!Fresh(1) \/ (v6 \in v12 /\ v5' = v6.variant))
      BY <1>0, <1>a, <2>0, <3>1, <3>4
    <3>6. v5'[1] \in Int /\ v5'[2] \in Int /\ v5'[1] <= 1
      <4>1. CASE v5' = CoOpt!Fresh(1)
        BY <1>0, <4>1 DEF CoOpt!Fresh
      <4>2. CASE v6 \in v12 /\ v5' = v6.variant
        BY <1>j, <2>0, <4>2
      <4> QED BY <3>5, <4>1, <4>2
    <3>7. \E k \in v12' : k.variant = v5' /\ \A m \in v12' : m.score <= k.score
      BY <3>4, <3>5
    <3>8. CoOpt!Leave(1, IF CoOpt!ExhaustedNow THEN CoOpt!Reason(v9') ELSE "completed")
      BY <3>1
    <3> QED BY <1>c, <3>4, <3>6, <3>7, <3>8
  <2> QED BY <2>1, <2>2
<1>5. CASE CoOpt!InstructionEnds
  <2>1. /\ v3 = CoOpt!Stages[2] /\ v4 > 0 /\ v5' = CoOpt!Kept(1) /\ UNCHANGED <<v6, v7, v12>>
        /\ CoOpt!Leave(2, CoOpt!LoopReason(MaxProposals))
    BY <1>5, <1>a DEF CoOpt!InstructionEnds, CoOpt!Kept
  <2> QED BY <1>f, <2>1
<1>6. CASE CoOpt!Propose
  <2>0. v3 = CoOpt!Stages[2] /\ CoOpt!InStage /\ v4 > 0
    BY <1>6, <1>a DEF CoOpt!Propose
  <2>1. CASE CoOpt!Raises(v5)
    BY <1>6, <1>h, <2>0, <2>1 DEF CoOpt!Propose
  <2>3. CASE CoOpt!Raises(CoOpt!Fresh(2))
    BY <1>g, <2>0, <2>3
  <2>2. CASE ~(CoOpt!Raises(v5) \/ CoOpt!Raises(CoOpt!Fresh(2)))
    <3>1. PICK score \in Scores :
            /\ CoOpt!Measure(CoOpt!Fresh(2), score) /\ UNCHANGED v7 /\ v5' = v6'.variant
            /\ CoOpt!Leave(2, "patience") \/ (CoOpt!Stay(2) /\ v4' = v4 + 1)
      BY <1>6, <2>2 DEF CoOpt!Propose
    <3>4. /\ v6'.score \in Int /\ v7'.score \in Int /\ \A m \in v12' : m.score \in Int
          /\ v6' \in v12' /\ v7' \in v12' /\ \A m \in v12' : m.score <= v6'.score
          /\ v6' = IF score > v6.score THEN [variant |-> CoOpt!Fresh(2), score |-> score] ELSE v6
          /\ v12' = v12 \union {[variant |-> CoOpt!Fresh(2), score |-> score]}
      BY <2>0, <3>1, KeepsMeasure
    <3>5. CASE CoOpt!Leave(2, "patience")
      <4>1. v5'[1] \in Int /\ v5'[2] \in Int /\ v5'[1] <= 2
        <5>1. CASE v6' = v6
          <6>1. v6 \in v12 /\ v5' = v6.variant
            BY <1>0, <2>0, <3>1, <5>1
          <6> QED BY <1>j, <2>0, <6>1
        <5>2. CASE v5' = CoOpt!Fresh(2)
          BY <1>0, <5>2 DEF CoOpt!Fresh
        <5> QED BY <3>1, <3>4, <5>1, <5>2
      <4> QED BY <1>c, <3>1, <3>4, <3>5, <4>1
    <3>6. CASE CoOpt!Stay(2) /\ v4' = v4 + 1
      <4>1. v3' = CoOpt!Stages[2] /\ v4' = v4 + 1 /\ v4' \in Nat /\ v4' > 0
        BY <1>0, <2>0, <3>6 DEF CoOpt!Stay
      <4>2. \A m \in v12' : Before(m.variant, 2)'
        BY <1>k, <2>0, <3>4, <4>1
      <4> QED BY <1>d, <3>1, <3>4, <4>1, <4>2
    <3> QED BY <3>1, <3>5, <3>6
  <2> QED BY <2>1, <2>2, <2>3
<1>7. CASE CoOpt!ConfigsEnd
  <2>1. /\ v3 = CoOpt!Stages[3] /\ v4 > 0 /\ v5' = CoOpt!Kept(1) /\ UNCHANGED <<v6, v7, v12>>
        /\ CoOpt!Leave(3, CoOpt!LoopReason(MaxConfigs))
    BY <1>7, <1>a DEF CoOpt!ConfigsEnd, CoOpt!Kept
  <2> QED BY <1>f, <2>1
<1>8. CASE CoOpt!TryConfig
  <2>0. v3 = CoOpt!Stages[3] /\ CoOpt!InStage /\ v4 > 0
    BY <1>8, <1>a DEF CoOpt!TryConfig
  <2>1. CASE CoOpt!Raises(CoOpt!Fresh(3))
    BY <1>g, <2>0, <2>1
  <2>2. CASE ~CoOpt!Raises(CoOpt!Fresh(3))
    <3>1. PICK score \in Scores :
            CoOpt!Measure(CoOpt!Fresh(3), score) /\ UNCHANGED v7 /\ CoOpt!Stay(3) /\ v4' = v4 + 1
      BY <1>8, <2>2 DEF CoOpt!TryConfig
    <3>4. /\ v6'.score \in Int /\ v7'.score \in Int /\ \A m \in v12' : m.score \in Int
          /\ v6' \in v12' /\ v7' \in v12' /\ \A m \in v12' : m.score <= v6'.score
          /\ v12' = v12 \union {[variant |-> CoOpt!Fresh(3), score |-> score]}
      BY <2>0, <3>1, KeepsMeasure
    <3>5. v3' = CoOpt!Stages[3] /\ v4' \in Nat /\ v4' > 0
      BY <1>0, <2>0, <3>1 DEF CoOpt!Stay
    <3>6. \A m \in v12' : Before(m.variant, 3)'
      BY <1>k, <2>0, <3>1, <3>4
    <3> QED BY <1>d, <3>4, <3>5, <3>6
  <2> QED BY <2>1, <2>2
<1>9. CASE CoOpt!FinalEvaluation
  <2>0. v3 = "final" /\ v4 = 0
    BY <1>9 DEF CoOpt!FinalEvaluation, KeepsInv
  <2>1. CASE CoOpt!Raises(v5)
    BY <1>i, <2>0, <2>1
  <2>2. CASE ~CoOpt!Raises(v5)
    <3>1. v3 = "final" /\ v3' = "returned" /\ UNCHANGED <<v5, v4, v6, v7, v12>>
      BY <1>9, <2>2 DEF CoOpt!FinalEvaluation, CoOpt!stageVars
    <3> QED BY <1>0, <1>a, <3>1 DEF KeepsInv, CoOpt!StageKeepsBest
  <2> QED BY <2>1, <2>2
<1>10. CASE UNCHANGED CoOpt!vars
  <2>1. UNCHANGED <<v5, v3, v4, v6, v7, v12>>
    BY <1>10 DEF CoOpt!vars, CoOpt!stageVars
  <2>2. CoOpt!InStage' <=> CoOpt!InStage
    BY <1>a, <2>1
  <2> QED BY <2>1, <2>2 DEF KeepsInv, CoOpt!StageKeepsBest, Before
<1> QED BY <1>1, <1>2, <1>3, <1>4, <1>5, <1>6, <1>7, <1>8, <1>9, <1>10 DEF CoOpt!Next

-----------------------------------------------------------------------------
(* The joint search of MIPRO (JointSearch):                                *)
(* v1 at; v2 options; v3 round; v4 spent; v5 demos; v6 instrs; v7 tried;   *)
(* v8 promoted; v9 held; v10 best; v11 before; v12 stop;                   *)
(* Caps is SearchCaps; NumTrials is JointTrials;                           *)
(* FullScores is JointScores.                                              *)

\* What a charge makes of the reason, before the budget is used up and after.
LEMMA ChargeKeepsReason ==
  ASSUME JointConstants, Joint!ReasonFollowsBudget, Joint!Charge, v2' = v2, v1 # "raised"
  PROVE  /\ v4' \in Nat /\ v12' \in {"completed", "budget"}
         /\ v12' = "budget" <=> Joint!Exhausted(v4')
<1>1. /\ v4 \in Nat /\ v4' = v4 + 1 /\ v2.cap \in SearchCaps
      /\ v12' = IF Joint!Exhausted(v4') THEN "budget" ELSE v12
      /\ v12 \in {"completed", "budget"}
  BY DEF Joint!Charge, Joint!ReasonFollowsBudget
<1>2. v2.cap # None => v2.cap \in Nat
  BY <1>1 DEF JointConstants
<1>3. v12 = "budget" => Joint!Exhausted(v4)
  BY DEF Joint!ReasonFollowsBudget
<1>4. Joint!Exhausted(v4) => Joint!Exhausted(v4')
  BY <1>1, <1>2 DEF Joint!Exhausted
<1> QED BY <1>1, <1>3, <1>4

LEMMA ReasonInit == ASSUME Joint!Init PROVE Joint!ReasonFollowsBudget
BY DEF Joint!Init, Joint!ReasonFollowsBudget

LEMMA ReasonNext == ASSUME JointConstants, Joint!ReasonFollowsBudget, [Joint!Next]_(Joint!vars) PROVE Joint!ReasonFollowsBudget'
<1>1. ASSUME Joint!Charge, v2' = v2, v1 # "raised", v1' # "baseline" PROVE Joint!ReasonFollowsBudget'
  <2>1. /\ v4' \in Nat /\ v12' \in {"completed", "budget"}
        /\ v12' = "budget" <=> Joint!Exhausted(v4')
    BY <1>1, ChargeKeepsReason
  <2>2. v2'.cap \in SearchCaps
    BY <1>1 DEF Joint!ReasonFollowsBudget
  <2>3. Joint!Exhausted(v4)' <=> Joint!Exhausted(v4')
    BY <1>1 DEF Joint!Exhausted
  <2> QED BY <1>1, <2>1, <2>2, <2>3 DEF Joint!ReasonFollowsBudget
<1>2. ASSUME Joint!Free, v2' = v2, v1 # "baseline", v1 # "raised", v1' # "baseline"
      PROVE  Joint!ReasonFollowsBudget'
  <2>1. v4' = v4 /\ v12' = v12 /\ (Joint!Exhausted(v4)' <=> Joint!Exhausted(v4))
    BY <1>2 DEF Joint!Free, Joint!Exhausted
  <2> QED BY <1>2, <2>1 DEF Joint!ReasonFollowsBudget
<1>3. ASSUME UNCHANGED <<v2, v4, v12>>, v1' = "raised" \/ (v1 # "raised" /\ v1 # "baseline" /\ v1' # "baseline")
      PROVE  Joint!ReasonFollowsBudget'
  <2>1. Joint!Exhausted(v4)' <=> Joint!Exhausted(v4)
    BY <1>3 DEF Joint!Exhausted
  <2> QED BY <1>3, <2>1 DEF Joint!ReasonFollowsBudget
<1>4. ASSUME NEW score, Joint!Baseline(score) PROVE Joint!ReasonFollowsBudget'
  BY <1>1, <1>4 DEF Joint!Baseline
<1>5. ASSUME NEW score, Joint!Promoted(score) PROVE Joint!ReasonFollowsBudget'
  BY <1>1, <1>5 DEF Joint!Promoted
<1>6. ASSUME NEW score, Joint!Measured(score) PROVE Joint!ReasonFollowsBudget'
  <2>1. Joint!Charge /\ v2' = v2 /\ v1 = "measuring" /\ v1' # "baseline"
    BY <1>6 DEF Joint!Measured
  <2> QED BY <1>1, <2>1
<1>7. CASE Joint!Bootstrap
  BY <1>1, <1>2, <1>7 DEF Joint!Bootstrap
<1>8. CASE Joint!Summarize
  BY <1>1, <1>2, <1>8 DEF Joint!Summarize
<1>9. CASE Joint!Propose
  BY <1>1, <1>2, <1>9 DEF Joint!Propose
<1>10. CASE Joint!Bootstrapped \/ Joint!PromotionFails \/ Joint!Apply \/ Joint!Raises \/ \E key \in Joint!Space : Joint!Suggest(key)
  BY <1>3, <1>10 DEF Joint!Bootstrapped, Joint!PromotionFails, Joint!Apply, Joint!Raises,
     Joint!Suggest
<1>11. CASE UNCHANGED Joint!vars
  <2>1. UNCHANGED <<v2, v4, v12, v1>>
    BY <1>11 DEF Joint!vars
  <2>2. Joint!Exhausted(v4)' <=> Joint!Exhausted(v4)
    BY <2>1 DEF Joint!Exhausted
  <2> QED BY <2>1, <2>2 DEF Joint!ReasonFollowsBudget
<1> QED BY <1>4, <1>5, <1>6, <1>7, <1>8, <1>9, <1>10, <1>11 DEF Joint!Next

LEMMA ReasonImplies == ASSUME Joint!ReasonFollowsBudget PROVE Joint!StopReasonIsTrue
BY DEF Joint!ReasonFollowsBudget, Joint!StopReasonIsTrue

LEMMA BestInit == ASSUME Joint!Init PROVE Joint!BestSoFar
BY DEF Joint!Init, Joint!BestSoFar

LEMMA BestNext == ASSUME JointConstants, Joint!BestSoFar, [Joint!Next]_(Joint!vars) PROVE Joint!BestSoFar'
<1>0. JointScores \subseteq Int /\ None \notin JointScores
  BY DEF JointConstants
<1> DEFINE Found(b, p, s) ==
      /\ s \in JointScores /\ b.score \in JointScores /\ b.score >= s
      /\ \A k \in DOMAIN p : p[k] = None \/ (p[k] \in JointScores /\ p[k] <= b.score)
      /\ b.score > s => b.key \in DOMAIN p /\ p[b.key] = b.score
<1>f. v1 \notin {"baseline", "raised"} => Found(v10, v8, v11)
  BY DEF Joint!BestSoFar
<1>g. /\ v1 \notin {"measuring", "promoting", "returned"} => v9 = Joint!Original
      /\ v1 \notin {"searching", "measuring", "promoting", "returned", "raised"} => v8 = <<>>
      /\ v1 = "promoting" => v9 \in DOMAIN v8 /\ v8[v9] = None
  BY DEF Joint!BestSoFar
\* What every step owes.
<1>h. ASSUME /\ v1' \notin {"measuring", "promoting", "returned"} => v9' = Joint!Original
             /\ v1' = "returned" => v9' = Joint!Applied'
             /\ v1' \notin {"searching", "measuring", "promoting", "returned", "raised"} => v8' = <<>>
             /\ v1' = "promoting" => v9' \in DOMAIN v8' /\ v8'[v9'] = None,
             v1' \notin {"baseline", "raised"} => Found(v10', v8', v11')
      PROVE  Joint!BestSoFar'
  BY <1>h DEF Joint!BestSoFar
<1> HIDE DEF Found
<1>1. ASSUME NEW score \in JointScores, Joint!Baseline(score) PROVE Joint!BestSoFar'
  <2>1. /\ v1 = "baseline" /\ v11' = score /\ v10' = [key |-> Joint!Original, score |-> score]
        /\ v1' \in {"returned", "summarizing", "bootstrapping"} /\ UNCHANGED <<v8, v9>>
    BY <1>1 DEF Joint!Baseline
  <2>2. v8' = <<>> /\ v9' = Joint!Original /\ v10'.score = score /\ v10'.key = Joint!Original
    BY <1>g, <2>1
  <2>3. Found(v10', v8', v11')
    BY <1>0, <2>1, <2>2 DEF Found
  <2>4. Joint!Applied' = Joint!Original
    BY <2>2 DEF Joint!Applied
  <2> QED BY <1>h, <2>1, <2>2, <2>3, <2>4
<1>2. ASSUME NEW score \in JointScores, Joint!Promoted(score) PROVE Joint!BestSoFar'
  <2>1. /\ v1 = "promoting" /\ v8' = [v8 EXCEPT ![v9] = score]
        /\ v10' = IF Joint!Better(score) THEN [key |-> v9, score |-> score] ELSE v10
        /\ v1' = "searching" /\ v9' = Joint!Original /\ v11' = v11
    BY <1>2 DEF Joint!Promoted
  <2>2. Found(v10, v8, v11) /\ v9 \in DOMAIN v8 /\ v8[v9] = None
    BY <1>f, <1>g, <2>1
  <2>3. DOMAIN v8' = DOMAIN v8 /\ v8'[v9] = score
        /\ \A k \in DOMAIN v8 : k # v9 => v8'[k] = v8[k]
    BY <2>1, <2>2
  <2>4. CASE score > v10.score
    <3>1. v10'.key = v9 /\ v10'.score = score
      BY <2>1, <2>4 DEF Joint!Better
    <3> QED BY <1>0, <1>h, <2>1, <2>2, <2>3, <2>4, <3>1 DEF Found
  <2>5. CASE ~(score > v10.score)
    <3>1. v10' = v10
      BY <2>1, <2>5 DEF Joint!Better
    <3>2. v10.score > v11 => v10.key # v9
      BY <1>0, <2>2 DEF Found
    <3> QED BY <1>0, <1>h, <2>1, <2>2, <2>3, <2>5, <3>1, <3>2 DEF Found
  <2> QED BY <2>4, <2>5
<1>3. ASSUME UNCHANGED <<v8, v10, v11, v9>>, v1 \in {"bootstrapping", "summarizing", "proposing"},
             v1' \in {"bootstrapping", "summarizing", "proposing", "searching", "returned"}
      PROVE  Joint!BestSoFar'
  <2>1. Found(v10', v8', v11') /\ v8' = <<>> /\ v9' = Joint!Original
    BY <1>3, <1>f, <1>g
  <2>2. Joint!Applied' = Joint!Original
    BY <2>1 DEF Joint!Applied, Found
  <2> QED BY <1>3, <1>h, <2>1, <2>2
<1>4. CASE Joint!Bootstrap \/ Joint!Bootstrapped \/ Joint!Summarize \/ Joint!Propose
  BY <1>3, <1>4 DEF Joint!Bootstrap, Joint!Bootstrapped, Joint!Summarize, Joint!Propose
<1>5. ASSUME NEW key, Joint!Suggest(key) PROVE Joint!BestSoFar'
  <2>1. v1 = "searching" /\ v1' = "measuring" /\ UNCHANGED <<v8, v10, v11>>
    BY <1>5 DEF Joint!Suggest
  <2> QED BY <1>f, <1>h, <2>1
<1>6. ASSUME NEW score, Joint!Measured(score) PROVE Joint!BestSoFar'
  <2>1. v1 = "measuring" /\ UNCHANGED <<v10, v11>> /\ Found(v10, v8, v11)
    BY <1>6, <1>f DEF Joint!Measured
  <2>2. CASE v1' = "searching" /\ v9' = Joint!Original /\ UNCHANGED v8
    BY <1>h, <2>1, <2>2
  <2>3. CASE \E k \in Joint!BestMean(v7') :
               /\ v1' = "promoting" /\ v9' = k
               /\ v8' = [l \in DOMAIN v8 \union {k} |-> IF l = k THEN None ELSE v8[l]]
    <3>1. PICK k \in Joint!BestMean(v7') :
            /\ v1' = "promoting" /\ v9' = k
            /\ v8' = [l \in DOMAIN v8 \union {k} |-> IF l = k THEN None ELSE v8[l]]
      BY <2>3
    <3>2. k \notin DOMAIN v8
      BY DEF Joint!BestMean, Joint!Eligible
    <3>3. Found(v10', v8', v11')
      BY <2>1, <3>1, <3>2 DEF Found
    <3> QED BY <1>h, <3>1, <3>3
  <2> QED BY <1>6, <2>2, <2>3 DEF Joint!Measured
<1>7. CASE Joint!PromotionFails \/ Joint!Raises
  <2>1. /\ v1' \in {"searching", "raised"} /\ v9' = Joint!Original /\ UNCHANGED <<v8, v10, v11>>
        /\ v1' = "searching" => v1 = "promoting"
    BY <1>7 DEF Joint!PromotionFails, Joint!Raises
  <2> QED BY <1>f, <1>h, <2>1
<1>8. CASE Joint!Apply
  <2>1. v1 = "searching" /\ v1' = "returned" /\ v9' = Joint!Applied /\ UNCHANGED <<v8, v10, v11>>
    BY <1>8 DEF Joint!Apply
  <2>2. Joint!Applied' = Joint!Applied
    BY <2>1 DEF Joint!Applied
  <2> QED BY <1>f, <1>h, <2>1, <2>2
<1>9. CASE UNCHANGED Joint!vars
  BY <1>9 DEF Joint!vars, Joint!BestSoFar, Joint!Applied
<1> QED BY <1>1, <1>2, <1>4, <1>5, <1>6, <1>7, <1>8, <1>9 DEF Joint!Next

LEMMA BestSoFarImplies == ASSUME JointConstants, Joint!BestSoFar PROVE Joint!SearchKeepsBest
<1> DEFINE scores == {v8[k] : k \in DOMAIN v8} \ {None}
<1>0. JointScores \subseteq Int /\ None \notin JointScores
  BY DEF JointConstants
<1>1. ASSUME v1 = "returned"
      PROVE  /\ \A s \in scores : s <= v10.score
             /\ IF \E s \in scores : s > v11
                THEN v9 \in DOMAIN v8 /\ v8[v9] = v10.score /\ v10.score = Joint!Max(scores)
                ELSE v9 = Joint!Original /\ v10.score = v11
  <2>1. /\ v11 \in Int /\ v10.score \in Int /\ v10.score \in JointScores /\ v10.score >= v11
        /\ \A s \in scores : s \in Int /\ s <= v10.score
        /\ v10.score > v11 => v10.key \in DOMAIN v8 /\ v8[v10.key] = v10.score
        /\ v9 = Joint!Applied
    BY <1>0, <1>1 DEF Joint!BestSoFar
  <2>2. v10.score > v11 => v10.score \in scores
    BY <1>0, <2>1
  <2> HIDE DEF scores
  <2>3. v10.score \in scores => v10.score = Joint!Max(scores)
    <3>1. \A x \in scores : (\A y \in scores : x >= y) /\ v10.score \in scores => x = v10.score
      BY <2>1
    <3> QED BY <2>1, <3>1 DEF Joint!Max
  <2>4. CASE v10.score > v11
    BY <2>1, <2>2, <2>3, <2>4 DEF Joint!Applied
  <2>5. CASE ~(v10.score > v11)
    BY <2>1, <2>5 DEF Joint!Applied
  <2> QED BY <2>4, <2>5
<1> QED BY <1>1 DEF Joint!BestSoFar, Joint!SearchKeepsBest

-----------------------------------------------------------------------------
(* The random search of MIPRO lite (RandomSearch):                         *)
(* v1 at; v2 cap; v3 spent; v4 round; v5 demos; v6 instrs; v7 pairs;       *)
(* v8 candidates; v9 full; v10 held; v11 before; v12 stop;                 *)
(* Caps is SearchCaps; NumTrials is DrawTrials; FullScores is DrawScores.  *)

LEMMA LesserOfTwo ==
  ASSUME NEW a \in Nat, NEW b \in Nat
  PROVE  /\ Draws!Min({a, b}) = IF a <= b THEN a ELSE b
         /\ \A r \in Nat : r <= a /\ r <= b /\ (r >= a \/ r >= b) => r = Draws!Min({a, b})
<1>1. Draws!Min({a, b}) = IF a <= b THEN a ELSE b
  <2> DEFINE m == IF a <= b THEN a ELSE b
  <2>1. m \in {a, b} /\ \A y \in {a, b} : m <= y
    OBVIOUS
  <2>2. \A x \in {a, b} : (\A y \in {a, b} : x <= y) => x = m
    OBVIOUS
  <2> QED BY <2>1, <2>2 DEF Draws!Min
<1> QED BY <1>1

LEMMA StepsInit == ASSUME DrawConstants, Draws!Init PROVE Draws!StepsAreCounted
<1>1. /\ v1 = "baseline" /\ v4 = 0 /\ v5 = 1 /\ v6 = 1 /\ v7 = {} /\ v8 = <<>> /\ v9 = <<>>
  BY DEF Draws!Init
<1>2. /\ IsFiniteSet(v7) /\ v10 \in Nat \X Nat
      /\ v8 \in Seq([pair : Nat \X Nat, score : BatchScores])
      /\ v9 \in Seq([place : Nat, score : DrawScores \union {None}])
  BY <1>1, FS_EmptySet DEF Draws!Init, Draws!Original
<1> QED BY <1>1, <1>2, DrawsCounts DEF Draws!StepsAreCounted

\* Where every loop goes and what comes after it.
LEMMA Phases ==
  /\ DOMAIN Draws!Rounds = {"bootstrapping", "proposing", "sampling", "promoting"}
  /\ Draws!Rounds["sampling"] = DrawTrials /\ Draws!Rounds["promoting"] = NumPromoted
  /\ Draws!After["bootstrapping"] = "proposing" /\ Draws!After["proposing"] = "sampling"
  /\ Draws!After["sampling"] = "promoting" /\ Draws!After["promoting"] = "applying"
BY DEF Draws!Rounds, Draws!After

LEMMA LeavePhaseCounts == ASSUME DrawConstants, Draws!StepsAreCounted, Draws!LeavePhase PROVE Draws!StepsAreCounted'
<1>1. /\ v1 \in {"bootstrapping", "proposing", "sampling", "promoting"} /\ ~Draws!Goes
      /\ v1' = Draws!After[v1] /\ v4' = 0 /\ v12' = Draws!ReasonAfter
      /\ UNCHANGED <<v3, v5, v6, v7, v8, v9, v10>>
  BY Phases DEF Draws!LeavePhase, Draws!sampling
<1>2. /\ v5 \in Nat /\ v6 \in Nat /\ v4 \in Nat
      /\ IsFiniteSet(v7) /\ (v1 # "returned" => v10 \in Nat \X Nat)
      /\ v8 \in Seq([pair : Nat \X Nat, score : BatchScores]) /\ Len(v8) \in Nat
      /\ v9 \in Seq([place : Nat, score : DrawScores \union {None}]) /\ Len(v9) \in Nat
  BY DrawsCounts DEF Draws!StepsAreCounted
<1>3. CASE v1 = "bootstrapping"
  BY <1>1, <1>2, <1>3, Phases, DrawsCounts DEF Draws!StepsAreCounted
<1>4. CASE v1 = "proposing"
  <2>1. v1' = "sampling" /\ v7' = {} /\ v9' = <<>>
    BY <1>1, <1>4, Phases, DrawsCounts DEF Draws!StepsAreCounted
  <2>2. Cardinality(v7') = 0 /\ 0 <= DrawTrials /\ 0 <= v6 * v5
    BY <1>2, <2>1, FS_EmptySet DEF DrawConstants
  <2> QED BY <1>1, <1>2, <2>1, <2>2, DrawsCounts DEF Draws!StepsAreCounted
<1>5. CASE v1 = "sampling"
  <2> DEFINE most == v6 * v5
  <2>1. /\ v1' = "promoting" /\ v9 = <<>> /\ Cardinality(v7) = v4
        /\ v4 <= DrawTrials /\ v4 <= most
    BY <1>1, <1>5, Phases, DrawsCounts DEF Draws!StepsAreCounted
  <2>2. most \in Nat
    BY <1>2
  <2>3. v12' = IF v4 < DrawTrials /\ v4 < most THEN "budget" ELSE v12
    BY <1>1, <1>5, Phases DEF Draws!ReasonAfter, Draws!Available
  <2>4. v6' * v5' = most
    BY <1>1
  <2> HIDE DEF most
  <2>5. v12' = "completed" => v4 = Draws!Min({DrawTrials, most})
    <3>1. v12' = "completed" => v4 >= DrawTrials \/ v4 >= most
      BY <1>2, <2>2, <2>3 DEF DrawConstants
    <3> QED BY <1>2, <2>1, <2>2, <3>1, LesserOfTwo DEF DrawConstants
  <2>6. Len(v9) = 0
    BY <2>1
  <2>7. v12' = "completed" => Cardinality(v7') = Draws!Min({DrawTrials, v6' * v5'})
    BY <1>1, <2>1, <2>4, <2>5
  <2> QED BY <1>1, <1>2, <2>1, <2>6, <2>7, DrawsCounts DEF Draws!StepsAreCounted, DrawConstants
<1>6. CASE v1 = "promoting"
  <2>1. /\ v1' = "applying" /\ Len(v9) = v4
        /\ v4 <= NumPromoted /\ v4 <= Len(v8)
        /\ v12 = "completed" => Cardinality(v7) = Draws!Min({DrawTrials, v6 * v5})
    BY <1>1, <1>6, Phases, DrawsCounts DEF Draws!StepsAreCounted
  <2>2. v12' = IF v4 < NumPromoted /\ v4 < Len(v8) THEN "budget" ELSE v12
    BY <1>1, <1>6, Phases DEF Draws!ReasonAfter, Draws!Available
  <2>3. v12' = "completed" => v4 = Draws!Min({NumPromoted, Len(v8)})
    <3>1. v12' = "completed" => v4 >= NumPromoted \/ v4 >= Len(v8)
      BY <1>2, <2>2 DEF DrawConstants
    <3> QED BY <1>2, <2>1, <3>1, LesserOfTwo DEF DrawConstants
  <2>4. v12' = "completed" => v12 = "completed"
    BY <2>2
  <2>5. v12' = "completed" => /\ Cardinality(v7') = Draws!Min({DrawTrials, v6' * v5'})
                              /\ Len(v9') = Draws!Min({NumPromoted, Len(v8')})
    BY <1>1, <2>1, <2>3, <2>4
  <2> QED BY <1>1, <1>2, <2>1, <2>5, DrawsCounts DEF Draws!StepsAreCounted
<1> QED BY <1>1, <1>3, <1>4, <1>5, <1>6

LEMMA DrawCounts == ASSUME DrawConstants, Draws!StepsAreCounted, NEW pair, Draws!Draw(pair) PROVE Draws!StepsAreCounted'
<1>1. /\ v1 = "sampling" /\ Draws!Goes /\ pair \notin v7 /\ v7' = v7 \union {pair}
      /\ v4' = v4 + 1 /\ v1' = "measuring" /\ v10' = pair
      /\ pair \in (0..(v6-1)) \X (0..(v5-1))
      /\ UNCHANGED <<v5, v6, v8, v9>>
  BY DEF Draws!Draw, Draws!sampling
<1>2. /\ v5 \in Nat /\ v6 \in Nat /\ v4 \in Nat
      /\ IsFiniteSet(v7) /\ (v1 # "returned" => v10 \in Nat \X Nat)
      /\ v8 \in Seq([pair : Nat \X Nat, score : BatchScores]) /\ Len(v8) \in Nat
      /\ v9 \in Seq([place : Nat, score : DrawScores \union {None}]) /\ Len(v9) \in Nat
      /\ v9 = <<>> /\ Cardinality(v7) = v4
  BY <1>1, DrawsCounts DEF Draws!StepsAreCounted
<1> DEFINE most == v6 * v5
<1>3. v4 < DrawTrials /\ v4 < most
  BY <1>1, Phases DEF Draws!Goes, Draws!Available
<1>4. most \in Nat /\ v6' * v5' = most
  BY <1>1, <1>2
<1> HIDE DEF most
<1>5. IsFiniteSet(v7') /\ Cardinality(v7') = v4'
  BY <1>1, <1>2, FS_AddElement
<1>6. v4' <= DrawTrials /\ v4' <= v6' * v5' /\ v4' \in Nat
  BY <1>1, <1>2, <1>3, <1>4 DEF DrawConstants
<1>7. v10' \in Nat \X Nat
  BY <1>1, <1>2
<1> QED BY <1>1, <1>2, <1>5, <1>6, <1>7, DrawsCounts DEF Draws!StepsAreCounted

LEMMA StepsNext == ASSUME DrawConstants, Draws!StepsAreCounted, [Draws!Next]_(Draws!vars) PROVE Draws!StepsAreCounted'
<1>0. /\ v5 \in Nat /\ v6 \in Nat /\ v4 \in Nat
      /\ IsFiniteSet(v7) /\ (v1 # "returned" => v10 \in Nat \X Nat)
      /\ v8 \in Seq([pair : Nat \X Nat, score : BatchScores]) /\ Len(v8) \in Nat
      /\ v9 \in Seq([place : Nat, score : DrawScores \union {None}]) /\ Len(v9) \in Nat
  BY DrawsCounts DEF Draws!StepsAreCounted
<1>1. CASE \E score : Draws!Baseline(score)
  BY <1>0, <1>1, DrawsCounts DEF Draws!Baseline, Draws!StepsAreCounted, Draws!sampling
<1>2. ASSUME NEW score \in DrawScores, Draws!Promoted(score) PROVE Draws!StepsAreCounted'
  <2>1. /\ v1 = "evaluating" /\ v1' = "promoting" /\ v10' = Draws!Original
        /\ v9' = [v9 EXCEPT ![Len(v9)].score = score] /\ v12' = v12
        /\ UNCHANGED <<v4, v5, v6, v7, v8>>
    BY <1>2 DEF Draws!Promoted, Draws!sampling
  <2>2. Len(v9) = v4 /\ v4 > 0
    BY <2>1, DrawsCounts DEF Draws!StepsAreCounted
  <2>3. Len(v9) \in 1..Len(v9)
    BY <1>0, <2>2
  <2>4. v9' = [v9 EXCEPT ![Len(v9)] = [v9[Len(v9)] EXCEPT !.score = score]]
    BY <2>1
  <2>5. v9[Len(v9)] \in [place : Nat, score : DrawScores \union {None}]
    BY <1>0, <2>3, ElementOfSeq
  <2>6. [v9[Len(v9)] EXCEPT !.score = score] \in [place : Nat, score : DrawScores \union {None}]
    BY <2>5
  <2>7. v9' \in Seq([place : Nat, score : DrawScores \union {None}]) /\ Len(v9') = Len(v9)
    BY <1>0, <2>3, <2>4, <2>6, ExceptSeq
  <2>8. v10' \in Nat \X Nat
    BY <2>1 DEF Draws!Original
  <2> QED BY <1>0, <2>1, <2>2, <2>7, <2>8, DrawsCounts DEF Draws!StepsAreCounted
<1>3. CASE \E score \in BatchScores : Draws!Measured(score)
  <2>1. PICK score \in BatchScores : Draws!Measured(score)
    BY <1>3
  <2>2. /\ v1 = "measuring" /\ v1' = "sampling" /\ v10' = Draws!Original
        /\ v8' = Append(v8, [pair |-> v10, score |-> score])
        /\ UNCHANGED <<v4, v5, v6, v7, v9, v12>>
    BY <2>1 DEF Draws!Measured, Draws!sampling
  <2>3. [pair |-> v10, score |-> score] \in [pair : Nat \X Nat, score : BatchScores]
    BY <1>0, <2>2
  <2>4. v8' \in Seq([pair : Nat \X Nat, score : BatchScores])
    BY <1>0, <2>2, <2>3
  <2>5. v10' \in Nat \X Nat
    BY <2>2 DEF Draws!Original
  <2> QED BY <1>0, <2>2, <2>4, <2>5, DrawsCounts DEF Draws!StepsAreCounted
<1>4. CASE Draws!Bootstrap \/ Draws!Propose
  <2>1. /\ v1 \in {"bootstrapping", "proposing"} /\ v1' = v1 /\ v4' \in Nat
        /\ v5' \in Nat /\ v6' \in Nat
        /\ UNCHANGED <<v7, v8, v9, v10>>
    BY <1>0, <1>4 DEF Draws!Bootstrap, Draws!Propose
  <2> QED BY <1>0, <2>1, DrawsCounts DEF Draws!StepsAreCounted
<1>5. CASE Draws!Promote
  <2>1. PICK i \in Draws!NextInRank : /\ v9' = Append(v9, [place |-> i, score |-> None])
                                      /\ v10' = v8[i].pair
    BY <1>5 DEF Draws!Promote
  <2>2. /\ v1 = "promoting" /\ Draws!Goes /\ v1' = "evaluating" /\ v4' = v4 + 1
        /\ UNCHANGED <<v5, v6, v7, v8, v12>>
    BY <1>5 DEF Draws!Promote, Draws!sampling
  <2>3. v4 < NumPromoted /\ v4 < Len(v8) /\ Len(v9) = v4
    BY <2>2, Phases, DrawsCounts DEF Draws!Goes, Draws!Available, Draws!StepsAreCounted
  <2>4. i \in 1..Len(v8) /\ i \in Nat
    BY <1>0, LenProperties DEF Draws!NextInRank, Draws!Waiting
  <2>5. v8[i] \in [pair : Nat \X Nat, score : BatchScores]
    BY <1>0, <2>4, ElementOfSeq
  <2>6. [place |-> i, score |-> None] \in [place : Nat, score : DrawScores \union {None}]
    BY <2>4
  <2>7. v9' \in Seq([place : Nat, score : DrawScores \union {None}]) /\ Len(v9') = Len(v9) + 1
    BY <1>0, <2>1, <2>6
  <2>8. v4' <= NumPromoted /\ v4' <= Len(v8') /\ Len(v9') = v4' /\ v4' \in Nat /\ v4' > 0
    BY <1>0, <2>2, <2>3, <2>7 DEF DrawConstants
  <2> QED BY <1>0, <2>1, <2>2, <2>5, <2>7, <2>8, DrawsCounts DEF Draws!StepsAreCounted
<1>6. CASE Draws!EvaluationFails
  <2>1. /\ v1 \in {"measuring", "evaluating"} /\ v10' = Draws!Original
        /\ v1 = "measuring" => v1' = "sampling"
        /\ v1 = "evaluating" => v1' = "promoting"
        /\ UNCHANGED <<v4, v5, v6, v7, v8, v9, v12>>
    BY <1>6 DEF Draws!EvaluationFails, Draws!sampling
  <2>2. v10' \in Nat \X Nat
    BY <2>1 DEF Draws!Original
  <2> QED BY <1>0, <2>1, <2>2, DrawsCounts DEF Draws!StepsAreCounted
<1>7. CASE Draws!Interrupted \/ Draws!BaselineRaises
  BY <1>0, <1>7, DrawsCounts DEF Draws!Interrupted, Draws!BaselineRaises, Draws!sampling,
     Draws!StepsAreCounted, Draws!Original
<1>8. CASE Draws!Apply
  BY <1>0, <1>8, DrawsCounts DEF Draws!Apply, Draws!sampling, Draws!StepsAreCounted
<1>9. CASE UNCHANGED Draws!vars
  BY <1>0, <1>9, DrawsCounts DEF Draws!vars, Draws!sampling, Draws!StepsAreCounted
<1> QED BY <1>1, <1>2, <1>3, <1>4, <1>5, <1>6, <1>7, <1>8, <1>9, DrawCounts, LeavePhaseCounts
           DEF Draws!Next

LEMMA StepsImply == ASSUME Draws!StepsAreCounted PROVE Draws!OmissionIsReported
BY DrawsCounts DEF Draws!StepsAreCounted, Draws!OmissionIsReported

LEMMA RankedInit == ASSUME Draws!Init PROVE Draws!RankedAndApplied
BY DEF Draws!Init, Draws!RankedAndApplied

LEMMA RankedNext ==
  ASSUME DrawConstants, DrawScoresAreNumbers, Draws!StepsAreCounted, Draws!RankedAndApplied, [Draws!Next]_(Draws!vars)
  PROVE  Draws!RankedAndApplied'
<1>0. /\ v8 \in Seq([pair : Nat \X Nat, score : BatchScores]) /\ Len(v8) \in Nat
      /\ v9 \in Seq([place : Nat, score : DrawScores \union {None}]) /\ Len(v9) \in Nat
      /\ DOMAIN v8 = 1..Len(v8) /\ DOMAIN v9 = 1..Len(v9)
      /\ \A i \in DOMAIN v8 : v8[i].score \in Int
  <2>1. /\ v8 \in Seq([pair : Nat \X Nat, score : BatchScores])
        /\ v9 \in Seq([place : Nat, score : DrawScores \union {None}])
    BY DrawsCounts DEF Draws!StepsAreCounted
  <2>2. /\ Len(v8) \in Nat /\ Len(v9) \in Nat
        /\ DOMAIN v8 = 1..Len(v8) /\ DOMAIN v9 = 1..Len(v9)
    BY <2>1
  <2>3. ASSUME NEW i \in DOMAIN v8 PROVE v8[i].score \in Int
    <3>1. v8[i] \in [pair : Nat \X Nat, score : BatchScores]
      BY <2>1, <2>2, ElementOfSeq
    <3> QED BY <3>1 DEF DrawScoresAreNumbers
  <2> QED BY <2>1, <2>2, <2>3
<1> DEFINE InRank == \A k \in DOMAIN v9, i \in DOMAIN v8 :
                       v8[i].score > v8[v9[k].place].score =>
                         \E l \in 1..(k-1) : v9[l].place = i
<1>r. InRank
  BY DEF Draws!RankedAndApplied
<1>g. /\ v1 \notin {"measuring", "evaluating", "returned"} => v10 = Draws!Original
      /\ v1 \notin {"baseline", "raised"} => v11 \in DrawScores
      /\ v1 \notin {"promoting", "evaluating", "applying", "returned", "raised"} => v9 = <<>>
  BY DrawsCounts DEF Draws!RankedAndApplied, Draws!StepsAreCounted
<1>h. ASSUME v1' \notin {"measuring", "evaluating", "returned"} => v10' = Draws!Original,
             v1' = "returned" => v10' = Draws!Applied',
             v1' \notin {"baseline", "raised"} => v11' \in DrawScores,
             InRank'
      PROVE  Draws!RankedAndApplied'
  BY <1>h DEF Draws!RankedAndApplied
\* A step that neither measures nor promotes.
<1>k. ASSUME UNCHANGED <<v8, v9>> PROVE InRank'
  BY <1>k, <1>r
<1> HIDE DEF InRank
<1>1. ASSUME NEW score \in DrawScores, Draws!Baseline(score) PROVE Draws!RankedAndApplied'
  <2>1. /\ v1 = "baseline" /\ v1' = "bootstrapping" /\ v11' = score
        /\ UNCHANGED <<v8, v9, v10>>
    BY <1>1 DEF Draws!Baseline
  <2> QED BY <1>g, <1>h, <1>k, <2>1
<1>2. ASSUME NEW score \in DrawScores, Draws!Promoted(score) PROVE Draws!RankedAndApplied'
  <2>1. /\ v1 = "evaluating" /\ v1' = "promoting" /\ v10' = Draws!Original
        /\ v9' = [v9 EXCEPT ![Len(v9)].score = score]
        /\ UNCHANGED <<v8, v11>>
    BY <1>2 DEF Draws!Promoted
  <2>2. DOMAIN v9' = DOMAIN v9 /\ \A k \in DOMAIN v9 : v9'[k].place = v9[k].place
    BY <2>1
  <2>3. InRank'
    <3> SUFFICES ASSUME NEW k \in DOMAIN v9, NEW i \in DOMAIN v8,
                        v8[i].score > v8[v9[k].place].score
                 PROVE  \E l \in 1..(k-1) : v9'[l].place = i
      BY <2>1, <2>2 DEF InRank
    <3>1. PICK l \in 1..(k-1) : v9[l].place = i
      BY <1>r DEF InRank
    <3>2. l \in DOMAIN v9
      BY <1>0
    <3> QED BY <2>2, <3>1, <3>2
  <2> QED BY <1>g, <1>h, <2>1, <2>3
<1>3. ASSUME NEW score, Draws!Measured(score) PROVE Draws!RankedAndApplied'
  <2>1. /\ v1 = "measuring" /\ v1' = "sampling" /\ v10' = Draws!Original /\ UNCHANGED <<v9, v11>>
    BY <1>3 DEF Draws!Measured
  <2>2. v9 = <<>>
    BY <1>g, <2>1
  <2>3. DOMAIN v9' = {}
    BY <2>1, <2>2
  <2>4. InRank'
    BY <2>3 DEF InRank
  <2> QED BY <1>g, <1>h, <2>1, <2>4
<1>4. CASE Draws!Promote
  <2>1. PICK i \in Draws!NextInRank : v9' = Append(v9, [place |-> i, score |-> None])
    BY <1>4 DEF Draws!Promote
  <2>2. v1 = "promoting" /\ v1' = "evaluating" /\ UNCHANGED <<v8, v11>>
    BY <1>4 DEF Draws!Promote
  <2>3. /\ i \in DOMAIN v8 /\ i \in Nat
        /\ \A j \in Draws!Waiting \ {i} : Draws!AheadOf(i, j)
    BY <1>0 DEF Draws!NextInRank, Draws!Waiting
  <2>4. /\ DOMAIN v9' = 1..(Len(v9) + 1) /\ v9'[Len(v9) + 1].place = i
        /\ \A k \in 1..Len(v9) : v9'[k] = v9[k]
    <3>1. [place |-> i, score |-> None] \in [place : Nat, score : DrawScores \union {None}]
      BY <2>3
    <3> QED BY <1>0, <2>1, <3>1
  <2>5. InRank'
    <3> SUFFICES ASSUME NEW k \in 1..(Len(v9) + 1), NEW j \in DOMAIN v8,
                        v8[j].score > v8[v9'[k].place].score
                 PROVE  \E l \in 1..(k-1) : v9'[l].place = j
      BY <2>2, <2>4 DEF InRank
    <3>1. CASE k \in 1..Len(v9)
      <4>1. PICK l \in 1..(k-1) : v9[l].place = j
        BY <1>0, <1>r, <2>4, <3>1 DEF InRank
      <4>2. l \in 1..Len(v9)
        BY <1>0, <3>1
      <4> QED BY <2>4, <4>1, <4>2
    <3>2. CASE k = Len(v9) + 1
      <4>1. v8[j].score > v8[i].score /\ v8[j].score \in Int /\ v8[i].score \in Int
        BY <1>0, <2>3, <2>4, <3>2
      <4>2. j # i /\ ~Draws!AheadOf(i, j)
        BY <4>1 DEF Draws!AheadOf
      <4>3. j \notin Draws!Waiting
        BY <2>3, <4>2
      <4>4. PICK l \in DOMAIN v9 : v9[l].place = j
        BY <4>3 DEF Draws!Waiting
      <4>5. l \in 1..Len(v9) /\ k - 1 = Len(v9)
        BY <1>0, <3>2
      <4>6. v9'[l].place = j
        BY <2>4, <4>4, <4>5
      <4>7. l \in 1..(k-1)
        BY <4>5
      <4> QED BY <4>6, <4>7
    <3>3. Len(v9) \in Nat
      BY <1>0
    <3>4. k \in 1..Len(v9) \/ k = Len(v9) + 1
      BY <3>3
    <3> QED BY <3>1, <3>2, <3>4
  <2> QED BY <1>g, <1>h, <2>2, <2>5
<1>5. CASE Draws!LeavePhase
  <2>1. v1 \in {"bootstrapping", "proposing", "sampling", "promoting"}
    BY <1>5, Phases DEF Draws!LeavePhase
  <2>2. /\ v1' \in {"proposing", "sampling", "promoting", "applying"}
        /\ UNCHANGED <<v8, v9, v10, v11>>
    BY <1>5, <2>1, Phases DEF Draws!LeavePhase
  <2> QED BY <1>g, <1>h, <1>k, <2>1, <2>2
<1>6. CASE Draws!Bootstrap \/ Draws!Propose
  <2>1. v1 \in {"bootstrapping", "proposing"} /\ UNCHANGED <<v1, v8, v9, v10, v11>>
    BY <1>6 DEF Draws!Bootstrap, Draws!Propose
  <2> QED BY <1>g, <1>h, <1>k, <2>1
<1>7. CASE \E pair \in (0..(v6-1)) \X (0..(v5-1)) : Draws!Draw(pair)
  <2>1. v1 = "sampling" /\ v1' = "measuring" /\ UNCHANGED <<v8, v9, v11>>
    BY <1>7 DEF Draws!Draw
  <2> QED BY <1>g, <1>h, <1>k, <2>1
<1>8. CASE Draws!Apply
  <2>1. v1 = "applying" /\ v1' = "returned" /\ v10' = Draws!Applied /\ UNCHANGED <<v8, v9, v11>>
    BY <1>8 DEF Draws!Apply
  <2>2. Draws!Applied' = Draws!Applied
    BY <2>1 DEF Draws!Applied, Draws!Accepted, Draws!AfterScore, Draws!PairAt, Draws!BestPromoted,
       Draws!Scored
  <2> QED BY <1>g, <1>h, <1>k, <2>1, <2>2
<1>9. CASE Draws!BaselineRaises \/ Draws!Interrupted
  <2>1. /\ v1' = "raised" /\ v10' = Draws!Original /\ UNCHANGED <<v8, v9>>
    BY <1>9, <1>g DEF Draws!BaselineRaises, Draws!Interrupted
  <2> QED BY <1>h, <1>k, <2>1
<1>10. CASE Draws!EvaluationFails
  <2>1. /\ v1 \in {"measuring", "evaluating"} /\ v1' \in {"sampling", "promoting"} /\ v10' = Draws!Original
        /\ UNCHANGED <<v8, v9, v11>>
    BY <1>10 DEF Draws!EvaluationFails
  <2> QED BY <1>g, <1>h, <1>k, <2>1
<1>11. CASE UNCHANGED Draws!vars
  <2>1. UNCHANGED <<v1, v8, v9, v10, v11>>
    BY <1>11 DEF Draws!vars
  <2>2. Draws!Applied' = Draws!Applied
    BY <2>1 DEF Draws!Applied, Draws!Accepted, Draws!AfterScore, Draws!PairAt, Draws!BestPromoted,
       Draws!Scored
  <2>3. v1 = "returned" => v10 = Draws!Applied
    BY DEF Draws!RankedAndApplied
  <2> QED BY <1>g, <1>h, <1>k, <2>1, <2>2, <2>3
<1> QED BY <1>1, <1>2, <1>3, <1>4, <1>5, <1>6, <1>7, <1>8, <1>9, <1>10, <1>11 DEF Draws!Next

LEMMA BestPromotedIs ==
  ASSUME DrawScoresAreNumbers, Draws!StepsAreCounted, Draws!Scored # {}
  PROVE  /\ Draws!BestPromoted \in Draws!Scored
         /\ \A l \in Draws!Scored : v9[l].score \in Nat /\ v9[l].score <= v9[Draws!BestPromoted].score
<1>1. v9 \in Seq([place : Nat, score : DrawScores \union {None}]) /\ Len(v9) \in Nat
      /\ DOMAIN v9 = 1..Len(v9)
  BY DrawsCounts DEF Draws!StepsAreCounted
<1>2. \A l \in Draws!Scored : v9[l].score \in Nat
  <2> TAKE l \in Draws!Scored
  <2>1. v9[l] \in [place : Nat, score : DrawScores \union {None}]
    BY <1>1, ElementOfSeq DEF Draws!Scored
  <2>2. v9[l].score # None
    BY DEF Draws!Scored
  <2> QED BY <2>1, <2>2 DEF DrawScoresAreNumbers
<1> DEFINE f == [k \in DOMAIN v9 |-> v9[k].score]
<1>3. Draws!Scored \subseteq 1..Len(v9)
  BY <1>1 DEF Draws!Scored
<1>4. \A l \in Draws!Scored : f[l] = v9[l].score /\ f[l] \in Int
  BY <1>1, <1>2, <1>3
<1> HIDE DEF f
<1>5. PICK k : FirstHighestOf(f, Draws!Scored, k)
  BY <1>1, <1>3, <1>4, FirstHighestOfExists
<1>6. k \in Draws!Scored /\ \A l \in Draws!Scored : v9[l].score < v9[k].score \/ (v9[l].score = v9[k].score /\ k <= l)
  BY <1>4, <1>5 DEF FirstHighestOf
<1>7. /\ Draws!BestPromoted \in Draws!Scored
      /\ \A l \in Draws!Scored : \/ v9[l].score < v9[Draws!BestPromoted].score
                                 \/ v9[l].score = v9[Draws!BestPromoted].score /\ Draws!BestPromoted <= l
  BY <1>6 DEF Draws!BestPromoted
<1> QED BY <1>2, <1>7

LEMMA RankedImplies == ASSUME DrawScoresAreNumbers, Draws!StepsAreCounted, Draws!RankedAndApplied PROVE Draws!DrawKeepsBest
<1> DEFINE scores == {v9[k].score : k \in Draws!Scored}
<1>1. ASSUME v1 = "returned"
      PROVE  IF \E s \in scores : s > v11
             THEN \E k \in DOMAIN v9 : v10 = Draws!PairAt(k) /\ v9[k].score = Draws!Max(scores)
             ELSE v10 = Draws!Original
  <2>1. v11 \in Nat /\ v10 = Draws!Applied
    BY <1>1 DEF Draws!RankedAndApplied, DrawScoresAreNumbers
  <2>2. CASE Draws!Scored = {}
    BY <2>1, <2>2 DEF Draws!Applied, Draws!Accepted
  <2>3. CASE Draws!Scored # {}
    <3> DEFINE top == v9[Draws!BestPromoted].score
    <3>1. /\ Draws!BestPromoted \in Draws!Scored /\ Draws!BestPromoted \in DOMAIN v9
          /\ top \in scores /\ top \in Nat /\ \A s \in scores : s \in Nat /\ s <= top
      BY <2>3, BestPromotedIs DEF Draws!Scored
    <3> HIDE DEF scores, top
    <3>2. top = Draws!Max(scores)
      <4>1. \A x \in scores : (\A y \in scores : x >= y) => x = top
        BY <3>1
      <4> QED BY <3>1, <4>1 DEF Draws!Max
    <3>3. Draws!Accepted <=> top > v11
      BY <2>1, <2>3, <3>1 DEF Draws!Accepted, Draws!AfterScore, top
    <3>4. CASE top > v11
      BY <2>1, <3>1, <3>2, <3>3, <3>4 DEF Draws!Applied, top
    <3>5. CASE ~(top > v11)
      <4>1. ~ \E s \in scores : s > v11
        BY <2>1, <3>1, <3>5
      <4> QED BY <2>1, <3>3, <3>5, <4>1 DEF Draws!Applied
    <3> QED BY <3>4, <3>5
  <2> QED BY <2>2, <2>3
<1> QED BY <1>1 DEF Draws!RankedAndApplied, Draws!DrawKeepsBest

-----------------------------------------------------------------------------
(* The selection of a field (Selection):                                   *)
(* v1 at; v2 kind; v3 cap; v4 runs; v5 next; v6 scores; v7 held;           *)
(* v8 original; v9 log; v10 trials; v11 frontier; Caps is SelectCaps;      *)
(* Candidates is SelectCandidates; MinScore is QualifyingScore;            *)
(* Costs is TrialCosts.                                                    *)

LEMMA ChosenInit == ASSUME Selects!Init PROVE Selects!ChosenAmongMeasured
BY DEF Selects!Init, Selects!ChosenAmongMeasured, Selects!Measured

\* What is chosen and what is drawn from the log depends on them alone.
LEMMA SameChoice ==
  ASSUME UNCHANGED <<v2, v6, v4, v9>>
  PROVE  /\ Selects!Measured' = Selects!Measured /\ Selects!OfThisRun' = Selects!OfThisRun /\ Selects!Trials' = Selects!Trials
         /\ Selects!BestScore' = Selects!BestScore /\ Selects!Chosen' = Selects!Chosen
<1>1. Selects!Measured' = Selects!Measured /\ Selects!Qualifying' = Selects!Qualifying
  BY DEF Selects!Measured, Selects!Qualifying
<1>2. Selects!OfThisRun' = Selects!OfThisRun /\ Selects!Source' = Selects!Source
  BY DEF Selects!OfThisRun, Selects!Source
<1>3. Selects!InLogOrder' = Selects!InLogOrder
  BY <1>2 DEF Selects!InLogOrder
<1>4. Selects!Trials' = Selects!Trials
  BY <1>3 DEF Selects!Trials
<1>5. Selects!BestScore' = Selects!BestScore /\ Selects!Cheapest' = Selects!Cheapest
  BY <1>1 DEF Selects!BestScore, Selects!Cheapest
<1> QED BY <1>1, <1>2, <1>4, <1>5 DEF Selects!Chosen

LEMMA ChosenTry ==
  ASSUME SelectConstants, Selects!ChosenAmongMeasured, NEW score \in Scores, NEW cost \in TrialCosts, Selects!Try(score, cost)
  PROVE  Selects!ChosenAmongMeasured'
<1> DEFINE charged == IF v2 = "model" /\ cost = 0 THEN Estimates[v5] ELSE cost
           mutation == [run |-> v4, candidate |-> v5, score |-> score, cost |-> charged]
<1>1. /\ v5 \in Nat \ {0} /\ v4 \in Nat /\ v9 \in Seq(Selects!Trial)
      /\ Selects!Measured \subseteq 1..(v5 - 1)
      /\ \A c \in Selects!Measured : v6[c].score \in Int /\ v6[c].cost \in Int
  BY DEF Selects!ChosenAmongMeasured
<1>2. /\ v1 = "trying" /\ v5 <= SelectCandidates /\ v1' = v1 /\ v4' = v4 /\ v5' = v5 + 1
      /\ v6' = [c \in Selects!Measured \union {v5} |->
                      IF c = v5 THEN [score |-> score, cost |-> charged] ELSE v6[c]]
      /\ v9' = Append(v9, mutation)
  BY DEF Selects!Try
<1>3. score \in Int /\ charged \in Int
  <2>1. score \in Int /\ cost \in Int
    BY DEF SelectConstants
  <2>2. Estimates[v5] \in Int
    BY <1>1, <1>2 DEF SelectConstants
  <2> QED BY <2>1, <2>2
<1> HIDE DEF charged
<1>4. mutation \in Selects!Trial
  BY <1>1, <1>3 DEF Selects!Trial
<1> HIDE DEF mutation
<1>5. v9' \in Seq(Selects!Trial) /\ Len(v9') = Len(v9) + 1 /\ Len(v9) \in Nat
      /\ v9'[Len(v9) + 1] = mutation /\ DOMAIN v9' = 1..(Len(v9) + 1)
  <2>1. v9' \in Seq(Selects!Trial)
    BY <1>1, <1>2, <1>4
  <2>2. Len(v9') = Len(v9) + 1 /\ v9'[Len(v9) + 1] = mutation /\ Len(v9) \in Nat
    BY <1>1, <1>2, <1>4, AppendProperties, LenProperties
  <2>3. DOMAIN v9' = 1..(Len(v9) + 1)
    BY <2>1, <2>2, LenProperties
  <2> QED BY <2>1, <2>2, <2>3
<1>6. Selects!Measured' = Selects!Measured \union {v5}
  BY <1>2 DEF Selects!Measured
<1>7. v5' \in Nat \ {0} /\ Selects!Measured' \subseteq 1..(v5' - 1)
  <2>1. v5' \in Nat \ {0} /\ v5' - 1 = v5
    BY <1>1, <1>2
  <2>2. ASSUME NEW c \in Selects!Measured \union {v5} PROVE c \in 1..v5
    BY <1>1, <2>2
  <2> QED BY <1>6, <2>1, <2>2
<1>8. \A c \in Selects!Measured' : v6'[c].score \in Int /\ v6'[c].cost \in Int
  BY <1>1, <1>2, <1>3, <1>6
<1>9. Selects!OfThisRun' # {}
  <2>1. mutation.run = v4
    BY DEF mutation
  <2>2. Len(v9) + 1 \in DOMAIN v9'
    BY <1>5
  <2>3. Len(v9) + 1 \in Selects!OfThisRun'
    BY <1>2, <1>5, <2>1, <2>2 DEF Selects!OfThisRun
  <2> QED BY <2>3
<1> QED BY <1>1, <1>2, <1>5, <1>7, <1>8, <1>9 DEF Selects!ChosenAmongMeasured

LEMMA ChosenNext ==
  ASSUME SelectConstants, Selects!ChosenAmongMeasured, [Selects!Next]_(Selects!vars)
  PROVE  Selects!ChosenAmongMeasured'
<1>0. /\ v5 \in Nat \ {0} /\ v4 \in Nat /\ v9 \in Seq(Selects!Trial)
      /\ Selects!Measured \subseteq 1..(v5 - 1)
      /\ \A c \in Selects!Measured : v6[c].score \in Int /\ v6[c].cost \in Int
      /\ Selects!Measured # {} => Selects!OfThisRun # {}
  BY DEF Selects!ChosenAmongMeasured
\* A step that measures nothing and writes nothing keeps all but the end.
<1>k. ASSUME UNCHANGED <<v2, v6, v4, v9>>, v5' \in {v5, v5 + 1},
             v1' = "returned" =>
               v7' = (IF Selects!Measured = {} THEN v8' ELSE Selects!Chosen) /\ v10' \in Selects!Trials /\ v11' \in Selects!Frontier(v10'),
             v1' = "raised" => v7' = v8' \/ (v2 = "codec" /\ Selects!Measured # {} /\ v7' = Selects!BestScore)
      PROVE  Selects!ChosenAmongMeasured'
  <2>1. /\ Selects!Measured' = Selects!Measured /\ Selects!OfThisRun' = Selects!OfThisRun /\ Selects!Trials' = Selects!Trials
        /\ Selects!BestScore' = Selects!BestScore /\ Selects!Chosen' = Selects!Chosen
    BY <1>k, SameChoice
  <2>2. Selects!Measured' \subseteq 1..(v5' - 1)
    <3>1. CASE v5' = v5
      BY <1>0, <2>1, <3>1
    <3>2. CASE v5' = v5 + 1
      <4>1. 1..(v5 - 1) \subseteq 1..v5 /\ v5' - 1 = v5
        BY <1>0, <3>2
      <4> QED BY <1>0, <2>1, <4>1
    <3> QED BY <1>k, <3>1, <3>2
  <2>3. v11' \in Selects!Frontier(v10') => (v11 \in Selects!Frontier(v10))'
    BY DEF Selects!Frontier, Selects!Sorted, Selects!Precedes, Selects!Undominated,
       Selects!Dominates
  <2>4. v5' \in Nat \ {0}
    BY <1>0, <1>k
  <2> QED BY <1>0, <1>k, <2>1, <2>2, <2>3, <2>4 DEF Selects!ChosenAmongMeasured
<1>1. CASE Selects!Begin
  <2>1. v1' = "trying" /\ v4' = v4 + 1 /\ v5' = 1 /\ v6' = <<>> /\ v9' = v9
    BY <1>1 DEF Selects!Begin
  <2>2. Selects!Measured' = {}
    BY <2>1 DEF Selects!Measured
  <2>3. v5' \in Nat \ {0} /\ v4' \in Nat
    BY <1>0, <2>1
  <2> QED BY <1>0, <2>1, <2>2, <2>3 DEF Selects!ChosenAmongMeasured
<1>2. ASSUME NEW score \in Scores, NEW cost \in TrialCosts, Selects!Try(score, cost) PROVE Selects!ChosenAmongMeasured'
  BY <1>2, ChosenTry
<1>3. CASE Selects!Skip
  <2>1. v1' = "trying" /\ v5' = v5 + 1 /\ UNCHANGED <<v2, v6, v4, v9>>
    BY <1>3 DEF Selects!Skip
  <2> QED BY <1>k, <2>1
<1>4. CASE Selects!Finish
  <2>1. /\ UNCHANGED <<v2, v6, v4, v9, v5, v8>>
        /\ v7' = IF Selects!Measured = {} THEN v8 ELSE Selects!Chosen
        /\ IF v2 = "model" /\ Selects!Measured = {}
           THEN v1' = "raised"
           ELSE v1' = "returned" /\ v10' \in Selects!Trials /\ v11' \in Selects!Frontier(v10')
    BY <1>4 DEF Selects!Finish
  <2> QED BY <1>k, <2>1
<1>5. CASE Selects!Raises
  <2>1. /\ v1' = "raised" /\ UNCHANGED <<v2, v6, v4, v9, v5, v8>>
        /\ v7' = IF v2 = "codec" /\ Selects!Measured # {} THEN Selects!BestScore ELSE v8
    BY <1>5 DEF Selects!Raises
  <2> QED BY <1>k, <2>1
<1>6. CASE UNCHANGED Selects!vars
  <2>1. UNCHANGED <<v1, v2, v6, v4, v9, v5, v7, v8, v10, v11>>
    BY <1>6 DEF Selects!vars
  <2>3. v1 = "returned" => /\ v7 = IF Selects!Measured = {} THEN v8 ELSE Selects!Chosen
                         /\ v10 \in Selects!Trials /\ v11 \in Selects!Frontier(v10)
    BY DEF Selects!ChosenAmongMeasured
  <2>4. v1 = "raised" => v7 = v8 \/ (v2 = "codec" /\ Selects!Measured # {} /\ v7 = Selects!BestScore)
    BY DEF Selects!ChosenAmongMeasured
  <2> QED BY <1>0, <1>k, <2>1, <2>3, <2>4
<1> QED BY <1>1, <1>2, <1>3, <1>4, <1>5, <1>6 DEF Selects!Next

\* The two choices are of the first candidate of the highest score and of the
\* lowest cost.
LEMMA BestScoreIs ==
  ASSUME Selects!ChosenAmongMeasured, Selects!Measured # {}
  PROVE  Selects!BestScore \in Selects!Measured /\ \A d \in Selects!Measured : v6[d].score <= v6[Selects!BestScore].score
<1> DEFINE f == [c \in Selects!Measured |-> v6[c].score]
<1>1. /\ v5 \in Nat \ {0} /\ Selects!Measured \subseteq 1..(v5 - 1)
      /\ \A c \in Selects!Measured : v6[c].score \in Int
  BY DEF Selects!ChosenAmongMeasured
<1>2. v5 - 1 \in Nat /\ \A c \in Selects!Measured : f[c] \in Int
  <2>1. v5 - 1 \in Nat
    BY <1>1
  <2> QED BY <1>1, <2>1
<1>3. PICK c : FirstHighestOf(f, Selects!Measured, c)
  <2> HIDE DEF f
  <2> QED BY <1>1, <1>2, FirstHighestOfExists
<1>4. c \in Selects!Measured /\ \A d \in Selects!Measured :
        v6[d].score < v6[c].score \/ (v6[d].score = v6[c].score /\ c <= d)
  BY <1>3 DEF FirstHighestOf
<1>5. Selects!BestScore \in Selects!Measured /\ \A d \in Selects!Measured :
        v6[d].score < v6[Selects!BestScore].score \/ (v6[d].score = v6[Selects!BestScore].score /\ Selects!BestScore <= d)
  BY <1>4 DEF Selects!BestScore
<1> QED BY <1>1, <1>5

LEMMA CheapestIs ==
  ASSUME Selects!ChosenAmongMeasured, Selects!Qualifying # {}
  PROVE  Selects!Cheapest \in Selects!Qualifying /\ \A d \in Selects!Qualifying : v6[Selects!Cheapest].cost <= v6[d].cost
<1> DEFINE f == [c \in Selects!Measured |-> -v6[c].cost]
<1>1. /\ v5 \in Nat \ {0} /\ Selects!Measured \subseteq 1..(v5 - 1)
      /\ \A c \in Selects!Measured : v6[c].cost \in Int
  BY DEF Selects!ChosenAmongMeasured
<1>2. Selects!Qualifying \subseteq Selects!Measured
  BY DEF Selects!Qualifying
<1>3. v5 - 1 \in Nat /\ Selects!Qualifying \subseteq 1..(v5 - 1) /\ \A c \in Selects!Qualifying : f[c] \in Int
  BY <1>1, <1>2
<1>4. PICK c : FirstHighestOf(f, Selects!Qualifying, c)
  <2> HIDE DEF f
  <2> QED BY <1>3, FirstHighestOfExists
<1>5. c \in Selects!Qualifying /\ \A d \in Selects!Qualifying : f[d] < f[c] \/ (f[d] = f[c] /\ c <= d)
  BY <1>4 DEF FirstHighestOf
<1>6. \A d \in Selects!Qualifying :
        v6[c].cost < v6[d].cost \/ (v6[c].cost = v6[d].cost /\ c <= d)
  <2> TAKE d \in Selects!Qualifying
  <2>1. f[d] = -v6[d].cost /\ f[c] = -v6[c].cost /\ v6[d].cost \in Int /\ v6[c].cost \in Int
    BY <1>1, <1>2, <1>5
  <2> QED BY <1>5, <2>1
<1>7. Selects!Cheapest \in Selects!Qualifying /\ \A d \in Selects!Qualifying :
        v6[Selects!Cheapest].cost < v6[d].cost \/ (v6[Selects!Cheapest].cost = v6[d].cost /\ Selects!Cheapest <= d)
  BY <1>5, <1>6 DEF Selects!Cheapest
<1>8. \A d \in Selects!Qualifying : v6[d].cost \in Int
  BY <1>1, <1>2
<1> QED BY <1>7, <1>8

LEMMA ChosenIsBest == ASSUME SelectConstants, Selects!ChosenAmongMeasured PROVE Selects!SelectionIsBest
<1>0. QualifyingScore \in Int /\ \A c \in Selects!Measured : v6[c].score \in Int /\ v6[c].cost \in Int
  BY DEF SelectConstants, Selects!ChosenAmongMeasured
<1>1. ASSUME v1 = "returned", Selects!Measured # {}
      PROVE  /\ v7 \in Selects!Measured
             /\ \A c \in Selects!Measured :
                  \/ v6[c].score <= v6[v7].score /\ ~(v2 = "model" /\ v6[v7].score >= QualifyingScore)
                  \/ v2 = "model" /\ v6[v7].score >= QualifyingScore
                     /\ (v6[c].score >= QualifyingScore => v6[c].cost >= v6[v7].cost)
  <2>1. v7 = Selects!Chosen
    BY <1>1 DEF Selects!ChosenAmongMeasured
  <2>2. CASE v2 = "model" /\ Selects!Qualifying # {}
    <3>1. v7 \in Selects!Qualifying /\ \A d \in Selects!Qualifying : v6[v7].cost <= v6[d].cost
      BY <2>1, <2>2, CheapestIs DEF Selects!Chosen
    <3>2. v7 \in Selects!Measured /\ v6[v7].score >= QualifyingScore
      BY <3>1 DEF Selects!Qualifying
    <3>3. \A c \in Selects!Measured : v6[c].score >= QualifyingScore => v6[c].cost >= v6[v7].cost
      BY <1>0, <3>1, <3>2 DEF Selects!Qualifying
    <3> QED BY <2>2, <3>2, <3>3
  <2>3. CASE ~(v2 = "model" /\ Selects!Qualifying # {})
    <3>1. v7 \in Selects!Measured /\ \A d \in Selects!Measured : v6[d].score <= v6[v7].score
      BY <1>1, <2>1, <2>3, BestScoreIs DEF Selects!Chosen
    <3>2. ~(v2 = "model" /\ v6[v7].score >= QualifyingScore)
      BY <2>3, <3>1 DEF Selects!Qualifying
    <3> QED BY <3>1, <3>2
  <2> QED BY <2>2, <2>3
<1>2. ASSUME v1 = "raised"
      PROVE  \/ v7 = v8
             \/ v2 = "codec" /\ v7 \in Selects!Measured /\ \A c \in Selects!Measured : v6[c].score <= v6[v7].score
  <2>1. v7 = v8 \/ (v2 = "codec" /\ Selects!Measured # {} /\ v7 = Selects!BestScore)
    BY <1>2 DEF Selects!ChosenAmongMeasured
  <2> QED BY <2>1, BestScoreIs
<1>3. v1 = "returned" /\ Selects!Measured = {} => v7 = v8
  BY DEF Selects!ChosenAmongMeasured
<1> QED BY <1>1, <1>2, <1>3 DEF Selects!SelectionIsBest

LEMMA FrontierIs == ASSUME Selects!ChosenAmongMeasured PROVE Selects!FrontierIsOptimal
<1> SUFFICES ASSUME v1 = "returned", Selects!Measured # {}
             PROVE  /\ \A i, j \in DOMAIN v11 :
                         i < j => \/ v11[i].cost < v11[j].cost /\ v11[i].score < v11[j].score
                                  \/ v11[i].cost = v11[j].cost /\ v11[i].score = v11[j].score
                    /\ \A k \in DOMAIN v10 :
                         \E i \in DOMAIN v11 :
                           \/ v11[i] = v10[k]
                           \/ v11[i].score >= v10[k].score /\ v11[i].cost <= v10[k].cost
                    /\ \A k \in DOMAIN v10 : v10[k].run = v4
  BY DEF Selects!FrontierIsOptimal
<1>1. /\ v9 \in Seq(Selects!Trial) /\ Selects!OfThisRun # {} /\ v10 \in Selects!Trials /\ v11 \in Selects!Frontier(v10)
  BY DEF Selects!ChosenAmongMeasured
<1>2. /\ Len(v9) \in Nat /\ DOMAIN v9 = 1..Len(v9)
      /\ \A q \in DOMAIN v9 : v9[q].score \in Int /\ v9[q].cost \in Int
  <2>1. Len(v9) \in Nat /\ DOMAIN v9 = 1..Len(v9)
    BY <1>1, LenProperties
  <2>2. ASSUME NEW q \in DOMAIN v9 PROVE v9[q] \in Selects!Trial
    BY <1>1, <2>1, <2>2, ElementOfSeq
  <2> QED BY <2>1, <2>2 DEF Selects!Trial
<1>3. Selects!Source = Selects!OfThisRun /\ Selects!Source \subseteq DOMAIN v9 /\ \A q \in Selects!Source : v9[q].run = v4
  BY <1>1 DEF Selects!Source, Selects!OfThisRun
<1>4. PICK p \in Selects!InLogOrder : v10 = [k \in DOMAIN p |-> v9[p[k]]]
  BY <1>1 DEF Selects!Trials
<1>5. {p[k] : k \in DOMAIN p} = Selects!Source
  BY <1>4 DEF Selects!InLogOrder
<1>6. /\ DOMAIN v10 = DOMAIN p
      /\ \A k \in DOMAIN v10 : p[k] \in Selects!Source /\ v10[k] = v9[p[k]]
      /\ \A k \in DOMAIN v10 : v10[k].score \in Int /\ v10[k].cost \in Int
  <2>1. DOMAIN v10 = DOMAIN p
    BY <1>4
  <2>2. \A k \in DOMAIN v10 : p[k] \in Selects!Source /\ v10[k] = v9[p[k]]
    BY <1>4, <1>5, <2>1
  <2> QED BY <1>2, <1>3, <2>1, <2>2
<1>7. PICK g \in Selects!Sorted(v10, Selects!Undominated(v10)) : v11 = [i \in DOMAIN g |-> v10[g[i]]]
  BY <1>1 DEF Selects!Frontier
<1>8. /\ {g[i] : i \in DOMAIN g} = Selects!Undominated(v10)
      /\ \A i, j \in DOMAIN g : i < j => Selects!Precedes(v10, g[i], g[j])
  BY <1>7 DEF Selects!Sorted
<1>9. /\ DOMAIN v11 = DOMAIN g
      /\ \A i \in DOMAIN v11 : g[i] \in Selects!Undominated(v10) /\ g[i] \in DOMAIN v10 /\ v11[i] = v10[g[i]]
  <2>1. DOMAIN v11 = DOMAIN g
    BY <1>7
  <2>2. \A i \in DOMAIN g : g[i] \in Selects!Undominated(v10)
    BY <1>8
  <2>3. Selects!Undominated(v10) \subseteq DOMAIN v10
    BY DEF Selects!Undominated
  <2> QED BY <1>7, <2>1, <2>2, <2>3
<1>a. ASSUME NEW i \in DOMAIN v11, NEW j \in DOMAIN v11, i < j
      PROVE  \/ v11[i].cost < v11[j].cost /\ v11[i].score < v11[j].score
             \/ v11[i].cost = v11[j].cost /\ v11[i].score = v11[j].score
  <2>1. Selects!Precedes(v10, g[i], g[j])
    BY <1>8, <1>9, <1>a
  <2>2. ~Selects!Dominates(v10[g[i]], v10[g[j]])
    BY <1>9 DEF Selects!Undominated
  <2>3. /\ v10[g[i]].score \in Int /\ v10[g[i]].cost \in Int
        /\ v10[g[j]].score \in Int /\ v10[g[j]].cost \in Int
    BY <1>6, <1>9
  <2>4. v11[i] = v10[g[i]] /\ v11[j] = v10[g[j]]
    BY <1>9
  <2> QED BY <2>1, <2>2, <2>3, <2>4 DEF Selects!Precedes, Selects!Dominates
<1>b. ASSUME NEW k \in DOMAIN v10
      PROVE  \E i \in DOMAIN v11 : v11[i].score >= v10[k].score /\ v11[i].cost <= v10[k].cost
  <2> DEFINE T == {q \in Selects!Source : v9[q].score >= v10[k].score /\ v9[q].cost <= v10[k].cost}
             f == [q \in DOMAIN v9 |-> v9[q].score - v9[q].cost]
  <2>1. T \subseteq 1..Len(v9) /\ \A q \in T : f[q] \in Int
    BY <1>2, <1>3
  <2>2. p[k] \in T
    <3>1. v10[k] = v9[p[k]] /\ v10[k].score \in Int /\ v10[k].cost \in Int /\ p[k] \in Selects!Source
      BY <1>6
    <3> QED BY <3>1
  <2>3. PICK b : FirstHighestOf(f, T, b)
    <3> HIDE DEF T, f
    <3> QED BY <1>2, <2>1, <2>2, FirstHighestOfExists
  <2>4. b \in T /\ \A q \in T : f[q] <= f[b]
    <3>1. b \in T /\ \A q \in T : f[q] < f[b] \/ f[q] = f[b]
      BY <2>3 DEF FirstHighestOf
    <3> HIDE DEF T, f
    <3> QED BY <2>1, <3>1
  <2>5. PICK m \in DOMAIN p : p[m] = b
    BY <1>5, <2>4
  <2>6. m \in DOMAIN v10 /\ v10[m] = v9[b]
    BY <1>6, <2>5
  <2>7. ASSUME NEW j \in DOMAIN v10, Selects!Dominates(v10[j], v10[m]) PROVE FALSE
    <3>1. /\ v10[j] = v9[p[j]] /\ p[j] \in Selects!Source /\ p[j] \in DOMAIN v9 /\ b \in DOMAIN v9
          /\ v9[p[j]].score \in Int /\ v9[p[j]].cost \in Int /\ v9[b].score \in Int /\ v9[b].cost \in Int
          /\ v10[k].score \in Int /\ v10[k].cost \in Int
      BY <1>2, <1>3, <1>6, <2>4
    <3>2. v9[b].score >= v10[k].score /\ v9[b].cost <= v10[k].cost
      BY <2>4
    <3>3. /\ v9[p[j]].score >= v9[b].score /\ v9[p[j]].cost <= v9[b].cost
          /\ v9[p[j]].score > v9[b].score \/ v9[p[j]].cost < v9[b].cost
      BY <2>6, <2>7, <3>1 DEF Selects!Dominates
    <3>4. p[j] \in T
      BY <3>1, <3>2, <3>3
    <3>5. f[p[j]] <= f[b]
      BY <2>4, <3>4
    <3>6. v9[p[j]].score - v9[p[j]].cost <= v9[b].score - v9[b].cost
      BY <3>1, <3>5
    <3> QED BY <3>1, <3>3, <3>6
  <2>8. m \in Selects!Undominated(v10)
    BY <2>6, <2>7 DEF Selects!Undominated
  <2>9. PICK i \in DOMAIN g : g[i] = m
    BY <1>8, <2>8
  <2>10. i \in DOMAIN v11 /\ v11[i] = v9[b]
    BY <1>9, <2>6, <2>9
  <2> QED BY <2>4, <2>10
<1>c. \A k \in DOMAIN v10 : v10[k].run = v4
  BY <1>3, <1>6
<1> QED BY <1>a, <1>b, <1>c

-----------------------------------------------------------------------------
(* The reflective loop (Reflection):                                       *)
(* v1 at; v2 cap; v3 spent; v4 round; v5 grades; v6 critiques; v7 scores;  *)
(* v8 best; v9 held; v10 barren; v11 stop; Caps is ReflectCaps.            *)

\* A grade more, at the end of the list.
LEMMA GradeAppended ==
  ASSUME NEW s \in Seq(Int), NEW x \in Int
  PROVE  /\ Append(s, x) \in Seq(Int) /\ Append(s, x) # <<>>
         /\ Len(s) \in Nat /\ Len(Append(s, x)) = Len(s) + 1
         /\ DOMAIN s = 1..Len(s) /\ DOMAIN Append(s, x) = 1..(Len(s) + 1)
         /\ Append(s, x)[Len(s) + 1] = x
         /\ \A k \in 1..Len(s) : Append(s, x)[k] = s[k] /\ s[k] \in Int
<1>1. Append(s, x) \in Seq(Int) /\ Len(Append(s, x)) = Len(s) + 1
  OBVIOUS
<1>2. Append(s, x) # <<>>
  <2>1. Len(Append(s, x)) # 0
    BY <1>1, LenProperties
  <2> QED BY <2>1
<1> QED BY <1>1, <1>2

LEMMA HighestInit == ASSUME Reflects!Init PROVE Reflects!HighestSoFar
BY DEF Reflects!Init, Reflects!HighestSoFar, Reflects!Ungraded

LEMMA HighestNext == ASSUME ReflectionConstants, Reflects!HighestSoFar, [Reflects!Next]_(Reflects!vars) PROVE Reflects!HighestSoFar'
<1>0. /\ v4 \in Nat /\ v8 \in Nat /\ v10 \in Nat
      /\ v7 \in Seq(Int) /\ v5.sum \in Int /\ v6.sum \in Int /\ Len(v7) \in Nat
  BY DEF Reflects!HighestSoFar
<1>1. ASSUME NEW grade \in Grades \union {0, 5}, Reflects!Graded(grade) PROVE Reflects!HighestSoFar'
  <2>1. /\ v5'.sum = v5.sum + grade
        /\ UNCHANGED <<v1, v4, v6, v7, v8, v9, v10, v11>>
    BY <1>1 DEF Reflects!Graded
  <2>2. v5'.sum \in Int
    BY <1>0, <2>1 DEF ReflectionConstants
  <2>3. Reflects!BestScore' = Reflects!BestScore
    BY <2>1 DEF Reflects!BestScore, Reflects!ScoreOf
  <2> QED BY <2>1, <2>2, <2>3 DEF Reflects!HighestSoFar
<1>2. CASE Reflects!BaselineEnds
  <2>1. /\ v1 = "critiquing" /\ v4 = 0 /\ v1' \in {"returned", "proposing"}
        /\ v7' = <<v5.sum>> /\ v6' = v5 /\ v5'.sum = 0
        /\ UNCHANGED <<v4, v8, v9, v10, v11>>
    BY <1>2 DEF Reflects!BaselineEnds, Reflects!Ungraded
  <2>2. Len(v7) = 0 /\ v9 = 0
    BY <2>1 DEF Reflects!HighestSoFar
  <2>3. v7 = <<>>
    BY <1>0, <2>2
  <2>4. v8 = 0 /\ v10 = 0 /\ v11 # "patience"
    BY <2>1, <2>3 DEF Reflects!HighestSoFar
  <2>5. /\ v7' \in Seq(Int) /\ Len(v7') = 1 /\ v7' # <<>> /\ DOMAIN v7' = {1}
        /\ v7'[1] = v5.sum
    BY <1>0, <2>1
  <2>6. Reflects!BestScore' = v5.sum
    BY <2>1, <2>4, <2>5 DEF Reflects!BestScore, Reflects!ScoreOf
  <2> QED BY <1>0, <2>1, <2>2, <2>4, <2>5, <2>6 DEF Reflects!HighestSoFar
<1>3. CASE Reflects!Propose
  <2>1. /\ v1 = "proposing" /\ v1' = "critiquing" /\ v4' = v4 + 1 /\ v9' = v4 + 1
        /\ UNCHANGED <<v5, v6, v7, v8, v10, v11>>
    BY <1>3 DEF Reflects!Propose
  <2>2. Len(v7) = v4 + 1 /\ v11 # "patience"
    BY <2>1 DEF Reflects!HighestSoFar
  <2>3. Reflects!BestScore' = Reflects!BestScore
    BY <2>1 DEF Reflects!BestScore, Reflects!ScoreOf
  <2> QED BY <1>0, <2>1, <2>2, <2>3 DEF Reflects!HighestSoFar
<1>4. CASE Reflects!TrialEnds
  <2> DEFINE total == v5.sum
  <2> DEFINE left == IF Reflects!Improves(total) THEN 0 ELSE v10 + 1
  <2>1. /\ v1 = "critiquing" /\ v4 > 0 /\ v4' = v4
        /\ v7' = Append(v7, total) /\ v5'.sum = 0
        /\ IF Reflects!Improves(total)
           THEN v8' = v4 /\ v6' = v5 /\ UNCHANGED v9
           ELSE v9' = v8 /\ UNCHANGED <<v8, v6>>
        /\ v10' = left
        /\ v11' = IF left >= Patience THEN "patience" ELSE v11
        /\ v1' \in {"ending", "proposing"} /\ (left >= Patience => v1' = "ending")
    BY <1>4 DEF Reflects!TrialEnds, Reflects!Ungraded
  <2>2. Len(v7) = v4 /\ v9 = v4 /\ v11 # "patience" /\ total \in Int
    BY <1>0, <2>1 DEF Reflects!HighestSoFar
  <2>3. v7 # <<>>
    BY <2>1, <2>2
  <2>4. /\ v6.sum = Reflects!BestScore
        /\ v8 + 1 \in DOMAIN v7 /\ v10 = Len(v7) - (v8 + 1)
        /\ \A k \in DOMAIN v7 : v7[k] <= Reflects!BestScore
        /\ \A k \in 1..v8 : v7[k] < Reflects!BestScore
    BY <2>3 DEF Reflects!HighestSoFar
  <2> HIDE DEF total
  <2>5. /\ v7' \in Seq(Int) /\ v7' # <<>> /\ Len(v7') = v4 + 1
        /\ DOMAIN v7 = 1..v4 /\ DOMAIN v7' = 1..(v4 + 1)
        /\ v7'[v4 + 1] = total
        /\ \A k \in 1..v4 : v7'[k] = v7[k] /\ v7[k] \in Int
    BY <1>0, <2>1, <2>2, GradeAppended
  <2>6. Reflects!BestScore \in Int /\ Reflects!BestScore' = v7'[v8' + 1]
    BY <2>4, <2>5 DEF Reflects!BestScore, Reflects!ScoreOf
  <2>7. left \in Nat /\ (v11' = "patience" => left >= Patience /\ v1' = "ending")
    BY <1>0, <2>1, <2>2
  <2>8. CASE total > Reflects!BestScore
    <3>1. v8' = v4 /\ v6' = v5 /\ v9' = v9 /\ left = 0
      BY <2>1, <2>8 DEF Reflects!Improves
    <3>2. Reflects!BestScore' = total
      BY <2>5, <2>6, <3>1
    <3>3. /\ \A k \in DOMAIN v7' : v7'[k] <= Reflects!BestScore'
          /\ \A k \in 1..v8' : v7'[k] < Reflects!BestScore'
      <4>1. \A k \in 1..v4 : v7'[k] < total
        <5> TAKE k \in 1..v4
        <5>1. v7'[k] = v7[k] /\ v7[k] \in Int /\ v7[k] <= Reflects!BestScore
          BY <2>4, <2>5
        <5> QED BY <2>2, <2>6, <2>8, <5>1
      <4>2. \A k \in 1..v8' : v7'[k] < total
        BY <3>1, <4>1
      <4>3. \A k \in DOMAIN v7' : v7'[k] <= total
        <5> TAKE k \in DOMAIN v7'
        <5>1. CASE k = v4 + 1
          BY <2>2, <2>5, <5>1
        <5>2. CASE k \in 1..v4
          <6>1. v7'[k] < total /\ v7'[k] \in Int
            BY <2>5, <4>1, <5>2
          <6> QED BY <2>2, <6>1
        <5> QED BY <1>0, <2>5, <5>1, <5>2
      <4> QED BY <3>2, <4>2, <4>3
    <3>4. v8' + 1 \in DOMAIN v7' /\ v10' = Len(v7') - (v8' + 1)
      BY <1>0, <2>1, <2>5, <3>1
    <3>5. v6'.sum = Reflects!BestScore' /\ v6'.sum \in Int
      BY <2>2, <3>1, <3>2 DEF total
    <3> QED BY <1>0, <2>1, <2>2, <2>5, <2>7, <3>1, <3>3, <3>4, <3>5 DEF Reflects!HighestSoFar
  <2>9. CASE ~(total > Reflects!BestScore)
    <3>1. v8' = v8 /\ v6' = v6 /\ v9' = v8 /\ left = v10 + 1
      BY <2>1, <2>9 DEF Reflects!Improves
    <3>2. Reflects!BestScore' = Reflects!BestScore
      BY <2>4, <2>5, <2>6, <3>1 DEF Reflects!BestScore, Reflects!ScoreOf
    <3>3. /\ \A k \in DOMAIN v7' : v7'[k] <= Reflects!BestScore'
          /\ \A k \in 1..v8' : v7'[k] < Reflects!BestScore'
      <4>1. \A k \in 1..v8' : v7'[k] < Reflects!BestScore
        <5>1. \A k \in 1..v8 : k \in 1..v4
          BY <1>0, <2>4, <2>5
        <5> QED BY <2>4, <2>5, <3>1, <5>1
      <4>2. \A k \in DOMAIN v7' : v7'[k] <= Reflects!BestScore
        <5> TAKE k \in DOMAIN v7'
        <5>1. CASE k = v4 + 1
          BY <2>2, <2>5, <2>6, <2>9, <5>1
        <5>2. CASE k \in 1..v4
          BY <2>4, <2>5, <5>2
        <5> QED BY <1>0, <2>5, <5>1, <5>2
      <4> QED BY <3>2, <4>1, <4>2
    <3>4. v8' + 1 \in DOMAIN v7' /\ v10' = Len(v7') - (v8' + 1)
      BY <1>0, <2>1, <2>2, <2>4, <2>5, <3>1
    <3>5. v6'.sum = Reflects!BestScore'
      BY <2>4, <3>1, <3>2
    <3>6. v4' \in Nat /\ v8' \in Nat /\ v10' \in Nat /\ v5'.sum \in Int /\ v6'.sum \in Int
      BY <1>0, <2>1, <2>7, <3>1
    <3>7. /\ v1' \in {"ending", "proposing"} /\ v9' = v8' /\ Len(v7') = v4' + 1
          /\ v11' = "patience" => v1' = "ending" /\ v10' >= Patience
      BY <2>1, <2>5, <2>7, <3>1
    <3> QED BY <2>5, <3>3, <3>4, <3>5, <3>6, <3>7 DEF Reflects!HighestSoFar
  <2> QED BY <2>8, <2>9
<1>5. CASE Reflects!Stops
  <2>1. /\ v1 = "proposing" /\ v1' = "ending" /\ v11' # "patience"
        /\ UNCHANGED <<v4, v5, v6, v7, v8, v9, v10>>
    BY <1>5 DEF Reflects!Stops, Reflects!HighestSoFar
  <2>2. Reflects!BestScore' = Reflects!BestScore
    BY <2>1 DEF Reflects!BestScore, Reflects!ScoreOf
  <2> QED BY <2>1, <2>2 DEF Reflects!HighestSoFar
<1>6. CASE Reflects!Ends
  <2>1. /\ v1 = "ending" /\ v1' = "returned" /\ v9' = IF Reflects!Accepted THEN v8 ELSE 0
        /\ UNCHANGED <<v4, v5, v6, v7, v8, v10, v11>>
    BY <1>6 DEF Reflects!Ends
  <2>2. v9 = v8 /\ Len(v7) = v4 + 1
    BY <2>1 DEF Reflects!HighestSoFar
  <2>3. v7 # <<>>
    BY <1>0, <2>2
  <2>4. v8 + 1 \in DOMAIN v7 /\ \A k \in 1..v8 : v7[k] < Reflects!BestScore
    BY <2>3 DEF Reflects!HighestSoFar
  <2>5. v9' = v8
    <3>1. CASE v8 = 0
      BY <2>1, <3>1
    <3>2. CASE v8 # 0
      <4>1. 1 \in 1..v8
        BY <1>0, <3>2
      <4>2. v7[1] < Reflects!BestScore /\ v7[1] \in Int /\ Reflects!BestScore \in Int
        BY <1>0, <2>4, <4>1 DEF Reflects!BestScore, Reflects!ScoreOf
      <4>3. Reflects!Accepted
        BY <4>2 DEF Reflects!Accepted, Reflects!ScoreOf
      <4> QED BY <2>1, <4>3
    <3> QED BY <3>1, <3>2
  <2>6. Reflects!BestScore' = Reflects!BestScore
    BY <2>1 DEF Reflects!BestScore, Reflects!ScoreOf
  <2> QED BY <2>1, <2>2, <2>5, <2>6 DEF Reflects!HighestSoFar
<1>7. CASE Reflects!Raises
  <2>1. /\ v1 \in {"proposing", "critiquing"} /\ v1' = "raised"
        /\ UNCHANGED <<v4, v5, v6, v7, v8, v9, v10, v11>>
    BY <1>7 DEF Reflects!Raises
  <2>2. Reflects!BestScore' = Reflects!BestScore
    BY <2>1 DEF Reflects!BestScore, Reflects!ScoreOf
  <2> QED BY <2>1, <2>2 DEF Reflects!HighestSoFar
<1>8. CASE UNCHANGED Reflects!vars
  BY <1>8 DEF Reflects!vars, Reflects!HighestSoFar, Reflects!BestScore, Reflects!ScoreOf
<1> QED BY <1>1, <1>2, <1>3, <1>4, <1>5, <1>6, <1>7, <1>8 DEF Reflects!Next

LEMMA HighestImplies == ASSUME ReflectionConstants, Reflects!HighestSoFar PROVE Reflects!ReflectionKeepsBest
<1>0. /\ v4 \in Nat /\ v8 \in Nat /\ v10 \in Nat /\ Patience \in Nat
      /\ v7 \in Seq(Int) /\ Len(v7) \in Nat /\ DOMAIN v7 = 1..Len(v7)
  BY DEF Reflects!HighestSoFar, ReflectionConstants
<1>1. CASE v7 = <<>>
  <2>1. Len(v7) = 0
    BY <1>1
  <2>2. v1 \notin {"proposing", "ending", "returned"}
    BY <1>0, <2>1 DEF Reflects!HighestSoFar
  <2> QED BY <2>2 DEF Reflects!HighestSoFar, Reflects!ReflectionKeepsBest
<1>2. CASE v7 # <<>>
  <2>1. /\ v6.sum = Reflects!BestScore
        /\ v10 = Len(v7) - (v8 + 1)
        /\ \A k \in DOMAIN v7 : v7[k] <= Reflects!BestScore
        /\ \A k \in 1..v8 : v7[k] < Reflects!BestScore
    BY <1>2 DEF Reflects!HighestSoFar
  <2>2. ASSUME v1 = "returned", v11 = "patience"
        PROVE  \A k \in DOMAIN v7 : k > Len(v7) - Patience => v7[k] <= Reflects!BestScore /\ k # v8 + 1
    <3>1. v10 >= Patience
      BY <2>2 DEF Reflects!HighestSoFar
    <3> QED BY <1>0, <2>1, <3>1
  <2> QED BY <2>1, <2>2 DEF Reflects!HighestSoFar, Reflects!ReflectionKeepsBest
<1> QED BY <1>1, <1>2

-----------------------------------------------------------------------------
(* The log of the trials (TrialLog):                                       *)
(* v1 up; v2 context; v3 mutations; v4 file; v5 open; v6 loaded; v7 made;  *)
(* v8 own; v9 faults; Runs is LogRuns; Strategy is RunStrategies;          *)
(* Gains is MetricGains; MaxTrials is RunTrials; MaxFaults is LogFaults.   *)

(* Sequences that grow at their end                                        *)

LEMMA AppendIs ==
  ASSUME NEW S, NEW s \in Seq(S), NEW x \in S
  PROVE  /\ Len(s) \in Nat /\ DOMAIN s = 1..Len(s)
         /\ Append(s, x) \in Seq(S) /\ Len(Append(s, x)) = Len(s) + 1
         /\ DOMAIN Append(s, x) = 1..(Len(s) + 1)
         /\ Append(s, x)[Len(s) + 1] = x
         /\ \A i \in DOMAIN s : i \in DOMAIN Append(s, x) /\ Append(s, x)[i] = s[i] /\ i < Len(s) + 1 /\ i \in Int
         /\ \A i \in DOMAIN Append(s, x) : i \in DOMAIN s \/ i = Len(s) + 1
  OBVIOUS

LEMMA RangeOfAppend ==
  ASSUME NEW S, NEW s \in Seq(S), NEW x \in S
  PROVE  Trials!Range(Append(s, x)) = Trials!Range(s) \union {x}
<1>1. /\ \A i \in DOMAIN s : i \in DOMAIN Append(s, x) /\ Append(s, x)[i] = s[i]
      /\ \A i \in DOMAIN Append(s, x) : i \in DOMAIN s \/ i = Len(s) + 1
      /\ Append(s, x)[Len(s) + 1] = x /\ Len(s) + 1 \in DOMAIN Append(s, x)
  BY AppendIs
<1> DEFINE t == Append(s, x)
<1>2. /\ \A i \in DOMAIN s : i \in DOMAIN t /\ t[i] = s[i]
      /\ \A i \in DOMAIN t : i \in DOMAIN s \/ i = Len(s) + 1
      /\ t[Len(s) + 1] = x /\ Len(s) + 1 \in DOMAIN t
  BY <1>1
<1> HIDE DEF t
<1>3. Trials!Range(t) = Trials!Range(s) \union {x}
  BY <1>2 DEF Trials!Range
<1> QED BY <1>3 DEF t

-----------------------------------------------------------------------------
(* A trial that is made                                                    *)

\* What a run knows of the trial it makes.
LEMMA TrialIs ==
  ASSUME LogConstants, Trials!MadeInOrder, Trials!RunsGoOn, NEW r \in LogRuns, NEW gain \in MetricGains, Trials!MayTry(r)
  PROVE  /\ Trials!Mutation(r, gain) \in Trials!Trials /\ Trials!Mutation(r, gain).run = r
         /\ Trials!Mutation(r, gain).trial = v2[r].trial /\ v2[r].trial \in Nat
         /\ Trials!Mutation(r, gain).parent = v2[r].last
         /\ \A i \in DOMAIN v7 : v7[i].run = r => v7[i].trial < v2[r].trial
         /\ Trials!Mutation(r, gain) \notin Trials!Range(v7)
<1>1. /\ v2[r] \in [trial : Nat, last : Nat \union {None}]
      /\ \A i \in DOMAIN v7 : v7[i].run = r => v7[i].trial < v2[r].trial
  BY DEF Trials!RunsGoOn, Trials!MayTry
<1>2. v2[r].trial \in Nat /\ v2[r].last \in Nat \union {None}
  BY <1>1
<1>3. RunStrategies[r] \in Trials!Range(RunStrategies)
  BY DEF Trials!Range, LogConstants
<1>4. /\ Trials!Mutation(r, gain).run = r /\ Trials!Mutation(r, gain).trial = v2[r].trial
      /\ Trials!Mutation(r, gain).parent = v2[r].last
  BY DEF Trials!Mutation
<1>5. Trials!Mutation(r, gain) \in Trials!Trials
  BY <1>2, <1>3 DEF Trials!Mutation, Trials!Trials
<1>6. \A i \in DOMAIN v7 : v7[i] # Trials!Mutation(r, gain)
  BY <1>1, <1>2, <1>4
<1>7. Trials!Mutation(r, gain) \notin Trials!Range(v7)
  BY <1>6 DEF Trials!Range
<1> QED BY <1>1, <1>2, <1>4, <1>5, <1>7

LEMMA MadeKeeps ==
  ASSUME LogConstants, Trials!MadeInOrder, Trials!RunsGoOn, NEW r \in LogRuns, NEW gain \in MetricGains, Trials!MayTry(r),
         Trials!Remember(Trials!Mutation(r, gain))
  PROVE  Trials!MadeInOrder'
<1> DEFINE m == Trials!Mutation(r, gain)
           n == Len(v7)
           t == v2[r].trial
<1>1. /\ m \in Trials!Trials /\ m.run = r /\ m.trial = t /\ t \in Nat /\ m.parent = v2[r].last
      /\ \A i \in DOMAIN v7 : v7[i].run = r => v7[i].trial < t
  BY TrialIs
<1>2. IF t = 0 THEN v2[r].last = None
      ELSE /\ v2[r].last = t - 1
           /\ \E j \in DOMAIN v7 : v7[j].run = r /\ v7[j].trial = v2[r].last
  BY DEF Trials!RunsGoOn, Trials!MayTry
<1>3. v7 \in Seq(Trials!Trials) /\ v7' = Append(v7, m)
  BY DEF Trials!MadeInOrder, Trials!Remember
<1> HIDE DEF m
<1>4. /\ n \in Nat /\ v7' \in Seq(Trials!Trials) /\ DOMAIN v7 = 1..n /\ v7'[n + 1] = m
      /\ \A i \in DOMAIN v7 : i \in DOMAIN v7' /\ v7'[i] = v7[i]
      /\ \A i \in DOMAIN v7' : i \in DOMAIN v7 \/ i = n + 1
  BY <1>1, <1>3, AppendIs
<1> HIDE DEF n, t
<1>5. ASSUME NEW i \in DOMAIN v7', NEW j \in DOMAIN v7',
             v7'[i].run = v7'[j].run, v7'[i].trial = v7'[j].trial
      PROVE  i = j
  <2>1. CASE i \in DOMAIN v7 /\ j \in DOMAIN v7
    BY <1>4, <1>5, <2>1 DEF Trials!MadeInOrder
  <2>2. ASSUME NEW k \in DOMAIN v7, v7'[k].run = r, v7'[k].trial = t PROVE FALSE
    BY <1>1, <1>4, <2>2
  <2> QED BY <1>1, <1>4, <1>5, <2>1, <2>2
<1>6. ASSUME NEW i \in DOMAIN v7'
      PROVE  IF v7'[i].trial = 0 THEN v7'[i].parent = None
             ELSE /\ v7'[i].parent = v7'[i].trial - 1
                  /\ \E j \in DOMAIN v7' : v7'[j].run = v7'[i].run /\ v7'[j].trial = v7'[i].parent
  <2>1. CASE i \in DOMAIN v7
    BY <1>4, <2>1 DEF Trials!MadeInOrder
  <2>2. CASE i = n + 1
    BY <1>1, <1>2, <1>4, <2>2 DEF t
  <2> QED BY <1>4, <2>1, <2>2
<1> QED BY <1>4, <1>5, <1>6 DEF Trials!MadeInOrder

\* The runs after a trial of one of them: it goes on, or is over, or all are.
LEMMA RunsAfterTrial ==
  ASSUME LogConstants, Trials!MadeInOrder, Trials!RunsGoOn, NEW r \in LogRuns, NEW gain \in MetricGains, Trials!MayTry(r),
         Trials!Remember(Trials!Mutation(r, gain)),
         \/ v2' = [v2 EXCEPT ![r] = Trials!Counted(r)]
         \/ v2' = [v2 EXCEPT ![r] = None]
         \/ v2' = [q \in LogRuns |-> None]
  PROVE  Trials!RunsGoOn'
<1> DEFINE m == Trials!Mutation(r, gain)
           n == Len(v7)
           t == v2[r].trial
<1>1. /\ m \in Trials!Trials /\ m.run = r /\ m.trial = t /\ t \in Nat
      /\ \A i \in DOMAIN v7 : v7[i].run = r => v7[i].trial < t
  BY TrialIs
<1>2. v7 \in Seq(Trials!Trials) /\ v7' = Append(v7, m)
  BY DEF Trials!MadeInOrder, Trials!Remember
<1>3. DOMAIN v2 = LogRuns /\ Trials!Counted(r) = [trial |-> t + 1, last |-> t]
  BY DEF Trials!RunsGoOn, Trials!Counted
<1> HIDE DEF m
<1>4. /\ v7'[n + 1] = m /\ n + 1 \in DOMAIN v7'
      /\ \A i \in DOMAIN v7 : i \in DOMAIN v7' /\ v7'[i] = v7[i]
      /\ \A i \in DOMAIN v7' : i \in DOMAIN v7 \/ i = n + 1
  BY <1>1, <1>2, AppendIs
<1>5. \A i \in DOMAIN v7 : v7[i].trial \in Nat
  <2>1. \A x \in Trials!Trials : x.trial \in Nat
    BY DEF Trials!Trials
  <2> QED BY <1>2, <2>1
<1> HIDE DEF n, t
<1>6. DOMAIN v2' = LogRuns /\ \A q \in LogRuns : v2'[q] = None \/ (q # r /\ v2'[q] = v2[q])
                                             \/ (q = r /\ v2'[q] = [trial |-> t + 1, last |-> t])
  BY <1>3
<1>7. ASSUME NEW q \in LogRuns, v2'[q] # None
      PROVE  /\ v2'[q] \in [trial : Nat, last : Nat \union {None}]
             /\ \A i \in DOMAIN v7' : v7'[i].run = q => v7'[i].trial < v2'[q].trial
             /\ IF v2'[q].trial = 0 THEN v2'[q].last = None
                ELSE /\ v2'[q].last = v2'[q].trial - 1
                     /\ \E j \in DOMAIN v7' : v7'[j].run = q /\ v7'[j].trial = v2'[q].last
  <2>1. CASE q # r /\ v2'[q] = v2[q]
    BY <1>1, <1>4, <1>7, <2>1 DEF Trials!RunsGoOn
  <2>2. CASE q = r /\ v2'[q] = [trial |-> t + 1, last |-> t]
    <3>1. v2'[q].trial = t + 1 /\ v2'[q].last = t
      BY <2>2
    <3>2. v2'[q] \in [trial : Nat, last : Nat \union {None}]
      BY <1>1, <2>2
    <3>3. \A i \in DOMAIN v7' : v7'[i].run = q => v7'[i].trial < t + 1
      BY <1>1, <1>4, <1>5, <2>2
    <3>4. v7'[n + 1].run = q /\ v7'[n + 1].trial = t
      BY <1>1, <1>4, <2>2
    <3> QED BY <1>1, <1>4, <3>1, <3>2, <3>3, <3>4
  <2> QED BY <1>6, <1>7, <2>1, <2>2
<1> QED BY <1>6, <1>7 DEF Trials!RunsGoOn

-----------------------------------------------------------------------------
(* A line that is written                                                  *)

LEMMA WholeAre ==
  ASSUME NEW lines \in Seq(Seq(Trials!Parts))
  PROVE  /\ Len(lines) \in Nat /\ DOMAIN lines = 1..Len(lines)
         /\ Trials!Whole(lines) \subseteq 1..Len(lines)
         /\ IsFiniteSet(Trials!Whole(lines)) /\ Cardinality(Trials!Whole(lines)) \in Nat
<1>1. Len(lines) \in Nat /\ DOMAIN lines = 1..Len(lines)
  OBVIOUS
<1>2. Trials!Whole(lines) \subseteq 1..Len(lines)
  BY <1>1 DEF Trials!Whole
<1>3. IsFiniteSet(Trials!Whole(lines))
  <2>1. IsFiniteSet(1..Len(lines))
    BY <1>1, FS_Interval
  <2> QED BY <1>2, <2>1, FS_Subset
<1> QED BY <1>1, <1>2, <1>3, FS_CardinalityType

\* Behind a line that was left open it makes a line that does not parse.
LEMMA BehindTheRest ==
  ASSUME Trials!LinesInOrder, v5, NEW m \in Trials!Trials, NEW whole \in BOOLEAN
  PROVE  LET lines == Trials!Written(m, whole)
         IN /\ lines \in Seq(Seq(Trials!Parts)) /\ DOMAIN lines = DOMAIN v4 /\ Len(lines) = Len(v4)
            /\ Len(v4) \in DOMAIN v4
            /\ \A k \in DOMAIN v4 : lines[k] # <<>> /\ lines[k][1] = v4[k][1]
            /\ Trials!Whole(lines) = Trials!Whole(v4) \ {Len(v4)}
<1> DEFINE n == Len(v4)
           p == [record |-> m, whole |-> whole]
           lines == Trials!Written(m, whole)
<1>1. v4 \in Seq(Seq(Trials!Parts)) /\ v4 # <<>> /\ \A k \in DOMAIN v4 : v4[k] # <<>>
  BY TrialsCounts DEF Trials!LinesInOrder
<1>2. p \in Trials!Parts
  BY DEF Trials!Parts
<1> HIDE DEF p
<1>3. n \in DOMAIN v4 /\ n \in Nat /\ DOMAIN v4 = 1..n /\ \A k \in DOMAIN v4 : v4[k] \in Seq(Trials!Parts)
  BY <1>1
<1>4. lines = [v4 EXCEPT ![n] = Append(v4[n], p)]
  BY DEF Trials!Written, p
<1> HIDE DEF lines
<1>5. /\ Append(v4[n], p) \in Seq(Trials!Parts) /\ Len(Append(v4[n], p)) # 1 /\ Append(v4[n], p) # <<>>
      /\ Append(v4[n], p)[1] = v4[n][1]
  <2> DEFINE s == v4[n]
  <2>1. s \in Seq(Trials!Parts) /\ s # <<>>
    BY <1>1, <1>3
  <2> HIDE DEF s
  <2>2. /\ Append(s, p) \in Seq(Trials!Parts) /\ Len(Append(s, p)) # 1 /\ Append(s, p) # <<>>
        /\ Append(s, p)[1] = s[1]
    BY <1>2, <2>1
  <2> QED BY <2>2 DEF s
<1> DEFINE e == Append(v4[n], p)
<1>6. lines = [v4 EXCEPT ![n] = e] /\ e \in Seq(Trials!Parts) /\ Len(e) # 1 /\ e # <<>> /\ e[1] = v4[n][1]
  BY <1>4, <1>5
<1> HIDE DEF e, n
<1>7. lines \in Seq(Seq(Trials!Parts)) /\ DOMAIN lines = DOMAIN v4 /\ Len(lines) = n
  BY <1>1, <1>3, <1>6 DEF n
<1>8. lines[n] = e /\ \A k \in DOMAIN v4 : k # n => lines[k] = v4[k]
  BY <1>3, <1>6
<1>9. \A k \in DOMAIN v4 : lines[k] # <<>> /\ lines[k][1] = v4[k][1]
  BY <1>1, <1>6, <1>8
<1>10. Trials!Whole(lines) = Trials!Whole(v4) \ {n}
  BY <1>6, <1>7, <1>8 DEF Trials!Whole, Trials!Parses
<1> QED BY <1>3, <1>7, <1>9, <1>10 DEF lines, n

LEMMA OnItsOwnLine ==
  ASSUME Trials!LinesInOrder, ~v5, NEW m \in Trials!Trials, NEW whole \in BOOLEAN
  PROVE  LET lines == Trials!Written(m, whole)
             n == Len(v4)
         IN /\ lines \in Seq(Seq(Trials!Parts)) /\ DOMAIN lines = 1..(n + 1) /\ Len(lines) = n + 1
            /\ \A k \in DOMAIN lines : k \in DOMAIN v4 \/ k = n + 1
            /\ \A k \in DOMAIN v4 : lines[k] = v4[k] /\ k < n + 1 /\ k \in Int
            /\ lines[n + 1] # <<>> /\ lines[n + 1][1].record = m
            /\ Trials!Whole(lines) = IF whole THEN Trials!Whole(v4) \union {n + 1} ELSE Trials!Whole(v4)
<1> DEFINE n == Len(v4)
           p == [record |-> m, whole |-> whole]
           l == <<p>>
           lines == Trials!Written(m, whole)
<1>1. v4 \in Seq(Seq(Trials!Parts))
  BY TrialsCounts DEF Trials!LinesInOrder
<1>2. p \in Trials!Parts /\ p.record = m /\ p.whole = whole
  BY DEF Trials!Parts
<1>3. lines = Append(v4, l)
  BY DEF Trials!Written
<1> HIDE DEF p
<1>4. l \in Seq(Trials!Parts) /\ l # <<>> /\ l[1] = p /\ Len(l) = 1
  BY <1>2
<1> HIDE DEF l, lines
<1>5. /\ lines \in Seq(Seq(Trials!Parts)) /\ DOMAIN lines = 1..(n + 1) /\ Len(lines) = n + 1
      /\ n \in Nat /\ DOMAIN v4 = 1..n /\ lines[n + 1] = l
      /\ \A k \in DOMAIN lines : k \in DOMAIN v4 \/ k = n + 1
      /\ \A k \in DOMAIN v4 : k \in DOMAIN lines /\ lines[k] = v4[k] /\ k < n + 1 /\ k \in Int
  BY <1>1, <1>3, <1>4, AppendIs
<1> HIDE DEF n
<1>6. n + 1 \in DOMAIN lines /\ n + 1 \notin DOMAIN v4
  BY <1>5
<1>7. Trials!Parses(lines[n + 1]) <=> whole
  BY <1>2, <1>4, <1>5 DEF Trials!Parses
<1>8. \A k \in DOMAIN v4 : Trials!Parses(lines[k]) <=> Trials!Parses(v4[k])
  BY <1>5
<1>9. Trials!Whole(lines) = IF whole THEN Trials!Whole(v4) \union {n + 1} ELSE Trials!Whole(v4)
  BY <1>5, <1>6, <1>7, <1>8 DEF Trials!Whole
<1> QED BY <1>2, <1>4, <1>5, <1>9 DEF lines, n

\* Every line is of a trial that was made, one behind the other: LinesInOrder
\* without what it says of faults.
LEMMA WrittenInOrder ==
  ASSUME Trials!LinesInOrder, Trials!MadeInOrder, Trials!MadeInOrder', NEW m \in Trials!Trials, m \notin Trials!Range(v7), Trials!Remember(m),
         \/ v4' = v4
         \/ \E whole \in BOOLEAN : v4' = Trials!Written(m, whole)
  PROVE  /\ v4' \in Seq(Seq(Trials!Parts))
         /\ \A k \in DOMAIN v4' : v4'[k] # <<>> /\ v4'[k][1].record \in Trials!Range(v7')
         /\ \A j, k \in DOMAIN v4' : j < k => \A a, b \in DOMAIN v7' :
              v7'[a] = v4'[j][1].record /\ v7'[b] = v4'[k][1].record => a < b
<1> DEFINE n == Len(v7)
           l == Len(v4)
<1>1. /\ v4 \in Seq(Seq(Trials!Parts))
      /\ \A k \in DOMAIN v4 : v4[k] # <<>> /\ v4[k][1].record \in Trials!Range(v7)
      /\ \A j, k \in DOMAIN v4 : j < k => \A a, b \in DOMAIN v7 :
           v7[a] = v4[j][1].record /\ v7[b] = v4[k][1].record => a < b
  BY TrialsCounts DEF Trials!LinesInOrder
<1>2. v7 \in Seq(Trials!Trials) /\ v7' = Append(v7, m)
  BY DEF Trials!MadeInOrder, Trials!Remember
<1>3. /\ n \in Nat /\ DOMAIN v7 = 1..n /\ v7'[n + 1] = m
      /\ \A i \in DOMAIN v7 : i \in DOMAIN v7' /\ v7'[i] = v7[i] /\ i < n + 1
      /\ \A i \in DOMAIN v7' : i \in DOMAIN v7 \/ i = n + 1
  BY <1>2, AppendIs
<1>4. Trials!Range(v7') = Trials!Range(v7) \union {m}
  BY <1>2, RangeOfAppend
<1>5. \A a \in DOMAIN v7' : v7'[a] \in Trials!Range(v7) => a \in DOMAIN v7
  BY <1>3
<1>6. \A a \in DOMAIN v7' : v7'[a] = m => a = n + 1
  BY <1>3 DEF Trials!Range
<1> HIDE DEF n
<1>7. CASE DOMAIN v4' = DOMAIN v4 /\ v4' \in Seq(Seq(Trials!Parts))
           /\ \A k \in DOMAIN v4 : v4'[k] # <<>> /\ v4'[k][1] = v4[k][1]
  <2>1. \A k \in DOMAIN v4' : v4'[k] # <<>> /\ v4'[k][1].record \in Trials!Range(v7')
    BY <1>1, <1>4, <1>7
  <2>2. ASSUME NEW j \in DOMAIN v4', NEW k \in DOMAIN v4', j < k, NEW a \in DOMAIN v7', NEW b \in DOMAIN v7',
               v7'[a] = v4'[j][1].record, v7'[b] = v4'[k][1].record
        PROVE  a < b
    <3>1. v4'[j][1].record = v4[j][1].record /\ v4'[k][1].record = v4[k][1].record
          /\ j \in DOMAIN v4 /\ k \in DOMAIN v4
      BY <1>7
    <3>2. a \in DOMAIN v7 /\ b \in DOMAIN v7
      BY <1>1, <1>5, <2>2, <3>1
    <3> QED BY <1>1, <1>3, <2>2, <3>1, <3>2
  <2> QED BY <1>7, <2>1, <2>2
<1>8. ASSUME ~v5, NEW whole \in BOOLEAN, v4' = Trials!Written(m, whole)
      PROVE  /\ v4' \in Seq(Seq(Trials!Parts))
             /\ \A k \in DOMAIN v4' : v4'[k] # <<>> /\ v4'[k][1].record \in Trials!Range(v7')
             /\ \A j, k \in DOMAIN v4' : j < k => \A a, b \in DOMAIN v7' :
                  v7'[a] = v4'[j][1].record /\ v7'[b] = v4'[k][1].record => a < b
  <2>1. /\ v4' \in Seq(Seq(Trials!Parts))
        /\ \A k \in DOMAIN v4' : k \in DOMAIN v4 \/ k = l + 1
        /\ \A k \in DOMAIN v4 : v4'[k] = v4[k] /\ k < l + 1 /\ k \in Int
        /\ v4'[l + 1] # <<>> /\ v4'[l + 1][1].record = m
    BY <1>8, OnItsOwnLine
  <2> HIDE DEF l
  <2>2. \A k \in DOMAIN v4' : v4'[k] # <<>> /\ v4'[k][1].record \in Trials!Range(v7')
    BY <1>1, <1>4, <2>1
  <2>3. l + 1 \in DOMAIN v4' => \A j \in DOMAIN v4 : ~(l + 1 < j)
    BY <1>1, <2>1 DEF l
  <2>4. ASSUME NEW j \in DOMAIN v4', NEW k \in DOMAIN v4', j < k, NEW a \in DOMAIN v7', NEW b \in DOMAIN v7',
               v7'[a] = v4'[j][1].record, v7'[b] = v4'[k][1].record
        PROVE  a < b
    <3>1. j \in DOMAIN v4
      <4>1. l \in Nat
        BY <1>1 DEF l
      <4> QED BY <2>1, <2>4, <4>1
    <3>2. a \in DOMAIN v7 /\ v7[a] = v4[j][1].record
      BY <1>1, <1>3, <1>5, <2>1, <2>4, <3>1
    <3>3. CASE k = l + 1
      BY <1>3, <1>6, <2>1, <2>4, <3>2, <3>3
    <3>4. CASE k \in DOMAIN v4
      BY <1>1, <1>3, <1>5, <2>1, <2>4, <3>1, <3>2, <3>4
    <3> QED BY <2>1, <3>3, <3>4
  <2> QED BY <2>1, <2>2, <2>4
<1>9. ASSUME v5, NEW whole \in BOOLEAN, v4' = Trials!Written(m, whole)
      PROVE  DOMAIN v4' = DOMAIN v4 /\ v4' \in Seq(Seq(Trials!Parts))
             /\ \A k \in DOMAIN v4 : v4'[k] # <<>> /\ v4'[k][1] = v4[k][1]
  BY <1>9, BehindTheRest
<1>10. CASE v4' = v4
  BY <1>1, <1>7, <1>10
<1> QED BY <1>7, <1>8, <1>9, <1>10

-----------------------------------------------------------------------------
(* What a fault costs                                                      *)

LEMMA StakeIs ==
  ASSUME Trials!LinesInOrder
  PROVE  /\ v4 \in Seq(Seq(Trials!Parts)) /\ Len(v4) \in Nat /\ v9 \in Nat /\ v5 \in BOOLEAN
         /\ (v5 => v4 # <<>>)
         /\ IsFiniteSet(Trials!Whole(v4)) /\ Cardinality(Trials!Whole(v4)) \in Nat /\ Trials!Whole(v4) \subseteq 1..Len(v4)
         /\ Trials!AtStake \in {0, 1, 2} /\ Len(v7) - Cardinality(Trials!Whole(v4)) + Trials!AtStake <= 2 * v9
         /\ (~v5 => Trials!AtStake = 0) /\ (v5 => Trials!AtStake = IF Len(v4) \in Trials!Whole(v4) THEN 2 ELSE 1)
<1>1. v4 \in Seq(Seq(Trials!Parts)) /\ v9 \in Nat /\ v5 \in BOOLEAN /\ (v5 => v4 # <<>>)
      /\ Len(v7) - Cardinality(Trials!Whole(v4)) + Trials!AtStake <= 2 * v9
  BY TrialsCounts DEF Trials!LinesInOrder
<1>2. Trials!AtStake \in {0, 1, 2} /\ (~v5 => Trials!AtStake = 0) /\ (v5 => Trials!AtStake = IF Len(v4) \in Trials!Whole(v4) THEN 2 ELSE 1)
  BY DEF Trials!AtStake
<1> QED BY <1>1, <1>2, WholeAre

\* The count after a line, and what of it the next line could break.
LEMMA LineCounts ==
  ASSUME Trials!LinesInOrder, NEW m \in Trials!Trials, NEW whole \in BOOLEAN, v4' = Trials!Written(m, whole), v5' \in BOOLEAN,
         v5' \/ whole
  PROVE  /\ v4' # <<>> /\ Trials!AtStake' \in Nat /\ Cardinality(Trials!Whole(v4')) \in Nat
         /\ 1 - Cardinality(Trials!Whole(v4')) + Trials!AtStake' <=
              (IF v5' THEN 2 ELSE 0) + Trials!AtStake - Cardinality(Trials!Whole(v4))
<1> DEFINE n == Len(v4)
           w == Cardinality(Trials!Whole(v4))
<1>1. /\ n \in Nat /\ v5 \in BOOLEAN /\ IsFiniteSet(Trials!Whole(v4)) /\ w \in Nat
      /\ Trials!Whole(v4) \subseteq 1..n /\ Trials!AtStake \in {0, 1, 2}
      /\ (~v5 => Trials!AtStake = 0) /\ (v5 => Trials!AtStake = IF n \in Trials!Whole(v4) THEN 2 ELSE 1)
  BY StakeIs
<1>2. CASE v5
  <2>1. v4' \in Seq(Seq(Trials!Parts)) /\ Len(v4') = n /\ n \in DOMAIN v4 /\ DOMAIN v4' = DOMAIN v4
        /\ Trials!Whole(v4') = Trials!Whole(v4) \ {n}
    BY <1>2, BehindTheRest
  <2>2. v4' # <<>>
    BY <2>1
  <2>3. Trials!AtStake' = IF v5' THEN 1 ELSE 0
    BY <2>1 DEF Trials!AtStake
  <2>4. Cardinality(Trials!Whole(v4')) = IF n \in Trials!Whole(v4) THEN w - 1 ELSE w
    BY <1>1, <2>1, FS_RemoveElement
  <2>5. Cardinality(Trials!Whole(v4')) \in Nat
    BY <2>1, WholeAre
  <2> HIDE DEF n, w
  <2> QED BY <1>1, <1>2, <2>2, <2>3, <2>4, <2>5 DEF w
<1>3. CASE ~v5
  <2>1. /\ v4' \in Seq(Seq(Trials!Parts)) /\ Len(v4') = n + 1 /\ v4'[n + 1] # <<>>
        /\ Trials!Whole(v4') = IF whole THEN Trials!Whole(v4) \union {n + 1} ELSE Trials!Whole(v4)
    BY <1>3, OnItsOwnLine
  <2>2. v4' # <<>>
    BY <1>1, <2>1
  <2>3. n + 1 \notin Trials!Whole(v4)
    BY <1>1
  <2>4. Cardinality(Trials!Whole(v4')) = IF whole THEN w + 1 ELSE w
    <3>1. Cardinality(Trials!Whole(v4) \union {n + 1}) = w + 1
      BY <1>1, <2>3, FS_AddElement
    <3> QED BY <2>1, <3>1
  <2>5. Trials!AtStake' = IF ~v5' THEN 0 ELSE IF whole THEN 2 ELSE 1
    BY <2>1, <2>3 DEF Trials!AtStake
  <2> HIDE DEF n, w
  <2> QED BY <1>1, <1>3, <2>2, <2>4, <2>5 DEF w
<1> QED BY <1>2, <1>3

LEMMA AddedUp ==
  ASSUME NEW n \in Int, NEW w \in Int, NEW a \in Int, NEW f \in Int, n - w + a <= 2 * f,
         NEW v \in Int, NEW b \in Int
  PROVE  /\ 1 - v + b <= 2 + a - w => (n + 1) - v + b <= 2 * (f + 1)
         /\ 1 - v + b <= a - w => (n + 1) - v + b <= 2 * f
  OBVIOUS

\* A trial of a process that goes on is in the file; a fault may take two.
LEMMA LinesKeep ==
  ASSUME LogConstants, Trials!LogInv, NEW r \in LogRuns, NEW gain \in MetricGains, Trials!MayTry(r), Trials!Remember(Trials!Mutation(r, gain)), Trials!MadeInOrder',
         \/ v4' = Trials!Written(Trials!Mutation(r, gain), TRUE) /\ v5' = FALSE /\ v9' = v9
         \/ UNCHANGED <<v4, v5>> /\ v9' = v9 + 1
         \/ (\E whole \in BOOLEAN : v4' = Trials!Written(Trials!Mutation(r, gain), whole) /\ v5' = TRUE) /\ v9' = v9 + 1
  PROVE  Trials!LinesInOrder'
<1> DEFINE m == Trials!Mutation(r, gain)
           n == Len(v7)
           w == Cardinality(Trials!Whole(v4))
<1>1. Trials!MadeInOrder /\ Trials!RunsGoOn /\ Trials!LinesInOrder
  BY DEF Trials!LogInv
<1>2. m \in Trials!Trials /\ m \notin Trials!Range(v7)
  BY <1>1, TrialIs
<1>3. v7 \in Seq(Trials!Trials) /\ v7' = Append(v7, m)
  BY <1>1 DEF Trials!MadeInOrder, Trials!Remember
<1>4. /\ v9 \in Nat /\ v5 \in BOOLEAN /\ (v5 => v4 # <<>>) /\ w \in Nat
      /\ Trials!AtStake \in {0, 1, 2} /\ n - w + Trials!AtStake <= 2 * v9
  BY <1>1, StakeIs
<1>5. n \in Nat /\ Len(v7') = n + 1
  BY <1>2, <1>3, AppendIs
<1>6. Trials!Remember(m)
  OBVIOUS
<1> HIDE DEF m, n, w
<1>7. /\ v4' \in Seq(Seq(Trials!Parts))
      /\ \A k \in DOMAIN v4' : v4'[k] # <<>> /\ v4'[k][1].record \in Trials!Range(v7')
      /\ \A j, k \in DOMAIN v4' : j < k => \A a, b \in DOMAIN v7' :
           v7'[a] = v4'[j][1].record /\ v7'[b] = v4'[k][1].record => a < b
  <2>1. v4' = v4 \/ \E whole \in BOOLEAN : v4' = Trials!Written(m, whole)
    BY DEF m
  <2> QED BY <1>1, <1>2, <1>6, <2>1, WrittenInOrder
<1>8. /\ v5' \in BOOLEAN /\ (v5' => v4' # <<>>) /\ v9' \in Nat
      /\ Len(v7') - Cardinality(Trials!Whole(v4')) + Trials!AtStake' <= 2 * v9'
  <2>1. CASE UNCHANGED <<v4, v5>> /\ v9' = v9 + 1
    <3>1. Trials!AtStake' = Trials!AtStake /\ Cardinality(Trials!Whole(v4')) = w
      BY <2>1 DEF Trials!AtStake, w
    <3> QED BY <1>4, <1>5, <2>1, <3>1
  <2>2. ASSUME NEW whole \in BOOLEAN, v4' = Trials!Written(m, whole), v5' = TRUE, v9' = v9 + 1
        PROVE  /\ v5' \in BOOLEAN /\ (v5' => v4' # <<>>) /\ v9' \in Nat
               /\ Len(v7') - Cardinality(Trials!Whole(v4')) + Trials!AtStake' <= 2 * v9'
    <3>1. /\ v4' # <<>> /\ Trials!AtStake' \in Nat /\ Cardinality(Trials!Whole(v4')) \in Nat
          /\ 1 - Cardinality(Trials!Whole(v4')) + Trials!AtStake' <= 2 + Trials!AtStake - w
      BY <1>1, <1>2, <2>2, LineCounts DEF w
    <3>2. Len(v7') - Cardinality(Trials!Whole(v4')) + Trials!AtStake' <= 2 * v9'
      BY <1>4, <1>5, <2>2, <3>1, AddedUp
    <3> QED BY <1>4, <2>2, <3>1, <3>2
  <2>3. CASE v4' = Trials!Written(m, TRUE) /\ v5' = FALSE /\ v9' = v9
    <3>1. /\ v4' # <<>> /\ Trials!AtStake' \in Nat /\ Cardinality(Trials!Whole(v4')) \in Nat
          /\ 1 - Cardinality(Trials!Whole(v4')) + Trials!AtStake' <= 0 + Trials!AtStake - Cardinality(Trials!Whole(v4))
      BY <1>1, <1>2, <2>3, LineCounts
    <3>2. 1 - Cardinality(Trials!Whole(v4')) + Trials!AtStake' <= Trials!AtStake - w
      BY <1>4, <3>1 DEF w
    <3>3. Len(v7') - Cardinality(Trials!Whole(v4')) + Trials!AtStake' <= 2 * v9
      <4> DEFINE v == Cardinality(Trials!Whole(v4'))
                 b == Trials!AtStake'
      <4>1. v \in Int /\ b \in Int /\ w \in Int /\ Trials!AtStake \in Int /\ n \in Int /\ v9 \in Int
        BY <1>4, <1>5, <3>1
      <4>2. 1 - v + b <= Trials!AtStake - w
        BY <3>2
      <4> HIDE DEF v, b
      <4>3. (n + 1) - v + b <= 2 * v9
        BY <1>4, <4>1, <4>2, AddedUp
      <4> QED BY <1>5, <4>3 DEF v, b
    <3> QED BY <1>4, <2>3, <3>1, <3>3
  <2> QED BY <2>1, <2>2, <2>3 DEF m
<1> QED BY <1>7, <1>8, TrialsCounts DEF Trials!LinesInOrder

-----------------------------------------------------------------------------
(* Every step                                                              *)

LEMMA LogInit ==
  ASSUME LogConstants, Trials!Init
  PROVE  Trials!LogInv
<1>1. v7 = <<>> /\ v4 = <<>> /\ v3 = <<>> /\ v8 = {} /\ v9 = 0 /\ v5 = FALSE /\ v6 = None /\ v1 = TRUE
      /\ v2 = [r \in LogRuns |-> None]
  BY DEF Trials!Init
<1>2. Trials!MadeInOrder
  BY <1>1 DEF Trials!MadeInOrder
<1>3. Trials!RunsGoOn
  BY <1>1 DEF Trials!RunsGoOn
<1>4. Trials!Whole(v4) = {} /\ Cardinality({}) = 0 /\ Trials!AtStake = 0 /\ Len(v7) = 0
  BY <1>1, FS_EmptySet DEF Trials!Whole, Trials!AtStake
<1>5. Trials!LinesInOrder
  <2>1. v4 \in Seq(Seq(Trials!Parts)) /\ DOMAIN v4 = {}
    BY <1>1
  <2>2. Len(v7) - Cardinality(Trials!Whole(v4)) + Trials!AtStake <= 2 * v9 /\ v9 \in Nat
    <3>1. Cardinality(Trials!Whole(v4)) = 0
      BY <1>4
    <3> QED BY <1>1, <1>4, <3>1
  <2> QED BY <1>1, <2>1, <2>2, TrialsCounts DEF Trials!LinesInOrder
<1>6. Trials!MemoryIsWhole
  BY <1>1 DEF Trials!MemoryIsWhole, LogConstants
<1> QED BY <1>2, <1>3, <1>5, <1>6 DEF Trials!LogInv

LEMMA RecordKeeps ==
  ASSUME LogConstants, Trials!LogInv, NEW r \in LogRuns, NEW gain \in MetricGains, Trials!Record(r, gain) \/ Trials!RecordFails(r, gain)
  PROVE  Trials!LogInv'
<1> DEFINE m == Trials!Mutation(r, gain)
<1>1. Trials!MadeInOrder /\ Trials!RunsGoOn /\ Trials!LinesInOrder /\ Trials!MemoryIsWhole
  BY DEF Trials!LogInv
<1>2. Trials!MayTry(r) /\ Trials!Remember(m) /\ v3' = Append(v3, m) /\ v8' = v8 \union {m} /\ UNCHANGED v1
  BY DEF Trials!Record, Trials!RecordFails
<1>3. v2' = [v2 EXCEPT ![r] = Trials!Counted(r)] \/ v2' = [v2 EXCEPT ![r] = None]
  BY DEF Trials!Record, Trials!RecordFails
<1>4. \/ v4' = Trials!Written(m, TRUE) /\ v5' = FALSE /\ v9' = v9
      \/ UNCHANGED <<v4, v5>> /\ v9' = v9 + 1
      \/ (\E whole \in BOOLEAN : v4' = Trials!Written(m, whole) /\ v5' = TRUE) /\ v9' = v9 + 1
  BY DEF Trials!Record, Trials!RecordFails
<1>5. Trials!MadeInOrder' /\ Trials!RunsGoOn'
  BY <1>1, <1>2, <1>3, MadeKeeps, RunsAfterTrial
<1>6. Trials!LinesInOrder'
  BY <1>2, <1>4, <1>5, LinesKeep
<1>7. m \in Trials!Trials
  BY <1>1, <1>2, TrialIs
<1>8. v3 \in Seq(Trials!Trials) /\ v8 \subseteq Trials!Range(v3) /\ v1 \in {v1}
  BY <1>1 DEF Trials!MemoryIsWhole
<1> HIDE DEF m
<1>9. v3' \in Seq(Trials!Trials) /\ Trials!Range(v3') = Trials!Range(v3) \union {m}
  BY <1>2, <1>7, <1>8, AppendIs, RangeOfAppend
<1>10. v1
  BY <1>2 DEF Trials!MayTry
<1>11. Trials!MemoryIsWhole'
  BY <1>2, <1>8, <1>9, <1>10 DEF Trials!MemoryIsWhole
<1> QED BY <1>5, <1>6, <1>11 DEF Trials!LogInv

LEMMA DeathKeeps ==
  ASSUME LogConstants, Trials!LogInv, NEW r \in LogRuns, NEW gain \in MetricGains, Trials!Crash(r, gain)
  PROVE  Trials!LogInv'
<1> DEFINE m == Trials!Mutation(r, gain)
<1>1. Trials!MadeInOrder /\ Trials!RunsGoOn /\ Trials!LinesInOrder
  BY DEF Trials!LogInv
<1>2. Trials!MayTry(r) /\ Trials!Remember(m) /\ v2' = [q \in LogRuns |-> None]
      /\ v3' = <<>> /\ v8' = {} /\ v6' = None
  BY DEF Trials!Crash
<1>3. \/ UNCHANGED <<v4, v5>> /\ v9' = v9 + 1
      \/ (\E whole \in BOOLEAN : v4' = Trials!Written(m, whole) /\ v5' = TRUE) /\ v9' = v9 + 1
  BY DEF Trials!Crash
<1>4. Trials!MadeInOrder' /\ Trials!RunsGoOn'
  BY <1>1, <1>2, MadeKeeps, RunsAfterTrial
<1>5. Trials!LinesInOrder'
  BY <1>2, <1>3, <1>4, LinesKeep
<1>6. Trials!MemoryIsWhole'
  BY <1>2 DEF Trials!MemoryIsWhole, LogConstants
<1> QED BY <1>4, <1>5, <1>6 DEF Trials!LogInv

\* What a log that loads has read is all of the file.
LEMMA RecordsAreTrials ==
  ASSUME Trials!LinesInOrder, Trials!Loads(v4)
  PROVE  Trials!RecordsOf(v4, DOMAIN v4) \in Seq(Trials!Trials) /\ Trials!RecordsOf(v4, DOMAIN v4) = Trials!Readable(v4)
<1>1. /\ v4 \in Seq(Seq(Trials!Parts)) /\ \A k \in DOMAIN v4 : v4[k] # <<>>
  BY TrialsCounts DEF Trials!LinesInOrder
<1>2. Len(v4) \in Nat /\ DOMAIN v4 = 1..Len(v4) /\ \A k \in DOMAIN v4 : v4[k] \in Seq(Trials!Parts) /\ v4[k] # <<>>
  BY <1>1
<1>3. ASSUME NEW s \in Seq(Trials!Parts), s # <<>> PROVE s[1] \in Trials!Parts
  BY <1>3
<1>4. \A p \in Trials!Parts : p.record \in Trials!Trials
  BY DEF Trials!Parts
<1>5. \A k \in DOMAIN v4 : v4[k][1].record \in Trials!Trials
  BY <1>2, <1>3, <1>4
<1>6. Trials!RecordsOf(v4, DOMAIN v4) \in Seq(Trials!Trials)
  BY <1>2, <1>5 DEF Trials!RecordsOf
<1> QED BY <1>6 DEF Trials!Loads, Trials!Readable

LEMMA LogNext ==
  ASSUME LogConstants, Trials!LogInv, [Trials!Next]_(Trials!vars)
  PROVE  Trials!LogInv'
<1>1. Trials!MadeInOrder /\ Trials!RunsGoOn /\ Trials!LinesInOrder /\ Trials!MemoryIsWhole
  BY DEF Trials!LogInv
<1>2. ASSUME UNCHANGED <<v7, v4, v5, v9>> PROVE Trials!MadeInOrder' /\ Trials!LinesInOrder'
  BY <1>1, <1>2, TrialsCounts DEF Trials!MadeInOrder, Trials!LinesInOrder, Trials!AtStake
<1>3. ASSUME NEW r \in LogRuns, Trials!Start(r) PROVE Trials!LogInv'
  <2>1. /\ UNCHANGED <<v1, v3, v4, v5, v6, v7, v8, v9>>
        /\ v2' = [v2 EXCEPT ![r] = [trial |-> 0, last |-> None]]
        /\ \A i \in DOMAIN v7 : v7[i].run # r
    BY <1>3 DEF Trials!Start, Trials!Range
  <2>2. Trials!RunsGoOn'
    <3>1. DOMAIN v2' = LogRuns /\ v2'[r] = [trial |-> 0, last |-> None]
          /\ \A q \in LogRuns \ {r} : v2'[q] = v2[q]
      BY <1>1, <2>1 DEF Trials!RunsGoOn
    <3> QED BY <1>1, <2>1, <3>1 DEF Trials!RunsGoOn
  <2>3. Trials!MemoryIsWhole'
    BY <1>1, <2>1 DEF Trials!MemoryIsWhole
  <2> QED BY <1>2, <2>1, <2>2, <2>3 DEF Trials!LogInv
<1>4. ASSUME NEW r \in LogRuns, Trials!Ends(r) PROVE Trials!LogInv'
  <2>1. /\ UNCHANGED <<v1, v3, v4, v5, v6, v7, v8, v9>>
        /\ v2' = [v2 EXCEPT ![r] = None]
    BY <1>4 DEF Trials!Ends
  <2>2. Trials!RunsGoOn'
    BY <1>1, <2>1 DEF Trials!RunsGoOn
  <2>3. Trials!MemoryIsWhole'
    BY <1>1, <2>1 DEF Trials!MemoryIsWhole
  <2> QED BY <1>2, <2>1, <2>2, <2>3 DEF Trials!LogInv
<1>5. ASSUME NEW r \in LogRuns, NEW gain \in MetricGains, Trials!Record(r, gain) \/ Trials!RecordFails(r, gain) \/ Trials!Crash(r, gain)
      PROVE  Trials!LogInv'
  BY <1>5, RecordKeeps, DeathKeeps
<1>6. CASE Trials!New \/ UNCHANGED Trials!vars
  <2>1. UNCHANGED <<v2, v3, v4, v5, v6, v7, v8, v9>> /\ (v1' \/ v1' = v1)
    BY <1>6 DEF Trials!New, Trials!vars
  <2>2. Trials!RunsGoOn' /\ Trials!MemoryIsWhole'
    BY <1>1, <2>1 DEF Trials!RunsGoOn, Trials!MemoryIsWhole
  <2> QED BY <1>2, <2>1, <2>2 DEF Trials!LogInv
<1>7. CASE Trials!Load
  <2>1. UNCHANGED <<v2, v4, v5, v7, v8, v9>> /\ ~v1 /\ v1'
    BY <1>7 DEF Trials!Load
  <2>2. Trials!RunsGoOn'
    BY <1>1, <2>1 DEF Trials!RunsGoOn
  <2>3. v8 = {}
    BY <1>1, <2>1 DEF Trials!MemoryIsWhole
  <2>4. CASE Trials!Loads(v4)
    <3>1. v3' \in Seq(Trials!Trials) /\ v3' = Trials!Readable(v4)'
      BY <1>1, <1>7, <2>1, <2>4, RecordsAreTrials DEF Trials!Load, Trials!Readable, Trials!Whole,
         Trials!RecordsOf
    <3> QED BY <1>2, <2>1, <2>2, <2>3, <3>1 DEF Trials!LogInv, Trials!MemoryIsWhole
  <2>5. CASE ~Trials!Loads(v4)
    <3>1. v6' = "refused" /\ v3' = v3
      BY <1>7, <2>5 DEF Trials!Load
    <3>2. Trials!MemoryIsWhole'
      BY <1>1, <2>1, <2>3, <3>1 DEF Trials!MemoryIsWhole
    <3> QED BY <1>2, <2>1, <2>2, <3>2 DEF Trials!LogInv
  <2> QED BY <2>4, <2>5
<1> QED BY <1>3, <1>4, <1>5, <1>6, <1>7 DEF Trials!Next

-----------------------------------------------------------------------------
(* What the log tells                                                      *)

LEMMA ReadInOrder ==
  ASSUME Trials!LinesInOrder, Trials!MadeInOrder
  PROVE  Trials!IsSubsequence(Trials!Readable(v4), v7)
<1> DEFINE R == Trials!Whole(v4)
           places == [k \in R |-> CHOOSE i \in DOMAIN v7 : v7[i] = v4[k][1].record]
<1>1. /\ v4 \in Seq(Seq(Trials!Parts)) /\ R \subseteq DOMAIN v4
      /\ \A k \in DOMAIN v4 : v4[k][1].record \in Trials!Range(v7)
      /\ \A j, k \in DOMAIN v4 : j < k => \A a, b \in DOMAIN v7 :
           v7[a] = v4[j][1].record /\ v7[b] = v4[k][1].record => a < b
  BY TrialsCounts DEF Trials!LinesInOrder, Trials!Whole
<1>2. DOMAIN Trials!Readable(v4) = R /\ \A k \in R : Trials!Readable(v4)[k] = v4[k][1].record
  BY DEF Trials!Readable, Trials!RecordsOf
<1>3. ASSUME NEW k \in R PROVE places[k] \in DOMAIN v7 /\ v7[places[k]] = v4[k][1].record
  <2>1. \E i \in DOMAIN v7 : v7[i] = v4[k][1].record
    BY <1>1 DEF Trials!Range
  <2> QED BY <2>1
<1>4. places \in [R -> DOMAIN v7]
  BY <1>3
<1> HIDE DEF R, places
<1>5. ASSUME NEW j \in R, NEW k \in R, j < k PROVE places[j] < places[k]
  <2>1. j \in DOMAIN v4 /\ k \in DOMAIN v4
    BY <1>1
  <2>2. /\ places[j] \in DOMAIN v7 /\ v7[places[j]] = v4[j][1].record
        /\ places[k] \in DOMAIN v7 /\ v7[places[k]] = v4[k][1].record
    BY <1>3
  <2> QED BY <1>1, <1>5, <2>1, <2>2
<1> QED BY <1>2, <1>3, <1>4, <1>5 DEF Trials!IsSubsequence

\* A trial belongs to the contribution of its strategy and to no other.
LEMMA StrategiesDivide ==
  ASSUME NEW records
  PROVE  LET summary == Trials!SummarizeRun(records)
         IN \A k \in summary.trials : \E c \in summary.strategies :
              /\ k \in c.trials /\ (k \in summary.wins <=> k \in c.wins)
              /\ \A d \in summary.strategies \ {c} : k \notin d.trials \union d.wins
<1> DEFINE summary == Trials!SummarizeRun(records)
<1>1. /\ summary.trials = DOMAIN records /\ summary.wins = Trials!Wins(records, DOMAIN records)
      /\ summary.strategies = Trials!Contributions(records)
  BY DEF Trials!SummarizeRun
<1>2. \A s : Trials!Contribution(records, s).trials = Trials!Of(records, s)
              /\ Trials!Contribution(records, s).wins = Trials!Wins(records, Trials!Of(records, s))
  BY DEF Trials!Contribution
<1>3. ASSUME NEW k \in DOMAIN records
      PROVE  \E c \in Trials!Contributions(records) :
               /\ k \in c.trials /\ (k \in Trials!Wins(records, DOMAIN records) <=> k \in c.wins)
               /\ \A d \in Trials!Contributions(records) \ {c} : k \notin d.trials \union d.wins
  <2> DEFINE c == Trials!Contribution(records, records[k].strategy)
  <2>1. c \in Trials!Contributions(records)
    BY DEF Trials!Contributions
  <2>2. k \in c.trials /\ (k \in Trials!Wins(records, DOMAIN records) <=> k \in c.wins)
    BY <1>2 DEF Trials!Of, Trials!Wins
  <2>3. ASSUME NEW d \in Trials!Contributions(records), d # c PROVE k \notin d.trials \union d.wins
    <3>1. PICK j \in DOMAIN records : d = Trials!Contribution(records, records[j].strategy)
      BY DEF Trials!Contributions
    <3>2. records[j].strategy # records[k].strategy
      BY <2>3, <3>1
    <3>3. k \notin Trials!Of(records, records[j].strategy)
      BY <3>2 DEF Trials!Of
    <3> QED BY <1>2, <3>1, <3>3 DEF Trials!Wins
  <2> HIDE DEF c
  <2> QED BY <2>1, <2>2, <2>3
<1> HIDE DEF summary
<1>4. \A k \in summary.trials : \E c \in summary.strategies :
        /\ k \in c.trials /\ (k \in summary.wins <=> k \in c.wins)
        /\ \A d \in summary.strategies \ {c} : k \notin d.trials \union d.wins
  BY <1>1, <1>3
<1> QED BY <1>4 DEF summary

LEMMA LogTellsThen ==
  ASSUME LogConstants, Trials!LogInv
  PROVE  Trials!LogTellsTheRuns
<1> DEFINE records == Trials!Readable(v4)
<1>1. Trials!MadeInOrder /\ Trials!LinesInOrder /\ Trials!MemoryIsWhole
  BY DEF Trials!LogInv
<1>2. Trials!IsSubsequence(records, v7)
  BY <1>1, ReadInOrder
<1>3. DOMAIN records = Trials!Whole(v4)
  BY DEF Trials!Readable, Trials!RecordsOf
<1>4. Len(v7) - Cardinality(DOMAIN records) <= 2 * v9
  <2>1. v7 \in Seq(Trials!Trials)
    BY <1>1 DEF Trials!MadeInOrder
  <2>2. Len(v7) \in Nat
    BY <2>1
  <2>3. Cardinality(Trials!Whole(v4)) \in Nat /\ Trials!AtStake \in {0, 1, 2} /\ v9 \in Nat
        /\ Len(v7) - Cardinality(Trials!Whole(v4)) + Trials!AtStake <= 2 * v9
    BY <1>1, StakeIs
  <2> HIDE DEF records
  <2> QED BY <1>3, <2>2, <2>3
<1>5. \A m \in Trials!Range(v7) :
        IF m.trial = 0 THEN m.parent = None
        ELSE m.parent = m.trial - 1 /\ \E p \in Trials!Range(v7) : p.run = m.run /\ p.trial = m.parent
  <2> SUFFICES ASSUME NEW i \in DOMAIN v7
               PROVE  IF v7[i].trial = 0 THEN v7[i].parent = None
                      ELSE v7[i].parent = v7[i].trial - 1
                           /\ \E p \in Trials!Range(v7) : p.run = v7[i].run /\ p.trial = v7[i].parent
    BY DEF Trials!Range
  <2>1. \A j \in DOMAIN v7 : v7[j] \in Trials!Range(v7)
    BY DEF Trials!Range
  <2> QED BY <1>1, <2>1 DEF Trials!MadeInOrder
<1>6. v8 \subseteq Trials!Range(v3) /\ (v6 = "loaded" /\ v8 = {} => v3 = records)
  BY <1>1 DEF Trials!MemoryIsWhole
<1>7. LET summary == Trials!SummarizeRun(records)
      IN \A k \in summary.trials : \E c \in summary.strategies :
           /\ k \in c.trials /\ (k \in summary.wins <=> k \in c.wins)
           /\ \A d \in summary.strategies \ {c} : k \notin d.trials \union d.wins
  BY StrategiesDivide
<1> HIDE DEF records
<1>8. LET summary == Trials!SummarizeRun(records)
      IN /\ Trials!IsSubsequence(records, v7)
         /\ Len(v7) - Cardinality(DOMAIN records) <= 2 * v9
         /\ \A m \in Trials!Range(v7) :
              IF m.trial = 0 THEN m.parent = None
              ELSE m.parent = m.trial - 1 /\ \E p \in Trials!Range(v7) : p.run = m.run /\ p.trial = m.parent
         /\ \A k \in summary.trials : \E c \in summary.strategies :
              /\ k \in c.trials /\ (k \in summary.wins <=> k \in c.wins)
              /\ \A d \in summary.strategies \ {c} : k \notin d.trials \union d.wins
         /\ v8 \subseteq Trials!Range(v3)
         /\ v6 = "loaded" /\ v8 = {} => v3 = records
  BY <1>2, <1>4, <1>5, <1>6, <1>7
<1> QED BY <1>8, TrialsCounts DEF Trials!LogTellsTheRuns, records

-----------------------------------------------------------------------------
(* The recorder (EnvRecorder):                                             *)
(* v1 alive; v2 installed; v3 at; v4 line; v5 written; v6 lock; v7 file;   *)
(* v8 fails; Made is RecordedCalls; Owner is CallOwners;                   *)
(* Pieces is LinePieces; MaxFails is WriteFaults.                          *)

(* Steps that write nothing                                                *)

LEMMA PiecesAre ==
  ASSUME Recorder!PiecesInOrder
  PROVE  /\ Len(v7) \in Nat /\ DOMAIN v7 = 1..Len(v7)
         /\ \A i \in DOMAIN v7 : v7[i].call \in RecordedCalls /\ v7[i].piece \in Nat /\ v7[i] \in [call : RecordedCalls, piece : Nat]
         /\ v7 # <<>> => Len(v7) \in DOMAIN v7
<1> DEFINE R == [call : RecordedCalls, piece : Nat]
<1>1. v7 \in Seq(R)
  BY DEF Recorder!PiecesInOrder
<1>2. \A r \in R : r.call \in RecordedCalls /\ r.piece \in Nat
  OBVIOUS
<1> HIDE DEF R
<1>3. Len(v7) \in Nat /\ DOMAIN v7 = 1..Len(v7) /\ \A i \in DOMAIN v7 : v7[i] \in R
  BY <1>1
<1>4. v7 # <<>> => Len(v7) \in DOMAIN v7
  BY <1>1
<1>5. \A i \in DOMAIN v7 : v7[i].call \in RecordedCalls /\ v7[i].piece \in Nat
  BY <1>2, <1>3
<1> USE DEF R
<1> QED BY <1>3, <1>4, <1>5

LEMMA NothingWritten ==
  ASSUME RecorderConstants, Recorder!RecorderInv, UNCHANGED <<v7, v5>>,
         \A c \in RecordedCalls : v3'[c] = "writing" => v3[c] = "writing" \/ v5[c] = 0,
         v8' = 0 => v8 = 0 /\ \A c \in RecordedCalls : v3[c] = "writing" => v3'[c] = "writing" \/ v5[c] = LinePieces[c]
  PROVE  Recorder!PiecesInOrder' /\ Recorder!LinesAreBlocks' /\ Recorder!LinesUnbroken'
<1>1. Recorder!PiecesInOrder /\ Recorder!LinesAreBlocks /\ Recorder!LinesUnbroken /\ Recorder!CallsProgress
  BY DEF Recorder!RecorderInv
<1>2. Len(v7) \in Nat /\ DOMAIN v7 = 1..Len(v7) /\ (v7 # <<>> => Len(v7) \in DOMAIN v7)
        /\ \A i \in DOMAIN v7 : v7[i].call \in RecordedCalls
  BY <1>1, PiecesAre
<1>3. \A i \in DOMAIN v7 : v5[v7[i].call] # 0
  <2>1. \A c \in RecordedCalls : v5[c] \in 0..LinePieces[c] /\ LinePieces[c] \in Nat
    BY <1>1 DEF Recorder!CallsProgress, RecorderConstants
  <2> QED BY <1>1, <1>2, <2>1 DEF Recorder!PiecesInOrder
<1>4. Recorder!PiecesInOrder'
  BY <1>1, <1>2, <1>3 DEF Recorder!PiecesInOrder
<1>5. Recorder!LinesUnbroken'
  BY <1>1 DEF Recorder!LinesUnbroken
<1>6. Recorder!LinesAreBlocks'
  <2> SUFFICES ASSUME v8' = 0, ~Recorder!Shared'
               PROVE  /\ \A c \in RecordedCalls : v5'[c] > 0 => \E i \in DOMAIN v7' : Recorder!BlockOf(c, i)'
                      /\ \A c \in RecordedCalls : v3'[c] = "writing" /\ v5'[c] > 0 =>
                           v7'[Len(v7')] = [call |-> c, piece |-> v5'[c]]
                      /\ v7' # <<>> => v7'[Len(v7')].piece = LinePieces[v7'[Len(v7')].call]
                                          \/ v3'[v7'[Len(v7')].call] = "writing"
    BY DEF Recorder!LinesAreBlocks
  <2>1. v8 = 0 /\ ~Recorder!Shared
    BY DEF Recorder!Shared
  <2>2. \A c \in RecordedCalls : v5[c] > 0 => \E i \in DOMAIN v7 : Recorder!BlockOf(c, i)
    BY <1>1, <2>1 DEF Recorder!LinesAreBlocks
  <2>3. \A c \in RecordedCalls : v3[c] = "writing" /\ v5[c] > 0 =>
          v7[Len(v7)] = [call |-> c, piece |-> v5[c]]
    BY <1>1, <2>1 DEF Recorder!LinesAreBlocks
  <2>4. v7 # <<>> => v7[Len(v7)].piece = LinePieces[v7[Len(v7)].call]
                          \/ v3[v7[Len(v7)].call] = "writing"
    BY <1>1, <2>1 DEF Recorder!LinesAreBlocks
  <2>5. \A c, i : Recorder!BlockOf(c, i)' <=> Recorder!BlockOf(c, i)
    BY DEF Recorder!BlockOf, Recorder!Starts, Recorder!Ends
  <2>6. \A c \in RecordedCalls : v5[c] \in Int
    BY <1>1 DEF Recorder!CallsProgress, RecorderConstants
  <2>7. \A c \in RecordedCalls : v3'[c] = "writing" /\ v5'[c] > 0 =>
                           v7'[Len(v7')] = [call |-> c, piece |-> v5'[c]]
    BY <2>3, <2>6
  <2>8. ASSUME v7 # <<>> PROVE v7[Len(v7)].piece = LinePieces[v7[Len(v7)].call]
                                   \/ v3'[v7[Len(v7)].call] = "writing"
    <3> DEFINE c == v7[Len(v7)].call
    <3>1. c \in RecordedCalls /\ v5[c] # 0 /\ v5[c] \in 0..LinePieces[c] /\ LinePieces[c] \in Nat
      BY <1>1, <1>2, <1>3, <2>8 DEF Recorder!CallsProgress, RecorderConstants
    <3>2. CASE v3[c] = "writing" /\ v5[c] = LinePieces[c]
      <4>1. v7[Len(v7)] = [call |-> c, piece |-> v5[c]]
        BY <2>3, <3>1, <3>2
      <4>2. v7[Len(v7)].piece = v5[c]
        BY <4>1
      <4> QED BY <3>2, <4>2
    <3>3. CASE ~(v3[c] = "writing" /\ v5[c] = LinePieces[c])
      BY <2>4, <2>8, <3>1, <3>3
    <3> QED BY <3>2, <3>3
  <2> QED BY <2>2, <2>5, <2>7, <2>8
<1> QED BY <1>4, <1>5, <1>6

-----------------------------------------------------------------------------
(* A piece                                                                 *)

\* What belongs to a process is not written by two calls at once.
LEMMA OneWriter ==
  ASSUME RecorderConstants, Recorder!LockIsHeld, NEW c \in RecordedCalls, NEW d \in RecordedCalls, v3[c] = "writing", v3[d] = "writing",
         CallOwners[c] = CallOwners[d]
  PROVE  c = d
  BY DEF Recorder!LockIsHeld

LEMMA WriteKeeps ==
  ASSUME RecorderConstants, Recorder!RecorderInv, NEW c \in RecordedCalls, Recorder!Write(c)
  PROVE  Recorder!RecorderInv'
<1> DEFINE n == Len(v7)
           w == v5[c]
           piece == [call |-> c, piece |-> w + 1]
<1>1. Recorder!PiecesInOrder /\ Recorder!LinesAreBlocks /\ Recorder!LinesUnbroken /\ Recorder!CallsProgress /\ Recorder!LockIsHeld
  BY DEF Recorder!RecorderInv
<1>2. /\ n \in Nat /\ DOMAIN v7 = 1..n /\ (v7 # <<>> => n \in DOMAIN v7)
      /\ v7 \in Seq([call : RecordedCalls, piece : Nat])
      /\ \A i \in DOMAIN v7 : v7[i].call \in RecordedCalls /\ v7[i].piece \in Nat
  BY <1>1, PiecesAre DEF Recorder!PiecesInOrder
<1>3. \A d \in RecordedCalls : v5[d] \in 0..LinePieces[d] /\ LinePieces[d] \in Nat \ {0}
  BY <1>1 DEF Recorder!CallsProgress, RecorderConstants
<1>4. /\ v3[c] = "writing" /\ w \in Nat /\ w < LinePieces[c]
      /\ UNCHANGED <<v1, v2, v3, v4, v6, v8>>
  BY <1>3 DEF Recorder!Write
<1>5. v5' = [v5 EXCEPT ![c] = w + 1] /\ v7' = Append(v7, piece)
  BY DEF Recorder!Write
<1>6. v5'[c] = w + 1 /\ \A d \in RecordedCalls \ {c} : v5'[d] = v5[d]
  BY <1>1, <1>5 DEF Recorder!LockIsHeld
<1>7. /\ piece \in [call : RecordedCalls, piece : Nat]
      /\ piece.call = c /\ piece.piece = w + 1
  BY <1>4
<1> HIDE DEF piece
<1>8. /\ v7' \in Seq([call : RecordedCalls, piece : Nat]) /\ DOMAIN v7' = 1..(n + 1) /\ Len(v7') = n + 1
      /\ v7'[n + 1] = piece /\ \A i \in DOMAIN v7 : v7'[i] = v7[i]
      /\ \A i \in DOMAIN v7' : i \in DOMAIN v7 \/ i = n + 1
      /\ \A i \in DOMAIN v7 : i \in DOMAIN v7' /\ i < n + 1 /\ i \in Int
      /\ n + 1 \in DOMAIN v7'
  BY <1>2, <1>5, <1>7
<1>9. \A i \in DOMAIN v7 : v7[i].piece \in 1..v5[v7[i].call]
  BY <1>1 DEF Recorder!PiecesInOrder
<1> HIDE DEF n, w
<1>10. Recorder!CallsProgress'
  <2>1. v5'[c] \in 0..LinePieces[c] /\ v4[c]
    BY <1>1, <1>3, <1>4, <1>6 DEF Recorder!CallsProgress
  <2>2. \A d \in RecordedCalls : v5'[d] \in 0..LinePieces[d]
    BY <1>3, <1>6, <2>1
  <2>3. \A d \in RecordedCalls : v5'[d] > 0 => v4[d]
    BY <1>1, <1>6, <2>1 DEF Recorder!CallsProgress
  <2> QED BY <1>1, <1>4, <1>6, <2>1, <2>2, <2>3 DEF Recorder!CallsProgress
<1>11. Recorder!LockIsHeld'
  <2>1. v5' \in [RecordedCalls -> Int]
    BY <1>1, <1>4, <1>5 DEF Recorder!LockIsHeld
  <2> QED BY <1>1, <1>4, <2>1 DEF Recorder!LockIsHeld
\* The line of c that has begun is the last of its process.
<1>12. ASSUME NEW i \in DOMAIN v7, NEW j \in DOMAIN v7, i < j, v7[i].call = c, CallOwners[v7[j].call] = CallOwners[c]
       PROVE  v7[j].call = c
  BY <1>1, <1>4, <1>12 DEF Recorder!PiecesInOrder
<1>13. Recorder!PiecesInOrder'
  <2>1. \A i \in DOMAIN v7' : v7'[i].piece \in 1..v5'[v7'[i].call]
    <3> SUFFICES ASSUME NEW i \in DOMAIN v7' PROVE v7'[i].piece \in 1..v5'[v7'[i].call]
      OBVIOUS
    <3>1. CASE i = n + 1
      BY <1>4, <1>6, <1>7, <1>8, <3>1
    <3>2. CASE i \in DOMAIN v7
      <4>1. v7[i].call \in RecordedCalls /\ v7[i].piece \in Nat /\ v7[i].piece \in 1..v5[v7[i].call]
        BY <1>2, <1>9, <3>2
      <4>2. CASE v7[i].call = c
        BY <1>4, <1>6, <1>8, <3>2, <4>1, <4>2 DEF w
      <4>3. CASE v7[i].call # c
        BY <1>6, <1>8, <3>2, <4>1, <4>3
      <4> QED BY <4>2, <4>3
    <3> QED BY <1>8, <3>1, <3>2
  <2>2. ASSUME NEW i \in DOMAIN v7', NEW j \in DOMAIN v7', i < j, v7'[i].call = v7'[j].call
        PROVE  v7'[i].piece < v7'[j].piece
    <3>1. i \in DOMAIN v7
      BY <1>2, <1>8, <2>2
    <3>2. CASE j = n + 1
      <4>1. v7[i].call = c /\ v7[i].piece \in 1..w
        BY <1>7, <1>8, <1>9, <2>2, <3>1, <3>2 DEF w
      <4> QED BY <1>4, <1>7, <1>8, <3>1, <3>2, <4>1
    <3>3. CASE j \in DOMAIN v7
      BY <1>1, <1>8, <2>2, <3>1, <3>3 DEF Recorder!PiecesInOrder
    <3> QED BY <1>8, <3>2, <3>3
  <2>3. ASSUME NEW i \in DOMAIN v7', NEW j \in DOMAIN v7', i < j, v3'[v7'[i].call] = "writing",
               CallOwners[v7'[i].call] = CallOwners[v7'[j].call]
        PROVE  v7'[j].call = v7'[i].call
    <3>1. i \in DOMAIN v7
      BY <1>2, <1>8, <2>3
    <3>2. CASE j = n + 1
      <4>1. v7[i].call \in RecordedCalls /\ v3[v7[i].call] = "writing" /\ CallOwners[v7[i].call] = CallOwners[c]
        BY <1>2, <1>4, <1>7, <1>8, <2>3, <3>1, <3>2
      <4>2. v7[i].call = c
        BY <1>1, <1>4, <4>1, OneWriter
      <4> QED BY <1>7, <1>8, <3>1, <3>2, <4>2
    <3>3. CASE j \in DOMAIN v7
      BY <1>1, <1>4, <1>8, <2>3, <3>1, <3>3 DEF Recorder!PiecesInOrder
    <3> QED BY <1>8, <3>2, <3>3
  <2> QED BY <1>8, <2>1, <2>2, <2>3 DEF Recorder!PiecesInOrder
<1>14. Recorder!LinesUnbroken'
  <2> SUFFICES ASSUME NEW a \in RecordedCalls, NEW b \in RecordedCalls, CallOwners[a] = CallOwners[b], a # b,
                      NEW i \in DOMAIN v7', NEW j \in DOMAIN v7', NEW k \in DOMAIN v7',
                      i < j, j < k, v7'[i].call = a, v7'[j].call = b, v7'[k].call = a
               PROVE  FALSE
    BY DEF Recorder!LinesUnbroken
  <2>1. i \in DOMAIN v7 /\ j \in DOMAIN v7
    BY <1>2, <1>8
  <2>2. CASE k = n + 1
    <3>1. a = c
      BY <1>7, <1>8, <2>2
    <3> QED BY <1>8, <1>12, <2>1, <3>1
  <2>3. CASE k \in DOMAIN v7
    BY <1>1, <1>8, <2>1, <2>3 DEF Recorder!LinesUnbroken
  <2> QED BY <1>8, <2>2, <2>3
<1>15. Recorder!LinesAreBlocks'
  <2> SUFFICES ASSUME v8' = 0, ~Recorder!Shared'
               PROVE  /\ \A d \in RecordedCalls : v5'[d] > 0 => \E i \in DOMAIN v7' : Recorder!BlockOf(d, i)'
                      /\ \A d \in RecordedCalls : v3'[d] = "writing" /\ v5'[d] > 0 =>
                           v7'[n + 1] = [call |-> d, piece |-> v5'[d]]
                      /\ v3'[v7'[n + 1].call] = "writing"
    BY <1>8 DEF Recorder!LinesAreBlocks
  <2>1. \A d \in RecordedCalls : v5'[d] > 0 => CallOwners[d] = CallOwners[c]
    <3>1. v5'[c] > 0
      BY <1>4, <1>6
    <3> QED BY <3>1 DEF Recorder!Shared
  <2>2. \A d \in RecordedCalls : v5[d] > 0 => v5'[d] > 0
    BY <1>3, <1>4, <1>6
  <2>3. v8 = 0 /\ ~Recorder!Shared
    <3>1. ~Recorder!Shared
      BY <2>1, <2>2 DEF Recorder!Shared
    <3> QED BY <1>4, <3>1
  <2>4. \A d \in RecordedCalls : v5[d] > 0 => \E i \in DOMAIN v7 : Recorder!BlockOf(d, i)
    BY <1>1, <2>3 DEF Recorder!LinesAreBlocks
  <2>5. w > 0 => v7[n] = [call |-> c, piece |-> w]
    BY <1>1, <1>4, <2>3 DEF Recorder!LinesAreBlocks, n, w
  <2>6. v7 # <<>> => v7[n].piece = LinePieces[v7[n].call] \/ v3[v7[n].call] = "writing"
    BY <1>1, <2>3 DEF Recorder!LinesAreBlocks, n
  <2>7. ASSUME NEW i \in DOMAIN v7, Recorder!Starts(i) PROVE Recorder!Starts(i)'
    BY <1>2, <1>8, <2>7 DEF Recorder!Starts, Recorder!Ends
  <2>8. ASSUME NEW d \in RecordedCalls, v5'[d] > 0 PROVE \E i \in DOMAIN v7' : Recorder!BlockOf(d, i)'
    <3>1. CASE d # c
      <4>1. v5'[d] = v5[d] /\ v5[d] > 0 /\ v5[d] \in Int
        BY <1>3, <1>6, <2>8, <3>1
      <4>2. PICK i \in DOMAIN v7 : Recorder!BlockOf(d, i)
        BY <2>4, <4>1
      <4>3. /\ i \in DOMAIN v7' /\ Recorder!Starts(i)' /\ i + v5[d] - 1 \in DOMAIN v7'
            /\ \A k \in 1..v5[d] : i + k - 1 \in DOMAIN v7 /\ v7[i + k - 1] = [call |-> d, piece |-> k]
        <5>1. Recorder!Starts(i)' /\ i \in DOMAIN v7' /\ i + v5[d] - 1 \in DOMAIN v7'
          BY <1>8, <2>7, <4>2 DEF Recorder!BlockOf
        <5>2. i \in 1..n /\ i + v5[d] - 1 \in 1..n
          BY <1>2, <4>2 DEF Recorder!BlockOf
        <5>3. \A k \in 1..v5[d] : i + k - 1 \in 1..n
          BY <1>2, <4>1, <5>2
        <5> QED BY <1>2, <4>2, <5>1, <5>3 DEF Recorder!BlockOf
      <4>4. \A k \in 1..v5[d] : v7'[i + k - 1] = [call |-> d, piece |-> k]
        BY <1>8, <4>3
      <4> QED BY <4>1, <4>3, <4>4 DEF Recorder!BlockOf
    <3>2. CASE d = c /\ w = 0
      <4>1. ASSUME NEW s, s = n + 1 PROVE Recorder!Starts(s)'
        <5>1. CASE v7 = <<>>
          BY <4>1, <5>1 DEF Recorder!Starts, n
        <5>2. CASE v7 # <<>>
          <6> DEFINE e == v7[n].call
          <6>1. n \in DOMAIN v7 /\ e \in RecordedCalls /\ v7[n].piece \in 1..v5[e] /\ v7[n].piece \in Nat
            BY <1>2, <1>9, <5>2
          <6>2. e # c /\ v5[e] > 0
            BY <1>3, <3>2, <6>1 DEF w
          <6>3. v3[e] # "writing"
            BY <1>1, <1>4, <2>1, <2>2, <6>1, <6>2, OneWriter
          <6>4. v7'[n].piece = LinePieces[v7'[n].call] /\ n \in DOMAIN v7'
            BY <1>8, <2>6, <5>2, <6>1, <6>3
          <6>5. s - 1 = n
            BY <1>2, <4>1
          <6> QED BY <6>4, <6>5 DEF Recorder!Starts, Recorder!Ends
        <5> QED BY <5>1, <5>2
      <4>2. v5'[c] = 1 /\ n + 1 + 1 - 1 = n + 1
        BY <1>2, <1>6, <3>2
      <4>3. \A k \in 1..1 : v7'[n + 1 + k - 1] = [call |-> c, piece |-> k]
        <5>1. v7'[n + 1] = [call |-> c, piece |-> 1]
          BY <1>8, <3>2 DEF piece
        <5>2. \A k \in 1..1 : k = 1
          OBVIOUS
        <5> QED BY <4>2, <5>1, <5>2
      <4>4. ASSUME NEW s, s = n + 1 PROVE Recorder!BlockOf(c, s)'
        <5>1. /\ s \in DOMAIN v7' /\ s + v5'[c] - 1 \in DOMAIN v7'
              /\ \A k \in 1..v5'[c] : v7'[s + k - 1] = [call |-> c, piece |-> k]
          BY <1>8, <4>2, <4>3, <4>4
        <5> QED BY <4>1, <4>4, <5>1 DEF Recorder!BlockOf
      <4> QED BY <1>8, <3>2, <4>4
    <3>3. CASE d = c /\ w > 0
      <4>1. PICK i \in DOMAIN v7 : Recorder!BlockOf(c, i)
        BY <2>4, <3>3 DEF w
      <4> DEFINE m == i + w - 1
      <4>2. m \in DOMAIN v7 /\ m \in Int /\ n \in DOMAIN v7 /\ i \in 1..n /\ m \in 1..n
        BY <1>2, <4>1 DEF Recorder!BlockOf, w
      <4>3. v7[m] = [call |-> c, piece |-> w]
        BY <1>4, <3>3, <4>1 DEF Recorder!BlockOf, w
      <4>4. m = n
        <5>1. v7[n].call = v7[m].call /\ v7[n].piece = v7[m].piece /\ v7[n].piece \in Nat
          BY <1>2, <2>5, <3>3, <4>2, <4>3
        <5>2. ~(m < n)
          BY <1>1, <4>2, <5>1 DEF Recorder!PiecesInOrder
        <5> QED BY <1>2, <4>2, <5>2
      <4>5. ASSUME NEW k \in 1..(w + 1) PROVE v7'[i + k - 1] = [call |-> c, piece |-> k]
        <5>1. CASE k = w + 1
          <6>1. i + k - 1 = n + 1
            BY <1>4, <4>2, <4>4, <5>1
          <6> QED BY <1>8, <5>1, <6>1 DEF piece
        <5>2. CASE k # w + 1
          <6>1. k \in 1..w /\ i + k - 1 \in 1..n
            BY <1>2, <1>4, <4>2, <4>4, <5>2
          <6>2. v7[i + k - 1] = [call |-> c, piece |-> k]
            BY <4>1, <6>1 DEF Recorder!BlockOf, w
          <6> QED BY <1>2, <1>8, <6>1, <6>2
        <5> QED BY <5>1, <5>2
      <4>6. i + (w + 1) - 1 \in DOMAIN v7' /\ Recorder!Starts(i)' /\ i \in DOMAIN v7'
        <5>1. i + (w + 1) - 1 = n + 1
          BY <1>4, <4>2, <4>4
        <5> QED BY <1>8, <2>7, <4>1, <5>1 DEF Recorder!BlockOf
      <4> HIDE DEF m
      <4> QED BY <1>6, <3>3, <4>5, <4>6 DEF Recorder!BlockOf
    <3>4. w = 0 \/ w > 0
      BY <1>4
    <3> QED BY <3>1, <3>2, <3>3, <3>4
  <2>9. ASSUME NEW d \in RecordedCalls, v3'[d] = "writing", v5'[d] > 0
        PROVE  v7'[n + 1] = [call |-> d, piece |-> v5'[d]]
    <3>1. d = c
      BY <1>1, <1>4, <2>1, <2>9, OneWriter
    <3> QED BY <1>6, <1>8, <3>1 DEF piece
  <2>10. v3'[v7'[n + 1].call] = "writing"
    BY <1>4, <1>7, <1>8
  <2> QED BY <2>8, <2>9, <2>10
<1> QED BY <1>10, <1>11, <1>13, <1>14, <1>15 DEF Recorder!RecorderInv

-----------------------------------------------------------------------------
(* The other steps                                                         *)

\* What is known of a call before a step.
LEMMA CallsAre ==
  ASSUME RecorderConstants, Recorder!RecorderInv
  PROVE  \A c \in RecordedCalls :
           /\ v5[c] \in 0..LinePieces[c] /\ v5[c] \in Int /\ LinePieces[c] \in Nat \ {0} /\ CallOwners[c] \in Recorder!Processes
           /\ v3[c] \in {"ready", "asked", "recording"} => v5[c] = 0
           /\ v3[c] \in {"recording", "writing"} \/ v5[c] > 0 => v4[c]
           /\ c # None
<1>1. \A c \in RecordedCalls : LinePieces[c] \in Nat \ {0} /\ CallOwners[c] \in Recorder!Processes /\ c # None
  BY DEF RecorderConstants
<1>2. \A c \in RecordedCalls : v5[c] \in 0..LinePieces[c]
  BY DEF Recorder!RecorderInv, Recorder!CallsProgress
<1>3. ASSUME NEW c \in RecordedCalls PROVE v5[c] \in Int
  <2>1. LinePieces[c] \in Nat /\ v5[c] \in 0..LinePieces[c]
    BY <1>1, <1>2
  <2> QED BY <2>1
<1>4. \A c \in RecordedCalls :
        /\ v3[c] \in {"ready", "asked", "recording"} => v5[c] = 0
        /\ v3[c] \in {"recording", "writing"} \/ v5[c] > 0 => v4[c]
  BY DEF Recorder!RecorderInv, Recorder!CallsProgress
<1> QED BY <1>1, <1>2, <1>3, <1>4

LEMMA RecorderInit ==
  ASSUME RecorderConstants, Recorder!Init
  PROVE  Recorder!RecorderInv
<1>1. \A c \in RecordedCalls : LinePieces[c] \in Nat \ {0}
  BY DEF RecorderConstants
<1>2. Recorder!CallsProgress
  BY <1>1 DEF Recorder!Init, Recorder!CallsProgress, Recorder!Processes
<1>3. Recorder!LockIsHeld
  BY DEF Recorder!Init, Recorder!LockIsHeld
<1>4. v7 = <<>> /\ DOMAIN v7 = {} /\ \A c \in RecordedCalls : v5[c] = 0
  BY DEF Recorder!Init
<1>5. Recorder!PiecesInOrder
  BY <1>4 DEF Recorder!PiecesInOrder
<1>6. Recorder!LinesAreBlocks
  BY <1>4 DEF Recorder!LinesAreBlocks
<1>7. Recorder!LinesUnbroken
  BY <1>4 DEF Recorder!LinesUnbroken
<1> QED BY <1>2, <1>3, <1>5, <1>6, <1>7 DEF Recorder!RecorderInv

LEMMA GoesTo ==
  ASSUME Recorder!LockIsHeld, NEW c \in RecordedCalls, NEW to \in {"ready", "asked", "recording", "writing", "over"}, Recorder!Goes(c, to)
  PROVE  /\ v3' \in [RecordedCalls -> {"ready", "asked", "recording", "writing", "over"}]
         /\ v3'[c] = to /\ \A d \in RecordedCalls \ {c} : v3'[d] = v3[d]
  BY DEF Recorder!LockIsHeld, Recorder!Goes

LEMMA BeginKeeps ==
  ASSUME RecorderConstants, Recorder!RecorderInv, NEW c \in RecordedCalls, Recorder!Begin(c)
  PROVE  Recorder!RecorderInv'
<1>1. Recorder!CallsProgress /\ Recorder!LockIsHeld
  BY DEF Recorder!RecorderInv
<1>2. v3[c] = "ready" /\ UNCHANGED <<v1, v4, v5, v6, v7, v8>>
  BY DEF Recorder!Begin
<1>3. /\ v3' \in [RecordedCalls -> {"ready", "asked", "recording", "writing", "over"}]
      /\ v3'[c] = "asked" /\ \A d \in RecordedCalls \ {c} : v3'[d] = v3[d]
  BY <1>1, GoesTo DEF Recorder!Begin
<1>4. Recorder!CallsProgress'
  BY <1>1, <1>2, <1>3 DEF Recorder!CallsProgress
<1>5. Recorder!LockIsHeld'
  BY <1>1, <1>2, <1>3 DEF Recorder!LockIsHeld
<1>6. /\ \A d \in RecordedCalls : v3'[d] = "writing" => v3[d] = "writing" \/ v5[d] = 0
      /\ v8' = 0 => v8 = 0 /\ \A d \in RecordedCalls : v3[d] = "writing" => v3'[d] = "writing" \/ v5[d] = LinePieces[d]
  BY <1>2, <1>3
<1> QED BY <1>2, <1>4, <1>5, <1>6, NothingWritten DEF Recorder!RecorderInv

LEMMA CallEndsKeeps ==
  ASSUME RecorderConstants, Recorder!RecorderInv, NEW c \in RecordedCalls, NEW leaves \in BOOLEAN, Recorder!CallEnds(c, leaves)
  PROVE  Recorder!RecorderInv'
<1>1. Recorder!CallsProgress /\ Recorder!LockIsHeld
  BY DEF Recorder!RecorderInv
<1>2. v3[c] = "asked" /\ UNCHANGED <<v1, v5, v6, v7, v8>>
  BY DEF Recorder!CallEnds
<1>3. /\ v3' \in [RecordedCalls -> {"ready", "asked", "recording", "writing", "over"}]
      /\ \A d \in RecordedCalls \ {c} : v3'[d] = v3[d]
      /\ \/ v3'[c] = "recording" /\ v4' = [v4 EXCEPT ![c] = TRUE]
         \/ v3'[c] = "over" /\ v4' = v4
  <2>1. CASE v2 /\ leaves
    BY <1>1, <2>1, GoesTo DEF Recorder!CallEnds
  <2>2. CASE ~(v2 /\ leaves)
    BY <1>1, <2>2, GoesTo DEF Recorder!CallEnds
  <2> QED BY <2>1, <2>2
<1>4. v4' \in [RecordedCalls -> BOOLEAN] /\ (\A d \in RecordedCalls \ {c} : v4'[d] = v4[d])
      /\ (v3'[c] = "recording" => v4'[c]) /\ (v3'[c] = "over" => v4'[c] = v4[c])
  BY <1>1, <1>3 DEF Recorder!LockIsHeld
<1>5. Recorder!LockIsHeld'
  BY <1>1, <1>2, <1>3, <1>4 DEF Recorder!LockIsHeld
<1>6. /\ \A d \in RecordedCalls : v3'[d] = "writing" => v3[d] = "writing" \/ v5[d] = 0
      /\ v8' = 0 => v8 = 0 /\ \A d \in RecordedCalls : v3[d] = "writing" => v3'[d] = "writing" \/ v5[d] = LinePieces[d]
  BY <1>2, <1>3
<1>7. ~v4[c]
  BY <1>1, <1>2 DEF Recorder!CallsProgress
<1>8. Recorder!CallsProgress'
  BY <1>1, <1>2, <1>3, <1>4, <1>7 DEF Recorder!CallsProgress
<1> QED BY <1>2, <1>5, <1>6, <1>8, NothingWritten DEF Recorder!RecorderInv

LEMMA LockKeeps ==
  ASSUME RecorderConstants, Recorder!RecorderInv, NEW c \in RecordedCalls, Recorder!Lock(c)
  PROVE  Recorder!RecorderInv'
<1>1. Recorder!CallsProgress /\ Recorder!LockIsHeld
  BY DEF Recorder!RecorderInv
<1>2. /\ v3[c] = "recording" /\ UNCHANGED <<v1, v4, v5, v7, v8>>
      /\ v6[CallOwners[c]] = None /\ v6' = [v6 EXCEPT ![CallOwners[c]] = c]
  BY DEF Recorder!Lock, Recorder!Free
<1>3. /\ v3' \in [RecordedCalls -> {"ready", "asked", "recording", "writing", "over"}]
      /\ v3'[c] = "writing" /\ \A d \in RecordedCalls \ {c} : v3'[d] = v3[d]
  BY <1>1, GoesTo DEF Recorder!Lock
<1>4. Recorder!CallsProgress'
  BY <1>1, <1>2, <1>3 DEF Recorder!CallsProgress
<1>5. ASSUME NEW d \in RecordedCalls, v3'[d] = "writing" PROVE v6'[CallOwners[d]] = d
  <2>1. CallOwners[c] \in DOMAIN v6 /\ CallOwners[d] \in DOMAIN v6 /\ d # None
    BY <1>1 DEF Recorder!LockIsHeld, RecorderConstants
  <2>2. CASE d = c
    BY <1>2, <2>1, <2>2
  <2>3. CASE d # c
    BY <1>1, <1>2, <1>3, <1>5, <2>1, <2>3 DEF Recorder!LockIsHeld
  <2> QED BY <2>2, <2>3
<1>6. Recorder!LockIsHeld'
  BY <1>1, <1>2, <1>3, <1>5 DEF Recorder!LockIsHeld
<1>7. v5[c] = 0
  BY <1>2, CallsAre
<1>8. /\ \A d \in RecordedCalls : v3'[d] = "writing" => v3[d] = "writing" \/ v5[d] = 0
      /\ v8' = 0 => v8 = 0 /\ \A d \in RecordedCalls : v3[d] = "writing" => v3'[d] = "writing" \/ v5[d] = LinePieces[d]
  BY <1>2, <1>3, <1>7
<1> QED BY <1>2, <1>4, <1>6, <1>8, NothingWritten DEF Recorder!RecorderInv

\* The lock that a call gives back was its own, and no other call has it.
LEMMA CloseKeeps ==
  ASSUME RecorderConstants, Recorder!RecorderInv, NEW c \in RecordedCalls, v3[c] = "writing", Recorder!Close(c),
         UNCHANGED <<v4, v5>>
  PROVE  /\ Recorder!LockIsHeld'
         /\ v3'[c] = "over" /\ \A d \in RecordedCalls \ {c} : v3'[d] = v3[d]
<1>1. Recorder!LockIsHeld
  BY DEF Recorder!RecorderInv
<1>2. /\ v3' \in [RecordedCalls -> {"ready", "asked", "recording", "writing", "over"}]
      /\ v3'[c] = "over" /\ \A d \in RecordedCalls \ {c} : v3'[d] = v3[d]
  BY <1>1, GoesTo DEF Recorder!Close
<1>3. ASSUME NEW d \in RecordedCalls, v3'[d] = "writing" PROVE v6'[CallOwners[d]] = d
  <2>1. d # c /\ v3[d] = "writing"
    BY <1>2, <1>3
  <2>2. CallOwners[d] # CallOwners[c]
    BY <1>1, <2>1, OneWriter
  <2> QED BY <1>1, <2>1, <2>2 DEF Recorder!LockIsHeld, Recorder!Close
<1>4. Recorder!LockIsHeld'
  BY <1>1, <1>2, <1>3 DEF Recorder!LockIsHeld, Recorder!Close
<1> QED BY <1>2, <1>4

LEMMA FlushedKeeps ==
  ASSUME RecorderConstants, Recorder!RecorderInv, NEW c \in RecordedCalls, Recorder!Flushed(c)
  PROVE  Recorder!RecorderInv'
<1>1. Recorder!CallsProgress
  BY DEF Recorder!RecorderInv
<1>2. v3[c] = "writing" /\ v5[c] = LinePieces[c] /\ Recorder!Close(c) /\ UNCHANGED <<v1, v4, v5, v7, v8>>
  BY DEF Recorder!Flushed
<1>3. Recorder!LockIsHeld' /\ v3'[c] = "over" /\ \A d \in RecordedCalls \ {c} : v3'[d] = v3[d]
  BY <1>2, CloseKeeps
<1>4. Recorder!CallsProgress'
  BY <1>1, <1>2, <1>3 DEF Recorder!CallsProgress
<1>5. /\ \A d \in RecordedCalls : v3'[d] = "writing" => v3[d] = "writing" \/ v5[d] = 0
      /\ v8' = 0 => v8 = 0 /\ \A d \in RecordedCalls : v3[d] = "writing" => v3'[d] = "writing" \/ v5[d] = LinePieces[d]
  BY <1>2, <1>3
<1> QED BY <1>2, <1>3, <1>4, <1>5, NothingWritten DEF Recorder!RecorderInv

LEMMA WriteFailsKeeps ==
  ASSUME RecorderConstants, Recorder!RecorderInv, NEW c \in RecordedCalls, Recorder!WriteFails(c)
  PROVE  Recorder!RecorderInv'
<1>1. Recorder!CallsProgress
  BY DEF Recorder!RecorderInv
<1>2. /\ v3[c] = "writing" /\ Recorder!Close(c) /\ UNCHANGED <<v1, v4, v5, v7>>
      /\ v8' \in Nat /\ v8' # 0
  BY <1>1 DEF Recorder!WriteFails, Recorder!CallsProgress
<1>3. Recorder!LockIsHeld' /\ v3'[c] = "over" /\ \A d \in RecordedCalls \ {c} : v3'[d] = v3[d]
  BY <1>2, CloseKeeps
<1>4. Recorder!CallsProgress'
  BY <1>1, <1>2, <1>3 DEF Recorder!CallsProgress
<1>5. /\ \A d \in RecordedCalls : v3'[d] = "writing" => v3[d] = "writing" \/ v5[d] = 0
      /\ v8' = 0 => v8 = 0 /\ \A d \in RecordedCalls : v3[d] = "writing" => v3'[d] = "writing" \/ v5[d] = LinePieces[d]
  BY <1>2, <1>3
<1> QED BY <1>2, <1>3, <1>4, <1>5, NothingWritten DEF Recorder!RecorderInv

\* A child is forked before one of its calls: none of them is writing.
LEMMA ForkKeeps ==
  ASSUME RecorderConstants, Recorder!RecorderInv, Recorder!Fork
  PROVE  Recorder!RecorderInv'
<1>1. Recorder!CallsProgress /\ Recorder!LockIsHeld
  BY DEF Recorder!RecorderInv
<1>2. /\ v1' = Recorder!Processes /\ UNCHANGED <<v3, v4, v5, v7, v8>>
      /\ v6' = [v6 EXCEPT !["child"] = v6["parent"]]
      /\ \A c \in RecordedCalls : CallOwners[c] = "child" => v3[c] = "ready"
  BY DEF Recorder!Fork
<1>3. \A c \in RecordedCalls : v3[c] = "writing" => CallOwners[c] = "parent"
  BY <1>2 DEF RecorderConstants, Recorder!Processes
<1>4. Recorder!CallsProgress'
  BY <1>1, <1>2 DEF Recorder!CallsProgress
<1>5. Recorder!LockIsHeld'
  BY <1>1, <1>2, <1>3 DEF Recorder!LockIsHeld
<1> QED BY <1>2, <1>4, <1>5, NothingWritten DEF Recorder!RecorderInv

LEMMA OthersKeep ==
  ASSUME RecorderConstants, Recorder!RecorderInv, v1' \subseteq Recorder!Processes, UNCHANGED <<v3, v4, v5, v6, v7, v8>>
  PROVE  Recorder!RecorderInv'
<1>1. Recorder!CallsProgress /\ Recorder!LockIsHeld
  BY DEF Recorder!RecorderInv
<1>2. Recorder!CallsProgress' /\ Recorder!LockIsHeld'
  BY <1>1 DEF Recorder!CallsProgress, Recorder!LockIsHeld
<1> QED BY <1>2, NothingWritten DEF Recorder!RecorderInv

LEMMA RecorderNext ==
  ASSUME RecorderConstants, Recorder!RecorderInv, [Recorder!Next]_(Recorder!vars)
  PROVE  Recorder!RecorderInv'
<1>1. v1 \subseteq Recorder!Processes
  BY DEF Recorder!RecorderInv, Recorder!CallsProgress
<1>2. CASE Recorder!Install
  BY <1>1, <1>2, OthersKeep DEF Recorder!Install
<1>3. CASE Recorder!Fork
  BY <1>3, ForkKeeps
<1>4. ASSUME NEW c \in RecordedCalls, Recorder!Begin(c) \/ Recorder!Lock(c) \/ Recorder!Write(c) \/ Recorder!Flushed(c) \/ Recorder!WriteFails(c)
      PROVE  Recorder!RecorderInv'
  BY <1>4, BeginKeeps, LockKeeps, WriteKeeps, FlushedKeeps, WriteFailsKeeps
<1>5. ASSUME NEW c \in RecordedCalls, NEW leaves \in BOOLEAN, Recorder!CallEnds(c, leaves) PROVE Recorder!RecorderInv'
  BY <1>5, CallEndsKeeps
<1>6. ASSUME NEW p \in Recorder!Processes, Recorder!Kill(p) PROVE Recorder!RecorderInv'
  BY <1>1, <1>6, OthersKeep DEF Recorder!Kill
<1>7. CASE UNCHANGED Recorder!vars
  BY <1>1, <1>7, OthersKeep DEF Recorder!vars
<1> QED BY <1>2, <1>3, <1>4, <1>5, <1>6, <1>7 DEF Recorder!Next

-----------------------------------------------------------------------------
(* What the file tells                                                     *)

LEMMA LinesAreWholeThen ==
  ASSUME RecorderConstants, Recorder!RecorderInv
  PROVE  Recorder!LinesAreWhole
<1>1. Recorder!PiecesInOrder /\ Recorder!LinesAreBlocks /\ Recorder!LinesUnbroken /\ Recorder!CallsProgress
  BY DEF Recorder!RecorderInv
<1>2. \A c \in RecordedCalls :
        /\ v5[c] \in 0..LinePieces[c] /\ LinePieces[c] \in Nat \ {0}
        /\ v3[c] \in {"recording", "writing"} \/ v5[c] > 0 => v4[c]
  BY CallsAre
<1>3. ASSUME v8 = 0, ~Recorder!Shared, NEW c \in RecordedCalls, v4[c], v3[c] = "over" PROVE Recorder!Intact(c)
  <2>1. v5[c] = LinePieces[c] /\ v5[c] > 0
    BY <1>1, <1>2, <1>3 DEF Recorder!CallsProgress
  <2>2. PICK i \in DOMAIN v7 : Recorder!BlockOf(c, i)
    BY <1>1, <1>3, <2>1 DEF Recorder!LinesAreBlocks
  <2> QED BY <2>1, <2>2 DEF Recorder!BlockOf, Recorder!Intact
<1>4. ASSUME NEW i \in DOMAIN v7 PROVE v4[v7[i].call]
  <2>1. v7[i].call \in RecordedCalls /\ v7[i].piece \in 1..v5[v7[i].call]
    BY <1>1, PiecesAre DEF Recorder!PiecesInOrder
  <2> QED BY <1>2, <2>1
<1>5. \A i, j \in DOMAIN v7 : i < j /\ v7[i].call = v7[j].call => v7[i].piece < v7[j].piece
  BY <1>1 DEF Recorder!PiecesInOrder
<1> QED BY <1>1, <1>3, <1>4, <1>5 DEF Recorder!LinesAreWhole
=============================================================================
