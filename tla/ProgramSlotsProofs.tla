------------------------- MODULE ProgramSlotsProofs -------------------------
(***************************************************************************)
(* Theorems about the programs on the slots of ProgramSlots, for every     *)
(* value of the constants that satisfies ConstantsAssumption.  Each        *)
(* section is about one component and begins with what the slots are in    *)
(* it; X!Name is the definition Name of the module that the section names. *)
(***************************************************************************)
EXTENDS ProgramSlots, FiniteSetTheorems, SequenceTheorems, NaturalsInduction,
        WellFoundedInduction, TLAPS

\* What an instance means by Cardinality is what the library does.
LEMMA SamplesCounts == \A S : Samples!Cardinality(S) = Cardinality(S)
BY DEF Samples!Cardinality, Cardinality
LEMMA GroundCounts == \A S : Ground!Cardinality(S) = Cardinality(S)
BY DEF Ground!Cardinality, Cardinality
LEMMA SourcesCounts == \A S : Sources!Cardinality(S) = Cardinality(S)
BY DEF Sources!Cardinality, Cardinality
LEMMA OneBatchCounts == \A S : OneBatch!Cardinality(S) = Cardinality(S)
BY DEF OneBatch!Cardinality, Cardinality
LEMMA ClassifyCounts == \A S : Classify!Cardinality(S) = Cardinality(S)
BY DEF Classify!Cardinality, Cardinality
LEMMA StartCounts == \A S : Start!Cardinality(S) = Cardinality(S)
BY DEF Start!Cardinality, Cardinality
LEMMA ExtractsCounts == \A S : Extracts!Cardinality(S) = Cardinality(S)
BY DEF Extracts!Cardinality, Cardinality
LEMMA CorpusTableCounts == \A S : CorpusTable!Cardinality(S) = Cardinality(S)
BY DEF CorpusTable!Cardinality, Cardinality

-----------------------------------------------------------------------------
(* Numbers: the least of a set, the first of the highest of a sequence     *)

LEMMA LeastOf ==
  ASSUME NEW T, T \subseteq Nat, T # {}
  PROVE  \E x \in T : \A y \in T : x <= y
<1> DEFINE R == OpToRel(<, Nat)
<1>1. PICK x \in T : \A y \in T : ~ (<<y, x>> \in R)
  BY NatLessThanWellFounded, WFMin
<1>2. \A y \in T : ~ (y < x)
  BY <1>1 DEF OpToRel
<1> HIDE DEF R
<1> QED BY <1>1, <1>2

\* The first of the highest of finitely many numbers exists.
FirstHighest(f, n, k) ==
  k \in 1..n /\ \A j \in 1..n : f[k] > f[j] \/ (f[k] = f[j] /\ k <= j)

LEMMA FirstHighestExists ==
  ASSUME NEW n \in Nat \ {0}, NEW f, \A k \in 1..n : f[k] \in Int
  PROVE  \E k : FirstHighest(f, n, k)
<1> DEFINE Bad == {m \in 1..n : ~ \E k : FirstHighest(f, m, k)}
<1> SUFFICES ASSUME Bad # {} PROVE FALSE
  <2>1. n \in 1..n /\ n \notin Bad
    OBVIOUS
  <2> QED BY <2>1
<1>1. Bad \subseteq Nat
  OBVIOUS
<1>2. PICK m \in Bad : \A y \in Bad : m <= y
  BY <1>1, LeastOf
<1>3. m \in 1..n /\ ~ \E k : FirstHighest(f, m, k)
  BY <1>2
<1>4. CASE m = 1
  <2>1. FirstHighest(f, 1, 1)
    <3>1. f[1] \in Int
      BY <1>3, <1>4
    <3> QED BY <3>1 DEF FirstHighest
  <2> QED BY <1>3, <1>4, <2>1
<1>5. CASE m > 1
  <2>1. m - 1 \in 1..n /\ m - 1 \notin Bad
    BY <1>1, <1>2, <1>3, <1>5
  <2>2. PICK k : FirstHighest(f, m - 1, k)
    BY <2>1
  <2>3. k \in 1..(m - 1) /\ f[k] \in Int /\ f[m] \in Int
        /\ \A j \in 1..(m - 1) : f[j] \in Int /\ (f[k] > f[j] \/ (f[k] = f[j] /\ k <= j))
    BY <1>3, <2>2 DEF FirstHighest
  <2>4. CASE f[m] > f[k]
    <3>1. \A j \in 1..m : f[m] > f[j] \/ (f[m] = f[j] /\ m <= j)
      <4>1. ASSUME NEW j \in 1..m PROVE f[m] > f[j] \/ (f[m] = f[j] /\ m <= j)
        <5>1. j = m \/ j \in 1..(m - 1)
          BY <1>3
        <5> QED BY <1>3, <2>3, <2>4, <5>1
      <4> QED BY <4>1
    <3>2. FirstHighest(f, m, m)
      BY <1>3, <3>1 DEF FirstHighest
    <3> QED BY <1>3, <3>2
  <2>5. CASE ~(f[m] > f[k])
    <3>1. \A j \in 1..m : f[k] > f[j] \/ (f[k] = f[j] /\ k <= j)
      <4>1. ASSUME NEW j \in 1..m PROVE f[k] > f[j] \/ (f[k] = f[j] /\ k <= j)
        <5>1. j = m \/ j \in 1..(m - 1)
          BY <1>3
        <5> QED BY <1>3, <2>3, <2>5, <5>1
      <4> QED BY <4>1
    <3>2. FirstHighest(f, m, k)
      BY <1>3, <2>3, <3>1 DEF FirstHighest
    <3> QED BY <1>3, <3>2
  <2> QED BY <2>4, <2>5
<1> QED BY <1>3, <1>4, <1>5

-----------------------------------------------------------------------------
(* The loop of ReAct (ReActLoop):                                          *)
(* v1 at; v2 turn; v3 messages; v4 pending; v5 retries; v6 records;        *)
(* v7 trajectory; v8 answers; v9 usage; v10 trial; v11 stop; v12 outputs.  *)

Message == [role : {"user", "assistant", "tool"}, calls : 0..MaxTools]

-----------------------------------------------------------------------------
(* Messages                                                                *)

LEMMA SaysIsMessage ==
  ASSUME LoopConstants, NEW who \in {"user", "assistant", "tool"}
  PROVE  ReAct!Says(who) \in Message /\ ReAct!Says(who).role = who /\ ReAct!Says(who).calls = 0
BY DEF LoopConstants, ReAct!Says, Message

LEMMA LoopInvInit == ASSUME LoopConstants, ReAct!Init PROVE ReAct!LoopInv
<1>1. ReAct!Says("user") \in Message /\ ReAct!Says("user").calls = 0
  BY SaysIsMessage
<1>2. v3 = <<ReAct!Says("user")>> /\ v3 \in Seq(Message) /\ Len(v3) = 1
  BY <1>1 DEF ReAct!Init
<1>3. ReAct!TypeOK
  <2>1. v2 \in 1..MaxTurns /\ v4 \in 0..MaxTools /\ v5 \in 0..(MaxRetries + 1)
        /\ 0 \in 0..MaxTurns
    BY DEF ReAct!Init, LoopConstants
  <2> QED BY <1>2, <2>1 DEF ReAct!Init, ReAct!TypeOK, Message
<1>4. ReAct!ResultsFollowCalls
  BY <1>1, <1>2 DEF ReAct!Init, ReAct!ResultsFollowCalls
<1> QED BY <1>3, <1>4 DEF ReAct!Init, ReAct!LoopInv, ReAct!TurnsAddUp, ReAct!ResultIsWhole,
           LoopConstants

\* A message that calls no tool may follow when no tool call is open.
LEMMA PlainMessageFollows ==
  ASSUME LoopConstants, ReAct!TypeOK, ReAct!ResultsFollowCalls, v1 = "asking", NEW m \in Message, m.calls = 0
  PROVE  LET longer == Append(v3, m)
         IN  /\ longer \in Seq(Message) /\ Len(longer) = Len(v3) + 1
             /\ longer[Len(longer)] = m
             /\ \A i \in DOMAIN longer :
                  /\ i + longer[i].calls <= Len(longer)
                  /\ \A k \in 1..longer[i].calls : i + k <= Len(longer) => longer[i + k].role = "tool"
<1> DEFINE longer == Append(v3, m)
<1>1. v3 \in Seq(Message)
  BY DEF ReAct!TypeOK, Message
<1>2. longer \in Seq(Message) /\ Len(longer) = Len(v3) + 1 /\ longer[Len(longer)] = m
  BY <1>1
<1>3. ASSUME NEW i \in DOMAIN longer
      PROVE  /\ i + longer[i].calls <= Len(longer)
             /\ \A k \in 1..longer[i].calls : i + k <= Len(longer) => longer[i + k].role = "tool"
  <2>1. CASE i \in DOMAIN v3
    <3>0. longer[i] = v3[i] /\ v3[i] \in Message
      BY <1>1, <2>1
    <3>1. longer[i] = v3[i] /\ i + v3[i].calls <= Len(v3) /\ v3[i].calls \in 0..MaxTools
      BY <2>1, <3>0 DEF ReAct!ResultsFollowCalls, Message
    <3>2. ASSUME NEW k \in 1..v3[i].calls PROVE longer[i + k].role = "tool"
      <4>1. i + k \in DOMAIN v3 /\ v3[i + k].role = "tool"
        BY <1>1, <2>1, <3>1 DEF ReAct!ResultsFollowCalls, LoopConstants
      <4> QED BY <1>1, <4>1
    <3>3. i + longer[i].calls <= Len(longer)
      BY <1>1, <1>2, <2>1, <3>1
    <3> QED BY <3>1, <3>2, <3>3
  <2>2. CASE i = Len(longer)
    BY <1>1, <1>2, <2>2
  <2> QED BY <1>1, <1>2, <2>1, <2>2
<1> QED BY <1>2, <1>3

\* The answer that does not validate and what the model is told about it.
LEMMA TwoMessagesFollow ==
  ASSUME LoopConstants, ReAct!TypeOK, ReAct!ResultsFollowCalls, v1 = "asking"
  PROVE  LET longer == v3 \o <<ReAct!Says("assistant"), ReAct!Says("user")>>
         IN  /\ longer \in Seq(Message)
             /\ \A i \in DOMAIN longer :
                  /\ i + longer[i].calls <= Len(longer)
                  /\ \A k \in 1..longer[i].calls : i + k <= Len(longer) => longer[i + k].role = "tool"
<1> DEFINE a == ReAct!Says("assistant")
           u == ReAct!Says("user")
           longer == v3 \o <<a, u>>
<1>0. a \in Message /\ a.calls = 0 /\ u \in Message /\ u.calls = 0
  BY SaysIsMessage
<1>1. v3 \in Seq(Message)
  BY DEF ReAct!TypeOK, Message
<1> HIDE DEF a, u
<1>2. longer \in Seq(Message) /\ Len(longer) = Len(v3) + 2
      /\ longer[Len(v3) + 1] = a /\ longer[Len(v3) + 2] = u
      /\ \A i \in DOMAIN v3 : longer[i] = v3[i]
  BY <1>0, <1>1
<1>3. ASSUME NEW i \in DOMAIN longer
      PROVE  /\ i + longer[i].calls <= Len(longer)
             /\ \A k \in 1..longer[i].calls : i + k <= Len(longer) => longer[i + k].role = "tool"
  <2>1. CASE i \in DOMAIN v3
    <3>0. longer[i] = v3[i] /\ v3[i] \in Message
      BY <1>1, <1>2, <2>1
    <3>1. longer[i] = v3[i] /\ i + v3[i].calls <= Len(v3) /\ v3[i].calls \in 0..MaxTools
      BY <2>1, <3>0 DEF ReAct!ResultsFollowCalls, Message
    <3>2. ASSUME NEW k \in 1..v3[i].calls PROVE longer[i + k].role = "tool"
      <4>1. i + k \in DOMAIN v3 /\ v3[i + k].role = "tool"
        BY <1>1, <2>1, <3>1 DEF ReAct!ResultsFollowCalls, LoopConstants
      <4> QED BY <1>2, <4>1
    <3>3. i + longer[i].calls <= Len(longer)
      BY <1>1, <1>2, <2>1, <3>1
    <3> QED BY <3>1, <3>2, <3>3
  <2>2. CASE i = Len(v3) + 1
    <3>1. longer[i] = a
      BY <1>2, <2>2
    <3> QED BY <1>0, <1>1, <1>2, <2>2, <3>1
  <2>3. CASE i = Len(v3) + 2
    <3>1. longer[i] = u
      BY <1>2, <2>3
    <3> QED BY <1>0, <1>1, <1>2, <2>3, <3>1
  <2> QED BY <1>1, <1>2, <2>1, <2>2, <2>3
<1> QED BY <1>2, <1>3 DEF a, u

\* An answer that calls tools.
LEMMA CallsFollow ==
  ASSUME LoopConstants, ReAct!TypeOK, ReAct!ResultsFollowCalls, v1 = "asking", NEW n \in 1..MaxTools
  PROVE  LET longer == Append(v3, [role |-> "assistant", calls |-> n])
         IN  /\ longer \in Seq(Message)
             /\ \A i \in DOMAIN longer :
                  /\ i + longer[i].calls <= Len(longer) + n
                  /\ \A k \in 1..longer[i].calls : i + k <= Len(longer) => longer[i + k].role = "tool"
<1> DEFINE m == [role |-> "assistant", calls |-> n]
           longer == Append(v3, m)
<1>0. m \in Message /\ m.calls = n
  BY DEF Message, LoopConstants
<1>1. v3 \in Seq(Message)
  BY DEF ReAct!TypeOK, Message
<1> HIDE DEF m
<1>2. longer \in Seq(Message) /\ Len(longer) = Len(v3) + 1 /\ longer[Len(longer)] = m
  BY <1>0, <1>1
<1>3. ASSUME NEW i \in DOMAIN longer
      PROVE  /\ i + longer[i].calls <= Len(longer) + n
             /\ \A k \in 1..longer[i].calls : i + k <= Len(longer) => longer[i + k].role = "tool"
  <2>1. CASE i \in DOMAIN v3
    <3>0. longer[i] = v3[i] /\ v3[i] \in Message
      BY <1>1, <2>1
    <3>1. longer[i] = v3[i] /\ i + v3[i].calls <= Len(v3) /\ v3[i].calls \in 0..MaxTools
      BY <2>1, <3>0 DEF ReAct!ResultsFollowCalls, Message
    <3>2. ASSUME NEW k \in 1..v3[i].calls PROVE longer[i + k].role = "tool"
      <4>1. i + k \in DOMAIN v3 /\ v3[i + k].role = "tool"
        BY <1>1, <2>1, <3>1 DEF ReAct!ResultsFollowCalls, LoopConstants
      <4> QED BY <1>1, <4>1
    <3> QED BY <1>1, <1>2, <2>1, <3>1, <3>2 DEF LoopConstants
  <2>2. CASE i = Len(longer)
    BY <1>0, <1>1, <1>2, <2>2 DEF LoopConstants
  <2> QED BY <1>1, <1>2, <2>1, <2>2
<1> QED BY <1>2, <1>3 DEF m

\* A result of a tool may follow at any time.
LEMMA ToolResultFollows ==
  ASSUME LoopConstants, ReAct!TypeOK, ReAct!ResultsFollowCalls, v1 = "tools"
  PROVE  LET longer == Append(v3, ReAct!Says("tool"))
         IN  /\ longer \in Seq(Message) /\ Len(longer) = Len(v3) + 1
             /\ \A i \in DOMAIN longer :
                  /\ i + longer[i].calls <= Len(longer) + (v4 - 1)
                  /\ \A k \in 1..longer[i].calls : i + k <= Len(longer) => longer[i + k].role = "tool"
<1> DEFINE m == ReAct!Says("tool")
           longer == Append(v3, m)
<1>0. m \in Message /\ m.role = "tool" /\ m.calls = 0
  BY SaysIsMessage
<1>1. v3 \in Seq(Message) /\ v4 \in 0..MaxTools /\ v4 > 0
  BY DEF ReAct!TypeOK, Message, ReAct!ResultsFollowCalls
<1> HIDE DEF m
<1>2. longer \in Seq(Message) /\ Len(longer) = Len(v3) + 1 /\ longer[Len(longer)] = m
  BY <1>0, <1>1
<1>3. ASSUME NEW i \in DOMAIN longer
      PROVE  /\ i + longer[i].calls <= Len(longer) + (v4 - 1)
             /\ \A k \in 1..longer[i].calls : i + k <= Len(longer) => longer[i + k].role = "tool"
  <2>1. CASE i \in DOMAIN v3
    <3>0. longer[i] = v3[i] /\ v3[i] \in Message
      BY <1>1, <2>1
    <3>1. longer[i] = v3[i] /\ i + v3[i].calls <= Len(v3) + v4 /\ v3[i].calls \in 0..MaxTools
      BY <2>1, <3>0 DEF ReAct!ResultsFollowCalls, Message
    <3>2. ASSUME NEW k \in 1..v3[i].calls, i + k <= Len(longer) PROVE longer[i + k].role = "tool"
      <4>1. CASE i + k <= Len(v3)
        <5>1. i + k \in DOMAIN v3 /\ v3[i + k].role = "tool"
          BY <1>1, <2>1, <3>1, <4>1 DEF ReAct!ResultsFollowCalls, LoopConstants
        <5> QED BY <1>1, <5>1
      <4>2. CASE i + k = Len(longer)
        BY <1>0, <1>2, <4>2
      <4> QED BY <1>1, <1>2, <2>1, <3>1, <3>2, <4>1, <4>2 DEF LoopConstants
    <3>3. i + longer[i].calls <= Len(longer) + (v4 - 1)
      BY <1>1, <1>2, <2>1, <3>1
    <3> QED BY <3>1, <3>2, <3>3
  <2>2. CASE i = Len(longer)
    BY <1>0, <1>1, <1>2, <2>2 DEF LoopConstants
  <2> QED BY <1>1, <1>2, <2>1, <2>2
<1> QED BY <1>2, <1>3 DEF m

\* What a step that begins no further turn, or the next one, leaves behind.
LEMMA NextTurnKeeps ==
  ASSUME LoopConstants, ReAct!TypeOK, NEW readable \in BOOLEAN, ReAct!NextTurn(readable),
         v1 \in {"asking", "tools"}, ReAct!TurnsAddUp, ReAct!Record,
         v8' = v2, v5' \in 0..MaxRetries
  PROVE  /\ v1' \in {"asking", "returned"} /\ v2' \in 1..MaxTurns
         /\ v6' = v2 /\ v7' = v2
         /\ v1' = "asking" => v2' = v2 + 1 /\ v11' = "none" /\ v12' = FALSE /\ v9' = v9
         /\ v1' = "returned" => v9' = v2 /\ v11' = "MAX_ITERATIONS" /\ v12' \in BOOLEAN
<1>1. v2 \in 1..MaxTurns /\ v6 = v2 - 1 /\ v7 = v6 /\ v11 = "none" /\ v12 = FALSE
  BY DEF ReAct!TypeOK, ReAct!TurnsAddUp
<1>2. v6' = v2 /\ v7' = v2
  BY <1>1 DEF ReAct!Record
<1>3. CASE v2 < MaxTurns /\ v2' = v2 + 1 /\ v1' = "asking" /\ UNCHANGED <<v9, v11, v12>>
  <2>1. v2' \in 1..MaxTurns
    BY <1>1, <1>3 DEF LoopConstants
  <2> QED BY <1>1, <1>2, <1>3, <2>1
<1>4. CASE /\ ReAct!Return("MAX_ITERATIONS", v6') /\ UNCHANGED v2
           /\ v12' \in (IF readable THEN BOOLEAN ELSE {FALSE})
  <2>1. v1' = "returned" /\ v11' = "MAX_ITERATIONS" /\ v9' = v2 /\ v2' = v2 /\ v12' \in BOOLEAN
    BY <1>2, <1>4 DEF ReAct!Return
  <2> QED BY <1>1, <1>2, <2>1
<1> QED BY <1>3, <1>4 DEF ReAct!NextTurn

LEMMA LoopInvNext == ASSUME LoopConstants, ReAct!LoopInv, [ReAct!Next]_(ReAct!vars) PROVE ReAct!LoopInv'
<1> USE DEF ReAct!LoopInv
<1>1. /\ v2 \in 1..MaxTurns /\ v4 \in 0..MaxTools /\ v5 \in 0..(MaxRetries + 1)
      /\ v6 \in 0..MaxTurns /\ v7 \in 0..MaxTurns
      /\ v8 \in 0..MaxTurns /\ v9 \in 0..MaxTurns /\ v10 \in 0..MaxTurns
      /\ v3 \in Seq(Message) /\ v11 \in {"none", "TERMINATED", "MAX_ITERATIONS", "ERROR"}
      /\ v12 \in BOOLEAN
  BY DEF ReAct!TypeOK, Message
<1>2. CASE ReAct!FinalAnswer
  <2>1. /\ v1 = "asking" /\ v8' = v8 + 1 /\ v3' = Append(v3, ReAct!Says("assistant"))
        /\ v6' = v6 + 1 /\ v7' = v7 + 1
        /\ v1' = "returned" /\ v11' = "TERMINATED" /\ v9' = v6' /\ v12' = TRUE
        /\ UNCHANGED <<v2, v4, v5, v10>>
    BY <1>2 DEF ReAct!FinalAnswer, ReAct!Answered, ReAct!Record, ReAct!Return
  <2>2. v6 = v2 - 1 /\ v7 = v6 /\ v8 = v2 - 1 /\ v5 <= MaxRetries
    BY <2>1 DEF ReAct!TurnsAddUp
  <2>3. /\ v3' \in Seq(Message) /\ v3'[Len(v3')] = ReAct!Says("assistant")
        /\ \A i \in DOMAIN v3' : \A k \in 1..v3'[i].calls :
             i + k <= Len(v3') => v3'[i + k].role = "tool"
    BY <2>1, SaysIsMessage, PlainMessageFollows
  <2>4. ReAct!TypeOK'
    BY <1>1, <2>1, <2>2, <2>3 DEF ReAct!TypeOK, Message, LoopConstants
  <2>5. ReAct!ResultsFollowCalls' /\ ReAct!TurnsAddUp'
    BY <2>1, <2>3 DEF ReAct!ResultsFollowCalls, ReAct!TurnsAddUp
  <2>6. ReAct!ResultIsWhole'
    BY <1>1, <2>1, <2>2, <2>3 DEF ReAct!ResultIsWhole, LoopConstants, ReAct!Says
  <2> QED BY <2>4, <2>5, <2>6
<1>3. CASE ReAct!InvalidAnswer
  <2>1. /\ v1 = "asking" /\ v8' = v8 + 1 /\ v5' = v5 + 1
        /\ v6' = v6 + 1 /\ v7' = v7 + 1 /\ ReAct!Record
        /\ UNCHANGED <<v4, v10>>
    BY <1>3 DEF ReAct!InvalidAnswer, ReAct!Answered, ReAct!Record
  <2>2. v6 = v2 - 1 /\ v7 = v6 /\ v8 = v2 - 1 /\ v5 <= MaxRetries
        /\ v11 = "none" /\ v12 = FALSE
    BY <1>1, <2>1 DEF ReAct!TurnsAddUp
  <2>3. CASE ReAct!TooMany(v5')
    <3>1. /\ v3' = Append(v3, ReAct!Says("assistant"))
          /\ v1' = "returned" /\ v11' = "ERROR" /\ v9' = v6' /\ UNCHANGED <<v2, v12>>
      BY <1>3, <2>3 DEF ReAct!InvalidAnswer, ReAct!Return
    <3>2. /\ v3' \in Seq(Message)
          /\ \A i \in DOMAIN v3' : \A k \in 1..v3'[i].calls :
               i + k <= Len(v3') => v3'[i + k].role = "tool"
      BY <2>1, <3>1, SaysIsMessage, PlainMessageFollows
    <3>3. ReAct!TypeOK'
      BY <1>1, <2>1, <2>2, <3>1, <3>2 DEF ReAct!TypeOK, Message, LoopConstants
    <3>4. ReAct!ResultsFollowCalls' /\ ReAct!TurnsAddUp'
      BY <3>1, <3>2 DEF ReAct!ResultsFollowCalls, ReAct!TurnsAddUp
    <3>5. ReAct!ResultIsWhole'
      BY <1>1, <2>1, <2>2, <3>1 DEF ReAct!ResultIsWhole, LoopConstants
    <3> QED BY <3>3, <3>4, <3>5
  <2>4. CASE ~ReAct!TooMany(v5')
    <3>1. /\ v3' = v3 \o <<ReAct!Says("assistant"), ReAct!Says("user")>> /\ ReAct!NextTurn(FALSE)
      BY <1>3, <2>4 DEF ReAct!InvalidAnswer
    <3>2. v5' \in 0..MaxRetries
      BY <1>1, <2>1, <2>4 DEF ReAct!TooMany, LoopConstants
    <3>3. /\ v1' \in {"asking", "returned"} /\ v2' \in 1..MaxTurns
          /\ v6' = v2 /\ v7' = v2
          /\ v1' = "asking" => v2' = v2 + 1 /\ v11' = "none" /\ v12' = FALSE /\ v9' = v9
          /\ v1' = "returned" => v9' = v2 /\ v11' = "MAX_ITERATIONS" /\ v12' \in BOOLEAN
      <4>1. v8' = v2
        BY <1>1, <2>1, <2>2
      <4> QED BY <2>1, <3>1, <3>2, <4>1, NextTurnKeeps
    <3>4. /\ v3' \in Seq(Message)
          /\ \A i \in DOMAIN v3' :
               /\ i + v3'[i].calls <= Len(v3')
               /\ \A k \in 1..v3'[i].calls : i + k <= Len(v3') => v3'[i + k].role = "tool"
      BY <2>1, <3>1, TwoMessagesFollow
    <3>0. /\ v8' = v2 /\ v8' \in 0..MaxTurns /\ v5' \in 0..(MaxRetries + 1)
          /\ v6' \in 0..MaxTurns /\ v7' \in 0..MaxTurns /\ v9' \in 0..MaxTurns
          /\ v11' \in {"none", "MAX_ITERATIONS"} /\ v12' \in BOOLEAN
      <4>1. v8' = v2 /\ v8' \in 0..MaxTurns
        BY <1>1, <2>1, <2>2
      <4>2. v5' \in 0..(MaxRetries + 1)
        BY <3>2 DEF LoopConstants
      <4>3. v6' \in 0..MaxTurns /\ v7' \in 0..MaxTurns /\ v9' \in 0..MaxTurns
        BY <1>1, <3>3
      <4> QED BY <3>3, <4>1, <4>2, <4>3
    <3>5. ReAct!TypeOK'
      BY <1>1, <2>1, <3>0, <3>3, <3>4 DEF ReAct!TypeOK, Message
    <3>6. ReAct!ResultsFollowCalls'
      BY <3>3, <3>4 DEF ReAct!ResultsFollowCalls
    <3>7. ReAct!TurnsAddUp'
      <4>1. v1' = "asking" => v2 = v2' - 1 /\ v8' = v2' - 1 /\ v5' <= MaxRetries
        BY <1>1, <3>0, <3>2, <3>3 DEF LoopConstants
      <4> QED BY <3>3, <4>1 DEF ReAct!TurnsAddUp
    <3>8. ReAct!ResultIsWhole'
      BY <1>1, <2>1, <2>2, <3>2, <3>3 DEF ReAct!ResultIsWhole, LoopConstants
    <3> QED BY <3>5, <3>6, <3>7, <3>8
  <2> QED BY <2>3, <2>4
<1>4. CASE ReAct!ToolCalls
  <2>1. /\ v1 = "asking" /\ v8' = v8 + 1 /\ v4' \in 1..MaxTools /\ v1' = "tools"
        /\ v3' = Append(v3, [role |-> "assistant", calls |-> v4'])
        /\ UNCHANGED <<v2, v5, v6, v7, v9, v11, v12, v10>>
    BY <1>4 DEF ReAct!ToolCalls, ReAct!Answered
  <2>2. v6 = v2 - 1 /\ v7 = v6 /\ v8 = v2 - 1 /\ v5 <= MaxRetries
        /\ v11 = "none" /\ v12 = FALSE
    BY <1>1, <2>1 DEF ReAct!TurnsAddUp
  <2>3. /\ v3' \in Seq(Message)
        /\ \A i \in DOMAIN v3' :
             /\ i + v3'[i].calls <= Len(v3') + v4'
             /\ \A k \in 1..v3'[i].calls : i + k <= Len(v3') => v3'[i + k].role = "tool"
    BY <2>1, CallsFollow
  <2>0. v8' = v2 /\ v8' \in 0..MaxTurns /\ v4' \in 0..MaxTools
    BY <1>1, <2>1, <2>2 DEF LoopConstants
  <2>4. ReAct!TypeOK'
    <3>1. v3' \in Seq([role : {"user", "assistant", "tool"}, calls : 0..MaxTools])
      BY <2>3 DEF Message
    <3> QED BY <1>1, <2>0, <2>1, <3>1 DEF ReAct!TypeOK
  <2>5. ReAct!ResultsFollowCalls'
    <3>1. v4' > 0 /\ v1' = "tools"
      BY <2>1
    <3> QED BY <2>3, <3>1 DEF ReAct!ResultsFollowCalls
  <2>6. ReAct!TurnsAddUp' /\ ReAct!ResultIsWhole'
    BY <2>0, <2>1, <2>2 DEF ReAct!TurnsAddUp, ReAct!ResultIsWhole
  <2> QED BY <2>4, <2>5, <2>6
<1>5. CASE ReAct!ProviderRaises \/ ReAct!ToolRaises
  <2>1. /\ v1 \in {"asking", "tools"} /\ UNCHANGED <<v2, v3, v4, v5, v6, v7, v8, v10, v12>>
        /\ \/ v1' = "raised" /\ v9' = 0 /\ v11' = v11
           \/ v1' = "returned" /\ v11' = "ERROR" /\ v9' = v6 /\ (v1 = "tools" => RaiseOnError)
    BY <1>5 DEF ReAct!ProviderRaises, ReAct!ToolRaises, ReAct!Raise, ReAct!Return
  <2>2. ReAct!TypeOK'
    BY <1>1, <2>1 DEF ReAct!TypeOK, Message, LoopConstants
  <2>3. ReAct!ResultsFollowCalls' /\ ReAct!TurnsAddUp'
    BY <2>1 DEF ReAct!ResultsFollowCalls, ReAct!TurnsAddUp
  <2>4. v6 = v2 - 1 /\ v7 = v6 /\ v8 \in {v2, v2 - 1}
        /\ (v1 = "asking" => v8 = v2 - 1) /\ v5 <= MaxRetries
    BY <2>1 DEF ReAct!TurnsAddUp
  <2>5. ReAct!ResultIsWhole'
    BY <1>1, <2>1, <2>4 DEF ReAct!ResultIsWhole, LoopConstants
  <2> QED BY <2>2, <2>3, <2>5
<1>6. CASE ReAct!ToolEnds
  <2>1. /\ v1 = "tools" /\ v3' = Append(v3, ReAct!Says("tool")) /\ v4' = v4 - 1
        /\ UNCHANGED <<v5, v8, v10>>
    BY <1>6 DEF ReAct!ToolEnds, ReAct!OneLess
  <2>2. v4 > 0 /\ v4' \in 0..MaxTools
    BY <1>1, <2>1 DEF ReAct!ResultsFollowCalls, LoopConstants
  <2>0. \/ v4' > 0 /\ UNCHANGED <<v1, v2, v6, v7, v9, v11, v12>>
        \/ v4' = 0 /\ ReAct!Record /\ ReAct!NextTurn(TRUE)
    BY <1>6 DEF ReAct!ToolEnds
  <2>3. /\ v3' \in Seq(Message)
        /\ \A i \in DOMAIN v3' :
             /\ i + v3'[i].calls <= Len(v3') + v4'
             /\ \A k \in 1..v3'[i].calls : i + k <= Len(v3') => v3'[i + k].role = "tool"
    BY <2>1, ToolResultFollows
  <2>4. v6 = v2 - 1 /\ v7 = v6 /\ v8 = v2 /\ v5 \in 0..MaxRetries
        /\ v11 = "none" /\ v12 = FALSE
    BY <1>1, <2>1 DEF ReAct!TurnsAddUp, LoopConstants
  <2>5. CASE v4' > 0
    <3>1. UNCHANGED <<v1, v2, v6, v7, v9, v11, v12>>
      <4>1. v4' # 0
        BY <2>5
      <4> QED BY <2>0, <4>1
    <3>2. ReAct!TypeOK'
      BY <1>1, <2>1, <2>2, <2>3, <3>1 DEF ReAct!TypeOK, Message
    <3>3. ReAct!ResultsFollowCalls' /\ ReAct!TurnsAddUp' /\ ReAct!ResultIsWhole'
      BY <2>1, <2>3, <2>4, <2>5, <3>1 DEF ReAct!ResultsFollowCalls, ReAct!TurnsAddUp,
         ReAct!ResultIsWhole
    <3> QED BY <3>2, <3>3
  <2>6. CASE v4' = 0
    <3>1. ReAct!Record /\ ReAct!NextTurn(TRUE)
      <4>1. ~(v4' > 0)
        BY <2>6
      <4> QED BY <2>0, <4>1
    <3>2. /\ v1' \in {"asking", "returned"} /\ v2' \in 1..MaxTurns
          /\ v6' = v2 /\ v7' = v2
          /\ v1' = "asking" => v2' = v2 + 1 /\ v11' = "none" /\ v12' = FALSE /\ v9' = v9
          /\ v1' = "returned" => v9' = v2 /\ v11' = "MAX_ITERATIONS" /\ v12' \in BOOLEAN
      BY <2>1, <2>4, <3>1, NextTurnKeeps
    <3>3. ReAct!TypeOK'
      BY <1>1, <2>1, <2>2, <2>3, <2>4, <3>2 DEF ReAct!TypeOK, Message, LoopConstants
    <3>4. ReAct!ResultsFollowCalls'
      BY <1>1, <2>3, <2>6, <3>2 DEF ReAct!ResultsFollowCalls, Message
    <3>5. ReAct!TurnsAddUp'
      <4>1. v1' = "asking" => v2 = v2' - 1 /\ v8' = v2' - 1 /\ v5' <= MaxRetries
        BY <1>1, <2>1, <2>4, <3>2 DEF LoopConstants
      <4> QED BY <3>2, <4>1 DEF ReAct!TurnsAddUp
    <3>6. ReAct!ResultIsWhole'
      BY <1>1, <2>1, <2>4, <3>2 DEF ReAct!ResultIsWhole, LoopConstants
    <3> QED BY <3>3, <3>4, <3>5, <3>6
  <2> QED BY <2>2, <2>5, <2>6
<1>7. CASE UNCHANGED ReAct!vars
  BY <1>7 DEF ReAct!vars, ReAct!TypeOK, ReAct!TurnsAddUp, ReAct!ResultsFollowCalls,
     ReAct!ResultIsWhole
<1> QED BY <1>2, <1>3, <1>4, <1>5, <1>6, <1>7 DEF ReAct!Next

LEMMA LoopInvImplies == ASSUME LoopConstants, ReAct!LoopInv PROVE ReAct!EveryCallHasItsResult /\ ReAct!ResultIsWhole
<1>1. v3 \in Seq(Message)
  BY DEF ReAct!LoopInv, ReAct!TypeOK, Message
<1>2. ASSUME NEW i \in DOMAIN v3, NEW k \in 1..v3[i].calls
      PROVE  IF i + k <= Len(v3) THEN v3[i + k].role = "tool" ELSE v1 # "asking"
  <2>1. v3[i].calls \in 0..MaxTools
    <3>1. v3[i] \in Message
      BY <1>1
    <3> QED BY <3>1 DEF Message
  <2>2. CASE i + k <= Len(v3)
    BY <2>2 DEF ReAct!LoopInv, ReAct!ResultsFollowCalls
  <2>3. CASE ~(i + k <= Len(v3))
    <3>1. ~(i + v3[i].calls <= Len(v3))
      BY <1>1, <2>1, <2>3 DEF LoopConstants
    <3> QED BY <2>3, <3>1 DEF ReAct!LoopInv, ReAct!ResultsFollowCalls
  <2> QED BY <2>2, <2>3
<1> QED BY <1>2 DEF ReAct!EveryCallHasItsResult, ReAct!LoopInv

\* ReAct's loop counts every answer of the model in the turn it belongs to, and
\* no message comes between a tool call and its results (react.py): the
\* inductive invariant of the loop.
THEOREM LoopInvHolds == ASSUME LoopConstants PROVE ReAct!Spec => []ReAct!LoopInv
<1>1. ReAct!Init => ReAct!LoopInv
  BY LoopInvInit
<1>2. ReAct!LoopInv /\ [ReAct!Next]_(ReAct!vars) => ReAct!LoopInv'
  BY LoopInvNext
<1> QED BY <1>1, <1>2, PTL DEF ReAct!Spec

-----------------------------------------------------------------------------
(* Refine (RefineLoop):                                                    *)
(* v1 at; v2 history; v3 answered; v4 traced; v5 chosen.                   *)

LEMMA HighestIsBest ==
  ASSUME RefineConstants, NEW h \in Seq(QualityScores), h # <<>>
  PROVE  /\ Refine!Highest(h) \in DOMAIN h
         /\ \A j \in DOMAIN h : h[j] <= h[Refine!Highest(h)] /\ (j < Refine!Highest(h) => h[j] < h[Refine!Highest(h)])
<1>1. Len(h) \in Nat \ {0} /\ DOMAIN h = 1..Len(h) /\ \A k \in 1..Len(h) : h[k] \in Int
  <2>1. DOMAIN h = 1..Len(h) /\ Len(h) \in Nat /\ \A k \in 1..Len(h) : h[k] \in QualityScores
    OBVIOUS
  <2>2. Len(h) # 0
    BY EmptySeq
  <2> QED BY <2>1, <2>2 DEF RefineConstants
<1>2. PICK k : FirstHighest(h, Len(h), k)
  BY <1>1, FirstHighestExists
<1>3. k \in DOMAIN h /\ \A j \in DOMAIN h : h[k] > h[j] \/ (h[k] = h[j] /\ k <= j)
  BY <1>1, <1>2 DEF FirstHighest
<1>4. /\ Refine!Highest(h) \in DOMAIN h
      /\ \A j \in DOMAIN h : h[Refine!Highest(h)] > h[j] \/ (h[Refine!Highest(h)] = h[j] /\ Refine!Highest(h) <= j)
  BY <1>3 DEF Refine!Highest
<1> HIDE DEF Refine!Highest
<1>5. ASSUME NEW j \in DOMAIN h
      PROVE  h[j] <= h[Refine!Highest(h)] /\ (j < Refine!Highest(h) => h[j] < h[Refine!Highest(h)])
  <2>1. h[j] \in Int /\ h[Refine!Highest(h)] \in Int /\ j \in Int /\ Refine!Highest(h) \in Int
    BY <1>1, <1>4
  <2> QED BY <1>4, <2>1
<1> QED BY <1>4, <1>5

LEMMA RefineInvInit == ASSUME RefineConstants, Refine!Init PROVE Refine!RefineInv
BY DEF RefineConstants, Refine!Init, Refine!RefineInv, Refine!TypeOK, Refine!LoopGoesOn

LEMMA JudgeItKeeps ==
  ASSUME RefineConstants, Refine!RefineInv, Refine!JudgeIt
  PROVE  Refine!RefineInv'
<1>1. PICK score \in QualityScores : LET h == Append(v2, score) IN
        /\ v2' = h
        /\ \/ score >= MinScore /\ v1' = "returned" /\ v5' = Len(h)
           \/ score < MinScore /\ Len(h) = MaxIterations /\ v1' = "returned" /\ v5' = Refine!Highest(h)
           \/ score < MinScore /\ Len(h) < MaxIterations /\ v1' = "producing" /\ v5' = v5
  BY DEF Refine!JudgeIt
<1> DEFINE h == Append(v2, score)
<1>2. /\ v1 = "judging" /\ v3' = v3 + 1 /\ v4' = v4 + 2
      /\ v2 \in Seq(QualityScores) /\ Len(v2) \in Nat /\ Len(v2) < MaxIterations
      /\ v4 = 2 * Len(v2) /\ v4 + 1 = v3
      /\ \A k \in 1..Len(v2) : v2[k] < MinScore
      /\ v3 \in Nat /\ v5 \in 0..MaxIterations
  BY DEF Refine!JudgeIt, Refine!RefineInv, Refine!LoopGoesOn, Refine!TypeOK
<1>3. /\ h \in Seq(QualityScores) /\ h # <<>> /\ Len(h) = Len(v2) + 1 /\ DOMAIN h = 1..Len(h)
      /\ Len(h) \in 1..MaxIterations /\ h[Len(h)] = score
      /\ \A k \in 1..Len(v2) : h[k] = v2[k] /\ v2[k] \in Int
      /\ score \in Int
  <2>1. h \in Seq(QualityScores) /\ Len(h) = Len(v2) + 1 /\ h[Len(h)] = score
        /\ \A k \in 1..Len(v2) : h[k] = v2[k] /\ v2[k] \in QualityScores
    BY <1>2
  <2>2. DOMAIN h = 1..Len(h) /\ Len(h) \in 1..MaxIterations
    BY <1>2, <2>1 DEF RefineConstants
  <2>3. h # <<>>
    BY <1>2, <2>1
  <2> HIDE DEF h
  <2> QED BY <2>1, <2>2, <2>3 DEF RefineConstants
<1>4. v4' = 2 * Len(h) /\ v3' = v4' /\ v4' \in 0..(2 * MaxIterations)
  BY <1>2, <1>3 DEF RefineConstants
<1> HIDE DEF h
<1>5. v2' = h /\ DOMAIN v2' = 1..Len(h)
  BY <1>1, <1>3 DEF h
<1>6. CASE score >= MinScore /\ v1' = "returned" /\ v5' = Len(h)
  <2>1. \A k \in 1..Len(h) : h[k] <= score /\ (k < Len(h) => h[k] < score)
    <3>1. ASSUME NEW k \in 1..Len(h) PROVE h[k] <= score /\ (k < Len(h) => h[k] < score)
      <4>1. k = Len(h) \/ k \in 1..Len(v2)
        BY <1>2, <1>3
      <4>2. CASE k = Len(h)
        BY <1>3, <4>2
      <4>3. CASE k \in 1..Len(v2)
        <5>1. h[k] < MinScore /\ h[k] \in Int /\ MinScore \in Int /\ score \in Int
          BY <1>2, <1>3, <4>3 DEF RefineConstants
        <5> QED BY <1>6, <5>1
      <4> QED BY <4>1, <4>2, <4>3
    <3> QED BY <3>1
  <2> QED BY <1>3, <1>4, <1>5, <1>6, <2>1 DEF Refine!RefineInv, Refine!TypeOK, Refine!LoopGoesOn,
             Refine!ReturnsBest, RefineConstants
<1>7. CASE score < MinScore /\ Len(h) = MaxIterations /\ v1' = "returned" /\ v5' = Refine!Highest(h)
  <2>1. /\ Refine!Highest(h) \in 1..Len(h)
        /\ \A j \in 1..Len(h) : h[j] <= h[Refine!Highest(h)] /\ (j < Refine!Highest(h) => h[j] < h[Refine!Highest(h)])
    BY <1>3, HighestIsBest
  <2> QED BY <1>3, <1>4, <1>5, <1>7, <2>1 DEF Refine!RefineInv, Refine!TypeOK, Refine!LoopGoesOn,
             Refine!ReturnsBest, RefineConstants
<1>8. CASE score < MinScore /\ Len(h) < MaxIterations /\ v1' = "producing" /\ v5' = v5
  <2>1. \A k \in 1..Len(h) : h[k] < MinScore
    <3>1. ASSUME NEW k \in 1..Len(h) PROVE h[k] < MinScore
      <4>1. k = Len(h) \/ k \in 1..Len(v2)
        BY <1>2, <1>3
      <4> QED BY <1>2, <1>3, <1>8, <4>1
    <3> QED BY <3>1
  <2> QED BY <1>2, <1>3, <1>4, <1>5, <1>8, <2>1 DEF Refine!RefineInv, Refine!TypeOK,
             Refine!LoopGoesOn, Refine!ReturnsBest, RefineConstants
<1> QED BY <1>1, <1>6, <1>7, <1>8 DEF h

LEMMA RefineInvNext == ASSUME RefineConstants, Refine!RefineInv, [Refine!Next]_(Refine!vars) PROVE Refine!RefineInv'
<1>1. CASE Refine!Produce
  <2>1. /\ v1 = "producing" /\ v1' = "judging" /\ v3' = v3 + 1
        /\ UNCHANGED <<v2, v4, v5>>
    BY <1>1 DEF Refine!Produce
  <2>2. /\ v4 = v3 /\ v4 = 2 * Len(v2) /\ Len(v2) < MaxIterations
        /\ v2 \in Seq(QualityScores) /\ Len(v2) \in Nat
    BY <2>1 DEF Refine!RefineInv, Refine!LoopGoesOn, Refine!TypeOK
  <2>3. v3' \in 0..(2 * MaxIterations)
    BY <2>1, <2>2 DEF RefineConstants
  <2> QED BY <2>1, <2>2, <2>3 DEF Refine!RefineInv, Refine!TypeOK, Refine!LoopGoesOn
<1>2. CASE Refine!JudgeIt
  BY <1>2, JudgeItKeeps
<1>3. CASE Refine!Raises
  BY <1>3 DEF Refine!Raises, Refine!RefineInv, Refine!TypeOK, Refine!LoopGoesOn
<1>4. CASE UNCHANGED Refine!vars
  BY <1>4 DEF Refine!vars, Refine!RefineInv, Refine!TypeOK, Refine!LoopGoesOn, Refine!ReturnsBest
<1> QED BY <1>1, <1>2, <1>3, <1>4 DEF Refine!Next

\* Refine returns the first candidate with the best score of all that were judged,
\* whether it stopped early or used up its iterations, and has pushed the traces
\* of every call it made (refine.py, loop_runner.py).
THEOREM ReturnsBestHolds == ASSUME RefineConstants PROVE Refine!Spec => []Refine!ReturnsBest
<1>1. Refine!Init => Refine!RefineInv
  BY RefineInvInit
<1>2. Refine!RefineInv /\ [Refine!Next]_(Refine!vars) => Refine!RefineInv'
  BY RefineInvNext
<1>3. Refine!RefineInv => Refine!ReturnsBest
  BY DEF Refine!RefineInv, Refine!ReturnsBest
<1> QED BY <1>1, <1>2, <1>3, PTL DEF Refine!Spec

-----------------------------------------------------------------------------
(* Samples and survivors (Sampling):                                       *)
(* v1 kind; v2 stage; v3 sample; v4 score; v5 selected.                    *)

(* The k-th of a finite set of numbers                                     *)

\* The members of S up to i: their number is the rank of i.
UpTo(S, i) == {j \in S : j <= i}

LEMMA UpToFinite ==
  ASSUME NEW n \in Nat, NEW S, S \subseteq 1..n, NEW i
  PROVE  /\ IsFiniteSet(UpTo(S, i)) /\ Cardinality(UpTo(S, i)) \in Nat
         /\ IsFiniteSet(S) /\ Cardinality(S) \in Nat
         /\ Cardinality(UpTo(S, i)) <= Cardinality(S)
         /\ UpTo(S, n) = S /\ UpTo(S, 0) = {}
<1>1. IsFiniteSet(1..n)
  BY FS_Interval
<1>2. IsFiniteSet(S) /\ Cardinality(S) \in Nat
  BY <1>1, FS_Subset, FS_CardinalityType
<1>3. UpTo(S, i) \subseteq S /\ UpTo(S, n) = S /\ UpTo(S, 0) = {}
  <2>1. \A j \in S : j \in Int /\ 1 <= j /\ j <= n /\ ~(j <= 0)
    OBVIOUS
  <2> QED BY <2>1 DEF UpTo
<1> QED BY <1>2, <1>3, FS_Subset, FS_CardinalityType

LEMMA RankIsUnique ==
  ASSUME NEW n \in Nat, NEW S, S \subseteq 1..n, NEW i \in S, NEW l \in S,
         Cardinality(UpTo(S, i)) = Cardinality(UpTo(S, l))
  PROVE  i = l
<1>1. i \in Int /\ l \in Int
  OBVIOUS
<1>2. ASSUME NEW a \in S, NEW b \in S, a < b PROVE Cardinality(UpTo(S, a)) # Cardinality(UpTo(S, b))
  <2>1. a \in Int /\ b \in Int /\ \A j \in S : j \in Int
    OBVIOUS
  <2>2. UpTo(S, a) \subseteq UpTo(S, b)
    <3>1. \A j \in S : j <= a => j <= b
      BY <1>2, <2>1
    <3> QED BY <3>1 DEF UpTo
  <2>3. b \in UpTo(S, b) /\ b \notin UpTo(S, a)
    BY <1>2, <2>1 DEF UpTo
  <2> QED BY <2>2, <2>3, UpToFinite, FS_Subset
<1>3. ~(i < l) /\ ~(l < i)
  BY <1>2
<1> QED BY <1>1, <1>3

LEMMA EveryRankIsTaken ==
  ASSUME NEW n \in Nat, NEW S, S \subseteq 1..n, NEW k \in 1..Cardinality(S)
  PROVE  \E i \in S : Cardinality(UpTo(S, i)) = k
<1> DEFINE C(i) == Cardinality(UpTo(S, i))
           Enough == {i \in 0..n : C(i) >= k}
<1>1. \A i : C(i) \in Nat
  BY UpToFinite
<1>2. C(n) = Cardinality(S) /\ C(0) = 0 /\ Cardinality(S) \in Nat
  BY UpToFinite, FS_EmptySet
<1>3. n \in Enough
  BY <1>2
<1>4. PICK i \in Enough : \A j \in Enough : i <= j
  <2>1. Enough \subseteq Nat
    OBVIOUS
  <2> QED BY <1>3, <2>1, LeastOf
<1>5. i \in 1..n /\ C(i) >= k
  BY <1>2, <1>4
<1>6. C(i - 1) < k
  <2>1. i - 1 \in 0..n /\ i - 1 \notin Enough
    BY <1>4, <1>5
  <2> QED BY <1>1, <2>1
<1> DEFINE below == UpTo(S, i - 1)
<1>7. CASE i \in S
  <2>1. UpTo(S, i) = below \union {i} /\ i \notin below
    <3>1. \A j \in S : j \in Int /\ (j <= i <=> (j <= i - 1 \/ j = i))
      BY <1>5
    <3>2. ~(i <= i - 1)
      BY <1>5
    <3> QED BY <1>7, <3>1, <3>2 DEF UpTo
  <2>2. IsFiniteSet(below)
    BY UpToFinite
  <2>3. C(i) = C(i - 1) + 1
    BY <2>1, <2>2, FS_AddElement
  <2>4. C(i) = k
    BY <1>1, <1>5, <1>6, <2>3
  <2> QED BY <1>7, <2>4
<1>8. CASE i \notin S
  <2>1. UpTo(S, i) = below
    <3>1. \A j \in S : j \in Int /\ (j <= i <=> (j <= i - 1 \/ j = i))
      BY <1>5
    <3> QED BY <1>8, <3>1 DEF UpTo
  <2> QED BY <1>1, <1>5, <1>6, <2>1
<1> QED BY <1>7, <1>8

-----------------------------------------------------------------------------
(* Survivors and their places                                              *)

LEMMA SurvivorsFinite ==
  ASSUME SamplesConstants
  PROVE  /\ Samples!Survivors \subseteq 1..N /\ IsFiniteSet(Samples!Survivors) /\ Cardinality(Samples!Survivors) \in Nat
         /\ Cardinality(Samples!Survivors) <= N
         /\ Samples!Survivors # {} => Cardinality(Samples!Survivors) \in Nat \ {0}
         /\ \A v : Samples!Votes(v) \in Nat
<1>1. Samples!Survivors \subseteq 1..N
  BY DEF Samples!Survivors, Samples!Samples
<1>2. IsFiniteSet(1..N) /\ Cardinality(1..N) = N
  BY FS_Interval DEF SamplesConstants
<1>3. IsFiniteSet(Samples!Survivors) /\ Cardinality(Samples!Survivors) <= N
  BY <1>1, <1>2, FS_Subset
<1>4. ASSUME NEW v PROVE Samples!Votes(v) \in Nat
  BY <1>3, FS_Subset, FS_CardinalityType, SamplesCounts DEF Samples!Votes
<1> QED BY <1>1, <1>3, <1>4, FS_CardinalityType, FS_EmptySet

LEMMA SurvivorAt ==
  ASSUME SamplesConstants, NEW k \in Samples!Places
  PROVE  Samples!Survivor(k) \in Samples!Survivors /\ Samples!Rank(Samples!Survivor(k)) = k
<1>1. \E i \in Samples!Survivors : Cardinality(UpTo(Samples!Survivors, i)) = k
  BY SurvivorsFinite, EveryRankIsTaken, SamplesCounts DEF SamplesConstants, Samples!Places
<1>2. \E i \in Samples!Survivors : Samples!Rank(i) = k
  BY <1>1, SamplesCounts DEF Samples!Rank, UpTo
<1> QED BY <1>2 DEF Samples!Survivor

LEMMA PlaceOf ==
  ASSUME SamplesConstants, NEW i \in Samples!Survivors
  PROVE  Samples!Rank(i) \in Samples!Places /\ Samples!Survivor(Samples!Rank(i)) = i
<1>1. \A j : Samples!Rank(j) = Cardinality(UpTo(Samples!Survivors, j))
  BY SamplesCounts DEF Samples!Rank, UpTo
<1>2. Samples!Rank(i) \in Samples!Places
  <2>1. i \in UpTo(Samples!Survivors, i) /\ IsFiniteSet(UpTo(Samples!Survivors, i))
    <3>1. i \in Int /\ Samples!Survivors \subseteq 1..N /\ N \in Nat
      BY SurvivorsFinite DEF SamplesConstants
    <3>2. i <= i
      BY <3>1
    <3>3. IsFiniteSet(UpTo(Samples!Survivors, i))
      BY <3>1, UpToFinite
    <3> QED BY <3>2, <3>3 DEF UpTo
  <2>2. Cardinality(UpTo(Samples!Survivors, i)) # 0
    BY <2>1, FS_EmptySet
  <2>3. /\ Cardinality(UpTo(Samples!Survivors, i)) \in Nat /\ Cardinality(Samples!Survivors) \in Nat
        /\ Cardinality(UpTo(Samples!Survivors, i)) <= Cardinality(Samples!Survivors)
    BY SurvivorsFinite, UpToFinite DEF SamplesConstants
  <2> QED BY <1>1, <2>2, <2>3, SamplesCounts DEF Samples!Places
<1>3. Samples!Survivor(Samples!Rank(i)) \in Samples!Survivors /\ Samples!Rank(Samples!Survivor(Samples!Rank(i))) = Samples!Rank(i)
  BY <1>2, SurvivorAt
<1>4. /\ Samples!Survivor(Samples!Rank(i)) \in Samples!Survivors
      /\ Cardinality(UpTo(Samples!Survivors, Samples!Survivor(Samples!Rank(i)))) = Cardinality(UpTo(Samples!Survivors, i))
  BY <1>1, <1>3
<1> HIDE DEF Samples!Rank, Samples!Survivor
<1> QED BY <1>2, <1>4, RankIsUnique, SurvivorsFinite DEF SamplesConstants

LEMMA FirstWinnerWins ==
  ASSUME SamplesConstants, Samples!Survivors # {}
  PROVE  /\ Samples!FirstWinner \in Samples!Places
         /\ \A k \in Samples!Places :
              /\ Samples!Votes(v3[Samples!Survivor(k)]) <= Samples!Votes(v3[Samples!Survivor(Samples!FirstWinner)])
              /\ k < Samples!FirstWinner => Samples!Votes(v3[Samples!Survivor(k)]) < Samples!Votes(v3[Samples!Survivor(Samples!FirstWinner)])
<1> DEFINE f == [k \in Samples!Places |-> Samples!Votes(v3[Samples!Survivor(k)])]
           n == Cardinality(Samples!Survivors)
<1>1. Samples!Places = 1..n /\ n \in Nat \ {0} /\ \A k \in 1..n : f[k] \in Int
  BY SurvivorsFinite, SamplesCounts DEF Samples!Places
<1>2. PICK k : FirstHighest(f, n, k)
  BY <1>1, FirstHighestExists
<1>3. k \in Samples!Places /\ \A j \in Samples!Places : f[k] > f[j] \/ (f[k] = f[j] /\ k <= j)
  BY <1>1, <1>2 DEF FirstHighest
<1>4. Samples!FirstWinner \in Samples!Places /\ \A j \in Samples!Places :
        \/ Samples!Votes(v3[Samples!Survivor(Samples!FirstWinner)]) > Samples!Votes(v3[Samples!Survivor(j)])
        \/ Samples!Votes(v3[Samples!Survivor(Samples!FirstWinner)]) = Samples!Votes(v3[Samples!Survivor(j)]) /\ Samples!FirstWinner <= j
  BY <1>3 DEF Samples!FirstWinner
<1> HIDE DEF Samples!FirstWinner
<1>5. \A q \in Samples!Places : q \in Int
  BY <1>1
<1> QED BY <1>4, <1>5, SurvivorsFinite

LEMMA BestIsHighest ==
  ASSUME NEW m \in Nat \ {0}, DOMAIN v4 = 1..m, \A k \in 1..m : v4[k] \in Int
  PROVE  Samples!Best \in 1..m /\ \A k \in 1..m : v4[k] <= v4[Samples!Best] /\ (k < Samples!Best => v4[k] < v4[Samples!Best])
<1>1. PICK k : FirstHighest(v4, m, k)
  BY FirstHighestExists
<1>2. k \in DOMAIN v4 /\ \A j \in DOMAIN v4 : v4[k] > v4[j] \/ (v4[k] = v4[j] /\ k <= j)
  BY <1>1 DEF FirstHighest
<1>3. Samples!Best \in 1..m /\ \A j \in 1..m : v4[Samples!Best] > v4[j] \/ (v4[Samples!Best] = v4[j] /\ Samples!Best <= j)
  BY <1>2 DEF Samples!Best
<1> HIDE DEF Samples!Best
<1> QED BY <1>3

-----------------------------------------------------------------------------
(* The invariant                                                           *)

LEMMA SamplesInvInit == ASSUME SamplesConstants, Samples!Init PROVE Samples!SamplesInv
<1>1. Samples!TypeOK
  BY DEF Samples!Init, Samples!TypeOK, SamplesConstants
<1> QED BY <1>1 DEF Samples!Init, Samples!SamplesInv, Samples!SurvivorsAreScored,
           Samples!SelectionIsFirst

LEMMA SampleEndsKeeps ==
  ASSUME SamplesConstants, Samples!SamplesInv, NEW i \in Samples!Samples, Samples!SampleEnds(i)
  PROVE  Samples!SamplesInv'
<1>1. PICK a \in Answers \union {Failed, Cancelled} : v3' = [v3 EXCEPT ![i] = a]
  BY DEF Samples!SampleEnds
<1>2. v2 = "sampling" /\ v2' \in {"sampling", "raised"} /\ UNCHANGED <<v1, v4, v5>>
  BY DEF Samples!SampleEnds
<1>3. Samples!TypeOK'
  BY <1>1, <1>2 DEF Samples!SamplesInv, Samples!TypeOK
<1> QED BY <1>2, <1>3 DEF Samples!SamplesInv, Samples!SurvivorsAreScored, Samples!SelectionIsFirst

\* What the samples say stays, and so do the survivors, their places and votes.
LEMMA SurvivorsStay ==
  ASSUME UNCHANGED <<v1, v3>>
  PROVE  /\ Samples!Survivors' = Samples!Survivors /\ Samples!Places' = Samples!Places
         /\ \A k : Samples!Survivor(k)' = Samples!Survivor(k)
         /\ \A v : Samples!Votes(v)' = Samples!Votes(v)
         /\ \A k : Samples!Votes(v3[Samples!Survivor(k)])' = Samples!Votes(v3[Samples!Survivor(k)])
         /\ Samples!Votes(v3[Samples!Survivor(v5)])' = Samples!Votes(v3[Samples!Survivor(v5')])
BY SamplesCounts DEF Samples!Survivors, Samples!Places, Samples!Survivor, Samples!Rank,
   Samples!Votes

LEMMA GatheredKeeps ==
  ASSUME SamplesConstants, Samples!SamplesInv, Samples!Gathered
  PROVE  Samples!SamplesInv'
<1>1. v2 = "sampling" /\ (\A i \in Samples!Samples : v3[i] # Pending) /\ UNCHANGED <<v1, v3>>
  BY DEF Samples!Gathered
<1>2. Samples!Survivors' = Samples!Survivors /\ Samples!Places' = Samples!Places
  BY <1>1, SurvivorsStay
<1>3. \A k : Samples!Votes(v3[Samples!Survivor(k)])' = Samples!Votes(v3[Samples!Survivor(k)])
  BY <1>1, SurvivorsStay
<1>0. Samples!Votes(v3[Samples!Survivor(v5)])' = Samples!Votes(v3[Samples!Survivor(v5')])
  BY <1>1, SurvivorsStay
<1>4. v1 \in Samples!Kinds /\ v3 \in [Samples!Samples -> Answers \union {Failed, Cancelled, Pending}] /\ v5 \in 0..N
      /\ v4 \in Seq(Scores \union {NoScore, Pending}) /\ Len(v4) <= N
  BY DEF Samples!SamplesInv, Samples!TypeOK
<1>5. CASE Samples!Survivors = {} /\ v2' = "raised" /\ UNCHANGED <<v4, v5>>
  BY <1>1, <1>2, <1>4, <1>5 DEF Samples!SamplesInv, Samples!TypeOK, Samples!SurvivorsAreScored,
     Samples!SelectionIsFirst
<1>6. CASE Samples!Survivors # {} /\ v1 = "best of n" /\ v2' = "scoring" /\ v4' = [k \in Samples!Places |-> Pending] /\ UNCHANGED v5
  <2>1. v4' \in Seq(Scores \union {NoScore, Pending}) /\ Len(v4') <= N /\ DOMAIN v4' = Samples!Places
    <3>1. Cardinality(Samples!Survivors) \in Nat /\ Cardinality(Samples!Survivors) <= N
      BY SurvivorsFinite
    <3> DEFINE c == Cardinality(Samples!Survivors)
               S == Scores \union {NoScore, Pending}
    <3>3. v4' = [k \in 1..c |-> Pending] /\ Pending \in S
      BY <1>6, SamplesCounts DEF Samples!Places
    <3> HIDE DEF c, S
    <3>4. v4' \in Seq(S) /\ Len(v4') = c
      <4>1. c \in Nat
        BY <3>1 DEF c
      <4>2. v4' \in [1..c -> S]
        BY <3>3
      <4> QED BY <3>3, <4>1, <4>2
    <3>2. v4' \in Seq(Scores \union {NoScore, Pending}) /\ Len(v4') = Cardinality(Samples!Survivors)
      BY <3>4 DEF c, S
    <3> QED BY <1>6, <3>1, <3>2
  <2> QED BY <1>1, <1>2, <1>4, <1>6, <2>1 DEF Samples!SamplesInv, Samples!TypeOK,
             Samples!SurvivorsAreScored, Samples!SelectionIsFirst
<1>7. CASE Samples!Survivors # {} /\ v1 = "ensemble" /\ v2' = "returned" /\ v5' = Samples!FirstWinner /\ UNCHANGED v4
  <2>1. /\ Samples!FirstWinner \in Samples!Places
        /\ \A k \in Samples!Places :
             /\ Samples!Votes(v3[Samples!Survivor(k)]) <= Samples!Votes(v3[Samples!Survivor(Samples!FirstWinner)])
             /\ k < Samples!FirstWinner => Samples!Votes(v3[Samples!Survivor(k)]) < Samples!Votes(v3[Samples!Survivor(Samples!FirstWinner)])
    BY <1>7, FirstWinnerWins
  <2> HIDE DEF Samples!FirstWinner
  <2>2. v5' \in 0..N
    BY <1>7, <2>1, SurvivorsFinite, SamplesCounts DEF Samples!Places, SamplesConstants
  <2>3. Samples!TypeOK'
    BY <1>1, <1>4, <1>7, <2>2 DEF Samples!TypeOK
  <2>4. Samples!SurvivorsAreScored'
    BY <1>1, <1>2, <1>7 DEF Samples!SurvivorsAreScored
  <2>5. Samples!SelectionIsFirst'
    BY <1>0, <1>1, <1>2, <1>3, <1>7, <2>1 DEF Samples!SelectionIsFirst
  <2> QED BY <2>3, <2>4, <2>5 DEF Samples!SamplesInv
<1>8. CASE Samples!Survivors # {} /\ v1 = "first" /\ v2' = "returned" /\ v5' = 1 /\ UNCHANGED v4
  <2>1. 1 \in Samples!Places /\ 1 \in 0..N
    BY <1>8, SurvivorsFinite, SamplesCounts DEF Samples!Places, SamplesConstants
  <2> QED BY <1>1, <1>2, <1>4, <1>8, <2>1 DEF Samples!SamplesInv, Samples!TypeOK,
             Samples!SurvivorsAreScored, Samples!SelectionIsFirst
<1>9. CASE Samples!Survivors # {} /\ v1 = "chains" /\ v2' = "synthesis" /\ UNCHANGED <<v4, v5>>
  BY <1>1, <1>2, <1>4, <1>9 DEF Samples!SamplesInv, Samples!TypeOK, Samples!SurvivorsAreScored,
     Samples!SelectionIsFirst
<1> QED BY <1>5, <1>6, <1>7, <1>8, <1>9 DEF Samples!Gathered

LEMMA ScoringEndsKeeps ==
  ASSUME SamplesConstants, Samples!SamplesInv, NEW k \in DOMAIN v4, Samples!ScoringEnds(k)
  PROVE  Samples!SamplesInv'
<1>1. PICK s \in Scores \union {NoScore} : v4' = [v4 EXCEPT ![k] = s]
  BY DEF Samples!ScoringEnds
<1>2. v2 = "scoring" /\ UNCHANGED <<v1, v2, v3, v5>> /\ Samples!Survivors' = Samples!Survivors /\ Samples!Places' = Samples!Places
  BY SurvivorsStay DEF Samples!ScoringEnds
<1>3. v4' \in Seq(Scores \union {NoScore, Pending}) /\ Len(v4') = Len(v4) /\ DOMAIN v4' = DOMAIN v4
  BY <1>1 DEF Samples!SamplesInv, Samples!TypeOK
<1>4. Samples!TypeOK'
  BY <1>2, <1>3 DEF Samples!SamplesInv, Samples!TypeOK
<1> QED BY <1>2, <1>3, <1>4 DEF Samples!SamplesInv, Samples!SurvivorsAreScored,
           Samples!SelectionIsFirst

LEMMA SelectKeeps ==
  ASSUME SamplesConstants, Samples!SamplesInv, Samples!Select
  PROVE  Samples!SamplesInv'
<1>1. /\ v2 = "scoring" /\ (\A k \in DOMAIN v4 : v4[k] # Pending) /\ v5' = Samples!Best /\ v2' = "returned"
      /\ UNCHANGED <<v1, v3, v4>> /\ Samples!Survivors' = Samples!Survivors /\ Samples!Places' = Samples!Places
  BY SurvivorsStay DEF Samples!Select
<1>2. v1 = "best of n" /\ DOMAIN v4 = Samples!Places /\ Samples!Survivors # {} /\ v4 \in Seq(Scores \union {NoScore, Pending})
  BY <1>1 DEF Samples!SamplesInv, Samples!SurvivorsAreScored, Samples!TypeOK
<1> DEFINE m == Cardinality(Samples!Survivors)
<1>3. m \in Nat \ {0} /\ m <= N /\ DOMAIN v4 = 1..m
  BY <1>2, SurvivorsFinite, SamplesCounts DEF Samples!Places
<1>4. ASSUME NEW k \in 1..m PROVE v4[k] \in Int
  <2>0. k \in DOMAIN v4
    BY <1>3
  <2> DEFINE S == Scores \union {NoScore, Pending}
  <2>2. v4 \in Seq(S)
    BY <1>2
  <2> HIDE DEF m, S
  <2>3. v4[k] \in S
    BY <2>0, <2>2, LenProperties
  <2>1. v4[k] \in Scores \union {NoScore, Pending} /\ v4[k] # Pending
    BY <1>1, <2>0, <2>3 DEF S
  <2> QED BY <2>1 DEF SamplesConstants
<1>5. Samples!Best \in 1..m /\ \A k \in 1..m : v4[k] <= v4[Samples!Best] /\ (k < Samples!Best => v4[k] < v4[Samples!Best])
  BY <1>3, <1>4, BestIsHighest
<1> HIDE DEF Samples!Best, m
<1>6. Samples!TypeOK'
  <2>1. v5' \in 0..N
    BY <1>1, <1>3, <1>5 DEF SamplesConstants
  <2> QED BY <1>1, <2>1 DEF Samples!SamplesInv, Samples!TypeOK
<1>7. Samples!SurvivorsAreScored'
  BY <1>1, <1>2 DEF Samples!SamplesInv, Samples!SurvivorsAreScored
<1>8. Samples!SelectionIsFirst'
  BY <1>1, <1>2, <1>3, <1>5, SamplesCounts DEF Samples!SelectionIsFirst, m, Samples!Places
<1> QED BY <1>6, <1>7, <1>8 DEF Samples!SamplesInv

LEMMA SamplesInvNext == ASSUME SamplesConstants, Samples!SamplesInv, [Samples!Next]_(Samples!vars) PROVE Samples!SamplesInv'
<1>1. CASE Samples!Synthesize
  <2>1. v2 = "synthesis" /\ v2' \in {"returned", "raised"} /\ UNCHANGED <<v1, v3, v4, v5>>
        /\ Samples!Survivors' = Samples!Survivors /\ Samples!Places' = Samples!Places
    BY <1>1, SurvivorsStay DEF Samples!Synthesize
  <2> QED BY <2>1 DEF Samples!SamplesInv, Samples!TypeOK, Samples!SurvivorsAreScored,
             Samples!SelectionIsFirst
<1>2. CASE UNCHANGED Samples!vars
  <2>1. UNCHANGED <<v1, v2, v3, v4, v5>>
    BY <1>2 DEF Samples!vars
  <2>2. /\ Samples!Survivors' = Samples!Survivors /\ Samples!Places' = Samples!Places
        /\ \A k : Samples!Votes(v3[Samples!Survivor(k)])' = Samples!Votes(v3[Samples!Survivor(k)])
        /\ Samples!Votes(v3[Samples!Survivor(v5)])' = Samples!Votes(v3[Samples!Survivor(v5')])
    BY <2>1, SurvivorsStay
  <2>3. Samples!TypeOK' /\ Samples!SurvivorsAreScored'
    BY <2>1, <2>2 DEF Samples!SamplesInv, Samples!TypeOK, Samples!SurvivorsAreScored
  <2>4. Samples!SelectionIsFirst'
    BY <2>1, <2>2 DEF Samples!SamplesInv, Samples!SelectionIsFirst
  <2> QED BY <2>3, <2>4 DEF Samples!SamplesInv
<1> QED BY <1>1, <1>2, SampleEndsKeeps, GatheredKeeps, ScoringEndsKeeps, SelectKeeps
           DEF Samples!Next

LEMMA SamplesInvImplies == ASSUME SamplesConstants, Samples!SamplesInv PROVE Samples!SelectedIsBest
<1> SUFFICES ASSUME v2 = "returned", v1 # "chains" PROVE
      /\ Samples!Output \in Answers \/ (Samples!Output = Cancelled /\ v1 \in {"ensemble", "first"})
      /\ \E i \in Samples!Samples :
           /\ v3[i] = Samples!Output
           /\ v1 = "best of n" =>
                \E k \in DOMAIN v4 :
                  /\ Cardinality({j \in 1..i : v3[j] \notin {Failed, Cancelled}}) = k
                  /\ \A j \in DOMAIN v4 : v4[j] <= v4[k] /\ (j < k => v4[j] < v4[k])
           /\ v1 = "ensemble" =>
                /\ \A a \in Answers \union {Cancelled} : Samples!VotesFor(a) <= Samples!VotesFor(Samples!Output)
                /\ \A j \in Samples!Samples : j < i /\ v3[j] # Failed => Samples!VotesFor(v3[j]) < Samples!VotesFor(Samples!Output)
           /\ v1 = "first" => \A j \in Samples!Samples : j < i => v3[j] = Failed
  BY SamplesCounts DEF Samples!SelectedIsBest
<1> DEFINE i == Samples!Survivor(v5)
<1>1. /\ v5 \in Samples!Places
      /\ v1 = "best of n" => \A k \in Samples!Places :
           v4[k] <= v4[v5] /\ (k < v5 => v4[k] < v4[v5])
      /\ v1 = "ensemble" => \A k \in Samples!Places :
           /\ Samples!Votes(v3[Samples!Survivor(k)]) <= Samples!Votes(v3[i])
           /\ k < v5 => Samples!Votes(v3[Samples!Survivor(k)]) < Samples!Votes(v3[i])
      /\ v1 = "first" => v5 = 1
      /\ v1 = "best of n" => DOMAIN v4 = Samples!Places
      /\ \A j \in Samples!Samples : v3[j] # Pending
      /\ v3 \in [Samples!Samples -> Answers \union {Failed, Cancelled, Pending}]
  BY DEF Samples!SamplesInv, Samples!SelectionIsFirst, Samples!SurvivorsAreScored, Samples!TypeOK
<1>2. i \in Samples!Survivors /\ Samples!Rank(i) = v5
  BY <1>1, SurvivorAt
<1> HIDE DEF i
<1>3. Samples!Output = v3[i]
  BY DEF Samples!Output, i
<1>4. /\ i \in Samples!Samples /\ i \in Int /\ v3[i] # Failed
      /\ v3[i] \in Answers \/ (v3[i] = Cancelled /\ v1 \in {"ensemble", "first"})
  <2>1. i \in Samples!Samples /\ v3[i] # Failed /\ (v3[i] = Cancelled => v1 \in {"ensemble", "first"})
    BY <1>2 DEF Samples!Survivors
  <2>2. v3[i] \in Answers \union {Failed, Cancelled, Pending} /\ v3[i] # Pending
    BY <1>1, <2>1
  <2>3. i \in Int
    BY <2>1 DEF Samples!Samples
  <2> QED BY <2>1, <2>2, <2>3
<1>5. ASSUME v1 = "best of n"
      PROVE  \E k \in DOMAIN v4 :
               /\ Cardinality({j \in 1..i : v3[j] \notin {Failed, Cancelled}}) = k
               /\ \A j \in DOMAIN v4 : v4[j] <= v4[k] /\ (j < k => v4[j] < v4[k])
  <2>1. {j \in 1..i : v3[j] \notin {Failed, Cancelled}} = {j \in Samples!Survivors : j <= i}
    <3>1. Samples!Survivors = {j \in 1..N : v3[j] \notin {Failed, Cancelled}}
      BY <1>5 DEF Samples!Survivors, Samples!Samples
    <3>2. N \in Nat /\ i \in 1..N
      BY <1>4 DEF Samples!Samples, SamplesConstants
    <3> QED BY <3>1, <3>2
  <2>2. Cardinality({j \in 1..i : v3[j] \notin {Failed, Cancelled}}) = v5
    BY <1>2, <2>1, SamplesCounts DEF Samples!Rank
  <2> QED BY <1>1, <1>5, <2>2
<1>6. ASSUME NEW j \in Samples!Survivors, j < i
      PROVE  Samples!Rank(j) \in Samples!Places /\ Samples!Survivor(Samples!Rank(j)) = j /\ Samples!Rank(j) < v5
  <2>1. Samples!Rank(j) \in Samples!Places /\ Samples!Survivor(Samples!Rank(j)) = j /\ j \in Int
    BY PlaceOf DEF Samples!Survivors, Samples!Samples
  <2>2. /\ Samples!Rank(j) = Cardinality(UpTo(Samples!Survivors, j)) /\ v5 = Cardinality(UpTo(Samples!Survivors, i))
        /\ UpTo(Samples!Survivors, j) \subseteq UpTo(Samples!Survivors, i)
    <3>1. \A l \in Samples!Survivors : l \in Int /\ (l <= j => l <= i)
      BY <1>4, <1>6, <2>1 DEF Samples!Survivors, Samples!Samples
    <3> QED BY <1>2, <3>1, SamplesCounts DEF Samples!Rank, UpTo
  <2>3. Samples!Rank(j) <= v5 /\ Samples!Rank(j) \in Nat /\ v5 \in Nat
    BY <2>2, UpToFinite, FS_Subset, SurvivorsFinite DEF SamplesConstants
  <2>4. Samples!Rank(j) # v5
    <3>1. j # i
      BY <1>4, <1>6, <2>1
    <3> QED BY <1>2, <2>2, <3>1, RankIsUnique, SurvivorsFinite DEF SamplesConstants
  <2> QED BY <2>1, <2>3, <2>4
<1>7. ASSUME v1 = "ensemble"
      PROVE  /\ \A a \in Answers \union {Cancelled} : Samples!VotesFor(a) <= Samples!VotesFor(Samples!Output)
             /\ \A j \in Samples!Samples : j < i /\ v3[j] # Failed => Samples!VotesFor(v3[j]) < Samples!VotesFor(Samples!Output)
  <2>1. Samples!Survivors = {l \in Samples!Samples : v3[l] # Failed}
    BY <1>7 DEF Samples!Survivors
  <2>2. \A v : v # Failed => {l \in Samples!Samples : v3[l] = v} = {l \in Samples!Survivors : v3[l] = v}
    BY <2>1
  <2>3. \A v : v # Failed => Samples!VotesFor(v) = Samples!Votes(v)
    BY <2>2, SamplesCounts DEF Samples!VotesFor, Samples!Votes
  <2>4. ASSUME NEW a \in Answers \union {Cancelled} PROVE Samples!Votes(a) <= Samples!Votes(v3[i])
    <3>1. CASE \E l \in Samples!Survivors : v3[l] = a
      <4>1. PICK l \in Samples!Survivors : v3[l] = a
        BY <3>1
      <4>2. Samples!Rank(l) \in Samples!Places /\ Samples!Survivor(Samples!Rank(l)) = l
        BY PlaceOf
      <4> QED BY <1>1, <1>7, <4>1, <4>2
    <3>2. CASE ~ \E l \in Samples!Survivors : v3[l] = a
      <4>1. {l \in Samples!Survivors : v3[l] = a} = {}
        BY <3>2
      <4>2. Samples!Votes(a) = 0
        BY <4>1, FS_EmptySet, SamplesCounts DEF Samples!Votes
      <4> QED BY <4>2, SurvivorsFinite
    <3> QED BY <3>1, <3>2
  <2>5. ASSUME NEW j \in Samples!Samples, j < i, v3[j] # Failed
        PROVE  Samples!Votes(v3[j]) < Samples!Votes(v3[i])
    <3>1. j \in Samples!Survivors
      BY <2>1, <2>5
    <3>2. Samples!Rank(j) \in Samples!Places /\ Samples!Survivor(Samples!Rank(j)) = j /\ Samples!Rank(j) < v5
      BY <1>6, <2>5, <3>1
    <3> QED BY <1>1, <1>7, <3>2
  <2>6. \A a \in Answers \union {Cancelled} : a # Failed
    BY DEF SamplesConstants
  <2> QED BY <1>3, <1>4, <2>3, <2>4, <2>5, <2>6
<1>8. ASSUME v1 = "first", NEW j \in Samples!Samples, j < i
      PROVE  v3[j] = Failed
  <2>1. Samples!Survivors = {l \in Samples!Samples : v3[l] # Failed}
    BY <1>8 DEF Samples!Survivors
  <2>2. CASE j \in Samples!Survivors
    <3>1. Samples!Rank(j) \in Samples!Places /\ Samples!Rank(j) < v5
      BY <1>6, <1>8, <2>2
    <3> QED BY <1>1, <1>8, <3>1, SamplesCounts DEF Samples!Places
  <2> QED BY <2>1, <2>2
<1>9. /\ v3[i] = Samples!Output
      /\ Samples!Output \in Answers \/ (Samples!Output = Cancelled /\ v1 \in {"ensemble", "first"})
  BY <1>3, <1>4
<1> QED BY <1>4, <1>5, <1>7, <1>8, <1>9

\* BestOfN and Ensemble return the answer of the first sample that no other
\* beats, whichever samples and scorings fail in whatever order (best_of_n.py,
\* ensemble.py).
THEOREM SelectedIsBestHolds == ASSUME SamplesConstants PROVE Samples!Spec => []Samples!SelectedIsBest
<1>1. Samples!Init => Samples!SamplesInv
  BY SamplesInvInit
<1>2. Samples!SamplesInv /\ [Samples!Next]_(Samples!vars) => Samples!SamplesInv'
  BY SamplesInvNext
<1>3. Samples!SamplesInv => Samples!SelectedIsBest
  BY SamplesInvImplies
<1> QED BY <1>1, <1>2, <1>3, PTL DEF Samples!Spec

-----------------------------------------------------------------------------
(* The retries of Grounded (Grounding):                                    *)
(* v1 at; v2 strategies; v3 span_map; v4 outputs; v5 best; v6 feedback;    *)
(* MaxRetries is MaxGroundings.                                            *)

LEMMA SpanErrorsFinite ==
  ASSUME NEW k, NEW spans, NEW corpus, IsFiniteSet(DOMAIN spans)
  PROVE  IsFiniteSet(Ground!SpanErrors(k, spans, corpus))
<1> DEFINE failed == {i \in DOMAIN spans : ~Ground!Verifies(spans[i], corpus)}
           f == [i \in failed |-> [part |-> k, index |-> i - 1, reason |-> Ground!Reason(spans[i], corpus)]]
<1>1. IsFiniteSet(failed)
  BY FS_Subset
<1>2. f \in Surjection(failed, Ground!SpanErrors(k, spans, corpus))
  BY DEF Surjection, Ground!SpanErrors
<1> QED BY <1>1, <1>2, FS_Surjection

LEMMA ErrorsFinite ==
  ASSUME GroundConstants, NEW o \in Candidates
  PROVE  /\ IsFiniteSet(Ground!Errors(o)) /\ Cardinality(Ground!Errors(o)) \in Nat
         /\ Cardinality(Ground!Errors(o)) = 0 <=> Ground!Errors(o) = {}
<1> DEFINE of(k) == Ground!SpanErrors(k, o.parts[k].spans, Ground!CorpusOf(o))
           f == [k \in Ground!Looked(o) |-> of(k)]
<1>1. Ground!Looked(o) \subseteq DOMAIN o.parts /\ IsFiniteSet(DOMAIN o.parts)
  BY DEF GroundConstants, Ground!Looked
<1>2. IsFiniteSet(Ground!Looked(o))
  BY <1>1, FS_Subset
<1>3. \A k \in Ground!Looked(o) : IsFiniteSet(of(k))
  BY <1>1, SpanErrorsFinite DEF GroundConstants
<1> HIDE DEF of
<1>4. f \in Surjection(Ground!Looked(o), {of(k) : k \in Ground!Looked(o)})
  BY DEF Surjection
<1>5. IsFiniteSet({of(k) : k \in Ground!Looked(o)})
  BY <1>2, <1>4, FS_Surjection
<1>6. IsFiniteSet(UNION {of(k) : k \in Ground!Looked(o)})
  BY <1>3, <1>5, FS_UNION
<1>7. Ground!Errors(o) = UNION {of(k) : k \in Ground!Looked(o)}
  BY DEF Ground!Errors, of
<1> QED BY <1>6, <1>7, FS_CardinalityType, FS_EmptySet

\* The errors of an output depend on what the program was called with only.
LEMMA ErrorsStay ==
  ASSUME UNCHANGED Ground!arguments
  PROVE  /\ \A k : /\ Ground!Errors(v4[k])' = Ground!Errors(v4'[k])
                  /\ Ground!NoStrategy(v4[k])' = Ground!NoStrategy(v4'[k])
         /\ Ground!Errors(v4[v5])' = Ground!Errors(v4'[v5'])
<1>1. v2' = v2 /\ v3' = v3
  BY DEF Ground!arguments
<1>2. ASSUME NEW k PROVE Ground!Errors(v4[k])' = Ground!Errors(v4'[k])
  BY <1>1 DEF Ground!Errors, Ground!SpanErrors, Ground!Verifies, Ground!Hit, Ground!Reason,
     Ground!Corpus, Ground!CorpusOf, Ground!Paragraph, Ground!Looked
<1>3. ASSUME NEW k PROVE Ground!NoStrategy(v4[k])' = Ground!NoStrategy(v4'[k])
  BY <1>1 DEF Ground!NoStrategy
<1>4. Ground!Errors(v4[v5])' = Ground!Errors(v4'[v5'])
  BY <1>1 DEF Ground!Errors, Ground!SpanErrors, Ground!Verifies, Ground!Hit, Ground!Reason,
     Ground!Corpus, Ground!CorpusOf, Ground!Paragraph, Ground!Looked
<1> QED BY <1>2, <1>3, <1>4

\* The reasons that an error may have.
LEMMA ErrorsHaveReasons ==
  ASSUME NEW o
  PROVE  \A error \in Ground!Errors(o) :
           error.reason \in {"source_missing", "similarity_below_threshold", "quote_mismatch", "out_of_range"}
<1>1. ASSUME NEW span, NEW corpus
      PROVE  Ground!Reason(span, corpus) \in {"source_missing", "similarity_below_threshold", "quote_mismatch", "out_of_range"}
  BY DEF Ground!Reason
<1> QED BY <1>1 DEF Ground!Errors, Ground!SpanErrors

LEMMA AttemptsInvInit == ASSUME GroundConstants, Ground!Init PROVE Ground!AttemptsInv
<1>1. v4 = <<>> /\ Len(v4) = 0 /\ v4 \in Seq(Candidates) /\ DOMAIN v4 = {}
  BY DEF Ground!Init
<1> QED BY <1>1, GroundCounts DEF Ground!Init, GroundConstants, Ground!AttemptsInv, Ground!TypeOK,
           Ground!LoopKeepsBest, Ground!FirstOfTheFewest, Ground!ReturnsBestAttempt

LEMMA AnsweredKeeps ==
  ASSUME GroundConstants, Ground!AttemptsInv, NEW o \in Candidates, Ground!Answered(o)
  PROVE  Ground!AttemptsInv'
<1> DEFINE longer == Append(v4, o)
           n == Len(v4) + 1
           errs(k) == Ground!Errors(longer[k])
           count(k) == Cardinality(Ground!Errors(longer[k]))
           b == IF Ground!Improves(Ground!Errors(o)) THEN n ELSE v5
<1>1. /\ v1 = "asking" /\ v4' = longer /\ UNCHANGED Ground!arguments /\ v5' = IF Ground!Improves(Ground!Errors(o)) THEN Len(v4') ELSE v5
      /\ ~Ground!NoStrategy(o)
  BY DEF Ground!Answered
<1>2. /\ v4 \in Seq(Candidates) /\ v5 \in 0..Len(v4) /\ Len(v4) \in Nat /\ Len(v4) <= MaxGroundings
      /\ v2 \in StrategyChoices
      /\ v4 # <<>> => v5 # 0
      /\ \A k \in 1..Len(v4) : Ground!Errors(v4[k]) # {}
      /\ Ground!FirstOfTheFewest
  BY <1>1 DEF Ground!AttemptsInv, Ground!TypeOK, Ground!LoopKeepsBest
<1>3. /\ longer \in Seq(Candidates) /\ Len(longer) = n /\ longer[n] = o /\ DOMAIN longer = 1..n
      /\ \A k \in 1..Len(v4) : longer[k] = v4[k]
  BY <1>2
<1> HIDE DEF longer
<1>4. \A k \in 1..n : longer[k] \in Candidates /\ count(k) \in Nat /\ (count(k) = 0 <=> errs(k) = {})
  <2>1. ASSUME NEW k \in 1..n PROVE longer[k] \in Candidates
    BY <1>3
  <2> QED BY <2>1, ErrorsFinite
<1>5. \A k \in 1..n : k = n \/ k \in 1..Len(v4)
  BY <1>2
<1>6. v5' = b /\ b \in 1..n
  <2>1. v4 = <<>> => v5 = 0
    BY <1>2
  <2>2. v5 = 0 => Ground!Improves(Ground!Errors(o))
    BY GroundCounts DEF Ground!Improves
  <2> QED BY <1>1, <1>2, <1>3, <2>2
<1>7. \A k \in 1..n : count(b) < count(k) \/ (count(b) = count(k) /\ b <= k)
  <2>1. CASE Ground!Improves(Ground!Errors(o)) /\ v5 = 0
    <3>1. Len(v4) = 0 /\ n = 1 /\ b = 1
      BY <1>2, <2>1, EmptySeq
    <3> QED BY <1>4, <3>1
  <2>2. CASE Ground!Improves(Ground!Errors(o)) /\ v5 # 0
    <3>1. /\ b = n /\ v5 \in 1..Len(v4) /\ count(n) < count(v5)
          /\ \A k \in 1..Len(v4) : count(v5) <= count(k)
      BY <1>2, <1>3, <1>4, <2>2, GroundCounts DEF Ground!Improves, Ground!FirstOfTheFewest
    <3> HIDE DEF count, b
    <3>2. ASSUME NEW k \in 1..n PROVE count(b) < count(k) \/ (count(b) = count(k) /\ b <= k)
      <4>1. CASE k = n
        BY <1>4, <3>1, <4>1
      <4>2. CASE k \in 1..Len(v4)
        <5>1. count(n) \in Nat /\ count(v5) \in Nat /\ count(k) \in Nat /\ count(v5) <= count(k)
          BY <1>2, <1>4, <3>1, <4>2
        <5> QED BY <3>1, <5>1
      <4> QED BY <1>5, <4>1, <4>2
    <3> QED BY <3>2
  <2>3. CASE ~Ground!Improves(Ground!Errors(o))
    <3>1. /\ b = v5 /\ v5 \in 1..Len(v4) /\ ~(count(n) < count(v5))
          /\ \A k \in 1..Len(v4) : count(v5) < count(k) \/ (count(v5) = count(k) /\ v5 <= k)
      BY <1>2, <1>3, <1>4, <2>3, GroundCounts DEF Ground!Improves, Ground!FirstOfTheFewest
    <3> HIDE DEF count, b
    <3>2. ASSUME NEW k \in 1..n PROVE count(b) < count(k) \/ (count(b) = count(k) /\ b <= k)
      <4>1. CASE k = n
        <5>1. count(n) \in Nat /\ count(v5) \in Nat /\ v5 <= n
          BY <1>2, <1>4, <3>1
        <5> QED BY <3>1, <4>1, <5>1
      <4>2. CASE k \in 1..Len(v4)
        BY <3>1, <4>2
      <4> QED BY <1>5, <4>1, <4>2
    <3> QED BY <3>2
  <2> QED BY <2>1, <2>2, <2>3
<1> HIDE DEF b, count, errs
<1>8. /\ \A k \in 1..n : Ground!Errors(v4[k])' = errs(k) /\ Cardinality(Ground!Errors(v4[k]))' = count(k)
      /\ Ground!Errors(v4[v5])' = errs(v5') /\ Cardinality(Ground!Errors(v4[v5]))' = count(v5')
      /\ v2' = v2
  BY <1>1, ErrorsStay DEF Ground!arguments, errs, count
<1>9. \/ errs(b) = {} /\ v1' = "returned" /\ v6' = v6
      \/ n > MaxGroundings /\ v1' = "returned" /\ v6' = v6
      \/ errs(b) # {} /\ n <= MaxGroundings /\ v1' = "asking" /\ v6' = errs(b)
  <2>1. errs(b) = Ground!Errors(v4'[v5']) /\ Len(v4') = n /\ n \in Nat /\ MaxGroundings \in Nat
    BY <1>1, <1>2, <1>3, <1>6 DEF errs, GroundConstants
  <2> DEFINE e == Ground!Errors(v4'[v5'])
  <2>2. IF e = {} \/ Len(v4') > MaxGroundings
        THEN v1' = "returned" /\ UNCHANGED v6
        ELSE v1' = v1 /\ v6' = e
    BY DEF Ground!Answered
  <2> HIDE DEF e
  <2>3. errs(b) = e
    BY <2>1 DEF e
  <2> QED BY <1>1, <2>1, <2>2, <2>3
<1>10. Ground!FirstOfTheFewest'
  BY <1>1, <1>3, <1>6, <1>7, <1>8, GroundCounts DEF Ground!FirstOfTheFewest
<1>11. Ground!TypeOK'
  <2>1. v4' \in Seq(Candidates) /\ Len(v4') <= MaxGroundings + 1 /\ v5' \in 0..Len(v4')
    BY <1>1, <1>2, <1>3, <1>6 DEF GroundConstants
  <2>2. \A error \in v6' : error.reason \in {"source_missing", "similarity_below_threshold", "quote_mismatch", "out_of_range"}
    BY <1>9, ErrorsHaveReasons DEF errs, Ground!AttemptsInv, Ground!TypeOK
  <2> QED BY <1>2, <1>8, <1>9, <2>1, <2>2 DEF Ground!TypeOK
<1>12. \A k \in 1..n : errs(k) = {} => k = n
  <2>1. \A k \in 1..Len(v4) : errs(k) # {}
    BY <1>2, <1>3 DEF errs
  <2> QED BY <1>5, <2>1
<1>13. v1' = "asking" => \A k \in 1..n : errs(k) # {}
  <2>1. v1' = "asking" => count(b) # 0
    BY <1>4, <1>6, <1>9
  <2>2. ASSUME v1' = "asking", NEW k \in 1..n PROVE count(k) # 0
    BY <1>4, <1>6, <1>7, <2>1, <2>2
  <2> QED BY <1>4, <2>2
<1>14. Ground!LoopKeepsBest'
  BY <1>1, <1>3, <1>6, <1>8, <1>9, <1>10, <1>13 DEF Ground!LoopKeepsBest
<1>15. Ground!ReturnsBestAttempt'
  BY <1>1, <1>3, <1>6, <1>8, <1>9, <1>10, <1>12 DEF Ground!ReturnsBestAttempt
<1> QED BY <1>11, <1>14, <1>15 DEF Ground!AttemptsInv

LEMMA CannotVerifyKeeps ==
  ASSUME GroundConstants, Ground!AttemptsInv, NEW o \in Candidates, Ground!CannotVerify(o)
  PROVE  Ground!AttemptsInv'
<1>1. /\ v1 = "asking" /\ v1' = "raised" /\ Ground!NoStrategy(o) /\ v4' = Append(v4, o)
      /\ UNCHANGED Ground!arguments /\ v5' = v5 /\ v6' = v6
  BY DEF Ground!CannotVerify
<1>2. /\ v4 \in Seq(Candidates) /\ v5 \in 0..Len(v4) /\ Len(v4) \in Nat /\ Len(v4) <= MaxGroundings
      /\ v2 \in StrategyChoices
      /\ \A k \in 1..Len(v4) : Ground!Errors(v4[k]) # {}
  BY <1>1 DEF Ground!AttemptsInv, Ground!TypeOK, Ground!LoopKeepsBest
<1>3. /\ v4' \in Seq(Candidates) /\ Len(v4') = Len(v4) + 1 /\ DOMAIN v4' = 1..(Len(v4) + 1)
      /\ \A k \in 1..Len(v4) : v4'[k] = v4[k]
  BY <1>1, <1>2
<1>4. \A k \in DOMAIN v4' : k = Len(v4') \/ k \in 1..Len(v4)
  BY <1>2, <1>3
<1>5. \A k \in DOMAIN v4' : Ground!Errors(v4[k])' = {} => k = Len(v4')
  BY <1>1, <1>2, <1>3, <1>4, ErrorsStay
<1>6. Ground!TypeOK'
  BY <1>1, <1>2, <1>3 DEF Ground!TypeOK, Ground!AttemptsInv, Ground!arguments, GroundConstants
<1> QED BY <1>1, <1>5, <1>6 DEF Ground!AttemptsInv, Ground!LoopKeepsBest, Ground!ReturnsBestAttempt

LEMMA FailsKeeps ==
  ASSUME GroundConstants, Ground!AttemptsInv, Ground!Fails
  PROVE  Ground!AttemptsInv'
<1>1. /\ v1 = "asking" /\ v1' \in {"raised", "returned"}
      /\ UNCHANGED Ground!arguments /\ UNCHANGED <<v4, v5, v6>>
  BY DEF Ground!Fails
<1>2. Ground!TypeOK'
  BY <1>1 DEF Ground!TypeOK, Ground!AttemptsInv, Ground!arguments
<1>3. Ground!FirstOfTheFewest /\ (v4 # <<>> => v5 # 0) /\ Ground!FirstOfTheFewest' = Ground!FirstOfTheFewest
  BY <1>1, ErrorsStay, GroundCounts DEF Ground!AttemptsInv, Ground!LoopKeepsBest,
     Ground!FirstOfTheFewest
<1> QED BY <1>1, <1>2, <1>3, ErrorsStay DEF Ground!AttemptsInv, Ground!LoopKeepsBest,
           Ground!ReturnsBestAttempt

LEMMA AttemptsInvNext == ASSUME GroundConstants, Ground!AttemptsInv, [Ground!Next]_(Ground!vars) PROVE Ground!AttemptsInv'
<1>1. CASE UNCHANGED Ground!vars
  <2>1. UNCHANGED Ground!arguments /\ UNCHANGED <<v1, v4, v5, v6>>
    BY <1>1 DEF Ground!vars
  <2>2. Ground!TypeOK'
    BY <2>1 DEF Ground!TypeOK, Ground!AttemptsInv, Ground!arguments
  <2>3. Ground!FirstOfTheFewest' = Ground!FirstOfTheFewest
    BY <2>1, ErrorsStay, GroundCounts DEF Ground!FirstOfTheFewest
  <2> QED BY <2>1, <2>2, <2>3, ErrorsStay DEF Ground!AttemptsInv, Ground!LoopKeepsBest,
             Ground!ReturnsBestAttempt
<1> QED BY <1>1, AnsweredKeeps, CannotVerifyKeeps, FailsKeeps DEF Ground!Next

\* Grounded returns the earliest of the attempts with the fewest failed
\* citations, asks nobody after an attempt without one, and tells the producer
\* what is wrong with its best attempt (grounded.py).
THEOREM ReturnsBestAttemptHolds == ASSUME GroundConstants PROVE Ground!Spec => []Ground!ReturnsBestAttempt
<1>1. Ground!Init => Ground!AttemptsInv
  BY AttemptsInvInit
<1>2. Ground!AttemptsInv /\ [Ground!Next]_(Ground!vars) => Ground!AttemptsInv'
  BY AttemptsInvNext
<1>3. Ground!AttemptsInv => Ground!ReturnsBestAttempt
  BY DEF Ground!AttemptsInv
<1> QED BY <1>1, <1>2, <1>3, PTL DEF Ground!Spec

-----------------------------------------------------------------------------
(* The sources of a batch (BatchSources):                                  *)
(* v1 kind; v2 entries; v3 hashed; v4 range; v5 at; v6 position;           *)
(* v7 yielded; v8 first; v9 edited; v10 pass; Entries is SourceEntries;    *)
(* MaxEntries is SourceLength; Ranges is PageRanges; MaxRows is TableRows. *)

LEMMA SourceLeast == ASSUME NEW a \in Int, NEW b \in Int PROVE Sources!Min({a, b}) = IF a <= b THEN a ELSE b
<1> DEFINE m == IF a <= b THEN a ELSE b
<1>1. m \in {a, b} /\ \A y \in {a, b} : m <= y
  OBVIOUS
<1>2. \A x \in {a, b} : (\A y \in {a, b} : x <= y) => x = m
  OBVIOUS
<1> QED BY <1>1, <1>2 DEF Sources!Min

LEMMA SourceGreatest == ASSUME NEW a \in Int, NEW b \in Int PROVE Sources!Max({a, b}) = IF a >= b THEN a ELSE b
<1> DEFINE m == IF a >= b THEN a ELSE b
<1>1. m \in {a, b} /\ \A y \in {a, b} : m >= y
  OBVIOUS
<1>2. \A x \in {a, b} : (\A y \in {a, b} : x >= y) => x = m
  OBVIOUS
<1> QED BY <1>1, <1>2 DEF Sources!Max

\* The pages and rows that are read are entries of the source.
LEMMA WithinTheSource ==
  ASSUME SourceConstants, v2 \in Seq(SourceEntries), v4 \in PageRanges \union {None}
  PROVE  Sources!Start \in Nat \ {0} /\ Sources!End \in Int /\ Sources!End <= Len(v2)
<1>1. Len(v2) \in Nat /\ TableRows \in Int
  BY LenProperties DEF SourceConstants, PagesAreNumbers
<1>2. v4 # None => v4.from \in Int /\ v4.to \in Int
  BY DEF SourceConstants, PagesAreNumbers
<1>3. Sources!Start \in Nat \ {0}
  <2>1. CASE v1 = "pdf" /\ v4 # None
    <3>1. Sources!Max({0, v4.from}) = IF 0 >= v4.from THEN 0 ELSE v4.from
      BY <1>2, <2>1, SourceGreatest
    <3>2. Sources!Max({0, v4.from}) \in Nat
      BY <1>2, <2>1, <3>1
    <3> QED BY <2>1, <3>2 DEF Sources!Start
  <2>2. CASE ~(v1 = "pdf" /\ v4 # None)
    BY <2>2 DEF Sources!Start
  <2> QED BY <2>1, <2>2
<1>4. Sources!End \in Int /\ Sources!End <= Len(v2)
  <2>1. CASE v1 = "pdf" /\ v4 # None
    <3>1. Sources!Min({Len(v2), v4.to}) = IF Len(v2) <= v4.to THEN Len(v2) ELSE v4.to
      BY <1>1, <1>2, <2>1, SourceLeast
    <3>2. Sources!Min({Len(v2), v4.to}) \in Int /\ Sources!Min({Len(v2), v4.to}) <= Len(v2)
      BY <1>1, <1>2, <2>1, <3>1
    <3> QED BY <2>1, <3>2 DEF Sources!End
  <2>2. CASE v1 = "tabular"
    <3>1. Sources!Min({Len(v2), TableRows}) = IF Len(v2) <= TableRows THEN Len(v2) ELSE TableRows
      BY <1>1, SourceLeast
    <3>2. Sources!Min({Len(v2), TableRows}) \in Int /\ Sources!Min({Len(v2), TableRows}) <= Len(v2)
      BY <1>1, <3>1
    <3> QED BY <2>2, <3>2 DEF Sources!End
  <2>3. CASE ~(v1 = "pdf" /\ v4 # None) /\ v1 # "tabular"
    BY <1>1, <2>3 DEF Sources!End
  <2> QED BY <2>1, <2>2, <2>3
<1> QED BY <1>3, <1>4

\* Between two places there are finitely many items, and one more if the next
\* entry is one.
ItemsUpTo(k) == {j \in Sources!Start..k : v2[j].form = "item"}

LEMMA OneMoreItem ==
  ASSUME NEW k \in Int, Sources!Start \in Int, Sources!Start <= k
  PROVE  /\ Cardinality(ItemsUpTo(k - 1)) \in Nat
         /\ v2[k].form = "item" => Cardinality(ItemsUpTo(k)) = Cardinality(ItemsUpTo(k - 1)) + 1
         /\ v2[k].form # "item" => ItemsUpTo(k) = ItemsUpTo(k - 1)
<1>1. IsFiniteSet(Sources!Start..(k - 1)) /\ ItemsUpTo(k - 1) \in SUBSET (Sources!Start..(k - 1))
  BY FS_Interval DEF ItemsUpTo
<1>2. IsFiniteSet(ItemsUpTo(k - 1))
  BY <1>1, FS_Subset
<1>3. k \notin ItemsUpTo(k - 1)
  BY DEF ItemsUpTo
<1>4. \A j : j \in Sources!Start..k <=> j \in Sources!Start..(k - 1) \/ j = k
  OBVIOUS
<1>5. v2[k].form = "item" => ItemsUpTo(k) = ItemsUpTo(k - 1) \union {k}
  BY <1>4 DEF ItemsUpTo
<1>6. v2[k].form # "item" => ItemsUpTo(k) = ItemsUpTo(k - 1)
  BY <1>4 DEF ItemsUpTo
<1>7. Cardinality(ItemsUpTo(k - 1) \union {k}) = Cardinality(ItemsUpTo(k - 1)) + 1
  BY <1>2, <1>3, FS_AddElement
<1> QED BY <1>2, <1>5, <1>6, <1>7, FS_CardinalityType

LEMMA SourcesInit == ASSUME SourceConstants, Sources!Init PROVE Sources!YieldedInOrder
<1>1. PICK n \in 0..SourceLength : v2 \in [1..n -> {e \in SourceEntries : Sources!Possible(v1, e)}]
  BY DEF Sources!Init, Sources!Contents
<1>2. n \in Nat /\ n <= SourceLength /\ v2 \in Seq(SourceEntries) /\ Len(v2) = n /\ DOMAIN v2 = 1..n
  BY <1>1, IsASeq, LenProperties DEF SourceConstants, PagesAreNumbers
<1>3. \A k \in DOMAIN v2 : Sources!Possible(v1, v2[k])
  BY <1>1, <1>2
<1>4. v7 = <<>> /\ v8 = <<>> /\ v6 = 1 /\ v5 = "new"
  BY DEF Sources!Init
<1>5. v7 \in Seq(Sources!Items) /\ v8 \in Seq(Sources!Items) /\ DOMAIN v7 = {} /\ DOMAIN v8 = {}
  BY <1>4, EmptySeq
<1>6. v4 \in PageRanges \union {None}
  BY DEF Sources!Init
<1> QED BY <1>2, <1>3, <1>4, <1>5, <1>6, SourcesCounts DEF Sources!YieldedInOrder

LEMMA OpenOrders == ASSUME SourceConstants, Sources!YieldedInOrder, Sources!CannotOpen \/ Sources!Open PROVE Sources!YieldedInOrder'
<1>1. /\ UNCHANGED <<v1, v2, v4, v7, v8, v9>>
      /\ v5 = "new" /\ v7 = <<>>
      /\ v2 \in Seq(SourceEntries) /\ v4 \in PageRanges \union {None}
  BY SourcesCounts DEF Sources!CannotOpen, Sources!Open, Sources!YieldedInOrder
<1>2. Sources!Start' = Sources!Start /\ Sources!End' = Sources!End /\ Sources!Items' = Sources!Items
  BY <1>1 DEF Sources!Start, Sources!End, Sources!Items, Sources!ItemAt, Sources!IdFor,
     Sources!Possible
<1>3. v5' = "reading" => /\ Len(v7') = 0 /\ v6' = Sources!Start
                         /\ Cardinality({k \in Sources!Start..(Sources!Start - 1) : v2[k].form = "item"}) = 0
  <2>1. Sources!Start \in Int
    BY <1>1, WithinTheSource
  <2>2. {k \in Sources!Start..(Sources!Start - 1) : v2[k].form = "item"} = {}
    BY <2>1
  <2>3. v5' = "reading" => v6' = Sources!Start
    BY DEF Sources!CannotOpen, Sources!Open
  <2> QED BY <1>1, <2>2, <2>3, FS_EmptySet, EmptySeq
<1>4. v5' \in {"reading", "raised"} /\ v6' \in {v6, Sources!Start}
  BY DEF Sources!CannotOpen, Sources!Open
<1>5. v6' \in Nat \ {0}
  BY <1>1, <1>4, WithinTheSource, SourcesCounts DEF Sources!YieldedInOrder
<1>6. \A e, k : Sources!ItemAt(e, k)' = Sources!ItemAt(e, k) /\ Sources!Possible(v1, e)' = Sources!Possible(v1, e)
  BY <1>1 DEF Sources!ItemAt, Sources!IdFor, Sources!Possible
<1>7. DOMAIN v7' = {}
  BY <1>1
<1>8. v5' = "reading" => Sources!Start' <= v6'
  BY <1>1, <1>2, <1>3, WithinTheSource
<1> QED BY <1>1, <1>2, <1>3, <1>4, <1>5, <1>6, <1>7, <1>8, SourcesCounts DEF Sources!YieldedInOrder

\* What a position that is read leaves as it was.
LEMMA ReadingKeeps ==
  ASSUME SourceConstants, Sources!YieldedInOrder, UNCHANGED <<v1, v2, v4, v8, v9>>
  PROVE  /\ Sources!Start' = Sources!Start /\ Sources!End' = Sources!End /\ Sources!Items' = Sources!Items
         /\ \A e, k : Sources!ItemAt(e, k)' = Sources!ItemAt(e, k) /\ Sources!Possible(v1, e)' = Sources!Possible(v1, e)
BY DEF Sources!Start, Sources!End, Sources!Items, Sources!ItemAt, Sources!IdFor, Sources!Possible

LEMMA SkipOrders == ASSUME SourceConstants, Sources!YieldedInOrder, Sources!Skip PROVE Sources!YieldedInOrder'
<1>1. /\ UNCHANGED <<v1, v2, v4, v5, v7, v8, v9>>
      /\ v5 = "reading" /\ v6 <= Sources!End /\ v2[v6].form # "item"
      /\ v6' = v6 + 1 /\ v6 \in Nat \ {0} /\ Sources!Start <= v6
      /\ Len(v7) = Cardinality({k \in Sources!Start..(v6 - 1) : v2[k].form = "item"})
      /\ v2 \in Seq(SourceEntries) /\ v4 \in PageRanges \union {None}
  BY SourcesCounts DEF Sources!Skip, Sources!Reading, Sources!YieldedInOrder
<1>2. /\ Sources!Start' = Sources!Start /\ Sources!End' = Sources!End /\ Sources!Items' = Sources!Items
      /\ \A e, k : Sources!ItemAt(e, k)' = Sources!ItemAt(e, k) /\ Sources!Possible(v1, e)' = Sources!Possible(v1, e)
  BY <1>1, ReadingKeeps
<1>3. Sources!Start \in Nat /\ Sources!End \in Int
  BY <1>1, WithinTheSource
<1>4. Len(v7) = Cardinality({k \in Sources!Start..v6 : v2[k].form = "item"})
  <2>1. ItemsUpTo(v6) = ItemsUpTo(v6 - 1)
    BY <1>1, <1>3, OneMoreItem
  <2> QED BY <1>1, <2>1 DEF ItemsUpTo
<1>5. v6' - 1 = v6
  BY <1>1
<1>6. Sources!Start' <= v6' /\ v6' <= Sources!End' + 1
  BY <1>1, <1>2, <1>3
<1>7. Len(v7') = Cardinality({k \in Sources!Start'..(v6' - 1) : v2'[k].form = "item"})
  BY <1>1, <1>2, <1>4, <1>5
<1>8. \A k : k < v6 => (k \in DOMAIN v2 => k < v6')
  <2>1. DOMAIN v2 \subseteq Int
    BY <1>1, LenProperties
  <2> QED BY <1>1, <2>1
<1>9. v5' # "new" /\ v5' # "over" /\ v6' \in Nat \ {0}
  BY <1>1
<1> QED BY <1>1, <1>2, <1>6, <1>7, <1>8, <1>9, SourcesCounts DEF Sources!YieldedInOrder

LEMMA YieldOrders == ASSUME SourceConstants, Sources!YieldedInOrder, Sources!Yield PROVE Sources!YieldedInOrder'
<1> DEFINE item == Sources!ItemAt(v2[v6], v6)
<1>1. /\ UNCHANGED <<v1, v2, v4, v5, v8, v9>>
      /\ v5 = "reading" /\ v6 <= Sources!End /\ v2[v6].form = "item"
      /\ v6' = v6 + 1 /\ v6 \in Nat \ {0} /\ Sources!Start <= v6
      /\ Len(v7) = Cardinality({k \in Sources!Start..(v6 - 1) : v2[k].form = "item"})
      /\ v2 \in Seq(SourceEntries) /\ v4 \in PageRanges \union {None}
      /\ v7 \in Seq(Sources!Items) /\ Len(v2) <= SourceLength
  BY SourcesCounts DEF Sources!Yield, Sources!Reading, Sources!YieldedInOrder
<1>2. /\ Sources!Start' = Sources!Start /\ Sources!End' = Sources!End /\ Sources!Items' = Sources!Items
      /\ \A e, k : Sources!ItemAt(e, k)' = Sources!ItemAt(e, k) /\ Sources!Possible(v1, e)' = Sources!Possible(v1, e)
  BY <1>1, ReadingKeeps
<1>3. Sources!Start \in Nat /\ Sources!End \in Int /\ Sources!End <= Len(v2) /\ Len(v2) \in Nat
      /\ DOMAIN v2 = 1..Len(v2)
  BY <1>1, WithinTheSource, LenProperties
<1>4. v6 \in DOMAIN v2 /\ v6 \in 1..SourceLength
  BY <1>1, <1>3 DEF SourceConstants, PagesAreNumbers
<1>5. v2[v6] \in SourceEntries /\ Sources!Possible(v1, v2[v6])
  BY <1>1, <1>4, ElementOfSeq, <1>3, SourcesCounts DEF Sources!YieldedInOrder
<1>6. v7' = Append(v7, item) /\ item \in Sources!Items
  <2>1. v7' = Append(v7, item)
    BY DEF Sources!Yield, Sources!IdOf, Sources!ItemAt
  <2>2. item \in Sources!Items
    BY <1>4, <1>5 DEF Sources!Items
  <2> QED BY <2>1, <2>2
<1> HIDE DEF item
<1>7. /\ v7' \in Seq(Sources!Items) /\ Len(v7') = Len(v7) + 1
      /\ DOMAIN v7 = 1..Len(v7) /\ DOMAIN v7' = 1..(Len(v7) + 1)
      /\ Len(v7) \in Nat
      /\ \A i \in 1..Len(v7) : v7'[i] = v7[i]
      /\ v7'[Len(v7) + 1] = item
  <2>1. /\ v7' \in Seq(Sources!Items) /\ Len(v7') = Len(v7) + 1
        /\ \A i \in 1..Len(v7) : v7'[i] = v7[i]
        /\ v7'[Len(v7) + 1] = item
    <3>1. /\ Append(v7, item) \in Seq(Sources!Items)
          /\ Len(Append(v7, item)) = Len(v7) + 1
          /\ \A i \in 1..Len(v7) : Append(v7, item)[i] = v7[i]
          /\ Append(v7, item)[Len(v7) + 1] = item
      <4>1. v7 \in Seq(Sources!Items) /\ item \in Sources!Items
        BY <1>1, <1>6
      <4> QED BY ONLY <4>1, AppendProperties
    <3> QED BY <1>6, <3>1
  <2>2. /\ DOMAIN v7 = 1..Len(v7) /\ Len(v7) \in Nat
        /\ DOMAIN v7' = 1..Len(v7')
    BY <1>1, <2>1, LenProperties
  <2> QED BY <2>1, <2>2
<1>8. Len(v7') = Cardinality({k \in Sources!Start'..(v6' - 1) : v2'[k].form = "item"})
  <2>1. Cardinality(ItemsUpTo(v6)) = Cardinality(ItemsUpTo(v6 - 1)) + 1
    BY <1>1, <1>3, OneMoreItem
  <2>2. Len(v7') = Cardinality(ItemsUpTo(v6))
    BY <1>1, <1>7, <2>1 DEF ItemsUpTo
  <2>3. v6' - 1 = v6
    BY <1>1
  <2> QED BY <1>1, <1>2, <2>2, <2>3 DEF ItemsUpTo
<1>9. ASSUME NEW i \in DOMAIN v7'
      PROVE  \E k \in DOMAIN v2 : k < v6' /\ v7'[i] = Sources!ItemAt(v2[k], k)
  <2>1. CASE i \in DOMAIN v7
    <3>1. PICK k \in DOMAIN v2 : k < v6 /\ v7[i] = Sources!ItemAt(v2[k], k)
      BY <2>1, SourcesCounts DEF Sources!YieldedInOrder
    <3>2. k < v6'
      BY <1>1, <1>3, <3>1
    <3> QED BY <1>7, <2>1, <3>1, <3>2
  <2>2. CASE i = Len(v7) + 1
    <3>1. v7'[i] = item /\ v6 < v6'
      BY <1>1, <1>7, <2>2
    <3> QED BY <1>4, <3>1 DEF item
  <2> QED BY <1>7, <2>1, <2>2
<1>10. ASSUME v1 = "pdf", NEW i \in DOMAIN v7', NEW j \in DOMAIN v7', i # j
       PROVE  v7'[i].id # v7'[j].id
  <2>1. \A k \in DOMAIN v2 : Sources!ItemAt(v2[k], k).id = <<"page", k>>
    <3>1. \A k \in DOMAIN v2 : v2[k].id = None
      BY <1>10, SourcesCounts DEF Sources!YieldedInOrder, Sources!Possible
    <3> QED BY <1>10, <3>1 DEF Sources!ItemAt, Sources!IdFor
  <2>2. \A m \in 1..Len(v7) : v7[m].id # item.id
    <3>1. item.id = <<"page", v6>>
      BY <1>4, <2>1 DEF item
    <3> SUFFICES ASSUME NEW m \in 1..Len(v7) PROVE v7[m].id # item.id
      OBVIOUS
    <3>2. PICK k \in DOMAIN v2 : k < v6 /\ v7[m] = Sources!ItemAt(v2[k], k)
      BY <1>7, SourcesCounts DEF Sources!YieldedInOrder
    <3>3. v7[m].id = <<"page", k>> /\ k # v6
      BY <1>1, <1>3, <2>1, <3>2
    <3> QED BY <3>1, <3>3
  <2>3. CASE i \in DOMAIN v7 /\ j \in DOMAIN v7
    BY <1>7, <1>10, <2>3, SourcesCounts DEF Sources!YieldedInOrder
  <2>4. CASE i = Len(v7) + 1 /\ j \in DOMAIN v7
    BY <1>7, <2>2, <2>4
  <2>5. CASE i \in DOMAIN v7 /\ j = Len(v7) + 1
    BY <1>7, <2>2, <2>5
  <2> QED BY <1>7, <1>10, <2>3, <2>4, <2>5
<1>11. Sources!Start' <= v6' /\ v6' <= Sources!End' + 1 /\ v6' \in Nat \ {0}
  BY <1>1, <1>2, <1>3
<1> QED BY <1>1, <1>2, <1>7, <1>8, <1>9, <1>10, <1>11, SourcesCounts DEF Sources!YieldedInOrder

LEMMA StopOrders == ASSUME SourceConstants, Sources!YieldedInOrder, Sources!Raise \/ Sources!Exhausted PROVE Sources!YieldedInOrder'
<1>1. /\ UNCHANGED <<v1, v2, v4, v6, v7, v8, v9>> /\ v5 = "reading"
      /\ v5' = "raised" \/ (v5' = "over" /\ v6 > Sources!End)
  BY DEF Sources!Raise, Sources!Exhausted, Sources!Reading
<1>2. /\ Sources!Start' = Sources!Start /\ Sources!End' = Sources!End /\ Sources!Items' = Sources!Items
      /\ \A e, k : Sources!ItemAt(e, k)' = Sources!ItemAt(e, k) /\ Sources!Possible(v1, e)' = Sources!Possible(v1, e)
  BY <1>1, ReadingKeeps
<1> QED BY <1>1, <1>2, SourcesCounts DEF Sources!YieldedInOrder

LEMMA AgainOrders == ASSUME SourceConstants, Sources!YieldedInOrder, Sources!Again PROVE Sources!YieldedInOrder'
<1>1. /\ v8' = v7 /\ v7' = <<>> /\ v5' = "new" /\ v6' = 1
      /\ v1' = v1 /\ v4' \in PageRanges \union {None}
      /\ v2 \in Seq(SourceEntries) /\ Len(v2) <= SourceLength
  BY SourcesCounts DEF Sources!Again, Sources!YieldedInOrder
<1>2. Sources!Items' = Sources!Items /\ \A e, k : Sources!ItemAt(e, k)' = Sources!ItemAt(e, k) /\ Sources!Possible(v1, e)' = Sources!Possible(v1, e)
  BY <1>1 DEF Sources!Items, Sources!ItemAt, Sources!IdFor, Sources!Possible
<1>3. /\ v2' \in Seq(SourceEntries) /\ Len(v2') <= SourceLength
      /\ \A k \in DOMAIN v2' : Sources!Possible(v1, v2'[k])
      /\ ~v9' => v2' = v2
  <2>1. CASE UNCHANGED <<v2, v9>>
    BY <1>1, <2>1, SourcesCounts DEF Sources!YieldedInOrder
  <2>2. CASE /\ v9' = TRUE
             /\ \E k \in DOMAIN v2 : \E e \in {e \in SourceEntries : Sources!Possible(v1, e)} \ {v2[k]} :
                  v2' = [v2 EXCEPT ![k] = e]
    <3>1. PICK k \in DOMAIN v2, e \in SourceEntries :
               Sources!Possible(v1, e) /\ v2' = [v2 EXCEPT ![k] = e]
      BY <2>2
    <3>2. k \in 1..Len(v2)
      BY <1>1, LenProperties
    <3>3. v2' \in Seq(SourceEntries) /\ Len(v2') = Len(v2)
      BY <1>1, <3>1, <3>2, ExceptSeq
    <3>4. \A m \in DOMAIN v2' : m \in DOMAIN v2 /\ (v2'[m] = e \/ v2'[m] = v2[m])
      BY <3>1
    <3> QED BY <1>1, <2>2, <3>1, <3>3, <3>4, SourcesCounts DEF Sources!YieldedInOrder
  <2> QED BY <2>1, <2>2 DEF Sources!Again
<1>4. ~v9' => \A i \in DOMAIN v8' :
                    \E k \in DOMAIN v2' : v8'[i] = Sources!ItemAt(v2'[k], k)
  BY <1>1, <1>3, SourcesCounts DEF Sources!YieldedInOrder
<1>5. v8' \in Seq(Sources!Items) /\ v7' \in Seq(Sources!Items) /\ DOMAIN v7' = {}
  BY <1>1, EmptySeq, SourcesCounts DEF Sources!YieldedInOrder
<1> QED BY <1>1, <1>2, <1>3, <1>4, <1>5, SourcesCounts DEF Sources!YieldedInOrder

LEMMA SourcesNext == ASSUME SourceConstants, Sources!YieldedInOrder, [Sources!Next]_(Sources!vars) PROVE Sources!YieldedInOrder'
<1>1. CASE UNCHANGED Sources!vars
  BY <1>1, SourcesCounts DEF Sources!vars, Sources!YieldedInOrder, Sources!Start, Sources!End,
     Sources!Items, Sources!ItemAt, Sources!IdFor, Sources!Possible
<1> QED BY <1>1, OpenOrders, SkipOrders, YieldOrders, StopOrders, AgainOrders DEF Sources!Next

\* Equal ids mean equal inputs, for what the two kinds of positions yield.
LEMMA SourcesImplies == ASSUME SourceConstants, Sources!YieldedInOrder PROVE Sources!IdsMeanTheirInputs
<1>1. ASSUME NEW i \in DOMAIN v8, NEW j \in DOMAIN v7, v8[i].id = v7[j].id
      PROVE  \/ v8[i].text = v7[j].text
             \/ v9 /\ v8[i].id[1] \in {"given", "page"}
             \/ v8[i].id[1] = "given"
                /\ \E k, l \in DOMAIN v2 : k # l /\ v2[k].id = v2[l].id
  <2>1. v8[i] \in Sources!Items /\ v7[j] \in Sources!Items
    BY ElementOfSeq, LenProperties, SourcesCounts DEF Sources!YieldedInOrder
  <2>2. PICK e \in SourceEntries, k \in 1..SourceLength : v8[i] = Sources!ItemAt(e, k)
    BY <2>1 DEF Sources!Items
  <2>3. PICK f \in SourceEntries, l \in 1..SourceLength : v7[j] = Sources!ItemAt(f, l)
    BY <2>1 DEF Sources!Items
  <2>4. CASE e.id = None /\ v1 # "pdf"
    <3>1. v8[i].id = <<"inputs", e.text>> /\ v8[i].text = e.text
      BY <2>2, <2>4 DEF Sources!ItemAt, Sources!IdFor
    <3>2. f.id = None /\ v1 # "pdf" => v7[j].id = <<"inputs", f.text>>
      BY <2>3 DEF Sources!ItemAt, Sources!IdFor
    <3>3. f.id # None => v7[j].id = <<"given", f.id>>
      BY <2>3 DEF Sources!ItemAt, Sources!IdFor
    <3>4. v7[j].text = f.text
      BY <2>3 DEF Sources!ItemAt
    <3> QED BY <1>1, <2>4, <3>1, <3>2, <3>3, <3>4
  <2>5. CASE e.id # None \/ v1 = "pdf"
    <3>1. v8[i].id[1] \in {"given", "page"}
      BY <2>2, <2>5 DEF Sources!ItemAt, Sources!IdFor
    <3>2. CASE ~v9
      <4>1. PICK m \in DOMAIN v2 : v8[i] = Sources!ItemAt(v2[m], m)
        BY <3>2, SourcesCounts DEF Sources!YieldedInOrder
      <4>2. PICK n \in DOMAIN v2 : v7[j] = Sources!ItemAt(v2[n], n)
        BY SourcesCounts DEF Sources!YieldedInOrder
      <4>3. CASE m = n
        BY <4>1, <4>2, <4>3
      <4>4. CASE m # n /\ v2[m].id # None
        <5>1. v8[i].id = <<"given", v2[m].id>>
          BY <4>1, <4>4 DEF Sources!ItemAt, Sources!IdFor
        <5>2. v2[n].id # None => v7[j].id = <<"given", v2[n].id>>
          BY <4>2 DEF Sources!ItemAt, Sources!IdFor
        <5>3. v2[n].id = None => v7[j].id[1] \in {"page", "inputs"}
          BY <4>2 DEF Sources!ItemAt, Sources!IdFor
        <5>4. v2[n].id = v2[m].id
          BY <1>1, <5>1, <5>2, <5>3
        <5> QED BY <4>4, <5>1, <5>4
      <4>5. CASE m # n /\ v2[m].id = None
        <5>1. v1 = "pdf" => v8[i].id = <<"page", m>>
          BY <4>1, <4>5 DEF Sources!ItemAt, Sources!IdFor
        <5>2. v1 # "pdf" => v8[i].id[1] = "inputs"
          BY <4>1, <4>5 DEF Sources!ItemAt, Sources!IdFor
        <5>3. v1 = "pdf" => v2[n].id = None
          BY SourcesCounts DEF Sources!YieldedInOrder, Sources!Possible
        <5>4. v1 = "pdf" => v7[j].id = <<"page", n>>
          BY <4>2, <5>3 DEF Sources!ItemAt, Sources!IdFor
        <5> QED BY <1>1, <3>1, <4>5, <5>1, <5>2, <5>4
      <4> QED BY <4>3, <4>4, <4>5
    <3> QED BY <3>1, <3>2
  <2> QED BY <2>4, <2>5
<1>2. \A i, j \in DOMAIN v7 : i # j /\ v1 = "pdf" => v7[i].id # v7[j].id
  BY SourcesCounts DEF Sources!YieldedInOrder
<1>3. ASSUME v5 = "over" PROVE Len(v7) = Cardinality({k \in Sources!Start..Sources!End : v2[k].form = "item"})
  <2>1. /\ v6 > Sources!End /\ Sources!Start <= v6 /\ (v6 = Sources!Start \/ v6 <= Sources!End + 1)
        /\ v6 \in Nat /\ v2 \in Seq(SourceEntries) /\ v4 \in PageRanges \union {None}
        /\ Len(v7) = Cardinality({k \in Sources!Start..(v6 - 1) : v2[k].form = "item"})
    BY <1>3, SourcesCounts DEF Sources!YieldedInOrder
  <2>2. Sources!Start \in Nat /\ Sources!End \in Int
    BY <2>1, WithinTheSource
  <2>3. \A k : k \in Sources!Start..Sources!End <=> k \in Sources!Start..(v6 - 1)
    BY <2>1, <2>2
  <2>4. {k \in Sources!Start..Sources!End : v2[k].form = "item"} = {k \in Sources!Start..(v6 - 1) : v2[k].form = "item"}
    BY <2>3
  <2> QED BY <2>1, <2>4
<1> QED BY <1>1, <1>2, <1>3, SourcesCounts DEF Sources!IdsMeanTheirInputs

-----------------------------------------------------------------------------
(* The requests about one batch (BatchRequest):                            *)
(* v1 request; v2 entries; v3 at; v4 files; v5 hint; v6 row; v7 next;      *)
(* v8 seen; v9 log; v10 manifest; v11 run; v12 reply;                      *)
(* MaxEntries is RequestLength; Ranges is PageRanges;                      *)
(* MaxRows is TableRows.                                                   *)

LEMMA RequestLeast == ASSUME NEW a \in Int, NEW b \in Int PROVE OneBatch!Min({a, b}) = IF a <= b THEN a ELSE b
<1> DEFINE m == IF a <= b THEN a ELSE b
<1>1. m \in {a, b} /\ \A y \in {a, b} : m <= y
  OBVIOUS
<1>2. \A x \in {a, b} : (\A y \in {a, b} : x <= y) => x = m
  OBVIOUS
<1> QED BY <1>1, <1>2 DEF OneBatch!Min

LEMMA RequestGreatest == ASSUME NEW a \in Int, NEW b \in Int PROVE OneBatch!Max({a, b}) = IF a >= b THEN a ELSE b
<1> DEFINE m == IF a >= b THEN a ELSE b
<1>1. m \in {a, b} /\ \A y \in {a, b} : m >= y
  OBVIOUS
<1>2. \A x \in {a, b} : (\A y \in {a, b} : x >= y) => x = m
  OBVIOUS
<1> QED BY <1>1, <1>2 DEF OneBatch!Max

\* What is within the range are the entries from one place to another.
LEMMA WithinIsInterval ==
  ASSUME RequestConstants, OneBatch!CreatedInOrder
  PROVE  \E a \in Nat \ {0}, b \in Int : OneBatch!Within = a..b /\ b <= Len(v2)
<1>1. Len(v2) \in Nat /\ DOMAIN v2 = 1..Len(v2) /\ TableRows \in Int
  BY LenProperties DEF OneBatch!CreatedInOrder, RequestConstants, PagesAreNumbers
<1>2. v1.range # None => v1.range.from \in Int /\ v1.range.to \in Int
  BY DEF OneBatch!CreatedInOrder, RequestConstants, PagesAreNumbers
<1>3. CASE v1.type = "pdf_pages" /\ v1.range # None
  <2> DEFINE a == OneBatch!Max({0, v1.range.from}) + 1
             b == OneBatch!Min({Len(v2), v1.range.to})
  <2>1. a = (IF 0 >= v1.range.from THEN 0 ELSE v1.range.from) + 1
    BY <1>2, <1>3, RequestGreatest
  <2>2. b = IF Len(v2) <= v1.range.to THEN Len(v2) ELSE v1.range.to
    BY <1>1, <1>2, <1>3, RequestLeast
  <2>3. OneBatch!Within = a..b
    BY <1>3 DEF OneBatch!Within
  <2> HIDE DEF a, b
  <2>4. a \in Nat \ {0} /\ b \in Int /\ b <= Len(v2)
    BY <1>1, <1>2, <1>3, <2>1, <2>2
  <2> QED BY <2>3, <2>4
<1>4. CASE v1.type = "tabular_rows"
  <2> DEFINE b == OneBatch!Min({Len(v2), TableRows})
  <2>1. b = IF Len(v2) <= TableRows THEN Len(v2) ELSE TableRows
    BY <1>1, RequestLeast
  <2>2. OneBatch!Within = 1..b
    BY <1>4 DEF OneBatch!Within
  <2> HIDE DEF b
  <2>3. b \in Int /\ b <= Len(v2)
    BY <1>1, <2>1
  <2> QED BY <2>2, <2>3
<1>5. CASE ~(v1.type = "pdf_pages" /\ v1.range # None) /\ v1.type # "tabular_rows"
  <2>1. OneBatch!Within = 1..Len(v2)
    BY <1>1, <1>5 DEF OneBatch!Within
  <2> QED BY <1>1, <2>1
<1> QED BY <1>3, <1>4, <1>5

LEMMA WithinIsFinite ==
  ASSUME RequestConstants, OneBatch!CreatedInOrder
  PROVE  IsFiniteSet(OneBatch!Within) /\ OneBatch!Within \subseteq Nat /\ OneBatch!Within \subseteq DOMAIN v2
<1>1. PICK a \in Nat \ {0}, b \in Int : OneBatch!Within = a..b /\ b <= Len(v2)
  BY WithinIsInterval
<1>2. Len(v2) \in Nat /\ DOMAIN v2 = 1..Len(v2)
  BY LenProperties DEF OneBatch!CreatedInOrder
<1>3. IsFiniteSet(a..b)
  BY FS_Interval
<1> QED BY <1>1, <1>2, <1>3

LEMMA RequestsInit == ASSUME RequestConstants, OneBatch!Init PROVE OneBatch!CreatedInOrder /\ OneBatch!RowAndManifest /\ OneBatch!RunsAreCounted
<1>1. PICK n \in 0..RequestLength : v2 \in [1..n -> {"item", "blank", "broken"}]
  BY DEF OneBatch!Init
<1>2. v2 \in Seq({"item", "blank", "broken"})
  BY <1>1, IsASeq
<1>3. v1.range \in PageRanges \union {None}
  BY DEF OneBatch!Init
<1>4. v3 = "envelope" /\ v4 = {} /\ v5 = None /\ v6 = None /\ v10 = None /\ v12 = None /\ v11.number = 0
  BY DEF OneBatch!Init
<1>5. OneBatch!CreatedInOrder
  BY <1>2, <1>3, <1>4 DEF OneBatch!Init, OneBatch!CreatedInOrder
<1> QED BY <1>4, <1>5, OneBatchCounts DEF OneBatch!RowAndManifest, OneBatch!RunsAreCounted,
           OneBatch!Refused

\* What follows from what does not change.
LEMMA SameSource ==
  ASSUME UNCHANGED <<v1, v2>>
  PROVE  OneBatch!Within' = OneBatch!Within /\ OneBatch!CountHint' = OneBatch!CountHint
BY OneBatchCounts DEF OneBatch!Within, OneBatch!CountHint

LEMMA SameBehind ==
  ASSUME UNCHANGED <<v1, v2, v7>>
  PROVE  OneBatch!Within' = OneBatch!Within /\ OneBatch!Behind' = OneBatch!Behind
BY DEF OneBatch!Within, OneBatch!Behind

LEMMA SameCreation ==
  ASSUME OneBatch!CreatedInOrder, UNCHANGED <<v1, v2, v5, v4>>,
         v3' \in {"pending", "running", "written", "over", v3}
  PROVE  OneBatch!CreatedInOrder'
<1>1. OneBatch!Within' = OneBatch!Within /\ OneBatch!CountHint' = OneBatch!CountHint
  BY SameSource
<1> QED BY <1>1 DEF OneBatch!CreatedInOrder

Creating == OneBatch!LoadEnvelope \/ OneBatch!BuildSource \/ OneBatch!ResolveOutdir \/ OneBatch!SaveEnvelope \/ OneBatch!CheckPolicy

LEMMA CreatingKeepsOrder ==
  ASSUME OneBatch!CreatedInOrder, OneBatch!RowAndManifest, Creating
  PROVE  OneBatch!CreatedInOrder' /\ OneBatch!RowAndManifest' /\ OneBatch!RunsAreCounted'
<1>1. /\ UNCHANGED <<v1, v2, v6, v10, v11, v12>>
      /\ v3 \in {"envelope", "source", "outdir", "save", "policy"}
      /\ v3' \in {"source", "outdir", "save", "policy", "insert", "refused"}
  BY DEF Creating, OneBatch!LoadEnvelope, OneBatch!BuildSource, OneBatch!ResolveOutdir,
     OneBatch!SaveEnvelope, OneBatch!CheckPolicy, OneBatch!Check, OneBatch!Untouched
<1>2. OneBatch!Refused /\ OneBatch!Refused' /\ v6 = None /\ v10 = None /\ v12 = None /\ v11.number \in Nat
  BY <1>1 DEF OneBatch!Refused, OneBatch!RowAndManifest
<1>3. OneBatch!RowAndManifest' /\ OneBatch!RunsAreCounted'
  BY <1>1, <1>2, OneBatchCounts DEF OneBatch!RowAndManifest, OneBatch!RunsAreCounted
<1>4. OneBatch!Within' = OneBatch!Within /\ OneBatch!CountHint' = OneBatch!CountHint
  BY <1>1, SameSource
<1>5. v5' = v5 \/ v5' = None \/ (v5' = OneBatch!CountHint /\ v1.type \in OneBatch!Types)
  BY DEF Creating, OneBatch!LoadEnvelope, OneBatch!BuildSource, OneBatch!ResolveOutdir,
     OneBatch!SaveEnvelope, OneBatch!CheckPolicy
<1>6. /\ "envelope" \in v4' => v3' \notin {"envelope", "source", "outdir", "save"}
      /\ v3' = "refused" /\ "envelope" \in v4' => v1.policy # "valid"
  <2>1. "envelope" \in v4 => v3 = "policy"
    BY <1>1 DEF OneBatch!CreatedInOrder
  <2>2. CASE OneBatch!LoadEnvelope \/ OneBatch!BuildSource
    BY <2>1, <2>2 DEF OneBatch!LoadEnvelope, OneBatch!BuildSource, OneBatch!Check
  <2>3. CASE OneBatch!ResolveOutdir
    BY <2>3 DEF OneBatch!ResolveOutdir, OneBatch!Check
  <2>4. CASE OneBatch!SaveEnvelope
    BY <2>4 DEF OneBatch!SaveEnvelope, OneBatch!Check
  <2>5. CASE OneBatch!CheckPolicy
    BY <2>5 DEF OneBatch!CheckPolicy, OneBatch!Check
  <2> QED BY <2>2, <2>3, <2>4, <2>5 DEF Creating
<1>7. OneBatch!CreatedInOrder'
  BY <1>1, <1>4, <1>5, <1>6 DEF OneBatch!CreatedInOrder
<1> QED BY <1>3, <1>7

LEMMA InsertKeepsOrder ==
  ASSUME OneBatch!CreatedInOrder, OneBatch!RowAndManifest, OneBatch!Insert
  PROVE  OneBatch!CreatedInOrder' /\ OneBatch!RowAndManifest' /\ OneBatch!RunsAreCounted'
<1>1. /\ UNCHANGED <<v1, v2, v5, v4, v10, v11, v12>>
      /\ v3 = "insert" /\ v3' = "pending"
      /\ v6' = [status |-> "pending", total |-> None, done |-> 0, timed |-> FALSE]
  BY DEF OneBatch!Insert, OneBatch!Untouched
<1>2. OneBatch!Refused /\ ~OneBatch!Refused' /\ ~OneBatch!Running' /\ v6' \in OneBatch!Rows /\ v6'.total = None /\ v6'.status = "pending"
  BY <1>1 DEF OneBatch!Refused, OneBatch!Running, OneBatch!Rows
<1>3. OneBatch!CreatedInOrder' /\ OneBatch!RunsAreCounted'
  BY <1>1, SameCreation, OneBatchCounts DEF OneBatch!RunsAreCounted
<1>4. OneBatch!RowAndManifest'
  BY <1>1, <1>2 DEF OneBatch!RowAndManifest
<1> QED BY <1>3, <1>4

LEMMA FirstWithin ==
  ASSUME RequestConstants, OneBatch!CreatedInOrder, OneBatch!Within # {}
  PROVE  OneBatch!Min(OneBatch!Within) \in OneBatch!Within /\ \A k \in OneBatch!Within : OneBatch!Min(OneBatch!Within) <= k
<1>1. PICK a \in Nat \ {0}, b \in Int : OneBatch!Within = a..b
  BY WithinIsInterval
<1>2. a \in OneBatch!Within /\ \A k \in OneBatch!Within : a <= k
  BY <1>1
<1> QED BY <1>2 DEF OneBatch!Min

LEMMA StartKeepsOrder ==
  ASSUME RequestConstants, OneBatch!CreatedInOrder, OneBatch!RowAndManifest, OneBatch!RunsAreCounted, NEW resume, OneBatch!Start(resume)
  PROVE  OneBatch!CreatedInOrder' /\ OneBatch!RowAndManifest' /\ OneBatch!RunsAreCounted'
<1>1. /\ UNCHANGED <<v1, v2, v5, v4, v10, v12>>
      /\ v3 \in {"pending", "over"} /\ v3' = "running"
      /\ v6' = [v6 EXCEPT !.status = "running"] /\ v11'.number = v11.number + 1
      /\ v7' = (IF OneBatch!Within = {} THEN 1 ELSE OneBatch!Min(OneBatch!Within)) /\ v8' = 0
  BY DEF OneBatch!Start
<1>2. ~OneBatch!Refused /\ ~OneBatch!Refused' /\ ~OneBatch!Running /\ OneBatch!Running'
  BY <1>1 DEF OneBatch!Refused, OneBatch!Running
<1>3. /\ v6 \in OneBatch!Rows /\ (v6.total # None => v11.number > 0) /\ v11.number \in Nat
      /\ v10 # None => v11.number > 0
  BY <1>1, <1>2 DEF OneBatch!RowAndManifest
<1>4. v6' \in OneBatch!Rows /\ v6'.status = "running" /\ v6'.total = v6.total
  BY <1>1, <1>3 DEF OneBatch!Rows
<1>5. /\ v11'.number \in Nat /\ v11'.number > 0 /\ (v11.number > 1 => v11'.number > 1)
      /\ v6.total # None => v11'.number > 1
      /\ v10 # None => v11'.number > 1
  BY <1>1, <1>3
<1>6. OneBatch!RowAndManifest'
  BY <1>1, <1>2, <1>3, <1>4, <1>5 DEF OneBatch!RowAndManifest
<1>7. OneBatch!CreatedInOrder'
  BY <1>1, SameCreation
<1>8. OneBatch!Within' = OneBatch!Within /\ v2' = v2
  BY <1>1, SameSource
<1>9. /\ v7' \in Nat /\ \A k \in OneBatch!Within : ~(k < v7')
      /\ v7' \in OneBatch!Within \/ OneBatch!Within = {}
  <2>1. CASE OneBatch!Within = {}
    BY <1>1, <2>1
  <2>2. CASE OneBatch!Within # {}
    <3>1. v7' = OneBatch!Min(OneBatch!Within)
      BY <1>1, <2>2
    <3>2. v7' \in OneBatch!Within /\ \A k \in OneBatch!Within : v7' <= k
      BY <2>2, <3>1, FirstWithin
    <3> QED BY <3>2, WithinIsFinite
  <2> QED BY <2>1, <2>2
<1>10. OneBatch!Behind' = {}
  BY <1>8, <1>9 DEF OneBatch!Behind
<1>11. v8' = Cardinality(OneBatch!Behind')
  BY <1>1, <1>10, FS_EmptySet
<1>12. OneBatch!RunsAreCounted'
  BY <1>1, <1>8, <1>9, <1>11, OneBatchCounts DEF OneBatch!RunsAreCounted
<1> QED BY <1>6, <1>7, <1>12

\* A run that goes on counts what it passes.
LEMMA PassKeepsCount ==
  ASSUME RequestConstants, OneBatch!CreatedInOrder, OneBatch!RunsAreCounted,
         UNCHANGED <<v1, v2, v10>>, v3 = "running", v3' = "running",
         v7 \in OneBatch!Within, v7' = v7 + 1, v2[v7] # "broken",
         v8' = IF v2[v7] = "item" THEN v8 + 1 ELSE v8
  PROVE  OneBatch!RunsAreCounted'
<1>1. /\ v7 \in Nat /\ v8 = Cardinality(OneBatch!Behind)
      /\ \A k \in OneBatch!Within : k < v7 => v2[k] # "broken"
  BY OneBatchCounts DEF OneBatch!RunsAreCounted
<1>2. OneBatch!Within' = OneBatch!Within /\ v2' = v2 /\ OneBatch!Within \subseteq Nat /\ IsFiniteSet(OneBatch!Within)
  BY SameSource, WithinIsFinite
<1>3. \A k \in OneBatch!Within : k < v7' <=> k < v7 \/ k = v7
  BY <1>1, <1>2
<1>4. IsFiniteSet(OneBatch!Behind) /\ v7 \notin OneBatch!Behind
  <2>1. OneBatch!Behind \in SUBSET OneBatch!Within
    BY DEF OneBatch!Behind
  <2>2. IsFiniteSet(OneBatch!Behind)
    BY <1>2, <2>1, FS_Subset
  <2>3. v7 \notin OneBatch!Behind
    BY <1>1 DEF OneBatch!Behind
  <2> QED BY <2>2, <2>3
<1>5. v8' = Cardinality(OneBatch!Behind')
  <2>1. CASE v2[v7] = "item"
    <3>1. OneBatch!Behind' = OneBatch!Behind \union {v7}
      BY <1>2, <1>3, <2>1 DEF OneBatch!Behind
    <3>2. Cardinality(OneBatch!Behind \union {v7}) = Cardinality(OneBatch!Behind) + 1
      BY <1>4, FS_AddElement
    <3> QED BY <1>1, <2>1, <3>1, <3>2
  <2>2. CASE v2[v7] # "item"
    <3>1. OneBatch!Behind' = OneBatch!Behind
      BY <1>2, <1>3, <2>2 DEF OneBatch!Behind
    <3> QED BY <1>1, <2>2, <3>1
  <2> QED BY <2>1, <2>2
<1>6. v7' \notin OneBatch!Within => \A k \in OneBatch!Within : k < v7'
  <2>1. PICK a \in Nat \ {0}, b \in Int : OneBatch!Within = a..b
    BY WithinIsInterval
  <2> QED BY <1>1, <2>1
<1>7. \A k \in OneBatch!Within : k < v7' => v2[k] # "broken"
  BY <1>1, <1>3
<1>8. v7' \in Nat
  BY <1>1
<1> QED BY <1>2, <1>5, <1>6, <1>7, <1>8, OneBatchCounts DEF OneBatch!RunsAreCounted

LEMMA RunItemKeepsOrder ==
  ASSUME RequestConstants, OneBatch!CreatedInOrder, OneBatch!RowAndManifest, OneBatch!RunsAreCounted, OneBatch!RunItem \/ OneBatch!SkipBlank
  PROVE  OneBatch!CreatedInOrder' /\ OneBatch!RowAndManifest' /\ OneBatch!RunsAreCounted'
<1>1. /\ UNCHANGED <<v1, v2, v3, v5, v4, v10, v11, v12>>
      /\ v3 = "running" /\ v7 \in OneBatch!Within /\ v7' = v7 + 1 /\ v2[v7] \in {"item", "blank"}
      /\ v8' = IF v2[v7] = "item" THEN v8 + 1 ELSE v8
      /\ v6' \in {v6, [v6 EXCEPT !.done = @ + 1, !.timed = TRUE]}
  BY DEF OneBatch!RunItem, OneBatch!SkipBlank, OneBatch!Position
<1>2. ~OneBatch!Refused /\ ~OneBatch!Refused' /\ OneBatch!Running /\ OneBatch!Running'
  BY <1>1 DEF OneBatch!Refused, OneBatch!Running
<1>3. v6 \in OneBatch!Rows
  BY <1>1, <1>2 DEF OneBatch!RowAndManifest
<1>4. v6' \in OneBatch!Rows /\ v6'.status = v6.status /\ v6'.total = v6.total
  <2>1. CASE v6' = v6
    BY <1>3, <2>1
  <2>2. CASE v6' = [v6 EXCEPT !.done = @ + 1, !.timed = TRUE]
    <3>1. v6.done + 1 \in Nat /\ v6.status \in {"pending", "running", "completed", "failed"}
          /\ v6.total \in Nat \union {None}
          /\ v6 = [status |-> v6.status, total |-> v6.total, done |-> v6.done, timed |-> v6.timed]
      BY <1>3 DEF OneBatch!Rows
    <3>2. v6' = [status |-> v6.status, total |-> v6.total, done |-> v6.done + 1, timed |-> TRUE]
      BY <2>2, <3>1
    <3> QED BY <3>1, <3>2 DEF OneBatch!Rows
  <2> QED BY <1>1, <2>1, <2>2
<1>5. OneBatch!RowAndManifest'
  BY <1>1, <1>2, <1>4 DEF OneBatch!RowAndManifest
<1>6. OneBatch!RunsAreCounted'
  BY <1>1, PassKeepsCount
<1> QED BY <1>1, <1>5, <1>6, SameCreation

LEMMA RunRaisesKeepsOrder ==
  ASSUME RequestConstants, OneBatch!CreatedInOrder, OneBatch!RowAndManifest, OneBatch!RunsAreCounted, OneBatch!RunRaises
  PROVE  OneBatch!CreatedInOrder' /\ OneBatch!RowAndManifest' /\ OneBatch!RunsAreCounted'
<1>1. /\ UNCHANGED <<v1, v2, v5, v4, v7, v8, v10, v11, v12>>
      /\ v3 = "running" /\ v3' = "over" /\ v6' = [v6 EXCEPT !.status = "failed"]
  BY DEF OneBatch!RunRaises
<1>2. ~OneBatch!Refused /\ ~OneBatch!Refused' /\ OneBatch!Running /\ ~OneBatch!Running'
  BY <1>1 DEF OneBatch!Refused, OneBatch!Running
<1>3. v6 \in OneBatch!Rows /\ (v10 # None => v11.number > 1) /\ v11.number \in Nat /\ v11.number > 0
  BY <1>1, <1>2 DEF OneBatch!RowAndManifest
<1>4. v6' \in OneBatch!Rows /\ v6'.status = "failed" /\ v6'.total = v6.total
  BY <1>1, <1>3 DEF OneBatch!Rows
<1>5. OneBatch!RowAndManifest'
  BY <1>1, <1>2, <1>3, <1>4 DEF OneBatch!RowAndManifest, RequestConstants
<1>6. OneBatch!Within' = OneBatch!Within /\ OneBatch!Behind' = OneBatch!Behind
  BY <1>1, SameBehind
<1>7. OneBatch!RunsAreCounted'
  BY <1>1, <1>3, <1>6, OneBatchCounts DEF OneBatch!RunsAreCounted
<1> QED BY <1>1, <1>5, <1>7, SameCreation

LEMMA WriteManifestKeepsOrder ==
  ASSUME RequestConstants, OneBatch!CreatedInOrder, OneBatch!RowAndManifest, OneBatch!RunsAreCounted, OneBatch!WriteManifest
  PROVE  OneBatch!CreatedInOrder' /\ OneBatch!RowAndManifest' /\ OneBatch!RunsAreCounted'
<1>1. /\ UNCHANGED <<v1, v2, v5, v4, v6, v7, v8, v11, v12>>
      /\ v3 = "running" /\ v3' = "written"
      /\ v10' \in {"completed", "stopped"}
      /\ v10' = "completed" => v7 \notin OneBatch!Within
  BY DEF OneBatch!WriteManifest
<1>2. ~OneBatch!Refused /\ ~OneBatch!Refused' /\ OneBatch!Running /\ OneBatch!Running'
  BY <1>1 DEF OneBatch!Refused, OneBatch!Running
<1>3. OneBatch!RowAndManifest'
  BY <1>1, <1>2 DEF OneBatch!RowAndManifest, OneBatch!Rows
<1>4. OneBatch!Within' = OneBatch!Within /\ OneBatch!Behind' = OneBatch!Behind
  BY <1>1, SameBehind
<1>5. OneBatch!RunsAreCounted'
  BY <1>1, <1>4, OneBatchCounts DEF OneBatch!RunsAreCounted
<1> QED BY <1>1, <1>3, <1>5, SameCreation

LEMMA RunEndsKeepsOrder ==
  ASSUME RequestConstants, OneBatch!CreatedInOrder, OneBatch!RowAndManifest, OneBatch!RunsAreCounted, OneBatch!RunEnds
  PROVE  OneBatch!CreatedInOrder' /\ OneBatch!RowAndManifest' /\ OneBatch!RunsAreCounted'
<1>1. /\ UNCHANGED <<v1, v2, v5, v4, v7, v8, v10, v11, v12>>
      /\ v3 = "written" /\ v3' = "over"
      /\ v6' = [v6 EXCEPT !.status = IF v10 = "stopped" THEN "failed" ELSE v10,
                            !.total = v8]
  BY DEF OneBatch!RunEnds
<1>2. ~OneBatch!Refused /\ ~OneBatch!Refused' /\ OneBatch!Running /\ ~OneBatch!Running'
  BY <1>1 DEF OneBatch!Refused, OneBatch!Running
<1>3. v6 \in OneBatch!Rows /\ v10 \in {"completed", "stopped"} /\ v11.number \in Nat /\ v11.number > 0
  BY <1>1, <1>2 DEF OneBatch!RowAndManifest
<1>4. v8 \in Nat
  <2>1. v8 = Cardinality(OneBatch!Behind) /\ OneBatch!Behind \in SUBSET OneBatch!Within
    BY <1>1, OneBatchCounts DEF OneBatch!RunsAreCounted, OneBatch!Behind
  <2>2. IsFiniteSet(OneBatch!Behind)
    BY <2>1, WithinIsFinite, FS_Subset
  <2> QED BY <2>1, <2>2, FS_CardinalityType
<1>5. /\ v6' \in OneBatch!Rows /\ v6'.total = v8'
      /\ v6'.status = IF v10 = "stopped" THEN "failed" ELSE "completed"
  BY <1>1, <1>3, <1>4 DEF OneBatch!Rows
<1>6. OneBatch!RowAndManifest'
  BY <1>1, <1>2, <1>3, <1>5 DEF OneBatch!RowAndManifest
<1>7. OneBatch!Within' = OneBatch!Within /\ OneBatch!Behind' = OneBatch!Behind
  BY <1>1, SameBehind
<1>8. OneBatch!RunsAreCounted'
  BY <1>1, <1>7, OneBatchCounts DEF OneBatch!RunsAreCounted
<1> QED BY <1>1, <1>6, <1>8, SameCreation

Replying == OneBatch!Status \/ OneBatch!Again \/ \E format \in {"manifest", "jsonl"} : OneBatch!Results(format)

LEMMA RepliesKeepOrder ==
  ASSUME RequestConstants, OneBatch!CreatedInOrder, OneBatch!RowAndManifest, OneBatch!RunsAreCounted, Replying
  PROVE  OneBatch!CreatedInOrder' /\ OneBatch!RowAndManifest' /\ OneBatch!RunsAreCounted'
<1>1. UNCHANGED <<v1, v2, v3, v4, v5, v6, v7, v8, v9, v10, v11>>
  BY DEF Replying, OneBatch!Status, OneBatch!Again, OneBatch!Results
<1>2. (OneBatch!Refused' <=> OneBatch!Refused) /\ (OneBatch!Running' <=> OneBatch!Running) /\ OneBatch!Within' = OneBatch!Within /\ OneBatch!Behind' = OneBatch!Behind
  BY <1>1, SameBehind DEF OneBatch!Refused, OneBatch!Running
<1>3. OneBatch!RunsAreCounted'
  BY <1>1, <1>2, OneBatchCounts DEF OneBatch!RunsAreCounted
<1>4. /\ OneBatch!Refused => v12' = None
      /\ v12' # None /\ v12'.kind = "status" /\ v12'.eta => v11.number > 1
      /\ v12' # None /\ v12'.kind = "manifest" /\ v12'.manifest # None =>
           \/ v12'.status \in {v12'.manifest, "running"}
           \/ v12'.status = "failed" /\ (v12'.manifest = "stopped" \/ v11.number > 1)
  <2>1. CASE OneBatch!Again
    BY <2>1 DEF OneBatch!Again
  <2>2. CASE OneBatch!Status
    <3>1. v12' = [kind |-> "status", status |-> v6.status, eta |-> OneBatch!Eta] /\ v6 # None
      BY <2>2 DEF OneBatch!Status
    <3>2. ~OneBatch!Refused
      BY <3>1 DEF OneBatch!RowAndManifest
    <3>3. OneBatch!Eta => v11.number > 1
      BY <3>2 DEF OneBatch!Eta, OneBatch!RowAndManifest
    <3> QED BY <3>1, <3>2, <3>3
  <2>3. CASE OneBatch!Results("manifest")
    <3>1. v12' = [kind |-> "manifest", status |-> v6.status, manifest |-> v10] /\ v6 # None
      BY <2>3 DEF OneBatch!Results
    <3>2. ~OneBatch!Refused
      BY <3>1 DEF OneBatch!RowAndManifest
    <3>3. v10 # None => \/ v6.status \in {v10, "running"}
                        \/ v6.status = "failed" /\ (v10 = "stopped" \/ v11.number > 1)
      BY <3>2 DEF OneBatch!RowAndManifest, OneBatch!Running
    <3> QED BY <3>1, <3>2, <3>3
  <2>4. CASE OneBatch!Results("jsonl")
    <3>1. v6 # None /\ v12' \in {[kind |-> "error"], [kind |-> "jsonl", rows |-> v9]}
      BY <2>4 DEF OneBatch!Results
    <3>2. ~OneBatch!Refused
      BY <3>1 DEF OneBatch!RowAndManifest
    <3> QED BY <3>1, <3>2
  <2> QED BY <2>1, <2>2, <2>3, <2>4 DEF Replying
<1>5. OneBatch!RowAndManifest'
  BY <1>1, <1>2, <1>4 DEF OneBatch!RowAndManifest
<1> QED BY <1>1, <1>3, <1>5, SameCreation

LEMMA RequestsNext ==
  ASSUME RequestConstants, OneBatch!CreatedInOrder, OneBatch!RowAndManifest, OneBatch!RunsAreCounted, [OneBatch!Next]_(OneBatch!vars)
  PROVE  OneBatch!CreatedInOrder' /\ OneBatch!RowAndManifest' /\ OneBatch!RunsAreCounted'
<1>1. CASE UNCHANGED OneBatch!vars
  <2>1. /\ UNCHANGED <<v1, v2, v3, v4, v5, v6, v7, v8, v10, v11, v12>>
        /\ OneBatch!Within' = OneBatch!Within /\ OneBatch!Behind' = OneBatch!Behind /\ (OneBatch!Refused' <=> OneBatch!Refused) /\ (OneBatch!Running' <=> OneBatch!Running)
    BY <1>1, SameBehind DEF OneBatch!vars, OneBatch!Refused, OneBatch!Running
  <2>2. OneBatch!RowAndManifest'
    BY <2>1 DEF OneBatch!RowAndManifest
  <2>3. OneBatch!RunsAreCounted'
    BY <2>1, OneBatchCounts DEF OneBatch!RunsAreCounted
  <2> QED BY <2>1, <2>2, <2>3, SameCreation
<1>2. CASE OneBatch!Next
  <2>1. \/ Creating \/ OneBatch!Insert \/ (\E resume \in BOOLEAN : OneBatch!Start(resume)) \/ OneBatch!RunItem \/ OneBatch!SkipBlank \/ OneBatch!RunRaises
        \/ OneBatch!WriteManifest \/ OneBatch!RunEnds \/ Replying
    BY <1>2 DEF OneBatch!Next, Creating, Replying
  <2> QED BY <2>1, CreatingKeepsOrder, InsertKeepsOrder, StartKeepsOrder, RunItemKeepsOrder,
             RunRaisesKeepsOrder, WriteManifestKeepsOrder, RunEndsKeepsOrder, RepliesKeepOrder
<1> QED BY <1>1, <1>2

\* A run that completes has passed all that was counted.
LEMMA RequestsImplies ==
  ASSUME RequestConstants, OneBatch!CreatedInOrder, OneBatch!RowAndManifest, OneBatch!RunsAreCounted
  PROVE  OneBatch!RequestsAgree
<1>1. v3 = "refused" => v6 = None /\ ("envelope" \in v4 => v1.policy # "valid")
  BY DEF OneBatch!RowAndManifest, OneBatch!CreatedInOrder, OneBatch!Refused
<1>2. ASSUME v6 # None, v6.status = "completed", v5 # None
      PROVE  \/ v6.total = v5
             \/ v1.type = "pdf_pages" /\ v6.total < v5 /\ "blank" \in OneBatch!Range(v2)
  <2>1. v3 = "over" /\ v10 = "completed" /\ v6.total = v8
    BY <1>2 DEF OneBatch!RowAndManifest, OneBatch!Running
  <2>2. /\ v5 = OneBatch!CountHint /\ v1.type # "tabular_rows" /\ v1.readable
        /\ v2 \in Seq({"item", "blank", "broken"})
    <3>1. v5 = OneBatch!CountHint /\ v2 \in Seq({"item", "blank", "broken"})
      BY <1>2 DEF OneBatch!CreatedInOrder
    <3>2. v1.type = "tabular_rows" \/ ~v1.readable => OneBatch!CountHint = None
      BY OneBatchCounts DEF OneBatch!CountHint
    <3> QED BY <1>2, <3>1, <3>2
  <2>3. OneBatch!Within \subseteq DOMAIN v2 /\ IsFiniteSet(OneBatch!Within)
    BY WithinIsFinite
  <2>4. \A k \in DOMAIN v2 : v2[k] \in {"item", "blank", "broken"}
    BY <2>2, ElementOfSeq, LenProperties
  <2>5. v8 = Cardinality({k \in OneBatch!Within : v2[k] = "item"})
    <3>0. v3 = "over" /\ v6.status = "completed"
      BY <1>2, <2>1
    <3>1. \A k \in OneBatch!Within : k < v7
      BY <3>0, OneBatchCounts DEF OneBatch!RunsAreCounted
    <3>2. OneBatch!Behind = {k \in OneBatch!Within : v2[k] = "item"}
      BY <3>1 DEF OneBatch!Behind
    <3> QED BY <3>0, <3>2, OneBatchCounts DEF OneBatch!RunsAreCounted
  <2>6. \A k \in OneBatch!Within : v2[k] # "broken"
    BY <1>2, <2>1, OneBatchCounts DEF OneBatch!RunsAreCounted
  <2>7. CASE v1.type = "jsonl"
    <3>1. OneBatch!Within = DOMAIN v2 /\ v5 = Cardinality({k \in DOMAIN v2 : v2[k] # "blank"})
      BY <2>2, <2>7, OneBatchCounts DEF OneBatch!Within, OneBatch!CountHint
    <3>2. {k \in DOMAIN v2 : v2[k] # "blank"} = {k \in OneBatch!Within : v2[k] = "item"}
      BY <2>4, <2>6, <3>1
    <3> QED BY <2>1, <2>5, <3>1, <3>2
  <2>8. CASE v1.type # "jsonl" /\ "blank" \notin OneBatch!Range(v2)
    <3>1. v5 = Cardinality(OneBatch!Within)
      BY <2>2, <2>8, OneBatchCounts DEF OneBatch!CountHint
    <3>2. {k \in OneBatch!Within : v2[k] = "item"} = OneBatch!Within
      BY <2>3, <2>4, <2>6, <2>8 DEF OneBatch!Range
    <3> QED BY <2>1, <2>5, <3>1, <3>2
  <2>9. CASE v1.type # "jsonl" /\ "blank" \in OneBatch!Range(v2)
    <3>1. v5 = Cardinality(OneBatch!Within) /\ v1.type = "pdf_pages"
      <4>1. v5 = Cardinality(OneBatch!Within)
        BY <2>2, <2>9, OneBatchCounts DEF OneBatch!CountHint
      <4>2. v1.type \in OneBatch!Types /\ v1.type # "list"
        BY <1>2, <2>9 DEF OneBatch!CreatedInOrder
      <4> QED BY <2>2, <2>9, <4>1, <4>2 DEF OneBatch!Types
    <3> DEFINE S == {k \in OneBatch!Within : v2[k] = "item"}
    <3>2. S \in SUBSET OneBatch!Within
      OBVIOUS
    <3>3. Cardinality(S) <= Cardinality(OneBatch!Within) /\ Cardinality(S) \in Nat /\ Cardinality(OneBatch!Within) \in Nat
      BY <2>3, <3>2, FS_Subset, FS_CardinalityType
    <3>4. "blank" \in OneBatch!Range(v2)
      BY <2>9
    <3> QED BY <2>1, <2>5, <3>1, <3>3, <3>4
  <2> QED BY <2>7, <2>8, <2>9
<1>3. /\ v12 # None /\ v12.kind = "status" /\ v12.eta => v11.number > 1
      /\ v12 # None /\ v12.kind = "manifest" /\ v12.manifest # None =>
           \/ v12.status \in {v12.manifest, "running"}
           \/ v12.status = "failed" /\ (v12.manifest = "stopped" \/ v11.number > 1)
  BY DEF OneBatch!RowAndManifest
<1> QED BY <1>1, <1>2, <1>3 DEF OneBatch!RequestsAgree

-----------------------------------------------------------------------------
(* The classifiers (Classifying):                                          *)
(* v1 at; v2 options; v3 members; v4 aggregator; v5 state; v6 results;     *)
(* v7 path; v8 result; Unknown is Failed; Threshold is NearThreshold;      *)
(* Labels is DeclaredLabels; Corpus is LabelledTexts.                      *)

LEMMA LabelsAreFinite ==
  ASSUME ClassConstants PROVE IsFiniteSet(DeclaredLabels) /\ DeclaredLabels \subseteq Nat
<1>1. Cardinality(DeclaredLabels) \in Nat /\ DeclaredLabels = 1..Cardinality(DeclaredLabels)
  BY FS_CardinalityType DEF ClassConstants
<1> QED BY <1>1 DEF ClassConstants

LEMMA LeastLabel == ASSUME ClassConstants PROVE Classify!Min(DeclaredLabels) \in DeclaredLabels
<1>1. Cardinality(DeclaredLabels) \in Nat /\ DeclaredLabels = 1..Cardinality(DeclaredLabels) /\ DeclaredLabels # {}
  BY FS_CardinalityType DEF ClassConstants
<1>2. 1 \in DeclaredLabels /\ \A l \in DeclaredLabels : 1 <= l
  BY <1>1
<1> QED BY <1>2 DEF Classify!Min

\* The lists of labels that a classification may have.
Fits(list) ==
  /\ list \in Seq(DeclaredLabels)
  /\ \A i, j \in DOMAIN list : i < j => list[i] < list[j]

LEMMA OrderedFits ==
  ASSUME ClassConstants, NEW names, names \subseteq DeclaredLabels, NEW list \in Classify!Ordered(names)
  PROVE  Fits(list) /\ Classify!Range(list) = names /\ (list = <<>> <=> names = {})
<1>1. IsFiniteSet(names) /\ Cardinality(names) \in Nat
  BY LabelsAreFinite, FS_Subset, FS_CardinalityType
<1>2. /\ list \in [1..Cardinality(names) -> names] /\ Classify!Range(list) = names
      /\ \A i, j \in DOMAIN list : i < j => list[i] < list[j]
  BY ClassifyCounts DEF Classify!Ordered, Classify!Listings
<1>3. list \in Seq(names)
  BY <1>1, <1>2, SeqDef
<1>4. list \in Seq(DeclaredLabels)
  BY <1>3, SeqMonotonic
<1>5. list = <<>> <=> names = {}
  <2>1. list = <<>> => names = {}
    BY <1>2 DEF Classify!Range
  <2>2. names = {} => DOMAIN list = {}
    BY <1>2 DEF Classify!Range
  <2>3. Len(list) \in Nat /\ DOMAIN list = 1..Len(list)
    BY <1>4, LenProperties
  <2>4. DOMAIN list = {} => Len(list) = 0
    BY <2>3
  <2>5. Len(list) = 0 => list = <<>>
    BY <1>4, EmptySeq
  <2> QED BY <2>1, <2>2, <2>4, <2>5
<1> QED BY <1>2, <1>4, <1>5 DEF Fits

LEMMA FewFit ==
  /\ Fits(<<>>) /\ Len(<<>>) = 0 /\ Classify!Range(<<>>) = {}
  /\ \A l \in DeclaredLabels : Fits(<<l>>) /\ Len(<<l>>) = 1 /\ Classify!Range(<<l>>) = {l} /\ <<l>> # <<>>
<1>1. Fits(<<>>) /\ Len(<<>>) = 0 /\ Classify!Range(<<>>) = {}
  BY EmptySeq DEF Fits, Classify!Range
<1>2. \A l \in DeclaredLabels : <<l>> \in Seq(DeclaredLabels) /\ Len(<<l>>) = 1 /\ DOMAIN <<l>> = {1} /\ <<l>> # <<>>
  OBVIOUS
<1>3. \A l \in DeclaredLabels : Classify!Range(<<l>>) = {l}
  BY <1>2 DEF Classify!Range
<1> QED BY <1>1, <1>2, <1>3 DEF Fits

\* One label is a sound classification of every kind, none is where it may be.
LEMMA OneIsSound ==
  ASSUME NEW kind, NEW scores, NEW l \in DeclaredLabels PROVE Classify!Sound(kind, Classify!Pick(<<l>>, scores))
<1> DEFINE c == Classify!Pick(<<l>>, scores)
<1>1. c.labels = <<l>> /\ (c.abstained <=> <<l>> = <<>>)
  BY DEF Classify!Pick
<1>2. Fits(<<l>>) /\ Len(<<l>>) = 1 /\ <<l>> # <<>>
  BY FewFit
<1> HIDE DEF c
<1>3. c.labels = <<l>> /\ ~c.abstained
  BY <1>1, <1>2
<1>4. Fits(c.labels) /\ Len(c.labels) <= 1 /\ c.labels # <<>>
  BY <1>2, <1>3
<1>5. Classify!Sound(kind, c)
  BY <1>3, <1>4 DEF Classify!Sound, Fits
<1> QED BY <1>5 DEF c

LEMMA NoneIsSound ==
  ASSUME NEW kind, NEW scores, v2.allow_abstain \/ ~Classify!Measures(kind)
  PROVE  Classify!Sound(kind, Classify!Pick(<<>>, scores)) /\ Classify!Sound(kind, Classify!Nothing)
<1>1. \A c : c.labels = <<>> /\ c.abstained = TRUE => Classify!Sound(kind, c)
  BY FewFit DEF Classify!Sound, Fits
<1>2. Classify!Pick(<<>>, scores).labels = <<>> /\ Classify!Pick(<<>>, scores).abstained = TRUE
  BY DEF Classify!Pick
<1>3. Classify!Nothing.labels = <<>> /\ Classify!Nothing.abstained = TRUE
  BY DEF Classify!Nothing
<1> QED BY <1>1, <1>2, <1>3

LEMMA ManyAreSound ==
  ASSUME ClassConstants, NEW kind, NEW scores, NEW names, names \subseteq DeclaredLabels, ~v2.exclusive,
         names # {} \/ ~Classify!Measures(kind), NEW list \in Classify!Ordered(names)
  PROVE  Classify!Sound(kind, Classify!Pick(list, scores))
<1> DEFINE c == Classify!Pick(list, scores)
<1>1. c.labels = list /\ (c.abstained <=> list = <<>>)
  BY DEF Classify!Pick
<1> HIDE DEF c
<1>2. Fits(list) /\ (list = <<>> <=> names = {})
  BY OrderedFits
<1>3. c.abstained <=> c.labels = <<>>
  BY <1>1
<1>4. c.abstained => names = {}
  BY <1>1, <1>2
<1>5. Fits(c.labels)
  BY <1>1, <1>2
<1>6. Classify!Sound(kind, c)
  BY <1>3, <1>4, <1>5 DEF Classify!Sound, Fits
<1> QED BY <1>6 DEF c

LEMMA EntailedSound ==
  ASSUME NEW kind, NEW scores, NEW c \in Classify!Entailed(scores) PROVE Classify!Sound(kind, c)
<1>1. PICK l \in Classify!Tops(scores) :
        c = IF Classify!TooLow(scores[l]) THEN Classify!Pick(<<>>, scores) ELSE Classify!Pick(<<l>>, scores)
  BY DEF Classify!Entailed
<1>2. l \in DeclaredLabels
  BY DEF Classify!Tops
<1>3. Classify!TooLow(scores[l]) => v2.allow_abstain
  BY DEF Classify!TooLow
<1> QED BY <1>1, <1>2, <1>3, OneIsSound, NoneIsSound

LEMMA NearSound ==
  ASSUME ClassConstants, NEW scores, NEW c \in Classify!Near(scores) PROVE Classify!Sound("prototype", c)
<1> DEFINE above == {l \in DeclaredLabels : scores[l] >= NearThreshold}
<1>1. CASE v2.exclusive
  BY <1>1, EntailedSound DEF Classify!Near
<1>2. CASE ~v2.exclusive /\ above # {}
  <2>1. PICK list \in Classify!Ordered(above) : c = Classify!Pick(list, scores)
    BY <1>2 DEF Classify!Near
  <2>2. above \subseteq DeclaredLabels
    OBVIOUS
  <2> HIDE DEF above
  <2> QED BY <1>2, <2>1, <2>2, ManyAreSound
<1>3. CASE ~v2.exclusive /\ above = {} /\ v2.allow_abstain
  <2>1. c = Classify!Pick(<<>>, scores)
    BY <1>3 DEF Classify!Near
  <2> QED BY <1>3, <2>1, NoneIsSound
<1>4. CASE ~v2.exclusive /\ above = {} /\ ~v2.allow_abstain
  <2>1. PICK l \in Classify!Tops(scores) : c = Classify!Pick(<<l>>, scores)
    BY <1>4 DEF Classify!Near
  <2>2. l \in DeclaredLabels
    BY DEF Classify!Tops
  <2> QED BY <2>1, <2>2, OneIsSound
<1> QED BY <1>1, <1>2, <1>3, <1>4

LEMMA OnNoTextSound ==
  ASSUME ClassConstants, NEW kind, NEW c \in Classify!OnNoText PROVE Classify!Sound(kind, c)
<1>1. CASE v2.allow_abstain
  BY <1>1, NoneIsSound DEF Classify!OnNoText
<1>2. CASE ~v2.allow_abstain
  BY <1>2, LeastLabel, OneIsSound DEF Classify!OnNoText
<1> QED BY <1>1, <1>2

\* Each classifier keeps its promises about every text.
LEMMA ClassificationsSound ==
  ASSUME ClassConstants, NEW kind \in Classify!Kinds, Classify!Takes(kind, v2.exclusive),
         NEW c \in Classify!Classifications(kind)
  PROVE  Classify!Sound(kind, c)
<1>1. CASE kind = "nli"
  <2>1. c \in Classify!OnNoText \/ \E s : c \in Classify!Entailed(s)
    BY <1>1 DEF Classify!Classifications
  <2> QED BY <2>1, OnNoTextSound, EntailedSound
<1>2. CASE kind = "prototype"
  <2>1. c \in Classify!OnNoText \/ \E s : c \in Classify!Near(s)
    BY <1>2 DEF Classify!Classifications
  <2> QED BY <1>2, <2>1, OnNoTextSound, NearSound
<1>3. CASE kind = "retrieval"
  <2>1. c \in {Classify!Nothing} \/ c \in Classify!OnNoText \/ \E w : c \in Classify!ByNeighbours(w)
    BY <1>3 DEF Classify!Classifications
  <2>2. ASSUME NEW w, c \in Classify!ByNeighbours(w) PROVE Classify!Sound(kind, c)
    <3>1. PICK l \in DeclaredLabels : c = Classify!Pick(<<l>>, w)
      BY <2>2 DEF Classify!ByNeighbours
    <3> QED BY <3>1, OneIsSound
  <2>3. ~Classify!Measures(kind)
    BY <1>3 DEF Classify!Measures
  <2> QED BY <2>1, <2>2, <2>3, OnNoTextSound, NoneIsSound
<1>4. CASE kind = "zero_shot"
  <2>1. PICK l : /\ c = Classify!Named(l)
                 /\ l \in DeclaredLabels \/ v2.allow_abstain
    BY <1>4 DEF Classify!Classifications
  <2> QED BY <2>1, OneIsSound, NoneIsSound DEF Classify!Named
<1>5. CASE kind = "multi_label"
  <2>1. PICK list \in Picks : c \in Classify!Listed(list)
    BY <1>5 DEF Classify!Classifications
  <2> DEFINE names == Classify!Range(list) \intersect DeclaredLabels
  <2>2. PICK listed \in Classify!Ordered(names) : c = Classify!Pick(listed, [l \in names |-> 1])
    BY <2>1 DEF Classify!Listed
  <2>3. ~Classify!Measures(kind) /\ ~v2.exclusive
    BY <1>5 DEF Classify!Measures, Classify!Takes
  <2>4. names \subseteq DeclaredLabels
    OBVIOUS
  <2> HIDE DEF names
  <2> QED BY <2>2, <2>3, <2>4, ManyAreSound
<1> QED BY <1>1, <1>2, <1>3, <1>4, <1>5 DEF Classify!Kinds

LEMMA MembersInit == ASSUME ClassConstants, Classify!Init PROVE Classify!MembersAreSound
<1>1. /\ \/ v1 = "walking" /\ v3 = <<>>
         \/ v1 = "running" /\ v3 \in Members /\ v4 \in Aggregators
      /\ v5 = [i \in DOMAIN v3 |-> "waiting"] /\ v6 = [i \in DOMAIN v3 |-> Classify!Nothing]
      /\ v7 = <<>> /\ \A i \in DOMAIN v3 : Classify!Takes(v3[i], v2.exclusive)
  BY DEF Classify!Init
<1>2. v3 \in Seq(Classify!Kinds) /\ v7 \in Seq(DeclaredLabels) /\ (v1 = "running" => v3 # <<>>)
  BY <1>1, EmptySeq DEF ClassConstants
<1>3. Classify!LabelsAreDeclared /\ Classify!PathsDescend
  BY <1>1 DEF Classify!LabelsAreDeclared, Classify!PathsDescend
<1> QED BY <1>1, <1>2, <1>3 DEF Classify!MembersAreSound

LEMMA MemberKeepsSound ==
  ASSUME ClassConstants, Classify!MembersAreSound, NEW i \in DOMAIN v5,
         Classify!Start(i) \/ Classify!Classified(i) \/ Classify!MemberRaises(i)
  PROVE  Classify!MembersAreSound'
<1>1. /\ UNCHANGED <<v2, v3, v4, v7, v8>>
      /\ v1 = "running" /\ v1' \in {"running", "raised"} /\ i \in DOMAIN v3
      /\ v3 # <<>> /\ v4 \in Aggregators /\ v7 = <<>>
  BY DEF Classify!Start, Classify!Classified, Classify!MemberRaises, Classify!choices,
     Classify!MembersAreSound
<1>2. \A kind, c : Classify!Sound(kind, c)' = Classify!Sound(kind, c) /\ Classify!Takes(kind, v2.exclusive)' = Classify!Takes(kind, v2.exclusive)
  BY <1>1 DEF Classify!Sound, Classify!Takes
<1>3. /\ DOMAIN v5' = DOMAIN v3 /\ DOMAIN v6' = DOMAIN v3
      /\ \A j \in DOMAIN v3 : v5'[j] = "done" => Classify!Sound(v3[j], v6'[j])
  <2>1. CASE Classify!Start(i) \/ Classify!MemberRaises(i)
    <3>1. v6' = v6 /\ \E s \in {"running", "raised"} : v5' = [v5 EXCEPT ![i] = s]
      BY <2>1 DEF Classify!Start, Classify!MemberRaises
    <3> QED BY <3>1 DEF Classify!MembersAreSound
  <2>2. CASE Classify!Classified(i)
    <3>1. PICK c \in Classify!Classifications(v3[i]) : v6' = [v6 EXCEPT ![i] = c]
      BY <2>2 DEF Classify!Classified
    <3>2. v5' = [v5 EXCEPT ![i] = "done"]
      BY <2>2 DEF Classify!Classified
    <3>3. v3[i] \in Classify!Kinds /\ Classify!Takes(v3[i], v2.exclusive)
      BY <1>1, ElementOfSeq, LenProperties DEF Classify!MembersAreSound
    <3>4. Classify!Sound(v3[i], c)
      BY <3>1, <3>3, ClassificationsSound
    <3> QED BY <3>1, <3>2, <3>4 DEF Classify!MembersAreSound
  <2> QED BY <2>1, <2>2
<1>4. Classify!LabelsAreDeclared' /\ Classify!PathsDescend'
  BY <1>1 DEF Classify!LabelsAreDeclared, Classify!PathsDescend
<1> QED BY <1>1, <1>2, <1>3, <1>4 DEF Classify!MembersAreSound

\* What several members come to is of the labels that they gave.
LEMMA CombinedDeclares ==
  ASSUME ClassConstants, v4 \in Aggregators, NEW c \in Classify!Combined
  PROVE  /\ Fits(c.labels) /\ (c.abstained <=> c.labels = <<>>)
         /\ Classify!OneWinner => Len(c.labels) <= 1
         /\ v4 # "max_score" => Classify!Range(c.labels) \subseteq Classify!Given
<1>1. \A list, scores : Classify!Pick(list, scores).labels = list /\ (Classify!Pick(list, scores).abstained <=> list = <<>>)
  BY DEF Classify!Pick
<1>2. CASE Classify!OneWinner
  <2>1. PICK w \in Classify!Winners : c = Classify!Exclusive(w)
    BY <1>2 DEF Classify!Combined
  <2>2. CASE w \notin DeclaredLabels
    <3>1. c.labels = <<>> /\ c.abstained
      BY <1>1, <2>1, <2>2 DEF Classify!Exclusive
    <3> QED BY <3>1, FewFit
  <2>3. CASE w \in DeclaredLabels
    <3>1. c.labels = <<w>> /\ (c.abstained <=> c.labels = <<>>)
      BY <1>1, <2>1, <2>3 DEF Classify!Exclusive
    <3>2. Fits(<<w>>) /\ Len(<<w>>) = 1 /\ Classify!Range(<<w>>) = {w}
      BY <2>3, FewFit
    <3>3. v4 # "max_score" => w \in Classify!Given
      <4>1. w # None
        BY <2>3 DEF ClassConstants
      <4>2. CASE v4 = "vote"
        BY <2>1, <4>1, <4>2 DEF Classify!Winners
      <4>3. CASE v4 = "majority"
        BY <2>1, <4>1, <4>3 DEF Classify!Winners
      <4> QED BY <1>2, <4>2, <4>3 DEF Classify!OneWinner
    <3> QED BY <3>1, <3>2, <3>3
  <2> QED BY <2>2, <2>3
<1>3. CASE ~Classify!OneWinner
  <2> DEFINE names == Classify!Unions \intersect DeclaredLabels
  <2>1. PICK list \in Classify!Ordered(names) : c = Classify!Pick(list, Classify!Scored)
    BY <1>3 DEF Classify!Combined, Classify!Multi
  <2>2. names \subseteq DeclaredLabels
    OBVIOUS
  <2>3. v4 # "max_score" => names \subseteq Classify!Given
    <3>1. v4 # "max_score" => v4 \in {"union", "intersection"}
      BY <1>3 DEF Classify!OneWinner, ClassConstants
    <3>2. v4 = "union" => Classify!Unions = Classify!Given
      BY DEF Classify!Unions
    <3>3. v4 = "intersection" => Classify!Unions \subseteq Classify!Given
      BY DEF Classify!Unions
    <3> QED BY <3>1, <3>2, <3>3
  <2> HIDE DEF names
  <2>4. Fits(list) /\ Classify!Range(list) = names
    BY <2>1, <2>2, OrderedFits
  <2>5. c.labels = list /\ (c.abstained <=> c.labels = <<>>)
    BY <1>1, <2>1
  <2> QED BY <1>3, <2>3, <2>4, <2>5
<1> QED BY <1>2, <1>3

LEMMA CombineKeepsSound ==
  ASSUME ClassConstants, Classify!MembersAreSound, Classify!Combine
  PROVE  Classify!MembersAreSound'
<1>1. /\ UNCHANGED <<v2, v3, v4, v5, v6, v7>>
      /\ v1 = "running" /\ v1' = "returned" /\ v3 # <<>> /\ v4 \in Aggregators
      /\ v7 = <<>> /\ \A i \in DOMAIN v5 : v5[i] = "done"
  BY DEF Classify!Combine, Classify!choices, Classify!MembersAreSound
<1>2. \A kind, c : Classify!Sound(kind, c)' = Classify!Sound(kind, c) /\ Classify!Takes(kind, v2.exclusive)' = Classify!Takes(kind, v2.exclusive)
  BY <1>1 DEF Classify!Sound, Classify!Takes
<1>3. Classify!Given' = Classify!Given /\ (Classify!OneWinner' <=> Classify!OneWinner)
  BY <1>1, ClassifyCounts DEF Classify!Given, Classify!Votes, Classify!OneWinner
<1>4. Len(v3) \in Nat \ {0} /\ DOMAIN v3 = 1..Len(v3)
  BY <1>1, EmptySeq, LenProperties DEF Classify!MembersAreSound
<1>5. CASE Len(v3) = 1
  <2>1. v8' = v6[1] /\ DOMAIN v5 = {1} /\ DOMAIN v6 = {1}
    BY <1>4, <1>5 DEF Classify!Combine, Classify!MembersAreSound
  <2>2. Classify!Sound(v3[1], v8')
    BY <1>1, <1>4, <1>5, <2>1 DEF Classify!MembersAreSound
  <2>3. Classify!Range(v8'.labels) \subseteq Classify!Given
    <3> SUFFICES ASSUME NEW l \in Classify!Range(v8'.labels) PROVE l \in Classify!Given
      OBVIOUS
    <3>1. l \in DeclaredLabels
      <4>1. PICK k \in DOMAIN v8'.labels : l = v8'.labels[k]
        BY DEF Classify!Range
      <4>2. v8'.labels \in Seq(DeclaredLabels)
        BY <2>2 DEF Classify!Sound
      <4> QED BY <4>1, <4>2, ElementOfSeq, LenProperties
    <3>2. {i \in DOMAIN v6 : l \in Classify!Range(v6[i].labels)} = {1}
      BY <2>1
    <3>3. Classify!Votes(l) = 1
      BY <3>2, FS_Singleton, ClassifyCounts DEF Classify!Votes
    <3> QED BY <3>1, <3>3 DEF Classify!Given
  <2>4. Classify!LabelsAreDeclared'
    BY <1>1, <1>3, <2>2, <2>3 DEF Classify!LabelsAreDeclared, Classify!Sound
  <2>5. Classify!PathsDescend'
    <3>1. ~v2.allow_abstain /\ v3[1] \in {"nli", "prototype", "zero_shot"} => ~v8'.abstained
      BY <2>2 DEF Classify!Sound, Classify!Measures
    <3> QED BY <1>1, <3>1 DEF Classify!PathsDescend
  <2> QED BY <1>1, <1>2, <2>4, <2>5 DEF Classify!MembersAreSound
<1>6. CASE Len(v3) # 1
  <2>1. v8' \in Classify!Combined
    BY <1>6 DEF Classify!Combine
  <2>2. /\ Fits(v8'.labels) /\ (v8'.abstained <=> v8'.labels = <<>>)
        /\ Classify!OneWinner => Len(v8'.labels) <= 1
        /\ v4 # "max_score" => Classify!Range(v8'.labels) \subseteq Classify!Given
    BY <1>1, <2>1, CombinedDeclares
  <2>3. ~(Len(v3) < 2)
    BY <1>4, <1>6
  <2>4. Classify!LabelsAreDeclared'
    BY <1>1, <1>3, <2>2, <2>3 DEF Classify!LabelsAreDeclared, Fits
  <2>5. Classify!PathsDescend'
    BY <1>1, <1>6 DEF Classify!PathsDescend
  <2> QED BY <1>1, <1>2, <2>4, <2>5 DEF Classify!MembersAreSound
<1> QED BY <1>5, <1>6

LEMMA DescendKeepsSound ==
  ASSUME ClassConstants, Classify!MembersAreSound, NEW l \in DeclaredLabels, Classify!Descend(l)
  PROVE  Classify!MembersAreSound'
<1>1. /\ UNCHANGED <<v2, v3, v4, v5, v6, v8>>
      /\ v1 = "walking" /\ v1' = "walking" /\ v3 = <<>>
      /\ l \in Classify!Level /\ v7' = Append(v7, l) /\ v7 \in Seq(DeclaredLabels)
  BY DEF Classify!Descend, Classify!choices, Classify!MembersAreSound
<1>2. \A kind, c : Classify!Sound(kind, c)' = Classify!Sound(kind, c) /\ Classify!Takes(kind, v2.exclusive)' = Classify!Takes(kind, v2.exclusive)
  BY <1>1 DEF Classify!Sound, Classify!Takes
<1>3. /\ Len(v7) \in Nat /\ DOMAIN v7 = 1..Len(v7) /\ v7' \in Seq(DeclaredLabels)
      /\ DOMAIN v7' = 1..(Len(v7) + 1)
      /\ \A k \in 1..Len(v7) : v7'[k] = v7[k]
      /\ v7'[Len(v7) + 1] = l
  BY <1>1, AppendProperties, LenProperties
<1>4. Parent[l] = IF v7 = <<>> THEN None ELSE v7[Len(v7)]
  BY <1>1 DEF Classify!Level, Classify!Children, Classify!Under
<1>5. ASSUME NEW k \in DOMAIN v7' PROVE Parent[v7'[k]] = IF k = 1 THEN None ELSE v7'[k - 1]
  <2>1. CASE k \in DOMAIN v7
    <3>1. Parent[v7[k]] = IF k = 1 THEN None ELSE v7[k - 1]
      BY <2>1 DEF Classify!MembersAreSound, Classify!PathsDescend
    <3>2. v7'[k] = v7[k] /\ (k # 1 => v7'[k - 1] = v7[k - 1])
      BY <1>3, <2>1
    <3> QED BY <3>1, <3>2
  <2>2. CASE k = Len(v7) + 1
    <3>1. v7 = <<>> <=> k = 1
      <4>1. v7 = <<>> => Len(v7) = 0
        BY EmptySeq
      <4>2. Len(v7) = 0 => v7 = <<>>
        BY <1>1, EmptySeq
      <4> QED BY <1>3, <2>2, <4>1, <4>2
    <3>2. k # 1 => v7'[k - 1] = v7[Len(v7)]
      BY <1>3, <2>2
    <3> QED BY <1>3, <1>4, <2>2, <3>1, <3>2
  <2> QED BY <1>3, <2>1, <2>2
<1>6. Classify!LabelsAreDeclared'
  BY <1>1 DEF Classify!LabelsAreDeclared
<1>7. Classify!PathsDescend'
  BY <1>1, <1>5 DEF Classify!PathsDescend
<1> QED BY <1>1, <1>2, <1>3, <1>6, <1>7 DEF Classify!MembersAreSound

LEMMA WalkedKeepsSound ==
  ASSUME ClassConstants, Classify!MembersAreSound, Classify!Walked
  PROVE  Classify!MembersAreSound'
<1>1. /\ UNCHANGED <<v2, v3, v4, v5, v6, v7>>
      /\ v1 = "walking" /\ v1' = "returned" /\ v3 = <<>> /\ v7 \in Seq(DeclaredLabels)
      /\ DOMAIN v5 = {}
  BY DEF Classify!Walked, Classify!choices, Classify!MembersAreSound
<1>2. \A kind, c : Classify!Sound(kind, c)' = Classify!Sound(kind, c) /\ Classify!Takes(kind, v2.exclusive)' = Classify!Takes(kind, v2.exclusive)
  BY <1>1 DEF Classify!Sound, Classify!Takes
<1>3. Fits(v8'.labels) /\ (v8'.abstained <=> v8'.labels = <<>>) /\ Len(v8'.labels) <= 1
  <2>1. CASE v7 = <<>>
    <3>1. v8'.labels = <<>> /\ v8'.abstained
      BY <2>1 DEF Classify!Walked, Classify!Nothing
    <3> QED BY <3>1, FewFit
  <2>2. CASE v7 # <<>>
    <3>1. v7[Len(v7)] \in DeclaredLabels
      <4>1. Len(v7) \in 1..Len(v7)
        BY <1>1, <2>2, EmptySeq
      <4> QED BY <1>1, <4>1, ElementOfSeq
    <3>2. v8'.labels = <<v7[Len(v7)]>> /\ (v8'.abstained <=> v8'.labels = <<>>)
      BY <2>2 DEF Classify!Walked, Classify!Pick
    <3>3. Fits(<<v7[Len(v7)]>>) /\ Len(<<v7[Len(v7)]>>) = 1
      BY <3>1, FewFit
    <3> QED BY <3>2, <3>3
  <2> QED BY <2>1, <2>2
<1>4. Classify!LabelsAreDeclared'
  BY <1>1, <1>3 DEF Classify!LabelsAreDeclared, Fits
<1>5. Classify!PathsDescend'
  <2>1. v7 # <<>> /\ ~v2.allow_abstain => Len(v7) = MaxDepth \/ Classify!Children(v7[Len(v7)]) = {}
    BY DEF Classify!Walked, Classify!Level, Classify!Under
  <2>2. \A k \in DOMAIN v7 : Parent[v7[k]] = IF k = 1 THEN None ELSE v7[k - 1]
    BY DEF Classify!MembersAreSound, Classify!PathsDescend
  <2>3. Len(v3) # 1
    BY <1>1, EmptySeq
  <2>4. \A l : Classify!Children(l)' = Classify!Children(l)
    BY DEF Classify!Children
  <2> QED BY <1>1, <2>1, <2>2, <2>3, <2>4 DEF Classify!PathsDescend
<1> QED BY <1>1, <1>2, <1>4, <1>5 DEF Classify!MembersAreSound

LEMMA MembersNext == ASSUME ClassConstants, Classify!MembersAreSound, [Classify!Next]_(Classify!vars) PROVE Classify!MembersAreSound'
<1>1. CASE UNCHANGED Classify!vars
  <2>1. UNCHANGED <<v1, v2, v3, v4, v5, v6, v7, v8>>
    BY <1>1 DEF Classify!vars, Classify!choices
  <2>2. \A kind, c : Classify!Sound(kind, c)' = Classify!Sound(kind, c) /\ Classify!Takes(kind, v2.exclusive)' = Classify!Takes(kind, v2.exclusive)
    BY <2>1 DEF Classify!Sound, Classify!Takes
  <2>3. Classify!LabelsAreDeclared' /\ Classify!PathsDescend'
    BY <2>1, ClassifyCounts DEF Classify!MembersAreSound, Classify!LabelsAreDeclared,
       Classify!PathsDescend, Classify!OneWinner, Classify!Given, Classify!Votes,
       Classify!Children
  <2> QED BY <2>1, <2>2, <2>3 DEF Classify!MembersAreSound
<1> QED BY <1>1, MemberKeepsSound, CombineKeepsSound, DescendKeepsSound, WalkedKeepsSound
           DEF Classify!Next

LEMMA MembersImply == ASSUME Classify!MembersAreSound PROVE Classify!LabelsAreDeclared /\ Classify!PathsDescend
BY DEF Classify!MembersAreSound

-----------------------------------------------------------------------------
(* The one-line functions (Starter):                                       *)
(* v1 at; v2 request; v3 route; v4 paid; v5 result;                        *)
(* Labels is QuestionLabels; Folded is LetterFolding;                      *)
(* Answers is QuestionAnswers.                                             *)

\* What a request is made of.
LEMMA RequestHas ==
  ASSUME v2 \in Start!Requests
  PROVE  /\ v2.function \in Start!Facade
         /\ v2.size \in {"short", "long"}
         /\ v2.strategy \in Start!Strategies(v2.function)
         /\ v2.given \subseteq Start!Arguments(v2.function)
         /\ v2.function = "classify_doc" => v2.supervision \in Start!Supervisions
<1>1. PICK f \in Start!Facade :
        v2 \in [function : {f}, size : {"short", "long"}, strategy : Start!Strategies(f),
                     given : SUBSET Start!Arguments(f),
                     supervision : IF f = "classify_doc" THEN Start!Supervisions ELSE {None},
                     default_model : BOOLEAN, caller : {"async", "sync", "sync_in_loop"}]
  BY DEF Start!Requests
<1>2. v2.function = f
  BY <1>1
<1> QED BY <1>1, <1>2

\* What a route promises: a budget goes on where a model is asked several times,
\* and a long text is answered at once only if that was asked for.
Promises(r) ==
  /\ r \in Start!Routes
  /\ r.several /\ Start!Given("budget") => "budget" \in r.arguments
  /\ v2.size = "long" /\ ~r.several => v2.strategy = "single" \/ Start!Given("query")

LEMMA RouteIs ==
  ASSUME v2 \in Start!Requests, NEW p \in Start!RoutedPrograms, NEW several \in BOOLEAN, NEW a
  PROVE  /\ Start!Route(p, several, a) \in Start!Routes
         /\ Start!Route(p, several, a).several = several
         /\ Start!Route(p, several, a).arguments = a \intersect v2.given
<1>1. v2.given \subseteq UNION {Start!Arguments(f) : f \in Start!Facade}
  BY RequestHas
<1>2. a \intersect v2.given \in SUBSET UNION {Start!Arguments(f) : f \in Start!Facade}
  BY <1>1
<1> QED BY <1>2 DEF Start!Route, Start!Routes

LEMMA SummaryPromises ==
  ASSUME v2 \in Start!Requests, v2.function = "summarize_doc" PROVE Promises(Start!SummaryRoute)
<1>1. v2.strategy \in {"auto", "single", "tree", "refine"} /\ v2.size \in {"short", "long"}
  BY RequestHas DEF Start!Strategies
<1>2. CASE Start!Given("query")
  <2>1. "query_focused" \in Start!RoutedPrograms
    BY DEF Start!RoutedPrograms
  <2> QED BY <1>2, <2>1, RouteIs DEF Start!SummaryRoute, Promises
<1>3. CASE ~Start!Given("query") /\ Start!LongSummary = "single"
  <2>1. "cited" \in Start!RoutedPrograms /\ "abstractive" \in Start!RoutedPrograms
    BY DEF Start!RoutedPrograms
  <2>2. v2.strategy = "single" \/ v2.size = "short"
    BY <1>1, <1>3 DEF Start!LongSummary
  <2> QED BY <1>3, <2>1, <2>2, RouteIs DEF Start!SummaryRoute, Promises
<1>4. CASE ~Start!Given("query") /\ Start!LongSummary # "single"
  <2>1. Start!LongSummary \in Start!RoutedPrograms
    BY <1>1 DEF Start!LongSummary, Start!RoutedPrograms, Start!Strategies
  <2>2. Start!SummaryRoute = Start!Route(Start!LongSummary, TRUE, {"budget"})
    BY <1>4 DEF Start!SummaryRoute
  <2>3. /\ Start!SummaryRoute \in Start!Routes /\ Start!SummaryRoute.several = TRUE
        /\ Start!SummaryRoute.arguments = {"budget"} \intersect v2.given
    BY <2>1, <2>2, RouteIs
  <2> QED BY <2>3 DEF Promises, Start!Given
<1> QED BY <1>2, <1>3, <1>4

LEMMA ClassifyPromises ==
  ASSUME v2 \in Start!Requests, v2.function = "classify_doc" PROVE Promises(Start!ClassifyRoute)
<1>1. v2.strategy \in {"auto", "single", "chunk"} /\ v2.size \in {"short", "long"}
      /\ v2.supervision \in Start!RoutedPrograms
  BY RequestHas DEF Start!Strategies, Start!RoutedPrograms
<1>2. CASE Start!LongClassify = "single"
  <2>1. v2.strategy = "single" \/ v2.size = "short"
    BY <1>1, <1>2 DEF Start!LongClassify
  <2> QED BY <1>1, <1>2, <2>1, RouteIs DEF Start!ClassifyRoute, Promises
<1>3. CASE Start!LongClassify # "single"
  <2>1. "chunk" \in Start!RoutedPrograms
    BY DEF Start!RoutedPrograms
  <2>2. Start!ClassifyRoute = Start!Route("chunk", TRUE, {"budget"})
    BY <1>3 DEF Start!ClassifyRoute
  <2>3. /\ Start!ClassifyRoute \in Start!Routes /\ Start!ClassifyRoute.several = TRUE
        /\ Start!ClassifyRoute.arguments = {"budget"} \intersect v2.given
    BY <2>1, <2>2, RouteIs
  <2> QED BY <2>3 DEF Promises, Start!Given
<1> QED BY <1>2, <1>3

LEMMA OtherPromises ==
  ASSUME v2 \in Start!Requests, v2.function \notin {"summarize_doc", "classify_doc"}
  PROVE  Promises(Start!Route("call", FALSE, {}))
<1>1. v2.strategy = "single" /\ "call" \in Start!RoutedPrograms
  BY RequestHas DEF Start!Strategies, Start!RoutedPrograms
<1> QED BY <1>1, RouteIs DEF Promises

LEMMA WordInit == ASSUME Start!Init PROVE Start!RouteBeforePay
BY DEF Start!Init, Start!RouteBeforePay, Start!StarterKeepsItsWord

LEMMA RunKeepsWord == ASSUME StarterConstants, Start!RouteBeforePay, Start!Run PROVE Start!RouteBeforePay'
<1>1. v2 \in Start!Requests /\ v2' = v2 /\ v5' = v5 /\ v1' = "running"
      /\ v3 = None
  BY DEF Start!Run, Start!RouteBeforePay
<1>2. Promises(v3')
  <2>1. CASE v2.function = "summarize_doc"
    BY <1>1, <2>1, SummaryPromises DEF Start!Run
  <2>2. CASE v2.function = "classify_doc"
    BY <1>1, <2>2, ClassifyPromises DEF Start!Run
  <2>3. CASE v2.function \notin {"summarize_doc", "classify_doc"}
    BY <1>1, <2>3, OtherPromises DEF Start!Run
  <2> QED BY <2>1, <2>2, <2>3
<1>3. v3' \in Start!Routes /\ v3' # None
  BY <1>2 DEF Promises, StarterConstants
<1>4. Start!StarterKeepsItsWord'
  BY <1>1, <1>2, <1>3 DEF Start!StarterKeepsItsWord, Promises, Start!Given
<1> QED BY <1>1, <1>3, <1>4 DEF Start!RouteBeforePay

LEMMA LabelsAreLabels == ASSUME NEW answer PROVE Start!LabelOf(answer) \subseteq Start!Range(QuestionLabels)
BY DEF Start!LabelOf, Start!Range

LEMMA FilteredAreLabels ==
  ASSUME NEW list, NEW filtered \in Start!Filtered(list) PROVE Start!Range(filtered) \subseteq Start!Range(QuestionLabels)
<1>1. PICK order \in Start!Orders(Start!Places(list)) : filtered = [k \in DOMAIN order |-> list[order[k]]]
  BY DEF Start!Filtered
<1>2. \A k \in DOMAIN order : order[k] \in Start!Places(list)
  BY StartCounts DEF Start!Orders
<1>3. \A k \in DOMAIN order : list[order[k]] \in Start!Range(QuestionLabels)
  BY <1>2 DEF Start!Places
<1> QED BY <1>1, <1>3 DEF Start!Range

LEMMA ReturnKeepsWord ==
  ASSUME Start!RouteBeforePay, v1 = "running", UNCHANGED <<v2, v3, v4>>,
         \/ v1' = "raised" /\ v3 # None
         \/ v1' = "returned" /\ (v2.function \in {"classify", "classify_multi"} =>
                                   v5' # <<>> /\ Start!Range(v5') \subseteq Start!Range(QuestionLabels))
  PROVE  Start!RouteBeforePay'
<1>1. Start!StarterKeepsItsWord'
  BY DEF Start!RouteBeforePay, Start!StarterKeepsItsWord, Start!Given
<1> QED BY <1>1 DEF Start!RouteBeforePay

LEMMA WordNext == ASSUME StarterConstants, Start!RouteBeforePay, [Start!Next]_(Start!vars) PROVE Start!RouteBeforePay'
<1>1. CASE Start!SyncRefused \/ Start!Refuse
  <2>1. v1 = "called" /\ v1' = "raised" /\ UNCHANGED <<v2, v3, v4, v5>>
    BY <1>1 DEF Start!SyncRefused, Start!Refuse
  <2> QED BY <2>1 DEF Start!RouteBeforePay, Start!StarterKeepsItsWord, Start!Given
<1>2. CASE Start!Run
  BY <1>2, RunKeepsWord
<1>3. v1 = "running" => v3 # None
  BY DEF Start!RouteBeforePay, StarterConstants
<1>4. CASE Start!OneLabel
  <2>1. PICK answers \in QuestionAnswers \ {<<>>} :
          IF Start!LabelOf(Head(answers)) # {} THEN \E l \in Start!LabelOf(Head(answers)) : Start!Return(<<l>>) ELSE Start!Raise
    BY <1>4 DEF Start!OneLabel
  <2>2. CASE Start!Raise
    BY <1>3, <1>4, <2>2, ReturnKeepsWord DEF Start!OneLabel, Start!Raise
  <2>3. ASSUME NEW l \in Start!LabelOf(Head(answers)), Start!Return(<<l>>) PROVE Start!RouteBeforePay'
    <3>1. l \in Start!Range(QuestionLabels)
      BY LabelsAreLabels
    <3>2. <<l>> # <<>> /\ Start!Range(<<l>>) = {l}
      BY DEF Start!Range
    <3> QED BY <1>4, <2>3, <3>1, <3>2, ReturnKeepsWord DEF Start!OneLabel, Start!Return
  <2> QED BY <2>1, <2>2, <2>3
<1>5. CASE Start!ManyLabels
  <2>0. PICK answers \in QuestionAnswers :
          \E filtered \in Start!Filtered(answers) : IF filtered # <<>> THEN Start!Return(filtered) ELSE Start!Raise
    BY <1>5 DEF Start!ManyLabels
  <2>1. PICK filtered \in Start!Filtered(answers) : IF filtered # <<>> THEN Start!Return(filtered) ELSE Start!Raise
    BY <2>0
  <2>2. CASE Start!Raise
    BY <1>3, <1>5, <2>2, ReturnKeepsWord DEF Start!ManyLabels, Start!Raise
  <2>3. CASE filtered # <<>> /\ Start!Return(filtered)
    BY <1>5, <2>3, FilteredAreLabels, ReturnKeepsWord DEF Start!ManyLabels, Start!Return
  <2> QED BY <2>1, <2>2, <2>3
<1>6. CASE Start!Answered
  BY <1>6, ReturnKeepsWord DEF Start!Answered, Start!Return
<1>7. CASE Start!ProgramRaises
  BY <1>3, <1>7, ReturnKeepsWord DEF Start!ProgramRaises, Start!Raise
<1>8. CASE UNCHANGED Start!vars
  BY <1>8 DEF Start!vars, Start!RouteBeforePay, Start!StarterKeepsItsWord, Start!Given
<1> QED BY <1>1, <1>2, <1>4, <1>5, <1>6, <1>7, <1>8 DEF Start!Next

LEMMA WordImplies == ASSUME Start!RouteBeforePay PROVE Start!StarterKeepsItsWord
BY DEF Start!RouteBeforePay

-----------------------------------------------------------------------------
(* The program of thought (ProgramOfThought):                              *)
(* v1 allowed; v2 audit; v3 at; v4 program; v5 thread; v6 shown;           *)
(* v7 scratch; v8 execution; v9 given; Requests is CodeRequests;           *)
(* Threads is CodeThreads; Bodies is CodeBodies; Empty is EmptyBody.       *)

LEMMA WorkInit == ASSUME ThoughtConstants, Thought!Init PROVE Thought!WorkInv
<1>1. Thought!ThreadFollowsRequest
  BY DEF Thought!Init, Thought!ThreadFollowsRequest, ThoughtConstants, Thought!Statuses
<1>2. Thought!NothingRunsUnasked
  BY DEF Thought!Init, Thought!NothingRunsUnasked, ThoughtConstants, Thought!Statuses
<1> QED BY <1>1, <1>2 DEF Thought!WorkInv

LEMMA WorkNext == ASSUME ThoughtConstants, Thought!WorkInv, [Thought!Next]_(Thought!vars) PROVE Thought!WorkInv'
<1> USE DEF ThoughtConstants, Thought!WorkInv, Thought!ThreadFollowsRequest, Thought!NothingRunsUnasked,
       Thought!Goes, Thought!Works, Thought!Statuses
<1>1. ASSUME NEW r \in CodeRequests, Thought!AskWriter(r) PROVE Thought!WorkInv'
  BY <1>1 DEF Thought!AskWriter
<1>2. ASSUME NEW r \in CodeRequests, NEW text \in Thought!Text, Thought!Written(r, text) PROVE Thought!WorkInv'
  BY <1>2 DEF Thought!Written, Thought!Text
<1>3. ASSUME NEW r \in CodeRequests, Thought!Begin(r) PROVE Thought!WorkInv'
  <2>1. v5[r] = "queued" /\ UNCHANGED <<v1, v2, v3, v4, v6, v8, v9>>
    BY <1>3 DEF Thought!Begin
  <2>2. CASE ~v1
    <3>1. v5' = [v5 EXCEPT ![r] = "raised"] /\ v7' = v7
      BY <1>3, <2>2 DEF Thought!Begin
    <3> QED BY <2>1, <3>1
  <2>3. CASE v1 /\ v2 = None
    <3>1. v5' = [v5 EXCEPT ![r] = "running"] /\ v7' = v7 \union {r}
      BY <1>3, <2>3 DEF Thought!Begin, Thought!Spawn
    <3> QED BY <2>1, <2>3, <3>1
  <2>4. CASE v1 /\ v2 # None
    <3>1. v5' = [v5 EXCEPT ![r] = "auditing"] /\ v7' = v7
      BY <1>3, <2>4 DEF Thought!Begin
    <3> QED BY <2>1, <2>4, <3>1
  <2> QED BY <2>2, <2>3, <2>4
<1>4. ASSUME NEW r \in CodeRequests, Thought!Audited(r) PROVE Thought!WorkInv'
  BY <1>4 DEF Thought!Audited, Thought!Spawn
<1>5. ASSUME NEW r \in CodeRequests, NEW ending \in Thought!Ending, Thought!Ended(r, ending) PROVE Thought!WorkInv'
  BY <1>5 DEF Thought!Ended, Thought!Executions
<1>6. ASSUME NEW r \in CodeRequests, Thought!LimitsFail(r) PROVE Thought!WorkInv'
  BY <1>6 DEF Thought!LimitsFail
<1>7. ASSUME NEW r \in CodeRequests, Thought!AskInterpreter(r) PROVE Thought!WorkInv'
  BY <1>7 DEF Thought!AskInterpreter, Thought!Execution
<1>8. ASSUME NEW r \in CodeRequests, Thought!ThreadRaised(r) PROVE Thought!WorkInv'
  BY <1>8 DEF Thought!ThreadRaised
<1>9. ASSUME NEW r \in CodeRequests, Thought!Interpreted(r) PROVE Thought!WorkInv'
  BY <1>9 DEF Thought!Interpreted
<1>10. ASSUME NEW r \in CodeRequests, Thought!CallFails(r) PROVE Thought!WorkInv'
  BY <1>10 DEF Thought!CallFails
<1>11. ASSUME NEW r \in CodeRequests, Thought!Cancel(r) PROVE Thought!WorkInv'
  BY <1>11 DEF Thought!Cancel, Thought!LeftBehind
<1>12. CASE UNCHANGED Thought!vars
  BY <1>12 DEF Thought!vars
<1> QED BY <1>1, <1>2, <1>3, <1>4, <1>5, <1>6, <1>7, <1>8, <1>9, <1>10, <1>11, <1>12
           DEF Thought!Next

-----------------------------------------------------------------------------
(* Envelopes (Envelope):                                                   *)
(* v1 at; v2 steps; v3 output; v4 capabilities; v5 given; v6 done;         *)
(* v7 asked; v8 unresolved; Steps is EnvelopeSteps;                        *)
(* MaxSteps is EnvelopeLength; Outputs is EnvelopeOutputs;                 *)
(* Inputs is EnvelopeInputs; Clients is ClientNames; Types is NamedTypes;  *)
(* Methods is MethodNames; Protected is ProtectedNames.                    *)

\* Nothing changes the envelope.
LEMMA EnvelopeStays ==
  ASSUME UNCHANGED Written!envelope
  PROVE  /\ (Written!Valid' <=> Written!Valid) /\ Written!Hidden' = Written!Hidden /\ Written!Ids' = Written!Ids
         /\ UNCHANGED <<v2, v3, v4, v5>>
BY DEF Written!envelope, Written!Valid, Written!CapabilitiesValid, Written!IdsValid,
   Written!ClientsValid, Written!PointersValid, Written!TypesValid, Written!Hidden,
       Written!Ids, Written!Earlier

LEMMA FirstStepsInit == ASSUME EnvelopeConstants, Written!Init PROVE Written!FirstStepsAreDone
<1>1. PICK n \in 1..EnvelopeLength : v2 \in [1..n -> EnvelopeSteps]
  BY DEF Written!Init
<1>2. n \in Nat
  BY <1>1 DEF EnvelopeConstants
<1>3. v2 \in Seq(EnvelopeSteps)
  BY <1>1, <1>2, SeqDef
<1>4. <<>> \in Seq(Written!Range(Written!Ids)) /\ DOMAIN <<>> = {}
  BY EmptySeq
<1> QED BY <1>3, <1>4 DEF Written!Init, Written!FirstStepsAreDone, Written!EnvelopeRunsAsWritten

\* A pointer that cannot be resolved is one to an input that was not passed or
\* to a field that an earlier step does not have.
Lost(pointer) ==
  IF pointer.source = "inputs" THEN pointer.name \in EnvelopeInputs \ v5
  ELSE pointer.name \in DOMAIN v6 /\ pointer.field \notin v6[pointer.name]

LEMMA UnresolvedIsLost ==
  ASSUME NEW pointers, DOMAIN pointers \subseteq Nat, Written!Unresolved(pointers),
         \A k \in DOMAIN pointers : Written!PointerValid(pointers[k], DOMAIN v6)
  PROVE  Lost(v8')
<1>1. Written!Missing(pointers) # {} /\ Written!Missing(pointers) \subseteq Nat
  BY DEF Written!Unresolved, Written!Missing
<1>2. Written!Min(Written!Missing(pointers)) \in Written!Missing(pointers)
  BY <1>1, LeastOf DEF Written!Min
<1>3. PICK k \in DOMAIN pointers : v8' = pointers[k] /\ ~Written!Resolves(pointers[k])
  BY <1>2 DEF Written!Unresolved, Written!Missing
<1>4. Written!PointerValid(pointers[k], DOMAIN v6)
  BY <1>3
<1> QED BY <1>3, <1>4 DEF Written!PointerValid, Written!Resolves, Lost

LEMMA UnresolvedKeepsSteps ==
  ASSUME EnvelopeConstants, Written!FirstStepsAreDone, Written!Running, Written!CannotAsk \/ Written!CannotReturn
  PROVE  Written!FirstStepsAreDone'
<1>1. /\ v1 = "running" /\ Written!Hidden = {} /\ Written!Valid /\ v1' = "raised" /\ UNCHANGED <<Written!envelope, v6, v7>>
  BY DEF Written!Running, Written!CannotAsk, Written!CannotReturn, Written!Unresolved,
     Written!FirstStepsAreDone
<1>2. /\ v2 \in Seq(EnvelopeSteps) /\ v3 \in EnvelopeOutputs /\ v7 \in Seq(Written!Range(Written!Ids))
      /\ Len(v7) <= Len(v2)
      /\ DOMAIN v6 = {v2[j].id : j \in 1..Len(v7)}
  BY <1>1 DEF Written!FirstStepsAreDone
<1>3. DOMAIN v2 = 1..Len(v2) /\ Len(v7) \in Nat /\ Len(v2) \in Nat
  BY <1>2, LenProperties
<1>4. Lost(v8')
  <2>1. CASE Written!CannotAsk
    <3>1. Written!Now \in DOMAIN v2 /\ v2[Written!Now] \in EnvelopeSteps /\ Written!Unresolved(v2[Written!Now].reads)
      BY <1>2, <1>3, <2>1, ElementOfSeq DEF Written!CannotAsk, Written!Now
    <3>2. Written!Earlier(Written!Now) = DOMAIN v6
      BY <1>2, <1>3 DEF Written!Earlier, Written!Now
    <3>3. \A k \in DOMAIN v2[Written!Now].reads : Written!PointerValid(v2[Written!Now].reads[k], DOMAIN v6)
      BY <1>1, <3>1, <3>2 DEF Written!Valid, Written!PointersValid, Written!Range
    <3> QED BY <3>1, <3>3, UnresolvedIsLost DEF EnvelopeConstants
  <2>2. CASE Written!CannotReturn
    <3>1. Written!Unresolved(v3) /\ Len(v7) = Len(v2)
      BY <1>2, <1>3, <2>2 DEF Written!CannotReturn, Written!Now
    <3>2. {v2[k].id : k \in DOMAIN v2} = DOMAIN v6
      BY <1>2, <1>3, <3>1
    <3>3. \A k \in DOMAIN v3 : Written!PointerValid(v3[k], DOMAIN v6)
      BY <1>1, <3>2 DEF Written!Valid, Written!PointersValid, Written!Range
    <3> QED BY <1>2, <3>1, <3>3, UnresolvedIsLost DEF EnvelopeConstants
  <2> QED BY <2>1, <2>2
<1>5. Written!EnvelopeRunsAsWritten'
  <2>1. (v7 # <<>> => Written!Valid /\ \A k \in DOMAIN v2 : v2[k].kind \notin Written!Reserved)'
    BY <1>1, EnvelopeStays DEF Written!FirstStepsAreDone, Written!envelope
  <2>2. (Written!Hidden = {} => (\A k \in DOMAIN v7 : v7[k] = Written!Ids[k]) /\ (v1 = "returned" => v7 = Written!Ids))'
    BY <1>1, EnvelopeStays DEF Written!FirstStepsAreDone, Written!EnvelopeRunsAsWritten
  <2>3. v5' = v5 /\ v6' = v6
    BY <1>1 DEF Written!envelope
  <2> QED BY <1>4, <2>1, <2>2, <2>3 DEF Written!EnvelopeRunsAsWritten, Lost
<1>6. UNCHANGED <<v2, v3>> /\ v7' = v7 /\ Written!Ids' = Written!Ids
  BY <1>1, EnvelopeStays
<1> QED BY <1>1, <1>2, <1>5, <1>6 DEF Written!FirstStepsAreDone

LEMMA AskedIsNext ==
  ASSUME Written!FirstStepsAreDone, Written!Running, Written!Now <= Len(v2), v7' = Append(v7, v2[Written!Now].id),
         UNCHANGED Written!envelope
  PROVE  /\ Written!Valid /\ v2 \in Seq(EnvelopeSteps) /\ v7' \in Seq(Written!Range(Written!Ids)) /\ Len(v7') = Len(v7) + 1
         /\ Len(v7') <= Len(v2) /\ DOMAIN v2 = 1..Len(v2) /\ Len(v7) \in Nat
         /\ \A k \in DOMAIN v7' : v7'[k] = Written!Ids[k]
         /\ DOMAIN v6 = {v2[j].id : j \in 1..Len(v7)}
         /\ \A k \in DOMAIN v2 : v2[k].kind \notin Written!Reserved
<1>1. /\ Written!Valid /\ v2 \in Seq(EnvelopeSteps) /\ v7 \in Seq(Written!Range(Written!Ids)) /\ Len(v7) <= Len(v2)
      /\ \A k \in DOMAIN v2 : v2[k].kind \notin Written!Reserved
      /\ \A k \in DOMAIN v7 : v7[k] = Written!Ids[k]
      /\ DOMAIN v6 = {v2[j].id : j \in 1..Len(v7)}
  BY DEF Written!FirstStepsAreDone, Written!EnvelopeRunsAsWritten, Written!Running
<1>2. DOMAIN v2 = 1..Len(v2) /\ Len(v7) \in Nat /\ Len(v2) \in Nat
      /\ DOMAIN v7 = 1..Len(v7)
  BY <1>1, LenProperties
<1>3. Written!Now \in DOMAIN v2 /\ Written!Now = Len(v7) + 1
  BY <1>2 DEF Written!Now
<1>4. Written!Ids[Written!Now] = v2[Written!Now].id /\ Written!Ids[Written!Now] \in Written!Range(Written!Ids)
  BY <1>3 DEF Written!Ids, Written!Range
<1>5. /\ v7' \in Seq(Written!Range(Written!Ids)) /\ Len(v7') = Len(v7) + 1
      /\ v7'[Len(v7) + 1] = v2[Written!Now].id
      /\ \A k \in 1..Len(v7) : v7'[k] = v7[k]
  BY <1>1, <1>4, AppendProperties
<1>6. DOMAIN v7' = 1..(Len(v7) + 1)
  BY <1>5, LenProperties
<1>7. \A k \in DOMAIN v7' : v7'[k] = Written!Ids[k]
  BY <1>1, <1>2, <1>3, <1>4, <1>5, <1>6
<1> QED BY <1>1, <1>2, <1>3, <1>5, <1>7

LEMMA AskKeepsSteps == ASSUME EnvelopeConstants, Written!FirstStepsAreDone, Written!AskStep PROVE Written!FirstStepsAreDone'
<1>1. /\ Written!Running /\ Written!Now <= Len(v2) /\ v7' = Append(v7, v2[Written!Now].id)
      /\ UNCHANGED <<v1, Written!envelope, v8>>
      /\ DOMAIN v6' = DOMAIN v6 \union {v2[Written!Now].id}
  BY DEF Written!AskStep
<1>2. /\ Written!Valid /\ v2 \in Seq(EnvelopeSteps) /\ v7' \in Seq(Written!Range(Written!Ids)) /\ Len(v7') = Len(v7) + 1
      /\ Len(v7') <= Len(v2) /\ DOMAIN v2 = 1..Len(v2) /\ Len(v7) \in Nat
      /\ \A k \in DOMAIN v7' : v7'[k] = Written!Ids[k]
      /\ DOMAIN v6 = {v2[j].id : j \in 1..Len(v7)}
      /\ \A k \in DOMAIN v2 : v2[k].kind \notin Written!Reserved
  BY <1>1, AskedIsNext
<1>3. DOMAIN v6' = {v2[j].id : j \in 1..Len(v7')}
  <2>1. 1..Len(v7') = (1..Len(v7)) \union {Written!Now}
    BY <1>2 DEF Written!Now
  <2> QED BY <1>1, <1>2, <2>1
<1>4. /\ Written!Valid' /\ Written!Hidden' = Written!Hidden /\ Written!Ids' = Written!Ids /\ UNCHANGED <<v2, v3>>
      /\ v1 = "running" /\ v1' = v1 /\ v8' = v8 /\ v8 = None /\ Written!Hidden = {}
  BY <1>1, <1>2, EnvelopeStays DEF Written!Running, Written!FirstStepsAreDone
<1>5. Written!EnvelopeRunsAsWritten'
  BY <1>2, <1>4 DEF Written!EnvelopeRunsAsWritten
<1>6. v3 \in EnvelopeOutputs
  BY DEF Written!FirstStepsAreDone
<1> QED BY <1>2, <1>3, <1>4, <1>5, <1>6 DEF Written!FirstStepsAreDone

LEMMA FailKeepsSteps == ASSUME EnvelopeConstants, Written!FirstStepsAreDone, Written!StepFails PROVE Written!FirstStepsAreDone'
<1>1. /\ Written!Running /\ Written!Now <= Len(v2) /\ v7' = Append(v7, v2[Written!Now].id)
      /\ UNCHANGED <<Written!envelope, v6, v8>> /\ v1' = "raised"
  BY DEF Written!StepFails
<1>2. /\ Written!Valid /\ v2 \in Seq(EnvelopeSteps) /\ v7' \in Seq(Written!Range(Written!Ids))
      /\ \A k \in DOMAIN v7' : v7'[k] = Written!Ids[k]
      /\ \A k \in DOMAIN v2 : v2[k].kind \notin Written!Reserved
  BY <1>1, AskedIsNext
<1>3. /\ Written!Valid' /\ Written!Hidden' = Written!Hidden /\ Written!Ids' = Written!Ids /\ UNCHANGED <<v2, v3>>
      /\ v8' = None /\ v3 \in EnvelopeOutputs
  BY <1>1, <1>2, EnvelopeStays DEF Written!Running, Written!FirstStepsAreDone
<1>4. Written!EnvelopeRunsAsWritten'
  BY <1>1, <1>2, <1>3 DEF Written!EnvelopeRunsAsWritten
<1> QED BY <1>1, <1>2, <1>3, <1>4 DEF Written!FirstStepsAreDone

LEMMA ReturnKeepsSteps == ASSUME EnvelopeConstants, Written!FirstStepsAreDone, Written!Return PROVE Written!FirstStepsAreDone'
<1>1. /\ Written!Running /\ Written!Now > Len(v2) /\ v1' = "returned" /\ UNCHANGED <<Written!envelope, v6, v7, v8>>
  BY DEF Written!Return
<1>2. /\ v1 = "running" /\ Written!Valid /\ v2 \in Seq(EnvelopeSteps) /\ v7 \in Seq(Written!Range(Written!Ids)) /\ v3 \in EnvelopeOutputs
      /\ Len(v7) <= Len(v2) /\ Written!Hidden = {} /\ v8 = None
      /\ \A k \in DOMAIN v2 : v2[k].kind \notin Written!Reserved
      /\ \A k \in DOMAIN v7 : v7[k] = Written!Ids[k]
  BY <1>1 DEF Written!FirstStepsAreDone, Written!EnvelopeRunsAsWritten, Written!Running
<1>3. v7 = Written!Ids
  <2>1. Len(v7) = Len(v2) /\ DOMAIN v2 = 1..Len(v2) /\ DOMAIN v7 = 1..Len(v7)
    BY <1>1, <1>2, LenProperties DEF Written!Now
  <2>2. DOMAIN Written!Ids = DOMAIN v7
    BY <2>1 DEF Written!Ids
  <2>3. v7 = [k \in DOMAIN v7 |-> v7[k]] /\ Written!Ids = [k \in DOMAIN Written!Ids |-> Written!Ids[k]]
    BY <1>2 DEF Written!Ids
  <2> QED BY <1>2, <2>2, <2>3
<1>4. /\ Written!Valid' /\ Written!Hidden' = Written!Hidden /\ Written!Ids' = Written!Ids /\ UNCHANGED <<v2, v3, v7, v8>>
  BY <1>1, <1>2, EnvelopeStays
<1>5. Written!EnvelopeRunsAsWritten'
  BY <1>1, <1>2, <1>3, <1>4 DEF Written!EnvelopeRunsAsWritten
<1> QED BY <1>1, <1>2, <1>4, <1>5 DEF Written!FirstStepsAreDone

LEMMA UsurpedKeepsSteps == ASSUME EnvelopeConstants, Written!FirstStepsAreDone, Written!Usurped PROVE Written!FirstStepsAreDone'
<1> DEFINE k == CHOOSE k \in Written!Hidden : TRUE
<1>1. /\ v1 = "running" /\ Written!Hidden # {} /\ v7' = Append(v7, v2[k].id)
      /\ v1' \in {"returned", "raised"} /\ UNCHANGED <<Written!envelope, v6, v8>>
  BY DEF Written!Usurped
<1>2. /\ Written!Valid /\ v2 \in Seq(EnvelopeSteps) /\ v7 \in Seq(Written!Range(Written!Ids)) /\ v3 \in EnvelopeOutputs /\ v8 = None
      /\ \A j \in DOMAIN v2 : v2[j].kind \notin Written!Reserved
  BY <1>1 DEF Written!FirstStepsAreDone
<1>3. k \in DOMAIN v2
  BY <1>1 DEF Written!Hidden
<1> HIDE DEF k
<1>4. v2[k].id \in Written!Range(Written!Ids)
  BY <1>3 DEF Written!Ids, Written!Range
<1>5. v7' \in Seq(Written!Range(Written!Ids))
  BY <1>1, <1>2, <1>4, AppendProperties
<1>6. /\ Written!Valid' /\ Written!Hidden' = Written!Hidden /\ Written!Ids' = Written!Ids /\ UNCHANGED <<v2, v3, v8>>
  BY <1>1, <1>2, EnvelopeStays
<1>7. Written!EnvelopeRunsAsWritten'
  BY <1>1, <1>2, <1>6 DEF Written!EnvelopeRunsAsWritten
<1> QED BY <1>1, <1>2, <1>5, <1>6, <1>7 DEF Written!FirstStepsAreDone

LEMMA FirstStepsNext ==
  ASSUME EnvelopeConstants, Written!FirstStepsAreDone, [Written!Next]_(Written!vars) PROVE Written!FirstStepsAreDone'
<1>1. CASE Written!Validate
  <2>1. /\ v1 = "received" /\ UNCHANGED <<Written!envelope, v6, v7, v8>>
        /\ v1' = IF Written!Valid THEN "building" ELSE "raised"
    BY <1>1 DEF Written!Validate
  <2>2. (Written!Valid' <=> Written!Valid) /\ UNCHANGED <<v2, v3>> /\ Written!Ids' = Written!Ids /\ Written!Hidden' = Written!Hidden
    BY <2>1, EnvelopeStays
  <2>3. v7 = <<>> /\ v6 = <<>> /\ v8 = None
    BY <2>1 DEF Written!FirstStepsAreDone
  <2>4. Written!EnvelopeRunsAsWritten'
    BY <2>1, <2>2, <2>3, EmptySeq DEF Written!EnvelopeRunsAsWritten
  <2> QED BY <2>1, <2>2, <2>3, <2>4 DEF Written!FirstStepsAreDone
<1>2. CASE Written!Build
  <2>1. /\ v1 = "building" /\ UNCHANGED <<Written!envelope, v6, v7, v8>>
        /\ \/ v1' = "running" /\ \A k \in DOMAIN v2 : Written!Buildable(v2[k])
           \/ v1' = "raised"
    BY <1>2 DEF Written!Build
  <2>2. (Written!Valid' <=> Written!Valid) /\ UNCHANGED <<v2, v3>> /\ Written!Ids' = Written!Ids /\ Written!Hidden' = Written!Hidden
    BY <2>1, EnvelopeStays
  <2>3. v7 = <<>> /\ v6 = <<>> /\ v8 = None /\ Written!Valid
    BY <2>1 DEF Written!FirstStepsAreDone
  <2>4. Written!EnvelopeRunsAsWritten'
    BY <2>1, <2>2, <2>3 DEF Written!EnvelopeRunsAsWritten, Written!FirstStepsAreDone
  <2>5. v1' = "running" => \A k \in DOMAIN v2 : v2[k].kind \notin Written!Reserved
    BY <2>1 DEF Written!Buildable
  <2>6. Len(v7) = 0 /\ DOMAIN v6 = {} /\ 1..0 = {} /\ Len(v2) \in Nat
    BY <2>3, EmptySeq, LenProperties DEF Written!FirstStepsAreDone
  <2>7. Len(v7) <= Len(v2) /\ DOMAIN v6 = {v2[j].id : j \in 1..Len(v7)}
    BY <2>6
  <2> QED BY <2>1, <2>2, <2>3, <2>4, <2>5, <2>7 DEF Written!FirstStepsAreDone
<1>3. CASE Written!CannotAsk \/ Written!CannotReturn
  BY <1>3, UnresolvedKeepsSteps DEF Written!CannotAsk, Written!CannotReturn
<1>4. CASE Written!AskStep
  BY <1>4, AskKeepsSteps
<1>5. CASE Written!StepFails
  BY <1>5, FailKeepsSteps
<1>6. CASE Written!Return
  BY <1>6, ReturnKeepsSteps
<1>7. CASE Written!Usurped
  BY <1>7, UsurpedKeepsSteps
<1>8. CASE UNCHANGED Written!vars
  <2>1. UNCHANGED <<v1, Written!envelope, v6, v7, v8>>
    BY <1>8 DEF Written!vars
  <2>2. (Written!Valid' <=> Written!Valid) /\ UNCHANGED <<v2, v3, v5>> /\ Written!Ids' = Written!Ids /\ Written!Hidden' = Written!Hidden
    BY <2>1, EnvelopeStays
  <2>3. Written!EnvelopeRunsAsWritten'
    BY <2>1, <2>2 DEF Written!EnvelopeRunsAsWritten, Written!FirstStepsAreDone
  <2> QED BY <2>1, <2>2, <2>3 DEF Written!FirstStepsAreDone
<1> QED BY <1>1, <1>2, <1>3, <1>4, <1>5, <1>6, <1>7, <1>8 DEF Written!Next

LEMMA FirstStepsImply == ASSUME Written!FirstStepsAreDone PROVE Written!EnvelopeRunsAsWritten
BY DEF Written!FirstStepsAreDone

-----------------------------------------------------------------------------
(* The MCP tools (ToolServer):                                             *)
(* v1 at; v2 tool; v3 wrong; v4 steps; v5 done; v6 file; v7 taken;         *)
(* v8 result.                                                              *)

\* A handler whose effects are its last steps, which asks for consent what runs
\* code and reads the file that it asks or writes.
AsksConsent(handler) ==
  /\ Tools!Runs("code") \in Tools!Range(handler) => {Tools!Needs("consent"), Tools!Needs("gate")} \subseteq Tools!Range(handler)
  /\ Tools!Asks("program") \in Tools!Range(handler) \/ Tools!Writes("copy") \in Tools!Range(handler) =>
       \E k \in DOMAIN handler : handler[k].does = "reads"
WellMade(handler) ==
  /\ handler \in Seq(Tools!Range(handler))
  /\ \E first \in 1..(Len(handler) + 1) : Tools!EffectsOf(handler) = first..Len(handler)
  /\ AsksConsent(handler)

IsMade(handler, n, first) ==
  /\ DOMAIN handler = 1..n /\ handler = [k \in 1..n |-> handler[k]]
  /\ n \in Nat /\ first \in 1..(n + 1)
  /\ Tools!EffectsOf(handler) = first..n
  /\ (\E k \in 1..n : handler[k] = Tools!Runs("code")) =>
       /\ \E k \in 1..n : handler[k] = Tools!Needs("consent")
       /\ \E k \in 1..n : handler[k] = Tools!Needs("gate")
  /\ (\E k \in 1..n : handler[k] = Tools!Asks("program") \/ handler[k] = Tools!Writes("copy")) =>
       \E k \in 1..n : handler[k].does = "reads"

LEMMA MadeIsWellMade ==
  ASSUME NEW handler, NEW n, NEW first, IsMade(handler, n, first)
  PROVE  WellMade(handler)
<1>1. DOMAIN handler = 1..n /\ n \in Nat /\ handler \in [1..n -> Tools!Range(handler)]
  BY DEF IsMade, Tools!Range
<1>2. handler \in Seq(Tools!Range(handler))
  BY <1>1, SeqDef
<1>3. Len(handler) = n
  BY <1>1, <1>2, LenProperties
<1>4. AsksConsent(handler)
  BY <1>1 DEF IsMade, AsksConsent, Tools!Range
<1> QED BY <1>2, <1>3, <1>4 DEF IsMade, WellMade

LEMMA HandlersAreMade == ASSUME NEW t \in DOMAIN Tools!Handlers PROVE WellMade(Tools!Handlers[t])
<1>1. WellMade(Tools!CallTool)
  <2>1. IsMade(Tools!CallTool, 3, 3)
    BY DEF IsMade, Tools!CallTool, Tools!Asks, Tools!Effects, Tools!EffectsOf, Tools!Needs,
       Tools!Runs, Tools!Takes, Tools!Writes
  <2> QED BY <2>1, MadeIsWellMade
<1>2. WellMade(Tools!ReasonTool)
  <2>1. IsMade(Tools!ReasonTool, 3, 3)
    BY DEF IsMade, Tools!ReasonTool, Tools!Asks, Tools!Effects, Tools!EffectsOf, Tools!Needs,
       Tools!Runs, Tools!Takes, Tools!Writes
  <2> QED BY <2>1, MadeIsWellMade
<1>3. WellMade(Tools!ClassifyTool)
  <2>1. IsMade(Tools!ClassifyTool, 5, 5)
    BY DEF IsMade, Tools!ClassifyTool, Tools!Asks, Tools!Effects, Tools!EffectsOf, Tools!Needs,
       Tools!Runs, Tools!Takes, Tools!Writes
  <2> QED BY <2>1, MadeIsWellMade
<1>4. WellMade(Tools!SummarizeTool)
  <2>1. IsMade(Tools!SummarizeTool, 4, 4)
    BY DEF IsMade, Tools!SummarizeTool, Tools!Asks, Tools!Effects, Tools!EffectsOf, Tools!Needs,
       Tools!Runs, Tools!Takes, Tools!Writes
  <2> QED BY <2>1, MadeIsWellMade
<1>5. WellMade(Tools!JudgeTool)
  <2>1. IsMade(Tools!JudgeTool, 2, 2)
    BY DEF IsMade, Tools!JudgeTool, Tools!Asks, Tools!Effects, Tools!EffectsOf, Tools!Needs,
       Tools!Runs, Tools!Takes, Tools!Writes
  <2> QED BY <2>1, MadeIsWellMade
<1>6. WellMade(Tools!MetricTool)
  <2>1. IsMade(Tools!MetricTool, 1, 2)
    BY DEF IsMade, Tools!MetricTool, Tools!Asks, Tools!Effects, Tools!EffectsOf, Tools!Metric,
       Tools!Needs, Tools!Runs, Tools!Writes
  <2> QED BY <2>1, MadeIsWellMade
<1>7. WellMade(Tools!JudgedMetricTool)
  <2>1. IsMade(Tools!JudgedMetricTool, 3, 3)
    BY DEF IsMade, Tools!JudgedMetricTool, Tools!Asks, Tools!Effects, Tools!EffectsOf,
       Tools!Metric, Tools!Needs, Tools!Runs, Tools!Writes
  <2> QED BY <2>1, MadeIsWellMade
<1>8. WellMade(Tools!UnknownMetricTool)
  <2>1. IsMade(Tools!UnknownMetricTool, 2, 3)
    BY DEF IsMade, Tools!UnknownMetricTool, Tools!Asks, Tools!Effects, Tools!EffectsOf,
       Tools!Metric, Tools!Needs, Tools!Runs, Tools!Writes
  <2> QED BY <2>1, MadeIsWellMade
<1>9. WellMade(Tools!EnsembleTool)
  <2>1. IsMade(Tools!EnsembleTool, 4, 4)
    BY DEF IsMade, Tools!EnsembleTool, Tools!Asks, Tools!Effects, Tools!EffectsOf, Tools!Needs,
       Tools!Runs, Tools!Takes, Tools!Writes
  <2> QED BY <2>1, MadeIsWellMade
<1>10. WellMade(Tools!BestOfNTool)
  <2>1. IsMade(Tools!BestOfNTool, 3, 3)
    BY DEF IsMade, Tools!BestOfNTool, Tools!Asks, Tools!Effects, Tools!EffectsOf, Tools!Needs,
       Tools!Runs, Tools!Writes
  <2> QED BY <2>1, MadeIsWellMade
<1>11. WellMade(Tools!JudgedBestOfNTool)
  <2>1. IsMade(Tools!JudgedBestOfNTool, 5, 4)
    BY DEF IsMade, Tools!JudgedBestOfNTool, Tools!Asks, Tools!Effects, Tools!EffectsOf,
       Tools!Needs, Tools!Runs, Tools!Writes
  <2> QED BY <2>1, MadeIsWellMade
<1>12. WellMade(Tools!RefineTool)
  <2>1. IsMade(Tools!RefineTool, 4, 3)
    BY DEF IsMade, Tools!RefineTool, Tools!Asks, Tools!Effects, Tools!EffectsOf, Tools!Needs,
       Tools!Runs, Tools!Takes, Tools!Writes
  <2> QED BY <2>1, MadeIsWellMade
<1>13. WellMade(Tools!ReActTool)
  <2>1. IsMade(Tools!ReActTool, 4, 4)
    BY DEF IsMade, Tools!ReActTool, Tools!Asks, Tools!Effects, Tools!EffectsOf, Tools!Needs,
       Tools!Runs, Tools!Takes, Tools!Writes
  <2> QED BY <2>1, MadeIsWellMade
<1>14. WellMade(Tools!EvaluateTool)
  <2>1. IsMade(Tools!EvaluateTool, 3, 3)
    BY DEF IsMade, Tools!EvaluateTool, Tools!Asks, Tools!Dataset, Tools!Effects, Tools!EffectsOf,
       Tools!Needs, Tools!Runs, Tools!Takes, Tools!Writes
  <2> QED BY <2>1, MadeIsWellMade
<1>15. WellMade(Tools!OptimizeTool)
  <2>1. IsMade(Tools!OptimizeTool, 3, 3)
    BY DEF IsMade, Tools!OptimizeTool, Tools!Asks, Tools!Dataset, Tools!Effects, Tools!EffectsOf,
       Tools!Needs, Tools!Runs, Tools!Takes, Tools!Writes
  <2> QED BY <2>1, MadeIsWellMade
<1>16. WellMade(Tools!OptimizeModelTool)
  <2>1. IsMade(Tools!OptimizeModelTool, 6, 6)
    BY DEF IsMade, Tools!OptimizeModelTool, Tools!Asks, Tools!Dataset, Tools!Effects,
       Tools!EffectsOf, Tools!Metric, Tools!Needs, Tools!Runs, Tools!Takes, Tools!Writes
  <2> QED BY <2>1, MadeIsWellMade
<1>17. WellMade(Tools!OptimizeCodecTool)
  <2>1. IsMade(Tools!OptimizeCodecTool, 5, 5)
    BY DEF IsMade, Tools!OptimizeCodecTool, Tools!Asks, Tools!Dataset, Tools!Effects,
       Tools!EffectsOf, Tools!Metric, Tools!Needs, Tools!Runs, Tools!Takes, Tools!Writes
  <2> QED BY <2>1, MadeIsWellMade
<1>18. WellMade(Tools!ParetoTool)
  <2>1. IsMade(Tools!ParetoTool, 5, 5)
    BY DEF IsMade, Tools!ParetoTool, Tools!Asks, Tools!Dataset, Tools!Effects, Tools!EffectsOf,
       Tools!Metric, Tools!Needs, Tools!Runs, Tools!Takes, Tools!Writes
  <2> QED BY <2>1, MadeIsWellMade
<1>19. WellMade(Tools!RecipeTool)
  <2>1. IsMade(Tools!RecipeTool, 4, 4)
    BY DEF IsMade, Tools!RecipeTool, Tools!Asks, Tools!Dataset, Tools!Effects, Tools!EffectsOf,
       Tools!Metric, Tools!Needs, Tools!Runs, Tools!Writes
  <2> QED BY <2>1, MadeIsWellMade
<1>20. WellMade(Tools!CostAwareRecipeTool)
  <2>1. IsMade(Tools!CostAwareRecipeTool, 6, 6)
    BY DEF IsMade, Tools!CostAwareRecipeTool, Tools!Asks, Tools!Dataset, Tools!Effects,
       Tools!EffectsOf, Tools!Metric, Tools!Needs, Tools!Runs, Tools!Takes, Tools!Writes
  <2> QED BY <2>1, MadeIsWellMade
<1>21. WellMade(Tools!MiproTool)
  <2>1. IsMade(Tools!MiproTool, 6, 6)
    BY DEF IsMade, Tools!MiproTool, Tools!Asks, Tools!Effects, Tools!EffectsOf, Tools!Metric,
       Tools!Needs, Tools!Runs, Tools!Takes, Tools!Writes
  <2> QED BY <2>1, MadeIsWellMade
<1>22. WellMade(Tools!CostReportTool)
  <2>1. IsMade(Tools!CostReportTool, 2, 3)
    BY DEF IsMade, Tools!CostReportTool, Tools!Asks, Tools!Effects, Tools!EffectsOf, Tools!Needs,
       Tools!Runs, Tools!Takes, Tools!Writes
  <2> QED BY <2>1, MadeIsWellMade
<1>23. WellMade(Tools!AnalyzeTool)
  <2>1. IsMade(Tools!AnalyzeTool, 2, 3)
    BY DEF IsMade, Tools!AnalyzeTool, Tools!Asks, Tools!Effects, Tools!EffectsOf, Tools!Needs,
       Tools!Reads, Tools!Runs, Tools!Writes
  <2> QED BY <2>1, MadeIsWellMade
<1>24. WellMade(Tools!AlphaTool)
  <2>1. IsMade(Tools!AlphaTool, 1, 2)
    BY DEF IsMade, Tools!AlphaTool, Tools!Asks, Tools!Effects, Tools!EffectsOf, Tools!Needs,
       Tools!Runs, Tools!Writes
  <2> QED BY <2>1, MadeIsWellMade
<1>25. WellMade(Tools!VisionTool)
  <2>1. IsMade(Tools!VisionTool, 2, 2)
    BY DEF IsMade, Tools!VisionTool, Tools!Asks, Tools!Effects, Tools!EffectsOf, Tools!Needs,
       Tools!Runs, Tools!Writes
  <2> QED BY <2>1, MadeIsWellMade
<1>26. WellMade(Tools!LoadTool)
  <2>1. IsMade(Tools!LoadTool, 3, 4)
    BY DEF IsMade, Tools!LoadTool, Tools!Asks, Tools!Effects, Tools!EffectsOf, Tools!Needs,
       Tools!Reads, Tools!Runs, Tools!Writes
  <2> QED BY <2>1, MadeIsWellMade
<1>27. WellMade(Tools!RoundTripTool)
  <2>1. IsMade(Tools!RoundTripTool, 4, 4)
    BY DEF IsMade, Tools!RoundTripTool, Tools!Asks, Tools!Effects, Tools!EffectsOf, Tools!Needs,
       Tools!Reads, Tools!Runs, Tools!Writes
  <2> QED BY <2>1, MadeIsWellMade
<1>28. WellMade(Tools!ExecuteTool)
  <2>1. IsMade(Tools!ExecuteTool, 3, 3)
    BY DEF IsMade, Tools!ExecuteTool, Tools!Asks, Tools!Effects, Tools!EffectsOf, Tools!Needs,
       Tools!Reads, Tools!Runs, Tools!Writes
  <2> QED BY <2>1, MadeIsWellMade
<1>29. WellMade(Tools!ExecuteInlineTool)
  <2>1. IsMade(Tools!ExecuteInlineTool, 3, 3)
    BY DEF IsMade, Tools!ExecuteInlineTool, Tools!Asks, Tools!Effects, Tools!EffectsOf,
       Tools!Needs, Tools!Runs, Tools!Writes
  <2> QED BY <2>1, MadeIsWellMade
<1>30. WellMade(Tools!ThoughtTool)
  <2>1. IsMade(Tools!ThoughtTool, 7, 5)
    BY DEF IsMade, Tools!ThoughtTool, Tools!Asks, Tools!Effects, Tools!EffectsOf, Tools!Needs,
       Tools!Runs, Tools!Takes, Tools!Writes
  <2> QED BY <2>1, MadeIsWellMade
<1>31. t \in {"call","reason","classify","summarize","judge","metric","judged_metric","unknown_metric","ensemble","best_of_n","judged_best_of_n","refine","react","evaluate","optimize","optimize_model","optimize_codec","pareto","recipe","cost_aware_recipe","mipro","cost_report","analyze","alpha","vision","load","round_trip","execute","execute_inline","thought"}
  BY DEF Tools!Handlers
<1> QED
  BY <1>1, <1>2, <1>3, <1>4, <1>5, <1>6, <1>7, <1>8, <1>9, <1>10, <1>11, <1>12, <1>13, <1>14,
     <1>15, <1>16, <1>17, <1>18, <1>19, <1>20, <1>21, <1>22, <1>23, <1>24, <1>25, <1>26, <1>27,
     <1>28, <1>29, <1>30, <1>31 DEF Tools!Handlers
LEMMA HandlerIsMade ==
  ASSUME Tools!HandledInOrder
  PROVE  /\ WellMade(Tools!Handlers[v2]) /\ Len(Tools!Handlers[v2]) \in Nat
         /\ DOMAIN Tools!Handlers[v2] = 1..Len(Tools!Handlers[v2])
         /\ Tools!Behind \in 0..Len(Tools!Handlers[v2])
         /\ Tools!Handlers[v2] \in Seq(Tools!Range(Tools!Handlers[v2]))
<1>1. v2 \in DOMAIN Tools!Handlers /\ Tools!Behind \in 0..Len(Tools!Handlers[v2])
  BY DEF Tools!HandledInOrder
<1>2. WellMade(Tools!Handlers[v2])
  BY <1>1, HandlersAreMade
<1> QED BY <1>1, <1>2, LenProperties DEF WellMade

LEMMA HandledInit == ASSUME ToolServerConstants, Tools!Init PROVE Tools!HandledInOrder
<1> DEFINE handler == Tools!Handlers[v2]
<1>1. v2 \in DOMAIN Tools!Handlers /\ v4 = handler /\ v5 = <<>> /\ v1 = "received" /\ v3 \subseteq Tools!Wrongs(v2)
  BY DEF Tools!Init
<1>2. WellMade(handler)
  BY <1>1, HandlersAreMade
<1>3. handler \in Seq(Tools!Range(handler)) /\ Len(handler) \in Nat
  BY <1>2, LenProperties DEF WellMade
<1>4. PICK first \in 1..(Len(handler) + 1) : Tools!EffectsOf(handler) = first..Len(handler)
  BY <1>2 DEF WellMade
<1>5. Tools!Behind = 0 /\ v4 = SubSeq(handler, 1, Len(handler))
  BY <1>1, <1>3, SubSeqFull DEF Tools!Behind
<1>6. v5 = SubSeq(handler, first, 0)
  BY <1>1, <1>3, <1>4, SubSeqEmpty
<1>7. Tools!Range(<<>>) = {}
  BY DEF Tools!Range
<1>8. Tools!RefusedIsFree
  BY <1>1, <1>7 DEF Tools!RefusedIsFree
<1> QED BY <1>1, <1>3, <1>4, <1>5, <1>6, <1>8 DEF Tools!HandledInOrder

\* The rest of a sequence and its first steps, one step further.
LEMMA RestOfSeq ==
  ASSUME NEW S, NEW s \in Seq(S), NEW b \in Int, b + 1 \in 1..Len(s)
  PROVE  /\ Head(SubSeq(s, b + 1, Len(s))) = s[b + 1]
         /\ Tail(SubSeq(s, b + 1, Len(s))) = SubSeq(s, b + 2, Len(s))
<1>1. Len(s) \in Nat /\ Len(s) \in (b + 1)..Len(s) /\ (b + 1) + 1 = b + 2
  BY LenProperties
<1> QED BY <1>1, HeadTailOfSubSeq
LEMMA OneStepMore ==
  ASSUME NEW S, NEW s \in Seq(S), NEW first \in 1..Len(s), NEW b \in Int, b + 1 \in first..Len(s)
  PROVE  Append(SubSeq(s, first, b), s[b + 1]) = SubSeq(s, first, b + 1)
<1>1. Len(s) \in Nat
  BY LenProperties
<1>2. \A i \in first..b : s[i] \in S
  BY <1>1, ElementOfSeq
<1>3. SubSeq(s, first, b) \in Seq(S) /\ s[b + 1] \in S
  BY <1>1, <1>2, SubSeqProperties, ElementOfSeq
<1>4. Append(SubSeq(s, first, b), s[b + 1]) = SubSeq(s, first, b) \o <<s[b + 1]>>
  BY <1>3, AppendIsConcat
<1>5. SubSeq(s, first, b + 1) = SubSeq(s, first, (b + 1) - 1) \o <<s[b + 1]>>
  BY <1>1, SubSeqRecursiveSecond
<1>6. (b + 1) - 1 = b
  OBVIOUS
<1> QED BY <1>4, <1>5, <1>6

\* The step that is made, and what is left after it.
LEMMA StepIsNext ==
  ASSUME Tools!HandledInOrder, v4 # <<>>
  PROVE  /\ Tools!Behind + 1 \in 1..Len(Tools!Handlers[v2])
         /\ Head(v4) = Tools!Handlers[v2][Tools!Behind + 1]
         /\ Tail(v4) = SubSeq(Tools!Handlers[v2], Tools!Behind + 2, Len(Tools!Handlers[v2]))
         /\ Len(Tools!Handlers[v2]) - Len(Tail(v4)) = Tools!Behind + 1
<1> DEFINE handler == Tools!Handlers[v2]
<1>1. /\ Len(handler) \in Nat /\ Tools!Behind \in 0..Len(handler) /\ handler \in Seq(Tools!Range(handler))
      /\ v4 = SubSeq(handler, Tools!Behind + 1, Len(handler))
  BY HandlerIsMade DEF Tools!HandledInOrder
<1>2. Tools!Behind + 1 \in 1..Len(handler) /\ Tools!Behind \in Int
  BY <1>1, SubSeqEmpty
<1>3. Head(v4) = handler[Tools!Behind + 1] /\ Tail(v4) = SubSeq(handler, Tools!Behind + 2, Len(handler))
  <2> HIDE DEF handler
  <2> QED BY <1>1, <1>2, RestOfSeq
<1>4. \A i \in (Tools!Behind + 1)..Len(handler) : handler[i] \in Tools!Range(handler)
  BY <1>1, ElementOfSeq
<1>5. v4 \in Seq(Tools!Range(handler))
  BY <1>1, <1>4, SubSeqProperties
<1>6. Len(Tail(v4)) = Len(v4) - 1 /\ Len(v4) \in Nat
  BY <1>5, HeadTailProperties, LenProperties
<1>7. Tools!Behind = Len(handler) - Len(v4)
  BY DEF Tools!Behind
<1>8. Len(handler) - Len(Tail(v4)) = Tools!Behind + 1
  <2> DEFINE left == Len(Tail(v4))
             all == Len(handler)
             before == Len(v4)
  <2>1. left = before - 1 /\ before \in Nat /\ all \in Nat /\ Tools!Behind = all - before
    BY <1>1, <1>6, <1>7
  <2> HIDE DEF left, all, before
  <2>2. all - left = Tools!Behind + 1
    BY <2>1
  <2> QED BY <2>2 DEF left, all
<1>9. Tools!Behind + 1 \in 1..Len(handler)
  BY <1>1, <1>2
<1> QED BY <1>3, <1>8, <1>9

\* A step without an effect comes before every effect.
LEMMA NothingWasDone ==
  ASSUME Tools!HandledInOrder, Tools!Behind + 1 \in 1..Len(Tools!Handlers[v2]), Tools!Handlers[v2][Tools!Behind + 1].does \notin Tools!Effects
  PROVE  /\ v5 = <<>>
         /\ \A first \in 1..(Len(Tools!Handlers[v2]) + 1) :
              Tools!EffectsOf(Tools!Handlers[v2]) = first..Len(Tools!Handlers[v2]) => Tools!Behind + 1 < first
<1> DEFINE handler == Tools!Handlers[v2]
<1>1. Len(handler) \in Nat /\ Tools!Behind \in 0..Len(handler) /\ DOMAIN handler = 1..Len(handler)
  BY HandlerIsMade
<1>2. Tools!Behind + 1 \notin Tools!EffectsOf(handler)
  BY <1>1 DEF Tools!EffectsOf
<1>3. ASSUME NEW first \in 1..(Len(handler) + 1), Tools!EffectsOf(handler) = first..Len(handler) PROVE Tools!Behind + 1 < first
  BY <1>1, <1>2, <1>3
<1>4. PICK first \in 1..(Len(handler) + 1) :
        Tools!EffectsOf(handler) = first..Len(handler) /\ v5 = SubSeq(handler, first, Tools!Behind)
  BY DEF Tools!HandledInOrder
<1>5. v5 = <<>>
  BY <1>1, <1>3, <1>4, SubSeqEmpty
<1> QED BY <1>3, <1>5

\* Going on over a step without an effect.
LEMMA GoingOn ==
  ASSUME Tools!HandledInOrder, Tools!Go, v4 # <<>>, Head(v4).does \notin Tools!Effects, v1 = "handling", UNCHANGED v5,
         Head(v4).does \in {"takes", "needs"} => Head(v4).of \notin v3,
         IF Head(v4).does = "reads" THEN v7' = "valid" ELSE v7' = v7
  PROVE  Tools!HandledInOrder'
<1> DEFINE handler == Tools!Handlers[v2]
<1>1. /\ Len(handler) \in Nat /\ Tools!Behind \in 0..Len(handler) /\ DOMAIN handler = 1..Len(handler)
      /\ Tools!Behind + 1 \in 1..Len(handler) /\ Head(v4) = handler[Tools!Behind + 1]
  BY HandlerIsMade, StepIsNext
<1>2. /\ UNCHANGED <<v1, v2, v3, v6, v8, v5>> /\ v4' = Tail(v4)
      /\ handler' = handler
  BY DEF Tools!Go
<1>3. Tools!Behind' = Tools!Behind + 1 /\ v4' = SubSeq(handler, Tools!Behind + 2, Len(handler))
  BY <1>2, StepIsNext DEF Tools!Behind
<1>4. \A k \in 1..(Tools!Behind + 1) : handler[k].does \in {"takes", "needs"} => handler[k].of \notin v3
  BY <1>1 DEF Tools!HandledInOrder
<1>5. \A k \in 1..(Tools!Behind + 1) : handler[k].does = "reads" => v7' = "valid"
  BY <1>1 DEF Tools!HandledInOrder
<1>6. v5 = <<>> /\ \A first \in 1..(Len(handler) + 1) : Tools!EffectsOf(handler) = first..Len(handler) => Tools!Behind + 1 < first
  BY <1>1, NothingWasDone
<1>7. PICK first \in 1..(Len(handler) + 1) : Tools!EffectsOf(handler) = first..Len(handler)
  BY DEF Tools!HandledInOrder
<1>8. v5' = SubSeq(handler, first, Tools!Behind + 1)
  BY <1>1, <1>2, <1>6, <1>7, SubSeqEmpty
<1>9. Tools!Range(<<>>) = {}
  BY DEF Tools!Range
<1>10. Tools!RefusedIsFree'
  BY <1>2, <1>6, <1>9 DEF Tools!RefusedIsFree
<1>11. Tools!Behind' \in 0..Len(handler) /\ v4' = SubSeq(handler, Tools!Behind' + 1, Len(handler))
  <2>1. Tools!Behind' \in 0..Len(handler) /\ Tools!Behind' + 1 = Tools!Behind + 2
    BY <1>1, <1>3
  <2> QED BY <1>3, <2>1
<1>12. (\E f \in 1..(Len(handler) + 1) : Tools!EffectsOf(handler) = f..Len(handler) /\ v5 = SubSeq(handler, f, Tools!Behind))'
  BY <1>1, <1>2, <1>3, <1>7, <1>8
<1>13. v2 \in DOMAIN Tools!Handlers /\ v3 \subseteq Tools!Wrongs(v2)
  BY DEF Tools!HandledInOrder
<1> QED BY <1>2, <1>3, <1>4, <1>5, <1>10, <1>11, <1>12, <1>13 DEF Tools!HandledInOrder

\* An answer leaves what was done as it was.
LEMMA AnswerKeepsOrder ==
  ASSUME Tools!HandledInOrder, UNCHANGED <<v2, v3, v4, v5>>, v1 \in {"handling", "answered"}, v1' = "answered",
         Tools!Range(v5) = {} \/ v7' = v7,
         Tools!RefusedIsFree'
  PROVE  Tools!HandledInOrder'
<1>1. UNCHANGED <<Tools!Behind, Tools!Handlers[v2]>>
  BY DEF Tools!Behind
<1> QED BY <1>1 DEF Tools!HandledInOrder

LEMMA RefusedAnswer ==
  ASSUME Tools!HandledInOrder, Tools!Step({"takes", "needs", "reads"}), Tools!Answer(Tools!Result("refused")),
         UNCHANGED <<v2, v3, v4, v5>>
  PROVE  Tools!HandledInOrder'
<1>1. /\ v1 = "handling" /\ v4 # <<>> /\ Head(v4).does \in {"takes", "needs", "reads"}
      /\ v8'.kind = "refused" /\ v1' = "answered"
  BY DEF Tools!Step, Tools!Answer, Tools!Result
<1>2. Tools!Behind + 1 \in 1..Len(Tools!Handlers[v2]) /\ Tools!Handlers[v2][Tools!Behind + 1].does \notin Tools!Effects
  BY <1>1, StepIsNext DEF Tools!Effects
<1>3. v5 = <<>>
  BY <1>2, NothingWasDone
<1>4. Tools!Range(<<>>) = {}
  BY DEF Tools!Range
<1>5. Tools!RefusedIsFree'
  BY <1>1, <1>3, <1>4 DEF Tools!RefusedIsFree
<1> QED BY <1>1, <1>3, <1>4, <1>5, AnswerKeepsOrder

LEMMA EffectKeepsOrder == ASSUME Tools!HandledInOrder, Tools!Effect PROVE Tools!HandledInOrder'
<1> DEFINE handler == Tools!Handlers[v2]
<1>1. /\ v1 = "handling" /\ v4 # <<>> /\ Head(v4).does \in Tools!Effects /\ v5' = Append(v5, Head(v4))
      /\ UNCHANGED <<v1, v2, v3, v6, v8, v7>> /\ v4' = Tail(v4) /\ handler' = handler
  BY DEF Tools!Effect, Tools!Step, Tools!Go
<1>2. /\ Len(handler) \in Nat /\ Tools!Behind \in 0..Len(handler) /\ DOMAIN handler = 1..Len(handler)
      /\ handler \in Seq(Tools!Range(handler))
      /\ Tools!Behind + 1 \in 1..Len(handler) /\ Head(v4) = handler[Tools!Behind + 1]
  BY <1>1, HandlerIsMade, StepIsNext
<1>3. Tools!Behind' = Tools!Behind + 1 /\ v4' = SubSeq(handler, Tools!Behind + 2, Len(handler))
  BY <1>1, StepIsNext DEF Tools!Behind
<1>4. PICK first \in 1..(Len(handler) + 1) :
        Tools!EffectsOf(handler) = first..Len(handler) /\ v5 = SubSeq(handler, first, Tools!Behind)
  BY DEF Tools!HandledInOrder
<1>5. first <= Tools!Behind + 1
  <2>1. Tools!Behind + 1 \in Tools!EffectsOf(handler)
    BY <1>1, <1>2 DEF Tools!EffectsOf
  <2> QED BY <1>2, <1>4, <2>1
<1>6. \A i \in first..(Tools!Behind + 1) : handler[i] \in Tools!Range(handler)
  BY <1>2, <1>4, ElementOfSeq
<1>7. v5' = SubSeq(handler, first, Tools!Behind + 1)
  <2>1. first \in 1..Len(handler) /\ Tools!Behind \in Int /\ Tools!Behind + 1 \in first..Len(handler)
    BY <1>2, <1>4, <1>5
  <2>2. Append(SubSeq(handler, first, Tools!Behind), handler[Tools!Behind + 1]) = SubSeq(handler, first, Tools!Behind + 1)
    <3> HIDE DEF handler
    <3> QED BY <1>2, <2>1, OneStepMore
  <2> QED BY <1>1, <1>2, <1>4, <2>2
<1>8. Tools!Range(v5') \subseteq Tools!Range(v5) \union {handler[Tools!Behind + 1]}
  <2>1. v5 \in Seq(Tools!Range(handler)) /\ handler[Tools!Behind + 1] \in Tools!Range(handler)
    BY <1>2, <1>4, <1>5, <1>6, SubSeqProperties
  <2>2. Len(v5') = Len(v5) + 1 /\ v5' \in Seq(Tools!Range(handler)) /\ v5'[Len(v5) + 1] = handler[Tools!Behind + 1]
        /\ \A i \in 1..Len(v5) : v5'[i] = v5[i]
    BY <1>1, <1>2, <2>1, AppendProperties
  <2>3. DOMAIN v5 = 1..Len(v5) /\ DOMAIN v5' = 1..(Len(v5) + 1) /\ Len(v5) \in Nat
    BY <2>1, <2>2, LenProperties
  <2> QED BY <2>2, <2>3 DEF Tools!Range
<1>9. \A k \in DOMAIN handler : handler[k].does \notin Tools!Effects => k \in 1..Tools!Behind
  BY <1>2, <1>4, <1>5 DEF Tools!EffectsOf
<1>10. AsksConsent(handler)
  BY HandlerIsMade DEF WellMade
<1>11. handler[Tools!Behind + 1] = Tools!Runs("code") => {"consent", "gate"} \intersect v3 = {}
  <2>1. SUFFICES ASSUME handler[Tools!Behind + 1] = Tools!Runs("code") PROVE {"consent", "gate"} \intersect v3 = {}
    OBVIOUS
  <2>2. Tools!Runs("code") \in Tools!Range(handler)
    BY <1>2, <2>1 DEF Tools!Range
  <2>3. PICK i \in DOMAIN handler : handler[i] = Tools!Needs("consent")
    BY <1>10, <2>2 DEF AsksConsent, Tools!Range
  <2>4. PICK j \in DOMAIN handler : handler[j] = Tools!Needs("gate")
    BY <1>10, <2>2 DEF AsksConsent, Tools!Range
  <2>5. i \in 1..Tools!Behind /\ j \in 1..Tools!Behind
    BY <1>9, <2>3, <2>4 DEF Tools!Needs, Tools!Effects
  <2>6. handler[i].of \notin v3 /\ handler[j].of \notin v3
    BY <2>3, <2>4, <2>5 DEF Tools!HandledInOrder, Tools!Needs
  <2> QED BY <2>3, <2>4, <2>6 DEF Tools!Needs
<1>12. handler[Tools!Behind + 1] \in {Tools!Asks("program"), Tools!Writes("copy")} => v7 = "valid"
  <2>1. SUFFICES ASSUME handler[Tools!Behind + 1] \in {Tools!Asks("program"), Tools!Writes("copy")} PROVE v7 = "valid"
    OBVIOUS
  <2>2. Tools!Asks("program") \in Tools!Range(handler) \/ Tools!Writes("copy") \in Tools!Range(handler)
    BY <1>2, <2>1 DEF Tools!Range
  <2>3. PICK i \in DOMAIN handler : handler[i].does = "reads"
    BY <1>10, <2>2 DEF AsksConsent
  <2>4. i \in 1..Tools!Behind
    BY <1>9, <2>3 DEF Tools!Effects
  <2> QED BY <1>1, <2>3, <2>4 DEF Tools!HandledInOrder
<1>13. Tools!RefusedIsFree'
  <2>1. v1' = "handling"
    BY <1>1
  <2>2. /\ Tools!Runs("code") \in Tools!Range(v5) => {"consent", "gate"} \intersect v3 = {}
        /\ Tools!Asks("program") \in Tools!Range(v5) \/ Tools!Writes("copy") \in Tools!Range(v5) => v7 = "valid"
    BY DEF Tools!HandledInOrder, Tools!RefusedIsFree
  <2>3. Tools!Runs("code") \in Tools!Range(v5') => {"consent", "gate"} \intersect v3 = {}
    BY <1>8, <1>11, <2>2
  <2>4. Tools!Asks("program") \in Tools!Range(v5') \/ Tools!Writes("copy") \in Tools!Range(v5') => v7 = "valid"
    BY <1>8, <1>12, <2>2
  <2> QED BY <1>1, <2>1, <2>3, <2>4 DEF Tools!RefusedIsFree
<1>14. \A k \in 1..(Tools!Behind + 1) : handler[k].does \in {"takes", "needs"} => handler[k].of \notin v3
  BY <1>1, <1>2 DEF Tools!HandledInOrder, Tools!Effects
<1>15. \A k \in 1..(Tools!Behind + 1) : handler[k].does = "reads" => v7 = "valid"
  BY <1>1, <1>2 DEF Tools!HandledInOrder, Tools!Effects
<1>16. (\E f \in 1..(Len(handler) + 1) : Tools!EffectsOf(handler) = f..Len(handler) /\ v5 = SubSeq(handler, f, Tools!Behind))'
  BY <1>1, <1>2, <1>3, <1>4, <1>7
<1>17. Tools!Behind' \in 0..Len(handler) /\ v4' = SubSeq(handler, Tools!Behind' + 1, Len(handler))
  <2>1. Tools!Behind' \in 0..Len(handler) /\ Tools!Behind' + 1 = Tools!Behind + 2
    BY <1>2, <1>3
  <2> QED BY <1>3, <2>1
<1>18. v2 \in DOMAIN Tools!Handlers /\ v3 \subseteq Tools!Wrongs(v2)
  BY DEF Tools!HandledInOrder
<1> QED BY <1>1, <1>3, <1>13, <1>14, <1>15, <1>16, <1>17, <1>18 DEF Tools!HandledInOrder

LEMMA SucceedKeepsOrder == ASSUME ToolServerConstants, Tools!HandledInOrder, Tools!Succeed PROVE Tools!HandledInOrder'
<1> DEFINE handler == Tools!Handlers[v2]
<1>1. /\ v1 = "handling" /\ v4 = <<>> /\ UNCHANGED <<v2, v3, v4, v5, v7>> /\ v1' = "answered"
      /\ v8'.kind = "success" /\ handler' = handler
  BY DEF Tools!Succeed, Tools!Answer, Tools!Result, Tools!Cut
<1>2. v2 = "alpha" /\ ~v8'.has_more => v8'.size < MaxResults
  <2>1. SUFFICES ASSUME v2 = "alpha", ~v8'.has_more PROVE v8'.size < MaxResults
    OBVIOUS
  <2>2. PICK found \in 0..MaxFound : v8' = Tools!Cut(found)
    BY <2>1 DEF Tools!Succeed, Tools!Answer
  <2>3. ~(found >= MaxResults)
    BY <2>1, <2>2 DEF Tools!Cut
  <2> QED BY <2>2, <2>3 DEF Tools!Cut, ToolServerConstants
<1>3. Len(handler) \in Nat /\ Tools!Behind \in 0..Len(handler) /\ DOMAIN handler = 1..Len(handler)
  BY HandlerIsMade
<1>4. Tools!Behind = Len(handler)
  BY <1>1, <1>3, EmptySeq DEF Tools!Behind
<1>5. v3 = {}
  <2>1. \A k \in DOMAIN handler : handler[k].does \in {"takes", "needs"} => handler[k].of \notin v3
    BY <1>3, <1>4 DEF Tools!HandledInOrder
  <2> QED BY <2>1 DEF Tools!HandledInOrder, Tools!Wrongs
<1>6. \E first \in 1..(Len(handler) + 1) :
        Tools!EffectsOf(handler) = first..Len(handler) /\ v5 = SubSeq(handler, first, Len(handler))
  BY <1>4 DEF Tools!HandledInOrder
<1>7. /\ Tools!Runs("code") \in Tools!Range(v5) => {"consent", "gate"} \intersect v3 = {}
      /\ Tools!Asks("program") \in Tools!Range(v5) \/ Tools!Writes("copy") \in Tools!Range(v5) => v7 = "valid"
  BY DEF Tools!HandledInOrder, Tools!RefusedIsFree
<1>8. Tools!RefusedIsFree'
  BY <1>1, <1>2, <1>5, <1>6, <1>7 DEF Tools!RefusedIsFree
<1> QED BY <1>1, <1>8, AnswerKeepsOrder

LEMMA HandledNext == ASSUME ToolServerConstants, Tools!HandledInOrder, [Tools!Next]_(Tools!vars) PROVE Tools!HandledInOrder'
<1>1. CASE Tools!Begin
  <2>1. v1 = "received" /\ v1' = "handling" /\ UNCHANGED <<v2, v3, v4, v5, v6, v7, v8>>
    BY <1>1 DEF Tools!Begin
  <2>2. UNCHANGED <<Tools!Behind, Tools!Handlers[v2], Tools!Range(v5)>>
    BY <2>1 DEF Tools!Behind
  <2>3. Tools!RefusedIsFree'
    BY <2>1, <2>2 DEF Tools!HandledInOrder, Tools!RefusedIsFree
  <2> QED BY <2>1, <2>2, <2>3 DEF Tools!HandledInOrder
<1>2. CASE Tools!Accept
  BY <1>2, GoingOn DEF Tools!Accept, Tools!Step, Tools!Effects
<1>3. CASE Tools!Refuse
  BY <1>3, RefusedAnswer DEF Tools!Refuse, Tools!Step
<1>4. CASE Tools!Read
  <2>1. CASE v6 = "valid"
    BY <1>4, <2>1, GoingOn DEF Tools!Read, Tools!Step, Tools!Effects
  <2>2. CASE v6 # "valid"
    BY <1>4, <2>2, RefusedAnswer DEF Tools!Read, Tools!Step
  <2> QED BY <2>1, <2>2
<1>5. CASE Tools!Effect
  BY <1>5, EffectKeepsOrder
<1>6. CASE Tools!Fails
  <2>1. /\ v1 = "handling" /\ UNCHANGED <<v2, v3, v4, v5, v7>> /\ v1' = "answered"
        /\ v8'.kind = "failed"
    BY <1>6 DEF Tools!Fails, Tools!Step, Tools!Answer, Tools!Result
  <2>2. Tools!RefusedIsFree'
    BY <2>1 DEF Tools!HandledInOrder, Tools!RefusedIsFree
  <2> QED BY <2>1, <2>2, AnswerKeepsOrder
<1>7. CASE Tools!Succeed
  BY <1>7, SucceedKeepsOrder
<1>8. CASE Tools!FileChanges \/ UNCHANGED Tools!vars
  <2>1. UNCHANGED <<v1, v2, v3, v4, v5, v7, v8>>
    BY <1>8 DEF Tools!FileChanges, Tools!vars
  <2>2. UNCHANGED <<Tools!Behind, Tools!Handlers[v2], Tools!Range(v5)>>
    BY <2>1 DEF Tools!Behind
  <2>3. Tools!RefusedIsFree'
    BY <2>1, <2>2 DEF Tools!HandledInOrder, Tools!RefusedIsFree
  <2> QED BY <2>1, <2>2, <2>3 DEF Tools!HandledInOrder
<1> QED BY <1>1, <1>2, <1>3, <1>4, <1>5, <1>6, <1>7, <1>8 DEF Tools!Next

LEMMA HandledImplies == ASSUME Tools!HandledInOrder PROVE Tools!RefusedIsFree
BY DEF Tools!HandledInOrder

-----------------------------------------------------------------------------
(* The schema of a tool (ToolSchema):                                      *)
(* v1 params; v2 at; v3 schema; v4 given.                                  *)

LEMMA SchemaInit == ASSUME Schemas!Init PROVE Schemas!SchemaIsOfParams
<1>1. PICK n \in 0..MaxParams : v1 \in [1..n -> Schemas!Params]
  BY DEF Schemas!Init
<1> QED BY <1>1 DEF Schemas!Init, Schemas!SchemaIsOfParams

LEMMA SchemaNext == ASSUME Schemas!SchemaIsOfParams, [Schemas!Next]_(Schemas!vars) PROVE Schemas!SchemaIsOfParams'
<1>1. CASE Schemas!FromCallable
  BY <1>1 DEF Schemas!FromCallable, Schemas!SchemaIsOfParams
<1>2. CASE Schemas!NoSchema
  BY <1>2 DEF Schemas!NoSchema, Schemas!SchemaIsOfParams
<1>3. CASE Schemas!Invoke
  BY <1>3 DEF Schemas!Invoke, Schemas!SchemaIsOfParams
<1>4. CASE Schemas!Execute
  BY <1>4 DEF Schemas!Execute, Schemas!SchemaIsOfParams
<1>5. CASE Schemas!CannotBind
  BY <1>5 DEF Schemas!CannotBind, Schemas!SchemaIsOfParams
<1>6. CASE UNCHANGED Schemas!vars
  BY <1>6 DEF Schemas!vars, Schemas!SchemaIsOfParams
<1> QED BY <1>1, <1>2, <1>3, <1>4, <1>5, <1>6 DEF Schemas!Next

LEMMA SchemaImplies == ASSUME Schemas!SchemaIsOfParams PROVE Schemas!SchemaCallsBind
<1>1. ASSUME v2 = "called", ~Schemas!Binds(v4)
      PROVE  \/ \E k \in v3.properties \ v4 : v1[k].hint = "optional" /\ ~v1[k].default
             \/ \E k \in DOMAIN v1 : v1[k].kind = "positional"
             \/ \E k \in DOMAIN v1 : v1[k].name = "self"
  <2>1. /\ v3.properties = Schemas!Described(v1)
        /\ v3.required = {k \in Schemas!Described(v1) : Schemas!Required(v1[k], k)}
        /\ v3.required \subseteq v4 /\ v4 \subseteq Schemas!Described(v1)
    BY <1>1 DEF Schemas!SchemaIsOfParams
  <2>2. CASE \E k \in v4 : v1[k].kind # "keyword"
    <3>1. PICK k \in v4 : v1[k].kind # "keyword"
      BY <2>2
    <3>2. k \in DOMAIN v1 /\ v1[k].kind # "star" /\ v1[k].kind \in Schemas!Kinds
      BY <2>1 DEF Schemas!Described, Schemas!SchemaIsOfParams, Schemas!Params
    <3>3. v1[k].kind = "positional"
      BY <3>1, <3>2 DEF Schemas!Kinds
    <3> QED BY <3>2, <3>3
  <2>3. CASE \E k \in DOMAIN v1 : k \notin v4 /\ ~v1[k].default /\ v1[k].kind # "star"
    <3>1. PICK k \in DOMAIN v1 : k \notin v4 /\ ~v1[k].default /\ v1[k].kind # "star"
      BY <2>3
    <3>2. CASE v1[k].name = "self"
      BY <3>2
    <3>3. CASE v1[k].name # "self"
      <4>1. k \in Schemas!Described(v1) /\ ~Schemas!Required(v1[k], k)
        BY <2>1, <3>1, <3>3 DEF Schemas!Described
      <4> QED BY <2>1, <3>1, <4>1 DEF Schemas!Required
    <3> QED BY <3>2, <3>3
  <2> QED BY <1>1, <2>2, <2>3 DEF Schemas!Binds
<1>2. ASSUME v2 = "described", NEW k \in v3.required PROVE ~Schemas!Binds(v3.properties \ {k})
  <2>1. k \in Schemas!Described(v1) /\ Schemas!Required(v1[k], k)
    BY <1>2 DEF Schemas!SchemaIsOfParams
  <2>2. k \in DOMAIN v1 /\ v1[k].kind # "star" /\ ~v1[k].default
    BY <2>1 DEF Schemas!Described, Schemas!Required
  <2> QED BY <2>2 DEF Schemas!Binds
<1> QED BY <1>1, <1>2 DEF Schemas!SchemaCallsBind

-----------------------------------------------------------------------------
(* Extraction from a document (Extraction):                                *)
(* v1 at; v2 refusal; v3 chunks; v4 hits; v5 answer; v6 cells; v7 heard;   *)
(* v8 spent; v9 refused; v10 paid; Columns is TableColumns;                *)
(* Fields is ColumnAnswers; HitChoices is RuleHits; Odd is Pending;        *)
(* Nothing is None; Insufficient is Failed; ChunkCounts is ChunkNumbers;   *)
(* MaxChunks is ChunkCap; MaxCost is RetryCap; Costs is ChunkPrices.       *)

(* Values and hits                                                         *)

\* The places of a finite set of them, in order.
LEMMA NthIsPlace ==
  ASSUME NEW n \in Nat, NEW S, S \subseteq 1..n, NEW i \in 1..Cardinality(S)
  PROVE  Extracts!Nth(S, i) \in S /\ Cardinality(UpTo(S, Extracts!Nth(S, i))) = i
<1>1. PICK l \in S : Cardinality(UpTo(S, l)) = i
  BY EveryRankIsTaken
<1>2. \E k \in S : Cardinality({j \in S : j <= k}) = i
  BY <1>1 DEF UpTo
<1> QED BY <1>2, ExtractsCounts DEF Extracts!Nth, UpTo

LEMMA PlaceIsNth ==
  ASSUME NEW n \in Nat, NEW S, S \subseteq 1..n, NEW k \in S
  PROVE  Cardinality(UpTo(S, k)) \in 1..Cardinality(S) /\ Extracts!Nth(S, Cardinality(UpTo(S, k))) = k
<1>1. k \in UpTo(S, k)
  BY DEF UpTo
<1>2. IsFiniteSet(UpTo(S, k)) /\ Cardinality(UpTo(S, k)) \in Nat /\ Cardinality(UpTo(S, k)) <= Cardinality(S)
      /\ Cardinality(S) \in Nat
  BY UpToFinite
<1>3. Cardinality(UpTo(S, k)) # 0
  BY <1>1, <1>2, FS_EmptySet
<1>4. Cardinality(UpTo(S, k)) \in 1..Cardinality(S)
  BY <1>2, <1>3
<1>5. /\ Extracts!Nth(S, Cardinality(UpTo(S, k))) \in S
      /\ Cardinality(UpTo(S, Extracts!Nth(S, Cardinality(UpTo(S, k))))) = Cardinality(UpTo(S, k))
  BY <1>4, NthIsPlace
<1> HIDE DEF Extracts!Nth, UpTo
<1>6. Extracts!Nth(S, Cardinality(UpTo(S, k))) = k
  BY <1>5, RankIsUnique
<1> QED BY <1>4, <1>6

\* Two lists one behind the other.
LEMMA Joined ==
  ASSUME NEW A, NEW B, NEW s \in Seq(A), NEW m \in Nat, NEW f \in [1..m -> B]
  PROVE  /\ Len(s \o f) = Len(s) + m
         /\ \A k \in 1..Len(s) : (s \o f)[k] = s[k]
         /\ \A k \in (Len(s) + 1)..(Len(s) + m) : (s \o f)[k] = f[k - Len(s)]
         /\ s \o f \in Seq(A \union B)
<1>1. f \in Seq(B) /\ Len(f) = m
  OBVIOUS
<1>2. s \in Seq(A \union B) /\ f \in Seq(A \union B)
  BY <1>1
<1> QED BY <1>1, <1>2

Begins(all, values) == Len(values) <= Len(all) /\ \A k \in DOMAIN values : all[k] = values[k]
OnceBehind(all, n) == \A j, k \in (n + 1)..Len(all) : all[j] = all[k] => j = k

\* Every hit is in the union, and the new ones are there once.
LEMMA UnionHas ==
  ASSUME NEW values, values \in Seq(Extracts!Range(values)), NEW found, found \in Seq(Extracts!Range(found)),
         NEW all, all = Extracts!Union(values, found)
  PROVE  /\ all \in Seq(Extracts!Range(values) \union Extracts!Range(found))
         /\ Begins(all, values)
         /\ Extracts!Range(found) \subseteq Extracts!Range(all)
         /\ Extracts!Range(all) \subseteq Extracts!Range(values) \union Extracts!Range(found)
         /\ OnceBehind(all, Len(values))
<1> DEFINE S == Extracts!NewIn(values, found)
           m == Cardinality(S)
           f == [i \in 1..m |-> found[Extracts!Nth(S, i)]]
           n == Len(found)
           l == Len(values)
<1>1. n \in Nat /\ DOMAIN found = 1..n /\ l \in Nat /\ DOMAIN values = 1..l
  OBVIOUS
<1>2. S \subseteq 1..n
  BY <1>1 DEF Extracts!NewIn
<1>3. m \in Nat
  BY <1>1, <1>2, UpToFinite
<1>4. \A i \in 1..m : Extracts!Nth(S, i) \in S /\ Cardinality(UpTo(S, Extracts!Nth(S, i))) = i
  BY <1>1, <1>2, NthIsPlace
<1>5. \A k \in S : found[k] \in Extracts!Range(found) /\ found[k] \notin Extracts!Range(values)
                    /\ \A j \in S : found[j] = found[k] => j = k
  <2>1. \A k \in S : k \in DOMAIN found /\ found[k] \notin Extracts!Range(values) /\ \A j \in 1..(k - 1) : found[j] # found[k]
    BY DEF Extracts!NewIn
  <2>2. ASSUME NEW j \in S, NEW k \in S, found[j] = found[k] PROVE j = k
    <3>1. j \in 1..n /\ k \in 1..n
      BY <1>2
    <3>2. ~(j < k) /\ ~(k < j)
      BY <2>1, <2>2, <3>1
    <3> QED BY <3>1, <3>2
  <2> QED BY <2>1, <2>2 DEF Extracts!Range
<1>6. f \in [1..m -> Extracts!Range(found)]
  BY <1>4, <1>5
<1>7. all = values \o f
  BY ExtractsCounts DEF Extracts!Union
<1> HIDE DEF f, m, n, l
<1>8. /\ Len(all) = l + m
      /\ \A k \in 1..l : all[k] = values[k]
      /\ \A k \in (l + 1)..(l + m) : all[k] = f[k - l]
      /\ all \in Seq(Extracts!Range(values) \union Extracts!Range(found))
  <2>1. /\ Len(values \o f) = Len(values) + m
        /\ \A k \in 1..Len(values) : (values \o f)[k] = values[k]
        /\ \A k \in (Len(values) + 1)..(Len(values) + m) : (values \o f)[k] = f[k - Len(values)]
        /\ values \o f \in Seq(Extracts!Range(values) \union Extracts!Range(found))
    BY <1>3, <1>6, Joined
  <2> QED BY <1>7, <2>1 DEF l
<1>9. DOMAIN all = 1..(l + m)
  BY <1>1, <1>3, <1>8
<1>10. \A i \in 1..m : f[i] = found[Extracts!Nth(S, i)]
  BY DEF f
<1>11. ASSUME NEW x \in Extracts!Range(found) PROVE x \in Extracts!Range(all)
  <2>1. PICK k0 \in 1..n : found[k0] = x
    BY <1>1 DEF Extracts!Range
  <2> DEFINE Same == {k \in 1..n : found[k] = x}
  <2>2. Same \subseteq Nat /\ Same # {}
    BY <1>1, <2>1
  <2> HIDE DEF Same
  <2>3. PICK k \in Same : \A y \in Same : k <= y
    BY <2>2, LeastOf
  <2>4. k \in 1..n /\ found[k] = x /\ \A j \in 1..(k - 1) : found[j] # x
    BY <1>1, <2>3 DEF Same
  <2>5. CASE x \in Extracts!Range(values)
    <3>1. PICK j \in 1..l : values[j] = x
      BY <1>1, <2>5 DEF Extracts!Range
    <3>2. j \in DOMAIN all /\ all[j] = x
      BY <1>1, <1>3, <1>8, <1>9, <3>1
    <3> QED BY <3>2 DEF Extracts!Range
  <2>6. CASE x \notin Extracts!Range(values)
    <3>1. k \in S
      BY <1>1, <2>4, <2>6 DEF Extracts!NewIn
    <3> DEFINE i == Cardinality(UpTo(S, k))
    <3>2. i \in 1..m /\ Extracts!Nth(S, i) = k
      BY <1>1, <1>2, <3>1, PlaceIsNth DEF m
    <3> HIDE DEF i
    <3>3. l + i \in (l + 1)..(l + m) /\ (l + i) - l = i
      BY <1>1, <1>3, <3>2
    <3>4. all[l + i] = x /\ l + i \in DOMAIN all
      BY <1>1, <1>3, <1>8, <1>9, <1>10, <2>4, <3>2, <3>3
    <3> QED BY <3>4 DEF Extracts!Range
  <2> QED BY <2>5, <2>6
<1>12. ASSUME NEW x \in Extracts!Range(all) PROVE x \in Extracts!Range(values) \union Extracts!Range(found)
  <2>1. PICK k \in 1..(l + m) : all[k] = x
    BY <1>9 DEF Extracts!Range
  <2>2. CASE k \in 1..l
    BY <1>1, <1>8, <2>1, <2>2 DEF Extracts!Range
  <2>3. CASE k \in (l + 1)..(l + m)
    <3>1. k - l \in 1..m /\ all[k] = f[k - l]
      BY <1>1, <1>3, <1>8, <2>3
    <3> QED BY <1>6, <2>1, <3>1
  <2> QED BY <1>1, <1>3, <2>1, <2>2, <2>3
<1>13. ASSUME NEW j \in (l + 1)..(l + m), NEW k \in (l + 1)..(l + m), all[j] = all[k] PROVE j = k
  <2>1. j - l \in 1..m /\ k - l \in 1..m /\ j \in Int /\ k \in Int
    BY <1>1, <1>3
  <2>2. found[Extracts!Nth(S, j - l)] = found[Extracts!Nth(S, k - l)]
    BY <1>8, <1>10, <1>13, <2>1
  <2>3. Extracts!Nth(S, j - l) = Extracts!Nth(S, k - l)
    BY <1>4, <1>5, <2>1, <2>2
  <2>4. j - l = k - l
    BY <1>4, <2>1, <2>3
  <2> QED BY <1>1, <2>1, <2>4
<1>14. l <= Len(all)
  BY <1>1, <1>3, <1>8
<1> QED BY <1>1, <1>8, <1>11, <1>12, <1>13, <1>14 DEF l, Begins, OnceBehind

-----------------------------------------------------------------------------
(* What the model and the rules give                                       *)

Gives(c, fields) == fields[c] # Failed /\ (fields[c] # None \/ TableColumns[c].required)
FromAnswer(c, fields, cell) ==
  /\ cell.status \in {"extracted", "not_in_document"} /\ cell.by \in {"model", "rule"}
  /\ cell.by = "model" /\ cell.status = "extracted" =>
       /\ Gives(c, fields)
       /\ \/ cell.value = fields[c]
          \/ /\ Begins(cell.value, fields[c]) /\ Extracts!Range(v4[c]) \subseteq Extracts!Range(cell.value)
             /\ OnceBehind(cell.value, Len(fields[c]))
  /\ cell.by = "rule" =>
       /\ ~Gives(c, fields) \/ ~Extracts!IsList(c, fields[c])
       /\ \A j, k \in DOMAIN cell.value : cell.value[j] = cell.value[k] => j = k
       /\ Extracts!Range(cell.value) = Extracts!Range(v4[c])
       /\ TableColumns[c].type = "scalar" => Len(v4[c]) = 1
  /\ cell.by = "rule" => cell.status = "extracted"
  /\ cell.status # "extracted" => ~Gives(c, fields) /\ ~(TableColumns[c].type = "scalar" /\ Len(v4[c]) = 1)

LEMMA ProjectedIs ==
  ASSUME NEW c, NEW fields
  PROVE  /\ Gives(c, fields) => Extracts!Projected(c, fields[c]) = Extracts!Cell("extracted", fields[c], "model")
         /\ ~Gives(c, fields) => Extracts!Projected(c, fields[c]) = Extracts!Cell("not_in_document", None, "model")
BY DEF Extracts!Projected, Gives

LEMMA MergedIs ==
  ASSUME ExtractionConstants, v4 \in RuleHits, NEW fields \in ColumnAnswers, NEW c \in Extracts!Cols
  PROVE  FromAnswer(c, fields, Extracts!Merged(c, Extracts!Projected(c, fields[c]), v4[c]))
<1> DEFINE cell == Extracts!Projected(c, fields[c])
           found == v4[c]
<1>1. /\ TableColumns[c].type \in {"scalar", "list", "text"}
      /\ TableColumns[c].type = "list" =>
           fields[c] \in {None, Pending, Failed} \/ fields[c] \in Seq(Extracts!Range(fields[c]))
      /\ found \in Seq(Extracts!Range(found))
  BY DEF ExtractionConstants
<1>2. /\ Gives(c, fields) => cell = Extracts!Cell("extracted", fields[c], "model")
      /\ ~Gives(c, fields) => cell = Extracts!Cell("not_in_document", None, "model")
  BY ProjectedIs
<1>3. /\ cell.status \in {"extracted", "not_in_document"} /\ cell.by = "model"
      /\ cell.status = "extracted" <=> Gives(c, fields)
      /\ Gives(c, fields) => cell.value = fields[c]
  BY <1>2 DEF Extracts!Cell
<1> HIDE DEF cell, found
<1>4. CASE TableColumns[c].type = "text"
  <2>1. Extracts!Merged(c, cell, found) = cell
    BY <1>3, <1>4 DEF Extracts!Merged
  <2> QED BY <1>3, <1>4, <2>1 DEF FromAnswer, cell, found
<1>5. CASE TableColumns[c].type = "scalar"
  <2>1. CASE cell.status # "extracted" /\ Len(found) = 1
    <3>1. Extracts!Merged(c, cell, found) = Extracts!Cell("extracted", found, "rule")
      BY <1>3, <1>5, <2>1 DEF Extracts!Merged, Extracts!Unambiguous
    <3>2. DOMAIN found = {1}
      BY <1>1, <2>1
    <3> QED BY <1>3, <1>5, <2>1, <3>1, <3>2 DEF FromAnswer, Extracts!Cell, cell, found
  <2>2. CASE ~(cell.status # "extracted" /\ Len(found) = 1)
    <3>1. Extracts!Merged(c, cell, found) = cell
      BY <1>3, <1>5, <2>2 DEF Extracts!Merged, Extracts!Unambiguous
    <3> QED BY <1>3, <2>2, <3>1 DEF FromAnswer, cell, found
  <2> QED BY <2>1, <2>2
<1>6. CASE TableColumns[c].type = "list"
  <2>1. CASE cell.status = "extracted" /\ Extracts!IsList(c, cell.value)
    <3>1. Extracts!Merged(c, cell, found) = [cell EXCEPT !.value = Extracts!Union(cell.value, found)]
      BY <1>3, <1>6, <2>1 DEF Extracts!Merged
    <3>2. cell.value = fields[c] /\ fields[c] \in Seq(Extracts!Range(fields[c])) /\ Gives(c, fields)
      BY <1>1, <1>3, <1>6, <2>1 DEF Extracts!IsList, Gives
    <3> DEFINE all == Extracts!Union(fields[c], found)
    <3>3. cell = Extracts!Cell("extracted", fields[c], "model")
      BY <1>2, <3>2
    <3>4. Extracts!Merged(c, cell, found) = Extracts!Cell("extracted", all, "model")
      BY <3>1, <3>2, <3>3 DEF Extracts!Cell
    <3>5. Begins(all, fields[c]) /\ Extracts!Range(found) \subseteq Extracts!Range(all) /\ OnceBehind(all, Len(fields[c]))
      BY <1>1, <3>2, UnionHas
    <3> HIDE DEF all
    <3> QED BY <3>2, <3>4, <3>5 DEF FromAnswer, Extracts!Cell, cell, found
  <2>2. CASE ~(cell.status = "extracted" /\ Extracts!IsList(c, cell.value)) /\ found # <<>>
    <3> DEFINE all == Extracts!Union(<<>>, found)
    <3>1. Extracts!Merged(c, cell, found) = Extracts!Cell("extracted", all, "rule")
      BY <1>3, <1>6, <2>2 DEF Extracts!Merged
    <3>2. << >> \in Seq(Extracts!Range(<< >>)) /\ Len(<< >>) = 0 /\ Extracts!Range(<< >>) = {}
      BY DEF Extracts!Range
    <3>3. /\ all \in Seq(Extracts!Range(<< >>) \union Extracts!Range(found))
          /\ Extracts!Range(found) \subseteq Extracts!Range(all)
          /\ Extracts!Range(all) \subseteq Extracts!Range(<< >>) \union Extracts!Range(found)
          /\ OnceBehind(all, Len(<< >>))
      BY <1>1, <3>2, UnionHas
    <3> HIDE DEF all
    <3>4. DOMAIN all = 1..Len(all)
      BY <3>3
    <3>5. Extracts!Range(all) = Extracts!Range(found)
      BY <3>2, <3>3
    <3>7. \A j, k \in DOMAIN all : all[j] = all[k] => j = k
      BY <3>2, <3>3, <3>4 DEF OnceBehind
    <3>6. ~Gives(c, fields) \/ ~Extracts!IsList(c, fields[c])
      BY <1>3, <2>2
    <3> QED BY <1>6, <3>1, <3>5, <3>6, <3>7 DEF FromAnswer, Extracts!Cell, cell, found
  <2>3. CASE ~(cell.status = "extracted" /\ Extracts!IsList(c, cell.value)) /\ found = <<>>
    <3>1. Extracts!Merged(c, cell, found) = cell
      BY <1>3, <1>6, <2>3 DEF Extracts!Merged
    <3> QED BY <1>3, <1>6, <3>1 DEF FromAnswer, cell, found
  <2> QED BY <2>1, <2>2, <2>3
<1> QED BY <1>1, <1>4, <1>5, <1>6 DEF cell, found

-----------------------------------------------------------------------------
(* The invariant                                                           *)

\* A cell that the answer gave is sourced, unless a chunk could have given it.
Unheard(c) == \A k \in DOMAIN v7 : v7[k] = None \/ Extracts!Projected(c, v7[k][c]).status # "extracted"
SourcedIfUnheard ==
  \A c \in Extracts!Cols : FromAnswer(c, v5, v6[c]) /\ (v6[c].status # "extracted" => Unheard(c)) => Extracts!Sourced(c)

LEMMA AnswerIsSource == SourcedIfUnheard
<1> SUFFICES ASSUME NEW c \in Extracts!Cols, FromAnswer(c, v5, v6[c]), v6[c].status # "extracted" => Unheard(c)
             PROVE  Extracts!Sourced(c)
  BY DEF SourcedIfUnheard
<1>1. Extracts!Gave(c) <=> Gives(c, v5)
  BY DEF Extracts!Gave, Gives
<1>2. CASE v6[c].by = "model" /\ v6[c].status = "extracted"
  BY <1>1, <1>2 DEF Extracts!Sourced, FromAnswer, Begins, OnceBehind
<1>3. CASE v6[c].by = "rule"
  BY <1>1, <1>3 DEF Extracts!Sourced, FromAnswer
<1>4. CASE v6[c].by = "model" /\ v6[c].status # "extracted"
  BY <1>1, <1>4 DEF Extracts!Sourced, FromAnswer, Unheard
<1> QED BY <1>2, <1>3, <1>4 DEF FromAnswer

SpentInBudget ==
  \A c \in ChunkPrices : Extracts!NoChunkCostsMore(c) =>
    /\ v8 = 0 \/ v8 < RetryCap + c
    /\ v8 <= v10 /\ v10 - v8 <= c * Cardinality(Extracts!FailedChunks)

LEMMA FinishIsHonest ==
  ASSUME ExtractionConstants, NEW cs, Extracts!Finish(cs), v2' = v2, SpentInBudget',
         \A c \in Extracts!Cols : cs[c].status # "error",
         v6' = cs => \A c \in Extracts!Cols : Extracts!Sourced(c)'
  PROVE  Extracts!ExtractionIsHonest'
<1>1. cs # Extracts!Errors
  BY DEF ExtractionConstants, Extracts!Errors, Extracts!Cell
<1>2. /\ v1' = "returned"
      /\ v6' = IF Extracts!RefusedIn(cs) # {} /\ v2 # "field" THEN Extracts!Errors ELSE cs
      /\ v9' = IF Extracts!RefusedIn(cs) # {} /\ v2 = "never" THEN Extracts!Cols ELSE Extracts!RefusedIn(cs)
  BY DEF Extracts!Finish, Extracts!WholeRow
<1>3. Extracts!Errors' = Extracts!Errors /\ Extracts!Cols # {}
  BY DEF Extracts!Errors, ExtractionConstants
<1>4. CASE Extracts!RefusedIn(cs) # {} /\ v2 # "field"
  <2>1. v6' = Extracts!Errors /\ v9' # {}
    BY <1>2, <1>3, <1>4
  <2> HIDE DEF Extracts!Errors
  <2> QED BY <1>3, <1>4, <2>1, ExtractsCounts DEF Extracts!ExtractionIsHonest, SpentInBudget
<1>5. CASE ~(Extracts!RefusedIn(cs) # {} /\ v2 # "field")
  <2>1. v6' = cs /\ v9' = Extracts!RefusedIn(cs) /\ (v2 # "field" => Extracts!RefusedIn(cs) = {})
    BY <1>2, <1>5
  <2>2. Extracts!RefusedIn(v6)' = Extracts!RefusedIn(cs)
    BY <2>1 DEF Extracts!RefusedIn
  <2>3. \A c \in Extracts!Cols : v6'[c].status # "error" /\ Extracts!Sourced(c)'
    BY <2>1
  <2>4. v6' # Extracts!Errors'
    BY <1>1, <1>3, <2>1
  <2> HIDE DEF Extracts!Errors, Extracts!RefusedIn, Extracts!Sourced
  <2> QED BY <2>1, <2>2, <2>3, <2>4, ExtractsCounts DEF Extracts!ExtractionIsHonest, SpentInBudget
<1> QED BY <1>4, <1>5

\* Before the first chunk nothing is spent, and no chunk has failed.
LEMMA NothingSpent ==
  ASSUME ExtractionConstants, v8 = 0, v10 = 0, v7 = <<>> PROVE SpentInBudget
<1>1. Extracts!FailedChunks = {}
  BY DEF Extracts!FailedChunks
<1>2. Cardinality(Extracts!FailedChunks) = 0
  BY <1>1, FS_EmptySet
<1>3. ChunkPrices \subseteq Nat
  BY DEF ExtractionConstants
<1>4. \A c \in ChunkPrices : c * 0 = 0
  BY <1>3
<1> QED BY <1>2, <1>4 DEF SpentInBudget

\* One chunk more is at most one failure more.
LEMMA OneMoreFailure ==
  ASSUME v7 \in Seq(ColumnAnswers \union {None}), NEW x, v7' = Append(v7, x)
  PROVE  LET n == Cardinality(Extracts!FailedChunks)
             m == Cardinality(Extracts!FailedChunks)'
         IN  n \in Nat /\ m \in Nat /\ m >= n /\ (x = None => m = n + 1)
<1> DEFINE l == Len(v7)
<1>1. l \in Nat /\ DOMAIN v7 = 1..l /\ DOMAIN v7' = 1..(l + 1)
      /\ v7'[l + 1] = x /\ \A k \in 1..l : v7'[k] = v7[k]
  OBVIOUS
<1> HIDE DEF l
<1>2. Extracts!FailedChunks \subseteq 1..l /\ IsFiniteSet(Extracts!FailedChunks) /\ Cardinality(Extracts!FailedChunks) \in Nat
  <2>1. Extracts!FailedChunks \subseteq 1..l
    BY <1>1 DEF Extracts!FailedChunks
  <2>2. IsFiniteSet(1..l)
    BY <1>1, FS_Interval
  <2> QED BY <2>1, <2>2, FS_Subset, FS_CardinalityType
<1>3. CASE x = None
  <2>1. Extracts!FailedChunks' = Extracts!FailedChunks \union {l + 1}
    BY <1>1, <1>3 DEF Extracts!FailedChunks
  <2>2. l + 1 \notin Extracts!FailedChunks
    BY <1>1, <1>2
  <2>3. Cardinality(Extracts!FailedChunks \union {l + 1}) = Cardinality(Extracts!FailedChunks) + 1
    BY <1>2, <2>2, FS_AddElement
  <2> QED BY <1>2, <2>1, <2>3
<1>4. CASE x # None
  <2>1. Extracts!FailedChunks' = Extracts!FailedChunks
    BY <1>1, <1>4 DEF Extracts!FailedChunks
  <2> QED BY <1>2, <1>4, <2>1
<1> QED BY <1>3, <1>4

LEMMA ExtractInit == ASSUME ExtractionConstants, Extracts!Init PROVE Extracts!MergedBeforeRetry
<1>1. v8 = 0 /\ v10 = 0 /\ v1 = "asking" /\ v7 = <<>> /\ v5 = None /\ v4 \in RuleHits
  BY DEF Extracts!Init
<1>2. Extracts!ExtractionIsHonest
  BY <1>1, NothingSpent, ExtractsCounts DEF Extracts!ExtractionIsHonest, SpentInBudget
<1> QED BY <1>1, <1>2 DEF Extracts!MergedBeforeRetry

LEMMA AnsweredIsHonest ==
  ASSUME ExtractionConstants, Extracts!MergedBeforeRetry, NEW fields \in ColumnAnswers, Extracts!Answered(fields)
  PROVE  Extracts!MergedBeforeRetry'
<1> DEFINE merged == [c \in Extracts!Cols |-> Extracts!Merged(c, Extracts!Projected(c, fields[c]), v4[c])]
<1>1. /\ v5' = fields /\ v4' = v4 /\ v2' = v2 /\ v7' = <<>> /\ v8' = 0 /\ v10' = 0
      /\ v4 \in RuleHits
  BY DEF Extracts!Answered, Extracts!MergedBeforeRetry, Extracts!arguments
<1>2. SpentInBudget'
  <2>1. SpentInBudget /\ v10 = 0 /\ v8 = 0 /\ v7 = <<>>
    BY NothingSpent DEF Extracts!Answered, Extracts!MergedBeforeRetry
  <2> QED BY <1>1, <2>1 DEF SpentInBudget, Extracts!FailedChunks, Extracts!NoChunkCostsMore
<1>3. \A c \in Extracts!Cols : FromAnswer(c, fields, merged[c])
  BY <1>1, MergedIs
<1>4. CASE Extracts!Retries(merged)
  <2>1. v1' = "retrying" /\ v6' = merged
    BY <1>4 DEF Extracts!Answered
  <2>2. Extracts!ExtractionIsHonest'
    BY <1>2, <2>1, ExtractsCounts DEF Extracts!ExtractionIsHonest, SpentInBudget
  <2>3. v6' = [c \in Extracts!Cols |-> Extracts!Merged(c, Extracts!Projected(c, v5'[c]), v4'[c])]
    BY <1>1, <2>1
  <2> HIDE DEF merged
  <2> QED BY <1>1, <2>1, <2>2, <2>3 DEF Extracts!MergedBeforeRetry
<1>5. CASE ~Extracts!Retries(merged)
  <2>1. Extracts!Finish(merged)
    BY <1>5 DEF Extracts!Answered
  <2> HIDE DEF merged
  <2>2. \A c \in Extracts!Cols : merged[c].status # "error"
    BY <1>3 DEF FromAnswer
  <2>3. ASSUME v6' = merged, NEW c \in Extracts!Cols PROVE Extracts!Sourced(c)'
    <3>1. FromAnswer(c, fields, merged[c])
      BY <1>3
    <3>2. FromAnswer(c, v5, v6[c])'
      BY <1>1, <2>3, <3>1 DEF FromAnswer
    <3>3. Unheard(c)'
      BY <1>1 DEF Unheard
    <3>4. SourcedIfUnheard'
      BY AnswerIsSource, PTL
    <3> HIDE DEF FromAnswer, Extracts!Sourced, Unheard
    <3> QED BY <3>2, <3>3, <3>4 DEF SourcedIfUnheard
  <2>4. Extracts!ExtractionIsHonest'
    BY <1>1, <1>2, <2>1, <2>2, <2>3, FinishIsHonest
  <2>5. v1' = "returned"
    BY <2>1 DEF Extracts!Finish
  <2> QED BY <1>1, <2>4, <2>5 DEF Extracts!MergedBeforeRetry
<1> QED BY <1>4, <1>5

LEMMA ChunkIsHonest ==
  ASSUME ExtractionConstants, Extracts!MergedBeforeRetry, (\E fields \in ColumnAnswers : Extracts!ChunkAnswered(fields)) \/ Extracts!ChunkFails
  PROVE  Extracts!MergedBeforeRetry'
<1>1. /\ v1 = "retrying" /\ v1' = v1 /\ v4' = v4 /\ v5' = v5 /\ v6' = v6
      /\ v4 \in RuleHits /\ v5 \in ColumnAnswers
      /\ v6 = [c \in Extracts!Cols |-> Extracts!Merged(c, Extracts!Projected(c, v5[c]), v4[c])]
  BY DEF Extracts!ChunkAnswered, Extracts!ChunkFails, Extracts!MergedBeforeRetry, Extracts!arguments
<1>2. v7' \in Seq(ColumnAnswers \union {None})
  BY DEF Extracts!ChunkAnswered, Extracts!ChunkFails, Extracts!MergedBeforeRetry
<1>3. v8 \in Nat /\ v10 \in Nat /\ SpentInBudget /\ v7 \in Seq(ColumnAnswers \union {None})
  BY ExtractsCounts DEF Extracts!MergedBeforeRetry, Extracts!ExtractionIsHonest, SpentInBudget
<1> DEFINE n == Cardinality(Extracts!FailedChunks)
           m == Cardinality(Extracts!FailedChunks)'
<1>0. ChunkPrices \subseteq Nat /\ RetryCap \in Int
  BY DEF ExtractionConstants
<1>4. v8' \in Nat /\ v10' \in Nat /\ SpentInBudget'
  <2>1. ASSUME NEW fields \in ColumnAnswers, Extracts!ChunkAnswered(fields) PROVE v8' \in Nat /\ v10' \in Nat /\ SpentInBudget'
    <3>1. PICK cost \in ChunkPrices : v8' = v8 + cost /\ v10' = v10 + cost
      BY <2>1 DEF Extracts!ChunkAnswered
    <3>2. v8 < RetryCap /\ v7' = Append(v7, fields)
      BY <2>1 DEF Extracts!ChunkAnswered, Extracts!InBudget
    <3>3. n \in Nat /\ m \in Nat /\ m >= n
      BY <1>3, <3>2, OneMoreFailure
    <3> HIDE DEF n, m
    <3>4. ASSUME NEW c \in ChunkPrices, Extracts!NoChunkCostsMore(c)
          PROVE  v8' < RetryCap + c /\ v8' <= v10' /\ v10' - v8' <= c * m
      <4>1. cost <= c /\ c \in Nat /\ cost \in Nat
        BY <1>0, <3>4 DEF Extracts!NoChunkCostsMore
      <4>2. v8 <= v10 /\ v10 - v8 <= c * n
        BY <1>3, <3>4 DEF SpentInBudget, n
      <4>3. c * n <= c * m
        BY <3>3, <4>1
      <4>4. c * n \in Int /\ c * m \in Int
        BY <3>3, <4>1
      <4> QED BY <1>0, <1>3, <3>1, <3>2, <4>1, <4>2, <4>3, <4>4
    <3>5. v8' \in Nat /\ v10' \in Nat
      BY <1>0, <1>3, <3>1
    <3> QED BY <3>4, <3>5 DEF SpentInBudget, Extracts!NoChunkCostsMore, m
  <2>2. ASSUME Extracts!ChunkFails PROVE v8' \in Nat /\ v10' \in Nat /\ SpentInBudget'
    <3>1. PICK cost \in ChunkPrices \union {0} : v10' = v10 + cost
      BY <2>2 DEF Extracts!ChunkFails
    <3>2. v8' = v8 /\ v7' = Append(v7, None)
      BY <2>2 DEF Extracts!ChunkFails
    <3>3. n \in Nat /\ m = n + 1
      BY <1>3, <3>2, OneMoreFailure
    <3> HIDE DEF n, m
    <3>4. ASSUME NEW c \in ChunkPrices, Extracts!NoChunkCostsMore(c)
          PROVE  (v8' = 0 \/ v8' < RetryCap + c) /\ v8' <= v10' /\ v10' - v8' <= c * m
      <4>1. cost <= c /\ c \in Nat /\ cost \in Nat
        BY <1>0, <3>4 DEF Extracts!NoChunkCostsMore
      <4>2. (v8 = 0 \/ v8 < RetryCap + c) /\ v8 <= v10 /\ v10 - v8 <= c * n
        BY <1>3, <3>4 DEF SpentInBudget, n
      <4>3. c * m = c * n + c
        BY <3>3, <4>1
      <4>4. c * n \in Int /\ c * m \in Int
        BY <3>3, <4>1
      <4> QED BY <1>0, <1>3, <3>1, <3>2, <4>1, <4>2, <4>3, <4>4
    <3>5. v8' \in Nat /\ v10' \in Nat
      BY <1>0, <1>3, <3>1, <3>2
    <3> QED BY <3>4, <3>5 DEF SpentInBudget, Extracts!NoChunkCostsMore, m
  <2> QED BY <2>1, <2>2
<1>5. Extracts!ExtractionIsHonest'
  BY <1>1, <1>4, ExtractsCounts DEF Extracts!ExtractionIsHonest, SpentInBudget
<1>6. v6' = [c \in Extracts!Cols |-> Extracts!Merged(c, Extracts!Projected(c, v5'[c]), v4'[c])]
  BY <1>1
<1> QED BY <1>1, <1>2, <1>4, <1>5, <1>6 DEF Extracts!MergedBeforeRetry

LEMMA PromotedIs ==
  ASSUME v7 \in Seq(ColumnAnswers \union {None}), NEW c \in Extracts!Cols, Extracts!CandidatesFor(c) # {}
  PROVE  \E k \in DOMAIN v7 :
           /\ v7[k] # None /\ Extracts!Promoted(c) = Extracts!Cell("extracted", v7[k][c], "chunk")
           /\ \A j \in 1..(k - 1) : v7[j] = None \/ Extracts!Projected(c, v7[j][c]).status # "extracted"
<1> DEFINE S == Extracts!CandidatesFor(c)
           k == Extracts!Min(S)
<1>1. DOMAIN v7 = 1..Len(v7) /\ Len(v7) \in Nat
  OBVIOUS
<1>2. S \subseteq DOMAIN v7 /\ \A j \in DOMAIN v7 :
        j \in S <=> v7[j] # None /\ Extracts!Projected(c, v7[j][c]).status = "extracted"
  BY DEF Extracts!CandidatesFor
<1> HIDE DEF S
<1>3. S \subseteq Nat /\ S # {}
  BY <1>1, <1>2 DEF S
<1>4. \E x \in S : \A y \in S : x <= y
  BY <1>3, LeastOf
<1>5. k \in S /\ \A y \in S : k <= y
  BY <1>4 DEF Extracts!Min
<1>6. Extracts!Promoted(c) = [Extracts!Projected(c, v7[k][c]) EXCEPT !.by = "chunk"]
  BY DEF Extracts!Promoted, S
<1> HIDE DEF k
<1>7. k \in DOMAIN v7 /\ v7[k] # None /\ Extracts!Projected(c, v7[k][c]).status = "extracted"
  BY <1>2, <1>5
<1>8. Extracts!Projected(c, v7[k][c]) = Extracts!Cell("extracted", v7[k][c], "model")
  <2>1. /\ Gives(c, v7[k]) => Extracts!Projected(c, v7[k][c]) = Extracts!Cell("extracted", v7[k][c], "model")
        /\ ~Gives(c, v7[k]) => Extracts!Projected(c, v7[k][c]) = Extracts!Cell("not_in_document", None, "model")
    BY ProjectedIs
  <2>2. Extracts!Cell("not_in_document", None, "model").status # "extracted"
    BY DEF Extracts!Cell
  <2> QED BY <1>7, <2>1, <2>2
<1>9. Extracts!Promoted(c) = Extracts!Cell("extracted", v7[k][c], "chunk")
  BY <1>6, <1>8 DEF Extracts!Cell
<1>10. ASSUME NEW j \in 1..(k - 1)
       PROVE  v7[j] = None \/ Extracts!Projected(c, v7[j][c]).status # "extracted"
  <2>1. j \in DOMAIN v7 /\ ~(k <= j)
    BY <1>1, <1>7
  <2> QED BY <1>2, <1>5, <2>1
<1> QED BY <1>7, <1>9, <1>10

LEMMA RetryIsHonest ==
  ASSUME ExtractionConstants, Extracts!MergedBeforeRetry, Extracts!RetryEnds PROVE Extracts!MergedBeforeRetry'
<1> DEFINE cs == [c \in Extracts!Cols |-> IF c \in Extracts!RefusedIn(v6) /\ Extracts!CandidatesFor(c) # {} THEN Extracts!Promoted(c) ELSE v6[c]]
<1>1. /\ v1 = "retrying" /\ v4' = v4 /\ v2' = v2 /\ v5' = v5 /\ v7' = v7 /\ v8' = v8
      /\ v4 \in RuleHits /\ v5 \in ColumnAnswers /\ v7 \in Seq(ColumnAnswers \union {None}) /\ v8 \in Nat
      /\ v10' = v10 /\ v10 \in Nat
      /\ v6 = [c \in Extracts!Cols |-> Extracts!Merged(c, Extracts!Projected(c, v5[c]), v4[c])]
  BY DEF Extracts!RetryEnds, Extracts!MergedBeforeRetry, Extracts!arguments
<1>2. Extracts!Finish(cs)
  BY DEF Extracts!RetryEnds
<1>3. SpentInBudget'
  BY <1>1, ExtractsCounts DEF Extracts!MergedBeforeRetry, Extracts!ExtractionIsHonest,
     SpentInBudget, Extracts!NoChunkCostsMore, Extracts!FailedChunks
<1>4. \A c \in Extracts!Cols : FromAnswer(c, v5, v6[c])
  BY <1>1, MergedIs
<1>5. ASSUME NEW c \in Extracts!Cols PROVE cs[c].status # "error" /\ (v6' = cs => Extracts!Sourced(c)')
  <2>1. FromAnswer(c, v5, v6[c])
    BY <1>4
  <2>2. c \in Extracts!RefusedIn(v6) <=> v6[c].status # "extracted"
    BY DEF Extracts!RefusedIn
  <2>3. CASE c \in Extracts!RefusedIn(v6) /\ Extracts!CandidatesFor(c) # {}
    <3>1. cs[c] = Extracts!Promoted(c)
      BY <2>3
    <3>2. PICK k \in DOMAIN v7 :
            /\ v7[k] # None /\ Extracts!Promoted(c) = Extracts!Cell("extracted", v7[k][c], "chunk")
            /\ \A j \in 1..(k - 1) : v7[j] = None \/ Extracts!Projected(c, v7[j][c]).status # "extracted"
      BY <1>1, <2>3, PromotedIs
    <3>3. ~Gives(c, v5) /\ ~(TableColumns[c].type = "scalar" /\ Len(v4[c]) = 1)
      BY <2>1, <2>2, <2>3 DEF FromAnswer
    <3>4. cs[c] = Extracts!Cell("extracted", v7[k][c], "chunk")
      BY <3>1, <3>2
    <3>5. cs[c].status = "extracted" /\ cs[c].by = "chunk" /\ cs[c].value = v7[k][c]
      BY <3>4 DEF Extracts!Cell
    <3> HIDE DEF cs
    <3>6. ASSUME v6' = cs PROVE Extracts!Sourced(c)'
      <4>1. ~Extracts!Gave(c)'
        BY <1>1, <3>3 DEF Extracts!Gave, Gives
      <4>2. /\ v6'[c].by = "chunk" /\ v7'[k] # None /\ v7'[k][c] = v6'[c].value
            /\ \A j \in 1..(k - 1) : v7'[j] = None \/ Extracts!Projected(c, v7'[j][c]).status # "extracted"
            /\ k \in DOMAIN v7'
        BY <1>1, <3>2, <3>5, <3>6
      <4> QED BY <1>1, <3>3, <4>1, <4>2 DEF Extracts!Sourced
    <3> QED BY <3>5, <3>6
  <2>4. CASE ~(c \in Extracts!RefusedIn(v6) /\ Extracts!CandidatesFor(c) # {})
    <3>1. cs[c] = v6[c]
      BY <2>4
    <3>2. v6[c].status # "extracted" => Unheard(c)
      <4>1. ASSUME v6[c].status # "extracted" PROVE Extracts!CandidatesFor(c) = {}
        BY <2>2, <2>4, <4>1
      <4> QED BY <4>1 DEF Extracts!CandidatesFor, Unheard
    <3> HIDE DEF cs
    <3>3. ASSUME v6' = cs PROVE Extracts!Sourced(c)'
      <4>1. v6'[c] = v6[c]
        BY <3>1, <3>3
      <4>2. FromAnswer(c, v5, v6[c])'
        BY <1>1, <2>1, <4>1 DEF FromAnswer
      <4>3. (v6[c].status # "extracted" => Unheard(c))'
        BY <1>1, <3>2, <4>1 DEF Unheard
      <4>4. SourcedIfUnheard'
        BY AnswerIsSource, PTL
      <4> HIDE DEF FromAnswer, Extracts!Sourced, Unheard
      <4> QED BY <4>2, <4>3, <4>4 DEF SourcedIfUnheard
    <3> QED BY <2>1, <3>1, <3>3 DEF FromAnswer
  <2> QED BY <2>3, <2>4
<1>6. v1' = "returned"
  BY <1>2 DEF Extracts!Finish
<1> HIDE DEF cs
<1>7. Extracts!ExtractionIsHonest'
  BY <1>1, <1>2, <1>3, <1>5, FinishIsHonest
<1> QED BY <1>1, <1>6, <1>7 DEF Extracts!MergedBeforeRetry

LEMMA AnswerFailsIsHonest ==
  ASSUME ExtractionConstants, Extracts!MergedBeforeRetry, Extracts!AnswerFails PROVE Extracts!MergedBeforeRetry'
<1>1. /\ v1 = "asking" /\ v1' \in {"returned", "raised"} /\ v4' = v4 /\ v5' = None /\ v7' = v7
      /\ v4 \in RuleHits /\ v7 \in Seq(ColumnAnswers \union {None}) /\ v8 = 0 /\ v8' = 0
      /\ v10 = 0 /\ v10' = 0 /\ v7 = <<>> /\ v7' = <<>>
  BY DEF Extracts!AnswerFails, Extracts!MergedBeforeRetry, Extracts!arguments
<1>2. v1' = "returned" => v6' = Extracts!Errors /\ v9' = Extracts!Cols /\ Extracts!Cols # {}
  BY DEF Extracts!AnswerFails, ExtractionConstants
<1>3. Extracts!Errors' = Extracts!Errors
  BY DEF Extracts!Errors
<1>5. SpentInBudget'
  <2>1. SpentInBudget
    BY <1>1, NothingSpent
  <2> QED BY <1>1, <2>1 DEF SpentInBudget, Extracts!FailedChunks, Extracts!NoChunkCostsMore
<1>4. Extracts!ExtractionIsHonest'
  <2> HIDE DEF Extracts!Errors
  <2> QED BY <1>1, <1>2, <1>3, <1>5, ExtractsCounts DEF Extracts!ExtractionIsHonest, SpentInBudget
<1> QED BY <1>1, <1>4 DEF Extracts!MergedBeforeRetry

LEMMA ExtractNext == ASSUME ExtractionConstants, Extracts!MergedBeforeRetry, [Extracts!Next]_(Extracts!vars) PROVE Extracts!MergedBeforeRetry'
<1>1. CASE UNCHANGED Extracts!vars
  <2>1. /\ UNCHANGED <<v1, v2, v4, v5, v6, v7, v8, v10, v9>>
        /\ Extracts!ExtractionIsHonest
    BY <1>1 DEF Extracts!vars, Extracts!arguments, Extracts!MergedBeforeRetry
  <2>2. Extracts!Errors' = Extracts!Errors /\ Extracts!RefusedIn(v6)' = Extracts!RefusedIn(v6) /\ \A c \in Extracts!Cols : Extracts!Sourced(c)' = Extracts!Sourced(c)
    BY <2>1 DEF Extracts!Errors, Extracts!RefusedIn, Extracts!Sourced, Extracts!Gave
  <2>4. Extracts!FailedChunks' = Extracts!FailedChunks
    BY <2>1 DEF Extracts!FailedChunks
  <2>3. Extracts!ExtractionIsHonest'
    <3> HIDE DEF Extracts!Errors, Extracts!RefusedIn, Extracts!Sourced
    <3> QED BY <2>1, <2>2, <2>4, ExtractsCounts DEF Extracts!ExtractionIsHonest,
               Extracts!NoChunkCostsMore
  <2> HIDE DEF Extracts!ExtractionIsHonest
  <2> QED BY <2>1, <2>3 DEF Extracts!MergedBeforeRetry
<1>2. CASE Extracts!Next
  BY <1>2, AnsweredIsHonest, ChunkIsHonest, RetryIsHonest, AnswerFailsIsHonest DEF Extracts!Next
<1> QED BY <1>1, <1>2

LEMMA ExtractImplies == ASSUME Extracts!MergedBeforeRetry PROVE Extracts!ExtractionIsHonest
BY DEF Extracts!MergedBeforeRetry

-----------------------------------------------------------------------------
(* Extraction from a corpus (CorpusExtraction):                            *)
(* v1 log; v2 call; v3 at; v4 calls; v5 resumed; v6 result;                *)
(* Collections is DocumentSets; SchemaIds is SchemaVersions;               *)
(* Settings is TableSettings; MaxCalls is CorpusCalls.                     *)

(* Sets and their images                                                   *)

\* What a function that takes no value twice gives, is as many.
TakesNoneTwice(f, S) == \A j, k \in S : f[j] = f[k] => j = k
LEMMA ImageCounts ==
  ASSUME NEW S, IsFiniteSet(S), NEW f, TakesNoneTwice(f, S)
  PROVE  IsFiniteSet({f[k] : k \in S}) /\ Cardinality({f[k] : k \in S}) = Cardinality(S)
<1> DEFINE T == {f[k] : k \in S}
           g == [k \in S |-> f[k]]
<1>1. g \in Bijection(S, T)
  BY DEF Bijection, Injection, Surjection, IsInjective, TakesNoneTwice
<1>2. ExistsBijection(S, T)
  BY <1>1 DEF ExistsBijection
<1> QED BY <1>2, FS_Bijection

LEMMA RecordsAreFinite ==
  ASSUME v1 \in Seq(CorpusTable!Lines)
  PROVE  /\ CorpusTable!Records \subseteq 1..Len(v1) /\ IsFiniteSet(CorpusTable!Records) /\ IsFiniteSet(CorpusTable!Recorded)
         /\ \A s : CorpusTable!OfStatus(s) \subseteq CorpusTable!Records /\ IsFiniteSet(CorpusTable!OfStatus(s))
         /\ \A k \in CorpusTable!Records : v1[k].status \in {"success", "error"} /\ v1[k].doc \in UNION DocumentSets
<1>1. DOMAIN v1 = 1..Len(v1) /\ Len(v1) \in Nat /\ \A k \in DOMAIN v1 : v1[k] \in CorpusTable!Lines
  OBVIOUS
<1>2. CorpusTable!Records \subseteq 1..Len(v1) /\ \A s : CorpusTable!OfStatus(s) \subseteq CorpusTable!Records
  BY <1>1 DEF CorpusTable!Records, CorpusTable!OfStatus
<1>3. IsFiniteSet(1..Len(v1))
  BY <1>1, FS_Interval
<1>4. IsFiniteSet(CorpusTable!Records) /\ \A s : IsFiniteSet(CorpusTable!OfStatus(s))
  BY <1>2, <1>3, FS_Subset
<1>5. IsFiniteSet(CorpusTable!Recorded)
  <2> DEFINE f == [k \in CorpusTable!Records |-> v1[k].doc]
  <2>1. f \in Surjection(CorpusTable!Records, CorpusTable!Recorded)
    BY DEF CorpusTable!Recorded, Surjection
  <2> HIDE DEF f
  <2> QED BY <1>4, <2>1, FS_Surjection
<1>6. ASSUME NEW k \in CorpusTable!Records PROVE v1[k].status \in {"success", "error"} /\ v1[k].doc \in UNION DocumentSets
  <2>1. v1[k] \in CorpusTable!Lines /\ v1[k].kind = "item"
    BY <1>1 DEF CorpusTable!Records
  <2> QED BY <2>1 DEF CorpusTable!Lines, CorpusTable!Torn, CorpusTable!Glued
<1> QED BY <1>2, <1>4, <1>5, <1>6

\* Distinct documents are as many as their records, those of a status too.
LEMMA DocumentsCount ==
  ASSUME v1 \in Seq(CorpusTable!Lines), \A j, k \in CorpusTable!Records : v1[j].doc = v1[k].doc => j = k
  PROVE  /\ Cardinality(CorpusTable!Recorded) = Cardinality(CorpusTable!OfStatus("success")) + Cardinality(CorpusTable!OfStatus("error"))
         /\ \A s : Cardinality({v1[k].doc : k \in CorpusTable!OfStatus(s)}) = Cardinality(CorpusTable!OfStatus(s))
         /\ CorpusTable!Recorded \ {v1[k].doc : k \in CorpusTable!OfStatus("success")} = {v1[k].doc : k \in CorpusTable!OfStatus("error")}
         /\ \A s : Cardinality(CorpusTable!OfStatus(s)) \in Nat
<1> DEFINE f == [k \in CorpusTable!Records |-> v1[k].doc]
<1>1. \A S : S \subseteq CorpusTable!Records /\ IsFiniteSet(S) =>
        Cardinality({v1[k].doc : k \in S}) = Cardinality(S)
  <2> SUFFICES ASSUME NEW S, S \subseteq CorpusTable!Records, IsFiniteSet(S)
               PROVE  Cardinality({v1[k].doc : k \in S}) = Cardinality(S)
    OBVIOUS
  <2>1. TakesNoneTwice(f, S)
    BY DEF TakesNoneTwice
  <2>2. {v1[k].doc : k \in S} = {f[k] : k \in S}
    OBVIOUS
  <2> HIDE DEF f
  <2>3. Cardinality({f[k] : k \in S}) = Cardinality(S)
    BY <2>1, ImageCounts
  <2> QED BY <2>2, <2>3
<1>2. \A s : Cardinality({v1[k].doc : k \in CorpusTable!OfStatus(s)}) = Cardinality(CorpusTable!OfStatus(s)) /\ Cardinality(CorpusTable!OfStatus(s)) \in Nat
  BY <1>1, RecordsAreFinite, FS_CardinalityType
<1>3. CorpusTable!Records = CorpusTable!OfStatus("success") \union CorpusTable!OfStatus("error") /\ CorpusTable!OfStatus("success") \intersect CorpusTable!OfStatus("error") = {}
  <2>1. \A k \in CorpusTable!Records : v1[k].status \in {"success", "error"}
    BY RecordsAreFinite
  <2> HIDE DEF CorpusTable!Records
  <2> QED BY <2>1 DEF CorpusTable!OfStatus
<1>4. Cardinality(CorpusTable!Records) = Cardinality(CorpusTable!OfStatus("success")) + Cardinality(CorpusTable!OfStatus("error"))
  <2>1. Cardinality(CorpusTable!OfStatus("success") \union CorpusTable!OfStatus("error")) =
          Cardinality(CorpusTable!OfStatus("success")) + Cardinality(CorpusTable!OfStatus("error")) - Cardinality(CorpusTable!OfStatus("success") \intersect CorpusTable!OfStatus("error"))
    BY RecordsAreFinite, FS_Union
  <2>2. Cardinality({}) = 0 /\ Cardinality(CorpusTable!OfStatus("success")) \in Nat /\ Cardinality(CorpusTable!OfStatus("error")) \in Nat
    BY <1>2, FS_EmptySet
  <2>3. Cardinality(CorpusTable!Records) = Cardinality(CorpusTable!OfStatus("success") \union CorpusTable!OfStatus("error"))
          /\ Cardinality(CorpusTable!OfStatus("success") \intersect CorpusTable!OfStatus("error")) = Cardinality({})
    BY <1>3
  <2> QED BY <2>1, <2>2, <2>3
<1>5. Cardinality(CorpusTable!Recorded) = Cardinality(CorpusTable!Records)
  BY <1>1, RecordsAreFinite DEF CorpusTable!Recorded
<1>6. CorpusTable!Recorded \ {v1[k].doc : k \in CorpusTable!OfStatus("success")} = {v1[k].doc : k \in CorpusTable!OfStatus("error")}
  <2>1. \A k \in CorpusTable!Records : (k \in CorpusTable!OfStatus("success") <=> ~ k \in CorpusTable!OfStatus("error"))
    BY <1>3
  <2>2. CorpusTable!OfStatus("success") \subseteq CorpusTable!Records /\ CorpusTable!OfStatus("error") \subseteq CorpusTable!Records
    BY RecordsAreFinite
  <2> HIDE DEF CorpusTable!Records, CorpusTable!OfStatus
  <2> QED BY <2>1, <2>2 DEF CorpusTable!Recorded
<1> QED BY <1>2, <1>4, <1>5, <1>6

-----------------------------------------------------------------------------
(* A line that is appended                                                 *)

LEMMA Appended ==
  ASSUME v1 \in Seq(CorpusTable!Lines), NEW r \in CorpusTable!Lines, v1' = Append(v1, r)
  PROVE  /\ v1' \in Seq(CorpusTable!Lines) /\ v1' # <<>> /\ (v1 # <<>> => v1'[1] = v1[1])
         /\ (CorpusTable!Readable' => CorpusTable!Readable)
         /\ \A k \in CorpusTable!Records : v1'[k] = v1[k]
         /\ r.kind # "item" => CorpusTable!Records' = CorpusTable!Records
         /\ r.kind = "item" => /\ CorpusTable!Records' = CorpusTable!Records \union {Len(v1) + 1}
                               /\ Len(v1) + 1 \notin CorpusTable!Records /\ v1'[Len(v1) + 1] = r
<1>1. DOMAIN v1 = 1..Len(v1) /\ Len(v1) \in Nat
  OBVIOUS
<1>2. /\ DOMAIN v1' = 1..(Len(v1) + 1) /\ v1'[Len(v1) + 1] = r
      /\ \A k \in DOMAIN v1 : v1'[k] = v1[k]
      /\ v1' \in Seq(CorpusTable!Lines) /\ v1' # <<>>
  OBVIOUS
<1>3. v1 # <<>> => 1 \in DOMAIN v1
  BY <1>1
<1>4. \A k : k \in DOMAIN v1' <=> k \in DOMAIN v1 \/ k = Len(v1) + 1
  BY <1>1, <1>2
<1>5. Len(v1) + 1 \notin DOMAIN v1
  BY <1>1
<1> HIDE DEF CorpusTable!Lines
<1>6. \A x : x \in CorpusTable!Range(v1') <=> x \in CorpusTable!Range(v1) \/ x = r
  BY <1>2, <1>4 DEF CorpusTable!Range
<1>7. \A k : k \in CorpusTable!Records' <=> k \in CorpusTable!Records \/ (k = Len(v1) + 1 /\ r.kind = "item")
  BY <1>2, <1>4, <1>5 DEF CorpusTable!Records
<1>8. CorpusTable!Records \subseteq DOMAIN v1
  BY DEF CorpusTable!Records
<1>9. \A k \in CorpusTable!Records : v1'[k] = v1[k]
  BY <1>2, <1>8
<1>10. /\ r.kind # "item" => CorpusTable!Records' = CorpusTable!Records
       /\ r.kind = "item" => CorpusTable!Records' = CorpusTable!Records \union {Len(v1) + 1} /\ Len(v1) + 1 \notin CorpusTable!Records
  <2> HIDE DEF CorpusTable!Records
  <2>1. ASSUME r.kind # "item" PROVE CorpusTable!Records' = CorpusTable!Records
    <3>1. \A k : k \in CorpusTable!Records' <=> k \in CorpusTable!Records
      BY <1>7, <2>1
    <3> QED BY <3>1
  <2>2. ASSUME r.kind = "item" PROVE CorpusTable!Records' = CorpusTable!Records \union {Len(v1) + 1}
    <3>1. \A k : k \in CorpusTable!Records' <=> k \in CorpusTable!Records \/ k = Len(v1) + 1
      BY <1>7, <2>2
    <3> QED BY <3>1
  <2>3. Len(v1) + 1 \notin CorpusTable!Records
    BY <1>5, <1>8
  <2> QED BY <2>1, <2>2, <2>3
<1>11. CorpusTable!Readable' => CorpusTable!Readable
  BY <1>6 DEF CorpusTable!Readable
<1> HIDE DEF CorpusTable!Records
<1> QED BY <1>2, <1>3, <1>9, <1>10, <1>11

\* What becomes of a torn line when something is written after it.
LEMMA Spoilt ==
  ASSUME v1 \in Seq(CorpusTable!Lines), v1 # <<>>, v1[1].kind = "header", CorpusTable!IsTorn(v1),
         NEW r \in {CorpusTable!Torn, CorpusTable!Glued}, v1' = [v1 EXCEPT ![Len(v1)] = r]
  PROVE  /\ v1' \in Seq(CorpusTable!Lines) /\ v1' # <<>> /\ v1'[1] = v1[1] /\ CorpusTable!Records' = CorpusTable!Records
         /\ \A k \in CorpusTable!Records : v1'[k] = v1[k]
         /\ ~CorpusTable!Readable /\ ~CorpusTable!Readable'
<1>1. DOMAIN v1 = 1..Len(v1) /\ Len(v1) \in Nat /\ Len(v1) \in DOMAIN v1 /\ v1[Len(v1)] = CorpusTable!Torn
  BY DEF CorpusTable!IsTorn
<1>2. r \in CorpusTable!Lines /\ r.kind # "item" /\ CorpusTable!Torn.kind # "item" /\ CorpusTable!Torn.kind # "header"
  BY DEF CorpusTable!Lines, CorpusTable!Torn, CorpusTable!Glued
<1>3. /\ v1' \in Seq(CorpusTable!Lines) /\ DOMAIN v1' = DOMAIN v1 /\ v1'[Len(v1)] = r
      /\ \A k \in DOMAIN v1 : k # Len(v1) => v1'[k] = v1[k]
  BY <1>1, <1>2
<1>4. Len(v1) # 1
  BY <1>1, <1>2
<1>5. v1' # <<>> /\ v1'[1] = v1[1]
  BY <1>1, <1>3, <1>4
<1>6. \A k : k \in CorpusTable!Records' <=> k \in CorpusTable!Records
  BY <1>1, <1>2, <1>3 DEF CorpusTable!Records
<1>7. \A k \in CorpusTable!Records : v1'[k] = v1[k]
  BY <1>1, <1>2, <1>3 DEF CorpusTable!Records
<1>8. ~CorpusTable!Readable /\ ~CorpusTable!Readable'
  BY <1>1, <1>3 DEF CorpusTable!Readable, CorpusTable!Range
<1> QED BY <1>3, <1>5, <1>6, <1>7, <1>8

\* What is written, or not, when the process dies.
LEMMA WrittenTorn ==
  ASSUME v1 \in Seq(CorpusTable!Lines), v1 # <<>>, v1[1].kind = "header", v1' \in {v1, CorpusTable!Written(v1, CorpusTable!Torn)}
  PROVE  v1' \in Seq(CorpusTable!Lines) /\ v1' # <<>> /\ v1'[1] = v1[1] /\ CorpusTable!Records' = CorpusTable!Records
         /\ \A k \in CorpusTable!Records : v1'[k] = v1[k]
<1>1. CASE v1' = v1
  BY <1>1 DEF CorpusTable!Records
<1>2. CASE CorpusTable!IsTorn(v1) /\ v1' = [v1 EXCEPT ![Len(v1)] = CorpusTable!Torn]
  BY <1>2, Spoilt
<1>3. CASE v1' = Append(v1, CorpusTable!Torn)
  <2>1. CorpusTable!Torn \in CorpusTable!Lines /\ CorpusTable!Torn.kind # "item"
    BY DEF CorpusTable!Lines, CorpusTable!Torn
  <2> QED BY <1>3, <2>1, Appended
<1> QED BY <1>1, <1>2, <1>3 DEF CorpusTable!Written

-----------------------------------------------------------------------------
(* The steps                                                               *)

LEMMA LogStays ==
  ASSUME CorpusTable!LogIsWhole, v1' = v1, v5' => v5
  PROVE  CorpusTable!LogIsWhole'
<1> QED BY DEF CorpusTable!LogIsWhole, CorpusTable!Records

\* The records that are the same as before, are as the invariant says.
LEMMA RecordsStay ==
  ASSUME CorpusTable!LogIsWhole, v1 # <<>>, v1' \in Seq(CorpusTable!Lines), v1' # <<>>, v1'[1] = v1[1], CorpusTable!Records' = CorpusTable!Records,
         \A k \in CorpusTable!Records : v1'[k] = v1[k], v5' = v5
  PROVE  CorpusTable!LogIsWhole'
<1> HIDE DEF CorpusTable!Records, CorpusTable!Lines
<1> QED BY DEF CorpusTable!LogIsWhole

\* A document that the log has no record of.
LEMMA EndsKeeps ==
  ASSUME CorpusConstants, CorpusTable!OneRecordEach, v3 = "running", NEW d \in v2.todo, NEW status, NEW cells,
         <<status, cells>> \in {<<"success", "values">>, <<"success", "errors">>, <<"error", None>>},
         CorpusTable!Ends(d, status, cells)
  PROVE  CorpusTable!OneRecordEach'
<1> DEFINE r == CorpusTable!RecordOf(d, status, cells)
           n == Len(v1) + 1
<1>1. v1 \in Seq(CorpusTable!Lines) /\ v1 # <<>> /\ v2 \in CorpusTable!Calls /\ v5 \in BOOLEAN /\ v1[1].kind = "header"
  BY DEF CorpusTable!OneRecordEach, CorpusTable!LogIsWhole, CorpusTable!CallIsCounted
<1>2. r \in CorpusTable!Lines /\ r # CorpusTable!Torn /\ r.kind = "item" /\ r.doc = d /\ r.status = status /\ r.cells = cells
        /\ r.schema = v2.schema /\ (status = "success" => cells # None) /\ status \in {"success", "error"}
  <2>1. v2.schema \in SchemaVersions /\ v2.setting \in TableSettings /\ d \in UNION DocumentSets
    BY <1>1 DEF CorpusTable!Calls
  <2>2. status \in {"success", "error"} /\ cells \in {"values", "errors", None} /\ (status = "success" => cells # None)
    BY DEF CorpusConstants
  <2> QED BY <2>1, <2>2 DEF CorpusTable!RecordOf, CorpusTable!Lines, CorpusTable!Torn
<1>3. /\ UNCHANGED <<v3, v5>>
      /\ v2' = [v2 EXCEPT !.todo = @ \ {d}, !.cost = @ + 1,
                          !.ok = IF status = "success" THEN @ + 1 ELSE @,
                          !.failed = IF status = "error" THEN @ + 1 ELSE @]
  BY DEF CorpusTable!Ends
<1>4. /\ v2' \in CorpusTable!Calls /\ v2'.schema = v2.schema /\ v2'.todo = v2.todo \ {d} /\ v2'.cost = v2.cost + 1
      /\ v2'.failed = (IF status = "error" THEN v2.failed + 1 ELSE v2.failed)
      /\ v2'.skipped = v2.skipped /\ v2'.corpus = v2.corpus /\ v2.cost \in Nat /\ v2.failed \in Nat
      /\ v2.skipped \in Nat
  <2>1. /\ v2.cost \in Nat /\ v2.failed \in Nat /\ v2.skipped \in Nat /\ v2.ok \in Nat
        /\ v2.todo \in SUBSET UNION DocumentSets
    BY <1>1 DEF CorpusTable!Calls
  <2>2. v2.todo \ {d} \in SUBSET UNION DocumentSets
    BY <2>1
  <2>3. v2.cost + 1 \in Nat /\ v2.ok + 1 \in Nat /\ v2.failed + 1 \in Nat
    BY <2>1
  <2>4. v2' \in CorpusTable!Calls
    BY <1>1, <1>3, <2>2, <2>3 DEF CorpusTable!Calls
  <2>5. /\ v2'.schema = v2.schema /\ v2'.todo = v2.todo \ {d} /\ v2'.cost = v2.cost + 1
        /\ v2'.failed = (IF status = "error" THEN v2.failed + 1 ELSE v2.failed)
        /\ v2'.skipped = v2.skipped /\ v2'.corpus = v2.corpus
    BY <1>1, <1>3 DEF CorpusTable!Calls
  <2> QED BY <2>1, <2>4, <2>5
<1>5. v3' = "running" /\ CorpusTable!TableCountsDocuments'
  BY <1>3, CorpusTableCounts DEF CorpusTable!TableCountsDocuments
<1>6. CASE CorpusTable!IsTorn(v1) /\ v1' = [v1 EXCEPT ![Len(v1)] = CorpusTable!Glued]
  <2>0. /\ v1' \in Seq(CorpusTable!Lines) /\ v1' # <<>> /\ v1'[1] = v1[1] /\ CorpusTable!Records' = CorpusTable!Records
        /\ \A k \in CorpusTable!Records : v1'[k] = v1[k]
        /\ ~CorpusTable!Readable /\ ~CorpusTable!Readable'
    BY <1>1, <1>6, Spoilt
  <2>1. CorpusTable!LogIsWhole'
    BY <1>1, <1>3, <2>0, RecordsStay DEF CorpusTable!OneRecordEach
  <2>2. v5 => CorpusTable!CallCounts
    BY DEF CorpusTable!OneRecordEach, CorpusTable!CallIsCounted
  <2>3. CorpusTable!Recorded' = CorpusTable!Recorded
    <3> HIDE DEF CorpusTable!Records
    <3> QED BY <2>0 DEF CorpusTable!Recorded
  <2>4. v5' => CorpusTable!CallCounts'
    BY <1>3, <1>4, <2>0, <2>2, <2>3, CorpusTableCounts DEF CorpusTable!CallCounts
  <2> QED BY <1>1, <1>3, <1>4, <1>5, <2>0, <2>1, <2>4 DEF CorpusTable!OneRecordEach,
             CorpusTable!CallIsCounted
<1>7. CASE v1' = Append(v1, r)
  <2> HIDE DEF r, n
  <2>1. /\ v1' \in Seq(CorpusTable!Lines) /\ v1' # <<>> /\ v1'[1] = v1[1]
        /\ CorpusTable!Readable' => CorpusTable!Readable
        /\ \A k \in CorpusTable!Records : v1'[k] = v1[k]
        /\ CorpusTable!Records' = CorpusTable!Records \union {n} /\ n \notin CorpusTable!Records /\ v1'[n] = r
    BY <1>1, <1>2, <1>7, Appended DEF n
  <2>2. /\ CorpusTable!OfStatus(status)' = CorpusTable!OfStatus(status) \union {n} /\ n \notin CorpusTable!OfStatus(status)
        /\ \A s : s # status => CorpusTable!OfStatus(s)' = CorpusTable!OfStatus(s)
    <3> HIDE DEF CorpusTable!Records
    <3> QED BY <1>2, <2>1 DEF CorpusTable!OfStatus
  <2>3. CorpusTable!Recorded' = CorpusTable!Recorded \union {d}
    <3> HIDE DEF CorpusTable!Records
    <3> QED BY <1>2, <2>1 DEF CorpusTable!Recorded
  <2>4. ASSUME v5 PROVE CorpusTable!CallCounts /\ d \notin CorpusTable!Recorded
    BY <2>4, CorpusTableCounts DEF CorpusTable!OneRecordEach, CorpusTable!CallIsCounted,
       CorpusTable!CallCounts
  <2>5. CorpusTable!LogIsWhole'
    <3> HIDE DEF CorpusTable!Records, CorpusTable!Lines
    <3>1. \A k \in CorpusTable!Records' : v1'[k].status = "success" => v1'[k].cells # None
      BY <1>2, <2>1 DEF CorpusTable!OneRecordEach, CorpusTable!LogIsWhole
    <3>2. ASSUME v5 PROVE \A j, k \in CorpusTable!Records' : v1'[j].doc = v1'[k].doc => j = k
      BY <1>2, <2>1, <2>4, <3>2 DEF CorpusTable!OneRecordEach, CorpusTable!LogIsWhole,
         CorpusTable!Recorded
    <3>3. ASSUME v5 PROVE \A k \in CorpusTable!Records' : v1'[k].schema = v1'[1].schema
      BY <1>2, <2>1, <2>4, <3>3, CorpusTableCounts DEF CorpusTable!OneRecordEach,
         CorpusTable!LogIsWhole, CorpusTable!CallCounts
    <3> QED BY <1>1, <1>3, <2>1, <3>1, <3>2, <3>3 DEF CorpusTable!LogIsWhole
  <2>6. ASSUME v5 PROVE CorpusTable!CallCounts'
    <3>1. v2'.schema = v1'[1].schema /\ v2'.todo \intersect CorpusTable!Recorded' = {}
      BY <1>4, <2>1, <2>3, <2>4, <2>6, CorpusTableCounts DEF CorpusTable!CallCounts
    <3>2. ASSUME CorpusTable!Readable'
          PROVE  /\ v2'.failed = Cardinality(CorpusTable!OfStatus("error")')
                 /\ v2'.cost + v2'.skipped = Cardinality(CorpusTable!Recorded')
                 /\ v2'.corpus \subseteq CorpusTable!Recorded' \union v2'.todo
      <4>1. /\ v2.failed = Cardinality(CorpusTable!OfStatus("error"))
            /\ v2.cost + v2.skipped = Cardinality(CorpusTable!Recorded)
            /\ v2.corpus \subseteq CorpusTable!Recorded \union v2.todo
        BY <2>1, <2>4, <2>6, <3>2, CorpusTableCounts DEF CorpusTable!CallCounts
      <4>2. IsFiniteSet(CorpusTable!Recorded) /\ IsFiniteSet(CorpusTable!OfStatus("error"))
        BY <1>1, RecordsAreFinite
      <4>3. Cardinality(CorpusTable!Recorded') = Cardinality(CorpusTable!Recorded) + 1
        BY <2>3, <2>4, <2>6, <4>2, FS_AddElement
      <4>4. status = "error" => Cardinality(CorpusTable!OfStatus("error")') = Cardinality(CorpusTable!OfStatus("error")) + 1
        BY <2>2, <4>2, FS_AddElement
      <4>5. status # "error" => CorpusTable!OfStatus("error")' = CorpusTable!OfStatus("error")
        BY <2>2
      <4> HIDE DEF CorpusTable!OfStatus, CorpusTable!Recorded
      <4>6. v2'.failed = Cardinality(CorpusTable!OfStatus("error")')
        BY <1>4, <4>1, <4>4, <4>5
      <4>7. v2'.cost + v2'.skipped = Cardinality(CorpusTable!Recorded')
        BY <1>4, <4>1, <4>3
      <4> QED BY <1>4, <2>3, <4>1, <4>6, <4>7
    <3> QED BY <3>1, <3>2, CorpusTableCounts DEF CorpusTable!CallCounts
  <2> QED BY <1>1, <1>3, <1>4, <1>5, <2>1, <2>5, <2>6 DEF CorpusTable!OneRecordEach,
             CorpusTable!CallIsCounted
<1>8. \/ CorpusTable!IsTorn(v1) /\ v1' = [v1 EXCEPT ![Len(v1)] = CorpusTable!Glued]
      \/ v1' = Append(v1, r)
  BY <1>2 DEF CorpusTable!Ends, CorpusTable!Written
<1> QED BY <1>6, <1>7, <1>8

\* A call starts with what the log has, or is refused.
LEMMA CallKeeps ==
  ASSUME CorpusConstants, CorpusTable!OneRecordEach, CorpusTable!Call
  PROVE  CorpusTable!OneRecordEach'
<1>1. PICK corpus \in DocumentSets, schema \in SchemaVersions, setting \in TableSettings, resume \in BOOLEAN :
        LET c == [corpus |-> corpus, schema |-> schema, setting |-> setting, resume |-> resume,
                  todo |-> corpus \ CorpusTable!Skipped(resume), cost |-> 0,
                  ok |-> CorpusTable!Counted(resume, CorpusTable!OfStatus("success")),
                  failed |-> CorpusTable!Counted(resume, CorpusTable!OfStatus("error")), skipped |-> CorpusTable!Counted(resume, CorpusTable!Recorded)]
        IN  /\ v2' = c
            /\ v5' = (v5 /\ resume)
            /\ v3' = IF CorpusTable!Refused(c) THEN "raised" ELSE "running"
            /\ v1' = IF CorpusTable!Refused(c) \/ v1 # <<>> THEN v1 ELSE <<CorpusTable!HeaderOf(schema)>>
  BY DEF CorpusTable!Call
<1> DEFINE ok == CorpusTable!Counted(resume, CorpusTable!OfStatus("success"))
           failed == CorpusTable!Counted(resume, CorpusTable!OfStatus("error"))
           skipped == CorpusTable!Counted(resume, CorpusTable!Recorded)
           c == [corpus |-> corpus, schema |-> schema, setting |-> setting, resume |-> resume,
                 todo |-> corpus \ CorpusTable!Skipped(resume), cost |-> 0, ok |-> ok, failed |-> failed, skipped |-> skipped]
<1>2. /\ v2' = c /\ v5' = (v5 /\ resume) /\ v3' = IF CorpusTable!Refused(c) THEN "raised" ELSE "running"
      /\ v1' = IF CorpusTable!Refused(c) \/ v1 # <<>> THEN v1 ELSE <<CorpusTable!HeaderOf(schema)>>
  BY <1>1
<1>3. CorpusTable!LogIsWhole /\ v1 \in Seq(CorpusTable!Lines) /\ v5 \in BOOLEAN
  BY DEF CorpusTable!OneRecordEach, CorpusTable!LogIsWhole
<1>4. /\ IsFiniteSet(CorpusTable!Recorded) /\ IsFiniteSet(CorpusTable!OfStatus("success")) /\ IsFiniteSet(CorpusTable!OfStatus("error"))
      /\ Cardinality(CorpusTable!OfStatus("success")) \in Nat /\ Cardinality(CorpusTable!OfStatus("error")) \in Nat
      /\ Cardinality(CorpusTable!Recorded) \in Nat
  BY <1>3, RecordsAreFinite, FS_CardinalityType
<1>5. ok \in Nat /\ failed \in Nat /\ skipped \in Nat
  BY <1>4, CorpusTableCounts DEF CorpusTable!Counted
<1>6. c \in CorpusTable!Calls
  <2> HIDE DEF ok, failed, skipped
  <2>1. corpus \ CorpusTable!Skipped(resume) \in SUBSET UNION DocumentSets
    OBVIOUS
  <2> QED BY <1>5, <2>1 DEF CorpusTable!Calls
<1>7. c.schema = schema /\ c.resume = resume /\ c.todo = corpus \ CorpusTable!Skipped(resume) /\ c.corpus = corpus
        /\ c.cost = 0 /\ c.failed = failed /\ c.skipped = skipped
  OBVIOUS
<1> HIDE DEF c, ok, failed, skipped
<1>8. CorpusTable!TableCountsDocuments' /\ v3' \in {"raised", "running"} /\ v5' \in BOOLEAN /\ (v5' => v5 /\ resume)
  BY <1>2, <1>3, CorpusTableCounts DEF CorpusTable!TableCountsDocuments
<1>9. CASE CorpusTable!Refused(c)
  <2>1. CorpusTable!LogIsWhole'
    BY <1>2, <1>3, <1>8, <1>9, LogStays
  <2> QED BY <1>2, <1>8, <1>9, <2>1 DEF CorpusTable!OneRecordEach, CorpusTable!CallIsCounted
<1>10. CASE ~ CorpusTable!Refused(c) /\ v1 # <<>>
  <2>1. CorpusTable!LogIsWhole'
    BY <1>2, <1>3, <1>8, <1>10, LogStays
  <2>2. CorpusTable!Recorded' = CorpusTable!Recorded /\ CorpusTable!OfStatus("error")' = CorpusTable!OfStatus("error")
    BY <1>2, <1>10 DEF CorpusTable!Recorded, CorpusTable!OfStatus, CorpusTable!Records
  <2>3. ASSUME resume PROVE CorpusTable!CallCounts'
    <3>1. v1[1].schema = schema
      <4>1. 1 \in DOMAIN v1 /\ v1[1].kind = "header"
        BY <1>3, <1>10 DEF CorpusTable!LogIsWhole
      <4> QED BY <1>7, <1>10, <2>3, <4>1 DEF CorpusTable!Refused
    <3>2. CorpusTable!Skipped(resume) = CorpusTable!Recorded /\ failed = Cardinality(CorpusTable!OfStatus("error")) /\ skipped = Cardinality(CorpusTable!Recorded)
      BY <2>3, CorpusTableCounts DEF CorpusTable!Skipped, CorpusTable!Counted, failed, skipped
    <3>3. v2'.schema = v1'[1].schema /\ v2'.todo \intersect CorpusTable!Recorded' = {}
            /\ v2'.corpus \subseteq CorpusTable!Recorded' \union v2'.todo
      BY <1>2, <1>7, <1>10, <2>2, <3>1, <3>2
    <3>4. v2'.failed = Cardinality(CorpusTable!OfStatus("error")') /\ v2'.cost + v2'.skipped = Cardinality(CorpusTable!Recorded')
      BY <1>2, <1>4, <1>7, <2>2, <3>2
    <3> QED BY <3>3, <3>4, CorpusTableCounts DEF CorpusTable!CallCounts
  <2> QED BY <1>2, <1>6, <1>8, <1>10, <2>1, <2>3 DEF CorpusTable!OneRecordEach,
             CorpusTable!CallIsCounted
<1>11. CASE ~ CorpusTable!Refused(c) /\ v1 = <<>>
  <2>1. /\ v1' = <<CorpusTable!HeaderOf(schema)>> /\ v1' \in Seq(CorpusTable!Lines) /\ v1' # <<>> /\ v1'[1] = CorpusTable!HeaderOf(schema)
        /\ \A k \in DOMAIN v1' : k = 1
    BY <1>2, <1>11 DEF CorpusTable!HeaderOf, CorpusTable!Lines
  <2>2. CorpusTable!Records' = {} /\ CorpusTable!Records = {}
    BY <1>11, <2>1 DEF CorpusTable!Records, CorpusTable!HeaderOf
  <2>3. CorpusTable!LogIsWhole'
    BY <2>1, <2>2 DEF CorpusTable!LogIsWhole, CorpusTable!HeaderOf
  <2>4. CorpusTable!Recorded' = {} /\ CorpusTable!Recorded = {} /\ CorpusTable!OfStatus("error")' = {} /\ CorpusTable!OfStatus("error") = {}
    BY <2>2 DEF CorpusTable!Recorded, CorpusTable!OfStatus
  <2>5. ASSUME resume PROVE CorpusTable!CallCounts'
    <3>1. CorpusTable!Skipped(resume) = {} /\ failed = 0 /\ skipped = 0 /\ Cardinality({}) = 0
      BY <2>4, <2>5, FS_EmptySet, CorpusTableCounts DEF CorpusTable!Skipped, CorpusTable!Counted,
         failed, skipped
    <3>2. v2'.schema = v1'[1].schema /\ v2'.todo \intersect CorpusTable!Recorded' = {}
            /\ v2'.corpus \subseteq CorpusTable!Recorded' \union v2'.todo
      BY <1>2, <1>7, <2>1, <2>4, <3>1 DEF CorpusTable!HeaderOf
    <3>3. v2'.failed = Cardinality(CorpusTable!OfStatus("error")') /\ v2'.cost + v2'.skipped = Cardinality(CorpusTable!Recorded')
      <4>1. Cardinality(CorpusTable!OfStatus("error")') = 0 /\ Cardinality(CorpusTable!Recorded') = 0
        BY <2>4, <3>1
      <4>2. v2'.failed = 0 /\ v2'.cost = 0 /\ v2'.skipped = 0
        BY <1>2, <1>7, <3>1
      <4> QED BY <4>1, <4>2
    <3> QED BY <3>2, <3>3, CorpusTableCounts DEF CorpusTable!CallCounts
  <2> QED BY <1>2, <1>6, <1>8, <1>11, <2>1, <2>3, <2>5 DEF CorpusTable!OneRecordEach,
             CorpusTable!CallIsCounted
<1> QED BY <1>9, <1>10, <1>11

\* The steps that leave the log and the call alone.
LEMMA QuietKeeps ==
  ASSUME CorpusTable!OneRecordEach, UNCHANGED <<v1, v5>>, v3' \in {"reading", "raised"},
         v3' = "reading" => /\ v3 \in {"running", "reading"} /\ v2' = v2
                            /\ v2.todo = {} \/ v2.failed > 0
  PROVE  CorpusTable!OneRecordEach'
<1>1. CorpusTable!LogIsWhole'
  BY LogStays DEF CorpusTable!OneRecordEach
<1>2. v3' = "reading" => (v5 => CorpusTable!CallCounts')
  <2>1. CorpusTable!Recorded' = CorpusTable!Recorded /\ CorpusTable!OfStatus("error")' = CorpusTable!OfStatus("error")
    BY DEF CorpusTable!Recorded, CorpusTable!OfStatus, CorpusTable!Records
  <2> QED BY <2>1, CorpusTableCounts DEF CorpusTable!OneRecordEach, CorpusTable!CallIsCounted,
             CorpusTable!CallCounts, CorpusTable!Readable
<1> QED BY <1>1, <1>2, CorpusTableCounts DEF CorpusTable!OneRecordEach, CorpusTable!CallIsCounted,
           CorpusTable!TableCountsDocuments

LEMMA CrashKeeps ==
  ASSUME CorpusTable!OneRecordEach, CorpusTable!Crash
  PROVE  CorpusTable!OneRecordEach'
<1>1. CorpusTable!LogIsWhole /\ v1 \in Seq(CorpusTable!Lines) /\ v1 # <<>> /\ v1[1].kind = "header"
  BY DEF CorpusTable!OneRecordEach, CorpusTable!CallIsCounted, CorpusTable!LogIsWhole,
     CorpusTable!Crash
<1>2. /\ v1' \in Seq(CorpusTable!Lines) /\ v1' # <<>> /\ v1'[1] = v1[1] /\ CorpusTable!Records' = CorpusTable!Records
      /\ \A k \in CorpusTable!Records : v1'[k] = v1[k]
  BY <1>1, WrittenTorn DEF CorpusTable!Crash
<1>3. CorpusTable!LogIsWhole'
  BY <1>1, <1>2, RecordsStay DEF CorpusTable!Crash
<1> QED BY <1>3, CorpusTableCounts DEF CorpusTable!Crash, CorpusTable!OneRecordEach,
           CorpusTable!CallIsCounted, CorpusTable!TableCountsDocuments

\* The table is of the successes.
LEMMA ReadBackKeeps ==
  ASSUME CorpusTable!OneRecordEach, CorpusTable!ReadBack
  PROVE  CorpusTable!OneRecordEach'
<1>1. CorpusTable!LogIsWhole /\ v1 \in Seq(CorpusTable!Lines) /\ v5 \in BOOLEAN /\ (v5 => CorpusTable!CallCounts) /\ v2 \in CorpusTable!Calls
        /\ (v2.todo = {} \/ v2.failed > 0)
  BY DEF CorpusTable!OneRecordEach, CorpusTable!CallIsCounted, CorpusTable!LogIsWhole,
     CorpusTable!ReadBack
<1>2. CorpusTable!LogIsWhole'
  BY <1>1, LogStays DEF CorpusTable!ReadBack
<1>3. /\ v6' = [rows |-> CorpusTable!Rows, errored |-> v2.failed, skipped |-> v2.skipped,
                    cost |-> v2.cost, call |-> v2]
      /\ v3' = "returned" /\ UNCHANGED <<v1, v2, v4, v5>> /\ CorpusTable!Readable
  BY DEF CorpusTable!ReadBack
<1> DEFINE docs == {v1[k].doc : k \in CorpusTable!OfStatus("success")}
<1>4. /\ DOMAIN CorpusTable!Rows = CorpusTable!OfStatus("success") /\ \A k \in CorpusTable!OfStatus("success") : CorpusTable!Rows[k] = v1[k] /\ k \in CorpusTable!Records
      /\ {CorpusTable!Rows[k].doc : k \in DOMAIN CorpusTable!Rows} = docs
  BY DEF CorpusTable!Rows, CorpusTable!OfStatus
<1>5. \A k \in DOMAIN CorpusTable!Rows : CorpusTable!Rows[k].cells # None
  BY <1>1, <1>4 DEF CorpusTable!LogIsWhole, CorpusTable!OfStatus
<1>6. ASSUME v5
      PROVE  /\ Cardinality(docs) = Cardinality(DOMAIN CorpusTable!Rows)
             /\ \A k \in DOMAIN CorpusTable!Rows : CorpusTable!Rows[k].schema = v2.schema
             /\ Cardinality(CorpusTable!Recorded \ docs) = v2.failed
             /\ v2.corpus \subseteq CorpusTable!Recorded \/ v2.failed > 0
             /\ v2.cost <= Cardinality(DOMAIN CorpusTable!Rows) + v2.failed
             /\ v2.cost = Cardinality(CorpusTable!Recorded) - v2.skipped
  <2>1. \A j, k \in CorpusTable!Records : v1[j].doc = v1[k].doc => j = k
    BY <1>1, <1>6 DEF CorpusTable!LogIsWhole
  <2>2. /\ Cardinality(CorpusTable!Recorded) = Cardinality(CorpusTable!OfStatus("success")) + Cardinality(CorpusTable!OfStatus("error"))
        /\ Cardinality(docs) = Cardinality(CorpusTable!OfStatus("success"))
        /\ Cardinality({v1[k].doc : k \in CorpusTable!OfStatus("error")}) = Cardinality(CorpusTable!OfStatus("error"))
        /\ CorpusTable!Recorded \ docs = {v1[k].doc : k \in CorpusTable!OfStatus("error")}
        /\ Cardinality(CorpusTable!OfStatus("success")) \in Nat /\ Cardinality(CorpusTable!OfStatus("error")) \in Nat
    BY <1>1, <2>1, DocumentsCount
  <2>3. /\ v2.failed = Cardinality(CorpusTable!OfStatus("error")) /\ v2.cost + v2.skipped = Cardinality(CorpusTable!Recorded)
        /\ v2.corpus \subseteq CorpusTable!Recorded \union v2.todo /\ v2.schema = v1[1].schema
        /\ v2.cost \in Nat /\ v2.skipped \in Nat
    BY <1>1, <1>3, <1>6, CorpusTableCounts DEF CorpusTable!CallCounts, CorpusTable!Calls
  <2>4. \A k \in DOMAIN CorpusTable!Rows : CorpusTable!Rows[k].schema = v2.schema
    BY <1>1, <1>4, <1>6, <2>3 DEF CorpusTable!LogIsWhole
  <2> HIDE DEF docs
  <2>5. Cardinality(docs) = Cardinality(DOMAIN CorpusTable!Rows) /\ Cardinality(CorpusTable!Recorded \ docs) = v2.failed
    BY <1>4, <2>2, <2>3
  <2>6. v2.corpus \subseteq CorpusTable!Recorded \/ v2.failed > 0
    BY <1>1, <2>3
  <2>7. v2.cost <= Cardinality(DOMAIN CorpusTable!Rows) + v2.failed /\ v2.cost = Cardinality(CorpusTable!Recorded) - v2.skipped
    BY <1>4, <2>2, <2>3
  <2> QED BY <2>4, <2>5, <2>6, <2>7
<1>7. CorpusTable!TableCountsDocuments'
  <2>1. CorpusTable!Recorded' = CorpusTable!Recorded
    BY <1>3 DEF CorpusTable!Recorded, CorpusTable!Records
  <2>2. /\ v6'.rows = CorpusTable!Rows /\ v6'.errored = v2.failed /\ v6'.skipped = v2.skipped
        /\ v6'.cost = v2.cost /\ v6'.call = v2 /\ v5' = v5
    BY <1>3
  <2> HIDE DEF docs, CorpusTable!Rows, CorpusTable!Recorded
  <2> QED BY <1>4, <1>5, <1>6, <2>1, <2>2, CorpusTableCounts DEF CorpusTable!TableCountsDocuments
<1> QED BY <1>1, <1>2, <1>3, <1>7 DEF CorpusTable!OneRecordEach, CorpusTable!CallIsCounted

-----------------------------------------------------------------------------
LEMMA CorpusInit == CorpusTable!Init => CorpusTable!OneRecordEach
<1> SUFFICES ASSUME CorpusTable!Init PROVE CorpusTable!OneRecordEach
  OBVIOUS
<1>1. v1 = <<>> /\ v1 \in Seq(CorpusTable!Lines) /\ CorpusTable!Records = {}
  BY DEF CorpusTable!Init, CorpusTable!Records
<1>2. CorpusTable!LogIsWhole
  BY <1>1 DEF CorpusTable!LogIsWhole
<1> QED BY <1>2, CorpusTableCounts DEF CorpusTable!Init, CorpusTable!OneRecordEach,
           CorpusTable!CallIsCounted, CorpusTable!TableCountsDocuments

LEMMA CorpusNext == CorpusConstants => (CorpusTable!OneRecordEach /\ [CorpusTable!Next]_(CorpusTable!vars) => CorpusTable!OneRecordEach')
<1> SUFFICES ASSUME CorpusConstants, CorpusTable!OneRecordEach, [CorpusTable!Next]_(CorpusTable!vars) PROVE CorpusTable!OneRecordEach'
  OBVIOUS
<1>1. CASE CorpusTable!Call
  BY <1>1, CallKeeps
<1>2. CASE CorpusTable!NoDirectory
  BY <1>2, QuietKeeps DEF CorpusTable!NoDirectory
<1>3. ASSUME NEW d \in v2.corpus, CorpusTable!Item(d) PROVE CorpusTable!OneRecordEach'
  <2>1. v3 = "running" /\ d \in v2.todo
    BY <1>3 DEF CorpusTable!Item
  <2>2. CASE CorpusTable!Ends(d, "success", "values")
    BY <2>1, <2>2, EndsKeeps
  <2>3. CASE CorpusTable!Ends(d, "success", "errors")
    BY <2>1, <2>3, EndsKeeps
  <2>4. CASE CorpusTable!Ends(d, "error", None)
    BY <2>1, <2>4, EndsKeeps
  <2> QED BY <1>3, <2>2, <2>3, <2>4 DEF CorpusTable!Item
<1>4. CASE CorpusTable!BatchEnds
  BY <1>4, QuietKeeps DEF CorpusTable!BatchEnds
<1>5. CASE CorpusTable!Crash
  BY <1>5, CrashKeeps
<1>6. CASE CorpusTable!ReadBack
  BY <1>6, ReadBackKeeps
<1>7. CASE CorpusTable!CannotRead
  BY <1>7, QuietKeeps DEF CorpusTable!CannotRead
<1>8. CASE UNCHANGED CorpusTable!vars
  <2>1. CorpusTable!LogIsWhole'
    BY <1>8, LogStays DEF CorpusTable!OneRecordEach, CorpusTable!vars
  <2>2. CorpusTable!Recorded' = CorpusTable!Recorded /\ CorpusTable!OfStatus("error")' = CorpusTable!OfStatus("error")
    BY <1>8 DEF CorpusTable!Recorded, CorpusTable!OfStatus, CorpusTable!Records, CorpusTable!vars
  <2>3. CorpusTable!CallIsCounted'
    BY <1>8, <2>2, CorpusTableCounts DEF CorpusTable!OneRecordEach, CorpusTable!CallIsCounted,
       CorpusTable!CallCounts, CorpusTable!Readable, CorpusTable!vars
  <2>4. CorpusTable!TableCountsDocuments'
    BY <1>8, <2>2, CorpusTableCounts DEF CorpusTable!OneRecordEach,
       CorpusTable!TableCountsDocuments, CorpusTable!vars
  <2> QED BY <1>8, <2>1, <2>3, <2>4 DEF CorpusTable!OneRecordEach, CorpusTable!vars
<1> QED BY <1>1, <1>2, <1>3, <1>4, <1>5, <1>6, <1>7, <1>8 DEF CorpusTable!Next

LEMMA CorpusImplies == CorpusTable!OneRecordEach => CorpusTable!TableCountsDocuments
  BY DEF CorpusTable!OneRecordEach
=============================================================================
