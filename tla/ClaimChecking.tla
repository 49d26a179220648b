---------------------------- MODULE ClaimChecking ---------------------------
(***************************************************************************)
(* verify_claims of programs/classify/nli.py: claims are scored against    *)
(* the evidence in one call, then in their order the doubtful ones go to a *)
(* judge, if the embeddings of claim and evidence are close enough.        *)
(* Probabilities are in tenths.                                            *)
(***************************************************************************)
EXTENDS Integers, Sequences, FiniteSets, SequencesExt, FiniteSetsExt

CONSTANTS
  Claims,       \* the lists of claims that are asked about
  Scores,       \* <<entailment, neutral, contradiction>>
  Cosines,
  Confidences,  \* of a judge
  Thresholds,   \* of confident and of neutral_floor
  Gate,
  None

VARIABLES
  at,         \* "received", "checking", "returned" or "raised"
  claims,
  confident, neutral_floor,
  judged,     \* whether a judge is given
  gated,      \* whether an embedder is given
  scores,     \* what the scorer answered
  verdicts,
  cosines,    \* what the embedder said of each claim, None if not asked
  opinions    \* what the judge said of each claim, None if not asked

settings == <<claims, confident, neutral_floor, judged, gated>>
vars == <<at, settings, scores, verdicts, cosines, opinions>>

Labels == <<"entailment", "neutral", "contradiction">>

-----------------------------------------------------------------------------
(* _to_verdict: the most probable label, the first of equals. *)

Best(score) == CHOOSE i \in DOMAIN score :
  /\ \A j \in DOMAIN score : score[j] <= score[i]
  /\ \A j \in 1..(i - 1) : score[j] < score[i]
Verdict(claim, score) ==
  [claim |-> claim, label |-> Labels[Best(score)], confidence |-> score[Best(score)],
   score |-> score, method |-> "nli", cosine |-> None]

\* A label of the judge stands for one of the three classes, or for none.
JudgeLabels == [supported |-> 1, entailment |-> 1, neutral |-> 2, refuted |-> 3, contradiction |-> 3]
Opinions == [label : DOMAIN JudgeLabels \union {"unsure"}, confidence : Confidences]
Known(opinion) == opinion.label \in DOMAIN JudgeLabels

\* _judge_to_verdict: the other two labels share the rest.
JudgeVerdict(claim, opinion, cosine) ==
  LET k == JudgeLabels[opinion.label]
      rest == (10 - opinion.confidence) \div 2
  IN [claim |-> claim, label |-> Labels[k], confidence |-> opinion.confidence,
      score |-> [i \in 1..3 |-> IF i = k THEN opinion.confidence ELSE rest],
      method |-> "llm_judge", cosine |-> cosine]

\* A sure neutral is doubted, and an unsure verdict of another label.
\* A bug: every verdict that is not sure is doubted.
Unsure(verdict) == verdict.confidence < confident
Eligible(verdict) ==
  IF verdict.label = "neutral" THEN verdict.score[2] >= neutral_floor ELSE verdict.confidence < confident

-----------------------------------------------------------------------------
Init ==
  /\ at = "received"
  /\ claims \in Claims
  /\ confident \in Thresholds
  /\ neutral_floor \in Thresholds
  /\ judged \in BOOLEAN
  /\ gated \in BOOLEAN
  /\ scores = <<>>
  /\ verdicts = <<>>
  /\ cosines = <<>>
  /\ opinions = <<>>

Valid == {confident, neutral_floor} \subseteq 0..10
Done == Len(cosines)
Refuse ==
  /\ at = "received" /\ ~Valid
  /\ at' = "raised"
  /\ UNCHANGED <<settings, scores, verdicts, cosines, opinions>>
NoClaims ==
  /\ at = "received" /\ Valid /\ claims = <<>>
  /\ at' = "returned"
  /\ UNCHANGED <<settings, scores, verdicts, cosines, opinions>>

\* The scorer must answer for every claim.
Scored(answer) ==
  /\ at = "received" /\ Valid /\ claims # <<>>
  /\ IF Len(answer) # Len(claims)
       THEN at' = "raised" /\ UNCHANGED <<scores, verdicts>>
       ELSE /\ scores' = answer
            /\ verdicts' = [i \in DOMAIN claims |-> Verdict(claims[i], answer[i])]
            /\ at' = IF judged THEN "checking" ELSE "returned"
  /\ UNCHANGED <<settings, cosines, opinions>>

Keep(cosine) ==
  /\ cosines' = Append(cosines, cosine)
  /\ opinions' = Append(opinions, None)
  /\ UNCHANGED at

\* The next claim: trusted as it is, too far from the evidence, or judged.
Checking == at = "checking" /\ Done < Len(claims)
Trust ==
  /\ Checking /\ ~Eligible(verdicts[Done + 1])
  /\ Keep(None)
  /\ UNCHANGED <<settings, scores, verdicts>>
Near(cosine) == cosine >= Gate
TooFar(cosine) ==
  /\ Checking /\ Eligible(verdicts[Done + 1]) /\ gated /\ ~Near(cosine)
  /\ verdicts' = [verdicts EXCEPT ![Done + 1].cosine = cosine]
  /\ Keep(cosine)
  /\ UNCHANGED <<settings, scores>>
Judge(cosine, opinion) ==
  /\ Checking /\ Eligible(verdicts[Done + 1])
  /\ IF gated THEN cosine # None /\ Near(cosine) ELSE cosine = None
  /\ IF Known(opinion)
       THEN /\ verdicts' = [verdicts EXCEPT ![Done + 1] = JudgeVerdict(@.claim, opinion, cosine)]
            /\ cosines' = Append(cosines, cosine)
            /\ opinions' = Append(opinions, opinion)
            /\ UNCHANGED at
       ELSE at' = "raised" /\ UNCHANGED <<verdicts, cosines, opinions>>
  /\ UNCHANGED <<settings, scores>>
Return ==
  /\ at = "checking" /\ Done = Len(claims)
  /\ at' = "returned"
  /\ UNCHANGED <<settings, scores, verdicts, cosines, opinions>>

Next ==
  \/ Refuse
  \/ NoClaims
  \/ \E n \in 0..2 : \E answer \in [1..n -> Scores] : Scored(answer)
  \/ Trust
  \/ \E cosine \in Cosines : TooFar(cosine)
  \/ \E cosine \in Cosines \union {None}, opinion \in Opinions : Judge(cosine, opinion)
  \/ Return

Spec == Init /\ [][Next]_vars

-----------------------------------------------------------------------------
TypeOK ==
  /\ at \in {"received", "checking", "returned", "raised"}
  /\ Len(cosines) = Len(opinions) /\ Len(cosines) <= Len(claims)
  /\ \A i \in DOMAIN verdicts :
       verdicts[i].label \in Range(Labels) /\ verdicts[i].method \in {"nli", "llm_judge"}

\* Whoever asks gets a verdict for every claim, in its order; a scorer that is
\* sure of a claim's truth or falsehood is never overruled, a judge speaks only
\* of what was near enough, and a verdict says who gave it and no other
\* verdict was disturbed.
VerdictsAreAccountedFor ==
  at = "returned" =>
    /\ Len(verdicts) = Len(claims)
    /\ \A i \in DOMAIN claims :
         LET verdict == verdicts[i]
             other == {j \in {1, 3} : scores[i][j] = Max(Range(scores[i])) /\ (j = 3 => scores[i][j] > scores[i][2])}
         IN /\ verdict.claim = claims[i]
            /\ verdict.method = "nli" => verdict.score = scores[i] /\ verdict.confidence = Max(Range(scores[i]))
            /\ verdict.method = "llm_judge" =>
                 /\ judged /\ (gated => verdict.cosine >= Gate)
                 /\ opinions[i].confidence = verdict.confidence
                 /\ \A j \in other : scores[i][j] < confident
                 /\ other = {} => scores[i][2] >= neutral_floor
=============================================================================
