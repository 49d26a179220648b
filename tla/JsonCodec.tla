------------------------------ MODULE JsonCodec ------------------------------
(***************************************************************************)
(* JSONCodec.decode of codecs/json_codec.py on what a model writes.  The   *)
(* model means to write a document and may forget to escape a quote, write *)
(* around it, or stop at any character; text is what it wrote and intended *)
(* the same with every quote escaped.  json.loads is external: it reads a  *)
(* document that is whole, and may read one that the codec has closed.     *)
(***************************************************************************)
EXTENDS Integers, Sequences, FiniteSets, SequencesExt, Functions

CONSTANTS
  Fields, Required,  \* the output fields of the signature, and those without a default
  Keys,              \* what an object of the model may hold: Fields and others
  MaxLength,
  None

VARIABLES
  at,       \* "writing", "written", "decoded" or "raised"
  text,     \* the characters of the response
  intended,
  open,     \* what the model has not closed: "{", "[", a string "s", an escape "e"
  spoiled,  \* a quote was not escaped
  sources,  \* [text, output_json]: the objects that were read, or None
  result

written == <<text, intended, open, spoiled>>
vars == <<at, written, sources, result>>

-----------------------------------------------------------------------------
(* The characters of a document *)

Structural == {",", ":", "}", "]"}
Closer == [b \in {"{", "[", "s"} |-> CASE b = "{" -> "}" [] b = "[" -> "]" [] OTHER -> "quote"]

\* One walk for both repairs: where the walk is after each character.
Outside == [stack |-> <<>>, in_string |-> FALSE, escape |-> FALSE]
Walk(s, ch) ==
  CASE s.escape -> [s EXCEPT !.escape = FALSE]
    [] s.in_string /\ ~s.escape -> [s EXCEPT !.escape = ch = "esc", !.in_string = ch # "quote"]
    [] ~s.in_string /\ ch = "quote" -> [s EXCEPT !.in_string = TRUE]
    [] ~s.in_string /\ ch \in {"{", "["} -> [s EXCEPT !.stack = Append(@, ch)]
    [] ~s.in_string /\ s.stack # <<>> /\ ch = Closer[Last(s.stack)] -> [s EXCEPT !.stack = Front(@)]
    [] OTHER -> s

\* What is still open is closed from the inside out.
\* A bug: a string that is open is not closed.
BracketsOnly(chars) ==
  LET s == FoldLeft(Walk, Outside, chars)
  IN Reverse([k \in DOMAIN s.stack |-> Closer[s.stack[k]]])
Closure(chars) ==
  LET s == FoldLeft(Walk, Outside, chars)
  IN (IF s.in_string THEN <<"quote">> ELSE <<>>) \o Reverse([k \in DOMAIN s.stack |-> Closer[s.stack[k]]])

\* A quote in a string ends it if a structural character or nothing follows.
Next1(chars, i) == SelectInSubSeq(chars, i + 1, Len(chars), LAMBDA c : c # "space")
EndsString(chars, i) == Next1(chars, i) = 0 \/ chars[Next1(chars, i)] \in Structural
Repair(chars, s, i) ==
  LET ch == chars[i]
  IN CASE s.escape -> [s EXCEPT !.escape = FALSE, !.out = Append(@, ch)]
       [] s.in_string /\ ~s.escape /\ ch = "quote" /\ ~EndsString(chars, i) ->
            [s EXCEPT !.out = @ \o <<"esc", "quote">>]
       [] OTHER -> [s EXCEPT !.out = Append(@, ch), !.escape = s.in_string /\ ch = "esc",
                             !.in_string = IF ch = "quote" THEN ~@ ELSE @]
Repaired(chars) ==
  FoldLeft(LAMBDA s, i : Repair(chars, s, i), [out |-> <<>>, in_string |-> FALSE, escape |-> FALSE],
           [i \in DOMAIN chars |-> i]).out

-----------------------------------------------------------------------------
(* The model writes *)

Init ==
  /\ at = "writing"
  /\ open \in {<<>>, <<"{">>}
  /\ text = open /\ intended = open
  /\ spoiled = FALSE
  /\ sources = [text |-> None, output_json |-> None]
  /\ result = None

InString == open # <<>> /\ Last(open) = "s"
OutOfStrings == open # <<>> /\ Last(open) \in {"{", "["}
AfterString == Last(text) \in {"quote", "space"}

Writing == at = "writing" /\ Len(text) < MaxLength
Write(chars, meant) ==
  /\ text' = text \o chars
  /\ intended' = intended \o meant
  /\ UNCHANGED <<at, sources, result>>

\* Between strings: brackets, separators, and white space after a string.
OpenBracket ==
  /\ Writing /\ OutOfStrings /\ ~AfterString
  /\ \E b \in {"{", "["} : Write(<<b>>, <<b>>) /\ open' = Append(open, b)
  /\ UNCHANGED spoiled
CloseBracket ==
  /\ Writing /\ OutOfStrings
  /\ Write(<<Closer[Last(open)]>>, <<Closer[Last(open)]>>)
  /\ open' = Front(open)
  /\ UNCHANGED spoiled
Separate ==
  /\ Writing /\ OutOfStrings
  /\ \E c \in {",", ":", "space"} : Write(<<c>>, <<c>>)
  /\ UNCHANGED <<open, spoiled>>
OpenString ==
  /\ Writing /\ OutOfStrings /\ ~AfterString
  /\ Write(<<"quote">>, <<"quote">>)
  /\ open' = Append(open, "s")
  /\ UNCHANGED spoiled

\* In a string: anything, escapes, and a quote that should have been escaped.
Content ==
  /\ Writing /\ InString
  /\ \E c \in {"x", "}"} : Write(<<c>>, <<c>>)
  /\ UNCHANGED <<open, spoiled>>
Backslash ==
  /\ Writing /\ InString
  /\ Write(<<"esc">>, <<"esc">>)
  /\ open' = Append(open, "e")
  /\ UNCHANGED spoiled
Escaped ==
  /\ Writing /\ open # <<>> /\ Last(open) = "e"
  /\ \E c \in {"esc", "quote"} : Write(<<c>>, <<c>>)
  /\ open' = Front(open)
  /\ UNCHANGED spoiled
InlineQuote ==
  /\ Writing /\ InString
  /\ \E rest \in {<<"x">>, <<"space", "x">>} : Write(<<"quote">> \o rest, <<"esc", "quote">> \o rest)
  /\ spoiled' = TRUE
  /\ UNCHANGED open
CloseString ==
  /\ Writing /\ InString
  /\ Write(<<"quote">>, <<"quote">>)
  /\ open' = Front(open)
  /\ UNCHANGED spoiled

\* The document is whole, or the response is cut off.
Stop ==
  /\ at = "writing"
  /\ at' = "written"
  /\ UNCHANGED <<written, sources, result>>

-----------------------------------------------------------------------------
(* decode, which does not keep what was written *)

Objects == SUBSET Keys

\* _extract_json: the fence, the whole text, from brace to brace, that with
\* its quotes repaired, or the text closed; the first that is an object.
Whole == open = <<>>
ReadsText ==
  {None} \union (IF text # <<>> /\ (Whole \/ Closure(text) # <<>>) THEN Objects ELSE {})

\* The object that has all required fields, of both the one with more keys.
\* A bug: the text is preferred whatever it holds.
TextFirst(s) == IF s.text # None THEN s.text ELSE s.output_json
Complete(object) == object # None /\ Required \subseteq object
MoreComplete(s) ==
  IF Complete(s.text) /\ Complete(s.output_json)
    THEN IF Cardinality(s.text) >= Cardinality(s.output_json) THEN s.text ELSE s.output_json
  ELSE IF Complete(s.text) THEN s.text
  ELSE IF Complete(s.output_json) THEN s.output_json
  ELSE None

\* _validate_outputs: the fields of the signature.
Outputs(object) == object \intersect Fields

Decode ==
  /\ at = "written"
  /\ \E t \in ReadsText, o \in Objects \union {None} :
       LET read == [text |-> t, output_json |-> o] IN
       /\ sources' = read
       /\ IF Complete(MoreComplete(read))
            THEN at' = "decoded" /\ result' = Outputs(MoreComplete(read))
            ELSE at' = "raised" /\ UNCHANGED result
  /\ text' = <<>> /\ intended' = <<>> /\ open' = <<>> /\ spoiled' = FALSE

Next ==
  \/ OpenBracket \/ CloseBracket \/ Separate \/ OpenString
  \/ Content \/ Backslash \/ Escaped \/ InlineQuote \/ CloseString
  \/ Stop
  \/ Decode

Spec == Init /\ [][Next]_vars

-----------------------------------------------------------------------------
TypeOK ==
  /\ at \in {"writing", "written", "decoded", "raised"}
  /\ Len(text) <= MaxLength + 2
  /\ open \in Seq({"{", "[", "s", "e"})
  /\ spoiled \in BOOLEAN
  /\ sources.text \in Objects \union {None} /\ sources.output_json \in Objects \union {None}
  /\ result \in SUBSET Fields \union {None}

\* However the response was cut off, the closure closes exactly what the model
\* had open (unless the last character waits for what it escapes), and quotes
\* that were not escaped are repaired to what was meant, none else.
RepairsAreFaithful ==
  /\ ~spoiled /\ "e" \notin Range(open) => Closure(text) = Reverse([k \in DOMAIN open |-> Closer[open[k]]])
  /\ Whole => Repaired(text) = intended

\* The outputs are of one source that has every required field, if one has.
CompleteSourceIsUsed ==
  /\ at = "decoded" => Required \subseteq result
                       /\ \E o \in {sources.text, sources.output_json} \ {None} : result = o \intersect Fields
  /\ at = "raised" => ~Complete(sources.text) /\ ~Complete(sources.output_json)
=============================================================================
