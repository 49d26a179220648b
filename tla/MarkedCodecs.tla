----------------------------- MODULE MarkedCodecs ----------------------------
(***************************************************************************)
(* ChatCodec and XMLCodec (codecs/chat_codec.py, codecs/xml_codec.py) and  *)
(* the images of codecs/multimodal.py: messages out of inputs, examples    *)
(* and binaries, and outputs out of a response in which markers stand      *)
(* before (chat) or around (xml) the value of a field.  A text is a        *)
(* sequence of markers and pieces; a chat marker begins a line.  encode    *)
(* builds the same messages in JSONCodec.                                  *)
(***************************************************************************)
EXTENDS Integers, Sequences, FiniteSets, SequencesExt, FiniteSetsExt, Functions

CONSTANTS
  Fields,      \* the output fields, 1..n, in the order of the signature
  Required, Listed,   \* those that must be there, those that hold a list
  Pieces,
  Separators,  \* of list items: the first that occurs separates them
  MaxLength, MaxExamples,
  Inputs,      \* the input fields
  None

VARIABLES
  at,
  codec,     \* "chat" or "xml"
  example,   \* the outputs of an example that is encoded, or None
  inputs,    \* what each input is, "text" or "binary", and which may be binary
  messages,
  text,      \* what the model answers, or the encoded example
  outputs

vars == <<at, codec, example, inputs, messages, text, outputs>>

Opens(f) == <<"open", f>>
Closes(f) == <<"close", f>>
Tokens == UNION {{Opens(f), Closes(f)} : f \in Fields} \union Pieces \union Range(Separators)
FirstAt(t, token) == SelectInSeq(t, LAMBDA x : x = token)

-----------------------------------------------------------------------------
(* encode *)

\* extract_binary_inputs: an input of a binary field whose value is binary.
IsBinary(n) == n \in inputs.fields /\ inputs.value[n] = "binary"
TextInputs == {n \in Inputs : ~IsBinary(n)}

\* Formats: the fields of the signature that the outputs hold, in its order.
InOrder(names) == SetToSortSeq(names, <)
Formatted(values) ==
  FlattenSeq([k \in 1..Cardinality(DOMAIN values) |->
    LET f == InOrder(DOMAIN values)[k]
    IN <<Opens(f)>> \o values[f] \o (IF codec = "xml" THEN <<Closes(f)>> ELSE <<>>)])

Message(role, content, parts) == [role |-> role, content |-> content, parts |-> parts]
Shots(n) == FlattenSeq([k \in 1..n |-> <<Message("user", Inputs, {}), Message("assistant", {}, {})>>])

\* The binaries become parts of the last message if it is the user's.
\* A bug: of the first message of the user.
FirstUser(list) == SelectInSeq(list, LAMBDA m : m.role = "user")
AttachedFirst(list) == [list EXCEPT ![FirstUser(list)].parts = Inputs \ TextInputs]
Attached(list) ==
  IF Last(list).role # "user" THEN list
  ELSE [list EXCEPT ![Len(list)].parts = Inputs \ TextInputs]

\* The codec encodes a question, or decodes an answer or an example.
Init ==
  /\ codec \in {"chat", "xml"}
  /\ \/ at = "encoding"
        /\ inputs \in [value : [Inputs -> {"text", "binary"}], fields : SUBSET Inputs]
        /\ example = None
     \/ at = "asked"
        /\ inputs = [value |-> [n \in Inputs |-> "text"], fields |-> {}]
        /\ example \in {None} \union UNION {[s -> SeqOf(Pieces, 1)] : s \in SUBSET Fields}
  /\ messages = <<>>
  /\ text = IF example = None THEN <<>> ELSE Formatted(example)
  /\ outputs = None

Encode(n) ==
  /\ at = "encoding"
  /\ messages' = Attached(<<Message("system", {}, {})>> \o Shots(n) \o <<Message("user", TextInputs, {})>>)
  /\ at' = "encoded"
  /\ UNCHANGED <<codec, example, inputs, text, outputs>>

-----------------------------------------------------------------------------
(* The model answers token by token. *)

Answer(token) ==
  /\ at = "asked" /\ example = None
  /\ Len(text) < MaxLength
  /\ codec = "chat" => token \notin {Closes(f) : f \in Fields}
  /\ text' = Append(text, token)
  /\ UNCHANGED <<at, codec, example, inputs, messages, outputs>>

-----------------------------------------------------------------------------
(* decode *)

\* Chat: from the first marker of the field to the next of these markers.
Marks == {p \in {FirstAt(text, Opens(f)) : f \in Fields} : p > 0}
After(p) == Min({q \in Marks : q > p} \union {Len(text) + 1})

\* XML: from the first opening tag to the first closing tag after it.
ClosedAt(f) ==
  SelectInSubSeq(text, FirstAt(text, Opens(f)) + 1, Len(text), LAMBDA x : x = Closes(f))

Start(f) == FirstAt(text, Opens(f)) + 1
\* A bug: up to the last closing tag, greedily.
LastEnd(f) == IF codec = "chat" THEN After(Start(f) - 1) - 1
              ELSE Max({i \in DOMAIN text : text[i] = Closes(f)}) - 1
End(f) == IF codec = "chat" THEN After(Start(f) - 1) - 1 ELSE ClosedAt(f) - 1
Found == {f \in Fields : FirstAt(text, Opens(f)) > 0 /\ (codec = "xml" => ClosedAt(f) > 0)}
Raw(f) == SubSeq(text, Start(f), End(f))

\* _coerce_to_list of a value that is no JSON: the items between separators
\* of the kind that comes first in Separators, none of them empty.
SeparatorIn(raw) == SelectInSeq(Separators, LAMBDA s : s \in Range(raw))
Items(raw) ==
  IF SeparatorIn(raw) = 0 THEN <<raw>>
  ELSE LET cuts == {0, Len(raw) + 1} \union {i \in DOMAIN raw : raw[i] = Separators[SeparatorIn(raw)]}
           cut == InOrder(cuts)
       IN [k \in 1..(Len(cut) - 1) |-> SubSeq(raw, cut[k] + 1, cut[k + 1] - 1)]
AsList(raw) == SelectSeq(Items(raw), LAMBDA item : item # <<>>)

Value(f) == IF f \in Listed THEN AsList(Raw(f)) ELSE <<Raw(f)>>

Decode ==
  /\ at = "asked" /\ text # <<>>
  /\ Required \subseteq Found
  /\ outputs' = [f \in Found |-> Value(f)]
  /\ at' = "decoded"
  /\ UNCHANGED <<codec, example, inputs, messages, text>>
DecodeRaises ==
  /\ at = "asked" /\ (text = <<>> \/ ~(Required \subseteq Found))
  /\ at' = "raised"
  /\ UNCHANGED <<codec, example, inputs, messages, text, outputs>>

Next ==
  \/ \E n \in 0..MaxExamples : Encode(n)
  \/ \E token \in Tokens : Answer(token)
  \/ Decode
  \/ DecodeRaises

Spec == Init /\ [][Next]_vars

-----------------------------------------------------------------------------
TypeOK ==
  /\ at \in {"encoding", "encoded", "asked", "decoded", "raised"}
  /\ codec \in {"chat", "xml"}
  /\ text \in Seq(Tokens)
  /\ at = "decoded" => DOMAIN outputs \subseteq Fields

\* Every input reaches the model once, as text or as a part of the last
\* message, which is the user's; turns alternate, examples before the question.
EachInputOnce ==
  messages # <<>> =>
    /\ \A k \in DOMAIN messages :
         messages[k].role = IF k = 1 THEN "system" ELSE IF k % 2 = 0 THEN "user" ELSE "assistant"
    /\ Last(messages).role = "user"
    /\ Last(messages).content \union Last(messages).parts = Inputs
    /\ Last(messages).content \intersect Last(messages).parts = {}
    /\ \A k \in 1..(Len(messages) - 1) : messages[k].parts = {}

\* An example is read back as it was encoded.  Of any answer, a chat reading
\* loses nothing after the first marker, tags never hold their own end, and a
\* list holds what its text holds, separators apart.
Words(value) == FlattenSeq(value)
SameWords(value, raw) ==
  /\ Words(value) = IF SeparatorIn(raw) = 0 THEN raw
                    ELSE SelectSeq(raw, LAMBDA x : x # Separators[SeparatorIn(raw)])
  /\ <<>> \notin Range(value)
ValuesAreQuoted ==
  at = "decoded" =>
    /\ example # None => outputs = [f \in DOMAIN example |-> IF f \in Listed THEN AsList(example[f]) ELSE <<example[f]>>]
    /\ codec = "chat" /\ Marks # {} =>
         Len(text) - Min(Marks) + 1 =
           MapThenSumSet(LAMBDA f : Len(Raw(f)) + 1, Found)
    /\ codec = "xml" => \A f \in Found : Closes(f) \notin Range(Raw(f))
    /\ \A f \in Listed \intersect Found : SameWords(outputs[f], Raw(f))
=============================================================================
