------------------------------ MODULE BatchSources ----------------------------
(***************************************************************************)
(* Where the items of a batch come from (programs/batch/sources.py and     *)
(* programs/batch_bridges.py): a list, the lines of a file, the pages of a *)
(* PDF or the rows of a query.  A resumed batch reads its source again and *)
(* leaves out the items it has the ids of, so an id must mean the same     *)
(* inputs both times.                                                      *)
(***************************************************************************)
EXTENDS Integers, Sequences, FiniteSets, FiniteSetsExt

CONSTANTS
  Entries,   \* [form, id, text]: form is "item", "blank" or "broken"
  MaxEntries,
  Ranges,    \* [from, to]: page_range, whose end is not included
  MaxRows,
  None

VARIABLES
  kind,
  entries,
  hashed,   \* whether a program_hash is given
  range,    \* page_range, or None
  at,       \* "new", "reading", "over" or "raised"
  position, \* the next entry
  yielded,  \* [id, text] of the items of this pass
  first,    \* those of the first pass
  edited,   \* whether the source has been written to since
  pass

vars == <<kind, entries, hashed, range, at, position, yielded, first, edited, pass>>

Kinds == {"list", "jsonl", "pdf", "tabular"}

\* What a source may hold: only lines and pages can be blank or broken, and
\* only items of a list or a line may bring an id.
Possible(k, e) ==
  /\ e.form # "item" => k \in {"jsonl", "pdf"}
  /\ e.id # None => k \in {"list", "jsonl"} /\ e.form = "item"
Contents(k) == UNION {[1..n -> {e \in Entries : Possible(k, e)}] : n \in 0..MaxEntries}

-----------------------------------------------------------------------------
\* The pages that are read, numbered from 1.
Start == IF kind = "pdf" /\ range # None THEN Max({0, range.from}) + 1 ELSE 1
End ==
  CASE kind = "pdf" -> IF range = None THEN Len(entries) ELSE Min({Len(entries), range.to})
    [] kind = "tabular" -> Min({Len(entries), MaxRows})
    [] OTHER -> Len(entries)

\* The id that an item brings, of its page, or of its inputs.
IdFor(e, page) ==
  CASE e.id # None -> <<"given", e.id>>
    [] e.id = None /\ kind = "pdf" -> <<"page", page>>
    [] OTHER -> <<"inputs", e.text>>
\* A bug: a page has the number of the item.
IdOfItem(k) == IdFor(entries[k], Len(yielded))
IdOf(k) == IdFor(entries[k], k)

Init ==
  /\ kind \in Kinds
  /\ entries \in Contents(kind)
  /\ hashed \in IF kind = "list" THEN BOOLEAN ELSE {TRUE}
  /\ range \in IF kind = "pdf" THEN Ranges \union {None} ELSE {None}
  /\ at = "new"
  /\ position = 1
  /\ yielded = <<>>
  /\ first = <<>>
  /\ edited = FALSE
  /\ pass = 1

\* A file that is not there, or an extra that is not installed.
CannotOpen ==
  /\ at = "new" /\ kind # "list"
  /\ at' = "raised"
  /\ UNCHANGED <<kind, entries, hashed, range, position, yielded, first, edited, pass>>
Open ==
  /\ at = "new"
  /\ at' = "reading"
  /\ position' = Start
  /\ UNCHANGED <<kind, entries, hashed, range, yielded, first, edited, pass>>

Reading == at = "reading" /\ position <= End
Skip ==
  /\ Reading /\ entries[position].form = "blank"
  /\ position' = position + 1
  /\ UNCHANGED <<kind, entries, hashed, range, at, yielded, first, edited, pass>>

\* What cannot be read, and an item that has no id and cannot get one, end the
\* source and the batch with it.
NoId(k) == entries[k].form = "item" /\ entries[k].id = None /\ ~hashed
Raise ==
  /\ Reading /\ (entries[position].form = "broken" \/ NoId(position))
  /\ at' = "raised"
  /\ UNCHANGED <<kind, entries, hashed, range, position, yielded, first, edited, pass>>
Yield ==
  /\ Reading /\ entries[position].form = "item" /\ ~NoId(position)
  /\ yielded' = Append(yielded, [id |-> IdOf(position), text |-> entries[position].text])
  /\ position' = position + 1
  /\ UNCHANGED <<kind, entries, hashed, range, at, first, edited, pass>>
Exhausted ==
  /\ at = "reading" /\ position > End
  /\ at' = "over"
  /\ UNCHANGED <<kind, entries, hashed, range, position, yielded, first, edited, pass>>

\* Whoever reads may stop at any time; another process reads again, perhaps
\* with another range, perhaps after somebody has changed an entry.
Again ==
  /\ pass = 1 /\ at # "new"
  /\ pass' = 2
  /\ first' = yielded
  /\ yielded' = <<>>
  /\ at' = "new"
  /\ position' = 1
  /\ range' \in IF kind = "pdf" THEN Ranges \union {None} ELSE {None}
  /\ \/ UNCHANGED <<entries, edited>>
     \/ /\ edited' = TRUE
        /\ \E k \in DOMAIN entries : \E e \in {e \in Entries : Possible(kind, e)} \ {entries[k]} :
             entries' = [entries EXCEPT ![k] = e]
  /\ UNCHANGED <<kind, hashed>>

Next == CannotOpen \/ Open \/ Skip \/ Raise \/ Yield \/ Exhausted \/ Again

Spec == Init /\ [][Next]_vars

-----------------------------------------------------------------------------
TypeOK ==
  /\ kind \in Kinds /\ at \in {"new", "reading", "over", "raised"} /\ pass \in {1, 2}
  /\ position \in 1..(MaxEntries + 2) /\ Len(yielded) <= MaxEntries

\* An id that both passes have stands for the same inputs, although the range
\* was another one; where it is made of the inputs even after an edit.  A
\* source that is read to its end has left nothing out but blank entries.
IdsMeanTheirInputs ==
  /\ \A i \in DOMAIN first, j \in DOMAIN yielded :
       first[i].id = yielded[j].id =>
         \/ first[i].text = yielded[j].text
         \/ edited /\ first[i].id[1] \in {"given", "page"}
         \/ first[i].id[1] = "given" /\ \E k, l \in DOMAIN entries : k # l /\ entries[k].id = entries[l].id
  /\ \A i, j \in DOMAIN yielded : i # j /\ kind = "pdf" => yielded[i].id # yielded[j].id
  /\ at = "over" => Len(yielded) = Cardinality({k \in Start..End : entries[k].form = "item"})

-----------------------------------------------------------------------------
(* Why the ids can be relied on: the inductive invariant *)

ItemAt(e, k) == [id |-> IdFor(e, k), text |-> e.text]
Items == {ItemAt(e, k) : e \in {e \in Entries : Possible(kind, e)}, k \in 1..MaxEntries}

\* What was yielded stands at a position that was passed, no two pages at the
\* same; what the first pass yielded stands where it stood unless somebody
\* wrote to the source; and a pass has yielded as many items as it came by.
YieldedInOrder ==
  /\ entries \in Seq(Entries) /\ Len(entries) <= MaxEntries
  /\ \A k \in DOMAIN entries : Possible(kind, entries[k])
  /\ range \in Ranges \union {None}
  /\ position \in Nat \ {0}
  /\ yielded \in Seq(Items) /\ first \in Seq(Items)
  /\ at = "new" => yielded = <<>>
  /\ \A i \in DOMAIN yielded :
       \E k \in DOMAIN entries : k < position /\ yielded[i] = ItemAt(entries[k], k)
  /\ ~edited => \A i \in DOMAIN first : \E k \in DOMAIN entries : first[i] = ItemAt(entries[k], k)
  /\ kind = "pdf" => \A i, j \in DOMAIN yielded : i # j => yielded[i].id # yielded[j].id
  /\ at \in {"reading", "over"} =>
       /\ Start <= position
       /\ position = Start \/ position <= End + 1
       /\ Len(yielded) = Cardinality({k \in Start..(position - 1) : entries[k].form = "item"})
  /\ at = "over" => position > End
=============================================================================
