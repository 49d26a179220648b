------------------------------ MODULE Chunking ------------------------------
(***************************************************************************)
(* _chunk_text of programs/chunk_retry.py: the sentences of a long text,   *)
(* in order, are gathered into chunks of at most MaxChars characters.  The *)
(* segmenter is external: sentences come one after the other, with or      *)
(* without white space between them.  A text is its length; a segment or   *)
(* a chunk is <<start, end>>, the end not included.                        *)
(***************************************************************************)
EXTENDS Integers, Sequences, SequencesExt

CONSTANTS
  MaxChars, MinChars,
  SegmentLengths, Gaps,  \* what the segmenter may find
  MaxSegments

VARIABLES
  at,        \* "walking" or "split"
  segments,  \* the segments so far
  chunks,    \* the chunks so far
  open       \* <<cur_start, cur_end>>, or <<>>

vars == <<at, segments, chunks, open>>

-----------------------------------------------------------------------------
Size(c) == c[2] - c[1]
EndOf(segs) == IF segs = <<>> THEN 0 ELSE Last(segs)[2]

\* _hard_split
Pieces(seg) ==
  [k \in 1..((Size(seg) + MaxChars - 1) \div MaxChars) |->
     LET from == seg[1] + (k - 1) * MaxChars
     IN <<from, IF from + MaxChars < seg[2] THEN from + MaxChars ELSE seg[2]>>]

Init ==
  /\ at = "walking"
  /\ segments = <<>>
  /\ chunks = <<>>
  /\ open = <<>>

Emitted == IF open = <<>> THEN chunks ELSE Append(chunks, open)

\* A segment too big for a chunk is cut, one that does not fit any more opens
\* the next chunk.
\* A bug: the gap before the segment is not counted.
FitsWithoutGap(seg) == open # <<>> /\ Size(open) + Size(seg) <= MaxChars
Fits(seg) == open # <<>> /\ seg[2] - open[1] <= MaxChars

NextSegment(seg) ==
  /\ at = "walking"
  /\ Len(segments) < MaxSegments
  /\ segments' = Append(segments, seg)
  /\ \/ /\ Size(seg) > MaxChars
        /\ chunks' = Emitted \o Pieces(seg)
        /\ open' = <<>>
     \/ /\ Size(seg) <= MaxChars
        /\ Fits(seg)
        /\ open' = <<open[1], seg[2]>>
        /\ UNCHANGED chunks
     \/ /\ Size(seg) <= MaxChars
        /\ ~Fits(seg)
        /\ chunks' = Emitted
        /\ open' = seg
  /\ UNCHANGED at

\* A last chunk that is too small becomes part of the one before.
TailMerged(cs) ==
  IF Len(cs) > 1 /\ Size(Last(cs)) < MinChars
  THEN Append(SubSeq(cs, 1, Len(cs) - 2), <<cs[Len(cs) - 1][1], Last(cs)[2]>>)
  ELSE cs

\* The text ends, and what fits into one chunk is not split at all.
TextEnds ==
  /\ at = "walking"
  /\ \E gap \in Gaps :
       LET length == EndOf(segments) + gap IN
         chunks' = IF length <= MaxChars THEN <<<<0, length>>>> ELSE TailMerged(Emitted)
  /\ at' = "split"
  /\ open' = <<>>
  /\ UNCHANGED segments

Next ==
  \/ \E gap \in Gaps, len \in SegmentLengths :
       NextSegment(<<EndOf(segments) + gap, EndOf(segments) + gap + len>>)
  \/ TextEnds

Spec == Init /\ [][Next]_vars

-----------------------------------------------------------------------------
TypeOK ==
  /\ at \in {"walking", "split"}
  /\ segments \in Seq(Nat \X Nat) /\ Len(segments) <= MaxSegments
  /\ chunks \in Seq(Nat \X Nat)
  /\ open = <<>> \/ open \in Nat \X Nat

Covered(c) == c[1]..(c[2] - 1)

\* The chunks cover every segment, in the order of the text and without an
\* overlap; none is longer than MaxChars, but the last may have taken in a tail
\* of fewer than MinChars characters and the white space before it.
ChunksTile ==
  /\ \A k \in DOMAIN segments :
       Covered(segments[k]) \subseteq UNION {Covered(Emitted[c]) : c \in DOMAIN Emitted}
  /\ \A k \in 1..(Len(Emitted) - 1) : Emitted[k][2] <= Emitted[k + 1][1]
  /\ \A k \in DOMAIN Emitted :
       \/ Size(Emitted[k]) <= MaxChars
       \/ /\ at = "split" /\ k = Len(Emitted)
          /\ \E gap \in Gaps : Size(Emitted[k]) - gap < MaxChars + MinChars
=============================================================================
