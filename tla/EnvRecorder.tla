------------------------------ MODULE EnvRecorder -----------------------------
(***************************************************************************)
(* The recorder that an environment variable turns on                      *)
(* (observability/env_recorder.py): every call appends a line about its    *)
(* invocation to the file of the process, under a lock of the process.  A  *)
(* process that is forked inherits the patch, the path and a copy of the   *)
(* lock. A long line reaches the file in more than one piece.              *)
(***************************************************************************)
EXTENDS Integers, Sequences

CONSTANTS
  Made,       \* the calls
  Owner,      \* [call -> the process it is made in], "parent" or "child"
  Pieces,     \* [call -> the pieces of its line]
  MayFork,
  MaxFails,   \* writes that fail
  None

Processes == {"parent", "child"}

VARIABLES
  alive,     \* the processes that run
  installed, \* whether Call._execute is patched; the child has what the parent has
  at,        \* [call -> where it is]
  line,      \* [call -> whether it leaves a line]
  written,   \* [call -> how many pieces of its line are in the file]
  lock,      \* [process -> the call that holds _WRITE_LOCK, or None]
  file,      \* the pieces in the file: [call, piece]
  fails

vars == <<alive, installed, at, line, written, lock, file, fails>>

-----------------------------------------------------------------------------
Init ==
  /\ alive = {"parent"}
  /\ installed = FALSE
  /\ at = [c \in Made |-> "ready"]
  /\ line = [c \in Made |-> FALSE]
  /\ written = [c \in Made |-> 0]
  /\ lock = [p \in Processes |-> None]
  /\ file = <<>>
  /\ fails = 0

Goes(c, to) == at' = [at EXCEPT ![c] = to]

\* The header goes first; if it cannot be written the patch is made all the
\* same.  Without a directory nothing is installed.
Install ==
  /\ "parent" \in alive /\ ~installed /\ \A c \in Made : at[c] = "ready"
  /\ installed' = TRUE
  /\ UNCHANGED <<alive, at, line, written, lock, file, fails>>

\* The lock is copied as it is: if it is held, the child never gets it.  A child
\* is a process whose calls are all to be made.
Fork ==
  /\ MayFork /\ installed /\ alive = {"parent"}
  /\ \A c \in Made : Owner[c] = "child" => at[c] = "ready"
  /\ alive' = Processes
  /\ lock' = [lock EXCEPT !["child"] = lock["parent"]]
  /\ UNCHANGED <<installed, at, line, written, file, fails>>
Begin(c) ==
  /\ at[c] = "ready" /\ Owner[c] \in alive
  /\ Goes(c, "asked")
  /\ UNCHANGED <<alive, installed, line, written, lock, file, fails>>

\* A call that returns, or raises with the invocation attached, leaves a line;
\* one that is cancelled, or whose invocation cannot be serialized, does not.
CallEnds(c, leaves) ==
  /\ at[c] = "asked" /\ Owner[c] \in alive
  /\ IF installed /\ leaves
       THEN Goes(c, "recording") /\ line' = [line EXCEPT ![c] = TRUE]
       ELSE Goes(c, "over") /\ UNCHANGED line
  /\ UNCHANGED <<alive, installed, written, lock, file, fails>>

\* A bug: the lines are written without the lock.
Unlocked(c) == TRUE
Free(c) == lock[Owner[c]] = None
Lock(c) ==
  /\ at[c] = "recording" /\ Owner[c] \in alive /\ Free(c)
  /\ lock' = [lock EXCEPT ![Owner[c]] = c]
  /\ Goes(c, "writing")
  /\ UNCHANGED <<alive, installed, line, written, file, fails>>
Write(c) ==
  /\ at[c] = "writing" /\ Owner[c] \in alive /\ written[c] < Pieces[c]
  /\ written' = [written EXCEPT ![c] = @ + 1]
  /\ file' = Append(file, [call |-> c, piece |-> written[c] + 1])
  /\ UNCHANGED <<alive, installed, at, line, lock, fails>>

\* The call goes on when its line is on the disk, or when the write has failed.
Close(c) == Goes(c, "over") /\ lock' = [lock EXCEPT ![Owner[c]] = None]
Flushed(c) ==
  /\ at[c] = "writing" /\ Owner[c] \in alive /\ written[c] = Pieces[c]
  /\ Close(c)
  /\ UNCHANGED <<alive, installed, line, written, file, fails>>
WriteFails(c) ==
  /\ at[c] = "writing" /\ Owner[c] \in alive /\ written[c] < Pieces[c] /\ fails < MaxFails
  /\ fails' = fails + 1
  /\ Close(c)
  /\ UNCHANGED <<alive, installed, line, written, file>>
Kill(p) ==
  /\ p \in alive
  /\ alive' = alive \ {p}
  /\ UNCHANGED <<installed, at, line, written, lock, file, fails>>

Next ==
  \/ Install \/ Fork
  \/ \E c \in Made : Begin(c) \/ Lock(c) \/ Write(c) \/ Flushed(c) \/ WriteFails(c)
  \/ \E c \in Made, leaves \in BOOLEAN : CallEnds(c, leaves)
  \/ \E p \in Processes : Kill(p)

Spec == Init /\ [][Next]_vars

-----------------------------------------------------------------------------
TypeOK ==
  /\ alive \subseteq Processes /\ installed \in BOOLEAN /\ fails \in 0..MaxFails
  /\ \A c \in Made :
       /\ at[c] \in {"ready", "asked", "recording", "writing", "over"}
       /\ written[c] \in 0..Pieces[c]
  /\ \A p \in Processes : lock[p] \in Made \union {None}

\* The last piece of a line ends it: a line is what lies between two of them.
Ends == {i \in DOMAIN file : file[i].piece = Pieces[file[i].call]}
Starts(i) == i = 1 \/ i - 1 \in Ends
Intact(c) ==
  \E i \in DOMAIN file :
    /\ Starts(i) /\ i + Pieces[c] - 1 \in DOMAIN file
    /\ \A k \in 1..Pieces[c] : file[i + k - 1] = [call |-> c, piece |-> k]

\* Calls of both processes have something in the file.
Shared == \E c, d \in Made : Owner[c] # Owner[d] /\ written[c] > 0 /\ written[d] > 0

\* No line of a process within another of it.
LinesUnbroken ==
  \A c, d \in Made : Owner[c] = Owner[d] /\ c # d =>
    \A i, j, k \in DOMAIN file :
      i < j /\ j < k /\ file[i].call = c /\ file[j].call = d => file[k].call # c

\* Every call that went on has its line in the file, whole and once, however
\* the process ends: as long as no write has failed and the processes that
\* write do not share the file after a fork.  Within a process a line is never
\* broken by another, and no line is written that no call left.
LinesAreWhole ==
  /\ fails = 0 /\ ~Shared => \A c \in Made : line[c] /\ at[c] = "over" => Intact(c)
  /\ \A i, j \in DOMAIN file : i < j /\ file[i].call = file[j].call => file[i].piece < file[j].piece
  /\ \A i \in DOMAIN file : line[file[i].call]
  /\ LinesUnbroken

-----------------------------------------------------------------------------
(* Why lines are whole: the inductive invariant *)

\* What is written of a call tells where the call is.
CallsProgress ==
  /\ alive \subseteq Processes /\ fails \in Nat
  /\ \A c \in Made :
       /\ at[c] \in {"ready", "asked", "recording", "writing", "over"} /\ line[c] \in BOOLEAN
       /\ written[c] \in 0..Pieces[c]
       /\ at[c] \in {"ready", "asked", "recording"} => written[c] = 0
       /\ at[c] \in {"ready", "asked"} => ~line[c]
       /\ at[c] \in {"recording", "writing"} \/ written[c] > 0 => line[c]
       /\ fails = 0 /\ line[c] /\ at[c] = "over" => written[c] = Pieces[c]

\* Who writes holds the lock of the own process, where the child has begun.
LockIsHeld ==
  /\ at \in [Made -> {"ready", "asked", "recording", "writing", "over"}]
  /\ line \in [Made -> BOOLEAN] /\ written \in [Made -> Int] /\ DOMAIN lock = Processes
  /\ \A c \in Made : at[c] = "writing" => lock[Owner[c]] = c

\* The pieces in the file are those that are written, in their order; the line
\* that is being written is not broken.
PiecesInOrder ==
  /\ file \in Seq([call : Made, piece : Nat])
  /\ \A i \in DOMAIN file : file[i].piece \in 1..written[file[i].call]
  /\ \A i, j \in DOMAIN file : i < j /\ file[i].call = file[j].call => file[i].piece < file[j].piece
  /\ \A i, j \in DOMAIN file :
       i < j /\ at[file[i].call] = "writing" /\ Owner[file[i].call] = Owner[file[j].call]
         => file[j].call = file[i].call

\* What is written of a call is in one place, and at the end of the file if the
\* call is still writing; the file ends with a line, or within the one that is
\* being written.
BlockOf(c, i) ==
  /\ i \in DOMAIN file /\ Starts(i) /\ i + written[c] - 1 \in DOMAIN file
  /\ \A k \in 1..written[c] : file[i + k - 1] = [call |-> c, piece |-> k]
LinesAreBlocks ==
  fails = 0 /\ ~Shared =>
    /\ \A c \in Made : written[c] > 0 => \E i \in DOMAIN file : BlockOf(c, i)
    /\ \A c \in Made : at[c] = "writing" /\ written[c] > 0 =>
         file[Len(file)] = [call |-> c, piece |-> written[c]]
    /\ file # <<>> => LET last == file[Len(file)] IN
         last.piece = Pieces[last.call] \/ at[last.call] = "writing"

RecorderInv == CallsProgress /\ LockIsHeld /\ PiecesInOrder /\ LinesAreBlocks /\ LinesUnbroken
=============================================================================
