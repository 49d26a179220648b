---------------------------- MODULE BatchLedger ----------------------------
(***************************************************************************)
(* What a resumable batch promises to the owner of the output directory,   *)
(* whatever happens to the processes that work on it: every item gets at   *)
(* most one outcome, an outcome once recorded stays, and "completed" is    *)
(* announced only when every item has one.                                 *)
(***************************************************************************)
CONSTANT Ids        \* the custom_ids of the source

VARIABLES
  outcome,          \* what items.jsonl says of each item
  announced         \* manifest.json says "completed"

vars == <<outcome, announced>>

Init ==
  /\ outcome = [id \in Ids |-> "missing"]
  /\ announced = FALSE

Record(id) ==
  /\ outcome[id] = "missing"
  /\ \E o \in {"success", "error"} : outcome' = [outcome EXCEPT ![id] = o]
  /\ UNCHANGED announced

Announce ==
  /\ \A id \in Ids : outcome[id] # "missing"
  /\ announced' = TRUE
  /\ UNCHANGED outcome

Next == Announce \/ \E id \in Ids : Record(id)

Spec == Init /\ [][Next]_vars
=============================================================================
