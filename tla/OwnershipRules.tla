--------------------------- MODULE OwnershipRules ---------------------------
(***************************************************************************)
(* What check_ownership (src/check/ownership.rs) knows of the locals at a  *)
(* point of a body, what a statement does to it and what it reports.       *)
(***************************************************************************)
EXTENDS Mir

(* States and state maps.  A HashMap key that is not there is "absent": a  *)
(* block nothing has reached yet has an empty map.                         *)

State == {"Uninit", "Init", "Moved", "Dropped"}

StateMap == [Locals -> State]

PartialMap == [Locals -> State \cup {"absent"}]

Unreached == [l \in Locals |-> "absent"]

(* State::meet: the first of Dropped, Moved, Uninit that either side is.   *)
Meet(s, t) ==
  IF s = "Dropped" \/ t = "Dropped" THEN "Dropped"
  ELSE IF s = "Moved" \/ t = "Moved" THEN "Moved"
  ELSE IF s = "Uninit" \/ t = "Uninit" THEN "Uninit"
  ELSE "Init"

MutOverwrite(a, b) == b

(* meet_states: keys of b missing in a are inserted as they are.           *)
MeetStates(a, b) ==
  [l \in Locals |->
     CASE b[l] = "absent" -> a[l]
       [] a[l] = "absent" -> b[l]
       [] OTHER -> Meet(a[l], b[l])]

EntryState(b) == [l \in Locals |-> IF l \in b.params THEN "Init" ELSE "Uninit"]

-----------------------------------------------------------------------------
(* One statement: what it does to the map, and what it reports.            *)

MutMoveKeepsSource(s, st) ==
  CASE s.op \in {"assign", "call"} -> [st EXCEPT ![s.dest] = "Init"]
    [] s.op = "live" -> [st EXCEPT ![s.dest] = "Uninit"]
    [] s.op \in {"dead", "drop"} ->
         [st EXCEPT ![s.dest] = IF @ = "Init" THEN "Dropped" ELSE @]
    [] OTHER -> st

(* use_place_move: a live operand becomes Moved.                           *)
MoveOut(s, st) ==
  [l \in Locals |->
     IF IsMove(s) /\ l \in Reads(s) /\ st[l] = "Init" THEN "Moved" ELSE st[l]]

(* transfer_stmt: operands first, then the destination.                    *)
Transfer(s, st) ==
  CASE s.op \in {"assign", "call"} -> [MoveOut(s, st) EXCEPT ![s.dest] = "Init"]
    [] s.op = "live" -> [st EXCEPT ![s.dest] = "Uninit"]
    [] s.op \in {"dead", "drop"} ->
         [st EXCEPT ![s.dest] = IF @ = "Init" THEN "Dropped" ELSE @]
    [] OTHER -> st

(* use_place, use_place_move: the kind reported for a local not Init.      *)
UseKind(s) == IF s = "Moved" THEN "EUseAfterMove" ELSE "EUseAfterDrop"

DropKind(s) ==
  CASE s = "Dropped" -> "EDoubleDrop"
    [] s = "Moved" -> "EUseAfterMove"
    [] OTHER -> "EUseAfterDrop"

Kinds == {"EUseAfterMove", "EUseAfterDrop", "EDoubleDrop"}

(* The diagnostics of a statement, as <<kind, local>>.                     *)
Misuses(s, st) ==
  {<<UseKind(st[l]), l>> : l \in {m \in Reads(s) : st[m] # "Init"}}
    \cup
  (IF s.op = "drop" /\ st[s.dest] # "Init" THEN {<<DropKind(st[s.dest]), s.dest>>}
                                           ELSE {})
=============================================================================
