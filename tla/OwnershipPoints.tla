-------------------------- MODULE OwnershipPoints --------------------------
(***************************************************************************)
(* Ownership with a memory.  `point` is a history variable: the map the    *)
(* loop last had before each statement of each block, and behind the last. *)
(* Nothing reads it but the invariants the proofs need.                    *)
(***************************************************************************)
EXTENDS Ownership

VARIABLE point     \* history: point[b][n] is the map before statement n of b

Unrecorded == [b \in Blocks |-> [n \in 1 .. Len(body.stmts[b]) + 1 |-> Unreached]]

Record ==
  point' = IF pc' = "block" THEN [point EXCEPT ![idx'][stmt'] = state'] ELSE point

PointType ==
  /\ point = [b \in Blocks |-> point[b]]
  /\ \A b \in Blocks : point[b] \in [1 .. Len(body.stmts[b]) + 1 -> PartialMap]
=============================================================================
