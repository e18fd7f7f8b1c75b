--------------------------- MODULE CheckerVerdict ---------------------------
(***************************************************************************)
(* What a path-exact checker promises, with no word on how it computes:    *)
(* it gives one verdict and keeps it, and it rejects a body if and only if *)
(* some path through the body faults.                                      *)
(***************************************************************************)
VARIABLES
  faulty,     \* does some path through the body fault?  Never changes
  verdict     \* "pending", then "accept" or "reject" for good

Init == verdict = "pending"

Decide ==
  /\ verdict = "pending"
  /\ verdict' \in {"accept", "reject"}
  /\ verdict' = "reject" <=> faulty

Spec == Init /\ [][Decide]_verdict
=============================================================================
