------------------------------ MODULE Worklist ------------------------------
(***************************************************************************)
(* The local variables that the fixpoint loops of check_ownership,         *)
(* elaborate_drops, check_borrow and check_magnet (src/check) have in      *)
(* common.  Only one of them runs at a time.                               *)
(***************************************************************************)
VARIABLES
  body,          \* the body under check, never changed
  pc,            \* "pop": at the loop head, "block": in a block, "done"
  in_states,     \* per block, what is known at its start
  in_worklist,   \* per block, is it queued
  worklist,      \* the stack of queued blocks
  idx,           \* the block being processed
  stmt,          \* its next statement
  edge,          \* its next successor
  state,         \* what is known where the block stands, out_state once it is through
  diags          \* the diagnostics, each at the statement that caused it
=============================================================================
