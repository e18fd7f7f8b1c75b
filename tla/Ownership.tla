----------------------------- MODULE Ownership -----------------------------
(***************************************************************************)
(* check_ownership (src/check/ownership.rs): a forward dataflow fixpoint   *)
(* over one body that tracks each local through Uninit, Init, Moved and    *)
(* Dropped and reports uses and drops in the wrong state.                  *)
(*                                                                         *)
(* The loop is modelled at the grain of its inner steps: pop a block,      *)
(* transfer one statement, propagate to one successor.  A block's in-state *)
(* may change under the block being processed (a loop to itself), which is *)
(* why the code works on a clone and the model on `state`.                 *)
(***************************************************************************)
EXTENDS OwnershipRules, Worklist

CONSTANT Bodies     \* the bodies the checker may be given

ASSUME BodiesAssumption == Bodies \subseteq Body

vars == <<body, pc, in_states, in_worklist, worklist, idx, stmt, edge, state,
          diags>>
-----------------------------------------------------------------------------
Init ==
  /\ body \in Bodies
  /\ pc = "pop"
  /\ in_states = [b \in Blocks |-> IF b = Entry THEN EntryState(body) ELSE Unreached]
  /\ in_worklist = [b \in Blocks |-> b = Entry]
  /\ worklist = <<Entry>>
  /\ idx = Entry
  /\ stmt = 1
  /\ edge = 1
  /\ state = Unreached
  /\ diags = {}

Code == body.stmts[idx]

Succ == Successors(body.term[idx])

MutPopKeepsFlag ==
  /\ pc = "pop"
  /\ worklist # <<>>
  /\ idx' = worklist[Len(worklist)]
  /\ worklist' = SubSeq(worklist, 1, Len(worklist) - 1)
  /\ state' = in_states[idx']
  /\ stmt' = 1
  /\ edge' = 1
  /\ pc' = "block"
  /\ UNCHANGED <<body, in_states, in_worklist, diags>>

MutPopResumes ==
  /\ pc = "pop"
  /\ worklist # <<>>
  /\ idx' = worklist[Len(worklist)]
  /\ worklist' = SubSeq(worklist, 1, Len(worklist) - 1)
  /\ in_worklist' = [in_worklist EXCEPT ![idx'] = FALSE]
  /\ state' = in_states[idx']
  /\ pc' = "block"
  /\ UNCHANGED <<body, in_states, stmt, edge, diags>>

(* The loop head: take the block queued last, with a clone of its map.     *)
PopBlock ==
  /\ pc = "pop"
  /\ worklist # <<>>
  /\ idx' = worklist[Len(worklist)]
  /\ worklist' = SubSeq(worklist, 1, Len(worklist) - 1)
  /\ in_worklist' = [in_worklist EXCEPT ![idx'] = FALSE]
  /\ state' = in_states[idx']
  /\ stmt' = 1
  /\ edge' = 1
  /\ pc' = "block"
  /\ UNCHANGED <<body, in_states, diags>>

(* transfer_block, one statement at a time.                                *)
TransferStmt ==
  /\ pc = "block"
  /\ stmt <= Len(Code)
  /\ state' = Transfer(Code[stmt], state)
  /\ diags' = diags \cup
       {[block |-> idx, stmt |-> stmt, kind |-> m[1], local |-> m[2]] :
          m \in Misuses(Code[stmt], state)}
  /\ stmt' = stmt + 1
  /\ UNCHANGED <<body, pc, in_states, in_worklist, worklist, idx, edge>>

AtEdge ==
  /\ pc = "block"
  /\ stmt = Len(Code) + 1
  /\ edge <= Len(Succ)

(* A jump target past the last block is skipped, not followed.             *)
SkipEdge ==
  /\ AtEdge
  /\ Succ[edge] \notin Blocks
  /\ edge' = edge + 1
  /\ UNCHANGED <<body, pc, in_states, in_worklist, worklist, idx, stmt, state, diags>>

MutRequeueAlways(b, in) ==
  /\ in_states' = [in_states EXCEPT ![b] = in]
  /\ in_worklist' = [in_worklist EXCEPT ![b] = TRUE]
  /\ worklist' = IF in_worklist[b] THEN worklist ELSE Append(worklist, b)

MutForgetRequeue(b, in) ==
  /\ in_states' = [in_states EXCEPT ![b] = in]
  /\ LET first == in_states[b] = Unreached
     IN  /\ in_worklist' = [in_worklist EXCEPT ![b] = @ \/ first]
         /\ worklist' = IF first /\ ~in_worklist[b] THEN Append(worklist, b)
                                                    ELSE worklist

(* The in-state of block b is now `in`: queue b if that changed it.        *)
Update(b, in) ==
  IF in = in_states[b]
  THEN UNCHANGED <<in_states, in_worklist, worklist>>
  ELSE /\ in_states' = [in_states EXCEPT ![b] = in]
       /\ in_worklist' = [in_worklist EXCEPT ![b] = TRUE]
       /\ worklist' = IF in_worklist[b] THEN worklist ELSE Append(worklist, b)

(* Meet the out-state into one successor.                                  *)
Propagate ==
  /\ AtEdge
  /\ Succ[edge] \in Blocks
  /\ Update(Succ[edge], MeetStates(in_states[Succ[edge]], state))
  /\ edge' = edge + 1
  /\ UNCHANGED <<body, pc, idx, stmt, state, diags>>

EndBlock ==
  /\ pc = "block"
  /\ stmt = Len(Code) + 1
  /\ edge = Len(Succ) + 1
  /\ pc' = "pop"
  /\ UNCHANGED <<body, in_states, in_worklist, worklist, idx, stmt, edge, state, diags>>

Finish ==
  /\ pc = "pop"
  /\ worklist = <<>>
  /\ pc' = "done"
  /\ UNCHANGED <<body, in_states, in_worklist, worklist, idx, stmt, edge, state, diags>>

Next ==
  \/ PopBlock
  \/ TransferStmt
  \/ SkipEdge
  \/ Propagate
  \/ EndBlock
  \/ Finish

(* The checker is one thread of the compiler that nothing ever blocks.     *)
Spec == Init /\ [][Next]_vars /\ WF_vars(Next)
-----------------------------------------------------------------------------
Diag == [block : Blocks, stmt : Nat, kind : Kinds, local : Locals]

(* Every variable has the shape the code gives it, and the cursors stay    *)
(* within the block they walk.                                             *)
TypeOK ==
  /\ body \in Body
  /\ pc \in {"pop", "block", "done"}
  /\ in_states \in [Blocks -> StateMap \cup {Unreached}]
  /\ in_worklist \in [Blocks -> BOOLEAN]
  /\ worklist \in Seq(Blocks)
  /\ idx \in Blocks
  /\ stmt \in Nat \ {0}
  /\ edge \in Nat \ {0}
  /\ pc = "block" =>
       /\ stmt <= Len(Code) + 1
       /\ edge <= Len(Succ) + 1
       /\ state \in StateMap
  /\ state \in PartialMap
  /\ diags \in SUBSET Diag

(* The stack and the flags tell the same story: the flagged blocks are the *)
(* ones queued, and none is queued twice.                                  *)
QueueMatchesFlags ==
  /\ \A b \in Blocks : in_worklist[b] <=> \E n \in DOMAIN worklist : worklist[n] = b
  /\ \A m, n \in DOMAIN worklist : m # n => worklist[m] # worklist[n]

Rank(s) ==
  CASE s = "absent" -> 4 [] s = "Init" -> 3 [] s = "Uninit" -> 2
    [] s = "Moved" -> 1 [] s = "Dropped" -> 0

(* What the termination argument of OWNERSHIP.md section 5.3 rests on: an  *)
(* in-state only ever goes down in the order of meet, whatever order the   *)
(* blocks are taken in, and a local once recorded never becomes absent.    *)
InStatesDescend ==
  [][\A b \in Blocks, l \in Locals :
       Rank(in_states'[b][l]) <= Rank(in_states[b][l])]_in_states

(* The fixpoint loop ends on every control-flow graph, loops included.     *)
Terminates == <>(pc = "done")
=============================================================================
