------------------------------ MODULE FactFlow ------------------------------
(***************************************************************************)
(* The loop that check_borrow and check_magnet share, statement for        *)
(* statement (src/check/borrow.rs, src/check/magnet.rs): a forward may-    *)
(* analysis.  Each block has a map from locals to sets of facts, kept here *)
(* as one set of facts that name their holder; joins take the union.       *)
(*                                                                         *)
(* Unlike the ownership checker it cannot tell a block never reached from  *)
(* one reached with nothing known, hence the `reached` flags.              *)
(***************************************************************************)
EXTENDS Naturals, Sequences, Worklist

CONSTANTS
  Blocks, Entry, Successors(_),   \* as in Mir
  Bodies,            \* the bodies the checker may be given
  Facts,             \* what may be known of a program point
  Transfer(_, _),    \* Transfer(s, F): the facts after s, from the facts F before
  Reports(_, _)      \* Reports(s, F): the kinds of diagnostics s gives rise to

VARIABLE reached     \* per block, has an edge been followed into it

vars == <<body, pc, in_states, reached, in_worklist, worklist, idx, stmt, edge,
          state, diags>>

Init ==
  /\ body \in Bodies
  /\ pc = "pop"
  /\ in_states = [b \in Blocks |-> {}]
  /\ reached = [b \in Blocks |-> b = Entry]
  /\ in_worklist = [b \in Blocks |-> b = Entry]
  /\ worklist = <<Entry>>
  /\ idx = Entry
  /\ stmt = 1
  /\ edge = 1
  /\ state = {}
  /\ diags = {}

Code == body.stmts[idx]

Succ == Successors(body.term[idx])

PopBlock ==
  /\ pc = "pop"
  /\ worklist # <<>>
  /\ idx' = worklist[Len(worklist)]
  /\ worklist' = SubSeq(worklist, 1, Len(worklist) - 1)
  /\ in_worklist' = [in_worklist EXCEPT ![idx'] = FALSE]
  /\ state' = in_states[idx']
  /\ stmt' = 1
  /\ edge' = 1
  /\ pc' = "block"
  /\ UNCHANGED <<body, in_states, reached, diags>>

TransferStmt ==
  /\ pc = "block"
  /\ stmt <= Len(Code)
  /\ state' = Transfer(Code[stmt], state)
  /\ diags' = diags \cup
       {[block |-> idx, stmt |-> stmt, kind |-> k] : k \in Reports(Code[stmt], state)}
  /\ stmt' = stmt + 1
  /\ UNCHANGED <<body, pc, in_states, reached, in_worklist, worklist, idx, edge>>

AtEdge ==
  /\ pc = "block"
  /\ stmt = Len(Code) + 1
  /\ edge <= Len(Succ)

SkipEdge ==
  /\ AtEdge
  /\ Succ[edge] \notin Blocks
  /\ edge' = edge + 1
  /\ UNCHANGED <<body, pc, in_states, reached, in_worklist, worklist, idx, stmt,
                 state, diags>>

Push(b) ==
  /\ in_worklist' = [in_worklist EXCEPT ![b] = TRUE]
  /\ worklist' = IF in_worklist[b] THEN worklist ELSE Append(worklist, b)

MutChangedOnly(b) ==
  LET new == in_states[b] \cup state
  IN  IF new # in_states[b]
      THEN /\ in_states' = [in_states EXCEPT ![b] = new]
           /\ reached' = [reached EXCEPT ![b] = TRUE]
           /\ Push(b)
      ELSE UNCHANGED <<in_states, reached, in_worklist, worklist>>

MutAlwaysPush(b) ==
  /\ in_states' = [in_states EXCEPT ![b] = @ \cup state]
  /\ reached' = [reached EXCEPT ![b] = TRUE]
  /\ Push(b)

MutForgetsReached(b) ==
  LET new == in_states[b] \cup state
  IN  IF ~reached[b] \/ new # in_states[b]
      THEN /\ in_states' = [in_states EXCEPT ![b] = new]
           /\ Push(b)
           /\ UNCHANGED reached
      ELSE UNCHANGED <<in_states, reached, in_worklist, worklist>>

(* Join the out-state into block b; a first visit counts as a change even  *)
(* when it brings no fact.                                                 *)
Join(b) ==
  LET new == in_states[b] \cup state
  IN  IF ~reached[b] \/ new # in_states[b]
      THEN /\ in_states' = [in_states EXCEPT ![b] = new]
           /\ reached' = [reached EXCEPT ![b] = TRUE]
           /\ Push(b)
      ELSE UNCHANGED <<in_states, reached, in_worklist, worklist>>

Propagate ==
  /\ AtEdge
  /\ Succ[edge] \in Blocks
  /\ Join(Succ[edge])
  /\ edge' = edge + 1
  /\ UNCHANGED <<body, pc, idx, stmt, state, diags>>

EndBlock ==
  /\ pc = "block"
  /\ stmt = Len(Code) + 1
  /\ edge = Len(Succ) + 1
  /\ pc' = "pop"
  /\ UNCHANGED <<body, in_states, reached, in_worklist, worklist, idx, stmt, edge,
                 state, diags>>

Finish ==
  /\ pc = "pop"
  /\ worklist = <<>>
  /\ pc' = "done"
  /\ UNCHANGED <<body, in_states, reached, in_worklist, worklist, idx, stmt, edge,
                 state, diags>>

Next ==
  \/ PopBlock
  \/ TransferStmt
  \/ SkipEdge
  \/ Propagate
  \/ EndBlock
  \/ Finish

(* One thread of the compiler that nothing ever blocks.                    *)
Spec == Init /\ [][Next]_vars /\ WF_vars(Next)
-----------------------------------------------------------------------------
(* The shapes of the variables, and the two flags of a block: what is      *)
(* queued was reached, and facts are only ever known of a reached block.   *)
TypeOK ==
  /\ pc \in {"pop", "block", "done"}
  /\ in_states \in [Blocks -> SUBSET Facts]
  /\ reached \in [Blocks -> BOOLEAN]
  /\ in_worklist \in [Blocks -> BOOLEAN]
  /\ worklist \in Seq(Blocks)
  /\ idx \in Blocks
  /\ stmt \in Nat \ {0}
  /\ edge \in Nat \ {0}
  /\ state \in SUBSET Facts
  /\ \A b \in Blocks :
       /\ in_worklist[b] <=> \E n \in DOMAIN worklist : worklist[n] = b
       /\ in_worklist[b] \/ in_states[b] # {} => reached[b]

Accepted == pc = "done" /\ diags = {}
=============================================================================
