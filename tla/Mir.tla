-------------------------------- MODULE Mir --------------------------------
(***************************************************************************)
(* The part of MIR (src/mir) the dataflow checkers look at.  A body is a   *)
(* control-flow graph of basic blocks over a flat set of locals; block 0   *)
(* is the entry.  Types, names, operators and constants are abstracted     *)
(* away: a statement keeps what it reads, what it writes and how.          *)
(***************************************************************************)
EXTENDS Naturals, Sequences

CONSTANTS
  Locals,     \* the LocalIds a body declares
  NBlocks     \* how many basic blocks a body has

ASSUME NBlocksAssumption == NBlocks \in Nat \ {0}

Blocks == 0 .. NBlocks - 1

Entry == 0

(***************************************************************************)
(* How an assignment computes its value.  "use" copies one place, "op"     *)
(* stands for every rvalue that only reads its operands (BinOp, UnOp,      *)
(* Cast, Try, Load, Rvalue::Call), "ctor" for ShapeCtor, ChoiceCtor and    *)
(* ArrayCtor.  Borrows and attachments come in a shared and a _mut form.   *)
(* The last row classifies the callee of a statement-level call: one that  *)
(* hands out heap memory, avera_free, or neither.                          *)
(***************************************************************************)
Rvalues ==
  {"const", "use", "op", "ctor", "move", "borrow", "borrow_mut", "attach",
   "attach_mut", "magnet_none", "from_addr", "magnet_query", "store"}

Callees == {"alloc", "free", "other"}

(* A statement reads the places of `args`, in order, then acts on `dest`.  *)
(* Places are cut down to their local: the checkers key on place.local.    *)
(* Only a move takes its operand out; a move, a copy, a borrow and         *)
(* avera_free have exactly one.                                            *)
Stmt ==
  {s \in [op   : {"assign", "call", "assert", "live", "dead", "drop"},
          how  : Rvalues \cup Callees \cup {"none"},
          dest : Locals,
          args : Seq(Locals)] :
     /\ s.how \in Rvalues <=> s.op = "assign"
     /\ s.how \in Callees <=> s.op = "call"
     /\ s.how \in {"use", "move", "borrow", "borrow_mut", "attach", "attach_mut",
                   "magnet_query", "free"} => Len(s.args) = 1
     /\ s.how = "store" => Len(s.args) = 2}

Assign(d, how, args) == [op |-> "assign", how |-> how, dest |-> d, args |-> args]
Call(d, callee, args) == [op |-> "call", how |-> callee, dest |-> d, args |-> args]
Assert(c) == [op |-> "assert", how |-> "none", dest |-> c, args |-> <<c>>]
StorageLive(d) == [op |-> "live", how |-> "none", dest |-> d, args |-> <<>>]
StorageDead(d) == [op |-> "dead", how |-> "none", dest |-> d, args |-> <<>>]
Drop(d) == [op |-> "drop", how |-> "none", dest |-> d, args |-> <<>>]

(* A terminator: where control may go, and the places it reads (the        *)
(* discriminant of a switch, the value of a return).                       *)
Terminator ==
  [kind    : {"goto", "switch", "return", "abort"},
   targets : Seq(Nat),
   reads   : Seq(Locals)]

Goto(t) == [kind |-> "goto", targets |-> <<t>>, reads |-> <<>>]
Switch(d, ts) == [kind |-> "switch", targets |-> ts, reads |-> <<d>>]
Return(reads) == [kind |-> "return", targets |-> <<>>, reads |-> reads]
Abort == [kind |-> "abort", targets |-> <<>>, reads |-> <<>>]

Body ==
  [params : SUBSET Locals,
   stmts  : [Blocks -> Seq(Stmt)],
   term   : [Blocks -> Terminator]]

(* successors(): the targets in order, the otherwise branch last; none for *)
(* Return and Abort.  A target that is not a block is kept here and        *)
(* skipped by the loops that use the list.                                 *)
Successors(t) == IF t.kind \in {"goto", "switch"} THEN t.targets ELSE <<>>

Reads(s) == {s.args[n] : n \in DOMAIN s.args}

IsMove(s) == s.op = "assign" /\ s.how = "move"
=============================================================================
