--------------------------- MODULE DropElaborate ---------------------------
(***************************************************************************)
(* elaborate_drops (src/check/drop_elaborate.rs) on a body the ownership   *)
(* checker accepted, and the program that comes of it.                     *)
(*                                                                         *)
(* The pass has a dataflow loop of its own that is the ownership checker's *)
(* over again, with the same lattice, the same transfer and no reports: it *)
(* is modelled by running the actions of Ownership a second time.  It then *)
(* appends releases to every Return block, and the program runs on a heap  *)
(* (codegen/cranelift.rs, avera_alloc and avera_free of the runtime).      *)
(***************************************************************************)
EXTENDS OwnershipPoints, MirPaths, Selection

CONSTANTS
  LocalOrder,     \* the locals in declaration order, each of them
  MaxAllocs,      \* allocations after which the modelled run stops
  Unset           \* the content of a local that was given none, no number

VARIABLES
  phase,      \* "check", "flow" (the pass's own loop), "run"
  code,       \* the statements of each block, once elaborated
  at, pos,    \* where the program is
  val,        \* per local: the allocation it points to, 0, or Unset
  frees,      \* per allocation, how often it was freed
  moved       \* history: the allocations some Move handed on

runVars == <<at, pos, val, frees, moved>>

allVars == <<vars, point, phase, code, runVars>>

-----------------------------------------------------------------------------
(* Which locals own heap memory: the destination of an allocating call or  *)
(* of a constructor, anywhere in the body.                                 *)
HeapOwners(b) ==
  LET all == UNION {{b.stmts[n][k] : k \in DOMAIN b.stmts[n]} : n \in Blocks}
  IN  {s.dest : s \in {t \in all : \/ t.op = "call" /\ t.how = "alloc"
                                   \/ t.op = "assign" /\ t.how = "ctor"}}

OutState(b) ==
  LET map[n \in 0 .. Len(body.stmts[b])] ==
        IF n = 0 THEN in_states[b] ELSE Transfer(body.stmts[b][n], map[n - 1])
  IN  map[Len(body.stmts[b])]

MutReleaseAny(b, l) ==
  IF l \in HeapOwners(body) \ body.params
  THEN <<Call(l, "free", <<l>>), StorageDead(l)>>
  ELSE <<StorageDead(l)>>

MutReleaseInState(b, l) ==
  IF l \in HeapOwners(body) \ body.params /\ in_states[b][l] = "Init"
  THEN <<Call(l, "free", <<l>>), StorageDead(l)>>
  ELSE <<StorageDead(l)>>

MutReleaseTwice(b, l) ==
  IF l \in HeapOwners(body) \ body.params /\ OutState(b)[l] \in {"Init", "Moved"}
  THEN <<Call(l, "free", <<l>>), StorageDead(l)>>
  ELSE <<StorageDead(l)>>

(* What is appended to Return block b for local l.  Parameters are the     *)
(* caller's; the result of avera_free goes back into the local.            *)
Release(b, l) ==
  IF l \in HeapOwners(body) \ body.params /\ OutState(b)[l] = "Init"
  THEN <<Call(l, "free", <<l>>), StorageDead(l)>>
  ELSE <<StorageDead(l)>>

(* All locals of a Return block, last declared first.                      *)
Releases(b) ==
  IF body.term[b].kind # "return" THEN <<>>
  ELSE Seqs!FlattenSeq([n \in DOMAIN LocalOrder |->
                          Release(b, LocalOrder[Len(LocalOrder) + 1 - n])])
-----------------------------------------------------------------------------
(* The allocations 1, 2, ... of the run; the parameters come first, each   *)
(* pointing to an allocation of the caller.                                *)
Allocs == DOMAIN frees

ParamOrder(b) == Only(LocalOrder, b.params)

(* emit_heap_call (driver_pipeline/lower.rs) frees a local only to give it *)
(* new memory at once.                                                     *)
GivenAnew(b) ==
  \A n \in Blocks : \A k \in DOMAIN b.stmts[n] :
    b.stmts[n][k].how = "free" =>
      /\ k + 1 \in DOMAIN b.stmts[n]
      /\ b.stmts[n][k + 1].how = "alloc"
      /\ b.stmts[n][k + 1].dest = b.stmts[n][k].args[1]

(* What the pass and the run take for granted of the constants.            *)
DropConstants ==
  /\ LocalOrder \in Seq(Locals)
  /\ Locals = {LocalOrder[n] : n \in DOMAIN LocalOrder}
  /\ \A m, n \in DOMAIN LocalOrder : LocalOrder[m] = LocalOrder[n] => m = n
  /\ MaxAllocs \in Nat
  /\ Unset \notin Nat
  /\ \A b \in Bodies : Len(ParamOrder(b)) <= MaxAllocs /\ GivenAnew(b)

DropInit ==
  /\ Init
  /\ point = Unrecorded
  /\ phase = "check"
  /\ code = body.stmts
  /\ at = Entry
  /\ pos = 1
  /\ frees = [n \in 1 .. Len(ParamOrder(body)) |-> 0]
  /\ val = [l \in Locals |->
              IF l \in body.params
              THEN CHOOSE n \in DOMAIN ParamOrder(body) : ParamOrder(body)[n] = l
              ELSE Unset]
  /\ moved = {}

Loop ==
  /\ phase \in {"check", "flow"}
  /\ Next
  /\ Record
  /\ UNCHANGED <<phase, code, runVars>>

Restart ==
  /\ pc' = "pop"
  /\ in_states' = [b \in Blocks |-> IF b = Entry THEN EntryState(body) ELSE Unreached]
  /\ in_worklist' = [b \in Blocks |-> b = Entry]
  /\ worklist' = <<Entry>>
  /\ idx' = Entry
  /\ stmt' = 1
  /\ edge' = 1
  /\ state' = Unreached
  /\ point' = Unrecorded
  /\ UNCHANGED <<body, diags>>

MutElaborateRejected ==
  /\ phase = "check"
  /\ pc = "done"
  /\ phase' = "flow"
  /\ Restart
  /\ UNCHANGED <<code, runVars>>

(* The checker found nothing: the pass starts its own loop from scratch.   *)
StartElaboration ==
  /\ phase = "check"
  /\ pc = "done"
  /\ diags = {}
  /\ phase' = "flow"
  /\ Restart
  /\ UNCHANGED <<code, runVars>>

InsertReleases ==
  /\ phase = "flow"
  /\ pc = "done"
  /\ code' = [b \in Blocks |-> body.stmts[b] \o Releases(b)]
  /\ phase' = "run"
  /\ UNCHANGED <<vars, point, runVars>>
-----------------------------------------------------------------------------
(* The compiled program.                                                   *)

RunCode == code[at]

(* The value an assignment gives its destination: a copied or moved        *)
(* pointer, or something that is no pointer.                               *)
Assigned(s) == IF s.how \in {"use", "move"} THEN val[s.args[1]] ELSE 0

Allocate(s) ==
  /\ s.op = "call" /\ s.how = "alloc"
  /\ Len(frees) < MaxAllocs
  /\ frees' = Append(frees, 0)
  /\ val' = [val EXCEPT ![s.dest] = Len(frees) + 1]
  /\ moved' = moved

(* avera_free, then the zero a void call leaves in its destination.        *)
Free(s) ==
  /\ s.op = "call" /\ s.how = "free"
  /\ frees' = IF val[s.args[1]] \in Allocs
              THEN [frees EXCEPT ![val[s.args[1]]] = @ + 1] ELSE frees
  /\ val' = [val EXCEPT ![s.dest] = 0]
  /\ moved' = moved

Write(s) ==
  /\ s.op = "assign" \/ (s.op = "call" /\ s.how = "other")
  /\ val' = [val EXCEPT ![s.dest] = IF s.op = "assign" THEN Assigned(s) ELSE 0]
  /\ moved' = IF IsMove(s) THEN moved \cup ({val[s.args[1]]} \cap Allocs) ELSE moved
  /\ frees' = frees

(* StorageLive, StorageDead, Drop and Assert compile to nothing here.      *)
Pass(s) ==
  /\ s.op \in {"live", "dead", "drop", "assert"}
  /\ UNCHANGED <<val, frees, moved>>

RunStmt ==
  /\ phase = "run"
  /\ pos <= Len(RunCode)
  /\ \/ Allocate(RunCode[pos])
     \/ Free(RunCode[pos])
     \/ Write(RunCode[pos])
     \/ Pass(RunCode[pos])
  /\ pos' = pos + 1
  /\ UNCHANGED <<vars, point, phase, code, at>>

RunJump ==
  /\ phase = "run"
  /\ pos = Len(RunCode) + 1
  /\ at' \in {Successors(body.term[at])[n] :
                n \in DOMAIN Successors(body.term[at])} \cap Blocks
  /\ pos' = 1
  /\ UNCHANGED <<vars, point, phase, code, val, frees, moved>>

DropNext == Loop \/ StartElaboration \/ InsertReleases \/ RunStmt \/ RunJump

DropSpec == DropInit /\ [][DropNext]_allVars
-----------------------------------------------------------------------------
Returned == phase = "run" /\ pos = Len(RunCode) + 1 /\ body.term[at].kind = "return"

DropTypeOK ==
  /\ phase \in {"check", "flow", "run"}
  /\ code \in [Blocks -> Seq(Stmt)]
  /\ at \in Blocks
  /\ pos \in 1 .. Len(RunCode) + 1
  /\ Len(frees) <= MaxAllocs
  /\ val \in [Locals -> Allocs \cup {0, Unset}]
  /\ moved \subseteq Allocs
  /\ phase # "check" => diags = {}

(* The program never frees a local that was given no value on the way      *)
(* there: what it holds then is whatever the stack slot held.              *)
FreesOnlyAssigned ==
  phase = "run" /\ pos <= Len(RunCode) /\ RunCode[pos].how = "free" =>
    val[RunCode[pos].args[1]] # Unset

NoCopies == \A b \in Blocks : \A n \in DOMAIN body.stmts[b] : body.stmts[b][n].how # "use"

(* A parameter that is never given memory a second time: see GivenAnew.    *)
ParamsKept ==
  \A n \in Blocks : \A k \in DOMAIN body.stmts[n] :
    body.stmts[n][k].how = "free" => body.stmts[n][k].args[1] \notin body.params

(* As long as no pointer is copied, moves and conditional moves included,  *)
(* nothing is freed twice, and the caller's memory only if it was moved or *)
(* its parameter given new memory.                                         *)
UnsharedFreedOnce ==
  NoCopies =>
    \A n \in Allocs :
      /\ frees[n] <= 1
      /\ ParamsKept /\ n <= Len(ParamOrder(body)) /\ frees[n] = 1 => n \in moved

(* A heap owner that holds a live value on every path to a Return has      *)
(* nothing left to release once the block is through.                      *)
LiveOwnersReleased ==
  Returned =>
    \A l \in HeapOwners(body) \ body.params :
      (\A p \in PathPositions(body, After, body.params, PathBound) :
         p[1] = at /\ p[2] = Len(body.stmts[at]) + 1 => l \in p[3])
      => val[l] \notin Allocs

(* OWNERSHIP.md:100: uses after a drop are compile-time errors, not runtime *)
(* faults: the value a body returns is not memory the releases just freed. *)
ReturnedValueLive ==
  Returned =>
    \A n \in DOMAIN body.term[at].reads :
      LET value == val[body.term[at].reads[n]]
      IN  value \in Allocs => frees[value] = 0

(* OWNERSHIP.md:100: nor are double drops faults of the running program.   *)
NothingFreedTwice == \A n \in Allocs : frees[n] <= 1

(* Both halves of that sentence, for whatever a body the checkers accept   *)
(* does with its pointers.                                                 *)
NoHeapFault == ReturnedValueLive /\ NothingFreedTwice
=============================================================================
