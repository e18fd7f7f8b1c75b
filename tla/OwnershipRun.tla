---------------------------- MODULE OwnershipRun ----------------------------
(***************************************************************************)
(* The ownership checker and the program it let through, one after the     *)
(* other: the driver goes on to build and run a body only when the checker *)
(* left no diagnostic (driver_pipeline/mod.rs).  The run is the reference  *)
(* of MirPaths, one statement at a time, with every branch possible.       *)
(***************************************************************************)
EXTENDS OwnershipPoints, MirPaths

VARIABLES
  at,          \* the block the program is in
  pos,         \* its next statement
  live         \* the locals that hold a live value

runVars == <<at, pos, live>>

allVars == <<vars, point, runVars>>

RunInit ==
  /\ Init
  /\ point = Unrecorded
  /\ at = Entry
  /\ pos = 1
  /\ live = body.params

CheckStep == Next /\ Record /\ UNCHANGED runVars

Accepted == pc = "done" /\ diags = {}

RunCode == body.stmts[at]

RunStmt ==
  /\ Accepted
  /\ pos <= Len(RunCode)
  /\ live' = After(RunCode[pos], live)
  /\ pos' = pos + 1
  /\ UNCHANGED <<vars, point, at>>

RunJump ==
  /\ Accepted
  /\ pos = Len(RunCode) + 1
  /\ at' \in {Successors(body.term[at])[n] :
                n \in DOMAIN Successors(body.term[at])} \cap Blocks
  /\ pos' = 1
  /\ UNCHANGED <<vars, point, live>>

RunNext == CheckStep \/ RunStmt \/ RunJump

RunSpec == RunInit /\ [][RunNext]_allVars /\ WF_allVars(CheckStep)
-----------------------------------------------------------------------------
(* A program the ownership checker accepts never reads, moves or drops a   *)
(* local that holds no live value, on any path through its loops and       *)
(* joins: what OWNERSHIP.md promises in its first paragraph.               *)
AcceptedRunsClean ==
  Accepted /\ pos <= Len(RunCode) => Faults(RunCode[pos], live) = {}

(* What a run does at a terminator: the checker never looks at the places  *)
(* terminators read, so this is NOT implied by acceptance.                 *)
TerminatorsReadLive ==
  Accepted /\ pos = Len(RunCode) + 1 =>
    \A n \in DOMAIN body.term[at].reads : body.term[at].reads[n] \in live

-----------------------------------------------------------------------------
(***************************************************************************)
(* The inductive invariant behind AcceptedRunsClean.                       *)
(***************************************************************************)

Busy(b) == pc = "block" /\ idx = b

(* The first n - 1 statements of b were last transferred from the in-state *)
(* b has now, and whatever they misuse has been reported.                  *)
Transferred(b, n) ==
  /\ point[b][1] = in_states[b]
  /\ \A m \in 1 .. n - 1 :
       /\ point[b][m + 1] = Transfer(body.stmts[b][m], point[b][m])
       /\ Misuses(body.stmts[b][m], point[b][m]) # {} => diags # {}

(* `in` is a whole map, and as strict about what is live as `out`.         *)
AsStrict(in, out) ==
  \A l \in Locals : in[l] # "absent" /\ (in[l] = "Init" => out[l] = "Init")

(* The out-state of b has been met into its first n - 1 successors.        *)
Flowed(b, n) ==
  \A m \in 1 .. n - 1 :
    LET t == Successors(body.term[b])[m]
    IN  t \in Blocks => AsStrict(in_states[t], point[b][Len(body.stmts[b]) + 1])

(* A queued block has been reached.                                        *)
QueuedReached == \A b \in Blocks : in_worklist[b] => in_states[b] \in StateMap

(* The entry never claims more than the parameters.                        *)
EntryStrict ==
  \A l \in Locals :
    /\ in_states[Entry][l] # "absent"
    /\ in_states[Entry][l] = "Init" => l \in body.params

(* The block in progress: `state` is where its transfer stands.            *)
Working ==
  pc = "block" =>
    /\ state = point[idx][stmt]
    /\ stmt <= Len(Code) => edge = 1
    /\ ~in_worklist[idx] => Transferred(idx, stmt)
    /\ Flowed(idx, edge)

(* A block that was reached, is not queued and not in progress is at the   *)
(* fixpoint.                                                               *)
Settled ==
  \A b \in Blocks :
    ~in_worklist[b] /\ ~Busy(b) /\ (\E l \in Locals : in_states[b][l] # "absent") =>
      /\ Transferred(b, Len(body.stmts[b]) + 1)
      /\ Flowed(b, Len(Successors(body.term[b])) + 1)

(* The run starts where the checker started, and once the body is accepted *)
(* a local the checker last took for live at a point is live there.        *)
RunFollows ==
  /\ at \in Blocks
  /\ pos \in 1 .. Len(RunCode) + 1
  /\ live \in SUBSET Locals
  /\ ~Accepted => at = Entry /\ pos = 1 /\ live = body.params
  /\ Accepted => \A b \in Blocks : ~in_worklist[b]
  /\ Accepted => \A l \in Locals :
       /\ in_states[at][l] # "absent"
       /\ point[at][pos][l] # "absent"
       /\ point[at][pos][l] = "Init" => l \in live

RunInv ==
  /\ TypeOK
  /\ QueueMatchesFlags
  /\ PointType
  /\ QueuedReached
  /\ EntryStrict
  /\ Working
  /\ Settled
  /\ RunFollows

-----------------------------------------------------------------------------
Judge == INSTANCE CheckerVerdict WITH
  faulty <- CanFault(body, PathBound),
  verdict <- IF pc # "done" THEN "pending"
             ELSE IF diags = {} THEN "accept" ELSE "reject"

(* The checker decides exactly: it rejects the bodies some path of which   *)
(* faults at a statement, and no other.                                    *)
DecidesExactly == Judge!Spec
=============================================================================
