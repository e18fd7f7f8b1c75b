------------------------------- MODULE Checks -------------------------------
(***************************************************************************)
(* The two fact checkers as `build` runs them on a body, one after the     *)
(* other, each from a fresh map, the diagnostics of both in one list       *)
(* (src/driver_pipeline/mod.rs).  A body goes on to drop elaboration when  *)
(* neither has reported anything.                                          *)
(***************************************************************************)
EXTENDS MirPaths, Worklist

CONSTANT FactBodies     \* the bodies the two may be given

ASSUME FactBodiesAssumption == FactBodies \subseteq Body

VARIABLES
  checker,      \* "borrow", then "magnet"
  reported,     \* the kinds of diagnostics of the checkers that are through
  reached       \* as in FactFlow

Borrow == INSTANCE BorrowCheck WITH Bodies <- FactBodies

Magnet == INSTANCE MagnetCheck WITH Bodies <- FactBodies

loop == <<body, pc, in_states, reached, in_worklist, worklist, idx, stmt, edge,
          state, diags>>

CheckInit ==
  /\ checker = "borrow"
  /\ reported = {}
  /\ Borrow!Init

KindsOf(ds) == {d.kind : d \in ds}

CheckBorrow ==
  /\ checker = "borrow"
  /\ Borrow!Next
  /\ UNCHANGED <<checker, reported>>

(* check_borrow returns and check_magnet starts on the same body.          *)
StartMagnet ==
  /\ checker = "borrow"
  /\ pc = "done"
  /\ checker' = "magnet"
  /\ reported' = reported \cup KindsOf(diags)
  /\ pc' = "pop"
  /\ in_states' = [b \in Blocks |-> {}]
  /\ reached' = [b \in Blocks |-> b = Entry]
  /\ in_worklist' = reached'
  /\ worklist' = <<Entry>>
  /\ idx' = Entry
  /\ stmt' = 1
  /\ edge' = 1
  /\ state' = {}
  /\ diags' = {}
  /\ UNCHANGED body

CheckMagnet ==
  /\ checker = "magnet"
  /\ Magnet!Next
  /\ UNCHANGED <<checker, reported>>

CheckNext == CheckBorrow \/ StartMagnet \/ CheckMagnet

(* One thread of the compiler that nothing ever blocks.                    *)
CheckSpec == CheckInit /\ [][CheckNext]_<<checker, reported, loop>> /\
             WF_<<checker, reported, loop>>(CheckNext)
-----------------------------------------------------------------------------
(* The shapes of the variables, under whichever checker is running.        *)
CheckTypeOK ==
  /\ checker = "borrow" => Borrow!TypeOK
  /\ checker = "magnet" => Magnet!TypeOK

(* What a fixpoint computes: when the loop ends, the reached blocks are    *)
(* the ones some path leads to, and each has exactly the facts that hold   *)
(* at its start on some path, walked on its own without ever joining.      *)
MeetOverPaths(Transfer(_, _)) ==
  pc = "done" =>
    LET starts == {p \in PathPositions(body, Transfer, {}, PathBound) : p[2] = 1}
    IN  \A b \in Blocks :
          LET here == {p \in starts : p[1] = b}
          IN  /\ reached[b] <=> here # {}
              /\ in_states[b] = UNION {p[3] : p \in here}

(* The fixpoint of each checker is what all paths together say: no fact is *)
(* lost where paths meet or turn back, and none is made up.                *)
FactsOfAllPaths ==
  /\ checker = "borrow" => MeetOverPaths(Borrow!BorrowTransfer)
  /\ checker = "magnet" => MeetOverPaths(Magnet!MagnetTransfer)

(* The borrow checker's verdict is right on bodies that do not copy the    *)
(* holder of a borrow.                                                     *)
BorrowVerdict == checker = "borrow" => Borrow!BorrowVerdictExact

(* A body both checkers accept keeps its borrows and its magnets, on every *)
(* path: what drop elaboration and code generation are given.              *)
AcceptedFactsHold ==
  checker = "magnet" /\ pc = "done" /\ reported \cup KindsOf(diags) = {} =>
    /\ Borrow!HoldersStayPut =>
         ~Borrow!SomePathDoes(body, Borrow!RefsAfter, {}, Borrow!Breaks, PathBound)
    /\ Magnet!AcceptedMagnetsHold

(* What the theorems take for granted of the constants: the markers of the *)
(* reference are no locals,                                                *)
FactConstants == PathBound \in Nat /\ Locals \cap {"none", "raw", "dropped"} = {}

(* and where one set of paths is compared with another the walks are long  *)
(* enough to have come wherever runs of the bodies come.                   *)
PathsCovered ==
  \A b \in FactBodies :
    /\ Covered(b, Borrow!BorrowTransfer, {}, PathBound)
    /\ Covered(b, Borrow!RefsAfter, {}, PathBound)
    /\ Covered(b, Magnet!MagnetTransfer, {}, PathBound)

(* Both loops come to an end, whatever the control flow.                   *)
ChecksEnd == <>(checker = "magnet" /\ pc = "done")
=============================================================================
