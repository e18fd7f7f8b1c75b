------------------------------ MODULE MCPasses ------------------------------
(***************************************************************************)
(* The passes between lowering and code generation: the borrow and magnet  *)
(* checkers on the bodies of MCChecks, drop elaboration on those of        *)
(* MCDrops.  A behaviour is of one of them; what only the other uses stays *)
(* as it is.                                                               *)
(***************************************************************************)
EXTENDS MCDrops, MCChecks

VARIABLE pass      \* "facts" or "drops"

ASSUME DropsAssumption == DropConstants

ASSUME PathsAssumption == FactConstants /\ PathsCovered /\ RunsCovered(Bodies)

factVars == <<checker, reported, reached>>
dropVars == <<point, phase, code, runVars>>

NoDrops ==
  /\ point = <<>> /\ phase = "check" /\ code = body.stmts /\ at = Entry /\ pos = 1
  /\ val = [l \in Locals |-> Unset] /\ frees = <<>> /\ moved = {}

NoFacts == checker = "none" /\ reported = {} /\ reached = <<>>

PassInit ==
  \/ pass = "facts" /\ CheckInit /\ NoDrops
  \/ pass = "drops" /\ DropInit /\ NoFacts

FactsStep == pass = "facts" /\ CheckNext /\ UNCHANGED <<pass, dropVars>>
DropsStep == pass = "drops" /\ DropNext /\ UNCHANGED <<pass, factVars>>

(* The compiler is one thread that nothing blocks.                         *)
PassSpec ==
  /\ PassInit
  /\ [][FactsStep \/ DropsStep]_<<pass, vars, factVars, dropVars>>
  /\ WF_<<pass, vars, factVars>>(FactsStep)

-----------------------------------------------------------------------------
(* Both fact checkers come to an end (Checks).                             *)
FactChecksEnd == pass = "facts" => ChecksEnd
=============================================================================
