----------------------------- MODULE MCFrontEnd -----------------------------
(***************************************************************************)
(* What the driver does with files: load and resolve the projects of       *)
(* MCModuleLoader, run the commands of BuildCommands in one build/debug,   *)
(* or read and write back the texts of MCFormatter.  A behaviour is of     *)
(* one of the three; the others stay idle.                                 *)
(***************************************************************************)
EXTENDS MCModuleLoader, BuildCommands

CONSTANTS
  Identifiers, Ints,   \* the names and integer literals of the texts
  Rounds               \* how often fmt is run

VARIABLES
  command,    \* "build", "fmt" or "shells"
  source, texts, tokens, trees, f_phase

Written == INSTANCE MCFormatter WITH
           Names <- Identifiers, Strings <- <<>>, Originals <- {}, phase <- f_phase

Fmt == INSTANCE Formatter WITH
         Names <- Identifiers, Strings <- Written!MCStrings, Originals <- Written!MCSources,
         phase <- f_phase

(* Two sources of one stem with different exits, one that is rejected, one *)
(* of another stem; a directory of two and one that cannot be listed.      *)
MCStem == [fx1 |-> "x", fx2 |-> "x", bad |-> "x", fy |-> "y"]
MCSays == [fx1 |-> "exit 0", fx2 |-> "exit 1", bad |-> "rejected", fy |-> "exit 0"]
MCEntries == [dir |-> <<"fx1", "fx2">>, gone |-> "unlisted"]
MCOrders ==
  {[kind |-> "test", inputs |-> i] :
     i \in {<<>>, <<"dir">>, <<"fx1", "fy">>, <<"fx1", "gone", "fx2">>, <<"bad">>}}
  \cup {[kind |-> k, inputs |-> <<f>>] : k \in {"build", "run"}, f \in {"fx1", "fx2"}}
  \cup {[kind |-> k, inputs |-> <<"fx1">>] : k \in {"mir", "obj"}}
  \cup {[kind |-> "run", inputs |-> <<"bad">>], [kind |-> "clean", inputs |-> <<>>]}

ASSUME CommandsAssumption == BuildConstants
ASSUME LoaderAssumption == LoadConstants

fmtVars == <<source, texts, tokens, trees, f_phase>>

NoFormatter == source = <<>> /\ texts = <<>> /\ tokens = <<>> /\ trees = <<>> /\ f_phase = "done"

NoLoader ==
  /\ disk = <<>> /\ queue = <<>> /\ loadedNames = {} /\ loadedFiles = {} /\ contracts = {}
  /\ current = NoFile /\ map = <<>> /\ modules = <<>> /\ diags = {}
  /\ phase = "rejected" /\ toResolve = <<>> /\ isContract = <<>>

NoCommands ==
  /\ order = [p \in Procs |-> [kind |-> "none", inputs |-> <<>>]]
  /\ left = [p \in Procs |-> <<>>] /\ pc = [p \in Procs |-> "killed"]
  /\ held = [p \in Procs |-> FALSE] /\ linked = [p \in Procs |-> Missing]
  /\ verdicts = [p \in Procs |-> <<>>] /\ raced = [p \in Procs |-> FALSE]
  /\ exit = [p \in Procs |-> Missing] /\ present = FALSE
  /\ objects = [s \in Stems |-> Missing] /\ executables = objects

Init ==
  \/ command = "build" /\ LdInit /\ NoFormatter /\ NoCommands
  \/ command = "fmt" /\ Fmt!FmtInit /\ NoLoader /\ NoCommands
  \/ command = "shells" /\ BuildInit /\ NoFormatter /\ NoLoader

Next ==
  \/ command = "build" /\ LdNext /\ UNCHANGED <<command, fmtVars, buildVars>>
  \/ command = "fmt" /\ Fmt!FmtNext /\ UNCHANGED <<command, vars, buildVars>>
  \/ command = "shells" /\ BuildNext /\ UNCHANGED <<command, vars, fmtVars>>

Spec == Init /\ [][Next]_<<command, vars, fmtVars, buildVars>>

-----------------------------------------------------------------------------
(* fmt keeps what a file means (Formatter).                                *)
WritesWhatItRead == Fmt!WritesWhatItRead

(* Trees follow the table of operators (Formatter).                        *)
OperatorsBindAsDeclared == Fmt!OperatorsBindAsDeclared

(* Parts of a file are parsed as if each stood alone (Formatter).          *)
PartsStandAlone == Fmt!PartsStandAlone

(* The parser comes to the end of every file (Formatter).                  *)
ListsMoveOn == Fmt!ListsMoveOn
=============================================================================
