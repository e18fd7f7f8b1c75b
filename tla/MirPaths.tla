------------------------------ MODULE MirPaths ------------------------------
(***************************************************************************)
(* What it means to run a MIR body: the reference the checkers are held    *)
(* against, independent of how they work.  A run is at a position          *)
(* <<block, next statement, what it carries>>; branches are taken either   *)
(* way.  What is carried is the parameter: Step(s, c) is what statement s  *)
(* makes of it.                                                            *)
(***************************************************************************)
EXTENDS Mir, FiniteSets

CONSTANT PathBound   \* steps after which the walks have reached everything

Moves(body, Step(_, _), p) ==
  LET code == body.stmts[p[1]]
      succ == Successors(body.term[p[1]])
  IN  IF p[2] <= Len(code)
      THEN {<<p[1], p[2] + 1, Step(code[p[2]], p[3])>>}
      ELSE {<<succ[n], 1, p[3]>> :
              n \in {m \in DOMAIN succ : succ[m] \in Blocks}}

(* Every position some run reaches that starts at the entry with `start`.  *)
(* When going on adds nothing the bound has lost nothing.                  *)
PathPositions(body, Step(_, _), start, MaxSteps) ==
  LET reach[n \in 0 .. MaxSteps] ==
        IF n = 0 THEN {<<Entry, 1, start>>}
        ELSE LET sofar == reach[n - 1]
             IN  sofar \cup UNION {Moves(body, Step, p) : p \in sofar}
  IN  reach[MaxSteps]

(* The bound has lost nothing: no run goes on from where they came to.     *)
Covered(body, Step(_, _), start, MaxSteps) ==
  LET seen == PathPositions(body, Step, start, MaxSteps)
  IN  \A p \in seen : Moves(body, Step, p) \subseteq seen

(* The positions from which a run is about to do a statement that Bad.     *)
SomePathDoes(body, Step(_, _), start, Bad(_, _), MaxSteps) ==
  \E p \in PathPositions(body, Step, start, MaxSteps) :
    p[2] <= Len(body.stmts[p[1]]) /\ Bad(body.stmts[p[1]][p[2]], p[3])
-----------------------------------------------------------------------------
(* As far as ownership goes a run carries the set of locals that hold a    *)
(* live value.  Reading, moving or dropping a local outside that set is a  *)
(* fault (OWNERSHIP.md, the table of section 1).                           *)
Faults(s, live) ==
  (Reads(s) \cup (IF s.op = "drop" THEN {s.dest} ELSE {})) \ live

After(s, live) ==
  CASE s.op \in {"assign", "call"} ->
         (IF IsMove(s) THEN live \ Reads(s) ELSE live) \cup {s.dest}
    [] s.op = "assert" -> live
    [] OTHER -> live \ {s.dest}

IsFault(s, live) == Faults(s, live) # {}

CanFault(body, MaxSteps) ==
  SomePathDoes(body, After, body.params, IsFault, MaxSteps)

(* The walks are long enough: on none of the bodies do they stop short of  *)
(* a position that some run comes to.                                      *)
RunsCovered(bodies) ==
  /\ PathBound \in Nat
  /\ \A b \in bodies : Covered(b, After, b.params, PathBound)
=============================================================================
