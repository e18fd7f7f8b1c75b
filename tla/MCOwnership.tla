---------------------------- MODULE MCOwnership ----------------------------
(***************************************************************************)
(* A small instance of OwnershipRun: every body of three blocks over two   *)
(* locals whose control flow is one of Shapes and whose blocks hold one    *)
(* statement of Menu each (the middle one up to two).                      *)
(***************************************************************************)
EXTENDS OwnershipRun

CONSTANTS x, y

Menu ==
  {Assign(x, "move", <<y>>), Assign(y, "move", <<x>>),
   Assign(x, "const", <<>>), Assign(y, "use", <<x>>),
   Drop(x), StorageLive(x), StorageDead(y), Assert(y), Call(y, "other", <<x, y>>)}

(* Control flow: a diamond without its else arm, a loop with an exit, a    *)
(* block that loops to itself, a chain of two loops sharing a block, and a *)
(* branch whose second target is not a block.                              *)
Shapes ==
  {<<Switch(x, <<1, 2>>), Goto(2), Return(<<y>>)>>,
   <<Goto(1), Switch(y, <<2, 0>>), Goto(1)>>,
   <<Switch(x, <<1, 2>>), Switch(y, <<1, 2>>), Return(<<>>)>>,
   <<Switch(x, <<1, 2>>), Goto(2), Switch(y, <<1, 3>>)>>,
   <<Goto(1), Switch(x, <<1, 2, 0>>), Abort>>}

MiddleCode == {<<s>> : s \in Menu} \cup {<<s, t>> : s, t \in {Drop(x), Assert(y), Assign(y, "move", <<x>>)}}

MCBodies ==
  {[params |-> p,
    stmts |-> [b \in Blocks |-> CASE b = 0 -> <<s>> [] b = 1 -> m [] b = 2 -> <<t>>],
    term |-> [b \in Blocks |-> shape[b + 1]]] :
     p \in {{x}, {x, y}}, s \in Menu, m \in MiddleCode, t \in Menu, shape \in Shapes}

ASSUME RunsAssumption == RunsCovered(Bodies)
=============================================================================
