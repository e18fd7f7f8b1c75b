------------------------------ MODULE MCChecks ------------------------------
(***************************************************************************)
(* A small instance of Checks: bodies of three blocks over an owner o, a   *)
(* holder h, which is a borrow or a magnet, and a local g that may hold a  *)
(* second borrow, a copy or another owner.  One family exercises borrows,  *)
(* the other magnets; both checkers see both.                              *)
(***************************************************************************)
EXTENDS Checks

CONSTANTS h, g, o

BorrowMenu ==
  {Assign(h, "borrow", <<o>>), Assign(h, "borrow_mut", <<o>>),
   Assign(g, "borrow", <<o>>), Assign(h, "const", <<>>), Assign(g, "use", <<h>>),
   Assign(g, "attach", <<o>>), Assign(g, "attach_mut", <<o>>),
   Assign(o, "const", <<>>), Assign(g, "move", <<o>>), Call(o, "other", <<>>),
   StorageDead(o), StorageLive(h), Drop(o), Assert(o)}

BorrowEnds ==
  {Assign(h, "const", <<>>), Assign(g, "borrow_mut", <<o>>), StorageDead(o),
   Assign(g, "move", <<o>>), Assign(g, "use", <<h>>), StorageDead(h)}

Query == Assign(g, "magnet_query", <<h>>)

WriteThrough == Assign(h, "store", <<h, g>>)

MagnetMenu ==
  {Assign(h, "attach", <<o>>), Assign(h, "attach_mut", <<o>>),
   Assign(h, "attach_mut", <<g>>), Assign(h, "magnet_none", <<>>),
   Assign(h, "from_addr", <<g>>), Query, WriteThrough, Assign(o, "store", <<h, g>>),
   Assign(g, "move", <<o>>), Assign(o, "use", <<g>>), StorageLive(h), StorageDead(o),
   Drop(o), Drop(h), Call(g, "other", <<o>>), Assert(o)}

MagnetEnds ==
  {Query, WriteThrough, Assign(h, "magnet_none", <<>>), Assign(h, "attach_mut", <<o>>),
   Drop(o), Drop(h)}

(* A branch that skips the middle block, a loop with an exit, a loop that  *)
(* is also entered in the middle, with a jump past the last block.         *)
FactShapes ==
  {<<Switch(o, <<1, 2>>), Goto(2), Return(<<>>)>>,
   <<Goto(1), Switch(o, <<2, 0>>), Goto(1)>>,
   <<Switch(o, <<1, 3>>), Goto(2), Switch(o, <<1, 0>>)>>}

CodeOf(menu, ends, first) ==
  {<<<<s>>, m, <<t>>>> :
     s \in menu, t \in menu,
     m \in {<<>>} \cup {<<e>> : e \in ends} \cup {<<first, e>> : e \in ends}}

MCFactBodies ==
  {[params |-> {o, g},
    stmts |-> [b \in Blocks |-> code[b + 1]],
    term |-> [b \in Blocks |-> shape[b + 1]]] :
     shape \in FactShapes,
     code \in CodeOf(BorrowMenu, BorrowEnds, Assign(h, "borrow", <<o>>)) \cup
              CodeOf(MagnetMenu, MagnetEnds, Query)}
=============================================================================
