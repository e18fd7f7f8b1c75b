------------------------------ MODULE MCDrops ------------------------------
(***************************************************************************)
(* A small instance of DropElaborate: bodies of three blocks over a        *)
(* parameter p, two locals a and b that may own heap memory, and a void    *)
(* destination v.  A local that owns memory is freed before it is given    *)
(* new memory, as emit_heap_call does.                                     *)
(***************************************************************************)
EXTENDS DropElaborate

CONSTANTS p, a, b, v

New(l) == Call(l, "alloc", <<>>)

Menu ==
  {<<New(a)>>, <<New(b)>>, <<New(a), New(b)>>, <<Assign(b, "move", <<a>>)>>,
   <<Assign(b, "use", <<a>>)>>, <<New(a), Assign(b, "move", <<a>>)>>,
   <<Assign(a, "move", <<p>>)>>, <<Drop(a)>>, <<Assert(a)>>,
   <<New(b), Assign(b, "move", <<a>>)>>}

Middle == Menu \cup {<<>>, <<Call(v, "free", <<a>>), New(a)>>, <<StorageDead(a)>>,
                     <<StorageLive(b), Call(b, "other", <<p>>)>>}

Shapes ==
  {<<Switch(p, <<1, 2>>), Goto(2), Return(<<>>)>>,
   <<Switch(p, <<1, 2>>), Return(<<>>), Return(<<b>>)>>,
   <<Goto(1), Switch(p, <<2, 0>>), Return(<<>>)>>,
   <<Goto(1), Switch(p, <<1, 2>>), Return(<<>>)>>}

MCBodies ==
  {[params |-> {p},
    stmts |-> [n \in Blocks |-> CASE n = 0 -> s [] n = 1 -> m [] n = 2 -> t],
    term |-> [n \in Blocks |-> shape[n + 1]]] :
     s \in Menu, m \in Middle, t \in Menu \cup {<<>>}, shape \in Shapes}

MCOrder == <<p, a, b, v>>
=============================================================================
