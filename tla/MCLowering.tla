----------------------------- MODULE MCLowering -----------------------------
(* Actions two constructs deep, the inner one before and after a statement *)
(* that must not run or must, with every way to leave a block.             *)
EXTENDS Lowering

Ends(v) == {<<>>, <<Break>>, <<Continue>>, <<Return(v)>>, <<Panic>>}
Bodies(v) == Ends(v) \cup {<<Do("a")>>, <<Do("a"), Continue, Do("b")>>}

(* One construct around bodies of the simplest kind.                       *)
Nested(v) ==
  {If(<<Arm("c", b)>>, e) : b \in Bodies(v), e \in Ends(v)}
    \cup {While("d", b) : b \in Bodies(v)}
    \cup {Forever(b) : b \in Bodies(v) \ {<<>>, <<Continue>>}}
    \cup {For("j", b) : b \in Bodies(v)}
    \cup {Match("m", <<Case(FALSE, b), Case(t, e)>>) : b \in Ends(v), e \in Ends(v),
                                                       t \in BOOLEAN}

(* Another one around it.                                                  *)
Outer(v) ==
  LET inner == {<<s>> : s \in Nested(v)} \cup {<<s, Do("z")>> : s \in Nested(v)}
  IN  {If(<<Arm("c1", b), Arm("c2", <<Return(v)>>)>>, <<Return(v)>>) : b \in inner}
        \cup {While("w", b) : b \in inner}
        \cup {Forever(b) : b \in inner}
        \cup {For("i", b) : b \in inner}
        \cup {Match("n", <<Case(TRUE, b), Case(FALSE, <<Return(v)>>)>>) : b \in inner}

Tails(v) == {<<>>, <<Do("t"), Return(v)>>}

MCPrograms ==
  UNION {{[unit |-> ~v, code |-> <<s>> \o t] : s \in Nested(v) \cup Outer(v), t \in Tails(v)} :
           v \in BOOLEAN}
    \cup {[unit |-> FALSE, code |-> <<>>], [unit |-> FALSE, code |-> <<Return(FALSE)>>]}

(* Every statement in them.                                                *)
MCStatements ==
  UNION {Nested(v) \cup Outer(v) \cup UNION {{s[n] : n \in DOMAIN s} : s \in Bodies(v) \cup Tails(v)} :
           v \in BOOLEAN}
    \cup {Do("z")}
=============================================================================
