--------------------------- MODULE MCExpressions ---------------------------
(***************************************************************************)
(* Small programs over numbers, texts and objects for Expressions.         *)
(***************************************************************************)
EXTENDS Expressions

MCShapes == <<[name |-> "P", fields |-> <<[name |-> "a", ty |-> "int"], [name |-> "t", ty |-> "text"]>>],
              [name |-> "Q", fields |-> <<[name |-> "k", ty |-> "int"], [name |-> "a", ty |-> "int"]>>]>>

MCActions == <<[on |-> "P", name |-> "get", result |-> 4], [on |-> "Q", name |-> "get", result |-> 6],
               [on |-> "Q", name |-> "sum", result |-> 7], [on |-> "", name |-> "f", result |-> 2]>>

Params == <<[name |-> "p", ty |-> "int", value |-> 126], [name |-> "u", ty |-> "uint", value |-> 100]>>

Typed == <<65, Newline, 66>>

Program(stmts) == [params |-> Params, input |-> Typed, code |-> stmts]

\* Every program made of one of `starts`, two of `steps` and one of `ends`.
Combined(starts, steps, ends) ==
  {Program(start \o <<one, two>> \o end) :
     start \in starts, one \in steps, two \in steps, end \in ends}

x == Var("x")
y == Var("y")
-----------------------------------------------------------------------------
NumberStart == <<Bind("x", Num(5)), Bind("y", Binary("-", Var("p"), Num(1)))>>

Sums == {Binary("-", x, Num(1)), Binary("-", Num(1), x), Binary("+", y, Binary("*", x, Num(3))),
         Binary("/", y, Num(2)), Binary("/", Num(7), Binary("-", x, Num(5))), Binary(">>", y, Num(1)),
         Binary("<", x, y), Binary("&&", Binary("==", x, Num(5)), Unary("!", Bool(FALSE))),
         Unary("-", x), Move("x"), Num(200), CallOf("f", <<x, Binary("+", x, y)>>)}

NumberSteps ==
  {Set("x", "=", e) : e \in Sums} \cup {Bind("z", e) : e \in Sums}
    \cup {Set("y", "+", x), Set("x", "-", Binary("+", x, y)), Set("y", "*", x),
          DropIt("x"), Bind("p", Num(3)), Const("c", x),
          Do(CallOf("write", <<Var("u"), Char(33), Bool(TRUE), Binary(">", Var("u"), Num(3))>>)),
          Do(CallOf("eprint", <<x, y>>))}

NumberPrograms ==
  Combined({NumberStart}, NumberSteps, {<<Do(Show(<<x, y>>))>>, <<Do(Show(<<y>>))>>})

\* The same with a constant x.
ConstantPrograms ==
  Combined({<<Const("x", Num(5)), Bind("y", x)>>},
           {Set("x", "=", Num(6)), Set("y", "+", x), Bind("x", Num(7)), Set("x", "-", y), Do(Move("x"))},
           {<<Do(Show(<<x, y>>))>>})

(* With a magnet on x, on a parameter, on a value of its own.              *)
m == Meta("m", "value")
MagnetStarts ==
  {NumberStart \o <<Attach("m", on, mut)>> : on \in {x, Binary("+", x, Num(1)), Var("p")}, mut \in BOOLEAN}
MagnetSteps ==
  {Set("x", "=", Binary("-", Num(9), m)), Set("x", "+", m), Set("m", "=", Binary("+", m, x)),
   Set("m", "+", Num(1)), Set("y", "=", Binary("*", m, m)), Retarget("m", y), Do(Move("x")),
   DropIt("x"), Bind("o", Meta("m", "offset")), Bind("z", Move("x")), Set("x", "=", Num(2))}
MagnetPrograms == Combined(MagnetStarts, MagnetSteps, {<<Do(Show(<<x, y, m>>))>>})
-----------------------------------------------------------------------------
s == Var("s")
t == Var("t")
TextStart == <<Bind("s", Str(<<97>>)), Bind("t", Str(<<98, 99>>))>>
TextSteps ==
  {Set("s", "=", e) : e \in {t, Str(<<97>>), Binary("+", s, t), Binary("+", Str(<<98>>), s), Move("t"),
                             CallOf("input", <<>>)}}
    \cup {Set("t", "=", e) : e \in {s, Str(<<>>), Binary("+", Binary("+", s, t), s)}}
    \cup {Set("s", "+", t), DropIt("t"), Do(Show(<<Str(<<97, 98>>), Binary("+", s, t)>>)),
          Bind("e", Binary("!=", s, Str(<<97>>))), Bind("n", Binary("==", t, s)), Bind("v", s)}
TextPrograms == Combined({TextStart}, TextSteps, {<<Do(Show(<<s>>)), Do(Show(<<t>>))>>})
-----------------------------------------------------------------------------
q == Var("q")
a == Var("a")
ObjectStart ==
  <<Bind("s", Str(<<97>>)), Bind("q", Shape("Q", <<Num(3), Num(4)>>)), Bind("x", Num(1)),
    Bind("a", Array(<<x, Dot("q", "k")>>)), Bind("h", Shape("P", <<Num(8), s>>))>>
ObjectSteps ==
  {SetDot("q", "k", "=", Binary("+", Dot("q", "k"), x)), SetDot("h", "t", "=", Str(<<98>>)),
   SetDot("h", "a", "=", Num(2)), SetDot("q", "k", "+", Num(1)),
   SetField(Index(Array(<<q>>), Num(0)), "k", x),
   SetIndex(a, Num(0), Num(5)),
   Set("x", "=", Index(a, Num(1))), Set("x", "=", Index(a, x)), Set("x", "=", Index(a, Num(2))),
   Set("x", "=", Dotted("a", "len", <<>>)), Set("x", "=", Method(Array(<<x, x>>), "len", <<>>)),
   Set("x", "=", Dotted("a", "pop", <<>>)), Do(Dotted("a", "push", <<Binary("+", x, x)>>)),
   Set("x", "=", Dotted("q", "sum", <<x>>)), Set("x", "=", Dotted("h", "get", <<>>)),
   Set("x", "=", Method(Index(Array(<<q>>), Num(0)), "sum", <<x, Num(2)>>)),
   Set("a", "=", Array(<<x, Index(a, Num(0))>>)), Bind("b", a), Set("q", "=", Shape("Q", <<x, x>>)),
   Bind("c", Choice(1, <<x>>)), Bind("d", Choice(0, <<>>)), DropIt("q"),
   Attach("m", q, TRUE), Do(Show(<<Dot("h", "t"), Field(Shape("Q", <<x, Num(2)>>), "k")>>))}
ObjectEnds ==
  {<<Do(Show(<<x, Dot("q", "k"), Index(a, Num(0)), Dot("h", "t"), Dotted("a", "len", <<>>)>>))>>}

(* Fields through a magnet on the owner.                                   *)
FieldSteps ==
  {SetDot("m", "k", "=", Num(6)), SetDot("q", "k", "=", Binary("*", Meta("m", "k"), Num(2))),
   Set("q", "=", Shape("Q", <<x, x>>)), Set("x", "=", Dot("m", "k")), Bind("r", q),
   Set("x", "=", Dotted("m", "sum", <<x>>))}
ObjectPrograms ==
  Combined({ObjectStart}, ObjectSteps, ObjectEnds)
    \cup Combined({ObjectStart \o <<Attach("m", q, TRUE)>>}, FieldSteps,
                  {<<Do(Show(<<x, Dot("m", "k"), Dot("q", "k"), Meta("m", "k")>>))>>})

MCPrograms ==
  NumberPrograms \cup ConstantPrograms \cup MagnetPrograms \cup TextPrograms \cup ObjectPrograms
=============================================================================
