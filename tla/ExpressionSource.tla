-------------------------- MODULE ExpressionSource --------------------------
(***************************************************************************)
(* What the statements of an action mean before anything is compiled, from *)
(* docs/LANGUAGE.md sections 4 to 8 and docs/OWNERSHIP.md: the reference   *)
(* Expressions holds the lowered code against.  Variables hold words with  *)
(* a type, references to objects, or, for a magnet, the variable it is     *)
(* attached to.                                                            *)
(*                                                                         *)
(* Where the code is known to do something else the reference says what    *)
(* the documents say and notes the name of the disagreement in `odd`.      *)
(***************************************************************************)
EXTENDS Integers, Sequences, TLC

LOCAL Seqs == INSTANCE SequencesExt
LOCAL INSTANCE Bitwise

CONSTANTS
  WordBits,   \* width of an integer
  Shapes,     \* the shapes of the module: [name, fields], fields with types
  Actions     \* its other actions: [on |-> shape or "", name, result]

(* The words of the machine hold the bytes of texts.                       *)
WordAssumption == WordBits \in Nat /\ WordBits >= 7

-----------------------------------------------------------------------------
(* Expressions.  The operands of every form are its `args`, in order.      *)
Num(n) == [kind |-> "int", n |-> n, args |-> <<>>]
Bool(b) == [kind |-> "bool", b |-> b, args |-> <<>>]
Char(n) == [kind |-> "char", n |-> n, args |-> <<>>]
Str(bytes) == [kind |-> "str", bytes |-> bytes, args |-> <<>>]
Var(x) == [kind |-> "var", x |-> x, args |-> <<>>]
Dot(x, f) == [kind |-> "path", x |-> x, field |-> f, args |-> <<>>]
Field(e, f) == [kind |-> "field", field |-> f, args |-> <<e>>]
Move(x) == [kind |-> "move", x |-> x, args |-> <<>>]
Unary(op, e) == [kind |-> "unary", op |-> op, args |-> <<e>>]
Binary(op, l, r) == [kind |-> "binary", op |-> op, args |-> <<l, r>>]
Shape(s, es) == [kind |-> "shape", shape |-> s, args |-> es]
Choice(tag, es) == [kind |-> "choice", tag |-> tag, args |-> es]
Array(es) == [kind |-> "array", args |-> es]
Index(b, i) == [kind |-> "index", args |-> <<b, i>>]
Dotted(x, name, es) == [kind |-> "dotted", x |-> x, name |-> name, args |-> es]
Method(e, name, es) == [kind |-> "method", name |-> name, args |-> <<e>> \o es]
CallOf(name, es) == [kind |-> "call", name |-> name, args |-> es]
Show(es) == CallOf("print", es)
Meta(x, prop) == [kind |-> "meta", x |-> x, prop |-> prop, args |-> <<>>]

(* Statements.                                                             *)
Bind(x, e) == [kind |-> "bind", x |-> x, value |-> e, mutable |-> TRUE]
Const(x, e) == [Bind(x, e) EXCEPT !.mutable = FALSE]
Attach(m, e, mut) == [kind |-> "magnet", x |-> m, value |-> e, mutable |-> mut]
Retarget(m, e) == [kind |-> "retarget", x |-> m, value |-> e]
DropIt(x) == [kind |-> "drop", x |-> x]
Do(e) == [kind |-> "expr", value |-> e]
Set(x, op, e) == [kind |-> "set", x |-> x, op |-> op, value |-> e]
SetDot(x, f, op, e) == [kind |-> "setdot", x |-> x, field |-> f, op |-> op, value |-> e]
SetField(r, f, e) == [kind |-> "setfield", receiver |-> r, field |-> f, value |-> e]
SetIndex(b, i, e) == [kind |-> "setindex", base |-> b, index |-> i, value |-> e]

-----------------------------------------------------------------------------
(* Words, with the operations of the language on them.                     *)
Wrap(n) == n % 2^WordBits
Signed(n) == IF n >= 2^(WordBits - 1) THEN n - 2^WordBits ELSE n
Truth(b) == IF b THEN 1 ELSE 0
Comparisons == {"==", "!=", "<", "<=", ">", ">="}

Compare(op, a, b) ==
  Truth(CASE op = "==" -> a = b  [] op = "!=" -> a # b
          [] op = "<"  -> a < b  [] op = "<=" -> a <= b
          [] op = ">"  -> a > b  [] op = ">=" -> a >= b)

Arithmetic(op, a, b) ==
  CASE op = "+" -> Wrap(a + b)  [] op = "-" -> Wrap(a - b)  [] op = "*" -> Wrap(a * b)
    [] op = "/" -> a \div b     [] op = "%" -> a % b
    [] op \in {"&", "&&"} -> a & b  [] op \in {"|", "||"} -> a | b
    [] op = "^" -> a ^^ b       [] op = "<<" -> Wrap(a * 2^(b % WordBits))
    [] op = ">>" -> a \div 2^(b % WordBits)

(* An operator on two words read as signed or as unsigned numbers.         *)
Operate(op, a, b, signed) ==
  CASE op \in Comparisons /\ signed -> Compare(op, Signed(a), Signed(b))
    [] op \in Comparisons /\ ~signed -> Compare(op, a, b)
    [] op = ">>" /\ signed -> Wrap(Signed(a) \div 2^(b % WordBits))
    [] OTHER -> Arithmetic(op, a, b)

Traps(op, b) == op \in {"/", "%"} /\ b = 0

-----------------------------------------------------------------------------
(* Values and what reaches standard output.                                *)
Word(t, n) == [k |-> "word", t |-> t, n |-> n]
Ref(o) == [k |-> "ref", o |-> o]
AttachedTo(x) == [k |-> "magnet", x |-> x]
Gone == [k |-> "gone"]

Byte(n) == [k |-> "byte", n |-> n]
Number(n) == [k |-> "number", n |-> n]
Called(n) == [k |-> "called", n |-> n]
Bytes(ns) == [i \in DOMAIN ns |-> Byte(ns[i])]
Space == 32
Newline == 10
TrueText == <<116, 114, 117, 101>>
FalseText == <<102, 97, 108, 115, 101>>

(* The state of a run: variables, objects, output and rest of the input;   *)
(* `ok` until the program uses what is gone, `stopped` by a trap or an     *)
(* index out of range; `owned` are the variables last given a literal.     *)
Started(params, input) ==
  [vars |-> [x \in {params[i].name : i \in DOMAIN params} |->
               LET p == params[CHOOSE i \in DOMAIN params : params[i].name = x]
               IN  Word(p.ty, p.value)],
   params |-> {params[i].name : i \in DOMAIN params},
   heap |-> <<>>, out |-> <<>>, input |-> input, ok |-> TRUE, stopped |-> FALSE,
   immutable |-> {}, read_only |-> {}, owned |-> {}, odd |-> {}, val |-> Gone]

Ended(st) == ~st.ok \/ st.stopped
Yield(st, v) == [st EXCEPT !.val = v]
Invalid(st) == [st EXCEPT !.ok = FALSE]
Stop(st) == [st EXCEPT !.stopped = TRUE]
Odd(st, name, cond) == IF cond THEN [st EXCEPT !.odd = @ \cup {name}] ELSE st
Say(st, items) == [st EXCEPT !.out = @ \o items]

(* A new object.  `what` is "text", "array", "choice" or a shape's name.   *)
Create(st, what, cells) ==
  Yield([st EXCEPT !.heap = Append(@, [what |-> what, cells |-> cells])],
        Ref(Len(st.heap) + 1))

AttachedMagnets(st, x) == {m \in DOMAIN st.vars : st.vars[m] = AttachedTo(x)}

(* The value behind a variable, through a magnet if it is one.             *)
Behind(st, x) ==
  IF st.vars[x].k = "magnet" THEN st.vars[st.vars[x].x] ELSE st.vars[x]

Known(st, v, then) == IF v = Gone THEN Invalid(st) ELSE then

FieldNames(s) == [i \in DOMAIN s.fields |-> s.fields[i].name]
ShapeNamed(name) == CHOOSE i \in DOMAIN Shapes : Shapes[i].name = name
PlaceOf(f, s) == Seqs!SelectInSeq(FieldNames(s), LAMBDA n : n = f)

(* Another shape has a field of that name somewhere else.                  *)
AmbiguousField(f) ==
  \E s, t \in Seqs!ToSet(Shapes) : 0 # PlaceOf(f, s) /\ 0 # PlaceOf(f, t)
                                     /\ PlaceOf(f, s) # PlaceOf(f, t)
AmbiguousMethod(name) ==
  \E i, j \in DOMAIN Actions : i # j /\ Actions[i].name = name /\ Actions[j].name = name
                                 /\ "" \notin {Actions[i].on, Actions[j].on}

Place(st, v, f) == PlaceOf(f, Shapes[ShapeNamed(st.heap[v.o].what)])
FieldOf(st, v, f) ==
  Odd(Yield(st, st.heap[v.o].cells[Place(st, v, f)]), "field", AmbiguousField(f))

-----------------------------------------------------------------------------
(* One form applied to the values of its operands.                         *)
Combine(op, l, r, st) ==
  LET a == st.heap[l.o].cells
      b == st.heap[r.o].cells
      signed == "uint" \notin {l.t, r.t}
      n == Operate(op, l.n, r.n, signed)
      t == IF op \in Comparisons THEN "bool" ELSE l.t
  IN  IF l.k = "ref"
      THEN CASE op = "+" -> Create(st, "text", a \o b)
             [] op = "==" -> Yield(st, Word("bool", Truth(a = b)))
             [] op = "!=" -> Yield(st, Word("bool", Truth(a # b)))
      ELSE IF Traps(op, r.n) THEN Stop(st)
      ELSE Odd(Yield(st, Word(t, n)), "signs",
               n # Operate(op, l.n, r.n, op = ">>"))

Negate(op, v) == IF op = "-" THEN Word(v.t, Wrap(-v.n)) ELSE Word("bool", Truth(v.n = 0))

Item(st, v, i) ==
  IF i.n >= Len(st.heap[v.o].cells) THEN Stop(st)
  ELSE Yield(st, st.heap[v.o].cells[i.n + 1])

(* What an action sees of an argument; the answer is the action's own.     *)
Seen(heap, v) == IF v.k = "ref" /\ heap[v.o].cells # <<>> THEN heap[v.o].cells[1] ELSE v
Answer(st, i, vals) ==
  Yield(Say(st, <<Called(i)>> \o [j \in DOMAIN vals |-> Number(Seen(st.heap, vals[j]).n)]),
        Word("int", Actions[i].result))

ActionNamed(on, name) ==
  Seqs!SelectInSeq(Actions, LAMBDA a : a.on = on /\ a.name = name)

Invoke(st, name, vals) ==
  LET v == vals[1]
      cells == st.heap[v.o].cells
      last == Len(cells)
  IN  CASE name = "len" -> Yield(st, Word("int", last))
        [] name = "push" ->
             Yield([st EXCEPT !.heap[v.o].cells = Append(@, vals[2])], Word("int", last + 1))
        [] name = "pop" /\ last = 0 -> Yield(st, Word("int", 0))
        [] name = "pop" /\ last > 0 ->
             Yield([st EXCEPT !.heap[v.o].cells = Seqs!Front(@)], cells[last])
        [] OTHER -> Odd(Answer(st, ActionNamed(st.heap[v.o].what, name), vals),
                        "method", AmbiguousMethod(name))

FirstLine(bytes) ==
  LET n == Seqs!SelectInSeq(bytes, LAMBDA b : b = Newline)
  IN  IF n = 0 THEN bytes ELSE SubSeq(bytes, 1, n - 1)
AfterLine(bytes) == SubSeq(bytes, Len(FirstLine(bytes)) + 2, Len(bytes))
Line(bytes) == [i \in DOMAIN FirstLine(bytes) |-> Word("uint", FirstLine(bytes)[i])]

ReadLine(st) ==
  [Create(st, "text", Line(st.input)) EXCEPT !.input = AfterLine(@)]

Shows(e) == e.kind = "call" /\ e.name \in {"print", "write", "eprint"}

(* An argument of print: texts and literals as they read, else a number.   *)
Shown(st, e, v) ==
  CASE v.k = "ref" -> [i \in DOMAIN st.heap[v.o].cells |-> Byte(st.heap[v.o].cells[i].n)]
    [] v.t = "bool" -> Bytes(IF v.n = 1 THEN TrueText ELSE FalseText)
    [] v.t = "char" -> <<Byte(v.n)>>
    [] v.t = "uint" -> <<Number(v.n)>>
    [] OTHER -> <<Number(Signed(v.n))>>

ShowArg(st, e, i, v) ==
  Odd(Say(st, Shown(st, e, v)), "printed as a number",
      v.k = "word" /\ (\/ v.t \in {"bool", "char"} /\ e.args[i].kind \notin {"bool", "char"}
                       \/ v.t = "uint" /\ v.n # Signed(v.n)))

Separated(st, e, i) ==
  IF Shows(e) /\ i > 1 /\ ~Ended(st) THEN Say(st, <<Byte(Space)>>) ELSE st

Named(st, name, vals) ==
  CASE name \in {"print", "eprint"} ->
         Odd(Say(st, <<Byte(Newline)>>), "stderr", name = "eprint")
    [] name = "write" -> st
    [] name = "input" -> ReadLine(st)
    [] OTHER -> Answer(st, ActionNamed("", name), vals)

TakeOut(st, x) ==
  IF AttachedMagnets(st, x) # {} THEN Invalid(st)
  ELSE Yield([st EXCEPT !.vars[x] = Gone], st.vars[x])

Ask(st, x, prop) ==
  LET v == Behind(st, x)
  IN  CASE prop = "value" -> Known(st, v, Yield(st, v))
        [] prop = "offset" -> Yield(st, Word("int", 0))
        [] OTHER -> Known(st, v, FieldOf(st, v, prop))

Applied(e, st, vals) ==
  CASE e.kind \in {"int", "bool", "char"} ->
         Yield(st, Word(e.kind, IF e.kind = "bool" THEN Truth(e.b) ELSE Wrap(e.n)))
    [] e.kind = "str" -> Create(st, "text", [i \in DOMAIN e.bytes |-> Word("uint", e.bytes[i])])
    [] e.kind = "var" -> Known(st, st.vars[e.x], Yield(st, st.vars[e.x]))
    [] e.kind = "path" -> Known(st, Behind(st, e.x), FieldOf(st, Behind(st, e.x), e.field))
    [] e.kind = "move" -> Known(st, st.vars[e.x], TakeOut(st, e.x))
    [] e.kind = "meta" -> Ask(st, e.x, e.prop)
    [] e.kind = "field" -> FieldOf(st, vals[1], e.field)
    [] e.kind = "unary" -> Yield(st, Negate(e.op, vals[1]))
    [] e.kind = "binary" -> Combine(e.op, vals[1], vals[2], st)
    [] e.kind = "shape" -> Create(st, e.shape, vals)
    [] e.kind = "choice" -> Create(st, "choice", <<Word("int", e.tag)>> \o vals)
    [] e.kind = "array" -> Create(st, "array", vals)
    [] e.kind = "index" -> Item(st, vals[1], vals[2])
    [] e.kind = "method" -> Invoke(st, e.name, vals)
    [] e.kind = "dotted" ->
         Known(st, st.vars[e.x], Odd(Invoke(st, e.name, <<Behind(st, e.x)>> \o vals),
                                     "call through a magnet", st.vars[e.x].k = "magnet"))
    [] e.kind = "call" -> Named(st, e.name, vals)

(* Operands first, in order; print shows each as soon as it is there.      *)
RECURSIVE Eval(_, _)
Eval(e, st) ==
  LET r == Seqs!FoldLeftDomain(
             LAMBDA acc, i :
               LET s == Eval(e.args[i], Separated(acc.st, e, i))
               IN  [st |-> IF Shows(e) /\ ~Ended(s) THEN ShowArg(s, e, i, s.val) ELSE s,
                    vals |-> Append(acc.vals, s.val)],
             [st |-> st, vals |-> <<>>], e.args)
  IN  IF Ended(r.st) THEN r.st ELSE Applied(e, r.st, r.vals)

-----------------------------------------------------------------------------
(* The disagreements an assignment can run into.                           *)

RECURSIVE Mentions(_, _)
Mentions(e, names) ==
  \/ "x" \in DOMAIN e /\ e.x \in names
  \/ \E i \in DOMAIN e.args : Mentions(e.args[i], names)

(* Lowering e into the variable writes it before the last read of `names`, *)
(* the variable and the magnets attached to it.                            *)
RECURSIVE ReadsLate(_, _, _)
ReadsLate(e, x, names) ==
  CASE e.kind \in {"unary", "field"} -> ReadsLate(e.args[1], x, names)
    [] e.kind \in {"binary", "index"} ->
         \/ ReadsLate(e.args[1], x, names)
         \/ e.args[1] # Var(x) /\ Mentions(e.args[2], names)
    [] e.kind \in {"shape", "choice", "array"} ->
         \E i \in DOMAIN e.args : Mentions(e.args[i], names)
    [] e.kind = "method" /\ e.name = "len" -> ReadsLate(e.args[1], x, names)
    [] OTHER -> FALSE

Literal(e) == e.kind \in {"str", "choice"}
RECURSIVE StartsWithLiteral(_)
StartsWithLiteral(e) ==
  \/ Literal(e)
  \/ e.kind \in {"binary", "unary", "field", "index"} /\ StartsWithLiteral(e.args[1])

(* Somebody other than x still holds the object x refers to.               *)
Shared(st, x) ==
  \/ \E y \in DOMAIN st.vars \ {x} : st.vars[y] = st.vars[x]
  \/ \E o \in DOMAIN st.heap : \E i \in DOMAIN st.heap[o].cells :
       st.heap[o].cells[i] = st.vars[x]

AssignedOddly(st, x, op, e) ==
  LET names == {x} \cup AttachedMagnets(st, x)
      plain == op \notin {"+", "-"}
      frees == x \in st.owned /\ StartsWithLiteral(e)
  IN  Odd(Odd(Odd(Odd(st, "overwritten", plain /\ ReadsLate(e, x, names)),
                  "freed", plain /\ frees /\ (st.vars[x].k # "ref" \/ Shared(st, x))),
              "constant", x \in st.immutable),
          "added handles", ~plain /\ st.vars[x].k = "ref")
-----------------------------------------------------------------------------
(* Statements.                                                             *)
Keep(st, x, v) == [st EXCEPT !.vars = (x :> v) @@ @]
Owning(st, x, e) ==
  IF StartsWithLiteral(e) THEN [st EXCEPT !.owned = @ \cup {x}] ELSE st

Binding(s, st) ==
  LET r == Eval(s.value, st)
  IN  IF Ended(r) THEN r
      ELSE Owning([Keep(r, s.x, r.val) EXCEPT
                     !.params = @ \ {s.x},
                     !.immutable = IF s.mutable THEN @ \ {s.x} ELSE @ \cup {s.x}], s.x, s.value)

(* A magnet on an expression gets a variable of its own to point at.       *)
Target(s) == IF s.value.kind = "var" THEN s.value.x ELSE s.x \o "'s value"

Attachment(s, st) ==
  LET r == Eval(s.value, st)
      kept == IF s.value.kind = "var" THEN r ELSE Keep(r, Target(s), r.val)
  IN  IF Ended(r) THEN r
      ELSE Odd([Keep(kept, s.x, AttachedTo(Target(s))) EXCEPT
                  !.read_only = IF s.mutable THEN @ \ {s.x} ELSE @ \cup {s.x}],
               "parameter", Target(s) \in st.params)

Dropped(s, st) ==
  IF st.vars[s.x] = Gone \/ AttachedMagnets(st, s.x) # {} THEN Invalid(st)
  ELSE Keep(st, s.x, Gone)

Assigned(s, st) ==
  LET noted == AssignedOddly(st, s.x, s.op, s.value)
      r == Eval(s.value, noted)
      old == Behind(st, s.x)
      through == st.vars[s.x].k = "magnet"
      new == IF s.op \in {"+", "-"} THEN Combine(s.op, old, r.val, r) ELSE r
  IN  IF Ended(r) THEN r
      ELSE IF through
      THEN IF s.x \in st.read_only \/ old = Gone THEN Invalid(r)
           ELSE Odd(Keep(new, st.vars[s.x].x, new.val), "compound", s.op # "=")
      ELSE IF s.op \in {"+", "-"} /\ old = Gone THEN Invalid(r)
      ELSE Owning(Keep(new, s.x, new.val), s.x, IF s.op = "=" THEN s.value ELSE Var(s.x))

PutField(st, v, f, new) ==
  Odd([st EXCEPT !.heap[v.o].cells[Place(st, v, f)] = new], "field", AmbiguousField(f))

Stored(s, st) ==
  LET v == Behind(st, s.x)
      r == Eval(s.value, st)
      new == IF s.op \in {"+", "-"} THEN Combine(s.op, FieldOf(r, v, s.field).val, r.val, r) ELSE r
  IN  IF v = Gone THEN Invalid(st)
      ELSE IF Ended(r) THEN r
      ELSE Odd(PutField(new, v, s.field, new.val), "compound", s.op # "=")

StoredIn(s, st) ==
  LET at == Eval(s.receiver, st)
      r == Eval(s.value, at)
  IN  IF Ended(at) THEN at ELSE IF Ended(r) THEN r ELSE PutField(r, at.val, s.field, r.val)

StoredAt(s, st) ==
  LET b == Eval(s.base, st)
      i == Eval(s.index, b)
      r == Eval(s.value, i)
  IN  IF Ended(b) THEN b ELSE IF Ended(i) THEN i ELSE IF Ended(r) THEN r
      ELSE IF i.val.n >= Len(r.heap[b.val.o].cells) THEN Stop(r)
      ELSE Odd([r EXCEPT !.heap[b.val.o].cells[i.val.n + 1] = r.val], "element", TRUE)

Exec(s, st) ==
  IF Ended(st) THEN st
  ELSE CASE s.kind = "bind" -> Binding(s, st)
         [] s.kind = "magnet" -> Attachment(s, st)
         [] s.kind = "retarget" -> Odd(Attachment(s @@ [mutable |-> TRUE], st), "retarget", TRUE)
         [] s.kind = "drop" -> Dropped(s, st)
         [] s.kind = "expr" -> Eval(s.value, st)
         [] s.kind = "set" -> Assigned(s, st)
         [] s.kind = "setdot" -> Stored(s, st)
         [] s.kind = "setfield" -> StoredIn(s, st)
         [] s.kind = "setindex" -> StoredAt(s, st)

Meaning(program) ==
  Seqs!FoldLeft(LAMBDA st, s : Exec(s, st), Started(program.params, program.input), program.code)
=============================================================================
