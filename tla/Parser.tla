------------------------------- MODULE Parser -------------------------------
(***************************************************************************)
(* The recursive-descent parser of types, expressions and statements       *)
(* (src/parser/ty.rs, expr.rs, stmt.rs, pat.rs).  Each rule takes the      *)
(* tokens t and a position i and gives what it makes, where it stops, and  *)
(* whether it reported nothing; the rules call each other through f (see   *)
(* Grammar in ItemParser).  A tree is a kind, a text and its parts.  What  *)
(* the code builds up in the turns of a loop a rule gives as a sequence.   *)
(* Of the literals in expressions only integers are kept.                  *)
(***************************************************************************)
EXTENDS Lexer

CONSTANTS Names, Ints     \* the identifiers and integer literals of the texts

Node(kind, text, kids) == [kind |-> kind, text |-> text, kids |-> kids]

Leaf(kind, text) == Node(kind, text, <<>>)

Absent == Leaf("absent", "")

Result(node, at, ok) == [node |-> node, at |-> at, ok |-> ok]

Nothing(i) == Result(<<>>, i, TRUE)

Prepend(r, rest) == Result(<<r.node>> \o rest.node, rest.at, r.ok /\ rest.ok)

Tok(t, i) == IF i <= Len(t) THEN t[i] ELSE "eof"

(* skip_newlines; bump, which stays at the end; eat; expect; expect_ident. *)
RECURSIVE Skip(_, _)
Skip(t, i) == IF Tok(t, i) \in {"newline", ";"} THEN Skip(t, i + 1) ELSE i

Skipped(t, r) == [r EXCEPT !.at = Skip(t, @)]

Bump(t, i) == IF Tok(t, i) = "eof" THEN i ELSE i + 1

Eat(t, i, k) == IF Tok(t, i) = k THEN i + 1 ELSE i

Expect(t, r, k) ==
  [r EXCEPT !.at = Eat(t, @, k), !.ok = @ /\ Tok(t, r.at) = k]

Ident(t, i) ==
  IF Tok(t, i) \in Names
  THEN Result(Leaf("name", Tok(t, i)), i + 1, TRUE)
  ELSE Result(Leaf("name", ""), i, FALSE)

(* BinOp::precedence and match_binop.                                      *)
Levels == <<{"||"}, {"&&"}, {"==", "!=", "<", "<=", ">", ">="}, {"|"}, {"^"}, {"&"},
            {"<<", ">>"}, {"+", "-"}, {"*", "/", "%"}>>

BinOps == UNION {Levels[n] : n \in DOMAIN Levels}

Precedence(op) == CHOOSE n \in DOMAIN Levels : op \in Levels[n]

Expr(f, i) == f["binary", i, 1]

(* What follows an expression, one after the other around it.              *)
Around(e, more) ==
  Result(FoldLeft(LAMBDA n, s : Node(s.kind, s.text, <<n>> \o s.kids), e.node, more.node),
         more.at, e.ok /\ more.ok)

Binary(f, i, min) ==
  LET lhs == f["unary", i, 0]
  IN  Around(lhs, f["climb", lhs.at, min])

MutStrictly(t, f, i, min) ==
  LET j == Skip(t, i)
      op == Tok(t, j)
      rhs == f["binary", Skip(t, j + 1), Precedence(op)]
  IN  IF op \in BinOps /\ Precedence(op) >= min
      THEN Prepend(Result(Node("binary", op, <<rhs.node>>), rhs.at, rhs.ok),
                   f["climb", rhs.at, min])
      ELSE Nothing(j)

(* The loop of parse_binary: newlines before an operator do not count.     *)
Climb(t, f, i, min) ==
  LET j == Skip(t, i)
      op == Tok(t, j)
      rhs == f["binary", Skip(t, j + 1), Precedence(op) + 1]
  IN  IF op \in BinOps /\ Precedence(op) >= min
      THEN Prepend(Result(Node("binary", op, <<rhs.node>>), rhs.at, rhs.ok),
                   f["climb", rhs.at, min])
      ELSE Nothing(j)

Unary(t, f, i) ==
  LET op == Tok(t, i)
      mut == op = "&" /\ Tok(t, i + 1) = "!"
      operand == f["unary", IF mut THEN i + 2 ELSE i + 1, 0]
      magnet == Ident(t, i + 1)
      path == Node("path", "", <<magnet.node>>)
      prop == Ident(t, magnet.at + 1)
      primary == f["primary", i, 0]
  IN  CASE op \in {"!", "-", "&", "^"} ->
             Result(Node("unary", IF mut THEN "&!" ELSE op, <<operand.node>>),
                    operand.at, operand.ok)
        [] op = "~" /\ Tok(t, magnet.at) = "." ->
             Result(Node("meta", prop.node.text, <<path>>), prop.at, magnet.ok /\ prop.ok)
        [] op = "~" /\ Tok(t, magnet.at) # "." -> Result(path, magnet.at, magnet.ok)
        [] OTHER -> Around(primary, f["postfix", primary.at, 0])

(* One argument, which loses its name, or one element of an array.         *)
Element(t, f, i, close) ==
  LET j == Skip(t, i + 1)
  IN  IF close = ")" /\ Tok(t, i) \in Names /\ Tok(t, j) = "="
      THEN Expr(f, Skip(t, j + 1))
      ELSE Expr(f, i)

(* parse_args up to `)`; the elements of an array literal up to `]`.       *)
Elements(t, f, i, rule, close) ==
  LET e == Element(t, f, i, close)
      more == IF Tok(t, e.at) = "," THEN f[rule, Skip(t, e.at + 1), 0] ELSE Nothing(e.at)
  IN  IF Tok(t, i) = close THEN Nothing(i) ELSE Prepend(e, more)

Arguments(t, f, i) == Expect(t, Skipped(t, f["args", Skip(t, i), 0]), ")")

(* parse_named_path and parse_path_directive: a name for every dot.        *)
Dotted(t, f, i) ==
  LET name == Ident(t, i + 1)
  IN  IF Tok(t, i) = "." THEN Prepend(name, f["dotted", name.at, 0]) ELSE Nothing(i)

Path(t, f, i) ==
  LET all == Prepend(Ident(t, i), f["dotted", Ident(t, i).at, 0])
  IN  [all EXCEPT !.node = Node("path", "", @)]

(* One and then what follows it behind commas, up to `close`.              *)
Commas(t, f, one, rule, close) ==
  LET next == Skip(t, one.at + 1)
  IN  CASE Tok(t, one.at) # "," -> Prepend(one, Nothing(one.at))
        [] Tok(t, one.at) = "," /\ Tok(t, next) = close -> Prepend(one, Nothing(next))
        [] OTHER -> Prepend(one, f[rule, next, 0])

(* The constructors that are kept by their last name alone.                *)
Constructor(path, args) ==
  \/ Last(path).text \in {"Magnet", "Address", "Span", "Maybe"} /\ Len(args) = 1
  \/ Last(path).text = "Outcome" /\ Len(args) = 2

NamedType(t, f, i) ==
  LET path == Path(t, f, i)
      some == Expect(t, Skipped(t, f["types", path.at + 1, 0]), ">")
      args == IF Tok(t, path.at) = "<" THEN some ELSE Nothing(path.at)
      known == Constructor(path.node.kids, args.node)
  IN  Result(IF known THEN Node("type", Last(path.node.kids).text, args.node)
                      ELSE Node("named", "", <<path.node>> \o args.node),
             args.at, path.ok /\ args.ok)

(* An array type without a size is reported and given the size 0.          *)
ArrayType(t, f, i) ==
  LET elem == f["type", i + 1, 0]
      size == IF Tok(t, elem.at) = ";" THEN Expr(f, Skip(t, elem.at + 1))
              ELSE Result(Leaf("int", "0"), elem.at, FALSE)
  IN  Expect(t, Result(Node("array_type", "", <<elem.node, size.node>>), size.at,
                       elem.ok /\ size.ok), "]")

MutStandsStill(t, f, i) ==
  IF Tok(t, i) \in Names THEN NamedType(t, f, i) ELSE Result(Leaf("infer", "_"), i, FALSE)

(* parse_ty_prec; what is no type is consumed, so that lists move on.      *)
Type(t, f, p) ==
  LET i == Skip(t, p)
      k == Tok(t, i)
      mut == k = "&" /\ Tok(t, i + 1) = "!"
      inner == f["type", IF mut THEN i + 2 ELSE i + 1, 0]
      elems == Expect(t, Skipped(t, f["elems", i + 1, 0]), ")")
  IN  CASE k = "&" -> Result(Node("borrow", IF mut THEN "&!" ELSE "&", <<inner.node>>),
                             inner.at, inner.ok)
        [] k = "self" -> Result(Leaf("self_type", "Self"), i + 1, TRUE)
        [] k = "[" -> ArrayType(t, f, i)
        [] k = "(" /\ Tok(t, Skip(t, i + 1)) = ")" ->
             Result(Leaf("unit_type", "Unit"), Skip(t, i + 1) + 1, TRUE)
        [] k = "(" /\ Tok(t, Skip(t, i + 1)) # ")" ->
             Result(Node("tuple", "", elems.node), elems.at, elems.ok)
        [] k \in Names -> NamedType(t, f, i)
        [] OTHER -> Result(Leaf("infer", "_"), Bump(t, i), FALSE)

(* What is between `[` and `]` behind an expression: an index or a slice.  *)
Bracketed(t, f, i) ==
  LET none == Result(Absent, i, TRUE)
      lo == IF Tok(t, i) = ".." THEN none ELSE Expr(f, i)
      past == Skip(t, lo.at + 1)
      hi == IF Tok(t, past) = "]" THEN [none EXCEPT !.at = past] ELSE Expr(f, past)
  IN  IF Tok(t, lo.at) = ".."
      THEN Expect(t, Result(Node("slice", "", <<lo.node, hi.node>>), hi.at, lo.ok /\ hi.ok), "]")
      ELSE Expect(t, Result(Node("index", "", <<lo.node>>), lo.at, lo.ok), "]")

(* The loop of parse_postfix.                                              *)
Postfix(t, f, i) ==
  LET k == Tok(t, i)
      meta == k = "." /\ Tok(t, i + 1) = "~"
      name == Ident(t, IF meta THEN i + 2 ELSE i + 1)
      call == k = "." /\ ~meta /\ Tok(t, name.at) = "("
      args == Arguments(t, f, IF call THEN name.at + 1 ELSE i + 1)
      inside == Bracketed(t, f, Skip(t, i + 1))
      target == f["type", i + 1, 0]
      Made(kind, text, kids, at, ok) ==
        Prepend(Result(Node(kind, text, kids), at, ok), f["postfix", at, 0])
  IN  CASE call -> Made("method", name.node.text, args.node, args.at, name.ok /\ args.ok)
        [] k = "." /\ ~call ->
             Made(IF meta THEN "meta" ELSE "field", name.node.text, <<>>, name.at, name.ok)
        [] k = "[" -> Made(inside.node.kind, "", inside.node.kids, inside.at, inside.ok)
        [] k = "(" -> Made("call", "", args.node, args.at, args.ok)
        [] k = ":>" -> Made("cast", "", <<target.node>>, target.at, target.ok)
        [] k = "?" -> Made("try", "", <<>>, i + 1, TRUE)
        [] OTHER -> Nothing(i)

(* parse_value_path: a dotted name takes every `.name` that follows.       *)
Segments(t, f, i) ==
  IF Tok(t, i) = "." /\ Tok(t, i + 1) \in Names
  THEN Prepend(Ident(t, i + 1), f["segments", i + 2, 0])
  ELSE Nothing(i)

Primary(t, f, i) ==
  LET k == Tok(t, i)
      path == Prepend(Ident(t, i), f["segments", i + 1, 0])
      variant == IF Tok(t, i + 1) = "none"
                 THEN Result(Leaf("name", "none"), i + 2, TRUE)
                 ELSE Ident(t, i + 1)
      payload == IF Tok(t, variant.at) = "("
                 THEN Arguments(t, f, variant.at + 1)
                 ELSE Nothing(variant.at)
      inner == Skip(t, i + 1)
      paren == Expr(f, inner)
      close == Expect(t, Skipped(t, [paren EXCEPT !.node = <<@>>]), ")")
      array == Expect(t, Skipped(t, f["items", inner, 0]), "]")
  IN  CASE k \in Ints -> Result(Leaf("int", k), i + 1, TRUE)
        [] k \in {"none", "self", "true", "false"} -> Result(Leaf("word", k), i + 1, TRUE)
        [] k \in Names -> Result(Node("path", "", path.node), path.at, TRUE)
        [] k = "." -> Result(Node("variant", variant.node.text, payload.node), payload.at,
                             variant.ok /\ payload.ok)
        [] k = "(" /\ Tok(t, inner) = ")" -> Result(Leaf("word", "unit"), inner + 1, TRUE)
        [] k = "(" /\ Tok(t, inner) # ")" ->
             Result(Node("paren", "", close.node), close.at, close.ok)
        [] k = "[" -> Result(Node("array", "", array.node), array.at, array.ok)
        [] OTHER -> Result(Leaf("word", "unit"), Bump(t, i), FALSE)
-----------------------------------------------------------------------------
(* parse_pat, and parse_pat_bind for what a variant binds.                 *)
PatBinds(t, f, i) ==
  LET b == Ident(t, i)
      comma == Tok(t, b.at) = ","
      next == Skip(t, b.at + 1)
  IN  IF comma /\ Tok(t, next) # ")"
      THEN Prepend(b, f["binds", next, 0])
      ELSE Prepend(b, Nothing(IF comma THEN next ELSE Skip(t, b.at)))

Pattern(t, f, i) ==
  LET k == Tok(t, i)
      variant == Ident(t, i + 1)
      first == Skip(t, variant.at + 1)
      binds == Expect(t, IF Tok(t, first) = ")" THEN Nothing(first) ELSE f["binds", first, 0], ")")
  IN  CASE k = "." /\ Tok(t, i + 1) = "none" -> Result(Leaf("variant_pat", "none"), i + 2, TRUE)
        [] k = "." /\ Tok(t, i + 1) # "none" /\ Tok(t, variant.at) = "(" ->
             Result(Node("bind_pat", variant.node.text, binds.node), binds.at,
                    variant.ok /\ binds.ok)
        [] k = "." /\ Tok(t, i + 1) # "none" /\ Tok(t, variant.at) # "(" ->
             Result(Leaf("variant_pat", variant.node.text), variant.at, variant.ok)
        [] k \in Names \cup Ints -> Result(Leaf("name_pat", k), i + 1, TRUE)
        [] OTHER -> Result(Leaf("name_pat", "_"), Bump(t, i), FALSE)

BlockEnds == {"finish", "else", "eof"}

(* parse_block_body.                                                       *)
Stmts(t, f, i) ==
  LET j == Skip(t, i)
      s == f["stmt", j, 0]
  IN  IF Tok(t, j) \in BlockEnds THEN Nothing(j) ELSE Prepend(s, f["stmts", s.at, 0])

Block(f, i) ==
  LET all == f["stmts", i, 0]
  IN  [all EXCEPT !.node = Node("block", "", @)]

(* One statement as a block of its own.                                    *)
Alone(f, i) ==
  LET s == f["stmt", i, 0]
  IN  [s EXCEPT !.node = Node("block", "", IF @ = Absent THEN <<>> ELSE <<@>>)]

(* `will` and the statements behind an expression.                         *)
Will(t, f, r) ==
  LET w == Expect(t, Skipped(t, r), "will")
      b == Block(f, w.at)
  IN  [b EXCEPT !.ok = @ /\ w.ok]

WillFinish(t, f, r) == Expect(t, Will(t, f, r), "finish")

(* parse_owner_binding and parse_magnet_binding.                           *)
Binding(t, f, i) ==
  LET name == Ident(t, i + 1)
      ty == IF Tok(t, name.at) = ":"
            THEN f["type", name.at + 1, 0]
            ELSE Result(Absent, name.at, TRUE)
      eq == Expect(t, Skipped(t, ty), "=")
      value == Expr(f, Skip(t, eq.at))
  IN  Result(Node("binding", Tok(t, i), <<name.node, ty.node, value.node>>), value.at,
             name.ok /\ eq.ok /\ value.ok)

(* The loop of parse_if: conditions and blocks in turn, then the else, a   *)
(* block after `will` or else one statement.                               *)
Branches(t, f, i) ==
  LET j == Skip(t, i)
      k == Skip(t, j + 1)
      cond == Expr(f, Skip(t, k + 1))
      body == Will(t, f, cond)
      last == IF Tok(t, k) = "will" THEN Block(f, k + 1) ELSE Alone(f, k)
  IN  CASE Tok(t, j) # "else" -> Nothing(j)
        [] Tok(t, j) = "else" /\ Tok(t, k) = "if" ->
             Prepend(cond, Prepend(body, f["branches", body.at, 0]))
        [] OTHER -> Prepend(last, Nothing(last.at))

If(t, f, i) ==
  LET cond == Expr(f, Skip(t, i + 1))
      body == Will(t, f, cond)
      all == Expect(t, Prepend(cond, Prepend(body, f["branches", body.at, 0])), "finish")
  IN  [all EXCEPT !.node = Node("if", "", @)]

(* The loop of parse_match, with parse_arm_body.                           *)
Guard(t, f, i) ==
  IF Tok(t, i) = "if" THEN Expr(f, i + 1) ELSE Result(Absent, i, TRUE)

ArmBody(t, f, i) ==
  LET block == Block(f, i + 1)
  IN  IF Tok(t, i) = "will" THEN [block EXCEPT !.at = Eat(t, @, "finish")] ELSE Alone(f, i)

Arms(t, f, i) ==
  LET j == Skip(t, i)
      pat == f["pattern", j, 0]
      guard == Guard(t, f, Skip(t, pat.at))
      arrow == Expect(t, Skipped(t, guard), "=>")
      body == ArmBody(t, f, Skip(t, arrow.at))
      arm == Result(Node("arm", "", <<pat.node, guard.node, body.node>>), body.at,
                    pat.ok /\ arrow.ok /\ body.ok)
  IN  IF Tok(t, j) \in {"finish", "eof"}
      THEN Nothing(j)
      ELSE Prepend(arm, f["arms", arm.at, 0])

Match(t, f, i) ==
  LET scrutinee == Expr(f, Skip(t, i + 1))
      will == Expect(t, Skipped(t, scrutinee), "will")
      all == Expect(t, Prepend(will, f["arms", will.at, 0]), "finish")
  IN  [all EXCEPT !.node = Node("match", "", @)]

(* parse_for, with the range its iterator may be.                          *)
Iterator(t, f, i) ==
  LET lo == Expr(f, i)
      hi == Expr(f, Skip(t, lo.at + 1))
  IN  IF Tok(t, lo.at) = ".."
      THEN Result(Node("range", "", <<lo.node, hi.node>>), hi.at, lo.ok /\ hi.ok)
      ELSE lo

For(t, f, i) ==
  LET k == Tok(t, i)
      mode == CASE k = "&" -> "&!" [] k = "^" -> "^" [] OTHER -> ""
      start == CASE k = "&" -> Eat(t, i + 1, "!") [] k = "^" -> i + 1 [] OTHER -> i
      pat == f["pattern", start, 0]
      in == Expect(t, Skipped(t, pat), "in")
      iter == Iterator(t, f, Skip(t, in.at))
      body == WillFinish(t, f, iter)
  IN  Result(Node("for", mode, <<pat.node, iter.node, body.node>>), body.at,
             in.ok /\ body.ok)

AssignOps == {"=", "+=", "-=", "*=", "/=", "%=", "&=", "|=", "^="}

(* parse_expr_or_assignment.                                               *)
ExprOrAssignment(t, f, i) ==
  LET e == Expr(f, i)
      j == Skip(t, e.at)
      op == Tok(t, j)
      value == Expr(f, Skip(t, j + 1))
  IN  CASE op = "!" -> Result(Node("drop", "", <<e.node>>), j + 1, e.ok)
        [] op \in AssignOps \cup {"->"} ->
             Result(Node("assign", op, <<e.node, value.node>>), value.at, e.ok /\ value.ok)
        [] OTHER -> Result(Node("expr", "", <<e.node>>), j, e.ok)

(* parse_stmt.                                                             *)
Stmt(t, f, p) ==
  LET i == Skip(t, p)
      k == Tok(t, i)
      cond == Expr(f, Skip(t, i + 1))
      while == WillFinish(t, f, cond)
      \* `loop` and `raw` want their `will` on the line they are on
      here == Expect(t, Result(Absent, i + 1, TRUE), "will")
      body == Expect(t, Block(f, here.at), "finish")
      value == Expr(f, i + 1)
  IN  CASE k \in BlockEnds -> Result(Absent, i, TRUE)
        [] k \in {":", "::", "~", "~!"} -> Binding(t, f, i)
        [] k = "if" -> If(t, f, i)
        [] k = "while" -> Result(Node("while", "", <<cond.node, while.node>>), while.at, while.ok)
        [] k \in {"loop", "raw"} -> Result(Node(k, "", <<body.node>>), body.at,
                                           here.ok /\ body.ok)
        [] k = "for" -> For(t, f, Skip(t, i + 1))
        [] k = "match" -> Match(t, f, i)
        [] k = "return" /\ Tok(t, i + 1) \in {"newline", ";", "eof", "finish"} ->
             Result(Leaf("return", ""), i + 1, TRUE)
        [] k = "return" /\ Tok(t, i + 1) \notin {"newline", ";", "eof", "finish"} ->
             Result(Node("return", "", <<value.node>>), value.at, value.ok)
        [] k \in {"break", "continue"} -> Result(Leaf(k, ""), i + 1, TRUE)
        [] OTHER -> ExprOrAssignment(t, f, i)
=============================================================================
