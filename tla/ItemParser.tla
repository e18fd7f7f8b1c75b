----------------------------- MODULE ItemParser -----------------------------
(***************************************************************************)
(* The parser of whole files: directives, declarations and what it skips   *)
(* when a line begins with neither (src/parser/mod.rs, directive.rs,       *)
(* item.rs).                                                               *)
(***************************************************************************)
EXTENDS Parser

CONSTANT Strings    \* the string literals of the texts: what is in them, by token

(* eat_separator.                                                          *)
Separated(t, r) ==
  IF Tok(t, r.at) \in {";", "newline"} THEN [r EXCEPT !.at = Skip(t, @ + 1)]
  ELSE [r EXCEPT !.ok = @ /\ Tok(t, r.at) \in {"finish", "else", "eof"}]

(* A loop that comes back to where it was never ends.                      *)
Endless(t, rule) == Result(<<Leaf("endless", rule)>>, Len(t), FALSE)

(* The loop over the members of a declaration, up to its `finish`.         *)
Members(t, f, i, rule, one) ==
  IF Tok(t, i) \in {"finish", "eof"} THEN Nothing(i)
  ELSE IF one.at = i THEN Endless(t, rule)
  ELSE Prepend(one, f[rule, one.at, 0])

(* `(`, a list that may be empty, `)`, where there is a `(`.               *)
Enclosed(t, f, i, rule) ==
  LET j == Skip(t, i + 1)
      list == IF Tok(t, j) = ")" THEN Nothing(j) ELSE f[rule, j, 0]
  IN  IF Tok(t, i) = "(" THEN Expect(t, Skipped(t, list), ")") ELSE Nothing(i)

(* parse_generic_params; a bound is read and forgotten, and only behind a  *)
(* name that is not the first.                                             *)
GenericNames(t, f, i, n) ==
  LET name == Ident(t, i)
      bound == f["type", name.at + 1, 0]
      end == IF n > 0 /\ Tok(t, name.at) = ":"
             THEN [bound EXCEPT !.node = name.node, !.ok = @ /\ name.ok]
             ELSE name
  IN  IF Tok(t, end.at) = "," THEN Prepend(end, f["generics", Skip(t, end.at + 1), 1])
      ELSE Prepend(end, Nothing(end.at))

Generics(t, f, i) ==
  LET j == Skip(t, i + 1)
      names == IF Tok(t, j) = ">" THEN Nothing(j) ELSE f["generics", j, 0]
      all == IF Tok(t, i) = "<" THEN Expect(t, Skipped(t, names), ">") ELSE Nothing(i)
  IN  [all EXCEPT !.node = Node("generics", "", @)]

(* parse_attr and parse_attr_arg; an argument keeps only what it says.     *)
AttrArg(t, i) ==
  LET k == Tok(t, i)
  IN  CASE k \in Names \cup Ints -> Result(Leaf("attr_arg", k), i + 1, TRUE)
        [] k \in DOMAIN Strings -> Result(Leaf("attr_arg", Strings[k]), i + 1, TRUE)
        [] OTHER -> Result(Leaf("attr_arg", ""), i, FALSE)

Attrs(t, f, i) ==
  LET name == Ident(t, i + 1)
      args == Enclosed(t, f, name.at, "attr_args")
      attr == Result(Node("attr", name.node.text, args.node), args.at, name.ok /\ args.ok)
  IN  IF Tok(t, i) = "@" THEN Prepend(attr, f["attrs", attr.at, 0]) ELSE Nothing(i)

(* parse_param.  A missing name is not reported, and `self` is a keyword:  *)
(* behind a prefix it is no name.                                          *)
Param(t, f, i) ==
  LET k == Tok(t, i)
      mut == k = "&" /\ Tok(t, i + 1) = "!"
      mode == IF mut THEN "&!" ELSE IF k \in {"&", "^", "self"} THEN k ELSE ""
      j == CASE mode = "" -> i [] mode = "&!" -> i + 2 [] OTHER -> i + 1
      named == mode # "self" /\ Tok(t, j) \in Names
      name == IF named THEN Tok(t, j) ELSE IF mode = "self" THEN "self" ELSE ""
      at == IF named THEN j + 1 ELSE j
      colon == Expect(t, Result(Leaf("name", name), at, TRUE), ":")
      ty == f["type", colon.at, 0]
  IN  Result(Node("param", mode, <<colon.node, ty.node>>), ty.at, colon.ok /\ ty.ok)

(* parse_action_sig_with.                                                  *)
Sig(t, f, i) ==
  LET first == Ident(t, i)
      method == Ident(t, first.at + 1)
      dotted == Tok(t, first.at) = "."
      name == IF dotted THEN method ELSE first
      params == Enclosed(t, f, Skip(t, name.at), "params")
      ret == IF Tok(t, params.at) = ":" THEN f["type", params.at + 1, 0]
             ELSE Result(Absent, params.at, TRUE)
  IN  Result(Node("sig", name.node.text,
                  <<IF dotted THEN first.node ELSE Absent,
                    Node("params", "", params.node), ret.node>>),
             ret.at, first.ok /\ name.ok /\ params.ok /\ ret.ok)

(* parse_action takes one token for the keyword `action`.                  *)
Action(t, f, i) ==
  LET sig == f["sig", Bump(t, i), 0]
      b == Expect(t, Block(f, sig.at + 1), "finish")
      body == IF Tok(t, sig.at) = "will" THEN b ELSE Result(Absent, sig.at, TRUE)
  IN  Result(Node("action", "", <<sig.node, body.node>>), body.at, sig.ok /\ body.ok)

-----------------------------------------------------------------------------
(* The members of shapes, choices, abilities, implementations and foreign  *)
(* blocks.                                                                 *)
Field(t, f, i) ==
  LET name == Ident(t, i)
      colon == Expect(t, name, ":")
      ty == f["type", Skip(t, colon.at), 0]
  IN  Separated(t, Result(Node("member", name.node.text, <<ty.node>>), ty.at, colon.ok /\ ty.ok))

PayloadField(t, f, i) ==
  LET colon == Expect(t, Ident(t, i), ":")
      ty == f["type", colon.at, 0]
  IN  Result(Node("payload", colon.node.text, <<ty.node>>), ty.at, colon.ok /\ ty.ok)

Variant(t, f, i) ==
  LET name == Ident(t, i)
      payload == Enclosed(t, f, name.at, "payload")
      kids == IF Tok(t, name.at) = "(" THEN <<Node("fields", "", payload.node)>> ELSE <<>>
  IN  Separated(t, Result(Node("member", name.node.text, kids), payload.at, name.ok /\ payload.ok))

AbilityAction(t, f, i) ==
  LET act == Expect(t, Nothing(i), "action")
      sig == f["sig", act.at, 0]
  IN  Separated(t, [sig EXCEPT !.ok = @ /\ act.ok])

(* The keyword is gone when parse_action takes another token for it.       *)
ImplAction(t, f, i) ==
  LET act == Expect(t, Nothing(i), "action")
      a == f["action", act.at, 0]
  IN  [a EXCEPT !.ok = @ /\ act.ok]

(* `@link("name")` before a foreign action.                                *)
Link(t, i) ==
  LET name == Ident(t, i + 1)
      open == Expect(t, name, "(")
      j == Skip(t, open.at)
      text == IF Tok(t, j) \in DOMAIN Strings
              THEN Result(Leaf("link", Strings[Tok(t, j)]), Skip(t, j + 1), open.ok)
              ELSE Result(Absent, j, open.ok)
  IN  CASE Tok(t, i) # "@" -> Result(Absent, i, TRUE)
        [] Tok(t, i) = "@" /\ name.node.text = "link" -> Expect(t, text, ")")
        [] OTHER -> [name EXCEPT !.node = Absent]

ForeignAction(t, f, i) ==
  LET link == Link(t, i)
      raw == Tok(t, link.at) = "raw"
      act == Expect(t, [link EXCEPT !.at = Eat(t, @, "raw")], "action")
      sig == f["sig", act.at, 0]
  IN  Separated(t, Result(Node("foreign_action", IF raw THEN "raw" ELSE "", <<sig.node, link.node>>),
                          sig.at, act.ok /\ sig.ok))

(* `will`, the members, `finish`.                                          *)
Membered(t, f, r, rule) ==
  LET will == Expect(t, Skipped(t, r), "will")
      all == Expect(t, f[rule, will.at, 0], "finish")
  IN  [all EXCEPT !.ok = @ /\ will.ok]

Declared(t, f, i, rule) ==
  LET name == Ident(t, i + 1)
      generics == f["generic_list", name.at, 0]
      all == Membered(t, f, generics, rule)
  IN  Result(Node(rule, name.node.text, <<generics.node>> \o all.node), all.at,
             name.ok /\ generics.ok /\ all.ok)

(* parse_impl: of the ability only its path is kept, if it has one.        *)
Impl(t, f, i) ==
  LET first == f["type", i + 1, 0]
      other == f["type", first.at + 1, 0]
      for == Tok(t, first.at) = "for"
      target == IF for THEN other ELSE first
      ability == IF for /\ first.node.kind = "named" THEN first.node.kids[1] ELSE Absent
      generics == f["generic_list", target.at, 0]
      all == Membered(t, f, generics, "impls")
  IN  Result(Node("impls", "", <<ability, target.node, generics.node>> \o all.node), all.at,
             first.ok /\ target.ok /\ generics.ok /\ all.ok)

Foreign(t, f, i) ==
  LET abi == Ident(t, i + 1)
      j == Skip(t, abi.at + 1)
      name == IF Tok(t, j) \in DOMAIN Strings
              THEN Result(Leaf("string", Tok(t, j)), j + 1, TRUE) ELSE Result(Absent, j, TRUE)
      lib == IF Tok(t, abi.at) = "(" THEN Expect(t, Skipped(t, name), ")")
             ELSE Result(Absent, abi.at, TRUE)
      all == Membered(t, f, lib, "foreigns")
  IN  Result(Node("foreigns", abi.node.text, <<lib.node>> \o all.node), all.at,
             abi.ok /\ lib.ok /\ all.ok)

Keywords == {"shape", "choice", "ability", "implement", "action", "foreign"}

Declaration(t, f, i) ==
  CASE Tok(t, i) = "shape" -> Declared(t, f, i, "shapes")
    [] Tok(t, i) = "choice" -> Declared(t, f, i, "choices")
    [] Tok(t, i) = "ability" -> Declared(t, f, i, "abilities")
    [] Tok(t, i) = "implement" -> Impl(t, f, i)
    [] Tok(t, i) = "action" -> f["action", i, 0]
    [] Tok(t, i) = "foreign" -> Foreign(t, f, i)

-----------------------------------------------------------------------------
(* parse_directive.                                                        *)
StringArg(t, i) ==
  IF Tok(t, i) \in DOMAIN Strings THEN Result(Leaf("string", Tok(t, i)), i + 1, TRUE)
  ELSE Result(Leaf("string", ""), i, FALSE)

(* The segments of an import, each of which takes line ends along.         *)
ImportPath(t, f, i) ==
  LET name == Ident(t, i + 1)
      seg == Skipped(t, name)
  IN  IF Tok(t, i) = "." THEN Prepend(seg, f["import", seg.at, 0]) ELSE Nothing(i)

Import(t, f, name) ==
  LET path == f["import", name.at, 0]
      as == Skip(t, path.at)
      alias == Ident(t, Skip(t, as + 1))
      node == Node("path", "", <<name.node>> \o path.node)
  IN  IF Tok(t, as) = "as"
      THEN Result(<<node, alias.node>>, alias.at, path.ok /\ alias.ok)
      ELSE Result(<<node, Absent>>, path.at, path.ok)

Directive(t, f, i) ==
  LET word == Ident(t, i + 1)
      name == Skipped(t, word)
      kind == name.node.text
      arg == CASE kind \in {"module", "depends"} -> Path(t, f, name.at)
               [] kind \in {"header", "source", "link"} -> StringArg(t, name.at)
               [] kind \in {"cfg", "target"} -> Ident(t, name.at)
      import == Import(t, f, name)
  IN  IF kind \in {"module", "depends", "header", "source", "link", "cfg", "target"}
      THEN Result(Node("directive", kind, <<arg.node>>), arg.at, arg.ok)
      ELSE Result(Node("import", "", import.node), import.at, name.ok /\ import.ok)

(* synchronize_top: behind the line end before something that begins a     *)
(* declaration or directive.                                               *)
RECURSIVE Synchronized(_, _)
Synchronized(t, i) ==
  LET past == Bump(t, i)
      begins == Tok(t, past) \in Keywords \cup {"export", "#", "@", "eof"}
  IN  IF Tok(t, i) = "eof" \/ (Tok(t, i) = "newline" /\ begins) THEN past
      ELSE Synchronized(t, past)

MutSynchronizes(t, f, i) ==
  LET attrs == f["attrs", i, 0]
      j == Eat(t, attrs.at, "export")
      decl == f["decl", j, 0]
      item == Node("item", IF j = attrs.at THEN "" ELSE "export",
                   <<Node("attrs", "", attrs.node), decl.node>>)
  IN  IF Tok(t, j) \in Keywords
      THEN Result(<<item>>, Synchronized(t, decl.at), attrs.ok /\ decl.ok)
      ELSE Result(<<>>, Synchronized(t, Synchronized(t, j)), FALSE)

(* parse_item, with what parse does when there is none: both synchronize.  *)
Item(t, f, i) ==
  LET attrs == f["attrs", i, 0]
      j == Eat(t, attrs.at, "export")
      decl == f["decl", j, 0]
      item == Node("item", IF j = attrs.at THEN "" ELSE "export",
                   <<Node("attrs", "", attrs.node), decl.node>>)
  IN  IF Tok(t, j) \in Keywords THEN Result(<<item>>, decl.at, attrs.ok /\ decl.ok)
      ELSE Result(<<>>, Synchronized(t, Synchronized(t, j)), FALSE)

(* parse: directives and items as they come.                               *)
Tops(t, f, p) ==
  LET i == Skip(t, p)
      directive == f["directive", i, 0]
      item == f["item", i, 0]
      one == IF Tok(t, i) = "#" THEN [directive EXCEPT !.node = <<@>>] ELSE item
      rest == f["tops", one.at, 0]
  IN  IF Tok(t, i) = "eof" THEN Nothing(i)
      ELSE Result(one.node \o rest.node, rest.at, one.ok /\ rest.ok)

-----------------------------------------------------------------------------
Rules == {"binary", "climb", "unary", "postfix", "primary", "segments", "args", "items",
          "binds", "pattern", "stmt", "stmts", "branches", "arms", "type", "types", "elems",
          "dotted", "generics", "generic_list", "attrs", "attr_args", "params", "payload",
          "sig", "action", "shapes", "choices", "abilities", "impls", "foreigns", "decl",
          "item", "import", "directive", "tops"}

(* What every rule makes of the tokens t at every position; n is the least *)
(* precedence a binary expression takes, and 0 for the first of a list.    *)
Grammar(t) ==
  LET f[rule \in Rules, i \in 1 .. Len(t) + 2, n \in 0 .. Len(Levels) + 1] ==
        LET j == Skip(t, i)
        IN
        CASE rule = "binary" -> Binary(f, i, n)
          [] rule = "climb" -> Climb(t, f, i, n)
          [] rule = "unary" -> Unary(t, f, i)
          [] rule = "postfix" -> Postfix(t, f, i)
          [] rule = "primary" -> Primary(t, f, i)
          [] rule = "segments" -> Segments(t, f, i)
          [] rule = "args" -> Elements(t, f, i, "args", ")")
          [] rule = "items" -> Elements(t, f, i, "items", "]")
          [] rule = "binds" -> PatBinds(t, f, i)
          [] rule = "pattern" -> Pattern(t, f, i)
          [] rule = "stmt" -> Stmt(t, f, i)
          [] rule = "stmts" -> Stmts(t, f, i)
          [] rule = "branches" -> Branches(t, f, i)
          [] rule = "arms" -> Arms(t, f, i)
          [] rule = "type" -> Type(t, f, i)
          [] rule = "types" -> Commas(t, f, f["type", i, 0], rule, ">")
          [] rule = "elems" -> Commas(t, f, f["type", i, 0], rule, ")")
          [] rule = "dotted" -> Dotted(t, f, i)
          [] rule = "generics" -> GenericNames(t, f, i, n)
          [] rule = "generic_list" -> Generics(t, f, i)
          [] rule = "attrs" -> Attrs(t, f, i)
          [] rule = "attr_args" -> Commas(t, f, AttrArg(t, i), rule, ")")
          [] rule = "params" -> Commas(t, f, Param(t, f, i), rule, ")")
          [] rule = "payload" -> Commas(t, f, PayloadField(t, f, i), rule, ")")
          [] rule = "sig" -> Sig(t, f, i)
          [] rule = "action" -> Action(t, f, i)
          [] rule = "shapes" -> Members(t, f, j, rule, Field(t, f, j))
          [] rule = "choices" -> Members(t, f, j, rule, Variant(t, f, j))
          [] rule = "abilities" -> Members(t, f, j, rule, AbilityAction(t, f, j))
          [] rule = "impls" -> Members(t, f, j, rule, ImplAction(t, f, j))
          [] rule = "foreigns" -> Members(t, f, j, rule, ForeignAction(t, f, j))
          [] rule = "decl" -> Declaration(t, f, i)
          [] rule = "item" -> Item(t, f, i)
          [] rule = "directive" -> Directive(t, f, i)
          [] rule = "import" -> ImportPath(t, f, i)
          [] rule = "tops" -> Tops(t, f, i)
  IN  f

(* parse: a file's directives, its items, and whether nothing is reported. *)
File(t) ==
  LET all == Grammar(t)["tops", 1, 0]
      directives == {"directive", "import"}
  IN  [all EXCEPT !.node = Node("module", "",
         <<Node("directives", "", SelectSeq(@, LAMBDA n : n.kind \in directives)),
           Node("items", "", SelectSeq(@, LAMBDA n : n.kind \notin directives))>>)]
=============================================================================
