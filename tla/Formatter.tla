----------------------------- MODULE Formatter -----------------------------
(***************************************************************************)
(* `avera fmt` (src/fmt/mod.rs, src/driver_pipeline/mod.rs) run again and  *)
(* again on one file: the text is lexed, parsed and written back from the  *)
(* tree, whatever the parser reported.  Indentation is only spaces and is  *)
(* left out.                                                               *)
(***************************************************************************)
EXTENDS ItemParser

CONSTANTS
  Originals,  \* the files fmt may be given: what stands below each other as
              \* `parts`, between the text `open` and the text `close`
  Rounds      \* how often fmt is run

VARIABLES
  source,     \* the file as it was written, never changed
  texts,      \* the file's contents over time
  tokens,     \* what the lexer made of the last
  trees,      \* what the parser made of each
  phase       \* "lex", "parse", "write" or "done"

vars == <<source, texts, tokens, trees, phase>>

Spaced(s) == <<" ">> \o s \o <<" ">>

RECURSIVE Written(_), Line(_), Joined(_, _)

(* Vec::join.                                                              *)
Joined(parts, sep) ==
  CASE parts = <<>> -> <<>>
    [] Len(parts) = 1 -> Written(parts[1])
    [] OTHER -> Written(parts[1]) \o sep \o Joined(Tail(parts), sep)

List(open, parts, close) == <<open>> \o Joined(parts, <<",", " ">>) \o <<close>>

(* format_expr and format_pat.                                             *)
Written(e) ==
  LET k == e.kids
      dot == <<".", e.text>>
  IN  CASE e.kind = "word" /\ e.text = "unit" -> <<"(", ")">>
        [] e.kind = "word" /\ e.text # "unit" -> <<e.text>>
        [] e.kind \in {"int", "name", "name_pat", "self_type", "unit_type", "infer", "string",
                        "attr_arg"} -> <<e.text>>
        [] e.kind = "type" -> <<e.text>> \o List("<", k, ">")
        [] e.kind = "named" ->
             Written(k[1]) \o (IF Len(k) = 1 THEN <<>> ELSE List("<", Tail(k), ">"))
        [] e.kind = "borrow" -> (IF e.text = "&" THEN <<"&">> ELSE <<"&", "!">>) \o Written(k[1])
        [] e.kind = "array_type" -> <<"[">> \o Joined(k, <<";", " ">>) \o <<"]">>
        [] e.kind = "tuple" -> List("(", k, ")")
        [] e.kind = "absent" -> <<>>
        [] e.kind = "path" -> Joined(k, <<".">>)
        [] e.kind = "variant" -> dot \o List("(", k, ")")
        [] e.kind = "variant_pat" -> dot
        [] e.kind = "bind_pat" -> dot \o List("(", k, ")")
        [] e.kind = "unary" /\ e.text = "&!" -> <<"&", "!">> \o Written(k[1])
        [] e.kind = "unary" /\ e.text # "&!" -> <<e.text>> \o Written(k[1])
        [] e.kind = "binary" -> Written(k[1]) \o Spaced(<<e.text>>) \o Written(k[2])
        [] e.kind = "array" -> List("[", k, "]")
        [] e.kind = "call" -> Written(k[1]) \o List("(", Tail(k), ")")
        [] e.kind = "method" -> Written(k[1]) \o dot \o List("(", Tail(k), ")")
        [] e.kind = "field" -> Written(k[1]) \o dot
        [] e.kind = "index" -> Written(k[1]) \o List("[", Tail(k), "]")
        [] e.kind = "slice" -> Written(k[1]) \o <<"[">> \o Joined(Tail(k), <<"..">>) \o <<"]">>
        [] e.kind = "range" -> Joined(k, <<"..">>)
        [] e.kind = "cast" -> Joined(k, Spaced(<<":>">>))
        [] e.kind = "try" -> Written(k[1]) \o <<"?">>
        [] e.kind = "meta" -> <<"~">> \o Written(k[1]) \o dot
        [] e.kind = "paren" -> List("(", k, ")")

Lines(stmts) == FlattenSeq([n \in DOMAIN stmts |-> Line(stmts[n])])

Opening(word, e) == <<word, " ">> \o Written(e) \o <<" ", "will", "eol">>

MutNoElse(k, b) == Opening("if", k[2 * b - 1])

(* The line that opens the b-th branch of an if.                           *)
BranchHead(k, b) ==
  (IF b = 1 THEN <<>> ELSE <<"else", " ">>) \o Opening("if", k[2 * b - 1])

IfLines(k) ==
  LET n == Len(k) \div 2
      last == IF Len(k) = 2 * n THEN <<>> ELSE <<"else", "eol">> \o Lines(k[Len(k)].kids)
  IN  FlattenSeq([b \in 1..n |-> BranchHead(k, b) \o Lines(k[2 * b].kids)]) \o last

ArmLines(arm) ==
  LET guard == arm.kids[2]
  IN  Written(arm.kids[1]) \o
      (IF guard = Absent THEN <<>> ELSE <<" ", "if", " ">> \o Written(guard)) \o
      <<" ", "=>", "eol">> \o Lines(arm.kids[3].kids)

(* format_stmt.                                                            *)
Line(s) ==
  LET k == s.kids
      end == <<"finish", "eol">>
      typed == IF k[2] = Absent THEN <<>> ELSE <<":", " ">> \o Written(k[2])
  IN  CASE s.kind = "binding" ->
             <<s.text>> \o Written(k[1]) \o typed \o Spaced(<<"=">>) \o Written(k[3]) \o <<"eol">>
        [] s.kind = "assign" -> Joined(k, Spaced(<<s.text>>)) \o <<"eol">>
        [] s.kind = "drop" -> Written(k[1]) \o <<"!", "eol">>
        [] s.kind = "expr" -> Written(k[1]) \o <<"eol">>
        [] s.kind = "return" -> <<"return", " ">> \o Joined(k, <<>>) \o <<"eol">>
        [] s.kind \in {"break", "continue"} -> <<s.kind, "eol">>
        [] s.kind = "if" -> IfLines(k) \o end
        [] s.kind = "while" -> Opening("while", k[1]) \o Lines(k[2].kids) \o end
        [] s.kind \in {"loop", "raw"} -> <<s.kind, " ", "will", "eol">> \o Lines(k[1].kids) \o end
        [] s.kind = "for" ->
             <<"for", " ">> \o (CASE s.text = "" -> <<>> [] s.text = "^" -> <<"^">>
                                  [] s.text = "&!" -> <<"&", "!">>) \o
             Written(k[1]) \o Spaced(<<"in">>) \o Written(k[2]) \o <<" ", "will", "eol">> \o
             Lines(k[3].kids) \o end
        [] s.kind = "match" ->
             Opening("match", k[1]) \o
             FlattenSeq([n \in 1..(Len(k) - 1) |-> ArmLines(k[n + 1])]) \o end
-----------------------------------------------------------------------------
(* format_sig and format_param: a name and a type.                         *)
Typed(name, ty) == name \o <<":", " ">> \o Written(ty)

SigText(s) ==
  LET receiver == IF s.kids[1] = Absent THEN <<>> ELSE Written(s.kids[1]) \o <<".">>
      params == s.kids[2].kids
      Mode(p) == CASE p.text \in {"", "self"} -> <<>>
                   [] p.text = "&!" -> <<"&", "!">>
                   [] OTHER -> <<p.text>>
      Name(p) == IF p.kids[1].text = "" THEN <<>> ELSE <<p.kids[1].text>>
      ParamText(p) == Mode(p) \o Typed(Name(p), p.kids[2])
      all == FlattenSeq([n \in DOMAIN params |->
               (IF n = 1 THEN <<>> ELSE <<",", " ">>) \o ParamText(params[n])])
  IN  <<"action", " ">> \o receiver \o <<s.text, "(">> \o all \o <<")">> \o
      (IF s.kids[3] = Absent THEN <<>> ELSE <<":", " ">> \o Written(s.kids[3]))

ActionText(a) ==
  SigText(a.kids[1]) \o
  (IF a.kids[2] = Absent THEN <<"eol">>
   ELSE <<" ", "will", "eol">> \o Lines(a.kids[2].kids) \o <<"finish", "eol">>)

(* One line per member; the name a foreign action links to is not written. *)
MemberText(m) ==
  LET fields == m.kids[1].kids
      Payload(n) == (IF n = 1 THEN <<>> ELSE <<",", " ">>) \o
                    Typed(<<fields[n].text>>, fields[n].kids[1])
  IN  CASE m.kind = "sig" -> SigText(m) \o <<"eol">>
        [] m.kind = "action" -> ActionText(m)
        [] m.kind = "foreign_action" ->
             (IF m.text = "" THEN <<>> ELSE <<"raw", " ">>) \o SigText(m.kids[1]) \o <<"eol">>
        [] m.kind = "member" /\ m.kids = <<>> -> <<m.text, "eol">>
        [] m.kind = "member" /\ m.kids # <<>> /\ m.kids[1].kind = "fields" ->
             <<m.text, "(">> \o FlattenSeq([n \in DOMAIN fields |-> Payload(n)]) \o <<")", "eol">>
        [] OTHER -> Typed(<<m.text>>, m.kids[1]) \o <<"eol">>

MemberLines(members) ==
  <<" ", "will", "eol">> \o FlattenSeq([n \in DOMAIN members |-> MemberText(members[n])]) \o
  <<"finish", "eol">>

DeclText(d) ==
  LET k == d.kids
      word == CASE d.kind = "shapes" -> "shape" [] d.kind = "choices" -> "choice"
                [] d.kind = "abilities" -> "ability"
  IN  CASE d.kind = "action" -> ActionText(d)
        [] d.kind = "impls" ->
             <<"implement", " ">> \o
             (IF k[1] = Absent THEN <<>> ELSE Written(k[1]) \o Spaced(<<"for">>)) \o
             Written(k[2]) \o MemberLines(SubSeq(k, 4, Len(k)))
        [] d.kind = "foreigns" ->
             <<"foreign", " ", d.text>> \o
             (IF k[1] = Absent THEN <<>> ELSE List("(", <<k[1]>>, ")")) \o
             MemberLines(Tail(k))
        [] OTHER ->
             <<word, " ", d.text>> \o
             (IF k[1].kids = <<>> THEN <<>> ELSE List("<", k[1].kids, ">")) \o
             MemberLines(Tail(k))

(* format_item: attributes on lines of their own, in front of it.          *)
ItemText(item) ==
  LET attrs == item.kids[1].kids
      AttrText(a) == <<"@", a.text>> \o
                     (IF a.kids = <<>> THEN <<>> ELSE List("(", a.kids, ")")) \o <<"eol">>
  IN  FlattenSeq([n \in DOMAIN attrs |-> AttrText(attrs[n])]) \o
      (IF item.text = "" THEN <<>> ELSE <<"export", " ">>) \o DeclText(item.kids[2])

(* format_directive.                                                       *)
DirectiveText(d) ==
  IF d.kind = "directive" THEN <<"#", d.text, " ">> \o Written(d.kids[1]) \o <<"eol">>
  ELSE <<"#">> \o Written(d.kids[1]) \o
       (IF d.kids[2] = Absent THEN <<>> ELSE Spaced(<<"as">>) \o Written(d.kids[2])) \o <<"eol">>

(* format_module: all directives, then the items with a line between them. *)
FileText(tree) ==
  LET directives == tree.kids[1].kids
      items == tree.kids[2].kids
      gap(n) == IF n = 1 /\ directives = <<>> THEN <<>> ELSE <<"eol">>
  IN  FlattenSeq([n \in DOMAIN directives |-> DirectiveText(directives[n])]) \o
      FlattenSeq([n \in DOMAIN items |-> gap(n) \o ItemText(items[n])])
-----------------------------------------------------------------------------
Tokenised(text) == Lexed(text)

Parsed(toks) == File(toks)

Flat(parts) == FlattenSeq([n \in DOMAIN parts |-> Append(parts[n], "eol")])

FileOf(file, parts) == file.open \o Flat(parts) \o file.close

RECURSIVE Nodes(_)
Nodes(n) == {n} \cup UNION {Nodes(n.kids[c]) : c \in DOMAIN n.kids}

Ends(tree) == \A n \in Nodes(tree) : n.kind # "endless"

FmtInit ==
  /\ source \in Originals
  /\ texts = <<FileOf(source, source.parts)>>
  /\ tokens = <<>>
  /\ trees = <<>>
  /\ phase = "lex"

Lex ==
  /\ phase = "lex"
  /\ tokens' = Tokenised(Last(texts))
  /\ phase' = "parse"
  /\ UNCHANGED <<source, texts, trees>>

(* Where a loop of the parser does not end, this step never does.          *)
Parse ==
  /\ phase = "parse"
  /\ \E tree \in {Parsed(tokens)} : Ends(tree.node) /\ trees' = Append(trees, tree)
  /\ phase' = "write"
  /\ UNCHANGED <<source, texts, tokens>>

(* fmt does not look at what the parser reported.                          *)
Write ==
  /\ phase = "write"
  /\ texts' = Append(texts, FileText(Last(trees).node))
  /\ phase' = IF Len(trees) < Rounds THEN "lex" ELSE "done"
  /\ UNCHANGED <<source, tokens, trees>>

FmtNext == Lex \/ Parse \/ Write

FmtSpec == FmtInit /\ [][FmtNext]_vars
-----------------------------------------------------------------------------
(* The statements that end with an expression, and so take the line end    *)
(* behind them along.                                                      *)
EndsInExpr(s) == s.kind \in {"binding", "assign", "expr"} \/ (s.kind = "return" /\ s.kids # <<>>)

(* What format_module can write down: pieces that do not run together into *)
(* one token (`&!`, `&&`, `>>`), no line that ends with the `>` of a type, *)
(* behind which the line end does not count; an `else` with at most one    *)
(* statement that ends in an expression, for parse_if wants `finish` right *)
(* behind it; arms of exactly one; no statement that begins with `~x.p`;   *)
(* no attribute, which the parser wants on the line of the declaration; no *)
(* name a foreign action links to, no type parameters of an                *)
(* implementation, and no type that is written by another name.            *)
Writable(tree) ==
  LET text == FileText(tree)
  IN  /\ Pieces(text) = text
      /\ \A i \in 2..Len(text) : text[i] = "eol" => text[i - 1] # ">"
      /\ \A n \in Nodes(tree) :
           /\ n.kind = "if" /\ Len(n.kids) % 2 = 1 =>
                LET body == Last(n.kids).kids
                IN  body = <<>> \/ (Len(body) = 1 /\ EndsInExpr(body[1]))
           /\ n.kind = "for" => n.text # "&!"
           /\ n.kind = "arm" => Len(n.kids[3].kids) = 1
           /\ n.kind = "meta" => n.kids[1].kind = "path"
           /\ n.kind \in {"expr", "assign", "drop"} => Head(Written(n.kids[1])) # "~"
           /\ n.kind \notin {"attr", "self_type", "unit_type"}
           /\ n.kind = "foreign_action" => n.kids[2] = Absent
           /\ n.kind = "impls" => n.kids[3].kids = <<>>

(* LANGUAGE.md section 10, for what the formatter can write down: running  *)
(* it on a file that parses changes neither what the file means to the     *)
(* parser nor, from the second time on, its text, which it can read again. *)
WritesWhatItRead ==
  trees # <<>> /\ trees[1].ok /\ Writable(trees[1].node) =>
    /\ \A n \in 2..Len(trees) : trees[n].ok /\ trees[n].node = trees[1].node
    /\ \A n \in 3..Len(texts) : texts[n] = texts[2]
    /\ phase = "parse" => Ends(Parsed(tokens).node)

(* grammar.md section 7.1: in every tree an operator's left operand binds  *)
(* at least as tightly as it does, and its right operand more tightly.     *)
OperatorsBindAsDeclared ==
  \A m \in DOMAIN trees : \A n \in Nodes(trees[m].node) :
    LET Binds(k) == Precedence(k.text)
    IN  n.kind = "binary" =>
          /\ n.kids[1].kind = "binary" => Binds(n.kids[1]) >= Binds(n)
          /\ n.kids[2].kind = "binary" => Binds(n.kids[2]) > Binds(n)
          /\ n.kids[1].kind # "range" /\ n.kids[2].kind # "range"

(* Of a file with an action around its parts the statements, of another    *)
(* one the directives and the declarations.                                *)
Contents(tree) ==
  IF source.open # <<>>
  THEN <<tree.kids[2].kids[1].kids[2].kids[2].kids>>
  ELSE <<tree.kids[1].kids, tree.kids[2].kids>>

(* What would go on with an expression on the line before, or leaves the   *)
(* line end behind it for later.                                           *)
GoesOn(part) == part[1] \in BinOps \cup AssignOps \cup {"!", "->", "(", "["}
Unfinished(part) == Last(part) \in Continues

(* What the parts were parsed to on their own is what the file was.        *)
AsIfAlone(alone) ==
  (\A n \in DOMAIN alone : alone[n].ok) =>
    /\ trees[1].ok
    /\ \A c \in DOMAIN Contents(trees[1].node) :
         Contents(trees[1].node)[c] =
           FlattenSeq([n \in DOMAIN alone |-> Contents(alone[n].node)[c]])

(* LANGUAGE.md section 1.1: statements, and directives and declarations,   *)
(* on lines of their own are parsed as if each stood alone, none runs into *)
(* the next, as long as no line begins with something that continues an    *)
(* expression or ends with something that continues the line.              *)
PartsStandAlone ==
  trees # <<>> /\ (\A n \in DOMAIN source.parts :
                     ~GoesOn(source.parts[n]) /\ ~Unfinished(source.parts[n])) =>
    AsIfAlone([n \in DOMAIN source.parts |->
                 Parsed(Tokenised(FileOf(source, <<source.parts[n]>>)))])

(* parser/ty.rs:121, "consume to avoid infinite loop": the parser comes to *)
(* the end of every file, whatever is in it, but for lists of variants and *)
(* of actions without a body.                                              *)
ListsMoveOn ==
  phase = "parse" =>
    \A n \in Nodes(Parsed(tokens).node) :
      n.kind = "endless" => n.text \in {"choices", "abilities", "foreigns"}

(* grammar.md section 8: a line end behind an operator or punctuation that *)
(* continues the line is suppressed, so that wrapping a statement there    *)
(* does not change what it means.                                          *)
WrappingIsHarmless ==
  trees # <<>> /\ trees[1].ok =>
    LET text == Pieces(Flat(source.parts))
        Wrapped(n) == SubSeq(text, 1, n) \o <<"eol">> \o SubSeq(text, n + 1, Len(text))
        Whole(n) == source.open \o Wrapped(n) \o source.close
    IN  \A n \in DOMAIN text :
          text[n] \in Continues => Parsed(Tokenised(Whole(n))).node = trees[1].node
=============================================================================
