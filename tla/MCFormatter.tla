---------------------------- MODULE MCFormatter ----------------------------
(***************************************************************************)
(* Files for the formatter: every form of expression in every statement    *)
(* that has one, operators of every level side by side, simple statements  *)
(* one below the other, and the compound ones around them; every form of   *)
(* declaration, type and directive, alone and below each other.            *)
(***************************************************************************)
EXTENDS Formatter

Atoms ==
  {<<"a">>, <<"1">>, <<"none">>, <<"(", ")">>, <<"a", ".", "b">>, <<".", "none">>,
   <<".", "b", "(", "a", ")">>, <<"[", "a", ",", " ", "1", ",", "]">>, <<"f", "(", ")">>,
   <<"f", "(", "a", " ", "=", " ", "1", ",", "eol", "b", ")">>,
   <<"(", "a", " ", "+", "eol", "b", ")">>}

Postfixed ==
  {<<"a", "[", "1", "]">>, <<"a", "[", "1", "..", "b", "]">>, <<"a", "[", "..", "]">>,
   <<"f", "(", "a", ")", "?", ".", "b">>, <<"f", "(", ")", ".", "a", "(", "b", ")">>,
   <<"a", " ", ":>", " ", "T", "?">>, <<"~", "a", ".", "b">>, <<"a", ".", "~", "b">>}

Prefixed == {<<u>> \o e : u \in {"!", "-", "^", "&"}, e \in Atoms \cup Postfixed} \cup
            {<<"&", " ", "!", "a">>, <<"&", "!", "a">>, <<"&", " ", "&", "a">>, <<"-", "-", "a">>,
             <<"!", " ", "=", "a">>}

Ops == {"||", "&&", "==", "|", "^", "&", "<<", "-", "*"}

Chains == {<<"a", " ", p, " ", "b", " ", q, " ", "f", "(", "1", ")", " ", "*", " ", "a">> :
             p \in Ops, q \in Ops} \cup
          {<<"a", "-", "-", "b", "&", "&", "1">>}

Assigned(e) ==
  {<<":", "a", " ", "=", " ">> \o e, <<"a", ".", "b", "+", "=">> \o e, <<"return", " ">> \o e, e}

OneLine == UNION {Assigned(e) : e \in Atoms \cup Postfixed \cup Prefixed \cup Chains} \cup
           {<<"::", "a", ":", "T", " ", "=", "1">>, <<"~", "a", "=", "b">>,
            <<"~", "!", "a", ":", "T", "=", "b">>, <<"a", "-", ">", "b">>, <<"a", "!">>,
            <<"return">>, <<"break">>, <<"continue">>, <<"else">>, <<"a", "b">>, <<"a", "]">>}

(* Some to stand below each other.                                         *)
Few ==
  {<<"return">>, <<"a", "[", "1", "]">>, <<"f", "(", "a", ")">>, <<"b", "!">>,
   <<":", "a", "=", "a", ".", "b">>, <<".", "b", "(", "a", ")", "?">>, <<"~", "a", "=", "b">>,
   <<"-", "a">>, <<"(", "a", ")", "!">>}

On(s) == Append(s, "eol")

IfText(c, s) == <<"if", " ">> \o c \o <<" ", "will", "eol">> \o s

Bodies == {<<>>} \cup {On(s) : s \in Few} \cup {On(<<"break">>) \o On(s) : s \in Few}

Nested1 ==
  {On(IfText(<<"a">>, On(<<"b">>) \o <<"finish">>)), On(<<"loop", " ", "will", " ", "finish">>)}

Compound ==
  {IfText(<<"a">>, s \o <<"finish">>) : s \in Bodies \cup Nested1} \cup
  {IfText(<<"a">>, On(<<"b">>) \o <<"else", " ">> \o
                   IfText(<<"1">>, s \o <<"else">> \o w \o r \o <<"finish">>)) :
     s \in {<<>>, On(<<"return">>)}, w \in {<<"eol">>, <<" ", "will", "eol">>}, r \in Bodies \cup Nested1} \cup
  {<<"match", " ", "a", " ", "will", "eol", ".", "b", "(", "a", ",", "b", ")", " ">> \o g \o
   <<"=>", " ">> \o s \o <<"eol", "1", " ", "=>", "will">> \o r \o <<"eol", "a", " ", "=>">> \o t \o
   <<"finish">> :
     g \in {<<>>, <<"if", " ", "a", " ">>}, s \in Few,
     r \in {<<" ">> \o On(<<"b", "!">>), <<"finish">>},
     t \in {<<>>, On(<<"b">>)} \cup Nested1} \cup
  {<<"for", " ">> \o m \o <<"a", " ", "in", " ", "1", "..", "b", " ", "will", "eol">> \o s \o
   <<"finish">> :
     m \in {<<>>, <<"&">>, <<"&", "!">>, <<"^">>}, s \in Bodies} \cup
  {<<"while", " ", "a", " ", "will", "eol">> \o s \o <<"finish">> : s \in Bodies \cup Nested1} \cup
  {<<k, " ", "will", "eol">> \o s \o <<"finish">> : k \in {"loop", "raw"}, s \in Bodies}

(* In the body of an action.                                               *)
Inside(parts) ==
  [open |-> <<"action", " ", "f", "(", ")", " ", "will", "eol">>, parts |-> parts,
   close |-> <<"finish", "eol">>]

Statements ==
  {<<s>> : s \in OneLine \cup Compound} \cup {<<s, t, u>> : s \in Few, t \in Few, u \in Few} \cup
  {<<s, c, t>> : s \in {<<"a">>, <<"return">>}, c \in Compound,
                 t \in {<<"f", "(", ")">>, <<"(", "a", ")">>}}
-----------------------------------------------------------------------------
MCStrings == [s \in {"\"b\"", "\"a b\""} |-> IF s = "\"b\"" THEN "b" ELSE "a b"]

Of(args) == <<"Maybe", "<">> \o args \o <<">">>

Types ==
  {<<"T">>, <<"a", ".", "T">>, Of(<<"T">>), Of(Of(<<"T">>)), Of(Of(<<"T">>) \o <<" ">>),
   <<"a", ".">> \o Of(<<"T", ",">>), Of(<<"T", ",", "a">>),
   <<"Outcome", "<", "T", ",", "eol", "a", ">">>, <<"[", "T", ";", " ", "1", "]">>,
   <<"[", "T", "]">>, <<"(", ")">>, <<"(", "T", ",", "a", ",", ")">>, <<"&", "T">>,
   <<"&", " ", "!", "T">>, <<"&", "!", "T">>, <<"&", " ", "&", "T">>, <<"self">>, <<"1">>}

(* A declaration's members, each on its line.                              *)
With(head, members) ==
  head \o <<" ", "will", "eol">> \o FlattenSeq([n \in DOMAIN members |-> On(members[n])]) \o <<"finish">>

Shape(fields) == With(<<"shape", " ", "T">>, fields)
A(name, params) == <<"action", " ", name, "(">> \o params \o <<")">>

TypesUsed ==
  UNION {{Shape(<<<<"a", ":">> \o ty, <<"b", ":", "T">>>>), Shape(<<<<"a", ":">> \o ty>>),
          A("f", <<"a", ":">> \o ty \o <<",", "b", ":", "T">>), A("f", <<>>) \o <<":">> \o ty,
          With(<<"choice", " ", "T">>, <<<<"a", "(", "b", ":">> \o ty \o <<")">>, <<"b">>>>),
          With(A("f", <<>>), <<<<":", "a", ":">> \o ty \o <<"=", "b", ":>", " ">> \o ty>>)} : ty \in Types}

Params ==
  {m \o n \o <<":", "T">> : m \in {<<>>, <<"&">>, <<"&", " ", "!">>, <<"&", "!">>, <<"^">>},
                            n \in {<<"a">>, <<"self">>, <<>>}}

Listed ==
  {With(<<k, " ", "T">> \o g, ms) :
     k \in {"shape", "choice", "ability", "implement", "implement T for", "foreign"},
     g \in {<<>>, <<"<", "a", ",", "b", ":", "T", ">">>, <<"<", "a", ":", "T", ">">>},
     ms \in {<<>>, <<<<"a", ":", "T">>, <<"b", ":", "T", ";">>>>, <<<<"a", ",", "b">>>>,
             <<<<"a", "(", "b", ":", "T", ",", "a", ":", "T", ",", ")">>, <<"b", "(", ")">>>>,
             <<A("a", <<>>), A("f", <<"a", ":", "T">>) \o <<":", "T">>>>,
             <<With(A("a", <<>>), <<<<"return">>>>)>>, <<<<"1">>>>}}

Foreigns ==
  {With(<<"foreign", " ", "a">> \o lib, <<l \o r \o A("f", <<>>), A("b", <<>>)>>) :
     lib \in {<<>>, <<"(", "\"a b\"", ")">>, <<"(", "a", ")">>},
     l \in {<<>>, <<"@", "link", "(", "\"b\"", ")", " ">>, <<"@", "b", " ">>, <<"@", "link", " ">>},
     r \in {<<>>, <<"raw", " ">>}}

Attributes ==
  {<<"@", "a">> \o args \o end :
     args \in {<<>>, <<"(", "\"a b\"", ",", "1", ",", ")">>, <<"(", "+", ")">>},
     end \in {<<" ">>, <<"eol">>}}

Directives ==
  {<<"#", d, " ">> \o a : d \in {"a", "module", "header", "cfg"},
     a \in {<<"b">>, <<".", "b">>, <<"eol", ".", "b", "eol", "as", " ", "f">>, <<"\"a b\"">>,
            <<".", "*">>, <<>>}}

Words(text) ==
  IF text[1] = "implement T for" THEN <<"implement", " ", "T", " ", "for">> \o Tail(text)
  ELSE text

Declarations ==
  TypesUsed \cup Foreigns \cup Directives
    \cup {A("f", p) : p \in Params} \cup {Words(d) : d \in Listed}
    \cup {a \o With(<<"action", " ", "T", ".", "f">>, <<>>) : a \in Attributes \cup {<<>>}}
    \cup {<<"export", " ">> \o A("f", <<>>), <<"export", " ", "a">>, <<"action", " ", "1">>}

(* Some to stand below each other, and some lines that are none.           *)
FewDecls ==
  {<<"#", "a", ".", "b">>, <<"#", "module", " ", "a">>, A("f", <<>>),
   <<"export", " ">> \o A("f", <<>>) \o <<":", "T">>, Of(<<"T">>),
   With(A("b", <<>>), <<<<"return">>>>), Shape(<<<<"a", ":", "T">>>>),
   With(<<"choice", " ", "T">>, <<<<"a">>, <<"b">>>>), <<"@", "a", " ">> \o A("a", <<>>),
   <<"a", " ", "b">>}

Bare(parts) == [open |-> <<>>, parts |-> parts, close |-> <<>>]

MCSources ==
  {Inside(parts) : parts \in Statements} \cup {Bare(<<d>>) : d \in Declarations} \cup
  {Bare(<<c, d, e>>) : c \in FewDecls, d \in FewDecls, e \in FewDecls} \cup
  {Bare(<<c, d>>) : c \in Declarations, d \in {Shape(<<>>)}}

(* Bindings only, for wrapping them.                                       *)
Bindings ==
  {Inside(<<<<":", "a", " ", "=", " ">> \o e>>) : e \in Atoms \cup Postfixed \cup Chains}
=============================================================================
