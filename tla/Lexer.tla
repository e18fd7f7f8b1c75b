------------------------------- MODULE Lexer -------------------------------
(***************************************************************************)
(* The lexer (src/lexer/lexer.rs) from lexemes to tokens: longest match    *)
(* for punctuation, bracket depth, and which line ends become Newline      *)
(* tokens.  A text is a sequence of pieces: a word or number, a            *)
(* punctuation character (or pair), " " and "eol".  Inside words, and in   *)
(* literals and comments, nothing of that happens and they are left out.   *)
(***************************************************************************)
EXTENDS Integers, SequencesExt

(* lex_punct: pairs that are one token wherever they touch.                *)
TwoChar ==
  {"::", "&!", ":>", "->", "=>", "==", "!=", "<=", ">=", "&&", "||", "<<", ">>",
   "+=", "-=", "*=", "/=", "%=", "|=", "&=", "^=", "~!", ".."}

(* TokenKind::continues_line.                                              *)
Continues ==
  {"+", "-", "*", "/", "%", "&", "&&", "|", "||", "^", "<<", ">>", "==", "!=",
   "<", ">", "<=", ">=", "=", "+=", "-=", "*=", "/=", "%=", "|=", "&=", "^=",
   ":>", ",", ".", "..", "->", "=>", ":", "::", "~", "~!", "&!", "#", "@"}

Touching(pieces, piece) ==
  IF pieces # <<>> /\ Last(pieces) \o piece \in TwoChar
  THEN Append(Front(pieces), Last(pieces) \o piece)
  ELSE Append(pieces, piece)

Pieces(text) == FoldLeft(Touching, <<>>, text)

MutNested(lx, k) ==
  [lx EXCEPT !.depth = CASE k \in {"(", "["} -> @ + 1
                         [] k = ")" /\ @ > 0 -> @ - 1
                         [] OTHER -> @]

(* Brackets count before their own token is emitted, and never below zero. *)
Nested(lx, k) ==
  [lx EXCEPT !.depth = CASE k \in {"(", "["} -> @ + 1
                         [] k \in {")", "]"} /\ @ > 0 -> @ - 1
                         [] OTHER -> @]

(* emit: a pending line end comes out before the token, if the last token  *)
(* does not continue the line; if it does, the line end stays pending.     *)
Emit(lx, k) ==
  LET flush == /\ lx.pending
               /\ lx.depth = 0
               /\ lx.last # "none"
               /\ lx.last \notin Continues
  IN  [lx EXCEPT !.tokens = (IF flush THEN Append(@, "newline") ELSE @) \o <<k>>,
                 !.pending = @ /\ ~flush,
                 !.last = k]

Piece(lx, k) ==
  CASE k = " " -> lx
    [] k = "eol" -> [lx EXCEPT !.pending = @ \/ lx.depth = 0]
    [] OTHER -> Emit(Nested(lx, k), k)

(* The tokens of a text, with the Eof at their end.                        *)
Lexed(text) ==
  LET start == [tokens |-> <<>>, depth |-> 0, pending |-> FALSE, last |-> "none"]
      end == FoldLeft(Piece, start, Pieces(text))
  IN  Emit(end, "eof").tokens
=============================================================================
