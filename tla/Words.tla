------------------------------- MODULE Words -------------------------------
(* Text as the printer writes it and the lexer reads it.  A text is a      *)
(* sequence of words, the spellings of tokens, with " " where there is     *)
(* white space.  Two words without a space between them touch, and the     *)
(* lexer may read them as something else: operator characters that touch   *)
(* are one operator (lexer.c).  Where the lexer looks at the characters of *)
(* a spelling, its words are those characters (Pieces).  A qualified name  *)
(* is one word.  A backquote is spelled out, since a string of TLA+ cannot *)
(* hold one.                                                               *)
EXTENDS Integers, Sequences

CONSTANTS KindOf,    \* the kind of each name and literal: spelling -> kind
          Pieces,    \* the characters of the character literals, of the
                     \* names with a prime and of the operators with #
          Qualified, \* the last part of each qualified name
          Unboxed    \* whether UnboxedTuples is on (LexOptions)

Keywords == {"case", "class", "data", "default", "deriving", "do", "else",
             "foreign", "if", "import", "in", "infix", "infixl", "infixr",
             "instance", "let", "module", "newtype", "of", "then", "type",
             "where", "_"}

ReservedOps == {"..", ":", "::", "=", "\\", "|", "<-", "->", "@", "~", "=>"}

Specials == {"(", ")", ",", ";", "[", "]", "backquote", "{", "}", "(#",
             "#)"}

\* Words that are names, and keywords in some places only.
SpecialNames == {"forall", "family", "role", "pattern", "qualified", "as",
                 "hiding", "stock", "anyclass", "via", "ccall", "unsafe",
                 "export"}

\* What is not listed is an operator, which a text of touching words can
\* make up.
kind(w) ==
  CASE w \in Keywords     -> "KEYWORD"
    [] w \in ReservedOps  -> "RESERVEDOP"
    [] w \in Specials     -> "SPECIAL"
    [] w \in SpecialNames -> "VARID"
    [] w = "'"            -> "TICK"
    [] w \in DOMAIN KindOf -> KindOf[w]
    [] OTHER              -> "VARSYM"

Literals == {"INTEGER", "FLOAT", "CHAR", "STRING"}

VarIds == {"VARID", "QVARID"}
ConIds == {"CONID", "QCONID"}
ConSyms == {"CONSYM", "QCONSYM"}
VarSyms == {"VARSYM", "QVARSYM"}

unqualified(w) == IF w \in DOMAIN Qualified THEN Qualified[w] ELSE w

---------------------------------------------------------------------------

\* A word of operator characters.
is_symbol(w) == /\ w \notin {" ", "EOF"}
                /\ kind(w) \in {"RESERVEDOP", "VARSYM", "CONSYM"}

wordAt(text, i) == IF i \in DOMAIN text THEN text[i] ELSE "EOF"

RECURSIVE symbol(_, _)

\* The operator that starts at i, and the position behind it.
symbol(text, i) ==
  IF ~is_symbol(wordAt(text, i + 1))
  THEN [w |-> text[i], at |-> i + 1]
  ELSE LET rest == symbol(text, i + 1)
       IN  [w |-> text[i] \o rest.w, at |-> rest.at]

\* The name that starts at i, with the primes behind it.
RECURSIVE identifier(_, _, _)

identifier(text, i, w) ==
  IF wordAt(text, i + 1) = "'" THEN identifier(text, i + 1, w \o "'")
  ELSE [w |-> w, at |-> i + 1]

\* Words of one character.
Chars == {" ", "(", "[", "#", "+", "1", ",", "A", "B", "a", "b", "x"}

\* A tick, or a character literal where one character and another tick
\* follow.
char_or_tick(text, i) ==
  LET w == wordAt(text, i + 1)
  IN  IF w \in Chars /\ wordAt(text, i + 2) = "'"
      THEN [w |-> "'" \o w \o "'", at |-> i + 3]
      ELSE [w |-> "'", at |-> i + 1]

\* The token that starts at i, which is not white space.
next_token(text, i) ==
  LET w == text[i]
  IN  CASE Unboxed /\ w = "(" /\ wordAt(text, i + 1) = "#"
             /\ wordAt(text, i + 2) # ")" -> [w |-> "(#", at |-> i + 2]
        [] Unboxed /\ w = "#" /\ wordAt(text, i + 1) = ")" ->
             [w |-> "#)", at |-> i + 2]
        [] w = "'"      -> char_or_tick(text, i)
        [] is_symbol(w) -> symbol(text, i)
        [] kind(w) \in VarIds \cup ConIds -> identifier(text, i, w)
        [] OTHER        -> [w |-> w, at |-> i + 1]

RECURSIVE lex_from(_, _)

lex_from(text, i) ==
  CASE i > Len(text)    -> <<>>
    [] wordAt(text, i) = " " -> lex_from(text, i + 1)
    [] OTHER            -> LET token == next_token(text, i)
                           IN  <<token.w>> \o lex_from(text, token.at)

\* A text with the words in Pieces taken apart.
RECURSIVE apart(_)

apart(text) ==
  CASE text = <<>>              -> <<>>
    [] text[1] \in DOMAIN Pieces -> Pieces[text[1]] \o apart(Tail(text))
    [] OTHER                    -> <<text[1]>> \o apart(Tail(text))

\* The tokens of a text.
lex(text) == lex_from(apart(text), 1)

=============================================================================
