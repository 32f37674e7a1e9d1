------------------------------ MODULE Lexemes ------------------------------
(***************************************************************************)
(* The tokens as far as the layout rule tells them apart (src/syntax.h,    *)
(* src/tokens.c).  A token has a kind and the line and column of its first *)
(* character; all tokens without a part in the layout rule are of the kind *)
(* "x".  "lparen" stands for every opening bracket but `{`, "do" for every *)
(* keyword but "where" that opens a block, and the virtual tokens of the   *)
(* layout pass stand at the position of the token that follows them.       *)
(***************************************************************************)
EXTENDS Integers, Sequences

Kinds == {"x", "do", "where", "case", "backslash", "if", "bar", "lparen", "rparen", "lbrace", "rbrace",
          "module", "pragma", "eof"}

Token(kind, line, col) == [kind |-> kind, line |-> line, col |-> col]
Virtual(kind, t) == Token(kind, t.line, t.col)
IsVirtual(t) == t.kind \in {"VOPEN", "VSEMI", "VCLOSE"}

\* A block comes after s: `let`, `where`, `do`, `of` and `\case`.
Opens(s) ==
    \/ s # <<>> /\ s[Len(s)].kind \in {"do", "where"}
    \/ Len(s) > 1 /\ s[Len(s)].kind = "case" /\ s[Len(s) - 1].kind = "backslash"

\* The module is a block too, unless it starts with `module` or `{`.
OpensModule(t) == t.kind \notin {"module", "lbrace"}
=============================================================================
