------------------------------ MODULE MCBlocks ------------------------------
(***************************************************************************)
(* Sources for Blocks: all sequences of the given kinds of tokens, each on *)
(* the line of the one before or on a new line at one of a few columns.    *)
(***************************************************************************)
EXTENDS Blocks

\* The tokens of a sequence of [kind, col], where column 0 is the same line.
Placed(s) ==
    LET Place(ts, p) ==
            LET line == IF ts = <<>> THEN 1 ELSE Last(ts).line
                col == IF ts = <<>> THEN 0 ELSE Last(ts).col
            IN  Append(ts, IF p.col = 0 THEN Token(p.kind, line, col + 1)
                                        ELSE Token(p.kind, line + 1, p.col))
        placed == FoldLeft(Place, <<>>, s)
    IN  Append(placed, Token("eof", Last(placed).line + 1, 1))

\* The first token is on a line of its own.
Sources(kinds, columns, n) ==
    {Placed(s) : s \in {s \in UNION {[1..k -> [kind : kinds, col : columns]] : k \in 1..n} :
                           s[1].col # 0}}

\* The same on one line.
OneLine(kinds, n) ==
    {Placed([i \in 1..n |-> [kind |-> s[i], col |-> IF i = 1 THEN 2 ELSE 0]]) : s \in [1..n -> kinds]}

\* Blocks by columns; blocks inside brackets; explicit blocks and records, also
\* with brackets in and around them;
\* `\case` and multi-way if; module headers and pragmas.
MCSources ==
    {Sources({"x", "do", "where"}, {0, 2, 3}, 4),
     Sources({"x", "do", "lparen", "rparen"}, {0, 2}, 5),
     Sources({"x", "do", "lbrace", "rbrace"}, {0, 2}, 5),
     OneLine({"do", "lparen", "rparen", "lbrace", "rbrace"}, 6),
     {s \in Sources({"x", "backslash", "case"}, {0, 1}, 4) :   \* `\` and `case` on one line
         \A k \in DOMAIN s : s[k].kind = "backslash" => s[k + 1].line = s[k].line},
     Sources({"x", "if", "bar"}, {0, 1}, 4),
     Sources({"x", "module", "pragma", "where"}, {0, 1}, 4)}
=============================================================================
