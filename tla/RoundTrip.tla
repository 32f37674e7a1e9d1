----------------------------- MODULE RoundTrip -----------------------------
(* A source text through the lexer and the parser, and back through the    *)
(* printer, the lexer and the parser: what `aihc print' does, with a       *)
(* second parser at its end, and what the printer promises (print.c,       *)
(* lines 1-12).                                                            *)
EXTENDS Printer

CONSTANT Sources   \* [text, tokens, accepted, kept]: a text, its tokens as
                   \* the printer writes them, whether the parser accepts
                   \* it, and whether it then keeps every token

ASSUME SourceForms ==
  \A s \in Sources : s.accepted \in {"yes", "no", "maybe"} /\ s.kept \in BOOLEAN

VARIABLES source, text, trees, stage

vars == <<source, text, toks, trees, stage>>

Init == /\ source \in Sources
        /\ text = source.text
        /\ toks = <<>>
        /\ trees = <<>>
        /\ stage = "text"

Lex == /\ stage = "text"
       /\ toks' = lex(text)
       /\ stage' = "tokens"
       /\ UNCHANGED <<source, text, trees>>

Parse == /\ stage = "tokens"
         /\ \E r \in {parse_module} :
              /\ trees' = trees \o r.kids
              /\ stage' = CASE r.at = 0      -> "rejected"
                            [] trees = <<>>  -> "tree"
                            [] OTHER         -> "done"
         /\ UNCHANGED <<source, text, toks>>

PrintTree == /\ stage = "tree"
             /\ text' = pr(trees[1])
             /\ stage' = "text"
             /\ UNCHANGED <<source, toks, trees>>

Next == Lex \/ Parse \/ PrintTree

Spec == Init /\ [][Next]_vars

---------------------------------------------------------------------------

Stopped == stage \in {"rejected", "done"}

Survives == stage = "done" /\ trees[1] = trees[2]

\* The text that the printer writes for a node starts with these characters.
Opens(n, chars) ==
  LET written == apart(pr(n))
  IN  Len(written) >= Len(chars) /\ SubSeq(written, 1, Len(chars)) = chars

\* A node whose text the printer writes without the space that keeps two
\* of its words apart.
Touches(n) ==
  \/ n.class = "EXPR" /\ n.k = "NEG" /\ n.kids[1].k \in {"LAMBDA", "LAMBDA_CASE"}
  \/ n.class = "PAT" /\ n.k \in {"AS", "LAZY", "BANG"} /\ n.kids[1].k \in {"LAZY", "BANG"}
  \/ n.class = "TY" /\ n.k = "PROMOTED_LIST" /\ n.kids[1].kids # <<>>
       /\ Opens(n.kids[1].kids[1], <<"'">>)
  \/ n.class = "TY" /\ n.k = "PROMOTED"
       /\ \E c \in Chars : Opens(n.kids[1], <<c, "'">>)
  \/ Unboxed /\ n.class \in {"NAME", "TY", "PAT", "EXPR", "LHS", "CON"}
       /\ Opens(n, <<"(", "#">>) /\ ~Opens(n, <<"(", "#", ")">>)
  \/ Unboxed /\ n.class = "EXPR" /\ n.k = "LEFT_SECTION" /\ n.kids[2].name = "#"

RECURSIVE Somewhere(_)

Somewhere(n) == Touches(n) \/ \E m \in DOMAIN n.kids : Somewhere(n.kids[m])

\* What the grammar in the heads of the parser's files gives is a tree, the
\* printer keeps every token of it, in order, and reading its text gives the
\* tree again (print.c:3-8, "The printer keeps every token of the tree in
\* source order"; parse.c:7-8, "Nothing is skipped").  The exceptions are
\* exactly these: words the printer writes together, the constructs of which
\* the parser drops a part (`kept'), and those it rejects because it takes
\* an arrow for another one's (`accepted').
RoundTrips ==
  Stopped =>
    /\ source.accepted = "yes" => trees # <<>>
    /\ source.accepted = "no" => trees = <<>>
    /\ trees # <<>> =>
         IF Somewhere(trees[1]) THEN ~Survives
         ELSE Survives /\ (toks = source.tokens <=> source.kept)

=============================================================================
