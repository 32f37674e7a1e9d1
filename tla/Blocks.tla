------------------------------- MODULE Blocks -------------------------------
(***************************************************************************)
(* The blocks of the parser (src/parse.c): how it reads the stream of the  *)
(* layout pass and completes the layout rule.  The grammar is abstracted:  *)
(* an item of a block may end before any token, and what is left of the    *)
(* grammar is that blocks, brackets and record braces nest.                *)
(***************************************************************************)
EXTENDS Layout

CONSTANT Inputs   \* sets of sources, which are the token sequences of the lexer

\* "The input must end with an EOF token" (layout.c).
ASSUME InputAssumption ==
    \A sources \in Inputs : \A tokens \in sources :
        /\ tokens \in Seq([kind : Kinds, line : Nat, col : Nat])
        /\ tokens # <<>> /\ tokens[Len(tokens)].kind = "eof"

VARIABLES
    rest,      \* the tokens from p->idx on
    blocks,    \* the blocks and brackets that are open, innermost last
    seen,      \* what it has read, with a virtual `}` where a block closed early
    status     \* "parsing", "parsed" or "failed"

vars == <<rest, blocks, seen, status>>

Next1 == Head(rest)
At(kinds) == status = "parsing" /\ rest # <<>> /\ Next1.kind \in kinds
In(kinds) == blocks # <<>> /\ Last(blocks).kind \in kinds

\* The grammar wants a block here.
AtBlock ==
    IF seen = <<>> THEN OpensModule(SelectSeq(rest, LAMBDA t : ~IsVirtual(t))[1])
    ELSE Opens(seen)
\* A lambda's patterns, or `case`, come after a backslash.
AtLambda == seen # <<>> /\ Last(seen).kind = "backslash"
\* The guards of a multi-way if are a block as well.
AtGuards ==
    /\ seen # <<>> /\ Last(seen).kind = "if"
    /\ At({"VOPEN", "lbrace"}) /\ Len(rest) > 1 /\ rest[2].kind = "bar"

\* module() has read the body; parse_module wants the end of input.
BodyRead == blocks = <<>> /\ \E k \in DOMAIN seen : seen[k].kind \in {"VCLOSE", "rbrace"}

Bump ==
    /\ ~BodyRead
    /\ rest' = Tail(rest)
    /\ seen' = Append(seen, Next1)
    /\ UNCHANGED status
Push(kind) == blocks' = Append(blocks, [kind |-> kind, col |-> IF Next1.kind = "VOPEN" THEN Next1.col ELSE 0])
Pop == blocks' = Front(blocks)

OpenBlock ==
    /\ At({"VOPEN", "lbrace"})
    /\ AtBlock \/ AtGuards
    /\ Push(IF Next1.kind = "lbrace" THEN "braces" ELSE "implicit")
    /\ Bump

OpenBracket ==
    /\ At({"lparen", "lbrace"})
    /\ ~AtBlock /\ ~AtGuards
    /\ Push(IF Next1.kind = "lbrace" THEN "record" ELSE "bracket")
    /\ Bump

CloseBracket ==
    /\ ~AtBlock
    /\ \/ At({"rparen"}) /\ In({"bracket"})
       \/ At({"rbrace"}) /\ In({"record", "braces"})
    /\ Pop
    /\ Bump

Read ==
    /\ ~AtBlock
    /\ At(Kinds \ {"lparen", "rparen", "lbrace", "rbrace", "pragma", "eof"})
    /\ Bump
    /\ UNCHANGED blocks

\* semis(), and semis_before() in front of `then` and `else`.
Semi ==
    /\ ~AtBlock
    /\ ~AtLambda
    /\ At({"VSEMI"})
    /\ In({"implicit", "braces"})
    /\ Bump
    /\ UNCHANGED blocks

CloseBlock ==
    /\ At({"VCLOSE"})
    /\ ~AtBlock /\ ~AtLambda
    /\ In({"implicit"})
    /\ Pop
    /\ Bump

\* The nesting of the virtual braces before position j of s.
Count(s, j, kind) == Cardinality({k \in 1..(j - 1) : s[k].kind = kind})
Depth(s, j) == Count(s, j, "VOPEN") - Count(s, j, "VCLOSE")
Own(s, kind) == {j \in DOMAIN s : s[j].kind = kind /\ Depth(s, j) = 0}

Without(s, removed) ==
    LET kept[j \in 0 .. Len(s)] ==
            IF j = 0 THEN <<>>
            ELSE IF j \in removed THEN kept[j - 1] ELSE Append(kept[j - 1], s[j])
    IN  kept[Len(s)]

\* close_block: the virtual `}` of the block, and its semicolons before that.
StaleClose(s) == {Min(Own(s, "VCLOSE"))}
Stale(s) ==
    LET close == Min(Own(s, "VCLOSE"))
    IN  {close} \cup {j \in Own(s, "VSEMI") : j < close}

\* The parse-error rule: an item ended, or could not start, at a token that
\* is neither a semicolon nor the block's end.
CloseEarly ==
    /\ At(Kinds)
    /\ ~AtBlock /\ ~AtLambda
    /\ In({"implicit"})
    /\ Own(rest, "VCLOSE") # {}
    /\ Pop
    /\ rest' = Without(rest, Stale(rest))
    /\ seen' = Append(seen, Virtual("VCLOSE", Next1))
    /\ UNCHANGED status

Finish ==
    /\ At({"eof"})
    /\ ~AtBlock \/ BodyRead
    /\ blocks = <<>>
    /\ status' = "parsed"
    /\ rest' = Tail(rest)
    /\ seen' = Append(seen, Next1)
    /\ UNCHANGED blocks

\* A token that no production allows is a syntax error.
Unexpected ==
    CASE BodyRead -> ~At({"eof"})
      [] AtBlock -> ~At({"VOPEN", "lbrace"})
      [] AtGuards -> FALSE
      [] AtLambda -> ~At({"x", "lparen", "case"})
      [] At({"VOPEN", "pragma"}) -> TRUE
      [] At({"VSEMI"}) -> ~In({"implicit", "braces"})
      [] At({"VCLOSE"}) -> ~In({"implicit"})
      [] At({"rparen"}) -> ~In({"bracket", "implicit"})
      [] At({"rbrace"}) -> ~In({"record", "braces", "implicit"})
      [] At({"eof"}) -> blocks # <<>> /\ ~In({"implicit"})
      [] OTHER -> In({"implicit"}) /\ Own(rest, "VCLOSE") = {}
Reject ==
    /\ status = "parsing"
    /\ Unexpected
    /\ status' = "failed"
    /\ UNCHANGED <<rest, blocks, seen>>

\* p_module reads the pragmas at the top of the file first.
WithoutPragmas(s) ==
    LET n == CHOOSE n \in 0..Len(s) : /\ \A j \in 1..n : s[j].kind = "pragma"
                                      /\ n = Len(s) \/ s[n + 1].kind # "pragma"
    IN  SubSeq(s, n + 1, Len(s))

Init ==
    /\ \E sources \in Inputs : \E tokens \in sources :
          LET laid == LaidOut(tokens)
          IN  ~laid.failed /\ rest = WithoutPragmas(laid.out)
    /\ blocks = <<>>
    /\ seen = <<>>
    /\ status = "parsing"

Next ==
    \/ OpenBlock \/ OpenBracket \/ CloseBracket \/ Read \/ Semi
    \/ CloseBlock \/ CloseEarly \/ Finish \/ Reject

Spec == Init /\ [][Next]_vars

-----------------------------------------------------------------------------
\* The implicit blocks that are open and the virtual `}` that are left match,
\* however many blocks closed early: "the enclosing blocks stay balanced"
\* (close_block).  The pass closes every implicit block before a closing bracket
\* (layout.c), so the parser has no block to close there, whatever brackets and
\* braces meet.
Balanced ==
    /\ status = "parsing" =>
           Cardinality({k \in DOMAIN blocks : blocks[k].kind = "implicit"})
               = -Depth(rest, Len(rest) + 1)
    /\ At({"rparen", "rbrace"}) => ~In({"implicit"})

\* The report's algorithm with what the parser has taken and has left.
Context == SelectSeq(blocks, LAMBDA b : b.kind # "bracket")
L == INSTANCE AlgorithmL WITH
        text <- SelectSeq(rest, LAMBDA t : ~IsVirtual(t)),
        contexts <- [i \in 1..Len(Context) |-> Context[Len(Context) + 1 - i].col],
        parsed <- seen

\* The layout pass closes a block by its column, or where it applies the
\* parse-error rule early: at a closing bracket and at `where`.
Justified == CloseBlock => L!CloseLine \/ L!Next1.kind \in {"rparen", "rbrace", "where"}

\* The multi-way if, which the report does not have, opens blocks of its own.
InReport == \A s \in {rest, seen} : \A k \in DOMAIN s : s[k].kind # "if"

\* A block that the layout pass left empty because of a block that the parser
\* has closed since, although it is right of the blocks that are open.
Shadowed == At({"VCLOSE"}) /\ Last(seen).kind = "VOPEN" /\ ~L!EmptyBlock

\* layout.c: "This is the algorithm L from section 10.3 of the Haskell 2010
\* report", with the parse-error rule left to the parser: what the parser sees
\* is what algorithm L gives when the same blocks end with a parse error,
\* except where a block is shadowed (layout.c, parse.c close_block).
FollowsLUnlessShadowed ==
    L!Init /\ [][InReport => L!Next /\ (Shadowed \/ Justified)]_(L!lvars)

\* A virtual token that the parser cannot take is one that algorithm L gives
\* there too, so the source is wrong.  It is not so inside the braces of a
\* record, which do not suspend the layout rule.
InRecord == \E k \in DOMAIN blocks : blocks[k].kind = "record"
RejectsOnlyErrorsOutsideRecords ==
    status = "failed" /\ ~InRecord => L!Offers(Next1)
=============================================================================
