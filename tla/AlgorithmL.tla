----------------------------- MODULE AlgorithmL -----------------------------
(***************************************************************************)
(* Algorithm L of section 10.3 of the Haskell 2010 report, which layout.c  *)
(* and parse.c claim to implement together: what a layout-aware reader may *)
(* make of a token sequence.  The report's pseudo tokens {n} and <n> are   *)
(* not in text: Due says which of them stands before the next token.  Its  *)
(* rule for parse-error(t) is CloseError without a condition on t, since what   *)
(* is a parse error is up to the grammar.                                  *)
(***************************************************************************)
EXTENDS Lexemes
LOCAL INSTANCE SequencesExt

VARIABLES
    text,      \* the tokens that are left
    contexts,  \* the columns of the open blocks, innermost first; 0 is explicit
    parsed     \* what has come out

lvars == <<text, contexts, parsed>>

Next1 == text[1]
Column == IF Next1.kind = "eof" THEN 0 ELSE Next1.col
Innermost == IF contexts = <<>> THEN 0 ELSE contexts[1]

\* What came out before the virtual tokens at the end, and those.
Lexed ==
    LET real == {k \in DOMAIN parsed : ~IsVirtual(parsed[k])}
    IN  SubSeq(parsed, 1, CHOOSE k \in real \cup {0} : \A j \in real : j <= k)
Inserted == SubSeq(parsed, Len(Lexed) + 1, Len(parsed))

Announced == IF Lexed = <<>> THEN OpensModule(Next1) ELSE Opens(Lexed)
FirstOnLine == Lexed = <<>> \/ Next1.kind = "eof" \/ Next1.line > Last(Lexed).line

\* A block that opened although its column is not right of the one around it.
EmptyBlock ==
    /\ Inserted # <<>> /\ Last(Inserted).kind = "VOPEN"
    /\ Column = 0 \/ (Len(contexts) > 1 /\ Column <= contexts[2])

\* The pseudo token before the next token: "block" is {n}, "line" is <n>.  The
\* report has <n> before a `{` that opens a block at the start of a line, where
\* layout.c (and GHC) take the brace as it is.
Due ==
    CASE Announced /\ Inserted = <<>> -> IF Next1.kind = "lbrace" THEN "none" ELSE "block"
      [] Inserted # <<>> /\ Last(Inserted).kind \in {"VOPEN", "VSEMI"} -> "none"
      [] FirstOnLine \/ Announced -> "line"
      [] OTHER -> "none"

\* L ({n} : ts) ms
OpenBlock ==
    /\ Due = "block"
    /\ contexts' = <<Next1.col>> \o contexts
    /\ parsed' = Append(parsed, Virtual("VOPEN", Next1))
    /\ UNCHANGED text

\* L (<n> : ts) (m : ms) where m = n
OffersSemi == ~EmptyBlock /\ Due = "line" /\ Innermost > 0 /\ Innermost = Column
Semi ==
    /\ OffersSemi
    /\ parsed' = Append(parsed, Virtual("VSEMI", Next1))
    /\ UNCHANGED <<text, contexts>>

Closed ==
    /\ contexts' = Tail(contexts)
    /\ parsed' = Append(parsed, Virtual("VCLOSE", Next1))
    /\ UNCHANGED text

\* L (<n> : ts) (m : ms) where n < m, and the end of an empty block
CloseLine ==
    /\ EmptyBlock \/ (Due = "line" /\ Column < Innermost)
    /\ Closed

\* L (t : ts) (m : ms) where t is a parse error
OffersClose == Due # "block" /\ (Innermost > 0 \/ EmptyBlock)
CloseError ==
    /\ OffersClose
    /\ Closed

\* L ({ : ts) ms, L (} : ts) (0 : ms) and L (t : ts) ms
Read ==
    /\ ~EmptyBlock
    /\ Due # "block"
    /\ Due = "line" /\ Innermost > 0 => Column > Innermost
    /\ Next1.kind = "rbrace" => contexts # <<>> /\ Innermost = 0
    /\ Next1.kind = "eof" => contexts = <<>>
    /\ contexts' = CASE Next1.kind = "lbrace" -> <<0>> \o contexts
                     [] Next1.kind = "rbrace" -> Tail(contexts)
                     [] OTHER -> contexts
    /\ parsed' = Append(parsed, Next1)
    /\ text' = Tail(text)

Init == contexts = <<>> /\ parsed = <<>> /\ text # <<>>

Next == text # <<>> /\ (OpenBlock \/ Semi \/ CloseLine \/ CloseError \/ Read)

Spec == Init /\ [][Next]_lvars

\* L has s as its next output.
Offers(s) ==
    \/ s.kind = "VSEMI" /\ OffersSemi
    \/ s.kind = "VCLOSE" /\ OffersClose
    \/ s.kind = "VOPEN" /\ Due = "block"
    \/ ~IsVirtual(s)
=============================================================================
