------------------------------- MODULE Layout -------------------------------
(***************************************************************************)
(* The layout pass (src/layout.c): one pass over the tokens that inserts   *)
(* the virtual braces and semicolons.  The pass is a fold of Step over the *)
(* tokens; its state is the record of the locals of layout().              *)
(***************************************************************************)
EXTENDS Lexemes, SequencesExt

Implicit(col, depth, nosemi) ==
    [implicit |-> TRUE, col |-> col, depth |-> depth, nosemi |-> nosemi]
ExplicitFlagged(depth) ==
    [implicit |-> TRUE, col |-> 0, depth |-> depth, nosemi |-> FALSE]
Explicit(depth) ==
    [implicit |-> FALSE, col |-> 0, depth |-> depth, nosemi |-> FALSE]

Start(tokens) ==
    LET code == SelectSeq(tokens, LAMBDA t : t.kind # "pragma")
    IN  [stack |-> <<>>, depth |-> 0, pending |-> OpensModule(code[1]), line |-> 0,
         lambda |-> FALSE, afterIf |-> FALSE, out |-> <<>>, failed |-> FALSE]

EnclosingCol(s) ==
    IF s.stack # <<>> /\ Last(s.stack).implicit THEN Last(s.stack).col ELSE 0

Emit(s, t) == [s EXCEPT !.out = Append(@, t)]

\* Close the innermost contexts as long as they satisfy P.
CloseWhile(s, P(_), t) ==
    LET n == Len(s.stack)
        k == CHOOSE k \in 0..n : /\ \A j \in (k + 1)..n : P(s.stack[j])
                                 /\ k = 0 \/ ~P(s.stack[k])
    IN  [s EXCEPT !.stack = SubSeq(@, 1, k),
                  !.out = @ \o [i \in 1..(n - k) |-> Virtual("VCLOSE", t)]]

\* A block that the previous token announced opens, or is empty.
Opened(s, t) ==
    LET n == IF t.kind = "eof" THEN 0 ELSE t.col
    IN  IF ~s.pending THEN s
        ELSE IF n > EnclosingCol(s) \/ (s.stack = <<>> /\ n > 0)
        THEN [s EXCEPT !.pending = FALSE, !.line = t.line,
                       !.stack = Append(@, Implicit(n, s.depth, FALSE)),
                       !.out = Append(@, Virtual("VOPEN", t))]
        ELSE [s EXCEPT !.pending = FALSE,
                       !.out = @ \o <<Virtual("VOPEN", t), Virtual("VCLOSE", t)>>]

\* The alternatives of a multi-way if.
Barred(s, t) ==
    LET multi == s.afterIf /\ t.kind = "bar"
    IN  [s EXCEPT !.afterIf = FALSE,
                  !.line = IF multi THEN t.line ELSE @,
                  !.stack = IF multi THEN Append(@, Implicit(t.col, s.depth, TRUE)) ELSE @,
                  !.out = IF multi THEN Append(@, Virtual("VOPEN", t)) ELSE @]

\* The <n> rule: the first token of a line closes the blocks it is left of.
LeftOf(c, t) ==
    t.col < c.col \/ (t.col = c.col /\ ~c.nosemi /\ t.kind = "where")
StartsRight(c, t) == c.implicit /\ c.col <= t.col /\ ~c.nosemi
StartsItem(c, t) == c.implicit /\ c.col = t.col /\ ~c.nosemi
Lined(s, t) ==
    LET closed == CloseWhile(s, LAMBDA c : c.implicit /\ LeftOf(c, t), t)
    IN  IF t.line <= s.line THEN s
        ELSE IF closed.stack # <<>> /\ StartsItem(Last(closed.stack), t)
        THEN Emit(closed, Virtual("VSEMI", t)) ELSE closed

CloseImplicitAt(s, t) ==
    CloseWhile(s, LAMBDA c : c.implicit /\ c.depth = s.depth, t)

BracketedOpen(s, t) ==
    [s EXCEPT !.depth = IF t.kind = "lparen" THEN @ + 1 ELSE IF t.kind = "rparen" THEN @ - 1 ELSE @]
Bracketed(s, t) ==
    LET closed == CloseImplicitAt(s, t)
        down == IF s.depth > 0 THEN s.depth - 1 ELSE 0
    IN  CASE t.kind = "rparen" -> [closed EXCEPT !.depth = down]
          [] t.kind = "rbrace" ->
                IF closed.stack # <<>> /\ Last(closed.stack) = Explicit(s.depth)
                THEN [closed EXCEPT !.stack = Front(@)]
                ELSE [closed EXCEPT !.depth = down]
          [] t.kind \in {"lparen", "lbrace"} -> [s EXCEPT !.depth = @ + 1]
          [] OTHER -> s

Keyworded(s, t) ==
    [s EXCEPT !.pending = t.kind \in {"do", "where"} \/ (t.kind = "case" /\ s.lambda),
              !.lambda = t.kind = "backslash",
              !.afterIf = t.kind = "if",
              !.line = t.line,
              !.out = Append(@, t)]

\* The end of input closes the implicit blocks, down to an explicit one.
Ended(s, t) ==
    LET closed == CloseWhile(s, LAMBDA c : c.implicit, t)
    IN  IF closed.stack # <<>> THEN [closed EXCEPT !.failed = TRUE] ELSE Emit(closed, t)

Step(s, t) ==
    IF s.failed THEN s
    ELSE IF t.kind = "pragma" THEN Emit(s, t)
    ELSE IF s.pending /\ t.kind = "lbrace"
    THEN [s EXCEPT !.pending = FALSE, !.stack = Append(@, Explicit(s.depth)),
                   !.line = t.line, !.lambda = FALSE, !.out = Append(@, t)]
    ELSE LET ready == Barred(Opened(s, t), t)
         IN  IF t.kind = "eof" THEN Ended(ready, t)
             ELSE Keyworded(Bracketed(Lined(ready, t), t), t)

\* layout(): the state after the last token, which is the end of input.
LaidOut(tokens) ==
    LET state[i \in 0 .. Len(tokens)] ==
            IF i = 0 THEN Start(tokens) ELSE Step(state[i - 1], tokens[i])
    IN  state[Len(tokens)]
=============================================================================
