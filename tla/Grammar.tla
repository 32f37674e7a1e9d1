------------------------------ MODULE Grammar ------------------------------
(* The parser.  First its machinery (parse.h, parse.c): looking at tokens, *)
(* expecting them, names, and lists.  `toks' is the stream after layout;   *)
(* blocks have explicit braces, so the parser does not edit it (Blocks     *)
(* models the others).  Then one operator for each function of             *)
(* parse_types.c, parse_pats.c, parse_exprs.c, parse_decls.c and of the    *)
(* module part of parse.c.  They call each other through `parse', which    *)
(* reads one part.  Spans and messages are left out.                       *)
(*                                                                         *)
(* A parser function maps the place where it starts to a result: the place *)
(* behind what it has read, which is 0 when it fails, and the nodes it has *)
(* made.  What a function reads in order is a sequence of parts.           *)
EXTENDS Words

VARIABLE toks

Fail == [at |-> 0, kids |-> <<>>]
Read(i, kids) == [at |-> i, kids |-> kids]

\* A node of the tree has a class (expression, pattern, ...), a kind, a
\* name and children.
node(class, k, name, kids) == [class |-> class, k |-> k, name |-> name,
                               kids |-> kids]

Leaf(class, k, name, i) == Read(i, <<node(class, k, name, <<>>)>>)

\* The nodes of a result as children of one node.
Named(class, k, name, r) ==
  IF r.at = 0 THEN Fail ELSE Read(r.at, <<node(class, k, name, r.kids)>>)

Made(class, k, r) == Named(class, k, "", r)

\* A child that is missing.
None == node("NONE", "NONE", "", <<>>)

With(r, kid) == IF r.at = 0 THEN Fail ELSE Read(r.at, Append(r.kids, kid))

---------------------------------------------------------------------------
(* Tokens. *)

word(i) == wordAt(toks, i)

p_kind(i) == IF i \in DOMAIN toks THEN kind(toks[i]) ELSE "EOF"

\* p_at_special, p_at_keyword, p_at_op, p_at_varid, p_at_varsym.
At(i, w) == i \in DOMAIN toks /\ toks[i] = w

Accept(i, w) == IF At(i, w) THEN Read(i + 1, <<>>) ELSE Fail

---------------------------------------------------------------------------
(* Parts, each of which makes one node, or none if it is a token. *)

Tok(w) == <<"token", w>>
P(x) == <<"parse", x>>
List(x, sep) == <<"list", x, sep>>   \* one or more, separated
Many(x) == <<"many", x>>             \* as many as start here
Block(x) == <<"block", x>>
OptSemi(w) == <<"semi", w>>          \* a `;' that stands before w

\* Whether a repeated item starts at i.
at_start(x, i) ==
  CASE x = "apat" -> \/ p_kind(i) \in {"VARID"} \cup ConIds \cup Literals
                     \/ word(i) \in {"(", "[", "(#", "_", "~", "!"}
    [] x = "bang_atype" ->
         \/ p_kind(i) = "VARID" /\ word(i) # "forall"
         \/ p_kind(i) \in {"QVARID", "TICK"} \cup ConIds
              \cup (Literals \ {"FLOAT"})
         \/ word(i) \in {"(", "[", "(#", "_", "!", "~"}
    [] x = "aexp" -> \/ p_kind(i) \in VarIds \cup ConIds \cup Literals
                     \/ word(i) \in {"(", "[", "(#", "_"}
    [] x = "binder" -> \/ p_kind(i) = "VARID"
                       \/ word(i) = "(" /\ p_kind(i + 1) = "VARID"
    [] x = "varid" -> p_kind(i) = "VARID"
    [] x = "role_word" -> p_kind(i) = "VARID" \/ word(i) = "_"
    [] x = "pragma" -> p_kind(i) = "PRAGMA"
    [] x \in {"guard=", "guard->"} -> word(i) = "|"
    [] x = "deriving_clause" -> word(i) = "deriving"

\* A type argument does not start with a strictness mark.
at_atype_start(i) == at_start("bang_atype", i) /\ word(i) \notin {"!", "~"}

---------------------------------------------------------------------------
(* Sequences of parts. *)

RECURSIVE parse(_, _), sep_by(_, _, _), many(_, _), items(_, _, _, _),
          parts(_, _)

\* One or more of x, with sep between them.
sep_by(x, sep, r) ==
  LET one == parse(P(x), r.at)
      all == Read(one.at, r.kids \o one.kids)
  IN  CASE one.at = 0      -> Fail
        [] At(one.at, sep) -> sep_by(x, sep, Read(one.at + 1, all.kids))
        [] OTHER           -> all

many(x, r) ==
  IF r.at = 0 \/ ~at_start(x, r.at) THEN r
  ELSE LET one == parse(P(x), r.at)
       IN  IF one.at = 0 THEN Fail
           ELSE many(x, Read(one.at, r.kids \o one.kids))

\* Items of which some may be empty, up to and with the closing token.
items(x, sep, close, r) ==
  LET one == parse(P(x), r.at)
      all == Read(one.at, r.kids \o one.kids)
  IN  CASE r.at = 0        -> Fail
        [] At(r.at, sep)   -> items(x, sep, close, Read(r.at + 1, r.kids))
        [] At(r.at, close) -> Read(r.at + 1, r.kids)
        [] one.at = 0      -> Fail
        [] At(one.at, sep) \/ At(one.at, close) -> items(x, sep, close, all)
        [] OTHER           -> Fail

Empty == node("LIST", "LIST", "", <<>>)

enclosed(open, x, sep, close, i) ==
  IF At(i, open)
  THEN Made("LIST", "LIST", items(x, sep, close, Read(i + 1, <<>>)))
  ELSE Fail

p_block(x, i) == enclosed("{", x, ";", "}", i)

\* semis_before: DoAndIfThenElse.
semis_before(w, i) ==
  Read(IF At(i, ";") /\ At(i + 1, w) THEN i + 1 ELSE i, <<>>)

\* The parts ps, behind what r has read.
parts(r, ps) ==
  IF r.at = 0 \/ ps = <<>> THEN r
  ELSE LET one == parse(Head(ps), r.at)
       IN  IF one.at = 0 THEN Fail
           ELSE parts(Read(one.at, r.kids \o one.kids), Tail(ps))

from(i, ps) == parts(Read(i, <<>>), ps)

---------------------------------------------------------------------------
(* Names. *)

\* Constructors that are spelled with several tokens; tuples have up to
\* five parts here.
Spelled == [name \in {"()", "[]", "(,)", "(,,)", "(,,,)", "(,,,,)"} |->
              LET of(commas) == <<"(">> \o [n \in 1 .. commas |-> ","] \o <<")">>
              IN  CASE name = "()"     -> of(0)
                    [] name = "[]"     -> <<"[", "]">>
                    [] name = "(,)"    -> of(1)
                    [] name = "(,,)"   -> of(2)
                    [] name = "(,,,)"  -> of(3)
                    [] name = "(,,,,)" -> of(4)]

spells(name, i) ==
  \A n \in DOMAIN Spelled[name] : At(i + n - 1, Spelled[name][n])

p_varid(i) ==
  IF p_kind(i) = "VARID" THEN Leaf("NAME", "NAME", word(i), i + 1) ELSE Fail

conid(i) ==
  IF p_kind(i) = "CONID" THEN Leaf("NAME", "NAME", word(i), i + 1) ELSE Fail

\* An operator in parentheses, of the given kinds and reserved words.
in_parens(kinds, reserved, i) ==
  IF /\ At(i, "(") /\ At(i + 2, ")")
     /\ p_kind(i + 1) \in kinds \/ word(i + 1) \in reserved
  THEN Leaf("NAME", "NAME", word(i + 1), i + 3)
  ELSE Fail

p_parenthesized_name(i) == in_parens(VarSyms \cup ConSyms, {":", "~"}, i)

p_qname(i) ==
  LET name == p_parenthesized_name(i)
  IN  CASE name.at # 0 -> name
        [] p_kind(i) \in VarIds \cup ConIds ->
             Leaf("NAME", "NAME", word(i), i + 1)
        [] OTHER -> Fail

sig_name(i) ==
  LET name == p_parenthesized_name(i)
  IN  IF name.at # 0 THEN name ELSE p_varid(i)

\* A constructor name (gcon_ahead, bump_gcon).
p_gcon(i) ==
  LET operator == in_parens(ConSyms, {":"}, i)
      special == {name \in DOMAIN Spelled : spells(name, i)}
  IN  CASE p_kind(i) \in ConIds -> Leaf("NAME", "NAME", word(i), i + 1)
        [] operator.at # 0      -> operator
        [] special # {} ->
             LET name == CHOOSE n \in special : TRUE
             IN  Leaf("NAME", "NAME", name, i + Len(Spelled[name]))
        [] OTHER -> Fail

\* An operator: a symbol of the given kinds, one of the reserved words, or
\* a name of the given kinds in backquotes.
operator(kinds, reserved, names, i) ==
  CASE p_kind(i) \in kinds \/ word(i) \in reserved ->
         Leaf("OP", "OP", word(i), i + 1)
    [] /\ At(i, "backquote") /\ At(i + 2, "backquote")
       /\ p_kind(i + 1) \in names ->
         Leaf("OP", "OP", word(i + 1), i + 3)
    [] OTHER -> Fail

p_operator_ahead(i) ==
  operator(VarSyms \cup ConSyms, {":"}, VarIds \cup ConIds, i)

con_operator(i) == operator(ConSyms, {":"}, ConIds, i)

type_operator(i) ==
  operator(VarSyms \cup ConSyms, {"~"}, VarIds \cup ConIds, i)

var_operator_ahead(i) == operator({"VARSYM"}, {}, {"VARID"}, i)

\* A chain of operands and operators, behind the operands r.
RECURSIVE chain(_, _, _)

chain(ahead(_), x, r) ==
  LET op == ahead(r.at)
      next == parse(P(x), op.at)
  IN  CASE r.at = 0  -> Fail
        [] op.at = 0 -> r
        [] next.at = 0 -> Fail
        [] OTHER -> chain(ahead, x, Read(next.at, r.kids \o op.kids \o next.kids))

---------------------------------------------------------------------------
(* Types (parse_types.c). *)

\* A result with the further parts ps, as a node.
then(r, class, k, ps) == Made(class, k, parts(r, ps))

p_ty(i) ==
  LET left == parse(P("btype"), i)
  IN  CASE At(i, "forall") ->
             Made("TY", "FORALL",
                  from(i, <<Tok("forall"), Many("binder"), Tok("."), P("ty")>>))
        [] At(left.at, "=>") -> then(left, "TY", "QUAL", <<Tok("=>"), P("ty")>>)
        [] At(left.at, "->") -> then(left, "TY", "FUN", <<Tok("->"), P("ty")>>)
        [] OTHER             -> left

\* One of p_ty_var_binds: `a' or `(a :: k)'.
binder(i) ==
  IF p_kind(i) = "VARID" THEN Leaf("BINDER", "BINDER", word(i), i + 1)
  ELSE Named("BINDER", "BINDER", word(i + 1),
             parts(Read(i + 2, <<>>), <<Tok("::"), P("ty"), Tok(")")>>))

p_btype(i) ==
  LET all == chain(type_operator, "optype", parse(P("optype"), i))
      RECURSIVE left(_)
      left(n) == IF n = 1 THEN all.kids[1]
                 ELSE node("TY", "OP", all.kids[n - 1].name,
                           <<left(n - 2), all.kids[n]>>)
  IN  IF all.at = 0 THEN Fail ELSE Read(all.at, <<left(Len(all.kids))>>)

RECURSIVE type_arguments(_), expression_arguments(_), braces(_)

type_arguments(r) ==
  CASE At(r.at, "@") ->
         type_arguments(then(r, "TY", "APP_KIND", <<Tok("@"), P("atype")>>))
    [] at_atype_start(r.at) ->
         type_arguments(then(r, "TY", "APP", <<P("atype")>>))
    [] OTHER -> r

p_optype(i) == type_arguments(parse(P("atype"), i))

\* `[ ]', `[ t ]' or `[ t, t ]': the items as one list.
bracketed_types(i) ==
  IF At(i + 1, "]") THEN Read(i + 2, <<Empty>>)
  ELSE from(i, <<Tok("["), List("ty", ","), Tok("]")>>)

paren_type(i) ==
  LET special == {name \in DOMAIN Spelled \ {"[]"} : spells(name, i)}
      op == in_parens(VarSyms \cup ConSyms, {"~"}, i)
      first == from(i, <<Tok("("), P("ty")>>)
      sig == then(first, "TY", "KIND_SIG", <<Tok("::"), P("ty"), Tok(")")>>)
  IN  CASE special # {} ->
             LET name == CHOOSE n \in special : TRUE
             IN  Leaf("TY", "CON", name, i + Len(Spelled[name]))
        [] At(i + 1, "->") ->
             IF At(i + 2, ")") THEN Leaf("TY", "CON", "->", i + 3) ELSE Fail
        [] op.at # 0 -> Leaf("TY", "CON", word(i + 1), op.at)
        [] At(first.at, "::") -> Made("TY", "PAREN", sig)
        [] At(first.at, ")") -> Made("TY", "PAREN", Read(first.at + 1, first.kids))
        [] OTHER -> Made("TY", "TUPLE", from(i, <<Tok("("), List("ty", ","), Tok(")")>>))

\* The items of `(# ... #)', as one list.
unboxed(x, i) ==
  IF At(i + 1, "#)") THEN Read(i + 2, <<Empty>>)
  ELSE from(i, <<Tok("(#"), List(x, ","), Tok("#)")>>)

bracket_type(i) ==
  LET list == bracketed_types(i)
      inner == list.kids[1].kids
  IN  CASE list.at = 0     -> Fail
        [] Len(inner) = 0  -> Leaf("TY", "CON", "[]", list.at)
        [] Len(inner) = 1  -> Made("TY", "LIST", Read(list.at, inner))
        [] OTHER           -> Made("TY", "PROMOTED_LIST", list)

p_atype(i) ==
  CASE p_kind(i) = "VARID"  -> Leaf("TY", "VAR", word(i), i + 1)
    [] p_kind(i) \in ConIds -> Leaf("TY", "CON", word(i), i + 1)
    [] At(i, "_")           -> Leaf("TY", "WILDCARD", "", i + 1)
    [] At(i, "'") /\ At(i + 1, "[") ->
         Made("TY", "PROMOTED_LIST", bracketed_types(i + 1))
    [] At(i, "'") -> Made("TY", "PROMOTED", from(i, <<Tok("'"), P("atype")>>))
    [] p_kind(i) \in Literals \ {"FLOAT"} -> Leaf("TY", "LIT", word(i), i + 1)
    [] At(i, "[")  -> bracket_type(i)
    [] At(i, "(")  -> paren_type(i)
    [] At(i, "(#") -> Made("TY", "UNBOXED", unboxed("ty", i))
    [] OTHER       -> Fail

\* The type of a constructor argument or field, with its mark.
p_bang_type(full, i) ==
  LET x == IF full THEN P("ty") ELSE P("atype")
  IN  IF At(i, "!") \/ At(i, "~")
      THEN Named("BANG", "BANG", word(i), from(i + 1, <<x>>))
      ELSE Named("BANG", "BANG", "", from(i, <<x>>))

---------------------------------------------------------------------------
(* Patterns (parse_pats.c). *)

\* A chain of operands and operators as a node, or its only operand.
build_chain(class, r) == IF Len(r.kids) = 1 THEN r ELSE Made(class, "INFIX", r)

p_pat(i) == build_chain("PAT", chain(con_operator, "lpat", parse(P("lpat"), i)))

\* The fields in braces: `f = x', `f', and `..' which ends them.
RECURSIVE field_list(_, _)

field_list(x, r) ==
  LET name == p_qname(r.at)
      one == IF At(name.at, "=")
             THEN then(name, "FIELD", "FIELD", <<Tok("="), P(x)>>)
             ELSE Made("FIELD", "PUN", name)
      all == Read(one.at, r.kids \o one.kids)
  IN  CASE At(r.at, "..")    -> Read(r.at + 1, Append(r.kids, node("FIELD", "WILDCARD", "", <<>>)))
        [] one.at = 0        -> Fail
        [] At(one.at, ",")   -> field_list(x, Read(one.at + 1, all.kids))
        [] OTHER             -> all

fields(x, i) ==
  LET all == field_list(x, Read(i + 1, <<>>))
  IN  CASE ~At(i, "{")       -> Fail
        [] At(i + 1, "}")    -> Made("LIST", "LIST", Read(i + 2, <<>>))
        [] At(all.at, "}")   -> Made("LIST", "LIST", Read(all.at + 1, all.kids))
        [] OTHER             -> Fail

record_pat(name) ==
  Named("PAT", "RECORD", name.kids[1].name, parse(P("field_pats"), name.at))

lpat(i) ==
  LET con == p_gcon(i)
  IN  CASE At(i, "-") ->
             IF p_kind(i + 1) \in Literals
             THEN Leaf("PAT", "NEGATIVE", word(i + 1), i + 2) ELSE Fail
        [] con.at = 0      -> parse(P("apat"), i)
        [] At(con.at, "{") -> record_pat(con)
        [] OTHER -> LET args == many("apat", Read(con.at, <<>>))
                    IN  Named("PAT", "CON", con.kids[1].name, args)

---------------------------------------------------------------------------
(* Looking ahead for an arrow at bracket depth zero. *)

RECURSIVE arrow_ahead(_, _, _, _)

\* `(#' and `#)' are not counted as brackets.
arrow_ahead(i, depth, arrow, stops) ==
  CASE word(i) \in {"(", "[", "{"} -> arrow_ahead(i + 1, depth + 1, arrow, stops)
    [] word(i) \in {")", "]", "}"} ->
         depth > 0 /\ arrow_ahead(i + 1, depth - 1, arrow, stops)
    [] word(i) = arrow /\ depth = 0 -> TRUE
    [] word(i) = "EOF" \/ (word(i) \in stops /\ depth = 0) -> FALSE
    [] OTHER -> arrow_ahead(i + 1, depth, arrow, stops)

view_arrow_ahead(i) == arrow_ahead(i, 0, "->", {","})

bind_arrow_ahead(i) == arrow_ahead(i, 0, "<-", {";", ",", "=", "->", "|"})

---------------------------------------------------------------------------

\* An item of a parenthesized pattern (in paren_pat).
pattern_item(i) ==
  LET pat == parse(P("pat"), i)
  IN  CASE view_arrow_ahead(i) ->
             Made("PAT", "VIEW", from(i, <<P("exp"), Tok("->"), P("pat")>>))
        [] At(pat.at, "::") -> then(pat, "PAT", "SIG", <<Tok("::"), P("ty")>>)
        [] OTHER            -> pat

paren_pat(i) ==
  LET all == from(i, <<Tok("("), List("pattern_item", ","), Tok(")")>>)
      inner == all.kids[1].kids
  IN  CASE all.at = 0 -> Fail
        [] Len(inner) = 1 -> Made("PAT", "PAREN", Read(all.at, inner))
        [] OTHER -> Made("PAT", "TUPLE", all)

p_apat(i) ==
  LET con == p_gcon(i)
  IN  CASE p_kind(i) = "VARID" /\ At(i + 1, "@") ->
             Named("PAT", "AS", word(i), from(i + 2, <<P("apat")>>))
        [] p_kind(i) = "VARID" -> Leaf("PAT", "VAR", word(i), i + 1)
        [] At(i, "_")          -> Leaf("PAT", "WILDCARD", "", i + 1)
        [] At(i, "~") -> Made("PAT", "LAZY", from(i + 1, <<P("apat")>>))
        [] At(i, "!") -> Made("PAT", "BANG", from(i + 1, <<P("apat")>>))
        [] p_kind(i) \in Literals -> Leaf("PAT", "LIT", word(i), i + 1)
        [] con.at # 0 /\ At(con.at, "{") /\ ~At(i, "[") -> record_pat(con)
        [] con.at # 0 -> Named("PAT", "CON", con.kids[1].name, Read(con.at, <<>>))
        [] At(i, "[") ->
             Made("PAT", "LIST", from(i, <<Tok("["), List("pat", ","), Tok("]")>>))
        [] At(i, "(")  -> paren_pat(i)
        [] At(i, "(#") -> Made("PAT", "UNBOXED", unboxed("pat", i))
        [] OTHER       -> Fail

---------------------------------------------------------------------------
(* Expressions (parse_exprs.c). *)

p_exp(i) ==
  LET e == parse(P("infixexp"), i)
  IN  IF At(e.at, "::") THEN then(e, "EXPR", "SIG", <<Tok("::"), P("ty")>>)
      ELSE e

operand(i) ==
  IF At(i, "-") THEN Made("EXPR", "NEG", from(i + 1, <<P("lexp")>>))
  ELSE parse(P("lexp"), i)

\* infixexp_or_section without sections.
infixexp(i) ==
  build_chain("EXPR", chain(p_operator_ahead, "operand", parse(P("operand"), i)))

\* infixexp_or_section with sections: an operator that `)' follows ends the
\* chain.
before_paren(i) ==
  LET op == p_operator_ahead(i) IN IF At(op.at, ")") THEN Fail ELSE op

section_chain(i) ==
  build_chain("EXPR", chain(before_paren, "operand", parse(P("operand"), i)))

\* The guards of one `|', up to its expression.
guarded(sep, i) ==
  Made("GUARDED", "GUARDED",
       from(i, <<Tok("|"), List("stmt", ","), Tok(sep), P("exp")>>))

multi_if(i) ==
  LET guards == many("guard->", Read(i + 2, <<>>))
  IN  IF At(guards.at, "}")
      THEN Made("EXPR", "MULTI_IF", Read(guards.at + 1, guards.kids))
      ELSE Fail

lexp(i) ==
  CASE At(i, "\\") /\ At(i + 1, "case") ->
         Made("EXPR", "LAMBDA_CASE", from(i + 2, <<Block("alt")>>))
    [] At(i, "\\") ->
         Made("EXPR", "LAMBDA", from(i + 1, <<Many("apat"), Tok("->"), P("exp")>>))
    [] At(i, "let") ->
         Made("EXPR", "LET", from(i + 1, <<Block("local decl"), Tok("in"), P("exp")>>))
    [] At(i, "if") /\ At(i + 1, "{") /\ At(i + 2, "|") -> multi_if(i)
    [] At(i, "if") ->
         Made("EXPR", "IF",
              from(i + 1, <<P("exp"), OptSemi("then"), Tok("then"), P("exp"),
                            OptSemi("else"), Tok("else"), P("exp")>>))
    [] At(i, "case") ->
         Made("EXPR", "CASE", from(i + 1, <<P("exp"), Tok("of"), Block("alt")>>))
    [] At(i, "do") -> Made("EXPR", "DO", from(i + 1, <<Block("stmt")>>))
    [] OTHER       -> expression_arguments(parse(P("aexp"), i))

\* fexp: the arguments behind a function.
expression_arguments(r) ==
  CASE At(r.at, "@") ->
         expression_arguments(then(r, "EXPR", "TYPE_APP", <<Tok("@"), P("atype")>>))
    [] at_start("aexp", r.at) ->
         expression_arguments(then(r, "EXPR", "APP", <<P("aexp")>>))
    [] OTHER -> r

\* aexp: the record braces behind an atomic expression.
braces(r) ==
  LET all == parse(P("updates"), r.at)
      updates == all.kids[1].kids
      e == r.kids[1]
      wildcard == \E n \in DOMAIN updates : updates[n].k = "WILDCARD"
  IN  CASE ~At(r.at, "{")  -> r
        [] all.at = 0      -> Fail
        [] e.k = "CON"     -> braces(Named("EXPR", "RECORD_CON", e.name, all))
        [] wildcard        -> Fail
        [] OTHER -> braces(Made("EXPR", "RECORD_UPDATE", Read(all.at, <<e>> \o all.kids)))

\* The items between parentheses, of which some may be missing.  A section
\* ends the loop, wherever it stands, and has the place of all items.
RECURSIVE paren_items(_)

paren_items(r) ==
  LET e == parse(P("section"), r.at)
      op == p_operator_ahead(e.at)
      sig == then(e, "EXPR", "SIG", <<Tok("::"), P("ty")>>)
      item == CASE word(r.at) \in {",", ")"} -> Read(r.at, <<None>>)
                [] At(e.at, "::")            -> sig
                [] OTHER                     -> e
      all == Read(item.at, r.kids \o item.kids)
      section == op.at # 0 /\ At(op.at, ")") /\ word(r.at) \notin {",", ")"}
  IN  CASE item.at = 0 -> Fail
        [] section -> Made("EXPR", "LEFT_SECTION", Read(op.at + 1, e.kids \o op.kids))
        [] At(all.at, ",") -> paren_items(Read(all.at + 1, all.kids))
        [] At(all.at, ")") -> Read(all.at + 1, <<node("LIST", "ITEMS", "", all.kids)>>)
        [] OTHER           -> Fail

paren_exp(i) ==
  LET op == p_operator_ahead(i + 1)
      right == Made("EXPR", "RIGHT_SECTION",
                    parts(op, <<P("infixexp"), Tok(")")>>))
      all == paren_items(Read(i + 1, <<>>))
      inner == all.kids[1].kids
  IN  CASE op.at # 0 /\ ~At(i + 1, "-") -> right
        [] all.at = 0 -> Fail
        [] all.kids[1].k = "LEFT_SECTION" -> all
        [] Len(inner) > 1 ->
             LET some == \A n \in DOMAIN inner : inner[n] # None
             IN  Made("EXPR", IF some THEN "TUPLE" ELSE "TUPLE_SECTION", all)
        [] inner[1] = None -> Fail
        [] OTHER -> Made("EXPR", "PAREN", Read(all.at, inner))

\* The end of an arithmetic sequence, behind `..'.
seq_end(r) ==
  LET to == parts(r, <<P("exp"), Tok("]")>>)
  IN  Made("EXPR", "ARITH_SEQ",
           IF At(r.at, "]") THEN Read(r.at + 1, Append(r.kids, None)) ELSE to)

bracket_exp(i) ==
  LET first == from(i, <<Tok("["), P("exp")>>)
      second == parts(first, <<Tok(","), P("exp")>>)
  IN  CASE At(first.at, "..") -> seq_end(Read(first.at + 1, Append(first.kids, None)))
        [] At(first.at, "|") ->
             then(first, "EXPR", "LIST_COMP", <<Tok("|"), List("stmt", ","), Tok("]")>>)
        [] At(second.at, "..") -> seq_end(Read(second.at + 1, second.kids))
        [] OTHER ->
             Made("EXPR", "LIST", from(i, <<Tok("["), List("exp", ","), Tok("]")>>))

aexp1(i) ==
  LET con == p_gcon(i)
      var == p_parenthesized_name(i)
  IN  CASE p_kind(i) \in VarIds   -> Leaf("EXPR", "VAR", word(i), i + 1)
        [] At(i, "_")             -> Leaf("EXPR", "HOLE", "", i + 1)
        [] p_kind(i) \in Literals -> Leaf("EXPR", "LIT", word(i), i + 1)
        [] con.at # 0  -> Leaf("EXPR", "CON", con.kids[1].name, con.at)
        [] var.at # 0  -> Leaf("EXPR", "VAR", word(i + 1), var.at)
        [] At(i, "(")  -> parse(P("paren_exp"), i)
        [] At(i, "[")  -> parse(P("bracket_exp"), i)
        [] At(i, "(#") -> Made("EXPR", "UNBOXED", unboxed("exp", i))
        [] OTHER       -> Fail

p_stmt1(i) ==
  LET decls == from(i, <<Tok("let"), Block("local decl")>>)
      let_in == then(decls, "EXPR", "LET", <<Tok("in"), P("exp")>>)
      pat == parse(P("pat"), i)
      sig == IF At(pat.at, "::") THEN then(pat, "PAT", "SIG", <<Tok("::"), P("ty")>>)
             ELSE pat
  IN  CASE At(i, "let") /\ At(decls.at, "in") ->
             Made("STMT", "EXPR",
                  build_chain("EXPR", chain(p_operator_ahead, "operand", let_in)))
        [] At(i, "let") -> Made("STMT", "LET", decls)
        [] bind_arrow_ahead(i) -> then(sig, "STMT", "BIND", <<Tok("<-"), P("exp")>>)
        [] OTHER -> Made("STMT", "EXPR", parse(P("exp"), i))

\* An optional `where' with its block.
where_decls(x, r) ==
  IF At(r.at, "where") THEN parts(r, <<Tok("where"), Block(x)>>)
  ELSE With(r, Empty)

p_rhs(sep, i) ==
  LET guards == from(i, <<Many(IF sep = "=" THEN "guard=" ELSE "guard->")>>)
      right == IF At(i, "|") THEN guards ELSE from(i, <<Tok(sep), P("exp")>>)
  IN  Made("RHS", IF At(i, "|") THEN "GUARDED" ELSE "PLAIN",
           where_decls("local decl", right))

alt_item(i) == Made("ALT", "ALT", from(i, <<P("pat"), P("rhs->")>>))

---------------------------------------------------------------------------
(* Declarations (parse_decls.c). *)

at_lhs_end(i) == At(i, "=") \/ At(i, "|")

\* The optional part ps, which starts with w; a missing child otherwise.
optional(w, ps, r) ==
  IF At(r.at, w) THEN parts(r, <<Tok(w)>> \o ps) ELSE With(r, None)

\* The left-hand side: a function with arguments, or else, from its start
\* again, an infix definition or a pattern.
lhs(i) ==
  LET name == sig_name(i)
      args == many("apat", Read(name.at, <<>>))
      pat == parse(P("pat"), i)
      left == IF At(pat.at, "::") THEN then(pat, "PAT", "SIG", <<Tok("::"), P("ty")>>)
              ELSE pat
      op == var_operator_ahead(left.at)
  IN  CASE name.at # 0 /\ args.at = 0 -> Fail
        [] name.at # 0 /\ at_lhs_end(args.at) ->
             Named("LHS", "FUN", name.kids[1].name, args)
        [] op.at # 0 ->
             Made("LHS", "INFIX", parts(Read(op.at, left.kids \o op.kids), <<P("pat")>>))
        [] at_lhs_end(left.at) -> Made("LHS", "PAT", left)
        [] OTHER -> Fail

sig_or_binding(i) ==
  LET names == from(i, <<List("sig_name", ",")>>)
  IN  IF At(names.at, "::") THEN then(names, "DECL", "TYPE_SIG", <<Tok("::"), P("ty")>>)
      ELSE Made("DECL", "BIND", from(i, <<P("lhs"), P("rhs=")>>))

\* The word at i as a node, if a condition holds.
word_if(condition, i) ==
  IF condition THEN node("NAME", "NAME", word(i), <<>>) ELSE None

foreign_decl(i) ==
  LET safety == IF At(i + 3, "unsafe") THEN i + 4 ELSE i + 3
      entity == IF p_kind(safety) = "STRING" THEN safety + 1 ELSE safety
  IN  IF At(i + 1, "import") /\ At(i + 2, "ccall")
      THEN Made("DECL", "FOREIGN",
                parts(Read(entity, <<word_if(safety > i + 3, i + 3),
                                     word_if(entity > safety, safety)>>),
                      <<P("sig_name"), Tok("::"), P("ty")>>))
      ELSE Fail

pattern_decl_ahead(i) ==
  \/ p_kind(i + 1) \in ConIds
  \/ /\ p_kind(i + 1) \in VarIds
     /\ p_kind(i + 2) \in ConSyms \/ At(i + 2, "backquote")

\* The names and arguments of a pattern synonym.
pattern_head(i) ==
  LET con == conid(i)
      op == operator({"CONSYM"}, {":"}, {"CONID"}, i + 1)
      infix == parts(Read(op.at, p_varid(i).kids \o op.kids), <<P("varid")>>)
  IN  CASE con.at = 0 -> IF p_varid(i).at = 0 THEN Fail
                         ELSE Made("PATSYN", "INFIX", infix)
        [] At(con.at, "{") /\ At(con.at + 1, "}") ->
             Named("PATSYN", "RECORD", word(i), Read(con.at + 2, <<>>))
        [] At(con.at, "{") ->
             Named("PATSYN", "RECORD", word(i),
                   parts(sep_by("varid", ",", Read(con.at + 1, <<>>)), <<Tok("}")>>))
        [] OTHER -> Named("PATSYN", "PREFIX", word(i), many("varid", Read(con.at, <<>>)))

pat_syn(i) ==
  LET names == from(i + 1, <<List("conid", ",")>>)
      head == pattern_head(i + 1)
      both == parts(head, <<Tok("<-"), P("pat")>>)
  IN  CASE At(names.at, "::") ->
             then(names, "DECL", "PAT_SYN_SIG", <<Tok("::"), P("ty")>>)
        [] At(head.at, "=") -> then(head, "DECL", "IMPLICIT", <<Tok("="), P("pat")>>)
        [] At(both.at, "where") ->
             then(both, "DECL", "EXPLICIT", <<Tok("where"), Block("local decl")>>)
        [] OTHER -> Made("DECL", "UNIDIRECTIONAL", both)

operator_name(i) == operator({"VARSYM", "CONSYM"}, {":"}, {"VARID", "CONID"}, i)

fixity(i) ==
  LET prec == IF p_kind(i + 1) = "INTEGER"
              THEN Read(i + 2, <<word_if(TRUE, i + 1)>>)
              ELSE Read(i + 1, <<None>>)
  IN  Named("DECL", "FIXITY", word(i), parts(prec, <<List("operator_name", ",")>>))

\* Whether a word with the property comes before the end of this
\* constructor, at bracket depth zero (scan_for_double_arrow and
\* con_is_infix).
RECURSIVE scan(_, _, _)

scan(found(_), i, depth) ==
  CASE word(i) \in {"(", "[", "{"} -> scan(found, i + 1, depth + 1)
    [] word(i) \in {")", "]", "}"} -> depth > 0 /\ scan(found, i + 1, depth - 1)
    [] depth = 0 /\ found(i)       -> TRUE
    [] word(i) = "EOF"             -> FALSE
    [] depth = 0 /\ word(i) \in {"|", "=", "deriving", "where", ";", "backquote"} ->
         FALSE
    [] OTHER                       -> scan(found, i + 1, depth)

double_arrow(i) == word(i) = "=>"

con_operator_at(i) ==
  \/ p_kind(i) \in ConSyms \/ At(i, ":")
  \/ At(i, "backquote") /\ p_kind(i + 1) \in ConIds

infix_con_arg(i) ==
  IF At(i, "!") \/ At(i, "~") THEN p_bang_type(FALSE, i)
  ELSE Named("BANG", "BANG", "", parse(P("optype"), i))

record_field(i) ==
  Made("CON_FIELD", "CON_FIELD",
       from(i, <<List("sig_name", ","), Tok("::"), P("bang_ty")>>))

\* What a constructor has behind its `forall' and context.
con_body(i) ==
  LET op == operator({"CONSYM"}, {":"}, {"CONID"}, infix_con_arg(i).at)
      name == conid(i)
  IN  CASE scan(con_operator_at, i, 0) ->
             Made("CON", "INFIX",
                  parts(Read(op.at, infix_con_arg(i).kids \o op.kids),
                        <<P("infix_con_arg")>>))
        [] spells("[]", i) -> Leaf("CON", "PREFIX", "[]", i + 2)
        [] name.at = 0 -> Fail
        [] At(name.at, "{") /\ At(name.at + 1, "}") ->
             Leaf("CON", "RECORD", word(i), name.at + 2)
        [] At(name.at, "{") ->
             Named("CON", "RECORD", word(i),
                   parts(sep_by("record_field", ",", Read(name.at + 1, <<>>)),
                         <<Tok("}")>>))
        [] OTHER -> Named("CON", "PREFIX", word(i), many("bang_atype", Read(name.at, <<>>)))

con_decl(i) ==
  LET quantified == IF At(i, "forall")
                    THEN from(i, <<Tok("forall"), Many("binder"), Tok(".")>>)
                    ELSE Read(i, <<Empty>>)
      context == IF scan(double_arrow, quantified.at, 0)
                 THEN parts(quantified, <<P("btype"), Tok("=>")>>)
                 ELSE With(quantified, None)
  IN  Made("CONDECL", "CONDECL", parts(context, <<P("con_body")>>))

gadt_con(i) ==
  Made("CON", "GADT", from(i, <<List("gadt_name", ","), Tok("::"), P("ty")>>))

gadt_name(i) == LET op == p_parenthesized_name(i) IN IF op.at # 0 THEN op ELSE conid(i)

deriving_clause(i) ==
  LET strategy == IF word(i + 1) \in {"stock", "anyclass", "newtype"} THEN word(i + 1) ELSE ""
      start == IF strategy = "" THEN i + 1 ELSE i + 2
      none == node("LIST", "PARENS", "", <<>>)
      classes == CASE At(start, "(") /\ At(start + 1, ")") -> Read(start + 2, <<none>>)
                   [] At(start, "(") ->
                        parts(Made("LIST", "PARENS", sep_by("ty", ",", Read(start + 1, <<>>))),
                              <<Tok(")")>>)
                   [] OTHER -> Made("LIST", "ONE", from(start, <<P("atype")>>))
  IN  Named("DERIVING", "DERIVING", strategy, optional("via", <<P("atype")>>, classes))

\* The constructors and the deriving clauses, behind the head r.
data_body(r) ==
  LET gadt == p_block("gadt_con", r.at + 1)
      cons == CASE At(r.at, "=") -> parts(r, <<Tok("="), List("con_decl", "|")>>)
                [] ~At(r.at, "where") -> With(r, Empty)
                [] gadt.at = 0 -> Fail
                [] OTHER -> With(Read(gadt.at, r.kids), [gadt.kids[1] EXCEPT !.k = "GADT"])
  IN  parts(cons, <<Many("deriving_clause")>>)


kind_sig(r) == optional("::", <<P("ty")>>, r)

\* `data' or `newtype', with the keyword `family' or `instance' or none.
\* In a class it is a data family, whatever its keywords.
data_decl(newtype, ctx, i) ==
  LET family == ~newtype /\ At(i + 1, "family")
      instance == At(i + 1, "instance")
      start == Read(IF family \/ instance THEN i + 2 ELSE i + 1,
                    <<word_if(family \/ (instance /\ ctx # "class decl"), i + 1)>>)
  IN  CASE family \/ ctx = "class decl" ->
             Named("DECL", "DATA_FAMILY", "data",
                   kind_sig(parts(start, <<P("conid"), Many("binder")>>)))
        [] instance \/ ctx = "instance decl" ->
             Named("DECL", "DATA", word(i),
                   data_body(kind_sig(With(parts(start, <<P("btype")>>), Empty))))
        [] OTHER ->
             Named("DECL", "DATA", word(i),
                   data_body(kind_sig(parts(start, <<P("gadt_name"), Many("binder")>>))))

\* What a type family may have behind its head: a kind, or an injectivity
\* annotation, whose second name for the result is not kept.
family_result(head) ==
  LET result == parts(head, <<Tok("="), P("binder"), Tok("|")>>)
      again == p_varid(result.at)
  IN  CASE At(head.at, "::") -> kind_sig(head)
        [] At(head.at, "=") ->
             parts(Read(again.at, result.kids), <<Tok("->"), Many("varid")>>)
        [] OTHER -> head

type_decl(ctx, i) ==
  LET family == At(i + 1, "family")
      next == IF family THEN i + 2 ELSE i + 1
      instance == At(next, "instance")
      head == parts(Read(next, <<word_if(family, i + 1)>>),
                    <<P("conid"), Many("binder")>>)
      equation == parts(Read(IF instance THEN next + 1 ELSE next,
                             <<word_if(instance, next)>>),
                        <<P("btype"), Tok("="), P("ty")>>)
  IN  CASE At(i + 1, "role") ->
             Made("DECL", "ROLE", from(i + 2, <<P("gadt_name"), Many("role_word")>>))
        [] instance \/ ctx = "instance decl" ->
             Made("DECL", "TYPE_INSTANCE", equation)
        [] family \/ ctx = "class decl" ->
             Made("DECL", "TYPE_FAMILY", family_result(head))
        [] OTHER -> then(head, "DECL", "TYPE_SYN", <<Tok("="), P("ty")>>)

fundep(i) ==
  Made("FUNDEP", "FUNDEP", from(i, <<Many("varid"), Tok("->"), Many("varid")>>))

class_decl(i) ==
  LET context == IF scan(double_arrow, i + 1, 0)
                 THEN from(i + 1, <<P("btype"), Tok("=>")>>)
                 ELSE Read(i + 1, <<None>>)
      head == parts(context, <<P("conid"), Many("binder")>>)
      fundeps == IF At(head.at, "|") THEN parts(head, <<Tok("|"), List("fundep", ",")>>)
                 ELSE With(head, Empty)
  IN  Made("DECL", "CLASS", where_decls("class decl", fundeps))

instance_decl(i) ==
  Made("DECL", "INSTANCE",
       where_decls("instance decl", from(i, <<Tok("instance"), P("ty")>>)))

standalone_deriving(i) ==
  LET strategy == word(i + 1) \in {"stock", "anyclass", "newtype"}
      via == IF strategy THEN Read(i + 2, <<None>>)
             ELSE optional("via", <<P("atype")>>, Read(i + 1, <<>>))
  IN  Named("DECL", "DERIVING", IF strategy THEN word(i + 1) ELSE "",
            parts(via, <<Tok("instance"), P("ty")>>))

default_sig(i) ==
  IF p_kind(i + 1) \in VarIds \/ At(i + 1, "(")
  THEN Made("DECL", "DEFAULT_SIG", from(i + 1, <<P("sig_name"), Tok("::"), P("ty")>>))
  ELSE Fail

p_decl(ctx, i) ==
  CASE At(i, "data")     -> data_decl(FALSE, ctx, i)
    [] At(i, "newtype")  -> data_decl(TRUE, ctx, i)
    [] At(i, "type")     -> type_decl(ctx, i)
    [] At(i, "class")    -> class_decl(i)
    [] At(i, "instance") -> instance_decl(i)
    [] word(i) \in {"infix", "infixl", "infixr"} -> fixity(i)
    [] At(i, "deriving") -> standalone_deriving(i)
    [] At(i, "foreign")  -> foreign_decl(i)
    [] At(i, "default")  -> IF ctx = "class decl" THEN default_sig(i) ELSE Fail
    [] ctx = "decl" /\ At(i, "pattern") /\ pattern_decl_ahead(i) -> pat_syn(i)
    [] OTHER             -> sig_or_binding(i)

---------------------------------------------------------------------------
(* Modules (parse.c). *)

modid(i) ==
  IF p_kind(i) \in ConIds THEN Leaf("NAME", "NAME", word(i), i + 1) ELSE Fail

next_starts_name(i) == p_kind(i + 1) \in VarIds \cup ConIds \/ At(i + 1, "(")

is_var_name(name) == kind(name) \in VarIds \cup VarSyms \/ name = "~"

\* The names are kept without their qualifiers.
sub_name(i) ==
  LET name == p_qname(i)
  IN  IF name.at = 0 THEN Fail
      ELSE Leaf("NAME", "NAME", unqualified(name.kids[1].name), name.at)

subs(r) ==
  LET all == At(r.at + 1, "..")
      names == items("sub_name", ",", ")",
                     Read(IF all THEN r.at + 2 ELSE r.at + 1, <<>>))
  IN  CASE ~At(r.at, "(") -> With(r, None)
        [] names.at = 0   -> Fail
        [] OTHER -> Read(names.at,
                         Append(r.kids, node("SUBS", IF all THEN "ALL" ELSE "SOME",
                                             "", names.kids)))

\* An item of an import list; an export keeps the qualifier of its name.
import_item(x, i) ==
  LET explicit_type == At(i, "type") /\ next_starts_name(i)
      start == IF explicit_type THEN i + 1 ELSE i
      name == from(start, <<P(x)>>)
      thing == subs(Read(name.at, <<word_if(explicit_type, i)>> \o name.kids))
  IN  CASE At(i, "pattern") /\ next_starts_name(i) ->
             Made("ITEM", "PATTERN", from(i + 1, <<P(x)>>))
        [] p_kind(start) \notin VarIds \cup ConIds /\ ~At(start, "(") -> Fail
        [] explicit_type /\ p_kind(start) \in VarIds -> Fail
        [] name.at = 0 -> Fail
        [] ~explicit_type /\ is_var_name(name.kids[1].name) ->
             Made("ITEM", "VAR", name)
        [] OTHER -> Made("ITEM", "THING", thing)

export_item(i) ==
  IF At(i, "module") THEN Made("ITEM", "MODULE", from(i + 1, <<P("modid")>>))
  ELSE import_item("qname", i)

\* The list of an import, behind what precedes it.
import_list(qualified, r) ==
  LET hiding == At(r.at, "hiding")
      start == IF hiding THEN r.at + 1 ELSE r.at
      list == enclosed("(", "import_item", ",", ")", start)
  IN  Named("IMPORT", IF hiding THEN "HIDING" ELSE "IMPORT", qualified,
            CASE At(start, "(") -> IF list.at = 0 THEN Fail
                                   ELSE Read(list.at, r.kids \o list.kids)
              [] hiding         -> Fail
              [] OTHER          -> With(r, None))

import_decl(i) ==
  LET pre == At(i + 1, "qualified")
      start == IF pre THEN i + 2 ELSE i + 1
      package == p_kind(start) = "STRING"
      named == parts(Read(IF package THEN start + 1 ELSE start, <<word_if(package, start)>>),
                     <<P("modid")>>)
      post == At(named.at, "qualified")
      alias == optional("as", <<P("modid")>>,
                        Read(IF post THEN named.at + 1 ELSE named.at, named.kids))
  IN  import_list(CASE post -> "POST" [] pre -> "PRE" [] OTHER -> "NO", alias)

\* Imports come before declarations: a later `import' starts no declaration.
body_item(i) == IF At(i, "import") THEN import_decl(i) ELSE p_decl("decl", i)

imports_first(body) ==
  \A n \in 1 .. Len(body) - 1 :
    body[n + 1].class = "IMPORT" => body[n].class = "IMPORT"

header(r) ==
  LET named == parts(r, <<Tok("module"), P("modid")>>)
      exports == enclosed("(", "export_item", ",", ")", named.at)
  IN  CASE ~At(r.at, "module") ->
             Read(r.at, r.kids \o <<node("NAME", "NAME", "Main", <<>>), None>>)
        [] ~At(named.at, "(")  -> parts(With(named, None), <<Tok("where")>>)
        [] exports.at = 0      -> Fail
        [] OTHER -> parts(Read(exports.at, named.kids \o exports.kids), <<Tok("where")>>)

\* The whole stream.
module(i) ==
  LET all == parts(header(from(i, <<Many("pragma")>>)), <<Block("body_item")>>)
  IN  IF /\ all.at # 0 /\ p_kind(all.at) = "EOF"
         /\ imports_first(all.kids[4].kids)
      THEN Made("MODULE", "MODULE", all)
      ELSE Fail

---------------------------------------------------------------------------

\* The items that are words of one kind.
item_word(kinds, w, i) ==
  IF p_kind(i) \in kinds \/ word(i) = w THEN Leaf("NAME", "NAME", word(i), i + 1)
  ELSE Fail

named_item(x, i) ==
  CASE x = "ty"         -> p_ty(i)
    [] x = "btype"      -> p_btype(i)
    [] x = "optype"     -> p_optype(i)
    [] x = "atype"      -> p_atype(i)
    [] x = "binder"     -> binder(i)
    [] x = "bang_atype" -> p_bang_type(FALSE, i)
    [] x = "bang_ty"    -> p_bang_type(TRUE, i)
    [] x = "pat"        -> p_pat(i)
    [] x = "lpat"       -> lpat(i)
    [] x = "apat"       -> p_apat(i)
    [] x = "pattern_item" -> pattern_item(i)
    [] x = "exp"        -> p_exp(i)
    [] x = "infixexp"   -> infixexp(i)
    [] x = "operand"    -> operand(i)
    [] x = "lexp"       -> lexp(i)
    [] x = "aexp"       -> braces(parse(P("aexp1"), i))
    [] x = "aexp1"      -> aexp1(i)
    [] x = "section"    -> section_chain(i)
    [] x = "paren_exp"  -> paren_exp(i)
    [] x = "bracket_exp" -> bracket_exp(i)
    [] x = "updates" -> fields("exp", i)
    [] x = "field_pats" -> fields("pat", i)
    [] x = "stmt"       -> p_stmt1(i)
    [] x = "alt"        -> alt_item(i)
    [] x = "rhs="       -> p_rhs("=", i)
    [] x = "rhs->"      -> p_rhs("->", i)
    [] x = "guard="     -> guarded("=", i)
    [] x = "guard->"    -> guarded("->", i)
    [] x = "lhs"        -> lhs(i)
    [] x = "sig_name"   -> sig_name(i)
    [] x = "gadt_name"  -> gadt_name(i)
    [] x = "qname"      -> p_qname(i)
    [] x = "sub_name"   -> sub_name(i)
    [] x = "varid"      -> p_varid(i)
    [] x = "conid"      -> conid(i)
    [] x = "modid"      -> modid(i)
    [] x = "role_word"  -> item_word({"VARID"}, "_", i)
    [] x = "pragma"     -> item_word({"PRAGMA"}, "", i)
    [] x = "operator_name" -> operator_name(i)
    [] x = "con_decl"   -> con_decl(i)
    [] x = "con_body"   -> con_body(i)
    [] x = "gadt_con"   -> gadt_con(i)
    [] x = "infix_con_arg" -> infix_con_arg(i)
    [] x = "record_field" -> record_field(i)
    [] x = "deriving_clause" -> deriving_clause(i)
    [] x = "fundep"     -> fundep(i)
    [] x = "import_item" -> import_item("sub_name", i)
    [] x = "export_item" -> export_item(i)
    [] x = "body_item"  -> body_item(i)
    [] x = "module"     -> module(i)
    [] OTHER            -> p_decl(x, i)

parse(part, i) ==
  CASE part[1] = "token" -> Accept(i, part[2])
    [] part[1] = "parse" -> named_item(part[2], i)
    [] part[1] = "list"  ->
         Made("LIST", "LIST", sep_by(part[2], part[3], Read(i, <<>>)))
    [] part[1] = "many"  -> Made("LIST", "LIST", many(part[2], Read(i, <<>>)))
    [] part[1] = "block" -> p_block(part[2], i)
    [] part[1] = "semi"  -> semis_before(part[2], i)

parse_module == parse(P("module"), 1)

=============================================================================
