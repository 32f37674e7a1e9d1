------------------------------ MODULE Printer ------------------------------
(* The printer (print.c): a syntax tree back to text, with a case for each *)
(* kind of node.  Whether print.c puts white space between two words is    *)
(* what its reader depends on, so it is kept; a line break is a space.     *)
EXTENDS Grammar

RECURSIVE pr(_), joined(_, _)

sp == <<" ">>
comma == <<",", " ">>
around(w) == <<" ", w, " ">>

\* The nodes ns with a separator between them.
joined(ns, sep) ==
  CASE Len(ns) = 0 -> <<>>
    [] Len(ns) = 1 -> pr(ns[1])
    [] OTHER       -> pr(ns[1]) \o sep \o joined(Tail(ns), sep)

\* The nodes ns, each behind a word (pr_words, pr_binders).
each(before, ns) == IF ns = <<>> THEN <<>> ELSE before \o joined(ns, before)

\* A node that may be missing, with what stands before or behind it.
lead(before, n) == IF n = None THEN <<>> ELSE before \o pr(n)
trail(n, behind) == IF n = None THEN <<>> ELSE pr(n) \o behind

\* ` { d; d }' (pr_decl_block, pr_alts).
block(list) ==
  <<" ", "{">> \o (IF list.kids = <<>> THEN <<>> ELSE sp)
  \o joined(list.kids, <<";", " ">>) \o <<"}">>

strategy_word(s) == IF s = "" THEN <<>> ELSE <<s, " ">>

---------------------------------------------------------------------------
(* Names. *)

is_symbolic(name) == kind(name) \in VarSyms \cup ConSyms \cup {"RESERVEDOP"}

\* con_name keeps the names of Spelled as they are.
var_name(name) ==
  CASE name \in DOMAIN Spelled -> Spelled[name]
    [] is_symbolic(name)       -> <<"(", name, ")">>
    [] OTHER                   -> <<name>>

op_name(name) ==
  IF is_symbolic(name) THEN <<name>> ELSE <<"backquote", name, "backquote">>

---------------------------------------------------------------------------

pr_ty(t) ==
  LET a == pr(t.kids[1])
      b == pr(t.kids[Len(t.kids)])
      list(sep) == joined(t.kids[1].kids, sep)
  IN  CASE t.k \in {"VAR", "LIT"} -> <<t.name>>
        [] t.k = "CON"      -> var_name(t.name)
        [] t.k = "WILDCARD" -> <<"_">>
        [] t.k = "APP"      -> a \o sp \o b
        [] t.k = "APP_KIND" -> a \o <<" ", "@">> \o b
        [] t.k = "FUN"      -> a \o around("->") \o b
        [] t.k = "QUAL"     -> a \o around("=>") \o b
        [] t.k = "KIND_SIG" -> a \o around("::") \o b
        [] t.k = "OP"       -> a \o sp \o op_name(t.name) \o sp \o b
        [] t.k = "LIST"     -> <<"[">> \o a \o <<"]">>
        [] t.k = "PAREN"    -> <<"(">> \o a \o <<")">>
        [] t.k = "TUPLE"    -> <<"(">> \o list(comma) \o <<")">>
        [] t.k = "PROMOTED" -> <<"'">> \o a
        [] t.k = "PROMOTED_LIST" -> <<"'", "[">> \o list(comma) \o <<"]">>
        [] t.k = "FORALL"   -> <<"forall">> \o each(sp, t.kids[1].kids) \o <<".", " ">> \o b

\* `(# ... #)' of types, patterns or expressions.
pr_unboxed(n) ==
  LET inner == n.kids[1].kids
  IN  <<"(#", " ">> \o joined(inner, comma)
      \o (IF inner = <<>> THEN <<>> ELSE sp) \o <<"#)">>

pr_fields(list) == <<" ", "{">> \o joined(list.kids, comma) \o <<"}">>

pr_field(f) ==
  CASE f.k = "FIELD"    -> joined(f.kids, around("="))
    [] f.k = "PUN"      -> pr(f.kids[1])
    [] f.k = "WILDCARD" -> <<"..">>

pr_pat(p) ==
  LET a == pr(p.kids[1])
      list == joined(p.kids[1].kids, comma)
  IN  CASE p.k = "VAR"      -> var_name(p.name)
        [] p.k = "WILDCARD" -> <<"_">>
        [] p.k = "LIT"      -> <<p.name>>
        [] p.k = "NEGATIVE" -> <<"-", p.name>>
        [] p.k = "CON"      -> var_name(p.name) \o each(sp, p.kids)
        [] p.k = "INFIX"    -> joined(p.kids, sp)
        [] p.k = "RECORD"   -> var_name(p.name) \o pr_fields(p.kids[1])
        [] p.k = "TUPLE"    -> <<"(">> \o list \o <<")">>
        [] p.k = "LIST"     -> <<"[">> \o list \o <<"]">>
        [] p.k = "PAREN"    -> <<"(">> \o a \o <<")">>
        [] p.k = "AS"       -> <<p.name, "@">> \o a
        [] p.k = "LAZY"     -> <<"~">> \o a
        [] p.k = "BANG"     -> <<"!">> \o a
        [] p.k = "VIEW"     -> joined(p.kids, around("->"))
        [] p.k = "SIG"      -> joined(p.kids, around("::"))

---------------------------------------------------------------------------
(* Expressions. *)

pr_guards(sep, guards) ==
  LET one(g) == joined(g.kids[1].kids, comma) \o around(sep) \o pr(g.kids[2])
      RECURSIVE from_guard(_)
      from_guard(n) == IF n > Len(guards) THEN <<>>
                       ELSE around("|") \o one(guards[n]) \o from_guard(n + 1)
  IN  from_guard(1)

\* `= e' or guards, then `where' if it has declarations.
pr_rhs(rhs, sep) ==
  LET decls == rhs.kids[2]
      right == IF rhs.k = "PLAIN" THEN around(sep) \o pr(rhs.kids[1])
               ELSE pr_guards(sep, rhs.kids[1].kids)
  IN  right \o (IF decls.kids = <<>> THEN <<>> ELSE <<" ", "where">> \o block(decls))

pr_stmt(s) ==
  CASE s.k = "BIND" -> joined(s.kids, around("<-"))
    [] s.k = "LET"  -> <<"let">> \o block(s.kids[1])
    [] s.k = "EXPR" -> pr(s.kids[1])

\* A printer that forgets the space behind `\'.
TouchingLambda(e) ==
  <<"\\">> \o joined(e.kids[1].kids, sp) \o <<" ", "->", " ">> \o pr(e.kids[2])

\* A lambda, with a space behind `\' where the first pattern starts with an
\* operator.
pr_lambda(e) ==
  LET pats == e.kids[1].kids
      touches == pats # <<>> /\ pats[1].k \in {"BANG", "LAZY", "NEGATIVE"}
  IN  <<"\\">> \o (IF touches THEN sp ELSE <<>>) \o joined(pats, sp)
      \o (IF pats = <<>> THEN <<>> ELSE sp) \o <<"->", " ">> \o pr(e.kids[2])

pr_exp(e) ==
  LET a == pr(e.kids[1])
      b == pr(e.kids[2])
      c == pr(e.kids[3])
      list(sep) == joined(e.kids[1].kids, sep)
  IN  CASE e.k \in {"VAR", "CON"} -> var_name(e.name)
        [] e.k = "LIT"         -> <<e.name>>
        [] e.k = "HOLE"        -> <<"_">>
        [] e.k = "APP"         -> a \o sp \o b
        [] e.k = "TYPE_APP"    -> a \o <<" ", "@">> \o b
        [] e.k = "INFIX"       -> joined(e.kids, sp)
        [] e.k = "NEG"         -> <<"-">> \o a
        [] e.k = "LAMBDA"      -> pr_lambda(e)
        [] e.k = "LAMBDA_CASE" -> <<"\\", "case">> \o block(e.kids[1])
        [] e.k = "LET"         -> <<"let">> \o block(e.kids[1]) \o around("in") \o b
        [] e.k = "IF"          -> <<"if", " ">> \o a \o around("then") \o b
                                  \o around("else") \o c
        [] e.k = "MULTI_IF"    -> <<"if", " ", "{">> \o pr_guards("->", e.kids)
                                  \o <<" ", "}">>
        [] e.k = "CASE"        -> <<"case", " ">> \o a \o <<" ", "of">> \o block(e.kids[2])
        [] e.k = "DO"          -> <<"do">> \o block(e.kids[1])
        [] e.k = "TUPLE"       -> <<"(">> \o list(comma) \o <<")">>
        [] e.k = "TUPLE_SECTION" -> <<"(">> \o list(<<",">>) \o <<")">>
        [] e.k = "LIST"        -> <<"[">> \o list(comma) \o <<"]">>
        [] e.k = "ARITH_SEQ"   -> <<"[">> \o a \o lead(comma, e.kids[2]) \o <<" ", "..">>
                                  \o lead(sp, e.kids[3]) \o <<"]">>
        [] e.k = "LIST_COMP"   -> <<"[">> \o a \o around("|")
                                  \o joined(e.kids[2].kids, comma) \o <<"]">>
        [] e.k = "PAREN"       -> <<"(">> \o a \o <<")">>
        [] e.k \in {"LEFT_SECTION", "RIGHT_SECTION"} -> <<"(">> \o a \o sp \o b \o <<")">>
        [] e.k = "RECORD_CON"  -> var_name(e.name) \o pr_fields(e.kids[1])
        [] e.k = "RECORD_UPDATE" -> a \o pr_fields(e.kids[2])
        [] e.k = "SIG"         -> a \o around("::") \o b

---------------------------------------------------------------------------
(* Declarations. *)

pr_con_body(c) ==
  LET a == pr(c.kids[1])
      list == joined(c.kids, comma)
  IN  CASE c.k = "PREFIX" -> var_name(c.name) \o each(sp, c.kids)
        [] c.k = "INFIX"  -> joined(c.kids, sp)
        [] c.k = "GADT"   -> joined(c.kids[1].kids, comma) \o around("::") \o pr(c.kids[2])
        [] c.k = "RECORD" -> <<c.name, " ", "{", " ">> \o list \o <<" ", "}">>

pr_con_decl(c) ==
  LET binders == c.kids[1].kids
      forall == <<"forall">> \o each(sp, binders) \o <<".", " ">>
  IN  (IF binders = <<>> THEN <<>> ELSE forall)
      \o trail(c.kids[2], around("=>")) \o pr(c.kids[3])

pr_deriving(d) ==
  LET classes == joined(d.kids[1].kids, comma)
  IN  <<"deriving", " ">> \o strategy_word(d.name)
      \o (IF d.kids[1].k = "PARENS" THEN <<"(">> \o classes \o <<")">> ELSE classes)
      \o lead(around("via"), d.kids[2])

\* The constructors and the deriving clauses.
pr_data_body(cons, deriving) ==
  (IF cons.k = "GADT" THEN <<" ", "where">> \o block(cons)
   ELSE IF cons.kids = <<>> THEN <<>>
   ELSE around("=") \o joined(cons.kids, around("|")))
  \o each(sp, deriving.kids)

\* The head of a data or type declaration: its keywords, its name or type,
\* and its binders.
pr_head(w, d) ==
  <<w, " ">> \o trail(d.kids[1], sp) \o pr(d.kids[2]) \o each(sp, d.kids[3].kids)

pr_data(d) == pr_head(d.name, d) \o lead(around("::"), d.kids[4])
              \o pr_data_body(d.kids[5], d.kids[6])

pr_type_family(d) ==
  pr_head("type", d)
  \o CASE Len(d.kids) = 3 -> <<>>
       [] Len(d.kids) = 4 -> lead(around("::"), d.kids[4])
       [] OTHER -> around("=") \o pr(d.kids[4]) \o <<" ", "|", " ", d.kids[4].name, " ", "->">>
                   \o each(sp, d.kids[5].kids)

pr_fundep(f) == each(sp, f.kids[1].kids) \o <<" ", "->">> \o each(sp, f.kids[2].kids)

pr_class(d) ==
  LET fundeps == d.kids[4].kids
  IN  <<"class", " ">> \o trail(d.kids[1], around("=>")) \o pr(d.kids[2])
      \o each(sp, d.kids[3].kids)
      \o (IF fundeps = <<>> THEN <<>> ELSE <<" ", "|">> \o joined(fundeps, <<",">>))
      \o <<" ", "where">> \o block(d.kids[5])

pr_pat_syn_head(h) ==
  CASE h.k = "PREFIX" -> <<h.name>> \o each(sp, h.kids)
    [] h.k = "INFIX"  -> joined(h.kids, sp)
    [] h.k = "RECORD" -> <<h.name, " ", "{">> \o joined(h.kids, comma) \o <<"}">>

pr_pat_syn(d) ==
  <<"pattern", " ">> \o pr(d.kids[1])
  \o around(IF d.k = "IMPLICIT" THEN "=" ELSE "<-") \o pr(d.kids[2])
  \o (IF d.k = "EXPLICIT" THEN <<" ", "where">> \o block(d.kids[3]) ELSE <<>>)

pr_lhs(l) ==
  CASE l.k = "FUN" -> var_name(l.name) \o each(sp, l.kids)
    [] OTHER       -> joined(l.kids, sp)

\* Names and a type, with what stands before them.
pr_sig(w, names, ty) == w \o names \o around("::") \o pr(ty)

pr_decl(d) ==
  LET a == pr(d.kids[1])
      b == d.kids[2]
      list == joined(d.kids[1].kids, comma)
  IN  CASE d.k = "TYPE_SIG"    -> pr_sig(<<>>, list, b)
        [] d.k = "DEFAULT_SIG" -> pr_sig(<<"default", " ">>, a, b)
        [] d.k = "PAT_SYN_SIG" -> pr_sig(<<"pattern", " ">>, list, b)
        [] d.k = "FOREIGN" ->
             pr_sig(<<"foreign", " ", "import", " ", "ccall", " ">>,
                    trail(d.kids[1], sp) \o trail(b, sp) \o pr(d.kids[3]), d.kids[4])
        [] d.k = "FIXITY" ->
             <<d.name>> \o lead(sp, d.kids[1]) \o sp \o joined(b.kids, comma)
        [] d.k = "DATA"        -> pr_data(d)
        [] d.k = "DATA_FAMILY" -> pr_head("data", d) \o lead(around("::"), d.kids[4])
        [] d.k = "ROLE"        -> <<"type", " ", "role", " ">> \o a \o each(sp, b.kids)
        [] d.k = "DERIVING" ->
             <<"deriving", " ">> \o strategy_word(d.name)
             \o (IF d.kids[1] = None THEN <<>> ELSE <<"via", " ">> \o a \o sp)
             \o <<"instance", " ">> \o pr(b)
        [] d.k = "TYPE_SYN"    -> pr_head("type", d) \o around("=") \o pr(d.kids[4])
        [] d.k = "TYPE_FAMILY" -> pr_type_family(d)
        [] d.k = "TYPE_INSTANCE" ->
             <<"type", " ">> \o trail(d.kids[1], sp) \o pr(b) \o around("=") \o pr(d.kids[3])
        [] d.k = "CLASS"       -> pr_class(d)
        [] d.k = "INSTANCE"    -> <<"instance", " ">> \o a \o <<" ", "where">> \o block(b)
        [] d.k = "BIND"        -> a \o pr_rhs(b, "=")
        [] OTHER               -> pr_pat_syn(d)

---------------------------------------------------------------------------
(* Modules. *)

pr_subs(s) ==
  IF s.k = "SOME" THEN <<"(">> \o joined(s.kids, comma) \o <<")">>
  ELSE <<"(", "..">> \o each(comma, s.kids) \o <<")">>

pr_item(it) ==
  CASE it.k = "VAR"     -> pr(it.kids[1])
    [] it.k = "PATTERN" -> <<"pattern", " ">> \o pr(it.kids[1])
    [] it.k = "MODULE"  -> <<"module", " ">> \o pr(it.kids[1])
    [] it.k = "THING"   -> trail(it.kids[1], sp) \o pr(it.kids[2]) \o lead(<<>>, it.kids[3])

pr_items(list) ==
  IF list = None THEN <<>> ELSE <<" ", "(">> \o joined(list.kids, comma) \o <<")">>

pr_import(im) ==
  <<"import", " ">> \o (IF im.name = "PRE" THEN <<"qualified", " ">> ELSE <<>>)
  \o trail(im.kids[1], sp) \o pr(im.kids[2])
  \o (IF im.name = "POST" THEN <<" ", "qualified">> ELSE <<>>)
  \o lead(around("as"), im.kids[3])
  \o (IF im.k = "HIDING" THEN <<" ", "hiding">> ELSE <<>>)
  \o pr_items(im.kids[4])

print_module(m) ==
  joined(m.kids[1].kids, sp) \o around("module") \o pr(m.kids[2]) \o pr_items(m.kids[3])
  \o <<" ", "where", " ", "{", " ">> \o joined(m.kids[4].kids, <<";", " ">>)
  \o <<" ", "}", " ">>

---------------------------------------------------------------------------

pr(n) ==
  CASE n.class = "NAME"    -> var_name(n.name)
    [] n.class = "OP"      -> op_name(n.name)
    [] n.class = "NONE"    -> <<>>
    [] n.class \in {"TY", "PAT", "EXPR"} /\ n.k = "UNBOXED" -> pr_unboxed(n)
    [] n.class = "TY"      -> pr_ty(n)
    [] n.class = "PAT"     -> pr_pat(n)
    [] n.class = "EXPR"    -> pr_exp(n)
    [] n.class = "BINDER"  ->
         IF n.kids = <<>> THEN <<n.name>>
         ELSE <<"(", n.name>> \o around("::") \o pr(n.kids[1]) \o <<")">>
    [] n.class = "BANG"    -> (IF n.name = "" THEN <<>> ELSE <<n.name>>) \o pr(n.kids[1])
    [] n.class = "FIELD"   -> pr_field(n)
    [] n.class = "CON_FIELD" ->
         joined(n.kids[1].kids, comma) \o around("::") \o pr(n.kids[2])
    [] n.class = "STMT"    -> pr_stmt(n)
    [] n.class = "ALT"     -> pr(n.kids[1]) \o pr_rhs(n.kids[2], "->")
    [] n.class = "LHS"     -> pr_lhs(n)
    [] n.class = "CON"     -> pr_con_body(n)
    [] n.class = "CONDECL" -> pr_con_decl(n)
    [] n.class = "DERIVING" -> pr_deriving(n)
    [] n.class = "FUNDEP"  -> pr_fundep(n)
    [] n.class = "PATSYN"  -> pr_pat_syn_head(n)
    [] n.class = "DECL"    -> pr_decl(n)
    [] n.class = "SUBS"    -> pr_subs(n)
    [] n.class = "ITEM"    -> pr_item(n)
    [] n.class = "IMPORT"  -> pr_import(n)
    [] n.class = "MODULE"  -> print_module(n)

=============================================================================
