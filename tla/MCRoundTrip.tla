---------------------------- MODULE MCRoundTrip ----------------------------
(* The round trip of sentences of the grammar in the heads of parse_types.c,*)
(* parse_pats.c and parse_exprs.c, put into every place where the grammar  *)
(* has them, of the declarations and modules that parse_decls.c and        *)
(* parse.c read, and of all short sequences of words in parentheses.       *)
EXTENDS RoundTrip, TLC

ofKind(words, k) == [w \in words |-> k]

MCKindOf ==
  ofKind({"a", "b", "f", "g", "x", "y", "z"}, "VARID")
  @@ ofKind({"A", "B", "C", "M", "T", "A'", "Main"}, "CONID")
  @@ ofKind({"M.x"}, "QVARID") @@ ofKind({"M.A"}, "QCONID")
  @@ ofKind({"M.+"}, "QVARSYM") @@ ofKind({"M.:+"}, "QCONSYM")
  @@ ofKind({":+"}, "CONSYM") @@ ofKind({"1"}, "INTEGER") @@ ofKind({"1.5"}, "FLOAT")
  @@ ofKind({"a'", "x'"}, "VARID") @@ ofKind({"'" \o c \o "'" : c \in Chars}, "CHAR")
  @@ ofKind({"str"}, "STRING") @@ ofKind({"{-# LANGUAGE X #-}"}, "PRAGMA")

MCPieces == "'a'" :> <<"'", "a", "'">> @@ "A'" :> <<"A", "'">> @@ "#+" :> <<"#", "+">>

MCQualified == "M.x" :> "x" @@ "M.A" :> "A" @@ "M.+" :> "+" @@ "M.:+" :> ":+"

\* A place is what stands before and behind.
at_place(place, s) == place[1] \o s \o place[2]
In(places, sentences) == {at_place(p, s) : p \in places, s \in sentences}

---------------------------------------------------------------------------
(* Expressions. *)

Atoms == {<<"x">>, <<"M.x">>, <<"A">>, <<"M.A">>, <<"1">>, <<"1.5">>, <<"'a'">>, <<"str">>,
          <<"_">>, <<"(", ")">>, <<"[", "]">>, <<"(", ",", ")">>, <<"(", "+", ")">>,
          <<"(", "M.+", ")">>, <<"(", ":", ")">>, <<"(", "#+", ")">>, <<"(#", "#)">>}

Applications ==
  {<<"f", "x">>, <<"f", "@", "T", "x">>, <<"A", "{", "}">>,
   <<"A", "{", "a", "=", "x", ",", "M.x", "=", "y", "}">>, <<"A", "{", "..", "}">>,
   <<"f", "A", "{", "a", ",", "..", "}">>, <<"x", "{", "a", "=", "y", "}", "{", "b", "}">>}

Blocks ==
  {<<"\\", "x", "A", "->", "y">>, <<"\\", "~", "x", "!", "y", "->", "x">>,
   <<"\\", "case", "{", "A", "->", "x", ";", "_", "->", "y", "}">>,
   <<"let", "{", "f", "::", "T", ";", "f", "x", "=", "y", "}", "in", "x">>,
   <<"if", "x", "then", "y", "else", "z">>,
   <<"if", "{", "|", "x", "->", "y", "|", "z", ",", "f", "->", "x", "}">>,
   <<"case", "x", "of", "{", "}">>,
   <<"do", "{", "x", ";", "y", "<-", "z", ";", "let", "{", "}", ";", "f", "}">>}

Chains ==
  {<<"x", "+", "y">>, <<"x", ":", "y">>, <<"x", "M.+", "y", ":+", "z">>,
   <<"x", "backquote", "f", "backquote", "y">>, <<"x", "backquote", "M.A", "backquote", "y">>,
   <<"-", "x">>, <<"-", "x", "+", "-", "y">>, <<"x", "+", "\\", "y", "->", "y">>}

Infixexps == Atoms \cup Applications \cup Blocks \cup Chains

Exps == Infixexps \cup {<<"x", "::", "T">>}

ExpPlaces ==
  {<<<<>>, <<>>>>, <<<<"(">>, <<")">>>>, <<<<"(">>, <<",", "y", ")">>>>, <<<<"(", "y", ",">>, <<")">>>>,
   <<<<"(", ",">>, <<")">>>>, <<<<"(">>, <<",", ",", "y", ")">>>>, <<<<"[">>, <<"]">>>>,
   <<<<"[", "y", ",">>, <<"]">>>>, <<<<"[">>, <<"..", "]">>>>, <<<<"[">>, <<"..", "z", "]">>>>,
   <<<<"[", "y", ",">>, <<"..", "]">>>>, <<<<"[", "y", ",", "z", "..">>, <<"]">>>>,
   <<<<"[">>, <<"|", "y", "]">>>>, <<<<"[", "y", "|", "x", "<-">>, <<",", "z", "]">>>>,
   <<<<"[", "y", "|">>, <<"]">>>>, <<<<"if">>, <<"then", "y", "else", "z">>>>,
   <<<<"if", "y", "then">>, <<"else", "z">>>>, <<<<"if", "y", "then", "z", "else">>, <<>>>>,
   <<<<"case">>, <<"of", "{", "_", "->", "y", "}">>>>,
   <<<<"case", "y", "of", "{", "z", "->">>, <<"where", "{", "f", "=", "x", "}", "}">>>>,
   <<<<"do", "{">>, <<"}">>>>, <<<<"do", "{">>, <<";", "y", "}">>>>,
   <<<<"do", "{", "x", "<-">>, <<"}">>>>, <<<<"let", "{", "x", "=">>, <<"}", "in", "y">>>>,
   <<<<"let", "{", "}", "in">>, <<>>>>, <<<<"\\", "y", "->">>, <<>>>>,
   <<<<"A", "{", "a", "=">>, <<"}">>>>, <<<<"x", "{", "a", "=">>, <<",", "b", "=", "y", "}">>>>,
   <<<<"(#">>, <<",", "y", "#)">>>>, <<<<"if", "{", "|", "y", "->">>, <<"}">>>>}

InfixPlaces == {<<<<"y", "+">>, <<>>>>, <<<<"(", "+">>, <<")">>>>,
                <<<<"(", "#">>, <<")">>>>, <<<<"(", "#+">>, <<")">>>>, <<<<"y", "#+">>, <<>>>>,
                <<<<"(", "backquote", "f", "backquote">>, <<")">>>>,
                <<<<"case", "y", "of", "{", "z", "|">>, <<"->", "x", "}">>>>,
                <<<<"if", "{", "|">>, <<"->", "y", "}">>>>}

ApplicationPlaces == {<<<<>>, <<"+", "y">>>>, <<<<"(">>, <<"+", ")">>>>, <<<<"(">>, <<"#", ")">>>>, <<<<"(">>, <<"#+", ")">>>>,
                      <<<<"(">>, <<"backquote", "M.A", "backquote", ")">>>>,
                      <<<<>>, <<"y">>>>, <<<<>>, <<"@", "T">>>>}

AllExps ==
  In(ExpPlaces, Exps) \cup In(InfixPlaces, Infixexps)
  \cup In(ApplicationPlaces, Atoms \cup Applications)
  \cup In({<<<<"-">>, <<>>>>}, Atoms \cup Applications \cup Blocks)
  \cup In({<<<<"f">>, <<>>>>, <<<<"f", "x">>, <<"y">>>>}, Atoms)
  \cup In(ExpPlaces \cup InfixPlaces, In(ExpPlaces, {<<"x">>}))

BindingPlaces == {<<<<"f", "|">>, <<"=", "y">>>>, <<<<"f", "|", "A", "x", "<-">>, <<"=", "z">>>>,
                  <<<<"f", "x", "=">>, <<"where", "{", "g", "=", "y", "}">>>>}

ExpDecls == In({<<<<"g", "=">>, <<>>>>}, AllExps) \cup In(BindingPlaces, Exps)

---------------------------------------------------------------------------
(* Patterns. *)

PatAtoms == {<<"x">>, <<"_">>, <<"A">>, <<"M.A">>, <<"(", ")">>, <<"[", "]">>, <<"(", ",", ")">>,
             <<"(", ":", ")">>, <<"1">>, <<"'a'">>, <<"str">>, <<"A", "{", "}">>}

Lpats == {<<"A", "x", "_">>, <<"-", "1">>, <<"A", "{", "a", "=", "x", ",", "b", "}">>,
          <<"A", "{", "a", "=", "A", "y", ",", "..", "}">>, <<"x", ":", "y">>,
          <<"x", "backquote", "A", "backquote", "-", "1">>, <<"x", ":+", "A", "y", "M.:+", "z">>}

ClosedPlaces == {<<<<"(">>, <<")">>>>, <<<<"(">>, <<",", "y", ")">>>>, <<<<"[">>, <<"]">>>>,
                 <<<<"[", "x", ",">>, <<"]">>>>, <<<<"(", "f", "->">>, <<")">>>>,
                 <<<<"(", "f", "x", "->">>, <<",", "A", "->", "y", ")">>>>,
                 <<<<"(">>, <<"::", "T", ")">>>>}
MarkPlaces == {<<<<"x", "@">>, <<>>>>, <<<<"~">>, <<>>>>, <<<<"!">>, <<>>>>}

Apats1 == PatAtoms \cup In(ClosedPlaces, PatAtoms \cup Lpats) \cup In(MarkPlaces, PatAtoms)
Apats == Apats1 \cup In(MarkPlaces, In(MarkPlaces \cup ClosedPlaces, {<<"y">>}))
         \cup In(ClosedPlaces, In(MarkPlaces \cup ClosedPlaces, {<<"y">>}))

ApatPlaces == {<<<<"g", "=", "\\">>, <<"->", "y">>>>, <<<<"f">>, <<"=", "y">>>>,
               <<<<"(", "+", ")", "x">>, <<"|", "y", "=", "z">>>>}

PatPlaces == {<<<<"g", "=", "case", "y", "of", "{">>, <<"->", "z", "}">>>>,
              <<<<"g", "=", "do", "{">>, <<"<-", "y", ";", "z", "}">>>>,
              <<<<"g", "=", "[", "y", "|">>, <<"<-", "z", "]">>>>,
              <<<<"f", "|">>, <<"<-", "y", "=", "z">>>>,
              <<<<>>, <<"=", "y">>>>, <<<<>>, <<"+", "x", "=", "y">>>>,
              <<<<"x", "backquote", "f", "backquote">>, <<"=", "y">>>>,
              <<<<"pattern", "A", "x", "<-">>, <<>>>>}

\* A variable that starts a left-hand side is the function.
PatDecls == In(ApatPlaces, Apats) \cup In(PatPlaces, Apats1 \cup Lpats)
            \cup {<<"f", "(#", "x", ",", "y", "#)", "=", "z">>,
                  <<"g", "=", "do", "{", "x", "::", "T", "<-", "y", "}">>,
                  <<"(", "x", ")", "::", "T", "=", "z">>}

---------------------------------------------------------------------------
(* Types. *)

TypeAtoms == {<<"a">>, <<"T">>, <<"M.A">>, <<"(", ")">>, <<"[", "]">>, <<"(", "->", ")">>,
              <<"(", ",", ")">>, <<"(", "+", ")">>, <<"(", "~", ")">>, <<"(", "#+", ")">>, <<"1">>, <<"'a'">>, <<"str">>, <<"_">>,
              <<"'", "A">>, <<"'", "A'">>, <<"'", "[", "]">>, <<"'", "[", "A", "]">>,
              <<"'", "[", "A", ",", "'", "B", "]">>, <<"'", "[", "'", "A", ",", "B", "]">>,
              <<"'", "[", "'a'", "]">>, <<"'", "(", "'a'", ",", "B", ")">>,
              <<"'", "[", "A", ",", "'a'", "]">>, <<"'", "(", "A", ",", "B", ")">>, <<"'", "(", "'", "A", ",", "B", ")">>,
              <<"(#", "a", ",", "b", "#)">>, <<"(", "a", "::", "T", ")">>}

Btypes == {<<"T", "a">>, <<"T", "@", "a", "b">>, <<"a", "+", "b">>, <<"a", "~", "b">>,
           <<"a", "backquote", "T", "backquote", "b", ":+", "T", "a">>}

Arrows == {<<"a", "->", "b">>, <<"C", "a", "=>", "a">>, <<"forall", "a", ".", "a">>,
           <<"forall", "a", "(", "b", "::", "T", ")", ".", "C", "a", "=>", "a", "->", "b">>}

TypePlaces == {<<<<>>, <<>>>>, <<<<"(">>, <<")">>>>, <<<<"(">>, <<",", "a", ")">>>>, <<<<"[">>, <<"]">>>>,
               <<<<"(">>, <<"::", "T", ")">>>>, <<<<"a", "->">>, <<>>>>, <<<<"C", "a", "=>">>, <<>>>>,
               <<<<"forall", "a", ".">>, <<>>>>}
BtypePlaces == {<<<<>>, <<"->", "a">>>>, <<<<>>, <<"=>", "a">>>>}
AtypePlaces == {<<<<"T">>, <<>>>>, <<<<"T", "@">>, <<"a">>>>, <<<<"a", "+">>, <<>>>>}

Types == In(TypePlaces, TypeAtoms \cup Btypes \cup Arrows)
         \cup In(BtypePlaces, TypeAtoms \cup Btypes) \cup In(AtypePlaces, TypeAtoms)

TypeDeclPlaces == {<<<<"g", "=", "x", "::">>, <<>>>>, <<<<"type", "A", "x", "=">>, <<>>>>,
                   <<<<"data", "A", "=", "A", "{", "f", ",", "g", "::">>, <<"}">>>>,
                   <<<<"data", "A", "a", "where", "{", "A", ",", "(", ":+", ")", "::">>, <<"}">>>>,
                   <<<<"instance">>, <<"where", "{", "}">>>>,
                   <<<<"class", "C", "a", "where", "{", "f", "::">>, <<"}">>>>}
AtypeDeclPlaces == {<<<<"g", "=", "f", "@">>, <<"x">>>>, <<<<"data", "A", "=", "A">>, <<"!", "a">>>>,
                    <<<<"data", "A", "=", "A", "~">>, <<>>>>}

TypeDecls == In({<<<<"f", "::">>, <<>>>>}, Types)
             \cup In(TypeDeclPlaces, TypeAtoms \cup Btypes \cup Arrows)
             \cup In(AtypeDeclPlaces, TypeAtoms)
---------------------------------------------------------------------------
(* Declarations and modules. *)

Decls ==
  {<<"f", ",", "(", "+", ")", "::", "a">>, <<"infixl", "1", "+", ",", "backquote", "f", "backquote">>,
   <<"(", "#+", ")", ",", "f", "::", "a">>, <<"x", "#+", "y", "=", "z">>, <<"infixr", "#+", ",", ":">>,
   <<"infixr", ":+", ",", ":">>, <<"infix", "1", "backquote", "A", "backquote">>,
   <<"foreign", "import", "ccall", "f", "::", "T">>,
   <<"foreign", "import", "ccall", "unsafe", "str", "(", "+", ")", "::", "T">>,
   <<"data", "A">>, <<"newtype", "A", "a", "=", "A", "{", "f", "::", "!", "a", "}">>,
   <<"data", "(", "+", ")", "a", "(", "b", "::", "T", ")", "::", "T">>,
   <<"data", "A", "=", "A", "{", "}", "|", "B", "a", "!", "T", "~", "b", "|", "a", ":+", "!", "b",
     "|", "T", "a", "backquote", "C", "backquote", "b">>,
   <<"data", "A", "=", "[", "]", "|", "a", ":", "A", "a">>,
   <<"data", "A", "=", "forall", "a", "(", "b", "::", "T", ")", ".", "C", "a", "=>", "A", "a">>,
   <<"data", "A", "=", "A", "{", "f", ",", "(", "+", ")", "::", "a", "->", "b", ",", "g", "::", "T", "}">>,
   <<"data", "A", "::", "T", "where", "{", "A", "::", "T", ";", "B", "::", "T", "}",
     "deriving", "(", "B", ",", "C", ")">>,
   <<"data", "A", "deriving", "stock", "B", "deriving", "newtype", "(", ")",
     "deriving", "anyclass", "(", "C", ")">>,
   <<"data", "A", "deriving", "M.A", "via", "(", "T", "a", ")">>,
   <<"data", "family", "A", "a", "::", "T">>, <<"data", "instance", "A", "(", "T", "a", ")", "=", "B">>,
   <<"newtype", "instance", "A", "T", "::", "T", "=", "B", "x", "deriving", "C">>,
   <<"type", "A", "a", "(", "b", "::", "T", ")", "=", "a">>, <<"type", "family", "A", "a">>,
   <<"type", "family", "A", "a", "::", "T">>,
   <<"type", "family", "A", "a", "b", "=", "x", "|", "x", "->", "a", "b">>,
   <<"type", "instance", "A", "T", "=", "T">>, <<"type", "role", "A", "a", "_">>,
   <<"class", "C", "a", "where", "{", "}">>,
   <<"class", "C", "a", "=>", "B", "a", "(", "b", "::", "T", ")", "|", "a", "->", "b", ",", "b", "->",
     "where", "{", "f", ",", "g", "::", "a", ";", "default", "f", "::", "T", ";", "f", "x", "=", "y",
     ";", "infix", "backquote", "f", "backquote", "}">>,
   <<"class", "C", "a", "where", "{", "type", "A", "a", "::", "T", ";", "data", "B", "a", "}">>,
   <<"class", "C", "a", "where", "{", "type", "instance", "A", "a", "=", "T", "}">>,
   <<"class", "C", "a", "where", "{", "type", "family", "A", "a", ";", "data", "family", "B", "}">>,
   <<"instance", "C", "T", "where", "{", "f", "=", "x", ";", "x", "+", "y", "=", "z", "}">>,
   <<"instance", "B", "a", "=>", "C", "(", "T", "a", ")", "where", "{", "type", "A", "T", "=", "a",
     ";", "data", "B", "T", "=", "A", "|", "B", ";", "type", "instance", "A", "a", "=", "T", "}">>,
   <<"deriving", "instance", "C", "T">>, <<"deriving", "stock", "instance", "C", "a", "=>", "C", "T">>,
   <<"deriving", "newtype", "instance", "C", "T">>, <<"deriving", "via", "T", "instance", "C", "T">>,
   <<"pattern", "A", ",", "B", "::", "T">>, <<"pattern", "A", "x", "y", "=", "B", "x", "y">>,
   <<"pattern", "x", ":+", "y", "=", "A", "x", "y">>,
   <<"pattern", "x", "backquote", "A", "backquote", "y", "<-", "x", ":", "y">>,
   <<"pattern", "A", "{", "f", ",", "g", "}", "=", "(", "f", ",", "g", ")">>,
   <<"pattern", "A", "{", "}", "=", "B">>,
   <<"pattern", "A", "x", "<-", "B", "x", "where", "{", "A", "x", "=", "B", "x", "}">>,
   <<"pattern", "x", "=", "y">>, <<"f", "x", "|", "y", "=", "z", "|", "_", "=", "x">>,
   <<"f", "|", "let", "{", "x", "=", "y", "}", ",", "A", "<-", "x", "=", "y", "where", "{", "x", "=", "z", "}">>,
   <<"(", "+", ")", "x", "y", "=", "z">>, <<"A", "x", "::", "T", "=", "y">>}

Heads ==
  {<<"module", "M", "(", ")", "where">>,
   <<"module", "M.A", "(", "f", ",", "(", "+", ")", ",", "M.x", ",", "(", "M.+", ")", ",", "A", ",",
     "M.A", "(", "..", ")", ",", "(", ":+", ")", "(", ")", ",", "module", "M.A", ",", "pattern", "A", ")",
     "where">>,
   <<"{-# LANGUAGE X #-}", "{-# LANGUAGE X #-}", "module", "M", "(", "type", "(", "+", ")", "(", "..", ",", "A", ",", "f", ")",
     ",", "type", "A", ",", "A", "(", "A", ",", "f", ",", "(", "+", ")", ")", ",", "pattern", "(", ":+", ")",
     ",", "pattern", ")", "where">>}

Imports ==
  {<<"import", "A">>, <<"import", "qualified", "str", "M.A", "as", "M">>,
   <<"import", "M", "qualified", "as", "A", "hiding", "(", "f", ",", "A", "(", "..", ")", ")">>,
   <<"import", "M", "(", ")">>, <<"import", "str", "M", "(", "(", "+", ")", ",", "type", "(", "+", ")", ",",
     "(", ":+", ")", "(", "A", ",", "f", ")", ",", "pattern", "A", ",", "pattern", "f", ")">>}

InModule(decls) == In({<<<<"module", "M", "where", "{">>, <<"}">>>>}, decls)

Modules ==
  InModule(ExpDecls \cup PatDecls \cup TypeDecls \cup Decls \cup Imports)
  \cup In({<<<<>>, <<"{", "f", "=", "x", "}">>>>}, Heads)
  \cup InModule({i \o <<";", "f", "=", "x", ";">> \o d : i \in Imports, d \in {<<"y", "=", "z">>}})

\* Declarations as the text has them and as the printer writes them.
RewrittenDecls ==
  {[text |-> <<"f", "=", "do", "{", "x", ";", ";", "if", "y", ";", "then", "z", ";", "else", "x", ";", "}">>,
    tokens |-> <<"f", "=", "do", "{", "x", ";", "if", "y", "then", "z", "else", "x", "}">>],
   [text |-> <<";", "f", "=", "case", "x", "of", "{", ";", "A", "->", "y", ";", "}", ";">>,
    tokens |-> <<"f", "=", "case", "x", "of", "{", "A", "->", "y", "}">>],
   [text |-> <<"f", "x", "=", "y", "where", "{", "}">>, tokens |-> <<"f", "x", "=", "y">>],
   [text |-> <<"class", "C", "a">>, tokens |-> <<"class", "C", "a", "where", "{", "}">>],
   [text |-> <<"instance", "C", "T">>, tokens |-> <<"instance", "C", "T", "where", "{", "}">>],
   [text |-> <<"f", "::", "[", "a", ",", "b", "]">>, tokens |-> <<"f", "::", "'", "[", "a", ",", "b", "]">>],
   [text |-> <<"import", "M", "(", ",", "f", ",", ",", "A", "(", "..", "B", ",", ")", ",", ")">>,
    tokens |-> <<"import", "M", "(", "f", ",", "A", "(", "..", ",", "B", ")", ")">>],
   [text |-> <<"import", "M", "(", "A", "(", "..", ",", ")", ")">>,
    tokens |-> <<"import", "M", "(", "A", "(", "..", ")", ")">>]}

\* Declarations of which the parser drops a part.
Dropped ==
  {<<"g", "=", "(", "a", ",", "b", "+", ")">>, <<"g", "=", "(", ",", "x", "backquote", "f", "backquote", ")">>,
   <<"import", "M", "(", "M.x", ")">>, <<"import", "M", "(", "A", "(", "M.x", ")", ")">>,
   <<"import", "qualified", "M", "qualified">>,
   <<"type", "family", "A", "a", "=", "x", "|", "y", "->", "a">>,
   <<"type", "family", "instance", "A", "=", "T">>,
   <<"class", "C", "a", "where", "{", "newtype", "A", "a", "}">>,
   <<"class", "C", "a", "where", "{", "data", "instance", "A", "a", "}">>}

\* Declarations of the language that the parser rejects.
Rejected ==
  {<<"f", "(", "g", "::", "a", "->", "b", ")", "=", "g">>, <<"f", "=", "\\", "(", "g", "::", "a", "->", "b", ")", "->", "g">>,
   <<"g", "=", "do", "{", "x", "::", "a", "->", "b", "<-", "y", "}">>,
   <<"g", "=", "do", "{", "(#", "x", ",", "y", "#)", "<-", "z", ";", "x", "}">>,
   <<"g", "=", "[", "x", "|", "(#", "x", ",", "y", "#)", "<-", "z", "]">>,
   <<"f", "|", "(#", "x", ",", "y", "#)", "<-", "z", "=", "x">>,
   <<"f", "(", "(#", "x", ",", "y", "#)", "->", "z", ")", "=", "z">>,
   <<"(", "x", "+", "y", ")", "z", "=", "x">>, <<"x", "::", "T", "=", "y">>}

\* All sequences of words in one place.
Short(words, n) == UNION {[1 .. m -> words] : m \in 1 .. n}

AnyExps == In({<<<<"g", "=", "(">>, <<")">>>>}, Short({"x", "+", ",", "-", "_"}, 4))
           \cup In({<<<<"g", "=", "[">>, <<"]">>>>}, Short({"x", "|", ",", "..", "+"}, 4))
AnyDecls ==
  In({<<<<"f", "(">>, <<")", "=", "x">>>>}, Short({"x", "A", "@", "~", ",", "->"}, 3))
  \cup In({<<<<"f", "::", "(">>, <<")">>>>}, Short({"a", "->", ",", "+", "::", "=>"}, 3))
  \cup In({<<<<"data", "A", "=">>, <<>>>>}, Short({"A", "a", ":+", "!", "|", "=>"}, 4))

\* A section behind a comma drops what is before it.
drops(decl) ==
  /\ decl[3] = "(" /\ decl[Len(decl) - 1] \in {"+", "-"}
  /\ \E n \in DOMAIN decl : decl[n] = ","

---------------------------------------------------------------------------

\* Words with white space between them.
RECURSIVE spread(_)

spread(words) == IF Len(words) < 2 THEN words ELSE <<words[1], " ">> \o spread(Tail(words))

from_source(words, tokens, accepted, kept) ==
  [text |-> spread(words), tokens |-> tokens, accepted |-> accepted, kept |-> kept]

sources(texts, accepted, kept) == {from_source(t, t, accepted, kept) : t \in texts}

inModule(decl) == <<"module", "M", "where", "{">> \o decl \o <<"}">>

\* With a space between them the two ticks are the literal of a space.
PromotedLiteral ==
  [text |-> spread(<<"module", "M", "where", "{", "f", "::", "'">>) \o <<"'a'", "}">>,
   tokens |-> inModule(<<"f", "::", "'", "'a'">>), accepted |-> "yes", kept |-> TRUE]

MCSources ==
  {PromotedLiteral} \cup
  sources(Modules, "yes", TRUE) \cup sources(InModule(Dropped), "yes", FALSE)
  \cup sources(InModule(Rejected), "no", TRUE)
  \cup {from_source(inModule(d), inModule(d), "maybe", ~drops(d)) : d \in AnyExps \cup AnyDecls}
  \cup {from_source(inModule(d.text), inModule(d.tokens), "yes", TRUE) : d \in RewrittenDecls}
  \cup {from_source(<<"{", "f", "=", "x", "}">>,
                    <<"module", "Main", "where", "{", "f", "=", "x", "}">>, "yes", TRUE)}
  \cup {from_source(<<"module", "M", "(", "f", ",", ",", "A", "(", ",", "B", ")", ",", ")", "where", "{", "}">>,
                    <<"module", "M", "(", "f", ",", "A", "(", "B", ")", ")", "where", "{", "}">>, "yes", TRUE)}

=============================================================================
