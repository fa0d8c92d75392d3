------------------------------- MODULE Printer --------------------------------
(***************************************************************************)
(* The concrete syntax of a tree, as a reference for the parser: with the  *)
(* parentheses that the levels of the grammar (design/grammer.ebnf, and    *)
(* the operators of parser.c that it leaves out) demand and no others.     *)
(***************************************************************************)
EXTENDS Parser, SequencesExt

If(condition, text) == IF condition THEN text ELSE <<>>

RECURSIVE TypeText(_)
TypeText(t) ==
  LET mut == If(t.flag, <<"mut">>)
  IN CASE t.kind = "pointer" -> TypeText(t.parts[1]) \o mut \o <<"*">>
       [] t.kind = "array" -> TypeText(t.parts[1]) \o mut \o <<"[">>
                              \o If(t.text # "", <<t.text>>) \o <<"]">>
       [] OTHER -> mut \o <<t.text>>
Prefixed(t) == If(t.kind # "any", <<":">> \o TypeText(t))

Binaries == <<{"|"}, {"^"}, {"&"}, {"!=", "=="}, {">", ">=", "<", "<="}, {"<<", ">>"},
              {"-", "+"}, {"/", "*", "%"}>>
LevelOf(op) == CHOOSE n \in DOMAIN Binaries : op \in Binaries[n]
Tight == Len(Binaries) + 1

Level(e) == CASE e.kind \in {"assignment", "cast"} -> 0
              [] e.kind = "binary" -> LevelOf(e.text)
              [] e.kind = "unary" -> Tight
              [] OTHER -> Tight + 1

\* Texts with a comma between them
Listed(texts) == FlattenSeq([k \in DOMAIN texts |-> If(k > 1, <<",">>) \o texts[k]])

RECURSIVE Text(_, _), Body(_), ItemText(_)

Bare(e) ==
  LET part(k, level) == Text(e.parts[k], level)
      each(s) == [k \in DOMAIN s |-> Text(s[k], 0)]
  IN CASE e.kind = "assignment" -> part(1, 1) \o <<"=">> \o part(2, 0)
       [] e.kind = "cast" -> part(1, 1) \o <<"as">> \o TypeText(e.parts[2])
       [] e.kind = "binary" -> part(1, Level(e) + 1) \o <<e.text>> \o part(2, Level(e) + 1)
       [] e.kind = "unary" -> <<e.text>> \o If(e.flag, <<"mut">>) \o part(1, Tight)
       [] e.kind = "call" -> part(1, 0) \o <<"(">> \o Listed(each(Tail(e.parts))) \o <<")">>
       [] e.kind = "array_literal" -> <<"[">> \o Listed(each(e.parts)) \o <<"]">>
       [] e.kind = "struct_value" ->
            <<e.text, "{">> \o Listed([k \in DOMAIN e.parts |->
                                 <<e.parts[k].text, ":">> \o Text(e.parts[k].parts[1], 0)]) \o <<"}">>
       [] e.kind = "array_deref" -> <<e.text, "[">> \o part(1, 0) \o <<"]">>
       [] e.kind = "get" -> part(1, 0) \o <<IF e.flag THEN "::" ELSE ".", e.text>>
       [] e.kind = "type_expr" -> TypeText(e.parts[1])
       [] e.kind = "variable" -> <<e.text>> \o If(e.flag, <<"mut">>)
       [] e.kind = "while" -> <<"while", "(">> \o part(1, 0) \o <<")">> \o Body(e.parts[2])
       [] e.kind = "if" ->
            <<"if", "(">> \o part(1, 0) \o <<")">> \o Body(e.parts[2])
            \o If(Len(e.parts) = 3,
                  <<"else">> \o (IF e.flag THEN Text(e.parts[3].parts[1].parts[1], 0)
                                 ELSE Body(e.parts[3])))
       [] OTHER -> <<e.text>>

Text(e, level) == IF Level(e) < level THEN <<"(">> \o Bare(e) \o <<")">> ELSE Bare(e)

StatementText(s) ==
  CASE s.kind = "return" -> <<"return">> \o Text(s.parts[1], 0) \o <<";">>
    [] s.kind = "break" -> <<"break", ";">>
    [] s.kind = "defer" ->
         <<"defer">> \o (IF s.flag THEN Body(s.parts[1]) ELSE Text(s.parts[1].parts[1].parts[1], 0) \o <<";">>)
    [] s.kind = "expression" -> Text(s.parts[1], 0) \o If(s.parts[1].kind \notin {"if", "while"}, <<";">>)
    [] s.kind \in {"let", "struct", "enum"} -> ItemText(s)
    [] OTHER -> Text(s, 0)

Body(block) ==
  <<"{">> \o FlattenSeq([k \in DOMAIN block.parts |-> StatementText(block.parts[k])]) \o <<"}">>

NameAndType(f) == <<f.text>> \o Prefixed(f.parts[1])
NamesAndTypes(parts) == Listed([k \in DOMAIN parts |-> NameAndType(parts[k])])

PrototypeText(p) == <<p.text, "(">> \o NamesAndTypes(Front(p.parts)) \o <<")">> \o Prefixed(Last(p.parts))
FunctionText(f) == <<"fn">> \o PrototypeText(f.parts[1]) \o Body(f.parts[2])

ItemText(i) ==
  CASE i.kind = "function" ->
         IF Len(i.parts) = 2 THEN FunctionText(i) ELSE <<"extern">> \o PrototypeText(i.parts[1]) \o <<";">>
    [] i.kind = "extern" -> <<"extern">> \o NameAndType(i) \o <<";">>
    [] i.kind = "let" ->
         <<"let">> \o If(i.flag, <<"mut">>) \o <<i.text>>
         \o Prefixed([i.parts[1] EXCEPT !.flag = FALSE]) \o <<"=">> \o Text(i.parts[2], 0) \o <<";">>
    [] i.kind = "struct" ->
         <<"struct", i.text, "{">> \o NamesAndTypes(i.parts[1].parts)
         \o FlattenSeq([k \in DOMAIN i.parts[2].parts |-> FunctionText(i.parts[2].parts[k])]) \o <<"}">>
    [] i.kind = "enum" ->
         <<"enum", i.text, "{">>
         \o Listed([k \in DOMAIN i.parts[1].parts |->
              LET e == i.parts[1].parts[k] IN <<e.text>> \o If(e.flag, <<"=", e.parts[1].text>>)])
         \o <<"}">>
    [] i.kind = "import" -> <<"import", i.text, ";">>
    [] i.kind = "alias" -> <<"type", i.text, "=">> \o TypeText(i.parts[1]) \o <<";">>

Written(items) == FlattenSeq([k \in DOMAIN items |-> ItemText(items[k])]) \o <<"EOF">>

-----------------------------------------------------------------------------
(* Correctness *)

\* The parser's outcome is one of the known ones, its cursor in the file, or just behind it
\* once all of the file is parsed.
TypeOK ==
  /\ result.how \in {"none", "ok", "error", "missing", "overrun"}
  /\ IF result.how = "ok" THEN result.at = Len(tokens) + 1 ELSE result.at \in 1 .. Len(tokens)

\* The text of a tree is parsed to that tree: every function finds the cursor where it expects
\* it and leaves it in the file, operators bind as their levels say, and no construct hides
\* another.
RoundTrip ==
  /\ TypeOK
  /\ result.how # "none" /\ file.tree # <<>> => result.how = "ok" /\ result.items = file.tree

\* Where the parser takes a token it does not look at: the one behind a `mut` that follows a
\* type, the key of a structure or enumeration, the one between a name and a colon, what stands for `fn` between the functions of a
\* struct, the type of the dots of a prototype, a `mut` in the type of a let, and an
\* enumerator that is not an integer, with which all of them are lost.
Unlooked(k) ==
  LET at(n) == IF n \in DOMAIN tokens THEN tokens[n] ELSE ""
  IN \/ at(k) = "mut" /\ at(k - 1) \notin {":", "=", "as", "let", "&"} /\ at(k + 1) \notin {"*", "["}
     \/ at(k) \in {".", "::"} /\ at(k + 1) \notin Names
     \/ at(k) \in Names /\ at(k + 2) = ":"
     \/ at(k) = "}" /\ at(k + 1) # "fn" /\ at(k + 2) \in Names /\ at(k + 3) = "("
     \/ at(k) = "..." /\ at(k + 1) = ":"
     \/ at(k) = ":" /\ at(k + 1) = "mut" /\ at(k - 2) \in {"let", "mut"}
     \/ at(k) = "=" /\ at(k + 1) \in Names \union Floats /\ at(k - 2) \in {"{", ","}

\* A file that is accepted is in the tree, word for word, but for the places above: the tokens
\* that are left when parentheses and commas, and the keywords that a known name makes
\* superfluous, are taken out of its text.
Said(s) == SelectSeq(s, LAMBDA t : t \notin {"(", ")", ",", "struct", "enum"})
NothingDropped ==
  result.how = "ok" => \/ Said(Written(result.items)) = Said(tokens)
                       \/ \E k \in DOMAIN tokens : Unlooked(k)

\* The parser looks for tokens beyond the last one only in files that end too soon: all others
\* are parsed, or refused with a message.
Count(t) == Cardinality({k \in DOMAIN tokens : tokens[k] = t})
OverrunOnlyUnfinished ==
  result.how = "overrun" => \/ Len(tokens) = 1 \/ tokens[Len(tokens) - 1] \notin {";", "}"}
                            \/ Count("{") > Count("}")
                            \/ \E k \in DOMAIN tokens : Unlooked(k)
===============================================================================
