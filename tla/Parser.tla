-------------------------------- MODULE Parser --------------------------------
(***************************************************************************)
(* The recursive descent of luka's parser (src/parser.c).  The parser      *)
(* keeps a cursor into the tokens; some helpers look at the token under    *)
(* the cursor (match), others at the next one (expect), and every function *)
(* leaves the cursor where its callers expect it: on the last token of a   *)
(* type, on the closing brace of a body, behind an expression.  Each       *)
(* function is an operator here, from a state of the parser to the state   *)
(* it leaves; a state in which the parser has given up passes through.     *)
(*                                                                         *)
(* A token is its text, a name, number, string, character or built-in      *)
(* being a member of a constant set.  A node of the tree is a record of    *)
(* its kind, its text, a flag and its parts.  Flags the tree of the code   *)
(* does not have say how the node was written, and are marked.  Positions, *)
(* failing allocations and the element type of array literals are left     *)
(* out.                                                                    *)
(***************************************************************************)
EXTENDS Integers, Sequences, FiniteSets, TLC

CONSTANTS
  Names, Numbers, Floats, Chars, Strings, Builtins,
  Missing     \* the strings IO_resolve_path() finds no file for

VARIABLES
  file,       \* the tokens to parse; tree is history, what they were printed from if anything
  result      \* the state PARSER_parse_file() ends in

vars == <<file, result>>

BaseTypes == {"any", "bool", "s8", "s16", "s32", "s64", "int", "u8", "u16", "u32", "u64",
              "char", "f32", "f64", "float", "double", "string", "void"}
Words == {"fn", "return", "if", "else", "let", "mut", "extern", "while", "break", "as",
          "struct", "enum", "import", "type", "defer", "null", "true", "false"} \union BaseTypes

ASSUME ParserAssumptions ==
  /\ Missing \subseteq Strings
  /\ \A s, t \in {Names, Numbers, Floats, Chars, Strings, Builtins, Words} :
       s = t \/ s \intersect t = {}

Class(t) ==
  CASE t \in Names -> "identifier" [] t \in Numbers \union Floats -> "number"
    [] t \in Chars -> "character"  [] t \in Strings -> "text"
    [] t \in Builtins -> "builtin" [] OTHER -> t

Node(kind, text, flag, parts) == [kind |-> kind, text |-> text, flag |-> flag, parts |-> parts]
Null == Node("null", "", FALSE, <<>>)
Block(stmts) == Node("block", "", FALSE, stmts)
List(nodes) == Node("list", "", FALSE, nodes)
Untyped == Node("any", "", FALSE, <<>>)

tokens == file.tokens

\* how: "ok", "error" (the process ends with a message), "missing" (an import that
\* is not there), or "overrun" (a token beyond the last is read: a failing assertion,
\* and without assertions undefined behaviour).
Start == [how |-> "ok", at |-> 1, node |-> Null, structs |-> {}, enums |-> {}, items |-> <<>>]

\* The lexer puts the only EOF at the end.
IsFile(f) == /\ DOMAIN f = {"tokens", "tree"} /\ f.tokens \in Seq(STRING)
             /\ {k \in DOMAIN f.tokens : f.tokens[k] = "EOF"} = {Len(f.tokens)}

Init == IsFile(file) /\ result = [Start EXCEPT !.how = "none"]

-----------------------------------------------------------------------------
(* The cursor *)

Ok(p) == p.how = "ok"
Stop(p, how) == IF Ok(p) THEN [p EXCEPT !.how = how, !.node = Null] ELSE p
Return(p, node) == IF Ok(p) THEN [p EXCEPT !.node = node] ELSE p

This(p) == IF p.at <= Len(tokens) THEN Class(tokens[p.at]) ELSE "beyond"
NextIs(p) == IF p.at < Len(tokens) THEN Class(tokens[p.at + 1]) ELSE "beyond"

\* What has to be done before a function that looks at the next token.
Looking(p) == IF NextIs(p) = "beyond" THEN Stop(p, "overrun") ELSE p

ErrorFar(p) == Stop(p, IF p.at + 2 > Len(tokens) THEN "overrun" ELSE "error")  \* mutant

\* parser_err() looks up the position of the token behind the cursor to report it.
Error(p) == Stop(p, IF NextIs(p) = "beyond" THEN "overrun" ELSE "error")

Advance(p) == IF p.at >= Len(tokens) THEN Stop(p, "overrun")
              ELSE IF Ok(p) THEN [p EXCEPT !.at = @ + 1] ELSE p
Back(p) == IF Ok(p) THEN [p EXCEPT !.at = @ - 1] ELSE p

Match(p, c) == Ok(p) /\ This(p) = c
Expect(p, c) == Ok(p) /\ NextIs(p) = c
MatchAdvanceAny(p, c) == Advance(p)   \* mutant: the token is not looked at

MatchAdvance(p, c) == IF Match(p, c) THEN Advance(p) ELSE Error(p)
ExpectAdvance(p, c) == IF Expect(p, c) THEN Advance(p) ELSE Error(p)

\* The functions for the nonterminals call each other in circles, and so by the name of
\* what they parse.
RECURSIVE Parse(_, _)

-----------------------------------------------------------------------------
(* Types.  The cursor is before a type, and afterwards on its last token. *)

NamedType(p, text, mut) ==
  Node(CASE text \in p.structs -> "struct" [] text \in p.enums -> "enum" [] OTHER -> "alias",
       text, mut, <<>>)

BaseType(p) ==
  LET mut == Expect(p, "mut")
      t == Advance(IF mut THEN Advance(p) ELSE p)
      name == Advance(t)
  IN CASE ~Ok(t) -> t
       [] This(t) \in BaseTypes -> Return(t, Node("base", tokens[t.at], mut, <<>>))
       [] This(t) \in {"struct", "enum"} ->
            Return(name, Node(This(t), IF Ok(name) THEN tokens[name.at] ELSE "", mut, <<>>))
       [] This(t) = "identifier" -> Return(t, NamedType(t, tokens[t.at], mut))
       [] This(t) \in {"mut", "[", "*"} -> Return(t, Node("base", tokens[t.at], mut, <<>>))
       [] OTHER -> Error(t)

\* The length of an array is whatever token follows the bracket.
ArrayType(p, inner, mut) ==
  LET open == Looking(Advance(p))
      length == IF NextIs(open) # "]" THEN Advance(open) ELSE open
  IN Return(ExpectAdvance(length, "]"),
            Node("array", IF Ok(length) /\ length # open THEN tokens[length.at] ELSE "", mut, <<inner>>))

\* `mut` makes a pointer of what it precedes, whatever token that is.
RECURSIVE TypeSuffixes(_)
TypeSuffixes(p) ==
  LET here == Looking(p)
      mut == Expect(here, "mut")
      behind == IF mut THEN Looking(Advance(here)) ELSE here
  IN IF ~Ok(behind) \/ NextIs(here) \notin {"*", "[", "mut"} THEN behind
     ELSE IF NextIs(behind) = "[" THEN TypeSuffixes(ArrayType(behind, p.node, mut))
     ELSE TypeSuffixes(Return(Advance(behind), Node("pointer", "", mut, <<p.node>>)))

ParseType(p) == IF Ok(p) THEN TypeSuffixes(BaseType(p)) ELSE p

ParsePrefixedType(p) ==
  LET here == Looking(p)
  IN IF Expect(here, ":") THEN Parse("type", Advance(here)) ELSE Return(here, Untyped)

-----------------------------------------------------------------------------
(* Expressions.  The cursor is on the first token, and afterwards behind the last. *)

\* Expressions up to the token close; a comma may stand before it where trailing says so.
RECURSIVE CommaList(_, _, _, _)
CommaList(p, close, trailing, found) ==
  LET e == Parse("expression", p)
      all == Append(found, e.node)
      comma == MatchAdvance(e, ",")
  IN CASE ~Ok(e) -> e
       [] Match(e, close) -> Return(e, List(all))
       [] trailing /\ Match(comma, close) -> Return(comma, List(all))
       [] OTHER -> IF Ok(comma) THEN CommaList(comma, close, trailing, all) ELSE comma

ParseFunctionCallExpr(p, callable) ==
  LET open == MatchAdvance(p, "(")
      args == IF Match(open, ")") THEN Return(open, List(<<>>))
              ELSE CommaList(open, ")", FALSE, <<>>)
  IN Return(Advance(args), Node("call", "", FALSE, <<callable>> \o args.node.parts))

ParseArrayLiteral(p) ==
  LET open == MatchAdvance(p, "[")
      elements == IF Match(open, "]") THEN Return(open, List(<<>>))
                  ELSE CommaList(open, "]", TRUE, <<>>)
  IN Return(MatchAdvance(elements, "]"), Node("array_literal", "", FALSE, elements.node.parts))

ParseParenExpr(p) == MatchAdvance(Parse("expression", MatchAdvance(p, "(")), ")")

\* The name of a field is whatever token stands there.
RECURSIVE StructValue(_, _, _)
StructValue(p, name, fields) ==
  LET value == Parse("expression", Advance(ExpectAdvance(p, ":")))
      all == Append(fields, Node("value", tokens[p.at], FALSE, <<value.node>>))
  IN IF ~Ok(value) THEN value
     ELSE IF Match(value, "}") THEN Return(Advance(value), Node("struct_value", name, FALSE, all))
     ELSE LET comma == MatchAdvance(value, ",")
          IN IF Ok(comma) THEN StructValue(comma, name, all) ELSE comma

ArrayDeref(p, name) ==
  LET index == Parse("expression", Advance(p))
  IN Return(MatchAdvance(index, "]"), Node("array_deref", name, FALSE, <<index.node>>))

\* p.key or p::key; the key is whatever token stands there.
GetExpr(p, name) ==
  LET key == Advance(p)
  IN Return(Advance(key),
            Node("get", IF Ok(key) THEN tokens[key.at] ELSE "", This(p) = "::",
                 <<Node("variable", name, FALSE, <<Untyped>>)>>))

\* The type of a variable is looked for one token too far.
Reference(p, name) ==
  LET mut == Match(p, "mut")
      q == IF mut THEN Advance(p) ELSE p
      type == ParsePrefixedType(q)
  IN IF name \in p.structs \union p.enums
     THEN Return(q, Node("type_expr", "", FALSE, <<NamedType(p, name, FALSE)>>))
     ELSE Return(type, Node("variable", name, mut, <<type.node>>))

ParseIdentExpr(p) ==
  LET name == tokens[p.at]
      q == Advance(p)
      callable == IF Match(q, ".") THEN GetExpr(q, name) ELSE Reference(q, name)
  IN CASE ~Ok(q) -> q
       [] Match(q, "::") -> GetExpr(q, name)
       [] Match(q, "{") -> LET f == Advance(q) IN IF Ok(f) THEN StructValue(f, name, <<>>) ELSE f
       [] Match(q, "[") -> ArrayDeref(q, name)
       [] OTHER -> IF Match(callable, "(") THEN ParseFunctionCallExpr(callable, callable.node)
                   ELSE callable

Leaf(p, kind) == Return(Advance(p), Node(kind, tokens[p.at], FALSE, <<>>))

BuiltinExpr(p) ==
  LET b == Leaf(p, "builtin")
  IN IF Match(b, "(") THEN ParseFunctionCallExpr(b, b.node) ELSE b

TypeExpr(p) ==
  LET type == Parse("type", Back(p))
  IN Return(Advance(type), Node("type_expr", "", FALSE, <<type.node>>))

ParsePrimary(p) ==
  CASE ~Ok(p) -> p
    [] This(p) = "identifier" -> ParseIdentExpr(p)
    [] This(p) \in {"number", "character"} -> Leaf(p, "number")
    [] This(p) = "(" -> ParseParenExpr(p)
    [] This(p) = "[" -> ParseArrayLiteral(p)
    [] This(p) = "text" -> Leaf(p, "string")
    [] This(p) \in {"null", "true", "false"} -> Leaf(p, "literal")
    [] This(p) = "builtin" -> BuiltinExpr(p)
    [] This(p) \in BaseTypes -> TypeExpr(p)
    [] OTHER -> Stop(p, "error")

ParseUnary(p) ==
  LET q == Advance(p)
      mut == This(p) = "&" /\ Match(q, "mut")
      operand == Parse("unary", IF mut THEN Advance(q) ELSE q)
  IN IF ~Ok(p) \/ This(p) \notin {"!", "-", "&", "*", "~"} THEN Parse("primary", p)
     ELSE IF ~Ok(q) THEN q
     ELSE Return(operand, Node("unary", tokens[p.at], mut, <<operand.node>>))

\* One operator of a level between two operands of the next.
Binary(p, operand, operators) ==
  LET lhs == Parse(operand, p)
      rhs == Parse(operand, Advance(lhs))
  IN IF ~Ok(lhs) \/ This(lhs) \notin operators THEN lhs
     ELSE Return(rhs, Node("binary", This(lhs), FALSE, <<lhs.node, rhs.node>>))

ParseFactor(p) == Binary(p, "unary", {"/", "*", "%"})
ParseTerm(p) == Binary(p, "factor", {"-", "+"})
ParseShift(p) == Binary(p, "term", {"<<", ">>"})
ParseComparisonTight(p) == Binary(p, "term", {">", ">=", "<", "<="})   \* mutant

ParseComparison(p) == Binary(p, "shift", {">", ">=", "<", "<="})
ParseEquality(p) == Binary(p, "comparison", {"!=", "=="})
ParseBand(p) == Binary(p, "equality", {"&"})
ParseBxor(p) == Binary(p, "band", {"^"})
ParseBor(p) == Binary(p, "bxor", {"|"})

IsTarget(node) == \/ node.kind \in {"variable", "get", "array_deref"}
                  \/ node.kind = "unary" /\ node.text = "*"

ParseAssignment(p) ==
  LET lhs == Parse("bor", p)
      rhs == Parse("expression", Advance(lhs))
  IN IF ~Match(lhs, "=") THEN lhs
     ELSE IF IsTarget(lhs.node)
     THEN Return(rhs, Node("assignment", "", FALSE, <<lhs.node, rhs.node>>))
     ELSE Stop(rhs, "error")

\* A condition in parentheses; the cursor comes back to the closing one.
Condition(p) == Back(MatchAdvance(Parse("expression", MatchAdvance(Advance(p), "(")), ")"))

\* The flag says that the else was written as `else if`.
IfExpr(p) ==
  LET cond == Condition(p)
      then == Looking(Parse("statements", cond))
      else == Looking(Advance(then))
      chained == Expect(else, "if")
      body == IF chained THEN Parse("expression", Advance(else)) ELSE Parse("statements", else)
      else_body == IF chained THEN Block(<<Node("expression", "", FALSE, <<body.node>>)>>) ELSE body.node
  IN IF ~Expect(then, "else")
     THEN Return(then, Node("if", "", FALSE, <<cond.node, then.node>>))
     ELSE Return(body, Node("if", "", chained, <<cond.node, then.node, else_body>>))

WhileExpr(p) ==
  LET cond == Condition(p)
      body == Parse("statements", cond)
  IN Return(body, Node("while", "", FALSE, <<cond.node, body.node>>))

ParseExpression(p) ==
  LET e == CASE ~Ok(p) -> p
             [] This(p) = "if" -> IfExpr(p)
             [] This(p) = "while" -> WhileExpr(p)
             [] OTHER -> ParseAssignment(p)
      type == Parse("type", e)
  IN IF Match(e, "as") THEN Return(Advance(type), Node("cast", "", FALSE, <<e.node, type.node>>))
     ELSE e

-----------------------------------------------------------------------------
(* Statements.  The cursor is on the first token, and afterwards behind the last;  *)
(* a body is entered before its brace and left on the closing one.                 *)

ParseReturn(p) ==
  LET e == Parse("expression", Advance(p))
  IN Return(MatchAdvance(e, ";"), Node("return", "", FALSE, <<e.node>>))

\* The flag of the variable overrides the one of its type.
ParseLetStatement(p) ==
  LET mut == Expect(p, "mut")
      name == ExpectAdvance(IF mut THEN Advance(p) ELSE p, "identifier")
      type == ParsePrefixedType(Looking(name))
      e == Parse("expression", Advance(ExpectAdvance(type, "=")))
  IN IF ~Ok(name) THEN name
     ELSE Return(MatchAdvance(e, ";"),
                 Node("let", tokens[name.at], mut, <<[type.node EXCEPT !.flag = mut], e.node>>))

\* The flag says that the deferred statements were written as a body.
ParseDefer(p) ==
  LET q == Advance(p)
      braces == Match(q, "{")
      body == Parse("statements", Back(q))
      e == Parse("expression", q)
  IN IF braces THEN Return(MatchAdvance(body, "}"), Node("defer", "", TRUE, <<body.node>>))
     ELSE Return(MatchAdvance(e, ";"),
                 Node("defer", "", FALSE, <<Block(<<Node("expression", "", FALSE, <<e.node>>)>>)>>))

ParseExpressionStatement(p) ==
  LET e == Parse("expression", p)
  IN CASE ~Ok(e) -> e
       [] This(e) = ";" \/ e.node.kind \in {"if", "while"} ->
            Return(Advance(e), Node("expression", "", FALSE, <<e.node>>))
       [] This(e) \in {"{", "}", "EOF", ",", ")", "as"} -> e
       [] OTHER -> Stop(e, "error")

\* The value of an enumerator that is given none is one more than the last.
ValueOf(text) == IF text \in Chars THEN 97 ELSE CHOOSE n \in 0 .. 99 : ToString(n) = text
IsInteger(node) == node.kind = "number" /\ node.text \notin Floats

\* The flag says that the enumerator was given its value.
RECURSIVE EnumFields(_, _, _)
EnumFields(p, value, fields) ==
  LET name == MatchAdvance(p, "identifier")
      given == Match(name, "=")
      e == IF given THEN Parse("primary", Advance(name))
           ELSE Return(name, Node("number", ToString(value), FALSE, <<>>))
      all == Append(fields, Node("enumerator", tokens[p.at], given, <<e.node>>))
      comma == MatchAdvance(e, ",")
  IN CASE ~Ok(e) -> e
       [] ~IsInteger(e.node) -> Return(e, Null)
       [] Match(e, "}") -> Return(e, List(all))
       [] OTHER -> IF Ok(comma) THEN EnumFields(comma, ValueOf(e.node.text) + 1, all) ELSE comma

ParseEnumDefinition(p) ==
  LET name == ExpectAdvance(p, "identifier")
      open == Advance(ExpectAdvance(name, "{"))
      fields == IF Match(open, "}") THEN Return(open, List(<<>>))
                ELSE IF Ok(open) THEN EnumFields(open, 0, <<>>) ELSE open
      close == MatchAdvance(fields, "}")
  IN IF ~Ok(close) THEN close
     ELSE [Return(close, Node("enum", tokens[name.at], FALSE, <<fields.node>>))
             EXCEPT !.enums = @ \union {tokens[name.at]}]

ParseStatement(p) ==
  CASE ~Ok(p) -> p
    [] This(p) = "return" -> ParseReturn(p)
    [] This(p) = "let" -> Parse("let", p)
    [] This(p) = "break" -> Return(Advance(ExpectAdvance(p, ";")), Node("break", "", FALSE, <<>>))
    [] This(p) = "struct" -> Parse("struct", p)
    [] This(p) = "enum" -> Parse("enum", p)
    [] This(p) = "defer" -> ParseDefer(p)
    [] OTHER -> ParseExpressionStatement(p)

RECURSIVE Statements(_, _)
Statements(p, stmts) ==
  LET here == Looking(p)
      stmt == ParseStatement(Advance(here))
  IN CASE ~Ok(here) -> here
       [] NextIs(here) = "}" -> Return(Advance(here), Block(stmts))
       [] OTHER -> IF Ok(stmt) THEN Statements(Back(stmt), Append(stmts, stmt.node)) ELSE stmt

ParseStatements(p) == Statements(ExpectAdvance(Looking(p), "{"), <<>>)

-----------------------------------------------------------------------------
(* Definitions *)

Argument(p) ==
  LET type == ParsePrefixedType(p)
      vararg == This(p) = "..."
  IN IF ~Ok(p) THEN p
     ELSE Return(type, Node("argument", tokens[p.at], FALSE,
                            <<IF vararg THEN [Untyped EXCEPT !.flag = type.node.flag] ELSE type.node>>))

\* Further arguments are names or dots; the first one may be any token.
RECURSIVE Arguments(_, _)
Arguments(p, args) ==
  LET arg == Looking(Argument(p))
      all == Append(args, arg.node)
      comma == Looking(ExpectAdvance(arg, ","))
  IN CASE ~Ok(arg) -> arg
       [] NextIs(arg) = ")" \/ arg.node.text = "..." -> Return(arg, List(all))
       [] ~Ok(comma) -> comma
       [] NextIs(comma) \in {"identifier", "..."} -> Arguments(Advance(comma), all)
       [] OTHER -> Error(comma)

ParsePrototype(p) ==
  LET name == ExpectAdvance(p, "identifier")
      open == Looking(ExpectAdvance(name, "("))
      args == IF Expect(open, ")") THEN Return(open, List(<<>>)) ELSE Arguments(Advance(open), <<>>)
      type == ParsePrefixedType(ExpectAdvance(args, ")"))
      types == args.node.parts
      vararg == types # <<>> /\ types[Len(types)].text = "..."
  IN IF ~Ok(name) THEN name
     ELSE Return(type, Node("prototype", tokens[name.at], vararg, types \o <<type.node>>))

ParseFunction(p) ==
  LET prototype == Parse("prototype", p)
      body == Parse("statements", prototype)
  IN Return(body, Node("function", prototype.node.text, FALSE, <<prototype.node, body.node>>))

\* Functions up to the closing brace, whatever token they begin with.
RECURSIVE StructFunctions(_, _)
StructFunctions(p, functions) ==
  LET f == Advance(ParseFunction(p))
  IN CASE ~Ok(p) -> p
       [] This(p) = "}" -> Return(p, List(functions))
       [] OTHER -> IF Ok(f) THEN StructFunctions(f, Append(functions, f.node)) ELSE f

RECURSIVE StructFields(_, _)
StructFields(p, fields) ==
  LET name == Back(MatchAdvance(p, "identifier"))
      type == Advance(ParsePrefixedType(name))
      all == Append(fields, Node("field", tokens[p.at], FALSE, <<type.node>>))
      comma == MatchAdvance(type, ",")
  IN CASE Match(p, "fn") -> Return(p, List(fields))
       [] ~Ok(type) -> type
       [] This(type) \in {"}", "fn"} -> Return(type, List(all))
       [] OTHER -> IF Ok(comma) THEN StructFields(comma, all) ELSE comma

\* A struct without fields is reported, and goes on with NULL for its fields.
ParseStructDefinition(p) ==
  LET name == ExpectAdvance(Back(MatchAdvance(p, "struct")), "identifier")
      open == Advance(ExpectAdvance(name, "{"))
      known == [open EXCEPT !.structs = @ \union {tokens[name.at]}]
      found == IF Match(known, "}") THEN Return(known, List(<<>>)) ELSE StructFields(known, <<>>)
      fields == IF found.node.parts = <<>> THEN Null ELSE found.node
      functions == StructFunctions(found, <<>>)
  IN IF ~Ok(open) THEN open
     ELSE Return(MatchAdvance(functions, "}"),
                 Node("struct", tokens[name.at], FALSE, <<fields, functions.node>>))

ParseExtern(p) ==
  LET name == Back(MatchAdvance(Advance(p), "identifier"))
      type == ParsePrefixedType(name)
      prototype == Parse("prototype", p)
  IN IF p.at + 2 > Len(tokens) THEN Stop(p, "overrun")
     ELSE IF tokens[p.at + 2] = ":"
     THEN ExpectAdvance(Return(type, Node("extern", tokens[p.at + 1], TRUE, <<type.node>>)), ";")
     ELSE ExpectAdvance(Return(prototype, Node("function", prototype.node.text, FALSE,
                                               <<prototype.node>>)), ";")

ParseImport(p) ==
  LET path == ExpectAdvance(p, "text")
      q == ExpectAdvance(path, ";")
  IN IF Ok(q) /\ tokens[path.at] \in Missing THEN Stop(q, "missing")
     ELSE Return(q, Node("import", IF Ok(path) THEN tokens[path.at] ELSE "", FALSE, <<>>))

ParseAlias(p) ==
  LET name == ExpectAdvance(p, "identifier")
      type == Parse("type", ExpectAdvance(name, "="))
  IN Return(ExpectAdvance(type, ";"),
            Node("alias", IF Ok(name) THEN tokens[name.at] ELSE "", FALSE, <<type.node>>))

ParseItem(p) ==
  CASE This(p) = "fn" -> ParseFunction(p)
    [] This(p) = "extern" -> ParseExtern(p)
    [] This(p) = "struct" -> Back(Parse("struct", p))
    [] This(p) = "enum" -> Back(Parse("enum", p))
    [] This(p) = "import" -> ParseImport(p)
    [] This(p) = "let" -> Back(Parse("let", p))
    [] This(p) = "type" -> ParseAlias(p)
    [] OTHER -> Error(p)

\* Items are gathered in the order of the file, where the code has a list of each kind.
Items(p) ==
  LET item == Parse("item", p)
  IN IF p.at > Len(tokens) THEN p
     ELSE IF This(p) = "EOF" THEN Parse("items", [p EXCEPT !.at = @ + 1])
     ELSE IF Ok(item) THEN Parse("items", [item EXCEPT !.at = @ + 1, !.items = Append(@, item.node)])
     ELSE item

Parse(what, p) ==
  CASE what = "type" -> ParseType(p)
    [] what = "expression" -> ParseExpression(p)
    [] what = "bor" -> ParseBor(p)
    [] what = "bxor" -> ParseBxor(p)
    [] what = "band" -> ParseBand(p)
    [] what = "equality" -> ParseEquality(p)
    [] what = "comparison" -> ParseComparison(p)
    [] what = "shift" -> ParseShift(p)
    [] what = "term" -> ParseTerm(p)
    [] what = "factor" -> ParseFactor(p)
    [] what = "unary" -> ParseUnary(p)
    [] what = "primary" -> ParsePrimary(p)
    [] what = "statements" -> ParseStatements(p)
    [] what = "let" -> ParseLetStatement(p)
    [] what = "enum" -> ParseEnumDefinition(p)
    [] what = "struct" -> ParseStructDefinition(p)
    [] what = "prototype" -> ParsePrototype(p)
    [] what = "item" -> ParseItem(p)
    [] what = "items" -> Items(p)

ParseFile ==
  /\ result.how = "none"
  /\ result' = Parse("items", Start)
  /\ UNCHANGED file

Over == result.how # "none" /\ UNCHANGED vars
Next == ParseFile \/ Over
Spec == Init /\ [][Next]_vars
==============================================================================
