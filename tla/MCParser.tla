------------------------------- MODULE MCParser -------------------------------
(* The parser on the texts of small trees, and on files with a hole in them    *)
(* that is filled with every short sequence of words.                          *)
EXTENDS Printer

MCNames == {"x", "f", "S", "E", "k"}
MCNumbers == {"1", "2"}
MCFloats == {"1.5"}
MCChars == {"'a'"}
MCStrings == {"\"s\"", "\"gone\""}
MCMissing == {"\"gone\""}
MCBuiltins == {"@b"}

-----------------------------------------------------------------------------
(* Trees *)

Base(t) == Node("base", t, FALSE, <<>>)
Variable(x) == Node("variable", x, FALSE, <<Untyped>>)
Number(n) == Node("number", n, FALSE, <<>>)
X == Variable("x")
One == Number("1")

BinaryOf(op, l, r) == Node("binary", op, FALSE, <<l, r>>)
UnaryOf(op, e) == Node("unary", op, FALSE, <<e>>)
Assign(l, r) == Node("assignment", "", FALSE, <<l, r>>)
Cast(e, t) == Node("cast", "", FALSE, <<e, t>>)
CallOf(args) == Node("call", "", FALSE, <<Variable("f")>> \o args)
ArrayOf(s) == Node("array_literal", "", FALSE, s)
StructOf(s) == Node("struct_value", "S", FALSE, [k \in DOMAIN s |-> Node("value", "k", FALSE, <<s[k]>>)])
Element(e) == Node("array_deref", "x", FALSE, <<e>>)
Get(enum) == Node("get", "k", enum, <<X>>)

Lowest == {"|", "^", "&", "==", "<", "<<", "-", "/"}
Unaries == {"!", "-", "&", "*", "~"}

\* Every construct over names and numbers, and every construct over those.
Shallow ==
  {X, One, Get(TRUE), Get(FALSE), Cast(X, Base("u8")), Assign(X, One), CallOf(<<>>), CallOf(<<X, One>>),
   ArrayOf(<<>>), ArrayOf(<<X, One>>), StructOf(<<X>>), StructOf(<<X, One>>), Element(One),
   Node("unary", "&", TRUE, <<X>>), Node("string", "\"s\"", FALSE, <<>>), Node("literal", "null", FALSE, <<>>),
   Node("number", "'a'", FALSE, <<>>), Node("builtin", "@b", FALSE, <<>>),
   Node("call", "", FALSE, <<Node("builtin", "@b", FALSE, <<>>), Node("type_expr", "", FALSE, <<Base("s32")>>)>>),
   Node("call", "", FALSE, <<Get(FALSE), One>>)}
  \union {BinaryOf(op, X, One) : op \in UNION {Binaries[n] : n \in DOMAIN Binaries}}
  \union {UnaryOf(op, X) : op \in Unaries}
Operands == {e \in Shallow : e.kind # "binary" \/ e.text \in Lowest}
Deep ==
  {UnaryOf(op, e) : op \in Unaries, e \in Operands}
  \union {Assign(l, r) : l \in {X, Get(FALSE), Element(One), UnaryOf("*", X)}, r \in Operands}
  \union {Cast(e, t) : e \in Operands, t \in {Base("u8"), Node("pointer", "", FALSE, <<Base("u8")>>),
                                               Node("array", "2", TRUE, <<Base("u8")>>)}}
  \union UNION {{CallOf(<<e, d>>), ArrayOf(<<e, d>>), StructOf(<<e, d>>), Element(e)} :
                 e \in Operands, d \in {X, Assign(X, One)}}

Prototype(args, type) == Node("prototype", "f", FALSE, args \o <<type>>)
Function(stmts) == Node("function", "f", FALSE, <<Prototype(<<>>, Untyped), Block(stmts)>>)
Argument1 == Node("argument", "x", FALSE, <<Base("u8")>>)
Arrow == Node("pointer", "", FALSE, <<Node("alias", "k", FALSE, <<>>)>>)
Dots == Node("argument", "...", FALSE, <<Untyped>>)

Return1(e) == Node("return", "", FALSE, <<e>>)
Say(e) == Node("expression", "", FALSE, <<e>>)
Let(mut, type, e) == Node("let", "x", mut, <<[type EXCEPT !.flag = mut], e>>)
While == Node("while", "", FALSE, <<X, Block(<<Node("break", "", FALSE, <<>>)>>)>>)
Simple == {Return1(X), Say(Assign(X, One)), Say(While), Node("break", "", FALSE, <<>>), X,
           Let(TRUE, Untyped, One), Let(FALSE, Arrow, Node("struct_value", "S", FALSE,
                                                      <<Node("value", "k", FALSE, <<One>>)>>)),
           Node("defer", "", TRUE, <<Block(<<Return1(X), X>>)>>),
           Node("defer", "", FALSE, <<Block(<<Say(Assign(X, One))>>)>>)}
IfOf(s) == Node("if", "", FALSE, <<X, Block(s)>>)
Else(s, t) == Node("if", "", FALSE, <<X, Block(s), Block(t)>>)
Chain(s, e) == Node("if", "", TRUE, <<X, Block(s), Block(<<Say(e)>>)>>)
Conditional == UNION {{Say(IfOf(<<s>>)), Say(Else(<<>>, <<s>>)), Say(Chain(<<s>>, IfOf(<<>>))),
                       Say(Else(<<>>, <<Say(IfOf(<<s>>))>>)), Say(Chain(<<>>, Chain(<<>>, Else(<<s>>, <<>>))))}
                      : s \in Simple}
BodyTrees == {<<s>> : s \in Conditional} \union {<<s, t>> : s \in (Simple \ {X}) \union Conditional, t \in Simple}

Enumerator(x, v, given) == Node("enumerator", x, given, <<Number(v)>>)
Enum1 == Node("enum", "E", FALSE, <<List(<<Enumerator("x", "0", FALSE), Enumerator("f", "2", TRUE),
                                            Enumerator("k", "3", FALSE)>>)>>)
Field(t) == Node("field", "x", FALSE, <<t>>)
Struct1(functions) ==
  Node("struct", "S", FALSE,
       <<List(<<Field(Base("u8")), Field(Node("pointer", "", TRUE, <<Node("struct", "S", FALSE, <<>>)>>))>>),
         List(functions)>>)
Extern(args, type, vararg) == Node("function", "f", FALSE, <<[Prototype(args, type) EXCEPT !.flag = vararg]>>)
ItemTrees ==
  {Function(<<>>), Function(<<Enum1, Struct1(<<>>)>>), Enum1, Struct1(<<>>), Struct1(<<Function(<<>>), Function(<<X>>)>>),
   Extern(<<Argument1, Argument1>>, Base("u8"), FALSE), Extern(<<Argument1, Dots>>, Untyped, TRUE),
   Extern(<<Dots>>, Arrow, TRUE), Extern(<<>>, Untyped, FALSE), Let(FALSE, Base("u8"), One), Let(TRUE, Untyped, X),
   Node("extern", "x", TRUE, <<Base("u8")>>), Node("import", "\"s\"", FALSE, <<>>), Node("enum", "E", FALSE, <<List(<<>>)>>),
   Node("alias", "k", FALSE, <<Arrow>>), Node("alias", "k", FALSE, <<Node("array", "", FALSE, <<Base("u8")>>)>>)}

Trees == {<<Function(<<Return1(e)>>)>> : e \in Shallow \union Deep}
         \union {<<Function(b)>> : b \in BodyTrees}
         \union {<<i, j>> : i, j \in ItemTrees}

-----------------------------------------------------------------------------
(* Files with a hole: what stands before it, what may fill it, how long, and what follows *)

Holes ==
  {[before |-> <<"struct", "S", "{", "k", ":", "u8", "}", "fn", "f", "(", ")", "{">>, after |-> <<"}", "EOF">>,
    words |-> {"x", "S", "1", "(", ")", "{", "}", ";", "[", "]", ":", ".", "=", "+", ","}, most |-> 4],
   [before |-> <<"fn", "f", "(", ")", "{", "x">>, after |-> <<"1", ";", "}", "EOF">>,
    words |-> {"x", "1", "(", ")", "{", ";", "[", "=", "-", "as", "u8", "mut", ":", ","}, most |-> 4],
   [before |-> <<"type", "x", "=">>, after |-> <<";", "EOF">>,
    words |-> {"u8", "mut", "*", "[", "]", "1", "struct", "x"}, most |-> 4],
   [before |-> <<"extern", "f", "(">>, after |-> <<")", ";", "EOF">>,
    words |-> {"x", ":", "u8", ",", "...", "1", ")"}, most |-> 4],
   [before |-> <<"struct", "S", "{">>, after |-> <<"}", "EOF">>,
    words |-> {"x", ":", "u8", ",", "fn", "(", "}"}, most |-> 4],
   [before |-> <<"struct", "S", "{", "x", ":", "u8">>, after |-> <<"f", "(", ")", "{", "}", "}", "EOF">>,
    words |-> {"x", ":", "u8", ",", "fn", "mut", "*"}, most |-> 3],
   [before |-> <<"struct", "S", "{", "x", ":", "u8", "fn", "f", "(", ")", "{", "}">>,
    after |-> <<"f", "(", ")", "{", "}", "}", "EOF">>, words |-> {"fn", "x", "{", "}", ",", ";"}, most |-> 2],
   [before |-> <<"fn", "f", "(", ")", "{", "let">>, after |-> <<"1", ";", "}", "EOF">>,
    words |-> {"x", "mut", ":", "u8", "=", ";", "*"}, most |-> 5],
   [before |-> <<"fn", "f", "(", ")", "{", "return">>, after |-> <<"}", "EOF">>,
    words |-> {"x", "u8", ":", "*", "mut", ";", "1", "["}, most |-> 5],
   [before |-> <<"fn", "f", "(", ")", "{", "return", "x">>, after |-> <<"}", "EOF">>,
    words |-> {";", ":", "u8", "*", "mut", "[", "]"}, most |-> 5],
   [before |-> <<"enum", "E", "{">>, after |-> <<"}", "EOF">>,
    words |-> {"x", "=", "1", "1.5", ",", "-", "'a'"}, most |-> 4],
   [before |-> <<>>, after |-> <<"EOF">>,
    words |-> {"extern", "import", "\"s\"", "\"gone\"", ";", "x", "let", "=", "1", "type", "u8", "fn", "(", ")", ":"}, most |-> 3],
   [before |-> <<"import", "\"s\"">>, after |-> <<"x", ":", "u8", ";", "EOF">>,
    words |-> {"extern", "import", "\"gone\"", ";", "let", "="}, most |-> 4],
   [before |-> <<"fn", "f", "(", ")", "{", "if", "(", "x", ")", "{", "}">>, after |-> <<"}", "EOF">>,
    words |-> {"else", "if", "while", "(", "x", ")", "{", "}", ";", "defer", "break"}, most |-> 4]}

Printed(tree) == [tokens |-> Written(tree), tree |-> tree]

\* Init, on files that TLC can enumerate: printed ones, filled ones, and printed ones cut short.
MCInit ==
  /\ \/ \E t \in Trees : file = Printed(t)
     \/ \E op \in Lowest, l, r \in Operands : file = Printed(<<Function(<<Return1(BinaryOf(op, l, r))>>)>>)
     \/ \E h \in Holes : \E n \in 0 .. h.most : \E s \in [1 .. n -> h.words] :
          file = [tokens |-> h.before \o s \o h.after, tree |-> <<>>]
     \/ \E t \in Trees : LET all == Written(t) IN
          \E n \in 0 .. Len(all) - 2 : file = [tokens |-> SubSeq(all, 1, n) \o <<"EOF">>, tree |-> <<>>]
  /\ result = [Start EXCEPT !.how = "none"]

MCSpec == MCInit /\ [][Next]_vars
===============================================================================
