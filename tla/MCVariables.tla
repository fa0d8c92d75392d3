------------------------------- MODULE MCVariables -------------------------------
(* Small modules of four families: the types of a declaration and what is done with it, bodies   *)
(* in bodies, the order of parameters and declarations, and the same names in several functions. *)
EXTENDS Variables

MCPrefixes == {}
MCStructs == {"S"}
MCEnums == {"E"}
S32 == Base("s32")
Alias(name) == <<Layer("alias", FALSE, name)>>
MCAliases == <<[name |-> "A", type |-> S32], [name |-> "B", type |-> Alias("A")],
               [name |-> "P", type |-> Ptr(Alias("B"), TRUE)], [name |-> "C", type |-> Alias("D")],
               [name |-> "D", type |-> Alias("C")], [name |-> "T", type |-> Alias("S")]>>
MCHash == [x \in {"a", "b", "x", "y", "p", "g", "c"} |->
             CASE x = "a" -> 0 [] x = "b" -> 2 [] x = "x" -> 1 [] x = "y" -> 3 [] x = "p" -> 5 [] x = "g" -> 4 [] x = "c" -> 7]

Num == N("number", "", S32, <<>>)
Bool == N("bool", "", NoType, <<>>)
Var(x) == N("variable", x, NoType, <<>>)
Ref(n) == N("ref", "", NoType, <<n>>)
Deref(n) == N("deref", "", NoType, <<n>>)
Cast(n, t) == N("cast", "", t, <<n>>)
\* The type of a let is mutable as the let is, whatever is written.
Typed(x, t, mut, init) ==
  N("let", x, NoType, <<N("variable", x, [t EXCEPT ![1].mut = mut], <<>>), init>>)
Untyped_(x, mut, init) == Typed(x, Base("any"), mut, init)
Set(lhs, rhs) == N("assign", "", NoType, <<lhs, rhs>>)
Block(stmts) == N("block", "", NoType, stmts)
If(then, else) == N("if", "", NoType, <<Bool, Block(then), Block(else)>>)
While(body) == N("while", "", NoType, <<Bool, Block(body)>>)
Stmt(n) == N("expression", "", NoType, <<n>>)
Param(x, t) == N("variable", x, t, <<>>)
Function(params, stmts) == [params |-> params, body |-> Block(stmts)]
Module(globals, methods, functions) == [globals |-> globals, methods |-> methods, functions |-> functions]

\* One parameter, one declaration, one use of it.
ParamTypes == {S32, Mutable(S32), Ptr(S32, FALSE), Ptr(S32, TRUE), Alias("B"), Alias("P"), Alias("E")}
LetTypes == {Base("any"), S32, Base("u8"), Ptr(S32, FALSE), Alias("A"), Alias("C"), Alias("T"), Alias("Z")}
Inits == {Num, Var("p"), Var("g"), Deref(Var("p")), Ref(Var("p")), Cast(Var("p"), Base("u8")), Cast(Num, Alias("A"))}
Uses == {Stmt(Set(Var("x"), Num)), Stmt(Set(Deref(Var("x")), Num)), Untyped_("y", FALSE, Var("x")), Stmt(Set(Var("g"), Var("x")))}
OfTypes ==
  {Module(<<Typed("g", S32, TRUE, Num)>>, <<>>, <<Function(<<Param("p", t)>>, <<Typed("x", u, mut, init), use>>)>>) :
     t \in ParamTypes, u \in LetTypes, mut \in BOOLEAN, init \in Inits, use \in Uses}

\* Declarations, assignments and uses in bodies that stand bare at the end or in a statement.
Small == {Untyped_("x", TRUE, Num), Untyped_("y", FALSE, Var("x")), Stmt(Set(Var("x"), Num)), Typed("x", Alias("A"), TRUE, Num),
          Var("y")}
Bodies == {<<>>} \union {<<s>> : s \in Small} \union {<<s, t>> : s \in Small, t \in Small}
OfBodies ==
  {Module(<<>>, <<>>, <<Function(params, before \o last)>>) :
     params \in {<<>>, <<Param("p", S32)>>},
     before \in {<<>>} \union {<<s>> : s \in Small},
     last \in UNION {{<<If(b, <<>>)>>, <<If(<<>>, b)>>, <<While(b)>>, <<Stmt(If(b, <<>>)), Var("x")>>,
                      <<If(<<>>, <<If(b, <<>>)>>)>>, <<Stmt(While(<<Stmt(If(<<>>, b))>>))>>} : b \in Bodies}}

\* Where the parameter or the variable stands that an initialiser reads.
OrdersOf(t) == {<<Param("p", t)>>, <<Param("p", t), Param("a", S32)>>, <<Param("a", S32), Param("p", t)>>,
                <<Param("a", S32), Param("b", S32), Param("p", t)>>}
InitsAfter(params) ==
  {Var("p"), Var("x"), Var("g"), Ref(Var("p")), Ref(Var("x"))}
    \union {Deref(Var(q.name)) : q \in {r \in Range(params) : r.type = Ptr(S32, FALSE)}}
OfOrders ==
  UNION {{Module(<<Typed("g", S32, FALSE, Num)>>, <<>>, <<Function(params, first \o <<Untyped_("y", mut, init)>>)>>) :
            mut \in BOOLEAN, init \in InitsAfter(params),
            first \in {<<>>, <<Typed("x", S32, FALSE, Num)>>, <<Untyped_("c", FALSE, Num), Untyped_("x", FALSE, Num)>>}} :
         params \in {<<>>} \union OrdersOf(S32) \union OrdersOf(Ptr(S32, FALSE))}

\* The names of several functions and of a global, in few chains.
Naming == {Untyped_("a", TRUE, Num), Untyped_("b", FALSE, Num), Var("a"), Var("b")}
Namings(k) == UNION {[1..n -> Naming] : n \in 0..k}
OfNames ==
  {Module(globals, methods, <<Function(params, f), Function(<<>>, g)>>) :
     globals \in {<<>>, <<Typed("a", S32, FALSE, Num)>>},
     methods \in {<<>>, <<Function(<<Param("a", S32)>>, <<Untyped_("b", FALSE, Num)>>)>>},
     params \in {<<>>, <<Param("b", S32)>>}, g \in Namings(3),
     f \in {<<>>, <<Untyped_("a", FALSE, Num)>>, <<Untyped_("a", TRUE, Num), Untyped_("b", FALSE, Num)>>,
           <<Untyped_("a", TRUE, Num), Typed("a", Base("u8"), TRUE, Num)>>}}

MCPrograms == OfTypes \union OfBodies \union OfOrders \union OfNames
================================================================================
