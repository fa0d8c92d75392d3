------------------------------- MODULE Variables -------------------------------
(***************************************************************************)
(* The variables of a luka module, from the tree the parser made to the    *)
(* storage the code generator gives them.  References are found by name,   *)
(* three times: the types of parameters and variables are filled into the  *)
(* references (src/ast.c), aliases are resolved in some of the places they *)
(* can be in, the type checker compares what was filled in                 *)
(* (src/type_checker.c), and the generator (src/gen.c) finds the storage   *)
(* of a name in one table for the whole compilation, which is the module   *)
(* NamedValues: every step declares and looks up names there, goes on to   *)
(* the next function, or leaves it alone.                                  *)
(*                                                                         *)
(* A node has a kind, a name, a type and parts.  Calls, arrays, fields,    *)
(* operators, return and defer are left out: the first are looked up the   *)
(* same way, the others are in the modules Arithmetic and FunctionGen.     *)
(* The last if or while of a body stands bare, the others in expression    *)
(* statements, as they are after the promotion in FunctionGen.             *)
(***************************************************************************)
EXTENDS Types, NamedValues

CONSTANTS
  Aliases,    \* the type aliases, newest first: [name, type]
  Structs, Enums,   \* the names of the module's structs and enums
  Programs    \* the modules to compile: [globals, methods, functions]

VARIABLES
  source,     \* history: the module as it was parsed
  program,    \* the module, which every stage changes in place
  stage, at,  \* the stage, and the global or function it is at; in the last stage that is owner
  todo,       \* the parameters, or the statements left of the body, being generated
  stored,     \* the type that each storage holds, and history: that of its first value
  bad         \* LLVM will not accept the function

vars == <<source, program, stage, at, todo, stored, bad, namedVars>>

N(kind, name, type, parts) == [kind |-> kind, name |-> name, type |-> type, parts |-> parts]
Crash == <<Layer("void", TRUE, "NULL")>>   \* not a type: a type that is not there was looked at

-----------------------------------------------------------------------------
(* Types of expressions: TYPE_get_type() *)

RECURSIVE TypeOf(_)
TypeOf(n) ==
  CASE n.kind = "number" -> Mutable(n.type)
    [] n.kind \in {"variable", "cast"} -> n.type
    [] n.kind = "bool" -> Base("bool")
    [] n.kind = "ref" -> IF TypeOf(n.parts[1]) = Crash THEN Crash ELSE Ptr(TypeOf(n.parts[1]), n.name = "mut")
    [] n.kind = "deref" ->
         LET t == TypeOf(n.parts[1]) IN IF t \in {NoType, Crash} THEN Crash ELSE Tail(t)
    [] OTHER -> Base("void")

\* No type, or a pointer to none.
Incomplete(t) == t = NoType \/ t[Len(t)].kind = "ptr"

-----------------------------------------------------------------------------
(* Filling in types: ast_fill_type() and its callers *)

FilledVarNever(let) == let.parts[1].type   \* mutant: what is left out stays left out
FilledVarEager(let) ==   \* mutant: no initialiser is without a type
  LET t == let.parts[1].type
      e == TypeOf(let.parts[2])
  IN IF t # NoType /\ t[1].kind # "any" THEN t
     ELSE IF e \in {NoType, Crash} THEN Crash ELSE IF t # NoType /\ t[1].mut THEN Mutable(e) ELSE e
\* ast_fill_let_stmt_var_if_needed()
FilledVar(let) ==
  LET t == let.parts[1].type
      e == TypeOf(let.parts[2])
      first == IF t = NoType THEN e ELSE t
  IN CASE first \in {NoType, Crash} -> Crash
       [] first \notin {NoType, Crash} /\ first[1].kind # "any" -> first
       [] OTHER -> IF e = Crash \/ (e = NoType /\ first[1].mut) THEN Crash
                   ELSE IF e # NoType /\ first[1].mut THEN Mutable(e) ELSE e
FillLet(let) == [let EXCEPT !.parts[1].type = FilledVar(let)]

\* One reference or declaration after the other, wherever it stands.
RECURSIVE FillType(_, _, _)
FillType(n, name, type) ==
  CASE n.kind = "variable" -> IF n.name = name THEN [n EXCEPT !.type = type] ELSE n
    [] n.kind = "let" -> FillLet([n EXCEPT !.parts[2] = FillType(@, name, type)])
    [] OTHER -> [n EXCEPT !.parts = [i \in DOMAIN @ |-> FillType(@[i], name, type)]]

\* AST_fill_variable_types() on a body: a let fills the whole of the node it stands in, a bare
\* if or while fills itself, and one in an expression statement is not entered.  path leads
\* from the node to the block.
RECURSIVE FillBlock(_, _, _)
FillNode(n) ==
  CASE n.kind = "if" -> FillBlock(FillBlock(n, 2, 1), 3, 1)
    [] n.kind = "while" -> FillBlock(n, 2, 1)
    [] n.kind = "function" -> FillBlock(n, 1, 1)
    [] OTHER -> n
FillBlock(n, b, i) ==
  IF i > Len(n.parts[b].parts) THEN n
  ELSE LET stmt == n.parts[b].parts[i]
       IN FillBlock(IF stmt.kind = "let"
                    THEN LET filled == FillLet(stmt)
                         IN FillType([n EXCEPT !.parts[b].parts[i] = filled], stmt.name, filled.parts[1].type)
                    ELSE [n EXCEPT !.parts[b].parts[i] = FillNode(stmt)], b, i + 1)

\* A function is [params, body], its parameters being variables.
FillParameters(f) ==
  [f EXCEPT !.body = FoldLeft(LAMBDA body, p : FillType(body, p.name, p.type), f.body, f.params)]
FillFunctionAlone(f) == FillParameters(f)   \* mutant: the parameters only
FillFunction(f) ==
  LET g == FillParameters(f)
  IN [g EXCEPT !.body = FillNode(N("function", "", NoType, <<g.body>>)).parts[1]]

RECURSIVE NodesOf(_)
NodesOf(n) == {n} \union UNION {NodesOf(n.parts[i]) : i \in DOMAIN n.parts}

-----------------------------------------------------------------------------
(* Aliases: AST_fix_types() and AST_resolve_type_aliases() *)

\* ast_fix_type() on the name, which is in the last layer.
FixedLayer(layer) ==
  IF layer.kind = "alias" /\ layer.name \in Structs THEN [layer EXCEPT !.kind = "struct"]
  ELSE IF layer.kind = "alias" /\ layer.name \in Enums THEN [layer EXCEPT !.kind = "enum"]
  ELSE layer

\* ast_resolve_type(): Unknown ends the process, and names that lead in a circle do too.
Unknown == <<Layer("alias", TRUE, "unknown")>>
Endless == <<Layer("alias", TRUE, "endless")>>
RECURSIVE ResolvedName(_, _)
ResolvedName(layer, seen) ==
  LET found == SelectInSeq(Aliases, LAMBDA a : a.name = layer.name)
      t == Aliases[found].type
      last == t[Len(t)]
  IN IF layer.kind # "alias" THEN <<layer>>
     ELSE IF layer.name \in seen THEN Endless
     ELSE IF found = 0 THEN Unknown
     ELSE LET rest == ResolvedName(last, seen \union {layer.name})
          IN IF rest \in {Unknown, Endless} THEN rest ELSE Front(t) \o rest
ResolvedType(t) ==
  IF t = NoType THEN t
  ELSE LET rest == ResolvedName(FixedLayer(t[Len(t)]), {})
       IN IF rest \in {Unknown, Endless} THEN rest ELSE Front(t) \o rest

\* Only some kinds of nodes are entered: no body of an if, and no initialiser.
RECURSIVE Resolved(_)
Resolved(n) ==
  CASE n.kind = "let" -> [n EXCEPT !.parts[1] = Resolved(@)]
    [] n.kind \in {"variable", "cast"} -> [n EXCEPT !.type = ResolvedType(@)]
    [] n.kind \in {"expression", "assign", "block"} -> [n EXCEPT !.parts = [i \in DOMAIN @ |-> Resolved(@[i])]]
    [] OTHER -> n
ResolveFunction(f) ==
  [f EXCEPT !.params = [i \in DOMAIN @ |-> Resolved(@[i])], !.body = Resolved(@)]

-----------------------------------------------------------------------------
(* The type checker: check_stmt(), check_expr() *)

AssignableAnyway(lhs, rhs) == Equal(TypeOf(rhs), TypeOf(lhs))   \* mutant: mutable or not
Assignable(lhs, rhs) ==
  Equal(TypeOf(rhs), TypeOf(lhs)) /\ TypeOf(lhs) # NoType /\ TypeOf(lhs)[1].mut
RECURSIVE Checks(_)
Checks(n) ==
  CASE n.kind = "let" -> Equal(TypeOf(n.parts[2]), TypeOf(n.parts[1]))
    [] n.kind = "assign" -> Assignable(n.parts[1], n.parts[2])
    [] n.kind \in {"if", "while"} -> \A b \in 2..Len(n.parts) : Checks(n.parts[b])
    [] n.kind \in {"block", "expression"} -> \A i \in DOMAIN n.parts : Checks(n.parts[i])
    [] OTHER -> TRUE

-----------------------------------------------------------------------------
(* Code *)

RECURSIVE Reads(_)   \* the names an expression looks up, in order
Reads(n) == IF n.kind = "variable" THEN <<n.name>>
            ELSE FlattenSeq([i \in DOMAIN n.parts |-> Reads(n.parts[i])])

\* The type of the value of an expression whose names are all found; "none" if LLVM has no such value.
RECURSIVE ValueType(_)
ValueType(n) ==
  CASE n.kind \in {"number", "bool", "cast"} -> LLVMType(TypeOf(n))
    [] n.kind = "variable" -> stored[Find(n.name)].holds
    [] n.kind = "ref" -> <<"ptr">> \o ValueType(n.parts[1])
    [] n.kind = "deref" -> LET t == ValueType(n.parts[1]) IN IF t[1] = "ptr" THEN Tail(t) ELSE <<"none">>

\* gen_codegen_cast() and the cast of an assignment.
Converts(from, to) ==
  \/ from = to
  \/ from[1] = "ptr" /\ to[1] = "ptr"
  \/ Len(from) = 1 /\ Len(to) = 1 /\ Valid(CastOp(from[1], to[1]), from[1], to[1])

\* What is wrong in the expression itself: a cast of a value that has none of that type.
RECURSIVE Sound(_)
Sound(n) ==
  /\ \A i \in DOMAIN n.parts : Sound(n.parts[i])
  /\ n.kind = "cast" => Converts(ValueType(n.parts[1]), LLVMType(n.type))

\* How the generation of an expression ends: reading through what is no pointer brings LLVM down.
Outcome(n) ==
  IF \E m \in NodesOf(n) : m.kind = "variable" /\ Find(m.name) = 0 THEN "undefined"
  ELSE IF \E m \in NodesOf(n) : m.kind = "cast" /\ HasAlias(m.type) THEN "unresolved"
  ELSE IF \E m \in NodesOf(n) : m.kind = "deref" /\ ValueType(m) = <<"none">> THEN "crash"
  ELSE "fine"

\* What an expression reads, in the function so far
LookUpIn(names) == LookUp(Range(names))

\* A new storage: its name, what it holds and what it is given.
Store(name, holds, given) ==
  /\ Declare(name)
  /\ stored' = Append(stored, [holds |-> holds, given |-> given])

-----------------------------------------------------------------------------
(* The compilation of a module, a global or a function after the other     *)

Init ==
  /\ source \in Programs
  /\ program = source
  /\ stage = "fill" /\ at = 1 /\ todo = <<>>
  /\ stored = <<>> /\ bad = FALSE
  /\ NamesInit

Storages == <<slots, table, stored>>
Generating == <<todo, Storages, uses, owner, bad>>
Ends(outcome) == stage' = outcome /\ UNCHANGED <<source, program, at, Generating>>

\* parse(), over the functions of the module
Fill ==
  /\ stage = "fill"
  /\ IF at > Len(program.functions) THEN stage' = "resolve" /\ at' = 0 /\ UNCHANGED program
     ELSE /\ program' = [program EXCEPT !.functions[at] = FillFunction(@)]
          /\ stage' = IF \E n \in NodesOf(FillFunction(program.functions[at]).body) : n.type = Crash
                      THEN "crash" ELSE "fill"
          /\ at' = at + 1
  /\ UNCHANGED <<source, Generating>>

\* ... then over its globals and its functions
ResolvedProgram ==
  IF at = 0 THEN [program EXCEPT !.globals = [i \in DOMAIN @ |-> Resolved(@[i])]]
  ELSE [program EXCEPT !.functions[at] = ResolveFunction(@)]
TypesIn(p) ==
  {n.type : n \in UNION ({NodesOf(f.body) : f \in Range(p.functions)} \union {NodesOf(g) : g \in Range(p.globals)})}
    \union {x.type : x \in UNION {Range(f.params) : f \in Range(p.functions)}}
Resolve ==
  /\ stage = "resolve"
  /\ IF at > Len(program.functions) THEN stage' = "check" /\ at' = 1 /\ UNCHANGED program
     ELSE /\ program' = ResolvedProgram
          /\ stage' = IF Unknown \in TypesIn(ResolvedProgram) THEN "unknown"
                      ELSE IF Endless \in TypesIn(ResolvedProgram) THEN "overflow" ELSE "resolve"
          /\ at' = at + 1
  /\ UNCHANGED <<source, Generating>>

\* CHECK_module() comes to every function of the module
Check ==
  /\ stage = "check"
  /\ IF at > Len(program.functions) THEN stage' = "globals" /\ at' = 1
     ELSE IF Checks(program.functions[at].body) THEN at' = at + 1 /\ UNCHANGED stage
     ELSE stage' = "unchecked" /\ UNCHANGED at
  /\ UNCHANGED <<source, program, Generating>>

\* gen_codegen_let_stmt() of a global; its initialiser is a constant.
DeclareGlobal ==
  /\ stage = "globals"
  /\ IF at > Len(program.globals)
     THEN stage' = "function" /\ NextFunction /\ UNCHANGED <<at, stored>>
     ELSE /\ LET g == program.globals[at]
             IN Store(g.name, LLVMType(g.parts[1].type), LLVMType(TypeOf(g.parts[2])))
          /\ at' = at + 1
          /\ UNCHANGED <<stage, uses, owner>>
  /\ UNCHANGED <<source, program, todo, bad>>

\* gen_codegen_function(): the functions of the structs come before those of the module.
Generated == program.methods \o program.functions

Enter ==
  /\ stage = "function"
  /\ IF owner > Len(Generated) THEN Ends("done")
     ELSE /\ todo' = Generated[owner].params /\ stage' = "parameters"
          /\ UNCHANGED <<source, program, at, Storages, uses, owner, bad>>

DeclareParameter ==
  /\ stage = "parameters"
  /\ IF todo = <<>>
     THEN todo' = Generated[owner].body.parts /\ stage' = "body" /\ UNCHANGED Storages
     ELSE /\ LET type == LLVMType(Head(todo).type) IN Store(Head(todo).name, type, type)
          /\ todo' = Tail(todo) /\ UNCHANGED stage
  /\ UNCHANGED <<source, program, at, uses, owner, bad>>

Statement(kind) == stage = "body" /\ todo # <<>> /\ Head(todo).kind = kind

Let ==
  /\ Statement("let")
  /\ LET var == Head(todo).parts[1]
         expr == Head(todo).parts[2]
         outcome == IF Outcome(expr) # "fine" THEN Outcome(expr)
                    ELSE IF HasAlias(var.type) THEN "unresolved"
                    ELSE IF Incomplete(var.type) THEN "crash" ELSE "fine"
         given == ValueType(expr)
         holds == LLVMType(var.type)
     IN IF outcome # "fine" THEN Ends(outcome)
        ELSE /\ Store(var.name, holds, given)
             /\ bad' = (bad \/ ~Sound(expr) \/ ~Converts(given, holds))
             /\ LookUpIn(Reads(expr))
             /\ todo' = Tail(todo)
             /\ UNCHANGED <<source, program, stage, at, owner>>

\* gen_codegen_assignment_expr(): to a variable, or through a pointer.
Assign ==
  /\ Statement("assign")
  /\ LET lhs == Head(todo).parts[1]
         rhs == Head(todo).parts[2]
         outcome == IF Outcome(lhs) # "fine" THEN Outcome(lhs) ELSE Outcome(rhs)
     IN IF outcome # "fine" THEN Ends(outcome)
        ELSE /\ bad' = (bad \/ ~Sound(rhs) \/ ~Converts(ValueType(rhs), ValueType(lhs)))
             /\ LookUpIn(Reads(lhs) \o Reads(rhs))
             /\ todo' = Tail(todo)
             /\ UNCHANGED <<source, program, stage, at, Storages, owner>>

\* An expression whose value nobody wants, or the condition of what was entered.
Evaluate(n, rest) ==
  IF Outcome(n) # "fine" THEN Ends(Outcome(n))
  ELSE /\ bad' = (bad \/ ~Sound(n))
       /\ LookUpIn(Reads(n))
       /\ todo' = rest
       /\ UNCHANGED <<source, program, stage, at, Storages, owner>>

EnterExpression ==
  /\ Statement("expression")
  /\ todo' = Head(todo).parts \o Tail(todo)
  /\ UNCHANGED <<source, program, stage, at, Storages, uses, owner, bad>>

EnterBody ==
  /\ \/ Statement("if") \/ Statement("while")
  /\ Evaluate(Head(todo).parts[1],
              FlattenSeq([i \in 1..(Len(Head(todo).parts) - 1) |-> Head(todo).parts[i + 1].parts]) \o Tail(todo))

EvaluateOnly ==
  /\ stage = "body" /\ todo # <<>>
  /\ Head(todo).kind \in {"number", "bool", "cast", "variable", "ref", "deref"}
  /\ Evaluate(Head(todo), Tail(todo))

\* LLVMVerifyFunction(): no function may use the storage of another one.
Leave ==
  /\ stage = "body" /\ todo = <<>>
  /\ IF bad \/ \E u \in uses : Foreign(u) THEN Ends("invalid")
     ELSE /\ stage' = "function" /\ NextFunction
          /\ UNCHANGED <<source, program, at, todo, stored, bad>>

Failures == {"crash", "unknown", "overflow", "unchecked", "undefined", "unresolved", "invalid"}

Over == stage \in Failures \union {"done"} /\ UNCHANGED vars

Next ==
  \/ Fill \/ Resolve \/ Check
  \/ DeclareGlobal \/ Enter \/ DeclareParameter
  \/ Let \/ Assign \/ EnterExpression \/ EnterBody \/ EvaluateOnly
  \/ Leave
  \/ Over

Spec == Init /\ [][Next]_vars

-----------------------------------------------------------------------------
(* Properties *)

\* The declarations and the uses of names in a function, as the text has them.
RECURSIVE Events(_)
Events(n) ==
  CASE n.kind = "variable" -> <<[does |-> "reads", name |-> n.name]>>
    [] n.kind = "let" -> Events(n.parts[2]) \o <<[does |-> "declares", name |-> n.name]>>
    [] OTHER -> FlattenSeq([i \in DOMAIN n.parts |-> Events(n.parts[i])])
EventsOf(f) == [i \in DOMAIN f.params |-> [does |-> "declares", name |-> f.params[i].name]] \o Events(f.body)
Once(f) ==
  LET events == EventsOf(f)
  IN {x \in {e.name : e \in Range(events)} :
        Len(SelectSeq(events, LAMBDA e : e = [does |-> "declares", name |-> x])) = 1}
DeclaredFirst(f) ==
  LET events == EventsOf(f)
  IN \A i \in DOMAIN events : \A k \in i..Len(events) :
       (events[i].does = "reads" /\ events[k].does = "declares") => events[i].name # events[k].name

Lets(f) == {n \in NodesOf(f.body) : n.kind = "let"}
VariablesOf(f) == {n \in NodesOf(f.body) : n.kind = "variable"}
Untyped(let) == let.parts[1].type[1].kind = "any"

\* The lets AST_fill_variable_types() comes to: those of the function, and of every if and while
\* that stands bare at the end of what it has come to.
RECURSIVE Reached(_)
Reached(block) ==
  {n \in Range(block.parts) : n.kind = "let"} \union
    UNION {UNION {Reached(n.parts[b]) : b \in 2..Len(n.parts)} : n \in {m \in Range(block.parts) : m.kind \in {"if", "while"}}}

\* Filling in gives the references to a name that is declared once, and before it is used, the
\* type of its declaration, and the declaration that states none the type its initialiser has in
\* the end.  A let in a body that is not entered (src/ast.c:1166-1171) has no references filled.
FilledRight ==
  (stage = "resolve" /\ at = 0) =>
    \A j \in DOMAIN source.functions :
      LET f == source.functions[j]
          g == program.functions[j]
      IN DeclaredFirst(f) =>
           /\ \A p \in Range(f.params) : \A n \in VariablesOf(g) :
                (p.name \in Once(f) /\ n.name = p.name) => n.type = p.type
           /\ \A let \in Reached(g.body) :
                let.name \in Once(f) =>
                  /\ \A n \in VariablesOf(g) : n.name = let.name => n.type = let.parts[1].type
                  /\ \A written \in Lets(f) :
                       (written.name = let.name /\ Untyped(written) /\ Range(Reads(written.parts[2])) \subseteq Once(f)) =>
                          \/ LLVMType(let.parts[1].type) = LLVMType(TypeOf(let.parts[2]))
                          \/ Incomplete(let.parts[1].type)

\* Once the type checker is through, what is assigned to was declared as mutable in the same
\* function, or has its type from an initialiser (check_expr(), src/type_checker.c:215-241); a
\* global is never assigned to, as references to it have no type.
AssignedDeclaredMutable ==
  (stage = "globals" /\ at = 1) =>
    \A f \in Range(source.functions) : \A n \in NodesOf(f.body) :
      (n.kind = "assign" /\ n.parts[1].kind = "variable") =>
        \/ \E p \in Range(f.params) : p.name = n.parts[1].name /\ p.type[1].mut
        \/ \E let \in Lets(f) : let.name = n.parts[1].name /\ (let.parts[1].type[1].mut \/ Untyped(let))

\* What a function of the module stores for a let that states no type has the type of the
\* initialiser, with nothing cut off (gen_codegen_let_stmt()), where the let is reached, or
\* anything before it in the function has a declaration that goes over it.
StoredWhole ==
  stage = "function" =>
    \A s \in DOMAIN slots :
      LET j == slots[s].owner - Len(source.methods)
          f == source.functions[j]
      IN (j > 0 /\ slots[s].name \in Once(f) /\ DeclaredFirst(f)) =>
           \A let \in Reached(f.body) :
             (Untyped(let) /\ let.name = slots[s].name) => stored[s].holds = stored[s].given

\* How often the lets of a flat function are gone over before references to x have a type: once
\* for every parameter and every let before it.
Flat(f) == \A n \in Range(f.body.parts) : n.kind \notin {"if", "while", "expression"}
FlatLets(f) == SelectSeq(f.body.parts, LAMBDA n : n.kind = "let")
Passes(f, x) ==
  LET p == SelectInSeq(f.params, LAMBDA q : q.name = x)
      l == SelectInSeq(FlatLets(f), LAMBDA let : let.name = x)
  IN IF p # 0 THEN p - 1 ELSE Len(f.params) + (IF l # 0 THEN l - 1 ELSE Len(FlatLets(f)) + 1)

\* The initialiser is looked at too early: the first look takes away that the type is to be
\* filled in, the next one looks into nothing.  Or what it reads through is no pointer, as an
\* alias of one is not before it is resolved.
TooEarly(f, let) ==
  LET init == let.parts[2]
      x == Head(Reads(init))
  IN /\ Untyped(let) /\ Reads(init) # <<>>
     /\ \/ init.kind = "variable" /\ (x \in Once(f) => Passes(f, x) >= (IF let.parts[1].type[1].mut THEN 1 ELSE 2))
        \/ init.kind \in {"deref", "ref"} /\ Passes(f, x) >= 1
        \/ init.kind = "deref" /\ \A p \in Range(f.params) : p.name = x => p.type[1].kind # "ptr"

\* The compiler looks into a type that is not there (src/ast.c:856-877, src/type.c:668,
\* src/gen.c:1965) for no flat function but one with such an initialiser, and a module of flat
\* functions that comes to its end has none.
CrashForeseen ==
  (stage \in {"crash", "done"} /\ \A f \in Range(source.functions) : Flat(f) /\ DeclaredFirst(f) /\ \A let \in Lets(f) : let.name \in Once(f)) =>
    /\ stage = "crash" => \E f \in Range(source.functions) : \E let \in Lets(f) : TooEarly(f, let)
    /\ stage = "done" => \A f \in Range(source.functions) : \A let \in Lets(f) : ~TooEarly(f, let)
================================================================================
