----------------------------- MODULE FunctionGen ------------------------------
(***************************************************************************)
(* The control flow that luka generates for a function (src/gen.c,         *)
(* gen_codegen_function() and what it calls): basic blocks, branches, the  *)
(* blocks that break leaves for, the deferred statements, and the verdict  *)
(* of the LLVM verifier.  The recursion over statements is a stack.        *)
(***************************************************************************)
EXTENDS Syntax

CONSTANTS
  Functions,  \* the functions to generate code for
  MaxStack,   \* nested bodies and deferrals that the C stack has room for
  MaxDefers   \* deferred statements that memory has room for

ASSUME FunctionGenAssumptions ==
  /\ \A f \in Functions : IsFunction(f)
  /\ MaxStack \in Nat \ {0} /\ MaxDefers \in Nat

VARIABLES
  fn,            \* the function
  code,          \* the instructions, in the order they are built
  blocks,        \* how many basic blocks there are; the entry is block 1
  insert,        \* where the builder stands
  loop_blocks,   \* the blocks after the loops, innermost first
  defer_blocks,  \* the deferred bodies, last first
  stack,         \* the calls of gen_codegen_stmts() and its callers
  outcome

built == <<code, blocks, insert>>
vars == <<fn, code, blocks, insert, loop_blocks, defer_blocks, stack, outcome>>

-----------------------------------------------------------------------------
(* Instructions *)

\* stmt: the statement an instruction is for, <<>> if for none; to: the blocks it
\* may branch to; args: the instructions whose values it takes, 0 for a
\* constant, and from: the blocks that they come from.
Instr == [op : {"call", "br", "condbr", "ret", "phi"}, block : Nat,
          stmt : Seq(Nat), to : Seq(Nat), args : Seq(Nat), from : Seq(Nat)]

Build(op, block, stmt, to) ==
  [op |-> op, block |-> block, stmt |-> stmt, to |-> to, args |-> <<>>, from |-> <<>>]

Br(block, to) == Build("br", block, <<>>, <<to>>)
CondBr(block, stmt, yes, no) == Build("condbr", block, stmt, <<yes, no>>)
Ret(value) == [Build("ret", insert, <<>>, <<>>) EXCEPT !.args = <<value>>]

-----------------------------------------------------------------------------
(* Calls *)

\* at: what gen_codegen_stmts() generates the body for; i: its statement;
\* value: the instruction of its last value, 0 for NULL; returns:
\* has_return_stmt; after: the block after an if or a loop, orelse: that of
\* the else branch or of the body of the loop; thenValue, thenBlock: what the
\* first branch has left.  "defers" is gen_codegen_defer_blocks(), i its index.
Frame == [at : {"function", "then", "else", "loop", "deferred", "defers"},
          body : Nat, i : Nat, value : Nat, returns : BOOLEAN,
          after : Nat, orelse : Nat, thenValue : Nat, thenBlock : Nat]

Call(at, body, after, orelse) ==
  [at |-> at, body |-> body, i |-> 1, value |-> 0, returns |-> FALSE,
   after |-> after, orelse |-> orelse, thenValue |-> 0, thenBlock |-> 0]

Top == Last(stack)
Caller == stack[Len(stack) - 1]
Running == outcome = "running"

Body == fn[Top.body]
This == Body[Top.i]
Name == <<Top.body, Top.i>>
InBody == Running /\ Top.at # "defers" /\ Top.i <= Len(Body)
At(op) == InBody /\ This.op = op
BodyDone(at) == Running /\ Top.at = at /\ Top.i > Len(Body)

\* The frame f after its statement, which has the value v
After(f, v) == [f EXCEPT !.i = @ + 1, !.value = v]
Advance(v) == stack' = ReplaceAt(stack, Len(stack), After(Top, v))

\* The call returns, and its caller goes on as the frame f.
Return(f) == stack' = ReplaceAt(Front(stack), Len(stack) - 1, f)

\* An if or a loop ends with the value v.
LeaveWith(v) ==
  Return(After(Caller, IF Promoted(fn, Caller.body, Caller.i) THEN v ELSE 0))

Push(frame) ==
  IF Len(stack) < MaxStack
  THEN stack' = Append(stack, frame) /\ UNCHANGED outcome
  ELSE outcome' = "overflow" /\ UNCHANGED stack

Init ==
  /\ fn \in Functions
  /\ code = <<>> /\ blocks = 1 /\ insert = 1
  /\ loop_blocks = <<>> /\ defer_blocks = <<>>
  /\ stack = <<Call("function", 1, 0, 0)>>
  /\ outcome = "running"

-----------------------------------------------------------------------------
(* Statements without a body *)

CallStmt ==
  /\ InBody /\ This.op \in {"call"} \union Valued
  /\ code' = Append(code, Build("call", insert, Name, <<>>))
  /\ Advance(IF This.op \in Valued THEN Len(code) + 1 ELSE 0)
  /\ UNCHANGED <<fn, blocks, insert, loop_blocks, defer_blocks, outcome>>

BreakStmtStuck ==                               \* mutant: iterator not advanced
  /\ At("break")
  /\ IF loop_blocks = <<>>
     THEN UNCHANGED <<built, stack>>
     ELSE /\ code' = Append(code, Br(insert, Head(loop_blocks)))
          /\ blocks' = blocks + 1
          /\ insert' = blocks + 1
          /\ Advance(0)
  /\ UNCHANGED <<fn, loop_blocks, defer_blocks, outcome>>

BreakStmtInPlace ==                             \* mutant: no "unused_block"
  /\ At("break")
  /\ code' = IF loop_blocks = <<>> THEN code ELSE Append(code, Br(insert, Head(loop_blocks)))
  /\ Advance(0)
  /\ UNCHANGED <<fn, blocks, insert, loop_blocks, defer_blocks, outcome>>

\* Outside of a loop there is only a warning; in one, what follows goes to an
\* "unused_block".
BreakStmt ==
  /\ At("break")
  /\ IF loop_blocks = <<>>
     THEN UNCHANGED built
     ELSE /\ code' = Append(code, Br(insert, Head(loop_blocks)))
          /\ blocks' = blocks + 1
          /\ insert' = blocks + 1
  /\ Advance(0)
  /\ UNCHANGED <<fn, loop_blocks, defer_blocks, outcome>>

DeferStmtLast ==                                \* mutant: vector_push_back()
  /\ At("defer")
  /\ defer_blocks' = Append(defer_blocks, This.body)
  /\ Advance(0)
  /\ UNCHANGED <<fn, code, blocks, insert, loop_blocks, outcome>>

DeferStmt ==
  /\ At("defer")
  /\ IF Len(defer_blocks) < MaxDefers
     THEN /\ defer_blocks' = <<This.body>> \o defer_blocks
          /\ Advance(0) /\ UNCHANGED outcome
     ELSE outcome' = "overflow" /\ UNCHANGED <<defer_blocks, stack>>
  /\ UNCHANGED <<fn, code, blocks, insert, loop_blocks>>

\* A return, and the end of the function, generate the deferred bodies first.
ReturnStmt ==
  /\ At("return")
  /\ Push(Call("defers", 0, 0, 0))
  /\ UNCHANGED <<fn, code, blocks, insert, loop_blocks, defer_blocks>>

-----------------------------------------------------------------------------
(* if *)

IfExpr ==
  /\ InBody /\ This.op \in {"if", "ifelse"}
  /\ LET cond == blocks + 1
         then == blocks + 2
         merge == IF This.op = "if" THEN blocks + 3 ELSE blocks + 4
     IN /\ code' = code \o <<Br(insert, cond), CondBr(cond, Name, then, blocks + 3)>>
        /\ insert' = then
        /\ blocks' = merge
        /\ Push(Call("then", This.body, merge, IF This.op = "if" THEN 0 ELSE blocks + 3))
  /\ UNCHANGED <<fn, loop_blocks, defer_blocks>>

BranchEnd == IF Top.returns THEN code ELSE Append(code, Br(insert, Top.after))

\* Both branches have a value, or none has: the code goes on in the merge block.
Merge(thenValue, thenBlock, elseValue) ==
  /\ IF thenValue = 0 /\ elseValue = 0
     THEN /\ code' = BranchEnd
          /\ LeaveWith(0) /\ UNCHANGED outcome
     ELSE IF thenValue = 0 \/ elseValue = 0
     THEN code' = BranchEnd /\ outcome' = "exit" /\ UNCHANGED stack
     ELSE /\ code' = Append(BranchEnd,
                [Build("phi", Top.after, <<>>, <<>>) EXCEPT
                   !.args = <<thenValue, elseValue>>, !.from = <<thenBlock, insert>>])
          /\ LeaveWith(Len(code')) /\ UNCHANGED outcome
  /\ insert' = Top.after
  /\ UNCHANGED <<fn, blocks, loop_blocks, defer_blocks>>

ThenDone ==
  /\ BodyDone("then") /\ Top.orelse # 0
  /\ code' = BranchEnd
  /\ insert' = Top.orelse
  /\ stack' = ReplaceAt(stack, Len(stack),
       [Call("else", fn[Caller.body][Caller.i].orelse, Top.after, 0) EXCEPT
          !.thenValue = Top.value, !.thenBlock = insert])
  /\ UNCHANGED <<fn, blocks, loop_blocks, defer_blocks, outcome>>

IfDone == BodyDone("then") /\ Top.orelse = 0 /\ Merge(Top.value, insert, 0)

IfElseDone == BodyDone("else") /\ Merge(Top.thenValue, Top.thenBlock, Top.value)

-----------------------------------------------------------------------------
(* while *)

WhileExprLast ==                                \* mutant: vector_push_back()
  /\ At("while")
  /\ LET cond == blocks + 1
         body == blocks + 2
         end == blocks + 3
     IN /\ code' = code \o <<Br(insert, cond), CondBr(cond, Name, body, end)>>
        /\ insert' = body
        /\ blocks' = end
        /\ loop_blocks' = Append(loop_blocks, end)
        /\ Push(Call("loop", This.body, end, body))
  /\ UNCHANGED <<fn, defer_blocks>>

WhileExpr ==
  /\ At("while")
  /\ LET cond == blocks + 1
         body == blocks + 2
         end == blocks + 3
     IN /\ code' = code \o <<Br(insert, cond), CondBr(cond, Name, body, end)>>
        /\ insert' = body
        /\ blocks' = end
        /\ loop_blocks' = <<end>> \o loop_blocks
        /\ Push(Call("loop", This.body, end, body))
  /\ UNCHANGED <<fn, defer_blocks>>

\* The condition is generated a second time after the body.
WhileDone ==
  /\ BodyDone("loop")
  /\ code' = Append(code, CondBr(insert, <<Caller.body, Caller.i>>, Top.orelse, Top.after))
  /\ insert' = Top.after
  /\ loop_blocks' = Tail(loop_blocks)
  /\ LeaveWith(Top.value)
  /\ UNCHANGED <<fn, blocks, defer_blocks, outcome>>

-----------------------------------------------------------------------------
(* gen_codegen_defer_blocks() *)

InDefers == Running /\ Top.at = "defers"

\* The size of the vector is read again for each body.
DeferredBody ==
  /\ InDefers /\ Top.i <= Len(defer_blocks)
  /\ Push(Call("deferred", defer_blocks[Top.i], 0, 0))
  /\ UNCHANGED <<fn, code, blocks, insert, loop_blocks, defer_blocks>>

DeferredDone ==
  /\ BodyDone("deferred")
  /\ Return(After(Caller, 0))
  /\ UNCHANGED <<fn, code, blocks, insert, loop_blocks, defer_blocks, outcome>>

DefersDone == InDefers /\ Top.i > Len(defer_blocks)

\* gen_codegen_return_stmt(): the expression comes after the deferred bodies.
\* gen_codegen_stmts() leaves out what follows.
ReturnBuilt ==
  /\ DefersDone /\ Caller.i <= Len(fn[Caller.body])
  /\ code' = Append(code, Build("ret", insert, <<Caller.body, Caller.i>>, <<>>))
  /\ Return([Caller EXCEPT !.i = Len(fn[Caller.body]) + 1, !.value = 0,
                           !.returns = Caller.at \notin {"loop", "deferred"}])
  /\ UNCHANGED <<fn, blocks, insert, loop_blocks, defer_blocks, outcome>>

-----------------------------------------------------------------------------
(* LLVMVerifyFunction() *)

InstrsOf(c, b) == {i \in 1 .. Len(c) : c[i].block = b}
Terminator(c, i) == c[i].op \in {"br", "condbr", "ret"}

\* Every block ends with its one terminator.
Terminated(c, n) ==
  \A b \in 1 .. n : \E i \in InstrsOf(c, b) :
    /\ Terminator(c, i)
    /\ \A j \in InstrsOf(c, b) \ {i} : j < i /\ ~Terminator(c, j)

Successors(c, b) == UNION {ToSet(c[i].to) : i \in InstrsOf(c, b)}

\* The blocks that can be reached from the entry but not only through d
ReachedWithout(c, n, d) ==
  LET reach[k \in 0 .. n] ==
        IF k = 0 THEN {1} \ {d}
        ELSE reach[k - 1] \union ((UNION {Successors(c, b) : b \in reach[k - 1]}) \ {d})
  IN reach[n]

Dominates(c, n, d, b) == b \notin ReachedWithout(c, n, d)

\* A value is used only where it was computed on every path.
Dominated(c, n) ==
  \A i \in 1 .. Len(c) : \A k \in 1 .. Len(c[i].args) :
    c[i].args[k] # 0 =>
      Dominates(c, n, c[c[i].args[k]].block,
                IF c[i].op = "phi" THEN c[i].from[k] ELSE c[i].block)

Verifies(c, n) == Terminated(c, n) /\ Dominated(c, n)

-----------------------------------------------------------------------------
(* gen_codegen_function() *)

BodyEnd ==
  /\ BodyDone("function")
  /\ Push(Call("defers", 0, 0, 0))
  /\ UNCHANGED <<fn, code, blocks, insert, loop_blocks, defer_blocks>>

\* What the function returns, 0 for the zero of its type: there is no value, or the
\* last statement is not listed as an expression.
Returned ==
  IF Caller.value # 0 /\ Last(fn[Caller.body]).op = "literal" THEN 0 ELSE Caller.value

\* Nothing is returned after a return at the top level, although deferred
\* bodies were generated once more.
FunctionEnd ==
  /\ DefersDone /\ Caller.i > Len(fn[Caller.body])
  /\ code' = IF Caller.returns THEN code ELSE Append(code, Ret(Returned))
  /\ outcome' = IF Verifies(code', blocks) THEN "accepted" ELSE "rejected"
  /\ UNCHANGED <<fn, blocks, insert, loop_blocks, defer_blocks, stack>>

Generate ==
  \/ CallStmt \/ BreakStmt \/ DeferStmt \/ ReturnStmt
  \/ IfExpr \/ ThenDone \/ IfDone \/ IfElseDone
  \/ WhileExpr \/ WhileDone
  \/ DeferredBody \/ DeferredDone \/ ReturnBuilt
  \/ BodyEnd \/ FunctionEnd

Generated == ~Running /\ UNCHANGED vars

Next == Generate \/ Generated

\* One thread that waits for nothing
Spec == Init /\ [][Next]_vars /\ WF_vars(Generate)

-----------------------------------------------------------------------------
(* Properties *)

\* Every variable has the type its C counterpart has.
TypeOK ==
  /\ IsFunction(fn)
  /\ code \in Seq(Instr)
  /\ blocks \in Nat \ {0} /\ insert \in 1 .. blocks
  /\ loop_blocks \in Seq(1 .. blocks)
  /\ defer_blocks \in Seq(1 .. Len(fn))
  /\ stack \in Seq(Frame) /\ stack # <<>>
  /\ outcome \in {"running", "accepted", "rejected", "exit", "overflow"}

\* A break leaves the innermost of the loops whose bodies are being generated, those
\* around the return that a deferred body stands in for included, and is
\* ignored only where there is none (gen.c:1769-1802, 2294-2317).
InnermostLoop ==
  Running =>
    /\ (\A j \in DOMAIN stack : stack[j].at # "loop") => loop_blocks = <<>>
    /\ \A j \in DOMAIN stack :
         (stack[j].at = "loop" /\ \A k \in j + 1 .. Len(stack) : stack[k].at # "loop")
           => loop_blocks # <<>> /\ Head(loop_blocks) = stack[j].after

\* The generation of a function leaves no block behind that a break of the next
\* function would branch to: loop_blocks outlives it (gen.c:22, 1420-1580).
LoopsLeft == outcome \in {"accepted", "rejected"} => loop_blocks = <<>>

\* The last statement of the body b has a value that the body hands on.
Yields(f) ==
  LET yields[b \in 1 .. Len(f)] ==
        /\ f[b] # <<>> /\ Returns(f, b) = {}
        /\ LET s == Last(f[b]) IN
             \/ s.op \in Valued
             \/ /\ Promoted(f, b, Len(f[b]))
                /\ \/ s.op = "while" /\ yields[s.body]
                   \/ s.op = "ifelse" /\ yields[s.body] /\ yields[s.orelse]
  IN yields

GeneratesCode(f, b) == \E i \in 1 .. Len(f[b]) : f[b][i].op \notin {"break", "defer"}

LiveStmts(op) == {t \in LiveIn(fn, 1) : OpOf(fn, t) = op}

\* A return in the body of a loop, but for those that an if has around them
ReturnsInLoop == \E t \in LiveStmts("return") : IsLoop(fn, t[1])

\* A return at the top level with something deferred before it
ReturnsAndDefers ==
  /\ \E t \in LiveStmts("return") : t[1] = 1
  /\ \E t \in LiveStmts("defer") : GeneratesCode(fn, BodyOf(fn, t))

\* A loop whose value is asked for
UsesLoopValue ==
  \E t \in LiveStmts("while") : Promoted(fn, t[1], t[2]) /\ Yields(fn)[BodyOf(fn, t)]

\* The verifier rejects a function for one of three reasons, always for the first
\* two; code that cannot be reached may use any value (gen.c:1383-1408,
\* 1562-1572, 1792-1807).
RejectedFor ==
  /\ outcome = "rejected" => ReturnsInLoop \/ ReturnsAndDefers \/ UsesLoopValue
  /\ outcome = "accepted" => ~(ReturnsInLoop \/ ReturnsAndDefers)

\* The generation of a function ends: with a verdict, or because only one
\* branch of an if has a value (gen.c:1706-1715).
Ends == <>(outcome \in {"accepted", "rejected", "exit"})

=============================================================================
