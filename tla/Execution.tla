------------------------------ MODULE Execution -------------------------------
(***************************************************************************)
(* What luka generates for a function does what the source says: once the  *)
(* verifier has accepted the code, it runs, and the source runs beside it, *)
(* statement by statement.  The conditions may turn out either way.        *)
(***************************************************************************)
EXTENDS FunctionGen

VARIABLES
  pc,      \* the instruction that runs next, 0 before and after
  prev,    \* the block that was left last
  regs,    \* instruction -> the statement whose value it has
  due,     \* what the code did and the source has still to do
  source,  \* the bodies of the source that run, innermost last
  result,  \* the statement whose value the source computed last
  answer   \* what the source returns

runVars == <<pc, prev, regs, due, source, result, answer>>
allVars == <<vars, runVars>>

None == <<>>
Nothing == [op |-> "nothing", stmt |-> None, holds |-> FALSE]
Zero == <<0>>  \* the constant that is returned for want of a value

\* The source at the first statement of the body b
RunOf(b) == [body |-> b, i |-> 1]

InitRun ==
  /\ Init
  /\ pc = 0 /\ prev = 0 /\ regs = <<>>
  /\ due = Nothing
  /\ source = <<>> /\ result = None /\ answer = None

-----------------------------------------------------------------------------
(* The code *)

FirstOf(b) == Min(InstrsOf(code, b))
NextInstr == Min({i \in InstrsOf(code, code[pc].block) : i > pc})

Executes(op) == pc # 0 /\ due = Nothing /\ code[pc].op = op
Does(op, stmt, holds) == due' = [op |-> op, stmt |-> stmt, holds |-> holds]
Jump(b) == pc' = FirstOf(b) /\ prev' = code[pc].block

\* What a deferred break does depends on where its body ends up: such functions are not run.
DeferredBreak == \E b \in InDeferred(fn) : \E i \in DOMAIN fn[b] : fn[b][i].op = "break"
Runs == outcome = "accepted" /\ ~DeferredBreak

Enter ==
  /\ Runs /\ pc = 0 /\ regs = <<>>
  /\ pc' = FirstOf(1)
  /\ regs' = [i \in 1 .. Len(code) |-> None]
  /\ source' = <<RunOf(1)>>
  /\ UNCHANGED <<prev, due, result, answer>>

ExecCall ==
  /\ Executes("call")
  /\ Does("call", code[pc].stmt, FALSE)
  /\ regs' = [regs EXCEPT ![pc] = code[pc].stmt]
  /\ pc' = NextInstr
  /\ UNCHANGED <<prev, source, result, answer>>

ExecBr ==
  /\ Executes("br")
  /\ Jump(code[pc].to[1])
  /\ UNCHANGED <<regs, due, source, result, answer>>

ExecCondBr ==
  /\ Executes("condbr")
  /\ \E holds \in BOOLEAN :
       /\ Does("condition", code[pc].stmt, holds)
       /\ Jump(code[pc].to[IF holds THEN 1 ELSE 2])
  /\ UNCHANGED <<regs, source, result, answer>>

ExecPhi ==
  /\ Executes("phi")
  /\ \E k \in DOMAIN code[pc].from :
       code[pc].from[k] = prev /\ regs' = [regs EXCEPT ![pc] = regs[code[pc].args[k]]]
  /\ pc' = NextInstr
  /\ UNCHANGED <<prev, due, source, result, answer>>

ExecRet ==
  /\ Executes("ret")
  /\ Does("return", IF code[pc].args = <<>> THEN code[pc].stmt
                    ELSE IF code[pc].args[1] = 0 THEN Zero
                    ELSE regs[code[pc].args[1]], FALSE)
  /\ pc' = 0
  /\ UNCHANGED <<prev, regs, source, result, answer>>

Execute == Enter \/ ExecCall \/ ExecBr \/ ExecCondBr \/ ExecPhi \/ ExecRet

-----------------------------------------------------------------------------
(* The source *)

\* The deferred bodies of a part of the text: the last one is to run first.
Deferred(text) ==
  LET names == Defers(fn, text) IN [k \in 1 .. Len(names) |-> RunOf(BodyOf(fn, names[k]))]

TextBefore(name) ==
  LET k == CHOOSE j \in 1 .. Len(Text(fn)) : Text(fn)[j] = name IN SubSeq(Text(fn), 1, k - 1)

Run == Last(source)
RunBody == fn[Run.body]
Here == <<Run.body, Run.i>>
Follow == due # Nothing /\ source # <<>>
Reads(op) == Follow /\ Run.i <= Len(RunBody) /\ RunBody[Run.i].op = op
Outer == Front(source)
Past(s) == ReplaceAt(s, Len(s), [Last(s) EXCEPT !.i = @ + 1])

\* What the code did is what the source does next.
Agrees(op, stmt) == due.op = op /\ due.stmt = stmt

SourceCall ==
  /\ \E op \in {"call"} \union Valued : Reads(op)
  /\ Agrees("call", Here)
  /\ result' = IF Reads("call") THEN None ELSE Here
  /\ source' = Past(source)
  /\ due' = Nothing /\ UNCHANGED <<pc, prev, regs, answer>>

SourceIf ==
  /\ Reads("if") \/ Reads("ifelse")
  /\ Agrees("condition", Here)
  /\ LET s == RunBody[Run.i] IN
       source' = IF due.holds THEN Append(Past(source), RunOf(s.body))
                 ELSE IF s.op = "ifelse" THEN Append(Past(source), RunOf(s.orelse))
                 ELSE Past(source)
  /\ result' = None
  /\ due' = Nothing /\ UNCHANGED <<pc, prev, regs, answer>>

\* The place stays at the loop until its condition fails.
SourceWhile ==
  /\ Reads("while")
  /\ Agrees("condition", Here)
  /\ source' = IF due.holds THEN Append(source, RunOf(RunBody[Run.i].body))
               ELSE Past(source)
  /\ result' = None
  /\ due' = Nothing /\ UNCHANGED <<pc, prev, regs, answer>>

\* The bodies that a break leaves: up to that of the innermost loop
InLoop(k) == k > 1 /\ IsLoop(fn, source[k].body)
SourceBreak ==
  /\ Reads("break")
  /\ LET loops == {k \in 1 .. Len(source) : InLoop(k)} IN
       source' = IF loops = {} THEN Past(source) ELSE Past(SubSeq(source, 1, Max(loops) - 1))
  /\ result' = None
  /\ UNCHANGED <<pc, prev, regs, due, answer>>

SourceDefer ==
  /\ Reads("defer")
  /\ source' = Past(source)
  /\ result' = None
  /\ UNCHANGED <<pc, prev, regs, due, answer>>

SourceReturn ==
  /\ Reads("return")
  /\ answer' = Here
  /\ source' = Deferred(TextBefore(Here))
  /\ UNCHANGED <<pc, prev, regs, due, result>>

\* A body ends; the function has then to run what is deferred.
SourceEnd ==
  /\ Follow /\ Run.i > Len(RunBody)
  /\ IF Len(source) = 1 /\ answer = None
     THEN /\ source' = Deferred(Text(fn))
          /\ answer' = IF result = None THEN Zero ELSE result
     ELSE source' = Outer /\ UNCHANGED answer
  /\ UNCHANGED <<pc, prev, regs, due, result>>

\* luka gives up the value of a literal, or of an access to an array, at the end of
\* a function, and returns zero.
Answer == IF answer[1] = 1 /\ Last(fn[1]).op = "literal" /\ answer[2] = Len(fn[1])
          THEN Zero ELSE answer

SourceAnswer ==
  /\ source = <<>> /\ answer # None
  /\ Agrees("return", Answer)
  /\ due' = Nothing
  /\ answer' = None
  /\ UNCHANGED <<pc, prev, regs, source, result>>

Source ==
  \/ SourceCall \/ SourceIf \/ SourceWhile \/ SourceBreak \/ SourceDefer
  \/ SourceReturn \/ SourceEnd \/ SourceAnswer

-----------------------------------------------------------------------------

Step ==
  \/ Generate /\ UNCHANGED runVars
  \/ (Execute \/ Source) /\ UNCHANGED vars

Over ==
  /\ ~Running /\ (Runs => pc = 0 /\ regs # <<>> /\ due = Nothing)
  /\ UNCHANGED allVars

\* One thread that waits for nothing generates the code.
RunSpec == InitRun /\ [][Step \/ Over]_allVars /\ WF_vars(Generate)

-----------------------------------------------------------------------------
(* Properties *)

\* What a function does once it is compiled - the calls, the conditions it
\* evaluates, the deferred statements and what it returns - is what its source
\* does, whatever the conditions turn out to be (gen.c:1383-1818).  Only a literal or
\* an access to an array at the very end of a function is not returned, but zero
\* (Answer; gen.c:1514-1516, ast.c:1230-1243).
FollowsSource ==
  /\ \A op \in {"call"} \union Valued : Reads(op) => Agrees("call", Here)
  /\ \A op \in {"if", "ifelse", "while"} : Reads(op) => Agrees("condition", Here)
  /\ due # Nothing /\ source = <<>> => answer # None /\ Agrees("return", Answer)

=============================================================================
