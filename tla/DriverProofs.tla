----------------------------- MODULE DriverProofs -----------------------------
(***************************************************************************)
(* Theorems about the driver, for every set of programs, stack depth and   *)
(* set of stages that may fail: the types and the pointers that are        *)
(* followed, then what each action does, and which structs the memcpy()s   *)
(* of backend() overwrite.                                                 *)
(***************************************************************************)
EXTENDS Driver, SequenceTheorems, TLAPS

-----------------------------------------------------------------------------
(* Stacks: sequences whose last element is the innermost frame *)

\* The last element of a stack that is not empty.
LEMMA LastOf ==
  ASSUME NEW S, NEW s \in Seq(S), s # <<>>
  PROVE  /\ Len(s) \in Nat \ {0}
         /\ Last(s) = s[Len(s)]
         /\ Last(s) \in S
<1>1. Len(s) \in Nat \ {0}
  BY EmptySeq
<1>2. QED
  BY <1>1, ElementOfSeq DEF Last

\* Replacing the last element leaves the others alone.
LEMMA SetLastOf ==
  ASSUME NEW S, NEW s \in Seq(S), s # <<>>, NEW e \in S
  PROVE  /\ ReplaceAt(s, Len(s), e) \in Seq(S)
         /\ Len(ReplaceAt(s, Len(s), e)) = Len(s)
         /\ ReplaceAt(s, Len(s), e) # <<>>
         /\ Last(ReplaceAt(s, Len(s), e)) = e
         /\ ReplaceAt(s, Len(s), e)[Len(s)] = e
         /\ \A j \in 1 .. Len(s) : j # Len(s) => ReplaceAt(s, Len(s), e)[j] = s[j]
<1> DEFINE t == [s EXCEPT ![Len(s)] = e]
<1>1. Len(s) \in Nat \ {0} /\ Len(s) \in 1 .. Len(s)
  BY EmptySeq
<1>2. /\ t \in Seq(S)
      /\ Len(t) = Len(s)
      /\ \A j \in 1 .. Len(s) : t[j] = IF j = Len(s) THEN e ELSE s[j]
  BY <1>1, ExceptSeq
<1>3. t # <<>>
  BY <1>1, <1>2
<1>4. ReplaceAt(s, Len(s), e) = t
  BY DEF ReplaceAt
<1> HIDE DEF t
<1>5. QED
  BY <1>1, <1>2, <1>3, <1>4 DEF Last

\* Dropping the last element: what is left, and what is then last.
LEMMA FrontOf ==
  ASSUME NEW S, NEW s \in Seq(S), s # <<>>
  PROVE  /\ Front(s) \in Seq(S)
         /\ Len(Front(s)) = Len(s) - 1
         /\ \A j \in 1 .. Len(s) - 1 : Front(s)[j] = s[j]
         /\ Len(s) = 1 => Front(s) = <<>>
         /\ Len(s) > 1 => Front(s) # <<>> /\ Last(Front(s)) = s[Len(s) - 1]
<1>1. Len(s) \in Nat \ {0}
  BY EmptySeq
<1>2. Front(s) = SubSeq(s, 1, Len(s) - 1)
  BY DEF Front
<1>3. /\ Front(s) \in Seq(S)
      /\ Len(Front(s)) = Len(s) - 1
      /\ \A j \in 1 .. Len(s) - 1 : Front(s)[j] = s[j]
  <2>1. \A i \in 1 .. Len(s) - 1 : s[i] \in S
    BY <1>1, ElementOfSeq
  <2>2. 1 \in Int /\ Len(s) - 1 \in Int
    BY <1>1
  <2>3. /\ SubSeq(s, 1, Len(s) - 1) \in Seq(S)
        /\ Len(SubSeq(s, 1, Len(s) - 1)) = IF 1 <= Len(s) - 1 THEN Len(s) - 1 - 1 + 1 ELSE 0
        /\ \A i \in 1 .. Len(s) - 1 - 1 + 1 : SubSeq(s, 1, Len(s) - 1)[i] = s[1 + i - 1]
    BY <2>1, <2>2, SubSeqProperties
  <2>4. Len(SubSeq(s, 1, Len(s) - 1)) = Len(s) - 1
    <3>1. ASSUME NEW l, NEW n \in Nat \ {0}, l = IF 1 <= n - 1 THEN n - 1 - 1 + 1 ELSE 0
          PROVE  l = n - 1
      BY <3>1
    <3>2. QED
      BY <1>1, <2>3, <3>1, Zenon
  <2>5. \A j \in 1 .. Len(s) - 1 : SubSeq(s, 1, Len(s) - 1)[j] = s[j]
    <3>1. TAKE j \in 1 .. Len(s) - 1
    <3>2. j \in 1 .. Len(s) - 1 - 1 + 1 /\ 1 + j - 1 = j
      BY <1>1
    <3>3. QED
      BY <2>3, <3>2
  <2>6. QED
    BY <1>2, <2>3, <2>4, <2>5
<1>4. Len(s) = 1 => Front(s) = <<>>
  BY <1>1, <1>3, EmptySeq
<1>5. ASSUME Len(s) > 1
      PROVE  Front(s) # <<>> /\ Last(Front(s)) = s[Len(s) - 1]
  <2>1. Front(s) # <<>>
    BY <1>1, <1>3, <1>5
  <2>2. Last(Front(s)) = Front(s)[Len(s) - 1]
    BY <1>3 DEF Last
  <2>3. QED
    BY <1>1, <1>3, <1>5, <2>1, <2>2
<1>6. QED
  BY <1>3, <1>4, <1>5

\* A pushed element is last; the others keep their place.
LEMMA PushOn ==
  ASSUME NEW S, NEW s \in Seq(S), NEW e \in S
  PROVE  /\ Append(s, e) \in Seq(S)
         /\ Len(Append(s, e)) = Len(s) + 1
         /\ Append(s, e) # <<>>
         /\ Last(Append(s, e)) = e
         /\ \A j \in 1 .. Len(s) + 1 : Append(s, e)[j] = IF j = Len(s) + 1 THEN e ELSE s[j]
<1>1. /\ Append(s, e) \in Seq(S)
      /\ Len(Append(s, e)) = Len(s) + 1
      /\ \A j \in 1 .. Len(s) + 1 : Append(s, e)[j] = IF j = Len(s) + 1 THEN e ELSE s[j]
  OBVIOUS
<1>2. Append(s, e) # <<>>
  BY <1>1, LenProperties, EmptySeq
<1>3. QED
  BY <1>1, <1>2, LenProperties DEF Last


-----------------------------------------------------------------------------
(* The inductive invariant of the types and of the dereferenced pointers *)

\* The stack of frontend() is in use while frontends run, that of backend()
\* while backends run: the memcpy()s never meet an unfinished import loop.
StacksApart ==
  /\ stage # "frontend" => fstack = <<>>
  /\ stage # "backend" => bstack = <<>>

FrontFrameOK(f) ==
  /\ f.k >= 1
  /\ f.pc # "parse" => f.module \in Pointer
  /\ f.pc = "wait" => f.k <= Len(prog.imports[f.file])

FrontStackOK ==
  \A i \in 1 .. Len(fstack) :
    /\ FrontFrameOK(fstack[i])
    /\ i # Len(fstack) => fstack[i].pc = "wait"

BackFrameOK(f) ==
  /\ f.k >= 1
  /\ f.orig \in 0 .. Len(struct)
  /\ f.pc # "enter" => f.own \in Pointer
  /\ f.pc = "wait" => f.k <= Len(content[f.own].imports)

BackStackOK == \A i \in 1 .. Len(bstack) :
    /\ BackFrameOK(bstack[i])
    /\ i # Len(bstack) => bstack[i].pc = "wait"

\* context->current_module is not NULL where it is dereferenced or pushed.
CurrentOK ==
  /\ FrontAt("wait") \/ FrontAt("check") => current # 0
  /\ stage = "backend" => current # 0

\* modules[i] is NULL only for a file that has not been parsed.
ModulesOK ==
  \A i \in 1 .. fileIndex : modules[i] = 0 =>
    /\ i = fileIndex
    /\ stage \in {"frontend", "done"}
    /\ stage = "frontend" => Len(fstack) = 1 /\ fstack[1].pc = "parse"

Inv ==
  /\ TypeOK
  /\ StacksApart
  /\ FrontStackOK
  /\ BackStackOK
  /\ CurrentOK
  /\ ModulesOK

-----------------------------------------------------------------------------
(* Each action preserves it *)

\* A stack of frames of frontend() whose last element is replaced.
LEMMA FrontLastSet ==
  ASSUME NEW s \in Seq(FrontFrame), s # <<>>, NEW e \in FrontFrame
  PROVE  /\ ReplaceAt(s, Len(s), e) \in Seq(FrontFrame)
         /\ Len(ReplaceAt(s, Len(s), e)) = Len(s)
         /\ ReplaceAt(s, Len(s), e) # <<>>
         /\ Last(ReplaceAt(s, Len(s), e)) = e
         /\ ReplaceAt(s, Len(s), e)[Len(s)] = e
         /\ \A j \in 1 .. Len(s) : j # Len(s) => ReplaceAt(s, Len(s), e)[j] = s[j]
BY SetLastOf, ZenonT(60)

\* The same of backend().
LEMMA BackLastSet ==
  ASSUME NEW s \in Seq(BackFrame), s # <<>>, NEW e \in BackFrame
  PROVE  /\ ReplaceAt(s, Len(s), e) \in Seq(BackFrame)
         /\ Len(ReplaceAt(s, Len(s), e)) = Len(s)
         /\ ReplaceAt(s, Len(s), e) # <<>>
         /\ Last(ReplaceAt(s, Len(s), e)) = e
         /\ ReplaceAt(s, Len(s), e)[Len(s)] = e
         /\ \A j \in 1 .. Len(s) : j # Len(s) => ReplaceAt(s, Len(s), e)[j] = s[j]
BY SetLastOf, ZenonT(60)

\* The innermost frame of a stack in use.
LEMMA FTopOK ==
  ASSUME Inv, fstack # <<>>
  PROVE  /\ Len(fstack) \in Nat \ {0}
         /\ Len(fstack) \in 1 .. Len(fstack)
         /\ FTop = fstack[Len(fstack)]
         /\ FTop \in FrontFrame
         /\ FrontFrameOK(FTop)
<1>1. fstack \in Seq(FrontFrame)
  BY DEF Inv, TypeOK
<1>2. /\ Len(fstack) \in Nat \ {0}
      /\ FTop = fstack[Len(fstack)]
      /\ FTop \in FrontFrame
  BY <1>1, LastOf DEF FTop
<1>3. Len(fstack) \in 1 .. Len(fstack)
  BY <1>2
<1>4. QED
  BY <1>2, <1>3 DEF Inv, FrontStackOK

\* The innermost frame of backend(), when it is at some point of the function.
LEMMA BTopOK ==
  ASSUME Inv, bstack # <<>>
  PROVE  /\ Len(bstack) \in Nat \ {0}
         /\ Len(bstack) \in 1 .. Len(bstack)
         /\ BTop = bstack[Len(bstack)]
         /\ BTop \in BackFrame
         /\ BackFrameOK(BTop)
<1>1. bstack \in Seq(BackFrame)
  BY DEF Inv, TypeOK
<1>2. /\ Len(bstack) \in Nat \ {0}
      /\ BTop = bstack[Len(bstack)]
      /\ BTop \in BackFrame
  BY <1>1, LastOf DEF BTop
<1>3. Len(bstack) \in 1 .. Len(bstack)
  BY <1>2
<1>4. QED
  BY <1>2, <1>3 DEF Inv, BackStackOK

\* The process may end at any point, with the struct of a module overwritten.
LEMMA EndsPreserves ==
  ASSUME Inv, NEW o \in {"ok", "error", "exit", "crash", "endless"}, Ends(o),
         struct' \in Seq(1 .. Len(content)), Len(struct') = Len(struct)
  PROVE  Inv'
<1>1. TypeOK'
  <2>1. fstack' \in Seq(FrontFrame) /\ bstack' \in Seq(BackFrame)
    BY EmptySeq DEF Ends
  <2>2. Pointer' = Pointer /\ Content' = Content
    BY DEF Pointer, Content
  <2>3. QED
    BY <2>1, <2>2 DEF Inv, TypeOK, Ends
<1>2. StacksApart' /\ ModulesOK'
  BY DEF Inv, ModulesOK, StacksApart, Ends
<1>3. FrontStackOK' /\ BackStackOK'
  BY EmptySeq DEF FrontStackOK, BackStackOK, Ends
<1>4. CurrentOK'
  BY DEF CurrentOK, FrontAt, Ends
<1>5. QED
  BY <1>1, <1>2, <1>3, <1>4 DEF Inv

\* A process that ends and leaves the structs alone keeps the invariant.
LEMMA EndWithPreserves ==
  ASSUME Inv, NEW o \in {"ok", "error", "exit", "crash", "endless"}, EndWith(o)
  PROVE  Inv'
<1>1. struct' \in Seq(1 .. Len(content)) /\ Len(struct') = Len(struct)
  BY DEF Inv, TypeOK, EndWith
<1>2. QED
  BY <1>1, EndsPreserves DEF EndWith

\* main() enters the next file of the command line: its module is still NULL,
\* and so is that of every later file.
LEMMA StartFilePreserves ==
  ASSUME Inv, StartFile
  PROVE  Inv'
<1>1. fileIndex + 1 \in 1 .. Len(prog.cmd) /\ prog.cmd[fileIndex + 1] \in File
  <2>1. prog.cmd \in Seq(File)
    BY DEF Inv, TypeOK, Program
  <2>2. fileIndex + 1 \in 1 .. Len(prog.cmd)
    BY <2>1 DEF Inv, TypeOK, StartFile
  <2>3. QED
    BY <2>1, <2>2, ElementOfSeq
<1>2. FrontCall(prog.cmd[fileIndex + 1]) \in FrontFrame
  BY <1>1 DEF FrontCall, FrontFrame
<1>3. /\ fstack' \in Seq(FrontFrame) /\ Len(fstack') = 1
      /\ fstack'[1] = FrontCall(prog.cmd[fileIndex + 1])
      /\ Last(fstack') = fstack'[1]
  BY <1>2 DEF StartFile, Last
<1>4. TypeOK'
  BY <1>1, <1>3 DEF Inv, TypeOK, StartFile, backVars, heapVars, Pointer, Content
<1>5. StacksApart'
  BY DEF Inv, StacksApart, StartFile, backVars
<1>6. FrontStackOK'
  BY <1>3 DEF FrontStackOK, FrontFrameOK, FrontCall
<1>7. BackStackOK'
  BY DEF Inv, BackStackOK, BackFrameOK, StartFile, backVars, heapVars, Pointer
<1>8. CurrentOK'
  BY <1>3 DEF CurrentOK, FrontAt, FTop, FrontCall, StartFile
<1>9. ModulesOK'
  <2>1. \A i \in 1 .. fileIndex : modules[i] # 0
    BY DEF Inv, ModulesOK, StartFile
  <2>2. fileIndex \in Nat
    BY DEF Inv, TypeOK
  <2>3. fstack'[1].pc = "parse"
    BY <1>3 DEF FrontCall
  <2>4. QED
    BY <1>3, <2>1, <2>2, <2>3 DEF ModulesOK, StartFile
<1>10. QED
  BY <1>4, <1>5, <1>6, <1>7, <1>8, <1>9 DEF Inv

\* main() leaves the loop over the files.
LEMMA FilesDonePreserves ==
  ASSUME Inv, FilesDone
  PROVE  Inv'
<1>1. TypeOK'
  BY DEF Inv, TypeOK, FilesDone, heapVars, frontVars, backVars, Pointer, Content
<1>2. StacksApart' /\ ModulesOK' /\ CurrentOK'
  BY DEF Inv, StacksApart, ModulesOK, CurrentOK, FrontAt, FilesDone, frontVars, backVars
<1>3. FrontStackOK' /\ BackStackOK'
  BY DEF Inv, FrontStackOK, FrontFrameOK, BackStackOK, BackFrameOK, Pointer,
         FilesDone, heapVars, frontVars, backVars
<1>4. QED
  BY <1>1, <1>2, <1>3 DEF Inv

\* The innermost frontend() changes its frame and nothing that the others rely on.
LEMMA SetFrontPreserves ==
  ASSUME Inv, fstack # <<>>, NEW fr \in FrontFrame, SetFront(fr),
         FrontFrameOK(fr)', UNCHANGED prog, Len(struct) <= Len(struct')
  PROVE  /\ fstack' \in Seq(FrontFrame)
         /\ Len(fstack') = Len(fstack) /\ fstack' # <<>>
         /\ FTop' = fr
         /\ FrontStackOK'
<1>1. fstack \in Seq(FrontFrame) /\ Len(struct) \in Nat
  BY DEF Inv, TypeOK
<1>2. /\ fstack' \in Seq(FrontFrame) /\ Len(fstack') = Len(fstack)
      /\ fstack' # <<>> /\ Last(fstack') = fr /\ fstack'[Len(fstack)] = fr
      /\ \A j \in 1 .. Len(fstack) : j # Len(fstack) => fstack'[j] = fstack[j]
  <2>1. fstack \in Seq(FrontFrame)
    BY <1>1
  <2>2. fstack' = ReplaceAt(fstack, Len(fstack), fr)
    BY DEF SetFront
  <2>3. QED
    BY <2>1, <2>2, FrontLastSet, Zenon
<1>3. ASSUME NEW f, FrontFrameOK(f), Len(struct') \in Nat PROVE FrontFrameOK(f)'
  BY <1>1, <1>3 DEF FrontFrameOK, Pointer
<1>4. Len(struct') \in Nat
  BY DEF Inv, TypeOK, FrontFrameOK, Pointer
<1>5. QED
  BY <1>2, <1>3, <1>4 DEF Inv, FrontStackOK, FTop

\* PARSER_parse_file() returns: the new module is the last of the heap and, for
\* the file of the command line, the entry of context->modules.
LEMMA ParseFilePreserves ==
  ASSUME Inv, ParseFile
  PROVE  Inv'
<1> DEFINE new == Len(struct) + 1
           rec == [path |-> FTop.file, imports |-> <<>>, sees |-> {}]
<1>0. PICK frame : frame = [FTop EXCEPT !.pc = "import", !.module = new]
  OBVIOUS
<1>1. /\ stage = "frontend" /\ fstack # <<>> /\ FTop.pc = "parse"
      /\ struct' = Append(struct, new)
      /\ content' = Append(content, rec)
      /\ fstack' = ReplaceAt(fstack, Len(fstack), frame)
      /\ modules' = IF modules[fileIndex] = 0
                    THEN [modules EXCEPT ![fileIndex] = new] ELSE modules
      /\ UNCHANGED <<prog, fileIndex, stage, current, table, outcome, codegen,
                     declared, emitted, bstack>>
  BY <1>0 DEF ParseFile, FrontAt, SetFront, backVars
<1>2. FTop \in FrontFrame /\ FrontFrameOK(FTop) /\ FTop = fstack[Len(fstack)]
  BY <1>1, FTopOK
<1>3. Len(struct) \in Nat /\ Len(content) = Len(struct)
  BY DEF Inv, TypeOK
<1>4. frame \in FrontFrame /\ frame.pc = "import" /\ frame.module = new /\ frame.k >= 1
  <2>1. new \in Nat
    BY <1>3
  <2>2. PICK top : top = FTop /\ top \in FrontFrame /\ top.k >= 1
    BY <1>2 DEF FrontFrameOK
  <2>3. PICK n \in Nat : n = new
    BY <2>1
  <2>4. frame = [top EXCEPT !.pc = "import", !.module = n]
    BY <1>0, <2>2, <2>3
  <2>5. frame \in FrontFrame /\ frame.pc = "import" /\ frame.module = n /\ frame.k = top.k
    BY <2>2, <2>4 DEF FrontFrame
  <2>6. QED
    BY <2>2, <2>3, <2>5
<1>6. Len(struct') = new /\ Len(content') = new /\ Pointer' = 1 .. new
  BY <1>1, <1>3, PushOn DEF Inv, TypeOK, Pointer
<1>7. Pointer \subseteq Pointer' /\ new \in Pointer'
  BY <1>3, <1>6 DEF Pointer
<1>5. /\ fstack' \in Seq(FrontFrame)
      /\ Len(fstack') = Len(fstack) /\ fstack' # <<>>
      /\ FTop' = frame
      /\ FrontStackOK'
  <2>1. FrontFrameOK(frame)'
    BY <1>4, <1>7 DEF FrontFrameOK
  <2>2. SetFront(frame) /\ UNCHANGED prog /\ fstack # <<>>
    BY <1>1 DEF SetFront
  <2>3. Len(struct) <= Len(struct')
    BY <1>3, <1>6
  <2>4. QED
    BY <1>4, <2>1, <2>2, <2>3, SetFrontPreserves
<1>8. TypeOK'
  <2>1. struct' \in Seq(1 .. Len(content'))
    <3>1. 1 .. Len(content) \subseteq 1 .. Len(content')
      BY <1>3, <1>6
    <3>2. struct \in Seq(1 .. Len(content'))
      BY <3>1, SeqMonotonic DEF Inv, TypeOK
    <3>3. QED
      BY <1>1, <1>3, <1>6, <3>2, PushOn
  <2>2. content' \in Seq(Content')
    <3>1. Seq(Pointer) \subseteq Seq(Pointer')
      BY <1>7, SeqMonotonic
    <3>2. Content \subseteq Content'
      BY <3>1 DEF Content
    <3>3. content \in Seq(Content')
      BY <3>2, SeqMonotonic DEF Inv, TypeOK
    <3>4. rec \in Content'
      BY <1>2, EmptySeq DEF Content, FrontFrame
    <3>5. QED
      BY <1>1, <3>3, <3>4, PushOn
  <2>3. 0 .. Len(struct) \subseteq 0 .. Len(struct') /\ new \in 0 .. Len(struct')
    BY <1>3, <1>6
  <2>4. modules' \in [1 .. Len(prog.cmd) -> 0 .. Len(struct')]
    <3>1. modules \in [1 .. Len(prog.cmd) -> 0 .. Len(struct')]
      BY <2>3 DEF Inv, TypeOK
    <3>2. [modules EXCEPT ![fileIndex] = new] \in [1 .. Len(prog.cmd) -> 0 .. Len(struct')]
      BY <2>3, <3>1
    <3>3. QED
      BY <1>1, <3>1, <3>2
  <2>5. current' \in 0 .. Len(struct')
    BY <1>1, <2>3 DEF Inv, TypeOK
  <2>6. table' \subseteq [path : File, module : Pointer'] /\ codegen' \subseteq Pointer'
    <3>1. table \subseteq [path : File, module : Pointer] /\ codegen \subseteq Pointer
      BY DEF Inv, TypeOK
    <3>2. QED
      BY <1>1, <1>7, <3>1
  <2>7. QED
    BY <1>1, <1>5, <1>6, <2>1, <2>2, <2>4, <2>5, <2>6 DEF Inv, TypeOK
<1>9. StacksApart'
  BY <1>1 DEF Inv, StacksApart
<1>11. BackStackOK' /\ CurrentOK'
  <2>1. bstack' = <<>>
    BY <1>1 DEF Inv, StacksApart
  <2>2. QED
    BY <1>1, <1>4, <1>5, <2>1 DEF BackStackOK, CurrentOK, FrontAt
<1>12. ModulesOK'
  <2>1. \A i \in 1 .. fileIndex : modules'[i] # 0
    BY <1>1, <1>3 DEF Inv, TypeOK, ModulesOK
  <2>2. QED
    BY <1>1, <2>1 DEF ModulesOK
<1>13. QED
  BY <1>5, <1>8, <1>9, <1>11, <1>12 DEF Inv

\* The abrupt ends that no code stands before.
LEMMA EndingsPreserve ==
  ASSUME Inv, \/ GenerateOutput \/ ParseFails \/ ImportOverflow \/ TypesOverflow \/ FunctionsOverflow
              \/ TypeCheckFails \/ DeclareFails
  PROVE  Inv'
<1>1. \E o \in {"ok", "error", "exit", "crash", "endless"} : EndWith(o)
  BY DEF GenerateOutput, ParseFails, ImportOverflow, TypesOverflow, FunctionsOverflow, TypeCheckFails, DeclareFails, Fails
<1>2. QED
  BY <1>1, EndWithPreserves

\* Once the innermost file is parsed, no file started so far has a NULL module.
LEMMA NoNullModule ==
  ASSUME Inv, stage = "frontend", fstack # <<>>, FTop.pc # "parse"
  PROVE  \A i \in 1 .. fileIndex : modules[i] # 0
<1>1. FTop = fstack[Len(fstack)]
  BY FTopOK
<1>2. QED
  BY <1>1 DEF Inv, ModulesOK

\* What a frame in the import loop refers to.
LEMMA ImportingOK ==
  ASSUME Inv, stage = "frontend", fstack # <<>>, FTop.pc # "parse"
  PROVE  /\ FTop.module \in Pointer
         /\ struct[FTop.module] \in 1 .. Len(content)
         /\ content[struct[FTop.module]] \in Content
         /\ FTop.k <= Len(prog.imports[FTop.file]) => Requested \in File
<1>1. FTop \in FrontFrame /\ FrontFrameOK(FTop)
  BY FTopOK
<1>2. FTop.module \in Pointer /\ FTop.file \in File /\ FTop.k \in Nat \ {0}
  BY <1>1 DEF FrontFrame, FrontFrameOK
<1>3. struct[FTop.module] \in 1 .. Len(content)
  <2>1. struct \in Seq(1 .. Len(content))
    BY DEF Inv, TypeOK
  <2>2. QED
    BY <1>2, <2>1, ElementOfSeq DEF Pointer
<1>4. content[struct[FTop.module]] \in Content
  <2>1. content \in Seq(Content)
    BY DEF Inv, TypeOK
  <2>2. QED
    BY <1>3, <2>1, ElementOfSeq
<1>5. FTop.k <= Len(prog.imports[FTop.file]) => Requested \in File
  <2>1. prog.imports[FTop.file] \in Seq(File)
    BY <1>2 DEF Inv, TypeOK, Program
  <2>2. SUFFICES ASSUME FTop.k <= Len(prog.imports[FTop.file]) PROVE Requested \in File
    OBVIOUS
  <2>3. FTop.k \in 1 .. Len(prog.imports[FTop.file])
    BY <1>2, <2>1, <2>2
  <2>4. QED
    BY <2>1, <2>3, ElementOfSeq DEF Requested
<1>6. QED
  BY <1>2, <1>3, <1>4, <1>5

\* One turn of the import loop, whichever way the module was found.
LEMMA BindPreserves ==
  ASSUME Inv, stage = "frontend", fstack # <<>>, FTop.pc \in {"import", "wait"},
         FTop.k <= Len(prog.imports[FTop.file]), NEW m \in Pointer, Bind(m)
  PROVE  Inv'
<1>1. FTop \in FrontFrame /\ FrontFrameOK(FTop) /\ FTop = fstack[Len(fstack)]
  BY FTopOK
<1>2. /\ FTop.module \in Pointer
      /\ struct[FTop.module] \in 1 .. Len(content)
      /\ content[struct[FTop.module]] \in Content
      /\ Requested \in File
  BY ImportingOK
<1>3. PICK c \in 1 .. Len(content) : c = struct[FTop.module]
  BY <1>2
<1>4. PICK old \in Content : old = content[c]
  BY <1>2, <1>3
<1>5. PICK item : item = [old EXCEPT !.imports = Append(old.imports, m)]
  OBVIOUS
<1>6. PICK frame : frame = [FTop EXCEPT !.pc = "import", !.k = FTop.k + 1]
  OBVIOUS
<1>7. /\ content' = [content EXCEPT ![c] = item]
      /\ current' = m
      /\ table' \subseteq table \union {[path |-> Requested, module |-> m]}
      /\ fstack' = ReplaceAt(fstack, Len(fstack), frame)
      /\ UNCHANGED <<prog, fileIndex, stage, modules, struct, outcome, codegen,
                     declared, emitted, bstack>>
  BY <1>3, <1>4, <1>5, <1>6 DEF Bind, SetFront, backVars
<1>8. frame \in FrontFrame /\ frame.pc = "import" /\ frame.module = FTop.module /\ frame.k >= 1
  <2>1. PICK top : top = FTop /\ top \in FrontFrame /\ top.k >= 1
    BY <1>1 DEF FrontFrameOK
  <2>2. PICK n \in Nat : n = top.k + 1 /\ n >= 1
    BY <2>1 DEF FrontFrame
  <2>3. frame = [top EXCEPT !.pc = "import", !.k = n]
    BY <1>6, <2>1, <2>2
  <2>4. frame \in FrontFrame /\ frame.pc = "import" /\ frame.module = top.module /\ frame.k = n
    BY <2>1, <2>3 DEF FrontFrame
  <2>5. QED
    BY <2>1, <2>2, <2>4
<1>9. item \in Content
  <2>1. old.imports \in Seq(Pointer)
    BY <1>4 DEF Content
  <2>2. Append(old.imports, m) \in Seq(Pointer)
    BY <2>1, PushOn
  <2>3. QED
    BY <1>4, <1>5, <2>2 DEF Content
<1>10. content' \in Seq(Content) /\ Len(content') = Len(content)
  BY <1>7, <1>9, ExceptSeq DEF Inv, TypeOK
<1>11. /\ fstack' \in Seq(FrontFrame) /\ fstack' # <<>> /\ FTop' = frame
       /\ FrontStackOK'
  <2>1. FrontFrameOK(frame)'
    BY <1>2, <1>7, <1>8 DEF FrontFrameOK, Pointer
  <2>2. SetFront(frame) /\ UNCHANGED prog /\ fstack # <<>>
    BY <1>7 DEF SetFront
  <2>3. Len(struct) <= Len(struct')
    BY <1>7 DEF Inv, TypeOK
  <2>4. QED
    BY <1>8, <2>1, <2>2, <2>3, SetFrontPreserves
<1>12. Pointer' = Pointer /\ Content' = Content
  BY <1>7 DEF Pointer, Content
<1>13. TypeOK'
  <2>1. table' \subseteq [path : File, module : Pointer]
    BY <1>2, <1>7 DEF Inv, TypeOK
  <2>2. current' \in 0 .. Len(struct)
    BY <1>7 DEF Inv, TypeOK, Pointer
  <2>3. QED
    BY <1>7, <1>10, <1>11, <1>12, <2>1, <2>2 DEF Inv, TypeOK
<1>14. StacksApart' /\ BackStackOK' /\ CurrentOK'
  <2>1. bstack' = <<>>
    BY <1>7 DEF Inv, StacksApart
  <2>2. QED
    BY <1>7, <1>8, <1>11, <2>1 DEF StacksApart, BackStackOK, CurrentOK, FrontAt
<1>15. ModulesOK'
  <2>1. \A i \in 1 .. fileIndex' : modules'[i] # 0
    BY <1>7, NoNullModule
  <2>2. QED
    BY <2>1 DEF ModulesOK
<1>16. QED
  BY <1>11, <1>13, <1>14, <1>15 DEF Inv

\* The three ways a turn of the import loop ends: found in the hash, found
\* among the files of the command line, returned by frontend().
LEMMA ImportPreserves ==
  ASSUME Inv, ImportRegistered \/ ImportOpen \/ ImportReturn
  PROVE  Inv'
<1>1. /\ stage = "frontend" /\ fstack # <<>> /\ FTop.pc \in {"import", "wait"}
      /\ FTop.k <= Len(prog.imports[FTop.file])
  <2>1. CASE ImportRegistered \/ ImportOpen
    BY <2>1 DEF ImportRegistered, ImportOpen, ImportPending, FrontAt
  <2>2. CASE ImportReturn
    BY <2>2, FTopOK DEF ImportReturn, FrontAt, FrontFrameOK
  <2>3. QED
    BY <2>1, <2>2
<1>2. \E m \in Pointer : Bind(m)
  <2>1. CASE ImportRegistered
    <3>1. Registered(Requested) \subseteq Pointer
      BY DEF Registered, Inv, TypeOK
    <3>2. QED
      BY <2>1, <3>1 DEF ImportRegistered
  <2>2. CASE ImportOpen
    <3>1. PICK i \in 1 .. fileIndex : Bind(modules[i])
      BY <2>2 DEF ImportOpen, OpenFiles
    <3>2. modules[i] # 0
      BY <1>1, NoNullModule
    <3>3. i \in 1 .. Len(prog.cmd)
      <4>1. Len(prog.cmd) \in Nat
        BY DEF Inv, TypeOK, Program
      <4>2. QED
        BY <4>1 DEF Inv, TypeOK
    <3>4. modules[i] \in Pointer
      <4>1. modules \in [1 .. Len(prog.cmd) -> 0 .. Len(struct)] /\ Len(struct) \in Nat
        BY DEF Inv, TypeOK
      <4>2. modules[i] \in 0 .. Len(struct)
        BY <3>3, <4>1
      <4>3. QED
        BY <3>2, <4>1, <4>2 DEF Pointer
    <3>5. QED
      BY <3>1, <3>4
  <2>3. CASE ImportReturn
    <3>1. current \in Pointer
      BY <2>3 DEF ImportReturn, Inv, TypeOK, CurrentOK, Pointer
    <3>2. QED
      BY <2>3, <3>1 DEF ImportReturn
  <2>4. QED
    BY <2>1, <2>2, <2>3
<1>3. QED
  BY <1>1, <1>2, BindPreserves

\* parse() calls frontend(): the caller waits under the new frame.
LEMMA ImportFilePreserves ==
  ASSUME Inv, ImportFile
  PROVE  Inv'
<1>1. /\ stage = "frontend" /\ fstack # <<>> /\ FTop.pc = "import"
      /\ FTop.k <= Len(prog.imports[FTop.file])
  BY DEF ImportFile, NeedsFrontend, ImportPending, FrontAt
<1>2. FTop \in FrontFrame /\ FrontFrameOK(FTop) /\ FTop = fstack[Len(fstack)]
  BY <1>1, FTopOK
<1>3. PICK frame : frame = [FTop EXCEPT !.pc = "wait"]
  OBVIOUS
<1>4. PICK call : call = FrontCall(Requested)
  OBVIOUS
<1>5. /\ current' = 0
      /\ fstack' = Append(ReplaceAt(fstack, Len(fstack), frame), call)
      /\ UNCHANGED <<prog, fileIndex, stage, modules, table, outcome, struct, content,
                     codegen, declared, emitted, bstack>>
  BY <1>3, <1>4 DEF ImportFile, heapVars, backVars
<1>6. frame \in FrontFrame /\ FrontFrameOK(frame) /\ frame.pc = "wait"
  <2>1. PICK top \in FrontFrame : top = FTop
    BY <1>2
  <2>2. frame = [top EXCEPT !.pc = "wait"]
    BY <1>3, <2>1
  <2>3. /\ frame \in FrontFrame /\ frame.pc = "wait" /\ frame.module = top.module
        /\ frame.k = top.k /\ frame.file = top.file
    BY <2>1, <2>2 DEF FrontFrame
  <2>4. QED
    BY <1>1, <1>2, <2>1, <2>3 DEF FrontFrameOK
<1>7. call \in FrontFrame /\ call.pc = "parse" /\ call.k = 1
  <2>1. PICK path \in File : path = Requested
    BY <1>1, ImportingOK
  <2>2. QED
    BY <1>4, <2>1 DEF FrontCall, FrontFrame
<1>8. PICK base : base = ReplaceAt(fstack, Len(fstack), frame)
  OBVIOUS
<1>9. /\ base \in Seq(FrontFrame)
      /\ Len(base) = Len(fstack)
      /\ base[Len(fstack)] = frame
      /\ \A j \in 1 .. Len(fstack) : j # Len(fstack) => base[j] = fstack[j]
  <2>1. fstack \in Seq(FrontFrame)
    BY DEF Inv, TypeOK
  <2>2. fstack # <<>> /\ frame \in FrontFrame
    BY <1>1, <1>6
  <2>3. QED
    BY <1>8, <2>1, <2>2, FrontLastSet, Zenon
<1>10. /\ fstack' \in Seq(FrontFrame)
       /\ Len(fstack') = Len(base) + 1
       /\ fstack' # <<>> /\ Last(fstack') = call
       /\ \A j \in 1 .. Len(base) + 1 : fstack'[j] = IF j = Len(base) + 1 THEN call ELSE base[j]
  BY <1>5, <1>7, <1>8, <1>9, PushOn
<1>11. Pointer' = Pointer /\ Content' = Content
  BY <1>5 DEF Pointer, Content
<1>12. TypeOK'
  <2>1. current' \in 0 .. Len(struct)
    BY <1>5 DEF Inv, TypeOK
  <2>2. QED
    BY <1>5, <1>10, <1>11, <2>1 DEF Inv, TypeOK
<1>13. FrontStackOK'
  <2>1. ASSUME NEW f PROVE FrontFrameOK(f)' <=> FrontFrameOK(f)
    BY <1>5, <1>11 DEF FrontFrameOK
  <2>2. Len(fstack) \in Nat
    BY <1>1, FTopOK
  <2>3. ASSUME NEW i \in 1 .. Len(fstack')
        PROVE  FrontFrameOK(fstack'[i]) /\ (i # Len(fstack') => fstack'[i].pc = "wait")
    <3>1. CASE i = Len(base) + 1
      <4>1. fstack'[i] = call
        BY <1>10, <3>1, <2>3
      <4>2. FrontFrameOK(call)
        BY <1>7 DEF FrontFrameOK
      <4>3. QED
        BY <1>10, <3>1, <4>1, <4>2
    <3>2. CASE i # Len(base) + 1
      <4>1. i \in 1 .. Len(fstack)
        BY <1>9, <1>10, <2>2, <3>2
      <4>2. fstack'[i] = base[i]
        BY <1>10, <2>3, <3>2
      <4>3. CASE i = Len(fstack)
        BY <1>6, <1>9, <4>2, <4>3
      <4>4. CASE i # Len(fstack)
        BY <1>9, <4>1, <4>2, <4>4 DEF Inv, FrontStackOK
      <4>5. QED
        BY <4>3, <4>4
    <3>3. QED
      BY <3>1, <3>2
  <2>4. QED
    BY <2>1, <2>3 DEF FrontStackOK
<1>14. StacksApart' /\ BackStackOK' /\ CurrentOK'
  <2>1. bstack' = <<>>
    BY <1>1, <1>5 DEF Inv, StacksApart
  <2>2. FTop'.pc = "parse"
    BY <1>7, <1>10 DEF FTop
  <2>3. QED
    BY <1>1, <1>5, <2>1, <2>2 DEF StacksApart, BackStackOK, CurrentOK, FrontAt
<1>15. ModulesOK'
  <2>1. \A i \in 1 .. fileIndex' : modules'[i] # 0
    BY <1>1, <1>5, NoNullModule
  <2>2. QED
    BY <2>1 DEF ModulesOK
<1>16. QED
  BY <1>12, <1>13, <1>14, <1>15 DEF Inv

\* parse() ends with the module of its own file in context->current_module.
LEMMA ParseEndPreserves ==
  ASSUME Inv, ParseEnd
  PROVE  Inv'
<1>1. stage = "frontend" /\ fstack # <<>> /\ FTop.pc = "import"
  BY DEF ParseEnd, FrontAt
<1>2. FTop \in FrontFrame /\ FrontFrameOK(FTop) /\ FTop.module \in Pointer
  BY <1>1, FTopOK, ImportingOK
<1>3. PICK frame : frame = [FTop EXCEPT !.pc = "check"]
  OBVIOUS
<1>4. /\ current' = FTop.module
      /\ SetFront(frame)
      /\ UNCHANGED <<prog, fileIndex, stage, modules, table, outcome, struct, content,
                     codegen, declared, emitted, bstack>>
  BY <1>3 DEF ParseEnd, heapVars, backVars
<1>5. frame \in FrontFrame /\ FrontFrameOK(frame) /\ frame.pc = "check"
  <2>1. PICK top \in FrontFrame : top = FTop
    BY <1>2
  <2>2. frame = [top EXCEPT !.pc = "check"]
    BY <1>3, <2>1
  <2>3. /\ frame \in FrontFrame /\ frame.pc = "check" /\ frame.module = top.module
        /\ frame.k = top.k
    BY <2>1, <2>2 DEF FrontFrame
  <2>4. QED
    BY <1>2, <2>1, <2>3 DEF FrontFrameOK
<1>6. Pointer' = Pointer /\ Content' = Content
  BY <1>4 DEF Pointer, Content
<1>7. /\ fstack' \in Seq(FrontFrame) /\ fstack' # <<>> /\ FTop' = frame
      /\ FrontStackOK'
  <2>1. FrontFrameOK(frame)'
    BY <1>4, <1>5, <1>6 DEF FrontFrameOK
  <2>2. Len(struct) <= Len(struct')
    BY <1>4 DEF Inv, TypeOK
  <2>3. QED
    BY <1>1, <1>4, <1>5, <2>1, <2>2, SetFrontPreserves
<1>8. TypeOK'
  <2>1. current' \in 0 .. Len(struct)
    BY <1>2, <1>4 DEF Inv, TypeOK, Pointer
  <2>2. QED
    BY <1>4, <1>6, <1>7, <2>1 DEF Inv, TypeOK
<1>9. StacksApart' /\ BackStackOK' /\ CurrentOK'
  <2>1. bstack' = <<>>
    BY <1>1, <1>4 DEF Inv, StacksApart
  <2>2. current' # 0
    BY <1>2, <1>4 DEF Pointer
  <2>3. QED
    BY <1>1, <1>4, <2>1, <2>2 DEF StacksApart, BackStackOK, CurrentOK
<1>10. ModulesOK'
  <2>1. \A i \in 1 .. fileIndex' : modules'[i] # 0
    BY <1>1, <1>4, NoNullModule
  <2>2. QED
    BY <2>1 DEF ModulesOK
<1>11. QED
  BY <1>7, <1>8, <1>9, <1>10 DEF Inv

\* type_check() ends, and with it a frontend(): the caller goes on, or backend()
\* starts.
LEMMA TypeCheckPreserves ==
  ASSUME Inv, TypeCheck
  PROVE  Inv'
<1>1. stage = "frontend" /\ fstack # <<>> /\ FTop.pc = "check"
  BY DEF TypeCheck, FrontAt
<1>2. Len(fstack) \in Nat \ {0}
  BY <1>1, FTopOK
<1>3. current \in Pointer
  BY <1>1 DEF Inv, TypeOK, CurrentOK, FrontAt, Pointer
<1>4. struct \in Seq(1 .. Len(content)) /\ content \in Seq(Content)
  BY DEF Inv, TypeOK
<1>5. PICK c \in 1 .. Len(content) : c = struct[current]
  BY <1>3, <1>4, ElementOfSeq DEF Pointer
<1>6. PICK old \in Content : old = content[c]
  BY <1>4, ElementOfSeq
<1>7. PICK visible \in SUBSET File : visible = Visible(current)
  <2>1. ASSUME NEW q \in Pointer PROVE PathOf(q) \in File
    <3>1. PICK d \in 1 .. Len(content) : d = struct[q]
      BY <1>4, ElementOfSeq DEF Pointer
    <3>2. content[d] \in Content
      BY <1>4, ElementOfSeq
    <3>3. QED
      BY <3>1, <3>2 DEF PathOf, Content
  <2>2. QED
    BY <2>1 DEF Visible
<1>8. PICK item : item = [old EXCEPT !.sees = visible]
  OBVIOUS
<1>9. item \in Content
  BY <1>8 DEF Content
<1>10. /\ content' = [content EXCEPT ![c] = item]
       /\ fstack' = Front(fstack)
       /\ IF Len(fstack) = 1
          THEN stage' = "backend" /\ bstack' = <<BackCall(0)>>
          ELSE UNCHANGED <<stage, bstack>>
       /\ UNCHANGED <<prog, fileIndex, modules, current, struct, table, codegen,
                      declared, emitted, outcome>>
  BY <1>5, <1>6, <1>7, <1>8 DEF TypeCheck
<1>11. content' \in Seq(Content) /\ Len(content') = Len(content)
  BY <1>4, <1>9, <1>10, ExceptSeq
<1>12. /\ fstack' \in Seq(FrontFrame)
       /\ Len(fstack') = Len(fstack) - 1
       /\ \A j \in 1 .. Len(fstack) - 1 : fstack'[j] = fstack[j]
       /\ Len(fstack) = 1 => fstack' = <<>>
       /\ Len(fstack) > 1 => fstack' # <<>> /\ Last(fstack') = fstack[Len(fstack) - 1]
  <2>1. fstack \in Seq(FrontFrame)
    BY DEF Inv, TypeOK
  <2>2. QED
    BY <1>1, <1>10, <2>1, FrontOf
<1>13. Pointer' = Pointer /\ Content' = Content
  BY <1>10 DEF Pointer, Content
<1>14. /\ bstack' \in Seq(BackFrame)
       /\ bstack' = <<>> \/ (stage' = "backend" /\ bstack' = <<BackCall(0)>>)
  <2>1. bstack = <<>>
    BY <1>1 DEF Inv, StacksApart
  <2>2. PICK call \in BackFrame : call = BackCall(0)
    BY DEF BackCall, BackFrame
  <2>3. <<>> \in Seq(BackFrame) /\ <<call>> \in Seq(BackFrame)
    OBVIOUS
  <2>4. bstack' = <<>> \/ (stage' = "backend" /\ bstack' = <<call>>)
    BY <1>10, <2>1, <2>2
  <2>5. QED
    BY <2>2, <2>3, <2>4
<1>15. TypeOK'
  <2>1. stage' \in {"next", "frontend", "backend", "output", "done"}
    BY <1>1, <1>10
  <2>2. QED
    BY <1>10, <1>11, <1>12, <1>13, <1>14, <2>1 DEF Inv, TypeOK
<1>16. StacksApart'
  BY <1>1, <1>10, <1>12, <1>14, EmptySeq DEF StacksApart
<1>17. FrontStackOK'
  <2>1. ASSUME NEW f, FrontFrameOK(f) PROVE FrontFrameOK(f)'
    BY <1>10, <1>13, <2>1 DEF FrontFrameOK
  <2>2. ASSUME NEW i \in 1 .. Len(fstack')
        PROVE  FrontFrameOK(fstack[i]) /\ fstack[i].pc = "wait" /\ fstack'[i] = fstack[i]
    BY <1>2, <1>12, SMTT(30) DEF Inv, FrontStackOK
  <2>3. QED
    BY <2>1, <2>2 DEF FrontStackOK
<1>18. BackStackOK'
  <2>1. CASE bstack' = <<>>
    BY <2>1, EmptySeq DEF BackStackOK
  <2>2. CASE bstack' = <<BackCall(0)>>
    <3>1. Len(bstack') = 1 /\ bstack'[1] = BackCall(0)
      BY <2>2
    <3>2. Len(struct') \in Nat
      BY <1>10 DEF Inv, TypeOK
    <3>3. BackFrameOK(BackCall(0))'
      BY <3>2 DEF BackFrameOK, BackCall
    <3>4. QED
      BY <3>1, <3>3 DEF BackStackOK
  <2>3. QED
    BY <1>14, <2>1, <2>2
<1>19. CurrentOK'
  BY <1>3, <1>10 DEF CurrentOK, Pointer
<1>20. ModulesOK'
  <2>1. \A i \in 1 .. fileIndex' : modules'[i] # 0
    BY <1>1, <1>10, NoNullModule
  <2>2. QED
    BY <2>1 DEF ModulesOK
<1>21. QED
  BY <1>15, <1>16, <1>17, <1>18, <1>19, <1>20 DEF Inv

\* What the innermost backend() refers to once it visits the imports.
LEMMA VisitingOK ==
  ASSUME Inv, stage = "backend", bstack # <<>>, BTop.pc # "enter"
  PROVE  /\ BTop.own \in Pointer
         /\ content[BTop.own] \in Content
         /\ BTop.k <= Len(BackendImports) => NextImport \in Pointer
<1>1. BTop \in BackFrame /\ BackFrameOK(BTop)
  BY BTopOK
<1>2. BTop.own \in Pointer /\ BTop.k \in Nat \ {0}
  BY <1>1 DEF BackFrame, BackFrameOK
<1>3. content[BTop.own] \in Content
  <2>1. content \in Seq(Content) /\ Pointer = 1 .. Len(content)
    BY DEF Inv, TypeOK, Pointer
  <2>2. QED
    BY <1>2, <2>1, ElementOfSeq
<1>4. ASSUME BTop.k <= Len(BackendImports) PROVE NextImport \in Pointer
  <2>1. BackendImports \in Seq(Pointer)
    BY <1>3 DEF BackendImports, Content
  <2>2. BTop.k \in 1 .. Len(BackendImports)
    BY <1>2, <1>4, <2>1
  <2>3. QED
    BY <2>1, <2>2, ElementOfSeq DEF NextImport
<1>5. QED
  BY <1>2, <1>3, <1>4

\* The modules of the command line stay parsed.
LEMMA ModulesKept ==
  ASSUME Inv, stage = "backend", UNCHANGED <<modules, fileIndex>>
  PROVE  ModulesOK'
<1>1. \A i \in 1 .. fileIndex : modules[i] # 0
  BY DEF Inv, ModulesOK
<1>2. QED
  BY <1>1 DEF ModulesOK

\* A step of backend() that neither calls nor returns.
LEMMA BackendMovePreserves ==
  ASSUME Inv, stage = "backend", bstack # <<>>,
         NEW fr \in BackFrame, SetBack(fr), BackFrameOK(fr),
         UNCHANGED <<prog, fileIndex, stage, modules, table, fstack, outcome,
                     struct, content, emitted>>,
         current' \in Pointer, codegen' \subseteq Pointer, declared' \subseteq File
  PROVE  Inv'
<1>1. bstack \in Seq(BackFrame)
  BY DEF Inv, TypeOK
<1>2. /\ bstack' \in Seq(BackFrame) /\ Len(bstack') = Len(bstack)
      /\ bstack'[Len(bstack)] = fr
      /\ \A j \in 1 .. Len(bstack) : j # Len(bstack) => bstack'[j] = bstack[j]
  BY <1>1, SetLastOf DEF SetBack
<1>3. Pointer' = Pointer /\ Content' = Content
  BY DEF Pointer, Content
<1>4. TypeOK'
  <2>1. current' \in 0 .. Len(struct)
    BY DEF Inv, TypeOK, Pointer
  <2>2. QED
    BY <1>2, <1>3, <2>1 DEF Inv, TypeOK
<1>5. BackStackOK'
  <2>1. ASSUME NEW f PROVE BackFrameOK(f)' <=> BackFrameOK(f)
    BY <1>3 DEF BackFrameOK
  <2>2. QED
    BY <1>2, <2>1 DEF Inv, BackStackOK
<1>6. FrontStackOK'
  <2>1. fstack' = <<>>
    BY DEF Inv, StacksApart
  <2>2. QED
    BY <2>1, EmptySeq DEF FrontStackOK
<1>7. StacksApart' /\ CurrentOK'
  BY DEF Inv, StacksApart, CurrentOK, FrontAt, Pointer
<1>8. QED
  BY <1>4, <1>5, <1>6, <1>7, ModulesKept DEF Inv

\* backend() declares prototypes and copies the struct to the stack.
LEMMA BackendEnterPreserves ==
  ASSUME Inv, BackendEnter
  PROVE  Inv'
<1>1. stage = "backend" /\ bstack # <<>> /\ BTop.pc = "enter"
  BY DEF BackendEnter, BackAt
<1>2. BTop \in BackFrame /\ BackFrameOK(BTop)
  BY <1>1, BTopOK
<1>3. current \in Pointer
  BY <1>1 DEF Inv, TypeOK, CurrentOK, Pointer
<1>4. struct \in Seq(1 .. Len(content)) /\ content \in Seq(Content)
      /\ Len(content) = Len(struct)
  BY DEF Inv, TypeOK
<1>5. PICK c \in 1 .. Len(content) : c = struct[current]
  BY <1>3, <1>4, ElementOfSeq DEF Pointer
<1>6. PathOf(current) \in File
  <2>1. content[c] \in Content
    BY <1>4, ElementOfSeq
  <2>2. QED
    BY <1>5, <2>1 DEF PathOf, Content
<1>7. PICK frame : frame = [BTop EXCEPT !.pc = "loop", !.own = c]
  OBVIOUS
<1>8. frame \in BackFrame /\ BackFrameOK(frame)
  <2>1. PICK top \in BackFrame : top = BTop
    BY <1>2
  <2>2. frame = [top EXCEPT !.pc = "loop", !.own = c] /\ c \in Nat
    BY <1>4, <1>7, <2>1
  <2>3. /\ frame \in BackFrame /\ frame.pc = "loop" /\ frame.own = c
        /\ frame.k = top.k /\ frame.orig = top.orig
    BY <2>1, <2>2 DEF BackFrame
  <2>4. QED
    BY <1>2, <1>4, <2>1, <2>3 DEF BackFrameOK, Pointer
<1>9. /\ SetBack(frame)
      /\ declared' = declared \union {PathOf(current)}
      /\ UNCHANGED <<prog, fileIndex, stage, modules, table, fstack, outcome,
                     struct, content, emitted, current, codegen>>
  BY <1>5, <1>7 DEF BackendEnter, heapVars, frontVars
<1>10. declared' \subseteq File /\ codegen' \subseteq Pointer /\ current' \in Pointer
  BY <1>3, <1>6, <1>9 DEF Inv, TypeOK
<1>11. QED
  BY <1>1, <1>8, <1>9, <1>10, BackendMovePreserves

\* The frame of a backend() that goes on to the next import.
LEMMA NextFrameOK ==
  ASSUME Inv, bstack # <<>>, BTop.pc \in {"loop", "wait"}
  PROVE  \E fr \in BackFrame :
           /\ fr = [BTop EXCEPT !.pc = "loop", !.k = @ + 1]
           /\ fr.pc = "loop" /\ fr.own = BTop.own
           /\ BackFrameOK(fr)
<1>1. PICK top \in BackFrame : top = BTop /\ BackFrameOK(top)
  BY BTopOK
<1>2. PICK n \in Nat : n = top.k + 1 /\ n >= 1
  BY <1>1 DEF BackFrame
<1>3. PICK fr : fr = [top EXCEPT !.pc = "loop", !.k = n]
  OBVIOUS
<1>4. /\ fr \in BackFrame /\ fr.pc = "loop" /\ fr.own = top.own
      /\ fr.k = n /\ fr.orig = top.orig
  BY <1>1, <1>3 DEF BackFrame
<1>5. BackFrameOK(fr)
  BY <1>1, <1>2, <1>4 DEF BackFrameOK
<1>6. QED
  BY <1>1, <1>2, <1>3, <1>4, <1>5

\* backend() goes on to the next import: skipped, the original one, or returned.
LEMMA BackendNextPreserves ==
  ASSUME Inv, BackendSkip \/ BackendOriginal \/ BackendReturn
  PROVE  Inv'
<1>1. /\ stage = "backend" /\ bstack # <<>> /\ BTop.pc \in {"loop", "wait"}
      /\ BTop.k <= Len(BackendImports)
  <2>1. CASE BackendSkip \/ BackendOriginal
    BY <2>1 DEF BackendSkip, BackendOriginal, BackendPending, BackAt
  <2>2. CASE BackendReturn
    BY <2>2, BTopOK DEF BackendReturn, BackAt, BackFrameOK, BackendImports
  <2>3. QED
    BY <2>1, <2>2
<1>2. NextImport \in Pointer
  BY <1>1, VisitingOK
<1>3. PICK fr \in BackFrame : /\ fr = [BTop EXCEPT !.pc = "loop", !.k = @ + 1]
                             /\ BackFrameOK(fr)
  BY <1>1, NextFrameOK
<1>4. SetBack(fr)
  <2>1. CASE BackendSkip \/ BackendOriginal
    <3>1. SetBack([BTop EXCEPT !.k = @ + 1]) /\ BTop.pc = "loop"
      BY <2>1 DEF BackendSkip, BackendOriginal, BackendPending, BackAt
    <3>2. PICK top \in BackFrame : top = BTop
      BY <1>1, BTopOK
    <3>3. [top EXCEPT !.k = @ + 1] = [top EXCEPT !.pc = "loop", !.k = @ + 1]
      BY <3>1, <3>2 DEF BackFrame
    <3>4. QED
      BY <1>3, <3>1, <3>2, <3>3
  <2>2. CASE BackendReturn
    BY <1>3, <2>2 DEF BackendReturn
  <2>3. QED
    BY <2>1, <2>2
<1>5. UNCHANGED <<prog, fileIndex, stage, modules, table, fstack, outcome,
                  struct, content, emitted, declared>>
  BY DEF BackendSkip, BackendOriginal, BackendReturn, heapVars, frontVars
<1>6. current \in Pointer
  BY <1>1 DEF Inv, TypeOK, CurrentOK, Pointer
<1>7. current' \in Pointer /\ codegen' \subseteq Pointer /\ declared' \subseteq File
  BY <1>2, <1>5, <1>6 DEF Inv, TypeOK, BackendSkip, BackendOriginal, BackendReturn
<1>8. QED
  BY <1>1, <1>3, <1>4, <1>5, <1>7, BackendMovePreserves

\* backend() calls itself for an import.
LEMMA BackendCallPreserves ==
  ASSUME Inv, BackendCall
  PROVE  Inv'
<1>1. /\ stage = "backend" /\ bstack # <<>> /\ BTop.pc = "loop"
      /\ BTop.k <= Len(BackendImports)
  BY DEF BackendCall, BackendPending, BackAt
<1>2. BTop \in BackFrame /\ BackFrameOK(BTop)
  BY <1>1, BTopOK
<1>3. BTop.own \in Pointer /\ NextImport \in Pointer
  BY <1>1, VisitingOK
<1>4. PICK frame : frame = [BTop EXCEPT !.pc = "wait"]
  OBVIOUS
<1>5. PICK call : call = BackCall(IF BTop.orig = 0 THEN BTop.own ELSE BTop.orig)
  OBVIOUS
<1>6. /\ current' = NextImport
      /\ bstack' = Append(ReplaceAt(bstack, Len(bstack), frame), call)
      /\ UNCHANGED <<prog, fileIndex, stage, modules, table, fstack, outcome, struct,
                     content, codegen, declared, emitted>>
  BY <1>4, <1>5 DEF BackendCall, heapVars, frontVars
<1>7. frame \in BackFrame /\ BackFrameOK(frame) /\ frame.pc = "wait"
  <2>1. PICK top \in BackFrame : top = BTop
    BY <1>2
  <2>2. frame = [top EXCEPT !.pc = "wait"]
    BY <1>4, <2>1
  <2>3. /\ frame \in BackFrame /\ frame.pc = "wait" /\ frame.own = top.own
        /\ frame.k = top.k /\ frame.orig = top.orig
    BY <2>1, <2>2 DEF BackFrame
  <2>4. QED
    BY <1>1, <1>2, <2>1, <2>3 DEF BackFrameOK, BackendImports
<1>8. call \in BackFrame /\ BackFrameOK(call)
  <2>1. Len(struct) \in Nat
    BY DEF Inv, TypeOK
  <2>2. PICK orig \in 0 .. Len(struct) : orig = IF BTop.orig = 0 THEN BTop.own ELSE BTop.orig
    BY <1>2, <1>3, <2>1 DEF BackFrameOK, Pointer
  <2>3. QED
    BY <1>5, <2>1, <2>2 DEF BackCall, BackFrame, BackFrameOK
<1>9. PICK base : base = ReplaceAt(bstack, Len(bstack), frame)
  OBVIOUS
<1>10. /\ base \in Seq(BackFrame)
       /\ Len(base) = Len(bstack)
       /\ base[Len(bstack)] = frame
       /\ \A j \in 1 .. Len(bstack) : j # Len(bstack) => base[j] = bstack[j]
  <2>1. bstack \in Seq(BackFrame)
    BY DEF Inv, TypeOK
  <2>2. bstack # <<>> /\ frame \in BackFrame
    BY <1>1, <1>7
  <2>3. QED
    BY <1>9, <2>1, <2>2, BackLastSet, Zenon
<1>11. /\ bstack' \in Seq(BackFrame)
       /\ Len(bstack') = Len(base) + 1
       /\ \A j \in 1 .. Len(base) + 1 : bstack'[j] = IF j = Len(base) + 1 THEN call ELSE base[j]
  BY <1>6, <1>8, <1>9, <1>10, PushOn
<1>12. Pointer' = Pointer /\ Content' = Content
  BY <1>6 DEF Pointer, Content
<1>13. TypeOK'
  <2>1. current' \in 0 .. Len(struct)
    BY <1>3, <1>6 DEF Inv, TypeOK, Pointer
  <2>2. QED
    BY <1>6, <1>11, <1>12, <2>1 DEF Inv, TypeOK
<1>14. BackStackOK'
  <2>1. ASSUME NEW f PROVE BackFrameOK(f)' <=> BackFrameOK(f)
    BY <1>6, <1>12 DEF BackFrameOK
  <2>2. Len(bstack) \in Nat
    BY <1>1, BTopOK
  <2>3. ASSUME NEW i \in 1 .. Len(bstack')
        PROVE  BackFrameOK(bstack'[i]) /\ (i # Len(bstack') => bstack'[i].pc = "wait")
    <3>1. CASE i = Len(base) + 1
      BY <1>8, <1>11, <2>3, <3>1
    <3>2. CASE i # Len(base) + 1
      <4>1. i \in 1 .. Len(bstack)
        BY <1>10, <1>11, <2>2, <3>2
      <4>2. bstack'[i] = base[i]
        BY <1>11, <2>3, <3>2
      <4>3. CASE i = Len(bstack)
        BY <1>7, <1>10, <4>2, <4>3
      <4>4. CASE i # Len(bstack)
        BY <1>10, <4>1, <4>2, <4>4 DEF Inv, BackStackOK
      <4>5. QED
        BY <4>3, <4>4
    <3>3. QED
      BY <3>1, <3>2
  <2>4. QED
    BY <2>1, <2>3 DEF BackStackOK
<1>15. FrontStackOK'
  <2>1. fstack' = <<>>
    BY <1>1, <1>6 DEF Inv, StacksApart
  <2>2. QED
    BY <2>1, EmptySeq DEF FrontStackOK
<1>16. StacksApart' /\ CurrentOK'
  BY <1>1, <1>3, <1>6 DEF Inv, StacksApart, CurrentOK, FrontAt, Pointer
<1>17. QED
  BY <1>1, <1>6, <1>13, <1>14, <1>15, <1>16, ModulesKept DEF Inv

\* *context->current_module is overwritten with a struct that existed.
LEMMA CopyBackOK ==
  ASSUME Inv, ImportsDone, CopyBack
  PROVE  /\ struct' \in Seq(1 .. Len(content))
         /\ Len(struct') = Len(struct)
         /\ OwnPath \in File
         /\ current \in Pointer
<1>1. stage = "backend" /\ bstack # <<>> /\ BTop.pc # "enter"
  BY DEF ImportsDone, BackAt
<1>2. BTop.own \in Pointer /\ content[BTop.own] \in Content
  BY <1>1, VisitingOK
<1>3. /\ struct \in Seq(1 .. Len(content)) /\ Len(content) = Len(struct)
      /\ current \in Pointer
  BY <1>1 DEF Inv, TypeOK, CurrentOK, Pointer
<1>4. PICK own \in 1 .. Len(content) : own = BTop.own
  BY <1>2, <1>3 DEF Pointer
<1>5. /\ [struct EXCEPT ![current] = own] \in Seq(1 .. Len(content))
      /\ Len([struct EXCEPT ![current] = own]) = Len(struct)
  BY <1>3, ExceptSeq DEF Pointer
<1>6. QED
  BY <1>2, <1>3, <1>4, <1>5 DEF CopyBack, OwnPath, Content

\* backend() copies the saved struct back, generates code and returns.
LEMMA GenerateCodePreserves ==
  ASSUME Inv, GenerateCode
  PROVE  Inv'
<1>1. stage = "backend" /\ bstack # <<>> /\ BTop.pc = "loop"
  BY DEF GenerateCode, ImportsDone, BackAt
<1>2. Len(bstack) \in Nat \ {0}
  BY <1>1, BTopOK
<1>3. /\ struct' \in Seq(1 .. Len(content)) /\ Len(struct') = Len(struct)
      /\ OwnPath \in File /\ current \in Pointer
  BY CopyBackOK DEF GenerateCode
<1>4. /\ UNCHANGED <<prog, fileIndex, modules, current, content, table, fstack,
                     declared, outcome>>
      /\ emitted' = Append(emitted, OwnPath)
      /\ codegen' \subseteq codegen \union {current}
      /\ bstack' = Front(bstack)
      /\ stage' = IF Len(bstack) = 1 THEN "next" ELSE stage
  BY DEF GenerateCode, frontVars
<1>5. /\ bstack' \in Seq(BackFrame)
      /\ Len(bstack') = Len(bstack) - 1
      /\ \A j \in 1 .. Len(bstack) - 1 : bstack'[j] = bstack[j]
      /\ Len(bstack) = 1 => bstack' = <<>>
  <2>1. bstack \in Seq(BackFrame)
    BY DEF Inv, TypeOK
  <2>2. QED
    BY <1>1, <1>4, <2>1, FrontOf
<1>6. Pointer' = Pointer /\ Content' = Content
  BY <1>3 DEF Pointer, Content
<1>7. TypeOK'
  <2>1. emitted' \in Seq(File)
    BY <1>3, <1>4, PushOn DEF Inv, TypeOK
  <2>2. codegen' \subseteq Pointer
    BY <1>3, <1>4 DEF Inv, TypeOK
  <2>3. stage' \in {"next", "frontend", "backend", "output", "done"}
    BY <1>1, <1>4
  <2>4. QED
    BY <1>3, <1>4, <1>5, <1>6, <2>1, <2>2, <2>3 DEF Inv, TypeOK
<1>8. BackStackOK'
  <2>1. ASSUME NEW f, BackFrameOK(f) PROVE BackFrameOK(f)'
    BY <1>3, <1>4, <1>6, <2>1 DEF BackFrameOK
  <2>2. ASSUME NEW i \in 1 .. Len(bstack')
        PROVE  BackFrameOK(bstack[i]) /\ bstack[i].pc = "wait" /\ bstack'[i] = bstack[i]
    BY <1>2, <1>5 DEF Inv, BackStackOK
  <2>3. QED
    BY <2>1, <2>2 DEF BackStackOK
<1>9. fstack' = <<>>
  BY <1>1, <1>4 DEF Inv, StacksApart
<1>10. StacksApart' /\ FrontStackOK' /\ CurrentOK'
  BY <1>1, <1>3, <1>4, <1>5, <1>9, EmptySeq
     DEF StacksApart, FrontStackOK, CurrentOK, FrontAt, Pointer
<1>11. QED
  BY <1>1, <1>4, <1>7, <1>8, <1>10, ModulesKept DEF Inv

\* Code generation fails after the saved struct was copied back.
LEMMA GenerateFailsPreserves ==
  ASSUME Inv, RedefinitionFails \/ GenerateCodeFails
  PROVE  Inv'
<1>1. /\ ImportsDone /\ CopyBack
      /\ \E o \in {"ok", "error", "exit", "crash", "endless"} : Ends(o)
  BY DEF RedefinitionFails, GenerateCodeFails
<1>2. struct' \in Seq(1 .. Len(content)) /\ Len(struct') = Len(struct)
  BY <1>1, CopyBackOK
<1>3. QED
  BY <1>1, <1>2, EndsPreserves

-----------------------------------------------------------------------------
(* The theorems *)

\* The context that context_initialize() sets up satisfies the invariant.
LEMMA InitInv ==
  ASSUME Init
  PROVE  Inv
<1>1. prog \in Program
  BY DriverAssumptions DEF Init
<1>2. Len(prog.cmd) \in Nat
  BY <1>1 DEF Program
<1>3. Len(struct) = 0 /\ Len(content) = 0 /\ Pointer = {}
  BY EmptySeq DEF Init, Pointer
<1>4. TypeOK
  <2>1. modules \in [1 .. Len(prog.cmd) -> 0 .. Len(struct)]
    BY <1>3 DEF Init
  <2>2. QED
    BY <1>1, <1>2, <1>3, <2>1 DEF Init, TypeOK
<1>5. StacksApart /\ FrontStackOK /\ BackStackOK /\ CurrentOK /\ ModulesOK
  BY EmptySeq DEF Init, StacksApart, FrontStackOK, BackStackOK, CurrentOK, FrontAt, ModulesOK
<1>6. QED
  BY <1>4, <1>5 DEF Inv

\* Every step of the driver keeps the invariant.
LEMMA NextInv ==
  ASSUME Inv, [Next]_vars
  PROVE  Inv'
<1>1. CASE StartFile
  BY <1>1, StartFilePreserves
<1>2. CASE FilesDone
  BY <1>2, FilesDonePreserves
<1>3. CASE \/ GenerateOutput \/ ParseFails \/ ImportOverflow \/ TypesOverflow \/ FunctionsOverflow
           \/ TypeCheckFails \/ DeclareFails
  BY <1>3, EndingsPreserve
<1>4. CASE ParseFile
  BY <1>4, ParseFilePreserves
<1>5. CASE ImportRegistered \/ ImportOpen \/ ImportReturn
  BY <1>5, ImportPreserves
<1>6. CASE ImportFile
  BY <1>6, ImportFilePreserves
<1>7. CASE ParseEnd
  BY <1>7, ParseEndPreserves
<1>8. CASE TypeCheck
  BY <1>8, TypeCheckPreserves
<1>9. CASE BackendEnter
  BY <1>9, BackendEnterPreserves
<1>10. CASE BackendSkip \/ BackendOriginal \/ BackendReturn
  BY <1>10, BackendNextPreserves
<1>11. CASE BackendCall
  BY <1>11, BackendCallPreserves
<1>12. CASE GenerateCode
  BY <1>12, GenerateCodePreserves
<1>13. CASE RedefinitionFails \/ GenerateCodeFails
  BY <1>13, GenerateFailsPreserves
<1>14. CASE UNCHANGED vars
  BY <1>14 DEF Inv, TypeOK, StacksApart, FrontStackOK, FrontFrameOK, BackStackOK,
               BackFrameOK, CurrentOK, ModulesOK, FrontAt, FTop, Pointer, Content, vars
<1>15. QED
  BY <1>1, <1>2, <1>3, <1>4, <1>5, <1>6, <1>7, <1>8, <1>9, <1>10, <1>11, <1>12,
     <1>13, <1>14 DEF Next, Step, Frontend, Backend, Terminated

\* The invariant holds of every reachable state of the driver.
LEMMA Invariant == Spec => []Inv
<1>1. Init => Inv
  BY InitInv
<1>2. Inv /\ [Next]_vars => Inv'
  BY NextInv
<1>3. QED
  BY <1>1, <1>2, PTL DEF Spec

\* Every variable keeps its type, and every pointer that is not NULL points to
\* a t_module: no handler of main.c takes the last element of an empty stack
\* or reads the contents of a module that does not exist.
THEOREM TypeCorrect == Spec => []TypeOK
<1>1. Inv => TypeOK
  BY DEF Inv
<1>2. QED
  BY <1>1, Invariant, PTL

\* The search of "Try solving circular imports" (main.c:413) meets no NULL
\* module, whatever the files of the command line are.
THEOREM OpenModulesAlwaysExist == Spec => []OpenModulesExist
<1>1. Inv => OpenModulesExist
  BY NoNullModule DEF OpenModulesExist, ImportPending, FrontAt
<1>2. QED
  BY <1>1, Invariant, PTL

-----------------------------------------------------------------------------
(* What each action does, element by element *)

\* The contents of the modules are records; the imports are pointers.
LEMMA ContentOK ==
  ASSUME Inv
  PROVE  /\ content \in Seq(Content) /\ struct \in Seq(1 .. Len(content))
         /\ Len(content) = Len(struct) /\ Len(struct) \in Nat
         /\ \A m \in Pointer :
              /\ content[m] \in Content /\ content[m].path \in File
              /\ content[m].imports \in Seq(Pointer)
              /\ Len(content[m].imports) \in Nat
              /\ \A i \in 1 .. Len(content[m].imports) : content[m].imports[i] \in Pointer
              /\ struct[m] \in Pointer
<1>1. /\ content \in Seq(Content) /\ struct \in Seq(1 .. Len(content))
      /\ Len(content) = Len(struct) /\ Len(struct) \in Nat
  BY DEF Inv, TypeOK
<1>2. ASSUME NEW m \in Pointer PROVE content[m] \in Content
  BY <1>1, ElementOfSeq DEF Pointer
<1>3. ASSUME NEW m \in Pointer PROVE content[m].imports \in Seq(Pointer) /\ content[m].path \in File
  BY <1>2 DEF Content
<1>4. ASSUME NEW m \in Pointer, NEW i \in 1 .. Len(content[m].imports)
      PROVE  content[m].imports[i] \in Pointer
  BY <1>3, ElementOfSeq
<1>5. ASSUME NEW m \in Pointer PROVE struct[m] \in Pointer
  BY <1>1, ElementOfSeq DEF Pointer
<1>6. ASSUME NEW m \in Pointer PROVE Len(content[m].imports) \in Nat
  BY <1>3
<1>7. QED
  BY <1>1, <1>2, <1>3, <1>4, <1>5, <1>6

\* The command line and the modules of its files.
LEMMA CommandOK ==
  ASSUME Inv
  PROVE  /\ fileIndex \in Nat /\ Len(prog.cmd) \in Nat \ {0} /\ fileIndex <= Len(prog.cmd)
         /\ \A i \in 1 .. Len(prog.cmd) : prog.cmd[i] \in File
         /\ \A i \in 1 .. Len(prog.cmd) : modules[i] \in Pointer \union {0}
         /\ prog.imports \in [File -> Seq(File)]
<1>1. prog.cmd \in Seq(File) /\ prog.cmd # <<>> /\ prog.imports \in [File -> Seq(File)]
  BY DEF Inv, TypeOK, Program
<1>2. Len(prog.cmd) \in Nat \ {0}
  BY <1>1, EmptySeq
<1>3. \A i \in 1 .. Len(prog.cmd) : prog.cmd[i] \in File
  BY <1>1, ElementOfSeq
<1>4. \A i \in 1 .. Len(prog.cmd) : modules[i] \in Pointer \union {0}
  <2>1. modules \in [1 .. Len(prog.cmd) -> 0 .. Len(struct)] /\ Len(struct) \in Nat
    BY DEF Inv, TypeOK
  <2>2. QED
    BY <2>1 DEF Pointer
<1>5. QED
  BY <1>1, <1>2, <1>3, <1>4 DEF Inv, TypeOK

\* The innermost frame is replaced: what is then on the stack.
LEMMA TopReplaced ==
  ASSUME Inv, fstack # <<>>, NEW fr \in FrontFrame,
         fstack' = ReplaceAt(fstack, Len(fstack), fr)
  PROVE  /\ Len(fstack') = Len(fstack) /\ FTop' = fr /\ fstack'[Len(fstack)] = fr
         /\ \A j \in 1 .. Len(fstack) : j # Len(fstack) => fstack'[j] = fstack[j]
         /\ fstack' # <<>>
<1>1. fstack \in Seq(FrontFrame)
  BY DEF Inv, TypeOK
<1>2. /\ Len(fstack') = Len(fstack) /\ Last(fstack') = fr /\ fstack'[Len(fstack)] = fr
      /\ \A j \in 1 .. Len(fstack) : j # Len(fstack) => fstack'[j] = fstack[j]
      /\ fstack' # <<>>
  BY <1>1, FrontLastSet, Zenon
<1>3. QED
  BY <1>2 DEF FTop

\* The frames under the innermost one wait for it.
LEMMA CallersWait ==
  ASSUME Inv, NEW j \in 1 .. Len(fstack), j # Len(fstack)
  PROVE  fstack[j].pc = "wait" /\ fstack[j].module \in Pointer
BY DEF Inv, FrontStackOK, FrontFrameOK

\* The frames of frontend() have the types of their fields.
LEMMA FramesOK ==
  ASSUME Inv, NEW j \in 1 .. Len(fstack)
  PROVE  /\ fstack[j].file \in File /\ fstack[j].k \in Nat \ {0}
         /\ fstack[j].pc # "parse" => fstack[j].module \in Pointer
         /\ fstack[j].pc = "wait" => fstack[j].k <= Len(prog.imports[fstack[j].file])
<1>1. fstack[j] \in FrontFrame
  <2>1. fstack \in Seq(FrontFrame)
    BY DEF Inv, TypeOK
  <2>2. QED
    BY <2>1, ElementOfSeq
<1>2. FrontFrameOK(fstack[j])
  BY DEF Inv, FrontStackOK
<1>3. QED
  BY <1>1, <1>2 DEF FrontFrame, FrontFrameOK

\* main() enters a file: one frame that has not parsed anything.
LEMMA StartFileEffect ==
  ASSUME Inv, StartFile
  PROVE  /\ stage = "next" /\ stage' = "frontend"
         /\ fileIndex' = fileIndex + 1 /\ fileIndex' \in 1 .. Len(prog.cmd)
         /\ Len(fstack') = 1 /\ fstack' # <<>> /\ FTop' = fstack'[1]
         /\ fstack'[1].pc = "parse" /\ fstack'[1].module = 0 /\ fstack'[1].k = 1
         /\ fstack'[1].file = prog.cmd[fileIndex']
         /\ UNCHANGED <<prog, modules, current, struct, content, table, codegen, declared,
                        emitted, bstack, outcome>>
<1>1. fileIndex \in Nat /\ Len(prog.cmd) \in Nat
  BY CommandOK
<1>2. /\ Len(fstack') = 1 /\ fstack' # <<>> /\ FTop' = fstack'[1]
      /\ fstack'[1] = FrontCall(prog.cmd[fileIndex + 1])
  BY DEF StartFile, FTop, Last
<1>3. QED
  BY <1>1, <1>2 DEF StartFile, FrontCall, heapVars, backVars

\* PARSER_parse_file() adds a module.
LEMMA ParseFileEffect ==
  ASSUME Inv, ParseFile,
         stage = "frontend" => \A j \in 1 .. Len(fstack) : fstack[j].pc = "parse" => fstack[j].k = 1,
         NEW n, n = Len(fstack), NEW new, new = Len(struct) + 1
  PROVE  /\ stage = "frontend" /\ n \in Nat \ {0} /\ n \in 1 .. n /\ FTop = fstack[n] /\ FTop.pc = "parse"
         /\ new \in Nat \ {0} /\ Pointer' = Pointer \union {new} /\ new \notin Pointer
         /\ \A p \in Pointer : struct'[p] = struct[p] /\ content'[p] = content[p]
         /\ struct'[new] = new
         /\ content'[new].path = FTop.file /\ Len(content'[new].imports) = 0
         /\ Len(fstack') = n /\ FTop' = fstack'[n] /\ fstack' # <<>>
         /\ fstack'[n].pc = "import" /\ fstack'[n].module = new
         /\ fstack'[n].k = 1 /\ fstack'[n].file = FTop.file
         /\ \A j \in 1 .. n : j # n => fstack'[j] = fstack[j]
         /\ modules' = IF modules[fileIndex] = 0
                       THEN [modules EXCEPT ![fileIndex] = new] ELSE modules
         /\ UNCHANGED <<prog, fileIndex, stage, current, table, codegen, declared, emitted,
                        bstack, outcome>>
<1> DEFINE rec == [path |-> FTop.file, imports |-> <<>>, sees |-> {}]
<1>4. Len(struct) \in Nat /\ Len(content) = Len(struct) /\ struct \in Seq(1 .. Len(content))
      /\ content \in Seq(Content)
  BY ContentOK
<1>0. new = Len(struct) + 1 /\ new \in Nat \ {0}
  BY <1>4
<1>2. PICK frame : frame = [FTop EXCEPT !.pc = "import", !.module = new]
  OBVIOUS
<1>1. /\ stage = "frontend" /\ fstack # <<>> /\ FTop.pc = "parse"
      /\ struct' = Append(struct, new)
      /\ content' = Append(content, rec)
      /\ fstack' = ReplaceAt(fstack, Len(fstack), frame)
      /\ modules' = IF modules[fileIndex] = 0
                    THEN [modules EXCEPT ![fileIndex] = new] ELSE modules
      /\ UNCHANGED <<prog, fileIndex, stage, current, table, codegen, declared, emitted,
                     bstack, outcome>>
  BY <1>0, <1>2 DEF ParseFile, FrontAt, SetFront, backVars
<1>3. n = Len(fstack) /\ n \in Nat \ {0} /\ n \in 1 .. n /\ FTop = fstack[n]
  BY <1>1, FTopOK
<1>5. /\ frame \in FrontFrame /\ frame.pc = "import" /\ frame.module = new
      /\ frame.k = FTop.k /\ frame.file = FTop.file
  <2>1. PICK top \in FrontFrame : top = FTop
    BY <1>1, FTopOK
  <2>2. frame = [top EXCEPT !.pc = "import", !.module = new]
    BY <1>2, <2>1
  <2>3. /\ frame \in FrontFrame /\ frame.pc = "import" /\ frame.module = new
        /\ frame.k = top.k /\ frame.file = top.file
    BY <1>0, <2>2 DEF FrontFrame
  <2>4. QED
    BY <2>1, <2>3
<1>6. /\ Len(fstack') = n /\ FTop' = frame /\ fstack'[n] = frame /\ fstack' # <<>>
      /\ \A j \in 1 .. n : j # n => fstack'[j] = fstack[j]
  BY <1>1, <1>3, <1>5, TopReplaced
<1>7. /\ Len(struct') = new
      /\ \A j \in 1 .. new : struct'[j] = IF j = new THEN new ELSE struct[j]
  BY <1>0, <1>1, <1>4
<1>8. \A j \in 1 .. new : content'[j] = IF j = new THEN rec ELSE content[j]
  BY <1>0, <1>1, <1>4
<1>9. Pointer' = Pointer \union {new} /\ new \notin Pointer
  BY <1>0, <1>4, <1>7 DEF Pointer
<1>10. /\ \A p \in Pointer : content'[p] = content[p] /\ struct'[p] = struct[p]
       /\ content'[new] = rec /\ struct'[new] = new
  <2>1. new \in 1 .. new
    OBVIOUS
  <2>2. \A p \in Pointer : p \in 1 .. new /\ p # new
    BY <1>0, <1>4 DEF Pointer
  <2> HIDE DEF rec
  <2>3. QED
    BY <1>7, <1>8, <2>1, <2>2
<1>11. rec.path = FTop.file /\ Len(rec.imports) = 0
  OBVIOUS
<1>12. FTop.k = 1
  BY <1>1, <1>3
<1> HIDE DEF rec
<1>13. content'[new].path = FTop.file /\ Len(content'[new].imports) = 0
  BY <1>10, <1>11
<1>14. QED
  BY <1>0, <1>1, <1>3, <1>5, <1>6, <1>9, <1>10, <1>12, <1>13

\* One turn of the import loop: a module joins the imports of the innermost one.
LEMMA BindEffect ==
  ASSUME Inv, stage = "frontend", fstack # <<>>, FTop.pc \in {"import", "wait"},
         FTop.k <= Len(prog.imports[FTop.file]), struct[FTop.module] = FTop.module,
         NEW m \in Pointer, Bind(m),
         NEW n, n = Len(fstack), NEW c, c = FTop.module,
         NEW l, l = Len(content[c].imports)
  PROVE  /\ n \in Nat \ {0} /\ n \in 1 .. n /\ FTop = fstack[n]
         /\ c \in Pointer /\ l \in Nat /\ Pointer' = Pointer /\ Requested \in File
         /\ \A p \in Pointer : content'[p].path = content[p].path
         /\ \A p \in Pointer : p # c => content'[p] = content[p]
         /\ Len(content'[c].imports) = l + 1 /\ content'[c].imports[l + 1] = m
         /\ \A i \in 1 .. l : content'[c].imports[i] = content[c].imports[i]
         /\ current' = m
         /\ table' = IF Registered(FTop.file) = {}
                     THEN table \union {[path |-> Requested, module |-> m]} ELSE table
         /\ Len(fstack') = n /\ FTop' = fstack'[n] /\ fstack' # <<>>
         /\ fstack'[n].pc = "import" /\ fstack'[n].module = c
         /\ fstack'[n].k = FTop.k + 1 /\ fstack'[n].file = FTop.file
         /\ \A j \in 1 .. n : j # n => fstack'[j] = fstack[j]
         /\ UNCHANGED <<prog, fileIndex, stage, modules, struct, codegen, declared, emitted,
                        bstack, outcome>>
<1>1. FTop \in FrontFrame /\ FTop = fstack[n] /\ n \in 1 .. n /\ n \in Nat \ {0}
  BY FTopOK
<1>2. c \in Pointer /\ struct[FTop.module] = c /\ Requested \in File
  BY ImportingOK
<1>3. PICK old \in Content : old = content[c]
  BY <1>2, ContentOK
<1>4. PICK item : item = [old EXCEPT !.imports = Append(old.imports, m)]
  OBVIOUS
<1>5. PICK frame : frame = [FTop EXCEPT !.pc = "import", !.k = FTop.k + 1]
  OBVIOUS
<1>6. /\ content' = [content EXCEPT ![c] = item]
      /\ current' = m
      /\ table' = IF Registered(FTop.file) = {}
                  THEN table \union {[path |-> Requested, module |-> m]} ELSE table
      /\ fstack' = ReplaceAt(fstack, Len(fstack), frame)
      /\ UNCHANGED <<prog, fileIndex, stage, modules, struct, codegen, declared, emitted,
                     bstack, outcome>>
  BY <1>2, <1>3, <1>4, <1>5 DEF Bind, SetFront, backVars
<1>7. /\ frame \in FrontFrame /\ frame.pc = "import" /\ frame.module = c
      /\ frame.k = FTop.k + 1 /\ frame.file = FTop.file
  <2>1. PICK top \in FrontFrame : top = FTop
    BY <1>1
  <2>2. PICK k \in Nat : k = top.k + 1
    BY DEF FrontFrame
  <2>3. frame = [top EXCEPT !.pc = "import", !.k = k]
    BY <1>5, <2>1, <2>2
  <2>4. /\ frame \in FrontFrame /\ frame.pc = "import" /\ frame.module = top.module
        /\ frame.k = k /\ frame.file = top.file
    BY <2>1, <2>3 DEF FrontFrame
  <2>5. QED
    BY <2>1, <2>2, <2>4
<1>8. /\ Len(fstack') = n /\ FTop' = fstack'[n] /\ fstack'[n] = frame /\ fstack' # <<>>
      /\ \A j \in 1 .. n : j # n => fstack'[j] = fstack[j]
  BY <1>6, <1>7, TopReplaced
<1>9. old.imports \in Seq(Pointer) /\ l = Len(old.imports) /\ l \in Nat
  BY <1>3 DEF Content
<1>10. /\ item.path = old.path /\ Len(item.imports) = l + 1
       /\ \A i \in 1 .. l + 1 : item.imports[i] = IF i = l + 1 THEN m ELSE old.imports[i]
  <2>1. PICK list : list = Append(old.imports, m)
    OBVIOUS
  <2>2. Len(list) = l + 1
        /\ \A i \in 1 .. l + 1 : list[i] = IF i = l + 1 THEN m ELSE old.imports[i]
    BY <1>9, <2>1, PushOn
  <2>3. item.path = old.path /\ item.imports = list
    BY <1>3, <1>4, <2>1 DEF Content
  <2>4. QED
    BY <2>2, <2>3
<1>11. /\ content'[c] = item
       /\ \A p \in Pointer : p # c => content'[p] = content[p]
       /\ \A p \in Pointer : content'[p].path = content[p].path
  <2>1. Pointer = 1 .. Len(content)
    BY ContentOK DEF Pointer
  <2>2. /\ content'[c] = item
        /\ \A p \in Pointer : p # c => content'[p] = content[p]
    BY <1>2, <1>6, <2>1, ContentOK
  <2>3. QED
    BY <1>3, <1>10, <2>2
<1>12. Pointer' = Pointer
  BY <1>6 DEF Pointer
<1>13. /\ Len(content'[c].imports) = l + 1 /\ content'[c].imports[l + 1] = m
       /\ \A i \in 1 .. l : content'[c].imports[i] = content[c].imports[i]
  <2>1. l + 1 \in 1 .. l + 1 /\ \A i \in 1 .. l : i \in 1 .. l + 1 /\ i # l + 1
    BY <1>9
  <2>2. /\ Len(item.imports) = l + 1 /\ item.imports[l + 1] = m
        /\ \A i \in 1 .. l : item.imports[i] = old.imports[i]
    BY <1>10, <2>1
  <2>3. QED
    BY <1>3, <1>11, <2>2
<1>14. QED
  BY <1>1, <1>2, <1>6, <1>7, <1>8, <1>9, <1>11, <1>12, <1>13

\* Which module a turn of the import loop binds.
LEMMA ImportCases ==
  ASSUME Inv, ImportRegistered \/ ImportOpen \/ ImportReturn
  PROVE  /\ stage = "frontend" /\ fstack # <<>> /\ FTop.pc \in {"import", "wait"}
         /\ FTop.k <= Len(prog.imports[FTop.file]) /\ Requested \in File
         /\ \E m \in Pointer :
              /\ Bind(m)
              /\ \/ FTop.pc = "import" /\ m \in Registered(Requested)
                 \/ /\ FTop.pc = "import" /\ Registered(Requested) = {}
                    /\ \E i \in 1 .. fileIndex : m = modules[i] /\ PathOf(m) = Requested
                 \/ FTop.pc = "wait" /\ m = current
<1>1. CASE ImportRegistered
  <2>1. stage = "frontend" /\ fstack # <<>> /\ FTop.pc = "import"
        /\ FTop.k <= Len(prog.imports[FTop.file])
    BY <1>1 DEF ImportRegistered, ImportPending, FrontAt
  <2>2. PICK m \in Registered(Requested) : Bind(m)
    BY <1>1 DEF ImportRegistered
  <2>3. m \in Pointer
    BY DEF Registered, Inv, TypeOK
  <2>4. QED
    BY <2>1, <2>2, <2>3, ImportingOK
<1>2. CASE ImportOpen
  <2>1. stage = "frontend" /\ fstack # <<>> /\ FTop.pc = "import"
        /\ FTop.k <= Len(prog.imports[FTop.file]) /\ Registered(Requested) = {}
    BY <1>2 DEF ImportOpen, ImportPending, FrontAt
  <2>2. PICK i \in OpenFiles(Requested) : Bind(modules[i])
    BY <1>2 DEF ImportOpen
  <2>3. i \in 1 .. fileIndex /\ PathOf(modules[i]) = Requested
    BY DEF OpenFiles
  <2>4. modules[i] # 0
    BY <2>1, <2>3, NoNullModule
  <2>5. modules[i] \in Pointer
    <3>1. i \in 1 .. Len(prog.cmd)
      BY <2>3, CommandOK
    <3>2. QED
      BY <2>4, <3>1, CommandOK
  <2>6. QED
    BY <2>1, <2>2, <2>3, <2>5, ImportingOK
<1>3. CASE ImportReturn
  <2>1. stage = "frontend" /\ fstack # <<>> /\ FTop.pc = "wait" /\ Bind(current)
    BY <1>3 DEF ImportReturn, FrontAt
  <2>2. FTop.k <= Len(prog.imports[FTop.file])
    BY <2>1, FTopOK DEF FrontFrameOK
  <2>3. current \in Pointer
    BY <2>1 DEF Inv, TypeOK, CurrentOK, FrontAt, Pointer
  <2>4. QED
    BY <2>1, <2>2, <2>3, ImportingOK
<1>4. QED
  BY <1>1, <1>2, <1>3

\* parse() calls frontend() for the file it asks for.
LEMMA ImportFileEffect ==
  ASSUME Inv, ImportFile, NEW n, n = Len(fstack)
  PROVE  /\ stage = "frontend" /\ n \in Nat \ {0} /\ n \in 1 .. n /\ FTop = fstack[n]
         /\ FTop.pc = "import" /\ FTop.k <= Len(prog.imports[FTop.file])
         /\ Requested \in File /\ Registered(Requested) = {} /\ OpenFiles(Requested) = {}
         /\ n < MaxDepth /\ n + 1 \in Nat /\ n + 1 # n
         /\ current' = 0
         /\ Len(fstack') = n + 1 /\ FTop' = fstack'[n + 1] /\ fstack' # <<>>
         /\ fstack'[n + 1].pc = "parse" /\ fstack'[n + 1].module = 0
         /\ fstack'[n + 1].k = 1 /\ fstack'[n + 1].file = Requested
         /\ fstack'[n].pc = "wait" /\ fstack'[n].module = FTop.module
         /\ fstack'[n].k = FTop.k /\ fstack'[n].file = FTop.file
         /\ \A j \in 1 .. n : j # n => fstack'[j] = fstack[j]
         /\ UNCHANGED <<prog, fileIndex, stage, modules, struct, content, table, codegen,
                        declared, emitted, bstack, outcome>>
<1>1. /\ stage = "frontend" /\ fstack # <<>> /\ FTop.pc = "import"
      /\ FTop.k <= Len(prog.imports[FTop.file]) /\ n < MaxDepth
      /\ Registered(Requested) = {} /\ OpenFiles(Requested) = {}
  BY DEF ImportFile, NeedsFrontend, ImportPending, FrontAt
<1>2. /\ FTop \in FrontFrame /\ FTop = fstack[n] /\ n \in 1 .. n /\ n \in Nat \ {0}
  BY <1>1, FTopOK
<1>3. Requested \in File
  BY <1>1, ImportingOK
<1>4. PICK frame : frame = [FTop EXCEPT !.pc = "wait"]
  OBVIOUS
<1>5. PICK call : call = FrontCall(Requested)
  OBVIOUS
<1>6. PICK base : base = ReplaceAt(fstack, Len(fstack), frame)
  OBVIOUS
<1>7. /\ current' = 0 /\ fstack' = Append(base, call)
      /\ UNCHANGED <<prog, fileIndex, stage, modules, struct, content, table, codegen,
                     declared, emitted, bstack, outcome>>
  BY <1>4, <1>5, <1>6 DEF ImportFile, heapVars, backVars
<1>8. /\ frame \in FrontFrame /\ frame.pc = "wait" /\ frame.module = FTop.module
      /\ frame.k = FTop.k /\ frame.file = FTop.file
  <2>1. PICK top \in FrontFrame : top = FTop
    BY <1>2
  <2>2. frame = [top EXCEPT !.pc = "wait"]
    BY <1>4, <2>1
  <2>3. /\ frame \in FrontFrame /\ frame.pc = "wait" /\ frame.module = top.module
        /\ frame.k = top.k /\ frame.file = top.file
    BY <2>1, <2>2 DEF FrontFrame
  <2>4. QED
    BY <2>1, <2>3
<1>9. /\ call \in FrontFrame /\ call.pc = "parse" /\ call.module = 0 /\ call.k = 1
      /\ call.file = Requested
  BY <1>3, <1>5 DEF FrontCall, FrontFrame
<1>10. /\ base \in Seq(FrontFrame) /\ Len(base) = n /\ base[n] = frame
       /\ \A j \in 1 .. n : j # n => base[j] = fstack[j]
  <2>1. fstack \in Seq(FrontFrame)
    BY DEF Inv, TypeOK
  <2>2. fstack # <<>> /\ frame \in FrontFrame
    BY <1>1, <1>8
  <2>3. QED
    BY <1>6, <2>1, <2>2, FrontLastSet, Zenon
<1>11. /\ Len(fstack') = n + 1 /\ fstack' # <<>> /\ Last(fstack') = call
       /\ \A j \in 1 .. n + 1 : fstack'[j] = IF j = n + 1 THEN call ELSE base[j]
  BY <1>7, <1>9, <1>10, PushOn
<1>12. /\ fstack'[n + 1] = call /\ fstack'[n] = frame
       /\ \A j \in 1 .. n : j # n => fstack'[j] = fstack[j]
  BY <1>2, <1>10, <1>11
<1>13. FTop' = fstack'[n + 1]
  BY <1>11, <1>12 DEF FTop
<1>14. n + 1 \in Nat /\ n + 1 # n
  BY <1>2
<1>15. QED
  BY <1>1, <1>2, <1>3, <1>7, <1>8, <1>9, <1>11, <1>12, <1>13, <1>14

\* The import loop is left with the module of this frontend() as the current one.
LEMMA ParseEndEffect ==
  ASSUME Inv, ParseEnd, NEW n, n = Len(fstack)
  PROVE  /\ stage = "frontend" /\ n \in Nat \ {0} /\ n \in 1 .. n /\ FTop = fstack[n]
         /\ FTop.pc = "import" /\ FTop.k > Len(prog.imports[FTop.file])
         /\ current' = FTop.module
         /\ Len(fstack') = n /\ FTop' = fstack'[n] /\ fstack' # <<>>
         /\ fstack'[n].pc = "check" /\ fstack'[n].module = FTop.module
         /\ fstack'[n].k = FTop.k /\ fstack'[n].file = FTop.file
         /\ \A j \in 1 .. n : j # n => fstack'[j] = fstack[j]
         /\ UNCHANGED <<prog, fileIndex, stage, modules, struct, content, table, codegen,
                        declared, emitted, bstack, outcome>>
<1>1. stage = "frontend" /\ fstack # <<>> /\ FTop.pc = "import"
      /\ FTop.k > Len(prog.imports[FTop.file])
  BY DEF ParseEnd, FrontAt
<1>2. /\ FTop \in FrontFrame /\ FTop = fstack[n] /\ n \in 1 .. n /\ n \in Nat \ {0}
  BY <1>1, FTopOK
<1>3. PICK frame : frame = [FTop EXCEPT !.pc = "check"]
  OBVIOUS
<1>4. /\ current' = FTop.module /\ fstack' = ReplaceAt(fstack, Len(fstack), frame)
      /\ UNCHANGED <<prog, fileIndex, stage, modules, struct, content, table, codegen,
                     declared, emitted, bstack, outcome>>
  BY <1>3 DEF ParseEnd, SetFront, heapVars, backVars
<1>5. /\ frame \in FrontFrame /\ frame.pc = "check" /\ frame.module = FTop.module
      /\ frame.k = FTop.k /\ frame.file = FTop.file
  <2>1. PICK top \in FrontFrame : top = FTop
    BY <1>2
  <2>2. frame = [top EXCEPT !.pc = "check"]
    BY <1>3, <2>1
  <2>3. /\ frame \in FrontFrame /\ frame.pc = "check" /\ frame.module = top.module
        /\ frame.k = top.k /\ frame.file = top.file
    BY <2>1, <2>2 DEF FrontFrame
  <2>4. QED
    BY <2>1, <2>3
<1>6. /\ Len(fstack') = n /\ FTop' = fstack'[n] /\ fstack'[n] = frame /\ fstack' # <<>>
      /\ \A j \in 1 .. n : j # n => fstack'[j] = fstack[j]
  BY <1>1, <1>4, <1>5, TopReplaced
<1>7. QED
  BY <1>1, <1>2, <1>4, <1>5, <1>6

\* frontend() returns: to parse(), or to do_file(), which calls backend().
LEMMA TypeCheckEffect ==
  ASSUME Inv, TypeCheck, NEW n, n = Len(fstack)
  PROVE  /\ stage = "frontend" /\ n \in Nat \ {0} /\ n \in 1 .. n /\ FTop = fstack[n]
         /\ FTop.pc = "check" /\ current \in Pointer
         /\ \A p \in Pointer : /\ content'[p].path = content[p].path
                               /\ content'[p].imports = content[p].imports
         /\ Pointer' = Pointer
         /\ n = 1 => /\ stage' = "backend" /\ fstack' = <<>>
                     /\ Len(bstack') = 1 /\ bstack' # <<>> /\ BTop' = bstack'[1]
                     /\ bstack'[1].pc = "enter" /\ bstack'[1].own = 0
                     /\ bstack'[1].orig = 0 /\ bstack'[1].k = 1
         /\ n # 1 => /\ n - 1 \in Nat \ {0} /\ n - 1 \in 1 .. n /\ n - 1 # n
                     /\ n = n - 1 + 1
                     /\ Len(fstack') = n - 1 /\ fstack' # <<>>
                     /\ FTop' = fstack'[n - 1] /\ fstack'[n - 1].pc = "wait"
                     /\ \A j \in 1 .. n - 1 : /\ fstack'[j] = fstack[j]
                                              /\ j \in 1 .. n /\ j # n
                     /\ UNCHANGED <<stage, bstack>>
         /\ UNCHANGED <<prog, fileIndex, modules, current, struct, table, codegen,
                        declared, emitted, outcome>>
<1>1. stage = "frontend" /\ fstack # <<>> /\ FTop.pc = "check"
  BY DEF TypeCheck, FrontAt
<1>2. /\ FTop \in FrontFrame /\ FTop = fstack[n] /\ n \in 1 .. n /\ n \in Nat \ {0}
  BY <1>1, FTopOK
<1>3. current \in Pointer
  BY <1>1 DEF Inv, TypeOK, CurrentOK, FrontAt, Pointer
<1>4. PICK c \in Pointer : c = struct[current]
  BY <1>3, ContentOK
<1>5. PICK old \in Content : old = content[c]
  BY <1>4, ContentOK
<1>6. PICK visible : visible = Visible(current)
  OBVIOUS
<1>7. PICK item : item = [old EXCEPT !.sees = visible]
  OBVIOUS
<1>8. /\ content' = [content EXCEPT ![c] = item]
      /\ fstack' = Front(fstack)
      /\ n = 1 => stage' = "backend" /\ bstack' = <<BackCall(0)>>
      /\ n # 1 => UNCHANGED <<stage, bstack>>
      /\ UNCHANGED <<prog, fileIndex, modules, current, struct, table, codegen,
                     declared, emitted, outcome>>
  BY <1>4, <1>5, <1>6, <1>7 DEF TypeCheck
<1>9. \A p \in Pointer : /\ content'[p].path = content[p].path
                         /\ content'[p].imports = content[p].imports
  <2>1. Pointer = 1 .. Len(content)
    BY ContentOK DEF Pointer
  <2>2. content'[c] = item /\ \A p \in Pointer : p # c => content'[p] = content[p]
    BY <1>4, <1>8, <2>1, ContentOK
  <2>3. item.path = old.path /\ item.imports = old.imports
    BY <1>5, <1>7 DEF Content
  <2>4. QED
    BY <1>5, <2>2, <2>3
<1>10. Pointer' = Pointer
  BY <1>8 DEF Pointer
<1>11. fstack \in Seq(FrontFrame)
  BY DEF Inv, TypeOK
<1>12. ASSUME n = 1
       PROVE  /\ fstack' = <<>>
              /\ Len(bstack') = 1 /\ bstack' # <<>> /\ BTop' = bstack'[1]
              /\ bstack'[1].pc = "enter" /\ bstack'[1].own = 0
              /\ bstack'[1].orig = 0 /\ bstack'[1].k = 1
  <2>1. fstack' = <<>>
    BY <1>1, <1>8, <1>11, <1>12, FrontOf
  <2>2. PICK call : call = BackCall(0)
    OBVIOUS
  <2>3. bstack' = <<call>>
    BY <1>8, <1>12, <2>2
  <2>4. Len(bstack') = 1 /\ bstack' # <<>> /\ BTop' = bstack'[1] /\ bstack'[1] = call
    BY <2>3 DEF BTop, Last
  <2>5. QED
    BY <2>1, <2>2, <2>4 DEF BackCall
<1>13. ASSUME n # 1
       PROVE  /\ n - 1 \in Nat \ {0} /\ n - 1 \in 1 .. n /\ n - 1 # n
              /\ n = n - 1 + 1
              /\ Len(fstack') = n - 1 /\ fstack' # <<>>
              /\ FTop' = fstack'[n - 1] /\ fstack'[n - 1].pc = "wait"
              /\ \A j \in 1 .. n - 1 : /\ fstack'[j] = fstack[j]
                                       /\ j \in 1 .. n /\ j # n
  <2>1. /\ n - 1 \in Nat \ {0} /\ n - 1 \in 1 .. n /\ n - 1 # n /\ n > 1
        /\ n = n - 1 + 1 /\ n - 1 \in 1 .. n - 1
        /\ \A j \in 1 .. n - 1 : j \in 1 .. n /\ j # n
    BY <1>2, <1>13
  <2>2. /\ Len(fstack') = n - 1 /\ fstack' # <<>> /\ Last(fstack') = fstack[n - 1]
        /\ \A j \in 1 .. n - 1 : fstack'[j] = fstack[j]
    BY <1>1, <1>8, <1>11, <2>1, FrontOf
  <2>3. FTop' = fstack'[n - 1]
    BY <2>1, <2>2 DEF FTop
  <2>4. fstack'[n - 1].pc = "wait"
    BY <2>1, <2>2, CallersWait
  <2>5. QED
    BY <2>1, <2>2, <2>3, <2>4
<1>14. QED
  BY <1>1, <1>2, <1>3, <1>8, <1>9, <1>10, <1>12, <1>13

\* The frames of backend() have the types of their fields.
LEMMA BackFramesOK ==
  ASSUME Inv, NEW j \in 1 .. Len(bstack)
  PROVE  /\ bstack[j].k \in Nat \ {0} /\ bstack[j].pc \in {"enter", "loop", "wait"}
         /\ bstack[j].pc # "enter" => bstack[j].own \in Pointer
         /\ bstack[j].pc = "wait" => bstack[j].k <= Len(content[bstack[j].own].imports)
         /\ j # Len(bstack) => bstack[j].pc = "wait"
<1>1. bstack[j] \in BackFrame
  <2>1. bstack \in Seq(BackFrame)
    BY DEF Inv, TypeOK
  <2>2. QED
    BY <2>1, ElementOfSeq
<1>2. BackFrameOK(bstack[j]) /\ (j # Len(bstack) => bstack[j].pc = "wait")
  BY DEF Inv, BackStackOK
<1>3. QED
  BY <1>1, <1>2 DEF BackFrame, BackFrameOK

\* The innermost frame of backend() is replaced: what is then on the stack.
LEMMA BackTopReplaced ==
  ASSUME Inv, bstack # <<>>, NEW fr \in BackFrame,
         bstack' = ReplaceAt(bstack, Len(bstack), fr)
  PROVE  /\ Len(bstack') = Len(bstack) /\ BTop' = fr /\ bstack'[Len(bstack)] = fr
         /\ \A j \in 1 .. Len(bstack) : j # Len(bstack) => bstack'[j] = bstack[j]
         /\ bstack' # <<>>
<1>1. bstack \in Seq(BackFrame)
  BY DEF Inv, TypeOK
<1>2. /\ Len(bstack') = Len(bstack) /\ Last(bstack') = fr /\ bstack'[Len(bstack)] = fr
      /\ \A j \in 1 .. Len(bstack) : j # Len(bstack) => bstack'[j] = bstack[j]
      /\ bstack' # <<>>
  BY <1>1, BackLastSet, Zenon
<1>3. QED
  BY <1>2 DEF BTop

\* backend() declares prototypes and copies the struct to the stack.
LEMMA BackendEnterEffect ==
  ASSUME Inv, BackendEnter, NEW n, n = Len(bstack)
  PROVE  /\ stage = "backend" /\ n \in Nat \ {0} /\ n \in 1 .. n /\ BTop = bstack[n]
         /\ BTop.pc = "enter" /\ current \in Pointer /\ struct[current] \in Pointer
         /\ declared' = declared \union {PathOf(current)}
         /\ Len(bstack') = n /\ BTop' = bstack'[n] /\ bstack' # <<>>
         /\ bstack'[n].pc = "loop" /\ bstack'[n].own = struct[current]
         /\ bstack'[n].orig = BTop.orig /\ bstack'[n].k = BTop.k
         /\ \A j \in 1 .. n : j # n => bstack'[j] = bstack[j]
         /\ UNCHANGED <<prog, fileIndex, stage, modules, current, struct, content, table,
                        codegen, emitted, fstack, outcome>>
<1>1. stage = "backend" /\ bstack # <<>> /\ BTop.pc = "enter"
  BY DEF BackendEnter, BackAt
<1>2. BTop \in BackFrame /\ BTop = bstack[n] /\ n \in 1 .. n /\ n \in Nat \ {0}
  BY <1>1, BTopOK
<1>3. current \in Pointer
  BY <1>1 DEF Inv, TypeOK, CurrentOK, Pointer
<1>4. PICK c \in Pointer : c = struct[current]
  BY <1>3, ContentOK
<1>5. PICK frame : frame = [BTop EXCEPT !.pc = "loop", !.own = c]
  OBVIOUS
<1>6. /\ bstack' = ReplaceAt(bstack, Len(bstack), frame)
      /\ declared' = declared \union {PathOf(current)}
      /\ UNCHANGED <<prog, fileIndex, stage, modules, current, struct, content, table,
                     codegen, emitted, fstack, outcome>>
  BY <1>4, <1>5 DEF BackendEnter, SetBack, heapVars, frontVars
<1>7. /\ frame \in BackFrame /\ frame.pc = "loop" /\ frame.own = c
      /\ frame.k = BTop.k /\ frame.orig = BTop.orig
  <2>1. PICK top \in BackFrame : top = BTop
    BY <1>2
  <2>2. frame = [top EXCEPT !.pc = "loop", !.own = c] /\ c \in Nat
    BY <1>5, <2>1, ContentOK DEF Pointer
  <2>3. /\ frame \in BackFrame /\ frame.pc = "loop" /\ frame.own = c
        /\ frame.k = top.k /\ frame.orig = top.orig
    BY <2>1, <2>2 DEF BackFrame
  <2>4. QED
    BY <2>1, <2>3
<1>8. /\ Len(bstack') = n /\ BTop' = bstack'[n] /\ bstack'[n] = frame /\ bstack' # <<>>
      /\ \A j \in 1 .. n : j # n => bstack'[j] = bstack[j]
  BY <1>1, <1>6, <1>7, BackTopReplaced
<1>9. QED
  BY <1>1, <1>2, <1>3, <1>4, <1>6, <1>7, <1>8

\* backend() goes on to the next import: skipped, the original one, or returned.
LEMMA BackendNextEffect ==
  ASSUME Inv, BackendSkip \/ BackendOriginal \/ BackendReturn, NEW n, n = Len(bstack)
  PROVE  /\ stage = "backend" /\ n \in Nat \ {0} /\ n \in 1 .. n /\ BTop = bstack[n]
         /\ BTop.pc \in {"loop", "wait"} /\ BTop.own \in Pointer
         /\ BTop.k <= Len(content[BTop.own].imports) /\ NextImport \in Pointer
         /\ Len(bstack') = n /\ BTop' = bstack'[n] /\ bstack' # <<>>
         /\ bstack'[n].pc = "loop" /\ bstack'[n].own = BTop.own
         /\ bstack'[n].orig = BTop.orig /\ bstack'[n].k = BTop.k + 1
         /\ \A j \in 1 .. n : j # n => bstack'[j] = bstack[j]
         /\ \/ BTop.pc = "loop" /\ InList(NextImport) /\ UNCHANGED <<current, codegen>>
            \/ /\ BTop.pc = "loop" /\ ~InList(NextImport) /\ IsOriginal(NextImport)
               /\ current' = NextImport /\ UNCHANGED codegen
            \/ /\ BTop.pc = "wait" /\ codegen' = codegen \union {NextImport}
               /\ UNCHANGED current
         /\ UNCHANGED <<prog, fileIndex, stage, modules, struct, content, table,
                        declared, emitted, fstack, outcome>>
<1>1. /\ stage = "backend" /\ bstack # <<>> /\ BTop.pc \in {"loop", "wait"}
      /\ BTop.k <= Len(BackendImports)
  <2>1. CASE BackendSkip \/ BackendOriginal
    BY <2>1 DEF BackendSkip, BackendOriginal, BackendPending, BackAt
  <2>2. CASE BackendReturn
    BY <2>2, BTopOK DEF BackendReturn, BackAt, BackFrameOK, BackendImports
  <2>3. QED
    BY <2>1, <2>2
<1>2. BTop.own \in Pointer /\ NextImport \in Pointer
  BY <1>1, VisitingOK
<1>3. BTop \in BackFrame /\ BTop = bstack[n] /\ n \in 1 .. n /\ n \in Nat \ {0}
  BY <1>1, BTopOK
<1>4. PICK top \in BackFrame : top = BTop
  BY <1>3
<1>5. PICK k \in Nat : k = top.k + 1
  BY DEF BackFrame
<1>6. PICK fr : fr = [top EXCEPT !.pc = "loop", !.k = k]
  OBVIOUS
<1>7. fr \in BackFrame /\ fr.pc = "loop" /\ fr.own = top.own /\ fr.k = k /\ fr.orig = top.orig
  BY <1>6 DEF BackFrame
<1>8. bstack' = ReplaceAt(bstack, Len(bstack), fr)
  <2>1. CASE BackendSkip \/ BackendOriginal
    <3>1. SetBack([top EXCEPT !.k = k]) /\ top.pc = "loop"
      BY <1>4, <1>5, <2>1 DEF BackendSkip, BackendOriginal, BackendPending, BackAt
    <3>2. [top EXCEPT !.k = k] = fr
      BY <1>6, <3>1 DEF BackFrame
    <3>3. QED
      BY <3>1, <3>2 DEF SetBack
  <2>2. CASE BackendReturn
    BY <1>4, <1>5, <1>6, <2>2 DEF BackendReturn, SetBack
  <2>3. QED
    BY <2>1, <2>2
<1>9. /\ Len(bstack') = n /\ BTop' = bstack'[n] /\ bstack'[n] = fr /\ bstack' # <<>>
      /\ \A j \in 1 .. n : j # n => bstack'[j] = bstack[j]
  BY <1>1, <1>7, <1>8, BackTopReplaced
<1>10. UNCHANGED <<prog, fileIndex, stage, modules, struct, content, table,
                   declared, emitted, fstack, outcome>>
  BY DEF BackendSkip, BackendOriginal, BackendReturn, heapVars, frontVars
<1>11. \/ BTop.pc = "loop" /\ InList(NextImport) /\ UNCHANGED <<current, codegen>>
       \/ /\ BTop.pc = "loop" /\ ~InList(NextImport) /\ IsOriginal(NextImport)
          /\ current' = NextImport /\ UNCHANGED codegen
       \/ /\ BTop.pc = "wait" /\ codegen' = codegen \union {NextImport}
          /\ UNCHANGED current
  BY DEF BackendSkip, BackendOriginal, BackendReturn, BackendPending, BackAt
<1>12. QED
  BY <1>1, <1>2, <1>3, <1>4, <1>5, <1>7, <1>9, <1>10, <1>11 DEF BackendImports

\* backend() calls itself for an import.
LEMMA BackendCallEffect ==
  ASSUME Inv, BackendCall, NEW n, n = Len(bstack)
  PROVE  /\ stage = "backend" /\ n \in Nat \ {0} /\ n \in 1 .. n /\ BTop = bstack[n]
         /\ n + 1 \in Nat /\ n + 1 # n
         /\ BTop.pc = "loop" /\ BTop.own \in Pointer
         /\ BTop.k <= Len(content[BTop.own].imports)
         /\ NextImport \in Pointer /\ current' = NextImport
         /\ ~InList(NextImport) /\ ~IsOriginal(NextImport)
         /\ Len(bstack') = n + 1 /\ BTop' = bstack'[n + 1] /\ bstack' # <<>>
         /\ bstack'[n + 1].pc = "enter" /\ bstack'[n + 1].own = 0 /\ bstack'[n + 1].k = 1
         /\ bstack'[n + 1].orig = IF BTop.orig = 0 THEN BTop.own ELSE BTop.orig
         /\ bstack'[n].pc = "wait" /\ bstack'[n].own = BTop.own
         /\ bstack'[n].orig = BTop.orig /\ bstack'[n].k = BTop.k
         /\ \A j \in 1 .. n : j # n => bstack'[j] = bstack[j]
         /\ UNCHANGED <<prog, fileIndex, stage, modules, struct, content, table, codegen,
                        declared, emitted, fstack, outcome>>
<1>1. /\ stage = "backend" /\ bstack # <<>> /\ BTop.pc = "loop"
      /\ BTop.k <= Len(BackendImports)
      /\ ~InList(NextImport) /\ ~IsOriginal(NextImport)
  BY DEF BackendCall, BackendPending, BackAt
<1>2. BTop \in BackFrame /\ BTop = bstack[n] /\ n \in 1 .. n /\ n \in Nat \ {0}
  BY <1>1, BTopOK
<1>3. BTop.own \in Pointer /\ NextImport \in Pointer /\ BTop.own \in Nat
  <2>1. BTop.own \in Pointer /\ NextImport \in Pointer
    BY <1>1, VisitingOK
  <2>2. Pointer \subseteq Nat
    BY DEF Pointer
  <2>3. QED
    BY <2>1, <2>2
<1>4. PICK frame : frame = [BTop EXCEPT !.pc = "wait"]
  OBVIOUS
<1>5. PICK orig : orig = IF BTop.orig = 0 THEN BTop.own ELSE BTop.orig
  OBVIOUS
<1>6. PICK call : call = BackCall(orig)
  OBVIOUS
<1>7. PICK base : base = ReplaceAt(bstack, Len(bstack), frame)
  OBVIOUS
<1>8. /\ current' = NextImport
      /\ bstack' = Append(base, call)
      /\ UNCHANGED <<prog, fileIndex, stage, modules, struct, content, table, codegen,
                     declared, emitted, fstack, outcome>>
  BY <1>4, <1>5, <1>6, <1>7 DEF BackendCall, heapVars, frontVars
<1>9. /\ frame \in BackFrame /\ frame.pc = "wait" /\ frame.own = BTop.own
      /\ frame.k = BTop.k /\ frame.orig = BTop.orig /\ BTop.orig \in Nat
  <2>1. PICK top \in BackFrame : top = BTop
    BY <1>2
  <2>2. frame = [top EXCEPT !.pc = "wait"]
    BY <1>4, <2>1
  <2>3. /\ frame \in BackFrame /\ frame.pc = "wait" /\ frame.own = top.own
        /\ frame.k = top.k /\ frame.orig = top.orig /\ top.orig \in Nat
    BY <2>1, <2>2 DEF BackFrame
  <2>4. QED
    BY <2>1, <2>3
<1>10. /\ call \in BackFrame /\ call.pc = "enter" /\ call.own = 0 /\ call.k = 1
       /\ call.orig = orig
  <2>1. orig \in Nat
    BY <1>3, <1>5, <1>9
  <2>2. QED
    BY <1>6, <2>1 DEF BackCall, BackFrame
<1>11. /\ base \in Seq(BackFrame) /\ Len(base) = n /\ base[n] = frame
       /\ \A j \in 1 .. n : j # n => base[j] = bstack[j]
  <2>1. bstack \in Seq(BackFrame)
    BY DEF Inv, TypeOK
  <2>2. bstack # <<>> /\ frame \in BackFrame
    BY <1>1, <1>9
  <2>3. QED
    BY <1>7, <2>1, <2>2, BackLastSet, Zenon
<1>12. /\ Len(bstack') = n + 1 /\ bstack' # <<>> /\ Last(bstack') = call
       /\ \A j \in 1 .. n + 1 : bstack'[j] = IF j = n + 1 THEN call ELSE base[j]
  BY <1>8, <1>10, <1>11, PushOn
<1>13. /\ bstack'[n + 1] = call /\ bstack'[n] = frame
       /\ \A j \in 1 .. n : j # n => bstack'[j] = bstack[j]
  BY <1>2, <1>11, <1>12
<1>14. BTop' = bstack'[n + 1]
  BY <1>12, <1>13 DEF BTop
<1>15. n + 1 \in Nat /\ n + 1 # n
  BY <1>2
<1>16. QED
  BY <1>1, <1>2, <1>3, <1>5, <1>8, <1>9, <1>10, <1>12, <1>13, <1>14, <1>15 DEF BackendImports

\* The saved struct is copied over the current module.
LEMMA CopyBackEffect ==
  ASSUME Inv, ImportsDone, CopyBack, NEW n, n = Len(bstack)
  PROVE  /\ stage = "backend" /\ n \in Nat \ {0} /\ n \in 1 .. n /\ BTop = bstack[n]
         /\ BTop.pc = "loop" /\ BTop.own \in Pointer /\ current \in Pointer
         /\ BTop.k > Len(content[BTop.own].imports)
         /\ struct'[current] = BTop.own
         /\ \A p \in Pointer : p # current => struct'[p] = struct[p]
         /\ Pointer' = Pointer
<1>1. /\ stage = "backend" /\ bstack # <<>> /\ BTop.pc = "loop"
      /\ BTop.k > Len(content[BTop.own].imports)
  BY DEF ImportsDone, BackAt, BackendImports
<1>2. BTop = bstack[n] /\ n \in 1 .. n /\ n \in Nat \ {0} /\ BTop.own \in Pointer
  BY <1>1, BTopOK, VisitingOK
<1>3. current \in Pointer /\ struct \in Seq(1 .. Len(content))
  BY <1>1, ContentOK DEF Inv, TypeOK, CurrentOK, Pointer
<1>4. PICK own : own = BTop.own
  OBVIOUS
<1>5. struct' = [struct EXCEPT ![current] = own]
  BY <1>4 DEF CopyBack
<1>6. struct'[current] = own /\ \A p \in Pointer : p # current => struct'[p] = struct[p]
  BY <1>3, <1>5 DEF Pointer
<1>7. Pointer' = Pointer
  BY CopyBackOK DEF Pointer
<1>8. QED
  BY <1>1, <1>2, <1>3, <1>4, <1>6, <1>7

\* Code is generated for a module, which joins the list, and backend() returns.
LEMMA GenerateCodeEffect ==
  ASSUME Inv, GenerateCode, NEW n, n = Len(bstack)
  PROVE  /\ ImportsDone /\ CopyBack
         /\ emitted' = Append(emitted, OwnPath)
         /\ codegen' = IF \E p \in codegen : <<PathOf(p)', OwnPath>> \in Extends
                       THEN codegen ELSE codegen \union {current}
         /\ n = 1 => stage' = "next" /\ bstack' = <<>>
         /\ n # 1 => /\ n - 1 \in Nat \ {0} /\ n - 1 \in 1 .. n /\ n - 1 # n
                     /\ n = n - 1 + 1
                     /\ Len(bstack') = n - 1 /\ bstack' # <<>>
                     /\ BTop' = bstack'[n - 1] /\ bstack'[n - 1].pc = "wait"
                     /\ \A j \in 1 .. n - 1 : /\ bstack'[j] = bstack[j]
                                              /\ j \in 1 .. n /\ j # n
                     /\ UNCHANGED stage
         /\ UNCHANGED <<prog, fileIndex, modules, current, content, table, declared,
                        fstack, outcome>>
<1>1. /\ ImportsDone /\ CopyBack
      /\ emitted' = Append(emitted, OwnPath)
      /\ codegen' = IF \E p \in codegen : <<PathOf(p)', OwnPath>> \in Extends
                    THEN codegen ELSE codegen \union {current}
      /\ bstack' = Front(bstack)
      /\ stage' = IF n = 1 THEN "next" ELSE stage
      /\ UNCHANGED <<prog, fileIndex, modules, current, content, table, declared,
                     fstack, outcome>>
  BY DEF GenerateCode, frontVars
<1>2. n \in Nat \ {0} /\ n \in 1 .. n
  BY <1>1, CopyBackEffect
<1>3. bstack \in Seq(BackFrame) /\ bstack # <<>>
  BY <1>1 DEF Inv, TypeOK, ImportsDone, BackAt
<1>4. ASSUME n = 1 PROVE bstack' = <<>>
  BY <1>1, <1>3, <1>4, FrontOf
<1>5. ASSUME n # 1
      PROVE  /\ n - 1 \in Nat \ {0} /\ n - 1 \in 1 .. n /\ n - 1 # n
             /\ n = n - 1 + 1
             /\ Len(bstack') = n - 1 /\ bstack' # <<>>
             /\ BTop' = bstack'[n - 1] /\ bstack'[n - 1].pc = "wait"
             /\ \A j \in 1 .. n - 1 : /\ bstack'[j] = bstack[j]
                                      /\ j \in 1 .. n /\ j # n
  <2>1. /\ n - 1 \in Nat \ {0} /\ n - 1 \in 1 .. n /\ n - 1 # n /\ n > 1
        /\ n = n - 1 + 1 /\ n - 1 \in 1 .. n - 1
        /\ \A j \in 1 .. n - 1 : j \in 1 .. n /\ j # n
    BY <1>2, <1>5
  <2>2. /\ Len(bstack') = n - 1 /\ bstack' # <<>> /\ Last(bstack') = bstack[n - 1]
        /\ \A j \in 1 .. n - 1 : bstack'[j] = bstack[j]
    BY <1>1, <1>3, <2>1, FrontOf
  <2>3. BTop' = bstack'[n - 1]
    BY <2>1, <2>2 DEF BTop
  <2>4. bstack'[n - 1].pc = "wait"
    BY <2>1, <2>2, BackFramesOK
  <2>5. QED
    BY <2>1, <2>2, <2>3, <2>4
<1>6. QED
  BY <1>1, <1>4, <1>5

-----------------------------------------------------------------------------
(* The heap: which structs were overwritten, and with what *)

\* The files of the command line that are compiled already come first.
Past == IF stage \in {"frontend", "backend"} THEN fileIndex - 1 ELSE fileIndex
Compiled(p) == \E i \in 1 .. Past : modules[i] = p

\* The module of the file that is being compiled
Root == modules[fileIndex]

\* Every file of the command line has a module and a struct of its own.
RootsApart ==
  \A i, j \in 1 .. fileIndex :
    (i # j /\ modules[i] # 0 /\ modules[j] # 0) =>
      modules[i] # modules[j] /\ struct[modules[i]] # struct[modules[j]]

\* What was overwritten, and what it was overwritten with, is declared.
OverwrittenDeclared ==
  \A q \in Pointer : struct[q] # q => {PathOf(q), content[q].path} \subseteq declared

CodegenDeclared == \A p \in codegen : content[p].path \in declared

\* A module that was overwritten, or that the command line is done with, is never
\* visited again: some module of codegen_modules has its path - and keeps it,
\* since it can only be overwritten while it is context->current_module.
ListedFor(q) ==
  \E p \in codegen : /\ <<PathOf(p), PathOf(q)>> \in Extends
                     /\ p = q \/ stage # "backend" \/ p # current
StaysListed == \A q \in Pointer : (struct[q] # q \/ Compiled(q)) => ListedFor(q)

\* The modules of the command line hold what nobody else will get.
CompiledHold ==
  \A i \in 1 .. Past : struct[modules[i]] \in codegen \/ Compiled(struct[modules[i]])

Heap == OverwrittenDeclared /\ CodegenDeclared /\ StaysListed /\ CompiledHold

\* A frame of frontend() works on a module that nothing else refers to.
FrontFrameFresh(f) ==
  /\ f.pc = "parse" => f.k = 1 /\ f.module = 0
  /\ f.pc # "parse" => /\ struct[f.module] = f.module
                       /\ content[f.module].path = f.file
                       /\ f.module \notin codegen
                       /\ ~Compiled(f.module)

FrontHeap ==
  /\ fstack # <<>>
  /\ \A j \in 1 .. Len(fstack) : FrontFrameFresh(fstack[j])
  /\ fstack[1].file = prog.cmd[fileIndex] /\ fstack[1].module = Root
  /\ FTop.pc = "check" => current = FTop.module

\* The module that the j-th nested backend() was called for
Visited(j) == IF bstack[j].pc = "enter" THEN current ELSE bstack[j].own

VisitOK(j) ==
  LET v == Visited(j) IN
    /\ v \in Pointer /\ ~Compiled(v)
    /\ \A i \in 1 .. Past : struct[modules[i]] # v
    /\ IF j = 1 THEN v = Root /\ bstack[j].orig = 0
       ELSE /\ v = content[bstack[j - 1].own].imports[bstack[j - 1].k]
            /\ bstack[j].orig = Root
            /\ j > 2 => content[v].path # prog.cmd[fileIndex]
    /\ IF bstack[j].pc = "enter" THEN bstack[j].k = 1 ELSE content[v].path \in declared

BackHeap ==
  /\ bstack # <<>>
  /\ content[Root].path = prog.cmd[fileIndex]
  /\ \A j \in 1 .. Len(bstack) : VisitOK(j)
  /\ ~Compiled(current)
  /\ IF BTop.pc = "enter" THEN struct[current] = current /\ current \notin codegen
                          ELSE content[current].path \in declared
  /\ BTop.pc = "wait" => content[NextImport].path \in declared
  /\ \/ struct[Root] = Root
     \/ struct[Root] \in codegen
     \/ BTop.pc = "wait" /\ struct[Root] = NextImport

HeapInv ==
  /\ stage \in {"frontend", "backend"} => fileIndex # 0
  /\ \A i \in fileIndex + 1 .. Len(prog.cmd) : modules[i] = 0
  /\ RootsApart
  /\ stage # "done" => Heap
  /\ stage = "frontend" => FrontHeap
  /\ stage = "backend" => BackHeap

-----------------------------------------------------------------------------
(* Each action preserves what is known of the heap *)

\* The module of every file that is open is not NULL once the first is parsed.
LEMMA RootsOK ==
  ASSUME Inv, stage = "backend" \/ (stage = "frontend" /\ fstack # <<>> /\ FTop.pc # "parse")
  PROVE  /\ \A i \in 1 .. fileIndex : modules[i] \in Pointer /\ modules[i] # 0
         /\ fileIndex \in Nat
<1>1. \A i \in 1 .. fileIndex : modules[i] # 0
  <2>1. CASE stage = "backend"
    BY <2>1 DEF Inv, ModulesOK
  <2>2. CASE stage # "backend"
    BY <2>2, NoNullModule
  <2>3. QED
    BY <2>1, <2>2
<1>2. \A i \in 1 .. fileIndex : i \in 1 .. Len(prog.cmd)
  BY CommandOK
<1>3. QED
  BY <1>1, <1>2, CommandOK

\* A step that overwrites nothing and compiles no file keeps what is known of the
\* structs, if nothing of codegen_modules becomes the current module.
LEMMA HeapKept ==
  ASSUME Inv, Heap, UNCHANGED <<modules, struct, fileIndex>>, Past' = Past,
         \A p \in Pointer : content'[p].path = content[p].path,
         codegen \subseteq codegen', codegen' \subseteq Pointer, declared \subseteq declared',
         \A p \in codegen' \ codegen : content[p].path \in declared,
         stage' = "backend" =>
           current' \notin codegen \/ (stage = "backend" /\ current' = current)
  PROVE  Heap'
<1>1. Pointer' = Pointer /\ codegen \subseteq Pointer
  BY DEF Pointer, Inv, TypeOK
<1>2. \A p : Compiled(p)' <=> Compiled(p)
  BY DEF Compiled
<1>3. \A p \in Pointer : struct[p] \in Pointer
  BY ContentOK
<1>4. \A p \in Pointer : PathOf(p)' = PathOf(p)
  BY <1>3 DEF PathOf
<1>5. OverwrittenDeclared'
  BY <1>1, <1>4 DEF Heap, OverwrittenDeclared
<1>6. CodegenDeclared'
  <2>1. SUFFICES ASSUME NEW p \in codegen' PROVE content'[p].path \in declared'
    BY DEF CodegenDeclared
  <2>2. content[p].path \in declared
    BY <2>1 DEF Heap, CodegenDeclared
  <2>3. QED
    BY <2>1, <2>2
<1>7. StaysListed'
  <2>1. SUFFICES ASSUME NEW q \in Pointer, struct[q] # q \/ Compiled(q) PROVE ListedFor(q)'
    BY <1>1, <1>2 DEF StaysListed
  <2>2. ListedFor(q)
    BY <2>1 DEF Heap, StaysListed
  <2>3. PICK p \in codegen : /\ <<PathOf(p), PathOf(q)>> \in Extends
                             /\ p = q \/ stage # "backend" \/ p # current
    BY <2>2 DEF ListedFor
  <2>4. PathOf(p)' = PathOf(p) /\ PathOf(q)' = PathOf(q) /\ p \in codegen'
    BY <1>1, <1>4, <2>1, <2>3
  <2>5. p = q \/ stage' # "backend" \/ p # current'
    BY <2>3
  <2>6. QED
    BY <2>3, <2>4, <2>5 DEF ListedFor
<1>8. CompiledHold'
  BY <1>2 DEF Heap, CompiledHold
<1>9. QED
  BY <1>5, <1>6, <1>7, <1>8 DEF Heap

\* The command line keeps its modules where nothing is overwritten.
LEMMA RootsKept ==
  ASSUME HeapInv, UNCHANGED <<modules, struct, fileIndex, prog>>
  PROVE  RootsApart' /\ \A i \in fileIndex' + 1 .. Len(prog'.cmd) : modules'[i] = 0
BY DEF HeapInv, RootsApart

\* main() enters a file of the command line.
LEMMA StartFileHeap ==
  ASSUME Inv, HeapInv, StartFile
  PROVE  HeapInv'
<1>1. /\ stage = "next" /\ stage' = "frontend"
      /\ fileIndex' = fileIndex + 1 /\ fileIndex' \in 1 .. Len(prog.cmd)
      /\ Len(fstack') = 1 /\ fstack' # <<>> /\ FTop' = fstack'[1]
      /\ fstack'[1].pc = "parse" /\ fstack'[1].module = 0 /\ fstack'[1].k = 1
      /\ fstack'[1].file = prog.cmd[fileIndex']
      /\ UNCHANGED <<prog, modules, current, struct, content, table, codegen, declared,
                     emitted, bstack, outcome>>
  BY StartFileEffect
<1>2. fileIndex \in Nat /\ Len(prog.cmd) \in Nat
  BY CommandOK
<1>3. Past' = Past /\ Pointer' = Pointer
  BY <1>1, <1>2 DEF Past, Pointer
<1>4. \A p : Compiled(p)' <=> Compiled(p)
  BY <1>1, <1>3 DEF Compiled
<1>5. modules'[fileIndex'] = 0 /\ \A i \in fileIndex' + 1 .. Len(prog'.cmd) : modules'[i] = 0
  BY <1>1, <1>2 DEF HeapInv
<1>6. RootsApart'
  BY <1>1, <1>2, <1>5 DEF HeapInv, RootsApart
<1>7. Heap
  BY <1>1 DEF HeapInv
<1>8. Heap'
  <2>1. OverwrittenDeclared' /\ CodegenDeclared' /\ CompiledHold'
    BY <1>1, <1>3, <1>4, <1>7
       DEF Heap, OverwrittenDeclared, CodegenDeclared, CompiledHold, PathOf
  <2>2. StaysListed'
    BY <1>1, <1>3, <1>4, <1>7 DEF Heap, StaysListed, ListedFor, PathOf
  <2>3. QED
    BY <2>1, <2>2 DEF Heap
<1>9. FrontHeap'
  BY <1>1, <1>5 DEF FrontHeap, FrontFrameFresh, Root
<1>10. QED
  BY <1>1, <1>5, <1>6, <1>8, <1>9 DEF HeapInv

\* main() leaves the loop over the files.
LEMMA FilesDoneHeap ==
  ASSUME Inv, HeapInv, FilesDone
  PROVE  HeapInv'
<1>1. /\ stage = "next" /\ stage' = "output"
      /\ UNCHANGED <<prog, fileIndex, modules, current, struct, content, table, codegen,
                     declared>>
  BY DEF FilesDone, heapVars, frontVars, backVars
<1>2. Past' = Past
  BY <1>1 DEF Past
<1>3. Heap'
  BY <1>1, <1>2, HeapKept DEF HeapInv, Inv, TypeOK
<1>4. QED
  BY <1>1, <1>3, RootsKept DEF HeapInv

\* A process that ends keeps the modules of the command line apart.
LEMMA EndWithHeap ==
  ASSUME HeapInv, NEW o, EndWith(o)
  PROVE  HeapInv'
<1>1. stage' = "done" /\ UNCHANGED <<modules, struct, fileIndex, prog>>
  BY DEF EndWith, Ends
<1>2. QED
  BY <1>1, RootsKept DEF HeapInv

\* A file is parsed: its module is new, so nothing refers to it yet.
LEMMA ParseFileHeap ==
  ASSUME Inv, HeapInv, ParseFile
  PROVE  HeapInv'
<1>0. PICK n, new : n = Len(fstack) /\ new = Len(struct) + 1
  OBVIOUS
<1>1. FrontHeap /\ Heap /\ stage = "frontend"
  BY DEF HeapInv, ParseFile, FrontAt
<1>2. stage = "frontend" => \A j \in 1 .. Len(fstack) : fstack[j].pc = "parse" => fstack[j].k = 1
  BY <1>1 DEF FrontHeap, FrontFrameFresh
<1>3. /\ n \in Nat \ {0} /\ n \in 1 .. n /\ FTop = fstack[n] /\ FTop.pc = "parse"
      /\ new \in Nat \ {0} /\ Pointer' = Pointer \union {new} /\ new \notin Pointer
      /\ \A p \in Pointer : struct'[p] = struct[p] /\ content'[p] = content[p]
      /\ struct'[new] = new
      /\ content'[new].path = FTop.file /\ Len(content'[new].imports) = 0
      /\ Len(fstack') = n /\ FTop' = fstack'[n] /\ fstack' # <<>>
      /\ fstack'[n].pc = "import" /\ fstack'[n].module = new
      /\ fstack'[n].k = 1 /\ fstack'[n].file = FTop.file
      /\ \A j \in 1 .. n : j # n => fstack'[j] = fstack[j]
      /\ modules' = IF modules[fileIndex] = 0
                    THEN [modules EXCEPT ![fileIndex] = new] ELSE modules
      /\ UNCHANGED <<prog, fileIndex, stage, current, table, codegen, declared, emitted,
                     bstack, outcome>>
  BY <1>0, <1>2, ParseFileEffect
<1>4. /\ fileIndex \in 1 .. Len(prog.cmd) /\ fileIndex \in Nat /\ Len(prog.cmd) \in Nat
      /\ \A i \in 1 .. Len(prog.cmd) : modules[i] \in Pointer \union {0}
      /\ modules \in [1 .. Len(prog.cmd) -> 0 .. Len(struct)]
  <2>1. fileIndex # 0
    BY <1>1 DEF HeapInv
  <2>2. QED
    BY <2>1, CommandOK DEF Inv, TypeOK
<1>5. Past' = fileIndex - 1 /\ Past = fileIndex - 1
  BY <1>1, <1>3 DEF Past
<1>6. \A i \in 1 .. Len(prog.cmd) : i # fileIndex => modules'[i] = modules[i]
  BY <1>3, <1>4
<1>7. modules'[fileIndex] = IF modules[fileIndex] = 0 THEN new ELSE modules[fileIndex]
  BY <1>3, <1>4
<1>8. \A i \in 1 .. fileIndex - 1 : modules'[i] = modules[i] /\ i \in 1 .. Len(prog.cmd)
  BY <1>4, <1>6
<1>9. \A p : Compiled(p)' <=> Compiled(p)
  BY <1>5, <1>8 DEF Compiled
<1>10. \A p \in Pointer : struct[p] \in Pointer /\ PathOf(p)' = PathOf(p)
  BY <1>3, ContentOK DEF PathOf
<1>11. \A i \in fileIndex' + 1 .. Len(prog'.cmd) : modules'[i] = 0
  <2>1. SUFFICES ASSUME NEW i \in fileIndex + 1 .. Len(prog.cmd) PROVE modules'[i] = 0
    BY <1>3
  <2>2. i \in 1 .. Len(prog.cmd) /\ i # fileIndex
    BY <1>4, <2>1
  <2>3. QED
    BY <1>6, <2>1, <2>2 DEF HeapInv
<1>12. RootsApart'
  <2>1. SUFFICES ASSUME NEW i \in 1 .. fileIndex, NEW j \in 1 .. fileIndex, i # j,
                        modules'[i] # 0, modules'[j] # 0
                 PROVE  modules'[i] # modules'[j] /\ struct'[modules'[i]] # struct'[modules'[j]]
    BY <1>3 DEF RootsApart
  <2>2. i \in 1 .. Len(prog.cmd) /\ j \in 1 .. Len(prog.cmd)
    BY <1>4
  <2>3. ASSUME NEW a \in {i, j}
        PROVE  \/ modules'[a] = modules[a] /\ modules[a] \in Pointer /\ modules[a] # 0
                  /\ struct'[modules'[a]] = struct[modules[a]] /\ struct[modules[a]] \in Pointer
               \/ a = fileIndex /\ modules'[a] = new /\ struct'[modules'[a]] = new
    <3>1. modules'[a] # 0 /\ a \in 1 .. Len(prog.cmd)
      BY <2>1, <2>2
    <3>2. CASE a = fileIndex /\ modules[fileIndex] = 0
      BY <1>3, <1>7, <3>2
    <3>3. CASE a # fileIndex \/ modules[fileIndex] # 0
      <4>1. modules'[a] = modules[a]
        BY <1>6, <1>7, <3>1, <3>3
      <4>2. modules[a] \in Pointer /\ modules[a] # 0
        BY <1>4, <3>1, <4>1
      <4>3. QED
        BY <1>3, <1>10, <4>1, <4>2
    <3>4. QED
      BY <3>2, <3>3
  <2>4. CASE modules'[i] = modules[i] /\ modules'[j] = modules[j]
    BY <1>3, <2>1, <2>3, <2>4 DEF HeapInv, RootsApart
  <2>5. CASE modules'[i] # modules[i] \/ modules'[j] # modules[j]
    BY <1>3, <2>1, <2>3, <2>5
  <2>6. QED
    BY <2>4, <2>5
<1>13. codegen \subseteq Pointer
  BY DEF Inv, TypeOK
<1>14. Heap'
  <2>1. OverwrittenDeclared'
    BY <1>1, <1>3, <1>10 DEF Heap, OverwrittenDeclared
  <2>2. CodegenDeclared'
    BY <1>1, <1>3, <1>13 DEF Heap, CodegenDeclared
  <2>3. StaysListed'
    <3>1. SUFFICES ASSUME NEW q \in Pointer', struct'[q] # q \/ Compiled(q)
                   PROVE  ListedFor(q)'
      BY <1>9 DEF StaysListed
    <3>2. q \in Pointer
      <4>1. \A i \in 1 .. fileIndex - 1 : modules[i] # new
        BY <1>3, <1>4, <1>8
      <4>2. ~Compiled(new)
        BY <1>5, <4>1 DEF Compiled
      <4>3. QED
        BY <1>3, <3>1, <4>2
    <3>3. PICK p \in codegen : <<PathOf(p), PathOf(q)>> \in Extends
      BY <1>1, <1>3, <3>1, <3>2 DEF Heap, StaysListed, ListedFor
    <3>4. QED
      BY <1>1, <1>3, <1>10, <1>13, <3>2, <3>3 DEF ListedFor
  <2>4. CompiledHold'
    <3>1. SUFFICES ASSUME NEW i \in 1 .. fileIndex - 1
                   PROVE  struct'[modules[i]] \in codegen \/ Compiled(struct'[modules[i]])
      BY <1>3, <1>5, <1>8, <1>9 DEF CompiledHold
    <3>2. modules[i] \in Pointer
      <4>1. i \in 1 .. fileIndex /\ i # fileIndex
        BY <1>4
      <4>2. modules[i] # 0
        BY <4>1 DEF Inv, ModulesOK
      <4>3. QED
        BY <1>4, <1>8, <4>2
    <3>3. QED
      BY <1>1, <1>3, <1>5, <3>1, <3>2 DEF Heap, CompiledHold
  <2>5. QED
    BY <2>1, <2>2, <2>3, <2>4 DEF Heap
<1>15. FrontHeap'
  <2>1. \A j \in 1 .. n : FrontFrameFresh(fstack[j])'
    <3>1. SUFFICES ASSUME NEW j \in 1 .. n, NEW f, f = fstack'[j] PROVE FrontFrameFresh(f)'
      BY <1>3 DEF FrontFrameFresh
    <3>2. CASE j = n
      <4>1. new \notin codegen /\ ~Compiled(new)
        BY <1>3, <1>4, <1>5, <1>8, <1>13 DEF Compiled
      <4>2. QED
        BY <1>3, <1>9, <3>1, <3>2, <4>1 DEF FrontFrameFresh
    <3>3. CASE j # n
      <4>1. f = fstack[j] /\ f.pc = "wait" /\ f.module \in Pointer
        BY <1>0, <1>3, <3>1, <3>3, CallersWait
      <4>2. FrontFrameFresh(f)
        BY <1>0, <1>1, <3>1, <4>1 DEF FrontHeap
      <4>3. QED
        BY <1>3, <1>9, <4>1, <4>2 DEF FrontFrameFresh
    <3>4. QED
      BY <3>2, <3>3
  <2>2. fstack'[1].file = prog.cmd[fileIndex] /\ fstack'[1].module = modules'[fileIndex]
    <3>1. CASE n = 1
      <4>1. fstack[1].module = 0 /\ fstack[1].file = prog.cmd[fileIndex]
        BY <1>0, <1>1, <1>3, <3>1 DEF FrontHeap, FrontFrameFresh
      <4>2. modules[fileIndex] = 0
        BY <1>1, <4>1 DEF FrontHeap, Root
      <4>3. QED
        BY <1>3, <1>7, <3>1, <4>1, <4>2
    <3>2. CASE n # 1
      <4>1. 1 \in 1 .. n /\ fstack'[1] = fstack[1] /\ fstack[1].module \in Pointer
        BY <1>0, <1>3, <3>2, CallersWait
      <4>2. modules[fileIndex] = fstack[1].module /\ fstack[1].module # 0
        BY <1>1, <4>1 DEF FrontHeap, Root, Pointer
      <4>3. QED
        BY <1>1, <1>7, <4>1, <4>2 DEF FrontHeap
    <3>3. QED
      BY <3>1, <3>2
  <2>3. QED
    BY <1>3, <2>1, <2>2 DEF FrontHeap, Root
<1>16. fileIndex' # 0 /\ stage' = "frontend"
  BY <1>1, <1>3, <1>4
<1>17. QED
  BY <1>11, <1>12, <1>14, <1>15, <1>16 DEF HeapInv

\* A step of parse() that only changes frames: they go on with the same modules.
LEMMA FrontStepHeap ==
  ASSUME Inv, HeapInv, stage = "frontend",
         UNCHANGED <<prog, fileIndex, stage, modules, struct, codegen, declared>>,
         \A p \in Pointer : content'[p].path = content[p].path,
         fstack' # <<>>, fstack'[1].file = fstack[1].file,
         fstack'[1].module = fstack[1].module,
         \A j \in 1 .. Len(fstack') :
           \/ fstack'[j].pc = "parse" /\ fstack'[j].k = 1 /\ fstack'[j].module = 0
           \/ /\ fstack'[j].pc # "parse"
              /\ \E i \in 1 .. Len(fstack) :
                   /\ fstack[i].pc # "parse"
                   /\ fstack'[j].module = fstack[i].module /\ fstack'[j].file = fstack[i].file,
         FTop'.pc = "check" => current' = FTop'.module
  PROVE  HeapInv'
<1>1. FrontHeap /\ Heap
  BY DEF HeapInv
<1>2. codegen \subseteq Pointer /\ Past' = Past
  BY DEF Inv, TypeOK, Past
<1>3. Heap'
  BY <1>1, <1>2, HeapKept
<1>4. \A p : Compiled(p)' <=> Compiled(p)
  BY <1>2 DEF Compiled
<1>5. \A j \in 1 .. Len(fstack') : FrontFrameFresh(fstack[j])'
  <2>1. SUFFICES ASSUME NEW j \in 1 .. Len(fstack'), NEW f, f = fstack'[j]
                 PROVE  FrontFrameFresh(f)'
    BY DEF FrontFrameFresh
  <2>2. CASE f.pc = "parse" /\ f.k = 1 /\ f.module = 0
    BY <2>2 DEF FrontFrameFresh
  <2>3. CASE f.pc # "parse"
    <3>1. PICK i \in 1 .. Len(fstack) : /\ fstack[i].pc # "parse" /\ f.module = fstack[i].module
                                        /\ f.file = fstack[i].file
      BY <2>1, <2>3
    <3>2. /\ struct[f.module] = f.module /\ content[f.module].path = f.file
          /\ f.module \notin codegen /\ ~Compiled(f.module)
      BY <1>1, <3>1 DEF FrontHeap, FrontFrameFresh
    <3>3. f.module \in Pointer
      BY <3>1, FramesOK
    <3>4. QED
      BY <1>4, <2>3, <3>2, <3>3 DEF FrontFrameFresh
  <2>4. QED
    BY <2>1, <2>2, <2>3
<1>6. FrontHeap'
  BY <1>1, <1>5 DEF FrontHeap, Root
<1>7. QED
  BY <1>3, <1>6, RootsKept DEF HeapInv

\* The innermost frame in the import loop has a struct that was never overwritten.
LEMMA FrontModule ==
  ASSUME Inv, HeapInv, stage = "frontend", FTop.pc # "parse"
  PROVE  /\ struct[FTop.module] = FTop.module /\ FTop.module \in Pointer
         /\ content[FTop.module].path = FTop.file
         /\ fstack # <<>>
<1>1. FrontHeap
  BY DEF HeapInv
<1>2. FTop = fstack[Len(fstack)] /\ Len(fstack) \in 1 .. Len(fstack) /\ fstack # <<>>
  BY <1>1, FTopOK DEF FrontHeap
<1>3. FrontFrameFresh(FTop)
  BY <1>1, <1>2 DEF FrontHeap
<1>4. QED
  BY <1>2, <1>3, ImportingOK DEF FrontFrameFresh

\* parse() binds an import, calls frontend() or leaves the loop; a nested
\* frontend() returns.
LEMMA ImportHeap ==
  ASSUME Inv, HeapInv, ImportRegistered \/ ImportOpen \/ ImportReturn
  PROVE  HeapInv'
<1>1. /\ stage = "frontend" /\ fstack # <<>> /\ FTop.pc \in {"import", "wait"}
      /\ FTop.k <= Len(prog.imports[FTop.file])
  BY ImportCases
<1>2. PICK m \in Pointer : Bind(m)
  BY ImportCases
<1>3. PICK n, c, l : n = Len(fstack) /\ c = FTop.module /\ l = Len(content[c].imports)
  OBVIOUS
<1>4. struct[FTop.module] = FTop.module
  BY <1>1, FrontModule
<1>5. /\ n \in Nat \ {0} /\ n \in 1 .. n /\ FTop = fstack[n]
      /\ \A p \in Pointer : content'[p].path = content[p].path
      /\ Len(fstack') = n /\ FTop' = fstack'[n] /\ fstack' # <<>>
      /\ fstack'[n].pc = "import" /\ fstack'[n].module = c
      /\ fstack'[n].file = FTop.file
      /\ \A j \in 1 .. n : j # n => fstack'[j] = fstack[j]
      /\ UNCHANGED <<prog, fileIndex, stage, modules, struct, codegen, declared>>
  BY <1>1, <1>2, <1>3, <1>4, BindEffect
<1>6. \A j \in 1 .. n : j # n => fstack[j].pc = "wait"
  BY <1>3, CallersWait
<1>7. \A j \in 1 .. n : /\ fstack'[j].pc # "parse" /\ fstack[j].pc # "parse"
                        /\ fstack'[j].module = fstack[j].module
                        /\ fstack'[j].file = fstack[j].file
  BY <1>1, <1>3, <1>5, <1>6
<1>8. 1 \in 1 .. n
  BY <1>5
<1>9. QED
  BY <1>1, <1>3, <1>5, <1>7, <1>8, FrontStepHeap

\* parse() calls frontend() for a file that is not parsed yet.
LEMMA ImportFileHeap ==
  ASSUME Inv, HeapInv, ImportFile
  PROVE  HeapInv'
<1>1. PICK n : n = Len(fstack)
  OBVIOUS
<1>2. /\ stage = "frontend" /\ n \in Nat \ {0} /\ n \in 1 .. n /\ FTop = fstack[n]
      /\ FTop.pc = "import"
      /\ Len(fstack') = n + 1 /\ FTop' = fstack'[n + 1] /\ fstack' # <<>>
      /\ fstack'[n + 1].pc = "parse" /\ fstack'[n + 1].module = 0
      /\ fstack'[n + 1].k = 1
      /\ fstack'[n].pc = "wait" /\ fstack'[n].module = FTop.module
      /\ fstack'[n].file = FTop.file
      /\ \A j \in 1 .. n : j # n => fstack'[j] = fstack[j]
      /\ UNCHANGED <<prog, fileIndex, stage, modules, struct, content, codegen, declared>>
  BY <1>1, ImportFileEffect
<1>3. \A j \in 1 .. n : j # n => fstack[j].pc = "wait"
  BY <1>1, CallersWait
<1>4. \A j \in 1 .. n : /\ fstack'[j].pc # "parse" /\ fstack[j].pc # "parse"
                        /\ fstack'[j].module = fstack[j].module
                        /\ fstack'[j].file = fstack[j].file
  BY <1>2, <1>3
<1>5. 1 \in 1 .. n /\ \A j \in 1 .. n + 1 : j \in 1 .. n \/ j = n + 1
  BY <1>2
<1>6. QED
  BY <1>1, <1>2, <1>4, <1>5, FrontStepHeap

\* parse() makes the module of this frontend() the current one.
LEMMA ParseEndHeap ==
  ASSUME Inv, HeapInv, ParseEnd
  PROVE  HeapInv'
<1>1. PICK n : n = Len(fstack)
  OBVIOUS
<1>2. /\ stage = "frontend" /\ n \in Nat \ {0} /\ n \in 1 .. n /\ FTop = fstack[n]
      /\ FTop.pc = "import" /\ current' = FTop.module
      /\ Len(fstack') = n /\ FTop' = fstack'[n] /\ fstack' # <<>>
      /\ fstack'[n].pc = "check" /\ fstack'[n].module = FTop.module
      /\ fstack'[n].file = FTop.file
      /\ \A j \in 1 .. n : j # n => fstack'[j] = fstack[j]
      /\ UNCHANGED <<prog, fileIndex, stage, modules, struct, content, codegen, declared>>
  BY <1>1, ParseEndEffect
<1>3. \A j \in 1 .. n : j # n => fstack[j].pc = "wait"
  BY <1>1, CallersWait
<1>4. \A j \in 1 .. n : /\ fstack'[j].pc # "parse" /\ fstack[j].pc # "parse"
                        /\ fstack'[j].module = fstack[j].module
                        /\ fstack'[j].file = fstack[j].file
  BY <1>2, <1>3
<1>5. 1 \in 1 .. n
  BY <1>2
<1>6. QED
  BY <1>1, <1>2, <1>4, <1>5, FrontStepHeap

\* frontend() returns; the outermost one leaves the module of the file of the
\* command line, which nothing refers to yet, to backend().
LEMMA TypeCheckHeap ==
  ASSUME Inv, HeapInv, TypeCheck
  PROVE  HeapInv'
<1>1. PICK n : n = Len(fstack)
  OBVIOUS
<1>2. /\ stage = "frontend" /\ n \in Nat \ {0} /\ n \in 1 .. n /\ FTop = fstack[n]
      /\ FTop.pc = "check" /\ current \in Pointer
      /\ \A p \in Pointer : content'[p].path = content[p].path
      /\ UNCHANGED <<prog, fileIndex, modules, current, struct, codegen, declared>>
  BY <1>1, TypeCheckEffect
<1>3. FrontHeap /\ Heap /\ fileIndex # 0
  BY <1>2 DEF HeapInv
<1>4. CASE n # 1
  <2>1. /\ Len(fstack') = n - 1 /\ fstack' # <<>>
        /\ FTop' = fstack'[n - 1] /\ fstack'[n - 1].pc = "wait"
        /\ \A j \in 1 .. n - 1 : fstack'[j] = fstack[j] /\ j \in 1 .. n /\ j # n
        /\ UNCHANGED stage
    BY <1>1, <1>4, TypeCheckEffect
  <2>2. 1 \in 1 .. n - 1
    BY <1>2, <1>4
  <2>3. \A j \in 1 .. n - 1 : fstack[j].pc = "wait"
    BY <1>1, <2>1, CallersWait
  <2>4. \A j \in 1 .. Len(fstack') : /\ fstack'[j].pc # "parse" /\ j \in 1 .. Len(fstack)
                                     /\ fstack[j].pc # "parse" /\ fstack'[j] = fstack[j]
    BY <1>1, <2>1, <2>3
  <2>5. QED
    BY <1>2, <2>1, <2>2, <2>4, FrontStepHeap
<1>5. CASE n = 1
  <2>1. /\ stage' = "backend"
        /\ Len(bstack') = 1 /\ bstack' # <<>> /\ BTop' = bstack'[1]
        /\ bstack'[1].pc = "enter" /\ bstack'[1].own = 0
        /\ bstack'[1].orig = 0 /\ bstack'[1].k = 1
    BY <1>1, <1>5, TypeCheckEffect
  <2>2. /\ current = Root /\ struct[current] = current /\ current \notin codegen
        /\ ~Compiled(current) /\ content[current].path = prog.cmd[fileIndex]
    BY <1>1, <1>2, <1>3, <1>5 DEF FrontHeap, FrontFrameFresh
  <2>3. Past = fileIndex - 1 /\ Past' = fileIndex - 1 /\ Pointer' = Pointer
    BY <1>2, <2>1 DEF Past, Pointer
  <2>4. Heap'
    <3>1. codegen \subseteq Pointer
      BY DEF Inv, TypeOK
    <3>2. QED
      BY <1>2, <1>3, <2>1, <2>2, <2>3, <3>1, HeapKept
  <2>5. \A p : Compiled(p)' <=> Compiled(p)
    BY <1>2, <2>3 DEF Compiled
  <2>6. \A i \in 1 .. fileIndex - 1 : struct[modules[i]] # current
    <3>1. /\ \A i \in 1 .. fileIndex : modules[i] # 0
          /\ fileIndex \in Nat
      BY <1>1, <1>2, RootsOK DEF FrontHeap
    <3>2. TAKE i \in 1 .. fileIndex - 1
    <3>3. i \in 1 .. fileIndex /\ fileIndex \in 1 .. fileIndex /\ i # fileIndex
      BY <1>3, <3>1
    <3>4. RootsApart
      BY DEF HeapInv
    <3>5. struct[modules[i]] # struct[modules[fileIndex]]
      BY <3>1, <3>3, <3>4 DEF RootsApart
    <3>6. QED
      BY <2>2, <3>5 DEF Root
  <2>7. \A j \in 1 .. Len(bstack') : VisitOK(j)'
    <3>1. Visited(1)' = current
      BY <1>2, <2>1 DEF Visited
    <3>2. VisitOK(1)'
      BY <1>2, <2>1, <2>2, <2>3, <2>5, <2>6, <3>1 DEF VisitOK, Root
    <3>3. QED
      BY <2>1, <3>2
  <2>8. BackHeap'
    BY <1>2, <2>1, <2>2, <2>5, <2>7 DEF BackHeap, Root
  <2>9. QED
    BY <1>2, <1>3, <2>1, <2>4, <2>8, RootsKept DEF HeapInv
<1>6. QED
  BY <1>4, <1>5

\* A module that backend() does not find in codegen_modules holds its own
\* vectors, and no module of the command line that is compiled has them too.
LEMMA TargetFresh ==
  ASSUME Inv, HeapInv, stage = "backend", NEW q \in Pointer, ~InList(q)
  PROVE  /\ struct[q] = q /\ ~Compiled(q) /\ q \notin codegen
         /\ \A i \in 1 .. Past : struct[modules[i]] # q
         /\ PathOf(q) = content[q].path
<1>1. Heap
  BY DEF HeapInv
<1>2. ~ListedFor(q)
  BY DEF ListedFor, InList
<1>3. struct[q] = q /\ ~Compiled(q)
  BY <1>1, <1>2 DEF Heap, StaysListed
<1>4. PathOf(q) = content[q].path /\ PathOf(q) \in File
  BY <1>3, ContentOK DEF PathOf
<1>5. q \notin codegen
  BY <1>4, DriverAssumptions DEF InList
<1>6. \A i \in 1 .. Past : struct[modules[i]] # q
  BY <1>1, <1>3, <1>5 DEF Heap, CompiledHold
<1>7. QED
  BY <1>3, <1>4, <1>5, <1>6

\* The frames under the innermost one keep what they were called for.
LEMMA VisitKept ==
  ASSUME Inv, HeapInv, stage = "backend",
         UNCHANGED <<prog, fileIndex, stage, modules, content>>,
         \A i \in 1 .. Past : struct'[modules[i]] = struct[modules[i]],
         Pointer' = Pointer, declared \subseteq declared',
         NEW j \in 1 .. Len(bstack), bstack'[j].pc # "enter", bstack[j].pc # "enter",
         bstack'[j].own = bstack[j].own, bstack'[j].orig = bstack[j].orig,
         j # 1 => j - 1 \in 1 .. Len(bstack) /\ bstack'[j - 1].own = bstack[j - 1].own
                  /\ bstack'[j - 1].k = bstack[j - 1].k
  PROVE  VisitOK(j)'
<1>1. VisitOK(j)
  BY DEF HeapInv, BackHeap
<1>2. Past' = Past
  BY DEF Past
<1>3. \A p : Compiled(p)' <=> Compiled(p)
  BY <1>2 DEF Compiled
<1>4. Visited(j)' = bstack[j].own /\ Visited(j) = bstack[j].own
  BY DEF Visited
<1>5. PICK v : v = bstack[j].own
  OBVIOUS
<1>6. /\ v \in Pointer /\ ~Compiled(v)
      /\ \A i \in 1 .. Past : struct[modules[i]] # v
      /\ IF j = 1 THEN v = Root /\ bstack[j].orig = 0
         ELSE /\ v = content[bstack[j - 1].own].imports[bstack[j - 1].k]
              /\ bstack[j].orig = Root
              /\ j > 2 => content[v].path # prog.cmd[fileIndex]
      /\ content[v].path \in declared
  BY <1>1, <1>4, <1>5 DEF VisitOK
<1>7. /\ v \in Pointer' /\ ~Compiled(v)'
      /\ \A i \in 1 .. Past' : struct'[modules'[i]] # v
      /\ IF j = 1 THEN v = Root' /\ bstack'[j].orig = 0
         ELSE /\ v = content'[bstack'[j - 1].own].imports[bstack'[j - 1].k]
              /\ bstack'[j].orig = Root'
              /\ j > 2 => content'[v].path # prog'.cmd[fileIndex']
      /\ content'[v].path \in declared'
  BY <1>2, <1>3, <1>6 DEF Root
<1>8. QED
  BY <1>4, <1>5, <1>7 DEF VisitOK

\* backend() declares prototypes and copies the struct of its module to the stack.
LEMMA BackendEnterHeap ==
  ASSUME Inv, HeapInv, BackendEnter
  PROVE  HeapInv'
<1>1. PICK n : n = Len(bstack)
  OBVIOUS
<1>2. /\ stage = "backend" /\ n \in Nat \ {0} /\ n \in 1 .. n /\ BTop = bstack[n]
      /\ BTop.pc = "enter" /\ current \in Pointer /\ struct[current] \in Pointer
      /\ declared' = declared \union {PathOf(current)}
      /\ Len(bstack') = n /\ BTop' = bstack'[n] /\ bstack' # <<>>
      /\ bstack'[n].pc = "loop" /\ bstack'[n].own = struct[current]
      /\ bstack'[n].orig = BTop.orig /\ bstack'[n].k = BTop.k
      /\ \A j \in 1 .. n : j # n => bstack'[j] = bstack[j]
      /\ UNCHANGED <<prog, fileIndex, stage, modules, current, struct, content, codegen>>
  BY <1>1, BackendEnterEffect
<1>3. Heap /\ BackHeap
  BY <1>2 DEF HeapInv
<1>4. Past' = Past /\ codegen \subseteq Pointer /\ Pointer' = Pointer
  BY <1>2 DEF Past, Inv, TypeOK, Pointer
<1>5. Heap'
  BY <1>2, <1>3, <1>4, HeapKept
<1>6. struct[current] = current /\ PathOf(current) = content[current].path
  BY <1>2, <1>3 DEF BackHeap, PathOf
<1>7. \A p : Compiled(p)' <=> Compiled(p)
  BY <1>2, <1>4 DEF Compiled
<1>8. \A j \in 1 .. Len(bstack') : VisitOK(j)'
  <2>1. SUFFICES ASSUME NEW j \in 1 .. n PROVE VisitOK(j)'
    BY <1>2
  <2>2. VisitOK(j)
    BY <1>1, <1>3 DEF BackHeap
  <2>3. j - 1 \in Int /\ (j # 1 => j - 1 \in 1 .. n /\ j - 1 # n)
    BY <1>2
  <2>4. CASE j # n
    <3>1. bstack[j].pc = "wait"
      BY <1>1, <2>4, BackFramesOK
    <3>2. QED
      BY <1>1, <1>2, <1>4, <2>3, <2>4, <3>1, VisitKept
  <2>5. CASE j = n
    <3>1. Visited(j)' = current /\ Visited(j) = current
      BY <1>2, <1>6, <2>5 DEF Visited
    <3>2. j # 1 => bstack'[j - 1] = bstack[j - 1]
      BY <1>2, <2>3
    <3>3. content[current].path \in declared'
      BY <1>2, <1>6
    <3>4. QED
      BY <1>2, <1>4, <1>7, <2>2, <2>5, <3>1, <3>2, <3>3 DEF VisitOK, Root
  <2>6. QED
    BY <2>4, <2>5
<1>9. BackHeap'
  <2>1. BTop'.pc = "loop"
    BY <1>2
  <2>2. content'[current'].path \in declared'
    BY <1>2, <1>6
  <2>3. struct[Root] = Root \/ struct[Root] \in codegen
    BY <1>2, <1>3 DEF BackHeap
  <2>4. QED
    BY <1>2, <1>3, <1>7, <1>8, <2>1, <2>2, <2>3 DEF BackHeap, Root
<1>10. QED
  BY <1>2, <1>5, <1>9, RootsKept DEF HeapInv

\* backend() goes on to the next import.
LEMMA BackendNextHeap ==
  ASSUME Inv, HeapInv, BackendSkip \/ BackendOriginal \/ BackendReturn
  PROVE  HeapInv'
<1>1. PICK n : n = Len(bstack)
  OBVIOUS
<1>2. /\ stage = "backend" /\ n \in Nat \ {0} /\ n \in 1 .. n /\ BTop = bstack[n]
      /\ BTop.pc \in {"loop", "wait"} /\ NextImport \in Pointer
      /\ Len(bstack') = n /\ BTop' = bstack'[n] /\ bstack' # <<>>
      /\ bstack'[n].pc = "loop" /\ bstack'[n].own = BTop.own
      /\ bstack'[n].orig = BTop.orig
      /\ \A j \in 1 .. n : j # n => bstack'[j] = bstack[j]
      /\ UNCHANGED <<prog, fileIndex, stage, modules, struct, content, declared>>
  BY <1>1, BackendNextEffect
<1>3. \/ BTop.pc = "loop" /\ UNCHANGED <<current, codegen>>
      \/ /\ BTop.pc = "loop" /\ ~InList(NextImport) /\ IsOriginal(NextImport)
         /\ current' = NextImport /\ UNCHANGED codegen
      \/ /\ BTop.pc = "wait" /\ codegen' = codegen \union {NextImport}
         /\ UNCHANGED current
  BY <1>1, BackendNextEffect
<1>4. Heap /\ BackHeap
  BY <1>2 DEF HeapInv
<1>5. Past' = Past /\ codegen \subseteq Pointer /\ Pointer' = Pointer
  BY <1>2 DEF Past, Inv, TypeOK, Pointer
<1>6. \A p : Compiled(p)' <=> Compiled(p)
  BY <1>2, <1>5 DEF Compiled
<1>7. BTop.pc = "wait" => content[NextImport].path \in declared
  BY <1>4 DEF BackHeap
<1>8. /\ ~Compiled(current') /\ content[current'].path \in declared
      /\ current' = current \/ current' \notin codegen
  <2>1. CASE UNCHANGED current
    BY <1>2, <1>4, <2>1 DEF BackHeap
  <2>2. CASE ~InList(NextImport) /\ IsOriginal(NextImport) /\ current' = NextImport
    <3>1. ~Compiled(NextImport) /\ NextImport \notin codegen /\ PathOf(NextImport) = content[NextImport].path
      BY <1>2, <2>2, TargetFresh
    <3>2. VisitOK(n) /\ VisitOK(1) /\ 1 \in 1 .. n
      BY <1>1, <1>2, <1>4 DEF BackHeap
    <3>3. BTop.orig = Root
      BY <1>2, <2>2, <3>2 DEF VisitOK, IsOriginal
    <3>4. bstack[1].pc # "enter"
      BY <1>1, <1>2, <3>2, BackFramesOK
    <3>5. content[Root].path \in declared
      BY <3>2, <3>4 DEF VisitOK
    <3>6. QED
      BY <2>2, <3>1, <3>3, <3>5 DEF IsOriginal
  <2>3. QED
    BY <1>3, <2>1, <2>2
<1>9. codegen \subseteq codegen' /\ codegen' \subseteq Pointer
      /\ \A p \in codegen' \ codegen : content[p].path \in declared
  BY <1>2, <1>3, <1>5, <1>7
<1>10. Heap'
  BY <1>2, <1>4, <1>5, <1>8, <1>9, HeapKept
<1>11. \A j \in 1 .. Len(bstack') : VisitOK(j)'
  <2>1. SUFFICES ASSUME NEW j \in 1 .. n PROVE VisitOK(j)'
    BY <1>2
  <2>2. j - 1 \in Int /\ (j # 1 => j - 1 \in 1 .. n /\ j - 1 # n)
    BY <1>2
  <2>3. /\ bstack[j].pc # "enter" /\ bstack'[j].pc # "enter"
        /\ bstack'[j].own = bstack[j].own /\ bstack'[j].orig = bstack[j].orig
    <3>1. CASE j = n
      BY <1>2, <3>1
    <3>2. CASE j # n
      BY <1>1, <1>2, <3>2, BackFramesOK
    <3>3. QED
      BY <3>1, <3>2
  <2>4. QED
    BY <1>1, <1>2, <1>5, <2>2, <2>3, VisitKept
<1>12. struct[Root] = Root \/ struct[Root] \in codegen'
  BY <1>2, <1>3, <1>4 DEF BackHeap
<1>13. BackHeap'
  BY <1>2, <1>4, <1>6, <1>8, <1>11, <1>12 DEF BackHeap, Root
<1>14. QED
  BY <1>2, <1>10, <1>13, RootsKept DEF HeapInv

\* backend() calls itself for a module that was never overwritten.
LEMMA BackendCallHeap ==
  ASSUME Inv, HeapInv, BackendCall
  PROVE  HeapInv'
<1>1. PICK n : n = Len(bstack)
  OBVIOUS
<1>2. /\ stage = "backend" /\ n \in Nat \ {0} /\ n \in 1 .. n /\ BTop = bstack[n]
      /\ n + 1 \in Nat /\ n + 1 # n
      /\ BTop.pc = "loop" /\ BTop.own \in Pointer
      /\ NextImport \in Pointer /\ current' = NextImport
      /\ ~InList(NextImport) /\ ~IsOriginal(NextImport)
      /\ Len(bstack') = n + 1 /\ BTop' = bstack'[n + 1] /\ bstack' # <<>>
      /\ bstack'[n + 1].pc = "enter" /\ bstack'[n + 1].own = 0 /\ bstack'[n + 1].k = 1
      /\ bstack'[n + 1].orig = IF BTop.orig = 0 THEN BTop.own ELSE BTop.orig
      /\ bstack'[n].pc = "wait" /\ bstack'[n].own = BTop.own
      /\ bstack'[n].orig = BTop.orig /\ bstack'[n].k = BTop.k
      /\ \A j \in 1 .. n : j # n => bstack'[j] = bstack[j]
      /\ UNCHANGED <<prog, fileIndex, stage, modules, struct, content, codegen, declared>>
  BY <1>1, BackendCallEffect
<1>3. Heap /\ BackHeap
  BY <1>2 DEF HeapInv
<1>4. Past' = Past /\ codegen \subseteq Pointer /\ Pointer' = Pointer
  BY <1>2 DEF Past, Inv, TypeOK, Pointer
<1>5. PICK q \in Pointer : q = NextImport
  BY <1>2
<1>6. /\ struct[q] = q /\ ~Compiled(q) /\ q \notin codegen
      /\ \A i \in 1 .. Past : struct[modules[i]] # q
      /\ PathOf(q) = content[q].path
  BY <1>2, <1>5, TargetFresh
<1>7. Heap'
  BY <1>2, <1>3, <1>4, <1>5, <1>6, HeapKept
<1>8. \A p : Compiled(p)' <=> Compiled(p)
  BY <1>2, <1>4 DEF Compiled
<1>9. VisitOK(n) /\ Root \in Pointer /\ Root # 0
  <2>1. VisitOK(n) /\ VisitOK(1) /\ 1 \in 1 .. n
    BY <1>1, <1>2, <1>3 DEF BackHeap
  <2>2. Root \in Pointer
    BY <2>1 DEF VisitOK
  <2>3. 0 \notin Pointer
    BY DEF Pointer
  <2>4. QED
    BY <2>1, <2>2, <2>3
<1>10. bstack'[n + 1].orig = Root /\ (n > 1 => content[q].path # prog.cmd[fileIndex])
  <2>1. CASE n = 1
    <3>1. BTop.orig = 0 /\ BTop.own = Root
      BY <1>2, <1>9, <2>1 DEF VisitOK, Visited
    <3>2. QED
      BY <1>2, <2>1, <3>1
  <2>2. CASE n # 1
    <3>1. BTop.orig = Root
      BY <1>2, <1>9, <2>2 DEF VisitOK
    <3>2. PathOf(q) # content[Root].path
      BY <1>2, <1>5, <1>9, <3>1 DEF IsOriginal
    <3>3. QED
      BY <1>2, <1>3, <1>6, <1>9, <3>1, <3>2 DEF BackHeap
  <2>3. QED
    BY <2>1, <2>2
<1>11. \A j \in 1 .. Len(bstack') : VisitOK(j)'
  <2>1. SUFFICES ASSUME NEW j \in 1 .. n + 1 PROVE VisitOK(j)'
    BY <1>2
  <2>2. CASE j # n + 1
    <3>1. j \in 1 .. n /\ j - 1 \in Int /\ (j # 1 => j - 1 \in 1 .. n /\ j - 1 # n)
      BY <1>2, <2>1, <2>2
    <3>2. /\ bstack[j].pc # "enter" /\ bstack'[j].pc # "enter"
          /\ bstack'[j].own = bstack[j].own /\ bstack'[j].orig = bstack[j].orig
      <4>1. CASE j = n
        BY <1>2, <4>1
      <4>2. CASE j # n
        BY <1>1, <1>2, <3>1, <4>2, BackFramesOK
      <4>3. QED
        BY <4>1, <4>2
    <3>3. QED
      BY <1>1, <1>2, <1>4, <3>1, <3>2, VisitKept
  <2>3. CASE j = n + 1
    <3>1. Visited(j)' = q
      BY <1>2, <1>5, <2>3 DEF Visited
    <3>2. j # 1 /\ j - 1 = n /\ (j > 2 => n > 1) /\ j - 1 \in 1 .. n
      BY <1>2, <2>3
    <3>3. q = content'[bstack'[j - 1].own].imports[bstack'[j - 1].k]
      BY <1>2, <1>5, <3>2 DEF NextImport, BackendImports
    <3>4. bstack'[j].orig = Root' /\ (j > 2 => content'[q].path # prog'.cmd[fileIndex'])
      BY <1>2, <1>10, <2>3, <3>2 DEF Root
    <3>5. bstack'[j].pc = "enter" /\ bstack'[j].k = 1
      BY <1>2, <2>3
    <3>6. q \in Pointer' /\ ~Compiled(q)' /\ \A i \in 1 .. Past' : struct'[modules'[i]] # q
      BY <1>2, <1>4, <1>5, <1>6, <1>8
    <3>7. QED
      BY <3>1, <3>2, <3>3, <3>4, <3>5, <3>6 DEF VisitOK
  <2>4. QED
    BY <2>2, <2>3
<1>12. struct[Root] = Root \/ struct[Root] \in codegen
  BY <1>2, <1>3 DEF BackHeap
<1>13. BackHeap'
  BY <1>2, <1>3, <1>5, <1>6, <1>8, <1>11, <1>12 DEF BackHeap, Root
<1>14. QED
  BY <1>2, <1>7, <1>13, RootsKept DEF HeapInv

\* Only the module of the file being compiled can be overwritten among those of
\* the command line, and what it gets is not held by any of the others.
LEMMA CopyBackApart ==
  ASSUME Inv, HeapInv, ImportsDone, CopyBack, UNCHANGED <<modules, fileIndex, prog>>
  PROVE  /\ RootsApart' /\ \A i \in fileIndex' + 1 .. Len(prog'.cmd) : modules'[i] = 0
         /\ \A i \in 1 .. Past : modules[i] \in Pointer /\ modules[i] # current
         /\ Past = fileIndex - 1 /\ fileIndex \in Nat \ {0}
<1>1. PICK n : n = Len(bstack)
  OBVIOUS
<1>2. /\ stage = "backend" /\ n \in 1 .. n /\ BTop = bstack[n] /\ BTop.pc = "loop"
      /\ BTop.own \in Pointer /\ current \in Pointer
      /\ struct'[current] = BTop.own
      /\ \A p \in Pointer : p # current => struct'[p] = struct[p]
  BY <1>1, CopyBackEffect
<1>3. BackHeap /\ VisitOK(n)
  BY <1>1, <1>2 DEF HeapInv, BackHeap
<1>4. /\ ~Compiled(current) /\ Visited(n) = BTop.own
      /\ \A i \in 1 .. Past : struct[modules[i]] # BTop.own
  BY <1>2, <1>3 DEF BackHeap, VisitOK, Visited
<1>5. \A i \in 1 .. fileIndex : modules[i] \in Pointer /\ modules[i] # 0
  BY <1>2, RootsOK
<1>6. Past = fileIndex - 1 /\ fileIndex \in Nat \ {0}
  BY <1>2, CommandOK DEF Past, HeapInv
<1>7. \A i \in 1 .. fileIndex : i \in 1 .. Past \/ i = fileIndex
  BY <1>6
<1>8. \A i \in 1 .. Past : modules[i] # current /\ i \in 1 .. fileIndex
  BY <1>4, <1>6 DEF Compiled
<1>9. RootsApart'
  <2>1. SUFFICES ASSUME NEW i \in 1 .. fileIndex, NEW j \in 1 .. fileIndex, i # j
                 PROVE  modules[i] # modules[j] /\ struct'[modules[i]] # struct'[modules[j]]
    BY DEF RootsApart
  <2>2. modules[i] # modules[j] /\ struct[modules[i]] # struct[modules[j]]
    BY <1>5, <2>1 DEF HeapInv, RootsApart
  <2>3. CASE modules[i] = current
    <3>1. j \in 1 .. Past
      BY <1>7, <1>8, <2>1, <2>3
    <3>2. QED
      BY <1>2, <1>4, <1>5, <1>8, <2>2, <2>3, <3>1
  <2>4. CASE modules[j] = current
    <3>1. i \in 1 .. Past
      BY <1>7, <1>8, <2>1, <2>4
    <3>2. QED
      BY <1>2, <1>4, <1>5, <1>8, <2>2, <2>4, <3>1
  <2>5. CASE modules[i] # current /\ modules[j] # current
    BY <1>2, <1>5, <2>2, <2>5
  <2>6. QED
    BY <2>3, <2>4, <2>5
<1>10. QED
  BY <1>5, <1>6, <1>8, <1>9 DEF HeapInv

\* backend() generates code for the module it was called for and returns.
LEMMA GenerateCodeHeap ==
  ASSUME Inv, HeapInv, GenerateCode
  PROVE  HeapInv'
<1>1. PICK n : n = Len(bstack)
  OBVIOUS
<1>2. /\ ImportsDone /\ CopyBack
      /\ codegen' = IF \E p \in codegen : <<PathOf(p)', OwnPath>> \in Extends
                    THEN codegen ELSE codegen \union {current}
      /\ n = 1 => stage' = "next" /\ bstack' = <<>>
      /\ n # 1 => /\ n - 1 \in Nat \ {0} /\ n - 1 \in 1 .. n /\ n - 1 # n
                  /\ n = n - 1 + 1
                  /\ Len(bstack') = n - 1 /\ bstack' # <<>>
                  /\ BTop' = bstack'[n - 1] /\ bstack'[n - 1].pc = "wait"
                  /\ \A j \in 1 .. n - 1 : /\ bstack'[j] = bstack[j]
                                           /\ j \in 1 .. n /\ j # n
                  /\ UNCHANGED stage
      /\ UNCHANGED <<prog, fileIndex, modules, current, content, declared>>
  BY <1>1, GenerateCodeEffect
<1>3. /\ stage = "backend" /\ n \in Nat \ {0} /\ n \in 1 .. n /\ BTop = bstack[n]
      /\ BTop.pc = "loop" /\ BTop.own \in Pointer /\ current \in Pointer
      /\ struct'[current] = BTop.own
      /\ \A p \in Pointer : p # current => struct'[p] = struct[p]
      /\ Pointer' = Pointer
  BY <1>1, <1>2, CopyBackEffect
<1>4. /\ RootsApart' /\ \A i \in fileIndex' + 1 .. Len(prog'.cmd) : modules'[i] = 0
      /\ \A i \in 1 .. Past : modules[i] \in Pointer /\ modules[i] # current
      /\ Past = fileIndex - 1 /\ fileIndex \in Nat \ {0}
  BY <1>2, CopyBackApart
<1>5. Heap /\ BackHeap
  BY <1>3 DEF HeapInv
<1>6. PICK own \in Pointer, cur \in Pointer : own = BTop.own /\ cur = current
  BY <1>3
<1>7. VisitOK(n) /\ Visited(n) = own
  BY <1>1, <1>3, <1>5, <1>6 DEF BackHeap, Visited
<1>8. content[own].path \in declared /\ content[current].path \in declared
  BY <1>3, <1>5, <1>7 DEF BackHeap, VisitOK
<1>9. codegen \subseteq Pointer /\ codegen \subseteq codegen'
      /\ codegen' \subseteq codegen \union {current}
  BY <1>2 DEF Inv, TypeOK
<1>10. /\ OwnPath = content[own].path /\ PathOf(cur)' = content[own].path
       /\ \A p \in Pointer : p # cur => PathOf(p)' = PathOf(p)
  BY <1>2, <1>3, <1>6 DEF OwnPath, PathOf
<1>11. \E p \in codegen' : <<PathOf(p)', content[own].path>> \in Extends
                           /\ (p = cur \/ p \in codegen)
  <2>1. CASE \E p \in codegen : <<PathOf(p)', OwnPath>> \in Extends
    BY <1>2, <1>10, <2>1
  <2>2. CASE ~ \E p \in codegen : <<PathOf(p)', OwnPath>> \in Extends
    <3>1. content[own].path \in File
      BY ContentOK
    <3>2. cur \in codegen' /\ <<PathOf(cur)', content[own].path>> \in Extends
      BY <1>2, <1>6, <1>10, <2>2, <3>1, DriverAssumptions
    <3>3. QED
      BY <3>2
  <2>3. QED
    BY <2>1, <2>2
<1>12. Past' = IF n = 1 THEN fileIndex ELSE fileIndex - 1
  BY <1>2, <1>3 DEF Past
<1>13. \A p : Compiled(p)' <=> Compiled(p) \/ (n = 1 /\ p = Root)
  <2>1. \A i : i \in 1 .. fileIndex <=> i \in 1 .. fileIndex - 1 \/ i = fileIndex
    BY <1>4
  <2>2. QED
    BY <1>2, <1>4, <1>12, <2>1 DEF Compiled, Root
<1>14. n = 1 => own = Root
  BY <1>7 DEF VisitOK
<1>15. ~Compiled(current) /\ Root \in Pointer
  <2>1. VisitOK(1)
    BY <1>1, <1>3, <1>5 DEF BackHeap
  <2>2. QED
    BY <1>5, <2>1 DEF BackHeap, VisitOK
<1>16. OverwrittenDeclared'
  <2>1. SUFFICES ASSUME NEW q \in Pointer, struct'[q] # q
                 PROVE  PathOf(q)' \in declared /\ content[q].path \in declared
    BY <1>2, <1>3 DEF OverwrittenDeclared
  <2>2. CASE q = current
    BY <1>6, <1>8, <1>10, <2>2
  <2>3. CASE q # current
    BY <1>3, <1>5, <1>6, <1>10, <2>1, <2>3 DEF Heap, OverwrittenDeclared
  <2>4. QED
    BY <2>2, <2>3
<1>17. CodegenDeclared'
  BY <1>2, <1>5, <1>8, <1>9 DEF Heap, CodegenDeclared
<1>18. ASSUME NEW q \in Pointer, q # current, struct[q] # q \/ Compiled(q)
       PROVE  ListedFor(q)'
  <2>1. PICK p \in codegen : <<PathOf(p), PathOf(q)>> \in Extends /\ (p = q \/ p # current)
    BY <1>3, <1>5, <1>18 DEF Heap, StaysListed, ListedFor
  <2>2. PathOf(p)' = PathOf(p) /\ PathOf(q)' = PathOf(q) /\ p \in codegen'
    BY <1>6, <1>9, <1>10, <1>18, <2>1
  <2>3. QED
    BY <1>2, <2>1, <2>2 DEF ListedFor
<1>19. StaysListed'
  <2>1. SUFFICES ASSUME NEW q \in Pointer, struct'[q] # q \/ Compiled(q)'
                 PROVE  ListedFor(q)'
    BY <1>3 DEF StaysListed
  <2>2. CASE q = current
    <3>1. PICK p \in codegen' : <<PathOf(p)', content[own].path>> \in Extends
      BY <1>11
    <3>2. QED
      BY <1>2, <1>6, <1>10, <2>2, <3>1 DEF ListedFor
  <2>3. CASE q # current /\ (struct[q] # q \/ Compiled(q))
    BY <1>18, <2>3
  <2>4. CASE q # current /\ struct[q] = q /\ ~Compiled(q)
    <3>1. n = 1 /\ q = Root
      BY <1>3, <1>13, <2>1, <2>4
    <3>2. stage' = "next" /\ own = q
      BY <1>2, <1>14, <3>1
    <3>3. PathOf(q)' = content[own].path
      BY <1>6, <1>10, <2>4, <3>2 DEF PathOf
    <3>4. QED
      BY <1>11, <3>2, <3>3 DEF ListedFor
  <2>5. QED
    BY <2>2, <2>3, <2>4
<1>20. CompiledHold'
  <2>1. SUFFICES ASSUME NEW i \in 1 .. Past', NEW h, h = struct'[modules[i]]
                 PROVE  h \in codegen' \/ Compiled(h)'
    BY <1>2 DEF CompiledHold, Compiled
  <2>2. CASE i \in 1 .. Past
    <3>1. h = struct[modules[i]]
      BY <1>3, <1>4, <2>1, <2>2
    <3>2. h \in codegen \/ Compiled(h)
      BY <1>5, <2>2, <3>1 DEF Heap, CompiledHold
    <3>3. QED
      BY <1>9, <1>13, <3>2
  <2>3. CASE i \notin 1 .. Past
    <3>1. n = 1 /\ i = fileIndex
      BY <1>4, <1>12, <2>1, <2>3
    <3>2. modules[i] = Root /\ own = Root
      BY <1>14, <3>1 DEF Root
    <3>3. Compiled(own)'
      BY <1>13, <3>1, <3>2
    <3>4. struct[own] = own \/ struct[own] \in codegen
      BY <1>3, <1>5, <3>2 DEF BackHeap
    <3>5. h = own \/ h = struct[own]
      BY <1>3, <1>6, <2>1, <3>2
    <3>6. QED
      BY <1>9, <3>3, <3>4, <3>5
  <2>4. QED
    BY <2>2, <2>3
<1>21. Heap'
  BY <1>16, <1>17, <1>19, <1>20 DEF Heap
<1>22. CASE n = 1
  <2>1. stage' = "next"
    BY <1>2, <1>22
  <2>2. QED
    BY <1>4, <1>21, <2>1 DEF HeapInv
<1>23. CASE n # 1
  <2>1. \A j \in 1 .. Len(bstack') : VisitOK(j)'
    <3>1. SUFFICES ASSUME NEW j \in 1 .. n - 1 PROVE VisitOK(j)'
      BY <1>2, <1>23
    <3>2. j \in 1 .. n /\ j # n /\ j - 1 \in Int
          /\ (j # 1 => j - 1 \in 1 .. n /\ j - 1 \in 1 .. n - 1)
      BY <1>3
    <3>3. bstack[j].pc = "wait"
      BY <1>1, <3>2, BackFramesOK
    <3>4. \A i \in 1 .. Past : struct'[modules[i]] = struct[modules[i]]
      BY <1>3, <1>4
    <3>5. bstack'[j] = bstack[j] /\ (j # 1 => bstack'[j - 1] = bstack[j - 1])
      BY <1>2, <1>23, <3>2
    <3>6. QED
      BY <1>1, <1>2, <1>3, <1>23, <3>2, <3>3, <3>4, <3>5, VisitKept
  <2>2. NextImport' = own
    <3>1. own = content[bstack[n - 1].own].imports[bstack[n - 1].k]
      BY <1>7, <1>23 DEF VisitOK
    <3>2. BTop' = bstack[n - 1]
      <4>1. n - 1 \in 1 .. n - 1
        BY <1>2, <1>23
      <4>2. QED
        BY <1>2, <1>23, <4>1
    <3>3. QED
      BY <1>2, <3>1, <3>2 DEF NextImport, BackendImports
  <2>3. \/ struct'[Root'] = Root' \/ struct'[Root'] \in codegen'
        \/ struct'[Root'] = NextImport'
    <3>1. Root' = Root
      BY <1>2 DEF Root
    <3>2. struct[Root] = Root \/ struct[Root] \in codegen
      BY <1>3, <1>5 DEF BackHeap
    <3>3. QED
      BY <1>3, <1>6, <1>9, <1>15, <2>2, <3>1, <3>2
  <2>4. ~Compiled(current)'
    <3>1. PICK c : c = current
      OBVIOUS
    <3>2. ~Compiled(c)' /\ current' = c
      BY <1>2, <1>13, <1>15, <1>23, <3>1
    <3>3. QED
      BY <3>2 DEF Compiled
  <2>5. content'[Root'].path = prog'.cmd[fileIndex']
    BY <1>2, <1>5 DEF BackHeap, Root
  <2>6. BTop'.pc = "wait" /\ bstack' # <<>> /\ stage' = "backend"
    BY <1>2, <1>3, <1>23
  <2>7. content'[current'].path \in declared' /\ content'[NextImport'].path \in declared'
    BY <1>2, <1>8, <2>2
  <2>8. BackHeap'
    BY <1>2, <2>1, <2>3, <2>4, <2>5, <2>6, <2>7 DEF BackHeap
  <2>9. QED
    BY <1>2, <1>4, <1>21, <2>6, <2>8 DEF HeapInv
<1>24. QED
  BY <1>22, <1>23


\* Code generation fails after the saved struct was copied back.
LEMMA GenerateFailsHeap ==
  ASSUME Inv, HeapInv, RedefinitionFails \/ GenerateCodeFails
  PROVE  HeapInv'
<1>1. /\ ImportsDone /\ CopyBack /\ stage' = "done"
      /\ UNCHANGED <<modules, fileIndex, prog>>
  BY DEF RedefinitionFails, GenerateCodeFails, Ends
<1>2. RootsApart' /\ \A i \in fileIndex' + 1 .. Len(prog'.cmd) : modules'[i] = 0
  BY <1>1, CopyBackApart
<1>3. QED
  BY <1>1, <1>2 DEF HeapInv

\* Before the first file there is no module.
LEMMA InitHeap ==
  ASSUME Init
  PROVE  HeapInv
<1>1. /\ stage = "next" /\ fileIndex = 0 /\ Pointer = {} /\ codegen = {}
      /\ modules = [i \in 1 .. Len(prog.cmd) |-> 0]
  BY EmptySeq DEF Init, Pointer
<1>2. Past = 0
  BY <1>1 DEF Past
<1>3. Heap
  BY <1>1, <1>2 DEF Heap, OverwrittenDeclared, CodegenDeclared, StaysListed, CompiledHold
<1>4. RootsApart
  BY <1>1 DEF RootsApart
<1>5. \A i \in fileIndex + 1 .. Len(prog.cmd) : modules[i] = 0
  BY <1>1
<1>6. QED
  BY <1>1, <1>3, <1>4, <1>5 DEF HeapInv

\* Every step of the driver keeps what is known of the heap.
LEMMA NextHeap ==
  ASSUME Inv, HeapInv, [Next]_vars
  PROVE  HeapInv'
<1>1. CASE StartFile \/ FilesDone
  BY <1>1, StartFileHeap, FilesDoneHeap
<1>2. CASE \/ GenerateOutput \/ ParseFails \/ ImportOverflow \/ TypesOverflow \/ FunctionsOverflow
           \/ TypeCheckFails \/ DeclareFails
  <2>1. \E o : EndWith(o)
    BY <1>2 DEF GenerateOutput, ParseFails, ImportOverflow, TypesOverflow, FunctionsOverflow, TypeCheckFails, DeclareFails, Fails
  <2>2. QED
    BY <2>1, EndWithHeap
<1>3. CASE ParseFile \/ ParseEnd \/ TypeCheck
  BY <1>3, ParseFileHeap, ParseEndHeap, TypeCheckHeap
<1>4. CASE ImportRegistered \/ ImportOpen \/ ImportReturn
  BY <1>4, ImportHeap
<1>5. CASE ImportFile
  BY <1>5, ImportFileHeap
<1>6. CASE BackendEnter
  BY <1>6, BackendEnterHeap
<1>7. CASE BackendSkip \/ BackendOriginal \/ BackendReturn
  BY <1>7, BackendNextHeap
<1>8. CASE BackendCall
  BY <1>8, BackendCallHeap
<1>9. CASE GenerateCode
  BY <1>9, GenerateCodeHeap
<1>10. CASE RedefinitionFails \/ GenerateCodeFails
  BY <1>10, GenerateFailsHeap
<1>11. CASE UNCHANGED vars
  <2>1. UNCHANGED <<prog, fileIndex, stage, modules, current, struct, content, codegen,
                    declared, fstack, bstack>>
    BY <1>11 DEF vars
  <2>2. Heap' <=> Heap
    BY <2>1 DEF Heap, OverwrittenDeclared, CodegenDeclared, StaysListed, ListedFor,
                CompiledHold, Compiled, Past, Pointer, PathOf
  <2>3. FrontHeap' <=> FrontHeap
    BY <2>1 DEF FrontHeap, FrontFrameFresh, Compiled, Past, FTop, Root
  <2>4. \A j : VisitOK(j)' <=> VisitOK(j)
    BY <2>1 DEF VisitOK, Visited, Compiled, Past, Pointer, Root
  <2>5. BackHeap' <=> BackHeap
    BY <2>1, <2>4 DEF BackHeap, Compiled, Past, BTop, NextImport, BackendImports, Root
  <2>6. QED
    BY <2>1, <2>2, <2>3, <2>5 DEF HeapInv, RootsApart
<1>12. QED
  BY <1>1, <1>2, <1>3, <1>4, <1>5, <1>6, <1>7, <1>8, <1>9, <1>10, <1>11
     DEF Next, Step, Frontend, Backend, Terminated

\* What is known of the heap holds of every reachable state.
LEMMA HeapInvariant == Spec => []HeapInv
<1>1. Init => HeapInv
  BY InitHeap
<1>2. Inv /\ HeapInv /\ [Next]_vars => HeapInv'
  BY NextHeap
<1>3. QED
  BY <1>1, <1>2, Invariant, PTL DEF Spec

\* However many files the command line has, however they import each other and
\* wherever the compilation ends, context_destruct() meets no vector twice: the
\* memcpy()s of backend() leave the modules of the command line with structs of
\* their own (main.c:118-130, 934).
THEOREM NeverFreedTwice == Spec => []FreedOnce
<1>1. Inv /\ HeapInv => FreedOnce
  <2>1. SUFFICES ASSUME Inv, HeapInv, NEW i \in 1 .. Len(modules), NEW j \in 1 .. Len(modules),
                        i # j, modules[i] # 0, modules[j] # 0
                 PROVE  struct[modules[i]] # struct[modules[j]]
    BY DEF FreedOnce
  <2>2. Len(modules) = Len(prog.cmd) /\ Len(prog.cmd) \in Nat /\ fileIndex \in Nat
    <3>1. Len(prog.cmd) \in Nat /\ fileIndex \in Nat
      BY <2>1, CommandOK
    <3>2. modules \in [1 .. Len(prog.cmd) -> 0 .. Len(struct)]
      BY <2>1 DEF Inv, TypeOK
    <3>3. modules \in Seq(0 .. Len(struct)) /\ Len(modules) = Len(prog.cmd)
      BY <3>1, <3>2
    <3>4. QED
      BY <3>1, <3>3
  <2>3. i \in 1 .. fileIndex /\ j \in 1 .. fileIndex
    BY <2>1, <2>2 DEF HeapInv
  <2>4. QED
    BY <2>1, <2>3 DEF HeapInv, RootsApart
<1>2. QED
  BY <1>1, Invariant, HeapInvariant, PTL

===============================================================================
