----------------------------- MODULE OutputProofs -----------------------------
(***************************************************************************)
(* Theorems about the last stage, for a file of any size and every set of  *)
(* calls that may fail.                                                    *)
(***************************************************************************)
EXTENDS Output, TLAPS

\* What each place of generate_output() knows of the files.
BeforeOutput ==
  /\ parent \in {"optimize", "bitcode", "mkstemps", "emit", "close", "fork", "rename",
                 "open"} => output = Old /\ child = "none"
  /\ parent = "rename" => block = 1
  /\ parent \in {"optimize", "mkstemps", "emit", "close"} => block = 1

TempKnown ==
  /\ parent \in {"close", "fork", "wait", "unlink", "rename"} => temp = "code"
  /\ parent \in {"optimize", "bitcode"} => temp = "none"

\* The child runs while the parent waits for it.
ChildKnown ==
  /\ child # "none" => parent \in {"wait", "unlink", "returned"}
  /\ child \in {"exec", "gcc"} => parent = "wait"
  /\ child = "exited" => output = Code \/ "gcc" \in failed
  /\ child = "returned" => "exec" \in failed
  /\ parent \in {"wait", "unlink"} /\ child = "none" => "fork" \in failed

\* IO_copy() has written every block before the one it is at, or dropped one.
CopyKnown ==
  /\ parent \in {"open", "copy", "fclose"} => "rename" \in failed
  /\ parent = "copy" => block <= Blocks /\ (output = 1 .. block - 1 \/ "write" \in failed)
  /\ parent = "open" => block = 1
  /\ parent = "fclose" => output = Code \/ "write" \in failed
  /\ parent # "returned" => status = "running"

Inv ==
  /\ TypeOK
  /\ BeforeOutput /\ TempKnown /\ ChildKnown /\ CopyKnown
  /\ SuccessUnlessDropped
  /\ OldOutputKept
  /\ TempRemoved

\* The stage starts with the old output and without a temporary file.
LEMMA InitInv == Init => Inv
BY OutputAssumptions
   DEF Init, Inv, TypeOK, BeforeOutput, TempKnown, ChildKnown, CopyKnown,
       SuccessUnlessDropped, OldOutputKept, TempRemoved, Old, Code

\* What a file may hold, and how a copy grows.
LEMMA FilesOK ==
  /\ Old \subseteq 0 .. Blocks /\ Code \subseteq 0 .. Blocks
  /\ 1 \in 1 .. Blocks + 1 /\ 1 <= Blocks /\ 1 .. 1 - 1 = {}
BY OutputAssumptions DEF Old, Code

\* Every step of the compiler and of its child keeps the invariant.
LEMMA NextInv ==
  ASSUME Inv, [Next]_vars
  PROVE  Inv'
<1> USE DEF Works, Fail, Return, Goto
<1>1. CASE Optimize
  <2>1. TypeOK'
    BY <1>1, FilesOK DEF Inv, TypeOK, Optimize
  <2>2. BeforeOutput' /\ TempKnown'
    BY <1>1 DEF Inv, TypeOK, BeforeOutput, TempKnown, CopyKnown, Optimize
  <2>3. ChildKnown'
    BY <1>1 DEF Inv, TypeOK, BeforeOutput, TempKnown, ChildKnown, Optimize
  <2>4. CopyKnown'
    BY <1>1, OutputAssumptions DEF Inv, TypeOK, BeforeOutput, ChildKnown, CopyKnown, Code, Optimize
  <2>5. SuccessUnlessDropped' /\ OldOutputKept' /\ TempRemoved'
    BY <1>1 DEF Inv, BeforeOutput, TempKnown, ChildKnown, CopyKnown, SuccessUnlessDropped,
                OldOutputKept, TempRemoved, Optimize
  <2>6. QED
    BY <2>1, <2>2, <2>3, <2>4, <2>5 DEF Inv
<1>2. CASE WriteBitcode
  BY <1>2, OutputAssumptions
     DEF Inv, TypeOK, BeforeOutput, TempKnown, ChildKnown, CopyKnown,
         SuccessUnlessDropped, OldOutputKept, TempRemoved, Old, Code, WriteBitcode
<1>3. CASE MakeTemp
  BY <1>3, OutputAssumptions
     DEF Inv, TypeOK, BeforeOutput, TempKnown, ChildKnown, CopyKnown,
         SuccessUnlessDropped, OldOutputKept, TempRemoved, Old, Code, MakeTemp
<1>4. CASE Emit
  BY <1>4, OutputAssumptions
     DEF Inv, TypeOK, BeforeOutput, TempKnown, ChildKnown, CopyKnown,
         SuccessUnlessDropped, OldOutputKept, TempRemoved, Old, Code, Emit
<1>5. CASE Close
  BY <1>5, OutputAssumptions
     DEF Inv, TypeOK, BeforeOutput, TempKnown, ChildKnown, CopyKnown,
         SuccessUnlessDropped, OldOutputKept, TempRemoved, Old, Code, Close
<1>6. CASE Fork
  BY <1>6, OutputAssumptions
     DEF Inv, TypeOK, BeforeOutput, TempKnown, ChildKnown, CopyKnown,
         SuccessUnlessDropped, OldOutputKept, TempRemoved, Old, Code, Fork
<1>7. CASE Wait
  BY <1>7, OutputAssumptions
     DEF Inv, TypeOK, BeforeOutput, TempKnown, ChildKnown, CopyKnown,
         SuccessUnlessDropped, OldOutputKept, TempRemoved, Old, Code, Wait
<1>8. CASE Unlink
  BY <1>8, OutputAssumptions
     DEF Inv, TypeOK, BeforeOutput, TempKnown, ChildKnown, CopyKnown,
         SuccessUnlessDropped, OldOutputKept, TempRemoved, Old, Code, Unlink
<1>9. CASE Rename
  <2>1. TypeOK'
    BY <1>9, FilesOK DEF Inv, TypeOK, Rename
  <2>2. BeforeOutput' /\ TempKnown'
    BY <1>9 DEF Inv, TypeOK, BeforeOutput, TempKnown, CopyKnown, Rename
  <2>3. ChildKnown'
    BY <1>9 DEF Inv, TypeOK, BeforeOutput, TempKnown, ChildKnown, Rename
  <2>4. CopyKnown'
    BY <1>9, OutputAssumptions DEF Inv, TypeOK, BeforeOutput, ChildKnown, CopyKnown, Code, Rename
  <2>5. SuccessUnlessDropped' /\ OldOutputKept' /\ TempRemoved'
    BY <1>9 DEF Inv, BeforeOutput, TempKnown, ChildKnown, CopyKnown, SuccessUnlessDropped,
                OldOutputKept, TempRemoved, Rename
  <2>6. QED
    BY <2>1, <2>2, <2>3, <2>4, <2>5 DEF Inv
<1>10. CASE CopyOpen
  <2>1. TypeOK'
    BY <1>10, FilesOK DEF Inv, TypeOK, CopyOpen
  <2>2. BeforeOutput' /\ TempKnown'
    BY <1>10 DEF Inv, TypeOK, BeforeOutput, TempKnown, CopyKnown, CopyOpen
  <2>3. ChildKnown'
    BY <1>10 DEF Inv, TypeOK, BeforeOutput, TempKnown, ChildKnown, CopyOpen
  <2>4. CopyKnown'
    BY <1>10, FilesOK DEF Inv, TypeOK, ChildKnown, CopyKnown, CopyOpen
  <2>5. SuccessUnlessDropped' /\ OldOutputKept' /\ TempRemoved'
    BY <1>10 DEF Inv, BeforeOutput, TempKnown, ChildKnown, CopyKnown, SuccessUnlessDropped,
                OldOutputKept, TempRemoved, CopyOpen
  <2>6. QED
    BY <2>1, <2>2, <2>3, <2>4, <2>5 DEF Inv
<1>11. CASE CopyBlock
  <2>1. /\ parent = "copy" /\ block \in 1 .. Blocks /\ block' = block + 1
        /\ Blocks \in Nat
        /\ output = 1 .. block - 1 \/ "write" \in failed
        /\ "rename" \in failed /\ status = "running"
    BY <1>11, OutputAssumptions DEF Inv, TypeOK, CopyKnown, CopyBlock
  <2>2. \/ failed' = failed /\ output' = output \union {block}
        \/ failed' = failed \union {"write"} /\ "write" \in Failing /\ output' = output
    BY <1>11 DEF CopyBlock
  <2>3. block' \in 1 .. Blocks + 1 /\ output' \subseteq 0 .. Blocks
    <3>1. block + 1 \in 1 .. Blocks + 1 /\ block \in 0 .. Blocks
      BY <2>1
    <3>2. output \subseteq 0 .. Blocks
      BY DEF Inv, TypeOK
    <3>3. QED
      BY <2>1, <2>2, <3>1, <3>2
  <2>4. output' = 1 .. block \/ "write" \in failed'
    <3>1. (1 .. block - 1) \union {block} = 1 .. block
      BY <2>1
    <3>2. QED
      BY <2>1, <2>2, <3>1
  <2>5. UNCHANGED <<options, child, temp, status>>
        /\ parent' = IF block = Blocks THEN "fclose" ELSE "copy"
    BY <1>11 DEF CopyBlock
  <2>6. TypeOK'
    <3>1. failed' \subseteq Failing
      BY <2>2 DEF Inv, TypeOK
    <3>2. QED
      BY <2>3, <2>5, <3>1 DEF Inv, TypeOK
  <2>7. BeforeOutput' /\ TempKnown' /\ ChildKnown'
    BY <2>1, <2>2, <2>5 DEF Inv, BeforeOutput, TempKnown, ChildKnown
  <2>8. CopyKnown'
    <3>1. block' - 1 = block /\ (block # Blocks => block' <= Blocks)
      BY <2>1
    <3>2. QED
      BY <2>1, <2>2, <2>4, <2>5, <3>1 DEF CopyKnown, Code
  <2>9. SuccessUnlessDropped' /\ OldOutputKept' /\ TempRemoved'
    BY <2>1, <2>5 DEF SuccessUnlessDropped, OldOutputKept, TempRemoved
  <2>10. QED
    BY <2>6, <2>7, <2>8, <2>9 DEF Inv
<1>12. CASE CopyReadFails
  BY <1>12, OutputAssumptions
     DEF Inv, TypeOK, BeforeOutput, TempKnown, ChildKnown, CopyKnown,
         SuccessUnlessDropped, OldOutputKept, TempRemoved, Old, Code, CopyReadFails
<1>13. CASE CopyClose
  BY <1>13, OutputAssumptions
     DEF Inv, TypeOK, BeforeOutput, TempKnown, ChildKnown, CopyKnown,
         SuccessUnlessDropped, OldOutputKept, TempRemoved, Old, Code, CopyClose
<1>14. CASE Exec
  BY <1>14, OutputAssumptions
     DEF Inv, TypeOK, BeforeOutput, TempKnown, ChildKnown, CopyKnown,
         SuccessUnlessDropped, OldOutputKept, TempRemoved, Old, Code, Exec
<1>15. CASE Link
  <2>1. TypeOK'
    BY <1>15, FilesOK DEF Inv, TypeOK, Link
  <2>2. BeforeOutput' /\ TempKnown'
    BY <1>15 DEF Inv, TypeOK, BeforeOutput, TempKnown, CopyKnown, Link
  <2>3. ChildKnown'
    BY <1>15 DEF Inv, TypeOK, BeforeOutput, TempKnown, ChildKnown, Link
  <2>4. CopyKnown'
    BY <1>15, OutputAssumptions DEF Inv, TypeOK, BeforeOutput, ChildKnown, CopyKnown, Code, Link
  <2>5. SuccessUnlessDropped' /\ OldOutputKept' /\ TempRemoved'
    BY <1>15 DEF Inv, BeforeOutput, TempKnown, ChildKnown, CopyKnown, SuccessUnlessDropped,
                OldOutputKept, TempRemoved, Link
  <2>6. QED
    BY <2>1, <2>2, <2>3, <2>4, <2>5 DEF Inv
<1>16. CASE UNCHANGED vars
  <2>1. TypeOK' /\ BeforeOutput' /\ TempKnown' /\ ChildKnown'
    <3>1. TypeOK'
      BY <1>16 DEF Inv, TypeOK, vars
    <3>2. BeforeOutput' /\ TempKnown'
      BY <1>16 DEF Inv, BeforeOutput, TempKnown, vars
    <3>3. ChildKnown'
      BY <1>16 DEF Inv, ChildKnown, vars
    <3>4. QED
      BY <3>1, <3>2, <3>3
  <2>2. CopyKnown' /\ SuccessUnlessDropped' /\ OldOutputKept' /\ TempRemoved'
    BY <1>16 DEF Inv, CopyKnown, SuccessUnlessDropped, OldOutputKept, TempRemoved, vars
  <2>3. QED
    BY <2>1, <2>2 DEF Inv
<1>17. QED
  BY <1>1, <1>2, <1>3, <1>4, <1>5, <1>6, <1>7, <1>8, <1>9,
     <1>10, <1>11, <1>12, <1>13, <1>14, <1>15, <1>16 DEF Next, Parent, Child, Terminated

\* The invariant holds of every reachable state of the two processes.
LEMMA Invariant == Spec => []Inv
<1>1. Inv /\ [Next]_vars => Inv'
  BY NextInv
<1>2. QED
  BY <1>1, InitInv, PTL DEF Spec

\* While a linker may read the object file, the compiler does not remove it:
\* wait() stands between fork() and unlink() (main.c:837-846).
THEOREM LinkerAlwaysHasObject == Spec => []LinkerHasObject
<1>1. Inv => LinkerHasObject
  BY DEF Inv, ChildKnown, TempKnown, LinkerHasObject
<1>2. QED
  BY <1>1, Invariant, PTL

\* Whatever the size of the file, a success without the whole output is owed to
\* a call whose result the code drops.
THEOREM SuccessOnlyDropped == Spec => []SuccessUnlessDropped
<1>1. Inv => SuccessUnlessDropped
  BY DEF Inv
<1>2. QED
  BY <1>1, Invariant, PTL

\* An error before IO_copy() leaves the output path as it was.
THEOREM ErrorsKeepOutput == Spec => []OldOutputKept
<1>1. Inv => OldOutputKept
  BY DEF Inv
<1>2. QED
  BY <1>1, Invariant, PTL

\* Every variable keeps its type, and IO_copy() reads at most one block past the last.
THEOREM OutputTypeCorrect == Spec => []TypeOK
<1>1. Inv => TypeOK
  BY DEF Inv
<1>2. QED
  BY <1>1, Invariant, PTL

\* For a file of any size, a success leaves a temporary file only where unlink() or rename()
\* failed: no other failure, in either process, gets past the removal of the file.
THEOREM SuccessRemovesTemp == Spec => []TempRemoved
<1>1. Inv => TempRemoved
  BY DEF Inv
<1>2. QED
  BY <1>1, Invariant, PTL

===============================================================================
