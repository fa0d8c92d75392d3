----------------------------- MODULE ImportProofs -----------------------------
(***************************************************************************)
(* Theorems about the modules of a compilation: what parse() binds the     *)
(* imports to, what the memcpy()s of backend() overwrite, how deep the two *)
(* recursions go - for every set of programs, any number of files on the   *)
(* command line and whatever cycles the imports make; and, for one file on *)
(* the command line, what the modules see, that it is declared when their  *)
(* code is generated, that the driver implements BuildOrder, and that no   *)
(* file is compiled twice.                                                 *)
(***************************************************************************)
EXTENDS DriverProofs, FiniteSetTheorems

-----------------------------------------------------------------------------
(* The imports *)

Roots == {modules[i] : i \in 1 .. fileIndex} \ {0}
Working == {fstack[j].module : j \in 1 .. Len(fstack)}

\* The modules of imported files whose frontend() has returned
Done == Pointer \ (Roots \union Working)
DoneFiles == {content[p].path : p \in Done}

\* What an import of the file x may be bound to
Bound(q, x) == \/ q \in Done /\ content[q].path = x
               \/ q \in Roots /\ (content[q].path = x \/ x \in declared)

ImportsBound ==
  \A c \in Pointer : \A i \in 1 .. Len(content[c].imports) :
    Bound(content[c].imports[i], prog.imports[content[c].path][i])

TableBound == \A e \in table : Bound(e.module, e.path)

AllBound ==
  \A c \in Pointer \ Working :
    Len(content[c].imports) = Len(prog.imports[content[c].path])

\* A path that parse() does not call frontend() for any more
Met(x) == x \in DoneFiles \/ Registered(x) # {}

DoneImportsMet ==
  \A f \in DoneFiles : \A i \in 1 .. Len(prog.imports[f]) : Met(prog.imports[f][i])

\* Whatever cycles there are, none is made of modules that were parsed as imports.
DoneAcyclic ==
  \A S \in SUBSET DoneFiles :
    S # {} => \E f \in S : Range(prog.imports[f]) \intersect S = {}

Graph == ImportsBound /\ TableBound /\ AllBound /\ DoneImportsMet /\ DoneAcyclic

\* A frame has bound the imports before the one it is at, and all in the end.
FrameBound(f) ==
  /\ f.k <= Len(prog.imports[f.file]) + 1
  /\ f.pc = "check" => f.k = Len(prog.imports[f.file]) + 1
  /\ f.pc # "parse" => Len(content[f.module].imports) = f.k - 1

\* The nested calls of parse() work on different modules.
FramesApart ==
  \A i, j \in 1 .. Len(fstack) :
    (i # j /\ fstack[i].pc # "parse" /\ fstack[j].pc # "parse") =>
      fstack[i].module # fstack[j].module

\* Each nested call was made for the import its caller is at.
FramesChained ==
  \A j \in 1 .. Len(fstack) : j # Len(fstack) =>
    fstack[j + 1].file = prog.imports[fstack[j].file][fstack[j].k]

\* A nested call was made for a file that was neither open nor registered, and
\* nothing has registered it since, but the end of a call deeper down.
NestedFrame(f) ==
  /\ OpenFiles(f.file) = {}
  /\ Registered(f.file) # {} => f.file \in DoneFiles
  /\ f.file \notin DoneFiles =>
       \A i \in 1 .. f.k - 1 : Met(prog.imports[f.file][i])

FrontGraph ==
  /\ \A j \in 1 .. Len(fstack) : FrameBound(fstack[j])
  /\ FramesApart /\ FramesChained
  /\ \A j \in 2 .. Len(fstack) : NestedFrame(fstack[j])
  /\ FTop.pc = "wait" => current \in Done /\ content[current].path = Requested

\* Until the first backend() runs nothing is declared or overwritten.
Untouched == fileIndex = 0 \/ (fileIndex = 1 /\ stage = "frontend")

GraphInv ==
  /\ fileIndex = 0 => stage = "next" /\ Pointer = {} /\ table = {}
  /\ Untouched => declared = {}
  /\ stage # "done" => Graph
  /\ stage = "frontend" => FrontGraph

\* No path of a file is the beginning of another's.
PathsApart == \A e \in Extends : e[1] = e[2]

\* The imports that a backend() has visited are declared.
VisitedDeclared ==
  (PathsApart /\ stage = "backend") =>
    \A j \in 1 .. Len(bstack) : bstack[j].pc # "enter" =>
      \A i \in 1 .. bstack[j].k - 1 : prog.imports[content[bstack[j].own].path][i] \in declared

-----------------------------------------------------------------------------
(* Each action preserves what is known of the imports *)

\* What an import may be bound to stays so.
LEMMA BoundKept ==
  ASSUME NEW q \in Pointer, NEW x, Bound(q, x),
         q \in Done => q \in Done', q \in Roots => q \in Roots',
         content'[q].path = content[q].path, declared \subseteq declared'
  PROVE  Bound(q, x)'
BY DEF Bound

\* A path that is met stays so.
LEMMA MetKept ==
  ASSUME NEW x, Met(x), DoneFiles \subseteq DoneFiles', table \subseteq table'
  PROVE  Met(x)'
BY DEF Met, Registered

\* A step that adds no module and finishes none.
LEMMA GraphKept ==
  ASSUME Inv, Graph, UNCHANGED prog, Pointer' = Pointer, Done' = Done, Roots' = Roots,
         \A p \in Pointer : content'[p].path = content[p].path,
         declared \subseteq declared', table \subseteq table',
         \A e \in table' : e.module \in Pointer,
         \A e \in table' \ table : Bound(e.module, e.path),
         \A c \in Pointer : \A i \in 1 .. Len(content'[c].imports) :
           /\ content'[c].imports[i] \in Pointer
           /\ Bound(content'[c].imports[i], prog.imports[content[c].path][i]),
         \A c \in Pointer \ Working' :
           Len(content'[c].imports) = Len(prog.imports[content[c].path])
  PROVE  Graph' /\ DoneFiles' = DoneFiles
<1>1. DoneFiles' = DoneFiles
  BY DEF DoneFiles, Done
<1>2. ImportsBound'
  <2>1. SUFFICES ASSUME NEW c \in Pointer, NEW i \in 1 .. Len(content'[c].imports),
                        NEW q, q = content'[c].imports[i]
                 PROVE  Bound(q, prog.imports[content[c].path][i])'
    BY DEF ImportsBound, Bound
  <2>2. q \in Pointer /\ Bound(q, prog.imports[content[c].path][i])
    BY <2>1
  <2>3. content'[c].path = content[c].path
    BY <2>1
  <2>4. PICK x : x = prog.imports[content[c].path][i]
    OBVIOUS
  <2>5. Bound(q, x)'
    BY <2>2, <2>4, BoundKept
  <2>6. QED
    BY <2>3, <2>4, <2>5 DEF Bound
<1>3. TableBound'
  <2>1. SUFFICES ASSUME NEW e \in table' PROVE Bound(e.module, e.path)'
    BY DEF TableBound
  <2>2. e.module \in Pointer /\ Bound(e.module, e.path)
    BY <2>1 DEF Graph, TableBound
  <2>3. QED
    BY <2>2, BoundKept
<1>4. AllBound'
  BY DEF AllBound
<1>5. DoneImportsMet'
  <2>1. SUFFICES ASSUME NEW f \in DoneFiles, NEW i \in 1 .. Len(prog.imports[f]),
                        NEW x, x = prog.imports[f][i]
                 PROVE  Met(x)'
    BY <1>1 DEF DoneImportsMet, Met, Registered
  <2>2. Met(x)
    BY <2>1 DEF Graph, DoneImportsMet
  <2>3. QED
    BY <1>1, <2>2, MetKept
<1>6. DoneAcyclic'
  BY <1>1 DEF Graph, DoneAcyclic
<1>7. QED
  BY <1>1, <1>2, <1>3, <1>4, <1>5, <1>6 DEF Graph

\* Imports that a step leaves alone are bound as before.
LEMMA ImportsKept ==
  ASSUME Inv, Graph, UNCHANGED table,
         \A p \in Pointer : content'[p].imports = content[p].imports,
         Working' \intersect Pointer = Working \intersect Pointer
  PROVE  /\ \A e \in table' : e.module \in Pointer
         /\ \A c \in Pointer : \A i \in 1 .. Len(content'[c].imports) :
              /\ content'[c].imports[i] \in Pointer
              /\ Bound(content'[c].imports[i], prog.imports[content[c].path][i])
         /\ \A c \in Pointer \ Working' :
              Len(content'[c].imports) = Len(prog.imports[content[c].path])
<1>1. \A e \in table : e.module \in Pointer
  BY DEF Inv, TypeOK
<1>2. \A c \in Pointer : \A i \in 1 .. Len(content[c].imports) :
        /\ content[c].imports[i] \in Pointer
        /\ Bound(content[c].imports[i], prog.imports[content[c].path][i])
  BY ContentOK DEF Graph, ImportsBound
<1>3. QED
  BY <1>1, <1>2 DEF Graph, AllBound

\* No step of backend(), and none of main() between the files, touches the graph.
LEMMA OutsideGraph ==
  ASSUME Inv, GraphInv, stage # "done", stage # "frontend", fileIndex # 0,
         stage' # "frontend", stage' # "done" => fstack' = <<>>,
         UNCHANGED <<prog, fileIndex, modules, content, table>>,
         Pointer' = Pointer, declared \subseteq declared'
  PROVE  GraphInv'
<1>1. ASSUME stage' # "done" PROVE Graph'
  <2>1. Graph /\ fstack = <<>> /\ fstack' = <<>>
    BY <1>1 DEF GraphInv, Inv, StacksApart
  <2>2. Working = {} /\ Working' = {}
    BY <2>1, EmptySeq DEF Working
  <2>3. Roots' = Roots /\ Done' = Done
    BY <2>2 DEF Roots, Done
  <2>4. /\ \A e \in table' : e.module \in Pointer
        /\ \A c \in Pointer : \A i \in 1 .. Len(content'[c].imports) :
             /\ content'[c].imports[i] \in Pointer
             /\ Bound(content'[c].imports[i], prog.imports[content[c].path][i])
        /\ \A c \in Pointer \ Working' :
             Len(content'[c].imports) = Len(prog.imports[content[c].path])
    BY <2>1, <2>2, ImportsKept
  <2>5. QED
    BY <2>1, <2>3, <2>4, GraphKept
<1>2. QED
  BY <1>1 DEF GraphInv, Untouched

\* main() enters a file: it has no module yet.
LEMMA StartFileGraph ==
  ASSUME Inv, HeapInv, GraphInv, StartFile
  PROVE  GraphInv'
<1>1. /\ stage = "next" /\ stage' = "frontend"
      /\ fileIndex' = fileIndex + 1 /\ fileIndex' \in 1 .. Len(prog.cmd)
      /\ Len(fstack') = 1 /\ fstack' # <<>> /\ FTop' = fstack'[1]
      /\ fstack'[1].pc = "parse" /\ fstack'[1].module = 0 /\ fstack'[1].k = 1
      /\ fstack'[1].file = prog.cmd[fileIndex']
      /\ UNCHANGED <<prog, modules, current, struct, content, table, codegen, declared,
                     emitted, bstack, outcome>>
  BY StartFileEffect
<1>2. fileIndex \in Nat /\ fileIndex' \in Nat \ {0} /\ prog.imports \in [File -> Seq(File)]
      /\ prog.cmd[fileIndex'] \in File
  BY <1>1, CommandOK
<1>3. Graph /\ fstack = <<>>
  BY <1>1 DEF GraphInv, Inv, StacksApart
<1>4. Working = {} /\ Working' = {0} /\ Pointer' = Pointer /\ 0 \notin Pointer
  <2>1. Working = {}
    BY <1>3, EmptySeq DEF Working
  <2>2. Working' = {0}
    BY <1>1 DEF Working
  <2>3. QED
    BY <1>1, <2>1, <2>2 DEF Pointer
<1>5. Roots' = Roots
  <2>1. modules[fileIndex + 1] = 0
    BY <1>1, <1>2, CommandOK DEF HeapInv
  <2>2. \A i : i \in 1 .. fileIndex' <=> i \in 1 .. fileIndex \/ i = fileIndex + 1
    BY <1>1, <1>2
  <2>3. QED
    BY <1>1, <2>1, <2>2 DEF Roots
<1>6. Done' = Done
  BY <1>4, <1>5 DEF Done
<1>7. Graph'
  <2>1. /\ \A e \in table' : e.module \in Pointer
        /\ \A c \in Pointer : \A i \in 1 .. Len(content'[c].imports) :
             /\ content'[c].imports[i] \in Pointer
             /\ Bound(content'[c].imports[i], prog.imports[content[c].path][i])
        /\ \A c \in Pointer \ Working' :
             Len(content'[c].imports) = Len(prog.imports[content[c].path])
    BY <1>1, <1>3, <1>4, ImportsKept
  <2>2. QED
    BY <1>1, <1>3, <1>4, <1>5, <1>6, <2>1, GraphKept
<1>8. FrontGraph'
  <2>1. Len(prog.imports[prog.cmd[fileIndex']]) \in Nat
    BY <1>2
  <2>2. \A j \in 1 .. Len(fstack') : FrameBound(fstack[j])'
    BY <1>1, <2>1 DEF FrameBound
  <2>3. QED
    BY <1>1, <2>2 DEF FrontGraph, FramesApart, FramesChained
<1>9. Untouched' => declared' = {}
  <2>1. Untouched' => Untouched
    BY <1>1, <1>2 DEF Untouched
  <2>2. QED
    BY <1>1, <2>1 DEF GraphInv
<1>10. QED
  BY <1>2, <1>7, <1>8, <1>9 DEF GraphInv

\* A file is parsed: its module is that of a frame, not of an imported file.
LEMMA ParseFileGraph ==
  ASSUME Inv, HeapInv, GraphInv, ParseFile
  PROVE  GraphInv'
<1>0. PICK n, new : n = Len(fstack) /\ new = Len(struct) + 1
  OBVIOUS
<1>1. FrontHeap /\ FrontGraph /\ Graph /\ stage = "frontend" /\ fileIndex # 0
  BY DEF HeapInv, GraphInv, ParseFile, FrontAt
<1>2. stage = "frontend" => \A j \in 1 .. Len(fstack) : fstack[j].pc = "parse" => fstack[j].k = 1
  BY <1>1 DEF FrontHeap, FrontFrameFresh
<1>3. /\ n \in Nat \ {0} /\ n \in 1 .. n /\ FTop = fstack[n] /\ FTop.pc = "parse"
      /\ new \in Nat \ {0} /\ Pointer' = Pointer \union {new} /\ new \notin Pointer
      /\ \A p \in Pointer : struct'[p] = struct[p] /\ content'[p] = content[p]
      /\ struct'[new] = new
      /\ content'[new].path = FTop.file /\ Len(content'[new].imports) = 0
      /\ Len(fstack') = n /\ FTop' = fstack'[n] /\ fstack' # <<>>
      /\ fstack'[n].pc = "import" /\ fstack'[n].module = new
      /\ fstack'[n].k = 1 /\ fstack'[n].file = FTop.file
      /\ \A j \in 1 .. n : j # n => fstack'[j] = fstack[j]
      /\ modules' = IF modules[fileIndex] = 0
                    THEN [modules EXCEPT ![fileIndex] = new] ELSE modules
      /\ UNCHANGED <<prog, fileIndex, stage, table, declared>>
  BY <1>0, <1>2, ParseFileEffect
<1>4. /\ fileIndex \in 1 .. Len(prog.cmd) /\ fileIndex \in Nat /\ fileIndex \in 1 .. fileIndex
      /\ modules \in [1 .. Len(prog.cmd) -> 0 .. Len(struct)]
      /\ \A i \in 1 .. fileIndex : i \in 1 .. Len(prog.cmd)
  BY <1>1, CommandOK DEF Inv, TypeOK
<1>5. FTop.k = 1 /\ FTop.module = 0 /\ 0 \notin Pointer
  BY <1>0, <1>1, <1>3 DEF FrontHeap, FrontFrameFresh, Pointer
<1>6. \A j \in 1 .. n : j # n => fstack[j].pc = "wait" /\ fstack[j].module \in Pointer
  BY <1>0, CallersWait
<1>7. Roots \subseteq Roots' /\ Roots' \subseteq Roots \union {new}
      /\ (n # 1 => modules' = modules)
  <2>1. CASE n = 1
    <3>1. modules[fileIndex] = 0
      BY <1>1, <1>3, <1>5, <2>1 DEF FrontHeap, Root
    <3>2. \A i \in 1 .. fileIndex : modules'[i] = IF i = fileIndex THEN new ELSE modules[i]
      BY <1>3, <1>4, <3>1
    <3>3. QED
      BY <1>3, <2>1, <3>1, <3>2 DEF Roots
  <2>2. CASE n # 1
    <3>1. 1 \in 1 .. n /\ fstack[1].module \in Pointer
      BY <1>3, <1>6, <2>2
    <3>2. modules[fileIndex] # 0
      BY <1>1, <1>5, <3>1 DEF FrontHeap, Root
    <3>3. modules' = modules
      BY <1>3, <3>2
    <3>4. QED
      BY <1>3, <3>3 DEF Roots
  <2>3. QED
    BY <2>1, <2>2
<1>8. new \in Working' /\ \A p \in Pointer : p \in Working' <=> p \in Working
  <2>1. Working' = {fstack'[j].module : j \in 1 .. n}
    BY <1>3 DEF Working
  <2>2. Working = {fstack[j].module : j \in 1 .. n}
    BY <1>0 DEF Working
  <2>3. \A j \in 1 .. n : j # n => fstack'[j].module = fstack[j].module
    BY <1>3
  <2>4. fstack'[n].module = new /\ fstack[n].module \notin Pointer
    BY <1>3, <1>5
  <2>5. new \in Working'
    BY <1>3, <2>1, <2>4
  <2>6. ASSUME NEW p \in Pointer PROVE p \in Working' <=> p \in Working
    <3>1. p # new
      BY <1>3
    <3>2. \A j \in 1 .. n : fstack'[j].module = p <=> fstack[j].module = p
      BY <2>3, <2>4, <3>1
    <3>3. QED
      BY <2>1, <2>2, <3>2
  <2>7. QED
    BY <2>5, <2>6
<1>9. Done' = Done
  BY <1>3, <1>7, <1>8 DEF Done
<1>10. DoneFiles' = DoneFiles
  BY <1>3, <1>9 DEF DoneFiles, Done
<1>11. ASSUME NEW q \in Pointer, NEW x, Bound(q, x) PROVE Bound(q, x)'
  BY <1>3, <1>7, <1>9, <1>11, BoundKept
<1>12. ImportsBound'
  <2>1. SUFFICES ASSUME NEW c \in Pointer', NEW i \in 1 .. Len(content'[c].imports),
                        NEW q, q = content'[c].imports[i]
                 PROVE  Bound(q, prog.imports[content[c].path][i])'
    BY DEF ImportsBound, Bound
  <2>2. c \in Pointer /\ content'[c] = content[c]
    BY <1>3, <2>1
  <2>3. q \in Pointer /\ Bound(q, prog.imports[content[c].path][i])
    BY <1>1, <2>1, <2>2, ContentOK DEF Graph, ImportsBound
  <2>4. PICK x : x = prog.imports[content[c].path][i]
    OBVIOUS
  <2>5. Bound(q, x)'
    BY <1>11, <2>3, <2>4
  <2>6. QED
    BY <1>3, <2>2, <2>4, <2>5 DEF Bound
<1>13. TableBound'
  <2>1. SUFFICES ASSUME NEW e \in table PROVE Bound(e.module, e.path)'
    BY <1>3 DEF TableBound
  <2>2. e.module \in Pointer /\ Bound(e.module, e.path)
    BY <1>1 DEF Graph, TableBound, Inv, TypeOK
  <2>3. QED
    BY <1>11, <2>2
<1>14. AllBound'
  <2>1. SUFFICES ASSUME NEW c \in Pointer' \ Working'
                 PROVE  Len(content'[c].imports) = Len(prog.imports[content'[c].path])
    BY <1>3 DEF AllBound
  <2>2. c \in Pointer \ Working /\ content'[c] = content[c]
    BY <1>3, <1>8, <2>1
  <2>3. QED
    BY <1>1, <2>2 DEF Graph, AllBound
<1>15. \A x : Met(x)' <=> Met(x)
  BY <1>3, <1>10 DEF Met, Registered
<1>16. DoneImportsMet' /\ DoneAcyclic'
  BY <1>1, <1>3, <1>10, <1>15 DEF Graph, DoneImportsMet, DoneAcyclic
<1>17. \A j \in 1 .. n : /\ fstack'[j].file = fstack[j].file /\ fstack'[j].k = fstack[j].k
  BY <1>3, <1>5
<1>18. FrontGraph'
  <2>1. \A j \in 1 .. Len(fstack') : FrameBound(fstack[j])'
    <3>1. SUFFICES ASSUME NEW j \in 1 .. n, NEW f, f = fstack'[j] PROVE FrameBound(f)'
      BY <1>3 DEF FrameBound
    <3>2. FrameBound(fstack[j])
      BY <1>0, <1>1 DEF FrontGraph
    <3>3. CASE j = n
      <4>1. f.pc = "import" /\ f.module = new /\ f.k = 1 /\ f.file = fstack[n].file
        BY <1>3, <3>1, <3>3
      <4>2. 1 <= Len(prog.imports[fstack[n].file]) + 1
        BY <1>3, <1>5, <3>2, <3>3 DEF FrameBound
      <4>3. QED
        BY <1>3, <4>1, <4>2 DEF FrameBound
    <3>4. CASE j # n
      <4>1. f = fstack[j] /\ f.pc = "wait" /\ f.module \in Pointer
        BY <1>3, <1>6, <3>1, <3>4
      <4>2. content'[f.module] = content[f.module] /\ prog' = prog
        BY <1>3, <4>1
      <4>3. FrameBound(f)
        BY <3>2, <4>1
      <4>4. QED
        BY <4>1, <4>2, <4>3 DEF FrameBound
    <3>5. QED
      BY <3>3, <3>4
  <2>2. FramesApart'
    <3>1. SUFFICES ASSUME NEW i \in 1 .. n, NEW j \in 1 .. n, i # j
                   PROVE  fstack'[i].module # fstack'[j].module
      BY <1>3 DEF FramesApart
    <3>2. CASE i = n
      BY <1>3, <1>6, <3>1, <3>2
    <3>3. CASE j = n
      BY <1>3, <1>6, <3>1, <3>3
    <3>4. CASE i # n /\ j # n
      BY <1>0, <1>1, <1>3, <1>6, <3>1, <3>4 DEF FrontGraph, FramesApart
    <3>5. QED
      BY <3>2, <3>3, <3>4
  <2>3. FramesChained'
    <3>1. SUFFICES ASSUME NEW j \in 1 .. n, j # n
                   PROVE  fstack'[j + 1].file = prog.imports[fstack'[j].file][fstack'[j].k]
      BY <1>3 DEF FramesChained
    <3>2. j + 1 \in 1 .. n
      BY <1>3, <3>1
    <3>3. QED
      BY <1>0, <1>1, <1>17, <3>1, <3>2 DEF FrontGraph, FramesChained
  <2>4. \A j \in 2 .. Len(fstack') : NestedFrame(fstack[j])'
    <3>1. SUFFICES ASSUME NEW j \in 2 .. n, NEW f, f = fstack'[j] PROVE NestedFrame(f)'
      BY <1>3 DEF NestedFrame, OpenFiles, Registered, Met
    <3>2. j \in 1 .. n /\ n # 1
      BY <1>3
    <3>3. f.file = fstack[j].file /\ f.k = fstack[j].k
      BY <1>17, <3>1, <3>2
    <3>4. NestedFrame(fstack[j])
      BY <1>0, <1>1 DEF FrontGraph
    <3>5. \A x : OpenFiles(x)' = OpenFiles(x)
      <4>1. \A i \in 1 .. fileIndex : modules[i] \in Pointer /\ struct[modules[i]] \in Pointer
        <5>1. TAKE i \in 1 .. fileIndex
        <5>2. Len(fstack) # 1
          BY <1>0, <3>2
        <5>3. modules[i] # 0
          BY <1>1, <5>2 DEF Inv, ModulesOK
        <5>4. modules[i] \in Pointer
          BY <1>4, <5>3, CommandOK
        <5>5. QED
          BY <5>4, ContentOK
      <4>2. \A i \in 1 .. fileIndex : PathOf(modules[i])' = PathOf(modules[i])
        BY <1>3, <1>7, <3>2, <4>1 DEF PathOf
      <4>3. QED
        BY <1>3, <1>7, <3>2, <4>2 DEF OpenFiles, PathOf
    <3>6. QED
      BY <1>3, <1>10, <1>15, <3>3, <3>4, <3>5 DEF NestedFrame, Registered
  <2>5. QED
    BY <1>3, <2>1, <2>2, <2>3, <2>4 DEF FrontGraph
<1>19. Untouched' => declared' = {}
  BY <1>1, <1>3 DEF GraphInv, Untouched
<1>20. QED
  BY <1>1, <1>3, <1>12, <1>13, <1>14, <1>16, <1>18, <1>19 DEF GraphInv, Graph

\* One turn of the import loop: the module found is one the import may be bound to.
LEMMA ImportGraphOK ==
  ASSUME Inv, HeapInv, GraphInv, ImportRegistered \/ ImportOpen \/ ImportReturn
  PROVE  GraphInv'
<1>1. /\ stage = "frontend" /\ fstack # <<>> /\ FTop.pc \in {"import", "wait"}
      /\ FTop.k <= Len(prog.imports[FTop.file]) /\ Requested \in File
  BY ImportCases
<1>2. FrontHeap /\ FrontGraph /\ Graph /\ fileIndex # 0
  BY <1>1 DEF HeapInv, GraphInv
<1>3. PICK m \in Pointer :
        /\ Bind(m)
        /\ \/ FTop.pc = "import" /\ m \in Registered(Requested)
           \/ /\ FTop.pc = "import" /\ Registered(Requested) = {}
              /\ \E i \in 1 .. fileIndex : m = modules[i] /\ PathOf(m) = Requested
           \/ FTop.pc = "wait" /\ m = current
  BY ImportCases
<1>4. PICK n, c, l, req :
        n = Len(fstack) /\ c = FTop.module /\ l = Len(content[c].imports) /\ req = Requested
  OBVIOUS
<1>5. struct[FTop.module] = FTop.module /\ content[c].path = FTop.file
  BY <1>1, <1>4, FrontModule
<1>6. /\ n \in Nat \ {0} /\ n \in 1 .. n /\ FTop = fstack[n]
      /\ c \in Pointer /\ l \in Nat /\ Pointer' = Pointer
      /\ \A p \in Pointer : content'[p].path = content[p].path
      /\ \A p \in Pointer : p # c => content'[p] = content[p]
      /\ Len(content'[c].imports) = l + 1 /\ content'[c].imports[l + 1] = m
      /\ \A i \in 1 .. l : content'[c].imports[i] = content[c].imports[i]
      /\ table' = IF Registered(FTop.file) = {}
                  THEN table \union {[path |-> req, module |-> m]} ELSE table
      /\ Len(fstack') = n /\ FTop' = fstack'[n] /\ fstack' # <<>>
      /\ fstack'[n].pc = "import" /\ fstack'[n].module = c
      /\ fstack'[n].k = FTop.k + 1 /\ fstack'[n].file = FTop.file
      /\ \A j \in 1 .. n : j # n => fstack'[j] = fstack[j]
      /\ UNCHANGED <<prog, fileIndex, stage, modules, struct, declared>>
  <2>1. Bind(m) /\ struct[FTop.module] = FTop.module
    BY <1>3, <1>5
  <2>2. /\ n \in Nat \ {0} /\ n \in 1 .. n /\ FTop = fstack[n] /\ Pointer' = Pointer
        /\ table' = IF Registered(FTop.file) = {}
                    THEN table \union {[path |-> req, module |-> m]} ELSE table
        /\ UNCHANGED <<prog, fileIndex, stage, modules, struct, declared>>
    BY <1>1, <1>4, <2>1, BindEffect
  <2>3. /\ c \in Pointer /\ l \in Nat
        /\ \A p \in Pointer : content'[p].path = content[p].path
        /\ \A p \in Pointer : p # c => content'[p] = content[p]
        /\ Len(content'[c].imports) = l + 1 /\ content'[c].imports[l + 1] = m
        /\ \A i \in 1 .. l : content'[c].imports[i] = content[c].imports[i]
    BY <1>1, <1>4, <2>1, BindEffect, SMTT(40)
  <2>4. /\ Len(fstack') = n /\ FTop' = fstack'[n] /\ fstack' # <<>>
        /\ fstack'[n].pc = "import" /\ fstack'[n].module = c
        /\ fstack'[n].k = FTop.k + 1 /\ fstack'[n].file = FTop.file
        /\ \A j \in 1 .. n : j # n => fstack'[j] = fstack[j]
    BY <1>1, <1>4, <2>1, BindEffect
  <2>5. QED
    BY <2>2, <2>3, <2>4
<1>7. FTop.k \in Nat \ {0} /\ l = FTop.k - 1 /\ l + 1 = FTop.k /\ req = prog.imports[FTop.file][FTop.k]
  <2>1. FrameBound(FTop) /\ FTop.k \in Nat \ {0}
    BY <1>2, <1>4, <1>6, FramesOK DEF FrontGraph
  <2>2. l = FTop.k - 1
    BY <1>1, <1>4, <2>1 DEF FrameBound
  <2>3. req = prog.imports[FTop.file][FTop.k]
    BY <1>4 DEF Requested
  <2>4. QED
    BY <2>1, <2>2, <2>3
<1>8. Bound(m, req)
  <2>1. CASE m \in Registered(Requested)
    BY <1>2, <1>4, <2>1 DEF Registered, Graph, TableBound
  <2>2. CASE \E i \in 1 .. fileIndex : m = modules[i] /\ PathOf(m) = Requested
    <3>1. m \in Roots
      BY <2>2 DEF Roots, Pointer
    <3>2. content[m].path = req \/ req \in declared
      <4>1. CASE struct[m] = m
        BY <1>4, <2>2, <4>1 DEF PathOf
      <4>2. CASE struct[m] # m
        BY <1>1, <1>4, <2>2, <4>2 DEF HeapInv, Heap, OverwrittenDeclared
      <4>3. QED
        BY <4>1, <4>2
    <3>3. QED
      BY <3>1, <3>2 DEF Bound
  <2>3. CASE FTop.pc = "wait" /\ m = current
    BY <1>2, <1>4, <2>3 DEF FrontGraph, Bound
  <2>4. QED
    BY <1>3, <2>1, <2>2, <2>3
<1>9. \A j \in 1 .. n : j # n => fstack[j].pc = "wait"
  BY <1>4, CallersWait
<1>10. \A j \in 1 .. n : /\ fstack'[j].module = fstack[j].module
                         /\ fstack'[j].file = fstack[j].file
                         /\ fstack'[j].pc # "parse" /\ fstack[j].pc # "parse"
  BY <1>1, <1>4, <1>6, <1>9
<1>11. Working' = Working /\ c \in Working
  BY <1>4, <1>6, <1>10 DEF Working
<1>12. Roots' = Roots /\ Done' = Done
  BY <1>6, <1>11 DEF Roots, Done
<1>13. Graph' /\ DoneFiles' = DoneFiles
  <2>1. table \subseteq table' /\ \A e \in table' : e.module \in Pointer
    <3>1. \A e \in table : e.module \in Pointer
      BY DEF Inv, TypeOK
    <3>2. QED
      BY <1>6, <3>1
  <2>2. \A e \in table' \ table : Bound(e.module, e.path)
    <3>1. TAKE e \in table' \ table
    <3>2. e.module = m /\ e.path = req
      BY <1>6
    <3>3. QED
      BY <1>8, <3>2
  <2>3. ASSUME NEW p \in Pointer, NEW i \in 1 .. Len(content'[p].imports)
        PROVE  /\ content'[p].imports[i] \in Pointer
               /\ Bound(content'[p].imports[i], prog.imports[content[p].path][i])
    <3>1. CASE p # c \/ i # l + 1
      <4>1. i \in 1 .. Len(content[p].imports) /\ content'[p].imports[i] = content[p].imports[i]
        <5>1. CASE p # c
          BY <1>6, <2>3, <5>1
        <5>2. CASE p = c
          <6>1. i \in 1 .. l
            BY <1>6, <2>3, <3>1, <5>2
          <6>2. QED
            BY <1>4, <1>6, <5>2, <6>1
        <5>3. QED
          BY <5>1, <5>2
      <4>2. content[p].imports[i] \in Pointer
            /\ Bound(content[p].imports[i], prog.imports[content[p].path][i])
        BY <1>2, <4>1, ContentOK DEF Graph, ImportsBound
      <4>3. QED
        BY <4>1, <4>2
    <3>2. CASE p = c /\ i = l + 1
      <4>1. content'[p].imports[i] = m /\ prog.imports[content[p].path][i] = req
        BY <1>5, <1>6, <1>7, <3>2
      <4>2. QED
        BY <1>8, <4>1
    <3>3. QED
      BY <3>1, <3>2
  <2>4. \A p \in Pointer \ Working' : Len(content'[p].imports) = Len(prog.imports[content[p].path])
    BY <1>2, <1>6, <1>11 DEF Graph, AllBound
  <2>5. QED
    BY <1>2, <1>6, <1>12, <2>1, <2>2, <2>3, <2>4, GraphKept
<1>14. \A x : Met(x) => Met(x)'
  BY <1>6, <1>13, MetKept
<1>15. \A x : OpenFiles(x)' = OpenFiles(x)
  <2>1. \A i \in 1 .. fileIndex : modules[i] \in Pointer /\ struct[modules[i]] \in Pointer
    <3>1. \A i \in 1 .. fileIndex : modules[i] \in Pointer
      BY <1>1, RootsOK
    <3>2. QED
      BY <3>1, ContentOK
  <2>2. \A i \in 1 .. fileIndex : PathOf(modules[i])' = PathOf(modules[i])
    BY <1>6, <2>1 DEF PathOf
  <2>3. QED
    BY <1>6, <2>2 DEF OpenFiles, PathOf
<1>16. ASSUME NEW j \in 2 .. n, NEW f, f = fstack'[j] PROVE NestedFrame(f)'
  <2>1. j \in 1 .. n
    BY <1>6
  <2>2. f.file = fstack[j].file
    BY <1>10, <1>16, <2>1
  <2>3. NestedFrame(fstack[j])
    BY <1>2, <1>4 DEF FrontGraph
  <2>4. ASSUME Registered(f.file)' # {} PROVE f.file \in DoneFiles
    <3>1. CASE Registered(f.file) # {}
      BY <2>2, <2>3, <3>1 DEF NestedFrame
    <3>2. CASE Registered(f.file) = {}
      <4>1. f.file = req
        <5>1. PICK e \in table' : e.path = f.file
          BY <2>4 DEF Registered
        <5>2. e \notin table
          BY <3>2, <5>1 DEF Registered
        <5>3. e = [path |-> req, module |-> m]
          BY <1>6, <5>1, <5>2
        <5>4. QED
          BY <5>1, <5>3
      <4>2. OpenFiles(req) = {}
        BY <2>2, <2>3, <4>1 DEF NestedFrame
      <4>3. ~ \E i \in 1 .. fileIndex : m = modules[i] /\ PathOf(m) = Requested
        BY <1>4, <4>2 DEF OpenFiles
      <4>4. FTop.pc = "wait" /\ m = current
        BY <1>3, <1>4, <3>2, <4>1, <4>3
      <4>5. QED
        BY <1>2, <1>4, <4>1, <4>4 DEF FrontGraph, DoneFiles
    <3>3. QED
      BY <3>1, <3>2
  <2>5. ASSUME f.file \notin DoneFiles, NEW i \in 1 .. f.k - 1, NEW x, x = prog.imports[f.file][i]
        PROVE  Met(x)'
    <3>1. CASE j # n \/ i # FTop.k
      <4>1. i \in 1 .. fstack[j].k - 1
        <5>1. CASE j # n
          BY <1>6, <1>16, <2>1, <2>5, <5>1
        <5>2. CASE j = n
          BY <1>6, <1>7, <1>16, <2>5, <3>1, <5>2
        <5>3. QED
          BY <5>1, <5>2
      <4>2. Met(x)
        BY <2>2, <2>3, <2>5, <4>1 DEF NestedFrame
      <4>3. QED
        BY <1>14, <4>2
    <3>2. CASE j = n /\ i = FTop.k
      <4>1. x = req /\ Registered(FTop.file) = {}
        BY <1>6, <1>7, <2>2, <2>3, <2>5, <3>2 DEF NestedFrame
      <4>2. [path |-> req, module |-> m] \in table'
        BY <1>6, <4>1
      <4>3. m \in Registered(x)'
        BY <4>1, <4>2 DEF Registered
      <4>4. QED
        BY <4>3 DEF Met
    <3>3. QED
      BY <3>1, <3>2
  <2>6. OpenFiles(f.file)' = {}
    BY <1>15, <2>2, <2>3 DEF NestedFrame
  <2>7. ASSUME f.file \notin DoneFiles, NEW i \in 1 .. f.k - 1
        PROVE  Met(prog.imports[f.file][i])'
    <3>1. PICK x : x = prog.imports[f.file][i]
      OBVIOUS
    <3>2. Met(x)'
      BY <2>5, <2>7, <3>1
    <3>3. prog' = prog
      BY <1>6
    <3>4. QED
      BY <3>1, <3>2, <3>3 DEF Met, Registered
  <2>8. QED
    BY <1>13, <2>4, <2>6, <2>7 DEF NestedFrame
<1>17. FrontGraph'
  <2>1. \A j \in 1 .. Len(fstack') : FrameBound(fstack[j])'
    <3>1. SUFFICES ASSUME NEW j \in 1 .. n, NEW f, f = fstack'[j] PROVE FrameBound(f)'
      BY <1>6 DEF FrameBound
    <3>2. FrameBound(fstack[j]) /\ fstack[j].module \in Pointer
      BY <1>2, <1>4, <1>10, FramesOK DEF FrontGraph
    <3>3. CASE j = n
      <4>1. f.pc = "import" /\ f.module = c /\ f.k = FTop.k + 1 /\ f.file = FTop.file
        BY <1>6, <3>1, <3>3
      <4>2. f.k <= Len(prog.imports[f.file]) + 1
        <5>1. Len(prog.imports[FTop.file]) \in Nat
          BY <1>4, <1>6, FramesOK, CommandOK
        <5>2. QED
          BY <1>1, <1>7, <4>1, <5>1
      <4>3. QED
        BY <1>6, <1>7, <4>1, <4>2 DEF FrameBound
    <3>4. CASE j # n
      <4>1. f = fstack[j] /\ f.module # c /\ f.pc = "wait"
        BY <1>2, <1>4, <1>6, <1>9, <1>10, <3>1, <3>4 DEF FrontGraph, FramesApart
      <4>2. content'[f.module] = content[f.module]
        BY <1>6, <3>2, <4>1
      <4>3. QED
        BY <1>6, <3>2, <4>1, <4>2 DEF FrameBound
    <3>5. QED
      BY <3>3, <3>4
  <2>2. FramesApart'
    BY <1>2, <1>4, <1>6, <1>10 DEF FrontGraph, FramesApart
  <2>3. FramesChained'
    <3>1. SUFFICES ASSUME NEW j \in 1 .. n, j # n
                   PROVE  fstack'[j + 1].file = prog.imports[fstack'[j].file][fstack'[j].k]
      BY <1>6 DEF FramesChained
    <3>2. j + 1 \in 1 .. n
      BY <1>6, <3>1
    <3>3. QED
      BY <1>2, <1>4, <1>6, <1>10, <3>1, <3>2 DEF FrontGraph, FramesChained
  <2>4. \A j \in 2 .. Len(fstack') : NestedFrame(fstack[j])'
    BY <1>6, <1>16 DEF NestedFrame, OpenFiles, Registered, Met
  <2>5. QED
    BY <1>6, <2>1, <2>2, <2>3, <2>4 DEF FrontGraph
<1>18. Untouched' => declared' = {}
  BY <1>2, <1>6 DEF GraphInv, Untouched
<1>19. QED
  BY <1>1, <1>2, <1>6, <1>13, <1>17, <1>18 DEF GraphInv

\* parse() calls frontend() for a file that is neither registered nor open.
LEMMA ImportFileGraph ==
  ASSUME Inv, HeapInv, GraphInv, ImportFile
  PROVE  GraphInv'
<1>1. PICK n : n = Len(fstack)
  OBVIOUS
<1>2. /\ stage = "frontend" /\ n \in Nat \ {0} /\ n \in 1 .. n /\ FTop = fstack[n]
      /\ FTop.pc = "import" /\ Requested \in File
      /\ Registered(Requested) = {} /\ OpenFiles(Requested) = {}
      /\ n + 1 \in Nat /\ n + 1 # n
      /\ Len(fstack') = n + 1 /\ FTop' = fstack'[n + 1] /\ fstack' # <<>>
      /\ fstack'[n + 1].pc = "parse" /\ fstack'[n + 1].module = 0
      /\ fstack'[n + 1].k = 1 /\ fstack'[n + 1].file = Requested
      /\ fstack'[n].pc = "wait" /\ fstack'[n].module = FTop.module
      /\ fstack'[n].k = FTop.k /\ fstack'[n].file = FTop.file
      /\ \A j \in 1 .. n : j # n => fstack'[j] = fstack[j]
      /\ UNCHANGED <<prog, fileIndex, stage, modules, struct, content, table, declared>>
  BY <1>1, ImportFileEffect
<1>3. FrontGraph /\ Graph /\ fileIndex # 0
  BY <1>2 DEF HeapInv, GraphInv
<1>4. \A j \in 1 .. n : j # n => fstack[j].pc = "wait"
  BY <1>1, CallersWait
<1>5. \A j \in 1 .. n : /\ fstack'[j].module = fstack[j].module
                        /\ fstack'[j].file = fstack[j].file
                        /\ fstack'[j].k = fstack[j].k
                        /\ fstack'[j].pc = "wait" /\ fstack[j].pc # "parse"
  BY <1>2, <1>4
<1>6. \A j \in 1 .. n + 1 : j = n + 1 \/ j \in 1 .. n
  BY <1>2
<1>7. Pointer' = Pointer /\ 0 \notin Pointer
  BY <1>2 DEF Pointer
<1>8. Working' = Working \union {0}
  <2>1. \A j \in 1 .. n : j \in 1 .. n + 1
    BY <1>2
  <2>2. n + 1 \in 1 .. n + 1
    BY <1>2
  <2>3. QED
    BY <1>1, <1>2, <1>5, <1>6, <2>1, <2>2 DEF Working
<1>9. Roots' = Roots /\ Done' = Done /\ Working' \intersect Pointer = Working \intersect Pointer
  BY <1>2, <1>7, <1>8 DEF Roots, Done
<1>10. Graph' /\ DoneFiles' = DoneFiles
  <2>1. /\ \A e \in table' : e.module \in Pointer
        /\ \A c \in Pointer : \A i \in 1 .. Len(content'[c].imports) :
             /\ content'[c].imports[i] \in Pointer
             /\ Bound(content'[c].imports[i], prog.imports[content[c].path][i])
        /\ \A c \in Pointer \ Working' :
             Len(content'[c].imports) = Len(prog.imports[content[c].path])
    BY <1>2, <1>3, <1>9, ImportsKept
  <2>2. QED
    BY <1>2, <1>3, <1>7, <1>9, <2>1, GraphKept
<1>11. \A x : Met(x)' <=> Met(x)
  BY <1>2, <1>10 DEF Met, Registered
<1>12. \A x : OpenFiles(x)' = OpenFiles(x)
  BY <1>2 DEF OpenFiles, PathOf
<1>13. FrontGraph'
  <2>1. \A j \in 1 .. Len(fstack') : FrameBound(fstack[j])'
    <3>1. SUFFICES ASSUME NEW j \in 1 .. n + 1, NEW f, f = fstack'[j] PROVE FrameBound(f)'
      BY <1>2 DEF FrameBound
    <3>2. CASE j = n + 1
      <4>1. f.pc = "parse" /\ f.k = 1 /\ f.file = Requested
        BY <1>2, <3>1, <3>2
      <4>2. Len(prog.imports[Requested]) \in Nat
        BY <1>2, CommandOK
      <4>3. QED
        BY <1>2, <4>1, <4>2 DEF FrameBound
    <3>3. CASE j \in 1 .. n
      <4>1. FrameBound(fstack[j])
        BY <1>1, <1>3, <3>3 DEF FrontGraph
      <4>2. QED
        BY <1>2, <1>5, <3>1, <3>3, <4>1 DEF FrameBound
    <3>4. QED
      BY <1>6, <3>1, <3>2, <3>3
  <2>2. FramesApart'
    <3>1. SUFFICES ASSUME NEW i \in 1 .. n, NEW j \in 1 .. n, i # j
                   PROVE  fstack'[i].module # fstack'[j].module
      BY <1>2, <1>6 DEF FramesApart
    <3>2. QED
      BY <1>1, <1>3, <1>5, <3>1 DEF FrontGraph, FramesApart
  <2>3. FramesChained'
    <3>1. SUFFICES ASSUME NEW j \in 1 .. n
                   PROVE  fstack'[j + 1].file = prog.imports[fstack'[j].file][fstack'[j].k]
      BY <1>2, <1>6 DEF FramesChained
    <3>2. CASE j = n
      BY <1>2, <3>2 DEF Requested
    <3>3. CASE j # n
      <4>1. j + 1 \in 1 .. n
        BY <1>2, <3>1, <3>3
      <4>2. QED
        BY <1>1, <1>3, <1>5, <3>1, <3>3, <4>1 DEF FrontGraph, FramesChained
    <3>4. QED
      BY <3>2, <3>3
  <2>4. ASSUME NEW j \in 2 .. n + 1, NEW f, f = fstack'[j] PROVE NestedFrame(f)'
    <3>1. CASE j = n + 1
      <4>1. f.k = 1 /\ f.file = Requested
        BY <1>2, <2>4, <3>1
      <4>2. OpenFiles(f.file) = {} /\ Registered(f.file) = {}
        BY <1>2, <4>1
      <4>3. Registered(f.file)' = {}
        BY <1>2, <4>2 DEF Registered
      <4>4. QED
        BY <1>12, <4>1, <4>2, <4>3 DEF NestedFrame
    <3>2. CASE j # n + 1
      <4>1. j \in 2 .. n /\ j \in 1 .. n
        BY <1>2, <2>4, <3>2
      <4>2. NestedFrame(fstack[j]) /\ f.file = fstack[j].file /\ f.k = fstack[j].k
        BY <1>1, <1>3, <1>5, <2>4, <4>1 DEF FrontGraph
      <4>3. QED
        BY <1>2, <1>10, <1>11, <1>12, <4>2 DEF NestedFrame, Registered
    <3>3. QED
      BY <3>1, <3>2
  <2>5. \A j \in 2 .. Len(fstack') : NestedFrame(fstack[j])'
    BY <1>2, <2>4 DEF NestedFrame, OpenFiles, Registered, Met
  <2>6. QED
    BY <1>2, <2>1, <2>2, <2>3, <2>5 DEF FrontGraph
<1>14. Untouched' => declared' = {}
  BY <1>2 DEF GraphInv, Untouched
<1>15. QED
  BY <1>2, <1>3, <1>10, <1>13, <1>14 DEF GraphInv

\* parse() is done with the imports of a file.
LEMMA ParseEndGraph ==
  ASSUME Inv, HeapInv, GraphInv, ParseEnd
  PROVE  GraphInv'
<1>1. PICK n : n = Len(fstack)
  OBVIOUS
<1>2. /\ stage = "frontend" /\ n \in Nat \ {0} /\ n \in 1 .. n /\ FTop = fstack[n]
      /\ FTop.pc = "import" /\ FTop.k > Len(prog.imports[FTop.file])
      /\ Len(fstack') = n /\ FTop' = fstack'[n] /\ fstack' # <<>>
      /\ fstack'[n].pc = "check" /\ fstack'[n].module = FTop.module
      /\ fstack'[n].k = FTop.k /\ fstack'[n].file = FTop.file
      /\ \A j \in 1 .. n : j # n => fstack'[j] = fstack[j]
      /\ UNCHANGED <<prog, fileIndex, stage, modules, struct, content, table, declared>>
  BY <1>1, ParseEndEffect
<1>3. FrontGraph /\ Graph /\ fileIndex # 0
  BY <1>2 DEF HeapInv, GraphInv
<1>4. \A j \in 1 .. n : j # n => fstack[j].pc = "wait"
  BY <1>1, CallersWait
<1>5. \A j \in 1 .. n : /\ fstack'[j].module = fstack[j].module
                        /\ fstack'[j].file = fstack[j].file
                        /\ fstack'[j].k = fstack[j].k
                        /\ fstack'[j].pc # "parse" /\ fstack[j].pc # "parse"
  BY <1>2, <1>4
<1>6. Working' = Working /\ Pointer' = Pointer
  BY <1>1, <1>2, <1>5 DEF Working, Pointer
<1>7. Roots' = Roots /\ Done' = Done
  BY <1>2, <1>6 DEF Roots, Done
<1>8. Graph' /\ DoneFiles' = DoneFiles
  <2>1. /\ \A e \in table' : e.module \in Pointer
        /\ \A c \in Pointer : \A i \in 1 .. Len(content'[c].imports) :
             /\ content'[c].imports[i] \in Pointer
             /\ Bound(content'[c].imports[i], prog.imports[content[c].path][i])
        /\ \A c \in Pointer \ Working' :
             Len(content'[c].imports) = Len(prog.imports[content[c].path])
    BY <1>2, <1>3, <1>6, ImportsKept
  <2>2. QED
    BY <1>2, <1>3, <1>6, <1>7, <2>1, GraphKept
<1>9. \A x : Met(x)' <=> Met(x)
  BY <1>2, <1>8 DEF Met, Registered
<1>10. FrontGraph'
  <2>1. \A j \in 1 .. Len(fstack') : FrameBound(fstack[j])'
    <3>1. SUFFICES ASSUME NEW j \in 1 .. n, NEW f, f = fstack'[j] PROVE FrameBound(f)'
      BY <1>2 DEF FrameBound
    <3>2. FrameBound(fstack[j])
      BY <1>1, <1>3 DEF FrontGraph
    <3>3. j = n => f.k = Len(prog.imports[f.file]) + 1
      <4>1. SUFFICES ASSUME j = n PROVE f.k = Len(prog.imports[f.file]) + 1
        OBVIOUS
      <4>2. Len(prog.imports[FTop.file]) \in Nat /\ FTop.k \in Nat
        BY <1>1, <1>2, FramesOK, CommandOK
      <4>3. FTop.k <= Len(prog.imports[FTop.file]) + 1
        BY <1>2, <3>2, <4>1 DEF FrameBound
      <4>4. QED
        BY <1>2, <3>1, <4>1, <4>2, <4>3
    <3>4. CASE j = n
      BY <1>2, <1>5, <3>1, <3>2, <3>3, <3>4 DEF FrameBound
    <3>5. CASE j # n
      BY <1>2, <3>1, <3>2, <3>5 DEF FrameBound
    <3>6. QED
      BY <3>4, <3>5
  <2>2. FramesApart'
    BY <1>1, <1>2, <1>3, <1>5 DEF FrontGraph, FramesApart
  <2>3. FramesChained'
    <3>1. SUFFICES ASSUME NEW j \in 1 .. n, j # n
                   PROVE  fstack'[j + 1].file = prog.imports[fstack'[j].file][fstack'[j].k]
      BY <1>2 DEF FramesChained
    <3>2. j + 1 \in 1 .. n
      BY <1>2, <3>1
    <3>3. QED
      BY <1>1, <1>3, <1>5, <3>1, <3>2 DEF FrontGraph, FramesChained
  <2>4. ASSUME NEW j \in 2 .. n, NEW f, f = fstack'[j] PROVE NestedFrame(f)'
    <3>1. j \in 1 .. n
      BY <1>2
    <3>2. NestedFrame(fstack[j]) /\ f.file = fstack[j].file /\ f.k = fstack[j].k
      BY <1>1, <1>3, <1>5, <2>4, <3>1 DEF FrontGraph
    <3>3. QED
      BY <1>2, <1>8, <1>9, <3>2 DEF NestedFrame, Registered, OpenFiles, PathOf
  <2>5. \A j \in 2 .. Len(fstack') : NestedFrame(fstack[j])'
    BY <1>2, <2>4 DEF NestedFrame, OpenFiles, Registered, Met
  <2>6. FTop'.pc = "check"
    BY <1>2
  <2>7. QED
    BY <2>1, <2>2, <2>3, <2>5, <2>6 DEF FrontGraph
<1>11. Untouched' => declared' = {}
  BY <1>2 DEF GraphInv, Untouched
<1>12. QED
  BY <1>2, <1>3, <1>8, <1>10, <1>11 DEF GraphInv

\* An imported file is done: it joins the files that parse() will not enter again.
LEMMA DoneGrows ==
  ASSUME Inv, GraphInv, stage = "frontend", NestedFrame(FTop), FTop.file \in File,
         FTop.pc = "check", FrameBound(FTop),
         UNCHANGED <<prog, table>>, DoneFiles' = DoneFiles \union {FTop.file}
  PROVE  DoneImportsMet' /\ DoneAcyclic'
<1>1. PICK F : F = FTop.file
  OBVIOUS
<1>2. Graph /\ F \in File /\ prog.imports \in [File -> Seq(File)] /\ DoneFiles \subseteq File
  BY <1>1, CommandOK, ContentOK DEF GraphInv, DoneFiles, Done
<1>3. F \notin DoneFiles => Registered(F) = {} /\ ~Met(F)
  BY <1>1 DEF NestedFrame, Met
<1>4. F \notin DoneFiles => \A i \in 1 .. Len(prog.imports[F]) : Met(prog.imports[F][i])
  <2>1. Len(prog.imports[F]) \in Nat /\ FTop.k = Len(prog.imports[F]) + 1
    BY <1>1, <1>2 DEF FrameBound
  <2>2. FTop.k - 1 = Len(prog.imports[F])
    BY <2>1
  <2>3. QED
    BY <1>1, <2>2 DEF NestedFrame
<1>5. \A f \in DoneFiles \union {F} : \A i \in 1 .. Len(prog.imports[f]) : Met(prog.imports[f][i])
  BY <1>2, <1>4 DEF Graph, DoneImportsMet
<1>6. DoneImportsMet'
  <2>1. SUFFICES ASSUME NEW f \in DoneFiles \union {F}, NEW i \in 1 .. Len(prog.imports[f]),
                        NEW x, x = prog.imports[f][i]
                 PROVE  Met(x)'
    BY <1>1 DEF DoneImportsMet, Met, Registered
  <2>2. Met(x)
    BY <1>5, <2>1
  <2>3. QED
    BY <2>2, MetKept
<1>7. ASSUME NEW S \in SUBSET (DoneFiles \union {F}), S # {}
      PROVE  \E f \in S : Range(prog.imports[f]) \intersect S = {}
  <2>1. CASE F \notin S \/ F \in DoneFiles
    BY <1>2, <1>7, <2>1 DEF Graph, DoneAcyclic
  <2>2. CASE F \in S /\ F \notin DoneFiles
    <3>1. \A f \in DoneFiles \union {F} : F \notin Range(prog.imports[f])
      <4>1. SUFFICES ASSUME NEW f \in DoneFiles \union {F}, F \in Range(prog.imports[f])
                     PROVE  FALSE
        OBVIOUS
      <4>2. prog.imports[f] \in Seq(File)
        BY <1>2
      <4>3. PICK i \in 1 .. Len(prog.imports[f]) : F = prog.imports[f][i]
        BY <4>1, <4>2 DEF Range
      <4>4. QED
        BY <1>3, <1>5, <2>2, <4>3
    <3>2. CASE S = {F}
      BY <3>1, <3>2
    <3>3. CASE S # {F}
      <4>1. S \ {F} # {} /\ S \ {F} \in SUBSET DoneFiles
        BY <1>7, <3>3
      <4>2. PICK f \in S \ {F} : Range(prog.imports[f]) \intersect (S \ {F}) = {}
        BY <1>2, <4>1 DEF Graph, DoneAcyclic
      <4>3. Range(prog.imports[f]) \intersect S = {}
        BY <3>1, <4>2
      <4>4. QED
        BY <4>2, <4>3
    <3>4. QED
      BY <3>2, <3>3
  <2>3. QED
    BY <2>1, <2>2
<1>8. DoneAcyclic'
  BY <1>1, <1>7 DEF DoneAcyclic
<1>9. QED
  BY <1>6, <1>8

\* type_check() ends a frontend(): an imported file is done, or the file of the
\* command line has all its imports.
LEMMA TypeCheckGraph ==
  ASSUME Inv, HeapInv, GraphInv, TypeCheck
  PROVE  GraphInv'
<1>1. PICK n, M : n = Len(fstack) /\ M = FTop.module
  OBVIOUS
<1>2. /\ stage = "frontend" /\ n \in Nat \ {0} /\ n \in 1 .. n /\ FTop = fstack[n]
      /\ FTop.pc = "check" /\ Pointer' = Pointer
      /\ \A p \in Pointer : /\ content'[p].path = content[p].path
                            /\ content'[p].imports = content[p].imports
      /\ UNCHANGED <<prog, fileIndex, modules, current, struct, table, declared>>
  BY <1>1, TypeCheckEffect
<1>3. FrontHeap /\ FrontGraph /\ Graph /\ fileIndex # 0 /\ fileIndex \in Nat
  BY <1>2, CommandOK DEF HeapInv, GraphInv
<1>4. \A j \in 1 .. n : fstack[j].pc # "parse" /\ fstack[j].module \in Pointer
  BY <1>1, <1>2, CallersWait, FramesOK
<1>5. M \in Pointer /\ content[M].path = FTop.file /\ current = M
  BY <1>1, <1>2, <1>3, FrontModule DEF FrontHeap
<1>6. Len(content[M].imports) = Len(prog.imports[content[M].path])
  <2>1. FrameBound(FTop) /\ Len(prog.imports[FTop.file]) \in Nat
    BY <1>1, <1>2, <1>3, FramesOK, CommandOK DEF FrontGraph
  <2>2. QED
    BY <1>1, <1>2, <1>5, <2>1 DEF FrameBound
<1>7. Roots' = Roots
  BY <1>2 DEF Roots
<1>8. \A c \in Pointer \ (Working \ {M}) :
        Len(content'[c].imports) = Len(prog.imports[content[c].path])
  BY <1>2, <1>3, <1>6 DEF Graph, AllBound
<1>9. /\ \A e \in table' : e.module \in Pointer
      /\ \A c \in Pointer : \A i \in 1 .. Len(content'[c].imports) :
           /\ content'[c].imports[i] \in Pointer
           /\ Bound(content'[c].imports[i], prog.imports[content[c].path][i])
  <2>1. \A e \in table : e.module \in Pointer
    BY DEF Inv, TypeOK
  <2>2. QED
    BY <1>2, <1>3, <2>1, ContentOK DEF Graph, ImportsBound
<1>10. CASE n = 1
  <2>1. stage' = "backend" /\ fstack' = <<>>
    BY <1>1, <1>10, TypeCheckEffect
  <2>2. Working = {M}
    BY <1>1, <1>2, <1>10 DEF Working
  <2>3. Working' = {}
    BY <2>1, EmptySeq DEF Working
  <2>4. M \in Roots
    BY <1>1, <1>2, <1>3, <1>4, <1>5, <1>10 DEF FrontHeap, Root, Roots, Pointer
  <2>5. Done' = Done
    BY <1>2, <1>7, <2>2, <2>3, <2>4 DEF Done
  <2>6. Graph'
    BY <1>2, <1>3, <1>7, <1>8, <1>9, <2>2, <2>3, <2>5, GraphKept
  <2>7. Untouched' => fileIndex = 0
    BY <1>2, <2>1 DEF Untouched
  <2>8. QED
    BY <1>2, <1>3, <2>1, <2>6, <2>7 DEF GraphInv
<1>11. CASE n # 1
  <2>1. /\ n - 1 \in Nat \ {0} /\ n - 1 \in 1 .. n /\ n - 1 # n /\ n = n - 1 + 1
        /\ Len(fstack') = n - 1 /\ fstack' # <<>>
        /\ FTop' = fstack'[n - 1] /\ fstack'[n - 1].pc = "wait"
        /\ \A j \in 1 .. n - 1 : fstack'[j] = fstack[j] /\ j \in 1 .. n /\ j # n
        /\ UNCHANGED stage
    BY <1>1, <1>11, TypeCheckEffect
  <2>2. NestedFrame(FTop) /\ FrameBound(FTop) /\ FTop.file \in File
    <3>1. n \in 2 .. n
      BY <1>2, <1>11
    <3>2. QED
      BY <1>1, <1>2, <1>3, <3>1, FramesOK DEF FrontGraph
  <2>3. \A j \in 1 .. n - 1 : fstack[j].module # M
    BY <1>1, <1>2, <1>3, <1>4, <2>1 DEF FrontGraph, FramesApart
  <2>4. Working' = Working \ {M} /\ M \in Working
    <3>1. \A j \in 1 .. n : j \in 1 .. n - 1 \/ j = n
      BY <1>2, <2>1
    <3>2. Working = {fstack[j].module : j \in 1 .. n}
      BY <1>1 DEF Working
    <3>3. Working' = {fstack[j].module : j \in 1 .. n - 1}
      BY <2>1 DEF Working
    <3>4. QED
      BY <1>1, <1>2, <2>1, <2>3, <3>1, <3>2, <3>3
  <2>5. M \notin Roots
    <3>1. ASSUME NEW i \in 1 .. fileIndex, modules[i] = M PROVE FALSE
      <4>1. CASE i = fileIndex
        <5>1. 1 \in 1 .. n - 1
          BY <2>1
        <5>2. QED
          BY <1>3, <2>3, <3>1, <4>1, <5>1 DEF FrontHeap, Root
      <4>2. CASE i # fileIndex
        <5>1. i \in 1 .. Past
          BY <1>2, <1>3, <4>2 DEF Past
        <5>2. Compiled(M)
          BY <3>1, <5>1 DEF Compiled
        <5>3. FrontFrameFresh(FTop)
          BY <1>1, <1>2, <1>3 DEF FrontHeap
        <5>4. QED
          BY <1>1, <1>2, <5>2, <5>3 DEF FrontFrameFresh
      <4>3. QED
        BY <4>1, <4>2
    <3>2. QED
      BY <3>1 DEF Roots
  <2>6. Done' = Done \union {M}
    BY <1>2, <1>5, <1>7, <2>4, <2>5 DEF Done
  <2>7. DoneFiles' = DoneFiles \union {FTop.file}
    <3>1. \A p \in Done' : p \in Pointer
      BY <1>5, <2>6 DEF Done
    <3>2. DoneFiles' = {content[p].path : p \in Done \union {M}}
      BY <1>2, <2>6, <3>1 DEF DoneFiles
    <3>3. QED
      BY <1>5, <3>2 DEF DoneFiles
  <2>8. DoneImportsMet' /\ DoneAcyclic'
    BY <1>2, <2>2, <2>7, DoneGrows
  <2>9. ASSUME NEW q \in Pointer, NEW x, Bound(q, x) PROVE Bound(q, x)'
    BY <1>2, <1>7, <2>6, <2>9, BoundKept
  <2>10. ImportsBound'
    <3>1. SUFFICES ASSUME NEW c \in Pointer, NEW i \in 1 .. Len(content'[c].imports),
                          NEW q, q = content'[c].imports[i]
                   PROVE  Bound(q, prog.imports[content[c].path][i])'
      BY <1>2 DEF ImportsBound, Bound
    <3>2. q \in Pointer /\ Bound(q, prog.imports[content[c].path][i])
      BY <1>9, <3>1
    <3>3. PICK x : x = prog.imports[content[c].path][i]
      OBVIOUS
    <3>4. Bound(q, x)'
      BY <2>9, <3>2, <3>3
    <3>5. QED
      BY <1>2, <3>3, <3>4 DEF Bound
  <2>11. TableBound'
    <3>1. SUFFICES ASSUME NEW e \in table PROVE Bound(e.module, e.path)'
      BY <1>2 DEF TableBound
    <3>2. e.module \in Pointer /\ Bound(e.module, e.path)
      BY <1>2, <1>3, <1>9 DEF Graph, TableBound
    <3>3. QED
      BY <2>9, <3>2
  <2>12. AllBound'
    BY <1>2, <1>8, <2>4 DEF AllBound
  <2>13. \A x : Met(x) => Met(x)'
    BY <1>2, <2>7, MetKept
  <2>14. \A x : OpenFiles(x)' = OpenFiles(x)
    <3>1. \A i \in 1 .. fileIndex : modules[i] \in Pointer /\ struct[modules[i]] \in Pointer
      <4>1. \A i \in 1 .. fileIndex : modules[i] \in Pointer
        BY <1>2, <1>3, RootsOK DEF FrontHeap
      <4>2. QED
        BY <4>1, ContentOK
    <3>2. \A i \in 1 .. fileIndex : PathOf(modules[i])' = PathOf(modules[i])
      BY <1>2, <3>1 DEF PathOf
    <3>3. QED
      BY <1>2, <3>2 DEF OpenFiles, PathOf
  <2>15. ASSUME NEW j \in 2 .. n - 1, NEW f, f = fstack'[j] PROVE NestedFrame(f)'
    <3>1. j \in 2 .. n /\ j \in 1 .. n - 1
      BY <2>1
    <3>2. NestedFrame(f)
      BY <1>1, <1>3, <2>1, <2>15, <3>1 DEF FrontGraph
    <3>3. Registered(f.file)' = Registered(f.file)
      BY <1>2 DEF Registered
    <3>4. f.file \notin DoneFiles' => \A i \in 1 .. f.k - 1 : Met(prog.imports[f.file][i])'
      <4>1. SUFFICES ASSUME f.file \notin DoneFiles', NEW i \in 1 .. f.k - 1,
                            NEW x, x = prog.imports[f.file][i]
                     PROVE  Met(x)'
        BY <1>2 DEF Met, Registered
      <4>2. Met(x)
        BY <2>7, <3>2, <4>1 DEF NestedFrame
      <4>3. QED
        BY <2>13, <4>2
    <3>5. QED
      BY <2>7, <2>14, <3>2, <3>3, <3>4 DEF NestedFrame
  <2>16. \A j \in 2 .. Len(fstack') : NestedFrame(fstack[j])'
    BY <2>1, <2>15 DEF NestedFrame, OpenFiles, Registered, Met
  <2>17. \A j \in 1 .. Len(fstack') : FrameBound(fstack[j])'
    <3>1. SUFFICES ASSUME NEW j \in 1 .. n - 1, NEW f, f = fstack'[j] PROVE FrameBound(f)'
      BY <2>1 DEF FrameBound
    <3>2. FrameBound(f) /\ f.module \in Pointer
      BY <1>1, <1>3, <1>4, <2>1, <3>1 DEF FrontGraph
    <3>3. QED
      BY <1>2, <3>2 DEF FrameBound
  <2>18. FramesApart'
    <3>1. SUFFICES ASSUME NEW i \in 1 .. n - 1, NEW j \in 1 .. n - 1, i # j
                   PROVE  fstack'[i].module # fstack'[j].module
      BY <2>1 DEF FramesApart
    <3>2. i \in 1 .. n /\ j \in 1 .. n /\ fstack'[i] = fstack[i] /\ fstack'[j] = fstack[j]
      BY <2>1
    <3>3. FramesApart
      BY <1>3 DEF FrontGraph
    <3>4. QED
      BY <1>1, <1>4, <3>1, <3>2, <3>3 DEF FramesApart
  <2>19. FramesChained'
    <3>1. SUFFICES ASSUME NEW j \in 1 .. n - 1, j # n - 1
                   PROVE  fstack'[j + 1].file = prog.imports[fstack'[j].file][fstack'[j].k]
      BY <1>2, <2>1 DEF FramesChained
    <3>2. j + 1 \in 1 .. n - 1 /\ j \in 1 .. n /\ j # n
      BY <2>1, <3>1
    <3>3. QED
      BY <1>1, <1>3, <2>1, <3>1, <3>2 DEF FrontGraph, FramesChained
  <2>20. current' \in Done' /\ content'[current'].path = Requested'
    <3>1. fstack[n].file = prog.imports[fstack[n - 1].file][fstack[n - 1].k]
      BY <1>1, <1>3, <2>1 DEF FrontGraph, FramesChained
    <3>2. fstack'[n - 1] = fstack[n - 1]
      BY <2>1
    <3>3. Requested' = FTop.file
      BY <1>2, <2>1, <3>1, <3>2 DEF Requested
    <3>4. QED
      BY <1>2, <1>5, <2>6, <3>3
  <2>21. FrontGraph'
    BY <2>16, <2>17, <2>18, <2>19, <2>20 DEF FrontGraph
  <2>22. Untouched' => declared' = {}
    BY <1>2, <2>1 DEF GraphInv, Untouched
  <2>23. QED
    BY <1>2, <1>3, <2>1, <2>8, <2>10, <2>11, <2>12, <2>21, <2>22 DEF GraphInv, Graph
<1>12. QED
  BY <1>10, <1>11

\* Between the files, nothing happens to the imports.
LEMMA FilesDoneGraph ==
  ASSUME Inv, GraphInv, FilesDone
  PROVE  GraphInv'
<1>1. /\ stage = "next" /\ stage' = "output" /\ fileIndex = Len(prog.cmd)
      /\ UNCHANGED <<prog, fileIndex, modules, struct, content, table, declared, fstack>>
  BY DEF FilesDone, heapVars, frontVars, backVars
<1>2. fileIndex # 0 /\ fstack' = <<>>
  BY <1>1, CommandOK DEF Inv, StacksApart
<1>3. Pointer' = Pointer
  BY <1>1 DEF Pointer
<1>4. QED
  BY <1>1, <1>2, <1>3, OutsideGraph

\* Where the process ends, only the prototypes matter.
LEMMA EndsGraph ==
  ASSUME GraphInv, NEW o, Ends(o), stage # "next"
  PROVE  GraphInv'
BY DEF Ends, GraphInv, Untouched

\* A step of backend() that ends nothing.
LEMMA BackendGraph ==
  ASSUME Inv, HeapInv, GraphInv,
         BackendEnter \/ BackendSkip \/ BackendOriginal \/ BackendCall \/ BackendReturn
           \/ GenerateCode
  PROVE  GraphInv'
<1>1. /\ stage = "backend" /\ stage' \in {"backend", "next"}
      /\ UNCHANGED <<prog, fileIndex, modules, content, table, fstack>>
      /\ declared \subseteq declared' /\ Pointer' = Pointer
  <2>1. PICK n : n = Len(bstack)
    OBVIOUS
  <2>2. CASE BackendEnter
    BY <2>1, <2>2, BackendEnterEffect DEF Pointer
  <2>3. CASE BackendSkip \/ BackendOriginal \/ BackendReturn
    BY <2>1, <2>3, BackendNextEffect DEF Pointer
  <2>4. CASE BackendCall
    BY <2>1, <2>4, BackendCallEffect DEF Pointer
  <2>5. CASE GenerateCode
    <3>1. stage = "backend" /\ Pointer' = Pointer
      <4>1. ImportsDone /\ CopyBack
        BY <2>5 DEF GenerateCode
      <4>2. QED
        BY <2>1, <4>1, CopyBackEffect
    <3>2. QED
      BY <2>5, <3>1 DEF GenerateCode, frontVars
  <2>6. QED
    BY <2>2, <2>3, <2>4, <2>5
<1>2. fileIndex # 0 /\ fstack' = <<>>
  BY <1>1 DEF HeapInv, Inv, StacksApart
<1>3. QED
  BY <1>1, <1>2, OutsideGraph

\* Before the first file there are no modules.
LEMMA InitGraph ==
  ASSUME Init
  PROVE  GraphInv
<1>1. /\ stage = "next" /\ fileIndex = 0 /\ Pointer = {} /\ table = {} /\ declared = {}
      /\ fstack = <<>> /\ prog = prog
  BY EmptySeq DEF Init, Pointer
<1>2. DoneFiles = {}
  BY <1>1 DEF DoneFiles, Done
<1>3. Graph
  BY <1>1, <1>2 DEF Graph, ImportsBound, TableBound, AllBound, DoneImportsMet, DoneAcyclic
<1>4. QED
  BY <1>1, <1>3 DEF GraphInv

\* Every step of the driver preserves what is known of the imports.
LEMMA NextGraph ==
  ASSUME Inv, HeapInv, GraphInv, [Next]_vars
  PROVE  GraphInv'
<1>1. CASE StartFile \/ FilesDone
  BY <1>1, StartFileGraph, FilesDoneGraph
<1>2. CASE \/ GenerateOutput \/ ParseFails \/ ImportOverflow \/ TypesOverflow \/ FunctionsOverflow
           \/ TypeCheckFails \/ DeclareFails
           \/ RedefinitionFails \/ GenerateCodeFails
  <2>1. stage # "next"
    BY <1>2 DEF GenerateOutput, ParseFails, ImportOverflow, TypesOverflow, FunctionsOverflow, NeedsFrontend, ImportPending,
         TypeCheckFails, DeclareFails, RedefinitionFails, GenerateCodeFails, ImportsDone,
         FrontAt, BackAt
  <2>2. \E o : Ends(o)
    BY <1>2 DEF GenerateOutput, ParseFails, ImportOverflow, TypesOverflow, FunctionsOverflow, TypeCheckFails, DeclareFails,
         RedefinitionFails, GenerateCodeFails, Fails, EndWith
  <2>3. QED
    BY <2>1, <2>2, EndsGraph
<1>3. CASE ParseFile \/ ImportFile \/ ParseEnd \/ TypeCheck
  BY <1>3, ParseFileGraph, ImportFileGraph, ParseEndGraph, TypeCheckGraph
<1>4. CASE ImportRegistered \/ ImportOpen \/ ImportReturn
  BY <1>4, ImportGraphOK
<1>5. CASE \/ BackendEnter \/ BackendSkip \/ BackendOriginal \/ BackendCall \/ BackendReturn
           \/ GenerateCode
  BY <1>5, BackendGraph
<1>6. CASE UNCHANGED vars
  <2>1. GraphInv' <=> GraphInv
    BY <1>6 DEF vars, GraphInv, Graph, FrontGraph, Untouched, Pointer, ImportsBound, TableBound,
         AllBound, DoneImportsMet, DoneAcyclic, Bound, Done, DoneFiles, Roots, Working, Met,
         Registered, FrameBound, FramesApart, FramesChained, NestedFrame, OpenFiles, PathOf,
         FTop, Requested
  <2>2. QED
    BY <2>1
<1>7. QED
  BY <1>1, <1>2, <1>3, <1>4, <1>5, <1>6 DEF Next, Step, Frontend, Backend, Terminated

\* All that is known of the imports holds in every state.
LEMMA GraphInvariant == Spec => []GraphInv
<1>1. Init => GraphInv
  BY InitGraph
<1>2. Inv /\ HeapInv /\ GraphInv /\ [Next]_vars => GraphInv'
  BY NextGraph
<1>3. QED
  BY <1>1, <1>2, Invariant, HeapInvariant, PTL DEF Spec

\* While the frontends of the first file run, the i-th import of every module is
\* a module of the file that its i-th import statement asks for, whatever the
\* files import and whichever way parse() finds the module: by its registration,
\* among the open files or from the frontend() it calls (main.c:404-432).
THEOREM EveryImportMatches == Spec => []ImportsMatch
<1>1. Inv /\ HeapInv /\ GraphInv => ImportsMatch
  <2>1. SUFFICES ASSUME Inv, HeapInv, GraphInv, stage = "frontend", fileIndex = 1,
                        NEW m \in Pointer, NEW i \in 1 .. Len(ImportsOf(m)),
                        NEW q, q = ImportsOf(m)[i]
                 PROVE  PathOf(q) = prog.imports[PathOf(m)][i]
    BY DEF ImportsMatch
  <2>2. declared = {} /\ Graph
    BY <2>1 DEF GraphInv, Untouched
  <2>3. \A p \in Pointer : struct[p] = p
    BY <2>1, <2>2 DEF HeapInv, Heap, OverwrittenDeclared
  <2>4. struct[m] = m /\ q \in Pointer /\ struct[q] = q
    BY <2>1, <2>3, ContentOK DEF ImportsOf
  <2>5. Bound(q, prog.imports[content[m].path][i])
    BY <2>1, <2>2, <2>4 DEF Graph, ImportsBound, ImportsOf
  <2>6. content[q].path = prog.imports[content[m].path][i]
    BY <2>2, <2>5 DEF Bound
  <2>7. QED
    BY <2>4, <2>6 DEF PathOf
<1>2. QED
  BY <1>1, Invariant, HeapInvariant, GraphInvariant, PTL

-----------------------------------------------------------------------------
(* What backend() declares before it generates code *)

\* The import that a backend() is done with is declared.
LEMMA NextDeclared ==
  ASSUME Inv, HeapInv, GraphInv, PathsApart, BackendSkip \/ BackendOriginal \/ BackendReturn
  PROVE  prog.imports[content[BTop.own].path][BTop.k] \in declared
<1>1. PICK n, q : n = Len(bstack) /\ q = NextImport
  OBVIOUS
<1>2. /\ stage = "backend" /\ n \in Nat \ {0} /\ n \in 1 .. n /\ BTop = bstack[n]
      /\ BTop.pc \in {"loop", "wait"} /\ BTop.own \in Pointer
      /\ BTop.k <= Len(content[BTop.own].imports) /\ q \in Pointer
      /\ \/ BTop.pc = "loop" /\ InList(q)
         \/ BTop.pc = "loop" /\ ~InList(q) /\ IsOriginal(q)
         \/ BTop.pc = "wait"
  BY <1>1, BackendNextEffect
<1>3. Heap /\ BackHeap /\ Graph
  BY <1>2 DEF HeapInv, GraphInv
<1>4. content[q].path \in declared
  <2>1. CASE BTop.pc = "loop" /\ InList(q)
    <3>1. PICK p \in codegen : <<PathOf(p), PathOf(q)>> \in Extends
      BY <2>1 DEF InList
    <3>2. PathOf(p) = PathOf(q)
      BY <3>1 DEF PathsApart
    <3>3. p \in Pointer
      BY DEF Inv, TypeOK
    <3>4. PathOf(p) \in declared
      BY <1>3, <3>3 DEF Heap, OverwrittenDeclared, CodegenDeclared, PathOf
    <3>5. CASE struct[q] = q
      BY <3>2, <3>4, <3>5 DEF PathOf
    <3>6. CASE struct[q] # q
      BY <1>2, <1>3, <3>6 DEF Heap, OverwrittenDeclared
    <3>7. QED
      BY <3>5, <3>6
  <2>2. CASE BTop.pc = "loop" /\ ~InList(q) /\ IsOriginal(q)
    <3>1. PathOf(q) = content[q].path
      BY <1>2, <2>2, TargetFresh
    <3>2. BTop.orig # 0 /\ content[q].path = content[BTop.orig].path
      BY <2>2, <3>1 DEF IsOriginal
    <3>3. VisitOK(1) /\ VisitOK(n) /\ 1 \in 1 .. n
      BY <1>1, <1>2, <1>3 DEF BackHeap
    <3>4. n # 1 /\ BTop.orig = Root
      BY <1>2, <3>2, <3>3 DEF VisitOK
    <3>5. bstack[1].pc = "wait"
      BY <1>1, <3>3, <3>4, BackFramesOK
    <3>6. content[Root].path \in declared
      BY <3>3, <3>5 DEF VisitOK, Visited
    <3>7. QED
      BY <3>2, <3>4, <3>6
  <2>3. CASE BTop.pc = "wait"
    BY <1>1, <1>3, <2>3 DEF BackHeap
  <2>4. QED
    BY <1>2, <2>1, <2>2, <2>3
<1>5. BTop.k \in 1 .. Len(content[BTop.own].imports) /\ q = content[BTop.own].imports[BTop.k]
  <2>1. BTop.k \in Nat \ {0} /\ Len(content[BTop.own].imports) \in Nat
    BY <1>1, <1>2, BackFramesOK, ContentOK
  <2>2. QED
    BY <1>1, <1>2, <2>1 DEF NextImport, BackendImports
<1>6. Bound(q, prog.imports[content[BTop.own].path][BTop.k])
  BY <1>2, <1>3, <1>5 DEF Graph, ImportsBound
<1>7. QED
  BY <1>4, <1>6 DEF Bound

\* Every step preserves that what a backend() has visited is declared.
LEMMA NextDeclares ==
  ASSUME Inv, HeapInv, GraphInv, VisitedDeclared, [Next]_vars
  PROVE  VisitedDeclared'
<1>1. SUFFICES ASSUME PathsApart, stage' = "backend", NEW j \in 1 .. Len(bstack'),
                      bstack'[j].pc # "enter", NEW i \in 1 .. bstack'[j].k - 1
               PROVE  prog'.imports[content'[bstack'[j].own].path][i] \in declared'
  BY DEF VisitedDeclared
<1>2. PICK n : n = Len(bstack)
  OBVIOUS
<1>3. ASSUME stage = "backend", j \in 1 .. n, bstack[j].pc # "enter",
             bstack'[j].own = bstack[j].own, i \in 1 .. bstack[j].k - 1,
             UNCHANGED <<prog, content>>, declared \subseteq declared'
      PROVE  prog'.imports[content'[bstack'[j].own].path][i] \in declared'
  BY <1>1, <1>2, <1>3 DEF VisitedDeclared
<1>4. CASE BackendEnter
  <2>1. /\ stage = "backend" /\ n \in 1 .. n /\ BTop = bstack[n] /\ BTop.pc = "enter"
        /\ declared \subseteq declared' /\ Len(bstack') = n /\ bstack'[n].k = BTop.k
        /\ \A l \in 1 .. n : l # n => bstack'[l] = bstack[l]
        /\ UNCHANGED <<prog, content>>
    BY <1>2, <1>4, BackendEnterEffect
  <2>2. CASE j = n
    <3>1. VisitOK(n)
      BY <1>2, <2>1 DEF HeapInv, BackHeap
    <3>2. bstack'[j].k = 1
      BY <2>1, <2>2, <3>1 DEF VisitOK
    <3>3. QED
      BY <1>1, <3>2
  <2>3. CASE j # n
    BY <1>1, <1>3, <2>1, <2>3
  <2>4. QED
    BY <2>2, <2>3
<1>5. CASE BackendSkip \/ BackendOriginal \/ BackendReturn
  <2>1. /\ stage = "backend" /\ n \in 1 .. n /\ BTop = bstack[n] /\ BTop.pc \in {"loop", "wait"}
        /\ Len(bstack') = n /\ bstack'[n].own = BTop.own /\ bstack'[n].k = BTop.k + 1
        /\ \A l \in 1 .. n : l # n => bstack'[l] = bstack[l]
        /\ UNCHANGED <<prog, content, declared>>
    BY <1>2, <1>5, BackendNextEffect
  <2>2. CASE j = n
    <3>1. BTop.k \in Nat \ {0} /\ BTop.pc # "enter"
      BY <1>2, <2>1, BackFramesOK
    <3>2. i = BTop.k \/ i \in 1 .. BTop.k - 1
      BY <1>1, <2>1, <2>2, <3>1
    <3>3. CASE i = BTop.k
      BY <1>1, <1>5, <2>1, <2>2, <3>3, NextDeclared
    <3>4. CASE i \in 1 .. BTop.k - 1
      BY <1>3, <2>1, <2>2, <3>1, <3>4
    <3>5. QED
      BY <3>2, <3>3, <3>4
  <2>3. CASE j # n
    BY <1>1, <1>3, <2>1, <2>3
  <2>4. QED
    BY <2>2, <2>3
<1>6. CASE BackendCall
  <2>1. /\ stage = "backend" /\ n \in Nat \ {0} /\ n \in 1 .. n /\ BTop = bstack[n] /\ BTop.pc = "loop"
        /\ Len(bstack') = n + 1 /\ bstack'[n + 1].pc = "enter"
        /\ bstack'[n].own = BTop.own /\ bstack'[n].k = BTop.k
        /\ \A l \in 1 .. n : l # n => bstack'[l] = bstack[l]
        /\ UNCHANGED <<prog, content, declared>>
    BY <1>2, <1>6, BackendCallEffect
  <2>2. j \in 1 .. n
    BY <1>1, <2>1
  <2>3. QED
    BY <1>1, <1>3, <2>1, <2>2
<1>7. CASE GenerateCode
  <2>1. n # 1
    BY <1>1, <1>2, <1>7, GenerateCodeEffect
  <2>2. /\ Len(bstack') = n - 1 /\ UNCHANGED <<stage, prog, content, declared>>
        /\ \A l \in 1 .. n - 1 : bstack'[l] = bstack[l] /\ l \in 1 .. n
    BY <1>2, <1>7, <2>1, GenerateCodeEffect
  <2>3. QED
    BY <1>1, <1>3, <2>2
<1>8. CASE TypeCheck
  <2>1. PICK m : m = Len(fstack)
    OBVIOUS
  <2>2. CASE m = 1
    BY <1>1, <1>8, <2>1, <2>2, TypeCheckEffect
  <2>3. CASE m # 1
    BY <1>1, <1>8, <2>1, <2>3, TypeCheckEffect
  <2>4. QED
    BY <2>2, <2>3
<1>9. CASE UNCHANGED vars
  BY <1>1, <1>2, <1>3, <1>9 DEF vars
<1>10. CASE Next /\ ~ \/ BackendEnter \/ BackendSkip \/ BackendOriginal \/ BackendReturn
                      \/ BackendCall \/ GenerateCode \/ TypeCheck \/ UNCHANGED vars
  BY <1>1, <1>10 DEF Next, Step, Frontend, Backend, Terminated, StartFile, FilesDone, GenerateOutput,
     ParseFile, ParseFails, ImportRegistered, ImportOpen, ImportFile, ImportOverflow, TypesOverflow,
     FunctionsOverflow, ImportReturn,
     ParseEnd, TypeCheckFails, DeclareFails, RedefinitionFails, GenerateCodeFails, Bind, FrontAt,
     ImportPending, NeedsFrontend, Fails, EndWith, Ends
<1>11. QED
  BY <1>4, <1>5, <1>6, <1>7, <1>8, <1>9, <1>10

\* What every backend() has visited is declared, in every state.
LEMMA DeclaredInvariant == Spec => []VisitedDeclared
<1>1. Init => VisitedDeclared
  BY DEF Init, VisitedDeclared
<1>2. Inv /\ HeapInv /\ GraphInv /\ VisitedDeclared /\ [Next]_vars => VisitedDeclared'
  BY NextDeclares
<1>3. QED
  BY <1>1, <1>2, Invariant, HeapInvariant, GraphInvariant, PTL DEF Spec

\* Where no path is the beginning of another's, code is generated for a file only
\* when the prototypes of every file it imports are in the LLVM module, whichever
\* modules were overwritten or skipped on the way (main.c:905-935).
THEOREM PrototypesFirst ==
  ASSUME PathsApart
  PROVE  Spec => ImportsDeclaredFirst
<1> DEFINE Declares == \A i \in Len(emitted) + 1 .. Len(emitted') :
                         Range(prog.imports[emitted'[i]]) \subseteq declared
<1>1. ASSUME Inv, HeapInv, GraphInv, VisitedDeclared, [Next]_vars
      PROVE  Declares
  <2>1. emitted \in Seq(File) /\ Len(emitted) \in Nat
    BY <1>1 DEF Inv, TypeOK
  <2>2. CASE GenerateCode
    <3>1. PICK n : n = Len(bstack)
      OBVIOUS
    <3>2. ImportsDone /\ CopyBack /\ emitted' = Append(emitted, OwnPath)
      BY <2>2 DEF GenerateCode
    <3>3. /\ stage = "backend" /\ n \in 1 .. n /\ BTop = bstack[n] /\ BTop.pc = "loop"
          /\ BTop.own \in Pointer /\ BTop.k > Len(content[BTop.own].imports)
      BY <1>1, <3>1, <3>2, CopyBackEffect
    <3>4. Graph /\ fstack = <<>>
      BY <1>1, <3>3 DEF GraphInv, Inv, StacksApart
    <3>5. Working = {}
      BY <3>4, EmptySeq DEF Working
    <3>6. Len(content[BTop.own].imports) = Len(prog.imports[OwnPath])
      BY <3>3, <3>4, <3>5 DEF Graph, AllBound, OwnPath
    <3>7. OwnPath \in File /\ prog.imports[OwnPath] \in Seq(File)
      BY <1>1, <3>3, ContentOK, CommandOK DEF OwnPath
    <3>8. \A i \in 1 .. Len(prog.imports[OwnPath]) : i \in 1 .. BTop.k - 1
      <4>1. BTop.k \in Nat /\ Len(prog.imports[OwnPath]) \in Nat
        BY <1>1, <3>1, <3>3, <3>7, BackFramesOK
      <4>2. QED
        BY <3>3, <3>6, <4>1
    <3>9. \A i \in 1 .. Len(prog.imports[OwnPath]) : prog.imports[OwnPath][i] \in declared
      BY <1>1, <3>1, <3>3, <3>8 DEF VisitedDeclared, OwnPath
    <3>10. Range(prog.imports[OwnPath]) \subseteq declared
      BY <3>7, <3>9 DEF Range
    <3>11. \A i \in Len(emitted) + 1 .. Len(emitted') : emitted'[i] = OwnPath
      BY <2>1, <3>2, <3>7
    <3>12. QED
      BY <3>10, <3>11
  <2>3. CASE ~GenerateCode
    <3>1. UNCHANGED emitted
      BY <1>1, <2>3 DEF Next, Step, Frontend, Backend, Terminated, StartFile, FilesDone,
         GenerateOutput, ParseFile, ParseFails, ImportRegistered, ImportOpen, ImportFile,
         ImportOverflow, TypesOverflow, FunctionsOverflow, ImportReturn, ParseEnd, TypeCheck, TypeCheckFails, BackendEnter,
         DeclareFails, BackendSkip, BackendOriginal, BackendCall, BackendReturn,
         RedefinitionFails, GenerateCodeFails, Bind, Fails, EndWith, Ends, backVars, vars
    <3>2. QED
      BY <2>1, <3>1
  <2>4. QED
    BY <2>2, <2>3
<1>2. ASSUME Inv, HeapInv, GraphInv, VisitedDeclared, [Next]_vars
      PROVE  [Declares]_vars
  BY <1>1, <1>2
<1>3. QED
  BY <1>2, Invariant, HeapInvariant, GraphInvariant, DeclaredInvariant, PTL
     DEF Spec, ImportsDeclaredFirst

-----------------------------------------------------------------------------
(* The cycles through the first file *)

FirstFile == prog.cmd[1]
OfFirst == Needed(prog.imports, {FirstFile})

\* Some file that the first one needs imports it again.
FirstOnCycle == \E g \in OfFirst : FirstFile \in Range(prog.imports[g])

\* Then the first file is registered by the time its frontend() returns.
FirstRegistered ==
  (/\ FirstOnCycle
   /\ \/ stage \notin {"frontend", "done"} /\ fileIndex > 0
      \/ stage = "frontend" /\ fileIndex > 1) => Registered(FirstFile) # {}

\* A file of the command line that has imported itself is registered.
SelfRegistered ==
  \A i \in 1 .. fstack[1].k - 1 :
    prog.imports[fstack[1].file][i] = fstack[1].file => Registered(fstack[1].file) # {}

\* Later frontends are not called for the first file where it is on a cycle.
FirstNotCalled ==
  fileIndex > 1 => \A j \in 2 .. Len(fstack) : fstack[j].file = FirstFile => ~FirstOnCycle

\* A frontend() is called for what its callers need.
NeededNest ==
  \A i, j \in 1 .. Len(fstack) :
    (i < j /\ fstack[i].file \in OfFirst) => fstack[j].file \in OfFirst

\* The first file is parsed once.
FirstAlone ==
  fileIndex = 1 => \A p \in Pointer : content[p].path = FirstFile => p = modules[1]

FirstInv ==
  /\ FirstRegistered
  /\ stage = "frontend" => SelfRegistered /\ FirstNotCalled /\ NeededNest /\ FirstAlone

\* While the imports of the first file are resolved, that file is open.
LEMMA FirstOpen ==
  ASSUME Inv, HeapInv, GraphInv, stage = "frontend", fileIndex = 1, fstack[1].pc # "parse"
  PROVE  /\ modules[1] \in Pointer /\ modules[1] = fstack[1].module
         /\ content[modules[1]].path = FirstFile /\ FirstFile = fstack[1].file
         /\ 1 \in OpenFiles(FirstFile)
<1>1. FrontHeap /\ Heap /\ declared = {}
  BY DEF HeapInv, GraphInv, Untouched
<1>2. Len(fstack) \in Nat \ {0} /\ 1 \in 1 .. Len(fstack)
  BY <1>1, FTopOK DEF FrontHeap
<1>3. FrontFrameFresh(fstack[1]) /\ fstack[1].module \in Pointer
  BY <1>1, <1>2, FramesOK DEF FrontHeap
<1>4. /\ modules[1] = fstack[1].module /\ struct[modules[1]] = modules[1]
      /\ content[modules[1]].path = fstack[1].file /\ fstack[1].file = FirstFile
  BY <1>1, <1>3 DEF FrontHeap, FrontFrameFresh, Root, FirstFile
<1>5. QED
  BY <1>3, <1>4 DEF OpenFiles, PathOf

\* What a file needs, the files that import it need too.
LEMMA NeededClosed ==
  ASSUME Inv, NEW f \in OfFirst, NEW x \in File, x \in Range(prog.imports[f])
  PROVE  x \in OfFirst
<1>1. DOMAIN prog.imports = File
  BY CommandOK
<1>2. QED
  BY <1>1 DEF OfFirst, Needed

\* A step of the frontends that calls none and ends none.
LEMMA FirstKept ==
  ASSUME FirstInv, stage = "frontend",
         UNCHANGED <<stage, prog, fileIndex>>, table \subseteq table',
         \A j \in 1 .. Len(fstack') : j \in 1 .. Len(fstack) /\ fstack'[j].file = fstack[j].file,
         1 \in 1 .. Len(fstack'),
         \A i \in 1 .. fstack'[1].k - 1 :
           prog.imports[fstack[1].file][i] = fstack[1].file =>
             i \in 1 .. fstack[1].k - 1 \/ Registered(fstack[1].file)' # {},
         fileIndex = 1 => FirstAlone'
  PROVE  FirstInv'
<1>1. FirstFile' = FirstFile /\ OfFirst' = OfFirst
  BY DEF FirstFile, OfFirst
<1>2. FirstOnCycle' <=> FirstOnCycle
  BY <1>1 DEF FirstOnCycle
<1>3. \A x : Registered(x) \subseteq Registered(x)'
  BY DEF Registered
<1>4. FirstRegistered'
  BY <1>1, <1>2, <1>3 DEF FirstInv, FirstRegistered, Registered
<1>5. SelfRegistered'
  BY <1>3 DEF FirstInv, SelfRegistered, Registered
<1>6. FirstNotCalled'
  <2>1. \A j \in 2 .. Len(fstack') : j \in 1 .. Len(fstack')
    OBVIOUS
  <2>2. \A j \in 2 .. Len(fstack') : j \in 2 .. Len(fstack) /\ fstack'[j].file = fstack[j].file
    BY <2>1
  <2>3. QED
    BY <1>1, <1>2, <2>2 DEF FirstInv, FirstNotCalled
<1>7. NeededNest'
  BY <1>1 DEF FirstInv, NeededNest
<1>8. FirstAlone'
  BY DEF FirstAlone
<1>9. QED
  BY <1>4, <1>5, <1>6, <1>7, <1>8 DEF FirstInv

\* main() enters a file.
LEMMA StartFileFirst ==
  ASSUME Inv, HeapInv, GraphInv, FirstInv, StartFile
  PROVE  FirstInv'
<1>1. /\ stage = "next" /\ stage' = "frontend" /\ fileIndex' = fileIndex + 1
      /\ Len(fstack') = 1 /\ fstack'[1].k = 1
      /\ UNCHANGED <<prog, modules, content, struct, table>>
  BY StartFileEffect
<1>2. fileIndex \in Nat
  BY CommandOK
<1>3. FirstRegistered'
  BY <1>1, <1>2 DEF FirstInv, FirstRegistered, FirstOnCycle, OfFirst, FirstFile, Registered
<1>4. FirstAlone'
  BY <1>1, <1>2 DEF GraphInv, FirstAlone, Pointer
<1>5. SelfRegistered' /\ FirstNotCalled' /\ NeededNest'
  BY <1>1 DEF SelfRegistered, FirstNotCalled, NeededNest
<1>6. QED
  BY <1>3, <1>4, <1>5 DEF FirstInv

\* A file is parsed: only the first one is the first file's.
LEMMA ParseFileFirst ==
  ASSUME Inv, HeapInv, GraphInv, FirstInv, ParseFile
  PROVE  FirstInv'
<1>1. PICK n, new : n = Len(fstack) /\ new = Len(struct) + 1
  OBVIOUS
<1>2. FrontHeap /\ FrontGraph /\ stage = "frontend" /\ fileIndex # 0
  BY DEF HeapInv, GraphInv, ParseFile, FrontAt
<1>3. stage = "frontend" => \A j \in 1 .. Len(fstack) : fstack[j].pc = "parse" => fstack[j].k = 1
  BY <1>2 DEF FrontHeap, FrontFrameFresh
<1>4. /\ n \in Nat \ {0} /\ n \in 1 .. n /\ FTop = fstack[n] /\ FTop.pc = "parse"
      /\ Pointer' = Pointer \union {new} /\ new \notin Pointer
      /\ \A p \in Pointer : content'[p] = content[p]
      /\ content'[new].path = FTop.file
      /\ Len(fstack') = n /\ fstack'[n].k = 1 /\ fstack'[n].file = FTop.file
      /\ \A j \in 1 .. n : j # n => fstack'[j] = fstack[j]
      /\ modules' = IF modules[fileIndex] = 0
                    THEN [modules EXCEPT ![fileIndex] = new] ELSE modules
      /\ UNCHANGED <<prog, fileIndex, stage, table>>
  BY <1>1, <1>3, ParseFileEffect
<1>5. fstack[n].k = 1
  BY <1>1, <1>2, <1>4 DEF FrontHeap, FrontFrameFresh
<1>6. ASSUME fileIndex = 1 PROVE FirstAlone'
  <2>1. SUFFICES ASSUME NEW p \in Pointer \union {new}, content'[p].path = FirstFile
                 PROVE  p = modules'[1]
    BY <1>4 DEF FirstAlone, FirstFile
  <2>2. modules[1] \in Pointer \union {0} /\ 1 \in 1 .. Len(prog.cmd)
        /\ modules \in [1 .. Len(prog.cmd) -> 0 .. Len(struct)]
    BY <1>2, <1>6, CommandOK DEF Inv, TypeOK
  <2>3. CASE n = 1
    <3>1. modules[1] = 0
      BY <1>1, <1>2, <1>4, <1>6, <2>3 DEF FrontHeap, FrontFrameFresh, Root
    <3>2. p \notin Pointer
      <4>1. 0 \notin Pointer
        BY DEF Pointer
      <4>2. QED
        BY <1>2, <1>4, <1>6, <2>1, <3>1, <4>1 DEF FirstInv, FirstAlone
    <3>3. QED
      BY <1>4, <1>6, <2>1, <2>2, <3>1, <3>2
  <2>4. CASE n # 1
    <3>1. 1 \in 1 .. n /\ 1 # n /\ n \in 2 .. n
      BY <1>4, <2>4
    <3>2. fstack[1].pc # "parse"
      BY <1>1, <3>1, CallersWait
    <3>3. 1 \in OpenFiles(FirstFile) /\ modules[1] \in Pointer
      BY <1>2, <1>6, <3>2, FirstOpen
    <3>4. NestedFrame(FTop)
      BY <1>1, <1>2, <1>4, <3>1 DEF FrontGraph
    <3>5. FTop.file # FirstFile
      BY <3>3, <3>4 DEF NestedFrame
    <3>6. p \in Pointer /\ p = modules[1]
      BY <1>2, <1>4, <1>6, <2>1, <3>5 DEF FirstInv, FirstAlone
    <3>7. 0 \notin Pointer
      BY DEF Pointer
    <3>8. QED
      BY <1>4, <1>6, <3>3, <3>6, <3>7
  <2>5. QED
    BY <2>3, <2>4
<1>7. \A j \in 1 .. Len(fstack') : j \in 1 .. Len(fstack) /\ fstack'[j].file = fstack[j].file
                                   /\ fstack'[j].k = fstack[j].k
  BY <1>1, <1>4, <1>5
<1>8. 1 \in 1 .. Len(fstack')
  BY <1>4
<1>9. QED
  BY <1>2, <1>4, <1>6, <1>7, <1>8, FirstKept

\* One turn of the import loop registers the file that imports itself.
LEMMA ImportFirst ==
  ASSUME Inv, HeapInv, GraphInv, FirstInv, ImportRegistered \/ ImportOpen \/ ImportReturn
  PROVE  FirstInv'
<1>1. /\ stage = "frontend" /\ fstack # <<>> /\ FTop.pc \in {"import", "wait"}
      /\ FTop.k <= Len(prog.imports[FTop.file]) /\ Requested \in File
  BY ImportCases
<1>2. PICK m \in Pointer : Bind(m)
  BY ImportCases
<1>3. PICK n, c, l, req :
        n = Len(fstack) /\ c = FTop.module /\ l = Len(content[c].imports) /\ req = Requested
  OBVIOUS
<1>4. struct[FTop.module] = FTop.module
  BY <1>1, FrontModule
<1>5. /\ n \in Nat \ {0} /\ n \in 1 .. n /\ FTop = fstack[n] /\ Pointer' = Pointer
      /\ \A p \in Pointer : content'[p].path = content[p].path
      /\ table' = IF Registered(FTop.file) = {}
                  THEN table \union {[path |-> req, module |-> m]} ELSE table
      /\ Len(fstack') = n /\ fstack'[n].k = FTop.k + 1 /\ fstack'[n].file = FTop.file
      /\ \A j \in 1 .. n : j # n => fstack'[j] = fstack[j]
      /\ UNCHANGED <<prog, fileIndex, stage, modules>>
  BY <1>1, <1>2, <1>3, <1>4, BindEffect
<1>6. /\ \A j \in 1 .. Len(fstack') : j \in 1 .. Len(fstack) /\ fstack'[j].file = fstack[j].file
      /\ 1 \in 1 .. Len(fstack') /\ table \subseteq table'
  BY <1>3, <1>5
<1>7. fileIndex = 1 => FirstAlone'
  BY <1>1, <1>5 DEF FirstInv, FirstAlone, FirstFile
<1>8. ASSUME NEW i \in 1 .. fstack'[1].k - 1, prog.imports[fstack[1].file][i] = fstack[1].file,
             i \notin 1 .. fstack[1].k - 1
      PROVE  Registered(fstack[1].file)' # {}
  <2>1. n = 1
    <3>1. SUFFICES ASSUME n # 1 PROVE FALSE
      OBVIOUS
    <3>2. fstack'[1] = fstack[1]
      BY <1>5, <3>1
    <3>3. QED
      BY <1>8, <3>2
  <2>2. FTop = fstack[1] /\ FTop.k \in Nat \ {0} /\ i = FTop.k
    <3>1. FTop.k \in Nat \ {0}
      BY <1>3, <1>5, FramesOK
    <3>2. QED
      BY <1>5, <1>8, <2>1, <3>1
  <2>3. req = FTop.file
    BY <1>3, <1>8, <2>2 DEF Requested
  <2>4. CASE Registered(FTop.file) = {}
    <3>1. [path |-> req, module |-> m] \in table'
      BY <1>5, <2>4
    <3>2. m \in Registered(req)'
      BY <3>1 DEF Registered
    <3>3. QED
      BY <1>6, <2>2, <2>3, <3>2
  <2>5. CASE Registered(FTop.file) # {}
    BY <1>6, <2>2, <2>5 DEF Registered
  <2>6. QED
    BY <2>4, <2>5
<1>9. QED
  BY <1>1, <1>5, <1>6, <1>7, <1>8, FirstKept

\* A frontend() is called for a file that is needed and not registered.
LEMMA ImportFileFirst ==
  ASSUME Inv, HeapInv, GraphInv, FirstInv, ImportFile
  PROVE  FirstInv'
<1>1. PICK n : n = Len(fstack)
  OBVIOUS
<1>2. /\ stage = "frontend" /\ n \in Nat \ {0} /\ n \in 1 .. n /\ FTop = fstack[n]
      /\ FTop.k <= Len(prog.imports[FTop.file])
      /\ Requested \in File /\ Registered(Requested) = {} /\ n + 1 \in Nat /\ n + 1 # n
      /\ Len(fstack') = n + 1 /\ fstack'[n + 1].file = Requested
      /\ fstack'[n].k = FTop.k /\ fstack'[n].file = FTop.file
      /\ \A j \in 1 .. n : j # n => fstack'[j] = fstack[j]
      /\ UNCHANGED <<prog, fileIndex, stage, modules, struct, content, table>>
  BY <1>1, ImportFileEffect
<1>3. \A j \in 1 .. n : fstack'[j].file = fstack[j].file /\ fstack'[j].k = fstack[j].k
  BY <1>2
<1>4. \A j \in 1 .. n + 1 : j = n + 1 \/ j \in 1 .. n
  BY <1>2
<1>5. FirstFile' = FirstFile /\ OfFirst' = OfFirst /\ (FirstOnCycle' <=> FirstOnCycle)
  BY <1>2 DEF FirstFile, OfFirst, FirstOnCycle
<1>6. Requested \in Range(prog.imports[FTop.file])
  <2>1. FTop.k \in Nat \ {0} /\ FTop.file \in File
    BY <1>1, <1>2, FramesOK
  <2>2. prog.imports[FTop.file] \in Seq(File)
    BY <2>1, CommandOK
  <2>3. FTop.k \in DOMAIN prog.imports[FTop.file]
    BY <1>2, <2>1, <2>2
  <2>4. QED
    BY <2>3 DEF Requested, Range
<1>7. FirstRegistered'
  BY <1>2 DEF FirstInv, FirstRegistered, FirstOnCycle, OfFirst, FirstFile, Registered
<1>8. SelfRegistered'
  <2>1. 1 \in 1 .. n
    BY <1>2
  <2>2. QED
    BY <1>2, <1>3, <2>1 DEF FirstInv, SelfRegistered, Registered
<1>9. FirstNotCalled'
  <2>1. SUFFICES ASSUME fileIndex > 1, NEW j \in 2 .. n + 1, fstack'[j].file = FirstFile,
                        FirstOnCycle
                 PROVE  FALSE
    BY <1>2, <1>5 DEF FirstNotCalled
  <2>2. CASE j = n + 1
    BY <1>2, <2>1, <2>2 DEF FirstInv, FirstRegistered
  <2>3. CASE j # n + 1
    <3>1. j \in 1 .. n /\ j \in 2 .. n
      BY <1>2, <2>1, <2>3
    <3>2. QED
      BY <1>1, <1>2, <1>3, <2>1, <3>1 DEF FirstInv, FirstNotCalled
  <2>4. QED
    BY <2>2, <2>3
<1>10. NeededNest'
  <2>1. SUFFICES ASSUME NEW i \in 1 .. n + 1, NEW j \in 1 .. n + 1, i < j,
                        fstack'[i].file \in OfFirst
                 PROVE  fstack'[j].file \in OfFirst
    BY <1>2, <1>5 DEF NeededNest
  <2>2. i \in 1 .. n /\ fstack[i].file \in OfFirst
    BY <1>2, <1>3, <2>1
  <2>3. CASE j # n + 1
    BY <1>1, <1>2, <1>3, <1>4, <2>1, <2>2, <2>3 DEF FirstInv, NeededNest
  <2>4. CASE j = n + 1
    <3>1. FTop.file \in OfFirst
      <4>1. i = n \/ i < n
        BY <1>2, <2>2
      <4>2. QED
        BY <1>1, <1>2, <2>2, <4>1 DEF FirstInv, NeededNest
    <3>2. QED
      BY <1>2, <1>6, <2>4, <3>1, NeededClosed
  <2>5. QED
    BY <2>3, <2>4
<1>11. FirstAlone'
  BY <1>2 DEF FirstInv, FirstAlone, FirstFile, Pointer
<1>12. QED
  BY <1>7, <1>8, <1>9, <1>10, <1>11 DEF FirstInv

\* parse() is done with the imports of a file.
LEMMA ParseEndFirst ==
  ASSUME Inv, FirstInv, ParseEnd
  PROVE  FirstInv'
<1>1. PICK n : n = Len(fstack)
  OBVIOUS
<1>2. /\ stage = "frontend" /\ n \in Nat \ {0} /\ n \in 1 .. n /\ FTop = fstack[n]
      /\ Len(fstack') = n /\ fstack'[n].k = FTop.k /\ fstack'[n].file = FTop.file
      /\ \A j \in 1 .. n : j # n => fstack'[j] = fstack[j]
      /\ UNCHANGED <<prog, fileIndex, stage, modules, struct, content, table>>
  BY <1>1, ParseEndEffect
<1>3. /\ \A j \in 1 .. Len(fstack') : /\ j \in 1 .. Len(fstack) /\ fstack'[j].file = fstack[j].file
                                      /\ fstack'[j].k = fstack[j].k
      /\ 1 \in 1 .. Len(fstack')
  BY <1>1, <1>2
<1>4. FirstAlone'
  BY <1>2 DEF FirstInv, FirstAlone, FirstFile, Pointer
<1>5. QED
  BY <1>2, <1>3, <1>4, FirstKept

\* When the first frontend() returns, the files it has parsed are those that the
\* first file needs: one of them has registered the first file, if any imports it.
LEMMA FirstDone ==
  ASSUME Inv, HeapInv, GraphInv, FirstInv, TypeCheck, Len(fstack) = 1, fileIndex = 1, FirstOnCycle
  PROVE  Registered(FirstFile) # {}
<1>1. /\ stage = "frontend" /\ FTop = fstack[1] /\ FTop.pc = "check" /\ 1 \in 1 .. 1
  BY TypeCheckEffect
<1>2. FrontHeap /\ FrontGraph /\ Graph /\ declared = {}
  BY <1>1 DEF HeapInv, GraphInv, Untouched
<1>3. /\ modules[1] \in Pointer /\ modules[1] = fstack[1].module
      /\ content[modules[1]].path = FirstFile /\ FirstFile = fstack[1].file
  BY <1>1, FirstOpen
<1>4. Roots = {modules[1]}
  BY <1>3 DEF Roots, Pointer
<1>5. FirstFile \notin DoneFiles
  <2>1. \A p \in Pointer : content[p].path = FirstFile => p = modules[1]
    BY <1>1 DEF FirstInv, FirstAlone
  <2>2. QED
    BY <1>4, <2>1 DEF DoneFiles, Done
<1>6. /\ FirstFile \in File /\ prog.imports \in [File -> Seq(File)]
      /\ Len(prog.imports[FirstFile]) \in Nat
      /\ fstack[1].k = Len(prog.imports[FirstFile]) + 1
      /\ Len(content[modules[1]].imports) = Len(prog.imports[FirstFile])
  <2>1. FirstFile \in File /\ prog.imports \in [File -> Seq(File)]
    BY <1>3, FramesOK, CommandOK
  <2>2. Len(prog.imports[FirstFile]) \in Nat
    BY <2>1
  <2>3. FrameBound(fstack[1])
    BY <1>2 DEF FrontGraph
  <2>4. QED
    BY <1>1, <1>3, <2>1, <2>2, <2>3 DEF FrameBound
<1>7. ASSUME NEW q, NEW x, Bound(q, x) PROVE x \in DoneFiles \union {FirstFile}
  BY <1>2, <1>3, <1>4, <1>7 DEF Bound, DoneFiles
<1>8. \A f \in DoneFiles \union {FirstFile} :
        Range(prog.imports[f]) \subseteq DoneFiles \union {FirstFile}
  <2>1. SUFFICES ASSUME NEW f \in DoneFiles \union {FirstFile}, NEW x \in Range(prog.imports[f])
                 PROVE  x \in DoneFiles \union {FirstFile}
    OBVIOUS
  <2>2. DoneFiles \subseteq File
    BY ContentOK DEF DoneFiles, Done
  <2>3. PICK i \in 1 .. Len(prog.imports[f]) : x = prog.imports[f][i]
    BY <1>6, <2>2 DEF Range
  <2>4. CASE f = FirstFile
    <3>1. i \in 1 .. Len(content[modules[1]].imports)
      BY <1>6, <2>3, <2>4
    <3>2. Bound(content[modules[1]].imports[i], prog.imports[content[modules[1]].path][i])
      BY <1>2, <1>3, <3>1 DEF Graph, ImportsBound
    <3>3. QED
      BY <1>3, <1>7, <2>3, <2>4, <3>2
  <2>5. CASE f \in DoneFiles
    <3>1. Met(x)
      BY <1>2, <2>3, <2>5 DEF Graph, DoneImportsMet
    <3>2. CASE Registered(x) # {}
      <4>1. PICK e \in table : e.path = x
        BY <3>2 DEF Registered
      <4>2. QED
        BY <1>2, <1>7, <4>1 DEF Graph, TableBound
    <3>3. QED
      BY <3>1, <3>2 DEF Met
  <2>6. QED
    BY <2>4, <2>5
<1>9. OfFirst \subseteq DoneFiles \union {FirstFile}
  <2>1. DoneFiles \union {FirstFile} \in SUBSET File /\ DOMAIN prog.imports = File
    BY <1>6, ContentOK DEF DoneFiles, Done
  <2>2. QED
    BY <1>8, <2>1 DEF OfFirst, Needed
<1>10. PICK g \in OfFirst : FirstFile \in Range(prog.imports[g])
  BY DEF FirstOnCycle
<1>11. g \in File
  BY <1>6, <1>10 DEF OfFirst, Needed
<1>12. PICK i \in 1 .. Len(prog.imports[g]) : prog.imports[g][i] = FirstFile
  BY <1>6, <1>10, <1>11 DEF Range
<1>13. CASE g = FirstFile
  <2>1. i \in 1 .. fstack[1].k - 1
    BY <1>6, <1>12, <1>13
  <2>2. QED
    BY <1>1, <1>3, <1>12, <1>13, <2>1 DEF FirstInv, SelfRegistered
<1>14. CASE g \in DoneFiles
  BY <1>2, <1>5, <1>12, <1>14 DEF Graph, DoneImportsMet, Met
<1>15. QED
  BY <1>9, <1>10, <1>13, <1>14

\* type_check() ends a frontend().
LEMMA TypeCheckFirst ==
  ASSUME Inv, HeapInv, GraphInv, FirstInv, TypeCheck
  PROVE  FirstInv'
<1>1. PICK n : n = Len(fstack)
  OBVIOUS
<1>2. /\ stage = "frontend" /\ n \in Nat \ {0} /\ n \in 1 .. n
      /\ \A p \in Pointer : content'[p].path = content[p].path
      /\ Pointer' = Pointer
      /\ UNCHANGED <<prog, fileIndex, modules, table>>
  BY <1>1, TypeCheckEffect
<1>3. fileIndex \in Nat \ {0}
  BY <1>2, CommandOK DEF HeapInv
<1>4. CASE n = 1
  <2>1. stage' = "backend"
    BY <1>1, <1>4, TypeCheckEffect
  <2>2. FirstOnCycle' <=> FirstOnCycle
    BY <1>2 DEF FirstOnCycle, OfFirst, FirstFile
  <2>3. FirstOnCycle => Registered(FirstFile) # {}
    <3>1. CASE fileIndex = 1
      BY <1>1, <1>4, <3>1, FirstDone
    <3>2. CASE fileIndex > 1
      BY <1>2, <3>2 DEF FirstInv, FirstRegistered
    <3>3. QED
      BY <1>3, <3>1, <3>2
  <2>4. QED
    BY <1>2, <2>1, <2>2, <2>3 DEF FirstInv, FirstRegistered, Registered, FirstFile
<1>5. CASE n # 1
  <2>1. /\ n - 1 \in Nat \ {0} /\ Len(fstack') = n - 1 /\ UNCHANGED stage
        /\ \A j \in 1 .. n - 1 : fstack'[j] = fstack[j] /\ j \in 1 .. n
    BY <1>1, <1>5, TypeCheckEffect
  <2>2. /\ \A j \in 1 .. Len(fstack') : /\ j \in 1 .. Len(fstack) /\ fstack'[j].file = fstack[j].file
                                        /\ fstack'[j].k = fstack[j].k
        /\ 1 \in 1 .. Len(fstack')
    BY <1>1, <2>1
  <2>3. FirstAlone'
    BY <1>2 DEF FirstInv, FirstAlone, FirstFile
  <2>4. QED
    BY <1>2, <2>1, <2>2, <2>3, FirstKept
<1>6. QED
  BY <1>4, <1>5

\* Every step preserves what is known of the cycles through the first file.
LEMMA NextFirst ==
  ASSUME Inv, HeapInv, GraphInv, FirstInv, [Next]_vars
  PROVE  FirstInv'
<1>1. CASE StartFile
  BY <1>1, StartFileFirst
<1>2. CASE \/ GenerateOutput \/ ParseFails \/ ImportOverflow \/ TypesOverflow \/ FunctionsOverflow
           \/ TypeCheckFails \/ DeclareFails
           \/ RedefinitionFails \/ GenerateCodeFails
  <2>1. stage' = "done"
    BY <1>2 DEF GenerateOutput, ParseFails, ImportOverflow, TypesOverflow, FunctionsOverflow, TypeCheckFails, DeclareFails,
         RedefinitionFails, GenerateCodeFails, Fails, EndWith, Ends
  <2>2. QED
    BY <2>1 DEF FirstInv, FirstRegistered
<1>3. CASE ParseFile \/ ImportFile \/ ParseEnd \/ TypeCheck
  BY <1>3, ParseFileFirst, ImportFileFirst, ParseEndFirst, TypeCheckFirst
<1>4. CASE ImportRegistered \/ ImportOpen \/ ImportReturn
  BY <1>4, ImportFirst
<1>5. CASE \/ BackendEnter \/ BackendSkip \/ BackendOriginal \/ BackendCall \/ BackendReturn
           \/ GenerateCode \/ FilesDone
  <2>1. /\ stage \notin {"frontend", "done"} /\ stage' \notin {"frontend", "done"}
        /\ UNCHANGED <<prog, fileIndex, table>>
    BY <1>5 DEF BackendEnter, BackendSkip, BackendOriginal, BackendCall, BackendReturn,
         GenerateCode, FilesDone, BackendPending, ImportsDone, BackAt, frontVars
  <2>2. QED
    BY <2>1 DEF FirstInv, FirstRegistered, FirstOnCycle, OfFirst, FirstFile, Registered
<1>6. CASE UNCHANGED vars
  <2>1. FirstInv' <=> FirstInv
    BY <1>6 DEF vars, FirstInv, FirstRegistered, SelfRegistered, FirstNotCalled, NeededNest,
         FirstAlone, FirstOnCycle, OfFirst, FirstFile, Registered, Pointer
  <2>2. QED
    BY <2>1
<1>7. QED
  BY <1>1, <1>2, <1>3, <1>4, <1>5, <1>6 DEF Next, Step, Frontend, Backend, Terminated

\* The cycles through the first file are known in every state.
LEMMA FirstInvariant == Spec => []FirstInv
<1>1. Init => FirstInv
  BY DEF Init, FirstInv, FirstRegistered
<1>2. Inv /\ HeapInv /\ GraphInv /\ FirstInv /\ [Next]_vars => FirstInv'
  BY NextFirst
<1>3. QED
  BY <1>1, <1>2, Invariant, HeapInvariant, GraphInvariant, PTL DEF Spec

\* The file of the i-th nested call of frontend(), the one about to be made included
Called(i) == IF i \in 1 .. Len(fstack) THEN fstack[i].file ELSE Requested

\* Each call is for an import of its caller's file.
LEMMA CallChain ==
  ASSUME Inv, HeapInv, GraphInv, NeedsFrontend, NEW n, n = Len(fstack)
  PROVE  /\ n \in Nat \ {0} /\ stage = "frontend"
         /\ \A i \in 1 .. n + 1 : Called(i) \in File
         /\ \A i \in 1 .. n : i + 1 \in 1 .. n + 1 /\ Called(i + 1) \in Range(prog.imports[Called(i)])
         /\ Registered(Requested) = {} /\ OpenFiles(Requested) = {}
         /\ Called(n + 1) = Requested /\ \A i \in 1 .. n : Called(i) = fstack[i].file
<1>1. /\ stage = "frontend" /\ fstack # <<>> /\ FTop.pc = "import"
      /\ FTop.k <= Len(prog.imports[FTop.file])
      /\ Registered(Requested) = {} /\ OpenFiles(Requested) = {}
  BY DEF NeedsFrontend, ImportPending, FrontAt
<1>2. n \in Nat \ {0} /\ n \in 1 .. n /\ FTop = fstack[n] /\ FrontGraph
  BY <1>1, FTopOK DEF GraphInv
<1>3. Called(n + 1) = Requested /\ \A i \in 1 .. n : Called(i) = fstack[i].file
  BY <1>2 DEF Called
<1>4. \A i \in 1 .. n :
        /\ fstack[i].file \in File /\ fstack[i].k \in Nat \ {0}
        /\ fstack[i].k <= Len(prog.imports[fstack[i].file])
  BY <1>1, <1>2, FramesOK, CallersWait
<1>5. \A i \in 1 .. n : prog.imports[fstack[i].file][fstack[i].k] \in Range(prog.imports[fstack[i].file])
  <2>1. TAKE i \in 1 .. n
  <2>2. prog.imports[fstack[i].file] \in Seq(File)
    BY <1>4, CommandOK
  <2>3. fstack[i].k \in DOMAIN prog.imports[fstack[i].file]
    BY <1>4, <2>2
  <2>4. QED
    BY <2>3 DEF Range
<1>6. \A i \in 1 .. n : Called(i + 1) = prog.imports[fstack[i].file][fstack[i].k]
  <2>1. TAKE i \in 1 .. n
  <2>2. CASE i = n
    BY <1>2, <1>3, <2>2 DEF Requested
  <2>3. CASE i # n
    <3>1. i + 1 \in 1 .. n
      BY <1>2, <2>3
    <3>2. QED
      BY <1>2, <1>3, <2>3, <3>1 DEF FrontGraph, FramesChained
  <2>4. QED
    BY <2>2, <2>3
<1>7. \A i \in 1 .. n + 1 : Called(i) \in File
  <2>1. Requested \in File
    <3>1. Requested \in Range(prog.imports[FTop.file]) /\ prog.imports[FTop.file] \in Seq(File)
      BY <1>2, <1>4, <1>5, CommandOK DEF Requested
    <3>2. QED
      BY <3>1 DEF Range
  <2>2. QED
    BY <1>2, <1>3, <1>4, <2>1
<1>8. \A i \in 1 .. n : i + 1 \in 1 .. n + 1
  BY <1>2
<1>9. QED
  BY <1>1, <1>2, <1>3, <1>5, <1>6, <1>7, <1>8

\* No call is made for the file of the command line, if that is the first one.
LEMMA FirstNotNested ==
  ASSUME Inv, HeapInv, GraphInv, FirstInv, NeedsFrontend, NEW i \in 2 .. Len(fstack) + 1,
         Called(i) = FirstFile, fileIndex = 1 \/ FirstOnCycle
  PROVE  FALSE
<1>1. PICK n : n = Len(fstack)
  OBVIOUS
<1>2. /\ n \in Nat \ {0} /\ stage = "frontend"
      /\ Registered(Requested) = {} /\ OpenFiles(Requested) = {}
      /\ Called(n + 1) = Requested /\ \A j \in 1 .. n : Called(j) = fstack[j].file
  BY <1>1, CallChain
<1>3. FrontGraph /\ FTop.pc = "import" /\ fileIndex \in Nat \ {0}
  BY <1>2, CommandOK DEF GraphInv, HeapInv, NeedsFrontend, ImportPending, FrontAt
<1>4. CASE fileIndex = 1
  <2>1. fstack[1].pc # "parse"
    <3>1. FTop = fstack[n] /\ 1 \in 1 .. n
      BY <1>1, <1>2, FTopOK
    <3>2. CASE n = 1
      BY <1>3, <3>1, <3>2
    <3>3. CASE n # 1
      BY <1>1, <3>1, <3>3, CallersWait
    <3>4. QED
      BY <3>2, <3>3
  <2>2. OpenFiles(FirstFile) # {}
    BY <1>2, <1>4, <2>1, FirstOpen
  <2>3. CASE i = n + 1
    BY <1>2, <2>2, <2>3
  <2>4. CASE i # n + 1
    <3>1. i \in 2 .. n /\ i \in 1 .. n
      BY <1>1, <1>2, <2>4
    <3>2. NestedFrame(fstack[i])
      BY <1>1, <1>3, <3>1 DEF FrontGraph
    <3>3. QED
      BY <1>2, <2>2, <3>1, <3>2 DEF NestedFrame
  <2>5. QED
    BY <2>3, <2>4
<1>5. CASE fileIndex # 1
  <2>1. fileIndex > 1 /\ FirstOnCycle
    BY <1>3, <1>5
  <2>2. Registered(FirstFile) # {}
    BY <1>2, <2>1 DEF FirstInv, FirstRegistered
  <2>3. CASE i = n + 1
    BY <1>2, <2>2, <2>3
  <2>4. CASE i # n + 1
    <3>1. i \in 2 .. n /\ i \in 1 .. n
      BY <1>1, <1>2, <2>4
    <3>2. QED
      BY <1>1, <1>2, <2>1, <3>1 DEF FirstInv, FirstNotCalled
  <2>5. QED
    BY <2>3, <2>4
<1>6. QED
  BY <1>4, <1>5

\* A call for a file that a caller works on has gone round a cycle of imports that
\* does not go through the first file.
LEMMA RepeatOnCycle ==
  ASSUME Inv, HeapInv, GraphInv, FirstInv, NeedsFrontend,
         NEW a \in 1 .. Len(fstack) + 1, NEW b \in 1 .. Len(fstack) + 1, a < b,
         Called(a) = Called(b)
  PROVE  ~AcyclicWithout(FirstFile, prog.imports)
<1>1. PICK n : n = Len(fstack)
  OBVIOUS
<1>2. /\ n \in Nat \ {0} /\ stage = "frontend"
      /\ \A i \in 1 .. n + 1 : Called(i) \in File
      /\ \A i \in 1 .. n : i + 1 \in 1 .. n + 1 /\ Called(i + 1) \in Range(prog.imports[Called(i)])
      /\ \A i \in 1 .. n : Called(i) = fstack[i].file
  BY <1>1, CallChain
<1>3. DEFINE S == {Called(i) : i \in a .. b - 1}
<1>4. \A i \in a .. b - 1 : i \in 1 .. n /\ i \in 1 .. n + 1
                            /\ (i + 1 \in a .. b - 1 \/ i + 1 = b)
  BY <1>1, <1>2
<1>5. a \in a .. b - 1 /\ b - 1 \in a .. b - 1 /\ b - 1 + 1 = b
  BY <1>1, <1>2
<1>6. S \in SUBSET File /\ S # {} /\ Called(b) \in S
  BY <1>2, <1>4, <1>5
<1>7. \A f \in S : Range(prog.imports[f]) \intersect S # {}
  <2>1. TAKE f \in S
  <2>2. PICK i \in a .. b - 1 : f = Called(i)
    OBVIOUS
  <2>3. Called(i + 1) \in Range(prog.imports[f])
    BY <1>2, <1>4, <2>2
  <2>4. Called(i + 1) \in S
    BY <1>4, <1>6, <2>2
  <2>5. QED
    BY <2>3, <2>4
<1>8. FirstFile \notin S
  <2>1. SUFFICES ASSUME NEW j \in a .. b - 1, Called(j) = FirstFile PROVE FALSE
    OBVIOUS
  <2>2. \E i \in 2 .. n + 1 : Called(i) = FirstFile
    <3>1. CASE j # 1
      BY <1>1, <1>2, <1>4, <2>1, <3>1
    <3>2. CASE j = 1
      <4>1. a = 1 /\ b \in 2 .. n + 1
        BY <1>1, <1>2, <2>1, <3>2
      <4>2. QED
        BY <2>1, <3>2, <4>1
    <3>3. QED
      BY <3>1, <3>2
  <2>3. CASE fileIndex = 1
    BY <1>1, <2>2, <2>3, FirstNotNested
  <2>4. CASE fileIndex # 1
    <3>1. FirstFile \in OfFirst
      <4>1. FirstFile \in File
        BY <1>2, <1>4, <2>1
      <4>2. QED
        BY <4>1, CommandOK DEF OfFirst, Needed
    <3>2. NeededNest /\ j \in 1 .. n
      BY <1>2, <1>4, <2>1 DEF FirstInv
    <3>3. \A i \in 1 .. n : i > j => Called(i) \in OfFirst
      BY <1>1, <1>2, <2>1, <3>1, <3>2 DEF NeededNest
    <3>4. CASE j = a
      <4>1. Called(b - 1) \in OfFirst
        <5>1. b - 1 = j \/ b - 1 > j
          <6>1. b \in Nat /\ j \in a .. b - 1 /\ a \in Nat
            BY <1>1, <1>2
          <6>2. QED
            BY <6>1
        <5>2. b - 1 \in 1 .. n
          BY <1>4, <1>5
        <5>3. QED
          BY <2>1, <3>1, <3>3, <5>1, <5>2
      <4>2. Called(b) \in Range(prog.imports[Called(b - 1)])
        BY <1>2, <1>4, <1>5
      <4>3. FirstOnCycle
        BY <2>1, <3>4, <4>1, <4>2 DEF FirstOnCycle
      <4>4. QED
        BY <1>1, <2>2, <4>3, FirstNotNested
    <3>5. CASE j # a
      <4>1. Called(b) \in OfFirst
        <5>1. CASE b \in 1 .. n
          BY <3>3, <2>1, <5>1
        <5>2. CASE b \notin 1 .. n
          <6>1. b - 1 \in 1 .. n /\ (b - 1 = j \/ b - 1 > j)
            BY <1>1, <1>2, <2>1
          <6>2. Called(b - 1) \in OfFirst
            BY <2>1, <3>1, <3>3, <6>1
          <6>3. Called(b) \in Range(prog.imports[Called(b - 1)]) /\ Called(b) \in File
            BY <1>1, <1>2, <1>4, <1>5
          <6>4. QED
            BY <6>2, <6>3, NeededClosed
        <5>3. QED
          BY <5>1, <5>2
      <4>2. a \in 1 .. n /\ fstack[a].file \in OfFirst
        BY <1>2, <1>4, <1>5, <4>1
      <4>3. j - 1 \in a .. b - 1 /\ j - 1 \in 1 .. n /\ j - 1 + 1 = j
        BY <1>1, <1>2, <2>1, <3>5
      <4>4. Called(j - 1) \in OfFirst
        <5>1. j - 1 = a \/ a < j - 1
          BY <1>1, <1>2, <2>1, <3>5
        <5>2. QED
          BY <1>1, <1>2, <3>2, <4>2, <4>3, <5>1 DEF NeededNest
      <4>5. FirstFile \in Range(prog.imports[Called(j - 1)])
        BY <1>2, <2>1, <4>3
      <4>6. FirstOnCycle
        BY <4>4, <4>5 DEF FirstOnCycle
      <4>7. QED
        BY <1>1, <2>2, <4>6, FirstNotNested
    <3>6. QED
      BY <3>4, <3>5
  <2>5. QED
    BY <2>3, <2>4
<1>9. DOMAIN prog.imports = File
  BY CommandOK
<1>10. \E T \in SUBSET (DOMAIN prog.imports \ {FirstFile}) :
         T # {} /\ \A f \in T : Range(prog.imports[f]) \intersect T # {}
  <2>1. S \in SUBSET (DOMAIN prog.imports \ {FirstFile})
    BY <1>6, <1>8, <1>9
  <2>2. QED
    BY <1>6, <1>7, <2>1
<1>11. QED
  BY <1>10 DEF AcyclicWithout

\* Where the stack has room for a call of frontend() per file, it overflows only in
\* a cycle of imports that avoids the first file: a longer nest works on some file
\* twice, and parse() would have found the file of a cycle through the first one
\* among the open files or registered (main.c:404-432).
THEOREM OverflowNeedsCycle ==
  ASSUME IsFiniteSet(File), Cardinality(File) <= MaxDepth
  PROVE  Spec => []OverflowOnlyOnCycle
<1>1. ASSUME Inv, HeapInv, GraphInv, FirstInv, ImportOverflow
      PROVE  ~AcyclicWithout(FirstFile, prog.imports)
  <2>1. NeedsFrontend
    BY <1>1 DEF ImportOverflow
  <2>2. PICK n : n = Len(fstack)
    OBVIOUS
  <2>3. n \in Nat \ {0} /\ (\A i \in 1 .. n + 1 : Called(i) \in File) /\ n = MaxDepth
    BY <1>1, <2>1, <2>2, CallChain DEF ImportOverflow
  <2>4. IsFiniteSet(1 .. n + 1) /\ Cardinality(1 .. n + 1) = n + 1
    BY <2>3, FS_Interval
  <2>5. Cardinality(File) \in Nat /\ Cardinality(File) < n + 1
    BY <2>3, FS_CardinalityType
  <2>6. PICK g : g = [i \in 1 .. n + 1 |-> Called(i)]
    OBVIOUS
  <2>7. g \in [1 .. n + 1 -> File]
    BY <2>3, <2>6
  <2>8. \E i, j \in 1 .. n + 1 : i # j /\ g[i] = g[j]
    BY <2>4, <2>5, <2>7, FS_PigeonHole
  <2>9. PICK i \in 1 .. n + 1, j \in 1 .. n + 1 : i # j /\ Called(i) = Called(j)
    BY <2>6, <2>8
  <2>10. i < j \/ j < i
    BY <2>3, <2>9
  <2>11. QED
    BY <1>1, <2>1, <2>2, <2>9, <2>10, RepeatOnCycle
<1>2. ASSUME Inv, HeapInv, GraphInv, FirstInv, OverflowOnlyOnCycle, [Next]_vars
      PROVE  OverflowOnlyOnCycle'
  <2>1. CASE ImportOverflow
    <3>1. UNCHANGED prog
      BY <2>1 DEF ImportOverflow, EndWith, Ends
    <3>2. QED
      BY <1>1, <1>2, <2>1, <3>1 DEF OverflowOnlyOnCycle, FirstFile
  <2>2. CASE ~ImportOverflow
    <3>1. UNCHANGED prog /\ (outcome' = outcome \/ outcome' # "crash")
      BY <1>2, <2>2 DEF Next, Step, Frontend, Backend, Terminated, StartFile, FilesDone,
         GenerateOutput, ParseFile, ParseFails, ImportRegistered, ImportOpen, ImportFile,
         ImportReturn, TypesOverflow, ParseEnd, FunctionsOverflow, TypeCheck, TypeCheckFails,
         BackendEnter, DeclareFails,
         BackendSkip, BackendOriginal, BackendCall, BackendReturn, GenerateCode,
         RedefinitionFails, GenerateCodeFails, Bind, Fails, EndWith, Ends, vars
    <3>2. QED
      BY <1>2, <3>1 DEF OverflowOnlyOnCycle
  <2>3. QED
    BY <2>1, <2>2
<1>3. Init => OverflowOnlyOnCycle
  BY DEF Init, OverflowOnlyOnCycle
<1>4. QED
  BY <1>2, <1>3, Invariant, HeapInvariant, GraphInvariant, FirstInvariant, PTL DEF Spec

-----------------------------------------------------------------------------
(* How deep backend() nests *)

\* Which module each nested backend() was called for: after the first, one that
\* the code generation of no file is done with, and not the one of the command line.
LEMMA VisitChain ==
  ASSUME Inv, HeapInv, GraphInv, stage = "backend", NEW n, n = Len(bstack)
  PROVE  /\ n \in Nat \ {0}
         /\ \A j \in 1 .. n : Visited(j) \in Pointer
         /\ \A j \in 1 .. n : j > 2 => content[Visited(j)].path # prog.cmd[fileIndex]
         /\ \A j \in 1 .. n : content[Visited(j)].path # prog.cmd[fileIndex] => Visited(j) \in Done
         /\ \A j \in 2 .. n : Visited(j) \in Done =>
              /\ j - 1 \in 1 .. n
              /\ content[Visited(j)].path \in Range(prog.imports[content[Visited(j - 1)].path])
<1>1. BackHeap /\ Graph /\ fileIndex \in Nat \ {0}
  BY CommandOK DEF HeapInv, GraphInv
<1>2. n \in Nat \ {0}
  BY <1>1, BTopOK DEF BackHeap
<1>3. \A j \in 1 .. n : VisitOK(j)
  BY <1>1 DEF BackHeap
<1>4. \A j \in 1 .. n : Visited(j) \in Pointer /\ ~Compiled(Visited(j))
  BY <1>3 DEF VisitOK
<1>5. Working = {}
  BY EmptySeq DEF Inv, StacksApart, Working
<1>6. ASSUME NEW j \in 1 .. n, content[Visited(j)].path # prog.cmd[fileIndex]
      PROVE  Visited(j) \in Done
  <2>1. Past = fileIndex - 1
    BY DEF Past
  <2>2. ASSUME NEW i \in 1 .. fileIndex PROVE modules[i] # Visited(j)
    <3>1. CASE i = fileIndex
      BY <1>1, <1>6, <3>1 DEF BackHeap, Root
    <3>2. CASE i # fileIndex
      <4>1. i \in 1 .. Past
        BY <1>1, <2>1, <3>2
      <4>2. QED
        BY <1>4, <4>1 DEF Compiled
    <3>3. QED
      BY <3>1, <3>2
  <2>3. QED
    BY <1>4, <1>5, <2>2 DEF Done, Roots
<1>7. ASSUME NEW j \in 2 .. n, Visited(j) \in Done
      PROVE  /\ j - 1 \in 1 .. n
             /\ content[Visited(j)].path \in Range(prog.imports[content[Visited(j - 1)].path])
  <2>1. j - 1 \in 1 .. n /\ j - 1 # n /\ j \in 1 .. n /\ j # 1
    BY <1>2
  <2>2. PICK i, v, u : i = bstack[j - 1].k /\ v = Visited(j) /\ u = Visited(j - 1)
    OBVIOUS
  <2>3. /\ bstack[j - 1].pc = "wait" /\ i \in Nat \ {0}
        /\ i <= Len(content[bstack[j - 1].own].imports)
    BY <2>1, <2>2, BackFramesOK
  <2>4. u = bstack[j - 1].own
    BY <2>2, <2>3 DEF Visited
  <2>5. v = content[u].imports[i] /\ u \in Pointer
    BY <1>3, <1>4, <2>1, <2>2, <2>4 DEF VisitOK
  <2>6. i \in 1 .. Len(content[u].imports) /\ content[u].path \in File
    BY <2>3, <2>4, <2>5, ContentOK
  <2>7. Bound(v, prog.imports[content[u].path][i])
    BY <1>1, <2>5, <2>6 DEF Graph, ImportsBound
  <2>8. content[v].path = prog.imports[content[u].path][i]
    BY <1>7, <2>2, <2>7 DEF Bound, Done
  <2>9. Len(content[u].imports) = Len(prog.imports[content[u].path])
    BY <1>1, <1>5, <2>5 DEF Graph, AllBound
  <2>10. prog.imports[content[u].path] \in Seq(File)
    BY <2>6, CommandOK
  <2>11. i \in DOMAIN prog.imports[content[u].path]
    BY <2>6, <2>9, <2>10
  <2>12. QED
    BY <2>1, <2>2, <2>8, <2>11 DEF Range
<1>8. \A j \in 1 .. n : j > 2 => content[Visited(j)].path # prog.cmd[fileIndex]
  <2>1. \A j \in 1 .. n : j > 2 => j # 1
    OBVIOUS
  <2>2. QED
    BY <1>3, <2>1 DEF VisitOK
<1>9. QED
  BY <1>2, <1>4, <1>6, <1>7, <1>8

\* No two nested calls but the first visit modules of one file.
LEMMA VisitedOnce ==
  ASSUME Inv, HeapInv, GraphInv, stage = "backend",
         NEW p \in 2 .. Len(bstack), NEW q \in 2 .. Len(bstack), p < q,
         content[Visited(p)].path = content[Visited(q)].path
  PROVE  FALSE
<1>1. PICK n : n = Len(bstack)
  OBVIOUS
<1>2. /\ n \in Nat \ {0}
      /\ \A j \in 1 .. n : j > 2 => content[Visited(j)].path # prog.cmd[fileIndex]
      /\ \A j \in 1 .. n : content[Visited(j)].path # prog.cmd[fileIndex] => Visited(j) \in Done
      /\ \A j \in 2 .. n : Visited(j) \in Done =>
           /\ j - 1 \in 1 .. n
           /\ content[Visited(j)].path \in Range(prog.imports[content[Visited(j - 1)].path])
  BY <1>1, VisitChain
<1>3. p \in 2 .. n /\ q \in 2 .. n /\ p \in Nat /\ q \in Nat
  BY <1>1, <1>2
<1>4. \A j \in p .. q : j \in 1 .. n /\ j \in 2 .. n /\ (j # p => j > 2)
  <2>1. TAKE j \in p .. q
  <2>2. j \in 2 .. n
    BY <1>2, <1>3
  <2>3. j # p => j > 2
    BY <1>3
  <2>4. QED
    BY <2>2, <2>3
<1>5. content[Visited(p)].path # prog.cmd[fileIndex]
  BY <1>2, <1>3, <1>4
<1>6. \A j \in p .. q : Visited(j) \in Done
  BY <1>2, <1>4, <1>5
<1>7. DEFINE S == {content[Visited(j)].path : j \in p .. q - 1}
<1>8. \A j \in p .. q - 1 : j \in p .. q /\ j + 1 \in p .. q /\ j + 1 - 1 = j
                            /\ (j + 1 \in p .. q - 1 \/ j + 1 = q)
  BY <1>3
<1>9. p \in p .. q - 1
  BY <1>3
<1>10. S \in SUBSET DoneFiles /\ S # {} /\ content[Visited(q)].path \in S
  BY <1>6, <1>8, <1>9 DEF DoneFiles
<1>11. \A f \in S : Range(prog.imports[f]) \intersect S # {}
  <2>1. TAKE f \in S
  <2>2. PICK j \in p .. q - 1 : f = content[Visited(j)].path
    OBVIOUS
  <2>3. content[Visited(j + 1)].path \in Range(prog.imports[f])
    <3>1. PICK i : i = j + 1 /\ i \in p .. q /\ i - 1 = j
      BY <1>8
    <3>2. i \in 2 .. n /\ Visited(i) \in Done
      BY <1>4, <1>6, <3>1
    <3>3. content[Visited(i)].path \in Range(prog.imports[content[Visited(i - 1)].path])
      BY <1>2, <3>2
    <3>4. QED
      BY <2>2, <3>1, <3>3
  <2>4. content[Visited(j + 1)].path \in S
    BY <1>8, <1>10, <2>2
  <2>5. QED
    BY <2>3, <2>4
<1>12. DoneAcyclic
  BY DEF GraphInv, Graph
<1>13. QED
  BY <1>10, <1>11, <1>12 DEF DoneAcyclic

\* backend() nests at most one call per file and one more, however the files
\* import each other and however many are compiled: codegen_modules and the
\* comparison with original_module cut every cycle (main.c:912-933).
THEOREM NestsOncePerFile ==
  ASSUME IsFiniteSet(File)
  PROVE  Spec => []BackendNests
<1>1. ASSUME Inv, HeapInv, GraphInv
      PROVE  BackendNests
  <2>1. Cardinality(File) \in Nat
    BY FS_CardinalityType
  <2>2. CASE stage # "backend"
    <3>1. bstack = <<>>
      BY <1>1, <2>2 DEF Inv, StacksApart
    <3>2. Len(bstack) = 0
      BY <3>1, EmptySeq
    <3>3. QED
      BY <2>1, <3>2 DEF BackendNests
  <2>3. CASE stage = "backend"
    <3>1. PICK n : n = Len(bstack)
      OBVIOUS
    <3>2. n \in Nat \ {0} /\ \A j \in 1 .. n : Visited(j) \in Pointer
      BY <1>1, <2>3, <3>1, VisitChain
    <3>3. \A j \in 2 .. n : content[Visited(j)].path \in File
      <4>1. \A j \in 2 .. n : j \in 1 .. n
        OBVIOUS
      <4>2. QED
        BY <1>1, <3>2, <4>1, ContentOK
    <3>4. SUFFICES ASSUME n > Cardinality(File) + 1 PROVE FALSE
      BY <2>1, <3>1, <3>2 DEF BackendNests
    <3>5. IsFiniteSet(2 .. n) /\ Cardinality(2 .. n) = n - 1
      <4>1. Cardinality(2 .. n) = IF 2 > n THEN 0 ELSE n - 2 + 1
        BY <3>2, FS_Interval
      <4>2. QED
        BY <2>1, <3>2, <3>4, <4>1, FS_Interval
    <3>6. Cardinality(File) < Cardinality(2 .. n)
      BY <2>1, <3>2, <3>4, <3>5
    <3>7. PICK g : g = [j \in 2 .. n |-> content[Visited(j)].path]
      OBVIOUS
    <3>8. g \in [2 .. n -> File]
      BY <3>3, <3>7
    <3>9. \E p, q \in 2 .. n : p # q /\ g[p] = g[q]
      BY <3>5, <3>6, <3>8, FS_PigeonHole
    <3>10. PICK p \in 2 .. n, q \in 2 .. n :
             p # q /\ content[Visited(p)].path = content[Visited(q)].path
      BY <3>7, <3>9
    <3>11. p < q \/ q < p
      BY <3>10
    <3>12. QED
      BY <1>1, <2>3, <3>1, <3>10, <3>11, VisitedOnce
  <2>4. QED
    BY <2>2, <2>3
<1>2. QED
  BY <1>1, Invariant, HeapInvariant, GraphInvariant, PTL

-----------------------------------------------------------------------------
(* One file on the command line: what its modules are, and what they see *)

OneFile == \A p \in Programs : Len(p.cmd) = 1
Alone == Len(prog.cmd) = 1

\* Every frontend() and every module is for a file that the first one needs.
OnlyNeeded ==
  /\ \A p \in Pointer : content[p].path \in OfFirst /\ content[p].sees \subseteq OfFirst
  /\ \A j \in 1 .. Len(fstack) : fstack[j].file \in OfFirst

\* The modules a module imports are of the files it asks for.
AllMatch ==
  \A c \in Pointer : \A i \in 1 .. Len(content[c].imports) :
    content[content[c].imports[i]].path = prog.imports[content[c].path][i]

FirstOnce == \A p \in Pointer : content[p].path = FirstFile => p = modules[1]

NeedInv == stage # "done" => OnlyNeeded /\ AllMatch /\ FirstOnce

\* The files in X and those they need, not counting what the first file imports
Below(X) ==
  {f \in File : \A S \in SUBSET File :
     (X \subseteq S /\ \A h \in S \ {FirstFile} : Range(prog.imports[h]) \subseteq S) => f \in S}

\* What the first file imports before its k-th import
Before(k) == {prog.imports[FirstFile][i] : i \in 1 .. k - 1}

\* A module that was type checked during the k-th import sees the first file, what
\* had been imported there before, and what it needs itself.
SeesWithin(q, k) ==
  content[q].sees \subseteq {FirstFile} \union Below(Before(k) \union {content[q].path})

\* So do all modules that can be reached from q, but not through the first file's.
DeepWithin(q, k) ==
  \E S \in SUBSET Done :
    /\ q \in S
    /\ \A s \in S :
         /\ SeesWithin(s, k)
         /\ \A i \in 1 .. Len(content[s].imports) : content[s].imports[i] \in S \union {modules[1]}

\* An import of the first file sees no more than it and those before it need.
ImportsWithin ==
  \A i \in 1 .. Len(content[modules[1]].imports) :
    LET q == content[modules[1]].imports[i] IN q # modules[1] => DeepWithin(q, i)

FrontSees ==
  /\ \A q \in Done : SeesWithin(q, fstack[1].k)
  /\ fstack[1].pc # "parse" => ImportsWithin

\* A nested backend() works on what an import of the first file leads to, which that
\* file's own backend() is at.
VisitWithin(j) ==
  \/ Visited(j) = modules[1]
  \/ \E l \in 1 .. j - 1 : Visited(l) = modules[1] /\ DeepWithin(Visited(j), bstack[l].k)

BackSees ==
  /\ ImportsWithin
  /\ \A j \in 1 .. Len(bstack) : VisitWithin(j)

SeesInv ==
  /\ stage = "frontend" => FrontSees
  /\ stage = "backend" => BackSees

\* The files whose code is generated, and the first one, whose code comes last
Out == Range(emitted) \union {FirstFile}

Emission ==
  /\ \A q \in Pointer : struct[q] # q => {PathOf(q), content[q].path} \subseteq Out
  /\ \A p \in codegen : content[p].path \in Out
  /\ \A f \in Range(emitted) : Range(prog.imports[f]) \subseteq Out
  /\ Range(emitted) \subseteq declared

BackEmission ==
  /\ BTop.pc # "enter" => current = BTop.own \/ content[current].path \in Out
  /\ BTop.pc = "wait" => content[NextImport].path \in Out
  /\ \A j \in 1 .. Len(bstack) : bstack[j].pc # "enter" =>
       \A i \in 1 .. bstack[j].k - 1 : prog.imports[content[bstack[j].own].path][i] \in Out

EmitInv ==
  /\ stage # "done" => Emission
  /\ stage = "backend" => BackEmission
  /\ stage = "output" \/ (stage = "next" /\ fileIndex = 1) => FirstFile \in Range(emitted)

-----------------------------------------------------------------------------
(* What the modules of such a program are *)

\* The program stays what it was.
LEMMA ProgramKept == Spec => [](prog \in Programs)
<1>1. Init => prog \in Programs
  BY DEF Init
<1>2. prog \in Programs /\ [Next]_vars => (prog \in Programs)'
  BY DEF Next, Step, Frontend, Backend, Terminated, StartFile, FilesDone, GenerateOutput,
     ParseFile, ParseFails, ImportRegistered, ImportOpen, ImportFile, ImportOverflow, TypesOverflow,
     FunctionsOverflow, ImportReturn,
     ParseEnd, TypeCheck, TypeCheckFails, BackendEnter, DeclareFails, BackendSkip, BackendOriginal,
     BackendCall, BackendReturn, GenerateCode, RedefinitionFails, GenerateCodeFails, Bind, Fails,
     EndWith, Ends, vars
<1>3. QED
  BY <1>1, <1>2, PTL DEF Spec

\* While the frontends run, nothing is overwritten yet, and the module of the first
\* file is the only one of the command line.
LEMMA FrontState ==
  ASSUME Inv, HeapInv, GraphInv, FirstInv, Alone, stage = "frontend"
  PROVE  /\ fileIndex = 1 /\ declared = {} /\ FrontHeap /\ FrontGraph /\ Graph
         /\ Len(fstack) \in Nat \ {0} /\ 1 \in 1 .. Len(fstack)
         /\ fstack[1].file = FirstFile /\ fstack[1].module = modules[1]
         /\ \A p \in Pointer : struct[p] = p /\ PathOf(p) = content[p].path
         /\ FirstFile \in File /\ Roots = {modules[1]} \ {0}
<1>1. FrontHeap /\ FrontGraph /\ Graph /\ fileIndex # 0 /\ Heap
  BY DEF HeapInv, GraphInv
<1>2. fileIndex = 1
  BY <1>1, CommandOK DEF Alone
<1>3. declared = {}
  BY <1>2 DEF GraphInv, Untouched
<1>4. Len(fstack) \in Nat \ {0} /\ 1 \in 1 .. Len(fstack)
  BY <1>1, FTopOK DEF FrontHeap
<1>5. \A p \in Pointer : struct[p] = p /\ PathOf(p) = content[p].path
  BY <1>1, <1>3 DEF Heap, OverwrittenDeclared, PathOf
<1>6. FirstFile \in File
  BY CommandOK DEF FirstFile
<1>7. Roots = {modules[1]} \ {0}
  BY <1>2 DEF Roots
<1>8. fstack[1].file = FirstFile /\ fstack[1].module = modules[1]
  BY <1>1, <1>2 DEF FrontHeap, Root, FirstFile
<1>9. QED
  BY <1>1, <1>2, <1>3, <1>4, <1>5, <1>6, <1>7, <1>8

\* Then every frontend() is for a file that is needed, and imports match.
FrontNeed ==
  /\ \A j \in 1 .. Len(fstack) : fstack[j].file \in OfFirst
  /\ AllMatch /\ FirstOnce

LEMMA FrontNeeded ==
  ASSUME Inv, HeapInv, GraphInv, FirstInv, Alone
  PROVE  stage = "frontend" => FrontNeed
<1>1. SUFFICES ASSUME stage = "frontend" PROVE FrontNeed
  OBVIOUS
<1>2. /\ fileIndex = 1 /\ declared = {} /\ Graph /\ Len(fstack) \in Nat \ {0} /\ 1 \in 1 .. Len(fstack)
      /\ fstack[1].file = FirstFile /\ FirstFile \in File
  BY <1>1, FrontState
<1>3. FirstFile \in OfFirst
  BY <1>2, CommandOK DEF OfFirst, Needed
<1>4. \A j \in 1 .. Len(fstack) : j = 1 \/ 1 < j
  OBVIOUS
<1>5. \A j \in 1 .. Len(fstack) : fstack[j].file \in OfFirst
  BY <1>1, <1>2, <1>3, <1>4 DEF FirstInv, NeededNest
<1>6. AllMatch
  BY <1>2 DEF Graph, ImportsBound, Bound, AllMatch
<1>7. FirstOnce
  BY <1>1, <1>2 DEF FirstInv, FirstAlone, FirstOnce
<1>8. QED
  BY <1>5, <1>6, <1>7 DEF FrontNeed

\* ... in every state.
LEMMA FrontNeedInvariant ==
  ASSUME OneFile
  PROVE  Spec => [](Alone /\ (stage = "frontend" => FrontNeed))
<1>1. prog \in Programs => Alone
  BY DEF OneFile, Alone
<1>2. Inv /\ HeapInv /\ GraphInv /\ FirstInv /\ prog \in Programs
        => Alone /\ (stage = "frontend" => FrontNeed)
  BY <1>1, FrontNeeded
<1>3. QED
  BY <1>2, Invariant, HeapInvariant, GraphInvariant, FirstInvariant, ProgramKept, PTL

\* Every module is for a file that is needed.
LEMMA NextNeed ==
  ASSUME Inv, HeapInv, GraphInv, FirstInv, Alone, NeedInv, [Next]_vars,
         stage = "frontend" => FrontNeed, (stage = "frontend" => FrontNeed)', Inv'
  PROVE  NeedInv'
<1>1. CASE StartFile
  <2>1. /\ stage = "next" /\ stage' = "frontend" /\ fileIndex' = fileIndex + 1
        /\ fileIndex' \in 1 .. Len(prog.cmd) /\ UNCHANGED <<prog, struct, content>>
    BY <1>1, StartFileEffect
  <2>2. fileIndex = 0 /\ Pointer = {}
    BY <2>1, CommandOK DEF Alone, GraphInv
  <2>3. Pointer' = {}
    BY <2>1, <2>2 DEF Pointer
  <2>4. FrontNeed'
    BY <2>1
  <2>5. QED
    BY <2>3, <2>4 DEF FrontNeed, NeedInv, OnlyNeeded
<1>2. CASE ParseFile
  <2>1. PICK n, new : n = Len(fstack) /\ new = Len(struct) + 1
    OBVIOUS
  <2>2. FrontHeap /\ stage = "frontend"
    BY <1>2 DEF HeapInv, ParseFile, FrontAt
  <2>3. stage = "frontend" => \A j \in 1 .. Len(fstack) : fstack[j].pc = "parse" => fstack[j].k = 1
    BY <2>2 DEF FrontHeap, FrontFrameFresh
  <2>4. /\ n \in 1 .. n /\ FTop = fstack[n]
        /\ Pointer' = Pointer \union {new}
        /\ \A p \in Pointer : content'[p] = content[p]
        /\ content'[new].path = FTop.file
        /\ UNCHANGED <<prog, stage>>
    BY <1>2, <2>1, <2>3, ParseFileEffect
  <2>5. content'[new].sees = {}
    <3>1. content \in Seq(Content) /\ Len(content) = Len(struct)
      BY ContentOK
    <3>2. content' = Append(content, [path |-> FTop.file, imports |-> <<>>, sees |-> {}])
      BY <1>2 DEF ParseFile
    <3>3. content'[Len(content) + 1] = [path |-> FTop.file, imports |-> <<>>, sees |-> {}]
      BY <3>1, <3>2
    <3>4. QED
      BY <2>1, <3>1, <3>3
  <2>6. FTop.file \in OfFirst /\ FrontNeed'
    BY <2>1, <2>2, <2>4 DEF FrontNeed
  <2>7. \A p \in Pointer' : content'[p].path \in OfFirst /\ content'[p].sees \subseteq OfFirst
    BY <2>2, <2>4, <2>5, <2>6 DEF NeedInv, OnlyNeeded
  <2>8. OfFirst' = OfFirst
    BY <2>4 DEF OfFirst, FirstFile
  <2>9. QED
    BY <2>6, <2>7, <2>8 DEF FrontNeed, NeedInv, OnlyNeeded
<1>3. CASE ImportRegistered \/ ImportOpen \/ ImportReturn
  <2>1. /\ stage = "frontend" /\ fstack # <<>> /\ FTop.pc \in {"import", "wait"}
        /\ FTop.k <= Len(prog.imports[FTop.file])
    BY <1>3, ImportCases
  <2>2. PICK m \in Pointer : Bind(m)
    BY <1>3, ImportCases
  <2>3. struct[FTop.module] = FTop.module
    BY <2>1, FrontModule
  <2>4. /\ Pointer' = Pointer /\ UNCHANGED <<prog, stage>>
        /\ \A p \in Pointer : content'[p].path = content[p].path
    BY <2>1, <2>2, <2>3, BindEffect
  <2>5. \A p \in Pointer : content'[p].sees = content[p].sees
    <3>1. content' = [content EXCEPT ![struct[FTop.module]].imports = Append(@, m)]
      BY <2>2 DEF Bind
    <3>2. content \in Seq(Content) /\ \A p \in Pointer : content[p] \in Content /\ p \in DOMAIN content
      <4>1. /\ content \in Seq(Content) /\ Len(content) = Len(struct)
            /\ \A p \in Pointer : content[p] \in Content
        BY ContentOK
      <4>2. DOMAIN content = 1 .. Len(content)
        BY <4>1
      <4>3. QED
        BY <4>1, <4>2 DEF Pointer
    <3>3. QED
      BY <3>1, <3>2 DEF Content
  <2>6. OfFirst' = OfFirst /\ FrontNeed'
    BY <2>1, <2>4 DEF OfFirst, FirstFile
  <2>7. QED
    BY <2>1, <2>4, <2>5, <2>6 DEF FrontNeed, NeedInv, OnlyNeeded
<1>4. CASE ImportFile \/ ParseEnd
  <2>1. stage = "frontend" /\ UNCHANGED <<prog, stage, struct, content>>
    BY <1>4, ImportFileEffect, ParseEndEffect
  <2>2. OfFirst' = OfFirst /\ FrontNeed' /\ Pointer' = Pointer
    BY <2>1 DEF OfFirst, FirstFile, Pointer
  <2>3. QED
    BY <2>1, <2>2 DEF FrontNeed, NeedInv, OnlyNeeded
<1>5. CASE TypeCheck
  <2>1. PICK n : n = Len(fstack)
    OBVIOUS
  <2>2. /\ stage = "frontend" /\ current \in Pointer /\ Pointer' = Pointer
        /\ \A p \in Pointer : /\ content'[p].path = content[p].path
                              /\ content'[p].imports = content[p].imports
        /\ stage' = "frontend" \/ fstack' = <<>>
        /\ UNCHANGED <<prog, modules>>
    BY <1>5, <2>1, TypeCheckEffect
  <2>3. OnlyNeeded /\ AllMatch /\ FirstOnce /\ OfFirst' = OfFirst
    BY <2>2 DEF NeedInv, OfFirst, FirstFile
  <2>4. Visible(current) \subseteq OfFirst
    <3>1. \A p \in Pointer : PathOf(p) \in OfFirst
      BY <2>3, ContentOK DEF OnlyNeeded, PathOf
    <3>2. QED
      BY <3>1 DEF Visible
  <2>5. \A p \in Pointer : content'[p].sees = content[p].sees \/ content'[p].sees = Visible(current)
    <3>1. content' = [content EXCEPT ![struct[current]].sees = Visible(current)]
      BY <1>5 DEF TypeCheck
    <3>2. content \in Seq(Content) /\ \A p \in Pointer : content[p] \in Content /\ p \in DOMAIN content
      <4>1. /\ content \in Seq(Content) /\ Len(content) = Len(struct)
            /\ \A p \in Pointer : content[p] \in Content
        BY ContentOK
      <4>2. DOMAIN content = 1 .. Len(content)
        BY <4>1
      <4>3. QED
        BY <4>1, <4>2 DEF Pointer
    <3>3. QED
      BY <3>1, <3>2 DEF Content
  <2>6. \A j \in 1 .. Len(fstack') : fstack'[j].file \in OfFirst
    BY <2>2, <2>3, EmptySeq DEF FrontNeed
  <2>7. AllMatch' /\ FirstOnce'
    <3>1. FirstOnce'
      BY <2>2, <2>3 DEF FirstOnce, FirstFile
    <3>2. SUFFICES ASSUME NEW c \in Pointer, NEW i \in 1 .. Len(content[c].imports)
                   PROVE  content'[content[c].imports[i]].path = prog.imports[content[c].path][i]
      BY <2>2, <3>1 DEF AllMatch
    <3>3. PICK q : q = content[c].imports[i]
      OBVIOUS
    <3>4. q \in Pointer /\ content[q].path = prog.imports[content[c].path][i]
      BY <2>3, <3>2, <3>3, ContentOK DEF AllMatch
    <3>5. QED
      BY <2>2, <3>3, <3>4
  <2>8. QED
    BY <2>2, <2>3, <2>4, <2>5, <2>6, <2>7 DEF NeedInv, OnlyNeeded
<1>6. CASE \/ GenerateOutput \/ ParseFails \/ ImportOverflow \/ TypesOverflow \/ FunctionsOverflow
           \/ TypeCheckFails \/ DeclareFails
           \/ RedefinitionFails \/ GenerateCodeFails
  <2>1. stage' = "done"
    BY <1>6 DEF GenerateOutput, ParseFails, ImportOverflow, TypesOverflow, FunctionsOverflow, TypeCheckFails, DeclareFails,
         RedefinitionFails, GenerateCodeFails, Fails, EndWith, Ends
  <2>2. QED
    BY <2>1 DEF NeedInv
<1>7. CASE \/ BackendEnter \/ BackendSkip \/ BackendOriginal \/ BackendCall \/ BackendReturn
           \/ GenerateCode \/ FilesDone \/ UNCHANGED vars
  <2>1. stage' # "done" => stage # "done" /\ UNCHANGED <<prog, modules, content, fstack>>
    BY <1>7 DEF BackendEnter, BackendSkip, BackendOriginal, BackendCall, BackendReturn,
         GenerateCode, FilesDone, BackendPending, ImportsDone, BackAt, frontVars, heapVars, vars
  <2>2. Len(struct) = Len(content) /\ Len(struct') = Len(content')
    BY DEF Inv, TypeOK
  <2>3. SUFFICES ASSUME stage' # "done" PROVE NeedInv'
    BY DEF NeedInv
  <2>4. Pointer' = Pointer /\ OfFirst' = OfFirst /\ FirstFile' = FirstFile
    BY <2>1, <2>2, <2>3 DEF Pointer, OfFirst, FirstFile
  <2>5. QED
    BY <2>1, <2>3, <2>4 DEF NeedInv, OnlyNeeded, AllMatch, FirstOnce
<1>8. QED
  BY <1>1, <1>2, <1>3, <1>4, <1>5, <1>6, <1>7 DEF Next, Step, Frontend, Backend, Terminated

\* Every module is of a file that is needed, in every state.
LEMMA NeedInvariant ==
  ASSUME OneFile
  PROVE  Spec => [](Alone /\ NeedInv)
<1>1. Init => NeedInv
  BY DEF Init, NeedInv, OnlyNeeded, AllMatch, FirstOnce, Pointer
<1>2. Inv /\ HeapInv /\ GraphInv /\ FirstInv /\ NeedInv /\ [Next]_vars /\ Inv'
        /\ (Alone /\ (stage = "frontend" => FrontNeed))
        /\ (Alone /\ (stage = "frontend" => FrontNeed))' => NeedInv'
  BY NextNeed
<1>3. QED
  BY <1>1, <1>2, Invariant, HeapInvariant, GraphInvariant, FirstInvariant, FrontNeedInvariant,
     PTL DEF Spec

-----------------------------------------------------------------------------
(* What type_check() sees *)

\* The files in X are below X.
LEMMA BelowHolds ==
  ASSUME NEW X \in SUBSET File
  PROVE  X \subseteq Below(X)
BY DEF Below

\* So is what one of these imports, unless it is the first file.
LEMMA BelowNeeds ==
  ASSUME NEW X, NEW h \in Below(X), h # FirstFile, NEW x \in File, x \in Range(prog.imports[h])
  PROVE  x \in Below(X)
BY DEF Below

\* A larger set has no less below it.
LEMMA BelowGrows ==
  ASSUME NEW X, NEW Y, X \subseteq Y
  PROVE  Below(X) \subseteq Below(Y)
BY DEF Below

\* All that lies in every set that holds X and what its members import.
LEMMA BelowWithin ==
  ASSUME NEW X, NEW S \in SUBSET File, X \subseteq S,
         \A h \in S \ {FirstFile} : Range(prog.imports[h]) \subseteq S
  PROVE  Below(X) \subseteq S
BY DEF Below

\* At a later import, there is more that may be seen.
LEMMA WithinGrows ==
  ASSUME NEW q, NEW k \in Nat, NEW l \in Nat, k <= l, SeesWithin(q, k)
  PROVE  SeesWithin(q, l)
<1>1. Before(k) \subseteq Before(l)
  BY DEF Before
<1>2. Below(Before(k) \union {content[q].path}) \subseteq Below(Before(l) \union {content[q].path})
  <2>1. Before(k) \union {content[q].path} \subseteq Before(l) \union {content[q].path}
    BY <1>1
  <2>2. QED
    BY <2>1, BelowGrows
<1>3. QED
  BY <1>2 DEF SeesWithin

\* The modules that are done see what they saw.
LEMMA DeepKept ==
  ASSUME NEW q, NEW k, DeepWithin(q, k), Done \subseteq Done',
         \A s \in Done : content'[s] = content[s],
         UNCHANGED prog, modules'[1] = modules[1]
  PROVE  DeepWithin(q, k)'
<1>1. PICK S \in SUBSET Done :
        /\ q \in S
        /\ \A s \in S :
             /\ SeesWithin(s, k)
             /\ \A i \in 1 .. Len(content[s].imports) : content[s].imports[i] \in S \union {modules[1]}
  BY DEF DeepWithin
<1>2. \A s \in Done : SeesWithin(s, k)' <=> SeesWithin(s, k)
  BY DEF SeesWithin, Below, Before, FirstFile
<1>3. S \in SUBSET Done'
  BY <1>1
<1>4. \A s \in S :
        /\ SeesWithin(s, k)'
        /\ \A i \in 1 .. Len(content'[s].imports) : content'[s].imports[i] \in S \union {modules'[1]}
  BY <1>1, <1>2
<1>5. QED
  BY <1>1, <1>3, <1>4 DEF DeepWithin

\* A step of the frontends that ends none of them: what is done stays as it is.
LEMMA DoneKept ==
  ASSUME Inv, HeapInv, GraphInv, FirstInv, Alone,
         \/ ParseFile \/ ImportRegistered \/ ImportOpen \/ ImportReturn \/ ImportFile \/ ParseEnd
  PROVE  /\ Done' = Done /\ UNCHANGED <<prog, stage>> /\ stage = "frontend"
         /\ \A s \in Done : s \in Pointer /\ content'[s] = content[s]
<1>1. PICK n : n = Len(fstack)
  OBVIOUS
<1>2. stage = "frontend"
  BY DEF ParseFile, ImportRegistered, ImportOpen, ImportReturn, ImportFile, ParseEnd,
     NeedsFrontend, ImportPending, FrontAt
<1>3. /\ fileIndex = 1 /\ FrontHeap /\ n \in Nat \ {0} /\ 1 \in 1 .. n
      /\ Roots = {modules[1]} \ {0} /\ fstack[1].module = modules[1]
  BY <1>1, <1>2, FrontState
<1>4. Working = {fstack[j].module : j \in 1 .. n} /\ 0 \notin Pointer
  BY <1>1 DEF Working, Pointer
<1>5. CASE ParseFile
  <2>1. PICK new : new = Len(struct) + 1
    OBVIOUS
  <2>2. stage = "frontend" => \A j \in 1 .. Len(fstack) : fstack[j].pc = "parse" => fstack[j].k = 1
    BY <1>3 DEF FrontHeap, FrontFrameFresh
  <2>3. /\ n \in 1 .. n /\ FTop = fstack[n] /\ FTop.pc = "parse"
        /\ Pointer' = Pointer \union {new} /\ new \notin Pointer
        /\ \A p \in Pointer : content'[p] = content[p]
        /\ Len(fstack') = n /\ fstack'[n].module = new
        /\ \A j \in 1 .. n : j # n => fstack'[j] = fstack[j]
        /\ modules' = IF modules[fileIndex] = 0
                      THEN [modules EXCEPT ![fileIndex] = new] ELSE modules
        /\ UNCHANGED <<prog, fileIndex, stage>>
    BY <1>1, <1>5, <2>1, <2>2, ParseFileEffect
  <2>4. fstack[n].module = 0
    BY <1>1, <1>3, <2>3 DEF FrontHeap, FrontFrameFresh
  <2>5. Working' = {fstack'[j].module : j \in 1 .. n}
    BY <2>3 DEF Working
  <2>6. new \in Working' /\ Working' \ {new, 0} = Working \ {new, 0}
    BY <1>4, <2>3, <2>4, <2>5
  <2>7. Roots' \ {new} = Roots \ {new}
    <3>1. 1 \in 1 .. Len(prog.cmd) /\ modules \in [1 .. Len(prog.cmd) -> 0 .. Len(struct)]
      BY <1>3, CommandOK DEF Inv, TypeOK
    <3>2. modules'[1] = IF modules[1] = 0 THEN new ELSE modules[1]
      BY <1>3, <2>3, <3>1
    <3>3. Roots' = {modules'[1]} \ {0}
      BY <1>3, <2>3 DEF Roots
    <3>4. QED
      BY <1>3, <3>2, <3>3
  <2>8. Done' = Done
    BY <1>4, <2>3, <2>6, <2>7 DEF Done
  <2>9. QED
    BY <1>2, <2>3, <2>8 DEF Done
<1>6. CASE ImportRegistered \/ ImportOpen \/ ImportReturn
  <2>1. /\ stage = "frontend" /\ fstack # <<>> /\ FTop.pc \in {"import", "wait"}
        /\ FTop.k <= Len(prog.imports[FTop.file])
    BY <1>6, ImportCases
  <2>2. PICK m \in Pointer : Bind(m)
    BY <1>6, ImportCases
  <2>3. struct[FTop.module] = FTop.module
    BY <2>1, FrontModule
  <2>4. /\ n \in 1 .. n /\ FTop = fstack[n] /\ Pointer' = Pointer
        /\ \A p \in Pointer : p # FTop.module => content'[p] = content[p]
        /\ Len(fstack') = n /\ fstack'[n].module = FTop.module
        /\ \A j \in 1 .. n : j # n => fstack'[j] = fstack[j]
        /\ UNCHANGED <<prog, fileIndex, stage, modules>>
    <3>1. PICK c, l : c = FTop.module /\ l = Len(content[c].imports)
      OBVIOUS
    <3>2. /\ n \in 1 .. n /\ FTop = fstack[n] /\ Pointer' = Pointer
          /\ UNCHANGED <<prog, fileIndex, stage, modules>>
      BY <1>1, <2>1, <2>2, <2>3, <3>1, BindEffect
    <3>3. \A p \in Pointer : p # c => content'[p] = content[p]
      BY <1>1, <2>1, <2>2, <2>3, <3>1, BindEffect
    <3>4. /\ Len(fstack') = n /\ fstack'[n].module = c
          /\ \A j \in 1 .. n : j # n => fstack'[j] = fstack[j]
      BY <1>1, <2>1, <2>2, <2>3, <3>1, BindEffect
    <3>5. QED
      BY <3>1, <3>2, <3>3, <3>4
  <2>5. Working' = Working /\ FTop.module \in Working
    <3>1. \A j \in 1 .. n : fstack'[j].module = fstack[j].module
      BY <2>4
    <3>2. Working' = {fstack'[j].module : j \in 1 .. n}
      BY <2>4 DEF Working
    <3>3. QED
      BY <1>4, <2>4, <3>1, <3>2
  <2>6. QED
    BY <1>2, <2>4, <2>5 DEF Done, Roots
<1>7. CASE ImportFile
  <2>1. /\ n \in 1 .. n /\ FTop = fstack[n] /\ n + 1 \in Nat
        /\ Len(fstack') = n + 1 /\ fstack'[n + 1].module = 0 /\ fstack'[n].module = FTop.module
        /\ \A j \in 1 .. n : j # n => fstack'[j] = fstack[j]
        /\ UNCHANGED <<prog, fileIndex, stage, modules, struct, content>>
    BY <1>1, <1>7, ImportFileEffect
  <2>2. Working' = Working \union {0}
    <3>1. \A j \in 1 .. n : fstack'[j].module = fstack[j].module
      BY <2>1
    <3>2. Working' = {fstack'[j].module : j \in 1 .. n + 1}
      BY <2>1 DEF Working
    <3>3. \A j : j \in 1 .. n + 1 <=> j \in 1 .. n \/ j = n + 1
      BY <1>3
    <3>4. QED
      BY <1>4, <2>1, <3>1, <3>2, <3>3
  <2>3. Pointer' = Pointer
    BY <2>1 DEF Pointer
  <2>4. QED
    BY <1>2, <1>4, <2>1, <2>2, <2>3 DEF Done, Roots
<1>8. CASE ParseEnd
  <2>1. /\ n \in 1 .. n /\ FTop = fstack[n]
        /\ Len(fstack') = n /\ fstack'[n].module = FTop.module
        /\ \A j \in 1 .. n : j # n => fstack'[j] = fstack[j]
        /\ UNCHANGED <<prog, fileIndex, stage, modules, struct, content>>
    BY <1>1, <1>8, ParseEndEffect
  <2>2. Working' = Working
    <3>1. \A j \in 1 .. n : fstack'[j].module = fstack[j].module
      BY <2>1
    <3>2. Working' = {fstack'[j].module : j \in 1 .. n}
      BY <2>1 DEF Working
    <3>3. QED
      BY <1>4, <3>1, <3>2
  <2>3. Pointer' = Pointer
    BY <2>1 DEF Pointer
  <2>4. QED
    BY <1>2, <2>1, <2>2, <2>3 DEF Done, Roots
<1>9. QED
  BY <1>5, <1>6, <1>7, <1>8

\* The end of a frontend(): its module is done, unless it is that of the first file.
LEMMA DoneChecked ==
  ASSUME Inv, HeapInv, GraphInv, FirstInv, Alone, TypeCheck, NEW n, n = Len(fstack)
  PROVE  /\ stage = "frontend" /\ n \in Nat \ {0} /\ FTop = fstack[n] /\ FTop.pc = "check"
         /\ current = FTop.module /\ current \in Pointer /\ struct[current] = current
         /\ content[current].path = FTop.file
         /\ Done' = IF n = 1 THEN Done ELSE Done \union {current}
         /\ n # 1 => current # modules[1]
         /\ current \notin Done
         /\ \A p \in Pointer : p # current => content'[p] = content[p]
         /\ content'[current].path = content[current].path
         /\ content'[current].imports = content[current].imports
         /\ content'[current].sees = Visible(current)
         /\ UNCHANGED <<prog, fileIndex, modules, current>> /\ Pointer' = Pointer
<1>1. /\ stage = "frontend" /\ n \in Nat \ {0} /\ n \in 1 .. n /\ FTop = fstack[n]
      /\ FTop.pc = "check" /\ current \in Pointer /\ Pointer' = Pointer
      /\ UNCHANGED <<prog, fileIndex, modules, current>>
      /\ \A p \in Pointer : /\ content'[p].path = content[p].path
                            /\ content'[p].imports = content[p].imports
  BY TypeCheckEffect
<1>2. /\ fileIndex = 1 /\ FrontHeap /\ FrontGraph /\ 1 \in 1 .. n
      /\ Roots = {modules[1]} \ {0} /\ fstack[1].module = modules[1]
  BY <1>1, FrontState
<1>3. /\ current = FTop.module /\ struct[current] = current /\ content[current].path = FTop.file
  BY <1>1, <1>2, FrontModule DEF FrontHeap
<1>4. content' = [content EXCEPT ![current].sees = Visible(current)]
  BY <1>3 DEF TypeCheck
<1>5. /\ \A p \in Pointer : p # current => content'[p] = content[p]
      /\ content'[current].sees = Visible(current)
  <2>1. content \in Seq(Content) /\ \A p \in Pointer : content[p] \in Content /\ p \in DOMAIN content
    <3>1. /\ content \in Seq(Content) /\ Len(content) = Len(struct)
          /\ \A p \in Pointer : content[p] \in Content
      BY ContentOK
    <3>2. DOMAIN content = 1 .. Len(content)
      BY <3>1
    <3>3. QED
      BY <3>1, <3>2 DEF Pointer
  <2>2. QED
    BY <1>1, <1>4, <2>1 DEF Content
<1>6. Working = {fstack[j].module : j \in 1 .. n} /\ current \in Working
  BY <1>1, <1>3 DEF Working
<1>7. CASE n = 1
  <2>1. Working = {current} /\ current = modules[1]
    BY <1>1, <1>2, <1>3, <1>6, <1>7
  <2>2. fstack' = <<>>
    BY <1>7, TypeCheckEffect
  <2>3. Working' = {}
    BY <2>2, EmptySeq DEF Working
  <2>4. current # 0
    BY <1>1 DEF Pointer
  <2>5. Done' = Done
    BY <1>1, <1>2, <2>1, <2>3, <2>4 DEF Done, Roots
  <2>6. QED
    BY <1>1, <1>3, <1>5, <1>6, <1>7, <2>5 DEF Done
<1>8. CASE n # 1
  <2>1. /\ Len(fstack') = n - 1 /\ n - 1 \in Nat \ {0}
        /\ \A j \in 1 .. n - 1 : fstack'[j] = fstack[j] /\ j \in 1 .. n /\ j # n
    BY <1>8, TypeCheckEffect
  <2>2. \A j \in 1 .. n - 1 : fstack[j].pc # "parse"
    BY <2>1, CallersWait
  <2>3. \A j \in 1 .. n - 1 : fstack[j].module # current
    BY <1>1, <1>2, <1>3, <2>1, <2>2 DEF FrontGraph, FramesApart
  <2>4. 1 \in 1 .. n - 1
    BY <2>1
  <2>5. current # modules[1]
    BY <1>2, <2>3, <2>4
  <2>6. Working' = Working \ {current}
    <3>1. \A j \in 1 .. n : j \in 1 .. n - 1 \/ j = n
      BY <1>1, <2>1
    <3>2. Working' = {fstack[j].module : j \in 1 .. n - 1}
      BY <2>1 DEF Working
    <3>3. {fstack[j].module : j \in 1 .. n}
            = {fstack[j].module : j \in 1 .. n - 1} \union {fstack[n].module}
      <4>1. n \in 1 .. n /\ \A j \in 1 .. n - 1 : j \in 1 .. n
        BY <1>1, <2>1
      <4>2. QED
        BY <3>1, <4>1
    <3>4. Working = {fstack[j].module : j \in 1 .. n - 1} \union {current}
      BY <1>1, <1>3, <1>6, <3>3
    <3>5. QED
      BY <2>3, <3>2, <3>4
  <2>7. Roots' = Roots /\ current \notin Roots
    BY <1>1, <1>2, <2>5 DEF Roots
  <2>8. Done' = Done \union {current}
    BY <1>1, <1>6, <2>6, <2>7 DEF Done
  <2>9. QED
    BY <1>1, <1>3, <1>5, <1>6, <1>8, <2>5, <2>8 DEF Done
<1>9. QED
  BY <1>7, <1>8

\* A module has no more imports than its file asks for.
LEMMA ImportsFit ==
  ASSUME Inv, HeapInv, GraphInv, stage = "frontend", NEW c \in Pointer
  PROVE  Len(content[c].imports) <= Len(prog.imports[content[c].path])
<1>1. Graph /\ FrontGraph /\ FrontHeap
  BY DEF GraphInv, HeapInv
<1>2. Len(content[c].imports) \in Nat /\ content[c].path \in File
  BY ContentOK
<1>3. Len(prog.imports[content[c].path]) \in Nat
  BY <1>2, CommandOK
<1>4. CASE c \notin Working
  BY <1>1, <1>2, <1>3, <1>4 DEF Graph, AllBound
<1>5. CASE c \in Working
  <2>1. PICK j \in 1 .. Len(fstack) : c = fstack[j].module
    BY <1>5 DEF Working
  <2>2. fstack[j].pc # "parse"
    BY <1>1, <2>1 DEF FrontHeap, FrontFrameFresh, Pointer
  <2>3. content[c].path = fstack[j].file
    BY <1>1, <2>1, <2>2 DEF FrontHeap, FrontFrameFresh
  <2>4. /\ fstack[j].k <= Len(prog.imports[content[c].path]) + 1
        /\ Len(content[c].imports) = fstack[j].k - 1
    BY <1>1, <2>1, <2>2, <2>3 DEF FrontGraph, FrameBound
  <2>5. fstack[j].k \in Nat
    BY FramesOK
  <2>6. PICK l, r : l = Len(content[c].imports) /\ r = Len(prog.imports[content[c].path])
    OBVIOUS
  <2>7. l <= r
    BY <1>2, <1>3, <2>4, <2>5, <2>6
  <2>8. QED
    BY <2>6, <2>7
<1>6. QED
  BY <1>4, <1>5

\* From a module that is done, what can be reached sees what it does itself.
LEMMA DoneDeep ==
  ASSUME Inv, HeapInv, GraphInv, FirstInv, Alone, stage = "frontend", FrontSees, NEW q \in Done
  PROVE  DeepWithin(q, fstack[1].k)
<1>1. Graph /\ Roots \subseteq {modules[1]} /\ declared = {}
  BY FrontState
<1>2. \A s \in Done : s \in Pointer
  BY DEF Done
<1>3. \A s \in Done : \A i \in 1 .. Len(content[s].imports) :
        content[s].imports[i] \in Done \union {modules[1]}
  BY <1>1, <1>2 DEF Graph, ImportsBound, Bound
<1>4. QED
  BY <1>3 DEF DeepWithin, FrontSees

\* What the imports of the first file see, after a step that leaves them alone.
LEMMA ImportsWithinKept ==
  ASSUME ImportsWithin, Done \subseteq Done', \A s \in Done : content'[s] = content[s],
         UNCHANGED prog, modules'[1] = modules[1],
         content'[modules[1]].imports = content[modules[1]].imports
  PROVE  ImportsWithin'
<1>1. SUFFICES ASSUME NEW i \in 1 .. Len(content[modules[1]].imports),
                      NEW q, q = content[modules[1]].imports[i], q # modules[1]
               PROVE  DeepWithin(q, i)'
  BY DEF ImportsWithin
<1>2. DeepWithin(q, i)
  BY <1>1 DEF ImportsWithin
<1>3. QED
  BY <1>2, DeepKept

\* A step of the frontends that ends none of them keeps what modules see.
LEMMA FrontSeesKept ==
  ASSUME Inv, HeapInv, GraphInv, FirstInv, Alone, FrontSees,
         \/ ParseFile \/ ImportRegistered \/ ImportOpen \/ ImportReturn \/ ImportFile \/ ParseEnd,
         Inv', HeapInv', GraphInv', FirstInv'
  PROVE  FrontSees'
<1>1. PICK n : n = Len(fstack)
  OBVIOUS
<1>2. /\ Done' = Done /\ UNCHANGED <<prog, stage>> /\ stage = "frontend"
      /\ \A s \in Done : s \in Pointer /\ content'[s] = content[s]
  BY DoneKept
<1>3. /\ fileIndex = 1 /\ FrontHeap /\ FrontGraph /\ n \in Nat \ {0} /\ 1 \in 1 .. n
      /\ fstack[1].module = modules[1] /\ fstack[1].k \in Nat
      /\ Roots \subseteq {modules[1]}
  BY <1>1, <1>2, FrontState, FramesOK
<1>4. SUFFICES /\ fstack'[1].k \in Nat /\ fstack[1].k <= fstack'[1].k
               /\ fstack'[1].pc # "parse" => ImportsWithin'
  <2>1. ASSUME NEW k, k = fstack'[1].k, k \in Nat, fstack[1].k <= k, NEW q \in Done'
        PROVE  SeesWithin(q, k)'
    <3>1. SeesWithin(q, fstack[1].k)
      BY <1>2, <2>1 DEF FrontSees
    <3>2. SeesWithin(q, k)
      BY <1>3, <2>1, <3>1, WithinGrows
    <3>3. content'[q] = content[q]
      BY <1>2, <2>1
    <3>4. QED
      BY <1>2, <3>2, <3>3 DEF SeesWithin, Below, Before, FirstFile
  <2>2. QED
    BY <2>1 DEF FrontSees
<1>5. /\ fileIndex' = 1 /\ Graph' /\ FrontHeap' /\ declared' = {}
  <2>1. UNCHANGED <<fileIndex, declared>>
    BY DEF ParseFile, ImportRegistered, ImportOpen, ImportReturn, ImportFile, ParseEnd,
       NeedsFrontend, Bind, backVars
  <2>2. QED
    BY <1>2, <1>3, <2>1, FrontState DEF GraphInv, HeapInv
<1>6. fstack'[1].module = modules'[1] /\ Roots' \subseteq {modules'[1]}
  BY <1>5 DEF FrontHeap, Root, Roots
<1>7. CASE ParseFile
  <2>1. PICK new : new = Len(struct) + 1
    OBVIOUS
  <2>2. stage = "frontend" => \A j \in 1 .. Len(fstack) : fstack[j].pc = "parse" => fstack[j].k = 1
    BY <1>3 DEF FrontHeap, FrontFrameFresh
  <2>3. /\ n \in 1 .. n /\ FTop = fstack[n] /\ FTop.pc = "parse"
        /\ \A p \in Pointer : content'[p] = content[p]
        /\ Len(content'[new].imports) = 0
        /\ fstack'[n].module = new /\ fstack'[n].k = 1
        /\ \A j \in 1 .. n : j # n => fstack'[j] = fstack[j]
        /\ modules' = IF modules[fileIndex] = 0
                      THEN [modules EXCEPT ![fileIndex] = new] ELSE modules
    BY <1>1, <1>7, <2>1, <2>2, ParseFileEffect
  <2>4. CASE n = 1
    <3>1. modules'[1] = new /\ fstack[1].k = 1
      BY <1>1, <1>2, <1>6, <2>2, <2>3, <2>4
    <3>2. QED
      BY <2>3, <2>4, <3>1 DEF ImportsWithin
  <2>5. CASE n # 1
    <3>1. fstack[1].pc = "wait" /\ fstack[1].module \in Pointer /\ fstack'[1] = fstack[1]
      BY <1>1, <1>3, <2>3, <2>5, CallersWait
    <3>2. modules'[1] = modules[1]
      BY <1>3, <1>6, <3>1
    <3>3. content'[modules[1]] = content[modules[1]]
      BY <1>3, <2>3, <3>1
    <3>4. ImportsWithin
      BY <3>1 DEF FrontSees
    <3>5. ImportsWithin'
      BY <1>2, <3>2, <3>3, <3>4, ImportsWithinKept
    <3>6. QED
      BY <1>3, <3>1, <3>5
  <2>6. QED
    BY <2>4, <2>5
<1>8. CASE ImportFile \/ ParseEnd
  <2>1. /\ UNCHANGED <<modules, content>> /\ fstack'[1].k = fstack[1].k /\ fstack[1].pc # "parse"
    <3>1. CASE n = 1
      BY <1>1, <1>3, <1>8, <3>1, ImportFileEffect, ParseEndEffect
    <3>2. CASE n # 1
      BY <1>1, <1>3, <1>8, <3>2, ImportFileEffect, ParseEndEffect, CallersWait
    <3>3. QED
      BY <3>1, <3>2
  <2>2. ImportsWithin'
    BY <1>2, <2>1, ImportsWithinKept DEF FrontSees
  <2>3. QED
    BY <1>3, <2>1, <2>2
<1>9. CASE ImportRegistered \/ ImportOpen \/ ImportReturn
  <2>1. /\ stage = "frontend" /\ fstack # <<>> /\ FTop.pc \in {"import", "wait"}
        /\ FTop.k <= Len(prog.imports[FTop.file])
    BY <1>9, ImportCases
  <2>2. PICK m \in Pointer : Bind(m)
    BY <1>9, ImportCases
  <2>3. struct[FTop.module] = FTop.module
    BY <2>1, FrontModule
  <2>4. PICK c, l : c = FTop.module /\ l = Len(content[c].imports)
    OBVIOUS
  <2>5. /\ n \in 1 .. n /\ FTop = fstack[n] /\ c \in Pointer /\ l \in Nat
        /\ Pointer' = Pointer /\ UNCHANGED modules
    BY <1>1, <2>1, <2>2, <2>3, <2>4, BindEffect
  <2>6. /\ \A p \in Pointer : p # c => content'[p] = content[p]
        /\ \A p \in Pointer : content'[p].path = content[p].path
    BY <1>1, <2>1, <2>2, <2>3, <2>4, BindEffect
  <2>7. /\ fstack'[n].k = FTop.k + 1 /\ \A j \in 1 .. n : j # n => fstack'[j] = fstack[j]
    BY <1>1, <2>1, <2>2, <2>3, <2>4, BindEffect
  <2>8. /\ Len(content'[c].imports) = l + 1 /\ content'[c].imports[l + 1] = m
        /\ \A i \in 1 .. l : content'[c].imports[i] = content[c].imports[i]
    BY <1>1, <2>1, <2>2, <2>3, <2>4, BindEffect, SMTT(30)
  <2>9. fstack[1].pc # "parse"
    BY <1>1, <1>3, <2>1, <2>5, CallersWait
  <2>10. ImportsWithin
    BY <2>9 DEF FrontSees
  <2>11. CASE n = 1
    <3>1. c = modules[1] /\ FTop.k = fstack[1].k
      BY <1>3, <2>4, <2>5, <2>11
    <3>2. l = FTop.k - 1 /\ FTop.k \in Nat
      <4>1. FrameBound(fstack[1]) /\ fstack[1].pc # "parse" /\ fstack[1].k \in Nat
        BY <1>1, <1>3, <2>9 DEF FrontGraph
      <4>2. QED
        BY <1>3, <2>4, <3>1, <4>1 DEF FrameBound
    <3>3. ASSUME NEW i \in 1 .. l, NEW q, q = content[c].imports[i], q # modules[1]
          PROVE  DeepWithin(q, i)'
      <4>1. DeepWithin(q, i)
        BY <2>4, <2>10, <3>1, <3>3 DEF ImportsWithin
      <4>2. QED
        BY <1>2, <2>5, <4>1, DeepKept
    <3>4. ASSUME m # modules[1] PROVE DeepWithin(m, l + 1)'
      <4>1. c \in Pointer' /\ l + 1 \in 1 .. Len(content'[c].imports)
        BY <2>5, <2>8
      <4>2. Bound(m, prog.imports[content[c].path][l + 1])'
        BY <1>2, <1>5, <2>5, <2>6, <2>8, <4>1 DEF Graph, ImportsBound
      <4>3. m \in Done
        BY <1>2, <1>6, <2>5, <3>4, <4>2 DEF Bound
      <4>4. PICK k : k = l + 1
        OBVIOUS
      <4>5. k = fstack[1].k
        BY <3>1, <3>2, <4>4
      <4>6. DeepWithin(m, k)
        BY <1>2, <4>3, <4>5, DoneDeep
      <4>7. DeepWithin(m, k)'
        BY <1>2, <2>5, <4>6, DeepKept
      <4>8. QED
        BY <4>4, <4>7
    <3>5. ImportsWithin'
      <4>1. SUFFICES ASSUME NEW i \in 1 .. l + 1, NEW q, q = content'[c].imports[i], q # modules[1]
                     PROVE  DeepWithin(q, i)'
        BY <2>5, <2>8, <3>1 DEF ImportsWithin
      <4>2. i \in 1 .. l \/ i = l + 1
        BY <2>5
      <4>3. QED
        BY <2>8, <3>3, <3>4, <4>1, <4>2
    <3>6. QED
      BY <2>5, <2>7, <2>11, <3>1, <3>2, <3>5
  <2>12. CASE n # 1
    <3>1. fstack'[1] = fstack[1] /\ fstack[1].pc = "wait" /\ fstack[1].module \in Pointer
      BY <1>1, <1>3, <2>7, <2>12, CallersWait
    <3>2. c # modules[1]
      BY <1>1, <1>3, <2>1, <2>4, <2>5, <2>9, <2>12 DEF FrontGraph, FramesApart
    <3>3. content'[modules[1]] = content[modules[1]]
      BY <1>3, <2>6, <3>1, <3>2
    <3>4. ImportsWithin'
      BY <1>2, <2>5, <2>10, <3>3, ImportsWithinKept
    <3>5. QED
      BY <1>3, <3>1, <3>4
  <2>13. QED
    BY <2>11, <2>12
<1>10. QED
  BY <1>7, <1>8, <1>9

\* What type_check() of a nested frontend() can see.
LEMMA VisibleWithin ==
  ASSUME Inv, HeapInv, GraphInv, FirstInv, Alone, NeedInv, stage = "frontend",
         current \in Pointer, Len(fstack) > 1, NEW k, k = fstack[1].k
  PROVE  Visible(current) \subseteq {FirstFile} \union Below(Before(k) \union {content[current].path})
<1>1. PICK X : X = Before(k) \union {content[current].path}
  OBVIOUS
<1>2. PICK S : S = {p \in Pointer : p = modules[1] \/ content[p].path \in Below(X)}
  OBVIOUS
<1>3. /\ 1 \in 1 .. Len(fstack) /\ fstack[1].file = FirstFile /\ fstack[1].module = modules[1]
      /\ \A p \in Pointer : struct[p] = p /\ PathOf(p) = content[p].path
      /\ FirstFile \in File /\ FrontGraph /\ FrontHeap /\ Len(fstack) \in Nat
  BY FrontState
<1>4. fstack[1].pc = "wait" /\ modules[1] \in Pointer /\ k \in Nat
  <2>1. Len(fstack) \in Nat
    BY <1>3
  <2>2. \A n \in Nat : n > 1 => 1 # n
    OBVIOUS
  <2>3. 1 # Len(fstack)
    BY <2>1, <2>2
  <2>4. QED
    BY <1>3, <2>3, CallersWait, FramesOK
<1>5. /\ content[modules[1]].path = FirstFile
      /\ Len(content[modules[1]].imports) = k - 1
  BY <1>3, <1>4 DEF FrontGraph, FrameBound, FrontHeap, FrontFrameFresh
<1>6. k - 1 <= Len(prog.imports[FirstFile])
  BY <1>3, <1>4, <1>5, ImportsFit
<1>7. X \in SUBSET File
  <2>1. \A i \in 1 .. k - 1 : prog.imports[FirstFile][i] \in File
    <3>1. prog.imports[FirstFile] \in Seq(File) /\ Len(prog.imports[FirstFile]) \in Nat
      BY <1>3, CommandOK
    <3>2. QED
      BY <1>4, <1>6, <3>1, ElementOfSeq
  <2>2. content[current].path \in File
    BY ContentOK
  <2>3. QED
    BY <1>1, <2>1, <2>2 DEF Before
<1>8. X \subseteq Below(X)
  BY <1>7, BelowHolds
<1>9. AllMatch /\ FirstOnce
  BY DEF NeedInv
<1>10. ASSUME NEW s \in S, NEW i \in 1 .. Len(content[s].imports), NEW q, q = content[s].imports[i]
       PROVE  q \in S
  <2>1. s \in Pointer /\ q \in Pointer /\ content[q].path = prog.imports[content[s].path][i]
        /\ content[q].path \in File
    BY <1>2, <1>9, <1>10, ContentOK DEF AllMatch
  <2>2. CASE s = modules[1]
    <3>1. content[q].path \in Before(k)
      BY <1>5, <1>10, <2>1, <2>2 DEF Before
    <3>2. QED
      BY <1>1, <1>2, <1>8, <2>1, <3>1
  <2>3. CASE s # modules[1]
    <3>1. content[s].path \in Below(X) /\ content[s].path # FirstFile /\ content[s].path \in File
      BY <1>2, <1>9, <1>10, <2>1, <2>3, ContentOK DEF FirstOnce
    <3>2. prog.imports[content[s].path] \in Seq(File) /\ Len(prog.imports[content[s].path]) \in Nat
      BY <3>1, CommandOK
    <3>3. i \in 1 .. Len(prog.imports[content[s].path])
      <4>1. Len(content[s].imports) <= Len(prog.imports[content[s].path])
        BY <2>1, ImportsFit
      <4>2. Len(content[s].imports) \in Nat
        BY <2>1, ContentOK
      <4>3. QED
        BY <1>10, <3>2, <4>1, <4>2
    <3>4. content[q].path \in Range(prog.imports[content[s].path])
      BY <2>1, <3>2, <3>3 DEF Range
    <3>5. content[q].path \in Below(X)
      BY <2>1, <3>1, <3>4, BelowNeeds
    <3>6. QED
      BY <1>2, <2>1, <3>5
  <2>4. QED
    BY <2>2, <2>3
<1>11. \A s \in S : Range(ImportsOf(s)) \subseteq S
  <2>1. SUFFICES ASSUME NEW s \in S, NEW q \in Range(ImportsOf(s)) PROVE q \in S
    OBVIOUS
  <2>2. s \in Pointer /\ struct[s] = s
    BY <1>2, <1>3
  <2>3. content[s].imports \in Seq(Pointer)
    BY <2>2, ContentOK
  <2>4. PICK i \in 1 .. Len(content[s].imports) : q = content[s].imports[i]
    BY <2>2, <2>3 DEF Range, ImportsOf
  <2>5. QED
    BY <1>10, <2>4
<1>12. current \in S /\ S \in SUBSET Pointer
  BY <1>1, <1>2, <1>8
<1>13. ASSUME NEW p \in Pointer,
              \A T \in SUBSET Pointer :
                (current \in T /\ \A s \in T : Range(ImportsOf(s)) \subseteq T) => p \in T
       PROVE  PathOf(p) \in {FirstFile} \union Below(X)
  <2>1. p \in S
    BY <1>11, <1>12, <1>13
  <2>2. QED
    BY <1>2, <1>3, <1>5, <2>1
<1>14. QED
  BY <1>1, <1>13 DEF Visible

\* The end of a frontend() keeps what modules see.
LEMMA TypeCheckSees ==
  ASSUME Inv, HeapInv, GraphInv, FirstInv, Alone, NeedInv, FrontSees, TypeCheck
  PROVE  SeesInv'
<1>1. PICK n : n = Len(fstack)
  OBVIOUS
<1>2. /\ stage = "frontend" /\ n \in Nat \ {0} /\ FTop = fstack[n] /\ FTop.pc = "check"
      /\ current = FTop.module /\ current \in Pointer
      /\ Done' = IF n = 1 THEN Done ELSE Done \union {current}
      /\ n # 1 => current # modules[1]
      /\ current \notin Done
      /\ \A p \in Pointer : p # current => content'[p] = content[p]
      /\ content'[current].path = content[current].path
      /\ content'[current].imports = content[current].imports
      /\ content'[current].sees = Visible(current)
      /\ UNCHANGED <<prog, modules, current>>
  BY <1>1, DoneChecked
<1>3. 1 \in 1 .. n /\ fstack[1].module = modules[1]
  BY <1>1, <1>2, FrontState
<1>4. \A s \in Done : s \in Pointer /\ content'[s] = content[s]
  BY <1>2 DEF Done
<1>5. modules[1] \in Pointer /\ fstack[1].pc # "parse"
  <2>1. fstack[1].pc # "parse"
    BY <1>1, <1>2, <1>3, CallersWait
  <2>2. QED
    BY <1>1, <1>3, <2>1, FramesOK
<1>6. content'[modules[1]].imports = content[modules[1]].imports
  BY <1>2, <1>5
<1>7. ImportsWithin'
  BY <1>2, <1>4, <1>5, <1>6, ImportsWithinKept DEF FrontSees
<1>8. CASE n = 1
  <2>1. stage' = "backend" /\ Len(bstack') = 1 /\ bstack'[1].pc = "enter"
    BY <1>1, <1>8, TypeCheckEffect
  <2>2. Visited(1)' = modules'[1]
    BY <1>2, <1>3, <1>8, <2>1 DEF Visited
  <2>3. QED
    BY <1>7, <2>1, <2>2 DEF SeesInv, BackSees, VisitWithin
<1>9. CASE n # 1
  <2>1. stage' = "frontend" /\ fstack'[1] = fstack[1]
    BY <1>1, <1>2, <1>9, TypeCheckEffect
  <2>2. PICK k : k = fstack[1].k
    OBVIOUS
  <2>3. ASSUME NEW q \in Done' PROVE SeesWithin(q, k)'
    <3>1. CASE q = current
      <4>1. Visible(q) \subseteq {FirstFile} \union Below(Before(k) \union {content[q].path})
        BY <1>1, <1>2, <1>9, <2>2, <3>1, VisibleWithin
      <4>2. QED
        BY <1>2, <3>1, <4>1 DEF SeesWithin, Below, Before, FirstFile
    <3>2. CASE q # current
      <4>1. q \in Done /\ content'[q] = content[q]
        BY <1>2, <1>4, <1>9, <2>3, <3>2
      <4>2. SeesWithin(q, k)
        BY <2>2, <4>1 DEF FrontSees
      <4>3. QED
        BY <1>2, <4>1, <4>2 DEF SeesWithin, Below, Before, FirstFile
    <3>3. QED
      BY <3>1, <3>2
  <2>4. QED
    BY <1>7, <2>1, <2>2, <2>3 DEF SeesInv, FrontSees
<1>10. QED
  BY <1>8, <1>9

\* A nested backend() that was there before a step still is at what it was at.
LEMMA VisitWithinKept ==
  ASSUME NEW j, VisitWithin(j), Visited(j)' = Visited(j),
         \A l \in 1 .. j - 1 : Visited(l)' = Visited(l) /\ bstack'[l].k = bstack[l].k,
         Done' = Done, UNCHANGED <<prog, modules, content>>
  PROVE  VisitWithin(j)'
<1>1. CASE Visited(j) = modules[1]
  BY <1>1 DEF VisitWithin
<1>2. ASSUME NEW l \in 1 .. j - 1, Visited(l) = modules[1], NEW v, v = Visited(j), NEW k, k = bstack[l].k,
             DeepWithin(v, k)
      PROVE  VisitWithin(j)'
  <2>1. DeepWithin(v, k)'
    BY <1>2, DeepKept
  <2>2. QED
    BY <1>2, <2>1 DEF VisitWithin
<1>3. QED
  BY <1>1, <1>2 DEF VisitWithin

\* The backends keep what modules see, and where they are.
LEMMA BackendSees ==
  ASSUME Inv, HeapInv, BackSees, stage = "backend", stage' = "backend",
         \/ BackendEnter \/ BackendSkip \/ BackendOriginal \/ BackendCall \/ BackendReturn
         \/ GenerateCode
  PROVE  BackSees'
<1>1. PICK n : n = Len(bstack)
  OBVIOUS
<1>2. UNCHANGED <<prog, fileIndex, modules, content, fstack>>
  BY DEF BackendEnter, BackendSkip, BackendOriginal, BackendCall, BackendReturn, GenerateCode,
     heapVars, frontVars
<1>3. Done' = Done
  <2>1. Len(struct') = Len(struct)
    BY CopyBackOK DEF BackendEnter, BackendSkip, BackendOriginal, BackendCall, BackendReturn,
       GenerateCode, heapVars
  <2>2. QED
    BY <1>2, <2>1 DEF Done, Roots, Working, Pointer
<1>4. ImportsWithin'
  BY <1>2, <1>3, ImportsWithinKept DEF BackSees
<1>5. SUFFICES ASSUME NEW j \in 1 .. Len(bstack') PROVE VisitWithin(j)'
  BY <1>4 DEF BackSees
<1>6. n \in Nat \ {0} /\ n \in 1 .. n /\ BTop = bstack[n] /\ BackHeap
  BY <1>1, BTopOK DEF HeapInv, BackHeap
<1>7. \A l \in 1 .. n : l # n => bstack[l].pc = "wait"
  BY <1>1, BackFramesOK
<1>8. ASSUME j \in 1 .. n, Visited(j)' = Visited(j),
             \A l \in 1 .. n : l # n => Visited(l)' = Visited(l) /\ bstack'[l].k = bstack[l].k
      PROVE  VisitWithin(j)'
  <2>1. \A l \in 1 .. j - 1 : l \in 1 .. n /\ l # n
    BY <1>6, <1>8
  <2>2. VisitWithin(j)
    BY <1>1, <1>8 DEF BackSees
  <2>3. QED
    BY <1>2, <1>3, <1>8, <2>1, <2>2, VisitWithinKept
<1>9. CASE BackendEnter
  <2>1. /\ BTop.pc = "enter" /\ Len(bstack') = n /\ bstack'[n].pc = "loop"
        /\ bstack'[n].own = struct[current]
        /\ \A l \in 1 .. n : l # n => bstack'[l] = bstack[l]
    BY <1>1, <1>9, BackendEnterEffect
  <2>2. struct[current] = current
    BY <1>6, <2>1 DEF BackHeap
  <2>3. \A l \in 1 .. n : l # n => Visited(l)' = Visited(l) /\ bstack'[l].k = bstack[l].k
    BY <1>7, <2>1 DEF Visited
  <2>4. Visited(n)' = Visited(n)
    BY <1>6, <2>1, <2>2 DEF Visited
  <2>5. QED
    BY <1>5, <1>8, <2>1, <2>3, <2>4
<1>10. CASE BackendSkip \/ BackendOriginal \/ BackendReturn
  <2>1. /\ BTop.pc \in {"loop", "wait"} /\ Len(bstack') = n /\ bstack'[n].pc = "loop"
        /\ bstack'[n].own = BTop.own
        /\ \A l \in 1 .. n : l # n => bstack'[l] = bstack[l]
    BY <1>1, <1>10, BackendNextEffect
  <2>2. \A l \in 1 .. n : l # n => Visited(l)' = Visited(l) /\ bstack'[l].k = bstack[l].k
    BY <1>7, <2>1 DEF Visited
  <2>3. Visited(n)' = Visited(n)
    BY <1>6, <2>1 DEF Visited
  <2>4. QED
    BY <1>5, <1>8, <2>1, <2>2, <2>3
<1>11. CASE BackendCall
  <2>1. /\ BTop.pc = "loop" /\ BTop.k <= Len(content[BTop.own].imports)
        /\ NextImport \in Pointer /\ current' = NextImport
        /\ Len(bstack') = n + 1 /\ bstack'[n + 1].pc = "enter"
        /\ bstack'[n].pc = "wait" /\ bstack'[n].own = BTop.own /\ bstack'[n].k = BTop.k
        /\ \A l \in 1 .. n : l # n => bstack'[l] = bstack[l]
    BY <1>1, <1>11, BackendCallEffect
  <2>2. \A l \in 1 .. n : Visited(l)' = Visited(l) /\ bstack'[l].k = bstack[l].k
    BY <1>6, <1>7, <2>1 DEF Visited
  <2>3. j \in 1 .. n \/ j = n + 1
    BY <1>5, <1>6, <2>1
  <2>4. CASE j \in 1 .. n
    BY <1>8, <2>2, <2>4
  <2>5. CASE j = n + 1
    <3>1. PICK q, i : q = NextImport /\ i = BTop.k
      OBVIOUS
    <3>2. Visited(j)' = q
      BY <2>1, <2>5, <3>1 DEF Visited
    <3>3. BTop.own = Visited(n)
      BY <1>6, <2>1 DEF Visited
    <3>4. i \in 1 .. Len(content[Visited(n)].imports) /\ q = content[Visited(n)].imports[i]
      <4>1. BTop.k \in Nat \ {0} /\ BTop.own \in Pointer /\ Len(content[BTop.own].imports) \in Nat
        BY <1>1, <1>6, <2>1, BackFramesOK, ContentOK
      <4>2. QED
        BY <2>1, <3>1, <3>3, <4>1 DEF NextImport, BackendImports
    <3>5. CASE q = modules[1]
      BY <1>2, <3>2, <3>5 DEF VisitWithin
    <3>6. ASSUME q # modules[1], NEW l \in 1 .. n, Visited(l) = modules[1], NEW k, k = bstack[l].k,
                 DeepWithin(q, k)
          PROVE  VisitWithin(j)'
      <4>1. DeepWithin(q, k)'
        BY <1>2, <1>3, <3>6, DeepKept
      <4>2. l \in 1 .. j - 1
        BY <1>6, <2>5, <3>6
      <4>3. Visited(l)' = modules'[1] /\ bstack'[l].k = k
        BY <1>2, <2>2, <3>6
      <4>4. QED
        BY <3>2, <4>1, <4>2, <4>3 DEF VisitWithin
    <3>7. CASE q # modules[1] /\ Visited(n) = modules[1]
      <4>1. DeepWithin(q, i)
        BY <3>4, <3>7 DEF BackSees, ImportsWithin
      <4>2. QED
        BY <1>6, <3>1, <3>6, <3>7, <4>1
    <3>8. CASE q # modules[1] /\ Visited(n) # modules[1]
      <4>1. VisitWithin(n)
        BY <1>1, <1>6 DEF BackSees
      <4>2. PICK l \in 1 .. n - 1 : Visited(l) = modules[1] /\ DeepWithin(Visited(n), bstack[l].k)
        BY <3>8, <4>1 DEF VisitWithin
      <4>3. DeepWithin(q, bstack[l].k)
        BY <3>4, <3>8, <4>2 DEF DeepWithin
      <4>4. l \in 1 .. n
        BY <1>6, <4>2
      <4>5. QED
        BY <3>6, <3>8, <4>2, <4>3, <4>4
    <3>9. QED
      BY <3>5, <3>7, <3>8
  <2>6. QED
    BY <2>3, <2>4, <2>5
<1>12. CASE GenerateCode
  <2>1. n # 1
    BY <1>1, <1>12, GenerateCodeEffect
  <2>2. /\ Len(bstack') = n - 1
        /\ \A l \in 1 .. n - 1 : bstack'[l] = bstack[l] /\ l \in 1 .. n /\ l # n
    BY <1>1, <1>12, <2>1, GenerateCodeEffect
  <2>3. \A l \in 1 .. n : l # n => l \in 1 .. n - 1
    BY <1>6
  <2>4. \A l \in 1 .. n : l # n => Visited(l)' = Visited(l) /\ bstack'[l].k = bstack[l].k
    BY <1>7, <2>2, <2>3 DEF Visited
  <2>5. QED
    BY <1>5, <1>8, <2>2, <2>4
<1>13. QED
  BY <1>9, <1>10, <1>11, <1>12

\* Every step keeps what modules see.
LEMMA NextSees ==
  ASSUME Inv, HeapInv, GraphInv, FirstInv, Alone, NeedInv, SeesInv, [Next]_vars,
         Inv', HeapInv', GraphInv', FirstInv'
  PROVE  SeesInv'
<1>1. CASE StartFile
  <2>1. /\ stage = "next" /\ stage' = "frontend" /\ fileIndex' = fileIndex + 1
        /\ fileIndex' \in 1 .. Len(prog.cmd) /\ fstack'[1].pc = "parse" /\ UNCHANGED struct
    BY <1>1, StartFileEffect
  <2>2. fileIndex = 0 /\ Pointer = {}
    BY <2>1, CommandOK DEF Alone, GraphInv
  <2>3. Done' = {}
    BY <2>1, <2>2 DEF Done, Pointer
  <2>4. QED
    BY <2>1, <2>3 DEF SeesInv, FrontSees
<1>2. CASE \/ ParseFile \/ ImportRegistered \/ ImportOpen \/ ImportReturn \/ ImportFile \/ ParseEnd
  <2>1. UNCHANGED stage /\ stage = "frontend"
    BY <1>2, DoneKept
  <2>2. FrontSees'
    BY <1>2, <2>1, FrontSeesKept DEF SeesInv
  <2>3. QED
    BY <2>1, <2>2 DEF SeesInv
<1>3. CASE TypeCheck
  BY <1>3, TypeCheckSees DEF SeesInv, TypeCheck, FrontAt
<1>4. CASE \/ BackendEnter \/ BackendSkip \/ BackendOriginal \/ BackendCall \/ BackendReturn
           \/ GenerateCode
  <2>1. stage = "backend" /\ stage' \in {"backend", "next"}
    BY <1>4 DEF BackendEnter, BackendSkip, BackendOriginal, BackendCall, BackendReturn,
       GenerateCode, BackendPending, ImportsDone, BackAt
  <2>2. QED
    BY <1>4, <2>1, BackendSees DEF SeesInv
<1>5. CASE UNCHANGED vars
  <2>1. Done' = Done /\ UNCHANGED <<prog, stage, modules, content, fstack, bstack>>
    BY <1>5 DEF vars, Done, Pointer, Roots, Working
  <2>2. CASE stage = "frontend"
    <3>1. \A q \in Done : SeesWithin(q, fstack[1].k)'
      BY <2>1, <2>2 DEF SeesInv, FrontSees, SeesWithin, Below, Before, FirstFile
    <3>2. fstack[1].pc # "parse" => ImportsWithin'
      BY <2>1, <2>2, ImportsWithinKept DEF SeesInv, FrontSees
    <3>3. QED
      BY <2>1, <2>2, <3>1, <3>2 DEF SeesInv, FrontSees
  <2>3. CASE stage = "backend"
    <3>1. ImportsWithin'
      BY <2>1, <2>3, ImportsWithinKept DEF SeesInv, BackSees
    <3>2. \A j : Visited(j)' = Visited(j) /\ bstack'[j].k = bstack[j].k
      BY <1>5 DEF vars, Visited
    <3>3. \A j \in 1 .. Len(bstack) : VisitWithin(j)'
      BY <2>1, <2>3, <3>2, VisitWithinKept DEF SeesInv, BackSees
    <3>4. QED
      BY <2>1, <2>3, <3>1, <3>3 DEF SeesInv, BackSees
  <2>4. QED
    BY <2>1, <2>2, <2>3 DEF SeesInv
<1>6. CASE Next /\ ~ \/ StartFile \/ ParseFile \/ ImportRegistered \/ ImportOpen \/ ImportReturn
                     \/ ImportFile \/ ParseEnd \/ TypeCheck \/ BackendEnter \/ BackendSkip
                     \/ BackendOriginal \/ BackendCall \/ BackendReturn \/ GenerateCode
                     \/ UNCHANGED vars
  <2>1. stage' \in {"output", "done"}
    BY <1>6 DEF Next, Step, Frontend, Backend, Terminated, FilesDone, GenerateOutput, ParseFails,
       ImportOverflow, TypesOverflow, FunctionsOverflow, TypeCheckFails, DeclareFails, RedefinitionFails, GenerateCodeFails, Fails,
       EndWith, Ends
  <2>2. QED
    BY <2>1 DEF SeesInv
<1>7. QED
  BY <1>1, <1>2, <1>3, <1>4, <1>5, <1>6

\* What modules see, in every state.
LEMMA SeesInvariant ==
  ASSUME OneFile
  PROVE  Spec => []SeesInv
<1>1. Init => SeesInv
  BY DEF Init, SeesInv
<1>2. Inv /\ HeapInv /\ GraphInv /\ FirstInv /\ (Alone /\ NeedInv) /\ SeesInv /\ [Next]_vars
        /\ Inv' /\ HeapInv' /\ GraphInv' /\ FirstInv' => SeesInv'
  BY NextSees
<1>3. QED
  BY <1>1, <1>2, Invariant, HeapInvariant, GraphInvariant, FirstInvariant, NeedInvariant, PTL DEF Spec

-----------------------------------------------------------------------------
(* What is generated before what *)

\* What is in a sequence that one element was added to.
LEMMA AppendRange ==
  ASSUME NEW S, NEW s \in Seq(S), NEW e \in S
  PROVE  Range(Append(s, e)) = Range(s) \union {e}
<1>1. PICK t : t = Append(s, e)
  OBVIOUS
<1>2. /\ t \in Seq(S) /\ Len(s) \in Nat /\ Len(t) = Len(s) + 1
      /\ \A i \in 1 .. Len(s) : t[i] = s[i]
      /\ t[Len(s) + 1] = e
  BY <1>1
<1>3. \A i : i \in 1 .. Len(t) <=> i \in 1 .. Len(s) \/ i = Len(s) + 1
  BY <1>2
<1>4. Range(t) = {t[i] : i \in 1 .. Len(t)} /\ Range(s) = {s[i] : i \in 1 .. Len(s)}
  BY <1>2 DEF Range
<1>5. Range(t) \subseteq Range(s) \union {e}
  BY <1>2, <1>3, <1>4
<1>6. Range(s) \union {e} \subseteq Range(t)
  BY <1>2, <1>3, <1>4
<1>7. QED
  BY <1>1, <1>5, <1>6

\* A step that overwrites no module and generates no code.
LEMMA EmissionKept ==
  ASSUME Inv, Emission, UNCHANGED <<prog, emitted>>, declared \subseteq declared',
         \A p \in Pointer : struct'[p] = struct[p] /\ content'[p].path = content[p].path,
         \A p \in Pointer' : p \notin Pointer => struct'[p] = p,
         \A p \in codegen' : p \notin codegen => p \in Pointer /\ content[p].path \in Out
  PROVE  Emission' /\ Out' = Out
<1>1. Out' = Out
  BY DEF Out, FirstFile
<1>2. ASSUME NEW q \in Pointer', struct'[q] # q
      PROVE  {PathOf(q)', content'[q].path} \subseteq Out
  <2>1. q \in Pointer /\ struct[q] # q /\ struct[q] \in Pointer
    BY <1>2, ContentOK
  <2>2. PathOf(q)' = PathOf(q) /\ content'[q].path = content[q].path
    BY <2>1 DEF PathOf
  <2>3. QED
    BY <2>1, <2>2 DEF Emission
<1>3. \A p \in codegen' : content'[p].path \in Out
  <2>1. codegen \subseteq Pointer
    BY DEF Inv, TypeOK
  <2>2. QED
    BY <2>1 DEF Emission
<1>4. QED
  BY <1>1, <1>2, <1>3 DEF Emission

\* The import that a backend() is through with has its code, or is the first file.
LEMMA NextOut ==
  ASSUME PathsApart, Inv, HeapInv, GraphInv, Alone, NeedInv, EmitInv,
         BackendSkip \/ BackendOriginal \/ BackendReturn
  PROVE  /\ content[NextImport].path \in Out
         /\ prog.imports[content[BTop.own].path][BTop.k] \in Out
<1>1. PICK n, q : n = Len(bstack) /\ q = NextImport
  OBVIOUS
<1>2. /\ stage = "backend" /\ n \in Nat \ {0} /\ n \in 1 .. n /\ BTop = bstack[n]
      /\ BTop.pc \in {"loop", "wait"} /\ BTop.own \in Pointer
      /\ BTop.k <= Len(content[BTop.own].imports) /\ q \in Pointer
      /\ \/ BTop.pc = "loop" /\ InList(q)
         \/ BTop.pc = "loop" /\ ~InList(q) /\ IsOriginal(q)
         \/ BTop.pc = "wait"
  BY <1>1, BackendNextEffect
<1>3. Emission /\ BackEmission /\ BackHeap /\ AllMatch
  BY <1>2 DEF EmitInv, HeapInv, NeedInv
<1>4. content[q].path \in Out
  <2>1. CASE BTop.pc = "loop" /\ InList(q)
    <3>1. PICK p \in codegen : <<PathOf(p), PathOf(q)>> \in Extends
      BY <2>1 DEF InList
    <3>2. PathOf(p) = PathOf(q)
      BY <3>1 DEF PathsApart
    <3>3. p \in Pointer
      BY DEF Inv, TypeOK
    <3>4. PathOf(p) \in Out
      BY <1>3, <3>3 DEF Emission, PathOf
    <3>5. CASE struct[q] = q
      BY <3>2, <3>4, <3>5 DEF PathOf
    <3>6. CASE struct[q] # q
      BY <1>2, <1>3, <3>6 DEF Emission
    <3>7. QED
      BY <3>5, <3>6
  <2>2. CASE BTop.pc = "loop" /\ ~InList(q) /\ IsOriginal(q)
    <3>1. PathOf(q) = content[q].path
      BY <1>2, <2>2, TargetFresh
    <3>2. BTop.orig # 0 /\ content[q].path = content[BTop.orig].path
      BY <2>2, <3>1 DEF IsOriginal
    <3>3. VisitOK(n)
      BY <1>1, <1>2, <1>3 DEF BackHeap
    <3>4. BTop.orig = Root
      BY <1>2, <3>2, <3>3 DEF VisitOK
    <3>5. fileIndex = 1
      BY <1>2, CommandOK DEF HeapInv, Alone
    <3>6. QED
      BY <1>3, <3>2, <3>4, <3>5 DEF BackHeap, Out, FirstFile
  <2>3. CASE BTop.pc = "wait"
    BY <1>1, <1>3, <2>3 DEF BackEmission
  <2>4. QED
    BY <1>2, <2>1, <2>2, <2>3
<1>5. BTop.k \in 1 .. Len(content[BTop.own].imports) /\ q = content[BTop.own].imports[BTop.k]
  <2>1. BTop.k \in Nat \ {0} /\ Len(content[BTop.own].imports) \in Nat
    BY <1>1, <1>2, BackFramesOK, ContentOK
  <2>2. QED
    BY <1>1, <1>2, <2>1 DEF NextImport, BackendImports
<1>6. content[q].path = prog.imports[content[BTop.own].path][BTop.k]
  BY <1>2, <1>3, <1>5 DEF AllMatch
<1>7. QED
  BY <1>1, <1>4, <1>6

\* When a module's code is generated, that of all it imports is, or that is the first file's.
LEMMA OwnImportsOut ==
  ASSUME Inv, GraphInv, EmitInv, ImportsDone
  PROVE  Range(prog.imports[OwnPath]) \subseteq Out
<1>1. PICK n : n = Len(bstack)
  OBVIOUS
<1>2. /\ stage = "backend" /\ n \in 1 .. n /\ BTop = bstack[n] /\ BTop.pc = "loop"
      /\ BTop.own \in Pointer /\ BTop.k > Len(content[BTop.own].imports)
  BY <1>1, BTopOK DEF ImportsDone, BackAt, BackFrameOK, BackendImports
<1>3. Graph /\ fstack = <<>> /\ BackEmission
  BY <1>2 DEF GraphInv, Inv, StacksApart, EmitInv
<1>4. Working = {}
  BY <1>3, EmptySeq DEF Working
<1>5. Len(content[BTop.own].imports) = Len(prog.imports[OwnPath])
  BY <1>2, <1>3, <1>4 DEF Graph, AllBound, OwnPath
<1>6. OwnPath \in File /\ prog.imports[OwnPath] \in Seq(File)
  BY <1>2, ContentOK, CommandOK DEF OwnPath
<1>7. \A i \in 1 .. Len(prog.imports[OwnPath]) : i \in 1 .. BTop.k - 1
  <2>1. BTop.k \in Nat /\ Len(prog.imports[OwnPath]) \in Nat
    BY <1>1, <1>2, <1>6, BackFramesOK
  <2>2. QED
    BY <1>2, <1>5, <2>1
<1>8. \A i \in 1 .. Len(prog.imports[OwnPath]) : prog.imports[OwnPath][i] \in Out
  BY <1>1, <1>2, <1>3, <1>7 DEF BackEmission, OwnPath
<1>9. QED
  BY <1>6, <1>8 DEF Range

\* The end of a backend(): its code is generated, and the current module overwritten.
LEMMA GenerateEmits ==
  ASSUME Inv, HeapInv, GraphInv, Alone, EmitInv, GenerateCode
  PROVE  EmitInv'
<1>1. PICK n : n = Len(bstack)
  OBVIOUS
<1>2. /\ ImportsDone /\ CopyBack /\ emitted' = Append(emitted, OwnPath)
      /\ codegen' \subseteq codegen \union {current}
      /\ UNCHANGED <<prog, fileIndex, current, content, declared>>
  BY <1>1, GenerateCodeEffect
<1>3. /\ stage = "backend" /\ n \in Nat \ {0} /\ n \in 1 .. n /\ BTop = bstack[n]
      /\ BTop.pc = "loop" /\ BTop.own \in Pointer /\ current \in Pointer
      /\ struct'[current] = BTop.own
      /\ \A p \in Pointer : p # current => struct'[p] = struct[p]
      /\ Pointer' = Pointer
  BY <1>1, <1>2, CopyBackEffect
<1>4. Emission /\ BackEmission /\ BackHeap
  BY <1>3 DEF EmitInv, HeapInv
<1>5. OwnPath \in File /\ emitted \in Seq(File)
  BY <1>3, ContentOK DEF Inv, TypeOK, OwnPath
<1>6. Range(emitted') = Range(emitted) \union {OwnPath}
  BY <1>2, <1>5, AppendRange
<1>7. Out' = Out \union {OwnPath}
  BY <1>2, <1>6 DEF Out, FirstFile
<1>8. content[current].path \in Out' /\ (current # BTop.own => content[current].path \in Out)
  BY <1>3, <1>4, <1>7 DEF BackEmission, OwnPath
<1>9. Range(prog.imports[OwnPath]) \subseteq Out
  BY <1>2, OwnImportsOut
<1>10. VisitOK(n) /\ Visited(n) = BTop.own /\ OwnPath \in declared
  <2>1. VisitOK(n) /\ Visited(n) = BTop.own
    BY <1>1, <1>3, <1>4 DEF BackHeap, Visited
  <2>2. QED
    BY <1>3, <2>1 DEF VisitOK, OwnPath
<1>11. Emission'
  <2>1. ASSUME NEW q \in Pointer, struct'[q] # q
        PROVE  {PathOf(q)', content[q].path} \subseteq Out'
    <3>1. CASE q = current
      <4>1. PathOf(q)' = OwnPath
        BY <1>2, <1>3, <3>1 DEF PathOf, OwnPath
      <4>2. QED
        BY <1>7, <1>8, <3>1, <4>1
    <3>2. CASE q # current
      <4>1. PathOf(q)' = PathOf(q) /\ struct[q] # q
        BY <1>2, <1>3, <2>1, <3>2 DEF PathOf
      <4>2. QED
        BY <1>4, <1>7, <4>1 DEF Emission
    <3>3. QED
      BY <3>1, <3>2
  <2>2. \A p \in codegen' : content[p].path \in Out'
    BY <1>2, <1>4, <1>7, <1>8 DEF Emission
  <2>3. \A f \in Range(emitted') : Range(prog.imports[f]) \subseteq Out'
    BY <1>4, <1>6, <1>7, <1>9 DEF Emission
  <2>4. Range(emitted') \subseteq declared
    BY <1>4, <1>6, <1>10 DEF Emission
  <2>5. QED
    BY <1>2, <1>3, <2>1, <2>2, <2>3, <2>4 DEF Emission
<1>12. CASE n = 1
  <2>1. stage' = "next"
    BY <1>1, <1>12, GenerateCodeEffect
  <2>2. fileIndex = 1
    BY <1>3, CommandOK DEF HeapInv, Alone
  <2>3. OwnPath = FirstFile /\ FirstFile' = FirstFile
    BY <1>2, <1>4, <1>10, <1>12, <2>2 DEF VisitOK, BackHeap, OwnPath, FirstFile
  <2>4. QED
    BY <1>6, <1>11, <2>1, <2>3 DEF EmitInv
<1>13. CASE n # 1
  <2>1. /\ n - 1 \in 1 .. n /\ Len(bstack') = n - 1 /\ BTop' = bstack'[n - 1]
        /\ bstack'[n - 1] = bstack[n - 1] /\ bstack[n - 1].pc = "wait"
        /\ \A j \in 1 .. n - 1 : bstack'[j] = bstack[j] /\ j \in 1 .. n
        /\ stage' = "backend"
    <3>1. n - 1 \in 1 .. n /\ n - 1 \in 1 .. n - 1 /\ \A j \in 1 .. n - 1 : j \in 1 .. n
      BY <1>3, <1>13
    <3>2. /\ Len(bstack') = n - 1 /\ BTop' = bstack'[n - 1] /\ bstack'[n - 1].pc = "wait"
          /\ \A j \in 1 .. n - 1 : bstack'[j] = bstack[j]
          /\ stage' = stage
      BY <1>1, <1>13, GenerateCodeEffect
    <3>3. QED
      BY <1>3, <3>1, <3>2
  <2>2. NextImport' = BTop.own
    BY <1>2, <1>10, <1>13, <2>1 DEF VisitOK, NextImport, BackendImports
  <2>3. content'[NextImport'].path \in Out'
    BY <1>2, <1>7, <2>2 DEF OwnPath
  <2>4. \A j \in 1 .. Len(bstack') : bstack'[j].pc # "enter" =>
          \A i \in 1 .. bstack'[j].k - 1 : prog.imports[content[bstack'[j].own].path][i] \in Out'
    BY <1>1, <1>4, <1>7, <2>1 DEF BackEmission
  <2>5. BackEmission'
    BY <1>2, <1>8, <2>3, <2>4 DEF BackEmission
  <2>6. QED
    BY <1>11, <2>1, <2>5 DEF EmitInv
<1>14. QED
  BY <1>12, <1>13

\* The other steps of a backend() keep what is generated before what.
LEMMA BackendEmits ==
  ASSUME PathsApart, Inv, HeapInv, GraphInv, Alone, NeedInv, EmitInv,
         BackendEnter \/ BackendSkip \/ BackendOriginal \/ BackendCall \/ BackendReturn
  PROVE  EmitInv'
<1>1. PICK n : n = Len(bstack)
  OBVIOUS
<1>2. /\ UNCHANGED <<prog, struct, content, emitted, stage, fileIndex>> /\ declared \subseteq declared'
      /\ stage = "backend"
  BY DEF BackendEnter, BackendSkip, BackendOriginal, BackendCall, BackendReturn,
     heapVars, frontVars, BackendPending, BackAt
<1>3. n \in Nat \ {0} /\ n \in 1 .. n /\ BTop = bstack[n] /\ BackHeap /\ Emission /\ BackEmission
  BY <1>1, <1>2, BTopOK DEF HeapInv, BackHeap, EmitInv
<1>4. Pointer' = Pointer
  BY <1>2 DEF Pointer
<1>5. CASE BackendEnter
  <2>1. /\ BTop.pc = "enter" /\ Len(bstack') = n /\ BTop' = bstack'[n] /\ bstack'[n].pc = "loop"
        /\ bstack'[n].own = struct[current] /\ bstack'[n].k = BTop.k
        /\ \A l \in 1 .. n : l # n => bstack'[l] = bstack[l]
        /\ UNCHANGED <<current, codegen>>
    BY <1>1, <1>5, BackendEnterEffect
  <2>2. Emission' /\ Out' = Out
    BY <1>2, <1>3, <1>4, <2>1, EmissionKept
  <2>3. struct[current] = current
    BY <1>3, <2>1 DEF BackHeap
  <2>4. BTop.k = 1
    BY <1>1, <1>3, <2>1 DEF BackHeap, VisitOK
  <2>5. BackEmission'
    BY <1>1, <1>2, <1>3, <2>1, <2>2, <2>3, <2>4 DEF BackEmission
  <2>6. QED
    BY <1>2, <2>2, <2>5 DEF EmitInv
<1>6. CASE BackendSkip \/ BackendOriginal \/ BackendReturn
  <2>1. /\ BTop.pc \in {"loop", "wait"} /\ Len(bstack') = n /\ BTop' = bstack'[n] /\ bstack'[n].pc = "loop"
        /\ bstack'[n].own = BTop.own /\ bstack'[n].k = BTop.k + 1
        /\ \A l \in 1 .. n : l # n => bstack'[l] = bstack[l]
        /\ current' = current \/ current' = NextImport
        /\ codegen' \subseteq codegen \union {NextImport} /\ NextImport \in Pointer
    BY <1>1, <1>6, BackendNextEffect
  <2>2. /\ content[NextImport].path \in Out
        /\ prog.imports[content[BTop.own].path][BTop.k] \in Out
    BY <1>6, NextOut
  <2>3. Emission' /\ Out' = Out
    <3>1. \A p \in codegen' : p \notin codegen => p \in Pointer /\ content[p].path \in Out
      BY <2>1, <2>2
    <3>2. QED
      BY <1>2, <1>3, <1>4, <3>1, EmissionKept
  <2>4. BTop'.pc # "enter" => current' = BTop'.own \/ content'[current'].path \in Out'
    BY <1>2, <1>3, <2>1, <2>2, <2>3 DEF BackEmission
  <2>5. ASSUME NEW j \in 1 .. n, bstack'[j].pc # "enter", NEW i \in 1 .. bstack'[j].k - 1
        PROVE  prog.imports[content[bstack'[j].own].path][i] \in Out
    <3>1. CASE j = n
      <4>1. BTop.k \in Nat
        BY <1>1, <1>3, BackFramesOK
      <4>2. i \in 1 .. BTop.k - 1 \/ i = BTop.k
        BY <2>1, <2>5, <3>1, <4>1
      <4>3. QED
        BY <1>1, <1>3, <2>1, <2>2, <3>1, <4>2 DEF BackEmission
    <3>2. CASE j # n
      BY <1>1, <1>3, <2>1, <2>5, <3>2 DEF BackEmission
    <3>3. QED
      BY <3>1, <3>2
  <2>6. BackEmission'
    BY <1>2, <2>1, <2>3, <2>4, <2>5 DEF BackEmission
  <2>7. QED
    BY <1>2, <2>3, <2>6 DEF EmitInv
<1>7. CASE BackendCall
  <2>1. /\ BTop.pc = "loop" /\ Len(bstack') = n + 1 /\ BTop' = bstack'[n + 1]
        /\ bstack'[n + 1].pc = "enter"
        /\ bstack'[n].pc = "wait" /\ bstack'[n].own = BTop.own /\ bstack'[n].k = BTop.k
        /\ \A l \in 1 .. n : l # n => bstack'[l] = bstack[l]
        /\ UNCHANGED codegen
    BY <1>1, <1>7, BackendCallEffect
  <2>2. Emission' /\ Out' = Out
    BY <1>2, <1>3, <1>4, <2>1, EmissionKept
  <2>3. ASSUME NEW j \in 1 .. n + 1, bstack'[j].pc # "enter", NEW i \in 1 .. bstack'[j].k - 1
        PROVE  prog.imports[content[bstack'[j].own].path][i] \in Out
    <3>1. j \in 1 .. n
      BY <1>3, <2>1, <2>3
    <3>2. QED
      BY <1>1, <1>3, <2>1, <2>3, <3>1 DEF BackEmission
  <2>4. BackEmission'
    BY <1>2, <2>1, <2>2, <2>3 DEF BackEmission
  <2>5. QED
    BY <1>2, <2>2, <2>4 DEF EmitInv
<1>8. QED
  BY <1>5, <1>6, <1>7

\* Every step keeps what is generated before what.
LEMMA NextEmits ==
  ASSUME PathsApart, Inv, HeapInv, GraphInv, Alone, NeedInv, EmitInv, [Next]_vars
  PROVE  EmitInv'
<1>1. ASSUME stage # "done", UNCHANGED <<prog, emitted, declared, codegen>>,
             \A p \in Pointer : struct'[p] = struct[p] /\ content'[p].path = content[p].path,
             \A p \in Pointer' : p \notin Pointer => struct'[p] = p
      PROVE  Emission' /\ Out' = Out
  BY <1>1, EmissionKept DEF EmitInv
<1>2. CASE StartFile
  <2>1. /\ stage = "next" /\ stage' = "frontend" /\ UNCHANGED <<prog, struct, content, codegen, declared, emitted>>
    BY <1>2, StartFileEffect
  <2>2. Pointer' = Pointer
    BY <2>1 DEF Pointer
  <2>3. QED
    BY <1>1, <2>1, <2>2 DEF EmitInv
<1>3. CASE ParseFile
  <2>1. PICK n, new : n = Len(fstack) /\ new = Len(struct) + 1
    OBVIOUS
  <2>2. stage = "frontend" => \A j \in 1 .. Len(fstack) : fstack[j].pc = "parse" => fstack[j].k = 1
    BY DEF HeapInv, FrontHeap, FrontFrameFresh
  <2>3. /\ stage = "frontend" /\ Pointer' = Pointer \union {new} /\ struct'[new] = new
        /\ \A p \in Pointer : struct'[p] = struct[p] /\ content'[p] = content[p]
        /\ UNCHANGED <<prog, stage, codegen, declared, emitted>>
    BY <1>3, <2>1, <2>2, ParseFileEffect
  <2>4. QED
    BY <1>1, <2>3 DEF EmitInv
<1>4. CASE ImportRegistered \/ ImportOpen \/ ImportReturn
  <2>1. /\ stage = "frontend" /\ fstack # <<>> /\ FTop.pc \in {"import", "wait"}
        /\ FTop.k <= Len(prog.imports[FTop.file])
    BY <1>4, ImportCases
  <2>2. PICK m \in Pointer : Bind(m)
    BY <1>4, ImportCases
  <2>3. struct[FTop.module] = FTop.module
    BY <2>1, FrontModule
  <2>4. /\ Pointer' = Pointer /\ \A p \in Pointer : content'[p].path = content[p].path
        /\ UNCHANGED <<prog, stage, struct, codegen, declared, emitted>>
    BY <2>1, <2>2, <2>3, BindEffect
  <2>5. QED
    BY <1>1, <2>1, <2>4 DEF EmitInv
<1>5. CASE ImportFile \/ ParseEnd
  <2>1. /\ stage = "frontend" /\ UNCHANGED <<prog, stage, struct, content, codegen, declared, emitted>>
    BY <1>5, ImportFileEffect, ParseEndEffect
  <2>2. Pointer' = Pointer
    BY <2>1 DEF Pointer
  <2>3. QED
    BY <1>1, <2>1, <2>2 DEF EmitInv
<1>6. CASE TypeCheck
  <2>1. PICK n : n = Len(fstack)
    OBVIOUS
  <2>2. /\ stage = "frontend" /\ Pointer' = Pointer
        /\ \A p \in Pointer : content'[p].path = content[p].path
        /\ UNCHANGED <<prog, struct, codegen, declared, emitted>>
    BY <1>6, <2>1, TypeCheckEffect
  <2>3. Emission'
    BY <1>1, <2>2
  <2>4. CASE n = 1
    <3>1. stage' = "backend" /\ Len(bstack') = 1 /\ BTop' = bstack'[1] /\ bstack'[1].pc = "enter"
      BY <1>6, <2>1, <2>4, TypeCheckEffect
    <3>2. QED
      BY <2>3, <3>1 DEF EmitInv, BackEmission
  <2>5. CASE n # 1
    BY <1>6, <2>1, <2>2, <2>3, <2>5, TypeCheckEffect DEF EmitInv
  <2>6. QED
    BY <2>4, <2>5
<1>7. CASE BackendEnter \/ BackendSkip \/ BackendOriginal \/ BackendCall \/ BackendReturn
  BY <1>7, BackendEmits
<1>8. CASE GenerateCode
  BY <1>8, GenerateEmits
<1>9. CASE FilesDone
  <2>1. /\ stage = "next" /\ stage' = "output" /\ fileIndex = 1
        /\ UNCHANGED <<prog, struct, content, codegen, declared, emitted>>
    BY <1>9 DEF FilesDone, Alone, heapVars, backVars
  <2>2. Pointer' = Pointer /\ FirstFile' = FirstFile
    BY <2>1 DEF Pointer, FirstFile
  <2>3. QED
    BY <1>1, <2>1, <2>2 DEF EmitInv
<1>10. CASE \/ GenerateOutput \/ ParseFails \/ ImportOverflow \/ TypesOverflow \/ FunctionsOverflow
           \/ TypeCheckFails \/ DeclareFails
            \/ RedefinitionFails \/ GenerateCodeFails
  <2>1. stage' = "done"
    BY <1>10 DEF GenerateOutput, ParseFails, ImportOverflow, TypesOverflow, FunctionsOverflow, TypeCheckFails, DeclareFails,
         RedefinitionFails, GenerateCodeFails, Fails, EndWith, Ends
  <2>2. QED
    BY <2>1 DEF EmitInv
<1>11. CASE UNCHANGED vars
  BY <1>11 DEF vars, EmitInv, Emission, BackEmission, Out, Pointer, PathOf, FirstFile, BTop, NextImport,
     BackendImports
<1>12. QED
  BY <1>2, <1>3, <1>4, <1>5, <1>6, <1>7, <1>8, <1>9, <1>10, <1>11
  DEF Next, Step, Frontend, Backend, Terminated

\* What is generated before what, in every state.
LEMMA EmitInvariant ==
  ASSUME OneFile, PathsApart
  PROVE  Spec => []EmitInv
<1>1. Init => EmitInv
  <2>1. SUFFICES ASSUME Init PROVE EmitInv
    OBVIOUS
  <2>2. /\ struct = <<>> /\ codegen = {} /\ emitted = <<>> /\ stage = "next" /\ fileIndex = 0
        /\ declared = {}
    BY <2>1 DEF Init
  <2>3. Pointer = {} /\ Range(emitted) = {}
    BY <2>2, EmptySeq DEF Pointer, Range
  <2>4. QED
    BY <2>2, <2>3 DEF EmitInv, Emission
<1>2. Inv /\ HeapInv /\ GraphInv /\ (Alone /\ NeedInv) /\ EmitInv /\ [Next]_vars => EmitInv'
  BY NextEmits
<1>3. QED
  BY <1>1, <1>2, Invariant, HeapInvariant, GraphInvariant, NeedInvariant, PTL DEF Spec

\* What the first file needs lies in every set that holds it and what its members import.
LEMMA NeededWithin ==
  ASSUME Inv, NEW S \in SUBSET File, FirstFile \in S, \A h \in S : Range(prog.imports[h]) \subseteq S
  PROVE  OfFirst \subseteq S
<1>1. DOMAIN prog.imports = File
  BY CommandOK
<1>2. QED
  BY <1>1 DEF OfFirst, Needed

\* The first file, and all whose code is generated, are declared while a backend() is in its loop.
LEMMA OutDeclared ==
  ASSUME Inv, HeapInv, Alone, EmitInv, ImportsDone
  PROVE  Out \subseteq declared /\ Out \subseteq File /\ fileIndex = 1
<1>1. PICK n : n = Len(bstack)
  OBVIOUS
<1>2. /\ stage = "backend" /\ n \in Nat \ {0} /\ n \in 1 .. n /\ 1 \in 1 .. n /\ BTop = bstack[n]
      /\ BTop.pc = "loop"
  BY <1>1, BTopOK DEF ImportsDone, BackAt
<1>3. BackHeap /\ Emission
  BY <1>2 DEF HeapInv, EmitInv
<1>4. fileIndex = 1
  BY <1>2, CommandOK DEF HeapInv, Alone
<1>5. bstack[1].pc # "enter"
  BY <1>1, <1>2, BackFramesOK
<1>6. FirstFile \in declared
  BY <1>1, <1>2, <1>3, <1>4, <1>5 DEF BackHeap, VisitOK, FirstFile
<1>7. declared \subseteq File
  BY DEF Inv, TypeOK
<1>8. QED
  BY <1>3, <1>4, <1>6, <1>7 DEF Emission, Out

\* What type_check() let a module call is declared when its code is generated,
\* whatever the files import, themselves and the file of the command line
\* included: the backend of a program with one file on the command line, where no
\* path begins with another's, meets no call that it cannot resolve
\* (main.c:491-510, 891-946).
THEOREM CallsAlwaysDeclared ==
  ASSUME OneFile, PathsApart
  PROVE  Spec => []CallsDeclared
<1>1. ASSUME Inv, HeapInv, GraphInv, Alone, NeedInv, SeesInv, EmitInv, ImportsDone
      PROVE  content[BTop.own].sees \subseteq declared
  <2>1. PICK n, own : n = Len(bstack) /\ own = BTop.own
    OBVIOUS
  <2>2. /\ stage = "backend" /\ n \in Nat \ {0} /\ n \in 1 .. n /\ BTop = bstack[n]
        /\ BTop.pc = "loop" /\ own \in Pointer
    BY <1>1, <2>1, BTopOK DEF ImportsDone, BackAt, BackFrameOK
  <2>3. BackHeap /\ BackSees /\ BackEmission /\ Emission /\ OnlyNeeded
    BY <1>1, <2>2 DEF HeapInv, SeesInv, EmitInv, NeedInv
  <2>4. Out \subseteq declared /\ Out \subseteq File /\ Root = modules[1]
    BY <1>1, OutDeclared DEF Root
  <2>5. content[modules[1]].path = FirstFile
    BY <1>1, <2>3, <2>4, OutDeclared DEF BackHeap, FirstFile
  <2>6. VisitOK(n) /\ Visited(n) = own /\ OwnPath \in declared /\ OwnPath \in File
    <3>1. VisitOK(n) /\ Visited(n) = own
      BY <2>1, <2>2, <2>3 DEF BackHeap, Visited
    <3>2. QED
      BY <1>1, <2>1, <2>2, <3>1, ContentOK DEF VisitOK, OwnPath
  <2>7. Range(prog.imports[OwnPath]) \subseteq Out
    BY <1>1, OwnImportsOut
  <2>8. PICK D : D = Out \union {OwnPath}
    OBVIOUS
  <2>9. D \in SUBSET File /\ D \subseteq declared /\ FirstFile \in D
    BY <2>4, <2>6, <2>8 DEF Out
  <2>10. \A h \in D \ {FirstFile} : Range(prog.imports[h]) \subseteq D
    BY <2>3, <2>7, <2>8 DEF Emission, Out
  <2>11. CASE own = modules[1]
    <3>1. OwnPath = FirstFile
      BY <2>1, <2>5, <2>11 DEF OwnPath
    <3>2. OfFirst \subseteq D
      BY <1>1, <2>7, <2>8, <2>9, <2>10, <3>1, NeededWithin
    <3>3. QED
      BY <2>1, <2>2, <2>3, <2>9, <3>2 DEF OnlyNeeded
  <2>12. CASE own # modules[1]
    <3>1. PICK l \in 1 .. n - 1 : Visited(l) = modules[1] /\ DeepWithin(own, bstack[l].k)
      BY <2>1, <2>2, <2>3, <2>6, <2>12 DEF BackSees, VisitWithin
    <3>2. PICK k : k = bstack[l].k
      OBVIOUS
    <3>3. content[own].sees \subseteq {FirstFile} \union Below(Before(k) \union {OwnPath})
      BY <2>1, <3>1, <3>2 DEF DeepWithin, SeesWithin, OwnPath
    <3>4. l \in 1 .. n /\ bstack[l].pc = "wait" /\ bstack[l].own = modules[1]
      <4>1. l \in 1 .. n /\ l # n
        BY <2>2, <3>1
      <4>2. QED
        BY <1>1, <2>1, <3>1, <4>1, BackFramesOK DEF Visited
    <3>5. Before(k) \subseteq Out
      BY <2>1, <2>3, <2>5, <3>2, <3>4 DEF BackEmission, Before
    <3>6. Before(k) \union {OwnPath} \subseteq D
      BY <2>8, <3>5
    <3>7. Below(Before(k) \union {OwnPath}) \subseteq D
      BY <2>9, <2>10, <3>6, BelowWithin
    <3>8. QED
      BY <2>1, <2>9, <3>3, <3>7
  <2>13. QED
    BY <2>1, <2>11, <2>12
<1>2. Inv /\ HeapInv /\ GraphInv /\ (Alone /\ NeedInv) /\ SeesInv /\ EmitInv => CallsDeclared
  BY <1>1 DEF CallsDeclared
<1>3. QED
  BY <1>2, Invariant, HeapInvariant, GraphInvariant, NeedInvariant, SeesInvariant, EmitInvariant, PTL

-----------------------------------------------------------------------------
(* The driver implements BuildOrder, as long as nothing must happen *)

\* The process runs until main() ends, and only files that are needed are declared.
RunInv ==
  /\ stage # "done" => outcome = "running"
  /\ declared \subseteq OfFirst

\* Every step keeps it so.
LEMMA NextRuns ==
  ASSUME Inv, NeedInv, RunInv, [Next]_vars
  PROVE  RunInv'
<1>1. UNCHANGED prog /\ OfFirst' = OfFirst
  BY DEF OfFirst, FirstFile, Next, Step, Frontend, Backend, Terminated, StartFile, FilesDone,
     GenerateOutput, ParseFile, ParseFails, ImportRegistered, ImportOpen, ImportFile,
     ImportOverflow, TypesOverflow, FunctionsOverflow, ImportReturn, ParseEnd, TypeCheck, TypeCheckFails, BackendEnter, DeclareFails, BackendSkip,
     BackendOriginal, BackendCall, BackendReturn, GenerateCode, RedefinitionFails,
     GenerateCodeFails, Bind, Fails, EndWith, Ends, vars
<1>2. CASE BackendEnter
  <2>1. /\ stage = "backend" /\ current \in Pointer /\ struct[current] \in Pointer
        /\ declared' = declared \union {PathOf(current)} /\ UNCHANGED <<stage, outcome>>
    BY <1>2, BackendEnterEffect
  <2>2. PathOf(current) \in OfFirst
    BY <2>1 DEF NeedInv, OnlyNeeded, PathOf
  <2>3. QED
    BY <1>1, <2>1, <2>2 DEF RunInv
<1>3. CASE ~BackendEnter
  <2>1. UNCHANGED declared
    BY <1>3 DEF Next, Step, Frontend, Backend, Terminated, StartFile, FilesDone,
       GenerateOutput, ParseFile, ParseFails, ImportRegistered, ImportOpen, ImportFile,
       ImportOverflow, TypesOverflow, FunctionsOverflow, ImportReturn, ParseEnd, TypeCheck, TypeCheckFails,
       DeclareFails, BackendSkip, BackendOriginal, BackendCall, BackendReturn, GenerateCode,
       RedefinitionFails, GenerateCodeFails, Bind, Fails, EndWith, Ends, backVars, vars
  <2>2. stage' # "done" => stage # "done" /\ UNCHANGED outcome
    BY <1>3 DEF Next, Step, Frontend, Backend, Terminated, StartFile, FilesDone,
       GenerateOutput, ParseFile, ParseFails, ImportRegistered, ImportOpen, ImportFile,
       ImportOverflow, TypesOverflow, FunctionsOverflow, ImportReturn, ParseEnd, TypeCheck, TypeCheckFails,
       DeclareFails, BackendSkip, BackendOriginal, BackendCall, BackendReturn, GenerateCode,
       RedefinitionFails, GenerateCodeFails, Bind, Fails, EndWith, Ends, vars,
       ImportPending, NeedsFrontend, FrontAt, BackendPending, ImportsDone, BackAt
  <2>3. QED
    BY <1>1, <2>1, <2>2 DEF RunInv
<1>4. QED
  BY <1>2, <1>3

\* The process runs until main() ends, in every state.
LEMMA RunInvariant ==
  ASSUME OneFile
  PROVE  Spec => []RunInv
<1>1. Init => RunInv
  BY DEF Init, RunInv
<1>2. Inv /\ (Alone /\ NeedInv) /\ RunInv /\ [Next]_vars => RunInv'
  BY NextRuns
<1>3. QED
  BY <1>1, <1>2, Invariant, NeedInvariant, PTL DEF Spec

\* What is wanted of a program with one file on the command line.
LEMMA WantedAlone ==
  ASSUME Inv, Alone
  PROVE  Build!Wanted = OfFirst
<1>1. prog.cmd \in Seq(File) /\ Len(prog.cmd) = 1
  BY DEF Inv, TypeOK, Program, Alone
<1>2. Range(prog.cmd) = {FirstFile}
  BY <1>1 DEF Range, FirstFile
<1>3. QED
  BY <1>2 DEF Build!Wanted, Build!Needed, Build!Range, OfFirst, Needed, Range

\* A step of the driver declares one file, generates the code of one, ends the
\* compilation or does nothing that BuildOrder sees.
LEMMA StepBuilds ==
  ASSUME Inv, HeapInv, GraphInv, Alone, NeedInv, EmitInv, RunInv, [Next]_vars
  PROVE  [Build!Next]_(Build!vars)
<1>1. Build!Wanted = OfFirst /\ DOMAIN prog.imports = File
  BY WantedAlone, CommandOK
<1>2. emitted \in Seq(File) /\ declared \subseteq File
  BY DEF Inv, TypeOK
<1>3. ASSUME stage # "done", UNCHANGED <<prog, declared, emitted>>,
             outcome' \in {"error", "exit", "crash", "endless"}
      PROVE  Build!Next
  BY <1>3 DEF RunInv, Build!Next, Build!Reject
<1>4. CASE BackendEnter
  <2>1. /\ stage = "backend" /\ current \in Pointer /\ struct[current] \in Pointer
        /\ declared' = declared \union {PathOf(current)} /\ UNCHANGED <<prog, emitted, outcome>>
    BY <1>4, BackendEnterEffect
  <2>2. PathOf(current) \in OfFirst /\ PathOf(current) \in File
    BY <2>1, ContentOK DEF NeedInv, OnlyNeeded, PathOf
  <2>3. CASE PathOf(current) \in declared
    BY <2>1, <2>3 DEF Build!vars
  <2>4. CASE PathOf(current) \notin declared
    <3>1. Build!Declare(PathOf(current))
      BY <1>1, <2>1, <2>2, <2>4 DEF Build!Declare, RunInv
    <3>2. QED
      BY <1>1, <2>2, <3>1 DEF Build!Next
  <2>5. QED
    BY <2>3, <2>4
<1>5. CASE GenerateCode
  <2>1. PICK n : n = Len(bstack)
    OBVIOUS
  <2>2. /\ ImportsDone /\ CopyBack /\ emitted' = Append(emitted, OwnPath)
        /\ UNCHANGED <<prog, declared, outcome>>
    BY <1>5 DEF GenerateCode
  <2>3. /\ stage = "backend" /\ n \in 1 .. n /\ BTop = bstack[n]
        /\ BTop.pc = "loop" /\ BTop.own \in Pointer
    BY <2>1, <2>2, CopyBackEffect
  <2>4. VisitOK(n) /\ Visited(n) = BTop.own
    BY <2>1, <2>3 DEF HeapInv, BackHeap, Visited
  <2>5. OwnPath \in declared /\ OwnPath \in File
    BY <2>3, <2>4, ContentOK DEF VisitOK, OwnPath
  <2>6. Range(prog.imports[OwnPath]) \subseteq declared
    BY <2>2, OwnImportsOut, OutDeclared
  <2>7. Range(emitted') = Range(emitted) \union {OwnPath}
    BY <1>2, <2>2, <2>5, AppendRange
  <2>8. CASE OwnPath \in Range(emitted)
    BY <2>2, <2>7, <2>8 DEF Build!vars
  <2>9. CASE OwnPath \notin Range(emitted)
    <3>1. Build!Emit(OwnPath)
      BY <2>2, <2>3, <2>5, <2>6, <2>7, <2>9 DEF Build!Emit, Build!Range, Range, RunInv
    <3>2. QED
      BY <1>1, <2>5, <3>1 DEF Build!Next
  <2>10. QED
    BY <2>8, <2>9
<1>6. CASE GenerateOutput
  <2>1. stage = "output" /\ UNCHANGED <<prog, declared, emitted>>
    BY <1>6 DEF GenerateOutput, Fails, EndWith, Ends
  <2>2. outcome' \in {"ok", "error", "exit"}
    BY <1>6 DEF GenerateOutput, Fails, EndWith, Ends
  <2>3. CASE outcome' = "ok"
    <3>1. Emission /\ FirstFile \in Range(emitted)
      BY <2>1 DEF EmitInv
    <3>2. Range(emitted) \subseteq OfFirst
      BY <3>1 DEF Emission, RunInv
    <3>3. Range(emitted) \in SUBSET File
      BY <1>2, <3>1 DEF Emission
    <3>4. OfFirst \subseteq Range(emitted)
      BY <3>1, <3>3, NeededWithin DEF Emission, Out
    <3>5. Range(emitted) = OfFirst
      BY <3>2, <3>4
    <3>6. QED
      BY <1>1, <2>1, <2>3, <3>5 DEF Build!Next, Build!Accept, RunInv
  <2>4. QED
    BY <1>3, <2>1, <2>2, <2>3
<1>7. CASE \/ ParseFails \/ TypeCheckFails \/ DeclareFails \/ RedefinitionFails \/ GenerateCodeFails
  <2>1. /\ stage # "done" /\ UNCHANGED <<prog, declared, emitted>> /\ outcome' \in {"error", "exit"}
    BY <1>7 DEF ParseFails, TypeCheckFails, DeclareFails, RedefinitionFails, GenerateCodeFails,
         FrontAt, ImportsDone, BackAt, Fails, EndWith, Ends
  <2>2. QED
    BY <1>3, <2>1
<1>8. CASE ImportOverflow \/ TypesOverflow \/ FunctionsOverflow
  <2>1. /\ stage # "done" /\ UNCHANGED <<prog, declared, emitted>>
        /\ outcome' \in {"crash", "endless"}
    BY <1>8 DEF ImportOverflow, TypesOverflow, FunctionsOverflow, NeedsFrontend, ImportPending,
       FrontAt, EndWith, Ends
  <2>2. QED
    BY <1>3, <2>1
<1>9. CASE \/ StartFile \/ FilesDone \/ ParseFile \/ ImportRegistered \/ ImportOpen \/ ImportFile
           \/ ImportReturn \/ ParseEnd \/ TypeCheck \/ BackendSkip \/ BackendOriginal
           \/ BackendCall \/ BackendReturn \/ UNCHANGED vars
  <2>1. UNCHANGED <<prog, declared, emitted, outcome>>
    BY <1>9 DEF StartFile, FilesDone, ParseFile, ImportRegistered, ImportOpen, ImportFile,
       ImportReturn, ParseEnd, TypeCheck, BackendSkip, BackendOriginal, BackendCall,
       BackendReturn, Bind, backVars, vars
  <2>2. QED
    BY <2>1 DEF Build!vars
<1>10. QED
  BY <1>4, <1>5, <1>6, <1>7, <1>8, <1>9 DEF Next, Step, Frontend, Backend, Terminated

\* The driver starts as BuildOrder does.
LEMMA InitBuilds ==
  ASSUME Init
  PROVE  Build!Init
<1>1. emitted = <<>> /\ prog \in Programs /\ declared = {} /\ outcome = "running"
  BY DEF Init
<1>2. Range(emitted) = {}
  BY <1>1, EmptySeq DEF Range
<1>3. QED
  BY <1>1, <1>2 DEF Build!Init

\* Where one file is on the command line, the driver declares and generates code in
\* an order that BuildOrder allows, and it succeeds only when the code of every file
\* needed, and of no other, is generated, whatever cycles the imports make.  (That it
\* gets that far is a matter of fairness, and the runs'.)
THEOREM BuildsInOrder ==
  ASSUME OneFile, PathsApart
  PROVE  Spec => Build!Init /\ [][Build!Next]_(Build!vars)
<1>1. Inv /\ HeapInv /\ GraphInv /\ (Alone /\ NeedInv) /\ EmitInv /\ RunInv /\ [Next]_vars
        => [Build!Next]_(Build!vars)
  BY StepBuilds
<1>2. Init => Build!Init
  BY InitBuilds
<1>3. QED
  BY <1>1, <1>2, Invariant, HeapInvariant, GraphInvariant, NeedInvariant, EmitInvariant,
     RunInvariant, PTL DEF Spec

-----------------------------------------------------------------------------
(* Cycles through the first file only: no file is compiled twice *)

\* Every cycle of imports goes through the first file, which does not import itself.
RootCyclesOnly ==
  /\ AcyclicWithout(FirstFile, prog.imports)
  /\ FirstFile \notin Range(prog.imports[FirstFile])

Known(q) == [path |-> content[q].path, module |-> q] \in table

\* No two nested frontends are for one file, and none for a file that is registered.
NestsApart ==
  /\ \A i, j \in 1 .. Len(fstack) : i # j => fstack[i].file # fstack[j].file
  /\ \A j \in 2 .. Len(fstack) : Registered(fstack[j].file) = {}
  /\ FTop.pc = "wait" => /\ Registered(Requested) = {}
                         /\ \A j \in 1 .. Len(fstack) : fstack[j].file # Requested

KnownOnce == \A e, d \in table : e.path = d.path => e = d

\* What an imported module imports is registered, or the module of the first file.
ImportsKnown ==
  \A c \in Pointer : c # modules[1] => \A i \in 1 .. Len(content[c].imports) :
    content[c].imports[i] = modules[1] \/ Known(content[c].imports[i])

\* The modules before q were done when q was parsed, and none imports the file of q.
Newer(q) ==
  \A c \in 1 .. q - 1 : c # modules[1] =>
    /\ c \in Done
    /\ \A i \in 1 .. Len(content[c].imports) :
         /\ content[content[c].imports[i]].path # content[q].path
         /\ content[c].imports[i] = modules[1] \/ content[c].imports[i] < q

\* The n-th import of the first file would be newer than those before it.
NewestAt(q, n) ==
  /\ Newer(q)
  /\ \A i \in 1 .. n - 1 :
       content[modules[1]].imports[i] = modules[1] \/ content[modules[1]].imports[i] < q

FirstImport(n) ==
  LET q == content[modules[1]].imports[n] IN q = modules[1] \/ Known(q) \/ NewestAt(q, n)

FirstImports == \A n \in 1 .. Len(content[modules[1]].imports) : FirstImport(n)

Returned(q) == stage = "frontend" /\ FTop.pc = "wait" /\ q = current

ImportedFirst(q) ==
  \E i \in 1 .. Len(content[modules[1]].imports) : q = content[modules[1]].imports[i]

\* Only the first file imports what is not registered.
DoneKnown == \A q \in Done : Known(q) \/ Returned(q) \/ ImportedFirst(q)

KnownHeap == KnownOnce /\ ImportsKnown /\ FirstImports /\ DoneKnown

KnownNests ==
  /\ NestsApart
  /\ fstack[1].pc = "parse" => Pointer = {}
  /\ Len(fstack) > 1 /\ fstack[2].pc # "parse" => NewestAt(fstack[2].module, fstack[1].k)
  /\ Len(fstack) = 1 /\ FTop.pc = "wait" => NewestAt(current, fstack[1].k)

KnownInv ==
  /\ stage = "frontend" => KnownNests
  /\ stage # "done" /\ Pointer # {} => KnownHeap

\* A step that leaves paths, and the imports of what is done, alone.
LEMMA NewestKept ==
  ASSUME Inv, NEW q \in Pointer, NEW k \in Nat, NewestAt(q, k), modules'[1] = modules[1],
         modules[1] \in Pointer, Done \subseteq Done',
         \A p \in Pointer : content'[p].path = content[p].path,
         \A s \in Done : content'[s].imports = content[s].imports,
         \A i \in 1 .. k - 1 : content'[modules[1]].imports[i] = content[modules[1]].imports[i]
  PROVE  NewestAt(q, k)'
<1>1. ASSUME NEW c \in 1 .. q - 1, c # modules[1]
      PROVE  /\ c \in Done'
             /\ \A i \in 1 .. Len(content'[c].imports) :
                  /\ content'[content'[c].imports[i]].path # content'[q].path
                  /\ content'[c].imports[i] = modules[1] \/ content'[c].imports[i] < q
  <2>1. /\ c \in Done
        /\ \A i \in 1 .. Len(content[c].imports) :
             /\ content[content[c].imports[i]].path # content[q].path
             /\ content[c].imports[i] = modules[1] \/ content[c].imports[i] < q
    BY <1>1 DEF NewestAt, Newer
  <2>2. c \in Pointer /\ content'[c].imports = content[c].imports
    BY <2>1 DEF Done
  <2>3. \A i \in 1 .. Len(content[c].imports) : content[c].imports[i] \in Pointer
    BY <2>2, ContentOK
  <2>4. QED
    BY <2>1, <2>2, <2>3
<1>2. QED
  BY <1>1 DEF NewestAt, Newer

\* What is registered stays so.
LEMMA KnownKept ==
  ASSUME NEW q, Known(q), table \subseteq table', content'[q].path = content[q].path
  PROVE  Known(q)'
BY DEF Known

\* A step that binds no import keeps what is registered.
LEMMA KnownHeapKept ==
  ASSUME Inv, KnownHeap, UNCHANGED table, modules'[1] = modules[1], modules[1] \in Pointer,
         Pointer \subseteq Pointer', Done \subseteq Done',
         \A p \in Pointer : content'[p].path = content[p].path /\ content'[p].imports = content[p].imports,
         \A p \in Pointer' : p \notin Pointer => Len(content'[p].imports) = 0,
         \A q \in Done : Returned(q) => Returned(q)',
         \A q \in Done' : q \notin Done => Returned(q)'
  PROVE  KnownHeap'
<1>1. Done \subseteq Pointer
  BY DEF Done
<1>2. KnownOnce'
  BY DEF KnownHeap, KnownOnce
<1>3. ImportsKnown'
  <2>1. SUFFICES ASSUME NEW c \in Pointer', c # modules[1], NEW i \in 1 .. Len(content'[c].imports),
                        NEW q, q = content'[c].imports[i]
                 PROVE  q = modules[1] \/ Known(q)'
    BY DEF ImportsKnown
  <2>2. c \in Pointer
    BY <2>1
  <2>3. q = content[c].imports[i] /\ i \in 1 .. Len(content[c].imports)
    BY <2>1, <2>2
  <2>4. q \in Pointer /\ (q = modules[1] \/ Known(q))
    BY <2>1, <2>2, <2>3, ContentOK DEF KnownHeap, ImportsKnown
  <2>5. QED
    BY <2>4, KnownKept
<1>4. FirstImports'
  <2>1. SUFFICES ASSUME NEW n \in 1 .. Len(content[modules[1]].imports),
                        NEW q, q = content[modules[1]].imports[n]
                 PROVE  q = modules[1] \/ Known(q)' \/ NewestAt(q, n)'
    BY DEF FirstImports, FirstImport
  <2>2. q \in Pointer /\ n \in Nat
    BY <2>1, ContentOK
  <2>3. q = modules[1] \/ Known(q) \/ NewestAt(q, n)
    BY <2>1 DEF KnownHeap, FirstImports, FirstImport
  <2>4. CASE Known(q)
    BY <2>2, <2>4, KnownKept
  <2>5. CASE NewestAt(q, n)
    BY <1>1, <2>2, <2>5, NewestKept
  <2>6. QED
    BY <2>3, <2>4, <2>5
<1>5. DoneKnown'
  <2>1. SUFFICES ASSUME NEW q \in Done' PROVE Known(q)' \/ Returned(q)' \/ ImportedFirst(q)'
    BY DEF DoneKnown
  <2>2. CASE q \in Done
    <3>1. Known(q) \/ Returned(q) \/ ImportedFirst(q)
      BY <2>2 DEF KnownHeap, DoneKnown
    <3>2. CASE Known(q)
      BY <1>1, <2>2, <3>2, KnownKept
    <3>3. CASE Returned(q)
      BY <2>2, <3>3
    <3>4. CASE ImportedFirst(q)
      BY <3>4 DEF ImportedFirst
    <3>5. QED
      BY <3>1, <3>2, <3>3, <3>4
  <2>3. CASE q \notin Done
    BY <2>1, <2>3
  <2>4. QED
    BY <2>2, <2>3
<1>6. QED
  BY <1>2, <1>3, <1>4, <1>5 DEF KnownHeap

\* The module of the first file is there once it is parsed.
LEMMA FirstParsed ==
  ASSUME Inv, HeapInv, GraphInv, FirstInv, Alone, stage = "frontend", fstack[1].pc # "parse"
  PROVE  modules[1] \in Pointer /\ content[modules[1]].path = FirstFile /\ Pointer # {}
<1>1. /\ 1 \in 1 .. Len(fstack) /\ fstack[1].module = modules[1] /\ fstack[1].file = FirstFile
      /\ FrontHeap
  BY FrontState
<1>2. modules[1] \in Pointer
  BY <1>1, FramesOK
<1>3. QED
  BY <1>1, <1>2 DEF FrontHeap, FrontFrameFresh

\* What parse() sets up for a file keeps what is registered.
LEMMA ParseFileKnown ==
  ASSUME Inv, HeapInv, GraphInv, FirstInv, Alone, KnownInv, ParseFile
  PROVE  KnownInv'
<1>1. PICK n, new : n = Len(fstack) /\ new = Len(struct) + 1
  OBVIOUS
<1>2. /\ Done' = Done /\ UNCHANGED <<prog, stage>> /\ stage = "frontend"
      /\ \A s \in Done : s \in Pointer /\ content'[s] = content[s]
  BY DoneKept
<1>3. /\ fileIndex = 1 /\ FrontHeap /\ FrontGraph /\ n \in Nat \ {0} /\ 1 \in 1 .. n
      /\ fstack[1].module = modules[1] /\ fstack[1].k \in Nat /\ fstack[1].file = FirstFile
      /\ Roots = {modules[1]} \ {0}
  BY <1>1, <1>2, FrontState, FramesOK
<1>4. stage = "frontend" => \A j \in 1 .. Len(fstack) : fstack[j].pc = "parse" => fstack[j].k = 1
  BY <1>3 DEF FrontHeap, FrontFrameFresh
<1>5. /\ n \in 1 .. n /\ FTop = fstack[n] /\ FTop.pc = "parse"
      /\ new \in Nat \ {0} /\ Pointer' = Pointer \union {new} /\ new \notin Pointer
      /\ \A p \in Pointer : content'[p] = content[p]
      /\ content'[new].path = FTop.file /\ Len(content'[new].imports) = 0
      /\ Len(fstack') = n /\ FTop' = fstack'[n]
      /\ fstack'[n].module = new /\ fstack'[n].file = FTop.file /\ fstack'[n].pc = "import"
      /\ \A j \in 1 .. n : j # n => fstack'[j] = fstack[j]
      /\ modules' = IF modules[fileIndex] = 0
                    THEN [modules EXCEPT ![fileIndex] = new] ELSE modules
      /\ UNCHANGED table
  BY <1>1, <1>4, ParseFileEffect
<1>6. KnownNests
  BY <1>2 DEF KnownInv
<1>7. NestsApart'
  <2>1. \A j \in 1 .. n : fstack'[j].file = fstack[j].file
    BY <1>5
  <2>2. \A f : Registered(f)' = Registered(f)
    BY <1>5 DEF Registered
  <2>3. /\ \A i, j \in 1 .. n : i # j => fstack[i].file # fstack[j].file
        /\ \A j \in 2 .. n : Registered(fstack[j].file) = {}
    BY <1>1, <1>6 DEF KnownNests, NestsApart
  <2>4. \A i, j \in 1 .. n : i # j => fstack'[i].file # fstack'[j].file
    BY <2>1, <2>3
  <2>5. ASSUME NEW j \in 2 .. n
        PROVE  \A f : f = fstack'[j].file => Registered(f)' = {}
    <3>1. j \in 1 .. n
      BY <1>3, <2>5
    <3>2. QED
      BY <2>1, <2>2, <2>3, <2>5, <3>1
  <2>6. Len(fstack') = n /\ FTop'.pc # "wait"
    BY <1>5
  <2>7. QED
    BY <2>4, <2>5, <2>6 DEF NestsApart
<1>8. CASE n = 1
  <2>1. Pointer = {} /\ fstack[1].pc = "parse"
    BY <1>5, <1>6, <1>8 DEF KnownNests
  <2>2. modules[1] = 0
    <3>1. modules[1] \in Pointer \union {0}
      BY <1>3, CommandOK DEF Alone
    <3>2. QED
      BY <2>1, <3>1
  <2>3. modules'[1] = new
    <3>1. 1 \in 1 .. Len(prog.cmd) /\ modules \in [1 .. Len(prog.cmd) -> 0 .. Len(struct)]
      BY DEF Inv, TypeOK, Alone
    <3>2. QED
      BY <1>3, <1>5, <2>2, <3>1
  <2>4. table = {}
    BY <2>1 DEF Inv, TypeOK
  <2>5. Done' = {} /\ Pointer' = {new}
    BY <1>2, <1>5, <2>1 DEF Done
  <2>6. KnownHeap'
    BY <1>5, <2>3, <2>4, <2>5 DEF KnownHeap, KnownOnce, ImportsKnown, FirstImports, DoneKnown
  <2>7. QED
    BY <1>5, <1>7, <1>8, <2>6 DEF KnownInv, KnownNests
<1>9. CASE n # 1
  <2>1. fstack[1].pc = "wait" /\ fstack'[1] = fstack[1]
    BY <1>1, <1>3, <1>5, <1>9, CallersWait
  <2>2. modules[1] \in Pointer /\ content[modules[1]].path = FirstFile /\ Pointer # {}
    BY <1>2, <2>1, FirstParsed
  <2>3. modules'[1] = modules[1]
    BY <1>3, <1>5, <2>2 DEF Pointer
  <2>4. KnownHeap
    BY <1>2, <2>2 DEF KnownInv
  <2>5. \A q \in Done : ~Returned(q)
    BY <1>5 DEF Returned
  <2>6. KnownHeap'
    BY <1>2, <1>5, <2>2, <2>3, <2>4, <2>5, KnownHeapKept
  <2>7. PICK k : k = fstack[1].k
    OBVIOUS
  <2>8. CASE n # 2
    <3>1. fstack[2].pc = "wait" /\ fstack[2].module \in Pointer /\ fstack'[2] = fstack[2]
      <4>1. 2 \in 1 .. n /\ 2 # n
        BY <1>3, <1>9, <2>8
      <4>2. QED
        BY <1>1, <1>5, <4>1, CallersWait
    <3>2. NewestAt(fstack[2].module, k)
      BY <1>1, <1>3, <1>6, <1>9, <2>7, <3>1 DEF KnownNests
    <3>3. PICK q : q = fstack[2].module
      OBVIOUS
    <3>4. NewestAt(q, k)'
      BY <1>2, <1>3, <1>5, <2>2, <2>3, <2>7, <3>1, <3>2, <3>3, NewestKept
    <3>5. QED
      BY <1>5, <1>7, <1>9, <2>1, <2>6, <2>7, <3>1, <3>3, <3>4 DEF KnownInv, KnownNests
  <2>9. CASE n = 2
    <3>1. Working = {modules[1], 0}
      <4>1. fstack[2].module = 0
        BY <1>1, <1>3, <1>5, <2>9 DEF FrontHeap, FrontFrameFresh
      <4>2. \A j : j \in 1 .. 2 <=> j = 1 \/ j = 2
        OBVIOUS
      <4>3. QED
        BY <1>1, <1>3, <2>9, <4>1, <4>2 DEF Working
    <3>2. \A c \in Pointer : c # modules[1] => c \in Done
      BY <1>3, <3>1 DEF Done, Pointer
    <3>3. \A c \in 1 .. new - 1 : c \in Pointer
      BY <1>1 DEF Pointer
    <3>4. fstack[2].file # FirstFile /\ Registered(fstack[2].file) = {} /\ FTop.file = fstack[2].file
      BY <1>1, <1>3, <1>5, <1>6, <2>9 DEF KnownNests, NestsApart
    <3>5. ASSUME NEW c \in Pointer, c # modules[1], NEW i \in 1 .. Len(content[c].imports),
                 NEW x, x = content[c].imports[i]
          PROVE  x \in Pointer /\ content[x].path # fstack[2].file
      <4>1. x = modules[1] \/ Known(x)
        BY <2>4, <3>5 DEF KnownHeap, ImportsKnown
      <4>2. CASE x = modules[1]
        BY <2>2, <3>4, <4>2
      <4>3. CASE Known(x)
        <5>1. x \in Registered(content[x].path)
          BY <4>3 DEF Known, Registered
        <5>2. x \in Pointer
          BY <3>5, ContentOK
        <5>3. QED
          BY <3>4, <5>1, <5>2
      <4>4. QED
        BY <4>1, <4>2, <4>3
    <3>6. \A p \in Pointer : p < new
      BY <1>1, ContentOK DEF Pointer
    <3>7. ASSUME NEW c \in 1 .. new - 1, c # modules[1]
          PROVE  /\ c \in Done
                 /\ content'[c] = content[c]
                 /\ \A i \in 1 .. Len(content[c].imports) :
                      /\ content[c].imports[i] \in Pointer
                      /\ content[content[c].imports[i]].path # content'[new].path
                      /\ content[c].imports[i] < new
      BY <1>5, <3>2, <3>3, <3>4, <3>5, <3>6, <3>7
    <3>8. \A i \in 1 .. k - 1 : content[modules[1]].imports[i] < new
      <4>1. Len(content[modules[1]].imports) = k - 1
        BY <1>1, <1>3, <2>1, <2>7 DEF FrontGraph, FrameBound
      <4>2. QED
        BY <2>2, <3>6, <4>1, ContentOK
    <3>9. Newer(new)'
      <4>1. SUFFICES ASSUME NEW c \in 1 .. new - 1, c # modules[1]
                     PROVE  /\ c \in Done'
                            /\ \A i \in 1 .. Len(content'[c].imports) :
                                 /\ content'[content'[c].imports[i]].path # content'[new].path
                                 /\ content'[c].imports[i] < new
        BY <2>3 DEF Newer
      <4>2. c \in Done' /\ content'[c] = content[c]
        BY <1>2, <3>7, <4>1
      <4>3. ASSUME NEW i \in 1 .. Len(content[c].imports), NEW x, x = content[c].imports[i]
            PROVE  content'[x].path # content'[new].path /\ x < new
        BY <1>5, <3>7, <4>1, <4>3
      <4>4. QED
        BY <4>2, <4>3
    <3>10. NewestAt(new, k)'
      BY <1>5, <2>2, <2>3, <3>8, <3>9 DEF NewestAt
    <3>11. QED
      BY <1>5, <1>7, <1>9, <2>1, <2>6, <2>7, <2>9, <3>10 DEF KnownInv, KnownNests
  <2>10. QED
    BY <2>8, <2>9
<1>10. QED
  BY <1>8, <1>9

\* What an import step binds: the requested file's module.
LEMMA BindsRequested ==
  ASSUME Inv, HeapInv, GraphInv, FirstInv, Alone, KnownInv,
         ImportRegistered \/ ImportOpen \/ ImportReturn
  PROVE  /\ stage = "frontend" /\ fstack # <<>> /\ FTop.pc \in {"import", "wait"}
         /\ FTop.k <= Len(prog.imports[FTop.file]) /\ Requested \in File
         /\ struct[FTop.module] = FTop.module
         /\ \E m \in Pointer :
              /\ Bind(m) /\ content[m].path = Requested
              /\ \/ FTop.pc = "import" /\ [path |-> Requested, module |-> m] \in table
                 \/ FTop.pc = "import" /\ m = modules[1] /\ Registered(Requested) = {}
                 \/ FTop.pc = "wait" /\ m = current
<1>1. /\ stage = "frontend" /\ fstack # <<>> /\ FTop.pc \in {"import", "wait"}
      /\ FTop.k <= Len(prog.imports[FTop.file]) /\ Requested \in File
  BY ImportCases
<1>2. PICK m \in Pointer :
        /\ Bind(m)
        /\ \/ FTop.pc = "import" /\ m \in Registered(Requested)
           \/ /\ FTop.pc = "import" /\ Registered(Requested) = {}
              /\ \E i \in 1 .. fileIndex : m = modules[i] /\ PathOf(m) = Requested
           \/ FTop.pc = "wait" /\ m = current
  BY ImportCases
<1>3. /\ fileIndex = 1 /\ declared = {} /\ FrontGraph /\ Graph
      /\ \A p \in Pointer : PathOf(p) = content[p].path
  BY <1>1, FrontState
<1>4. struct[FTop.module] = FTop.module
  BY <1>1, FrontModule
<1>5. CASE FTop.pc = "import" /\ m \in Registered(Requested)
  <2>1. PICK e \in table : e.path = Requested /\ e.module = m
    BY <1>5 DEF Registered
  <2>2. e = [path |-> Requested, module |-> m]
    BY <2>1 DEF Inv, TypeOK
  <2>3. content[m].path = Requested
    BY <1>3, <2>1 DEF Graph, TableBound, Bound
  <2>4. QED
    BY <1>1, <1>2, <1>4, <1>5, <2>2, <2>3
<1>6. CASE /\ FTop.pc = "import" /\ Registered(Requested) = {}
           /\ \E i \in 1 .. fileIndex : m = modules[i] /\ PathOf(m) = Requested
  <2>1. m = modules[1] /\ content[m].path = Requested
    <3>1. PICK i \in 1 .. fileIndex : m = modules[i] /\ PathOf(m) = Requested
      BY <1>6
    <3>2. i = 1
      BY <1>3
    <3>3. QED
      BY <1>3, <3>1, <3>2
  <2>2. QED
    BY <1>1, <1>2, <1>4, <1>6, <2>1
<1>7. CASE FTop.pc = "wait" /\ m = current
  BY <1>1, <1>2, <1>3, <1>4, <1>7 DEF FrontGraph
<1>8. QED
  BY <1>2, <1>5, <1>6, <1>7

\* One turn of the import loop of parse() keeps what is registered.
LEMMA ImportKnown ==
  ASSUME Inv, HeapInv, GraphInv, FirstInv, Alone, KnownInv,
         ImportRegistered \/ ImportOpen \/ ImportReturn
  PROVE  KnownInv'
<1>1. PICK n, c : n = Len(fstack) /\ c = FTop.module
  OBVIOUS
<1>2. PICK l : l = Len(content[c].imports)
  OBVIOUS
<1>3. /\ stage = "frontend" /\ fstack # <<>> /\ FTop.pc \in {"import", "wait"}
      /\ FTop.k <= Len(prog.imports[FTop.file]) /\ Requested \in File
      /\ struct[FTop.module] = FTop.module
  BY BindsRequested
<1>4. PICK m \in Pointer :
        /\ Bind(m) /\ content[m].path = Requested
        /\ \/ FTop.pc = "import" /\ [path |-> Requested, module |-> m] \in table
           \/ FTop.pc = "import" /\ m = modules[1] /\ Registered(Requested) = {}
           \/ FTop.pc = "wait" /\ m = current
  BY BindsRequested
<1>5. /\ n \in Nat \ {0} /\ n \in 1 .. n /\ FTop = fstack[n]
      /\ c \in Pointer /\ l \in Nat /\ Pointer' = Pointer
      /\ \A p \in Pointer : content'[p].path = content[p].path
      /\ \A p \in Pointer : p # c => content'[p] = content[p]
      /\ Len(content'[c].imports) = l + 1 /\ content'[c].imports[l + 1] = m
      /\ \A i \in 1 .. l : content'[c].imports[i] = content[c].imports[i]
      /\ current' = m
      /\ table' = IF Registered(FTop.file) = {}
                  THEN table \union {[path |-> Requested, module |-> m]} ELSE table
      /\ Len(fstack') = n /\ FTop' = fstack'[n]
      /\ fstack'[n].pc = "import" /\ fstack'[n].module = c
      /\ fstack'[n].k = FTop.k + 1 /\ fstack'[n].file = FTop.file
      /\ \A j \in 1 .. n : j # n => fstack'[j] = fstack[j]
      /\ UNCHANGED <<prog, stage, modules>>
  <2>1. Bind(m)
    BY <1>4
  <2>2. /\ n \in Nat \ {0} /\ n \in 1 .. n /\ FTop = fstack[n] /\ Pointer' = Pointer
        /\ current' = m
        /\ table' = IF Registered(FTop.file) = {}
                    THEN table \union {[path |-> Requested, module |-> m]} ELSE table
        /\ UNCHANGED <<prog, stage, modules>>
    BY <1>1, <1>2, <1>3, <2>1, BindEffect
  <2>3. /\ c \in Pointer /\ l \in Nat
        /\ \A p \in Pointer : content'[p].path = content[p].path
        /\ \A p \in Pointer : p # c => content'[p] = content[p]
        /\ Len(content'[c].imports) = l + 1 /\ content'[c].imports[l + 1] = m
        /\ \A i \in 1 .. l : content'[c].imports[i] = content[c].imports[i]
    BY <1>1, <1>2, <1>3, <2>1, BindEffect, SMTT(40)
  <2>4. /\ Len(fstack') = n /\ FTop' = fstack'[n]
        /\ fstack'[n].pc = "import" /\ fstack'[n].module = c
        /\ fstack'[n].k = FTop.k + 1 /\ fstack'[n].file = FTop.file
        /\ \A j \in 1 .. n : j # n => fstack'[j] = fstack[j]
    BY <1>1, <1>2, <1>3, <2>1, BindEffect
  <2>5. QED
    BY <2>2, <2>3, <2>4
<1>6. /\ fileIndex = 1 /\ FrontHeap /\ FrontGraph /\ 1 \in 1 .. n
      /\ fstack[1].module = modules[1] /\ fstack[1].file = FirstFile
      /\ fstack[1].k \in Nat
  BY <1>1, <1>3, FrontState, FramesOK
<1>7. Done' = Done /\ \A s \in Done : s \in Pointer /\ content'[s] = content[s]
  BY DoneKept
<1>8. fstack[1].pc # "parse"
  <2>1. n # 1 => fstack[1].pc = "wait"
    BY <1>1, <1>6, CallersWait
  <2>2. QED
    BY <1>3, <1>5, <2>1
<1>9. /\ modules[1] \in Pointer /\ content[modules[1]].path = FirstFile /\ Pointer # {}
      /\ KnownNests /\ KnownHeap
  BY <1>3, <1>8, FirstParsed DEF KnownInv
<1>10. c # modules[1] => n > 1
  BY <1>1, <1>5, <1>6
<1>11. n > 1 => c # modules[1] /\ Registered(FTop.file) = {}
  <2>1. n > 1 => fstack[1].module # fstack[n].module
    BY <1>1, <1>3, <1>5, <1>6, <1>8 DEF FrontGraph, FramesApart
  <2>2. n > 1 => n \in 2 .. n
    BY <1>5
  <2>3. QED
    BY <1>1, <1>5, <1>6, <1>9, <2>1, <2>2 DEF KnownNests, NestsApart
<1>12. table \subseteq table' /\ \A e \in table' : e \in table \/ e = [path |-> Requested, module |-> m]
  BY <1>5
<1>13. n > 1 => Known(m)'
  BY <1>4, <1>5, <1>11 DEF Known
<1>14. \A q \in Pointer : Known(q) => Known(q)'
  BY <1>5, <1>12 DEF Known
<1>15. \A p \in Pointer : \A i \in 1 .. Len(content'[p].imports) :
         \/ i \in 1 .. Len(content[p].imports) /\ content'[p].imports[i] = content[p].imports[i]
         \/ p = c /\ i = l + 1 /\ content'[p].imports[i] = m
  <2>1. SUFFICES ASSUME NEW p \in Pointer, NEW i \in 1 .. Len(content'[p].imports)
                 PROVE  \/ i \in 1 .. Len(content[p].imports) /\ content'[p].imports[i] = content[p].imports[i]
                        \/ p = c /\ i = l + 1 /\ content'[p].imports[i] = m
    OBVIOUS
  <2>2. CASE p # c
    BY <1>5, <2>1, <2>2
  <2>3. CASE p = c
    <3>1. i \in 1 .. l \/ i = l + 1
      BY <1>5, <2>1, <2>3
    <3>2. QED
      BY <1>2, <1>5, <2>3, <3>1
  <2>4. QED
    BY <2>2, <2>3
<1>16. \A p \in Pointer : \A i \in 1 .. Len(content[p].imports) :
         i \in 1 .. Len(content'[p].imports) /\ content'[p].imports[i] = content[p].imports[i]
  <2>1. SUFFICES ASSUME NEW p \in Pointer, NEW i \in 1 .. Len(content[p].imports)
                 PROVE  i \in 1 .. Len(content'[p].imports) /\ content'[p].imports[i] = content[p].imports[i]
    OBVIOUS
  <2>2. CASE p # c
    BY <1>5, <2>1, <2>2
  <2>3. CASE p = c
    <3>1. i \in 1 .. l /\ i \in 1 .. l + 1
      BY <1>2, <1>5, <2>1, <2>3
    <3>2. QED
      BY <1>5, <2>3, <3>1
  <2>4. QED
    BY <2>2, <2>3
<1>17. ASSUME NEW q \in Pointer, NEW k \in Nat, NewestAt(q, k),
              k - 1 <= Len(content[modules[1]].imports)
       PROVE  NewestAt(q, k)'
  <2>1. \A i \in 1 .. k - 1 : content'[modules[1]].imports[i] = content[modules[1]].imports[i]
    <3>1. \A i \in 1 .. k - 1 : i \in 1 .. Len(content[modules[1]].imports)
      BY <1>9, <1>17, ContentOK
    <3>2. QED
      BY <1>9, <1>16, <3>1
  <2>2. QED
    BY <1>5, <1>7, <1>9, <1>17, <2>1, NewestKept
<1>18. KnownNests'
  <2>1. NestsApart'
    <3>1. \A j \in 1 .. n : fstack'[j].file = fstack[j].file
      BY <1>5
    <3>2. \A i, j \in 1 .. n : i # j => fstack'[i].file # fstack'[j].file
      BY <1>1, <1>9, <3>1 DEF KnownNests, NestsApart
    <3>3. ASSUME NEW j \in 2 .. n, NEW f, f = fstack[j].file
          PROVE  Registered(f)' = {}
      <4>1. j \in 1 .. n /\ j # 1
        BY <1>5, <3>3
      <4>2. Registered(f) = {}
        BY <1>1, <1>9, <3>3 DEF KnownNests, NestsApart
      <4>3. f # Requested \/ table' = table
        <5>1. CASE FTop.pc = "import" /\ [path |-> Requested, module |-> m] \in table
          BY <1>5, <5>1
        <5>2. CASE FTop.pc = "import" /\ m = modules[1] /\ Registered(Requested) = {}
          <6>1. fstack[1].file # fstack[j].file
            BY <1>1, <1>6, <1>9, <4>1 DEF KnownNests, NestsApart
          <6>2. QED
            BY <1>4, <1>6, <1>9, <3>3, <5>2, <6>1
        <5>3. CASE FTop.pc = "wait"
          <6>1. fstack[j].file # Requested
            BY <1>1, <1>9, <4>1, <5>3 DEF KnownNests, NestsApart
          <6>2. QED
            BY <3>3, <6>1
        <5>4. QED
          BY <1>4, <5>1, <5>2, <5>3
      <4>4. QED
        BY <1>12, <4>2, <4>3 DEF Registered
    <3>4. ASSUME NEW j \in 2 .. n, NEW f, f = fstack'[j].file
          PROVE  Registered(f)' = {}
      <4>1. j \in 1 .. n
        BY <3>4
      <4>2. QED
        BY <3>1, <3>3, <3>4, <4>1
    <3>5. QED
      BY <1>5, <3>2, <3>4 DEF NestsApart
  <2>2. fstack'[1].pc # "parse"
    BY <1>5, <1>6, <1>8
  <2>3. ASSUME n > 1, fstack'[2].pc # "parse", NEW q, NEW k, q = fstack'[2].module, k = fstack'[1].k
        PROVE  NewestAt(q, k)'
    <3>1. 2 \in 1 .. n /\ 1 # n /\ 2 \in 1 .. Len(fstack)
      BY <1>1, <1>5, <2>3
    <3>2. k = fstack[1].k /\ q = fstack[2].module /\ fstack[2].pc # "parse"
      BY <1>1, <1>3, <1>5, <1>6, <2>3, <3>1
    <3>3. q \in Pointer
      BY <3>1, <3>2, FramesOK
    <3>4. NewestAt(q, k)
      BY <1>1, <1>9, <2>3, <3>2 DEF KnownNests
    <3>5. k - 1 <= Len(content[modules[1]].imports)
      <4>1. Len(content[modules[1]].imports) = k - 1
        BY <1>1, <1>6, <1>8, <3>2 DEF FrontGraph, FrameBound
      <4>2. QED
        BY <1>9, <4>1, ContentOK
    <3>6. QED
      BY <1>6, <1>17, <3>2, <3>3, <3>4, <3>5
  <2>4. QED
    BY <1>5, <2>1, <2>2, <2>3 DEF KnownNests
<1>19. KnownOnce'
  <2>1. Registered(Requested) = {} \/ table' = table
    <3>1. CASE FTop.pc = "import" /\ [path |-> Requested, module |-> m] \in table
      BY <1>5, <3>1
    <3>2. CASE FTop.pc = "import" /\ m = modules[1] /\ Registered(Requested) = {}
      BY <3>2
    <3>3. CASE FTop.pc = "wait"
      BY <1>9, <3>3 DEF KnownNests, NestsApart
    <3>4. QED
      BY <1>4, <3>1, <3>2, <3>3
  <2>2. Registered(Requested) = {} => \A e \in table : e.path # Requested
    BY DEF Registered
  <2>3. \A e, d \in table : e.path = d.path => e = d
    BY <1>9 DEF KnownHeap, KnownOnce
  <2>4. QED
    BY <1>12, <2>1, <2>2, <2>3 DEF KnownOnce
<1>20. ImportsKnown'
  <2>1. SUFFICES ASSUME NEW p \in Pointer, p # modules[1], NEW i \in 1 .. Len(content'[p].imports),
                        NEW q, q = content'[p].imports[i]
                 PROVE  q = modules[1] \/ Known(q)'
    BY <1>5 DEF ImportsKnown
  <2>2. CASE i \in 1 .. Len(content[p].imports) /\ q = content[p].imports[i]
    <3>1. q \in Pointer /\ (q = modules[1] \/ Known(q))
      BY <1>9, <2>1, <2>2, ContentOK DEF KnownHeap, ImportsKnown
    <3>2. QED
      BY <1>14, <3>1
  <2>3. CASE p = c /\ q = m
    BY <1>10, <1>13, <2>1, <2>3
  <2>4. QED
    BY <1>15, <2>1, <2>2, <2>3
<1>21. FirstImports'
  <2>1. SUFFICES ASSUME NEW i \in 1 .. Len(content'[modules[1]].imports),
                        NEW q, q = content'[modules[1]].imports[i]
                 PROVE  q = modules[1] \/ Known(q)' \/ NewestAt(q, i)'
    BY <1>5 DEF FirstImports, FirstImport
  <2>2. CASE i \in 1 .. Len(content[modules[1]].imports) /\ q = content[modules[1]].imports[i]
    <3>1. /\ q \in Pointer /\ i \in Nat
          /\ q = modules[1] \/ Known(q) \/ NewestAt(q, i)
          /\ i - 1 <= Len(content[modules[1]].imports)
      BY <1>9, <2>2, ContentOK DEF KnownHeap, FirstImports, FirstImport
    <3>2. QED
      BY <1>14, <1>17, <3>1
  <2>3. CASE modules[1] = c /\ i = l + 1 /\ q = m
    <3>1. n = 1
      BY <1>5, <1>11, <2>3
    <3>2. CASE FTop.pc = "import" /\ [path |-> Requested, module |-> m] \in table
      <4>1. Known(m)
        BY <1>4, <3>2 DEF Known
      <4>2. QED
        BY <1>14, <2>3, <4>1
    <3>3. CASE FTop.pc = "import" /\ m = modules[1] /\ Registered(Requested) = {}
      BY <2>3, <3>3
    <3>4. CASE FTop.pc = "wait" /\ m = current
      <4>1. PICK k : k = fstack[1].k
        OBVIOUS
      <4>2. NewestAt(m, k)
        BY <1>1, <1>9, <3>1, <3>4, <4>1 DEF KnownNests
      <4>3. k \in Nat /\ k = l + 1 /\ k - 1 <= Len(content[modules[1]].imports)
        <5>1. Len(content[modules[1]].imports) = k - 1
          BY <1>1, <1>6, <1>8, <4>1 DEF FrontGraph, FrameBound
        <5>2. QED
          BY <1>2, <1>5, <1>6, <2>3, <4>1, <5>1
      <4>4. NewestAt(m, k)'
        BY <1>17, <4>2, <4>3
      <4>5. QED
        BY <2>3, <4>3, <4>4
    <3>5. QED
      BY <1>4, <3>2, <3>3, <3>4
  <2>4. QED
    BY <1>9, <1>15, <2>1, <2>2, <2>3
<1>22. DoneKnown'
  <2>1. SUFFICES ASSUME NEW q \in Done PROVE Known(q)' \/ ImportedFirst(q)'
    BY <1>7 DEF DoneKnown
  <2>2. q \in Pointer /\ (Known(q) \/ Returned(q) \/ ImportedFirst(q))
    BY <1>7, <1>9 DEF KnownHeap, DoneKnown
  <2>3. CASE Known(q)
    BY <1>14, <2>2, <2>3
  <2>4. CASE ImportedFirst(q)
    <3>1. PICK i \in 1 .. Len(content[modules[1]].imports) : q = content[modules[1]].imports[i]
      BY <2>4 DEF ImportedFirst
    <3>2. i \in 1 .. Len(content'[modules[1]].imports) /\ q = content'[modules[1]].imports[i]
      BY <1>9, <1>16, <3>1
    <3>3. QED
      BY <1>5, <3>2 DEF ImportedFirst
  <2>5. CASE Returned(q)
    <3>1. FTop.pc = "wait" /\ q = m
      BY <1>4, <2>5 DEF Returned
    <3>2. CASE n > 1
      BY <1>13, <3>1, <3>2
    <3>3. CASE n = 1
      <4>1. c = modules[1]
        BY <1>1, <1>5, <1>6, <3>3
      <4>2. l + 1 \in 1 .. Len(content'[modules[1]].imports) /\ q = content'[modules[1]].imports[l + 1]
        BY <1>5, <3>1, <4>1
      <4>3. QED
        BY <1>5, <4>2 DEF ImportedFirst
    <3>4. QED
      BY <1>5, <3>2, <3>3
  <2>6. QED
    BY <2>2, <2>3, <2>4, <2>5
<1>23. QED
  BY <1>18, <1>19, <1>20, <1>21, <1>22 DEF KnownInv, KnownHeap

\* A frontend() that is called or has parsed its file keeps what is registered.
LEMMA ImportFileKnown ==
  ASSUME Inv, HeapInv, GraphInv, FirstInv, Alone, RootCyclesOnly, KnownInv, ImportFile
  PROVE  KnownInv'
<1>1. PICK n : n = Len(fstack)
  OBVIOUS
<1>2. /\ stage = "frontend" /\ n \in Nat \ {0} /\ n \in 1 .. n /\ FTop = fstack[n]
      /\ FTop.pc = "import" /\ Registered(Requested) = {}
      /\ n + 1 \in Nat /\ n + 1 # n
      /\ Len(fstack') = n + 1 /\ FTop' = fstack'[n + 1]
      /\ fstack'[n + 1].pc = "parse" /\ fstack'[n + 1].file = Requested
      /\ fstack'[n].pc = "wait" /\ fstack'[n].module = FTop.module
      /\ fstack'[n].k = FTop.k /\ fstack'[n].file = FTop.file
      /\ \A j \in 1 .. n : j # n => fstack'[j] = fstack[j]
      /\ UNCHANGED <<prog, stage, modules, struct, content, table>>
  BY <1>1, ImportFileEffect
<1>3. NeedsFrontend
  BY DEF ImportFile
<1>4. /\ \A i \in 1 .. n : Called(i) = fstack[i].file
      /\ Called(n + 1) = Requested
  BY <1>1, <1>3, CallChain
<1>5. \A i \in 1 .. n + 1 : i \in 1 .. n \/ i = n + 1
  BY <1>2
<1>6. \A i \in 1 .. n + 1 : fstack'[i].file = Called(i)
  BY <1>2, <1>4, <1>5
<1>7. \A i, j \in 1 .. n + 1 : i # j => Called(i) # Called(j)
  <2>1. \A i, j \in 1 .. n + 1 : i < j => Called(i) # Called(j)
    BY <1>1, <1>3, RepeatOnCycle DEF RootCyclesOnly
  <2>2. \A i, j \in 1 .. n + 1 : i # j => i < j \/ j < i
    BY <1>2
  <2>3. QED
    BY <2>1, <2>2
<1>8. fstack[1].pc # "parse"
  <2>1. n # 1 => fstack[1].pc = "wait"
    BY <1>1, <1>2, CallersWait
  <2>2. QED
    BY <1>2, <2>1
<1>9. modules[1] \in Pointer /\ Pointer # {} /\ KnownNests /\ KnownHeap /\ Pointer' = Pointer
  BY <1>2, <1>8, FirstParsed DEF KnownInv, Pointer
<1>10. NestsApart'
  <2>1. \A i, j \in 1 .. n + 1 : i # j => fstack'[i].file # fstack'[j].file
    BY <1>6, <1>7
  <2>2. ASSUME NEW j \in 2 .. n + 1, NEW f, f = fstack'[j].file
        PROVE  Registered(f)' = {}
    <3>1. Registered(f)' = Registered(f)
      BY <1>2 DEF Registered
    <3>2. j \in 2 .. n \/ j = n + 1
      BY <1>2, <2>2
    <3>3. CASE j \in 2 .. n
      <4>1. j \in 1 .. n /\ j \in 1 .. n + 1 /\ f = fstack[j].file
        BY <1>2, <1>4, <1>6, <2>2, <3>3
      <4>2. QED
        BY <1>1, <1>9, <3>1, <3>3, <4>1 DEF KnownNests, NestsApart
    <3>4. CASE j = n + 1
      BY <1>2, <2>2, <3>1, <3>4
    <3>5. QED
      BY <3>2, <3>3, <3>4
  <2>3. QED
    BY <1>2, <2>1, <2>2 DEF NestsApart
<1>11. Done' = Done
  BY DoneKept
<1>12. KnownHeap'
  BY <1>2, <1>9, <1>11, KnownHeapKept DEF Returned
<1>13. fstack'[1].pc # "parse"
  BY <1>2, <1>8
<1>14. n + 1 # 1
  BY <1>2
<1>15. ASSUME fstack'[2].pc # "parse", NEW q, NEW k, q = fstack'[2].module, k = fstack'[1].k
       PROVE  NewestAt(q, k)'
  <2>1. n > 1 /\ 2 \in 1 .. n /\ 1 \in 1 .. n /\ 1 # n
    BY <1>2, <1>15
  <2>2. q = fstack[2].module /\ k = fstack[1].k /\ fstack[2].pc # "parse"
    <3>1. fstack'[1] = fstack[1]
      BY <1>2, <2>1
    <3>2. CASE n = 2
      BY <1>2, <1>15, <3>1, <3>2
    <3>3. CASE n # 2
      BY <1>2, <1>15, <2>1, <3>1, <3>3
    <3>4. QED
      BY <3>2, <3>3
  <2>3. q \in Pointer /\ k \in Nat /\ NewestAt(q, k)
    BY <1>1, <1>9, <2>1, <2>2, FramesOK DEF KnownNests
  <2>4. QED
    BY <1>2, <1>9, <1>11, <2>3, NewestKept
<1>16. QED
  BY <1>2, <1>10, <1>12, <1>13, <1>14, <1>15 DEF KnownInv, KnownNests

\* The end of parse() keeps what is registered.
LEMMA ParseEndKnown ==
  ASSUME Inv, HeapInv, GraphInv, FirstInv, Alone, KnownInv, ParseEnd
  PROVE  KnownInv'
<1>1. PICK n : n = Len(fstack)
  OBVIOUS
<1>2. /\ stage = "frontend" /\ n \in Nat \ {0} /\ n \in 1 .. n /\ FTop = fstack[n]
      /\ FTop.pc = "import"
      /\ Len(fstack') = n /\ FTop' = fstack'[n]
      /\ fstack'[n].pc = "check" /\ fstack'[n].module = FTop.module
      /\ fstack'[n].k = FTop.k /\ fstack'[n].file = FTop.file
      /\ \A j \in 1 .. n : j # n => fstack'[j] = fstack[j]
      /\ UNCHANGED <<prog, stage, modules, struct, content, table>>
  BY <1>1, ParseEndEffect
<1>3. fstack[1].pc # "parse"
  <2>1. n # 1 => fstack[1].pc = "wait"
    BY <1>1, <1>2, CallersWait
  <2>2. QED
    BY <1>2, <2>1
<1>4. modules[1] \in Pointer /\ Pointer # {} /\ KnownNests /\ KnownHeap /\ Pointer' = Pointer
  BY <1>2, <1>3, FirstParsed DEF KnownInv, Pointer
<1>5. \A j \in 1 .. n : fstack'[j].file = fstack[j].file /\ fstack'[j].module = fstack[j].module
                        /\ fstack'[j].k = fstack[j].k
                        /\ (fstack'[j].pc = "parse" => fstack[j].pc = "parse")
                        /\ (fstack[j].pc = "parse" => fstack'[j].pc = "parse")
  BY <1>2
<1>6. NestsApart'
  <2>1. \A i, j \in 1 .. n : i # j => fstack'[i].file # fstack'[j].file
    BY <1>1, <1>4, <1>5 DEF KnownNests, NestsApart
  <2>2. ASSUME NEW j \in 2 .. n, NEW f, f = fstack'[j].file
        PROVE  Registered(f)' = {}
    <3>1. j \in 1 .. n
      BY <2>2
    <3>2. Registered(f)' = Registered(f) /\ f = fstack[j].file
      BY <1>2, <1>5, <2>2, <3>1 DEF Registered
    <3>3. QED
      BY <1>1, <1>4, <2>2, <3>2 DEF KnownNests, NestsApart
  <2>3. QED
    BY <1>2, <2>1, <2>2 DEF NestsApart
<1>7. Done' = Done
  BY DoneKept
<1>8. KnownHeap'
  BY <1>2, <1>4, <1>7, KnownHeapKept DEF Returned
<1>9. fstack'[1].pc # "parse"
  BY <1>2, <1>3
<1>10. ASSUME n > 1, fstack'[2].pc # "parse", NEW q, NEW k, q = fstack'[2].module, k = fstack'[1].k
       PROVE  NewestAt(q, k)'
  <2>1. 2 \in 1 .. n /\ 1 \in 1 .. n
    BY <1>2, <1>10
  <2>2. q = fstack[2].module /\ k = fstack[1].k /\ fstack[2].pc # "parse"
    BY <1>5, <1>10, <2>1
  <2>3. q \in Pointer /\ k \in Nat /\ NewestAt(q, k)
    BY <1>1, <1>4, <1>10, <2>1, <2>2, FramesOK DEF KnownNests
  <2>4. QED
    BY <1>2, <1>4, <1>7, <2>3, NewestKept
<1>11. QED
  BY <1>2, <1>6, <1>8, <1>9, <1>10 DEF KnownInv, KnownNests

\* A module that is checked returns to a frontend() that asked for its file, which is
\* not registered yet.
LEMMA TypeCheckKnown ==
  ASSUME Inv, HeapInv, GraphInv, FirstInv, Alone, KnownInv, TypeCheck
  PROVE  KnownInv'
<1>1. PICK n : n = Len(fstack)
  OBVIOUS
<1>2. /\ stage = "frontend" /\ n \in Nat \ {0} /\ n \in 1 .. n /\ FTop = fstack[n]
      /\ FTop.pc = "check"
      /\ \A p \in Pointer : /\ content'[p].path = content[p].path
                            /\ content'[p].imports = content[p].imports
      /\ Pointer' = Pointer
      /\ n = 1 => stage' = "backend"
      /\ n # 1 => /\ n - 1 \in Nat \ {0} /\ n - 1 \in 1 .. n /\ n - 1 # n
                  /\ n = n - 1 + 1
                  /\ Len(fstack') = n - 1
                  /\ FTop' = fstack'[n - 1] /\ fstack'[n - 1].pc = "wait"
                  /\ \A j \in 1 .. n - 1 : /\ fstack'[j] = fstack[j]
                                           /\ j \in 1 .. n /\ j # n
                  /\ UNCHANGED stage
      /\ UNCHANGED <<prog, modules, current, table>>
  BY <1>1, TypeCheckEffect
<1>3. /\ current = FTop.module /\ current \in Pointer
      /\ Done' = IF n = 1 THEN Done ELSE Done \union {current}
      /\ \A p \in Pointer : p # current => content'[p] = content[p]
  BY <1>1, DoneChecked
<1>4. fstack[1].pc # "parse"
  <2>1. n # 1 => 1 \in 1 .. n /\ fstack[1].pc = "wait"
    BY <1>1, <1>2, CallersWait
  <2>2. QED
    BY <1>2, <2>1
<1>5. modules[1] \in Pointer /\ Pointer # {} /\ KnownNests /\ KnownHeap
  BY <1>2, <1>4, FirstParsed DEF KnownInv
<1>6. KnownHeap'
  <2>1. \A q \in Done : ~Returned(q)
    BY <1>2 DEF Returned
  <2>2. \A q \in Done' : q \notin Done => Returned(q)'
    BY <1>2, <1>3 DEF Returned
  <2>3. Done \subseteq Done'
    BY <1>3
  <2>4. QED
    BY <1>2, <1>5, <2>1, <2>2, <2>3, KnownHeapKept
<1>7. CASE n = 1
  BY <1>2, <1>6, <1>7 DEF KnownInv
<1>8. CASE n # 1
  <2>1. FrontGraph
    BY <1>2, FrontState
  <2>2. PICK req : req = fstack[n].file
    OBVIOUS
  <2>3. Requested' = req
    <3>1. fstack[n].file = prog.imports[fstack[n - 1].file][fstack[n - 1].k]
      BY <1>1, <1>2, <1>8, <2>1 DEF FrontGraph, FramesChained
    <3>2. fstack'[n - 1] = fstack[n - 1]
      BY <1>2, <1>8
    <3>3. Requested' = prog.imports[fstack'[n - 1].file][fstack'[n - 1].k]
      BY <1>2, <1>8 DEF Requested
    <3>4. QED
      BY <2>2, <3>1, <3>2, <3>3
  <2>4. \A f : Registered(f)' = Registered(f)
    BY <1>2 DEF Registered
  <2>5. \A i, j \in 1 .. n : i # j => fstack[i].file # fstack[j].file
    BY <1>1, <1>5 DEF KnownNests, NestsApart
  <2>6. \A j \in 2 .. n : Registered(fstack[j].file) = {}
    BY <1>1, <1>5 DEF KnownNests, NestsApart
  <2>7. n \in 2 .. n
    BY <1>2, <1>8
  <2>8. NestsApart'
    <3>1. \A i, j \in 1 .. n - 1 : i # j => fstack'[i].file # fstack'[j].file
      BY <1>2, <1>8, <2>5
    <3>2. ASSUME NEW j \in 2 .. n - 1, NEW f, f = fstack'[j].file
          PROVE  Registered(f)' = {}
      <4>1. j \in 1 .. n - 1 /\ j \in 2 .. n
        BY <1>2, <1>8, <3>2
      <4>2. f = fstack[j].file
        BY <1>2, <1>8, <3>2, <4>1
      <4>3. QED
        BY <2>4, <2>6, <4>1, <4>2
    <3>3. Registered(req)' = {}
      BY <2>2, <2>4, <2>6, <2>7
    <3>4. \A j \in 1 .. n - 1 : fstack'[j].file # req
      BY <1>2, <1>8, <2>2, <2>5
    <3>5. Registered(Requested)' = {}
      BY <2>3, <3>3 DEF Registered
    <3>6. QED
      BY <1>2, <1>8, <2>3, <3>1, <3>2, <3>4, <3>5 DEF NestsApart
  <2>9. 1 \in 1 .. n - 1 /\ fstack'[1] = fstack[1] /\ fstack'[1].pc # "parse"
    BY <1>2, <1>4, <1>8
  <2>10. PICK k : k = fstack[1].k
    OBVIOUS
  <2>11. k \in Nat
    BY <1>1, <1>2, <2>9, <2>10, FramesOK
  <2>12. ASSUME NEW q \in Pointer, NewestAt(q, k)
         PROVE  NewestAt(q, k)'
    <3>1. Done \subseteq Done' /\ \A s \in Done : content'[s].imports = content[s].imports
      BY <1>2, <1>3 DEF Done
    <3>2. QED
      BY <1>2, <1>5, <2>11, <2>12, <3>1, NewestKept
  <2>13. CASE n = 2
    <3>1. NewestAt(current, k)
      BY <1>1, <1>2, <1>3, <1>5, <2>10, <2>13 DEF KnownNests
    <3>2. PICK q : q = current
      OBVIOUS
    <3>3. NewestAt(q, k)'
      BY <1>3, <2>12, <3>1, <3>2
    <3>4. n - 1 = 1
      BY <2>13
    <3>5. QED
      BY <1>2, <1>6, <1>8, <2>8, <2>9, <2>10, <3>2, <3>3, <3>4 DEF KnownInv, KnownNests
  <2>14. CASE n # 2
    <3>1. 2 \in 1 .. n - 1 /\ 2 \in 1 .. n /\ 2 # n /\ n - 1 # 1
      BY <1>2, <1>8, <2>14
    <3>2. fstack[2].pc = "wait" /\ fstack[2].module \in Pointer /\ fstack'[2] = fstack[2]
      BY <1>1, <1>2, <1>8, <3>1, CallersWait
    <3>3. PICK q : q = fstack[2].module
      OBVIOUS
    <3>4. NewestAt(q, k)
      BY <1>1, <1>5, <2>7, <2>10, <3>2, <3>3 DEF KnownNests
    <3>5. NewestAt(q, k)'
      BY <2>12, <3>2, <3>3, <3>4
    <3>6. QED
      BY <1>2, <1>6, <1>8, <2>8, <2>9, <2>10, <3>1, <3>2, <3>3, <3>5 DEF KnownInv, KnownNests
  <2>15. QED
    BY <2>13, <2>14
<1>9. QED
  BY <1>7, <1>8

\* Nothing outside the frontends changes what is registered.
LEMMA OutsideKnown ==
  ASSUME Inv, HeapInv, Alone, KnownInv, stage \in {"next", "backend", "output"}, fileIndex = 1,
         stage' \notin {"frontend", "done"},
         UNCHANGED <<fileIndex, modules, content, table, fstack>>, Pointer' = Pointer
  PROVE  KnownInv'
<1>1. modules[1] \in Pointer
  BY CommandOK DEF Inv, ModulesOK, Alone
<1>2. Done' = Done
  BY DEF Done, Roots, Working
<1>3. KnownHeap
  BY <1>1 DEF KnownInv
<1>4. \A q : ~Returned(q)
  BY DEF Returned
<1>5. KnownHeap'
  BY <1>1, <1>2, <1>3, <1>4, KnownHeapKept
<1>6. QED
  BY <1>5 DEF KnownInv

\* Every step keeps what is registered.
LEMMA NextKnown ==
  ASSUME Inv, HeapInv, GraphInv, FirstInv, Alone, RootCyclesOnly, KnownInv, [Next]_vars
  PROVE  KnownInv'
<1>1. CASE StartFile
  <2>1. /\ stage = "next" /\ stage' = "frontend" /\ fileIndex' = fileIndex + 1
        /\ fileIndex' \in 1 .. Len(prog.cmd) /\ UNCHANGED struct
        /\ Len(fstack') = 1 /\ FTop' = fstack'[1] /\ fstack'[1].pc = "parse"
    BY <1>1, StartFileEffect
  <2>2. Pointer = {}
    BY <2>1, CommandOK DEF Alone, GraphInv
  <2>3. Pointer' = {}
    BY <2>1, <2>2 DEF Pointer
  <2>4. NestsApart'
    <3>1. \A i, j \in 1 .. 1 : i = j
      OBVIOUS
    <3>2. 2 .. 1 = {}
      OBVIOUS
    <3>3. QED
      BY <2>1, <3>1, <3>2 DEF NestsApart
  <2>5. QED
    BY <2>1, <2>3, <2>4 DEF KnownInv, KnownNests
<1>2. CASE ParseFile
  BY <1>2, ParseFileKnown
<1>3. CASE ImportRegistered \/ ImportOpen \/ ImportReturn
  BY <1>3, ImportKnown
<1>4. CASE ImportFile
  BY <1>4, ImportFileKnown
<1>5. CASE ParseEnd
  BY <1>5, ParseEndKnown
<1>6. CASE TypeCheck
  BY <1>6, TypeCheckKnown
<1>7. CASE \/ GenerateOutput \/ ParseFails \/ ImportOverflow \/ TypesOverflow \/ FunctionsOverflow
           \/ TypeCheckFails \/ DeclareFails
           \/ RedefinitionFails \/ GenerateCodeFails
  <2>1. stage' = "done"
    BY <1>7 DEF GenerateOutput, ParseFails, ImportOverflow, TypesOverflow, FunctionsOverflow, TypeCheckFails, DeclareFails,
         RedefinitionFails, GenerateCodeFails, Fails, EndWith, Ends
  <2>2. QED
    BY <2>1 DEF KnownInv
<1>8. CASE \/ BackendEnter \/ BackendSkip \/ BackendOriginal \/ BackendCall \/ BackendReturn
           \/ GenerateCode \/ FilesDone
  <2>1. /\ UNCHANGED <<fileIndex, modules, content, table, fstack>>
        /\ stage = "backend" \/ (stage = "next" /\ fileIndex = Len(prog.cmd))
        /\ stage' \in {"backend", "next", "output"}
    <3>1. CASE FilesDone
      BY <3>1 DEF FilesDone, frontVars, heapVars
    <3>2. CASE \/ BackendEnter \/ BackendSkip \/ BackendOriginal \/ BackendCall \/ BackendReturn
               \/ GenerateCode
      <4>1. UNCHANGED <<fileIndex, modules, content, table, fstack>>
        BY <3>2 DEF BackendEnter, BackendSkip, BackendOriginal, BackendCall, BackendReturn,
           GenerateCode, frontVars, heapVars
      <4>2. stage = "backend" /\ stage' \in {"backend", "next"}
        BY <3>2 DEF BackendEnter, BackendSkip, BackendOriginal, BackendCall, BackendReturn,
           GenerateCode, BackendPending, ImportsDone, BackAt
      <4>3. QED
        BY <4>1, <4>2
    <3>3. QED
      BY <1>8, <3>1, <3>2
  <2>2. Pointer' = Pointer
    <3>1. Len(struct') = Len(struct)
      BY <1>8, CopyBackOK DEF BackendEnter, BackendSkip, BackendOriginal, BackendCall,
         BackendReturn, GenerateCode, FilesDone, heapVars
    <3>2. QED
      BY <3>1 DEF Pointer
  <2>3. fileIndex = 1
    BY <2>1, CommandOK DEF Alone, HeapInv
  <2>4. QED
    BY <2>1, <2>2, <2>3, OutsideKnown
<1>9. CASE UNCHANGED vars
  <2>1. KnownNests' = KnownNests /\ KnownHeap' = KnownHeap /\ Pointer' = Pointer
        /\ UNCHANGED stage
    BY <1>9 DEF vars, KnownNests, NestsApart, NewestAt, Newer, Registered, Requested, Done, Roots,
         Working, Pointer, FTop, KnownHeap, KnownOnce, ImportsKnown, FirstImports, FirstImport,
         DoneKnown, Known, Returned, ImportedFirst
  <2>2. QED
    BY <2>1 DEF KnownInv
<1>10. QED
  BY <1>1, <1>2, <1>3, <1>4, <1>5, <1>6, <1>7, <1>8, <1>9
     DEF Next, Step, Frontend, Backend, Terminated

-----------------------------------------------------------------------------
(* No file is compiled twice *)

\* Listed, and it stays so when the current module is overwritten; that is of no
\* interest where only the backend() of the first file is left.
KeptListed(q) ==
  \E p \in codegen : /\ PathOf(p) = PathOf(q)
                     /\ p = q \/ p # current \/ Len(bstack) = 1

\* What the first file imports later is registered, or newer than q.
OlderThanRest(q) ==
  \A i \in bstack[1].k + 1 .. Len(content[modules[1]].imports) :
    LET r == content[modules[1]].imports[i] IN r = modules[1] \/ Known(r) \/ q < r

\* What a nested backend() works on has not been compiled; what it worked on last
\* has, and the first file had not imported that before.
VisitsOnce ==
  /\ \A j \in 2 .. Len(bstack) :
       /\ content[Visited(j)].path \notin Range(emitted)
       /\ struct[Visited(j)] = Visited(j)
       /\ OlderThanRest(Visited(j))
  /\ BTop.pc = "wait" =>
       /\ struct[NextImport] = NextImport
       /\ content[NextImport].path \in Range(emitted)
       /\ Len(bstack) > 1 => content[NextImport].path \notin Before(bstack[1].k)

\* Every module of a compiled file is listed, or will be next.
EmittedListed ==
  \A q \in Done : content[q].path \in Range(emitted) =>
    \/ BTop.pc = "wait" /\ content[q].path = content[NextImport].path
    \/ KeptListed(q)

OnceInv ==
  stage = "backend" => FirstFile \notin Range(emitted) /\ VisitsOnce /\ EmittedListed

\* Where the nested backends of the first file are.
LEMMA BackState ==
  ASSUME Inv, HeapInv, GraphInv, Alone, NeedInv, RootCyclesOnly, stage = "backend",
         NEW n, n = Len(bstack)
  PROVE  /\ fileIndex = 1 /\ n \in Nat \ {0} /\ n \in 1 .. n /\ BTop = bstack[n]
         /\ BackHeap /\ AllMatch /\ FirstOnce
         /\ modules[1] \in Pointer /\ content[modules[1]].path = FirstFile
         /\ Visited(1) = modules[1]
         /\ Done = Pointer \ {modules[1]}
         /\ \A j \in 2 .. n :
              /\ Visited(j) \in Done /\ j - 1 \in 1 .. n
              /\ bstack[j - 1].own = Visited(j - 1)
              /\ bstack[j - 1].k \in 1 .. Len(content[Visited(j - 1)].imports)
              /\ Visited(j) = content[Visited(j - 1)].imports[bstack[j - 1].k]
              /\ bstack[j].orig = modules[1]
         /\ \A i \in 1 .. Len(content[modules[1]].imports) :
              /\ content[modules[1]].imports[i] \in Done
              /\ content[content[modules[1]].imports[i]].path = prog.imports[FirstFile][i]
<1>1. fileIndex = 1
  BY CommandOK DEF HeapInv, Alone
<1>2. /\ n \in Nat \ {0} /\ n \in 1 .. n /\ BTop = bstack[n]
      /\ BackHeap /\ AllMatch /\ FirstOnce /\ Graph
  BY BTopOK DEF HeapInv, BackHeap, GraphInv, NeedInv
<1>3. modules[1] \in Pointer /\ content[modules[1]].path = FirstFile /\ Visited(1) = modules[1]
  <2>1. VisitOK(1) /\ content[Root].path = FirstFile
    BY <1>1, <1>2 DEF BackHeap, FirstFile
  <2>2. QED
    BY <1>1, <2>1 DEF VisitOK, Root
<1>4. Working = {}
  BY EmptySeq DEF Inv, StacksApart, Working
<1>5. Done = Pointer \ {modules[1]}
  <2>1. Roots = {modules[1]} \ {0}
    BY <1>1 DEF Roots
  <2>2. QED
    BY <1>3, <1>4, <2>1 DEF Done, Pointer
<1>6. ASSUME NEW i \in 1 .. Len(content[modules[1]].imports), NEW q, q = content[modules[1]].imports[i]
      PROVE  q \in Done /\ content[q].path = prog.imports[FirstFile][i]
  <2>1. q \in Pointer /\ content[q].path = prog.imports[FirstFile][i]
    BY <1>2, <1>3, <1>6, ContentOK DEF AllMatch
  <2>2. Len(content[modules[1]].imports) = Len(prog.imports[FirstFile])
    BY <1>2, <1>3, <1>4 DEF Graph, AllBound
  <2>3. prog.imports[FirstFile] \in Seq(File)
    BY <1>3, CommandOK, ContentOK
  <2>4. prog.imports[FirstFile][i] \in Range(prog.imports[FirstFile])
    BY <1>6, <2>2, <2>3 DEF Range
  <2>5. QED
    BY <1>3, <1>5, <2>1, <2>4 DEF RootCyclesOnly
<1>7. ASSUME NEW j \in 2 .. n
      PROVE  /\ Visited(j) \in Done /\ j - 1 \in 1 .. n
             /\ bstack[j - 1].own = Visited(j - 1)
             /\ bstack[j - 1].k \in 1 .. Len(content[Visited(j - 1)].imports)
             /\ Visited(j) = content[Visited(j - 1)].imports[bstack[j - 1].k]
             /\ bstack[j].orig = modules[1]
  <2>1. j - 1 \in 1 .. n /\ j - 1 # n /\ j \in 1 .. n /\ j # 1
    BY <1>2
  <2>2. PICK i, v, u : i = bstack[j - 1].k /\ v = Visited(j) /\ u = Visited(j - 1)
    OBVIOUS
  <2>3. /\ bstack[j - 1].pc = "wait" /\ i \in Nat \ {0}
        /\ i <= Len(content[bstack[j - 1].own].imports)
    BY <2>1, <2>2, BackFramesOK
  <2>4. u = bstack[j - 1].own
    BY <2>2, <2>3 DEF Visited
  <2>5. v = content[u].imports[i] /\ u \in Pointer /\ v \in Pointer /\ bstack[j].orig = modules[1]
        /\ (j > 2 => content[v].path # FirstFile)
    BY <1>1, <1>2, <2>1, <2>2, <2>4 DEF BackHeap, VisitOK, Root, FirstFile
  <2>6. i \in 1 .. Len(content[u].imports)
    <3>1. Len(content[u].imports) \in Nat
      BY <2>5, ContentOK
    <3>2. QED
      BY <2>3, <2>4, <3>1
  <2>7. v \in Done
    <3>1. CASE j = 2
      BY <1>3, <1>6, <2>2, <2>5, <2>6, <3>1
    <3>2. CASE j # 2
      BY <1>3, <1>5, <2>1, <2>5, <3>2
    <3>3. QED
      BY <3>1, <3>2
  <2>8. QED
    BY <2>1, <2>2, <2>4, <2>5, <2>6, <2>7
<1>8. QED
  BY <1>1, <1>2, <1>3, <1>5, <1>6, <1>7

\* An import that is not the first file's module is another one's.
LEMMA NextDone ==
  ASSUME Inv, HeapInv, GraphInv, Alone, NeedInv, RootCyclesOnly, stage = "backend",
         BTop.pc \in {"loop", "wait"}, BTop.k <= Len(BackendImports),
         NEW n, n = Len(bstack)
  PROVE  /\ BTop.own = Visited(n) /\ BTop.k \in 1 .. Len(content[Visited(n)].imports)
         /\ NextImport = content[Visited(n)].imports[BTop.k] /\ NextImport \in Pointer
         /\ n = 1 => NextImport \in Done
<1>1. /\ n \in 1 .. n /\ BTop = bstack[n] /\ n \in Nat \ {0}
      /\ Visited(1) = modules[1]
      /\ \A i \in 1 .. Len(content[modules[1]].imports) : content[modules[1]].imports[i] \in Done
  BY BackState
<1>2. BTop.own = Visited(n) /\ BTop.own \in Pointer /\ BTop.k \in Nat \ {0}
  BY <1>1, BackFramesOK DEF Visited
<1>3. BTop.k \in 1 .. Len(content[BTop.own].imports)
  BY <1>2, ContentOK DEF BackendImports
<1>4. NextImport = content[BTop.own].imports[BTop.k] /\ NextImport \in Pointer
  BY <1>2, <1>3, ContentOK DEF NextImport, BackendImports
<1>5. QED
  BY <1>1, <1>2, <1>3, <1>4

\* What the current module imports is older than what the first file imports later.
LEMMA NextOlder ==
  ASSUME Inv, HeapInv, GraphInv, Alone, NeedInv, RootCyclesOnly, KnownHeap, stage = "backend",
         VisitsOnce, BTop.pc = "loop", BTop.k <= Len(BackendImports), NEW v \in Done, v = NextImport
  PROVE  OlderThanRest(v)
<1>1. PICK n : n = Len(bstack)
  OBVIOUS
<1>2. /\ n \in 1 .. n /\ BTop = bstack[n] /\ n \in Nat \ {0}
      /\ modules[1] \in Pointer /\ Visited(1) = modules[1] /\ Done = Pointer \ {modules[1]}
      /\ \A j \in 2 .. n : Visited(j) \in Done
  BY <1>1, BackState
<1>3. PICK u, k : u = Visited(n) /\ k = BTop.k
  OBVIOUS
<1>4. k \in 1 .. Len(content[u].imports) /\ v = content[u].imports[k]
  BY <1>1, <1>3, NextDone
<1>5. SUFFICES ASSUME NEW i \in bstack[1].k + 1 .. Len(content[modules[1]].imports),
                      NEW r, r = content[modules[1]].imports[i], r # modules[1], ~Known(r)
               PROVE  v < r
  BY DEF OlderThanRest
<1>6. 1 \in 1 .. n /\ bstack[1].k \in Nat \ {0}
  BY <1>1, <1>2, BackFramesOK
<1>7. i \in 1 .. Len(content[modules[1]].imports) /\ NewestAt(r, i)
  <2>1. i \in 1 .. Len(content[modules[1]].imports)
    BY <1>2, <1>5, <1>6, ContentOK
  <2>2. QED
    BY <1>5, <2>1 DEF KnownHeap, FirstImports, FirstImport
<1>8. CASE n = 1
  <2>1. k \in 1 .. i - 1 /\ u = modules[1]
    BY <1>2, <1>3, <1>4, <1>5, <1>6, <1>8
  <2>2. QED
    BY <1>2, <1>4, <1>7, <2>1 DEF NewestAt
<1>9. CASE n # 1
  <2>1. n \in 2 .. n /\ u \in Done
    BY <1>2, <1>3, <1>9
  <2>2. u < r
    BY <1>1, <1>3, <1>5, <2>1 DEF VisitsOnce, OlderThanRest
  <2>3. u \in 1 .. r - 1 /\ u # modules[1]
    <3>1. u \in Pointer /\ r \in Pointer
      BY <1>2, <1>5, <1>7, <2>1, ContentOK
    <3>2. QED
      BY <1>2, <2>1, <2>2, <3>1, ContentOK DEF Pointer
  <2>4. QED
    BY <1>2, <1>4, <1>7, <2>3 DEF NewestAt, Newer
<1>10. QED
  BY <1>8, <1>9

\* Neither of two modules of one file is known to nobody but the first file: the
\* second was bound before, or behind what is compiled now.
LEMMA ReturnedKnown ==
  ASSUME Inv, HeapInv, GraphInv, Alone, NeedInv, RootCyclesOnly, KnownHeap, stage = "backend",
         VisitsOnce, BTop.pc = "wait", Len(bstack) > 1,
         NEW w \in Done, content[w].path = content[NextImport].path
  PROVE  Known(w)
<1>1. PICK n : n = Len(bstack)
  OBVIOUS
<1>2. /\ n \in 1 .. n /\ BTop = bstack[n] /\ n \in Nat \ {0}
      /\ modules[1] \in Pointer /\ Visited(1) = modules[1] /\ Done = Pointer \ {modules[1]}
      /\ \A j \in 2 .. n :
           /\ Visited(j) \in Done /\ j - 1 \in 1 .. n
           /\ bstack[j - 1].k \in 1 .. Len(content[Visited(j - 1)].imports)
           /\ Visited(j) = content[Visited(j - 1)].imports[bstack[j - 1].k]
      /\ \A i \in 1 .. Len(content[modules[1]].imports) :
           content[content[modules[1]].imports[i]].path = prog.imports[FirstFile][i]
  BY <1>1, BackState
<1>3. PICK u, k, v, k1 : u = Visited(n) /\ k = BTop.k /\ v = NextImport /\ k1 = bstack[1].k
  OBVIOUS
<1>4. k \in 1 .. Len(content[u].imports) /\ v = content[u].imports[k] /\ v \in Pointer
  <2>1. BTop.k <= Len(BackendImports)
    BY <1>1, <1>2, BackFramesOK DEF BackendImports
  <2>2. QED
    BY <1>1, <1>3, <2>1, NextDone
<1>5. n \in 2 .. n /\ 2 \in 2 .. n /\ u \in Done
  BY <1>1, <1>2, <1>3
<1>6. k1 \in 1 .. Len(content[modules[1]].imports) /\ Visited(2) = content[modules[1]].imports[k1]
  <2>1. 2 - 1 = 1
    OBVIOUS
  <2>2. QED
    BY <1>2, <1>3, <1>5, <2>1
<1>7. SUFFICES ASSUME ~Known(w) PROVE FALSE
  OBVIOUS
<1>8. PICK i \in 1 .. Len(content[modules[1]].imports) : w = content[modules[1]].imports[i]
  BY <1>7 DEF KnownHeap, DoneKnown, Returned, ImportedFirst
<1>9. w # modules[1] /\ NewestAt(w, i) /\ content[w].path = prog.imports[FirstFile][i]
  BY <1>2, <1>7, <1>8 DEF KnownHeap, FirstImports, FirstImport
<1>10. i \in Nat /\ k1 \in Nat
  BY <1>6, <1>8
<1>11. CASE i < k1
  <2>1. i \in 1 .. k1 - 1
    BY <1>6, <1>8, <1>10, <1>11
  <2>2. content[w].path \in Before(k1)
    BY <1>9, <2>1 DEF Before
  <2>3. QED
    BY <1>3, <2>2 DEF VisitsOnce
<1>12. CASE i = k1
  BY <1>1, <1>5, <1>6, <1>8, <1>12 DEF VisitsOnce
<1>13. CASE i > k1
  <2>1. i \in k1 + 1 .. Len(content[modules[1]].imports)
    BY <1>6, <1>8, <1>10, <1>13
  <2>2. u < w
    BY <1>1, <1>3, <1>5, <1>7, <1>8, <1>9, <2>1 DEF VisitsOnce, OlderThanRest
  <2>3. u \in 1 .. w - 1 /\ u # modules[1]
    <3>1. u \in Pointer /\ w \in Pointer
      BY <1>2, <1>5
    <3>2. QED
      BY <1>2, <1>5, <2>2, <3>1, ContentOK DEF Pointer
  <2>4. content[v].path # content[w].path
    BY <1>4, <1>9, <2>3 DEF NewestAt, Newer
  <2>5. QED
    BY <1>3, <2>4
<1>14. QED
  BY <1>10, <1>11, <1>12, <1>13

\* The steps of a backend() that overwrite nothing compile no file twice.
LEMMA BackendOnce ==
  ASSUME PathsApart, Inv, HeapInv, GraphInv, Alone, NeedInv, RootCyclesOnly, KnownHeap, OnceInv,
         BackendEnter \/ BackendSkip \/ BackendOriginal \/ BackendCall \/ BackendReturn
  PROVE  OnceInv'
<1>1. PICK n : n = Len(bstack)
  OBVIOUS
<1>2. /\ UNCHANGED <<prog, struct, content, table, emitted, stage, fileIndex, modules, fstack>>
      /\ stage = "backend"
  BY DEF BackendEnter, BackendSkip, BackendOriginal, BackendCall, BackendReturn,
     heapVars, frontVars, BackendPending, BackAt
<1>3. /\ n \in Nat \ {0} /\ n \in 1 .. n /\ BTop = bstack[n] /\ BackHeap
      /\ modules[1] \in Pointer /\ content[modules[1]].path = FirstFile
      /\ Done = Pointer \ {modules[1]}
      /\ \A j \in 2 .. n : bstack[j].orig = modules[1]
      /\ bstack[1].orig = 0
  <2>1. /\ n \in Nat \ {0} /\ n \in 1 .. n /\ BTop = bstack[n] /\ BackHeap
        /\ modules[1] \in Pointer /\ content[modules[1]].path = FirstFile
        /\ Done = Pointer \ {modules[1]}
        /\ \A j \in 2 .. n : bstack[j].orig = modules[1]
    BY <1>1, <1>2, BackState
  <2>2. VisitOK(1)
    BY <1>1, <2>1 DEF BackHeap
  <2>3. QED
    BY <2>1, <2>2 DEF VisitOK
<1>4. FirstFile \notin Range(emitted) /\ VisitsOnce /\ EmittedListed
  BY <1>2 DEF OnceInv
<1>5. /\ Pointer' = Pointer /\ Done' = Done /\ FirstFile' = FirstFile
      /\ \A q : Known(q)' = Known(q)
      /\ \A p : PathOf(p)' = PathOf(p)
  BY <1>2 DEF Pointer, Done, Roots, Working, FirstFile, Known, PathOf
<1>6. \A l \in 1 .. n : l # n => bstack[l].pc = "wait"
  BY <1>1, BackFramesOK
<1>7. \A q : OlderThanRest(q) /\ bstack'[1].k = bstack[1].k => OlderThanRest(q)'
  BY <1>2, <1>5 DEF OlderThanRest
<1>8. CASE BackendEnter
  <2>1. /\ BTop.pc = "enter" /\ Len(bstack') = n /\ BTop' = bstack'[n] /\ bstack'[n].pc = "loop"
        /\ bstack'[n].own = struct[current] /\ bstack'[n].k = BTop.k
        /\ \A l \in 1 .. n : l # n => bstack'[l] = bstack[l]
        /\ UNCHANGED <<current, codegen>>
    BY <1>1, <1>8, BackendEnterEffect
  <2>2. struct[current] = current
    BY <1>3, <2>1 DEF BackHeap
  <2>3. \A l \in 1 .. n : Visited(l)' = Visited(l) /\ bstack'[l].k = bstack[l].k
    BY <1>3, <1>6, <2>1, <2>2 DEF Visited
  <2>4. 1 \in 1 .. n /\ \A l \in 2 .. n : l \in 1 .. n
    BY <1>3
  <2>5. VisitsOnce'
    <3>1. SUFFICES ASSUME NEW j \in 2 .. n, NEW v, v = Visited(j)
                   PROVE  /\ content[v].path \notin Range(emitted)
                          /\ struct[v] = v /\ OlderThanRest(v)'
      BY <1>2, <2>1, <2>3, <2>4 DEF VisitsOnce
    <3>2. content[v].path \notin Range(emitted) /\ struct[v] = v /\ OlderThanRest(v)
      BY <1>1, <1>4, <3>1 DEF VisitsOnce
    <3>3. QED
      BY <1>7, <2>3, <2>4, <3>2
  <2>6. EmittedListed'
    <3>1. SUFFICES ASSUME NEW q \in Done, content[q].path \in Range(emitted)
                   PROVE  KeptListed(q)'
      BY <1>2, <1>5 DEF EmittedListed
    <3>2. KeptListed(q)
      BY <1>4, <2>1, <3>1 DEF EmittedListed
    <3>3. QED
      BY <1>1, <1>5, <2>1, <3>2 DEF KeptListed
  <2>7. QED
    BY <1>2, <1>4, <1>5, <2>5, <2>6 DEF OnceInv
<1>9. CASE BackendSkip \/ BackendOriginal \/ BackendReturn
  <2>1. PICK v : v = NextImport
    OBVIOUS
  <2>2. /\ BTop.pc \in {"loop", "wait"} /\ Len(bstack') = n /\ BTop' = bstack'[n] /\ bstack'[n].pc = "loop"
        /\ bstack'[n].own = BTop.own /\ bstack'[n].k = BTop.k + 1
        /\ \A l \in 1 .. n : l # n => bstack'[l] = bstack[l]
        /\ v \in Pointer
        /\ \/ BTop.pc = "loop" /\ InList(v) /\ UNCHANGED <<current, codegen>>
           \/ /\ BTop.pc = "loop" /\ ~InList(v) /\ IsOriginal(v)
              /\ current' = v /\ UNCHANGED codegen
           \/ /\ BTop.pc = "wait" /\ codegen' = codegen \union {v}
              /\ UNCHANGED current
    BY <1>1, <1>9, <2>1, BackendNextEffect
  <2>3. \A l \in 1 .. n : Visited(l)' = Visited(l)
    BY <1>3, <1>6, <2>2 DEF Visited
  <2>4. n > 1 => bstack'[1] = bstack[1]
    BY <1>3, <2>2
  <2>5. \A l \in 2 .. n : l \in 1 .. n /\ n > 1
    BY <1>3
  <2>6. VisitsOnce'
    <3>1. SUFFICES ASSUME NEW j \in 2 .. n, NEW x, x = Visited(j)
                   PROVE  /\ content[x].path \notin Range(emitted)
                          /\ struct[x] = x /\ OlderThanRest(x)'
      BY <1>2, <2>2, <2>3, <2>5 DEF VisitsOnce
    <3>2. content[x].path \notin Range(emitted) /\ struct[x] = x /\ OlderThanRest(x)
      BY <1>1, <1>4, <3>1 DEF VisitsOnce
    <3>3. QED
      BY <1>7, <2>4, <2>5, <3>2
  <2>7. ASSUME NEW q \in Done, content[q].path \in Range(emitted)
        PROVE  KeptListed(q)'
    <3>1. (BTop.pc = "wait" /\ content[q].path = content[v].path) \/ KeptListed(q)
      BY <1>4, <2>1, <2>7 DEF EmittedListed
    <3>2. CASE KeptListed(q) /\ current' = current
      BY <1>1, <1>5, <2>2, <3>2 DEF KeptListed
    <3>3. CASE KeptListed(q) /\ current' # current
      <4>1. ~InList(v) /\ current' = v /\ codegen' = codegen
        BY <2>2, <3>3
      <4>2. v \notin codegen
        BY <1>2, <2>2, <4>1, TargetFresh
      <4>3. QED
        BY <1>1, <1>5, <2>2, <3>3, <4>1, <4>2 DEF KeptListed
    <3>4. CASE ~KeptListed(q)
      <4>1. BTop.pc = "wait" /\ content[q].path = content[v].path /\ codegen' = codegen \union {v}
            /\ UNCHANGED current
        BY <2>2, <3>1, <3>4
      <4>2. struct[v] = v
        BY <1>4, <2>1, <4>1 DEF VisitsOnce
      <4>3. q \in Pointer
        BY <2>7 DEF Done
      <4>4. struct[q] = q
        <5>1. SUFFICES ASSUME struct[q] # q PROVE FALSE
          OBVIOUS
        <5>2. ListedFor(q)
          BY <1>2, <4>3, <5>1 DEF HeapInv, Heap, StaysListed
        <5>3. QED
          BY <1>2, <3>4, <5>2 DEF ListedFor, KeptListed, PathsApart
      <4>5. PathOf(q) = content[q].path /\ PathOf(v) = content[v].path
        BY <4>2, <4>4 DEF PathOf
      <4>6. CASE q = v \/ v # current \/ n = 1
        BY <1>1, <1>5, <2>2, <4>1, <4>5, <4>6 DEF KeptListed
      <4>7. CASE q # v /\ n # 1
        <5>1. Len(bstack) > 1
          BY <1>1, <1>3, <4>7
        <5>2. v \in Done
          <6>1. v # modules[1]
            BY <1>3, <1>4, <2>7, <4>1
          <6>2. QED
            BY <1>3, <2>2, <6>1
        <5>3. Known(q) /\ Known(v)
          BY <1>2, <1>4, <2>1, <2>7, <4>1, <5>1, <5>2, ReturnedKnown
        <5>4. QED
          BY <4>1, <4>7, <5>3 DEF Known, KnownHeap, KnownOnce
      <4>8. QED
        BY <4>6, <4>7
    <3>5. QED
      BY <3>2, <3>3, <3>4
  <2>8. EmittedListed'
    BY <1>2, <1>5, <2>7 DEF EmittedListed
  <2>9. QED
    BY <1>2, <1>4, <1>5, <2>6, <2>8 DEF OnceInv
<1>10. CASE BackendCall
  <2>1. PICK v : v = NextImport
    OBVIOUS
  <2>2. /\ n + 1 \in Nat /\ n + 1 # n /\ BTop.pc = "loop" /\ BTop.own \in Pointer
        /\ BTop.k <= Len(content[BTop.own].imports)
        /\ v \in Pointer /\ current' = v /\ ~InList(v) /\ ~IsOriginal(v)
        /\ Len(bstack') = n + 1 /\ BTop' = bstack'[n + 1] /\ bstack'[n + 1].pc = "enter"
        /\ bstack'[n].pc = "wait" /\ bstack'[n].own = BTop.own /\ bstack'[n].k = BTop.k
        /\ \A l \in 1 .. n : l # n => bstack'[l] = bstack[l]
        /\ UNCHANGED codegen
    BY <1>1, <1>10, <2>1, BackendCallEffect
  <2>3. struct[v] = v /\ v \notin codegen /\ PathOf(v) = content[v].path
    BY <1>2, <2>2, TargetFresh
  <2>4. v \in Done
    <3>1. CASE n = 1
      BY <1>1, <1>2, <2>1, <2>2, <3>1, NextDone DEF BackendImports
    <3>2. CASE n # 1
      <4>1. n \in 2 .. n
        BY <1>3, <3>2
      <4>2. BTop.orig = modules[1] /\ modules[1] # 0
        BY <1>3, <4>1 DEF Pointer
      <4>3. v # modules[1]
        BY <2>2, <2>3, <4>2 DEF IsOriginal
      <4>4. QED
        BY <1>3, <2>2, <4>3
    <3>3. QED
      BY <3>1, <3>2
  <2>5. content[v].path \notin Range(emitted)
    <3>1. SUFFICES ASSUME content[v].path \in Range(emitted) PROVE FALSE
      OBVIOUS
    <3>2. KeptListed(v)
      BY <1>4, <2>2, <2>4, <3>1 DEF EmittedListed
    <3>3. PICK p \in codegen : PathOf(p) = PathOf(v)
      BY <3>2 DEF KeptListed
    <3>4. PathOf(v) \in File
      BY <2>2, <2>3, ContentOK
    <3>5. QED
      BY <2>2, <3>3, <3>4, DriverAssumptions DEF InList
  <2>6. OlderThanRest(v)
    BY <1>2, <1>4, <2>1, <2>2, <2>4, NextOlder DEF BackendImports
  <2>7. bstack'[1].k = bstack[1].k
    BY <1>3, <2>2
  <2>8. \A l \in 1 .. n : Visited(l)' = Visited(l)
    BY <1>3, <1>6, <2>2 DEF Visited
  <2>9. Visited(n + 1)' = v
    BY <2>2 DEF Visited
  <2>10. VisitsOnce'
    <3>1. SUFFICES ASSUME NEW j \in 2 .. n + 1, NEW x, x = Visited(j)'
                   PROVE  /\ content[x].path \notin Range(emitted)
                          /\ struct[x] = x /\ OlderThanRest(x)'
      BY <1>2, <2>2 DEF VisitsOnce
    <3>2. j \in 2 .. n \/ j = n + 1
      BY <1>3, <3>1
    <3>3. CASE j \in 2 .. n
      <4>1. j \in 1 .. n
        BY <3>3
      <4>2. x = Visited(j)
        BY <2>8, <3>1, <4>1
      <4>3. content[x].path \notin Range(emitted) /\ struct[x] = x /\ OlderThanRest(x)
        BY <1>1, <1>4, <3>3, <4>2 DEF VisitsOnce
      <4>4. QED
        BY <1>7, <2>7, <4>3
    <3>4. CASE j = n + 1
      <4>1. x = v
        BY <2>9, <3>1, <3>4
      <4>2. QED
        BY <1>7, <2>3, <2>5, <2>6, <2>7, <4>1
    <3>5. QED
      BY <3>2, <3>3, <3>4
  <2>11. EmittedListed'
    <3>1. SUFFICES ASSUME NEW q \in Done, content[q].path \in Range(emitted)
                   PROVE  KeptListed(q)'
      BY <1>2, <1>5 DEF EmittedListed
    <3>2. KeptListed(q)
      BY <1>4, <2>2, <3>1 DEF EmittedListed
    <3>3. QED
      BY <1>5, <2>2, <2>3, <3>2 DEF KeptListed
  <2>12. QED
    BY <1>2, <1>4, <1>5, <2>10, <2>11 DEF OnceInv
<1>11. QED
  BY <1>8, <1>9, <1>10

\* A file whose code is generated is not compiled again.
LEMMA GenerateOnce ==
  ASSUME PathsApart, Inv, HeapInv, GraphInv, Alone, NeedInv, RootCyclesOnly, EmitInv, OnceInv,
         GenerateCode
  PROVE  OnceInv'
<1>1. PICK n, c, own : n = Len(bstack) /\ c = current /\ own = BTop.own
  OBVIOUS
<1>2. /\ ImportsDone /\ CopyBack /\ emitted' = Append(emitted, OwnPath)
      /\ codegen' = IF \E p \in codegen : <<PathOf(p)', OwnPath>> \in Extends
                    THEN codegen ELSE codegen \union {current}
      /\ UNCHANGED <<prog, fileIndex, modules, current, content, table, fstack>>
  BY <1>1, GenerateCodeEffect
<1>3. /\ stage = "backend" /\ n \in Nat \ {0} /\ n \in 1 .. n /\ BTop = bstack[n]
      /\ BTop.pc = "loop" /\ own \in Pointer /\ c \in Pointer
      /\ struct'[c] = own
      /\ \A p \in Pointer : p # c => struct'[p] = struct[p]
      /\ Pointer' = Pointer
  BY <1>1, <1>2, CopyBackEffect
<1>4. CASE n = 1
  <2>1. stage' = "next"
    BY <1>1, <1>4, GenerateCodeEffect
  <2>2. QED
    BY <2>1 DEF OnceInv
<1>5. CASE n # 1
  <2>1. /\ n - 1 \in 1 .. n /\ n - 1 # n /\ n - 1 \in Nat \ {0}
        /\ Len(bstack') = n - 1 /\ BTop' = bstack'[n - 1]
        /\ bstack'[n - 1].pc = "wait"
        /\ \A j \in 1 .. n - 1 : bstack'[j] = bstack[j] /\ j \in 1 .. n /\ j # n
        /\ stage' = "backend"
    BY <1>1, <1>3, <1>5, GenerateCodeEffect
  <2>2. FirstFile \notin Range(emitted) /\ VisitsOnce /\ EmittedListed /\ Emission /\ BackEmission
    BY <1>3 DEF OnceInv, EmitInv
  <2>3. /\ FirstOnce /\ modules[1] \in Pointer /\ content[modules[1]].path = FirstFile
        /\ Visited(1) = modules[1] /\ Done = Pointer \ {modules[1]}
        /\ \A j \in 2 .. n :
             /\ Visited(j) \in Done /\ bstack[j - 1].own = Visited(j - 1)
             /\ Visited(j) = content[Visited(j - 1)].imports[bstack[j - 1].k]
    BY <1>1, <1>3, BackState
  <2>4. n \in 2 .. n
    BY <1>3, <1>5
  <2>5. PICK x : x = content[own].path
    OBVIOUS
  <2>6. own = Visited(n) /\ OwnPath = x /\ x \in File
    BY <1>1, <1>3, <2>5, ContentOK DEF Visited, OwnPath
  <2>7. own \in Done /\ x \notin Range(emitted) /\ struct[own] = own /\ x # FirstFile
    BY <1>1, <2>2, <2>3, <2>4, <2>5, <2>6 DEF VisitsOnce, FirstOnce
  <2>8. Range(emitted') = Range(emitted) \union {x}
    <3>1. emitted \in Seq(File)
      BY DEF Inv, TypeOK
    <3>2. QED
      BY <1>2, <2>6, <3>1, AppendRange
  <2>9. /\ Done' = Done /\ FirstFile' = FirstFile /\ \A q : Known(q)' = Known(q)
        /\ \A k : Before(k)' = Before(k)
    BY <1>2, <1>3 DEF Done, Roots, Working, FirstFile, Known, Before
  <2>10. NextImport' = own
    <3>1. bstack'[n - 1].own = Visited(n - 1)
          /\ own = content[Visited(n - 1)].imports[bstack'[n - 1].k]
      BY <1>3, <2>1, <2>3, <2>4, <2>6
    <3>2. QED
      BY <1>2, <2>1, <3>1 DEF NextImport, BackendImports
  <2>11. struct'[own] = own
    BY <1>3, <2>7
  <2>12. bstack'[1] = bstack[1] /\ 1 \in 1 .. n /\ 1 # n
    BY <1>3, <1>5, <2>1
  <2>13. VisitsOnce'
    <3>1. ASSUME NEW j \in 2 .. n - 1, NEW v, v = Visited(j)'
          PROVE  /\ content[v].path \notin Range(emitted')
                 /\ struct'[v] = v /\ OlderThanRest(v)'
      <4>1. j \in 1 .. n - 1 /\ j \in 2 .. n /\ j \in 1 .. n /\ j # n /\ j < n
        BY <1>3, <3>1
      <4>2. bstack'[j] = bstack[j] /\ bstack[j].pc = "wait"
        BY <1>1, <2>1, <4>1, BackFramesOK
      <4>3. v = Visited(j)
        BY <3>1, <4>2 DEF Visited
      <4>4. content[v].path \notin Range(emitted) /\ struct[v] = v /\ OlderThanRest(v)
            /\ v \in Pointer /\ v # modules[1]
        BY <1>1, <2>2, <2>3, <4>1, <4>3 DEF VisitsOnce
      <4>5. content[v].path # x
        BY <1>1, <1>3, <2>4, <2>5, <2>6, <4>1, <4>3, VisitedOnce
      <4>6. v # c
        <5>1. c = own \/ content[c].path \in Out
          BY <1>1, <1>3, <2>2 DEF BackEmission
        <5>2. content[v].path \notin Out
          BY <2>3, <4>4 DEF Out, FirstOnce
        <5>3. QED
          BY <2>5, <4>5, <5>1, <5>2
      <4>7. OlderThanRest(v)'
        BY <1>2, <2>9, <2>12, <4>4 DEF OlderThanRest
      <4>8. QED
        BY <1>3, <2>8, <4>4, <4>5, <4>6, <4>7
    <3>2. x \notin Before(bstack[1].k)
      <4>1. bstack[1].pc = "wait" /\ bstack[1].own = modules[1]
        <5>1. bstack[1].pc = "wait"
          BY <1>1, <2>12, BackFramesOK
        <5>2. QED
          BY <2>3, <5>1 DEF Visited
      <4>2. \A i \in 1 .. bstack[1].k - 1 : prog.imports[FirstFile][i] \in Out
        BY <1>1, <2>2, <2>3, <2>12, <4>1 DEF BackEmission
      <4>3. QED
        BY <2>7, <4>2 DEF Before, Out
    <3>3. /\ struct'[own] = own
          /\ content'[own].path \in Range(emitted')
          /\ content'[own].path = x
      BY <1>2, <2>5, <2>8, <2>11
    <3>4. x \notin Before(bstack[1].k)'
      BY <2>9, <2>12, <3>2 DEF Before
    <3>5. \A j \in 2 .. n - 1 :
            /\ content'[Visited(j)'].path \notin Range(emitted')
            /\ struct'[Visited(j)'] = Visited(j)'
            /\ \A v : v = Visited(j)' => OlderThanRest(v)'
      BY <1>2, <3>1
    <3>6. QED
      BY <2>1, <2>10, <3>3, <3>4, <3>5 DEF VisitsOnce
  <2>14. ASSUME NEW q \in Done, content[q].path \in Range(emitted'), content[q].path # x
         PROVE  KeptListed(q)'
    <3>1. q \in Pointer
      BY <2>14 DEF Done
    <3>2. KeptListed(q)
      BY <1>3, <2>2, <2>8, <2>14 DEF EmittedListed
    <3>3. PICK p \in codegen : PathOf(p) = PathOf(q) /\ (p = q \/ p # c)
      BY <1>1, <1>5, <3>2 DEF KeptListed
    <3>4. p \in Pointer /\ codegen \subseteq codegen'
      BY <1>2 DEF Inv, TypeOK
    <3>5. \A y \in Pointer : PathOf(y)' = IF y = c THEN x ELSE PathOf(y)
      BY <1>2, <1>3, <2>5 DEF PathOf
    <3>6. CASE q # c
      <4>1. p # c
        BY <3>3, <3>6
      <4>2. PathOf(p)' = PathOf(q)'
        BY <3>1, <3>3, <3>4, <3>5, <3>6, <4>1
      <4>3. QED
        BY <1>1, <1>2, <3>4, <4>1, <4>2 DEF KeptListed
    <3>7. CASE q = c /\ \E y \in codegen : <<PathOf(y)', OwnPath>> \in Extends
      <4>1. PICK y \in codegen : <<PathOf(y)', OwnPath>> \in Extends
        BY <3>7
      <4>2. PathOf(y)' = x
        BY <2>6, <4>1 DEF PathsApart
      <4>3. PathOf(q)' = x
        BY <3>1, <3>5, <3>7
      <4>4. QED
        BY <1>1, <1>2, <3>4, <3>7, <4>2, <4>3 DEF KeptListed
    <3>8. CASE q = c /\ ~ \E y \in codegen : <<PathOf(y)', OwnPath>> \in Extends
      <4>1. q \in codegen'
        BY <1>1, <1>2, <3>8
      <4>2. QED
        BY <4>1 DEF KeptListed
    <3>9. QED
      BY <3>6, <3>7, <3>8
  <2>15. EmittedListed'
    <3>1. SUFFICES ASSUME NEW q \in Done, content[q].path \in Range(emitted')
                   PROVE  content[q].path = x \/ KeptListed(q)'
      BY <1>2, <2>1, <2>5, <2>9, <2>10 DEF EmittedListed
    <3>2. QED
      BY <2>14, <3>1
  <2>16. QED
    BY <2>2, <2>7, <2>8, <2>9, <2>13, <2>15 DEF OnceInv
<1>6. QED
  BY <1>4, <1>5

\* Every step compiles no file twice.
LEMMA NextOnce ==
  ASSUME PathsApart, Inv, HeapInv, GraphInv, FirstInv, Alone, NeedInv, RootCyclesOnly, EmitInv,
         KnownInv, OnceInv, [Next]_vars
  PROVE  OnceInv'
<1>1. CASE BackendEnter \/ BackendSkip \/ BackendOriginal \/ BackendCall \/ BackendReturn
  <2>1. stage = "backend"
    BY <1>1 DEF BackendEnter, BackendSkip, BackendOriginal, BackendCall, BackendReturn,
       BackendPending, BackAt
  <2>2. KnownHeap
    <3>1. PICK n : n = Len(bstack)
      OBVIOUS
    <3>2. modules[1] \in Pointer
      BY <2>1, <3>1, BackState
    <3>3. QED
      BY <2>1, <3>2 DEF KnownInv
  <2>3. QED
    BY <1>1, <2>2, BackendOnce
<1>2. CASE GenerateCode
  BY <1>2, GenerateOnce
<1>3. CASE TypeCheck
  <2>1. PICK n : n = Len(fstack)
    OBVIOUS
  <2>2. /\ stage = "frontend"
        /\ n = 1 => Len(bstack') = 1 /\ BTop' = bstack'[1] /\ bstack'[1].pc = "enter"
        /\ n # 1 => UNCHANGED stage
        /\ UNCHANGED <<prog, emitted>>
    BY <1>3, <2>1, TypeCheckEffect
  <2>3. CASE n = 1
    <3>1. Range(emitted) = {}
      BY <2>2, FrontState DEF EmitInv, Emission
    <3>2. 2 .. 1 = {}
      OBVIOUS
    <3>3. QED
      BY <2>2, <2>3, <3>1, <3>2 DEF OnceInv, VisitsOnce, EmittedListed
  <2>4. CASE n # 1
    BY <2>2, <2>4 DEF OnceInv
  <2>5. QED
    BY <2>3, <2>4
<1>4. CASE UNCHANGED vars
  <2>1. /\ VisitsOnce' = VisitsOnce /\ EmittedListed' = EmittedListed /\ UNCHANGED <<stage, emitted>>
        /\ FirstFile' = FirstFile
    BY <1>4 DEF vars, VisitsOnce, EmittedListed, OlderThanRest, KeptListed, Visited, NextImport,
       BackendImports, BTop, Before, FirstFile, Done, Roots, Working, Pointer, PathOf, Known
  <2>2. QED
    BY <2>1 DEF OnceInv
<1>5. CASE Next /\ ~ \/ BackendEnter \/ BackendSkip \/ BackendOriginal \/ BackendCall \/ BackendReturn
                     \/ GenerateCode \/ TypeCheck \/ UNCHANGED vars
  <2>1. stage' \in {"frontend", "output", "done"}
    BY <1>5 DEF Next, Step, Frontend, Backend, Terminated, StartFile, FilesDone, GenerateOutput,
       ParseFile, ImportRegistered, ImportOpen, ImportFile, ImportReturn, ParseEnd, ImportPending,
       NeedsFrontend, Bind, FrontAt,
       ParseFails, ImportOverflow, TypesOverflow, FunctionsOverflow, TypeCheckFails, DeclareFails, RedefinitionFails,
       GenerateCodeFails, Fails, EndWith, Ends
  <2>2. QED
    BY <2>1 DEF OnceInv
<1>6. QED
  BY <1>1, <1>2, <1>3, <1>4, <1>5

\* Every cycle of imports goes through the file on the command line, which does
\* not import itself.
CyclesThroughFirst ==
  \A p \in Programs : AcyclicWithout(p.cmd[1], p.imports) /\ p.cmd[1] \notin Range(p.imports[p.cmd[1]])

\* One file defines main, at most, and "main" is no other file's function.
OneMain ==
  /\ "main" \notin File
  /\ \A p \in Programs : \A f, g \in File :
       (p.defines[f] = "main" /\ p.defines[g] = "main") => f = g

\* What is registered while a program is compiled, and which modules are new.
LEMMA KnownInvariant ==
  ASSUME OneFile, CyclesThroughFirst
  PROVE  Spec => [](RootCyclesOnly /\ KnownInv)
<1>1. prog \in Programs => RootCyclesOnly
  BY DEF CyclesThroughFirst, RootCyclesOnly, FirstFile
<1>2. Init => KnownInv
  <2>1. SUFFICES ASSUME Init PROVE KnownInv
    OBVIOUS
  <2>2. stage = "next" /\ struct = <<>>
    BY <2>1 DEF Init
  <2>3. Pointer = {}
    BY <2>2 DEF Pointer
  <2>4. QED
    BY <2>2, <2>3 DEF KnownInv
<1>3. Inv /\ HeapInv /\ GraphInv /\ FirstInv /\ (Alone /\ NeedInv) /\ RootCyclesOnly /\ KnownInv
        /\ [Next]_vars => KnownInv'
  BY NextKnown
<1>4. QED
  BY <1>1, <1>2, <1>3, Invariant, HeapInvariant, GraphInvariant, FirstInvariant, NeedInvariant,
     ProgramKept, PTL DEF Spec

\* No file is compiled twice.
LEMMA OnceInvariant ==
  ASSUME OneFile, PathsApart, CyclesThroughFirst
  PROVE  Spec => []OnceInv
<1>1. Init => OnceInv
  BY DEF Init, OnceInv
<1>2. Inv /\ HeapInv /\ GraphInv /\ FirstInv /\ (Alone /\ NeedInv) /\ EmitInv
        /\ (RootCyclesOnly /\ KnownInv) /\ OnceInv /\ [Next]_vars => OnceInv'
  BY NextOnce
<1>3. QED
  BY <1>1, <1>2, Invariant, HeapInvariant, GraphInvariant, FirstInvariant, NeedInvariant,
     EmitInvariant, KnownInvariant, PTL DEF Spec

\* The function that is to be generated is not in the LLVM module.
LEMMA NothingRedefined ==
  ASSUME OneMain, prog \in Programs, Inv, HeapInv, GraphInv, Alone, NeedInv, RootCyclesOnly, OnceInv,
         ImportsDone
  PROVE  ~Redefines(OwnPath)
<1>1. PICK n : n = Len(bstack)
  OBVIOUS
<1>2. stage = "backend" /\ BTop.pc = "loop"
  BY DEF ImportsDone, BackAt
<1>3. /\ n \in Nat \ {0} /\ n \in 1 .. n /\ BTop = bstack[n] /\ Visited(1) = modules[1]
      /\ content[modules[1]].path = FirstFile /\ modules[1] \in Pointer
      /\ \A j \in 2 .. n : Visited(j) \in Done
  BY <1>1, <1>2, BackState
<1>4. OwnPath = content[Visited(n)].path
  BY <1>2, <1>3 DEF OwnPath, Visited
<1>5. OwnPath \in File /\ OwnPath \notin Range(emitted)
  <2>1. CASE n = 1
    BY <1>2, <1>3, <1>4, <2>1, ContentOK DEF OnceInv
  <2>2. CASE n # 1
    <3>1. n \in 2 .. n
      BY <1>3, <2>2
    <3>2. Visited(n) \in Pointer
      BY <1>3, <3>1 DEF Done
    <3>3. QED
      BY <1>1, <1>2, <1>4, <3>1, <3>2, ContentOK DEF OnceInv, VisitsOnce
  <2>3. QED
    BY <2>1, <2>2
<1>6. Range(emitted) \subseteq File
  BY DEF Inv, TypeOK, Range
<1>7. ASSUME NEW f \in File, NEW g \in File, FunctionOf(f) = FunctionOf(g)
      PROVE  f = g
  BY <1>7 DEF FunctionOf, OneMain
<1>8. QED
  BY <1>5, <1>6, <1>7 DEF Redefines, InModule

\* What modules import follows what their files do.
LEMMA ImportsFollow ==
  ASSUME Inv, HeapInv, GraphInv, FirstInv, Alone, NeedInv, stage = "frontend",
         NEW p \in Pointer, NEW q \in Range(ImportsNow[p])
  PROVE  /\ q \in Pointer /\ PathsNow[p] \in File /\ PathsNow[q] \in File
         /\ PathsNow[q] \in Range(prog.imports[PathsNow[p]])
<1>1. /\ content[p].imports \in Seq(Pointer) /\ content[p].path \in File
      /\ \A r \in Pointer : struct[r] = r
  BY ContentOK, FrontState
<1>2. ImportsNow[p] = content[p].imports /\ PathsNow[p] = content[p].path
  BY <1>1 DEF ImportsNow, PathsNow, ImportsOf, PathOf
<1>3. PICK i \in 1 .. Len(content[p].imports) : q = content[p].imports[i]
  BY <1>1, <1>2 DEF Range
<1>4. q \in Pointer
  BY <1>1, <1>3, ElementOfSeq
<1>5. PathsNow[q] = content[q].path /\ content[q].path \in File
  BY <1>1, <1>4, ContentOK DEF PathsNow, PathOf
<1>6. content[q].path = prog.imports[content[p].path][i]
  BY <1>3 DEF NeedInv, AllMatch
<1>7. i \in 1 .. Len(prog.imports[content[p].path]) /\ prog.imports[content[p].path] \in Seq(File)
  <2>1. PICK l, r : l = Len(content[p].imports) /\ r = Len(prog.imports[content[p].path])
    OBVIOUS
  <2>2. prog.imports[content[p].path] \in Seq(File)
    BY <1>1, CommandOK
  <2>3. l \in Nat /\ r \in Nat /\ l <= r
    BY <1>1, <2>1, <2>2, ImportsFit, LenProperties
  <2>4. QED
    BY <1>3, <2>1, <2>2, <2>3
<1>8. content[q].path \in Range(prog.imports[content[p].path])
  BY <1>6, <1>7 DEF Range
<1>9. QED
  BY <1>1, <1>2, <1>4, <1>5, <1>8

\* A search that goes round modules for ever could go round their files.
LEMMA SearchFollows ==
  ASSUME Inv, HeapInv, GraphInv, FirstInv, Alone, NeedInv, stage = "frontend",
         NEW m \in Pointer,
         FunctionsEndless(ImportsNow, PathsNow, m) \/ TypesEndless(ImportsNow, PathsNow, m)
  PROVE  SearchesEndless(prog.imports)
<1>1. PICK same : same = [f \in DOMAIN prog.imports |-> f]
  OBVIOUS
<1>2. /\ DOMAIN prog.imports = File /\ \A f \in File : same[f] = f
      /\ DOMAIN ImportsNow = Pointer
  BY <1>1, CommandOK DEF ImportsNow
<1>3. PathsNow[m] \in File
  BY ContentOK DEF PathsNow, PathOf
<1>4. CASE FunctionsEndless(ImportsNow, PathsNow, m)
  <2>1. PICK S \in SUBSET Pointer :
          /\ Range(ImportsNow[m]) \intersect S # {}
          /\ \A s \in S : \E h \in Range(ImportsNow[s]) \intersect S : PathsNow[h] # PathsNow[m]
    BY <1>2, <1>4 DEF FunctionsEndless
  <2>2. PICK T : T = {PathsNow[s] : s \in S}
    OBVIOUS
  <2>3. T \in SUBSET File
    BY <2>2, ContentOK DEF PathsNow, PathOf
  <2>4. Range(prog.imports[PathsNow[m]]) \intersect T # {}
    <3>1. PICK h \in Range(ImportsNow[m]) : h \in S
      BY <2>1
    <3>2. QED
      BY <2>2, <3>1, ImportsFollow
  <2>5. ASSUME NEW t \in T
        PROVE  \E h \in Range(prog.imports[t]) \intersect T : same[h] # same[PathsNow[m]]
    <3>1. PICK s \in S : t = PathsNow[s]
      BY <2>2
    <3>2. PICK h \in Range(ImportsNow[s]) : h \in S /\ PathsNow[h] # PathsNow[m]
      BY <2>1
    <3>3. PathsNow[h] \in T /\ PathsNow[h] \in File /\ PathsNow[h] \in Range(prog.imports[t])
      BY <2>2, <3>1, <3>2, ImportsFollow
    <3>4. QED
      BY <1>2, <1>3, <3>2, <3>3
  <2>6. FunctionsEndless(prog.imports, same, PathsNow[m])
    BY <1>2, <2>3, <2>4, <2>5 DEF FunctionsEndless
  <2>7. QED
    BY <1>1, <1>2, <1>3, <2>6 DEF SearchesEndless
<1>5. CASE TypesEndless(ImportsNow, PathsNow, m)
  <2>1. PICK T \in SUBSET Edges(ImportsNow) :
          /\ \E t \in T : t[1] = m
          /\ \A t \in T : \E u \in T : u[1] = t[2] /\ PathsNow[u[2]] # PathsNow[t[1]]
    BY <1>5 DEF TypesEndless
  <2>2. ASSUME NEW t \in T
        PROVE  t[1] \in Pointer /\ t[2] \in Range(ImportsNow[t[1]])
    BY <1>2, <2>1 DEF Edges
  <2>3. PICK U : U = {<<PathsNow[t[1]], PathsNow[t[2]]>> : t \in T}
    OBVIOUS
  <2>4. ASSUME NEW t \in T
        PROVE  /\ PathsNow[t[1]] \in File /\ PathsNow[t[2]] \in File
               /\ PathsNow[t[2]] \in Range(prog.imports[PathsNow[t[1]]])
    <3>1. PICK p \in Pointer : p = t[1]
      BY <2>2
    <3>2. PICK q \in Range(ImportsNow[p]) : q = t[2]
      BY <2>2, <3>1
    <3>3. QED
      BY <3>1, <3>2, ImportsFollow
  <2>5. U \in SUBSET Edges(prog.imports)
    BY <1>2, <2>3, <2>4 DEF Edges
  <2>6. \E u \in U : u[1] = PathsNow[m]
    <3>1. PICK t \in T : t[1] = m
      BY <2>1
    <3>2. PICK u : u = <<PathsNow[t[1]], PathsNow[t[2]]>>
      OBVIOUS
    <3>3. u \in U /\ u[1] = PathsNow[m]
      BY <2>3, <3>1, <3>2
    <3>4. QED
      BY <3>3
  <2>7. ASSUME NEW u \in U
        PROVE  \E v \in U : v[1] = u[2] /\ same[v[2]] # same[u[1]]
    <3>1. PICK t \in T : u = <<PathsNow[t[1]], PathsNow[t[2]]>>
      BY <2>3
    <3>2. PICK n \in T : n[1] = t[2] /\ PathsNow[n[2]] # PathsNow[t[1]]
      BY <2>1
    <3>3. PICK v : v = <<PathsNow[n[1]], PathsNow[n[2]]>>
      OBVIOUS
    <3>4. v \in U /\ v[1] = u[2] /\ v[2] # u[1]
      BY <2>3, <3>1, <3>2, <3>3
    <3>5. same[v[2]] = v[2] /\ same[u[1]] = u[1]
      BY <1>2, <2>4, <3>1, <3>3
    <3>6. QED
      BY <3>4, <3>5
  <2>8. TypesEndless(prog.imports, same, PathsNow[m])
    BY <2>5, <2>6, <2>7 DEF TypesEndless
  <2>9. QED
    BY <1>1, <1>2, <1>3, <2>8 DEF SearchesEndless
<1>6. QED
  BY <1>4, <1>5

\* A search that exhausts the stack does so because of the imports.
LEMMA OverflowFollows ==
  ASSUME Inv, HeapInv, GraphInv, FirstInv, Alone, NeedInv, TypesOverflow \/ FunctionsOverflow
  PROVE  SearchesEndless(prog.imports)
<1>1. CASE TypesOverflow
  <2>1. /\ stage = "frontend" /\ FTop.module \in Pointer
        /\ TypesEndless(ImportsNow, PathsNow, FTop.module)
    BY <1>1, FTopOK DEF TypesOverflow, FrontAt, FrontFrameOK
  <2>2. QED
    BY <2>1, SearchFollows
<1>2. CASE FunctionsOverflow
  <2>1. stage = "frontend" /\ FunctionsEndless(ImportsNow, PathsNow, current)
    BY <1>2 DEF FunctionsOverflow, FrontAt
  <2>2. current \in Pointer
    BY <1>2 DEF FunctionsOverflow, Inv, TypeOK, CurrentOK, Pointer
  <2>3. QED
    BY <2>1, <2>2, SearchFollows
<1>3. QED
  BY <1>1, <1>2

\* Where no stage fails, every step keeps the program accepted.
LEMMA NextAccepts ==
  ASSUME Faults = {}, OneMain, prog \in Programs, Inv, HeapInv, GraphInv, FirstInv, Alone, NeedInv, EmitInv,
         RunInv, RootCyclesOnly, OnceInv, Accepted, [Next]_vars, OverflowOnlyOnCycle'
  PROVE  Accepted'
<1>1. \A s : ~Fails(s)
  BY DEF Fails
<1>2. CASE GenerateOutput
  <2>1. stage = "output" /\ UNCHANGED <<prog, emitted>> /\ outcome' = "ok"
    BY <1>1, <1>2 DEF GenerateOutput, EndWith, Ends
  <2>2. Emission /\ FirstFile \in Range(emitted)
    BY <2>1 DEF EmitInv
  <2>3. Range(emitted) \in SUBSET File
    BY <2>2 DEF Emission, Inv, TypeOK
  <2>4. OfFirst \subseteq Range(emitted)
    BY <2>2, <2>3, NeededWithin DEF Emission, Out
  <2>5. Needed(prog.imports, Range(prog.cmd)) = OfFirst
    <3>1. prog.cmd \in Seq(File) /\ Len(prog.cmd) = 1
      BY DEF Inv, TypeOK, Program, Alone
    <3>2. Range(prog.cmd) = {FirstFile}
      BY <3>1 DEF Range, FirstFile
    <3>3. QED
      BY <3>2 DEF OfFirst
  <2>6. QED
    BY <2>1, <2>4, <2>5 DEF Accepted
<1>3. CASE RedefinitionFails
  BY <1>3, NothingRedefined DEF RedefinitionFails
<1>4. CASE ImportOverflow
  BY <1>4 DEF ImportOverflow, EndWith, Ends, OverflowOnlyOnCycle, RootCyclesOnly, FirstFile
<1>9. CASE TypesOverflow \/ FunctionsOverflow
  <2>1. outcome' = "endless" /\ UNCHANGED prog
    BY <1>9 DEF TypesOverflow, FunctionsOverflow, EndWith, Ends
  <2>2. SearchesEndless(prog.imports)
    BY <1>9, OverflowFollows
  <2>3. QED
    BY <2>1, <2>2 DEF Accepted
<1>5. CASE ParseFails \/ TypeCheckFails \/ DeclareFails \/ GenerateCodeFails
  BY <1>1, <1>5 DEF ParseFails, TypeCheckFails, DeclareFails, GenerateCodeFails
<1>6. CASE \/ StartFile \/ FilesDone \/ ParseFile \/ ImportRegistered \/ ImportOpen \/ ImportFile
           \/ ImportReturn \/ ParseEnd \/ TypeCheck \/ BackendEnter \/ BackendSkip \/ BackendOriginal
           \/ BackendCall \/ BackendReturn \/ GenerateCode
  <2>1. stage # "done" /\ UNCHANGED outcome
    BY <1>6 DEF StartFile, FilesDone, ParseFile, ImportRegistered, ImportOpen, ImportFile,
       ImportReturn, ImportPending, NeedsFrontend, ParseEnd, TypeCheck, FrontAt, BackendEnter,
       BackendSkip, BackendOriginal, BackendCall, BackendReturn, GenerateCode, BackendPending,
       ImportsDone, BackAt, Bind
  <2>2. QED
    BY <2>1 DEF RunInv, Accepted
<1>7. CASE UNCHANGED vars
  BY <1>7 DEF vars, Accepted
<1>8. QED
  BY <1>2, <1>3, <1>4, <1>5, <1>6, <1>7, <1>9 DEF Next, Step, Frontend, Backend, Terminated

\* Where one file is on the command line, every cycle of imports goes through it,
\* it does not import itself and no stage finds an error, no file is compiled
\* twice: the compilation is not rejected for a function that is defined already,
\* and it ends with the code of every file needed (main.c:404-432, 891-946), or in a
\* search for a name that some file's imports let go round for ever (lib.c:381-400,
\* 546-567).
THEOREM AlwaysAccepted ==
  ASSUME OneFile, PathsApart, CyclesThroughFirst, OneMain, Faults = {},
         IsFiniteSet(File), Cardinality(File) <= MaxDepth
  PROVE  Spec => []Accepted
<1>1. Init => Accepted
  BY DEF Init, Accepted
<1>2. Inv /\ HeapInv /\ GraphInv /\ FirstInv /\ (Alone /\ NeedInv) /\ EmitInv /\ RunInv
        /\ (RootCyclesOnly /\ KnownInv) /\ OnceInv /\ prog \in Programs /\ Accepted
        /\ [Next]_vars /\ OverflowOnlyOnCycle' => Accepted'
  BY NextAccepts
<1>3. Spec => []OverflowOnlyOnCycle
  BY OverflowNeedsCycle
<1>4. QED
  BY <1>1, <1>2, <1>3, Invariant, HeapInvariant, GraphInvariant, FirstInvariant, NeedInvariant,
     EmitInvariant, RunInvariant, KnownInvariant, OnceInvariant, ProgramKept, PTL DEF Spec

===============================================================================
