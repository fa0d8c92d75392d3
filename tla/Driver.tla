-------------------------------- MODULE Driver --------------------------------
(***************************************************************************)
(* The compilation driver of luka (src/main.c): for each file of the       *)
(* command line, do_file() runs frontend() - lex, parse with the frontends *)
(* of the imported files nested in it, type check - and then backend(),    *)
(* which declares prototypes and generates code along the import graph.    *)
(*                                                                         *)
(* A t_module lives at a pointer, a number in 1..Len(struct); 0 is NULL.   *)
(* What the struct at a pointer holds (its file_path and its vectors) is   *)
(* a content, an index of `content': the memcpy()s of backend() copy the   *)
(* fields of one struct over another, so two pointers may come to share    *)
(* one content.                                                            *)
(***************************************************************************)
EXTENDS Naturals, Sequences, FiniteSets, SequencesExt, ImportGraph

CONSTANTS
  File,      \* resolved paths of source files
  Programs,  \* the sources and command lines to compile, see Program
  MaxDepth,  \* nested calls of frontend() that the C stack has room for
  Faults,    \* the stages that may fail on some input
  Extends    \* <<e, f>>: the path e begins with the path f

Stage == {"parse", "type", "gen", "output"}

\* imports: the import paths of a file in the order parse() visits them;
\* cmd: the files of the command line; defines: what a file defines.
Program == [imports : [File -> Seq(File)],
            cmd     : Seq(File) \ {<<>>},
            defines : [File -> {"main", "function", "nothing"}]]

ASSUME DriverAssumptions ==
  /\ Programs \subseteq Program
  /\ MaxDepth \in Nat \ {0}
  /\ Faults \subseteq Stage
  /\ Extends \subseteq File \X File
  /\ \A f \in File : <<f, f>> \in Extends

VARIABLES
  prog,       \* the program being compiled
  fileIndex,  \* context.file_index + 1, 0 before the first file
  stage,      \* where main() is
  modules,    \* context.modules, one pointer per file of the command line
  current,    \* context.current_module
  struct,     \* pointer -> the content of the t_module it points to
  content,    \* [path, imports, sees]; sees is history, set by TypeCheck
  table,      \* context.imported_modules
  codegen,    \* context.codegen_modules
  declared,   \* files whose prototypes are in the LLVM module
  emitted,    \* files whose code is in the LLVM module, oldest first
  fstack,     \* the nested calls of frontend(), innermost last
  bstack,     \* the nested calls of backend(), innermost last
  outcome     \* how the process ended

heapVars == <<struct, content>>
frontVars == <<modules, table, fstack>>
backVars == <<codegen, declared, emitted, bstack>>
vars == <<prog, fileIndex, stage, modules, current, struct, content, table,
          codegen, declared, emitted, fstack, bstack, outcome>>

-----------------------------------------------------------------------------
(* State *)

Pointer == 1 .. Len(struct)
PathOf(m) == content[struct[m]].path
ImportsOf(m) == content[struct[m]].imports

Content == [path : File, imports : Seq(Pointer), sees : SUBSET File]

FrontFrame == [file : File, pc : {"parse", "import", "wait", "check"},
               module : Nat, k : Nat]
BackFrame == [pc : {"enter", "loop", "wait"}, own : Nat, orig : Nat, k : Nat]

FrontCall(file) == [file |-> file, pc |-> "parse", module |-> 0, k |-> 1]
BackCall(orig) == [pc |-> "enter", own |-> 0, orig |-> orig, k |-> 1]

Init ==
  /\ prog \in Programs
  /\ fileIndex = 0
  /\ stage = "next"
  /\ modules = [i \in 1 .. Len(prog.cmd) |-> 0]
  /\ current = 0
  /\ struct = <<>> /\ content = <<>>
  /\ table = {} /\ codegen = {} /\ declared = {} /\ emitted = <<>>
  /\ fstack = <<>> /\ bstack = <<>>
  /\ outcome = "running"

\* The process ends: main() reaches l_cleanup with a status ("ok", "error"),
\* a stage calls exit() or LLVM aborts ("exit"), or the stack runs out, in frontend()
\* ("crash") or in a search of lib.c ("endless").
Ends(o) ==
  /\ outcome' = o
  /\ stage' = "done"
  /\ fstack' = <<>> /\ bstack' = <<>>
  /\ UNCHANGED <<prog, fileIndex, modules, current, content, table, codegen,
                 declared, emitted>>

EndWith(o) == Ends(o) /\ UNCHANGED struct

Fails(s) == s \in Faults /\ \E o \in {"error", "exit"} : EndWith(o)

-----------------------------------------------------------------------------
(* main(): the loop over the files of the command line *)

StartFile ==
  /\ stage = "next" /\ fileIndex < Len(prog.cmd)
  /\ fileIndex' = fileIndex + 1
  /\ stage' = "frontend"
  /\ fstack' = <<FrontCall(prog.cmd[fileIndex + 1])>>
  /\ UNCHANGED <<prog, modules, current, table, outcome>>
  /\ UNCHANGED heapVars /\ UNCHANGED backVars

FilesDone ==
  /\ stage = "next" /\ fileIndex = Len(prog.cmd)
  /\ stage' = "output"
  /\ UNCHANGED <<prog, fileIndex, current, outcome>>
  /\ UNCHANGED heapVars /\ UNCHANGED frontVars /\ UNCHANGED backVars

\* optimize() and generate_output(); module Output looks inside the latter.
GenerateOutput ==
  /\ stage = "output"
  /\ EndWith("ok") \/ Fails("output")

-----------------------------------------------------------------------------
(* frontend() and parse() *)

FTop == Last(fstack)
FrontAt(pc) == stage = "frontend" /\ fstack # <<>> /\ FTop.pc = pc
SetFront(frame) == fstack' = ReplaceAt(fstack, Len(fstack), frame)

Requested == prog.imports[FTop.file][FTop.k]
ImportPending == FrontAt("import") /\ FTop.k <= Len(prog.imports[FTop.file])

\* HASH_FIND_STR(context->imported_modules, path, ...): the modules it may find
Registered(path) == {e.module : e \in {x \in table : x.path = path}}

AnyOpenFile(path) == 1 .. fileIndex             \* mutant: no strcmp()
OlderFiles(path) ==                             \* mutant: i < file_index
  {i \in 1 .. fileIndex - 1 : PathOf(modules[i]) = path}

\* The files of the command line that are open, by path
OpenFiles(path) == {i \in 1 .. fileIndex : PathOf(modules[i]) = path}

\* mutants of ParseFile: modules[file_index] is set too late, or
\* to the module that was imported from that file before
ParseFileAs(newModules) ==
  /\ FrontAt("parse")
  /\ LET new == Len(struct) + 1 IN
       /\ struct' = Append(struct, new)
       /\ content' = Append(content, [path |-> FTop.file, imports |-> <<>>, sees |-> {}])
       /\ SetFront([FTop EXCEPT !.pc = "import", !.module = new])
  /\ modules' = newModules
  /\ UNCHANGED <<prog, fileIndex, stage, current, table, outcome>>
  /\ UNCHANGED backVars
ParseFileLate == ParseFileAs(modules)
ParseFileReuse == ParseFileAs([modules EXCEPT ![fileIndex] =
  IF @ # 0 THEN @ ELSE IF Registered(FTop.file) = {} THEN Len(struct) + 1
  ELSE CHOOSE p \in Registered(FTop.file) : TRUE])

\* lex() and PARSER_parse_file(): a new t_module, not linked to anything yet
ParseFile ==
  /\ FrontAt("parse")
  /\ LET new == Len(struct) + 1 IN
       /\ struct' = Append(struct, new)
       /\ content' = Append(content, [path |-> FTop.file, imports |-> <<>>, sees |-> {}])
       /\ modules' = IF modules[fileIndex] = 0
                     THEN [modules EXCEPT ![fileIndex] = new] ELSE modules
       /\ SetFront([FTop EXCEPT !.pc = "import", !.module = new])
  /\ UNCHANGED <<prog, fileIndex, stage, current, table, outcome>>
  /\ UNCHANGED backVars

ParseFails == FrontAt("parse") /\ Fails("parse")

\* The end of one turn of the import loop, when context->current_module is m:
\* m joins the imports, and the requested path is registered - unless the
\* importing file itself is registered.
Bind(m) ==
  /\ content' = [content EXCEPT ![struct[FTop.module]].imports = Append(@, m)]
  /\ current' = m
  /\ table' = IF Registered(FTop.file) = {}
              THEN table \union {[path |-> Requested, module |-> m]} ELSE table
  /\ SetFront([FTop EXCEPT !.pc = "import", !.k = @ + 1])
  /\ UNCHANGED <<prog, fileIndex, stage, modules, struct, outcome>>
  /\ UNCHANGED backVars

\* "Already imported"
ImportRegistered == ImportPending /\ \E m \in Registered(Requested) : Bind(m)

\* "Try solving circular imports": the loop takes the last match
ImportOpen ==
  /\ ImportPending /\ Registered(Requested) = {}
  /\ \E i \in OpenFiles(Requested) :
       (\A j \in OpenFiles(Requested) : j <= i) /\ Bind(modules[i])

NeedsFrontend ==
  /\ ImportPending /\ Registered(Requested) = {}
  /\ OpenFiles(Requested) = {}

\* "Not imported yet and not found in other modules"
ImportFile ==
  /\ NeedsFrontend /\ Len(fstack) < MaxDepth
  /\ current' = 0
  /\ fstack' = Append(ReplaceAt(fstack, Len(fstack), [FTop EXCEPT !.pc = "wait"]),
                      FrontCall(Requested))
  /\ UNCHANGED <<prog, fileIndex, stage, modules, table, outcome>>
  /\ UNCHANGED heapVars /\ UNCHANGED backVars

ImportOverflow == NeedsFrontend /\ Len(fstack) = MaxDepth /\ EndWith("crash")

ImportReturn == FrontAt("wait") /\ Bind(current)

ParseEnd ==
  /\ FrontAt("import") /\ FTop.k > Len(prog.imports[FTop.file])
  /\ current' = FTop.module
  /\ SetFront([FTop EXCEPT !.pc = "check"])
  /\ UNCHANGED <<prog, fileIndex, stage, modules, table, outcome>>
  /\ UNCHANGED heapVars /\ UNCHANGED backVars

ImportsNow == [p \in Pointer |-> ImportsOf(p)]
PathsNow == [p \in Pointer |-> PathOf(p)]

\* AST_fix_types() looks for the types that the module names, in the modules that
\* it imports by then.  Which ones it names is left open, so the search may come
\* to a circle that original_module does not cut, or find the name before that.
TypesOverflow ==
  /\ FrontAt("import") /\ FTop.k > Len(prog.imports[FTop.file])
  /\ TypesEndless(ImportsNow, PathsNow, FTop.module)
  /\ EndWith("endless")

\* The files whose functions LIB_resolve_func_name() can find from module m, if it
\* does not come to a circle before: those of the modules in every set that holds
\* m and is closed under imports.
Visible(m) ==
  {PathOf(p) : p \in {q \in Pointer : \A S \in SUBSET Pointer :
     (m \in S /\ \A s \in S : Range(ImportsOf(s)) \subseteq S) => q \in S}}

\* type_check() looks for the functions that the module calls, likewise.
FunctionsOverflow ==
  /\ FrontAt("check")
  /\ FunctionsEndless(ImportsNow, PathsNow, current)
  /\ EndWith("endless")

\* type_check(); the outermost frontend() returns to do_file(), which calls backend()
TypeCheck ==
  /\ FrontAt("check")
  /\ content' = [content EXCEPT ![struct[current]].sees = Visible(current)]
  /\ fstack' = Front(fstack)
  /\ IF Len(fstack) = 1
     THEN stage' = "backend" /\ bstack' = <<BackCall(0)>>
     ELSE UNCHANGED <<stage, bstack>>
  /\ UNCHANGED <<prog, fileIndex, modules, current, struct, table, codegen,
                 declared, emitted, outcome>>

TypeCheckFails == FrontAt("check") /\ Fails("type")

-----------------------------------------------------------------------------
(* backend() *)

BTop == Last(bstack)
BackAt(pc) == stage = "backend" /\ bstack # <<>> /\ BTop.pc = pc
SetBack(frame) == bstack' = ReplaceAt(bstack, Len(bstack), frame)

InListByPointer(m) == m \in codegen               \* mutant: compares pointers

\* LIB_module_in_list(): strncmp() over the length of the path looked for
InList(m) == \E p \in codegen : <<PathOf(p), PathOf(m)>> \in Extends

BackendEnterSilent ==                           \* mutant: no prototypes
  /\ BackAt("enter")
  /\ SetBack([BTop EXCEPT !.pc = "loop", !.own = struct[current]])
  /\ UNCHANGED <<prog, fileIndex, stage, current, codegen, declared, emitted, outcome>>
  /\ UNCHANGED heapVars /\ UNCHANGED frontVars

\* Structs without their functions, enums, GEN_module_prototypes(); then the
\* struct is copied to the stack ("own") and the imports are visited.
BackendEnter ==
  /\ BackAt("enter")
  /\ declared' = declared \union {PathOf(current)}
  /\ SetBack([BTop EXCEPT !.pc = "loop", !.own = struct[current]])
  /\ UNCHANGED <<prog, fileIndex, stage, current, codegen, emitted, outcome>>
  /\ UNCHANGED heapVars /\ UNCHANGED frontVars

BackendImports == content[BTop.own].imports
NextImport == BackendImports[BTop.k]
BackendPending == BackAt("loop") /\ BTop.k <= Len(BackendImports)

BackendSkipStuck == BackendPending /\ InList(NextImport) /\ UNCHANGED vars
                                                \* mutant: iterator not advanced

BackendSkip ==
  /\ BackendPending /\ InList(NextImport)
  /\ SetBack([BTop EXCEPT !.k = @ + 1])
  /\ UNCHANGED <<prog, fileIndex, stage, current, codegen, declared, emitted, outcome>>
  /\ UNCHANGED heapVars /\ UNCHANGED frontVars

AlwaysOriginal(m) == BTop.orig # 0              \* mutant: no strcmp()
NeverOriginal(m) == FALSE                       \* mutant: no comparison at all
IsOriginal(m) == BTop.orig # 0 /\ PathOf(m) = content[BTop.orig].path

\* The import is the file of the command line, whose backend() is running
BackendOriginal ==
  /\ BackendPending /\ ~InList(NextImport) /\ IsOriginal(NextImport)
  /\ current' = NextImport
  /\ SetBack([BTop EXCEPT !.k = @ + 1])
  /\ UNCHANGED <<prog, fileIndex, stage, codegen, declared, emitted, outcome>>
  /\ UNCHANGED heapVars /\ UNCHANGED frontVars

BackendCall ==
  /\ BackendPending /\ ~InList(NextImport) /\ ~IsOriginal(NextImport)
  /\ current' = NextImport
  /\ bstack' = Append(ReplaceAt(bstack, Len(bstack), [BTop EXCEPT !.pc = "wait"]),
                      BackCall(IF BTop.orig = 0 THEN BTop.own ELSE BTop.orig))
  /\ UNCHANGED <<prog, fileIndex, stage, codegen, declared, emitted, outcome>>
  /\ UNCHANGED heapVars /\ UNCHANGED frontVars

BackendReturn ==
  /\ BackAt("wait")
  /\ codegen' = codegen \union {NextImport}
  /\ SetBack([BTop EXCEPT !.pc = "loop", !.k = @ + 1])
  /\ UNCHANGED <<prog, fileIndex, stage, current, declared, emitted, outcome>>
  /\ UNCHANGED heapVars /\ UNCHANGED frontVars

\* The function a file defines; each file has its own, or main
FunctionOf(f) == IF prog.defines[f] = "main" THEN "main" ELSE f
InModule(f) == \E g \in Range(emitted) : FunctionOf(g) = FunctionOf(f)
Redefines(f) == prog.defines[f] # "nothing" /\ InModule(f)

ImportsDone == BackAt("loop") /\ BTop.k > Len(BackendImports)
OwnPath == content[BTop.own].path

\* After the imports *context->current_module is overwritten with the saved
\* struct: it may by now be an imported module, or the original one.
CopyBack == struct' = [struct EXCEPT ![current] = BTop.own]

\* code_generation(), then the module joins the list
GenerateCode ==
  /\ ImportsDone /\ ~Redefines(OwnPath)
  /\ CopyBack
  /\ UNCHANGED <<prog, fileIndex, current, content, declared, outcome>>
  /\ UNCHANGED frontVars
  /\ emitted' = Append(emitted, OwnPath)
  /\ codegen' = IF \E p \in codegen : <<PathOf(p)', OwnPath>> \in Extends
                THEN codegen ELSE codegen \union {current}
  /\ bstack' = Front(bstack)
  /\ stage' = IF Len(bstack) = 1 THEN "next" ELSE stage

\* codegen_nodes() returns an error for a second main; gen_codegen_function()
\* exits for any other function that has a body already.
RedefinitionFails ==
  /\ ImportsDone /\ Redefines(OwnPath)
  /\ CopyBack
  /\ Ends(IF FunctionOf(OwnPath) = "main" THEN "error" ELSE "exit")

DeclareFails == BackAt("enter") /\ Fails("gen")

GenerateCodeFails ==
  /\ ImportsDone
  /\ CopyBack
  /\ "gen" \in Faults
  /\ \E o \in {"error", "exit"} : Ends(o)

-----------------------------------------------------------------------------

Frontend ==
  \/ ParseFile \/ ParseFails
  \/ ImportRegistered \/ ImportOpen \/ ImportFile \/ ImportOverflow \/ ImportReturn
  \/ TypesOverflow \/ ParseEnd
  \/ FunctionsOverflow \/ TypeCheck \/ TypeCheckFails

Backend ==
  \/ BackendEnter \/ DeclareFails
  \/ BackendSkip \/ BackendOriginal \/ BackendCall \/ BackendReturn
  \/ GenerateCode \/ RedefinitionFails \/ GenerateCodeFails

Step == StartFile \/ FilesDone \/ GenerateOutput \/ Frontend \/ Backend

Terminated == stage = "done" /\ UNCHANGED vars

Next == Step \/ Terminated

\* One process without I/O to wait for: it takes a step as long as it can.
Spec == Init /\ [][Next]_vars /\ WF_vars(Step)

-----------------------------------------------------------------------------
(* Properties *)

\* Every variable has the type its C counterpart has; pointers that are not
\* NULL point into the heap.
TypeOK ==
  /\ prog \in Program
  /\ fileIndex \in 0 .. Len(prog.cmd)
  /\ stage \in {"next", "frontend", "backend", "output", "done"}
  /\ modules \in [1 .. Len(prog.cmd) -> 0 .. Len(struct)]
  /\ current \in 0 .. Len(struct)
  /\ Len(content) = Len(struct)
  /\ struct \in Seq(1 .. Len(content))
  /\ content \in Seq(Content)
  /\ table \subseteq [path : File, module : Pointer]
  /\ codegen \subseteq Pointer
  /\ declared \subseteq File
  /\ emitted \in Seq(File)
  /\ fstack \in Seq(FrontFrame)
  /\ bstack \in Seq(BackFrame)
  /\ outcome \in {"running", "ok", "error", "exit", "crash", "endless"}

\* parse() dereferences context->modules[i] of every file started so far
\* (main.c:417): none of them is NULL while imports are resolved.
OpenModulesExist == ImportPending => \A i \in 1 .. fileIndex : modules[i] # 0

\* While the frontends of the first file run, the i-th import of a module is a
\* module of the file its i-th import statement asks for (main.c:404-432); of
\* later files it need not be, as backend() overwrites modules (main.c:934).
ImportsMatch ==
  stage = "frontend" /\ fileIndex = 1 =>
    \A m \in Pointer : \A i \in 1 .. Len(ImportsOf(m)) :
      PathOf(ImportsOf(m)[i]) = prog.imports[PathOf(m)][i]

\* Code is generated for a file only when the prototypes of every file that
\* it imports are in the LLVM module (main.c:905-935).
ImportsDeclaredFirst ==
  [][\A i \in Len(emitted) + 1 .. Len(emitted') :
       Range(prog.imports[emitted'[i]]) \subseteq declared]_vars

\* What type_check() let a module call is declared when its code is generated:
\* the backend meets no call that it cannot resolve (main.c:491-510, 891-946).
CallsDeclared == ImportsDone => content[BTop.own].sees \subseteq declared

\* A search from some file may go round for ever.
SearchesEndless(g) ==
  LET same == [f \in DOMAIN g |-> f] IN
  \E f \in DOMAIN g : FunctionsEndless(g, same, f) \/ TypesEndless(g, same, f)

\* Where no stage finds an error in the sources, the compilation does not fail, and
\* it has generated the code of every file needed - unless a search for a name has
\* exhausted the stack, which takes imports that some search goes round for ever
\* (main.c:454-510, lib.c:381-400, 546-567).
Accepted ==
  /\ outcome \in {"running", "ok", "endless"}
  /\ outcome = "ok" => Needed(prog.imports, Range(prog.cmd)) \subseteq Range(emitted)
  /\ outcome = "endless" => SearchesEndless(prog.imports)

\* parse() recurses without end only into a cycle of imports that does not go
\* through the file of the command line (main.c:421-427).
OverflowOnlyOnCycle ==
  outcome = "crash" => ~AcyclicWithout(prog.cmd[1], prog.imports)

\* backend() nests at most one call per file, and one more for a file of the
\* command line that imports itself: codegen_modules and the comparison with
\* original_module cut every cycle that parse() let through (main.c:912-933).
BackendNests == Len(bstack) <= Cardinality(File) + 1

\* context_destruct() frees the vectors of every module of the command line:
\* no two of them may hold the same ones (main.c:118-130).
FreedOnce ==
  outcome \in {"ok", "error"} =>
    \A i, j \in 1 .. Len(modules) :
      (i # j /\ modules[i] # 0 /\ modules[j] # 0) => struct[modules[i]] # struct[modules[j]]

\* The driver implements BuildOrder: read through what is in the LLVM module, it
\* declares and generates code in an order that specification allows.
Build == INSTANCE BuildOrder WITH emitted <- Range(emitted), result <- outcome
ImplementsBuild == Build!Spec

\* Every compilation ends.
Terminates == <>(stage = "done")

=============================================================================
