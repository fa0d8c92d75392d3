# Luka in TLA+

Luka is a compiler: a C front end for a small language and an LLVM back end. It
is one sequential process, apart from the linker it starts, and it is driven by
data: import graphs, nested statements, calls of the system that may fail. What
is hard in it is not parallelism but recursion over graphs with shared mutable
state (`context`, the static variables of `gen.c`), the order in which that
state is filled, and what is left when one step of several fails.

This directory holds TLA+ models of its parts, the TLC runs that check them
on small instances, and proofs, checked by TLAPS, of what holds for every
instance. `PROJECT.json` maps every definition to the lines it stands for.

* [Inventory](#inventory): the parts of the compiler
* [Modules](#modules): how the models correspond to the code
* [Runs](#runs): what is checked, with which bounds
* [Proofs](#proofs): what is proved, and how
* [Disagreements](#disagreements-with-the-documentation) between the code and
  what it says of itself
* [Not modelled](#not-modelled), and [the plan](#plan)

## Inventory

| part | code | state | operations | interacts with |
|---|---|---|---|---|
| driver | `src/main.c` | `context`: `modules`, `file_index`, `current_module`, the hash `imported_modules`, the vector `codegen_modules`, the LLVM module | `do_file`, `frontend` (`lex`, `parse`, `type_check`), `backend`, `code_generation` | calls every other part; `parse` calls `frontend` again for an import, `backend` itself |
| output stage | `optimize`, `generate_output` in `src/main.c`, `IO_copy` in `src/io.c` | the temporary file, the output path, a child process | write, emit, close, fork, wait, unlink, rename, copy | LLVM, gcc, the file system |
| code generator | `src/gen.c` | the builder's place, `loop_blocks`, `defer_blocks`, `named_values`, `struct_infos`, `enum_infos` (static variables) | one `gen_codegen_*` per node, casts and comparisons of LLVM values | LLVM; called by the driver for each module |
| syntax tree | `src/ast.c`, `include/defs.h` | nodes | constructors, `AST_fix_*`, `AST_fill_*`, resolution of aliases, free, print | parser, driver, generator |
| name lookup | `src/lib.c` | none; reads modules and their imports | `LIB_resolve_func_name`, `LIB_is_struct_name`, `LIB_is_enum_name`, `LIB_module_in_list` | type checker, type resolution, driver |
| lexer | `src/lexer.c` | index, line, offset | `LEXER_tokenize_source` | `lex` |
| parser | `src/parser.c` | `index` into the tokens, the module that is being built | `PARSER_parse_file`, one function per construct | `parse` |
| types | `src/type.c` | none | `TYPE_equal`, casts, sizes, `TYPE_get_type` | checker, generator |
| type checker | `src/type_checker.c` | none | `CHECK_function`, `check_stmt`, `check_expr` | `type_check`, name lookup |
| paths and files | `src/io.c` | none | `IO_resolve_path`, `IO_get_file_contents`, `IO_copy` | parser, `lex`, output stage |
| built-ins | `src/core.c` | a table | `CORE_initialize_builtins`, lookup | checker, generator |
| logger, utilities | `src/logger.c`, `src/utils.c` | a log file | messages, names | all |
| containers | `libs/vector.c`, `uthash.h` | `size`, `capacity` and the block of a vector; buckets with chains | push, insert, erase, resize, reserve, shrink; add, find, expand | all |

What makes each part correct:

* driver: every file that is needed is compiled, once, after the prototypes of
  what it imports; each import is bound to the module of the file it names,
  whatever cycles there are; nothing recurses for ever, nothing NULL is
  dereferenced and nothing is freed twice, although `backend` copies structs
  over each other.
* output stage: success means that the output is there; the linker finds its
  object file; an error leaves the old output alone and no file behind.
* code generator: the code that is accepted does what the source says, on every
  path; a `break` finds its loop; deferred bodies run last first, each as often
  as the source says.
* promotion of last expressions: the value a body ends with is not lost.
* name lookup: what is found is visible, what is visible is found, and a circle
  of imports does not make the search endless.
* lexer, parser: tokens are what the text says; each construct leaves the
  cursor where its caller expects it; malformed input ends with an error.
* types, checker: a cast that is allowed is one the generator can build, with
  the same number as its result; a program that is accepted meets no missing
  name in the generator; what is assigned to was declared as mutable.
* variables: a name means the nearest declaration before it, in the filling in of
  types, in the checker and in the generator alike.
* containers: a vector is a list, whatever was added and taken away and
  whichever allocation failed; a table finds the entry that was added last.

The behaviours that are hard to test are listed under `hazards` in
`PROJECT.json`, each at its line with the properties that cover it.

## Modules

`Driver` composes the parts as `main` does: lexing, parsing, checking, the
generation of a module and the output stage are single steps of it. `Lexer`,
`Parser`, `Variables` (filling in, resolution, checking, storage), `FunctionGen`
and `Output` look into these steps, and `NameLookup` looks into the searches that
`Driver` takes as one step: as a set when they end (`Visible`), as an overflow
when they may not (`TypesOverflow`, `FunctionsOverflow`).

| module | models | proofs |
|---|---|---|
| `ImportGraph` | import graphs: what a compilation needs, cycles through a file | |
| `BuildOrder` | abstract specification: declare and emit each needed file once, in an order that respects imports | |
| `Driver` | `main.c` from the loop over the files to the call of `generate_output`; implements `BuildOrder` | `DriverProofs`, `ImportProofs` |
| `Output` | `optimize`, `generate_output`, `IO_copy`, the child process and gcc | `OutputProofs` |
| `Lexer` | `lexer.c`, a character at a time | `LexerProofs` |
| `Parser` | `parser.c`: the cursor and every function of the recursive descent | |
| `Printer` | the text of a tree, the reference for the parser | |
| `Syntax` | statements, nested bodies, `AST_fix_function_last_expression_stmt` | |
| `FunctionGen` | the control flow in `gen.c`, with the verifier of LLVM | `FunctionProofs` |
| `FunctionInvariants` | what always holds during a generation; no part of the model | `FunctionProofs` |
| `Execution` | the generated code runs beside its source | |
| `NameLookup` | the searches of `lib.c` | `LookupProofs` |
| `Types` | `type.c`, and the LLVM types of `gen.c` | |
| `Arithmetic` | what becomes of a number: the rules of the checker, casts and operators of `gen.c` | |
| `Variables` | from the tree to the storage: `AST_fill_*`, `AST_fix_types`, `AST_resolve_type_aliases`, assignments in `type_checker.c`, let and assignment in `gen.c` | |
| `NamedValues` | `named_values` of `gen.c`, a table of uthash; part of `Variables` | `NamedValuesProofs` |
| `Lists` | abstract specification: a list that nothing but a failed allocation loses | |
| `Vector` | `vector.c`; implements `Lists` | `VectorProofs` |
| `MC*` | instances for TLC | |

### Driver

`fstack` is the stack of nested calls of `frontend()` and `bstack` that of
`backend()`; a frame's `pc` says where in the function it is. A `t_module` is a
pointer, an index of `struct`, and what the struct holds is an index of
`content`. The indirection is what `backend()` needs: `memcpy()` makes one
struct hold the fields of another (`CopyBack`), after which two pointers share
one path and one vector of imports. `table` is `imported_modules`, as a set of
entries because uthash does not refuse a second entry with the same key;
`codegen` is `codegen_modules`; `declared` and `emitted` say what is in the LLVM
module. `TypeCheck` records in `sees` which files' functions the checker could
find from a module (history, compared later with `declared`).

Which names a file looks up is left open. Where the modules it imports by then
have a circle that the search does not cut (`TypesEndless`, `FunctionsEndless`), a
search may go round it until the stack is exhausted, when the types are resolved
(`TypesOverflow`) or in the checker (`FunctionsOverflow`), and the outcome is
`endless`; or it may find all its names before the circle, and the compilation goes
on. `Visible` is then an upper bound of what it can have found.

The stages inside lexing, parsing, checking, generating and output may fail on
some input: they are steps that end the process with an error (`main()` returns
a status) or an exit (a stage calls `exit()`), if the constant `Faults` allows
it. Files are resolved paths; `Extends` says which paths are prefixes of which,
for the `strncmp()` in `LIB_module_in_list()`. The depth of the C stack is
`MaxDepth`.

### Output

The compiler and its child interleave. Each call of the system or of LLVM is an
action that works or fails, `unlink()`, whose result is dropped, included, and
`failed` remembers which have. Files are seen as
the blocks that `IO_copy()` would move: the generated code is `1..Blocks`, what
was at the output path before is block 0. gcc is external: it needs the object
file while it runs, and either writes the whole output or fails.

### Syntax, FunctionGen, Execution

A function is the sequence of its bodies; a statement names the bodies nested
in it, and no body belongs to two statements. Only what matters for control flow is
kept: `call` is any statement that generates code without a value, `value` an
expression at the end of a body, and `literal` such an expression that
`AST_is_expression()` does not list (`true`, `null`, an access to an array): at the
end of the function itself its value is made and then given up for a zero
(`Returned`). `LiveIn` (the statements that a text goes through)
and `InDeferred` (the bodies nested in a deferred one) are least sets, the smallest
of those that are closed under nesting. Types are left out, and so are `if` and `while` as operands of other
expressions.

`FunctionGen` has the recursion of `gen_codegen_stmts()` and its callers as
`stack`. An action is one statement, or the end of a body. `code` is the list of
instructions in the order they are built, each with its block and the statement
it stands for. `Terminated` and `Dominated` are the two rules of
`LLVMVerifyFunction()` that the generator can break: a block ends with its
only terminator, and a value is used only where it was computed.

`Execution` runs accepted code, block by block, beside its source (`source`, a
stack of bodies): whenever the code calls, tests or returns, the source must
do so next (`FollowsSource`). A condition may turn out either way each time, so
loops run any number of times. The source's deferred bodies are those that
precede a return in the text (all of them, at the end of the function), last
first, whether or not the branch they stand in was taken: that is what "all
currently defined defer blocks" (`gen.c:34`) means for a generator, and it is
the reference here. Conditions and results are evaluated where the code does
so; the expression of a `return` comes after the deferred bodies in both.

### NameLookup

The three searches share one shape: look into the module, then call the search
for each import unless its path is that of `original_module`. They differ in
what they hand on as `original_module` (`Original`): the search for functions
the module that asked first, the searches for types the module they are in.
`found` is what the call that returned last has found.

### Lexer

A source is the sequence of its characters, ended by one EOF as
`IO_get_file_contents()` leaves it; what is behind it is a NUL, and reading
behind that ends the model (`overrun`). The main loop and the functions for
strings, numbers and identifiers are the places `pc`; each action takes a
character or finishes a token. `start` and `end` of a token are history: the
properties compare tokens with the piece of the source they stand for.
`Lexeme` is the reference for what a token may look like.

### Parser, Printer

A function of the parser is an operator from one state (where the cursor is, what
was made, how it ended) to the next, which keeps the calls and their order.
The functions, which call each other in circles, do so through `Parse`, which takes
the name of what to parse. `Match`, `Expect` and `Advance` are those of the code, a state in which the
parser has given up passes through. Looking beyond the last token is an
`overrun`: an assertion fails there, and without assertions it is undefined. The
run starts in a state for each file and parses it in one step, so that what is
checked is a function over bounded inputs. `Printer` gives each tree its text,
with as few parentheses as the grammar allows, and `Written` gives what was parsed
the words it accounts for.

### Types, Arithmetic

A type is the sequence of its layers. `Arithmetic` follows one number through a
program: declared again with another type, cast, combined with literals.
`number` is what the program says (history), `type` luka's type and `value` the
LLVM value, which has no sign. Where luka's arithmetic is known to go wrong is
stated by `CastGoesWrong`, `Means` and `HasRoom`, after which nothing is claimed of
the number any more; the list is under [disagreements](#disagreements-with-the-documentation).

### Variables, NamedValues

`source` is a module as the parser left it, `program` the same module as it is
rewritten by filling in and resolving, one function at a time. Then the checker
judges each function, and the generator makes a slot for each global, parameter
and let, in the order of the text. `stored` says what type it holds.

`NamedValues` is the part of this that deals with names, and can stand alone: it
declares a name, looks names up, and goes on to the next function, in any order.
Every action of `Variables` that touches `slots`, `table`, `uses` or `owner` has
one of its actions (`Declare`, `LookUp`, `NextFunction`) as a conjunct. `slots` are
the names in the order of their declaration; `uses` remembers for each reference
which slot the table gave and which one the text means. The table has uthash's
chains: a new entry comes first in the chain of its bucket, and growth takes the
chains apart from the front (`Moved`), which turns them around.
A look into a type that is not there, an unknown or endless alias, a rejected
program and a value of another type than its storage are stages in which the
compilation ends.

### Vector, Lists

`data` is the block, `Junk` memory that was never written. Every insertion grows
the block before it moves elements, every erasure may shrink it, and every
allocation may fail, after which the vector is `lost`. `Lists` is what callers
believe; `ImplementsList` maps the first `size` cells to the list.

## Runs

Every run finishes within two minutes. Deadlock is checked in all of them; the
end of a compilation is an explicit stuttering step (`Terminated`, `Generated`,
`Done`, `Over`), which only the states where the code is really over enable.

| run | instance | shows |
|---|---|---|
| `driver_root` | four files; the root imports up to three, the others up to two different ones; every cycle goes through the root; all import graphs of that kind in which every file is needed (151,458 states) | the compilation succeeds, or exhausts the stack in a search for a name where the imports let one go round; nothing is left out or emitted twice, no call lacks its prototype, and it ends |
| `driver_any` | three files, with one and with two files on the command line, any import graph, any stage failing (145,556 states) | `Driver` implements `BuildOrder`, imports are bound to the right files, prototypes come before code, only a cycle that avoids the root overflows the stack, no NULL module is followed, the recursion of `backend()` is bounded, nothing is freed twice |
| `output_stage` | three blocks, every call may fail, in any combination (368 states) | see [Output](#output) |
| `execution_source` | functions of up to three bodies, or four with shorter lists, of at most two statements each, whose deferred bodies neither return, defer nor break | breaks find their loops, the reasons for a rejection, generation ends, and accepted code does what its source says, but that a literal at the end of a function is a zero (453,460 states) |
| `lookup_search` | all import graphs of four modules with up to two imports each whose circles go through the file of the command line; that file asks, or another one (836,845 states) | a search that ends is sound and complete; it overflows the stack on a circle that no call cuts and on nothing else |
| `lookup_circle` | a module beside a circle asks for a function that it imports; a ring of three modules without the type asked for | a [disagreement](#disagreements-with-the-documentation): expected to fail |
| `lexer_tokens` | every text of up to four characters of fourteen classes, of five of those in strings and six of those in numbers (350,937 states) | tokens are the longest lexemes, stand where they say and leave nothing out; only an open string or comment is read past its end; every source ends |
| `lexer_quote` | the one text of a test | a [disagreement](#disagreements-with-the-documentation): expected to fail |
| `parser_files` | the texts of trees of every construct over every construct, whole and cut short, and files with a hole filled with every sequence of up to five words | texts come back as their trees, what is accepted is in the tree but for the places listed, and only unfinished files are read past their end |
| `vector_list` | up to five elements, every first capacity, any allocation failing | no write leaves the block, and the vector is a list |
| `arithmetic_values` | numbers at the limits of all types, two statements | the number stays what the program says and every conversion is one LLVM has, but for what is listed |
| `variables_module` | four families of modules: types and aliases, bodies in bodies, orders of parameters and lets, names shared by functions (112,854 states) | which variable a name finds, in a table that loses none, which type it is given, what may be assigned to, and which modules bring the compiler down |

Why the bounds are enough:

* Three files make every kind of cycle the driver tells apart (a file that
  imports itself, a cycle through the root, a cycle beside it) together with a
  file shared by two importers; a fourth adds a diamond inside a cycle. What the
  code does with an import depends on the hash, on the open files and on the
  original module, all of which these graphs reach in every combination.
  `MaxDepth` 5 or 6 is more than the number of files, so only a repetition can
  reach it.
* With two bodies nested in the function, one finds a loop in a branch and a
  branch in a loop; the third and fourth are what a second branch, or something
  deferred inside, needs. Two statements make a first and a last one.
  `MaxStack` (12) and `MaxDefers` (4) are out of reach of functions of four
  bodies unless the generation does not end.
* Four modules make a circle beside the one that asks and the module that has
  the name. The graphs are those that the parser survives (`OverflowOnlyOnCycle`);
  the modules that are not on the command line differ in their names only, so that
  one of them asks for all. `MaxDepth` (17) is one more than the number of pairs of
  modules: a search that gets there has made a call twice, with the same
  `original_module`, and goes on like that.
* Three blocks are a first, a middle and a last one for `IO_copy()`.
* The lexer looks at three characters at most; four make a token and one beside
  it. Longer texts have the classes of one kind of token only: an escaped
  character inside a string, a fraction with its suffix.
* The parser looks at the token under the cursor and the next one. The operands of
  each construct are every other one, which is what precedence and the
  place of the cursor depend on; the holes put every word where the code does not
  look at what stands there.
* Five elements take a vector of the least capacity (two) through two growths.
* Widths of one to five bits stand for 1, 8, 16, 32 and 64, and floating-point
  numbers have whole values that fit three and four bits exactly: the order of
  the widths is that of the real ones. Two statements make a value of one width
  under a type of another.
* The table begins with 2 buckets in place of 32 and grows when a chain has more
  than 3 entries in place of 10: the fourth declaration of a name makes it grow.

Fairness. `Driver`, `FunctionGen`, `NameLookup` and `Lexer` are one thread that
waits for nothing, so weak fairness of its steps says only that it runs. In
`Output` the system schedules both processes, and gcc is taken to terminate
(`WF_vars(Child)`); a read error that `IO_copy()` meets again and again is
excluded by `Returns` itself, which says so, and not by fairness. In `Execution`
only the generation is fair, not the run of what was generated. The other
modules have safety properties only.

Every property of a passing run has a mutant in `PROJECT.json`: a plausible bug
(a dropped comparison, a missing pop, an early return) under which TLC finds it
violated. The mutants stand next to the definitions they change and are marked
as such; no specification uses them.

## Proofs

TLAPS checks the theorems below for every value of the constants: any number of
files and programs, any stack depth, any set of failing stages or calls, any
number of blocks, sources and vectors of any length. The assumptions are those
of the modules (`DriverAssumptions`, `OutputAssumptions`,
`FunctionGenAssumptions`, `NameLookupAssumptions`, `VectorAssumptions`,
`LexerAssumptions`, `NamedValuesAssumptions`), which TLC evaluates on every run.

* `DriverProofs!TypeCorrect` (`TypeOK`) and `OpenModulesAlwaysExist`
  (`OpenModulesExist`). `TypeOK` is not inductive: an action takes the last
  element of a stack, or follows a pointer in a frame. The invariant `Inv` adds
  that each stack is used in its own stage only (`StacksApart`), that frames
  below the innermost wait inside an import statement that exists
  (`FrontStackOK`, `BackStackOK`), that `current_module` is set wherever it is
  followed (`CurrentOK`), and that only the file that is being parsed may have a
  NULL entry in `context->modules` (`ModulesOK`), which gives the second theorem.
* `DriverProofs!NeverFreedTwice` (`FreedOnce`), for any command line. `backend()`
  copies the struct of the file it was called for over `context->current_module`
  (`main.c:934`), so that pointers come to share a struct. `HeapInv` says what
  keeps the modules of the command line apart (`RootsApart`): what was
  overwritten, and what it was overwritten with, is declared
  (`OverwrittenDeclared`, `CodegenDeclared`); some module of `codegen_modules`
  keeps such a path listed until the end, so that the module is never visited
  again (`StaysListed`); the structs of the files already compiled are listed, or
  nobody else will get them (`CompiledHold`); a `frontend()` works on a module that
  nothing else refers to (`FrontHeap`); and a `backend()` that is waiting was called
  for an import of its caller, and no compiled module (`BackHeap`).
* `ImportProofs!EveryImportMatches` (`ImportsMatch`), `OverflowNeedsCycle`
  (`OverflowOnlyOnCycle`), `PrototypesFirst` (`ImportsDeclaredFirst`) and
  `NestsOncePerFile` (`BackendNests`), from `HeapInv` and `GraphInv`, which describes
  the imports of a command line of any length. A module is of the command line
  (`Roots`), worked on (`Working`) or `Done`. An import is bound to a module that is
  done and of the path it names, or to one of the command line that had it or has
  been overwritten, and then the path is declared (`Bound`: this is what remains of
  `ImportsMatch` after the first file). The imports of a file that is done are done
  or registered (`DoneImportsMet`), no cycle is made of such files alone
  (`DoneAcyclic`), nested calls work on different modules (`FramesApart`), each
  for the import its caller is at (`FramesChained`), and that file was neither open
  nor registered (`NestedFrame`).
  `OverflowNeedsCycle` then is a pigeonhole argument: with more nested calls than
  files two are for the same file, the second was neither open nor registered, and
  so the first file is not on the cycle between them; `FirstInv` carries this over to
  the later files of the command line, since a first file on a cycle is registered
  when its `frontend()` returns (`FirstRegistered`, `SelfRegistered`). It assumes a
  finite set of files and a stack with room for one call per file, without which
  an acyclic program overflows it too. For
  `NestsOncePerFile` no two of the calls behind the first visit modules of one path:
  the files between them would be a cycle of files that are done.
  `PrototypesFirst` needs that no path begins with another one (`PathsApart`: then
  `LIB_module_in_list` compares paths), and that the imports before the one a
  waiting `backend()` is at are declared (`VisitedDeclared`).
* `ImportProofs!CallsAlwaysDeclared` (`CallsDeclared`), `BuildsInOrder` and
  `AlwaysAccepted` (`Accepted`), for one file on the command line (`OneFile`),
  and paths of which none begins with another (`PathsApart`); any number of files,
  and any imports. What a module sees is what the checker of its file could search, so
  the first theorem is about when modules are checked and in which order they
  are declared. A module that was checked during the k-th import of the first
  file sees that file, what the imports before need, and what it needs itself
  (`SeesWithin`), and so do all modules below it up to the first file's
  (`DeepWithin`). A nested `backend()` works below the import that the first
  file's is at (`VisitWithin`), and all that the earlier ones need is declared
  by then (`EmitInv`); with several files on the command line it need not be,
  and no run claims it. `BuildsInOrder` is the safety half of the refinement
  `ImplementsBuild`: the first state of the driver is one of `BuildOrder`, and
  each step is a step of it or changes nothing there, whatever cycles there are: a
  stack that is exhausted is one of the ways to give up that `BuildOrder` has. (With
  two files on the command line, which `driver_any` has as well, only TLC has checked
  it.) `AlwaysAccepted` says that the compilation is not rejected and does not
  crash in `parse()`: it ends with the code of all files, or in a search that the
  imports let go round for ever (`SearchesEndless`), which no theorem excludes because
  the code does not. For it no
  stage finds an error (`Faults = {}`), at most one file has `main` (`OneMain`),
  and the first file does not import itself either (`CyclesThroughFirst`);
  `driver_any` has the programs that are rejected otherwise. A file fails when
  it is compiled a second time, so no two modules of one file may both get to
  `generate_module()`. There may be two: `parse()` registers what a file imports
  unless that file is registered itself (`main.c:434`), as the first one is once
  a file below it has imported it; what it imports from then on is parsed again
  when another file imports it. `KnownInv` says which modules are registered
  (`DoneKnown`, `ImportsKnown`), and that one that is not is newer than all it
  could be confused with (`NewestAt`: nothing before it imports its file).
  `OnceInv` carries that through the second stage: what a nested `backend()`
  works on is not compiled yet (`VisitsOnce`), every module of a compiled file
  is listed, or will be next (`EmittedListed`), and the modules left to the
  first file are newer than those it has done (`OlderThanRest`).
* `OutputProofs`: `LinkerAlwaysHasObject`, `SuccessOnlyDropped`,
  `ErrorsKeepOutput`, `OutputTypeCorrect` (`TypeOK`) and `SuccessRemovesTemp`
  (`TempRemoved`: only a failed `unlink()` or `rename()` leaves the temporary behind
  a success), from one invariant that says at each place of
  `generate_output()` what the files hold, what the child may be doing, and how
  much `IO_copy()` has written.
* `FunctionProofs`: `TypeCorrect` (`TypeOK`), `BreaksFindLoop`
  (`InnermostLoop`) and `NothingLeft` (`LoopsLeft`), for functions of any size.
  The invariant says of each frame that it stands in a body of the function
  (`FrameOK`), of two neighbours that the lower one waits for the upper one where
  it may (`Linked`: the statement it stands at exists, and has an else branch if
  one is to come; nothing but the end of the function or a statement waits for
  deferred bodies), and that `loop_blocks` is the sequence of the blocks after
  the loops on the stack (`Matched`). The last needs a witness, the position on
  the stack of each element: `InnermostLoop` alone is not inductive, since the
  end of a loop uncovers the next one.
* `FunctionProofs!Verdict` (`RejectedFor`), also for functions of any size: the
  verifier accepts what it should unless the function is one of three kinds, and
  never accepts two of them. `VerdictInv` of `FunctionInvariants` is what makes it
  inductive. Its first half has five parts. `ShapeInv` places the frames: which are in
  the text and which in deferred bodies, what each waits for, and that a body is gone
  through up to its first return. `MarkInv` gives the rejection: a return in
  a loop that has been passed has left a block that goes on behind its end
  (`Doubled`), a defer that has been passed is in `defer_blocks`, and once a return
  at the top level has ended its block the deferred bodies add to it (`Repeats`).
  `BlockInv` gives one half of the acceptance: in all other functions a block ends
  once, the blocks that pending statements go on in are empty, no two statements go on
  in the same block, and only the builder's own block and those have not ended.
  `TargetInv` and `ValueInv` give the other half: a value that a phi uses comes from
  the block named there, and the value returned was made in the block where the
  builder stood before the deferred bodies; whatever they add can be reached through
  that block only (`Enclosed`), from which `EndDominated` concludes that it dominates
  the use.
  The second half is for functions whose deferred bodies return or defer. They are not
  in the run, but the theorem is about them as well: by `NeverEnds`, the innermost
  `gen_codegen_defer_blocks()` always has a body ahead of it that starts it anew or
  prolongs it, so that no verdict is ever given.
  TLC has checked `VerdictInv` on the functions of `execution_source` and on
  functions of the second kind before it was proved. Of the recursive
  functions the proof uses that they are what their definitions say (`FixedOf`,
  `YieldsOf`, `ReachOf`), and what follows from it by induction, which is put into
  sets of numbers (`SetInduction`) where the library's theorem asks for an operator.
* `LookupProofs`: `TypeCorrect`, `OnlyVisibleFound` (`FoundIsVisible`) and
  `CuttingHidesNothing` (`NoneIsNone`), for every import graph, those on which
  the search does not end included. A call that is cut at `original_module` has
  searched only a part; what it returns is that its module is `Barren` without
  that one: a set of modules without the name holds it whose imports leave the set
  only for `original_module`. Such sets of the imports join to one for the
  importing module (`BarrenJoins`), whether functions or types are searched, and
  at the first call, which has no `original_module`, nothing is left out.
  `OverflowIsForeseen` (`OverflowForeseen`) says which searches do not end, for a
  stack with room for one call per pair of modules. In one direction, a path of more
  calls than that has two for the same module with the same `original_module`
  (`PathRepeats`, a pigeonhole argument over what `Traced` says of the path: each call
  is for an import of its caller's module that the caller did not cut); the calls
  between them are a circle that no call cuts (`RepeatedEndless`). In the other,
  `Rounds` is the largest set of calls of which each makes another one (`Turning`). A
  call that has returned without a result was not in it (`Ended`), since it has made
  all its calls and each of them has returned likewise (`EndedJoins`); the first call
  of an endless query is in it (`EndlessTurns`).
* `VectorProofs`: `TypeCorrect` (`TypeOK`), `WritesStayInside` (`NoWildWrite`)
  and `VectorImplementsList` (`ImplementsList`), for any first capacity and number
  of elements. `TypeOK` is inductive; the refinement shows for each operation
  that the first `size` cells of the new block are the old ones with one element
  put in, taken out or changed, from a lemma for each way of moving cells.
* `NamedValuesProofs`: `NoEntryLost` (`StoredOnce`), `DeclaredIsFound` and
  `NearestFound` (`NearestUnlessGrown`), for any names, any hash, any first number
  of buckets and any bound on their chains. `Entered` says that each chain holds
  the storages whose names have its bucket, each once. That growth keeps this is an
  induction over the items of a chain (`RebuiltKeeps`), together with the fact that
  a bucket of the larger table gets its items from one of the smaller
  (`BucketHalved`). `NewestFirst`: as long as the table has not grown, chains have
  the newest in front. Since storages are made for the globals first and then
  for one function after the other (`SlotsOK`), the newest of a name is the one the
  text means, or belongs to an earlier function.
* `LexerProofs`: `LexerTypeCorrect` (`TypeOK`) and `LexerSkipsNothing`
  (`NothingSkipped`), for sources of any length over any letters, digits and
  keywords. The invariant says that the tokens so far tell all of the source
  before the place where the current token or comment began (`Told`): they are in
  order and do not overlap, and every other character is white space or in a
  comment. That place must be the index in the main loop (`MainInv`), before the
  end of the source in a token (`TokenInv`), and the slashes on the same line in a
  comment (`CommentInv`). `TokenTells`, `SpaceTells` and `CommentTells` carry it
  forward, whatever the token is; an index behind the end of the source is left by the
  end of the file or by a nameless `@` only (`Ended`).
  `TokensAreLongest` (`LongestMatch`), `TokensPlacedRight` (`PositionsRight`) and
  `OverrunsUnterminated` (`OverrunOnlyUnterminated`) need to know what has been
  read of the current token. A lexeme is a property of a piece of the source;
  `LexemePiece` turns it into one of positions (`LexemeAt`), and by `FirstTells` the
  first character decides which kind a lexeme is. `ReadInv` then has a clause for
  each function of the lexer: the digits with or without a point, the characters of
  a name; and in a string that every quote before the index is behind an odd number
  of backslashes, and the index behind an even one (`InLiteral`), which is what an
  escape of two characters keeps. Where a function stops, the next character rules
  out every longer lexeme (`DigitsLongest`, `FractionLongest`, `NameLongest`,
  `LiteralLongest`, `PunctuationLongest`); where it runs out of a string, every quote
  was escaped. `PosInv` says of the next character, or of the beginning of the token
  or the rest of the comment, that its line and column are known as long as no token
  before it has a newline in it (`Placed`).

Type invariants and `LoopsLeft` are proved for every instance, so no run checks
them a second time (`RoundTrip` and `NumbersKept` include those of
`Parser` and `Arithmetic`, about which nothing is proved).

Only model-checked: liveness (`Terminates`, `Returns`, `Ends`, and that half of
`ImplementsBuild`) and anything with ENABLED, which TLAPS does not do here;
`FollowsSource`, which relates the places of the running code to those of a source of
its own; what the least sets and recursive functions of `Syntax` come to for a given
function, which the runs compute. `Parser`, `Printer` and `Variables` walk over trees
with RECURSIVE operators, as the code does, and `Arithmetic` needs the bits of numbers:
these four are TLC's alone, but for the table of names.

## Disagreements with the documentation

Two are runs that TLC ends with a counterexample, and findings in
`PROJECT.json` that quote the lines:

* `lexer_quote`: an escaped double quote in a string becomes a single quote, since
  its case has no `break` (`lexer.c:232`); `tests/lexer.c` and the comment of the
  function want a double quote. An escaped zero becomes a carriage return
  likewise (`lexer.c:241`).
* `lookup_circle`: a search cuts a circle of imports only at the one module that
  `original_module` names (`lib.c:548`). With `m` importing `b` and `a`, `b`
  importing `m`, and `a` importing `m` and `c`, the search that checks a call in `a`
  of a function of `c` goes from `m` to `b` and back until the stack overflows,
  although the function exists and the parser takes the program. A search for a type hands on the module it was in last, and
  goes round any ring of three modules that lack the type (`lib.c:395`). `lib.h`
  calls `original_module` "used for solving circular recursion". `Endless` says
  which searches these are.

The models show more behaviour of this kind. The properties of the passing runs
say where it begins and ends, or the instances leave it out so that the rest can
be checked.

Driver and output:

* With two files on the command line, an import that both share is bound to a
  module (`main.c:408`) which `memcpy()` has overwritten (`main.c:934`);
  `ImportsMatch` is stated for the first file only.
* A cycle of imports that does not go through a file of the command line is
  parsed until the stack is exhausted (`OverflowOnlyOnCycle` says that these are
  the only ones), although parse() means to be "solving circular imports"
  (`main.c:413`).
* `Extends` is equality of paths in every run. With a path that another one
  begins with, a file is left out: `LIB_module_in_list()` takes the shorter
  for generated once the longer is (`lib.c:329`).
* A failing gcc, `fork` or pass manager does not change the status of
  `generate_output()` and `optimize()` (`main.c:749`, `main.c:844`);
  `SuccessUnlessDropped` lists the calls whose result is dropped.

Functions and lookup:

* A return in a loop, or behind a defer at the top level, makes code that the
  verifier rejects (`gen.c:1562`), although the grammar takes a return anywhere.
* The value of an `if` behind an empty first branch is lost (`ast.c:363`).
* A `defer` in a deferred body is generated for ever, and so is a `return` in
  one (`gen.c:48`): the functions of `execution_source` have neither, and
  `FunctionProofs` shows that such a generation comes to no verdict (`NeverEnds`).
* A function whose body ends in `true`, `null` or an access to an array returns
  zero, since `AST_is_expression()` lists neither (`gen.c:1514`, `ast.c:1230`), while
  the same expression in a `return` or in a nested body is returned: `Answer` is this
  exception in `FollowsSource`.

Lexer and parser:

* A `@` without a name takes the next character along, the end of the file
  included (`lexer.c:576`): the parser is then given tokens without an end. The
  files of `Parser` all have one.
* `3.14f` is read with its suffix, but the suffix is no part of the content, so that
  the branch for it in the parser is never taken.
* A file that ends in the middle of a construct makes the parser look beyond the
  tokens (`parser.c:259`, `parser.c:285`), to report where the error is for
  instance: the position in a message is that of the token behind the wrong one.
* `mut` makes a layer of the type of its own and swallows the token that follows
  it; the name of a field, the key of a value, the length of an array and
  the word before a method are whatever token stands there. `NothingDropped` lists
  the places.
* `a.b.c`, values of structs without fields and imports behind the first items
  are in the grammar and rejected.

Numbers:

* Casts widen signed numbers with zeros (`gen.c:512`), operands of operators are
  widened as signed numbers even when they are unsigned (`gen.c:229`, `gen.c:646`),
  and an integer is made a floating-point number by copying its bits, or not at
  all when the widths differ (`gen.c:496`).
* `<` on floating-point numbers is built as `<=` (`gen.c:957`); the result of a
  comparison has one bit whatever luka's type of it; `!` inverts every bit
  (`gen.c:1173`).
* The checker lets an `s64` become a `u8` without a cast and refuses to let an
  `s32` become an `s64`; whether pointers are equal does not depend on what is
  mutable.

Variables:

* A let without a type whose initialiser is a variable brings the compiler down
  when that variable is the third parameter, or the second for `let mut`, or a
  local of a function with two or more parameters (`ast.c:856`, `type.c:668`);
  `CrashForeseen` says which.
* A number's type is mutable (`type.c:577`), and so is every variable declared by a
  let with a number and no type, with `mut` or without: `AssignedDeclaredMutable`
  excepts them.
* References to globals have no type, so that globals can neither be assigned to
  nor initialise a let without a type.
* When many declarations share a name or a bucket the table grows and turns its
  chains around: an older variable is found, in another function maybe. The
  verifier rejects the function, or the wrong variable is used in silence.
* A local hides a global of the same name for all later functions, which are
  rejected.
* What is declared in an `if` that stands in an expression statement has
  references without types, and cannot be assigned to.
* Methods of structs are never filled in, resolved or checked.
* A type that was given an alias loses its `mut`, and aliases in initialisers and
  nested bodies are left unresolved; circular aliases exhaust the stack
  (`ast.c:440`), and an alias of a struct is unknown.

## Not modelled

* In `gen.c`: arrays, structs, enums, strings, prototypes and calls, each one
  LLVM call after the other without state of its own but for the tables of
  struct and enum names.
* In `type_checker.c`: the arguments of calls, array and struct literals. The left
  operand of a binary expression is never checked (`type_checker.c:283`), which
  needs expressions of several operators.
* Constructors, destructors and printing of nodes, the logger, string helpers,
  the built-in functions (a table of one entry): straight-line code without state
  that others read. `IO_resolve_path()` is an input of `Driver` and `Parser`.
* Allocation failures outside of `vector.c`, and the leaks on error paths: the
  models say what is freed twice (`FreedOnce`), not what is never freed.
* Buffer sizes and memory layout (names over 1024 bytes, the element size of
  `defer_blocks`): below the level of the models. They are listed as hazards.
* `vector_copy()`, `vector_move()` and `vector_swap()`, which are called nowhere,
  and the deletion of entries of uthash, which happens only when all go.

## Plan

Everything the first plan named is written: the driver with its abstract
specification, the output stage, lexer, parser, types and arithmetic, variables,
the control flow of functions with its execution, name lookup and the vector
with its abstract specification. What would add most next:

1. Calls: prototypes, arguments and defaults of variadic functions in the checker
   and the generator, composed with `NameLookup`.
2. Structs and enums: `struct_infos` and `enum_infos` with their field indexes.
3. Proofs: every safety property of the driver, the output stage, the lexer, the
   generation of functions, the table of names, name lookup and the vector has one.
   Next come `FollowsSource`, for which `BlockInv` and `ValueInv` are the beginning,
   and `Variables`, once its walks over trees are recursive functions.
