------------------------------ MODULE NameLookup ------------------------------
(***************************************************************************)
(* The search for a name in a module and in what it imports (src/lib.c):   *)
(* LIB_resolve_func_name() for functions, LIB_is_struct_name() and         *)
(* LIB_is_enum_name() for types.  Each calls itself for the imports of a   *)
(* module, one after the other, with original_module to cut circles.       *)
(***************************************************************************)
EXTENDS Naturals, Sequences, SequencesExt, ImportGraph

CONSTANTS
  Module,   \* the modules of a program, by path
  Queries,  \* the searches to make, see Query
  MaxDepth, \* nested calls that the C stack has room for
  NULL

\* from: the module that asks; defines: the modules that have the name
Query == [kind : {"function", "type"}, imports : [Module -> Seq(Module)],
          defines : SUBSET Module, from : Module]

ASSUME NameLookupAssumptions ==
  /\ Queries \subseteq Query
  /\ MaxDepth \in Nat \ {0}
  /\ NULL \notin Module

VARIABLES
  query,
  stack,   \* the nested calls, innermost last
  found,   \* what the call that returned last found, NULL for nothing
  outcome

vars == <<query, stack, found, outcome>>

\* k: the import that is searched next, 0 before the module itself is
Frame == [module : Module, original : Module \union {NULL}, k : Nat]
Call(m, original) == [module |-> m, original |-> original, k |-> 0]

Init ==
  /\ query \in Queries
  /\ stack = <<Call(query.from, NULL)>>
  /\ found = NULL
  /\ outcome = "searching"

Top == Last(stack)
Imports == query.imports[Top.module]
Searching == outcome = "searching"
SetTop(frame) == stack' = ReplaceAt(stack, Len(stack), frame)

\* The innermost call returns m to its caller, which returns it in its turn
\* unless it is NULL.
Return(m) ==
  /\ found' = m
  /\ IF Len(stack) = 1
     THEN /\ outcome' = IF m = NULL THEN "none" ELSE "found"
          /\ UNCHANGED stack
     ELSE stack' = Front(stack) /\ UNCHANGED outcome
  /\ UNCHANGED query

Propagate == Searching /\ found # NULL /\ Return(found)

SearchModuleFirst ==                            \* mutant: no strcmp() of names
  /\ Searching /\ found = NULL /\ Top.k = 0
  /\ IF query.defines # {}
     THEN Return(Top.module)
     ELSE SetTop([Top EXCEPT !.k = 1]) /\ UNCHANGED <<query, found, outcome>>

SearchModule ==
  /\ Searching /\ found = NULL /\ Top.k = 0
  /\ IF Top.module \in query.defines
     THEN Return(Top.module)
     ELSE SetTop([Top EXCEPT !.k = 1]) /\ UNCHANGED <<query, found, outcome>>

Pending == Searching /\ found = NULL /\ Top.k \in 1 .. Len(Imports)
Import == Imports[Top.k]

CutSelf(m) == m = Top.module                    \* mutant: compares with module

\* strcmp() with the path of original_module, if there is one
Cut(m) == m = Top.original

SkipImportAll ==                                \* mutant: break for continue
  /\ Pending /\ Cut(Import)
  /\ SetTop([Top EXCEPT !.k = Len(Imports) + 1])
  /\ UNCHANGED <<query, found, outcome>>

SkipImport ==
  /\ Pending /\ Cut(Import)
  /\ SetTop([Top EXCEPT !.k = @ + 1])
  /\ UNCHANGED <<query, found, outcome>>

\* The original_module of the call for an import: functions hand on the module
\* that asked, types the one that is being searched.
Original == IF query.kind = "type" \/ Top.original = NULL THEN Top.module ELSE Top.original

SearchImport ==
  /\ Pending /\ ~Cut(Import)
  /\ IF Len(stack) < MaxDepth
     THEN /\ stack' = Append(ReplaceAt(stack, Len(stack), [Top EXCEPT !.k = @ + 1]),
                             Call(Import, Original))
          /\ UNCHANGED outcome
     ELSE outcome' = "overflow" /\ UNCHANGED stack
  /\ UNCHANGED <<query, found>>

NotFoundHere == Searching /\ found = NULL /\ Top.k > Len(Imports) /\ Return(NULL)

Search == Propagate \/ SearchModule \/ SkipImport \/ SearchImport \/ NotFoundHere

Done == ~Searching /\ UNCHANGED vars

Spec == Init /\ [][Search \/ Done]_vars /\ WF_vars(Search)

-----------------------------------------------------------------------------
(* Properties *)

\* Every variable has the type its C counterpart has.
TypeOK ==
  /\ query \in Query
  /\ stack \in Seq(Frame) /\ stack # <<>>
  /\ found \in Module \union {NULL}
  /\ outcome \in {"searching", "found", "none", "overflow"}

Reachable == Needed(query.imports, {query.from})

\* What is found is a module that has the name and that the asking one imports,
\* however indirectly (lib.c:489-567).
FoundIsVisible == found # NULL => found \in Reachable \intersect query.defines

\* Cutting circles hides nothing: when the search finds nothing, no module that
\* the asking one can see has the name (lib.c:381-400, 546-567).
NoneIsNone == outcome = "none" => Reachable \intersect query.defines = {}

\* The search may go round for ever: the circle misses what the calls hand on.
Endless(q) ==
  LET path == [x \in Module |-> x]
  IN  IF q.kind = "function" THEN FunctionsEndless(q.imports, path, q.from)
                             ELSE TypesEndless(q.imports, path, q.from)

\* The stack overflows on a circle that no call cuts and on nothing else, however
\* many modules and circles there are; a search that finds nothing had none before
\* it.  Functions are cut at the module that asks, types only on the way straight
\* back (lib.c:383-398, 548-558).
OverflowForeseen ==
  /\ outcome = "overflow" => Endless(query)
  /\ outcome = "none" => ~Endless(query)

\* Circles of imports are no harm, says lib.h:98-100: original_module is "used for
\* solving circular recursion".
CircularSolved == outcome # "overflow"

=============================================================================
