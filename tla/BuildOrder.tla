------------------------------ MODULE BuildOrder ------------------------------
(***************************************************************************)
(* What the compilation of a program promises, without modules, hashes or  *)
(* recursion: every file that is needed has its code generated once, not   *)
(* before the prototypes of what it imports are declared, and it succeeds  *)
(* only when all of them have.  It may give up at any time, with an error  *)
(* or because the stack is exhausted.                                      *)
(***************************************************************************)
EXTENDS ImportGraph

CONSTANTS Programs

VARIABLES
  prog,
  declared,  \* files whose prototypes are declared
  emitted,   \* files whose code is generated
  result

vars == <<prog, declared, emitted, result>>

Wanted == Needed(prog.imports, Range(prog.cmd))

Init ==
  /\ prog \in Programs
  /\ declared = {} /\ emitted = {}
  /\ result = "running"

Declare(f) ==
  /\ result = "running" /\ f \in Wanted \ declared
  /\ declared' = declared \union {f}
  /\ UNCHANGED <<prog, emitted, result>>

Emit(f) ==
  /\ result = "running" /\ f \in declared \ emitted
  /\ Range(prog.imports[f]) \subseteq declared
  /\ emitted' = emitted \union {f}
  /\ UNCHANGED <<prog, declared, result>>

Accept ==
  /\ result = "running" /\ emitted = Wanted
  /\ result' = "ok"
  /\ UNCHANGED <<prog, declared, emitted>>

Reject ==
  /\ result = "running"
  /\ result' \in {"error", "exit", "crash", "endless"}
  /\ UNCHANGED <<prog, declared, emitted>>

Next ==
  \/ \E f \in DOMAIN prog.imports : Declare(f) \/ Emit(f)
  \/ Accept \/ Reject

Spec == Init /\ [][Next]_vars /\ WF_vars(Next)

================================================================================
