------------------------------- MODULE MCDriver -------------------------------
(***************************************************************************)
(* Small programs for TLC: every import graph over a few files.            *)
(***************************************************************************)
EXTENDS Driver

CONSTANTS m, a, b, c  \* files; m is the one of the command line

Equal == {<<f, f>> : f \in File}

ThreeFiles == {m, a, b}
FourFiles == {m, a, b, c}

\* m defines main
Compile(g, cmd) ==
  [imports |-> g, cmd |-> cmd,
   defines |-> [f \in DOMAIN g |-> IF f = m THEN "main" ELSE "function"]]

NeedAll(g, cmd) == Needed(g, Range(cmd)) = DOMAIN g

----------------------------------------------------------------------------
(* Four files: m imports up to three of the others, they import up to two  *)
(* files other than themselves, and every cycle of imports goes through m. *)

Lists(F, n) == {l \in SeqOf(F, n) : IsInjective(l)}

OthersImport == {g \in [{a, b, c} -> Lists(FourFiles, 2)] :
                  AcyclicWithout(m, g) /\ \A f \in {a, b, c} : f \notin Range(g[f])}

RootCycles ==
  {Compile(g, <<m>>) :
     g \in {h @@ (m :> l) : h \in OthersImport, l \in Lists({a, b, c}, 3)}}

RootCyclePrograms == {p \in RootCycles : NeedAll(p.imports, p.cmd)}

----------------------------------------------------------------------------
(* Three files that import up to two files each, a file twice and itself   *)
(* included.                                                               *)

Graphs3 == [ThreeFiles -> SeqOf(ThreeFiles, 2)]

AnyPrograms == {Compile(g, <<m>>) : g \in {h \in Graphs3 : NeedAll(h, <<m>>)}}

\* a may hold nothing but declarations, so that it can be compiled again
TwoFilePrograms ==
  {[Compile(g, <<m, a>>) EXCEPT !.defines[a] = d] :
     g \in {h \in Graphs3 : NeedAll(h, <<m, a>>)}, d \in {"function", "nothing"}}

\* One file on the command line or two
SmallPrograms == AnyPrograms \union TwoFilePrograms

============================================================================
