----------------------------- MODULE MCNameLookup -----------------------------
(***************************************************************************)
(* Searches for TLC.  The import graphs are those of the programs that are *)
(* parsed without an overflow: a module imports what it imports in some    *)
(* order, and every circle goes through m, the file of the command line.   *)
(* Any module asks.                                                        *)
(***************************************************************************)
EXTENDS NameLookup, FiniteSets

CONSTANTS m, a, b, c

Modules == {m, a, b, c}

Lists(S) == {l \in SeqOf(S, 2) : IsInjective(l)}

\* The graphs whose circles all go through the module r
Through(r, S) == {g \in [S -> Lists(S)] : AcyclicWithout(r, g)}

Ask(kind, g, defines, from) ==
  [kind |-> kind, imports |-> g, defines |-> defines, from |-> from]

\* From m and from one of the others, which differ in their names alone
Asked ==
  {Ask(kind, g, D, f) : kind \in {"function", "type"}, g \in Through(m, Modules),
                        D \in {{}, {c}, {m}}, f \in {m, a}}

\* a asks for a function of c, which it imports last; m and b import one another.
PastCircle ==
  (m :> <<b, a>>) @@ (b :> <<m>>) @@ (a :> <<m, c>>) @@ (c :> <<>>)

\* A ring of three modules, where no module has the type
Ring == (m :> <<a>>) @@ (a :> <<b>>) @@ (b :> <<m>>) @@ (c :> <<>>)

Circling == {Ask("function", PastCircle, {c}, a), Ask("type", Ring, {}, m)}

=============================================================================
