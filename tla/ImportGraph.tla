------------------------------ MODULE ImportGraph ------------------------------
(***************************************************************************)
(* Import graphs: a function from each file to the sequence of the files   *)
(* it imports.                                                             *)
(***************************************************************************)
EXTENDS Naturals, Sequences, Functions

\* The files that a compilation of the files in roots needs: the smallest set
\* that holds them and whatever its members import.
Needed(g, roots) ==
  {f \in DOMAIN g : \A S \in SUBSET DOMAIN g :
     (roots \subseteq S /\ \A h \in S : Range(g[h]) \subseteq S) => f \in S}

\* Every cycle of imports goes through the file r
AcyclicWithout(r, g) ==
  \A S \in SUBSET (DOMAIN g \ {r}) :
    S # {} => \E f \in S : Range(g[f]) \intersect S = {}

\* The imports of g, as pairs
Edges(g) == UNION {{<<f, h>> : h \in Range(g[f])} : f \in DOMAIN g}

\* A search for a function that f asks for may go round for ever: it comes to files
\* of which each imports another one of them that is not, by its path, the one that asks.
FunctionsEndless(g, path, f) ==
  \E S \in SUBSET DOMAIN g :
    /\ Range(g[f]) \intersect S # {}
    /\ \A s \in S : \E h \in Range(g[s]) \intersect S : path[h] # path[f]

\* A search for a type may do so: it comes to imports of which each is followed by
\* another one of them that does not go straight back.
TypesEndless(g, path, f) ==
  \E T \in SUBSET Edges(g) :
    /\ \E t \in T : t[1] = f
    /\ \A t \in T : \E u \in T : u[1] = t[2] /\ path[u[2]] # path[t[1]]

================================================================================
