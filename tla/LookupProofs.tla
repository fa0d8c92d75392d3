----------------------------- MODULE LookupProofs -----------------------------
(***************************************************************************)
(* Theorems about the search for a name, for import graphs of any size and *)
(* shape: what is found can be seen, the circles that are cut hide nothing, *)
(* and the stack overflows on the circles that are not cut and no others.  *)
(***************************************************************************)
EXTENDS NameLookup, FiniteSets, FiniteSetTheorems, SequenceTheorems, TLAPS

-----------------------------------------------------------------------------
(* Stacks: sequences whose last element is the innermost frame *)

\* The last element of a stack that is not empty.
LEMMA LastOf ==
  ASSUME NEW S, NEW s \in Seq(S), s # <<>>
  PROVE  /\ Len(s) \in Nat \ {0}
         /\ Last(s) = s[Len(s)]
         /\ Last(s) \in S
<1>1. Len(s) \in Nat \ {0}
  BY EmptySeq
<1>2. QED
  BY <1>1, ElementOfSeq DEF Last

\* Replacing the last element leaves the others alone.
LEMMA SetLastOf ==
  ASSUME NEW S, NEW s \in Seq(S), s # <<>>, NEW e \in S
  PROVE  /\ ReplaceAt(s, Len(s), e) \in Seq(S)
         /\ Len(ReplaceAt(s, Len(s), e)) = Len(s)
         /\ ReplaceAt(s, Len(s), e) # <<>>
         /\ Last(ReplaceAt(s, Len(s), e)) = e
         /\ ReplaceAt(s, Len(s), e)[Len(s)] = e
         /\ \A j \in 1 .. Len(s) : j # Len(s) => ReplaceAt(s, Len(s), e)[j] = s[j]
<1> DEFINE t == [s EXCEPT ![Len(s)] = e]
<1>1. Len(s) \in Nat \ {0} /\ Len(s) \in 1 .. Len(s)
  BY EmptySeq
<1>2. /\ t \in Seq(S)
      /\ Len(t) = Len(s)
      /\ \A j \in 1 .. Len(s) : t[j] = IF j = Len(s) THEN e ELSE s[j]
  BY <1>1, ExceptSeq
<1>3. t # <<>>
  BY <1>1, <1>2
<1>4. ReplaceAt(s, Len(s), e) = t
  BY DEF ReplaceAt
<1> HIDE DEF t
<1>5. QED
  BY <1>1, <1>2, <1>3, <1>4 DEF Last

\* Dropping the last element: what is left, and what is then last.
LEMMA FrontOf ==
  ASSUME NEW S, NEW s \in Seq(S), s # <<>>
  PROVE  /\ Front(s) \in Seq(S)
         /\ Len(Front(s)) = Len(s) - 1
         /\ \A j \in 1 .. Len(s) - 1 : Front(s)[j] = s[j]
         /\ Len(s) = 1 => Front(s) = <<>>
         /\ Len(s) > 1 => Front(s) # <<>> /\ Last(Front(s)) = s[Len(s) - 1]
<1>1. Len(s) \in Nat \ {0}
  BY EmptySeq
<1>2. Front(s) = SubSeq(s, 1, Len(s) - 1)
  BY DEF Front
<1>3. /\ Front(s) \in Seq(S)
      /\ Len(Front(s)) = Len(s) - 1
      /\ \A j \in 1 .. Len(s) - 1 : Front(s)[j] = s[j]
  <2>1. \A i \in 1 .. Len(s) - 1 : s[i] \in S
    BY <1>1, ElementOfSeq
  <2>2. 1 \in Int /\ Len(s) - 1 \in Int
    BY <1>1
  <2>3. /\ SubSeq(s, 1, Len(s) - 1) \in Seq(S)
        /\ Len(SubSeq(s, 1, Len(s) - 1)) = IF 1 <= Len(s) - 1 THEN Len(s) - 1 - 1 + 1 ELSE 0
        /\ \A i \in 1 .. Len(s) - 1 - 1 + 1 : SubSeq(s, 1, Len(s) - 1)[i] = s[1 + i - 1]
    BY <2>1, <2>2, SubSeqProperties
  <2>4. Len(SubSeq(s, 1, Len(s) - 1)) = Len(s) - 1
    <3>1. ASSUME NEW l, NEW n \in Nat \ {0}, l = IF 1 <= n - 1 THEN n - 1 - 1 + 1 ELSE 0
          PROVE  l = n - 1
      BY <3>1
    <3>2. QED
      BY <1>1, <2>3, <3>1, Zenon
  <2>5. \A j \in 1 .. Len(s) - 1 : SubSeq(s, 1, Len(s) - 1)[j] = s[j]
    <3>1. TAKE j \in 1 .. Len(s) - 1
    <3>2. j \in 1 .. Len(s) - 1 - 1 + 1 /\ 1 + j - 1 = j
      BY <1>1
    <3>3. QED
      BY <2>3, <3>2
  <2>6. QED
    BY <1>2, <2>3, <2>4, <2>5
<1>4. Len(s) = 1 => Front(s) = <<>>
  BY <1>1, <1>3, EmptySeq
<1>5. ASSUME Len(s) > 1
      PROVE  Front(s) # <<>> /\ Last(Front(s)) = s[Len(s) - 1]
  <2>1. Front(s) # <<>>
    BY <1>1, <1>3, <1>5
  <2>2. Last(Front(s)) = Front(s)[Len(s) - 1]
    BY <1>3 DEF Last
  <2>3. QED
    BY <1>1, <1>3, <1>5, <2>1, <2>2
<1>6. QED
  BY <1>3, <1>4, <1>5

\* A pushed element is last; the others keep their place.
LEMMA PushOn ==
  ASSUME NEW S, NEW s \in Seq(S), NEW e \in S
  PROVE  /\ Append(s, e) \in Seq(S)
         /\ Len(Append(s, e)) = Len(s) + 1
         /\ Append(s, e) # <<>>
         /\ Last(Append(s, e)) = e
         /\ \A j \in 1 .. Len(s) + 1 : Append(s, e)[j] = IF j = Len(s) + 1 THEN e ELSE s[j]
<1>1. /\ Append(s, e) \in Seq(S)
      /\ Len(Append(s, e)) = Len(s) + 1
      /\ \A j \in 1 .. Len(s) + 1 : Append(s, e)[j] = IF j = Len(s) + 1 THEN e ELSE s[j]
  OBVIOUS
<1>2. Append(s, e) # <<>>
  BY <1>1, LenProperties, EmptySeq
<1>3. QED
  BY <1>1, <1>2, LenProperties DEF Last


-----------------------------------------------------------------------------
(* Modules without the name *)

\* The modules T do not have the name, and import one another and c only.
Lacks(q, c, T) ==
  /\ T \intersect q.defines = {}
  /\ \A h \in T : \A i \in 1 .. Len(q.imports[h]) : q.imports[h][i] \in T \union {c}

\* All that cannot find the name without the module c
Barren(q, c) == UNION {T \in SUBSET Module : Lacks(q, c, T)}

\* They are the largest such set.
LEMMA BarrenLacks ==
  ASSUME NEW q, NEW c
  PROVE  /\ Barren(q, c) \subseteq Module
         /\ Lacks(q, c, Barren(q, c))
         /\ \A T \in SUBSET Module : Lacks(q, c, T) => T \subseteq Barren(q, c)
<1>1. Barren(q, c) \subseteq Module
  BY DEF Barren
<1>2. \A T \in SUBSET Module : Lacks(q, c, T) => T \subseteq Barren(q, c)
  BY DEF Barren
<1>3. Barren(q, c) \intersect q.defines = {}
  BY DEF Barren, Lacks
<1>4. ASSUME NEW h \in Barren(q, c), NEW i \in 1 .. Len(q.imports[h])
      PROVE  q.imports[h][i] \in Barren(q, c) \union {c}
  <2>1. PICK T \in SUBSET Module : Lacks(q, c, T) /\ h \in T
    BY DEF Barren
  <2>2. q.imports[h][i] \in T \union {c}
    BY <2>1 DEF Lacks
  <2>3. QED
    BY <1>2, <2>1, <2>2
<1>5. QED
  BY <1>1, <1>2, <1>3, <1>4 DEF Lacks

\* A module that does not have the name cannot find it without o, if its imports
\* other than o cannot find it without itself or without o.
LEMMA BarrenJoins ==
  ASSUME NEW q, NEW o, NEW m \in Module, m \notin q.defines,
         NEW c \in {m, o},
         \A i \in 1 .. Len(q.imports[m]) :
           q.imports[m][i] = o \/ q.imports[m][i] \in Barren(q, c)
  PROVE  m \in Barren(q, o)
<1> DEFINE T == {m} \union Barren(q, c)
<1>1. T \in SUBSET Module /\ T \intersect q.defines = {}
  BY BarrenLacks DEF Lacks
<1>2. ASSUME NEW h \in T, NEW i \in 1 .. Len(q.imports[h])
      PROVE  q.imports[h][i] \in T \union {o}
  <2>1. CASE h = m
    BY <2>1
  <2>2. CASE h \in Barren(q, c)
    <3>1. q.imports[h][i] \in Barren(q, c) \union {c}
      BY <2>2, BarrenLacks DEF Lacks
    <3>2. QED
      BY <3>1
  <2>3. QED
    BY <2>1, <2>2
<1>3. Lacks(q, o, T)
  BY <1>1, <1>2 DEF Lacks
<1>4. QED
  BY <1>1, <1>3, BarrenLacks

\* Nothing that a barren module imports, however indirectly, has the name.
LEMMA BarrenHides ==
  ASSUME NEW q \in Query, NULL \notin Module, NEW m \in Barren(q, NULL)
  PROVE  Needed(q.imports, {m}) \intersect q.defines = {}
<1> DEFINE S == Barren(q, NULL)
<1>1. q.imports \in [Module -> Seq(Module)]
  BY DEF Query
<1>2. S \in SUBSET DOMAIN q.imports /\ S \intersect q.defines = {}
  BY <1>1, BarrenLacks DEF Lacks
<1>3. ASSUME NEW h \in S PROVE Range(q.imports[h]) \subseteq S
  <2>1. h \in Module /\ q.imports[h] \in Seq(Module)
    BY <1>1, <1>2
  <2>2. ASSUME NEW i \in 1 .. Len(q.imports[h]) PROVE q.imports[h][i] \in S
    <3>1. q.imports[h][i] \in S \union {NULL} /\ q.imports[h][i] \in Module
      BY <2>1, BarrenLacks, ElementOfSeq DEF Lacks
    <3>2. QED
      BY <3>1
  <2>3. DOMAIN q.imports[h] = 1 .. Len(q.imports[h])
    BY <2>1
  <2>4. QED
    BY <2>2, <2>3 DEF Range
<1>4. {m} \subseteq S
  OBVIOUS
<1> HIDE DEF S
<1>5. Needed(q.imports, {m}) \subseteq S
  BY <1>2, <1>3, <1>4 DEF Needed
<1>6. QED
  BY <1>2, <1>5

\* What a module imports can be seen by whoever sees the module.
LEMMA NeededCloses ==
  ASSUME NEW g \in [Module -> Seq(Module)], NEW r \in Module
  PROVE  /\ r \in Needed(g, {r})
         /\ \A m \in Needed(g, {r}) : \A i \in 1 .. Len(g[m]) : g[m][i] \in Needed(g, {r})
<1>1. r \in Needed(g, {r})
  BY DEF Needed
<1>2. ASSUME NEW m \in Needed(g, {r}), NEW i \in 1 .. Len(g[m])
      PROVE  g[m][i] \in Needed(g, {r})
  <2>1. m \in Module /\ g[m] \in Seq(Module) /\ DOMAIN g = Module
    BY DEF Needed
  <2>2. g[m][i] \in Module /\ g[m][i] \in Range(g[m])
    BY <2>1, ElementOfSeq DEF Range
  <2>3. ASSUME NEW S \in SUBSET Module, {r} \subseteq S,
               \A h \in S : Range(g[h]) \subseteq S
        PROVE  g[m][i] \in S
    <3>1. m \in S
      BY <2>1, <2>3 DEF Needed
    <3>2. QED
      BY <2>2, <2>3, <3>1
  <2>4. QED
    BY <2>1, <2>2, <2>3 DEF Needed
<1>3. QED
  BY <1>1, <1>2

-----------------------------------------------------------------------------
(* Searches that do not end *)

\* original_module of the calls that a call makes which searches m for o
Onward(q, o, m) == IF q.kind = "type" \/ o = NULL THEN m ELSE o

\* Each of the calls T, given by original_module and module, makes another one of them.
Turning(q, T) ==
  \A t \in T : \E i \in 1 .. Len(q.imports[t[2]]) :
    /\ q.imports[t[2]][i] # t[1]
    /\ <<Onward(q, t[1], t[2]), q.imports[t[2]][i]>> \in T

\* The calls that can go round for ever
Rounds(q) == UNION {T \in SUBSET ((Module \union {NULL}) \X Module) : Turning(q, T)}

\* A search of the module m for o ends, and finds nothing.
Ended(q, m, o) == m \in Barren(q, o) /\ <<o, m>> \notin Rounds(q)

\* Rounds are the largest set of calls each of which makes another one.
LEMMA RoundsTurn ==
  ASSUME NEW q
  PROVE  /\ Turning(q, Rounds(q))
         /\ \A T \in SUBSET ((Module \union {NULL}) \X Module) :
              Turning(q, T) => T \subseteq Rounds(q)
<1>1. \A T \in SUBSET ((Module \union {NULL}) \X Module) : Turning(q, T) => T \subseteq Rounds(q)
  BY DEF Rounds
<1>2. ASSUME NEW t \in Rounds(q)
      PROVE  \E i \in 1 .. Len(q.imports[t[2]]) :
               /\ q.imports[t[2]][i] # t[1]
               /\ <<Onward(q, t[1], t[2]), q.imports[t[2]][i]>> \in Rounds(q)
  <2>1. PICK T \in SUBSET ((Module \union {NULL}) \X Module) : Turning(q, T) /\ t \in T
    BY DEF Rounds
  <2>2. PICK i \in 1 .. Len(q.imports[t[2]]) :
          /\ q.imports[t[2]][i] # t[1]
          /\ <<Onward(q, t[1], t[2]), q.imports[t[2]][i]>> \in T
    BY <2>1 DEF Turning
  <2>3. T \subseteq Rounds(q)
    BY <1>1, <2>1
  <2>4. QED
    BY <2>2, <2>3
<1>3. QED
  BY <1>1, <1>2 DEF Turning

\* A search that goes round for ever is one of them from its first call.
LEMMA EndlessTurns ==
  ASSUME NEW q \in Query, NULL \notin Module, Endless(q)
  PROVE  <<NULL, q.from>> \in Rounds(q)
<1>1. /\ q.imports \in [Module -> Seq(Module)] /\ DOMAIN q.imports = Module
      /\ q.from \in Module /\ q.kind \in {"function", "type"}
  BY DEF Query
<1>2. \A h \in Module : q.imports[h] \in Seq(Module)
  BY <1>1
<1>3. ASSUME NEW h \in Module, NEW x \in Range(q.imports[h])
      PROVE  x \in Module /\ \E i \in 1 .. Len(q.imports[h]) : q.imports[h][i] = x
  <2>1. q.imports[h] \in Seq(Module) /\ DOMAIN q.imports[h] = 1 .. Len(q.imports[h])
    BY <1>2
  <2>2. PICK i \in 1 .. Len(q.imports[h]) : q.imports[h][i] = x
    BY <2>1 DEF Range
  <2>3. QED
    BY <2>1, <2>2, ElementOfSeq
<1>4. CASE q.kind = "function"
  <2>1. PICK S \in SUBSET Module :
          /\ Range(q.imports[q.from]) \intersect S # {}
          /\ \A h \in S : \E x \in Range(q.imports[h]) \intersect S : x # q.from
    BY <1>1, <1>4, Zenon DEF Endless, FunctionsEndless
  <2>2. PICK T : T = {<<q.from, h>> : h \in S} \union {<<NULL, q.from>>}
    OBVIOUS
  <2>3. T \in SUBSET ((Module \union {NULL}) \X Module)
    BY <1>1, <2>2
  <2>4. ASSUME NEW h \in S
        PROVE  \E i \in 1 .. Len(q.imports[h]) :
                 q.imports[h][i] # q.from /\ <<q.from, q.imports[h][i]>> \in T
    <3>1. PICK x \in Range(q.imports[h]) : x \in S /\ x # q.from
      BY <2>1
    <3>2. PICK i \in 1 .. Len(q.imports[h]) : q.imports[h][i] = x
      BY <1>3, <3>1
    <3>3. QED
      BY <2>2, <3>1, <3>2
  <2>5. \E i \in 1 .. Len(q.imports[q.from]) :
          q.imports[q.from][i] # NULL /\ <<q.from, q.imports[q.from][i]>> \in T
    <3>1. PICK x \in Range(q.imports[q.from]) : x \in S
      BY <2>1
    <3>2. PICK i \in 1 .. Len(q.imports[q.from]) : q.imports[q.from][i] = x
      BY <1>1, <1>3, <3>1
    <3>3. x # NULL
      BY <1>1, <1>3
    <3>4. QED
      BY <2>2, <3>1, <3>2, <3>3
  <2>6. Onward(q, NULL, q.from) = q.from /\ \A h \in S : Onward(q, q.from, h) = q.from
    BY <1>1, <1>4 DEF Onward
  <2>7. Turning(q, T)
    <3>1. SUFFICES ASSUME NEW t \in T
                   PROVE  \E i \in 1 .. Len(q.imports[t[2]]) :
                            /\ q.imports[t[2]][i] # t[1]
                            /\ <<Onward(q, t[1], t[2]), q.imports[t[2]][i]>> \in T
      BY DEF Turning
    <3>2. CASE t = <<NULL, q.from>>
      BY <2>5, <2>6, <3>2
    <3>3. ASSUME NEW h \in S, t = <<q.from, h>>
          PROVE  \E i \in 1 .. Len(q.imports[t[2]]) :
                   /\ q.imports[t[2]][i] # t[1]
                   /\ <<Onward(q, t[1], t[2]), q.imports[t[2]][i]>> \in T
      BY <2>4, <2>6, <3>3
    <3>4. QED
      BY <2>2, <3>2, <3>3
  <2>8. <<NULL, q.from>> \in T
    BY <2>2
  <2>9. QED
    BY <2>3, <2>7, <2>8, RoundsTurn
<1>5. CASE q.kind = "type"
  <2> DEFINE path == [x \in Module |-> x]
  <2>1. PICK E \in SUBSET Edges(q.imports) :
          /\ \E t \in E : t[1] = q.from
          /\ \A t \in E : \E u \in E : u[1] = t[2] /\ path[u[2]] # path[t[1]]
    <3>1. q.kind # "function"
      BY <1>5
    <3>2. TypesEndless(q.imports, [x \in Module |-> x], q.from)
      BY <3>1, Zenon DEF Endless
    <3>3. QED
      BY <3>2, Zenon DEF TypesEndless
  <2>2. ASSUME NEW t \in E
        PROVE  \E f \in Module : \E x \in Range(q.imports[f]) : t = <<f, x>>
    <3>1. t \in UNION {{<<f, x>> : x \in Range(q.imports[f])} : f \in Module}
      BY <1>1, <2>1 DEF Edges
    <3>2. QED
      BY <3>1
  <2>3. \A t \in E : t[1] \in Module /\ t[2] \in Module /\ t = <<t[1], t[2]>>
    BY <1>3, <2>2
  <2>4. PICK T : T = E \union {<<NULL, q.from>>}
    OBVIOUS
  <2>5. T \in SUBSET ((Module \union {NULL}) \X Module)
    <3>1. \A t \in E : t \in (Module \union {NULL}) \X Module
      BY <2>3
    <3>2. QED
      BY <1>1, <2>4, <3>1
  <2>6. ASSUME NEW t \in T
        PROVE  \E u \in E : u[1] = t[2] /\ u[2] # t[1]
    <3>1. CASE t \in E
      <4>1. PICK u \in E : u[1] = t[2] /\ path[u[2]] # path[t[1]]
        BY <2>1, <3>1
      <4>2. QED
        BY <2>1, <2>3, <3>1, <4>1
    <3>2. CASE t = <<NULL, q.from>>
      <4>1. PICK u \in E : u[1] = q.from
        BY <2>1
      <4>2. t[1] = NULL /\ t[2] = q.from /\ u[2] # NULL
        BY <2>3, <3>2
      <4>3. QED
        BY <4>1, <4>2
    <3>3. QED
      BY <2>4, <3>1, <3>2
  <2>7. ASSUME NEW t \in T
        PROVE  \E i \in 1 .. Len(q.imports[t[2]]) :
                 /\ q.imports[t[2]][i] # t[1]
                 /\ <<Onward(q, t[1], t[2]), q.imports[t[2]][i]>> \in T
    <3>1. PICK u \in E : u[1] = t[2] /\ u[2] # t[1]
      BY <2>6
    <3>2. PICK f \in Module : \E x \in Range(q.imports[f]) : u = <<f, x>>
      BY <2>2
    <3>3. PICK x \in Range(q.imports[f]) : u = <<f, x>>
      BY <3>2
    <3>4. f = t[2] /\ x # t[1]
      BY <3>1, <3>3
    <3>5. PICK i \in 1 .. Len(q.imports[f]) : q.imports[f][i] = x
      BY <1>3
    <3>6. Onward(q, t[1], t[2]) = t[2]
      BY <1>5 DEF Onward
    <3>7. <<f, x>> \in T
      BY <2>4, <3>3
    <3>8. QED
      BY <3>4, <3>5, <3>6, <3>7
  <2>8. Turning(q, T) /\ <<NULL, q.from>> \in T
    BY <2>4, <2>7 DEF Turning
  <2>9. QED
    BY <2>5, <2>8, RoundsTurn
<1>6. QED
  BY <1>1, <1>4, <1>5

-----------------------------------------------------------------------------
(* The inductive invariant *)

\* original_module of the calls that the frame f makes
OriginalOf(q, f) == Onward(q, f.original, f.module)

\* The module of f does not have the name; the search of its first n imports has ended.
Searched(q, f, n) ==
  /\ f.k > 0 => f.module \notin q.defines
  /\ \A i \in 1 .. n : i <= Len(q.imports[f.module]) =>
       \/ q.imports[f.module][i] = f.original
       \/ Ended(q, q.imports[f.module][i], OriginalOf(q, f))

\* The search of a module ends without a result when those of its imports have.
LEMMA EndedJoins ==
  ASSUME NEW q, NEW f \in Frame, f.module \notin q.defines,
         \A i \in 1 .. Len(q.imports[f.module]) :
           \/ q.imports[f.module][i] = f.original
           \/ Ended(q, q.imports[f.module][i], OriginalOf(q, f))
  PROVE  Ended(q, f.module, f.original)
<1>1. PICK m, o, c : m = f.module /\ o = f.original /\ c = OriginalOf(q, f)
  OBVIOUS
<1>2. m \in Module /\ c = Onward(q, o, m) /\ c \in {m, o}
  BY <1>1 DEF Frame, OriginalOf, Onward
<1>3. \A i \in 1 .. Len(q.imports[m]) : q.imports[m][i] = o \/ Ended(q, q.imports[m][i], c)
  BY <1>1
<1>4. m \in Barren(q, o)
  BY <1>1, <1>2, <1>3, BarrenJoins DEF Ended
<1>5. ASSUME <<o, m>> \in Rounds(q) PROVE FALSE
  <2>1. PICK t : t = <<o, m>>
    OBVIOUS
  <2>2. PICK i \in 1 .. Len(q.imports[t[2]]) :
          /\ q.imports[t[2]][i] # t[1]
          /\ <<Onward(q, t[1], t[2]), q.imports[t[2]][i]>> \in Rounds(q)
    BY <1>5, <2>1, RoundsTurn DEF Turning
  <2>3. t[1] = o /\ t[2] = m
    BY <2>1
  <2>4. i \in 1 .. Len(q.imports[m]) /\ q.imports[m][i] # o /\ <<c, q.imports[m][i]>> \in Rounds(q)
    BY <1>2, <2>2, <2>3
  <2>5. QED
    BY <1>3, <2>4 DEF Ended
<1>6. QED
  BY <1>1, <1>4, <1>5 DEF Ended

\* The frame lo waits for hi, which searches the import before the next one.
Waiting(q, lo, hi) ==
  /\ lo.k - 1 \in 1 .. Len(q.imports[lo.module])
  /\ hi.module = q.imports[lo.module][lo.k - 1]
  /\ hi.original = OriginalOf(q, lo)
  /\ Searched(q, lo, lo.k - 2)

Chained(q, s) ==
  /\ s[1].module = q.from /\ s[1].original = NULL
  /\ \A j \in 1 .. Len(s) : j > 1 => Waiting(q, s[j - 1], s[j])

Progress(q, s) == Chained(q, s) /\ Searched(q, Last(s), Last(s).k - 1)

Inv ==
  /\ TypeOK
  /\ \A j \in 1 .. Len(stack) : stack[j].module \in Reachable
  /\ FoundIsVisible
  /\ Searching /\ found = NULL => Progress(query, stack)
  /\ outcome = "none" => Ended(query, query.from, NULL)

-----------------------------------------------------------------------------
(* The stack of calls *)

\* What the invariant says of the types, and of the innermost call.
LEMMA Types ==
  ASSUME Inv
  PROVE  /\ query \in Query /\ query.imports \in [Module -> Seq(Module)]
         /\ stack \in Seq(Frame) /\ stack # <<>> /\ Len(stack) \in Nat \ {0}
         /\ Top = stack[Len(stack)] /\ Top = Last(stack) /\ Top \in Frame
         /\ Top.module \in Module /\ Top.module \in Reachable
         /\ Imports = query.imports[Top.module] /\ Imports \in Seq(Module)
         /\ Top.k \in Nat
<1>1. query \in Query /\ stack \in Seq(Frame) /\ stack # <<>>
  BY DEF Inv, TypeOK
<1>2. /\ Len(stack) \in Nat \ {0} /\ Top = stack[Len(stack)] /\ Top = Last(stack)
      /\ Top \in Frame
  BY <1>1, LastOf DEF Top
<1>3. Top.module \in Module /\ Top.k \in Nat
  BY <1>2 DEF Frame
<1>4. query.imports \in [Module -> Seq(Module)]
  BY <1>1 DEF Query
<1>5. Imports = query.imports[Top.module] /\ Imports \in Seq(Module)
  BY <1>3, <1>4 DEF Imports
<1>6. Top.module \in Reachable
  <2>1. Len(stack) \in 1 .. Len(stack)
    BY <1>2
  <2>2. QED
    BY <1>2, <2>1 DEF Inv
<1>7. QED
  BY <1>1, <1>2, <1>3, <1>4, <1>5, <1>6

\* The innermost call goes on in its module.
LEMMA TopGoesOn ==
  ASSUME NEW q, NEW s \in Seq(Frame), s # <<>>, Chained(q, s),
         NEW f \in Frame, f.module = Last(s).module, f.original = Last(s).original
  PROVE  Chained(q, ReplaceAt(s, Len(s), f))
<1> DEFINE t == ReplaceAt(s, Len(s), f)
<1>1. Len(s) \in Nat \ {0} /\ Last(s) = s[Len(s)]
  BY LastOf
<1>2. /\ Len(t) = Len(s) /\ t[Len(s)] = f
      /\ \A j \in 1 .. Len(s) : j # Len(s) => t[j] = s[j]
  BY SetLastOf
<1> HIDE DEF t
<1>3. t[1].module = q.from /\ t[1].original = NULL
  <2>1. CASE Len(s) = 1
    BY <1>1, <1>2, <2>1 DEF Chained
  <2>2. CASE Len(s) # 1
    BY <1>1, <1>2, <2>2 DEF Chained
  <2>3. QED
    BY <2>1, <2>2
<1>4. ASSUME NEW j \in 1 .. Len(t), j > 1 PROVE Waiting(q, t[j - 1], t[j])
  <2>1. j - 1 \in 1 .. Len(s) /\ j - 1 # Len(s) /\ j \in 1 .. Len(s)
    BY <1>1, <1>2, <1>4
  <2>2. t[j - 1] = s[j - 1] /\ Waiting(q, s[j - 1], s[j])
    BY <1>2, <1>4, <2>1 DEF Chained
  <2>3. t[j].module = s[j].module /\ t[j].original = s[j].original
    BY <1>1, <1>2, <2>1
  <2>4. QED
    BY <2>2, <2>3 DEF Waiting
<1>5. QED
  BY <1>3, <1>4 DEF Chained, t

\* A call for an import.
LEMMA CallGoesOn ==
  ASSUME NEW q, NEW s \in Seq(Frame), s # <<>>, Chained(q, s),
         NEW f \in Frame, Waiting(q, Last(s), f)
  PROVE  Chained(q, Append(s, f))
<1> DEFINE t == Append(s, f)
<1>1. Len(s) \in Nat \ {0} /\ Last(s) = s[Len(s)]
  BY LastOf
<1>2. /\ Len(t) = Len(s) + 1
      /\ \A j \in 1 .. Len(s) + 1 : t[j] = IF j = Len(s) + 1 THEN f ELSE s[j]
  BY PushOn
<1> HIDE DEF t
<1>3. t[1].module = q.from /\ t[1].original = NULL
  BY <1>1, <1>2 DEF Chained
<1>4. ASSUME NEW j \in 1 .. Len(t), j > 1 PROVE Waiting(q, t[j - 1], t[j])
  <2>1. CASE j = Len(s) + 1
    <3>1. t[j] = f /\ j - 1 \in 1 .. Len(s) + 1 /\ t[j - 1] = s[Len(s)]
      BY <1>1, <1>2, <2>1
    <3>2. QED
      BY <1>1, <3>1
  <2>2. CASE j # Len(s) + 1
    <3>1. j \in 1 .. Len(s) /\ t[j] = s[j] /\ t[j - 1] = s[j - 1]
      BY <1>1, <1>2, <1>4, <2>2
    <3>2. QED
      BY <1>4, <3>1 DEF Chained
  <2>3. QED
    BY <2>1, <2>2
<1>5. QED
  BY <1>3, <1>4 DEF Chained, t

\* The innermost call returns: its module has been searched for its caller.
LEMMA ReturnGoesOn ==
  ASSUME NEW q, NEW s \in Seq(Frame), Len(s) > 1, Progress(q, s),
         Ended(q, Last(s).module, Last(s).original)
  PROVE  Progress(q, Front(s))
<1> DEFINE t == Front(s)
<1>1. s # <<>> /\ Len(s) \in Nat \ {0} /\ Last(s) = s[Len(s)]
  BY LastOf, EmptySeq
<1>2. /\ t \in Seq(Frame) /\ Len(t) = Len(s) - 1 /\ t # <<>> /\ Last(t) = s[Len(s) - 1]
      /\ \A j \in 1 .. Len(s) - 1 : t[j] = s[j]
  BY <1>1, FrontOf
<1> HIDE DEF t
<1>3. t[1].module = q.from /\ t[1].original = NULL
  BY <1>1, <1>2 DEF Progress, Chained
<1>4. ASSUME NEW j \in 1 .. Len(t), j > 1 PROVE Waiting(q, t[j - 1], t[j])
  <2>1. j \in 1 .. Len(s) /\ t[j] = s[j] /\ t[j - 1] = s[j - 1]
    BY <1>1, <1>2, <1>4
  <2>2. QED
    BY <1>4, <2>1 DEF Progress, Chained
<1>5. Searched(q, Last(t), Last(t).k - 1)
  <2>1. PICK f \in Frame : f = Last(t)
    BY <1>2, LastOf
  <2>2. f.k \in Nat
    BY DEF Frame
  <2>3. Waiting(q, f, Last(s))
    BY <1>1, <1>2, <2>1 DEF Progress, Chained
  <2>4. Ended(q, q.imports[f.module][f.k - 1], OriginalOf(q, f))
    BY <2>3 DEF Waiting
  <2>5. ASSUME NEW i \in 1 .. f.k - 1, i <= Len(q.imports[f.module])
        PROVE  \/ q.imports[f.module][i] = f.original
               \/ Ended(q, q.imports[f.module][i], OriginalOf(q, f))
    <3>1. CASE i = f.k - 1
      BY <2>4, <3>1
    <3>2. CASE i # f.k - 1
      <4>1. i \in 1 .. f.k - 2
        BY <2>2, <3>2
      <4>2. QED
        BY <2>3, <2>5, <4>1 DEF Waiting, Searched
    <3>3. QED
      BY <3>1, <3>2
  <2>6. QED
    BY <2>1, <2>3, <2>5 DEF Waiting, Searched
<1>6. QED
  BY <1>3, <1>4, <1>5 DEF Progress, Chained, t

-----------------------------------------------------------------------------
(* Each action preserves it *)

\* The same frame, with another import next
LEMMA NextImport ==
  ASSUME NEW f \in Frame, NEW k \in Nat
  PROVE  /\ [f EXCEPT !.k = k] \in Frame
         /\ [f EXCEPT !.k = k].module = f.module
         /\ [f EXCEPT !.k = k].original = f.original
         /\ [f EXCEPT !.k = k].k = k
BY DEF Frame

\* A step that finds nothing and goes on with the stack s.
LEMMA Continues ==
  ASSUME Inv, Searching, found = NULL, query' = query, found' = found,
         outcome' = outcome,
         stack' \in Seq(Frame), stack' # <<>>,
         \A j \in 1 .. Len(stack') : stack'[j].module \in Reachable,
         Progress(query, stack')
  PROVE  Inv'
<1>1. TypeOK'
  BY DEF Inv, TypeOK
<1>2. Reachable' = Reachable
  BY DEF Reachable
<1>3. outcome' # "none"
  BY DEF Searching
<1>4. FoundIsVisible'
  BY DEF FoundIsVisible
<1>5. \A j \in 1 .. Len(stack') : stack'[j].module \in Reachable'
  BY <1>2
<1>6. QED
  BY <1>1, <1>3, <1>4, <1>5 DEF Inv

\* The innermost call returns m.
LEMMA ReturnPreserves ==
  ASSUME Inv, Searching, NEW m \in Module \union {NULL}, Return(m),
         m # NULL => m \in Reachable \intersect query.defines,
         m = NULL => found = NULL /\ Ended(query, Top.module, Top.original)
  PROVE  Inv'
<1>1. /\ TypeOK /\ stack \in Seq(Frame) /\ stack # <<>> /\ Len(stack) \in Nat \ {0}
      /\ Top = stack[Len(stack)] /\ Top = Last(stack)
  BY Types DEF Inv
<1>2. query' = query /\ found' = m
  BY DEF Return
<1>3. Reachable' = Reachable /\ FoundIsVisible'
  BY <1>2 DEF Reachable, FoundIsVisible
<1>4. CASE Len(stack) = 1
  <2>1. stack' = stack /\ outcome' = IF m = NULL THEN "none" ELSE "found"
    BY <1>4 DEF Return
  <2>2. TypeOK'
    BY <1>1, <1>2, <2>1 DEF TypeOK
  <2>3. ~Searching'
    BY <2>1 DEF Searching
  <2>4. outcome' = "none" => Ended(query', query'.from, NULL)
    <3>1. SUFFICES ASSUME m = NULL PROVE Ended(query, query.from, NULL)
      BY <1>2, <2>1
    <3>2. stack[1].module = query.from /\ stack[1].original = NULL
      BY <3>1 DEF Inv, Progress, Chained
    <3>3. QED
      BY <1>1, <1>4, <3>1, <3>2
  <2>5. \A j \in 1 .. Len(stack') : stack'[j].module \in Reachable'
    BY <1>3, <2>1 DEF Inv
  <2>6. QED
    BY <1>3, <2>2, <2>3, <2>4, <2>5 DEF Inv
<1>5. ASSUME NEW n \in Nat \ {0}, n # 1 PROVE n > 1
  BY <1>5
<1>6. ASSUME Len(stack) # 1, Len(stack) > 1
      PROVE  Inv'
  <2>1. stack' = Front(stack) /\ outcome' = outcome /\ outcome = "searching"
    BY <1>6 DEF Return, Searching
  <2>2. /\ Front(stack) \in Seq(Frame) /\ Front(stack) # <<>>
        /\ Len(Front(stack)) = Len(stack) - 1
        /\ \A j \in 1 .. Len(stack) - 1 : Front(stack)[j] = stack[j]
    BY <1>1, <1>6, FrontOf
  <2>3. TypeOK'
    BY <1>1, <1>2, <2>1, <2>2 DEF TypeOK
  <2>4. \A j \in 1 .. Len(stack') : stack'[j].module \in Reachable'
    <3>1. \A j \in 1 .. Len(stack) - 1 : j \in 1 .. Len(stack)
      BY <1>1
    <3>2. \A j \in 1 .. Len(stack) - 1 : Front(stack)[j].module \in Reachable
      BY <2>2, <3>1 DEF Inv
    <3>3. QED
      BY <1>3, <2>1, <2>2, <3>2
  <2>5. found' = NULL => Progress(query', stack')
    <3>1. SUFFICES ASSUME m = NULL PROVE Progress(query, Front(stack))
      BY <1>2, <2>1
    <3>2. Progress(query, stack)
      BY <3>1 DEF Inv
    <3>3. QED
      BY <1>1, <1>6, <3>1, <3>2, ReturnGoesOn
  <2>6. outcome' # "none"
    BY <2>1
  <2>7. QED
    BY <1>3, <2>3, <2>4, <2>5, <2>6 DEF Inv
<1>7. QED
  BY <1>1, <1>4, <1>5, <1>6, Zenon

\* The innermost call goes on with the k-th import.
LEMMA SetTopPreserves ==
  ASSUME Inv, Searching, found = NULL, NEW k \in Nat,
         SetTop([Top EXCEPT !.k = k]), UNCHANGED <<query, found, outcome>>,
         \A f \in Frame : (f.module = Top.module /\ f.original = Top.original /\ f.k = k)
           => Searched(query, f, k - 1)
  PROVE  Inv'
<1>1. /\ stack \in Seq(Frame) /\ stack # <<>> /\ Len(stack) \in Nat \ {0}
      /\ Top = stack[Len(stack)] /\ Top = Last(stack) /\ Top \in Frame
      /\ Top.module \in Reachable /\ Chained(query, stack)
  BY Types DEF Inv, Progress
<1>2. PICK f \in Frame : /\ f = [Top EXCEPT !.k = k] /\ f.module = Top.module
                         /\ f.original = Top.original /\ f.k = k
  BY <1>1, NextImport
<1> DEFINE t == ReplaceAt(stack, Len(stack), f)
<1>3. stack' = t
  BY <1>2 DEF SetTop
<1>4. /\ t \in Seq(Frame) /\ t # <<>> /\ Len(t) = Len(stack)
       /\ t[Len(stack)] = f /\ Last(t) = f
       /\ \A j \in 1 .. Len(stack) : j # Len(stack) => t[j] = stack[j]
  BY <1>1, SetLastOf
<1> HIDE DEF t
<1>5. /\ stack' \in Seq(Frame) /\ stack' # <<>> /\ Len(stack') = Len(stack)
      /\ stack'[Len(stack)] = f /\ Last(stack') = f
      /\ \A j \in 1 .. Len(stack) : j # Len(stack) => stack'[j] = stack[j]
  BY <1>3, <1>4
<1>6. ASSUME NEW j \in 1 .. Len(stack') PROVE stack'[j].module \in Reachable
  <2>1. CASE j = Len(stack)
    BY <1>1, <1>2, <1>5, <2>1
  <2>2. CASE j # Len(stack)
    BY <1>5, <2>2 DEF Inv
  <2>3. QED
    BY <2>1, <2>2
<1>7. Chained(query, stack')
  BY <1>1, <1>2, <1>3, TopGoesOn DEF t
<1>8. Searched(query, f, f.k - 1)
  BY <1>2
<1>9. Progress(query, stack')
  BY <1>5, <1>7, <1>8 DEF Progress
<1>10. QED
  BY <1>5, <1>6, <1>9, Continues

\* A call hands on what the call that it made has found.
LEMMA PropagatePreserves ==
  ASSUME Inv, Propagate
  PROVE  Inv'
<1>1. Searching /\ found # NULL /\ Return(found)
  BY DEF Propagate
<1>2. found \in Module \union {NULL} /\ found \in Reachable \intersect query.defines
  BY <1>1 DEF Inv, TypeOK, FoundIsVisible
<1>3. QED
  BY <1>1, <1>2, ReturnPreserves

\* A call looks at its own module first.
LEMMA SearchModulePreserves ==
  ASSUME Inv, SearchModule, NULL \notin Module
  PROVE  Inv'
<1>1. Searching /\ found = NULL
  BY DEF SearchModule
<1>2. CASE Top.module \in query.defines
  <2>1. Return(Top.module)
    BY <1>2 DEF SearchModule
  <2>2. Top.module \in Module /\ Top.module \in Reachable
    BY Types
  <2>3. QED
    BY <1>1, <1>2, <2>1, <2>2, ReturnPreserves
<1>3. CASE Top.module \notin query.defines
  <2>1. SetTop([Top EXCEPT !.k = 1]) /\ UNCHANGED <<query, found, outcome>>
    BY <1>3 DEF SearchModule
  <2>2. ASSUME NEW f \in Frame, f.module = Top.module
        PROVE  Searched(query, f, 1 - 1)
    BY <1>3, <2>2 DEF Searched
  <2>3. QED
    BY <1>1, <2>1, <2>2, SetTopPreserves
<1>4. QED
  BY <1>2, <1>3

\* What is known of the module and the imports behind the innermost call.
LEMMA PendingOK ==
  ASSUME Inv, Pending
  PROVE  /\ Searching /\ found = NULL
         /\ Top.k \in 1 .. Len(query.imports[Top.module])
         /\ Import = query.imports[Top.module][Top.k]
         /\ Import \in Module /\ Import \in Reachable
         /\ Chained(query, stack) /\ Searched(query, Top, Top.k - 1)
<1>1. Searching /\ found = NULL /\ Top.k \in 1 .. Len(Imports)
  BY DEF Pending
<1>2. Top.k \in 1 .. Len(query.imports[Top.module]) /\ Import = query.imports[Top.module][Top.k]
  BY <1>1, Types DEF Import
<1>3. Import \in Module
  BY <1>1, Types, ElementOfSeq DEF Import
<1>4. Import \in Reachable
  <2>1. query.from \in Module
    BY Types DEF Query
  <2>2. QED
    BY <1>2, <2>1, Types, NeededCloses DEF Reachable
<1>5. Chained(query, stack) /\ Searched(query, Top, Top.k - 1)
  BY <1>1, Types DEF Inv, Progress
<1>6. QED
  BY <1>1, <1>2, <1>3, <1>4, <1>5

\* A circle is cut.
LEMMA SkipImportPreserves ==
  ASSUME Inv, SkipImport
  PROVE  Inv'
<1>1. /\ Searching /\ found = NULL /\ Top.k \in Nat
      /\ Top.k \in 1 .. Len(query.imports[Top.module])
      /\ Searched(query, Top, Top.k - 1)
      /\ query.imports[Top.module][Top.k] = Top.original
  BY PendingOK, Types DEF SkipImport, Cut
<1>2. SetTop([Top EXCEPT !.k = Top.k + 1]) /\ UNCHANGED <<query, found, outcome>>
  BY DEF SkipImport
<1>3. ASSUME NEW f \in Frame, f.module = Top.module, f.original = Top.original,
             f.k = Top.k + 1
      PROVE  Searched(query, f, Top.k + 1 - 1)
  <2>1. f.module \notin query.defines
    BY <1>1, <1>3 DEF Searched
  <2>2. OriginalOf(query, f) = OriginalOf(query, Top)
    BY <1>3 DEF OriginalOf
  <2>3. ASSUME NEW i \in 1 .. Top.k + 1 - 1, i <= Len(query.imports[f.module])
        PROVE  \/ query.imports[f.module][i] = f.original
               \/ Ended(query, query.imports[f.module][i], OriginalOf(query, f))
    <3>1. CASE i = Top.k
      BY <1>1, <1>3, <3>1
    <3>2. CASE i # Top.k
      <4>1. i \in 1 .. Top.k - 1
        BY <1>1, <3>2
      <4>2. QED
        BY <1>1, <1>3, <2>2, <2>3, <4>1 DEF Searched
    <3>3. QED
      BY <3>1, <3>2
  <2>4. QED
    BY <2>1, <2>3 DEF Searched
<1>4. Top.k + 1 \in Nat
  BY <1>1
<1>5. QED
  BY <1>1, <1>2, <1>3, <1>4, SetTopPreserves

\* An import is searched.
LEMMA SearchImportPreserves ==
  ASSUME Inv, SearchImport
  PROVE  Inv'
<1>1. /\ Searching /\ found = NULL /\ Top.k \in Nat
      /\ Top.k \in 1 .. Len(query.imports[Top.module])
      /\ Import = query.imports[Top.module][Top.k]
      /\ Import \in Module /\ Import \in Reachable
      /\ Chained(query, stack) /\ Searched(query, Top, Top.k - 1)
  BY PendingOK, Types DEF SearchImport
<1>2. /\ stack \in Seq(Frame) /\ stack # <<>> /\ Len(stack) \in Nat \ {0}
      /\ Top = stack[Len(stack)] /\ Top = Last(stack) /\ Top \in Frame
      /\ Top.module \in Module /\ Top.module \in Reachable /\ TypeOK
  BY Types DEF Inv
<1>3. query' = query /\ found' = found
  BY DEF SearchImport
<1>4. CASE outcome' = "overflow" /\ stack' = stack
  BY <1>3, <1>4 DEF Inv, TypeOK, Searching, FoundIsVisible, Reachable
<1>5. CASE /\ stack' = Append(ReplaceAt(stack, Len(stack), [Top EXCEPT !.k = Top.k + 1]),
                              Call(Import, Original))
           /\ outcome' = outcome
  <2>1. Top.k + 1 \in Nat
    BY <1>1
  <2>2. PICK lo \in Frame : /\ lo = [Top EXCEPT !.k = Top.k + 1] /\ lo.module = Top.module
                            /\ lo.original = Top.original /\ lo.k = Top.k + 1
    BY <1>2, <2>1, NextImport
  <2>3. Original \in Module \union {NULL} /\ Original = OriginalOf(query, Top)
    BY <1>2 DEF Original, OriginalOf, Onward, Frame
  <2>4. PICK hi \in Frame : /\ hi = Call(Import, Original) /\ hi.module = Import
                            /\ hi.original = Original /\ hi.k = 0
    <3> DEFINE c == Call(Import, Original)
    <3>1. c = Call(Import, Original)
      OBVIOUS
    <3> HIDE DEF c
    <3>2. c \in Frame /\ c.module = Import /\ c.original = Original /\ c.k = 0
      BY <1>1, <2>3, <3>1 DEF Call, Frame
    <3>3. QED
      BY <3>1, <3>2
  <2> DEFINE s == ReplaceAt(stack, Len(stack), lo)
             t == Append(s, hi)
  <2>5. stack' = t
    BY <1>5, <2>2, <2>4
  <2>6. /\ s \in Seq(Frame) /\ s # <<>> /\ Len(s) = Len(stack)
        /\ s[Len(stack)] = lo /\ Last(s) = lo
        /\ \A j \in 1 .. Len(stack) : j # Len(stack) => s[j] = stack[j]
    BY <1>2, SetLastOf
  <2>7. Chained(query, s)
    BY <1>1, <1>2, <2>2, TopGoesOn
  <2> HIDE DEF s
  <2>8. /\ t \in Seq(Frame) /\ t # <<>> /\ Len(t) = Len(s) + 1 /\ Last(t) = hi
        /\ \A j \in 1 .. Len(s) + 1 : t[j] = IF j = Len(s) + 1 THEN hi ELSE s[j]
    BY <2>6, PushOn
  <2>9. Waiting(query, lo, hi)
    <3>1. lo.k - 1 = Top.k /\ lo.k - 2 = Top.k - 1
      BY <1>1, <2>2
    <3>2. OriginalOf(query, lo) = OriginalOf(query, Top)
      BY <2>2 DEF OriginalOf
    <3>3. lo.module \notin query.defines
      BY <1>1, <2>2 DEF Searched
    <3>4. Searched(query, lo, Top.k - 1)
      BY <1>1, <2>2, <3>2, <3>3 DEF Searched
    <3>5. QED
      BY <1>1, <2>2, <2>3, <2>4, <3>1, <3>2, <3>4 DEF Waiting
  <2>10. Chained(query, t)
    BY <2>6, <2>7, <2>9, CallGoesOn
  <2> HIDE DEF t
  <2>11. Searched(query, hi, hi.k - 1)
    BY <2>4 DEF Searched
  <2>12. Progress(query, t)
    BY <2>8, <2>10, <2>11 DEF Progress
  <2>13. ASSUME NEW j \in 1 .. Len(t) PROVE t[j].module \in Reachable
    <3>1. CASE j = Len(s) + 1
      BY <1>1, <2>4, <2>8, <3>1
    <3>2. CASE j # Len(s) + 1
      <4>1. j \in 1 .. Len(stack) /\ t[j] = s[j]
        BY <1>2, <2>6, <2>8, <3>2
      <4>2. CASE j = Len(stack)
        BY <1>2, <2>2, <2>6, <4>1, <4>2
      <4>3. CASE j # Len(stack)
        BY <2>6, <4>1, <4>3 DEF Inv
      <4>4. QED
        BY <4>2, <4>3
    <3>3. QED
      BY <3>1, <3>2
  <2>14. QED
    BY <1>1, <1>3, <1>5, <2>5, <2>8, <2>12, <2>13, Continues
<1>6. QED
  BY <1>4, <1>5 DEF SearchImport

\* A call has searched all its imports: it cannot find the name, and what it cut is
\* left to the calls that it is nested in.
LEMMA NotFoundHerePreserves ==
  ASSUME Inv, NotFoundHere
  PROVE  Inv'
<1>1. Searching /\ found = NULL /\ Top.k > Len(Imports) /\ Return(NULL)
  BY DEF NotFoundHere
<1>2. /\ Top.module \in Module /\ Imports = query.imports[Top.module]
      /\ Imports \in Seq(Module) /\ Top.k \in Nat /\ Top = Last(stack)
  BY Types
<1>3. Searched(query, Top, Top.k - 1)
  BY <1>1, <1>2 DEF Inv, Progress
<1>4. Len(Imports) \in Nat /\ Top.k > 0 /\ Len(Imports) <= Top.k - 1
  BY <1>1, <1>2
<1>5. Top.module \notin query.defines
  BY <1>3, <1>4 DEF Searched
<1>6. ASSUME NEW i \in 1 .. Len(query.imports[Top.module])
      PROVE  \/ query.imports[Top.module][i] = Top.original
             \/ Ended(query, query.imports[Top.module][i], OriginalOf(query, Top))
  <2>1. i \in 1 .. Top.k - 1 /\ i <= Len(query.imports[Top.module])
    BY <1>2, <1>4
  <2>2. QED
    BY <1>3, <2>1 DEF Searched
<1>7. Top \in Frame
  BY Types
<1>8. Ended(query, Top.module, Top.original)
  BY <1>5, <1>6, <1>7, EndedJoins
<1>9. QED
  BY <1>1, <1>8, ReturnPreserves

-----------------------------------------------------------------------------
(* Theorems *)

\* The invariant holds when a search begins.
LEMMA InvInit ==
  ASSUME Init
  PROVE  Inv
<1> DEFINE f == Call(query.from, NULL)
<1>1. query \in Query /\ query.from \in Module /\ query.imports \in [Module -> Seq(Module)]
  BY NameLookupAssumptions DEF Init, Query
<1>2. stack = <<f>> /\ found = NULL /\ outcome = "searching"
  BY DEF Init
<1>3. f \in Frame /\ f.module = query.from /\ f.original = NULL /\ f.k = 0
  BY <1>1 DEF Call, Frame
<1> HIDE DEF f
<1>4. stack \in Seq(Frame) /\ stack # <<>> /\ Len(stack) = 1 /\ stack[1] = f
  BY <1>2, <1>3
<1>5. TypeOK
  BY <1>1, <1>2, <1>4 DEF TypeOK
<1>6. query.from \in Reachable
  BY <1>1, NeededCloses DEF Reachable
<1>7. \A j \in 1 .. Len(stack) : stack[j].module \in Reachable
  BY <1>3, <1>4, <1>6
<1>8. FoundIsVisible
  BY <1>2 DEF FoundIsVisible
<1>9. Progress(query, stack)
  <2>1. Last(stack) = f
    BY <1>4 DEF Last
  <2>2. Searched(query, f, f.k - 1)
    BY <1>3 DEF Searched
  <2>3. Chained(query, stack)
    BY <1>3, <1>4 DEF Chained
  <2>4. QED
    BY <2>1, <2>2, <2>3 DEF Progress
<1>10. QED
  BY <1>2, <1>5, <1>7, <1>8, <1>9 DEF Inv

\* Every step keeps the invariant.
LEMMA InvNext ==
  ASSUME Inv, [Search \/ Done]_vars
  PROVE  Inv'
<1>1. CASE UNCHANGED vars
  BY <1>1 DEF vars, Inv, TypeOK, Searching, FoundIsVisible, Reachable
<1>2. CASE Propagate
  BY <1>2, PropagatePreserves
<1>3. CASE SearchModule
  BY <1>3, SearchModulePreserves, NameLookupAssumptions
<1>4. CASE SkipImport
  BY <1>4, SkipImportPreserves
<1>5. CASE SearchImport
  BY <1>5, SearchImportPreserves
<1>6. CASE NotFoundHere
  BY <1>6, NotFoundHerePreserves
<1>7. QED
  BY <1>1, <1>2, <1>3, <1>4, <1>5, <1>6 DEF Search, Done

\* Inv holds in every state of a search.
THEOREM Invariant == Spec => []Inv
<1>1. Init => Inv
  BY InvInit
<1>2. Inv /\ [Search \/ Done]_vars => Inv'
  BY InvNext
<1>3. QED
  BY <1>1, <1>2, PTL DEF Spec

\* Every variable has its type.
THEOREM TypeCorrect == Spec => []TypeOK
<1>1. Inv => TypeOK
  BY DEF Inv
<1>2. QED
  BY <1>1, Invariant, PTL

\* What is found has the name, and the module that asks imports it, however
\* indirectly (lib.c:489-567).
THEOREM OnlyVisibleFound == Spec => []FoundIsVisible
<1>1. Inv => FoundIsVisible
  BY DEF Inv
<1>2. QED
  BY <1>1, Invariant, PTL

\* A search that finds nothing has missed nothing, whatever circles it has cut
\* (lib.c:381-400, 546-567).
THEOREM CuttingHidesNothing == Spec => []NoneIsNone
<1>1. Inv => NoneIsNone
  <2>1. SUFFICES ASSUME Inv, outcome = "none" PROVE NoneIsNone
    BY DEF NoneIsNone
  <2>2. query \in Query /\ query.from \in Barren(query, NULL)
    BY <2>1, Types DEF Inv, Ended
  <2>3. Needed(query.imports, {query.from}) \intersect query.defines = {}
    BY <2>2, BarrenHides, NameLookupAssumptions
  <2>4. QED
    BY <2>3 DEF NoneIsNone, Reachable
<1>2. QED
  BY <1>1, Invariant, PTL

-----------------------------------------------------------------------------
(* What the nested calls have gone through *)

\* The call lo made the call hi for an import that it did not cut.
Calls(q, lo, hi) ==
  /\ hi.module \in Range(q.imports[lo.module])
  /\ hi.original = IF q.kind = "type" THEN lo.module ELSE q.from
  /\ hi.module # lo.original

Traced(q, s) ==
  /\ s[1].module = q.from /\ s[1].original = NULL
  /\ \A j \in 1 .. Len(s) : j > 1 => Calls(q, s[j - 1], s[j])

\* Each call searches a module.
LEMMA ModuleOf ==
  ASSUME NEW s \in Seq(Frame), NEW j \in 1 .. Len(s)
  PROVE  s[j].module \in Module
<1>1. s[j] \in Frame
  BY ElementOfSeq
<1>2. QED
  BY <1>1 DEF Frame

\* The innermost call goes on with another import.
LEMMA TraceTop ==
  ASSUME NEW q, NEW s \in Seq(Frame), s # <<>>, Traced(q, s),
         NEW f \in Frame, f.module = Last(s).module, f.original = Last(s).original
  PROVE  Traced(q, ReplaceAt(s, Len(s), f))
<1> DEFINE t == ReplaceAt(s, Len(s), f)
<1>1. Len(s) \in Nat \ {0} /\ Last(s) = s[Len(s)]
  BY LastOf
<1>2. /\ Len(t) = Len(s) /\ t[Len(s)] = f
      /\ \A j \in 1 .. Len(s) : j # Len(s) => t[j] = s[j]
  BY SetLastOf
<1> HIDE DEF t
<1>3. \A j \in 1 .. Len(s) : t[j].module = s[j].module /\ t[j].original = s[j].original
  BY <1>1, <1>2
<1>4. t[1].module = q.from /\ t[1].original = NULL
  BY <1>1, <1>3 DEF Traced
<1>5. ASSUME NEW j \in 1 .. Len(t), j > 1 PROVE Calls(q, t[j - 1], t[j])
  <2>1. j - 1 \in 1 .. Len(s) /\ j \in 1 .. Len(s)
    BY <1>1, <1>2, <1>5
  <2>2. Calls(q, s[j - 1], s[j])
    BY <1>5, <2>1 DEF Traced
  <2>3. /\ t[j - 1].module = s[j - 1].module /\ t[j - 1].original = s[j - 1].original
        /\ t[j].module = s[j].module /\ t[j].original = s[j].original
    BY <1>3, <2>1
  <2>4. QED
    BY <2>2, <2>3 DEF Calls
<1>6. QED
  BY <1>4, <1>5 DEF Traced, t

\* The innermost call makes another one.
LEMMA TraceCall ==
  ASSUME NEW q, NEW s \in Seq(Frame), s # <<>>, Traced(q, s),
         NEW f \in Frame, Calls(q, Last(s), f)
  PROVE  Traced(q, Append(s, f))
<1> DEFINE t == Append(s, f)
<1>1. Len(s) \in Nat \ {0} /\ Last(s) = s[Len(s)]
  BY LastOf
<1>2. /\ Len(t) = Len(s) + 1
      /\ \A j \in 1 .. Len(s) + 1 : t[j] = IF j = Len(s) + 1 THEN f ELSE s[j]
  BY PushOn
<1> HIDE DEF t
<1>3. t[1].module = q.from /\ t[1].original = NULL
  BY <1>1, <1>2 DEF Traced
<1>4. ASSUME NEW j \in 1 .. Len(t), j > 1 PROVE Calls(q, t[j - 1], t[j])
  <2>1. CASE j = Len(s) + 1
    <3>1. t[j] = f /\ j - 1 \in 1 .. Len(s) + 1 /\ t[j - 1] = s[Len(s)]
      BY <1>1, <1>2, <2>1
    <3>2. QED
      BY <1>1, <3>1
  <2>2. CASE j # Len(s) + 1
    <3>1. j \in 1 .. Len(s) /\ t[j] = s[j] /\ t[j - 1] = s[j - 1]
      BY <1>1, <1>2, <1>4, <2>2
    <3>2. QED
      BY <1>4, <3>1 DEF Traced
  <2>3. QED
    BY <2>1, <2>2
<1>5. QED
  BY <1>3, <1>4 DEF Traced, t

\* The innermost call returns.
LEMMA TraceReturn ==
  ASSUME NEW q, NEW s \in Seq(Frame), Len(s) > 1, Traced(q, s)
  PROVE  Traced(q, Front(s))
<1> DEFINE t == Front(s)
<1>1. s # <<>> /\ Len(s) \in Nat \ {0}
  BY EmptySeq
<1>2. Len(t) = Len(s) - 1 /\ \A j \in 1 .. Len(s) - 1 : t[j] = s[j]
  BY <1>1, FrontOf
<1> HIDE DEF t
<1>3. t[1].module = q.from /\ t[1].original = NULL
  BY <1>1, <1>2 DEF Traced
<1>4. ASSUME NEW j \in 1 .. Len(t), j > 1 PROVE Calls(q, t[j - 1], t[j])
  <2>1. j \in 1 .. Len(s) /\ t[j] = s[j] /\ t[j - 1] = s[j - 1]
    BY <1>1, <1>2, <1>4
  <2>2. QED
    BY <1>4, <2>1 DEF Traced
<1>5. QED
  BY <1>3, <1>4 DEF Traced, t

\* The frame of the innermost call, with another import next
LEMMA TopAdvanced ==
  ASSUME Inv, NEW k \in Nat
  PROVE  \E f \in Frame : /\ f = [Top EXCEPT !.k = k]
                          /\ f.module = Top.module /\ f.original = Top.original
<1>1. PICK t \in Frame : t = Top
  BY Types
<1>2. PICK f : f = [t EXCEPT !.k = k]
  OBVIOUS
<1>3. f \in Frame /\ f.module = t.module /\ f.original = t.original
  BY <1>2, NextImport
<1>4. QED
  BY <1>1, <1>2, <1>3

\* A call that SearchImport makes, whether the stack has room for it or not.
LEMMA ImportTraced ==
  ASSUME Inv, Traced(query, stack), NULL \notin Module,
         Pending, ~Cut(Import),
         NEW t, t = Append(ReplaceAt(stack, Len(stack), [Top EXCEPT !.k = Top.k + 1]),
                           Call(Import, Original))
  PROVE  t \in Seq(Frame) /\ Len(t) = Len(stack) + 1 /\ Traced(query, t)
<1>1. /\ stack \in Seq(Frame) /\ stack # <<>> /\ Top = Last(stack) /\ Top \in Frame
      /\ Top = stack[Len(stack)] /\ Len(stack) \in Nat \ {0}
      /\ query \in Query /\ Import # Top.original /\ Top.k + 1 \in Nat
  BY Types DEF Cut
<1>2. PICK lo \in Frame : /\ lo = [Top EXCEPT !.k = Top.k + 1] /\ lo.module = Top.module
                          /\ lo.original = Top.original
  BY <1>1, TopAdvanced
<1>3. /\ Import \in Module /\ Import = query.imports[Top.module][Top.k]
      /\ Top.k \in 1 .. Len(query.imports[Top.module])
  BY PendingOK
<1>4. Import \in Range(query.imports[Top.module])
  <2>1. query.imports[Top.module] \in Seq(Module)
    BY Types
  <2>2. QED
    BY <1>3, <2>1 DEF Range
<1>5. Original \in Module \union {NULL} /\ Original = OriginalOf(query, Top)
  BY <1>1 DEF Original, OriginalOf, Onward, Frame
<1>6. Original = IF query.kind = "type" THEN Top.module ELSE query.from
  <2>1. CASE Len(stack) = 1
    BY <1>1, <1>5, <2>1 DEF OriginalOf, Onward, Traced
  <2>2. CASE Len(stack) # 1
    <3>1. PICK n \in Nat \ {0} : n = Len(stack)
      BY <1>1
    <3>2. n > 1 /\ n \in 1 .. n
      BY <2>2, <3>1
    <3>3. Calls(query, stack[n - 1], Top)
      BY <1>1, <3>1, <3>2 DEF Traced
    <3>4. Top.original = IF query.kind = "type" THEN stack[n - 1].module ELSE query.from
      BY <3>3 DEF Calls
    <3>5. query.from # NULL
      BY <1>1 DEF Query
    <3>6. Top.original # NULL /\ (query.kind # "type" => Top.original = query.from)
      <4>1. stack[n - 1].module \in Module
        <5>1. PICK p : p = n - 1
          OBVIOUS
        <5>2. p \in 1 .. Len(stack) /\ stack \in Seq(Frame)
          BY <1>1, <3>1, <3>2, <5>1
        <5>3. QED
          BY <5>1, <5>2, ModuleOf
      <4>2. stack[n - 1].module # NULL
        BY <4>1
      <4>3. CASE query.kind = "type"
        BY <3>4, <4>2, <4>3
      <4>4. CASE query.kind # "type"
        BY <3>4, <3>5, <4>4
      <4>5. QED
        BY <4>3, <4>4
    <3>7. QED
      BY <1>5, <3>6 DEF OriginalOf, Onward
  <2>3. QED
    BY <2>1, <2>2
<1>7. PICK hi : hi = Call(Import, Original)
  OBVIOUS
<1>8. hi \in Frame /\ hi.module = Import /\ hi.original = Original
  BY <1>3, <1>5, <1>7 DEF Call, Frame
<1>9. PICK s : s = ReplaceAt(stack, Len(stack), lo)
  OBVIOUS
<1>10. Traced(query, s)
  BY <1>1, <1>2, <1>9, TraceTop
<1>11. s \in Seq(Frame) /\ s # <<>> /\ Last(s) = lo /\ Len(s) = Len(stack)
  BY <1>1, <1>9, SetLastOf
<1>13. Calls(query, lo, hi)
  BY <1>1, <1>2, <1>4, <1>6, <1>8 DEF Calls
<1>14. t = Append(s, hi)
  BY <1>2, <1>7, <1>9
<1>15. Traced(query, t)
  BY <1>8, <1>10, <1>11, <1>13, <1>14, TraceCall
<1>16. Append(s, hi) \in Seq(Frame) /\ Len(Append(s, hi)) = Len(s) + 1
  BY <1>8, <1>11, PushOn
<1>17. QED
  BY <1>11, <1>14, <1>15, <1>16

\* Every step keeps the trace.
LEMMA TraceNext ==
  ASSUME Inv, Traced(query, stack), [Search \/ Done]_vars
  PROVE  Traced(query, stack)'
<1>1. CASE UNCHANGED vars
  BY <1>1 DEF vars, Traced, Calls
<1>2. ASSUME NEW r, Return(r)
      PROVE  Traced(query, stack)'
  <2>1. CASE Len(stack) = 1
    BY <1>2, <2>1 DEF Return, Traced, Calls
  <2>2. CASE Len(stack) # 1
    <3>1. stack' = Front(stack) /\ query' = query
      BY <1>2, <2>2 DEF Return
    <3>2. Len(stack) \in Nat \ {0} /\ stack \in Seq(Frame)
      BY Types
    <3>3. PICK n \in Nat \ {0} : n = Len(stack)
      BY <3>2
    <3>4. n > 1
      BY <2>2, <3>3
    <3>5. Traced(query, Front(stack))
      BY <3>2, <3>3, <3>4, TraceReturn
    <3>6. QED
      BY <3>1, <3>5
  <2>3. QED
    BY <2>1, <2>2
<1>3. ASSUME NEW k \in Nat, SetTop([Top EXCEPT !.k = k]), query' = query
      PROVE  Traced(query, stack)'
  <2>1. /\ stack \in Seq(Frame) /\ stack # <<>> /\ Top = Last(stack) /\ Top \in Frame
    BY Types
  <2>2. PICK f \in Frame : /\ f = [Top EXCEPT !.k = k] /\ f.module = Top.module
                           /\ f.original = Top.original
    BY <1>3, TopAdvanced
  <2>3. Traced(query, ReplaceAt(stack, Len(stack), f))
    BY <2>1, <2>2, TraceTop
  <2>4. QED
    BY <1>3, <2>2, <2>3 DEF SetTop
<1>4. ASSUME SearchImport PROVE Traced(query, stack)'
  <2>1. query' = query /\ Pending /\ ~Cut(Import)
    BY <1>4 DEF SearchImport
  <2>2. CASE stack' = stack
    BY <2>1, <2>2 DEF Traced, Calls
  <2>3. CASE stack' = Append(ReplaceAt(stack, Len(stack), [Top EXCEPT !.k = Top.k + 1]),
                             Call(Import, Original))
    <3>1. PICK t : t = stack'
      OBVIOUS
    <3>2. Traced(query, t)
      BY <2>1, <2>3, <3>1, ImportTraced, NameLookupAssumptions
    <3>3. QED
      BY <2>1, <3>1, <3>2 DEF Traced, Calls
  <2>4. QED
    BY <1>4, <2>2, <2>3 DEF SearchImport
<1>5. Top.k \in Nat /\ Top.k + 1 \in Nat /\ 1 \in Nat
  BY Types
<1>6. CASE Propagate
  BY <1>2, <1>6 DEF Propagate
<1>7. CASE SearchModule
  BY <1>2, <1>3, <1>5, <1>7 DEF SearchModule
<1>8. CASE SkipImport
  BY <1>3, <1>5, <1>8 DEF SkipImport
<1>9. CASE NotFoundHere
  BY <1>2, <1>9 DEF NotFoundHere
<1>10. QED
  BY <1>1, <1>4, <1>6, <1>7, <1>8, <1>9 DEF Search, Done

\* Every path of calls is traced.
LEMMA AlwaysTraced == Spec => [](Inv /\ Traced(query, stack))
<1> DEFINE T == Traced(query, stack)
<1>1. ASSUME Init PROVE T
  <2>1. PICK f : f = Call(query.from, NULL)
    OBVIOUS
  <2>2. stack = <<f>> /\ f.module = query.from /\ f.original = NULL
    BY <1>1, <2>1 DEF Init, Call
  <2>3. Len(stack) = 1 /\ stack[1] = f
    BY <2>2
  <2>4. QED
    BY <2>2, <2>3 DEF Traced
<1>2. ASSUME Inv, T, [Search \/ Done]_vars PROVE T'
  BY <1>2, TraceNext
<1>3. QED
  BY <1>1, <1>2, Invariant, PTL DEF Spec

\* On a path with more calls than there are pairs of modules, two calls search the
\* same module for the same original_module.
LEMMA PathRepeats ==
  ASSUME NEW q \in Query, NEW s \in Seq(Frame), Traced(q, s), IsFiniteSet(Module),
         Len(s) > Cardinality(Module) * Cardinality(Module) + 1
  PROVE  \E i, j \in 2 .. Len(s) : /\ i < j /\ s[i].module = s[j].module
                                   /\ s[i].original = s[j].original
<1>1. PICK n \in Nat : n = Len(s)
  BY LenProperties
<1>2. PICK c \in Nat : c = Cardinality(Module)
  BY FS_CardinalityType
<1>3. PICK d \in Nat : d = c * c /\ n > d + 1
  BY <1>1, <1>2
<1>4. IsFiniteSet(Module \X Module) /\ Cardinality(Module \X Module) = d
  BY <1>2, <1>3, FS_Product
<1>5. IsFiniteSet(2 .. n) /\ Cardinality(2 .. n) = n - 1
  <2>1. 2 \in Int /\ n \in Int /\ 2 <= n
    BY <1>3
  <2>2. IsFiniteSet(2 .. n) /\ Cardinality(2 .. n) = IF 2 > n THEN 0 ELSE n - 2 + 1
    BY <2>1, FS_Interval
  <2>3. QED
    BY <2>1, <2>2
<1>6. PICK g : g = [k \in 2 .. n |-> <<s[k].original, s[k].module>>]
  OBVIOUS
<1>7. ASSUME NEW k \in 2 .. n
      PROVE  s[k].original \in Module /\ s[k].module \in Module
  <2>1. k \in 1 .. n /\ k > 1
    BY <1>7
  <2>2. PICK l : l = k - 1
    OBVIOUS
  <2>3. l \in 1 .. n
    BY <2>1, <2>2
  <2>4. s[l].module \in Module /\ s[k].module \in Module /\ q.from \in Module
    BY <1>1, <2>1, <2>3, ModuleOf DEF Query
  <2>5. Calls(q, s[l], s[k])
    BY <1>1, <2>1, <2>2 DEF Traced
  <2>6. QED
    BY <2>4, <2>5 DEF Calls
<1>8. g \in [2 .. n -> Module \X Module]
  BY <1>6, <1>7
<1>9. Cardinality(Module \X Module) < Cardinality(2 .. n)
  BY <1>3, <1>4, <1>5
<1>10. PICK x \in 2 .. n, y \in 2 .. n : x # y /\ g[x] = g[y]
  BY <1>4, <1>5, <1>8, <1>9, FS_PigeonHole
<1>11. s[x].module = s[y].module /\ s[x].original = s[y].original /\ (x < y \/ y < x)
  BY <1>6, <1>10
<1>12. QED
  BY <1>1, <1>10, <1>11

\* A path that comes back to a call goes round for ever.
LEMMA RepeatedEndless ==
  ASSUME NEW q \in Query, NEW s \in Seq(Frame), Traced(q, s),
         NEW i \in 2 .. Len(s), NEW j \in 2 .. Len(s), i < j,
         s[i].module = s[j].module, s[i].original = s[j].original
  PROVE  Endless(q)
<1>1. PICK n \in Nat : n = Len(s)
  BY LenProperties
<1>2. i \in 2 .. n /\ j \in 2 .. n /\ i \in Nat /\ j \in Nat
  BY <1>1
<1>3. \A k \in 1 .. n : s[k].module \in Module
  BY <1>1, ModuleOf
<1>4. ASSUME NEW k \in 2 .. n PROVE Calls(q, s[k - 1], s[k])
  <2>1. k \in 1 .. n /\ k > 1
    BY <1>4
  <2>2. QED
    BY <1>1, <2>1 DEF Traced
<1>5. /\ DOMAIN q.imports = Module /\ q.from \in Module /\ s[1].module = q.from
      /\ q.kind \in {"function", "type"}
  BY DEF Query, Traced
<1>6. PICK path : path = [x \in Module |-> x]
  OBVIOUS
<1>7. CASE q.kind = "function"
  <2>1. PICK S : S = {s[k].module : k \in 2 .. j - 1}
    OBVIOUS
  <2>2. \A k \in 2 .. j - 1 : k \in 2 .. n /\ k \in 1 .. n
    BY <1>2
  <2>3. S \in SUBSET Module
    BY <1>3, <2>1, <2>2
  <2>4. 2 \in 2 .. j - 1 /\ 2 \in 2 .. n /\ i \in 2 .. j - 1
    BY <1>2
  <2>5. s[2].module \in Range(q.imports[q.from]) /\ s[2].module \in S
    <3>1. Calls(q, s[2 - 1], s[2]) /\ 2 - 1 = 1
      BY <1>4, <2>4
    <3>2. s[2].module \in Range(q.imports[s[1].module])
      BY <3>1 DEF Calls
    <3>3. QED
      BY <1>5, <2>1, <2>4, <3>2
  <2>6. ASSUME NEW h \in S
        PROVE  \E x \in Range(q.imports[h]) \intersect S : path[x] # path[q.from]
    <3>1. PICK k \in 2 .. j - 1 : h = s[k].module
      BY <2>1
    <3>2. PICK l : l = k + 1
      OBVIOUS
    <3>3. l \in 2 .. n /\ l - 1 = k /\ k \in 2 .. n /\ (l \in 2 .. j - 1 \/ l = j)
      BY <1>2, <3>2
    <3>4. Calls(q, s[k], s[l]) /\ Calls(q, s[k - 1], s[k])
      BY <1>4, <3>3
    <3>5. s[k].original = q.from /\ s[l].module \in Range(q.imports[h]) /\ s[l].module # q.from
      BY <1>7, <3>1, <3>4 DEF Calls
    <3>6. s[l].module \in S
      BY <2>1, <2>4, <3>3
    <3>7. path[s[l].module] = s[l].module /\ path[q.from] = q.from
      BY <1>5, <1>6, <2>3, <3>6
    <3>8. QED
      BY <3>5, <3>6, <3>7
  <2>7. FunctionsEndless(q.imports, path, q.from)
    BY <1>5, <2>3, <2>5, <2>6 DEF FunctionsEndless
  <2>8. QED
    BY <1>6, <1>7, <2>7, Zenon DEF Endless
<1>8. CASE q.kind = "type"
  <2>1. PICK e : e = [k \in 2 .. n |-> <<s[k - 1].module, s[k].module>>]
    OBVIOUS
  <2>2. PICK T : T = {e[k] : k \in 2 .. j - 1}
    OBVIOUS
  <2>3. 2 \in 2 .. j - 1 /\ i \in 2 .. j - 1 /\ \A k \in 2 .. j - 1 : k \in 2 .. n
    BY <1>2
  <2>4. ASSUME NEW k \in 2 .. n
        PROVE  /\ e[k] = <<s[k - 1].module, s[k].module>>
               /\ s[k - 1].module \in Module /\ s[k].module \in Module
               /\ s[k].module \in Range(q.imports[s[k - 1].module])
               /\ s[k].original = s[k - 1].module
               /\ s[k].module # s[k - 1].original
    <3>1. k - 1 \in 1 .. n /\ k \in 1 .. n
      BY <2>4
    <3>2. Calls(q, s[k - 1], s[k])
      BY <1>4
    <3>3. QED
      BY <1>3, <1>8, <2>1, <3>1, <3>2 DEF Calls
  <2>5. ASSUME NEW t \in T PROVE t \in Edges(q.imports)
    <3>1. PICK k \in 2 .. j - 1 : t = e[k]
      BY <2>2
    <3>2. PICK x, y : x = s[k - 1].module /\ y = s[k].module
      OBVIOUS
    <3>3. t = <<x, y>> /\ x \in Module /\ y \in Range(q.imports[x])
      BY <2>3, <2>4, <3>1, <3>2
    <3>4. QED
      BY <1>5, <3>3 DEF Edges
  <2>6. e[2] \in T /\ e[2][1] = q.from
    <3>1. e[2] = <<s[1].module, s[2].module>>
      <4>1. 2 \in 2 .. n /\ 2 - 1 = 1
        BY <2>3
      <4>2. QED
        BY <2>4, <4>1
    <3>2. QED
      BY <1>5, <2>2, <2>3, <3>1
  <2>7. e[i] = e[j]
    <3>1. s[i].original = s[i - 1].module /\ s[j].original = s[j - 1].module
      BY <1>2, <2>4
    <3>2. e[i] = <<s[i - 1].module, s[i].module>> /\ e[j] = <<s[j - 1].module, s[j].module>>
      BY <1>2, <2>4
    <3>3. QED
      BY <3>1, <3>2
  <2>8. ASSUME NEW t \in T
        PROVE  \E u \in T : u[1] = t[2] /\ path[u[2]] # path[t[1]]
    <3>1. PICK k \in 2 .. j - 1 : t = e[k]
      BY <2>2
    <3>2. PICK l : l = k + 1
      OBVIOUS
    <3>3. l \in 2 .. n /\ l - 1 = k /\ k \in 2 .. n /\ (l \in 2 .. j - 1 \/ l = j)
      BY <1>2, <3>2
    <3>4. e[l] \in T
      BY <2>2, <2>3, <2>7, <3>3
    <3>5. PICK x, y, z : x = s[k - 1].module /\ y = s[k].module /\ z = s[l].module
      OBVIOUS
    <3>6. t = <<x, y>> /\ s[k].original = x /\ x \in Module
      BY <2>4, <3>1, <3>3, <3>5
    <3>7. e[l] = <<y, z>> /\ z \in Module /\ z # s[k].original
      BY <2>4, <3>3, <3>5
    <3>8. path[z] # path[x]
      BY <1>6, <3>6, <3>7
    <3>9. e[l][1] = t[2] /\ e[l][2] = z /\ t[1] = x
      BY <3>6, <3>7
    <3>10. QED
      BY <3>4, <3>8, <3>9
  <2>9. TypesEndless(q.imports, path, q.from)
    BY <2>5, <2>6, <2>8 DEF TypesEndless
  <2>10. q.kind # "function"
    BY <1>8
  <2>11. QED
    BY <1>6, <2>9, <2>10, Zenon DEF Endless
<1>9. QED
  BY <1>5, <1>7, <1>8

\* Where the stack has room for one call per pair of modules, a search overflows it
\* on a circle that is not cut and on nothing else, and one that finds nothing had
\* no such circle before it, whatever the import graph (lib.c:338-570).
THEOREM OverflowIsForeseen ==
  ASSUME IsFiniteSet(Module), Cardinality(Module) * Cardinality(Module) < MaxDepth
  PROVE  Spec => []OverflowForeseen
<1> DEFINE Foreseen == outcome = "overflow" => Endless(query)
<1>1. ASSUME Inv, Traced(query, stack), SearchImport, Len(stack) >= MaxDepth
      PROVE  Endless(query)
  <2>1. stack \in Seq(Frame) /\ query \in Query /\ Pending /\ ~Cut(Import)
    BY <1>1, Types DEF SearchImport
  <2>2. PICK t : t = Append(ReplaceAt(stack, Len(stack), [Top EXCEPT !.k = Top.k + 1]),
                            Call(Import, Original))
    OBVIOUS
  <2>3. t \in Seq(Frame) /\ Len(t) = Len(stack) + 1 /\ Traced(query, t)
    BY <1>1, <2>1, <2>2, ImportTraced, NameLookupAssumptions
  <2>4. PICK c \in Nat : c = Cardinality(Module)
    BY FS_CardinalityType
  <2>5. PICK d \in Nat : d = c * c
    BY <2>4
  <2>6. Len(stack) \in Nat /\ MaxDepth \in Nat /\ d < MaxDepth
    BY <2>1, <2>4, <2>5, NameLookupAssumptions
  <2>7. Len(t) > Cardinality(Module) * Cardinality(Module) + 1
    BY <1>1, <2>3, <2>4, <2>5, <2>6
  <2>8. PICK i \in 2 .. Len(t), j \in 2 .. Len(t) :
          i < j /\ t[i].module = t[j].module /\ t[i].original = t[j].original
    BY <2>1, <2>3, <2>7, PathRepeats
  <2>9. QED
    BY <2>1, <2>3, <2>8, RepeatedEndless
<1>2. ASSUME Inv, Traced(query, stack), Foreseen, [Search \/ Done]_vars
      PROVE  Foreseen'
  <2>1. CASE SearchImport
    <3>1. query' = query /\ Endless(query)' = Endless(query)
      BY <2>1 DEF SearchImport, Endless
    <3>2. CASE Len(stack) < MaxDepth
      BY <1>2, <2>1, <3>1, <3>2 DEF SearchImport
    <3>3. CASE ~(Len(stack) < MaxDepth)
      <4>1. Len(stack) >= MaxDepth
        BY <1>2, <3>3, Types, NameLookupAssumptions
      <4>2. QED
        BY <1>1, <1>2, <2>1, <3>1, <4>1
    <3>4. QED
      BY <3>2, <3>3
  <2>2. CASE ~SearchImport
    <3>1. query' = query /\ (outcome' = "overflow" => outcome = "overflow")
      BY <1>2, <2>2 DEF Search, Done, vars, Propagate, SearchModule, SkipImport,
         NotFoundHere, Return
    <3>2. Endless(query)' = Endless(query)
      BY <3>1 DEF Endless
    <3>3. QED
      BY <1>2, <3>1, <3>2
  <2>3. QED
    BY <2>1, <2>2
<1>3. Init => Foreseen
  BY DEF Init
<1>4. Inv /\ Foreseen => OverflowForeseen
  <2>1. SUFFICES ASSUME Inv, outcome = "none" PROVE ~Endless(query)
    BY DEF OverflowForeseen
  <2>2. query \in Query /\ <<NULL, query.from>> \notin Rounds(query)
    BY <2>1, Types DEF Inv, Ended
  <2>3. QED
    BY <2>2, EndlessTurns, NameLookupAssumptions
<1> HIDE DEF Foreseen
<1>5. QED
  BY <1>2, <1>3, <1>4, AlwaysTraced, PTL DEF Spec

===============================================================================
