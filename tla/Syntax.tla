-------------------------------- MODULE Syntax --------------------------------
(***************************************************************************)
(* The statements of a function, as far as its control flow goes.  A       *)
(* function is the sequence of its bodies - its own first, then those of   *)
(* the statements nested in it, outer ones first; a statement is named by  *)
(* its body and its place there.                                           *)
(***************************************************************************)
EXTENDS Naturals, Sequences, SequencesExt, FiniteSetsExt

\* "call" is any statement that generates code and yields no value, "value" an
\* expression without a semicolon at the end of a body, "literal" one that
\* AST_is_expression() does not list: a literal such as true, an access to an array.
Valued == {"value", "literal"}
Op == {"call", "return", "break", "defer", "if", "ifelse", "while"} \union Valued

\* body: what is done if the condition holds, repeated or deferred;
\* orelse: what is done otherwise.  0 when there is none.
Stmt == [op : Op, body : Nat, orelse : Nat]

Nests == {"if", "ifelse", "while", "defer"}

Statements(f) == UNION {{<<b, i>> : i \in 1 .. Len(f[b])} : b \in 1 .. Len(f)}

OpOf(f, t) == f[t[1]][t[2]].op
BodyOf(f, t) == f[t[1]][t[2]].body
BodiesOf(f, t) == {BodyOf(f, t), f[t[1]][t[2]].orelse} \ {0}

\* No body belongs to two statements.
IsFunction(f) ==
  /\ f \in Seq(Seq(Stmt)) /\ f # <<>>
  /\ \A b \in 1 .. Len(f) : \A i \in 1 .. Len(f[b]) :
       LET s == f[b][i] IN
         /\ s.body \in (IF s.op \in Nests THEN b + 1 .. Len(f) ELSE {0})
         /\ s.orelse \in (IF s.op = "ifelse" THEN (b + 1 .. Len(f)) \ {s.body} ELSE {0})
         /\ s.op \in Valued => i = Len(f[b])
  /\ \A t, u \in Statements(f) : t # u => BodiesOf(f, t) \cap BodiesOf(f, u) = {}

IsLoop(f, b) ==
  \E t \in Statements(f) : LET s == f[t[1]][t[2]] IN s.op = "while" /\ s.body = b

-----------------------------------------------------------------------------
(* AST_fix_function_last_expression_stmt() *)

\* In the body of a loop the code asks twice for a nested loop, never for an if.
Fixable(f, b) == IF IsLoop(f, b) THEN {"while"} ELSE {"if", "ifelse", "while"}

\* The bodies whose last statement it looks at.  An if with nothing in its
\* first branch makes it return before it has looked at the second.
Fixed(f) ==
  LET fixed[b \in 1 .. Len(f)] ==
        \/ b = 1
        \/ \E o \in 1 .. b - 1 :
             /\ fixed[o] /\ f[o] # <<>>
             /\ LET s == Last(f[o]) IN
                  /\ s.op \in Fixable(f, o)
                  /\ \/ s.body = b
                     \/ s.op = "ifelse" /\ s.orelse = b /\ f[s.body] # <<>>
  IN fixed

\* The statements whose value becomes that of their body
Promoted(f, b, i) == i = Len(f[b]) /\ Fixed(f)[b] /\ f[b][i].op \in Fixable(f, b)

-----------------------------------------------------------------------------
(* The text of a function *)

Returns(f, b) == {i \in 1 .. Len(f[b]) : f[b][i].op = "return"}

\* The statements in the order of the text, without those behind a return in
\* the same body and without what is deferred
Text(f) ==
  LET text[b \in 1 .. Len(f)] ==
        FlattenSeq([i \in 1 .. Min(Returns(f, b) \union {Len(f[b])}) |->
          LET s == f[b][i] IN
            <<<<b, i>>>>
              \o (IF s.op \in {"if", "ifelse", "while"} THEN text[s.body] ELSE <<>>)
              \o (IF s.op = "ifelse" THEN text[s.orelse] ELSE <<>>)])
  IN text[1]

\* The deferred statements of a part of the text
Defers(f, text) == SelectSeq(text, LAMBDA name : OpOf(f, name) = "defer")

\* A return in the same body comes before it.
Behind(f, t) == \E r \in Returns(f, t[1]) : r < t[2]

\* S has, with a body, those of the statements in it that the text goes into.
EntersAll(f, S) ==
  \A t \in Statements(f) :
    t[1] \in S /\ ~Behind(f, t) /\ OpOf(f, t) # "defer" => BodiesOf(f, t) \subseteq S

\* The bodies that the text of the body b goes through: the least such set with b
LiveBodies(f, b) ==
  {c \in 1 .. Len(f) : \A S \in SUBSET (1 .. Len(f)) : b \in S /\ EntersAll(f, S) => c \in S}

\* The statements in the text of the body b
LiveIn(f, b) ==
  LET bodies == LiveBodies(f, b)
  IN {t \in Statements(f) : t[1] \in bodies /\ ~Behind(f, t)}

\* S has the bodies that are deferred, and with a body all that are nested in it.
DefersAll(f, S) ==
  \A t \in Statements(f) : OpOf(f, t) = "defer" \/ t[1] \in S => BodiesOf(f, t) \subseteq S

\* The bodies that are deferred, or nested in one that is: the least such set
InDeferred(f) ==
  {c \in 1 .. Len(f) : \A S \in SUBSET (1 .. Len(f)) : DefersAll(f, S) => c \in S}

=============================================================================
