---------------------------- MODULE MCFunctionGen -----------------------------
(***************************************************************************)
(* Functions for TLC: all those of a few bodies of at most two statements. *)
(***************************************************************************)
EXTENDS FunctionGen

Slots(op) == IF op = "ifelse" THEN 2 ELSE IF op \in Nests THEN 1 ELSE 0

\* At most two statements: what follows a return is left out, and a value is last.
Lists == {<<>>} \union {<<op>> : op \in Op} \union ((Op \ (Valued \union {"return"})) \X Op)

\* The bodies that the statements of a list need
Needs(ops) == IF ops = <<>> THEN 0
              ELSE IF Len(ops) = 1 THEN Slots(ops[1])
              ELSE Slots(ops[1]) + Slots(ops[2])

\* A partial function: some bodies as lists of what their statements are, the
\* number of bodies that they need in all, which of these are deferred or in
\* something deferred, and their statements.  A body is numbered when the
\* statement it belongs to is reached.
Grow(t, ops) ==
  LET first(i) == t.need + (IF i = 1 THEN 0 ELSE Slots(ops[1])) + 1
      inside == Len(t.bodies) + 1 \in t.deferred
  IN [need |-> t.need + Needs(ops),
      deferred |-> t.deferred \union
        UNION {first(i) .. first(i) + Slots(ops[i]) - 1 : i \in {j \in DOMAIN ops : inside \/ ops[j] = "defer"}},
      bodies |-> Append(t.bodies, [i \in DOMAIN ops |->
        [op |-> ops[i],
         body |-> IF Slots(ops[i]) > 0 THEN first(i) ELSE 0,
         orelse |-> IF ops[i] = "ifelse" THEN first(i) + 1 ELSE 0]])]

\* Body k may be the list ops in functions of n bodies: the next body belongs to
\* some statement so far, and deferred bodies neither return nor defer.
Fits(t, ops, k, n) ==
  /\ t.need + Needs(ops) \in (IF k = n THEN {n} ELSE k + 1 .. n)
  /\ k \in t.deferred => \A i \in DOMAIN ops : ops[i] \notin {"return", "defer"}

\* The functions of n bodies, all of them lists in L
Of(n, L) ==
  LET grown[k \in 0 .. n] ==
        IF k = 0 THEN {[need |-> 1, deferred |-> {}, bodies |-> <<>>]}
        ELSE {Grow(p[1], p[2]) : p \in {q \in grown[k - 1] \X L : Fits(q[1], q[2], k, n)}}
  IN {t.bodies : t \in grown[n]}

\* Functions of three bodies, and functions of four with shorter ones
Short == {<<>>} \union {<<op>> : op \in Op \ {"defer", "literal"}}
           \union ({"defer", "if", "ifelse", "while"}
                     \X {"value", "return", "if", "ifelse", "while"})
Ending == Of(1, Lists) \union Of(2, Lists) \union Of(3, Lists) \union Of(4, Short)

=============================================================================
