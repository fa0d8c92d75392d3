------------------------------- MODULE Arithmetic -------------------------------
(***************************************************************************)
(* What becomes of a number in a function of luka: it is declared again    *)
(* with another type or assigned to a variable of one, converted with      *)
(* "as", and combined with other numbers.  The type checker (src/type.c,   *)
(* src/type_checker.c) and the code generator (src/gen.c) each have their  *)
(* own idea of its type: the first has luka's type of the expression, the  *)
(* second the type of the LLVM value, in which all integers are alike.     *)
(*                                                                         *)
(* A value of LLVM is its type and, for an integer, its bits, for a        *)
(* floating-point number, the number, of which only the integers are here. *)
(* sound is FALSE for a value nothing is known of: poison, a fraction or   *)
(* copied bits.  The widths are scaled down, in the order of the real ones.*)
(***************************************************************************)
EXTENDS Types, Bitwise

CONSTANTS
  Bits,       \* the width of each type of LLVM: for a floating one, of the numbers it has exactly
  Numbers,    \* the numbers a program starts from
  Literals,   \* the numbers it combines its number with
  MaxSteps    \* bound of the model: the statements of the program

VARIABLES
  number,     \* history: [known |-> whether the program says what number it computes, n |-> which]
  type,       \* luka's type of the number
  value,      \* the value of LLVM
  stage,      \* "running", "unchecked" (the type checker rejects it) or "rejected" (LLVM does)
  steps

vars == <<number, type, value, stage, steps>>

ASSUME ArithmeticAssumptions ==
  /\ DOMAIN Bits = Integral \union Real /\ \A k \in DOMAIN Bits : Bits[k] \in Nat \ {0}
  /\ Bits["i1"] = 1
  /\ \A k, l \in Integral : Rank(k) < Rank(l) => Bits[k] < Bits[l]
  /\ \A n \in Numbers \union Literals : n \in Int
  /\ MaxSteps \in Nat

IntOf(kind) == LLVMType(Base(kind))[1]

-----------------------------------------------------------------------------
(* Numbers and the values that stand for them *)

Span(kind) == 2 ^ Bits[kind]

\* Whether luka takes a value for a number with a sign, and the numbers it can then be: after
\* a comparison the value is narrower than the type.
HasSign(kind, t) == kind \in Integral \ {"i1"} /\ t \in Signed \union Floating
HasRoom(n, kind, t) ==
  CASE kind \in Real -> n \in (-Span(kind))..Span(kind)
    [] HasSign(kind, t) -> n \in (-(Span(kind) \div 2))..(Span(kind) \div 2 - 1)
    [] OTHER -> n \in 0..(Span(kind) - 1)

\* The numbers of a type of luka.
Fits(n, t) == HasRoom(n, IntOf(t), t)

Value(kind, n, sound) == [kind |-> kind, n |-> IF kind \in Integral THEN n % Span(kind) ELSE n, sound |-> sound]
Literal(t, n) == Value(IntOf(t), n, TRUE)

AsSigned(v) == IF v.n >= Span(v.kind) \div 2 THEN v.n - Span(v.kind) ELSE v.n

\* The number a value stands for where luka takes it for one of type t.
Denotes(v, t) == IF HasSign(v.kind, t) THEN AsSigned(v) ELSE v.n

-----------------------------------------------------------------------------
(* LLVM's instructions *)

\* LLVM's casts.  Bits that are copied stand for another number, but for zero.
Converted(v, op, kind) ==
  CASE op \in {"zext", "trunc"} -> Value(kind, v.n, v.sound)
    [] op = "sext" -> Value(kind, AsSigned(v), v.sound)
    [] op = "sitofp" -> Value(kind, AsSigned(v), v.sound /\ AsSigned(v) \in (-Span(kind))..Span(kind))
    [] op = "uitofp" -> Value(kind, v.n, v.sound /\ v.n <= Span(kind))
    [] op = "fpext" -> Value(kind, v.n, v.sound)
    [] op = "fptrunc" -> Value(kind, v.n, v.sound /\ v.n \in (-Span(kind))..Span(kind))
    [] op = "fptosi" -> Value(kind, v.n, v.sound /\ v.n \in (-(Span(kind) \div 2))..(Span(kind) \div 2 - 1))
    [] op = "fptoui" -> Value(kind, v.n, v.sound /\ v.n \in 0..(Span(kind) - 1))
    [] op = "bitcast" -> Value(kind, v.n, v.sound /\ v.n = 0)

Quotient(a, b) == IF (a < 0) = (b < 0) THEN (IF a < 0 THEN -a ELSE a) \div (IF b < 0 THEN -b ELSE b)
                  ELSE -((IF a < 0 THEN -a ELSE a) \div (IF b < 0 THEN -b ELSE b))
Remainder(a, b) == a - b * Quotient(a, b)

Comparisons == {"==", "!=", "<", ">", "<=", ">="}
Arithmetical == {"+", "-", "*"}
Division == {"/", "%"}
BitByBit == {"&", "|", "^"}
Shifts == {"<<", ">>"}
Operators == Comparisons \union Arithmetical \union Division \union BitByBit \union Shifts

Holds(op, a, b) ==
  CASE op = "==" -> a = b [] op = "!=" -> a # b [] op = "<" -> a < b [] op = ">" -> a > b
    [] op = "<=" -> a <= b [] op = ">=" -> a >= b

Truth(b) == IF b THEN 1 ELSE 0

\* What the operators mean for numbers, and where; kind is the type they are computed in.
Means(op, a, b, kind) ==
  CASE op \in Division -> /\ b # 0
                          /\ kind \in Integral => Quotient(a, b) < Span(kind) \div 2
                          /\ kind \in Real /\ op = "/" => Remainder(a, b) = 0
    [] op \in Shifts -> kind \in Integral /\ b \in 0..(Bits[kind] - 1)
    [] op \in BitByBit -> kind \in Integral /\ a >= 0 /\ b >= 0
    [] OTHER -> TRUE
Meaning(op, a, b) ==
  CASE op \in Comparisons -> Truth(Holds(op, a, b))
    [] op = "+" -> a + b [] op = "-" -> a - b [] op = "*" -> a * b
    [] op = "/" -> Quotient(a, b) [] op = "%" -> Remainder(a, b)
    [] op = "&" -> a & b [] op = "|" -> a | b [] op = "^" -> a ^^ b
    [] op = "<<" -> a * 2 ^ b [] op = ">>" -> a \div 2 ^ b

\* The same on values of one type, signed or not.
Compute(op, l, r, signed) ==
  LET kind == l.kind
      a == IF signed /\ kind \in Integral THEN AsSigned(l) ELSE l.n
      b == IF signed /\ kind \in Integral THEN AsSigned(r) ELSE r.n
      result == IF op \in Comparisons THEN "i1" ELSE kind
      defined == op \in BitByBit \/ Means(op, a, b, kind)
      n == IF ~defined THEN 0
           ELSE IF op \in BitByBit THEN Meaning(op, l.n, r.n) ELSE Meaning(op, a, b)
      exact == kind \in Real /\ op \notin Comparisons => n \in (-Span(kind))..Span(kind)
  IN Value(result, n, l.sound /\ r.sound /\ defined /\ exact)

-----------------------------------------------------------------------------
(* What the code generator does with the operands *)

WiderOf(l, r) == IF Rank(l.kind) < Rank(r.kind) THEN r.kind ELSE l.kind

WidenedByType(v, kind) ==   \* mutant: what luka's own conversions do
  IF v.kind = kind THEN v ELSE Converted(v, "zext", kind)

\* gen_llvm_cast_sizes_if_needed(): the sign counts if the wider type is a signed one,
\* and every wider one is.
Widened(v, kind) ==
  IF v.kind = kind THEN v ELSE Converted(v, IF ReadsSigned(kind) THEN "sext" ELSE "zext", kind)

FloatingKind(l, r) ==
  IF l.kind \in Real /\ r.kind \in Real THEN WiderOf(l, r) ELSE IF l.kind \in Real THEN l.kind ELSE r.kind

\* gen_llvm_cast_to_fp_if_needed()
ToFloating(v, kind) ==
  CASE v.kind = kind -> v
    [] v.kind \in Real /\ v.kind # kind -> Converted(v, "fpext", kind)
    [] v.kind \in Integral -> Converted(v, IF ReadsSigned(v.kind) THEN "sitofp" ELSE "uitofp", kind)

\* gen_llvm_get_real_predicate()
RealPredicate(op) == IF op = "<" THEN "<=" ELSE op

\* Whether gen_llvm_cast_to_signed_if_needed() has the integers taken for signed ones.
ComputedSigned(op, l, r) ==
  op \in Division \union {">>", "<", ">", "<=", ">="} /\ (ReadsSigned(l.kind) \/ ReadsSigned(r.kind))

\* gen_codegen_binexpr(); operations on the bits of a floating number, which LLVM does not
\* have, are left out.
AnyReal(l, r) == l.kind \in Real \/ r.kind \in Real
Computable(op, l, r) == AnyReal(l, r) => op \notin BitByBit \union Shifts
ComputedIn(l, r) == IF AnyReal(l, r) THEN FloatingKind(l, r) ELSE WiderOf(l, r)
Combined(op, l, r) ==
  LET kind == ComputedIn(l, r)
  IN IF AnyReal(l, r)
     THEN Compute(RealPredicate(op), ToFloating(l, kind), ToFloating(r, kind), FALSE)
     ELSE Compute(op, Widened(l, kind), Widened(r, kind), ComputedSigned(op, l, r))

-----------------------------------------------------------------------------
(* Where luka's arithmetic is known to go wrong.  Nothing is said of a     *)
(* number from there on.                                                   *)

\* A cast takes the sign for a bit, copies the bits of an integer, or has the number
\* pass through the signed type of its width.
CastGoesWrong(n, v, t) ==
  LET kind == IntOf(t)
  IN \/ n < 0 /\ kind \in Integral /\ v.kind \in Integral /\ Rank(v.kind) < Rank(kind)
     \/ n # 0 /\ kind \in Real /\ v.kind \in Integral
     \/ v.kind \in Real /\ kind \in Integral \ {"i1"} /\ n >= Span(kind) \div 2

\* A number in the upper half of an unsigned type, or true, is a negative one to the operators.
Upper(n, v) == v.kind \in Integral /\ AsSigned(v) # n

OperatorGoesWrong(op, a, l, b, r) ==
  \/ op = "<" /\ AnyReal(l, r) /\ a = b
  \/ Upper(a, l) /\ (l.kind # ComputedIn(l, r) \/ ComputedSigned(op, l, r)) /\ (AnyReal(l, r) => l.kind # "i1")
  \/ Upper(b, r) /\ (r.kind # ComputedIn(l, r) \/ ComputedSigned(op, l, r)) /\ (AnyReal(l, r) => r.kind # "i1")
  \/ op \in {"==", "!="} /\ ((a < 0 /\ Upper(b, r)) \/ (b < 0 /\ Upper(a, l)))

-----------------------------------------------------------------------------
(* The program *)

Init ==
  /\ type \in Numeric
  /\ number \in {[known |-> TRUE, n |-> n] : n \in {m \in Numbers : Fits(m, type)}}
  /\ value = Literal(type, number.n)
  /\ stage = "running" /\ steps = 0

\* The number is converted to type t; wrong: whether it goes wrong.
Convert(t) ==
  LET kind == IntOf(t)  op == CastOp(value.kind, kind)
  IN /\ type' = t
     /\ number' = [number EXCEPT !.known = @ /\ Fits(number.n, t) /\ ~CastGoesWrong(number.n, value, t)]
     /\ IF Valid(op, value.kind, kind)
        THEN /\ value' = IF value.kind = kind THEN value ELSE Converted(value, op, kind)
             /\ UNCHANGED stage
        ELSE stage' = "rejected" /\ UNCHANGED value

Step == stage = "running" /\ steps < MaxSteps /\ steps' = steps + 1

Accepts(t) == Equal(Base(type), Base(t))

\* "let y: t = x", or the assignment of x to a variable of type t.
Declare(t) == Step /\ Accepts(t) /\ Convert(t)
Refuse(t) == Step /\ ~Accepts(t) /\ stage' = "unchecked" /\ UNCHANGED <<number, type, value>>

\* "x as t", which nothing checks.
Cast(t) == Step /\ Convert(t)

\* Of a number nothing is known of any more only the conversions are followed.
\* "x op m" or "m op x": TYPE_get_type() gives it the type of the second operand.
Operate(op, t, m, first) ==
  LET other == Literal(t, m)
      l == IF first THEN value ELSE other  r == IF first THEN other ELSE value
      a == IF first THEN number.n ELSE m   b == IF first THEN m ELSE number.n
      lt == IF first THEN type ELSE t      rt == IF first THEN t ELSE type
      kind == ComputedIn(l, r)
      means == /\ number.known /\ Means(op, a, b, kind)
               /\ kind \in Real => HasRoom(a, kind, lt) /\ HasRoom(b, kind, rt)
      n == IF means THEN Meaning(op, a, b) ELSE 0
  IN /\ Step /\ number.known /\ Computable(op, l, r)
     /\ IF ~Equal(Base(lt), Base(rt))
        THEN stage' = "unchecked" /\ UNCHANGED <<number, type, value>>
        ELSE /\ type' = rt
             /\ number' = [known |-> /\ means /\ Fits(n, rt) /\ HasRoom(n, kind, rt)
                                     /\ ~OperatorGoesWrong(op, a, l, b, r),
                           n |-> n]
             /\ value' = Combined(op, l, r) /\ UNCHANGED stage

\* gen_codegen_unexpr(): "!" inverts every bit of the value, and is a bool to the type checker.
Inverted(v) == Value(v.kind, -v.n - 1, v.sound)
UnaryMeaning(op) ==
  CASE op = "-" -> -number.n
    [] op = "~" -> IF HasSign(value.kind, type) THEN -number.n - 1 ELSE Span(value.kind) - 1 - number.n
    [] op = "!" -> Truth(number.n = 0)
Invert(op) ==
  LET t == IF op = "!" THEN "bool" ELSE type  n == UnaryMeaning(op)
  IN /\ Step /\ number.known /\ (value.kind \in Integral \/ op = "-")
     /\ type' = t
     /\ number' = [known |-> Fits(n, t) /\ HasRoom(n, value.kind, t) /\ (op = "!" => value.kind = "i1"), n |-> n]
     /\ value' = IF op = "-" THEN Value(value.kind, -value.n, value.sound) ELSE Inverted(value)
     /\ UNCHANGED stage

Done == (stage # "running" \/ steps = MaxSteps) /\ UNCHANGED vars

Next ==
  \/ \E t \in Numeric : Declare(t) \/ Refuse(t) \/ Cast(t)
  \/ \E op \in Operators, t \in Numeric, m \in Literals, first \in BOOLEAN :
       Fits(m, t) /\ Operate(op, t, m, first)
  \/ \E op \in {"-", "~", "!"} : Invert(op)
  \/ Done

Spec == Init /\ [][Next]_vars

-----------------------------------------------------------------------------
(* Properties *)

\* Values stay inside their types, whatever is done to them.
TypeOK ==
  /\ number \in [known : BOOLEAN, n : Int] /\ type \in Numeric /\ steps \in 0..MaxSteps
  /\ value.kind \in Integral \union Real /\ value.sound \in BOOLEAN
  /\ value.kind \in Integral => value.n \in 0..(Span(value.kind) - 1)
  /\ stage \in {"running", "unchecked", "rejected"}

\* The conversions and casts of gen.c compute the number the program says, after any
\* sequence of statements in which every number fits its type: but for the casts and the
\* operands that are known to go wrong.
NumbersKept ==
  /\ TypeOK
  /\ stage = "running" /\ number.known => value.sound /\ Denotes(value, type) = number.n

\* The conversions chosen in gen.c:468 are ones LLVM has, whatever types the operators gave the
\* value before: but for an integer that becomes a floating-point number of another width.
ConversionsExist ==
  [][stage' = "rejected" =>
       value.kind \in Integral /\ type' \in Floating /\ Rank(value.kind) # Rank(IntOf(type'))]_vars
================================================================================
