--------------------------------- MODULE Types ---------------------------------
(***************************************************************************)
(* The types of luka (src/type.c) and those of LLVM they become            *)
(* (src/gen.c).  A type is the sequence of its layers, from the outside to *)
(* the inside: a pointer is one layer before the type it points to, and a  *)
(* type that is not there (NULL) is the empty sequence.  A layer has the   *)
(* kind, whether it is mutable, and the name of a struct, an enum or an    *)
(* alias.  The length of an array is left out, with the LLVM arrays it     *)
(* leads to.                                                               *)
(***************************************************************************)
EXTENDS Integers, Sequences, FiniteSets

CONSTANTS
  BeginningNames   \* the pairs of names of which the first begins the second

Signed == {"s8", "s16", "s32", "s64"}
Unsigned == {"u8", "u16", "u32", "u64"}
Floating == {"f32", "f64"}
Numeric == {"bool"} \union Signed \union Unsigned \union Floating
Named == {"struct", "enum", "alias"}
Kinds == Numeric \union Named \union {"any", "string", "void", "ptr", "array", "type"}

Layer(kind, mut, name) == [kind |-> kind, mut |-> mut, name |-> name]
NoType == <<>>
Base(kind) == <<Layer(kind, FALSE, "")>>
Ptr(inner, mut) == <<Layer("ptr", mut, "")>> \o inner
Mutable(t) == [t EXCEPT ![1].mut = TRUE]

-----------------------------------------------------------------------------
(* What the type checker takes for the same type: type_can_cast() and      *)
(* TYPE_equal(), layer by layer.                                           *)

IntegerTargets(kind) ==
  IF kind \in Signed THEN Unsigned ELSE IF kind \in Unsigned THEN Signed ELSE Signed \union Unsigned

\* sameInner: whether the layers below are equal.
CanCast(t, u, i, sameInner) ==
  LET from == t[i].kind  to == u[i].kind
  IN \/ from \in {"any", "alias"} \/ to = "any"
     \/ /\ from \in {"bool"} \union Signed \union Unsigned
        /\ \/ to \in IntegerTargets(from) \union Floating
           \/ to = "bool" /\ from # "bool"
     \/ from = "f32" /\ to \in {"bool", "f64"}
     \/ from = "f64" /\ to = "bool"
     \/ from = "string" /\ to = "ptr" /\ i < Len(u) /\ u[i + 1].kind \in {"u8", "s8"}
     \/ /\ from \in {"ptr", "array"} /\ to \in {"ptr", "array"} /\ sameInner
        /\ (i < Len(t) /\ i < Len(u)) => (t[i + 1].mut \/ ~u[i + 1].mut)

\* Only as much of the second name is compared as the first one is long.
SameName(a, b) == a = b \/ <<a, b>> \in BeginningNames

EqualBelow(t, u) ==
  LET equal[i \in 1..(Len(t) + Len(u) + 1)] ==
        \/ i > Len(t) /\ i > Len(u)
        \/ /\ i <= Len(t) /\ i <= Len(u)
           /\ \/ /\ t[i].kind = u[i].kind /\ equal[i + 1]
                 /\ t[i].kind \in Named => SameName(t[i].name, u[i].name)
              \/ CanCast(t, u, i, equal[i + 1])
  IN equal

Equal(t, u) == EqualBelow(t, u)[1]

-----------------------------------------------------------------------------
(* LLVM's types: the sequence of "ptr" layers and what they end in.        *)

Integral == {"i1", "i8", "i16", "i32", "i64"}
Real == {"float", "double"}

\* gen_type_to_llvm_type() gives up on an alias.
LLVMKind(layer) ==
  CASE layer.kind \in {"any", "type", "s8", "u8"} -> "i8"
    [] layer.kind = "bool" -> "i1"
    [] layer.kind \in {"s16", "u16"} -> "i16"
    [] layer.kind \in {"s32", "u32", "enum"} -> "i32"
    [] layer.kind \in {"s64", "u64"} -> "i64"
    [] layer.kind = "f32" -> "float"
    [] layer.kind = "f64" -> "double"
    [] layer.kind \in {"ptr", "array"} -> "ptr"
    [] layer.kind = "struct" -> layer.name
    [] OTHER -> layer.kind

LLVMType(t) ==
  LET below == [i \in DOMAIN t |-> LLVMKind(t[i])]
  IN IF t # NoType /\ t[Len(t)].kind = "string" THEN SubSeq(below, 1, Len(t) - 1) \o <<"ptr", "i8">>
     ELSE below

HasAlias(t) == \E i \in DOMAIN t : t[i].kind = "alias"

\* The order of the types by their width.
Rank(kind) == CASE kind = "i1" -> 0 [] kind = "i8" -> 1 [] kind = "i16" -> 2
                [] kind \in {"i32", "float"} -> 3 [] kind \in {"i64", "double"} -> 4

\* gen_llvm_type_to_ttype() takes every integer but i1 for a signed one.
ReadsSigned(kind) == kind \in Integral \ {"i1"}

-----------------------------------------------------------------------------
(* The conversion gen_llvm_get_cast_op() chooses between two LLVM types,   *)
(* and whether LLVM has that conversion between them.                      *)

CastOpOfIntegers(from, to) ==   \* mutant: floating-point numbers are not told apart
  IF to \notin Integral THEN "bitcast" ELSE IF Rank(to) > Rank(from) THEN "zext" ELSE "trunc"

CastOp(from, to) ==
  CASE from \in Real /\ to = "double" -> "fpext"
    [] from \in Real /\ to = "float" -> "fptrunc"
    [] from \in Real /\ to \notin Real -> IF ReadsSigned(to) THEN "fptosi" ELSE "fptoui"
    [] from \notin Real /\ to \notin Integral -> "bitcast"
    [] from \notin Real /\ to \in Integral ->
         IF from \in Integral /\ Rank(to) > Rank(from) THEN "zext" ELSE "trunc"

\* LLVM's rules for the conversions; a conversion of a type to itself is none.
Valid(op, from, to) ==
  \/ from = to
  \/ /\ op \in {"zext", "sext"} /\ from \in Integral /\ to \in Integral /\ Rank(from) < Rank(to)
  \/ /\ op = "trunc" /\ from \in Integral /\ to \in Integral /\ Rank(from) > Rank(to)
  \/ /\ op = "fpext" /\ from = "float" /\ to = "double"
  \/ /\ op = "fptrunc" /\ from = "double" /\ to = "float"
  \/ /\ op \in {"fptosi", "fptoui"} /\ from \in Real /\ to \in Integral
  \/ /\ op \in {"sitofp", "uitofp"} /\ from \in Integral /\ to \in Real
  \/ /\ op = "bitcast" /\ from \in Integral \union Real /\ to \in Integral \union Real
     /\ Rank(from) = Rank(to)
================================================================================
