------------------------------ MODULE MCArithmetic ------------------------------
(* Widths of one to five bits in place of 1 to 64, and numbers on both sides of their limits. *)
EXTENDS Arithmetic

MCBits == [k \in Integral \union Real |->
             CASE k = "i1" -> 1 [] k = "i8" -> 2 [] k = "i16" -> 3 [] k = "i32" -> 4 [] k = "i64" -> 5
               [] k = "float" -> 3 [] k = "double" -> 4]
MCNumbers == {-8, -2, -1, 0, 1, 2, 3, 5, 9, 17}
MCLiterals == {-2, -1, 0, 1, 2, 3, 5}
MCPrefixes == {}
================================================================================
