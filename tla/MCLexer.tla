-------------------------------- MODULE MCLexer --------------------------------
(***************************************************************************)
(* Short sources for TLC: every text over an alphabet that has each class  *)
(* of characters the lexer tells apart.                                    *)
(***************************************************************************)
EXTENDS Lexer

Texts(A, n) == UNION {[1 .. k -> A] : k \in 0 .. n}
WithEOF(T) == {Append(t, "EOF") : t \in T}

Letters == {"f", "n"}
Digits == {"0"}
Characters == Letters \union Digits
                \union {".", "\"", "'", "\\", "/", "=", ":", "@", ";", " ", "\n", "#"}

\* All texts of up to four characters, and longer ones of fewer classes
Every == WithEOF(Texts(Characters, 4) \union Texts({"\"", "\\", "n", "\n"}, 5)
                   \union Texts({"0", ".", "f"}, 6))

\* "\""
EscapedQuote == WithEOF({<<"\"", "\\", "\"", "\"">>})

Fn == {<<"f", "n">>}

=============================================================================
