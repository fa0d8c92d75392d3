--------------------------------- MODULE Lexer ---------------------------------
(***************************************************************************)
(* The lexer of luka (src/lexer.c).  A source is what                      *)
(* IO_get_file_contents() leaves in memory: the characters of a file, the  *)
(* character EOF, and a NUL behind it.  Positions count from 1, so that    *)
(* source[i] is the character at i + 1 here.  Reading beyond the NUL is    *)
(* undefined behaviour, with which the model ends ("overrun").             *)
(*                                                                         *)
(* The type of a punctuation token is its content; the types of keywords   *)
(* are taken together.                                                     *)
(***************************************************************************)
EXTENDS Integers, Sequences, FiniteSets

CONSTANTS
  Sources,   \* the sources to tokenize
  Letter,    \* what isalpha() accepts
  Digit,     \* what isdigit() accepts
  Keywords   \* keywords[], as sequences of characters

Space == {" ", "\n", "\t", "\r"}
Singles == {"(", ")", "{", "}", "[", "]", ";", ",", "+", "-", "*", "%", "&", "|", "^",
            "~", ":", "/", "=", "<", ">", "!", "."}
Pairs == {<<":", ":">>, <<"=", "=">>, <<"<", "=">>, <<"<", "<">>, <<">", "=">>,
          <<">", ">">>, <<"!", "=">>}
Quotes == {"\"", "'"}
Special == Space \union Singles \union Quotes \union {"\\", "@", "_", "EOF", "NUL"}

Alpha == Letter \union {"_"}
Alnum == Alpha \union Digit

\* A source is a text with a single EOF, its last character.
IsSource(s) == /\ s \in Seq(STRING) /\ s # <<>>
               /\ s[Len(s)] = "EOF"
               /\ \A k \in 1 .. Len(s) - 1 : s[k] \notin {"EOF", "NUL"}

ASSUME LexerAssumptions ==
  /\ \A s \in Sources : IsSource(s)
  /\ Letter \union Digit \union Special \subseteq STRING
  /\ Letter \intersect Digit = {}
  /\ (Letter \union Digit) \intersect Special = {}

VARIABLES
  src,
  i,       \* the next character to look at
  line, offset,
  pc,      \* "main", or the function or loop that reads the current token
  from,    \* where the current token begins
  text,    \* the decoded characters of a string
  tokens,  \* the tokens so far; start and end are history
  status   \* "lexing", then how it ended

vars == <<src, i, line, offset, pc, from, text, tokens, status>>

At(k) == IF k <= Len(src) THEN src[k] ELSE "NUL"

Loops == {"comment", "string", "number", "fraction", "identifier", "builtin", "name"}
Kinds == {"punctuation", "number", "identifier", "keyword", "string", "char", "builtin", "eof"}

Token == [type : Kinds, content : Seq(STRING), line : Nat, offset : Nat,
          start : Nat, end : Nat]

Init ==
  /\ src \in Sources
  /\ i = 1 /\ line = 1 /\ offset = 0
  /\ pc = "main" /\ from = 0 /\ text = <<>>
  /\ tokens = <<>>
  /\ status = "lexing"

Reading(where) == status = "lexing" /\ pc = where

\* exit(LUKA_LEXER_FAILED), an error code, or undefined behaviour
Stop(how) ==
  /\ status' = how
  /\ UNCHANGED <<src, i, line, offset, pc, from, text, tokens>>

-----------------------------------------------------------------------------
(* The loop of LEXER_tokenize_source() *)

InMain == Reading("main") /\ i <= Len(src)

Emit(type, content, column, start, end) ==
  tokens' = Append(tokens, [type |-> type, content |-> content, line |-> line,
                            offset |-> column, start |-> start, end |-> end])

\* mutant of SkipSpace: the offset is not reset
SkipSpaceTo(column) ==
  /\ InMain /\ At(i) \in Space
  /\ i' = i + 1 /\ offset' = column
  /\ line' = IF At(i) = "\n" THEN line + 1 ELSE line
  /\ UNCHANGED <<src, pc, from, text, tokens, status>>
SkipSpaceColumn == SkipSpaceTo(offset + 1)

SkipSpace ==
  /\ InMain /\ At(i) \in Space
  /\ i' = i + 1
  /\ IF At(i) = "\n" THEN line' = line + 1 /\ offset' = 0
                     ELSE offset' = offset + 1 /\ UNCHANGED line
  /\ UNCHANGED <<src, pc, from, text, tokens, status>>

AtComment == At(i) = "/" /\ At(i + 1) = "/"

PunctuationShort == IF At(i) = "." THEN 1 ELSE  \* mutant: "..." are three tokens
                    IF <<At(i), At(i + 1)>> \in Pairs THEN 2 ELSE 1

\* How many characters the punctuation at i has
PunctuationLength ==
  IF At(i) = "." THEN IF At(i + 1) = "." /\ At(i + 2) = "." THEN 3 ELSE 1
  ELSE IF <<At(i), At(i + 1)>> \in Pairs THEN 2 ELSE 1

Punctuation ==
  /\ InMain /\ At(i) \in Singles /\ ~AtComment
  /\ LET n == PunctuationLength IN
       /\ Emit("punctuation", SubSeq(src, i, i + n - 1), offset + 1, i, i + n - 1)
       /\ i' = i + n /\ offset' = offset + n
  /\ UNCHANGED <<src, line, pc, from, text, status>>

EndOfFile ==
  /\ InMain /\ At(i) = "EOF"
  /\ Emit("eof", <<>>, offset + 1, i, i)
  /\ i' = i + 1 /\ offset' = offset + 1
  /\ UNCHANGED <<src, line, pc, from, text, status>>

Unrecognized ==
  /\ InMain /\ At(i) \notin Space \union Singles \union Quotes \union Alnum \union {"@", "EOF"}
  /\ Stop("exit")

\* The first character of a token that a function of its own reads
Starts ==
  /\ InMain
  /\ \/ At(i) \in Digit /\ pc' = "number"
     \/ At(i) \in Alpha /\ pc' = "identifier"
     \/ At(i) \in Quotes /\ pc' = "string"
     \/ At(i) = "@" /\ pc' = "builtin"
  /\ from' = i /\ i' = i + 1 /\ offset' = offset + 1 /\ text' = <<>>
  /\ UNCHANGED <<src, line, tokens, status>>

DoneEarly ==                                    \* mutant: i < length - 1
  Reading("main") /\ i >= Len(src) /\ Stop("ok")

Done == Reading("main") /\ i > Len(src) /\ Stop("ok")

\* Back to the loop, when the function has left i at the last character of the token
Finish(type, content, last) ==
  /\ Emit(type, content, offset, from, last)
  /\ i' = last + 1 /\ offset' = offset + (last - from)
  /\ pc' = "main"
  /\ UNCHANGED <<src, line, from, text, status>>

Advance(n) ==
  /\ i' = i + n
  /\ UNCHANGED <<src, line, offset, pc, from, text, tokens, status>>

-----------------------------------------------------------------------------
(* Comments *)

CommentStart ==
  /\ InMain /\ AtComment
  /\ i' = i + 1 /\ offset' = offset + 2
  /\ pc' = "comment"
  /\ UNCHANGED <<src, line, from, text, tokens, status>>

CommentCharTwo ==                               \* mutant: another character is skipped
  /\ Reading("comment") /\ i + 1 <= Len(src) + 1 /\ At(i + 1) # "\n"
  /\ i' = i + 2 /\ offset' = offset + 1
  /\ UNCHANGED <<src, line, pc, from, text, tokens, status>>

CommentChar ==
  /\ Reading("comment") /\ i + 1 <= Len(src) + 1 /\ At(i + 1) # "\n"
  /\ i' = i + 1 /\ offset' = offset + 1
  /\ UNCHANGED <<src, line, pc, from, text, tokens, status>>

CommentEnd ==
  /\ Reading("comment") /\ At(i + 1) = "\n"
  /\ i' = i + 1 /\ pc' = "main"
  /\ UNCHANGED <<src, line, offset, from, text, tokens, status>>

CommentOverrun == Reading("comment") /\ i + 1 > Len(src) + 1 /\ Stop("overrun")

-----------------------------------------------------------------------------
(* lexer_lex_string() *)

Quote == src[from]

\* What stands behind a backslash, and what it becomes: '"' and '0' fall
\* through to the case behind theirs.
Escapes == {"n", "t", "\\", "\"", "'", "0", "r"}
Meaning(c) == CASE c = "n" -> "\n"
                [] c = "t" -> "\t"
                [] c = "\\" -> "\\"
                [] c \in {"\"", "'"} -> "'"
                [] c \in {"0", "r"} -> "\r"

StringCharStay ==                               \* mutant: the index is not advanced
  Reading("string") /\ At(i) \notin {Quote, "\\"} /\ UNCHANGED vars

StringChar ==
  /\ Reading("string") /\ i <= Len(src) + 1
  /\ At(i) \notin {Quote, "\\"}
  /\ text' = Append(text, At(i)) /\ i' = i + 1
  /\ UNCHANGED <<src, line, offset, pc, from, tokens, status>>

StringEscape ==
  /\ Reading("string") /\ At(i) = "\\" /\ At(i + 1) \in Escapes
  /\ text' = Append(text, Meaning(At(i + 1))) /\ i' = i + 2
  /\ UNCHANGED <<src, line, offset, pc, from, tokens, status>>

StringInvalid ==
  /\ Reading("string") /\ At(i) = "\\" /\ At(i + 1) \notin Escapes
  /\ Stop("exit")

StringClose ==
  /\ Reading("string") /\ At(i) = Quote
  /\ IF Quote = "'" /\ Len(text) > 1 THEN Stop("error")
     ELSE Finish(IF Quote = "'" THEN "char" ELSE "string", text, i)

StringOverrun == Reading("string") /\ i > Len(src) + 1 /\ Stop("overrun")

-----------------------------------------------------------------------------
(* lexer_lex_number(), lexer_lex_identifier() *)

NumberDigit == (Reading("number") \/ Reading("fraction")) /\ At(i) \in Digit /\ Advance(1)

NumberDot ==
  /\ Reading("number") /\ At(i) = "."
  /\ IF At(i + 1) \in Digit
     THEN /\ i' = i + 2 /\ pc' = "fraction"
          /\ UNCHANGED <<src, line, offset, from, text, tokens, status>>
     ELSE Stop("exit")

NumberEnd ==
  /\ Reading("number") /\ At(i) \notin Digit \union {"."}
  /\ Finish("number", SubSeq(src, from, i - 1), i - 1)

\* The suffix f is read, but no part of the content
FractionEnd ==
  /\ Reading("fraction") /\ At(i) \notin Digit
  /\ Finish("number", SubSeq(src, from, i - 1), IF At(i) = "f" THEN i ELSE i - 1)

NameChar == (Reading("identifier") \/ Reading("name")) /\ At(i) \in Alnum /\ Advance(1)

IdentifierEnd ==
  /\ Reading("identifier") /\ At(i) \notin Alnum
  /\ LET name == SubSeq(src, from, i - 1) IN
       Finish(IF name \in Keywords THEN "keyword" ELSE "identifier", name, i - 1)

BuiltinStart ==
  /\ Reading("builtin") /\ At(i) \in Alpha
  /\ i' = i + 1 /\ pc' = "name"
  /\ UNCHANGED <<src, line, offset, from, text, tokens, status>>

BuiltinEnd ==
  /\ Reading("name") /\ At(i) \notin Alnum
  /\ Finish("builtin", SubSeq(src, from, i - 1), i - 1)

\* lexer_lex_identifier() returns "" and leaves the index, which is that of the
\* character behind the '@'
BuiltinNameless ==
  /\ Reading("builtin") /\ At(i) \notin Alpha
  /\ Finish("builtin", <<>>, i)

-----------------------------------------------------------------------------

\* The process has ended, or main() goes on with the tokens.
Over == status # "lexing" /\ UNCHANGED vars

Next ==
  \/ SkipSpace \/ Punctuation \/ EndOfFile \/ Unrecognized \/ Starts \/ Done
  \/ CommentStart \/ CommentChar \/ CommentEnd \/ CommentOverrun
  \/ StringChar \/ StringEscape \/ StringInvalid \/ StringClose \/ StringOverrun
  \/ NumberDigit \/ NumberDot \/ NumberEnd \/ FractionEnd
  \/ NameChar \/ IdentifierEnd \/ BuiltinStart \/ BuiltinEnd \/ BuiltinNameless
  \/ Over

Spec == Init /\ [][Next]_vars /\ WF_vars(Next)

-----------------------------------------------------------------------------
(* Properties *)

\* Every variable keeps its type: line, offset and index never turn
\* negative, and a token has one of the kinds that the parser knows.
TypeOK ==
  /\ IsSource(src)
  /\ i \in Nat \ {0} /\ line \in Nat \ {0} /\ offset \in Nat
  /\ pc \in Loops \union {"main"}
  /\ from \in Nat
  /\ text \in Seq(STRING)
  /\ tokens \in Seq(Token)
  /\ status \in {"lexing", "ok", "exit", "error", "overrun"}

\* The column of position p is o: o characters before it comes a newline or the
\* beginning of the file, with no newline between.
IsColumn(p, o) ==
  /\ o \in 1 .. p
  /\ o = p \/ src[p - o] = "\n"
  /\ \A k \in p - o + 1 .. p - 1 : src[k] # "\n"

\* No token before position p has a newline in it.
OneLineTokens(p) ==
  \A n \in 1 .. Len(tokens) : tokens[n].end < p =>
    \A k \in tokens[n].start .. tokens[n].end : src[k] # "\n"

\* The line and the offset with which errors are reported are those of the
\* token's first character, whatever was skipped before it; only a literal of more
\* than one line, or a '@' that takes a newline with it, makes the rest of the
\* file be counted wrong.
PositionsRight ==
  \A n \in 1 .. Len(tokens) :
    LET t == tokens[n] IN
      OneLineTokens(t.start) =>
        /\ IsColumn(t.start, t.offset)
        /\ t.line = 1 + Cardinality({k \in 1 .. t.start - 1 : src[k] = "\n"})

IsDigits(s) == s # <<>> /\ \A k \in 1 .. Len(s) : s[k] \in Digit
IsName(s) == s # <<>> /\ s[1] \in Alpha /\ \A k \in 1 .. Len(s) : s[k] \in Alnum
IsFraction(s) == \E d \in 2 .. Len(s) - 1 :
  s[d] = "." /\ IsDigits(SubSeq(s, 1, d - 1)) /\ IsDigits(SubSeq(s, d + 1, Len(s)))

\* A quote ends the literal if the backslashes before it come in pairs.
Escaped(s, k) == \E b \in 1 .. k - 1 :
  /\ (k - b) % 2 = 1
  /\ \A j \in b .. k - 1 : s[j] = "\\"
  /\ s[b - 1] # "\\"
IsLiteral(s) ==
  /\ Len(s) > 1 /\ s[1] \in Quotes /\ s[Len(s)] = s[1]
  /\ \A k \in 2 .. Len(s) : s[k] = s[1] => (Escaped(s, k) <=> k < Len(s))

\* What a token may look like in the source, by the rules of the language
Lexeme(s) ==
  \/ Len(s) = 1 /\ s[1] \in Singles \union {"EOF"}
  \/ s \in Pairs \/ s = <<".", ".", ".">>
  \/ IsDigits(s) \/ IsFraction(s) \/ (IsFraction(SubSeq(s, 1, Len(s) - 1)) /\ s[Len(s)] = "f")
  \/ IsName(s) \/ (s[1] = "@" /\ IsName(Tail(s)))
  \/ IsLiteral(s)

Nameless(t) == t.type = "builtin" /\ t.content = <<>>

\* Every token is the longest piece of the source that can be one where it
\* begins: no operator, number or name is cut in two or read too far.  A
\* '@' without a name is not a lexeme at all.
LongestMatch ==
  \A n \in 1 .. Len(tokens) :
    LET t == tokens[n] IN
      ~Nameless(t) =>
        /\ Lexeme(SubSeq(src, t.start, t.end))
        /\ \A e \in t.end + 1 .. Len(src) : ~Lexeme(SubSeq(src, t.start, e))

\* A position in a comment: behind two slashes on its line that no token covers
InComment(k) ==
  \E c \in 1 .. k :
    /\ src[c] = "/" /\ c < Len(src) /\ src[c + 1] = "/"
    /\ \A j \in c .. k : src[j] # "\n"
    /\ \A n \in 1 .. Len(tokens) : c \notin tokens[n].start .. tokens[n].end

\* When the lexer has succeeded, each character is part of exactly one token, or
\* white space or a comment outside all of them; the last token is the end of
\* the file, which the parser stops at - unless a '@' without a name has taken it.
NothingSkipped ==
  status = "ok" =>
    /\ \A k \in 1 .. Len(src) :
         LET covering == {n \in 1 .. Len(tokens) : k \in tokens[n].start .. tokens[n].end} IN
           IF covering = {} THEN src[k] \in Space \/ InComment(k) ELSE Cardinality(covering) = 1
    /\ tokens[Len(tokens)].type = "eof" \/ Nameless(tokens[Len(tokens)])

\* The lexer reads behind the end of the source only for a string that is not
\* closed or a comment in the last line.
OverrunOnlyUnterminated ==
  status = "overrun" => /\ pc \in {"string", "comment"}
                        /\ IF pc = "string" THEN ~\E e \in from .. Len(src) : Lexeme(SubSeq(src, from, e))
                           ELSE InComment(Len(src))

\* Tokenizing ends for every source.
Ends == <>(status # "lexing")

\* What tests/lexer.c expects of an escaped quote: the string "\"" holds a double quote.
DoubleQuoteKept ==
  \A n \in 1 .. Len(tokens) :
    tokens[n].type = "string" /\ SubSeq(src, tokens[n].start, tokens[n].end) = <<"\"", "\\", "\"", "\"">>
      => tokens[n].content = <<"\"">>

=============================================================================
