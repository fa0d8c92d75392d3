------------------------------ MODULE LexerProofs ------------------------------
(***************************************************************************)
(* Theorems about the lexer, for sources of any length over any letters,   *)
(* digits and keywords: every variable keeps its type; nothing of a source *)
(* is lost on the way to the tokens; a token is the longest lexeme where   *)
(* it begins; its line and offset are right; and the lexer reads beyond    *)
(* the source only in a string or comment that does not end.               *)
(***************************************************************************)
EXTENDS Lexer, SequenceTheorems, FiniteSetTheorems, TLAPS

-----------------------------------------------------------------------------
(* Tokens and the pieces of a source they stand for *)

Below(ts, p) ==
  \A t \in 1 .. Len(ts) : ts[t].start \in Nat /\ ts[t].end \in Nat /\ ts[t].start <= ts[t].end /\ ts[t].end < p

Ordered(ts) == \A a, b \in 1 .. Len(ts) : a < b => ts[a].end < ts[b].start

Covered(ts, k) == \E t \in 1 .. Len(ts) : k \in ts[t].start .. ts[t].end

CommentAt(s, ts, k) ==
  \E c \in 1 .. k :
    /\ s[c] = "/" /\ c < Len(s) /\ s[c + 1] = "/"
    /\ \A j \in c .. k : s[j] # "\n"
    /\ \A n \in 1 .. Len(ts) : c \notin ts[n].start .. ts[n].end

\* Every character before p is in a token, in a comment or white space.
Explained(s, ts, p) == \A k \in 1 .. p - 1 : Covered(ts, k) \/ s[k] \in Space \/ CommentAt(s, ts, k)

\* Told(s, ts, p): the tokens tell all of the source before p and nothing of the rest.
Told(s, ts, p) == Ordered(ts) /\ Below(ts, p) /\ Explained(s, ts, p)

\* A token that begins where the others have ended tells all up to its end.
LEMMA TokenTells ==
  ASSUME NEW s \in Seq(STRING), NEW ts \in Seq(Token), NEW tok \in Token,
         Told(s, ts, tok.start), tok.start > 0, tok.start <= tok.end
  PROVE  Told(s, Append(ts, tok), tok.end + 1)
<1> DEFINE us == Append(ts, tok)
<1>1. /\ us \in Seq(Token) /\ Len(us) = Len(ts) + 1 /\ us[Len(us)] = tok
      /\ \A t \in 1 .. Len(ts) : us[t] = ts[t]
  BY AppendProperties
<1>2. Len(ts) \in Nat /\ tok.start \in Nat /\ tok.end \in Nat
  BY DEF Token
<1>3. Below(us, tok.end + 1)
  <2> SUFFICES ASSUME NEW t \in 1 .. Len(us)
               PROVE  us[t].start \in Nat /\ us[t].end \in Nat /\ us[t].start <= us[t].end /\ us[t].end < tok.end + 1
    BY DEF Below
  <2>1. CASE t = Len(us)
    BY <1>1, <1>2, <2>1
  <2>2. CASE t # Len(us)
    <3>1. t \in 1 .. Len(ts) /\ us[t] = ts[t]
      BY <1>1, <1>2, <2>2
    <3>2. QED
      BY <1>2, <3>1 DEF Told, Below
  <2>3. QED
    BY <2>1, <2>2
<1>4. Ordered(us)
  <2> SUFFICES ASSUME NEW a \in 1 .. Len(us), NEW b \in 1 .. Len(us), a < b
               PROVE  us[a].end < us[b].start
    BY DEF Ordered
  <2>1. a \in 1 .. Len(ts) /\ us[a] = ts[a]
    BY <1>1, <1>2
  <2>2. CASE b = Len(us)
    BY <1>1, <2>1, <2>2 DEF Told, Below
  <2>3. CASE b # Len(us)
    <3>1. b \in 1 .. Len(ts) /\ us[b] = ts[b]
      BY <1>1, <1>2, <2>3
    <3>2. QED
      BY <2>1, <3>1 DEF Told, Ordered
  <2>4. QED
    BY <2>2, <2>3
<1>5. Explained(s, us, tok.end + 1)
  <2> SUFFICES ASSUME NEW k \in 1 .. tok.end
               PROVE  Covered(us, k) \/ s[k] \in Space \/ CommentAt(s, us, k)
    BY <1>2 DEF Explained
  <2>1. CASE k >= tok.start
    <3>1. Len(us) \in 1 .. Len(us) /\ k \in us[Len(us)].start .. us[Len(us)].end
      BY <1>1, <1>2, <2>1
    <3>2. QED
      BY <3>1 DEF Covered
  <2>2. CASE k < tok.start
    <3>1. k \in 1 .. tok.start - 1
      BY <1>2, <2>2
    <3>2. CASE Covered(ts, k)
      <4>1. PICK t \in 1 .. Len(ts) : k \in ts[t].start .. ts[t].end
        BY <3>2 DEF Covered
      <4>2. t \in 1 .. Len(us) /\ us[t] = ts[t]
        BY <1>1, <1>2
      <4>3. QED
        BY <4>1, <4>2 DEF Covered
    <3>3. CASE CommentAt(s, ts, k)
      <4>1. PICK c \in 1 .. k :
              /\ s[c] = "/" /\ c < Len(s) /\ s[c + 1] = "/"
              /\ \A j \in c .. k : s[j] # "\n"
              /\ \A n \in 1 .. Len(ts) : c \notin ts[n].start .. ts[n].end
        BY <3>3 DEF CommentAt
      <4>2. ASSUME NEW n \in 1 .. Len(us)
            PROVE  c \notin us[n].start .. us[n].end
        <5>1. CASE n = Len(us)
          BY <1>1, <1>2, <2>2, <5>1
        <5>2. CASE n # Len(us)
          <6>1. n \in 1 .. Len(ts) /\ us[n] = ts[n]
            BY <1>1, <1>2, <5>2
          <6>2. QED
            BY <4>1, <6>1
        <5>3. QED
          BY <5>1, <5>2
      <4>3. QED
        BY <4>1, <4>2 DEF CommentAt
    <3>4. QED
      BY <3>1, <3>2, <3>3 DEF Told, Explained
  <2>3. QED
    BY <1>2, <2>1, <2>2
<1>6. QED
  BY <1>3, <1>4, <1>5 DEF Told

\* White space needs no token.
LEMMA SpaceTells ==
  ASSUME NEW s \in Seq(STRING), NEW ts \in Seq(Token), NEW p \in Nat \ {0},
         Told(s, ts, p), s[p] \in Space
  PROVE  Told(s, ts, p + 1)
<1>1. Below(ts, p + 1)
  <2> SUFFICES ASSUME NEW t \in 1 .. Len(ts)
               PROVE  /\ ts[t].start \in Nat /\ ts[t].end \in Nat /\ ts[t].start <= ts[t].end
                      /\ ts[t].end < p + 1
    BY DEF Below
  <2>1. QED
    BY DEF Told, Below
<1>2. Explained(s, ts, p + 1)
  <2> SUFFICES ASSUME NEW k \in 1 .. p
               PROVE  Covered(ts, k) \/ s[k] \in Space \/ CommentAt(s, ts, k)
    BY DEF Explained
  <2>1. CASE k = p
    BY <2>1
  <2>2. CASE k # p
    BY <2>2 DEF Told, Explained
  <2>3. QED
    BY <2>1, <2>2
<1>3. QED
  BY <1>1, <1>2 DEF Told

\* Neither does a comment, from its slashes at c up to the end of its line.
LEMMA CommentTells ==
  ASSUME NEW s \in Seq(STRING), NEW ts \in Seq(Token), NEW c \in Nat \ {0}, NEW e \in Nat, c <= e,
         Told(s, ts, c), c < Len(s), s[c] = "/", s[c + 1] = "/",
         \A j \in c .. e : s[j] # "\n"
  PROVE  Told(s, ts, e + 1)
<1>1. Below(ts, e + 1)
  <2> SUFFICES ASSUME NEW t \in 1 .. Len(ts)
               PROVE  /\ ts[t].start \in Nat /\ ts[t].end \in Nat /\ ts[t].start <= ts[t].end
                      /\ ts[t].end < e + 1
    BY DEF Below
  <2>1. QED
    BY DEF Told, Below
<1>2. Explained(s, ts, e + 1)
  <2> SUFFICES ASSUME NEW k \in 1 .. e
               PROVE  Covered(ts, k) \/ s[k] \in Space \/ CommentAt(s, ts, k)
    BY DEF Explained
  <2>1. CASE k < c
    BY <2>1 DEF Told, Explained
  <2>2. CASE k >= c
    <3>1. \A t \in 1 .. Len(ts) : c \notin ts[t].start .. ts[t].end
      BY DEF Told, Below
    <3>2. c \in 1 .. k
      BY <2>2
    <3>3. QED
      BY <3>1, <3>2 DEF CommentAt
  <2>3. QED
    BY <2>1, <2>2
<1>3. QED
  BY <1>1, <1>2 DEF Told

-----------------------------------------------------------------------------
(* The inductive invariant *)

Ended ==
  /\ tokens # <<>>
  /\ tokens[Len(tokens)].type = "eof" \/ Nameless(tokens[Len(tokens)])

\* In the main loop everything before the index is told, and behind the end
\* of the source stands the last token.
MainInv ==
  pc = "main" => /\ i <= Len(src) + 1
                 /\ Told(src, tokens, i)
                 /\ i = Len(src) + 1 => Ended

\* In a token everything before it is told, and only a string may go beyond the source.
TokenInv ==
  pc \in Loops \ {"comment"} => /\ from \in 1 .. Len(src) - 1 /\ from < i
                                /\ Told(src, tokens, from)
                                /\ pc # "string" => i <= Len(src)

\* A comment has no newline in it.
CommentInv ==
  pc = "comment" => \E c \in 1 .. Len(src) - 1 :
    /\ c < i /\ src[c] = "/" /\ src[c + 1] = "/"
    /\ \A j \in c .. i : At(j) # "\n"
    /\ Told(src, tokens, c)

OkInv == status = "ok" => pc = "main" /\ i = Len(src) + 1

IInv == TypeOK /\ MainInv /\ TokenInv /\ CommentInv /\ OkInv

\* A character other than those that end a source stands before its end.
LEMMA Inside ==
  ASSUME IsSource(src), NEW k \in Nat \ {0}
  PROVE  /\ At(k) \in STRING
         /\ At(k) \notin {"EOF", "NUL"} => k < Len(src) /\ At(k) = src[k]
         /\ k < Len(src) => At(k) \notin {"EOF", "NUL"}
<1>1. src \in Seq(STRING) /\ Len(src) \in Nat \ {0}
  BY DEF IsSource
<1>2. CASE k < Len(src)
  <2>1. k \in 1 .. Len(src) - 1 /\ At(k) = src[k] /\ src[k] \in STRING
    BY <1>1, <1>2 DEF At
  <2>2. QED
    BY <1>2, <2>1 DEF IsSource
<1>3. CASE k = Len(src)
  BY <1>1, <1>3 DEF IsSource, At
<1>4. CASE k > Len(src)
  <2>1. At(k) = "NUL"
    BY <1>1, <1>4 DEF At
  <2>2. "NUL" \in STRING
    BY LexerAssumptions DEF Special
  <2>3. QED
    BY <1>1, <1>4, <2>1, <2>2
<1>5. QED
  BY <1>1, <1>2, <1>3, <1>4

LEMMA Distinct ==
  /\ \A c \in Space \union Singles \union Quotes \union {"\\", "@"} : c \notin {"EOF", "NUL"}
  /\ \A c \in Alnum \union Escapes \union {"f"} : c \in Letter \union Digit \union Escapes \union {"_", "f"}
  /\ \A c \in Alnum : c \notin {"EOF", "NUL", "\n"}
BY LexerAssumptions DEF Space, Singles, Quotes, Alnum, Alpha, Special, Escapes

LEMMA InitInv == Init => IInv
<1> SUFFICES ASSUME Init PROVE IInv
  OBVIOUS
<1>1. TypeOK
  BY LexerAssumptions DEF Init, TypeOK
<1>2. Told(src, tokens, 1)
  BY DEF Init, Told, Ordered, Below, Explained
<1>3. Len(src) \in Nat \ {0}
  BY <1>1 DEF TypeOK, IsSource
<1>4. QED
  BY <1>1, <1>2, <1>3 DEF Init, IInv, MainInv, TokenInv, CommentInv, OkInv, Loops

\* The meaning of an escape is a character.
LEMMA MeaningIs == \A c \in Escapes : Meaning(c) \in STRING
<1> SUFFICES ASSUME NEW c \in Escapes
             PROVE  Meaning(c) \in STRING
  OBVIOUS
<1>1. \A x \in {"\n", "\t", "\\", "'", "\r"} : x \in STRING
  BY LexerAssumptions DEF Special, Space, Quotes
<1>2. Meaning(c) \in {"\n", "\t", "\\", "'", "\r"}
  BY DEF Meaning, Escapes
<1>3. QED
  BY <1>1, <1>2

LEMMA Basics ==
  IInv => /\ IsSource(src) /\ src \in Seq(STRING) /\ Len(src) \in Nat \ {0}
          /\ i \in Nat \ {0} /\ line \in Nat \ {0} /\ offset \in Nat
          /\ from \in Nat /\ text \in Seq(STRING) /\ tokens \in Seq(Token)
BY DEF IInv, TypeOK, IsSource

-----------------------------------------------------------------------------
(* The steps of the main loop *)

LEMMA SkipSpaceStep == IInv /\ SkipSpace => IInv'
<1> SUFFICES ASSUME IInv, SkipSpace
             PROVE  IInv'
  OBVIOUS
<1>1. At(i) \in Space /\ At(i) \notin {"EOF", "NUL"}
  BY Distinct DEF SkipSpace
<1>2. i < Len(src) /\ src[i] \in Space
  BY <1>1, Basics, Inside
<1>3. TypeOK'
  BY DEF IInv, TypeOK, SkipSpace, InMain, Reading
<1>4. Told(src, tokens, i)
  BY DEF IInv, MainInv, SkipSpace, InMain, Reading
<1>5. Told(src, tokens, i + 1)
  BY <1>2, <1>4, SpaceTells, Basics
<1>6. /\ pc = "main" /\ pc' = "main" /\ i' = i + 1 /\ src' = src /\ tokens' = tokens
      /\ status = "lexing" /\ status' = "lexing"
  BY DEF SkipSpace, InMain, Reading
<1>7. MainInv'
  BY <1>2, <1>5, <1>6, Basics DEF MainInv
<1>8. QED
  BY <1>3, <1>6, <1>7 DEF IInv, TokenInv, CommentInv, OkInv, Loops

\* A token of the main loop tells all up to its end.
LEMMA EmitStep ==
  ASSUME IInv, pc = "main", status = "lexing",
         NEW type \in Kinds, NEW content \in Seq(STRING), NEW end \in Nat,
         i <= end, end <= Len(src), end = Len(src) => type = "eof",
         Emit(type, content, offset + 1, i, end),
         i' = end + 1, offset' \in Nat,
         UNCHANGED <<src, line, pc, from, text, status>>
  PROVE  IInv'
<1> DEFINE tok == [type |-> type, content |-> content, line |-> line,
                   offset |-> offset + 1, start |-> i, end |-> end]
<1>1. /\ tok \in Token /\ tokens' = Append(tokens, tok)
      /\ tok.type = type /\ tok.start = i /\ tok.end = end
  BY Basics DEF Token, Emit
<1> HIDE DEF tok
<1>2. /\ tokens' \in Seq(Token) /\ tokens' # <<>> /\ tokens'[Len(tokens')].type = type
  BY <1>1, AppendProperties, Basics
<1>3. Told(src, tokens, i)
  BY DEF IInv, MainInv
<1>4. Told(src, tokens', end + 1)
  <2>1. Told(src, tokens, tok.start) /\ tok.start > 0 /\ tok.start <= tok.end
    BY <1>1, <1>3, Basics
  <2>2. Told(src, Append(tokens, tok), tok.end + 1)
    BY <1>1, <2>1, TokenTells, Basics
  <2>3. QED
    BY <1>1, <2>2
<1>5. TypeOK'
  BY <1>2 DEF IInv, TypeOK
<1>6. MainInv'
  <2>1. i' <= Len(src') + 1 /\ (i' = Len(src') + 1 => type = "eof")
    BY Basics
  <2>2. Told(src', tokens', i')
    BY <1>4
  <2>3. QED
    BY <1>2, <2>1, <2>2 DEF MainInv, Ended
<1>7. QED
  BY <1>5, <1>6 DEF IInv, TokenInv, CommentInv, OkInv, Loops

LEMMA PunctuationStep == IInv /\ Punctuation => IInv'
<1> SUFFICES ASSUME IInv, Punctuation
             PROVE  IInv'
  OBVIOUS
<1> DEFINE n == PunctuationLength
           end == i + n - 1
<1>1. At(i) \in Singles
  BY DEF Punctuation
<1>2. n \in 1 .. 3 /\ At(end) \in Singles
  <2>1. CASE At(i) = "." /\ At(i + 1) = "." /\ At(i + 2) = "."
    <3>1. n = 3 /\ end = i + 2
      BY <2>1, Basics DEF PunctuationLength
    <3>2. At(end) = At(i + 2)
      BY <3>1
    <3>3. At(end) \in Singles
      BY <2>1, <3>2 DEF Singles
    <3>4. QED
      BY <3>1, <3>3
  <2>2. CASE At(i) # "." /\ <<At(i), At(i + 1)>> \in Pairs
    <3>1. n = 2 /\ end = i + 1
      BY <2>2, Basics DEF PunctuationLength
    <3>2. At(i + 1) \in {":", "=", "<", ">"}
      BY <2>2 DEF Pairs
    <3>3. At(end) = At(i + 1)
      BY <3>1
    <3>4. At(end) \in Singles
      BY <3>2, <3>3 DEF Singles
    <3>5. QED
      BY <3>1, <3>4
  <2>3. CASE n = 1
    BY <1>1, <2>3, Basics
  <2>4. QED
    BY <2>1, <2>2, <2>3 DEF PunctuationLength
<1>3. end \in Nat \ {0} /\ i <= end
  BY <1>2, Basics
<1>4. end < Len(src)
  <2>1. At(end) \notin {"EOF", "NUL"}
    BY <1>2, Distinct
  <2>2. QED
    BY <1>3, <2>1, Inside, Basics
<1>5. SubSeq(src, i, end) \in Seq(STRING)
  BY <1>3, <1>4, SubSeqProperties, Basics
<1>6. "punctuation" \in Kinds
  BY DEF Kinds
<1>7. /\ Emit("punctuation", SubSeq(src, i, end), offset + 1, i, end)
      /\ i' = end + 1 /\ offset' \in Nat /\ pc = "main" /\ status = "lexing"
      /\ UNCHANGED <<src, line, pc, from, text, status>>
  BY <1>2, Basics, SMTT(30) DEF Punctuation, InMain, Reading
<1> HIDE DEF end
<1>8. end <= Len(src) /\ (end = Len(src) => "punctuation" = "eof")
  BY <1>3, <1>4, Basics
<1>9. QED
  BY <1>3, <1>5, <1>6, <1>7, <1>8, EmitStep

LEMMA EndOfFileStep == IInv /\ EndOfFile => IInv'
<1> SUFFICES ASSUME IInv, EndOfFile
             PROVE  IInv'
  OBVIOUS
<1>1. "eof" \in Kinds /\ <<>> \in Seq(STRING)
  BY DEF Kinds
<1>2. /\ Emit("eof", <<>>, offset + 1, i, i) /\ i <= Len(src)
      /\ i' = i + 1 /\ offset' = offset + 1 /\ pc = "main" /\ status = "lexing"
      /\ UNCHANGED <<src, line, pc, from, text, status>>
  BY DEF EndOfFile, InMain, Reading
<1>3. i \in Nat /\ i <= i /\ offset' \in Nat
  BY <1>2, Basics
<1>4. i = Len(src) => "eof" = "eof"
  OBVIOUS
<1>5. QED
  BY <1>1, <1>2, <1>3, <1>4, EmitStep

\* A token that a function of its own reads begins before the end of the source.
LEMMA StartsStep == IInv /\ Starts => IInv'
<1> SUFFICES ASSUME IInv, Starts
             PROVE  IInv'
  OBVIOUS
<1>1. /\ pc = "main" /\ status = "lexing" /\ pc' \in Loops \ {"comment"}
      /\ from' = i /\ i' = i + 1 /\ offset' = offset + 1 /\ text' = <<>>
      /\ UNCHANGED <<src, line, tokens, status>>
  BY DEF Starts, InMain, Reading, Loops
<1>2. At(i) \notin {"EOF", "NUL"}
  <2>1. At(i) \in Alnum \union Quotes \union {"@"}
    BY DEF Starts, Alnum
  <2>2. QED
    BY <2>1, Distinct
<1>3. i < Len(src)
  BY <1>2, Inside, Basics
<1>4. TypeOK'
  BY <1>1, Basics DEF IInv, TypeOK
<1>5. Told(src, tokens, i)
  BY <1>1 DEF IInv, MainInv
<1>6. TokenInv'
  BY <1>1, <1>3, <1>5, Basics DEF TokenInv
<1>7. QED
  BY <1>1, <1>4, <1>6 DEF IInv, MainInv, CommentInv, OkInv, Loops

LEMMA DoneStep == IInv /\ Done => IInv'
<1> SUFFICES ASSUME IInv, Done
             PROVE  IInv'
  OBVIOUS
<1>1. /\ pc = "main" /\ i > Len(src) /\ status' = "ok"
      /\ UNCHANGED <<src, i, line, offset, pc, from, text, tokens>>
  BY DEF Done, Reading, Stop
<1>2. TypeOK'
  BY <1>1 DEF IInv, TypeOK
<1>3. OkInv'
  BY <1>1, Basics DEF IInv, MainInv, OkInv
<1>4. MainInv' /\ TokenInv' /\ CommentInv'
  BY <1>1 DEF IInv, MainInv, Ended, Nameless, TokenInv, CommentInv, Loops
<1>5. QED
  BY <1>2, <1>3, <1>4 DEF IInv

\* To give up leaves everything as it is.
LEMMA StopStep ==
  ASSUME IInv, NEW how \in {"exit", "error", "overrun"}, Stop(how)
  PROVE  IInv'
<1>1. status' = how /\ UNCHANGED <<src, i, line, offset, pc, from, text, tokens>>
  BY DEF Stop
<1>2. TypeOK'
  BY <1>1 DEF IInv, TypeOK
<1>3. MainInv' /\ TokenInv' /\ CommentInv'
  BY <1>1 DEF IInv, MainInv, Ended, Nameless, TokenInv, CommentInv, At
<1>4. QED
  BY <1>1, <1>2, <1>3 DEF IInv, OkInv

-----------------------------------------------------------------------------
(* The steps in a comment *)

LEMMA CommentStartStep == IInv /\ CommentStart => IInv'
<1> SUFFICES ASSUME IInv, CommentStart
             PROVE  IInv'
  OBVIOUS
<1>1. /\ pc = "main" /\ status = "lexing" /\ pc' = "comment"
      /\ i' = i + 1 /\ offset' = offset + 2
      /\ UNCHANGED <<src, line, from, text, tokens, status>>
      /\ At(i) = "/" /\ At(i + 1) = "/"
  BY DEF CommentStart, InMain, Reading, AtComment
<1>2. i + 1 \in Nat \ {0}
  BY Basics
<1>3. i + 1 < Len(src) /\ src[i] = "/" /\ src[i + 1] = "/"
  BY <1>1, <1>2, Inside, Basics
<1>4. i \in 1 .. Len(src) - 1 /\ i < i' /\ Told(src, tokens, i)
  BY <1>1, <1>3, Basics DEF IInv, MainInv
<1>5. \A j \in i .. i' : At(j) # "\n"
  <2> TAKE j \in i .. i'
  <2>1. CASE j = i
    BY <1>1, <2>1
  <2>2. CASE j = i + 1
    BY <1>1, <2>2
  <2>3. QED
    BY <1>1, <2>1, <2>2, Basics
<1>6. CommentInv'
  BY <1>1, <1>3, <1>4, <1>5 DEF CommentInv, At
<1>7. TypeOK'
  BY <1>1, Basics DEF IInv, TypeOK, Loops
<1>8. QED
  BY <1>1, <1>6, <1>7 DEF IInv, MainInv, TokenInv, OkInv

LEMMA CommentCharStep == IInv /\ CommentChar => IInv'
<1> SUFFICES ASSUME IInv, CommentChar
             PROVE  IInv'
  OBVIOUS
<1>1. /\ pc = "comment" /\ status = "lexing" /\ At(i + 1) # "\n"
      /\ i' = i + 1 /\ offset' = offset + 1
      /\ UNCHANGED <<src, line, pc, from, text, tokens, status>>
  BY DEF CommentChar, Reading
<1>2. PICK c \in 1 .. Len(src) - 1 :
        /\ c < i /\ src[c] = "/" /\ src[c + 1] = "/"
        /\ \A j \in c .. i : At(j) # "\n"
        /\ Told(src, tokens, c)
  BY <1>1 DEF IInv, CommentInv
<1>3. \A j \in c .. i + 1 : At(j) # "\n"
  <2> TAKE j \in c .. i + 1
  <2>1. CASE j = i + 1
    BY <1>1, <2>1
  <2>2. CASE j # i + 1
    <3>1. c \in Int /\ i \in Int
      BY Basics
    <3>2. j \in c .. i
      BY <2>2, <3>1
    <3>3. QED
      BY <1>2, <3>2
  <2>3. QED
    BY <2>1, <2>2
<1>4. c < i'
  BY <1>1, <1>2, Basics
<1>5. CommentInv'
  BY <1>1, <1>2, <1>3, <1>4 DEF CommentInv, At
<1>6. TypeOK'
  BY <1>1, Basics DEF IInv, TypeOK
<1>7. QED
  BY <1>1, <1>5, <1>6 DEF IInv, MainInv, TokenInv, OkInv

\* Behind a comment the main loop is at a newline, which stands before the end.
LEMMA CommentEndStep == IInv /\ CommentEnd => IInv'
<1> SUFFICES ASSUME IInv, CommentEnd
             PROVE  IInv'
  OBVIOUS
<1>1. /\ pc = "comment" /\ status = "lexing" /\ At(i + 1) = "\n"
      /\ i' = i + 1 /\ pc' = "main"
      /\ UNCHANGED <<src, line, offset, from, text, tokens, status>>
  BY DEF CommentEnd, Reading
<1>2. PICK c \in 1 .. Len(src) - 1 :
        /\ c < i /\ src[c] = "/" /\ src[c + 1] = "/"
        /\ \A j \in c .. i : At(j) # "\n"
        /\ Told(src, tokens, c)
  BY <1>1 DEF IInv, CommentInv
<1>3. i + 1 < Len(src)
  <2>1. i + 1 \in Nat \ {0}
    BY Basics
  <2>2. QED
    BY <1>1, <2>1, Inside, Basics
<1>4. \A j \in c .. i : src[j] # "\n"
  BY <1>2, <1>3, Basics DEF At
<1>5. c \in Nat \ {0} /\ c <= i /\ c < Len(src) /\ i \in Nat
  BY <1>2, Basics
<1>6. Told(src, tokens, i + 1)
  BY <1>2, <1>4, <1>5, CommentTells, Basics
<1>7. MainInv'
  BY <1>1, <1>3, <1>6, Basics DEF MainInv
<1>8. TypeOK'
  BY <1>1, Basics DEF IInv, TypeOK
<1>9. QED
  BY <1>1, <1>7, <1>8 DEF IInv, TokenInv, CommentInv, OkInv, Loops

-----------------------------------------------------------------------------
(* The steps of the functions that read a token *)

\* A function that goes on keeps where its token begins; only the one
\* for strings goes beyond the source.
LEMMA ReadOnStep ==
  ASSUME IInv, pc \in Loops \ {"comment"}, pc' \in Loops \ {"comment"}, status = "lexing",
         i' \in Nat, i < i', pc' # "string" => i' <= Len(src), text' \in Seq(STRING),
         UNCHANGED <<src, line, offset, from, tokens, status>>
  PROVE  IInv'
<1>1. TypeOK'
  BY Basics DEF IInv, TypeOK
<1>2. from \in 1 .. Len(src) - 1 /\ from < i /\ Told(src, tokens, from)
  BY DEF IInv, TokenInv
<1>3. TokenInv'
  BY <1>2, Basics DEF TokenInv
<1>4. QED
  BY <1>1, <1>3 DEF IInv, MainInv, CommentInv, OkInv, Loops

\* The token of a function tells all up to its last character.
LEMMA FinishStep ==
  ASSUME IInv, pc \in Loops \ {"comment"}, status = "lexing",
         NEW type \in Kinds, NEW content \in Seq(STRING), NEW last \in Nat,
         from <= last, last <= Len(src), last = Len(src) => type = "builtin" /\ content = <<>>,
         Finish(type, content, last)
  PROVE  IInv'
<1> DEFINE tok == [type |-> type, content |-> content, line |-> line,
                   offset |-> offset, start |-> from, end |-> last]
<1>1. /\ tok \in Token /\ tokens' = Append(tokens, tok)
      /\ tok.type = type /\ tok.content = content /\ tok.start = from /\ tok.end = last
  BY Basics DEF Token, Finish, Emit
<1>2. /\ i' = last + 1 /\ offset' = offset + (last - from) /\ pc' = "main"
      /\ UNCHANGED <<src, line, from, text, status>>
  BY DEF Finish
<1> HIDE DEF tok
<1>3. from \in 1 .. Len(src) - 1 /\ Told(src, tokens, from)
  BY DEF IInv, TokenInv
<1>4. /\ tokens' \in Seq(Token) /\ tokens' # <<>>
      /\ tokens'[Len(tokens')].type = type /\ tokens'[Len(tokens')].content = content
  BY <1>1, AppendProperties, Basics
<1>5. Told(src, tokens', last + 1)
  <2>1. Told(src, tokens, tok.start) /\ tok.start > 0 /\ tok.start <= tok.end
    BY <1>1, <1>3, Basics
  <2>2. Told(src, Append(tokens, tok), tok.end + 1)
    BY <1>1, <2>1, TokenTells, Basics
  <2>3. QED
    BY <1>1, <2>2
<1>6. TypeOK'
  BY <1>2, <1>4, Basics DEF IInv, TypeOK
<1>7. MainInv'
  <2>1. i' <= Len(src') + 1 /\ (i' = Len(src') + 1 => type = "builtin" /\ content = <<>>)
    BY <1>2, Basics
  <2>2. Told(src', tokens', i')
    BY <1>2, <1>5
  <2>3. QED
    BY <1>4, <2>1, <2>2 DEF MainInv, Ended, Nameless
<1>8. QED
  BY <1>2, <1>6, <1>7 DEF IInv, TokenInv, CommentInv, OkInv, Loops

LEMMA InToken == IInv /\ pc \in Loops \ {"comment"} =>
                   /\ from \in Nat \ {0} /\ from < Len(src) /\ from < i
                   /\ pc # "string" => i <= Len(src)
BY Basics DEF IInv, TokenInv

LEMMA StringCharStep == IInv /\ StringChar => IInv'
<1> SUFFICES ASSUME IInv, StringChar
             PROVE  IInv'
  OBVIOUS
<1>1. pc = "string" /\ pc' = "string" /\ "string" \in Loops \ {"comment"} /\ status = "lexing"
  BY DEF StringChar, Reading, Loops
<1>2. i' = i + 1 /\ text' = Append(text, At(i)) /\ UNCHANGED <<src, line, offset, from, tokens, status>>
  BY DEF StringChar
<1>3. At(i) \in STRING
  BY Inside, Basics
<1>4. text' \in Seq(STRING) /\ i' \in Nat /\ i < i'
  BY <1>2, <1>3, Basics, AppendProperties
<1>5. QED
  BY <1>1, <1>2, <1>4, ReadOnStep

LEMMA StringEscapeStep == IInv /\ StringEscape => IInv'
<1> SUFFICES ASSUME IInv, StringEscape
             PROVE  IInv'
  OBVIOUS
<1>1. pc = "string" /\ pc' = "string" /\ "string" \in Loops \ {"comment"} /\ status = "lexing"
  BY DEF StringEscape, Reading, Loops
<1>2. /\ i' = i + 2 /\ text' = Append(text, Meaning(At(i + 1))) /\ At(i + 1) \in Escapes
      /\ UNCHANGED <<src, line, offset, from, tokens, status>>
  BY DEF StringEscape
<1>3. text' \in Seq(STRING) /\ i' \in Nat /\ i < i'
  BY <1>2, MeaningIs, Basics, AppendProperties
<1>4. QED
  BY <1>1, <1>2, <1>3, ReadOnStep

LEMMA StringCloseStep == IInv /\ StringClose => IInv'
<1> SUFFICES ASSUME IInv, StringClose
             PROVE  IInv'
  OBVIOUS
<1>1. pc \in Loops \ {"comment"} /\ status = "lexing" /\ At(i) = src[from]
  BY DEF StringClose, Reading, Quote, Loops
<1>2. At(i) \notin {"EOF", "NUL"}
  BY <1>1, InToken, Inside, Basics DEF At
<1>3. i < Len(src) /\ from <= i /\ i \in Nat
  BY <1>1, <1>2, InToken, Inside, Basics
<1>4. CASE Quote = "'" /\ Len(text) > 1
  BY <1>4, StopStep DEF StringClose
<1>5. CASE ~(Quote = "'" /\ Len(text) > 1)
  <2> DEFINE type == IF Quote = "'" THEN "char" ELSE "string"
  <2>1. type \in Kinds
    BY DEF Kinds
  <2>2. Finish(type, text, i) /\ text \in Seq(STRING)
    BY <1>5, Basics DEF StringClose
  <2>3. i <= Len(src) /\ (i = Len(src) => type = "builtin" /\ text = <<>>)
    BY <1>3, Basics
  <2> HIDE DEF type
  <2>4. QED
    BY <1>1, <1>3, <2>1, <2>2, <2>3, FinishStep
<1>6. QED
  BY <1>4, <1>5

\* A character that is part of a number or of a name is not the last of the source.
LEMMA InsideWord ==
  ASSUME IInv, At(i) \in Alnum
  PROVE  i < Len(src)
<1>1. At(i) \notin {"EOF", "NUL"}
  BY Distinct
<1>2. QED
  BY <1>1, Inside, Basics

LEMMA WordStep ==
  ASSUME IInv, NumberDigit \/ NameChar \/ BuiltinStart
  PROVE  IInv'
<1>1. At(i) \in Alnum /\ status = "lexing"
  BY DEF NumberDigit, NameChar, BuiltinStart, Reading, Alnum
<1>2. /\ pc \in Loops \ {"comment", "string"} /\ pc' \in Loops \ {"comment", "string"}
      /\ i' = i + 1 /\ UNCHANGED <<src, line, offset, from, text, tokens, status>>
  BY DEF NumberDigit, NameChar, BuiltinStart, Advance, Reading, Loops
<1>3. i' \in Nat /\ i < i' /\ i' <= Len(src) /\ text' \in Seq(STRING)
  BY <1>1, <1>2, InsideWord, Basics
<1>4. QED
  BY <1>1, <1>2, <1>3, ReadOnStep

LEMMA NumberDotStep == IInv /\ NumberDot => IInv'
<1> SUFFICES ASSUME IInv, NumberDot
             PROVE  IInv'
  OBVIOUS
<1>1. CASE At(i + 1) \notin Digit
  BY <1>1, StopStep DEF NumberDot
<1>2. CASE At(i + 1) \in Digit
  <2>1. /\ pc \in Loops \ {"comment"} /\ pc' \in Loops \ {"comment"} /\ status = "lexing"
        /\ i' = i + 2 /\ UNCHANGED <<src, line, offset, from, text, tokens, status>>
    BY <1>2 DEF NumberDot, Reading, Loops
  <2>2. At(i + 1) \notin {"EOF", "NUL"} /\ i + 1 \in Nat \ {0}
    <3>1. At(i + 1) \in Alnum
      BY <1>2 DEF Alnum
    <3>2. At(i + 1) \notin {"EOF", "NUL"}
      BY <3>1, Distinct
    <3>3. i + 1 \in Nat \ {0}
      BY Basics
    <3>4. QED
      BY <3>2, <3>3
  <2>3. i + 1 < Len(src)
    BY <2>2, Inside, Basics
  <2>4. i' \in Nat /\ i < i' /\ i' <= Len(src) /\ text' \in Seq(STRING)
    BY <2>1, <2>3, Basics
  <2>5. QED
    BY <2>1, <2>4, ReadOnStep
<1>3. QED
  BY <1>1, <1>2

\* What has been read of a token is a piece of the source.
LEMMA Read ==
  ASSUME IInv, pc \in Loops \ {"comment", "string"}
  PROVE  /\ SubSeq(src, from, i - 1) \in Seq(STRING)
         /\ i - 1 \in Nat /\ from <= i - 1 /\ i - 1 < Len(src) /\ from <= i /\ i <= Len(src)
<1>1. from \in Nat \ {0} /\ from < i /\ i <= Len(src)
  BY InToken, Basics
<1>2. QED
  BY <1>1, SubSeqProperties, Basics

LEMMA WordEndStep ==
  ASSUME IInv, NumberEnd \/ IdentifierEnd \/ BuiltinEnd
  PROVE  IInv'
<1>1. pc \in Loops \ {"comment", "string"} /\ status = "lexing"
  BY DEF NumberEnd, IdentifierEnd, BuiltinEnd, Reading, Loops
<1>2. PICK type \in Kinds : Finish(type, SubSeq(src, from, i - 1), i - 1)
  BY DEF NumberEnd, IdentifierEnd, BuiltinEnd, Kinds
<1>3. /\ i - 1 <= Len(src)
      /\ i - 1 = Len(src) => type = "builtin" /\ SubSeq(src, from, i - 1) = <<>>
  BY <1>1, Read, Basics
<1>4. QED
  BY <1>1, <1>2, <1>3, Read, FinishStep

LEMMA FractionEndStep == IInv /\ FractionEnd => IInv'
<1> SUFFICES ASSUME IInv, FractionEnd
             PROVE  IInv'
  OBVIOUS
<1> DEFINE last == IF At(i) = "f" THEN i ELSE i - 1
<1>1. pc \in Loops \ {"comment", "string"} /\ status = "lexing"
  BY DEF FractionEnd, Reading, Loops
<1>2. Finish("number", SubSeq(src, from, i - 1), last) /\ "number" \in Kinds
  BY DEF FractionEnd, Kinds
<1>3. last \in Nat /\ from <= last /\ last < Len(src)
  <2>1. CASE At(i) = "f"
    <3>1. At(i) \notin {"EOF", "NUL"}
      BY <2>1
    <3>2. i < Len(src)
      BY <3>1, Inside, Basics
    <3>3. QED
      BY <1>1, <2>1, <3>2, Read, Basics
  <2>2. CASE At(i) # "f"
    BY <1>1, <2>2, Read
  <2>3. QED
    BY <2>1, <2>2
<1> HIDE DEF last
<1>4. /\ last <= Len(src)
      /\ last = Len(src) => "number" = "builtin" /\ SubSeq(src, from, i - 1) = <<>>
  BY <1>3, Basics
<1>5. QED
  BY <1>1, <1>2, <1>3, <1>4, Read, FinishStep

\* A nameless '@' takes the next character, be it the end of the source.
LEMMA BuiltinNamelessStep == IInv /\ BuiltinNameless => IInv'
<1> SUFFICES ASSUME IInv, BuiltinNameless
             PROVE  IInv'
  OBVIOUS
<1>1. pc \in Loops \ {"comment", "string"} /\ status = "lexing"
  BY DEF BuiltinNameless, Reading, Loops
<1>2. Finish("builtin", <<>>, i) /\ "builtin" \in Kinds /\ <<>> \in Seq(STRING)
  BY DEF BuiltinNameless, Kinds
<1>3. i \in Nat /\ from <= i /\ i <= Len(src)
  BY <1>1, Read, Basics
<1>4. i = Len(src) => "builtin" = "builtin" /\ <<>> = <<>>
  OBVIOUS
<1>5. QED
  BY <1>1, <1>2, <1>3, <1>4, FinishStep

-----------------------------------------------------------------------------
(* The theorems *)

LEMMA StepInv == IInv /\ [Next]_vars => IInv'
<1> SUFFICES ASSUME IInv, [Next]_vars
             PROVE  IInv'
  OBVIOUS
<1>1. CASE SkipSpace
  BY <1>1, SkipSpaceStep
<1>2. CASE Punctuation
  BY <1>2, PunctuationStep
<1>3. CASE EndOfFile
  BY <1>3, EndOfFileStep
<1>4. CASE Starts
  BY <1>4, StartsStep
<1>5. CASE Done
  BY <1>5, DoneStep
<1>6. CASE Unrecognized \/ StringInvalid
  BY <1>6, StopStep DEF Unrecognized, StringInvalid
<1>7. CASE CommentOverrun \/ StringOverrun
  BY <1>7, StopStep DEF CommentOverrun, StringOverrun
<1>8. CASE CommentStart
  BY <1>8, CommentStartStep
<1>9. CASE CommentChar
  BY <1>9, CommentCharStep
<1>10. CASE CommentEnd
  BY <1>10, CommentEndStep
<1>11. CASE StringChar
  BY <1>11, StringCharStep
<1>12. CASE StringEscape
  BY <1>12, StringEscapeStep
<1>13. CASE StringClose
  BY <1>13, StringCloseStep
<1>14. CASE NumberDigit \/ NameChar \/ BuiltinStart
  BY <1>14, WordStep
<1>15. CASE NumberDot
  BY <1>15, NumberDotStep
<1>16. CASE NumberEnd \/ IdentifierEnd \/ BuiltinEnd
  BY <1>16, WordEndStep
<1>17. CASE FractionEnd
  BY <1>17, FractionEndStep
<1>18. CASE BuiltinNameless
  BY <1>18, BuiltinNamelessStep
<1>19. CASE UNCHANGED vars
  BY <1>19 DEF vars, IInv, TypeOK, MainInv, Ended, Nameless, TokenInv, CommentInv, OkInv, At
<1>20. QED
  BY <1>1, <1>2, <1>3, <1>4, <1>5, <1>6, <1>7, <1>8, <1>9, <1>10, <1>11, <1>12, <1>13,
     <1>14, <1>15, <1>16, <1>17, <1>18, <1>19 DEF Next, Over

LEMMA Inductive == Spec => []IInv
BY InitInv, StepInv, PTL DEF Spec

\* Every variable of the lexer keeps its type: the index, the line and the offset never
\* turn negative, and a token is of one of the kinds that the parser knows.
THEOREM LexerTypeCorrect == Spec => []TypeOK
<1>1. IInv => TypeOK
  BY DEF IInv
<1>2. QED
  BY <1>1, Inductive, PTL

\* What the invariant says of the end of the source is what NothingSkipped says.
LEMMA InvSkips == IInv => NothingSkipped
<1> SUFFICES ASSUME IInv, status = "ok"
             PROVE  /\ \A k \in 1 .. Len(src) :
                         LET covering == {n \in 1 .. Len(tokens) : k \in tokens[n].start .. tokens[n].end} IN
                           IF covering = {} THEN src[k] \in Space \/ InComment(k) ELSE Cardinality(covering) = 1
                    /\ tokens[Len(tokens)].type = "eof" \/ Nameless(tokens[Len(tokens)])
  BY DEF NothingSkipped
<1>1. Told(src, tokens, Len(src) + 1) /\ Ended
  BY DEF IInv, OkInv, MainInv
<1>2. ASSUME NEW k \in 1 .. Len(src)
      PROVE  LET covering == {n \in 1 .. Len(tokens) : k \in tokens[n].start .. tokens[n].end} IN
               IF covering = {} THEN src[k] \in Space \/ InComment(k) ELSE Cardinality(covering) = 1
  <2> DEFINE covering == {n \in 1 .. Len(tokens) : k \in tokens[n].start .. tokens[n].end}
  <2>1. CASE covering = {}
    <3>1. ~Covered(tokens, k)
      BY <2>1 DEF Covered
    <3>2. src[k] \in Space \/ CommentAt(src, tokens, k)
      BY <1>1, <3>1, Basics DEF Told, Explained
    <3>3. QED
      BY <2>1, <3>2 DEF InComment, CommentAt
  <2>2. CASE covering # {}
    <3>1. PICK n \in covering : TRUE
      BY <2>2
    <3>2. ASSUME NEW m \in covering
          PROVE  m = n
      <4>1. /\ tokens[m].start \in Nat /\ tokens[m].end \in Nat
            /\ tokens[n].start \in Nat /\ tokens[n].end \in Nat
        BY <1>1 DEF Told, Below
      <4>2. ~(m < n)
        BY <1>1, <4>1 DEF Told, Ordered
      <4>3. ~(n < m)
        BY <1>1, <4>1 DEF Told, Ordered
      <4>4. QED
        BY <4>2, <4>3, Basics
    <3>3. covering = {n}
      BY <3>1, <3>2
    <3>4. Cardinality(covering) = 1
      BY <3>3, FS_Singleton
    <3>5. QED
      BY <2>2, <3>4
  <2>3. QED
    BY <2>1, <2>2
<1>3. QED
  BY <1>1, <1>2 DEF Ended

\* When the lexer has succeeded, each character of the source is part of exactly one
\* token, or white space or a comment outside all of them; and the last token is
\* the end of the file, unless a '@' without a name has taken it.
THEOREM LexerSkipsNothing == Spec => []NothingSkipped
BY Inductive, InvSkips, PTL

-----------------------------------------------------------------------------
(* What is a lexeme, by positions in the source *)

\* q is the piece of s from f to e; that from f to f - 1 is empty.
Piece(q, s, f, e) ==
  /\ q \in Seq(STRING) /\ f \in Nat \ {0} /\ e \in Nat /\ f <= e + 1 /\ e <= Len(s)
  /\ Len(q) = e - f + 1
  /\ \A k \in 1 .. Len(q) : q[k] = s[f + k - 1]

DigitsAt(s, f, e) == f <= e /\ \A k \in f .. e : s[k] \in Digit
NameAt(s, f, e) == f <= e /\ s[f] \in Alpha /\ \A k \in f .. e : s[k] \in Alnum
FractionAt(s, f, e) ==
  \E d \in f + 1 .. e - 1 : s[d] = "." /\ \A k \in f .. e : k = d \/ s[k] \in Digit

\* The backslashes before p, in a literal that begins at f, begin at b.
Slashes(s, f, p, b) ==
  /\ b \in f + 1 .. p /\ s[b - 1] # "\\"
  /\ \A j \in b .. p - 1 : s[j] = "\\"
EscapedAt(s, f, p) == \E b \in f + 1 .. p : Slashes(s, f, p, b) /\ (p - b) % 2 = 1
PlainAt(s, f, p) == \E b \in f + 1 .. p : Slashes(s, f, p, b) /\ (p - b) % 2 = 0

LiteralAt(s, f, e) ==
  /\ f < e /\ s[f] \in Quotes /\ s[e] = s[f]
  /\ \A k \in f + 1 .. e : s[k] = s[f] => (EscapedAt(s, f, k) <=> k < e)

LexemeAt(s, f, e) ==
  \/ e = f /\ s[f] \in Singles \union {"EOF"}
  \/ e = f + 1 /\ <<s[f], s[f + 1]>> \in Pairs
  \/ e = f + 2 /\ s[f] = "." /\ s[f + 1] = "." /\ s[f + 2] = "."
  \/ DigitsAt(s, f, e) \/ FractionAt(s, f, e) \/ (FractionAt(s, f, e - 1) /\ s[e] = "f")
  \/ NameAt(s, f, e) \/ (s[f] = "@" /\ NameAt(s, f + 1, e))
  \/ LiteralAt(s, f, e)

\* Between two positions the source has a piece.
LEMMA PieceIs ==
  ASSUME NEW s \in Seq(STRING), NEW f \in Nat \ {0}, NEW e \in Nat, f <= e + 1, e <= Len(s)
  PROVE  Piece(SubSeq(s, f, e), s, f, e)
<1>1. Len(s) \in Nat /\ \A k \in f .. e : s[k] \in STRING
  <2>1. Len(s) \in Nat
    BY LenProperties
  <2>2. ASSUME NEW k \in f .. e PROVE s[k] \in STRING
    <3>1. k \in 1 .. Len(s)
      BY <2>1
    <3>2. QED
      BY <3>1, ElementOfSeq
  <2>3. QED
    BY <2>1, <2>2
<1>2. PICK q : q = SubSeq(s, f, e)
  OBVIOUS
<1>3. /\ q \in Seq(STRING)
      /\ Len(q) = IF f <= e THEN e - f + 1 ELSE 0
      /\ \A k \in 1 .. e - f + 1 : q[k] = s[f + k - 1]
  BY <1>1, <1>2, SubSeqProperties
<1>4. Len(q) = e - f + 1
  BY <1>3
<1>5. QED
  BY <1>2, <1>3, <1>4 DEF Piece

\* A part of a piece is a piece.
LEMMA PieceOf ==
  ASSUME NEW q, NEW s, NEW f, NEW e, Piece(q, s, f, e),
         NEW a \in Nat \ {0}, NEW b \in Nat, a <= b + 1, b <= Len(q)
  PROVE  Piece(SubSeq(q, a, b), s, f + a - 1, f + b - 1)
<1>1. /\ q \in Seq(STRING) /\ f \in Nat \ {0} /\ e \in Nat /\ f <= e + 1 /\ e <= Len(s)
      /\ Len(q) = e - f + 1
      /\ \A k \in 1 .. Len(q) : q[k] = s[f + k - 1]
  BY DEF Piece
<1>2. PICK r : r = SubSeq(q, a, b)
  OBVIOUS
<1>3. Piece(r, q, a, b)
  BY <1>1, <1>2, PieceIs
<1>4. r \in Seq(STRING) /\ Len(r) = b - a + 1 /\ \A k \in 1 .. Len(r) : r[k] = q[a + k - 1]
  BY <1>3 DEF Piece
<1>5. ASSUME NEW k \in 1 .. Len(r) PROVE r[k] = s[f + a - 1 + k - 1]
  <2>1. PICK j : j = a + k - 1
    OBVIOUS
  <2>2. j \in 1 .. Len(q) /\ f + j - 1 = f + a - 1 + k - 1
    BY <1>1, <1>4, <2>1
  <2>3. QED
    BY <1>1, <1>4, <2>1, <2>2
<1>6. /\ f + a - 1 \in Nat \ {0} /\ f + b - 1 \in Nat /\ f + a - 1 <= f + b - 1 + 1
      /\ Len(r) = (f + b - 1) - (f + a - 1) + 1
  BY <1>1, <1>4
<1>7. f + b - 1 <= Len(s)
  <2>1. f + b - 1 <= e
    BY <1>1
  <2>2. CASE e = f - 1
    BY <1>1, <2>1, <2>2
  <2>3. QED
    BY <1>1, <2>1
<1>8. QED
  BY <1>2, <1>4, <1>5, <1>6, <1>7 DEF Piece

\* A piece, position by position
LEMMA PieceAt ==
  ASSUME NEW q, NEW s, NEW f, NEW e, Piece(q, s, f, e)
  PROVE  /\ f \in Nat \ {0} /\ e \in Nat /\ f <= e + 1 /\ q \in Seq(STRING)
         /\ Len(q) \in Nat /\ Len(q) = e - f + 1 /\ (q = <<>> <=> e = f - 1)
         /\ \A k \in f .. e : k - f + 1 \in 1 .. Len(q) /\ q[k - f + 1] = s[k]
         /\ \A k \in 1 .. Len(q) : f + k - 1 \in f .. e /\ q[k] = s[f + k - 1]
<1>1. /\ q \in Seq(STRING) /\ f \in Nat \ {0} /\ e \in Nat /\ f <= e + 1 /\ e <= Len(s)
      /\ Len(q) = e - f + 1
      /\ \A k \in 1 .. Len(q) : q[k] = s[f + k - 1]
  BY DEF Piece
<1>2. Len(q) \in Nat /\ (q = <<>> <=> e = f - 1)
  <2>1. Len(q) \in Nat /\ (q = <<>> <=> Len(q) = 0)
    BY <1>1, EmptySeq, LenProperties
  <2>2. QED
    BY <1>1, <2>1
<1>3. ASSUME NEW k \in f .. e PROVE k - f + 1 \in 1 .. Len(q) /\ q[k - f + 1] = s[k]
  <2>1. PICK j : j = k - f + 1
    OBVIOUS
  <2>2. j \in 1 .. Len(q) /\ f + j - 1 = k
    BY <1>1, <2>1
  <2>3. QED
    BY <1>1, <2>1, <2>2
<1>4. \A k \in 1 .. Len(q) : f + k - 1 \in f .. e
  BY <1>1
<1>5. QED
  BY <1>1, <1>2, <1>3, <1>4

\* What is true of the characters of a piece
LEMMA PieceAll ==
  ASSUME NEW q, NEW s, NEW f, NEW e, Piece(q, s, f, e), NEW D
  PROVE  /\ (\A k \in 1 .. Len(q) : q[k] \in D) <=> (\A k \in f .. e : s[k] \in D)
         /\ f <= e => q[1] = s[f] /\ 1 \in 1 .. Len(q) /\ q[Len(q)] = s[e]
<1>1. /\ f \in Nat \ {0} /\ e \in Nat /\ f <= e + 1
      /\ Len(q) \in Nat /\ Len(q) = e - f + 1
      /\ \A k \in f .. e : k - f + 1 \in 1 .. Len(q) /\ q[k - f + 1] = s[k]
      /\ \A k \in 1 .. Len(q) : f + k - 1 \in f .. e /\ q[k] = s[f + k - 1]
  BY PieceAt
<1>2. ASSUME \A k \in 1 .. Len(q) : q[k] \in D, NEW k \in f .. e PROVE s[k] \in D
  <2>1. PICK j : j = k - f + 1
    OBVIOUS
  <2>2. j \in 1 .. Len(q) /\ q[j] = s[k]
    BY <1>1, <2>1
  <2>3. QED
    BY <1>2, <2>2
<1>3. ASSUME \A k \in f .. e : s[k] \in D, NEW k \in 1 .. Len(q) PROVE q[k] \in D
  <2>1. PICK j : j = f + k - 1
    OBVIOUS
  <2>2. j \in f .. e /\ q[k] = s[j]
    BY <1>1, <2>1
  <2>3. QED
    BY <1>3, <2>2
<1>4. ASSUME f <= e PROVE q[1] = s[f] /\ 1 \in 1 .. Len(q) /\ q[Len(q)] = s[e]
  <2>1. 1 \in 1 .. Len(q) /\ Len(q) \in 1 .. Len(q) /\ f + 1 - 1 = f /\ f + Len(q) - 1 = e
    BY <1>1, <1>4
  <2>2. QED
    BY <1>1, <2>1
<1>5. QED
  BY <1>2, <1>3, <1>4


\* Digits, by the characters of the source
LEMMA DigitsPiece ==
  ASSUME NEW q, NEW s, NEW f, NEW e, Piece(q, s, f, e)
  PROVE  IsDigits(q) <=> DigitsAt(s, f, e)
<1>1. q # <<>> <=> f <= e
  BY PieceAt
<1>2. (\A k \in 1 .. Len(q) : q[k] \in Digit) <=> (\A k \in f .. e : s[k] \in Digit)
  BY PieceAll
<1>3. QED
  BY <1>1, <1>2 DEF IsDigits, DigitsAt


\* Names
LEMMA NamePiece ==
  ASSUME NEW q, NEW s, NEW f, NEW e, Piece(q, s, f, e)
  PROVE  IsName(q) <=> NameAt(s, f, e)
<1>1. q # <<>> <=> f <= e
  BY PieceAt
<1>2. (\A k \in 1 .. Len(q) : q[k] \in Alnum) <=> (\A k \in f .. e : s[k] \in Alnum)
  BY PieceAll
<1>3. f <= e => q[1] = s[f]
  BY PieceAll
<1>4. QED
  BY <1>1, <1>2, <1>3 DEF IsName, NameAt

\* Numbers with a fraction: the point of the piece is a point of the source.
LEMMA FractionPiece ==
  ASSUME NEW q, NEW s, NEW f, NEW e, Piece(q, s, f, e)
  PROVE  IsFraction(q) <=> FractionAt(s, f, e)
<1>1. /\ f \in Nat \ {0} /\ e \in Nat /\ f <= e + 1
      /\ Len(q) \in Nat /\ Len(q) = e - f + 1
      /\ \A k \in f .. e : k - f + 1 \in 1 .. Len(q) /\ q[k - f + 1] = s[k]
      /\ \A k \in 1 .. Len(q) : f + k - 1 \in f .. e /\ q[k] = s[f + k - 1]
  BY PieceAt
<1>2. ASSUME NEW d \in 2 .. Len(q) - 1, NEW c, c = f + d - 1
      PROVE  /\ c \in f + 1 .. e - 1 /\ q[d] = s[c]
             /\ IsDigits(SubSeq(q, 1, d - 1)) <=> \A k \in f .. c - 1 : s[k] \in Digit
             /\ IsDigits(SubSeq(q, d + 1, Len(q))) <=> \A k \in c + 1 .. e : s[k] \in Digit
  <2>1. c \in f + 1 .. e - 1 /\ d \in 1 .. Len(q) /\ c \in Nat
    BY <1>1, <1>2
  <2>2. q[d] = s[c]
    BY <1>1, <1>2, <2>1
  <2>3. Piece(SubSeq(q, 1, d - 1), s, f, c - 1)
    <3>1. PICK b, g, h : b = d - 1 /\ g = f + 1 - 1 /\ h = f + b - 1
      OBVIOUS
    <3>2. b \in Nat /\ g = f /\ h = c - 1 /\ 1 <= b + 1 /\ b <= Len(q) /\ 1 \in Nat \ {0}
      BY <1>1, <1>2, <3>1
    <3>3. Piece(SubSeq(q, 1, b), s, g, h)
      BY <3>1, <3>2, PieceOf
    <3>4. QED
      BY <3>1, <3>2, <3>3
  <2>4. Piece(SubSeq(q, d + 1, Len(q)), s, c + 1, e)
    <3>1. PICK a, b, g, h : a = d + 1 /\ b = Len(q) /\ g = f + a - 1 /\ h = f + b - 1
      OBVIOUS
    <3>2. a \in Nat \ {0} /\ b \in Nat /\ g = c + 1 /\ h = e /\ a <= b + 1 /\ b <= Len(q)
      BY <1>1, <1>2, <3>1
    <3>3. Piece(SubSeq(q, a, b), s, g, h)
      BY <3>1, <3>2, PieceOf
    <3>4. QED
      BY <3>1, <3>2, <3>3
  <2>5. f <= c - 1 /\ c + 1 <= e
    BY <1>1, <2>1
  <2>6. QED
    BY <2>1, <2>2, <2>3, <2>4, <2>5, DigitsPiece DEF DigitsAt
<1>3. ASSUME NEW c \in f + 1 .. e - 1
      PROVE  (\A k \in f .. e : k = c \/ s[k] \in Digit) <=>
                /\ \A k \in f .. c - 1 : s[k] \in Digit
                /\ \A k \in c + 1 .. e : s[k] \in Digit
  <2>1. \A k \in f .. e : k = c \/ k \in f .. c - 1 \/ k \in c + 1 .. e
    BY <1>1
  <2>2. \A k \in f .. c - 1 : k \in f .. e /\ k # c
    BY <1>1
  <2>3. \A k \in c + 1 .. e : k \in f .. e /\ k # c
    BY <1>1
  <2>4. QED
    BY <2>1, <2>2, <2>3
<1>4. ASSUME IsFraction(q) PROVE FractionAt(s, f, e)
  <2>1. PICK d \in 2 .. Len(q) - 1 :
          q[d] = "." /\ IsDigits(SubSeq(q, 1, d - 1)) /\ IsDigits(SubSeq(q, d + 1, Len(q)))
    BY <1>4 DEF IsFraction
  <2>2. PICK c : c = f + d - 1
    OBVIOUS
  <2>3. /\ c \in f + 1 .. e - 1 /\ s[c] = "."
        /\ \A k \in f .. c - 1 : s[k] \in Digit
        /\ \A k \in c + 1 .. e : s[k] \in Digit
    BY <1>2, <2>1, <2>2
  <2>4. QED
    BY <1>3, <2>3 DEF FractionAt
<1>5. ASSUME FractionAt(s, f, e) PROVE IsFraction(q)
  <2>1. PICK c \in f + 1 .. e - 1 : s[c] = "." /\ \A k \in f .. e : k = c \/ s[k] \in Digit
    BY <1>5 DEF FractionAt
  <2>2. PICK d : d = c - f + 1
    OBVIOUS
  <2>3. d \in 2 .. Len(q) - 1 /\ c = f + d - 1
    BY <1>1, <2>2
  <2>4. /\ \A k \in f .. c - 1 : s[k] \in Digit
        /\ \A k \in c + 1 .. e : s[k] \in Digit
    BY <1>3, <2>1
  <2>5. q[d] = "." /\ IsDigits(SubSeq(q, 1, d - 1)) /\ IsDigits(SubSeq(q, d + 1, Len(q)))
    BY <1>2, <2>1, <2>3, <2>4
  <2>6. QED
    BY <2>3, <2>5 DEF IsFraction
<1>6. QED
  BY <1>4, <1>5

\* The backslashes before a position of a piece
LEMMA EscapedPiece ==
  ASSUME NEW q, NEW s, NEW f, NEW e, Piece(q, s, f, e), s[f] # "\\",
         NEW k \in 2 .. Len(q), NEW p, p = f + k - 1
  PROVE  Escaped(q, k) <=> EscapedAt(s, f, p)
<1>1. /\ f \in Nat \ {0} /\ e \in Nat /\ f <= e + 1
      /\ Len(q) \in Nat /\ Len(q) = e - f + 1
      /\ \A j \in f .. e : j - f + 1 \in 1 .. Len(q) /\ q[j - f + 1] = s[j]
      /\ \A j \in 1 .. Len(q) : f + j - 1 \in f .. e /\ q[j] = s[f + j - 1]
  BY PieceAt
<1>2. k \in Nat /\ p \in f + 1 .. e /\ p \in Nat
  BY <1>1
<1>3. ASSUME NEW b \in 2 .. k - 1, NEW c, c = f + b - 1
      PROVE  /\ c \in f + 1 .. p - 1 /\ p - c = k - b /\ q[b - 1] = s[c - 1]
             /\ (\A j \in b .. k - 1 : q[j] = "\\") <=> (\A j \in c .. p - 1 : s[j] = "\\")
  <2>1. c \in f + 1 .. p - 1 /\ p - c = k - b
    BY <1>1, <1>2, <1>3
  <2>2. q[b - 1] = s[c - 1]
    <3>1. PICK x : x = b - 1
      OBVIOUS
    <3>2. x \in 1 .. Len(q) /\ f + x - 1 = c - 1
      BY <1>1, <1>2, <1>3, <3>1
    <3>3. QED
      BY <1>1, <3>1, <3>2
  <2>3. ASSUME \A j \in b .. k - 1 : q[j] = "\\", NEW j \in c .. p - 1 PROVE s[j] = "\\"
    <3>1. PICK x : x = j - f + 1
      OBVIOUS
    <3>2. x \in b .. k - 1 /\ j \in f .. e
      BY <1>1, <1>2, <1>3, <2>1, <3>1
    <3>3. QED
      BY <1>1, <2>3, <3>1, <3>2
  <2>4. ASSUME \A j \in c .. p - 1 : s[j] = "\\", NEW j \in b .. k - 1 PROVE q[j] = "\\"
    <3>1. PICK x : x = f + j - 1
      OBVIOUS
    <3>2. x \in c .. p - 1 /\ j \in 1 .. Len(q)
      BY <1>1, <1>2, <1>3, <2>1, <3>1
    <3>3. QED
      BY <1>1, <2>4, <3>1, <3>2
  <2>5. QED
    BY <2>1, <2>2, <2>3, <2>4
<1>4. ASSUME Escaped(q, k) PROVE EscapedAt(s, f, p)
  <2>1. PICK b \in 1 .. k - 1 :
          (k - b) % 2 = 1 /\ (\A j \in b .. k - 1 : q[j] = "\\") /\ q[b - 1] # "\\"
    BY <1>4 DEF Escaped
  <2>2. b # 1
    <3>1. q[1] = s[f] /\ 1 \in 1 .. k - 1
      <4>1. f <= e
        BY <1>1, <1>2
      <4>2. QED
        BY <1>2, <4>1, PieceAll
    <3>2. QED
      BY <2>1, <3>1
  <2>3. PICK c : c = f + b - 1
    OBVIOUS
  <2>4. b \in 2 .. k - 1
    BY <1>2, <2>2
  <2>5. /\ c \in f + 1 .. p - 1 /\ p - c = k - b /\ s[c - 1] # "\\"
        /\ \A j \in c .. p - 1 : s[j] = "\\"
    BY <1>3, <2>1, <2>3, <2>4
  <2>6. c \in f + 1 .. p
    BY <1>1, <1>2, <2>5
  <2>7. QED
    BY <2>1, <2>5, <2>6 DEF EscapedAt, Slashes
<1>5. ASSUME EscapedAt(s, f, p) PROVE Escaped(q, k)
  <2>1. PICK c \in f + 1 .. p : /\ (p - c) % 2 = 1 /\ s[c - 1] # "\\"
                                /\ \A j \in c .. p - 1 : s[j] = "\\"
    BY <1>5 DEF EscapedAt, Slashes
  <2>2. c # p
    <3>1. ASSUME c = p PROVE FALSE
      BY <1>2, <2>1, <3>1
    <3>2. QED
      BY <3>1
  <2>3. PICK b : b = c - f + 1
    OBVIOUS
  <2>4. b \in 2 .. k - 1 /\ b \in 1 .. k - 1 /\ c = f + b - 1
    BY <1>1, <1>2, <2>2, <2>3
  <2>5. p - c = k - b /\ q[b - 1] # "\\" /\ \A j \in b .. k - 1 : q[j] = "\\"
    BY <1>3, <2>1, <2>4
  <2>6. QED
    BY <2>1, <2>4, <2>5 DEF Escaped
<1>6. QED
  BY <1>4, <1>5


\* Literals
LEMMA LiteralPiece ==
  ASSUME NEW q, NEW s, NEW f, NEW e, Piece(q, s, f, e), f <= e
  PROVE  IsLiteral(q) <=> LiteralAt(s, f, e)
<1>1. /\ f \in Nat \ {0} /\ e \in Nat
      /\ Len(q) \in Nat /\ Len(q) = e - f + 1
      /\ \A k \in f .. e : k - f + 1 \in 1 .. Len(q) /\ q[k - f + 1] = s[k]
      /\ \A k \in 1 .. Len(q) : f + k - 1 \in f .. e /\ q[k] = s[f + k - 1]
  BY PieceAt
<1>2. q[1] = s[f] /\ q[Len(q)] = s[e] /\ (Len(q) > 1 <=> f < e)
  BY <1>1, PieceAll
<1>3. SUFFICES ASSUME s[f] \in Quotes
               PROVE  (\A k \in 2 .. Len(q) : q[k] = q[1] => (Escaped(q, k) <=> k < Len(q)))
                        <=> (\A k \in f + 1 .. e : s[k] = s[f] => (EscapedAt(s, f, k) <=> k < e))
  BY <1>2 DEF IsLiteral, LiteralAt
<1>4. s[f] # "\\"
  BY <1>3 DEF Quotes
<1>5. ASSUME NEW k \in 2 .. Len(q), NEW p, p = f + k - 1
      PROVE  /\ p \in f + 1 .. e /\ q[k] = s[p] /\ (k < Len(q) <=> p < e)
             /\ Escaped(q, k) <=> EscapedAt(s, f, p)
  <2>1. p \in f + 1 .. e /\ (k < Len(q) <=> p < e) /\ k \in 1 .. Len(q)
    BY <1>1, <1>5
  <2>2. q[k] = s[p]
    BY <1>1, <1>5, <2>1
  <2>3. Escaped(q, k) <=> EscapedAt(s, f, p)
    BY <1>4, <1>5, EscapedPiece
  <2>4. QED
    BY <2>1, <2>2, <2>3
<1>6. ASSUME NEW p \in f + 1 .. e
      PROVE  \E k \in 2 .. Len(q) : p = f + k - 1
  <2>1. PICK k : k = p - f + 1
    OBVIOUS
  <2>2. k \in 2 .. Len(q) /\ p = f + k - 1
    BY <1>1, <2>1
  <2>3. QED
    BY <2>2
<1>7. ASSUME \A k \in 2 .. Len(q) : q[k] = q[1] => (Escaped(q, k) <=> k < Len(q)),
             NEW p \in f + 1 .. e, s[p] = s[f]
      PROVE  EscapedAt(s, f, p) <=> p < e
  <2>1. PICK k \in 2 .. Len(q) : p = f + k - 1
    BY <1>6
  <2>2. QED
    BY <1>2, <1>5, <1>7, <2>1
<1>8. ASSUME \A p \in f + 1 .. e : s[p] = s[f] => (EscapedAt(s, f, p) <=> p < e),
             NEW k \in 2 .. Len(q), q[k] = q[1]
      PROVE  Escaped(q, k) <=> k < Len(q)
  <2>1. PICK p : p = f + k - 1
    OBVIOUS
  <2>2. QED
    BY <1>2, <1>5, <1>8, <2>1
<1>9. QED
  BY <1>7, <1>8

\* A short sequence, element by element
LEMMA Elements ==
  ASSUME NEW S, NEW q \in Seq(S)
  PROVE  /\ Len(q) = 2 => q = <<q[1], q[2]>>
         /\ Len(q) = 3 => q = <<q[1], q[2], q[3]>>
OBVIOUS

\* The operators, by their characters
LEMMA PairPiece ==
  ASSUME NEW q, NEW s, NEW f, NEW e, Piece(q, s, f, e), f <= e
  PROVE  /\ q \in Pairs <=> (e = f + 1 /\ <<s[f], s[f + 1]>> \in Pairs)
         /\ q = <<".", ".", ".">> <=> (e = f + 2 /\ s[f] = "." /\ s[f + 1] = "." /\ s[f + 2] = ".")
<1>1. PICK n : n = Len(q)
  OBVIOUS
<1>2. /\ f \in Nat /\ e \in Nat /\ q \in Seq(STRING) /\ n = e - f + 1
      /\ \A k \in 1 .. n : q[k] = s[f + k - 1]
  BY <1>1, PieceAt
<1>3. f \in Nat /\ e \in Nat /\ n = e - f + 1
  BY <1>2
<1>4. (n = 2 <=> e = f + 1) /\ (n = 3 <=> e = f + 2)
  BY <1>3
<1>5. f + 1 - 1 = f /\ f + 2 - 1 = f + 1 /\ f + 3 - 1 = f + 2
  BY <1>3
<1>6. n \in {2, 3} => q[1] = s[f] /\ q[2] = s[f + 1]
  <2>1. n \in {2, 3} => 1 \in 1 .. n /\ 2 \in 1 .. n
    OBVIOUS
  <2>2. QED
    BY <1>2, <1>5, <2>1
<1>7. n = 3 => q[3] = s[f + 2]
  BY <1>2, <1>5
<1>8. /\ n = 2 => q = <<q[1], q[2]>>
      /\ n = 3 => q = <<q[1], q[2], q[3]>>
  BY <1>1, <1>2, Elements
<1>9. q \in Pairs => n = 2
  BY <1>1 DEF Pairs
<1>10. q \in Pairs <=> (e = f + 1 /\ <<s[f], s[f + 1]>> \in Pairs)
  BY <1>4, <1>6, <1>8, <1>9
<1>11. q = <<".", ".", ".">> => n = 3 /\ q[1] = "." /\ q[2] = "." /\ q[3] = "."
  BY <1>1
<1>12. n = 3 /\ q[1] = "." /\ q[2] = "." /\ q[3] = "." => q = <<".", ".", ".">>
  BY <1>8
<1>13. QED
  BY <1>4, <1>6, <1>7, <1>10, <1>11, <1>12

\* A piece is a lexeme as the positions say.
LEMMA LexemePiece ==
  ASSUME NEW q, NEW s, NEW f, NEW e, Piece(q, s, f, e), f <= e
  PROVE  Lexeme(q) <=> LexemeAt(s, f, e)
<1>1. /\ f \in Nat \ {0} /\ e \in Nat /\ q \in Seq(STRING) /\ q # <<>>
      /\ Len(q) \in Nat \ {0} /\ Len(q) = e - f + 1
      /\ q[1] = s[f] /\ q[Len(q)] = s[e]
  <2>1. /\ f \in Nat \ {0} /\ e \in Nat /\ q \in Seq(STRING) /\ (q = <<>> <=> e = f - 1)
        /\ Len(q) \in Nat /\ Len(q) = e - f + 1
    BY PieceAt
  <2>2. q[1] = s[f] /\ q[Len(q)] = s[e]
    BY PieceAll
  <2>3. QED
    BY <2>1, <2>2
<1>2. Len(q) = 1 <=> e = f
  BY <1>1
<1>3. IsFraction(SubSeq(q, 1, Len(q) - 1)) <=> FractionAt(s, f, e - 1)
  <2>1. PICK b, g, h : b = Len(q) - 1 /\ g = f + 1 - 1 /\ h = f + b - 1
    OBVIOUS
  <2>2. b \in Nat /\ g = f /\ h = e - 1 /\ 1 \in Nat \ {0} /\ 1 <= b + 1 /\ b <= Len(q)
    BY <1>1, <2>1
  <2>3. Piece(SubSeq(q, 1, b), s, g, h)
    BY <2>1, <2>2, PieceOf
  <2>4. IsFraction(SubSeq(q, 1, b)) <=> FractionAt(s, g, h)
    BY <2>3, FractionPiece
  <2>5. QED
    BY <2>1, <2>2, <2>4
<1>4. IsName(Tail(q)) <=> NameAt(s, f + 1, e)
  <2>1. PICK a, b, g, h : a = 2 /\ b = Len(q) /\ g = f + a - 1 /\ h = f + b - 1
    OBVIOUS
  <2>2. a \in Nat \ {0} /\ b \in Nat /\ g = f + 1 /\ h = e /\ a <= b + 1 /\ b <= Len(q)
    BY <1>1, <2>1
  <2>3. Piece(SubSeq(q, a, b), s, g, h)
    BY <2>1, <2>2, PieceOf
  <2>4. IsName(SubSeq(q, a, b)) <=> NameAt(s, g, h)
    BY <2>3, NamePiece
  <2>5. Tail(q) = SubSeq(q, a, b)
    BY <1>1, <2>1, TailIsSubSeq
  <2>6. QED
    BY <2>2, <2>4, <2>5
<1>5. /\ IsDigits(q) <=> DigitsAt(s, f, e)
      /\ IsFraction(q) <=> FractionAt(s, f, e)
      /\ IsName(q) <=> NameAt(s, f, e)
      /\ IsLiteral(q) <=> LiteralAt(s, f, e)
  BY DigitsPiece, FractionPiece, NamePiece, LiteralPiece
<1>6. /\ q \in Pairs <=> (e = f + 1 /\ <<s[f], s[f + 1]>> \in Pairs)
      /\ q = <<".", ".", ".">> <=> (e = f + 2 /\ s[f] = "." /\ s[f + 1] = "." /\ s[f + 2] = ".")
  BY PairPiece
<1>7. QED
  BY <1>1, <1>2, <1>3, <1>4, <1>5, <1>6, Zenon DEF Lexeme, LexemeAt

\* The classes of characters do not overlap.
LEMMA Classes ==
  /\ \A c \in Quotes : c \notin Digit \union Alpha \union Singles \union {"@", "EOF", ".", "\\"}
  /\ \A c \in Digit : c \notin Alpha \union Singles \union {"@", "EOF", ".", "\\"} \union Quotes
  /\ \A c \in Alpha : c \notin Digit \union Singles \union {"@", "EOF", ".", "\\"} \union Quotes
  /\ \A c \in Singles \union {"EOF", "@"} : c \notin Alnum \union Quotes
  /\ \A c \in Singles \union {"EOF"} : c # "@"
  /\ Alnum = Alpha \union Digit
BY LexerAssumptions DEF Quotes, Alpha, Alnum, Singles, Special

\* The first character of a lexeme says what it is.
LEMMA FirstTells ==
  ASSUME NEW s, NEW f \in Nat \ {0}, NEW e \in Nat, f <= e, LexemeAt(s, f, e)
  PROVE  /\ s[f] \in Quotes => LiteralAt(s, f, e)
         /\ s[f] \in Digit => \/ DigitsAt(s, f, e) \/ FractionAt(s, f, e)
                              \/ FractionAt(s, f, e - 1) /\ s[e] = "f"
         /\ s[f] \in Alpha => NameAt(s, f, e)
         /\ s[f] = "@" => NameAt(s, f + 1, e)
         /\ s[f] \in Singles \union {"EOF"} =>
              \/ e = f
              \/ e = f + 1 /\ <<s[f], s[f + 1]>> \in Pairs
              \/ e = f + 2 /\ s[f] = "." /\ s[f + 1] = "." /\ s[f + 2] = "."
<1>1. DigitsAt(s, f, e) => s[f] \in Digit
  BY DEF DigitsAt
<1>2. ASSUME NEW x \in Int, FractionAt(s, f, x) PROVE s[f] \in Digit
  <2>1. PICK d \in f + 1 .. x - 1 : \A k \in f .. x : k = d \/ s[k] \in Digit
    BY <1>2 DEF FractionAt
  <2>2. f \in f .. x /\ f # d
    BY <2>1
  <2>3. QED
    BY <2>1, <2>2
<1>3. FractionAt(s, f, e) \/ FractionAt(s, f, e - 1) => s[f] \in Digit
  BY <1>2
<1>4. NameAt(s, f, e) => s[f] \in Alpha
  BY DEF NameAt
<1>5. LiteralAt(s, f, e) => s[f] \in Quotes
  BY DEF LiteralAt
<1>6. \A y : <<s[f], y>> \in Pairs => s[f] \in Singles
  BY DEF Pairs, Singles
<1>7. "." \in Singles
  BY DEF Singles
<1>8. QED
  BY <1>1, <1>3, <1>4, <1>5, <1>6, <1>7, Classes DEF LexemeAt

-----------------------------------------------------------------------------
(* What has been read of a token *)

\* The part of a literal from f up to before p: every quote in it is escaped, and p is not.
InLiteral(s, f, p) ==
  /\ s[f] \in Quotes
  /\ p <= Len(s) => PlainAt(s, f, p)
  /\ \A k \in f + 1 .. p - 1 : k <= Len(s) /\ s[k] = s[f] => EscapedAt(s, f, k)

\* What the function or loop w has read of s, from f up to before p
Reads(s, w, f, p) ==
  /\ w = "number" => DigitsAt(s, f, p - 1)
  /\ w = "fraction" => FractionAt(s, f, p - 1)
  /\ w = "identifier" => NameAt(s, f, p - 1)
  /\ w = "builtin" => p = f + 1 /\ s[f] = "@"
  /\ w = "name" => s[f] = "@" /\ NameAt(s, f + 1, p - 1)
  /\ w = "string" => InLiteral(s, f, p)

ReadInv == Reads(src, pc, from, i)

\* A character is not both behind an even and behind an odd number of backslashes.
LEMMA PlainNotEscaped ==
  ASSUME NEW s, NEW f \in Nat, NEW p \in Nat, PlainAt(s, f, p)
  PROVE  ~EscapedAt(s, f, p)
<1> SUFFICES ASSUME EscapedAt(s, f, p) PROVE FALSE
  OBVIOUS
<1>1. PICK b \in f + 1 .. p : /\ (p - b) % 2 = 0 /\ s[b - 1] # "\\"
                              /\ \A j \in b .. p - 1 : s[j] = "\\"
  BY DEF PlainAt, Slashes
<1>2. PICK c \in f + 1 .. p : /\ (p - c) % 2 = 1 /\ s[c - 1] # "\\"
                              /\ \A j \in c .. p - 1 : s[j] = "\\"
  BY DEF EscapedAt, Slashes
<1>3. b # c
  BY <1>1, <1>2
<1>4. ASSUME b < c PROVE FALSE
  <2>1. c - 1 \in b .. p - 1
    BY <1>4
  <2>2. QED
    BY <1>1, <1>2, <2>1
<1>5. ASSUME c < b PROVE FALSE
  <2>1. b - 1 \in c .. p - 1
    BY <1>5
  <2>2. QED
    BY <1>1, <1>2, <2>1
<1>6. QED
  BY <1>3, <1>4, <1>5

\* Digits and names grow by a character.
LEMMA WordMore ==
  ASSUME NEW s, NEW f \in Nat, NEW p \in Nat
  PROVE  /\ DigitsAt(s, f, p - 1) /\ s[p] \in Digit => DigitsAt(s, f, p)
         /\ NameAt(s, f, p - 1) /\ s[p] \in Alnum => NameAt(s, f, p)
         /\ FractionAt(s, f, p - 1) /\ s[p] \in Digit => FractionAt(s, f, p)
         /\ DigitsAt(s, f, p - 1) /\ s[p] = "." /\ s[p + 1] \in Digit => FractionAt(s, f, p + 1)
<1>1. DigitsAt(s, f, p - 1) /\ s[p] \in Digit => DigitsAt(s, f, p)
  BY DEF DigitsAt
<1>2. NameAt(s, f, p - 1) /\ s[p] \in Alnum => NameAt(s, f, p)
  BY DEF NameAt
<1>3. ASSUME FractionAt(s, f, p - 1), s[p] \in Digit PROVE FractionAt(s, f, p)
  <2>1. PICK d \in f + 1 .. p - 1 - 1 : s[d] = "." /\ \A k \in f .. p - 1 : k = d \/ s[k] \in Digit
    BY <1>3 DEF FractionAt
  <2>2. d \in f + 1 .. p - 1
    BY <2>1
  <2>3. \A k \in f .. p : k = d \/ s[k] \in Digit
    BY <1>3, <2>1
  <2>4. QED
    BY <2>1, <2>2, <2>3 DEF FractionAt
<1>4. ASSUME DigitsAt(s, f, p - 1), s[p] = ".", s[p + 1] \in Digit PROVE FractionAt(s, f, p + 1)
  <2>1. f <= p - 1 /\ \A k \in f .. p - 1 : s[k] \in Digit
    BY <1>4 DEF DigitsAt
  <2>2. p \in f + 1 .. p + 1 - 1
    BY <2>1
  <2>3. \A k \in f .. p + 1 : k = p \/ s[k] \in Digit
    BY <1>4, <2>1
  <2>4. QED
    BY <1>4, <2>2, <2>3 DEF FractionAt
<1>5. QED
  BY <1>1, <1>2, <1>3, <1>4

\* A literal begins with its quote.
LEMMA LiteralBegins ==
  ASSUME NEW s, NEW f \in Nat, s[f] \in Quotes
  PROVE  InLiteral(s, f, f + 1)
<1>1. s[f] # "\\"
  BY DEF Quotes
<1>2. PICK p : p = f + 1
  OBVIOUS
<1>3. p \in f + 1 .. p /\ p - 1 = f /\ (p - p) % 2 = 0
  BY <1>2
<1>4. Slashes(s, f, p, p)
  BY <1>1, <1>2, <1>3 DEF Slashes
<1>5. PlainAt(s, f, p)
  BY <1>3, <1>4 DEF PlainAt
<1>6. \A k \in f + 1 .. p - 1 : FALSE
  BY <1>2
<1>7. QED
  BY <1>2, <1>5, <1>6 DEF InLiteral

\* It goes on with a character that is neither a backslash nor its quote, or with anything
\* behind the end of the source.
LEMMA LiteralMore ==
  ASSUME NEW s, NEW f \in Nat, NEW p \in Nat, f < p, Len(s) \in Nat, InLiteral(s, f, p),
         p <= Len(s) => s[p] # "\\" /\ s[p] # s[f]
  PROVE  InLiteral(s, f, p + 1)
<1>1. PICK g : g = p + 1
  OBVIOUS
<1>2. ASSUME g <= Len(s) PROVE PlainAt(s, f, g)
  <2>1. g \in f + 1 .. g /\ g - 1 = p /\ (g - g) % 2 = 0 /\ p <= Len(s)
    BY <1>1, <1>2
  <2>2. Slashes(s, f, g, g)
    BY <2>1, <1>1 DEF Slashes
  <2>3. QED
    BY <2>1, <2>2 DEF PlainAt
<1>3. ASSUME NEW k \in f + 1 .. g - 1, k <= Len(s), s[k] = s[f] PROVE EscapedAt(s, f, k)
  <2>1. k # p
    BY <1>3
  <2>2. k \in f + 1 .. p - 1
    BY <1>1, <2>1
  <2>3. QED
    BY <1>3, <2>2 DEF InLiteral
<1>4. s[f] \in Quotes
  BY DEF InLiteral
<1>5. InLiteral(s, f, g)
  BY <1>2, <1>3, <1>4 DEF InLiteral
<1>6. QED
  BY <1>1, <1>5

\* It goes on with a backslash and what stands behind it.
LEMMA LiteralEscape ==
  ASSUME NEW s, NEW f \in Nat, NEW p \in Nat, f < p, Len(s) \in Nat, InLiteral(s, f, p),
         s[p] = "\\", p + 1 <= Len(s)
  PROVE  InLiteral(s, f, p + 2)
<1>1. s[f] \in Quotes /\ s[f] # "\\" /\ p <= Len(s)
  <2>1. p <= Len(s)
    OBVIOUS
  <2>2. s[f] \in Quotes
    BY DEF InLiteral
  <2>3. QED
    BY <2>1, <2>2 DEF Quotes
<1>2. PICK b \in f + 1 .. p : /\ (p - b) % 2 = 0 /\ s[b - 1] # "\\"
                              /\ \A j \in b .. p - 1 : s[j] = "\\"
  BY <1>1 DEF InLiteral, PlainAt, Slashes
<1>3. PICK g, h : g = p + 1 /\ h = p + 2
  OBVIOUS
<1>4. EscapedAt(s, f, g)
  <2>1. b \in f + 1 .. g /\ (g - b) % 2 = 1
    BY <1>2, <1>3
  <2>2. \A j \in b .. g - 1 : s[j] = "\\"
    BY <1>2, <1>3
  <2>3. QED
    BY <1>2, <2>1, <2>2 DEF EscapedAt, Slashes
<1>5. PlainAt(s, f, h)
  <2>1. CASE s[g] = "\\"
    <3>1. b \in f + 1 .. h /\ (h - b) % 2 = 0
      BY <1>2, <1>3
    <3>2. \A j \in b .. h - 1 : s[j] = "\\"
      BY <1>2, <1>3, <2>1
    <3>3. QED
      BY <1>2, <3>1, <3>2 DEF PlainAt, Slashes
  <2>2. CASE s[g] # "\\"
    <3>1. h \in f + 1 .. h /\ (h - h) % 2 = 0 /\ h - 1 = g
      BY <1>3
    <3>2. Slashes(s, f, h, h)
      BY <2>2, <3>1, <1>3 DEF Slashes
    <3>3. QED
      BY <3>1, <3>2 DEF PlainAt
  <2>3. QED
    BY <2>1, <2>2
<1>6. ASSUME NEW k \in f + 1 .. h - 1, k <= Len(s), s[k] = s[f] PROVE EscapedAt(s, f, k)
  <2>1. k # p
    BY <1>1, <1>6
  <2>2. k \in f + 1 .. p - 1 \/ k = g
    BY <1>3, <2>1
  <2>3. QED
    BY <1>4, <1>6, <2>2 DEF InLiteral
<1>7. InLiteral(s, f, h)
  BY <1>1, <1>5, <1>6 DEF InLiteral
<1>8. QED
  BY <1>3, <1>7

-----------------------------------------------------------------------------
(* Every step keeps what has been read the beginning of a token *)

\* Outside the functions that read a token nothing is claimed.
LEMMA ReadsNothing ==
  ASSUME NEW s, NEW w, NEW f, NEW p, w \in {"main", "comment"}
  PROVE  Reads(s, w, f, p)
BY DEF Reads


\* The first character is the beginning of its kind of token.
LEMMA StartsReads == IInv /\ Starts => ReadInv'
<1> SUFFICES ASSUME IInv, Starts
             PROVE  Reads(src, pc', i, i + 1)
  BY DEF Starts, ReadInv
<1>1. i \in Nat \ {0} /\ src[i] = At(i)
  BY Basics DEF Starts, InMain, At
<1>2. i \in i .. i + 1 - 1 /\ \A k \in i .. i + 1 - 1 : k = i
  BY <1>1
<1>3. CASE At(i) \in Digit /\ pc' = "number"
  BY <1>1, <1>2, <1>3 DEF Reads, DigitsAt
<1>4. CASE At(i) \in Alpha /\ pc' = "identifier"
  BY <1>1, <1>2, <1>4 DEF Reads, NameAt, Alnum
<1>5. CASE At(i) \in Quotes /\ pc' = "string"
  <2>1. InLiteral(src, i, i + 1)
    BY <1>1, <1>5, LiteralBegins
  <2>2. QED
    BY <1>5, <2>1 DEF Reads
<1>6. CASE At(i) = "@" /\ pc' = "builtin"
  BY <1>1, <1>6 DEF Reads
<1>7. QED
  BY <1>3, <1>4, <1>5, <1>6 DEF Starts


\* A string goes on as a literal does.
LEMMA StringReads == IInv /\ ReadInv /\ (StringChar \/ StringEscape) => ReadInv'
<1> SUFFICES ASSUME IInv, ReadInv, StringChar \/ StringEscape
             PROVE  ReadInv'
  OBVIOUS
<1>1. pc = "string" /\ pc' = "string" /\ from' = from /\ src' = src
  BY DEF StringChar, StringEscape, Reading
<1>2. InLiteral(src, from, i)
  BY <1>1 DEF ReadInv, Reads
<1>3. from \in Nat /\ i \in Nat /\ from < i /\ from < Len(src) /\ Len(src) \in Nat
  BY <1>1, InToken, Basics DEF Loops
<1>4. CASE StringChar
  <2>1. i <= Len(src) => src[i] # "\\" /\ src[i] # src[from]
    BY <1>4 DEF StringChar, Quote, At
  <2>2. InLiteral(src, from, i + 1)
    BY <1>2, <1>3, <2>1, LiteralMore
  <2>3. i' = i + 1
    BY <1>4 DEF StringChar
  <2>4. QED
    BY <1>1, <2>2, <2>3 DEF ReadInv, Reads
<1>5. CASE StringEscape
  <2>1. At(i) = "\\" /\ At(i + 1) \in Escapes /\ i' = i + 2
    BY <1>5 DEF StringEscape
  <2>2. At(i) \notin {"EOF", "NUL"} /\ At(i + 1) \notin {"EOF", "NUL"}
    BY <2>1 DEF Escapes
  <2>3. i \in Nat \ {0} /\ i + 1 \in Nat \ {0}
    BY <1>3
  <2>4. src[i] = "\\" /\ i + 1 <= Len(src)
    <3>1. At(i) = src[i]
      BY <2>2, <2>3, Inside, Basics
    <3>2. i + 1 < Len(src)
      BY <2>2, <2>3, Inside, Basics
    <3>3. QED
      BY <1>3, <2>1, <3>1, <3>2
  <2>5. InLiteral(src, from, i + 2)
    BY <1>2, <1>3, <2>4, LiteralEscape
  <2>6. QED
    BY <1>1, <2>1, <2>5 DEF ReadInv, Reads
<1>6. QED
  BY <1>4, <1>5


\* Numbers and names go on as lexemes do.
LEMMA WordReads == IInv /\ ReadInv /\ (NumberDigit \/ NumberDot \/ NameChar \/ BuiltinStart) => ReadInv'
<1> SUFFICES ASSUME IInv, ReadInv, NumberDigit \/ NumberDot \/ NameChar \/ BuiltinStart
             PROVE  ReadInv'
  OBVIOUS
<1>1. pc \in {"number", "fraction", "identifier", "name", "builtin"} /\ from' = from /\ src' = src
  BY DEF NumberDigit, NumberDot, NameChar, BuiltinStart, Reading, Advance, Stop
<1>2. /\ from \in Nat /\ from + 1 \in Nat /\ i \in Nat /\ i + 1 - 1 = i /\ i + 2 - 1 = i + 1
      /\ from < i /\ i <= Len(src) /\ Len(src) \in Nat
  BY <1>1, InToken, Basics DEF Loops
<1>3. At(i) = src[i]
  BY <1>2 DEF At
<1>4. Reads(src, pc, from, i)
  BY DEF ReadInv
<1>5. CASE NumberDigit
  <2>1. pc' = pc /\ i' = i + 1 /\ pc \in {"number", "fraction"} /\ src[i] \in Digit
    BY <1>3, <1>5 DEF NumberDigit, Advance, Reading
  <2>2. DigitsAt(src, from, i - 1) => DigitsAt(src, from, i)
    BY <1>2, <2>1, WordMore
  <2>3. FractionAt(src, from, i - 1) => FractionAt(src, from, i)
    BY <1>2, <2>1, WordMore
  <2>4. Reads(src, pc, from, i + 1)
    BY <1>2, <1>4, <2>1, <2>2, <2>3 DEF Reads
  <2>5. QED
    BY <1>1, <2>1, <2>4 DEF ReadInv
<1>6. CASE NameChar
  <2>1. pc' = pc /\ i' = i + 1 /\ pc \in {"identifier", "name"} /\ src[i] \in Alnum
    BY <1>3, <1>6 DEF NameChar, Advance, Reading
  <2>2. NameAt(src, from, i - 1) => NameAt(src, from, i)
    BY <1>2, <2>1, WordMore
  <2>3. NameAt(src, from + 1, i - 1) => NameAt(src, from + 1, i)
    BY <1>2, <2>1, WordMore
  <2>4. Reads(src, pc, from, i + 1)
    BY <1>2, <1>4, <2>1, <2>2, <2>3 DEF Reads
  <2>5. QED
    BY <1>1, <2>1, <2>4 DEF ReadInv
<1>7. CASE BuiltinStart
  <2>1. pc = "builtin" /\ pc' = "name" /\ i' = i + 1 /\ src[i] \in Alpha
    BY <1>3, <1>7 DEF BuiltinStart, Reading
  <2>2. src[from] = "@" /\ i = from + 1
    BY <1>4, <2>1 DEF Reads
  <2>3. NameAt(src, i, i)
    <3>1. i <= i /\ \A k \in i .. i : k = i
      BY <1>2
    <3>2. QED
      BY <2>1, <3>1 DEF NameAt, Alnum
  <2>4. Reads(src, "name", from, i + 1)
    BY <1>2, <2>2, <2>3 DEF Reads
  <2>5. QED
    BY <1>1, <2>1, <2>4 DEF ReadInv
<1>8. CASE NumberDot
  <2>1. CASE At(i + 1) \notin Digit
    BY <1>8, <2>1 DEF NumberDot, Stop, ReadInv
  <2>2. CASE At(i + 1) \in Digit
    <3>1. pc = "number" /\ pc' = "fraction" /\ i' = i + 2 /\ src[i] = "."
      BY <1>3, <1>8, <2>2 DEF NumberDot, Reading
    <3>2. At(i + 1) = src[i + 1]
      <4>1. At(i + 1) \in Alnum /\ i + 1 \in Nat \ {0}
        BY <1>2, <2>2 DEF Alnum
      <4>2. At(i + 1) \notin {"EOF", "NUL"}
        BY <4>1, Distinct
      <4>3. QED
        BY <4>1, <4>2, Inside, Basics
    <3>3. DigitsAt(src, from, i - 1)
      BY <1>4, <3>1 DEF Reads
    <3>4. FractionAt(src, from, i + 1)
      BY <1>2, <2>2, <3>1, <3>2, <3>3, WordMore
    <3>5. Reads(src, "fraction", from, i + 2)
      BY <1>2, <3>4 DEF Reads
    <3>6. QED
      BY <1>1, <3>1, <3>5 DEF ReadInv
  <2>3. QED
    BY <2>1, <2>2
<1>9. QED
  BY <1>5, <1>6, <1>7, <1>8


\* The rest of the steps end the token, stop, or are in none.
LEMMA ReadStep == IInv /\ ReadInv /\ [Next]_vars => ReadInv'
<1> SUFFICES ASSUME IInv, ReadInv, [Next]_vars
             PROVE  ReadInv'
  OBVIOUS
<1>1. CASE Starts
  BY <1>1, StartsReads
<1>2. CASE StringChar \/ StringEscape
  BY <1>2, StringReads
<1>3. CASE NumberDigit \/ NumberDot \/ NameChar \/ BuiltinStart
  BY <1>3, WordReads
<1>4. CASE pc' \in {"main", "comment"}
  BY <1>4, ReadsNothing DEF ReadInv
<1>5. CASE UNCHANGED <<src, pc, from, i>>
  BY <1>5 DEF ReadInv
<1>6. \/ Starts \/ StringChar \/ StringEscape \/ NumberDigit \/ NumberDot \/ NameChar \/ BuiltinStart
      \/ pc' \in {"main", "comment"} \/ UNCHANGED <<src, pc, from, i>>
  <2>1. CASE SkipSpace \/ Punctuation \/ EndOfFile \/ CommentStart \/ CommentChar \/ CommentEnd
    BY <2>1 DEF SkipSpace, Punctuation, EndOfFile, CommentStart, CommentChar, CommentEnd, InMain, Reading
  <2>2. CASE Unrecognized \/ Done \/ CommentOverrun \/ StringInvalid \/ StringOverrun
    BY <2>2 DEF Unrecognized, Done, CommentOverrun, StringInvalid, StringOverrun, Stop
  <2>3. CASE StringClose \/ NumberEnd \/ FractionEnd \/ IdentifierEnd \/ BuiltinEnd \/ BuiltinNameless
    BY <2>3 DEF StringClose, NumberEnd, FractionEnd, IdentifierEnd, BuiltinEnd, BuiltinNameless, Finish, Stop
  <2>4. CASE Over \/ UNCHANGED vars
    BY <2>4 DEF Over, vars
  <2>5. QED
    BY <2>1, <2>2, <2>3, <2>4 DEF Next
<1>7. QED
  BY <1>1, <1>2, <1>3, <1>4, <1>5, <1>6

-----------------------------------------------------------------------------
(* Tokens are as long as they can be *)

\* No lexeme that begins at f in s goes beyond the one up to e.
Longest(s, f, e) == LexemeAt(s, f, e) /\ \A x \in e + 1 .. Len(s) : ~LexemeAt(s, f, x)

\* A token in the source, the longest unless it is a '@' without a name
Good(s, t) ==
  /\ t.start \in Nat \ {0} /\ t.end \in Nat /\ t.start <= t.end /\ t.end <= Len(s)
  /\ ~Nameless(t) => Longest(s, t.start, t.end)

LongInv == \A n \in 1 .. Len(tokens) : Good(src, tokens[n])

\* The longest operator is taken.
LEMMA PunctuationLongest ==
  ASSUME IInv, Punctuation
  PROVE  Longest(src, i, i + PunctuationLength - 1) /\ i + PunctuationLength - 1 <= Len(src)
<1> DEFINE n == PunctuationLength
<1>1. i \in Nat \ {0} /\ i <= Len(src) /\ Len(src) \in Nat /\ src[i] = At(i) /\ At(i) \in Singles
  BY Basics DEF Punctuation, InMain, At
<1>2. ASSUME NEW k \in {i + 1, i + 2}, k <= Len(src) PROVE At(k) = src[k]
  BY <1>2 DEF At
<1>3. ASSUME NEW k \in {i + 1, i + 2}, At(k) \in Singles PROVE At(k) = src[k] /\ k <= Len(src)
  <2>0. k \in Nat \ {0}
    BY <1>1
  <2>1. k \in Nat \ {0} /\ At(k) \notin {"EOF", "NUL"}
    BY <1>3, <2>0, Distinct
  <2>2. k < Len(src) /\ At(k) = src[k]
    BY <2>1, Inside, Basics
  <2>3. QED
    BY <1>1, <2>1, <2>2
<1>4. ASSUME NEW x \in i + 1 .. Len(src), LexemeAt(src, i, x)
      PROVE  \/ x = i + 1 /\ <<At(i), At(i + 1)>> \in Pairs
             \/ x = i + 2 /\ At(i) = "." /\ At(i + 1) = "." /\ At(i + 2) = "."
  <2>1. x \in Nat /\ i <= x /\ x # i /\ i + 1 <= Len(src)
    BY <1>1
  <2>2. \/ x = i + 1 /\ <<src[i], src[i + 1]>> \in Pairs
        \/ x = i + 2 /\ src[i] = "." /\ src[i + 1] = "." /\ src[i + 2] = "."
    BY <1>1, <1>4, <2>1, FirstTells
  <2>3. At(i + 1) = src[i + 1]
    BY <1>2, <2>1
  <2>4. x = i + 2 => At(i + 2) = src[i + 2]
    BY <1>2
  <2>5. QED
    BY <1>1, <2>2, <2>3, <2>4
<1>5. CASE At(i) = "." /\ At(i + 1) = "." /\ At(i + 2) = "."
  <2>1. n = 3 /\ i + n - 1 = i + 2
    BY <1>1, <1>5 DEF PunctuationLength
  <2>2. "." \in Singles
    BY DEF Singles
  <2>3. i + 2 <= Len(src) /\ LexemeAt(src, i, i + 2)
    BY <1>1, <1>3, <1>5, <2>2 DEF LexemeAt
  <2>4. \A x \in i + 2 + 1 .. Len(src) : x \in i + 1 .. Len(src) /\ x # i + 1 /\ x # i + 2
    BY <1>1
  <2>5. Longest(src, i, i + 2)
    BY <1>4, <2>3, <2>4 DEF Longest
  <2>6. QED
    BY <2>1, <2>3, <2>5
<1>6. CASE At(i) # "." /\ <<At(i), At(i + 1)>> \in Pairs
  <2>1. n = 2 /\ i + n - 1 = i + 1
    BY <1>1, <1>6 DEF PunctuationLength
  <2>2. At(i + 1) \in Singles
    BY <1>6 DEF Pairs, Singles
  <2>3. i + 1 <= Len(src) /\ LexemeAt(src, i, i + 1)
    BY <1>1, <1>3, <1>6, <2>2 DEF LexemeAt
  <2>4. \A x \in i + 1 + 1 .. Len(src) : x \in i + 1 .. Len(src) /\ x # i + 1
    BY <1>1
  <2>5. Longest(src, i, i + 1)
    BY <1>4, <1>6, <2>3, <2>4 DEF Longest
  <2>6. QED
    BY <2>1, <2>3, <2>5
<1>7. CASE /\ ~(At(i) = "." /\ At(i + 1) = "." /\ At(i + 2) = ".")
           /\ ~(At(i) # "." /\ <<At(i), At(i + 1)>> \in Pairs)
  <2>1. n = 1 /\ i + n - 1 = i
    BY <1>1, <1>7 DEF PunctuationLength
  <2>2. LexemeAt(src, i, i)
    BY <1>1 DEF LexemeAt
  <2>3. At(i) = "." => <<At(i), At(i + 1)>> \notin Pairs
    BY DEF Pairs
  <2>4. Longest(src, i, i)
    BY <1>4, <1>7, <2>2, <2>3 DEF Longest
  <2>5. QED
    BY <1>1, <2>1, <2>4
<1>8. QED
  BY <1>5, <1>6, <1>7


\* Nothing is behind the end of the file.
LEMMA EndLongest ==
  ASSUME IInv, EndOfFile
  PROVE  Longest(src, i, i)
<1>1. i \in Nat \ {0} /\ i <= Len(src) /\ Len(src) \in Nat /\ src[i] = At(i) /\ At(i) = "EOF"
  BY Basics DEF EndOfFile, InMain, At
<1>2. ~(i < Len(src))
  BY <1>1, Inside, Basics
<1>3. \A x \in i + 1 .. Len(src) : FALSE
  BY <1>1, <1>2
<1>4. LexemeAt(src, i, i)
  BY <1>1 DEF LexemeAt
<1>5. QED
  BY <1>3, <1>4 DEF Longest

\* A number ends at a character that cannot go on with it.
LEMMA DigitsLongest ==
  ASSUME NEW s, NEW f \in Nat \ {0}, NEW p \in Nat, Len(s) \in Nat,
         DigitsAt(s, f, p - 1), s[p] \notin Digit \union {"."}
  PROVE  Longest(s, f, p - 1)
<1>1. f <= p - 1 /\ f \in f .. p - 1 /\ \A k \in f .. p - 1 : s[k] \in Digit
  BY DEF DigitsAt
<1>2. "." \notin Digit
  BY Classes
<1>3. ASSUME NEW x \in p .. Len(s), LexemeAt(s, f, x) PROVE FALSE
  <2>1. x \in Nat /\ f <= x /\ s[f] \in Digit /\ p \in f .. x
    BY <1>1
  <2>2. ~DigitsAt(s, f, x)
    BY <2>1 DEF DigitsAt
  <2>3. ASSUME NEW y \in p .. x PROVE ~FractionAt(s, f, y)
    <3>1. p \in f .. y
      BY <1>1
    <3>2. QED
      BY <3>1 DEF FractionAt
  <2>4. ~FractionAt(s, f, p - 1)
    <3>1. \A d \in f + 1 .. p - 1 - 1 : d \in f .. p - 1
      BY <1>1
    <3>2. QED
      BY <1>1, <1>2, <3>1 DEF FractionAt
  <2>5. x \in p .. x /\ (x - 1 \in p .. x \/ x - 1 = p - 1)
    BY <2>1
  <2>6. ~FractionAt(s, f, x) /\ ~FractionAt(s, f, x - 1)
    BY <2>3, <2>4, <2>5
  <2>7. QED
    BY <1>3, <2>1, <2>2, <2>6, FirstTells
<1>4. p - 1 + 1 = p
  OBVIOUS
<1>5. LexemeAt(s, f, p - 1)
  BY DEF LexemeAt
<1>6. QED
  BY <1>3, <1>4, <1>5 DEF Longest

\* A number with a fraction ends at a character that is no digit, which it takes when it is an f.
LEMMA FractionLongest ==
  ASSUME NEW s, NEW f \in Nat \ {0}, NEW p \in Nat, Len(s) \in Nat,
         FractionAt(s, f, p - 1), s[p] \notin Digit
  PROVE  Longest(s, f, IF s[p] = "f" THEN p ELSE p - 1)
<1>1. PICK d \in f + 1 .. p - 1 - 1 : s[d] = "." /\ \A k \in f .. p - 1 : k = d \/ s[k] \in Digit
  BY DEF FractionAt
<1>2. "." \notin Digit
  BY Classes
<1>3. s[f] \in Digit
  <2>1. f \in f .. p - 1 /\ f # d
    BY <1>1
  <2>2. QED
    BY <1>1, <2>1
<1>4. ASSUME NEW x \in Nat, p <= x, DigitsAt(s, f, x) \/ FractionAt(s, f, x) PROVE FALSE
  <2>1. p \in f .. x /\ d \in f .. x /\ p # d
    BY <1>1, <1>4
  <2>2. CASE DigitsAt(s, f, x)
    BY <2>1, <2>2 DEF DigitsAt
  <2>3. CASE FractionAt(s, f, x)
    <3>1. PICK c \in f + 1 .. x - 1 : \A k \in f .. x : k = c \/ s[k] \in Digit
      BY <2>3 DEF FractionAt
    <3>2. d = c
      BY <1>1, <1>2, <2>1, <3>1
    <3>3. QED
      BY <2>1, <3>1, <3>2
  <2>4. QED
    BY <1>4, <2>2, <2>3
<1>5. ASSUME NEW x \in Nat, p <= x, LexemeAt(s, f, x) PROVE x = p /\ s[p] = "f"
  <2>1. f <= x
    BY <1>1, <1>5
  <2>2. FractionAt(s, f, x - 1) /\ s[x] = "f"
    BY <1>3, <1>4, <1>5, <2>1, FirstTells
  <2>3. ~(p <= x - 1)
    <3>1. ASSUME p <= x - 1 PROVE FALSE
      <4>1. x - 1 \in Nat
        BY <3>1
      <4>2. QED
        BY <1>4, <2>2, <3>1, <4>1
    <3>2. QED
      BY <3>1
  <2>4. x = p
    BY <1>5, <2>3
  <2>5. QED
    BY <2>2, <2>4
<1>6. CASE s[p] = "f"
  <2>1. LexemeAt(s, f, p)
    BY <1>6 DEF LexemeAt
  <2>2. \A x \in p + 1 .. Len(s) : x \in Nat /\ p <= x /\ x # p
    OBVIOUS
  <2>3. Longest(s, f, p)
    BY <1>5, <2>1, <2>2 DEF Longest
  <2>4. QED
    BY <1>6, <2>3
<1>7. CASE s[p] # "f"
  <2>1. LexemeAt(s, f, p - 1)
    BY DEF LexemeAt
  <2>2. \A x \in p - 1 + 1 .. Len(s) : x \in Nat /\ p <= x
    OBVIOUS
  <2>3. Longest(s, f, p - 1)
    BY <1>5, <1>7, <2>1, <2>2 DEF Longest
  <2>4. QED
    BY <1>7, <2>3
<1>8. QED
  BY <1>6, <1>7

\* A name, behind a '@' or not, ends at a character that is no part of one.
LEMMA NameLongest ==
  ASSUME NEW s, NEW f \in Nat \ {0}, NEW p \in Nat, Len(s) \in Nat,
         NEW g \in Nat, NameAt(s, g, p - 1), s[p] \notin Alnum,
         g = f \/ (g = f + 1 /\ s[f] = "@")
  PROVE  Longest(s, f, p - 1)
<1>1. g <= p - 1 /\ s[g] \in Alpha
  BY DEF NameAt
<1>2. ASSUME NEW x \in p .. Len(s), LexemeAt(s, f, x) PROVE FALSE
  <2>1. x \in Nat /\ f <= x /\ p \in g .. x
    BY <1>1
  <2>2. ~NameAt(s, g, x)
    BY <2>1 DEF NameAt
  <2>3. QED
    BY <1>1, <1>2, <2>1, <2>2, FirstTells
<1>3. LexemeAt(s, f, p - 1)
  BY DEF LexemeAt
<1>4. p - 1 + 1 = p
  OBVIOUS
<1>5. QED
  BY <1>2, <1>3, <1>4 DEF Longest

\* A literal ends at its quote, when that is not escaped.
LEMMA LiteralLongest ==
  ASSUME NEW s, NEW f \in Nat \ {0}, NEW p \in Nat, f < p, Len(s) \in Nat, p <= Len(s),
         InLiteral(s, f, p), s[p] = s[f]
  PROVE  Longest(s, f, p)
<1>1. s[f] \in Quotes
  BY DEF InLiteral
<1>2. ~EscapedAt(s, f, p)
  <2>1. PlainAt(s, f, p)
    BY DEF InLiteral
  <2>2. QED
    BY <2>1, PlainNotEscaped
<1>3. LiteralAt(s, f, p)
  <2>1. ASSUME NEW k \in f + 1 .. p, s[k] = s[f] PROVE EscapedAt(s, f, k) <=> k < p
    <3>1. CASE k = p
      BY <1>2, <3>1
    <3>2. CASE k # p
      <4>1. k \in f + 1 .. p - 1 /\ k <= Len(s) /\ k < p
        BY <3>2
      <4>2. QED
        BY <2>1, <4>1 DEF InLiteral
    <3>3. QED
      BY <3>1, <3>2
  <2>2. QED
    BY <1>1, <2>1 DEF LiteralAt
<1>4. ASSUME NEW x \in p + 1 .. Len(s), LexemeAt(s, f, x) PROVE FALSE
  <2>1. x \in Nat /\ f <= x /\ p \in f + 1 .. x /\ p < x
    OBVIOUS
  <2>2. LiteralAt(s, f, x)
    BY <1>1, <1>4, <2>1, FirstTells
  <2>3. QED
    BY <1>2, <2>1, <2>2 DEF LiteralAt
<1>5. QED
  BY <1>3, <1>4 DEF Longest, LexemeAt

-----------------------------------------------------------------------------
(* A step adds no token or one that is right *)

\* The token t is added: it begins where the lexer stands, and behind it the lexer goes on.
Adds(t) ==
  /\ tokens' = Append(tokens, t) /\ t \in Token /\ Good(src, t)
  /\ pc # "comment" /\ pc' = "main" /\ i' = t.end + 1 /\ line' = line /\ t.line = line
  /\ t.start = (IF pc = "main" THEN i ELSE from)
  /\ t.offset = (IF pc = "main" THEN offset + 1 ELSE offset)
  /\ offset' = t.offset + (t.end - t.start)

\* What the main loop adds by itself
LEMMA MainAdds ==
  ASSUME IInv, pc = "main", NEW type \in Kinds, NEW content \in Seq(STRING), NEW end \in Nat,
         i <= end, end <= Len(src), Longest(src, i, end), Emit(type, content, offset + 1, i, end),
         i' = end + 1, offset' = offset + 1 + (end - i), UNCHANGED <<line, pc>>
  PROVE  \E t : Adds(t)
<1> DEFINE t == [type |-> type, content |-> content, line |-> line,
                 offset |-> offset + 1, start |-> i, end |-> end]
<1>1. /\ t \in Token /\ tokens' = Append(tokens, t)
      /\ t.start = i /\ t.end = end /\ t.line = line /\ t.offset = offset + 1
  BY Basics DEF Token, Emit
<1> HIDE DEF t
<1>2. Good(src, t)
  BY <1>1, Basics DEF Good
<1>3. Adds(t)
  BY <1>1, <1>2 DEF Adds
<1>4. QED
  BY <1>3


\* What a function that has read a token adds
LEMMA FinishAdds ==
  ASSUME IInv, pc \in Loops \ {"comment"},
         NEW type \in Kinds, NEW content \in Seq(STRING), NEW last \in Nat,
         from <= last, last <= Len(src), Longest(src, from, last) \/ (type = "builtin" /\ content = <<>>),
         Finish(type, content, last)
  PROVE  \E t : Adds(t)
<1> DEFINE t == [type |-> type, content |-> content, line |-> line,
                 offset |-> offset, start |-> from, end |-> last]
<1>1. /\ t \in Token /\ tokens' = Append(tokens, t) /\ t.type = type /\ t.content = content
      /\ t.start = from /\ t.end = last /\ t.line = line /\ t.offset = offset
  BY Basics DEF Token, Finish, Emit
<1>2. /\ i' = last + 1 /\ offset' = offset + (last - from) /\ pc' = "main" /\ line' = line
      /\ pc # "main" /\ pc # "comment"
  BY DEF Finish, Loops
<1> HIDE DEF t
<1>3. Good(src, t)
  BY <1>1, InToken DEF Good, Nameless
<1>4. Adds(t)
  BY <1>1, <1>2, <1>3 DEF Adds
<1>5. QED
  BY <1>4


\* Operators and the end of the file
LEMMA MainEmits == IInv /\ (Punctuation \/ EndOfFile) => \E t : Adds(t)
<1> SUFFICES ASSUME IInv, Punctuation \/ EndOfFile
             PROVE  \E t : Adds(t)
  OBVIOUS
<1>1. CASE Punctuation
  <2> DEFINE n == PunctuationLength
             end == i + n - 1
  <2>1. n \in 1 .. 3
    BY DEF PunctuationLength
  <2>2. Longest(src, i, end) /\ end <= Len(src)
    BY <1>1, PunctuationLongest
  <2> HIDE DEF n
  <2>3. end \in Nat /\ i <= end /\ i + n = end + 1 /\ offset + n = offset + 1 + (end - i)
    <3>1. i \in Nat \ {0} /\ offset \in Nat
      BY Basics
    <3>2. QED
      BY <2>1, <3>1
  <2>4. SubSeq(src, i, end) \in Seq(STRING)
    BY <2>2, <2>3, SubSeqProperties, Basics
  <2>5. /\ Emit("punctuation", SubSeq(src, i, end), offset + 1, i, end)
        /\ i' = i + n /\ offset' = offset + n /\ pc = "main" /\ UNCHANGED <<line, pc>>
    BY <1>1 DEF Punctuation, InMain, Reading, n
  <2>6. "punctuation" \in Kinds
    BY DEF Kinds
  <2> HIDE DEF end
  <2>7. i' = end + 1 /\ offset' = offset + 1 + (end - i)
    BY <2>3, <2>5
  <2>8. QED
    BY <2>2, <2>3, <2>4, <2>5, <2>6, <2>7, MainAdds
<1>2. CASE EndOfFile
  <2>1. /\ Emit("eof", <<>>, offset + 1, i, i) /\ i <= Len(src)
        /\ i' = i + 1 /\ offset' = offset + 1 /\ pc = "main" /\ UNCHANGED <<line, pc>>
    BY <1>2 DEF EndOfFile, InMain, Reading
  <2>2. "eof" \in Kinds /\ <<>> \in Seq(STRING)
    BY DEF Kinds
  <2>3. i \in Nat /\ i <= i /\ offset' = offset + 1 + (i - i)
    BY <2>1, Basics
  <2>4. Longest(src, i, i)
    BY <1>2, EndLongest
  <2>5. QED
    BY <2>1, <2>2, <2>3, <2>4, MainAdds
<1>3. QED
  BY <1>1, <1>2


\* Numbers
LEMMA WordEmits == IInv /\ ReadInv /\ (NumberEnd \/ FractionEnd) => \E t : Adds(t)
<1> SUFFICES ASSUME IInv, ReadInv, NumberEnd \/ FractionEnd
             PROVE  \E t : Adds(t)
  OBVIOUS
<1>1. pc \in Loops \ {"comment", "string"} /\ pc \in Loops \ {"comment"} /\ "number" \in Kinds
  BY DEF NumberEnd, FractionEnd, Reading, Loops, Kinds
<1>2. /\ SubSeq(src, from, i - 1) \in Seq(STRING) /\ i \in Nat /\ from \in Nat \ {0}
      /\ i - 1 \in Nat /\ from <= i - 1 /\ i - 1 <= Len(src) /\ from <= i /\ i <= Len(src) /\ Len(src) \in Nat
  BY <1>1, Read, InToken, Basics
<1>3. At(i) = src[i]
  BY <1>2 DEF At
<1>4. CASE NumberEnd
  <2>1. DigitsAt(src, from, i - 1)
    BY <1>4 DEF NumberEnd, Reading, ReadInv, Reads
  <2>2. src[i] \notin Digit \union {"."} /\ Finish("number", SubSeq(src, from, i - 1), i - 1)
    BY <1>3, <1>4 DEF NumberEnd
  <2>3. Longest(src, from, i - 1)
    BY <1>2, <2>1, <2>2, DigitsLongest
  <2>4. QED
    BY <1>1, <1>2, <2>2, <2>3, FinishAdds
<1>5. CASE FractionEnd
  <2> DEFINE last == IF src[i] = "f" THEN i ELSE i - 1
  <2>1. FractionAt(src, from, i - 1)
    BY <1>5 DEF FractionEnd, Reading, ReadInv, Reads
  <2>2. src[i] \notin Digit /\ Finish("number", SubSeq(src, from, i - 1), last)
    BY <1>3, <1>5 DEF FractionEnd
  <2>3. Longest(src, from, last)
    BY <1>2, <2>1, <2>2, FractionLongest
  <2>4. last \in Nat /\ from <= last /\ last <= Len(src)
    BY <1>2
  <2> HIDE DEF last
  <2>5. QED
    BY <1>1, <1>2, <2>2, <2>3, <2>4, FinishAdds
<1>6. QED
  BY <1>4, <1>5


\* Identifiers, keywords and builtins
LEMMA NameEmits == IInv /\ ReadInv /\ (IdentifierEnd \/ BuiltinEnd \/ BuiltinNameless) => \E t : Adds(t)
<1> SUFFICES ASSUME IInv, ReadInv, IdentifierEnd \/ BuiltinEnd \/ BuiltinNameless
             PROVE  \E t : Adds(t)
  OBVIOUS
<1>1. pc \in Loops \ {"comment", "string"} /\ pc \in Loops \ {"comment"}
  BY DEF IdentifierEnd, BuiltinEnd, BuiltinNameless, Reading, Loops
<1>2. /\ SubSeq(src, from, i - 1) \in Seq(STRING) /\ i \in Nat /\ from \in Nat \ {0} /\ from + 1 \in Nat
      /\ i - 1 \in Nat /\ from <= i - 1 /\ i - 1 <= Len(src) /\ from <= i /\ i <= Len(src) /\ Len(src) \in Nat
  BY <1>1, Read, InToken, Basics
<1>3. At(i) = src[i]
  BY <1>2 DEF At
<1>4. CASE IdentifierEnd
  <2>1. NameAt(src, from, i - 1)
    BY <1>4 DEF IdentifierEnd, Reading, ReadInv, Reads
  <2>2. src[i] \notin Alnum /\ \E type \in Kinds : Finish(type, SubSeq(src, from, i - 1), i - 1)
    BY <1>3, <1>4 DEF IdentifierEnd, Kinds
  <2>3. Longest(src, from, i - 1)
    BY <1>2, <2>1, <2>2, NameLongest
  <2>4. QED
    BY <1>1, <1>2, <2>2, <2>3, FinishAdds
<1>5. CASE BuiltinEnd
  <2>1. src[from] = "@" /\ NameAt(src, from + 1, i - 1)
    BY <1>5 DEF BuiltinEnd, Reading, ReadInv, Reads
  <2>2. src[i] \notin Alnum /\ Finish("builtin", SubSeq(src, from, i - 1), i - 1) /\ "builtin" \in Kinds
    BY <1>3, <1>5 DEF BuiltinEnd, Kinds
  <2>3. Longest(src, from, i - 1)
    BY <1>2, <2>1, <2>2, NameLongest
  <2>4. QED
    BY <1>1, <1>2, <2>2, <2>3, FinishAdds
<1>6. CASE BuiltinNameless
  <2>1. Finish("builtin", <<>>, i) /\ "builtin" \in Kinds /\ <<>> \in Seq(STRING)
    BY <1>6 DEF BuiltinNameless, Kinds
  <2>2. QED
    BY <1>1, <1>2, <2>1, FinishAdds
<1>7. QED
  BY <1>4, <1>5, <1>6


\* Literals, but for a character of more than one
LEMMA StringEmits ==
  ASSUME IInv, ReadInv, StringClose, ~Stop("error")
  PROVE  \E t : Adds(t)
<1> DEFINE type == IF Quote = "'" THEN "char" ELSE "string"
<1>1. pc = "string" /\ pc \in Loops \ {"comment"} /\ type \in Kinds /\ text \in Seq(STRING)
  BY Basics DEF StringClose, Reading, Loops, Kinds
<1>2. At(i) = src[from] /\ Finish(type, text, i)
  BY DEF StringClose, Quote
<1>3. /\ from \in Nat \ {0} /\ from < i /\ from < Len(src) /\ Len(src) \in Nat
      /\ i \in Nat /\ i \in Nat \ {0} /\ from <= i
  BY <1>1, InToken, Basics
<1>4. src[from] \in Quotes /\ InLiteral(src, from, i)
  BY <1>1 DEF ReadInv, Reads, InLiteral
<1>5. i < Len(src) /\ src[i] = src[from]
  <2>1. At(i) \notin {"EOF", "NUL"}
    BY <1>2, <1>4, Distinct
  <2>2. QED
    BY <1>2, <1>3, <2>1, Inside, Basics
<1>6. i <= Len(src)
  BY <1>3, <1>5
<1>7. Longest(src, from, i)
  BY <1>3, <1>4, <1>5, <1>6, LiteralLongest
<1> HIDE DEF type
<1>8. QED
  BY <1>1, <1>2, <1>3, <1>6, <1>7, FinishAdds

\* The steps by what they do to the tokens
LEMMA Emits == IInv /\ ReadInv /\ [Next]_vars => src' = src /\ (tokens' = tokens \/ \E t : Adds(t))
<1> SUFFICES ASSUME IInv, ReadInv, [Next]_vars
             PROVE  src' = src /\ (tokens' = tokens \/ \E t : Adds(t))
  OBVIOUS
<1>1. CASE SkipSpace \/ Starts \/ CommentStart \/ CommentChar \/ CommentEnd
  BY <1>1 DEF SkipSpace, Starts, CommentStart, CommentChar, CommentEnd
<1>2. CASE Unrecognized \/ Done \/ CommentOverrun \/ StringInvalid \/ StringOverrun
  BY <1>2 DEF Unrecognized, Done, CommentOverrun, StringInvalid, StringOverrun, Stop
<1>3. CASE StringChar \/ StringEscape \/ NumberDigit \/ NumberDot \/ NameChar \/ BuiltinStart
  BY <1>3 DEF StringChar, StringEscape, NumberDigit, NumberDot, NameChar, BuiltinStart, Advance, Stop
<1>4. CASE Over \/ UNCHANGED vars
  BY <1>4 DEF Over, vars
<1>5. CASE Punctuation \/ EndOfFile
  BY <1>5, MainEmits DEF Punctuation, EndOfFile
<1>6. CASE NumberEnd \/ FractionEnd
  BY <1>6, WordEmits DEF NumberEnd, FractionEnd, Finish
<1>7. CASE IdentifierEnd \/ BuiltinEnd \/ BuiltinNameless
  BY <1>7, NameEmits DEF IdentifierEnd, BuiltinEnd, BuiltinNameless, Finish
<1>8. CASE StringClose
  <2>1. CASE Stop("error")
    BY <2>1 DEF Stop
  <2>2. CASE ~Stop("error")
    <3>1. src' = src
      BY <1>8, <2>2 DEF StringClose, Finish
    <3>2. QED
      BY <1>8, <2>2, <3>1, StringEmits
  <2>3. QED
    BY <2>1, <2>2
<1>9. QED
  BY <1>1, <1>2, <1>3, <1>4, <1>5, <1>6, <1>7, <1>8 DEF Next


\* The tokens stay the longest.
LEMMA LongStep == IInv /\ ReadInv /\ LongInv /\ [Next]_vars => LongInv'
<1> SUFFICES ASSUME IInv, ReadInv, LongInv, [Next]_vars
             PROVE  LongInv'
  OBVIOUS
<1>1. src' = src /\ (tokens' = tokens \/ \E t : Adds(t))
  BY Emits
<1>2. CASE tokens' = tokens
  BY <1>1, <1>2 DEF LongInv
<1>3. ASSUME NEW t, Adds(t) PROVE LongInv'
  <2>1. tokens' = Append(tokens, t) /\ t \in Token /\ Good(src, t)
    BY <1>3 DEF Adds
  <2>2. ASSUME NEW n \in 1 .. Len(tokens') PROVE Good(src, tokens'[n])
    <3>1. Len(tokens') = Len(tokens) + 1 /\ tokens'[Len(tokens')] = t /\ Len(tokens) \in Nat
      BY <2>1, AppendProperties, Basics
    <3>2. CASE n = Len(tokens')
      BY <2>1, <3>1, <3>2
    <3>3. CASE n # Len(tokens')
      <4>1. n \in 1 .. Len(tokens)
        BY <3>1, <3>3
      <4>2. tokens'[n] = tokens[n]
        BY <2>1, <4>1, AppendProperties, Basics
      <4>3. QED
        BY <4>1, <4>2 DEF LongInv
    <3>4. QED
      BY <3>2, <3>3
  <2>3. QED
    BY <1>1, <2>2 DEF LongInv
<1>4. QED
  BY <1>1, <1>2, <1>3


\* What the invariant says by positions is what LongestMatch says of the pieces.
LEMMA InvLongest == IInv /\ LongInv => LongestMatch
<1> SUFFICES ASSUME IInv, LongInv, NEW n \in 1 .. Len(tokens), ~Nameless(tokens[n])
             PROVE  /\ Lexeme(SubSeq(src, tokens[n].start, tokens[n].end))
                    /\ \A e \in tokens[n].end + 1 .. Len(src) : ~Lexeme(SubSeq(src, tokens[n].start, e))
  BY DEF LongestMatch
<1>1. PICK f, e : f = tokens[n].start /\ e = tokens[n].end
  OBVIOUS
<1>2. f \in Nat \ {0} /\ e \in Nat /\ f <= e /\ e <= Len(src) /\ Longest(src, f, e)
  BY <1>1 DEF LongInv, Good
<1>3. src \in Seq(STRING) /\ Len(src) \in Nat
  BY Basics
<1>4. ASSUME NEW x \in e .. Len(src) PROVE Lexeme(SubSeq(src, f, x)) <=> LexemeAt(src, f, x)
  <2>1. x \in Nat /\ f <= x /\ f <= x + 1 /\ x <= Len(src)
    BY <1>2, <1>3
  <2>2. Piece(SubSeq(src, f, x), src, f, x)
    BY <1>2, <1>3, <2>1, PieceIs
  <2>3. QED
    BY <2>1, <2>2, LexemePiece
<1>5. e \in e .. Len(src) /\ \A x \in e + 1 .. Len(src) : x \in e .. Len(src)
  BY <1>2, <1>3
<1>6. Lexeme(SubSeq(src, f, e)) /\ \A x \in e + 1 .. Len(src) : ~Lexeme(SubSeq(src, f, x))
  BY <1>2, <1>4, <1>5 DEF Longest
<1>7. QED
  BY <1>1, <1>6

-----------------------------------------------------------------------------
(* Beyond the end of the source *)

OverInv == status = "overrun" => pc \in {"string", "comment"} /\ i > Len(src)

\* It gets there only in a comment or in a string, and stops.
LEMMA OverStep == IInv /\ OverInv /\ [Next]_vars => OverInv'
<1> SUFFICES ASSUME IInv, OverInv, [Next]_vars
             PROVE  OverInv'
  OBVIOUS
<1>1. CASE status = "overrun"
  <2>1. UNCHANGED <<src, i, pc, status>>
    BY <1>1 DEF Next, vars, Over, SkipSpace, Punctuation, EndOfFile, Unrecognized, Starts, Done,
       CommentStart, CommentChar, CommentEnd, CommentOverrun, StringChar, StringEscape,
       StringInvalid, StringClose, StringOverrun, NumberDigit, NumberDot, NumberEnd, FractionEnd,
       NameChar, IdentifierEnd, BuiltinStart, BuiltinEnd, BuiltinNameless, InMain, Reading
  <2>2. QED
    BY <2>1 DEF OverInv
<1>2. CASE CommentOverrun \/ StringOverrun
  <2>1. pc \in {"string", "comment"} /\ UNCHANGED <<src, i, pc>> /\ i + 1 > Len(src) + 1
    BY <1>2, Basics DEF CommentOverrun, StringOverrun, Reading, Stop
  <2>2. QED
    BY <2>1, Basics DEF OverInv
<1>3. CASE status # "overrun" /\ ~CommentOverrun /\ ~StringOverrun
  <2>1. status' # "overrun"
    BY <1>3 DEF Next, vars, Over, SkipSpace, Punctuation, EndOfFile, Unrecognized, Starts, Done,
       CommentStart, CommentChar, CommentEnd, StringChar, StringEscape,
       StringInvalid, StringClose, NumberDigit, NumberDot, NumberEnd, FractionEnd,
       NameChar, IdentifierEnd, BuiltinStart, BuiltinEnd, BuiltinNameless, Finish, Advance, Stop
  <2>2. QED
    BY <2>1 DEF OverInv
<1>4. QED
  BY <1>1, <1>2, <1>3


\* A string there has no end in the source, and a comment none before its end.
LEMMA InvOverruns == IInv /\ ReadInv /\ OverInv => OverrunOnlyUnterminated
<1> SUFFICES ASSUME IInv, ReadInv, OverInv, status = "overrun"
             PROVE  /\ pc \in {"string", "comment"}
                    /\ IF pc = "string" THEN ~\E e \in from .. Len(src) : Lexeme(SubSeq(src, from, e))
                       ELSE InComment(Len(src))
  BY DEF OverrunOnlyUnterminated
<1>1. pc \in {"string", "comment"} /\ i > Len(src)
  BY DEF OverInv
<1>2. src \in Seq(STRING) /\ Len(src) \in Nat /\ Len(src) \in Nat \ {0} /\ i \in Nat
  BY Basics
<1>3. ASSUME pc = "string", NEW e \in from .. Len(src), Lexeme(SubSeq(src, from, e))
      PROVE  FALSE
  <2>1. from \in Nat \ {0} /\ from < Len(src) /\ from < i
    BY <1>3, InToken DEF Loops
  <2>2. e \in Nat /\ from <= e /\ from <= e + 1 /\ e <= Len(src)
    BY <1>2, <2>1
  <2>3. Piece(SubSeq(src, from, e), src, from, e)
    BY <1>2, <2>1, <2>2, PieceIs
  <2>4. LexemeAt(src, from, e)
    BY <1>3, <2>2, <2>3, LexemePiece
  <2>5. /\ src[from] \in Quotes
        /\ \A k \in from + 1 .. i - 1 : k <= Len(src) /\ src[k] = src[from] => EscapedAt(src, from, k)
    BY <1>3 DEF ReadInv, Reads, InLiteral
  <2>6. LiteralAt(src, from, e)
    BY <2>1, <2>2, <2>4, <2>5, FirstTells
  <2>7. /\ from < e /\ src[e] = src[from]
        /\ \A k \in from + 1 .. e : src[k] = src[from] => (EscapedAt(src, from, k) <=> k < e)
    BY <2>6 DEF LiteralAt
  <2>8. e \in from + 1 .. e /\ e \in from + 1 .. i - 1 /\ ~(e < e)
    BY <1>1, <1>2, <2>1, <2>2, <2>7
  <2>9. QED
    BY <2>2, <2>5, <2>7, <2>8
<1>4. ASSUME pc = "comment" PROVE InComment(Len(src))
  <2>1. PICK c \in 1 .. Len(src) - 1 :
          /\ c < i /\ src[c] = "/" /\ src[c + 1] = "/"
          /\ \A j \in c .. i : At(j) # "\n"
          /\ Told(src, tokens, c)
    BY <1>4 DEF IInv, CommentInv
  <2>2. c \in 1 .. Len(src) /\ c < Len(src)
    BY <1>2, <2>1
  <2>3. \A j \in c .. Len(src) : src[j] # "\n"
    <3>1. \A j \in c .. Len(src) : j \in c .. i /\ j <= Len(src)
      BY <1>1, <1>2, <2>1
    <3>2. QED
      BY <2>1, <3>1 DEF At
  <2>4. \A n \in 1 .. Len(tokens) : c \notin tokens[n].start .. tokens[n].end
    BY <2>1 DEF Told, Below
  <2>5. QED
    BY <2>1, <2>2, <2>3, <2>4 DEF InComment
<1>5. QED
  BY <1>1, <1>3, <1>4

-----------------------------------------------------------------------------
(* Lines and columns *)

\* The column of position p of s is o.
ColumnAt(s, p, o) ==
  /\ o \in 1 .. p
  /\ o = p \/ s[p - o] = "\n"
  /\ \A k \in p - o + 1 .. p - 1 : s[k] # "\n"

LineAt(s, p) == 1 + Cardinality({k \in 1 .. p - 1 : s[k] = "\n"})

\* No token before position p has a newline in it.
OneLine(s, ts, p) ==
  \A n \in 1 .. Len(ts) : ts[n].end < p => \A k \in ts[n].start .. ts[n].end : s[k] # "\n"

\* Position p is in line l and column o, if the tokens before it let the lexer count.
Placed(s, ts, p, l, o) == OneLine(s, ts, p) => ColumnAt(s, p, o) /\ l = LineAt(s, p)

\* The lexer knows the place of the next character, or that of the token it reads.
PosInv ==
  /\ pc = "main" => Placed(src, tokens, i, line, offset + 1)
  /\ pc \in Loops \ {"comment"} => Placed(src, tokens, from, line, offset)
  /\ pc = "comment" /\ i + 1 <= Len(src) => Placed(src, tokens, i + 1, line, offset + 1)
  /\ \A n \in 1 .. Len(tokens) : Placed(src, tokens, tokens[n].start, tokens[n].line, tokens[n].offset)

\* Up to a later position, over no newline
LEMMA ColumnOn ==
  ASSUME NEW s, NEW p \in Nat \ {0}, NEW q \in Nat, p <= q, \A k \in p .. q - 1 : s[k] # "\n",
         NEW o, ColumnAt(s, p, o)
  PROVE  ColumnAt(s, q, o + (q - p)) /\ LineAt(s, q) = LineAt(s, p)
<1>1. /\ o \in 1 .. p /\ (o = p \/ s[p - o] = "\n")
      /\ \A k \in p - o + 1 .. p - 1 : s[k] # "\n"
  BY DEF ColumnAt
<1>2. PICK r : r = o + (q - p)
  OBVIOUS
<1>3. r \in 1 .. q /\ q - r = p - o /\ (r = q <=> o = p)
  BY <1>1, <1>2
<1>4. ASSUME NEW k \in q - r + 1 .. q - 1 PROVE s[k] # "\n"
  <2>1. k \in p - o + 1 .. p - 1 \/ k \in p .. q - 1
    BY <1>1, <1>3
  <2>2. QED
    BY <1>1, <2>1
<1>5. ColumnAt(s, q, r)
  <2>1. r = q \/ s[q - r] = "\n"
    BY <1>1, <1>3
  <2>2. QED
    BY <1>3, <1>4, <2>1 DEF ColumnAt
<1>6. {k \in 1 .. q - 1 : s[k] = "\n"} = {k \in 1 .. p - 1 : s[k] = "\n"}
  <2>1. \A k \in 1 .. p - 1 : k \in 1 .. q - 1
    OBVIOUS
  <2>2. \A k \in 1 .. q - 1 : k \in 1 .. p - 1 \/ k \in p .. q - 1
    OBVIOUS
  <2>3. QED
    BY <2>1, <2>2
<1>7. QED
  BY <1>2, <1>5, <1>6 DEF LineAt

\* A newline begins a line.
LEMMA LineOn ==
  ASSUME NEW s, NEW p \in Nat \ {0}, s[p] = "\n"
  PROVE  ColumnAt(s, p + 1, 1) /\ LineAt(s, p + 1) = LineAt(s, p) + 1
<1> DEFINE A == {k \in 1 .. p - 1 : s[k] = "\n"}
           B == {k \in 1 .. p + 1 - 1 : s[k] = "\n"}
<1>1. 1 \in 1 .. p + 1 /\ p + 1 - 1 = p /\ \A k \in p + 1 - 1 + 1 .. p + 1 - 1 : FALSE
  OBVIOUS
<1>2. ColumnAt(s, p + 1, 1)
  BY <1>1 DEF ColumnAt
<1>3. B = A \union {p} /\ p \notin A
  <2>1. \A k \in 1 .. p : k = p \/ k \in 1 .. p - 1
    OBVIOUS
  <2>2. \A k \in 1 .. p - 1 : k \in 1 .. p /\ k # p
    OBVIOUS
  <2>3. p \in 1 .. p
    OBVIOUS
  <2>4. QED
    BY <1>1, <2>1, <2>2, <2>3
<1>4. IsFiniteSet(A)
  <2>1. IsFiniteSet(1 .. p - 1)
    BY FS_Interval
  <2>2. A \subseteq 1 .. p - 1
    OBVIOUS
  <2>3. QED
    BY <2>1, <2>2, FS_Subset
<1> HIDE DEF A, B
<1>5. Cardinality(B) = Cardinality(A) + 1 /\ Cardinality(A) \in Nat
  BY <1>3, <1>4, FS_AddElement, FS_CardinalityType
<1>6. LineAt(s, p) = 1 + Cardinality(A) /\ LineAt(s, p + 1) = 1 + Cardinality(B)
  BY DEF LineAt, A, B
<1>7. QED
  BY <1>2, <1>5, <1>6


\* An element of a sequence of tokens
LEMMA TokenIs ==
  ASSUME NEW ts \in Seq(Token), NEW n \in 1 .. Len(ts)
  PROVE  ts[n] \in Token /\ ts[n].start \in Nat /\ ts[n].end \in Nat
<1>1. ts[n] \in Token
  BY ElementOfSeq
<1>2. QED
  BY <1>1 DEF Token

\* Tokens up to a later position only weaken what is known of a place.
LEMMA OneLineLess ==
  ASSUME NEW s, NEW ts \in Seq(Token), NEW p \in Int, NEW q \in Int, p <= q, OneLine(s, ts, q)
  PROVE  OneLine(s, ts, p)
<1>1. \A n \in 1 .. Len(ts) : ts[n].end \in Nat
  BY TokenIs
<1>2. QED
  BY <1>1 DEF OneLine

\* So do more tokens.
LEMMA OneLineAppend ==
  ASSUME NEW s, NEW ts \in Seq(Token), NEW t \in Token, NEW p, OneLine(s, Append(ts, t), p)
  PROVE  /\ OneLine(s, ts, p)
         /\ t.end < p => \A k \in t.start .. t.end : s[k] # "\n"
<1>1. PICK us : us = Append(ts, t)
  OBVIOUS
<1>2. /\ Len(ts) \in Nat /\ Len(us) = Len(ts) + 1 /\ us[Len(ts) + 1] = t
      /\ \A n \in 1 .. Len(ts) : us[n] = ts[n]
  BY <1>1, AppendProperties, LenProperties
<1>3. \A n \in 1 .. Len(ts) : n \in 1 .. Len(us)
  BY <1>2
<1>4. Len(ts) + 1 \in 1 .. Len(us)
  BY <1>2
<1>5. OneLine(s, us, p)
  BY <1>1
<1>6. OneLine(s, ts, p)
  BY <1>2, <1>3, <1>5 DEF OneLine
<1>7. t.end < p => \A k \in t.start .. t.end : s[k] # "\n"
  BY <1>2, <1>4, <1>5 DEF OneLine
<1>8. QED
  BY <1>6, <1>7


\* What is known of a place is known of a later one, over no newline.
LEMMA PlacedOn ==
  ASSUME NEW s, NEW ts \in Seq(Token), NEW p \in Nat \ {0}, NEW q \in Nat, p <= q,
         \A k \in p .. q - 1 : s[k] # "\n",
         NEW l, NEW o, Placed(s, ts, p, l, o)
  PROVE  Placed(s, ts, q, l, o + (q - p))
<1> SUFFICES ASSUME OneLine(s, ts, q)
             PROVE  ColumnAt(s, q, o + (q - p)) /\ l = LineAt(s, q)
  BY DEF Placed
<1>1. p \in Int /\ q \in Int
  OBVIOUS
<1>2. OneLine(s, ts, p)
  BY <1>1, OneLineLess
<1>3. ColumnAt(s, p, o) /\ l = LineAt(s, p)
  BY <1>2 DEF Placed
<1>4. QED
  BY <1>3, ColumnOn


\* Behind a newline the next line begins.
LEMMA PlacedNewline ==
  ASSUME NEW s, NEW ts \in Seq(Token), NEW p \in Nat \ {0}, s[p] = "\n",
         NEW l, NEW o, Placed(s, ts, p, l, o)
  PROVE  Placed(s, ts, p + 1, l + 1, 1)
<1> SUFFICES ASSUME OneLine(s, ts, p + 1)
             PROVE  ColumnAt(s, p + 1, 1) /\ l + 1 = LineAt(s, p + 1)
  BY DEF Placed
<1>1. OneLine(s, ts, p)
  <2>1. PICK q : q = p + 1
    OBVIOUS
  <2>2. p \in Int /\ q \in Int /\ p <= q
    BY <2>1
  <2>3. QED
    BY <2>1, <2>2, OneLineLess
<1>2. l = LineAt(s, p)
  BY <1>1 DEF Placed
<1>3. QED
  BY <1>2, LineOn

\* Behind a token that begins at a known place the place is known.
LEMMA PlacedToken ==
  ASSUME NEW s, NEW ts \in Seq(Token), NEW t \in Token, t.start > 0, t.start <= t.end,
         Placed(s, ts, t.start, t.line, t.offset),
         NEW q, q = t.end + 1, NEW o, o = t.offset + (q - t.start)
  PROVE  Placed(s, Append(ts, t), q, t.line, o)
<1>1. PICK p : p = t.start
  OBVIOUS
<1>2. /\ p \in Nat \ {0} /\ q \in Nat /\ p \in Int /\ q \in Int /\ p <= q
      /\ t.end < q /\ q - 1 = t.end /\ o = t.offset + (q - p)
  <2>1. t.start \in Nat /\ t.end \in Nat /\ t.offset \in Nat
    BY DEF Token
  <2>2. PICK c, d : c = t.start /\ d = t.end
    OBVIOUS
  <2>3. c \in Nat /\ d \in Nat /\ 0 < c /\ c <= d /\ p = c /\ q = d + 1
    BY <1>1, <2>1, <2>2
  <2>4. /\ p \in Nat \ {0} /\ q \in Nat /\ p \in Int /\ q \in Int /\ p <= q
        /\ d < q /\ q - 1 = d
    BY <2>3
  <2>5. QED
    BY <1>1, <2>2, <2>4
<1>3. ASSUME OneLine(s, Append(ts, t), q) PROVE ColumnAt(s, q, o) /\ t.line = LineAt(s, q)
  <2>1. OneLine(s, ts, q)
    BY <1>3, OneLineAppend
  <2>2. OneLine(s, ts, p)
    BY <1>2, <2>1, OneLineLess
  <2>3. ColumnAt(s, p, t.offset) /\ t.line = LineAt(s, p)
    BY <1>1, <2>2 DEF Placed
  <2>4. \A k \in p .. q - 1 : s[k] # "\n"
    <3>1. \A k \in t.start .. t.end : s[k] # "\n"
      BY <1>2, <1>3, OneLineAppend
    <3>2. QED
      BY <1>1, <1>2, <3>1
  <2>5. p \in Nat \ {0} /\ q \in Nat /\ p <= q /\ o = t.offset + (q - p)
    BY <1>2
  <2>6. ColumnAt(s, q, t.offset + (q - p)) /\ LineAt(s, q) = LineAt(s, p)
    BY <2>3, <2>4, <2>5, ColumnOn
  <2>7. QED
    BY <2>3, <2>5, <2>6
<1>4. QED
  BY <1>3 DEF Placed

\* To add a token keeps what is known of the others and of itself.
LEMMA PlacedAppend ==
  ASSUME NEW s, NEW ts \in Seq(Token), NEW t \in Token,
         Placed(s, ts, t.start, t.line, t.offset),
         \A n \in 1 .. Len(ts) : Placed(s, ts, ts[n].start, ts[n].line, ts[n].offset)
  PROVE  LET us == Append(ts, t) IN
           \A n \in 1 .. Len(us) : Placed(s, us, us[n].start, us[n].line, us[n].offset)
<1>1. PICK us : us = Append(ts, t)
  OBVIOUS
<1>2. /\ Len(ts) \in Nat /\ Len(us) = Len(ts) + 1 /\ us[Len(us)] = t
      /\ \A n \in 1 .. Len(ts) : us[n] = ts[n]
  BY <1>1, AppendProperties, LenProperties
<1>3. ASSUME NEW x \in Nat, NEW l, NEW o, Placed(s, ts, x, l, o) PROVE Placed(s, us, x, l, o)
  <2>1. OneLine(s, us, x) => OneLine(s, ts, x)
    BY <1>1, OneLineAppend
  <2>2. QED
    BY <1>3, <2>1 DEF Placed
<1>4. ASSUME NEW n \in 1 .. Len(us) PROVE Placed(s, us, us[n].start, us[n].line, us[n].offset)
  <2>1. CASE n = Len(us)
    <3>1. t.start \in Nat
      BY DEF Token
    <3>2. QED
      BY <1>2, <1>3, <2>1, <3>1
  <2>2. CASE n # Len(us)
    <3>1. n \in 1 .. Len(ts) /\ us[n] = ts[n]
      BY <1>2, <2>2
    <3>2. ts[n].start \in Nat
      BY <3>1, TokenIs
    <3>3. QED
      BY <1>3, <3>1, <3>2
  <2>3. QED
    BY <2>1, <2>2
<1>5. QED
  BY <1>1, <1>4

\* The lexer starts in the first line and column.
LEMMA PosInit == Init => PosInv
<1> SUFFICES ASSUME Init PROVE PosInv
  OBVIOUS
<1>1. pc = "main" /\ i = 1 /\ line = 1 /\ offset + 1 = 1 /\ tokens = <<>> /\ Len(tokens) = 0
  BY DEF Init
<1>2. ColumnAt(src, 1, 1)
  BY DEF ColumnAt
<1>3. LineAt(src, 1) = 1
  <2>1. {k \in 1 .. 1 - 1 : src[k] = "\n"} = {}
    OBVIOUS
  <2>2. Cardinality({}) = 0
    BY FS_EmptySet
  <2>3. QED
    BY <2>1, <2>2 DEF LineAt
<1>4. Placed(src, tokens, i, line, offset + 1)
  BY <1>1, <1>2, <1>3 DEF Placed
<1>5. \A n \in 1 .. Len(tokens) : FALSE
  BY <1>1
<1>6. QED
  BY <1>1, <1>4, <1>5 DEF PosInv, Loops


\* It knows the place behind a token that it adds.
LEMMA PosAdds ==
  ASSUME IInv, PosInv, src' = src, NEW t, Adds(t)
  PROVE  PosInv'
<1>1. /\ tokens' = Append(tokens, t) /\ t \in Token /\ pc' = "main"
      /\ i' = t.end + 1 /\ line' = t.line /\ offset' = t.offset + (t.end - t.start)
      /\ t.start > 0 /\ t.start <= t.end
  BY DEF Adds, Good
<1>2. Placed(src, tokens, t.start, t.line, t.offset)
  <2>1. CASE pc = "main"
    BY <2>1 DEF Adds, PosInv
  <2>2. CASE pc # "main"
    <3>1. pc \in Loops \ {"comment"}
      BY <2>2 DEF Adds, IInv, TypeOK
    <3>2. QED
      BY <2>2, <3>1 DEF Adds, PosInv
  <2>3. QED
    BY <2>1, <2>2
<1>3. tokens \in Seq(Token)
  BY Basics
<1>4. PICK q, o : q = t.end + 1 /\ o = t.offset + (q - t.start)
  OBVIOUS
<1>5. Placed(src, tokens', q, t.line, o) /\ offset' + 1 = o
  <2>1. Placed(src, tokens', q, t.line, o)
    BY <1>1, <1>2, <1>3, <1>4, PlacedToken
  <2>2. t.start \in Nat /\ t.end \in Nat /\ t.offset \in Nat
    BY <1>1 DEF Token
  <2>3. PICK c, d, e : c = t.start /\ d = t.end /\ e = t.offset
    OBVIOUS
  <2>4. offset' = e + (d - c) /\ o = e + (d + 1 - c) /\ c \in Nat /\ d \in Nat /\ e \in Nat
    BY <1>1, <1>4, <2>2, <2>3
  <2>5. offset' + 1 = o
    BY <2>4
  <2>6. QED
    BY <2>1, <2>5
<1>6. \A n \in 1 .. Len(tokens) : Placed(src, tokens, tokens[n].start, tokens[n].line, tokens[n].offset)
  BY DEF PosInv
<1>7. \A n \in 1 .. Len(tokens') : Placed(src, tokens', tokens'[n].start, tokens'[n].line, tokens'[n].offset)
  BY <1>1, <1>2, <1>3, <1>6, PlacedAppend
<1>8. Placed(src, tokens', i', line', offset' + 1)
  BY <1>1, <1>4, <1>5
<1>9. QED
  BY <1>1, <1>7, <1>8 DEF PosInv, Loops


\* White space moves a column on, or begins a line.
LEMMA PosSpace == IInv /\ PosInv /\ SkipSpace => PosInv'
<1> SUFFICES ASSUME IInv, PosInv, SkipSpace
             PROVE  PosInv'
  OBVIOUS
<1>1. /\ pc = "main" /\ pc' = "main" /\ i' = i + 1 /\ src' = src /\ tokens' = tokens
      /\ src[i] = At(i) /\ i \in Nat \ {0} /\ i + 1 \in Nat /\ offset \in Nat /\ tokens \in Seq(Token)
  BY Basics DEF SkipSpace, InMain, Reading, At
<1>2. Placed(src, tokens, i, line, offset + 1)
  BY <1>1 DEF PosInv
<1>3. Placed(src, tokens, i + 1, line', offset' + 1)
  <2>1. CASE At(i) = "\n"
    <3>1. line' = line + 1 /\ offset' + 1 = 1
      BY <2>1 DEF SkipSpace
    <3>2. QED
      BY <1>1, <1>2, <2>1, <3>1, PlacedNewline
  <2>2. CASE At(i) # "\n"
    <3>1. line' = line /\ offset' = offset + 1
      BY <2>2 DEF SkipSpace
    <3>2. PICK q : q = i + 1
      OBVIOUS
    <3>3. q \in Nat /\ i <= q /\ \A k \in i .. q - 1 : k = i
      BY <1>1, <3>2
    <3>4. Placed(src, tokens, q, line, offset + 1 + (q - i))
      BY <1>1, <1>2, <2>2, <3>3, PlacedOn
    <3>5. offset + 1 + (q - i) = offset' + 1
      BY <1>1, <3>1, <3>2
    <3>6. QED
      BY <3>1, <3>2, <3>4, <3>5
  <2>3. QED
    BY <2>1, <2>2
<1>4. QED
  BY <1>1, <1>3 DEF PosInv, Loops


\* A comment moves on by its characters; the newline behind it is not counted yet.
LEMMA PosComment == IInv /\ PosInv /\ (CommentStart \/ CommentChar \/ CommentEnd) => PosInv'
<1> SUFFICES ASSUME IInv, PosInv, CommentStart \/ CommentChar \/ CommentEnd
             PROVE  PosInv'
  OBVIOUS
<1>1. /\ src' = src /\ tokens' = tokens /\ line' = line /\ i' = i + 1
      /\ i \in Nat \ {0} /\ i + 1 \in Nat \ {0} /\ i + 2 \in Nat /\ i' + 1 = i + 2 /\ offset \in Nat
      /\ Len(src) \in Nat /\ tokens \in Seq(Token)
  BY Basics DEF CommentStart, CommentChar, CommentEnd
<1>2. CASE CommentStart
  <2>1. /\ pc = "main" /\ pc' = "comment" /\ offset' = offset + 2
        /\ At(i) = "/" /\ At(i + 1) = "/"
    BY <1>2 DEF CommentStart, InMain, Reading, AtComment
  <2>2. Placed(src, tokens, i, line, offset + 1)
    BY <2>1 DEF PosInv
  <2>3. ASSUME i + 2 <= Len(src) PROVE Placed(src, tokens, i + 2, line, offset + 3)
    <3>1. src[i] = "/" /\ src[i + 1] = "/"
      BY <1>1, <2>1, <2>3 DEF At
    <3>2. PICK q : q = i + 2
      OBVIOUS
    <3>3. q \in Nat /\ i <= q /\ \A k \in i .. q - 1 : k = i \/ k = i + 1
      BY <1>1, <3>2
    <3>4. Placed(src, tokens, q, line, offset + 1 + (q - i))
      BY <1>1, <2>2, <3>1, <3>3, PlacedOn
    <3>5. offset + 1 + (q - i) = offset + 3
      BY <1>1, <3>2
    <3>6. QED
      BY <3>2, <3>4, <3>5
  <2>4. offset' + 1 = offset + 3
    BY <1>1, <2>1
  <2>5. QED
    BY <1>1, <2>1, <2>3, <2>4 DEF PosInv, Loops
<1>3. CASE CommentChar
  <2>1. pc = "comment" /\ pc' = "comment" /\ offset' = offset + 1 /\ At(i + 1) # "\n"
    BY <1>3 DEF CommentChar, Reading
  <2>2. ASSUME i + 2 <= Len(src) PROVE Placed(src, tokens, i + 2, line, offset + 2)
    <3>1. i + 1 <= Len(src)
      BY <1>1, <2>2
    <3>2. src[i + 1] # "\n" /\ Placed(src, tokens, i + 1, line, offset + 1)
      BY <2>1, <3>1 DEF PosInv, At
    <3>3. PICK p, q : p = i + 1 /\ q = i + 2
      OBVIOUS
    <3>4. p \in Nat \ {0} /\ q \in Nat /\ p <= q /\ \A k \in p .. q - 1 : k = p
      BY <1>1, <3>3
    <3>5. Placed(src, tokens, q, line, offset + 1 + (q - p))
      BY <1>1, <3>2, <3>3, <3>4, PlacedOn
    <3>6. offset + 1 + (q - p) = offset + 2
      BY <1>1, <3>3
    <3>7. QED
      BY <3>3, <3>5, <3>6
  <2>3. offset' + 1 = offset + 2
    BY <1>1, <2>1
  <2>4. QED
    BY <1>1, <2>1, <2>2, <2>3 DEF PosInv, Loops
<1>4. CASE CommentEnd
  <2>1. pc = "comment" /\ pc' = "main" /\ offset' = offset /\ At(i + 1) = "\n"
    BY <1>4 DEF CommentEnd, Reading
  <2>2. i + 1 <= Len(src)
    BY <2>1 DEF At
  <2>3. Placed(src, tokens, i + 1, line, offset + 1)
    BY <2>1, <2>2 DEF PosInv
  <2>4. QED
    BY <1>1, <2>1, <2>3 DEF PosInv, Loops
<1>5. QED
  BY <1>2, <1>3, <1>4


\* Every step keeps the place known.
LEMMA PosStep == IInv /\ ReadInv /\ PosInv /\ [Next]_vars => PosInv'
<1> SUFFICES ASSUME IInv, ReadInv, PosInv, [Next]_vars
             PROVE  PosInv'
  OBVIOUS
<1>1. ASSUME NEW t, Adds(t) PROVE PosInv'
  BY <1>1, Emits, PosAdds
<1>2. CASE SkipSpace
  BY <1>2, PosSpace
<1>3. CASE CommentStart \/ CommentChar \/ CommentEnd
  BY <1>3, PosComment
<1>4. CASE Starts
  <2>1. /\ pc = "main" /\ pc' \in Loops \ {"comment"} /\ from' = i /\ offset' = offset + 1
        /\ UNCHANGED <<src, line, tokens>>
    BY <1>4 DEF Starts, InMain, Reading, Loops
  <2>2. QED
    BY <2>1 DEF PosInv, Loops
<1>5. CASE UNCHANGED <<src, i, line, offset, pc, from, tokens>>
  BY <1>5 DEF PosInv
<1>6. CASE StringChar \/ StringEscape \/ NumberDigit \/ NumberDot \/ NameChar \/ BuiltinStart
  <2>1. /\ pc \in Loops \ {"comment"} /\ pc' \in Loops \ {"comment"}
        /\ UNCHANGED <<src, line, offset, from, tokens>>
    BY <1>6 DEF StringChar, StringEscape, NumberDigit, NumberDot, NameChar, BuiltinStart, Reading,
       Advance, Stop, Loops
  <2>2. QED
    BY <2>1 DEF PosInv, Loops
<1>7. CASE Unrecognized \/ Done \/ CommentOverrun \/ StringInvalid \/ StringOverrun \/ Over \/ UNCHANGED vars
  BY <1>5, <1>7 DEF Unrecognized, Done, CommentOverrun, StringInvalid, StringOverrun, Stop, Over, vars
<1>8. CASE Punctuation \/ EndOfFile
  BY <1>1, <1>8, MainEmits
<1>9. CASE NumberEnd \/ FractionEnd
  BY <1>1, <1>9, WordEmits
<1>10. CASE IdentifierEnd \/ BuiltinEnd \/ BuiltinNameless
  BY <1>1, <1>10, NameEmits
<1>11. CASE StringClose
  <2>1. CASE Stop("error")
    BY <1>5, <2>1 DEF Stop
  <2>2. CASE ~Stop("error")
    BY <1>1, <1>11, <2>2, StringEmits
  <2>3. QED
    BY <2>1, <2>2
<1>12. QED
  BY <1>2, <1>3, <1>4, <1>6, <1>7, <1>8, <1>9, <1>10, <1>11 DEF Next


\* What the invariant says of the tokens is what PositionsRight says.
LEMMA InvPlaces == IInv /\ PosInv => PositionsRight
<1> SUFFICES ASSUME IInv, PosInv, NEW n \in 1 .. Len(tokens), OneLineTokens(tokens[n].start)
             PROVE  /\ IsColumn(tokens[n].start, tokens[n].offset)
                    /\ tokens[n].line = 1 + Cardinality({k \in 1 .. tokens[n].start - 1 : src[k] = "\n"})
  BY DEF PositionsRight
<1>1. OneLine(src, tokens, tokens[n].start)
  BY DEF OneLineTokens, OneLine
<1>2. /\ ColumnAt(src, tokens[n].start, tokens[n].offset)
      /\ tokens[n].line = LineAt(src, tokens[n].start)
  BY <1>1 DEF PosInv, Placed
<1>3. QED
  BY <1>2 DEF ColumnAt, LineAt, IsColumn

-----------------------------------------------------------------------------
(* The theorems about tokens and their places *)

AllInv == IInv /\ ReadInv /\ LongInv /\ OverInv /\ PosInv


\* The invariants together are inductive.
LEMMA AllInductive == Spec => []AllInv
<1>1. Init => AllInv
  <2>1. Init => ReadInv /\ LongInv /\ OverInv
    BY ReadsNothing DEF Init, ReadInv, LongInv, OverInv
  <2>2. QED
    BY <2>1, InitInv, PosInit DEF AllInv
<1>2. AllInv /\ [Next]_vars => AllInv'
  BY StepInv, ReadStep, LongStep, OverStep, PosStep DEF AllInv
<1>3. QED
  BY <1>1, <1>2, PTL DEF Spec

\* Every token is the longest piece of the source that can be one where it begins: no
\* operator, number, name or literal is cut in two or read too far.
THEOREM TokensAreLongest == Spec => []LongestMatch
<1>1. AllInv => LongestMatch
  BY InvLongest DEF AllInv
<1>2. QED
  BY <1>1, AllInductive, PTL

\* The line and the offset of a token are those of its first character, unless a token
\* before it has a newline in it.
THEOREM TokensPlacedRight == Spec => []PositionsRight
<1>1. AllInv => PositionsRight
  BY InvPlaces DEF AllInv
<1>2. QED
  BY <1>1, AllInductive, PTL

\* The lexer reads behind the end of the source only in a string that no quote ends or in
\* a comment in the last line.
THEOREM OverrunsUnterminated == Spec => []OverrunOnlyUnterminated
<1>1. AllInv => OverrunOnlyUnterminated
  BY InvOverruns DEF AllInv
<1>2. QED
  BY <1>1, AllInductive, PTL

===============================================================================
