---------------------------- MODULE FunctionProofs -----------------------------
(***************************************************************************)
(* Theorems about the code generation of a function, for functions of any  *)
(* size and any room on the stack: types, loop_blocks as the mirror of the *)
(* loops on the stack of calls, and what the verdict of the verifier is.   *)
(* A lemma named for an action, as IfMarks, says that the action keeps     *)
(* what the section is about.                                              *)
(***************************************************************************)
EXTENDS FunctionInvariants, SequenceTheorems, WellFoundedInduction, TLAPS

-----------------------------------------------------------------------------
(* Stacks: sequences whose last element is the innermost frame *)

\* The last element of a stack that is not empty.
LEMMA LastOf ==
  ASSUME NEW S, NEW s \in Seq(S), s # <<>>
  PROVE  /\ Len(s) \in Nat \ {0}
         /\ Last(s) = s[Len(s)]
         /\ Last(s) \in S
<1>1. Len(s) \in Nat \ {0}
  BY EmptySeq
<1>2. QED
  BY <1>1, ElementOfSeq DEF Last

\* Replacing the last element leaves the others alone.
LEMMA SetLastOf ==
  ASSUME NEW S, NEW s \in Seq(S), s # <<>>, NEW e \in S
  PROVE  /\ ReplaceAt(s, Len(s), e) \in Seq(S)
         /\ Len(ReplaceAt(s, Len(s), e)) = Len(s)
         /\ ReplaceAt(s, Len(s), e) # <<>>
         /\ Last(ReplaceAt(s, Len(s), e)) = e
         /\ ReplaceAt(s, Len(s), e)[Len(s)] = e
         /\ \A j \in 1 .. Len(s) : j # Len(s) => ReplaceAt(s, Len(s), e)[j] = s[j]
<1> DEFINE t == [s EXCEPT ![Len(s)] = e]
<1>1. Len(s) \in Nat \ {0} /\ Len(s) \in 1 .. Len(s)
  BY EmptySeq
<1>2. /\ t \in Seq(S)
      /\ Len(t) = Len(s)
      /\ \A j \in 1 .. Len(s) : t[j] = IF j = Len(s) THEN e ELSE s[j]
  BY <1>1, ExceptSeq
<1>3. t # <<>>
  BY <1>1, <1>2
<1>4. ReplaceAt(s, Len(s), e) = t
  BY DEF ReplaceAt
<1> HIDE DEF t
<1>5. QED
  BY <1>1, <1>2, <1>3, <1>4 DEF Last

\* Dropping the last element: what is left, and what is then last.
LEMMA FrontOf ==
  ASSUME NEW S, NEW s \in Seq(S), s # <<>>
  PROVE  /\ Front(s) \in Seq(S)
         /\ Len(Front(s)) = Len(s) - 1
         /\ \A j \in 1 .. Len(s) - 1 : Front(s)[j] = s[j]
         /\ Len(s) = 1 => Front(s) = <<>>
         /\ Len(s) > 1 => Front(s) # <<>> /\ Last(Front(s)) = s[Len(s) - 1]
<1>1. Len(s) \in Nat \ {0}
  BY EmptySeq
<1>2. Front(s) = SubSeq(s, 1, Len(s) - 1)
  BY DEF Front
<1>3. /\ Front(s) \in Seq(S)
      /\ Len(Front(s)) = Len(s) - 1
      /\ \A j \in 1 .. Len(s) - 1 : Front(s)[j] = s[j]
  <2>1. \A i \in 1 .. Len(s) - 1 : s[i] \in S
    BY <1>1, ElementOfSeq
  <2>2. 1 \in Int /\ Len(s) - 1 \in Int
    BY <1>1
  <2>3. /\ SubSeq(s, 1, Len(s) - 1) \in Seq(S)
        /\ Len(SubSeq(s, 1, Len(s) - 1)) = IF 1 <= Len(s) - 1 THEN Len(s) - 1 - 1 + 1 ELSE 0
        /\ \A i \in 1 .. Len(s) - 1 - 1 + 1 : SubSeq(s, 1, Len(s) - 1)[i] = s[1 + i - 1]
    BY <2>1, <2>2, SubSeqProperties
  <2>4. Len(SubSeq(s, 1, Len(s) - 1)) = Len(s) - 1
    <3>1. ASSUME NEW l, NEW n \in Nat \ {0}, l = IF 1 <= n - 1 THEN n - 1 - 1 + 1 ELSE 0
          PROVE  l = n - 1
      BY <3>1
    <3>2. QED
      BY <1>1, <2>3, <3>1, Zenon
  <2>5. \A j \in 1 .. Len(s) - 1 : SubSeq(s, 1, Len(s) - 1)[j] = s[j]
    <3>1. TAKE j \in 1 .. Len(s) - 1
    <3>2. j \in 1 .. Len(s) - 1 - 1 + 1 /\ 1 + j - 1 = j
      BY <1>1
    <3>3. QED
      BY <2>3, <3>2
  <2>6. QED
    BY <1>2, <2>3, <2>4, <2>5
<1>4. Len(s) = 1 => Front(s) = <<>>
  BY <1>1, <1>3, EmptySeq
<1>5. ASSUME Len(s) > 1
      PROVE  Front(s) # <<>> /\ Last(Front(s)) = s[Len(s) - 1]
  <2>1. Front(s) # <<>>
    BY <1>1, <1>3, <1>5
  <2>2. Last(Front(s)) = Front(s)[Len(s) - 1]
    BY <1>3 DEF Last
  <2>3. QED
    BY <1>1, <1>3, <1>5, <2>1, <2>2
<1>6. QED
  BY <1>3, <1>4, <1>5

\* A pushed element is last; the others keep their place.
LEMMA PushOn ==
  ASSUME NEW S, NEW s \in Seq(S), NEW e \in S
  PROVE  /\ Append(s, e) \in Seq(S)
         /\ Len(Append(s, e)) = Len(s) + 1
         /\ Append(s, e) # <<>>
         /\ Last(Append(s, e)) = e
         /\ \A j \in 1 .. Len(s) + 1 : Append(s, e)[j] = IF j = Len(s) + 1 THEN e ELSE s[j]
<1>1. /\ Append(s, e) \in Seq(S)
      /\ Len(Append(s, e)) = Len(s) + 1
      /\ \A j \in 1 .. Len(s) + 1 : Append(s, e)[j] = IF j = Len(s) + 1 THEN e ELSE s[j]
  OBVIOUS
<1>2. Append(s, e) # <<>>
  BY <1>1, LenProperties, EmptySeq
<1>3. QED
  BY <1>1, <1>2, LenProperties DEF Last

-----------------------------------------------------------------------------
(* The stack of calls *)

\* More blocks do no harm to a frame.
LEMMA MoreBlocks ==
  ASSUME NEW p, NEW n \in Nat, NEW m \in Nat, n <= m, NEW f, FrameOK(p, n, f)
  PROVE  FrameOK(p, m, f)
BY DEF FrameOK

\* A call: a frame is pushed on the one it is linked to.
LEMMA PushKeeps ==
  ASSUME NEW p, NEW n \in Nat, NEW m \in Nat, n <= m,
         NEW s \in Seq(Frame), s # <<>>, StackOK(p, n, s),
         NEW f \in Frame, FrameOK(p, m, f), Linked(p, Last(s), f)
  PROVE  /\ Append(s, f) \in Seq(Frame) /\ Append(s, f) # <<>>
         /\ StackOK(p, m, Append(s, f))
<1> DEFINE t == Append(s, f)
<1>1. Len(s) \in Nat \ {0} /\ Last(s) = s[Len(s)]
  BY LastOf
<1>2. /\ t \in Seq(Frame) /\ t # <<>> /\ Len(t) = Len(s) + 1
      /\ \A j \in 1 .. Len(s) + 1 : t[j] = IF j = Len(s) + 1 THEN f ELSE s[j]
  BY PushOn
<1> HIDE DEF t
<1>3. t[1].at = "function"
  BY <1>1, <1>2 DEF StackOK
<1>4. ASSUME NEW j \in 1 .. Len(t) PROVE FrameOK(p, m, t[j])
  <2>1. CASE j = Len(s) + 1
    BY <1>2, <2>1
  <2>2. CASE j # Len(s) + 1
    <3>1. j \in 1 .. Len(s) /\ t[j] = s[j]
      BY <1>1, <1>2, <2>2
    <3>2. QED
      BY <3>1, MoreBlocks DEF StackOK
  <2>3. QED
    BY <2>1, <2>2
<1>5. ASSUME NEW j \in 1 .. Len(t), j > 1 PROVE Linked(p, t[j - 1], t[j])
  <2>1. CASE j = Len(s) + 1
    <3>1. t[j] = f /\ j - 1 \in 1 .. Len(s) + 1 /\ t[j - 1] = s[Len(s)]
      BY <1>1, <1>2, <2>1
    <3>2. QED
      BY <1>1, <3>1
  <2>2. CASE j # Len(s) + 1
    <3>1. j \in 1 .. Len(s) /\ t[j] = s[j] /\ t[j - 1] = s[j - 1]
      BY <1>1, <1>2, <1>5, <2>2, SMTT(30)
    <3>2. QED
      BY <1>5, <3>1 DEF StackOK
  <2>3. QED
    BY <2>1, <2>2
<1>6. StackOK(p, m, t)
  BY <1>3, <1>4, <1>5 DEF StackOK
<1>7. QED
  BY <1>2, <1>6 DEF t

\* The innermost call goes on: its frame is replaced by one that its caller may
\* wait for just as well.
LEMMA TopKeeps ==
  ASSUME NEW p, NEW n \in Nat, NEW m \in Nat, n <= m,
         NEW s \in Seq(Frame), s # <<>>, StackOK(p, n, s),
         NEW f \in Frame, FrameOK(p, m, f),
         Len(s) = 1 => f.at = "function",
         Len(s) > 1 => Linked(p, s[Len(s) - 1], f)
  PROVE  /\ ReplaceAt(s, Len(s), f) \in Seq(Frame)
         /\ ReplaceAt(s, Len(s), f) # <<>>
         /\ StackOK(p, m, ReplaceAt(s, Len(s), f))
<1> DEFINE t == ReplaceAt(s, Len(s), f)
<1>1. Len(s) \in Nat \ {0}
  BY LastOf
<1>2. /\ t \in Seq(Frame) /\ t # <<>> /\ Len(t) = Len(s) /\ t[Len(s)] = f
      /\ \A j \in 1 .. Len(s) : j # Len(s) => t[j] = s[j]
  BY SetLastOf
<1> HIDE DEF t
<1>3. t[1].at = "function"
  <2>1. CASE Len(s) = 1
    BY <1>2, <2>1
  <2>2. CASE Len(s) # 1
    BY <1>1, <1>2, <2>2 DEF StackOK
  <2>3. QED
    BY <2>1, <2>2
<1>4. ASSUME NEW j \in 1 .. Len(t) PROVE FrameOK(p, m, t[j])
  <2>1. CASE j = Len(s)
    BY <1>2, <2>1
  <2>2. CASE j # Len(s)
    <3>1. j \in 1 .. Len(s) /\ t[j] = s[j]
      BY <1>2, <2>2
    <3>2. QED
      BY <3>1, MoreBlocks DEF StackOK
  <2>3. QED
    BY <2>1, <2>2
<1>5. ASSUME NEW j \in 1 .. Len(t), j > 1 PROVE Linked(p, t[j - 1], t[j])
  <2>1. j - 1 \in 1 .. Len(s) /\ j - 1 # Len(s)
    BY <1>1, <1>2, <1>5
  <2>2. t[j - 1] = s[j - 1]
    BY <1>2, <2>1
  <2>3. CASE j = Len(s)
    BY <1>2, <1>5, <2>2, <2>3
  <2>4. CASE j # Len(s)
    <3>1. j \in 1 .. Len(s) /\ t[j] = s[j]
      BY <1>2, <2>4
    <3>2. QED
      BY <1>5, <2>2, <3>1 DEF StackOK
  <2>5. QED
    BY <2>3, <2>4
<1>6. StackOK(p, m, t)
  BY <1>3, <1>4, <1>5 DEF StackOK
<1>7. QED
  BY <1>2, <1>6 DEF t

\* A call returns, and the frame of its caller is replaced.
LEMMA PopKeeps ==
  ASSUME NEW p, NEW n \in Nat, NEW m \in Nat, n <= m,
         NEW s \in Seq(Frame), Len(s) > 1, StackOK(p, n, s),
         NEW f \in Frame, FrameOK(p, m, f),
         Len(s) = 2 => f.at = "function",
         Len(s) > 2 => Linked(p, s[Len(s) - 2], f)
  PROVE  /\ ReplaceAt(Front(s), Len(s) - 1, f) \in Seq(Frame)
         /\ ReplaceAt(Front(s), Len(s) - 1, f) # <<>>
         /\ StackOK(p, m, ReplaceAt(Front(s), Len(s) - 1, f))
<1> DEFINE t == Front(s)
<1>1. s # <<>> /\ Len(s) \in Nat
  BY EmptySeq
<1>2. /\ t \in Seq(Frame) /\ Len(t) = Len(s) - 1 /\ t # <<>>
      /\ \A j \in 1 .. Len(s) - 1 : t[j] = s[j]
  BY <1>1, FrontOf
<1> HIDE DEF t
<1>3. StackOK(p, n, t)
  <2>1. t[1].at = "function"
    BY <1>1, <1>2 DEF StackOK
  <2>2. ASSUME NEW j \in 1 .. Len(t) PROVE FrameOK(p, n, t[j])
    <3>1. j \in 1 .. Len(s) /\ t[j] = s[j]
      BY <1>1, <1>2
    <3>2. QED
      BY <3>1 DEF StackOK
  <2>3. ASSUME NEW j \in 1 .. Len(t), j > 1 PROVE Linked(p, t[j - 1], t[j])
    <3>1. j \in 1 .. Len(s) /\ t[j] = s[j] /\ t[j - 1] = s[j - 1]
      BY <1>1, <1>2, <2>3
    <3>2. QED
      BY <2>3, <3>1 DEF StackOK
  <2>4. QED
    BY <2>1, <2>2, <2>3 DEF StackOK
<1>4. Len(t) = 1 => f.at = "function"
  <2>1. ASSUME NEW k \in Nat, k - 1 = 1 PROVE k = 2
    BY <2>1
  <2>2. Len(t) = 1 => Len(s) = 2
    BY <1>1, <1>2, <2>1, Zenon
  <2>3. QED
    BY <2>2, Zenon
<1>5. Len(t) > 1 => Linked(p, t[Len(t) - 1], f)
  <2>1. SUFFICES ASSUME Len(t) > 1 PROVE Linked(p, t[Len(t) - 1], f)
    OBVIOUS
  <2>2. Len(s) > 2 /\ t[Len(t) - 1] = s[Len(s) - 2]
    BY <1>1, <1>2, <2>1
  <2>3. QED
    BY <2>2
<1>6. /\ ReplaceAt(t, Len(t), f) \in Seq(Frame)
      /\ ReplaceAt(t, Len(t), f) # <<>>
      /\ StackOK(p, m, ReplaceAt(t, Len(t), f))
  BY <1>2, <1>3, <1>4, <1>5, TopKeeps
<1>7. QED
  BY <1>2, <1>6 DEF t

-----------------------------------------------------------------------------
(* The loops on the stack *)

\* A step that leaves the loops on the stack where they are.
LEMMA SameLoops ==
  ASSUME NEW s \in Seq(Frame), NEW t \in Seq(Frame), NEW blks \in Seq(Nat),
         Matched(s, blks),
         \A j \in 1 .. Len(s) : s[j].at = "loop" =>
           j <= Len(t) /\ t[j].at = "loop" /\ t[j].after = s[j].after,
         \A j \in 1 .. Len(t) : t[j].at = "loop" => j <= Len(s) /\ s[j].at = "loop"
  PROVE  Matched(t, blks)
<1>1. Len(s) \in Nat /\ Len(t) \in Nat /\ Len(blks) \in Nat
  OBVIOUS
<1>2. PICK pos \in [1 .. Len(blks) -> 1 .. Len(s)] : MatchedBy(s, blks, pos)
  BY DEF Matched
<1>3. ASSUME NEW k \in 1 .. Len(blks)
      PROVE  pos[k] \in 1 .. Len(t) /\ t[pos[k]].at = "loop" /\ t[pos[k]].after = blks[k]
  <2>1. pos[k] \in 1 .. Len(s) /\ s[pos[k]].at = "loop" /\ s[pos[k]].after = blks[k]
    BY <1>2 DEF MatchedBy
  <2>2. QED
    BY <1>1, <2>1
<1>4. pos \in [1 .. Len(blks) -> 1 .. Len(t)]
  BY <1>2, <1>3
<1>5. ASSUME NEW j \in 1 .. Len(t), t[j].at = "loop"
      PROVE  \E k \in 1 .. Len(blks) : pos[k] = j
  <2>1. j \in 1 .. Len(s) /\ s[j].at = "loop"
    BY <1>1, <1>5
  <2>2. QED
    BY <1>2, <2>1 DEF MatchedBy
<1>6. MatchedBy(t, blks, pos)
  BY <1>2, <1>3, <1>5 DEF MatchedBy
<1>7. QED
  BY <1>4, <1>6 DEF Matched

\* A loop begins: its frame is pushed, and the block after it put in front.
LEMMA LoopPushed ==
  ASSUME NEW s \in Seq(Frame), NEW blks \in Seq(Nat), Matched(s, blks),
         NEW f \in Frame, f.at = "loop"
  PROVE  Matched(Append(s, f), <<f.after>> \o blks)
<1> DEFINE t == Append(s, f)
           all == <<f.after>> \o blks
<1>1. Len(s) \in Nat /\ Len(blks) \in Nat /\ f.after \in Nat
  BY DEF Frame
<1>2. /\ Len(t) = Len(s) + 1 /\ t[Len(s) + 1] = f
      /\ \A j \in 1 .. Len(s) : t[j] = s[j]
  BY <1>1, PushOn
<1>3. /\ Len(all) = Len(blks) + 1 /\ all[1] = f.after
      /\ \A k \in 1 .. Len(blks) : all[k + 1] = blks[k]
  BY <1>1
<1> HIDE DEF t, all
<1>4. PICK pos \in [1 .. Len(blks) -> 1 .. Len(s)] : MatchedBy(s, blks, pos)
  BY DEF Matched
<1> DEFINE new == [k \in 1 .. Len(all) |-> IF k = 1 THEN Len(s) + 1 ELSE pos[k - 1]]
<1>5. ASSUME NEW k \in 1 .. Len(all)
      PROVE  \/ k = 1 /\ new[k] = Len(s) + 1
             \/ k - 1 \in 1 .. Len(blks) /\ new[k] = pos[k - 1] /\ new[k] \in 1 .. Len(s)
  <2>1. new[k] = IF k = 1 THEN Len(s) + 1 ELSE pos[k - 1]
    OBVIOUS
  <2>2. k # 1 => k - 1 \in 1 .. Len(blks)
    BY <1>1, <1>3
  <2>3. k # 1 => pos[k - 1] \in 1 .. Len(s)
    BY <1>4, <2>2
  <2> HIDE DEF new
  <2>4. QED
    BY <2>1, <2>2, <2>3
<1>6. new \in [1 .. Len(all) -> 1 .. Len(t)]
  BY <1>1, <1>2, <1>5
<1> HIDE DEF new
<1>7. ASSUME NEW k \in 1 .. Len(all)
      PROVE  t[new[k]].at = "loop" /\ t[new[k]].after = all[k]
  <2>1. CASE k = 1
    BY <1>1, <1>2, <1>3, <1>5, <2>1
  <2>2. CASE k # 1
    <3>1. k - 1 \in 1 .. Len(blks) /\ new[k] = pos[k - 1] /\ new[k] \in 1 .. Len(s)
      BY <1>5, <2>2
    <3>2. all[k] = blks[k - 1]
      <4>1. (k - 1) + 1 = k
        BY <1>1, <1>3
      <4>2. QED
        BY <1>3, <3>1, <4>1
    <3>3. s[pos[k - 1]].at = "loop" /\ s[pos[k - 1]].after = blks[k - 1]
      BY <1>4, <3>1 DEF MatchedBy
    <3>4. t[new[k]] = s[pos[k - 1]]
      BY <1>2, <3>1
    <3>5. QED
      BY <3>2, <3>3, <3>4
  <2>3. QED
    BY <2>1, <2>2
<1>8. ASSUME NEW k \in 1 .. Len(all), NEW l \in 1 .. Len(all), k < l
      PROVE  new[l] < new[k]
  <2>1. l - 1 \in 1 .. Len(blks) /\ new[l] = pos[l - 1] /\ new[l] \in 1 .. Len(s)
    BY <1>1, <1>3, <1>5, <1>8
  <2>2. CASE k = 1
    BY <1>1, <1>5, <2>1, <2>2
  <2>3. CASE k # 1
    <3>1. k - 1 \in 1 .. Len(blks) /\ new[k] = pos[k - 1] /\ k - 1 < l - 1
      BY <1>1, <1>3, <1>5, <1>8, <2>3
    <3>2. QED
      BY <1>4, <2>1, <3>1 DEF MatchedBy
  <2>4. QED
    BY <2>2, <2>3
<1>9. ASSUME NEW j \in 1 .. Len(t), t[j].at = "loop"
      PROVE  \E k \in 1 .. Len(all) : new[k] = j
  <2>1. CASE j = Len(s) + 1
    <3>1. 1 \in 1 .. Len(all) /\ new[1] = Len(s) + 1
      BY <1>1, <1>3, <1>5
    <3>2. QED
      BY <2>1, <3>1
  <2>2. CASE j # Len(s) + 1
    <3>1. j \in 1 .. Len(s) /\ s[j].at = "loop"
      BY <1>1, <1>2, <1>9, <2>2
    <3>2. PICK k \in 1 .. Len(blks) : pos[k] = j
      BY <1>4, <3>1 DEF MatchedBy
    <3>3. k + 1 \in 1 .. Len(all) /\ k + 1 # 1 /\ (k + 1) - 1 = k
      BY <1>1, <1>3
    <3>4. new[k + 1] = j
      BY <1>5, <3>2, <3>3
    <3>5. QED
      BY <3>3, <3>4
  <2>3. QED
    BY <2>1, <2>2
<1>10. MatchedBy(t, all, new)
  BY <1>7, <1>8, <1>9 DEF MatchedBy
<1>11. QED
  BY <1>6, <1>10 DEF Matched, t, all

\* The innermost loop ends: its frame is popped, and with it the first block.
LEMMA LoopPopped ==
  ASSUME NEW s \in Seq(Frame), s # <<>>, NEW blks \in Seq(Nat), Matched(s, blks),
         s[Len(s)].at = "loop"
  PROVE  /\ blks # <<>> /\ Head(blks) = s[Len(s)].after
         /\ Matched(Front(s), Tail(blks))
<1> DEFINE t == Front(s)
           rest == Tail(blks)
<1>1. Len(s) \in Nat \ {0} /\ Len(blks) \in Nat
  BY EmptySeq
<1>2. t \in Seq(Frame) /\ Len(t) = Len(s) - 1 /\ \A j \in 1 .. Len(s) - 1 : t[j] = s[j]
  BY <1>1, FrontOf
<1>3. PICK pos \in [1 .. Len(blks) -> 1 .. Len(s)] : MatchedBy(s, blks, pos)
  BY DEF Matched
<1>4. 1 \in 1 .. Len(blks) /\ pos[1] = Len(s)
  <2>1. PICK k \in 1 .. Len(blks) : pos[k] = Len(s)
    BY <1>1, <1>3 DEF MatchedBy
  <2>2. 1 \in 1 .. Len(blks)
    BY <1>1
  <2>3. ASSUME k # 1 PROVE FALSE
    <3>1. 1 < k
      BY <1>1, <2>3
    <3>2. pos[k] < pos[1] /\ pos[1] \in 1 .. Len(s)
      BY <1>3, <2>2, <3>1 DEF MatchedBy
    <3>3. QED
      BY <1>1, <2>1, <3>2
  <2>4. QED
    BY <2>1, <2>2, <2>3
<1>5. blks # <<>> /\ Head(blks) = s[Len(s)].after
  <2>1. blks # <<>> /\ Head(blks) = blks[1]
    BY <1>1, <1>4
  <2>2. s[pos[1]].after = blks[1]
    BY <1>3, <1>4 DEF MatchedBy
  <2>3. QED
    BY <1>4, <2>1, <2>2
<1>6. /\ Len(rest) = Len(blks) - 1
      /\ \A k \in 1 .. Len(blks) - 1 : rest[k] = blks[k + 1]
  BY <1>1, <1>5
<1> HIDE DEF t, rest
<1> DEFINE new == [k \in 1 .. Len(rest) |-> pos[k + 1]]
<1>7. ASSUME NEW k \in 1 .. Len(rest)
      PROVE  /\ k + 1 \in 1 .. Len(blks) /\ new[k] = pos[k + 1]
             /\ new[k] \in 1 .. Len(t) /\ t[new[k]] = s[pos[k + 1]]
  <2>1. k + 1 \in 1 .. Len(blks) /\ 1 < k + 1
    BY <1>1, <1>6
  <2>2. new[k] = pos[k + 1]
    OBVIOUS
  <2>3. pos[k + 1] \in 1 .. Len(s) /\ pos[k + 1] < pos[1]
    BY <1>3, <1>4, <2>1 DEF MatchedBy
  <2>4. new[k] \in 1 .. Len(t)
    BY <1>1, <1>2, <1>4, <2>2, <2>3
  <2>5. QED
    BY <1>1, <1>2, <2>1, <2>2, <2>4
<1>8. new \in [1 .. Len(rest) -> 1 .. Len(t)]
  BY <1>7
<1> HIDE DEF new
<1>9. ASSUME NEW k \in 1 .. Len(rest)
      PROVE  t[new[k]].at = "loop" /\ t[new[k]].after = rest[k]
  <2>1. rest[k] = blks[k + 1]
    BY <1>6
  <2>2. QED
    BY <1>3, <1>7, <2>1 DEF MatchedBy
<1>10. ASSUME NEW k \in 1 .. Len(rest), NEW l \in 1 .. Len(rest), k < l
       PROVE  new[l] < new[k]
  <2>1. k + 1 < l + 1
    BY <1>1, <1>6, <1>10
  <2>2. QED
    BY <1>3, <1>7, <2>1 DEF MatchedBy
<1>11. ASSUME NEW j \in 1 .. Len(t), t[j].at = "loop"
       PROVE  \E k \in 1 .. Len(rest) : new[k] = j
  <2>1. j \in 1 .. Len(s) /\ j # Len(s) /\ s[j].at = "loop"
    BY <1>1, <1>2, <1>11
  <2>2. PICK k \in 1 .. Len(blks) : pos[k] = j
    BY <1>3, <2>1 DEF MatchedBy
  <2>3. k # 1
    BY <1>4, <2>1, <2>2
  <2>4. k - 1 \in 1 .. Len(rest) /\ (k - 1) + 1 = k
    BY <1>1, <1>6, <2>3
  <2>5. new[k - 1] = j
    BY <1>7, <2>2, <2>4
  <2>6. QED
    BY <2>4, <2>5
<1>12. MatchedBy(t, rest, new)
  BY <1>9, <1>10, <1>11 DEF MatchedBy
<1>13. QED
  BY <1>5, <1>8, <1>12 DEF Matched, t, rest

-----------------------------------------------------------------------------
(* What the invariant says of the innermost call *)

\* The type invariant, as the provers use it.
LEMMA Types ==
  ASSUME Inv
  PROVE  /\ fn \in Seq(Seq(Stmt)) /\ code \in Seq(Instr)
         /\ blocks \in Nat \ {0} /\ insert \in Nat
         /\ loop_blocks \in Seq(Nat)
         /\ stack \in Seq(Frame) /\ stack # <<>>
         /\ Len(code) \in Nat
<1>1. TypeOK
  BY DEF Inv
<1>2. 1 .. blocks \subseteq Nat
  BY <1>1 DEF TypeOK
<1>3. loop_blocks \in Seq(Nat)
  BY <1>1, <1>2, SeqMonotonic DEF TypeOK
<1>4. QED
  BY <1>1, <1>3 DEF TypeOK, IsFunction

\* The innermost call and its caller.
LEMMA TopOK ==
  ASSUME Inv, Running
  PROVE  /\ Len(stack) \in Nat \ {0}
         /\ Top = stack[Len(stack)] /\ Top \in Frame /\ FrameOK(fn, blocks, Top)
         /\ Len(stack) = 1 => Top.at = "function"
         /\ Top.at # "function" =>
              /\ Len(stack) > 1
              /\ Caller \in Frame /\ FrameOK(fn, blocks, Caller)
              /\ Linked(fn, Caller, Top)
<1>1. stack \in Seq(Frame) /\ stack # <<>> /\ StackOK(fn, blocks, stack)
  BY Types DEF Inv
<1>2. Len(stack) \in Nat \ {0} /\ Top = stack[Len(stack)] /\ Top \in Frame
  BY <1>1, LastOf DEF Top
<1>3. FrameOK(fn, blocks, Top)
  BY <1>1, <1>2 DEF StackOK
<1>4. Len(stack) = 1 => Top.at = "function"
  BY <1>1, <1>2 DEF StackOK
<1>5. ASSUME Top.at # "function"
      PROVE  /\ Len(stack) > 1
             /\ Caller \in Frame /\ FrameOK(fn, blocks, Caller)
             /\ Linked(fn, Caller, Top)
  <2>1. Len(stack) > 1
    BY <1>2, <1>4, <1>5, SMTT(20)
  <2>2. Len(stack) - 1 \in 1 .. Len(stack)
    BY <1>2, <2>1
  <2>3. Caller \in Frame /\ FrameOK(fn, blocks, Caller)
    BY <1>1, <2>2, ElementOfSeq DEF Caller, StackOK
  <2>4. Linked(fn, Caller, Top)
    BY <1>1, <1>2, <2>1 DEF Caller, StackOK
  <2>5. QED
    BY <2>1, <2>3, <2>4
<1>6. QED
  BY <1>2, <1>3, <1>4, <1>5

\* The statement that is generated next.
LEMMA ThisOK ==
  ASSUME Inv, InBody
  PROVE  /\ Top.body \in 1 .. Len(fn) /\ Top.i \in 1 .. Len(fn[Top.body])
         /\ This \in Stmt
         /\ Name \in Seq(Nat)
         /\ This.op \in Nests => This.body \in 1 .. Len(fn)
         /\ This.op = "ifelse" => This.orelse \in 1 .. Len(fn)
<1>1. IsFunction(fn) /\ fn \in Seq(Seq(Stmt)) /\ Len(fn) \in Nat
  BY Types DEF Inv, TypeOK
<1>2. Top \in Frame /\ FrameOK(fn, blocks, Top)
  BY TopOK DEF InBody
<1>3. Top.body \in 1 .. Len(fn) /\ Top.i \in Nat
  BY <1>2 DEF FrameOK, Frame, InBody
<1>4. fn[Top.body] \in Seq(Stmt) /\ Len(fn[Top.body]) \in Nat
  BY <1>1, <1>3, ElementOfSeq
<1>5. Top.i \in 1 .. Len(fn[Top.body])
  BY <1>2, <1>3, <1>4 DEF FrameOK, InBody, Body
<1>6. This = fn[Top.body][Top.i] /\ This \in Stmt
  BY <1>4, <1>5, ElementOfSeq DEF This, Body
<1>7. Name \in Seq(Nat)
  BY <1>3 DEF Name
<1>8. /\ This.op \in Nests => This.body \in Top.body + 1 .. Len(fn)
      /\ This.op = "ifelse" => This.orelse \in Top.body + 1 .. Len(fn)
  BY <1>1, <1>3, <1>5, <1>6 DEF IsFunction
<1>9. QED
  BY <1>1, <1>3, <1>5, <1>6, <1>7, <1>8, SMTT(30)

\* The innermost call goes on as the frame f.
LEMMA GoesOn ==
  ASSUME Inv, Running, NEW m \in Nat, blocks <= m,
         NEW f \in Frame, FrameOK(fn, m, f),
         Top.at # "loop", f.at # "loop",
         Len(stack) = 1 => f.at = "function",
         Len(stack) > 1 => Linked(fn, Caller, f)
  PROVE  /\ ReplaceAt(stack, Len(stack), f) \in Seq(Frame)
         /\ ReplaceAt(stack, Len(stack), f) # <<>>
         /\ StackOK(fn, m, ReplaceAt(stack, Len(stack), f))
         /\ Matched(ReplaceAt(stack, Len(stack), f), loop_blocks)
<1> DEFINE t == ReplaceAt(stack, Len(stack), f)
<1>1. /\ stack \in Seq(Frame) /\ stack # <<>> /\ blocks \in Nat
      /\ StackOK(fn, blocks, stack) /\ Matched(stack, loop_blocks)
      /\ loop_blocks \in Seq(Nat)
  BY Types DEF Inv
<1>2. Len(stack) \in Nat \ {0} /\ Top = stack[Len(stack)]
  BY TopOK
<1>3. t \in Seq(Frame) /\ t # <<>> /\ StackOK(fn, m, t)
  BY <1>1, TopKeeps DEF Caller
<1>4. /\ Len(t) = Len(stack) /\ t[Len(stack)] = f
      /\ \A j \in 1 .. Len(stack) : j # Len(stack) => t[j] = stack[j]
  BY <1>1, SetLastOf
<1> HIDE DEF t
<1>5. \A j \in 1 .. Len(stack) : stack[j].at = "loop" =>
        j <= Len(t) /\ t[j].at = "loop" /\ t[j].after = stack[j].after
  BY <1>2, <1>4
<1>6. \A j \in 1 .. Len(t) : t[j].at = "loop" => j <= Len(stack) /\ stack[j].at = "loop"
  BY <1>2, <1>4
<1>7. Matched(t, loop_blocks)
  BY <1>1, <1>3, <1>5, <1>6, SameLoops
<1>8. QED
  BY <1>3, <1>7 DEF t

\* A call of the frame f.
LEMMA Calls ==
  ASSUME Inv, Running, NEW m \in Nat, blocks <= m,
         NEW f \in Frame, FrameOK(fn, m, f), Linked(fn, Top, f)
  PROVE  /\ Append(stack, f) \in Seq(Frame) /\ Append(stack, f) # <<>>
         /\ StackOK(fn, m, Append(stack, f))
         /\ f.at # "loop" => Matched(Append(stack, f), loop_blocks)
         /\ f.at = "loop" => Matched(Append(stack, f), <<f.after>> \o loop_blocks)
<1> DEFINE t == Append(stack, f)
<1>1. /\ stack \in Seq(Frame) /\ stack # <<>> /\ blocks \in Nat
      /\ StackOK(fn, blocks, stack) /\ Matched(stack, loop_blocks)
      /\ loop_blocks \in Seq(Nat)
  BY Types DEF Inv
<1>2. t \in Seq(Frame) /\ t # <<>> /\ StackOK(fn, m, t)
  BY <1>1, PushKeeps DEF Top
<1>3. /\ Len(stack) \in Nat /\ Len(t) = Len(stack) + 1
      /\ \A j \in 1 .. Len(stack) + 1 : t[j] = IF j = Len(stack) + 1 THEN f ELSE stack[j]
  BY <1>1, PushOn
<1> HIDE DEF t
<1>4. ASSUME f.at # "loop" PROVE Matched(t, loop_blocks)
  <2>1. \A j \in 1 .. Len(stack) : stack[j].at = "loop" =>
          j <= Len(t) /\ t[j].at = "loop" /\ t[j].after = stack[j].after
    BY <1>3
  <2>2. \A j \in 1 .. Len(t) : t[j].at = "loop" => j <= Len(stack) /\ stack[j].at = "loop"
    BY <1>3, <1>4
  <2>3. QED
    BY <1>1, <1>2, <2>1, <2>2, SameLoops
<1>5. f.at = "loop" => Matched(t, <<f.after>> \o loop_blocks)
  BY <1>1, LoopPushed DEF t
<1>6. QED
  BY <1>2, <1>4, <1>5 DEF t

\* The innermost call returns, and its caller goes on as the frame g.
LEMMA GoesBack ==
  ASSUME Inv, Running, Top.at # "function",
         NEW g \in Frame, FrameOK(fn, blocks, g),
         g.at = Caller.at, g.after = Caller.after, g.orelse = Caller.orelse
  PROVE  LET t == ReplaceAt(Front(stack), Len(stack) - 1, g) IN
         /\ t \in Seq(Frame) /\ t # <<>>
         /\ StackOK(fn, blocks, t)
         /\ Top.at # "loop" => Matched(t, loop_blocks)
         /\ Top.at = "loop" => /\ loop_blocks # <<>>
                               /\ Matched(t, Tail(loop_blocks))
<1> DEFINE rest == Front(stack)
           t == ReplaceAt(rest, Len(stack) - 1, g)
<1>1. /\ stack \in Seq(Frame) /\ stack # <<>> /\ blocks \in Nat
      /\ StackOK(fn, blocks, stack) /\ Matched(stack, loop_blocks)
      /\ loop_blocks \in Seq(Nat)
  BY Types DEF Inv
<1>2. /\ Len(stack) \in Nat /\ Len(stack) > 1 /\ Top = stack[Len(stack)]
      /\ Caller = stack[Len(stack) - 1]
  BY TopOK DEF Caller
<1>3. Len(stack) = 2 => g.at = "function"
  BY <1>1, <1>2 DEF StackOK
<1>4. Len(stack) > 2 => Linked(fn, stack[Len(stack) - 2], g)
  <2>1. SUFFICES ASSUME Len(stack) > 2 PROVE Linked(fn, stack[Len(stack) - 2], g)
    OBVIOUS
  <2>2. /\ Len(stack) - 1 \in 1 .. Len(stack) /\ Len(stack) - 1 > 1
        /\ (Len(stack) - 1) - 1 = Len(stack) - 2
    BY <1>2, <2>1
  <2>3. Linked(fn, stack[Len(stack) - 2], Caller)
    BY <1>1, <1>2, <2>2 DEF StackOK
  <2>4. QED
    BY <2>3 DEF Linked
<1>5. t \in Seq(Frame) /\ t # <<>> /\ StackOK(fn, blocks, t)
  <2>1. blocks <= blocks
    BY <1>1
  <2>2. /\ ReplaceAt(Front(stack), Len(stack) - 1, g) \in Seq(Frame)
        /\ ReplaceAt(Front(stack), Len(stack) - 1, g) # <<>>
        /\ StackOK(fn, blocks, ReplaceAt(Front(stack), Len(stack) - 1, g))
    <3> HIDE DEF t, rest
    <3>1. QED
      BY <1>1, <1>2, <1>3, <1>4, <2>1, PopKeeps
  <2>3. QED
    BY <2>2
<1>6. /\ rest \in Seq(Frame) /\ rest # <<>> /\ Len(rest) = Len(stack) - 1
      /\ \A j \in 1 .. Len(stack) - 1 : rest[j] = stack[j]
  BY <1>1, <1>2, FrontOf
<1> HIDE DEF rest
<1>7. /\ Len(t) = Len(stack) - 1 /\ t[Len(stack) - 1] = g
      /\ \A j \in 1 .. Len(stack) - 1 : j # Len(stack) - 1 => t[j] = rest[j]
  <2>1. t = ReplaceAt(rest, Len(rest), g)
    BY <1>6
  <2> HIDE DEF t
  <2>2. /\ Len(t) = Len(rest) /\ t[Len(rest)] = g
        /\ \A j \in 1 .. Len(rest) : j # Len(rest) => t[j] = rest[j]
    <3>1. rest \in Seq(Frame) /\ rest # <<>>
      BY <1>6
    <3>2. /\ Len(ReplaceAt(rest, Len(rest), g)) = Len(rest)
          /\ ReplaceAt(rest, Len(rest), g)[Len(rest)] = g
          /\ \A j \in 1 .. Len(rest) :
               j # Len(rest) => ReplaceAt(rest, Len(rest), g)[j] = rest[j]
      BY <3>1, SetLastOf
    <3>3. QED
      BY <2>1, <3>2
  <2>3. QED
    BY <1>6, <2>2
<1> HIDE DEF t
<1>8. \A j \in 1 .. Len(t) :
        j \in 1 .. Len(rest) /\ t[j].at = rest[j].at /\ t[j].after = rest[j].after
  <2>1. TAKE j \in 1 .. Len(t)
  <2>2. CASE j = Len(stack) - 1
    BY <1>2, <1>6, <1>7, <2>2
  <2>3. CASE j # Len(stack) - 1
    BY <1>2, <1>6, <1>7, <2>3
  <2>4. QED
    BY <2>2, <2>3
<1>9. Len(t) = Len(rest) /\ Len(rest) \in Nat
  BY <1>2, <1>6, <1>7
<1>10. ASSUME NEW blks \in Seq(Nat), Matched(rest, blks) PROVE Matched(t, blks)
  <2>1. \A j \in 1 .. Len(rest) : rest[j].at = "loop" =>
          j <= Len(t) /\ t[j].at = "loop" /\ t[j].after = rest[j].after
    BY <1>8, <1>9
  <2>2. \A j \in 1 .. Len(t) : t[j].at = "loop" => j <= Len(rest) /\ rest[j].at = "loop"
    BY <1>8, <1>9
  <2>3. QED
    BY <1>5, <1>6, <1>10, <2>1, <2>2, SameLoops
<1>11. ASSUME Top.at # "loop" PROVE Matched(t, loop_blocks)
  <2>1. \A j \in 1 .. Len(stack) : stack[j].at = "loop" =>
          j <= Len(rest) /\ rest[j].at = "loop" /\ rest[j].after = stack[j].after
    <3>1. TAKE j \in 1 .. Len(stack)
    <3>2. HAVE stack[j].at = "loop"
    <3>3. j # Len(stack)
      BY <1>2, <1>11, <3>2
    <3>4. j \in 1 .. Len(stack) - 1 /\ j <= Len(rest)
      BY <1>2, <1>6, <3>3
    <3>5. QED
      BY <1>6, <3>2, <3>4
  <2>2. \A j \in 1 .. Len(rest) : rest[j].at = "loop" =>
          j <= Len(stack) /\ stack[j].at = "loop"
    BY <1>2, <1>6
  <2>3. Matched(rest, loop_blocks)
    BY <1>1, <1>6, <2>1, <2>2, SameLoops
  <2>4. QED
    BY <1>1, <1>10, <2>3
<1>12. ASSUME Top.at = "loop"
       PROVE  loop_blocks # <<>> /\ Matched(t, Tail(loop_blocks))
  <2>1. loop_blocks # <<>> /\ Matched(rest, Tail(loop_blocks))
    BY <1>1, <1>2, <1>12, LoopPopped DEF rest
  <2>2. Tail(loop_blocks) \in Seq(Nat)
    BY <1>1, <2>1
  <2>3. QED
    BY <1>10, <2>1, <2>2
<1>13. QED
  BY <1>5, <1>11, <1>12 DEF t, rest

-----------------------------------------------------------------------------
(* Each action preserves it *)

\* What the record of an instruction holds.
LEMMA Builds ==
  ASSUME NEW op \in {"call", "br", "condbr", "ret", "phi"}, NEW block \in Nat,
         NEW stmt \in Seq(Nat), NEW to \in Seq(Nat),
         NEW args \in Seq(Nat), NEW from \in Seq(Nat)
  PROVE  /\ Build(op, block, stmt, to) \in Instr
         /\ [Build(op, block, stmt, to) EXCEPT !.args = args] \in Instr
         /\ [Build(op, block, stmt, to) EXCEPT !.args = args, !.from = from] \in Instr
<1>1. Build(op, block, stmt, to) \in Instr
  BY EmptySeq DEF Build, Instr
<1>2. ASSUME NEW b \in Instr
      PROVE  [b EXCEPT !.args = args] \in Instr /\ [b EXCEPT !.from = from] \in Instr
  BY DEF Instr
<1> DEFINE c == [Build(op, block, stmt, to) EXCEPT !.args = args]
<1>3. c \in Instr
  BY <1>1, <1>2
<1>4. [c EXCEPT !.from = from] \in Instr
  BY <1>2, <1>3
<1>5. QED
  BY <1>1, <1>3, <1>4

\* What the record of a call holds.
LEMMA CallFrame ==
  ASSUME NEW at \in {"function", "then", "else", "loop", "deferred", "defers"},
         NEW body \in Nat, NEW after \in Nat, NEW orelse \in Nat
  PROVE  /\ Call(at, body, after, orelse) \in Frame
         /\ Call(at, body, after, orelse).at = at
         /\ Call(at, body, after, orelse).body = body
         /\ Call(at, body, after, orelse).i = 1
         /\ Call(at, body, after, orelse).after = after
         /\ Call(at, body, after, orelse).orelse = orelse
BY DEF Call, Frame

\* All that the frame after a statement holds.
LEMMA AfterIs ==
  ASSUME NEW f \in Frame, NEW v \in Nat
  PROVE  LET g == After(f, v) IN
         /\ g \in Frame /\ g.at = f.at /\ g.body = f.body /\ g.i = f.i + 1 /\ g.value = v
         /\ g.returns = f.returns /\ g.after = f.after /\ g.orelse = f.orelse
         /\ g.thenValue = f.thenValue /\ g.thenBlock = f.thenBlock
<1> DEFINE g == [f EXCEPT !.i = f.i + 1]
           h == [g EXCEPT !.value = v]
<1>1. f.i + 1 \in Nat
  BY DEF Frame
<1>2. /\ g \in Frame /\ g.at = f.at /\ g.body = f.body /\ g.i = f.i + 1
      /\ g.returns = f.returns /\ g.after = f.after /\ g.orelse = f.orelse
      /\ g.thenValue = f.thenValue /\ g.thenBlock = f.thenBlock
  BY <1>1 DEF Frame
<1> HIDE DEF g
<1>3. /\ h \in Frame /\ h.at = g.at /\ h.body = g.body /\ h.i = g.i /\ h.value = v
      /\ h.returns = g.returns /\ h.after = g.after /\ h.orelse = g.orelse
      /\ h.thenValue = g.thenValue /\ h.thenBlock = g.thenBlock
  BY <1>2 DEF Frame
<1>4. After(f, v) = h
  BY DEF After, g
<1> HIDE DEF h
<1>5. QED
  BY <1>2, <1>3, <1>4

\* Once the types are known, a step that gives no verdict has only the stack
\* to look after.
LEMMA Resumes ==
  ASSUME TypeOK', outcome' \in {"running", "exit", "overflow"},
         outcome' = "running" =>
           StackOK(fn', blocks', stack') /\ Matched(stack', loop_blocks')
  PROVE  Inv'
BY DEF Inv, Running, LoopsLeft

\* The innermost call goes on with the next statement.
LEMMA Advances ==
  ASSUME Inv, InBody, NEW v \in Nat, NEW m \in Nat, blocks <= m
  PROVE  LET t == ReplaceAt(stack, Len(stack), After(Top, v)) IN
         /\ t \in Seq(Frame) /\ t # <<>>
         /\ StackOK(fn, m, t)
         /\ Matched(t, loop_blocks)
<1> DEFINE f == After(Top, v)
<1>1. Running /\ Top.at # "defers"
  BY DEF InBody
<1>2. /\ Top \in Frame /\ FrameOK(fn, blocks, Top) /\ Len(stack) \in Nat \ {0}
      /\ Top = stack[Len(stack)]
      /\ Len(stack) = 1 => Top.at = "function"
      /\ Top.at # "function" => Linked(fn, Caller, Top)
  BY <1>1, TopOK
<1>3. /\ f \in Frame /\ f.at = Top.at /\ f.body = Top.body /\ f.after = Top.after
      /\ f.orelse = Top.orelse /\ f.i = Top.i + 1
  BY <1>2, AfterIs
<1> HIDE DEF f
<1>4. Top.i \in 1 .. Len(fn[Top.body]) /\ Top.body \in 1 .. Len(fn) /\ blocks \in Nat
  BY ThisOK, Types
<1>5. FrameOK(fn, m, f)
  BY <1>2, <1>3, <1>4 DEF FrameOK
<1>6. /\ stack \in Seq(Frame) /\ stack # <<>> /\ StackOK(fn, blocks, stack)
      /\ Matched(stack, loop_blocks) /\ loop_blocks \in Seq(Nat)
  BY <1>1, Types DEF Inv
<1>7. Len(stack) > 1 => Linked(fn, stack[Len(stack) - 1], f)
  <2>1. Len(stack) > 1 => Linked(fn, stack[Len(stack) - 1], Top)
    BY <1>2, <1>6 DEF StackOK
  <2>2. QED
    BY <1>3, <2>1 DEF Linked
<1> DEFINE t == ReplaceAt(stack, Len(stack), f)
<1>8. t \in Seq(Frame) /\ t # <<>> /\ StackOK(fn, m, t)
  BY <1>2, <1>3, <1>4, <1>5, <1>6, <1>7, TopKeeps
<1>9. /\ Len(t) = Len(stack) /\ t[Len(stack)] = f
      /\ \A j \in 1 .. Len(stack) : j # Len(stack) => t[j] = stack[j]
  BY <1>3, <1>6, SetLastOf
<1> HIDE DEF t
<1>10. \A j \in 1 .. Len(stack) : t[j].at = stack[j].at /\ t[j].after = stack[j].after
  <2>1. TAKE j \in 1 .. Len(stack)
  <2>2. CASE j = Len(stack)
    BY <1>2, <1>3, <1>9, <2>2
  <2>3. CASE j # Len(stack)
    BY <1>9, <2>3
  <2>4. QED
    BY <2>2, <2>3
<1>11. Matched(t, loop_blocks)
  <2>1. \A j \in 1 .. Len(stack) : stack[j].at = "loop" =>
          j <= Len(t) /\ t[j].at = "loop" /\ t[j].after = stack[j].after
    BY <1>2, <1>9, <1>10
  <2>2. \A j \in 1 .. Len(t) : t[j].at = "loop" => j <= Len(stack) /\ stack[j].at = "loop"
    BY <1>2, <1>9, <1>10
  <2>3. QED
    BY <1>6, <1>8, <2>1, <2>2, SameLoops
<1>12. QED
  BY <1>8, <1>11 DEF t, f

\* What the types of a step need; the function does not change.
LEMMA TypesKept ==
  ASSUME Inv, fn' = fn, code' \in Seq(Instr),
         blocks' \in Nat, blocks <= blocks', insert' \in 1 .. blocks',
         loop_blocks' \in Seq(1 .. blocks'), defer_blocks' \in Seq(1 .. Len(fn)),
         stack' \in Seq(Frame), stack' # <<>>,
         outcome' \in {"running", "accepted", "rejected", "exit", "overflow"}
  PROVE  TypeOK'
BY DEF Inv, TypeOK

\* The blocks after the loops stay blocks when more are made.
LEMMA LoopBlocksStay ==
  ASSUME Inv, NEW m \in Nat, blocks <= m
  PROVE  loop_blocks \in Seq(1 .. m)
<1>1. loop_blocks \in Seq(1 .. blocks) /\ blocks \in Nat
  BY DEF Inv, TypeOK
<1>2. 1 .. blocks \subseteq 1 .. m
  BY <1>1
<1>3. QED
  BY <1>1, <1>2, SeqMonotonic

\* A statement that generates code, or an expression.
LEMMA CallStmtPreserves ==
  ASSUME Inv, CallStmt
  PROVE  Inv'
<1> DEFINE v == IF This.op \in Valued THEN Len(code) + 1 ELSE 0
<1>1. InBody /\ Running
  BY DEF CallStmt, InBody
<1>2. /\ code \in Seq(Instr) /\ blocks \in Nat /\ insert \in Nat /\ Name \in Seq(Nat)
      /\ v \in Nat
  BY <1>1, Types, ThisOK
<1>3. code' \in Seq(Instr)
  <2>1. Build("call", insert, Name, <<>>) \in Instr
    BY <1>2, Builds, EmptySeq
  <2>2. QED
    BY <1>2, <2>1 DEF CallStmt
<1>4. /\ fn' = fn /\ blocks' = blocks /\ insert' = insert
      /\ loop_blocks' = loop_blocks /\ defer_blocks' = defer_blocks /\ outcome' = outcome
      /\ stack' = ReplaceAt(stack, Len(stack), After(Top, v))
  BY DEF CallStmt, Advance
<1> HIDE DEF v
<1>5. /\ stack' \in Seq(Frame) /\ stack' # <<>>
      /\ StackOK(fn, blocks, stack') /\ Matched(stack', loop_blocks)
  BY <1>1, <1>2, <1>4, Advances
<1>6. TypeOK'
  BY <1>2, <1>3, <1>4, <1>5, TypesKept DEF Inv, TypeOK
<1>7. QED
  BY <1>1, <1>4, <1>5, <1>6, Resumes DEF Running

\* A break: what follows goes to a block of its own.
LEMMA BreakStmtPreserves ==
  ASSUME Inv, BreakStmt
  PROVE  Inv'
<1>1. InBody /\ Running
  BY DEF BreakStmt, At, InBody
<1>2. /\ code \in Seq(Instr) /\ blocks \in Nat /\ insert \in Nat
      /\ loop_blocks \in Seq(Nat) /\ insert \in 1 .. blocks
  BY Types DEF Inv, TypeOK
<1>3. /\ fn' = fn /\ loop_blocks' = loop_blocks /\ defer_blocks' = defer_blocks
      /\ outcome' = outcome
      /\ stack' = ReplaceAt(stack, Len(stack), After(Top, 0))
  BY DEF BreakStmt, Advance
<1>4. /\ code' \in Seq(Instr) /\ blocks' \in Nat /\ blocks <= blocks'
      /\ insert' \in 1 .. blocks'
  <2>1. CASE loop_blocks = <<>>
    BY <1>2, <2>1 DEF BreakStmt, built
  <2>2. CASE loop_blocks # <<>>
    <3>1. Head(loop_blocks) \in Nat
      BY <1>2, <2>2
    <3>2. Br(insert, Head(loop_blocks)) \in Instr
      <4>1. <<Head(loop_blocks)>> \in Seq(Nat)
        BY <3>1
      <4>2. QED
        BY <1>2, <4>1, Builds, EmptySeq DEF Br
    <3>3. code' = Append(code, Br(insert, Head(loop_blocks)))
          /\ blocks' = blocks + 1 /\ insert' = blocks + 1
      BY <2>2 DEF BreakStmt
    <3>4. QED
      BY <1>2, <3>2, <3>3
  <2>3. QED
    BY <2>1, <2>2
<1>5. /\ stack' \in Seq(Frame) /\ stack' # <<>>
      /\ StackOK(fn, blocks', stack') /\ Matched(stack', loop_blocks)
  BY <1>1, <1>3, <1>4, Advances
<1>6. loop_blocks' \in Seq(1 .. blocks')
  BY <1>3, <1>4, LoopBlocksStay
<1>7. TypeOK'
  BY <1>3, <1>4, <1>5, <1>6, TypesKept DEF Inv, TypeOK
<1>8. QED
  BY <1>1, <1>3, <1>5, <1>7, Resumes DEF Running

\* A defer: its body is put in front of those deferred before.
LEMMA DeferStmtPreserves ==
  ASSUME Inv, DeferStmt
  PROVE  Inv'
<1>1. InBody /\ Running /\ This.op = "defer"
  BY DEF DeferStmt, At, InBody
<1>2. /\ fn' = fn /\ code' = code /\ blocks' = blocks /\ insert' = insert
      /\ loop_blocks' = loop_blocks
  BY DEF DeferStmt
<1>3. /\ TypeOK /\ blocks \in Nat /\ stack \in Seq(Frame) /\ stack # <<>>
  BY Types DEF Inv
<1>4. CASE /\ defer_blocks' = <<This.body>> \o defer_blocks
           /\ stack' = ReplaceAt(stack, Len(stack), After(Top, 0))
           /\ outcome' = outcome
  <2>1. This.body \in 1 .. Len(fn)
    BY <1>1, ThisOK DEF Nests
  <2>2. defer_blocks' \in Seq(1 .. Len(fn))
    <3>1. defer_blocks \in Seq(1 .. Len(fn)) /\ <<This.body>> \in Seq(1 .. Len(fn))
      BY <1>3, <2>1 DEF TypeOK
    <3>2. QED
      BY <1>4, <3>1, ConcatProperties
  <2>3. /\ stack' \in Seq(Frame) /\ stack' # <<>>
        /\ StackOK(fn, blocks, stack') /\ Matched(stack', loop_blocks)
    BY <1>1, <1>3, <1>4, Advances
  <2>4. TypeOK'
    BY <1>2, <1>3, <1>4, <2>2, <2>3, TypesKept DEF TypeOK
  <2>5. QED
    BY <1>1, <1>2, <1>4, <2>3, <2>4, Resumes DEF Running
<1>5. CASE outcome' = "overflow" /\ UNCHANGED <<defer_blocks, stack>>
  <2>1. TypeOK'
    BY <1>2, <1>3, <1>5, TypesKept DEF TypeOK
  <2>2. QED
    BY <1>5, <2>1, Resumes
<1>6. QED
  BY <1>4, <1>5 DEF DeferStmt, Advance

\* A call, if the stack has room for it.
LEMMA PushPreserves ==
  ASSUME Inv, Running, NEW f \in Frame, Push(f), fn' = fn, code' \in Seq(Instr),
         blocks' \in Nat, blocks <= blocks', insert' \in 1 .. blocks',
         defer_blocks' = defer_blocks,
         f.at = "loop" => loop_blocks' = <<f.after>> \o loop_blocks,
         f.at # "loop" => loop_blocks' = loop_blocks,
         FrameOK(fn, blocks', f), Linked(fn, Top, f)
  PROVE  Inv'
<1>1. TypeOK /\ stack \in Seq(Frame) /\ stack # <<>> /\ loop_blocks \in Seq(1 .. blocks')
  BY Types, LoopBlocksStay DEF Inv
<1>2. loop_blocks' \in Seq(1 .. blocks')
  <2>1. CASE f.at = "loop"
    <3>1. <<f.after>> \in Seq(1 .. blocks')
      BY <2>1 DEF FrameOK
    <3>2. QED
      BY <1>1, <2>1, <3>1, ConcatProperties
  <2>2. CASE f.at # "loop"
    BY <1>1, <2>2
  <2>3. QED
    BY <2>1, <2>2
<1>3. CASE stack' = Append(stack, f) /\ outcome' = outcome
  <2>1. /\ stack' \in Seq(Frame) /\ stack' # <<>>
        /\ StackOK(fn, blocks', stack') /\ Matched(stack', loop_blocks')
    BY <1>3, Calls
  <2>2. TypeOK'
    BY <1>1, <1>2, <1>3, <2>1, TypesKept DEF TypeOK
  <2>3. QED
    BY <1>3, <2>1, <2>2, Resumes DEF Running
<1>4. CASE outcome' = "overflow" /\ stack' = stack
  <2>1. TypeOK'
    BY <1>1, <1>2, <1>4, TypesKept DEF TypeOK
  <2>2. QED
    BY <1>4, <2>1, Resumes
<1>5. QED
  BY <1>3, <1>4 DEF Push

\* gen_codegen_defer_blocks() is called for a return or at the end of the function.
LEMMA DefersPushed ==
  ASSUME Inv, Running, Top.at # "defers",
         Top.i <= Len(fn[Top.body]) \/ Top.at = "function",
         Push(Call("defers", 0, 0, 0)),
         UNCHANGED <<fn, code, blocks, insert, loop_blocks, defer_blocks>>
  PROVE  Inv'
<1> DEFINE f == Call("defers", 0, 0, 0)
<1>1. f \in Frame /\ f.at = "defers" /\ f.i = 1
  BY CallFrame
<1> HIDE DEF f
<1>2. FrameOK(fn, blocks', f) /\ Linked(fn, Top, f)
  BY <1>1 DEF FrameOK, Linked
<1>3. /\ fn' = fn /\ code' = code /\ blocks' = blocks /\ insert' = insert
      /\ loop_blocks' = loop_blocks /\ defer_blocks' = defer_blocks
  OBVIOUS
<1>4. blocks \in Nat /\ blocks <= blocks /\ code \in Seq(Instr) /\ insert \in 1 .. blocks
  BY Types DEF Inv, TypeOK
<1>5. Push(f)
  BY DEF f
<1>6. QED
  BY <1>1, <1>2, <1>3, <1>4, <1>5, PushPreserves

\* A return statement.
LEMMA ReturnStmtPreserves ==
  ASSUME Inv, ReturnStmt
  PROVE  Inv'
<1>1. InBody /\ Running /\ Top.at # "defers"
  BY DEF ReturnStmt, At, InBody
<1>2. Top.i <= Len(fn[Top.body])
  BY DEF ReturnStmt, At, InBody, Body
<1>3. QED
  BY <1>1, <1>2, DefersPushed DEF ReturnStmt

\* The end of the function.
LEMMA BodyEndPreserves ==
  ASSUME Inv, BodyEnd
  PROVE  Inv'
BY DefersPushed DEF BodyEnd, BodyDone

\* The next of the deferred bodies.
LEMMA DeferredBodyPreserves ==
  ASSUME Inv, DeferredBody
  PROVE  Inv'
<1> DEFINE f == Call("deferred", defer_blocks[Top.i], 0, 0)
<1>1. Running /\ Top.at = "defers" /\ Top.i <= Len(defer_blocks)
  BY DEF DeferredBody, InDefers
<1>2. TypeOK /\ blocks \in Nat /\ code \in Seq(Instr) /\ insert \in 1 .. blocks
      /\ fn \in Seq(Seq(Stmt)) /\ Len(fn) \in Nat
  BY Types DEF Inv, TypeOK
<1>3. Top.i \in 1 .. Len(defer_blocks)
  BY <1>1, <1>2, TopOK DEF FrameOK, Frame, TypeOK
<1>4. defer_blocks[Top.i] \in 1 .. Len(fn)
  BY <1>2, <1>3, ElementOfSeq DEF TypeOK
<1>5. f \in Frame /\ f.at = "deferred" /\ f.i = 1 /\ f.body \in 1 .. Len(fn)
  <2>1. defer_blocks[Top.i] \in Nat /\ 0 \in Nat
    BY <1>2, <1>4
  <2>2. f = Call("deferred", defer_blocks[Top.i], 0, 0)
    OBVIOUS
  <2> HIDE DEF f
  <2>3. QED
    BY <1>4, <2>1, <2>2 DEF Call, Frame
<1> HIDE DEF f
<1>6. Len(fn[f.body]) \in Nat
  BY <1>2, <1>5, ElementOfSeq
<1>7. FrameOK(fn, blocks, f) /\ Linked(fn, Top, f)
  BY <1>1, <1>5, <1>6 DEF FrameOK, Linked
<1>8. /\ fn' = fn /\ code' = code /\ blocks' = blocks /\ insert' = insert
      /\ loop_blocks' = loop_blocks /\ defer_blocks' = defer_blocks /\ Push(f)
  BY DEF DeferredBody, f
<1>9. blocks <= blocks
  BY <1>2
<1>10. QED
  BY <1>1, <1>2, <1>5, <1>7, <1>8, <1>9, PushPreserves

\* The branch to the condition of an if or of a loop, and the branch behind it.
LEMMA Branches ==
  ASSUME NEW b \in Nat, NEW c \in Nat, NEW y \in Nat, NEW n \in Nat,
         NEW name \in Seq(Nat), NEW all \in Seq(Instr)
  PROVE  /\ Br(b, c) \in Instr /\ CondBr(c, name, y, n) \in Instr
         /\ all \o <<Br(b, c), CondBr(c, name, y, n)>> \in Seq(Instr)
         /\ Append(all, CondBr(c, name, y, n)) \in Seq(Instr)
         /\ Append(all, Br(b, c)) \in Seq(Instr)
<1>1. <<c>> \in Seq(Nat) /\ <<y, n>> \in Seq(Nat) /\ <<>> \in Seq(Nat)
  OBVIOUS
<1>2. Br(b, c) \in Instr /\ CondBr(c, name, y, n) \in Instr
  BY <1>1, Builds DEF Br, CondBr
<1>3. <<Br(b, c), CondBr(c, name, y, n)>> \in Seq(Instr)
  BY <1>2
<1>4. QED
  BY <1>2, <1>3, ConcatProperties

\* An if begins: its first branch is generated next.
LEMMA IfExprPreserves ==
  ASSUME Inv, IfExpr
  PROVE  Inv'
<1> DEFINE merge == IF This.op = "if" THEN blocks + 3 ELSE blocks + 4
           orelse == IF This.op = "if" THEN 0 ELSE blocks + 3
           f == Call("then", This.body, merge, orelse)
<1>1. InBody /\ Running /\ This.op \in {"if", "ifelse"}
  BY DEF IfExpr, InBody
<1>2. blocks \in Nat /\ code \in Seq(Instr) /\ insert \in Nat
      /\ fn \in Seq(Seq(Stmt)) /\ Len(fn) \in Nat
  BY Types
<1>3. /\ Top.i \in 1 .. Len(fn[Top.body]) /\ This.body \in 1 .. Len(fn) /\ Name \in Seq(Nat)
      /\ Top.at # "defers" /\ This = fn[Top.body][Top.i]
  BY <1>1, ThisOK DEF Nests, InBody, This, Body
<1>4. merge \in 1 .. merge /\ merge \in Nat /\ orelse \in 0 .. merge /\ blocks <= merge
      /\ blocks + 2 \in 1 .. merge /\ (orelse # 0 => This.op = "ifelse")
  BY <1>1, <1>2
<1>5. /\ fn' = fn /\ loop_blocks' = loop_blocks /\ defer_blocks' = defer_blocks
      /\ blocks' = merge /\ insert' = blocks + 2 /\ Push(f)
      /\ code' = code \o <<Br(insert, blocks + 1),
                           CondBr(blocks + 1, Name, blocks + 2, blocks + 3)>>
  BY DEF IfExpr
<1> HIDE DEF merge, orelse
<1>6. /\ f \in Frame /\ f.at = "then" /\ f.i = 1 /\ f.body = This.body
      /\ f.after = merge /\ f.orelse = orelse
  <2>1. This.body \in Nat /\ orelse \in Nat
    BY <1>2, <1>3, <1>4, SMTT(30)
  <2>2. f = Call("then", This.body, merge, orelse)
    OBVIOUS
  <2> HIDE DEF f
  <2>3. QED
    BY <1>4, <2>1, <2>2 DEF Call, Frame
<1> HIDE DEF f
<1>7. code' \in Seq(Instr)
  BY <1>2, <1>3, <1>5, Branches, SMTT(30)
<1>8. Len(fn[This.body]) \in Nat
  <2>1. fn[This.body] \in Seq(Stmt)
    BY <1>2, <1>3, ElementOfSeq
  <2>2. QED
    BY <2>1
<1>9. FrameOK(fn, merge, f)
  <2>1. f.body \in 1 .. Len(fn) /\ f.i <= Len(fn[f.body]) + 1
    <3>1. f.i = 1 /\ f.body = This.body /\ This.body \in 1 .. Len(fn)
      BY <1>3, <1>6
    <3>2. QED
      BY <1>8, <3>1
  <2>2. f.after \in 1 .. merge /\ f.orelse \in 0 .. merge /\ f.i >= 1
    BY <1>4, <1>6
  <2>3. QED
    BY <2>1, <2>2 DEF FrameOK
<1>10. Linked(fn, Top, f)
  BY <1>3, <1>4, <1>6 DEF Linked
<1>11. QED
  BY <1>1, <1>4, <1>5, <1>6, <1>7, <1>9, <1>10, PushPreserves

\* A loop begins: its body is generated next, and a break in it leaves for "end".
LEMMA WhileExprPreserves ==
  ASSUME Inv, WhileExpr
  PROVE  Inv'
<1> DEFINE end == blocks + 3
           f == Call("loop", This.body, end, blocks + 2)
<1>1. InBody /\ Running /\ This.op = "while"
  BY DEF WhileExpr, At, InBody
<1>2. blocks \in Nat /\ code \in Seq(Instr) /\ insert \in Nat
      /\ fn \in Seq(Seq(Stmt)) /\ Len(fn) \in Nat
  BY Types
<1>3. /\ Top.i \in 1 .. Len(fn[Top.body]) /\ This.body \in 1 .. Len(fn) /\ Name \in Seq(Nat)
      /\ Top.at # "defers"
  BY <1>1, ThisOK DEF Nests, InBody
<1>4. end \in 1 .. end /\ end \in Nat /\ blocks <= end /\ blocks + 2 \in 1 .. end
  BY <1>2
<1>5. /\ fn' = fn /\ loop_blocks' = <<end>> \o loop_blocks /\ defer_blocks' = defer_blocks
      /\ blocks' = end /\ insert' = blocks + 2 /\ Push(f)
      /\ code' = code \o <<Br(insert, blocks + 1),
                           CondBr(blocks + 1, Name, blocks + 2, blocks + 3)>>
  BY DEF WhileExpr
<1>6. f \in Frame /\ f.at = "loop" /\ f.i = 1 /\ f.body = This.body /\ f.after = end
  <2>1. This.body \in Nat /\ blocks + 2 \in Nat /\ end \in Nat
    BY <1>2, <1>3, <1>4
  <2>2. f = Call("loop", This.body, end, blocks + 2)
    OBVIOUS
  <2> HIDE DEF f
  <2>3. QED
    BY <2>1, <2>2 DEF Call, Frame
<1> HIDE DEF f, end
<1>7. code' \in Seq(Instr)
  BY <1>2, <1>3, <1>5, Branches, SMTT(30)
<1>8. Len(fn[This.body]) \in Nat
  <2>1. fn[This.body] \in Seq(Stmt)
    BY <1>2, <1>3, ElementOfSeq
  <2>2. QED
    BY <2>1
<1>9. FrameOK(fn, end, f) /\ Linked(fn, Top, f)
  BY <1>3, <1>4, <1>6, <1>8 DEF FrameOK, Linked
<1>10. QED
  BY <1>1, <1>4, <1>5, <1>6, <1>7, <1>9, PushPreserves

\* The statement that the caller of a branch or of the body of a loop waits in.
LEMMA CallerOK ==
  ASSUME Inv, Running, Top.at \in {"then", "else", "loop"}
  PROVE  /\ Caller \in Frame /\ Caller.at # "defers"
         /\ Caller.body \in 1 .. Len(fn)
         /\ Caller.i \in 1 .. Len(fn[Caller.body])
         /\ <<Caller.body, Caller.i>> \in Seq(Nat)
         /\ fn[Caller.body][Caller.i].op = "ifelse" =>
              fn[Caller.body][Caller.i].orelse \in 1 .. Len(fn)
         /\ Top.after \in 1 .. blocks
<1>1. IsFunction(fn) /\ fn \in Seq(Seq(Stmt)) /\ Len(fn) \in Nat /\ blocks \in Nat
  BY Types DEF Inv, TypeOK
<1>2. /\ Top \in Frame /\ FrameOK(fn, blocks, Top)
      /\ Caller \in Frame /\ FrameOK(fn, blocks, Caller) /\ Linked(fn, Caller, Top)
  BY TopOK
<1>3. Caller.at # "defers" /\ Caller.i <= Len(fn[Caller.body])
  BY <1>2 DEF Linked
<1>4. Caller.body \in 1 .. Len(fn) /\ Caller.i \in Nat /\ Caller.i >= 1
  BY <1>2, <1>3 DEF FrameOK, Frame
<1>5. fn[Caller.body] \in Seq(Stmt) /\ Len(fn[Caller.body]) \in Nat
  BY <1>1, <1>4, ElementOfSeq
<1>6. Caller.i \in 1 .. Len(fn[Caller.body])
  BY <1>3, <1>4, <1>5
<1>7. fn[Caller.body][Caller.i].op = "ifelse" =>
        fn[Caller.body][Caller.i].orelse \in Caller.body + 1 .. Len(fn)
  BY <1>1, <1>4, <1>6 DEF IsFunction
<1>8. fn[Caller.body][Caller.i].op = "ifelse" =>
        fn[Caller.body][Caller.i].orelse \in 1 .. Len(fn)
  BY <1>1, <1>4, <1>7
<1>9. Top.after \in 1 .. blocks
  BY <1>2 DEF FrameOK
<1>10. <<Caller.body, Caller.i>> \in Seq(Nat)
  BY <1>4
<1>11. QED
  BY <1>2, <1>3, <1>4, <1>6, <1>8, <1>9, <1>10

\* An if or a loop is left, whether its value is asked for or not.
LEMMA Leaves ==
  ASSUME Inv, Running, Top.at \in {"then", "else", "loop"},
         NEW v \in Nat, LeaveWith(v)
  PROVE  /\ stack' \in Seq(Frame) /\ stack' # <<>>
         /\ StackOK(fn, blocks, stack')
         /\ Top.at # "loop" => Matched(stack', loop_blocks)
         /\ Top.at = "loop" => loop_blocks # <<>> /\ Matched(stack', Tail(loop_blocks))
<1> DEFINE w == IF Promoted(fn, Caller.body, Caller.i) THEN v ELSE 0
           g == After(Caller, w)
<1>1. w \in Nat
  OBVIOUS
<1>2. stack' = ReplaceAt(Front(stack), Len(stack) - 1, g)
  BY DEF LeaveWith, Return
<1> HIDE DEF w
<1>3. /\ Caller \in Frame /\ Caller.at # "defers"
      /\ Caller.body \in 1 .. Len(fn) /\ Caller.i \in 1 .. Len(fn[Caller.body])
      /\ FrameOK(fn, blocks, Caller)
  BY CallerOK, TopOK
<1>4. /\ g \in Frame /\ g.at = Caller.at /\ g.body = Caller.body
      /\ g.after = Caller.after /\ g.orelse = Caller.orelse /\ g.i = Caller.i + 1
  BY <1>1, <1>3, AfterIs
<1> HIDE DEF g
<1>5. FrameOK(fn, blocks, g)
  BY <1>3, <1>4 DEF FrameOK
<1>6. QED
  BY <1>2, <1>4, <1>5, GoesBack

\* The branch to the block after an if, if the body does not return.
LEMMA BranchEnds ==
  ASSUME Inv, Running, Top.at \in {"then", "else", "loop"}
  PROVE  BranchEnd \in Seq(Instr)
<1>1. /\ code \in Seq(Instr) /\ insert \in Nat /\ blocks \in Nat
      /\ Top.after \in 1 .. blocks
  BY Types, CallerOK
<1>2. Append(code, Br(insert, Top.after)) \in Seq(Instr)
  <2>1. Top.after \in Nat /\ <<>> \in Seq(Nat)
    BY <1>1
  <2>2. QED
    BY <1>1, <2>1, Branches
<1>3. QED
  BY <1>1, <1>2 DEF BranchEnd

\* The first branch ends, and the second is generated next.
LEMMA ThenDonePreserves ==
  ASSUME Inv, ThenDone
  PROVE  Inv'
<1>1. Running /\ Top.at = "then" /\ Top.orelse # 0
  BY DEF ThenDone, BodyDone
<1>2. blocks \in Nat /\ insert \in Nat /\ fn \in Seq(Seq(Stmt)) /\ Len(fn) \in Nat
  BY Types
<1>3. /\ Top \in Frame /\ FrameOK(fn, blocks, Top) /\ Linked(fn, Caller, Top)
      /\ Len(stack) > 1
  BY <1>1, TopOK
<1> DEFINE body == fn[Caller.body][Caller.i].orelse
<1>4. body \in 1 .. Len(fn) /\ Top.after \in 1 .. blocks
  BY <1>1, <1>3, CallerOK DEF Linked
<1> HIDE DEF body
<1>5. PICK g : g = [Call("else", body, Top.after, 0) EXCEPT !.thenValue = Top.value,
                                                            !.thenBlock = insert]
  OBVIOUS
<1>6. /\ fn' = fn /\ blocks' = blocks /\ loop_blocks' = loop_blocks
      /\ defer_blocks' = defer_blocks /\ outcome' = outcome
      /\ code' = BranchEnd /\ insert' = Top.orelse
      /\ stack' = ReplaceAt(stack, Len(stack), g)
  BY <1>5 DEF ThenDone, body
<1>7. g \in Frame /\ g.at = "else" /\ g.body = body /\ g.i = 1 /\ g.after = Top.after
  <2>1. body \in Nat /\ Top.after \in Nat /\ Top.value \in Nat
    BY <1>2, <1>3, <1>4 DEF Frame
  <2>2. QED
    BY <1>2, <1>5, <2>1 DEF Call, Frame
<1>8. FrameOK(fn, blocks, g)
  <2>1. Len(fn[body]) \in Nat
    BY <1>2, <1>4, ElementOfSeq
  <2>2. QED
    BY <1>4, <1>7, <2>1 DEF FrameOK
<1>9. Linked(fn, Caller, g)
  BY <1>1, <1>3, <1>7 DEF Linked
<1>10. /\ stack' \in Seq(Frame) /\ stack' # <<>>
       /\ StackOK(fn, blocks, stack') /\ Matched(stack', loop_blocks)
  <2>1. blocks <= blocks /\ Top.at # "loop" /\ g.at # "loop"
    BY <1>1, <1>2, <1>7
  <2>2. Len(stack) = 1 => g.at = "function"
    BY <1>3
  <2>3. Len(stack) > 1 => Linked(fn, Caller, g)
    BY <1>9
  <2>4. QED
    BY <1>1, <1>2, <1>6, <1>7, <1>8, <2>1, <2>2, <2>3, GoesOn
<1>11. insert' \in 1 .. blocks
  BY <1>1, <1>2, <1>3, <1>6 DEF FrameOK, Frame
<1>12. TypeOK'
  <2>1. code' \in Seq(Instr)
    BY <1>1, <1>6, BranchEnds
  <2>2. blocks <= blocks /\ TypeOK
    BY <1>2 DEF Inv
  <2>3. QED
    BY <1>2, <1>6, <1>10, <1>11, <2>1, <2>2, TypesKept DEF TypeOK
<1>13. QED
  BY <1>1, <1>6, <1>10, <1>12, Resumes DEF Running

\* The instruction that takes the value of the branch that was run.
LEMMA Phi ==
  ASSUME NEW b \in Nat, NEW x \in Nat, NEW y \in Nat, NEW bx \in Nat, NEW by \in Nat
  PROVE  [Build("phi", b, <<>>, <<>>) EXCEPT !.args = <<x, y>>, !.from = <<bx, by>>] \in Instr
<1>1. <<x, y>> \in Seq(Nat) /\ <<bx, by>> \in Seq(Nat) /\ <<>> \in Seq(Nat)
  OBVIOUS
<1>2. QED
  BY <1>1, Builds

\* The branches of an if come together.
LEMMA MergePreserves ==
  ASSUME Inv, Running, Top.at \in {"then", "else"},
         NEW x \in Nat, NEW bx \in Nat, NEW y \in Nat, Merge(x, bx, y)
  PROVE  Inv'
<1>1. /\ blocks \in Nat /\ insert \in Nat /\ TypeOK /\ blocks <= blocks
      /\ Top.after \in 1 .. blocks
      /\ BranchEnd \in Seq(Instr) /\ outcome = "running"
      /\ stack \in Seq(Frame) /\ stack # <<>> /\ loop_blocks \in Seq(Nat)
  BY Types, CallerOK, BranchEnds DEF Inv, Running
<1>2. /\ fn' = fn /\ blocks' = blocks /\ loop_blocks' = loop_blocks
      /\ defer_blocks' = defer_blocks /\ insert' = Top.after
  BY DEF Merge
<1> DEFINE phi == [Build("phi", Top.after, <<>>, <<>>) EXCEPT
                     !.args = <<x, y>>, !.from = <<bx, insert>>]
<1>3. phi \in Instr
  <2>1. Top.after \in Nat
    BY <1>1
  <2>2. QED
    BY <1>1, <2>1, Phi
<1>4. ASSUME NEW v \in Nat, LeaveWith(v), outcome' = outcome, code' \in Seq(Instr)
      PROVE  Inv'
  <2>1. /\ stack' \in Seq(Frame) /\ stack' # <<>>
        /\ StackOK(fn, blocks, stack') /\ Matched(stack', loop_blocks)
    BY <1>4, Leaves
  <2>2. TypeOK'
    BY <1>1, <1>2, <1>4, <2>1, TypesKept DEF TypeOK
  <2>3. QED
    BY <1>1, <1>2, <1>4, <2>1, <2>2, Resumes
<1>5. CASE x = 0 /\ y = 0
  <2>1. code' = BranchEnd /\ LeaveWith(0) /\ outcome' = outcome
    BY <1>5 DEF Merge
  <2>2. QED
    BY <1>1, <1>4, <2>1
<1>6. CASE ~(x = 0 /\ y = 0) /\ (x = 0 \/ y = 0)
  <2>1. code' = BranchEnd /\ outcome' = "exit" /\ stack' = stack
    BY <1>6 DEF Merge
  <2>2. TypeOK'
    BY <1>1, <1>2, <2>1, TypesKept DEF TypeOK
  <2>3. QED
    BY <2>1, <2>2, Resumes
<1>7. CASE x # 0 /\ y # 0
  <2>1. code' = Append(BranchEnd, phi) /\ LeaveWith(Len(code')) /\ outcome' = outcome
    BY <1>7 DEF Merge
  <2> HIDE DEF phi
  <2>2. code' \in Seq(Instr)
    BY <1>1, <1>3, <2>1
  <2>3. PICK v \in Nat : v = Len(code')
    BY <2>2
  <2>4. QED
    BY <1>4, <2>1, <2>2, <2>3
<1>8. QED
  BY <1>5, <1>6, <1>7

\* An if without an else ends.
LEMMA IfDonePreserves ==
  ASSUME Inv, IfDone
  PROVE  Inv'
<1>1. Running /\ Top.at = "then" /\ Merge(Top.value, insert, 0)
  BY DEF IfDone, BodyDone
<1>2. Top.value \in Nat /\ insert \in Nat
  BY <1>1, Types, TopOK DEF Frame
<1>3. QED
  BY <1>1, <1>2, MergePreserves

\* An if with an else ends.
LEMMA IfElseDonePreserves ==
  ASSUME Inv, IfElseDone
  PROVE  Inv'
<1>1. /\ Running /\ Top.at = "else"
      /\ Merge(Top.thenValue, Top.thenBlock, Top.value)
  BY DEF IfElseDone, BodyDone
<1>2. Top.value \in Nat /\ Top.thenValue \in Nat /\ Top.thenBlock \in Nat
  BY <1>1, TopOK DEF Frame
<1>3. QED
  BY <1>1, <1>2, MergePreserves

\* A loop ends, and its block is the innermost no more.
LEMMA WhileDonePreserves ==
  ASSUME Inv, WhileDone
  PROVE  Inv'
<1>1. Running /\ Top.at = "loop" /\ outcome = "running"
  BY DEF WhileDone, BodyDone, Running
<1>2. /\ fn' = fn /\ blocks' = blocks /\ loop_blocks' = Tail(loop_blocks)
      /\ defer_blocks' = defer_blocks /\ insert' = Top.after /\ outcome' = outcome
      /\ LeaveWith(Top.value)
      /\ code' = Append(code, CondBr(insert, <<Caller.body, Caller.i>>, Top.orelse, Top.after))
  BY DEF WhileDone
<1>3. /\ blocks \in Nat /\ insert \in Nat /\ code \in Seq(Instr) /\ TypeOK
      /\ blocks <= blocks /\ loop_blocks \in Seq(1 .. blocks)
      /\ Top.value \in Nat /\ Top.orelse \in Nat /\ Top.after \in 1 .. blocks
      /\ <<Caller.body, Caller.i>> \in Seq(Nat)
  BY <1>1, Types, TopOK, CallerOK DEF Inv, TypeOK, Frame
<1>4. code' \in Seq(Instr)
  <2>1. Top.after \in Nat
    BY <1>3
  <2>2. QED
    BY <1>2, <1>3, <2>1, Branches
<1>5. /\ stack' \in Seq(Frame) /\ stack' # <<>> /\ StackOK(fn, blocks, stack')
      /\ loop_blocks # <<>> /\ Matched(stack', Tail(loop_blocks))
  BY <1>1, <1>2, <1>3, Leaves
<1>6. Tail(loop_blocks) \in Seq(1 .. blocks)
  BY <1>3, <1>5
<1>7. TypeOK'
  BY <1>2, <1>3, <1>4, <1>5, <1>6, TypesKept DEF TypeOK
<1>8. QED
  BY <1>1, <1>2, <1>5, <1>7, Resumes

\* A deferred body ends.
LEMMA DeferredDonePreserves ==
  ASSUME Inv, DeferredDone
  PROVE  Inv'
<1> DEFINE g == After(Caller, 0)
<1>1. Running /\ Top.at = "deferred" /\ outcome = "running"
  BY DEF DeferredDone, BodyDone, Running
<1>2. /\ fn' = fn /\ code' = code /\ blocks' = blocks /\ insert' = insert
      /\ loop_blocks' = loop_blocks /\ defer_blocks' = defer_blocks /\ outcome' = outcome
      /\ stack' = ReplaceAt(Front(stack), Len(stack) - 1, g)
  BY DEF DeferredDone, Return
<1>3. TypeOK /\ blocks \in Nat /\ blocks <= blocks
  BY Types DEF Inv
<1>4. Caller \in Frame /\ Caller.at = "defers"
  BY <1>1, TopOK DEF Linked
<1>5. /\ g \in Frame /\ g.at = Caller.at /\ g.body = Caller.body
      /\ g.after = Caller.after /\ g.orelse = Caller.orelse /\ g.i = Caller.i + 1
  BY <1>4, AfterIs
<1> HIDE DEF g
<1>6. FrameOK(fn, blocks, g)
  BY <1>4, <1>5 DEF FrameOK, Frame
<1>7. /\ stack' \in Seq(Frame) /\ stack' # <<>>
      /\ StackOK(fn, blocks, stack') /\ Matched(stack', loop_blocks)
  BY <1>1, <1>2, <1>5, <1>6, GoesBack
<1>8. TypeOK'
  BY <1>2, <1>3, <1>7, TypesKept DEF TypeOK
<1>9. QED
  BY <1>1, <1>2, <1>7, <1>8, Resumes

\* The return is built behind the deferred bodies, and its body is left.
LEMMA ReturnBuiltPreserves ==
  ASSUME Inv, ReturnBuilt
  PROVE  Inv'
<1>1. Running /\ Top.at = "defers" /\ outcome = "running"
  BY DEF ReturnBuilt, DefersDone, InDefers, Running
<1>2. PICK g : g = [Caller EXCEPT !.i = Len(fn[Caller.body]) + 1, !.value = 0,
                                  !.returns = Caller.at \notin {"loop", "deferred"}]
  OBVIOUS
<1>3. /\ fn' = fn /\ blocks' = blocks /\ insert' = insert
      /\ loop_blocks' = loop_blocks /\ defer_blocks' = defer_blocks /\ outcome' = outcome
      /\ stack' = ReplaceAt(Front(stack), Len(stack) - 1, g)
      /\ code' = Append(code, Build("ret", insert, <<Caller.body, Caller.i>>, <<>>))
  BY <1>2 DEF ReturnBuilt, Return
<1>4. /\ TypeOK /\ blocks \in Nat /\ blocks <= blocks /\ code \in Seq(Instr)
      /\ insert \in Nat /\ fn \in Seq(Seq(Stmt)) /\ Len(fn) \in Nat
  BY Types DEF Inv
<1>5. Caller \in Frame /\ FrameOK(fn, blocks, Caller) /\ Caller.at # "defers"
  BY <1>1, TopOK DEF Linked
<1>6. Caller.body \in 1 .. Len(fn) /\ Len(fn[Caller.body]) \in Nat
  BY <1>4, <1>5, ElementOfSeq DEF FrameOK
<1>7. /\ g \in Frame /\ g.at = Caller.at /\ g.body = Caller.body
      /\ g.after = Caller.after /\ g.orelse = Caller.orelse
      /\ g.i = Len(fn[Caller.body]) + 1
  <2>1. PICK c \in Frame : c = Caller
    BY <1>5
  <2>2. PICK l \in Nat : l = Len(fn[Caller.body]) + 1
    BY <1>6
  <2>3. PICK r \in BOOLEAN : r = (Caller.at \notin {"loop", "deferred"})
    OBVIOUS
  <2> DEFINE c1 == [c EXCEPT !.i = l]
             c2 == [c1 EXCEPT !.value = 0]
             c3 == [c2 EXCEPT !.returns = r]
  <2>4. /\ c1 \in Frame /\ c1.at = c.at /\ c1.body = c.body
        /\ c1.after = c.after /\ c1.orelse = c.orelse /\ c1.i = l
    BY DEF Frame
  <2>5. g = c3
    BY <1>2, <2>1, <2>2, <2>3, Zenon
  <2> HIDE DEF c1
  <2>6. /\ c2 \in Frame /\ c2.at = c.at /\ c2.body = c.body
        /\ c2.after = c.after /\ c2.orelse = c.orelse /\ c2.i = l
    BY <2>4 DEF Frame
  <2> HIDE DEF c2
  <2>7. /\ c3 \in Frame /\ c3.at = c.at /\ c3.body = c.body
        /\ c3.after = c.after /\ c3.orelse = c.orelse /\ c3.i = l
    BY <2>6 DEF Frame
  <2> HIDE DEF c3
  <2>8. QED
    BY <2>1, <2>2, <2>5, <2>7
<1>8. FrameOK(fn, blocks, g)
  BY <1>5, <1>6, <1>7 DEF FrameOK
<1>9. code' \in Seq(Instr)
  <2>1. <<Caller.body, Caller.i>> \in Seq(Nat) /\ <<>> \in Seq(Nat)
    BY <1>5 DEF Frame
  <2>2. Build("ret", insert, <<Caller.body, Caller.i>>, <<>>) \in Instr
    BY <1>4, <2>1, Builds
  <2>3. QED
    BY <1>3, <1>4, <2>2
<1>10. /\ stack' \in Seq(Frame) /\ stack' # <<>>
       /\ StackOK(fn, blocks, stack') /\ Matched(stack', loop_blocks)
  BY <1>1, <1>3, <1>7, <1>8, GoesBack
<1>11. TypeOK'
  BY <1>3, <1>4, <1>9, <1>10, TypesKept DEF TypeOK
<1>12. QED
  BY <1>1, <1>3, <1>10, <1>11, Resumes

\* No loop is on the stack, and so no block is left in loop_blocks.
LEMMA NoLoops ==
  ASSUME NEW s \in Seq(Frame), NEW blks \in Seq(Nat), Matched(s, blks),
         \A j \in 1 .. Len(s) : s[j].at # "loop"
  PROVE  blks = <<>>
<1>1. PICK pos \in [1 .. Len(blks) -> 1 .. Len(s)] : MatchedBy(s, blks, pos)
  BY DEF Matched
<1>2. ASSUME blks # <<>> PROVE FALSE
  <2>1. 1 \in 1 .. Len(blks)
    BY <1>2
  <2>2. pos[1] \in 1 .. Len(s) /\ s[pos[1]].at = "loop"
    BY <1>1, <2>1 DEF MatchedBy
  <2>3. QED
    BY <2>2
<1>3. QED
  BY <1>2

\* A function returns the value of its body, or zero.
LEMMA ReturnedIs ==
  ASSUME Caller \in Frame
  PROVE  Returned \in Nat /\ Returned \in {0, Caller.value}
BY DEF Returned, Frame

\* The function ends: only its own call is under that of the deferred bodies.
LEMMA FunctionEndPreserves ==
  ASSUME Inv, FunctionEnd
  PROVE  Inv'
<1>1. Running /\ Top.at = "defers" /\ Caller.i > Len(fn[Caller.body])
  BY DEF FunctionEnd, DefersDone, InDefers
<1>2. /\ fn' = fn /\ blocks' = blocks /\ insert' = insert /\ stack' = stack
      /\ loop_blocks' = loop_blocks /\ defer_blocks' = defer_blocks
      /\ outcome' \in {"accepted", "rejected"}
      /\ code' = IF Caller.returns THEN code ELSE Append(code, Ret(Returned))
  BY DEF FunctionEnd
<1>3. /\ TypeOK /\ blocks \in Nat /\ blocks <= blocks /\ code \in Seq(Instr)
      /\ insert \in Nat /\ fn \in Seq(Seq(Stmt)) /\ Len(fn) \in Nat
      /\ stack \in Seq(Frame) /\ stack # <<>> /\ loop_blocks \in Seq(Nat)
      /\ StackOK(fn, blocks, stack) /\ Matched(stack, loop_blocks)
  BY <1>1, Types DEF Inv
<1>4. /\ Len(stack) \in Nat /\ Len(stack) > 1 /\ Top = stack[Len(stack)]
      /\ Caller \in Frame /\ Caller = stack[Len(stack) - 1]
      /\ FrameOK(fn, blocks, Caller) /\ Linked(fn, Caller, Top)
  BY <1>1, TopOK DEF Caller
<1>5. Caller.at = "function"
  <2>1. Caller.at # "defers"
    BY <1>1, <1>4 DEF Linked
  <2>2. Caller.i \in Nat /\ Len(fn[Caller.body]) \in Nat
    <3>1. Caller.i \in Nat /\ Caller.body \in 1 .. Len(fn)
      BY <1>4, <2>1 DEF FrameOK, Frame
    <3>2. fn[Caller.body] \in Seq(Stmt)
      BY <1>3, <3>1, ElementOfSeq
    <3>3. QED
      BY <3>1, <3>2
  <2>3. ~(Caller.i <= Len(fn[Caller.body]))
    BY <1>1, <2>2
  <2>4. QED
    BY <1>1, <1>4, <2>3 DEF Linked
<1>6. Len(stack) = 2
  <2>1. ASSUME Len(stack) > 2 PROVE FALSE
    <3>1. Len(stack) - 1 \in 1 .. Len(stack) /\ Len(stack) - 1 > 1
      BY <1>4, <2>1
    <3>2. Linked(fn, stack[(Len(stack) - 1) - 1], stack[Len(stack) - 1])
      BY <1>3, <3>1 DEF StackOK
    <3>3. QED
      BY <1>4, <1>5, <3>2 DEF Linked
  <2>2. ASSUME NEW n \in Nat, n > 1, ~(n > 2) PROVE n = 2
    BY <2>2
  <2>3. QED
    BY <1>4, <2>1, <2>2, Zenon
<1>7. loop_blocks = <<>>
  <2>1. stack[1].at = "function" /\ stack[2].at = "defers"
    BY <1>1, <1>4, <1>5, <1>6
  <2>2. \A j \in 1 .. Len(stack) : j = 1 \/ j = 2
    BY <1>6
  <2>3. \A j \in 1 .. Len(stack) : stack[j].at # "loop"
    BY <2>1, <2>2
  <2>4. QED
    BY <1>3, <2>3, NoLoops
<1>8. code' \in Seq(Instr)
  <2>1. Returned \in Nat
    BY <1>4, ReturnedIs
  <2>2. Ret(Returned) \in Instr
    <3>1. <<Returned>> \in Seq(Nat) /\ <<>> \in Seq(Nat)
      BY <2>1
    <3>2. QED
      BY <1>3, <3>1, Builds DEF Ret
  <2>3. QED
    BY <1>2, <1>3, <2>2
<1>9. TypeOK'
  BY <1>2, <1>3, <1>8, TypesKept DEF TypeOK
<1>10. QED
  <2>1. ~Running'
    BY <1>2 DEF Running
  <2>2. loop_blocks' = <<>>
    BY <1>2, <1>7
  <2>3. QED
    BY <1>9, <2>1, <2>2 DEF Inv, LoopsLeft

-----------------------------------------------------------------------------
(* Theorems *)

\* The invariant holds when the generation of a function begins.
LEMMA InvInit ==
  ASSUME Init
  PROVE  Inv
<1> DEFINE f == Call("function", 1, 0, 0)
<1>1. /\ fn \in Functions /\ code = <<>> /\ blocks = 1 /\ insert = 1
      /\ loop_blocks = <<>> /\ defer_blocks = <<>> /\ outcome = "running"
      /\ stack = <<f>>
  BY DEF Init
<1>2. IsFunction(fn)
  BY <1>1, FunctionGenAssumptions
<1>3. fn \in Seq(Seq(Stmt)) /\ Len(fn) \in Nat /\ 1 \in 1 .. Len(fn)
  BY <1>2, EmptySeq DEF IsFunction
<1>4. f \in Frame /\ f.at = "function" /\ f.i = 1 /\ f.body = 1
  BY CallFrame
<1> HIDE DEF f
<1>5. stack \in Seq(Frame) /\ stack # <<>> /\ Len(stack) = 1 /\ stack[1] = f
  BY <1>1, <1>4
<1>6. TypeOK
  BY <1>1, <1>2, <1>5 DEF TypeOK
<1>7. FrameOK(fn, blocks, f)
  <2>1. Len(fn[1]) \in Nat
    BY <1>3, ElementOfSeq
  <2>2. QED
    BY <1>3, <1>4, <2>1 DEF FrameOK
<1>8. StackOK(fn, blocks, stack)
  BY <1>4, <1>5, <1>7 DEF StackOK
<1>9. Matched(stack, loop_blocks)
  <2>1. Len(loop_blocks) = 0
    BY <1>1
  <2> DEFINE pos == [k \in 1 .. Len(loop_blocks) |-> 1]
  <2>2. pos \in [1 .. Len(loop_blocks) -> 1 .. Len(stack)]
    BY <1>5
  <2>3. MatchedBy(stack, loop_blocks, pos)
    BY <1>4, <1>5, <2>1 DEF MatchedBy
  <2>4. QED
    BY <2>2, <2>3 DEF Matched
<1>10. LoopsLeft
  BY <1>1 DEF LoopsLeft
<1>11. QED
  BY <1>6, <1>8, <1>9, <1>10 DEF Inv

\* Every step keeps the invariant.
LEMMA InvNext ==
  ASSUME Inv, [Next]_vars
  PROVE  Inv'
<1>1. CASE UNCHANGED vars
  BY <1>1 DEF vars, Inv, TypeOK, Running, LoopsLeft
<1>2. CASE CallStmt
  BY <1>2, CallStmtPreserves
<1>3. CASE BreakStmt
  BY <1>3, BreakStmtPreserves
<1>4. CASE DeferStmt
  BY <1>4, DeferStmtPreserves
<1>5. CASE ReturnStmt
  BY <1>5, ReturnStmtPreserves
<1>6. CASE IfExpr
  BY <1>6, IfExprPreserves
<1>7. CASE ThenDone
  BY <1>7, ThenDonePreserves
<1>8. CASE IfDone
  BY <1>8, IfDonePreserves
<1>9. CASE IfElseDone
  BY <1>9, IfElseDonePreserves
<1>10. CASE WhileExpr
  BY <1>10, WhileExprPreserves
<1>11. CASE WhileDone
  BY <1>11, WhileDonePreserves
<1>12. CASE DeferredBody
  BY <1>12, DeferredBodyPreserves
<1>13. CASE DeferredDone
  BY <1>13, DeferredDonePreserves
<1>14. CASE ReturnBuilt
  BY <1>14, ReturnBuiltPreserves
<1>15. CASE BodyEnd
  BY <1>15, BodyEndPreserves
<1>16. CASE FunctionEnd
  BY <1>16, FunctionEndPreserves
<1>17. QED
  BY <1>1, <1>2, <1>3, <1>4, <1>5, <1>6, <1>7, <1>8, <1>9, <1>10, <1>11, <1>12,
     <1>13, <1>14, <1>15, <1>16 DEF Next, Generate, Generated

\* Inv holds in every state of the generation.
THEOREM Invariant == Spec => []Inv
<1>1. Init => Inv
  BY InvInit
<1>2. Inv /\ [Next]_vars => Inv'
  BY InvNext
<1>3. QED
  BY <1>1, <1>2, PTL DEF Spec

\* Every variable has its type, whatever the function.
THEOREM TypeCorrect == Spec => []TypeOK
<1>1. Inv => TypeOK
  BY DEF Inv
<1>2. QED
  BY <1>1, Invariant, PTL

\* Nothing is left in loop_blocks when a function is done (gen.c:22).
THEOREM NothingLeft == Spec => []LoopsLeft
<1>1. Inv => LoopsLeft
  BY DEF Inv
<1>2. QED
  BY <1>1, Invariant, PTL

\* The first of loop_blocks is the block after the innermost loop on the stack.
LEMMA MatchedInnermost ==
  ASSUME NEW s \in Seq(Frame), NEW blks \in Seq(Nat), Matched(s, blks)
  PROVE  /\ (\A j \in 1 .. Len(s) : s[j].at # "loop") => blks = <<>>
         /\ \A j \in 1 .. Len(s) :
              (s[j].at = "loop" /\ \A k \in j + 1 .. Len(s) : s[k].at # "loop")
                => blks # <<>> /\ Head(blks) = s[j].after
<1>1. PICK pos \in [1 .. Len(blks) -> 1 .. Len(s)] : MatchedBy(s, blks, pos)
  BY DEF Matched
<1>2. Len(s) \in Nat /\ Len(blks) \in Nat
  OBVIOUS
<1>3. ASSUME NEW j \in 1 .. Len(s), s[j].at = "loop",
             \A k \in j + 1 .. Len(s) : s[k].at # "loop"
      PROVE  blks # <<>> /\ Head(blks) = s[j].after
  <2>1. PICK k \in 1 .. Len(blks) : pos[k] = j
    BY <1>1, <1>3 DEF MatchedBy
  <2>2. 1 \in 1 .. Len(blks)
    BY <1>2
  <2>3. pos[1] \in 1 .. Len(s) /\ s[pos[1]].at = "loop" /\ s[pos[1]].after = blks[1]
    BY <1>1, <2>2 DEF MatchedBy
  <2>4. pos[1] = j
    <3>1. ASSUME k # 1 PROVE FALSE
      <4>1. 1 < k
        BY <1>2, <3>1
      <4>2. j < pos[1]
        BY <1>1, <2>1, <2>2, <4>1 DEF MatchedBy
      <4>3. pos[1] \in j + 1 .. Len(s)
        BY <1>2, <2>3, <4>2
      <4>4. QED
        BY <1>3, <2>3, <4>3
    <3>2. QED
      BY <2>1, <3>1
  <2>5. QED
    BY <1>2, <2>2, <2>3, <2>4
<1>4. QED
  BY <1>3, NoLoops

\* A break leaves the innermost loop around it, whatever the nesting and whatever
\* is deferred (gen.c:1769-1802, 2294-2317).
THEOREM BreaksFindLoop == Spec => []InnermostLoop
<1>1. Inv => InnermostLoop
  <2>1. SUFFICES ASSUME Inv, Running PROVE InnermostLoop
    BY DEF InnermostLoop
  <2>2. stack \in Seq(Frame) /\ loop_blocks \in Seq(Nat) /\ Matched(stack, loop_blocks)
    BY <2>1, Types DEF Inv
  <2>3. DOMAIN stack = 1 .. Len(stack)
    BY <2>2
  <2>4. QED
    BY <2>2, <2>3, MatchedInnermost DEF InnermostLoop
<1>2. QED
  BY <1>1, Invariant, PTL

-----------------------------------------------------------------------------
(* Bodies and statements *)

\* A statement is one of a body of the function.
LEMMA StatementsOf ==
  ASSUME NEW p, IsFunction(p)
  PROVE  /\ Len(p) \in Nat
         /\ \A b \in 1 .. Len(p) : p[b] \in Seq(Stmt) /\ Len(p[b]) \in Nat
         /\ \A t \in Statements(p) :
              /\ t[1] \in 1 .. Len(p) /\ t[2] \in 1 .. Len(p[t[1]]) /\ t = <<t[1], t[2]>>
              /\ p[t[1]][t[2]] \in Stmt
         /\ \A b \in 1 .. Len(p) : \A i \in 1 .. Len(p[b]) : <<b, i>> \in Statements(p)
<1>1. p \in Seq(Seq(Stmt)) /\ Len(p) \in Nat
  BY DEF IsFunction
<1>2. \A b \in 1 .. Len(p) : p[b] \in Seq(Stmt) /\ Len(p[b]) \in Nat
  BY <1>1, ElementOfSeq
<1>3. ASSUME NEW t \in Statements(p)
      PROVE  /\ t[1] \in 1 .. Len(p) /\ t[2] \in 1 .. Len(p[t[1]]) /\ t = <<t[1], t[2]>>
             /\ p[t[1]][t[2]] \in Stmt
  <2>1. PICK b \in 1 .. Len(p) : t \in {<<b, i>> : i \in 1 .. Len(p[b])}
    BY <1>3 DEF Statements
  <2>2. PICK i \in 1 .. Len(p[b]) : t = <<b, i>>
    BY <2>1
  <2>3. t[1] = b /\ t[2] = i
    BY <2>2
  <2>4. p[b][i] \in Stmt
    BY <1>2, ElementOfSeq
  <2>5. QED
    BY <2>2, <2>3, <2>4
<1>4. ASSUME NEW b \in 1 .. Len(p), NEW i \in 1 .. Len(p[b])
      PROVE  <<b, i>> \in Statements(p)
  BY DEF Statements
<1>5. QED
  BY <1>1, <1>2, <1>3, <1>4

\* The bodies of a statement come after the one that it is in.
LEMMA BodiesLater ==
  ASSUME NEW p, IsFunction(p), NEW b \in 1 .. Len(p), NEW i \in 1 .. Len(p[b]),
         NEW c \in BodiesOf(p, <<b, i>>)
  PROVE  c \in b + 1 .. Len(p) /\ c \in 1 .. Len(p) /\ p[b][i].op \in Nests
<1>1. Len(p) \in Nat
  BY StatementsOf
<1>2. c \in {p[b][i].body, p[b][i].orelse} /\ c # 0
  BY DEF BodiesOf, BodyOf
<1>3. /\ p[b][i].body \in (IF p[b][i].op \in Nests THEN b + 1 .. Len(p) ELSE {0})
      /\ p[b][i].orelse \in
           (IF p[b][i].op = "ifelse" THEN (b + 1 .. Len(p)) \ {p[b][i].body} ELSE {0})
  BY DEF IsFunction
<1>4. "ifelse" \in Nests
  BY DEF Nests
<1>5. p[b][i].op \in Nests /\ c \in b + 1 .. Len(p)
  <2>1. CASE c = p[b][i].body
    BY <1>2, <1>3, <2>1
  <2>2. CASE c = p[b][i].orelse
    <3>1. p[b][i].op = "ifelse" /\ c \in b + 1 .. Len(p)
      BY <1>2, <1>3, <2>2
    <3>2. QED
      BY <1>4, <3>1
  <2>3. QED
    BY <1>2, <2>1, <2>2
<1>6. QED
  BY <1>1, <1>5

\* The bodies that a statement has.
LEMMA BodiesAre ==
  ASSUME NEW p, IsFunction(p), NEW b \in 1 .. Len(p), NEW i \in 1 .. Len(p[b])
  PROVE  /\ p[b][i].op \in Nests => p[b][i].body \in BodiesOf(p, <<b, i>>)
         /\ p[b][i].op = "ifelse" => p[b][i].orelse \in BodiesOf(p, <<b, i>>)
         /\ p[b][i].op # "ifelse" => BodiesOf(p, <<b, i>>) \subseteq {p[b][i].body}
         /\ p[b][i].op \notin Nests => BodiesOf(p, <<b, i>>) = {}
<1>1. Len(p) \in Nat
  BY StatementsOf
<1>2. BodiesOf(p, <<b, i>>) = {p[b][i].body, p[b][i].orelse} \ {0}
  BY DEF BodiesOf, BodyOf
<1>3. /\ p[b][i].body \in (IF p[b][i].op \in Nests THEN b + 1 .. Len(p) ELSE {0})
      /\ p[b][i].orelse \in
           (IF p[b][i].op = "ifelse" THEN (b + 1 .. Len(p)) \ {p[b][i].body} ELSE {0})
  BY DEF IsFunction
<1>4. 0 \notin b + 1 .. Len(p)
  BY <1>1
<1>5. "ifelse" \in Nests
  BY DEF Nests
<1>6. p[b][i].op \in Nests => p[b][i].body # 0
  BY <1>3, <1>4, Zenon
<1>7. p[b][i].op = "ifelse" => p[b][i].orelse # 0
  BY <1>3, <1>4, Zenon
<1>8. p[b][i].op # "ifelse" => p[b][i].orelse = 0
  BY <1>3, Zenon
<1>9. p[b][i].op \notin Nests => p[b][i].body = 0
  BY <1>3, Zenon
<1>10. QED
  BY <1>2, <1>5, <1>6, <1>7, <1>8, <1>9, Zenon

\* No body belongs to two statements, so that being the body of a loop, or being
\* what a statement other than a loop does, is a matter of the body alone.
LEMMA OneOwner ==
  ASSUME NEW p, IsFunction(p), NEW t \in Statements(p), NEW u \in Statements(p), NEW c,
         c \in BodiesOf(p, t), c \in BodiesOf(p, u)
  PROVE  t = u
BY DEF IsFunction

LEMMA LoopBodies ==
  ASSUME NEW p, IsFunction(p), NEW t \in Statements(p), NEW c \in BodiesOf(p, t)
  PROVE  IsLoop(p, c) <=> OpOf(p, t) = "while"
<1>1. t[1] \in 1 .. Len(p) /\ t[2] \in 1 .. Len(p[t[1]]) /\ t = <<t[1], t[2]>>
  BY StatementsOf
<1>2. ASSUME IsLoop(p, c) PROVE OpOf(p, t) = "while"
  <2>1. PICK u \in Statements(p) : p[u[1]][u[2]].op = "while" /\ p[u[1]][u[2]].body = c
    BY <1>2 DEF IsLoop
  <2>2. u[1] \in 1 .. Len(p) /\ u[2] \in 1 .. Len(p[u[1]]) /\ u = <<u[1], u[2]>>
    BY StatementsOf
  <2>3. "while" \in Nests
    BY DEF Nests
  <2>4. c \in BodiesOf(p, <<u[1], u[2]>>)
    BY <2>1, <2>2, <2>3, BodiesAre
  <2>5. t = u
    BY <2>2, <2>4, OneOwner
  <2>6. QED
    BY <2>1, <2>5 DEF OpOf
<1>3. ASSUME OpOf(p, t) = "while" PROVE IsLoop(p, c)
  <2>1. p[t[1]][t[2]].op = "while"
    BY <1>3 DEF OpOf
  <2>2. p[t[1]][t[2]].body = c
    BY <1>1, <2>1, BodiesAre, SMTT(30)
  <2>3. QED
    BY <2>1, <2>2 DEF IsLoop
<1>4. QED
  BY <1>2, <1>3

\* The body of the function belongs to no statement.
LEMMA FirstBody ==
  ASSUME NEW p, IsFunction(p)
  PROVE  /\ 1 \in 1 .. Len(p)
         /\ \A t \in Statements(p) : 1 \notin BodiesOf(p, t)
         /\ ~IsLoop(p, 1)
<1>1. p \in Seq(Seq(Stmt)) /\ p # <<>>
  BY DEF IsFunction
<1>2. Len(p) \in Nat \ {0}
  BY <1>1, EmptySeq
<1>3. ASSUME NEW t \in Statements(p), 1 \in BodiesOf(p, t) PROVE FALSE
  <2>1. t[1] \in 1 .. Len(p) /\ t[2] \in 1 .. Len(p[t[1]]) /\ t = <<t[1], t[2]>>
    BY StatementsOf
  <2>2. 1 \in t[1] + 1 .. Len(p)
    BY <1>3, <2>1, BodiesLater
  <2>3. QED
    BY <1>2, <2>1, <2>2
<1>4. ASSUME IsLoop(p, 1) PROVE FALSE
  <2>1. PICK u \in Statements(p) : p[u[1]][u[2]].op = "while" /\ p[u[1]][u[2]].body = 1
    BY <1>4 DEF IsLoop
  <2>2. u[1] \in 1 .. Len(p) /\ u[2] \in 1 .. Len(p[u[1]]) /\ u = <<u[1], u[2]>>
    BY StatementsOf
  <2>3. "while" \in Nests
    BY DEF Nests
  <2>4. 1 \in BodiesOf(p, <<u[1], u[2]>>)
    BY <2>1, <2>2, <2>3, BodiesAre
  <2>5. QED
    BY <1>3, <2>2, <2>4
<1>5. QED
  BY <1>2, <1>3, <1>4

-----------------------------------------------------------------------------
(* The text of a body *)

\* The text of b has what is in b, and goes into the bodies of what it has.
LEMMA LiveStep ==
  ASSUME NEW p, IsFunction(p), NEW b \in 1 .. Len(p)
  PROVE  /\ b \in LiveBodies(p, b)
         /\ LiveBodies(p, b) \subseteq 1 .. Len(p)
         /\ EntersAll(p, LiveBodies(p, b))
<1>1. b \in LiveBodies(p, b) /\ LiveBodies(p, b) \subseteq 1 .. Len(p)
  BY DEF LiveBodies
<1>2. ASSUME NEW t \in Statements(p), t[1] \in LiveBodies(p, b), ~Behind(p, t),
             OpOf(p, t) # "defer", NEW c \in BodiesOf(p, t)
      PROVE  c \in LiveBodies(p, b)
  <2>1. t[1] \in 1 .. Len(p) /\ t[2] \in 1 .. Len(p[t[1]]) /\ t = <<t[1], t[2]>>
    BY StatementsOf
  <2>2. c \in 1 .. Len(p)
    BY <2>1, BodiesLater
  <2>3. ASSUME NEW S \in SUBSET (1 .. Len(p)), b \in S, EntersAll(p, S)
        PROVE  c \in S
    <3>1. t[1] \in S
      BY <1>2, <2>3 DEF LiveBodies
    <3>2. QED
      BY <1>2, <2>3, <3>1 DEF EntersAll
  <2>4. QED
    BY <2>2, <2>3 DEF LiveBodies
<1>3. QED
  BY <1>1, <1>2 DEF EntersAll

\* What the text of b goes through is b, or in the text of a body that belongs to
\* a statement of b.
LEMMA LiveSplit ==
  ASSUME NEW p, IsFunction(p), NEW b \in 1 .. Len(p), NEW t \in LiveIn(p, b)
  PROVE  \/ t[1] = b
         \/ \E u \in Statements(p) :
              /\ u[1] = b /\ ~Behind(p, u) /\ OpOf(p, u) # "defer"
              /\ \E c \in BodiesOf(p, u) : t \in LiveIn(p, c)
<1> DEFINE From(u) == u[1] = b /\ ~Behind(p, u) /\ OpOf(p, u) # "defer"
           Enters(e) == \E u \in Statements(p) : From(u) /\ \E c \in BodiesOf(p, u) : e \in LiveBodies(p, c)
           S == {e \in 1 .. Len(p) : e = b \/ Enters(e)}
<1>1. S \in SUBSET (1 .. Len(p)) /\ b \in S
  OBVIOUS
<1>2. EntersAll(p, S)
  <2>1. SUFFICES ASSUME NEW u \in Statements(p), u[1] \in S, ~Behind(p, u),
                        OpOf(p, u) # "defer", NEW c \in BodiesOf(p, u)
                 PROVE  c \in S
    BY DEF EntersAll
  <2>2. u[1] \in 1 .. Len(p) /\ u[2] \in 1 .. Len(p[u[1]]) /\ u = <<u[1], u[2]>>
    BY StatementsOf
  <2>3. c \in 1 .. Len(p)
    BY <2>2, BodiesLater
  <2>4. CASE u[1] = b
    <3>1. c \in LiveBodies(p, c)
      BY <2>3, LiveStep
    <3>2. Enters(c)
      BY <2>1, <2>4, <3>1
    <3>3. QED
      BY <2>3, <3>2
  <2>5. CASE u[1] # b
    <3>1. PICK w \in Statements(p) : From(w) /\ \E e \in BodiesOf(p, w) : u[1] \in LiveBodies(p, e)
      BY <2>1, <2>5
    <3>2. PICK e \in BodiesOf(p, w) : u[1] \in LiveBodies(p, e)
      BY <3>1
    <3>3. w[1] \in 1 .. Len(p) /\ w[2] \in 1 .. Len(p[w[1]]) /\ w = <<w[1], w[2]>>
      BY StatementsOf
    <3>4. e \in 1 .. Len(p)
      BY <3>2, <3>3, BodiesLater
    <3>5. c \in LiveBodies(p, e)
      BY <2>1, <3>2, <3>4, LiveStep DEF EntersAll
    <3>6. Enters(c)
      BY <3>1, <3>2, <3>5
    <3>7. QED
      BY <2>3, <3>6
  <2>6. QED
    BY <2>4, <2>5
<1>3. t \in Statements(p) /\ t[1] \in LiveBodies(p, b) /\ ~Behind(p, t)
  BY DEF LiveIn
<1>4. t[1] \in S
  <2> HIDE DEF S
  <2>1. QED
    BY <1>1, <1>2, <1>3 DEF LiveBodies
<1>5. QED
  BY <1>3, <1>4 DEF LiveIn

\* A statement of a body that the text goes through, with no return before it, is
\* in the text.
LEMMA LiveHere ==
  ASSUME NEW p, IsFunction(p), NEW b \in LiveBodies(p, 1), NEW i \in 1 .. Len(p[b]),
         \A r \in Returns(p, b) : r >= i
  PROVE  /\ b \in 1 .. Len(p)
         /\ ~Behind(p, <<b, i>>) /\ <<b, i>> \in LiveIn(p, 1)
         /\ p[b][i].op # "defer" => BodiesOf(p, <<b, i>>) \subseteq LiveBodies(p, 1)
<1>1. 1 \in 1 .. Len(p)
  BY FirstBody
<1>2. b \in 1 .. Len(p)
  BY <1>1, LiveStep
<1>3. <<b, i>> \in Statements(p)
  BY <1>2, StatementsOf
<1>4. Returns(p, b) \subseteq Nat /\ i \in Nat
  BY DEF Returns
<1>5. ~Behind(p, <<b, i>>)
  BY <1>4 DEF Behind
<1>6. OpOf(p, <<b, i>>) = p[b][i].op
  BY DEF OpOf
<1>7. QED
  BY <1>1, <1>2, <1>3, <1>5, <1>6, LiveStep DEF LiveIn, EntersAll

\* The deferred bodies are closed likewise.
LEMMA DeferredStep ==
  ASSUME NEW p, IsFunction(p)
  PROVE  InDeferred(p) \subseteq 1 .. Len(p) /\ DefersAll(p, InDeferred(p))
<1>1. InDeferred(p) \subseteq 1 .. Len(p)
  BY DEF InDeferred
<1>2. ASSUME NEW t \in Statements(p), OpOf(p, t) = "defer" \/ t[1] \in InDeferred(p),
             NEW c \in BodiesOf(p, t)
      PROVE  c \in InDeferred(p)
  <2>1. t[1] \in 1 .. Len(p) /\ t[2] \in 1 .. Len(p[t[1]]) /\ t = <<t[1], t[2]>>
    BY StatementsOf
  <2>2. c \in 1 .. Len(p)
    BY <2>1, BodiesLater
  <2>3. ASSUME NEW S \in SUBSET (1 .. Len(p)), DefersAll(p, S) PROVE c \in S
    <3>1. OpOf(p, t) = "defer" \/ t[1] \in S
      BY <1>2, <2>3 DEF InDeferred
    <3>2. QED
      BY <1>2, <2>3, <3>1 DEF DefersAll
  <2>4. QED
    BY <2>2, <2>3 DEF InDeferred
<1>3. QED
  BY <1>1, <1>2 DEF DefersAll

\* A body is among them for one of two reasons.
LEMMA DeferredSplit ==
  ASSUME NEW p, IsFunction(p), NEW b \in InDeferred(p)
  PROVE  \E t \in Statements(p) :
           b \in BodiesOf(p, t) /\ (OpOf(p, t) = "defer" \/ t[1] \in InDeferred(p))
<1> DEFINE Owned(c) == \E t \in Statements(p) :
             c \in BodiesOf(p, t) /\ (OpOf(p, t) = "defer" \/ t[1] \in InDeferred(p))
           S == {c \in InDeferred(p) : Owned(c)}
<1>1. S \in SUBSET (1 .. Len(p))
  BY DeferredStep
<1>2. DefersAll(p, S)
  <2>1. SUFFICES ASSUME NEW t \in Statements(p), OpOf(p, t) = "defer" \/ t[1] \in S,
                        NEW c \in BodiesOf(p, t)
                 PROVE  c \in S
    BY DEF DefersAll
  <2>2. OpOf(p, t) = "defer" \/ t[1] \in InDeferred(p)
    BY <2>1
  <2>3. c \in InDeferred(p)
    BY <2>2, DeferredStep DEF DefersAll
  <2>4. QED
    BY <2>2, <2>3
<1>3. b \in S
  <2> HIDE DEF S
  <2>1. QED
    BY <1>1, <1>2 DEF InDeferred
<1>4. QED
  BY <1>3

\* The text does not go through what is deferred.
LEMMA LiveOrDeferred ==
  ASSUME NEW p, IsFunction(p), NEW b \in LiveBodies(p, 1)
  PROVE  b \notin InDeferred(p)
<1> DEFINE S == (1 .. Len(p)) \ InDeferred(p)
<1>1. S \in SUBSET (1 .. Len(p)) /\ 1 \in S
  <2>1. ASSUME 1 \in InDeferred(p) PROVE FALSE
    BY <2>1, DeferredSplit, FirstBody
  <2>2. QED
    BY <2>1, FirstBody
<1>2. EntersAll(p, S)
  <2>1. SUFFICES ASSUME NEW t \in Statements(p), t[1] \in S, OpOf(p, t) # "defer",
                        NEW c \in BodiesOf(p, t)
                 PROVE  c \in S
    BY DEF EntersAll
  <2>2. c \in 1 .. Len(p)
    BY StatementsOf, BodiesLater
  <2>3. ASSUME c \in InDeferred(p) PROVE FALSE
    <3>1. PICK u \in Statements(p) :
            c \in BodiesOf(p, u) /\ (OpOf(p, u) = "defer" \/ u[1] \in InDeferred(p))
      BY <2>3, DeferredSplit
    <3>2. t = u
      BY <3>1, OneOwner
    <3>3. QED
      BY <2>1, <3>1, <3>2
  <2>4. QED
    BY <2>2, <2>3
<1>3. QED
  <2> HIDE DEF S
  <2>1. b \in S
    BY <1>1, <1>2 DEF LiveBodies
  <2>2. QED
    BY <2>1 DEF S

-----------------------------------------------------------------------------
(* Induction, and recursive functions *)

\* Induction
LEMMA SetInduction ==
  ASSUME NEW S, 0 \in S, \A n \in Nat : n \in S => n + 1 \in S
  PROVE  Nat \subseteq S
<1>1. SUFFICES ASSUME Nat \ S # {} PROVE FALSE
  OBVIOUS
<1>2. PICK R : R = OpToRel(<, Nat)
  OBVIOUS
<1>3. \A a, b \in Nat : a < b => <<a, b>> \in R
  BY <1>2 DEF OpToRel
<1>4. IsWellFoundedOn(R, Nat)
  BY <1>2, NatLessThanWellFounded
<1>5. PICK x \in Nat \ S : \A y \in Nat \ S : ~ (<<y, x>> \in R)
  BY <1>1, <1>4, WFMin
<1>6. x # 0 /\ x - 1 \in Nat /\ x - 1 < x /\ x - 1 + 1 = x
  BY <1>5
<1>7. QED
  BY <1>3, <1>5, <1>6

\* Fixed(...) is what its recursive definition says.
LEMMA FixedOf ==
  ASSUME NEW f, Len(f) \in Nat
  PROVE  FixedIs(Fixed(f), f)
<1> DEFINE Step(g, b) ==
             \/ b = 1
             \/ \E o \in 1 .. b - 1 :
                  /\ g[o] /\ f[o] # <<>>
                  /\ LET s == Last(f[o]) IN
                       /\ s.op \in Fixable(f, o)
                       /\ \/ s.body = b
                          \/ s.op = "ifelse" /\ s.orelse = b /\ f[s.body] # <<>>
           Part(g, m) == \A b \in 1 .. Len(f) : b <= m => g[b] = Step(g, b)
           S == {m \in Nat : \E g : Part(g, m)}
<1>1. 0 \in S
  <2>1. Part(1, 0)
    BY SMT
  <2>2. QED
    BY <2>1
<1>2. ASSUME NEW m \in Nat, m \in S
      PROVE  m + 1 \in S
  <2>1. PICK g : Part(g, m)
    BY <1>2
  <2>2. PICK h : h = [b \in 1 .. Len(f) |-> IF b = m + 1 THEN Step(g, m + 1) ELSE g[b]]
    OBVIOUS
  <2>3. ASSUME NEW b \in 1 .. Len(f), b <= m + 1
        PROVE  h[b] = Step(h, b)
    <3>1. h[b] = Step(g, b)
      <4> HIDE DEF Step
      <4>1. CASE b = m + 1
        BY <2>2, <4>1
      <4>2. CASE b # m + 1
        <5>1. b <= m
          BY <2>3, <4>2
        <5>2. QED
          BY <2>1, <2>2, <4>2, <5>1
      <4>3. QED
        BY <4>1, <4>2
    <3>2. \A o \in 1 .. b - 1 : h[o] = g[o]
      <4> HIDE DEF Step
      <4>1. QED
        BY <2>2, <2>3
    <3>3. Step(g, b) = Step(h, b)
      BY <3>2, Zenon
    <3>4. QED
      BY <3>1, <3>3
  <2>4. Part(h, m + 1)
    BY <2>3, Zenon
  <2> HIDE DEF Part
  <2>5. QED
    BY <2>4
<1>3. Len(f) \in S
  <2> HIDE DEF S
  <2>1. Nat \subseteq S
    BY <1>1, <1>2, SetInduction
  <2>2. QED
    BY <2>1
<1>4. PICK g : Part(g, Len(f))
  BY <1>3
<1> DEFINE Is(h) == h = [b \in 1 .. Len(f) |-> Step(h, b)]
<1>5. \E h : Is(h)
  <2>1. PICK h : h = [b \in 1 .. Len(f) |-> g[b]]
    OBVIOUS
  <2>2. ASSUME NEW b \in 1 .. Len(f) PROVE h[b] = Step(h, b)
    <3>1. h[b] = Step(g, b)
      <4> HIDE DEF Step
      <4>1. QED
        BY <1>4, <2>1
    <3>2. \A o \in 1 .. b - 1 : h[o] = g[o]
      BY <2>1
    <3>3. Step(g, b) = Step(h, b)
      BY <3>2, Zenon
    <3>4. QED
      BY <3>1, <3>3
  <2>3. h = [b \in 1 .. Len(f) |-> Step(h, b)]
    <3> HIDE DEF Step
    <3>1. QED
      BY <2>1, <2>2
  <2>4. Is(h)
    BY <2>3
  <2> HIDE DEF Is
  <2>5. QED
    BY <2>4
<1>6. Fixed(f) = CHOOSE h : Is(h)
  BY DEF Fixed
<1>7. Is(Fixed(f))
  <2> HIDE DEF Is
  <2>1. QED
    BY <1>5, <1>6
<1>8. \A b \in 1 .. Len(f) : Fixed(f)[b] = Step(Fixed(f), b)
  <2> HIDE DEF Step
  <2>1. QED
    BY <1>7
<1>9. QED
  BY <1>8, Zenon DEF FixedIs

\* So is Yields(...).
LEMMA YieldsOf ==
  ASSUME NEW f, IsFunction(f)
  PROVE  YieldsIs(Yields(f), f)
<1>0. Len(f) \in Nat
  BY StatementsOf
<1> DEFINE Step(g, b) ==
             /\ f[b] # <<>> /\ Returns(f, b) = {}
             /\ LET s == Last(f[b]) IN
                  \/ s.op \in Valued
                  \/ /\ Promoted(f, b, Len(f[b]))
                     /\ \/ s.op = "while" /\ g[s.body]
                        \/ s.op = "ifelse" /\ g[s.body] /\ g[s.orelse]
           Part(g, m) == \A b \in 1 .. Len(f) : b > Len(f) - m => g[b] = Step(g, b)
           S == {m \in Nat : \E g : Part(g, m)}
<1>10. ASSUME NEW g, NEW h, NEW b \in 1 .. Len(f), \A o \in b + 1 .. Len(f) : h[o] = g[o]
       PROVE  Step(g, b) = Step(h, b)
  <2>1. CASE f[b] = <<>>
    BY <2>1
  <2>2. CASE f[b] # <<>>
    <3>1. f[b] \in Seq(Stmt)
      BY StatementsOf
    <3>2. PICK s : s = Last(f[b])
      OBVIOUS
    <3>3. Len(f[b]) \in 1 .. Len(f[b]) /\ s = f[b][Len(f[b])]
      BY <2>2, <3>1, <3>2, LastOf
    <3>4. /\ s.body \in (IF s.op \in Nests THEN b + 1 .. Len(f) ELSE {0})
          /\ s.orelse \in (IF s.op = "ifelse" THEN (b + 1 .. Len(f)) \ {s.body} ELSE {0})
      BY <3>3 DEF IsFunction
    <3>5. s.op \in {"while", "ifelse"} => h[s.body] = g[s.body]
      BY <1>10, <3>4 DEF Nests
    <3>6. s.op = "ifelse" => h[s.orelse] = g[s.orelse]
      BY <1>10, <3>4
    <3>7. QED
      BY <3>2, <3>5, <3>6
  <2>3. QED
    BY <2>1, <2>2
<1>1. 0 \in S
  <2>1. Part(1, 0)
    BY SMT
  <2>2. QED
    BY <2>1
<1>2. ASSUME NEW m \in Nat, m \in S
      PROVE  m + 1 \in S
  <2>1. PICK g : Part(g, m)
    BY <1>2
  <2>2. PICK h : h = [b \in 1 .. Len(f) |-> IF b = Len(f) - m THEN Step(g, b) ELSE g[b]]
    OBVIOUS
  <2>3. ASSUME NEW b \in 1 .. Len(f), b > Len(f) - (m + 1)
        PROVE  h[b] = Step(h, b)
    <3>1. h[b] = Step(g, b)
      <4> HIDE DEF Step
      <4>1. CASE b = Len(f) - m
        BY <2>2, <4>1
      <4>2. CASE b # Len(f) - m
        <5>1. b > Len(f) - m
          BY <1>0, <2>3, <4>2
        <5>2. QED
          BY <2>1, <2>2, <4>2, <5>1
      <4>3. QED
        BY <4>1, <4>2
    <3>2. \A o \in b + 1 .. Len(f) : h[o] = g[o]
      <4> HIDE DEF Step
      <4>1. QED
        BY <2>2, <2>3
    <3>3. Step(g, b) = Step(h, b)
      BY <1>0, <3>2, <1>10
    <3>4. QED
      BY <3>1, <3>3
  <2>4. Part(h, m + 1)
    BY <2>3, Zenon
  <2> HIDE DEF Part
  <2>5. QED
    BY <2>4
<1>3. Len(f) \in S
  <2> HIDE DEF S
  <2>1. Nat \subseteq S
    BY <1>1, <1>2, SetInduction
  <2>2. QED
    BY <2>1
<1>4. PICK g : Part(g, Len(f))
  BY <1>3
<1> DEFINE Is(h) == h = [b \in 1 .. Len(f) |-> Step(h, b)]
<1>5. \E h : Is(h)
  <2>1. PICK h : h = [b \in 1 .. Len(f) |-> g[b]]
    OBVIOUS
  <2>2. ASSUME NEW b \in 1 .. Len(f) PROVE h[b] = Step(h, b)
    <3>1. h[b] = Step(g, b)
      <4> HIDE DEF Step
      <4>1. QED
        BY <1>4, <2>1
    <3>2. \A o \in b + 1 .. Len(f) : h[o] = g[o]
      BY <2>1
    <3>3. Step(g, b) = Step(h, b)
      BY <1>0, <3>2, <1>10
    <3>4. QED
      BY <3>1, <3>3
  <2>3. h = [b \in 1 .. Len(f) |-> Step(h, b)]
    <3> HIDE DEF Step
    <3>1. QED
      BY <2>1, <2>2
  <2>4. Is(h)
    BY <2>3
  <2> HIDE DEF Is
  <2>5. QED
    BY <2>4
<1>6. Yields(f) = CHOOSE h : Is(h)
  BY DEF Yields
<1>7. Is(Yields(f))
  <2> HIDE DEF Is
  <2>1. QED
    BY <1>5, <1>6
<1>8. \A b \in 1 .. Len(f) : Yields(f)[b] = Step(Yields(f), b)
  <2> HIDE DEF Step
  <2>1. QED
    BY <1>7
<1>9. QED
  BY <1>8, Zenon DEF YieldsIs

\* What AST_fix_function_last_expression_stmt() looks at is never deferred.
LEMMA DeferredNotFixed ==
  ASSUME NEW p, IsFunction(p), NEW b \in InDeferred(p)
  PROVE  ~Fixed(p)[b]
<1> DEFINE S == {c \in 1 .. Len(p) : ~Fixed(p)[c]}
<1>1. FixedIs(Fixed(p), p)
  BY StatementsOf, FixedOf
<1>2. DefersAll(p, S)
  <2>1. SUFFICES ASSUME NEW t \in Statements(p), OpOf(p, t) = "defer" \/ t[1] \in S,
                        NEW c \in BodiesOf(p, t), Fixed(p)[c]
                 PROVE  FALSE
    <3>1. ASSUME NEW t \in Statements(p), NEW c \in BodiesOf(p, t) PROVE c \in 1 .. Len(p)
      BY StatementsOf, BodiesLater
    <3>2. QED
      BY <3>1 DEF DefersAll
  <2>2. /\ t[1] \in 1 .. Len(p) /\ t[2] \in 1 .. Len(p[t[1]]) /\ t = <<t[1], t[2]>>
        /\ Len(p) \in Nat
    BY StatementsOf
  <2>3. c \in 1 .. Len(p)
    BY <2>2, BodiesLater
  <2>4. c # 1
    BY FirstBody
  <2>5. PICK o \in 1 .. c - 1 :
          /\ Fixed(p)[o] /\ p[o] # <<>>
          /\ Last(p[o]).op \in Fixable(p, o)
          /\ \/ Last(p[o]).body = c
             \/ Last(p[o]).op = "ifelse" /\ Last(p[o]).orelse = c /\ p[Last(p[o]).body] # <<>>
    BY <1>1, <2>1, <2>3, <2>4 DEF FixedIs
  <2>6. o \in 1 .. Len(p)
    BY <2>2, <2>3
  <2>7. p[o] \in Seq(Stmt)
    BY <2>6, StatementsOf
  <2>8. Len(p[o]) \in 1 .. Len(p[o]) /\ Last(p[o]) = p[o][Len(p[o])]
    BY <2>5, <2>7, LastOf
  <2>9. p[o][Len(p[o])].op \in {"if", "ifelse", "while"}
    BY <2>5, <2>8 DEF Fixable
  <2>10. c \in BodiesOf(p, <<o, Len(p[o])>>)
    <3>1. /\ p[o][Len(p[o])].op \in Nests => p[o][Len(p[o])].body \in BodiesOf(p, <<o, Len(p[o])>>)
          /\ p[o][Len(p[o])].op = "ifelse" => p[o][Len(p[o])].orelse \in BodiesOf(p, <<o, Len(p[o])>>)
      BY <2>6, <2>8, BodiesAre
    <3>2. \/ p[o][Len(p[o])].body = c
          \/ p[o][Len(p[o])].op = "ifelse" /\ p[o][Len(p[o])].orelse = c
      BY <2>5, <2>8, Zenon
    <3>3. p[o][Len(p[o])].op \in Nests
      BY <2>9 DEF Nests
    <3>4. QED
      BY <3>1, <3>2, <3>3, Zenon
  <2>11. <<o, Len(p[o])>> \in Statements(p)
    BY <2>6, <2>8, StatementsOf
  <2>12. t = <<o, Len(p[o])>>
    BY <2>10, <2>11, OneOwner
  <2>13. OpOf(p, t) # "defer"
    BY <2>9, <2>12 DEF OpOf
  <2>14. t[1] = o
    BY <2>12
  <2>15. QED
    BY <2>1, <2>5, <2>13, <2>14
<1>3. b \in S
  <2> HIDE DEF S
  <2>1. S \in SUBSET (1 .. Len(p))
    BY DEF S
  <2>2. QED
    BY <1>2, <2>1 DEF InDeferred
<1>4. QED
  BY <1>3

\* A body that has a return has a first one.
LEMMA FirstReturn ==
  ASSUME NEW p, NEW b, Returns(p, b) # {}
  PROVE  \E r \in Returns(p, b) : ~Behind(p, <<b, r>>)
<1>1. PICK R : R = OpToRel(<, Nat)
  OBVIOUS
<1>2. \A x, y \in Nat : x < y => <<x, y>> \in R
  BY <1>1 DEF OpToRel
<1>3. IsWellFoundedOn(R, Nat)
  BY <1>1, NatLessThanWellFounded
<1>4. Returns(p, b) \subseteq Nat
  BY DEF Returns
<1>5. PICK r \in Returns(p, b) : \A x \in Returns(p, b) : ~ (<<x, r>> \in R)
  BY <1>3, <1>4, WFMin
<1>6. QED
  BY <1>2, <1>4, <1>5 DEF Behind

\* And ReachedWithout(...)
LEMMA ReachOf ==
  ASSUME NEW c, NEW n \in Nat, NEW d
  PROVE  \E g : ReachIs(g, c, n, d) /\ ReachedWithout(c, n, d) = g[n]
<1> DEFINE Step(g, k) ==
             IF k = 0 THEN {1} \ {d}
             ELSE g[k - 1] \union ((UNION {Successors(c, b) : b \in g[k - 1]}) \ {d})
           Is(g, m) == g = [k \in 0 .. m |-> Step(g, k)]
           S == {m \in Nat : \E g : Is(g, m)}
<1>1. 0 \in S
  <2>1. Is([k \in 0 .. 0 |-> {1} \ {d}], 0)
    OBVIOUS
  <2>2. QED
    BY <2>1
<1>2. ASSUME NEW m \in Nat, m \in S
      PROVE  m + 1 \in S
  <2>1. PICK g : Is(g, m)
    BY <1>2
  <2>2. PICK h : h = [k \in 0 .. m + 1 |-> IF k = m + 1 THEN Step(g, m + 1) ELSE g[k]]
    OBVIOUS
  <2>3. ASSUME NEW k \in 0 .. m + 1
        PROVE  h[k] = Step(h, k)
    <3>1. CASE k = m + 1
      <4>1. h[k] = Step(g, k) /\ k # 0 /\ k - 1 = m /\ k - 1 # m + 1 /\ k - 1 \in 0 .. m + 1
        <5> HIDE DEF Step
        <5>1. QED
          BY <2>2, <3>1
      <4>2. h[k - 1] = g[k - 1]
        <5> HIDE DEF Step
        <5>1. QED
          BY <2>2, <4>1
      <4>3. QED
        BY <4>1, <4>2, Zenon
    <3>2. CASE k # m + 1
      <4>1. k \in 0 .. m /\ h[k] = g[k] /\ g[k] = Step(g, k)
        <5>1. k \in 0 .. m
          BY <3>2
        <5> HIDE DEF Step
        <5>2. QED
          BY <2>1, <2>2, <3>2, <5>1
      <4>2. k # 0 => h[k - 1] = g[k - 1]
        <5> HIDE DEF Step
        <5>1. QED
          BY <2>2, <4>1
      <4>3. QED
        BY <4>1, <4>2, Zenon
    <3>3. QED
      BY <3>1, <3>2
  <2>4. h = [k \in 0 .. m + 1 |-> Step(h, k)]
    <3> HIDE DEF Step
    <3>1. QED
      BY <2>2, <2>3
  <2>5. Is(h, m + 1)
    BY <2>4
  <2> HIDE DEF Is
  <2>6. QED
    BY <2>5
<1>3. n \in S
  <2> HIDE DEF S
  <2>1. Nat \subseteq S
    BY <1>1, <1>2, SetInduction
  <2>2. QED
    BY <2>1
<1>4. PICK g : Is(g, n)
  BY <1>3
<1> DEFINE reach == CHOOSE h : Is(h, n)
<1>5. ReachedWithout(c, n, d) = reach[n]
  BY DEF ReachedWithout
<1>6. Is(reach, n)
  <2> HIDE DEF Is
  <2>1. QED
    BY <1>4
<1>7. ReachIs(reach, c, n, d)
  <2> HIDE DEF reach
  <2>1. QED
    BY <1>6 DEF ReachIs
<1>8. QED
  BY <1>5, <1>7

-----------------------------------------------------------------------------
(* Steps of the stack *)

\* The three kinds of steps
LEMMA TopSteps ==
  ASSUME NEW s \in Seq(Frame), s # <<>>, NEW f \in Frame
  PROVE  Steps(s, ReplaceAt(s, Len(s), f), Len(s), f)
<1>1. Len(s) \in Nat \ {0}
  BY LastOf
<1>2. PICK t : t = ReplaceAt(s, Len(s), f)
  OBVIOUS
<1>3. /\ Len(t) = Len(s) /\ Last(t) = f /\ t[Len(s)] = f
      /\ \A j \in 1 .. Len(s) : j # Len(s) => t[j] = s[j]
  BY <1>2, SetLastOf
<1>4. QED
  BY <1>1, <1>2, <1>3 DEF Steps

LEMMA PushSteps ==
  ASSUME NEW s \in Seq(Frame), NEW f \in Frame
  PROVE  Steps(s, Append(s, f), Len(s) + 1, f)
<1>1. Len(s) \in Nat
  OBVIOUS
<1>2. QED
  BY <1>1, PushOn DEF Steps

LEMMA PopSteps ==
  ASSUME NEW s \in Seq(Frame), Len(s) > 1, NEW f \in Frame
  PROVE  Steps(s, ReplaceAt(Front(s), Len(s) - 1, f), Len(s) - 1, f)
<1>1. s # <<>> /\ Len(s) \in Nat
  BY EmptySeq
<1>2. PICK r : r = Front(s)
  OBVIOUS
<1>3. /\ r \in Seq(Frame) /\ Len(r) = Len(s) - 1 /\ r # <<>>
      /\ \A j \in 1 .. Len(s) - 1 : r[j] = s[j]
  BY <1>1, <1>2, FrontOf
<1>4. Steps(r, ReplaceAt(r, Len(r), f), Len(r), f)
  BY <1>3, TopSteps
<1>5. QED
  BY <1>1, <1>2, <1>3, <1>4 DEF Steps

\* Only the last frame has to be looked at.
LEMMA ShapeSteps ==
  ASSUME NEW p, NEW d, NEW s \in Seq(Frame), NEW t, NEW n, NEW f, Steps(s, t, n, f),
         Shape(p, d, s), PlaceOK(p, f),
         n > 1 => WaitsFor(p, d, s[n - 1], f),
         \A k \in 1 .. n : k # n => Beyond(p, s[k], f)
  PROVE  Shape(p, d, t)
<1>1. /\ n \in Nat \ {0} /\ n <= Len(s) + 1 /\ Len(t) = n /\ t[n] = f /\ Len(s) \in Nat
      /\ \A j \in 1 .. n : j # n => t[j] = s[j] /\ j \in 1 .. Len(s)
  BY DEF Steps
<1>2. ASSUME NEW j \in 1 .. n PROVE PlaceOK(p, t[j])
  BY <1>1 DEF Shape
<1>3. ASSUME NEW j \in 1 .. n, j > 1 PROVE WaitsFor(p, d, t[j - 1], t[j])
  <2>1. j - 1 \in 1 .. n /\ j - 1 # n
    BY <1>1, <1>3
  <2>2. t[j - 1] = s[j - 1]
    BY <1>1, <2>1
  <2>3. CASE j = n
    BY <1>1, <1>3, <2>2, <2>3
  <2>4. CASE j # n
    <3>1. t[j] = s[j] /\ j \in 1 .. Len(s)
      BY <1>1, <2>4
    <3>2. QED
      BY <1>3, <2>2, <3>1 DEF Shape
  <2>5. QED
    BY <2>3, <2>4
<1>4. ASSUME NEW k \in 1 .. n, NEW j \in 1 .. n, k < j PROVE Beyond(p, t[k], t[j])
  <2>1. k # n
    BY <1>1, <1>4
  <2>2. t[k] = s[k] /\ k \in 1 .. Len(s)
    BY <1>1, <2>1
  <2>3. CASE j = n
    BY <1>1, <2>1, <2>2, <2>3
  <2>4. CASE j # n
    <3>1. t[j] = s[j] /\ j \in 1 .. Len(s)
      BY <1>1, <2>4
    <3>2. QED
      BY <1>4, <2>2, <3>1 DEF Shape
  <2>5. QED
    BY <2>3, <2>4
<1>5. QED
  BY <1>1, <1>2, <1>3, <1>4 DEF Shape

-----------------------------------------------------------------------------
(* Where the frames are *)

\* What is known of the innermost call and its caller.
LEMMA TopShape ==
  ASSUME Inv, Running, ShapeInv
  PROVE  /\ Shape(fn, defer_blocks, stack) /\ DefersOK(fn, defer_blocks)
         /\ PlaceOK(fn, Top)
         /\ Top.at # "function" => WaitsFor(fn, defer_blocks, Caller, Top) /\ PlaceOK(fn, Caller)
         /\ \A k \in 1 .. Len(stack) : k # Len(stack) => Beyond(fn, stack[k], Top)
<1>1. Shape(fn, defer_blocks, stack) /\ DefersOK(fn, defer_blocks)
  BY DEF ShapeInv
<1>2. /\ Len(stack) \in Nat \ {0} /\ Top = stack[Len(stack)]
      /\ Top.at # "function" => Len(stack) > 1
  BY TopOK
<1>3. PlaceOK(fn, Top)
  BY <1>1, <1>2 DEF Shape
<1>4. ASSUME Top.at # "function"
      PROVE  WaitsFor(fn, defer_blocks, Caller, Top) /\ PlaceOK(fn, Caller)
  <2>1. Len(stack) \in 1 .. Len(stack) /\ Len(stack) > 1 /\ Len(stack) - 1 \in 1 .. Len(stack)
    BY <1>2, <1>4
  <2>2. QED
    BY <1>1, <1>2, <2>1 DEF Shape, Caller
<1>5. ASSUME NEW k \in 1 .. Len(stack), k # Len(stack) PROVE Beyond(fn, stack[k], Top)
  <2>1. Len(stack) \in 1 .. Len(stack) /\ k < Len(stack)
    BY <1>2, <1>5
  <2>2. QED
    BY <1>1, <1>2, <2>1 DEF Shape
<1>6. QED
  BY <1>1, <1>3, <1>4, <1>5

\* A frame is at a statement that the text of the function has, or at one of what
\* is deferred.
LEMMA ThisShape ==
  ASSUME Inv, InBody, ShapeInv
  PROVE  /\ Top.body \in LiveBodies(fn, 1) \union InDeferred(fn)
         /\ \A r \in Returns(fn, Top.body) : r >= Top.i
         /\ Top.value = 0 /\ ~Top.returns
         /\ \A c \in BodiesOf(fn, Name) : This.op # "defer" =>
              /\ Top.body \in LiveBodies(fn, 1) => c \in LiveBodies(fn, 1)
              /\ Top.body \in InDeferred(fn) => c \in InDeferred(fn)
<1>1. Running /\ Top.at # "defers"
  BY DEF InBody
<1>2. PlaceOK(fn, Top)
  BY <1>1, TopShape
<1>3. /\ Top.body \in 1 .. Len(fn) /\ Top.i \in 1 .. Len(fn[Top.body])
      /\ IsFunction(fn) /\ Top \in Frame
  BY <1>1, ThisOK, TopOK DEF Inv, TypeOK
<1>4. Len(fn[Top.body]) \in Nat /\ Top.i # Len(fn[Top.body]) + 1
  BY <1>3, StatementsOf
<1>5. \A r \in Returns(fn, Top.body) : r >= Top.i
  BY <1>1, <1>2, <1>4 DEF PlaceOK
<1>6. Top.body \in LiveBodies(fn, 1) \union InDeferred(fn) /\ Top.value = 0 /\ ~Top.returns
  BY <1>1, <1>2, <1>4 DEF PlaceOK
<1>7. ASSUME NEW c \in BodiesOf(fn, Name), This.op # "defer"
      PROVE  /\ Top.body \in LiveBodies(fn, 1) => c \in LiveBodies(fn, 1)
             /\ Top.body \in InDeferred(fn) => c \in InDeferred(fn)
  <2>1. This.op = fn[Top.body][Top.i].op /\ Name = <<Top.body, Top.i>>
    BY DEF This, Body, Name
  <2>2. Top.body \in LiveBodies(fn, 1) => c \in LiveBodies(fn, 1)
    BY <1>3, <1>5, <1>7, <2>1, LiveHere
  <2>3. Top.body \in InDeferred(fn) => c \in InDeferred(fn)
    <3>1. <<Top.body, Top.i>> \in Statements(fn)
      BY <1>3, StatementsOf
    <3>2. Top.body \in InDeferred(fn) => BodiesOf(fn, <<Top.body, Top.i>>) \subseteq InDeferred(fn)
      <4>1. <<Top.body, Top.i>>[1] = Top.body
        OBVIOUS
      <4>2. QED
        BY <1>3, <3>1, <4>1, DeferredStep DEF DefersAll
    <3>3. QED
      BY <1>7, <2>1, <3>2
  <2>4. QED
    BY <2>2, <2>3
<1>8. QED
  BY <1>5, <1>6, <1>7

\* A statement without a body is passed.
LEMMA PassesShape ==
  ASSUME Inv, InBody, ShapeInv, This.op # "return",
         NEW v \in Nat, v # 0 => Top.i = Len(Body)
  PROVE  /\ Steps(stack, ReplaceAt(stack, Len(stack), After(Top, v)), Len(stack), After(Top, v))
         /\ Shape(fn, defer_blocks, ReplaceAt(stack, Len(stack), After(Top, v)))
<1> DEFINE f == After(Top, v)
           t == ReplaceAt(stack, Len(stack), f)
<1>1. Running /\ Top.at # "defers"
  BY DEF InBody
<1>2. /\ Top \in Frame /\ Len(stack) \in Nat \ {0} /\ Top = stack[Len(stack)]
      /\ Top.at # "function" => Len(stack) > 1
      /\ stack \in Seq(Frame) /\ stack # <<>>
  BY <1>1, TopOK, Types DEF Inv
<1>3. /\ f \in Frame /\ f.at = Top.at /\ f.body = Top.body /\ f.i = Top.i + 1 /\ f.value = v
      /\ f.returns = Top.returns /\ f.after = Top.after /\ f.orelse = Top.orelse
  BY <1>2, AfterIs
<1> HIDE DEF f
<1>4. Steps(stack, t, Len(stack), f)
  BY <1>2, <1>3, TopSteps
<1>5. PlaceOK(fn, Top) /\ Shape(fn, defer_blocks, stack)
  BY <1>1, TopShape
<1>6. /\ Top.body \in 1 .. Len(fn) /\ Top.i \in 1 .. Len(fn[Top.body]) /\ IsFunction(fn)
      /\ \A r \in Returns(fn, Top.body) : r >= Top.i
      /\ ~Top.returns
  BY ThisOK, ThisShape DEF Inv, TypeOK
<1>7. \A r \in Returns(fn, Top.body) : r >= Top.i + 1
  <2>1. Top.i \notin Returns(fn, Top.body)
    BY DEF Returns, This, Body
  <2>2. Returns(fn, Top.body) \subseteq Nat
    BY DEF Returns
  <2>3. QED
    BY <1>6, <2>1, <2>2
<1>8. PlaceOK(fn, f)
  <2>1. Len(fn[Top.body]) \in Nat
    BY <1>6, StatementsOf
  <2>2. f.i = Len(fn[Top.body]) + 1 => Returns(fn, Top.body) = {}
    <3>1. Returns(fn, Top.body) \subseteq 1 .. Len(fn[Top.body])
      BY DEF Returns
    <3>2. QED
      BY <1>3, <1>7, <2>1, <3>1
  <2>3. f.value # 0 => f.i = Len(fn[Top.body]) + 1
    BY <1>3 DEF Body
  <2>4. QED
    BY <1>1, <1>3, <1>5, <1>6, <1>7, <2>2, <2>3 DEF PlaceOK
<1>9. Len(stack) > 1 => WaitsFor(fn, defer_blocks, stack[Len(stack) - 1], f)
  <2>1. Len(stack) > 1 => WaitsFor(fn, defer_blocks, stack[Len(stack) - 1], Top)
    BY <1>2, <1>5 DEF Shape
  <2>2. QED
    BY <1>3, <2>1 DEF WaitsFor
<1>10. \A k \in 1 .. Len(stack) : k # Len(stack) => Beyond(fn, stack[k], f)
  <2>1. \A k \in 1 .. Len(stack) : k # Len(stack) => Beyond(fn, stack[k], Top)
    BY <1>1, TopShape
  <2>2. QED
    BY <1>3, <2>1 DEF Beyond
<1>11. Shape(fn, defer_blocks, t)
  <2> HIDE DEF t
  <2>1. QED
    BY <1>2, <1>4, <1>5, <1>8, <1>9, <1>10, ShapeSteps
<1>12. QED
  BY <1>4, <1>11 DEF f, t

\* A frame for a body of the statement at hand is pushed.
LEMMA EntersShape ==
  ASSUME Inv, InBody, ShapeInv, This.op # "defer",
         NEW f \in Frame, f.at \in {"then", "else", "loop"}, f.i = 1, f.value = 0, ~f.returns,
         f.body \in BodiesOf(fn, Name), WaitsFor(fn, defer_blocks, Top, f)
  PROVE  /\ Steps(stack, Append(stack, f), Len(stack) + 1, f)
         /\ Shape(fn, defer_blocks, Append(stack, f))
<1>1. Running /\ Top.at # "defers"
  BY DEF InBody
<1>2. /\ Top \in Frame /\ Len(stack) \in Nat \ {0} /\ Top = stack[Len(stack)]
      /\ stack \in Seq(Frame) /\ stack # <<>> /\ IsFunction(fn)
      /\ Shape(fn, defer_blocks, stack)
  BY <1>1, TopOK, TopShape, Types DEF Inv, TypeOK
<1>3. PICK t : t = Append(stack, f)
  OBVIOUS
<1>4. Steps(stack, t, Len(stack) + 1, f)
  BY <1>2, <1>3, PushSteps
<1>5. PlaceOK(fn, f)
  <2>1. f.body \in LiveBodies(fn, 1) \union InDeferred(fn)
    BY ThisShape
  <2>2. Returns(fn, f.body) \subseteq Nat /\ 0 \notin Returns(fn, f.body)
    BY DEF Returns
  <2>3. \A r \in Returns(fn, f.body) : r >= f.i
    BY <2>2
  <2>4. QED
    BY <2>1, <2>3 DEF PlaceOK
<1>6. \A k \in 1 .. Len(stack) : Beyond(fn, stack[k], f)
  <2>1. TAKE k \in 1 .. Len(stack)
  <2>2. SUFFICES ASSUME stack[k].at = "defers" PROVE f.body \in InDeferred(fn)
    BY DEF Beyond
  <2>3. k # Len(stack)
    BY <1>1, <1>2, <2>2
  <2>4. Top.body \in InDeferred(fn)
    BY <1>1, <2>2, <2>3, TopShape DEF Beyond
  <2>5. QED
    BY <2>4, ThisShape
<1>7. QED
  <2>1. Len(stack) + 1 - 1 = Len(stack)
    BY <1>2
  <2>2. WaitsFor(fn, defer_blocks, stack[Len(stack) + 1 - 1], f)
    BY <1>2, <2>1
  <2>3. \A k \in 1 .. Len(stack) + 1 : k # Len(stack) + 1 => Beyond(fn, stack[k], f)
    BY <1>2, <1>6
  <2>4. QED
    BY <1>2, <1>3, <1>4, <1>5, <2>2, <2>3, ShapeSteps

\* An if or a loop ends.
LEMMA LeavesShape ==
  ASSUME Inv, Running, ShapeInv, Top.at \in {"then", "else", "loop"},
         NEW v \in Nat, v # 0 => Caller.i = Len(fn[Caller.body])
  PROVE  LET t == ReplaceAt(Front(stack), Len(stack) - 1, After(Caller, v)) IN
         /\ Steps(stack, t, Len(stack) - 1, After(Caller, v))
         /\ Shape(fn, defer_blocks, t)
<1> DEFINE f == After(Caller, v)
           t == ReplaceAt(Front(stack), Len(stack) - 1, f)
<1>1. /\ Len(stack) \in Nat /\ Len(stack) > 1
      /\ Caller \in Frame /\ Caller = stack[Len(stack) - 1]
      /\ FrameOK(fn, blocks, Caller) /\ Linked(fn, Caller, Top)
      /\ stack \in Seq(Frame) /\ IsFunction(fn)
      /\ StackOK(fn, blocks, stack)
  BY TopOK, Types DEF Inv, TypeOK, Caller
<1>2. /\ f \in Frame /\ f.at = Caller.at /\ f.body = Caller.body /\ f.i = Caller.i + 1 /\ f.value = v
      /\ f.returns = Caller.returns /\ f.after = Caller.after /\ f.orelse = Caller.orelse
  BY <1>1, AfterIs
<1>3. /\ WaitsFor(fn, defer_blocks, Caller, Top) /\ PlaceOK(fn, Caller)
      /\ Shape(fn, defer_blocks, stack)
  BY TopShape
<1> HIDE DEF f
<1>4. Steps(stack, t, Len(stack) - 1, f)
  BY <1>1, <1>2, PopSteps
<1> HIDE DEF t
<1>5. /\ Caller.at # "defers" /\ Caller.body \in 1 .. Len(fn) /\ Caller.i \in Nat
      /\ Caller.i >= 1 /\ Caller.i <= Len(fn[Caller.body])
  BY <1>1 DEF Linked, FrameOK, Frame
<1>6. Len(fn[Caller.body]) \in Nat
  BY <1>1, <1>5, StatementsOf
<1>7. fn[Caller.body][Caller.i].op # "return"
  BY <1>3 DEF WaitsFor
<1>8. (\A r \in Returns(fn, Caller.body) : r >= Caller.i) /\ ~Caller.returns
  BY <1>3, <1>5, <1>6 DEF PlaceOK
<1>9. \A r \in Returns(fn, Caller.body) : r >= Caller.i + 1
  <2>1. Caller.i \notin Returns(fn, Caller.body)
    BY <1>7 DEF Returns
  <2>2. Returns(fn, Caller.body) \subseteq Nat
    BY DEF Returns
  <2>3. QED
    BY <1>5, <1>8, <2>1, <2>2
<1>10. PlaceOK(fn, f)
  <2>1. f.i = Len(fn[Caller.body]) + 1 => Returns(fn, Caller.body) = {}
    <3>1. Returns(fn, Caller.body) \subseteq 1 .. Len(fn[Caller.body])
      BY DEF Returns
    <3>2. QED
      BY <1>2, <1>6, <1>9, <3>1
  <2>2. f.value # 0 => f.i = Len(fn[Caller.body]) + 1
    BY <1>2
  <2>3. QED
    BY <1>2, <1>3, <1>5, <1>8, <1>9, <2>1, <2>2 DEF PlaceOK
<1>11. Len(stack) - 1 > 1 => WaitsFor(fn, defer_blocks, stack[Len(stack) - 1 - 1], f)
  <2>1. Len(stack) - 1 > 1 => WaitsFor(fn, defer_blocks, stack[Len(stack) - 1 - 1], Caller)
    BY <1>1, <1>3 DEF Shape
  <2>2. QED
    BY <1>2, <2>1 DEF WaitsFor
<1>12. \A k \in 1 .. Len(stack) - 1 : k # Len(stack) - 1 => Beyond(fn, stack[k], f)
  <2>1. \A k \in 1 .. Len(stack) - 1 : k # Len(stack) - 1 => Beyond(fn, stack[k], Caller)
    BY <1>1, <1>3 DEF Shape
  <2>2. QED
    BY <1>2, <2>1 DEF Beyond
<1>13. Shape(fn, defer_blocks, t)
  BY <1>1, <1>2, <1>3, <1>4, <1>10, <1>11, <1>12, ShapeSteps
<1>14. QED
  BY <1>4, <1>13 DEF f, t

\* gen_codegen_defer_blocks() is called, from a return or at the end.
LEMMA DefersShape ==
  ASSUME Inv, Running, ShapeInv, Top.at # "defers", Top.body \in LiveBodies(fn, 1),
         Top.i <= Len(Body) => This.op = "return"
  PROVE  /\ Steps(stack, Append(stack, Call("defers", 0, 0, 0)), Len(stack) + 1,
                  Call("defers", 0, 0, 0))
         /\ Shape(fn, defer_blocks, Append(stack, Call("defers", 0, 0, 0)))
<1>1. PICK f : f = Call("defers", 0, 0, 0)
  OBVIOUS
<1>2. f \in Frame /\ f.at = "defers" /\ f.i = 1
  BY <1>1 DEF Call, Frame
<1>3. /\ Len(stack) \in Nat \ {0} /\ Top = stack[Len(stack)]
      /\ stack \in Seq(Frame) /\ stack # <<>> /\ IsFunction(fn)
      /\ Shape(fn, defer_blocks, stack)
  BY TopOK, TopShape, Types DEF Inv, TypeOK
<1>4. PICK t : t = Append(stack, f)
  OBVIOUS
<1>5. Steps(stack, t, Len(stack) + 1, f)
  BY <1>2, <1>3, <1>4, PushSteps
<1>6. PlaceOK(fn, f)
  BY <1>2 DEF PlaceOK
<1>7. \A k \in 1 .. Len(stack) + 1 : k # Len(stack) + 1 => Beyond(fn, stack[k], f)
  <2>1. ASSUME NEW k \in 1 .. Len(stack), stack[k].at = "defers" PROVE FALSE
    <3>1. k # Len(stack)
      BY <1>3, <2>1
    <3>2. Top.body \in InDeferred(fn)
      BY <2>1, <3>1, TopShape DEF Beyond
    <3>3. QED
      BY <1>3, <3>2, LiveOrDeferred
  <2>2. QED
    BY <1>3, <2>1 DEF Beyond
<1>8. WaitsFor(fn, defer_blocks, stack[Len(stack) + 1 - 1], f)
  <2>1. stack[Len(stack) + 1 - 1] = Top
    BY <1>3
  <2>2. WaitsFor(fn, defer_blocks, Top, f)
    BY <1>2 DEF WaitsFor, This, Body
  <2>3. QED
    BY <2>1, <2>2
<1>9. QED
  BY <1>1, <1>2, <1>3, <1>4, <1>5, <1>6, <1>7, <1>8, ShapeSteps

\* The else branch comes after the first one.
LEMMA ElseShape ==
  ASSUME Inv, ShapeInv, ThenDone
  PROVE  LET f == [Call("else", fn[Caller.body][Caller.i].orelse, Top.after, 0) EXCEPT
                     !.thenValue = Top.value, !.thenBlock = insert] IN
         /\ f \in Frame /\ f.at = "else" /\ f.body = fn[Caller.body][Caller.i].orelse
         /\ f.i = 1 /\ f.value = 0 /\ ~f.returns /\ f.after = Top.after /\ f.orelse = 0
         /\ f.thenValue = Top.value /\ f.thenBlock = insert
         /\ f.body \in BodiesOf(fn, <<Caller.body, Caller.i>>)
         /\ Steps(stack, stack', Len(stack), f)
         /\ Shape(fn, defer_blocks, stack')
<1>1. PICK c : c = Call("else", fn[Caller.body][Caller.i].orelse, Top.after, 0)
  OBVIOUS
<1>2. PICK f : f = [c EXCEPT !.thenValue = Top.value, !.thenBlock = insert]
  OBVIOUS
<1>3. Running /\ Top.at = "then" /\ Top.orelse # 0
  BY DEF ThenDone, BodyDone
<1>4. /\ Len(stack) \in Nat /\ Len(stack) > 1 /\ Top \in Frame /\ Top = stack[Len(stack)]
      /\ Caller \in Frame /\ Caller = stack[Len(stack) - 1]
      /\ FrameOK(fn, blocks, Caller) /\ Linked(fn, Caller, Top)
      /\ stack \in Seq(Frame) /\ stack # <<>> /\ IsFunction(fn) /\ insert \in Nat
  BY <1>3, TopOK, Types DEF Inv, TypeOK, Caller
<1>5. /\ WaitsFor(fn, defer_blocks, Caller, Top) /\ PlaceOK(fn, Caller)
      /\ Shape(fn, defer_blocks, stack)
  BY <1>3, TopShape
<1>6. /\ Caller.at # "defers" /\ Caller.body \in 1 .. Len(fn) /\ Caller.i \in 1 .. Len(fn[Caller.body])
      /\ fn[Caller.body][Caller.i].op = "ifelse"
  <2>1. /\ Caller.at # "defers" /\ Caller.body \in 1 .. Len(fn) /\ Caller.i \in Nat
        /\ Caller.i >= 1 /\ Caller.i <= Len(fn[Caller.body])
    BY <1>3, <1>4 DEF Linked, FrameOK, Frame
  <2>2. Len(fn[Caller.body]) \in Nat
    BY <1>4, <2>1, StatementsOf
  <2>3. fn[Caller.body][Caller.i].op = "ifelse"
    BY <1>3, <1>5 DEF WaitsFor
  <2>4. QED
    BY <2>1, <2>2, <2>3
<1>7. /\ fn[Caller.body][Caller.i].orelse \in BodiesOf(fn, <<Caller.body, Caller.i>>)
      /\ fn[Caller.body][Caller.i].orelse \in 1 .. Len(fn)
  <2>1. fn[Caller.body][Caller.i].orelse \in BodiesOf(fn, <<Caller.body, Caller.i>>)
    BY <1>4, <1>6, BodiesAre
  <2>2. QED
    BY <1>4, <1>6, <2>1, BodiesLater
<1>8. /\ c \in Frame /\ c.at = "else" /\ c.body = fn[Caller.body][Caller.i].orelse
      /\ c.i = 1 /\ c.value = 0 /\ ~c.returns /\ c.after = Top.after /\ c.orelse = 0
  <2>1. Top.after \in Nat /\ fn[Caller.body][Caller.i].orelse \in Nat
    <3>1. Top.after \in Nat
      BY <1>4 DEF Frame
    <3>2. fn[Caller.body][Caller.i].orelse \in Nat
      BY <1>7
    <3>3. QED
      BY <3>1, <3>2
  <2>2. QED
    BY <1>1, <2>1 DEF Call, Frame
<1>9. /\ f \in Frame /\ f.at = "else" /\ f.body = fn[Caller.body][Caller.i].orelse
      /\ f.i = 1 /\ f.value = 0 /\ ~f.returns /\ f.after = Top.after /\ f.orelse = 0
      /\ f.thenValue = Top.value /\ f.thenBlock = insert
  <2>1. Top.value \in Nat
    BY <1>4 DEF Frame
  <2>2. QED
    BY <1>2, <1>4, <1>8, <2>1 DEF Frame
<1>10. stack' = ReplaceAt(stack, Len(stack), f)
  BY <1>1, <1>2 DEF ThenDone
<1>11. Steps(stack, stack', Len(stack), f)
  BY <1>4, <1>9, <1>10, TopSteps
<1>12. /\ Caller.body \in LiveBodies(fn, 1) => f.body \in LiveBodies(fn, 1)
       /\ Caller.body \in InDeferred(fn) => f.body \in InDeferred(fn)
  <2>1. \A r \in Returns(fn, Caller.body) : r >= Caller.i
    <3>1. Len(fn[Caller.body]) \in Nat
      BY <1>4, <1>6, StatementsOf
    <3>2. QED
      BY <1>5, <1>6, <3>1 DEF PlaceOK
  <2>2. Caller.body \in LiveBodies(fn, 1) => f.body \in LiveBodies(fn, 1)
    BY <1>4, <1>6, <1>7, <1>9, <2>1, LiveHere
  <2>3. <<Caller.body, Caller.i>> \in Statements(fn) /\ <<Caller.body, Caller.i>>[1] = Caller.body
    BY <1>4, <1>6, StatementsOf
  <2>4. Caller.body \in InDeferred(fn) => f.body \in InDeferred(fn)
    BY <1>4, <1>7, <1>9, <2>3, DeferredStep DEF DefersAll
  <2>5. QED
    BY <2>2, <2>4
<1>13. PlaceOK(fn, f)
  <2>1. f.body \in LiveBodies(fn, 1) \union InDeferred(fn)
    BY <1>5, <1>6, <1>12 DEF PlaceOK
  <2>2. Returns(fn, f.body) \subseteq Nat /\ 0 \notin Returns(fn, f.body)
    BY DEF Returns
  <2>3. \A r \in Returns(fn, f.body) : r >= f.i
    BY <1>9, <2>2
  <2>4. QED
    BY <1>9, <2>1, <2>3 DEF PlaceOK
<1>14. Len(stack) > 1 => WaitsFor(fn, defer_blocks, stack[Len(stack) - 1], f)
  BY <1>4, <1>6, <1>7, <1>9 DEF WaitsFor
<1>15. \A k \in 1 .. Len(stack) : k # Len(stack) => Beyond(fn, stack[k], f)
  <2>1. TAKE k \in 1 .. Len(stack)
  <2>2. SUFFICES ASSUME k # Len(stack), stack[k].at = "defers" PROVE f.body \in InDeferred(fn)
    BY <1>9 DEF Beyond
  <2>3. k # Len(stack) - 1
    BY <1>4, <1>6, <2>2
  <2>4. k < Len(stack) - 1 /\ Len(stack) - 1 \in 1 .. Len(stack)
    BY <1>4, <2>2, <2>3
  <2>5. Beyond(fn, stack[k], Caller)
    BY <1>4, <1>5, <2>4 DEF Shape
  <2>6. QED
    BY <1>12, <2>2, <2>5 DEF Beyond
<1>16. Shape(fn, defer_blocks, stack')
  BY <1>4, <1>5, <1>11, <1>13, <1>14, <1>15, ShapeSteps
<1>17. QED
  BY <1>1, <1>2, <1>7, <1>9, <1>11, <1>16

\* A deferred body is begun.
LEMMA DeferredShape ==
  ASSUME Inv, ShapeInv, InDefers, Top.i <= Len(defer_blocks)
  PROVE  LET f == Call("deferred", defer_blocks[Top.i], 0, 0) IN
         /\ f \in Frame /\ f.at = "deferred" /\ f.body = defer_blocks[Top.i] /\ f.i = 1
         /\ f.value = 0 /\ ~f.returns
         /\ Top.i \in 1 .. Len(defer_blocks) /\ f.body \in InDeferred(fn)
         /\ Steps(stack, Append(stack, f), Len(stack) + 1, f)
         /\ Shape(fn, defer_blocks, Append(stack, f))
<1>1. PICK f : f = Call("deferred", defer_blocks[Top.i], 0, 0)
  OBVIOUS
<1>2. Running /\ Top.at = "defers"
  BY DEF InDefers
<1>3. /\ Len(stack) \in Nat \ {0} /\ Top = stack[Len(stack)] /\ Top \in Frame
      /\ stack \in Seq(Frame) /\ stack # <<>> /\ IsFunction(fn)
      /\ Shape(fn, defer_blocks, stack) /\ FrameOK(fn, blocks, Top)
      /\ defer_blocks \in Seq(1 .. Len(fn)) /\ DefersOK(fn, defer_blocks)
  BY <1>2, TopOK, TopShape, Types DEF Inv, TypeOK
<1>4. Top.i \in 1 .. Len(defer_blocks)
  BY <1>3, SMTT(30) DEF FrameOK, Frame
<1>5. defer_blocks[Top.i] \in InDeferred(fn) /\ defer_blocks[Top.i] \in Nat
  <2>1. PICK u \in LiveIn(fn, 1) : OpOf(fn, u) = "defer" /\ BodyOf(fn, u) = defer_blocks[Top.i]
    BY <1>3, <1>4 DEF DefersOK
  <2>2. u \in Statements(fn)
    BY DEF LiveIn
  <2>3. u[1] \in 1 .. Len(fn) /\ u[2] \in 1 .. Len(fn[u[1]]) /\ u = <<u[1], u[2]>>
    BY <1>3, <2>2, StatementsOf
  <2>4. fn[u[1]][u[2]].op \in Nests /\ fn[u[1]][u[2]].body = defer_blocks[Top.i]
    BY <2>1 DEF OpOf, BodyOf, Nests
  <2>5. defer_blocks[Top.i] \in BodiesOf(fn, u)
    <3>1. fn[u[1]][u[2]].body \in BodiesOf(fn, <<u[1], u[2]>>)
      BY <1>3, <2>3, <2>4, BodiesAre
    <3>2. QED
      BY <2>3, <2>4, <3>1, Zenon
  <2>6. defer_blocks[Top.i] \in InDeferred(fn)
    BY <1>3, <2>1, <2>2, <2>5, DeferredStep DEF DefersAll
  <2>7. defer_blocks[Top.i] \in 1 .. Len(fn)
    BY <1>3, <2>6, DeferredStep
  <2>8. QED
    BY <2>6, <2>7
<1>6. /\ f \in Frame /\ f.at = "deferred" /\ f.body = defer_blocks[Top.i] /\ f.i = 1
      /\ f.value = 0 /\ ~f.returns
  BY <1>1, <1>5 DEF Call, Frame
<1>7. PICK t : t = Append(stack, f)
  OBVIOUS
<1>8. Steps(stack, t, Len(stack) + 1, f)
  BY <1>3, <1>6, <1>7, PushSteps
<1>9. PlaceOK(fn, f)
  <2>1. Returns(fn, f.body) \subseteq Nat /\ 0 \notin Returns(fn, f.body)
    BY DEF Returns
  <2>2. \A r \in Returns(fn, f.body) : r >= f.i
    BY <1>6, <2>1
  <2>3. QED
    BY <1>5, <1>6, <2>2 DEF PlaceOK
<1>10. WaitsFor(fn, defer_blocks, stack[Len(stack) + 1 - 1], f)
  <2>1. stack[Len(stack) + 1 - 1] = Top
    BY <1>3
  <2>2. WaitsFor(fn, defer_blocks, Top, f)
    BY <1>4, <1>6 DEF WaitsFor
  <2>3. QED
    BY <2>1, <2>2
<1>11. \A k \in 1 .. Len(stack) + 1 : k # Len(stack) + 1 => Beyond(fn, stack[k], f)
  BY <1>5, <1>6 DEF Beyond
<1>12. QED
  BY <1>1, <1>3, <1>4, <1>5, <1>6, <1>7, <1>8, <1>9, <1>10, <1>11, ShapeSteps

\* A deferred body is done.
LEMMA DeferredDoneShape ==
  ASSUME Inv, ShapeInv, DeferredDone
  PROVE  /\ Caller \in Frame /\ Caller.at = "defers"
         /\ Len(stack) > 1 /\ Caller = stack[Len(stack) - 1]
         /\ Steps(stack, stack', Len(stack) - 1, After(Caller, 0))
         /\ Shape(fn, defer_blocks, stack')
<1>1. Running /\ Top.at = "deferred"
  BY DEF DeferredDone, BodyDone
<1>2. /\ Len(stack) \in Nat /\ Len(stack) > 1
      /\ Caller \in Frame /\ Caller = stack[Len(stack) - 1]
      /\ Linked(fn, Caller, Top) /\ stack \in Seq(Frame)
      /\ Shape(fn, defer_blocks, stack)
  BY <1>1, TopOK, TopShape, Types DEF Inv, Caller
<1>3. Caller.at = "defers"
  BY <1>1, <1>2 DEF Linked
<1>4. PICK f : f = After(Caller, 0)
  OBVIOUS
<1>5. f \in Frame /\ f.at = "defers"
  BY <1>2, <1>3, <1>4, AfterIs, 0 \in Nat
<1>6. stack' = ReplaceAt(Front(stack), Len(stack) - 1, f)
  BY <1>4 DEF DeferredDone, Return
<1>7. Steps(stack, stack', Len(stack) - 1, f)
  BY <1>2, <1>5, <1>6, PopSteps
<1>8. PlaceOK(fn, f)
  BY <1>5 DEF PlaceOK
<1>9. Len(stack) - 1 > 1 => WaitsFor(fn, defer_blocks, stack[Len(stack) - 1 - 1], f)
  <2>1. Len(stack) - 1 > 1 => WaitsFor(fn, defer_blocks, stack[Len(stack) - 1 - 1], Caller)
    BY <1>2 DEF Shape
  <2>2. QED
    BY <1>3, <1>5, <2>1 DEF WaitsFor
<1>10. \A k \in 1 .. Len(stack) - 1 : k # Len(stack) - 1 => Beyond(fn, stack[k], f)
  <2>1. \A k \in 1 .. Len(stack) - 1 : k # Len(stack) - 1 => Beyond(fn, stack[k], Caller)
    BY <1>2 DEF Shape
  <2>2. QED
    BY <1>3, <2>1 DEF Beyond
<1>11. Shape(fn, defer_blocks, stack')
  BY <1>2, <1>7, <1>8, <1>9, <1>10, ShapeSteps
<1>12. QED
  BY <1>2, <1>3, <1>4, <1>7, <1>11

\* The frame of a body that returns skips the rest of it.
LEMMA ReturnShape ==
  ASSUME Inv, ShapeInv, ReturnBuilt
  PROVE  LET f == [Caller EXCEPT !.i = Len(fn[Caller.body]) + 1, !.value = 0,
                                 !.returns = Caller.at \notin {"loop", "deferred"}] IN
         /\ Caller \in Frame /\ Caller.at \in {"function", "then", "else", "loop"}
         /\ Caller = stack[Len(stack) - 1] /\ Len(stack) > 1
         /\ Caller.body \in LiveBodies(fn, 1)
         /\ Caller.body \in 1 .. Len(fn) /\ Caller.i \in 1 .. Len(fn[Caller.body])
         /\ fn[Caller.body][Caller.i].op = "return"
         /\ f \in Frame /\ f.at = Caller.at /\ f.body = Caller.body
         /\ f.i = Len(fn[Caller.body]) + 1 /\ f.value = 0
         /\ f.returns = (Caller.at # "loop")
         /\ f.after = Caller.after /\ f.orelse = Caller.orelse
         /\ f.thenValue = Caller.thenValue /\ f.thenBlock = Caller.thenBlock
         /\ Steps(stack, stack', Len(stack) - 1, f)
         /\ Shape(fn, defer_blocks, stack')
<1>1. Running /\ Top.at = "defers" /\ Caller.i <= Len(fn[Caller.body])
  BY DEF ReturnBuilt, DefersDone, InDefers
<1>2. /\ Len(stack) \in Nat /\ Len(stack) > 1
      /\ Caller \in Frame /\ Caller = stack[Len(stack) - 1]
      /\ Linked(fn, Caller, Top) /\ FrameOK(fn, blocks, Caller) /\ stack \in Seq(Frame)
      /\ Shape(fn, defer_blocks, stack) /\ IsFunction(fn)
      /\ PlaceOK(fn, Caller) /\ WaitsFor(fn, defer_blocks, Caller, Top)
  BY <1>1, TopOK, TopShape, Types DEF Inv, TypeOK, Caller
<1>3. Caller.at # "defers" /\ Caller.body \in LiveBodies(fn, 1)
  BY <1>1, <1>2 DEF Linked, WaitsFor
<1>4. /\ Caller.body \in 1 .. Len(fn) /\ Caller.i \in 1 .. Len(fn[Caller.body])
      /\ Len(fn[Caller.body]) \in Nat
  <2>1. Caller.body \in 1 .. Len(fn) /\ Caller.i \in Nat /\ Caller.i >= 1
    BY <1>2, <1>3 DEF FrameOK, Frame
  <2>2. Len(fn[Caller.body]) \in Nat
    BY <1>2, <2>1, StatementsOf
  <2>3. QED
    BY <1>1, <2>1, <2>2
<1>5. fn[Caller.body][Caller.i].op = "return" /\ Caller.i \in Returns(fn, Caller.body)
  BY <1>1, <1>2, <1>4 DEF WaitsFor, Returns
<1>6. Caller.at \in {"function", "then", "else", "loop"}
  <2>1. Caller.at # "deferred"
    BY <1>2, <1>3, LiveOrDeferred DEF PlaceOK
  <2>2. QED
    BY <1>2, <1>3, <2>1 DEF Frame
<1>7. PICK f : f = [Caller EXCEPT !.i = Len(fn[Caller.body]) + 1, !.value = 0,
                                  !.returns = Caller.at \notin {"loop", "deferred"}]
  OBVIOUS
<1>8. /\ f \in Frame /\ f.at = Caller.at /\ f.body = Caller.body
      /\ f.i = Len(fn[Caller.body]) + 1 /\ f.value = 0
      /\ f.returns = (Caller.at # "loop")
      /\ f.after = Caller.after /\ f.orelse = Caller.orelse
      /\ f.thenValue = Caller.thenValue /\ f.thenBlock = Caller.thenBlock
  <2>1. Len(fn[Caller.body]) + 1 \in Nat
    BY <1>4
  <2>2. PICK l \in Nat : l = Len(fn[Caller.body]) + 1
    BY <2>1
  <2>3. PICK r \in BOOLEAN : r = (Caller.at \notin {"loop", "deferred"})
    OBVIOUS
  <2>4. f = [Caller EXCEPT !.i = l, !.value = 0, !.returns = r]
    BY <1>7, <2>2, <2>3
  <2>5. /\ f \in Frame /\ f.at = Caller.at /\ f.body = Caller.body
        /\ f.i = l /\ f.value = 0 /\ f.returns = r
        /\ f.after = Caller.after /\ f.orelse = Caller.orelse
        /\ f.thenValue = Caller.thenValue /\ f.thenBlock = Caller.thenBlock
    BY <1>2, <2>4 DEF Frame
  <2>6. r = (Caller.at # "loop")
    BY <1>6, <2>3
  <2>7. QED
    BY <2>2, <2>5, <2>6
<1>9. stack' = ReplaceAt(Front(stack), Len(stack) - 1, f)
  BY <1>7 DEF ReturnBuilt, Return
<1>10. Steps(stack, stack', Len(stack) - 1, f)
  BY <1>2, <1>8, <1>9, PopSteps
<1>11. PlaceOK(fn, f)
  BY <1>2, <1>3, <1>5, <1>6, <1>8 DEF PlaceOK
<1>12. Len(stack) - 1 > 1 => WaitsFor(fn, defer_blocks, stack[Len(stack) - 1 - 1], f)
  <2>1. Len(stack) - 1 > 1 => WaitsFor(fn, defer_blocks, stack[Len(stack) - 1 - 1], Caller)
    BY <1>2 DEF Shape
  <2>2. QED
    BY <1>6, <1>8, <2>1 DEF WaitsFor
<1>13. \A k \in 1 .. Len(stack) - 1 : k # Len(stack) - 1 => Beyond(fn, stack[k], f)
  <2>1. \A k \in 1 .. Len(stack) - 1 : k # Len(stack) - 1 => Beyond(fn, stack[k], Caller)
    BY <1>2 DEF Shape
  <2>2. QED
    BY <1>8, <2>1 DEF Beyond
<1>14. Shape(fn, defer_blocks, stack')
  BY <1>2, <1>10, <1>11, <1>12, <1>13, ShapeSteps
<1>15. QED
  BY <1>2, <1>3, <1>4, <1>5, <1>6, <1>7, <1>8, <1>10, <1>14

\* Outside of what is deferred there is no frame for it on the stack.
LEMMA NothingDeferred ==
  ASSUME Inv, InBody, ShapeInv, Top.body \notin InDeferred(fn)
  PROVE  \A j \in 1 .. Len(stack) : stack[j].at \notin {"defers", "deferred"}
<1>1. Running /\ Top.at # "defers"
  BY DEF InBody
<1>2. /\ Len(stack) \in Nat \ {0} /\ Top = stack[Len(stack)]
      /\ StackOK(fn, blocks, stack) /\ Shape(fn, defer_blocks, stack)
  BY <1>1, TopOK, TopShape DEF Inv
<1>3. ASSUME NEW j \in 1 .. Len(stack), stack[j].at = "defers" PROVE FALSE
  <2>1. j # Len(stack)
    BY <1>1, <1>2, <1>3
  <2>2. Beyond(fn, stack[j], Top)
    BY <1>1, <2>1, TopShape
  <2>3. QED
    BY <1>3, <2>2 DEF Beyond
<1>4. ASSUME NEW j \in 1 .. Len(stack), stack[j].at = "deferred" PROVE FALSE
  <2>1. j # 1
    BY <1>2, <1>4 DEF StackOK
  <2>2. Linked(fn, stack[j - 1], stack[j]) /\ j - 1 \in 1 .. Len(stack)
    BY <1>2, <2>1 DEF StackOK
  <2>3. QED
    BY <1>3, <1>4, <2>2 DEF Linked
<1>5. QED
  BY <1>3, <1>4

\* A statement is deferred.
LEMMA DeferStmtShape ==
  ASSUME Inv, ShapeInv, PlainHere, DeferStmt, Running'
  PROVE  /\ Top.body \in LiveBodies(fn, 1)
         /\ stack' = ReplaceAt(stack, Len(stack), After(Top, 0))
         /\ defer_blocks' = <<This.body>> \o defer_blocks
         /\ Len(defer_blocks') = Len(defer_blocks) + 1
         /\ defer_blocks'[1] = This.body
         /\ \A k \in 1 .. Len(defer_blocks) : defer_blocks'[k + 1] = defer_blocks[k]
         /\ Shape(fn, defer_blocks', stack') /\ DefersOK(fn, defer_blocks')
<1>1. InBody /\ Running /\ This.op = "defer" /\ Top.at # "defers"
  BY DEF DeferStmt, At, InBody
<1>2. /\ Top.body \in 1 .. Len(fn) /\ Top.i \in 1 .. Len(fn[Top.body])
      /\ IsFunction(fn) /\ This = fn[Top.body][Top.i]
      /\ This.body \in 1 .. Len(fn)
  BY <1>1, ThisOK DEF Inv, TypeOK, This, Body, Nests
<1>3. Top.body \notin InDeferred(fn)
  BY <1>1, <1>2 DEF PlainHere
<1>4. Top.body \in LiveBodies(fn, 1)
  BY <1>1, <1>3, ThisShape
<1>5. /\ stack' = ReplaceAt(stack, Len(stack), After(Top, 0))
      /\ defer_blocks' = <<This.body>> \o defer_blocks
  BY DEF DeferStmt, Advance, Running
<1>6. PICK t : t = stack'
  OBVIOUS
<1>7. Steps(stack, t, Len(stack), After(Top, 0)) /\ Shape(fn, defer_blocks, t)
  BY <1>1, <1>5, <1>6, PassesShape, 0 \in Nat
<1>8. \A j \in 1 .. Len(t) : t[j].at # "deferred"
  <2>1. \A j \in 1 .. Len(stack) : stack[j].at # "deferred"
    BY <1>1, <1>3, NothingDeferred
  <2>2. Top \in Frame /\ Len(stack) \in Nat \ {0} /\ Top = stack[Len(stack)]
    BY <1>1, TopOK
  <2>3. After(Top, 0).at = Top.at
    BY <2>2, AfterIs, 0 \in Nat
  <2>4. QED
    BY <1>7, <2>1, <2>2, <2>3 DEF Steps
<1>9. Shape(fn, defer_blocks', t)
  BY <1>7, <1>8 DEF Shape, WaitsFor
<1>10. defer_blocks \in Seq(1 .. Len(fn))
  BY DEF Inv, TypeOK
<1>11. /\ Len(defer_blocks') = Len(defer_blocks) + 1
       /\ defer_blocks'[1] = This.body
       /\ \A k \in 1 .. Len(defer_blocks) : defer_blocks'[k + 1] = defer_blocks[k]
       /\ \A k \in 1 .. Len(defer_blocks') : k # 1 =>
            k - 1 \in 1 .. Len(defer_blocks) /\ defer_blocks'[k] = defer_blocks[k - 1]
  BY <1>2, <1>5, <1>10
<1>12. DefersOK(fn, defer_blocks')
  <2>1. SUFFICES ASSUME NEW k \in 1 .. Len(defer_blocks')
                 PROVE  \E u \in LiveIn(fn, 1) :
                          OpOf(fn, u) = "defer" /\ BodyOf(fn, u) = defer_blocks'[k]
    BY DEF DefersOK
  <2>2. CASE k = 1
    <3>1. <<Top.body, Top.i>> \in LiveIn(fn, 1)
      BY <1>1, <1>2, <1>4, ThisShape, LiveHere
    <3>2. OpOf(fn, <<Top.body, Top.i>>) = "defer" /\ BodyOf(fn, <<Top.body, Top.i>>) = This.body
      BY <1>1, <1>2 DEF OpOf, BodyOf
    <3>3. QED
      BY <1>11, <2>2, <3>1, <3>2
  <2>3. CASE k # 1
    <3>1. DefersOK(fn, defer_blocks)
      BY <1>1, TopShape
    <3>2. QED
      BY <1>11, <2>3, <3>1 DEF DefersOK
  <2>4. QED
    BY <2>2, <2>3
<1>13. QED
  BY <1>4, <1>5, <1>6, <1>9, <1>11, <1>12

-----------------------------------------------------------------------------
(* What each action does to the stack *)

LEMMA CallMoves ==
  ASSUME Inv, ShapeInv, CallStmt
  PROVE  /\ InBody /\ Running /\ This.op \in {"call"} \union Valued
         /\ code' = Append(code, Build("call", insert, Name, <<>>))
         /\ \E v \in Nat :
              /\ v = IF This.op \in Valued THEN Len(code) + 1 ELSE 0
              /\ This.op \in Valued => Top.i = Len(Body)
              /\ Steps(stack, stack', Len(stack), After(Top, v))
              /\ Shape(fn, defer_blocks, stack')
<1>1. InBody /\ Running /\ This.op \in {"call"} \union Valued
  BY DEF CallStmt, InBody
<1>2. PICK v : v = IF This.op \in Valued THEN Len(code) + 1 ELSE 0
  OBVIOUS
<1>3. /\ Top.body \in 1 .. Len(fn) /\ Top.i \in 1 .. Len(fn[Top.body]) /\ IsFunction(fn)
      /\ code \in Seq(Instr)
  BY <1>1, ThisOK DEF Inv, TypeOK
<1>4. This.op \in Valued => Top.i = Len(Body)
  BY <1>3 DEF IsFunction, This, Body
<1>5. v \in Nat
  BY <1>2, <1>3
<1>6. /\ code' = Append(code, Build("call", insert, Name, <<>>))
      /\ stack' = ReplaceAt(stack, Len(stack), After(Top, v))
  BY <1>2 DEF CallStmt, Advance
<1>7. v # 0 => Top.i = Len(Body)
  BY <1>2, <1>4
<1>8. /\ Steps(stack, stack', Len(stack), After(Top, v))
      /\ Shape(fn, defer_blocks, stack')
  BY <1>1, <1>5, <1>6, <1>7, PassesShape DEF Valued
<1>9. QED
  BY <1>1, <1>2, <1>4, <1>5, <1>6, <1>8

LEMMA BreakMoves ==
  ASSUME Inv, ShapeInv, BreakStmt
  PROVE  /\ InBody /\ Running /\ This.op = "break"
         /\ Steps(stack, stack', Len(stack), After(Top, 0))
         /\ Shape(fn, defer_blocks, stack')
<1>1. InBody /\ Running /\ This.op = "break"
  BY DEF BreakStmt, At, InBody
<1>2. stack' = ReplaceAt(stack, Len(stack), After(Top, 0))
  BY DEF BreakStmt, Advance
<1>3. QED
  BY <1>1, <1>2, PassesShape, 0 \in Nat

LEMMA ReturnMoves ==
  ASSUME Inv, ShapeInv, PlainHere, ReturnStmt, Running'
  PROVE  /\ InBody /\ Running /\ This.op = "return" /\ Top.body \in LiveBodies(fn, 1)
         /\ Steps(stack, stack', Len(stack) + 1, Call("defers", 0, 0, 0))
         /\ Shape(fn, defer_blocks, stack')
<1>1. InBody /\ Running /\ This.op = "return" /\ Top.at # "defers"
  BY DEF ReturnStmt, At, InBody
<1>2. stack' = Append(stack, Call("defers", 0, 0, 0))
  BY DEF ReturnStmt, Push, Running
<1>3. Top.body \notin InDeferred(fn)
  <2>1. Top.i \in 1 .. Len(fn[Top.body]) /\ This = fn[Top.body][Top.i]
    BY <1>1, ThisOK DEF This, Body
  <2>2. QED
    BY <1>1, <2>1 DEF PlainHere
<1>4. Top.body \in LiveBodies(fn, 1)
  BY <1>1, <1>3, ThisShape
<1>5. QED
  BY <1>1, <1>2, <1>4, DefersShape

LEMMA BodyEndMoves ==
  ASSUME Inv, ShapeInv, BodyEnd, Running'
  PROVE  /\ Running /\ Top.at = "function" /\ Top.i > Len(Body) /\ Len(stack) = 1 /\ Top = stack[1]
         /\ Steps(stack, stack', 2, Call("defers", 0, 0, 0))
         /\ Shape(fn, defer_blocks, stack')
<1>1. Running /\ Top.at = "function" /\ Top.i > Len(Body)
  BY DEF BodyEnd, BodyDone
<1>2. stack' = Append(stack, Call("defers", 0, 0, 0))
  BY DEF BodyEnd, Push, Running
<1>3. /\ Len(stack) \in Nat \ {0} /\ Top = stack[Len(stack)] /\ IsFunction(fn) /\ Top \in Frame
      /\ StackOK(fn, blocks, stack) /\ FrameOK(fn, blocks, Top)
  BY <1>1, TopOK DEF Inv, TypeOK
<1>4. Len(stack) = 1
  <2>1. ASSUME Len(stack) > 1 PROVE FALSE
    <3>1. Len(stack) \in 1 .. Len(stack)
      BY <1>3
    <3>2. Linked(fn, stack[Len(stack) - 1], Top)
      BY <1>3, <2>1, <3>1 DEF StackOK
    <3>3. QED
      BY <1>1, <3>2 DEF Linked
  <2>2. QED
    BY <1>3, <2>1
<1>5. Top.body \in LiveBodies(fn, 1)
  <2>1. Top.body = 1
    BY <1>1, TopShape DEF PlaceOK
  <2>2. QED
    BY <1>3, <2>1, FirstBody, LiveStep
<1>6. Top.i <= Len(Body) => This.op = "return"
  <2>1. Top.body \in 1 .. Len(fn)
    BY <1>1, <1>3 DEF FrameOK
  <2>2. Len(Body) \in Nat /\ Top.i \in Nat
    BY <1>3, <2>1, StatementsOf DEF Body, Frame
  <2>3. QED
    BY <1>1, <2>2
<1>7. QED
  BY <1>1, <1>2, <1>3, <1>4, <1>5, <1>6, DefersShape

LEMMA DeferredMoves ==
  ASSUME Inv, ShapeInv, DeferredBody, Running'
  PROVE  LET f == Call("deferred", defer_blocks[Top.i], 0, 0) IN
         /\ Running /\ Top.at = "defers"
         /\ f \in Frame /\ f.at = "deferred" /\ f.body = defer_blocks[Top.i] /\ f.i = 1
         /\ f.value = 0 /\ ~f.returns
         /\ Top.i \in 1 .. Len(defer_blocks) /\ f.body \in InDeferred(fn)
         /\ Steps(stack, stack', Len(stack) + 1, f)
         /\ Shape(fn, defer_blocks, stack')
<1>1. InDefers /\ Top.i <= Len(defer_blocks) /\ Running /\ Top.at = "defers"
  BY DEF DeferredBody, InDefers
<1>2. stack' = Append(stack, Call("deferred", defer_blocks[Top.i], 0, 0))
  BY DEF DeferredBody, Push, Running
<1>3. QED
  BY <1>1, <1>2, DeferredShape

LEMMA IfMoves ==
  ASSUME Inv, ShapeInv, IfExpr, Running'
  PROVE  /\ InBody /\ Running /\ This.op \in {"if", "ifelse"}
         /\ insert' = blocks + 2
         /\ code' = code \o <<Br(insert, blocks + 1),
                              CondBr(blocks + 1, Name, blocks + 2, blocks + 3)>>
         /\ \E orelse \in Nat : \E merge \in Nat : \E f \in Frame :
              /\ orelse = IF This.op = "if" THEN 0 ELSE blocks + 3
              /\ merge = IF This.op = "if" THEN blocks + 3 ELSE blocks + 4
              /\ blocks' = merge
              /\ f.at = "then" /\ f.body = This.body /\ f.i = 1 /\ f.value = 0 /\ ~f.returns
              /\ f.after = merge /\ f.orelse = orelse
              /\ Steps(stack, stack', Len(stack) + 1, f)
              /\ Shape(fn, defer_blocks, stack')
<1>1. InBody /\ Running /\ This.op \in {"if", "ifelse"}
  BY DEF IfExpr, InBody
<1>2. /\ Top.body \in 1 .. Len(fn) /\ Top.i \in 1 .. Len(fn[Top.body]) /\ IsFunction(fn)
      /\ This.body \in 1 .. Len(fn) /\ blocks \in Nat
      /\ This = fn[Top.body][Top.i] /\ Name = <<Top.body, Top.i>>
  BY <1>1, ThisOK DEF Inv, TypeOK, Nests, This, Body, Name
<1>3. PICK orelse : orelse = IF This.op = "if" THEN 0 ELSE blocks + 3
  OBVIOUS
<1>4. PICK merge : merge = IF This.op = "if" THEN blocks + 3 ELSE blocks + 4
  OBVIOUS
<1>5. orelse \in Nat /\ merge \in Nat
  BY <1>2, <1>3, <1>4
<1>6. PICK f : f = Call("then", This.body, merge, orelse)
  OBVIOUS
<1>7. /\ f \in Frame /\ f.at = "then" /\ f.body = This.body /\ f.i = 1 /\ f.value = 0 /\ ~f.returns
      /\ f.after = merge /\ f.orelse = orelse
  <2>1. This.body \in Nat
    BY <1>2
  <2>2. QED
    BY <1>5, <1>6, <2>1 DEF Call, Frame
<1>8. /\ insert' = blocks + 2 /\ blocks' = merge
      /\ code' = code \o <<Br(insert, blocks + 1),
                           CondBr(blocks + 1, Name, blocks + 2, blocks + 3)>>
      /\ stack' = Append(stack, f)
  BY <1>3, <1>4, <1>6 DEF IfExpr, Push, Running
<1>9. WaitsFor(fn, defer_blocks, Top, f)
  <2>1. This.body \in BodiesOf(fn, <<Top.body, Top.i>>)
    BY <1>1, <1>2, BodiesAre DEF Nests
  <2>2. orelse = 0 <=> This.op = "if"
    BY <1>2, <1>3
  <2>3. QED
    BY <1>1, <1>2, <1>7, <2>1, <2>2 DEF WaitsFor
<1>10. f.body \in BodiesOf(fn, Name)
  BY <1>1, <1>2, <1>7, BodiesAre DEF Nests
<1>11. Steps(stack, stack', Len(stack) + 1, f) /\ Shape(fn, defer_blocks, stack')
  BY <1>1, <1>7, <1>8, <1>9, <1>10, EntersShape
<1>12. QED
  BY <1>1, <1>3, <1>4, <1>5, <1>7, <1>8, <1>11

LEMMA WhileMoves ==
  ASSUME Inv, ShapeInv, WhileExpr, Running'
  PROVE  /\ InBody /\ Running /\ This.op = "while"
         /\ insert' = blocks + 2 /\ blocks' = blocks + 3
         /\ code' = code \o <<Br(insert, blocks + 1),
                              CondBr(blocks + 1, Name, blocks + 2, blocks + 3)>>
         /\ \E f \in Frame :
              /\ f.at = "loop" /\ f.body = This.body /\ f.i = 1 /\ f.value = 0 /\ ~f.returns
              /\ f.after = blocks + 3 /\ f.orelse = blocks + 2
              /\ Steps(stack, stack', Len(stack) + 1, f)
              /\ Shape(fn, defer_blocks, stack')
<1>1. InBody /\ Running /\ This.op = "while"
  BY DEF WhileExpr, At, InBody
<1>2. /\ Top.body \in 1 .. Len(fn) /\ Top.i \in 1 .. Len(fn[Top.body]) /\ IsFunction(fn)
      /\ This.body \in 1 .. Len(fn) /\ blocks \in Nat
      /\ This = fn[Top.body][Top.i] /\ Name = <<Top.body, Top.i>>
  BY <1>1, ThisOK DEF Inv, TypeOK, Nests, This, Body, Name
<1>3. PICK f : f = Call("loop", This.body, blocks + 3, blocks + 2)
  OBVIOUS
<1>4. /\ f \in Frame /\ f.at = "loop" /\ f.body = This.body /\ f.i = 1 /\ f.value = 0 /\ ~f.returns
      /\ f.after = blocks + 3 /\ f.orelse = blocks + 2
  <2>1. This.body \in Nat /\ blocks + 3 \in Nat /\ blocks + 2 \in Nat
    BY <1>2
  <2>2. QED
    BY <1>3, <2>1 DEF Call, Frame
<1>5. /\ insert' = blocks + 2 /\ blocks' = blocks + 3
      /\ code' = code \o <<Br(insert, blocks + 1),
                           CondBr(blocks + 1, Name, blocks + 2, blocks + 3)>>
      /\ stack' = Append(stack, f)
  BY <1>3 DEF WhileExpr, Push, Running
<1>6. This.body \in BodiesOf(fn, Name)
  BY <1>1, <1>2, BodiesAre DEF Nests
<1>7. WaitsFor(fn, defer_blocks, Top, f)
  BY <1>1, <1>2, <1>4, <1>6 DEF WaitsFor
<1>8. Steps(stack, stack', Len(stack) + 1, f) /\ Shape(fn, defer_blocks, stack')
  BY <1>1, <1>4, <1>5, <1>6, <1>7, EntersShape
<1>9. QED
  BY <1>1, <1>4, <1>5, <1>8

\* The value with which a caller goes on.
LEMMA LeaveMoves ==
  ASSUME Inv, Running, ShapeInv, Top.at \in {"then", "else", "loop"}, NEW v \in Nat, LeaveWith(v)
  PROVE  \E w \in {0, v} :
           /\ w # 0 => Promoted(fn, Caller.body, Caller.i)
           /\ Steps(stack, stack', Len(stack) - 1, After(Caller, w))
           /\ Shape(fn, defer_blocks, stack')
<1>1. PICK w : w = IF Promoted(fn, Caller.body, Caller.i) THEN v ELSE 0
  OBVIOUS
<1>2. stack' = ReplaceAt(Front(stack), Len(stack) - 1, After(Caller, w))
  BY <1>1 DEF LeaveWith, Return
<1>3. w \in Nat /\ w \in {0, v} /\ (w # 0 => Promoted(fn, Caller.body, Caller.i))
  BY <1>1
<1>4. w # 0 => Caller.i = Len(fn[Caller.body])
  BY <1>3 DEF Promoted
<1>5. /\ Steps(stack, stack', Len(stack) - 1, After(Caller, w))
      /\ Shape(fn, defer_blocks, stack')
  BY <1>2, <1>3, <1>4, LeavesShape
<1>6. QED
  BY <1>3, <1>5

LEMMA WhileDoneMoves ==
  ASSUME Inv, ShapeInv, WhileDone
  PROVE  /\ Running /\ Top.at = "loop" /\ Top.i > Len(Body)
         /\ code' = Append(code, CondBr(insert, <<Caller.body, Caller.i>>, Top.orelse, Top.after))
         /\ insert' = Top.after
         /\ \E w \in {0, Top.value} :
              /\ w # 0 => Promoted(fn, Caller.body, Caller.i)
              /\ Steps(stack, stack', Len(stack) - 1, After(Caller, w))
              /\ Shape(fn, defer_blocks, stack')
<1>1. Running /\ Top.at = "loop" /\ Top.i > Len(Body) /\ LeaveWith(Top.value)
  BY DEF WhileDone, BodyDone
<1>2. Top.value \in Nat
  BY <1>1, TopOK DEF Frame
<1>3. \E w \in {0, Top.value} :
        /\ w # 0 => Promoted(fn, Caller.body, Caller.i)
        /\ Steps(stack, stack', Len(stack) - 1, After(Caller, w))
        /\ Shape(fn, defer_blocks, stack')
  BY <1>1, <1>2, LeaveMoves
<1>4. QED
  BY <1>1, <1>3 DEF WhileDone

\* The branches of an if merge: without a value, or with that of both.
LEMMA IfDoneMoves ==
  ASSUME Inv, ShapeInv, IfDone, Running'
  PROVE  /\ Running /\ Top.at = "then" /\ Top.orelse = 0 /\ Top.i > Len(Body)
         /\ code' = BranchEnd /\ insert' = Top.after /\ blocks' = blocks
         /\ Steps(stack, stack', Len(stack) - 1, After(Caller, 0))
         /\ Shape(fn, defer_blocks, stack')
<1>1. Running /\ Top.at = "then" /\ Top.orelse = 0 /\ Top.i > Len(Body)
  BY DEF IfDone, BodyDone
<1>2. Merge(Top.value, insert, 0) /\ outcome' = "running"
  BY DEF IfDone, Running
<1>3. code' = BranchEnd /\ insert' = Top.after /\ blocks' = blocks /\ LeaveWith(0)
  <2>1. CASE Top.value = 0
    BY <1>2, <2>1 DEF Merge
  <2>2. CASE Top.value # 0
    BY <1>2, <2>2 DEF Merge
  <2>3. QED
    BY <2>1, <2>2
<1>4. \E w \in {0, 0} : /\ w # 0 => Promoted(fn, Caller.body, Caller.i)
                        /\ Steps(stack, stack', Len(stack) - 1, After(Caller, w))
                        /\ Shape(fn, defer_blocks, stack')
  BY <1>1, <1>3, LeaveMoves, 0 \in Nat
<1>5. QED
  BY <1>1, <1>3, <1>4

LEMMA IfElseDoneMoves ==
  ASSUME Inv, ShapeInv, IfElseDone, Running'
  PROVE  /\ Running /\ Top.at = "else" /\ Top.i > Len(Body)
         /\ insert' = Top.after /\ blocks' = blocks
         /\ \/ /\ Top.thenValue = 0 /\ Top.value = 0 /\ code' = BranchEnd
               /\ Steps(stack, stack', Len(stack) - 1, After(Caller, 0))
            \/ /\ Top.thenValue # 0 /\ Top.value # 0
               /\ code' = Append(BranchEnd,
                    [Build("phi", Top.after, <<>>, <<>>) EXCEPT
                       !.args = <<Top.thenValue, Top.value>>, !.from = <<Top.thenBlock, insert>>])
               /\ \E w \in {0, Len(code')} :
                    /\ w # 0 => Promoted(fn, Caller.body, Caller.i)
                    /\ Steps(stack, stack', Len(stack) - 1, After(Caller, w))
         /\ Shape(fn, defer_blocks, stack')
<1>1. Running /\ Top.at = "else" /\ Top.i > Len(Body)
  BY DEF IfElseDone, BodyDone
<1>2. Merge(Top.thenValue, Top.thenBlock, Top.value) /\ outcome' = "running"
  BY DEF IfElseDone, Running
<1>3. insert' = Top.after /\ blocks' = blocks
  BY <1>2 DEF Merge
<1>4. \/ /\ Top.thenValue = 0 /\ Top.value = 0 /\ code' = BranchEnd /\ LeaveWith(0)
      \/ /\ Top.thenValue # 0 /\ Top.value # 0
         /\ code' = Append(BranchEnd,
              [Build("phi", Top.after, <<>>, <<>>) EXCEPT
                 !.args = <<Top.thenValue, Top.value>>, !.from = <<Top.thenBlock, insert>>])
         /\ LeaveWith(Len(code'))
  <2>1. CASE Top.thenValue = 0 /\ Top.value = 0
    BY <1>2, <2>1 DEF Merge
  <2>2. CASE Top.thenValue # 0 /\ Top.value # 0
    BY <1>2, <2>2 DEF Merge
  <2>3. CASE ~(Top.thenValue = 0 /\ Top.value = 0) /\ ~(Top.thenValue # 0 /\ Top.value # 0)
    BY <1>2, <2>3 DEF Merge
  <2>4. QED
    BY <2>1, <2>2, <2>3
<1>5. ASSUME LeaveWith(0)
      PROVE  Steps(stack, stack', Len(stack) - 1, After(Caller, 0)) /\ Shape(fn, defer_blocks, stack')
  BY <1>1, <1>5, LeaveMoves, 0 \in Nat
<1>6. ASSUME LeaveWith(Len(code'))
      PROVE  \E w \in {0, Len(code')} :
               /\ w # 0 => Promoted(fn, Caller.body, Caller.i)
               /\ Steps(stack, stack', Len(stack) - 1, After(Caller, w))
               /\ Shape(fn, defer_blocks, stack')
  <2>1. Inv'
    BY IfElseDonePreserves
  <2>2. Len(code') \in Nat
    BY <2>1 DEF Inv, TypeOK
  <2>3. QED
    BY <1>1, <1>6, <2>2, LeaveMoves
<1>7. QED
  BY <1>1, <1>3, <1>4, <1>5, <1>6

\* Every step keeps the frames in their places.
LEMMA ShapeNext ==
  ASSUME Inv, ShapeInv, PlainHere, Generate
  PROVE  ShapeInv'
<1>1. SUFFICES ASSUME Running'
               PROVE  Shape(fn, defer_blocks', stack') /\ DefersOK(fn, defer_blocks') /\ fn' = fn
  BY DEF ShapeInv
<1>2. Running => DefersOK(fn, defer_blocks)
  BY TopShape
<1>3. CASE CallStmt
  BY <1>2, <1>3, CallMoves DEF CallStmt
<1>4. CASE BreakStmt
  BY <1>2, <1>4, BreakMoves DEF BreakStmt
<1>5. CASE DeferStmt
  BY <1>1, <1>5, DeferStmtShape DEF DeferStmt
<1>6. CASE ReturnStmt
  BY <1>1, <1>2, <1>6, ReturnMoves DEF ReturnStmt
<1>7. CASE IfExpr
  BY <1>1, <1>2, <1>7, IfMoves DEF IfExpr
<1>8. CASE ThenDone
  <2>1. Running /\ fn' = fn /\ defer_blocks' = defer_blocks
    BY <1>8 DEF ThenDone, BodyDone
  <2>2. Shape(fn, defer_blocks, stack')
    BY <1>8, ElseShape
  <2>3. QED
    BY <1>2, <2>1, <2>2
<1>9. CASE IfDone
  BY <1>1, <1>2, <1>9, IfDoneMoves DEF IfDone, Merge
<1>10. CASE IfElseDone
  BY <1>1, <1>2, <1>10, IfElseDoneMoves DEF IfElseDone, Merge
<1>11. CASE WhileExpr
  BY <1>1, <1>2, <1>11, WhileMoves DEF WhileExpr
<1>12. CASE WhileDone
  BY <1>2, <1>12, WhileDoneMoves DEF WhileDone
<1>13. CASE DeferredBody
  BY <1>1, <1>2, <1>13, DeferredMoves DEF DeferredBody
<1>14. CASE DeferredDone
  BY <1>2, <1>14, DeferredDoneShape DEF DeferredDone, BodyDone
<1>15. CASE ReturnBuilt
  BY <1>2, <1>15, ReturnShape DEF ReturnBuilt, DefersDone, InDefers
<1>16. CASE BodyEnd
  BY <1>1, <1>2, <1>16, BodyEndMoves DEF BodyEnd
<1>17. CASE FunctionEnd
  BY <1>1, <1>17 DEF FunctionEnd, Running
<1>18. QED
  BY <1>3, <1>4, <1>5, <1>6, <1>7, <1>8, <1>9, <1>10, <1>11, <1>12, <1>13, <1>14,
     <1>15, <1>16, <1>17 DEF Generate

-----------------------------------------------------------------------------
(* Code that grows *)

\* What has come twice stays so.
LEMMA ExtendsKeeps ==
  ASSUME NEW c, NEW e, Len(c) \in Nat, Len(e) \in Nat, Extends(c, e)
  PROVE  /\ Doubled(c) => Doubled(e)
         /\ \A b : Closed(c, b) => Closed(e, b)
<1>1. \A i \in 1 .. Len(c) : i \in 1 .. Len(e) /\ e[i] = c[i] /\ (Terminator(c, i) => Terminator(e, i))
  BY DEF Extends, Terminator
<1>2. Doubled(c) => Doubled(e)
  BY <1>1 DEF Doubled
<1>3. \A b : Closed(c, b) => Closed(e, b)
  BY <1>1 DEF Closed
<1>4. QED
  BY <1>2, <1>3

\* One more instruction.
LEMMA OneMore ==
  ASSUME NEW c \in Seq(Instr), NEW x \in Instr
  PROVE  LET e == Append(c, x) IN
         /\ e \in Seq(Instr) /\ Len(e) = Len(c) + 1 /\ Len(c) \in Nat
         /\ e[Len(e)] = x /\ \A i \in 1 .. Len(c) : e[i] = c[i]
         /\ Extends(c, e)
         /\ x.op \in {"br", "condbr", "ret"} => Closed(e, x.block)
         /\ Closed(c, x.block) => Doubled(e)
         /\ Doubled(c) => Doubled(e)
<1>1. PICK e : e = Append(c, x)
  OBVIOUS
<1>2. /\ e \in Seq(Instr) /\ Len(e) = Len(c) + 1 /\ Len(c) \in Nat
      /\ e[Len(c) + 1] = x /\ \A i \in 1 .. Len(c) : e[i] = c[i]
  BY <1>1
<1>3. Extends(c, e)
  BY <1>2 DEF Extends
<1>4. x.op \in {"br", "condbr", "ret"} => Closed(e, x.block)
  BY <1>2 DEF Closed, Terminator
<1>5. ASSUME Closed(c, x.block) PROVE Doubled(e)
  <2>1. PICK i \in 1 .. Len(c) : c[i].block = x.block /\ Terminator(c, i)
    BY <1>5 DEF Closed
  <2>2. /\ i \in 1 .. Len(e) /\ Len(c) + 1 \in 1 .. Len(e) /\ i < Len(c) + 1
        /\ e[i].block = e[Len(c) + 1].block
    BY <1>2, <2>1
  <2>3. Terminator(e, i)
    BY <1>2, <2>1 DEF Terminator
  <2>4. QED
    BY <2>2, <2>3 DEF Doubled
<1>6. Doubled(c) => Doubled(e)
  BY <1>2, <1>3, ExtendsKeeps
<1>7. QED
  BY <1>1, <1>2, <1>3, <1>4, <1>5, <1>6

\* A branch and a conditional branch, from the blocks b and a.
LEMMA TwoMore ==
  ASSUME NEW c \in Seq(Instr), NEW x \in Instr, NEW y \in Instr
  PROVE  LET e == c \o <<x, y>> IN
         /\ e \in Seq(Instr) /\ e = Append(Append(c, x), y)
         /\ Len(e) = Len(c) + 2 /\ Len(c) \in Nat
         /\ e[Len(c) + 1] = x /\ e[Len(c) + 2] = y /\ \A i \in 1 .. Len(c) : e[i] = c[i]
         /\ Extends(c, e)
<1>1. PICK e : e = c \o <<x, y>>
  OBVIOUS
<1>2. /\ e \in Seq(Instr) /\ Len(e) = Len(c) + 2 /\ Len(c) \in Nat
      /\ e[Len(c) + 1] = x /\ e[Len(c) + 2] = y /\ \A i \in 1 .. Len(c) : e[i] = c[i]
  BY <1>1
<1>3. e = Append(Append(c, x), y)
  <2>1. PICK g : g = Append(Append(c, x), y)
    OBVIOUS
  <2>2. /\ g \in Seq(Instr) /\ Len(g) = Len(c) + 2
        /\ \A i \in 1 .. Len(g) : g[i] = e[i]
    BY <1>2, <2>1
  <2>3. e = g
    BY <1>2, <2>2, SeqEqual
  <2>4. QED
    BY <2>1, <2>3
<1>4. Extends(c, e)
  BY <1>2 DEF Extends
<1>5. QED
  BY <1>1, <1>2, <1>3, <1>4

\* The same code
LEMMA NoMore == \A c : Len(c) \in Nat => Extends(c, c)
BY DEF Extends

\* Marks stay when code and deferred bodies are added.
LEMMA MarksKept ==
  ASSUME NEW p, NEW c, NEW e, NEW d, NEW g, Len(c) \in Nat, Len(e) \in Nat,
         Extends(c, e), Covers(d, g)
  PROVE  /\ \A t : Marked(p, c, d, t) => Marked(p, e, g, t)
         /\ \A b : AllMarked(p, c, d, b) => AllMarked(p, e, g, b)
         /\ \A f : PassedOK(p, c, d, f) => PassedOK(p, e, g, f)
         /\ \A lo, hi : ThenPassed(p, c, d, lo, hi) => ThenPassed(p, e, g, lo, hi)
<1>1. Doubled(c) => Doubled(e)
  BY ExtendsKeeps
<1>2. \A t : Marked(p, c, d, t) => Marked(p, e, g, t)
  BY <1>1 DEF Marked, Covers
<1>3. \A b : AllMarked(p, c, d, b) => AllMarked(p, e, g, b)
  BY <1>2 DEF AllMarked
<1>4. \A x : (\E k \in 1 .. Len(d) : d[k] = x) => \E k \in 1 .. Len(g) : g[k] = x
  BY DEF Covers
<1>5. ASSUME NEW f, PassedOK(p, c, d, f) PROVE PassedOK(p, e, g, f)
  BY <1>3, <1>4, <1>5, Zenon DEF PassedOK
<1>6. \A lo, hi : ThenPassed(p, c, d, lo, hi) => ThenPassed(p, e, g, lo, hi)
  BY <1>3 DEF ThenPassed
<1>7. QED
  BY <1>2, <1>3, <1>5, <1>6

\* Only the last frame has to be looked at.
LEMMA PassedSteps ==
  ASSUME NEW p, NEW c, NEW e, NEW d, NEW g, Len(c) \in Nat, Len(e) \in Nat,
         Extends(c, e), Covers(d, g),
         NEW s \in Seq(Frame), NEW t, NEW n, NEW f, Steps(s, t, n, f),
         Passed(p, c, d, s), PassedOK(p, e, g, f),
         n > 1 => ThenPassed(p, e, g, s[n - 1], f)
  PROVE  Passed(p, e, g, t)
<1>1. /\ n \in Nat \ {0} /\ n <= Len(s) + 1 /\ Len(t) = n /\ t[n] = f /\ Len(s) \in Nat
      /\ \A j \in 1 .. n : j # n => t[j] = s[j] /\ j \in 1 .. Len(s)
  BY DEF Steps
<1>2. ASSUME NEW j \in 1 .. n PROVE PassedOK(p, e, g, t[j])
  <2>1. CASE j = n
    BY <1>1, <2>1
  <2>2. CASE j # n
    <3>1. t[j] = s[j] /\ PassedOK(p, c, d, s[j])
      BY <1>1, <2>2 DEF Passed
    <3>2. QED
      BY <3>1, MarksKept
  <2>3. QED
    BY <2>1, <2>2
<1>3. ASSUME NEW j \in 1 .. n, j > 1 PROVE ThenPassed(p, e, g, t[j - 1], t[j])
  <2>1. j - 1 \in 1 .. n /\ j - 1 # n
    BY <1>1, <1>3
  <2>2. t[j - 1] = s[j - 1]
    BY <1>1, <2>1
  <2>3. CASE j = n
    BY <1>1, <1>3, <2>2, <2>3
  <2>4. CASE j # n
    <3>1. t[j] = s[j] /\ j \in 1 .. Len(s)
      BY <1>1, <2>4
    <3>2. ThenPassed(p, c, d, s[j - 1], s[j])
      BY <1>3, <3>1 DEF Passed
    <3>3. ThenPassed(p, e, g, s[j - 1], s[j])
      BY <3>2, MarksKept
    <3>4. QED
      BY <2>2, <3>1, <3>3
  <2>5. QED
    BY <2>3, <2>4
<1>4. QED
  BY <1>1, <1>2, <1>3 DEF Passed

-----------------------------------------------------------------------------
(* What each action does to the code *)

\* What the instructions hold.
LEMMA BrIs ==
  ASSUME NEW b \in Nat, NEW t \in Nat, NEW x, x = Br(b, t)
  PROVE  x \in Instr /\ x.op = "br" /\ x.block = b /\ x.to = <<t>> /\ x.args = <<>>
<1>1. <<>> \in Seq(Nat) /\ <<t>> \in Seq(Nat)
  OBVIOUS
<1>2. x \in Instr
  BY <1>1, Builds DEF Br
<1>3. QED
  BY <1>2 DEF Br, Build

LEMMA CondBrIs ==
  ASSUME NEW b \in Nat, NEW st \in Seq(Nat), NEW y \in Nat, NEW n \in Nat, NEW x,
         x = CondBr(b, st, y, n)
  PROVE  x \in Instr /\ x.op = "condbr" /\ x.block = b /\ x.to = <<y, n>> /\ x.args = <<>>
<1>1. <<>> \in Seq(Nat) /\ <<y, n>> \in Seq(Nat)
  OBVIOUS
<1>2. x \in Instr
  BY <1>1, Builds DEF CondBr
<1>3. QED
  BY <1>2 DEF CondBr, Build

LEMMA BuildIs ==
  ASSUME NEW op \in {"call", "ret"}, NEW b \in Nat, NEW st \in Seq(Nat), NEW x,
         x = Build(op, b, st, <<>>)
  PROVE  x \in Instr /\ x.op = op /\ x.block = b /\ x.to = <<>> /\ x.args = <<>>
<1>1. <<>> \in Seq(Nat)
  OBVIOUS
<1>2. x \in Instr
  BY <1>1, Builds
<1>3. QED
  BY <1>2 DEF Build

LEMMA PhiIs ==
  ASSUME NEW b \in Nat, NEW v \in Nat, NEW w \in Nat, NEW from \in Nat, NEW this \in Nat
  PROVE  PhiOf(b, v, w, from, this) \in Instr
<1>1. <<>> \in Seq(Nat) /\ <<v, w>> \in Seq(Nat) /\ <<from, this>> \in Seq(Nat)
  OBVIOUS
<1>2. QED
  BY <1>1, Builds DEF PhiOf

LEMMA RetIs ==
  ASSUME insert \in Nat, NEW v \in Nat
  PROVE  /\ Ret(v) \in Instr /\ Ret(v).op = "ret" /\ Ret(v).block = insert /\ Ret(v).to = <<>>
         /\ Ret(v).args = <<v>>
<1>1. <<>> \in Seq(Nat) /\ <<v>> \in Seq(Nat)
  OBVIOUS
<1>2. Ret(v) \in Instr
  BY <1>1, Builds DEF Ret
<1>3. QED
  BY <1>2 DEF Build, Ret

\* One instruction more where the builder stands.
LEMMA EmitsOne ==
  ASSUME Inv, NEW x \in Instr, x.block = insert, code' = Append(code, x)
  PROVE  /\ Extends(code, code') /\ code' \in Seq(Instr)
         /\ Closed(code, insert) \/ Doubled(code) => Doubled(code')
         /\ x.op \in {"br", "condbr", "ret"} => Closed(code', insert)
<1>1. code \in Seq(Instr)
  BY DEF Inv, TypeOK
<1>2. QED
  BY <1>1, OneMore

\* A branch to a condition and the condition
LEMMA EmitsTwo ==
  ASSUME Inv, InBody,
         code' = code \o <<Br(insert, blocks + 1), CondBr(blocks + 1, Name, blocks + 2, blocks + 3)>>
  PROVE  /\ Extends(code, code') /\ code' \in Seq(Instr)
         /\ Closed(code, insert) \/ Doubled(code) => Doubled(code')
<1>1. code \in Seq(Instr) /\ insert \in Nat /\ blocks \in Nat /\ Name \in Seq(Nat)
  BY Types, ThisOK DEF Inv, TypeOK
<1>2. PICK x : x = Br(insert, blocks + 1)
  OBVIOUS
<1>3. PICK y : y = CondBr(blocks + 1, Name, blocks + 2, blocks + 3)
  OBVIOUS
<1>4. blocks + 1 \in Nat /\ blocks + 2 \in Nat /\ blocks + 3 \in Nat
  BY <1>1
<1>5. x \in Instr /\ x.block = insert /\ y \in Instr
  <2>1. x \in Instr /\ x.block = insert
    BY <1>1, <1>2, <1>4, BrIs
  <2>2. y \in Instr
    BY <1>1, <1>3, <1>4, CondBrIs
  <2>3. QED
    BY <2>1, <2>2
<1>6. code' = code \o <<x, y>>
  BY <1>2, <1>3
<1>7. /\ Extends(code, code') /\ code' \in Seq(Instr)
      /\ code' = Append(Append(code, x), y)
  BY <1>1, <1>5, <1>6, TwoMore
<1>8. PICK e : e = Append(code, x)
  OBVIOUS
<1>9. e \in Seq(Instr) /\ (Closed(code, insert) \/ Doubled(code) => Doubled(e))
  BY <1>1, <1>5, <1>8, OneMore
<1>10. Doubled(e) => Doubled(code')
  BY <1>5, <1>7, <1>8, <1>9, OneMore
<1>11. QED
  BY <1>7, <1>9, <1>10

\* The code after a branch
LEMMA EmitsEnd ==
  ASSUME Inv, Running, Top.at \in {"then", "else"}
  PROVE  /\ Extends(code, BranchEnd) /\ BranchEnd \in Seq(Instr)
         /\ ~Top.returns => Closed(BranchEnd, insert)
<1>1. code \in Seq(Instr) /\ insert \in Nat /\ Top \in Frame
  BY TopOK, Types DEF Inv, TypeOK
<1>2. CASE Top.returns
  BY <1>1, <1>2, NoMore DEF BranchEnd
<1>3. CASE ~Top.returns
  <2>1. PICK x : x = Br(insert, Top.after)
    OBVIOUS
  <2>2. x \in Instr /\ x.op = "br" /\ x.block = insert
    <3>1. Top.after \in Nat
      BY <1>1 DEF Frame
    <3>2. QED
      BY <1>1, <2>1, <3>1, BrIs
  <2>3. BranchEnd = Append(code, x)
    BY <1>3, <2>1 DEF BranchEnd
  <2>4. QED
    BY <1>1, <2>2, <2>3, OneMore
<1>4. QED
  BY <1>2, <1>3

LEMMA CallEmits ==
  ASSUME Inv, ShapeInv, CallStmt
  PROVE  /\ Extends(code, code') /\ code' \in Seq(Instr)
         /\ Closed(code, insert) \/ Doubled(code) => Doubled(code')
         /\ \E x \in Instr : /\ x.op = "call" /\ x.block = insert /\ x.to = <<>> /\ x.args = <<>>
                             /\ code' = Append(code, x)
<1>1. InBody /\ code' = Append(code, Build("call", insert, Name, <<>>))
  BY CallMoves
<1>2. insert \in Nat /\ Name \in Seq(Nat) /\ code \in Seq(Instr)
  BY <1>1, Types, ThisOK DEF Inv, TypeOK
<1>3. PICK x : x = Build("call", insert, Name, <<>>)
  OBVIOUS
<1>4. x \in Instr /\ x.op = "call" /\ x.block = insert /\ x.to = <<>> /\ x.args = <<>>
  BY <1>2, <1>3, BuildIs
<1>5. code' = Append(code, x)
  BY <1>1, <1>3
<1>6. QED
  BY <1>2, <1>4, <1>5, EmitsOne, OneMore

LEMMA BreakEmits ==
  ASSUME Inv, ShapeInv, BreakStmt
  PROVE  /\ Extends(code, code') /\ code' \in Seq(Instr)
         /\ \/ loop_blocks = <<>> /\ code' = code /\ insert' = insert /\ blocks' = blocks
            \/ /\ loop_blocks # <<>>
               /\ Closed(code, insert) \/ Doubled(code) => Doubled(code')
               /\ \E x \in Instr : /\ x.op = "br" /\ x.block = insert
                                   /\ x.to = <<Head(loop_blocks)>> /\ x.args = <<>>
                                   /\ code' = Append(code, x)
               /\ blocks' = blocks + 1 /\ insert' = blocks + 1
<1>1. insert \in Nat /\ code \in Seq(Instr) /\ loop_blocks \in Seq(Nat)
  BY Types DEF Inv, TypeOK
<1>2. CASE loop_blocks = <<>>
  <2>1. code' = code /\ insert' = insert /\ blocks' = blocks
    BY <1>2 DEF BreakStmt, built
  <2>2. QED
    BY <1>1, <1>2, <2>1, NoMore
<1>3. CASE loop_blocks # <<>>
  <2>1. PICK x : x = Br(insert, Head(loop_blocks))
    OBVIOUS
  <2>2. Head(loop_blocks) \in Nat
    BY <1>1, <1>3
  <2>3. x \in Instr /\ x.op = "br" /\ x.block = insert /\ x.to = <<Head(loop_blocks)>> /\ x.args = <<>>
    BY <1>1, <2>1, <2>2, BrIs
  <2>4. code' = Append(code, x) /\ blocks' = blocks + 1 /\ insert' = blocks + 1
    BY <1>3, <2>1 DEF BreakStmt
  <2>5. QED
    BY <1>1, <1>3, <2>3, <2>4, EmitsOne, OneMore
<1>4. QED
  BY <1>2, <1>3

LEMMA WhileDoneEmits ==
  ASSUME Inv, ShapeInv, WhileDone
  PROVE  /\ Extends(code, code') /\ code' \in Seq(Instr)
         /\ Closed(code, insert) \/ Doubled(code) => Doubled(code')
         /\ \E x \in Instr : /\ x.op = "condbr" /\ x.block = insert
                             /\ x.to = <<Top.orelse, Top.after>> /\ x.args = <<>>
                             /\ code' = Append(code, x)
<1>1. /\ Running /\ Top.at = "loop"
      /\ code' = Append(code, CondBr(insert, <<Caller.body, Caller.i>>, Top.orelse, Top.after))
  BY WhileDoneMoves
<1>2. insert \in Nat /\ code \in Seq(Instr) /\ Top \in Frame /\ Caller \in Frame
  BY <1>1, TopOK, Types DEF Inv, TypeOK
<1>3. Top.orelse \in Nat /\ Top.after \in Nat /\ <<Caller.body, Caller.i>> \in Seq(Nat)
  BY <1>2 DEF Frame
<1>4. PICK x : x = CondBr(insert, <<Caller.body, Caller.i>>, Top.orelse, Top.after)
  OBVIOUS
<1>5. /\ x \in Instr /\ x.op = "condbr" /\ x.block = insert
      /\ x.to = <<Top.orelse, Top.after>> /\ x.args = <<>>
  <2>1. PICK st \in Seq(Nat) : st = <<Caller.body, Caller.i>>
    BY <1>3
  <2>2. PICK yes \in Nat, no \in Nat : yes = Top.orelse /\ no = Top.after
    BY <1>3
  <2>3. x = CondBr(insert, st, yes, no)
    BY <1>4, <2>1, <2>2
  <2>4. x \in Instr /\ x.op = "condbr" /\ x.block = insert /\ x.to = <<yes, no>> /\ x.args = <<>>
    BY <1>2, <2>3, CondBrIs
  <2>5. QED
    BY <2>2, <2>4
<1>6. code' = Append(code, x)
  BY <1>1, <1>4
<1>7. QED
  BY <1>2, <1>5, <1>6, EmitsOne, OneMore

LEMMA ReturnEmits ==
  ASSUME Inv, ShapeInv, ReturnBuilt
  PROVE  /\ Extends(code, code') /\ code' \in Seq(Instr) /\ Closed(code', insert)
         /\ Closed(code, insert) \/ Doubled(code) => Doubled(code')
         /\ \E x \in Instr : /\ x.op = "ret" /\ x.block = insert /\ x.to = <<>> /\ x.args = <<>>
                             /\ code' = Append(code, x)
<1>1. code' = Append(code, Build("ret", insert, <<Caller.body, Caller.i>>, <<>>))
  BY DEF ReturnBuilt
<1>2. insert \in Nat /\ code \in Seq(Instr) /\ Caller \in Frame
  BY ReturnShape, Types DEF Inv, TypeOK
<1>3. <<Caller.body, Caller.i>> \in Seq(Nat)
  BY <1>2 DEF Frame
<1>4. PICK x : x = Build("ret", insert, <<Caller.body, Caller.i>>, <<>>)
  OBVIOUS
<1>5. x \in Instr /\ x.op = "ret" /\ x.block = insert /\ x.to = <<>> /\ x.args = <<>>
  <2>1. PICK st \in Seq(Nat) : st = <<Caller.body, Caller.i>>
    BY <1>3
  <2>2. x = Build("ret", insert, st, <<>>)
    BY <1>4, <2>1
  <2>3. QED
    BY <1>2, <2>2, BuildIs
<1>6. code' = Append(code, x)
  BY <1>1, <1>4
<1>7. QED
  BY <1>2, <1>5, <1>6, EmitsOne, OneMore

\* An if with two branches ends with what its second branch ends with, and a phi
\* if both have a value.
LEMMA IfElseEmits ==
  ASSUME Inv, ShapeInv, IfElseDone, Running'
  PROVE  /\ Extends(code, code') /\ code' \in Seq(Instr) /\ Extends(BranchEnd, code')
         /\ \/ Top.value = 0 /\ code' = BranchEnd
            \/ /\ Top.value # 0 /\ Top.thenValue # 0
               /\ \E x \in Instr : /\ x.op = "phi" /\ x.block = Top.after /\ x.to = <<>>
                                   /\ x.args = <<Top.thenValue, Top.value>>
                                   /\ x.from = <<Top.thenBlock, insert>>
                                   /\ code' = Append(BranchEnd, x)
<1>1. Running /\ Top.at = "else"
  BY IfElseDoneMoves
<1>2. insert \in Nat /\ code \in Seq(Instr) /\ Top \in Frame
  BY <1>1, TopOK, Types DEF Inv, TypeOK
<1>3. BranchEnd \in Seq(Instr) /\ Extends(code, BranchEnd)
  BY <1>1, EmitsEnd
<1>4. CASE Top.thenValue = 0 /\ Top.value = 0
  <2>1. code' = BranchEnd
    BY <1>4, IfElseDoneMoves
  <2>2. Len(BranchEnd) \in Nat
    BY <1>3
  <2>3. QED
    BY <1>3, <1>4, <2>1, <2>2, NoMore
<1>5. CASE Top.thenValue # 0 /\ Top.value # 0
  <2>1. PICK x : x = [Build("phi", Top.after, <<>>, <<>>) EXCEPT
                        !.args = <<Top.thenValue, Top.value>>, !.from = <<Top.thenBlock, insert>>]
    OBVIOUS
  <2>2. Top.after \in Nat /\ Top.thenValue \in Nat /\ Top.value \in Nat /\ Top.thenBlock \in Nat
    BY <1>2 DEF Frame
  <2>3. /\ x \in Instr /\ x.op = "phi" /\ x.block = Top.after /\ x.to = <<>>
        /\ x.args = <<Top.thenValue, Top.value>> /\ x.from = <<Top.thenBlock, insert>>
    <3>1. PICK a \in Nat, v \in Nat, w \in Nat, from \in Nat :
            a = Top.after /\ v = Top.thenValue /\ w = Top.value /\ from = Top.thenBlock
      BY <2>2
    <3>2. x = PhiOf(a, v, w, from, insert)
      BY <2>1, <3>1 DEF PhiOf
    <3>3. /\ x \in Instr /\ x.op = "phi" /\ x.block = a /\ x.to = <<>>
          /\ x.args = <<v, w>> /\ x.from = <<from, insert>>
      <4>1. x \in Instr
        BY <1>2, <3>2, PhiIs
      <4>2. /\ x.op = "phi" /\ x.block = a /\ x.to = <<>>
            /\ x.args = <<v, w>> /\ x.from = <<from, insert>>
        BY <3>2 DEF PhiOf, Build
      <4>3. QED
        BY <4>1, <4>2
    <3>4. QED
      BY <3>1, <3>3
  <2>4. code' = Append(BranchEnd, x)
    BY <1>5, <2>1, IfElseDoneMoves
  <2>5. /\ code' \in Seq(Instr) /\ Len(code') = Len(BranchEnd) + 1 /\ Extends(BranchEnd, code')
        /\ code'[Len(code')] = x /\ \A i \in 1 .. Len(BranchEnd) : code'[i] = BranchEnd[i]
    BY <1>3, <2>3, <2>4, OneMore
  <2>6. Extends(code, code')
    <3>1. Len(code) \in Nat /\ Len(BranchEnd) \in Nat
      BY <1>2, <1>3
    <3>2. QED
      BY <1>3, <2>5, <3>1 DEF Extends
  <2>7. QED
    BY <1>5, <2>3, <2>4, <2>5, <2>6
<1>6. QED
  BY <1>4, <1>5, IfElseDoneMoves

(* What each action has marked *)

\* A body that has been gone through has marked all that its text has.
LEMMA Finished ==
  ASSUME NEW p, IsFunction(p), NEW c, NEW d, NEW f, PassedOK(p, c, d, f),
         f.at # "defers", f.body \in 1 .. Len(p), f.body \notin InDeferred(p),
         f.i \in Nat, f.i > Len(p[f.body]),
         IsLoop(p, f.body) /\ Returns(p, f.body) # {} => Doubled(c)
  PROVE  AllMarked(p, c, d, f.body)
<1>1. PICK b \in 1 .. Len(p) : b = f.body
  OBVIOUS
<1>2. /\ Len(p) \in Nat /\ Len(p[b]) \in Nat
      /\ \A t \in Statements(p) : t[1] \in 1 .. Len(p) /\ t[2] \in 1 .. Len(p[t[1]]) /\ t = <<t[1], t[2]>>
  BY StatementsOf
<1>3. \A i \in 1 .. Len(p[b]) : ~Behind(p, <<b, i>>) =>
        IF p[b][i].op = "defer"
        THEN \E k \in 1 .. Len(d) : d[k] = p[b][i].body
        ELSE \A e \in BodiesOf(p, <<b, i>>) : AllMarked(p, c, d, e)
  <2>1. TAKE i \in 1 .. Len(p[b])
  <2>2. i < f.i
    BY <1>1, <1>2
  <2>3. QED
    BY <1>1, <2>2, Zenon DEF PassedOK
<1>4. ASSUME NEW t \in LiveIn(p, b)
      PROVE  Marked(p, c, d, t)
  <2>1. t \in Statements(p) /\ ~Behind(p, t)
    BY DEF LiveIn
  <2>2. CASE t[1] = b
    <3>1. PICK i \in 1 .. Len(p[b]) : t = <<b, i>> /\ t[1] = b /\ t[2] = i
      BY <1>2, <2>1, <2>2
    <3>2. ASSUME OpOf(p, t) = "return", IsLoop(p, t[1])
          PROVE  Doubled(c)
      <4>1. p[b][i].op = "return" /\ IsLoop(p, b)
        BY <3>1, <3>2 DEF OpOf
      <4>2. i \in Returns(p, b)
        BY <4>1 DEF Returns
      <4>3. QED
        BY <1>1, <4>1, <4>2
    <3>3. ASSUME OpOf(p, t) = "defer"
          PROVE  \E k \in 1 .. Len(d) : d[k] = BodyOf(p, t)
      <4>1. p[b][i].op = "defer" /\ BodyOf(p, t) = p[b][i].body
        BY <3>1, <3>3 DEF OpOf, BodyOf
      <4>2. ~Behind(p, <<b, i>>)
        BY <2>1, <3>1
      <4>3. \E k \in 1 .. Len(d) : d[k] = p[b][i].body
        BY <1>3, <4>1, <4>2, Zenon
      <4>4. QED
        BY <4>1, <4>3, Zenon
    <3>4. QED
      BY <3>2, <3>3, Zenon DEF Marked
  <2>3. CASE \E u \in Statements(p) :
               /\ u[1] = b /\ ~Behind(p, u) /\ OpOf(p, u) # "defer"
               /\ \E e \in BodiesOf(p, u) : t \in LiveIn(p, e)
    <3>1. PICK u \in Statements(p) :
            /\ u[1] = b /\ ~Behind(p, u) /\ OpOf(p, u) # "defer"
            /\ \E e \in BodiesOf(p, u) : t \in LiveIn(p, e)
      BY <2>3, Zenon
    <3>2. PICK e \in BodiesOf(p, u) : t \in LiveIn(p, e)
      BY <3>1, Zenon
    <3>3. PICK i \in 1 .. Len(p[b]) : u = <<b, i>> /\ u[1] = b /\ u[2] = i
      BY <1>2, <3>1
    <3>4. p[b][i].op # "defer" /\ ~Behind(p, <<b, i>>) /\ e \in BodiesOf(p, <<b, i>>)
      BY <3>1, <3>2, <3>3 DEF OpOf
    <3>5. AllMarked(p, c, d, e)
      BY <1>3, <3>4, Zenon
    <3>6. QED
      BY <3>2, <3>5, Zenon DEF AllMarked
  <2>4. QED
    BY <2>2, <2>3, LiveSplit, Zenon
<1>5. QED
  BY <1>1, <1>4, Zenon DEF AllMarked

\* The frame f is the frame lo after the statement that it was at.
LEMMA PassedNext ==
  ASSUME NEW p, NEW c, NEW d, NEW lo, PassedOK(p, c, d, lo),
         lo.at # "defers", lo.i \in Nat,
         lo.body \notin InDeferred(p) =>
           IF p[lo.body][lo.i].op = "defer"
           THEN \E k \in 1 .. Len(d) : d[k] = p[lo.body][lo.i].body
           ELSE \A b \in BodiesOf(p, <<lo.body, lo.i>>) : AllMarked(p, c, d, b),
         NEW f, f.body = lo.body, f.i = lo.i + 1
  PROVE  PassedOK(p, c, d, f)
<1>1. SUFFICES ASSUME f.body \notin InDeferred(p), NEW i \in 1 .. Len(p[f.body]),
                      i < f.i, ~Behind(p, <<f.body, i>>)
               PROVE  IF p[f.body][i].op = "defer"
                      THEN \E k \in 1 .. Len(d) : d[k] = p[f.body][i].body
                      ELSE \A b \in BodiesOf(p, <<f.body, i>>) : AllMarked(p, c, d, b)
  BY Zenon DEF PassedOK
<1>2. CASE i = lo.i
  BY <1>1, <1>2, Zenon
<1>3. CASE i # lo.i
  <2>1. i < lo.i
    BY <1>1, <1>3
  <2>2. QED
    BY <1>1, <2>1, Zenon DEF PassedOK
<1>4. QED
  BY <1>2, <1>3

\* A body that has been gone through without a return has none.
LEMMA NoReturn ==
  ASSUME NEW p, NEW lo, PlaceOK(p, lo), lo.at # "defers", lo.i \in Nat,
         Len(p[lo.body]) \in Nat, lo.i <= Len(p[lo.body]), p[lo.body][lo.i].op # "return",
         NEW f, f.body = lo.body, f.i = lo.i + 1, f.i > Len(p[f.body])
  PROVE  Returns(p, f.body) = {}
<1>1. SUFFICES ASSUME NEW r \in Returns(p, lo.body) PROVE FALSE
  OBVIOUS
<1>2. r \in 1 .. Len(p[lo.body]) /\ p[lo.body][r].op = "return"
  BY DEF Returns
<1>3. r >= lo.i
  BY DEF PlaceOK
<1>4. r = lo.i
  BY <1>2, <1>3
<1>5. QED
  BY <1>2, <1>4

\* How high a stack is.
LEMMA Heights ==
  ASSUME NEW n \in Nat \ {0}
  PROVE  /\ n = 1 \/ n = 2 \/ n >= 3
         /\ n >= 3 => n = 3 \/ n >= 4
         /\ n >= 4 => n >= 3
         /\ n >= 3 => n >= 2
OBVIOUS

\* A stack on which the function has returned holds what is deferred, and what is
\* nested in it.
LEMMA Repeating ==
  ASSUME Inv, ShapeInv, Running, stack[1].returns
  PROVE  /\ Len(stack) \in Nat \ {0}
         /\ stack[1].at = "function" /\ stack[1].body = 1 /\ stack[1].i = Len(fn[1]) + 1
         /\ Returns(fn, 1) # {}
         /\ Len(stack) >= 2 => stack[2].at = "defers"
         /\ Len(stack) >= 3 => stack[3].at = "deferred"
         /\ \A j \in 1 .. Len(stack) : j >= 3 =>
              stack[j].at # "defers" /\ stack[j].body \in InDeferred(fn)
<1>1. /\ stack \in Seq(Frame) /\ stack # <<>> /\ StackOK(fn, blocks, stack)
      /\ Len(stack) \in Nat \ {0}
  BY Types, TopOK DEF Inv
<1>2. \A j \in 1 .. Len(stack) : stack[j] \in Frame
  BY <1>1, ElementOfSeq
<1>3. Shape(fn, defer_blocks, stack)
  BY DEF ShapeInv
<1>4. 1 \in 1 .. Len(stack) /\ stack[1].at = "function"
  BY <1>1 DEF StackOK
<1>5. PlaceOK(fn, stack[1])
  BY <1>3, <1>4 DEF Shape
<1>6. stack[1].body = 1 /\ stack[1].i = Len(fn[1]) + 1 /\ Returns(fn, 1) # {}
  BY <1>4, <1>5 DEF PlaceOK
<1>7. ASSUME Len(stack) >= 2 PROVE stack[2].at = "defers"
  <2>1. 2 \in 1 .. Len(stack) /\ 2 > 1 /\ 2 - 1 = 1
    BY <1>1, <1>7
  <2>2. Linked(fn, stack[1], stack[2]) /\ stack[2] \in Frame
    BY <1>1, <1>2, <2>1 DEF StackOK
  <2>3. ~(stack[1].i <= Len(fn[stack[1].body]))
    <3>1. Len(fn[1]) \in Nat
      <4>1. IsFunction(fn)
        BY DEF Inv, TypeOK
      <4>2. QED
        BY <4>1, StatementsOf, FirstBody
    <3>2. QED
      BY <1>6, <3>1
  <2>4. QED
    BY <1>4, <2>2, <2>3 DEF Linked, Frame
<1>8. ASSUME Len(stack) >= 3 PROVE stack[3].at = "deferred"
  <2>1. 3 \in 1 .. Len(stack) /\ 3 > 1 /\ 3 - 1 = 2 /\ Len(stack) >= 2
    BY <1>1, <1>8
  <2>2. Linked(fn, stack[2], stack[3]) /\ stack[3] \in Frame
    BY <1>1, <1>2, <2>1 DEF StackOK
  <2>3. QED
    BY <1>7, <2>1, <2>2 DEF Linked, Frame
<1>9. ASSUME NEW j \in 1 .. Len(stack), j >= 3
      PROVE  stack[j].at # "defers" /\ stack[j].body \in InDeferred(fn)
  <2>1. 2 \in 1 .. Len(stack) /\ 2 < j /\ Len(stack) >= 2
    BY <1>1, <1>9
  <2>2. Beyond(fn, stack[2], stack[j])
    BY <1>3, <2>1 DEF Shape
  <2>3. QED
    BY <1>7, <2>1, <2>2 DEF Beyond
<1>10. QED
  BY <1>1, <1>4, <1>6, <1>7, <1>8, <1>9

\* Nothing that the text has is generated any more.
LEMMA NotRepeating ==
  ASSUME Inv, ShapeInv, InBody, Top.body \notin InDeferred(fn)
  PROVE  ~stack[1].returns
<1>1. SUFFICES ASSUME stack[1].returns PROVE FALSE
  OBVIOUS
<1>2. Running /\ Top.at # "defers"
  BY DEF InBody
<1>3. /\ Len(stack) \in Nat \ {0} /\ Top = stack[Len(stack)]
      /\ Len(stack) >= 2 => stack[2].at = "defers"
      /\ \A j \in 1 .. Len(stack) : j >= 3 => stack[j].body \in InDeferred(fn)
  BY <1>1, <1>2, TopOK, Repeating
<1>4. CASE Len(stack) = 1
  BY <1>1, <1>3, <1>4, ThisShape
<1>5. CASE Len(stack) = 2
  BY <1>2, <1>3, <1>5
<1>6. CASE Len(stack) >= 3
  <2>1. Len(stack) \in 1 .. Len(stack)
    BY <1>3
  <2>2. QED
    BY <1>3, <1>6, <2>1
<1>7. Len(stack) = 1 \/ Len(stack) = 2 \/ Len(stack) >= 3
  BY <1>3, Heights, Zenon
<1>8. QED
  BY <1>4, <1>5, <1>6, <1>7

\* Whether the function has returned is settled at the bottom of the stack.
LEMMA SameFirst ==
  ASSUME NEW s, NEW t, NEW n, NEW f, Steps(s, t, n, f), n = 1 => f.returns = s[1].returns
  PROVE  t[1].returns = s[1].returns
<1>1. CASE n = 1
  BY <1>1 DEF Steps
<1>2. CASE n # 1
  <2>1. 1 \in 1 .. n /\ 1 # n
    BY <1>2 DEF Steps
  <2>2. QED
    BY <2>1 DEF Steps
<1>3. QED
  BY <1>1, <1>2

\* Only the last frame has to be looked at, and the bottom of the stack.
LEMMA MarkSteps ==
  ASSUME Inv, Running, MarkInv, fn' = fn, code' \in Seq(Instr), Extends(code, code'),
         Covers(defer_blocks, defer_blocks'), NEW n, NEW f, Steps(stack, stack', n, f),
         PassedOK(fn, code', defer_blocks', f),
         n > 1 => ThenPassed(fn, code', defer_blocks', stack[n - 1], f),
         LoopClosed(fn, code', insert', f),
         Repeats(fn, code', insert', defer_blocks', stack')
  PROVE  MarkInv'
<1>1. stack \in Seq(Frame) /\ Len(code) \in Nat /\ Len(code') \in Nat
  BY Types
<1>2. Passed(fn, code, defer_blocks, stack)
  BY DEF MarkInv
<1>3. Passed(fn, code', defer_blocks', stack')
  BY <1>1, <1>2, PassedSteps
<1>4. Last(stack') = f
  BY DEF Steps
<1>5. Top' = f
  BY <1>4 DEF Top
<1>6. QED
  BY <1>3, <1>5, Zenon DEF MarkInv

\* What is asked of a stack on which the function has returned holds of any once
\* a block has been ended twice.
LEMMA RepeatsDoubled ==
  ASSUME NEW p, NEW c, NEW b, NEW d, NEW s, s[1].returns => Doubled(c)
  PROVE  Repeats(p, c, b, d, s)
BY Zenon DEF Repeats

\* What the repetition has done
LEMMA RepeatsAre ==
  ASSUME NEW p, NEW c, NEW b, NEW d, NEW s, Repeats(p, c, b, d, s), s[1].returns
  PROVE  /\ Closed(c, b) \/ Doubled(c)
         /\ Len(s) >= 2 => \A k \in 1 .. Len(d) : k < s[2].i /\ GeneratesCode(p, d[k]) => Doubled(c)
         /\ Len(s) >= 3 => \A i \in 1 .. Len(p[s[3].body]) :
              i < s[3].i /\ p[s[3].body][i].op \notin {"break", "defer"} => Doubled(c)
         /\ Len(s) >= 4 => Doubled(c)
BY Zenon DEF Repeats

\* What is known of the marks of the innermost call and its caller.
LEMMA TopMarks ==
  ASSUME Inv, MarkInv, Running, NEW c, NEW d, Len(c) \in Nat,
         Extends(code, c), Covers(defer_blocks, d)
  PROVE  /\ PassedOK(fn, c, d, Top)
         /\ Len(stack) > 1 => ThenPassed(fn, c, d, Caller, Top) /\ PassedOK(fn, c, d, Caller)
         /\ Len(stack) > 2 => ThenPassed(fn, c, d, stack[Len(stack) - 2], Caller)
         /\ LoopClosed(fn, code, insert, Top)
         /\ Repeats(fn, code, insert, defer_blocks, stack)
<1>1. /\ Len(stack) \in Nat \ {0} /\ Top = stack[Len(stack)] /\ Len(code) \in Nat
      /\ Caller = stack[Len(stack) - 1]
  BY TopOK, Types DEF Caller
<1>2. /\ Passed(fn, code, defer_blocks, stack)
      /\ LoopClosed(fn, code, insert, Top) /\ Repeats(fn, code, insert, defer_blocks, stack)
  BY DEF MarkInv
<1>3. /\ \A f : PassedOK(fn, code, defer_blocks, f) => PassedOK(fn, c, d, f)
      /\ \A lo, hi : ThenPassed(fn, code, defer_blocks, lo, hi) => ThenPassed(fn, c, d, lo, hi)
  BY <1>1, MarksKept
<1>4. Len(stack) \in 1 .. Len(stack)
  BY <1>1
<1>5. PassedOK(fn, c, d, Top)
  BY <1>1, <1>2, <1>3, <1>4 DEF Passed
<1>6. ASSUME Len(stack) > 1
      PROVE  ThenPassed(fn, c, d, Caller, Top) /\ PassedOK(fn, c, d, Caller)
  <2>1. Len(stack) - 1 \in 1 .. Len(stack)
    BY <1>1, <1>6
  <2>2. QED
    BY <1>1, <1>2, <1>3, <1>4, <1>6, <2>1 DEF Passed
<1>7. ASSUME Len(stack) > 2
      PROVE  ThenPassed(fn, c, d, stack[Len(stack) - 2], Caller)
  <2>1. PICK j \in 1 .. Len(stack) : j = Len(stack) - 1 /\ j > 1 /\ j - 1 = Len(stack) - 2
    BY <1>1, <1>7
  <2>2. ThenPassed(fn, code, defer_blocks, stack[j - 1], stack[j])
    BY <1>2, <2>1 DEF Passed
  <2>3. QED
    BY <1>1, <1>3, <2>1, <2>2
<1>8. QED
  BY <1>2, <1>5, <1>6, <1>7

\* A frame that stands where another stood has the same above it.
LEMMA SameThen ==
  ASSUME NEW p, NEW c, NEW d, NEW lo, NEW hi, ThenPassed(p, c, d, lo, hi), NEW f, f.at = hi.at
  PROVE  ThenPassed(p, c, d, lo, f)
BY DEF ThenPassed

\* An if or a loop ends: its body has marked all that it has.
LEMMA CallerMarks ==
  ASSUME Inv, ShapeInv, MarkInv, Running, Top.at \in {"then", "else", "loop"},
         Top.i > Len(Body), NEW c, NEW d, Len(c) \in Nat,
         Extends(code, c), Covers(defer_blocks, d),
         Top.at = "loop" /\ Returns(fn, Top.body) # {} => Doubled(c)
  PROVE  /\ Caller.body \notin InDeferred(fn) => AllMarked(fn, c, d, Top.body)
         /\ \A v \in Nat :
              LET f == After(Caller, v) IN
              /\ (Top.at = "then" => Top.orelse = 0) => PassedOK(fn, c, d, f)
              /\ \A b : LoopClosed(fn, c, b, f)
              /\ Len(stack) > 2 => ThenPassed(fn, c, d, stack[Len(stack) - 2], f)
<1>1. IsFunction(fn)
  BY DEF Inv, TypeOK
<1>2. /\ Caller \in Frame /\ Caller.at # "defers" /\ Caller.body \in 1 .. Len(fn)
      /\ Caller.i \in 1 .. Len(fn[Caller.body]) /\ Top \in Frame /\ Len(stack) > 1
      /\ Top.body \in 1 .. Len(fn)
  BY CallerOK, TopOK DEF FrameOK
<1>3. PICK b, i :
        b \in 1 .. Len(fn) /\ i \in 1 .. Len(fn[b]) /\ b = Caller.body /\ i = Caller.i
  BY <1>2, Zenon
<1>4. WaitsFor(fn, defer_blocks, Caller, Top) /\ PlaceOK(fn, Caller)
  BY <1>2, TopShape, TopOK
<1>5. Top.body \in BodiesOf(fn, <<b, i>>) /\ fn[b][i].op \in {"if", "ifelse", "while"}
  BY <1>3, <1>4 DEF WaitsFor
<1>6. <<b, i>> \in Statements(fn) /\ Len(fn[b]) \in Nat
  BY <1>1, <1>3, StatementsOf
<1>7. OpOf(fn, <<b, i>>) = fn[b][i].op
  BY DEF OpOf
<1>8. ASSUME Caller.body \notin InDeferred(fn)
      PROVE  Top.body \notin InDeferred(fn)
  <2>1. SUFFICES ASSUME Top.body \in InDeferred(fn) PROVE FALSE
    OBVIOUS
  <2>2. PICK t \in Statements(fn) :
          Top.body \in BodiesOf(fn, t) /\ (OpOf(fn, t) = "defer" \/ t[1] \in InDeferred(fn))
    BY <1>1, <2>1, DeferredSplit
  <2>3. t = <<b, i>>
    BY <1>1, <1>5, <1>6, <2>2, OneOwner
  <2>4. t[1] = b
    BY <2>3
  <2>5. QED
    BY <1>3, <1>5, <1>7, <1>8, <2>2, <2>3, <2>4
<1>9. IsLoop(fn, Top.body) <=> fn[b][i].op = "while"
  BY <1>1, <1>5, <1>6, <1>7, LoopBodies
<1>10. IsLoop(fn, Top.body) => Top.at = "loop"
  BY <1>3, <1>4, <1>9, <1>2 DEF WaitsFor
<1>11. /\ PassedOK(fn, c, d, Top)
       /\ ThenPassed(fn, c, d, Caller, Top) /\ PassedOK(fn, c, d, Caller)
       /\ Len(stack) > 2 => ThenPassed(fn, c, d, stack[Len(stack) - 2], Caller)
  BY <1>2, TopMarks
<1>12. ASSUME Caller.body \notin InDeferred(fn)
       PROVE  AllMarked(fn, c, d, Top.body)
  <2>1. Top.i \in Nat /\ Top.i > Len(fn[Top.body]) /\ Top.at # "defers"
    BY <1>2 DEF Body, Frame
  <2>2. QED
    BY <1>1, <1>2, <1>8, <1>10, <1>11, <1>12, <2>1, Finished
<1>13. ASSUME NEW v \in Nat
       PROVE  LET f == After(Caller, v) IN
              /\ (Top.at = "then" => Top.orelse = 0) => PassedOK(fn, c, d, f)
              /\ \A e : LoopClosed(fn, c, e, f)
              /\ Len(stack) > 2 => ThenPassed(fn, c, d, stack[Len(stack) - 2], f)
  <2>1. PICK f : f = After(Caller, v)
    OBVIOUS
  <2>2. f \in Frame /\ f.at = Caller.at /\ f.body = Caller.body /\ f.i = Caller.i + 1
    BY <1>2, <2>1, AfterIs
  <2>3. Len(stack) > 2 => ThenPassed(fn, c, d, stack[Len(stack) - 2], f)
    BY <1>11, <2>2, SameThen
  <2>4. ASSUME NEW e PROVE LoopClosed(fn, c, e, f)
    <3>1. SUFFICES ASSUME f.i > Len(fn[f.body]) PROVE Returns(fn, f.body) = {}
      BY DEF LoopClosed
    <3>2. /\ Caller.i \in Nat /\ Len(fn[Caller.body]) \in Nat /\ Caller.i <= Len(fn[Caller.body])
          /\ fn[Caller.body][Caller.i].op # "return"
      BY <1>3, <1>5, <1>6
    <3>3. QED
      BY <1>2, <1>4, <2>2, <3>1, <3>2, NoReturn
  <2>5. ASSUME Top.at = "then" => Top.orelse = 0 PROVE PassedOK(fn, c, d, f)
    <3>1. ASSUME Caller.body \notin InDeferred(fn), NEW e \in BodiesOf(fn, <<b, i>>)
          PROVE  AllMarked(fn, c, d, e)
      <4>1. CASE e = Top.body
        BY <1>12, <3>1, <4>1
      <4>2. CASE e # Top.body
        <5>1. fn[b][i].op = "ifelse"
          <6>1. SUFFICES ASSUME fn[b][i].op # "ifelse" PROVE FALSE
            OBVIOUS
          <6>2. BodiesOf(fn, <<b, i>>) \subseteq {fn[b][i].body}
            BY <1>1, <1>3, <6>1, BodiesAre
          <6>3. QED
            BY <1>5, <3>1, <4>2, <6>2
        <5>2. Top.at = "else" /\ Top.body = fn[b][i].orelse
          BY <1>3, <1>4, <2>5, <5>1 DEF WaitsFor
        <5>3. e = fn[b][i].body
          BY <3>1, <4>2, <5>2 DEF BodiesOf, BodyOf
        <5>4. QED
          BY <1>3, <1>11, <3>1, <5>2, <5>3 DEF ThenPassed
      <4>3. QED
        BY <4>1, <4>2
    <3>2. Caller.body \notin InDeferred(fn) =>
            IF fn[Caller.body][Caller.i].op = "defer"
            THEN \E k \in 1 .. Len(d) : d[k] = fn[Caller.body][Caller.i].body
            ELSE \A e \in BodiesOf(fn, <<Caller.body, Caller.i>>) : AllMarked(fn, c, d, e)
      BY <1>3, <1>5, <3>1
    <3>3. Caller.i \in Nat
      BY <1>3
    <3>4. QED
      BY <1>2, <1>11, <2>2, <3>2, <3>3, PassedNext, Zenon
  <2>6. QED
    BY <2>1, <2>3, <2>4, <2>5, Zenon
<1>14. QED
  BY <1>12, <1>13, Zenon

\* A statement without bodies of its own, or with a body that is deferred, is passed.
LEMMA AdvanceMarks ==
  ASSUME Inv, InBody, ShapeInv, MarkInv, This.op \in {"call", "break", "defer"} \union Valued,
         NEW c, NEW d, Len(c) \in Nat, Extends(code, c), Covers(defer_blocks, d),
         This.op = "defer" => \E k \in 1 .. Len(d) : d[k] = This.body,
         NEW v \in Nat
  PROVE  LET f == After(Top, v) IN
         /\ PassedOK(fn, c, d, f)
         /\ \A b : LoopClosed(fn, c, b, f)
         /\ Len(stack) > 1 => ThenPassed(fn, c, d, Caller, f)
         /\ f.returns = FALSE
<1>1. IsFunction(fn) /\ Running /\ Top.at # "defers"
  BY DEF Inv, TypeOK, InBody
<1>2. /\ Top \in Frame /\ Top.body \in 1 .. Len(fn) /\ Top.i \in 1 .. Len(fn[Top.body])
      /\ Len(fn[Top.body]) \in Nat
  BY <1>1, TopOK, ThisOK, StatementsOf
<1>3. PlaceOK(fn, Top) /\ ~Top.returns
  BY <1>1, TopShape, ThisShape
<1>4. /\ PassedOK(fn, c, d, Top)
      /\ Len(stack) > 1 => ThenPassed(fn, c, d, Caller, Top)
  BY <1>1, TopMarks
<1>5. PICK f : f = After(Top, v)
  OBVIOUS
<1>6. /\ f \in Frame /\ f.at = Top.at /\ f.body = Top.body /\ f.i = Top.i + 1
      /\ f.returns = FALSE
  <2>1. /\ f \in Frame /\ f.at = Top.at /\ f.body = Top.body
        /\ f.i = Top.i + 1 /\ f.returns = Top.returns
    BY <1>2, <1>5, AfterIs, Zenon
  <2>2. QED
    BY <1>2, <1>3, <2>1 DEF Frame
<1>7. This = fn[Top.body][Top.i]
  BY DEF This, Body
<1>8. PassedOK(fn, c, d, f)
  <2>1. This.op # "defer" => BodiesOf(fn, <<Top.body, Top.i>>) = {}
    <3>1. This.op # "defer" => This.op \notin Nests
      BY DEF Nests, Valued
    <3>2. QED
      BY <1>1, <1>2, <1>7, <3>1, BodiesAre
  <2>2. IF fn[Top.body][Top.i].op = "defer"
        THEN \E k \in 1 .. Len(d) : d[k] = fn[Top.body][Top.i].body
        ELSE \A e \in BodiesOf(fn, <<Top.body, Top.i>>) : AllMarked(fn, c, d, e)
    BY <1>7, <2>1
  <2>3. Top.i \in Nat
    BY <1>2
  <2>4. QED
    BY <1>1, <1>4, <1>6, <2>2, <2>3, PassedNext, Zenon
<1>9. ASSUME NEW b PROVE LoopClosed(fn, c, b, f)
  <2>1. SUFFICES ASSUME f.i > Len(fn[f.body]) PROVE Returns(fn, f.body) = {}
    BY DEF LoopClosed
  <2>2. Top.i \in Nat /\ Top.i <= Len(fn[Top.body]) /\ fn[Top.body][Top.i].op # "return"
    BY <1>2, <1>7 DEF Valued
  <2>3. QED
    BY <1>1, <1>2, <1>3, <1>6, <2>1, <2>2, NoReturn
<1>10. Len(stack) > 1 => ThenPassed(fn, c, d, Caller, f)
  BY <1>4, <1>6, SameThen
<1>11. QED
  BY <1>5, <1>6, <1>8, <1>9, <1>10, Zenon

\* A frame that is at its first statement has marked nothing.
LEMMA StartMarks ==
  ASSUME NEW p, IsFunction(p), NEW c, NEW d, NEW f \in Frame, f.i = 1,
         f.at # "defers" => f.body \in 1 .. Len(p)
  PROVE  /\ PassedOK(p, c, d, f)
         /\ \A b : LoopClosed(p, c, b, f)
         /\ f.at # "else" => \A lo : ThenPassed(p, c, d, lo, f)
<1>1. PassedOK(p, c, d, f)
  <2>1. \A i \in 1 .. Len(p[f.body]) : ~(i < 1)
    OBVIOUS
  <2>2. QED
    BY <2>1, Zenon DEF PassedOK
<1>2. ASSUME NEW b PROVE LoopClosed(p, c, b, f)
  <2>1. SUFFICES ASSUME f.at = "loop", 1 > Len(p[f.body]) PROVE Returns(p, f.body) = {}
    BY DEF LoopClosed
  <2>2. Len(p[f.body]) \in Nat
    BY <2>1, StatementsOf
  <2>3. QED
    BY <2>1, <2>2 DEF Returns
<1>3. QED
  BY <1>1, <1>2, Zenon DEF ThenPassed

\* After a return of the function, a call generates what has been generated before.
LEMMA RepeatsAdvance ==
  ASSUME Inv, ShapeInv, MarkInv, InBody, NEW c, Extends(code, c), Len(c) \in Nat, NEW b,
         NEW d, NEW t, NEW f \in Frame, Steps(stack, t, Len(stack), f), ~f.returns,
         f.i = Top.i + 1, f.body = Top.body,
         d = defer_blocks,
         \/ Closed(code, insert) \/ Doubled(code) => Doubled(c)
         \/ c = code /\ b = insert /\ This.op \in {"break", "defer"}
  PROVE  Repeats(fn, c, b, d, t)
<1>1. Running /\ Top.at # "defers" /\ Top.i <= Len(Body)
  BY DEF InBody
<1>2. /\ Len(stack) \in Nat \ {0} /\ Top = stack[Len(stack)] /\ Top \in Frame
      /\ Len(code) \in Nat
  BY <1>1, TopOK, Types
<1>3. SUFFICES ASSUME t[1].returns PROVE Repeats(fn, c, b, d, t)
  BY RepeatsDoubled
<1>4. Len(stack) # 1
  BY <1>3 DEF Steps
<1>5. t[1] = stack[1]
  BY <1>2, <1>4 DEF Steps
<1>6. /\ Len(stack) >= 2 => stack[2].at = "defers"
      /\ Repeats(fn, code, insert, defer_blocks, stack) /\ stack[1].returns
  BY <1>1, <1>3, <1>5, Repeating DEF MarkInv
<1>7. Len(stack) >= 3
  <2>1. Len(stack) # 2
    <3>1. SUFFICES ASSUME Len(stack) = 2 PROVE FALSE
      OBVIOUS
    <3>2. Len(stack) >= 2 /\ Top = stack[2]
      BY <1>2, <3>1
    <3>3. QED
      BY <1>1, <1>6, <3>2
  <2>2. QED
    BY <1>2, <1>4, <2>1, Heights, Zenon
<1>8. /\ Closed(code, insert) \/ Doubled(code)
      /\ Len(stack) >= 2 =>
           \A k \in 1 .. Len(d) : k < stack[2].i /\ GeneratesCode(fn, d[k]) => Doubled(code)
      /\ Len(stack) >= 3 => \A i \in 1 .. Len(fn[stack[3].body]) :
           i < stack[3].i /\ fn[stack[3].body][i].op \notin {"break", "defer"} => Doubled(code)
      /\ Len(stack) >= 4 => Doubled(code)
  BY <1>6, RepeatsAre, Zenon
<1>9. CASE Doubled(c)
  BY <1>9, RepeatsDoubled
<1>10. CASE ~Doubled(c)
  <2>1. c = code /\ b = insert /\ This.op \in {"break", "defer"}
    BY <1>8, <1>10
  <2>2. Len(stack) = 3
    BY <1>2, <1>7, <1>8, <1>10, <2>1, Heights, Zenon
  <2>3. Len(t) = 3 /\ t[2] = stack[2] /\ t[3] = f /\ Top = stack[3]
    BY <1>2, <2>2 DEF Steps
  <2>4. \A k \in 1 .. Len(d) : k < t[2].i /\ GeneratesCode(fn, d[k]) => Doubled(c)
    <3>1. Len(stack) >= 2
      BY <2>2
    <3>2. QED
      BY <1>8, <2>1, <2>3, <3>1, Zenon
  <2>5. ASSUME NEW i \in 1 .. Len(fn[t[3].body]), i < t[3].i,
               fn[t[3].body][i].op \notin {"break", "defer"}
        PROVE  Doubled(c)
    <3>1. i < Top.i \/ i = Top.i
      <4>1. IsFunction(fn)
        BY DEF Inv, TypeOK
      <4>2. Len(fn[t[3].body]) \in Nat
        BY <2>3, <4>1, ThisOK, StatementsOf
      <4>3. Top.i \in Nat /\ t[3].i = Top.i + 1
        BY <1>2, <2>3 DEF Frame
      <4>4. QED
        BY <2>5, <4>2, <4>3
    <3>2. i # Top.i
      BY <2>1, <2>3, <2>5 DEF This, Body
    <3>3. i < stack[3].i /\ i \in 1 .. Len(fn[stack[3].body])
             /\ fn[stack[3].body][i].op \notin {"break", "defer"}
      BY <2>3, <2>5, <3>1, <3>2
    <3>4. QED
      BY <1>7, <1>8, <2>1, <3>3, Zenon
  <2>6. ~(Len(t) >= 4)
    BY <2>3
  <2>7. QED
    BY <1>8, <2>1, <2>4, <2>5, <2>6, Zenon DEF Repeats
<1>11. QED
  BY <1>9, <1>10

LEMMA CallMarks ==
  ASSUME Inv, ShapeInv, MarkInv, CallStmt
  PROVE  MarkInv'
<1>1. /\ InBody /\ Running /\ This.op \in {"call", "break", "defer"} \union Valued /\ fn' = fn
      /\ defer_blocks' = defer_blocks /\ This.op # "defer"
  BY CallMoves DEF CallStmt, Valued
<1>2. PICK v \in Nat : Steps(stack, stack', Len(stack), After(Top, v))
  BY CallMoves
<1>3. PICK f : f = After(Top, v)
  OBVIOUS
<1>4. /\ Extends(code, code') /\ code' \in Seq(Instr)
      /\ Closed(code, insert) \/ Doubled(code) => Doubled(code')
  BY CallEmits
<1>5. Len(code') \in Nat /\ Covers(defer_blocks, defer_blocks')
  BY <1>1, <1>4 DEF Covers
<1>6. Top \in Frame /\ Caller = stack[Len(stack) - 1]
  BY <1>1, TopOK DEF Caller
<1>7. f \in Frame /\ f.body = Top.body /\ f.i = Top.i + 1
  BY <1>3, <1>6, AfterIs
<1>8. /\ PassedOK(fn, code', defer_blocks', f) /\ LoopClosed(fn, code', insert', f)
      /\ Len(stack) > 1 => ThenPassed(fn, code', defer_blocks', Caller, f)
      /\ f.returns = FALSE
  BY <1>1, <1>3, <1>4, <1>5, AdvanceMarks
<1>9. Repeats(fn, code', insert', defer_blocks', stack')
  BY <1>1, <1>2, <1>3, <1>4, <1>5, <1>7, <1>8, RepeatsAdvance
<1>10. QED
  BY <1>1, <1>2, <1>3, <1>4, <1>5, <1>6, <1>8, <1>9, MarkSteps

LEMMA BreakMarks ==
  ASSUME Inv, ShapeInv, MarkInv, BreakStmt
  PROVE  MarkInv'
<1>1. /\ InBody /\ Running /\ This.op = "break" /\ fn' = fn
      /\ defer_blocks' = defer_blocks
      /\ Steps(stack, stack', Len(stack), After(Top, 0))
  BY BreakMoves DEF BreakStmt
<1>2. PICK f : f = After(Top, 0)
  OBVIOUS
<1>3. /\ Extends(code, code') /\ code' \in Seq(Instr)
      /\ \/ Closed(code, insert) \/ Doubled(code) => Doubled(code')
         \/ code' = code /\ insert' = insert
  BY BreakEmits
<1>4. Len(code') \in Nat /\ Covers(defer_blocks, defer_blocks')
  BY <1>1, <1>3 DEF Covers
<1>5. Top \in Frame /\ Caller = stack[Len(stack) - 1]
  BY <1>1, TopOK DEF Caller
<1>6. f \in Frame /\ f.body = Top.body /\ f.i = Top.i + 1
  BY <1>2, <1>5, AfterIs
<1>7. /\ PassedOK(fn, code', defer_blocks', f) /\ LoopClosed(fn, code', insert', f)
      /\ Len(stack) > 1 => ThenPassed(fn, code', defer_blocks', Caller, f)
      /\ f.returns = FALSE
  BY <1>1, <1>2, <1>3, <1>4, AdvanceMarks
<1>8. Repeats(fn, code', insert', defer_blocks', stack')
  BY <1>1, <1>2, <1>3, <1>4, <1>6, <1>7, RepeatsAdvance
<1>9. QED
  BY <1>1, <1>2, <1>3, <1>4, <1>5, <1>7, <1>8, MarkSteps

LEMMA DeferMarks ==
  ASSUME Inv, ShapeInv, MarkInv, PlainHere, DeferStmt, Running'
  PROVE  MarkInv'
<1>1. /\ InBody /\ Running /\ This.op = "defer" /\ fn' = fn
      /\ code' = code /\ insert' = insert /\ IsFunction(fn)
  BY DEF DeferStmt, At, InBody, Inv, TypeOK
<1>2. PICK f : f = After(Top, 0)
  OBVIOUS
<1>3. /\ Len(code) \in Nat /\ code \in Seq(Instr) /\ Top \in Frame /\ stack \in Seq(Frame)
      /\ Caller = stack[Len(stack) - 1] /\ stack # <<>>
  BY <1>1, TopOK, Types DEF Caller
<1>4. f \in Frame /\ f.body = Top.body /\ f.i = Top.i + 1
  BY <1>2, <1>3, AfterIs
<1>5. Steps(stack, stack', Len(stack), f)
  BY <1>2, <1>3, <1>4, DeferStmtShape, TopSteps
<1>6. Extends(code, code') /\ code' \in Seq(Instr) /\ Len(code') \in Nat
  BY <1>1, <1>3, NoMore
<1>7. /\ Covers(defer_blocks, defer_blocks')
      /\ \E k \in 1 .. Len(defer_blocks') : defer_blocks'[k] = This.body
  <2>1. /\ Len(defer_blocks') = Len(defer_blocks) + 1 /\ defer_blocks'[1] = This.body
        /\ \A k \in 1 .. Len(defer_blocks) : defer_blocks'[k + 1] = defer_blocks[k]
    BY DeferStmtShape
  <2>2. Len(defer_blocks) \in Nat
    BY DEF Inv, TypeOK
  <2>3. \A k \in 1 .. Len(defer_blocks) : k + 1 \in 1 .. Len(defer_blocks')
    BY <2>1, <2>2
  <2>4. 1 \in 1 .. Len(defer_blocks')
    BY <2>1, <2>2
  <2>5. QED
    BY <2>1, <2>3, <2>4 DEF Covers
<1>8. /\ PassedOK(fn, code', defer_blocks', f) /\ LoopClosed(fn, code', insert', f)
      /\ Len(stack) > 1 => ThenPassed(fn, code', defer_blocks', Caller, f)
      /\ f.returns = FALSE
  BY <1>1, <1>2, <1>6, <1>7, AdvanceMarks
<1>9. Repeats(fn, code', insert', defer_blocks', stack')
  <2>1. ~stack[1].returns
    <3>1. Top.body \in LiveBodies(fn, 1)
      BY DeferStmtShape
    <3>2. Top.body \notin InDeferred(fn)
      BY <1>1, <3>1, LiveOrDeferred
    <3>3. QED
      BY <1>1, <3>2, NotRepeating
  <2>2. ~stack'[1].returns
    <3>1. 1 \in 1 .. Len(stack)
      BY <1>3, LastOf
    <3>2. stack[1] \in Frame
      BY <1>3, <3>1, ElementOfSeq
    <3>3. stack[1].returns = FALSE
      BY <2>1, <3>2 DEF Frame
    <3>4. QED
      BY <1>5, <1>8, <3>3, SameFirst
  <2>3. QED
    BY <2>2, RepeatsDoubled
<1>10. QED
  BY <1>1, <1>3, <1>5, <1>6, <1>7, <1>8, <1>9, MarkSteps

\* A return, and the end of a function, call for what is deferred.
LEMMA DefersMarks ==
  ASSUME Inv, ShapeInv, MarkInv, Running, fn' = fn, code' = code, insert' = insert,
         defer_blocks' = defer_blocks,
         Steps(stack, stack', Len(stack) + 1, Call("defers", 0, 0, 0)),
         stack[1].returns => Len(stack) = 1
  PROVE  MarkInv'
<1>1. PICK f : f = Call("defers", 0, 0, 0)
  OBVIOUS
<1>2. f \in Frame /\ f.at = "defers" /\ f.i = 1
  BY <1>1 DEF Call, Frame
<1>3. IsFunction(fn) /\ Len(code) \in Nat /\ code \in Seq(Instr) /\ Len(stack) \in Nat \ {0}
  BY Types, TopOK DEF Inv, TypeOK
<1>4. Extends(code, code') /\ code' \in Seq(Instr) /\ Covers(defer_blocks, defer_blocks')
  BY <1>3, NoMore DEF Covers
<1>5. /\ PassedOK(fn, code', defer_blocks', f) /\ LoopClosed(fn, code', insert', f)
      /\ \A lo : ThenPassed(fn, code', defer_blocks', lo, f)
  BY <1>2, <1>3, StartMarks
<1>6. Repeats(fn, code', insert', defer_blocks', stack')
  <2>1. SUFFICES ASSUME stack'[1].returns PROVE Repeats(fn, code, insert, defer_blocks, stack')
    BY RepeatsDoubled
  <2>2. stack'[1] = stack[1]
    BY <1>3 DEF Steps
  <2>3. Len(stack') = 2 /\ stack'[2] = f
    BY <1>1, <1>3, <2>1, <2>2 DEF Steps
  <2>4. Closed(code, insert) \/ Doubled(code)
    BY <2>1, <2>2 DEF MarkInv, Repeats
  <2>5. \A k \in 1 .. Len(defer_blocks) : ~(k < stack'[2].i)
    BY <1>2, <2>3
  <2>6. ~(Len(stack') >= 3) /\ ~(Len(stack') >= 4)
    BY <2>3
  <2>7. QED
    BY <2>4, <2>5, <2>6, Zenon DEF Repeats
<1>7. QED
  BY <1>1, <1>4, <1>5, <1>6, MarkSteps

LEMMA ReturnStmtMarks ==
  ASSUME Inv, ShapeInv, MarkInv, PlainHere, ReturnStmt, Running'
  PROVE  MarkInv'
<1>1. /\ InBody /\ Running /\ Top.body \in LiveBodies(fn, 1) /\ IsFunction(fn)
      /\ Steps(stack, stack', Len(stack) + 1, Call("defers", 0, 0, 0))
  BY ReturnMoves DEF Inv, TypeOK
<1>2. fn' = fn /\ code' = code /\ insert' = insert /\ defer_blocks' = defer_blocks
  BY DEF ReturnStmt
<1>3. Top.body \notin InDeferred(fn)
  BY <1>1, LiveOrDeferred
<1>4. ~stack[1].returns
  BY <1>1, <1>3, NotRepeating
<1>5. QED
  BY <1>1, <1>2, <1>4, DefersMarks

LEMMA BodyEndMarks ==
  ASSUME Inv, ShapeInv, MarkInv, BodyEnd, Running'
  PROVE  MarkInv'
<1>1. /\ Running /\ Len(stack) = 1
      /\ Steps(stack, stack', Len(stack) + 1, Call("defers", 0, 0, 0))
  <2>1. Running /\ Len(stack) = 1 /\ Steps(stack, stack', 2, Call("defers", 0, 0, 0))
    BY BodyEndMoves
  <2>2. Len(stack) + 1 = 2
    BY <2>1
  <2>3. QED
    BY <2>1, <2>2
<1>2. fn' = fn /\ code' = code /\ insert' = insert /\ defer_blocks' = defer_blocks
  BY DEF BodyEnd
<1>3. QED
  BY <1>1, <1>2, DefersMarks

LEMMA DeferredMarks ==
  ASSUME Inv, ShapeInv, MarkInv, DeferredBody, Running'
  PROVE  MarkInv'
<1>1. fn' = fn /\ code' = code /\ insert' = insert /\ defer_blocks' = defer_blocks
  BY DEF DeferredBody
<1>2. PICK f : f = Call("deferred", defer_blocks[Top.i], 0, 0)
  OBVIOUS
<1>3. /\ Running /\ Top.at = "defers" /\ f \in Frame /\ f.at = "deferred" /\ f.i = 1
      /\ f.body \in InDeferred(fn) /\ Steps(stack, stack', Len(stack) + 1, f)
  BY <1>2, DeferredMoves
<1>4. /\ IsFunction(fn) /\ Len(code) \in Nat /\ code \in Seq(Instr) /\ Len(stack) \in Nat \ {0}
      /\ Top = stack[Len(stack)]
  BY <1>3, Types, TopOK DEF Inv, TypeOK
<1>5. f.body \in 1 .. Len(fn)
  BY <1>3, <1>4, DeferredStep
<1>6. Extends(code, code') /\ code' \in Seq(Instr) /\ Covers(defer_blocks, defer_blocks')
  BY <1>1, <1>4, NoMore DEF Covers
<1>7. /\ PassedOK(fn, code', defer_blocks', f) /\ LoopClosed(fn, code', insert', f)
      /\ \A lo : ThenPassed(fn, code', defer_blocks', lo, f)
  BY <1>3, <1>4, <1>5, StartMarks
<1>8. Repeats(fn, code', insert', defer_blocks', stack')
  <2>1. SUFFICES ASSUME stack'[1].returns PROVE Repeats(fn, code, insert, defer_blocks, stack')
    BY <1>1, RepeatsDoubled
  <2>2. stack'[1] = stack[1]
    BY <1>3, <1>4 DEF Steps
  <2>3. /\ \A j \in 1 .. Len(stack) : j >= 3 => stack[j].at # "defers"
        /\ stack[1].at = "function"
        /\ Repeats(fn, code, insert, defer_blocks, stack)
    BY <1>3, <2>1, <2>2, Repeating DEF MarkInv
  <2>4. Len(stack) = 2
    <3>1. Len(stack) \in 1 .. Len(stack)
      BY <1>4
    <3>2. ~(Len(stack) >= 3) /\ Len(stack) # 1
      BY <1>3, <1>4, <2>3, <3>1
    <3>3. QED
      BY <1>4, <3>2, Heights, Zenon
  <2>5. Len(stack') = 3 /\ stack'[2] = stack[2] /\ stack'[3] = f
    BY <1>3, <2>4 DEF Steps
  <2>6. Closed(code, insert) \/ Doubled(code)
    BY <2>1, <2>2, <2>3 DEF Repeats
  <2>7. \A k \in 1 .. Len(defer_blocks) :
          k < stack'[2].i /\ GeneratesCode(fn, defer_blocks[k]) => Doubled(code)
    BY <2>1, <2>2, <2>3, <2>4, <2>5 DEF Repeats
  <2>8. \A i \in 1 .. Len(fn[stack'[3].body]) : ~(i < stack'[3].i)
    BY <1>3, <2>5
  <2>9. ~(Len(stack') >= 4)
    BY <2>5
  <2>10. QED
    BY <2>6, <2>7, <2>8, <2>9, Zenon DEF Repeats
<1>9. QED
  BY <1>1, <1>3, <1>6, <1>7, <1>8, MarkSteps

\* An if or a loop begins.
LEMMA EntersMarks ==
  ASSUME Inv, ShapeInv, MarkInv, InBody, fn' = fn, defer_blocks' = defer_blocks,
         code' = code \o <<Br(insert, blocks + 1), CondBr(blocks + 1, Name, blocks + 2, blocks + 3)>>,
         NEW f \in Frame, f.at \in {"then", "loop"}, f.i = 1, f.body = This.body,
         This.op \in {"if", "ifelse", "while"},
         Steps(stack, stack', Len(stack) + 1, f)
  PROVE  MarkInv'
<1>1. /\ IsFunction(fn) /\ Running /\ Len(code) \in Nat /\ Len(stack) \in Nat \ {0}
  BY Types, TopOK DEF Inv, TypeOK, InBody
<1>2. /\ Extends(code, code') /\ code' \in Seq(Instr)
      /\ Closed(code, insert) \/ Doubled(code) => Doubled(code')
  BY EmitsTwo
<1>3. Covers(defer_blocks, defer_blocks')
  BY DEF Covers
<1>4. f.body \in 1 .. Len(fn)
  BY ThisOK DEF Nests
<1>5. /\ PassedOK(fn, code', defer_blocks', f) /\ LoopClosed(fn, code', insert', f)
      /\ \A lo : ThenPassed(fn, code', defer_blocks', lo, f)
  BY <1>1, <1>4, StartMarks
<1>6. Repeats(fn, code', insert', defer_blocks', stack')
  <2>1. SUFFICES ASSUME stack'[1].returns PROVE Doubled(code')
    BY RepeatsDoubled
  <2>2. stack'[1] = stack[1]
    BY <1>1 DEF Steps
  <2>3. QED
    BY <1>1, <1>2, <2>1, <2>2, RepeatsAre DEF MarkInv
<1>7. QED
  BY <1>1, <1>2, <1>3, <1>5, <1>6, MarkSteps

LEMMA IfMarks ==
  ASSUME Inv, ShapeInv, MarkInv, IfExpr, Running'
  PROVE  MarkInv'
<1>1. fn' = fn /\ defer_blocks' = defer_blocks
  BY DEF IfExpr
<1>2. /\ InBody /\ This.op \in {"if", "ifelse"}
      /\ code' = code \o <<Br(insert, blocks + 1), CondBr(blocks + 1, Name, blocks + 2, blocks + 3)>>
  BY IfMoves
<1>3. PICK f \in Frame : /\ f.at = "then" /\ f.body = This.body /\ f.i = 1
                         /\ Steps(stack, stack', Len(stack) + 1, f)
  BY IfMoves, Zenon
<1>4. QED
  BY <1>1, <1>2, <1>3, EntersMarks

LEMMA WhileMarks ==
  ASSUME Inv, ShapeInv, MarkInv, WhileExpr, Running'
  PROVE  MarkInv'
<1>1. fn' = fn /\ defer_blocks' = defer_blocks
  BY DEF WhileExpr
<1>2. /\ InBody /\ This.op = "while"
      /\ code' = code \o <<Br(insert, blocks + 1), CondBr(blocks + 1, Name, blocks + 2, blocks + 3)>>
  BY WhileMoves
<1>3. PICK f \in Frame : /\ f.at = "loop" /\ f.body = This.body /\ f.i = 1
                         /\ Steps(stack, stack', Len(stack) + 1, f)
  BY WhileMoves, Zenon
<1>4. QED
  BY <1>1, <1>2, <1>3, EntersMarks

\* A frame above what is deferred: a block has been ended twice already.
LEMMA HighDoubled ==
  ASSUME Inv, ShapeInv, MarkInv, Running, stack[1].returns,
         Top.at \in {"then", "else", "loop"}
  PROVE  Doubled(code)
<1>1. /\ Len(stack) \in Nat \ {0} /\ Top = stack[Len(stack)]
      /\ stack[1].at = "function"
      /\ Len(stack) >= 2 => stack[2].at = "defers"
      /\ Len(stack) >= 3 => stack[3].at = "deferred"
  BY Repeating, TopOK
<1>2. Len(stack) # 1
  BY <1>1
<1>3. Len(stack) # 2
  <2>1. SUFFICES ASSUME Len(stack) = 2 PROVE FALSE
    OBVIOUS
  <2>2. Len(stack) >= 2 /\ Top = stack[2]
    BY <1>1, <2>1
  <2>3. QED
    BY <1>1, <2>2
<1>4. Len(stack) # 3
  <2>1. SUFFICES ASSUME Len(stack) = 3 PROVE FALSE
    OBVIOUS
  <2>2. Len(stack) >= 3 /\ Top = stack[3]
    BY <1>1, <2>1
  <2>3. QED
    BY <1>1, <2>2
<1>5. Len(stack) >= 4
  BY <1>1, <1>2, <1>3, <1>4, Heights, Zenon
<1>6. QED
  BY <1>5, RepeatsAre DEF MarkInv

\* An if or a loop ends.
LEMMA LeavesMarks ==
  ASSUME Inv, ShapeInv, MarkInv, Running, Top.at \in {"then", "else", "loop"},
         Top.i > Len(Body), fn' = fn, defer_blocks' = defer_blocks,
         Extends(code, code'), code' \in Seq(Instr),
         Top.at = "then" => Top.orelse = 0,
         Top.at = "loop" /\ Returns(fn, Top.body) # {} => Doubled(code'),
         NEW v \in Nat, Steps(stack, stack', Len(stack) - 1, After(Caller, v))
  PROVE  MarkInv'
<1>1. /\ Len(code) \in Nat /\ Len(code') \in Nat /\ Len(stack) \in Nat /\ Len(stack) > 1
      /\ Caller \in Frame
  BY Types, TopOK
<1>2. Covers(defer_blocks, defer_blocks')
  BY DEF Covers
<1>3. PICK f : f = After(Caller, v)
  OBVIOUS
<1>4. /\ PassedOK(fn, code', defer_blocks', f) /\ LoopClosed(fn, code', insert', f)
      /\ Len(stack) > 2 => ThenPassed(fn, code', defer_blocks', stack[Len(stack) - 2], f)
  BY <1>1, <1>2, <1>3, CallerMarks
<1>5. PICK n : n = Len(stack) - 1
  OBVIOUS
<1>6. Steps(stack, stack', n, f)
  BY <1>3, <1>5
<1>7. n > 1 => Len(stack) > 2 /\ n - 1 = Len(stack) - 2
  BY <1>1, <1>5
<1>8. n > 1 => ThenPassed(fn, code', defer_blocks', stack[n - 1], f)
  BY <1>4, <1>7
<1>9. n = 1 => f.returns = stack[1].returns
  <2>1. f.returns = Caller.returns
    BY <1>1, <1>3, AfterIs
  <2>2. QED
    BY <1>5, <2>1 DEF Caller
<1>10. Repeats(fn, code', insert', defer_blocks', stack')
  <2>1. SUFFICES ASSUME stack'[1].returns PROVE Doubled(code')
    BY RepeatsDoubled
  <2>2. stack'[1].returns = stack[1].returns
    BY <1>6, <1>9, SameFirst
  <2>3. Doubled(code)
    BY <2>1, <2>2, HighDoubled
  <2>4. QED
    BY <1>1, <2>3, ExtendsKeeps
<1>11. QED
  BY <1>2, <1>4, <1>6, <1>8, <1>10, MarkSteps

LEMMA WhileDoneMarks ==
  ASSUME Inv, ShapeInv, MarkInv, WhileDone
  PROVE  MarkInv'
<1>1. fn' = fn /\ defer_blocks' = defer_blocks
  BY DEF WhileDone
<1>2. /\ Running /\ Top.at = "loop" /\ Top.i > Len(Body) /\ Top \in Frame
  BY WhileDoneMoves, TopOK
<1>3. PICK w \in Nat : Steps(stack, stack', Len(stack) - 1, After(Caller, w))
  BY <1>2, WhileDoneMoves DEF Frame
<1>4. /\ Extends(code, code') /\ code' \in Seq(Instr)
      /\ Closed(code, insert) \/ Doubled(code) => Doubled(code')
  BY WhileDoneEmits
<1>5. Returns(fn, Top.body) # {} => Closed(code, insert)
  BY <1>2 DEF MarkInv, LoopClosed, Body
<1>6. QED
  BY <1>1, <1>2, <1>3, <1>4, <1>5, LeavesMarks

LEMMA IfDoneMarks ==
  ASSUME Inv, ShapeInv, MarkInv, IfDone, Running'
  PROVE  MarkInv'
<1>1. fn' = fn /\ defer_blocks' = defer_blocks
  BY DEF IfDone, Merge
<1>2. /\ Running /\ Top.at = "then" /\ Top.orelse = 0 /\ Top.i > Len(Body) /\ code' = BranchEnd
      /\ Steps(stack, stack', Len(stack) - 1, After(Caller, 0))
  BY IfDoneMoves
<1>3. Extends(code, code') /\ code' \in Seq(Instr)
  BY <1>2, EmitsEnd
<1>4. 0 \in Nat
  OBVIOUS
<1>5. QED
  BY <1>1, <1>2, <1>3, <1>4, LeavesMarks

LEMMA IfElseDoneMarks ==
  ASSUME Inv, ShapeInv, MarkInv, IfElseDone, Running'
  PROVE  MarkInv'
<1>1. fn' = fn /\ defer_blocks' = defer_blocks
  BY DEF IfElseDone, Merge
<1>2. Running /\ Top.at = "else" /\ Top.i > Len(Body)
  BY IfElseDoneMoves
<1>3. Extends(code, code') /\ code' \in Seq(Instr)
  BY IfElseEmits
<1>4. \E w \in Nat : Steps(stack, stack', Len(stack) - 1, After(Caller, w))
  <2>1. 0 \in Nat /\ Len(code') \in Nat
    BY <1>3
  <2>2. QED
    BY <2>1, IfElseDoneMoves, Zenon
<1>5. PICK w \in Nat : Steps(stack, stack', Len(stack) - 1, After(Caller, w))
  BY <1>4
<1>6. QED
  BY <1>1, <1>2, <1>3, <1>5, LeavesMarks

\* The first branch has marked all that it has when the second is begun.
LEMMA ThenDoneMarks ==
  ASSUME Inv, ShapeInv, MarkInv, ThenDone
  PROVE  MarkInv'
<1>1. /\ fn' = fn /\ defer_blocks' = defer_blocks /\ Running /\ Top.at = "then"
      /\ Top.i > Len(Body) /\ code' = BranchEnd /\ Top.orelse # 0 /\ IsFunction(fn)
  BY DEF ThenDone, BodyDone, Body, Inv, TypeOK
<1>2. Extends(code, code') /\ code' \in Seq(Instr)
  BY <1>1, EmitsEnd
<1>3. /\ Len(code) \in Nat /\ Len(code') \in Nat /\ Len(stack) \in Nat /\ Len(stack) > 1
      /\ Covers(defer_blocks, defer_blocks') /\ Caller = stack[Len(stack) - 1]
  BY <1>1, <1>2, Types, TopOK DEF Covers, Caller
<1>4. PICK f : f = [Call("else", fn[Caller.body][Caller.i].orelse, Top.after, 0) EXCEPT
                      !.thenValue = Top.value, !.thenBlock = insert]
  OBVIOUS
<1>5. /\ f \in Frame /\ f.at = "else" /\ f.i = 1
      /\ f.body \in BodiesOf(fn, <<Caller.body, Caller.i>>)
      /\ Steps(stack, stack', Len(stack), f)
  BY <1>4, ElseShape
<1>6. f.body \in 1 .. Len(fn)
  BY <1>1, <1>5, CallerOK, BodiesLater
<1>7. PassedOK(fn, code', defer_blocks', f) /\ LoopClosed(fn, code', insert', f)
  BY <1>1, <1>5, <1>6, StartMarks
<1>8. ThenPassed(fn, code', defer_blocks', Caller, f)
  <2>1. Top.body = fn[Caller.body][Caller.i].body
    BY <1>1, TopShape DEF WaitsFor
  <2>2. Caller.body \notin InDeferred(fn) => AllMarked(fn, code', defer_blocks', Top.body)
    BY <1>1, <1>2, <1>3, CallerMarks
  <2>3. QED
    BY <2>1, <2>2 DEF ThenPassed
<1>9. Repeats(fn, code', insert', defer_blocks', stack')
  <2>1. SUFFICES ASSUME stack'[1].returns PROVE Doubled(code')
    BY RepeatsDoubled
  <2>2. stack'[1] = stack[1]
    BY <1>3, <1>5 DEF Steps
  <2>3. Doubled(code)
    BY <1>1, <2>1, <2>2, HighDoubled
  <2>4. QED
    BY <1>2, <1>3, <2>3, ExtendsKeeps
<1>10. QED
  BY <1>1, <1>2, <1>3, <1>5, <1>7, <1>8, <1>9, MarkSteps

\* A deferred body is done.
LEMMA DeferredDoneMarks ==
  ASSUME Inv, ShapeInv, MarkInv, DeferredDone
  PROVE  MarkInv'
<1>1. /\ fn' = fn /\ code' = code /\ insert' = insert /\ defer_blocks' = defer_blocks
      /\ Running /\ Top.at = "deferred" /\ Top.i > Len(Body)
  BY DEF DeferredDone, BodyDone, Body
<1>2. /\ Caller \in Frame /\ Caller.at = "defers"
      /\ Len(stack) > 1 /\ Caller = stack[Len(stack) - 1]
      /\ Steps(stack, stack', Len(stack) - 1, After(Caller, 0))
  BY DeferredDoneShape
<1>3. /\ code \in Seq(Instr) /\ Len(code) \in Nat /\ Len(stack) \in Nat \ {0}
      /\ Top = stack[Len(stack)] /\ Top \in Frame
  BY <1>1, Types, TopOK
<1>4. Extends(code, code') /\ code' \in Seq(Instr) /\ Covers(defer_blocks, defer_blocks')
  BY <1>1, <1>3, NoMore DEF Covers
<1>5. PICK f : f = After(Caller, 0)
  OBVIOUS
<1>6. 0 \in Nat
  OBVIOUS
<1>7. /\ f \in Frame /\ f.at = "defers" /\ f.i = Caller.i + 1 /\ f.returns = Caller.returns
  BY <1>2, <1>5, <1>6, AfterIs
<1>8. /\ PassedOK(fn, code', defer_blocks', f) /\ LoopClosed(fn, code', insert', f)
      /\ \A lo : ThenPassed(fn, code', defer_blocks', lo, f)
  BY <1>7, Zenon DEF PassedOK, LoopClosed, ThenPassed
<1>9. Repeats(fn, code', insert', defer_blocks', stack')
  <2>1. SUFFICES ASSUME stack'[1].returns PROVE Repeats(fn, code, insert, defer_blocks, stack')
    BY <1>1, RepeatsDoubled
  <2>2. PICK n : n = Len(stack) - 1
    OBVIOUS
  <2>3. Steps(stack, stack', n, f)
    BY <1>2, <1>5, <2>2
  <2>4. n = 1 => f.returns = stack[1].returns
    BY <1>2, <1>7, <2>2
  <2>5. stack[1].returns
    BY <2>1, <2>3, <2>4, SameFirst
  <2>6. /\ stack[1].at = "function" /\ Len(stack) >= 2 => stack[2].at = "defers"
        /\ Closed(code, insert) \/ Doubled(code)
        /\ Len(stack) >= 2 => \A k \in 1 .. Len(defer_blocks) :
             k < stack[2].i /\ GeneratesCode(fn, defer_blocks[k]) => Doubled(code)
        /\ Len(stack) >= 3 => \A i \in 1 .. Len(fn[stack[3].body]) :
             i < stack[3].i /\ fn[stack[3].body][i].op \notin {"break", "defer"} => Doubled(code)
        /\ Len(stack) >= 4 => Doubled(code)
    BY <1>1, <2>5, Repeating, RepeatsAre DEF MarkInv
  <2>7. Len(stack) # 2
    <3>1. SUFFICES ASSUME Len(stack) = 2 PROVE FALSE
      OBVIOUS
    <3>2. Caller = stack[1]
      BY <1>2, <3>1
    <3>3. QED
      BY <1>1, <2>5, <1>2, <3>2, Repeating
  <2>8. CASE Doubled(code)
    BY <2>8, RepeatsDoubled
  <2>9. CASE ~Doubled(code)
    <3>1. Len(stack) # 1
      BY <1>2, <1>3
    <3>2. Len(stack) = 3
      BY <1>3, <2>6, <2>7, <2>9, <3>1, Heights, Zenon
    <3>3. Len(stack) >= 3 /\ Len(stack) >= 2 /\ Top = stack[3] /\ Caller = stack[2]
      BY <1>2, <1>3, <3>2
    <3>4. Len(stack') = 2 /\ stack'[2] = f
      BY <2>2, <2>3, <3>2 DEF Steps
    <3>5. ASSUME NEW k \in 1 .. Len(defer_blocks), k < stack'[2].i,
                 GeneratesCode(fn, defer_blocks[k])
          PROVE  FALSE
      <4>1. k < Caller.i \/ k = Caller.i
        <5>1. Len(defer_blocks) \in Nat
          BY DEF Inv, TypeOK
        <5>2. Caller.i \in Nat
          BY <1>2 DEF Frame
        <5>3. QED
          BY <1>7, <3>4, <3>5, <5>1, <5>2
      <4>2. k = Caller.i
        BY <2>6, <2>9, <3>3, <3>5, <4>1
      <4>3. defer_blocks[k] = Top.body
        BY <1>1, <4>2, TopShape DEF WaitsFor
      <4>4. PICK i \in 1 .. Len(fn[Top.body]) : fn[Top.body][i].op \notin {"break", "defer"}
        BY <3>5, <4>3 DEF GeneratesCode
      <4>5. Len(fn[Top.body]) \in Nat
        <5>1. IsFunction(fn)
          BY DEF Inv, TypeOK
        <5>2. Top.body \in 1 .. Len(fn)
          BY <1>1, TopOK DEF FrameOK
        <5>3. QED
          BY <5>1, <5>2, StatementsOf
      <4>6. i < Top.i
        BY <1>1, <1>3, <4>5 DEF Body, Frame
      <4>7. QED
        BY <2>6, <2>9, <3>3, <4>4, <4>6
    <3>6. ~(Len(stack') >= 3) /\ ~(Len(stack') >= 4)
      BY <3>4
    <3>7. QED
      BY <2>6, <3>5, <3>6, Zenon DEF Repeats
  <2>10. QED
    BY <2>8, <2>9
<1>10. QED
  BY <1>1, <1>2, <1>4, <1>5, <1>8, <1>9, MarkSteps

\* A return is built: its body is done, and was gone through up to it.
LEMMA ReturnBuiltMarks ==
  ASSUME Inv, ShapeInv, MarkInv, ReturnBuilt
  PROVE  MarkInv'
<1>1. /\ fn' = fn /\ insert' = insert /\ defer_blocks' = defer_blocks /\ IsFunction(fn)
      /\ Running /\ Top.at = "defers"
  BY DEF ReturnBuilt, DefersDone, InDefers, Inv, TypeOK
<1>2. Extends(code, code') /\ code' \in Seq(Instr) /\ Closed(code', insert)
  BY ReturnEmits
<1>3. PICK f : f = [Caller EXCEPT !.i = Len(fn[Caller.body]) + 1, !.value = 0,
                                  !.returns = Caller.at \notin {"loop", "deferred"}]
  OBVIOUS
<1>4. /\ Caller \in Frame /\ Caller.at \in {"function", "then", "else", "loop"}
      /\ Caller = stack[Len(stack) - 1] /\ Len(stack) > 1
      /\ Caller.body \in 1 .. Len(fn) /\ Caller.i \in 1 .. Len(fn[Caller.body])
      /\ fn[Caller.body][Caller.i].op = "return"
      /\ f \in Frame /\ f.at = Caller.at /\ f.body = Caller.body
      /\ f.i = Len(fn[Caller.body]) + 1 /\ f.value = 0
      /\ Steps(stack, stack', Len(stack) - 1, f)
  BY <1>3, ReturnShape
<1>5. /\ Len(code') \in Nat /\ Len(code) \in Nat /\ Covers(defer_blocks, defer_blocks')
      /\ Len(stack) \in Nat /\ Len(fn[Caller.body]) \in Nat /\ Top = stack[Len(stack)]
  BY <1>1, <1>2, <1>4, Types, TopOK, StatementsOf, SMTT(30) DEF Covers
<1>6. /\ PassedOK(fn, code', defer_blocks', Caller)
      /\ Len(stack) > 2 => ThenPassed(fn, code', defer_blocks', stack[Len(stack) - 2], Caller)
  BY <1>1, <1>2, <1>4, <1>5, TopMarks
<1>7. PassedOK(fn, code', defer_blocks', f)
  <2>1. SUFFICES ASSUME f.body \notin InDeferred(fn), NEW i \in 1 .. Len(fn[f.body]),
                        ~Behind(fn, <<f.body, i>>)
                 PROVE  IF fn[f.body][i].op = "defer"
                        THEN \E k \in 1 .. Len(defer_blocks') : defer_blocks'[k] = fn[f.body][i].body
                        ELSE \A b \in BodiesOf(fn, <<f.body, i>>) :
                               AllMarked(fn, code', defer_blocks', b)
    BY Zenon DEF PassedOK
  <2>2. PICK lo : lo = Caller
    OBVIOUS
  <2>3. /\ f.body = lo.body /\ lo.i \in 1 .. Len(fn[f.body]) /\ Len(fn[f.body]) \in Nat
        /\ fn[f.body][lo.i].op = "return" /\ f.body \in 1 .. Len(fn)
    BY <1>4, <1>5, <2>2
  <2>4. lo.i \in Returns(fn, f.body)
    BY <2>3 DEF Returns
  <2>5. ~(lo.i < i)
    BY <2>1, <2>4 DEF Behind
  <2>6. CASE i = lo.i
    <3>1. fn[f.body][i].op \notin Nests /\ fn[f.body][i].op # "defer"
      BY <2>3, <2>6 DEF Nests
    <3>2. BodiesOf(fn, <<f.body, i>>) = {}
      BY <1>1, <2>1, <2>3, <3>1, BodiesAre
    <3>3. QED
      BY <3>1, <3>2
  <2>7. CASE i # lo.i
    <3>1. i < lo.i
      BY <2>1, <2>3, <2>5, <2>7
    <3>2. PassedOK(fn, code', defer_blocks', lo) /\ lo.at # "defers"
      BY <1>4, <1>6, <2>2
    <3>3. QED
      BY <2>1, <2>3, <3>1, <3>2, Zenon DEF PassedOK
  <2>8. QED
    BY <2>6, <2>7
<1>8. LoopClosed(fn, code', insert', f)
  BY <1>1, <1>2 DEF LoopClosed
<1>9. PICK n : n = Len(stack) - 1
  OBVIOUS
<1>10. Steps(stack, stack', n, f)
  BY <1>4, <1>9
<1>11. n > 1 => ThenPassed(fn, code', defer_blocks', stack[n - 1], f)
  <2>1. n > 1 => Len(stack) > 2 /\ n - 1 = Len(stack) - 2
    BY <1>5, <1>9
  <2>2. QED
    BY <1>4, <1>6, <2>1, SameThen
<1>12. Repeats(fn, code', insert', defer_blocks', stack')
  <2>1. CASE n = 1
    <3>1. Len(stack') = 1
      BY <1>10, <2>1 DEF Steps
    <3>2. ~(Len(stack') >= 2) /\ ~(Len(stack') >= 3) /\ ~(Len(stack') >= 4)
      BY <3>1
    <3>3. QED
      BY <1>1, <1>2, <3>2, Zenon DEF Repeats
  <2>2. CASE n # 1
    <3>1. SUFFICES ASSUME stack'[1].returns PROVE FALSE
      BY RepeatsDoubled
    <3>2. stack[1].returns
      BY <1>10, <2>2, <3>1, SameFirst
    <3>3. \A j \in 1 .. Len(stack) : j >= 3 => stack[j].at # "defers"
      BY <1>1, <3>2, Repeating
    <3>4. Len(stack) \in 1 .. Len(stack) /\ Len(stack) >= 3
      BY <1>4, <1>5, <1>9, <2>2
    <3>5. QED
      BY <1>1, <1>5, <3>3, <3>4
  <2>3. QED
    BY <2>1, <2>2
<1>13. QED
  BY <1>1, <1>2, <1>5, <1>7, <1>8, <1>10, <1>11, <1>12, MarkSteps

\* Every step keeps the marks.
LEMMA MarkNext ==
  ASSUME Inv, ShapeInv, MarkInv, PlainHere, Generate
  PROVE  MarkInv'
<1>1. SUFFICES ASSUME Running' PROVE MarkInv'
  BY Zenon DEF MarkInv
<1>2. ~FunctionEnd
  BY <1>1 DEF FunctionEnd, Running
<1>3. CASE CallStmt
  BY <1>3, CallMarks
<1>4. CASE BreakStmt
  BY <1>4, BreakMarks
<1>5. CASE DeferStmt
  BY <1>1, <1>5, DeferMarks
<1>6. CASE ReturnStmt
  BY <1>1, <1>6, ReturnStmtMarks
<1>7. CASE IfExpr
  BY <1>1, <1>7, IfMarks
<1>8. CASE ThenDone
  BY <1>8, ThenDoneMarks
<1>9. CASE IfDone
  BY <1>1, <1>9, IfDoneMarks
<1>10. CASE IfElseDone
  BY <1>1, <1>10, IfElseDoneMarks
<1>11. CASE WhileExpr
  BY <1>1, <1>11, WhileMarks
<1>12. CASE WhileDone
  BY <1>12, WhileDoneMarks
<1>13. CASE DeferredBody
  BY <1>1, <1>13, DeferredMarks
<1>14. CASE DeferredDone
  BY <1>14, DeferredDoneMarks
<1>15. CASE ReturnBuilt
  BY <1>15, ReturnBuiltMarks
<1>16. CASE BodyEnd
  BY <1>1, <1>16, BodyEndMarks
<1>17. QED
  BY <1>2, <1>3, <1>4, <1>5, <1>6, <1>7, <1>8, <1>9, <1>10, <1>11, <1>12, <1>13, <1>14,
     <1>15, <1>16 DEF Generate

(* Where instructions are, and where they branch to *)

\* One more instruction
LEMMA TargetsMore ==
  ASSUME NEW c \in Seq(Instr), NEW x \in Instr, NEW n \in Nat, NEW m \in Nat, n <= m,
         Targets(c, n), x.block \in 1 .. m, \A k \in 1 .. Len(x.to) : x.to[k] \in 1 .. m
  PROVE  Targets(Append(c, x), m)
<1>1. PICK e : e = Append(c, x)
  OBVIOUS
<1>2. /\ Len(e) = Len(c) + 1 /\ Len(c) \in Nat /\ e[Len(e)] = x
      /\ \A i \in 1 .. Len(c) : e[i] = c[i]
  BY <1>1, OneMore
<1>3. ASSUME NEW i \in 1 .. Len(e)
      PROVE  e[i].block \in 1 .. m /\ \A k \in 1 .. Len(e[i].to) : e[i].to[k] \in 1 .. m
  <2>1. CASE i = Len(e)
    BY <1>2, <2>1
  <2>2. CASE i # Len(e)
    <3>1. i \in 1 .. Len(c)
      BY <1>2, <2>2
    <3>2. e[i] = c[i]
      BY <1>2, <3>1
    <3>3. /\ c[i].block \in 1 .. n
          /\ \A k \in 1 .. Len(c[i].to) : c[i].to[k] \in 1 .. n
      BY <3>1 DEF Targets
    <3>4. \A z \in 1 .. n : z \in 1 .. m
      OBVIOUS
    <3>5. QED
      BY <3>2, <3>3, <3>4, Zenon
  <2>3. QED
    BY <2>1, <2>2
<1>4. QED
  BY <1>1, <1>3 DEF Targets

LEMMA TargetSteps ==
  ASSUME Inv, Running, TargetInv, blocks' \in Nat, blocks <= blocks', Targets(code', blocks'),
         NEW n, NEW f, Steps(stack, stack', n, f), FrameRest(blocks', f)
  PROVE  TargetInv'
<1>1. ASSUME NEW j \in 1 .. Len(stack')
      PROVE  FrameRest(blocks', stack'[j])
  <2>1. CASE j = n
    BY <2>1 DEF Steps
  <2>2. CASE j # n
    <3>1. stack'[j] = stack[j] /\ j \in 1 .. Len(stack)
      <4>1. Len(stack) \in Nat
        BY TopOK
      <4>2. QED
        BY <2>2, <4>1 DEF Steps
    <3>2. FrameRest(blocks, stack[j])
      BY <3>1 DEF TargetInv
    <3>3. blocks \in Nat
      BY Types
    <3>4. QED
      BY <3>1, <3>2, <3>3 DEF FrameRest
  <2>3. QED
    BY <2>1, <2>2
<1>2. QED
  BY <1>1 DEF TargetInv

\* The branch to the block after an if
LEMMA EndIs ==
  ASSUME Inv, Running, Top.at \in {"then", "else"}
  PROVE  \/ Top.returns /\ BranchEnd = code
         \/ /\ ~Top.returns
            /\ \E x \in Instr : /\ x.op = "br" /\ x.block = insert /\ x.to = <<Top.after>>
                                /\ x.args = <<>> /\ BranchEnd = Append(code, x)
<1>1. CASE Top.returns
  BY <1>1 DEF BranchEnd
<1>2. CASE ~Top.returns
  <2>1. PICK x : x = Br(insert, Top.after)
    OBVIOUS
  <2>2. insert \in Nat /\ Top.after \in Nat
    BY TopOK DEF Frame, Inv, TypeOK
  <2>3. x \in Instr /\ x.op = "br" /\ x.block = insert /\ x.to = <<Top.after>> /\ x.args = <<>>
    BY <2>1, <2>2, BrIs
  <2>4. BranchEnd = Append(code, x)
    BY <1>2, <2>1 DEF BranchEnd
  <2>5. QED
    BY <1>2, <2>3, <2>4
<1>3. QED
  BY <1>1, <1>2

\* The two instructions that an if or a loop begins with
LEMMA BranchAndCondition ==
  ASSUME NEW b \in Nat, NEW cond \in Nat, NEW yes \in Nat, NEW no \in Nat, NEW st \in Seq(Nat)
  PROVE  \E x, z \in Instr :
           /\ x.op = "br" /\ x.block = b /\ x.to = <<cond>> /\ x.args = <<>>
           /\ z.op = "condbr" /\ z.block = cond /\ z.to = <<yes, no>> /\ z.args = <<>>
           /\ x = Br(b, cond) /\ z = CondBr(cond, st, yes, no)
<1>1. PICK x : x = Br(b, cond)
  OBVIOUS
<1>2. PICK z : z = CondBr(cond, st, yes, no)
  OBVIOUS
<1>3. x \in Instr /\ x.op = "br" /\ x.block = b /\ x.to = <<cond>> /\ x.args = <<>>
  BY <1>1, BrIs
<1>4. /\ z \in Instr /\ z.op = "condbr" /\ z.block = cond /\ z.to = <<yes, no>>
      /\ z.args = <<>>
  BY <1>2, CondBrIs
<1>5. QED
  BY <1>1, <1>2, <1>3, <1>4

LEMMA TwoAre ==
  ASSUME Inv, InBody,
         code' = code \o <<Br(insert, blocks + 1), CondBr(blocks + 1, Name, blocks + 2, blocks + 3)>>
  PROVE  \E x, z \in Instr :
           /\ x.op = "br" /\ x.block = insert /\ x.to = <<blocks + 1>> /\ x.args = <<>>
           /\ z.op = "condbr" /\ z.block = blocks + 1 /\ z.to = <<blocks + 2, blocks + 3>>
           /\ z.args = <<>>
           /\ code' = Append(Append(code, x), z)
<1> DEFINE Are(b, cond, yes, no, st) ==
             \E x, z \in Instr :
               /\ x.op = "br" /\ x.block = b /\ x.to = <<cond>> /\ x.args = <<>>
               /\ z.op = "condbr" /\ z.block = cond /\ z.to = <<yes, no>> /\ z.args = <<>>
               /\ x = Br(b, cond) /\ z = CondBr(cond, st, yes, no)
<1>1. code \in Seq(Instr) /\ insert \in Nat /\ blocks \in Nat /\ Name \in Seq(Nat)
  BY Types, ThisOK DEF Inv, TypeOK
<1>2. blocks + 1 \in Nat /\ blocks + 2 \in Nat /\ blocks + 3 \in Nat
  BY <1>1
<1>3. \A b, cond, yes, no \in Nat, st \in Seq(Nat) : Are(b, cond, yes, no, st)
  BY BranchAndCondition
<1>4. Are(insert, blocks + 1, blocks + 2, blocks + 3, Name)
  <2> HIDE DEF Are
  <2> QED
    BY <1>1, <1>2, <1>3
<1>5. PICK x, z \in Instr :
           /\ x.op = "br" /\ x.block = insert /\ x.to = <<blocks + 1>> /\ x.args = <<>>
           /\ z.op = "condbr" /\ z.block = blocks + 1 /\ z.to = <<blocks + 2, blocks + 3>>
           /\ z.args = <<>>
           /\ x = Br(insert, blocks + 1)
           /\ z = CondBr(blocks + 1, Name, blocks + 2, blocks + 3)
  BY <1>4, Zenon
<1>6. code' = code \o <<x, z>>
  BY <1>5, Zenon
<1>7. code' = Append(Append(code, x), z)
  BY <1>1, <1>6, TwoMore
<1>8. QED
  BY <1>5, <1>7

LEMMA EndTargets ==
  ASSUME Inv, Running, TargetInv, Top.at \in {"then", "else"}
  PROVE  Targets(BranchEnd, blocks)
<1>1. /\ blocks \in Nat /\ insert \in 1 .. blocks /\ Top.after \in 1 .. blocks
      /\ code \in Seq(Instr) /\ Targets(code, blocks)
  BY TopOK, Types DEF Inv, TypeOK, FrameOK, TargetInv
<1>2. CASE Top.returns
  BY <1>1, <1>2 DEF BranchEnd
<1>3. CASE ~Top.returns
  <2>1. PICK x \in Instr : /\ x.block = insert /\ x.to = <<Top.after>>
                           /\ BranchEnd = Append(code, x)
    BY <1>3, EndIs
  <2>2. \A k \in 1 .. Len(x.to) : x.to[k] \in 1 .. blocks
    BY <1>1, <2>1
  <2>3. QED
    BY <1>1, <2>1, <2>2, TargetsMore
<1>4. QED
  BY <1>2, <1>3

\* The frames that the actions leave on top of the stack
LEMMA RestKept ==
  ASSUME NEW f \in Frame, NEW v \in Nat, NEW n, FrameRest(n, f)
  PROVE  FrameRest(n, After(f, v))
BY AfterIs DEF FrameRest

LEMMA TopRest ==
  ASSUME Inv, Running, TargetInv
  PROVE  FrameRest(blocks, Top) /\ (Len(stack) > 1 => FrameRest(blocks, Caller))
<1>1. Len(stack) \in Nat \ {0} /\ Top = stack[Len(stack)] /\ Caller = stack[Len(stack) - 1]
  BY TopOK DEF Caller
<1>2. Len(stack) \in 1 .. Len(stack) /\ (Len(stack) > 1 => Len(stack) - 1 \in 1 .. Len(stack))
  BY <1>1
<1>3. QED
  BY <1>1, <1>2 DEF TargetInv

\* Statements without a body, and what leaves the code as it is
LEMMA SameCodeTargets ==
  ASSUME Inv, Running, TargetInv, code' = code, blocks' = blocks,
         NEW n, NEW f, Steps(stack, stack', n, f), FrameRest(blocks, f)
  PROVE  TargetInv'
<1>1. blocks \in Nat /\ Targets(code, blocks)
  BY Types DEF TargetInv
<1>2. QED
  BY <1>1, TargetSteps

LEMMA OneTargets ==
  ASSUME Inv, Running, TargetInv, blocks' \in Nat, blocks <= blocks',
         NEW x \in Instr, code' = Append(code, x), x.block = insert,
         \A k \in 1 .. Len(x.to) : x.to[k] \in 1 .. blocks',
         NEW n, NEW f, Steps(stack, stack', n, f), FrameRest(blocks', f)
  PROVE  TargetInv'
<1>1. /\ blocks \in Nat /\ insert \in 1 .. blocks /\ code \in Seq(Instr) /\ Targets(code, blocks)
  BY Types DEF Inv, TypeOK, TargetInv
<1>2. insert \in 1 .. blocks'
  BY <1>1
<1>3. Targets(code', blocks')
  BY <1>1, <1>2, TargetsMore
<1>4. QED
  BY <1>3, TargetSteps

LEMMA TwoTargets ==
  ASSUME Inv, InBody, TargetInv, blocks' \in Nat, blocks + 3 <= blocks',
         code' = code \o <<Br(insert, blocks + 1), CondBr(blocks + 1, Name, blocks + 2, blocks + 3)>>,
         NEW n, NEW f, Steps(stack, stack', n, f), FrameRest(blocks', f)
  PROVE  TargetInv'
<1>1. /\ blocks \in Nat /\ insert \in 1 .. blocks /\ code \in Seq(Instr) /\ Targets(code, blocks)
      /\ Running
  BY Types DEF Inv, TypeOK, TargetInv, InBody
<1>2. PICK x \in Instr, y \in Instr :
           /\ x.block = insert /\ x.to = <<blocks + 1>>
           /\ y.block = blocks + 1 /\ y.to = <<blocks + 2, blocks + 3>>
           /\ code' = Append(Append(code, x), y)
  BY TwoAre
<1>3. PICK e : e = Append(code, x)
  OBVIOUS
<1>4. e \in Seq(Instr)
  BY <1>1, <1>3, OneMore
<1>5. insert \in 1 .. blocks' /\ \A k \in 1 .. Len(x.to) : x.to[k] \in 1 .. blocks'
  BY <1>1, <1>2
<1>6. Targets(e, blocks')
  <2>1. blocks <= blocks'
    BY <1>1
  <2>2. QED
    BY <1>1, <1>2, <1>3, <1>5, <2>1, TargetsMore
<1>7. blocks + 1 \in 1 .. blocks' /\ \A k \in 1 .. Len(y.to) : y.to[k] \in 1 .. blocks'
  BY <1>1, <1>2
<1>8. Targets(code', blocks')
  <2>1. blocks' <= blocks' /\ code' = Append(e, y) /\ y.block \in 1 .. blocks'
    BY <1>2, <1>3, <1>7
  <2>2. QED
    BY <1>4, <1>6, <1>7, <2>1, TargetsMore
<1>9. blocks <= blocks'
  BY <1>1
<1>10. QED
  BY <1>1, <1>8, <1>9, TargetSteps

LEMMA CallTargets ==
  ASSUME Inv, ShapeInv, TargetInv, CallStmt
  PROVE  TargetInv'
<1>1. Running /\ blocks' = blocks /\ blocks \in Nat
  BY CallMoves, Types DEF CallStmt
<1>2. PICK v \in Nat : Steps(stack, stack', Len(stack), After(Top, v))
  BY CallMoves
<1>3. Top \in Frame /\ FrameRest(blocks, Top)
  BY <1>1, TopOK, TopRest
<1>4. FrameRest(blocks', After(Top, v))
  BY <1>1, <1>3, RestKept
<1>5. PICK x \in Instr : x.block = insert /\ x.to = <<>> /\ code' = Append(code, x)
  BY CallEmits
<1>6. \A k \in 1 .. Len(x.to) : x.to[k] \in 1 .. blocks'
  BY <1>5
<1>7. QED
  BY <1>1, <1>2, <1>4, <1>5, <1>6, OneTargets

LEMMA BreakTargets ==
  ASSUME Inv, ShapeInv, TargetInv, BreakStmt
  PROVE  TargetInv'
<1>1. Running /\ Steps(stack, stack', Len(stack), After(Top, 0)) /\ blocks \in Nat /\ 0 \in Nat
  BY BreakMoves, Types
<1>2. Top \in Frame /\ FrameRest(blocks, Top)
  BY <1>1, TopOK, TopRest
<1>3. FrameRest(blocks, After(Top, 0))
  BY <1>1, <1>2, RestKept
<1>4. CASE loop_blocks = <<>>
  <2>1. code' = code /\ blocks' = blocks
    BY <1>4 DEF BreakStmt, built
  <2>2. QED
    BY <1>1, <1>3, <2>1, SameCodeTargets
<1>5. CASE loop_blocks # <<>>
  <2>1. PICK h \in 1 .. blocks : h = Head(loop_blocks)
    BY <1>5 DEF Inv, TypeOK
  <2>2. blocks' = blocks + 1
    BY <1>5, BreakEmits
  <2>3. \E x \in Instr : x.block = insert /\ x.to = <<h>> /\ code' = Append(code, x)
    BY <1>5, <2>1, BreakEmits
  <2>4. PICK x \in Instr : x.block = insert /\ x.to = <<h>> /\ code' = Append(code, x)
    BY <2>3
  <2>5. x.to = <<h>>
    BY <2>4
  <2>6. blocks' \in Nat /\ blocks <= blocks' /\ \A k \in 1 .. Len(x.to) : x.to[k] \in 1 .. blocks'
    BY <1>1, <2>2, <2>5
  <2>7. FrameRest(blocks', After(Top, 0))
    BY <1>1, <1>3, <2>6 DEF FrameRest
  <2>8. QED
    BY <1>1, <2>4, <2>6, <2>7, OneTargets
<1>6. QED
  BY <1>4, <1>5

LEMMA DeferTargets ==
  ASSUME Inv, ShapeInv, TargetInv, PlainHere, DeferStmt, Running'
  PROVE  TargetInv'
<1>1. Running /\ blocks' = blocks /\ code' = code /\ 0 \in Nat
  BY DEF DeferStmt, At, InBody
<1>2. Top \in Frame /\ FrameRest(blocks, Top) /\ stack \in Seq(Frame) /\ stack # <<>>
  BY <1>1, TopOK, TopRest, Types
<1>3. FrameRest(blocks, After(Top, 0)) /\ After(Top, 0) \in Frame
  BY <1>1, <1>2, RestKept, AfterIs
<1>4. Steps(stack, stack', Len(stack), After(Top, 0))
  BY <1>2, <1>3, DeferStmtShape, TopSteps
<1>5. QED
  BY <1>1, <1>3, <1>4, SameCodeTargets

\* gen_codegen_defer_blocks() is called, or calls for a body.
LEMMA PushTargets ==
  ASSUME Inv, Running, TargetInv, code' = code, blocks' = blocks,
         NEW at \in {"deferred", "defers"}, NEW body \in Nat,
         Steps(stack, stack', Len(stack) + 1, Call(at, body, 0, 0))
  PROVE  TargetInv'
<1>1. FrameRest(blocks, Call(at, body, 0, 0))
  BY DEF FrameRest, Call
<1>2. QED
  BY <1>1, SameCodeTargets

LEMMA IfTargets ==
  ASSUME Inv, ShapeInv, TargetInv, IfExpr, Running'
  PROVE  TargetInv'
<1>1. /\ InBody /\ blocks \in Nat
      /\ code' = code \o <<Br(insert, blocks + 1), CondBr(blocks + 1, Name, blocks + 2, blocks + 3)>>
  BY IfMoves, Types
<1>2. PICK merge \in Nat, f \in Frame :
        /\ merge = IF This.op = "if" THEN blocks + 3 ELSE blocks + 4
        /\ blocks' = merge /\ f.at = "then" /\ Steps(stack, stack', Len(stack) + 1, f)
  BY IfMoves, Zenon
<1>3. blocks' \in Nat /\ blocks + 3 <= blocks'
  BY <1>1, <1>2
<1>4. FrameRest(blocks', f)
  BY <1>2 DEF FrameRest
<1>5. QED
  BY <1>1, <1>2, <1>3, <1>4, TwoTargets

LEMMA WhileTargets ==
  ASSUME Inv, ShapeInv, TargetInv, WhileExpr, Running'
  PROVE  TargetInv'
<1>1. /\ InBody /\ blocks \in Nat /\ blocks' = blocks + 3
      /\ code' = code \o <<Br(insert, blocks + 1), CondBr(blocks + 1, Name, blocks + 2, blocks + 3)>>
  BY WhileMoves, Types
<1>2. PICK f \in Frame : /\ f.at = "loop" /\ f.orelse = blocks + 2
                         /\ Steps(stack, stack', Len(stack) + 1, f)
  BY WhileMoves, Zenon
<1>3. blocks' \in Nat /\ blocks + 3 <= blocks'
  BY <1>1
<1>4. FrameRest(blocks', f)
  BY <1>1, <1>2 DEF FrameRest
<1>5. QED
  BY <1>1, <1>2, <1>3, <1>4, TwoTargets

LEMMA ThenDoneTargets ==
  ASSUME Inv, ShapeInv, TargetInv, ThenDone
  PROVE  TargetInv'
<1>1. Running /\ Top.at = "then" /\ code' = BranchEnd /\ blocks' = blocks /\ blocks \in Nat
  BY Types DEF ThenDone, BodyDone
<1>2. PICK f : f = [Call("else", fn[Caller.body][Caller.i].orelse, Top.after, 0) EXCEPT
                      !.thenValue = Top.value, !.thenBlock = insert]
  OBVIOUS
<1>3. f.at = "else" /\ Steps(stack, stack', Len(stack), f)
  BY <1>2, ElseShape
<1>4. Targets(code', blocks')
  BY <1>1, EndTargets
<1>5. FrameRest(blocks', f)
  BY <1>3 DEF FrameRest
<1>6. QED
  BY <1>1, <1>3, <1>4, <1>5, TargetSteps

LEMMA LeavesTargets ==
  ASSUME Inv, ShapeInv, TargetInv, Running, Top.at \in {"then", "else", "loop"},
         blocks' = blocks, Targets(code', blocks),
         NEW v \in Nat, Steps(stack, stack', Len(stack) - 1, After(Caller, v))
  PROVE  TargetInv'
<1>1. Caller \in Frame /\ Len(stack) > 1 /\ blocks \in Nat
  BY TopOK, Types
<1>2. FrameRest(blocks, Caller)
  BY <1>1, TopRest
<1>3. FrameRest(blocks, After(Caller, v))
  BY <1>1, <1>2, RestKept
<1>4. QED
  BY <1>1, <1>3, TargetSteps

LEMMA IfDoneTargets ==
  ASSUME Inv, ShapeInv, TargetInv, IfDone, Running'
  PROVE  TargetInv'
<1>1. /\ Running /\ Top.at = "then" /\ code' = BranchEnd /\ blocks' = blocks /\ 0 \in Nat
      /\ Steps(stack, stack', Len(stack) - 1, After(Caller, 0))
  BY IfDoneMoves
<1>2. Targets(code', blocks)
  BY <1>1, EndTargets
<1>3. QED
  BY <1>1, <1>2, LeavesTargets

LEMMA IfElseTargets ==
  ASSUME Inv, ShapeInv, TargetInv, IfElseDone, Running'
  PROVE  TargetInv'
<1>1. Running /\ Top.at = "else" /\ blocks' = blocks /\ blocks \in Nat
  BY IfElseDoneMoves, Types
<1>2. code' \in Seq(Instr)
  BY IfElseEmits
<1>3. 0 \in Nat /\ Len(code') \in Nat
  BY <1>2
<1>4. PICK w \in Nat : Steps(stack, stack', Len(stack) - 1, After(Caller, w))
  BY <1>3, IfElseDoneMoves, Zenon
<1>5. Targets(BranchEnd, blocks) /\ BranchEnd \in Seq(Instr) /\ Top.after \in 1 .. blocks
  BY <1>1, EndTargets, EmitsEnd, TopOK DEF FrameOK
<1>6. Targets(code', blocks)
  <2>1. CASE code' = BranchEnd
    BY <1>5, <2>1
  <2>2. CASE code' # BranchEnd
    <3>1. PICK x \in Instr : x.block = Top.after /\ x.to = <<>> /\ code' = Append(BranchEnd, x)
      BY <2>2, IfElseEmits
    <3>2. blocks <= blocks /\ \A k \in 1 .. Len(x.to) : x.to[k] \in 1 .. blocks
      BY <1>1, <3>1
    <3>3. QED
      BY <1>1, <1>5, <3>1, <3>2, TargetsMore
  <2>3. QED
    BY <2>1, <2>2
<1>7. QED
  BY <1>1, <1>4, <1>6, LeavesTargets

LEMMA WhileDoneTargets ==
  ASSUME Inv, ShapeInv, TargetInv, WhileDone
  PROVE  TargetInv'
<1>1. Running /\ Top.at = "loop" /\ blocks' = blocks
  BY WhileDoneMoves DEF WhileDone
<1>2. /\ insert \in 1 .. blocks /\ blocks \in Nat /\ code \in Seq(Instr) /\ Top \in Frame
      /\ Caller \in Frame /\ Top.after \in 1 .. blocks /\ Targets(code, blocks)
  BY <1>1, TopOK, Types DEF Inv, TypeOK, FrameOK, TargetInv
<1>3. Top.orelse \in 1 .. blocks
  BY <1>1, TopRest DEF FrameRest
<1>4. PICK w \in Nat : Steps(stack, stack', Len(stack) - 1, After(Caller, w))
  BY <1>2, WhileDoneMoves DEF Frame
<1>5. PICK x \in Instr : /\ x.block = insert /\ x.to = <<Top.orelse, Top.after>>
                         /\ code' = Append(code, x)
  BY WhileDoneEmits
<1>6. \A k \in 1 .. Len(x.to) : x.to[k] \in 1 .. blocks
  BY <1>2, <1>3, <1>5
<1>7. Targets(code', blocks)
  <2>1. blocks <= blocks
    BY <1>2
  <2>2. QED
    BY <1>2, <1>5, <1>6, <2>1, TargetsMore
<1>8. QED
  BY <1>1, <1>4, <1>7, LeavesTargets

LEMMA DeferredDoneTargets ==
  ASSUME Inv, ShapeInv, TargetInv, DeferredDone
  PROVE  TargetInv'
<1>1. /\ Running /\ code' = code /\ blocks' = blocks /\ 0 \in Nat
  BY DEF DeferredDone, BodyDone
<1>2. /\ Caller \in Frame /\ Len(stack) > 1
      /\ Steps(stack, stack', Len(stack) - 1, After(Caller, 0))
  BY DeferredDoneShape
<1>3. FrameRest(blocks, After(Caller, 0))
  BY <1>1, <1>2, TopRest, RestKept
<1>4. QED
  BY <1>1, <1>2, <1>3, SameCodeTargets

LEMMA ReturnBuiltTargets ==
  ASSUME Inv, ShapeInv, TargetInv, ReturnBuilt
  PROVE  TargetInv'
<1>1. Running /\ blocks' = blocks /\ blocks \in Nat
  BY Types DEF ReturnBuilt, DefersDone, InDefers
<1>2. PICK f : f = [Caller EXCEPT !.i = Len(fn[Caller.body]) + 1, !.value = 0,
                                  !.returns = Caller.at \notin {"loop", "deferred"}]
  OBVIOUS
<1>3. /\ Caller \in Frame /\ Caller.at # "defers" /\ Len(stack) > 1
      /\ f.at = Caller.at /\ f.orelse = Caller.orelse
      /\ Steps(stack, stack', Len(stack) - 1, f)
  BY <1>2, ReturnShape
<1>4. FrameRest(blocks, f)
  BY <1>1, <1>3, TopRest DEF FrameRest
<1>5. PICK x \in Instr : x.block = insert /\ x.to = <<>> /\ code' = Append(code, x)
  BY ReturnEmits
<1>6. \A k \in 1 .. Len(x.to) : x.to[k] \in 1 .. blocks'
  BY <1>5
<1>7. blocks' \in Nat /\ blocks <= blocks' /\ FrameRest(blocks', f)
  BY <1>1, <1>4
<1>8. QED
  BY <1>1, <1>3, <1>5, <1>6, <1>7, OneTargets

LEMMA TargetNext ==
  ASSUME Inv, ShapeInv, TargetInv, PlainHere, Generate
  PROVE  TargetInv'
<1>1. SUFFICES ASSUME Running' PROVE TargetInv'
  BY Zenon DEF TargetInv
<1>2. ~FunctionEnd
  BY <1>1 DEF FunctionEnd, Running
<1>3. CASE CallStmt
  BY <1>3, CallTargets
<1>4. CASE BreakStmt
  BY <1>4, BreakTargets
<1>5. CASE DeferStmt
  BY <1>1, <1>5, DeferTargets
<1>6. CASE ReturnStmt
  <2>1. Running /\ code' = code /\ blocks' = blocks
        /\ Steps(stack, stack', Len(stack) + 1, Call("defers", 0, 0, 0)) /\ 0 \in Nat
    BY <1>1, <1>6, ReturnMoves DEF ReturnStmt
  <2>2. QED
    BY <2>1, PushTargets
<1>7. CASE IfExpr
  BY <1>1, <1>7, IfTargets
<1>8. CASE ThenDone
  BY <1>8, ThenDoneTargets
<1>9. CASE IfDone
  BY <1>1, <1>9, IfDoneTargets
<1>10. CASE IfElseDone
  BY <1>1, <1>10, IfElseTargets
<1>11. CASE WhileExpr
  BY <1>1, <1>11, WhileTargets
<1>12. CASE WhileDone
  BY <1>12, WhileDoneTargets
<1>13. CASE DeferredBody
  <2>1. code' = code /\ blocks' = blocks
    BY <1>13 DEF DeferredBody
  <2>2. PICK f : f = Call("deferred", defer_blocks[Top.i], 0, 0)
    OBVIOUS
  <2>3. Running /\ f.at = "deferred" /\ Steps(stack, stack', Len(stack) + 1, f)
    BY <1>1, <1>13, <2>2, DeferredMoves
  <2>4. FrameRest(blocks, f)
    BY <2>3 DEF FrameRest
  <2>5. QED
    BY <2>1, <2>3, <2>4, SameCodeTargets
<1>14. CASE DeferredDone
  BY <1>14, DeferredDoneTargets
<1>15. CASE ReturnBuilt
  BY <1>15, ReturnBuiltTargets
<1>16. CASE BodyEnd
  <2>1. Running /\ code' = code /\ blocks' = blocks /\ Len(stack) = 1 /\ 0 \in Nat
        /\ Steps(stack, stack', 2, Call("defers", 0, 0, 0))
    BY <1>1, <1>16, BodyEndMoves DEF BodyEnd
  <2>2. FrameRest(blocks, Call("defers", 0, 0, 0))
    BY DEF FrameRest, Call
  <2>3. QED
    BY <2>1, <2>2, SameCodeTargets
<1>17. QED
  BY <1>2, <1>3, <1>4, <1>5, <1>6, <1>7, <1>8, <1>9, <1>10, <1>11, <1>12, <1>13, <1>14,
     <1>15, <1>16 DEF Generate

-----------------------------------------------------------------------------
(* The verdict: every block ends once *)

\* One more instruction in a block that has not ended.
LEMMA AddsOne ==
  ASSUME NEW c \in Seq(Instr), NEW x \in Instr, ~Closed(c, x.block), ~Doubled(c)
  PROVE  LET e == Append(c, x) IN
         /\ ~Doubled(e)
         /\ \A b : Closed(c, b) => Closed(e, b)
         /\ \A b : Closed(e, b) => Closed(c, b) \/ (b = x.block /\ x.op \in {"br", "condbr", "ret"})
         /\ \A b : Empty(c, b) /\ b # x.block => Empty(e, b)
         /\ x.op \in {"br", "condbr", "ret"} => Closed(e, x.block)
<1> DEFINE e == Append(c, x)
<1>1. /\ e \in Seq(Instr) /\ Len(e) = Len(c) + 1 /\ Len(c) \in Nat
      /\ e[Len(e)] = x /\ \A i \in 1 .. Len(c) : e[i] = c[i]
      /\ Extends(c, e)
      /\ x.op \in {"br", "condbr", "ret"} => Closed(e, x.block)
  BY OneMore
<1> HIDE DEF e
<1>2. ~Doubled(e)
  <2>1. SUFFICES ASSUME NEW i \in 1 .. Len(e), NEW j \in 1 .. Len(e), i < j,
                        e[i].block = e[j].block, Terminator(e, i)
                 PROVE  FALSE
    BY DEF Doubled
  <2>2. i \in 1 .. Len(c) /\ e[i] = c[i]
    BY <1>1, <2>1
  <2>3. CASE j = Len(e)
    BY <1>1, <2>1, <2>2, <2>3 DEF Closed, Terminator
  <2>4. CASE j # Len(e)
    <3>1. j \in 1 .. Len(c) /\ e[j] = c[j]
      BY <1>1, <2>1, <2>4
    <3>2. QED
      BY <2>1, <2>2, <3>1 DEF Doubled, Terminator
  <2>5. QED
    BY <2>3, <2>4
<1>3. \A b : Closed(c, b) => Closed(e, b)
  BY <1>1, ExtendsKeeps
<1>4. ASSUME NEW b, Closed(e, b)
      PROVE  Closed(c, b) \/ (b = x.block /\ x.op \in {"br", "condbr", "ret"})
  <2>1. PICK i \in 1 .. Len(e) : e[i].block = b /\ Terminator(e, i)
    BY <1>4 DEF Closed
  <2>2. CASE i = Len(e)
    BY <1>1, <2>1, <2>2 DEF Terminator
  <2>3. CASE i # Len(e)
    <3>1. i \in 1 .. Len(c) /\ e[i] = c[i]
      BY <1>1, <2>1, <2>3
    <3>2. QED
      BY <2>1, <3>1 DEF Closed, Terminator
  <2>4. QED
    BY <2>2, <2>3
<1>5. ASSUME NEW b, Empty(c, b), b # x.block
      PROVE  Empty(e, b)
  <2>1. SUFFICES ASSUME NEW i \in 1 .. Len(e) PROVE e[i].block # b
    BY DEF Empty
  <2>2. CASE i = Len(e)
    BY <1>1, <1>5, <2>2
  <2>3. CASE i # Len(e)
    <3>1. i \in 1 .. Len(c) /\ e[i] = c[i]
      BY <1>1, <2>1, <2>3
    <3>2. QED
      BY <1>5, <3>1 DEF Empty
  <2>4. QED
    BY <2>2, <2>3
<1>6. QED
  BY <1>1, <1>2, <1>3, <1>4, <1>5 DEF e

\* A block that nothing is in has not ended.
LEMMA EmptyOpen ==
  ASSUME NEW c, NEW b, Empty(c, b)
  PROVE  ~Closed(c, b)
BY DEF Empty, Closed

\* Blocks that there are not yet are empty.
LEMMA NewEmpty ==
  ASSUME NEW c, NEW n \in Nat, Targets(c, n), NEW b \in Nat, b > n
  PROVE  Empty(c, b)
BY DEF Targets, Empty

\* A frame of the stack, and one that waits for the same.
LEMMA KeptFrame ==
  ASSUME NEW c, NEW n, NEW b, NEW s, Blocks(c, n, b, s), NEW i \in 1 .. Len(s), NEW f,
         f.at = s[i].at, f.after = s[i].after, f.orelse = s[i].orelse
  PROVE  /\ Awaited(f) = Awaited(s[i])
         /\ AwaitsOK(c, n, b, f)
         /\ \A k \in 1 .. Len(s) : k < i => Awaited(s[k]) \cap Awaited(f) = {}
<1>1. Awaited(f) = Awaited(s[i])
  BY DEF Awaited
<1>2. AwaitsOK(c, n, b, s[i])
  BY DEF Blocks
<1>3. AwaitsOK(c, n, b, f)
  BY <1>1, <1>2 DEF AwaitsOK
<1>4. \A k \in 1 .. Len(s) : k < i => Awaited(s[k]) \cap Awaited(f) = {}
  BY <1>1 DEF Blocks
<1>5. QED
  BY <1>1, <1>3, <1>4

\* Only the last frame has to be looked at, what was on the stack above it, and
\* the blocks that are new.
LEMMA BlocksStep ==
  ASSUME NEW s \in Seq(Frame), NEW c, NEW l \in Nat, NEW i \in Nat, Blocks(c, l, i, s),
         NEW e, NEW m \in Nat, l <= m, NEW b \in Nat,
         NEW t, NEW n, NEW f, Steps(s, t, n, f),
         ~Doubled(e), \A a : Closed(c, a) => Closed(e, a),
         \A a \in 1 .. l : Empty(c, a) /\ a # i /\ a # b => Empty(e, a),
         b = i \/ Closed(e, i),
         AwaitsOK(e, m, b, f),
         \A k \in 1 .. Len(s) : k < n => Awaited(s[k]) \cap Awaited(f) = {} /\ b \notin Awaited(s[k]),
         \A k \in 1 .. Len(s) : k >= n => Awaited(s[k]) \subseteq Awaited(f) \union {b},
         \A a \in 1 .. m : a > l => Closed(e, a) \/ a = b \/ a \in Awaited(f)
  PROVE  Blocks(e, m, b, t)
<1>1. /\ n \in Nat \ {0} /\ n <= Len(s) + 1 /\ Len(t) = n /\ t[n] = f /\ Len(s) \in Nat
      /\ \A j \in 1 .. n : j # n => t[j] = s[j]
  BY DEF Steps
<1>2. \A j \in 1 .. n : j # n => j \in 1 .. Len(s) /\ j < n
  BY <1>1
<1>3. \A j \in 1 .. Len(t) : AwaitsOK(e, m, b, t[j])
  <2>1. SUFFICES ASSUME NEW j \in 1 .. n, j # n PROVE AwaitsOK(e, m, b, s[j])
    BY <1>1
  <2>2. j \in 1 .. Len(s) /\ j < n
    BY <1>2, <2>1
  <2>3. AwaitsOK(c, l, i, s[j]) /\ b \notin Awaited(s[j])
    BY <2>2 DEF Blocks
  <2>4. \A a \in Awaited(s[j]) : a \in 1 .. m /\ a # b /\ Empty(e, a)
    BY <2>3 DEF AwaitsOK
  <2>5. QED
    BY <2>3, <2>4 DEF AwaitsOK
<1>4. ASSUME NEW k \in 1 .. Len(t), NEW j \in 1 .. Len(t), k < j
      PROVE  Awaited(t[k]) \cap Awaited(t[j]) = {}
  <2>1. k \in 1 .. Len(s) /\ k < n /\ t[k] = s[k]
    BY <1>1, <1>2, <1>4
  <2>2. CASE j = n
    BY <1>1, <2>1, <2>2
  <2>3. CASE j # n
    <3>1. j \in 1 .. Len(s) /\ t[j] = s[j]
      BY <1>1, <1>2, <2>3
    <3>2. QED
      BY <1>4, <2>1, <3>1 DEF Blocks
  <2>4. QED
    BY <2>2, <2>3
<1>5. ASSUME NEW a \in 1 .. m
      PROVE  Closed(e, a) \/ a = b \/ \E j \in 1 .. Len(t) : a \in Awaited(t[j])
  <2>1. n \in 1 .. Len(t) /\ t[n] = f
    BY <1>1
  <2>2. CASE a > l
    BY <2>1, <2>2
  <2>3. CASE a <= l
    <3>1. a \in 1 .. l
      BY <2>3
    <3>2. Closed(c, a) \/ a = i \/ \E j \in 1 .. Len(s) : a \in Awaited(s[j])
      BY <3>1 DEF Blocks
    <3>3. CASE \E j \in 1 .. Len(s) : a \in Awaited(s[j])
      <4>1. PICK j \in 1 .. Len(s) : a \in Awaited(s[j])
        BY <3>3
      <4>2. CASE j < n
        <5>1. j \in 1 .. Len(t) /\ t[j] = s[j]
          BY <1>1, <4>2
        <5>2. QED
          BY <4>1, <5>1
      <4>3. CASE j >= n
        BY <2>1, <4>1, <4>3
      <4>4. QED
        BY <1>1, <4>2, <4>3
    <3>4. QED
      BY <3>2, <3>3
  <2>4. QED
    BY <2>2, <2>3
<1>6. QED
  BY <1>3, <1>4, <1>5 DEF Blocks

\* The builder stays in its block, and the stack waits for the same blocks.
LEMMA SameBlocks ==
  ASSUME Inv, Blocks(code, blocks, insert, stack), blocks' = blocks, insert' = insert,
         code' = code \/ (~Closed(code, insert)
                            /\ \E x \in Instr : x.block = insert /\ code' = Append(code, x)),
         NEW n, NEW f, Steps(stack, stack', n, f),
         n <= Len(stack) =>
           f.at = stack[n].at /\ f.after = stack[n].after /\ f.orelse = stack[n].orelse,
         n > Len(stack) => f.at \in {"deferred", "defers"},
         \A k \in 1 .. Len(stack) : k > n => stack[k].at \in {"deferred", "defers"}
  PROVE  Blocks(code', blocks', insert', stack')
<1>1. /\ blocks \in Nat /\ insert \in Nat /\ code \in Seq(Instr) /\ stack \in Seq(Frame)
      /\ Len(code) \in Nat
  BY Types
<1>2. n \in Nat \ {0} /\ n <= Len(stack) + 1 /\ Len(stack) \in Nat
  BY <1>1 DEF Steps
<1>3. /\ ~Doubled(code') /\ \A a : Closed(code, a) => Closed(code', a)
      /\ \A a : Empty(code, a) /\ a # insert => Empty(code', a)
  <2>1. ~Doubled(code)
    BY DEF Blocks
  <2>2. CASE code' = code
    BY <2>1, <2>2
  <2>3. CASE code' # code
    <3>1. PICK x \in Instr : x.block = insert /\ code' = Append(code, x)
      BY <2>3
    <3>2. ~Closed(code, x.block)
      BY <2>3, <3>1
    <3>3. PICK e : e = Append(code, x)
      OBVIOUS
    <3>4. /\ ~Doubled(e) /\ \A a : Closed(code, a) => Closed(e, a)
          /\ \A a : Empty(code, a) /\ a # x.block => Empty(e, a)
      BY <1>1, <2>1, <3>2, <3>3, AddsOne
    <3>5. QED
      BY <3>1, <3>3, <3>4
  <2>4. QED
    BY <2>2, <2>3
<1>4. \A k \in 1 .. Len(stack) : insert \notin Awaited(stack[k])
  BY DEF Blocks, AwaitsOK
<1>5. /\ AwaitsOK(code, blocks, insert, f)
      /\ \A k \in 1 .. Len(stack) : k < n => Awaited(stack[k]) \cap Awaited(f) = {}
      /\ n <= Len(stack) => Awaited(stack[n]) = Awaited(f)
  <2>1. CASE n <= Len(stack)
    <3>1. n \in 1 .. Len(stack)
      BY <1>2, <2>1
    <3>2. PICK g : g = f
      OBVIOUS
    <3>3. g.at = stack[n].at /\ g.after = stack[n].after /\ g.orelse = stack[n].orelse
      BY <2>1, <3>2
    <3>4. /\ Awaited(g) = Awaited(stack[n]) /\ AwaitsOK(code, blocks, insert, g)
          /\ \A k \in 1 .. Len(stack) : k < n => Awaited(stack[k]) \cap Awaited(g) = {}
      BY <3>1, <3>3, KeptFrame
    <3>5. QED
      BY <3>2, <3>4
  <2>2. CASE n > Len(stack)
    <3>1. Awaited(f) = {} /\ f.at # "then"
      BY <2>2 DEF Awaited
    <3>2. AwaitsOK(code, blocks, insert, f)
      BY <3>1 DEF AwaitsOK
    <3>3. QED
      BY <1>2, <2>2, <3>1, <3>2
  <2>3. QED
    BY <1>2, <2>1, <2>2
<1>6. AwaitsOK(code', blocks, insert, f)
  BY <1>3, <1>5 DEF AwaitsOK
<1>7. \A k \in 1 .. Len(stack) : k >= n => Awaited(stack[k]) \subseteq Awaited(f) \union {insert}
  <2>1. SUFFICES ASSUME NEW k \in 1 .. Len(stack), k >= n
                 PROVE  Awaited(stack[k]) \subseteq Awaited(f)
    OBVIOUS
  <2>2. CASE k = n
    BY <1>5, <2>1, <2>2
  <2>3. CASE k # n
    <3>1. stack[k].at \in {"deferred", "defers"}
      BY <1>2, <2>1, <2>3
    <3>2. QED
      BY <3>1 DEF Awaited
  <2>4. QED
    BY <2>2, <2>3
<1>8. blocks <= blocks
  BY <1>1
<1>9. \A a \in 1 .. blocks : ~(a > blocks)
  BY <1>1
<1>10. Blocks(code', blocks, insert, stack')
  <2>1. \A a \in 1 .. blocks : Empty(code, a) /\ a # insert /\ a # insert => Empty(code', a)
    BY <1>3
  <2>2. \A k \in 1 .. Len(stack) : k < n =>
          Awaited(stack[k]) \cap Awaited(f) = {} /\ insert \notin Awaited(stack[k])
    BY <1>4, <1>5
  <2>3. \A a \in 1 .. blocks : a > blocks => Closed(code', a) \/ a = insert \/ a \in Awaited(f)
    BY <1>9
  <2>4. QED
    BY <1>1, <1>3, <1>6, <1>7, <1>8, <2>1, <2>2, <2>3, BlocksStep
<1>11. QED
  BY <1>10

\* While statements are gone through the builder stands in a block that is open,
\* but for what no function with a verdict has.
LEMMA OpenHere ==
  ASSUME Inv, InBody, ShapeInv, Ended(code, insert, stack), ~ReturnsAndDefers,
         This.op \notin {"break", "defer"} \/ loop_blocks # <<>>
  PROVE  ~stack[1].returns /\ ~Closed(code, insert)
<1>1. Running /\ IsFunction(fn)
  BY DEF InBody, Inv, TypeOK
<1>2. /\ Len(stack) \in Nat \ {0} /\ Top = stack[Len(stack)] /\ Last(stack) = Top
      /\ Len(stack) > 1 => Top.at # "function"
  BY <1>1, TopOK DEF Top, Inv, StackOK, Linked
<1>3. ~Top.returns /\ Top.at # "defers"
  BY ThisShape DEF InBody
<1>4. ASSUME stack[1].returns PROVE FALSE
  <2>1. /\ stack[1].at = "function" /\ Returns(fn, 1) # {}
        /\ Len(stack) >= 2 => stack[2].at = "defers"
        /\ Len(stack) >= 3 => stack[3].at = "deferred"
    BY <1>1, <1>4, Repeating
  <2>2. Len(stack) <= 3
    BY <1>4 DEF Ended
  <2>3. Len(stack) = 3
    <3>1. Len(stack) # 1
      BY <1>2, <1>3, <1>4
    <3>2. Len(stack) # 2
      BY <1>2, <1>3, <2>1
    <3>3. Len(stack) >= 3
      BY <1>2, <3>1, <3>2, Heights, Zenon
    <3>4. PICK h \in Nat : h = Len(stack)
      BY <1>2
    <3>5. h = 3
      BY <2>2, <3>3, <3>4
    <3>6. QED
      BY <3>4, <3>5
  <2>4. Top = stack[3] /\ Top.at = "deferred" /\ Top.at # "function" /\ Caller = stack[2]
    BY <1>2, <2>1, <2>3 DEF Caller
  <2>5. CASE loop_blocks # <<>>
    <3>1. \A j \in 1 .. Len(stack) : stack[j].at # "loop"
      <4>1. SUFFICES ASSUME NEW j \in 1 .. 3 PROVE stack[j].at # "loop"
        BY <2>3
      <4>2. j = 1 \/ j = 2 \/ j = 3
        OBVIOUS
      <4>3. QED
        BY <2>1, <2>3, <4>2
    <3>2. stack \in Seq(Frame) /\ loop_blocks \in Seq(Nat) /\ Matched(stack, loop_blocks)
      BY <1>1, Types DEF Inv
    <3>3. QED
      BY <2>5, <3>1, <3>2, NoLoops
  <2>6. CASE This.op \notin {"break", "defer"}
    <3>1. /\ WaitsFor(fn, defer_blocks, Caller, Top) /\ DefersOK(fn, defer_blocks)
      BY <1>1, <2>4, TopShape
    <3>2. PICK t \in LiveIn(fn, 1) : OpOf(fn, t) = "defer" /\ BodyOf(fn, t) = Top.body
      BY <2>4, <3>1 DEF WaitsFor, DefersOK
    <3>3. GeneratesCode(fn, BodyOf(fn, t))
      BY <2>6, <3>2, ThisOK DEF GeneratesCode, This, Body
    <3>4. t \in LiveStmts("defer")
      BY <3>2 DEF LiveStmts
    <3>5. PICK r \in Returns(fn, 1) : ~Behind(fn, <<1, r>>)
      BY <2>1, FirstReturn
    <3>6. r \in 1 .. Len(fn[1]) /\ fn[1][r].op = "return" /\ 1 \in 1 .. Len(fn)
      BY <1>1, FirstBody DEF Returns
    <3>7. <<1, r>> \in Statements(fn) /\ 1 \in LiveBodies(fn, 1)
      BY <1>1, <3>6, StatementsOf, LiveStep
    <3>8. PICK u : u = <<1, r>>
      OBVIOUS
    <3>9. u \in LiveIn(fn, 1) /\ OpOf(fn, u) = "return" /\ u[1] = 1
      BY <3>5, <3>6, <3>7, <3>8 DEF LiveIn, OpOf
    <3>10. u \in LiveStmts("return")
      BY <3>9 DEF LiveStmts
    <3>11. ReturnsAndDefers
      BY <3>3, <3>4, <3>9, <3>10 DEF ReturnsAndDefers
    <3>12. QED
      BY <3>11
  <2>7. QED
    BY <2>5, <2>6
<1>5. QED
  BY <1>2, <1>3, <1>4 DEF Ended

\* The blocks of a running function, and what is known of the frames on top.
LEMMA TopBlocks ==
  ASSUME Inv, Running, ShapeInv, TargetInv, Blocks(code, blocks, insert, stack),
         Ended(code, insert, stack)
  PROVE  /\ Len(stack) \in Nat \ {0} /\ Top = stack[Len(stack)] /\ Last(stack) = Top
         /\ code \in Seq(Instr) /\ blocks \in Nat /\ insert \in Nat /\ stack \in Seq(Frame)
         /\ stack[1] \in Frame /\ Top \in Frame
         /\ ~Doubled(code)
         /\ Closed(code, insert) <=> Top.returns \/ stack[1].returns
         /\ stack[1].returns => Len(stack) <= 3
         /\ Top.at = "defers" => ~Top.returns
<1>1. /\ Len(stack) \in Nat \ {0} /\ Top = stack[Len(stack)] /\ Top \in Frame
      /\ code \in Seq(Instr) /\ blocks \in Nat /\ insert \in Nat /\ stack \in Seq(Frame)
  BY TopOK, Types
<1>2. Last(stack) = Top /\ stack[1] \in Frame
  BY <1>1 DEF Top
<1>3. FrameRest(blocks, Top)
  BY TopRest
<1>4. QED
  BY <1>1, <1>2, <1>3 DEF Blocks, Ended, FrameRest

\* Statements without a body
LEMMA CallBlocks ==
  ASSUME Inv, ShapeInv, TargetInv, ~ReturnsAndDefers, CallStmt,
         Blocks(code, blocks, insert, stack), Ended(code, insert, stack)
  PROVE  Blocks(code', blocks', insert', stack') /\ Ended(code', insert', stack')
<1>1. /\ InBody /\ Running /\ This.op \notin {"break", "defer"}
      /\ blocks' = blocks /\ insert' = insert
  BY CallMoves DEF CallStmt, Valued
<1>2. PICK v \in Nat : Steps(stack, stack', Len(stack), After(Top, v))
  BY CallMoves
<1>3. PICK f : f = After(Top, v)
  OBVIOUS
<1>4. /\ Len(stack) \in Nat \ {0} /\ Top = stack[Len(stack)] /\ Top \in Frame
      /\ ~Doubled(code) /\ code \in Seq(Instr)
  BY <1>1, TopBlocks
<1>5. /\ f.at = Top.at /\ f.after = Top.after /\ f.orelse = Top.orelse
      /\ f.returns = Top.returns /\ Steps(stack, stack', Len(stack), f)
  BY <1>2, <1>3, <1>4, AfterIs
<1>6. ~stack[1].returns /\ ~Closed(code, insert)
  BY <1>1, OpenHere
<1>7. ~Top.returns
  BY <1>1, ThisShape
<1>8. PICK x \in Instr : x.op = "call" /\ x.block = insert /\ code' = Append(code, x)
  BY CallEmits
<1>9. Blocks(code', blocks', insert', stack')
  <2>1. \A k \in 1 .. Len(stack) : ~(k > Len(stack))
    BY <1>4
  <2>2. ~(Len(stack) > Len(stack))
    BY <1>4
  <2>3. QED
    BY <1>1, <1>4, <1>5, <1>6, <1>8, <2>1, <2>2, SameBlocks
<1>10. ~Closed(code', insert')
  <2>1. PICK e : e = Append(code, x)
    OBVIOUS
  <2>2. Closed(e, insert) => Closed(code, insert)
    BY <1>4, <1>6, <1>8, <2>1, AddsOne
  <2>3. QED
    BY <1>1, <1>6, <1>8, <2>1, <2>2
<1>11. ~stack'[1].returns /\ ~Last(stack').returns
  <2>1. Last(stack') = f
    BY <1>5 DEF Steps
  <2>2. Len(stack) = 1 => f.returns = stack[1].returns
    BY <1>4, <1>5
  <2>3. stack'[1].returns = stack[1].returns
    BY <1>5, <2>2, SameFirst
  <2>4. QED
    BY <1>5, <1>6, <1>7, <2>1, <2>3
<1>12. QED
  BY <1>9, <1>10, <1>11 DEF Ended

\* What leaves the code as it is
LEMMA QuietBlocks ==
  ASSUME Inv, Running, ShapeInv, TargetInv,
         Blocks(code, blocks, insert, stack), Ended(code, insert, stack),
         code' = code, blocks' = blocks, insert' = insert,
         NEW n, NEW f, Steps(stack, stack', n, f),
         n <= Len(stack) =>
           f.at = stack[n].at /\ f.after = stack[n].after /\ f.orelse = stack[n].orelse,
         n > Len(stack) => f.at \in {"deferred", "defers"},
         \A k \in 1 .. Len(stack) : k > n => stack[k].at \in {"deferred", "defers"},
         (f.returns \/ stack[1].returns) <=> (Top.returns \/ stack[1].returns),
         n = 1 => f.returns = stack[1].returns,
         stack[1].returns => n <= 3
  PROVE  Blocks(code', blocks', insert', stack') /\ Ended(code', insert', stack')
<1>1. Blocks(code', blocks', insert', stack')
  BY SameBlocks
<1>2. Last(stack') = f /\ Len(stack') = n
  BY DEF Steps
<1>3. stack'[1].returns = stack[1].returns
  BY SameFirst
<1>4. Closed(code, insert) <=> Top.returns \/ stack[1].returns
  BY TopBlocks
<1>5. QED
  BY <1>1, <1>2, <1>3, <1>4 DEF Ended

\* A statement that adds nothing is passed.
LEMMA PassedBlocks ==
  ASSUME Inv, InBody, ShapeInv, TargetInv,
         Blocks(code, blocks, insert, stack), Ended(code, insert, stack),
         code' = code, blocks' = blocks, insert' = insert,
         Steps(stack, stack', Len(stack), After(Top, 0))
  PROVE  Blocks(code', blocks', insert', stack') /\ Ended(code', insert', stack')
<1>1. Running
  BY DEF InBody
<1>2. /\ Len(stack) \in Nat \ {0} /\ Top = stack[Len(stack)] /\ Top \in Frame
      /\ stack[1].returns => Len(stack) <= 3
  BY <1>1, TopBlocks
<1>3. PICK f : f = After(Top, 0)
  OBVIOUS
<1>4. /\ f.at = Top.at /\ f.after = Top.after /\ f.orelse = Top.orelse
      /\ f.returns = Top.returns /\ Steps(stack, stack', Len(stack), f)
  BY <1>2, <1>3, AfterIs
<1>5. /\ \A k \in 1 .. Len(stack) : ~(k > Len(stack))
      /\ ~(Len(stack) > Len(stack))
      /\ Len(stack) = 1 => f.returns = stack[1].returns
  BY <1>2, <1>4
<1>6. QED
  BY <1>1, <1>2, <1>4, <1>5, QuietBlocks

LEMMA DeferBlocks ==
  ASSUME Inv, ShapeInv, TargetInv, DeferStmt, Running',
         Blocks(code, blocks, insert, stack), Ended(code, insert, stack)
  PROVE  Blocks(code', blocks', insert', stack') /\ Ended(code', insert', stack')
<1>1. /\ InBody /\ code' = code /\ blocks' = blocks /\ insert' = insert /\ Running
      /\ stack' = ReplaceAt(stack, Len(stack), After(Top, 0))
  BY DEF DeferStmt, At, Running, Advance, InBody
<1>2. Top \in Frame /\ stack \in Seq(Frame) /\ stack # <<>>
  BY <1>1, TopOK, Types
<1>3. After(Top, 0) \in Frame
  BY <1>2, AfterIs
<1>4. Steps(stack, stack', Len(stack), After(Top, 0))
  BY <1>1, <1>2, <1>3, TopSteps
<1>5. QED
  BY <1>1, <1>4, PassedBlocks

\* gen_codegen_defer_blocks() is called, and calls for a body.
LEMMA PushBlocks ==
  ASSUME Inv, Running, ShapeInv, TargetInv,
         Blocks(code, blocks, insert, stack), Ended(code, insert, stack),
         code' = code, blocks' = blocks, insert' = insert,
         NEW f, f.at \in {"deferred", "defers"}, ~f.returns,
         Steps(stack, stack', Len(stack) + 1, f),
         Top.returns => stack[1].returns, stack[1].returns => Len(stack) <= 2
  PROVE  Blocks(code', blocks', insert', stack') /\ Ended(code', insert', stack')
<1>1. Len(stack) \in Nat \ {0}
  BY TopBlocks
<1>2. PICK n \in Nat : n = Len(stack) + 1
  BY <1>1
<1>3. /\ Steps(stack, stack', n, f) /\ ~(n <= Len(stack)) /\ n # 1
      /\ \A k \in 1 .. Len(stack) : ~(k > n)
      /\ stack[1].returns => n <= 3
  BY <1>1, <1>2
<1>4. QED
  BY <1>3, QuietBlocks

LEMMA ReturnStmtBlocks ==
  ASSUME Inv, ShapeInv, TargetInv, PlainHere, ReturnStmt, Running',
         Blocks(code, blocks, insert, stack), Ended(code, insert, stack)
  PROVE  Blocks(code', blocks', insert', stack') /\ Ended(code', insert', stack')
<1>1. /\ InBody /\ Running /\ Top.body \in LiveBodies(fn, 1)
      /\ Steps(stack, stack', Len(stack) + 1, Call("defers", 0, 0, 0))
  BY ReturnMoves
<1>2. code' = code /\ blocks' = blocks /\ insert' = insert
  BY DEF ReturnStmt
<1>3. IsFunction(fn)
  BY DEF Inv, TypeOK
<1>4. Top.body \notin InDeferred(fn)
  BY <1>1, <1>3, LiveOrDeferred
<1>5. ~stack[1].returns /\ ~Top.returns
  BY <1>1, <1>4, NotRepeating, ThisShape
<1>6. PICK f : f = Call("defers", 0, 0, 0)
  OBVIOUS
<1>7. f.at = "defers" /\ ~f.returns /\ Steps(stack, stack', Len(stack) + 1, f)
  <2>1. f.at = "defers" /\ f.returns = FALSE
    BY <1>6 DEF Call
  <2>2. QED
    BY <1>1, <1>6, <2>1
<1>8. QED
  BY <1>1, <1>2, <1>5, <1>7, PushBlocks

LEMMA BodyEndBlocks ==
  ASSUME Inv, ShapeInv, TargetInv, BodyEnd, Running',
         Blocks(code, blocks, insert, stack), Ended(code, insert, stack)
  PROVE  Blocks(code', blocks', insert', stack') /\ Ended(code', insert', stack')
<1>1. /\ Running /\ Len(stack) = 1 /\ Top = stack[1]
      /\ Steps(stack, stack', 2, Call("defers", 0, 0, 0))
  BY BodyEndMoves
<1>2. code' = code /\ blocks' = blocks /\ insert' = insert
  BY DEF BodyEnd
<1>3. PICK f : f = Call("defers", 0, 0, 0)
  OBVIOUS
<1>4. f.at = "defers" /\ ~f.returns /\ Steps(stack, stack', Len(stack) + 1, f)
  <2>1. f.at = "defers" /\ f.returns = FALSE
    BY <1>3 DEF Call
  <2>2. Len(stack) + 1 = 2
    BY <1>1
  <2>3. QED
    BY <1>1, <1>3, <2>1, <2>2
<1>5. Len(stack) <= 2
  BY <1>1
<1>6. QED
  BY <1>1, <1>2, <1>4, <1>5, PushBlocks

\* A body is generated again only right above the return of the function.
LEMMA RepeatingDefers ==
  ASSUME Inv, ShapeInv, Running, stack[1].returns, Top.at = "defers"
  PROVE  Len(stack) = 2 /\ Caller = stack[1]
<1>1. /\ stack[1].at = "function" /\ Len(stack) \in Nat \ {0} /\ Top = stack[Len(stack)]
      /\ \A j \in 1 .. Len(stack) : j >= 3 => stack[j].at # "defers"
  BY TopOK, Repeating
<1>2. Len(stack) # 1
  BY <1>1
<1>3. ~(Len(stack) >= 3)
  BY <1>1
<1>4. Len(stack) = 2
  BY <1>1, <1>2, <1>3, Heights, Zenon
<1>5. QED
  BY <1>4 DEF Caller

LEMMA DeferredBlocks ==
  ASSUME Inv, ShapeInv, TargetInv, DeferredBody, Running',
         Blocks(code, blocks, insert, stack), Ended(code, insert, stack)
  PROVE  Blocks(code', blocks', insert', stack') /\ Ended(code', insert', stack')
<1>1. PICK f \in Frame : /\ f.at = "deferred" /\ ~f.returns
                         /\ Steps(stack, stack', Len(stack) + 1, f)
  BY DeferredMoves
<1>2. Running /\ Top.at = "defers"
  BY DeferredMoves
<1>3. code' = code /\ blocks' = blocks /\ insert' = insert
  BY DEF DeferredBody
<1>4. ~Top.returns
  BY <1>2, TopBlocks
<1>5. ASSUME stack[1].returns PROVE Len(stack) <= 2
  <2>1. Len(stack) = 2
    BY <1>2, <1>5, RepeatingDefers
  <2>2. QED
    BY <2>1
<1>6. QED
  BY <1>1, <1>2, <1>3, <1>4, <1>5, PushBlocks

LEMMA DeferredDoneBlocks ==
  ASSUME Inv, ShapeInv, TargetInv, DeferredDone,
         Blocks(code, blocks, insert, stack), Ended(code, insert, stack)
  PROVE  Blocks(code', blocks', insert', stack') /\ Ended(code', insert', stack')
<1>1. /\ Running /\ Top.at = "deferred"
      /\ code' = code /\ blocks' = blocks /\ insert' = insert
  BY DEF DeferredDone, BodyDone
<1>2. /\ Caller \in Frame /\ Caller.at = "defers"
      /\ Len(stack) > 1 /\ Caller = stack[Len(stack) - 1]
      /\ Steps(stack, stack', Len(stack) - 1, After(Caller, 0))
  BY DeferredDoneShape
<1>3. /\ Len(stack) \in Nat \ {0} /\ Top = stack[Len(stack)] /\ Top \in Frame
      /\ stack[1].returns => Len(stack) <= 3
  BY <1>1, TopBlocks
<1>4. ~Top.returns
  BY <1>1, TopShape DEF PlaceOK
<1>5. ~Caller.returns
  BY <1>1, <1>2, TopRest DEF FrameRest
<1>6. PICK f : f = After(Caller, 0)
  OBVIOUS
<1>7. PICK n \in Nat : n = Len(stack) - 1
  BY <1>3
<1>8. /\ f.at = Caller.at /\ f.after = Caller.after /\ f.orelse = Caller.orelse
      /\ f.returns = Caller.returns /\ Steps(stack, stack', n, f)
      /\ stack[n] = Caller
  <2>1. 0 \in Nat
    OBVIOUS
  <2>2. /\ f.returns = Caller.returns /\ f.at = Caller.at
        /\ f.after = Caller.after /\ f.orelse = Caller.orelse
    BY <1>2, <1>6, <2>1, AfterIs, Zenon
  <2>3. QED
    BY <1>2, <1>6, <1>7, <2>2
<1>9. /\ n <= Len(stack) /\ ~(n > Len(stack)) /\ (n = 1 => f.returns = stack[1].returns)
      /\ stack[1].returns => n <= 3
  BY <1>3, <1>7, <1>8
<1>10. \A k \in 1 .. Len(stack) : k > n => stack[k].at \in {"deferred", "defers"}
  <2>1. \A k \in 1 .. Len(stack) : k > n => k = Len(stack)
    BY <1>3, <1>7
  <2>2. QED
    BY <1>1, <1>3, <2>1
<1>11. QED
  BY <1>1, <1>4, <1>5, <1>8, <1>9, <1>10, QuietBlocks

\* The code goes on in a block that is new.
LEMMA BreakBlocks ==
  ASSUME Inv, ShapeInv, TargetInv, ~ReturnsAndDefers, BreakStmt,
         Blocks(code, blocks, insert, stack), Ended(code, insert, stack)
  PROVE  Blocks(code', blocks', insert', stack') /\ Ended(code', insert', stack')
<1>1. InBody /\ Running /\ Steps(stack, stack', Len(stack), After(Top, 0))
  BY BreakMoves
<1>2. CASE loop_blocks = <<>>
  <2>1. code' = code /\ insert' = insert /\ blocks' = blocks
    BY <1>2, BreakEmits
  <2>2. QED
    BY <1>1, <2>1, PassedBlocks
<1>3. CASE loop_blocks # <<>>
  <2>1. ~stack[1].returns /\ ~Closed(code, insert)
    BY <1>1, <1>3, OpenHere
  <2>2. /\ Len(stack) \in Nat \ {0} /\ Top = stack[Len(stack)] /\ Top \in Frame
        /\ ~Doubled(code) /\ code \in Seq(Instr)
        /\ blocks \in Nat /\ insert \in Nat /\ stack \in Seq(Frame)
    BY <1>1, TopBlocks
  <2>3. PICK x \in Instr : x.op = "br" /\ x.block = insert /\ code' = Append(code, x)
    BY <1>3, BreakEmits
  <2>4. PICK m \in Nat : m = blocks + 1
    BY <2>2
  <2>5. blocks' = m /\ insert' = m
    BY <1>3, <2>4, BreakEmits
  <2>6. PICK f : f = After(Top, 0)
    OBVIOUS
  <2>7. /\ f.at = Top.at /\ f.after = Top.after /\ f.orelse = Top.orelse
        /\ f.returns = Top.returns /\ Steps(stack, stack', Len(stack), f)
    BY <1>1, <2>2, <2>6, AfterIs
  <2>8. PICK e : e = code'
    OBVIOUS
  <2>9. /\ ~Doubled(e) /\ \A a : Closed(code, a) => Closed(e, a)
        /\ \A a : Empty(code, a) /\ a # insert => Empty(e, a)
        /\ \A a : Closed(e, a) => Closed(code, a) \/ a = insert
        /\ Closed(e, insert)
    BY <2>1, <2>2, <2>3, <2>8, AddsOne
  <2>10. insert \in 1 .. blocks /\ Targets(code, blocks)
    BY <1>1 DEF Inv, TypeOK, TargetInv
  <2>11. /\ insert # m /\ m > blocks /\ blocks <= m
         /\ \A a \in 1 .. blocks : a \in 1 .. m /\ a # m
         /\ \A a \in 1 .. m : a > blocks => a = m
    BY <2>2, <2>4, <2>10
  <2>12. Len(stack) \in 1 .. Len(stack)
    BY <2>2
  <2>13. /\ Awaited(f) = Awaited(stack[Len(stack)])
         /\ AwaitsOK(code, blocks, insert, f)
         /\ \A k \in 1 .. Len(stack) : k < Len(stack) => Awaited(stack[k]) \cap Awaited(f) = {}
    BY <2>2, <2>7, <2>12, KeptFrame
  <2>14. AwaitsOK(e, m, m, f)
    BY <2>9, <2>11, <2>13 DEF AwaitsOK
  <2>15. \A k \in 1 .. Len(stack) : m \notin Awaited(stack[k])
    BY <2>11 DEF Blocks, AwaitsOK
  <2>16. \A k \in 1 .. Len(stack) : k >= Len(stack) => Awaited(stack[k]) \subseteq Awaited(f) \union {m}
    <3>1. \A k \in 1 .. Len(stack) : k >= Len(stack) => k = Len(stack)
      BY <2>2
    <3>2. QED
      BY <2>13, <3>1
  <2>17. Blocks(e, m, m, stack')
    <3>1. \A a \in 1 .. blocks : Empty(code, a) /\ a # insert /\ a # m => Empty(e, a)
      BY <2>9
    <3>2. \A a \in 1 .. m : a > blocks => Closed(e, a) \/ a = m \/ a \in Awaited(f)
      BY <2>11
    <3>3. \A k \in 1 .. Len(stack) : k < Len(stack) =>
            Awaited(stack[k]) \cap Awaited(f) = {} /\ m \notin Awaited(stack[k])
      BY <2>13, <2>15
    <3>4. QED
      BY <2>2, <2>7, <2>9, <2>11, <2>14, <2>16, <3>1, <3>2, <3>3, BlocksStep
  <2>18. ~Closed(e, m)
    BY <2>2, <2>9, <2>10, <2>11, NewEmpty, EmptyOpen
  <2>19. ~stack'[1].returns /\ ~Last(stack').returns
    <3>1. Last(stack') = f
      BY <2>7 DEF Steps
    <3>2. Len(stack) = 1 => f.returns = stack[1].returns
      BY <2>2, <2>7
    <3>3. stack'[1].returns = stack[1].returns
      BY <2>7, <3>2, SameFirst
    <3>4. ~Top.returns
      BY <1>1, ThisShape
    <3>5. QED
      BY <2>1, <2>7, <3>1, <3>3, <3>4
  <2>20. QED
    BY <2>5, <2>8, <2>17, <2>18, <2>19 DEF Ended
<1>4. QED
  BY <1>2, <1>3

\* An if or a loop begins: the builder stands in its first branch, and its other
\* blocks are waited for.
LEMMA EntersBlocks ==
  ASSUME Inv, InBody, ShapeInv, TargetInv, ~ReturnsAndDefers, This.op \notin {"break", "defer"},
         Blocks(code, blocks, insert, stack), Ended(code, insert, stack),
         code' = code \o <<Br(insert, blocks + 1), CondBr(blocks + 1, Name, blocks + 2, blocks + 3)>>,
         insert' = blocks + 2,
         NEW f, f.at \in {"then", "loop"}, ~f.returns, f.after = blocks',
         \/ blocks' = blocks + 3 /\ (f.at = "then" => f.orelse = 0)
         \/ blocks' = blocks + 4 /\ f.at = "then" /\ f.orelse = blocks + 3,
         Steps(stack, stack', Len(stack) + 1, f)
  PROVE  Blocks(code', blocks', insert', stack') /\ Ended(code', insert', stack')
<1>1. Running /\ ~stack[1].returns /\ ~Closed(code, insert)
  BY OpenHere DEF InBody
<1>2. /\ Len(stack) \in Nat \ {0} /\ ~Doubled(code) /\ code \in Seq(Instr)
      /\ blocks \in Nat /\ insert \in Nat /\ stack \in Seq(Frame)
  BY <1>1, TopBlocks
<1>3. insert \in 1 .. blocks /\ Targets(code, blocks)
  BY <1>1 DEF Inv, TypeOK, TargetInv
<1>4. PICK x, z \in Instr :
        /\ x.op = "br" /\ x.block = insert /\ z.op = "condbr" /\ z.block = blocks + 1
        /\ code' = Append(Append(code, x), z)
  BY TwoAre
<1>5. PICK c1 \in Nat, c2 \in Nat, c3 \in Nat, m \in Nat :
        c1 = blocks + 1 /\ c2 = blocks + 2 /\ c3 = blocks + 3 /\ m = blocks'
  <2>1. blocks' \in Nat /\ blocks + 1 \in Nat /\ blocks + 2 \in Nat /\ blocks + 3 \in Nat
    BY <1>2
  <2>2. QED
    BY <2>1
<1>6. /\ z.block = c1 /\ insert' = c2 /\ f.after = m
      /\ \/ m = c3 /\ (f.at = "then" => f.orelse = 0)
         \/ m = blocks + 4 /\ f.at = "then" /\ f.orelse = c3
  BY <1>4, <1>5
<1>7. PICK d : d = Append(code, x)
  OBVIOUS
<1>8. /\ ~Doubled(d) /\ \A a : Closed(code, a) => Closed(d, a)
      /\ \A a : Empty(code, a) /\ a # insert => Empty(d, a)
      /\ Closed(d, insert) /\ d \in Seq(Instr)
  BY <1>1, <1>2, <1>4, <1>7, AddsOne, OneMore
<1>9. PICK e : e = code'
  OBVIOUS
<1>10. Empty(code, c1) /\ Empty(code, c2) /\ \A a \in Nat : a > blocks => Empty(code, a)
  BY <1>2, <1>3, <1>5, NewEmpty
<1>11. insert # c1 /\ insert # c2 /\ c1 # c2
  BY <1>2, <1>3, <1>5
<1>12. ~Closed(d, c1)
  BY <1>8, <1>10, <1>11, EmptyOpen
<1>13. /\ ~Doubled(e) /\ \A a : Closed(d, a) => Closed(e, a)
       /\ \A a : Empty(d, a) /\ a # c1 => Empty(e, a)
       /\ Closed(e, c1)
  <2>1. e = Append(d, z) /\ ~Closed(d, z.block) /\ z.op \in {"br", "condbr", "ret"}
    BY <1>4, <1>6, <1>7, <1>9, <1>12
  <2>2. /\ ~Doubled(e) /\ \A a : Closed(d, a) => Closed(e, a)
        /\ \A a : Empty(d, a) /\ a # z.block => Empty(e, a)
        /\ Closed(e, z.block)
    BY <1>8, <2>1, AddsOne
  <2>3. QED
    BY <1>6, <2>2
<1>14. /\ \A a : Closed(code, a) => Closed(e, a)
       /\ \A a : Empty(code, a) /\ a # insert /\ a # c1 => Empty(e, a)
       /\ Closed(e, insert)
  BY <1>8, <1>13
<1>15. ~Closed(e, c2)
  BY <1>10, <1>11, <1>14, EmptyOpen
<1>16. \A a \in Awaited(f) : a \in Nat /\ a > blocks /\ a \in 1 .. m /\ a # c2 /\ a # c1 /\ a # insert
  <2>1. \A a \in Awaited(f) : a = m \/ a = c3
    BY <1>6 DEF Awaited
  <2>2. /\ m > blocks /\ m \in 1 .. m /\ m # c2 /\ m # c1 /\ m # insert
        /\ c3 > blocks /\ c3 \in 1 .. m /\ c3 # c2 /\ c3 # c1 /\ c3 # insert
    BY <1>2, <1>3, <1>5, <1>6
  <2>3. QED
    BY <2>1, <2>2
<1>17. AwaitsOK(e, m, c2, f)
  <2>1. \A a \in Awaited(f) : a \in 1 .. m /\ a # c2 /\ Empty(e, a)
    BY <1>10, <1>14, <1>16
  <2>2. f.at = "then" => f.after # f.orelse
    BY <1>2, <1>5, <1>6
  <2>3. QED
    BY <2>1, <2>2 DEF AwaitsOK
<1>18. \A k \in 1 .. Len(stack) : \A a \in Awaited(stack[k]) : a \in 1 .. blocks
  BY DEF Blocks, AwaitsOK
<1>19. \A k \in 1 .. Len(stack) : Awaited(stack[k]) \cap Awaited(f) = {} /\ c2 \notin Awaited(stack[k])
  <2>1. \A a \in 1 .. blocks : a \notin Awaited(f)
    BY <1>2, <1>16
  <2>2. c2 \notin 1 .. blocks
    BY <1>2, <1>5
  <2>3. QED
    BY <1>18, <2>1, <2>2
<1>20. \A a \in 1 .. m : a > blocks => Closed(e, a) \/ a = c2 \/ a \in Awaited(f)
  <2>1. SUFFICES ASSUME NEW a \in 1 .. m, a > blocks
                 PROVE  a = c1 \/ a = c2 \/ a \in Awaited(f)
    BY <1>13
  <2>2. a = c1 \/ a = c2 \/ a = c3 \/ a = m
    BY <1>2, <1>5, <1>6, <2>1
  <2>3. m \in Awaited(f) /\ c3 \in Awaited(f)
    <3>1. c3 # 0
      BY <1>2, <1>5
    <3>2. QED
      BY <1>6, <3>1 DEF Awaited
  <2>4. QED
    BY <2>2, <2>3
<1>21. Blocks(e, m, c2, stack')
  <2>1. PICK n \in Nat : n = Len(stack) + 1
    BY <1>2
  <2>2. /\ Steps(stack, stack', n, f) /\ \A k \in 1 .. Len(stack) : ~(k >= n)
    BY <1>2, <2>1
  <2>3. blocks <= m
    BY <1>2, <1>5, <1>6
  <2>4. \A a \in 1 .. blocks : Empty(code, a) /\ a # insert /\ a # c2 => Empty(e, a)
    <3>1. \A a \in 1 .. blocks : a # c1
      BY <1>2, <1>5
    <3>2. QED
      BY <1>14, <3>1
  <2>5. QED
    BY <1>2, <1>13, <1>14, <1>17, <1>19, <1>20, <2>2, <2>3, <2>4, BlocksStep, ZenonT(40)
<1>22. ~stack'[1].returns /\ ~Last(stack').returns
  <2>1. Last(stack') = f /\ Len(stack) + 1 # 1
    BY <1>2 DEF Steps
  <2>2. stack'[1].returns = stack[1].returns
    BY <2>1, SameFirst
  <2>3. QED
    BY <1>1, <2>1, <2>2
<1>23. QED
  BY <1>5, <1>6, <1>9, <1>15, <1>21, <1>22 DEF Ended

LEMMA IfBlocks ==
  ASSUME Inv, ShapeInv, TargetInv, ~ReturnsAndDefers, IfExpr, Running',
         Blocks(code, blocks, insert, stack), Ended(code, insert, stack)
  PROVE  Blocks(code', blocks', insert', stack') /\ Ended(code', insert', stack')
<1>1. /\ InBody /\ This.op \in {"if", "ifelse"} /\ insert' = blocks + 2
      /\ code' = code \o <<Br(insert, blocks + 1),
                           CondBr(blocks + 1, Name, blocks + 2, blocks + 3)>>
  BY IfMoves
<1>2. PICK orelse \in Nat, merge \in Nat, f \in Frame :
              /\ orelse = IF This.op = "if" THEN 0 ELSE blocks + 3
              /\ merge = IF This.op = "if" THEN blocks + 3 ELSE blocks + 4
              /\ blocks' = merge
              /\ f.at = "then" /\ ~f.returns
              /\ f.after = merge /\ f.orelse = orelse
              /\ Steps(stack, stack', Len(stack) + 1, f)
  BY IfMoves
<1>3. /\ This.op \notin {"break", "defer"} /\ f.after = blocks'
      /\ \/ blocks' = blocks + 3 /\ f.orelse = 0
         \/ blocks' = blocks + 4 /\ f.orelse = blocks + 3
  BY <1>1, <1>2
<1>4. /\ f.at \in {"then", "loop"} /\ ~f.returns /\ f.after = blocks'
      /\ \/ blocks' = blocks + 3 /\ (f.at = "then" => f.orelse = 0)
         \/ blocks' = blocks + 4 /\ f.at = "then" /\ f.orelse = blocks + 3
      /\ Steps(stack, stack', Len(stack) + 1, f)
  BY <1>2, <1>3
<1>5. InBody /\ This.op \notin {"break", "defer"} /\ insert' = blocks + 2
  BY <1>1
<1>6. code' = code \o <<Br(insert, blocks + 1),
                        CondBr(blocks + 1, Name, blocks + 2, blocks + 3)>>
  BY <1>1
<1>7. QED
  BY <1>4, <1>5, <1>6, EntersBlocks, SMTT(30)

LEMMA WhileBlocks ==
  ASSUME Inv, ShapeInv, TargetInv, ~ReturnsAndDefers, WhileExpr, Running',
         Blocks(code, blocks, insert, stack), Ended(code, insert, stack)
  PROVE  Blocks(code', blocks', insert', stack') /\ Ended(code', insert', stack')
<1>1. /\ InBody /\ This.op = "while" /\ insert' = blocks + 2 /\ blocks' = blocks + 3
      /\ code' = code \o <<Br(insert, blocks + 1),
                           CondBr(blocks + 1, Name, blocks + 2, blocks + 3)>>
  BY WhileMoves
<1>2. PICK f \in Frame :
        /\ f.at = "loop" /\ ~f.returns /\ f.after = blocks + 3
        /\ Steps(stack, stack', Len(stack) + 1, f)
  BY WhileMoves
<1>3. This.op \notin {"break", "defer"} /\ f.after = blocks'
  BY <1>1, <1>2
<1>4. QED
  BY <1>1, <1>2, <1>3, EntersBlocks

\* The code goes on in a block that the innermost frame has waited for.
LEMMA NextBlocks ==
  ASSUME Inv, Running, ShapeInv, TargetInv,
         Blocks(code, blocks, insert, stack), Ended(code, insert, stack), ~stack[1].returns,
         blocks' = blocks, NEW b, b \in Awaited(Top), insert' = b,
         ~Doubled(code'), \A a : Closed(code, a) => Closed(code', a),
         Closed(code', insert), ~Closed(code', b),
         \A a : Empty(code, a) /\ a # insert /\ a # b => Empty(code', a),
         NEW n, NEW f \in Frame, Steps(stack, stack', n, f), n <= Len(stack), ~f.returns,
         AwaitsOK(code, blocks, insert, f), b \notin Awaited(f),
         \A k \in 1 .. Len(stack) : k < n => Awaited(stack[k]) \cap Awaited(f) = {},
         \A k \in 1 .. Len(stack) : k >= n => Awaited(stack[k]) \subseteq Awaited(f) \union {b}
  PROVE  Blocks(code', blocks', insert', stack') /\ Ended(code', insert', stack')
<1>1. /\ Len(stack) \in Nat \ {0} /\ Top = stack[Len(stack)]
      /\ blocks \in Nat /\ insert \in Nat /\ stack \in Seq(Frame)
  BY TopBlocks
<1>2. n \in Nat \ {0} /\ Last(stack') = f
  BY DEF Steps
<1>3. \A k \in 1 .. Len(stack) : k < n => b \notin Awaited(stack[k])
  <2>1. SUFFICES ASSUME NEW k \in 1 .. Len(stack), k < n PROVE b \notin Awaited(stack[k])
    OBVIOUS
  <2>2. k < Len(stack) /\ Len(stack) \in 1 .. Len(stack)
    BY <1>1, <1>2, <2>1
  <2>3. Awaited(stack[k]) \cap Awaited(stack[Len(stack)]) = {}
    BY <2>2 DEF Blocks
  <2>4. QED
    BY <1>1, <2>3
<1>4. b \in Nat
  <2>1. AwaitsOK(code, blocks, insert, Top)
    <3>1. Len(stack) \in 1 .. Len(stack)
      BY <1>1
    <3>2. QED
      BY <1>1, <3>1 DEF Blocks
  <2>2. b \in 1 .. blocks
    BY <2>1 DEF AwaitsOK
  <2>3. QED
    BY <1>1, <2>2
<1>5. AwaitsOK(code', blocks, b, f)
  <2>1. \A a \in Awaited(f) : a # b
    OBVIOUS
  <2>2. QED
    BY <2>1 DEF AwaitsOK
<1>6. Blocks(code', blocks, b, stack')
  <2>1. blocks <= blocks /\ \A a \in 1 .. blocks : ~(a > blocks)
    BY <1>1
  <2>2. \A a \in 1 .. blocks : Empty(code, a) /\ a # insert /\ a # b => Empty(code', a)
    OBVIOUS
  <2>3. \A a \in 1 .. blocks : a > blocks => Closed(code', a) \/ a = b \/ a \in Awaited(f)
    BY <2>1
  <2>4. \A k \in 1 .. Len(stack) : k < n =>
          Awaited(stack[k]) \cap Awaited(f) = {} /\ b \notin Awaited(stack[k])
    BY <1>3
  <2>5. QED
    BY <1>1, <1>4, <1>5, <2>1, <2>2, <2>3, <2>4, BlocksStep
<1>7. stack'[1].returns = stack[1].returns
  <2>1. n = 1 => f.returns = stack[1].returns
    <3>1. stack[1] \in Frame
      BY TopBlocks
    <3>2. stack[1].returns = FALSE
      BY <3>1 DEF Frame
    <3>3. f.returns = FALSE
      BY DEF Frame
    <3>4. QED
      BY <3>2, <3>3
  <2>2. QED
    BY <2>1, SameFirst
<1>8. QED
  BY <1>2, <1>6, <1>7 DEF Ended

\* An if or a loop ends, with all that it has waited for being the block after it.
LEMMA PopBlocks ==
  ASSUME Inv, Running, ShapeInv, TargetInv,
         Blocks(code, blocks, insert, stack), Ended(code, insert, stack), ~stack[1].returns,
         Top.at \in {"then", "else", "loop"}, Top.at = "then" => Top.orelse = 0,
         blocks' = blocks, insert' = Top.after,
         ~Doubled(code'), \A a : Closed(code, a) => Closed(code', a),
         Closed(code', insert), ~Closed(code', Top.after),
         \A a : Empty(code, a) /\ a # insert /\ a # Top.after => Empty(code', a),
         NEW v \in Nat, Steps(stack, stack', Len(stack) - 1, After(Caller, v))
  PROVE  Blocks(code', blocks', insert', stack') /\ Ended(code', insert', stack')
<1>1. /\ Len(stack) \in Nat \ {0} /\ Top = stack[Len(stack)] /\ Len(stack) > 1
      /\ Caller \in Frame /\ Caller = stack[Len(stack) - 1]
  BY TopOK DEF Caller
<1>2. Awaited(Top) = {Top.after}
  BY DEF Awaited
<1>3. PICK f \in Frame : f = After(Caller, v)
  BY <1>1, AfterIs
<1>4. PICK n \in Nat : n = Len(stack) - 1
  BY <1>1
<1>5. PICK b : b = Top.after
  OBVIOUS
<1>6. /\ f.at = Caller.at /\ f.after = Caller.after /\ f.orelse = Caller.orelse
      /\ f.returns = Caller.returns /\ Steps(stack, stack', n, f) /\ stack[n] = Caller
      /\ n \in 1 .. Len(stack) /\ n <= Len(stack) /\ n < Len(stack)
  <2>1. /\ f.at = Caller.at /\ f.after = Caller.after /\ f.orelse = Caller.orelse
        /\ f.returns = Caller.returns
    BY <1>1, <1>3, AfterIs
  <2>2. Steps(stack, stack', n, f) /\ stack[n] = Caller
    BY <1>1, <1>3, <1>4
  <2>3. n \in 1 .. Len(stack) /\ n <= Len(stack) /\ n < Len(stack)
    BY <1>1, <1>4
  <2>4. QED
    BY <2>1, <2>2, <2>3
<1>7. ~f.returns
  <2>1. PlaceOK(fn, Caller)
    BY TopShape
  <2>2. Caller.at # "defers" /\ Caller.i \in 1 .. Len(fn[Caller.body])
    BY CallerOK
  <2>3. fn \in Seq(Seq(Stmt)) /\ Caller.body \in 1 .. Len(fn)
    BY CallerOK, Types
  <2>4. Len(fn[Caller.body]) \in Nat
    BY <2>3
  <2>5. Caller.i # Len(fn[Caller.body]) + 1
    BY <2>2, <2>4
  <2>6. QED
    BY <1>6, <2>1, <2>2, <2>5 DEF PlaceOK
<1>8. /\ Awaited(f) = Awaited(stack[n]) /\ AwaitsOK(code, blocks, insert, f)
      /\ \A k \in 1 .. Len(stack) : k < n => Awaited(stack[k]) \cap Awaited(f) = {}
  BY <1>6, KeptFrame
<1>9. b \notin Awaited(f)
  <2>1. Len(stack) \in 1 .. Len(stack)
    BY <1>1
  <2>2. Awaited(stack[n]) \cap Awaited(stack[Len(stack)]) = {}
    BY <1>6, <2>1 DEF Blocks
  <2>3. QED
    BY <1>1, <1>2, <1>5, <1>8, <2>2
<1>10. \A k \in 1 .. Len(stack) : k >= n => Awaited(stack[k]) \subseteq Awaited(f) \union {b}
  <2>1. \A k \in 1 .. Len(stack) : k >= n => k = n \/ k = Len(stack)
    BY <1>1, <1>4
  <2>2. QED
    BY <1>1, <1>2, <1>5, <1>8, <2>1
<1>11. /\ b \in Awaited(Top) /\ insert' = b /\ ~Closed(code', b)
       /\ \A a : Empty(code, a) /\ a # insert /\ a # b => Empty(code', a)
  BY <1>2, <1>5
<1>12. QED
  BY <1>6, <1>7, <1>8, <1>9, <1>10, <1>11, NextBlocks

\* What the innermost frame waits for
LEMMA AwaitedHere ==
  ASSUME Inv, Running, ShapeInv, TargetInv,
         Blocks(code, blocks, insert, stack), Ended(code, insert, stack)
  PROVE  AwaitsOK(code, blocks, insert, Top)
<1>1. Len(stack) \in Nat \ {0} /\ Top = stack[Len(stack)]
  BY TopBlocks
<1>2. Len(stack) \in 1 .. Len(stack)
  BY <1>1
<1>3. QED
  BY <1>1, <1>2 DEF Blocks

\* The code after a branch
LEMMA EndBlocks ==
  ASSUME Inv, Running, ShapeInv, TargetInv,
         Blocks(code, blocks, insert, stack), Ended(code, insert, stack), ~stack[1].returns,
         Top.at \in {"then", "else"}
  PROVE  /\ ~Doubled(BranchEnd) /\ \A a : Closed(code, a) => Closed(BranchEnd, a)
         /\ Closed(BranchEnd, insert) /\ BranchEnd \in Seq(Instr)
         /\ \A a : Empty(code, a) /\ a # insert => Empty(BranchEnd, a)
<1>1. /\ ~Doubled(code) /\ code \in Seq(Instr)
      /\ Closed(code, insert) <=> Top.returns \/ stack[1].returns
  BY TopBlocks
<1>2. CASE Top.returns /\ BranchEnd = code
  BY <1>1, <1>2
<1>3. CASE /\ ~Top.returns
           /\ \E x \in Instr : /\ x.op = "br" /\ x.block = insert /\ x.to = <<Top.after>>
                               /\ x.args = <<>> /\ BranchEnd = Append(code, x)
  <2>1. PICK x \in Instr : x.op = "br" /\ x.block = insert /\ BranchEnd = Append(code, x)
    BY <1>3
  <2>2. PICK e : e = Append(code, x)
    OBVIOUS
  <2>3. ~Closed(code, x.block)
    BY <1>1, <1>3, <2>1
  <2>4. /\ ~Doubled(e) /\ \A a : Closed(code, a) => Closed(e, a)
        /\ \A a : Empty(code, a) /\ a # x.block => Empty(e, a)
        /\ Closed(e, x.block) /\ e \in Seq(Instr)
    BY <1>1, <2>1, <2>2, <2>3, AddsOne, OneMore
  <2>5. QED
    BY <2>1, <2>2, <2>4
<1>4. QED
  BY <1>2, <1>3, EndIs

\* Nothing that is generated again has an if or a loop in it.
LEMMA NotAgain ==
  ASSUME Inv, Running, ShapeInv, MarkInv, Blocks(code, blocks, insert, stack),
         Top.at \in {"then", "else", "loop"}
  PROVE  ~stack[1].returns
BY HighDoubled DEF Blocks

LEMMA ThenDoneBlocks ==
  ASSUME Inv, ShapeInv, MarkInv, TargetInv, ThenDone,
         Blocks(code, blocks, insert, stack), Ended(code, insert, stack)
  PROVE  Blocks(code', blocks', insert', stack') /\ Ended(code', insert', stack')
<1>1. /\ Running /\ Top.at = "then" /\ Top.orelse # 0 /\ blocks' = blocks
      /\ insert' = Top.orelse /\ code' = BranchEnd
  BY DEF ThenDone, BodyDone
<1>2. ~stack[1].returns
  BY <1>1, NotAgain
<1>3. /\ ~Doubled(code') /\ \A a : Closed(code, a) => Closed(code', a)
      /\ Closed(code', insert)
      /\ \A a : Empty(code, a) /\ a # insert => Empty(code', a)
  BY <1>1, <1>2, EndBlocks
<1>4. PICK f : f = [Call("else", fn[Caller.body][Caller.i].orelse, Top.after, 0) EXCEPT
                     !.thenValue = Top.value, !.thenBlock = insert]
  OBVIOUS
<1>5. /\ f \in Frame /\ f.at = "else" /\ ~f.returns /\ f.after = Top.after /\ f.orelse = 0
      /\ Steps(stack, stack', Len(stack), f)
  BY <1>4, ElseShape
<1>6. AwaitsOK(code, blocks, insert, Top)
  BY <1>1, AwaitedHere
<1>7. Awaited(Top) = {Top.after, Top.orelse} /\ Awaited(f) = {Top.after}
  BY <1>1, <1>5 DEF Awaited
<1>8. /\ Top.after # Top.orelse /\ Empty(code, Top.orelse) /\ Top.orelse # insert
  BY <1>1, <1>6, <1>7 DEF AwaitsOK
<1>9. ~Closed(code', Top.orelse)
  BY <1>3, <1>8, EmptyOpen
<1>10. AwaitsOK(code, blocks, insert, f)
  BY <1>5, <1>6, <1>7 DEF AwaitsOK
<1>11. Len(stack) \in Nat \ {0} /\ Top = stack[Len(stack)] /\ Len(stack) \in 1 .. Len(stack)
  BY <1>1, TopBlocks
<1>12. \A k \in 1 .. Len(stack) : k < Len(stack) => Awaited(stack[k]) \cap Awaited(f) = {}
  <2>1. SUFFICES ASSUME NEW k \in 1 .. Len(stack), k < Len(stack)
                 PROVE  Awaited(stack[k]) \cap Awaited(Top) = {}
    BY <1>7
  <2>2. QED
    BY <1>11, <2>1 DEF Blocks
<1>13. \A k \in 1 .. Len(stack) : k >= Len(stack) =>
         Awaited(stack[k]) \subseteq Awaited(f) \union {Top.orelse}
  <2>1. \A k \in 1 .. Len(stack) : k >= Len(stack) => k = Len(stack)
    BY <1>11
  <2>2. QED
    BY <1>7, <1>11, <2>1
<1>14. PICK b : b = Top.orelse
  OBVIOUS
<1>15. /\ b \in Awaited(Top) /\ insert' = b /\ ~Closed(code', b) /\ b \notin Awaited(f)
       /\ \A a : Empty(code, a) /\ a # insert /\ a # b => Empty(code', a)
       /\ \A k \in 1 .. Len(stack) : k >= Len(stack) => Awaited(stack[k]) \subseteq Awaited(f) \union {b}
  BY <1>1, <1>3, <1>7, <1>8, <1>9, <1>13, <1>14
<1>16. Len(stack) <= Len(stack)
  BY <1>11
<1>17. QED
  BY <1>1, <1>2, <1>3, <1>5, <1>10, <1>12, <1>15, <1>16, NextBlocks

LEMMA IfDoneBlocks ==
  ASSUME Inv, ShapeInv, MarkInv, TargetInv, IfDone, Running',
         Blocks(code, blocks, insert, stack), Ended(code, insert, stack)
  PROVE  Blocks(code', blocks', insert', stack') /\ Ended(code', insert', stack')
<1>1. /\ Running /\ Top.at = "then" /\ Top.orelse = 0 /\ blocks' = blocks
      /\ insert' = Top.after /\ code' = BranchEnd
      /\ Steps(stack, stack', Len(stack) - 1, After(Caller, 0))
  BY IfDoneMoves
<1>2. ~stack[1].returns
  BY <1>1, NotAgain
<1>3. /\ ~Doubled(code') /\ \A a : Closed(code, a) => Closed(code', a)
      /\ Closed(code', insert)
      /\ \A a : Empty(code, a) /\ a # insert => Empty(code', a)
  BY <1>1, <1>2, EndBlocks
<1>4. AwaitsOK(code, blocks, insert, Top) /\ Top.after \in Awaited(Top)
  BY <1>1, AwaitedHere DEF Awaited
<1>5. ~Closed(code', Top.after)
  BY <1>3, <1>4, EmptyOpen DEF AwaitsOK
<1>6. QED
  BY <1>1, <1>2, <1>3, <1>5, PopBlocks, 0 \in Nat

LEMMA IfElseDoneBlocks ==
  ASSUME Inv, ShapeInv, MarkInv, TargetInv, IfElseDone, Running',
         Blocks(code, blocks, insert, stack), Ended(code, insert, stack)
  PROVE  Blocks(code', blocks', insert', stack') /\ Ended(code', insert', stack')
<1>1. /\ Running /\ Top.at = "else" /\ blocks' = blocks /\ insert' = Top.after
  BY IfElseDoneMoves
<1>2. ~stack[1].returns
  BY <1>1, NotAgain
<1>3. PICK e : e = BranchEnd
  OBVIOUS
<1>4. /\ ~Doubled(e) /\ \A a : Closed(code, a) => Closed(e, a)
      /\ Closed(e, insert) /\ e \in Seq(Instr)
      /\ \A a : Empty(code, a) /\ a # insert => Empty(e, a)
  BY <1>1, <1>2, <1>3, EndBlocks
<1>5. AwaitsOK(code, blocks, insert, Top) /\ Top.after \in Awaited(Top)
  BY <1>1, AwaitedHere DEF Awaited
<1>6. Empty(code, Top.after) /\ Top.after # insert
  BY <1>5 DEF AwaitsOK
<1>7. ~Closed(e, Top.after)
  BY <1>4, <1>6, EmptyOpen
<1>8. /\ ~Doubled(code') /\ \A a : Closed(code, a) => Closed(code', a)
      /\ Closed(code', insert) /\ ~Closed(code', Top.after)
      /\ \A a : Empty(code, a) /\ a # insert /\ a # Top.after => Empty(code', a)
  <2>1. CASE code' = BranchEnd
    BY <1>3, <1>4, <1>7, <2>1
  <2>2. CASE code' # BranchEnd
    <3>1. PICK x \in Instr : x.op = "phi" /\ x.block = Top.after /\ code' = Append(e, x)
      BY <1>3, <2>2, IfElseEmits
    <3>2. PICK g : g = code'
      OBVIOUS
    <3>3. ~Closed(e, x.block) /\ x.op \notin {"br", "condbr", "ret"}
      BY <1>7, <3>1
    <3>4. /\ ~Doubled(g) /\ \A a : Closed(e, a) => Closed(g, a)
          /\ \A a : Closed(g, a) => Closed(e, a)
          /\ \A a : Empty(e, a) /\ a # x.block => Empty(g, a)
      BY <1>4, <3>1, <3>2, <3>3, AddsOne
    <3>5. QED
      BY <1>4, <1>7, <3>1, <3>2, <3>4
  <2>3. QED
    BY <2>1, <2>2
<1>9. PICK w \in Nat : Steps(stack, stack', Len(stack) - 1, After(Caller, w))
  <2>1. Len(code') \in Nat
    BY IfElseEmits
  <2>2. QED
    BY <2>1, IfElseDoneMoves
<1>10. QED
  BY <1>1, <1>2, <1>8, <1>9, PopBlocks

LEMMA WhileDoneBlocks ==
  ASSUME Inv, ShapeInv, MarkInv, TargetInv, WhileDone,
         Blocks(code, blocks, insert, stack), Ended(code, insert, stack)
  PROVE  Blocks(code', blocks', insert', stack') /\ Ended(code', insert', stack')
<1>1. /\ Running /\ Top.at = "loop" /\ blocks' = blocks /\ insert' = Top.after
  BY WhileDoneMoves DEF WhileDone
<1>2. ~stack[1].returns
  BY <1>1, NotAgain
<1>3. ~Top.returns
  BY <1>1, TopShape DEF PlaceOK
<1>4. ~Doubled(code) /\ code \in Seq(Instr) /\ ~Closed(code, insert) /\ Top \in Frame
  BY <1>1, <1>2, <1>3, TopBlocks
<1>5. PICK x \in Instr : x.op = "condbr" /\ x.block = insert /\ code' = Append(code, x)
  BY WhileDoneEmits
<1>6. PICK e : e = code'
  OBVIOUS
<1>7. /\ ~Doubled(e) /\ \A a : Closed(code, a) => Closed(e, a)
      /\ Closed(e, insert)
      /\ \A a : Empty(code, a) /\ a # insert => Empty(e, a)
  BY <1>4, <1>5, <1>6, AddsOne
<1>8. AwaitsOK(code, blocks, insert, Top) /\ Top.after \in Awaited(Top)
  BY <1>1, AwaitedHere DEF Awaited
<1>9. ~Closed(e, Top.after)
  BY <1>7, <1>8, EmptyOpen DEF AwaitsOK
<1>10. PICK w \in Nat : Steps(stack, stack', Len(stack) - 1, After(Caller, w))
  <2>1. Top.value \in Nat
    BY <1>4 DEF Frame
  <2>2. QED
    BY <2>1, WhileDoneMoves
<1>11. QED
  BY <1>1, <1>2, <1>6, <1>7, <1>9, <1>10, PopBlocks

\* The body of a frame for a loop is the body of a loop.
LEMMA LoopFrame ==
  ASSUME Inv, Running, ShapeInv, NEW j \in 1 .. Len(stack), stack[j].at = "loop"
  PROVE  /\ j > 1 /\ IsLoop(fn, stack[j].body)
         /\ fn[stack[j - 1].body][stack[j - 1].i].op = "while"
         /\ fn[stack[j - 1].body][stack[j - 1].i].body = stack[j].body
<1>1. /\ StackOK(fn, blocks, stack) /\ Shape(fn, defer_blocks, stack) /\ IsFunction(fn)
      /\ stack \in Seq(Frame)
  BY Types DEF Inv, TypeOK, ShapeInv
<1>2. j > 1 /\ j - 1 \in 1 .. Len(stack)
  BY <1>1 DEF StackOK
<1>3. PICK lo, hi : lo = stack[j - 1] /\ hi = stack[j]
  OBVIOUS
<1>4. lo \in Frame /\ FrameOK(fn, blocks, lo) /\ Linked(fn, lo, hi) /\ hi.at = "loop"
  BY <1>1, <1>2, <1>3 DEF StackOK
<1>5. WaitsFor(fn, defer_blocks, lo, hi)
  BY <1>1, <1>2, <1>3 DEF Shape
<1>6. /\ lo.body \in 1 .. Len(fn) /\ lo.i <= Len(fn[lo.body]) /\ lo.i >= 1 /\ lo.i \in Nat
  BY <1>4 DEF FrameOK, Linked, Frame
<1>7. lo.i \in 1 .. Len(fn[lo.body])
  BY <1>1, <1>6, StatementsOf
<1>8. /\ fn[lo.body][lo.i].op = "while" /\ fn[lo.body][lo.i].body = hi.body
      /\ hi.body \in BodiesOf(fn, <<lo.body, lo.i>>)
  BY <1>4, <1>5 DEF WaitsFor
<1>9. PICK t : t = <<lo.body, lo.i>>
  OBVIOUS
<1>10. t \in Statements(fn) /\ hi.body \in BodiesOf(fn, t) /\ OpOf(fn, t) = "while"
  BY <1>1, <1>6, <1>7, <1>8, <1>9, StatementsOf DEF OpOf
<1>11. IsLoop(fn, hi.body)
  BY <1>1, <1>10, LoopBodies
<1>12. QED
  BY <1>2, <1>3, <1>8, <1>11

LEMMA ReturnBuiltBlocks ==
  ASSUME Inv, ShapeInv, TargetInv, ~ReturnsInLoop, ReturnBuilt,
         Blocks(code, blocks, insert, stack), Ended(code, insert, stack)
  PROVE  Blocks(code', blocks', insert', stack') /\ Ended(code', insert', stack')
<1>1. /\ blocks' = blocks /\ insert' = insert /\ IsFunction(fn)
      /\ Running /\ Top.at = "defers"
  BY DEF ReturnBuilt, DefersDone, InDefers, Inv, TypeOK
<1>2. PICK f : f = [Caller EXCEPT !.i = Len(fn[Caller.body]) + 1, !.value = 0,
                                  !.returns = Caller.at \notin {"loop", "deferred"}]
  OBVIOUS
<1>3. /\ Caller \in Frame /\ Caller.at \in {"function", "then", "else", "loop"}
      /\ Caller = stack[Len(stack) - 1] /\ Len(stack) > 1
      /\ Caller.body \in LiveBodies(fn, 1)
      /\ Caller.body \in 1 .. Len(fn) /\ Caller.i \in 1 .. Len(fn[Caller.body])
      /\ fn[Caller.body][Caller.i].op = "return"
      /\ f.at = Caller.at /\ f.returns = (Caller.at # "loop")
      /\ f.after = Caller.after /\ f.orelse = Caller.orelse
      /\ Steps(stack, stack', Len(stack) - 1, f)
  BY <1>2, ReturnShape
<1>4. /\ Len(stack) \in Nat \ {0} /\ Top = stack[Len(stack)] /\ ~Top.returns
      /\ ~Doubled(code) /\ code \in Seq(Instr)
      /\ Closed(code, insert) <=> Top.returns \/ stack[1].returns
  BY <1>1, TopBlocks
<1>5. PlaceOK(fn, Caller)
  BY <1>1, TopShape
<1>6. Caller.i # Len(fn[Caller.body]) + 1
  <2>1. Len(fn[Caller.body]) \in Nat
    BY <1>1, <1>3, StatementsOf
  <2>2. QED
    BY <1>3, <2>1
<1>7. ~stack[1].returns
  <2>1. SUFFICES ASSUME stack[1].returns PROVE FALSE
    OBVIOUS
  <2>2. Caller = stack[1]
    BY <1>1, <2>1, RepeatingDefers
  <2>3. stack[1].body = 1 /\ stack[1].i = Len(fn[1]) + 1
    BY <1>1, <2>1, Repeating
  <2>4. QED
    BY <1>6, <2>2, <2>3
<1>8. Caller.at # "loop"
  <2>1. SUFFICES ASSUME Caller.at = "loop" PROVE ReturnsInLoop
    OBVIOUS
  <2>2. Len(stack) - 1 \in 1 .. Len(stack)
    BY <1>3, <1>4
  <2>3. IsLoop(fn, Caller.body)
    BY <1>1, <1>3, <2>1, <2>2, LoopFrame
  <2>4. \A r \in Returns(fn, Caller.body) : r >= Caller.i
    BY <1>3, <1>5, <1>6 DEF PlaceOK
  <2>5. PICK t : t = <<Caller.body, Caller.i>>
    OBVIOUS
  <2>6. t \in LiveIn(fn, 1)
    BY <1>1, <1>3, <2>4, <2>5, LiveHere
  <2>7. OpOf(fn, t) = "return" /\ t[1] = Caller.body
    BY <1>3, <2>5 DEF OpOf
  <2>8. QED
    BY <2>3, <2>6, <2>7 DEF ReturnsInLoop, LiveStmts
<1>9. PICK x \in Instr : x.op = "ret" /\ x.block = insert /\ code' = Append(code, x)
  BY ReturnEmits
<1>10. PICK n \in Nat : n = Len(stack) - 1
  BY <1>4
<1>11. /\ Steps(stack, stack', n, f) /\ stack[n] = Caller /\ n <= Len(stack)
       /\ ~(n > Len(stack))
       /\ \A k \in 1 .. Len(stack) : k > n => k = Len(stack)
  BY <1>3, <1>4, <1>10
<1>12. \A k \in 1 .. Len(stack) : k > n => stack[k].at \in {"deferred", "defers"}
  BY <1>1, <1>4, <1>11
<1>13. Blocks(code', blocks', insert', stack')
  BY <1>1, <1>3, <1>4, <1>7, <1>9, <1>11, <1>12, SameBlocks
<1>14. Closed(code', insert)
  BY ReturnEmits
<1>15. Last(stack') = f /\ Len(stack') = n
  BY <1>11 DEF Steps
<1>16. stack'[1].returns => Len(stack') <= 3
  <2>1. CASE n = 1
    BY <1>15, <2>1
  <2>2. CASE n # 1
    <3>1. stack'[1].returns = stack[1].returns
      BY <1>11, <2>2, SameFirst
    <3>2. QED
      BY <1>7, <3>1
  <2>3. QED
    BY <2>1, <2>2
<1>17. QED
  BY <1>1, <1>3, <1>8, <1>13, <1>14, <1>15, <1>16 DEF Ended

\* Every step keeps the blocks so, in a function that neither returns in a loop
\* nor at the top level with something deferred.
LEMMA BlockNext ==
  ASSUME Inv, ShapeInv, MarkInv, TargetInv, BlockInv, PlainHere, Generate
  PROVE  BlockInv'
<1>1. fn' = fn /\ Running
  BY DEF Generate, CallStmt, BreakStmt, DeferStmt, ReturnStmt, IfExpr, ThenDone, IfDone, IfElseDone,
         WhileExpr, WhileDone, DeferredBody, DeferredDone, ReturnBuilt, BodyEnd, FunctionEnd, Merge,
         InBody, At, BodyDone, InDefers, DefersDone
<1>2. (ReturnsInLoop' <=> ReturnsInLoop) /\ (ReturnsAndDefers' <=> ReturnsAndDefers)
  BY <1>1 DEF ReturnsInLoop, ReturnsAndDefers, LiveStmts
<1>3. SUFFICES ASSUME Running', ~ReturnsInLoop, ~ReturnsAndDefers
               PROVE  Blocks(code', blocks', insert', stack') /\ Ended(code', insert', stack')
  BY <1>2 DEF BlockInv
<1>4. Blocks(code, blocks, insert, stack) /\ Ended(code, insert, stack)
  BY <1>1, <1>3 DEF BlockInv
<1>5. ~FunctionEnd
  BY <1>3 DEF FunctionEnd, Running
<1>6. CASE CallStmt
  BY <1>3, <1>4, <1>6, CallBlocks
<1>7. CASE BreakStmt
  BY <1>3, <1>4, <1>7, BreakBlocks
<1>8. CASE DeferStmt
  BY <1>3, <1>4, <1>8, DeferBlocks
<1>9. CASE ReturnStmt
  BY <1>3, <1>4, <1>9, ReturnStmtBlocks
<1>10. CASE IfExpr
  BY <1>3, <1>4, <1>10, IfBlocks
<1>11. CASE ThenDone
  BY <1>3, <1>4, <1>11, ThenDoneBlocks
<1>12. CASE IfDone
  BY <1>3, <1>4, <1>12, IfDoneBlocks
<1>13. CASE IfElseDone
  BY <1>3, <1>4, <1>13, IfElseDoneBlocks
<1>14. CASE WhileExpr
  BY <1>3, <1>4, <1>14, WhileBlocks
<1>15. CASE WhileDone
  BY <1>3, <1>4, <1>15, WhileDoneBlocks
<1>16. CASE DeferredBody
  BY <1>3, <1>4, <1>16, DeferredBlocks
<1>17. CASE DeferredDone
  BY <1>3, <1>4, <1>17, DeferredDoneBlocks
<1>18. CASE ReturnBuilt
  BY <1>3, <1>4, <1>18, ReturnBuiltBlocks
<1>19. CASE BodyEnd
  BY <1>3, <1>4, <1>19, BodyEndBlocks
<1>20. QED
  BY <1>5, <1>6, <1>7, <1>8, <1>9, <1>10, <1>11, <1>12, <1>13, <1>14, <1>15, <1>16, <1>17,
     <1>18, <1>19 DEF Generate

-----------------------------------------------------------------------------
(* The verdict: blocks that end once *)

\* The verifier's condition on the blocks, and its two halves.
LEMMA AllEndOnce ==
  ASSUME NEW c \in Seq(Instr), NEW n \in Nat, ~Doubled(c), \A a \in 1 .. n : Closed(c, a)
  PROVE  Terminated(c, n)
<1>1. SUFFICES ASSUME NEW b \in 1 .. n
               PROVE  \E i \in InstrsOf(c, b) :
                        /\ Terminator(c, i)
                        /\ \A j \in InstrsOf(c, b) \ {i} : j < i /\ ~Terminator(c, j)
  BY DEF Terminated
<1>2. PICK i \in 1 .. Len(c) : c[i].block = b /\ Terminator(c, i)
  BY DEF Closed
<1>3. i \in InstrsOf(c, b)
  BY <1>2 DEF InstrsOf
<1>4. ASSUME NEW j \in InstrsOf(c, b) \ {i} PROVE j < i /\ ~Terminator(c, j)
  <2>1. j \in 1 .. Len(c) /\ c[j].block = b /\ j # i
    BY DEF InstrsOf
  <2>2. ~(i < j)
    BY <1>2, <2>1 DEF Doubled
  <2>3. j < i
    BY <2>1, <2>2
  <2>4. QED
    BY <1>2, <2>1, <2>3 DEF Doubled
<1>5. QED
  BY <1>2, <1>3, <1>4

\* A block that ends well ends once.
LEMMA EndsOnce ==
  ASSUME NEW c \in Seq(Instr), NEW n \in Nat, Targets(c, n), Terminated(c, n)
  PROVE  ~Doubled(c)
<1>1. SUFFICES ASSUME NEW i \in 1 .. Len(c), NEW j \in 1 .. Len(c), i < j,
                      c[i].block = c[j].block, Terminator(c, i)
               PROVE  FALSE
  BY DEF Doubled
<1>2. PICK b : b = c[i].block
  OBVIOUS
<1>3. b \in 1 .. n /\ i \in InstrsOf(c, b) /\ j \in InstrsOf(c, b)
  BY <1>1, <1>2 DEF Targets, InstrsOf
<1>4. PICK k \in InstrsOf(c, b) : \A m \in InstrsOf(c, b) \ {k} : m < k /\ ~Terminator(c, m)
  BY <1>3 DEF Terminated
<1>5. i = k
  BY <1>1, <1>3, <1>4
<1>6. j < i
  BY <1>1, <1>3, <1>4, <1>5
<1>7. QED
  BY <1>1, <1>6

\* At the end there are the frames of the function and of its deferred bodies.
LEMMA EndHeight ==
  ASSUME Inv, ShapeInv, FunctionEnd
  PROVE  /\ Running /\ Len(stack) = 2 /\ Caller = stack[1] /\ Top = stack[2] /\ Top.at = "defers"
         /\ Caller \in Frame /\ Caller.at = "function" /\ Caller.body = 1
         /\ Caller.i = Len(fn[1]) + 1 /\ Len(fn[1]) \in Nat
         /\ Top.i > Len(defer_blocks) /\ Top.i \in Nat
<1>1. /\ Running /\ Top.at = "defers" /\ Top.i > Len(defer_blocks)
      /\ Caller.i > Len(fn[Caller.body])
  BY DEF FunctionEnd, DefersDone, InDefers
<1>2. /\ Len(stack) \in Nat \ {0} /\ Top = stack[Len(stack)] /\ Top \in Frame
      /\ Len(stack) > 1 /\ Caller \in Frame /\ FrameOK(fn, blocks, Caller)
      /\ Linked(fn, Caller, Top) /\ Caller = stack[Len(stack) - 1]
  BY <1>1, TopOK DEF Caller
<1>3. IsFunction(fn) /\ StackOK(fn, blocks, stack)
  BY <1>1 DEF Inv, TypeOK
<1>4. Caller.body \in 1 .. Len(fn) /\ Caller.i <= Len(fn[Caller.body]) + 1 /\ Caller.at # "defers"
  BY <1>1, <1>2 DEF FrameOK, Linked
<1>5. Len(fn[Caller.body]) \in Nat /\ Caller.i \in Nat /\ Top.i \in Nat
  BY <1>2, <1>3, <1>4, StatementsOf DEF Frame
<1>6. Caller.at = "function" /\ Caller.i = Len(fn[Caller.body]) + 1
  BY <1>1, <1>2, <1>4, <1>5 DEF Linked
<1>7. Len(stack) = 2
  <2>1. ASSUME Len(stack) >= 3 PROVE FALSE
    <3>1. Len(stack) - 1 \in 1 .. Len(stack) /\ Len(stack) - 1 > 1
      BY <1>2, <2>1
    <3>2. stack[Len(stack) - 1].at # "function"
      BY <1>3, <3>1 DEF StackOK, Linked
    <3>3. QED
      BY <1>2, <1>6, <3>2
  <2>2. Len(stack) # 1
    BY <1>2
  <2>3. QED
    BY <1>2, <2>1, <2>2, Heights, Zenon
<1>8. PlaceOK(fn, Caller)
  BY <1>1, TopShape
<1>9. Caller.body = 1
  BY <1>6, <1>8 DEF PlaceOK
<1>10. QED
  BY <1>1, <1>2, <1>5, <1>6, <1>7, <1>9

\* The code of a function, and the blocks that it is in
LEMMA EndCode ==
  ASSUME Inv, ShapeInv, TargetInv, FunctionEnd
  PROVE  /\ blocks' = blocks /\ blocks \in Nat /\ insert \in 1 .. blocks
         /\ code \in Seq(Instr) /\ code' \in Seq(Instr) /\ Extends(code, code')
         /\ Targets(code, blocks) /\ Targets(code', blocks)
         /\ Caller.returns => code' = code
         /\ ~Caller.returns => \E x \in Instr : /\ x.op = "ret" /\ x.block = insert /\ x.to = <<>>
                                                /\ x.args = <<Returned>>
                                                /\ code' = Append(code, x)
<1>1. /\ blocks' = blocks /\ code' = IF Caller.returns THEN code ELSE Append(code, Ret(Returned))
  BY DEF FunctionEnd
<1>2. Running /\ Caller \in Frame
  BY EndHeight
<1>3. /\ blocks \in Nat /\ insert \in 1 .. blocks /\ insert \in Nat /\ code \in Seq(Instr)
      /\ Targets(code, blocks) /\ Len(code) \in Nat /\ Returned \in Nat
  BY <1>2, Types, ReturnedIs DEF Inv, TypeOK, TargetInv
<1>4. CASE Caller.returns
  BY <1>1, <1>3, <1>4, NoMore
<1>5. CASE ~Caller.returns
  <2>1. PICK x : x = Ret(Returned)
    OBVIOUS
  <2>2. /\ x \in Instr /\ x.op = "ret" /\ x.block = insert /\ x.to = <<>>
        /\ x.args = <<Returned>>
    BY <1>3, <2>1, RetIs
  <2>3. PICK e : e = Append(code, x)
    OBVIOUS
  <2>4. code' = e
    BY <1>1, <1>5, <2>1, <2>3
  <2>5. e \in Seq(Instr) /\ Extends(code, e)
    BY <1>3, <2>2, <2>3, OneMore
  <2>6. blocks <= blocks /\ \A k \in 1 .. Len(x.to) : x.to[k] \in 1 .. blocks
    BY <1>3, <2>2
  <2>7. Targets(e, blocks)
    BY <1>3, <2>2, <2>3, <2>6, TargetsMore
  <2>8. QED
    BY <1>1, <1>3, <1>5, <2>2, <2>3, <2>4, <2>5, <2>7
<1>6. QED
  BY <1>4, <1>5

\* A function that neither returns in a loop nor at the top level with something
\* deferred has blocks that end once.
LEMMA EndTerminated ==
  ASSUME Inv, ShapeInv, TargetInv, BlockInv, FunctionEnd, ~ReturnsInLoop, ~ReturnsAndDefers
  PROVE  Terminated(code', blocks)
<1>1. /\ Running /\ Len(stack) = 2 /\ Caller = stack[1] /\ Top = stack[2] /\ Top.at = "defers"
      /\ Caller.at = "function"
  BY EndHeight
<1>2. Blocks(code, blocks, insert, stack) /\ Ended(code, insert, stack)
  BY <1>1 DEF BlockInv
<1>3. /\ ~Doubled(code) /\ ~Top.returns
      /\ Closed(code, insert) <=> Top.returns \/ stack[1].returns
  BY <1>1, <1>2, TopBlocks
<1>4. \A a \in 1 .. blocks : Closed(code, a) \/ a = insert
  <2>1. \A j \in 1 .. Len(stack) : Awaited(stack[j]) = {}
    <3>1. SUFFICES ASSUME NEW j \in 1 .. 2 PROVE Awaited(stack[j]) = {}
      BY <1>1
    <3>2. j = 1 \/ j = 2
      OBVIOUS
    <3>3. stack[j].at \in {"function", "defers"}
      BY <1>1, <3>2
    <3>4. QED
      BY <3>3 DEF Awaited
  <2>2. QED
    BY <1>2, <2>1 DEF Blocks
<1>5. /\ blocks \in Nat /\ code \in Seq(Instr) /\ code' \in Seq(Instr)
  BY EndCode
<1>6. ~Doubled(code') /\ \A a \in 1 .. blocks : Closed(code', a)
  <2>1. CASE Caller.returns
    BY <1>1, <1>3, <1>4, <2>1, EndCode
  <2>2. CASE ~Caller.returns
    <3>1. PICK x \in Instr : x.op = "ret" /\ x.block = insert /\ code' = Append(code, x)
      BY <2>2, EndCode
    <3>2. PICK e : e = code'
      OBVIOUS
    <3>3. ~Closed(code, x.block)
      BY <1>1, <1>3, <2>2, <3>1
    <3>4. /\ ~Doubled(e) /\ \A a : Closed(code, a) => Closed(e, a)
          /\ Closed(e, x.block)
      BY <1>3, <1>5, <3>1, <3>2, <3>3, AddsOne
    <3>5. QED
      BY <1>4, <3>1, <3>2, <3>4
  <2>3. QED
    BY <2>1, <2>2
<1>7. QED
  BY <1>5, <1>6, AllEndOnce

\* A function that is accepted does neither.
LEMMA EndAccepted ==
  ASSUME Inv, ShapeInv, MarkInv, TargetInv, FunctionEnd, outcome' = "accepted"
  PROVE  ~ReturnsInLoop /\ ~ReturnsAndDefers
<1>1. Verifies(code', blocks')
  BY DEF FunctionEnd
<1>2. /\ blocks' = blocks /\ blocks \in Nat /\ code \in Seq(Instr) /\ code' \in Seq(Instr)
      /\ Extends(code, code') /\ Targets(code', blocks)
  BY EndCode
<1>3. ~Doubled(code)
  <2>1. ~Doubled(code')
    BY <1>1, <1>2, EndsOnce DEF Verifies
  <2>2. Len(code) \in Nat /\ Len(code') \in Nat
    BY <1>2
  <2>3. QED
    BY <1>2, <2>1, <2>2, ExtendsKeeps
<1>4. /\ Running /\ Len(stack) = 2 /\ Caller = stack[1] /\ Top = stack[2] /\ Top.at = "defers"
      /\ Caller \in Frame /\ Caller.at = "function" /\ Caller.body = 1
      /\ Caller.i = Len(fn[1]) + 1 /\ Len(fn[1]) \in Nat
      /\ Top.i > Len(defer_blocks) /\ Top.i \in Nat
  BY EndHeight
<1>5. IsFunction(fn) /\ defer_blocks \in Seq(1 .. Len(fn)) /\ Len(defer_blocks) \in Nat
  BY DEF Inv, TypeOK
<1>6. 1 \in 1 .. Len(fn) /\ ~IsLoop(fn, 1) /\ 1 \in LiveBodies(fn, 1)
  BY <1>5, FirstBody, LiveStep
<1>7. AllMarked(fn, code, defer_blocks, 1)
  <2>1. PICK f : f = Caller
    OBVIOUS
  <2>2. 1 \notin InDeferred(fn)
    BY <1>5, <1>6, LiveOrDeferred
  <2>3. Len(code) \in Nat /\ Covers(defer_blocks, defer_blocks) /\ Extends(code, code)
    BY <1>2, NoMore DEF Covers
  <2>4. PassedOK(fn, code, defer_blocks, f)
    <3>1. Len(stack) > 1
      BY <1>4
    <3>2. QED
      BY <1>4, <2>1, <2>3, <3>1, TopMarks
  <2>5. f.body \in 1 .. Len(fn) /\ f.body \notin InDeferred(fn) /\ f.at # "defers" /\ f.body = 1
    BY <1>4, <1>6, <2>1, <2>2
  <2>6. f.i \in Nat /\ f.i > Len(fn[f.body]) /\ ~IsLoop(fn, f.body)
    BY <1>4, <1>6, <2>1, <2>5
  <2>7. AllMarked(fn, code, defer_blocks, f.body)
    BY <1>5, <2>4, <2>5, <2>6, Finished
  <2>8. QED
    BY <2>5, <2>7
<1>8. ~ReturnsInLoop
  BY <1>3, <1>7 DEF ReturnsInLoop, LiveStmts, AllMarked, Marked
<1>9. ASSUME ReturnsAndDefers PROVE FALSE
  <2>1. PICK t \in LiveStmts("return") : t[1] = 1
    BY <1>9 DEF ReturnsAndDefers
  <2>2. PICK u \in LiveStmts("defer") : GeneratesCode(fn, BodyOf(fn, u))
    BY <1>9 DEF ReturnsAndDefers
  <2>3. Returns(fn, 1) # {}
    <3>1. t \in Statements(fn) /\ OpOf(fn, t) = "return"
      BY DEF LiveStmts, LiveIn
    <3>2. t[2] \in 1 .. Len(fn[1]) /\ fn[1][t[2]].op = "return"
      BY <1>5, <2>1, <3>1, StatementsOf DEF OpOf
    <3>3. QED
      BY <3>2 DEF Returns
  <2>4. stack[1].returns
    <3>1. PlaceOK(fn, Caller)
      BY <1>4, TopShape
    <3>2. QED
      BY <1>4, <2>3, <3>1 DEF PlaceOK
  <2>5. Marked(fn, code, defer_blocks, u) /\ OpOf(fn, u) = "defer"
    BY <1>7 DEF LiveStmts, AllMarked
  <2>6. PICK k \in 1 .. Len(defer_blocks) : defer_blocks[k] = BodyOf(fn, u)
    BY <2>5 DEF Marked
  <2>7. k < stack[2].i
    BY <1>4, <1>5
  <2>8. Repeats(fn, code, insert, defer_blocks, stack)
    BY <1>4 DEF MarkInv
  <2>9. Len(stack) >= 2
    BY <1>4
  <2>10. QED
    BY <1>3, <2>2, <2>4, <2>6, <2>7, <2>8, <2>9, RepeatsAre
<1>10. QED
  BY <1>8, <1>9

-----------------------------------------------------------------------------
(* The verdict: values that are computed on every path *)

\* Only the last frame has to be looked at.
LEMMA ValuesStep ==
  ASSUME NEW p, NEW c, NEW e, Len(c) \in Nat, Len(e) \in Nat, Len(c) <= Len(e),
         NEW s \in Seq(Frame), NEW t, NEW n, NEW f, Steps(s, t, n, f), Values(p, c, s),
         ValueOK(p, e, f), n > 1 => ThenYields(p, s[n - 1], f)
  PROVE  Values(p, e, t)
<1>1. /\ n \in Nat \ {0} /\ n <= Len(s) + 1 /\ Len(t) = n /\ t[n] = f /\ Len(s) \in Nat
      /\ \A j \in 1 .. n : j # n => t[j] = s[j]
  BY DEF Steps
<1>2. \A j \in 1 .. n : j # n => j \in 1 .. Len(s) /\ j < n
  BY <1>1
<1>3. \A i \in 1 .. Len(c) : i \in 1 .. Len(e)
  OBVIOUS
<1>4. \A g : ValueOK(p, c, g) => ValueOK(p, e, g)
  BY <1>3 DEF ValueOK
<1>5. \A j \in 1 .. Len(t) : ValueOK(p, e, t[j])
  <2>1. SUFFICES ASSUME NEW j \in 1 .. n, j # n PROVE ValueOK(p, e, s[j])
    BY <1>1
  <2>2. j \in 1 .. Len(s)
    BY <1>2, <2>1
  <2>3. QED
    BY <1>4, <2>2 DEF Values
<1>6. ASSUME NEW j \in 1 .. Len(t), j > 1 PROVE ThenYields(p, t[j - 1], t[j])
  <2>1. j - 1 \in 1 .. n /\ j - 1 # n
    BY <1>1, <1>6
  <2>2. t[j - 1] = s[j - 1]
    BY <1>1, <2>1
  <2>3. CASE j = n
    BY <1>1, <1>6, <2>2, <2>3
  <2>4. CASE j # n
    <3>1. t[j] = s[j] /\ j \in 1 .. Len(s)
      BY <1>1, <1>2, <2>4
    <3>2. QED
      BY <1>6, <2>2, <3>1 DEF Values
  <2>5. QED
    BY <2>3, <2>4
<1>7. QED
  BY <1>5, <1>6 DEF Values

\* Likewise for the first branches
LEMMA ThenBlocksStep ==
  ASSUME NEW p, NEW c, NEW e, Len(c) \in Nat, Len(e) \in Nat, Extends(c, e),
         NEW s \in Seq(Frame), NEW t, NEW n, NEW f, Steps(s, t, n, f), Values(p, c, s),
         ThenBlocks(c, s),
         f.at = "else" /\ f.thenValue # 0 => e[f.thenValue].block = f.thenBlock
  PROVE  ThenBlocks(e, t)
<1>1. /\ n \in Nat \ {0} /\ n <= Len(s) + 1 /\ Len(t) = n /\ t[n] = f /\ Len(s) \in Nat
      /\ \A j \in 1 .. n : j # n => t[j] = s[j]
  BY DEF Steps
<1>2. SUFFICES ASSUME NEW j \in 1 .. n, j # n, s[j].at = "else", s[j].thenValue # 0
               PROVE  e[s[j].thenValue].block = s[j].thenBlock
  BY <1>1 DEF ThenBlocks
<1>3. j \in 1 .. Len(s)
  BY <1>1, <1>2
<1>4. s[j].thenValue \in 1 .. Len(c)
  BY <1>2, <1>3 DEF Values, ValueOK
<1>5. e[s[j].thenValue] = c[s[j].thenValue]
  BY <1>4 DEF Extends
<1>6. QED
  BY <1>2, <1>3, <1>5 DEF ThenBlocks

\* Instructions that use no values
LEMMA PhisMore ==
  ASSUME NEW c \in Seq(Instr), NEW x \in Instr, Phis(c),
         \A k \in 1 .. Len(x.args) : x.args[k] # 0 =>
           /\ x.op = "phi" /\ x.args[k] \in 1 .. Len(c) /\ c[x.args[k]].block = x.from[k]
  PROVE  Phis(Append(c, x))
<1>1. PICK e : e = Append(c, x)
  OBVIOUS
<1>2. /\ e \in Seq(Instr) /\ Len(e) = Len(c) + 1 /\ Len(c) \in Nat
      /\ e[Len(e)] = x /\ \A i \in 1 .. Len(c) : e[i] = c[i]
  BY <1>1, OneMore
<1>3. SUFFICES ASSUME NEW i \in 1 .. Len(e), NEW k \in 1 .. Len(e[i].args), e[i].args[k] # 0
               PROVE  /\ e[i].op = "phi" /\ e[i].args[k] \in 1 .. Len(e)
                      /\ e[e[i].args[k]].block = e[i].from[k]
  BY <1>1 DEF Phis
<1>4. SUFFICES /\ e[i].op = "phi" /\ e[i].args[k] \in 1 .. Len(c)
               /\ c[e[i].args[k]].block = e[i].from[k]
  BY <1>2
<1>5. CASE i = Len(e)
  BY <1>2, <1>3, <1>5
<1>6. CASE i # Len(e)
  <2>1. i \in 1 .. Len(c) /\ e[i] = c[i]
    BY <1>2, <1>6
  <2>2. QED
    BY <1>3, <2>1 DEF Phis
<1>7. QED
  BY <1>5, <1>6

\* What is generated after the value of the function is known leads nowhere back.
LEMMA EnclosedStep ==
  ASSUME NEW p, NEW c \in Seq(Instr), NEW e \in Seq(Instr), Extends(c, e),
         NEW l \in Nat, NEW m \in Nat, l <= m, NEW b \in Nat, NEW d \in Nat,
         NEW s \in Seq(Frame), s # <<>>, s[1].at = "function", Values(p, c, s),
         Enclosed(c, l, b, s),
         NEW t, NEW n, NEW f, Steps(s, t, n, f), \A a \in Awaited(f) : a \in Nat,
         n > 1 => (Len(s) = 1 => s[1].value = 0),
         \A i \in 1 .. Len(e) : i > Len(c) => e[i].block = b \/ e[i].block > l \/ e[i].to = <<>>,
         d = b \/ d > l \/ (Len(s) > 1 /\ d \in Awaited(s[Len(s)])),
         \A a \in Awaited(f) : \/ a > l \/ (n <= Len(s) /\ a \in Awaited(s[n]))
                               \/ (Len(s) > 1 /\ a \in Awaited(s[Len(s)]))
  PROVE  Enclosed(e, m, d, t)
<1>1. /\ n \in Nat \ {0} /\ n <= Len(s) + 1 /\ Len(t) = n /\ t[n] = f /\ Len(s) \in Nat \ {0}
      /\ \A j \in 1 .. n : j # n => t[j] = s[j]
  BY LastOf DEF Steps
<1>2. SUFFICES ASSUME n > 1, t[1].value # 0
               PROVE  \E k \in 1 .. m : LET q == e[t[1].value].block IN
                        /\ q <= k
                        /\ \A i \in 1 .. Len(e) :
                             e[i].block <= k /\ e[i].block # q => \A j \in 1 .. Len(e[i].to) : e[i].to[j] <= k
                        /\ d = q \/ d > k
                        /\ \A j \in 2 .. Len(t) : \A a \in Awaited(t[j]) : a > k
  BY <1>1 DEF Enclosed
<1>3. t[1] = s[1]
  BY <1>1, <1>2
<1>4. Len(s) > 1
  <2>1. PICK h \in Nat \ {0} : h = Len(s)
    BY <1>1
  <2>2. h # 1
    BY <1>2, <1>3, <2>1
  <2>3. h > 1
    BY <2>2
  <2>4. QED
    BY <2>1, <2>3
<1>5. PICK v \in 1 .. Len(c) : v = s[1].value
  <2>1. 1 \in 1 .. Len(s)
    BY <1>1
  <2>2. ValueOK(p, c, s[1])
    BY <2>1 DEF Values
  <2>3. QED
    BY <1>2, <1>3, <2>2 DEF ValueOK
<1>6. PICK k \in 1 .. l :
        /\ c[v].block <= k
        /\ \A i \in 1 .. Len(c) :
             c[i].block <= k /\ c[i].block # c[v].block => \A j \in 1 .. Len(c[i].to) : c[i].to[j] <= k
        /\ b = c[v].block \/ b > k
        /\ \A j \in 2 .. Len(s) : \A a \in Awaited(s[j]) : a > k
  BY <1>2, <1>3, <1>4, <1>5 DEF Enclosed
<1>7. PICK q \in Nat : q = c[v].block
  <2>1. c[v] \in Instr
    BY <1>5
  <2>2. QED
    BY <2>1 DEF Instr
<1>8. e[v] = c[v] /\ k \in 1 .. m
  BY <1>5 DEF Extends
<1>9. ASSUME NEW i \in 1 .. Len(e), e[i].block <= k, e[i].block # q
      PROVE  \A j \in 1 .. Len(e[i].to) : e[i].to[j] <= k
  <2>1. CASE i > Len(c)
    <3>1. e[i].block \in Nat
      <4>1. e[i] \in Instr
        BY <1>9
      <4>2. QED
        BY <4>1 DEF Instr
    <3>2. ~(e[i].block > l)
      BY <1>9, <3>1
    <3>3. e[i].block # b
      BY <1>6, <1>7, <1>9, <3>1
    <3>4. e[i].to = <<>>
      BY <2>1, <3>2, <3>3
    <3>5. QED
      BY <3>4
  <2>2. CASE ~(i > Len(c))
    <3>1. i \in 1 .. Len(c) /\ e[i] = c[i]
      BY <2>2 DEF Extends
    <3>2. QED
      BY <1>6, <1>7, <1>9, <3>1
  <2>3. QED
    BY <2>1, <2>2
<1>10. Len(s) \in 2 .. Len(s)
  BY <1>1, <1>4
<1>11. d = q \/ d > k
  <2>1. CASE d = b
    BY <1>6, <1>7, <2>1
  <2>2. CASE d > l
    BY <2>2
  <2>3. CASE d \in Awaited(s[Len(s)])
    BY <1>6, <1>10, <2>3
  <2>4. QED
    BY <2>1, <2>2, <2>3
<1>12. ASSUME NEW j \in 2 .. Len(t), NEW a \in Awaited(t[j]) PROVE a > k
  <2>1. CASE j # n
    <3>1. t[j] = s[j] /\ j \in 2 .. Len(s)
      BY <1>1, <2>1
    <3>2. QED
      BY <1>6, <1>12, <3>1
  <2>2. CASE j = n
    <3>1. a \in Awaited(f) /\ a \in Nat
      BY <1>1, <1>12, <2>2
    <3>2. CASE a > l
      BY <3>1, <3>2
    <3>3. CASE n <= Len(s) /\ a \in Awaited(s[n])
      <4>1. n \in 2 .. Len(s)
        BY <1>1, <1>2, <3>3
      <4>2. QED
        BY <1>6, <3>3, <4>1
    <3>4. CASE a \in Awaited(s[Len(s)])
      BY <1>6, <1>10, <3>4
    <3>5. QED
      BY <3>1, <3>2, <3>3, <3>4
  <2>3. QED
    BY <2>1, <2>2
<1>13. QED
  BY <1>3, <1>5, <1>6, <1>7, <1>8, <1>9, <1>11, <1>12

\* One more instruction
LEMMA NewMore ==
  ASSUME NEW c \in Seq(Instr), NEW x \in Instr, NEW a, NEW b, NEW l, Len(a) \in Nat,
         NewIn(a, c, b, l), x.block = b \/ x.block > l \/ x.to = <<>>
  PROVE  NewIn(a, Append(c, x), b, l)
<1>1. PICK e : e = Append(c, x)
  OBVIOUS
<1>2. /\ Len(e) = Len(c) + 1 /\ Len(c) \in Nat
      /\ e[Len(e)] = x /\ \A i \in 1 .. Len(c) : e[i] = c[i]
  BY <1>1, OneMore
<1>3. SUFFICES ASSUME NEW i \in 1 .. Len(e), i > Len(a)
               PROVE  e[i].block = b \/ e[i].block > l \/ e[i].to = <<>>
  BY <1>1 DEF NewIn
<1>4. CASE i = Len(e)
  BY <1>2, <1>4
<1>5. CASE i # Len(e)
  <2>1. i \in 1 .. Len(c) /\ e[i] = c[i]
    BY <1>2, <1>5
  <2>2. QED
    BY <1>3, <2>1 DEF NewIn
<1>6. QED
  BY <1>4, <1>5

\* The same code
LEMMA NothingNew ==
  ASSUME NEW c, Len(c) \in Nat, NEW b, NEW l
  PROVE  NewIn(c, c, b, l)
BY DEF NewIn

\* Only the last frame has to be looked at.
LEMMA ValueSteps ==
  ASSUME Inv, Running, ValueInv, fn' = fn, code' \in Seq(Instr), Extends(code, code'),
         blocks' \in Nat, blocks <= blocks', insert' \in Nat,
         NEW n, NEW f \in Frame, Steps(stack, stack', n, f),
         ValueOK(fn, code', f), n > 1 => ThenYields(fn, stack[n - 1], f),
         ~UsesLoopValue =>
           /\ FreshValue(code', insert', f) /\ Phis(code')
           /\ f.at = "else" /\ f.thenValue # 0 => code'[f.thenValue].block = f.thenBlock,
         n > 1 => (Len(stack) = 1 => stack[1].value = 0),
         NewIn(code, code', insert, blocks),
         insert' = insert \/ insert' > blocks \/ (Len(stack) > 1 /\ insert' \in Awaited(Top)),
         \A a \in Awaited(f) : \/ a > blocks \/ (n <= Len(stack) /\ a \in Awaited(stack[n]))
                               \/ (Len(stack) > 1 /\ a \in Awaited(Top))
  PROVE  ValueInv'
<1>1. /\ code \in Seq(Instr) /\ stack \in Seq(Frame) /\ blocks \in Nat /\ insert \in Nat
      /\ stack # <<>> /\ stack[1].at = "function"
  BY Types DEF Inv, StackOK
<1>2. Len(code) \in Nat /\ Len(code') \in Nat /\ Len(code) <= Len(code')
  BY <1>1 DEF Extends
<1>3. Values(fn, code, stack)
  BY DEF ValueInv
<1>4. Values(fn, code', stack')
  BY <1>1, <1>2, <1>3, ValuesStep
<1>5. UsesLoopValue' <=> UsesLoopValue
  BY DEF UsesLoopValue, LiveStmts
<1>6. Last(stack') = f
  BY DEF Steps
<1>7. ASSUME ~UsesLoopValue
      PROVE  ThenBlocks(code', stack') /\ Enclosed(code', blocks', insert', stack')
  <2>1. ThenBlocks(code, stack) /\ Enclosed(code, blocks, insert, stack)
    BY <1>7 DEF ValueInv
  <2>2. ThenBlocks(code', stack')
    BY <1>1, <1>2, <1>3, <1>7, <2>1, ThenBlocksStep
  <2>3. Top = stack[Len(stack)]
    BY TopOK
  <2>4. \A a \in Awaited(f) : a \in Nat
    BY DEF Awaited, Frame
  <2>5. /\ insert' = insert \/ insert' > blocks
             \/ (Len(stack) > 1 /\ insert' \in Awaited(stack[Len(stack)]))
        /\ \A a \in Awaited(f) : \/ a > blocks \/ (n <= Len(stack) /\ a \in Awaited(stack[n]))
                                 \/ (Len(stack) > 1 /\ a \in Awaited(stack[Len(stack)]))
    BY <2>3
  <2>6. \A i \in 1 .. Len(code') : i > Len(code) =>
          code'[i].block = insert \/ code'[i].block > blocks \/ code'[i].to = <<>>
    BY DEF NewIn
  <2>7. PICK e : e = code'
    OBVIOUS
  <2>8. PICK m \in Nat, d \in Nat, t \in {stack'} :
              m = blocks' /\ d = insert' /\ t = stack'
    OBVIOUS
  <2>9. Enclosed(e, m, d, t)
    <3>1. PICK s, c, l, b : s = stack /\ c = code /\ l = blocks /\ b = insert
      OBVIOUS
    <3>2. /\ c \in Seq(Instr) /\ e \in Seq(Instr) /\ Extends(c, e)
          /\ l \in Nat /\ m \in Nat /\ l <= m /\ b \in Nat /\ d \in Nat
          /\ s \in Seq(Frame) /\ s # <<>> /\ s[1].at = "function" /\ Values(fn, c, s)
          /\ Enclosed(c, l, b, s) /\ Steps(s, t, n, f) /\ \A a \in Awaited(f) : a \in Nat
      BY <1>1, <1>3, <2>1, <2>4, <2>7, <2>8, <3>1
    <3>3. n > 1 => (Len(s) = 1 => s[1].value = 0)
      BY <3>1
    <3>4. \A i \in 1 .. Len(e) : i > Len(c) => e[i].block = b \/ e[i].block > l \/ e[i].to = <<>>
      BY <2>6, <2>7, <3>1
    <3>5. d = b \/ d > l \/ (Len(s) > 1 /\ d \in Awaited(s[Len(s)]))
      BY <2>5, <2>8, <3>1
    <3>6. \A a \in Awaited(f) : \/ a > l \/ (n <= Len(s) /\ a \in Awaited(s[n]))
                                \/ (Len(s) > 1 /\ a \in Awaited(s[Len(s)]))
      BY <2>5, <3>1
    <3>7. QED
      BY <3>2, <3>3, <3>4, <3>5, <3>6, EnclosedStep
  <2>10. QED
    BY <2>2, <2>7, <2>8, <2>9
<1>8. SUFFICES ASSUME Running', ~UsesLoopValue
               PROVE  /\ FreshValue(code', insert', Last(stack')) /\ ThenBlocks(code', stack')
                      /\ Phis(code') /\ Enclosed(code', blocks', insert', stack')
  BY <1>4, <1>5 DEF ValueInv, Top
<1>9. QED
  BY <1>6, <1>7, <1>8

\* What is known of a frame of the stack goes for one that stands in its place.
LEMMA KeptValue ==
  ASSUME NEW p, NEW c, NEW e, Len(c) \in Nat, Len(e) \in Nat, Extends(c, e),
         NEW s, Values(p, c, s), NEW j \in 1 .. Len(s), NEW g, g = s[j], NEW f,
         f.at = g.at, f.body = g.body, f.thenValue = g.thenValue, f.thenBlock = g.thenBlock
  PROVE  /\ f.at = "else" /\ f.thenValue # 0 => f.thenValue \in 1 .. Len(e)
         /\ j > 1 => ThenYields(p, s[j - 1], f)
         /\ ThenBlocks(c, s) => ThenFrom(e, f)
<1>1. ValueOK(p, c, s[j]) /\ (j > 1 => ThenYields(p, s[j - 1], s[j]))
  BY DEF Values
<1>2. f.at = "else" /\ f.thenValue # 0 =>
        f.thenValue \in 1 .. Len(c) /\ f.thenValue \in 1 .. Len(e) /\ e[f.thenValue] = c[f.thenValue]
  BY <1>1 DEF ValueOK, Extends
<1>4. j > 1 => ThenYields(p, s[j - 1], f)
  BY <1>1 DEF ThenYields
<1>5. ASSUME ThenBlocks(c, s), f.at = "else", f.thenValue # 0
      PROVE  e[f.thenValue].block = f.thenBlock
  BY <1>2, <1>5 DEF ThenBlocks
<1>6. QED
  BY <1>2, <1>4, <1>5 DEF ThenFrom

\* A call goes on, or returns to one that goes on.
LEMMA ResumeValues ==
  ASSUME Inv, Running, ValueInv, fn' = fn, code' \in Seq(Instr), Extends(code, code'),
         blocks' \in Nat, blocks <= blocks', insert' \in Nat,
         NEW n, n \in 1 .. Len(stack), NEW f \in Frame, Steps(stack, stack', n, f),
         f.at = stack[n].at, f.body = stack[n].body, f.after = stack[n].after,
         f.orelse = stack[n].orelse, f.thenValue = stack[n].thenValue,
         f.thenBlock = stack[n].thenBlock,
         f.at # "defers" /\ f.value # 0 => f.value \in 1 .. Len(code') /\ Yields(fn)[f.body],
         ~UsesLoopValue => FreshValue(code', insert', f) /\ Phis(code'),
         NewIn(code, code', insert, blocks),
         insert' = insert \/ insert' > blocks \/ (Len(stack) > 1 /\ insert' \in Awaited(Top))
  PROVE  ValueInv'
<1>1. Values(fn, code, stack) /\ (~UsesLoopValue => ThenBlocks(code, stack))
  BY DEF ValueInv
<1>2. Len(code) \in Nat /\ Len(code') \in Nat /\ Len(stack) \in Nat
  BY Types
<1>3. PICK e : e = code'
  OBVIOUS
<1>4. /\ ValueOK(fn, e, f)
      /\ n > 1 => ThenYields(fn, stack[n - 1], f)
      /\ ThenBlocks(code, stack) =>
           (f.at = "else" /\ f.thenValue # 0 => e[f.thenValue].block = f.thenBlock)
  <2>1. PICK s, c, g : s = stack /\ c = code /\ g = stack[n]
    OBVIOUS
  <2>2. PICK k \in 1 .. Len(s) : k = n
    BY <2>1
  <2>3. /\ Len(c) \in Nat /\ Len(e) \in Nat /\ Extends(c, e) /\ Values(fn, c, s)
        /\ g = s[k] /\ f.at = g.at /\ f.body = g.body
        /\ f.thenValue = g.thenValue /\ f.thenBlock = g.thenBlock
    BY <1>1, <1>2, <1>3, <2>1, <2>2
  <2>4. /\ f.at = "else" /\ f.thenValue # 0 => f.thenValue \in 1 .. Len(e)
        /\ k > 1 => ThenYields(fn, s[k - 1], f)
        /\ ThenBlocks(c, s) => ThenFrom(e, f)
    BY <2>3, KeptValue
  <2>5. ValueOK(fn, e, f)
    BY <1>3, <2>4 DEF ValueOK
  <2>6. QED
    BY <2>1, <2>2, <2>4, <2>5 DEF ThenFrom
<1>5. n > 1 => (Len(stack) = 1 => stack[1].value = 0)
  BY <1>2
<1>6. Awaited(f) = Awaited(stack[n]) /\ n <= Len(stack)
  BY <1>2 DEF Awaited
<1>7. ValueOK(fn, code', f) /\ (n > 1 => ThenYields(fn, stack[n - 1], f))
  BY <1>3, <1>4
<1>8. ~UsesLoopValue =>
        /\ FreshValue(code', insert', f) /\ Phis(code')
        /\ f.at = "else" /\ f.thenValue # 0 => code'[f.thenValue].block = f.thenBlock
  BY <1>1, <1>3, <1>4
<1>9. \A a \in Awaited(f) : \/ a > blocks \/ (n <= Len(stack) /\ a \in Awaited(stack[n]))
                            \/ (Len(stack) > 1 /\ a \in Awaited(Top))
  BY <1>6
<1>10. QED
  BY <1>5, <1>7, <1>8, <1>9, ValueSteps

\* A body is begun that is not a second branch.
LEMMA PushValues ==
  ASSUME Inv, Running, ValueInv, fn' = fn, code' \in Seq(Instr), Extends(code, code'),
         blocks' \in Nat, blocks <= blocks', insert' \in Nat,
         NEW f \in Frame, Steps(stack, stack', Len(stack) + 1, f), f.at # "else", f.value = 0,
         Top.at # "defers" => Top.value = 0,
         ~UsesLoopValue => Phis(code'),
         NewIn(code, code', insert, blocks),
         insert' = insert \/ insert' > blocks,
         \A a \in Awaited(f) : a > blocks
  PROVE  ValueInv'
<1>1. ValueOK(fn, code', f) /\ FreshValue(code', insert', f)
  BY DEF ValueOK, FreshValue
<1>2. /\ Len(stack) \in Nat \ {0} /\ Top = stack[Len(stack)]
      /\ Len(stack) = 1 => Top.at = "function"
  BY TopOK
<1>3. PICK n \in Nat : n = Len(stack) + 1
  BY <1>2
<1>4. Steps(stack, stack', n, f) /\ (n > 1 => ThenYields(fn, stack[n - 1], f))
  BY <1>3 DEF ThenYields
<1>5. n > 1 => (Len(stack) = 1 => stack[1].value = 0)
  BY <1>2
<1>6. QED
  BY <1>1, <1>4, <1>5, ValueSteps

\* A call goes on after a statement, or returns to one that does, with the value v.
LEMMA AfterValues ==
  ASSUME Inv, Running, ValueInv, fn' = fn, code' \in Seq(Instr), Extends(code, code'),
         blocks' \in Nat, blocks <= blocks', insert' \in Nat,
         NEW n, n \in 1 .. Len(stack), NEW g, g = stack[n], NEW v \in Nat,
         Steps(stack, stack', n, After(g, v)),
         v # 0 => v \in 1 .. Len(code') /\ Yields(fn)[g.body],
         ~UsesLoopValue => Phis(code') /\ (v # 0 => code'[v].block = insert'),
         NewIn(code, code', insert, blocks),
         insert' = insert \/ insert' > blocks \/ (Len(stack) > 1 /\ insert' \in Awaited(Top))
  PROVE  ValueInv'
<1>1. g \in Frame
  BY Types
<1>2. PICK f \in Frame : f = After(g, v)
  BY <1>1, AfterIs
<1>3. /\ f.at = g.at /\ f.body = g.body /\ f.value = v /\ f.after = g.after
      /\ f.orelse = g.orelse /\ f.thenValue = g.thenValue /\ f.thenBlock = g.thenBlock
  BY <1>1, <1>2, AfterIs
<1>4. /\ f.at = stack[n].at /\ f.body = stack[n].body /\ f.after = stack[n].after
      /\ f.orelse = stack[n].orelse /\ f.thenValue = stack[n].thenValue
      /\ f.thenBlock = stack[n].thenBlock /\ Steps(stack, stack', n, f)
  BY <1>2, <1>3
<1>5. f.at # "defers" /\ f.value # 0 => f.value \in 1 .. Len(code') /\ Yields(fn)[f.body]
  BY <1>3
<1>6. ~UsesLoopValue => FreshValue(code', insert', f) /\ Phis(code')
  BY <1>3 DEF FreshValue
<1>7. QED
  BY <1>4, <1>5, <1>6, ResumeValues

\* The innermost call passes a statement without a value.
LEMMA PassValues ==
  ASSUME Inv, Running, ValueInv, fn' = fn, code' \in Seq(Instr), Extends(code, code'),
         blocks' \in Nat, blocks <= blocks', insert' \in Nat,
         Steps(stack, stack', Len(stack), After(Top, 0)),
         ~UsesLoopValue => Phis(code'),
         NewIn(code, code', insert, blocks),
         insert' = insert \/ insert' > blocks
  PROVE  ValueInv'
<1>1. Len(stack) \in Nat \ {0} /\ Top = stack[Len(stack)]
  BY TopOK
<1>2. PICK n \in Nat : n = Len(stack)
  BY <1>1
<1>3. n \in 1 .. Len(stack) /\ Top = stack[n] /\ Steps(stack, stack', n, After(Top, 0))
  BY <1>1, <1>2
<1>4. PICK v \in Nat : v = 0
  OBVIOUS
<1>5. Steps(stack, stack', n, After(Top, v)) /\ ~(v # 0)
  BY <1>3, <1>4
<1>6. QED
  BY <1>3, <1>5, AfterValues

\* One more instruction, that uses nothing, where the builder stands.
LEMMA OneNew ==
  ASSUME Inv, NEW x \in Instr, x.block = insert, x.args = <<>>, code' = Append(code, x)
  PROVE  /\ Extends(code, code') /\ code' \in Seq(Instr)
         /\ NewIn(code, code', insert, blocks)
         /\ Phis(code) => Phis(code')
         /\ Len(code') = Len(code) + 1 /\ code'[Len(code')] = x
<1>1. code \in Seq(Instr) /\ Len(code) \in Nat
  BY Types
<1>2. PICK e : e = code'
  OBVIOUS
<1>3. /\ e \in Seq(Instr) /\ Len(e) = Len(code) + 1 /\ e[Len(e)] = x /\ Extends(code, e)
  BY <1>1, <1>2, OneMore
<1>4. NewIn(code, code, insert, blocks)
  BY <1>1, NothingNew
<1>5. NewIn(code, e, insert, blocks)
  BY <1>1, <1>2, <1>4, NewMore
<1>6. \A k \in 1 .. Len(x.args) : x.args[k] # 0 =>
        /\ x.op = "phi" /\ x.args[k] \in 1 .. Len(code) /\ code[x.args[k]].block = x.from[k]
  OBVIOUS
<1>7. Phis(code) => Phis(e)
  BY <1>1, <1>2, <1>6, PhisMore
<1>8. QED
  BY <1>2, <1>3, <1>5, <1>7

\* The code stays as it is.
LEMMA NoneNew ==
  ASSUME Inv, code' = code
  PROVE  /\ Extends(code, code') /\ code' \in Seq(Instr)
         /\ NewIn(code, code', insert, blocks)
<1>1. code \in Seq(Instr) /\ Len(code) \in Nat
  BY Types
<1>2. Extends(code, code) /\ NewIn(code, code, insert, blocks)
  BY <1>1, NoMore, NothingNew
<1>3. QED
  BY <1>1, <1>2

LEMMA CallValues ==
  ASSUME Inv, ShapeInv, ValueInv, CallStmt
  PROVE  ValueInv'
<1>1. /\ fn' = fn /\ blocks' = blocks /\ insert' = insert /\ blocks \in Nat /\ insert \in Nat
      /\ InBody /\ Running /\ IsFunction(fn)
  BY Types DEF CallStmt, InBody, Inv, TypeOK
<1>2. PICK v \in Nat :
        /\ v = IF This.op \in Valued THEN Len(code) + 1 ELSE 0
        /\ This.op \in Valued => Top.i = Len(Body)
        /\ Steps(stack, stack', Len(stack), After(Top, v))
  BY CallMoves, Zenon
<1>3. PICK x \in Instr : x.block = insert /\ x.args = <<>> /\ code' = Append(code, x)
  BY CallEmits
<1>4. PICK e : e = code'
  OBVIOUS
<1>5. /\ Extends(code, e) /\ e \in Seq(Instr) /\ NewIn(code, e, insert, blocks)
      /\ Phis(code) => Phis(e)
      /\ Len(e) = Len(code) + 1 /\ e[Len(e)] = x /\ Len(code) \in Nat
  BY <1>3, <1>4, OneNew, Types
<1>6. ~UsesLoopValue => Phis(e)
  BY <1>1, <1>5 DEF ValueInv
<1>7. Len(stack) \in Nat \ {0} /\ Top = stack[Len(stack)]
  BY <1>1, TopOK
<1>8. PICK n \in Nat : n = Len(stack)
  BY <1>7
<1>9. n \in 1 .. Len(stack) /\ Top = stack[n] /\ Steps(stack, stack', n, After(Top, v))
  BY <1>2, <1>7, <1>8
<1>10. ASSUME v # 0
       PROVE  v \in 1 .. Len(e) /\ Yields(fn)[Top.body] /\ e[v].block = insert
  <2>1. This.op \in Valued /\ v = Len(e) /\ Top.i = Len(Body)
    BY <1>2, <1>5, <1>10
  <2>2. Top.body \in 1 .. Len(fn) /\ Top.i \in 1 .. Len(fn[Top.body])
    BY <1>1, ThisOK
  <2>3. \A r \in Returns(fn, Top.body) : r >= Top.i
    BY <1>1, ThisShape
  <2>4. Returns(fn, Top.body) = {}
    <3>1. SUFFICES ASSUME NEW r \in Returns(fn, Top.body) PROVE FALSE
      OBVIOUS
    <3>2. r = Top.i
      BY <2>1, <2>2, <2>3, <3>1 DEF Body, Returns
    <3>3. QED
      BY <2>1, <3>1, <3>2 DEF Returns, This, Body, Valued
  <2>5. fn[Top.body] # <<>> /\ Last(fn[Top.body]) = This
    <3>1. fn[Top.body] \in Seq(Stmt)
      BY <1>1, <2>2, StatementsOf
    <3>2. fn[Top.body] # <<>>
      BY <2>2, <3>1
    <3>3. QED
      BY <2>1, <3>1, <3>2, LastOf DEF This, Body
  <2>6. YieldsIs(Yields(fn), fn)
    BY <1>1, YieldsOf
  <2>7. Yields(fn)[Top.body]
    BY <2>1, <2>2, <2>4, <2>5, <2>6 DEF YieldsIs
  <2>8. v \in 1 .. Len(e) /\ e[v].block = insert
    BY <1>3, <1>5, <2>1
  <2>9. QED
    BY <2>7, <2>8
<1>11. code' \in Seq(Instr) /\ Extends(code, code') /\ NewIn(code, code', insert, blocks)
  BY <1>4, <1>5
<1>12. v # 0 => v \in 1 .. Len(code') /\ Yields(fn)[Top.body]
  BY <1>4, <1>10
<1>13. ~UsesLoopValue => Phis(code') /\ (v # 0 => code'[v].block = insert')
  BY <1>1, <1>4, <1>6, <1>10
<1>14. blocks' \in Nat /\ blocks <= blocks' /\ insert' \in Nat
  BY <1>1
<1>15. QED
  BY <1>1, <1>9, <1>11, <1>12, <1>13, <1>14, AfterValues

LEMMA BreakValues ==
  ASSUME Inv, ShapeInv, ValueInv, BreakStmt
  PROVE  ValueInv'
<1>1. /\ fn' = fn /\ blocks \in Nat /\ insert \in Nat /\ Running
      /\ Steps(stack, stack', Len(stack), After(Top, 0))
  BY BreakMoves, Types DEF BreakStmt
<1>2. ~UsesLoopValue => Phis(code)
  BY <1>1 DEF ValueInv
<1>3. CASE code' = code /\ insert' = insert /\ blocks' = blocks
  <2>1. blocks' \in Nat /\ blocks <= blocks' /\ insert' \in Nat /\ insert' = insert
    BY <1>1, <1>3
  <2>2. Extends(code, code') /\ code' \in Seq(Instr) /\ NewIn(code, code', insert, blocks)
    BY <1>3, NoneNew
  <2>3. ~UsesLoopValue => Phis(code')
    BY <1>2, <1>3
  <2>4. QED
    BY <1>1, <2>1, <2>2, <2>3, PassValues
<1>4. CASE /\ \E x \in Instr : x.block = insert /\ x.args = <<>> /\ code' = Append(code, x)
           /\ blocks' = blocks + 1 /\ insert' = blocks + 1
  <2>1. PICK x \in Instr : x.block = insert /\ x.args = <<>> /\ code' = Append(code, x)
    BY <1>4
  <2>2. /\ Extends(code, code') /\ code' \in Seq(Instr) /\ NewIn(code, code', insert, blocks)
        /\ Phis(code) => Phis(code')
    BY <2>1, OneNew
  <2>3. /\ blocks' \in Nat /\ blocks <= blocks' /\ insert' \in Nat
        /\ insert' = insert \/ insert' > blocks
    BY <1>1, <1>4
  <2>4. ~UsesLoopValue => Phis(code')
    BY <1>2, <2>2
  <2>5. QED
    BY <1>1, <2>2, <2>3, <2>4, PassValues
<1>5. QED
  BY <1>3, <1>4, BreakEmits

LEMMA DeferValues ==
  ASSUME Inv, ShapeInv, ValueInv, PlainHere, DeferStmt, Running'
  PROVE  ValueInv'
<1>1. /\ fn' = fn /\ blocks \in Nat /\ insert \in Nat /\ Running /\ code' = code
      /\ blocks' = blocks /\ insert' = insert /\ 0 \in Nat
  BY Types DEF DeferStmt, At, InBody
<1>2. Top \in Frame /\ stack \in Seq(Frame) /\ stack # <<>>
  BY <1>1, TopOK, Types
<1>3. After(Top, 0) \in Frame
  BY <1>1, <1>2, AfterIs
<1>4. Steps(stack, stack', Len(stack), After(Top, 0))
  BY <1>2, <1>3, DeferStmtShape, TopSteps
<1>5. Extends(code, code') /\ code' \in Seq(Instr) /\ NewIn(code, code', insert, blocks)
  BY <1>1, NoneNew
<1>6. ~UsesLoopValue => Phis(code')
  BY <1>1 DEF ValueInv
<1>7. blocks' \in Nat /\ blocks <= blocks' /\ insert' \in Nat /\ insert' = insert
  BY <1>1
<1>8. QED
  BY <1>1, <1>4, <1>5, <1>6, <1>7, PassValues

\* The caller of a call that returns
LEMMA CallerPlace ==
  ASSUME Inv, Running, Len(stack) > 1
  PROVE  \E n \in Nat : /\ n = Len(stack) - 1 /\ n \in 1 .. Len(stack)
                        /\ Caller = stack[n] /\ Caller \in Frame
<1>1. Len(stack) \in Nat /\ stack \in Seq(Frame)
  BY Types
<1>2. PICK n \in Nat : n = Len(stack) - 1
  BY <1>1
<1>3. n \in 1 .. Len(stack) /\ Caller = stack[n]
  BY <1>1, <1>2 DEF Caller
<1>4. Caller \in Frame
  BY <1>1, <1>3
<1>5. QED
  BY <1>2, <1>3, <1>4

LEMMA DeferredDoneValues ==
  ASSUME Inv, ShapeInv, ValueInv, DeferredDone
  PROVE  ValueInv'
<1>1. /\ fn' = fn /\ blocks \in Nat /\ insert \in Nat /\ Running /\ code' = code
      /\ blocks' = blocks /\ insert' = insert
  BY Types DEF DeferredDone, BodyDone
<1>2. Len(stack) > 1 /\ Steps(stack, stack', Len(stack) - 1, After(Caller, 0))
  BY DeferredDoneShape
<1>3. PICK n \in Nat : /\ n = Len(stack) - 1 /\ n \in 1 .. Len(stack)
                       /\ Caller = stack[n]
  BY <1>1, <1>2, CallerPlace
<1>4. PICK v \in Nat : v = 0
  OBVIOUS
<1>5. Steps(stack, stack', n, After(Caller, v)) /\ ~(v # 0)
  BY <1>2, <1>3, <1>4
<1>6. Extends(code, code') /\ code' \in Seq(Instr) /\ NewIn(code, code', insert, blocks)
  BY <1>1, NoneNew
<1>7. ~UsesLoopValue => Phis(code')
  BY <1>1 DEF ValueInv
<1>8. blocks' \in Nat /\ blocks <= blocks' /\ insert' \in Nat /\ insert' = insert
  BY <1>1
<1>9. QED
  BY <1>1, <1>3, <1>5, <1>6, <1>7, <1>8, AfterValues

\* The code after a branch
LEMMA EndNew ==
  ASSUME Inv, Running, Top.at \in {"then", "else"}
  PROVE  /\ Extends(code, BranchEnd) /\ BranchEnd \in Seq(Instr)
         /\ NewIn(code, BranchEnd, insert, blocks)
         /\ Phis(code) => Phis(BranchEnd)
<1>1. code \in Seq(Instr) /\ Len(code) \in Nat
  BY Types
<1>2. Extends(code, BranchEnd) /\ BranchEnd \in Seq(Instr)
  BY EmitsEnd
<1>3. NewIn(code, code, insert, blocks)
  BY <1>1, NothingNew
<1>4. CASE BranchEnd = code
  BY <1>2, <1>3, <1>4
<1>5. CASE BranchEnd # code
  <2>1. PICK x \in Instr : x.block = insert /\ x.args = <<>> /\ BranchEnd = Append(code, x)
    BY <1>5, EndIs
  <2>2. NewIn(code, BranchEnd, insert, blocks)
    BY <1>1, <1>3, <2>1, NewMore
  <2>3. \A k \in 1 .. Len(x.args) : x.args[k] # 0 =>
          /\ x.op = "phi" /\ x.args[k] \in 1 .. Len(code) /\ code[x.args[k]].block = x.from[k]
    BY <2>1
  <2>4. Phis(code) => Phis(BranchEnd)
    BY <1>1, <2>1, <2>3, PhisMore
  <2>5. QED
    BY <1>2, <2>2, <2>4
<1>6. QED
  BY <1>4, <1>5

LEMMA IfDoneValues ==
  ASSUME Inv, ShapeInv, ValueInv, IfDone, Running'
  PROVE  ValueInv'
<1>1. /\ fn' = fn /\ blocks \in Nat /\ Running /\ code' = BranchEnd /\ Top.at = "then"
      /\ blocks' = blocks /\ insert' = Top.after
      /\ Steps(stack, stack', Len(stack) - 1, After(Caller, 0))
  BY IfDoneMoves, Types DEF IfDone, Merge
<1>2. Len(stack) > 1 /\ Top \in Frame
  BY <1>1, TopOK
<1>3. PICK n \in Nat : /\ n = Len(stack) - 1 /\ n \in 1 .. Len(stack)
                       /\ Caller = stack[n]
  BY <1>1, <1>2, CallerPlace
<1>4. PICK v \in Nat : v = 0
  OBVIOUS
<1>5. Steps(stack, stack', n, After(Caller, v)) /\ ~(v # 0)
  BY <1>1, <1>3, <1>4
<1>6. /\ Extends(code, code') /\ code' \in Seq(Instr) /\ NewIn(code, code', insert, blocks)
      /\ Phis(code) => Phis(code')
  BY <1>1, EndNew
<1>7. ~UsesLoopValue => Phis(code')
  BY <1>1, <1>6 DEF ValueInv
<1>8. /\ blocks' \in Nat /\ blocks <= blocks' /\ insert' \in Nat
      /\ Len(stack) > 1 /\ insert' \in Awaited(Top)
  BY <1>1, <1>2 DEF Awaited, Frame
<1>9. QED
  BY <1>1, <1>3, <1>5, <1>6, <1>7, <1>8, AfterValues

\* An if or a loop whose body hands on a value, and whose value is that of the
\* body around it.
LEMMA CallerYields ==
  ASSUME Inv, Running, ShapeInv, Top.at \in {"then", "else", "loop"},
         Promoted(fn, Caller.body, Caller.i),
         LET s == fn[Caller.body][Caller.i] IN
           \/ s.op = "while" /\ Yields(fn)[s.body]
           \/ s.op = "ifelse" /\ Yields(fn)[s.body] /\ Yields(fn)[s.orelse]
  PROVE  /\ Yields(fn)[Caller.body]
         /\ Caller.body \in LiveBodies(fn, 1)
         /\ <<Caller.body, Caller.i>> \in LiveIn(fn, 1)
<1>1. /\ IsFunction(fn) /\ Caller.body \in 1 .. Len(fn) /\ Caller.i \in 1 .. Len(fn[Caller.body])
      /\ Caller.at # "defers" /\ Caller.i = Len(fn[Caller.body]) /\ Fixed(fn)[Caller.body]
  BY CallerOK DEF Inv, TypeOK, Promoted
<1>2. PICK s : s = fn[Caller.body][Caller.i]
  OBVIOUS
<1>3. fn[Caller.body] \in Seq(Stmt) /\ Len(fn[Caller.body]) \in Nat
  BY <1>1, StatementsOf
<1>4. PlaceOK(fn, Caller)
  BY TopShape
<1>5. \A r \in Returns(fn, Caller.body) : r >= Caller.i
  <2>1. Caller.i # Len(fn[Caller.body]) + 1
    BY <1>1, <1>3
  <2>2. QED
    BY <1>1, <1>4, <2>1 DEF PlaceOK
<1>6. Returns(fn, Caller.body) = {}
  <2>1. SUFFICES ASSUME NEW r \in Returns(fn, Caller.body) PROVE FALSE
    OBVIOUS
  <2>2. r = Caller.i
    BY <1>1, <1>3, <1>5, <2>1 DEF Returns
  <2>3. s.op = "return"
    BY <1>2, <2>1, <2>2 DEF Returns
  <2>4. QED
    BY <1>2, <2>3
<1>7. fn[Caller.body] # <<>> /\ Last(fn[Caller.body]) = s
  <2>1. fn[Caller.body] # <<>>
    BY <1>1, <1>3
  <2>2. QED
    BY <1>1, <1>2, <1>3, <2>1, LastOf
<1>8. YieldsIs(Yields(fn), fn)
  BY <1>1, YieldsOf
<1>9. Yields(fn)[Caller.body]
  <2>1. Promoted(fn, Caller.body, Len(fn[Caller.body]))
    BY <1>1
  <2>2. \/ s.op = "while" /\ Yields(fn)[s.body]
        \/ s.op = "ifelse" /\ Yields(fn)[s.body] /\ Yields(fn)[s.orelse]
    BY <1>2
  <2>3. QED
    BY <1>1, <1>6, <1>7, <1>8, <2>1, <2>2 DEF YieldsIs
<1>10. Caller.body \in LiveBodies(fn, 1)
  <2>1. Caller.body \notin InDeferred(fn)
    BY <1>1, DeferredNotFixed
  <2>2. QED
    BY <1>1, <1>4, <2>1 DEF PlaceOK
<1>11. <<Caller.body, Caller.i>> \in LiveIn(fn, 1)
  BY <1>1, <1>5, <1>10, LiveHere
<1>12. QED
  BY <1>9, <1>10, <1>11

LEMMA WhileDoneValues ==
  ASSUME Inv, ShapeInv, ValueInv, WhileDone
  PROVE  ValueInv'
<1>1. /\ fn' = fn /\ blocks \in Nat /\ Running /\ Top.at = "loop" /\ Top.i > Len(Body)
      /\ blocks' = blocks /\ insert' = Top.after
  BY WhileDoneMoves, Types DEF WhileDone
<1>2. Len(stack) > 1 /\ Top \in Frame /\ Top = stack[Len(stack)] /\ Len(stack) \in Nat
  BY <1>1, TopOK
<1>3. PICK n \in Nat : /\ n = Len(stack) - 1 /\ n \in 1 .. Len(stack)
                       /\ Caller = stack[n]
  BY <1>1, <1>2, CallerPlace
<1>4. PICK w \in Nat :
        /\ w \in {0, Top.value}
        /\ w # 0 => Promoted(fn, Caller.body, Caller.i)
        /\ Steps(stack, stack', n, After(Caller, w))
  <2>1. Top.value \in Nat
    BY <1>2 DEF Frame
  <2>2. PICK w \in {0, Top.value} :
        /\ w # 0 => Promoted(fn, Caller.body, Caller.i)
        /\ Steps(stack, stack', Len(stack) - 1, After(Caller, w))
    BY WhileDoneMoves
  <2>3. w \in Nat
    BY <2>1, <2>2
  <2>4. QED
    BY <1>3, <2>2, <2>3
<1>5. PICK x \in Instr : x.block = insert /\ x.args = <<>> /\ code' = Append(code, x)
  BY WhileDoneEmits
<1>6. /\ Extends(code, code') /\ code' \in Seq(Instr) /\ NewIn(code, code', insert, blocks)
      /\ Phis(code) => Phis(code')
  BY <1>5, OneNew
<1>7. ASSUME w # 0
      PROVE  w \in 1 .. Len(code') /\ Yields(fn)[Caller.body] /\ UsesLoopValue
  <2>1. w = Top.value /\ Top.value # 0 /\ Promoted(fn, Caller.body, Caller.i)
    BY <1>4, <1>7
  <2>2. Len(stack) \in 1 .. Len(stack)
    BY <1>2
  <2>3. ValueOK(fn, code, Top)
    BY <1>1, <1>2, <2>2 DEF ValueInv, Values
  <2>4. Top.value \in 1 .. Len(code) /\ Yields(fn)[Top.body]
    BY <1>1, <2>1, <2>3 DEF ValueOK
  <2>5. Len(code) \in Nat /\ Len(code') \in Nat /\ Len(code) <= Len(code')
    BY <1>6, Types DEF Extends
  <2>6. PICK s : s = fn[Caller.body][Caller.i]
    OBVIOUS
  <2>7. s.op = "while" /\ Top.body = s.body
    BY <1>1, <2>6, TopShape DEF WaitsFor
  <2>8. Yields(fn)[s.body]
    BY <2>4, <2>7
  <2>9. /\ Yields(fn)[Caller.body] /\ <<Caller.body, Caller.i>> \in LiveIn(fn, 1)
    BY <1>1, <2>1, <2>6, <2>7, <2>8, CallerYields
  <2>10. PICK t : t = <<Caller.body, Caller.i>>
    OBVIOUS
  <2>11. t \in LiveStmts("while") /\ Promoted(fn, t[1], t[2]) /\ BodyOf(fn, t) = s.body
    BY <2>1, <2>6, <2>7, <2>9, <2>10 DEF LiveStmts, OpOf, BodyOf
  <2>12. UsesLoopValue
    BY <2>8, <2>11 DEF UsesLoopValue
  <2>13. QED
    BY <2>1, <2>4, <2>5, <2>9, <2>12
<1>8. ~UsesLoopValue => Phis(code') /\ (w # 0 => code'[w].block = insert')
  BY <1>1, <1>6, <1>7 DEF ValueInv
<1>9. /\ blocks' \in Nat /\ blocks <= blocks' /\ insert' \in Nat
      /\ Len(stack) > 1 /\ insert' \in Awaited(Top)
  BY <1>1, <1>2 DEF Awaited, Frame
<1>10. w # 0 => w \in 1 .. Len(code') /\ Yields(fn)[Caller.body]
  BY <1>7
<1>11. QED
  BY <1>1, <1>3, <1>4, <1>6, <1>8, <1>9, <1>10, AfterValues

LEMMA IfElseDoneValues ==
  ASSUME Inv, ShapeInv, ValueInv, IfElseDone, Running'
  PROVE  ValueInv'
<1>1. /\ fn' = fn /\ blocks \in Nat /\ insert \in Nat /\ Running /\ Top.at = "else"
      /\ blocks' = blocks /\ insert' = Top.after /\ Len(code) \in Nat
  BY IfElseDoneMoves, Types DEF IfElseDone, Merge
<1>2. Len(stack) > 1 /\ Top \in Frame /\ Top = stack[Len(stack)] /\ Len(stack) \in Nat
  BY <1>1, TopOK
<1>3. PICK n \in Nat : /\ n = Len(stack) - 1 /\ n \in 1 .. Len(stack)
                       /\ Caller = stack[n]
  BY <1>1, <1>2, CallerPlace
<1>4. /\ Extends(code, BranchEnd) /\ BranchEnd \in Seq(Instr)
      /\ NewIn(code, BranchEnd, insert, blocks)
      /\ Phis(code) => Phis(BranchEnd)
  BY <1>1, EndNew
<1>5. ~UsesLoopValue => Phis(code) /\ FreshValue(code, insert, Top) /\ ThenBlocks(code, stack)
  BY <1>1 DEF ValueInv
<1>6. /\ blocks' \in Nat /\ blocks <= blocks' /\ insert' \in Nat
      /\ Len(stack) > 1 /\ insert' \in Awaited(Top)
  BY <1>1, <1>2 DEF Awaited, Frame
<1>7. CASE /\ code' = BranchEnd
           /\ Steps(stack, stack', Len(stack) - 1, After(Caller, 0))
  <2>1. PICK v \in Nat : v = 0
    OBVIOUS
  <2>2. Steps(stack, stack', n, After(Caller, v)) /\ ~(v # 0)
    BY <1>3, <1>7, <2>1
  <2>3. Extends(code, code') /\ code' \in Seq(Instr) /\ NewIn(code, code', insert, blocks)
    BY <1>4, <1>7
  <2>4. ~UsesLoopValue => Phis(code')
    BY <1>4, <1>5, <1>7
  <2>5. QED
    BY <1>1, <1>3, <1>6, <2>2, <2>3, <2>4, AfterValues
<1>8. CASE /\ Top.thenValue # 0 /\ Top.value # 0 /\ code' # BranchEnd
           /\ \E w \in {0, Len(code')} :
                /\ w # 0 => Promoted(fn, Caller.body, Caller.i)
                /\ Steps(stack, stack', Len(stack) - 1, After(Caller, w))
  <2>1. PICK x \in Instr : /\ x.op = "phi" /\ x.block = Top.after /\ x.to = <<>>
                           /\ x.args = <<Top.thenValue, Top.value>>
                           /\ x.from = <<Top.thenBlock, insert>>
                           /\ code' = Append(BranchEnd, x)
    BY <1>8, IfElseEmits
  <2>2. PICK c, e : c = BranchEnd /\ e = code'
    OBVIOUS
  <2>3. c \in Seq(Instr) /\ Extends(code, c) /\ NewIn(code, c, insert, blocks)
    BY <1>4, <2>2
  <2>4. /\ e = Append(c, x) /\ e \in Seq(Instr) /\ Len(e) = Len(c) + 1 /\ Len(c) \in Nat
        /\ e[Len(e)] = x /\ Extends(c, e)
    BY <2>1, <2>2, <2>3, OneMore
  <2>5. Extends(code, e)
    BY <2>2, IfElseEmits
  <2>6. NewIn(code, e, insert, blocks)
    BY <1>1, <2>1, <2>3, <2>4, NewMore
  <2>7. PICK w \in Nat :
          /\ w = 0 \/ w = Len(e)
          /\ w # 0 => Promoted(fn, Caller.body, Caller.i)
          /\ Steps(stack, stack', n, After(Caller, w))
    <3>1. Len(e) \in Nat
      BY <2>4
    <3>2. PICK w \in {0, Len(e)} :
            /\ w # 0 => Promoted(fn, Caller.body, Caller.i)
            /\ Steps(stack, stack', Len(stack) - 1, After(Caller, w))
      BY <1>8, <2>2
    <3>3. w \in Nat
      BY <3>1, <3>2
    <3>4. QED
      BY <1>3, <3>2, <3>3
  <2>8. Len(stack) \in 1 .. Len(stack)
    BY <1>2
  <2>9. /\ Top.value \in 1 .. Len(code) /\ Top.thenValue \in 1 .. Len(code)
        /\ Yields(fn)[Top.body]
    <3>1. ValueOK(fn, code, Top)
      BY <1>1, <1>2, <2>8 DEF ValueInv, Values
    <3>2. QED
      BY <1>1, <1>8, <3>1 DEF ValueOK
  <2>10. Yields(fn)[fn[Caller.body][Caller.i].body]
    <3>1. ThenYields(fn, Caller, Top)
      BY <1>1, <1>2, <2>8 DEF ValueInv, Values, Caller
    <3>2. QED
      BY <1>1, <1>8, <3>1 DEF ThenYields
  <2>11. w # 0 => w \in 1 .. Len(e) /\ Yields(fn)[Caller.body]
    <3>1. PICK s : s = fn[Caller.body][Caller.i]
      OBVIOUS
    <3>2. s.op = "ifelse" /\ Top.body = s.orelse
      BY <1>1, <3>1, TopShape DEF WaitsFor
    <3>3. w # 0 => Yields(fn)[Caller.body]
      BY <1>1, <2>7, <2>9, <2>10, <3>1, <3>2, CallerYields
    <3>4. QED
      BY <2>4, <2>7, <3>3
  <2>12. e[Len(e)].block = insert'
    BY <1>1, <2>1, <2>4
  <2>13. ~UsesLoopValue => Phis(e)
    <3>1. SUFFICES ASSUME ~UsesLoopValue PROVE Phis(e)
      OBVIOUS
    <3>2. Phis(c)
      BY <1>4, <1>5, <2>2, <3>1
    <3>3. /\ Top.value \in 1 .. Len(c) /\ c[Top.value] = code[Top.value]
          /\ Top.thenValue \in 1 .. Len(c) /\ c[Top.thenValue] = code[Top.thenValue]
      BY <1>1, <2>3, <2>4, <2>9 DEF Extends
    <3>4. code[Top.value].block = insert
      BY <1>1, <1>5, <1>8, <3>1 DEF FreshValue
    <3>5. code[Top.thenValue].block = Top.thenBlock
      BY <1>1, <1>2, <1>5, <1>8, <2>8, <3>1 DEF ThenBlocks
    <3>6. Len(x.args) = 2 /\ x.args[1] = Top.thenValue /\ x.args[2] = Top.value
          /\ x.from[1] = Top.thenBlock /\ x.from[2] = insert
      BY <2>1
    <3>7. \A k \in 1 .. Len(x.args) : k = 1 \/ k = 2
      BY <3>6
    <3>8. \A k \in 1 .. Len(x.args) : x.args[k] # 0 =>
            /\ x.op = "phi" /\ x.args[k] \in 1 .. Len(c) /\ c[x.args[k]].block = x.from[k]
      BY <2>1, <3>3, <3>4, <3>5, <3>6, <3>7
    <3>9. QED
      BY <2>3, <2>4, <3>2, <3>8, PhisMore
  <2>14. ~UsesLoopValue => Phis(code') /\ (w # 0 => code'[w].block = insert')
    BY <2>2, <2>7, <2>12, <2>13
  <2>15. w # 0 => w \in 1 .. Len(code') /\ Yields(fn)[Caller.body]
    BY <2>2, <2>11
  <2>16. code' \in Seq(Instr) /\ Extends(code, code') /\ NewIn(code, code', insert, blocks)
    BY <2>2, <2>4, <2>5, <2>6
  <2>17. QED
    BY <1>1, <1>3, <1>6, <2>7, <2>14, <2>15, <2>16, AfterValues
<1>9. QED
  <2>1. CASE code' = BranchEnd
    BY <1>1, <1>7, <2>1, IfElseDoneMoves
  <2>2. CASE code' # BranchEnd
    BY <1>8, <2>2, IfElseDoneMoves
  <2>3. QED
    BY <2>1, <2>2

LEMMA ReturnBuiltValues ==
  ASSUME Inv, ShapeInv, ValueInv, ReturnBuilt
  PROVE  ValueInv'
<1>1. /\ fn' = fn /\ blocks \in Nat /\ insert \in Nat /\ Running
      /\ blocks' = blocks /\ insert' = insert
  BY Types DEF ReturnBuilt, DefersDone, InDefers
<1>2. PICK f : f = [Caller EXCEPT !.i = Len(fn[Caller.body]) + 1, !.value = 0,
                                  !.returns = Caller.at \notin {"loop", "deferred"}]
  OBVIOUS
<1>3. /\ Len(stack) > 1 /\ f \in Frame /\ f.at = Caller.at /\ f.body = Caller.body
      /\ f.value = 0 /\ f.after = Caller.after /\ f.orelse = Caller.orelse
      /\ f.thenValue = Caller.thenValue /\ f.thenBlock = Caller.thenBlock
      /\ Steps(stack, stack', Len(stack) - 1, f)
  BY <1>2, ReturnShape
<1>4. PICK n \in Nat : /\ n = Len(stack) - 1 /\ n \in 1 .. Len(stack)
                       /\ Caller = stack[n]
  BY <1>1, <1>3, CallerPlace
<1>5. /\ f.at = stack[n].at /\ f.body = stack[n].body /\ f.after = stack[n].after
      /\ f.orelse = stack[n].orelse /\ f.thenValue = stack[n].thenValue
      /\ f.thenBlock = stack[n].thenBlock /\ Steps(stack, stack', n, f)
  BY <1>3, <1>4
<1>6. PICK x \in Instr : x.block = insert /\ x.args = <<>> /\ code' = Append(code, x)
  BY ReturnEmits
<1>7. /\ Extends(code, code') /\ code' \in Seq(Instr) /\ NewIn(code, code', insert, blocks)
      /\ Phis(code) => Phis(code')
  BY <1>6, OneNew
<1>8. ~UsesLoopValue => FreshValue(code', insert', f) /\ Phis(code')
  BY <1>1, <1>3, <1>7 DEF ValueInv, FreshValue
<1>9. ~(f.value # 0) /\ blocks' \in Nat /\ blocks <= blocks' /\ insert' \in Nat /\ insert' = insert
  BY <1>1, <1>3
<1>10. f \in Frame
  BY <1>3
<1>11. QED
  BY <1>1, <1>4, <1>5, <1>7, <1>8, <1>9, <1>10, ResumeValues

LEMMA ThenDoneValues ==
  ASSUME Inv, ShapeInv, ValueInv, ThenDone
  PROVE  ValueInv'
<1>1. /\ fn' = fn /\ blocks \in Nat /\ insert \in Nat /\ Running /\ Top.at = "then"
      /\ code' = BranchEnd /\ blocks' = blocks /\ insert' = Top.orelse /\ Top.orelse # 0
      /\ Len(code) \in Nat
  BY Types DEF ThenDone, BodyDone
<1>2. /\ Len(stack) > 1 /\ Top \in Frame /\ Top = stack[Len(stack)] /\ Len(stack) \in Nat
      /\ Len(stack) \in 1 .. Len(stack)
  BY <1>1, TopOK
<1>3. PICK f : f = [Call("else", fn[Caller.body][Caller.i].orelse, Top.after, 0) EXCEPT
                      !.thenValue = Top.value, !.thenBlock = insert]
  OBVIOUS
<1>4. /\ f \in Frame /\ f.at = "else" /\ f.value = 0 /\ f.after = Top.after /\ f.orelse = 0
      /\ f.thenValue = Top.value /\ f.thenBlock = insert
      /\ Steps(stack, stack', Len(stack), f)
  BY <1>3, ElseShape
<1>5. /\ Extends(code, code') /\ code' \in Seq(Instr) /\ NewIn(code, code', insert, blocks)
      /\ Phis(code) => Phis(code')
  BY <1>1, EndNew
<1>6. Top.value # 0 => Top.value \in 1 .. Len(code) /\ Yields(fn)[Top.body]
  <2>1. ValueOK(fn, code, Top)
    BY <1>1, <1>2 DEF ValueInv, Values
  <2>2. QED
    BY <1>1, <2>1 DEF ValueOK
<1>7. Len(code') \in Nat /\ Len(code) <= Len(code')
  BY <1>5 DEF Extends
<1>8. ValueOK(fn, code', f)
  BY <1>1, <1>4, <1>6, <1>7 DEF ValueOK
<1>9. ThenYields(fn, Caller, f)
  <2>1. fn[Caller.body][Caller.i].body = Top.body
    BY <1>1, TopShape DEF WaitsFor
  <2>2. QED
    BY <1>4, <1>6, <2>1 DEF ThenYields
<1>10. PICK n \in Nat : n = Len(stack)
  BY <1>2
<1>11. n > 1 /\ Caller = stack[n - 1] /\ Top = stack[n] /\ Steps(stack, stack', n, f)
       /\ n <= Len(stack)
  BY <1>2, <1>4, <1>10 DEF Caller
<1>12. n > 1 => ThenYields(fn, stack[n - 1], f)
  BY <1>9, <1>11
<1>13. ASSUME ~UsesLoopValue
       PROVE  /\ FreshValue(code', insert', f) /\ Phis(code')
              /\ f.at = "else" /\ f.thenValue # 0 => code'[f.thenValue].block = f.thenBlock
  <2>1. FreshValue(code, insert, Top) /\ Phis(code)
    BY <1>1, <1>13 DEF ValueInv
  <2>2. FreshValue(code', insert', f) /\ Phis(code')
    BY <1>4, <1>5, <2>1 DEF FreshValue
  <2>3. Top.value # 0 => code[Top.value].block = insert
    BY <1>1, <2>1 DEF FreshValue
  <2>4. Top.value # 0 => code'[Top.value] = code[Top.value]
    BY <1>5, <1>6 DEF Extends
  <2>5. QED
    BY <1>4, <2>2, <2>3, <2>4
<1>14. n > 1 => (Len(stack) = 1 => stack[1].value = 0)
  BY <1>10
<1>15. /\ blocks' \in Nat /\ blocks <= blocks' /\ insert' \in Nat
       /\ Len(stack) > 1 /\ insert' \in Awaited(Top)
  <2>1. Top.orelse \in Awaited(Top) /\ Top.orelse \in Nat
    BY <1>1, <1>2 DEF Awaited, Frame
  <2>2. QED
    BY <1>1, <1>2, <2>1
<1>16. \A a \in Awaited(f) : \/ a > blocks \/ (n <= Len(stack) /\ a \in Awaited(stack[n]))
                             \/ (Len(stack) > 1 /\ a \in Awaited(Top))
  <2>1. Awaited(f) \subseteq Awaited(Top)
    BY <1>1, <1>4 DEF Awaited
  <2>2. QED
    BY <1>15, <2>1
<1>17. QED
  BY <1>1, <1>4, <1>5, <1>8, <1>11, <1>12, <1>13, <1>14, <1>15, <1>16, ValueSteps

\* The end of the function: what it returns comes from the block where the builder
\* stands, and no block leads anywhere else than to those that there are.
LEMMA BodyEndValues ==
  ASSUME Inv, ShapeInv, TargetInv, ValueInv, BodyEnd, Running'
  PROVE  ValueInv'
<1>1. /\ fn' = fn /\ blocks \in Nat \ {0} /\ insert \in Nat /\ Running /\ code' = code
      /\ blocks' = blocks /\ insert' = insert /\ code \in Seq(Instr) /\ stack \in Seq(Frame)
      /\ Len(stack) = 1 /\ Top = stack[1] /\ Top.at = "function"
      /\ Steps(stack, stack', 2, Call("defers", 0, 0, 0)) /\ Len(code) \in Nat
  BY BodyEndMoves, Types DEF BodyEnd
<1>2. PICK f : f = Call("defers", 0, 0, 0)
  OBVIOUS
<1>3. f.at = "defers" /\ f.value = 0
  BY <1>2 DEF Call
<1>4. Steps(stack, stack', 2, f)
  BY <1>1, <1>2
<1>5. /\ Values(fn, code, stack)
      /\ ~UsesLoopValue => FreshValue(code, insert, Top) /\ ThenBlocks(code, stack) /\ Phis(code)
  BY <1>1 DEF ValueInv
<1>6. PICK n, s, t : n = 2 /\ s = stack /\ t = stack'
  OBVIOUS
<1>7. /\ ValueOK(fn, code, f) /\ (n > 1 => ThenYields(fn, s[n - 1], f))
      /\ s \in Seq(Frame) /\ Steps(s, t, n, f) /\ Values(fn, code, s)
      /\ Len(code) \in Nat /\ Len(code) <= Len(code) /\ Extends(code, code)
  BY <1>1, <1>3, <1>4, <1>5, <1>6 DEF ValueOK, ThenYields, Extends
<1>8. Values(fn, code, t)
  BY <1>7, ValuesStep
<1>9. UsesLoopValue' <=> UsesLoopValue
  BY <1>1 DEF UsesLoopValue, LiveStmts
<1>10. ASSUME ~UsesLoopValue
       PROVE  /\ FreshValue(code, insert, f) /\ ThenBlocks(code, t) /\ Phis(code)
              /\ Enclosed(code, blocks, insert, t)
  <2>1. ThenBlocks(code, s) /\ ~(f.at = "else" /\ f.thenValue # 0)
    BY <1>3, <1>5, <1>6, <1>10
  <2>2. ThenBlocks(code, t)
    BY <1>7, <2>1, ThenBlocksStep
  <2>3. Len(t) = 2 /\ t[1] = Top /\ t[2] = f
    BY <1>1, <1>4, <1>6 DEF Steps
  <2>4. Enclosed(code, blocks, insert, t)
    <3>1. SUFFICES ASSUME Top.value # 0
                   PROVE  \E m \in 1 .. blocks : LET e == code[Top.value].block IN
                            /\ e <= m
                            /\ \A i \in 1 .. Len(code) :
                                 code[i].block <= m /\ code[i].block # e =>
                                   \A k \in 1 .. Len(code[i].to) : code[i].to[k] <= m
                            /\ insert = e \/ insert > m
                            /\ \A j \in 2 .. Len(t) : \A a \in Awaited(t[j]) : a > m
      BY <2>3 DEF Enclosed
    <3>2. Top.value \in 1 .. Len(code)
      <4>1. 1 \in 1 .. Len(stack)
        BY <1>1
      <4>2. ValueOK(fn, code, Top)
        BY <1>1, <1>5, <4>1 DEF Values
      <4>3. QED
        BY <1>1, <3>1, <4>2 DEF ValueOK
    <3>3. code[Top.value].block = insert
      BY <1>1, <1>5, <1>10, <3>1 DEF FreshValue
    <3>4. PICK e : e = code[Top.value].block
      OBVIOUS
    <3>5. Targets(code, blocks)
      BY <1>1 DEF TargetInv
    <3>6. e \in 1 .. blocks /\ e <= blocks /\ blocks \in 1 .. blocks
      BY <1>1, <3>2, <3>4, <3>5 DEF Targets
    <3>7. \A i \in 1 .. Len(code) : \A k \in 1 .. Len(code[i].to) : code[i].to[k] <= blocks
      BY <1>1, <3>5 DEF Targets
    <3>8. \A j \in 2 .. Len(t) : \A a \in Awaited(t[j]) : a > blocks
      <4>1. SUFFICES ASSUME NEW j \in 2 .. Len(t) PROVE Awaited(t[j]) = {}
        OBVIOUS
      <4>2. j = 2
        BY <2>3, <4>1
      <4>3. QED
        BY <1>3, <2>3, <4>2 DEF Awaited
    <3>9. QED
      BY <3>3, <3>4, <3>6, <3>7, <3>8
  <2>5. QED
    BY <1>3, <1>5, <1>10, <2>2, <2>4 DEF FreshValue
<1>11. Last(stack') = f
  BY <1>4 DEF Steps
<1>12. SUFFICES ASSUME ~UsesLoopValue
                PROVE  /\ FreshValue(code', insert', Last(stack')) /\ ThenBlocks(code', stack')
                       /\ Phis(code') /\ Enclosed(code', blocks', insert', stack')
  BY <1>1, <1>6, <1>8, <1>9 DEF ValueInv, Top
<1>13. QED
  BY <1>1, <1>6, <1>10, <1>11, <1>12

\* gen_codegen_defer_blocks() is called, or calls for a body.
LEMMA PushQuiet ==
  ASSUME Inv, Running, ValueInv, fn' = fn, code' = code, blocks' = blocks, insert' = insert,
         NEW f \in Frame, Steps(stack, stack', Len(stack) + 1, f), f.at \in {"deferred", "defers"},
         f.value = 0, Top.at # "defers" => Top.value = 0
  PROVE  ValueInv'
<1>1. blocks \in Nat /\ insert \in Nat
  BY Types
<1>2. Extends(code, code') /\ code' \in Seq(Instr) /\ NewIn(code, code', insert, blocks)
  BY NoneNew
<1>3. ~UsesLoopValue => Phis(code')
  BY DEF ValueInv
<1>4. /\ blocks' \in Nat /\ blocks <= blocks' /\ insert' \in Nat
      /\ insert' = insert \/ insert' > blocks
  BY <1>1
<1>5. f.at # "else" /\ \A a \in Awaited(f) : a > blocks
  BY DEF Awaited
<1>6. QED
  BY <1>2, <1>3, <1>4, <1>5, PushValues

LEMMA ReturnStmtValues ==
  ASSUME Inv, ShapeInv, ValueInv, PlainHere, ReturnStmt, Running'
  PROVE  ValueInv'
<1>1. /\ fn' = fn /\ code' = code /\ blocks' = blocks /\ insert' = insert
      /\ InBody /\ Running /\ Steps(stack, stack', Len(stack) + 1, Call("defers", 0, 0, 0))
  BY ReturnMoves DEF ReturnStmt
<1>2. Top.value = 0
  BY <1>1, ThisShape
<1>3. PICK f : f = Call("defers", 0, 0, 0)
  OBVIOUS
<1>4. f \in Frame /\ f.at = "defers" /\ f.value = 0
  BY <1>3 DEF Call, Frame
<1>5. QED
  BY <1>1, <1>2, <1>3, <1>4, PushQuiet

LEMMA DeferredValues ==
  ASSUME Inv, ShapeInv, ValueInv, DeferredBody, Running'
  PROVE  ValueInv'
<1>1. /\ fn' = fn /\ code' = code /\ blocks' = blocks /\ insert' = insert
  BY DEF DeferredBody
<1>2. PICK f : f = Call("deferred", defer_blocks[Top.i], 0, 0)
  OBVIOUS
<1>3. /\ Running /\ Top.at = "defers" /\ f \in Frame /\ f.at = "deferred" /\ f.value = 0
      /\ Steps(stack, stack', Len(stack) + 1, f)
  BY <1>2, DeferredMoves
<1>4. QED
  BY <1>1, <1>3, PushQuiet

\* An if or a loop begins.
LEMMA EntersValues ==
  ASSUME Inv, InBody, ShapeInv, ValueInv, fn' = fn,
         code' = code \o <<Br(insert, blocks + 1), CondBr(blocks + 1, Name, blocks + 2, blocks + 3)>>,
         insert' = blocks + 2,
         NEW f \in Frame, f.at \in {"then", "loop"}, f.value = 0, f.after > blocks,
         f.at = "then" => f.orelse = 0 \/ f.orelse > blocks,
         blocks' \in Nat, blocks <= blocks',
         Steps(stack, stack', Len(stack) + 1, f)
  PROVE  ValueInv'
<1>1. /\ Running /\ blocks \in Nat /\ insert \in Nat /\ code \in Seq(Instr) /\ Len(code) \in Nat
  BY Types DEF InBody
<1>2. PICK x \in Instr, z \in Instr :
        /\ x.block = insert /\ x.args = <<>>
        /\ z.block = blocks + 1 /\ z.args = <<>>
        /\ code' = Append(Append(code, x), z)
  BY TwoAre
<1>3. PICK c : c = Append(code, x)
  OBVIOUS
<1>4. PICK e : e = Append(c, z)
  OBVIOUS
<1>5. c \in Seq(Instr) /\ e \in Seq(Instr) /\ code' = e
  BY <1>1, <1>2, <1>3, <1>4, OneMore
<1>6. Extends(code, e)
  BY <1>5, EmitsTwo
<1>7. NewIn(code, code, insert, blocks)
  BY <1>1, NothingNew
<1>8. NewIn(code, c, insert, blocks)
  BY <1>1, <1>2, <1>3, <1>7, NewMore
<1>9. z.block > blocks
  BY <1>1, <1>2
<1>10. NewIn(code, e, insert, blocks)
  BY <1>1, <1>4, <1>5, <1>8, <1>9, NewMore
<1>11. ~UsesLoopValue => Phis(e)
  <2>1. SUFFICES ASSUME ~UsesLoopValue PROVE Phis(e)
    OBVIOUS
  <2>2. Phis(code)
    BY <1>1, <2>1 DEF ValueInv
  <2>3. \A k \in 1 .. Len(x.args) : x.args[k] # 0 =>
          /\ x.op = "phi" /\ x.args[k] \in 1 .. Len(code) /\ code[x.args[k]].block = x.from[k]
    BY <1>2
  <2>4. Phis(c)
    BY <1>1, <1>3, <2>2, <2>3, PhisMore
  <2>5. \A k \in 1 .. Len(z.args) : z.args[k] # 0 =>
          /\ z.op = "phi" /\ z.args[k] \in 1 .. Len(c) /\ c[z.args[k]].block = z.from[k]
    BY <1>2
  <2>6. QED
    BY <1>4, <1>5, <2>4, <2>5, PhisMore
<1>12. /\ code' \in Seq(Instr) /\ Extends(code, code') /\ NewIn(code, code', insert, blocks)
       /\ ~UsesLoopValue => Phis(code')
  BY <1>5, <1>6, <1>10, <1>11
<1>13. insert' \in Nat /\ (insert' = insert \/ insert' > blocks)
  BY <1>1
<1>14. f.at # "else" /\ \A a \in Awaited(f) : a > blocks
  BY DEF Awaited
<1>15. Top.at # "defers" => Top.value = 0
  BY ThisShape
<1>16. QED
  BY <1>1, <1>12, <1>13, <1>14, <1>15, PushValues

LEMMA IfValues ==
  ASSUME Inv, ShapeInv, ValueInv, IfExpr, Running'
  PROVE  ValueInv'
<1>1. /\ fn' = fn /\ InBody /\ blocks \in Nat /\ insert' = blocks + 2
      /\ code' = code \o <<Br(insert, blocks + 1), CondBr(blocks + 1, Name, blocks + 2, blocks + 3)>>
  BY IfMoves, Types DEF IfExpr
<1>2. PICK orelse \in Nat, merge \in Nat, f \in Frame :
        /\ orelse = IF This.op = "if" THEN 0 ELSE blocks + 3
        /\ merge = IF This.op = "if" THEN blocks + 3 ELSE blocks + 4
        /\ blocks' = merge /\ f.at = "then" /\ f.value = 0
        /\ f.after = merge /\ f.orelse = orelse
        /\ Steps(stack, stack', Len(stack) + 1, f)
  BY IfMoves, Zenon
<1>3. /\ f.after > blocks /\ (f.orelse = 0 \/ f.orelse > blocks)
      /\ blocks' \in Nat /\ blocks <= blocks'
  BY <1>1, <1>2
<1>4. QED
  BY <1>1, <1>2, <1>3, EntersValues

LEMMA WhileValues ==
  ASSUME Inv, ShapeInv, ValueInv, WhileExpr, Running'
  PROVE  ValueInv'
<1>1. /\ fn' = fn /\ InBody /\ blocks \in Nat /\ insert' = blocks + 2 /\ blocks' = blocks + 3
      /\ code' = code \o <<Br(insert, blocks + 1), CondBr(blocks + 1, Name, blocks + 2, blocks + 3)>>
  BY WhileMoves, Types DEF WhileExpr
<1>2. PICK f \in Frame : /\ f.at = "loop" /\ f.value = 0 /\ f.after = blocks + 3
                         /\ Steps(stack, stack', Len(stack) + 1, f)
  BY WhileMoves, Zenon
<1>3. f.after > blocks /\ blocks' \in Nat /\ blocks <= blocks'
  BY <1>1, <1>2
<1>4. QED
  BY <1>1, <1>2, <1>3, EntersValues

\* Every step keeps what is known of the values.
LEMMA ValueNext ==
  ASSUME Inv, ShapeInv, TargetInv, ValueInv, PlainHere, Generate
  PROVE  ValueInv'
<1>1. SUFFICES ASSUME Running' PROVE ValueInv'
  BY Zenon DEF ValueInv
<1>2. ~FunctionEnd
  BY <1>1 DEF FunctionEnd, Running
<1>3. CASE CallStmt
  BY <1>3, CallValues
<1>4. CASE BreakStmt
  BY <1>4, BreakValues
<1>5. CASE DeferStmt
  BY <1>1, <1>5, DeferValues
<1>6. CASE ReturnStmt
  BY <1>1, <1>6, ReturnStmtValues
<1>7. CASE IfExpr
  BY <1>1, <1>7, IfValues
<1>8. CASE ThenDone
  BY <1>8, ThenDoneValues
<1>9. CASE IfDone
  BY <1>1, <1>9, IfDoneValues
<1>10. CASE IfElseDone
  BY <1>1, <1>10, IfElseDoneValues
<1>11. CASE WhileExpr
  BY <1>1, <1>11, WhileValues
<1>12. CASE WhileDone
  BY <1>12, WhileDoneValues
<1>13. CASE DeferredBody
  BY <1>1, <1>13, DeferredValues
<1>14. CASE DeferredDone
  BY <1>14, DeferredDoneValues
<1>15. CASE ReturnBuilt
  BY <1>15, ReturnBuiltValues
<1>16. CASE BodyEnd
  BY <1>1, <1>16, BodyEndValues
<1>17. QED
  BY <1>2, <1>3, <1>4, <1>5, <1>6, <1>7, <1>8, <1>9, <1>10, <1>11, <1>12, <1>13, <1>14,
     <1>15, <1>16 DEF Generate

-----------------------------------------------------------------------------
(* The verdict: what is reached without a block *)

\* Whatever leads out of a set of blocks only through d keeps the search in it.
LEMMA ReachWithin ==
  ASSUME NEW c, NEW n \in Nat, NEW d, NEW S, 1 \in S,
         \A b \in S : b # d => Successors(c, b) \subseteq S
  PROVE  ReachedWithout(c, n, d) \subseteq S \ {d}
<1>1. PICK g : ReachIs(g, c, n, d) /\ ReachedWithout(c, n, d) = g[n]
  BY ReachOf
<1> DEFINE K == {k \in Nat : k <= n => g[k] \subseteq S \ {d}}
<1>2. 0 \in K
  <2>1. 0 \in 0 .. n
    OBVIOUS
  <2>2. g[0] = {1} \ {d}
    BY <1>1, <2>1 DEF ReachIs
  <2>3. QED
    BY <2>2
<1>3. ASSUME NEW k \in Nat, k \in K PROVE k + 1 \in K
  <2>1. SUFFICES ASSUME k + 1 <= n PROVE g[k + 1] \subseteq S \ {d}
    OBVIOUS
  <2>2. k + 1 \in 0 .. n /\ k + 1 # 0 /\ (k + 1) - 1 = k
    BY <2>1
  <2>3. g[k + 1] = g[k] \union ((UNION {Successors(c, b) : b \in g[k]}) \ {d})
    BY <1>1, <2>2 DEF ReachIs
  <2>4. g[k] \subseteq S \ {d}
    BY <1>3, <2>1
  <2>5. \A b \in g[k] : Successors(c, b) \subseteq S
    BY <2>4
  <2>6. PICK U : U = UNION {Successors(c, b) : b \in g[k]}
    OBVIOUS
  <2>7. U \subseteq S
    <3>1. SUFFICES ASSUME NEW x \in U PROVE x \in S
      OBVIOUS
    <3>2. PICK w \in {Successors(c, b) : b \in g[k]} : x \in w
      BY <2>6, <3>1
    <3>3. w \subseteq S
      BY <2>5, <3>2
    <3>4. QED
      BY <3>2, <3>3
  <2>8. g[k + 1] = g[k] \union (U \ {d})
    BY <2>3, <2>6
  <2>9. QED
    BY <2>4, <2>7, <2>8
<1>4. n \in K
  <2> HIDE DEF K
  <2>1. Nat \subseteq K
    BY <1>2, <1>3, SetInduction
  <2>2. QED
    BY <2>1
<1>5. QED
  BY <1>1, <1>4

\* The blocks that an instruction leads to
LEMMA SuccessorsWithin ==
  ASSUME NEW c \in Seq(Instr), NEW b, NEW S,
         \A i \in 1 .. Len(c) : c[i].block = b => \A k \in 1 .. Len(c[i].to) : c[i].to[k] \in S
  PROVE  Successors(c, b) \subseteq S
<1>1. \A i \in InstrsOf(c, b) : ToSet(c[i].to) \subseteq S
  <2>1. SUFFICES ASSUME NEW i \in InstrsOf(c, b) PROVE ToSet(c[i].to) \subseteq S
    OBVIOUS
  <2>2. i \in 1 .. Len(c) /\ c[i].block = b /\ c[i] \in Instr
    BY <2>1 DEF InstrsOf
  <2>3. PICK t : t = c[i].to
    OBVIOUS
  <2>4. t \in Seq(Nat)
    BY <2>2, <2>3 DEF Instr
  <2>5. DOMAIN t = 1 .. Len(t)
    BY <2>4
  <2>6. \A k \in 1 .. Len(t) : t[k] \in S
    BY <2>2, <2>3
  <2>7. ToSet(t) \subseteq S
    BY <2>5, <2>6 DEF ToSet
  <2>8. QED
    BY <2>3, <2>7
<1>2. QED
  BY <1>1 DEF Successors

\* A block dominates itself.
LEMMA DominatesItself ==
  ASSUME NEW c \in Seq(Instr), NEW n \in Nat \ {0}, Targets(c, n), NEW d
  PROVE  Dominates(c, n, d, d)
<1>1. \A b : Successors(c, b) \subseteq 1 .. n
  <2>1. SUFFICES ASSUME NEW b PROVE Successors(c, b) \subseteq 1 .. n
    OBVIOUS
  <2>2. \A i \in 1 .. Len(c) : c[i].block = b => \A k \in 1 .. Len(c[i].to) : c[i].to[k] \in 1 .. n
    BY DEF Targets
  <2>3. QED
    BY <2>2, SuccessorsWithin
<1>2. PICK S : S = 1 .. n
  OBVIOUS
<1>3. 1 \in S /\ \A b \in S : b # d => Successors(c, b) \subseteq S
  BY <1>1, <1>2
<1>4. ReachedWithout(c, n, d) \subseteq S \ {d}
  BY <1>3, ReachWithin
<1>5. QED
  BY <1>4 DEF Dominates

\* A block that no block up to m but e leads past dominates what is past m.
LEMMA DominatesBeyond ==
  ASSUME NEW c \in Seq(Instr), NEW n \in Nat \ {0}, Targets(c, n), NEW m \in 1 .. n, NEW e,
         \A i \in 1 .. Len(c) :
           c[i].block <= m /\ c[i].block # e => \A k \in 1 .. Len(c[i].to) : c[i].to[k] <= m,
         NEW b, b = e \/ b > m
  PROVE  Dominates(c, n, e, b)
<1>1. PICK S : S = 1 .. m
  OBVIOUS
<1>2. \A a \in S : a # e => Successors(c, a) \subseteq S
  <2>1. SUFFICES ASSUME NEW a \in S, a # e PROVE Successors(c, a) \subseteq S
    OBVIOUS
  <2>2. ASSUME NEW i \in 1 .. Len(c), c[i].block = a, NEW k \in 1 .. Len(c[i].to)
        PROVE  c[i].to[k] \in S
    <3>1. c[i].to[k] \in 1 .. n
      BY DEF Targets
    <3>2. a <= m
      BY <1>1, <2>1
    <3>3. c[i].to[k] <= m
      BY <2>1, <2>2, <3>2
    <3>4. PICK t \in 1 .. n : t = c[i].to[k]
      BY <3>1
    <3>5. t \in 1 .. m
      BY <3>3, <3>4
    <3>6. QED
      BY <1>1, <3>4, <3>5
  <2>3. QED
    BY <2>2, SuccessorsWithin
<1>3. 1 \in S
  BY <1>1
<1>4. ReachedWithout(c, n, e) \subseteq S \ {e}
  BY <1>2, <1>3, ReachWithin
<1>5. b \notin S \ {e}
  <2>1. CASE b = e
    BY <2>1
  <2>2. CASE b > m
    <3>1. \A a \in S : ~(a > m)
      BY <1>1
    <3>2. QED
      BY <2>2, <3>1
  <2>3. QED
    BY <2>1, <2>2
<1>6. QED
  BY <1>4, <1>5 DEF Dominates

\* A function that uses no value of a loop uses only values that are computed on
\* every path.
LEMMA EndDominated ==
  ASSUME Inv, ShapeInv, TargetInv, ValueInv, FunctionEnd, ~UsesLoopValue
  PROVE  Dominated(code', blocks)
<1>1. /\ Running /\ Len(stack) = 2 /\ Caller = stack[1] /\ Caller \in Frame
      /\ Caller.at = "function"
  BY EndHeight
<1>2. /\ blocks \in Nat \ {0} /\ insert \in 1 .. blocks
      /\ code \in Seq(Instr) /\ code' \in Seq(Instr) /\ Extends(code, code')
      /\ Targets(code', blocks) /\ Len(code) \in Nat /\ Len(code') \in Nat
  BY EndCode, Types
<1>3. Values(fn, code, stack) /\ Phis(code) /\ Enclosed(code, blocks, insert, stack)
  BY <1>1 DEF ValueInv
<1>4. PICK e : e = code'
  OBVIOUS
<1>5. SUFFICES ASSUME NEW i \in 1 .. Len(e), NEW k \in 1 .. Len(e[i].args), e[i].args[k] # 0
               PROVE  Dominates(e, blocks, e[e[i].args[k]].block,
                                IF e[i].op = "phi" THEN e[i].from[k] ELSE e[i].block)
  BY <1>4 DEF Dominated
<1>6. CASE i \in 1 .. Len(code)
  <2>1. e[i] = code[i]
    BY <1>2, <1>4, <1>6 DEF Extends
  <2>2. /\ code[i].op = "phi" /\ code[i].args[k] \in 1 .. Len(code)
        /\ code[code[i].args[k]].block = code[i].from[k]
    BY <1>3, <1>5, <1>6, <2>1 DEF Phis
  <2>3. PICK v \in 1 .. Len(code) : v = code[i].args[k]
    BY <2>2
  <2>4. e[v] = code[v]
    BY <1>2, <1>4 DEF Extends
  <2>5. PICK d : d = code[v].block
    OBVIOUS
  <2>6. e[e[i].args[k]].block = d /\ e[i].op = "phi" /\ e[i].from[k] = d
    BY <2>1, <2>2, <2>3, <2>4, <2>5
  <2>7. Dominates(e, blocks, d, d)
    BY <1>2, <1>4, DominatesItself
  <2>8. QED
    BY <2>6, <2>7
<1>7. CASE i \notin 1 .. Len(code)
  <2>1. ~Caller.returns
    BY <1>2, <1>4, <1>7, EndCode
  <2>2. PICK x \in Instr : /\ x.op = "ret" /\ x.block = insert /\ x.to = <<>>
                           /\ x.args = <<Returned>> /\ code' = Append(code, x)
    BY <2>1, EndCode
  <2>3. e = Append(code, x) /\ e \in Seq(Instr)
    BY <1>2, <1>4, <2>2
  <2>4. Len(e) = Len(code) + 1 /\ e[Len(e)] = x /\ \A j \in 1 .. Len(code) : e[j] = code[j]
    BY <1>2, <2>3, OneMore
  <2>5. e[i] = x
    BY <1>2, <1>7, <2>4
  <2>6. PICK v : v = Returned /\ v \in {0, Caller.value}
    BY ReturnedIs, EndHeight
  <2>7. e[i].args[k] = v /\ e[i].op # "phi" /\ e[i].block = insert /\ v # 0
    <3>1. x.args = <<v>>
      BY <2>2, <2>6
    <3>2. k \in 1 .. Len(x.args)
      BY <2>5
    <3>3. k = 1
      BY <3>1, <3>2
    <3>4. x.args[k] = v
      BY <3>1, <3>3
    <3>5. QED
      BY <1>5, <2>2, <2>5, <3>4
  <2>8. v \in 1 .. Len(code)
    <3>1. 1 \in 1 .. Len(stack)
      BY <1>1
    <3>2. ValueOK(fn, code, Caller)
      BY <1>1, <1>3, <3>1 DEF Values
    <3>3. QED
      BY <1>1, <2>6, <2>7, <3>2 DEF ValueOK
  <2>9. PICK q : q = code[v].block
    OBVIOUS
  <2>10. PICK m \in 1 .. blocks :
           /\ \A j \in 1 .. Len(code) :
                code[j].block <= m /\ code[j].block # q =>
                  \A l \in 1 .. Len(code[j].to) : code[j].to[l] <= m
           /\ insert = q \/ insert > m
    <3>1. Len(stack) > 1 /\ stack[1].value = v
      BY <1>1, <2>6, <2>7
    <3>2. QED
      BY <1>3, <2>7, <2>9, <3>1 DEF Enclosed
  <2>11. \A j \in 1 .. Len(e) :
           e[j].block <= m /\ e[j].block # q => \A l \in 1 .. Len(e[j].to) : e[j].to[l] <= m
    <3>1. SUFFICES ASSUME NEW j \in 1 .. Len(e), e[j].block <= m, e[j].block # q,
                          NEW l \in 1 .. Len(e[j].to)
                   PROVE  e[j].to[l] <= m
      OBVIOUS
    <3>2. CASE j \in 1 .. Len(code)
      <4>1. e[j] = code[j]
        BY <2>4, <3>2
      <4>2. QED
        BY <2>10, <3>1, <3>2, <4>1
    <3>3. CASE j \notin 1 .. Len(code)
      <4>1. e[j] = x
        BY <1>2, <2>4, <3>3
      <4>2. QED
        BY <2>2, <3>1, <4>1
    <3>4. QED
      BY <3>2, <3>3
  <2>12. Targets(e, blocks)
    BY <1>2, <1>4
  <2>13. Dominates(e, blocks, q, insert)
    BY <1>2, <2>3, <2>10, <2>11, <2>12, DominatesBeyond
  <2>14. e[v] = code[v]
    BY <2>4, <2>8
  <2>15. QED
    BY <2>7, <2>9, <2>13, <2>14
<1>8. QED
  BY <1>6, <1>7

-----------------------------------------------------------------------------
(* The generation that never ends *)

\* A body restarts the deferred bodies for one of two reasons.
LEMMA RestartsHere ==
  ASSUME NEW p, IsFunction(p), NEW b \in 1 .. Len(p), NEW i \in 1 .. Len(p[b]),
         \/ p[b][i].op \in {"return", "defer"}
         \/ \E c \in BodiesOf(p, <<b, i>>) : Restarts(p, c)
  PROVE  Restarts(p, b)
<1>1. SUFFICES ASSUME NEW S \in SUBSET (1 .. Len(p)), Plain(p, S), b \in S
               PROVE  FALSE
  BY DEF Restarts
<1>2. p[b][i].op \notin {"return", "defer"} /\ BodiesOf(p, <<b, i>>) \subseteq S
  BY <1>1 DEF Plain
<1>3. PICK c \in BodiesOf(p, <<b, i>>) : Restarts(p, c)
  BY <1>2
<1>4. c \in S /\ c \notin S
  BY <1>1, <1>2, <1>3 DEF Restarts
<1>5. QED
  BY <1>4

\* It does not without one of them.
LEMMA RestartsFor ==
  ASSUME NEW p, IsFunction(p), NEW b \in 1 .. Len(p),
         \A i \in 1 .. Len(p[b]) :
           /\ p[b][i].op \notin {"return", "defer"}
           /\ \A c \in BodiesOf(p, <<b, i>>) : ~Restarts(p, c)
  PROVE  ~Restarts(p, b)
<1>1. PICK S : S = {b} \union {c \in 1 .. Len(p) : ~Restarts(p, c)}
  OBVIOUS
<1>2. S \in SUBSET (1 .. Len(p)) /\ b \in S
  BY <1>1
<1>3. ASSUME NEW a \in S, NEW i \in 1 .. Len(p[a])
      PROVE  p[a][i].op \notin {"return", "defer"} /\ BodiesOf(p, <<a, i>>) \subseteq S
  <2>1. a \in 1 .. Len(p)
    BY <1>2
  <2>2. \A c \in BodiesOf(p, <<a, i>>) : c \in 1 .. Len(p)
    BY <2>1, BodiesLater
  <2>3. CASE a = b
    BY <1>1, <2>2, <2>3
  <2>4. CASE ~Restarts(p, a)
    BY <1>1, <2>1, <2>2, <2>4, RestartsHere
  <2>5. QED
    BY <1>1, <2>3, <2>4
<1>4. Plain(p, S)
  BY <1>3 DEF Plain
<1>5. QED
  BY <1>2, <1>4 DEF Restarts

\* A body that is done has not restarted them.
LEMMA PlainDone ==
  ASSUME NEW p, IsFunction(p), NEW f \in Frame, f.body \in 1 .. Len(p),
         f.i > Len(p[f.body]), PlainBefore(p, f)
  PROVE  ~Restarts(p, f.body)
<1>1. Len(p[f.body]) \in Nat /\ f.i \in Nat
  BY StatementsOf DEF Frame
<1>2. \A i \in 1 .. Len(p[f.body]) : i < f.i
  BY <1>1
<1>3. QED
  BY <1>2, RestartsFor DEF PlainBefore

\* A statement that is passed
LEMMA PlainPasses ==
  ASSUME NEW p, NEW f \in Frame, NEW g \in Frame, PlainBefore(p, f),
         g.body = f.body, g.i = f.i + 1,
         f.i \in 1 .. Len(p[f.body]) =>
           /\ p[f.body][f.i].op \notin {"return", "defer"}
           /\ \A c \in BodiesOf(p, <<f.body, f.i>>) : ~Restarts(p, c)
  PROVE  PlainBefore(p, g)
<1>1. f.i \in Nat
  BY DEF Frame
<1>2. SUFFICES ASSUME NEW i \in 1 .. Len(p[f.body]), i < f.i + 1
               PROVE  /\ p[f.body][i].op \notin {"return", "defer"}
                      /\ \A c \in BodiesOf(p, <<f.body, i>>) : ~Restarts(p, c)
  BY DEF PlainBefore
<1>3. CASE i = f.i
  BY <1>2, <1>3
<1>4. CASE i < f.i
  BY <1>4 DEF PlainBefore
<1>5. QED
  BY <1>1, <1>2, <1>3, <1>4

\* A frame that begins
LEMMA PlainBegins ==
  ASSUME NEW p, NEW f, f.i = 1
  PROVE  PlainBefore(p, f)
BY DEF PlainBefore

\* Only the last frame has to be looked at.
LEMMA NeverSteps ==
  ASSUME NEW p, NEW d, NEW s \in Seq(Frame), NEW t, NEW n, NEW f, Steps(s, t, n, f),
         f.at # "defers", NeverEnds(p, d, s),
         \A j \in 1 .. Len(s) : s[j].at = "defers" => j < n,
         \A j \in 1 .. Len(s) :
           Innermost(s, j) /\ s[j].i \in 1 .. Len(d) /\ Restarts(p, d[s[j].i])
             /\ (j = Len(s) \/ NotYet(p, d, s, j)) =>
               /\ PlainBefore(p, f)
               /\ n = j + 1 => f.at = "deferred" /\ f.body = d[s[j].i]
               /\ n > j + 1 => PlainBelow(p, s[n - 1], f)
  PROVE  NeverEnds(p, d, t)
<1>1. /\ n \in Nat \ {0} /\ n <= Len(s) + 1 /\ Len(t) = n /\ t[n] = f /\ Len(s) \in Nat
      /\ \A j \in 1 .. n : j # n => t[j] = s[j] /\ j \in 1 .. Len(s)
  BY DEF Steps
<1>2. PICK j \in 1 .. Len(s) : \E k \in 1 .. Len(d) :
        /\ Innermost(s, j) /\ Restarts(p, d[k])
        /\ \/ k > s[j].i
           \/ k = s[j].i /\ (j = Len(s) \/ NotYet(p, d, s, j))
  BY DEF NeverEnds
<1>3. PICK k \in 1 .. Len(d) :
        /\ Innermost(s, j) /\ Restarts(p, d[k])
        /\ \/ k > s[j].i
           \/ k = s[j].i /\ (j = Len(s) \/ NotYet(p, d, s, j))
  BY <1>2
<1>4. j < n /\ j \in 1 .. n /\ j # n /\ t[j] = s[j]
  BY <1>1, <1>3 DEF Innermost
<1>5. Innermost(t, j)
  <2>1. ASSUME NEW m \in 1 .. Len(t), m > j PROVE t[m].at # "defers"
    BY <1>1, <1>3, <2>1 DEF Innermost
  <2>2. QED
    BY <1>3, <1>4, <2>1 DEF Innermost
<1>6. CASE k > s[j].i
  BY <1>1, <1>3, <1>4, <1>5, <1>6 DEF NeverEnds
<1>7. CASE k = s[j].i /\ (j = Len(s) \/ NotYet(p, d, s, j))
  <2>1. /\ PlainBefore(p, f)
        /\ n = j + 1 => f.at = "deferred" /\ f.body = d[s[j].i]
        /\ n > j + 1 => PlainBelow(p, s[n - 1], f)
    BY <1>3, <1>7
  <2>2. t[j + 1].at = "deferred" /\ t[j + 1].body = d[t[j].i]
    <3>1. CASE n = j + 1
      BY <1>1, <1>4, <2>1, <3>1
    <3>2. CASE n > j + 1
      <4>1. j + 1 \in 1 .. n /\ j + 1 # n
        BY <1>1, <3>2
      <4>2. t[j + 1] = s[j + 1] /\ j + 1 \in 1 .. Len(s)
        BY <1>1, <4>1
      <4>3. NotYet(p, d, s, j)
        BY <1>1, <1>7, <4>2
      <4>4. QED
        BY <1>4, <4>2, <4>3 DEF NotYet
    <3>3. QED
      BY <1>1, <1>4, <3>1, <3>2
  <2>3. ASSUME NEW m \in 1 .. Len(t), m > j PROVE PlainBefore(p, t[m])
    <3>1. CASE m = n
      BY <1>1, <2>1, <3>1
    <3>2. CASE m # n
      <4>1. t[m] = s[m] /\ m \in 1 .. Len(s) /\ NotYet(p, d, s, j)
        BY <1>1, <1>7, <2>3, <3>2
      <4>2. QED
        BY <2>3, <4>1 DEF NotYet
    <3>3. QED
      BY <3>1, <3>2
  <2>4. ASSUME NEW m \in 1 .. Len(t), m > j + 1 PROVE PlainBelow(p, t[m - 1], t[m])
    <3>1. m - 1 \in 1 .. n /\ m - 1 # n /\ t[m - 1] = s[m - 1]
      BY <1>1, <2>4
    <3>2. CASE m = n
      BY <1>1, <2>1, <2>4, <3>1, <3>2
    <3>3. CASE m # n
      <4>1. t[m] = s[m] /\ m \in 1 .. Len(s) /\ NotYet(p, d, s, j)
        BY <1>1, <1>7, <2>4, <3>3
      <4>2. PlainBelow(p, s[m - 1], s[m])
        BY <2>4, <4>1 DEF NotYet
      <4>3. QED
        BY <3>1, <4>1, <4>2
    <3>4. QED
      BY <3>2, <3>3
  <2>5. NotYet(p, d, t, j)
    BY <2>2, <2>3, <2>4 DEF NotYet
  <2>6. t[j].i = k
    BY <1>4, <1>7
  <2>7. j \in 1 .. Len(t)
    BY <1>1, <1>4
  <2>8. QED
    BY <1>3, <1>5, <2>5, <2>6, <2>7 DEF NeverEnds
<1>8. QED
  BY <1>3, <1>6, <1>7

\* What the frame above gen_codegen_defer_blocks() is for.
LEMMA AboveDefers ==
  ASSUME Inv, Running, NEW j \in 1 .. Len(stack), Innermost(stack, j),
         NotYet(fn, defer_blocks, stack, j), j < Len(stack)
  PROVE  /\ PlainBefore(fn, Top)
         /\ Len(stack) = j + 1 => Top.at = "deferred" /\ Top.body = defer_blocks[stack[j].i]
         /\ Len(stack) > j + 1 => PlainBelow(fn, Caller, Top) /\ PlainBefore(fn, Caller)
         /\ Len(stack) = j + 2 =>
              Caller.at = "deferred" /\ Caller.body = defer_blocks[stack[j].i]
         /\ Len(stack) > j + 2 => PlainBelow(fn, stack[Len(stack) - 2], Caller)
<1>1. Len(stack) \in Nat \ {0} /\ Top = stack[Len(stack)]
  BY TopOK
<1>2. PICK n \in 1 .. Len(stack) : n = Len(stack)
  BY <1>1
<1>3. /\ PlainBefore(fn, stack[n])
      /\ n = j + 1 => stack[n].at = "deferred" /\ stack[n].body = defer_blocks[stack[j].i]
      /\ n > j + 1 => PlainBelow(fn, stack[n - 1], stack[n])
  BY <1>2 DEF NotYet
<1>4. ASSUME n > j + 1
      PROVE  /\ PlainBefore(fn, stack[n - 1])
             /\ n = j + 2 =>
                  stack[n - 1].at = "deferred" /\ stack[n - 1].body = defer_blocks[stack[j].i]
             /\ n > j + 2 => PlainBelow(fn, stack[n - 2], stack[n - 1])
  <2>1. PICK m \in 1 .. Len(stack) : m = n - 1
    BY <1>4
  <2>2. m > j /\ (n > j + 2 => m > j + 1) /\ (n = j + 2 => m = j + 1) /\ m - 1 = n - 2
    BY <1>4, <2>1
  <2>3. PlainBefore(fn, stack[m])
    BY <2>2 DEF NotYet
  <2>4. m > j + 1 => PlainBelow(fn, stack[m - 1], stack[m])
    BY DEF NotYet
  <2>5. m = j + 1 => stack[m].at = "deferred" /\ stack[m].body = defer_blocks[stack[j].i]
    BY DEF NotYet
  <2>6. QED
    BY <2>1, <2>2, <2>3, <2>4, <2>5
<1>5. n > j + 1 => n > 1
  OBVIOUS
<1>6. QED
  BY <1>1, <1>2, <1>3, <1>4 DEF Caller

\* A statement that neither returns nor defers is passed.
LEMMA NeverAdvances ==
  ASSUME Inv, InBody, NeverEnds(fn, defer_blocks, stack),
         This.op \notin Nests, This.op # "return", NEW v \in Nat
  PROVE  NeverEnds(fn, defer_blocks, ReplaceAt(stack, Len(stack), After(Top, v)))
<1>1. /\ Running /\ Top.at # "defers" /\ Len(stack) \in Nat \ {0} /\ Top = stack[Len(stack)]
      /\ Top \in Frame /\ stack \in Seq(Frame) /\ stack # <<>> /\ IsFunction(fn)
      /\ Caller = stack[Len(stack) - 1]
  BY TopOK, Types DEF InBody, Inv, TypeOK, Caller
<1>2. /\ Top.body \in 1 .. Len(fn) /\ Top.i \in 1 .. Len(fn[Top.body])
      /\ This = fn[Top.body][Top.i]
  BY ThisOK DEF This, Body
<1>3. PICK f : f = After(Top, v)
  OBVIOUS
<1>4. /\ f \in Frame /\ f.at = Top.at /\ f.body = Top.body /\ f.i = Top.i + 1
      /\ f.orelse = Top.orelse
  BY <1>1, <1>3, AfterIs
<1>5. PICK t : t = ReplaceAt(stack, Len(stack), After(Top, v))
  OBVIOUS
<1>6. Steps(stack, t, Len(stack), f)
  BY <1>1, <1>3, <1>4, <1>5, TopSteps
<1>7. \A j \in 1 .. Len(stack) : stack[j].at = "defers" => j < Len(stack)
  BY <1>1
<1>8. This.op \notin {"return", "defer"} /\ BodiesOf(fn, <<Top.body, Top.i>>) = {}
  BY <1>1, <1>2, BodiesAre DEF Nests
<1>9. PlainBefore(fn, Top) => PlainBefore(fn, f)
  BY <1>1, <1>2, <1>4, <1>8, PlainPasses
<1>10. PlainBelow(fn, Caller, Top) => PlainBelow(fn, Caller, f)
  BY <1>4 DEF PlainBelow
<1>11. ASSUME NEW j \in 1 .. Len(stack), Innermost(stack, j), stack[j].i \in 1 .. Len(defer_blocks),
              Restarts(fn, defer_blocks[stack[j].i]),
              j = Len(stack) \/ NotYet(fn, defer_blocks, stack, j)
       PROVE  /\ PlainBefore(fn, f)
              /\ Len(stack) = j + 1 => f.at = "deferred" /\ f.body = defer_blocks[stack[j].i]
              /\ Len(stack) > j + 1 => PlainBelow(fn, stack[Len(stack) - 1], f)
  <2>1. j < Len(stack) /\ NotYet(fn, defer_blocks, stack, j)
    BY <1>1, <1>7, <1>11 DEF Innermost
  <2>2. /\ PlainBefore(fn, Top)
        /\ Len(stack) = j + 1 => Top.at = "deferred" /\ Top.body = defer_blocks[stack[j].i]
        /\ Len(stack) > j + 1 => PlainBelow(fn, Caller, Top)
    BY <1>1, <1>11, <2>1, AboveDefers
  <2>3. QED
    BY <1>1, <1>4, <1>9, <1>10, <2>2
<1>12. NeverEnds(fn, defer_blocks, t)
  BY <1>1, <1>4, <1>6, <1>7, <1>11, NeverSteps
<1>13. QED
  BY <1>5, <1>12

\* A frame for a body of the statement at hand is pushed.
LEMMA NeverEnters ==
  ASSUME Inv, InBody, NeverEnds(fn, defer_blocks, stack), NEW f \in Frame,
         f.at \in {"then", "loop"}, f.i = 1, f.body = This.body,
         This.op \in {"if", "ifelse", "while"},
         This.op = "ifelse" <=> f.at = "then" /\ f.orelse # 0
  PROVE  NeverEnds(fn, defer_blocks, Append(stack, f))
<1>1. /\ Running /\ Top.at # "defers" /\ Len(stack) \in Nat \ {0} /\ Top = stack[Len(stack)]
      /\ stack \in Seq(Frame) /\ IsFunction(fn)
  BY TopOK, Types DEF InBody, Inv, TypeOK
<1>2. /\ Top.body \in 1 .. Len(fn) /\ Top.i \in 1 .. Len(fn[Top.body])
      /\ This = fn[Top.body][Top.i]
  BY ThisOK DEF This, Body
<1>3. Steps(stack, Append(stack, f), Len(stack) + 1, f)
  BY <1>1, PushSteps
<1>4. \A j \in 1 .. Len(stack) : stack[j].at = "defers" => j < Len(stack) /\ j < Len(stack) + 1
  BY <1>1
<1>5. This.op # "ifelse" => \A c \in BodiesOf(fn, <<Top.body, Top.i>>) : c = f.body
  <2>1. This.op # "ifelse" => BodiesOf(fn, <<Top.body, Top.i>>) \subseteq {This.body}
    BY <1>1, <1>2, BodiesAre
  <2>2. QED
    BY <2>1
<1>6. PlainBelow(fn, Top, f)
  BY <1>2, <1>5 DEF PlainBelow
<1>7. PlainBefore(fn, f)
  BY PlainBegins
<1>8. PICK t : t = Append(stack, f)
  OBVIOUS
<1>9. PICK n : n = Len(stack) + 1
  OBVIOUS
<1>10. /\ n - 1 = Len(stack) /\ Steps(stack, t, n, f)
       /\ \A j \in 1 .. Len(stack) : stack[j].at = "defers" => j < n
       /\ \A j \in 1 .. Len(stack) : Innermost(stack, j) => n # j + 1
  BY <1>1, <1>3, <1>4, <1>8, <1>9 DEF Innermost
<1>11. /\ f.at # "defers" /\ stack[n - 1] = Top
  BY <1>1, <1>10
<1>12. NeverEnds(fn, defer_blocks, t)
  BY <1>1, <1>6, <1>7, <1>10, <1>11, NeverSteps
<1>13. QED
  BY <1>8, <1>12

\* The else branch comes after the first one, which has not restarted anything.
LEMMA NeverElse ==
  ASSUME Inv, NeverEnds(fn, defer_blocks, stack), ThenDone
  PROVE  NeverEnds(fn, defer_blocks, stack')
<1>1. /\ Running /\ Top.at = "then" /\ Top.i > Len(fn[Top.body]) /\ Top.orelse # 0
      /\ Len(stack) \in Nat \ {0} /\ Top = stack[Len(stack)] /\ Top \in Frame
      /\ stack \in Seq(Frame) /\ stack # <<>> /\ IsFunction(fn)
      /\ Caller = stack[Len(stack) - 1] /\ FrameOK(fn, blocks, Top) /\ Linked(fn, Caller, Top)
  BY TopOK, Types DEF ThenDone, BodyDone, Body, Inv, TypeOK, Caller
<1>2. /\ Top.body \in 1 .. Len(fn)
      /\ Caller \in Frame /\ Caller.at # "defers" /\ Caller.body \in 1 .. Len(fn)
      /\ Caller.i \in 1 .. Len(fn[Caller.body]) /\ fn[Caller.body][Caller.i].op = "ifelse"
      /\ fn[Caller.body][Caller.i].orelse \in Nat /\ Top.after \in Nat
  <2>1. /\ Top.body \in 1 .. Len(fn) /\ fn[Caller.body][Caller.i].op = "ifelse"
    BY <1>1 DEF FrameOK, Linked
  <2>2. /\ Caller \in Frame /\ Caller.at # "defers" /\ Caller.body \in 1 .. Len(fn)
        /\ Caller.i \in 1 .. Len(fn[Caller.body])
        /\ fn[Caller.body][Caller.i].orelse \in 1 .. Len(fn)
    BY <1>1, <2>1, CallerOK
  <2>3. fn[Caller.body][Caller.i].orelse \in Nat
    BY <2>2
  <2>4. Top.after \in Nat
    BY <1>1 DEF Frame
  <2>5. QED
    BY <2>1, <2>2, <2>3, <2>4
<1>3. PICK w : w = fn[Caller.body][Caller.i]
  OBVIOUS
<1>4. PICK f : f = [Call("else", w.orelse, Top.after, 0) EXCEPT
                      !.thenValue = Top.value, !.thenBlock = insert]
  OBVIOUS
<1>5. f \in Frame /\ f.at = "else" /\ f.i = 1 /\ f.body = w.orelse
  <2>1. insert \in Nat /\ Top.value \in Nat
    BY <1>1, Types DEF Frame
  <2>2. QED
    BY <1>2, <1>3, <1>4, <2>1 DEF Call, Frame
<1>6. Steps(stack, stack', Len(stack), f)
  <2>1. stack' = ReplaceAt(stack, Len(stack), f)
    BY <1>3, <1>4 DEF ThenDone
  <2>2. QED
    BY <1>1, <1>5, <2>1, TopSteps
<1>7. PlainBefore(fn, Top) => ~Restarts(fn, Top.body)
  BY <1>1, <1>2, PlainDone
<1>8. \A c \in BodiesOf(fn, <<Caller.body, Caller.i>>) : c \in {w.body, w.orelse}
  BY <1>3 DEF BodiesOf, BodyOf
<1>9. ASSUME PlainBefore(fn, Top), PlainBelow(fn, Caller, Top) PROVE PlainBelow(fn, Caller, f)
  <2>1. Top.body = w.body
    BY <1>1, <1>3, <1>9 DEF PlainBelow
  <2>2. ~Restarts(fn, w.body)
    BY <1>7, <1>9, <2>1
  <2>3. QED
    BY <1>2, <1>5, <1>8, <2>2 DEF PlainBelow
<1>10. /\ f.at # "defers" /\ PlainBefore(fn, f)
       /\ \A j \in 1 .. Len(stack) : stack[j].at = "defers" => j < Len(stack)
  BY <1>1, <1>5, PlainBegins
<1>11. ASSUME NEW j \in 1 .. Len(stack), Innermost(stack, j), stack[j].i \in 1 .. Len(defer_blocks),
              Restarts(fn, defer_blocks[stack[j].i]),
              j = Len(stack) \/ NotYet(fn, defer_blocks, stack, j)
       PROVE  /\ PlainBefore(fn, f)
              /\ Len(stack) = j + 1 => f.at = "deferred" /\ f.body = defer_blocks[stack[j].i]
              /\ Len(stack) > j + 1 => PlainBelow(fn, stack[Len(stack) - 1], f)
  <2>1. j < Len(stack) /\ NotYet(fn, defer_blocks, stack, j)
    BY <1>1, <1>10, <1>11 DEF Innermost
  <2>2. /\ PlainBefore(fn, Top)
        /\ Len(stack) = j + 1 => Top.at = "deferred"
        /\ Len(stack) > j + 1 => PlainBelow(fn, Caller, Top)
    BY <1>1, <1>11, <2>1, AboveDefers
  <2>3. QED
    BY <1>1, <1>9, <1>10, <2>2
<1>12. QED
  BY <1>1, <1>6, <1>10, <1>11, NeverSteps

\* An if or a loop ends that has not restarted anything.
LEMMA NeverLeaves ==
  ASSUME Inv, Running, NeverEnds(fn, defer_blocks, stack), Top.at \in {"then", "else", "loop"},
         Top.i > Len(Body), Top.at = "then" => Top.orelse = 0, NEW v \in Nat
  PROVE  NeverEnds(fn, defer_blocks, ReplaceAt(Front(stack), Len(stack) - 1, After(Caller, v)))
<1>1. /\ Len(stack) \in Nat \ {0} /\ Len(stack) > 1 /\ Top = stack[Len(stack)] /\ Top \in Frame
      /\ stack \in Seq(Frame) /\ stack # <<>> /\ IsFunction(fn)
      /\ Caller = stack[Len(stack) - 1] /\ Caller \in Frame
      /\ FrameOK(fn, blocks, Top) /\ FrameOK(fn, blocks, Caller) /\ Linked(fn, Caller, Top)
  BY TopOK, Types DEF Inv, TypeOK, Caller
<1>2. /\ Caller.at # "defers" /\ Caller.body \in 1 .. Len(fn)
      /\ Caller.i \in 1 .. Len(fn[Caller.body])
  BY CallerOK
<1>3. Top.body \in 1 .. Len(fn) /\ Top.i > Len(fn[Top.body])
  BY <1>1 DEF FrameOK, Body
<1>4. PICK f : f = After(Caller, v)
  OBVIOUS
<1>5. /\ f \in Frame /\ f.at = Caller.at /\ f.body = Caller.body /\ f.i = Caller.i + 1
      /\ f.orelse = Caller.orelse
  BY <1>1, <1>4, AfterIs
<1>6. PICK t : t = ReplaceAt(Front(stack), Len(stack) - 1, After(Caller, v))
  OBVIOUS
<1>7. PICK n \in 1 .. Len(stack) : n = Len(stack) - 1
  BY <1>1
<1>8. Steps(stack, t, n, f)
  BY <1>1, <1>4, <1>5, <1>6, <1>7, PopSteps
<1>9. \A j \in 1 .. Len(stack) : stack[j].at = "defers" => j < n
  BY <1>1, <1>2, <1>7
<1>10. ASSUME PlainBefore(fn, Top), PlainBelow(fn, Caller, Top), PlainBefore(fn, Caller)
       PROVE  PlainBefore(fn, f)
  <2>1. ~Restarts(fn, Top.body)
    BY <1>1, <1>3, <1>10, PlainDone
  <2>2. /\ \A c \in BodiesOf(fn, <<Caller.body, Caller.i>>) : c = Top.body \/ ~Restarts(fn, c)
        /\ fn[Caller.body][Caller.i].op \notin {"return", "defer"}
    BY <1>1, <1>10 DEF PlainBelow
  <2>3. \A c \in BodiesOf(fn, <<Caller.body, Caller.i>>) : ~Restarts(fn, c)
    BY <2>1, <2>2
  <2>4. QED
    BY <1>1, <1>5, <1>10, <2>2, <2>3, PlainPasses
<1>11. PICK k : k = Len(stack) - 2
  OBVIOUS
<1>12. k = n - 1 /\ (PlainBelow(fn, stack[k], Caller) => PlainBelow(fn, stack[k], f))
  <2>1. k = n - 1
    BY <1>1, <1>7, <1>11
  <2>2. PICK lo : lo = stack[k]
    OBVIOUS
  <2>3. PlainBelow(fn, lo, Caller) => PlainBelow(fn, lo, f)
    BY <1>5 DEF PlainBelow
  <2>4. QED
    BY <2>1, <2>2, <2>3
<1>13. ASSUME NEW j \in 1 .. Len(stack), Innermost(stack, j), stack[j].i \in 1 .. Len(defer_blocks),
              Restarts(fn, defer_blocks[stack[j].i]),
              j = Len(stack) \/ NotYet(fn, defer_blocks, stack, j)
       PROVE  /\ PlainBefore(fn, f)
              /\ n = j + 1 => f.at = "deferred" /\ f.body = defer_blocks[stack[j].i]
              /\ n > j + 1 => PlainBelow(fn, stack[n - 1], f)
  <2>1. j < n /\ j < Len(stack) /\ NotYet(fn, defer_blocks, stack, j)
    BY <1>1, <1>7, <1>9, <1>13 DEF Innermost
  <2>2. /\ PlainBefore(fn, Top)
        /\ Len(stack) > j + 1 => PlainBelow(fn, Caller, Top) /\ PlainBefore(fn, Caller)
        /\ Len(stack) = j + 2 =>
             Caller.at = "deferred" /\ Caller.body = defer_blocks[stack[j].i]
        /\ Len(stack) > j + 2 => PlainBelow(fn, stack[k], Caller)
    BY <1>11, <1>13, <2>1, AboveDefers
  <2>3. /\ Len(stack) > j + 1 /\ (n = j + 1 => Len(stack) = j + 2)
        /\ (n > j + 1 => Len(stack) > j + 2)
    BY <1>1, <1>7, <2>1
  <2>4. QED
    BY <1>5, <1>10, <1>12, <2>2, <2>3
<1>14. f.at # "defers"
  BY <1>2, <1>5
<1>15. NeverEnds(fn, defer_blocks, t)
  BY <1>1, <1>8, <1>9, <1>13, <1>14, NeverSteps
<1>16. QED
  BY <1>6, <1>15

\* gen_codegen_defer_blocks() is called, while something restarts it.
LEMMA NeverAgain ==
  ASSUME NEW p, NEW d, NEW s \in Seq(Frame), NEW t, NEW n, NEW f, Steps(s, t, n, f),
         f.at = "defers", NEW k \in 1 .. Len(d), f.i <= k, f.i \in Nat, Restarts(p, d[k])
  PROVE  NeverEnds(p, d, t)
<1>1. n \in 1 .. Len(t) /\ t[n] = f /\ n = Len(t)
  BY DEF Steps
<1>2. Innermost(t, n)
  BY <1>1 DEF Innermost
<1>3. k > t[n].i \/ k = t[n].i
  BY <1>1
<1>4. QED
  BY <1>1, <1>2, <1>3 DEF NeverEnds

\* So it is while that goes on.
LEMMA NeverCalls ==
  ASSUME Inv, Running, NeverEnds(fn, defer_blocks, stack)
  PROVE  NeverEnds(fn, defer_blocks, Append(stack, Call("defers", 0, 0, 0)))
<1>1. PICK f : f = Call("defers", 0, 0, 0)
  OBVIOUS
<1>2. f \in Frame /\ f.at = "defers" /\ f.i = 1
  BY <1>1 DEF Call, Frame
<1>3. stack \in Seq(Frame)
  BY Types
<1>4. Steps(stack, Append(stack, f), Len(stack) + 1, f)
  BY <1>2, <1>3, PushSteps
<1>5. PICK k \in 1 .. Len(defer_blocks) : Restarts(fn, defer_blocks[k])
  BY DEF NeverEnds
<1>6. f.i <= k /\ f.i \in Nat
  BY <1>2
<1>7. QED
  BY <1>1, <1>2, <1>3, <1>4, <1>5, <1>6, NeverAgain

\* A deferred body is begun.
LEMMA NeverBegins ==
  ASSUME Inv, NeverEnds(fn, defer_blocks, stack), InDefers, Top.i <= Len(defer_blocks)
  PROVE  NeverEnds(fn, defer_blocks,
                   Append(stack, Call("deferred", defer_blocks[Top.i], 0, 0)))
<1>1. /\ Running /\ Len(stack) \in Nat \ {0} /\ Top = stack[Len(stack)] /\ Top \in Frame
      /\ stack \in Seq(Frame) /\ Top.at = "defers" /\ FrameOK(fn, blocks, Top)
      /\ defer_blocks \in Seq(1 .. Len(fn)) /\ Len(fn) \in Nat
  BY TopOK, Types DEF InDefers, Inv, TypeOK
<1>2. Top.i \in 1 .. Len(defer_blocks)
  BY <1>1 DEF FrameOK, Frame
<1>3. defer_blocks[Top.i] \in Nat
  BY <1>1, <1>2
<1>4. PICK f : f = Call("deferred", defer_blocks[Top.i], 0, 0)
  OBVIOUS
<1>5. f \in Frame /\ f.at = "deferred" /\ f.i = 1 /\ f.body = defer_blocks[Top.i]
  BY <1>3, <1>4 DEF Call, Frame
<1>6. PICK t : t = Append(stack, f)
  OBVIOUS
<1>7. PICK n : n = Len(stack) + 1
  OBVIOUS
<1>8. Steps(stack, t, n, f)
  BY <1>1, <1>5, <1>6, <1>7, PushSteps
<1>9. \A j \in 1 .. Len(stack) : Innermost(stack, j) => j = Len(stack)
  <2>1. ASSUME NEW j \in 1 .. Len(stack), Innermost(stack, j), j # Len(stack) PROVE FALSE
    <3>1. Len(stack) \in 1 .. Len(stack) /\ Len(stack) > j
      BY <1>1, <2>1
    <3>2. QED
      BY <1>1, <2>1, <3>1 DEF Innermost
  <2>2. QED
    BY <2>1
<1>10. /\ f.at # "defers" /\ PlainBefore(fn, f)
       /\ \A j \in 1 .. Len(stack) : stack[j].at = "defers" => j < n
  BY <1>1, <1>5, <1>7, PlainBegins
<1>11. ASSUME NEW j \in 1 .. Len(stack), Innermost(stack, j)
       PROVE  /\ n = j + 1 => f.at = "deferred" /\ f.body = defer_blocks[stack[j].i]
              /\ ~(n > j + 1)
  BY <1>1, <1>5, <1>7, <1>9, <1>11
<1>12. NeverEnds(fn, defer_blocks, t)
  BY <1>1, <1>8, <1>10, <1>11, NeverSteps
<1>13. QED
  BY <1>4, <1>6, <1>12

\* There is always one more to begin.
LEMMA NeverDone ==
  ASSUME Inv, NeverEnds(fn, defer_blocks, stack)
  PROVE  ~DefersDone
<1>1. SUFFICES ASSUME DefersDone PROVE FALSE
  OBVIOUS
<1>2. /\ Running /\ Len(stack) \in Nat \ {0} /\ Top = stack[Len(stack)] /\ Top \in Frame
      /\ Top.at = "defers" /\ Top.i > Len(defer_blocks)
  BY <1>1, TopOK DEF DefersDone, InDefers
<1>3. PICK j \in 1 .. Len(stack), k \in 1 .. Len(defer_blocks) :
        Innermost(stack, j) /\ (k > stack[j].i \/ k = stack[j].i)
  BY DEF NeverEnds
<1>4. j = Len(stack)
  BY <1>2, <1>3 DEF Innermost
<1>5. QED
  BY <1>2, <1>3, <1>4 DEF Frame

\* A deferred body is done that has not restarted anything.
LEMMA NeverResumes ==
  ASSUME Inv, NeverEnds(fn, defer_blocks, stack), DeferredDone
  PROVE  NeverEnds(fn, defer_blocks, stack')
<1>1. /\ Running /\ Len(stack) \in Nat \ {0} /\ Len(stack) > 1 /\ Top = stack[Len(stack)]
      /\ Top \in Frame /\ Top.at = "deferred" /\ Top.i > Len(fn[Top.body])
      /\ stack \in Seq(Frame) /\ stack # <<>> /\ IsFunction(fn)
      /\ Caller = stack[Len(stack) - 1] /\ Caller \in Frame /\ Caller.at = "defers"
      /\ FrameOK(fn, blocks, Top)
  BY TopOK, Types DEF DeferredDone, BodyDone, Body, Inv, TypeOK, Caller, Linked
<1>2. Top.body \in 1 .. Len(fn)
  BY <1>1 DEF FrameOK
<1>3. PICK f : f = After(Caller, 0)
  OBVIOUS
<1>4. f \in Frame /\ f.at = "defers" /\ f.i = Caller.i + 1 /\ Caller.i \in Nat
  <2>1. 0 \in Nat
    OBVIOUS
  <2>2. f \in Frame /\ f.at = "defers" /\ f.i = Caller.i + 1
    BY <1>1, <1>3, <2>1, AfterIs
  <2>3. Caller.i \in Nat
    BY <1>1 DEF Frame
  <2>4. QED
    BY <2>2, <2>3
<1>5. Steps(stack, stack', Len(stack) - 1, f)
  <2>1. stack' = ReplaceAt(Front(stack), Len(stack) - 1, f)
    BY <1>3 DEF DeferredDone, Return
  <2>2. QED
    BY <1>1, <1>4, <2>1, PopSteps
<1>6. PICK j \in 1 .. Len(stack), k \in 1 .. Len(defer_blocks) :
        /\ Innermost(stack, j) /\ Restarts(fn, defer_blocks[k])
        /\ \/ k > stack[j].i
           \/ k = stack[j].i /\ (j = Len(stack) \/ NotYet(fn, defer_blocks, stack, j))
  BY DEF NeverEnds
<1>7. j = Len(stack) - 1
  <2>1. j # Len(stack)
    BY <1>1, <1>6 DEF Innermost
  <2>2. ~(Len(stack) - 1 > j)
    <3>1. Len(stack) - 1 \in 1 .. Len(stack)
      BY <1>1
    <3>2. QED
      BY <1>1, <1>6, <3>1 DEF Innermost
  <2>3. QED
    BY <1>1, <2>1, <2>2
<1>8. k > Caller.i
  <2>1. SUFFICES ASSUME k = Caller.i PROVE FALSE
    BY <1>1, <1>4, <1>6, <1>7
  <2>2. j < Len(stack) /\ Len(stack) = j + 1 /\ stack[j] = Caller
    BY <1>1, <1>7
  <2>3. NotYet(fn, defer_blocks, stack, j)
    BY <1>4, <1>6, <2>1, <2>2
  <2>4. PlainBefore(fn, Top) /\ Top.body = defer_blocks[Caller.i]
    BY <1>1, <1>6, <2>2, <2>3, AboveDefers
  <2>5. ~Restarts(fn, Top.body)
    BY <1>1, <1>2, <2>4, PlainDone
  <2>6. QED
    BY <1>6, <2>1, <2>4, <2>5
<1>9. f.i <= k /\ f.i \in Nat
  BY <1>4, <1>8
<1>10. QED
  BY <1>1, <1>4, <1>5, <1>6, <1>9, NeverAgain

\* A statement of what is deferred that returns or defers restarts it.
LEMMA RestartsNow ==
  ASSUME Inv, ShapeInv, InBody, This.op \in {"return", "defer"}, Top.body \in InDeferred(fn)
  PROVE  Restarting(fn, defer_blocks, stack)
<1>1. /\ Running /\ Top.at # "defers" /\ Len(stack) \in Nat \ {0} /\ Top = stack[Len(stack)]
      /\ stack \in Seq(Frame) /\ IsFunction(fn) /\ StackOK(fn, blocks, stack)
      /\ Shape(fn, defer_blocks, stack)
  BY TopOK, Types, TopShape DEF InBody, Inv, TypeOK
<1>2. /\ Top.body \in 1 .. Len(fn) /\ Top.i \in 1 .. Len(fn[Top.body])
      /\ This = fn[Top.body][Top.i]
  BY ThisOK DEF This, Body
<1>3. Restarts(fn, Top.body)
  BY <1>1, <1>2, RestartsHere
<1>4. PICK N : N = Len(stack)
  OBVIOUS
<1>5. SUFFICES ASSUME ~Restarting(fn, defer_blocks, stack) PROVE FALSE
  OBVIOUS
<1> DEFINE Good(m) == /\ stack[m].body \in InDeferred(fn) /\ Restarts(fn, stack[m].body)
                      /\ \A k \in 1 .. N : k >= m => stack[k].at # "defers"
           S == {n \in Nat : n < N => Good(N - n)}
<1>6. 0 \in S
  <2>1. \A k \in 1 .. N : k >= N => k = N
    BY <1>1, <1>4
  <2>2. Good(N)
    BY <1>1, <1>3, <1>4, <2>1
  <2>3. N - 0 = N
    BY <1>1, <1>4
  <2>4. QED
    BY <2>2, <2>3
<1>7. ASSUME NEW n \in Nat, n \in S PROVE n + 1 \in S
  <2>1. SUFFICES ASSUME n + 1 < N PROVE Good(N - (n + 1))
    OBVIOUS
  <2>2. PICK m \in 1 .. N : m = N - n
    BY <1>1, <1>4, <2>1
  <2>3. m > 1 /\ N - (n + 1) = m - 1 /\ n < N
    BY <1>1, <1>4, <2>1, <2>2
  <2>4. Good(m)
    BY <1>7, <2>2, <2>3
  <2>5. PICK lo, hi : lo = stack[m - 1] /\ hi = stack[m]
    OBVIOUS
  <2>6. m - 1 \in 1 .. N
    BY <1>1, <1>4, <2>3
  <2>7. /\ hi.body \in InDeferred(fn) /\ Restarts(fn, hi.body) /\ hi.at # "defers"
        /\ \A k \in 1 .. N : k >= m => stack[k].at # "defers"
    <3>1. \A k \in 1 .. N : k >= m => stack[k].at # "defers"
      BY <2>4
    <3>2. m >= m
      BY <1>1, <1>4
    <3>3. QED
      BY <2>4, <2>5, <3>1, <3>2
  <2>8. /\ Linked(fn, lo, hi) /\ WaitsFor(fn, defer_blocks, lo, hi) /\ PlaceOK(fn, lo)
        /\ FrameOK(fn, blocks, lo) /\ lo \in Frame /\ hi \in Frame
    BY <1>1, <1>4, <2>3, <2>5, <2>6 DEF StackOK, Shape
  <2>9. CASE hi.at = "deferred"
    <3>1. /\ lo.at = "defers" /\ lo.i \in 1 .. Len(defer_blocks) /\ hi.body = defer_blocks[lo.i]
      BY <2>8, <2>9 DEF Linked, WaitsFor
    <3>2. \A k \in 1 .. N : k > m - 1 => k >= m
      BY <1>1, <1>4
    <3>3. Innermost(stack, m - 1)
      BY <1>4, <2>5, <2>7, <3>1, <3>2 DEF Innermost
    <3>4. QED
      BY <1>4, <1>5, <2>5, <2>6, <2>7, <3>1, <3>3 DEF Restarting
  <2>10. CASE hi.at \in {"then", "else", "loop"}
    <3>1. /\ lo.at # "defers" /\ lo.i <= Len(fn[lo.body])
          /\ hi.body \in BodiesOf(fn, <<lo.body, lo.i>>)
          /\ fn[lo.body][lo.i].op \in {"if", "ifelse", "while"}
      BY <2>8, <2>10 DEF Linked, WaitsFor
    <3>2. lo.body \in 1 .. Len(fn) /\ lo.i \in 1 .. Len(fn[lo.body])
          /\ lo.body \in LiveBodies(fn, 1) \union InDeferred(fn)
      <4>1. lo.body \in 1 .. Len(fn) /\ lo.i >= 1 /\ lo.i \in Nat
        BY <2>8, <3>1 DEF FrameOK, Frame
      <4>2. Len(fn[lo.body]) \in Nat
        BY <1>1, <4>1, StatementsOf
      <4>3. QED
        BY <2>8, <3>1, <4>1, <4>2 DEF PlaceOK
    <3>3. Restarts(fn, lo.body)
      BY <1>1, <2>7, <3>1, <3>2, RestartsHere
    <3>4. lo.body \in InDeferred(fn)
      <4>1. ASSUME lo.body \in LiveBodies(fn, 1) PROVE FALSE
        <5>1. \A r \in Returns(fn, lo.body) : r >= lo.i
          <6>1. Len(fn[lo.body]) \in Nat
            BY <1>1, <3>2, StatementsOf
          <6>2. lo.i # Len(fn[lo.body]) + 1
            BY <3>2, <6>1
          <6>3. QED
            BY <2>8, <3>1, <6>2 DEF PlaceOK
        <5>2. BodiesOf(fn, <<lo.body, lo.i>>) \subseteq LiveBodies(fn, 1)
          BY <1>1, <3>1, <3>2, <4>1, <5>1, LiveHere
        <5>3. QED
          BY <1>1, <2>7, <3>1, <5>2, LiveOrDeferred
      <4>2. QED
        BY <3>2, <4>1
    <3>5. \A k \in 1 .. N : k >= m - 1 => k = m - 1 \/ k >= m
      BY <1>1, <1>4
    <3>6. Good(m - 1)
      BY <2>5, <2>7, <3>1, <3>3, <3>4, <3>5
    <3>7. QED
      BY <2>3, <3>6
  <2>11. QED
    BY <2>7, <2>8, <2>9, <2>10 DEF Frame, Linked
<1>8. Nat \subseteq S
  <2> HIDE DEF S
  <2>1. QED
    BY <1>6, <1>7, SetInduction
<1>9. N - 1 \in Nat /\ N - 1 < N /\ N - (N - 1) = 1
  BY <1>1, <1>4
<1>10. Good(1)
  BY <1>8, <1>9
<1>11. stack[1].at = "function" /\ PlaceOK(fn, stack[1])
  BY <1>1 DEF StackOK, Shape
<1>12. stack[1].body = 1
  BY <1>11 DEF PlaceOK
<1>13. 1 \in LiveBodies(fn, 1)
  BY <1>1, FirstBody, LiveStep
<1>14. QED
  BY <1>1, <1>10, <1>12, <1>13, LiveOrDeferred

\* A return or a defer that restarts what is deferred: from now on it never ends.
LEMMA NeverFrom ==
  ASSUME Inv, Restarting(fn, defer_blocks, stack), ReturnStmt \/ DeferStmt, Running'
  PROVE  NeverEnds(fn, defer_blocks', stack')
<1>1. /\ InBody /\ Running /\ Top.at # "defers" /\ Len(stack) \in Nat \ {0}
      /\ Top = stack[Len(stack)] /\ Top \in Frame /\ stack \in Seq(Frame) /\ stack # <<>>
      /\ defer_blocks \in Seq(1 .. Len(fn))
  BY TopOK, Types DEF ReturnStmt, DeferStmt, At, InBody, Inv, TypeOK
<1>2. PICK j \in 1 .. Len(stack), k \in 1 .. Len(defer_blocks) :
        /\ Innermost(stack, j) /\ Restarts(fn, defer_blocks[k])
        /\ k > stack[j].i \/ k = stack[j].i
  BY DEF Restarting
<1>3. CASE ReturnStmt
  <2>1. PICK f : f = Call("defers", 0, 0, 0)
    OBVIOUS
  <2>2. f \in Frame /\ f.at = "defers" /\ f.i = 1
    BY <2>1 DEF Call, Frame
  <2>3. stack' = Append(stack, f) /\ defer_blocks' = defer_blocks
    BY <1>1, <1>3, <2>1 DEF ReturnStmt, Push, Running
  <2>4. Steps(stack, stack', Len(stack) + 1, f)
    BY <1>1, <2>2, <2>3, PushSteps
  <2>5. f.i <= k /\ f.i \in Nat
    BY <2>2
  <2>6. QED
    BY <1>1, <1>2, <2>2, <2>3, <2>4, <2>5, NeverAgain
<1>4. CASE DeferStmt
  <2>1. PICK f : f = After(Top, 0)
    OBVIOUS
  <2>2. f \in Frame /\ f.at = Top.at
    BY <1>1, <2>1, AfterIs, 0 \in Nat
  <2>3. /\ stack' = ReplaceAt(stack, Len(stack), f)
        /\ defer_blocks' = <<This.body>> \o defer_blocks
    BY <1>4, <2>1 DEF DeferStmt, Advance, Running
  <2>4. Steps(stack, stack', Len(stack), f)
    BY <1>1, <2>2, <2>3, TopSteps
  <2>5. k + 1 \in 1 .. Len(defer_blocks') /\ defer_blocks'[k + 1] = defer_blocks[k]
    BY <1>1, <2>3
  <2>6. /\ j # Len(stack) /\ Len(stack') = Len(stack) /\ stack'[j] = stack[j]
        /\ \A m \in 1 .. Len(stack') : m > j => stack'[m].at # "defers"
    <3>1. j # Len(stack)
      BY <1>1, <1>2 DEF Innermost
    <3>2. /\ Len(stack') = Len(stack) /\ stack'[Len(stack)] = f
          /\ \A m \in 1 .. Len(stack) : m # Len(stack) => stack'[m] = stack[m]
      BY <2>4 DEF Steps
    <3>3. \A m \in 1 .. Len(stack') : m > j => stack'[m].at # "defers"
      BY <1>1, <1>2, <2>2, <3>2 DEF Innermost
    <3>4. QED
      BY <3>1, <3>2, <3>3
  <2>7. j \in 1 .. Len(stack') /\ Innermost(stack', j)
    BY <1>2, <2>6 DEF Innermost
  <2>8. k + 1 > stack'[j].i
    <3>1. stack[j] \in Frame
      BY <1>1
    <3>2. stack[j].i \in Nat
      BY <3>1 DEF Frame
    <3>3. QED
      BY <1>2, <2>6, <3>2
  <2>9. PICK l \in 1 .. Len(defer_blocks') : l = k + 1
    BY <2>5
  <2>10. Restarts(fn, defer_blocks'[l]) /\ l > stack'[j].i
    BY <1>2, <2>5, <2>8, <2>9
  <2>11. QED
    BY <2>7, <2>10 DEF NeverEnds
<1>5. QED
  BY <1>3, <1>4

\* Once it never ends, it goes on like that.
LEMMA NeverNext ==
  ASSUME Inv, Running, NeverEnds(fn, defer_blocks, stack), Generate, Running'
  PROVE  NeverEnds(fn, defer_blocks', stack') /\ ~FunctionEnd
<1>1. ~DefersDone
  BY NeverDone
<1>2. ~FunctionEnd /\ ~ReturnBuilt
  BY <1>1 DEF FunctionEnd, ReturnBuilt
<1>3. Restarting(fn, defer_blocks, stack)
  BY DEF NeverEnds, Restarting
<1>4. Top \in Frame /\ 0 \in Nat /\ Len(code) \in Nat /\ blocks \in Nat /\ Top.value \in Nat
  BY TopOK, Types DEF Frame
<1>5. CASE CallStmt
  <2>1. InBody /\ This.op \notin Nests /\ This.op # "return"
    BY <1>5 DEF CallStmt, Nests, Valued
  <2>2. PICK v \in Nat : v = IF This.op \in Valued THEN Len(code) + 1 ELSE 0
    BY <1>4
  <2>3. stack' = ReplaceAt(stack, Len(stack), After(Top, v)) /\ defer_blocks' = defer_blocks
    BY <1>5, <2>2 DEF CallStmt, Advance
  <2>4. QED
    BY <1>2, <2>1, <2>3, NeverAdvances
<1>6. CASE BreakStmt
  <2>1. InBody /\ This.op \notin Nests /\ This.op # "return"
    BY <1>6 DEF BreakStmt, At, Nests
  <2>2. stack' = ReplaceAt(stack, Len(stack), After(Top, 0)) /\ defer_blocks' = defer_blocks
    BY <1>6 DEF BreakStmt, Advance
  <2>3. QED
    BY <1>2, <1>4, <2>1, <2>2, NeverAdvances
<1>7. CASE DeferStmt
  BY <1>2, <1>3, <1>7, NeverFrom
<1>8. CASE ReturnStmt
  BY <1>2, <1>3, <1>8, NeverFrom
<1>9. CASE IfExpr
  <2>1. InBody /\ This.op \in {"if", "ifelse"} /\ This \in Stmt
    BY <1>9, ThisOK DEF IfExpr
  <2>2. PICK orelse \in Nat : orelse = IF This.op = "if" THEN 0 ELSE blocks + 3
    BY <1>4
  <2>3. PICK merge \in Nat : merge = IF This.op = "if" THEN blocks + 3 ELSE blocks + 4
    BY <1>4
  <2>4. PICK f : f = Call("then", This.body, merge, orelse)
    OBVIOUS
  <2>5. f \in Frame /\ f.at = "then" /\ f.i = 1 /\ f.body = This.body /\ f.orelse = orelse
    <3>1. This.body \in Nat
      BY <2>1 DEF Stmt
    <3>2. QED
      BY <2>4, <3>1 DEF Call, Frame
  <2>6. stack' = Append(stack, f) /\ defer_blocks' = defer_blocks
    BY <1>9, <2>2, <2>3, <2>4 DEF IfExpr, Push, Running
  <2>7. f.at \in {"then", "loop"} /\ This.op \in {"if", "ifelse", "while"}
         /\ (This.op = "ifelse" <=> f.at = "then" /\ f.orelse # 0)
    BY <1>4, <2>1, <2>2, <2>5
  <2>8. QED
    BY <1>2, <2>1, <2>5, <2>6, <2>7, NeverEnters
<1>10. CASE WhileExpr
  <2>1. InBody /\ This.op = "while" /\ This \in Stmt
    BY <1>10, ThisOK DEF WhileExpr, At
  <2>2. PICK f : f = Call("loop", This.body, blocks + 3, blocks + 2)
    OBVIOUS
  <2>3. f \in Frame /\ f.at = "loop" /\ f.i = 1 /\ f.body = This.body
    <3>1. This.body \in Nat /\ blocks + 3 \in Nat /\ blocks + 2 \in Nat
      BY <1>4, <2>1 DEF Stmt
    <3>2. QED
      BY <2>2, <3>1 DEF Call, Frame
  <2>4. stack' = Append(stack, f) /\ defer_blocks' = defer_blocks
    BY <1>10, <2>2 DEF WhileExpr, Push, Running
  <2>5. f.at \in {"then", "loop"} /\ This.op \in {"if", "ifelse", "while"}
         /\ (This.op = "ifelse" <=> f.at = "then" /\ f.orelse # 0)
    BY <2>1, <2>3
  <2>6. QED
    BY <1>2, <2>1, <2>3, <2>4, <2>5, NeverEnters
<1>11. CASE ThenDone
  BY <1>2, <1>11, NeverElse DEF ThenDone
<1>12. CASE IfDone \/ IfElseDone
  <2>1. /\ Top.at \in {"then", "else", "loop"} /\ Top.i > Len(Body)
        /\ Top.at = "then" => Top.orelse = 0
    BY <1>12 DEF IfDone, IfElseDone, BodyDone
  <2>2. PICK v : LeaveWith(v) /\ v \in Nat
    <3>1. \E v \in {0, Len(code')} : LeaveWith(v)
      BY <1>12, Zenon DEF IfDone, IfElseDone, Merge, Running
    <3>2. Len(code') \in Nat
      <4>1. Inv'
        BY InvNext DEF Next
      <4>2. QED
        BY <4>1 DEF Inv, TypeOK
    <3>3. QED
      BY <1>4, <3>1, <3>2
  <2>3. PICK w \in Nat : stack' = ReplaceAt(Front(stack), Len(stack) - 1, After(Caller, w))
    BY <1>4, <2>2 DEF LeaveWith, Return
  <2>4. defer_blocks' = defer_blocks
    BY <1>12 DEF IfDone, IfElseDone, Merge
  <2>5. QED
    BY <1>2, <2>1, <2>3, <2>4, NeverLeaves
<1>13. CASE WhileDone
  <2>1. /\ Top.at \in {"then", "else", "loop"} /\ Top.i > Len(Body)
        /\ Top.at = "then" => Top.orelse = 0
    BY <1>13 DEF WhileDone, BodyDone
  <2>2. PICK w \in Nat : stack' = ReplaceAt(Front(stack), Len(stack) - 1, After(Caller, w))
    BY <1>4, <1>13 DEF WhileDone, LeaveWith, Return
  <2>3. defer_blocks' = defer_blocks
    BY <1>13 DEF WhileDone
  <2>4. QED
    BY <1>2, <2>1, <2>2, <2>3, NeverLeaves
<1>14. CASE DeferredBody
  <2>1. /\ InDefers /\ Top.i <= Len(defer_blocks) /\ defer_blocks' = defer_blocks
        /\ stack' = Append(stack, Call("deferred", defer_blocks[Top.i], 0, 0))
    BY <1>14 DEF DeferredBody, Push, Running
  <2>2. QED
    BY <1>2, <2>1, NeverBegins
<1>15. CASE DeferredDone
  BY <1>2, <1>15, NeverResumes DEF DeferredDone
<1>16. CASE BodyEnd
  <2>1. defer_blocks' = defer_blocks /\ stack' = Append(stack, Call("defers", 0, 0, 0))
    BY <1>16 DEF BodyEnd, Push, Running
  <2>2. QED
    BY <1>2, <2>1, NeverCalls
<1>17. QED
  BY <1>2, <1>5, <1>6, <1>7, <1>8, <1>9, <1>10, <1>11, <1>12, <1>13, <1>14, <1>15, <1>16
     DEF Generate

-----------------------------------------------------------------------------
(* The verdict *)

\* It holds at first.
LEMMA VerdictInit ==
  ASSUME Init
  PROVE  VerdictInv
<1>1. /\ fn \in Functions /\ code = <<>> /\ blocks = 1 /\ insert = 1
      /\ defer_blocks = <<>> /\ outcome = "running"
      /\ stack = <<Call("function", 1, 0, 0)>>
  BY DEF Init
<1>2. Inv
  BY InvInit
<1>3. PICK f : f = Call("function", 1, 0, 0)
  OBVIOUS
<1>4. /\ f \in Frame /\ f.at = "function" /\ f.body = 1 /\ f.i = 1 /\ f.value = 0
      /\ f.returns = FALSE
  BY <1>3 DEF Call, Frame
<1>5. /\ Len(stack) = 1 /\ stack[1] = f /\ Top = f /\ \A j \in 1 .. Len(stack) : j = 1
  <2>1. stack = <<f>>
    BY <1>1, <1>3
  <2>2. Len(stack) = 1 /\ stack[1] = f
    BY <2>1
  <2>3. \A j \in 1 .. Len(stack) : j = 1
    BY <2>2
  <2>4. Top = stack[1]
    BY <2>2 DEF Top, Last
  <2>5. QED
    BY <2>2, <2>3, <2>4
<1>6. IsFunction(fn) /\ 1 \in 1 .. Len(fn) /\ 1 \in LiveBodies(fn, 1)
  BY <1>2, FirstBody, LiveStep DEF Inv, TypeOK
<1>7. fn[1] \in Seq(Stmt) /\ Len(fn[1]) \in Nat
  BY <1>6, StatementsOf
<1>8. PlaceOK(fn, f)
  <2>1. \A r \in Returns(fn, 1) : r >= 1
    BY <1>7 DEF Returns
  <2>2. Returns(fn, 1) # {} => 1 # Len(fn[1]) + 1
    BY <1>7 DEF Returns
  <2>3. QED
    BY <1>4, <1>6, <2>1, <2>2 DEF PlaceOK
<1>9. ShapeInv
  <2>1. Len(defer_blocks) = 0
    BY <1>1
  <2>2. DefersOK(fn, defer_blocks)
    BY <2>1 DEF DefersOK
  <2>3. ~(1 > 1) /\ ~(1 < 1)
    OBVIOUS
  <2>4. Shape(fn, defer_blocks, stack)
    BY <1>5, <1>8, <2>3 DEF Shape
  <2>5. QED
    BY <2>2, <2>4 DEF ShapeInv
<1>10. Len(code) = 0 /\ 1 .. 0 = {}
  BY <1>1
<1>11. MarkInv
  <2>1. /\ PassedOK(fn, code, defer_blocks, f) /\ LoopClosed(fn, code, insert, f)
    BY <1>4, <1>6, <1>7 DEF PassedOK, LoopClosed
  <2>2. Repeats(fn, code, insert, defer_blocks, stack)
    BY <1>4, <1>5 DEF Repeats
  <2>3. ~(1 > 1)
    OBVIOUS
  <2>4. Passed(fn, code, defer_blocks, stack)
    BY <1>5, <2>1, <2>3 DEF Passed
  <2>5. QED
    BY <1>5, <2>1, <2>2, <2>4 DEF MarkInv
<1>12. TargetInv
  BY <1>4, <1>5, <1>10 DEF TargetInv, Targets, FrameRest
<1>13. BlockInv
  <2>1. ~Doubled(code) /\ ~Closed(code, insert)
    BY <1>10 DEF Doubled, Closed
  <2>2. Awaited(f) = {}
    BY <1>4 DEF Awaited
  <2>3. AwaitsOK(code, blocks, insert, f)
    BY <1>4, <2>2 DEF AwaitsOK
  <2>4. \A a \in 1 .. blocks : a = insert
    BY <1>1
  <2>5. Blocks(code, blocks, insert, stack)
    BY <1>5, <2>1, <2>2, <2>3, <2>4 DEF Blocks
  <2>6. Ended(code, insert, stack)
    BY <1>4, <1>5, <2>1 DEF Ended, Top
  <2>7. QED
    BY <2>5, <2>6 DEF BlockInv
<1>14. ValueInv
  <2>1. ValueOK(fn, code, f) /\ ~(1 > 1)
    BY <1>4 DEF ValueOK
  <2>2. Values(fn, code, stack)
    BY <1>5, <2>1 DEF Values
  <2>3. FreshValue(code, insert, Top) /\ ThenBlocks(code, stack)
    BY <1>4, <1>5 DEF FreshValue, ThenBlocks
  <2>4. Phis(code)
    BY <1>10 DEF Phis
  <2>5. Enclosed(code, blocks, insert, stack)
    BY <1>4, <1>5 DEF Enclosed
  <2>6. QED
    BY <2>2, <2>3, <2>4, <2>5 DEF ValueInv
<1>15. RejectedFor
  BY <1>1 DEF RejectedFor
<1>16. QED
  BY <1>9, <1>11, <1>12, <1>13, <1>14, <1>15 DEF VerdictInv

\* The verdict that is reached is that of the function.
LEMMA EndVerdict ==
  ASSUME Inv, ShapeInv, MarkInv, TargetInv, BlockInv, ValueInv, FunctionEnd
  PROVE  /\ outcome' = "rejected" => ReturnsInLoop \/ ReturnsAndDefers \/ UsesLoopValue
         /\ outcome' = "accepted" => ~(ReturnsInLoop \/ ReturnsAndDefers)
<1>1. ASSUME outcome' = "rejected", ~ReturnsInLoop, ~ReturnsAndDefers, ~UsesLoopValue
      PROVE  FALSE
  <2>1. blocks' = blocks
    BY EndCode
  <2>2. Terminated(code', blocks) /\ Dominated(code', blocks)
    BY <1>1, EndTerminated, EndDominated
  <2>3. Verifies(code', blocks)
    BY <2>2 DEF Verifies
  <2>4. outcome' = IF Verifies(code', blocks) THEN "accepted" ELSE "rejected"
    BY DEF FunctionEnd
  <2>5. QED
    BY <1>1, <2>1, <2>3, <2>4
<1>2. QED
  BY <1>1, EndAccepted

\* Every step but the end of the function leaves the verdict open.
LEMMA NoVerdict ==
  ASSUME Generate, ~FunctionEnd
  PROVE  outcome' \notin {"accepted", "rejected"}
BY DEF Generate, CallStmt, BreakStmt, DeferStmt, ReturnStmt, IfExpr, ThenDone, IfDone,
   IfElseDone, Merge, WhileExpr, WhileDone, DeferredBody, DeferredDone, ReturnBuilt,
   BodyEnd, Push, InBody, At, BodyDone, InDefers, DefersDone, Running

LEMMA VerdictNext ==
  ASSUME Inv, VerdictInv, [Next]_vars
  PROVE  VerdictInv'
<1>1. CASE Generate
  <2>1. fn' = fn /\ Running
    BY <1>1 DEF Generate, CallStmt, BreakStmt, DeferStmt, ReturnStmt, IfExpr, ThenDone, IfDone,
         IfElseDone, Merge, WhileExpr, WhileDone, DeferredBody, DeferredDone, ReturnBuilt,
         BodyEnd, FunctionEnd, InBody, At, BodyDone, InDefers, DefersDone
  <2>2. CASE NeverEnds(fn, defer_blocks, stack)
    <3>1. Running' => NeverEnds(fn', defer_blocks', stack')
      BY <1>1, <2>1, <2>2, NeverNext
    <3>2. ~FunctionEnd
      BY <2>2, NeverDone DEF FunctionEnd
    <3>3. RejectedFor'
      BY <1>1, <3>2, NoVerdict DEF RejectedFor
    <3>4. QED
      BY <3>1, <3>3 DEF VerdictInv
  <2>3. CASE ShapeInv /\ MarkInv /\ TargetInv /\ BlockInv /\ ValueInv
    <3>1. CASE PlainHere
      <4>1. ShapeInv' /\ MarkInv' /\ TargetInv' /\ BlockInv' /\ ValueInv'
        BY <1>1, <2>3, <3>1, ShapeNext, MarkNext, TargetNext, BlockNext, ValueNext
      <4>2. /\ ReturnsInLoop' <=> ReturnsInLoop
            /\ ReturnsAndDefers' <=> ReturnsAndDefers
            /\ UsesLoopValue' <=> UsesLoopValue
        BY <2>1 DEF ReturnsInLoop, ReturnsAndDefers, UsesLoopValue, LiveStmts
      <4>3. RejectedFor'
        <5>1. CASE FunctionEnd
          BY <2>3, <4>2, <5>1, EndVerdict DEF RejectedFor
        <5>2. CASE ~FunctionEnd
          BY <1>1, <5>2, NoVerdict DEF RejectedFor
        <5>3. QED
          BY <5>1, <5>2
      <4>4. QED
        BY <4>1, <4>3 DEF VerdictInv
    <3>2. CASE ~PlainHere
      <4>1. InBody /\ This.op \in {"return", "defer"} /\ Top.body \in InDeferred(fn)
        BY <3>2 DEF PlainHere
      <4>2. ReturnStmt \/ DeferStmt
        <5>1. Top.at # "defers" /\ ~(Top.i > Len(Body))
          <6>1. IsFunction(fn) /\ Top.body \in 1 .. Len(fn) /\ Top.i \in 1 .. Len(Body)
            BY <4>1, ThisOK DEF Inv, TypeOK, Body
          <6>2. Len(Body) \in Nat
            BY <6>1, StatementsOf DEF Body
          <6>3. QED
            BY <4>1, <6>1, <6>2 DEF InBody
        <5>2. ~InDefers /\ \A at : ~BodyDone(at)
          BY <5>1 DEF BodyDone, InDefers
        <5>3. ~CallStmt /\ ~BreakStmt /\ ~IfExpr /\ ~WhileExpr
          BY <4>1 DEF CallStmt, BreakStmt, IfExpr, WhileExpr, At, Valued
        <5>4. /\ ~ThenDone /\ ~IfDone /\ ~IfElseDone /\ ~WhileDone /\ ~DeferredBody
              /\ ~DeferredDone /\ ~ReturnBuilt /\ ~BodyEnd /\ ~FunctionEnd
          BY <5>2 DEF ThenDone, IfDone, IfElseDone, WhileDone, DeferredBody, DeferredDone,
               ReturnBuilt, BodyEnd, FunctionEnd, DefersDone
        <5>5. QED
          BY <1>1, <5>3, <5>4 DEF Generate
      <4>3. Restarting(fn, defer_blocks, stack)
        BY <2>3, <4>1, RestartsNow
      <4>4. Running' => NeverEnds(fn', defer_blocks', stack')
        BY <2>1, <4>2, <4>3, NeverFrom
      <4>5. ~FunctionEnd
        BY <4>1 DEF FunctionEnd, DefersDone, InDefers, InBody
      <4>6. RejectedFor'
        BY <1>1, <4>5, NoVerdict DEF RejectedFor
      <4>7. QED
        BY <4>4, <4>6 DEF VerdictInv
    <3>3. QED
      BY <3>1, <3>2
  <2>4. QED
    BY <2>1, <2>2, <2>3 DEF VerdictInv
<1>2. CASE UNCHANGED vars
  BY <1>2 DEF VerdictInv, ShapeInv, MarkInv, TargetInv, BlockInv, ValueInv, RejectedFor,
       ReturnsInLoop, ReturnsAndDefers, UsesLoopValue, LiveStmts, Running, Top, vars
<1>3. QED
  BY <1>1, <1>2 DEF Next, Generated

\* The verifier rejects a function for one of three reasons, always for the first
\* two (gen.c:1383-1408, 1562-1572, 1792-1807).
THEOREM Verdict == Spec => []RejectedFor
<1>1. Init => VerdictInv
  BY VerdictInit
<1>2. Inv /\ VerdictInv /\ [Next]_vars => VerdictInv'
  BY VerdictNext
<1>3. VerdictInv => RejectedFor
  BY DEF VerdictInv
<1>4. QED
  BY <1>1, <1>2, <1>3, Invariant, PTL DEF Spec

===============================================================================
