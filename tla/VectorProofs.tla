----------------------------- MODULE VectorProofs -----------------------------
(***************************************************************************)
(* Proofs about Vector, for every bound, every first capacity, and with or *)
(* without allocations that fail.                                          *)
(***************************************************************************)
EXTENDS Vector, SequenceTheorems, TLAPS

Inv == TypeOK /\ NoWildWrite

\* A function on 1 .. n is a sequence of that length.
LEMMA FunctionIsSeq ==
  ASSUME NEW S, NEW n \in Nat, NEW f \in [1 .. n -> S]
  PROVE  f \in Seq(S) /\ Len(f) = n /\ DOMAIN f = 1 .. n
  OBVIOUS

\* The library's insertion and removal, element by element
LEMMA InsertAtIs ==
  ASSUME NEW S, NEW s \in Seq(S), NEW k \in 1 .. Len(s) + 1, NEW e \in S
  PROVE  L!InsertAt(s, k, e) =
           [j \in 1 .. Len(s) + 1 |-> IF j < k THEN s[j] ELSE IF j = k THEN e ELSE s[j - 1]]
<1> DEFINE front == SubSeq(s, 1, k - 1)
           back == SubSeq(s, k, Len(s))
<1>1. /\ front \in Seq(S) /\ Len(front) = k - 1
      /\ \A j \in 1 .. k - 1 : front[j] = s[j]
  OBVIOUS
<1>2. /\ back \in Seq(S) /\ Len(back) = Len(s) - k + 1
      /\ \A j \in 1 .. Len(s) - k + 1 : back[j] = s[k + j - 1]
  OBVIOUS
<1>3. L!InsertAt(s, k, e) = front \o <<e>> \o back
  BY DEF L!InsertAt
<1> DEFINE t == [j \in 1 .. Len(s) + 1 |-> IF j < k THEN s[j] ELSE IF j = k THEN e ELSE s[j - 1]]
<1>4. /\ t \in Seq(S) /\ Len(t) = Len(s) + 1
      /\ \A j \in 1 .. Len(s) + 1 : t[j] = IF j < k THEN s[j] ELSE IF j = k THEN e ELSE s[j - 1]
  OBVIOUS
<1> HIDE DEF front, back, t
<1> DEFINE upTo == front \o <<e>>
<1>5. upTo \in Seq(S) /\ Len(upTo) = k
  BY <1>1
<1>6. \A j \in 1 .. k : upTo[j] = t[j]
  BY <1>1, <1>4, SMTT(40)
<1> HIDE DEF upTo
<1>7. /\ upTo \o back \in Seq(S)
      /\ Len(upTo \o back) = Len(s) + 1
      /\ \A j \in 1 .. Len(s) + 1 : (upTo \o back)[j] = t[j]
  <2>1. Len(upTo) + Len(back) = Len(s) + 1
    BY <1>2, <1>5
  <2>2. \A j \in 1 .. Len(s) + 1 : t[j] = IF j <= Len(upTo) THEN upTo[j] ELSE back[j - Len(upTo)]
    <3> SUFFICES ASSUME NEW j \in 1 .. Len(s) + 1, j > k
                 PROVE  t[j] = back[j - k]
      BY <1>5, <1>6
    <3>1. j - k \in 1 .. Len(s) - k + 1
      OBVIOUS
    <3>2. back[j - k] = s[k + (j - k) - 1]
      BY <1>2, <3>1
    <3>3. QED
      BY <1>4, <3>2
  <2>3. upTo \o back \in Seq(S) /\ Len(upTo \o back) = Len(upTo) + Len(back)
    BY <1>2, <1>5, ConcatProperties
  <2>4. \A j \in 1 .. Len(upTo) + Len(back) :
          (upTo \o back)[j] = IF j <= Len(upTo) THEN upTo[j] ELSE back[j - Len(upTo)]
    BY <1>2, <1>5, ConcatProperties
  <2>5. QED
    BY <2>1, <2>2, <2>3, <2>4
<1>8. upTo \o back = t
  BY <1>4, <1>7, SeqEqual
<1>9. QED
  BY <1>3, <1>8 DEF t, upTo

LEMMA RemoveAtIs ==
  ASSUME NEW S, NEW s \in Seq(S), NEW k \in 1 .. Len(s)
  PROVE  L!RemoveAt(s, k) = [j \in 1 .. Len(s) - 1 |-> IF j < k THEN s[j] ELSE s[j + 1]]
<1> DEFINE front == SubSeq(s, 1, k - 1)
           back == SubSeq(s, k + 1, Len(s))
           t == [j \in 1 .. Len(s) - 1 |-> IF j < k THEN s[j] ELSE s[j + 1]]
<1>1. /\ front \in Seq(S) /\ Len(front) = k - 1
      /\ \A j \in 1 .. k - 1 : front[j] = s[j]
  OBVIOUS
<1>2. /\ back \in Seq(S) /\ Len(back) = Len(s) - k
      /\ \A j \in 1 .. Len(s) - k : back[j] = s[k + j]
  OBVIOUS
<1>3. L!RemoveAt(s, k) = front \o back
  BY DEF L!RemoveAt
<1>4. /\ t \in Seq(S) /\ Len(t) = Len(s) - 1
      /\ \A j \in 1 .. Len(s) - 1 : t[j] = IF j < k THEN s[j] ELSE s[j + 1]
  OBVIOUS
<1> HIDE DEF front, back, t
<1>5. /\ front \o back \in Seq(S)
      /\ Len(front \o back) = Len(s) - 1
      /\ \A j \in 1 .. Len(s) - 1 : (front \o back)[j] = t[j]
  <2>1. Len(front) + Len(back) = Len(s) - 1
    BY <1>1, <1>2
  <2>2. \A j \in 1 .. Len(s) - 1 : t[j] = IF j <= Len(front) THEN front[j] ELSE back[j - Len(front)]
    BY <1>1, <1>2, <1>4
  <2>3. QED
    BY <1>1, <1>2, <2>1, <2>2, ConcatProperties
<1>6. front \o back = t
  BY <1>4, <1>5, SeqEqual
<1>7. QED
  BY <1>3, <1>6 DEF t

\* What the helpers about blocks return
LEMMA BlockFacts ==
  ASSUME Inv, NEW n \in Nat, NEW count \in Nat, count <= size
  PROVE  /\ NewCapacity(n) \in Nat
         /\ Reallocated(n, count) \in Seq(Cells)
         /\ Len(Reallocated(n, count)) = IF NewCapacity(n) < Minimum THEN capacity ELSE NewCapacity(n)
         /\ \A k \in 1 .. Len(Reallocated(n, count)) :
              k <= count => Reallocated(n, count)[k] = data[k]
<1>1. NewCapacity(n) \in Nat
  BY DEF NewCapacity, Minimum
<1>2. CASE NewCapacity(n) < Minimum
  BY <1>1, <1>2 DEF Reallocated, Inv, TypeOK
<1>3. CASE ~(NewCapacity(n) < Minimum)
  <2>1. Copied(NewCapacity(n), count) \in [1 .. NewCapacity(n) -> Cells]
    <3> SUFFICES ASSUME NEW k \in 1 .. NewCapacity(n), k <= count
                 PROVE  data[k] \in Cells
      BY DEF Copied, Cells
    <3>1. k \in 1 .. Len(data)
      BY <1>1 DEF Inv, TypeOK
    <3>2. QED
      BY <3>1 DEF Inv, TypeOK
  <2>2. QED
    BY <1>1, <1>3, <2>1 DEF Reallocated, Copied
<1>4. QED
  BY <1>2, <1>3

LEMMA InitInv == Init => Inv
<1> SUFFICES ASSUME Init PROVE Inv
  OBVIOUS
<1>1. PICK asked \in Capacities : /\ capacity = AtLeast(Minimum, asked)
                                  /\ data = [k \in 1 .. AtLeast(Minimum, asked) |-> Junk]
  BY DEF Init
<1>2. asked \in Nat
  BY VectorAssumptions
<1>3. capacity \in Nat /\ capacity >= Minimum
  BY <1>1, <1>2 DEF AtLeast, Minimum
<1>4. data \in [1 .. capacity -> Cells]
  BY <1>1 DEF Cells
<1>5. QED
  BY <1>3, <1>4 DEF Init, Inv, TypeOK, NoWildWrite, Minimum

\* The list in a valid vector is what its block begins with.
LEMMA ContentsIs ==
  ASSUME Inv, Valid
  PROVE  /\ Contents \in Seq(Cells) /\ Len(Contents) = size
         /\ \A j \in 1 .. size : Contents[j] = data[j]
  BY DEF Inv, TypeOK, Contents

\* A step to a valid vector of n elements: what there is to show of the block
LEMMA Becomes ==
  ASSUME Inv, Valid, NEW n \in Nat, NEW block \in Seq(Cells),
         n <= Len(block), Len(block) >= Minimum, Become(n, block)
  PROVE  /\ Inv' /\ Valid'
         /\ Contents' \in Seq(Cells) /\ Len(Contents') = n
         /\ \A j \in 1 .. n : Contents'[j] = block[j]
<1>1. Inv' /\ Valid'
  BY DEF Become, Inv, TypeOK, Valid, NoWildWrite
<1>2. Contents' = SubSeq(block, 1, n)
  BY <1>1 DEF Become, Contents
<1>3. QED
  BY <1>1, <1>2

\* A vector that is not used any more
LEMMA Stops ==
  ASSUME Inv, Valid, NEW how \in {"lost", "destroyed"}, Stop(how)
  PROVE  Inv' /\ [L!Next]_(<<Contents, Valid>>)
<1>1. Inv' /\ ~Valid'
  BY DEF Stop, Inv, TypeOK, Valid, NoWildWrite
<1>2. Contents' = <<>>
  BY <1>1 DEF Contents
<1>3. QED
  BY <1>1, <1>2 DEF L!Next, L!Gone, Valid

Implemented == Inv' /\ [L!Next]_(<<Contents, Valid>>)

LEMMA InsertStep ==
  ASSUME Inv, Valid, NEW k \in 1 .. size + 1, NEW e \in Elements, Insert(k, e)
  PROVE  Implemented
<1> DEFINE block == IF ShouldGrow THEN Reallocated(Adjusted(size), size) ELSE data
<1>0. size \in Nat /\ capacity \in Nat /\ size <= capacity /\ capacity >= 2
      /\ data \in Seq(Cells) /\ Len(data) = capacity
  BY DEF Inv, TypeOK, Minimum
<1>1. /\ block \in Seq(Cells) /\ Len(block) >= Minimum /\ size < Len(block)
      /\ \A j \in 1 .. size : block[j] = data[j]
  <2>1. CASE ShouldGrow
    <3>1. Adjusted(size) \in Nat /\ Adjusted(size) > size /\ Adjusted(size) >= 2
      BY <1>0, <2>1 DEF Adjusted, AtLeast, Growth, ShouldGrow
    <3>2. NewCapacity(Adjusted(size)) = Adjusted(size)
      BY <3>1 DEF NewCapacity, Minimum
    <3>3. block = Reallocated(Adjusted(size), size)
      BY <2>1
    <3> DEFINE n == Adjusted(size)
    <3> HIDE DEF block, n
    <3>5. n \in Nat /\ NewCapacity(n) = n /\ ~(n < Minimum)
      BY <3>1, <3>2 DEF n, Minimum
    <3>6. /\ Reallocated(n, size) \in Seq(Cells)
          /\ Len(Reallocated(n, size)) = n
          /\ \A j \in 1 .. Len(Reallocated(n, size)) : j <= size => Reallocated(n, size)[j] = data[j]
      <4>1. /\ Reallocated(n, size) \in Seq(Cells)
            /\ Len(Reallocated(n, size)) = IF NewCapacity(n) < Minimum THEN capacity ELSE NewCapacity(n)
            /\ \A j \in 1 .. Len(Reallocated(n, size)) : j <= size => Reallocated(n, size)[j] = data[j]
        <5>1. n \in Nat /\ size \in Nat /\ size <= size
          BY <1>0, <3>5
        <5>2. QED
          BY <5>1, BlockFacts
      <4>2. QED
        BY <3>5, <4>1
    <3>4. /\ block \in Seq(Cells) /\ Len(block) = Adjusted(size)
          /\ \A j \in 1 .. Len(block) : j <= size => block[j] = data[j]
      BY <3>3, <3>6 DEF n
    <3>7. QED
      BY <1>0, <3>1, <3>4 DEF Minimum
  <2>2. CASE ~ShouldGrow
    BY <1>0, <2>2 DEF ShouldGrow, Minimum
  <2>3. QED
    BY <2>1, <2>2
<1>2. CASE Become(size + 1, MovedRight(block, k, e))
  <2> DEFINE moved == MovedRight(block, k, e)
  <2>1. moved \in [1 .. Len(block) -> Cells]
    <3> SUFFICES ASSUME NEW j \in 1 .. Len(block), j > k, j <= size + 1
                 PROVE  block[j - 1] \in Cells
      BY <1>1 DEF MovedRight, Cells
    <3>1. j - 1 \in 1 .. Len(block)
      BY <1>1
    <3>2. QED
      BY <1>1, <3>1
  <2>2. moved \in Seq(Cells) /\ Len(moved) = Len(block)
    BY <1>1, <2>1
  <2>3. \A j \in 1 .. size + 1 :
          moved[j] = IF j = k THEN e ELSE IF j > k THEN data[j - 1] ELSE data[j]
    <3> SUFFICES ASSUME NEW j \in 1 .. size + 1
                 PROVE  moved[j] = IF j = k THEN e ELSE IF j > k THEN data[j - 1] ELSE data[j]
      OBVIOUS
    <3>1. j \in 1 .. Len(block)
      BY <1>0, <1>1
    <3>2. moved[j] = IF j = k THEN e ELSE IF j > k THEN block[j - 1] ELSE block[j]
      BY <1>0, <3>1 DEF MovedRight
    <3>3. j > k => j - 1 \in 1 .. size
      BY <1>0
    <3>4. j < k => j \in 1 .. size
      BY <1>0
    <3>5. QED
      BY <1>0, <1>1, <3>2, <3>3, <3>4
  <2> HIDE DEF moved, block
  <2>4. Become(size + 1, moved)
    BY <1>2 DEF moved
  <2>5. /\ Inv' /\ Valid'
        /\ Contents' \in Seq(Cells) /\ Len(Contents') = size + 1
        /\ \A j \in 1 .. size + 1 : Contents'[j] = moved[j]
    BY <1>0, <1>1, <2>2, <2>4, Becomes
  <2>6. L!Insert
    <3>1. /\ Contents \in Seq(Cells) /\ Len(Contents) = size
          /\ \A j \in 1 .. size : Contents[j] = data[j]
      BY ContentsIs
    <3> DEFINE t == [j \in 1 .. size + 1 |-> IF j < k THEN Contents[j]
                                             ELSE IF j = k THEN e ELSE Contents[j - 1]]
    <3>2. L!InsertAt(Contents, k, e) = t
      BY <3>1, InsertAtIs DEF Cells
    <3>3. \A j \in 1 .. size + 1 : Contents'[j] = t[j]
      <4> SUFFICES ASSUME NEW j \in 1 .. size + 1
                   PROVE  Contents'[j] = t[j]
        OBVIOUS
      <4>1. j > k => j - 1 \in 1 .. size
        BY <1>0
      <4>2. j < k => j \in 1 .. size
        BY <1>0
      <4>3. QED
        BY <1>0, <2>3, <2>5, <3>1, <4>1, <4>2
    <3>4. t \in [1 .. size + 1 -> Cells]
      <4>1. \A j \in 1 .. size + 1 : j > k => j - 1 \in 1 .. size
        BY <1>0
      <4>2. QED
        BY <1>0, <3>1, <4>1 DEF Cells
    <3>5. t \in Seq(Cells) /\ Len(t) = size + 1
      BY <1>0, <3>4
    <3> HIDE DEF t
    <3>6. Contents' = t
      BY <2>5, <3>3, <3>5, SeqEqual
    <3>7. QED
      BY <3>1, <3>2, <3>6 DEF L!Insert
  <2>7. QED
    BY <2>5, <2>6 DEF Implemented, L!Next
<1>3. CASE Stop("lost")
  BY <1>3, Stops DEF Implemented
<1>4. QED
  BY <1>0, <1>1, <1>2, <1>3 DEF Insert

\* A step that leaves or makes a list which is the old one up to its new length
LEMMA ResizedStep ==
  ASSUME Inv, Valid, NEW n \in Nat, NEW block \in Seq(Cells),
         n <= Len(block), Len(block) >= Minimum,
         \A j \in 1 .. n : j <= size => block[j] = data[j],
         Become(n, block)
  PROVE  Implemented
<1>0. size \in Nat
  BY DEF Inv, TypeOK
<1>1. /\ Contents \in Seq(Cells) /\ Len(Contents) = size
      /\ \A j \in 1 .. size : Contents[j] = data[j]
  BY ContentsIs
<1>2. /\ Inv' /\ Valid'
      /\ Contents' \in Seq(Cells) /\ Len(Contents') = n
      /\ \A j \in 1 .. n : Contents'[j] = block[j]
  BY Becomes
<1>3. \A j \in 1 .. n : j <= size => Contents'[j] = Contents[j]
  BY <1>0, <1>1, <1>2
<1>4. L!Resize
  BY <1>1, <1>2, <1>3 DEF L!Resize, Cells
<1>5. QED
  BY <1>2, <1>4 DEF Implemented, L!Next

\* The same when the block may have been moved
LEMMA ReallocatedStep ==
  ASSUME Inv, Valid, NEW n \in Nat, NEW m \in Nat, NEW count \in Nat,
         count <= size, count = n \/ count = size,
         n <= (IF NewCapacity(m) < Minimum THEN capacity ELSE NewCapacity(m)),
         Become(n, Reallocated(m, count))
  PROVE  Implemented
<1> DEFINE block == Reallocated(m, count)
<1>1. /\ NewCapacity(m) \in Nat
      /\ block \in Seq(Cells)
      /\ Len(block) = IF NewCapacity(m) < Minimum THEN capacity ELSE NewCapacity(m)
      /\ \A j \in 1 .. Len(block) : j <= count => block[j] = data[j]
  BY BlockFacts
<1>2. n <= Len(block) /\ Len(block) >= Minimum
  BY <1>1 DEF Inv, TypeOK, Minimum
<1>3. \A j \in 1 .. n : j <= size => block[j] = data[j]
  BY <1>1, <1>2 DEF Inv, TypeOK
<1> HIDE DEF block
<1>4. Become(n, block)
  BY DEF block
<1>5. QED
  BY <1>1, <1>2, <1>3, <1>4, ResizedStep

LEMMA AssignStep ==
  ASSUME Inv, Valid, NEW k \in 1 .. size, NEW e \in Elements, Assign(k, e)
  PROVE  Implemented
<1> DEFINE block == [data EXCEPT ![k] = e]
<1>0. size \in Nat /\ size <= Len(data) /\ data \in Seq(Cells) /\ Len(data) >= Minimum
  BY DEF Inv, TypeOK
<1>1. /\ block \in Seq(Cells) /\ Len(block) = Len(data)
      /\ \A j \in 1 .. Len(data) : block[j] = IF j = k THEN e ELSE data[j]
  BY <1>0, ExceptSeq DEF Cells
<1> HIDE DEF block
<1>2. /\ Inv' /\ Valid'
      /\ Contents' \in Seq(Cells) /\ Len(Contents') = size
      /\ \A j \in 1 .. size : Contents'[j] = block[j]
  <2>1. Become(size, block)
    BY DEF Assign, block
  <2>2. QED
    BY <1>0, <1>1, <2>1, Becomes
<1>3. /\ Contents \in Seq(Cells) /\ Len(Contents) = size
      /\ \A j \in 1 .. size : Contents[j] = data[j]
  BY ContentsIs
<1>4. L!Assign
  <2> DEFINE t == [Contents EXCEPT ![k] = e]
  <2>1. /\ t \in Seq(Cells) /\ Len(t) = size
        /\ \A j \in 1 .. size : t[j] = IF j = k THEN e ELSE Contents[j]
    BY <1>3, ExceptSeq DEF Cells
  <2> HIDE DEF t
  <2>2. Contents' = t
    BY <1>0, <1>1, <1>2, <1>3, <2>1, SeqEqual
  <2>3. QED
    BY <1>3, <2>2 DEF L!Assign, t
<1>5. QED
  BY <1>2, <1>4 DEF Implemented, L!Next

LEMMA EraseStep ==
  ASSUME Inv, Valid, NEW k \in 1 .. size, Erase(k)
  PROVE  Implemented
<1> DEFINE n == size - 1
           shrinks == n = capacity \div 4 /\ NewCapacity(Adjusted(n)) >= Minimum
           room == IF shrinks THEN NewCapacity(Adjusted(n)) ELSE capacity
           block == [j \in 1 .. room |-> IF shrinks /\ j > n THEN Junk
                                         ELSE IF j >= k /\ j <= n THEN data[j + 1] ELSE data[j]]
<1>0. /\ size \in Nat /\ n \in Nat /\ capacity \in Nat /\ size <= capacity /\ capacity >= 2
      /\ data \in Seq(Cells) /\ Len(data) = capacity
  BY DEF Inv, TypeOK, Minimum
<1>1. room \in Nat /\ room >= 2 /\ n <= room /\ (~shrinks => room = capacity)
  <2>1. CASE shrinks
    <3>1. Adjusted(n) \in Nat /\ Adjusted(n) >= n
      BY <1>0 DEF Adjusted, AtLeast, Growth
    <3>2. NewCapacity(Adjusted(n)) \in Nat /\ NewCapacity(Adjusted(n)) >= n
      BY <1>0, <3>1 DEF NewCapacity, Minimum
    <3>3. QED
      BY <2>1, <3>2 DEF Minimum
  <2>2. CASE ~shrinks
    BY <1>0, <2>2
  <2>3. QED
    BY <2>1, <2>2
<1>2. block \in [1 .. room -> Cells]
  <2> SUFFICES ASSUME NEW j \in 1 .. room, ~(shrinks /\ j > n)
               PROVE  (IF j >= k /\ j <= n THEN data[j + 1] ELSE data[j]) \in Cells
    BY DEF Cells
  <2>1. j \in 1 .. capacity /\ (j <= n => j + 1 \in 1 .. capacity)
    <3> HIDE DEF shrinks, room
    <3>1. QED
      BY <1>0, <1>1
  <2>2. QED
    BY <1>0, <2>1
<1>3. \A j \in 1 .. n : block[j] = IF j >= k THEN data[j + 1] ELSE data[j]
  BY <1>0, <1>1
<1> HIDE DEF block, room, shrinks
<1>4. block \in Seq(Cells) /\ Len(block) = room
  BY <1>1, <1>2, FunctionIsSeq
<1>5. CASE Become(n, block)
  <2>1. /\ Inv' /\ Valid'
        /\ Contents' \in Seq(Cells) /\ Len(Contents') = n
        /\ \A j \in 1 .. n : Contents'[j] = block[j]
    BY <1>0, <1>1, <1>4, <1>5, Becomes DEF Minimum
  <2>2. /\ Contents \in Seq(Cells) /\ Len(Contents) = size
        /\ \A j \in 1 .. size : Contents[j] = data[j]
    BY ContentsIs
  <2> DEFINE t == [j \in 1 .. n |-> IF j < k THEN Contents[j] ELSE Contents[j + 1]]
  <2>3. L!RemoveAt(Contents, k) = t
    BY <2>2, RemoveAtIs
  <2>4. \A j \in 1 .. n : t[j] \in Cells /\ Contents'[j] = t[j]
    BY <1>0, <1>3, <2>1, <2>2
  <2>5. t \in Seq(Cells) /\ Len(t) = n
    BY <1>0, <2>4
  <2> HIDE DEF t
  <2>6. Contents' = t
    BY <2>1, <2>4, <2>5, SeqEqual
  <2>7. L!Drop
    BY <2>2, <2>3, <2>6 DEF L!Drop
  <2>8. QED
    BY <2>1, <2>7 DEF Implemented, L!Next
<1>6. CASE Stop("lost")
  BY <1>6, Stops DEF Implemented
<1>7. QED
  BY <1>5, <1>6 DEF Erase, EraseMoving, block, room, shrinks

LEMMA PopBackStep ==
  ASSUME Inv, Valid, size > 0, PopBack
  PROVE  Implemented
<1> DEFINE n == size - 1
<1>0. /\ size \in Nat /\ n \in Nat /\ capacity \in Nat /\ size <= capacity /\ capacity >= 2
      /\ data \in Seq(Cells) /\ Len(data) = capacity /\ capacity * ShrinkThreshold = 0
  BY DEF Inv, TypeOK, Minimum, ShrinkThreshold
<1>1. CASE Stop("lost")
  BY <1>1, Stops DEF Implemented
<1>2. CASE n = 0 /\ Become(n, Reallocated(Adjusted(n), n))
  <2>1. Adjusted(n) \in Nat /\ 0 <= NewCapacity(Adjusted(n))
    BY <1>2 DEF Adjusted, AtLeast, Growth, NewCapacity, Minimum
  <2>2. n <= (IF NewCapacity(Adjusted(n)) < Minimum THEN capacity ELSE NewCapacity(Adjusted(n)))
    BY <1>0, <1>2, <2>1
  <2> HIDE DEF n
  <2>3. QED
    BY <1>0, <1>2, <2>1, <2>2, ReallocatedStep
<1>3. CASE Become(n, data)
  BY <1>0, <1>3, ResizedStep DEF Minimum
<1>4. QED
  BY <1>0, <1>1, <1>2, <1>3 DEF PopBack

LEMMA ResizeStep ==
  ASSUME Inv, Valid, NEW n \in Nat, Resize(n)
  PROVE  Implemented
<1>0. /\ size \in Nat /\ capacity \in Nat /\ size <= capacity /\ capacity >= 2
      /\ data \in Seq(Cells) /\ Len(data) = capacity /\ capacity * ShrinkThreshold = 0
  BY DEF Inv, TypeOK, Minimum, ShrinkThreshold
<1>1. CASE Stop("lost")
  BY <1>1, Stops DEF Implemented
<1>2. CASE n = 0 /\ Become(n, Reallocated(n * Growth, n))
  <2>1. n * Growth \in Nat /\ 0 <= NewCapacity(n * Growth)
    BY <1>2 DEF Growth, NewCapacity, Minimum
  <2>2. n <= (IF NewCapacity(n * Growth) < Minimum THEN capacity ELSE NewCapacity(n * Growth))
    BY <1>0, <1>2, <2>1
  <2>3. QED
    BY <1>0, <1>2, <2>1, <2>2, ReallocatedStep
<1>3. CASE n > capacity /\ Become(n, Reallocated(n * Growth, size))
  <2>1. n * Growth \in Nat /\ NewCapacity(n * Growth) = n * Growth /\ n <= n * Growth
    BY <1>0, <1>3 DEF Growth, NewCapacity, Minimum
  <2>2. n <= (IF NewCapacity(n * Growth) < Minimum THEN capacity ELSE NewCapacity(n * Growth))
    BY <1>0, <1>3, <2>1 DEF Minimum
  <2>3. QED
    BY <1>0, <1>3, <2>1, <2>2, ReallocatedStep
<1>4. CASE n <= capacity /\ Become(n, data)
  BY <1>0, <1>4, ResizedStep DEF Minimum
<1>5. QED
  <2>1. n <= capacity * ShrinkThreshold <=> n = 0
    BY <1>0
  <2>2. CASE n = 0
    BY <1>0, <1>1, <1>2, <2>1, <2>2 DEF Resize
  <2>3. CASE n # 0
    BY <1>0, <1>1, <1>3, <1>4, <2>1, <2>3 DEF Resize
  <2>4. QED
    BY <2>2, <2>3

LEMMA ReallocateStep ==
  ASSUME Inv, Valid, NEW n \in Nat, n >= size, Reallocate(n)
  PROVE  Implemented
<1>0. size \in Nat /\ capacity \in Nat /\ size <= capacity
  BY DEF Inv, TypeOK
<1>1. CASE Stop("lost")
  BY <1>1, Stops DEF Implemented
<1>2. CASE Become(size, Reallocated(n, size))
  <2>1. NewCapacity(n) >= n
    BY DEF NewCapacity, Minimum
  <2>2. NewCapacity(n) \in Nat
    BY DEF NewCapacity, Minimum
  <2>3. size <= (IF NewCapacity(n) < Minimum THEN capacity ELSE NewCapacity(n))
    BY <1>0, <2>1, <2>2
  <2>4. QED
    BY <1>0, <1>2, <2>3, ReallocatedStep
<1>3. QED
  BY <1>1, <1>2 DEF Reallocate

\* Every step keeps the invariant, and is a step of the list or leaves it alone.
LEMMA EveryStep == Inv /\ [Next]_vars => Implemented
<1> SUFFICES ASSUME Inv, [Next]_vars PROVE Implemented
  OBVIOUS
<1>0. size \in Nat /\ capacity \in Nat /\ size <= capacity /\ MaxSize \in Nat
  BY VectorAssumptions DEF Inv, TypeOK
<1>1. CASE UNCHANGED vars
  BY <1>1 DEF vars, Implemented, Inv, TypeOK, NoWildWrite, Contents, Valid
<1>2. ASSUME Valid, NEW k \in 1 .. size + 1, NEW e \in Elements, Insert(k, e)
      PROVE  Implemented
  BY <1>2, InsertStep
<1>3. ASSUME Valid, NEW k \in 1 .. size, NEW e \in Elements, Assign(k, e)
      PROVE  Implemented
  BY <1>3, AssignStep
<1>4. ASSUME Valid, NEW k \in 1 .. size, Erase(k)
      PROVE  Implemented
  BY <1>4, EraseStep
<1>5. CASE Valid /\ size > 0 /\ PopBack
  BY <1>5, PopBackStep
<1>6. ASSUME Valid, NEW n \in 0 .. MaxSize, Resize(n)
      PROVE  Implemented
  BY <1>0, <1>6, ResizeStep
<1>7. ASSUME Valid, NEW n \in 0 .. MaxSize, Reserve(n)
      PROVE  Implemented
  BY <1>0, <1>7, ReallocateStep DEF Reserve
<1>8. CASE Valid /\ ShrinkToFit
  BY <1>0, <1>8, ReallocateStep DEF ShrinkToFit
<1>9. CASE Valid /\ Stop("destroyed")
  BY <1>9, Stops DEF Implemented
<1>10. QED
  BY <1>1, <1>2, <1>3, <1>4, <1>5, <1>6, <1>7, <1>8, <1>9 DEF Next

\* The block of a vector is always as large as the vector says, and its elements
\* fit (_vector_should_grow() before each write).
THEOREM TypeCorrect == Spec => []TypeOK
<1>1. Inv /\ [Next]_vars => Inv'
  BY EveryStep DEF Implemented
<1>2. Inv => TypeOK
  BY DEF Inv
<1>3. QED
  BY InitInv, <1>1, <1>2, PTL DEF Spec

\* Whatever was pushed, erased, resized and moved before, the place that
\* vector_push_back() and vector_insert() write to is inside the block.
THEOREM WritesStayInside == Spec => []NoWildWrite
<1>1. Inv /\ [Next]_vars => Inv'
  BY EveryStep DEF Implemented
<1>2. Inv => NoWildWrite
  BY DEF Inv
<1>3. QED
  BY InitInv, <1>1, <1>2, PTL DEF Spec

\* Every operation of libs/vector.c does to the elements what the list does.
THEOREM VectorImplementsList == Spec => ImplementsList
<1>1. Init => L!Init
  <2> SUFFICES ASSUME Init PROVE L!Init
    OBVIOUS
  <2>1. Inv /\ Valid /\ size = 0
    BY InitInv DEF Init, Valid
  <2>2. Contents = <<>>
    BY <2>1, ContentsIs
  <2>3. QED
    BY <2>1, <2>2 DEF L!Init
<1>2. Inv /\ [Next]_vars => Inv' /\ [L!Next]_(<<Contents, Valid>>)
  BY EveryStep DEF Implemented
<1>3. QED
  BY InitInv, <1>1, <1>2, PTL DEF Spec, ImplementsList, L!Spec

=============================================================================
