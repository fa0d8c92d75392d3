-------------------------------- MODULE Vector --------------------------------
(***************************************************************************)
(* The dynamic array in which luka keeps tokens, nodes and modules         *)
(* (libs/vector.c).  data[k] is the element with index k - 1; Junk is      *)
(* memory that was never written.  An allocation that fails leaves NULL in *)
(* the vector and its contents unreachable; a vector is used no more then, *)
(* and neither is one that was destroyed.                                  *)
(*                                                                         *)
(* Bound: MaxSize elements.                                                *)
(***************************************************************************)
EXTENDS Integers, Sequences

CONSTANTS
  Elements, Junk,
  Capacities,   \* what callers ask for at first
  MayFail,      \* may malloc() fail
  MaxSize

ASSUME VectorAssumptions ==
  /\ Junk \notin Elements
  /\ Capacities \subseteq Nat
  /\ MayFail \in BOOLEAN
  /\ MaxSize \in Nat

VARIABLES size, capacity, data,
  status        \* "valid"; "lost" or "destroyed"; "wild": it wrote outside its block

vars == <<size, capacity, data, status>>

Minimum == 2
Growth == 2
ShrinkThreshold == 0   \* (1 / 4)

Cells == Elements \union {Junk}
AtLeast(m, n) == IF n > m THEN n ELSE m

Init ==
  /\ \E asked \in Capacities :
       /\ capacity = AtLeast(Minimum, asked)
       /\ data = [k \in 1 .. AtLeast(Minimum, asked) |-> Junk]
  /\ size = 0
  /\ status = "valid"

Become(n, block) ==
  /\ size' = n /\ data' = block /\ capacity' = Len(block)
  /\ UNCHANGED status

Stop(how) == status' = how /\ UNCHANGED <<size, capacity, data>>

\* _vector_reallocate(): the block itself, or a new one that holds the first
\* count elements
NewCapacity(n) == IF n < Minimum /\ capacity > Minimum THEN Minimum ELSE n
Copied(n, count) == [k \in 1 .. n |-> IF k <= count THEN data[k] ELSE Junk]
Reallocated(n, count) ==
  IF NewCapacity(n) < Minimum THEN data ELSE Copied(NewCapacity(n), count)
Fails(n) == MayFail /\ NewCapacity(n) >= Minimum

Adjusted(count) == AtLeast(1, count * Growth)
ShouldGrowLate == size > capacity             \* mutant: the test for a full block
ShouldGrow == size = capacity

\* _vector_move_right(), and the element in the place that is free then
MovedRight(block, k, e) ==
  [j \in 1 .. Len(block) |->
     IF j = k THEN e ELSE IF j > k /\ j <= size + 1 THEN block[j - 1] ELSE block[j]]

\* vector_push_back(), vector_push_front(), vector_insert()
Insert(k, e) ==
  LET block == IF ShouldGrow THEN Reallocated(Adjusted(size), size) ELSE data IN
    \/ size < Len(block) /\ Become(size + 1, MovedRight(block, k, e))
    \/ size >= Len(block) /\ Stop("wild")
    \/ ShouldGrow /\ Fails(Adjusted(size)) /\ Stop("lost")

\* vector_assign()
Assign(k, e) == Become(size, [data EXCEPT ![k] = e])

\* vector_erase(), vector_pop_front(): the block shrinks when it is down to a
\* quarter; the result of that is ignored
EraseMoving(k, last) ==
  LET n == size - 1
      shrinks == n = capacity \div 4 /\ NewCapacity(Adjusted(n)) >= Minimum
      Moved(j) == IF j >= k /\ j <= last THEN data[j + 1] ELSE data[j]
  IN \/ Become(n, [j \in 1 .. (IF shrinks THEN NewCapacity(Adjusted(n)) ELSE capacity) |->
                     IF shrinks /\ j > n THEN Junk ELSE Moved(j)])
     \/ shrinks /\ MayFail /\ Stop("lost")
EraseShort(k) == EraseMoving(k, size - 2)      \* mutant: one element is not moved
Erase(k) == EraseMoving(k, size - 1)

\* vector_pop_back(): shrinks at a threshold of no elements
PopBack ==
  LET n == size - 1
      shrinks == n = capacity * ShrinkThreshold IN
    \/ Become(n, IF shrinks THEN Reallocated(Adjusted(n), n) ELSE data)
    \/ shrinks /\ Fails(Adjusted(n)) /\ Stop("lost")

\* vector_resize(), vector_clear()
Resize(n) ==
  LET shrinks == n <= capacity * ShrinkThreshold
      moves == shrinks \/ n > capacity IN
    \/ Become(n, IF moves THEN Reallocated(n * Growth, IF shrinks THEN n ELSE size) ELSE data)
    \/ moves /\ Fails(n * Growth) /\ Stop("lost")

\* vector_reserve(), vector_shrink_to_fit()
Reallocate(n) ==
  \/ Become(size, Reallocated(n, size))
  \/ Fails(n) /\ Stop("lost")
Reserve(n) == n > capacity /\ Reallocate(n)
ShrinkToFit == Reallocate(size)

Valid == status = "valid"

Next ==
  \/ Valid /\ size < MaxSize /\ \E k \in 1 .. size + 1, e \in Elements : Insert(k, e)
  \/ Valid /\ \E k \in 1 .. size, e \in Elements : Assign(k, e)
  \/ Valid /\ \E k \in 1 .. size : Erase(k)
  \/ Valid /\ size > 0 /\ PopBack
  \/ Valid /\ \E n \in 0 .. MaxSize : Resize(n)
  \/ Valid /\ \E n \in 0 .. MaxSize : Reserve(n)
  \/ Valid /\ ShrinkToFit
  \/ Valid /\ Stop("destroyed")
  \/ ~Valid /\ UNCHANGED vars

Spec == Init /\ [][Next]_vars

-----------------------------------------------------------------------------
(* Properties *)

\* The block is as large as the vector says, never smaller than two elements,
\* and the elements that are there fit into it.
TypeOK ==
  /\ size \in Nat /\ size <= capacity
  /\ capacity \in Nat /\ capacity >= Minimum
  /\ data \in Seq(Cells) /\ Len(data) = capacity
  /\ status \in {"valid", "lost", "destroyed", "wild"}

\* No write goes outside the block, whatever the vector was grown or shrunk by before.
NoWildWrite == status # "wild"

Contents == IF Valid THEN SubSeq(data, 1, size) ELSE <<>>

L == INSTANCE Lists WITH list <- Contents, there <- Valid

\* The vector is the list that its users believe it to be: moving the elements
\* to another block and aside for one another loses and duplicates none.
ImplementsList == L!Spec

=============================================================================
