--------------------------------- MODULE Lists ---------------------------------
(***************************************************************************)
(* What a vector of libs/vector.c promises its users: a list, of which     *)
(* nothing but a failed allocation loses anything.                         *)
(***************************************************************************)
EXTENDS Integers, SequencesExt

CONSTANTS Elements, Junk, MayFail

VARIABLES list, there   \* the elements, while they are there

Init == list = <<>> /\ there = TRUE

Insert == \E k \in 1 .. Len(list) + 1, e \in Elements : list' = InsertAt(list, k, e)
Drop == \E k \in 1 .. Len(list) : list' = RemoveAt(list, k)
Assign == \E k \in 1 .. Len(list), e \in Elements : list' = [list EXCEPT ![k] = e]

\* The first elements stay; those that are added were never written.
Resize ==
  /\ list' \in Seq(Elements \union {Junk})
  /\ \A k \in 1 .. Len(list') : k <= Len(list) => list'[k] = list[k]

Gone == list' = <<>> /\ there' = FALSE

Next ==
  \/ there /\ UNCHANGED there /\ (Insert \/ Drop \/ Assign \/ Resize)
  \/ there /\ Gone

Spec == Init /\ [][Next]_<<list, there>>

=============================================================================
