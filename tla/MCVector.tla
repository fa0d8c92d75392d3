------------------------------- MODULE MCVector -------------------------------
(***************************************************************************)
(* An instance of Vector for TLC                                           *)
(***************************************************************************)
EXTENDS Vector

Asked == {0, 5}


=============================================================================
