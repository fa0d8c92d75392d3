------------------------------- MODULE MCOutput -------------------------------
(***************************************************************************)
(* Instances of Output for TLC.                                            *)
(***************************************************************************)
EXTENDS Output

\* Every call may fail, in any combination.
AnyCall == Call

=============================================================================
