------------------------------- MODULE MCRouter -------------------------------
(***************************************************************************)
(* A small instance of Router for TLC.                                     *)
(***************************************************************************)
EXTENDS Router, TLC

\* Requests are interchangeable.
MCSymmetry == Permutations(Chat)

=============================================================================
