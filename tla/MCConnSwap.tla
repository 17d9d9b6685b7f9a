----------------------------- MODULE MCConnSwap -----------------------------
(***************************************************************************)
(* ConnSwap for TLC.                                                       *)
(***************************************************************************)
EXTENDS ConnSwap, TLC

\* Connections are interchangeable; liveness runs do not use this.
ConnSymmetry == Permutations(Conns)
=============================================================================
