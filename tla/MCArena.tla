------------------------------ MODULE MCArena ------------------------------
(* A small instance of Arena for TLC. *)
EXTENDS Arena, TLC

MCSymmetry == Permutations(Blocks)
=============================================================================
