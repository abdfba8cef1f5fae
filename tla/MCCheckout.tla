----------------------------- MODULE MCCheckout -----------------------------
(* Checkout for TLC: the installations are interchangeable.                   *)
EXTENDS Checkout, TLC

Symmetry == Permutations(Bots)
=============================================================================
