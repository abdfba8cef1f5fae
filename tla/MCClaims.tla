------------------------------ MODULE MCClaims ------------------------------
(* Claims for TLC: instances are model values, interchangeable where the run  *)
(* checks no liveness.                                                        *)
EXTENDS Claims, TLC

Interchangeable == Permutations(Instances)
=============================================================================
