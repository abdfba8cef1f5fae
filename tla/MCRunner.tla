------------------------------ MODULE MCRunner ------------------------------
(***************************************************************************)
(* Small instances of Runner: a tail of a few bytes, crossed inside one    *)
(* chunk, across chunks and in the middle of a rune.                       *)
(***************************************************************************)
EXTENDS Runner
=============================================================================
