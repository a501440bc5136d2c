----------------------------- MODULE MCVectors ------------------------------
EXTENDS Vectors

(* Five objects, two of them equal. *)
MCObjects == 1 .. 5
MCValue == <<2, 1, 3, 2, 4>>
=============================================================================
