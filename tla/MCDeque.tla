------------------------------ MODULE MCDeque -------------------------------
EXTENDS DequeIterator, TLC

(* Objects are told apart by identity only. *)
ObjectSymmetry == Permutations(Objects)
=============================================================================
