------------------------------- MODULE Memory -------------------------------
(***************************************************************************)
(* The two allocators of classlib, an instance for TLC.  A program's       *)
(* MemStack and its MemBlocks share no memory: each behaviour runs one of  *)
(* them, both with blocks of the same size.                                *)
(***************************************************************************)
EXTENDS MemStack, MemBlocks, TLC

VARIABLE allocator

(* Markers, and BMarkers, are interchangeable. *)
MarkerSymmetry == Permutations(Markers) \cup Permutations(BMarkers)

MemoryInit == allocator \in {"MemStack", "MemBlocks"} /\ StackInit /\ Init

MemoryNext ==
  /\ UNCHANGED allocator
  /\ \/ allocator = "MemStack" /\ StackNext /\ UNCHANGED vars
     \/ allocator = "MemBlocks" /\ Next /\ UNCHANGED stackVars

memoryVars == <<allocator, stackVars, vars>>

MemorySpec == MemoryInit /\ [][MemoryNext]_memoryVars
=============================================================================
