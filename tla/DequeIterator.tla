--------------------------- MODULE DequeIterator ----------------------------
(***************************************************************************)
(* A walk over a Deque as Container's forEach, isEqual and printOn make    *)
(* it: while( iterator != 0 ) ... iterator++.  BI_IDequeAsVectorIterator   *)
(* goes through the ring in two blocks of slots, each with the iterator of *)
(* BI_IVectorImp, which passes over null slots.  Nobody changes the deque  *)
(* during a walk.                                                          *)
(***************************************************************************)
EXTENDS Deque, SequencesExt

VARIABLES
  it,          \* the iterator: its copy of left and right, the slots cur ..
               \* upper - 1 of its block it has still to visit, and second
  walking,     \* there is an iterator
  seen         \* the objects it has returned

walkVars == <<it, walking, seen>>

(* BI_IVectorIteratorImp::operator int() *)
more(iter) == iter.cur < iter.upper

(* BI_IVectorIteratorImp::bump() *)
bump(iter) ==
  LET filled == {s \in iter.cur .. iter.upper - 1 : data[s] # Null}
  IN  [iter EXCEPT !.cur = IF filled = {} THEN iter.upper
                           ELSE CHOOSE s \in filled : \A t \in filled : s <= t]

(* BI_IVectorIteratorImp::restart( start, stop ) *)
restartBlock(iter, start, stop) ==
  bump([iter EXCEPT !.cur = start, !.upper = stop])

(* Mutant: the block ends before the rightmost object. *)
restartShort(iter) ==
  [restartBlock(iter, iter.left, prev(iter.right)) EXCEPT !.second = FALSE]

(* restart(): when the ring is wrapped, the slots below left come first. *)
restart(iter) ==
  [(IF iter.left <= iter.right THEN restartBlock(iter, iter.left, iter.right)
    ELSE restartBlock(iter, 0, iter.left)) EXCEPT !.second = FALSE]

nextBlock(iter) ==
  IF ~more(iter) /\ ~iter.second /\ iter.left > iter.right
  THEN [restartBlock(iter, iter.right, limit) EXCEPT !.second = TRUE]
  ELSE iter

NoIterator == [left |-> 0, right |-> 0, cur |-> 0, upper |-> 0, second |-> FALSE]

WalkInit ==
  /\ Init
  /\ it = NoIterator
  /\ walking = FALSE
  /\ seen = << >>

(* initIterator() *)
StartWalk ==
  /\ ~walking
  /\ walking' = TRUE
  /\ it' = restart([NoIterator EXCEPT !.left = left, !.right = right])
  /\ seen' = << >>
  /\ UNCHANGED vars

(* iterator++: nextBlock(), then the next slot of the block. *)
Advance ==
  /\ walking
  /\ more(it)
  /\ LET iter == nextBlock(it)
     IN  /\ seen' = Append(seen, data[iter.cur])
         /\ it' = bump([iter EXCEPT !.cur = @ + 1])
  /\ UNCHANGED <<walking, data, left, right, owns, alive, held, got>>

(* The loop ends; the iterator is deleted. *)
EndWalk ==
  /\ walking
  /\ ~more(it)
  /\ walking' = FALSE
  /\ it' = NoIterator
  /\ seen' = << >>
  /\ UNCHANGED vars

WalkNext ==
  \/ ~walking /\ Next /\ UNCHANGED walkVars
  \/ StartWalk
  \/ Advance
  \/ EndWalk

WalkSpec == WalkInit /\ [][WalkNext]_<<vars, walkVars>>

-----------------------------------------------------------------------------
(* While the objects of the deque do not wrap around the end of the ring, a
   walk visits just them, from left to right, however stale or empty the slots
   around them are (restart, operator ++). *)
WalksUnwrapped ==
  walking /\ left <= right =>
    /\ IsPrefix(seen, Contents)
    /\ ~more(it) => seen = Contents
=============================================================================
