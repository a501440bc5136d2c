----------------------------- MODULE DequeSpec ------------------------------
(***************************************************************************)
(* What a deque with room for MaxItems objects promises: a sequence with   *)
(* two ends.  A put to a full deque and a get from an empty one are        *)
(* against its preconditions and do not happen.                            *)
(***************************************************************************)
EXTENDS Integers, Sequences

CONSTANTS
  Objects,     \* what a deque may hold
  MaxItems,    \* how many of them
  Null

VARIABLES
  items,       \* the deque, from its left end to its right end
  got          \* what the latest get returned, Null before the first

vars == <<items, got>>

Init ==
  /\ items = << >>
  /\ got = Null

PutLeft(o) ==
  /\ Len(items) < MaxItems
  /\ items' = <<o>> \o items
  /\ UNCHANGED got

PutRight(o) ==
  /\ Len(items) < MaxItems
  /\ items' = Append(items, o)
  /\ UNCHANGED got

GetLeft ==
  /\ items # << >>
  /\ got' = Head(items)
  /\ items' = Tail(items)

GetRight ==
  /\ items # << >>
  /\ got' = items[Len(items)]
  /\ items' = SubSeq(items, 1, Len(items) - 1)

Flush ==
  /\ items' = << >>
  /\ UNCHANGED got

Next ==
  \/ \E o \in Objects : PutLeft(o) \/ PutRight(o)
  \/ GetLeft
  \/ GetRight
  \/ Flush

Spec == Init /\ [][Next]_vars
=============================================================================
