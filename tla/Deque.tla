------------------------------- MODULE Deque --------------------------------
(***************************************************************************)
(* BI_IDequeAsVector: a deque of pointers to objects in a ring of          *)
(* MaxItems + 1 slots (deques.h), which may own what it holds (shddel.h).  *)
(* A slot that was got keeps its pointer.  Queue is this class, put being  *)
(* putLeft and get being getRight.                                         *)
(*                                                                         *)
(* Clients put objects they hold or create, each in one place only, and    *)
(* have back what a get returns and what a flush that deletes nothing      *)
(* leaves; they respect the PRECONDITIONs.                                 *)
(***************************************************************************)
EXTENDS Integers, Sequences

CONSTANTS
  Objects,     \* the objects there may be
  MaxItems,    \* the constructor's argument, max
  Null         \* the null pointer

ASSUME DequeAssumption ==
  /\ MaxItems \in Nat
  /\ Null \notin Objects

VARIABLES
  data,        \* the slots of the vector
  left,        \* the slot of the leftmost object, if there is one
  right,       \* the slot after that of the rightmost
  owns,        \* TShouldDelete::shouldDelete = Delete
  alive,       \* the objects that exist
  held,        \* those that clients must see to
  got          \* what the latest get returned

vars == <<data, left, right, owns, alive, held, got>>

(* data.limit() *)
limit == MaxItems + 1

prev(index) == IF index = 0 THEN limit - 1 ELSE index - 1

next(index) == IF index + 1 = limit THEN 0 ELSE index + 1

isFull == right = prev(left)

isEmpty == right = left

getItemsInContainer ==
  IF right >= left THEN right - left ELSE limit - (left - right)

(* The slot of the i-th object from the left, and the objects in order. *)
Slot(i) == IF left + i <= limit THEN left + i - 1 ELSE left + i - 1 - limit

Contents == [i \in 1 .. getItemsInContainer |-> data[Slot(i)]]

InDeque == {Contents[i] : i \in 1 .. getItemsInContainer}

-----------------------------------------------------------------------------
Init ==
  /\ data = [s \in 0 .. limit - 1 |-> Null]
  /\ left = 0
  /\ right = 0
  /\ owns = TRUE
  /\ alive = {}
  /\ held = {}
  /\ got = Null

(* A client's object, or a new one, goes into the deque. *)
Gives(o) ==
  /\ o \in held \/ o \notin alive
  /\ alive' = alive \cup {o}
  /\ held' = held \ {o}
  /\ UNCHANGED <<owns, got>>

putLeft(o) ==
  /\ ~isFull
  /\ left' = prev(left)
  /\ data' = [data EXCEPT ![prev(left)] = o]
  /\ Gives(o)
  /\ UNCHANGED right

putRight(o) ==
  /\ ~isFull
  /\ data' = [data EXCEPT ![right] = o]
  /\ right' = next(right)
  /\ Gives(o)
  /\ UNCHANGED left

(* A client has the object of a slot. *)
Takes(s) ==
  /\ got' = data[s]
  /\ held' = held \cup {data[s]}
  /\ UNCHANGED <<data, owns, alive>>

getLeft ==
  /\ ~isEmpty
  /\ Takes(left)
  /\ left' = next(left)
  /\ UNCHANGED right

(* Mutant: reads the slot before it steps back to it. *)
getRightLate ==
  /\ ~isEmpty
  /\ Takes(right)
  /\ right' = prev(right)
  /\ UNCHANGED left

getRight ==
  /\ ~isEmpty
  /\ Takes(prev(right))
  /\ right' = prev(right)
  /\ UNCHANGED left

DeleteTypes == {"NoDelete", "DefDelete", "Delete"}

delObj(dt) == dt = "Delete" \/ (dt = "DefDelete" /\ owns)

(* Mutant: all slots but the first, used or not. *)
FlushedAll == 1 .. limit - 1

(* The slots whose objects flush deletes and which it zeroes: when the deque
   wraps, not the leftmost object's. *)
Flushed ==
  IF left <= right THEN left .. right - 1
  ELSE (left + 1 .. limit - 1) \cup (0 .. right - 1)

flush(dt) ==
  /\ IF delObj(dt)
     THEN /\ alive' = alive \ {data[s] : s \in Flushed}
          /\ data' = [s \in 0 .. limit - 1 |->
                        IF s \in Flushed THEN Null ELSE data[s]]
          /\ UNCHANGED held
     ELSE /\ held' = held \cup InDeque
          /\ UNCHANGED <<alive, data>>
  /\ left' = 0
  /\ right' = 0
  /\ UNCHANGED <<owns, got>>

ownsElements(del) ==
  /\ owns' = del
  /\ UNCHANGED <<data, left, right, alive, held, got>>

(* A client deletes an object of its own. *)
ClientDeletes(o) ==
  /\ o \in held
  /\ alive' = alive \ {o}
  /\ held' = held \ {o}
  /\ UNCHANGED <<data, left, right, owns, got>>

Next ==
  \/ \E o \in Objects : putLeft(o)
  \/ \E o \in Objects : putRight(o)
  \/ getLeft
  \/ getRight
  \/ \E dt \in DeleteTypes : flush(dt)
  \/ \E del \in BOOLEAN : ownsElements(del)
  \/ \E o \in Objects : ClientDeletes(o)

Spec == Init /\ [][Next]_vars

-----------------------------------------------------------------------------
TypeOK ==
  /\ data \in [0 .. limit - 1 -> Objects \cup {Null}]
  /\ left \in 0 .. limit - 1
  /\ right \in 0 .. limit - 1
  /\ owns \in BOOLEAN
  /\ alive \subseteq Objects
  /\ held \subseteq Objects
  /\ got \in Objects \cup {Null}

(* Nothing that a client or the deque still has is ever deleted, and nothing
   is in two places: no get hands out a slot twice and no flush deletes what
   the stale slots of the ring still point to. *)
NoneDangling ==
  /\ held \subseteq alive
  /\ InDeque \subseteq alive \ held
  /\ \A i, j \in 1 .. getItemsInContainer : Contents[i] = Contents[j] => i = j

(* The ring behaves as a sequence with two ends: every put, get and flush of
   the code is the put, get and flush of DequeSpec. *)
Promise == INSTANCE DequeSpec WITH items <- Contents

IsDeque == Promise!Spec
=============================================================================
