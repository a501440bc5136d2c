--------------------------- MODULE PriorityQueue ----------------------------
(***************************************************************************)
(* classlib's PriorityQueue (priortyq.h), a Btree in which many objects    *)
(* may have the same priority, that is compare equal.  The tree finds an   *)
(* object by its priority only: get() and detachLeft() read tree[0] and    *)
(* then detach what the search for it meets first.                         *)
(***************************************************************************)
EXTENDS Integers, FiniteSets, SequencesExt

CONSTANTS
  Order,       \* the order of the tree, by default 3
  Priorities,  \* the priorities are 1 .. Priorities, 1 the first to come out
  MaxObjects   \* bound on the number of objects in the queue

ASSUME QueueAssumption ==
  /\ Order \in Nat /\ Order >= 3
  /\ Priorities \in Nat \ {0}
  /\ MaxObjects \in Nat

VARIABLES
  tree,        \* the Btree of the queue
  owed,        \* how many objects of a priority were put and not got or removed
  given        \* the objects in the tree that get has returned

vars == <<tree, owed, given>>

(* The objects are numbers, their priorities take turns. *)
PriorityOf(obj) == 1 + (obj % Priorities)

INSTANCE BtreeShape WITH KeyOf <- PriorityOf

Objects == 1 .. Priorities * (MaxObjects + 1)

Held(T) == ToSet(Contents(T))

Init ==
  /\ tree = EmptyTree
  /\ owed = [p \in 1 .. Priorities |-> 0]
  /\ given = {}

(* put: a new object of priority p. *)
Put(p) ==
  LET unused == {obj \in Objects \ Held(tree) : PriorityOf(obj) = p}
      obj == CHOOSE o \in unused : \A other \in unused : o <= other
  IN  /\ tree.ok
      /\ tree.count < MaxObjects
      /\ tree' = add(tree, obj)
      /\ owed' = [owed EXCEPT ![p] = @ + 1]
      /\ UNCHANGED given

(* get: the client has what was tree[0]. *)
Get ==
  /\ tree.ok
  /\ tree.count > 0
  /\ LET obj == ElementAt(tree, tree.root, 0)
     IN  /\ tree' = detach(tree, PriorityOf(obj))
         /\ owed' = [owed EXCEPT ![PriorityOf(obj)] = @ - 1]
         /\ given' = (given \cup {obj}) \cap Held(tree')

(* detachLeft: an object equal to tree[0] leaves the tree. *)
DetachLeft ==
  /\ tree.ok
  /\ tree.count > 0
  /\ LET obj == ElementAt(tree, tree.root, 0)
     IN  /\ tree' = detach(tree, PriorityOf(obj))
         /\ owed' = [owed EXCEPT ![PriorityOf(obj)] = @ - 1]
         /\ given' = given \cap Held(tree')

Flush ==
  /\ tree.ok
  /\ tree' = flush(tree)
  /\ owed' = [p \in 1 .. Priorities |-> 0]
  /\ given' = {}

Next == \/ \E p \in 1 .. Priorities : Put(p)
        \/ Get
        \/ DetachLeft
        \/ Flush

Spec == Init /\ [][Next]_vars

-----------------------------------------------------------------------------
TypeOK ==
  /\ IsTree(tree, Objects)
  /\ owed \in [1 .. Priorities -> 0 .. MaxObjects]
  /\ given \subseteq Held(tree)

(* The tree keeps its shape, its links and its counts when objects compare
   equal, and none of its checks fails (Btree::add, Btree::detach).  The least
   an inner node may hold is the code's mark: see BtreeShape. *)
WellFormed ==
  IsLinked(tree) /\ IsCounted(tree) /\ IsBalanced(tree) /\ tree.ok

(* btree.cpp ix): keys before an item's are not greater, keys after it not
   smaller; so tree[0] is of the first priority there is. *)
InOrderOfPriority ==
  \A i \in 1 .. Len(Contents(tree)) - 1 :
    PriorityOf(Contents(tree)[i]) <= PriorityOf(Contents(tree)[i + 1])

(* Whatever object get and detachLeft remove, it has the priority they are
   asked for: the tree has as many objects of a priority as were put and not
   yet come out. *)
PrioritiesKept ==
  \A p \in 1 .. Priorities :
    owed[p] =
      Len(SelectSeq(Contents(tree), LAMBDA obj : PriorityOf(obj) = p))

(* The CHECK at the end of i_add: the object at the index it returns is equal
   to the one it added. *)
AddedAtItsIndex ==
  tree.ok => \A p \in 1 .. Priorities :
    LET after == add(tree, CHOOSE o \in Objects : PriorityOf(o) = p)
        r == insertionRank(tree, p)
    IN  \/ r = findRank(after, after.root, p)
        \/ PriorityOf(ElementAt(after, after.root, r)) = p

(* classlib.doc: get "Detaches the smallest object from the priority queue and
   returns it": what it returned is no longer in the queue. *)
GetDetachesWhatItReturns == given = {}

(* The view of a state: an object is its priority, and for the last property
   also whether it was given.  Nothing else reads given. *)
ByPriority ==
  <<owed, Shape(tree, [o \in Objects \cup {Null} |-> IF o = Null THEN 0 ELSE PriorityOf(o)])>>

ByPriorityGiven ==
  <<owed, Shape(tree, [o \in Objects \cup {Null} |->
                         IF o = Null THEN <<0, FALSE>>
                         ELSE <<PriorityOf(o), o \in given>>])>>
=============================================================================
