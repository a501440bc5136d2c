------------------------------- MODULE Btree --------------------------------
(***************************************************************************)
(* classlib's Btree used as a sorted set: add, detach and flush in any     *)
(* order, every object different.  Only the order of the objects matters   *)
(* to the code, so the n objects of the tree are named 1 .. n in sorted    *)
(* order, and renamed when one comes or goes: a state is a shape of the    *)
(* tree.  Searches may also ask for keys between and around the objects:   *)
(* object o has key 2*o, the odd keys are absent.                          *)
(***************************************************************************)
EXTENDS Integers, FiniteSets, SequencesExt

CONSTANTS
  Orders,       \* orders of trees clients construct
  MixedOrders,  \* those in which clients add and detach anywhere, in any order
  MaxMixed,     \* bound on the number of objects there
  MaxObjects    \* bound on the number of objects elsewhere

ASSUME OrderAssumption ==
  /\ \A o \in Orders : o \in Nat /\ o >= 3     \* Btree::finishInit
  /\ MixedOrders \subseteq Orders
  /\ MaxMixed \in Nat /\ MaxObjects \in Nat

VARIABLES
  order,       \* the order of the tree, the constructor's argument
  tree,        \* the Btree
  n,           \* the objects added and not detached are 1 .. n
  filling,     \* clients add, until the tree is at its bound, or they detach,
               \* until there are none; at "any" they do both at any time
  at           \* the place they do it: "any", "first", "middle" or "last"

vars == <<order, tree, n, filling, at>>

KeyOfObject(obj) == 2 * obj

INSTANCE BtreeShape WITH KeyOf <- KeyOfObject, Order <- order

(* Renaming objects: a node's pointers are the same objects as before.  Null
   stays Null. *)
Renamed(T, new(_)) ==
  LET name(o) == IF o = Null THEN Null ELSE new(o)
      renamed(node) ==
        [node EXCEPT !.item =
           [i \in DOMAIN @ |->
              IF node.leaf THEN name(@[i]) ELSE [@[i] EXCEPT !.key = name(@)]]]
  IN  [T EXCEPT !.node = [x \in DOMAIN @ |-> renamed(@[x])]]

(* The places among m that are `at'. *)
Places(m) ==
  {r \in 1 .. m : \/ at = "any"
                  \/ at = "first" /\ r = 1
                  \/ at = "middle" /\ r = (m + 1) \div 2
                  \/ at = "last" /\ r = m}

Ends == {"first", "middle", "last"}
Bound == IF at = "any" THEN MaxMixed ELSE MaxObjects

(* The clients turn to filling (f) or emptying, at some place. *)
Turn(f) ==
  /\ at' \in (IF at = "any" THEN {"any"} ELSE Ends)
  /\ filling' = (f \/ at = "any")

Init ==
  /\ order \in Orders
  /\ tree = EmptyTree
  /\ n = 0
  /\ filling = TRUE
  /\ at \in Ends \cup (IF order \in MixedOrders THEN {"any"} ELSE {})

(* Btree::add of an object that becomes the r-th. *)
Add(r) ==
  /\ tree.ok
  /\ filling
  /\ n < Bound
  /\ tree' = add(Renamed(tree, LAMBDA o : IF o >= r THEN o + 1 ELSE o), r)
  /\ n' = n + 1
  /\ IF n' = Bound THEN Turn(FALSE) ELSE UNCHANGED <<filling, at>>
  /\ UNCHANGED order

(* Btree::detach of the r-th object; a key the hidden items still hold of it
   is a pointer to an object that is gone. *)
Detach(r) ==
  /\ tree.ok
  /\ ~filling \/ at = "any"
  /\ tree' = Renamed(detach(tree, KeyOfObject(r)),
               LAMBDA o : CASE o < r -> o [] o = r -> Null [] o > r -> o - 1)
  /\ n' = n - 1
  /\ IF n' = 0 THEN Turn(TRUE) ELSE UNCHANGED <<filling, at>>
  /\ UNCHANGED order

(* Btree::detach of an object the tree does not hold. *)
DetachAbsent(r) ==
  /\ tree.ok
  /\ tree' = detach(tree, KeyOfObject(r) - 1)
  /\ UNCHANGED <<order, n, filling, at>>

Flush ==
  /\ tree.ok
  /\ tree' = flush(tree)
  /\ n' = 0
  /\ Turn(TRUE)
  /\ UNCHANGED order

Next ==
  \/ \E r \in Places(n + 1) : Add(r)
  \/ \E r \in Places(n) : Detach(r)
  \/ \E r \in Places(n + 1) : DetachAbsent(r)
  \/ Flush

Spec == Init /\ [][Next]_vars

-----------------------------------------------------------------------------
TypeOK ==
  /\ order \in Orders /\ n \in 0 .. Bound
  /\ filling \in BOOLEAN /\ at \in Ends \cup {"any"}
  /\ IsTree(tree, 1 .. n)

(* The tree holds exactly the objects added and not detached, each once, in
   order: no split, merge or rotation loses, repeats or misplaces one, and no
   key is a pointer to an object that is gone (add, detach). *)
HoldsItsObjects == Contents(tree) = [i \in 1 .. n |-> i]

(* Every node is reached by one item, its parent pointer names the node of
   that item, and no node is lost (setItem, setTree, rootIsEmpty). *)
Linked == IsLinked(tree)

(* nofKeysInTree of every item is the number of objects below it, and
   itemsInContainer the number in the tree (incNofKeys, setNofKeys). *)
Counted == IsCounted(tree) /\ tree.count = n

(* Between operations no node is full, none but the root is low, and all the
   leaves are at the same depth (isFull, isLow): btree.cpp i), ii), vi)-viii),
   and iv), v) with the marks the code sets, not the higher one btree.cpp:59
   gives inner nodes. *)
Balanced == IsBalanced(tree)

(* No PRECONDITION and no CHECK of the B-tree ever fails. *)
ChecksHold == tree.ok

(* operator[] finds the object of every rank, rank the rank of every object,
   the search for an absent key misses, and i_add returns the rank a new object
   will have (operator[], findRank, found, findRank_bu). *)
RanksAgree ==
  tree.root # Null =>
    /\ \A r \in 1 .. n :
         /\ ElementAt(tree, tree.root, r - 1) = r
         /\ findRank(tree, tree.root, KeyOfObject(r)) = r - 1
         /\ LET loc == found(tree, tree.root, KeyOfObject(r))
            IN  loc.hit /\ ObjectAt(tree, loc) = r
    /\ \A r \in 0 .. n :
         /\ ~found(tree, tree.root, KeyOfObject(r) + 1).hit
         /\ insertionRank(tree, KeyOfObject(r) + 1) = r

(* Between operations: every node is reached by one item, which its parent
   pointer names, and no node is lost (setItem, setTree, rootIsEmpty); the counts
   of the items and of the tree are right (incNofKeys, setNofKeys); no node is
   full, none but the root is below the marks the code sets, and the leaves are
   at one depth (isFull, isLow, btree.cpp i), ii), vi)-viii)); and no PRECONDITION
   or CHECK ever failed. *)
WellFormed == Linked /\ Counted /\ Balanced /\ ChecksHold

(* The view of a state: all of it but the addresses of the nodes. *)
AddressFree == <<order, n, filling, at, Shape(tree, [o \in 0 .. n |-> o])>>
=============================================================================
