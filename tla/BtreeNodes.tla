----------------------------- MODULE BtreeNodes -----------------------------
(***************************************************************************)
(* The nodes of classlib's B-tree (btree.h, btreeinn.cpp, btreelfn.cpp,    *)
(* btree.cpp): a heap of leaf and inner nodes and the primitives that move *)
(* items between siblings, split, merge and look up.  A tree is a record   *)
(*   node  : the heap, a function from addresses to nodes                  *)
(*             [leaf, parent, item]                                        *)
(*   root  : address of the root, Null for an empty tree                   *)
(*   count : itemsInContainer                                              *)
(*   ok    : no PRECONDITION or CHECK has failed so far.                   *)
(* item is the node's array from index 0: objects in a leaf, records       *)
(* [key, tree, n] in an inner node, n being nofKeysInTree.  Index i of the *)
(* code is position i+1, and `last' is Len(item) - 1.  The key at index 0  *)
(* of an inner node is the hidden one.                                     *)
(***************************************************************************)
EXTENDS Integers, FiniteSets, SequencesExt

CONSTANTS
  Order,      \* the order of the tree
  KeyOf(_)    \* what the comparison operators of an object compare

Null == 0

(* Btree::finishInit.  The comment on it (btree.cpp:59) gives inner nodes a low
   water mark of ceiling(Order / 2); the code sets a lower one, 1 for order 3. *)
Leaf_MaxIndex == 2 * (Order + 1) - 1
Inner_MaxIndex == Order
Leaf_LowWaterMark == ((Leaf_MaxIndex + 1) - 1) \div 2 - 1
Inner_LowWaterMark == (Order - 1) \div 2

EmptyTree == [node |-> << >>, root |-> Null, count |-> 0, ok |-> TRUE]

-----------------------------------------------------------------------------
(* Reading a node. *)
isLeaf(T, x) == T.node[x].leaf
parent(T, x) == T.node[x].parent
item(T, x) == T.node[x].item
last(T, x) == Len(item(T, x)) - 1
getItem(T, x, i) == item(T, x)[i + 1]
getTree(T, x, i) == getItem(T, x, i).tree
getKey(T, x, i) == getItem(T, x, i).key
getNofKeys(T, x, i) == getItem(T, x, i).n

indexOf(T, x, kid) == CHOOSE i \in 0 .. last(T, x) : getTree(T, x, i) = kid

Psize(T, x) == IF isLeaf(T, x) THEN last(T, x) + 1 ELSE last(T, x)
Vsize(T, x) == Psize(T, x) + 1
maxIndex(T, x) == IF isLeaf(T, x) THEN Leaf_MaxIndex ELSE Inner_MaxIndex
maxPsize(T, x) == IF isLeaf(T, x) THEN Leaf_MaxIndex + 1 ELSE Inner_MaxIndex
isFullNode(T, x) == last(T, x) = maxIndex(T, x)

(* Mutant: a node that the next item fills counts as having room. *)
AlmostFullLate(T, x) == last(T, x) >= maxIndex(T, x)

isAlmostFull(T, x) == last(T, x) >= maxIndex(T, x) - 1
isLowNode(T, x) ==
  last(T, x) < IF isLeaf(T, x) THEN Leaf_LowWaterMark ELSE Inner_LowWaterMark

(* PRECONDITION of Vsize. *)
HasLeft(T, x) == parent(T, x) # Null /\ getTree(T, parent(T, x), 0) # x

(* # keys in or below this node, by the counts its items carry. *)
nofKeys(T, x) ==
  IF isLeaf(T, x)
  THEN Psize(T, x)
  ELSE FoldLeft(LAMBDA sum, it : sum + it.n, Psize(T, x), item(T, x))

-----------------------------------------------------------------------------
(* Writing a node. *)
SetItems(T, x, s) == [T EXCEPT !.node[x].item = s]
setKey(T, x, i, k) == [T EXCEPT !.node[x].item[i + 1].key = k]
setNofKeys(T, x, i, n) == [T EXCEPT !.node[x].item[i + 1].n = n]
incNofKeys(T, x, i, n) == [T EXCEPT !.node[x].item[i + 1].n = @ + n]

(* setItem makes the node the parent of the subtree it stores. *)
Adopt(T, x, kids) ==
  [T EXCEPT !.node = [y \in DOMAIN @ |->
     IF y \in kids THEN [@[y] EXCEPT !.parent = x] ELSE @[y]]]

TreesIn(items) == {items[i].tree : i \in DOMAIN items}

(* The next step of an operation, unless a check has ended the program. *)
Then(T, step(_)) == IF T.ok THEN step(T) ELSE T

(* The rest of an operation after PRECONDITION or CHECK; the first one that
   fails ends the program. *)
Checked(T, condition, rest) ==
  IF ~T.ok THEN T
  ELSE IF condition THEN rest
  ELSE [T EXCEPT !.ok = FALSE]

Fresh(T) ==
  CHOOSE a \in 1 .. Cardinality(DOMAIN T.node) + 1 : a \notin DOMAIN T.node

NewNode(T, leaf, up, items) ==
  [T EXCEPT !.node = [y \in DOMAIN @ \cup {Fresh(T)} |->
     IF y = Fresh(T) THEN [leaf |-> leaf, parent |-> up, item |-> items]
     ELSE @[y]]]

(* Mutant: merged nodes and old roots stay in the heap. *)
DeleteNone(T, x) == T

Delete(T, x) ==
  [T EXCEPT !.node = [y \in DOMAIN @ \ {x} |-> @[y]]]

(* Mutant: the parent's count of the node the items went to is forgotten. *)
RecountOne(T, up, p) == setNofKeys(T, up, p - 1, nofKeys(T, getTree(T, up, p - 1)))

(* Both counts of the parent after items moved across index p. *)
Recount(T, up, p) ==
  setNofKeys(setNofKeys(T, up, p - 1, nofKeys(T, getTree(T, up, p - 1))),
             up, p, nofKeys(T, getTree(T, up, p)))

(* InnerNode::addElt, the Item built by its constructor. *)
addElt(T, x, at, k, kid) ==
  Checked(T, 0 <= at /\ at <= last(T, x) + 1 /\ last(T, x) < maxIndex(T, x),
    Adopt(SetItems(T, x, InsertAt(item(T, x), at + 1,
            [key |-> k, tree |-> kid, n |-> nofKeys(T, kid) + 1])),
          x, {kid}))

(* InnerNode::append of an item with its count. *)
append(T, x, it) ==
  Checked(T, last(T, x) < maxIndex(T, x),
    Adopt(SetItems(T, x, Append(item(T, x), it)), x, {it.tree}))

-----------------------------------------------------------------------------
(* Moving k items into the left sibling l: through the parent's key at p. *)
LeafPushLeft(T, x, k, l, p) ==
  LET up == parent(T, x)
      here == item(T, x)
  IN  Checked(T, /\ k > 0 /\ k <= Psize(T, x)
                 /\ k + Psize(T, l) < maxPsize(T, x)
                 /\ getTree(T, up, p) = x,
        Recount([T EXCEPT
                   !.node[l].item = @ \o <<getKey(T, up, p)>> \o SubSeq(here, 1, k - 1),
                   !.node[up].item[p + 1].key = here[k],
                   !.node[x].item = SubSeq(here, k + 1, Len(here))],
                up, p))

(* Mutant: the hidden key of x is taken as it is. *)
InnerPushLeftStale(T, x, k, l, p) ==
  LET up == parent(T, x)
      here == item(T, x)
      moved == SubSeq(here, 1, k)
  IN  Checked(T, /\ getTree(T, up, p) = x
                 /\ k > 0 /\ k <= Psize(T, x)
                 /\ k + Psize(T, l) < maxPsize(T, x),
        Recount([Adopt(T, l, TreesIn(moved)) EXCEPT
                   !.node[l].item = @ \o moved,
                   !.node[up].item[p + 1].key = here[k + 1].key,
                   !.node[x].item = SubSeq(here, k + 1, Len(here))],
                up, p))

InnerPushLeft(T, x, k, l, p) ==
  LET up == parent(T, x)
      here == [item(T, x) EXCEPT ![1].key = getKey(T, up, p)]
      moved == SubSeq(here, 1, k)
  IN  Checked(T, /\ getTree(T, up, p) = x
                 /\ k > 0 /\ k <= Psize(T, x)
                 /\ k + Psize(T, l) < maxPsize(T, x),
        Recount([Adopt(T, l, TreesIn(moved)) EXCEPT
                   !.node[l].item = @ \o moved,
                   !.node[up].item[p + 1].key = here[k + 1].key,
                   !.node[x].item = SubSeq(here, k + 1, Len(here))],
                up, p))

pushLeft(T, x, k, l, p) ==
  Then(T, LAMBDA t : IF isLeaf(t, x) THEN LeafPushLeft(t, x, k, l, p)
                                     ELSE InnerPushLeft(t, x, k, l, p))

(* Moving k items into the right sibling r. *)
LeafPushRight(T, x, k, r, p) ==
  LET up == parent(T, x)
      here == item(T, x)
      start == Len(here) - k + 1
  IN  Checked(T, /\ k > 0 /\ k <= Psize(T, x)
                 /\ k + Psize(T, r) < maxPsize(T, x)
                 /\ getTree(T, up, p) = r,
        Recount([T EXCEPT
                   !.node[r].item =
                     SubSeq(here, start + 1, Len(here)) \o <<getKey(T, up, p)>> \o @,
                   !.node[up].item[p + 1].key = here[start],
                   !.node[x].item = SubSeq(here, 1, start - 1)],
                up, p))

InnerPushRight(T, x, k, r, p) ==
  LET up == parent(T, x)
      here == item(T, x)
      start == Len(here) - k + 1
      moved == SubSeq(here, start, Len(here))
      there == [item(T, r) EXCEPT ![1].key = getKey(T, up, p)]
  IN  Checked(T, /\ k > 0 /\ k <= Psize(T, x)
                 /\ k + Psize(T, r) < maxPsize(T, r)
                 /\ getTree(T, up, p) = r,
        Recount([Adopt(T, r, TreesIn(moved)) EXCEPT
                   !.node[r].item = moved \o there,
                   !.node[up].item[p + 1].key = here[start].key,
                   !.node[x].item = SubSeq(here, 1, start - 1)],
                up, p))

pushRight(T, x, k, r, p) ==
  Then(T, LAMBDA t : IF isLeaf(t, x) THEN LeafPushRight(t, x, k, r, p)
                                     ELSE InnerPushRight(t, x, k, r, p))

-----------------------------------------------------------------------------
(* Evening out two siblings; x has more than the other. *)
balanceWithLeft(T, x, l, p) ==
  LET size == (Vsize(T, x) + Psize(T, l)) \div 2
  IN  Checked(T, HasLeft(T, x) /\ Vsize(T, x) >= Psize(T, l),
        pushLeft(T, x, Psize(T, x) - size, l, p))

balanceWithRight(T, x, r, p) ==
  LET size == (Psize(T, x) + Vsize(T, r)) \div 2
  IN  Checked(T, HasLeft(T, r) /\ Psize(T, x) >= Vsize(T, r),
        pushRight(T, x, Psize(T, x) - size, r, p))

balanceWith(T, x, r, p) ==
  Checked(T, HasLeft(T, r),
    IF Psize(T, x) < Vsize(T, r)
    THEN balanceWithLeft(T, r, x, p)
    ELSE balanceWithRight(T, x, r, p))
=============================================================================
