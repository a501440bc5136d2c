------------------------------ MODULE BtreeOps ------------------------------
(***************************************************************************)
(* Splitting, merging, lookup, insertion and removal in classlib's B-tree: *)
(* the operations that walk the tree.  What overflows or underflows is     *)
(* repaired from the leaf up, each repair possibly handing the next to its *)
(* parent, until the root grows or shrinks.                                *)
(***************************************************************************)
EXTENDS BtreeNodes

(* The sizes splitWith gives the three nodes it leaves. *)
Thirds(T, x, r) ==
  LET all == Psize(T, x) + Vsize(T, r)
      this == all \div 3
      new == (all - this) \div 2
  IN  [fromThis |-> Psize(T, x) - this,
       fromSib |-> Vsize(T, r) - (all - this - new)]

(* LeafNode::splitWith, up to its last test: a new node between x and its
   right sibling r, at index p of the parent. *)
LeafSplitWith(T, x, r, p) ==
  LET up == parent(T, x)
      part == Thirds(T, x, r)
      new == Fresh(T)
      begun == SetItems(addElt(NewNode(T, TRUE, up, << >>), up, p,
                               Last(item(T, x)), new),
                        x, Front(item(T, x)))
      counted == incNofKeys(setNofKeys(begun, up, p, 0), up, p - 1, -1)
  IN  Checked(T, /\ parent(T, r) = up /\ p > 0 /\ p <= last(T, up)
                 /\ HasLeft(T, r)
                 /\ part.fromThis >= 0 /\ part.fromSib >= 1,
        pushLeft(pushRight(counted, x, part.fromThis - 1, new, p),
                 r, part.fromSib, new, p + 1))

(* The two cases of InnerNode::splitWith: x gives its last item and then k - 1
   more to the new node, or, having none to give, r its first subtree. *)
SplitFromLeft(T, x, new, p, k) ==
  LET up == parent(T, x)
      end == Last(item(T, x))
      begun == SetItems(addElt(append(T, new, end), up, p, end.key, new),
                        x, Front(item(T, x)))
  IN  IF k > 2 THEN pushRight(begun, x, k - 1, new, p) ELSE begun

SplitFromRight(T, r, new, p) ==
  LET up == parent(T, r)
      here == item(T, r)
  IN  [Adopt(addElt(append(T, new, here[1]), up, p + 1, here[2].key, r), up, {new})
         EXCEPT !.node[up].item[p + 1].tree = new, !.node[r].item = Tail(here)]

(* InnerNode::splitWith, up to its last test. *)
InnerSplitWith(T, x, r, p) ==
  LET up == parent(T, x)
      part == Thirds(T, x, r)
      new == Fresh(T)
      begun(t) ==
        IF part.fromThis > 0
        THEN pushLeft(SplitFromLeft(t, x, new, p, part.fromThis),
                      r, part.fromSib, new, p + 1)
        ELSE pushLeft(SplitFromRight(t, r, new, p),
                      r, part.fromSib - 1, new, p + 1)
  IN  Checked(T, /\ p > 0 /\ p <= last(T, up) /\ HasLeft(T, r)
                 /\ part.fromThis >= 0 /\ part.fromSib >= 1,
        Then(begun(NewNode(setKey(T, r, 0, getKey(T, up, p)), FALSE, up, << >>)),
             LAMBDA t : Recount(Recount(t, up, p), up, p + 1)))

(* split: the old root x, only child of the new root, gives its last item
   and then half of the rest to a new sibling. *)
LeafSplit(T, x) ==
  LET up == parent(T, x)
      new == Fresh(T)
      end == Last(item(T, x))
  IN  balanceWithRight(
        Recount(SetItems(append(NewNode(T, TRUE, up, << >>), up,
                                [key |-> end, tree |-> new, n |-> 0]),
                         x, Front(item(T, x))),
                up, 1),
        x, new, 1)

InnerSplit(T, x) ==
  LET up == parent(T, x)
      new == Fresh(T)
      end == Last(item(T, x))
      grown == append(append(NewNode(T, FALSE, up, << >>), up,
                             [key |-> end.key, tree |-> new, n |-> 0]),
                      new, end)
      shrunk == SetItems(grown, x, Front(item(T, x)))
  IN  balanceWithRight(incNofKeys(incNofKeys(shrunk, up, 1, end.n), up, 0, -end.n),
                       x, new, 1)

(* Btree::rootIsFull: a new root above the old one, which is then split. *)
rootIsFull(T) ==
  LET old == T.root
      new == Fresh(T)
      grown == [append(NewNode(T, FALSE, Null, << >>), new,
                       [key |-> Null, tree |-> old, n |-> 0]) EXCEPT !.root = new]
  IN  Then(grown, LAMBDA t : IF isLeaf(t, old) THEN LeafSplit(t, old)
                                               ELSE InnerSplit(t, old))

RECURSIVE isFull(_, _, _)

(* What add, addElt and informParent do when x may have become full. *)
Grown(T, x) ==
  CASE ~isFullNode(T, x) -> T
    [] isFullNode(T, x) /\ parent(T, x) # Null -> isFull(T, parent(T, x), x)
    [] isFullNode(T, x) /\ parent(T, x) = Null ->
         Checked(T, T.root = x, rootIsFull(T))

(* Mutant: nobody looks whether the parent is full now. *)
splitWithOnly(T, x, r, p) ==
  IF isLeaf(T, x) THEN LeafSplitWith(T, x, r, p) ELSE InnerSplitWith(T, x, r, p)

(* splitWith: the parent has one more item, and may be full itself. *)
splitWith(T, x, r, p) ==
  Then(IF isLeaf(T, x) THEN LeafSplitWith(T, x, r, p)
                       ELSE InnerSplitWith(T, x, r, p),
       LAMBDA t : Grown(t, parent(T, x)))

(* InnerNode::isFull: the child x of up is full.  It shares with a sibling
   that has room, the right one first; else it and a full sibling become three
   nodes. *)
isFull(T, up, x) ==
  LET i == indexOf(T, up, x)
      right == getTree(T, up, i + 1)
      left == getTree(T, up, i - 1)
      hasRight == i < last(T, up)
      hasLeft == i > 0
      shareRight == hasRight /\ ~isAlmostFull(T, right)
      shareLeft == hasLeft /\ ~isAlmostFull(T, left)
  IN  CASE shareRight -> balanceWithRight(T, x, right, i + 1)
        [] ~shareRight /\ shareLeft -> balanceWithLeft(T, x, left, i)
        [] ~shareRight /\ ~shareLeft /\ hasLeft -> splitWith(T, left, x, i)
        [] ~shareRight /\ ~hasLeft /\ hasRight -> splitWith(T, x, right, i + 1)
        [] OTHER -> Checked(T, FALSE, T)

(* Mutant: the new root keeps its parent. *)
rootIsEmptyKeepsParent(T) ==
  IF isLeaf(T, T.root) THEN [Delete(T, T.root) EXCEPT !.root = Null]
  ELSE [Delete(T, T.root) EXCEPT !.root = getTree(T, T.root, 0)]

(* Btree::rootIsEmpty: the only child, if there is one, becomes the root. *)
rootIsEmpty(T) ==
  LET old == T.root
      heir == getTree(T, old, 0)
  IN  Checked(T, Psize(T, old) = 0,
        IF isLeaf(T, old)
        THEN [Delete(T, old) EXCEPT !.root = Null]
        ELSE [Delete(T, old) EXCEPT !.root = heir, !.node[heir].parent = Null])

-----------------------------------------------------------------------------
RECURSIVE isLow(_, _, _)

(* Mutant: an inner node that has become low is left so. *)
ShrunkAtLeaves(T, x) ==
  IF isLowNode(T, x) /\ isLeaf(T, x) /\ parent(T, x) # Null
  THEN isLow(T, parent(T, x), x) ELSE T

(* What remove and removeItem do when x has lost an item. *)
Shrunk(T, x) ==
  CASE ~isLowNode(T, x) -> T
    [] isLowNode(T, x) /\ parent(T, x) # Null -> isLow(T, parent(T, x), x)
    [] isLowNode(T, x) /\ parent(T, x) = Null ->
         IF Psize(T, x) = 0 THEN rootIsEmpty(T) ELSE T

(* InnerNode::removeItem. *)
removeItem(T, x, i) ==
  Checked(T, i >= 1 /\ i <= last(T, x),
    Shrunk(SetItems(T, x, RemoveAt(item(T, x), i + 1)), x))

(* Mutant: the key between the two leaves is dropped with its item. *)
LeafMergeForgetsKey(T, x, r, p) ==
  LET up == parent(T, x)
  IN  Checked(T, HasLeft(T, r) /\ Psize(T, x) + Vsize(T, r) < maxPsize(T, x),
        Then(Then(pushLeft(T, r, Psize(T, r), x, p),
          LAMBDA t : removeItem(setNofKeys(t, up, p - 1, nofKeys(t, x)), up, p)),
          LAMBDA t : Delete(t, r)))

(* mergeWithRight: x takes everything from its right sibling r, and the key
   between them. *)
LeafMergeWithRight(T, x, r, p) ==
  LET up == parent(T, x)
  IN  Checked(T, HasLeft(T, r) /\ Psize(T, x) + Vsize(T, r) < maxPsize(T, x),
        Then(Then(Then(pushLeft(T, r, Psize(T, r), x, p),
          LAMBDA t : Checked(t, last(t, x) < maxIndex(t, x),
                       SetItems(t, x, Append(item(t, x), getKey(t, up, p))))),
          LAMBDA t : removeItem(setNofKeys(t, up, p - 1, nofKeys(t, x)), up, p)),
          LAMBDA t : Delete(t, r)))

InnerMergeWithRight(T, x, r, p) ==
  LET up == parent(T, x)
      emptied == IF Psize(T, r) > 0 THEN pushLeft(T, r, Psize(T, r), x, p) ELSE T
      moved(t) == [getItem(t, r, 0) EXCEPT !.key = getKey(t, up, p)]
  IN  Checked(T, HasLeft(T, r) /\ Psize(T, x) + Vsize(T, r) < maxIndex(T, x),
        Then(Then(emptied,
          LAMBDA t : Checked(t, last(t, x) + 1 < maxIndex(t, x),
                       removeItem(incNofKeys(append(t, x, moved(t)), up, p - 1,
                                             getNofKeys(t, r, 0) + 1),
                                  up, p))),
          LAMBDA t : Delete(t, r)))

mergeWithRight(T, x, r, p) ==
  IF isLeaf(T, x) THEN LeafMergeWithRight(T, x, r, p)
                  ELSE InnerMergeWithRight(T, x, r, p)

(* InnerNode::isLow: the child x of up has too few.  It shares with a sibling
   that would leave no room for a merger, or is merged with one. *)
isLow(T, up, x) ==
  LET i == indexOf(T, up, x)
      hasRight == i < last(T, up)
      hasLeft == i > 0
      right == getTree(T, up, i + 1)
      left == getTree(T, up, i - 1)
      shareRight ==
        hasRight /\ Psize(T, x) + Vsize(T, right) >= maxPsize(T, x)
      shareLeft == hasLeft /\ Vsize(T, x) + Psize(T, left) >= maxPsize(T, x)
  IN  CASE shareRight -> balanceWith(T, x, right, i + 1)
        [] ~shareRight /\ shareLeft -> balanceWith(T, left, x, i)
        [] ~shareRight /\ ~shareLeft /\ hasLeft ->
             mergeWithRight(T, left, x, i)
        [] ~shareRight /\ ~hasLeft /\ hasRight ->
             mergeWithRight(T, x, right, i + 1)
        [] OTHER -> Checked(T, FALSE, T)

-----------------------------------------------------------------------------
(* incrNofKeys and decrNofKeys: the counts from node x up to the tree's. *)
RECURSIVE addNofKeys(_, _, _)

addNofKeys(T, x, d) ==
  LET up == parent(T, x)
  IN  IF up = Null
      THEN [T EXCEPT !.count = @ + d]
      ELSE addNofKeys(incNofKeys(T, up, indexOf(T, up, x), d), up, d)

RECURSIVE firstLeafNode(_, _)
firstLeafNode(T, x) ==
  IF isLeaf(T, x) THEN x ELSE firstLeafNode(T, getTree(T, x, 0))

RECURSIVE lastLeafNode(_, _)
lastLeafNode(T, x) ==
  IF isLeaf(T, x) THEN x ELSE lastLeafNode(T, getTree(T, x, last(T, x)))

(* LeafNode::add, LeafNode::remove. *)
LeafAdd(T, x, obj, at) ==
  Checked(T, 0 <= at /\ at <= last(T, x) + 1 /\ last(T, x) <= maxIndex(T, x),
    Grown(addNofKeys(SetItems(T, x, InsertAt(item(T, x), at + 1, obj)), x, 1), x))

LeafRemove(T, x, at) ==
  Checked(T, 0 <= at /\ at <= last(T, x),
    Shrunk(addNofKeys(SetItems(T, x, RemoveAt(item(T, x), at + 1)), x, -1), x))

(* Mutant: the successor leaves its leaf, but the key stays. *)
InnerRemoveKeepsKey(T, x, i) ==
  LeafRemove(T, firstLeafNode(T, getTree(T, x, i)), 0)

(* InnerNode::remove: the key is replaced by its successor, which leaves the
   leaf it was in. *)
InnerRemove(T, x, i) ==
  LET leaf == firstLeafNode(T, getTree(T, x, i))
  IN  Checked(T, i >= 1 /\ i <= last(T, x),
        LeafRemove(setKey(T, x, i, item(T, leaf)[1]), leaf, 0))

(* The first index from start whose key is not smaller than k, else last+1. *)
FirstNotLess(T, x, start, k) ==
  LET key(i) == KeyOf(IF isLeaf(T, x) THEN getItem(T, x, i) ELSE getKey(T, x, i))
      big == {i \in start .. last(T, x) : key(i) >= k}
  IN  IF big = {} THEN last(T, x) + 1
      ELSE CHOOSE i \in big : \A j \in big : i <= j

(* found: where the search for key k ends; hit tells whether at an equal key. *)
RECURSIVE found(_, _, _)
found(T, x, k) ==
  IF isLeaf(T, x)
  THEN LET i == FirstNotLess(T, x, 0, k)
       IN  [which |-> x, where |-> i,
            hit |-> i <= last(T, x) /\ KeyOf(getItem(T, x, i)) = k]
  ELSE LET i == FirstNotLess(T, x, 1, k)
       IN  IF i <= last(T, x) /\ KeyOf(getKey(T, x, i)) = k
           THEN [which |-> x, where |-> i, hit |-> TRUE]
           ELSE found(T, getTree(T, x, i - 1), k)

(* The object found returns. *)
ObjectAt(T, loc) ==
  IF isLeaf(T, loc.which) THEN getItem(T, loc.which, loc.where)
                          ELSE getKey(T, loc.which, loc.where)

-----------------------------------------------------------------------------
(* Mutant: an equal object goes to the end of the subtree after the key. *)
addAfter(T, obj) ==
  LET loc == found(T, T.root, KeyOf(obj))
      leaf == lastLeafNode(T, getTree(T, loc.which, loc.where))
      T1 == NewNode(T, TRUE, Null, <<obj>>)
  IN  IF T.root = Null
      THEN [T1 EXCEPT !.root = Fresh(T), !.count = @ + 1]
      ELSE IF isLeaf(T, loc.which)
           THEN LeafAdd(T, loc.which, obj, loc.where)
           ELSE LeafAdd(T, leaf, obj, last(T, leaf) + 1)

(* Btree::add.  An object equal to the key at index i of an inner node goes to
   the end of the subtree before that key. *)
add(T, obj) ==
  LET loc == found(T, T.root, KeyOf(obj))
      leaf == lastLeafNode(T, getTree(T, loc.which, loc.where - 1))
      T1 == NewNode(T, TRUE, Null, <<obj>>)
  IN  IF T.root = Null
      THEN [T1 EXCEPT !.root = Fresh(T), !.count = @ + 1]
      ELSE IF isLeaf(T, loc.which)
           THEN LeafAdd(T, loc.which, obj, loc.where)
           ELSE LeafAdd(T, leaf, obj, last(T, leaf) + 1)

(* Btree::detach of an object with key k. *)
detach(T, k) ==
  IF T.root = Null THEN T
  ELSE LET loc == found(T, T.root, k)
       IN  IF ~loc.hit THEN T
           ELSE IF isLeaf(T, loc.which)
                THEN LeafRemove(T, loc.which, loc.where)
                ELSE InnerRemove(T, loc.which, loc.where)

(* Btree::flush. *)
flush(T) == [T EXCEPT !.node = << >>, !.root = Null, !.count = 0]

(* Btree::operator[]: the object with i objects before it, Null for NOOBJECT. *)
RECURSIVE ElementAt(_, _, _)
ElementAt(T, x, i) ==
  IF isLeaf(T, x) THEN getItem(T, x, i)
  ELSE LET before(j) == FoldLeft(LAMBDA sum, it : sum + it.n + 1, 0,
                                 SubSeq(item(T, x), 1, j))
           js == {j \in 0 .. last(T, x) : i <= before(j) + getNofKeys(T, x, j)}
           j == CHOOSE m \in js : \A n \in js : m <= n
       IN  CASE js = {} -> Null
             [] js # {} /\ i < before(j) + getNofKeys(T, x, j) ->
                  ElementAt(T, getTree(T, x, j), i - before(j))
             [] js # {} /\ i = before(j) + getNofKeys(T, x, j) ->
                  IF j = last(T, x) THEN Null ELSE getKey(T, x, j + 1)

(* Btree::rank: how many objects come before the first one found equal. *)
RECURSIVE findRank(_, _, _)
findRank(T, x, k) ==
  LET i == FirstNotLess(T, x, IF isLeaf(T, x) THEN 0 ELSE 1, k)
      before == FoldLeft(LAMBDA sum, it : sum + it.n + 1, 0,
                         SubSeq(item(T, x), 1, i - 1))
      below == findRank(T, getTree(T, x, i - 1), k)
  IN  IF isLeaf(T, x)
      THEN IF i <= last(T, x) /\ KeyOf(getItem(T, x, i)) = k THEN i ELSE -1
      ELSE IF i <= last(T, x) /\ KeyOf(getKey(T, x, i)) = k
           THEN before + getNofKeys(T, x, i - 1)
           ELSE before + below

(* findRank_bu: how many objects come before the subtree at x. *)
RECURSIVE findRank_bu(_, _)

(* Mutant: the keys between the subtrees are not counted. *)
findRank_buKeyless(T, x) ==
  LET up == parent(T, x)
      i == indexOf(T, up, x)
  IN  IF up = Null THEN 0
      ELSE FoldLeft(LAMBDA sum, it : sum + it.n, findRank_bu(T, up),
                    SubSeq(item(T, up), 1, i))

findRank_bu(T, x) ==
  LET up == parent(T, x)
      i == indexOf(T, up, x)
  IN  IF up = Null THEN 0
      ELSE FoldLeft(LAMBDA sum, it : sum + it.n + 1, findRank_bu(T, up),
                    SubSeq(item(T, up), 1, i))

(* The rank Btree::i_add returns, found before the object is added. *)
insertionRank(T, k) ==
  LET loc == found(T, T.root, k)
  IN  CASE T.root = Null -> 0
        [] T.root # Null /\ isLeaf(T, loc.which) ->
             loc.where + findRank_bu(T, loc.which)
        [] T.root # Null /\ ~isLeaf(T, loc.which) ->
             findRank_bu(T, getTree(T, loc.which, loc.where))
=============================================================================
