----------------------------- MODULE BtreeShape -----------------------------
(***************************************************************************)
(* What a B-tree of classlib should look like between two operations: the  *)
(* properties btree.cpp lists, of a tree T as BtreeNodes defines it, but   *)
(* with the low water marks that the code sets.                            *)
(***************************************************************************)
EXTENDS BtreeOps

(* The nodes of the subtree at x, found through the items. *)
RECURSIVE NodesAt(_, _)
NodesAt(T, x) ==
  {x} \cup IF isLeaf(T, x) THEN {}
           ELSE UNION {NodesAt(T, kid) : kid \in TreesIn(item(T, x))}

Reachable(T) == IF T.root = Null THEN {} ELSE NodesAt(T, T.root)

(* The objects of the subtree at x, in order. *)
RECURSIVE InOrder(_, _)
InOrder(T, x) ==
  IF isLeaf(T, x) THEN item(T, x)
  ELSE FlattenSeq([i \in 1 .. Len(item(T, x)) |->
         (IF i = 1 THEN << >> ELSE <<item(T, x)[i].key>>)
           \o InOrder(T, item(T, x)[i].tree)])

Contents(T) == IF T.root = Null THEN << >> ELSE InOrder(T, T.root)

RECURSIVE LeafDepths(_, _)
LeafDepths(T, x) ==
  IF isLeaf(T, x) THEN {0}
  ELSE {d + 1 : d \in UNION {LeafDepths(T, k) : k \in TreesIn(item(T, x))}}

IsTree(T, objects) ==
  /\ T.root \in DOMAIN T.node \cup {Null}
  /\ T.count \in Int /\ T.ok \in BOOLEAN
  /\ \A x \in DOMAIN T.node :
       /\ isLeaf(T, x) \in BOOLEAN
       /\ parent(T, x) \in DOMAIN T.node \cup {Null}
       /\ isLeaf(T, x) => item(T, x) \in Seq(objects)
       /\ ~isLeaf(T, x) =>
            item(T, x) \in Seq([key : objects \cup {Null},
                                tree : DOMAIN T.node, n : Int])

(* Every node is reached by one item, its parent pointer names the node of
   that item, and no node is lost. *)
IsLinked(T) ==
  /\ DOMAIN T.node = Reachable(T)
  /\ T.root # Null => parent(T, T.root) = Null
  /\ \A x \in Reachable(T) : ~isLeaf(T, x) =>
       /\ \A i \in 0 .. last(T, x) : parent(T, getTree(T, x, i)) = x
       /\ Cardinality(TreesIn(item(T, x))) = Len(item(T, x))

(* The counts of the items and of the container are those of the objects. *)
IsCounted(T) ==
  /\ T.count = Len(Contents(T))
  /\ \A x \in Reachable(T) : ~isLeaf(T, x) =>
       \A i \in 0 .. last(T, x) :
         getNofKeys(T, x, i) = Len(InOrder(T, getTree(T, x, i)))

(* All leaves at one depth, no node full, none but the root below the low water
   mark of the code.  For inner nodes that is less than what btree.cpp iv) and
   :59 promise: a root of order 3 that splits leaves inner nodes of one key,
   where they say ceiling(3 / 2). *)
IsBalanced(T) ==
  T.root # Null =>
    /\ Cardinality(LeafDepths(T, T.root)) = 1
    /\ \A x \in Reachable(T) : /\ ~isFullNode(T, x)
                               /\ x # T.root => ~isLowNode(T, x)
    /\ Psize(T, T.root) >= 1

(* The tree without the addresses of its nodes, its objects named by name. *)
RECURSIVE ShapeAt(_, _, _, _)
ShapeAt(T, x, up, name) ==
  <<parent(T, x) = up,
    IF isLeaf(T, x) THEN [i \in DOMAIN item(T, x) |-> name[item(T, x)[i]]]
    ELSE [i \in DOMAIN item(T, x) |->
            <<name[item(T, x)[i].key], item(T, x)[i].n,
              ShapeAt(T, item(T, x)[i].tree, x, name)>>]>>

Shape(T, name) ==
  <<T.count, T.ok, Cardinality(DOMAIN T.node),
    IF T.root = Null THEN << >> ELSE ShapeAt(T, T.root, Null, name)>>
=============================================================================
