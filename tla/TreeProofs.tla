----------------------------- MODULE TreeProofs -----------------------------
(*****************************************************************************)
(* The red-black tree of _rbtree.h keeps its promises, for every set of      *)
(* keys.  First the invariant, one lemma for each action of the repairs;     *)
(* then what iterators and searches return in a tree that satisfies it;      *)
(* then the operations and the copy constructor, and what the invariant      *)
(* implies.  Last the rings of equal elements: their invariant, and that a   *)
(* multiset does what OrderedMulti says.  Induction has the facts about      *)
(* search trees and rings as links.                                          *)
(*****************************************************************************)
EXTENDS MultiTree, Induction


-----------------------------------------------------------------------------
(* The invariant of the tree. *)

(* The links make a search tree of the nodes. *)
Shape == \E S : IsTree(nodes, left, right, parent, root, S)

(* mSize, mFirst and mLast agree with it. *)
Ends ==
  /\ size = Cardinality(nodes)
  /\ nodes = {} => first = Null /\ last = Null
  /\ nodes # {} => /\ first \in nodes /\ last \in nodes
                   /\ \A x \in nodes : first <= x /\ x <= last

(* Every way down from the root has as many black nodes as any other, one less
   where a repair is under way; only the node at which an insertion is repaired
   is red below a red one. *)
Balanced ==
  /\ \E H : Heights(nodes, left, right, red, IF pc = "doubleBlack" THEN n ELSE 0, lefty, H)
  /\ Painted(nodes, left, right, red, IF pc = "balance" THEN n ELSE 0)
  /\ root # Null => ~red[root]

(* Where the loops are. *)
Working ==
  /\ pc \in {"idle", "balance", "doubleBlack", "clear", "copy", "copied", "undo"}
  /\ lefty \in BOOLEAN
  /\ pc # "doubleBlack" => lefty = FALSE
  /\ pc \in {"balance", "doubleBlack", "clear", "copy", "undo"} => n \in nodes
  /\ pc = "balance" => n = root \/ red[n]
  /\ pc = "doubleBlack" => ~IsRed(IF lefty THEN left[n] ELSE right[n])

(* The inductive invariant of the set's tree: its links make a search tree of
   nodes that have keys for names, the loop is at a node it may be at, and while
   the tree is not being cleared its ends, its size and its balance are what the
   loop that is running still owes. *)
TreeInv ==
  /\ nodes \subseteq Keys
  /\ Shape
  /\ red \in [nodes -> BOOLEAN]
  /\ Working
  /\ pc # "clear" => Ends /\ Balanced

(* What the links of one node say of its neighbours. *)
LEMMA ShapeFacts ==
  ASSUME Shape
  PROVE  /\ 0 \notin nodes /\ nodes \subseteq Nat /\ IsFiniteSet(nodes)
         /\ root \in nodes \cup {0}
         /\ \A x \in nodes : /\ left[x] \in nodes \cup {0} /\ right[x] \in nodes \cup {0}
                             /\ parent[x] \in nodes \cup {0}
                             /\ left[x] # 0 => left[x] < x
                             /\ right[x] # 0 => x < right[x]
                             /\ x # root => parent[x] \in nodes /\ x \in {left[parent[x]], right[parent[x]]}
                             /\ left[x] # 0 => parent[left[x]] = x
                             /\ right[x] # 0 => parent[right[x]] = x
         /\ nodes # {} => root \in nodes
         /\ root \in nodes => parent[root] = 0
<1>1. PICK S : IsTree(nodes, left, right, parent, root, S)
  BY DEF Shape
<1> QED
  BY <1>1, TreeFacts

(* Restructure and a repainting that meets the two conditions above, as one
   step of the tree. *)
LEMMA Restructured ==
  ASSUME Shape, NEW top, NEW x \in nodes, NEW y \in nodes, NEW z \in nodes, NEW b, NEW c,
         Triple(left, right, top, x, y, z, b, c),
         Restructure(top, x, y, z, b, c), nodes' = nodes,
         NEW H, Repaints(nodes, left, right, red, top, x, y, z, b, c, H, red'),
         Recolours(nodes, left, right, red, top, x, y, z, b, c, red')
  PROVE  /\ Shape'
         /\ \E H2 : Heights(nodes', left', right', red', 0, FALSE, H2)
         /\ Painted(nodes', left', right', red', 0)
<1>1. PICK S : IsTree(nodes, left, right, parent, root, S)
  BY DEF Shape
<1>2. Rotates(nodes, left, right, parent, root, top, x, y, z, b, c, left', right', parent', root')
  BY DEF Rotates, Restructure
<1>3. \E S2 : IsTree(nodes, left', right', parent', root', S2)
  BY <1>1, <1>2, Rotated
<1>4. \E H2 : Heights(nodes, left', right', red', 0, FALSE, H2)
  BY <1>1, <1>2, RotatedHeights
<1>5. Painted(nodes, left', right', red', 0)
  BY <1>1, <1>2, RotatedColours
<1> QED
  BY <1>3, <1>4, <1>5 DEF Shape

(* The three nodes above the root's side of a rotation hold the root at most on top. *)
LEMMA RootOnTop ==
  ASSUME Shape, NEW top, NEW x \in nodes, NEW y \in nodes, NEW z \in nodes, NEW b, NEW c,
         Triple(left, right, top, x, y, z, b, c), root \in {x, y, z}
  PROVE  root = top
<1>1. /\ 0 \notin nodes
      /\ \A w \in nodes : /\ left[w] # 0 => parent[left[w]] = w
                          /\ right[w] # 0 => parent[right[w]] = w
      /\ root \in nodes => parent[root] = 0
  BY ShapeFacts
<1>2. /\ top = z /\ y = left[z] /\ x = left[y] => root = z
      /\ top = z /\ x = left[z] /\ y = right[x] => root = z
      /\ top = x /\ y = right[x] /\ z = right[y] => root = x
      /\ top = x /\ z = right[x] /\ y = left[z] => root = x
  BY <1>1
<1> QED
  BY <1>2 DEF Triple

(* What insert_balance_transform finds where it has not come to an end. *)
LEMMA BalanceFacts ==
  ASSUME TreeInv, pc = "balance", ~Settled, NEW p, p = parent[n], NEW g, g = parent[p]
  PROVE  /\ n \in nodes /\ p \in nodes /\ g \in nodes
         /\ n \in {left[p], right[p]} /\ p \in {left[g], right[g]}
         /\ red[n] /\ red[p] /\ ~red[g] /\ n # p /\ n # g /\ p # g
         /\ n # root /\ p # root /\ parent[g] # p
<1>1. /\ Shape /\ n \in nodes /\ red \in [nodes -> BOOLEAN] /\ (n = root \/ red[n])
      /\ Painted(nodes, left, right, red, n)
  BY DEF TreeInv, Working, Balanced
<1>2. p # 0 /\ parent[p] # 0 /\ red[p]
  BY DEF Settled, Null
<1>3. /\ 0 \notin nodes /\ nodes \subseteq Nat
      /\ \A x \in nodes : /\ left[x] \in nodes \cup {0} /\ right[x] \in nodes \cup {0}
                          /\ parent[x] \in nodes \cup {0}
                          /\ left[x] # 0 => left[x] < x
                          /\ right[x] # 0 => x < right[x]
                          /\ x # root => parent[x] \in nodes /\ x \in {left[parent[x]], right[parent[x]]}
                          /\ left[x] # 0 => parent[left[x]] = x
                          /\ right[x] # 0 => parent[right[x]] = x
      /\ root \in nodes => parent[root] = 0
  BY <1>1, ShapeFacts
<1>4. p \in nodes /\ n # root
  BY <1>1, <1>2, <1>3
<1>5. g \in nodes /\ p # root
  BY <1>2, <1>3, <1>4
<1>6. n \in {left[p], right[p]} /\ p \in {left[g], right[g]}
  BY <1>1, <1>3, <1>4, <1>5
<1>7. n # p /\ p # g
  BY <1>1, <1>3, <1>4, <1>5, <1>6
<1>8. n # g
  <2>1. PICK S : IsTree(nodes, left, right, parent, root, S)
    BY <1>1 DEF Shape
  <2>2. n \in S[p] /\ p \in S[g]
    BY <2>1, <1>1, <1>2, <1>4, BelowParent
  <2>3. n # g \/ p = n
    BY <2>1, <2>2, <1>1, <1>4, OneAbove
  <2> QED
    BY <2>3, <1>7
<1>8a. parent[g] # p
  <2> SUFFICES ASSUME parent[g] = p PROVE FALSE
    OBVIOUS
  <2>1. PICK S : IsTree(nodes, left, right, parent, root, S)
    BY <1>1 DEF Shape
  <2>2. g \in S[p] /\ p \in S[g]
    BY <2>1, <1>1, <1>2, <1>4, <1>5, BelowParent
  <2>3. p = g
    BY <2>1, <2>2, <1>5, <1>4, OneAbove
  <2> QED
    BY <2>3, <1>7
<1>9. ~red[g]
  <2> SUFFICES ASSUME red[g] PROVE FALSE
    OBVIOUS
  <2>1. (left[g] = 0 \/ left[g] = n \/ ~red[left[g]]) /\ (right[g] = 0 \/ right[g] = n \/ ~red[right[g]])
    BY <1>1, <1>5 DEF Painted
  <2> QED
    BY <2>1, <1>2, <1>6, <1>7
<1> QED
  BY <1>1, <1>2, <1>4, <1>5, <1>6, <1>7, <1>8, <1>8a, <1>9

(* What the steps that change colours alone leave as it is. *)
LEMMA Recoloured ==
  ASSUME TreeInv, pc # "clear",
         UNCHANGED <<nodes, left, right, parent, root, first, last, size>>,
         red' \in [nodes -> BOOLEAN], Working', Balanced'
  PROVE  TreeInv'
<1>1. nodes \subseteq Keys /\ Shape /\ Ends
  BY DEF TreeInv
<1>2. Shape'
  BY <1>1 DEF Shape
<1>3. Ends'
  BY <1>1 DEF Ends
<1> QED
  BY <1>1, <1>2, <1>3 DEF TreeInv

(* Main case a of insert_balance_transform keeps the invariant: the trouble goes
   up two nodes. *)
LEMMA RedUncleKeeps ==
  ASSUME TreeInv, BalanceRedUncle
  PROVE  TreeInv'
<1> DEFINE p == parent[n]
           g == parent[p]
           u == uncle
<1>1. /\ pc = "balance" /\ ~Settled /\ IsRed(uncle)
      /\ red' = [red EXCEPT ![g] = TRUE, ![p] = FALSE, ![u] = FALSE, ![root] = FALSE]
      /\ n' = g
      /\ UNCHANGED <<nodes, left, right, parent, root, first, last, size, pc, lefty>>
  BY DEF BalanceRedUncle, linkVars
<1>2. /\ n \in nodes /\ p \in nodes /\ g \in nodes
      /\ n \in {left[p], right[p]} /\ p \in {left[g], right[g]}
      /\ red[n] /\ red[p] /\ ~red[g] /\ n # p /\ n # g /\ p # g
      /\ n # root /\ p # root /\ parent[g] # p
  BY <1>1, BalanceFacts
<1>3. /\ Shape /\ red \in [nodes -> BOOLEAN] /\ nodes \subseteq Keys
      /\ lefty = FALSE
      /\ Painted(nodes, left, right, red, n)
  BY <1>1 DEF TreeInv, Working, Balanced
<1>4. PICK H : Heights(nodes, left, right, red, 0, FALSE, H)
  BY <1>1 DEF TreeInv, Working, Balanced
<1>5. /\ 0 \notin nodes /\ nodes \subseteq Nat
      /\ \A x \in nodes : /\ left[x] \in nodes \cup {0} /\ right[x] \in nodes \cup {0}
                          /\ parent[x] \in nodes \cup {0}
                          /\ left[x] # 0 => left[x] < x
                          /\ right[x] # 0 => x < right[x]
                          /\ left[x] # 0 => parent[left[x]] = x
                          /\ right[x] # 0 => parent[right[x]] = x
      /\ root \in nodes /\ parent[root] = 0
  BY <1>2, <1>3, ShapeFacts
<1>6. /\ u # 0 /\ red[u] /\ u \in nodes
      /\ (left[g] = p /\ right[g] = u) \/ (left[g] = u /\ right[g] = p)
  BY <1>1, <1>2, <1>5 DEF IsRed, Null, uncle
<1>7. u # p /\ u # g /\ parent[u] = g /\ u # root
  <2>1. left[g] # right[g] /\ parent[u] = g
    <3>1. left[g] # 0 /\ right[g] # 0
      BY <1>2, <1>5, <1>6
    <3>2. left[g] < g /\ g < right[g] /\ parent[left[g]] = g /\ parent[right[g]] = g
      BY <3>1, <1>2, <1>5
    <3>3. left[g] \in Nat /\ right[g] \in Nat /\ g \in Nat
      <4>1. left[g] \in nodes /\ right[g] \in nodes /\ g \in nodes
        BY <1>2, <1>5, <3>1
      <4> QED
        BY <4>1, <1>5
    <3> QED
      BY <3>2, <3>3, <1>6
  <2>2. left[u] # u /\ right[u] # u
    BY <1>5, <1>6
  <2> QED
    BY <2>1, <2>2, <1>2, <1>5, <1>6
<1>8. parent[g] # u
  <2> SUFFICES ASSUME parent[g] = u PROVE FALSE
    OBVIOUS
  <2>1. PICK S : IsTree(nodes, left, right, parent, root, S)
    BY <1>3 DEF Shape
  <2>2. g \in S[u] /\ u \in S[g]
    BY <2>1, <1>2, <1>5, <1>6, <1>7, BelowParent
  <2>3. u = g
    BY <2>1, <2>2, <1>2, <1>6, OneAbove
  <2> QED
    BY <2>3, <1>7
<1>9. \A w \in nodes : red'[w] = IF w = root \/ w = p \/ w = u THEN FALSE ELSE IF w = g THEN TRUE ELSE red[w]
  BY <1>1, <1>2, <1>3, <1>5, <1>6, <1>7
<1>10. red' \in [nodes -> BOOLEAN]
  BY <1>1, <1>3
<1>11. \A w \in nodes : /\ w # g => left[w] \notin {p, u} /\ right[w] \notin {p, u}
                        /\ w \in {p, u} => left[w] # g /\ right[w] # g
                        /\ g = root => left[w] # g /\ right[w] # g
  BY <1>2, <1>5, <1>6, <1>7, <1>8
<1> HIDE DEF p, g, u
<1>12. \E H2 : Heights(nodes, left, right, red', 0, FALSE, H2)
  <2>1. /\ H \in [nodes \cup {0} -> Nat] /\ H[0] = 0
        /\ \A x \in nodes : /\ H[x] = H[left[x]] + (IF red[x] THEN 0 ELSE 1)
                            /\ H[x] = H[right[x]] + (IF red[x] THEN 0 ELSE 1)
    <3>1. Links(nodes, left, right)
      BY <1>5 DEF Links
    <3>2. Level(nodes, left, right, red, H)
      BY ONLY <1>4, <3>1, PlainHeights
    <3> QED
      BY <3>2 DEF Level
  <2> DEFINE H2 == [w \in nodes \cup {0} |-> IF w = p \/ w = u \/ (w = g /\ g = root)
                                             THEN H[w] + 1 ELSE H[w]]
  <2>2. H2 \in [nodes \cup {0} -> Nat] /\ H2[0] = 0
    BY <2>1, <1>2, <1>5, <1>6
  <2>3. \A w \in nodes \cup {0} : H2[w] = IF w = p \/ w = u \/ (w = g /\ g = root)
                                          THEN H[w] + 1 ELSE H[w]
    OBVIOUS
  <2>4. \A w \in nodes \cup {0} : H[w] \in Nat
    BY <2>1
  <2> HIDE DEF H2
  <2>5. ASSUME NEW w \in nodes
        PROVE  /\ H2[w] = H2[left[w]] + (IF red'[w] THEN 0 ELSE 1)
               /\ H2[w] = H2[right[w]] + (IF red'[w] THEN 0 ELSE 1)
    <3>1. /\ left[w] \in nodes \cup {0} /\ right[w] \in nodes \cup {0}
          /\ H[w] = H[left[w]] + (IF red[w] THEN 0 ELSE 1)
          /\ H[w] = H[right[w]] + (IF red[w] THEN 0 ELSE 1)
          /\ H[w] \in Nat /\ H[left[w]] \in Nat /\ H[right[w]] \in Nat
      BY <1>5, <2>1, <2>4
    <3>2. CASE w = p \/ w = u
      <4>1. H2[left[w]] = H[left[w]] /\ H2[right[w]] = H[right[w]]
        BY <3>1, <3>2, <2>3, <1>11, <1>2, <1>7
      <4>2. H2[w] = H[w] + 1 /\ ~red'[w] /\ red[w]
        BY <3>2, <2>3, <1>9, <1>2, <1>6
      <4> QED
        BY <4>1, <4>2, <3>1
    <3>3. CASE w = g
      <4>1. H2[left[w]] = H[left[w]] + 1 /\ H2[right[w]] = H[right[w]] + 1
        BY <3>1, <3>3, <2>3, <1>6
      <4>2. ~red[w]
        BY <3>3, <1>2
      <4>3. CASE g = root
        <5>1. H2[w] = H[w] + 1 /\ ~red'[w]
          BY <4>3, <3>3, <2>3, <1>9
        <5> QED
          BY <5>1, <4>1, <4>2, <3>1
      <4>4. CASE g # root
        <5>1. H2[w] = H[w] /\ red'[w]
          BY <4>4, <3>3, <2>3, <1>9, <1>2, <1>7
        <5> QED
          BY <5>1, <4>1, <4>2, <3>1
      <4> QED
        BY <4>3, <4>4
    <3>4. CASE w \notin {p, u, g}
      <4>1. H2[left[w]] = H[left[w]] /\ H2[right[w]] = H[right[w]]
        BY <3>1, <3>4, <2>3, <1>11
      <4>2. H2[w] = H[w] /\ red'[w] = red[w]
        <5>1. w = root => ~red[w]
          BY <1>1, <1>5 DEF TreeInv, Balanced, Null
        <5>2. H2[w] = H[w]
          BY <3>4, <2>3
        <5>3. red'[w] = IF w = root THEN FALSE ELSE red[w]
          BY <3>4, <1>9
        <5> QED
          BY <5>1, <5>2, <5>3, <1>3
      <4> QED
        BY <4>1, <4>2, <3>1
    <3> QED
      BY <3>2, <3>3, <3>4
  <2>6. Heights(nodes, left, right, red', 0, FALSE, H2)
    <3>1. Links(nodes, left, right)
      BY <1>5 DEF Links
    <3>2. Level(nodes, left, right, red', H2)
      BY <2>2, <2>5 DEF Level
    <3> QED
      BY ONLY <3>1, <3>2, HeightsPlain
  <2> QED
    BY <2>6
<1>13. Painted(nodes, left, right, red', g)
  <2> SUFFICES ASSUME NEW w \in nodes, red'[w]
               PROVE  /\ left[w] = 0 \/ left[w] = g \/ ~red'[left[w]]
                      /\ right[w] = 0 \/ right[w] = g \/ ~red'[right[w]]
    BY DEF Painted
  <2>1. left[w] \in nodes \cup {0} /\ right[w] \in nodes \cup {0}
    BY <1>5
  <2>2. w # root /\ w # p /\ w # u
    BY <1>9
  <2>3. CASE w = g
    BY <2>3, <1>6, <1>9, <1>2
  <2>4. CASE w # g
    <3>1. red[w]
      BY <2>2, <2>4, <1>9
    <3>2. left[w] # n /\ right[w] # n
      BY <2>2, <1>2, <1>5
    <3>3. (left[w] = 0 \/ ~red[left[w]]) /\ (right[w] = 0 \/ ~red[right[w]])
      BY <3>1, <3>2, <1>3 DEF Painted
    <3> QED
      BY <3>3, <2>1, <1>9
  <2> QED
    BY <2>3, <2>4
<1>14. ~red'[root]
  BY <1>5, <1>9
<1>15. g = root \/ red'[g]
  BY <1>9, <1>2, <1>7
<1>16. Balanced'
  BY <1>1, <1>3, <1>12, <1>13, <1>14 DEF Balanced
<1>17. Working'
  BY <1>1, <1>2, <1>3, <1>15 DEF Working
<1> QED
  BY <1>1, <1>10, <1>16, <1>17, Recoloured

(* A search tree's links are nodes or null. *)
LEMMA ShapeLinks ==
  ASSUME Shape
  PROVE  Links(nodes, left, right)
BY ShapeFacts DEF Links

(* A rotation that ends a repair. *)
LEMMA RotationKeeps ==
  ASSUME TreeInv, pc # "clear",
         NEW top, NEW x \in nodes, NEW y \in nodes, NEW z \in nodes, NEW b, NEW c,
         Triple(left, right, top, x, y, z, b, c),
         Restructure(top, x, y, z, b, c), UNCHANGED <<nodes, first, last, size>>, Return,
         red' \in [nodes -> BOOLEAN],
         NEW H, Repaints(nodes, left, right, red, top, x, y, z, b, c, H, red'),
         Recolours(nodes, left, right, red, top, x, y, z, b, c, red'),
         top = root => ~red'[y]
  PROVE  TreeInv'
<1>1. /\ nodes \subseteq Keys /\ Shape /\ Ends /\ red \in [nodes -> BOOLEAN]
      /\ root # Null => ~red[root]
  BY DEF TreeInv, Balanced
<1>2. /\ Shape'
      /\ \E H2 : Heights(nodes', left', right', red', 0, FALSE, H2)
      /\ Painted(nodes', left', right', red', 0)
  BY <1>1, Restructured
<1>3. pc' = "idle" /\ lefty' = FALSE
  BY DEF Return, GoTo
<1>4. root' # Null => ~red'[root']
  <2>1. CASE top = root
    <3>1. root' = y
      BY <2>1 DEF Restructure
    <3> QED
      BY <2>1, <3>1
  <2>2. CASE top # root
    <3>1. root' = root
      BY <2>2 DEF Restructure
    <3>2. root \notin {x, y, z}
      BY <2>2, <1>1, RootOnTop
    <3>3. root \in nodes
      BY <1>1, ShapeFacts
    <3>4. red'[root] = red[root]
      BY <3>2, <3>3 DEF Repaints
    <3>5. root # Null
      BY <3>3, <1>1, ShapeFacts DEF Null
    <3> QED
      BY <3>1, <3>4, <3>5, <1>1
  <2> QED
    BY <2>1, <2>2
<1>5. Balanced'
  BY <1>2, <1>3, <1>4 DEF Balanced
<1>6. Working'
  BY <1>3 DEF Working
<1>7. Ends'
  BY <1>1 DEF Ends
<1> QED
  BY <1>1, <1>2, <1>5, <1>6, <1>7 DEF TreeInv

(* The terminating case of insert_balance_transform keeps the invariant: nothing
   is left to repair. *)
LEMMA BalanceDoneKeeps ==
  ASSUME TreeInv, BalanceDone
  PROVE  TreeInv'
<1>1. /\ pc = "balance" /\ Settled /\ pc' = "idle" /\ lefty' = FALSE
      /\ UNCHANGED <<nodes, left, right, parent, root, red, first, last, size>>
  BY DEF BalanceDone, Return, GoTo, treeVars, linkVars
<1>2. /\ nodes \subseteq Keys /\ Shape /\ Ends /\ red \in [nodes -> BOOLEAN]
      /\ n \in nodes /\ lefty = FALSE /\ (n = root \/ red[n])
      /\ Painted(nodes, left, right, red, n) /\ (root # Null => ~red[root])
  BY <1>1 DEF TreeInv, Working, Balanced
<1>3. \E H : Heights(nodes, left, right, red, 0, FALSE, H)
  BY <1>1 DEF TreeInv, Working, Balanced
<1>4. /\ 0 \notin nodes
      /\ \A x \in nodes : /\ left[x] \in nodes \cup {0} /\ right[x] \in nodes \cup {0}
                          /\ x # root => parent[x] \in nodes
                          /\ left[x] # 0 => parent[left[x]] = x
                          /\ right[x] # 0 => parent[right[x]] = x
      /\ root \in nodes /\ parent[root] = 0
  BY <1>2, ShapeFacts
<1>5. Painted(nodes, left, right, red, 0)
  <2> SUFFICES ASSUME NEW w \in nodes, red[w], n \in {left[w], right[w]}
               PROVE  FALSE
    BY <1>2 DEF Painted
  <2>1. parent[n] = w /\ w # 0
    BY <1>2, <1>4
  <2>2. parent[w] = 0
    BY <1>1, <2>1 DEF Settled, Null
  <2>3. w = root
    BY <2>2, <1>4
  <2> QED
    BY <2>3, <1>2, <2>1 DEF Null
<1>6. Balanced'
  BY <1>1, <1>2, <1>3, <1>5 DEF Balanced
<1>7. Working'
  BY <1>1 DEF Working
<1> QED
  BY <1>1, <1>2, <1>6, <1>7, Recoloured

(* The heights and colours around a red node below a red one. *)
LEMMA BlackUncleFacts ==
  ASSUME TreeInv, pc = "balance", ~Settled, NEW p, p = parent[n], NEW g, g = parent[p],
         NEW H, Level(nodes, left, right, red, H)
  PROVE  /\ H[p] \in Nat /\ H[g] = H[p] + 1
         /\ \A w \in {left[n], right[n], left[p], right[p], left[g], right[g]} : H[w] = H[p]
         /\ \A w \in {left[n], right[n]} : w = 0 \/ ~red[w]
         /\ \A w \in {left[p], right[p]} : w = 0 \/ w = n \/ ~red[w]
         /\ \A w \in nodes : w \notin {n, p, g} => (red[w] => (left[w] = 0 \/ ~red[left[w]])
                                                           /\ (right[w] = 0 \/ ~red[right[w]]))
         /\ left[p] # right[p]
<1>1. /\ n \in nodes /\ p \in nodes /\ g \in nodes
      /\ n \in {left[p], right[p]} /\ p \in {left[g], right[g]}
      /\ red[n] /\ red[p] /\ ~red[g] /\ n # p /\ n # g /\ p # g
      /\ n # root /\ p # root /\ parent[g] # p
  BY BalanceFacts
<1>2. /\ Shape /\ red \in [nodes -> BOOLEAN]
      /\ Painted(nodes, left, right, red, n)
  BY DEF TreeInv, Working, Balanced
<1>3. /\ 0 \notin nodes /\ nodes \subseteq Nat
      /\ \A x \in nodes : /\ left[x] \in nodes \cup {0} /\ right[x] \in nodes \cup {0}
                          /\ left[x] # 0 => left[x] < x
                          /\ right[x] # 0 => x < right[x]
                          /\ left[x] # 0 => parent[left[x]] = x
                          /\ right[x] # 0 => parent[right[x]] = x
  BY <1>2, ShapeFacts
<1>4. /\ H \in [nodes \cup {0} -> Nat]
      /\ \A x \in nodes : /\ H[x] = H[left[x]] + (IF red[x] THEN 0 ELSE 1)
                          /\ H[x] = H[right[x]] + (IF red[x] THEN 0 ELSE 1)
  BY DEF Level
<1>5. \A w \in nodes \cup {0} : H[w] \in Nat
  BY <1>4
<1>6. \A w \in {n, p, g} : /\ left[w] \in nodes \cup {0} /\ right[w] \in nodes \cup {0}
                           /\ H[left[w]] \in Nat /\ H[right[w]] \in Nat
  BY <1>1, <1>3, <1>5
<1>7. H[n] = H[left[n]] /\ H[n] = H[right[n]]
  BY <1>1, <1>4, <1>6
<1>8. H[p] = H[left[p]] /\ H[p] = H[right[p]]
  BY <1>1, <1>4, <1>6
<1>9. H[g] = H[left[g]] + 1 /\ H[g] = H[right[g]] + 1
  BY <1>1, <1>4
<1>10. H[n] = H[p] /\ H[left[g]] = H[p] /\ H[right[g]] = H[p]
  <2>1. H[n] = H[p]
    BY <1>1, <1>8
  <2>2. H[left[g]] = H[right[g]]
    BY <1>9, <1>6
  <2>3. p = left[g] \/ p = right[g]
    BY <1>1
  <2>4. H[left[g]] = H[p] \/ H[right[g]] = H[p]
    BY <2>3
  <2> QED
    BY <2>1, <2>2, <2>4
<1>11. left[p] # right[p] /\ left[n] # n /\ right[n] # n
  <2>1. left[p] # 0 => left[p] < p /\ left[p] \in Nat
    BY <1>1, <1>3
  <2>2. right[p] # 0 => p < right[p] /\ right[p] \in Nat
    BY <1>1, <1>3
  <2>3. left[p] # 0 \/ right[p] # 0
    BY <1>1, <1>3
  <2>4. left[n] # n /\ right[n] # n
    BY <1>1, <1>3
  <2>5. p \in Nat
    BY <1>1, <1>3
  <2> QED
    BY <2>1, <2>2, <2>3, <2>4, <2>5
<1>12. (left[n] = 0 \/ ~red[left[n]]) /\ (right[n] = 0 \/ ~red[right[n]])
  BY <1>1, <1>2, <1>11 DEF Painted
<1>13. /\ left[p] = 0 \/ left[p] = n \/ ~red[left[p]]
       /\ right[p] = 0 \/ right[p] = n \/ ~red[right[p]]
  BY <1>1, <1>2 DEF Painted
<1>14. ASSUME NEW w \in nodes, w \notin {n, p, g}, red[w]
       PROVE  (left[w] = 0 \/ ~red[left[w]]) /\ (right[w] = 0 \/ ~red[right[w]])
  <2>1. left[w] # n /\ right[w] # n
    BY <1>14, <1>1, <1>3
  <2> QED
    BY <2>1, <1>14, <1>2 DEF Painted
<1> QED
  BY <1>1, <1>6, <1>7, <1>8, <1>9, <1>10, <1>11, <1>12, <1>13, <1>14

(* Main case b of insert_balance_transform keeps the invariant: one
   restructuring ends the repair, whichever of the four cases it is. *)
LEMMA BlackUncleKeeps ==
  ASSUME TreeInv, BalanceBlackUncle
  PROVE  TreeInv'
<1> DEFINE p == parent[n]
           g == parent[p]
<1>1. /\ pc = "balance" /\ ~Settled /\ ~IsRed(uncle) /\ Return
      /\ UNCHANGED <<nodes, first, last, size>>
  BY DEF BalanceBlackUncle
<1>2. /\ n \in nodes /\ p \in nodes /\ g \in nodes
      /\ red[n] /\ red[p] /\ ~red[g] /\ n # p /\ n # g /\ p # g
  BY <1>1, BalanceFacts
<1>3. /\ Shape /\ red \in [nodes -> BOOLEAN]
  BY DEF TreeInv
<1>4. PICK H : Level(nodes, left, right, red, H)
  <2>1. PICK H : Heights(nodes, left, right, red, 0, FALSE, H)
    BY <1>1 DEF TreeInv, Working, Balanced
  <2>2. Links(nodes, left, right)
    BY <1>3, ShapeLinks
  <2> QED
    BY ONLY <2>1, <2>2, PlainHeights
<1>5. /\ H[p] \in Nat /\ H[g] = H[p] + 1
      /\ \A w \in {left[n], right[n], left[p], right[p], left[g], right[g]} : H[w] = H[p]
      /\ \A w \in {left[n], right[n]} : w = 0 \/ ~red[w]
      /\ \A w \in {left[p], right[p]} : w = 0 \/ w = n \/ ~red[w]
      /\ \A w \in nodes : w \notin {n, p, g} => (red[w] => (left[w] = 0 \/ ~red[left[w]])
                                                        /\ (right[w] = 0 \/ ~red[right[w]]))
      /\ left[p] # right[p]
  BY <1>1, <1>4, BlackUncleFacts
<1>6. /\ H \in [nodes \cup {0} -> Nat] /\ H[0] = 0
      /\ \A w \in nodes : /\ H[w] = H[left[w]] + (IF red[w] THEN 0 ELSE 1)
                          /\ H[w] = H[right[w]] + (IF red[w] THEN 0 ELSE 1)
  BY <1>4 DEF Level
<1>7. /\ p = left[g] => right[g] = 0 \/ ~red[right[g]]
      /\ p # left[g] => left[g] = 0 \/ ~red[left[g]]
  BY <1>1 DEF IsRed, Null, uncle
<1>8. p = right[g] => p # left[g]
  <2>1. /\ 0 \notin nodes /\ nodes \subseteq Nat
        /\ left[g] # 0 => left[g] < g
        /\ right[g] # 0 => g < right[g]
    BY <1>2, <1>3, ShapeFacts
  <2>2. p \in Nat /\ g \in Nat /\ p # 0
    BY <2>1, <1>2
  <2> QED
    BY <2>1, <2>2
<1> DEFINE Turn(x, y, z, b, c) ==
             /\ Restructure(g, x, y, z, b, c)
             /\ red' = [red EXCEPT ![y] = FALSE, ![x] = TRUE, ![z] = TRUE]
<1>9. \/ n = left[p] /\ p = left[g] /\ Turn(n, p, g, right[n], right[p])
      \/ n = right[p] /\ p = left[g] /\ Turn(p, n, g, left[n], right[n])
      \/ n = right[p] /\ p = right[g] /\ Turn(g, p, n, left[p], left[n])
      \/ n = left[p] /\ p = right[g] /\ Turn(g, n, p, left[n], right[n])
  BY DEF BalanceBlackUncle
<1>10. ASSUME NEW x \in nodes, NEW y \in nodes, NEW z \in nodes, NEW b, NEW c,
              {x, y, z} = {n, p, g}, x # y, y # z,
              Triple(left, right, g, x, y, z, b, c), Turn(x, y, z, b, c),
              \A w \in {left[x], b, c, right[z]} : H[w] = H[p] /\ (w = 0 \/ ~red[w])
       PROVE  TreeInv'
  <2>1. Restructure(g, x, y, z, b, c)
    BY <1>10
  <2>2. /\ red' \in [nodes -> BOOLEAN] /\ ~red'[y] /\ red'[x] /\ red'[z]
        /\ \A w \in nodes : w \notin {x, y, z} => red'[w] = red[w]
    BY <1>10, <1>3
  <2>3. Repaints(nodes, left, right, red, g, x, y, z, b, c, H, red')
    <3>0. \A w \in {left[x], b, c, right[z]} : H[w] = H[p]
      BY <1>10
    <3>1. H[left[x]] = H[b] /\ H[b] = H[c] /\ H[c] = H[right[z]] /\ H[b] = H[p]
      BY ONLY <3>0
    <3>2. H[g] = H[b] + (IF red'[x] THEN 0 ELSE 1) + (IF red'[y] THEN 0 ELSE 1)
      BY <3>1, <1>5, <2>2
    <3> QED
      BY <3>1, <3>2, <1>6, <2>2 DEF Repaints
  <2>4. Recolours(nodes, left, right, red, g, x, y, z, b, c, red')
    <3>1. \A w \in nodes : w \notin {x, y, z} =>
            (red[w] => (left[w] = 0 \/ ~red[left[w]]) /\ (right[w] = 0 \/ ~red[right[w]]))
      BY <1>5, <1>10
    <3>2. \A w \in {b, c, left[x], right[z]} : w = 0 \/ ~red[w]
      BY <1>10
    <3> QED
      BY <3>1, <3>2, <2>2, <1>3 DEF Recolours
  <2>5. pc # "clear"
    BY <1>1
  <2> HIDE DEF p, g
  <2> QED
    BY <1>1, <1>10, <2>1, <2>2, <2>3, <2>4, <2>5, RotationKeeps
<1>11. CASE n = left[p] /\ p = left[g] /\ Turn(n, p, g, right[n], right[p])
  <2>1. Triple(left, right, g, n, p, g, right[n], right[p])
    BY <1>11 DEF Triple
  <2>2. \A w \in {left[n], right[n], right[p], right[g]} : H[w] = H[p] /\ (w = 0 \/ ~red[w])
    BY <1>11, <1>5, <1>7
  <2> HIDE DEF p, g, Turn
  <2> QED
    BY <1>2, <1>11, <2>1, <2>2, <1>10
<1>12. CASE n = right[p] /\ p = left[g] /\ Turn(p, n, g, left[n], right[n])
  <2>1. Triple(left, right, g, p, n, g, left[n], right[n])
    BY <1>12 DEF Triple
  <2>2. \A w \in {left[p], left[n], right[n], right[g]} : H[w] = H[p] /\ (w = 0 \/ ~red[w])
    BY <1>12, <1>5, <1>7
  <2> HIDE DEF p, g, Turn
  <2> QED
    BY <1>2, <1>12, <2>1, <2>2, <1>10
<1>13. CASE n = right[p] /\ p = right[g] /\ Turn(g, p, n, left[p], left[n])
  <2>1. Triple(left, right, g, g, p, n, left[p], left[n])
    BY <1>13 DEF Triple
  <2>2. \A w \in {left[g], left[p], left[n], right[n]} : H[w] = H[p] /\ (w = 0 \/ ~red[w])
    BY <1>13, <1>5, <1>7, <1>8
  <2> HIDE DEF p, g, Turn
  <2> QED
    BY <1>2, <1>13, <2>1, <2>2, <1>10
<1>14. CASE n = left[p] /\ p = right[g] /\ Turn(g, n, p, left[n], right[n])
  <2>1. Triple(left, right, g, g, n, p, left[n], right[n])
    BY <1>14 DEF Triple
  <2>2. \A w \in {left[g], left[n], right[n], right[p]} : H[w] = H[p] /\ (w = 0 \/ ~red[w])
    BY <1>14, <1>5, <1>7, <1>8
  <2> HIDE DEF p, g, Turn
  <2> QED
    BY <1>2, <1>14, <2>1, <2>2, <1>10
<1> QED
  BY <1>9, <1>11, <1>12, <1>13, <1>14

(* The sibling of the side of n that lacks a black node, and that side. *)
Sides(s, c) == s = sibling /\ c = IF lefty THEN left[n] ELSE right[n]

(* What double_black_transform finds: the sibling of the side that lacks a
   black node is there, and so are the children of a red sibling. *)
Siblings(s, c, H) ==
  /\ n \in nodes /\ s \in nodes /\ s # n /\ c \in nodes \cup {0} /\ s # c /\ s # root
  /\ (lefty /\ s = right[n] /\ c = left[n]) \/ (~lefty /\ s = left[n] /\ c = right[n])
  /\ H[c] \in Nat /\ H[s] = H[c] + 1 /\ H[n] = H[s] + (IF red[n] THEN 0 ELSE 1)
  /\ c = 0 \/ ~red[c]
  /\ H \in [nodes \cup {0} -> Nat] /\ H[0] = 0
  /\ \A w \in nodes : w # n => /\ H[w] = H[left[w]] + (IF red[w] THEN 0 ELSE 1)
                               /\ H[w] = H[right[w]] + (IF red[w] THEN 0 ELSE 1)
  /\ \A w \in nodes : red[w] => /\ left[w] = 0 \/ ~red[left[w]]
                                /\ right[w] = 0 \/ ~red[right[w]]
  /\ red[s] => /\ ~red[n]
               /\ left[s] \in nodes /\ right[s] \in nodes
               /\ H[left[s]] = H[s] /\ H[right[s]] = H[s]
  /\ ~red[s] => H[left[s]] = H[c] /\ H[right[s]] = H[c]

(* While a deletion is repaired the sibling of the short side is there, and it
   has the children that its colour and its height ask for ("a/b can't be
   null/leaves"). *)
LEMMA DoubleBlackFacts ==
  ASSUME TreeInv, pc = "doubleBlack", NEW s, NEW c, NEW H, Sides(s, c),
         Heights(nodes, left, right, red, n, lefty, H)
  PROVE  Siblings(s, c, H)
<1>1. /\ Shape /\ red \in [nodes -> BOOLEAN] /\ n \in nodes /\ lefty \in BOOLEAN
      /\ ~IsRed(IF lefty THEN left[n] ELSE right[n])
      /\ Painted(nodes, left, right, red, 0)
  BY DEF TreeInv, Working, Balanced
<1>2. /\ 0 \notin nodes /\ nodes \subseteq Nat
      /\ \A x \in nodes : /\ left[x] \in nodes \cup {0} /\ right[x] \in nodes \cup {0}
                          /\ left[x] # 0 => left[x] < x
                          /\ right[x] # 0 => x < right[x]
                          /\ left[x] # 0 => parent[left[x]] = x
                          /\ right[x] # 0 => parent[right[x]] = x
      /\ root \in nodes => parent[root] = 0
  BY <1>1, ShapeFacts
<1>3. /\ H \in [nodes \cup {0} -> Nat] /\ H[0] = 0
      /\ \A w \in nodes :
           /\ H[w] = H[left[w]] + (IF red[w] THEN 0 ELSE 1) + (IF w = n /\ lefty THEN 1 ELSE 0)
           /\ H[w] = H[right[w]] + (IF red[w] THEN 0 ELSE 1) + (IF w = n /\ ~lefty THEN 1 ELSE 0)
  BY DEF Heights
<1>4. (lefty /\ s = right[n] /\ c = left[n]) \/ (~lefty /\ s = left[n] /\ c = right[n])
  BY <1>1 DEF sibling, Sides
<1>5. s \in nodes \cup {0} /\ c \in nodes \cup {0}
  BY <1>1, <1>2, <1>4
<1>6. H[s] \in Nat /\ H[c] \in Nat /\ H[n] \in Nat
  BY <1>1, <1>3, <1>5
<1>7. H[n] = H[c] + (IF red[n] THEN 0 ELSE 1) + 1 /\ H[n] = H[s] + (IF red[n] THEN 0 ELSE 1)
  <2>1. CASE lefty /\ s = right[n] /\ c = left[n]
    <3>1. H[n] = H[c] + (IF red[n] THEN 0 ELSE 1) + 1
      BY <2>1, <1>1, <1>3
    <3>2. H[n] = H[s] + (IF red[n] THEN 0 ELSE 1) + 0
      BY <2>1, <1>1, <1>3
    <3> QED
      BY <3>1, <3>2, <1>6
  <2>2. CASE ~lefty /\ s = left[n] /\ c = right[n]
    <3>1. H[n] = H[c] + (IF red[n] THEN 0 ELSE 1) + 1
      BY <2>2, <1>1, <1>3
    <3>2. H[n] = H[s] + (IF red[n] THEN 0 ELSE 1) + 0
      BY <2>2, <1>1, <1>3
    <3> QED
      BY <3>1, <3>2, <1>6
  <2> QED
    BY <1>4, <2>1, <2>2
<1>8. H[s] = H[c] + 1
  BY <1>6, <1>7
<1>9. s \in nodes
  BY <1>3, <1>5, <1>6, <1>8
<1>10. c = 0 \/ ~red[c]
  BY <1>1, <1>4 DEF IsRed, Null
<1>11. ASSUME NEW w \in nodes, w # n
       PROVE  /\ H[w] = H[left[w]] + (IF red[w] THEN 0 ELSE 1)
              /\ H[w] = H[right[w]] + (IF red[w] THEN 0 ELSE 1)
  <2>1. left[w] \in nodes \cup {0} /\ right[w] \in nodes \cup {0}
    BY <1>2
  <2>2. H[left[w]] \in Nat /\ H[right[w]] \in Nat
    BY <2>1, <1>3
  <2> QED
    BY <2>2, <1>3, <1>11
<1>12. s # n /\ s # c /\ s # root
  <2>1. /\ left[n] # 0 => left[n] < n /\ left[n] \in Nat
        /\ right[n] # 0 => n < right[n] /\ right[n] \in Nat
        /\ n \in Nat
    BY <1>1, <1>2
  <2>2. s # 0 /\ parent[s] = n /\ n # 0
    BY <1>1, <1>2, <1>4, <1>9
  <2>3. s # root
    BY <2>2, <1>2, <1>9
  <2> QED
    BY <2>1, <2>2, <2>3, <1>4
<1>13. ASSUME NEW w \in nodes, red[w]
       PROVE  (left[w] = 0 \/ ~red[left[w]]) /\ (right[w] = 0 \/ ~red[right[w]])
  BY <1>13, <1>1 DEF Painted
<1>14. left[s] \in nodes \cup {0} /\ right[s] \in nodes \cup {0}
       /\ H[left[s]] \in Nat /\ H[right[s]] \in Nat
  <2>1. left[s] \in nodes \cup {0} /\ right[s] \in nodes \cup {0}
    BY <1>2, <1>9
  <2> QED
    BY <2>1, <1>3
<1>15. /\ H[s] = H[left[s]] + (IF red[s] THEN 0 ELSE 1)
       /\ H[s] = H[right[s]] + (IF red[s] THEN 0 ELSE 1)
  BY <1>9, <1>11, <1>12
<1>16. ASSUME red[s]
       PROVE  /\ ~red[n]
              /\ left[s] \in nodes /\ right[s] \in nodes
              /\ H[left[s]] = H[s] /\ H[right[s]] = H[s]
  <2>1. ~red[n]
    <3> SUFFICES ASSUME red[n] PROVE FALSE
      OBVIOUS
    <3>1. (left[n] = 0 \/ ~red[left[n]]) /\ (right[n] = 0 \/ ~red[right[n]])
      BY <1>1, <1>13
    <3>2. s # 0
      BY <1>2, <1>9
    <3> QED
      BY <3>1, <3>2, <1>4, <1>16
  <2>2. H[left[s]] = H[s] /\ H[right[s]] = H[s]
    BY <1>15, <1>14, <1>16
  <2>3. left[s] # 0 /\ right[s] # 0
    BY <2>2, <1>3, <1>6, <1>8
  <2> QED
    BY <2>1, <2>2, <2>3, <1>14
<1>17. ASSUME ~red[s]
       PROVE  H[left[s]] = H[c] /\ H[right[s]] = H[c]
  BY <1>15, <1>14, <1>17, <1>6, <1>8
<1> QED
  BY <1>1, <1>3, <1>4, <1>5, <1>6, <1>7, <1>8, <1>9, <1>10, <1>11, <1>12, <1>13, <1>16, <1>17 DEF Siblings

(* Main case 1 of double_black_transform keeps the invariant: with a red nephew
   one restructuring ends the repair. *)
LEMMA NephewKeeps ==
  ASSUME TreeInv, DoubleBlackNephew
  PROVE  TreeInv'
<1> DEFINE s == sibling
           l == left[s]
           r == right[s]
           e == IF lefty THEN left[n] ELSE right[n]
<1>1. /\ pc = "doubleBlack" /\ ~red[s] /\ Return
      /\ UNCHANGED <<nodes, first, last, size>>
  BY DEF DoubleBlackNephew
<1>2. PICK H : Heights(nodes, left, right, red, n, lefty, H)
  BY <1>1 DEF TreeInv, Balanced
<1>3. /\ n \in nodes /\ s \in nodes /\ s # n /\ e \in nodes \cup {0} /\ s # e /\ s # root
      /\ (lefty /\ s = right[n] /\ e = left[n]) \/ (~lefty /\ s = left[n] /\ e = right[n])
      /\ H[e] \in Nat /\ H[s] = H[e] + 1 /\ H[n] = H[s] + (IF red[n] THEN 0 ELSE 1)
      /\ e = 0 \/ ~red[e]
      /\ H \in [nodes \cup {0} -> Nat] /\ H[0] = 0
      /\ \A w \in nodes : w # n => /\ H[w] = H[left[w]] + (IF red[w] THEN 0 ELSE 1)
                                   /\ H[w] = H[right[w]] + (IF red[w] THEN 0 ELSE 1)
      /\ \A w \in nodes : red[w] => /\ left[w] = 0 \/ ~red[left[w]]
                                    /\ right[w] = 0 \/ ~red[right[w]]
      /\ red[s] => /\ ~red[n]
                   /\ left[s] \in nodes /\ right[s] \in nodes
                   /\ H[left[s]] = H[s] /\ H[right[s]] = H[s]
      /\ ~red[s] => H[left[s]] = H[e] /\ H[right[s]] = H[e]
  <2>1. Sides(s, e)
    BY DEF Sides
  <2> HIDE DEF s, e
  <2>2. Siblings(s, e, H)
    BY <1>1, <1>2, <2>1, DoubleBlackFacts
  <2> QED
    BY <2>2 DEF Siblings
<1>4. /\ Shape /\ red \in [nodes -> BOOLEAN] /\ (root # Null => ~red[root])
      /\ lefty \in BOOLEAN
  BY <1>1 DEF TreeInv, Balanced, Working
<1>5. /\ 0 \notin nodes
      /\ \A x \in nodes : /\ left[x] \in nodes \cup {0} /\ right[x] \in nodes \cup {0}
                          /\ left[x] # 0 => parent[left[x]] = x
                          /\ right[x] # 0 => parent[right[x]] = x
      /\ root \in nodes => parent[root] = 0
  BY <1>4, ShapeFacts
<1>6. H[l] = H[e] /\ H[r] = H[e]
  BY <1>1, <1>3
<1>7. \A w \in nodes : /\ H[left[w]] \in Nat /\ H[right[w]] \in Nat
                       /\ w # n /\ red[w] => H[left[w]] = H[w] /\ H[right[w]] = H[w]
  <2> TAKE w \in nodes
  <2>1. left[w] \in nodes \cup {0} /\ right[w] \in nodes \cup {0}
    BY <1>5
  <2>2. H[left[w]] \in Nat /\ H[right[w]] \in Nat
    BY <2>1, <1>3
  <2> QED
    BY <2>2, <1>3
<1> DEFINE Turn(x, y, z, b, c) ==
             /\ Restructure(n, x, y, z, b, c)
             /\ red' = [red EXCEPT ![y] = red[n], ![x] = FALSE, ![z] = FALSE]
<1>8. \/ IsRed(r) /\ lefty /\ Turn(n, s, r, l, left[r])
      \/ IsRed(r) /\ ~lefty /\ Turn(s, r, n, left[r], right[r])
      \/ ~IsRed(r) /\ IsRed(l) /\ lefty /\ Turn(n, l, s, left[l], right[l])
      \/ ~IsRed(r) /\ IsRed(l) /\ ~lefty /\ Turn(l, s, n, right[l], r)
  BY DEF DoubleBlackNephew
<1>9. /\ IsRed(r) => r \in nodes /\ red[r] /\ H[left[r]] = H[e] /\ H[right[r]] = H[e]
      /\ IsRed(l) => l \in nodes /\ red[l] /\ H[left[l]] = H[e] /\ H[right[l]] = H[e]
  <2>1. n # l /\ n # r
    <3>1. parent[s] = n /\ n # 0 /\ s # 0
      BY <1>3, <1>5
    <3>2. PICK S : IsTree(nodes, left, right, parent, root, S)
      BY <1>4 DEF Shape
    <3>3. s \in S[n] /\ n \notin S[s]
      BY <3>1, <3>2, <1>3, BelowParent
    <3>4. \A w \in nodes : w \in S[w] /\ (w \in S[s] <=> w = s \/ w \in S[left[s]] \/ w \in S[right[s]])
      BY <3>2, <1>3 DEF IsTree
    <3> QED
      BY <3>3, <3>4, <1>3
  <2>2. l \in nodes \cup {0} /\ r \in nodes \cup {0}
    BY <1>3, <1>5
  <2> QED
    BY <2>1, <2>2, <1>6, <1>7 DEF IsRed, Null
<1>10. ASSUME NEW x \in nodes, NEW y \in nodes, NEW z \in nodes, NEW b, NEW c,
              x # y, y # z, x # z, n \in {x, z},
              Triple(left, right, n, x, y, z, b, c), Turn(x, y, z, b, c),
              \A w \in {left[x], b, c, right[z]} : H[w] = H[e]
       PROVE  TreeInv'
  <2>1. Restructure(n, x, y, z, b, c)
    BY <1>10
  <2>2. /\ red' \in [nodes -> BOOLEAN] /\ red'[y] = red[n] /\ ~red'[x] /\ ~red'[z]
        /\ \A w \in nodes : w \notin {x, y, z} => red'[w] = red[w]
    BY <1>10, <1>3, <1>4
  <2>3. Repaints(nodes, left, right, red, n, x, y, z, b, c, H, red')
    <3>0. \A w \in {left[x], b, c, right[z]} : H[w] = H[e]
      BY <1>10
    <3>1. H[left[x]] = H[b] /\ H[b] = H[c] /\ H[c] = H[right[z]] /\ H[b] = H[e]
      BY ONLY <3>0
    <3>2. H[n] = H[b] + (IF red'[x] THEN 0 ELSE 1) + (IF red'[y] THEN 0 ELSE 1)
      BY <3>1, <1>3, <2>2
    <3>3. \A w \in nodes : w \notin {x, y, z} => /\ H[w] = H[left[w]] + (IF red[w] THEN 0 ELSE 1)
                                                 /\ H[w] = H[right[w]] + (IF red[w] THEN 0 ELSE 1)
      BY <1>3, <1>10
    <3> HIDE DEF e, s
    <3> QED
      BY <3>1, <3>2, <3>3, <1>3, <2>2 DEF Repaints
  <2>4. Recolours(nodes, left, right, red, n, x, y, z, b, c, red')
    <3>1. \A w \in nodes : w \notin {x, y, z} =>
            (red[w] => (left[w] = 0 \/ ~red[left[w]]) /\ (right[w] = 0 \/ ~red[right[w]]))
      BY <1>3
    <3> QED
      BY <3>1, <2>2, <1>4 DEF Recolours
  <2>5. pc # "clear"
    BY <1>1
  <2>6. n = root => ~red'[y]
    BY <2>2, <1>3, <1>4, <1>5 DEF Null
  <2> QED
    BY <1>1, <1>3, <1>10, <2>1, <2>2, <2>3, <2>4, <2>5, <2>6, RotationKeeps
<1>11. s # l /\ s # r /\ (l # r \/ l = 0)
  <2>1. /\ l # 0 => l < s /\ l \in Nat
        /\ r # 0 => s < r /\ r \in Nat
        /\ s \in Nat /\ s # 0
    BY <1>3, <1>4, ShapeFacts
  <2> QED
    BY <2>1
<1>12. CASE IsRed(r) /\ lefty /\ Turn(n, s, r, l, left[r])
  <2>1. Triple(left, right, n, n, s, r, l, left[r]) /\ left[n] = e /\ r # n /\ r \in nodes
    BY <1>12, <1>3, <1>9, <1>11 DEF Triple
  <2>2. \A w \in {left[n], l, left[r], right[r]} : H[w] = H[e]
    BY <1>12, <1>6, <1>9, <2>1
  <2> HIDE DEF s, l, r, e, Turn
  <2> QED
    BY <1>3, <1>11, <1>12, <2>1, <2>2, <1>10
<1>13. CASE IsRed(r) /\ ~lefty /\ Turn(s, r, n, left[r], right[r])
  <2>1. Triple(left, right, n, s, r, n, left[r], right[r]) /\ right[n] = e /\ r # n /\ r \in nodes
    BY <1>13, <1>3, <1>9, <1>11 DEF Triple
  <2>2. \A w \in {left[s], left[r], right[r], right[n]} : H[w] = H[e]
    BY <1>13, <1>6, <1>9, <2>1
  <2> HIDE DEF s, l, r, e, Turn
  <2> QED
    BY <1>3, <1>11, <1>13, <2>1, <2>2, <1>10
<1>14. CASE ~IsRed(r) /\ IsRed(l) /\ lefty /\ Turn(n, l, s, left[l], right[l])
  <2>1. Triple(left, right, n, n, l, s, left[l], right[l]) /\ left[n] = e /\ l # n /\ l \in nodes
    BY <1>14, <1>3, <1>9, <1>11 DEF Triple
  <2>2. \A w \in {left[n], left[l], right[l], right[s]} : H[w] = H[e]
    BY <1>14, <1>6, <1>9, <2>1
  <2> HIDE DEF s, l, r, e, Turn
  <2> QED
    BY <1>3, <1>11, <1>14, <2>1, <2>2, <1>10
<1>15. CASE ~IsRed(r) /\ IsRed(l) /\ ~lefty /\ Turn(l, s, n, right[l], r)
  <2>1. Triple(left, right, n, l, s, n, right[l], r) /\ right[n] = e /\ l # n /\ l \in nodes
    BY <1>15, <1>3, <1>9, <1>11 DEF Triple
  <2>2. \A w \in {left[l], right[l], r, right[n]} : H[w] = H[e]
    BY <1>15, <1>6, <1>9, <2>1
  <2> HIDE DEF s, l, r, e, Turn
  <2> QED
    BY <1>3, <1>11, <1>15, <2>1, <2>2, <1>10
<1> QED
  BY <1>8, <1>12, <1>13, <1>14, <1>15

(* The double black of a red node, or of the root, comes to an end. *)
LEMMA RedParentKeeps ==
  ASSUME TreeInv, DoubleBlackRedParent
  PROVE  TreeInv'
<1> DEFINE s == sibling
           e == IF lefty THEN left[n] ELSE right[n]
<1>1. /\ pc = "doubleBlack" /\ ~red[s] /\ ~IsRed(left[s]) /\ ~IsRed(right[s]) /\ red[n]
      /\ red' = [red EXCEPT ![n] = FALSE, ![s] = TRUE]
      /\ pc' = "idle" /\ lefty' = FALSE
      /\ UNCHANGED <<nodes, left, right, parent, root, first, last, size>>
  BY DEF DoubleBlackRedParent, BlackNephews, Return, GoTo, linkVars
<1>2. PICK H : Heights(nodes, left, right, red, n, lefty, H)
  BY <1>1 DEF TreeInv, Balanced
<1>3. Siblings(s, e, H)
  <2>1. Sides(s, e)
    BY DEF Sides
  <2> HIDE DEF s, e
  <2> QED
    BY <1>1, <1>2, <2>1, DoubleBlackFacts
<1> HIDE DEF s, e
<1>4. /\ n \in nodes /\ s \in nodes /\ s # n /\ e \in nodes \cup {0} /\ s # e /\ s # root
      /\ (lefty /\ s = right[n] /\ e = left[n]) \/ (~lefty /\ s = left[n] /\ e = right[n])
      /\ H[e] \in Nat /\ H[s] = H[e] + 1 /\ H[n] = H[s] + (IF red[n] THEN 0 ELSE 1)
      /\ e = 0 \/ ~red[e]
      /\ H \in [nodes \cup {0} -> Nat] /\ H[0] = 0
      /\ \A w \in nodes : w # n => /\ H[w] = H[left[w]] + (IF red[w] THEN 0 ELSE 1)
                                   /\ H[w] = H[right[w]] + (IF red[w] THEN 0 ELSE 1)
      /\ \A w \in nodes : red[w] => /\ left[w] = 0 \/ ~red[left[w]]
                                    /\ right[w] = 0 \/ ~red[right[w]]
      /\ ~red[s] => H[left[s]] = H[e] /\ H[right[s]] = H[e]
  BY <1>3 DEF Siblings
<1>5. /\ Shape /\ red \in [nodes -> BOOLEAN] /\ (root # Null => ~red[root])
      /\ lefty \in BOOLEAN
  BY <1>1 DEF TreeInv, Balanced, Working
<1>6. /\ 0 \notin nodes
      /\ \A x \in nodes : /\ left[x] \in nodes \cup {0} /\ right[x] \in nodes \cup {0}
                          /\ left[x] # 0 => parent[left[x]] = x
                          /\ right[x] # 0 => parent[right[x]] = x
      /\ root \in nodes /\ parent[root] = 0
  BY <1>4, <1>5, ShapeFacts
<1>7. /\ red' \in [nodes -> BOOLEAN] /\ ~red'[n] /\ red'[s]
      /\ \A w \in nodes : w # n /\ w # s => red'[w] = red[w]
  BY <1>1, <1>4, <1>5
<1>8. \A w \in nodes : w # n => left[w] # s /\ right[w] # s
  BY <1>4, <1>6
<1>9. left[s] # s /\ right[s] # s /\ left[s] # n /\ right[s] # n
  <2>1. PICK S : IsTree(nodes, left, right, parent, root, S)
    BY <1>5 DEF Shape
  <2>2. parent[s] = n /\ n # 0 /\ s # 0
    BY <1>4, <1>6
  <2>3. s \in S[n] /\ n \notin S[s]
    BY <2>1, <2>2, <1>4, BelowParent
  <2>4. \A w \in nodes : w \in S[w] /\ (w \in S[s] <=> w = s \/ w \in S[left[s]] \/ w \in S[right[s]])
    BY <2>1, <1>4 DEF IsTree
  <2> QED
    BY <2>3, <2>4, <1>4, <1>8
<1>10. Links(nodes, left, right)
  BY <1>6 DEF Links
<1>11. \E H2 : Heights(nodes, left, right, red', 0, FALSE, H2)
  <2> DEFINE H2 == [w \in nodes \cup {0} |-> IF w = s THEN H[e] ELSE H[w]]
  <2>1. H2 \in [nodes \cup {0} -> Nat] /\ H2[0] = 0
    BY <1>4, <1>6
  <2>2. \A w \in nodes \cup {0} : H2[w] = IF w = s THEN H[e] ELSE H[w]
    OBVIOUS
  <2> HIDE DEF H2
  <2>3. \A w \in nodes : left[w] \in nodes \cup {0} /\ right[w] \in nodes \cup {0}
    BY <1>6
  <2>4. ASSUME NEW w \in nodes
        PROVE  /\ H2[w] = H2[left[w]] + (IF red'[w] THEN 0 ELSE 1)
               /\ H2[w] = H2[right[w]] + (IF red'[w] THEN 0 ELSE 1)
    <3>1. CASE w = n
      <4>1. H2[left[w]] = H[e] /\ H2[right[w]] = H[e] /\ H2[w] = H[e] + 1
        BY <3>1, <2>2, <2>3, <1>1, <1>4
      <4> QED
        BY <4>1, <3>1, <1>7
    <3>2. CASE w = s
      <4>1. H2[left[w]] = H[e] /\ H2[right[w]] = H[e] /\ H2[w] = H[e]
        BY <3>2, <2>2, <2>3, <1>1, <1>4, <1>9
      <4> QED
        BY <4>1, <3>2, <1>4, <1>7
    <3>3. CASE w # n /\ w # s
      <4>1. H2[left[w]] = H[left[w]] /\ H2[right[w]] = H[right[w]] /\ H2[w] = H[w]
        BY <3>3, <2>2, <2>3, <1>8
      <4> QED
        BY <4>1, <3>3, <1>4, <1>7
    <3> QED
      BY <3>1, <3>2, <3>3
  <2>5. Level(nodes, left, right, red', H2)
    BY <2>1, <2>4 DEF Level
  <2> QED
    BY ONLY <2>5, <1>10, HeightsPlain
<1>12. Painted(nodes, left, right, red', 0)
  <2> SUFFICES ASSUME NEW w \in nodes, red'[w]
               PROVE  (left[w] = 0 \/ ~red'[left[w]]) /\ (right[w] = 0 \/ ~red'[right[w]])
    BY DEF Painted
  <2>1. w # n
    BY <1>7
  <2>2. left[w] \in nodes \cup {0} /\ right[w] \in nodes \cup {0}
    BY <1>6
  <2>3. CASE w = s
    BY <2>2, <2>3, <1>1, <1>7, <1>9 DEF IsRed, Null
  <2>4. CASE w # s
    <3>1. red[w]
      BY <2>1, <2>4, <1>7
    <3>2. (left[w] = 0 \/ ~red[left[w]]) /\ (right[w] = 0 \/ ~red[right[w]])
      BY <3>1, <1>4
    <3> QED
      BY <3>2, <2>1, <2>2, <1>7, <1>8
  <2> QED
    BY <2>3, <2>4
<1>13. ~red'[root]
  BY <1>4, <1>5, <1>6, <1>7 DEF Null
<1>14. Balanced'
  BY <1>1, <1>11, <1>12, <1>13 DEF Balanced
<1>15. Working'
  BY <1>1 DEF Working
<1> QED
  BY <1>1, <1>7, <1>14, <1>15, Recoloured

(* It goes up from a black node. *)
LEMMA UpKeeps ==
  ASSUME TreeInv, DoubleBlackUp
  PROVE  TreeInv'
<1> DEFINE s == sibling
           e == IF lefty THEN left[n] ELSE right[n]
<1>1. /\ pc = "doubleBlack" /\ ~red[s] /\ ~IsRed(left[s]) /\ ~IsRed(right[s]) /\ ~red[n]
      /\ red' = [red EXCEPT ![s] = TRUE]
      /\ IF n = root THEN pc' = "idle" /\ lefty' = FALSE
         ELSE pc' = pc /\ n' = parent[n] /\ lefty' = (n = left[parent[n]])
      /\ UNCHANGED <<nodes, left, right, parent, root, first, last, size>>
  BY DEF DoubleBlackUp, BlackNephews, Return, GoTo, linkVars
<1>2. PICK H : Heights(nodes, left, right, red, n, lefty, H)
  BY <1>1 DEF TreeInv, Balanced
<1>3. Siblings(s, e, H)
  <2>1. Sides(s, e)
    BY DEF Sides
  <2> HIDE DEF s, e
  <2> QED
    BY <1>1, <1>2, <2>1, DoubleBlackFacts
<1> HIDE DEF s, e
<1>4. /\ n \in nodes /\ s \in nodes /\ s # n /\ e \in nodes \cup {0} /\ s # e /\ s # root
      /\ (lefty /\ s = right[n] /\ e = left[n]) \/ (~lefty /\ s = left[n] /\ e = right[n])
      /\ H[e] \in Nat /\ H[s] = H[e] + 1 /\ H[n] = H[s] + (IF red[n] THEN 0 ELSE 1)
      /\ e = 0 \/ ~red[e]
      /\ H \in [nodes \cup {0} -> Nat] /\ H[0] = 0
      /\ \A w \in nodes : w # n => /\ H[w] = H[left[w]] + (IF red[w] THEN 0 ELSE 1)
                                   /\ H[w] = H[right[w]] + (IF red[w] THEN 0 ELSE 1)
      /\ \A w \in nodes : red[w] => /\ left[w] = 0 \/ ~red[left[w]]
                                    /\ right[w] = 0 \/ ~red[right[w]]
      /\ ~red[s] => H[left[s]] = H[e] /\ H[right[s]] = H[e]
  BY <1>3 DEF Siblings
<1>5. /\ Shape /\ red \in [nodes -> BOOLEAN] /\ (root # Null => ~red[root])
      /\ lefty \in BOOLEAN
  BY <1>1 DEF TreeInv, Balanced, Working
<1>6. /\ 0 \notin nodes
      /\ \A x \in nodes : /\ left[x] \in nodes \cup {0} /\ right[x] \in nodes \cup {0}
                          /\ left[x] # 0 => parent[left[x]] = x
                          /\ right[x] # 0 => parent[right[x]] = x
                          /\ x # root => parent[x] \in nodes /\ x \in {left[parent[x]], right[parent[x]]}
      /\ root \in nodes /\ parent[root] = 0
  BY <1>4, <1>5, ShapeFacts
<1>7. /\ red' \in [nodes -> BOOLEAN] /\ ~red'[n] /\ red'[s]
      /\ \A w \in nodes : w # s => red'[w] = red[w]
  BY <1>1, <1>4, <1>5
<1>8. \A w \in nodes : w # n => left[w] # s /\ right[w] # s
  BY <1>4, <1>6
<1>9. left[s] # s /\ right[s] # s /\ left[s] # n /\ right[s] # n
  <2>1. PICK S : IsTree(nodes, left, right, parent, root, S)
    BY <1>5 DEF Shape
  <2>2. parent[s] = n /\ n # 0 /\ s # 0
    BY <1>4, <1>6
  <2>3. s \in S[n] /\ n \notin S[s]
    BY <2>1, <2>2, <1>4, BelowParent
  <2>4. \A w \in nodes : w \in S[w] /\ (w \in S[s] <=> w = s \/ w \in S[left[s]] \/ w \in S[right[s]])
    BY <2>1, <1>4 DEF IsTree
  <2> QED
    BY <2>3, <2>4, <1>4, <1>8
<1>10. n # root => n # parent[n] /\ left[parent[n]] # right[parent[n]]
  <2>1. \A w \in nodes : /\ left[w] # 0 => left[w] < w /\ left[w] \in Nat
                         /\ right[w] # 0 => w < right[w] /\ right[w] \in Nat
                         /\ w \in Nat
    BY <1>5, ShapeFacts
  <2>2. n # root => parent[n] \in nodes /\ n # 0 /\ n \in {left[parent[n]], right[parent[n]]}
    BY <1>4, <1>6
  <2>3. n # root => n # parent[n]
    BY <2>1, <2>2
  <2> QED
    BY <2>1, <2>2, <2>3
<1> DEFINE H2 == [w \in nodes \cup {0} |-> IF w = s THEN H[e] ELSE IF w = n THEN H[e] + 1 ELSE H[w]]
<1>11. H2 \in [nodes \cup {0} -> Nat] /\ H2[0] = 0
  BY <1>4, <1>6
<1>12. \A w \in nodes \cup {0} : H2[w] = IF w = s THEN H[e] ELSE IF w = n THEN H[e] + 1 ELSE H[w]
  OBVIOUS
<1>13. H[n] = H[e] + 1 + 1
  BY <1>1, <1>4
<1> HIDE DEF H2
<1>14. \A w \in nodes : left[w] \in nodes \cup {0} /\ right[w] \in nodes \cup {0}
  BY <1>6
<1>15. /\ H2[n] = H2[left[n]] + (IF red'[n] THEN 0 ELSE 1)
       /\ H2[n] = H2[right[n]] + (IF red'[n] THEN 0 ELSE 1)
  <2>1. e # n
    <3>1. left[n] # n /\ right[n] # n
      BY <1>4, <1>5, ShapeFacts
    <3> QED
      BY <3>1, <1>4
  <2>2. H2[left[n]] = H[e] /\ H2[right[n]] = H[e] /\ H2[n] = H[e] + 1
    BY <2>1, <1>12, <1>14, <1>4
  <2> QED
    BY <2>2, <1>7
<1>16. /\ H2[s] = H2[left[s]] + (IF red'[s] THEN 0 ELSE 1)
       /\ H2[s] = H2[right[s]] + (IF red'[s] THEN 0 ELSE 1)
  <2>1. H2[left[s]] = H[e] /\ H2[right[s]] = H[e] /\ H2[s] = H[e]
    BY <1>12, <1>14, <1>1, <1>4, <1>9
  <2> QED
    BY <2>1, <1>4, <1>7
<1>17. ASSUME NEW w \in nodes, w # n, w # s
       PROVE  /\ H2[w] = H2[left[w]] + (IF red'[w] THEN 0 ELSE 1) + (IF left[w] = n THEN 1 ELSE 0)
              /\ H2[w] = H2[right[w]] + (IF red'[w] THEN 0 ELSE 1) + (IF right[w] = n THEN 1 ELSE 0)
  <2>1. H2[w] = H[w] /\ red'[w] = red[w] /\ left[w] # s /\ right[w] # s
    BY <1>17, <1>12, <1>7, <1>8
  <2>2. left[w] \in nodes \cup {0} /\ right[w] \in nodes \cup {0}
    BY <1>14
  <2>3. /\ H[left[w]] = H2[left[w]] + (IF left[w] = n THEN 1 ELSE 0) /\ H2[left[w]] \in Nat
        /\ H[right[w]] = H2[right[w]] + (IF right[w] = n THEN 1 ELSE 0) /\ H2[right[w]] \in Nat
    <3>1. n # s /\ n \in nodes
      BY <1>4
    <3>2. H2[left[w]] \in Nat /\ H2[right[w]] \in Nat /\ H[left[w]] \in Nat /\ H[right[w]] \in Nat
      BY <2>2, <1>11, <1>4
    <3>3. H[left[w]] = H2[left[w]] + (IF left[w] = n THEN 1 ELSE 0)
      BY <2>1, <2>2, <3>1, <3>2, <1>12, <1>13
    <3>4. H[right[w]] = H2[right[w]] + (IF right[w] = n THEN 1 ELSE 0)
      BY <2>1, <2>2, <3>1, <3>2, <1>12, <1>13
    <3> QED
      BY <3>2, <3>3, <3>4
  <2>4. /\ H[w] = H[left[w]] + (IF red[w] THEN 0 ELSE 1)
        /\ H[w] = H[right[w]] + (IF red[w] THEN 0 ELSE 1)
    BY <1>17, <1>4
  <2> QED
    BY <2>1, <2>3, <2>4
<1>18. Painted(nodes, left, right, red', 0)
  <2> SUFFICES ASSUME NEW w \in nodes, red'[w]
               PROVE  (left[w] = 0 \/ ~red'[left[w]]) /\ (right[w] = 0 \/ ~red'[right[w]])
    BY DEF Painted
  <2>1. w # n
    BY <1>7
  <2>2. left[w] \in nodes \cup {0} /\ right[w] \in nodes \cup {0}
    BY <1>6
  <2>3. CASE w = s
    BY <2>2, <2>3, <1>1, <1>7, <1>9 DEF IsRed, Null
  <2>4. CASE w # s
    <3>1. red[w]
      BY <2>4, <1>7
    <3>2. (left[w] = 0 \/ ~red[left[w]]) /\ (right[w] = 0 \/ ~red[right[w]])
      BY <3>1, <1>4
    <3> QED
      BY <3>2, <2>1, <2>2, <1>7, <1>8
  <2> QED
    BY <2>3, <2>4
<1>19. ~red'[root]
  BY <1>4, <1>5, <1>6, <1>7 DEF Null
<1>20. CASE n = root
  <2>1. \A w \in nodes : left[w] # n /\ right[w] # n
    BY <1>20, <1>4, <1>6
  <2>2. ASSUME NEW w \in nodes
        PROVE  /\ H2[w] = H2[left[w]] + (IF red'[w] THEN 0 ELSE 1)
               /\ H2[w] = H2[right[w]] + (IF red'[w] THEN 0 ELSE 1)
    <3>1. H2[left[w]] \in Nat /\ H2[right[w]] \in Nat
      <4>1. left[w] \in nodes \cup {0} /\ right[w] \in nodes \cup {0}
        BY <1>14
      <4> QED
        BY <4>1, <1>11
    <3>2. CASE w # n /\ w # s
      BY <3>1, <3>2, <1>17, <2>1
    <3> QED
      BY <3>2, <1>15, <1>16
  <2>3. Level(nodes, left, right, red', H2)
    BY <1>11, <2>2 DEF Level
  <2>4. Links(nodes, left, right)
    BY <1>6 DEF Links
  <2>5. Heights(nodes, left, right, red', 0, FALSE, H2)
    BY ONLY <2>3, <2>4, HeightsPlain
  <2>6. Balanced'
    BY <2>5, <1>1, <1>18, <1>19, <1>20 DEF Balanced
  <2>7. Working'
    BY <1>1, <1>20 DEF Working
  <2> QED
    BY <1>1, <1>7, <2>6, <2>7, Recoloured
<1>21. CASE n # root
  <2> DEFINE q == parent[n]
  <2>1. /\ q \in nodes /\ q # n /\ (n = left[q] \/ n = right[q]) /\ ~(n = left[q] /\ n = right[q])
        /\ pc' = "doubleBlack" /\ n' = q /\ lefty' = (n = left[q]) /\ lefty' \in BOOLEAN
    BY <1>1, <1>4, <1>6, <1>10, <1>21
  <2>2. \A w \in nodes : (left[w] = n => w = q) /\ (right[w] = n => w = q)
    BY <1>4, <1>6
  <2>2a. q # s
    BY <2>1, <1>9
  <2> HIDE DEF q
  <2>3. ASSUME NEW w \in nodes
        PROVE  /\ H2[w] = H2[left[w]] + (IF red'[w] THEN 0 ELSE 1) + (IF w = q /\ lefty' THEN 1 ELSE 0)
               /\ H2[w] = H2[right[w]] + (IF red'[w] THEN 0 ELSE 1) + (IF w = q /\ ~lefty' THEN 1 ELSE 0)
    <3>1. H2[left[w]] \in Nat /\ H2[right[w]] \in Nat
      <4>1. left[w] \in nodes \cup {0} /\ right[w] \in nodes \cup {0}
        BY <1>14
      <4> QED
        BY <4>1, <1>11
    <3>2. CASE w = n
      BY <3>1, <3>2, <1>15, <2>1
    <3>3. CASE w = s
      BY <3>1, <3>3, <1>16, <2>2a
    <3>4. CASE w # n /\ w # s
      <4>1. (left[w] = n <=> w = q /\ lefty') /\ (right[w] = n <=> w = q /\ ~lefty')
        BY <2>1, <2>2
      <4> QED
        BY <4>1, <3>4, <1>17
    <3> QED
      BY <3>2, <3>3, <3>4
  <2>4. Heights(nodes, left, right, red', q, lefty', H2)
    BY <1>11, <2>3 DEF Heights
  <2>5. Balanced'
    BY <2>1, <2>4, <1>1, <1>18, <1>19 DEF Balanced
  <2>7. Working'
    <3>1. ~red'[n]
      BY <1>7
    <3>2. (IF lefty' THEN left'[q] ELSE right'[q]) = n
      BY <1>1, <2>1
    <3>3. q \in nodes' /\ n' = q /\ pc' = "doubleBlack" /\ lefty' \in BOOLEAN
      BY <1>1, <2>1
    <3> QED
      BY <3>1, <3>2, <3>3 DEF Working, IsRed
  <2> QED
    BY <1>1, <1>7, <2>5, <2>7, Recoloured
<1> QED
  BY <1>20, <1>21

(* Main case 4 of double_black_transform keeps the invariant: the short side has
   a black sibling and a red parent then. *)
LEMMA RedSiblingKeeps ==
  ASSUME TreeInv, DoubleBlackRedSibling
  PROVE  TreeInv'
<1> DEFINE s == sibling
           e == IF lefty THEN left[n] ELSE right[n]
           b == InnerNephew
           x == IF lefty THEN n ELSE s
           z == IF lefty THEN s ELSE n
<1>1. /\ pc = "doubleBlack" /\ red[s]
      /\ red' = [red EXCEPT ![n] = TRUE, ![s] = FALSE]
      /\ root' = IF n = root THEN s ELSE root
      /\ UNCHANGED <<nodes, first, last, size, pc, n, lefty>>
  BY DEF DoubleBlackRedSibling
<1>2. PICK H : Heights(nodes, left, right, red, n, lefty, H)
  BY <1>1 DEF TreeInv, Balanced
<1>3. Siblings(s, e, H)
  <2>1. Sides(s, e)
    BY DEF Sides
  <2> HIDE DEF s, e
  <2> QED
    BY <1>1, <1>2, <2>1, DoubleBlackFacts
<1>4. /\ nodes \subseteq Keys /\ Shape /\ Ends /\ red \in [nodes -> BOOLEAN] /\ (root # Null => ~red[root])
      /\ lefty \in BOOLEAN /\ n \in nodes
  BY <1>1 DEF TreeInv, Balanced, Working
<1>5. b = IF lefty THEN left[s] ELSE right[s]
  BY DEF InnerNephew
<1>6. /\ left' = [k \in nodes |-> IF lefty /\ k = s THEN n
                                  ELSE IF ~lefty /\ k = n THEN b
                                  ELSE IF k = parent[n] /\ left[k] = n THEN s ELSE left[k]]
      /\ right' = [k \in nodes |-> IF ~lefty /\ k = s THEN n
                                   ELSE IF lefty /\ k = n THEN b
                                   ELSE IF k = parent[n] /\ left[k] # n THEN s ELSE right[k]]
      /\ parent' = [k \in nodes |-> IF k = s THEN parent[n] ELSE IF k = n THEN s
                                    ELSE IF k = b THEN n ELSE parent[k]]
  BY <1>4 DEF DoubleBlackRedSibling
<1> HIDE DEF s, e, b
<1>7. /\ n \in nodes /\ s \in nodes /\ s # n /\ e \in nodes \cup {0} /\ s # e /\ s # root
      /\ (lefty /\ s = right[n] /\ e = left[n]) \/ (~lefty /\ s = left[n] /\ e = right[n])
      /\ H[e] \in Nat /\ H[s] = H[e] + 1 /\ H[n] = H[s] + (IF red[n] THEN 0 ELSE 1)
      /\ e = 0 \/ ~red[e]
      /\ H \in [nodes \cup {0} -> Nat] /\ H[0] = 0
      /\ \A w \in nodes : w # n => /\ H[w] = H[left[w]] + (IF red[w] THEN 0 ELSE 1)
                                   /\ H[w] = H[right[w]] + (IF red[w] THEN 0 ELSE 1)
      /\ \A w \in nodes : red[w] => /\ left[w] = 0 \/ ~red[left[w]]
                                    /\ right[w] = 0 \/ ~red[right[w]]
      /\ red[s] => /\ ~red[n]
                   /\ left[s] \in nodes /\ right[s] \in nodes
                   /\ H[left[s]] = H[s] /\ H[right[s]] = H[s]
  BY <1>3 DEF Siblings
<1>8. Turns(nodes, left, right, parent, root, n, s, x, z, b, left', right', parent', root')
  <2>1. CASE lefty
    <3>1. x = n /\ z = s
      BY <2>1
    <3>2. left' = [k \in nodes |-> IF k = z THEN (IF s = z THEN x ELSE b)
                                   ELSE IF k = parent[n] /\ left[k] = n THEN s ELSE left[k]]
      BY <2>1, <3>1, <1>6
    <3>3. right' = [k \in nodes |-> IF k = x THEN (IF s = x THEN z ELSE b)
                                    ELSE IF k = parent[n] /\ left[k] # n THEN s ELSE right[k]]
      BY <2>1, <3>1, <1>6, <1>7
    <3>4. s = right[n] /\ b = left[s]
      BY <2>1, <1>5, <1>7
    <3> HIDE DEF x, z
    <3> QED
      BY <3>1, <3>2, <3>3, <3>4, <1>1, <1>6, <1>7 DEF Turns
  <2>2. CASE ~lefty
    <3>1. x = s /\ z = n
      BY <2>2
    <3>2. left' = [k \in nodes |-> IF k = z THEN (IF s = z THEN x ELSE b)
                                   ELSE IF k = parent[n] /\ left[k] = n THEN s ELSE left[k]]
      BY <2>2, <3>1, <1>6, <1>7
    <3>3. right' = [k \in nodes |-> IF k = x THEN (IF s = x THEN z ELSE b)
                                    ELSE IF k = parent[n] /\ left[k] # n THEN s ELSE right[k]]
      BY <2>2, <3>1, <1>6
    <3>4. s = left[n] /\ b = right[s]
      BY <2>2, <1>5, <1>7
    <3> HIDE DEF x, z
    <3> QED
      BY <3>1, <3>2, <3>3, <3>4, <1>1, <1>6, <1>7 DEF Turns
  <2> QED
    BY <2>1, <2>2
<1>9. (lefty /\ x = n /\ z = s) \/ (~lefty /\ x = s /\ z = n)
  OBVIOUS
<1> HIDE DEF x, z
<1>10. PICK S : IsTree(nodes, left, right, parent, root, S)
  BY <1>4 DEF Shape
<1>11. Shape'
  <2>1. \E S2 : IsTree(nodes, left', right', parent', root', S2)
    BY <1>8, <1>10, TurnKeepsTree
  <2> QED
    BY <2>1, <1>1 DEF Shape
<1>12. TurnLinks(nodes, left, right, n, s, x, z, b, left', right')
  BY <1>8, <1>10, TurnedLinks
<1>13. /\ 0 \notin nodes
       /\ left'[x] = left[x] /\ right'[x] = (IF s = x THEN z ELSE b)
       /\ left'[z] = (IF s = z THEN x ELSE b) /\ right'[z] = right[z]
       /\ b \notin {n, s} /\ left[x] \notin {n, s} /\ right[z] \notin {n, s}
       /\ b \in nodes \cup {0} /\ left[x] \in nodes \cup {0} /\ right[z] \in nodes \cup {0}
       /\ \A k \in nodes : k \notin {n, s} => /\ left[k] \in nodes \cup {0} /\ right[k] \in nodes \cup {0}
                                              /\ left[k] # s /\ right[k] # s
                                              /\ left'[k] = IF left[k] = n THEN s ELSE left[k]
                                              /\ right'[k] = IF right[k] = n THEN s ELSE right[k]
  BY <1>12, <1>9 DEF TurnLinks
<1>14. /\ red' \in [nodes -> BOOLEAN] /\ red'[n] /\ ~red'[s]
       /\ \A w \in nodes : w \notin {n, s} => red'[w] = red[w]
  BY <1>1, <1>4, <1>7
<1>15. /\ H[n] = H[s] + 1 /\ H[b] = H[s] /\ H[s] \in Nat /\ ~red[b] /\ b \in nodes
  BY <1>1, <1>5, <1>7
<1> DEFINE H2 == [w \in nodes \cup {0} |-> IF w = s THEN H[n] ELSE IF w = n THEN H[s] ELSE H[w]]
<1>16. H2 \in [nodes \cup {0} -> Nat] /\ H2[0] = 0
  BY <1>7, <1>13
<1>17. \A w \in nodes \cup {0} : H2[w] = IF w = s THEN H[n] ELSE IF w = n THEN H[s] ELSE H[w]
  OBVIOUS
<1> HIDE DEF H2
<1>18. H2[s] = H[s] + 1 /\ H2[n] = H[s] /\ H2[b] = H[s] /\ H2[e] = H[e] /\ e \notin {n, s}
  <2>1. e \notin {n, s}
    BY <1>7, <1>9, <1>13
  <2> QED
    BY <2>1, <1>7, <1>13, <1>15, <1>17
<1>19. /\ (IF lefty THEN left'[n] ELSE right'[n]) = e
       /\ (IF lefty THEN right'[n] ELSE left'[n]) = b
       /\ (IF lefty THEN left'[s] ELSE right'[s]) = n
       /\ (IF lefty THEN right'[s] ELSE left'[s]) = (IF lefty THEN right[s] ELSE left[s])
       /\ (IF lefty THEN right[s] ELSE left[s]) \in nodes \ {n, s}
  BY <1>1, <1>7, <1>9, <1>13
<1>20. ASSUME NEW w \in nodes
       PROVE  /\ H2[w] = H2[left'[w]] + (IF red'[w] THEN 0 ELSE 1) + (IF w = n /\ lefty THEN 1 ELSE 0)
              /\ H2[w] = H2[right'[w]] + (IF red'[w] THEN 0 ELSE 1) + (IF w = n /\ ~lefty THEN 1 ELSE 0)
  <2>1. CASE w = n
    <3>1. H[s] = H[e] + 1 /\ H[e] \in Nat /\ H[s] \in Nat
      BY <1>7, <1>15
    <3>2. CASE lefty
      <4>1. left'[w] = e /\ right'[w] = b
        BY <2>1, <3>2, <1>19
      <4> QED
        BY <4>1, <2>1, <3>1, <3>2, <1>14, <1>18
    <3>3. CASE ~lefty
      <4>1. left'[w] = b /\ right'[w] = e
        BY <2>1, <3>3, <1>19
      <4> QED
        BY <4>1, <2>1, <3>1, <3>3, <1>14, <1>18
    <3> QED
      BY <3>2, <3>3
  <2>2. CASE w = s
    <3> DEFINE f == IF lefty THEN right[s] ELSE left[s]
    <3>1. H2[f] = H[s]
      <4>1. H[f] = H[s]
        BY <1>1, <1>7
      <4> QED
        BY <4>1, <1>17, <1>19
    <3>2. \/ left'[s] = n /\ right'[s] = f
          \/ left'[s] = f /\ right'[s] = n
      BY <1>19
    <3> HIDE DEF f
    <3> QED
      BY <2>2, <3>1, <3>2, <1>7, <1>14, <1>15, <1>18
  <2>3. CASE w \notin {n, s}
    <3>1. /\ H2[w] = H[w] /\ red'[w] = red[w]
          /\ H[w] = H[left[w]] + (IF red[w] THEN 0 ELSE 1)
          /\ H[w] = H[right[w]] + (IF red[w] THEN 0 ELSE 1)
      BY <2>3, <1>7, <1>14, <1>17
    <3>2. /\ left[w] \in nodes \cup {0} /\ right[w] \in nodes \cup {0}
          /\ left[w] # s /\ right[w] # s
          /\ left'[w] = IF left[w] = n THEN s ELSE left[w]
          /\ right'[w] = IF right[w] = n THEN s ELSE right[w]
      BY <2>3, <1>13
    <3>3. H2[left'[w]] = H[left[w]] /\ H2[right'[w]] = H[right[w]]
      BY <3>2, <1>7, <1>17
    <3>4. H[left[w]] \in Nat /\ H[right[w]] \in Nat
      BY <3>2, <1>7
    <3> QED
      BY <2>3, <3>1, <3>3, <3>4
  <2> QED
    BY <2>1, <2>2, <2>3
<1>21. Heights(nodes, left', right', red', n, lefty, H2)
  BY <1>16, <1>20 DEF Heights
<1>22. Painted(nodes, left', right', red', 0)
  <2> SUFFICES ASSUME NEW w \in nodes, red'[w]
               PROVE  (left'[w] = 0 \/ ~red'[left'[w]]) /\ (right'[w] = 0 \/ ~red'[right'[w]])
    BY DEF Painted
  <2>1. w # s
    BY <1>14
  <2>2. CASE w = n
    <3>1. (e = 0 \/ ~red'[e]) /\ ~red'[b]
      BY <1>7, <1>13, <1>14, <1>15, <1>18
    <3>2. (left'[n] = e /\ right'[n] = b) \/ (left'[n] = b /\ right'[n] = e)
      BY <1>19
    <3> QED
      BY <2>2, <3>1, <3>2
  <2>3. CASE w # n
    <3>1. red[w]
      BY <2>1, <2>3, <1>14
    <3>2. (left[w] = 0 \/ ~red[left[w]]) /\ (right[w] = 0 \/ ~red[right[w]])
      BY <3>1, <1>7
    <3>3. /\ left[w] \in nodes \cup {0} /\ right[w] \in nodes \cup {0}
          /\ left[w] # s /\ right[w] # s
          /\ left'[w] = IF left[w] = n THEN s ELSE left[w]
          /\ right'[w] = IF right[w] = n THEN s ELSE right[w]
      BY <2>1, <2>3, <1>13
    <3> QED
      BY <3>2, <3>3, <1>14
  <2> QED
    BY <2>2, <2>3
<1>23. root' # Null => ~red'[root']
  <2>1. root \in nodes
    BY <1>4, <1>7, ShapeFacts
  <2> QED
    BY <2>1, <1>1, <1>4, <1>7, <1>13, <1>14 DEF Null
<1>24. Balanced'
  BY <1>1, <1>21, <1>22, <1>23 DEF Balanced
<1>25. Working'
  <2>1. e = 0 \/ ~red'[e]
    BY <1>7, <1>13, <1>14, <1>18
  <2> QED
    BY <2>1, <1>1, <1>4, <1>19 DEF Working, IsRed, Null
<1>26. Ends'
  BY <1>1, <1>4 DEF Ends
<1> QED
  BY <1>1, <1>4, <1>11, <1>14, <1>24, <1>25, <1>26 DEF TreeInv

-----------------------------------------------------------------------------
(* What the iterators and searches return. *)

(* What NextAfter and NextBefore choose. *)
LEMMA AfterFacts ==
  ASSUME NEW A, A \subseteq Nat \ {0}
  PROVE  /\ NextAfter(A) \in A \cup {0}
         /\ NextAfter(A) = 0 <=> A = {}
         /\ \A y \in A : NextAfter(A) <= y
         /\ \A v \in A : (\A y \in A : v <= y) => NextAfter(A) = v
<1>1. CASE A = {}
  BY <1>1 DEF NextAfter, Null
<1>2. CASE A # {}
  <2>1. PICK m \in A : \A y \in A : m <= y
    <3>1. PICK a : a \in A
      BY <1>2
    <3>2. A \in SUBSET Nat
      OBVIOUS
    <3> QED
      BY <3>1, <3>2, Least
  <2>2. NextAfter(A) = Min(A)
    BY <1>2 DEF NextAfter
  <2>3. Min(A) \in A /\ \A y \in A : Min(A) <= y
    BY <2>1 DEF Min
  <2>4. \A u \in A : u \in Nat /\ u # 0
    OBVIOUS
  <2>5. \A v \in A : (\A y \in A : v <= y) => Min(A) = v
    <3> TAKE v \in A
    <3>1. Min(A) \in Nat /\ v \in Nat
      BY <2>3, <2>4
    <3> QED
      BY <2>3, <3>1
  <2> QED
    BY <1>2, <2>2, <2>3, <2>4, <2>5
<1> QED
  BY <1>1, <1>2

(* The greatest of a bounded set of keys, if there is one. *)
LEMMA BeforeFacts ==
  ASSUME NEW A, A \subseteq Nat \ {0}, NEW b \in Nat, \A y \in A : y <= b
  PROVE  /\ NextBefore(A) \in A \cup {0}
         /\ NextBefore(A) = 0 <=> A = {}
         /\ \A y \in A : y <= NextBefore(A)
         /\ \A v \in A : (\A y \in A : y <= v) => NextBefore(A) = v
<1>1. CASE A = {}
  BY <1>1 DEF NextBefore, Null
<1>2. CASE A # {}
  <2>1. PICK m \in A : \A y \in A : m >= y
    <3>1. PICK a : a \in A
      BY <1>2
    <3>2. A \in SUBSET Int /\ b \in Int
      OBVIOUS
    <3> QED
      BY <3>1, <3>2, Greatest
  <2>2. NextBefore(A) = Max(A)
    BY <1>2 DEF NextBefore
  <2>3. Max(A) \in A /\ \A y \in A : Max(A) >= y
    BY <2>1 DEF Max
  <2>4. \A u \in A : u \in Nat /\ u # 0
    OBVIOUS
  <2>5. \A v \in A : (\A y \in A : y <= v) => Max(A) = v
    <3> TAKE v \in A
    <3>1. Max(A) \in Nat /\ v \in Nat
      BY <2>3, <2>4
    <3> QED
      BY <2>3, <3>1
  <2>6. \A y \in A : y <= Max(A)
    <3> TAKE y \in A
    <3>1. Max(A) \in Nat /\ y \in Nat
      BY <2>3, <2>4
    <3> QED
      BY <2>3, <3>1
  <2> QED
    BY <1>2, <2>2, <2>3, <2>4, <2>5, <2>6
<1> QED
  BY <1>1, <1>2

(* The sets of the nodes below each node, and what they have to do with the order. *)
Below(S) == IsTree(nodes, left, right, parent, root, S)

(* What a search needs to know of the tree: the nodes below x are x, those below
   its left child, all less, and those below its right child, all greater. *)
Sorts(S) ==
  /\ 0 \notin nodes /\ nodes \subseteq Nat /\ root \in nodes \cup {0}
  /\ S[0] = {} /\ S[root] = nodes
  /\ nodes # {} => root \in nodes
  /\ \A x \in nodes :
       /\ left[x] \in nodes \cup {0} /\ right[x] \in nodes \cup {0}
       /\ x \in S[x] /\ S[x] \subseteq nodes /\ x \in Nat
       /\ S[left[x]] \subseteq S[x] /\ S[right[x]] \subseteq S[x]
       /\ \A y \in S[x] : y = x \/ y \in S[left[x]] \/ y \in S[right[x]]
       /\ \A y \in S[left[x]] : y < x /\ y \in Nat /\ y \in nodes
       /\ \A y \in S[right[x]] : x < y /\ y \in Nat /\ y \in nodes

(* The sets of nodes below each node are such. *)
LEMMA BelowSorts ==
  ASSUME NEW S, Below(S)
  PROVE  Sorts(S)
<1>1. /\ 0 \notin nodes /\ nodes \subseteq Nat /\ root \in nodes \cup {0}
      /\ S[0] = {} /\ S[root] = nodes /\ (nodes # {} => root \in nodes)
      /\ \A x \in nodes : /\ left[x] \in nodes \cup {0} /\ right[x] \in nodes \cup {0}
                          /\ x \in S[x]
      /\ \A x \in nodes \cup {0} : S[x] \subseteq nodes
  BY TreeFacts DEF Below
<1>2. ASSUME NEW x \in nodes
      PROVE  /\ left[x] \in nodes \cup {0} /\ right[x] \in nodes \cup {0}
             /\ x \in S[x] /\ S[x] \subseteq nodes /\ x \in Nat
             /\ S[left[x]] \subseteq S[x] /\ S[right[x]] \subseteq S[x]
             /\ \A y \in S[x] : y = x \/ y \in S[left[x]] \/ y \in S[right[x]]
             /\ \A y \in S[left[x]] : y < x /\ y \in Nat /\ y \in nodes
             /\ \A y \in S[right[x]] : x < y /\ y \in Nat /\ y \in nodes
  <2>1. left[x] \in nodes \cup {0} /\ right[x] \in nodes \cup {0} /\ S[x] \subseteq nodes /\ x \in Nat
    BY <1>1
  <2>2. S[left[x]] \subseteq nodes /\ S[right[x]] \subseteq nodes
    BY <1>1, <2>1
  <2>3. \A y \in nodes : y \in S[x] <=> y = x \/ y \in S[left[x]] \/ y \in S[right[x]]
    BY DEF Below, IsTree
  <2>4. (\A y \in S[left[x]] : y < x) /\ (\A y \in S[right[x]] : x < y)
    BY DEF Below, IsTree
  <2> QED
    BY <1>1, <2>1, <2>2, <2>3, <2>4
<1> QED
  BY <1>1, <1>2 DEF Sorts

(* There is a last node. *)
LEMMA Greatests ==
  ASSUME NEW S, Below(S)
  PROVE  \A x \in nodes : \E m \in S[x] : \A y \in S[x] : y <= m
<1> DEFINE Q == {x \in nodes : \E m \in S[x] : \A y \in S[x] : y <= m}
<1>1. Sorts(S)
  BY BelowSorts
<1>2. ASSUME NEW x \in nodes, right[x] = 0 \/ right[x] \in Q
      PROVE  x \in Q
  <2>1. CASE right[x] = 0
    <3>1. x \in S[x] /\ \A y \in S[x] : y <= x
      BY <1>1, <2>1 DEF Sorts
    <3> QED
      BY <3>1
  <2>2. CASE right[x] \in Q
    <3>1. PICK m \in S[right[x]] : \A y \in S[right[x]] : y <= m
      BY <2>2
    <3>2. m \in S[x] /\ x < m /\ m \in Nat /\ x \in Nat
      BY <1>1, <3>1 DEF Sorts
    <3>3. \A y \in S[x] : y <= m
      <4> TAKE y \in S[x]
      <4>1. y = x \/ (y < x /\ y \in Nat) \/ y \in S[right[x]]
        BY <1>1 DEF Sorts
      <4> QED
        BY <4>1, <3>1, <3>2
    <3> QED
      BY <3>2, <3>3
  <2> QED
    BY <1>2, <2>1, <2>2
<1> HIDE DEF Q
<1>3. \A x \in nodes : x \in Q
  BY <1>2, TreeInduct DEF Below
<1> QED
  BY <1>3 DEF Q

(* The keys of a tree are bounded. *)
LEMMA Bounded ==
  ASSUME NEW S, Below(S)
  PROVE  \E b \in Nat : \A y \in nodes : y <= b
<1>1. Sorts(S)
  BY BelowSorts
<1>2. CASE nodes = {}
  BY <1>2
<1>3. CASE nodes # {}
  <2>1. root \in nodes /\ S[root] = nodes /\ nodes \subseteq Nat
    BY <1>1, <1>3 DEF Sorts
  <2>2. \E m \in S[root] : \A y \in S[root] : y <= m
    BY <2>1, Greatests
  <2> QED
    BY <2>1, <2>2
<1> QED
  BY <1>2, <1>3

(* The first node below x is the least of them. *)
LEMMA LeftmostIs ==
  ASSUME NEW S, Below(S)
  PROVE  \A x \in nodes : leftmost[x] = NextAfter(S[x])
<1> DEFINE F(it) == [x \in nodes |-> IF left[x] = Null THEN x ELSE it[left[x]]]
           c == CHOOSE it : it = F(it)
           w == [x \in nodes |-> NextAfter(S[x])]
           Q == {x \in nodes : leftmost[x] = NextAfter(S[x])}
<1>1. Sorts(S)
  BY BelowSorts
<1>2. \A x \in nodes : left[x] = 0 \/ left[x] \in nodes
  BY <1>1 DEF Sorts
<1>3. ASSUME NEW x \in nodes
      PROVE  NextAfter(S[x]) = IF left[x] = 0 THEN x ELSE NextAfter(S[left[x]])
  <2>1. S[x] \subseteq Nat \ {0} /\ S[left[x]] \subseteq Nat \ {0}
    BY <1>1 DEF Sorts
  <2>2. CASE left[x] = 0
    <3>1. x \in S[x] /\ \A y \in S[x] : x <= y
      BY <1>1, <2>2 DEF Sorts
    <3> QED
      BY <2>1, <2>2, <3>1, AfterFacts
  <2>3. CASE left[x] # 0
    <3> DEFINE m == NextAfter(S[left[x]])
    <3>1. left[x] \in nodes /\ left[x] \in S[left[x]]
      BY <1>1, <2>3, <1>2 DEF Sorts
    <3>2. m \in S[left[x]] /\ \A y \in S[left[x]] : m <= y
      BY <2>1, <3>1, AfterFacts
    <3> HIDE DEF m
    <3>3. m \in S[x] /\ m < x /\ m \in Nat /\ x \in Nat
      BY <1>1, <3>2 DEF Sorts
    <3>4. \A y \in S[x] : m <= y
      <4> TAKE y \in S[x]
      <4>1. y = x \/ (x < y /\ y \in Nat) \/ y \in S[left[x]]
        BY <1>1 DEF Sorts
      <4> QED
        BY <4>1, <3>2, <3>3
    <3>5. NextAfter(S[x]) = m
      BY <2>1, <3>3, <3>4, AfterFacts
    <3> QED
      BY <3>5, <2>3 DEF m
  <2> QED
    BY <2>2, <2>3
<1>4. w = F(w)
  <2> SUFFICES ASSUME NEW x \in nodes
               PROVE  w[x] = IF left[x] = Null THEN x ELSE w[left[x]]
    OBVIOUS
  <2> QED
    BY <1>2, <1>3 DEF Null
<1>5. leftmost = c
  BY DEF leftmost
<1>6. c = F(c)
  <2> HIDE DEF w, F
  <2> QED
    BY <1>4
<1>7. \A x \in nodes : leftmost[x] = IF left[x] = 0 THEN x ELSE leftmost[left[x]]
  <2> HIDE DEF c
  <2> QED
    BY <1>5, <1>6 DEF Null
<1>8. \A x \in nodes : (left[x] = 0 \/ left[x] \in Q) => x \in Q
  BY <1>3, <1>7
<1> HIDE DEF Q
<1>9. \A x \in nodes : x \in Q
  BY <1>8, TreeInduct DEF Below
<1> QED
  BY <1>9 DEF Q

(* The last node below x is the greatest of them. *)
LEMMA RightmostIs ==
  ASSUME NEW S, Below(S)
  PROVE  \A x \in nodes : rightmost[x] = NextBefore(S[x])
<1> DEFINE F(it) == [x \in nodes |-> IF right[x] = Null THEN x ELSE it[right[x]]]
           c == CHOOSE it : it = F(it)
           w == [x \in nodes |-> NextBefore(S[x])]
           Q == {x \in nodes : rightmost[x] = NextBefore(S[x])}
<1>1. Sorts(S)
  BY BelowSorts
<1>2. \A x \in nodes : right[x] = 0 \/ right[x] \in nodes
  BY <1>1 DEF Sorts
<1>2a. PICK b \in Nat : \A y \in nodes : y <= b
  BY Bounded
<1>3. ASSUME NEW x \in nodes
      PROVE  NextBefore(S[x]) = IF right[x] = 0 THEN x ELSE NextBefore(S[right[x]])
  <2>1. S[x] \subseteq Nat \ {0} /\ S[right[x]] \subseteq Nat \ {0}
    BY <1>1 DEF Sorts
  <2>1a. (\A y \in S[x] : y <= b) /\ (\A y \in S[right[x]] : y <= b)
    BY <1>1, <1>2a DEF Sorts
  <2>2. CASE right[x] = 0
    <3>1. x \in S[x] /\ \A y \in S[x] : y <= x
      BY <1>1, <2>2 DEF Sorts
    <3> QED
      BY <2>1, <2>1a, <2>2, <3>1, BeforeFacts
  <2>3. CASE right[x] # 0
    <3> DEFINE m == NextBefore(S[right[x]])
    <3>1. right[x] \in nodes /\ right[x] \in S[right[x]]
      BY <1>1, <2>3, <1>2 DEF Sorts
    <3>2. m \in S[right[x]] /\ \A y \in S[right[x]] : y <= m
      BY <2>1, <2>1a, <3>1, BeforeFacts
    <3> HIDE DEF m
    <3>3. m \in S[x] /\ x < m /\ m \in Nat /\ x \in Nat
      BY <1>1, <3>2 DEF Sorts
    <3>4. \A y \in S[x] : y <= m
      <4> TAKE y \in S[x]
      <4>1. y = x \/ (y < x /\ y \in Nat) \/ y \in S[right[x]]
        BY <1>1 DEF Sorts
      <4> QED
        BY <4>1, <3>2, <3>3
    <3>5. NextBefore(S[x]) = m
      BY <2>1, <2>1a, <3>3, <3>4, BeforeFacts
    <3> QED
      BY <3>5, <2>3 DEF m
  <2> QED
    BY <2>2, <2>3
<1>4. w = F(w)
  <2> SUFFICES ASSUME NEW x \in nodes
               PROVE  w[x] = IF right[x] = Null THEN x ELSE w[right[x]]
    OBVIOUS
  <2> QED
    BY <1>2, <1>3 DEF Null
<1>5. rightmost = c
  BY DEF rightmost
<1>6. c = F(c)
  <2> HIDE DEF w, F
  <2> QED
    BY <1>4
<1>7. \A x \in nodes : rightmost[x] = IF right[x] = 0 THEN x ELSE rightmost[right[x]]
  <2> HIDE DEF c
  <2> QED
    BY <1>5, <1>6 DEF Null
<1>8. \A x \in nodes : (right[x] = 0 \/ right[x] \in Q) => x \in Q
  BY <1>3, <1>7
<1> HIDE DEF Q
<1>9. \A x \in nodes : x \in Q
  BY <1>8, TreeInduct DEF Below
<1> QED
  BY <1>9 DEF Q

(* The nodes after all those below x, and before all those. *)
AfterAll(S, x) == {y \in nodes : \A u \in S[x] : u < y}

(* The nodes before all that are below x. *)
BeforeAll(S, x) == {y \in nodes : \A u \in S[x] : y < u}

(* The loop of operator ++ that goes up while it comes from the right ends at the
   first node after the subtree it started from. *)
LEMMA UpFromRightIs ==
  ASSUME NEW S, Below(S)
  PROVE  \A x \in nodes : upFromRight[x] = NextAfter(AfterAll(S, x))
<1> DEFINE F(it) == [x \in nodes |->
               IF parent[x] # Null /\ x = right[parent[x]] THEN it[parent[x]] ELSE parent[x]]
           c == CHOOSE it : it = F(it)
           w == [x \in nodes |-> NextAfter(AfterAll(S, x))]
           Q == {x \in nodes : upFromRight[x] = NextAfter(AfterAll(S, x))}
<1>1. Sorts(S)
  BY BelowSorts
<1>2. \A x \in nodes : /\ parent[x] = 0 \/ parent[x] \in nodes
                       /\ parent[x] = 0 <=> x = root
                       /\ x # root => x \in {left[parent[x]], right[parent[x]]}
  BY TreeFacts DEF Below
<1>3. ASSUME NEW x \in nodes
      PROVE  NextAfter(AfterAll(S, x)) = IF parent[x] # 0 /\ x = right[parent[x]]
                                         THEN NextAfter(AfterAll(S, parent[x])) ELSE parent[x]
  <2>1. AfterAll(S, x) \subseteq Nat \ {0}
    BY <1>1 DEF Sorts, AfterAll
  <2>2. CASE x = root
    <3>1. AfterAll(S, x) = {}
      <4> SUFFICES ASSUME NEW y \in AfterAll(S, x) PROVE FALSE
        OBVIOUS
      <4>1. y \in nodes /\ (\A u \in nodes : u < y) /\ y \in Nat
        BY <1>1, <2>2 DEF Sorts, AfterAll
      <4> QED
        BY <4>1
    <3> QED
      BY <3>1, <2>2, <1>2 DEF NextAfter, Null
  <2> DEFINE q == parent[x]
  <2>3. CASE x # root /\ x = right[q]
    <3>1. q \in nodes /\ q # 0 /\ q \in Nat /\ x \in Nat /\ x \in S[x] /\ q < x
      <4>1. q \in nodes /\ q # 0
        BY <1>2, <2>3, <1>1 DEF Sorts
      <4> QED
        BY <4>1, <1>1, <2>3 DEF Sorts
    <3> HIDE DEF q
    <3>2. S[x] \subseteq S[q] /\ x \in S[q]
      BY <3>1, <1>1, <2>3 DEF Sorts
    <3>3. ASSUME NEW y \in AfterAll(S, x)
          PROVE  y \in AfterAll(S, q)
      <4>1. y \in nodes /\ y \in Nat /\ y \notin S[x] /\ x < y
        BY <3>1, <1>1 DEF AfterAll, Sorts
      <4>2. y \notin S[q]
        <5> SUFFICES ASSUME y \in S[q] PROVE FALSE
          OBVIOUS
        <5>1. y = q \/ (y < q /\ y \in Nat)
          BY <4>1, <3>1, <1>1, <2>3 DEF Sorts
        <5> QED
          BY <5>1, <4>1, <3>1
      <4>3. (\A u \in S[q] : y < u) \/ (\A u \in S[q] : u < y)
        BY <4>1, <4>2, <3>1, Outside DEF Below
      <4>4. \A u \in S[q] : u < y
        BY <4>3, <4>1, <3>1, <3>2
      <4> QED
        BY <4>1, <4>4 DEF AfterAll
    <3>4. AfterAll(S, x) = AfterAll(S, q)
      BY <3>2, <3>3 DEF AfterAll
    <3> QED
      BY <3>1, <3>4, <2>3 DEF q
  <2>4. CASE x # root /\ x # right[q]
    <3>1. q \in nodes /\ q # 0 /\ q \in Nat /\ x \in Nat /\ x \in S[x] /\ x = left[q] /\ x < q
      <4>1. q \in nodes /\ q # 0 /\ x = left[q]
        BY <1>2, <2>4, <1>1 DEF Sorts
      <4> QED
        BY <4>1, <1>1, <2>4 DEF Sorts
    <3> HIDE DEF q
    <3>2. q \in AfterAll(S, x)
      BY <3>1, <1>1 DEF Sorts, AfterAll
    <3>3. ASSUME NEW y \in AfterAll(S, x)
          PROVE  q <= y
      <4>1. y \in nodes /\ y \in Nat /\ y \notin S[x] /\ x < y
        BY <3>1, <1>1 DEF AfterAll, Sorts
      <4>2. CASE y \in S[q]
        <5>1. y = q \/ q < y
          BY <4>1, <4>2, <3>1, <1>1 DEF Sorts
        <5> QED
          BY <5>1, <3>1, <4>1
      <4>3. CASE y \notin S[q]
        <5>1. (\A u \in S[q] : y < u) \/ (\A u \in S[q] : u < y)
          BY <4>1, <4>3, <3>1, Outside DEF Below
        <5>2. q \in S[q] /\ x \in S[q]
          BY <3>1, <1>1 DEF Sorts
        <5>3. q < y \/ y < x
          BY <5>1, <5>2
        <5> QED
          BY <5>3, <4>1, <3>1
      <4> QED
        BY <4>2, <4>3
    <3>4. NextAfter(AfterAll(S, x)) = q
      BY <2>1, <3>2, <3>3, AfterFacts
    <3> QED
      BY <3>1, <3>4, <2>4 DEF q
  <2> QED
    BY <2>2, <2>3, <2>4
<1>4. w = F(w)
  <2> SUFFICES ASSUME NEW x \in nodes
               PROVE  w[x] = IF parent[x] # Null /\ x = right[parent[x]] THEN w[parent[x]] ELSE parent[x]
    OBVIOUS
  <2> QED
    BY <1>2, <1>3 DEF Null
<1>5. upFromRight = c
  BY DEF upFromRight
<1>6. c = F(c)
  <2> HIDE DEF w, F
  <2> QED
    BY <1>4
<1>7. \A x \in nodes : upFromRight[x] = IF parent[x] # 0 /\ x = right[parent[x]]
                                       THEN upFromRight[parent[x]] ELSE parent[x]
  <2> HIDE DEF c
  <2> QED
    BY <1>5, <1>6 DEF Null
<1>8. \A x \in nodes : (x = root \/ parent[x] \in Q) => x \in Q
  BY <1>2, <1>3, <1>7
<1> HIDE DEF Q
<1>9. \A x \in nodes : x \in Q
  BY <1>8, RootInduct DEF Below
<1> QED
  BY <1>9 DEF Q

(* The loop of operator -- that goes up while it comes from the left ends at the
   last node before the subtree it started from. *)
LEMMA UpFromLeftIs ==
  ASSUME NEW S, Below(S)
  PROVE  \A x \in nodes : upFromLeft[x] = NextBefore(BeforeAll(S, x))
<1> DEFINE F(it) == [x \in nodes |->
               IF parent[x] # Null /\ x = left[parent[x]] THEN it[parent[x]] ELSE parent[x]]
           c == CHOOSE it : it = F(it)
           w == [x \in nodes |-> NextBefore(BeforeAll(S, x))]
           Q == {x \in nodes : upFromLeft[x] = NextBefore(BeforeAll(S, x))}
<1>1. Sorts(S)
  BY BelowSorts
<1>2. \A x \in nodes : /\ parent[x] = 0 \/ parent[x] \in nodes
                       /\ parent[x] = 0 <=> x = root
                       /\ x # root => x \in {left[parent[x]], right[parent[x]]}
  BY TreeFacts DEF Below
<1>2a. PICK b \in Nat : \A y \in nodes : y <= b
  BY Bounded
<1>3. ASSUME NEW x \in nodes
      PROVE  NextBefore(BeforeAll(S, x)) = IF parent[x] # 0 /\ x = left[parent[x]]
                                         THEN NextBefore(BeforeAll(S, parent[x])) ELSE parent[x]
  <2>1. BeforeAll(S, x) \subseteq Nat \ {0}
    BY <1>1 DEF Sorts, BeforeAll
  <2>1a. \A y \in BeforeAll(S, x) : y <= b
    BY <1>2a DEF BeforeAll
  <2>2. CASE x = root
    <3>1. BeforeAll(S, x) = {}
      <4> SUFFICES ASSUME NEW y \in BeforeAll(S, x) PROVE FALSE
        OBVIOUS
      <4>1. y \in nodes /\ (\A u \in nodes : y < u) /\ y \in Nat
        BY <1>1, <2>2 DEF Sorts, BeforeAll
      <4> QED
        BY <4>1
    <3> QED
      BY <3>1, <2>2, <1>2 DEF NextBefore, Null
  <2> DEFINE q == parent[x]
  <2>3. CASE x # root /\ x = left[q]
    <3>1. q \in nodes /\ q # 0 /\ q \in Nat /\ x \in Nat /\ x \in S[x] /\ x < q
      <4>1. q \in nodes /\ q # 0
        BY <1>2, <2>3, <1>1 DEF Sorts
      <4> QED
        BY <4>1, <1>1, <2>3 DEF Sorts
    <3> HIDE DEF q
    <3>2. S[x] \subseteq S[q] /\ x \in S[q]
      BY <3>1, <1>1, <2>3 DEF Sorts
    <3>3. ASSUME NEW y \in BeforeAll(S, x)
          PROVE  y \in BeforeAll(S, q)
      <4>1. y \in nodes /\ y \in Nat /\ y \notin S[x] /\ y < x
        BY <3>1, <1>1 DEF BeforeAll, Sorts
      <4>2. y \notin S[q]
        <5> SUFFICES ASSUME y \in S[q] PROVE FALSE
          OBVIOUS
        <5>1. y = q \/ (q < y /\ y \in Nat)
          BY <4>1, <3>1, <1>1, <2>3 DEF Sorts
        <5> QED
          BY <5>1, <4>1, <3>1
      <4>3. (\A u \in S[q] : y < u) \/ (\A u \in S[q] : u < y)
        BY <4>1, <4>2, <3>1, Outside DEF Below
      <4>4. \A u \in S[q] : y < u
        BY <4>3, <4>1, <3>1, <3>2
      <4> QED
        BY <4>1, <4>4 DEF BeforeAll
    <3>4. BeforeAll(S, x) = BeforeAll(S, q)
      BY <3>2, <3>3 DEF BeforeAll
    <3> QED
      BY <3>1, <3>4, <2>3 DEF q
  <2>4. CASE x # root /\ x # left[q]
    <3>1. q \in nodes /\ q # 0 /\ q \in Nat /\ x \in Nat /\ x \in S[x] /\ x = right[q] /\ q < x
      <4>1. q \in nodes /\ q # 0 /\ x = right[q]
        BY <1>2, <2>4, <1>1 DEF Sorts
      <4> QED
        BY <4>1, <1>1, <2>4 DEF Sorts
    <3> HIDE DEF q
    <3>2. q \in BeforeAll(S, x)
      BY <3>1, <1>1 DEF Sorts, BeforeAll
    <3>3. ASSUME NEW y \in BeforeAll(S, x)
          PROVE  y <= q
      <4>1. y \in nodes /\ y \in Nat /\ y \notin S[x] /\ y < x
        BY <3>1, <1>1 DEF BeforeAll, Sorts
      <4>2. CASE y \in S[q]
        <5>1. y = q \/ y < q
          BY <4>1, <4>2, <3>1, <1>1 DEF Sorts
        <5> QED
          BY <5>1, <3>1, <4>1
      <4>3. CASE y \notin S[q]
        <5>1. (\A u \in S[q] : y < u) \/ (\A u \in S[q] : u < y)
          BY <4>1, <4>3, <3>1, Outside DEF Below
        <5>2. q \in S[q] /\ x \in S[q]
          BY <3>1, <1>1 DEF Sorts
        <5>3. y < q \/ x < y
          BY <5>1, <5>2
        <5> QED
          BY <5>3, <4>1, <3>1
      <4> QED
        BY <4>2, <4>3
    <3>4. NextBefore(BeforeAll(S, x)) = q
      BY <2>1, <2>1a, <3>2, <3>3, BeforeFacts
    <3> QED
      BY <3>1, <3>4, <2>4 DEF q
  <2> QED
    BY <2>2, <2>3, <2>4
<1>4. w = F(w)
  <2> SUFFICES ASSUME NEW x \in nodes
               PROVE  w[x] = IF parent[x] # Null /\ x = left[parent[x]] THEN w[parent[x]] ELSE parent[x]
    OBVIOUS
  <2> QED
    BY <1>2, <1>3 DEF Null
<1>5. upFromLeft = c
  BY DEF upFromLeft
<1>6. c = F(c)
  <2> HIDE DEF w, F
  <2> QED
    BY <1>4
<1>7. \A x \in nodes : upFromLeft[x] = IF parent[x] # 0 /\ x = left[parent[x]]
                                       THEN upFromLeft[parent[x]] ELSE parent[x]
  <2> HIDE DEF c
  <2> QED
    BY <1>5, <1>6 DEF Null
<1>8. \A x \in nodes : (x = root \/ parent[x] \in Q) => x \in Q
  BY <1>2, <1>3, <1>7
<1> HIDE DEF Q
<1>9. \A x \in nodes : x \in Q
  BY <1>8, RootInduct DEF Below
<1> QED
  BY <1>9 DEF Q

(* operator ++ leads to the next node in order, from any node. *)
LEMMA WalkRightIs ==
  ASSUME NEW S, Below(S), NEW x \in nodes
  PROVE  walk_right(x) = NextAfter({y \in nodes : y > x})
<1> DEFINE A == {y \in nodes : y > x}
<1>1. Sorts(S)
  BY BelowSorts
<1>2. A \subseteq Nat \ {0}
  BY <1>1 DEF Sorts
<1>3. x \in Nat /\ x \in S[x] /\ S[x] \subseteq nodes /\ \A u \in S[x] : u \in Nat
  BY <1>1 DEF Sorts
<1>4. \A y \in A : y \in S[x] => y \in S[right[x]]
  BY <1>1, <1>3 DEF Sorts
<1>5. \A y \in A : y \notin S[x] => \A u \in S[x] : u < y
  <2> SUFFICES ASSUME NEW y \in A, y \notin S[x] PROVE \A u \in S[x] : u < y
    OBVIOUS
  <2>1. (\A u \in S[x] : y < u) \/ (\A u \in S[x] : u < y)
    BY Outside DEF Below
  <2>2. ~(y < x)
    BY <1>3, <1>2
  <2> QED
    BY <2>1, <2>2, <1>3
<1>6. CASE right[x] = 0
  <2>1. S[right[x]] = {}
    BY <1>1, <1>6 DEF Sorts
  <2>2. \A y \in A : y \in AfterAll(S, x)
    BY <1>4, <1>5, <2>1 DEF AfterAll
  <2>3. \A y \in AfterAll(S, x) : y \in A
    <3> TAKE y \in AfterAll(S, x)
    <3>1. y \in nodes /\ x < y /\ y \in Nat
      BY <1>1, <1>3 DEF AfterAll, Sorts
    <3> QED
      BY <3>1, <1>3
  <2>4. A = AfterAll(S, x)
    BY <2>2, <2>3
  <2>5. walk_right(x) = upFromRight[x]
    BY <1>6 DEF walk_right, Null
  <2> QED
    BY <2>4, <2>5, UpFromRightIs
<1>7. CASE right[x] # 0
  <2> DEFINE m == NextAfter(S[right[x]])
  <2>1. right[x] \in nodes /\ right[x] \in S[right[x]] /\ S[right[x]] \subseteq Nat \ {0}
    BY <1>1, <1>7 DEF Sorts
  <2>2. m \in S[right[x]] /\ \A y \in S[right[x]] : m <= y
    BY <2>1, AfterFacts
  <2>3. walk_right(x) = m
    BY <1>7, <2>1, LeftmostIs DEF walk_right, Null
  <2> HIDE DEF m
  <2>4. m \in nodes /\ x < m /\ m \in Nat /\ m \in S[x]
    BY <2>2, <1>1 DEF Sorts
  <2>5. m \in A
    BY <2>4, <1>3
  <2>6. \A y \in A : m <= y
    <3> TAKE y \in A
    <3>1. CASE y \in S[x]
      BY <3>1, <1>4, <2>2
    <3>2. CASE y \notin S[x]
      <4>1. m < y /\ y \in Nat
        BY <3>2, <1>5, <2>4, <1>2
      <4> QED
        BY <4>1, <2>4
    <3> QED
      BY <3>1, <3>2
  <2>7. NextAfter(A) = m
    <3> HIDE DEF A
    <3> QED
      BY <1>2, <2>5, <2>6, AfterFacts
  <2> QED
    BY <2>3, <2>7
<1> QED
  BY <1>6, <1>7

(* operator -- leads to the node before in order, from any node. *)
LEMMA WalkLeftIs ==
  ASSUME NEW S, Below(S), NEW x \in nodes
  PROVE  walk_left(x) = NextBefore({y \in nodes : y < x})
<1> DEFINE A == {y \in nodes : y < x}
<1>1. Sorts(S)
  BY BelowSorts
<1>2. A \subseteq Nat \ {0}
  BY <1>1 DEF Sorts
<1>3. x \in Nat /\ x \in S[x] /\ S[x] \subseteq nodes /\ \A u \in S[x] : u \in Nat
  BY <1>1 DEF Sorts
<1>3a. PICK b \in Nat : \A y \in nodes : y <= b
  BY Bounded
<1>4. \A y \in A : y \in S[x] => y \in S[left[x]]
  BY <1>1, <1>3 DEF Sorts
<1>5. \A y \in A : y \notin S[x] => \A u \in S[x] : y < u
  <2> SUFFICES ASSUME NEW y \in A, y \notin S[x] PROVE \A u \in S[x] : y < u
    OBVIOUS
  <2>1. (\A u \in S[x] : y < u) \/ (\A u \in S[x] : u < y)
    BY Outside DEF Below
  <2>2. ~(x < y)
    BY <1>3, <1>2
  <2> QED
    BY <2>1, <2>2, <1>3
<1>6. CASE left[x] = 0
  <2>1. S[left[x]] = {}
    BY <1>1, <1>6 DEF Sorts
  <2>2. \A y \in A : y \in BeforeAll(S, x)
    BY <1>4, <1>5, <2>1 DEF BeforeAll
  <2>3. \A y \in BeforeAll(S, x) : y \in A
    <3> TAKE y \in BeforeAll(S, x)
    <3>1. y \in nodes /\ y < x /\ y \in Nat
      BY <1>1, <1>3 DEF BeforeAll, Sorts
    <3> QED
      BY <3>1, <1>3
  <2>4. A = BeforeAll(S, x)
    BY <2>2, <2>3
  <2>5. walk_left(x) = upFromLeft[x]
    BY <1>6 DEF walk_left, Null
  <2> QED
    BY <2>4, <2>5, UpFromLeftIs
<1>7. CASE left[x] # 0
  <2> DEFINE m == NextBefore(S[left[x]])
  <2>1. left[x] \in nodes /\ left[x] \in S[left[x]] /\ S[left[x]] \subseteq Nat \ {0}
    BY <1>1, <1>7 DEF Sorts
  <2>1a. \A y \in S[left[x]] : y <= b
    BY <1>1, <1>3a DEF Sorts
  <2>2. m \in S[left[x]] /\ \A y \in S[left[x]] : y <= m
    BY <2>1, <2>1a, BeforeFacts
  <2>3. walk_left(x) = m
    BY <1>7, <2>1, RightmostIs DEF walk_left, Null
  <2> HIDE DEF m
  <2>4. m \in nodes /\ m < x /\ m \in Nat /\ m \in S[x]
    BY <2>2, <1>1 DEF Sorts
  <2>5. m \in A
    BY <2>4, <1>3
  <2>6. \A y \in A : y <= m
    <3> TAKE y \in A
    <3>1. CASE y \in S[x]
      BY <3>1, <1>4, <2>2
    <3>2. CASE y \notin S[x]
      <4>1. y < m /\ y \in Nat
        BY <3>2, <1>5, <2>4, <1>2
      <4> QED
        BY <4>1, <2>4
    <3> QED
      BY <3>1, <3>2
  <2>7. NextBefore(A) = m
    <3>1. \A y \in A : y <= b
      BY <1>3a
    <3> HIDE DEF A
    <3> QED
      BY <1>2, <3>1, <2>5, <2>6, BeforeFacts
  <2> QED
    BY <2>3, <2>7
<1> QED
  BY <1>6, <1>7

(* The first node of an upper part of the order, below x. *)
FirstBelow(S, B, x) ==
  NextAfter(S[x] \cap B) =
    IF x \in B THEN IF NextAfter(S[left[x]] \cap B) = 0 THEN x ELSE NextAfter(S[left[x]] \cap B)
    ELSE NextAfter(S[right[x]] \cap B)

(* A search down to the first node of B finds it below every node, if B has with
   a node all after it. *)
LEMMA FirstIn ==
  ASSUME NEW S, Below(S), NEW B, NEW x \in nodes, \A y \in B : \A z \in nodes : y < z => z \in B
  PROVE  FirstBelow(S, B, x)
<1> USE DEF FirstBelow
<1>1. Sorts(S)
  BY BelowSorts
<1>2. S[x] \subseteq Nat \ {0} /\ S[left[x]] \subseteq S[x] /\ x \in S[x] /\ x \in Nat
  BY <1>1 DEF Sorts
<1>3. \A y \in S[x] : y = x \/ y \in S[left[x]] \/ y \in S[right[x]]
  BY <1>1 DEF Sorts
<1>4. /\ \A y \in S[left[x]] : y < x /\ y \in nodes
      /\ \A y \in S[right[x]] : x < y /\ y \in nodes
      /\ S[right[x]] \subseteq S[x]
  BY <1>1 DEF Sorts
<1>5. CASE x \notin B
  <2>1. \A y \in S[left[x]] : y \notin B
    BY <1>4, <1>5
  <2>2. S[x] \cap B = S[right[x]] \cap B
    BY <1>3, <1>4, <1>5, <2>1
  <2> QED
    BY <2>2, <1>5
<1>6. CASE x \in B
  <2> DEFINE A == S[left[x]] \cap B
             m == NextAfter(A)
  <2>1. A \subseteq Nat \ {0} /\ S[x] \cap B \subseteq Nat \ {0}
    BY <1>2
  <2>2. \A y \in S[x] \cap B : y = x \/ y \in A \/ (x < y /\ y \in Nat)
    BY <1>2, <1>3, <1>4
  <2>3. CASE m = 0
    <3>1. A = {}
      <4> HIDE DEF A
      <4> QED
        BY <2>1, <2>3, AfterFacts
    <3>2. x \in S[x] \cap B /\ \A y \in S[x] \cap B : x <= y
      BY <2>2, <3>1, <1>2, <1>6
    <3>3. NextAfter(S[x] \cap B) = x
      BY <2>1, <3>2, AfterFacts
    <3> QED
      BY <3>3, <2>3, <1>6
  <2>4. CASE m # 0
    <3>1. m \in A /\ \A y \in A : m <= y
      <4> HIDE DEF A
      <4> QED
        BY <2>1, <2>4, AfterFacts
    <3> HIDE DEF m
    <3>2. m \in S[x] \cap B /\ m < x /\ m \in Nat
      BY <3>1, <1>2, <1>4
    <3>3. \A y \in S[x] \cap B : m <= y
      BY <2>2, <3>1, <3>2, <1>2
    <3>4. NextAfter(S[x] \cap B) = m
      BY <2>1, <3>2, <3>3, AfterFacts
    <3> QED
      BY <3>4, <2>4, <1>6 DEF m
  <2> QED
    BY <2>3, <2>4
<1> QED
  BY <1>5, <1>6

(* The last node of a lower part of the order, below x. *)
LastBelow(S, B, x) ==
  NextBefore(S[x] \cap B) =
    IF x \in B THEN IF NextBefore(S[right[x]] \cap B) = 0 THEN x ELSE NextBefore(S[right[x]] \cap B)
    ELSE NextBefore(S[left[x]] \cap B)

(* A search down to the last node of B finds it below every node, if B has with a
   node all before it. *)
LEMMA LastIn ==
  ASSUME NEW S, Below(S), NEW B, NEW x \in nodes, \A y \in B : \A z \in nodes : z < y => z \in B
  PROVE  LastBelow(S, B, x)
<1> USE DEF LastBelow
<1>1. Sorts(S)
  BY BelowSorts
<1>1a. PICK b \in Nat : \A y \in nodes : y <= b
  BY Bounded
<1>2. S[x] \subseteq Nat \ {0} /\ S[right[x]] \subseteq S[x] /\ x \in S[x] /\ x \in Nat
  BY <1>1 DEF Sorts
<1>3. \A y \in S[x] : y = x \/ y \in S[right[x]] \/ y \in S[left[x]]
  BY <1>1 DEF Sorts
<1>4. /\ \A y \in S[right[x]] : x < y /\ y \in nodes
      /\ \A y \in S[left[x]] : y < x /\ y \in nodes
      /\ S[left[x]] \subseteq S[x]
  BY <1>1 DEF Sorts
<1>5. CASE x \notin B
  <2>1. \A y \in S[right[x]] : y \notin B
    BY <1>4, <1>5
  <2>2. S[x] \cap B = S[left[x]] \cap B
    BY <1>3, <1>4, <1>5, <2>1
  <2> QED
    BY <2>2, <1>5
<1>6. CASE x \in B
  <2> DEFINE A == S[right[x]] \cap B
             m == NextBefore(A)
  <2>1. A \subseteq Nat \ {0} /\ S[x] \cap B \subseteq Nat \ {0}
    BY <1>2
  <2>1a. (\A y \in A : y <= b) /\ (\A y \in S[x] \cap B : y <= b)
    BY <1>1, <1>1a, <1>4 DEF Sorts
  <2>2. \A y \in S[x] \cap B : y = x \/ y \in A \/ (y < x /\ y \in Nat)
    BY <1>2, <1>3, <1>4
  <2>3. CASE m = 0
    <3>1. A = {}
      <4> HIDE DEF A
      <4> QED
        BY <2>1, <2>1a, <2>3, BeforeFacts
    <3>2. x \in S[x] \cap B /\ \A y \in S[x] \cap B : y <= x
      BY <2>2, <3>1, <1>2, <1>6
    <3>3. NextBefore(S[x] \cap B) = x
      BY <2>1, <2>1a, <3>2, BeforeFacts
    <3> QED
      BY <3>3, <2>3, <1>6
  <2>4. CASE m # 0
    <3>1. m \in A /\ \A y \in A : y <= m
      <4> HIDE DEF A
      <4> QED
        BY <2>1, <2>1a, <2>4, BeforeFacts
    <3> HIDE DEF m
    <3>2. m \in S[x] \cap B /\ x < m /\ m \in Nat
      BY <3>1, <1>2, <1>4
    <3>3. \A y \in S[x] \cap B : y <= m
      BY <2>2, <3>1, <3>2, <1>2
    <3>4. NextBefore(S[x] \cap B) = m
      BY <2>1, <2>1a, <3>2, <3>3, BeforeFacts
    <3> QED
      BY <3>4, <2>4, <1>6 DEF m
  <2> QED
    BY <2>3, <2>4
<1> QED
  BY <1>5, <1>6

(* lower_bound returns the first node that is not less than the key. *)
LEMMA LowerBoundIs ==
  ASSUME NEW S, Below(S), NEW k \in Nat
  PROVE  lower_bound(k) = NextAfter({y \in nodes : y >= k})
<1> DEFINE B == {y \in nodes : y >= k}
           F(it) == [x \in nodes \cup {Null} |-> IF x = Null THEN Null ELSE IF x < k THEN it[right[x]] ELSE IF it[left[x]] = Null THEN x ELSE it[left[x]]]
           c == CHOOSE it : it = F(it)
           w == [x \in nodes \cup {Null} |-> NextAfter(S[x] \cap B)]
           Q == {x \in nodes : c[x] = NextAfter(S[x] \cap B)}
<1>1. Sorts(S)
  BY BelowSorts
<1>2. NextAfter(S[0] \cap B) = 0
  BY <1>1 DEF Sorts, NextAfter, Null
<1>3. \A x \in nodes : /\ left[x] \in nodes \cup {0} /\ right[x] \in nodes \cup {0}
                       /\ x # 0 /\ x \in Nat
  BY <1>1 DEF Sorts
<1>4. \A x \in nodes : NextAfter(S[x] \cap B) = IF x < k THEN NextAfter(S[right[x]] \cap B) ELSE IF NextAfter(S[left[x]] \cap B) = 0 THEN x ELSE NextAfter(S[left[x]] \cap B)
  <2> TAKE x \in nodes
  <2>1. \A y \in B : \A z \in nodes : y < z => z \in B
    BY <1>3
  <2>2. x \in B <=> ~(x < k)
    BY <1>3
  <2> HIDE DEF B
  <2>3. FirstBelow(S, B, x)
    BY <2>1, FirstIn
  <2> QED
    BY <2>2, <2>3 DEF FirstBelow
<1>5. w = F(w)
  <2> HIDE DEF B
  <2> SUFFICES ASSUME NEW x \in nodes \cup {Null}
               PROVE  w[x] = IF x = Null THEN Null ELSE IF x < k THEN w[right[x]] ELSE IF w[left[x]] = Null THEN x ELSE w[left[x]]
    OBVIOUS
  <2>1. CASE x = Null
    BY <2>1, <1>2 DEF Null
  <2>2. CASE x # Null
    <3>1. x \in nodes /\ left[x] \in nodes \cup {Null} /\ right[x] \in nodes \cup {Null}
      BY <2>2, <1>3 DEF Null
    <3>2. w[x] = NextAfter(S[x] \cap B) /\ w[left[x]] = NextAfter(S[left[x]] \cap B) /\ w[right[x]] = NextAfter(S[right[x]] \cap B)
      BY <3>1
    <3> HIDE DEF w
    <3> QED
      BY <2>2, <3>1, <3>2, <1>4 DEF Null
  <2> QED
    BY <2>1, <2>2
<1>6. lower_bound(k) = c[root]
  BY DEF lower_bound
<1>7. c = F(c)
  <2> HIDE DEF w, F
  <2> QED
    BY <1>5
<1>8. /\ c[0] = 0
      /\ \A x \in nodes : c[x] = IF x < k THEN c[right[x]] ELSE IF c[left[x]] = 0 THEN x ELSE c[left[x]]
  <2> HIDE DEF c
  <2>1. \A x \in nodes \cup {Null} : c[x] = IF x = Null THEN Null ELSE IF x < k THEN c[right[x]] ELSE IF c[left[x]] = Null THEN x ELSE c[left[x]]
    BY <1>7
  <2> QED
    BY <2>1, <1>3 DEF Null
<1> HIDE DEF c, B
<1>9. \A x \in nodes : (left[x] = 0 \/ left[x] \in Q) /\ (right[x] = 0 \/ right[x] \in Q) => x \in Q
  BY <1>2, <1>4, <1>8
<1> HIDE DEF Q
<1>10. \A x \in nodes : x \in Q
  BY <1>9, TreeInduct DEF Below
<1>11. c[root] = NextAfter(S[root] \cap B)
  BY <1>1, <1>2, <1>8, <1>10 DEF Sorts, Q
<1>12. S[root] \cap B = B
  BY <1>1 DEF Sorts, B
<1> QED
  BY <1>6, <1>11, <1>12 DEF B

(* upper_bound returns the first node that is greater than the key. *)
LEMMA UpperBoundIs ==
  ASSUME NEW S, Below(S), NEW k \in Nat
  PROVE  upper_bound(k) = NextAfter({y \in nodes : y > k})
<1> DEFINE B == {y \in nodes : y > k}
           F(it) == [x \in nodes \cup {Null} |-> IF x = Null THEN Null ELSE IF k < x THEN (IF it[left[x]] = Null THEN x ELSE it[left[x]]) ELSE it[right[x]]]
           c == CHOOSE it : it = F(it)
           w == [x \in nodes \cup {Null} |-> NextAfter(S[x] \cap B)]
           Q == {x \in nodes : c[x] = NextAfter(S[x] \cap B)}
<1>1. Sorts(S)
  BY BelowSorts
<1>2. NextAfter(S[0] \cap B) = 0
  BY <1>1 DEF Sorts, NextAfter, Null
<1>3. \A x \in nodes : /\ left[x] \in nodes \cup {0} /\ right[x] \in nodes \cup {0}
                       /\ x # 0 /\ x \in Nat
  BY <1>1 DEF Sorts
<1>4. \A x \in nodes : NextAfter(S[x] \cap B) = IF k < x THEN (IF NextAfter(S[left[x]] \cap B) = 0 THEN x ELSE NextAfter(S[left[x]] \cap B)) ELSE NextAfter(S[right[x]] \cap B)
  <2> TAKE x \in nodes
  <2>1. \A y \in B : \A z \in nodes : y < z => z \in B
    BY <1>3
  <2>2. x \in B <=> k < x
    BY <1>3
  <2> HIDE DEF B
  <2>3. FirstBelow(S, B, x)
    BY <2>1, FirstIn
  <2> QED
    BY <2>2, <2>3 DEF FirstBelow
<1>5. w = F(w)
  <2> HIDE DEF B
  <2> SUFFICES ASSUME NEW x \in nodes \cup {Null}
               PROVE  w[x] = IF x = Null THEN Null ELSE IF k < x THEN (IF w[left[x]] = Null THEN x ELSE w[left[x]]) ELSE w[right[x]]
    OBVIOUS
  <2>1. CASE x = Null
    BY <2>1, <1>2 DEF Null
  <2>2. CASE x # Null
    <3>1. x \in nodes /\ left[x] \in nodes \cup {Null} /\ right[x] \in nodes \cup {Null}
      BY <2>2, <1>3 DEF Null
    <3>2. w[x] = NextAfter(S[x] \cap B) /\ w[left[x]] = NextAfter(S[left[x]] \cap B) /\ w[right[x]] = NextAfter(S[right[x]] \cap B)
      BY <3>1
    <3> HIDE DEF w
    <3> QED
      BY <2>2, <3>1, <3>2, <1>4 DEF Null
  <2> QED
    BY <2>1, <2>2
<1>6. upper_bound(k) = c[root]
  BY DEF upper_bound
<1>7. c = F(c)
  <2> HIDE DEF w, F
  <2> QED
    BY <1>5
<1>8. /\ c[0] = 0
      /\ \A x \in nodes : c[x] = IF k < x THEN (IF c[left[x]] = 0 THEN x ELSE c[left[x]]) ELSE c[right[x]]
  <2> HIDE DEF c
  <2>1. \A x \in nodes \cup {Null} : c[x] = IF x = Null THEN Null ELSE IF k < x THEN (IF c[left[x]] = Null THEN x ELSE c[left[x]]) ELSE c[right[x]]
    BY <1>7
  <2> QED
    BY <2>1, <1>3 DEF Null
<1> HIDE DEF c, B
<1>9. \A x \in nodes : (left[x] = 0 \/ left[x] \in Q) /\ (right[x] = 0 \/ right[x] \in Q) => x \in Q
  BY <1>2, <1>4, <1>8
<1> HIDE DEF Q
<1>10. \A x \in nodes : x \in Q
  BY <1>9, TreeInduct DEF Below
<1>11. c[root] = NextAfter(S[root] \cap B)
  BY <1>1, <1>2, <1>8, <1>10 DEF Sorts, Q
<1>12. S[root] \cap B = B
  BY <1>1 DEF Sorts, B
<1> QED
  BY <1>6, <1>11, <1>12 DEF B

(* The search of find ends at the last node that is not greater than the key. *)
LEMMA NotLTIs ==
  ASSUME NEW S, Below(S), NEW k \in Nat
  PROVE  notLT(k) = NextBefore({y \in nodes : y <= k})
<1> DEFINE B == {y \in nodes : y <= k}
           F(it) == [x \in nodes \cup {Null} |-> IF x = Null THEN Null ELSE IF k < x THEN it[left[x]] ELSE IF it[right[x]] = Null THEN x ELSE it[right[x]]]
           c == CHOOSE it : it = F(it)
           w == [x \in nodes \cup {Null} |-> NextBefore(S[x] \cap B)]
           Q == {x \in nodes : c[x] = NextBefore(S[x] \cap B)}
<1>1. Sorts(S)
  BY BelowSorts
<1>2. NextBefore(S[0] \cap B) = 0
  BY <1>1 DEF Sorts, NextBefore, Null
<1>3. \A x \in nodes : /\ left[x] \in nodes \cup {0} /\ right[x] \in nodes \cup {0}
                       /\ x # 0 /\ x \in Nat
  BY <1>1 DEF Sorts
<1>4. \A x \in nodes : NextBefore(S[x] \cap B) = IF k < x THEN NextBefore(S[left[x]] \cap B) ELSE IF NextBefore(S[right[x]] \cap B) = 0 THEN x ELSE NextBefore(S[right[x]] \cap B)
  <2> TAKE x \in nodes
  <2>1. \A y \in B : \A z \in nodes : z < y => z \in B
    BY <1>3
  <2>2. x \in B <=> ~(k < x)
    BY <1>3
  <2> HIDE DEF B
  <2>3. LastBelow(S, B, x)
    BY <2>1, LastIn
  <2> QED
    BY <2>2, <2>3 DEF LastBelow
<1>5. w = F(w)
  <2> HIDE DEF B
  <2> SUFFICES ASSUME NEW x \in nodes \cup {Null}
               PROVE  w[x] = IF x = Null THEN Null ELSE IF k < x THEN w[left[x]] ELSE IF w[right[x]] = Null THEN x ELSE w[right[x]]
    OBVIOUS
  <2>1. CASE x = Null
    BY <2>1, <1>2 DEF Null
  <2>2. CASE x # Null
    <3>1. x \in nodes /\ left[x] \in nodes \cup {Null} /\ right[x] \in nodes \cup {Null}
      BY <2>2, <1>3 DEF Null
    <3>2. w[x] = NextBefore(S[x] \cap B) /\ w[left[x]] = NextBefore(S[left[x]] \cap B) /\ w[right[x]] = NextBefore(S[right[x]] \cap B)
      BY <3>1
    <3> HIDE DEF w
    <3> QED
      BY <2>2, <3>1, <3>2, <1>4 DEF Null
  <2> QED
    BY <2>1, <2>2
<1>6. notLT(k) = c[root]
  BY DEF notLT
<1>7. c = F(c)
  <2> HIDE DEF w, F
  <2> QED
    BY <1>5
<1>8. /\ c[0] = 0
      /\ \A x \in nodes : c[x] = IF k < x THEN c[left[x]] ELSE IF c[right[x]] = 0 THEN x ELSE c[right[x]]
  <2> HIDE DEF c
  <2>1. \A x \in nodes \cup {Null} : c[x] = IF x = Null THEN Null ELSE IF k < x THEN c[left[x]] ELSE IF c[right[x]] = Null THEN x ELSE c[right[x]]
    BY <1>7
  <2> QED
    BY <2>1, <1>3 DEF Null
<1> HIDE DEF c, B
<1>9. \A x \in nodes : (left[x] = 0 \/ left[x] \in Q) /\ (right[x] = 0 \/ right[x] \in Q) => x \in Q
  BY <1>2, <1>4, <1>8
<1> HIDE DEF Q
<1>10. \A x \in nodes : x \in Q
  BY <1>9, TreeInduct DEF Below
<1>11. c[root] = NextBefore(S[root] \cap B)
  BY <1>1, <1>2, <1>8, <1>10 DEF Sorts, Q
<1>12. S[root] \cap B = B
  BY <1>1 DEF Sorts, B
<1> QED
  BY <1>6, <1>11, <1>12 DEF B

(* find finds just the keys of the nodes. *)
LEMMA FindIs ==
  ASSUME NEW S, Below(S), NEW k \in Nat \ {0}
  PROVE  find(k) = IF k \in nodes THEN k ELSE 0
<1> DEFINE A == {y \in nodes : y <= k}
<1>1. Sorts(S)
  BY BelowSorts
<1>2. notLT(k) = NextBefore(A)
  BY NotLTIs
<1>3. A \subseteq Nat \ {0} /\ \A y \in A : y <= k
  BY <1>1 DEF Sorts
<1>4. CASE k \in nodes
  <2>1. k \in A
    BY <1>4
  <2> HIDE DEF A
  <2>2. NextBefore(A) = k
    BY <1>3, <2>1, BeforeFacts
  <2> QED
    BY <1>2, <1>4, <2>2 DEF find
<1>5. CASE k \notin nodes
  <2>1. \A y \in A : y < k
    BY <1>5, <1>1 DEF Sorts
  <2> HIDE DEF A
  <2>2. NextBefore(A) \in A \cup {0}
    BY <1>3, BeforeFacts
  <2>3. NextBefore(A) < k
    BY <2>1, <2>2
  <2> QED
    BY <1>2, <1>5, <2>3 DEF find, Null
<1> QED
  BY <1>4, <1>5

(* A node below x that has room for k, which would be its neighbour. *)
Place(S, k, x, p) ==
  /\ p \in S[x]
  /\ IF k < p THEN left[p] = 0 ELSE right[p] = 0
  /\ \A y \in S[x] : y # p => (y < p <=> y < k)

(* The last node on the way down to a key that is not in the tree has a free
   place on the side of the key, and the key belongs there. *)
LEMMA UnderIs ==
  ASSUME NEW S, Below(S), NEW k \in Nat \ {0}, k \notin nodes, nodes # {}
  PROVE  Place(S, k, root, under(k))
<1> DEFINE child(x) == IF k < x THEN left[x] ELSE right[x]
           F(it) == [x \in nodes |-> LET ch == IF k < x THEN left[x] ELSE right[x]
                                     IN  IF ch = Null THEN x ELSE it[ch]]
           c == CHOOSE it : it = F(it)
           V == nodes \cup {0}
           G == [t \in nodes \X V \X V |-> IF child(t[1]) = 0 THEN t[1]
                                           ELSE IF k < t[1] THEN t[2] ELSE t[3]]
           Q == {x \in nodes : Place(S, k, x, c[x])}
<1>1. Sorts(S)
  BY BelowSorts
<1>2. \A x \in nodes : left[x] \in nodes \cup {0} /\ right[x] \in nodes \cup {0}
  BY <1>1 DEF Sorts
<1>3. 0 \in V /\ G \in [nodes \X V \X V -> V]
  <2>1. ASSUME NEW t \in nodes \X V \X V
        PROVE  (IF child(t[1]) = 0 THEN t[1] ELSE IF k < t[1] THEN t[2] ELSE t[3]) \in V
    BY <2>1
  <2> QED
    BY <2>1
<1>4. PICK f : Folds(nodes, left, right, V, 0, G, f, nodes)
  <2> HIDE DEF G, V
  <2> QED
    BY <1>3, FoldTree DEF Below
<1>5. /\ f \in [nodes \cup {0} -> V]
      /\ \A y \in nodes : f[y] = G[<<y, f[left[y]], f[right[y]]>>]
  BY <1>4 DEF Folds
<1>6. \A y \in nodes : f[y] = IF child(y) = 0 THEN y ELSE f[child(y)]
  <2> TAKE y \in nodes
  <2>1. f[left[y]] \in V /\ f[right[y]] \in V
    <3> HIDE DEF V
    <3> QED
      BY <1>2, <1>5
  <2>2. <<y, f[left[y]], f[right[y]]>> \in nodes \X V \X V
    BY <2>1
  <2>3. G[<<y, f[left[y]], f[right[y]]>>] = IF child(y) = 0 THEN y ELSE IF k < y THEN f[left[y]] ELSE f[right[y]]
    BY <2>2
  <2> HIDE DEF G
  <2> QED
    BY <2>3, <1>5
<1> DEFINE w == [x \in nodes |-> f[x]]
<1>7. w = F(w)
  <2> SUFFICES ASSUME NEW x \in nodes
               PROVE  f[x] = IF child(x) = Null THEN x ELSE w[child(x)]
    OBVIOUS
  <2>1. child(x) \in nodes \cup {0}
    BY <1>2
  <2> HIDE DEF child
  <2> QED
    BY <1>6, <2>1 DEF Null
<1>8. under(k) = c[root]
  BY DEF under
<1>9. c = F(c)
  <2> HIDE DEF w, F
  <2> QED
    BY <1>7
<1>10. \A x \in nodes : c[x] = IF child(x) = 0 THEN x ELSE c[child(x)]
  <2> HIDE DEF c
  <2>1. \A x \in nodes : c[x] = IF child(x) = Null THEN x ELSE c[child(x)]
    BY <1>9
  <2> QED
    BY <2>1 DEF Null
<1> HIDE DEF c
<1>11. ASSUME NEW x \in nodes, left[x] = 0 \/ left[x] \in Q, right[x] = 0 \/ right[x] \in Q
       PROVE  x \in Q
  <2>1. /\ x \in Nat /\ x \in S[x] /\ S[0] = {} /\ x # k
        /\ \A y \in S[x] : y = x \/ y \in S[left[x]] \/ y \in S[right[x]]
        /\ \A y \in S[left[x]] : y < x /\ y \in Nat /\ y \in S[x]
        /\ \A y \in S[right[x]] : x < y /\ y \in Nat /\ y \in S[x]
    BY <1>1 DEF Sorts
  <2>2. CASE child(x) = 0
    <3>1. c[x] = x
      BY <1>10, <2>2
    <3>2. \A y \in S[x] : y # x => (y < x <=> y < k)
      BY <2>1, <2>2
    <3> QED
      BY <2>1, <2>2, <3>1, <3>2 DEF Place
  <2>3. CASE k < x /\ left[x] # 0
    <3> DEFINE p == c[left[x]]
    <3>1. c[x] = p
      BY <1>10, <2>3
    <3>2. Place(S, k, left[x], p)
      BY <1>11, <2>3
    <3> HIDE DEF p
    <3>3. p \in S[left[x]] /\ p \in S[x] /\ p < x /\ p \in Nat
      BY <3>2, <2>1 DEF Place
    <3>4. \A y \in S[x] : y # p => (y < p <=> y < k)
      <4> TAKE y \in S[x]
      <4>1. CASE y \in S[left[x]]
        BY <4>1, <3>2 DEF Place
      <4>2. CASE y \notin S[left[x]]
        <5>1. (x < y \/ y = x) /\ y \in Nat
          BY <4>2, <2>1
        <5> QED
          BY <5>1, <3>3, <2>3, <2>1
      <4> QED
        BY <4>1, <4>2
    <3>5. Place(S, k, x, p)
      BY <3>2, <3>3, <3>4 DEF Place
    <3> QED
      BY <3>1, <3>5
  <2>4. CASE ~(k < x) /\ right[x] # 0
    <3> DEFINE p == c[right[x]]
    <3>1. c[x] = p
      BY <1>10, <2>4
    <3>2. Place(S, k, right[x], p)
      BY <1>11, <2>4
    <3> HIDE DEF p
    <3>3. p \in S[right[x]] /\ p \in S[x] /\ x < p /\ p \in Nat
      BY <3>2, <2>1 DEF Place
    <3>4. \A y \in S[x] : y # p => (y < p <=> y < k)
      <4> TAKE y \in S[x]
      <4>1. CASE y \in S[right[x]]
        BY <4>1, <3>2 DEF Place
      <4>2. CASE y \notin S[right[x]]
        <5>1. (y < x \/ y = x) /\ y \in Nat
          BY <4>2, <2>1
        <5>2. x < k
          BY <2>1, <2>4
        <5> QED
          BY <5>1, <5>2, <3>3, <2>1
      <4> QED
        BY <4>1, <4>2
    <3>5. Place(S, k, x, p)
      BY <3>2, <3>3, <3>4 DEF Place
    <3> QED
      BY <3>1, <3>5
  <2> QED
    BY <2>2, <2>3, <2>4
<1> HIDE DEF Q
<1>12. \A x \in nodes : x \in Q
  BY <1>11, TreeInduct DEF Below
<1>13. root \in nodes
  BY <1>1 DEF Sorts
<1> QED
  BY <1>8, <1>12, <1>13 DEF Q

(* A sequence of just the members of A, each less than the next. *)
Lists(s, A) ==
  /\ s \in Seq(A)
  /\ \A y \in A : \E i \in 1 .. Len(s) : s[i] = y
  /\ \A i \in 1 .. Len(s) : \A j \in 1 .. Len(s) : i < j => s[i] < s[j]

(* The nodes before x, x and the nodes after it, one sequence behind another. *)
LEMMA ListsJoined ==
  ASSUME NEW A, NEW B, NEW x, NEW D, A \subseteq Nat, B \subseteq Nat, x \in Nat,
         \A y \in A : y < x, \A y \in B : x < y, D = A \cup {x} \cup B,
         NEW a, Lists(a, A), NEW b, Lists(b, B)
  PROVE  Lists(a \o <<x>> \o b, D)
<1> DEFINE s == a \o <<x>> \o b
           m == Len(a)
<1>1. a \in Seq(A) /\ b \in Seq(B) /\ m \in Nat /\ Len(b) \in Nat
  BY DEF Lists
<1>2. a \in Seq(D) /\ b \in Seq(D) /\ <<x>> \in Seq(D)
  <2>1. \A i \in 1 .. Len(a) : a[i] \in D
    BY <1>1
  <2>2. \A i \in 1 .. Len(b) : b[i] \in D
    BY <1>1
  <2> QED
    BY <2>1, <2>2, <1>1
<1>3. s \in Seq(D) /\ Len(s) = m + 1 + Len(b)
  BY <1>2
<1>4. /\ \A i \in 1 .. m : s[i] = a[i] /\ a[i] \in A
      /\ s[m + 1] = x
      /\ \A i \in m + 2 .. Len(s) : i - m - 1 \in 1 .. Len(b) /\ s[i] = b[i - m - 1] /\ b[i - m - 1] \in B
  <2>1. \A i \in 1 .. m : s[i] = a[i] /\ a[i] \in A
    BY <1>1, <1>2, <1>3
  <2>2. s[m + 1] = x
    BY <1>1, <1>2, <1>3
  <2>3. \A i \in m + 2 .. Len(s) : i - m - 1 \in 1 .. Len(b) /\ s[i] = b[i - m - 1] /\ b[i - m - 1] \in B
    BY <1>1, <1>2, <1>3
  <2> QED
    BY <2>1, <2>2, <2>3
<1> HIDE DEF s, m
<1>5. \A y \in D : \E i \in 1 .. Len(s) : s[i] = y
  <2> TAKE y \in D
  <2>1. CASE y \in A
    <3>1. PICK i \in 1 .. Len(a) : a[i] = y
      BY <2>1 DEF Lists
    <3>2. i \in 1 .. Len(s) /\ s[i] = y
      BY <3>1, <1>1, <1>3, <1>4 DEF m
    <3> QED
      BY <3>2
  <2>2. CASE y = x
    <3>1. m + 1 \in 1 .. Len(s)
      BY <1>1, <1>3
    <3> QED
      BY <3>1, <2>2, <1>4
  <2>3. CASE y \in B
    <3>1. PICK i \in 1 .. Len(b) : b[i] = y
      BY <2>3 DEF Lists
    <3>2. i + m + 1 \in m + 2 .. Len(s) /\ (i + m + 1) - m - 1 = i /\ i + m + 1 \in 1 .. Len(s)
      BY <3>1, <1>1, <1>3
    <3>3. s[i + m + 1] = y
      BY <3>1, <3>2, <1>4
    <3> QED
      BY <3>2, <3>3
  <2> QED
    BY <2>1, <2>2, <2>3
<1>6. ASSUME NEW i \in 1 .. Len(s), NEW j \in 1 .. Len(s), i < j
      PROVE  s[i] < s[j]
  <2>1. CASE j <= m
    <3>1. i \in 1 .. m /\ j \in 1 .. m
      BY <2>1, <1>1, <1>6
    <3> QED
      BY <3>1, <1>4, <1>6 DEF Lists, m
  <2>2. CASE i <= m /\ j > m
    <3>0. i \in 1 .. m
      BY <2>2, <1>1
    <3>1. i \in 1 .. m /\ s[i] \in A /\ s[i] < x /\ s[i] \in Nat
      BY <3>0, <1>4
    <3>2. j = m + 1 \/ j \in m + 2 .. Len(s)
      BY <2>2, <1>1, <1>3
    <3>3. s[j] = x \/ (x < s[j] /\ s[j] \in Nat)
      BY <3>2, <1>4
    <3> QED
      BY <3>1, <3>3
  <2>3. CASE i = m + 1
    <3>1. j \in m + 2 .. Len(s)
      BY <2>3, <1>1, <1>3, <1>6
    <3> QED
      BY <3>1, <2>3, <1>4
  <2>4. CASE i > m + 1
    <3>1. i \in m + 2 .. Len(s) /\ j \in m + 2 .. Len(s) /\ i - m - 1 < j - m - 1
      BY <2>4, <1>1, <1>3, <1>6
    <3>2. \A u \in 1 .. Len(b) : \A v \in 1 .. Len(b) : u < v => b[u] < b[v]
      BY DEF Lists
    <3>3. /\ i - m - 1 \in 1 .. Len(b) /\ s[i] = b[i - m - 1]
          /\ j - m - 1 \in 1 .. Len(b) /\ s[j] = b[j - m - 1]
      BY <3>1, <1>4
    <3>4. b[i - m - 1] < b[j - m - 1]
      BY <3>1, <3>2, <3>3
    <3> QED
      BY <3>3, <3>4
  <2>5. i \in Nat /\ j \in Nat /\ m \in Nat
    BY <1>1, <1>3
  <2> QED
    BY <2>1, <2>2, <2>3, <2>4, <2>5, <1>6
<1> QED
  BY <1>3, <1>5, <1>6 DEF Lists, s

(* The nodes in order: what Inorder lists. *)
LEMMA InorderIs ==
  ASSUME NEW S, Below(S)
  PROVE  Lists(Inorder[root], nodes)
<1> DEFINE F(it) == [x \in nodes \cup {Null} |->
                       IF x = Null THEN << >> ELSE it[left[x]] \o <<x>> \o it[right[x]]]
           c == CHOOSE it : it = F(it)
           V == Seq(nodes)
           G == [t \in nodes \X V \X V |-> t[2] \o <<t[1]>> \o t[3]]
           Q == {x \in nodes : Lists(c[x], S[x])}
<1>1. Sorts(S)
  BY BelowSorts
<1>2. \A x \in nodes : left[x] \in nodes \cup {0} /\ right[x] \in nodes \cup {0} /\ x # 0
  BY <1>1 DEF Sorts
<1>3. << >> \in V /\ G \in [nodes \X V \X V -> V]
  <2>1. ASSUME NEW t \in nodes \X V \X V
        PROVE  (t[2] \o <<t[1]>> \o t[3]) \in V
    <3>1. t[1] \in nodes /\ t[2] \in V /\ t[3] \in V
      BY <2>1
    <3>2. <<t[1]>> \in V
      BY <3>1
    <3> QED
      BY <3>1, <3>2
  <2>2. << >> \in V
    OBVIOUS
  <2> HIDE DEF V
  <2> QED
    BY <2>1, <2>2
<1>4. PICK f : Folds(nodes, left, right, V, << >>, G, f, nodes)
  <2> HIDE DEF G, V
  <2> QED
    BY <1>3, FoldTree DEF Below
<1>5. /\ f \in [nodes \cup {0} -> V] /\ f[0] = << >>
      /\ \A y \in nodes : f[y] = G[<<y, f[left[y]], f[right[y]]>>]
  BY <1>4 DEF Folds
<1>6. \A y \in nodes : f[y] = f[left[y]] \o <<y>> \o f[right[y]]
  <2> TAKE y \in nodes
  <2>1. f[left[y]] \in V /\ f[right[y]] \in V
    <3> HIDE DEF V
    <3> QED
      BY <1>2, <1>5
  <2>2. <<y, f[left[y]], f[right[y]]>> \in nodes \X V \X V
    BY <2>1
  <2> HIDE DEF V
  <2>3. G[<<y, f[left[y]], f[right[y]]>>] = f[left[y]] \o <<y>> \o f[right[y]]
    BY <2>2
  <2> HIDE DEF G
  <2> QED
    BY <2>3, <1>5
<1> DEFINE w == [x \in nodes \cup {Null} |-> f[x]]
<1>7. w = F(w)
  <2> SUFFICES ASSUME NEW x \in nodes \cup {Null}
               PROVE  f[x] = IF x = Null THEN << >> ELSE w[left[x]] \o <<x>> \o w[right[x]]
    OBVIOUS
  <2>1. CASE x = Null
    BY <2>1, <1>5 DEF Null
  <2>2. CASE x # Null
    <3>1. x \in nodes /\ left[x] \in nodes \cup {Null} /\ right[x] \in nodes \cup {Null}
      BY <2>2, <1>2 DEF Null
    <3>2. w[left[x]] = f[left[x]] /\ w[right[x]] = f[right[x]]
      BY <3>1
    <3> HIDE DEF w
    <3> QED
      BY <2>2, <3>1, <3>2, <1>6
  <2> QED
    BY <2>1, <2>2
<1>8. Inorder = c
  BY DEF Inorder
<1>9. c = F(c)
  <2> HIDE DEF w, F
  <2> QED
    BY <1>7
<1>10. /\ c[0] = << >>
       /\ \A x \in nodes : c[x] = c[left[x]] \o <<x>> \o c[right[x]]
  <2> HIDE DEF c
  <2>1. \A x \in nodes \cup {Null} : c[x] = IF x = Null THEN << >> ELSE c[left[x]] \o <<x>> \o c[right[x]]
    BY <1>9
  <2> QED
    BY <2>1, <1>2 DEF Null
<1> HIDE DEF c
<1>11. Lists(c[0], S[0])
  <2>1. << >> \in Seq({}) /\ Len(<< >>) = 0
    OBVIOUS
  <2>2. S[0] = {}
    BY <1>1 DEF Sorts
  <2> QED
    BY <2>1, <2>2, <1>10 DEF Lists
<1>12. ASSUME NEW x \in nodes, left[x] = 0 \/ left[x] \in Q, right[x] = 0 \/ right[x] \in Q
       PROVE  x \in Q
  <2>1. /\ x \in Nat /\ x \in S[x] /\ S[left[x]] \subseteq S[x] /\ S[right[x]] \subseteq S[x]
        /\ \A y \in S[x] : y = x \/ y \in S[left[x]] \/ y \in S[right[x]]
        /\ \A y \in S[left[x]] : y < x /\ y \in Nat
        /\ \A y \in S[right[x]] : x < y /\ y \in Nat
    BY <1>1 DEF Sorts
  <2>2. Lists(c[left[x]], S[left[x]]) /\ Lists(c[right[x]], S[right[x]])
    BY <1>11, <1>12
  <2> DEFINE A == S[left[x]]
             B == S[right[x]]
             a == c[left[x]]
             b == c[right[x]]
             D == S[x]
  <2>3. A \subseteq Nat /\ B \subseteq Nat /\ (\A y \in A : y < x) /\ (\A y \in B : x < y)
        /\ D = A \cup {x} \cup B
    BY <2>1
  <2>4. Lists(a, A) /\ Lists(b, B)
    BY <2>2
  <2>5. c[x] = a \o <<x>> \o b
    BY <1>10
  <2> HIDE DEF A, B, a, b
  <2>6. Lists(a \o <<x>> \o b, D)
    <3> HIDE DEF D
    <3> QED
      BY <2>1, <2>3, <2>4, ListsJoined
  <2> QED
    BY <2>5, <2>6
<1> HIDE DEF Q
<1>13. \A x \in nodes : x \in Q
  BY <1>12, TreeInduct DEF Below
<1>14. Lists(c[root], S[root])
  BY <1>1, <1>11, <1>13 DEF Sorts, Q
<1>15. S[root] = nodes
  BY <1>1 DEF Sorts
<1> QED
  BY <1>8, <1>14, <1>15

(* A sequence that lists a finite set is as long as that is large. *)
LEMMA ListLength ==
  ASSUME NEW A, A \subseteq Nat, NEW s, Lists(s, A)
  PROVE  Len(s) = Cardinality(A)
<1>1. s \in Seq(A) /\ Len(s) \in Nat
  BY DEF Lists
<1>2. IsFiniteSet(1 .. Len(s)) /\ Cardinality(1 .. Len(s)) = Len(s)
  <2>1. 1 \in Int /\ Len(s) \in Int
    BY <1>1
  <2>2. /\ IsFiniteSet(1 .. Len(s))
        /\ Cardinality(1 .. Len(s)) = IF 1 > Len(s) THEN 0 ELSE Len(s) - 1 + 1
    BY <2>1, FS_Interval
  <2> QED
    BY <2>2, <1>1
<1>3. s \in Bijection(1 .. Len(s), A)
  <2>1. s \in [1 .. Len(s) -> A]
    BY <1>1
  <2>2. \A i \in 1 .. Len(s) : \A j \in 1 .. Len(s) : s[i] = s[j] => i = j
    <3> SUFFICES ASSUME NEW i \in 1 .. Len(s), NEW j \in 1 .. Len(s), s[i] = s[j], i # j
                 PROVE  FALSE
      OBVIOUS
    <3>1. i < j \/ j < i
      BY <1>1
    <3>2. s[i] < s[j] \/ s[j] < s[i]
      BY <3>1 DEF Lists
    <3>3. s[i] \in Nat /\ s[j] \in Nat
      BY <2>1
    <3> QED
      BY <3>2, <3>3
  <2>3. \A y \in A : \E i \in 1 .. Len(s) : s[i] = y
    BY DEF Lists
  <2> QED
    BY <2>1, <2>2, <2>3 DEF Bijection, Injection, Surjection, IsInjective
<1> QED
  BY <1>2, <1>3, FS_Bijection DEF ExistsBijection

-----------------------------------------------------------------------------
(* The operations. *)

(* What an operation that starts finds. *)
LEMMA AtRest ==
  ASSUME TreeInv, pc = "idle"
  PROVE  /\ nodes \subseteq Keys /\ nodes \subseteq Nat \ {0} /\ Shape /\ Ends
         /\ red \in [nodes -> BOOLEAN] /\ lefty = FALSE
         /\ Painted(nodes, left, right, red, 0)
         /\ root # 0 => ~red[root]
         /\ root \in nodes \cup {0} /\ (root = 0 <=> nodes = {})
         /\ \E H : Level(nodes, left, right, red, H)
<1>1. /\ nodes \subseteq Keys /\ Shape /\ Ends /\ Balanced
      /\ red \in [nodes -> BOOLEAN] /\ lefty = FALSE
  BY DEF TreeInv, Working
<1>2. PICK H : Heights(nodes, left, right, red, 0, lefty, H)
  BY <1>1 DEF Balanced
<1>3. Level(nodes, left, right, red, H)
  BY <1>1, <1>2, ShapeLinks, PlainHeights
<1>4. Painted(nodes, left, right, red, 0) /\ (root # 0 => ~red[root])
  BY <1>1 DEF Balanced, Null
<1>5. /\ root \in nodes \cup {0} /\ (root = 0 <=> nodes = {})
      /\ nodes \subseteq Nat \ {0}
  BY <1>1, ShapeFacts
<1> QED
  BY <1>1, <1>3, <1>4, <1>5

(* The first insertion keeps the invariant. *)
LEMMA InsertRootKeeps ==
  ASSUME TreeInv, pc = "idle", root = Null, NEW k \in Keys, InsertRoot(k)
  PROVE  TreeInv'
<1>1. nodes = {} /\ Ends
  BY AtRest DEF Null
<1>2. /\ nodes' = {k} /\ left' = [x \in {k} |-> 0] /\ right' = [x \in {k} |-> 0]
      /\ parent' = [x \in {k} |-> 0] /\ red' = [x \in {k} |-> FALSE]
      /\ root' = k /\ first' = k /\ last' = k /\ size' = size + 1
      /\ pc' = "idle" /\ lefty' = FALSE
  BY DEF InsertRoot, Return, GoTo, Null
<1>3. k \in Nat \ {0}
  BY KeysAssumption
<1> DEFINE S2 == [x \in {k} \cup {0} |-> IF x = k THEN {k} ELSE {}]
           H == [x \in {k} \cup {0} |-> IF x = k THEN 1 ELSE 0]
<1>4. IsTree(nodes', left', right', parent', root', S2)
  <2>1. IsFiniteSet({k})
    BY FS_Singleton
  <2>2. S2[0] = {} /\ S2[k] = {k} /\ S2 \in [{k} \cup {0} -> SUBSET {k}]
    BY <1>3
  <2> HIDE DEF S2
  <2> QED
    BY <1>2, <1>3, <2>1, <2>2 DEF IsTree
<1>5. Shape'
  <2> HIDE DEF S2
  <2> QED
    BY <1>4 DEF Shape
<1>6. Ends'
  <2>1. Cardinality({k}) = 1 /\ size = 0
    BY <1>1, FS_Singleton, FS_EmptySet DEF Ends
  <2>2. size' = Cardinality(nodes')
    BY <1>2, <2>1
  <2> QED
    BY <1>2, <1>3, <2>2 DEF Ends
<1>7. Balanced'
  <2>1. /\ H \in [{k} \cup {0} -> Nat] /\ H[0] = 0 /\ H[k] = 1
    BY <1>3
  <2> HIDE DEF H
  <2>2. Level(nodes', left', right', red', H)
    BY <1>2, <2>1 DEF Level
  <2>3. Links(nodes', left', right')
    BY <1>2, <1>3 DEF Links
  <2>4. Heights(nodes', left', right', red', 0, FALSE, H)
    BY <2>2, <2>3, HeightsPlain
  <2>5. Painted(nodes', left', right', red', 0)
    BY <1>2 DEF Painted
  <2> QED
    BY <1>2, <2>4, <2>5 DEF Balanced
<1>8. Working'
  BY <1>2 DEF Working
<1> QED
  BY <1>2, <1>5, <1>6, <1>7, <1>8 DEF TreeInv

(* A new key goes to a place where it is the neighbour of the node above. *)
RoomFor(k, p, toLeft) ==
  /\ p \in nodes /\ k \notin nodes /\ toLeft \in BOOLEAN
  /\ IF toLeft THEN left[p] = 0 /\ k < p ELSE right[p] = 0 /\ p < k
  /\ \A y \in nodes : y # p => (y < p <=> y < k)

(* Attaching a red node at a free place for its key keeps the invariant: the
   ends and the size follow, and the repair has at most a red parent to mend. *)
LEMMA AttachKeeps ==
  ASSUME TreeInv, pc = "idle", NEW k \in Keys, NEW p, NEW toLeft, RoomFor(k, p, toLeft),
         Attach(k, p, toLeft)
  PROVE  TreeInv'
<1>1. /\ nodes \subseteq Keys /\ nodes \subseteq Nat \ {0} /\ Shape /\ Ends
      /\ red \in [nodes -> BOOLEAN] /\ Painted(nodes, left, right, red, 0)
      /\ (root # 0 => ~red[root]) /\ root \in nodes \cup {0}
  BY AtRest
<1>2. PICK H : Level(nodes, left, right, red, H)
  BY AtRest
<1>3. k \in Nat \ {0} /\ p \in nodes /\ k \notin nodes /\ toLeft \in BOOLEAN /\ k # p
  BY KeysAssumption DEF RoomFor
<1>4. /\ nodes' = nodes \cup {k} /\ size' = size + 1 /\ root' = root
      /\ left' = [x \in nodes' |-> IF x = k THEN 0 ELSE IF x = p /\ toLeft THEN k ELSE left[x]]
      /\ right' = [x \in nodes' |-> IF x = k THEN 0 ELSE IF x = p /\ ~toLeft THEN k ELSE right[x]]
      /\ parent' = [x \in nodes' |-> IF x = k THEN p ELSE parent[x]]
      /\ red' = [x \in nodes' |-> x = k \/ red[x]]
      /\ first' = (IF toLeft /\ p = first THEN k ELSE first)
      /\ last' = (IF ~toLeft /\ p = last THEN k ELSE last)
      /\ pc' = "balance" /\ n' = k /\ lefty' = FALSE
  BY DEF Attach, GoTo, Null
<1>5. Shape'
  <2>1. PICK S : IsTree(nodes, left, right, parent, root, S)
    BY <1>1 DEF Shape
  <2>2. Attaches(nodes, left, right, parent, k, p, toLeft, nodes', left', right', parent')
    BY <1>3, <1>4 DEF Attaches, RoomFor
  <2>3. \E S2 : IsTree(nodes', left', right', parent', root, S2)
    BY <2>1, <2>2, Attached
  <2> QED
    BY <2>3, <1>4 DEF Shape
<1>6. \A x \in nodes : left[x] \in nodes \cup {0} /\ right[x] \in nodes \cup {0}
  BY <1>1, ShapeFacts
<1>7. Ends'
  <2>1. size' = Cardinality(nodes')
    <3>1. IsFiniteSet(nodes)
      BY <1>1, ShapeFacts
    <3>2. Cardinality(nodes \cup {k}) = Cardinality(nodes) + 1
      BY <3>1, <1>3, FS_AddElement
    <3> QED
      BY <3>2, <1>1, <1>4 DEF Ends
  <2>2. first \in nodes /\ last \in nodes /\ \A x \in nodes : first <= x /\ x <= last
    BY <1>1, <1>3 DEF Ends
  <2>3. first \in Nat /\ last \in Nat /\ p \in Nat /\ first <= p /\ p <= last
    BY <2>2, <1>1, <1>3
  <2>4. first' \in nodes' /\ last' \in nodes'
    BY <2>2, <1>4
  <2>5. first' <= k /\ k <= last'
    <3>1. (toLeft => k < p) /\ (~toLeft => p < k)
      BY DEF RoomFor
    <3>2. first # p => (first < p <=> first < k)
      BY <2>2 DEF RoomFor
    <3>3. last # p => (last < p <=> last < k)
      BY <2>2 DEF RoomFor
    <3> QED
      BY <3>1, <3>2, <3>3, <2>3, <1>3, <1>4
  <2>6. ASSUME NEW x \in nodes
        PROVE  first' <= x /\ x <= last'
    <3>1. first <= x /\ x <= last /\ x \in Nat
      BY <2>2, <1>1
    <3>2. (toLeft => k < p) /\ (~toLeft => p < k)
      BY DEF RoomFor
    <3> QED
      BY <3>1, <3>2, <2>3, <1>3, <1>4
  <2> QED
    BY <2>1, <2>4, <2>5, <2>6, <1>4 DEF Ends
<1>8. red' \in [nodes' -> BOOLEAN]
  <2>1. \A x \in nodes' : (x = k \/ red[x]) \in BOOLEAN
    BY <1>1, <1>4
  <2> QED
    BY <2>1, <1>4
<1>9. Links(nodes', left', right')
  BY <1>3, <1>4, <1>6, <1>1 DEF Links
<1> DEFINE H2 == [x \in nodes' \cup {0} |-> IF x = k THEN 0 ELSE H[x]]
<1>10. Level(nodes', left', right', red', H2)
  <2>1. /\ H \in [nodes \cup {0} -> Nat] /\ H[0] = 0
        /\ \A x \in nodes : /\ H[x] = H[left[x]] + (IF red[x] THEN 0 ELSE 1)
                            /\ H[x] = H[right[x]] + (IF red[x] THEN 0 ELSE 1)
    BY <1>2 DEF Level
  <2>2. H2 \in [nodes' \cup {0} -> Nat] /\ H2[0] = 0
    BY <2>1, <1>3, <1>4
  <2>3. \A x \in nodes \cup {0} : H2[x] = H[x]
    BY <1>3, <1>4
  <2>4. H2[k] = 0
    BY <1>3, <1>4
  <2> HIDE DEF H2
  <2>5. ASSUME NEW x \in nodes
        PROVE  /\ H2[x] = H2[left'[x]] + (IF red'[x] THEN 0 ELSE 1)
               /\ H2[x] = H2[right'[x]] + (IF red'[x] THEN 0 ELSE 1)
    <3>1. x # k /\ left[x] \in nodes \cup {0} /\ right[x] \in nodes \cup {0} /\ red'[x] = red[x]
      BY <1>1, <1>3, <1>4, <1>6
    <3>2. H2[left'[x]] = H[left[x]]
      <4>1. CASE x = p /\ toLeft
        <5>1. left[x] = 0 /\ left'[x] = k
          BY <4>1, <3>1, <1>4 DEF RoomFor
        <5> QED
          BY <5>1, <2>1, <2>4
      <4>2. CASE ~(x = p /\ toLeft)
        BY <4>2, <3>1, <2>3, <1>4
      <4> QED
        BY <4>1, <4>2
    <3>3. H2[right'[x]] = H[right[x]]
      <4>1. CASE x = p /\ ~toLeft
        <5>1. right[x] = 0 /\ right'[x] = k
          BY <4>1, <3>1, <1>4 DEF RoomFor
        <5> QED
          BY <5>1, <2>1, <2>4
      <4>2. CASE ~(x = p /\ ~toLeft)
        BY <4>2, <3>1, <2>3, <1>4
      <4> QED
        BY <4>1, <4>2
    <3>4. H2[x] = H[x]
      BY <2>3
    <3> QED
      BY <2>1, <3>1, <3>2, <3>3, <3>4
  <2>6. /\ H2[k] = H2[left'[k]] + (IF red'[k] THEN 0 ELSE 1)
        /\ H2[k] = H2[right'[k]] + (IF red'[k] THEN 0 ELSE 1)
    <3>1. k \in nodes'
      BY <1>4
    <3>2. left'[k] = 0 /\ right'[k] = 0 /\ red'[k]
      BY <3>1, <1>4
    <3> QED
      BY <3>2, <2>2, <2>4
  <2> QED
    BY <2>2, <2>5, <2>6, <1>4 DEF Level
<1>11. Painted(nodes', left', right', red', k)
  <2> SUFFICES ASSUME NEW x \in nodes', red'[x]
               PROVE  /\ left'[x] = 0 \/ left'[x] = k \/ ~red'[left'[x]]
                      /\ right'[x] = 0 \/ right'[x] = k \/ ~red'[right'[x]]
    BY DEF Painted
  <2>1. CASE x = k
    BY <2>1, <1>4
  <2>2. CASE x # k
    <3>1. x \in nodes /\ red[x] /\ left[x] \in nodes \cup {0} /\ right[x] \in nodes \cup {0}
      BY <2>2, <1>4, <1>6
    <3>2. (left[x] = 0 \/ ~red[left[x]]) /\ (right[x] = 0 \/ ~red[right[x]])
      BY <3>1, <1>1 DEF Painted
    <3>3. left'[x] = k \/ left'[x] = left[x]
      BY <2>2, <1>4
    <3>4. right'[x] = k \/ right'[x] = right[x]
      BY <2>2, <1>4
    <3>5. \A y \in nodes : red'[y] = red[y]
      BY <1>1, <1>3, <1>4
    <3> QED
      BY <3>1, <3>2, <3>3, <3>4, <3>5
  <2> QED
    BY <2>1, <2>2
<1>12. root # 0 => ~red'[root]
  BY <1>1, <1>3, <1>4
<1>13. Balanced'
  <2>1. Heights(nodes', left', right', red', 0, FALSE, H2)
    <3> HIDE DEF H2
    <3> QED
      BY <1>9, <1>10, HeightsPlain
  <2> HIDE DEF H2
  <2> QED
    BY <1>4, <1>11, <1>12, <2>1 DEF Balanced, Null
<1>14. Working'
  BY <1>4 DEF Working
<1> QED
  BY <1>1, <1>4, <1>5, <1>7, <1>8, <1>13, <1>14 DEF TreeInv

(* insert( v ) keeps the invariant, whether the key is there or not. *)
LEMMA UnbalancedInsertKeeps ==
  ASSUME TreeInv, pc = "idle", NEW k \in Keys, unbalanced_insert(k)
  PROVE  TreeInv'
<1>1. CASE root = Null
  BY <1>1, InsertRootKeeps DEF unbalanced_insert
<1>2. CASE root # Null /\ find(k) # Null
  <2>1. UNCHANGED <<nodes, left, right, parent, root, red, first, last, size, pc, n, lefty>>
    BY <1>2 DEF unbalanced_insert, treeVars, linkVars
  <2> QED
    BY <2>1 DEF TreeInv, Shape, Ends, Balanced, Working, IsRed
<1>3. CASE root # Null /\ find(k) = Null
  <2>1. Attach(k, under(k), k < under(k))
    BY <1>3 DEF unbalanced_insert
  <2>2. Shape /\ nodes # {} /\ nodes \subseteq Nat \ {0}
    BY <1>3, AtRest DEF Null
  <2>3. PICK S : Below(S)
    BY <2>2 DEF Shape, Below
  <2>4. k \in Nat \ {0}
    BY KeysAssumption
  <2>5. k \notin nodes
    BY <1>3, <2>3, <2>4, FindIs DEF Null
  <2> DEFINE p == under(k)
             toLeft == k < p
  <2>6. Place(S, k, root, p)
    BY <2>2, <2>3, <2>4, <2>5, UnderIs
  <2>7. S[root] = nodes
    BY <2>3 DEF Below, IsTree
  <2>8. Attach(k, p, toLeft)
    BY <2>1
  <2> HIDE DEF p
  <2>9. RoomFor(k, p, toLeft)
    <3>1. /\ p \in nodes /\ (IF k < p THEN left[p] = 0 ELSE right[p] = 0)
          /\ \A y \in nodes : y # p => (y < p <=> y < k)
      BY <2>6, <2>7 DEF Place
    <3>2. p \in Nat /\ p # k /\ k \in Nat /\ toLeft \in BOOLEAN
      BY <3>1, <2>2, <2>4, <2>5
    <3>3. IF toLeft THEN left[p] = 0 /\ k < p ELSE right[p] = 0 /\ p < k
      BY <3>1, <3>2
    <3> HIDE DEF toLeft
    <3> QED
      BY <2>5, <3>1, <3>2, <3>3 DEF RoomFor
  <2> HIDE DEF toLeft
  <2> QED
    BY <2>8, <2>9, AttachKeeps
<1> QED
  BY <1>1, <1>2, <1>3

(* insert( hint, v ) keeps the invariant for every hint: where it trusts the hint
   the place it takes is free and the key belongs there. *)
LEMMA HintedInsertKeeps ==
  ASSUME TreeInv, pc = "idle", NEW k \in Keys, NEW h \in nodes \cup {Null}, hinted_insert(h, k)
  PROVE  TreeInv'
<1>1. CASE ~GoodHint(h, k)
  BY <1>1, UnbalancedInsertKeeps DEF hinted_insert
<1> SUFFICES ASSUME GoodHint(h, k) PROVE TreeInv'
  BY <1>1
<1>2. /\ nodes \subseteq Nat \ {0} /\ Shape /\ Ends
  BY AtRest
<1>3. PICK S : Below(S)
  BY <1>2 DEF Shape, Below
<1>4. Sorts(S)
  BY <1>3, BelowSorts
<1>5. /\ first \in nodes /\ last \in nodes /\ \A x \in nodes : first <= x /\ x <= last
  <2>1. nodes # {}
    <3> SUFFICES ASSUME nodes = {} PROVE FALSE
      OBVIOUS
    <3>1. size = 0
      BY <1>2, FS_EmptySet DEF Ends
    <3> QED
      BY <3>1 DEF GoodHint
  <2> QED
    BY <2>1, <1>2 DEF Ends
<1>6. k \in Nat \ {0}
  BY KeysAssumption
<1>7. \A x \in nodes : x \in Nat /\ x # 0
  BY <1>2
<1>8. CASE h # Null /\ left[h] = Null
  <2>1. Attach(k, h, TRUE)
    BY <1>8 DEF hinted_insert
  <2>2. h \in nodes /\ k < h /\ (h = first \/ walk_left(h) < k)
    BY <1>8 DEF GoodHint, decrement
  <2> DEFINE A == {y \in nodes : y < h}
  <2>3. CASE h = first
    <3>1. \A y \in nodes : h <= y
      BY <2>3, <1>5
    <3>2. k \notin nodes
      BY <3>1, <2>2, <1>7, <1>6
    <3>3. \A y \in nodes : y # h => (y < h <=> y < k)
      BY <3>1, <2>2, <1>7, <1>6
    <3>4. RoomFor(k, h, TRUE)
      BY <3>2, <3>3, <2>2, <1>8 DEF RoomFor, Null
    <3> QED
      BY <3>4, <2>1, AttachKeeps
  <2>4. CASE h # first
    <3>1. first \in A
      BY <2>4, <2>2, <1>5, <1>7
    <3>2. walk_left(h) = NextBefore(A)
      BY <2>2, <1>3, WalkLeftIs
    <3> DEFINE m == NextBefore(A)
    <3>3. \A y \in A : y <= m
      <4>1. A \subseteq Nat \ {0} /\ h \in Nat /\ \A y \in A : y <= h
        BY <1>7, <2>2
      <4> HIDE DEF A
      <4> QED
        BY <4>1, BeforeFacts
    <3>4. m < k /\ m \in Nat
      <4>1. A \subseteq Nat \ {0} /\ h \in Nat /\ \A y \in A : y <= h
        BY <1>7, <2>2
      <4>2. A # {}
        BY <3>1
      <4> HIDE DEF A
      <4>3. m \in A
        BY <4>1, <4>2, BeforeFacts
      <4> QED
        BY <4>1, <4>3, <3>2, <2>2, <2>4
    <3> HIDE DEF m
    <3>5. \A y \in nodes : y # h => (y < h <=> y < k)
      <4> TAKE y \in nodes
      <4>1. y < h => y <= m
        BY <3>3
      <4> QED
        BY <4>1, <3>4, <2>2, <1>7, <1>6
    <3>6. k \notin nodes
      <4>1. k < h => k <= m \/ k \notin nodes
        BY <3>3
      <4> QED
        BY <4>1, <3>4, <2>2, <1>6
    <3>7. RoomFor(k, h, TRUE)
      BY <3>5, <3>6, <2>2, <1>8 DEF RoomFor, Null
    <3> QED
      BY <3>7, <2>1, AttachKeeps
  <2> QED
    BY <2>3, <2>4
<1>9. CASE h = Null
  <2>1. Attach(k, last, FALSE)
    BY <1>9 DEF hinted_insert, decrement
  <2>2. last < k
    <3>1. h # first
      BY <1>9, <1>5, <1>7 DEF Null
    <3> QED
      BY <3>1, <1>9 DEF GoodHint, decrement
  <2>3. right[last] = 0
    <3> SUFFICES ASSUME right[last] # 0 PROVE FALSE
      OBVIOUS
    <3>1. right[last] \in nodes /\ last < right[last]
      BY <1>2, <1>5, ShapeFacts
    <3> QED
      BY <3>1, <1>5, <1>7
  <2>4. k \notin nodes
    BY <2>2, <1>5, <1>6, <1>7
  <2>5. \A y \in nodes : y # last => (y < last <=> y < k)
    BY <2>2, <1>5, <1>6, <1>7
  <2>6. RoomFor(k, last, FALSE)
    BY <1>5, <2>2, <2>3, <2>4, <2>5 DEF RoomFor
  <2> QED
    BY <2>1, <2>6, AttachKeeps
<1>10. CASE h # Null /\ left[h] # Null
  <2>1. Attach(k, walk_left(h), FALSE)
    BY <1>10 DEF hinted_insert, decrement
  <2>2. h \in nodes /\ k < h /\ h \in Nat
    BY <1>10, <1>7 DEF GoodHint
  <2>3. left[h] \in nodes /\ left[h] < h
    BY <1>2, <1>10, <2>2, ShapeFacts DEF Null
  <2>4. walk_left(h) < k
    <3>1. first <= left[h] /\ first \in Nat /\ left[h] \in Nat
      BY <2>3, <1>5, <1>7
    <3>2. h # first
      BY <3>1, <2>2, <2>3
    <3> QED
      BY <3>2, <1>10 DEF GoodHint, decrement
  <2> DEFINE A == {y \in nodes : y < h}
             p == NextBefore(A)
  <2>5. walk_left(h) = p
    BY <2>2, <1>3, WalkLeftIs
  <2>6. A \subseteq Nat \ {0} /\ (\A y \in A : y <= h) /\ left[h] \in A
    <3>1. left[h] \in A
      BY <2>3
    <3>2. A \subseteq Nat \ {0}
      BY <1>2
    <3>3. \A y \in A : y <= h
      BY <1>7, <2>2
    <3> QED
      BY <3>1, <3>2, <3>3
  <2>7. p \in A /\ \A y \in A : y <= p
    <3> HIDE DEF A
    <3> QED
      BY <2>2, <2>6, BeforeFacts
  <2>8. p = NextBefore(S[left[h]])
    BY <2>3, <2>5, <1>3, <1>10, RightmostIs DEF walk_left
  <2>9. p \in S[left[h]]
    <3>1. left[h] \in S[left[h]] /\ S[left[h]] \subseteq Nat \ {0} /\ \A y \in S[left[h]] : y <= h
      BY <1>4, <2>2, <2>3 DEF Sorts
    <3> QED
      BY <2>2, <2>8, <3>1, BeforeFacts
  <2> HIDE DEF p
  <2>10. right[p] = 0
    <3>1. \A y \in S[left[h]] : y <= p
      BY <2>2, <2>7, <1>4 DEF Sorts
    <3> QED
      BY <2>2, <2>9, <3>1, <1>3, Predecessor DEF Below
  <2>11. p \in nodes /\ p \in Nat /\ p < k /\ p < h
    BY <2>4, <2>5, <2>7, <1>7
  <2>12. \A y \in nodes : y # p => (y < p <=> y < k)
    <3> TAKE y \in nodes
    <3>1. y < h => y <= p
      BY <2>7
    <3> QED
      BY <3>1, <2>2, <2>11, <1>6, <1>7
  <2>13. k \notin nodes
    <3>1. k \in nodes /\ k < h => k <= p
      BY <2>7
    <3> QED
      BY <3>1, <2>2, <2>11, <1>6
  <2>14. RoomFor(k, p, FALSE)
    BY <2>10, <2>11, <2>12, <2>13 DEF RoomFor
  <2> QED
    BY <2>1, <2>5, <2>14, AttachKeeps
<1> QED
  BY <1>8, <1>9, <1>10

(* The ends of the tree when a node is taken out. *)
LEMMA ForgetEnds ==
  ASSUME Shape, Ends, nodes \subseteq Nat \ {0}, NEW d \in nodes, Forget(d)
  PROVE  Ends'
<1>1. PICK S : Below(S)
  BY DEF Shape, Below
<1>2. /\ nodes' = nodes \ {d} /\ size' = size - 1
      /\ first' = (IF d # first THEN first ELSE IF d = last THEN 0 ELSE walk_right(d))
      /\ last' = (IF d # last THEN last ELSE IF d = first THEN 0 ELSE walk_left(d))
  BY DEF Forget, Null
<1>3. /\ first \in nodes /\ last \in nodes /\ \A x \in nodes : first <= x /\ x <= last
  BY DEF Ends
<1>4. \A x \in nodes : x \in Nat /\ x # 0
  OBVIOUS
<1>5. size' = Cardinality(nodes')
  <2>1. IsFiniteSet(nodes)
    BY ShapeFacts
  <2>2. Cardinality(nodes \ {d}) = Cardinality(nodes) - 1
    BY <2>1, FS_RemoveElement
  <2> QED
    BY <2>2, <1>2 DEF Ends
<1>6. first = last => nodes = {first}
  <2> SUFFICES ASSUME first = last, NEW x \in nodes PROVE x = first
    BY <1>3
  <2>1. first <= x /\ x <= first /\ x \in Nat /\ first \in Nat
    BY <1>3, <1>4
  <2> QED
    BY <2>1
<1>7. ASSUME nodes' = {}
      PROVE  first' = Null /\ last' = Null
  <2>1. first = d /\ last = d
    BY <1>2, <1>3, <1>7
  <2> QED
    BY <2>1, <1>2 DEF Null
<1>8. ASSUME nodes' # {}
      PROVE  first' \in nodes' /\ \A x \in nodes' : first' <= x
  <2>1. CASE d # first
    BY <2>1, <1>2, <1>3
  <2>2. CASE d = first
    <3> DEFINE A == {y \in nodes : y > d}
               m == NextAfter(A)
    <3>1. d # last
      BY <2>2, <1>2, <1>6, <1>8
    <3>2. first' = m
      BY <2>2, <3>1, <1>1, <1>2, WalkRightIs
    <3>3. A \subseteq Nat \ {0}
      OBVIOUS
    <3>4. \A x \in nodes' : x \in A
      BY <2>2, <1>2, <1>3, <1>4
    <3>5. m \in A /\ \A y \in A : m <= y
      <4>1. A # {}
        BY <3>4, <1>8
      <4> HIDE DEF A
      <4> QED
        BY <3>3, <4>1, AfterFacts
    <3> HIDE DEF m
    <3>6. m \in nodes'
      BY <3>5, <1>2, <1>4
    <3> QED
      BY <3>2, <3>4, <3>5, <3>6
  <2> QED
    BY <2>1, <2>2
<1>9. ASSUME nodes' # {}
      PROVE  last' \in nodes' /\ \A x \in nodes' : x <= last'
  <2>1. CASE d # last
    BY <2>1, <1>2, <1>3
  <2>2. CASE d = last
    <3> DEFINE A == {y \in nodes : y < d}
               m == NextBefore(A)
    <3>1. d # first
      BY <2>2, <1>2, <1>6, <1>9
    <3>2. last' = m
      BY <2>2, <3>1, <1>1, <1>2, WalkLeftIs
    <3>3. A \subseteq Nat \ {0} /\ d \in Nat /\ \A y \in A : y <= d
      <4>1. \A y \in A : y \in Nat /\ y # 0 /\ y < d
        BY <1>4
      <4>2. d \in Nat
        BY <1>4
      <4>3. \A y \in A : y <= d
        BY <4>1, <4>2
      <4> QED
        BY <4>1, <4>2, <4>3
    <3>4. \A x \in nodes' : x \in A
      BY <2>2, <1>2, <1>3, <1>4
    <3>5. m \in A /\ \A y \in A : y <= m
      <4>1. A # {}
        BY <3>4, <1>9
      <4> HIDE DEF A
      <4> QED
        BY <3>3, <4>1, BeforeFacts
    <3> HIDE DEF m
    <3>6. m \in nodes'
      BY <3>5, <1>2, <1>4
    <3> QED
      BY <3>2, <3>4, <3>5, <3>6
  <2> QED
    BY <2>1, <2>2
<1> QED
  BY <1>5, <1>7, <1>8, <1>9 DEF Ends

(* A node without a left or a right child has at most a red leaf for the other. *)
Thin(d, c, H) ==
  /\ c = IF left[d] # 0 THEN left[d] ELSE right[d]
  /\ c \in nodes \cup {0} /\ c # d
  /\ c # 0 => /\ red[c] /\ ~red[d] /\ H[c] = 0 /\ H[left[c]] = 0 /\ H[right[c]] = 0
              /\ parent[c] = d
  /\ H[d] = IF red[d] THEN 0 ELSE 1

(* What the balance of the tree says of a node without a left or a right child. *)
LEMMA ThinFacts ==
  ASSUME TreeInv, pc = "idle", NEW H, Level(nodes, left, right, red, H),
         NEW d \in nodes, left[d] = 0 \/ right[d] = 0,
         NEW c, c = IF left[d] # 0 THEN left[d] ELSE right[d]
  PROVE  Thin(d, c, H)
<1>1. /\ Shape /\ red \in [nodes -> BOOLEAN] /\ Painted(nodes, left, right, red, 0)
  BY AtRest
<1>2. \A x \in nodes : /\ left[x] \in nodes \cup {0} /\ right[x] \in nodes \cup {0}
                       /\ x # 0 /\ x \in Nat
                       /\ left[x] # 0 => parent[left[x]] = x /\ left[x] < x
                       /\ right[x] # 0 => parent[right[x]] = x /\ x < right[x]
  BY <1>1, ShapeFacts
<1>3. /\ H[0] = 0
      /\ \A x \in nodes : H[x] \in Nat /\ H[left[x]] \in Nat /\ H[right[x]] \in Nat
      /\ \A x \in nodes : /\ H[x] = H[left[x]] + (IF red[x] THEN 0 ELSE 1)
                          /\ H[x] = H[right[x]] + (IF red[x] THEN 0 ELSE 1)
  BY <1>2 DEF Level
<1>4. H[d] = IF red[d] THEN 0 ELSE 1
  BY <1>3
<1>5. c \in nodes \cup {0} /\ c # d
  BY <1>2
<1>6. ASSUME c # 0
      PROVE  /\ red[c] /\ ~red[d] /\ H[c] = 0 /\ H[left[c]] = 0 /\ H[right[c]] = 0
             /\ parent[c] = d
  <2>1. parent[c] = d /\ c \in nodes
    BY <1>2, <1>5, <1>6
  <2>2. H[c] = 0
    BY <1>3, <1>4, <1>6
  <2>3. red[c] /\ H[left[c]] = 0 /\ H[right[c]] = 0
    BY <2>1, <2>2, <1>3
  <2>4. ~red[d]
    BY <1>1, <2>1, <2>3, <1>6 DEF Painted
  <2> QED
    BY <2>1, <2>2, <2>3, <2>4
<1> QED
  BY <1>4, <1>5, <1>6 DEF Thin

(* erase( iterator ) of a node without a left or a right child keeps the
   invariant: a black leaf leaves its parent's side one black node short. *)
LEMMA UnlinkEndKeeps ==
  ASSUME TreeInv, pc = "idle", NEW d \in nodes, Forget(d), UnlinkEnd(d),
         left[d] = 0 \/ right[d] = 0
  PROVE  TreeInv'
<1> DEFINE p == parent[d]
           toLeft == p # 0 /\ d = left[p]
           c == IF left[d] # 0 THEN left[d] ELSE right[d]
           hole == p # 0 /\ ~red[d] /\ c = 0
<1>1. /\ nodes \subseteq Keys /\ nodes \subseteq Nat \ {0} /\ Shape /\ Ends
      /\ red \in [nodes -> BOOLEAN] /\ Painted(nodes, left, right, red, 0)
      /\ (root # 0 => ~red[root]) /\ root \in nodes \cup {0}
  BY AtRest
<1>2. PICK H : Level(nodes, left, right, red, H)
  BY AtRest
<1>3. Thin(d, c, H)
  BY <1>2, ThinFacts
<1>4. /\ \A x \in nodes : /\ left[x] \in nodes \cup {0} /\ right[x] \in nodes \cup {0}
                          /\ x # 0
                          /\ left[x] # 0 => parent[left[x]] = x
                          /\ right[x] # 0 => parent[right[x]] = x
      /\ p \in nodes \cup {0} /\ p # d
      /\ p = 0 <=> d = root
      /\ p # 0 => d \in {left[p], right[p]}
  <2>1. PICK S : Below(S)
    BY <1>1 DEF Shape, Below
  <2>2. p # 0 => p \in nodes /\ p \notin S[d]
    BY <2>1, BelowParent DEF Below
  <2>3. d \in S[d]
    BY <2>1, BelowSorts DEF Sorts
  <2>4. p = 0 <=> d = root
    BY <2>1, BelowParent DEF Below
  <2> QED
    BY <2>2, <2>3, <2>4, <1>1, ShapeFacts
<1>5. /\ c \in nodes \cup {0} /\ c # d
      /\ c # 0 => /\ red[c] /\ ~red[d] /\ H[c] = 0 /\ H[left[c]] = 0 /\ H[right[c]] = 0
                  /\ parent[c] = d
      /\ H[d] = IF red[d] THEN 0 ELSE 1
  BY <1>3 DEF Thin
<1>6. /\ nodes' = nodes \ {d}
      /\ left' = [k \in nodes' |-> IF k = p /\ toLeft THEN c ELSE left[k]]
      /\ right' = [k \in nodes' |-> IF k = p /\ ~toLeft THEN c ELSE right[k]]
      /\ parent' = [k \in nodes' |-> IF k = c THEN p ELSE parent[k]]
      /\ red' = [k \in nodes' |-> k # c /\ red[k]]
      /\ root' = (IF p = 0 THEN c ELSE root)
      /\ hole => pc' = "doubleBlack" /\ n' = p /\ lefty' = toLeft
      /\ ~hole => pc' = "idle" /\ lefty' = FALSE
  <2>1. (IF p # 0 /\ red[d] THEN 0 ELSE c) = c
    BY <1>5
  <2> HIDE DEF c
  <2>2. ChildOf(d) = c
    BY DEF ChildOf, c, Null
  <2> HIDE DEF p
  <2>3. nodes' = nodes \ {d}
    BY DEF Forget
  <2>4. parent[d] = p
    BY DEF p
  <2> QED
    BY <2>1, <2>2, <2>3, <2>4 DEF UnlinkEnd, Return, GoTo, Null
<1>7. Shape'
  <2>1. PICK S : IsTree(nodes, left, right, parent, root, S)
    BY <1>1 DEF Shape
  <2>2. Unlinks(nodes, left, right, parent, root, d, c, toLeft, nodes', left', right', parent', root')
    BY <1>6 DEF Unlinks
  <2> HIDE DEF c, toLeft
  <2>3. \E S2 : IsTree(nodes', left', right', parent', root', S2)
    BY <2>1, <2>2, Unlinked
  <2> QED
    BY <2>3 DEF Shape
<1>8. Ends'
  BY <1>1, ForgetEnds
<1> HIDE DEF c, toLeft, p, hole
<1>8a. /\ toLeft \in BOOLEAN /\ hole \in BOOLEAN
       /\ hole <=> p # 0 /\ ~red[d] /\ c = 0
       /\ toLeft <=> p # 0 /\ d = left[p]
       /\ d \in nodes
  BY DEF toLeft, hole
<1> DEFINE H2 == [x \in nodes' \cup {0} |-> IF x # 0 /\ x = c THEN 1 ELSE H[x]]
<1>9. /\ H \in [nodes \cup {0} -> Nat] /\ H[0] = 0
      /\ \A x \in nodes : /\ H[x] = H[left[x]] + (IF red[x] THEN 0 ELSE 1)
                          /\ H[x] = H[right[x]] + (IF red[x] THEN 0 ELSE 1)
  BY <1>2 DEF Level
<1>10. /\ H2 \in [nodes' \cup {0} -> Nat] /\ H2[0] = 0
       /\ \A x \in nodes' \cup {0} : x # c \/ c = 0 => H2[x] = H[x]
       /\ c # 0 => H2[c] = 1
  <2>1. H2 \in [nodes' \cup {0} -> Nat]
    BY <1>9, <1>6
  <2>2. H2[0] = 0
    BY <1>9
  <2>3. \A x \in nodes' \cup {0} : x # c \/ c = 0 => H2[x] = H[x]
    BY <1>9
  <2>4. c # 0 => H2[c] = 1
    BY <1>5, <1>6
  <2> QED
    BY <2>1, <2>2, <2>3, <2>4
<1> HIDE DEF H2
<1>11. H[d] = H2[c] + (IF hole THEN 1 ELSE 0) \/ p = 0
  BY <1>5, <1>8a, <1>10
<1>12. red' \in [nodes' -> BOOLEAN]
  <2>1. \A k \in nodes' : (k # c /\ red[k]) \in BOOLEAN
    BY <1>1, <1>6
  <2> QED
    BY <2>1, <1>6
<1>13. ASSUME NEW x \in nodes'
       PROVE  /\ x \in nodes /\ x # 0 /\ x # d
              /\ \/ (left'[x] = c /\ left[x] = d /\ x = p /\ toLeft)
                 \/ (left'[x] = left[x] /\ left[x] # d /\ (x # p \/ ~toLeft))
              /\ \/ (right'[x] = c /\ right[x] = d /\ x = p /\ ~toLeft)
                 \/ (right'[x] = right[x] /\ right[x] # d /\ (x # p \/ toLeft))
              /\ c # 0 => left[x] # c /\ right[x] # c
              /\ IF x = c THEN ~red'[x] ELSE red'[x] = red[x]
  <2>1. x \in nodes /\ x # 0 /\ x # d
    BY <1>4, <1>6
  <2>2. left[x] = d => x = p /\ toLeft
    BY <2>1, <1>4, <1>8a DEF p
  <2>3. right[x] = d => x = p
    BY <2>1, <1>4, <1>8a DEF p
  <2>4. right[x] = d => ~toLeft
    <3>1. PICK S : Below(S)
      BY <1>1 DEF Shape, Below
    <3>2. left[x] = d => left[x] < x
      BY <2>1, <1>1, <1>8a, <1>4, ShapeFacts
    <3>3. right[x] = d => x < right[x]
      BY <2>1, <1>1, <1>8a, <1>4, ShapeFacts
    <3>4. x \in Nat /\ d \in Nat
      BY <2>1, <1>1
    <3> QED
      BY <2>3, <3>2, <3>3, <3>4, <1>8a
  <2>5. c # 0 => left[x] # c /\ right[x] # c
    BY <2>1, <1>4, <1>5
  <2>6. IF x = p /\ toLeft THEN left'[x] = c ELSE left'[x] = left[x]
    BY <1>6
  <2>7. IF x = p /\ ~toLeft THEN right'[x] = c ELSE right'[x] = right[x]
    BY <1>6
  <2>8. x = p => (toLeft /\ left[x] = d) \/ (~toLeft /\ right[x] = d)
    BY <2>1, <1>4, <1>8a
  <2>9. IF x = c THEN ~red'[x] ELSE red'[x] = red[x]
    BY <1>6, <1>12, <2>1, <1>1
  <2> QED
    BY <2>1, <2>2, <2>3, <2>4, <2>5, <2>6, <2>7, <2>8, <2>9, <1>8a
<1>14. Heights(nodes', left', right', red', IF hole THEN p ELSE 0, IF hole THEN toLeft ELSE FALSE, H2)
  <2>1. ASSUME NEW x \in nodes'
        PROVE  /\ H2[x] = H2[left'[x]] + (IF red'[x] THEN 0 ELSE 1)
                          + (IF hole /\ x = p /\ toLeft THEN 1 ELSE 0)
               /\ H2[x] = H2[right'[x]] + (IF red'[x] THEN 0 ELSE 1)
                          + (IF hole /\ x = p /\ ~toLeft THEN 1 ELSE 0)
    <3>1. /\ x \in nodes /\ x # 0 /\ x # d
          /\ \/ (left'[x] = c /\ left[x] = d /\ x = p /\ toLeft)
             \/ (left'[x] = left[x] /\ left[x] # d /\ (x # p \/ ~toLeft))
          /\ \/ (right'[x] = c /\ right[x] = d /\ x = p /\ ~toLeft)
             \/ (right'[x] = right[x] /\ right[x] # d /\ (x # p \/ toLeft))
          /\ c # 0 => left[x] # c /\ right[x] # c
          /\ IF x = c THEN ~red'[x] ELSE red'[x] = red[x]
      BY <1>13
    <3>2. /\ H[x] \in Nat /\ H[left[x]] \in Nat /\ H[right[x]] \in Nat
          /\ H[x] = H[left[x]] + (IF red[x] THEN 0 ELSE 1)
          /\ H[x] = H[right[x]] + (IF red[x] THEN 0 ELSE 1)
      BY <3>1, <1>4, <1>9
    <3>3. left[x] # d => H2[left[x]] = H[left[x]]
      BY <3>1, <1>4, <1>6, <1>10
    <3>4. right[x] # d => H2[right[x]] = H[right[x]]
      BY <3>1, <1>4, <1>6, <1>10
    <3>5. CASE x = c
      <4>1. H2[x] = 1 /\ H[left[x]] = 0 /\ H[right[x]] = 0 /\ ~red'[x]
        BY <3>1, <3>5, <1>5, <1>10
      <4>2. x # p
        <5> SUFFICES ASSUME x = p PROVE FALSE
          OBVIOUS
        <5>1. parent[c] = d /\ d \in {left[c], right[c]} /\ c \in nodes
          BY <3>1, <3>5, <1>4, <1>5
        <5>2. H[d] = 0
          BY <5>1, <4>1, <3>5
        <5>3. ~red[d]
          BY <3>1, <3>5, <1>5
        <5> QED
          BY <5>2, <5>3, <1>5
      <4> QED
        BY <4>1, <4>2, <3>1, <3>3, <3>4
    <3>6. CASE x # c
      <4>1. H2[x] = H[x] /\ red'[x] = red[x] /\ H2[c] \in Nat
        BY <3>1, <3>6, <1>10, <1>5, <1>6
      <4>2. x = p => H[d] = H2[c] + (IF hole THEN 1 ELSE 0)
        BY <1>11, <3>1
      <4>3. H2[x] = H2[left'[x]] + (IF red'[x] THEN 0 ELSE 1)
                          + (IF hole /\ x = p /\ toLeft THEN 1 ELSE 0)
        <5>1. CASE left'[x] = c /\ left[x] = d /\ x = p /\ toLeft
          BY <5>1, <4>1, <4>2, <3>2
        <5>2. CASE left'[x] = left[x] /\ left[x] # d /\ (x # p \/ ~toLeft)
          BY <5>2, <4>1, <3>2, <3>3
        <5> QED
          BY <3>1, <5>1, <5>2
      <4>4. H2[x] = H2[right'[x]] + (IF red'[x] THEN 0 ELSE 1)
                          + (IF hole /\ x = p /\ ~toLeft THEN 1 ELSE 0)
        <5>1. CASE right'[x] = c /\ right[x] = d /\ x = p /\ ~toLeft
          BY <5>1, <4>1, <4>2, <3>2
        <5>2. CASE right'[x] = right[x] /\ right[x] # d /\ (x # p \/ toLeft)
          BY <5>2, <4>1, <3>2, <3>4
        <5> QED
          BY <3>1, <5>1, <5>2
      <4> QED
        BY <4>3, <4>4
    <3> QED
      BY <3>5, <3>6
  <2>2. \A x \in nodes' : x # 0
    BY <1>13
  <2> QED
    BY <2>1, <2>2, <1>8a, <1>10 DEF Heights
<1>15. Painted(nodes', left', right', red', 0)
  <2> SUFFICES ASSUME NEW x \in nodes', red'[x]
               PROVE  /\ left'[x] = 0 \/ left'[x] = 0 \/ ~red'[left'[x]]
                      /\ right'[x] = 0 \/ right'[x] = 0 \/ ~red'[right'[x]]
    BY DEF Painted
  <2>1. /\ x \in nodes /\ x # c /\ red[x]
        /\ left'[x] = c \/ (left'[x] = left[x] /\ left[x] # d)
        /\ right'[x] = c \/ (right'[x] = right[x] /\ right[x] # d)
    BY <1>13
  <2>2. (left[x] = 0 \/ ~red[left[x]]) /\ (right[x] = 0 \/ ~red[right[x]])
    BY <2>1, <1>1 DEF Painted
  <2>3. c # 0 => ~red'[c]
    BY <1>5, <1>6, <1>13
  <2>4. \A y \in nodes' : red'[y] => red[y]
    BY <1>6
  <2> QED
    BY <2>1, <2>2, <2>3, <2>4, <1>4, <1>6
<1>16. root' # 0 => ~red'[root']
  <2>1. CASE p = 0
    BY <2>1, <1>5, <1>6, <1>13
  <2>2. CASE p # 0
    <3>1. root' = root /\ root # d
      BY <2>2, <1>4, <1>6
    <3> QED
      BY <3>1, <1>1, <1>6
  <2> QED
    BY <2>1, <2>2
<1>17. Balanced'
  <2>1. CASE hole
    <3>1. pc' = "doubleBlack" /\ n' = p /\ lefty' = toLeft
      BY <2>1, <1>6
    <3> QED
      BY <2>1, <3>1, <1>14, <1>15, <1>16 DEF Balanced, Null
  <2>2. CASE ~hole
    <3>1. pc' = "idle" /\ lefty' = FALSE
      BY <2>2, <1>6
    <3> QED
      BY <2>2, <3>1, <1>14, <1>15, <1>16 DEF Balanced, Null
  <2> QED
    BY <2>1, <2>2, <1>8a
<1>18. Working'
  <2>1. CASE hole
    <3>1. pc' = "doubleBlack" /\ n' = p /\ lefty' = toLeft
      BY <2>1, <1>6
    <3>2. p \in nodes' /\ (IF toLeft THEN left'[p] ELSE right'[p]) = 0
      <4>1. p \in nodes' /\ c = 0
        BY <2>1, <1>4, <1>6, <1>8a
      <4> QED
        BY <4>1, <1>13, <1>6
    <3> QED
      BY <3>1, <3>2, <1>8a DEF Working, IsRed, Null
  <2>2. CASE ~hole
    <3>1. pc' = "idle" /\ lefty' = FALSE
      BY <2>2, <1>6
    <3> QED
      BY <3>1 DEF Working
  <2> QED
    BY <2>1, <2>2, <1>8a
<1> QED
  BY <1>1, <1>6, <1>7, <1>8, <1>12, <1>17, <1>18 DEF TreeInv

(* erase( iterator ) of a node with two children keeps the invariant, also when
   the predecessor that takes its place is its own left child. *)
LEMMA UnlinkInnerKeeps ==
  ASSUME TreeInv, pc = "idle", NEW d \in nodes, Forget(d), UnlinkInner(d),
         left[d] # 0, right[d] # 0
  PROVE  TreeInv'
<1> DEFINE pred == rightmost[left[d]]
           p == IF pred = left[d] THEN pred ELSE parent[pred]
           c == left[pred]
           side == pred = left[d]
           hole == ~red[pred] /\ c = 0
<1>1. /\ nodes \subseteq Keys /\ nodes \subseteq Nat \ {0} /\ Shape /\ Ends
      /\ red \in [nodes -> BOOLEAN] /\ Painted(nodes, left, right, red, 0)
      /\ (root # 0 => ~red[root]) /\ root \in nodes \cup {0}
  BY AtRest
<1>2. PICK H : Level(nodes, left, right, red, H)
  BY AtRest
<1>3. PICK S : Below(S)
  BY <1>1 DEF Shape, Below
<1>4. Sorts(S)
  BY <1>3, BelowSorts
<1>5. /\ \A x \in nodes : /\ left[x] \in nodes \cup {0} /\ right[x] \in nodes \cup {0}
                          /\ x # 0 /\ x \in Nat
                          /\ left[x] # 0 => parent[left[x]] = x /\ left[x] < x
                          /\ right[x] # 0 => parent[right[x]] = x /\ x < right[x]
                          /\ x # root => parent[x] \in nodes /\ x \in {left[parent[x]], right[parent[x]]}
      /\ root \in nodes /\ parent[root] = 0
  BY <1>1, ShapeFacts
<1>6. pred \in S[left[d]] /\ \A y \in S[left[d]] : y <= pred
  <2>1. left[d] \in nodes
    BY <1>5
  <2>2. pred = NextBefore(S[left[d]])
    BY <2>1, <1>3, RightmostIs
  <2>3. PICK b \in Nat : \A y \in nodes : y <= b
    BY <1>3, Bounded
  <2>4. /\ S[left[d]] \subseteq Nat \ {0} /\ left[d] \in S[left[d]]
        /\ \A y \in S[left[d]] : y <= b
    BY <2>1, <2>3, <1>4 DEF Sorts
  <2> DEFINE A == S[left[d]]
  <2>5. A # {} /\ A \subseteq Nat \ {0} /\ \A y \in A : y <= b
    BY <2>4
  <2> HIDE DEF A, pred
  <2>6. NextBefore(A) \in A /\ \A y \in A : y <= NextBefore(A)
    BY <2>3, <2>5, BeforeFacts
  <2> QED
    BY <2>2, <2>6 DEF A
<1> HIDE DEF pred
<1>7. /\ pred \in nodes /\ pred # d /\ right[pred] = 0 /\ pred # root
      /\ parent[pred] \in nodes
      /\ side => parent[pred] = d
      /\ ~side => /\ parent[pred] \in S[left[d]] /\ pred = right[parent[pred]]
                  /\ pred # left[parent[pred]] /\ parent[pred] # d /\ parent[pred] # pred
  BY <1>3, <1>6, Predecessor DEF Below
<1>8. Thin(pred, c, H)
  <2>1. c = IF left[pred] # 0 THEN left[pred] ELSE right[pred]
    BY <1>7
  <2> HIDE DEF c
  <2> QED
    BY <1>2, <1>7, <2>1, ThinFacts
<1>9. /\ c \in nodes \cup {0} /\ c # pred
      /\ c # 0 => /\ red[c] /\ ~red[pred] /\ H[c] = 0 /\ H[left[c]] = 0 /\ H[right[c]] = 0
                  /\ parent[c] = pred
      /\ H[pred] = IF red[pred] THEN 0 ELSE 1
  BY <1>8 DEF Thin
<1>10. /\ nodes' = nodes \ {d}
       /\ left' = [k \in nodes' |-> IF k = p /\ k = pred THEN c
                                     ELSE IF k = pred THEN left[d]
                                     ELSE IF k = parent[d] /\ left[k] = d THEN pred ELSE left[k]]
       /\ right' = [k \in nodes' |-> IF k = pred THEN right[d] ELSE IF k = p THEN c
                                      ELSE IF k = parent[d] /\ left[k] # d THEN pred ELSE right[k]]
       /\ parent' = [k \in nodes' |-> IF k = pred THEN parent[d] ELSE IF k = c THEN p
                                       ELSE IF k \in {left[d], right[d]} THEN pred ELSE parent[k]]
       /\ red' = [k \in nodes' |-> IF k = pred THEN red[d] ELSE k # c /\ red[k]]
       /\ root' = (IF d = root THEN pred ELSE root)
       /\ hole => pc' = "doubleBlack" /\ n' = p /\ lefty' = side
       /\ ~hole => pc' = "idle" /\ lefty' = FALSE
  <2>1. (IF red[pred] THEN 0 ELSE left[pred]) = c
    BY <1>9
  <2> HIDE DEF c
  <2>2. nodes' = nodes \ {d}
    BY DEF Forget
  <2>3. rightmost[left[d]] = pred
    BY DEF pred
  <2> QED
    BY <2>1, <2>2, <2>3 DEF UnlinkInner, Return, GoTo, Null
<1>11. Shape'
  <2>1. InnerUnlinks(nodes, left, right, parent, root, d, pred, p, c, nodes', left', right', parent', root')
    BY <1>10 DEF InnerUnlinks
  <2> HIDE DEF c, p
  <2>2. IsTree(nodes, left, right, parent, root, S)
    BY <1>3 DEF Below
  <2>3. \E S2 : IsTree(nodes', left', right', parent', root', S2)
    BY <2>1, <2>2, <1>6, InnerUnlinked
  <2> QED
    BY <2>3 DEF Shape
<1>12. Ends'
  BY <1>1, ForgetEnds
<1>13. /\ p \in nodes /\ p # d /\ p # 0
       /\ side => p = pred
       /\ ~side => p # pred /\ right[p] = pred /\ left[p] # pred
  BY <1>5, <1>7
<1>13a. /\ left[pred] = c /\ (side <=> pred = left[d])
  OBVIOUS
<1> HIDE DEF c, p, side, hole
<1>14. /\ side \in BOOLEAN /\ hole \in BOOLEAN
       /\ hole <=> ~red[pred] /\ c = 0
  BY DEF side, hole
<1> DEFINE H2 == [x \in nodes' \cup {0} |-> IF x = pred THEN H[d]
                                           ELSE IF x # 0 /\ x = c THEN 1 ELSE H[x]]
<1>15. /\ H \in [nodes \cup {0} -> Nat] /\ H[0] = 0
       /\ \A x \in nodes : /\ H[x] = H[left[x]] + (IF red[x] THEN 0 ELSE 1)
                           /\ H[x] = H[right[x]] + (IF red[x] THEN 0 ELSE 1)
  BY <1>2 DEF Level
<1>16. c # d
  <2> SUFFICES ASSUME c = d PROVE FALSE
    OBVIOUS
  <2>1. c \in nodes /\ left[pred] # 0
    BY <1>13a, <1>5
  <2>2. c < pred /\ pred \in Nat /\ d \in Nat
    BY <2>1, <1>5, <1>7, <1>13a
  <2>3. pred < d
    BY <1>4, <1>6 DEF Sorts
  <2> QED
    BY <2>2, <2>3
<1>17. /\ H2 \in [nodes' \cup {0} -> Nat] /\ H2[0] = 0 /\ H2[pred] = H[d]
       /\ \A x \in nodes' \cup {0} : x # pred /\ (x # c \/ c = 0) => H2[x] = H[x]
       /\ c # 0 => H2[c] = 1
  <2>1. H2 \in [nodes' \cup {0} -> Nat]
    BY <1>10, <1>15
  <2>2. 0 # pred
    BY <1>5, <1>7
  <2>3. H2[0] = 0
    BY <1>15, <2>2
  <2>4. H2[pred] = H[d] /\ \A x \in nodes' \cup {0} : x # pred /\ (x # c \/ c = 0) => H2[x] = H[x]
    BY <1>7, <1>10, <1>15
  <2>5. c # 0 => H2[c] = 1
    BY <1>9, <1>10, <1>16
  <2> QED
    BY <2>1, <2>3, <2>4, <2>5
<1> HIDE DEF H2
<1>18. /\ H[pred] = H2[c] + (IF hole THEN 1 ELSE 0) /\ H2[c] \in Nat /\ H[d] \in Nat
       /\ H[pred] \in Nat
  <2>1. H2[c] \in Nat /\ H[d] \in Nat /\ H[pred] \in Nat
    BY <1>7, <1>9, <1>10, <1>15, <1>16, <1>17
  <2> QED
    BY <2>1, <1>9, <1>14, <1>17
<1>19. red' \in [nodes' -> BOOLEAN]
  <2>1. \A k \in nodes' : (IF k = pred THEN red[d] ELSE k # c /\ red[k]) \in BOOLEAN
    BY <1>1, <1>10
  <2> QED
    BY <2>1, <1>10
<1>20. /\ \A y \in nodes' : y # pred => IF y = c THEN ~red'[y] ELSE red'[y] = red[y]
       /\ red'[pred] = red[d] /\ pred \in nodes'
  <2>1. pred \in nodes'
    BY <1>7, <1>10
  <2>2. red'[pred] = red[d]
    BY <2>1, <1>10
  <2>3. \A y \in nodes' : y # pred => IF y = c THEN ~red'[y] ELSE red'[y] = red[y]
    <3> SUFFICES ASSUME NEW y \in nodes', y # pred
                 PROVE  IF y = c THEN ~red'[y] ELSE red'[y] = red[y]
      OBVIOUS
    <3>1. red'[y] = (y # c /\ red[y]) /\ red[y] \in BOOLEAN
      BY <1>1, <1>10
    <3> QED
      BY <3>1
  <2> QED
    BY <2>1, <2>2, <2>3
<1>21. ASSUME NEW x \in nodes', x # pred
       PROVE  /\ x \in nodes /\ x # 0 /\ x # d
              /\ \/ (left'[x] = pred /\ left[x] = d)
                 \/ (left'[x] = left[x] /\ left[x] # d /\ left[x] # pred)
              /\ \/ (right'[x] = pred /\ right[x] = d)
                 \/ (right'[x] = c /\ right[x] = pred /\ x = p /\ ~side)
                 \/ (right'[x] = right[x] /\ right[x] # d /\ right[x] # pred /\ x # p)
              /\ c # 0 => left[x] # c /\ right[x] # c
  <2>1. x \in nodes /\ x # 0 /\ x # d
    BY <1>5, <1>10
  <2>2. c # 0 => left[x] # c /\ right[x] # c
    BY <2>1, <1>5, <1>9, <1>21
  <2>3. left'[x] = IF x = parent[d] /\ left[x] = d THEN pred ELSE left[x]
    BY <1>10, <1>21
  <2>4. left[x] = d => x = parent[d]
    BY <2>1, <1>5
  <2>5. left[x] # pred
    <3> SUFFICES ASSUME left[x] = pred PROVE FALSE
      OBVIOUS
    <3>1. x = parent[pred]
      BY <2>1, <1>5, <1>7
    <3> QED
      BY <3>1, <2>1, <1>7
  <2>6. right'[x] = IF x = p THEN c ELSE IF x = parent[d] /\ left[x] # d THEN pred ELSE right[x]
    BY <1>10, <1>21
  <2>7. x = p => ~side /\ right[x] = pred
    BY <1>13, <1>14, <1>21
  <2>8. right[x] = d => x = parent[d] /\ left[x] # d
    <3> SUFFICES ASSUME right[x] = d PROVE x = parent[d] /\ left[x] # d
      OBVIOUS
    <3>1. x = parent[d] /\ x < d /\ x \in Nat /\ d \in Nat
      BY <2>1, <1>5
    <3>2. left[x] # 0 => left[x] < x
      BY <2>1, <1>5
    <3> QED
      BY <3>1, <3>2, <1>5
  <2>9. x = parent[d] /\ left[x] # d => right[x] = d
    BY <2>1, <1>5
  <2>10. right[x] = pred => x = p
    <3> SUFFICES ASSUME right[x] = pred PROVE x = p
      OBVIOUS
    <3>1. x = parent[pred]
      BY <2>1, <1>5, <1>7
    <3> QED
      BY <3>1, <2>1, <1>7 DEF p, side
  <2>11. \/ (left'[x] = pred /\ left[x] = d)
         \/ (left'[x] = left[x] /\ left[x] # d /\ left[x] # pred)
    BY <2>3, <2>4, <2>5
  <2>12. \/ (right'[x] = pred /\ right[x] = d)
         \/ (right'[x] = c /\ right[x] = pred /\ x = p /\ ~side)
         \/ (right'[x] = right[x] /\ right[x] # d /\ right[x] # pred /\ x # p)
    BY <2>6, <2>7, <2>8, <2>9, <2>10, <1>7
  <2> QED
    BY <2>1, <2>2, <2>11, <2>12
<1>22. /\ left'[pred] = IF side THEN c ELSE left[d]
       /\ right'[pred] = right[d]
       /\ ~side => left[d] # pred /\ left[d] # c
       /\ right[d] # pred /\ right[d] # c /\ right[d] # 0
  <2>1. left'[pred] = IF side THEN c ELSE left[d]
    BY <1>10, <1>13, <1>14, <1>20
  <2>2. right'[pred] = right[d]
    BY <1>10, <1>20
  <2>3. right[d] # pred
    <3>1. pred < d /\ d < right[d] /\ d \in Nat /\ pred \in Nat
      BY <1>4, <1>5, <1>6, <1>7 DEF Sorts
    <3> QED
      BY <3>1
  <2>4. parent[right[d]] = d /\ parent[left[d]] = d
    BY <1>5
  <2>5. c # 0 => right[d] # c /\ left[d] # c
    BY <2>4, <1>7, <1>9
  <2> QED
    BY <2>1, <2>2, <2>3, <2>5, <1>13a
<1>23. Heights(nodes', left', right', red', IF hole THEN p ELSE 0, IF hole THEN side ELSE FALSE, H2)
  <2>1. ASSUME NEW x \in nodes'
        PROVE  /\ H2[x] = H2[left'[x]] + (IF red'[x] THEN 0 ELSE 1)
                          + (IF hole /\ x = p /\ side THEN 1 ELSE 0)
               /\ H2[x] = H2[right'[x]] + (IF red'[x] THEN 0 ELSE 1)
                          + (IF hole /\ x = p /\ ~side THEN 1 ELSE 0)
    <3>1. CASE x = pred
      <4>1. /\ H2[x] = H[d] /\ red'[x] = red[d] /\ x = pred
            /\ H[d] = H[left[d]] + (IF red[d] THEN 0 ELSE 1)
            /\ H[d] = H[right[d]] + (IF red[d] THEN 0 ELSE 1)
            /\ H[left[d]] \in Nat /\ H[right[d]] \in Nat
        BY <3>1, <1>5, <1>15, <1>17, <1>20
      <4>2. H2[right'[x]] = H[right[d]]
        <5>1. right[d] \in nodes' \cup {0}
          BY <1>5, <1>10
        <5> QED
          BY <5>1, <3>1, <1>17, <1>22
      <4>3. H2[x] = H2[left'[x]] + (IF red'[x] THEN 0 ELSE 1)
                          + (IF hole /\ x = p /\ side THEN 1 ELSE 0)
        <5>1. CASE side
          <6>1. left'[x] = c /\ x = p /\ left[d] = pred
            BY <5>1, <3>1, <1>13, <1>13a, <1>22
          <6> QED
            BY <6>1, <5>1, <4>1, <1>18
        <5>2. CASE ~side
          <6>1. left'[x] = left[d] /\ left[d] \in nodes' \cup {0} /\ left[d] # pred /\ left[d] # c
            BY <5>2, <3>1, <1>5, <1>10, <1>22
          <6>2. H2[left'[x]] = H[left[d]]
            BY <6>1, <1>17
          <6> QED
            BY <6>2, <5>2, <4>1
        <5> QED
          BY <5>1, <5>2, <1>14
      <4>4. x = p => side
        BY <3>1, <1>13, <1>14
      <4> QED
        BY <4>1, <4>2, <4>3, <4>4
    <3>2. CASE x # pred
      <4>1. /\ x \in nodes /\ x # 0 /\ x # d
            /\ \/ (left'[x] = pred /\ left[x] = d)
               \/ (left'[x] = left[x] /\ left[x] # d /\ left[x] # pred)
            /\ \/ (right'[x] = pred /\ right[x] = d)
               \/ (right'[x] = c /\ right[x] = pred /\ x = p /\ ~side)
               \/ (right'[x] = right[x] /\ right[x] # d /\ right[x] # pred /\ x # p)
            /\ c # 0 => left[x] # c /\ right[x] # c
        BY <3>2, <1>21
      <4>2. /\ H[x] \in Nat /\ H[left[x]] \in Nat /\ H[right[x]] \in Nat
            /\ H[x] = H[left[x]] + (IF red[x] THEN 0 ELSE 1)
            /\ H[x] = H[right[x]] + (IF red[x] THEN 0 ELSE 1)
        BY <4>1, <1>5, <1>15
      <4>3. left[x] # d /\ left[x] # pred => H2[left[x]] = H[left[x]]
        BY <4>1, <1>5, <1>10, <1>17
      <4>4. right[x] # d /\ right[x] # pred => H2[right[x]] = H[right[x]]
        BY <4>1, <1>5, <1>10, <1>17
      <4>5. x = p => ~side
        BY <3>2, <1>13
      <4>6. left[x] # pred
        BY <4>1, <1>7
      <4>7. CASE x = c
        <5>1. H2[x] = 1 /\ H[left[x]] = 0 /\ H[right[x]] = 0 /\ ~red'[x]
          BY <4>1, <4>7, <3>2, <1>9, <1>17, <1>20
        <5>2. right[x] # pred
          <6> SUFFICES ASSUME right[x] = pred PROVE FALSE
            OBVIOUS
          <6>1. H[pred] = 0 /\ ~red[pred]
            BY <5>1, <4>1, <4>7, <1>9
          <6> QED
            BY <6>1, <1>9
        <5>3. H2[left'[x]] = 0
          <6>1. CASE left[x] = d
            <7>1. left'[x] = pred /\ H[d] = 0
              BY <6>1, <5>1, <4>1
            <7> QED
              BY <7>1, <1>17
          <6>2. CASE left[x] # d
            BY <6>2, <5>1, <4>1, <4>3, <4>6
          <6> QED
            BY <6>1, <6>2
        <5>4. H2[right'[x]] = 0 /\ x # p
          <6>1. CASE right[x] = d
            <7>1. right'[x] = pred /\ H[d] = 0 /\ x # p
              BY <6>1, <5>1, <5>2, <4>1, <4>5, <1>7, <1>13
            <7> QED
              BY <7>1, <1>17
          <6>2. CASE right[x] # d
            BY <6>2, <5>1, <5>2, <4>1, <4>4
          <6> QED
            BY <6>1, <6>2
        <5>5. /\ (IF red'[x] THEN 0 ELSE 1) = 1
              /\ (IF hole /\ x = p /\ side THEN 1 ELSE 0) = 0
              /\ (IF hole /\ x = p /\ ~side THEN 1 ELSE 0) = 0
          BY <5>1, <5>4
        <5>6. H2[x] = 1
          BY <5>1
        <5>7. H2[right'[x]] = 0
          BY <5>4
        <5>8. H2[x] = H2[left'[x]] + (IF red'[x] THEN 0 ELSE 1)
                          + (IF hole /\ x = p /\ side THEN 1 ELSE 0)
          BY ONLY <5>3, <5>5, <5>6
        <5>9. H2[x] = H2[right'[x]] + (IF red'[x] THEN 0 ELSE 1)
                          + (IF hole /\ x = p /\ ~side THEN 1 ELSE 0)
          BY ONLY <5>7, <5>5, <5>6
        <5> QED
          BY ONLY <5>8, <5>9
      <4>8. CASE x # c
        <5>1. H2[x] = H[x] /\ red'[x] = red[x]
          BY <4>1, <4>8, <3>2, <1>17, <1>20
        <5>2. H2[left'[x]] = H[left[x]]
          <6>1. CASE left[x] = d
            <7>1. left'[x] = pred
              BY <6>1, <4>1
            <7> QED
              BY <7>1, <6>1, <1>17
          <6>2. CASE left[x] # d
            BY <6>2, <4>1, <4>3
          <6> QED
            BY <6>1, <6>2
        <5>3. H[right[x]] = H2[right'[x]] + (IF hole /\ x = p /\ ~side THEN 1 ELSE 0)
          <6>1. CASE right[x] = d
            <7>1. right'[x] = pred /\ x # p
              BY <6>1, <4>1, <4>5, <1>7, <1>13
            <7> QED
              BY <7>1, <6>1, <1>17, <1>18
          <6>2. CASE right'[x] = c /\ right[x] = pred /\ x = p /\ ~side
            BY <6>2, <1>14, <1>18
          <6>3. CASE right'[x] = right[x] /\ right[x] # d /\ right[x] # pred /\ x # p
            BY <6>3, <4>2, <4>4
          <6> QED
            BY <4>1, <6>1, <6>2, <6>3
        <5>4. H2[right'[x]] \in Nat
          <6>1. right'[x] \in nodes' \cup {0}
            BY <4>1, <1>5, <1>9, <1>10, <1>16, <1>20
          <6> QED
            BY <6>1, <1>17
        <5>5. (IF hole /\ x = p /\ side THEN 1 ELSE 0) = 0
          BY <4>5
        <5>6. H2[x] = H2[left'[x]] + (IF red'[x] THEN 0 ELSE 1)
                          + (IF hole /\ x = p /\ side THEN 1 ELSE 0)
          BY <5>1, <5>2, <5>5, <4>2
        <5>7. H2[x] = H2[right'[x]] + (IF red'[x] THEN 0 ELSE 1)
                          + (IF hole /\ x = p /\ ~side THEN 1 ELSE 0)
          BY <5>1, <5>3, <5>4, <4>2
        <5> QED
          BY <5>6, <5>7
      <4> QED
        BY <4>7, <4>8
    <3> QED
      BY <3>1, <3>2
  <2>2. \A x \in nodes' : x # 0
    BY <1>5, <1>10
  <2> QED
    BY <2>1, <2>2, <1>14, <1>17 DEF Heights
<1>24. Painted(nodes', left', right', red', 0)
  <2> SUFFICES ASSUME NEW x \in nodes', red'[x]
               PROVE  /\ left'[x] = 0 \/ left'[x] = 0 \/ ~red'[left'[x]]
                      /\ right'[x] = 0 \/ right'[x] = 0 \/ ~red'[right'[x]]
    BY DEF Painted
  <2>1. c # 0 => ~red'[c]
    BY <1>9, <1>10, <1>16, <1>20
  <2>2. \A y \in nodes : y # d /\ y # pred => (red'[y] => red[y])
    BY <1>10, <1>20
  <2>3. \A y \in nodes : red[y] => (left[y] = 0 \/ ~red[left[y]]) /\ (right[y] = 0 \/ ~red[right[y]])
    BY <1>1 DEF Painted
  <2>4. CASE x = pred
    <3>1. (left[d] = 0 \/ ~red[left[d]]) /\ (right[d] = 0 \/ ~red[right[d]])
      BY <2>3, <2>4, <1>20
    <3>2. right[d] \in nodes /\ left[d] \in nodes /\ right[d] # d /\ left[d] # d
      BY <1>5
    <3>3. ~red'[right[d]]
      BY <3>1, <3>2, <2>2, <1>22
    <3>4. ~side => ~red'[left[d]]
      BY <3>1, <3>2, <2>2, <1>22, <1>5
    <3> QED
      BY <3>3, <3>4, <2>1, <2>4, <1>22
  <2>5. CASE x # pred
    <3>1. /\ x \in nodes /\ red[x]
          /\ \/ (left'[x] = pred /\ left[x] = d)
             \/ (left'[x] = left[x] /\ left[x] # d /\ left[x] # pred)
          /\ \/ (right'[x] = pred /\ right[x] = d)
             \/ (right'[x] = c /\ right[x] = pred)
             \/ (right'[x] = right[x] /\ right[x] # d /\ right[x] # pred)
      BY <2>5, <2>2, <1>21
    <3>2. (left[x] = 0 \/ ~red[left[x]]) /\ (right[x] = 0 \/ ~red[right[x]])
      BY <3>1, <2>3
    <3>3. left[x] \in nodes \cup {0} /\ right[x] \in nodes \cup {0}
      BY <3>1, <1>5
    <3>4. left'[x] = 0 \/ ~red'[left'[x]]
      BY <3>1, <3>2, <3>3, <2>2, <1>5, <1>20
    <3>5. right'[x] = 0 \/ ~red'[right'[x]]
      BY <3>1, <3>2, <3>3, <2>1, <2>2, <1>5, <1>20
    <3> QED
      BY <3>4, <3>5
  <2> QED
    BY <2>4, <2>5
<1>25. root' # 0 => ~red'[root']
  <2>1. CASE d = root
    <3>1. root' = pred /\ ~red[d]
      BY <2>1, <1>1, <1>5, <1>10
    <3> QED
      BY <3>1, <1>20
  <2>2. CASE d # root
    <3>1. root' = root /\ root \in nodes' /\ ~red[root]
      BY <2>2, <1>1, <1>5, <1>10
    <3> QED
      BY <3>1, <1>7, <1>20
  <2> QED
    BY <2>1, <2>2
<1>26. Balanced'
  <2>1. CASE hole
    <3>1. pc' = "doubleBlack" /\ n' = p /\ lefty' = side
      BY <2>1, <1>10
    <3> QED
      BY <2>1, <3>1, <1>23, <1>24, <1>25 DEF Balanced, Null
  <2>2. CASE ~hole
    <3>1. pc' = "idle" /\ lefty' = FALSE
      BY <2>2, <1>10
    <3> QED
      BY <2>2, <3>1, <1>23, <1>24, <1>25 DEF Balanced, Null
  <2> QED
    BY <2>1, <2>2, <1>14
<1>27. Working'
  <2>1. CASE hole
    <3>1. pc' = "doubleBlack" /\ n' = p /\ lefty' = side /\ p \in nodes'
      BY <2>1, <1>10, <1>13
    <3>2. (IF side THEN left'[p] ELSE right'[p]) = 0
      <4>1. c = 0
        BY <2>1, <1>14
      <4>2. CASE side
        BY <4>1, <4>2, <1>13, <1>22
      <4>3. CASE ~side
        BY <4>1, <4>3, <3>1, <1>10, <1>13
      <4> QED
        BY <4>2, <4>3
    <3> QED
      BY <3>1, <3>2, <1>14 DEF Working, IsRed, Null
  <2>2. CASE ~hole
    <3>1. pc' = "idle" /\ lefty' = FALSE
      BY <2>2, <1>10
    <3> QED
      BY <3>1 DEF Working
  <2> QED
    BY <2>1, <2>2, <1>14
<1> QED
  BY <1>1, <1>10, <1>11, <1>12, <1>19, <1>26, <1>27 DEF TreeInv

(* erase( iterator ) keeps the invariant, in either case. *)
LEMMA UnlinkKeeps ==
  ASSUME TreeInv, pc = "idle", NEW d \in nodes, Unlink(d)
  PROVE  TreeInv'
<1>1. Forget(d)
  BY DEF Unlink
<1>2. CASE left[d] # 0 /\ right[d] # 0
  <2>1. UnlinkInner(d)
    BY <1>2 DEF Unlink, Null
  <2> QED
    BY <1>1, <1>2, <2>1, UnlinkInnerKeeps
<1>3. CASE left[d] = 0 \/ right[d] = 0
  <2>1. UnlinkEnd(d)
    BY <1>3 DEF Unlink, Null
  <2> QED
    BY <1>1, <1>3, <2>1, UnlinkEndKeeps
<1> QED
  BY <1>2, <1>3

(* erase( key ) keeps the invariant, whether the key is found or not. *)
LEMMA EraseKeyKeeps ==
  ASSUME TreeInv, NEW k \in Keys, EraseKey(k)
  PROVE  TreeInv'
<1>1. pc = "idle"
  BY DEF EraseKey
<1>2. CASE find(k) = Null
  <2>1. UNCHANGED <<nodes, left, right, parent, root, red, first, last, size, pc, n, lefty>>
    BY <1>2 DEF EraseKey, treeVars, linkVars
  <2> QED
    BY <2>1 DEF TreeInv, Shape, Ends, Balanced, Working, IsRed
<1>3. CASE find(k) # Null
  <2>1. Shape
    BY <1>1, AtRest
  <2>2. PICK S : Below(S)
    BY <2>1 DEF Shape, Below
  <2>3. k \in Nat \ {0}
    BY KeysAssumption
  <2>4. find(k) = k /\ k \in nodes
    BY <1>3, <2>2, <2>3, FindIs DEF Null
  <2>5. Unlink(k)
    BY <1>3, <2>4 DEF EraseKey
  <2> QED
    BY <1>1, <2>4, <2>5, UnlinkKeeps
<1> QED
  BY <1>2, <1>3

(* Steps that leave a tree at rest as it is. *)
Quiet == {"idle", "copy", "copied", "undo"}

(* A step between two phases that owe nothing keeps the invariant if it leaves
   the tree alone. *)
LEMMA SameTree ==
  ASSUME TreeInv, pc \in Quiet, pc' \in Quiet, UNCHANGED treeVars, lefty' = FALSE,
         pc' \in {"copy", "undo"} => n' \in nodes
  PROVE  TreeInv'
<1>1. UNCHANGED <<nodes, left, right, parent, root, red, first, last, size>>
  BY DEF treeVars, linkVars
<1>2. /\ pc \notin {"clear", "balance", "doubleBlack"} /\ pc' \notin {"clear", "balance", "doubleBlack"}
      /\ pc' \in {"idle", "balance", "doubleBlack", "clear", "copy", "copied", "undo"}
  BY DEF Quiet
<1>3. Shape'
  BY <1>1 DEF TreeInv, Shape
<1>4. Ends'
  BY <1>1, <1>2 DEF TreeInv, Ends
<1>5. /\ \E H : Heights(nodes, left, right, red, 0, FALSE, H)
      /\ Painted(nodes, left, right, red, 0)
      /\ root # Null => ~red[root]
  BY <1>2 DEF TreeInv, Working, Balanced, Null
<1>6. Balanced'
  <2>1. PICK H : Heights(nodes, left, right, red, 0, FALSE, H)
    BY <1>5
  <2>2. Heights(nodes', left', right', red', 0, lefty', H)
    BY <2>1, <1>1
  <2> QED
    BY <1>1, <1>2, <1>5, <2>2 DEF Balanced
<1>7. Working'
  BY <1>1, <1>2 DEF Working
<1>8. (nodes \subseteq Keys)' /\ (red \in [nodes -> BOOLEAN])'
  BY <1>1 DEF TreeInv
<1> QED
  BY <1>3, <1>4, <1>6, <1>7, <1>8 DEF TreeInv

(* While the tree is cleared it is a search tree still. *)
LEMMA Clears ==
  ASSUME TreeInv, UNCHANGED treeVars, GoTo("clear", n'), n' \in nodes
  PROVE  TreeInv'
<1>1. UNCHANGED <<nodes, left, right, parent, root, red, first, last, size>> /\ pc' = "clear" /\ lefty' = FALSE
  BY DEF treeVars, linkVars, GoTo
<1>2. Shape'
  BY <1>1 DEF TreeInv, Shape
<1>3. Working'
  BY <1>1 DEF Working
<1> QED
  BY <1>1, <1>2, <1>3 DEF TreeInv

(* clear() begins on a search tree, *)
LEMMA ClearKeeps ==
  ASSUME TreeInv, Clear
  PROVE  TreeInv'
<1>1. pc = "idle" /\ UNCHANGED treeVars
  BY DEF Clear
<1>2. CASE root = Null
  <2>1. UNCHANGED <<pc, n, lefty>>
    BY <1>2 DEF Clear, ClearStart
  <2>2. lefty = FALSE
    BY <1>1, AtRest
  <2> QED
    BY <1>1, <2>1, <2>2, SameTree DEF Quiet
<1>3. CASE root # Null
  <2>1. GoTo("clear", root) /\ n' = root
    BY <1>3 DEF Clear, ClearStart, GoTo
  <2>2. root \in nodes
    BY <1>1, <1>3, AtRest DEF Null
  <2> QED
    BY <1>1, <2>1, <2>2, Clears
<1> QED
  BY <1>2, <1>3

(* goes down in it, *)
LEMMA ClearDownKeeps ==
  ASSUME TreeInv, ClearDown
  PROVE  TreeInv'
<1>1. Shape /\ n \in nodes
  BY DEF TreeInv, Working, ClearDown
<1>2. left[n] \in nodes \cup {0} /\ right[n] \in nodes \cup {0}
  BY <1>1, ShapeFacts
<1>3. n' \in nodes /\ GoTo("clear", n') /\ UNCHANGED treeVars
  BY <1>2 DEF ClearDown, GoTo, Null
<1> QED
  BY <1>3, Clears

(* and deletes a leaf of it: what is left is a search tree until nothing is. *)
LEMMA ClearEndKeeps ==
  ASSUME TreeInv, ClearEnd
  PROVE  TreeInv'
<1> DEFINE p == parent[n]
           toLeft == p # 0 /\ n = left[p]
<1>1. Shape /\ n \in nodes /\ nodes \subseteq Keys /\ red \in [nodes -> BOOLEAN]
  BY DEF TreeInv, Working, ClearEnd
<1>2. PICK S : IsTree(nodes, left, right, parent, root, S)
  BY <1>1 DEF Shape
<1>3. left[n] = 0 /\ right[n] = 0 /\ 0 \notin nodes
  BY <1>1, ShapeFacts DEF ClearEnd, Null
<1>4. /\ nodes' = nodes \ {n}
      /\ left' = [k \in nodes' |-> IF k = p /\ toLeft THEN 0 ELSE left[k]]
      /\ right' = [k \in nodes' |-> IF k = p /\ ~toLeft THEN 0 ELSE right[k]]
      /\ parent' = [k \in nodes' |-> parent[k]]
      /\ red' = [k \in nodes' |-> red[k]]
      /\ p = 0 => /\ root' = 0 /\ first' = 0 /\ last' = 0 /\ size' = 0
                  /\ pc' = "idle" /\ lefty' = FALSE
      /\ p # 0 => /\ root' = root /\ pc' = "clear" /\ n' = p /\ lefty' = FALSE
  BY DEF ClearEnd, Return, GoTo, Null, Restrict
<1>5. p = 0 <=> n = root
  BY <1>1, <1>2, BelowParent
<1>6. Shape'
  <2>1. parent' = [k \in nodes' |-> IF k = 0 THEN parent[n] ELSE parent[k]]
    BY <1>3, <1>4
  <2>2. root' = IF parent[n] = 0 THEN 0 ELSE root
    BY <1>4
  <2>3. Unlinks(nodes, left, right, parent, root, n, 0, toLeft, nodes', left', right', parent', root')
    BY <1>1, <1>3, <1>4, <2>1, <2>2 DEF Unlinks
  <2> HIDE DEF toLeft
  <2>4. \E S2 : IsTree(nodes', left', right', parent', root', S2)
    BY <1>2, <2>3, Unlinked
  <2> QED
    BY <2>4 DEF Shape
<1>7. red' \in [nodes' -> BOOLEAN] /\ nodes' \subseteq Keys
  BY <1>1, <1>4
<1>8. CASE p # 0
  <2>1. p \in nodes' /\ p # n
    <3>1. p \in nodes /\ p \notin S[n]
      BY <1>1, <1>2, <1>8, BelowParent
    <3>2. n \in S[n]
      BY <1>1, <1>2, TreeFacts
    <3> QED
      BY <3>1, <3>2, <1>4
  <2>2. Working'
    BY <1>4, <1>8, <2>1 DEF Working
  <2> QED
    BY <1>4, <1>6, <1>7, <1>8, <2>2 DEF TreeInv
<1>9. CASE p = 0
  <2>1. nodes' = {}
    <3>1. n = root
      BY <1>5, <1>9
    <3>2. /\ S[root] = nodes /\ S[0] = {}
          /\ \A y \in nodes : y \in S[n] <=> y = n \/ y \in S[left[n]] \/ y \in S[right[n]]
      BY <1>1, <1>2 DEF IsTree
    <3> QED
      BY <3>1, <3>2, <1>3, <1>4
  <2>2. Working'
    BY <1>4, <1>9 DEF Working
  <2>3. Ends'
    BY <1>4, <1>9, <2>1, FS_EmptySet DEF Ends, Null
  <2>4. Balanced'
    <3> DEFINE H == [x \in {} \cup {0} |-> 0]
    <3>1. Heights({}, left', right', red', 0, FALSE, H)
      BY DEF Heights
    <3>2. Painted({}, left', right', red', 0)
      BY DEF Painted
    <3> HIDE DEF H
    <3>3. pc' = "idle" /\ lefty' = FALSE /\ root' = Null
      BY <1>4, <1>9 DEF Null
    <3> QED
      BY <2>1, <3>1, <3>2, <3>3 DEF Balanced
  <2> QED
    BY <1>6, <1>7, <2>2, <2>3, <2>4 DEF TreeInv
<1> QED
  BY <1>8, <1>9

(* The empty tree of the constructor satisfies the invariant. *)
LEMMA InitialTree ==
  ASSUME RbInit
  PROVE  TreeInv
<1>1. /\ nodes = {} /\ left = << >> /\ right = << >> /\ parent = << >> /\ red = << >>
      /\ root = 0 /\ first = 0 /\ last = 0 /\ size = 0 /\ pc = "idle" /\ lefty = FALSE
  BY DEF RbInit, Null
<1>2. << >> \in [{} -> BOOLEAN] /\ << >> \in [{} -> {} \cup {0}]
  <2>1. 1 .. 0 = {}
    OBVIOUS
  <2>2. << >> \in Seq(BOOLEAN) /\ << >> \in Seq({} \cup {0}) /\ Len(<< >>) = 0
    OBVIOUS
  <2>3. << >> \in [1 .. 0 -> BOOLEAN] /\ << >> \in [1 .. 0 -> {} \cup {0}]
    BY <2>2
  <2> QED
    BY <2>1, <2>3
<1> DEFINE S == [x \in {} \cup {0} |-> {}]
           H == [x \in {} \cup {0} |-> 0]
<1>3. S \in [{} \cup {0} -> SUBSET {}] /\ S[0] = {}
  OBVIOUS
<1>4. Shape
  <2>1. IsFiniteSet({})
    BY FS_EmptySet
  <2> HIDE DEF S
  <2>2. IsTree({}, << >>, << >>, << >>, 0, S)
    BY <1>2, <1>3, <2>1 DEF IsTree
  <2> QED
    BY <2>2, <1>1 DEF Shape
<1>5. Ends
  BY <1>1, FS_EmptySet DEF Ends, Null
<1>6. Balanced
  <2>1. Heights({}, left, right, red, 0, FALSE, H)
    BY DEF Heights
  <2>2. Painted({}, left, right, red, 0)
    BY DEF Painted
  <2> HIDE DEF H
  <2> QED
    BY <2>1, <2>2, <1>1 DEF Balanced, Null
<1>7. Working
  BY <1>1 DEF Working
<1> QED
  BY <1>1, <1>2, <1>4, <1>5, <1>6, <1>7 DEF TreeInv

-----------------------------------------------------------------------------
(* Copies. *)

(* The loop of the copy constructor has copied whatever is below a copied node
   that it is not below itself, and has seen each end that it has left. *)
Copying(S) ==
  /\ Below(S)
  /\ \A x \in copied : n \notin S[x] => S[x] \subseteq copied
  /\ first \in copied /\ n # first => copyFirst = first
  /\ last \in copied /\ n # last => copyLast = last

(* Of the nodes that the copy has: they hang together up to the root, a copy that
   returns has all of them and the two ends, and none stays behind otherwise. *)
CopyInv ==
  /\ copied \subseteq nodes
  /\ pc \in {"copy", "undo"} => /\ n \in copied /\ root \in copied
                                /\ \A x \in copied : x = root \/ parent[x] \in copied
  /\ pc = "copy" => \E S : Copying(S)
  /\ pc = "copied" => copied = nodes /\ copyFirst = first /\ copyLast = last
  /\ pc \notin {"copy", "undo", "copied"} => copied = {}

(* The inductive invariant of the set. *)
RbInv == TreeInv /\ CopyInv

(* The copy constructor begins with the root. *)
LEMMA CopyStarts ==
  ASSUME RbInv, Copy
  PROVE  RbInv'
<1>1. /\ pc = "idle" /\ root # 0 /\ pc' = "copy" /\ n' = root /\ lefty' = FALSE
      /\ copied' = {root} /\ UNCHANGED treeVars
      /\ UNCHANGED <<nodes, left, right, parent, root, first, last>>
  BY DEF Copy, GoTo, Null, treeVars, linkVars
<1>2. Shape /\ root \in nodes
  BY <1>1, AtRest DEF RbInv
<1>3. TreeInv'
  BY <1>1, <1>2, SameTree DEF RbInv, Quiet
<1>4. PICK S : Below(S)
  BY <1>2 DEF Shape, Below
<1>5. S[root] = nodes
  BY <1>4, BelowSorts DEF Sorts
<1>6. Copying(S)'
  <2>1. IsTree(nodes', left', right', parent', root', S)
    BY <1>1, <1>4 DEF Below
  <2> QED
    BY <1>1, <1>2, <1>5, <2>1 DEF Copying, Below
<1>7. CopyInv'
  BY <1>1, <1>2, <1>6 DEF CopyInv
<1> QED
  BY <1>3, <1>7 DEF RbInv

(* The loop of the copy constructor goes down to a child it has not copied yet:
   what is to the left of the loop is copied and behind it. *)
LEMMA CopyDownKeeps ==
  ASSUME RbInv, CopyDown
  PROVE  RbInv'
<1>1. /\ pc = "copy" /\ UNCHANGED treeVars
      /\ UNCHANGED <<nodes, left, right, parent, root, first, last>>
  BY DEF CopyDown, treeVars, linkVars
<1>2. PICK c \in {left[n], right[n]} : Missing(c) /\ CopyChild(c)
  BY DEF CopyDown
<1>3. /\ c # 0 /\ c \notin copied /\ pc' = "copy" /\ n' = c /\ lefty' = FALSE
      /\ copied' = copied \cup {c}
      /\ copyFirst' = (IF n = first THEN n ELSE copyFirst)
      /\ copyLast' = (IF n = last THEN n ELSE copyLast)
  BY <1>2 DEF Missing, CopyChild, Passed, GoTo, Null
<1>4. /\ copied \subseteq nodes /\ n \in copied /\ root \in copied
      /\ \A x \in copied : x = root \/ parent[x] \in copied
      /\ n \in nodes /\ Shape
  BY <1>1 DEF RbInv, CopyInv, TreeInv
<1>5. PICK S : Copying(S)
  BY <1>1 DEF RbInv, CopyInv
<1>6. c \in nodes /\ parent[c] = n
  BY <1>2, <1>3, <1>4, ShapeFacts
<1>7. TreeInv'
  BY <1>1, <1>3, <1>6, SameTree DEF RbInv, Quiet
<1>8. /\ c \in S[c] /\ c \in S[n]
      /\ \A x \in nodes : \A y \in S[x] : S[y] \subseteq S[x]
  <2>1. Sorts(S)
    BY <1>5, BelowSorts DEF Copying
  <2>2. c \in S[c] /\ c \in S[n]
    BY <2>1, <1>2, <1>4, <1>6 DEF Sorts
  <2>3. \A x \in nodes : \A y \in S[x] : S[y] \subseteq S[x]
    BY <1>5, Nested DEF Copying, Below
  <2> QED
    BY <2>2, <2>3
<1>9. ASSUME NEW x \in copied', c \notin S[x]
      PROVE  S[x] \subseteq copied'
  <2>1. x \in copied /\ x \in nodes
    BY <1>3, <1>4, <1>8, <1>9
  <2>2. n \notin S[x]
    BY <2>1, <1>8, <1>9
  <2>3. S[x] \subseteq copied
    BY <2>1, <2>2, <1>5 DEF Copying
  <2> QED
    BY <2>3, <1>3
<1>10. Copying(S)'
  <2>1. IsTree(nodes', left', right', parent', root', S)
    BY <1>1, <1>5 DEF Below, Copying
  <2>2. first' \in copied' /\ n' # first' => copyFirst' = first'
    BY <1>1, <1>3, <1>5 DEF Copying
  <2>3. last' \in copied' /\ n' # last' => copyLast' = last'
    BY <1>1, <1>3, <1>5 DEF Copying
  <2> QED
    BY <1>3, <1>9, <2>1, <2>2, <2>3 DEF Copying, Below
<1>11. \A x \in copied' : x = root' \/ parent'[x] \in copied'
  BY <1>1, <1>3, <1>4, <1>6
<1>12. copied' \subseteq nodes' /\ n' \in copied' /\ root' \in copied'
  BY <1>1, <1>3, <1>4, <1>6
<1>13. CopyInv'
  BY <1>3, <1>10, <1>11, <1>12 DEF CopyInv
<1> QED
  BY <1>7, <1>13 DEF RbInv

(* It goes up when both subtrees are copied, and from the root when the whole
   tree is, both ends passed. *)
LEMMA CopyUpKeeps ==
  ASSUME RbInv, CopyUp
  PROVE  RbInv'
<1>1. /\ pc = "copy" /\ UNCHANGED treeVars
      /\ UNCHANGED <<nodes, left, right, parent, root, first, last>>
      /\ (left[n] = 0 \/ left[n] \in copied) /\ (right[n] = 0 \/ right[n] \in copied)
      /\ copied' = copied /\ lefty' = FALSE
      /\ copyFirst' = (IF n = first THEN n ELSE copyFirst)
      /\ copyLast' = (IF n = last THEN n ELSE copyLast)
      /\ parent[n] # 0 => pc' = "copy" /\ n' = parent[n]
      /\ parent[n] = 0 => pc' = "copied"
  BY DEF CopyUp, treeVars, linkVars, Missing, Passed, GoTo, Null
<1>2. /\ copied \subseteq nodes /\ n \in copied /\ root \in copied
      /\ \A x \in copied : x = root \/ parent[x] \in copied
      /\ n \in nodes /\ Shape /\ Ends
  BY <1>1 DEF RbInv, CopyInv, TreeInv
<1>3. PICK S : Copying(S)
  BY <1>1 DEF RbInv, CopyInv
<1>4. /\ S[0] = {} /\ S[root] = nodes
      /\ \A x \in nodes : x \in Nat
      /\ \A y \in S[n] : y = n \/ y \in S[left[n]] \/ y \in S[right[n]]
      /\ \A y \in S[left[n]] : y < n
      /\ \A y \in S[right[n]] : n < y
  BY <1>2, <1>3, BelowSorts DEF Sorts, Copying
<1>5. S[n] \subseteq copied
  <2>1. n \notin S[left[n]] /\ n \notin S[right[n]]
    BY <1>2, <1>4
  <2>2. S[left[n]] \subseteq copied
    BY <2>1, <1>1, <1>3, <1>4 DEF Copying
  <2>3. S[right[n]] \subseteq copied
    BY <2>1, <1>1, <1>3, <1>4 DEF Copying
  <2> QED
    BY <2>2, <2>3, <1>2, <1>4
<1>6. /\ parent[n] # 0 => parent[n] \in nodes
      /\ parent[n] = 0 <=> n = root
      /\ \A x \in nodes : n \in S[x] /\ n # x => parent[n] \in S[x]
  BY <1>2, <1>3, BelowParent, ParentBelow DEF Copying, Below
<1>7. TreeInv'
  BY <1>1, <1>6, SameTree DEF RbInv, Quiet
<1>8. /\ first \in copied /\ parent[n] # first => copyFirst' = first
      /\ last \in copied /\ parent[n] # last => copyLast' = last
  BY <1>1, <1>3 DEF Copying
<1>9. CASE parent[n] # 0
  <2>1. ASSUME NEW x \in copied, parent[n] \notin S[x]
        PROVE  S[x] \subseteq copied
    <3>1. n \notin S[x] \/ n = x
      BY <2>1, <1>2, <1>6
    <3> QED
      BY <3>1, <1>3, <1>5 DEF Copying
  <2>2. IsTree(nodes', left', right', parent', root', S)
    BY <1>1, <1>3 DEF Below, Copying
  <2>3. Copying(S)'
    BY <1>1, <1>8, <1>9, <2>1, <2>2 DEF Copying, Below
  <2>4. parent[n] \in copied
    BY <1>2, <1>6, <1>9
  <2>5. CopyInv'
    BY <1>1, <1>2, <1>9, <2>3, <2>4 DEF CopyInv
  <2> QED
    BY <1>7, <2>5 DEF RbInv
<1>10. CASE parent[n] = 0
  <2>1. copied = nodes
    BY <1>2, <1>4, <1>5, <1>6, <1>10
  <2>2. first \in nodes /\ last \in nodes /\ 0 \notin nodes
    <3>1. 0 \notin nodes
      BY <1>2, ShapeFacts
    <3> QED
      BY <1>2, <3>1 DEF Ends
  <2>3. copyFirst' = first /\ copyLast' = last
    BY <2>1, <2>2, <1>8, <1>10
  <2>4. CopyInv'
    BY <1>1, <1>10, <2>1, <2>3 DEF CopyInv
  <2> QED
    BY <1>7, <2>4 DEF RbInv
<1> QED
  BY <1>9, <1>10

(* A copy that is handed over is no longer accounted for. *)
LEMMA CopyEndKeeps ==
  ASSUME RbInv, CopyEnd
  PROVE  RbInv'
<1>1. pc = "copied" /\ pc' = "idle" /\ lefty' = FALSE /\ copied' = {} /\ UNCHANGED treeVars
  BY DEF CopyEnd, Return, GoTo
<1>2. TreeInv'
  BY <1>1, SameTree DEF RbInv, Quiet
<1>3. CopyInv'
  BY <1>1 DEF CopyInv
<1> QED
  BY <1>2, <1>3 DEF RbInv

(* When an allocation fails the half of a copy hangs together, so the clean-up
   can reach it from the root. *)
LEMMA CopyFailsKeeps ==
  ASSUME RbInv, CopyFails
  PROVE  RbInv'
<1>1. /\ pc = "copy" /\ pc' = "undo" /\ n' = root /\ lefty' = FALSE /\ copied' = copied /\ UNCHANGED treeVars
      /\ UNCHANGED <<nodes, parent, root>>
  BY DEF CopyFails, GoTo, treeVars, linkVars
<1>2. /\ copied \subseteq nodes /\ root \in copied
      /\ \A x \in copied : x = root \/ parent[x] \in copied
  BY <1>1 DEF RbInv, CopyInv
<1>3. TreeInv'
  BY <1>1, <1>2, SameTree DEF RbInv, Quiet
<1>4. CopyInv'
  BY <1>1, <1>2 DEF CopyInv
<1> QED
  BY <1>3, <1>4 DEF RbInv

(* The clean-up goes down in the half of a copy, *)
LEMMA UndoDownKeeps ==
  ASSUME RbInv, UndoDown
  PROVE  RbInv'
<1>1. /\ pc = "undo" /\ pc' = "undo" /\ lefty' = FALSE /\ copied' = copied /\ UNCHANGED treeVars
      /\ UNCHANGED <<nodes, parent, root>>
      /\ n' \in copied
  BY DEF UndoDown, GoTo, treeVars, linkVars, copyVars
<1>2. /\ copied \subseteq nodes /\ root \in copied
      /\ \A x \in copied : x = root \/ parent[x] \in copied
  BY <1>1 DEF RbInv, CopyInv
<1>3. TreeInv'
  BY <1>1, <1>2, SameTree DEF RbInv, Quiet
<1>4. CopyInv'
  BY <1>1, <1>2 DEF CopyInv
<1> QED
  BY <1>3, <1>4 DEF RbInv

(* and deletes a leaf of it, until nothing of it is left. *)
LEMMA UndoEndKeeps ==
  ASSUME RbInv, UndoEnd
  PROVE  RbInv'
<1>1. /\ pc = "undo" /\ lefty' = FALSE /\ copied' = copied \ {n} /\ UNCHANGED treeVars
      /\ UNCHANGED <<nodes, parent, root>>
      /\ left[n] \notin copied /\ right[n] \notin copied
      /\ parent[n] = 0 => pc' = "idle"
      /\ parent[n] # 0 => pc' = "undo" /\ n' = parent[n]
  BY DEF UndoEnd, Return, GoTo, treeVars, linkVars, copyVars, Null
<1>2. /\ copied \subseteq nodes /\ n \in copied /\ root \in copied
      /\ \A x \in copied : x = root \/ parent[x] \in copied
      /\ Shape
  BY <1>1 DEF RbInv, CopyInv, TreeInv
<1>3. PICK S : Below(S)
  BY <1>2 DEF Shape, Below
<1>4. /\ \A x \in nodes : x # root => x \in {left[parent[x]], right[parent[x]]}
      /\ \A x \in nodes : parent[x] = 0 <=> x = root
      /\ parent[n] # 0 => parent[n] \in nodes /\ parent[n] # n
  <2>1. \A x \in nodes : x # root => x \in {left[parent[x]], right[parent[x]]}
    BY <1>2, ShapeFacts
  <2>2. \A x \in nodes : /\ parent[x] = 0 <=> x = root
                         /\ parent[x] # 0 => parent[x] \in nodes /\ parent[x] \notin S[x]
    BY <1>3, BelowParent DEF Below
  <2>3. n \in nodes /\ n \in S[n]
    BY <1>2, <1>3, BelowSorts DEF Sorts
  <2> QED
    BY <2>1, <2>2, <2>3
<1>5. \A x \in copied' : x = root \/ parent[x] \in copied'
  <2> SUFFICES ASSUME NEW x \in copied', x # root PROVE parent[x] \in copied'
    OBVIOUS
  <2>1. x \in copied /\ parent[x] \in copied /\ x \in {left[parent[x]], right[parent[x]]}
    BY <1>1, <1>2, <1>4
  <2> QED
    BY <2>1, <1>1
<1>6. TreeInv'
  BY <1>1, <1>4, SameTree DEF RbInv, Quiet
<1>7. CASE parent[n] # 0
  <2>1. n # root /\ parent[n] \in copied'
    BY <1>1, <1>2, <1>4, <1>7
  <2>2. CopyInv'
    BY <1>1, <1>2, <1>5, <1>7, <2>1 DEF CopyInv
  <2> QED
    BY <1>6, <2>2 DEF RbInv
<1>8. CASE parent[n] = 0
  <2>1. n = root
    BY <1>2, <1>4, <1>8
  <2> DEFINE Q == {x \in nodes : x \notin copied'}
  <2>2. \A x \in nodes : (x = root \/ parent[x] \in Q) => x \in Q
    BY <1>1, <1>5, <2>1
  <2> HIDE DEF Q
  <2>3. \A x \in nodes : x \in Q
    BY <2>2, <1>3, RootInduct DEF Below
  <2>4. copied' = {}
    BY <2>3, <1>1, <1>2 DEF Q
  <2>5. CopyInv'
    BY <1>1, <1>8, <2>4 DEF CopyInv
  <2> QED
    BY <1>6, <2>5 DEF RbInv
<1> QED
  BY <1>7, <1>8

(* The invariant of the tree is inductive. *)
LEMMA RbInvInit ==
  ASSUME RbInit
  PROVE  RbInv
<1>1. TreeInv
  BY InitialTree
<1>2. CopyInv
  BY DEF RbInit, CopyInv
<1> QED
  BY <1>1, <1>2 DEF RbInv

(* The steps in which nothing is copied. *)
LEMMA NoCopy ==
  ASSUME RbInv, TreeInv', UNCHANGED copyVars,
         pc \notin {"copy", "undo", "copied"}, pc' \notin {"copy", "undo", "copied"}
  PROVE  RbInv'
<1>1. copied = {} /\ copied' = {}
  BY DEF RbInv, CopyInv, copyVars
<1>2. CopyInv'
  BY <1>1 DEF CopyInv
<1> QED
  BY <1>2 DEF RbInv

(* Every step of the set keeps the invariant. *)
LEMMA RbInvNext ==
  ASSUME RbInv, [RbNext]_rbVars
  PROVE  RbInv'
<1>1. TreeInv /\ CopyInv
  BY DEF RbInv
<1> DEFINE Copyless == pc \notin {"copy", "undo", "copied"} /\ pc' \notin {"copy", "undo", "copied"}
<1>2. ASSUME NEW k \in Keys, Insert(k)
      PROVE  RbInv'
  <2>1. pc = "idle" /\ unbalanced_insert(k) /\ UNCHANGED copyVars
    BY <1>2 DEF Insert
  <2>2. TreeInv'
    BY <1>1, <2>1, UnbalancedInsertKeeps
  <2>3. pc' \in {"idle", "balance"}
    BY <2>1 DEF unbalanced_insert, InsertRoot, Attach, Return, GoTo
  <2> QED
    BY <2>1, <2>2, <2>3, NoCopy
<1>3. ASSUME NEW k \in Keys, EraseKey(k)
      PROVE  RbInv'
  <2>1. pc = "idle" /\ UNCHANGED copyVars /\ TreeInv'
    BY <1>1, <1>3, EraseKeyKeeps DEF EraseKey
  <2>2. pc' \in {"idle", "doubleBlack"}
    BY <1>3 DEF EraseKey, Unlink, UnlinkInner, UnlinkEnd, Return, GoTo
  <2> QED
    BY <2>1, <2>2, NoCopy
<1>4. ASSUME NEW h \in nodes \cup {Null}, NEW k \in Keys, InsertHint(h, k)
      PROVE  RbInv'
  <2>1. pc = "idle" /\ hinted_insert(h, k) /\ UNCHANGED copyVars
    BY <1>4 DEF InsertHint
  <2>2. TreeInv'
    BY <1>1, <2>1, HintedInsertKeeps
  <2>3. pc' \in {"idle", "balance"}
    BY <2>1 DEF hinted_insert, unbalanced_insert, InsertRoot, Attach, Return, GoTo
  <2> QED
    BY <2>1, <2>2, <2>3, NoCopy
<1>5. ASSUME NEW d \in nodes, Erase(d)
      PROVE  RbInv'
  <2>1. pc = "idle" /\ UNCHANGED copyVars /\ Unlink(d)
    BY <1>5 DEF Erase
  <2>2. TreeInv'
    BY <1>1, <2>1, UnlinkKeeps
  <2>3. pc' \in {"idle", "doubleBlack"}
    BY <2>1 DEF Unlink, UnlinkInner, UnlinkEnd, Return, GoTo
  <2> QED
    BY <2>1, <2>2, <2>3, NoCopy
<1>6. CASE Clear
  <2>1. pc = "idle" /\ UNCHANGED copyVars /\ pc' \in {"idle", "clear"}
    BY <1>6 DEF Clear, ClearStart, GoTo
  <2> QED
    BY <1>1, <1>6, <2>1, ClearKeeps, NoCopy
<1>7. CASE Copy
  BY <1>7, CopyStarts
<1>8. CASE BalanceDone
  <2>1. pc = "balance" /\ UNCHANGED copyVars /\ pc' = "idle"
    BY <1>8 DEF BalanceDone, Return, GoTo, copyVars
  <2> QED
    BY <1>1, <1>8, <2>1, BalanceDoneKeeps, NoCopy
<1>9. CASE BalanceRedUncle
  <2>1. pc = "balance" /\ UNCHANGED copyVars /\ pc' = "balance"
    BY <1>9 DEF BalanceRedUncle, copyVars
  <2> QED
    BY <1>1, <1>9, <2>1, RedUncleKeeps, NoCopy
<1>10. CASE BalanceBlackUncle
  <2>1. pc = "balance" /\ UNCHANGED copyVars /\ pc' = "idle"
    BY <1>10 DEF BalanceBlackUncle, Return, GoTo, copyVars
  <2> QED
    BY <1>1, <1>10, <2>1, BlackUncleKeeps, NoCopy
<1>11. CASE DoubleBlackNephew
  <2>1. pc = "doubleBlack" /\ UNCHANGED copyVars /\ pc' = "idle"
    BY <1>11 DEF DoubleBlackNephew, Return, GoTo, copyVars
  <2> QED
    BY <1>1, <1>11, <2>1, NephewKeeps, NoCopy
<1>12. CASE DoubleBlackRedParent
  <2>1. pc = "doubleBlack" /\ UNCHANGED copyVars /\ pc' = "idle"
    BY <1>12 DEF DoubleBlackRedParent, Return, GoTo, copyVars
  <2> QED
    BY <1>1, <1>12, <2>1, RedParentKeeps, NoCopy
<1>13. CASE DoubleBlackUp
  <2>1. pc = "doubleBlack" /\ UNCHANGED copyVars /\ pc' \in {"idle", "doubleBlack"}
    BY <1>13 DEF DoubleBlackUp, Return, GoTo, copyVars
  <2> QED
    BY <1>1, <1>13, <2>1, UpKeeps, NoCopy
<1>14. CASE DoubleBlackRedSibling
  <2>1. pc = "doubleBlack" /\ UNCHANGED copyVars /\ pc' = "doubleBlack"
    BY <1>14 DEF DoubleBlackRedSibling, copyVars
  <2> QED
    BY <1>1, <1>14, <2>1, RedSiblingKeeps, NoCopy
<1>15. CASE ClearDown
  <2>1. pc = "clear" /\ UNCHANGED copyVars /\ pc' = "clear"
    BY <1>15 DEF ClearDown, GoTo, copyVars
  <2> QED
    BY <1>1, <1>15, <2>1, ClearDownKeeps, NoCopy
<1>16. CASE ClearEnd
  <2>1. pc = "clear" /\ UNCHANGED copyVars /\ pc' \in {"clear", "idle"}
    BY <1>16 DEF ClearEnd, Return, GoTo, copyVars
  <2> QED
    BY <1>1, <1>16, <2>1, ClearEndKeeps, NoCopy
<1>17. CASE UNCHANGED rbVars
  <2>1. /\ UNCHANGED <<nodes, left, right, parent, root, red, first, last, size>>
        /\ UNCHANGED <<pc, n, lefty, copied, copyFirst, copyLast>>
    BY <1>17 DEF rbVars, treeVars, linkVars, copyVars
  <2>2. TreeInv'
    BY <1>1, <2>1 DEF TreeInv, Shape, Ends, Balanced, Working, IsRed
  <2>3. CopyInv'
    <3>1. \A S : Copying(S) => Copying(S)'
      BY <2>1 DEF Copying, Below
    <3> QED
      BY <1>1, <2>1, <3>1 DEF CopyInv
  <2> QED
    BY <2>2, <2>3 DEF RbInv
<1>18. CASE RbNext
  BY <1>2, <1>3, <1>4, <1>5, <1>6, <1>7, <1>8, <1>9, <1>10, <1>11, <1>12, <1>13, <1>14,
     <1>15, <1>16, <1>18, CopyDownKeeps, CopyUpKeeps, CopyEndKeeps, CopyFailsKeeps,
     UndoDownKeeps, UndoEndKeeps DEF RbNext, Step
<1> QED
  BY <1>17, <1>18

-----------------------------------------------------------------------------
(* What the invariant implies. *)

(* The height of a node from below and the black nodes from it up add up. *)
LEMMA BlackHeightIs ==
  ASSUME Shape, NEW H, Level(nodes, left, right, red, H), NEW x \in nodes
  PROVE  black_height[x] = H[root] - H[x] + (IF red[x] THEN 0 ELSE 1)
<1> DEFINE F(it) == [y \in nodes \cup {Null} |->
                       IF y = Null THEN 0 ELSE it[parent[y]] + IF red[y] THEN 0 ELSE 1]
           c == CHOOSE it : it = F(it)
           black(y) == IF red[y] THEN 0 ELSE 1
           w == [y \in nodes \cup {Null} |-> IF y = 0 THEN 0 ELSE H[root] - H[y] + black(y)]
           Q == {y \in nodes : c[y] = H[root] - H[y] + black(y)}
<1>1. PICK S : Below(S)
  BY DEF Shape, Below
<1>2. /\ \A y \in nodes : /\ left[y] \in nodes \cup {0} /\ right[y] \in nodes \cup {0}
                          /\ y # 0
                          /\ y # root => parent[y] \in nodes /\ y \in {left[parent[y]], right[parent[y]]}
                          /\ y = root => parent[y] = 0
      /\ root \in nodes
  BY ShapeFacts
<1>3. /\ \A y \in nodes : H[y] \in Nat /\ black(y) \in Nat
      /\ \A y \in nodes : H[y] = H[left[y]] + black(y) /\ H[y] = H[right[y]] + black(y)
  BY DEF Level
<1>4. \A y \in nodes : y # root => H[parent[y]] = H[y] + black(parent[y])
  BY <1>2, <1>3
<1> HIDE DEF black
<1>5. w = F(w)
  <2> SUFFICES ASSUME NEW y \in nodes \cup {Null}
               PROVE  w[y] = IF y = Null THEN 0 ELSE w[parent[y]] + black(y)
    BY DEF black
  <2>1. CASE y = Null
    BY <2>1 DEF Null
  <2>2. CASE y # Null
    <3>1. y \in nodes /\ w[y] = H[root] - H[y] + black(y)
      BY <2>2, <1>2 DEF Null
    <3>2. CASE y = root
      <4>1. w[parent[y]] = 0
        BY <3>1, <3>2, <1>2 DEF Null
      <4> HIDE DEF w
      <4> QED
        BY <4>1, <3>1, <3>2, <2>2, <1>3
    <3>3. CASE y # root
      <4>1. parent[y] \in nodes /\ parent[y] # 0
        BY <3>1, <3>3, <1>2
      <4>2. w[parent[y]] = H[root] - H[parent[y]] + black(parent[y])
        BY <4>1
      <4>3. H[parent[y]] = H[y] + black(parent[y])
        BY <3>1, <3>3, <1>4
      <4>4. H[root] \in Nat /\ H[y] \in Nat /\ black(y) \in Nat /\ black(parent[y]) \in Nat
        BY <3>1, <4>1, <1>2, <1>3
      <4> HIDE DEF w
      <4> QED
        BY <2>2, <3>1, <4>2, <4>3, <4>4
    <3> QED
      BY <3>2, <3>3
  <2> QED
    BY <2>1, <2>2
<1>6. black_height = c
  BY DEF black_height
<1>7. c = F(c)
  <2> HIDE DEF w, F
  <2> QED
    BY <1>5
<1>8. /\ c[0] = 0
      /\ \A y \in nodes : c[y] = c[parent[y]] + black(y)
  <2> HIDE DEF c
  <2>1. \A y \in nodes \cup {Null} : c[y] = IF y = Null THEN 0 ELSE c[parent[y]] + black(y)
    BY <1>7 DEF black
  <2> QED
    BY <2>1, <1>2 DEF Null
<1> HIDE DEF c
<1>9. ASSUME NEW y \in nodes, y = root \/ parent[y] \in Q
      PROVE  y \in Q
  <2>1. H[root] \in Nat /\ H[y] \in Nat /\ black(y) \in Nat
    BY <1>2, <1>3
  <2>2. CASE y = root
    <3>1. c[y] = 0 + black(y)
      BY <2>2, <1>2, <1>8
    <3> QED
      BY <3>1, <2>1, <2>2
  <2>3. CASE y # root
    <3>1. parent[y] \in nodes /\ c[parent[y]] = H[root] - H[parent[y]] + black(parent[y])
      BY <2>3, <1>2, <1>9
    <3>2. H[parent[y]] = H[y] + black(parent[y]) /\ black(parent[y]) \in Nat
      BY <2>3, <3>1, <1>3, <1>4
    <3>3. c[parent[y]] = H[root] - H[y]
      BY <3>1, <3>2, <2>1
    <3>4. c[y] = c[parent[y]] + black(y)
      BY <1>8
    <3> QED
      BY <3>3, <3>4
  <2> QED
    BY <2>2, <2>3
<1> HIDE DEF Q
<1>10. \A y \in nodes : y \in Q
  BY <1>1, <1>9, RootInduct DEF Below
<1> QED
  BY <1>6, <1>10 DEF Q, black

(* The invariant implies Sorted: the nodes in order are all there. *)
LEMMA SortedHolds ==
  ASSUME RbInv
  PROVE  Sorted
<1> SUFFICES ASSUME pc # "clear" PROVE Sorted
  BY DEF Sorted
<1>1. Shape /\ Ends
  BY DEF RbInv, TreeInv
<1>2. PICK S : Below(S)
  BY <1>1 DEF Shape, Below
<1> DEFINE in == Inorder[root]
<1>3. Lists(in, nodes)
  BY <1>2, InorderIs
<1> HIDE DEF in
<1>4. in \in Seq(nodes) /\ Len(in) \in Nat /\ DOMAIN in = 1 .. Len(in)
  BY <1>3 DEF Lists
<1>5. Range(in) = nodes
  <2>1. Range(in) = {in[i] : i \in 1 .. Len(in)}
    BY <1>4 DEF Range
  <2>2. \A i \in 1 .. Len(in) : in[i] \in nodes
    BY <1>4
  <2>3. \A y \in nodes : \E i \in 1 .. Len(in) : in[i] = y
    BY <1>3 DEF Lists
  <2> QED
    BY <2>1, <2>2, <2>3
<1>6. \A i \in 1 .. Len(in) - 1 : in[i] < in[i + 1]
  <2> TAKE i \in 1 .. Len(in) - 1
  <2>1. i \in 1 .. Len(in) /\ i + 1 \in 1 .. Len(in) /\ i < i + 1
    BY <1>4
  <2> QED
    BY <2>1, <1>3 DEF Lists
<1>7. /\ \A x \in nodes : x \in Nat
      /\ \A x \in nodes : /\ left[x] # Null => parent[left[x]] = x
                          /\ right[x] # Null => parent[right[x]] = x
      /\ nodes # {} => parent[root] = Null
  BY <1>1, ShapeFacts DEF Null
<1>8. ASSUME nodes # {}
      PROVE  first = Min(nodes) /\ last = Max(nodes)
  <2>1. /\ first \in nodes /\ last \in nodes /\ \A x \in nodes : first <= x /\ x <= last
    BY <1>1, <1>8 DEF Ends
  <2>2. \A x \in nodes : last >= x
    BY <2>1, <1>7
  <2>3. Min(nodes) \in nodes /\ \A x \in nodes : Min(nodes) <= x
    BY <2>1 DEF Min
  <2>4. Max(nodes) \in nodes /\ \A x \in nodes : Max(nodes) >= x
    BY <2>1, <2>2 DEF Max
  <2>5. first <= Min(nodes) /\ Min(nodes) <= first /\ first \in Nat /\ Min(nodes) \in Nat
    BY <2>1, <2>3, <1>7
  <2>6. last >= Max(nodes) /\ Max(nodes) >= last /\ last \in Nat /\ Max(nodes) \in Nat
    BY <2>1, <2>2, <2>4, <1>7
  <2>7. first = Min(nodes)
    BY <2>5
  <2>8. last = Max(nodes)
    BY <2>6
  <2> QED
    BY <2>7, <2>8
<1> QED
  BY <1>1, <1>5, <1>6, <1>7, <1>8 DEF Sorted, Ends, in

(* The invariant implies Walks, from what ++, -- and the bounds return. *)
LEMMA WalksHolds ==
  ASSUME RbInv
  PROVE  Walks
<1> SUFFICES ASSUME pc = "idle" PROVE Walks
  BY DEF Walks
<1>1. Shape
  BY DEF RbInv, TreeInv
<1>2. PICK S : Below(S)
  BY <1>1 DEF Shape, Below
<1>3. \A k \in Keys : k \in Nat
  BY KeysAssumption
<1>4. ASSUME NEW x \in nodes
      PROVE  /\ walk_right(x) = NextAfter({y \in nodes : y > x})
             /\ walk_left(x) = NextBefore({y \in nodes : y < x})
  BY <1>2, WalkRightIs, WalkLeftIs
<1>5. ASSUME NEW k \in Keys
      PROVE  /\ lower_bound(k) = NextAfter({y \in nodes : y >= k})
             /\ upper_bound(k) = NextAfter({y \in nodes : y > k})
  BY <1>2, <1>3, LowerBoundIs, UpperBoundIs
<1> QED
  BY <1>4, <1>5 DEF Walks

(* The invariant implies Copies. *)
LEMMA CopiesHolds ==
  ASSUME RbInv
  PROVE  Copies
BY DEF RbInv, CopyInv, Copies

(* The walk of _Sane() goes over the nodes in order. *)
WalkOf(at, in) ==
  /\ Lists(in, nodes) /\ Len(in) = size
  /\ \A i \in 1 .. size : at[i] = in[i]

(* The walk of _Sane() from begin() on goes over the nodes in order. *)
LEMMA SaneWalk ==
  ASSUME RbInv, pc = "idle", root # 0, NEW at,
         at = CHOOSE f : f = [i \in 1 .. size |-> IF i = 1 THEN first ELSE walk_right(f[i - 1])]
  PROVE  \E in : WalkOf(at, in)
<1> DEFINE in == Inorder[root]
           F(it) == [i \in 1 .. size |-> IF i = 1 THEN first ELSE walk_right(it[i - 1])]
           w == [i \in 1 .. size |-> in[i]]
<1>1. Shape /\ Ends /\ nodes # {} /\ nodes \subseteq Nat \ {0}
  BY AtRest DEF RbInv
<1>2. PICK S : Below(S)
  BY <1>1 DEF Shape, Below
<1>3. Lists(in, nodes)
  BY <1>2, InorderIs
<1> HIDE DEF in
<1>4. Len(in) = size /\ size \in Nat
  <2>1. size = Cardinality(nodes)
    BY <1>1 DEF Ends
  <2>2. nodes \subseteq Nat
    BY <1>1
  <2>3. Len(in) = Cardinality(nodes)
    BY <2>2, <1>3, ListLength
  <2>4. Len(in) \in Nat
    BY <1>3 DEF Lists
  <2> QED
    BY <2>1, <2>3, <2>4
<1>5. in \in [1 .. size -> nodes]
  BY <1>3, <1>4 DEF Lists
<1>6. /\ first \in nodes /\ last \in nodes /\ \A x \in nodes : first <= x /\ x <= last
  BY <1>1 DEF Ends
<1>7. in[1] = first /\ size >= 1
  <2>1. PICK i \in 1 .. size : in[i] = first
    BY <1>3, <1>4, <1>6 DEF Lists
  <2>2. size >= 1 /\ 1 \in 1 .. size
    BY <2>1, <1>4
  <2>3. i # 1 => in[1] < in[i]
    <3>1. i # 1 => 1 < i
      BY <2>1
    <3> QED
      BY <3>1, <2>1, <2>2, <1>3, <1>4 DEF Lists
  <2>4. first <= in[1] /\ first \in Nat /\ in[1] \in Nat
    BY <2>2, <1>1, <1>5, <1>6
  <2> QED
    BY <2>1, <2>2, <2>3, <2>4
<1>8. ASSUME NEW i \in 1 .. size, i # 1
      PROVE  i - 1 \in 1 .. size /\ walk_right(in[i - 1]) = in[i]
  <2>1. i - 1 \in 1 .. size /\ i - 1 < i /\ i \in Nat
    BY <1>4, <1>8
  <2> DEFINE a == in[i - 1]
             A == {y \in nodes : y > a}
  <2>2. a \in nodes /\ in[i] \in nodes /\ a < in[i]
    BY <2>1, <1>3, <1>4, <1>5 DEF Lists
  <2> HIDE DEF a
  <2>3. walk_right(a) = NextAfter(A)
    BY <2>2, <1>2, WalkRightIs
  <2>4. in[i] \in A /\ A \subseteq Nat \ {0} /\ a \in Nat /\ in[i] \in Nat
    BY <2>2, <1>1
  <2>5. \A y \in A : in[i] <= y
    <3> SUFFICES ASSUME NEW y \in nodes, y > a PROVE in[i] <= y
      OBVIOUS
    <3>1. PICK j \in 1 .. size : in[j] = y
      BY <1>3, <1>4 DEF Lists
    <3>2. CASE j < i
      <4>1. j <= i - 1
        BY <3>1, <3>2, <2>1
      <4>2. j = i - 1 \/ j < i - 1
        BY <4>1, <3>1, <2>1
      <4>3. in[j] = a \/ in[j] < a
        BY <4>2, <2>1, <3>1, <1>3, <1>4 DEF Lists, a
      <4>4. y \in Nat /\ a \in Nat
        BY <1>1, <2>4
      <4> QED
        BY <4>3, <4>4, <3>1
    <3>3. CASE i = j
      BY <3>1, <3>3, <2>4
    <3>4. CASE i < j
      <4>1. in[i] < y
        BY <3>1, <3>4, <1>3, <1>4 DEF Lists
      <4> QED
        BY <4>1, <2>4, <1>1
    <3>5. j < i \/ i = j \/ i < j
      BY <3>1, <2>1
    <3> QED
      BY <3>2, <3>3, <3>4, <3>5
  <2> HIDE DEF A
  <2>6. NextAfter(A) = in[i]
    BY <2>4, <2>5, AfterFacts
  <2> QED
    BY <2>1, <2>3, <2>6 DEF a
<1>9. w = F(w)
  <2> SUFFICES ASSUME NEW i \in 1 .. size
               PROVE  w[i] = IF i = 1 THEN first ELSE walk_right(w[i - 1])
    OBVIOUS
  <2>1. w[i] = in[i] /\ (i # 1 => w[i - 1] = in[i - 1])
    BY <1>8
  <2> QED
    BY <2>1, <1>7, <1>8
<1>10. at = F(at)
  <2>1. at = CHOOSE f : f = F(f)
    OBVIOUS
  <2> HIDE DEF F, w
  <2> QED
    BY <2>1, <1>9
<1>11. \A i \in 1 .. size : at[i] = IF i = 1 THEN first ELSE walk_right(at[i - 1])
  BY <1>10
<1> DEFINE Q == {i \in Nat : i + 1 \in 1 .. size => at[i + 1] = in[i + 1]}
<1>12. 0 \in Q
  BY <1>7, <1>11
<1>13. ASSUME NEW i \in Nat, i \in Q
       PROVE  i + 1 \in Q
  <2> SUFFICES ASSUME (i + 1) + 1 \in 1 .. size PROVE at[(i + 1) + 1] = in[(i + 1) + 1]
    OBVIOUS
  <2>1. i + 1 \in 1 .. size /\ ((i + 1) + 1) - 1 = i + 1 /\ (i + 1) + 1 # 1
    BY <1>4
  <2>2. at[i + 1] = in[i + 1]
    BY <2>1, <1>13
  <2>3. at[(i + 1) + 1] = walk_right(at[i + 1])
    BY <2>1, <1>11
  <2>4. walk_right(in[i + 1]) = in[(i + 1) + 1]
    BY <2>1, <1>8
  <2> QED
    BY <2>2, <2>3, <2>4
<1> HIDE DEF Q
<1>14. \A i \in Nat : i \in Q
  BY <1>12, <1>13, NatInduct
<1>15. \A i \in 1 .. size : at[i] = in[i]
  <2> TAKE i \in 1 .. size
  <2>1. i - 1 \in Nat /\ (i - 1) + 1 = i
    BY <1>4
  <2>2. i - 1 \in Q
    BY <2>1, <1>14
  <2> QED
    BY <2>1, <2>2 DEF Q
<1>16. WalkOf(at, in)
  BY <1>3, <1>4, <1>15 DEF WalkOf
<1> QED
  BY <1>16

(* What the test asks of the walk. *)
SaneAt(at) ==
  LET walk == {at[i] : i \in 1 .. size}
      leaves == {x \in walk : left[x] = Null \/ right[x] = Null}
  IN  /\ left[first] = Null
      /\ ~red[root]
      /\ \A i \in 1 .. size - 1 : at[i] # at[i + 1]
      /\ \A x \in walk :
           /\ ~(red[x] /\ IsRed(parent[x]))
           /\ IF parent[x] = Null THEN root = x
              ELSE x \in {left[parent[x]], right[parent[x]]}
           /\ x \notin {left[x], right[x]}
      /\ \A x, y \in leaves : black_height[x] = black_height[y]
      /\ walk_right(at[size]) = Null
      /\ right[at[size]] = Null
      /\ first = Min(walk) /\ last = Max(walk)

(* Each thing _Sane() tests on that walk holds under the invariant. *)
LEMMA SaneAtHolds ==
  ASSUME RbInv, pc = "idle", root # 0, NEW at, NEW in, WalkOf(at, in)
  PROVE  SaneAt(at)
<1> DEFINE walk == {at[i] : i \in 1 .. size}
           leaves == {x \in walk : left[x] = Null \/ right[x] = Null}
<1>1. /\ Shape /\ Ends /\ nodes # {} /\ nodes \subseteq Nat \ {0} /\ ~red[root]
      /\ red \in [nodes -> BOOLEAN] /\ Painted(nodes, left, right, red, 0)
  BY AtRest DEF RbInv
<1>2. PICK S : Below(S)
  BY <1>1 DEF Shape, Below
<1>3. /\ \A x \in nodes : /\ left[x] \in nodes \cup {0} /\ right[x] \in nodes \cup {0}
                          /\ x # 0 /\ x \in Nat
                          /\ left[x] # 0 => left[x] < x
                          /\ right[x] # 0 => x < right[x]
                          /\ x # root => parent[x] \in nodes /\ x \in {left[parent[x]], right[parent[x]]}
      /\ root \in nodes /\ parent[root] = 0
  BY <1>1, ShapeFacts
<1>4. /\ first \in nodes /\ last \in nodes /\ \A x \in nodes : first <= x /\ x <= last
  BY <1>1 DEF Ends
<1>5. /\ in \in Seq(nodes) /\ Len(in) = size /\ size \in Nat
      /\ \A i \in 1 .. size : at[i] = in[i] /\ at[i] \in nodes
  BY DEF WalkOf, Lists
<1>6. walk = nodes
  <2>1. \A y \in nodes : \E i \in 1 .. size : in[i] = y
    BY DEF WalkOf, Lists
  <2> QED
    BY <2>1, <1>5
<1>7. \A i \in 1 .. size : \A j \in 1 .. size : i < j => at[i] < at[j]
  BY <1>5 DEF WalkOf, Lists
<1>8. at[size] = last
  <2>1. PICK i \in 1 .. size : at[i] = last
    BY <1>4, <1>6
  <2>2. size \in 1 .. size /\ (i = size \/ i < size)
    BY <2>1, <1>5
  <2>3. at[size] \in Nat /\ last \in Nat /\ at[size] <= last
    BY <2>2, <1>3, <1>4, <1>5
  <2>4. i < size => last < at[size]
    BY <2>1, <2>2, <1>7
  <2> QED
    BY <2>1, <2>2, <2>3, <2>4
<1> HIDE DEF walk
<1>9. left[first] = Null /\ right[last] = Null
  <2>1. left[first] # 0 => left[first] \in nodes /\ left[first] < first /\ first <= left[first]
                           /\ left[first] \in Nat /\ first \in Nat
    BY <1>3, <1>4
  <2>2. right[last] # 0 => right[last] \in nodes /\ last < right[last] /\ right[last] <= last
                           /\ right[last] \in Nat /\ last \in Nat
    BY <1>3, <1>4
  <2>3. left[first] = 0
    BY <2>1
  <2>4. right[last] = 0
    BY <2>2
  <2> QED
    BY <2>3, <2>4 DEF Null
<1>10. \A i \in 1 .. size - 1 : at[i] # at[i + 1]
  <2> TAKE i \in 1 .. size - 1
  <2>1. i \in 1 .. size /\ i + 1 \in 1 .. size /\ i < i + 1
    BY <1>5
  <2>2. at[i] < at[i + 1] /\ at[i] \in Nat /\ at[i + 1] \in Nat
    BY <2>1, <1>3, <1>5, <1>7
  <2> QED
    BY <2>2
<1>11. ASSUME NEW x \in nodes
       PROVE  /\ ~(red[x] /\ IsRed(parent[x]))
              /\ IF parent[x] = Null THEN root = x
                 ELSE x \in {left[parent[x]], right[parent[x]]}
              /\ x \notin {left[x], right[x]}
  <2>1. x \notin {left[x], right[x]}
    BY <1>3
  <2>2. IF parent[x] = Null THEN root = x ELSE x \in {left[parent[x]], right[parent[x]]}
    BY <1>3 DEF Null
  <2>3. ~(red[x] /\ IsRed(parent[x]))
    <3> SUFFICES ASSUME red[x], IsRed(parent[x]) PROVE FALSE
      OBVIOUS
    <3>1. parent[x] \in nodes /\ red[parent[x]] /\ x \in {left[parent[x]], right[parent[x]]} /\ x # 0
      BY <1>3 DEF IsRed, Null
    <3> QED
      BY <3>1, <1>1 DEF Painted
  <2> QED
    BY <2>1, <2>2, <2>3
<1>12. ASSUME NEW x \in leaves, NEW y \in leaves
       PROVE  black_height[x] = black_height[y]
  <2>1. PICK H : Level(nodes, left, right, red, H)
    BY AtRest DEF RbInv
  <2>2. ASSUME NEW z \in leaves
        PROVE  black_height[z] = H[root]
    <3>1. z \in nodes /\ (left[z] = 0 \/ right[z] = 0)
      BY <1>6 DEF Null
    <3>2. H[z] = (IF red[z] THEN 0 ELSE 1) /\ H[root] \in Nat
      BY <2>1, <3>1, <1>3 DEF Level
    <3>3. black_height[z] = H[root] - H[z] + (IF red[z] THEN 0 ELSE 1)
      BY <2>1, <3>1, <1>1, BlackHeightIs
    <3> QED
      BY <3>2, <3>3
  <2> QED
    BY <2>2
<1>13. walk_right(last) = Null
  <2>1. walk_right(last) = NextAfter({y \in nodes : y > last})
    BY <1>2, <1>4, WalkRightIs
  <2>2. {y \in nodes : y > last} = {}
    BY <1>3, <1>4
  <2> QED
    BY <2>1, <2>2 DEF NextAfter
<1>14. first = Min(walk) /\ last = Max(walk)
  BY <1>1, <1>6, SortedHolds DEF Sorted
<1> QED
  BY <1>1, <1>6, <1>8, <1>9, <1>10, <1>11, <1>12, <1>13, <1>14 DEF SaneAt, walk

(* _Sane() returns true for a tree at rest. *)
LEMMA SaneHolds ==
  ASSUME RbInv, pc = "idle"
  PROVE  Sane
<1>1. CASE root = Null
  <2>1. nodes = {} /\ Ends
    BY <1>1, AtRest DEF RbInv, Null
  <2>2. size = 0
    BY <2>1, FS_EmptySet DEF Ends
  <2> QED
    BY <1>1, <2>2 DEF Sane
<1>2. CASE root # Null
  <2> DEFINE at == CHOOSE f : f = [i \in 1 .. size |-> IF i = 1 THEN first ELSE walk_right(f[i - 1])]
  <2>1. \E in : WalkOf(at, in)
    BY <1>2, SaneWalk DEF Null
  <2>2. SaneAt(at)
    <3> HIDE DEF at
    <3> QED
      BY <2>1, <1>2, SaneAtHolds DEF Null
  <2>3. Sane <=> SaneAt(at)
    BY <1>2 DEF Sane, SaneAt
  <2> QED
    BY <2>2, <2>3
<1> QED
  BY <1>1, <1>2

(* The invariant implies IsSane. *)
LEMMA IsSaneHolds ==
  ASSUME RbInv
  PROVE  IsSane
<1>1. ASSUME pc = "doubleBlack"
      PROVE  /\ sibling # Null
             /\ red[sibling] => left[sibling] # Null /\ right[sibling] # Null
  <2>1. TreeInv /\ Shape
    BY DEF RbInv, TreeInv
  <2>2. PICK H : Heights(nodes, left, right, red, n, lefty, H)
    BY <1>1, <2>1 DEF TreeInv, Balanced
  <2> DEFINE c == IF lefty THEN left[n] ELSE right[n]
  <2>3. Sides(sibling, c)
    BY DEF Sides
  <2> HIDE DEF c
  <2>4. Siblings(sibling, c, H)
    BY <1>1, <2>1, <2>2, <2>3, DoubleBlackFacts
  <2>5. 0 \notin nodes
    BY <2>1, ShapeFacts
  <2> QED
    BY <2>4, <2>5 DEF Siblings, Null
<1> QED
  BY <1>1, SaneHolds DEF IsSane

(* The invariant holds in every reachable state of the set, for every set of
   keys and every bound on copies. *)
THEOREM RbInvariant == RbSpec => []RbInv
<1>1. RbInit => RbInv
  BY RbInvInit
<1>2. RbInv /\ [RbNext]_rbVars => RbInv'
  BY RbInvNext
<1> QED
  BY <1>1, <1>2, PTL DEF RbSpec

(* Whatever is inserted (with any hint), erased, cleared or copied, and at every
   step of the repairs of _rbtree.h, the tree is a search tree of just the nodes
   that are allocated, with correct parent pointers, size and ends. *)
THEOREM TreeSorted == RbSpec => []Sorted
<1>1. RbInv => Sorted
  BY SortedHolds
<1> QED
  BY <1>1, RbInvariant, PTL

(* Between operations the tree passes _Sane(), its own test: it is a red-black
   tree.  While double_black_transform repairs a deletion the sibling and the
   nephews it dereferences are there. *)
THEOREM TreeIsSane == RbSpec => []IsSane
<1>1. RbInv => IsSane
  BY IsSaneHolds
<1> QED
  BY <1>1, RbInvariant, PTL

(* operator ++, operator --, lower_bound and upper_bound of a tree at rest return
   the neighbouring node, for every node and key. *)
THEOREM TreeWalks == RbSpec => []Walks
<1>1. RbInv => Walks
  BY WalksHolds
<1> QED
  BY <1>1, RbInvariant, PTL

(* The copy constructor copies every node and both ends, and one in which an
   allocation fails leaves none behind. *)
THEOREM TreeCopies == RbSpec => []Copies
<1>1. RbInv => Copies
  BY CopiesHolds
<1> QED
  BY <1>1, RbInvariant, PTL

-----------------------------------------------------------------------------
(* The rings of a multi tree. *)

(* r[x] is the ring of node x: all elements with its key, from the one the node
   points at. *)
Rings(r) ==
  /\ DOMAIN head = nodes
  /\ \A e \in elements : KeyOf(e) \in nodes
  /\ \A x \in nodes :
       /\ r[x] \in Seq(elements)
       /\ \A e \in elements : Has(r[x], e) <=> KeyOf(e) = x
       /\ IsRing(r[x], fwd, bwd)
       /\ head[x] = r[x][1]

(* The inductive invariant of a multiset: unless its tree is being cleared, its
   elements are in rings. *)
RingInv ==
  /\ elements \subseteq Element /\ IsFiniteSet(elements) /\ mSize = Cardinality(elements)
  /\ pc = "clear" => elements = {} /\ head = << >>
  /\ pc # "clear" => \E r : Rings(r)

(* Elements come in the order of their keys, and in a ring in that of the ring. *)
PlaceIn(s, e) == CHOOSE i \in 1 .. Len(s) : s[i] = e

Precedes(r, e, d) ==
  \/ KeyOf(e) < KeyOf(d)
  \/ KeyOf(e) = KeyOf(d) /\ PlaceIn(r[KeyOf(e)], e) < PlaceIn(r[KeyOf(d)], d)

Order(r) == {p \in elements \X elements : Precedes(r, p[1], p[2])}

(* Order as a relation. *)
LEMMA OrderIs ==
  ASSUME NEW r, NEW e \in elements, NEW d \in elements
  PROVE  <<e, d>> \in Order(r) <=> Precedes(r, e, d)
BY DEF Order

(* Elements have their keys and places in a ring. *)
LEMMA RingFacts ==
  ASSUME Shape, NEW r, Rings(r)
  PROVE  /\ \A x \in nodes :
              /\ Len(r[x]) \in Nat /\ Len(r[x]) >= 1 /\ Distinct(r[x])
              /\ x \in Nat /\ x # 0
              /\ \A i \in 1 .. Len(r[x]) : /\ r[x][i] \in elements /\ KeyOf(r[x][i]) = x
                                           /\ PlaceIn(r[x], r[x][i]) = i
         /\ \A e \in elements :
              /\ KeyOf(e) \in nodes /\ KeyOf(e) \in Nat
              /\ PlaceIn(r[KeyOf(e)], e) \in 1 .. Len(r[KeyOf(e)])
              /\ r[KeyOf(e)][PlaceIn(r[KeyOf(e)], e)] = e
<1>1. 0 \notin nodes /\ nodes \subseteq Nat
  BY ShapeFacts
<1>2. ASSUME NEW x \in nodes
      PROVE  /\ Len(r[x]) \in Nat /\ Len(r[x]) >= 1 /\ Distinct(r[x])
             /\ x \in Nat /\ x # 0
             /\ \A i \in 1 .. Len(r[x]) : /\ r[x][i] \in elements /\ KeyOf(r[x][i]) = x
                                          /\ PlaceIn(r[x], r[x][i]) = i
  <2>1. /\ r[x] \in Seq(elements) /\ Len(r[x]) \in Nat /\ Len(r[x]) >= 1 /\ Distinct(r[x])
    BY DEF Rings, IsRing
  <2>2. ASSUME NEW i \in 1 .. Len(r[x])
        PROVE  /\ r[x][i] \in elements /\ KeyOf(r[x][i]) = x
               /\ PlaceIn(r[x], r[x][i]) = i
    <3>1. r[x][i] \in elements /\ Has(r[x], r[x][i])
      BY <2>1 DEF Has
    <3>2. KeyOf(r[x][i]) = x
      BY <3>1 DEF Rings
    <3>3. \A j \in 1 .. Len(r[x]) : r[x][j] = r[x][i] => j = i
      BY <2>1 DEF Distinct
    <3> QED
      BY <3>1, <3>2, <3>3 DEF PlaceIn
  <2> QED
    BY <2>1, <2>2, <1>1
<1>3. ASSUME NEW e \in elements
      PROVE  /\ KeyOf(e) \in nodes /\ KeyOf(e) \in Nat
             /\ PlaceIn(r[KeyOf(e)], e) \in 1 .. Len(r[KeyOf(e)])
             /\ r[KeyOf(e)][PlaceIn(r[KeyOf(e)], e)] = e
  <2>1. KeyOf(e) \in nodes /\ Has(r[KeyOf(e)], e)
    BY DEF Rings
  <2>2. \E i \in 1 .. Len(r[KeyOf(e)]) : r[KeyOf(e)][i] = e
    BY <2>1 DEF Has
  <2> QED
    BY <2>1, <2>2, <1>1 DEF PlaceIn
<1> QED
  BY <1>2, <1>3

(* No two elements precede each other. *)
LEMMA OrderOneWay ==
  ASSUME Shape, NEW r, Rings(r)
  PROVE  OneWay(elements, Order(r))
<1>1. \A e \in elements : KeyOf(e) \in Nat /\ PlaceIn(r[KeyOf(e)], e) \in Nat
  BY RingFacts
<1> SUFFICES ASSUME NEW e \in elements, NEW d \in elements, Precedes(r, e, d)
             PROVE  ~Precedes(r, d, e)
  BY OrderIs DEF OneWay
<1> QED
  BY <1>1 DEF Precedes

(* The loop of count and clear goes once round. *)
LEMMA RingIs ==
  ASSUME Shape, NEW r, Rings(r), elements \subseteq Element, NEW x \in nodes
  PROVE  Ring(x) = r[x]
<1> DEFINE own == {e \in elements : KeyOf(e) = x}
           s == r[x]
<1>1. /\ s \in Seq(elements) /\ IsRing(s, fwd, bwd) /\ head[x] = s[1]
      /\ \A e \in elements : Has(s, e) <=> KeyOf(e) = x
  BY DEF Rings
<1>2. s \in Seq(own) /\ \A e \in own : Has(s, e)
  <2>1. Len(s) \in Nat /\ \A i \in 1 .. Len(s) : s[i] \in own
    BY RingFacts
  <2> QED
    BY <2>1, <1>1
<1>3. <<0, 0>> \notin own
  BY KeysAssumption, MultiAssumption DEF Element
<1>4. Ring(x) = (CHOOSE f : f = [e \in own |-> IF fwd[e] = s[1] THEN <<e>> ELSE <<e>> \o f[fwd[e]]])[s[1]]
  BY <1>1 DEF Ring
<1> HIDE DEF own, s
<1>5. (CHOOSE f : f = [e \in own |-> IF fwd[e] = s[1] THEN <<e>> ELSE <<e>> \o f[fwd[e]]])[s[1]] = s
  BY <1>1, <1>2, <1>3, RingCollected
<1> QED
  BY <1>4, <1>5 DEF s

(* A ring is in that order. *)
LEMMA RingOrdered ==
  ASSUME Shape, NEW r, Rings(r), NEW x \in nodes
  PROVE  Ordered(r[x], {e \in elements : KeyOf(e) = x}, Order(r))
<1> DEFINE own == {e \in elements : KeyOf(e) = x}
           s == r[x]
<1>1. /\ Len(s) \in Nat /\ x \in Nat
      /\ \A i \in 1 .. Len(s) : s[i] \in elements /\ KeyOf(s[i]) = x /\ PlaceIn(s, s[i]) = i
  BY RingFacts
<1>2. s \in Seq(elements) /\ \A e \in elements : Has(s, e) <=> KeyOf(e) = x
  BY DEF Rings
<1>3. s \in Seq(own) /\ \A e \in own : Has(s, e)
  BY <1>1, <1>2
<1>4. ASSUME NEW i \in 1 .. Len(s), NEW j \in 1 .. Len(s), i < j
      PROVE  <<s[i], s[j]>> \in Order(r)
  <2>1. Precedes(r, s[i], s[j])
    BY <1>1, <1>4 DEF Precedes
  <2> QED
    BY <2>1, <1>1, OrderIs
<1> QED
  BY <1>3, <1>4 DEF Ordered

(* An iterator's sequence: the rings in the order of the nodes. *)
LEMMA ContentsIs ==
  ASSUME Shape, NEW r, Rings(r), elements \subseteq Element, kind = "multi", pc # "clear"
  PROVE  Ordered(Contents, elements, Order(r))
<1>0. PICK S : Below(S)
  BY DEF Shape, Below
<1> DEFINE F(it) == [x \in nodes \cup {Null} |->
                       IF x = Null THEN << >> ELSE it[left[x]] \o Ring(x) \o it[right[x]]]
           c == CHOOSE it : it = F(it)
           V == Seq(elements)
           G == [t \in nodes \X V \X V |-> t[2] \o r[t[1]] \o t[3]]
           Of(A) == {e \in elements : KeyOf(e) \in A}
           Q == {x \in nodes : Ordered(c[x], Of(S[x]), Order(r))}
<1>1. Sorts(S)
  BY <1>0, BelowSorts
<1>2. \A x \in nodes : left[x] \in nodes \cup {0} /\ right[x] \in nodes \cup {0} /\ x # 0
  BY <1>1 DEF Sorts
<1>2a. \A x \in nodes : r[x] \in V
  BY DEF Rings
<1>3. << >> \in V /\ G \in [nodes \X V \X V -> V]
  <2>1. ASSUME NEW t \in nodes \X V \X V
        PROVE  (t[2] \o r[t[1]] \o t[3]) \in V
    <3>1. t[1] \in nodes /\ t[2] \in V /\ t[3] \in V
      BY <2>1
    <3>2. r[t[1]] \in V
      BY <3>1, <1>2a
    <3> QED
      BY <3>1, <3>2
  <2>2. << >> \in V
    OBVIOUS
  <2> HIDE DEF V
  <2> QED
    BY <2>1, <2>2
<1>4. PICK f : Folds(nodes, left, right, V, << >>, G, f, nodes)
  <2> HIDE DEF G, V
  <2> QED
    BY <1>0, <1>3, FoldTree DEF Below
<1>5. /\ f \in [nodes \cup {0} -> V] /\ f[0] = << >>
      /\ \A y \in nodes : f[y] = G[<<y, f[left[y]], f[right[y]]>>]
  BY <1>4 DEF Folds
<1>6. \A y \in nodes : f[y] = f[left[y]] \o r[y] \o f[right[y]]
  <2> TAKE y \in nodes
  <2>1. f[left[y]] \in V /\ f[right[y]] \in V
    <3> HIDE DEF V
    <3> QED
      BY <1>2, <1>5
  <2>2. <<y, f[left[y]], f[right[y]]>> \in nodes \X V \X V
    BY <2>1
  <2> HIDE DEF V
  <2>3. G[<<y, f[left[y]], f[right[y]]>>] = f[left[y]] \o r[y] \o f[right[y]]
    BY <2>2
  <2> HIDE DEF G
  <2> QED
    BY <2>3, <1>5
<1>6a. \A y \in nodes : Ring(y) = r[y]
  BY RingIs
<1> DEFINE w == [x \in nodes \cup {Null} |-> f[x]]
<1>7. w = F(w)
  <2> SUFFICES ASSUME NEW x \in nodes \cup {Null}
               PROVE  f[x] = IF x = Null THEN << >> ELSE w[left[x]] \o Ring(x) \o w[right[x]]
    OBVIOUS
  <2>1. CASE x = Null
    BY <2>1, <1>5 DEF Null
  <2>2. CASE x # Null
    <3>1. x \in nodes /\ left[x] \in nodes \cup {Null} /\ right[x] \in nodes \cup {Null}
      BY <2>2, <1>2 DEF Null
    <3>2. w[left[x]] = f[left[x]] /\ w[right[x]] = f[right[x]]
      BY <3>1
    <3> HIDE DEF w
    <3> QED
      BY <2>2, <3>1, <3>2, <1>6, <1>6a
  <2> QED
    BY <2>1, <2>2
<1>8. Contents = c[root]
  BY DEF Contents
<1>9. c = F(c)
  <2> HIDE DEF w, F
  <2> QED
    BY <1>7
<1>10. /\ c[0] = << >>
       /\ \A x \in nodes : c[x] = c[left[x]] \o r[x] \o c[right[x]]
  <2> HIDE DEF c
  <2>1. \A x \in nodes \cup {Null} : c[x] = IF x = Null THEN << >> ELSE c[left[x]] \o Ring(x) \o c[right[x]]
    BY <1>9
  <2> QED
    BY <2>1, <1>2, <1>6a DEF Null
<1> HIDE DEF c
<1>11. Ordered(c[0], Of(S[0]), Order(r))
  <2>1. << >> \in Seq({}) /\ Len(<< >>) = 0
    OBVIOUS
  <2>2. Of(S[0]) = {}
    BY <1>1 DEF Sorts
  <2> QED
    BY <2>1, <2>2, <1>10 DEF Ordered
<1>12. ASSUME NEW x \in nodes, left[x] = 0 \/ left[x] \in Q, right[x] = 0 \/ right[x] \in Q
       PROVE  x \in Q
  <2>1. /\ x \in Nat /\ x \in S[x] /\ S[left[x]] \subseteq S[x] /\ S[right[x]] \subseteq S[x]
        /\ \A y \in S[x] : y = x \/ y \in S[left[x]] \/ y \in S[right[x]]
        /\ \A y \in S[left[x]] : y < x /\ y \in Nat
        /\ \A y \in S[right[x]] : x < y /\ y \in Nat
    BY <1>1 DEF Sorts
  <2> DEFINE A == Of(S[left[x]])
             B == Of(S[right[x]])
             M == {e \in elements : KeyOf(e) = x}
             a == c[left[x]]
             b == c[right[x]]
  <2>2. Ordered(a, A, Order(r)) /\ Ordered(b, B, Order(r))
    BY <1>11, <1>12
  <2>3. Ordered(r[x], M, Order(r))
    BY RingOrdered
  <2>4. /\ \A e \in A : \A d \in M : <<e, d>> \in Order(r)
        /\ \A e \in A \cup M : \A d \in B : <<e, d>> \in Order(r)
    <3>1. ASSUME NEW e \in elements, NEW d \in elements, KeyOf(e) < KeyOf(d)
          PROVE  <<e, d>> \in Order(r)
      BY <3>1, OrderIs DEF Precedes
    <3>2. \A e \in A : e \in elements /\ KeyOf(e) < x /\ KeyOf(e) \in Nat
      BY <2>1
    <3>3. \A e \in B : e \in elements /\ x < KeyOf(e) /\ KeyOf(e) \in Nat
      BY <2>1
    <3>4. \A e \in M : e \in elements /\ KeyOf(e) = x
      OBVIOUS
    <3> HIDE DEF A, B, M
    <3>5. \A e \in A : \A d \in M : <<e, d>> \in Order(r)
      BY <3>1, <3>2, <3>4
    <3>6. \A e \in A \cup M : \A d \in B : <<e, d>> \in Order(r)
      <4> SUFFICES ASSUME NEW e \in A \cup M, NEW d \in B PROVE <<e, d>> \in Order(r)
        OBVIOUS
      <4>1. e \in elements /\ d \in elements /\ KeyOf(e) < KeyOf(d)
        BY <3>2, <3>3, <3>4, <2>1
      <4> QED
        BY <4>1, <3>1
    <3> QED
      BY <3>5, <3>6
  <2>5. A \cup M \cup B = Of(S[x])
    BY <2>1
  <2>6. c[x] = a \o r[x] \o b
    BY <1>10
  <2> HIDE DEF A, B, M, a, b, Of
  <2>7. Ordered(a \o r[x], A \cup M, Order(r))
    BY <2>2, <2>3, <2>4, OrderedJoined
  <2>8. Ordered((a \o r[x]) \o b, (A \cup M) \cup B, Order(r))
    BY <2>2, <2>4, <2>7, OrderedJoined
  <2> QED
    BY <2>5, <2>6, <2>8
<1> HIDE DEF Q
<1>13. \A x \in nodes : x \in Q
  BY <1>0, <1>12, TreeInduct DEF Below
<1>14. Ordered(c[root], Of(S[root]), Order(r))
  BY <1>1, <1>11, <1>13 DEF Sorts, Q
<1>15. S[root] = nodes
  BY <1>1 DEF Sorts
<1>16. Of(nodes) = elements
  BY DEF Rings
<1> HIDE DEF Of
<1> QED
  BY <1>8, <1>14, <1>15, <1>16

(* The neighbours of a node. *)
LEMMA WalkFacts ==
  ASSUME Shape, NEW x \in nodes
  PROVE  /\ walk_right(x) = 0 => \A y \in nodes : ~(x < y)
         /\ walk_right(x) # 0 => /\ walk_right(x) \in nodes /\ x < walk_right(x)
                                 /\ \A y \in nodes : x < y => walk_right(x) <= y
         /\ \A y \in nodes : y < x => walk_left(x) \in nodes /\ walk_left(x) < x /\ y <= walk_left(x)
<1>1. PICK S : Below(S)
  BY DEF Shape, Below
<1>2. \A y \in nodes : y \in Nat \ {0}
  BY ShapeFacts
<1>3. PICK b \in Nat : \A y \in nodes : y <= b
  BY <1>1, Bounded
<1> DEFINE A == {y \in nodes : y > x}
           D == {y \in nodes : y < x}
<1>4. walk_right(x) = NextAfter(A) /\ walk_left(x) = NextBefore(D)
  BY <1>1, WalkRightIs, WalkLeftIs
<1>5. A \subseteq Nat \ {0} /\ D \subseteq Nat \ {0} /\ \A y \in D : y <= b
  BY <1>2, <1>3
<1>6. \A y \in nodes : (y \in A <=> x < y) /\ (y \in D <=> y < x)
  BY <1>2
<1>6a. A \subseteq nodes /\ D \subseteq nodes
  OBVIOUS
<1> HIDE DEF A, D
<1>7. /\ NextAfter(A) \in A \cup {0} /\ (NextAfter(A) = 0 <=> A = {})
      /\ \A y \in A : NextAfter(A) <= y
  BY <1>5, AfterFacts
<1>8. /\ NextBefore(D) \in D \cup {0} /\ (NextBefore(D) = 0 <=> D = {})
      /\ \A y \in D : y <= NextBefore(D)
  BY <1>5, BeforeFacts
<1>9. 0 \notin nodes
  BY <1>2
<1> QED
  BY <1>4, <1>6, <1>6a, <1>7, <1>8, <1>9

(* operator ++ leads to the next element of the order, if there is one. *)
LEMMA IncrementIs ==
  ASSUME Shape, NEW r, Rings(r), NEW e \in elements
  PROVE  \/ increment(e) = NoElement /\ \A d \in elements : <<e, d>> \notin Order(r)
         \/ Covers(e, increment(e), elements, Order(r))
<1> DEFINE k == KeyOf(e)
           s == r[k]
           p == PlaceIn(s, e)
<1>1. /\ k \in nodes /\ k \in Nat /\ p \in 1 .. Len(s) /\ s[p] = e
  BY RingFacts
<1>2. /\ Len(s) \in Nat /\ Len(s) >= 1 /\ Distinct(s)
      /\ \A i \in 1 .. Len(s) : s[i] \in elements /\ KeyOf(s[i]) = k /\ PlaceIn(s, s[i]) = i
  BY <1>1, RingFacts
<1>3. /\ head[k] = s[1]
      /\ \A i \in 1 .. Len(s) : /\ fwd[s[i]] = s[IF i = Len(s) THEN 1 ELSE i + 1]
                                /\ bwd[s[i]] = s[IF i = 1 THEN Len(s) ELSE i - 1]
  BY <1>1 DEF Rings, IsRing
<1>4. bwd[head[k]] = s[Len(s)]
  BY <1>2, <1>3
<1>5. e = bwd[head[k]] <=> p = Len(s)
  <2>1. Len(s) \in 1 .. Len(s)
    BY <1>2
  <2> QED
    BY <2>1, <1>1, <1>2, <1>4 DEF Distinct
<1>6. increment(e) = IF p = Len(s) THEN HeadOf(walk_right(k)) ELSE fwd[e]
  BY <1>5 DEF increment, TreeAt
<1>7. \A d \in elements : KeyOf(d) \in nodes /\ KeyOf(d) \in Nat
                          /\ PlaceIn(r[KeyOf(d)], d) \in 1 .. Len(r[KeyOf(d)])
  BY RingFacts
<1>8. CASE p # Len(s)
  <2>1. increment(e) = s[p + 1] /\ p + 1 \in 1 .. Len(s)
    BY <1>1, <1>2, <1>3, <1>6, <1>8
  <2> DEFINE u == s[p + 1]
  <2>2. u \in elements /\ KeyOf(u) = k /\ PlaceIn(s, u) = p + 1
    BY <2>1, <1>2
  <2> HIDE DEF u
  <2>3. Precedes(r, e, u)
    BY <2>2, <1>1 DEF Precedes
  <2>4. ASSUME NEW d \in elements, Precedes(r, e, d), Precedes(r, d, u)
        PROVE  FALSE
    <3>1. KeyOf(d) = k
      BY <2>2, <2>4, <1>1, <1>7 DEF Precedes
    <3>2. p < PlaceIn(s, d) /\ PlaceIn(s, d) < p + 1
      BY <3>1, <2>2, <2>4, <1>1 DEF Precedes
    <3>3. PlaceIn(s, d) \in Nat /\ p \in Nat
      BY <3>1, <1>1, <1>7
    <3> QED
      BY <3>2, <3>3
  <2>5. Covers(e, u, elements, Order(r))
    BY <2>2, <2>3, <2>4, OrderIs DEF Covers
  <2> QED
    BY <2>1, <2>5 DEF u
<1>9. CASE p = Len(s)
  <2> DEFINE y == walk_right(k)
  <2>1. /\ y = 0 => \A x \in nodes : ~(k < x)
        /\ y # 0 => y \in nodes /\ k < y /\ \A x \in nodes : k < x => y <= x
    BY <1>1, WalkFacts
  <2> HIDE DEF y
  <2>2. increment(e) = HeadOf(y)
    BY <1>6, <1>9 DEF y
  <2>3. \A d \in elements : Precedes(r, e, d) => k < KeyOf(d)
    <3> SUFFICES ASSUME NEW d \in elements, Precedes(r, e, d), KeyOf(d) = k PROVE FALSE
      BY DEF Precedes
    <3>1. p < PlaceIn(s, d) /\ PlaceIn(s, d) \in 1 .. Len(s)
      BY <1>1, <1>7 DEF Precedes
    <3> QED
      BY <3>1, <1>2, <1>9
  <2>4. CASE y = 0
    <3>1. \A d \in elements : ~Precedes(r, e, d)
      BY <2>1, <2>3, <2>4, <1>7
    <3>2. increment(e) = NoElement
      BY <2>2, <2>4 DEF HeadOf, Null
    <3> QED
      BY <3>1, <3>2, OrderIs
  <2>5. CASE y # 0
    <3> DEFINE u == head[y]
    <3>1. u = r[y][1]
      BY <2>1, <2>5 DEF Rings
    <3>2. u \in elements /\ KeyOf(u) = y /\ PlaceIn(r[y], u) = 1
      <4>1. y \in nodes /\ 1 \in 1 .. Len(r[y])
        BY <2>1, <2>5, RingFacts
      <4> QED
        BY <4>1, <3>1, RingFacts
    <3>3. increment(e) = u
      BY <2>2, <2>5 DEF HeadOf, Null
    <3> HIDE DEF u
    <3>4. Precedes(r, e, u)
      BY <3>2, <2>1, <2>5 DEF Precedes
    <3>5. ASSUME NEW d \in elements, Precedes(r, e, d), Precedes(r, d, u)
          PROVE  FALSE
      <4>1. k < KeyOf(d) /\ KeyOf(d) \in nodes /\ KeyOf(d) \in Nat
        BY <3>5, <2>3, <1>7
      <4>2. y <= KeyOf(d) /\ y \in Nat
        BY <4>1, <2>1, <2>5, <3>2, <1>7
      <4>3. KeyOf(d) = y /\ PlaceIn(r[y], d) < 1
        BY <4>1, <4>2, <3>2, <3>5 DEF Precedes
      <4>4. PlaceIn(r[y], d) \in 1 .. Len(r[y])
        BY <4>3, <1>7
      <4> QED
        BY <4>3, <4>4
    <3>6. Covers(e, u, elements, Order(r))
      BY <3>2, <3>4, <3>5, OrderIs DEF Covers
    <3> QED
      BY <3>3, <3>6
  <2> QED
    BY <2>4, <2>5
<1> QED
  BY <1>8, <1>9

(* operator -- leads to the one before, *)
LEMMA BeforeIs ==
  ASSUME Shape, NEW r, Rings(r), NEW c \in elements, NEW e \in elements, <<c, e>> \in Order(r),
         NoElement \notin elements
  PROVE  Covers(MultiBefore(e), e, elements, Order(r))
<1> DEFINE k == KeyOf(e)
           s == r[k]
           p == PlaceIn(s, e)
<1>1. /\ k \in nodes /\ k \in Nat /\ p \in 1 .. Len(s) /\ s[p] = e
  BY RingFacts
<1>2. /\ Len(s) \in Nat /\ Len(s) >= 1 /\ Distinct(s)
      /\ \A i \in 1 .. Len(s) : s[i] \in elements /\ KeyOf(s[i]) = k /\ PlaceIn(s, s[i]) = i
  BY <1>1, RingFacts
<1>3. /\ head[k] = s[1]
      /\ \A i \in 1 .. Len(s) : bwd[s[i]] = s[IF i = 1 THEN Len(s) ELSE i - 1]
  BY <1>1 DEF Rings, IsRing
<1>4. k # 0 /\ HeadOf(TreeAt(e)) = s[1]
  BY <1>1, <1>3, RingFacts DEF HeadOf, TreeAt, Null
<1>5. e = s[1] <=> p = 1
  <2>1. 1 \in 1 .. Len(s)
    BY <1>2
  <2> QED
    BY <2>1, <1>1, <1>2 DEF Distinct
<1>6. MultiBefore(e) = IF p = 1 THEN bwd[head[walk_left(k)]] ELSE bwd[e]
  BY <1>4, <1>5 DEF MultiBefore, TreeAt, decrement, Null
<1>7. \A d \in elements : KeyOf(d) \in nodes /\ KeyOf(d) \in Nat
                          /\ PlaceIn(r[KeyOf(d)], d) \in 1 .. Len(r[KeyOf(d)])
  BY RingFacts
<1>8. CASE p # 1
  <2>1. MultiBefore(e) = s[p - 1] /\ p - 1 \in 1 .. Len(s)
    BY <1>1, <1>2, <1>3, <1>6, <1>8
  <2> DEFINE u == s[p - 1]
  <2>2. u \in elements /\ KeyOf(u) = k /\ PlaceIn(s, u) = p - 1
    BY <2>1, <1>2
  <2> HIDE DEF u
  <2>3. Precedes(r, u, e)
    BY <2>2, <1>1 DEF Precedes
  <2>4. ASSUME NEW d \in elements, Precedes(r, u, d), Precedes(r, d, e)
        PROVE  FALSE
    <3>1. KeyOf(d) = k
      BY <2>2, <2>4, <1>1, <1>7 DEF Precedes
    <3>2. p - 1 < PlaceIn(s, d) /\ PlaceIn(s, d) < p
      BY <3>1, <2>2, <2>4, <1>1 DEF Precedes
    <3>3. PlaceIn(s, d) \in Nat /\ p \in Nat
      BY <3>1, <1>1, <1>7
    <3> QED
      BY <3>2, <3>3
  <2>5. Covers(u, e, elements, Order(r))
    BY <2>2, <2>3, <2>4, OrderIs DEF Covers
  <2> QED
    BY <2>1, <2>5 DEF u
<1>9. CASE p = 1
  <2> DEFINE y == walk_left(k)
  <2>1. \A d \in elements : Precedes(r, d, e) => KeyOf(d) < k
    <3> SUFFICES ASSUME NEW d \in elements, Precedes(r, d, e), KeyOf(d) = k PROVE FALSE
      BY DEF Precedes
    <3>1. PlaceIn(s, d) < p /\ PlaceIn(s, d) \in 1 .. Len(s)
      BY <1>1, <1>7 DEF Precedes
    <3> QED
      BY <3>1, <1>2, <1>9
  <2>2. y \in nodes /\ y < k /\ \A x \in nodes : x < k => x <= y
    <3>1. KeyOf(c) \in nodes /\ KeyOf(c) < k
      BY <2>1, <1>7, OrderIs
    <3> QED
      BY <3>1, <1>1, WalkFacts
  <2> HIDE DEF y
  <2> DEFINE t == r[y]
             u == t[Len(t)]
  <2>3. /\ y \in Nat /\ Len(t) \in Nat /\ Len(t) >= 1
        /\ u \in elements /\ KeyOf(u) = y /\ PlaceIn(t, u) = Len(t)
    BY <2>2, RingFacts
  <2>4. bwd[head[y]] = u
    <3>1. head[y] = t[1] /\ bwd[t[1]] = t[Len(t)]
      BY <2>2, <2>3 DEF Rings, IsRing
    <3> QED
      BY <3>1
  <2>5. MultiBefore(e) = u
    BY <2>4, <1>6, <1>9 DEF y
  <2> HIDE DEF u
  <2>6. Precedes(r, u, e)
    BY <2>2, <2>3 DEF Precedes
  <2>7. ASSUME NEW d \in elements, Precedes(r, u, d), Precedes(r, d, e)
        PROVE  FALSE
    <3>1. KeyOf(d) <= y /\ KeyOf(d) \in Nat
      BY <2>7, <2>1, <2>2, <1>7
    <3>2. KeyOf(d) = y /\ Len(t) < PlaceIn(t, d)
      BY <3>1, <2>3, <2>7 DEF Precedes
    <3>3. PlaceIn(t, d) \in 1 .. Len(t)
      BY <3>2, <1>7
    <3> QED
      BY <3>2, <3>3, <2>3
  <2>8. Covers(u, e, elements, Order(r))
    BY <2>3, <2>6, <2>7, OrderIs DEF Covers
  <2> QED
    BY <2>5, <2>8
<1> QED
  BY <1>8, <1>9

(* and from the end to the last. *)
LEMMA BeforeEndIs ==
  ASSUME Shape, Ends, NEW r, Rings(r), NEW c \in elements
  PROVE  /\ MultiBefore(NoElement) \in elements
         /\ \A d \in elements : <<MultiBefore(NoElement), d>> \notin Order(r)
<1>1. KeyOf(c) \in nodes
  BY DEF Rings
<1>2. last \in nodes /\ \A x \in nodes : x <= last
  BY <1>1 DEF Ends
<1> DEFINE t == r[last]
           u == t[Len(t)]
<1>3. /\ last \in Nat /\ Len(t) \in Nat /\ Len(t) >= 1
      /\ u \in elements /\ KeyOf(u) = last /\ PlaceIn(t, u) = Len(t)
  BY <1>2, RingFacts
<1>4. MultiBefore(NoElement) = bwd[head[last]]
  BY DEF MultiBefore, decrement, TreeAt, NoElement, KeyOf, Null
<1>5. bwd[head[last]] = u
  <2>1. head[last] = t[1] /\ bwd[t[1]] = t[Len(t)]
    BY <1>2, <1>3 DEF Rings, IsRing
  <2> QED
    BY <2>1
<1> HIDE DEF u
<1>6. ASSUME NEW d \in elements, Precedes(r, u, d) PROVE FALSE
  <2>1. /\ KeyOf(d) \in nodes /\ KeyOf(d) \in Nat
        /\ PlaceIn(r[KeyOf(d)], d) \in 1 .. Len(r[KeyOf(d)])
    BY RingFacts
  <2>2. KeyOf(d) <= last
    BY <2>1, <1>2
  <2>3. KeyOf(d) = last /\ Len(t) < PlaceIn(t, d)
    BY <2>1, <2>2, <1>3, <1>6 DEF Precedes
  <2> QED
    BY <2>1, <2>3, <1>3
<1> QED
  BY <1>3, <1>4, <1>5, <1>6, OrderIs

(* The inductive invariant of the object, set or multiset. *)
MultiInv ==
  /\ kind \in {"set", "multi"}
  /\ RbInv
  /\ kind = "multi" => RingInv

(* end() is no element. *)
LEMMA NoElementIsNone ==
  ASSUME elements \subseteq Element
  PROVE  NoElement \notin elements
BY KeysAssumption, MultiAssumption DEF Element, NoElement, Null

(* count goes round the ring of the key. *)
LEMMA CountIs ==
  ASSUME Shape, NEW r, Rings(r), elements \subseteq Element, NEW k \in MultiKeys
  PROVE  count(k) = Cardinality({e \in elements : KeyOf(e) = k})
<1> DEFINE own == {e \in elements : KeyOf(e) = k}
<1>0. PICK S : Below(S)
  BY DEF Shape, Below
<1>1. k \in Nat \ {0} /\ find(k) = IF k \in nodes THEN k ELSE 0
  <2>1. k \in Nat \ {0}
    BY KeysAssumption, MultiAssumption
  <2> QED
    BY <2>1, <1>0, FindIs
<1>2. CASE k \in nodes
  <2>1. count(k) = Len(r[k])
    BY <1>1, <1>2, RingIs DEF count, Null
  <2>2. Ordered(r[k], own, Order(r)) /\ Distinct(r[k])
    BY <1>2, RingOrdered, RingFacts
  <2> HIDE DEF own
  <2>3. Cardinality(own) = Len(r[k])
    BY <2>2, DistinctSize DEF Ordered
  <2> QED
    BY <2>1, <2>3 DEF own
<1>3. CASE k \notin nodes
  <2>1. own = {}
    BY <1>3 DEF Rings
  <2>2. count(k) = 0
    BY <1>1, <1>3 DEF count, Null
  <2> QED
    BY <2>1, <2>2, FS_EmptySet
<1> QED
  BY <1>2, <1>3

(* ++ leads to the next element in order, and -- back. *)
LEMMA WalkIs ==
  ASSUME Shape, Ends, NEW r, Rings(r), elements \subseteq Element,
         NEW all, Ordered(all, elements, Order(r)), NEW i \in 1 .. Len(all),
         NEW next, next = IF i = Len(all) THEN NoElement ELSE all[i + 1]
  PROVE  increment(all[i]) = next /\ MultiBefore(next) = all[i]
<1> DEFINE W == Order(r)
<1>1. /\ all \in Seq(elements) /\ Len(all) \in Nat
      /\ \A j \in 1 .. Len(all) : all[j] \in elements
      /\ \A y \in elements : \E j \in 1 .. Len(all) : all[j] = y
      /\ \A j, m \in 1 .. Len(all) : j < m => <<all[j], all[m]>> \in W
  BY DEF Ordered, Has
<1>2. OneWay(elements, W) /\ NoElement \notin elements
  BY OrderOneWay, NoElementIsNone
<1>3. Distinct(all)
  BY <1>2, OrderedDistinct
<1>4. \/ increment(all[i]) = NoElement /\ \A d \in elements : <<all[i], d>> \notin W
      \/ Covers(all[i], increment(all[i]), elements, W)
  BY <1>1, IncrementIs
<1> HIDE DEF W
<1>4a. \A j \in 1 .. Len(all) : \A y : Covers(all[j], y, elements, W) => j # Len(all) /\ all[j + 1] = y
  <2>1. Ordered(all, elements, W)
    BY DEF W
  <2> QED
    BY <2>1, <1>2, CoversIsNext
<1>5. CASE i = Len(all)
  <2>1. ~Covers(all[i], increment(all[i]), elements, W)
    BY <1>4a, <1>5
  <2>2. increment(all[i]) = next
    BY <2>1, <1>4, <1>5
  <2>3. /\ MultiBefore(NoElement) \in elements
        /\ \A d \in elements : <<MultiBefore(NoElement), d>> \notin W
    BY <1>1, BeforeEndIs DEF W
  <2>4. PICK j \in 1 .. Len(all) : all[j] = MultiBefore(NoElement)
    BY <2>3, <1>1
  <2>5. j = i
    <3>1. ~(j < i)
      BY <2>3, <2>4, <1>1
    <3> QED
      BY <3>1, <1>1, <1>5
  <2> QED
    BY <2>2, <2>4, <2>5, <1>5
<1>6. CASE i # Len(all)
  <2>1. i + 1 \in 1 .. Len(all) /\ i < i + 1 /\ next = all[i + 1] /\ i \in Nat
    BY <1>1, <1>6
  <2>2. <<all[i], next>> \in W /\ next \in elements
    BY <2>1, <1>1
  <2>3. Covers(all[i], increment(all[i]), elements, W)
    BY <2>2, <1>4
  <2>4. increment(all[i]) = next
    <3> DEFINE y == increment(all[i])
    <3>1. all[i + 1] = y
      <4> HIDE DEF y
      <4>1. Covers(all[i], y, elements, W)
        BY <2>3 DEF y
      <4> QED
        BY <4>1, <1>4a
    <3> QED
      BY <3>1, <2>1
  <2> DEFINE u == MultiBefore(next)
  <2>5. Covers(u, next, elements, W)
    BY <2>2, <1>1, <1>2, BeforeIs DEF W
  <2> HIDE DEF u
  <2>6. PICK j \in 1 .. Len(all) : all[j] = u
    BY <2>5, <1>1 DEF Covers
  <2>7. j # Len(all) /\ all[j + 1] = all[i + 1]
    <3>1. Covers(all[j], all[i + 1], elements, W)
      BY <2>1, <2>5, <2>6
    <3>2. \A y : Covers(all[j], y, elements, W) => j # Len(all) /\ all[j + 1] = y
      BY <1>4a
    <3>3. Covers(all[j], all[i + 1], elements, W) => j # Len(all) /\ all[j + 1] = all[i + 1]
      BY <3>2
    <3> QED
      BY <3>1, <3>3
  <2>8. j + 1 \in 1 .. Len(all)
    BY <2>7, <1>1
  <2>9. j + 1 = i + 1
    BY <2>1, <2>7, <2>8, <1>3 DEF Distinct
  <2>10. j = i
    BY <2>9, <2>1, <1>1
  <2> QED
    BY <2>4, <2>6, <2>10 DEF u
<1> QED
  BY <1>5, <1>6

(* The invariant implies RingsWhole. *)
LEMMA RingsWholeHolds ==
  ASSUME MultiInv
  PROVE  RingsWhole
<1> SUFFICES ASSUME kind = "multi", pc # "clear"
             PROVE  /\ DOMAIN head = nodes
                    /\ \A x \in nodes : head[x] \in elements /\ KeyOf(head[x]) = x
                    /\ \A e \in elements : fwd[bwd[e]] = e /\ bwd[fwd[e]] = e
                    /\ mSize = Cardinality(elements)
                    /\ \A k \in MultiKeys : count(k) = Cardinality({e \in elements : KeyOf(e) = k})
                    /\ \E all \in {Contents} :
                         /\ Range(all) = elements
                         /\ \A i \in 1 .. Len(all) :
                              LET next == IF i = Len(all) THEN NoElement ELSE all[i + 1]
                              IN  increment(all[i]) = next /\ MultiBefore(next) = all[i]
  BY DEF RingsWhole
<1>1. Shape /\ Ends /\ elements \subseteq Element /\ mSize = Cardinality(elements)
  BY DEF MultiInv, RbInv, TreeInv, RingInv
<1>2. PICK r : Rings(r)
  BY DEF MultiInv, RingInv
<1>3. DOMAIN head = nodes
  BY <1>2 DEF Rings
<1>4. ASSUME NEW x \in nodes PROVE head[x] \in elements /\ KeyOf(head[x]) = x
  <2>1. head[x] = r[x][1] /\ 1 \in 1 .. Len(r[x])
    BY <1>1, <1>2, RingFacts DEF Rings
  <2> QED
    BY <2>1, <1>1, <1>2, RingFacts
<1>5. ASSUME NEW e \in elements PROVE fwd[bwd[e]] = e /\ bwd[fwd[e]] = e
  <2> DEFINE s == r[KeyOf(e)]
             p == PlaceIn(s, e)
  <2>1. KeyOf(e) \in nodes /\ p \in 1 .. Len(s) /\ s[p] = e /\ Len(s) \in Nat
    BY <1>1, <1>2, RingFacts
  <2>2. \A i \in 1 .. Len(s) : /\ fwd[s[i]] = s[IF i = Len(s) THEN 1 ELSE i + 1]
                               /\ bwd[s[i]] = s[IF i = 1 THEN Len(s) ELSE i - 1]
    BY <2>1, <1>2 DEF Rings, IsRing
  <2> HIDE DEF s, p
  <2> DEFINE a == IF p = Len(s) THEN 1 ELSE p + 1
             b == IF p = 1 THEN Len(s) ELSE p - 1
  <2>3. a \in 1 .. Len(s) /\ b \in 1 .. Len(s)
    BY <2>1
  <2>4. /\ fwd[e] = s[a] /\ bwd[e] = s[b]
        /\ bwd[s[a]] = s[IF a = 1 THEN Len(s) ELSE a - 1]
        /\ fwd[s[b]] = s[IF b = Len(s) THEN 1 ELSE b + 1]
    BY <2>1, <2>2, <2>3
  <2>5. (IF a = 1 THEN Len(s) ELSE a - 1) = p /\ (IF b = Len(s) THEN 1 ELSE b + 1) = p
    BY <2>1
  <2> HIDE DEF a, b
  <2> QED
    BY <2>1, <2>4, <2>5
<1>6. \A k \in MultiKeys : count(k) = Cardinality({e \in elements : KeyOf(e) = k})
  BY <1>1, <1>2, CountIs
<1>7. Ordered(Contents, elements, Order(r))
  BY <1>1, <1>2, ContentsIs
<1>8. \E all \in {Contents} :
        /\ Range(all) = elements
        /\ \A i \in 1 .. Len(all) :
             LET next == IF i = Len(all) THEN NoElement ELSE all[i + 1]
             IN  increment(all[i]) = next /\ MultiBefore(next) = all[i]
  <2> DEFINE all == Contents
  <2> HIDE DEF all
  <2>1. Ordered(all, elements, Order(r))
    BY <1>7 DEF all
  <2>2. Range(all) = elements
    BY <2>1 DEF Ordered, Range, Has
  <2>3. \A i \in 1 .. Len(all) :
          LET next == IF i = Len(all) THEN NoElement ELSE all[i + 1]
          IN  increment(all[i]) = next /\ MultiBefore(next) = all[i]
    BY <2>1, <1>1, <1>2, WalkIs
  <2>4. all = Contents
    BY DEF all
  <2> QED
    BY <2>2, <2>3, <2>4
<1> QED
  BY <1>1, <1>3, <1>4, <1>5, <1>6, <1>8

(* The rings whose node is not concerned stay. *)
LEMMA OtherRing ==
  ASSUME Shape, NEW r, Rings(r), NEW x \in nodes,
         \A e \in elements : KeyOf(e) = x => e \in elements' /\ fwd'[e] = fwd[e] /\ bwd'[e] = bwd[e],
         \A e \in elements' : e \notin elements => KeyOf(e) # x
  PROVE  /\ r[x] \in Seq(elements') /\ IsRing(r[x], fwd', bwd')
         /\ \A e \in elements' : Has(r[x], e) <=> KeyOf(e) = x
<1>1. /\ r[x] \in Seq(elements) /\ IsRing(r[x], fwd, bwd)
      /\ \A e \in elements : Has(r[x], e) <=> KeyOf(e) = x
  BY DEF Rings
<1>2. Len(r[x]) \in Nat /\ \A i \in 1 .. Len(r[x]) : r[x][i] \in elements /\ KeyOf(r[x][i]) = x
  BY RingFacts
<1>3. \A i \in 1 .. Len(r[x]) : /\ r[x][i] \in elements'
                                /\ fwd'[r[x][i]] = fwd[r[x][i]] /\ bwd'[r[x][i]] = bwd[r[x][i]]
  BY <1>2
<1>4. IsRing(r[x], fwd', bwd')
  BY <1>1, <1>3, RingKept
<1>5. r[x] \in Seq(elements')
  BY <1>1, <1>2, <1>3
<1>6. ASSUME NEW e \in elements' PROVE Has(r[x], e) <=> KeyOf(e) = x
  <2>1. CASE e \in elements
    BY <2>1, <1>1
  <2>2. CASE e \notin elements
    <3>1. KeyOf(e) # x
      BY <2>2
    <3>2. ~Has(r[x], e)
      BY <2>2, <1>2 DEF Has
    <3> QED
      BY <3>1, <3>2
  <2> QED
    BY <2>1, <2>2
<1> QED
  BY <1>4, <1>5, <1>6

(* A new ring of one. *)
LEMMA RingsAlone ==
  ASSUME Shape, NEW r, Rings(r), NEW k, k \notin nodes, nodes' = nodes \cup {k},
         NEW e, e \notin elements, KeyOf(e) = k, LinkAlone(e),
         NEW r2, r2 = [x \in nodes' |-> IF x = k THEN <<e>> ELSE r[x]]
  PROVE  Rings(r2)'
<1>1. /\ elements' = elements \cup {e}
      /\ fwd' = [x \in elements' |-> IF x = e THEN e ELSE fwd[x]]
      /\ bwd' = [x \in elements' |-> IF x = e THEN e ELSE bwd[x]]
      /\ head' = [x \in nodes' |-> IF x = k THEN e ELSE head[x]]
  BY DEF LinkAlone
<1>2. /\ DOMAIN head = nodes /\ \A d \in elements : KeyOf(d) \in nodes
      /\ \A x \in nodes : head[x] = r[x][1]
  BY DEF Rings
<1>3. DOMAIN head' = nodes' /\ \A d \in elements' : KeyOf(d) \in nodes'
  BY <1>1, <1>2
<1>4. /\ r2[k] = <<e>> /\ \A x \in nodes : r2[x] = r[x] /\ head'[x] = head[x] /\ x # k
      /\ head'[k] = e
  BY <1>1
<1>5. \A d \in elements : d \in elements' /\ d # e /\ fwd'[d] = fwd[d] /\ bwd'[d] = bwd[d]
  BY <1>1
<1>6. e \in elements' /\ fwd'[e] = e /\ bwd'[e] = e
  BY <1>1
<1>7. ASSUME NEW x \in nodes
      PROVE  /\ r2[x] \in Seq(elements')
             /\ \A d \in elements' : Has(r2[x], d) <=> KeyOf(d) = x
             /\ IsRing(r2[x], fwd', bwd')
             /\ head'[x] = r2[x][1]
  <2>1. \A d \in elements' : d \notin elements => KeyOf(d) # x
    BY <1>1
  <2>2. /\ r[x] \in Seq(elements') /\ IsRing(r[x], fwd', bwd')
        /\ \A d \in elements' : Has(r[x], d) <=> KeyOf(d) = x
    BY <2>1, <1>5, OtherRing
  <2> QED
    BY <2>2, <1>2, <1>4
<1>8. /\ r2[k] \in Seq(elements')
      /\ \A d \in elements' : Has(r2[k], d) <=> KeyOf(d) = k
      /\ IsRing(r2[k], fwd', bwd')
      /\ head'[k] = r2[k][1]
  <2>1. IsRing(<<e>>, fwd', bwd')
    BY <1>6, RingAlone
  <2>2. <<e>> \in Seq(elements') /\ <<e>>[1] = e /\ Len(<<e>>) = 1
    BY <1>6
  <2>3. \A d \in elements' : Has(<<e>>, d) <=> KeyOf(d) = k
    <3>1. \A d \in elements' : d = e <=> KeyOf(d) = k
      BY <1>1, <1>2
    <3>2. \A d : Has(<<e>>, d) <=> d = e
      BY <2>2 DEF Has
    <3> QED
      BY <3>1, <3>2
  <2> QED
    BY <2>1, <2>2, <2>3, <1>4
<1> QED
  BY <1>3, <1>7, <1>8 DEF Rings

(* A new element between two others of a ring. *)
LEMMA RingsGrown ==
  ASSUME Shape, NEW r, Rings(r), NEW k \in nodes, nodes' = nodes,
         NEW e, e \notin elements, KeyOf(e) = k,
         NEW j \in 1 .. Len(r[k]) + 1, NEW b, NEW a,
         b = r[k][IF j = 1 THEN Len(r[k]) ELSE j - 1],
         a = r[k][IF j = Len(r[k]) + 1 THEN 1 ELSE j],
         LinkBetween(e, b, a),
         DOMAIN head' = nodes, \A x \in nodes : head'[x] = IF x = k /\ j = 1 THEN e ELSE head[x],
         NEW r2, r2 = [x \in nodes |-> IF x = k THEN Inserted(r[k], j, e) ELSE r[x]]
  PROVE  Rings(r2)'
<1> DEFINE s == r[k]
           m == Len(s)
           t == Inserted(s, j, e)
<1>0. /\ m \in Nat /\ m >= 1 /\ \A i \in 1 .. m : s[i] \in elements /\ KeyOf(s[i]) = k
      /\ s \in Seq(elements) /\ IsRing(s, fwd, bwd) /\ head[k] = s[1]
      /\ \A d \in elements : Has(s, d) <=> KeyOf(d) = k
      /\ j \in Nat /\ 1 <= j /\ j <= m + 1
  <2>1. /\ m \in Nat /\ m >= 1 /\ \A i \in 1 .. m : s[i] \in elements /\ KeyOf(s[i]) = k
    BY RingFacts
  <2>2. /\ s \in Seq(elements) /\ IsRing(s, fwd, bwd) /\ head[k] = s[1]
        /\ \A d \in elements : Has(s, d) <=> KeyOf(d) = k
    BY DEF Rings
  <2> QED
    BY <2>1, <2>2
<1>0a. b \in elements /\ a \in elements /\ KeyOf(b) = k /\ KeyOf(a) = k
  <2>1. (IF j = 1 THEN m ELSE j - 1) \in 1 .. m /\ (IF j = m + 1 THEN 1 ELSE j) \in 1 .. m
    BY <1>0
  <2> QED
    BY <2>1, <1>0
<1>1. /\ elements' = elements \cup {e}
      /\ fwd' = [x \in elements' |-> IF x = e THEN a ELSE IF x = b THEN e ELSE fwd[x]]
      /\ bwd' = [x \in elements' |-> IF x = e THEN b ELSE IF x = a THEN e ELSE bwd[x]]
  BY DEF LinkBetween
<1>2. /\ \A d \in elements : KeyOf(d) \in nodes
      /\ \A x \in nodes : head[x] = r[x][1]
  BY DEF Rings
<1>3. DOMAIN head' = nodes' /\ \A d \in elements' : KeyOf(d) \in nodes'
  BY <1>1, <1>2
<1>4. r2[k] = t /\ \A x \in nodes : x # k => r2[x] = r[x]
  OBVIOUS
<1>5. /\ \A d \in elements : d \in elements' /\ d # e
      /\ \A d \in elements : KeyOf(d) # k => fwd'[d] = fwd[d] /\ bwd'[d] = bwd[d]
  BY <1>0a, <1>1
<1>6. e \in elements' /\ fwd'[e] = a /\ bwd'[e] = b
  BY <1>1
<1>7. ASSUME NEW x \in nodes, x # k
      PROVE  /\ r2[x] \in Seq(elements')
             /\ \A d \in elements' : Has(r2[x], d) <=> KeyOf(d) = x
             /\ IsRing(r2[x], fwd', bwd')
             /\ head'[x] = r2[x][1]
  <2>1. \A d \in elements' : d \notin elements => KeyOf(d) # x
    BY <1>1, <1>7
  <2>2. /\ r[x] \in Seq(elements') /\ IsRing(r[x], fwd', bwd')
        /\ \A d \in elements' : Has(r[x], d) <=> KeyOf(d) = x
    BY <2>1, <1>5, <1>7, OtherRing
  <2> QED
    BY <2>2, <1>2, <1>4, <1>7
<1>8. /\ t \in Seq(elements')
      /\ \A d \in elements' : Has(t, d) <=> KeyOf(d) = k
      /\ IsRing(t, fwd', bwd')
      /\ head'[k] = t[1]
  <2>1. /\ t \in Seq(elements') /\ Len(t) = m + 1
        /\ \A i \in 1 .. m + 1 : t[i] = IF i < j THEN s[i] ELSE IF i = j THEN e ELSE s[i - 1]
    <3>1. s \in Seq(elements') /\ j \in 1 .. Len(s) + 1
      BY <1>0, <1>5
    <3> HIDE DEF s
    <3> QED
      BY <3>1, <1>6, InsertedSeq
  <2>2. IsRing(t, fwd', bwd')
    <3>1. ~Has(s, e)
      BY <1>0 DEF Has
    <3>2. \A i \in 1 .. Len(s) : /\ fwd'[s[i]] = IF s[i] = b THEN e ELSE fwd[s[i]]
                                 /\ bwd'[s[i]] = IF s[i] = a THEN e ELSE bwd[s[i]]
      BY <1>0, <1>1
    <3>3. s \in Seq(elements')
      BY <1>0, <1>5
    <3>4. /\ b = s[IF j = 1 THEN Len(s) ELSE j - 1]
          /\ a = s[IF j = Len(s) + 1 THEN 1 ELSE j] /\ j \in 1 .. Len(s) + 1
      OBVIOUS
    <3> HIDE DEF s
    <3> QED
      BY <3>1, <3>2, <3>3, <3>4, <1>0, <1>6, RingInserted
  <2>3. head'[k] = t[1]
    <3>1. 1 \in 1 .. m + 1 /\ t[1] = IF 1 < j THEN s[1] ELSE IF 1 = j THEN e ELSE s[0]
      BY <2>1, <1>0
    <3>2. j = 1 \/ 1 < j
      BY <1>0
    <3> HIDE DEF s, t
    <3> QED
      BY <3>1, <3>2, <1>0
  <2>4. ASSUME NEW d \in elements' PROVE Has(t, d) <=> KeyOf(d) = k
    <3> HIDE DEF t, s
    <3>1. CASE d = e
      <4>1. j \in 1 .. m + 1 /\ t[j] = e
        BY <2>1, <1>0 DEF s
      <4> QED
        BY <4>1, <3>1, <2>1 DEF Has
    <3>2. CASE d # e
      <4>1. d \in elements
        BY <3>2, <1>1
      <4>2. Has(t, d) => Has(s, d)
        <5> SUFFICES ASSUME NEW i \in 1 .. m + 1, t[i] = d PROVE Has(s, d)
          BY <2>1 DEF Has
        <5>1. CASE i < j
          <6>1. i \in 1 .. m /\ s[i] = d
            BY <5>1, <2>1, <1>0 DEF s
          <6> QED
            BY <6>1 DEF Has
        <5>2. CASE ~(i < j)
          <6>1. i # j
            BY <3>2, <2>1, <5>2
          <6>2. i - 1 \in 1 .. m /\ s[i - 1] = d
            BY <5>2, <6>1, <2>1, <1>0 DEF s
          <6> QED
            BY <6>2 DEF Has
        <5> QED
          BY <5>1, <5>2
      <4>3. Has(s, d) => Has(t, d)
        <5> SUFFICES ASSUME NEW i \in 1 .. m, s[i] = d PROVE Has(t, d)
          BY DEF Has
        <5>1. i \in 1 .. m + 1 /\ i + 1 \in 1 .. m + 1 /\ ~(i + 1 < i) /\ i + 1 - 1 = i
          BY <1>0
        <5>2. CASE i < j
          BY <5>1, <5>2, <2>1 DEF Has
        <5>3. CASE ~(i < j)
          <6>1. ~(i + 1 < j) /\ i + 1 # j
            BY <5>1, <5>3, <1>0 DEF s
          <6>2. t[i + 1] = s[i]
            BY <6>1, <5>1, <2>1
          <6> QED
            BY <6>2, <5>1, <2>1 DEF Has
        <5> QED
          BY <5>2, <5>3
      <4> QED
        BY <4>1, <4>2, <4>3, <1>0
    <3> QED
      BY <3>1, <3>2
  <2> QED
    BY <2>1, <2>2, <2>3, <2>4
<1>9. \A x \in nodes' :
        /\ r2[x] \in Seq(elements')
        /\ \A d \in elements' : Has(r2[x], d) <=> KeyOf(d) = x
        /\ IsRing(r2[x], fwd', bwd')
        /\ head'[x] = r2[x][1]
  <2> HIDE DEF t
  <2> QED
    BY <1>4, <1>7, <1>8
<1> QED
  BY <1>3, <1>9 DEF Rings

(* An element leaves a ring that has others. *)
LEMMA RingsShrunk ==
  ASSUME Shape, NEW r, Rings(r), NEW k \in nodes, nodes' = nodes, Len(r[k]) >= 2,
         NEW j \in 1 .. Len(r[k]), NEW e, e = r[k][j],
         elements' = elements \ {e},
         fwd' = [x \in elements' |-> IF x = bwd[e] THEN fwd[e] ELSE fwd[x]],
         bwd' = [x \in elements' |-> IF x = fwd[e] THEN bwd[e] ELSE bwd[x]],
         head' = [x \in nodes |-> IF head[x] = e THEN fwd[e] ELSE head[x]],
         NEW r2, r2 = [x \in nodes |-> IF x = k THEN Without(r[k], j) ELSE r[x]]
  PROVE  Rings(r2)'
<1> DEFINE s == r[k]
           m == Len(s)
           t == Without(s, j)
<1>0. /\ m \in Nat /\ m >= 2 /\ \A i \in 1 .. m : s[i] \in elements /\ KeyOf(s[i]) = k
      /\ s \in Seq(elements) /\ IsRing(s, fwd, bwd) /\ head[k] = s[1] /\ Distinct(s)
      /\ \A d \in elements : Has(s, d) <=> KeyOf(d) = k
      /\ j \in Nat /\ 1 <= j /\ j <= m /\ e = s[j] /\ e \in elements /\ KeyOf(e) = k
  BY RingFacts DEF Rings
<1>0a. /\ fwd[e] = s[IF j = m THEN 1 ELSE j + 1] /\ bwd[e] = s[IF j = 1 THEN m ELSE j - 1]
       /\ \A i \in 1 .. m : i # j => s[i] # e
  BY <1>0 DEF IsRing, Distinct
<1>0b. fwd[e] \in elements /\ bwd[e] \in elements /\ KeyOf(fwd[e]) = k /\ KeyOf(bwd[e]) = k
  <2>1. (IF j = m THEN 1 ELSE j + 1) \in 1 .. m /\ (IF j = 1 THEN m ELSE j - 1) \in 1 .. m
    BY <1>0
  <2> HIDE DEF s
  <2> QED
    BY <2>1, <1>0, <1>0a
<1>2. /\ \A d \in elements : KeyOf(d) \in nodes
      /\ \A x \in nodes : head[x] = r[x][1]
  BY DEF Rings
<1>3. DOMAIN head' = nodes' /\ \A d \in elements' : KeyOf(d) \in nodes'
  BY <1>2
<1>4. r2[k] = t /\ \A x \in nodes : x # k => r2[x] = r[x]
  OBVIOUS
<1>5. \A d \in elements : KeyOf(d) # k => d \in elements' /\ fwd'[d] = fwd[d] /\ bwd'[d] = bwd[d]
  BY <1>0, <1>0b
<1>7. ASSUME NEW x \in nodes, x # k
      PROVE  /\ r2[x] \in Seq(elements')
             /\ \A d \in elements' : Has(r2[x], d) <=> KeyOf(d) = x
             /\ IsRing(r2[x], fwd', bwd')
             /\ head'[x] = r2[x][1]
  <2>1. \A d \in elements' : d \notin elements => KeyOf(d) # x
    OBVIOUS
  <2>2. /\ r[x] \in Seq(elements') /\ IsRing(r[x], fwd', bwd')
        /\ \A d \in elements' : Has(r[x], d) <=> KeyOf(d) = x
    <3>1. \A d \in elements : KeyOf(d) = x => d \in elements' /\ fwd'[d] = fwd[d] /\ bwd'[d] = bwd[d]
      BY <1>5, <1>7
    <3> QED
      BY ONLY <2>1, <3>1, Shape, Rings(r), x \in nodes, OtherRing
  <2>3. head[x] # e
    <3>1. 1 \in 1 .. Len(r[x]) /\ KeyOf(r[x][1]) = x
      BY RingFacts
    <3> QED
      BY <3>1, <1>0, <1>2, <1>7
  <2>4. head'[x] = head[x]
    BY <2>3
  <2> QED
    BY <2>2, <2>4, <1>2, <1>4, <1>7
<1>8. /\ t \in Seq(elements')
      /\ \A d \in elements' : Has(t, d) <=> KeyOf(d) = k
      /\ IsRing(t, fwd', bwd')
      /\ head'[k] = t[1]
  <2>1. /\ Len(t) = m - 1 /\ \A i \in 1 .. m - 1 : t[i] = IF i < j THEN s[i] ELSE s[i + 1]
        /\ t \in Seq(elements)
    <3>1. s \in Seq(elements) /\ j \in 1 .. Len(s)
      BY <1>0
    <3> HIDE DEF s
    <3> QED
      BY <3>1, WithoutSeq
  <2> HIDE DEF t
  <2>1a. \A i \in 1 .. m - 1 : t[i] # e
    <3> TAKE i \in 1 .. m - 1
    <3>1. i < j => i \in 1 .. m /\ i # j /\ t[i] = s[i]
      BY <2>1, <1>0
    <3>2. ~(i < j) => i + 1 \in 1 .. m /\ i + 1 # j /\ t[i] = s[i + 1]
      BY <2>1, <1>0
    <3> QED
      BY <3>1, <3>2, <1>0a
  <2>1b. t \in Seq(elements')
    <3>1. \A i \in 1 .. Len(t) : t[i] \in elements'
      BY <2>1, <2>1a
    <3> QED
      BY <2>1, <3>1
  <2>2. IsRing(t, fwd', bwd')
    <3>2. \A i \in 1 .. Len(s) : i # j =>
            /\ fwd'[s[i]] = IF s[i] = bwd[s[j]] THEN fwd[s[j]] ELSE fwd[s[i]]
            /\ bwd'[s[i]] = IF s[i] = fwd[s[j]] THEN bwd[s[j]] ELSE bwd[s[i]]
      BY <1>0, <1>0a
    <3>3. s \in Seq(elements) /\ j \in 1 .. Len(s) /\ Len(s) >= 2
      BY <1>0
    <3> HIDE DEF s
    <3>4. IsRing(Without(s, j), fwd', bwd')
      BY ONLY <3>2, <3>3, <1>0, RingWithout
    <3> QED
      BY <3>4 DEF t
  <2>3. head'[k] = t[1]
    <3>1. 1 \in 1 .. m - 1 /\ 1 \in 1 .. m /\ t[1] = IF 1 < j THEN s[1] ELSE s[2]
      BY <2>1, <1>0
    <3>2. j = 1 => s[1] = e /\ fwd[e] = s[2]
      BY <1>0, <1>0a
    <3>3. j # 1 => s[1] # e /\ 1 < j
      BY <3>1, <1>0, <1>0a
    <3> HIDE DEF s
    <3>4. head'[k] = IF s[1] = e THEN fwd[e] ELSE s[1]
      BY <1>0
    <3> QED
      BY <3>1, <3>2, <3>3, <3>4
  <2>4. ASSUME NEW d \in elements' PROVE Has(t, d) <=> KeyOf(d) = k
    <3>1. d \in elements /\ d # e
      OBVIOUS
    <3> HIDE DEF s
    <3>2. Has(t, d) => Has(s, d)
      <4> SUFFICES ASSUME NEW i \in 1 .. m - 1, t[i] = d PROVE Has(s, d)
        BY <2>1 DEF Has
      <4>1. i \in 1 .. m /\ i + 1 \in 1 .. m
        BY <1>0
      <4> QED
        BY <4>1, <2>1 DEF Has
    <3>3. Has(s, d) => Has(t, d)
      <4> SUFFICES ASSUME NEW i \in 1 .. m, s[i] = d PROVE Has(t, d)
        BY DEF Has
      <4>1. i # j
        BY <3>1, <1>0
      <4>2. CASE i < j
        <5>1. i \in 1 .. m - 1
          BY <4>2, <1>0
        <5> QED
          BY <5>1, <4>2, <2>1 DEF Has
      <4>3. CASE ~(i < j)
        <5>1. i - 1 \in 1 .. m - 1 /\ ~(i - 1 < j) /\ i - 1 + 1 = i
          BY <4>1, <4>3, <1>0
        <5> QED
          BY <5>1, <2>1 DEF Has
      <4> QED
        BY <4>2, <4>3
    <3> QED
      BY <3>1, <3>2, <3>3, <1>0
  <2> QED
    BY <2>1b, <2>2, <2>3, <2>4
<1>9. \A x \in nodes' :
        /\ r2[x] \in Seq(elements')
        /\ \A d \in elements' : Has(r2[x], d) <=> KeyOf(d) = x
        /\ IsRing(r2[x], fwd', bwd')
        /\ head'[x] = r2[x][1]
  <2> HIDE DEF t
  <2> QED
    BY <1>4, <1>7, <1>8
<1> QED
  BY <1>3, <1>9 DEF Rings

(* A ring leaves with its node. *)
LEMMA RingsGone ==
  ASSUME Shape, NEW r, Rings(r), NEW k \in nodes, nodes' = nodes \ {k},
         elements' = elements \ {e \in elements : KeyOf(e) = k},
         \A d \in elements' : fwd'[d] = fwd[d] /\ bwd'[d] = bwd[d],
         DOMAIN head' = nodes', \A x \in nodes' : head'[x] = head[x]
  PROVE  Rings(r)'
<1>1. \A d \in elements : KeyOf(d) \in nodes
  BY DEF Rings
<1>2. \A d \in elements' : KeyOf(d) \in nodes'
  BY <1>1
<1>3. ASSUME NEW x \in nodes'
      PROVE  /\ r[x] \in Seq(elements')
             /\ \A d \in elements' : Has(r[x], d) <=> KeyOf(d) = x
             /\ IsRing(r[x], fwd', bwd')
             /\ head'[x] = r[x][1]
  <2>1. x \in nodes /\ x # k /\ head'[x] = r[x][1]
    BY DEF Rings
  <2>2. \A e \in elements : KeyOf(e) = x => e \in elements' /\ fwd'[e] = fwd[e] /\ bwd'[e] = bwd[e]
    BY <2>1
  <2>3. \A e \in elements' : e \notin elements => KeyOf(e) # x
    OBVIOUS
  <2> QED
    BY <2>1, <2>2, <2>3, OtherRing
<1> QED
  BY <1>2, <1>3 DEF Rings

(* A sequence without repetition has each element at one place. *)
LEMMA PlaceInIs ==
  ASSUME NEW s, Distinct(s), NEW i \in 1 .. Len(s)
  PROVE  PlaceIn(s, s[i]) = i
<1>1. \A j \in 1 .. Len(s) : s[j] = s[i] => j = i
  BY DEF Distinct
<1> QED
  BY <1>1 DEF PlaceIn

(* A new element e with key k has place j, and those of its ring behind it go one up. *)
Grows(r, r2, k, e, j) ==
  /\ j \in Nat /\ PlaceIn(r2[k], e) = j
  /\ \A d \in elements :
       PlaceIn(r2[KeyOf(d)], d) = IF KeyOf(d) = k /\ j <= PlaceIn(r[k], d)
                                  THEN PlaceIn(r[KeyOf(d)], d) + 1 ELSE PlaceIn(r[KeyOf(d)], d)

(* A ring of its own, or a place in one that there is. *)
LEMMA AlonePlaces ==
  ASSUME Shape, NEW r, Rings(r), NEW k, k \notin nodes, NEW e, NEW r2,
         r2[k] = <<e>>, \A x \in nodes : r2[x] = r[x]
  PROVE  Grows(r, r2, k, e, 1)
<1>1. \A d \in elements : KeyOf(d) \in nodes /\ KeyOf(d) # k
  BY DEF Rings
<1>2. PlaceIn(<<e>>, e) = 1
  <2>1. Len(<<e>>) = 1 /\ <<e>>[1] = e /\ 1 .. 1 = {1}
    OBVIOUS
  <2> QED
    BY <2>1 DEF PlaceIn
<1> QED
  BY <1>1, <1>2 DEF Grows

LEMMA GrownPlaces ==
  ASSUME Shape, NEW r, Rings(r), NEW k \in nodes, NEW e, e \notin elements,
         NEW j \in 1 .. Len(r[k]) + 1, NEW L, r[k] \in Seq(L), e \in L,
         NEW r2, r2[k] = Inserted(r[k], j, e), \A x \in nodes : x # k => r2[x] = r[x],
         Distinct(r2[k])
  PROVE  Grows(r, r2, k, e, j)
<1> DEFINE s == r[k]
           t == Inserted(s, j, e)
           m == Len(s)
<1>1. /\ m \in Nat /\ j \in Nat /\ 1 <= j /\ j <= m + 1
      /\ \A i \in 1 .. m : s[i] \in elements /\ KeyOf(s[i]) = k /\ PlaceIn(s, s[i]) = i
  BY RingFacts
<1>2. /\ Len(t) = m + 1 /\ Distinct(t)
      /\ \A i \in 1 .. m + 1 : t[i] = IF i < j THEN s[i] ELSE IF i = j THEN e ELSE s[i - 1]
  <2>1. s \in Seq(L) /\ j \in 1 .. Len(s) + 1 /\ Distinct(t)
    OBVIOUS
  <2> HIDE DEF s
  <2> QED
    BY <2>1, InsertedSeq
<1>2a. \A i \in 1 .. m + 1 : PlaceIn(t, t[i]) = i
  <2> HIDE DEF t
  <2> QED
    BY <1>2, PlaceInIs
<1> HIDE DEF t
<1>3. PlaceIn(t, e) = j
  <2>1. j \in 1 .. m + 1 /\ t[j] = e
    BY <1>1, <1>2
  <2> QED
    BY <2>1, <1>2a
<1>4. ASSUME NEW i \in 1 .. m
      PROVE  PlaceIn(t, s[i]) = IF j <= i THEN i + 1 ELSE i
  <2>1. CASE j <= i
    <3>1. i + 1 \in 1 .. m + 1 /\ ~(i + 1 < j) /\ i + 1 # j /\ i + 1 - 1 = i
      BY <2>1, <1>1
    <3>2. t[i + 1] = s[i]
      BY <3>1, <1>2
    <3> QED
      BY <3>1, <3>2, <2>1, <1>2a
  <2>2. CASE ~(j <= i)
    <3>1. i \in 1 .. m + 1 /\ i < j
      BY <2>2, <1>1
    <3>2. t[i] = s[i]
      BY <3>1, <1>2
    <3> QED
      BY <3>1, <3>2, <2>2, <1>2a
  <2> QED
    BY <2>1, <2>2
<1>5. ASSUME NEW d \in elements
      PROVE  PlaceIn(r2[KeyOf(d)], d) = IF KeyOf(d) = k /\ j <= PlaceIn(r[k], d)
                                        THEN PlaceIn(r[KeyOf(d)], d) + 1 ELSE PlaceIn(r[KeyOf(d)], d)
  <2>1. KeyOf(d) \in nodes /\ PlaceIn(r[KeyOf(d)], d) \in 1 .. Len(r[KeyOf(d)])
        /\ r[KeyOf(d)][PlaceIn(r[KeyOf(d)], d)] = d
    BY RingFacts
  <2>2. CASE KeyOf(d) = k
    <3>1. PlaceIn(s, d) \in 1 .. m /\ s[PlaceIn(s, d)] = d
      BY <2>1, <2>2
    <3>2. PlaceIn(t, s[PlaceIn(s, d)]) = IF j <= PlaceIn(s, d) THEN PlaceIn(s, d) + 1 ELSE PlaceIn(s, d)
      BY <3>1, <1>4
    <3>3. r2[k] = t
      BY DEF t
    <3> QED
      BY <3>1, <3>2, <3>3, <2>2
  <2>3. CASE KeyOf(d) # k
    BY <2>1, <2>3
  <2> QED
    BY <2>2, <2>3
<1>6. r2[k] = t
  BY DEF t
<1> QED
  BY <1>1, <1>3, <1>5, <1>6 DEF Grows

(* What comes before what then. *)
LEMMA GrownOrder ==
  ASSUME Shape, NEW r, Rings(r), NEW k \in Nat, NEW e, KeyOf(e) = k, NEW j, NEW r2,
         Grows(r, r2, k, e, j)
  PROVE  /\ \A d \in elements : \A f \in elements : Precedes(r, d, f) => Precedes(r2, d, f)
         /\ \A d \in elements :
              IF KeyOf(d) < k \/ (KeyOf(d) = k /\ PlaceIn(r[k], d) < j)
              THEN Precedes(r2, d, e) ELSE Precedes(r2, e, d)
<1>1. \A d \in elements : KeyOf(d) \in Nat /\ PlaceIn(r[KeyOf(d)], d) \in Nat
  BY RingFacts
<1>2. ASSUME NEW d \in elements, NEW f \in elements, Precedes(r, d, f)
      PROVE  Precedes(r2, d, f)
  <2>1. CASE KeyOf(d) < KeyOf(f)
    BY <2>1 DEF Precedes
  <2>2. CASE KeyOf(d) = KeyOf(f) /\ PlaceIn(r[KeyOf(d)], d) < PlaceIn(r[KeyOf(f)], f)
    BY <2>2, <1>1 DEF Grows, Precedes
  <2> QED
    BY <1>2, <2>1, <2>2 DEF Precedes
<1>3. ASSUME NEW d \in elements
      PROVE  IF KeyOf(d) < k \/ (KeyOf(d) = k /\ PlaceIn(r[k], d) < j)
             THEN Precedes(r2, d, e) ELSE Precedes(r2, e, d)
  <2>1. CASE KeyOf(d) < k
    BY <2>1 DEF Precedes
  <2>2. CASE k < KeyOf(d)
    <3>1. ~(KeyOf(d) < k) /\ KeyOf(d) # k
      BY <2>2, <1>1
    <3> QED
      BY <2>2, <3>1 DEF Precedes
  <2>3. CASE KeyOf(d) = k
    <3>1. PlaceIn(r[k], d) \in Nat /\ j \in Nat /\ PlaceIn(r2[k], e) = j
      BY <2>3, <1>1 DEF Grows
    <3>2. PlaceIn(r2[k], d) = IF j <= PlaceIn(r[k], d) THEN PlaceIn(r[k], d) + 1 ELSE PlaceIn(r[k], d)
      BY <2>3 DEF Grows
    <3> QED
      BY <2>3, <3>1, <3>2 DEF Precedes
  <2> QED
    BY <2>1, <2>2, <2>3, <1>1
<1> QED
  BY <1>2, <1>3

(* There is a new element for every key that has room. *)
LEMMA NewElementIs ==
  ASSUME elements \subseteq Element, IsFiniteSet(elements), NEW k \in MultiKeys, HasRoom(k)
  PROVE  NewElement(k) \in Element \ elements /\ KeyOf(NewElement(k)) = k
<1> DEFINE own == {e \in elements : KeyOf(e) = k}
           S == {i \in Nat : i \in 1 .. Equals /\ <<k, i>> \notin elements}
<1>0. Equals \in Nat /\ Cardinality(own) < Equals
  BY MultiAssumption DEF HasRoom
<1>1. S # {}
  <2> SUFFICES ASSUME S = {} PROVE FALSE
    OBVIOUS
  <2>1. \A i \in 1 .. Equals : <<k, i>> \in own
    BY <1>0 DEF KeyOf
  <2> DEFINE f == [i \in 1 .. Equals |-> <<k, i>>]
  <2>2. f \in Injection(1 .. Equals, own)
    <3>1. f \in [1 .. Equals -> own]
      BY <2>1
    <3>2. \A a, b \in 1 .. Equals : f[a] = f[b] => a = b
      OBVIOUS
    <3> HIDE DEF f, own
    <3> QED
      BY <3>1, <3>2 DEF Injection, IsInjective
  <2>3. IsFiniteSet(own) /\ Cardinality(own) \in Nat
    BY FS_Subset, FS_CardinalityType
  <2>4. Cardinality(1 .. Equals) <= Cardinality(own)
    <3> HIDE DEF f, own
    <3> QED
      BY <2>2, <2>3, FS_Injection DEF ExistsInjection
  <2>5. Cardinality(1 .. Equals) = Equals
    <3>1. 1 \in Int /\ Equals \in Int
      BY <1>0
    <3>2. Cardinality(1 .. Equals) = IF 1 > Equals THEN 0 ELSE Equals - 1 + 1
      BY <3>1, FS_Interval
    <3> QED
      BY <3>2, <1>0
  <2> QED
    BY <2>3, <2>4, <2>5, <1>0
<1>2. PICK i \in S : \A b \in S : i <= b
  <2>1. S \subseteq Nat
    OBVIOUS
  <2> HIDE DEF S
  <2> QED
    BY <1>1, <2>1, Least
<1>3. \E e \in Element \ elements :
        KeyOf(e) = k /\ \A d \in Element \ elements : KeyOf(d) = k => e[2] <= d[2]
  <2>1. <<k, i>> \in Element \ elements /\ KeyOf(<<k, i>>) = k /\ <<k, i>>[2] = i
    BY <1>2 DEF Element, KeyOf
  <2>2. ASSUME NEW d \in Element \ elements, KeyOf(d) = k PROVE i <= d[2]
    <3>1. d = <<k, d[2]>> /\ d[2] \in 1 .. Equals
      BY <2>2 DEF Element, KeyOf
    <3>2. d[2] \in S
      BY <3>1
    <3> QED
      BY <3>2, <1>2
  <2> QED
    BY <2>1, <2>2
<1> QED
  BY <1>3 DEF NewElement

(* The element at a place, or the end. *)
At(c, q) == IF q = Len(c) + 1 THEN NoElement ELSE c[q]

(* What it means that c has the elements in order. *)
LEMMA InOrder ==
  ASSUME Shape, NEW r, Rings(r), NEW c, Ordered(c, elements, Order(r))
  PROVE  /\ c \in Seq(elements) /\ Len(c) \in Nat /\ Distinct(c) /\ Len(c) = Cardinality(elements)
         /\ \A i \in 1 .. Len(c) : c[i] \in elements /\ KeyOf(c[i]) \in nodes /\ KeyOf(c[i]) \in Nat
         /\ \A y \in elements : \E i \in 1 .. Len(c) : c[i] = y
         /\ \A i \in 1 .. Len(c) : \A j \in 1 .. Len(c) : i < j => Precedes(r, c[i], c[j])
<1>1. Distinct(c)
  BY OrderOneWay, OrderedDistinct
<1>2. /\ c \in Seq(elements) /\ Len(c) \in Nat
      /\ \A i \in 1 .. Len(c) : c[i] \in elements
      /\ \A y \in elements : Has(c, y)
      /\ \A i \in 1 .. Len(c) : \A j \in 1 .. Len(c) : i < j => <<c[i], c[j]>> \in Order(r)
  BY DEF Ordered
<1>3. \A i \in 1 .. Len(c) : KeyOf(c[i]) \in nodes /\ KeyOf(c[i]) \in Nat
  BY <1>2, RingFacts
<1>4. \A i \in 1 .. Len(c) : \A j \in 1 .. Len(c) : i < j => Precedes(r, c[i], c[j])
  BY <1>2, OrderIs
<1>5. Len(c) = Cardinality(elements)
  BY <1>1, <1>2, DistinctSize
<1> QED
  BY <1>1, <1>2, <1>3, <1>4, <1>5 DEF Has

(* The head of the first node of an upper part of the tree is the first element
   with a key in that part. *)
LEMMA BoundIs ==
  ASSUME Shape, NEW r, Rings(r), NEW c, Ordered(c, elements, Order(r)),
         NEW B, B \subseteq nodes, \A y \in B : \A z \in nodes : y < z => z \in B
  PROVE  \E q \in 1 .. Len(c) + 1 :
           /\ HeadOf(NextAfter(B)) = At(c, q)
           /\ \A i \in 1 .. Len(c) : i < q <=> KeyOf(c[i]) \notin B
<1>1. /\ Len(c) \in Nat /\ Distinct(c)
      /\ \A i \in 1 .. Len(c) : c[i] \in elements /\ KeyOf(c[i]) \in nodes /\ KeyOf(c[i]) \in Nat
      /\ \A y \in elements : \E i \in 1 .. Len(c) : c[i] = y
      /\ \A i \in 1 .. Len(c) : \A j \in 1 .. Len(c) : i < j => Precedes(r, c[i], c[j])
  BY InOrder
<1> DEFINE y == NextAfter(B)
<1>2. y \in B \cup {0} /\ (y = 0 <=> B = {}) /\ \A z \in B : y <= z
  <2>1. nodes \subseteq Nat \ {0}
    BY ShapeFacts
  <2>2. B \subseteq Nat \ {0}
    BY <2>1
  <2> QED
    BY <2>2, AfterFacts
<1> HIDE DEF y
<1>3. CASE B = {}
  <2>1. Len(c) + 1 \in 1 .. Len(c) + 1 /\ HeadOf(y) = At(c, Len(c) + 1)
    BY <1>1, <1>2, <1>3 DEF HeadOf, Null, At
  <2>2. \A i \in 1 .. Len(c) : i < Len(c) + 1 <=> KeyOf(c[i]) \notin B
    BY <1>1, <1>3
  <2> QED
    BY <2>1, <2>2 DEF y
<1>4. CASE B # {}
  <2>1. y \in B /\ y \in nodes /\ y # 0
    BY <1>2, <1>4
  <2>2. /\ HeadOf(y) = r[y][1] /\ r[y][1] \in elements /\ KeyOf(r[y][1]) = y
        /\ PlaceIn(r[y], r[y][1]) = 1
    <3>1. HeadOf(y) = r[y][1]
      BY <2>1 DEF HeadOf, Null, Rings
    <3>2. 1 \in 1 .. Len(r[y])
      BY <2>1, RingFacts
    <3> QED
      BY <2>1, <3>1, <3>2, RingFacts
  <2>3. PICK q \in 1 .. Len(c) : c[q] = r[y][1]
    BY <2>2, <1>1
  <2>4. KeyOf(c[q]) = y /\ PlaceIn(r[y], c[q]) = 1 /\ HeadOf(y) = c[q]
    BY <2>2, <2>3
  <2>5. q \in 1 .. Len(c) + 1 /\ q # Len(c) + 1
    BY <1>1
  <2>6. HeadOf(y) = At(c, q)
    BY <2>4, <2>5 DEF At
  <2>7. ASSUME NEW i \in 1 .. Len(c), i < q PROVE KeyOf(c[i]) \notin B
    <3>1. Precedes(r, c[i], c[q])
      BY <2>7, <1>1
    <3>2. ~(PlaceIn(r[KeyOf(c[i])], c[i]) < 1)
      <4>1. PlaceIn(r[KeyOf(c[i])], c[i]) \in 1 .. Len(r[KeyOf(c[i])])
        BY <1>1, RingFacts
      <4> QED
        BY <4>1
    <3>3. KeyOf(c[i]) < y
      BY <3>1, <3>2, <2>4 DEF Precedes
    <3>4. KeyOf(c[i]) \in Nat /\ y \in Nat
      BY <1>1, <2>4
    <3> QED
      BY <3>3, <3>4, <1>2
  <2>8. ASSUME NEW i \in 1 .. Len(c), ~(i < q) PROVE KeyOf(c[i]) \in B
    <3>1. CASE i = q
      BY <3>1, <2>1, <2>4
    <3>2. CASE i # q
      <4>1. Precedes(r, c[q], c[i])
        BY <2>8, <3>2, <1>1
      <4>2. y < KeyOf(c[i]) \/ y = KeyOf(c[i])
        BY <4>1, <2>4 DEF Precedes
      <4> QED
        BY <4>2, <2>1, <1>1
    <3> QED
      BY <3>1, <3>2
  <2>9. \A i \in 1 .. Len(c) : i < q <=> KeyOf(c[i]) \notin B
    BY <2>7, <2>8
  <2> QED
    BY <2>5, <2>6, <2>9 DEF y
<1> QED
  BY <1>3, <1>4

(* begin() is the first, *)
LEMMA BeginIs ==
  ASSUME Shape, Ends, NEW r, Rings(r), NEW c, Ordered(c, elements, Order(r)), Len(c) # 0
  PROVE  MultiBegin = c[1]
<1>1. /\ Len(c) \in Nat
      /\ \A i \in 1 .. Len(c) : KeyOf(c[i]) \in nodes
  BY InOrder
<1>2. 1 \in 1 .. Len(c) /\ nodes # {}
  BY <1>1
<1>3. NextAfter(nodes) = first
  <2>1. nodes \subseteq Nat \ {0}
    BY ShapeFacts
  <2>2. first \in nodes /\ \A x \in nodes : first <= x
    BY <1>2 DEF Ends
  <2> QED
    BY <2>1, <2>2, AfterFacts
<1>4. nodes \subseteq nodes /\ \A y \in nodes : \A z \in nodes : y < z => z \in nodes
  OBVIOUS
<1>5. PICK q \in 1 .. Len(c) + 1 :
        /\ HeadOf(NextAfter(nodes)) = At(c, q)
        /\ \A i \in 1 .. Len(c) : i < q <=> KeyOf(c[i]) \notin nodes
  BY <1>4, BoundIs
<1>6. q = 1
  <2>1. ~(1 < q)
    BY <1>1, <1>2, <1>5
  <2> QED
    BY <2>1, <1>1, <1>5
<1> QED
  BY <1>1, <1>2, <1>3, <1>5, <1>6 DEF MultiBegin, At

(* lower_bound the first that is not less, *)
LEMMA LowerIs ==
  ASSUME Shape, NEW r, Rings(r), Ordered(Contents, elements, Order(r)), NEW k \in Nat
  PROVE  /\ Abstract!Lower(k) \in 1 .. Len(Contents) + 1
         /\ multi_lower(k) = At(Contents, Abstract!Lower(k))
         /\ \A i \in 1 .. Len(Contents) : i < Abstract!Lower(k) <=> KeyOf(Contents[i]) < k
<1>1. PICK S : Below(S)
  BY DEF Shape, Below
<1> DEFINE B == {y \in nodes : y >= k}
           c == Contents
<1>2. lower_bound(k) = NextAfter(B)
  BY <1>1, LowerBoundIs
<1>3. nodes \subseteq Nat
  BY ShapeFacts
<1>4. /\ c \in Seq(elements) /\ Len(c) \in Nat
      /\ \A i \in 1 .. Len(c) : KeyOf(c[i]) \in nodes /\ KeyOf(c[i]) \in Nat
  BY InOrder
<1> HIDE DEF c
<1>5. PICK q \in 1 .. Len(c) + 1 :
        /\ HeadOf(NextAfter(B)) = At(c, q)
        /\ \A i \in 1 .. Len(c) : i < q <=> KeyOf(c[i]) \notin B
  <2>1. B \subseteq nodes /\ \A y \in B : \A z \in nodes : y < z => z \in B
    BY <1>3
  <2>2. Ordered(c, elements, Order(r))
    BY DEF c
  <2> HIDE DEF B
  <2> QED
    BY <2>1, <2>2, BoundIs
<1>6. \A i \in 1 .. Len(c) : i < q <=> KeyOf(c[i]) < k
  BY <1>4, <1>5
<1>7. Abstract!Lower(k) = q
  <2> DEFINE P(p) == \A i \in DOMAIN c : i < p <=> c[i][1] < k
  <2>1. Abstract!Lower(k) = CHOOSE p \in 1 .. Len(c) + 1 : P(p)
    BY DEF Abstract!Lower, Abstract!KeyOf, c
  <2>2. DOMAIN c = 1 .. Len(c)
    BY <1>4
  <2>3. P(q)
    BY <1>6, <2>2 DEF KeyOf
  <2>4. \A p \in 1 .. Len(c) + 1 : P(p) => p = q
    <3> SUFFICES ASSUME NEW p \in 1 .. Len(c) + 1, P(p), p # q PROVE FALSE
      OBVIOUS
    <3>1. CASE p < q
      <4>1. p \in 1 .. Len(c)
        BY <3>1, <1>4
      <4>2. p < p <=> p < q
        BY <4>1, <2>2, <2>3
      <4> QED
        BY <4>1, <4>2, <3>1
    <3>2. CASE q < p
      <4>1. q \in 1 .. Len(c)
        BY <3>2, <1>4
      <4>2. q < p <=> q < q
        BY <4>1, <2>2, <2>3
      <4> QED
        BY <4>1, <4>2, <3>2
    <3> QED
      BY <3>1, <3>2, <1>4
  <2> HIDE DEF P
  <2> QED
    BY <2>1, <2>3, <2>4
<1> QED
  BY <1>2, <1>5, <1>6, <1>7 DEF c, multi_lower

(* upper_bound the first that is greater. *)
LEMMA UpperIs ==
  ASSUME Shape, NEW r, Rings(r), Ordered(Contents, elements, Order(r)), NEW k \in Nat
  PROVE  /\ Abstract!Upper(k) \in 1 .. Len(Contents) + 1
         /\ multi_upper(k) = At(Contents, Abstract!Upper(k))
         /\ \A i \in 1 .. Len(Contents) : i < Abstract!Upper(k) <=> KeyOf(Contents[i]) <= k
<1>1. PICK S : Below(S)
  BY DEF Shape, Below
<1> DEFINE B == {y \in nodes : y > k}
           c == Contents
<1>2. upper_bound(k) = NextAfter(B)
  BY <1>1, UpperBoundIs
<1>3. nodes \subseteq Nat
  BY ShapeFacts
<1>4. /\ c \in Seq(elements) /\ Len(c) \in Nat
      /\ \A i \in 1 .. Len(c) : KeyOf(c[i]) \in nodes /\ KeyOf(c[i]) \in Nat
  BY InOrder
<1> HIDE DEF c
<1>5. PICK q \in 1 .. Len(c) + 1 :
        /\ HeadOf(NextAfter(B)) = At(c, q)
        /\ \A i \in 1 .. Len(c) : i < q <=> KeyOf(c[i]) \notin B
  <2>1. B \subseteq nodes /\ \A y \in B : \A z \in nodes : y < z => z \in B
    BY <1>3
  <2>2. Ordered(c, elements, Order(r))
    BY DEF c
  <2> HIDE DEF B
  <2> QED
    BY <2>1, <2>2, BoundIs
<1>6. \A i \in 1 .. Len(c) : i < q <=> KeyOf(c[i]) <= k
  BY <1>4, <1>5
<1>7. Abstract!Upper(k) = q
  <2> DEFINE P(p) == \A i \in DOMAIN c : i < p <=> c[i][1] <= k
  <2>1. Abstract!Upper(k) = CHOOSE p \in 1 .. Len(c) + 1 : P(p)
    BY DEF Abstract!Upper, Abstract!KeyOf, c
  <2>2. DOMAIN c = 1 .. Len(c)
    BY <1>4
  <2>3. P(q)
    BY <1>6, <2>2 DEF KeyOf
  <2>4. \A p \in 1 .. Len(c) + 1 : P(p) => p = q
    <3> SUFFICES ASSUME NEW p \in 1 .. Len(c) + 1, P(p), p # q PROVE FALSE
      OBVIOUS
    <3>1. CASE p < q
      <4>1. p \in 1 .. Len(c)
        BY <3>1, <1>4
      <4>2. p < p <=> p < q
        BY <4>1, <2>2, <2>3
      <4> QED
        BY <4>1, <4>2, <3>1
    <3>2. CASE q < p
      <4>1. q \in 1 .. Len(c)
        BY <3>2, <1>4
      <4>2. q < p <=> q < q
        BY <4>1, <2>2, <2>3
      <4> QED
        BY <4>1, <4>2, <3>2
    <3> QED
      BY <3>1, <3>2, <1>4
  <2> HIDE DEF P
  <2> QED
    BY <2>1, <2>3, <2>4
<1> QED
  BY <1>2, <1>5, <1>6, <1>7 DEF c, multi_upper

(* A place for k: none before it is greater and none from it on is less. *)
Fits(c, q, k) ==
  /\ q \in 1 .. Len(c) + 1
  /\ \A i \in 1 .. Len(c) : IF i < q THEN KeyOf(c[i]) <= k ELSE k <= KeyOf(c[i])

(* insert( hint, v ) settles on the place that OrderedMulti chooses. *)
LEMMA PositionIs ==
  ASSUME Shape, Ends, NEW r, Rings(r), Ordered(Contents, elements, Order(r)),
         elements \subseteq Element, mSize = Cardinality(elements), NEW k \in Nat,
         NEW p \in 1 .. Len(Contents) + 1, NEW hint, hint = At(Contents, p)
  PROVE  /\ Fits(Contents, Abstract!Place(p, k), k)
         /\ Position(hint, k) = At(Contents, Abstract!Place(p, k))
<1> DEFINE c == Contents
           m == Len(c)
           up == Abstract!Upper(k)
           low == Abstract!Lower(k)
           back == p = 1 \/ k >= KeyOf(c[p - 1])
<1>1. /\ m \in Nat /\ m = mSize
      /\ \A i \in 1 .. m : c[i] \in elements /\ KeyOf(c[i]) \in Nat
      /\ \A i \in 1 .. m : \A j \in 1 .. m : i < j => KeyOf(c[i]) <= KeyOf(c[j])
  <2>1. /\ m \in Nat /\ m = mSize
        /\ \A i \in 1 .. m : c[i] \in elements /\ KeyOf(c[i]) \in Nat
        /\ \A i \in 1 .. m : \A j \in 1 .. m : i < j => Precedes(r, c[i], c[j])
    BY InOrder
  <2> HIDE DEF c
  <2>2. ASSUME NEW i \in 1 .. m, NEW j \in 1 .. m, i < j PROVE KeyOf(c[i]) <= KeyOf(c[j])
    <3>1. KeyOf(c[i]) < KeyOf(c[j]) \/ KeyOf(c[i]) = KeyOf(c[j])
      BY <2>1, <2>2 DEF Precedes
    <3> QED
      BY <3>1, <2>1
  <2> QED
    BY <2>1, <2>2
<1>2. NoElement \notin elements
  BY NoElementIsNone
<1>3. /\ low \in 1 .. m + 1 /\ multi_lower(k) = At(c, low)
      /\ \A i \in 1 .. m : i < low <=> KeyOf(c[i]) < k
  BY LowerIs
<1>4. /\ up \in 1 .. m + 1 /\ multi_upper(k) = At(c, up)
      /\ \A i \in 1 .. m : i < up <=> KeyOf(c[i]) <= k
  BY UpperIs
<1>5. Abstract!Place(p, k) =
        IF p > m \/ k <= KeyOf(c[p]) THEN IF back THEN p ELSE up ELSE low
  BY DEF Abstract!Place, Abstract!KeyOf, KeyOf
<1>6. p \in Nat /\ 1 <= p /\ p <= m + 1
  BY <1>1
<1>7. p = m + 1 => p > m /\ hint = NoElement
  BY <1>1 DEF At
<1>8. p # m + 1 => ~(p > m) /\ hint = c[p] /\ p \in 1 .. m /\ hint # NoElement
  BY <1>1, <1>2, <1>6 DEF At
<1>9. (hint = NoElement \/ ~(KeyOf(hint) < k)) <=> (p > m \/ k <= KeyOf(c[p]))
  BY <1>1, <1>7, <1>8
<1>10. m # 0 => ((hint = MultiBegin \/ ~(k < KeyOf(MultiBefore(hint)))) <=> back)
  <2> SUFFICES ASSUME m # 0
               PROVE  (hint = MultiBegin \/ ~(k < KeyOf(MultiBefore(hint)))) <=> back
    OBVIOUS
  <2>1. MultiBegin = c[1] /\ 1 \in 1 .. m
    BY <1>1, BeginIs
  <2>2. CASE p = 1
    BY <2>1, <2>2, <1>8, <1>1
  <2>3. CASE p # 1
    <3>1. p - 1 \in 1 .. m /\ 1 <= p - 1
      BY <2>3, <1>6
    <3>2. hint = IF p - 1 = Len(c) THEN NoElement ELSE c[p - 1 + 1]
      BY <1>1, <1>6, <1>7, <1>8
    <3>3. MultiBefore(hint) = c[p - 1]
      BY <3>1, <3>2, WalkIs
    <3>4. hint # MultiBegin
      <4>1. Distinct(c)
        BY InOrder
      <4>2. CASE p = m + 1
        BY <4>2, <2>1, <1>1, <1>2, <1>7
      <4>3. CASE p # m + 1
        BY <4>1, <4>3, <2>1, <2>3, <1>8 DEF Distinct
      <4> QED
        BY <4>2, <4>3
    <3>5. (k < KeyOf(c[p - 1])) <=> ~(k >= KeyOf(c[p - 1]))
      BY <3>1, <1>1
    <3> HIDE DEF c
    <3> QED
      BY <3>3, <3>4, <3>5, <2>3
  <2> QED
    BY <2>2, <2>3
<1> HIDE DEF c, up, low, back
<1>11. Position(hint, k) = At(c, Abstract!Place(p, k))
  <2>1. CASE m = 0
    <3>1. p = 1 /\ p > m /\ hint = NoElement
      BY <2>1, <1>6, <1>7
    <3>2. Abstract!Place(p, k) = p
      BY <3>1, <1>5 DEF back
    <3> QED
      BY <2>1, <3>1, <3>2, <1>1 DEF Position, At
  <2>2. CASE m # 0
    <3>1. Position(hint, k) = IF p > m \/ k <= KeyOf(c[p]) THEN IF back THEN hint ELSE multi_upper(k)
                              ELSE multi_lower(k)
      BY <2>2, <1>1, <1>9, <1>10 DEF Position
    <3>2. hint = At(c, p)
      BY DEF c
    <3> QED
      BY <3>1, <3>2, <1>3, <1>4, <1>5
  <2> QED
    BY <2>1, <2>2
<1>12. Fits(c, Abstract!Place(p, k), k)
  <2>1. CASE (p > m \/ k <= KeyOf(c[p])) /\ back
    <3>1. ASSUME NEW i \in 1 .. m
          PROVE  IF i < p THEN KeyOf(c[i]) <= k ELSE k <= KeyOf(c[i])
      <4>1. CASE i < p
        <5>1. p - 1 \in 1 .. m /\ p # 1 /\ (i < p - 1 \/ i = p - 1)
          BY <4>1, <1>6
        <5>2. KeyOf(c[p - 1]) <= k /\ KeyOf(c[p - 1]) \in Nat /\ KeyOf(c[i]) \in Nat
          BY <5>1, <2>1, <1>1 DEF back
        <5>3. KeyOf(c[i]) <= KeyOf(c[p - 1])
          BY <5>1, <5>2, <1>1
        <5> QED
          BY <4>1, <5>2, <5>3
      <4>2. CASE ~(i < p)
        <5>1. p \in 1 .. m /\ (p < i \/ p = i) /\ ~(p > m)
          BY <4>2, <1>6, <1>1
        <5>2. k <= KeyOf(c[p]) /\ KeyOf(c[p]) \in Nat /\ KeyOf(c[i]) \in Nat
          BY <5>1, <2>1, <1>1
        <5>3. KeyOf(c[p]) <= KeyOf(c[i])
          BY <5>1, <5>2, <1>1
        <5> QED
          BY <4>2, <5>2, <5>3
      <4> QED
        BY <4>1, <4>2
    <3>2. Abstract!Place(p, k) = p /\ p \in 1 .. Len(c) + 1
      BY <2>1, <1>5, <1>6
    <3> QED
      BY <3>1, <3>2 DEF Fits
  <2>2. CASE (p > m \/ k <= KeyOf(c[p])) /\ ~back
    <3>1. Abstract!Place(p, k) = up
      BY <2>2, <1>5
    <3>2. ASSUME NEW i \in 1 .. m PROVE IF i < up THEN KeyOf(c[i]) <= k ELSE k <= KeyOf(c[i])
      BY <1>1, <1>4
    <3> QED
      BY <3>1, <3>2, <1>4 DEF Fits
  <2>3. CASE ~(p > m \/ k <= KeyOf(c[p]))
    <3>1. Abstract!Place(p, k) = low
      BY <2>3, <1>5
    <3>2. ASSUME NEW i \in 1 .. m PROVE IF i < low THEN KeyOf(c[i]) <= k ELSE k <= KeyOf(c[i])
      BY <1>1, <1>3
    <3> QED
      BY <3>1, <3>2, <1>3 DEF Fits
  <2> QED
    BY <2>1, <2>2, <2>3
<1> QED
  BY <1>11, <1>12 DEF c

(* What an insertion does to the nodes. *)
LEMMA InsertNodes ==
  ASSUME TreeInv, pc = "idle", NEW k \in Nat \ {0}, unbalanced_insert(k)
  PROVE  nodes' = nodes \cup {k} /\ pc' # "clear"
<1>0. PICK S : Below(S)
  BY DEF TreeInv, Shape, Below
<1>1. root = 0 <=> nodes = {}
  BY AtRest
<1>2. find(k) # 0 => k \in nodes
  BY <1>0, FindIs
<1>3. CASE root = Null
  BY <1>1, <1>3 DEF unbalanced_insert, InsertRoot, Return, GoTo, Null
<1>4. CASE root # Null /\ find(k) # Null
  BY <1>2, <1>4 DEF unbalanced_insert, treeVars, Null
<1>5. CASE root # Null /\ find(k) = Null
  BY <1>5 DEF unbalanced_insert, Attach, GoTo
<1> QED
  BY <1>3, <1>4, <1>5

(* With a hint it does the same. *)
LEMMA HintNodes ==
  ASSUME TreeInv, pc = "idle", NEW k \in Nat \ {0}, NEW h, hinted_insert(h, k)
  PROVE  nodes' = nodes \cup {k} /\ pc' # "clear"
<1>1. CASE GoodHint(h, k)
  BY <1>1 DEF hinted_insert, Attach, GoTo
<1>2. CASE ~GoodHint(h, k)
  BY <1>2, InsertNodes DEF hinted_insert
<1> QED
  BY <1>1, <1>2

(* find finds just the keys that are there. *)
LEMMA FoundIs ==
  ASSUME TreeInv, pc = "idle", NEW k \in Nat \ {0}
  PROVE  /\ root = Null \/ find(k) = Null <=> k \notin nodes
         /\ k \in nodes => find(k) = k
<1>0. PICK S : Below(S)
  BY DEF TreeInv, Shape, Below
<1>1. root = 0 <=> nodes = {}
  BY AtRest
<1>2. find(k) = IF k \in nodes THEN k ELSE 0
  BY <1>0, FindIs
<1> QED
  BY <1>1, <1>2 DEF Null

(* A step that adds element e with key k at place j of its ring. *)
Added(r, r2, k, e, j) ==
  /\ Rings(r2)' /\ Grows(r, r2, k, e, j)
  /\ e \in Element \ elements /\ KeyOf(e) = k
  /\ elements' = elements \cup {e} /\ mSize' = mSize + 1
  /\ pc' # "clear"

(* An element that was added to the ring of its key keeps the invariant of the
   rings. *)
LEMMA AddedKeeps ==
  ASSUME RingInv, NEW r, NEW r2, NEW k, NEW e, NEW j, Added(r, r2, k, e, j)
  PROVE  RingInv'
<1>1. /\ elements \subseteq Element /\ IsFiniteSet(elements) /\ mSize = Cardinality(elements)
      /\ e \in Element \ elements /\ elements' = elements \cup {e} /\ mSize' = mSize + 1
      /\ Rings(r2)' /\ pc' # "clear"
  BY DEF RingInv, Added
<1>2. IsFiniteSet(elements') /\ Cardinality(elements') = Cardinality(elements) + 1
  BY <1>1, FS_AddElement
<1>3. elements' \subseteq Element
  BY <1>1
<1>4. elements' \subseteq Element'
  BY <1>3 DEF Element
<1>5. \E x : Rings(x)'
  BY <1>1
<1> QED
  BY <1>1, <1>2, <1>4, <1>5 DEF RingInv

(* A new element alone in its ring, *)
LEMMA AddedAlone ==
  ASSUME Shape, NEW r, Rings(r), NEW k, k \notin nodes, nodes' = nodes \cup {k},
         NEW e, e \in Element \ elements, KeyOf(e) = k, LinkAlone(e), pc' # "clear"
  PROVE  \E r2 : Added(r, r2, k, e, 1)
<1>1. PICK r2 : r2 = [x \in nodes' |-> IF x = k THEN <<e>> ELSE r[x]]
  OBVIOUS
<1>2. Rings(r2)'
  BY <1>1, RingsAlone
<1>3. Grows(r, r2, k, e, 1)
  <2>1. r2[k] = <<e>> /\ \A x \in nodes : r2[x] = r[x]
    BY <1>1
  <2> QED
    BY <2>1, AlonePlaces
<1>4. Added(r, r2, k, e, 1)
  BY <1>2, <1>3 DEF Added, LinkAlone
<1> QED
  BY <1>4

(* or between two others. *)
LEMMA AddedBetween ==
  ASSUME Shape, NEW r, Rings(r), NEW k \in nodes, nodes' = nodes,
         NEW e, e \in Element \ elements, KeyOf(e) = k,
         NEW j \in 1 .. Len(r[k]) + 1, NEW b, NEW a,
         b = r[k][IF j = 1 THEN Len(r[k]) ELSE j - 1],
         a = r[k][IF j = Len(r[k]) + 1 THEN 1 ELSE j],
         LinkBetween(e, b, a), pc' # "clear",
         DOMAIN head' = nodes, \A x \in nodes : head'[x] = IF x = k /\ j = 1 THEN e ELSE head[x]
  PROVE  \E r2 : Added(r, r2, k, e, j)
<1>1. PICK r2 : r2 = [x \in nodes |-> IF x = k THEN Inserted(r[k], j, e) ELSE r[x]]
  OBVIOUS
<1>2. Rings(r2)'
  BY <1>1, RingsGrown
<1>3. Grows(r, r2, k, e, j)
  <2>1. r2[k] = Inserted(r[k], j, e) /\ \A x \in nodes : x # k => r2[x] = r[x]
    BY <1>1
  <2>2. IsRing(r2[k], fwd', bwd')
    BY <1>2 DEF Rings
  <2>3. Distinct(r2[k])
    BY <2>2 DEF IsRing
  <2>4. r[k] \in Seq(elements \cup {e}) /\ e \in elements \cup {e}
    <3>1. r[k] \in Seq(elements)
      BY DEF Rings
    <3> QED
      BY <3>1
  <2> QED
    BY <2>1, <2>3, <2>4, GrownPlaces
<1>4. Added(r, r2, k, e, j)
  BY <1>2, <1>3 DEF Added, LinkBetween
<1> QED
  BY <1>4

(* Keys are not the null pointer. *)
LEMMA KeyFacts ==
  ASSUME NEW k \in MultiKeys
  PROVE  k \in Nat \ {0} /\ k \in Keys
BY KeysAssumption, MultiAssumption

(* insert( v ) puts the element behind all others of its ring. *)
LEMMA InsertAdds ==
  ASSUME MultiInv, kind = "multi", NEW r, Rings(r), NEW k \in MultiKeys, MultiInsert(k)
  PROVE  \E e, j, r2 : /\ Added(r, r2, k, e, j)
                       /\ k \in nodes => j = Len(r[k]) + 1
<1>1. TreeInv /\ Shape /\ pc = "idle" /\ k \in Nat \ {0}
  BY KeyFacts DEF MultiInv, RbInv, TreeInv, MultiInsert
<1>2. PICK e : e = NewElement(k)
  OBVIOUS
<1>3. e \in Element \ elements /\ KeyOf(e) = k
  BY <1>2, NewElementIs DEF MultiInv, RingInv, MultiInsert
<1>4. nodes' = nodes \cup {k} /\ pc' # "clear"
  BY <1>1, InsertNodes DEF MultiInsert
<1>5. CASE k \notin nodes
  <2>1. LinkAlone(e)
    BY <1>1, <1>2, <1>5, FoundIs DEF MultiInsert
  <2>2. \E r2 : Added(r, r2, k, e, 1)
    BY <1>1, <1>3, <1>4, <1>5, <2>1, AddedAlone
  <2> QED
    BY <2>2, <1>5
<1>6. CASE k \in nodes
  <2>1. LinkBetween(e, bwd[head[k]], head[k]) /\ head' = head
    BY <1>1, <1>2, <1>6, FoundIs DEF MultiInsert
  <2> DEFINE m == Len(r[k])
  <2>2. /\ m \in Nat /\ m >= 1
    BY <1>1, <1>6, RingFacts
  <2>3. head[k] = r[k][1] /\ bwd[head[k]] = r[k][m] /\ DOMAIN head = nodes
    BY <1>6, <2>2 DEF Rings, IsRing
  <2>4. /\ m + 1 \in 1 .. m + 1 /\ m + 1 # 1 /\ m + 1 - 1 = m
    BY <2>2
  <2>5. /\ bwd[head[k]] = r[k][IF m + 1 = 1 THEN m ELSE m + 1 - 1]
        /\ head[k] = r[k][IF m + 1 = m + 1 THEN 1 ELSE m + 1]
    BY <2>3, <2>4
  <2>6. \A x \in nodes : head'[x] = IF x = k /\ m + 1 = 1 THEN e ELSE head[x]
    BY <2>1, <2>4
  <2>7. nodes' = nodes
    BY <1>4, <1>6
  <2>8. DOMAIN head' = nodes
    BY <2>1, <2>3
  <2>9. \E r2 : Added(r, r2, k, e, m + 1)
    <3> HIDE DEF m
    <3> QED
      BY <1>1, <1>3, <1>4, <1>6, <2>1, <2>4, <2>5, <2>6, <2>7, <2>8, AddedBetween DEF m
  <2> QED
    BY <2>9
<1> QED
  BY <1>5, <1>6

(* The element before a place for k that is behind all elements with key k. *)
LEMMA BeforePlace ==
  ASSUME Shape, Ends, NEW r, Rings(r), NEW c, Ordered(c, elements, Order(r)), elements \subseteq Element,
         NEW k \in nodes, NEW q, Fits(c, q, k), NEW pos, pos = At(c, q),
         pos = NoElement \/ k < KeyOf(pos)
  PROVE  MultiBefore(pos) = r[k][Len(r[k])]
<1> DEFINE L == Len(r[k])
           u == r[k][L]
           m == Len(c)
<1>1. /\ m \in Nat
      /\ \A i \in 1 .. m : c[i] \in elements /\ KeyOf(c[i]) \in nodes /\ KeyOf(c[i]) \in Nat
      /\ \A y \in elements : \E i \in 1 .. m : c[i] = y
      /\ \A i \in 1 .. m : \A j \in 1 .. m : i < j => Precedes(r, c[i], c[j])
  BY InOrder
<1>2. /\ k \in Nat /\ L \in Nat /\ L >= 1 /\ u \in elements /\ KeyOf(u) = k
      /\ PlaceIn(r[k], u) = L
  BY RingFacts
<1> HIDE DEF u
<1>3. PICK i \in 1 .. m : c[i] = u
  BY <1>1, <1>2
<1>4. q \in 1 .. m + 1 /\ q \in Nat /\ 1 <= q /\ q <= m + 1
  BY <1>1 DEF Fits
<1>5. i < q
  <2> SUFFICES ASSUME ~(i < q) PROVE FALSE
    OBVIOUS
  <2>1. q \in 1 .. m /\ q # m + 1 /\ (q = i \/ q < i)
    BY <1>1, <1>3, <1>4
  <2>2. pos = c[q] /\ pos # NoElement
    <3>1. pos = c[q]
      BY <2>1 DEF At
    <3> QED
      BY <3>1, <2>1, <1>1, NoElementIsNone
  <2>3. k < KeyOf(c[q]) /\ KeyOf(c[q]) \in Nat
    BY <2>1, <2>2, <1>1
  <2>4. q # i
    BY <2>3, <1>2, <1>3
  <2>5. Precedes(r, c[q], c[i])
    BY <2>1, <2>4, <1>1
  <2>6. KeyOf(c[q]) < k \/ KeyOf(c[q]) = k
    BY <2>5, <1>2, <1>3 DEF Precedes
  <2> QED
    BY <2>3, <2>6, <1>2
<1>6. q - 1 \in 1 .. m /\ q - 1 < q
  BY <1>1, <1>4, <1>5
<1>7. pos = IF q - 1 = m THEN NoElement ELSE c[q - 1 + 1]
  BY <1>1, <1>4 DEF At
<1>8. MultiBefore(pos) = c[q - 1]
  BY <1>6, <1>7, WalkIs
<1>9. c[q - 1] = u
  <2> SUFFICES ASSUME i # q - 1 PROVE FALSE
    BY <1>3
  <2>1. i < q - 1
    BY <1>1, <1>4, <1>5
  <2>2. Precedes(r, u, c[q - 1])
    BY <2>1, <1>1, <1>3, <1>6
  <2>3. KeyOf(c[q - 1]) <= k /\ KeyOf(c[q - 1]) \in Nat
    BY <1>1, <1>6 DEF Fits
  <2>4. KeyOf(c[q - 1]) = k /\ L < PlaceIn(r[k], c[q - 1])
    BY <2>2, <2>3, <1>2 DEF Precedes
  <2>5. PlaceIn(r[k], c[q - 1]) \in 1 .. L
    BY <2>4, <1>1, <1>6, RingFacts
  <2> QED
    BY <2>4, <2>5, <1>2
<1> QED
  BY <1>8, <1>9 DEF u

(* insert( hint, v ) puts the element before the one it settles on, or behind all
   others of its ring. *)
LEMMA HintAdds ==
  ASSUME MultiInv, kind = "multi", NEW r, Rings(r), Ordered(Contents, elements, Order(r)),
         NEW k \in MultiKeys, NEW hint, MultiInsertHint(hint, k),
         NEW q, Fits(Contents, q, k), NEW pos, pos = At(Contents, q), pos = Position(hint, k)
  PROVE  \E e, j, r2 : /\ Added(r, r2, k, e, j) /\ e = NewElement(k)
                       /\ k \in nodes => IF pos = NoElement \/ k < KeyOf(pos) THEN j = Len(r[k]) + 1
                                         ELSE KeyOf(pos) = k /\ j = PlaceIn(r[k], pos)
<1>1. TreeInv /\ Shape /\ pc = "idle" /\ k \in Nat \ {0} /\ Ends /\ elements \subseteq Element
  BY KeyFacts DEF MultiInv, RbInv, TreeInv, MultiInsertHint, RingInv
<1>2. PICK e : e = NewElement(k)
  OBVIOUS
<1>3. e \in Element \ elements /\ KeyOf(e) = k
  BY <1>2, NewElementIs DEF MultiInv, RingInv, MultiInsertHint
<1>4. nodes' = nodes \cup {k} /\ pc' # "clear"
  <2>1. hinted_insert(TreeAt(pos), k)
    BY DEF MultiInsertHint
  <2> QED
    BY <1>1, <2>1, HintNodes
<1>5. CASE k \notin nodes
  <2>1. LinkAlone(e)
    BY <1>1, <1>2, <1>5, FoundIs DEF MultiInsertHint
  <2>2. \E r2 : Added(r, r2, k, e, 1)
    BY <1>1, <1>3, <1>4, <1>5, <2>1, AddedAlone
  <2> QED
    BY <2>2, <1>2, <1>5
<1>6. CASE k \in nodes /\ (pos = NoElement \/ k < KeyOf(pos))
  <2> DEFINE m == Len(r[k])
             b == MultiBefore(pos)
  <2>1. LinkBetween(e, b, fwd[b]) /\ head' = head
    BY <1>1, <1>2, <1>6, FoundIs DEF MultiInsertHint
  <2>2. /\ m \in Nat /\ m >= 1
    BY <1>1, <1>6, RingFacts
  <2>3. b = r[k][m] /\ fwd[b] = r[k][1] /\ DOMAIN head = nodes
    <3>1. b = r[k][m]
      BY ONLY <1>1, <1>6, Rings(r), Ordered(Contents, elements, Order(r)), Fits(Contents, q, k),
              pos = At(Contents, q), BeforePlace
    <3> HIDE DEF b
    <3>2. fwd[r[k][m]] = r[k][1]
      BY <1>6, <2>2 DEF Rings, IsRing
    <3> QED
      BY <3>1, <3>2 DEF Rings
  <2>4. /\ m + 1 \in 1 .. m + 1 /\ m + 1 # 1 /\ m + 1 - 1 = m
    BY <2>2
  <2> HIDE DEF b
  <2>5. /\ b = r[k][IF m + 1 = 1 THEN m ELSE m + 1 - 1]
        /\ fwd[b] = r[k][IF m + 1 = m + 1 THEN 1 ELSE m + 1]
    BY <2>3, <2>4
  <2>6. \A x \in nodes : head'[x] = IF x = k /\ m + 1 = 1 THEN e ELSE head[x]
    BY <2>1, <2>4
  <2>7. nodes' = nodes
    BY <1>4, <1>6
  <2>8. DOMAIN head' = nodes
    BY <2>1, <2>3
  <2>9. \E r2 : Added(r, r2, k, e, m + 1)
    <3> HIDE DEF m
    <3> QED
      BY <1>1, <1>3, <1>4, <1>6, <2>1, <2>4, <2>5, <2>6, <2>7, <2>8, AddedBetween DEF m
  <2> QED
    BY <2>9, <1>2, <1>6
<1>7. CASE k \in nodes /\ ~(pos = NoElement \/ k < KeyOf(pos))
  <2> DEFINE m == Len(r[k])
             j == PlaceIn(r[k], pos)
  <2>1. LinkBetween(e, bwd[pos], pos) /\ head' = [x \in nodes |-> IF head[x] = pos THEN e ELSE head[x]]
    BY <1>1, <1>2, <1>7, FoundIs DEF MultiInsertHint
  <2>2. pos \in elements /\ KeyOf(pos) = k
    <3> DEFINE c == Contents
    <3>1. /\ Len(c) \in Nat /\ \A i \in 1 .. Len(c) : c[i] \in elements /\ KeyOf(c[i]) \in Nat
      BY <1>1, InOrder
    <3> HIDE DEF c
    <3>2. q \in 1 .. Len(c) /\ pos = c[q]
      BY <1>7, <3>1 DEF Fits, At, c
    <3>3. k <= KeyOf(c[q])
      BY <3>1, <3>2 DEF Fits, c
    <3> QED
      BY <1>1, <1>7, <3>1, <3>2, <3>3
  <2>3. /\ m \in Nat /\ m >= 1 /\ j \in 1 .. m /\ r[k][j] = pos /\ Distinct(r[k])
    BY <1>1, <1>7, <2>2, RingFacts
  <2>4. bwd[pos] = r[k][IF j = 1 THEN m ELSE j - 1]
    <3>1. \A i \in 1 .. m : bwd[r[k][i]] = r[k][IF i = 1 THEN m ELSE i - 1]
      BY <1>7 DEF Rings, IsRing
    <3> HIDE DEF j, m
    <3> QED
      BY <3>1, <2>3
  <2> HIDE DEF j
  <2>5. j \in 1 .. m + 1 /\ j # m + 1
    BY <2>3
  <2>6. \A x \in nodes : head[x] = pos <=> x = k /\ j = 1
    <3> SUFFICES ASSUME NEW x \in nodes PROVE head[x] = pos <=> x = k /\ j = 1
      OBVIOUS
    <3>1. head[x] = r[x][1] /\ KeyOf(r[x][1]) = x
      <4>1. 1 \in 1 .. Len(r[x])
        BY <1>1, RingFacts
      <4> QED
        BY <4>1, <1>1, RingFacts DEF Rings
    <3>2. x # k => head[x] # pos
      BY <3>1, <2>2
    <3>3. r[k][1] = pos <=> j = 1
      <4>1. 1 \in 1 .. m
        BY <2>3
      <4> QED
        BY <4>1, <2>3 DEF Distinct
    <3> QED
      BY <3>1, <3>2, <3>3
  <2>7. nodes' = nodes
    BY <1>4, <1>7
  <2>8. DOMAIN head' = nodes /\ \A x \in nodes : head'[x] = IF x = k /\ j = 1 THEN e ELSE head[x]
    BY <2>1, <2>6
  <2>9. pos = r[k][IF j = m + 1 THEN 1 ELSE j]
    BY <2>3, <2>5
  <2>10. \E r2 : Added(r, r2, k, e, j)
    <3> HIDE DEF m
    <3> QED
      BY <1>1, <1>3, <1>4, <1>7, <2>1, <2>4, <2>5, <2>7, <2>8, <2>9, AddedBetween DEF m
  <2> QED
    BY <2>2, <2>10, <1>2, <1>7 DEF j
<1> QED
  BY <1>5, <1>6, <1>7

(* What is said of a hint. *)
LEMMA HintPlace ==
  ASSUME MultiInv, kind = "multi", pc # "clear", NEW r, Rings(r), NEW k \in Nat,
         NEW hint \in elements \cup {NoElement}
  PROVE  LET q == Abstract!Place(PlaceOf(hint), k)
         IN  /\ PlaceOf(hint) \in 1 .. Len(Contents) + 1
             /\ Fits(Contents, q, k)
             /\ Position(hint, k) = At(Contents, q)
<1> DEFINE c == Contents
           m == Len(c)
           all == Append(c, NoElement)
<1>1. Shape /\ Ends /\ elements \subseteq Element /\ mSize = Cardinality(elements)
  BY DEF MultiInv, RbInv, TreeInv, RingInv
<1>2. Ordered(c, elements, Order(r))
  BY <1>1, ContentsIs
<1>3. /\ c \in Seq(elements) /\ m \in Nat /\ Distinct(c)
      /\ \A i \in 1 .. m : c[i] \in elements
      /\ \A y \in elements : \E i \in 1 .. m : c[i] = y
  BY <1>1, <1>2, InOrder
<1>4. NoElement \notin elements
  BY <1>1, NoElementIsNone
<1>5. PlaceOf(hint) = CHOOSE i \in DOMAIN all : all[i] = hint
  BY DEF PlaceOf
<1> HIDE DEF c
<1>6. DOMAIN all = 1 .. m + 1 /\ \A i \in 1 .. m + 1 : all[i] = At(c, i)
  <2>1. c \in Seq(elements \cup {NoElement}) /\ NoElement \in elements \cup {NoElement}
    BY <1>3
  <2>2. Len(all) = m + 1 /\ all \in Seq(elements \cup {NoElement})
    BY <2>1
  <2>3. \A i \in 1 .. m + 1 : all[i] = IF i = m + 1 THEN NoElement ELSE c[i]
    BY <2>1, <1>3
  <2> QED
    BY <2>2, <2>3 DEF At
<1>7. \E i \in 1 .. m + 1 : At(c, i) = hint
  <2>1. CASE hint = NoElement
    <3>1. m + 1 \in 1 .. m + 1 /\ At(c, m + 1) = NoElement
      BY <1>3 DEF At
    <3> QED
      BY <2>1, <3>1
  <2>2. CASE hint \in elements
    <3>1. PICK i \in 1 .. m : c[i] = hint
      BY <2>2, <1>3
    <3>2. i \in 1 .. m + 1 /\ i # m + 1
      BY <1>3, <3>1
    <3> QED
      BY <3>1, <3>2 DEF At
  <2> QED
    BY <2>1, <2>2
<1> DEFINE p == PlaceOf(hint)
<1>8. p \in 1 .. m + 1 /\ hint = At(c, p)
  <2> HIDE DEF all
  <2> QED
    BY <1>5, <1>6, <1>7
<1> HIDE DEF p, all
<1>9. /\ Fits(Contents, Abstract!Place(p, k), k)
      /\ Position(hint, k) = At(Contents, Abstract!Place(p, k))
  <2>1. p \in 1 .. Len(Contents) + 1 /\ hint = At(Contents, p) /\ Ordered(Contents, elements, Order(r))
    BY <1>2, <1>8 DEF c
  <2> QED
    BY <1>1, <2>1, PositionIs
<1> QED
  BY <1>8, <1>9 DEF p, c

(* What is taken out. *)
TakenOut(r, r2, D) ==
  /\ Rings(r2)'
  /\ D \subseteq elements /\ elements' = elements \ D
  /\ mSize' = mSize - Cardinality(D)
  /\ \A d \in elements' : \A f \in elements' : Precedes(r, d, f) => Precedes(r2, d, f)
  /\ pc' # "clear"

(* So do elements that were taken out. *)
LEMMA RemovedKeeps ==
  ASSUME RingInv, NEW r, NEW r2, NEW D, TakenOut(r, r2, D)
  PROVE  RingInv'
<1>1. /\ elements \subseteq Element /\ IsFiniteSet(elements) /\ mSize = Cardinality(elements)
      /\ D \subseteq elements /\ elements' = elements \ D /\ mSize' = mSize - Cardinality(D)
      /\ Rings(r2)' /\ pc' # "clear"
  BY DEF RingInv, TakenOut
<1>2. IsFiniteSet(elements \ D) /\ Cardinality(elements \ D) = Cardinality(elements) - Cardinality(elements \cap D)
  BY <1>1, FS_Difference
<1>3. elements \cap D = D
  BY <1>1
<1>4. IsFiniteSet(elements') /\ mSize' = Cardinality(elements')
  BY <1>1, <1>2, <1>3
<1>5. elements' \subseteq Element'
  <2>1. elements' \subseteq Element
    BY <1>1
  <2> QED
    BY <2>1 DEF Element
<1>6. \E x : Rings(x)'
  BY <1>1
<1> QED
  BY <1>1, <1>4, <1>5, <1>6 DEF RingInv

(* Unlinking a node takes just that one out. *)
LEMMA UnlinkNodes ==
  ASSUME NEW d, Unlink(d), pc = "idle"
  PROVE  nodes' = nodes \ {d} /\ pc' # "clear"
BY DEF Unlink, Forget, UnlinkInner, UnlinkEnd, Return, GoTo

(* An element of a ring with others leaves their order as it is. *)
LEMMA ShrunkOrder ==
  ASSUME Shape, NEW r, Rings(r), NEW k \in nodes, NEW j \in 1 .. Len(r[k]),
         NEW r2, r2[k] = Without(r[k], j), \A x \in nodes : x # k => r2[x] = r[x],
         Distinct(r2[k]),
         NEW d \in elements, NEW f \in elements, d # r[k][j], f # r[k][j], Precedes(r, d, f)
  PROVE  Precedes(r2, d, f)
<1> DEFINE s == r[k]
           t == Without(s, j)
           m == Len(s)
<1>1. /\ m \in Nat /\ j \in 1 .. m /\ s \in Seq(elements)
      /\ \A i \in 1 .. m : PlaceIn(s, s[i]) = i
  <2>1. s \in Seq(elements)
    BY DEF Rings
  <2> QED
    BY <2>1, RingFacts
<1>2. /\ Len(t) = m - 1 /\ Distinct(t)
      /\ \A i \in 1 .. m - 1 : t[i] = IF i < j THEN s[i] ELSE s[i + 1]
  <2>1. s \in Seq(elements) /\ j \in 1 .. Len(s) /\ Distinct(t)
    BY <1>1
  <2> HIDE DEF s
  <2> QED
    BY <2>1, WithoutSeq
<1> HIDE DEF t
<1>3. ASSUME NEW i \in 1 .. m, i # j
      PROVE  PlaceIn(t, s[i]) = IF i < j THEN i ELSE i - 1
  <2>1. \A x \in 1 .. m - 1 : PlaceIn(t, t[x]) = x
    BY <1>2, PlaceInIs
  <2>2. CASE i < j
    <3>1. i \in 1 .. m - 1
      BY <1>1, <2>2
    <3>2. t[i] = s[i]
      BY <3>1, <1>2, <2>2
    <3> QED
      BY <3>1, <3>2, <2>1, <2>2
  <2>3. CASE ~(i < j)
    <3>1. i - 1 \in 1 .. m - 1 /\ ~(i - 1 < j) /\ i - 1 + 1 = i
      BY <1>1, <1>3, <2>3
    <3>2. t[i - 1] = s[i]
      BY <3>1, <1>2
    <3> QED
      BY <3>1, <3>2, <2>1, <2>3
  <2> QED
    BY <2>2, <2>3
<1>4. CASE KeyOf(d) < KeyOf(f)
  BY <1>4 DEF Precedes
<1>5. CASE ~(KeyOf(d) < KeyOf(f)) /\ KeyOf(d) = k
  <2> DEFINE pd == PlaceIn(s, d)
             pf == PlaceIn(s, f)
  <2>1. KeyOf(f) = k /\ pd < pf
    BY <1>5 DEF Precedes
  <2>2. pd \in 1 .. m /\ pf \in 1 .. m /\ s[pd] = d /\ s[pf] = f
    BY <2>1, <1>5, RingFacts
  <2>3. pd # j /\ pf # j
    BY <2>2
  <2> HIDE DEF pd, pf
  <2>4. PlaceIn(t, s[pd]) < PlaceIn(t, s[pf])
    <3>1. PlaceIn(t, s[pd]) = (IF pd < j THEN pd ELSE pd - 1) /\ PlaceIn(t, s[pf]) = (IF pf < j THEN pf ELSE pf - 1)
      BY <2>2, <2>3, <1>3
    <3> QED
      BY <3>1, <2>1, <2>2, <2>3, <1>1
  <2>5. r2[k] = t
    BY DEF t
  <2> QED
    BY <2>1, <2>2, <2>4, <2>5, <1>5 DEF Precedes
<1>6. CASE ~(KeyOf(d) < KeyOf(f)) /\ KeyOf(d) # k
  <2>1. KeyOf(d) = KeyOf(f) /\ PlaceIn(r[KeyOf(d)], d) < PlaceIn(r[KeyOf(d)], f)
    BY <1>6 DEF Precedes
  <2>2. r2[KeyOf(d)] = r[KeyOf(d)]
    BY <1>6, RingFacts
  <2> QED
    BY <2>1, <2>2 DEF Precedes
<1> QED
  BY <1>4, <1>5, <1>6

(* erase( iterator ) takes its element out of the ring, and the ring with it out
   of the tree if that was the last. *)
LEMMA EraseRemoves ==
  ASSUME MultiInv, kind = "multi", NEW r, Rings(r), NEW e \in elements, MultiErase(e)
  PROVE  \E r2 : TakenOut(r, r2, {e})
<1> DEFINE k == KeyOf(e)
           s == r[k]
           m == Len(s)
           j == PlaceIn(s, e)
<1>1. Shape /\ pc = "idle"
  BY DEF MultiInv, RbInv, TreeInv, MultiErase
<1>2. /\ k \in nodes /\ m \in Nat /\ m >= 1 /\ j \in 1 .. m /\ s[j] = e /\ Distinct(s)
  BY <1>1, RingFacts
<1>3. /\ \A i \in 1 .. m : fwd[s[i]] = s[IF i = m THEN 1 ELSE i + 1]
      /\ \A d \in elements : Has(s, d) <=> KeyOf(d) = k
      /\ DOMAIN head = nodes
  BY <1>2 DEF Rings, IsRing
<1>4. /\ elements' = elements \ {e} /\ mSize' = mSize - Cardinality({e})
      /\ bwd' = [x \in elements' |-> IF x = fwd[e] THEN bwd[e] ELSE bwd[x]]
      /\ fwd' = [x \in elements' |-> IF x = bwd[e] THEN fwd[e] ELSE fwd[x]]
  BY DEF MultiErase, Unring
<1> HIDE DEF j
<1>5. CASE fwd[e] = e
  <2>1. m = 1
    <3> DEFINE x == IF j = m THEN 1 ELSE j + 1
    <3>1. x \in 1 .. m /\ fwd[s[j]] = s[x]
      BY <1>2, <1>3
    <3>2. x = j
      BY <3>1, <1>2, <1>5 DEF Distinct
    <3> HIDE DEF m
    <3>3. (IF j = m THEN 1 ELSE j + 1) = j /\ j \in 1 .. m /\ m \in Nat
      BY <3>2, <1>2
    <3> HIDE DEF x
    <3> QED
      BY <3>3
  <2>2. \A d \in elements : KeyOf(d) = k <=> d = e
    <3>1. j = 1 /\ 1 .. m = {1}
      BY <2>1, <1>2
    <3>2. \A d : Has(s, d) <=> d = e
      BY <3>1, <1>2 DEF Has
    <3> QED
      BY <3>2, <1>3
  <2>3. elements' = elements \ {d \in elements : KeyOf(d) = k}
    BY <2>2, <1>4
  <2>4. bwd[e] = e
    <3>1. \A i \in 1 .. m : bwd[s[i]] = s[IF i = 1 THEN m ELSE i - 1]
      BY <1>2 DEF Rings, IsRing
    <3>2. j = 1
      BY <2>1, <1>2
    <3>3. bwd[s[1]] = s[1]
      BY <3>1, <3>2, <1>2, <2>1
    <3> QED
      BY <3>2, <3>3, <1>2
  <2>5. \A d \in elements' : fwd'[d] = fwd[d] /\ bwd'[d] = bwd[d]
    BY <2>4, <1>4, <1>5
  <2>6. Unlink(k) /\ head' = Restrict(head, nodes')
    BY <1>5 DEF MultiErase, TreeAt
  <2>7. nodes' = nodes \ {k} /\ pc' # "clear"
    BY <2>6, <1>1, UnlinkNodes
  <2>8. DOMAIN head' = nodes' /\ \A x \in nodes' : head'[x] = head[x]
    BY <2>6 DEF Restrict
  <2> HIDE DEF k
  <2>9. Rings(r)'
    BY <1>1, <1>2, <2>3, <2>5, <2>7, <2>8, RingsGone
  <2>10. TakenOut(r, r, {e})
    BY <2>7, <2>9, <1>4 DEF TakenOut
  <2> QED
    BY <2>10
<1>6. CASE fwd[e] # e
  <2>1. m >= 2
    <3>0. m \in Nat /\ m >= 1
      BY <1>2
    <3>0a. m >= 2 \/ m = 1
      <4> HIDE DEF m
      <4> QED
        BY <3>0
    <3> SUFFICES ASSUME m = 1 PROVE FALSE
      BY <3>0a
    <3>1. fwd[s[1]] = s[1] /\ j = 1
      BY <1>2, <1>3
    <3> QED
      BY <3>1, <1>2, <1>6
  <2>2. /\ head' = [x \in nodes |-> IF head[x] = e THEN fwd[e] ELSE head[x]]
        /\ nodes' = nodes /\ pc' = pc
    BY <1>6 DEF MultiErase, treeVars
  <2>3. PICK r2 : r2 = [x \in nodes |-> IF x = k THEN Without(s, j) ELSE r[x]]
    OBVIOUS
  <2>4. Rings(r2)'
    <3>1. e = r[k][j] /\ j \in 1 .. Len(r[k]) /\ Len(r[k]) >= 2
      BY <1>2, <2>1
    <3>2. r2 = [x \in nodes |-> IF x = k THEN Without(r[k], j) ELSE r[x]]
      BY <2>3
    <3> HIDE DEF k
    <3> QED
      BY <3>1, <3>2, <1>1, <1>2, <1>4, <2>2, RingsShrunk
  <2>5. ASSUME NEW d \in elements', NEW f \in elements', Precedes(r, d, f)
        PROVE  Precedes(r2, d, f)
    <3>1. d \in elements /\ f \in elements /\ d # r[k][j] /\ f # r[k][j]
      BY <1>2, <1>4
    <3>2. r2[k] = Without(r[k], j) /\ \A x \in nodes : x # k => r2[x] = r[x]
      BY <2>3, <1>2
    <3>3. Distinct(r2[k])
      <4>1. IsRing(r2[k], fwd', bwd')
        BY <2>2, <2>4, <1>2 DEF Rings
      <4> QED
        BY <4>1 DEF IsRing
    <3>4. k \in nodes /\ j \in 1 .. Len(r[k])
      BY <1>2
    <3> HIDE DEF k
    <3> QED
      BY <3>1, <3>2, <3>3, <3>4, <1>1, <2>5, ShrunkOrder
  <2>6. TakenOut(r, r2, {e})
    BY <2>2, <2>4, <2>5, <1>1, <1>4 DEF TakenOut
  <2> QED
    BY <2>6
<1> QED
  BY <1>5, <1>6

(* erase( key ) takes out the ring and its node. *)
LEMMA EraseKeyRemoves ==
  ASSUME MultiInv, kind = "multi", NEW r, Rings(r), NEW k \in MultiKeys, MultiEraseKey(k)
  PROVE  k \in nodes /\ TakenOut(r, r, {e \in elements : KeyOf(e) = k})
<1> DEFINE own == {e \in elements : KeyOf(e) = k}
<1>1. Shape /\ TreeInv /\ pc = "idle" /\ k \in nodes /\ elements \subseteq Element /\ k \in Nat \ {0}
  BY KeyFacts DEF MultiInv, RbInv, TreeInv, MultiEraseKey, RingInv
<1>2. find(k) = k
  BY <1>1, FoundIs
<1>3. Range(Ring(k)) = own
  <2>1. Ring(k) = r[k]
    BY <1>1, RingIs
  <2>2. /\ \A i \in 1 .. Len(r[k]) : r[k][i] \in own
        /\ \A e \in own : Has(r[k], e)
        /\ r[k] \in Seq(elements)
    <3>1. \A i \in 1 .. Len(r[k]) : r[k][i] \in own
      BY <1>1, RingFacts
    <3> QED
      BY <3>1, <1>1 DEF Rings
  <2>3. DOMAIN r[k] = 1 .. Len(r[k])
    BY <2>2
  <2> HIDE DEF own
  <2> QED
    BY <2>1, <2>2, <2>3 DEF Range, Has
<1>4. /\ elements' = elements \ own /\ mSize' = mSize - Cardinality(own)
      /\ fwd' = [x \in elements' |-> fwd[x]] /\ bwd' = [x \in elements' |-> bwd[x]]
      /\ Unlink(k)
      /\ head' = [x \in nodes' |-> head[x]]
  BY <1>2, <1>3 DEF MultiEraseKey, Unring, Restrict
<1>5. nodes' = nodes \ {k} /\ pc' # "clear"
  BY <1>1, <1>4, UnlinkNodes
<1>6. /\ \A d \in elements' : fwd'[d] = fwd[d] /\ bwd'[d] = bwd[d]
      /\ DOMAIN head' = nodes' /\ \A x \in nodes' : head'[x] = head[x]
  BY <1>4
<1>7. Rings(r)'
  BY <1>1, <1>4, <1>5, <1>6, RingsGone
<1>8. TakenOut(r, r, own)
  BY <1>4, <1>5, <1>7 DEF TakenOut
<1> QED
  BY <1>1, <1>8

(* clear() finds all elements in the rings. *)
LEMMA ClearRemoves ==
  ASSUME MultiInv, kind = "multi", MultiClear
  PROVE  elements' = {} /\ RingInv'
<1>1. Shape /\ TreeInv /\ pc = "idle" /\ elements \subseteq Element
  BY DEF MultiInv, RbInv, TreeInv, MultiClear, RingInv
<1>2. PICK r : Rings(r)
  BY <1>1 DEF MultiInv, RingInv
<1>3. elements' = {}
  <2> SUFFICES ASSUME NEW e \in elements PROVE \E x \in nodes : e \in Range(Ring(x))
    BY DEF MultiClear
  <2>1. KeyOf(e) \in nodes /\ Has(r[KeyOf(e)], e) /\ r[KeyOf(e)] \in Seq(elements)
    BY <1>2 DEF Rings
  <2>2. Ring(KeyOf(e)) = r[KeyOf(e)]
    BY <1>1, <1>2, <2>1, RingIs
  <2>3. DOMAIN r[KeyOf(e)] = 1 .. Len(r[KeyOf(e)])
    BY <2>1
  <2> QED
    BY <2>1, <2>2, <2>3 DEF Range, Has
<1>4. head' = << >> /\ mSize' = 0 /\ ClearStart /\ nodes' = nodes
  BY DEF MultiClear, treeVars
<1>5. pc' # "clear" => \E x : Rings(x)'
  <2> SUFFICES ASSUME pc' # "clear" PROVE \E x : Rings(x)'
    OBVIOUS
  <2>1. root = Null
    BY <1>4 DEF ClearStart, GoTo
  <2>2. nodes' = {}
    BY <1>1, <1>4, <2>1, AtRest DEF Null
  <2>3. DOMAIN head' = {}
    BY <1>4
  <2>4. Rings(<< >>)'
    BY <1>3, <2>2, <2>3 DEF Rings
  <2> QED
    BY <2>4
<1>6. IsFiniteSet(elements') /\ Cardinality(elements') = 0 /\ elements' \subseteq Element'
  BY <1>3, FS_EmptySet
<1> QED
  BY <1>3, <1>4, <1>5, <1>6 DEF RingInv

(* The loops do nothing to the rings. *)
LEMMA StepNodes ==
  ASSUME TreeInv, TreeInv', Step
  PROVE  \/ pc = "clear" /\ (pc' = "clear" \/ (pc' # "clear" /\ nodes' = {}))
         \/ pc # "clear" /\ pc' # "clear" /\ nodes' = nodes
<1>1. CASE ClearDown
  BY <1>1 DEF ClearDown, GoTo
<1>2. CASE ClearEnd
  <2>1. pc = "clear"
    BY <1>2 DEF ClearEnd
  <2>2. parent[n] = Null => root' = 0
    BY <1>2 DEF ClearEnd, Null
  <2>3. parent[n] # Null => pc' = "clear"
    BY <1>2 DEF ClearEnd, GoTo
  <2>4. root' = 0 => nodes' = {}
    <3>1. Shape'
      BY DEF TreeInv
    <3>2. PICK S : IsTree(nodes', left', right', parent', root', S)
      BY <3>1 DEF Shape
    <3> QED
      BY <3>2 DEF IsTree
  <2> QED
    BY <2>1, <2>2, <2>3, <2>4
<1>3. CASE BalanceDone \/ BalanceRedUncle \/ BalanceBlackUncle
  BY <1>3 DEF BalanceDone, BalanceRedUncle, BalanceBlackUncle, Return, GoTo, treeVars
<1>4. CASE DoubleBlackNephew \/ DoubleBlackRedParent \/ DoubleBlackUp \/ DoubleBlackRedSibling
  BY <1>4 DEF DoubleBlackNephew, DoubleBlackRedParent, DoubleBlackUp, DoubleBlackRedSibling, Return, GoTo
<1>5. CASE CopyDown \/ CopyUp \/ CopyEnd \/ CopyFails \/ UndoDown \/ UndoEnd
  BY <1>5 DEF CopyDown, CopyChild, CopyUp, CopyEnd, CopyFails, UndoDown, UndoEnd, Return, GoTo, treeVars
<1> QED
  BY <1>1, <1>2, <1>3, <1>4, <1>5 DEF Step

(* and keep the invariant. *)
LEMMA StepKeepsRings ==
  ASSUME MultiInv, kind = "multi", TreeInv', Step, UNCHANGED ringVars
  PROVE  RingInv'
<1>1. TreeInv
  BY DEF MultiInv, RbInv
<1>2. /\ elements' = elements /\ fwd' = fwd /\ bwd' = bwd /\ head' = head /\ mSize' = mSize
  BY DEF ringVars
<1>3. elements' \subseteq Element' /\ IsFiniteSet(elements') /\ mSize' = Cardinality(elements')
  BY <1>2 DEF MultiInv, RingInv, Element
<1>4. CASE pc = "clear" /\ pc' = "clear"
  BY <1>2, <1>3, <1>4 DEF MultiInv, RingInv
<1>5. CASE pc = "clear" /\ pc' # "clear" /\ nodes' = {}
  <2>1. elements' = {} /\ head' = << >>
    BY <1>2, <1>5 DEF MultiInv, RingInv
  <2>2. DOMAIN head' = {}
    BY <2>1
  <2>3. Rings(<< >>)'
    BY <2>1, <2>2, <1>5 DEF Rings
  <2>4. \E x : Rings(x)'
    BY <2>3
  <2> QED
    BY <1>3, <1>5, <2>4 DEF RingInv
<1>6. CASE pc # "clear" /\ pc' # "clear" /\ nodes' = nodes
  <2>1. PICK r : Rings(r)
    BY <1>6 DEF MultiInv, RingInv
  <2>2. Rings(r)'
    BY <2>1, <1>2, <1>6 DEF Rings
  <2>3. \E x : Rings(x)'
    BY <2>2
  <2> QED
    BY <1>3, <1>6, <2>3 DEF RingInv
<1> QED
  BY <1>1, <1>4, <1>5, <1>6, StepNodes

(* An object that was just made satisfies the invariant, *)
LEMMA MultiInvInit ==
  ASSUME Init
  PROVE  MultiInv
<1>1. RbInv
  BY RbInvInit DEF Init
<1>2. elements = {} /\ head = << >> /\ mSize = 0 /\ nodes = {} /\ pc = "idle" /\ kind \in {"set", "multi"}
  BY DEF Init, RbInit
<1>3. Rings(<< >>)
  <2>1. DOMAIN head = {}
    BY <1>2
  <2> QED
    BY <2>1, <1>2 DEF Rings
<1>4. IsFiniteSet(elements) /\ Cardinality(elements) = 0
  BY <1>2, FS_EmptySet
<1>5. \E r : Rings(r)
  BY <1>3
<1> QED
  BY <1>1, <1>2, <1>4, <1>5 DEF MultiInv, RingInv

(* Every step of a multiset is one of its tree. *)
LEMMA TreeSteps ==
  ASSUME MultiInv, Next
  PROVE  [RbNext]_rbVars
<1>1. CASE kind = "set"
  BY <1>1 DEF Next
<1> SUFFICES ASSUME kind = "multi", MultiNext PROVE [RbNext]_rbVars
  BY <1>1 DEF Next
<1>2. ASSUME NEW k \in MultiKeys, MultiInsert(k) PROVE RbNext
  BY <1>2, KeyFacts DEF MultiInsert, Insert, RbNext
<1>3. ASSUME NEW k \in MultiKeys, MultiEraseKey(k) PROVE RbNext
  <2>1. find(k) = k /\ k \in nodes /\ Unlink(k) /\ pc = "idle" /\ UNCHANGED copyVars
    <3>1. k \in nodes /\ pc = "idle" /\ TreeInv /\ k \in Nat \ {0}
      BY <1>3, KeyFacts DEF MultiEraseKey, MultiInv, RbInv
    <3>2. find(k) = k
      BY <3>1, FoundIs
    <3> QED
      BY <3>1, <3>2, <1>3 DEF MultiEraseKey
  <2> QED
    BY <2>1 DEF Erase, RbNext
<1>4. ASSUME NEW h \in elements \cup {NoElement}, NEW k \in MultiKeys, MultiInsertHint(h, k) PROVE RbNext
  <2>1. pc = "idle" /\ hinted_insert(TreeAt(Position(h, k)), k) /\ UNCHANGED copyVars
    BY <1>4 DEF MultiInsertHint
  <2>2. k \in Nat /\ k \in Keys /\ pc # "clear"
    BY <2>1, KeyFacts
  <2>3. Shape /\ elements \subseteq Element
    BY DEF MultiInv, RbInv, TreeInv, RingInv
  <2>4. PICK r : Rings(r)
    BY <2>2 DEF MultiInv, RingInv
  <2>5. Ordered(Contents, elements, Order(r))
    BY <2>2, <2>3, <2>4, ContentsIs
  <2>6. TreeAt(Position(h, k)) \in nodes \cup {Null}
    <3> DEFINE c == Contents
               q == Abstract!Place(PlaceOf(h), k)
    <3>1. Fits(c, q, k) /\ Position(h, k) = At(c, q)
      BY <2>2, <2>4, HintPlace
    <3>2. /\ Len(c) \in Nat /\ \A i \in 1 .. Len(c) : KeyOf(c[i]) \in nodes
      BY <2>3, <2>4, <2>5, InOrder
    <3> HIDE DEF c, q
    <3>3. CASE q = Len(c) + 1
      BY <3>1, <3>3 DEF At, NoElement, TreeAt, KeyOf
    <3>4. CASE q # Len(c) + 1
      <4>1. q \in 1 .. Len(c) /\ Position(h, k) = c[q]
        BY <3>1, <3>2, <3>4 DEF At, Fits
      <4> QED
        BY <4>1, <3>2 DEF TreeAt
    <3> QED
      BY <3>3, <3>4
  <2>7. InsertHint(TreeAt(Position(h, k)), k)
    BY <2>1 DEF InsertHint
  <2> QED
    BY <2>2, <2>6, <2>7 DEF RbNext
<1>5. ASSUME NEW e \in elements, MultiErase(e) PROVE [RbNext]_rbVars
  <2>1. pc = "idle" /\ UNCHANGED copyVars
    BY <1>5 DEF MultiErase
  <2>2. CASE fwd[e] = e
    <3>1. Erase(TreeAt(e))
      BY <1>5, <2>1, <2>2 DEF MultiErase, Erase
    <3>2. TreeAt(e) \in nodes
      BY <2>1 DEF MultiInv, RingInv, Rings, TreeAt
    <3> QED
      BY <3>1, <3>2 DEF RbNext
  <2>3. CASE fwd[e] # e
    BY <1>5, <2>1, <2>3 DEF MultiErase, rbVars
  <2> QED
    BY <2>2, <2>3
<1>6. CASE MultiClear
  BY <1>6 DEF MultiClear, Clear, RbNext
<1>7. CASE Step
  BY <1>7 DEF RbNext
<1> QED
  BY <1>2, <1>3, <1>4, <1>5, <1>6, <1>7 DEF MultiNext

(* and every step keeps it. *)
LEMMA MultiInvNext ==
  ASSUME MultiInv, [Next]_vars
  PROVE  MultiInv'
<1>1. CASE UNCHANGED vars
  <2>1. UNCHANGED rbVars /\ kind' = kind /\ UNCHANGED <<elements, fwd, bwd, head, mSize>>
    BY <1>1 DEF vars, ringVars
  <2>2. RbInv'
    BY <2>1, RbInvNext DEF MultiInv
  <2>3. pc' = pc /\ nodes' = nodes
    BY <2>1 DEF rbVars, treeVars
  <2>4. kind = "multi" => RingInv'
    <3> SUFFICES ASSUME kind = "multi" PROVE RingInv'
      OBVIOUS
    <3>1. RingInv
      BY DEF MultiInv
    <3>2. pc' # "clear" => \E r : Rings(r)'
      BY <2>1, <2>3, <3>1 DEF RingInv, Rings
    <3> QED
      BY <2>1, <2>3, <3>1, <3>2 DEF RingInv, Element
  <2> QED
    BY <2>1, <2>2, <2>4 DEF MultiInv
<1> SUFFICES ASSUME Next PROVE MultiInv'
  BY <1>1
<1>2. RbInv' /\ TreeInv'
  <2>1. RbInv /\ [RbNext]_rbVars
    BY TreeSteps DEF MultiInv
  <2>2. RbInv'
    BY <2>1, RbInvNext
  <2> QED
    BY <2>2 DEF RbInv
<1>3. CASE kind = "set"
  <2>1. kind' = "set"
    BY <1>3 DEF Next
  <2> QED
    BY <1>2, <2>1 DEF MultiInv
<1>4. CASE kind = "multi" /\ MultiNext
  <2>1. kind' = "multi"
    BY <1>4 DEF MultiNext, MultiInsert, MultiEraseKey, MultiInsertHint, MultiErase, MultiClear
  <2>2. RingInv
    BY <1>4 DEF MultiInv
  <2>3. ASSUME NEW k \in MultiKeys, MultiInsert(k) PROVE RingInv'
    <3>1. pc # "clear"
      BY <2>3 DEF MultiInsert
    <3>2. PICK r : Rings(r)
      BY <2>2, <3>1 DEF RingInv
    <3>3. \E e, j, r2 : Added(r, r2, k, e, j)
      BY <1>4, <2>3, <3>2, InsertAdds
    <3> QED
      BY <2>2, <3>3, AddedKeeps
  <2>4. ASSUME NEW k \in MultiKeys, MultiEraseKey(k) PROVE RingInv'
    <3>1. pc # "clear"
      BY <2>4 DEF MultiEraseKey
    <3>2. PICK r : Rings(r)
      BY <2>2, <3>1 DEF RingInv
    <3>3. TakenOut(r, r, {e \in elements : KeyOf(e) = k})
      BY <1>4, <2>4, <3>2, EraseKeyRemoves
    <3> QED
      BY <2>2, <3>3, RemovedKeeps
  <2>5. ASSUME NEW h \in elements \cup {NoElement}, NEW k \in MultiKeys, MultiInsertHint(h, k)
        PROVE  RingInv'
    <3>1. pc # "clear" /\ Shape /\ elements \subseteq Element /\ k \in Nat
      <4>1. pc # "clear"
        BY <2>5 DEF MultiInsertHint
      <4> QED
        BY <4>1, <2>2, KeyFacts DEF MultiInv, RbInv, TreeInv, RingInv
    <3>2. PICK r : Rings(r)
      BY <2>2, <3>1 DEF RingInv
    <3>3. Ordered(Contents, elements, Order(r))
      BY <1>4, <3>1, <3>2, ContentsIs
    <3>4. PICK q : Fits(Contents, q, k) /\ Position(h, k) = At(Contents, q)
      BY <1>4, <3>1, <3>2, HintPlace
    <3>5. PICK pos : pos = At(Contents, q)
      OBVIOUS
    <3>6. pos = Position(h, k)
      BY <3>4, <3>5
    <3>7. \E e, j, r2 : Added(r, r2, k, e, j)
      BY ONLY MultiInv, <1>4, <2>5, <3>2, <3>3, <3>4, <3>5, <3>6, HintAdds
    <3> QED
      BY <2>2, <3>7, AddedKeeps
  <2>6. ASSUME NEW e \in elements, MultiErase(e) PROVE RingInv'
    <3>1. pc # "clear"
      BY <2>6 DEF MultiErase
    <3>2. PICK r : Rings(r)
      BY <2>2, <3>1 DEF RingInv
    <3>3. \E r2 : TakenOut(r, r2, {e})
      BY <1>4, <2>6, <3>2, EraseRemoves
    <3> QED
      BY <2>2, <3>3, RemovedKeeps
  <2>7. MultiClear => RingInv'
    BY <1>4, ClearRemoves
  <2>8. Step /\ UNCHANGED <<kind, ringVars>> => RingInv'
    <3> SUFFICES ASSUME Step, UNCHANGED <<kind, ringVars>> PROVE RingInv'
      OBVIOUS
    <3>1. UNCHANGED ringVars
      OBVIOUS
    <3> QED
      BY ONLY MultiInv, <1>2, <1>4, Step, <3>1, StepKeepsRings
  <2>9. RingInv'
    BY <1>4, <2>3, <2>4, <2>5, <2>6, <2>7, <2>8 DEF MultiNext
  <2> QED
    BY <1>2, <2>1, <2>9 DEF MultiInv
<1> QED
  BY <1>3, <1>4 DEF Next

(* The object is a set or a multiset, its tree is always a red-black tree or one
   step of a repair away from it, and the elements of a multiset are in rings,
   one for each node of the tree and linked both ways, whatever is inserted, with
   any hint, or erased. *)
THEOREM MultiInvariant == Spec => []MultiInv
<1>1. Init => MultiInv
  BY MultiInvInit
<1>2. MultiInv /\ [Next]_vars => MultiInv'
  BY MultiInvNext
<1> QED
  BY <1>1, <1>2, PTL DEF Spec

(* No list node is lost and none is in the tree after it was freed, the rings are
   linked both ways, mSize and count are right, and an iterator goes over all
   elements forwards and backwards. *)
THEOREM MultiRingsWhole == Spec => []RingsWhole
<1>1. MultiInv => RingsWhole
  BY RingsWholeHolds
<1> QED
  BY <1>1, MultiInvariant, PTL

(* The tree of a set or multiset is a search tree of just the nodes that are
   allocated, with correct parent pointers, size and ends. *)
THEOREM ContainerSorted == Spec => []Sorted
<1>1. MultiInv => Sorted
  BY SortedHolds DEF MultiInv
<1> QED
  BY <1>1, MultiInvariant, PTL

(* Between operations the tree of a set or multiset passes its own test of
   sanity, _Sane(). *)
THEOREM ContainerIsSane == Spec => []IsSane
<1>1. MultiInv => IsSane
  BY IsSaneHolds DEF MultiInv
<1> QED
  BY <1>1, MultiInvariant, PTL

(* Iterators and bounds find the neighbour of every node and key in the tree of
   a set or multiset at rest. *)
THEOREM ContainerWalks == Spec => []Walks
<1>1. MultiInv => Walks
  BY WalksHolds DEF MultiInv
<1> QED
  BY <1>1, MultiInvariant, PTL

(* The tree of a set is copied whole or not at all, in every reachable state. *)
THEOREM ContainerCopies == Spec => []Copies
<1>1. MultiInv => Copies
  BY CopiesHolds DEF MultiInv
<1> QED
  BY <1>1, MultiInvariant, PTL

(* What the invariant says of the sequence of the elements. *)
Listed ==
  /\ kind = "multi" /\ pc # "clear" =>
       \A r : Rings(r) => Ordered(Contents, elements, Order(r)) /\ OneWay(elements, Order(r))
  /\ kind = "set" \/ pc = "clear" \/ elements = {} => Contents = << >>

(* It follows from the invariant, *)
LEMMA ListedHolds ==
  ASSUME MultiInv
  PROVE  Listed
<1>1. ASSUME kind = "multi", pc # "clear", NEW r, Rings(r)
      PROVE  Ordered(Contents, elements, Order(r)) /\ OneWay(elements, Order(r))
  <2>1. Shape /\ elements \subseteq Element
    BY <1>1 DEF MultiInv, RbInv, TreeInv, RingInv
  <2> QED
    BY <1>1, <2>1, ContentsIs, OrderOneWay
<1>2. ASSUME kind = "set" \/ pc = "clear" PROVE Contents = << >>
  BY <1>2 DEF Contents
<1>3. ASSUME kind = "multi", pc # "clear", elements = {} PROVE Contents = << >>
  <2>1. PICK r : Rings(r)
    BY <1>3 DEF MultiInv, RingInv
  <2>2. Ordered(Contents, elements, Order(r))
    BY <1>1, <1>3, <2>1
  <2> QED
    BY <2>2, <1>3 DEF Ordered
<1> QED
  BY <1>1, <1>2, <1>3 DEF Listed, MultiInv

(* and says where each element is. *)
LEMMA ListedFacts ==
  ASSUME MultiInv, Listed, kind = "multi", pc # "clear", NEW r, Rings(r)
  PROVE  /\ Ordered(Contents, elements, Order(r)) /\ OneWay(elements, Order(r))
         /\ Contents \in Seq(elements) /\ Len(Contents) \in Nat /\ Distinct(Contents)
         /\ \A i \in 1 .. Len(Contents) : /\ Contents[i] \in elements
                                          /\ KeyOf(Contents[i]) \in nodes /\ KeyOf(Contents[i]) \in Nat
         /\ \A y \in elements : \E i \in 1 .. Len(Contents) : Contents[i] = y
         /\ \A i \in 1 .. Len(Contents) : \A j \in 1 .. Len(Contents) :
              i < j => Precedes(r, Contents[i], Contents[j])
         /\ Range(Contents) = elements
<1>1. Ordered(Contents, elements, Order(r)) /\ OneWay(elements, Order(r)) /\ Shape
  BY DEF Listed, MultiInv, RbInv, TreeInv
<1> DEFINE c == Contents
<1>2. c = Contents
  OBVIOUS
<1> HIDE DEF c
<1>3. Ordered(c, elements, Order(r))
  BY <1>1, <1>2
<1>4. /\ c \in Seq(elements) /\ Len(c) \in Nat /\ Distinct(c)
      /\ \A i \in 1 .. Len(c) : c[i] \in elements /\ KeyOf(c[i]) \in nodes /\ KeyOf(c[i]) \in Nat
      /\ \A y \in elements : \E i \in 1 .. Len(c) : c[i] = y
      /\ \A i \in 1 .. Len(c) : \A j \in 1 .. Len(c) : i < j => Precedes(r, c[i], c[j])
  BY <1>1, <1>3, InOrder
<1>5. Range(c) = elements
  <2>1. DOMAIN c = 1 .. Len(c)
    BY <1>4
  <2>2. Range(c) = {c[i] : i \in 1 .. Len(c)}
    BY <2>1 DEF Range
  <2> QED
    BY <1>4, <2>2
<1> QED
  BY <1>1, <1>2, <1>4, <1>5

(* The sequence c with e put before place q. *)
PutBefore(c, q, e) == SubSeq(c, 1, q - 1) \o <<e>> \o SubSeq(c, q, Len(c))

(* An added element comes where the places before it are those of the elements
   before it. *)
LEMMA AddedSeq ==
  ASSUME MultiInv, Listed, Listed', kind = "multi", kind' = "multi", pc # "clear",
         NEW r, Rings(r), NEW r2, NEW k \in MultiKeys, NEW e, NEW j, Added(r, r2, k, e, j),
         NEW q, q \in 1 .. Len(Contents) + 1,
         \A i \in 1 .. Len(Contents) :
           i < q <=> \/ KeyOf(Contents[i]) < k
                     \/ KeyOf(Contents[i]) = k /\ PlaceIn(r[k], Contents[i]) < j
  PROVE  Contents' = PutBefore(Contents, q, e)
<1> DEFINE c == Contents
           W == Order(r)
           W2 == {p \in elements' \X elements' : Precedes(r2, p[1], p[2])}
<1>1. /\ Ordered(c, elements, W) /\ c \in Seq(elements)
      /\ \A i \in 1 .. Len(c) : c[i] \in elements
  BY ListedFacts
<1>2. /\ Rings(r2)' /\ pc' # "clear" /\ Grows(r, r2, k, e, j) /\ KeyOf(e) = k
      /\ elements' = elements \cup {e}
  BY DEF Added
<1>3. Order(r2)' = W2
  BY DEF Order
<1>4. Ordered(c', elements', W2) /\ OneWay(elements', W2)
  <2>1. Ordered(c', elements', Order(r2)') /\ OneWay(elements', Order(r2)')
    BY <1>2 DEF Listed
  <2> QED
    BY <2>1, <1>3
<1>5. /\ \A d \in elements : \A f \in elements : Precedes(r, d, f) => Precedes(r2, d, f)
      /\ \A d \in elements :
           IF KeyOf(d) < k \/ (KeyOf(d) = k /\ PlaceIn(r[k], d) < j)
           THEN Precedes(r2, d, e) ELSE Precedes(r2, e, d)
  <2>1. Shape /\ k \in Nat
    BY KeyFacts DEF MultiInv, RbInv, TreeInv
  <2> QED
    BY <2>1, <1>2, GrownOrder
<1>6. \A i \in 1 .. Len(c) : i < q <=> \/ KeyOf(c[i]) < k
                                       \/ KeyOf(c[i]) = k /\ PlaceIn(r[k], c[i]) < j
  OBVIOUS
<1>7. q \in 1 .. Len(c) + 1
  OBVIOUS
<1>8. \A x \in elements : \A y \in elements : <<x, y>> \in W => <<x, y>> \in W2
  <2> SUFFICES ASSUME NEW x \in elements, NEW y \in elements, <<x, y>> \in W PROVE <<x, y>> \in W2
    OBVIOUS
  <2>1. Precedes(r2, x, y)
    BY <1>5, OrderIs
  <2>2. x \in elements' /\ y \in elements'
    BY <1>2
  <2> QED
    BY <2>1, <2>2
<1> DEFINE c2 == c'
<1>9. Ordered(c2, elements', W2)
  BY <1>4
<1> HIDE DEF c, W, c2
<1>10. \A i \in 1 .. Len(c) : IF i < q THEN <<c[i], e>> \in W2 ELSE <<e, c[i]>> \in W2
  <2> SUFFICES ASSUME NEW i \in 1 .. Len(c)
               PROVE  IF i < q THEN <<c[i], e>> \in W2 ELSE <<e, c[i]>> \in W2
    OBVIOUS
  <2>1. c[i] \in elements /\ c[i] \in elements' /\ e \in elements'
    BY <1>1, <1>2
  <2>2. IF i < q THEN Precedes(r2, c[i], e) ELSE Precedes(r2, e, c[i])
    BY <2>1, <1>5, <1>6
  <2> QED
    BY <2>1, <2>2
<1> HIDE DEF W2
<1>11. Ordered(c, elements, W2)
  BY <1>1, <1>8, OrderedKept
<1>12. Ordered(Inserted(c, q, e), elements \cup {e}, W2)
  BY <1>7, <1>10, <1>11, OrderedInserted
<1>13. c2 = Inserted(c, q, e)
  <2>1. Ordered(Inserted(c, q, e), elements', W2)
    BY <1>2, <1>12
  <2> QED
    BY <1>4, <1>9, <2>1, OrderedIsUnique
<1>14. PutBefore(c, q, e) = Inserted(c, q, e)
  <2>1. c \in Seq(elements \cup {e}) /\ e \in elements \cup {e}
    BY <1>1
  <2> QED
    BY <2>1, <1>7, InsertedIs DEF PutBefore
<1> QED
  BY <1>13, <1>14 DEF c, c2

(* What is left of the sequence when one piece of it is taken out. *)
LEMMA RemovedSeq ==
  ASSUME MultiInv, Listed, Listed', kind = "multi", kind' = "multi", pc # "clear",
         NEW r, Rings(r), NEW r2, NEW D, TakenOut(r, r2, D),
         NEW a \in Nat, NEW b \in Nat, a < b, b <= Len(Contents) + 1,
         \A i \in 1 .. Len(Contents) : Contents[i] \in D <=> a < i /\ i < b
  PROVE  Contents' = SubSeq(Contents, 1, a) \o SubSeq(Contents, b, Len(Contents))
<1> DEFINE c == Contents
           m == Len(c)
           W == Order(r)
           W2 == {p \in elements' \X elements' : Precedes(r2, p[1], p[2])}
           A == {c[x] : x \in 1 .. a}
           B == {c[x] : x \in b .. m}
<1>1. /\ Ordered(c, elements, W) /\ c \in Seq(elements) /\ m \in Nat
      /\ \A i \in 1 .. m : c[i] \in elements
      /\ \A y \in elements : \E i \in 1 .. m : c[i] = y
      /\ \A i \in 1 .. m : \A j \in 1 .. m : i < j => <<c[i], c[j]>> \in W
  <2>1. /\ Ordered(c, elements, W) /\ c \in Seq(elements) /\ m \in Nat
        /\ \A i \in 1 .. m : c[i] \in elements
        /\ \A y \in elements : \E i \in 1 .. m : c[i] = y
    BY ListedFacts
  <2> HIDE DEF c, W
  <2>2. \A i \in 1 .. m : \A j \in 1 .. m : i < j => <<c[i], c[j]>> \in W
    <3>1. Ordered(c, elements, W)
      BY <2>1
    <3> QED
      BY ONLY <3>1 DEF Ordered, m
  <2> HIDE DEF m
  <2> QED
    BY ONLY <2>1, <2>2
<1>2. /\ Rings(r2)' /\ pc' # "clear" /\ D \subseteq elements /\ elements' = elements \ D
      /\ \A d \in elements' : \A f \in elements' : Precedes(r, d, f) => Precedes(r2, d, f)
  BY DEF TakenOut
<1>3. Order(r2)' = W2
  BY DEF Order
<1>4. Ordered(c', elements', W2) /\ OneWay(elements', W2)
  <2>1. Ordered(c', elements', Order(r2)') /\ OneWay(elements', Order(r2)')
    BY <1>2 DEF Listed
  <2> QED
    BY <2>1, <1>3
<1>5. b <= m + 1 /\ \A i \in 1 .. m : c[i] \in D <=> a < i /\ i < b
  OBVIOUS
<1>6. \A x \in elements' : \A y \in elements' : <<x, y>> \in W => <<x, y>> \in W2
  <2> SUFFICES ASSUME NEW x \in elements', NEW y \in elements', <<x, y>> \in W PROVE <<x, y>> \in W2
    OBVIOUS
  <2>1. x \in elements /\ y \in elements
    BY <1>2
  <2>2. Precedes(r2, x, y)
    BY <2>1, <1>2, OrderIs
  <2> QED
    BY <2>2
<1> DEFINE c2 == c'
<1>7. Ordered(c2, elements', W2)
  BY <1>4
<1> HIDE DEF c, W, W2, c2
<1>8. A \cup B = elements'
  <2>1. ASSUME NEW x \in 1 .. a PROVE c[x] \in elements'
    <3>1. x \in 1 .. m /\ ~(a < x)
      BY <1>1, <1>5
    <3> QED
      BY <3>1, <1>1, <1>2, <1>5
  <2>2. ASSUME NEW x \in b .. m PROVE c[x] \in elements'
    <3>1. x \in 1 .. m /\ ~(x < b)
      BY <1>1, <1>5
    <3> QED
      BY <3>1, <1>1, <1>2, <1>5
  <2>3. ASSUME NEW y \in elements' PROVE y \in A \cup B
    <3>1. PICK i \in 1 .. m : c[i] = y
      BY <1>1, <1>2
    <3>2. ~(a < i /\ i < b)
      BY <3>1, <1>2, <1>5
    <3>3. i \in 1 .. a \/ i \in b .. m
      BY <3>2, <1>1
    <3> QED
      BY <3>1, <3>3
  <2> QED
    BY <2>1, <2>2, <2>3
<1>9. Ordered(SubSeq(c, 1, a), A, W)
  <2>1. 1 \in Nat /\ a <= Len(c)
    BY <1>1, <1>5
  <2> QED
    BY <2>1, <1>1, OrderedPart
<1>10. Ordered(SubSeq(c, b, m), B, W)
  <2>1. 1 <= b /\ m <= Len(c) /\ m \in Nat
    BY <1>1, <1>5
  <2> QED
    BY <2>1, <1>1, OrderedPart
<1>11. \A x \in A : \A y \in B : <<x, y>> \in W
  <2> SUFFICES ASSUME NEW i \in 1 .. a, NEW j \in b .. m PROVE <<c[i], c[j]>> \in W
    OBVIOUS
  <2> HIDE DEF m, A, B
  <2>1. i \in 1 .. m /\ j \in 1 .. m /\ i < j
    <3>1. m \in Nat /\ b <= m + 1 /\ i \in Int /\ j \in Int /\ 1 <= i /\ i <= a /\ b <= j /\ j <= m
      BY <1>1, <1>5
    <3> QED
      BY <3>1
  <2> QED
    BY <2>1, <1>1
<1> DEFINE t == SubSeq(c, 1, a) \o SubSeq(c, b, m)
<1>12. Ordered(t, A \cup B, W)
  <2> HIDE DEF A, B, m
  <2> QED
    BY <1>9, <1>10, <1>11, OrderedJoined
<1> HIDE DEF A, B, t
<1>13. Ordered(t, elements', W)
  BY <1>8, <1>12
<1>14. Ordered(t, elements', W2)
  BY <1>6, <1>13, OrderedKept
<1>15. c2 = t
  BY <1>4, <1>7, <1>14, OrderedIsUnique
<1> QED
  BY <1>15 DEF c, c2, t

(* insert( v ). *)
LEMMA InsertSeq ==
  ASSUME MultiInv, Listed, Listed', kind = "multi", NEW k \in MultiKeys, MultiInsert(k)
  PROVE  \E e \in Element \ Range(Contents) : Abstract!Insert(e)
<1>1. pc # "clear" /\ kind' = "multi" /\ k \in Nat
  BY KeyFacts DEF MultiInsert
<1>2. Shape
  BY DEF MultiInv, RbInv, TreeInv
<1>3. PICK r : Rings(r)
  BY <1>1 DEF MultiInv, RingInv
<1>4. PICK e, j, r2 : Added(r, r2, k, e, j) /\ (k \in nodes => j = Len(r[k]) + 1)
  BY <1>3, InsertAdds
<1> DEFINE c == Contents
           q == Abstract!Upper(k)
<1>5. /\ Ordered(c, elements, Order(r))
      /\ \A i \in 1 .. Len(c) : c[i] \in elements /\ KeyOf(c[i]) \in nodes /\ KeyOf(c[i]) \in Nat
      /\ Range(c) = elements
  BY <1>1, <1>3, ListedFacts
<1>6. /\ q \in 1 .. Len(c) + 1
      /\ \A i \in 1 .. Len(c) : i < q <=> KeyOf(c[i]) <= k
  BY <1>1, <1>2, <1>3, <1>5, UpperIs
<1> HIDE DEF c, q
<1>7. \A i \in 1 .. Len(c) : i < q <=> \/ KeyOf(c[i]) < k
                                       \/ KeyOf(c[i]) = k /\ PlaceIn(r[k], c[i]) < j
  <2> SUFFICES ASSUME NEW i \in 1 .. Len(c)
               PROVE  i < q <=> \/ KeyOf(c[i]) < k
                                \/ KeyOf(c[i]) = k /\ PlaceIn(r[k], c[i]) < j
    OBVIOUS
  <2>1. KeyOf(c[i]) = k => PlaceIn(r[k], c[i]) < j
    <3> SUFFICES ASSUME KeyOf(c[i]) = k PROVE PlaceIn(r[k], c[i]) < j
      OBVIOUS
    <3>1. k \in nodes /\ j = Len(r[k]) + 1
      BY <1>4, <1>5
    <3>2. PlaceIn(r[k], c[i]) \in 1 .. Len(r[k]) /\ Len(r[k]) \in Nat
      BY <3>1, <1>2, <1>3, <1>5, RingFacts
    <3> QED
      BY <3>1, <3>2
  <2> QED
    BY <2>1, <1>1, <1>5, <1>6
<1>8. Contents' = PutBefore(Contents, q, e)
  <2>1. /\ q \in 1 .. Len(Contents) + 1
        /\ \A i \in 1 .. Len(Contents) :
             i < q <=> \/ KeyOf(Contents[i]) < k
                       \/ KeyOf(Contents[i]) = k /\ PlaceIn(r[k], Contents[i]) < j
    BY <1>6, <1>7 DEF c
  <2> QED
    BY <1>1, <1>3, <1>4, <2>1, AddedSeq
<1>9. e \in Element \ Range(Contents) /\ KeyOf(e) = k
  BY <1>4, <1>5 DEF Added, c
<1>10. Abstract!Insert(e)
  <2>1. Abstract!KeyOf(e) = k
    BY <1>9 DEF Abstract!KeyOf, KeyOf
  <2> QED
    BY <2>1, <1>8 DEF Abstract!Insert, Abstract!InsertBefore, Abstract!Before, Abstract!From, PutBefore, q
<1> QED
  BY <1>9, <1>10

(* insert( hint, v ). *)
LEMMA HintSeq ==
  ASSUME MultiInv, Listed, Listed', kind = "multi", NEW k \in MultiKeys,
         NEW hint \in elements \cup {NoElement}, MultiInsertHint(hint, k)
  PROVE  \E e \in Element \ Range(Contents) :
           /\ elements' = elements \cup {e}
           /\ PlaceOf(hint) \in 1 .. Len(Contents) + 1
           /\ Abstract!InsertHint(PlaceOf(hint), e)
<1>1. pc # "clear" /\ kind' = "multi" /\ k \in Nat
  <2>1. pc = "idle" /\ UNCHANGED kind
    BY DEF MultiInsertHint
  <2> QED
    BY <2>1, KeyFacts
<1>2. Shape
  BY DEF MultiInv, RbInv, TreeInv
<1>3. PICK r : Rings(r)
  BY <1>1 DEF MultiInv, RingInv
<1> DEFINE c == Contents
           q == Abstract!Place(PlaceOf(hint), k)
           pos == At(c, q)
<1>4. PlaceOf(hint) \in 1 .. Len(c) + 1 /\ Fits(c, q, k) /\ Position(hint, k) = pos
  BY <1>1, <1>3, HintPlace
<1>5. /\ Ordered(c, elements, Order(r)) /\ Len(c) \in Nat
      /\ \A i \in 1 .. Len(c) : c[i] \in elements /\ KeyOf(c[i]) \in nodes /\ KeyOf(c[i]) \in Nat
      /\ \A i \in 1 .. Len(c) : \A j \in 1 .. Len(c) : i < j => Precedes(r, c[i], c[j])
      /\ Range(c) = elements
  BY <1>1, <1>3, ListedFacts
<1> HIDE DEF q, pos
<1>6. PICK e, j, r2 : /\ Added(r, r2, k, e, j) /\ e = NewElement(k)
                      /\ k \in nodes => IF pos = NoElement \/ k < KeyOf(pos) THEN j = Len(r[k]) + 1
                                        ELSE KeyOf(pos) = k /\ j = PlaceIn(r[k], pos)
  <2>1. pos = At(Contents, q) /\ pos = Position(hint, k) /\ Fits(Contents, q, k)
        /\ Ordered(Contents, elements, Order(r))
    BY <1>4, <1>5 DEF pos
  <2> QED
    BY ONLY MultiInv, kind = "multi", k \in MultiKeys, MultiInsertHint(hint, k), <1>3, <2>1, HintAdds
<1> HIDE DEF c
<1>7. q \in 1 .. Len(c) + 1 /\ \A i \in 1 .. Len(c) : IF i < q THEN KeyOf(c[i]) <= k ELSE k <= KeyOf(c[i])
  BY <1>4 DEF Fits
<1>8. \A i \in 1 .. Len(c) : i < q <=> \/ KeyOf(c[i]) < k
                                       \/ KeyOf(c[i]) = k /\ PlaceIn(r[k], c[i]) < j
  <2> SUFFICES ASSUME NEW i \in 1 .. Len(c)
               PROVE  i < q <=> \/ KeyOf(c[i]) < k
                                \/ KeyOf(c[i]) = k /\ PlaceIn(r[k], c[i]) < j
    OBVIOUS
  <2>0. KeyOf(c[i]) \in Nat
    BY <1>5
  <2>1. CASE KeyOf(c[i]) # k
    BY <2>0, <2>1, <1>1, <1>7
  <2>2. CASE KeyOf(c[i]) = k
    <3>1. k \in nodes /\ c[i] \in elements
      BY <2>2, <1>5
    <3>2. PlaceIn(r[k], c[i]) \in 1 .. Len(r[k]) /\ Len(r[k]) \in Nat
      BY <3>1, <2>2, <1>2, <1>3, RingFacts
    <3>3. CASE pos = NoElement \/ k < KeyOf(pos)
      <4>1. PlaceIn(r[k], c[i]) < j
        BY <3>1, <3>2, <3>3, <1>6
      <4>2. i < q
        <5> SUFFICES ASSUME ~(i < q) PROVE FALSE
          OBVIOUS
        <5>1. q \in 1 .. Len(c) /\ q # Len(c) + 1 /\ (q = i \/ q < i)
          BY <1>5, <1>7
        <5>2. pos = c[q] /\ pos # NoElement
          <6>1. pos = c[q]
            BY <5>1 DEF At, pos
          <6>2. NoElement \notin elements
            BY NoElementIsNone DEF MultiInv, RingInv
          <6> QED
            BY <6>1, <6>2, <5>1, <1>5
        <5>3. k < KeyOf(c[q]) /\ KeyOf(c[q]) \in Nat
          BY <5>1, <5>2, <3>3, <1>5
        <5>4. q # i
          BY <5>3, <2>2, <1>1
        <5>5. Precedes(r, c[q], c[i])
          BY <5>1, <5>4, <1>5
        <5>6. KeyOf(c[q]) < k \/ KeyOf(c[q]) = k
          BY <5>5, <2>2 DEF Precedes
        <5> QED
          BY <5>3, <5>6, <1>1
      <4> QED
        BY <4>1, <4>2, <2>2
    <3>4. CASE ~(pos = NoElement \/ k < KeyOf(pos))
      <4>1. KeyOf(pos) = k /\ j = PlaceIn(r[k], pos)
        BY <3>1, <3>4, <1>6
      <4>2. q \in 1 .. Len(c) /\ pos = c[q]
        BY <3>4, <1>5, <1>7 DEF At, pos
      <4>3. j \in Nat
        BY <4>1, <4>2, <3>1, <1>2, <1>3, <1>5, RingFacts
      <4>4. i < q => PlaceIn(r[k], c[i]) < j
        <5> SUFFICES ASSUME i < q PROVE PlaceIn(r[k], c[i]) < j
          OBVIOUS
        <5>1. Precedes(r, c[i], c[q])
          BY <4>2, <1>5
        <5> QED
          BY <5>1, <4>1, <4>2, <2>2, <1>1 DEF Precedes
      <4>5. ~(i < q) => ~(PlaceIn(r[k], c[i]) < j)
        <5> SUFFICES ASSUME ~(i < q) PROVE ~(PlaceIn(r[k], c[i]) < j)
          OBVIOUS
        <5>1. CASE i = q
          BY <5>1, <4>1, <4>2, <4>3
        <5>2. CASE i # q
          <6>1. q < i
            BY <5>2, <4>2
          <6>2. Precedes(r, c[q], c[i])
            BY <6>1, <4>2, <1>5
          <6>3. j < PlaceIn(r[k], c[i])
            BY <6>2, <4>1, <4>2, <2>2, <1>1 DEF Precedes
          <6> QED
            BY <6>3, <4>3, <3>2
        <5> QED
          BY <5>1, <5>2
      <4> QED
        BY <4>4, <4>5, <2>2, <1>1
    <3> QED
      BY <3>3, <3>4
  <2> QED
    BY <2>1, <2>2
<1>9. Contents' = PutBefore(Contents, q, e)
  <2>1. /\ q \in 1 .. Len(Contents) + 1
        /\ \A i \in 1 .. Len(Contents) :
             i < q <=> \/ KeyOf(Contents[i]) < k
                       \/ KeyOf(Contents[i]) = k /\ PlaceIn(r[k], Contents[i]) < j
    BY <1>7, <1>8 DEF c
  <2> QED
    BY <1>1, <1>3, <1>6, <2>1, AddedSeq
<1>10. e \in Element \ Range(Contents) /\ KeyOf(e) = k /\ elements' = elements \cup {e}
  BY <1>5, <1>6 DEF Added, c
<1>11. Abstract!InsertHint(PlaceOf(hint), e)
  <2>1. Abstract!KeyOf(e) = k
    BY <1>10 DEF Abstract!KeyOf, KeyOf
  <2> QED
    BY <2>1, <1>9 DEF Abstract!InsertHint, Abstract!InsertBefore, Abstract!Before, Abstract!From, PutBefore, q
<1>12. PlaceOf(hint) \in 1 .. Len(Contents) + 1
  BY <1>4 DEF c
<1> QED
  BY <1>10, <1>11, <1>12

(* erase( iterator ). *)
LEMMA EraseSeq ==
  ASSUME MultiInv, Listed, Listed', kind = "multi", NEW e \in elements, MultiErase(e)
  PROVE  \E i \in DOMAIN Contents : Abstract!Erase(i)
<1>1. pc # "clear" /\ kind' = "multi"
  BY DEF MultiErase
<1>2. PICK r : Rings(r)
  BY <1>1 DEF MultiInv, RingInv
<1>3. PICK r2 : TakenOut(r, r2, {e})
  BY <1>2, EraseRemoves
<1> DEFINE c == Contents
<1>4. /\ c \in Seq(elements) /\ Len(c) \in Nat /\ Distinct(c)
      /\ \A y \in elements : \E i \in 1 .. Len(c) : c[i] = y
  BY <1>1, <1>2, ListedFacts
<1> HIDE DEF c
<1>5. PICK i \in 1 .. Len(c) : c[i] = e
  BY <1>4
<1> DEFINE a == i - 1
           b == i + 1
<1>6. /\ a \in Nat /\ b \in Nat /\ a < b /\ b <= Len(c) + 1
      /\ \A x \in 1 .. Len(c) : c[x] \in {e} <=> a < x /\ x < b
  <2>1. \A x \in 1 .. Len(c) : c[x] = e <=> x = i
    BY <1>4, <1>5 DEF Distinct
  <2>2. \A x \in 1 .. Len(c) : x = i <=> i - 1 < x /\ x < i + 1
    BY <1>4
  <2> QED
    BY <2>1, <2>2, <1>4
<1> HIDE DEF a, b
<1>7. Contents' = SubSeq(Contents, 1, a) \o SubSeq(Contents, b, Len(Contents))
  <2>1. /\ b <= Len(Contents) + 1
        /\ \A x \in 1 .. Len(Contents) : Contents[x] \in {e} <=> a < x /\ x < b
    BY <1>6 DEF c
  <2> QED
    BY <1>1, <1>2, <1>3, <1>6, <2>1, RemovedSeq
<1>8. Abstract!Erase(i)
  BY <1>7 DEF Abstract!Erase, Abstract!Before, Abstract!From, a, b
<1>9. i \in DOMAIN Contents
  BY <1>4, <1>5 DEF c
<1> QED
  BY <1>8, <1>9

(* erase( key ). *)
LEMMA EraseKeySeq ==
  ASSUME MultiInv, Listed, Listed', kind = "multi", NEW k \in MultiKeys, MultiEraseKey(k)
  PROVE  \E i \in DOMAIN Contents : Abstract!EraseKey(Abstract!KeyOf(Contents[i]))
<1>1. pc # "clear" /\ kind' = "multi" /\ k \in Nat
  BY KeyFacts DEF MultiEraseKey
<1>2. Shape
  BY DEF MultiInv, RbInv, TreeInv
<1>3. PICK r : Rings(r)
  BY <1>1 DEF MultiInv, RingInv
<1>4. k \in nodes /\ TakenOut(r, r, {e \in elements : KeyOf(e) = k})
  BY <1>3, EraseKeyRemoves
<1> DEFINE c == Contents
           D == {e \in elements : KeyOf(e) = k}
           low == Abstract!Lower(k)
           up == Abstract!Upper(k)
<1>5. /\ Ordered(c, elements, Order(r)) /\ c \in Seq(elements) /\ Len(c) \in Nat
      /\ \A i \in 1 .. Len(c) : c[i] \in elements /\ KeyOf(c[i]) \in Nat
      /\ \A y \in elements : \E i \in 1 .. Len(c) : c[i] = y
  BY <1>1, <1>3, ListedFacts
<1>6. /\ low \in 1 .. Len(c) + 1 /\ \A i \in 1 .. Len(c) : i < low <=> KeyOf(c[i]) < k
      /\ up \in 1 .. Len(c) + 1 /\ \A i \in 1 .. Len(c) : i < up <=> KeyOf(c[i]) <= k
  BY <1>1, <1>2, <1>3, <1>5, LowerIs, UpperIs
<1> HIDE DEF c, low, up
<1>7. PICK i \in 1 .. Len(c) : KeyOf(c[i]) = k
  <2>1. 1 \in 1 .. Len(r[k])
    BY <1>2, <1>3, <1>4, RingFacts
  <2>2. r[k][1] \in elements /\ KeyOf(r[k][1]) = k
    BY <2>1, <1>2, <1>3, <1>4, RingFacts
  <2> QED
    BY <2>2, <1>5
<1> DEFINE a == low - 1
<1>8. /\ a \in Nat /\ up \in Nat /\ a < up /\ up <= Len(c) + 1
      /\ \A x \in 1 .. Len(c) : c[x] \in D <=> a < x /\ x < up
  <2>1. ~(i < low) /\ i < up
    BY <1>1, <1>6, <1>7
  <2>2. a \in Nat /\ up \in Nat /\ a < up /\ up <= Len(c) + 1
    BY <2>1, <1>5, <1>6
  <2>3. ASSUME NEW x \in 1 .. Len(c) PROVE c[x] \in D <=> a < x /\ x < up
    <3>1. c[x] \in D <=> KeyOf(c[x]) = k
      BY <1>5
    <3>2. KeyOf(c[x]) = k <=> ~(KeyOf(c[x]) < k) /\ KeyOf(c[x]) <= k
      <4>1. \A y \in Nat : y = k <=> ~(y < k) /\ y <= k
        BY <1>1
      <4>2. KeyOf(c[x]) \in Nat
        BY <1>5
      <4> QED
        BY <4>1, <4>2
    <3>3. ~(x < low) <=> a < x
      BY <1>6
    <3> QED
      BY <3>1, <3>2, <3>3, <1>6
  <2> QED
    BY <2>2, <2>3
<1> HIDE DEF a, D
<1>9. Contents' = SubSeq(Contents, 1, a) \o SubSeq(Contents, up, Len(Contents))
  <2>1. /\ up <= Len(Contents) + 1
        /\ \A x \in 1 .. Len(Contents) : Contents[x] \in D <=> a < x /\ x < up
    BY <1>8 DEF c
  <2>2. TakenOut(r, r, D)
    BY <1>4 DEF D
  <2> QED
    BY <1>1, <1>3, <1>8, <2>1, <2>2, RemovedSeq
<1>10. Abstract!EraseKey(k)
  BY <1>9 DEF Abstract!EraseKey, Abstract!Before, Abstract!From, a, low, up
<1>11. i \in DOMAIN Contents /\ Abstract!KeyOf(Contents[i]) = k
  BY <1>5, <1>7 DEF c, Abstract!KeyOf, KeyOf
<1> QED
  BY <1>10, <1>11

(* Where no element comes or goes the sequence stays. *)
LEMMA SameSeq ==
  ASSUME MultiInv, MultiInv', Listed, Listed', kind' = kind, UNCHANGED ringVars,
         \/ pc # "clear" /\ pc' # "clear" /\ nodes' = nodes
         \/ pc = "clear" /\ (pc' = "clear" \/ elements' = {})
         \/ kind = "set"
  PROVE  Contents' = Contents
<1>1. elements' = elements /\ fwd' = fwd /\ bwd' = bwd /\ head' = head
  BY DEF ringVars
<1>2. CASE kind = "set"
  BY <1>2 DEF Listed
<1>3. CASE pc = "clear" /\ (pc' = "clear" \/ elements' = {})
  BY <1>3 DEF Listed
<1>4. CASE kind = "multi" /\ pc # "clear" /\ pc' # "clear" /\ nodes' = nodes
  <2>1. PICK r : Rings(r)
    BY <1>4 DEF MultiInv, RingInv
  <2>2. Rings(r)'
    BY <2>1, <1>1, <1>4 DEF Rings
  <2>3. Order(r)' = Order(r)
    BY <1>1 DEF Order
  <2> DEFINE W == Order(r)
             c2 == Contents'
  <2>4. Ordered(c2, elements, W) /\ Ordered(Contents, elements, W) /\ OneWay(elements, W)
    <3>1. Ordered(c2, elements', Order(r)')
      BY <1>4, <2>2 DEF Listed
    <3>2. Ordered(Contents, elements, W) /\ OneWay(elements, W)
      BY <1>4, <2>1 DEF Listed
    <3> QED
      BY <3>1, <3>2, <1>1, <2>3
  <2> HIDE DEF W, c2
  <2>5. c2 = Contents
    BY <2>4, OrderedIsUnique
  <2> QED
    BY <2>5 DEF c2
<1> QED
  BY <1>2, <1>3, <1>4 DEF MultiInv

(* Every step does to the sequence what OrderedMulti says. *)
LEMMA MultiStep ==
  ASSUME MultiInv, MultiInv', Listed, Listed', [Next]_vars
  PROVE  [Abstract!Next]_Contents
<1>1. CASE UNCHANGED vars
  <2>1. kind' = kind /\ pc' = pc /\ nodes' = nodes /\ UNCHANGED ringVars
    BY <1>1 DEF vars, rbVars, treeVars
  <2>2. \/ pc # "clear" /\ pc' # "clear" /\ nodes' = nodes
        \/ pc = "clear" /\ (pc' = "clear" \/ elements' = {})
    BY <2>1
  <2>3. Contents' = Contents
    BY <2>1, <2>2, SameSeq
  <2> QED
    BY <2>3
<1>2. CASE kind = "set" /\ UNCHANGED <<kind, ringVars>>
  <2>1. kind' = kind /\ UNCHANGED ringVars
    BY <1>2
  <2>2. Contents' = Contents
    BY <2>1, <1>2, SameSeq
  <2> QED
    BY <2>2
<1>3. ASSUME kind = "multi", NEW k \in MultiKeys, MultiInsert(k)
      PROVE  Abstract!Next
  <2>1. \E e \in Element \ Range(Contents) : Abstract!Insert(e)
    BY <1>3, InsertSeq
  <2>2. Abstract!Range(Contents) = Range(Contents)
    BY DEF Abstract!Range, Range
  <2> QED
    BY <2>1, <2>2 DEF Abstract!Next
<1>4. ASSUME kind = "multi", NEW k \in MultiKeys, MultiEraseKey(k)
      PROVE  Abstract!Next
  BY <1>4, EraseKeySeq DEF Abstract!Next
<1>5. ASSUME kind = "multi", NEW h \in elements \cup {NoElement}, NEW k \in MultiKeys, MultiInsertHint(h, k)
      PROVE  Abstract!Next
  <2>1. \E e \in Element \ Range(Contents) : \E p \in 1 .. Len(Contents) + 1 : Abstract!InsertHint(p, e)
    BY <1>5, HintSeq
  <2>2. Abstract!Range(Contents) = Range(Contents)
    BY DEF Abstract!Range, Range
  <2> QED
    BY <2>1, <2>2 DEF Abstract!Next
<1>6. ASSUME kind = "multi", NEW e \in elements, MultiErase(e)
      PROVE  Abstract!Next
  BY <1>6, EraseSeq DEF Abstract!Next
<1>7. ASSUME kind = "multi", MultiClear
      PROVE  Abstract!Next
  <2>1. elements' = {}
    BY <1>7, ClearRemoves
  <2>2. Contents' = << >>
    BY <2>1 DEF Listed
  <2> QED
    BY <2>2 DEF Abstract!Next, Abstract!Clear
<1>8. ASSUME kind = "multi", Step, UNCHANGED <<kind, ringVars>>
      PROVE  Contents' = Contents
  <2>1. TreeInv /\ TreeInv' /\ kind' = kind /\ UNCHANGED ringVars
    BY <1>8 DEF MultiInv, RbInv
  <2>2. \/ pc = "clear" /\ (pc' = "clear" \/ (pc' # "clear" /\ nodes' = {}))
        \/ pc # "clear" /\ pc' # "clear" /\ nodes' = nodes
    BY <1>8, <2>1, StepNodes
  <2>3. pc = "clear" => elements' = {}
    <3>1. elements' = elements
      BY <2>1 DEF ringVars
    <3> QED
      BY <3>1, <1>8 DEF MultiInv, RingInv
  <2>4. \/ pc # "clear" /\ pc' # "clear" /\ nodes' = nodes
        \/ pc = "clear" /\ (pc' = "clear" \/ elements' = {})
    BY <2>2, <2>3
  <2> QED
    BY <2>1, <2>4, SameSeq
<1>9. Next => [Abstract!Next]_Contents
  <2> SUFFICES ASSUME Next PROVE [Abstract!Next]_Contents
    OBVIOUS
  <2>1. CASE kind = "multi" /\ MultiNext
    BY <2>1, <1>3, <1>4, <1>5, <1>6, <1>7, <1>8 DEF MultiNext
  <2> QED
    BY <2>1, <1>2 DEF Next
<1> QED
  BY <1>1, <1>9

(* An insertion with a hint does what OrderedMulti says of that hint. *)
LEMMA HintStep ==
  ASSUME MultiInv, MultiInv', Listed, Listed', [Next]_vars
  PROVE  \A e \in elements' \ elements, hint \in elements \cup {NoElement} :
           MultiInsertHint(hint, KeyOf(e)) => Abstract!InsertHint(PlaceOf(hint), e)
<1> SUFFICES ASSUME NEW e \in elements' \ elements, NEW hint \in elements \cup {NoElement},
                    MultiInsertHint(hint, KeyOf(e))
             PROVE  Abstract!InsertHint(PlaceOf(hint), e)
  OBVIOUS
<1>1. kind = "multi" /\ kind' = "multi"
  <2>1. elements' # elements
    OBVIOUS
  <2>2. ~UNCHANGED ringVars
    BY <2>1 DEF ringVars
  <2>3. kind' = kind
    BY DEF MultiInsertHint
  <2> QED
    BY <2>2, <2>3 DEF vars, Next, MultiInv
<1>2. KeyOf(e) \in MultiKeys
  <2>1. elements' \subseteq Element'
    BY <1>1 DEF MultiInv, RingInv
  <2>2. Element' = Element
    BY DEF Element
  <2> QED
    BY <2>1, <2>2 DEF Element, KeyOf
<1>3. PICK d : elements' = elements \cup {d} /\ Abstract!InsertHint(PlaceOf(hint), d)
  BY <1>1, <1>2, HintSeq
<1>4. d = e
  BY <1>3
<1> QED
  BY <1>3, <1>4

(* The multiset of every set of keys implements OrderedMulti: an insertion puts
   the element behind all others with its key, or where the hint says, and
   nothing else than an operation moves an element. *)
THEOREM MultiImplementsOrdered == Spec => IsOrdered
<1>1. MultiInv => Listed
  BY ListedHolds
<1>2. Init => Abstract!Init
  <2> SUFFICES ASSUME Init PROVE Abstract!Init
    OBVIOUS
  <2>1. Listed
    BY MultiInvInit, ListedHolds
  <2> QED
    BY <2>1 DEF Init, Listed, Abstract!Init
<1>3. MultiInv /\ MultiInv' /\ Listed /\ Listed' /\ [Next]_vars => [Abstract!Next]_Contents
  BY MultiStep
<1>4. MultiInv /\ MultiInv' /\ Listed /\ Listed' /\ [Next]_vars =>
        [\A e \in elements' \ elements, hint \in elements \cup {NoElement} :
           MultiInsertHint(hint, KeyOf(e)) => Abstract!InsertHint(PlaceOf(hint), e)]_vars
  BY HintStep
<1> QED
  BY <1>1, <1>2, <1>3, <1>4, MultiInvariant, PTL DEF Spec, IsOrdered, Abstract!Spec
=============================================================================
